------------------------- MODULE BrokerCommandsProofs -------------------------
(***************************************************************************)
(* What the trail says of a call, of a thing after its removal, and of the *)
(* book, for any number of overlapping calls and things.                   *)
(***************************************************************************)
EXTENDS BrokerCommands, TLAPS, FiniteSetTheorems

Rejecting == {"gtt", "mf", "sip"}

\* The book's things do not come back once they are gone.
Keyed == book \in Fresh

AllKinds == Creates \cup Removes \cup
            {"gttModify", "alertModify", "paperEnable", "paperDisable", "paperReset", "withdraw"}

EventTypes == {"created", "modified", "removed", "rejected"}

Events == [call : Calls, type : EventTypes, id : Ids \cup {NoId}]

-----------------------------------------------------------------------------
(* The kinds of commands and the books.                                    *)

\* The commands of a book are known, and say something of the book.
LEMMA BooksOfKinds ==
  ASSUME NEW b \in Books, NEW k \in KindsOf[b]
  PROVE  /\ k \in AllKinds
         /\ k \in {"gttPlace", "gttModify", "gttDelete", "mfPlace", "mfCancel", "sipPlace",
                   "sipCancel"} <=> b \in Rejecting
         /\ k \in {"paperEnable", "paperDisable", "paperReset"} <=> b = "paper"
         /\ k = "convert" <=> b = "position"
         /\ k = "withdraw" <=> b = "consent"
         /\ k \in Creates => (k \in {"alertPlace", "invite"} <=> b \in Anonymous)
BY DEF Books, KindsOf, AllKinds, Creates, Removes, Rejecting, Anonymous

\* What a command may name.
LEMMA TargetsTyped ==
  ASSUME NEW k \in AllKinds, NEW ids \in TargetsOf(k)
  PROVE  /\ ids \in Seq(Ids)
         /\ ids = <<>> <=> k \in Creates
         /\ k # "alertDelete" => Len(ids) <= 1
<1>1. CASE k \in Creates
  <2>1. k # "alertDelete"
    BY <1>1 DEF Creates
  <2>2. ids = <<>>
    BY <1>1, <2>1 DEF TargetsOf
  <2> QED BY <1>1, <2>2
<1>2. CASE k = "alertDelete"
  <2>1. k \notin Creates
    BY <1>2 DEF Creates
  <2>2. ids \in {<<i>> : i \in Ids} \cup {<<i, j>> : i, j \in Ids}
    BY <1>2, <2>1 DEF TargetsOf
  <2>3. ASSUME NEW i \in Ids, ids = <<i>> PROVE ids \in Seq(Ids) /\ ids # <<>>
    BY <2>3
  <2>4. ASSUME NEW i \in Ids, NEW j \in Ids, ids = <<i, j>> PROVE ids \in Seq(Ids) /\ ids # <<>>
    BY <2>4
  <2> QED BY <1>2, <2>1, <2>2, <2>3, <2>4
<1>3. CASE k \notin Creates /\ k # "alertDelete"
  <2>1. PICK i \in Ids : ids = <<i>>
    BY <1>3 DEF TargetsOf
  <2>2. ids \in Seq(Ids) /\ ids # <<>> /\ Len(ids) = 1
    BY <2>1
  <2> QED BY <1>3, <2>2
<1> QED BY <1>1, <1>2, <1>3

-----------------------------------------------------------------------------
(* Types, and what a call has done so far.                                 *)

BookTyped ==
  /\ book \in Books
  /\ held \in SUBSET Ids
  /\ live \in SUBSET Ids
  /\ answer \in [Calls -> Ids \cup {NoId}]

CallTyped ==
  /\ cmd \in [Calls -> [kind : AllKinds \cup {"none"}, ids : Seq(Ids)]]
  /\ pc \in [Calls -> {"idle", "begun", "called", "returned"}]
  /\ wire \in [Calls -> {"none", "sent", "applied", "refused", "partial", "declined", "split"}]
  /\ told \in [Calls -> Nat]
  /\ result \in [Calls -> {"none", "ok", "error"}]
  /\ overlap \in [Calls -> SUBSET Calls]

Typed == BookTyped /\ CallTyped /\ trail \in Seq(Events)

\* How many events a success is told in.
Size(c) == IF cmd[c].ids = <<>> THEN 1 ELSE Len(cmd[c].ids)

\* Where a call is, and what the book has of it.
Sane(c) ==
  /\ cmd[c].kind \in KindsOf[book] \cup {"none"}
  /\ cmd[c].ids = <<>> <=> cmd[c].kind \in Creates \cup {"none"}
  /\ cmd[c].kind # "alertDelete" => Len(cmd[c].ids) <= 1
  /\ pc[c] \in {"idle", "begun"} => wire[c] = "none" /\ told[c] = 0
  /\ pc[c] = "idle" <=> cmd[c].kind = "none"
  /\ wire[c] \in {"none", "sent"} => answer[c] = NoId
  /\ wire[c] \in {"declined", "split"} => Is(c, "convert")
  /\ pc[c] # "returned" => told[c] < Size(c)
  /\ pc[c] = "called" => wire[c] # "none"

AllSane == \A c \in Calls : Sane(c)

-----------------------------------------------------------------------------
(* The use cases take steps of five forms.                                 *)

\* The commands that take things away, and those that only alter them.
Leaves == Removes \cup {"withdraw", "paperDisable"}
Alters == {"gttModify", "alertModify", "paperReset"}

\* The events of a success, by the kind of its command.
TellsOf(c, type, ids) ==
  \/ /\ cmd[c].kind \in Creates
     /\ type = "created" /\ ids = <<IF book \in Anonymous THEN NoId ELSE answer[c]>>
  \/ cmd[c].kind = "paperEnable" /\ type = "created" /\ ids = cmd[c].ids
  \/ cmd[c].kind \in Leaves /\ type = "removed" /\ ids = cmd[c].ids
  \/ cmd[c].kind \in Alters /\ type = "modified" /\ ids = cmd[c].ids

Tells(c) == \E type \in Success, ids \in Seq(Ids \cup {NoId}) :
              TellsOf(c, type, ids) /\ Tell(c, type, ids)

Rejects(c) == book \in Rejecting /\ Reject(c, Named(c))

GivesUp(c) == book \notin Rejecting /\ GiveUp(c)

LEMMA UseCaseSteps ==
  ASSUME Typed, NEW c \in Calls, Sane(c), UseCase(c)
  PROVE  LookupFails(c) \/ Invoke(c) \/ Rejects(c) \/ GivesUp(c) \/ Tells(c)
<1> DEFINE k == cmd[c].kind
<1>1. k # "none" /\ k \in KindsOf[book]
  <2>1. k # "none"
    BY DEF UseCase, PlaceGTT, ModifyGTT, DeleteGTT, PlaceMFOrder, CancelMFOrder, PlaceMFSIP,
           CancelMFSIP, PlaceNativeAlert, ModifyNativeAlert, DeleteNativeAlert, SetTrailingStop,
           CancelTrailingStop, PaperTradingToggle, PaperTradingReset, ConvertPosition,
           InviteFamilyMember, RemoveFamilyMember, WithdrawConsent, Is
  <2> QED BY <2>1 DEF Sane
<1>2. /\ k \in {"gttPlace", "gttModify", "gttDelete", "mfPlace", "mfCancel", "sipPlace",
               "sipCancel"} <=> book \in Rejecting
      /\ k \in AllKinds
      /\ k \in Creates => (k \in {"alertPlace", "invite"} <=> book \in Anonymous)
  BY <1>1, BooksOfKinds DEF Typed, BookTyped
<1>3. cmd[c].ids \in Seq(Ids) /\ answer[c] \in Ids \cup {NoId}
  BY DEF Typed, BookTyped, CallTyped
<1>4. /\ cmd[c].ids \in Seq(Ids \cup {NoId})
      /\ <<answer[c]>> \in Seq(Ids \cup {NoId})
      /\ <<NoId>> \in Seq(Ids \cup {NoId})
  BY <1>3
<1>5. cmd[c].ids = <<>> <=> k \in Creates
  BY <1>1, <1>2 DEF Sane, AllKinds, Creates, Removes
<1>6. Named(c) = IF k \in Creates THEN NoId ELSE Target(c)
  BY <1>5 DEF Named
<1>7. /\ k \in Creates /\ book \notin Anonymous /\ Tell(c, "created", <<answer[c]>>) => Tells(c)
      /\ k \in Creates /\ book \in Anonymous /\ Tell(c, "created", <<NoId>>) => Tells(c)
  BY <1>4 DEF Tells, TellsOf, Success
<1>8. k \in Leaves /\ Tell(c, "removed", cmd[c].ids) => Tells(c)
  BY <1>4 DEF Tells, TellsOf, Success
<1>9. k \in Alters /\ Tell(c, "modified", cmd[c].ids) => Tells(c)
  BY <1>4 DEF Tells, TellsOf, Success
<1>10. k = "paperEnable" /\ Tell(c, "created", cmd[c].ids) => Tells(c)
  BY <1>4 DEF Tells, TellsOf, Success
<1>11. CASE PlaceGTT(c) \/ PlaceMFOrder(c) \/ PlaceMFSIP(c)
  BY <1>2, <1>6, <1>7, <1>11 DEF PlaceGTT, PlaceMFOrder, PlaceMFSIP, Is, Creates, Rejects
<1>12. CASE DeleteGTT(c) \/ CancelMFOrder(c) \/ CancelMFSIP(c)
  BY <1>2, <1>6, <1>8, <1>12
     DEF DeleteGTT, CancelMFOrder, CancelMFSIP, Is, Creates, Leaves, Removes, Rejects
<1>13. CASE ModifyGTT(c)
  BY <1>2, <1>6, <1>9, <1>13 DEF ModifyGTT, Is, Creates, Alters, Rejects
<1>14. CASE PlaceNativeAlert(c) \/ InviteFamilyMember(c)
  BY <1>2, <1>7, <1>14 DEF PlaceNativeAlert, InviteFamilyMember, Is, Creates, GivesUp
<1>15. CASE SetTrailingStop(c)
  BY <1>2, <1>7, <1>15 DEF SetTrailingStop, Is, Creates, GivesUp
<1>16. CASE \/ DeleteNativeAlert(c) \/ CancelTrailingStop(c) \/ ConvertPosition(c)
            \/ RemoveFamilyMember(c) \/ WithdrawConsent(c)
  BY <1>2, <1>8, <1>16 DEF DeleteNativeAlert, CancelTrailingStop, ConvertPosition,
     RemoveFamilyMember, WithdrawConsent, Is, Leaves, Removes, GivesUp
<1>17. CASE ModifyNativeAlert(c) \/ PaperTradingReset(c)
  BY <1>2, <1>9, <1>17 DEF ModifyNativeAlert, PaperTradingReset, Is, Alters, GivesUp
<1>18. CASE PaperTradingToggle(c)
  <2>1. CASE k = "paperEnable"
    BY <1>2, <1>10, <1>18, <2>1 DEF PaperTradingToggle, Is, GivesUp
  <2>2. CASE k # "paperEnable"
    BY <1>2, <1>8, <1>18, <2>2 DEF PaperTradingToggle, Is, Leaves, GivesUp
  <2> QED BY <2>1, <2>2
<1> QED BY <1>11, <1>12, <1>13, <1>14, <1>15, <1>16, <1>17, <1>18 DEF UseCase

\* What a call makes, or changes.
Makes(c, i) ==
  \/ cmd[c].kind \in Creates /\ i = answer[c]
  \/ cmd[c].kind \in {"gttModify", "alertModify"} /\ i = Target(c)

\* What an event says, by the kind of its command.
Says(c, type, id) ==
  \/ /\ cmd[c].kind \in Creates
     /\ type = "created" /\ id = IF book \in Anonymous THEN NoId ELSE answer[c]
  \/ cmd[c].kind = "paperEnable" /\ type = "created"
  \/ cmd[c].kind \in Leaves /\ type = "removed"
  \/ cmd[c].kind \in Alters /\ type = "modified"

\* One event of a success.
Told(c, type, id) ==
  /\ pc[c] = "called" /\ wire[c] \in {"applied", "declined", "split"}
  /\ told' = [told EXCEPT ![c] = @ + 1]
  /\ trail' = Append(trail, Event(c, type, id))
  /\ IF told[c] + 1 = Size(c) THEN Return(c, "ok") ELSE UNCHANGED <<pc, result>>
  /\ UNCHANGED <<bookVars, cmd, wire, answer, overlap>>
  /\ cmd[c].ids # <<>> => id = cmd[c].ids[told[c] + 1] /\ id \in ToSet(cmd[c].ids)
  /\ Says(c, type, id)
  /\ Keyed =>
       /\ wire[c] = "applied"
       /\ type = "removed" => /\ cmd[c].kind \in Removes \cup {"withdraw"}
                              /\ id \in ToSet(cmd[c].ids)
       /\ type \in {"created", "modified"} => id = NoId \/ Makes(c, id)

LEMMA TellsOne ==
  ASSUME Typed, NEW c \in Calls, Sane(c), Tells(c)
  PROVE  \E type \in Success, id \in Ids \cup {NoId} : Told(c, type, id)
<1>1. PICK type \in Success, ids \in Seq(Ids \cup {NoId}) : TellsOf(c, type, ids) /\ Tell(c, type, ids)
  BY DEF Tells
<1> DEFINE n == told[c] + 1
<1> DEFINE id == ids[n]
<1>2. told[c] \in Nat /\ told'[c] = n /\ pc[c] = "called" /\ cmd[c].ids \in Seq(Ids)
  BY <1>1 DEF Tell, Typed, CallTyped
<1>3. told[c] < Size(c)
  BY <1>2 DEF Sane
<1>4. cmd[c].ids = <<>> <=> cmd[c].kind \in Creates
  BY <1>2 DEF Sane, Creates
<1>5. Len(ids) = Size(c) /\ (cmd[c].ids # <<>> => ids = cmd[c].ids)
  <2>1. CASE cmd[c].kind \in Creates
    <3>1. ids \in {<<answer[c]>>, <<NoId>>}
      BY <1>1, <2>1 DEF TellsOf, Creates, Leaves, Removes, Alters
    <3>2. Len(ids) = 1
      BY <3>1
    <3> QED BY <1>4, <2>1, <3>2 DEF Size
  <2>2. CASE cmd[c].kind \notin Creates
    <3>1. ids = cmd[c].ids
      BY <1>1, <2>2 DEF TellsOf, Leaves
    <3> QED BY <1>4, <2>2, <3>1 DEF Size
  <2> QED BY <2>1, <2>2
<1>6. n \in 1..Len(ids) /\ id \in Ids \cup {NoId}
  <2>1. n \in 1..Len(ids)
    BY <1>2, <1>3, <1>5
  <2> QED BY <2>1
<1>7. cmd[c].ids # <<>> => id = cmd[c].ids[n] /\ id \in ToSet(cmd[c].ids)
  BY <1>2, <1>5, <1>6 DEF ToSet
<1>8. ASSUME Keyed
      PROVE  /\ wire[c] = "applied"
             /\ type = "removed" => /\ cmd[c].kind \in Removes \cup {"withdraw"}
                                    /\ id \in ToSet(cmd[c].ids)
             /\ type \in {"created", "modified"} => id = NoId \/ Makes(c, id)
  <2>1. cmd[c].kind \in KindsOf[book]
    BY <1>2 DEF Sane
  <2>2. cmd[c].kind \notin {"paperEnable", "paperDisable", "paperReset", "convert"}
    BY <1>8, <2>1, BooksOfKinds DEF Keyed, Fresh, Typed, BookTyped
  <2>3. wire[c] = "applied"
    BY <1>1, <2>2 DEF Tell, Sane, Is
  <2>4. CASE cmd[c].kind \in Creates
    <3>1. type = "created" /\ ids \in {<<answer[c]>>, <<NoId>>}
      BY <1>1, <2>4 DEF TellsOf, Creates, Leaves, Removes, Alters
    <3>2. n = 1
      BY <1>2, <1>3, <1>4, <2>4 DEF Size
    <3>3. id = answer[c] \/ id = NoId
      BY <3>1, <3>2
    <3> QED BY <2>3, <2>4, <3>1, <3>3 DEF Makes
  <2>5. CASE cmd[c].kind \in Removes \cup {"withdraw"}
    <3>1. type = "removed"
      BY <1>1, <2>5 DEF TellsOf, Creates, Leaves, Removes, Alters
    <3>2. cmd[c].kind \notin Creates
      BY <2>5 DEF Creates, Removes
    <3> QED BY <1>4, <1>7, <2>3, <2>5, <3>1, <3>2
  <2>6. CASE cmd[c].kind \in {"gttModify", "alertModify"}
    <3>1. type = "modified" /\ cmd[c].kind \notin Creates
      BY <1>1, <2>6 DEF TellsOf, Creates, Leaves, Removes, Alters
    <3>2. n = 1
      BY <1>2, <1>3, <1>4, <2>6, <3>1 DEF Size, Sane
    <3> QED BY <1>4, <1>7, <2>3, <2>6, <3>1, <3>2 DEF Makes, Target
  <2> QED BY <1>1, <2>2, <2>4, <2>5, <2>6 DEF TellsOf, Leaves, Alters
<1>9. Says(c, type, id)
  <2>1. CASE cmd[c].kind \in Creates
    <3>1. type = "created" /\ ids = <<IF book \in Anonymous THEN NoId ELSE answer[c]>>
      BY <1>1, <2>1 DEF TellsOf, Creates, Leaves, Removes, Alters
    <3>2. n = 1
      BY <1>2, <1>3, <1>4, <2>1 DEF Size
    <3> QED BY <2>1, <3>1, <3>2 DEF Says
  <2>2. CASE cmd[c].kind \notin Creates
    BY <1>1, <2>2 DEF TellsOf, Says
  <2> QED BY <2>1, <2>2
<1>10. Told(c, type, id)
  BY <1>1, <1>2, <1>5, <1>7, <1>8, <1>9 DEF Tell, Told
<1> QED BY <1>6, <1>10

\* Something comes or goes otherwise than by a command.
Strays(i) == AccountDeleted(i) \/ Goes(i) \/ Comes(i)

\* Every step has one of these forms.
LEMMA NextSteps ==
  ASSUME Typed, AllSane, [BrokerNext]_brokerVars
  PROVE  \/ \E c \in Calls : Begin(c) \/ LookupFails(c) \/ Invoke(c) \/ Rejects(c) \/ GivesUp(c)
                             \/ Apply(c)
         \/ \E c \in Calls, type \in Success, id \in Ids \cup {NoId} : Told(c, type, id)
         \/ \E i \in Ids : Strays(i)
         \/ UNCHANGED brokerVars
<1>1. ASSUME NEW c \in Calls, UseCase(c)
      PROVE  \/ LookupFails(c) \/ Invoke(c) \/ Rejects(c) \/ GivesUp(c)
             \/ \E type \in Success, id \in Ids \cup {NoId} : Told(c, type, id)
  BY <1>1, UseCaseSteps, TellsOne DEF AllSane
<1> QED BY <1>1 DEF BrokerNext, Strays

\* What applying a command does to the book.
LEMMA ApplyReads ==
  ASSUME Typed, NEW c \in Calls, Apply(c)
  PROVE  /\ wire[c] = "sent" /\ wire'[c] \in {"applied", "refused", "partial", "declined", "split"}
         /\ \A d \in Calls \ {c} : wire'[d] = wire[d] /\ answer'[d] = answer[d]
         /\ UNCHANGED <<book, held, elsewhere, cmd, pc, told, result, overlap, trail>>
         /\ wire'[c] \in {"declined", "split"} => Is(c, "convert")
         /\ \/ wire'[c] = "applied" /\ Creation(c)
            \/ wire'[c] = "applied" /\ Removal(c)
            \/ wire'[c] = "applied" /\ Change(c)
            \/ wire'[c] # "applied" /\ live' \subseteq live /\ answer' = answer
<1>1. PICK w \in {"applied", "partial", "refused", "declined", "split"} :
        /\ wire' = [wire EXCEPT ![c] = w]
        /\ CASE w = "applied"  -> Creation(c) \/ Removal(c) \/ Change(c)
             [] w = "partial"  -> PartialRemoval(c)
             [] w = "split"    -> Split(c)
             [] w = "declined" -> Is(c, "convert") /\ UNCHANGED <<live, answer>>
             [] w = "refused"  -> UNCHANGED <<live, answer>>
  BY DEF Apply
<1>2. wire[c] = "sent" /\ UNCHANGED <<book, held, elsewhere, cmd, pc, told, result, overlap, trail>>
  BY DEF Apply
<1>3. wire'[c] = w /\ \A d \in Calls \ {c} : wire'[d] = wire[d]
  BY <1>1 DEF Typed, CallTyped
<1>4. CASE w = "applied"
  <2>1. Creation(c) \/ Removal(c) \/ Change(c)
    BY <1>1, <1>4
  <2>2. \A d \in Calls \ {c} : answer'[d] = answer[d]
    BY <2>1 DEF Creation, Removal, Change, Typed, BookTyped
  <2> QED BY <1>2, <1>3, <1>4, <2>1, <2>2
<1>5. CASE w = "partial"
  <2>1. live' \subseteq live /\ answer' = answer
    BY <1>1, <1>5 DEF PartialRemoval
  <2> QED BY <1>2, <1>3, <1>5, <2>1
<1>6. CASE w \in {"declined", "split", "refused"}
  <2>1. live' = live /\ answer' = answer /\ (w \in {"declined", "split"} => Is(c, "convert"))
    BY <1>1, <1>6 DEF Split
  <2> QED BY <1>2, <1>3, <1>6, <2>1
<1> QED BY <1>4, <1>5, <1>6

LEMMA EventTyped ==
  ASSUME Typed, NEW c \in Calls, NEW type \in EventTypes, NEW id \in Ids \cup {NoId}
  PROVE  Event(c, type, id) \in Events /\ Append(trail, Event(c, type, id)) \in Seq(Events)
<1>1. Event(c, type, id) \in Events
  BY DEF Event, Events
<1> QED BY <1>1 DEF Typed

\* What a call names, it names one of the things; a rejection names that, or nothing.
LEMMA NamedTyped ==
  ASSUME Typed, NEW c \in Calls
  PROVE  /\ Named(c) \in Ids \cup {NoId}
         /\ cmd[c].ids # <<>> => Target(c) \in Ids
BY DEF Typed, CallTyped, Named, Target

\* Every step keeps the types.
LEMMA TypedNext ==
  ASSUME Typed, AllSane, [BrokerNext]_brokerVars
  PROVE  Typed'
<1>1. ASSUME NEW c \in Calls, Begin(c) PROVE Typed'
  <2>1. PICK k \in KindsOf[book] : \E ids \in TargetsOf(k) :
          cmd' = [cmd EXCEPT ![c] = [kind |-> k, ids |-> ids]]
    BY <1>1 DEF Begin
  <2>2. PICK ids \in TargetsOf(k) : cmd' = [cmd EXCEPT ![c] = [kind |-> k, ids |-> ids]]
    BY <2>1
  <2>3. k \in AllKinds /\ ids \in Seq(Ids)
    BY <2>2, BooksOfKinds, TargetsTyped DEF Typed, BookTyped
  <2>4. cmd' \in [Calls -> [kind : AllKinds \cup {"none"}, ids : Seq(Ids)]]
    BY <2>2, <2>3 DEF Typed, CallTyped
  <2>5. /\ pc' \in [Calls -> {"idle", "begun", "called", "returned"}]
        /\ result' \in [Calls -> {"none", "ok", "error"}]
    BY <1>1 DEF Begin, Goto, Return, Typed, CallTyped
  <2>6. overlap' \in [Calls -> SUBSET Calls]
    BY <1>1 DEF Begin, Typed, CallTyped
  <2> QED BY <1>1, <2>4, <2>5, <2>6 DEF Begin, bookVars, Typed, CallTyped, BookTyped
<1>2. ASSUME NEW c \in Calls, LookupFails(c) \/ Invoke(c) \/ GivesUp(c) PROVE Typed'
  <2>1. /\ pc' \in [Calls -> {"idle", "begun", "called", "returned"}]
        /\ result' \in [Calls -> {"none", "ok", "error"}]
        /\ wire' \in [Calls -> {"none", "sent", "applied", "refused", "partial", "declined", "split"}]
    <3> USE DEF Goto, Return, Typed, CallTyped
    <3>1. CASE LookupFails(c) \/ GivesUp(c)
      <4>1. wire' = wire /\ Return(c, "error")
        BY <3>1 DEF LookupFails, GivesUp, GiveUp
      <4> QED BY <4>1
    <3>2. CASE Invoke(c)
      BY <3>2 DEF Invoke
    <3> QED BY <1>2, <3>1, <3>2
  <2>2. UNCHANGED <<bookVars, cmd, answer, told, overlap, trail>>
    BY <1>2 DEF LookupFails, Invoke, GivesUp, GiveUp
  <2> QED BY <2>1, <2>2 DEF bookVars, Typed, CallTyped, BookTyped
<1>3. ASSUME NEW c \in Calls, Rejects(c) PROVE Typed'
  <2>1. trail' \in Seq(Events)
    BY <1>3, EventTyped, NamedTyped DEF Rejects, Reject, EventTypes
  <2> QED BY <1>3, <2>1 DEF Rejects, Reject, Goto, Return, bookVars, Typed, CallTyped, BookTyped
<1>4. ASSUME NEW c \in Calls, NEW type \in Success, NEW id \in Ids \cup {NoId}, Told(c, type, id)
      PROVE  Typed'
  <2>1. trail' \in Seq(Events)
    BY <1>4, EventTyped DEF Told, EventTypes, Success
  <2>2. told' \in [Calls -> Nat]
    BY <1>4 DEF Told, Typed, CallTyped
  <2>3. pc' \in [Calls -> {"idle", "begun", "called", "returned"}]
        /\ result' \in [Calls -> {"none", "ok", "error"}]
    BY <1>4 DEF Told, Goto, Return, Typed, CallTyped
  <2> QED BY <1>4, <2>1, <2>2, <2>3 DEF Told, bookVars, Typed, CallTyped, BookTyped
<1>5. ASSUME NEW c \in Calls, Apply(c) PROVE Typed'
  <2>1. wire' \in [Calls -> {"none", "sent", "applied", "refused", "partial", "declined", "split"}]
    BY <1>5 DEF Apply, Typed, CallTyped
  <2>2. live' \in SUBSET Ids /\ answer' \in [Calls -> Ids \cup {NoId}]
    <3>1. CASE Change(c)
      <4>1. Is(c, "paperEnable") => Target(c) \in Ids
        BY NamedTyped DEF AllSane, Sane, Is, Creates
      <4> QED BY <3>1, <4>1 DEF Change, Typed, BookTyped
    <3>2. CASE ~Change(c)
      BY <1>5, <3>2, ApplyReads DEF Creation, Removal, Typed, BookTyped
    <3> QED BY <3>1, <3>2
  <2> QED BY <1>5, <2>1, <2>2, ApplyReads DEF Typed, CallTyped, BookTyped
<1>6. ASSUME NEW i \in Ids, Strays(i) PROVE Typed'
  BY <1>6 DEF Strays, AccountDeleted, Goes, Comes, Moved, Typed, CallTyped, BookTyped
<1>7. CASE UNCHANGED brokerVars
  BY <1>7 DEF brokerVars, bookVars, Typed, CallTyped, BookTyped
<1> QED BY <1>1, <1>2, <1>3, <1>4, <1>5, <1>6, <1>7, NextSteps

-----------------------------------------------------------------------------
(* Where a call is.                                                        *)

\* A step of a call leaves the others where they are.
LEMMA SaneNext ==
  ASSUME Typed, AllSane, [BrokerNext]_brokerVars
  PROVE  AllSane'
<1> USE DEF Typed, CallTyped, BookTyped, AllSane
<1> SUFFICES ASSUME NEW d \in Calls PROVE Sane(d)'
  OBVIOUS
<1>1. ASSUME NEW c \in Calls, Begin(c) PROVE Sane(d)'
  <2>1. UNCHANGED <<book, wire, answer, told>>
    BY <1>1 DEF Begin, bookVars
  <2>2. CASE d # c
    <3>1. pc'[d] = pc[d] /\ cmd'[d] = cmd[d]
      BY <1>1, <2>2 DEF Begin, Goto, Return
    <3> QED BY <2>1, <3>1 DEF Sane, Size, Is
  <2>3. CASE d = c
    <3>1. PICK k \in KindsOf[book] : \E ids \in TargetsOf(k) :
            cmd' = [cmd EXCEPT ![c] = [kind |-> k, ids |-> ids]]
      BY <1>1 DEF Begin
    <3>2. PICK ids \in TargetsOf(k) : cmd' = [cmd EXCEPT ![c] = [kind |-> k, ids |-> ids]]
      BY <3>1
    <3>3. k \in AllKinds /\ k # "none"
      BY BooksOfKinds DEF AllKinds, Creates, Removes
    <3>4. /\ ids \in Seq(Ids) /\ (ids = <<>> <=> k \in Creates)
          /\ k # "alertDelete" => Len(ids) <= 1
      BY <3>3, TargetsTyped
    <3>5. cmd'[c].kind = k /\ cmd'[c].ids = ids
      BY <3>2
    <3>6. pc'[c] \in {"begun", "returned"} /\ pc[c] = "idle"
      BY <1>1 DEF Begin, Goto, Return
    <3>7. wire[c] = "none" /\ told[c] = 0 /\ answer[c] = NoId
      BY <3>6 DEF Sane
    <3>8. 0 < Size(c)'
      <4>1. Len(ids) \in Nat /\ (ids # <<>> => Len(ids) # 0)
        BY <3>4
      <4> QED BY <3>5, <4>1 DEF Size
    <3> QED BY <2>1, <2>3, <3>1, <3>3, <3>4, <3>5, <3>6, <3>7, <3>8 DEF Sane
  <2> QED BY <2>2, <2>3
<1>2. ASSUME NEW c \in Calls, LookupFails(c) \/ Rejects(c) \/ GivesUp(c) PROVE Sane(d)'
  <2>1. UNCHANGED <<book, cmd, wire, answer, told>> /\ Return(c, "error") /\ pc[c] # "idle"
    BY <1>2 DEF LookupFails, Rejects, GivesUp, Reject, GiveUp, Failed, bookVars
  <2>2. pc'[d] = pc[d] \/ (pc[d] # "idle" /\ pc'[d] = "returned")
    BY <2>1 DEF Return, Goto
  <2> QED BY <2>1, <2>2 DEF Sane, Size, Is
<1>3. ASSUME NEW c \in Calls, Invoke(c) PROVE Sane(d)'
  <2>1. UNCHANGED <<book, cmd, answer, told>> /\ pc[c] = "begun"
    BY <1>3 DEF Invoke, bookVars
  <2>2. CASE d = c
    <3>1. pc'[c] = "called" /\ wire'[c] = "sent"
      BY <1>3 DEF Invoke, Goto
    <3> QED BY <2>1, <2>2, <3>1 DEF Sane, Size, Is
  <2>3. CASE d # c
    <3>1. pc'[d] = pc[d] /\ wire'[d] = wire[d]
      BY <1>3, <2>3 DEF Invoke, Goto
    <3> QED BY <2>1, <3>1 DEF Sane, Size, Is
  <2> QED BY <2>2, <2>3
<1>4. ASSUME NEW c \in Calls, NEW type \in Success, NEW id \in Ids \cup {NoId}, Told(c, type, id)
      PROVE  Sane(d)'
  <2>1. UNCHANGED <<book, cmd, wire, answer>> /\ pc[c] = "called"
    BY <1>4 DEF Told, bookVars
  <2>2. CASE d = c
    <3>1. told'[c] = told[c] + 1 /\ told[c] \in Nat
      BY <1>4 DEF Told
    <3>2. pc'[c] = IF told[c] + 1 = Size(c) THEN "returned" ELSE "called"
      BY <1>4, <2>1 DEF Told, Return, Goto
    <3>3. told[c] < Size(c) /\ Size(c) \in Nat
      BY <2>1 DEF Sane, Size
    <3>4. pc'[c] # "returned" => told'[c] < Size(c)
      BY <3>1, <3>2, <3>3
    <3>5. Size(c)' = Size(c)
      BY <2>1 DEF Size
    <3> QED BY <2>1, <2>2, <3>2, <3>4, <3>5 DEF Sane, Is
  <2>3. CASE d # c
    <3>1. pc'[d] = pc[d] /\ told'[d] = told[d]
      BY <1>4, <2>3 DEF Told, Return, Goto
    <3> QED BY <2>1, <3>1 DEF Sane, Size, Is
  <2> QED BY <2>2, <2>3
<1>5. ASSUME NEW c \in Calls, Apply(c) PROVE Sane(d)'
  <2>1. UNCHANGED <<book, cmd, pc, told>>
    BY <1>5, ApplyReads
  <2>2. CASE d = c
    <3>1. wire[c] = "sent" /\ wire'[c] \in {"applied", "refused", "partial", "declined", "split"}
          /\ (wire'[c] \in {"declined", "split"} => Is(c, "convert"))
      BY <1>5, ApplyReads
    <3> QED BY <2>1, <2>2, <3>1 DEF Sane, Size, Is
  <2>3. CASE d # c
    <3>1. wire'[d] = wire[d] /\ answer'[d] = answer[d]
      BY <1>5, <2>3, ApplyReads
    <3> QED BY <2>1, <3>1 DEF Sane, Size, Is
  <2> QED BY <2>2, <2>3
<1>6. ASSUME NEW i \in Ids, Strays(i) PROVE Sane(d)'
  BY <1>6 DEF Strays, AccountDeleted, Goes, Comes, Moved, Sane, Size, Is
<1>7. CASE UNCHANGED brokerVars
  BY <1>7 DEF brokerVars, bookVars, Sane, Size, Is
<1> QED BY <1>1, <1>2, <1>3, <1>4, <1>5, <1>6, <1>7, NextSteps

\* A step that is not the beginning of a call begins none.
LEMMA Lands ==
  ASSUME Typed, AllSane, [BrokerNext]_brokerVars
  PROVE  \/ \E c \in Calls : Begin(c)
         \/ /\ UNCHANGED <<cmd, overlap>>
            /\ \A d \in Calls : Flying(d)' => Flying(d)
<1> USE DEF Typed, CallTyped, Goto, Return, Flying
<1>1. ASSUME NEW c \in Calls, LookupFails(c) \/ Rejects(c) \/ GivesUp(c)
      PROVE  UNCHANGED <<cmd, overlap>> /\ \A d \in Calls : Flying(d)' => Flying(d)
  BY <1>1 DEF LookupFails, Rejects, GivesUp, Reject, GiveUp
<1>2. ASSUME NEW c \in Calls, Invoke(c)
      PROVE  UNCHANGED <<cmd, overlap>> /\ \A d \in Calls : Flying(d)' => Flying(d)
  BY <1>2 DEF Invoke
<1>3. ASSUME NEW c \in Calls, NEW type \in Success, NEW id \in Ids \cup {NoId}, Told(c, type, id)
      PROVE  UNCHANGED <<cmd, overlap>> /\ \A d \in Calls : Flying(d)' => Flying(d)
  BY <1>3 DEF Told
<1>4. ASSUME NEW c \in Calls, Apply(c)
      PROVE  UNCHANGED <<cmd, overlap>> /\ \A d \in Calls : Flying(d)' => Flying(d)
  BY <1>4, ApplyReads
<1>5. ASSUME NEW i \in Ids, Strays(i)
      PROVE  UNCHANGED <<cmd, overlap>> /\ \A d \in Calls : Flying(d)' => Flying(d)
  BY <1>5 DEF Strays, AccountDeleted, Goes, Comes, Moved
<1>6. CASE UNCHANGED brokerVars
  BY <1>6 DEF brokerVars
<1> QED BY <1>1, <1>2, <1>3, <1>4, <1>5, <1>6, NextSteps

\* Calls that are under way together overlap.
Together == \A c, d \in Calls : c # d /\ Flying(c) /\ Flying(d) => d \in overlap[c]

LEMMA TogetherNext ==
  ASSUME Typed, AllSane, Together, [BrokerNext]_brokerVars
  PROVE  Together'
<1>1. ASSUME NEW c \in Calls, Begin(c) PROVE Together'
  <2>1. \A d \in Calls \ {c} : Flying(d)' <=> Flying(d)
    BY <1>1 DEF Begin, Goto, Return, Flying, Typed, CallTyped
  <2>2. overlap' = [d \in Calls |-> IF d = c THEN {e \in Calls : Flying(e)}
                                    ELSE IF Flying(d) THEN overlap[d] \cup {c} ELSE overlap[d]]
    BY <1>1 DEF Begin
  <2>3. ASSUME NEW d \in Calls, NEW e \in Calls, d # e, Flying(d)', Flying(e)'
        PROVE  e \in overlap'[d]
    <3>1. CASE d = c
      BY <2>1, <2>2, <2>3, <3>1
    <3>2. CASE d # c
      BY <2>1, <2>2, <2>3, <3>2 DEF Together
    <3> QED BY <3>1, <3>2
  <2> QED BY <2>3 DEF Together
<1>2. CASE UNCHANGED <<cmd, overlap>> /\ \A d \in Calls : Flying(d)' => Flying(d)
  BY <1>2 DEF Together
<1> QED BY <1>1, <1>2, Lands

-----------------------------------------------------------------------------
(* What the trail says of a call.                                          *)

LEMMA HeardFinite ==
  ASSUME Typed, NEW c, NEW types
  PROVE  /\ Heard(c, types) \in SUBSET (1..Len(trail)) /\ Len(trail) \in Nat
         /\ \A S \in SUBSET Heard(c, types) : IsFiniteSet(S) /\ Cardinality(S) \in Nat
<1>1. DOMAIN trail = 1..Len(trail) /\ Len(trail) \in Nat
  BY DEF Typed
<1>2. Heard(c, types) \in SUBSET (1..Len(trail))
  BY <1>1 DEF Heard
<1>3. IsFiniteSet(1..Len(trail))
  BY <1>1, FS_Interval
<1>4. ASSUME NEW S \in SUBSET Heard(c, types) PROVE IsFiniteSet(S) /\ Cardinality(S) \in Nat
  <2>1. S \subseteq 1..Len(trail)
    BY <1>2
  <2> QED BY <1>3, <2>1, FS_Subset, FS_CardinalityType
<1> QED BY <1>1, <1>2, <1>4

\* What an event adds to what is heard of a call.
LEMMA HeardAppend ==
  ASSUME Typed, NEW c \in Calls, NEW type \in EventTypes, NEW id \in Ids \cup {NoId},
         trail' = Append(trail, Event(c, type, id))
  PROVE  /\ \A d, types : Heard(d, types)' = IF d = c /\ type \in types
                                             THEN Heard(d, types) \cup {Len(trail) + 1}
                                             ELSE Heard(d, types)
         /\ \A n \in DOMAIN trail : trail'[n] = trail[n]
         /\ trail'[Len(trail) + 1] = Event(c, type, id)
         /\ DOMAIN trail' = DOMAIN trail \cup {Len(trail) + 1}
         /\ Len(trail) + 1 \notin DOMAIN trail
<1> DEFINE e == Event(c, type, id)
<1>1. e \in Events /\ trail \in Seq(Events) /\ e.call = c /\ e.type = type
  BY EventTyped DEF Typed, Event
<1> HIDE DEF e
<1>2. /\ DOMAIN trail = 1..Len(trail) /\ DOMAIN trail' = 1..Len(trail) + 1
      /\ Len(trail) \in Nat
      /\ trail'[Len(trail) + 1] = e
      /\ \A n \in 1..Len(trail) : trail'[n] = trail[n]
  BY <1>1 DEF e
<1>3. DOMAIN trail' = DOMAIN trail \cup {Len(trail) + 1} /\ Len(trail) + 1 \notin DOMAIN trail
  BY <1>2
<1>4. ASSUME NEW d, NEW types
      PROVE  Heard(d, types)' = IF d = c /\ type \in types
                                THEN Heard(d, types) \cup {Len(trail) + 1}
                                ELSE Heard(d, types)
  BY <1>1, <1>2, <1>3 DEF Heard
<1> QED BY <1>2, <1>3, <1>4 DEF e

\* A call has told as many events as it has counted, each under the identifier that
\* comes at its place in the command.
Counting(c) ==
  /\ told[c] = Cardinality(Heard(c, Success))
  /\ cmd[c].ids # <<>> => \A n \in Heard(c, Success) : trail[n].id = cmd[c].ids[Rank(c, n)]

\* How a call has ended.
Ending(c) ==
  LET bad == Heard(c, {"rejected"}) IN
  /\ result[c] = "none" <=> pc[c] # "returned"
  /\ result[c] # "error" => bad = {}
  /\ result[c] = "ok" => told[c] = Size(c)
  /\ result[c] = "error" =>
       /\ told[c] = 0
       /\ IF book \in Rejecting /\ wire[c] # "none"
          THEN \E n \in bad : bad = {n} /\ trail[n].id = Named(c)
          ELSE bad = {}

\* Without an event of its own a call counts as before.
LEMMA CountingKept ==
  ASSUME Typed, NEW d \in Calls, Counting(d), told'[d] = told[d],
         cmd'[d] = cmd[d] \/ told[d] = 0,
         Heard(d, Success)' = Heard(d, Success),
         \A n \in DOMAIN trail : trail'[n] = trail[n]
  PROVE  Counting(d)'
<1>1. \A n : Rank(d, n)' = Rank(d, n)
  BY DEF Rank
<1>2. CASE cmd'[d] = cmd[d]
  BY <1>1, <1>2 DEF Counting, Heard
<1>3. CASE told[d] = 0
  <2>1. Heard(d, Success) = {}
    BY <1>3, HeardFinite, FS_EmptySet DEF Counting
  <2> QED BY <2>1 DEF Counting
<1> QED BY <1>2, <1>3

\* An event of its own is one more, at the next place.
LEMMA CountingTold ==
  ASSUME Typed, NEW c \in Calls, NEW type \in Success, NEW id \in Ids \cup {NoId},
         Told(c, type, id), Counting(c)
  PROVE  Counting(c)'
<1> DEFINE H == Heard(c, Success)
<1>0. PICK l : l = Len(trail) + 1
  OBVIOUS
<1>1. trail' = Append(trail, Event(c, type, id)) /\ type \in EventTypes
  BY DEF Told, Success, EventTypes
<1>2. /\ Heard(c, Success)' = H \cup {l}
      /\ \A n \in DOMAIN trail : trail'[n] = trail[n]
      /\ trail'[l] = Event(c, type, id)
      /\ l \notin DOMAIN trail
  BY <1>0, <1>1, HeardAppend
<1>3. /\ H \in SUBSET (1..Len(trail)) /\ Len(trail) \in Nat /\ H \subseteq DOMAIN trail
      /\ IsFiniteSet(H) /\ Cardinality(H) \in Nat
  BY HeardFinite DEF Heard
<1>4. Cardinality(H \cup {l}) = Cardinality(H) + 1
  BY <1>2, <1>3, FS_AddElement
<1>5. told'[c] = told[c] + 1 /\ cmd' = cmd
  BY DEF Told, Typed, CallTyped
<1>6. told'[c] = Cardinality(H \cup {l})
  BY <1>4, <1>5 DEF Counting
<1>7. ASSUME cmd[c].ids # <<>>, NEW n \in H \cup {l} PROVE trail'[n].id = cmd[c].ids[Rank(c, n)']
  <2>1. CASE n = l
    <3>1. {m \in H \cup {l} : m <= l} = H \cup {l}
      BY <1>0, <1>3
    <3>2. Rank(c, l)' = told[c] + 1
      BY <1>2, <1>5, <1>6, <3>1 DEF Rank
    <3>3. trail'[l].id = id
      BY <1>2 DEF Event
    <3> QED BY <1>7, <2>1, <3>2, <3>3 DEF Told
  <2>2. CASE n # l
    <3>1. n \in H /\ n \in 1..Len(trail)
      BY <1>3, <1>7, <2>2
    <3>2. {m \in H \cup {l} : m <= n} = {m \in H : m <= n}
      BY <1>0, <1>3, <3>1
    <3>3. Rank(c, n)' = Rank(c, n)
      BY <1>2, <3>2 DEF Rank
    <3> QED BY <1>2, <1>3, <1>7, <3>1, <3>3 DEF Counting
  <2> QED BY <2>1, <2>2
<1> QED BY <1>2, <1>5, <1>6, <1>7 DEF Counting

\* Every step keeps the count.
LEMMA CountingNext ==
  ASSUME Typed, AllSane, [BrokerNext]_brokerVars, NEW d \in Calls, Counting(d)
  PROVE  Counting(d)'
<1>1. ASSUME trail' = trail, told' = told, cmd'[d] = cmd[d] \/ told[d] = 0 PROVE Counting(d)'
  BY <1>1, CountingKept DEF Heard
<1>2. ASSUME NEW c \in Calls, Begin(c) PROVE Counting(d)'
  <2>1. trail' = trail /\ told' = told /\ (d # c => cmd'[d] = cmd[d])
    BY <1>2 DEF Begin
  <2>2. told[c] = 0
    BY <1>2 DEF Begin, AllSane, Sane
  <2> QED BY <1>1, <2>1, <2>2
<1>3. ASSUME NEW c \in Calls, LookupFails(c) \/ Invoke(c) \/ GivesUp(c) \/ Apply(c)
      PROVE  Counting(d)'
  <2>1. trail' = trail /\ told' = told /\ cmd' = cmd
    BY <1>3 DEF LookupFails, Invoke, GivesUp, GiveUp, Apply
  <2> QED BY <1>1, <2>1
<1>4. ASSUME NEW c \in Calls, Rejects(c) PROVE Counting(d)'
  <2>1. /\ trail' = Append(trail, Event(c, "rejected", Named(c)))
        /\ told' = told /\ cmd' = cmd /\ Named(c) \in Ids \cup {NoId}
    BY <1>4, NamedTyped DEF Rejects, Reject
  <2>2. "rejected" \in EventTypes /\ "rejected" \notin Success
    BY DEF EventTypes, Success
  <2>3. Heard(d, Success)' = Heard(d, Success) /\ \A n \in DOMAIN trail : trail'[n] = trail[n]
    BY <2>1, <2>2, HeardAppend
  <2> QED BY <2>1, <2>3, CountingKept
<1>5. ASSUME NEW c \in Calls, NEW type \in Success, NEW id \in Ids \cup {NoId}, Told(c, type, id)
      PROVE  Counting(d)'
  <2>1. CASE d = c
    BY <1>5, <2>1, CountingTold
  <2>2. CASE d # c
    <3>1. trail' = Append(trail, Event(c, type, id)) /\ type \in EventTypes
          /\ told'[d] = told[d] /\ cmd' = cmd
      BY <1>5, <2>2 DEF Told, Success, EventTypes, Typed, CallTyped
    <3>2. Heard(d, Success)' = Heard(d, Success) /\ \A n \in DOMAIN trail : trail'[n] = trail[n]
      BY <2>2, <3>1, HeardAppend
    <3> QED BY <3>1, <3>2, CountingKept
  <2> QED BY <2>1, <2>2
<1>6. ASSUME NEW i \in Ids, Strays(i) PROVE Counting(d)'
  BY <1>1, <1>6 DEF Strays, AccountDeleted, Goes, Comes, Moved
<1>7. CASE UNCHANGED brokerVars
  BY <1>1, <1>7 DEF brokerVars
<1> QED BY <1>2, <1>3, <1>4, <1>5, <1>6, <1>7, NextSteps

\* What nobody tells of the others.
SameEnding(d) ==
  /\ pc'[d] = pc[d] /\ result'[d] = result[d] /\ told'[d] = told[d] /\ cmd'[d] = cmd[d]
  /\ book' = book
  /\ wire'[d] = "none" <=> wire[d] = "none"
  /\ Heard(d, {"rejected"})' = Heard(d, {"rejected"})
  /\ \A n \in DOMAIN trail : trail'[n] = trail[n]

LEMMA EndingKept ==
  ASSUME NEW d \in Calls, Ending(d), SameEnding(d)
  PROVE  Ending(d)'
<1>1. Named(d)' = Named(d) /\ Size(d)' = Size(d)
  BY DEF SameEnding, Named, Target, Size
<1>2. Heard(d, {"rejected"}) \subseteq DOMAIN trail
  BY DEF Heard
<1> QED BY <1>1, <1>2 DEF Ending, SameEnding

LEMMA EndingNext ==
  ASSUME Typed, AllSane, [BrokerNext]_brokerVars, NEW d \in Calls, Ending(d)
  PROVE  Ending(d)'
<1> DEFINE bad == Heard(d, {"rejected"})
<1>1. ASSUME NEW c \in Calls, Begin(c) PROVE Ending(d)'
  <2>1. UNCHANGED <<book, wire, told, trail>>
    BY <1>1 DEF Begin, bookVars
  <2>2. bad' = bad
    BY <2>1 DEF Heard
  <2>3. CASE d # c
    <3>1. pc'[d] = pc[d] /\ result'[d] = result[d] /\ cmd'[d] = cmd[d]
      BY <1>1, <2>3 DEF Begin, Goto, Return, Typed, CallTyped
    <3> QED BY <2>1, <2>2, <3>1, EndingKept DEF SameEnding
  <2>4. CASE d = c
    <3>1. /\ pc[c] = "idle" /\ wire[c] = "none" /\ told[c] = 0 /\ result[c] = "none"
          /\ bad = {}
      BY <1>1, <2>4 DEF Begin, AllSane, Sane, Ending
    <3>2. \/ pc'[c] = "begun" /\ result'[c] = "none"
          \/ pc'[c] = "returned" /\ result'[c] = "error"
      BY <1>1, <3>1 DEF Begin, Goto, Return, Typed, CallTyped
    <3> QED BY <2>1, <2>2, <2>4, <3>1, <3>2 DEF Ending
  <2> QED BY <2>3, <2>4
<1>2. ASSUME NEW c \in Calls, LookupFails(c) \/ GivesUp(c) PROVE Ending(d)'
  <2>1. UNCHANGED <<book, cmd, wire, told, trail>> /\ Return(c, "error")
    BY <1>2 DEF LookupFails, GivesUp, GiveUp, bookVars
  <2>2. bad' = bad
    BY <2>1 DEF Heard
  <2>3. CASE d # c
    <3>1. pc'[d] = pc[d] /\ result'[d] = result[d]
      BY <2>1, <2>3 DEF Return, Goto, Typed, CallTyped
    <3> QED BY <2>1, <2>2, <3>1, EndingKept DEF SameEnding
  <2>4. CASE d = c
    <3>1. told[c] = 0 /\ result[c] = "none" /\ bad = {}
      BY <1>2, <2>4 DEF LookupFails, GivesUp, GiveUp, Failed, AllSane, Sane, Ending
    <3>2. wire[c] = "none" \/ book \notin Rejecting
      BY <1>2 DEF LookupFails, GivesUp, AllSane, Sane
    <3>3. pc'[c] = "returned" /\ result'[c] = "error"
      BY <2>1 DEF Return, Goto, Typed, CallTyped
    <3> QED BY <2>1, <2>2, <2>4, <3>1, <3>2, <3>3 DEF Ending
  <2> QED BY <2>3, <2>4
<1>3. ASSUME NEW c \in Calls, Invoke(c) PROVE Ending(d)'
  <2>1. UNCHANGED <<book, cmd, told, result, trail>> /\ pc[c] = "begun" /\ pc'[c] = "called"
        /\ \A e \in Calls \ {c} : pc'[e] = pc[e] /\ wire'[e] = wire[e]
    BY <1>3 DEF Invoke, Goto, bookVars, Typed, CallTyped
  <2>2. bad' = bad
    BY <2>1 DEF Heard
  <2>3. CASE d # c
    BY <2>1, <2>2, <2>3, EndingKept DEF SameEnding
  <2>4. CASE d = c
    BY <2>1, <2>2, <2>4 DEF Ending
  <2> QED BY <2>3, <2>4
<1>4. ASSUME NEW c \in Calls, Rejects(c) PROVE Ending(d)'
  <2>1. /\ trail' = Append(trail, Event(c, "rejected", Named(c)))
        /\ Named(c) \in Ids \cup {NoId} /\ "rejected" \in EventTypes
        /\ UNCHANGED <<book, cmd, wire, told>> /\ Return(c, "error")
    BY <1>4, NamedTyped DEF Rejects, Reject, bookVars, EventTypes
  <2>2. PICK l : l = Len(trail) + 1
    OBVIOUS
  <2>3. /\ bad' = IF d = c THEN bad \cup {l} ELSE bad
        /\ \A n \in DOMAIN trail : trail'[n] = trail[n]
        /\ trail'[l].id = Named(c)
    <3>1. /\ \A e, types : Heard(e, types)' = IF e = c /\ "rejected" \in types
                                              THEN Heard(e, types) \cup {l} ELSE Heard(e, types)
          /\ \A n \in DOMAIN trail : trail'[n] = trail[n]
          /\ trail'[l] = Event(c, "rejected", Named(c))
      BY <2>1, <2>2, HeardAppend
    <3> QED BY <3>1 DEF Event
  <2>4. CASE d # c
    <3>1. pc'[d] = pc[d] /\ result'[d] = result[d]
      BY <2>1, <2>4 DEF Return, Goto, Typed, CallTyped
    <3> QED BY <2>1, <2>3, <2>4, <3>1, EndingKept DEF SameEnding
  <2>5. CASE d = c
    <3>1. told[c] = 0 /\ bad = {} /\ wire[c] # "none" /\ book \in Rejecting
      BY <1>4, <2>5 DEF Rejects, Reject, Failed, AllSane, Sane, Ending
    <3>2. pc'[c] = "returned" /\ result'[c] = "error"
      BY <2>1 DEF Return, Goto, Typed, CallTyped
    <3>3. Named(c)' = Named(c)
      BY <2>1 DEF Named, Target
    <3>4. bad' = {l} /\ trail'[l].id = Named(c)'
      BY <2>3, <2>5, <3>1, <3>3
    <3> QED BY <2>1, <2>5, <3>1, <3>2, <3>4 DEF Ending
  <2> QED BY <2>4, <2>5
<1>5. ASSUME NEW c \in Calls, NEW type \in Success, NEW id \in Ids \cup {NoId}, Told(c, type, id)
      PROVE  Ending(d)'
  <2>1. /\ trail' = Append(trail, Event(c, type, id))
        /\ type \in EventTypes /\ type # "rejected"
        /\ UNCHANGED <<book, cmd, wire>> /\ pc[c] = "called"
    BY <1>5 DEF Told, bookVars, EventTypes, Success
  <2>2. bad' = bad /\ \A n \in DOMAIN trail : trail'[n] = trail[n]
    BY <2>1, HeardAppend
  <2>3. CASE d # c
    <3>1. pc'[d] = pc[d] /\ result'[d] = result[d] /\ told'[d] = told[d]
      BY <1>5, <2>3 DEF Told, Return, Goto, Typed, CallTyped
    <3> QED BY <2>1, <2>2, <3>1, EndingKept DEF SameEnding
  <2>4. CASE d = c
    <3>1. result[c] = "none" /\ bad = {}
      BY <2>1, <2>4 DEF Ending
    <3>2. told'[c] = told[c] + 1
      BY <1>5 DEF Told, Typed, CallTyped
    <3>3. \/ pc'[c] = "returned" /\ result'[c] = "ok" /\ told[c] + 1 = Size(c)
          \/ pc'[c] = "called" /\ result'[c] = "none"
      BY <1>5, <2>1, <3>1 DEF Told, Return, Goto, Typed, CallTyped
    <3>4. Size(c)' = Size(c)
      BY <2>1 DEF Size
    <3> QED BY <2>2, <2>4, <3>1, <3>2, <3>3, <3>4 DEF Ending
  <2> QED BY <2>3, <2>4
<1>6. ASSUME NEW c \in Calls, Apply(c) PROVE Ending(d)'
  <2>1. UNCHANGED <<book, cmd, pc, told, result, trail>> /\ (wire'[d] = "none" <=> wire[d] = "none")
    BY <1>6, ApplyReads
  <2>2. bad' = bad
    BY <2>1 DEF Heard
  <2> QED BY <2>1, <2>2, EndingKept DEF SameEnding
<1>7. CASE (\E i \in Ids : Strays(i)) \/ UNCHANGED brokerVars
  <2>1. UNCHANGED <<book, cmd, pc, wire, told, result, trail>>
    BY <1>7 DEF Strays, AccountDeleted, Goes, Comes, Moved, brokerVars, bookVars
  <2>2. bad' = bad
    BY <2>1 DEF Heard
  <2> QED BY <2>1, <2>2, EndingKept DEF SameEnding
<1> QED BY <1>1, <1>2, <1>3, <1>4, <1>5, <1>6, <1>7, NextSteps

-----------------------------------------------------------------------------
(* What the trail says of a thing after its removal.  Two facts carry it:  *)
(* what a removal took from the book is gone for good (Gone), so that no   *)
(* later call can have made or changed it; and calls that are under way    *)
(* together overlap (Together), so that a call which made or changed it    *)
(* before and tells of it after was one of these (Late).                   *)

\* What an event says of the call it is of.
EventBacked(e) ==
  /\ pc[e.call] \in {"called", "returned"}
  /\ e.type = "removed" =>
       /\ wire[e.call] = "applied"
       /\ cmd[e.call].kind \in Removes \cup {"withdraw"}
       /\ e.id \in ToSet(cmd[e.call].ids)

AllBacked == Keyed => \A n \in DOMAIN trail : EventBacked(trail[n])

\* The identifiers that are in use, or were: held at first, given out by a command, or
\* of something that came or went otherwise.
Used == Given \cup elsewhere

\* What the book holds is among them.
Known == Keyed => live \subseteq Used

\* What was removed is gone, and its name is not given out again.
Gone ==
  Keyed => \A c \in Calls :
    wire[c] = "applied" /\ cmd[c].kind \in Removes =>
      ToSet(cmd[c].ids) \cap live = {} /\ ToSet(cmd[c].ids) \subseteq Used

\* Who may still tell of a thing whose removal has been told.
Late ==
  Keyed => \A n \in DOMAIN trail, d \in Calls :
    /\ trail[n].type = "removed" /\ Flying(d) /\ wire[d] = "applied"
    /\ Makes(d, trail[n].id)
    => trail[n].call \in overlap[d]

LEMMA TrailTyped ==
  ASSUME Typed
  PROVE  \A n \in DOMAIN trail : trail[n] \in Events /\ trail[n].call \in Calls
<1>1. \A n \in DOMAIN trail : trail[n] \in Events
  BY DEF Typed
<1> QED BY <1>1 DEF Events

\* An event stands for a step that its call has taken.
LEMMA AllBackedNext ==
  ASSUME Typed, AllSane, AllBacked, [BrokerNext]_brokerVars
  PROVE  AllBacked'
<1>1. ASSUME book' = book, trail' = trail,
             \A d \in Calls : pc[d] \in {"called", "returned"} =>
               /\ pc'[d] \in {"called", "returned"} /\ cmd'[d] = cmd[d]
               /\ wire[d] = "applied" => wire'[d] = "applied"
      PROVE  AllBacked'
  <2>1. \A n \in DOMAIN trail : trail[n].call \in Calls
    BY TrailTyped
  <2> QED BY <1>1, <2>1 DEF EventBacked, AllBacked, Keyed
<1>2. ASSUME NEW c \in Calls,
             Begin(c) \/ LookupFails(c) \/ Invoke(c) \/ GivesUp(c)
      PROVE  AllBacked'
  <2>1. UNCHANGED <<book, trail>>
    BY <1>2 DEF Begin, LookupFails, Invoke, GivesUp, GiveUp, bookVars
  <2>2. \A d \in Calls : pc[d] \in {"called", "returned"} =>
          pc'[d] \in {"called", "returned"} /\ cmd'[d] = cmd[d]
    <3> USE DEF Goto, Return, Typed, CallTyped
    <3>1. CASE Begin(c)
      <4>1. pc[c] = "idle" /\ \A d \in Calls \ {c} : cmd'[d] = cmd[d] /\ pc'[d] = pc[d]
        BY <3>1 DEF Begin
      <4> QED BY <4>1
    <3>2. CASE LookupFails(c) \/ Invoke(c) \/ GivesUp(c)
      <4>1. cmd' = cmd /\ \E l \in {"called", "returned"} : pc' = [pc EXCEPT ![c] = l]
        BY <3>2 DEF LookupFails, Invoke, GivesUp, GiveUp
      <4> QED BY <4>1
    <3> QED BY <1>2, <3>1, <3>2
  <2>3. \A d \in Calls : wire[d] = "applied" => wire'[d] = "applied"
    <3>1. CASE Invoke(c)
      BY <3>1 DEF Invoke, AllSane, Sane, Typed, CallTyped
    <3>2. CASE ~Invoke(c)
      BY <1>2, <3>2 DEF Begin, LookupFails, GivesUp, GiveUp
    <3> QED BY <3>1, <3>2
  <2> QED BY <1>1, <2>1, <2>2, <2>3
<1>3. ASSUME NEW c \in Calls, NEW type \in EventTypes, NEW id \in Ids \cup {NoId},
             trail' = Append(trail, Event(c, type, id)),
             UNCHANGED <<book, cmd, wire>>, pc[c] = "called",
             pc' = pc \/ pc' = [pc EXCEPT ![c] = "returned"],
             Keyed /\ type = "removed" =>
               /\ wire[c] = "applied" /\ cmd[c].kind \in Removes \cup {"withdraw"}
               /\ id \in ToSet(cmd[c].ids)
      PROVE  AllBacked'
  <2>1. \A d \in Calls : pc[d] \in {"called", "returned"} => pc'[d] \in {"called", "returned"}
    BY <1>3 DEF Typed, CallTyped
  <2>2. PICK l : l = Len(trail) + 1
    OBVIOUS
  <2>3. /\ DOMAIN trail' = DOMAIN trail \cup {l}
        /\ trail'[l] = Event(c, type, id)
        /\ \A n \in DOMAIN trail : trail'[n] = trail[n]
    BY <1>3, <2>2, HeardAppend
  <2>4. \A n \in DOMAIN trail : trail[n].call \in Calls
    BY TrailTyped
  <2>5. ASSUME Keyed, NEW n \in DOMAIN trail PROVE EventBacked(trail[n])'
    BY <1>3, <2>1, <2>3, <2>4, <2>5 DEF EventBacked, AllBacked
  <2>6. ASSUME Keyed PROVE EventBacked(trail[l])'
    BY <1>3, <2>1, <2>3, <2>6 DEF EventBacked, Event
  <2> QED BY <1>3, <2>3, <2>5, <2>6 DEF AllBacked, Keyed
<1>4. ASSUME NEW c \in Calls, Rejects(c) PROVE AllBacked'
  <2>1. /\ trail' = Append(trail, Event(c, "rejected", Named(c)))
        /\ Named(c) \in Ids \cup {NoId} /\ "rejected" \in EventTypes
        /\ UNCHANGED <<book, cmd, wire>> /\ pc[c] = "called"
        /\ pc' = [pc EXCEPT ![c] = "returned"]
    BY <1>4, NamedTyped DEF Rejects, Reject, Failed, Return, Goto, bookVars, EventTypes
  <2> QED BY <1>3, <2>1
<1>5. ASSUME NEW c \in Calls, NEW type \in Success, NEW id \in Ids \cup {NoId}, Told(c, type, id)
      PROVE  AllBacked'
  <2>1. /\ trail' = Append(trail, Event(c, type, id)) /\ type \in EventTypes
        /\ UNCHANGED <<book, cmd, wire>> /\ pc[c] = "called"
    BY <1>5 DEF Told, bookVars, EventTypes, Success
  <2>2. pc' = pc \/ pc' = [pc EXCEPT ![c] = "returned"]
    BY <1>5 DEF Told, Return, Goto
  <2>3. Keyed /\ type = "removed" =>
          /\ wire[c] = "applied" /\ cmd[c].kind \in Removes \cup {"withdraw"}
          /\ id \in ToSet(cmd[c].ids)
    BY <1>5 DEF Told
  <2> QED BY <1>3, <2>1, <2>2, <2>3
<1>6. ASSUME NEW c \in Calls, Apply(c) PROVE AllBacked'
  <2>1. \A d \in Calls : wire[d] = "applied" => wire'[d] = "applied"
    BY <1>6, ApplyReads
  <2>2. UNCHANGED <<book, cmd, pc, trail>>
    BY <1>6, ApplyReads
  <2> QED BY <1>1, <2>1, <2>2
<1>7. CASE (\E i \in Ids : Strays(i)) \/ UNCHANGED brokerVars
  <2>1. UNCHANGED <<book, cmd, pc, wire, trail>>
    BY <1>7 DEF Strays, AccountDeleted, Goes, Comes, Moved, brokerVars, bookVars
  <2> QED BY <1>1, <2>1
<1> QED BY <1>2, <1>4, <1>5, <1>6, <1>7, NextSteps

\* What happens to the book when nothing is applied to it.
LEMMA BookKept ==
  ASSUME Typed, AllSane, [BrokerNext]_brokerVars
  PROVE  \/ \E c \in Calls : Apply(c)
         \/ /\ UNCHANGED <<book, held, answer>>
            /\ elsewhere \subseteq elsewhere'
            /\ live' \subseteq live \cup elsewhere'
            /\ Keyed => live' \subseteq live \cup (Ids \ Used)
            /\ \A d \in Calls : /\ wire'[d] = "applied" => wire[d] = "applied"
                                /\ wire[d] = "applied" => cmd'[d] = cmd[d]
<1> DEFINE Quiet == /\ UNCHANGED <<book, held, answer>>
                    /\ elsewhere \subseteq elsewhere'
                    /\ live' \subseteq live \cup elsewhere'
                    /\ Keyed => live' \subseteq live \cup (Ids \ Used)
                    /\ \A d \in Calls : /\ wire'[d] = "applied" => wire[d] = "applied"
                                        /\ wire[d] = "applied" => cmd'[d] = cmd[d]
<1>1. ASSUME NEW c \in Calls, Begin(c) PROVE Quiet
  <2>1. wire[c] = "none" /\ wire' = wire /\ UNCHANGED <<book, held, live, elsewhere, answer>>
    BY <1>1 DEF Begin, bookVars, AllSane, Sane
  <2>2. \A d \in Calls \ {c} : cmd'[d] = cmd[d]
    BY <1>1 DEF Begin
  <2> QED BY <2>1, <2>2
<1>2. ASSUME NEW c \in Calls, Invoke(c) PROVE Quiet
  BY <1>2 DEF Invoke, bookVars, Typed, CallTyped
<1>3. ASSUME NEW c \in Calls, LookupFails(c) \/ Rejects(c) \/ GivesUp(c) PROVE Quiet
  BY <1>3 DEF LookupFails, Rejects, GivesUp, Reject, GiveUp, bookVars
<1>4. ASSUME NEW c \in Calls, NEW type \in Success, NEW id \in Ids \cup {NoId}, Told(c, type, id)
      PROVE  Quiet
  BY <1>4 DEF Told, bookVars
<1>5. CASE (\E i \in Ids : Strays(i)) \/ UNCHANGED brokerVars
  BY <1>5 DEF Strays, AccountDeleted, Goes, Comes, Moved, Keyed, Fresh, Used, brokerVars, bookVars
<1> QED BY <1>1, <1>2, <1>3, <1>4, <1>5, NextSteps

\* What a keyed book applies, it never brings back.
LEMMA AppliesKeyed ==
  ASSUME Typed, AllSane, Keyed, NEW c \in Calls, Apply(c)
  PROVE  /\ Used \subseteq Used' \cup {NoId}
         /\ live' \subseteq live \cup (Ids \ Used)
         /\ live' \subseteq live \cup Used'
         /\ \/ answer' = answer
            \/ cmd[c].kind \in Creates /\ answer'[c] \in Ids \ Used
         /\ wire'[c] = "applied" /\ cmd[c].kind \in Removes =>
              ToSet(cmd[c].ids) \subseteq live /\ ToSet(cmd[c].ids) \cap live' = {}
         /\ wire'[c] = "applied" /\ cmd[c].kind \in {"gttModify", "alertModify"} =>
              Target(c) \in live
<1>1. wire[c] = "sent" /\ answer[c] = NoId /\ cmd[c].kind \in KindsOf[book]
  <2>1. wire[c] = "sent"
    BY ApplyReads
  <2> QED BY <2>1 DEF AllSane, Sane
<1>2. cmd[c].kind \notin {"paperEnable", "paperDisable", "paperReset", "convert"}
  BY <1>1, BooksOfKinds DEF Keyed, Fresh, Typed, BookTyped
<1>3. held' = held /\ elsewhere' = elsewhere /\ \A d \in Calls \ {c} : answer'[d] = answer[d]
  BY ApplyReads
<1>4. Used \subseteq Used' \cup {NoId}
  BY <1>1, <1>3 DEF Given, Used
<1>5. CASE Creation(c)
  <2>1. PICK i \in Ids \ Used : live' = live \cup {i} /\ answer' = [answer EXCEPT ![c] = i]
    BY <1>5 DEF Creation, Used
  <2>2. answer'[c] = i /\ i \in Used'
    BY <2>1 DEF Typed, BookTyped, Given, Used
  <2>3. cmd[c].kind \in Creates /\ cmd[c].kind \notin Removes \cup {"gttModify", "alertModify"}
    BY <1>5 DEF Creation, Creates, Removes
  <2> QED BY <1>4, <2>1, <2>2, <2>3
<1>6. CASE Removal(c)
  <2>1. /\ answer' = answer /\ live' = live \ ToSet(cmd[c].ids)
        /\ cmd[c].kind \notin {"gttModify", "alertModify"}
        /\ cmd[c].kind \in Removes => ToSet(cmd[c].ids) \subseteq live
    BY <1>6, <1>2 DEF Removal, Removes
  <2> QED BY <1>4, <2>1
<1>7. CASE Change(c)
  <2>1. /\ answer' = answer /\ live' = live /\ Target(c) \in live /\ cmd[c].kind \notin Removes
    BY <1>2, <1>7 DEF Change, Removes, Is
  <2> QED BY <1>4, <2>1
<1>8. CASE wire'[c] # "applied" /\ live' \subseteq live /\ answer' = answer
  BY <1>4, <1>8
<1> QED BY <1>5, <1>6, <1>7, <1>8, ApplyReads

\* What a call names are things.
LEMMA NamesTyped ==
  ASSUME Typed, NEW c \in Calls
  PROVE  ToSet(cmd[c].ids) \subseteq Ids /\ (cmd[c].ids # <<>> => Target(c) \in ToSet(cmd[c].ids))
BY DEF Typed, CallTyped, ToSet, Target

\* A thing that was removed is gone for good.
LEMMA GoneNext ==
  ASSUME Typed, AllSane, Known, Gone, [BrokerNext]_brokerVars
  PROVE  Known' /\ Gone'
<1>1. CASE ~\E c \in Calls : Apply(c)
  <2>1. /\ UNCHANGED <<book, held, answer>> /\ elsewhere \subseteq elsewhere'
        /\ live' \subseteq live \cup elsewhere'
        /\ Keyed => live' \subseteq live \cup (Ids \ Used)
        /\ \A d \in Calls : /\ wire'[d] = "applied" => wire[d] = "applied"
                            /\ wire[d] = "applied" => cmd'[d] = cmd[d]
    BY <1>1, BookKept
  <2>2. Used \subseteq Used' /\ elsewhere' \subseteq Used'
    BY <2>1 DEF Used, Given
  <2>3. Known'
    BY <2>1, <2>2 DEF Known, Keyed
  <2>4. Gone'
    BY <2>1, <2>2 DEF Gone, Keyed
  <2> QED BY <2>3, <2>4
<1>2. ASSUME NEW c \in Calls, Apply(c), Keyed PROVE Known' /\ Gone'
  <2>1. /\ Used \subseteq Used' \cup {NoId}
        /\ live' \subseteq live \cup (Ids \ Used)
        /\ live' \subseteq live \cup Used'
        /\ wire'[c] = "applied" /\ cmd[c].kind \in Removes =>
             ToSet(cmd[c].ids) \subseteq live /\ ToSet(cmd[c].ids) \cap live' = {}
    BY <1>2, AppliesKeyed
  <2>2. live \subseteq Used /\ live \subseteq Ids /\ NoId \notin Ids
    BY <1>2, NoIdAssumption DEF Known, Typed, BookTyped
  <2>3. live' \subseteq Used'
    BY <2>1, <2>2
  <2>4. cmd' = cmd /\ \A d \in Calls \ {c} : wire'[d] = wire[d]
    BY <1>2, ApplyReads
  <2>5. ASSUME NEW d \in Calls, wire'[d] = "applied", cmd[d].kind \in Removes
        PROVE  ToSet(cmd[d].ids) \cap live' = {} /\ ToSet(cmd[d].ids) \subseteq Used'
    <3>1. ToSet(cmd[d].ids) \subseteq Ids
      BY NamesTyped
    <3>2. CASE d = c
      BY <2>1, <2>2, <2>5, <3>1, <3>2
    <3>3. CASE d # c
      <4>1. ToSet(cmd[d].ids) \cap live = {} /\ ToSet(cmd[d].ids) \subseteq Used
        BY <1>2, <2>4, <2>5, <3>3 DEF Gone
      <4> QED BY <2>1, <2>2, <3>1, <4>1
    <3> QED BY <3>2, <3>3
  <2> QED BY <2>3, <2>4, <2>5 DEF Known, Gone
<1>3. ASSUME NEW c \in Calls, Apply(c), ~Keyed PROVE Known' /\ Gone'
  <2>1. ~Keyed'
    BY <1>3, ApplyReads DEF Keyed
  <2> QED BY <2>1 DEF Known, Gone
<1> QED BY <1>1, <1>2, <1>3

\* A call under way or over meets more calls, and forgets none.
LEMMA OverlapGrows ==
  ASSUME Typed, AllSane, [BrokerNext]_brokerVars, NEW d \in Calls, pc[d] # "idle"
  PROVE  overlap[d] \subseteq overlap'[d] /\ (Flying(d)' => Flying(d)) /\ cmd'[d] = cmd[d]
<1>1. ASSUME NEW c \in Calls, Begin(c)
      PROVE  overlap[d] \subseteq overlap'[d] /\ (Flying(d)' => Flying(d)) /\ cmd'[d] = cmd[d]
  <2>1. d # c
    BY <1>1 DEF Begin
  <2> QED BY <1>1, <2>1 DEF Begin, Flying, Goto, Return, Typed, CallTyped
<1> QED BY <1>1, Lands

\* Nothing but a success tells of one.
LEMMA TrailSteps ==
  ASSUME Typed, AllSane, [BrokerNext]_brokerVars
  PROVE  /\ DOMAIN trail \subseteq DOMAIN trail'
         /\ \A n \in DOMAIN trail : trail'[n] = trail[n]
         /\ \A n \in DOMAIN trail' \ DOMAIN trail :
              /\ \A m \in DOMAIN trail' : m < n => m \in DOMAIN trail
              /\ \/ trail'[n].type = "rejected"
                 \/ \E c \in Calls, type \in Success, id \in Ids \cup {NoId} :
                      Told(c, type, id) /\ trail'[n] = Event(c, type, id)
<1> DEFINE Steps ==
      /\ DOMAIN trail \subseteq DOMAIN trail'
      /\ \A n \in DOMAIN trail : trail'[n] = trail[n]
      /\ \A n \in DOMAIN trail' \ DOMAIN trail :
           /\ \A m \in DOMAIN trail' : m < n => m \in DOMAIN trail
           /\ \/ trail'[n].type = "rejected"
              \/ \E c \in Calls, type \in Success, id \in Ids \cup {NoId} :
                   Told(c, type, id) /\ trail'[n] = Event(c, type, id)
<1>1. ASSUME trail' = trail PROVE Steps
  BY <1>1
<1>2. ASSUME NEW c \in Calls, NEW type \in EventTypes, NEW id \in Ids \cup {NoId},
             trail' = Append(trail, Event(c, type, id)),
             type = "rejected" \/ (type \in Success /\ Told(c, type, id))
      PROVE  Steps
  <2>1. PICK l : l = Len(trail) + 1
    OBVIOUS
  <2>2. /\ DOMAIN trail' = DOMAIN trail \cup {l}
        /\ trail'[l] = Event(c, type, id)
        /\ \A n \in DOMAIN trail : trail'[n] = trail[n]
    BY <1>2, <2>1, HeardAppend
  <2>3. \A m \in DOMAIN trail' : m < l => m \in DOMAIN trail
    <3>1. DOMAIN trail = 1..Len(trail) /\ Len(trail) \in Nat
      BY DEF Typed
    <3> QED BY <2>1, <2>2, <3>1
  <2>4. trail'[l].type = type
    BY <2>2 DEF Event
  <2> QED BY <1>2, <2>2, <2>3, <2>4
<1>3. ASSUME NEW c \in Calls, Begin(c) \/ LookupFails(c) \/ Invoke(c) \/ GivesUp(c) \/ Apply(c)
      PROVE  Steps
  BY <1>1, <1>3 DEF Begin, LookupFails, Invoke, GivesUp, GiveUp, Apply
<1>4. ASSUME NEW c \in Calls, Rejects(c) PROVE Steps
  <2>1. trail' = Append(trail, Event(c, "rejected", Named(c))) /\ "rejected" \in EventTypes
    BY <1>4 DEF Rejects, Reject, EventTypes
  <2> QED BY <1>2, <2>1, NamedTyped
<1>5. ASSUME NEW c \in Calls, NEW type \in Success, NEW id \in Ids \cup {NoId}, Told(c, type, id)
      PROVE  Steps
  BY <1>2, <1>5 DEF Told, Success, EventTypes
<1>6. CASE (\E i \in Ids : Strays(i)) \/ UNCHANGED brokerVars
  BY <1>1, <1>6 DEF Strays, AccountDeleted, Goes, Comes, Moved, brokerVars
<1>7. Steps
  BY <1>3, <1>4, <1>5, <1>6, NextSteps
<1> QED BY <1>7

\* What is applied after a removal was told does not concern the thing removed.
LEMMA RemovedIsOver ==
  ASSUME Typed, AllSane, AllBacked, Gone, Keyed, NEW c \in Calls, Apply(c), wire'[c] = "applied",
         NEW n \in DOMAIN trail, trail[n].type = "removed", Makes(c, trail[n].id)'
  PROVE  FALSE
<1> DEFINE e == trail[n]
<1>1. /\ e.call \in Calls /\ wire[e.call] = "applied"
      /\ cmd[e.call].kind \in Removes \cup {"withdraw"} /\ e.id \in ToSet(cmd[e.call].ids)
  BY TrailTyped DEF AllBacked, EventBacked
<1>2. e.id \in Ids
  BY <1>1, NamesTyped
<1>3. /\ wire[c] = "sent" /\ UNCHANGED <<cmd, trail>>
      /\ answer[c] = NoId /\ cmd[c].kind \in KindsOf[book]
  <2>1. wire[c] = "sent" /\ UNCHANGED <<cmd, trail>>
    BY ApplyReads
  <2> QED BY <2>1 DEF AllSane, Sane
<1>4. \/ cmd[c].kind \in Creates /\ e.id = answer'[c]
      \/ cmd[c].kind \in {"gttModify", "alertModify"} /\ e.id = Target(c)
  BY <1>3 DEF Makes, Target
<1>5. cmd[e.call].kind \in Removes
  <2>1. CASE cmd[e.call].kind = "withdraw"
    <3>1. cmd[e.call].kind \in KindsOf[book]
      BY <1>1, <2>1 DEF AllSane, Sane
    <3>2. book = "consent"
      BY <2>1, <3>1, BooksOfKinds DEF Typed, BookTyped
    <3>3. cmd[c].kind = "withdraw"
      BY <1>3, <3>2, BooksOfKinds DEF Typed, BookTyped
    <3> QED BY <1>4, <3>3 DEF Creates
  <2> QED BY <1>1, <2>1
<1>6. e.id \notin live /\ e.id \in Used
  BY <1>1, <1>5 DEF Gone
<1>7. \/ answer' = answer
      \/ cmd[c].kind \in Creates /\ answer'[c] \in Ids \ Used
  BY AppliesKeyed
<1>8. cmd[c].kind \in {"gttModify", "alertModify"} => Target(c) \in live
  BY AppliesKeyed
<1> QED BY <1>2, <1>3, <1>4, <1>6, <1>7, <1>8, NoIdAssumption

LEMMA LateNext ==
  ASSUME Typed, AllSane, Together, AllBacked, Gone, Late, [BrokerNext]_brokerVars
  PROVE  Late'
<1> SUFFICES ASSUME Keyed', NEW n \in DOMAIN trail', NEW d \in Calls,
                    trail'[n].type = "removed", Flying(d)', wire'[d] = "applied",
                    Makes(d, trail[n].id)'
             PROVE  trail'[n].call \in overlap'[d]
  BY DEF Late
<1>1. Keyed
  <2>1. UNCHANGED book
    BY BookKept, ApplyReads
  <2> QED BY <2>1 DEF Keyed
<1>2. CASE n \in DOMAIN trail
  <2>1. trail'[n] = trail[n]
    BY <1>2, TrailSteps
  <2>2. CASE wire[d] = "applied" /\ Makes(d, trail[n].id)
    <3>1. pc[d] # "idle"
      BY <2>2 DEF AllSane, Sane
    <3>2. Flying(d) /\ overlap[d] \subseteq overlap'[d]
      BY <3>1, OverlapGrows
    <3> QED BY <1>1, <1>2, <2>1, <2>2, <3>2 DEF Late
  <2>3. CASE \E c \in Calls : Apply(c)
    <3>1. PICK c \in Calls : Apply(c)
      BY <2>3
    <3>2. CASE d = c
      BY <1>1, <1>2, <2>1, <3>1, <3>2, RemovedIsOver
    <3>3. CASE d # c
      <4>1. wire'[d] = wire[d] /\ answer'[d] = answer[d] /\ cmd' = cmd
        BY <3>1, <3>3, ApplyReads
      <4> QED BY <2>1, <2>2, <4>1 DEF Makes, Target
    <3> QED BY <3>2, <3>3
  <2>4. CASE ~\E c \in Calls : Apply(c)
    <3>1. wire[d] = "applied" /\ answer' = answer /\ cmd'[d] = cmd[d]
      BY <2>4, BookKept
    <3> QED BY <2>1, <2>2, <3>1 DEF Makes, Target
  <2> QED BY <2>3, <2>4
<1>3. CASE n \notin DOMAIN trail
  <2>1. PICK c \in Calls, type \in Success, id \in Ids \cup {NoId} :
          Told(c, type, id) /\ trail'[n] = Event(c, type, id)
    BY <1>3, TrailSteps
  <2>2. type = "removed" /\ trail'[n].id = id /\ trail'[n].call = c
    BY <2>1 DEF Event
  <2>3. UNCHANGED <<cmd, wire, answer, overlap>> /\ pc[c] = "called"
    BY <2>1 DEF Told
  <2>4. cmd[c].kind \in Removes \cup {"withdraw"}
    BY <1>1, <2>1, <2>2 DEF Told
  <2>5. cmd[d].kind \in Creates \cup {"gttModify", "alertModify"}
    BY <2>3 DEF Makes
  <2>6. d # c
    BY <2>4, <2>5 DEF Creates, Removes
  <2>7. Flying(c) /\ Flying(d)
    <3>1. pc[d] # "idle"
      BY <2>3 DEF AllSane, Sane
    <3> QED BY <2>3, <3>1, OverlapGrows DEF Flying
  <2> QED BY <2>2, <2>3, <2>6, <2>7 DEF Together
<1> QED BY <1>2, <1>3

LEMMA NothingNext ==
  ASSUME Typed, AllSane, AllBacked, Late, NothingAfterRemoval, [BrokerNext]_brokerVars
  PROVE  NothingAfterRemoval'
<1> SUFFICES ASSUME Keyed', NEW m \in DOMAIN trail', NEW n \in DOMAIN trail',
                    m < n, trail'[m].id = trail'[n].id, trail'[m].id # NoId,
                    trail'[m].type = "removed", trail'[n].type \in {"created", "modified"}
             PROVE  trail'[m].call \in overlap'[trail'[n].call]
  BY DEF NothingAfterRemoval, Keyed
<1>1. Keyed
  <2>1. UNCHANGED book
    BY BookKept, ApplyReads
  <2> QED BY <2>1 DEF Keyed
<1>2. m \in DOMAIN trail /\ trail'[m] = trail[m]
  <2>1. CASE n \in DOMAIN trail
    <3>1. DOMAIN trail = 1..Len(trail) /\ Len(trail) \in Nat
      BY DEF Typed
    <3>2. DOMAIN trail' = 1..Len(trail')
      BY TypedNext DEF Typed
    <3>3. m \in DOMAIN trail
      BY <2>1, <3>1, <3>2
    <3> QED BY <3>3, TrailSteps
  <2>2. CASE n \notin DOMAIN trail
    BY <2>2, TrailSteps
  <2> QED BY <2>1, <2>2
<1>3. CASE n \in DOMAIN trail
  <2>1. trail'[n] = trail[n]
    BY <1>3, TrailSteps
  <2>2. trail[n].call \in Calls /\ pc[trail[n].call] # "idle"
    BY <1>1, <1>3, TrailTyped DEF AllBacked, EventBacked
  <2>3. trail[m].call \in overlap[trail[n].call]
    BY <1>1, <1>2, <1>3, <2>1 DEF NothingAfterRemoval, Keyed
  <2> QED BY <1>2, <2>1, <2>2, <2>3, OverlapGrows
<1>4. CASE n \notin DOMAIN trail
  <2>1. PICK c \in Calls, type \in Success, id \in Ids \cup {NoId} :
          Told(c, type, id) /\ trail'[n] = Event(c, type, id)
    BY <1>4, TrailSteps
  <2>2. type \in {"created", "modified"} /\ trail'[n].id = id /\ trail'[n].call = c
    BY <2>1 DEF Event
  <2>3. overlap' = overlap /\ Flying(c)
    BY <2>1 DEF Told, Flying
  <2>4. wire[c] = "applied" /\ Makes(c, id)
    BY <1>1, <2>1, <2>2 DEF Told
  <2>5. trail[m].call \in overlap[c]
    BY <1>1, <1>2, <2>2, <2>3, <2>4 DEF Late
  <2> QED BY <1>2, <2>2, <2>3, <2>5
<1> QED BY <1>3, <1>4

-----------------------------------------------------------------------------
(* What the trail says of the book.  The events of a call come after what  *)
(* it did, so that between the two the trail is behind: TrailTold says by  *)
(* how much.  What was done shows in the book (Shows), and once nobody     *)
(* owes an event for a thing, the trail and the book agree on it.          *)

\* What no event need tell of: calls fought over it, or one of them misled its caller.
Spoilt(i) ==
  \E c \in Calls : i \in Names(c) /\ (Misleading(c) \/ \E d \in overlap[c] : i \in Names(d))

\* The things the trail can be trusted about.
Readable(i) == i \notin elsewhere /\ ~Spoilt(i) /\ (book \in Anonymous => i \in held)

\* A call has done its part and has not returned.
Done(c, i) == Flying(c) /\ wire[c] = "applied" /\ i \in Names(c)

\* It has not told of this thing yet.
Owes(c, i) ==
  /\ Done(c, i) /\ cmd[c].kind \notin Alters
  /\ \A n \in 1..told[c] : cmd[c].ids[n] # i

\* What a call did shows in the book.
Shows(c, i) ==
  /\ cmd[c].kind \in Creates \cup {"paperEnable"} => i \in live
  /\ cmd[c].kind \in Leaves => i \notin live

Behind(i) ==
  /\ \A c \in Calls : Done(c, i) => Shows(c, i)
  /\ (\A c \in Calls : ~Owes(c, i)) => (i \in live <=> i \in Replayed)

TrailTold == \A i \in Ids : Readable(i) => Behind(i)

\* Only a creation is given an identifier, a new one; and nothing is told before the answer.
Answers ==
  \A c \in Calls :
    /\ answer[c] # NoId => cmd[c].kind \in Creates /\ answer[c] \notin held
    /\ wire[c] = "sent" => told[c] = 0

\* An event of a thing's coming or going is the last word on it, and on no other thing.
LEMMA ReplayedAppend ==
  ASSUME Typed, NEW c \in Calls, NEW type \in EventTypes, NEW id \in Ids \cup {NoId},
         trail' = Append(trail, Event(c, type, id)), held' = held, NEW i \in Ids
  PROVE  i \in Replayed' <=> IF id = i /\ type \in {"created", "removed"}
                             THEN type = "created" ELSE i \in Replayed
<1>0. PICK l : l = Len(trail) + 1
  OBVIOUS
<1>1. /\ \A n \in DOMAIN trail : trail'[n] = trail[n] /\ n < l /\ n \in Int
      /\ DOMAIN trail' = DOMAIN trail \cup {l} /\ l \notin DOMAIN trail /\ l \in Int
      /\ trail'[l].type = type /\ trail'[l].id = id
  <2>1. DOMAIN trail = 1..Len(trail) /\ Len(trail) \in Nat
    BY DEF Typed
  <2>2. trail'[l] = Event(c, type, id)
    BY <1>0, HeardAppend
  <2> QED BY <1>0, <2>1, <2>2, HeardAppend DEF Event
<1>2. CASE id = i /\ type \in {"created", "removed"}
  <2>1. l \in Moves(i)' /\ Moves(i)' \subseteq DOMAIN trail'
    BY <1>1, <1>2 DEF Moves
  <2>2. \A n \in Moves(i)' : n <= l /\ (l <= n => n = l)
    BY <1>1, <2>1
  <2>3. i \in Replayed' <=> \E n \in Moves(i)' : trail'[n].type = "created"
                                                 /\ \A m \in Moves(i)' : m <= n
    BY <2>1 DEF Replayed
  <2> QED BY <1>1, <1>2, <2>1, <2>2, <2>3
<1>3. CASE ~(id = i /\ type \in {"created", "removed"})
  <2>1. Moves(i)' = Moves(i) /\ Moves(i) \subseteq DOMAIN trail
    BY <1>1, <1>3 DEF Moves
  <2> QED BY <1>1, <1>3, <2>1 DEF Replayed
<1> QED BY <1>2, <1>3

\* What a call was told by the book and what its caller was told stay.
LEMMA Stays ==
  ASSUME Typed, AllSane, \A c \in Calls : Ending(c), [BrokerNext]_brokerVars, NEW d \in Calls
  PROVE  /\ wire[d] \in {"applied", "partial", "declined", "split"} => wire'[d] = wire[d]
         /\ result[d] = "error" => result'[d] = "error"
         /\ answer[d] # NoId => answer'[d] = answer[d]
         /\ book' = book /\ held' = held /\ elsewhere \subseteq elsewhere'
<1> DEFINE Stay == /\ wire[d] \in {"applied", "partial", "declined", "split"} => wire'[d] = wire[d]
                   /\ result[d] = "error" => result'[d] = "error"
                   /\ answer[d] # NoId => answer'[d] = answer[d]
                   /\ book' = book /\ held' = held /\ elsewhere \subseteq elsewhere'
<1> USE DEF Typed, CallTyped, Return, Goto, bookVars
<1>0. ASSUME NEW c \in Calls, pc[c] # "returned", NEW r \in {"ok", "error"},
             result' = result \/ Return(c, r)
      PROVE  result[d] = "error" => result'[d] = "error"
  BY <1>0 DEF Ending
<1>1. ASSUME NEW c \in Calls, Begin(c) PROVE Stay
  BY <1>0, <1>1 DEF Begin
<1>2. ASSUME NEW c \in Calls, LookupFails(c) \/ Rejects(c) \/ GivesUp(c) PROVE Stay
  BY <1>0, <1>2 DEF LookupFails, Rejects, GivesUp, Reject, GiveUp, Failed
<1>3. ASSUME NEW c \in Calls, Invoke(c) PROVE Stay
  <2>1. wire[c] = "none"
    BY <1>3 DEF Invoke, AllSane, Sane
  <2> QED BY <1>3, <2>1 DEF Invoke
<1>4. ASSUME NEW c \in Calls, NEW type \in Success, NEW id \in Ids \cup {NoId}, Told(c, type, id)
      PROVE  Stay
  BY <1>0, <1>4 DEF Told
<1>5. ASSUME NEW c \in Calls, Apply(c) PROVE Stay
  <2>1. elsewhere' = elsewhere
    BY <1>5 DEF Apply
  <2>2. wire[c] = "sent" /\ answer[c] = NoId
    BY <1>5, ApplyReads DEF AllSane, Sane
  <2> QED BY <1>5, <2>1, <2>2, ApplyReads
<1>6. ASSUME NEW i \in Ids, Strays(i) PROVE Stay
  BY <1>6 DEF Strays, AccountDeleted, Goes, Comes, Moved
<1>7. CASE UNCHANGED brokerVars
  BY <1>7 DEF brokerVars
<1>8. Stay
  BY <1>1, <1>2, <1>3, <1>4, <1>5, <1>6, <1>7, NextSteps
<1> QED BY <1>8

\* What is named stays named.
LEMMA NamesStay ==
  ASSUME Typed, AllSane, \A c \in Calls : Ending(c), [BrokerNext]_brokerVars,
         NEW c \in Calls, NEW i \in Ids, i \in Names(c)
  PROVE  i \in Names(c)' /\ pc[c] # "idle"
<1>1. pc[c] # "idle"
  <2>1. ASSUME pc[c] = "idle" PROVE FALSE
    <3>1. cmd[c].ids = <<>> /\ answer[c] = NoId
      BY <2>1 DEF AllSane, Sane
    <3>2. Names(c) = {NoId}
      BY <3>1 DEF Names, ToSet
    <3> QED BY <3>2, NoIdAssumption
  <2> QED BY <2>1
<1>2. cmd'[c] = cmd[c]
  BY <1>1, OverlapGrows
<1>3. i = answer[c] => answer'[c] = i
  BY Stays, NoIdAssumption
<1> QED BY <1>1, <1>2, <1>3 DEF Names

\* What the trail cannot be trusted about now, it cannot be trusted about later.
LEMMA ReadableBefore ==
  ASSUME Typed, AllSane, \A c \in Calls : Ending(c), [BrokerNext]_brokerVars,
         NEW i \in Ids, Readable(i)'
  PROVE  Readable(i)
<1>1. ASSUME Spoilt(i) PROVE Spoilt(i)'
  <2>1. PICK c \in Calls : i \in Names(c) /\ (Misleading(c) \/ \E d \in overlap[c] : i \in Names(d))
    BY <1>1 DEF Spoilt
  <2>2. i \in Names(c)' /\ overlap[c] \subseteq overlap'[c]
    BY <2>1, NamesStay, OverlapGrows
  <2>3. CASE Misleading(c)
    <3>1. Misleading(c)'
      BY <2>3, Stays DEF Misleading
    <3> QED BY <2>2, <3>1 DEF Spoilt
  <2>4. CASE \E d \in overlap[c] : i \in Names(d)
    <3>1. PICK d \in overlap[c] : i \in Names(d)
      BY <2>4
    <3>2. d \in Calls
      BY <3>1 DEF Typed, CallTyped
    <3>3. i \in Names(d)' /\ d \in overlap'[c]
      BY <2>2, <3>1, <3>2, NamesStay
    <3> QED BY <2>2, <3>3 DEF Spoilt
  <2> QED BY <2>1, <2>3, <2>4
<1>2. book' = book /\ held' = held /\ elsewhere \subseteq elsewhere'
  <2>1. \A d \in Calls : book' = book /\ held' = held /\ elsewhere \subseteq elsewhere'
    BY Stays
  <2>2. CASE Calls = {}
    BY <2>2 DEF BrokerNext, Strays, AccountDeleted, Goes, Comes, Moved, brokerVars, bookVars
  <2> QED BY <2>1, <2>2
<1> QED BY <1>1, <1>2 DEF Readable

\* A step that leaves a thing alone, and all that was done to it, leaves the trail as far behind.
LEMMA BehindKept ==
  ASSUME NEW i \in Ids, Behind(i),
         i \in live' <=> i \in live, i \in Replayed' <=> i \in Replayed,
         \A c \in Calls : Done(c, i)' => Done(c, i) /\ cmd'[c] = cmd[c],
         \A c \in Calls : Owes(c, i) => Owes(c, i)'
  PROVE  Behind(i)'
BY DEF Behind, Shows

LEMMA AnswersNext ==
  ASSUME Typed, AllSane, Answers, [BrokerNext]_brokerVars
  PROVE  Answers'
<1> USE DEF Typed, CallTyped, BookTyped, bookVars
<1> SUFFICES ASSUME NEW d \in Calls
             PROVE  /\ answer'[d] # NoId => cmd'[d].kind \in Creates /\ answer'[d] \notin held'
                    /\ wire'[d] = "sent" => told'[d] = 0
  BY DEF Answers
<1> DEFINE Kept == /\ answer'[d] # NoId => cmd'[d].kind \in Creates /\ answer'[d] \notin held'
                   /\ wire'[d] = "sent" => told'[d] = 0
<1>1. ASSUME NEW c \in Calls, Begin(c) PROVE Kept
  <2>1. answer[c] = NoId
    BY <1>1 DEF Begin, AllSane, Sane
  <2> QED BY <1>1, <2>1 DEF Begin, Answers
<1>2. ASSUME NEW c \in Calls, LookupFails(c) \/ Rejects(c) \/ GivesUp(c) PROVE Kept
  BY <1>2 DEF LookupFails, Rejects, GivesUp, Reject, GiveUp, Answers
<1>3. ASSUME NEW c \in Calls, Invoke(c) PROVE Kept
  <2>1. told[c] = 0
    BY <1>3 DEF Invoke, AllSane, Sane
  <2> QED BY <1>3, <2>1 DEF Invoke, Answers
<1>4. ASSUME NEW c \in Calls, NEW type \in Success, NEW id \in Ids \cup {NoId}, Told(c, type, id)
      PROVE  Kept
  BY <1>4 DEF Told, Answers
<1>5. ASSUME NEW c \in Calls, Apply(c) PROVE Kept
  <2>1. UNCHANGED <<cmd, told, held>> /\ wire'[c] # "sent"
        /\ \A e \in Calls \ {c} : wire'[e] = wire[e] /\ answer'[e] = answer[e]
    BY <1>5, ApplyReads
  <2>2. answer'[c] = answer[c] \/ (cmd[c].kind \in Creates /\ answer'[c] \notin Given)
    BY <1>5, ApplyReads DEF Creation, Removal, Change
  <2>3. held \subseteq Given
    BY DEF Given
  <2> QED BY <2>1, <2>2, <2>3 DEF Answers
<1>6. CASE (\E i \in Ids : Strays(i)) \/ UNCHANGED brokerVars
  BY <1>6 DEF Strays, AccountDeleted, Goes, Comes, Moved, brokerVars, Answers
<1> QED BY <1>1, <1>2, <1>3, <1>4, <1>5, <1>6, NextSteps

\* Of a thing the trail can be trusted about, one call at a time is at work on it.
LEMMA Alone ==
  ASSUME Together, NEW i \in Ids, ~Spoilt(i), NEW c \in Calls, NEW d \in Calls,
         Flying(c), Flying(d), i \in Names(c), i \in Names(d)
  PROVE  c = d
BY DEF Together, Spoilt

\* Who names a thing has it among its identifiers, or was given it.
LEMMA NamesOf ==
  ASSUME Typed, AllSane, Answers, NEW c \in Calls, NEW i \in Ids, i \in Names(c)
  PROVE  /\ cmd[c].kind \in Creates => i = answer[c]
         /\ cmd[c].kind \notin Creates =>
              /\ cmd[c].ids # <<>> /\ i \in ToSet(cmd[c].ids)
              /\ \E n \in 1..Size(c) : i = cmd[c].ids[n]
<1>1. cmd[c].ids \in Seq(Ids)
  BY DEF Typed, CallTyped
<1>2. CASE cmd[c].kind \in Creates
  <2>1. ToSet(cmd[c].ids) = {}
    BY <1>2 DEF AllSane, Sane, ToSet
  <2> QED BY <1>2, <2>1 DEF Names
<1>3. CASE cmd[c].kind \notin Creates
  <2>1. i \in ToSet(cmd[c].ids)
    BY <1>3, NoIdAssumption DEF Names, Answers
  <2>2. \E n \in 1..Len(cmd[c].ids) : i = cmd[c].ids[n]
    BY <1>1, <2>1 DEF ToSet
  <2>3. cmd[c].ids # <<>>
    BY <1>1, <2>2
  <2> QED BY <1>3, <2>1, <2>2, <2>3 DEF Size
<1> QED BY <1>2, <1>3

\* A step in which nothing is applied and no success is told keeps the trail as far behind.
LEMMA QuietBehind ==
  ASSUME Typed, AllSane, \A c \in Calls : Ending(c), [BrokerNext]_brokerVars,
         NEW i \in Ids, Readable(i)', Behind(i)
  PROVE  \/ Behind(i)'
         \/ \E c \in Calls : Apply(c)
         \/ \E c \in Calls, type \in Success, id \in Ids \cup {NoId} : Told(c, type, id)
<1> USE DEF Typed, CallTyped, bookVars
<1>1. ASSUME NEW c \in Calls, Begin(c) \/ Invoke(c) PROVE Behind(i)'
  <2>1. /\ UNCHANGED <<held, live, answer, told, trail>> /\ wire'[c] # "applied"
        /\ ~Done(c, i)
        /\ \A d \in Calls \ {c} : cmd'[d] = cmd[d] /\ pc'[d] = pc[d] /\ wire'[d] = wire[d]
    BY <1>1 DEF Begin, Invoke, Goto, Return, AllSane, Sane, Done
  <2>2. \A d \in Calls \ {c} : (Done(d, i)' <=> Done(d, i)) /\ (Owes(d, i)' <=> Owes(d, i))
    BY <2>1 DEF Done, Owes, Flying, Names
  <2>3. ~Done(c, i)'
    BY <2>1 DEF Done
  <2>4. Replayed' = Replayed
    BY <2>1 DEF Replayed, Moves
  <2> QED BY <2>1, <2>2, <2>3, <2>4, BehindKept DEF Owes
<1>2. ASSUME NEW c \in Calls, LookupFails(c) \/ Rejects(c) \/ GivesUp(c) PROVE Behind(i)'
  <2>1. UNCHANGED <<held, live, cmd, answer, told, wire>> /\ Return(c, "error") /\ Flying(c)
    BY <1>2 DEF LookupFails, Rejects, GivesUp, Reject, GiveUp, Failed, Flying
  <2>2. pc'[c] = "returned" /\ result'[c] = "error" /\ \A d \in Calls \ {c} : pc'[d] = pc[d]
    BY <2>1 DEF Return, Goto
  <2>3. ~Done(c, i)
    <3>1. ASSUME wire[c] = "applied", i \in Names(c) PROVE FALSE
      <4>1. i \in Names(c)' /\ Misleading(c)'
        BY <2>1, <2>2, <3>1 DEF Names, Misleading
      <4> QED BY <4>1 DEF Readable, Spoilt
    <3> QED BY <3>1 DEF Done
  <2>4. \A d \in Calls \ {c} : (Done(d, i)' <=> Done(d, i)) /\ (Owes(d, i)' <=> Owes(d, i))
    BY <2>1, <2>2 DEF Done, Owes, Flying, Names
  <2>5. ~Done(c, i)'
    BY <2>2 DEF Done, Flying
  <2>6. i \in Replayed' <=> i \in Replayed
    <3>1. CASE Rejects(c)
      <4>1. /\ trail' = Append(trail, Event(c, "rejected", Named(c)))
            /\ "rejected" \in EventTypes /\ Named(c) \in Ids \cup {NoId}
        BY <3>1, NamedTyped DEF Rejects, Reject, EventTypes
      <4> QED BY <2>1, <4>1, ReplayedAppend
    <3>2. CASE trail' = trail
      BY <2>1, <3>2 DEF Replayed, Moves
    <3> QED BY <1>2, <3>1, <3>2 DEF LookupFails, GivesUp, GiveUp
  <2> QED BY <2>1, <2>3, <2>4, <2>5, <2>6, BehindKept DEF Owes
<1>3. ASSUME NEW j \in Ids, Strays(j) PROVE Behind(i)'
  <2>1. UNCHANGED <<held, cmd, answer, told, wire, pc, trail>>
    BY <1>3 DEF Strays, AccountDeleted, Goes, Comes, Moved
  <2>2. i # j
    BY <1>3 DEF Strays, AccountDeleted, Goes, Comes, Moved, Readable
  <2>3. i \in live' <=> i \in live
    BY <1>3, <2>2 DEF Strays, AccountDeleted, Goes, Comes, Moved
  <2>4. \A d \in Calls : (Done(d, i)' <=> Done(d, i)) /\ (Owes(d, i)' <=> Owes(d, i))
    BY <2>1 DEF Done, Owes, Flying, Names
  <2>5. Replayed' = Replayed
    BY <2>1 DEF Replayed, Moves
  <2> QED BY <2>1, <2>3, <2>4, <2>5, BehindKept
<1>4. CASE UNCHANGED brokerVars
  <2>1. UNCHANGED <<held, live, cmd, answer, told, wire, pc, trail>>
    BY <1>4 DEF brokerVars
  <2>2. \A d \in Calls : (Done(d, i)' <=> Done(d, i)) /\ (Owes(d, i)' <=> Owes(d, i))
    BY <2>1 DEF Done, Owes, Flying, Names
  <2>3. Replayed' = Replayed
    BY <2>1 DEF Replayed, Moves
  <2> QED BY <2>1, <2>2, <2>3, BehindKept
<1> QED BY <1>1, <1>2, <1>3, <1>4, NextSteps

\* An event brings the trail up to what its call did to the thing it names.
LEMMA ToldBehind ==
  ASSUME Typed, AllSane, Together, Answers, NEW i \in Ids, Readable(i), Behind(i),
         NEW c \in Calls, NEW type \in Success, NEW id \in Ids \cup {NoId}, Told(c, type, id)
  PROVE  Behind(i)'
<1> DEFINE ids == cmd[c].ids
<1>1. /\ UNCHANGED <<book, held, live, cmd, wire, answer>>
      /\ trail' = Append(trail, Event(c, type, id)) /\ type \in EventTypes
      /\ pc[c] = "called" /\ told[c] \in Nat /\ told'[c] = told[c] + 1
      /\ wire[c] \in {"applied", "declined", "split"} /\ told[c] < Size(c)
      /\ \A d \in Calls \ {c} : pc'[d] = pc[d] /\ told'[d] = told[d]
      /\ pc'[c] = pc[c] \/ told[c] + 1 = Size(c)
      /\ Says(c, type, id)
      /\ ids # <<>> => id = ids[told[c] + 1] /\ id \in ToSet(ids)
  BY DEF Told, Return, Goto, bookVars, Typed, CallTyped, Success, EventTypes, AllSane, Sane
<1>2. i \in Replayed' <=> IF id = i /\ type \in {"created", "removed"}
                          THEN type = "created" ELSE i \in Replayed
  BY <1>1, ReplayedAppend
<1>3. \A d \in Calls \ {c} : (Done(d, i)' <=> Done(d, i)) /\ (Owes(d, i)' <=> Owes(d, i))
  BY <1>1 DEF Done, Owes, Flying, Names
<1>4. Done(c, i)' => Done(c, i)
  BY <1>1 DEF Done, Flying, Names
<1>5. CASE i \notin Names(c)
  <2>1. id # i
    BY <1>1, <1>5, NoIdAssumption DEF Says, Names, AllSane, Sane, Leaves, Alters, Creates, Removes
  <2>2. ~Owes(c, i)
    BY <1>5 DEF Owes, Done
  <2> QED BY <1>1, <1>2, <1>3, <1>4, <2>1, <2>2, BehindKept
<1>6. CASE i \in Names(c)
  <2>1. Flying(c) /\ wire[c] = "applied" /\ Done(c, i)
    <3>1. wire[c] \notin {"declined", "split"}
      BY <1>6 DEF Readable, Spoilt, Misleading
    <3> QED BY <1>1, <1>6, <3>1 DEF Flying, Done
  <2>2. \A d \in Calls \ {c} : ~Done(d, i) /\ ~Owes(d, i)
    <3>1. ASSUME NEW d \in Calls, Done(d, i) PROVE d = c
      BY <1>6, <2>1, <3>1, Alone DEF Readable, Done
    <3> QED BY <3>1 DEF Owes
  <2>3. Shows(c, i)
    BY <2>1 DEF Behind
  <2>4. \A d \in Calls : Done(d, i)' => Shows(d, i)'
    <3>1. Shows(c, i)'
      BY <1>1, <2>3 DEF Shows
    <3> QED BY <1>3, <2>2, <3>1
  <2>5. ASSUME ~Owes(c, i) PROVE i \in live <=> i \in Replayed
    BY <2>2, <2>5 DEF Behind
  <2>6. ASSUME ~Owes(c, i)' PROVE i \in live <=> i \in Replayed'
    <3>1. CASE cmd[c].kind \in Creates
      <4>1. i = answer[c] /\ answer[c] \notin held
        BY <1>6, <3>1, NamesOf, NoIdAssumption DEF Answers
      <4>2. book \notin Anonymous
        BY <4>1 DEF Readable
      <4>3. type = "created" /\ id = i
        BY <1>1, <3>1, <4>1, <4>2 DEF Says, Leaves, Alters, Creates, Removes
      <4> QED BY <1>2, <2>3, <3>1, <4>3 DEF Shows
    <3>2. CASE cmd[c].kind \in Alters
      <4>1. type = "modified"
        BY <1>1, <3>2 DEF Says, Leaves, Alters, Creates, Removes
      <4>2. ~Owes(c, i)
        BY <3>2 DEF Owes
      <4> QED BY <1>2, <2>5, <4>1, <4>2
    <3>3. CASE cmd[c].kind \notin Creates \cup Alters
      <4>1. PICK n \in 1..Size(c) : i = ids[n]
        BY <1>6, <3>3, NamesOf
      <4>2. ids # <<>> /\ id = ids[told[c] + 1]
        BY <1>1, <1>6, <3>3, NamesOf
      <4>3. \/ cmd[c].kind = "paperEnable" /\ type = "created"
            \/ cmd[c].kind \in Leaves /\ type = "removed"
        BY <1>1, <3>3 DEF Says
      <4>4. CASE id = i
        BY <1>2, <2>3, <4>3, <4>4 DEF Shows
      <4>5. CASE id # i
        <5>1. Size(c) \in Nat
          BY DEF Size, Typed, CallTyped
        <5>2. ASSUME Owes(c, i) PROVE FALSE
          <6>1. \A m \in 1..told'[c] : ids[m] # i
            <7>1. \A m \in 1..told'[c] : m \in 1..told[c] \/ m = told[c] + 1
              BY <1>1
            <7> QED BY <4>2, <4>5, <5>2, <7>1 DEF Owes
          <6>2. ~Flying(c)'
            BY <1>1, <1>6, <2>1, <2>6, <3>3, <6>1 DEF Owes, Done, Names
          <6>3. told'[c] = Size(c)
            BY <1>1, <2>1, <6>2 DEF Flying
          <6> QED BY <4>1, <6>1, <6>3
        <5> QED BY <1>2, <2>5, <4>5, <5>2
      <4> QED BY <4>4, <4>5
    <3> QED BY <3>1, <3>2, <3>3
  <2> QED BY <1>1, <2>4, <2>6 DEF Behind
<1> QED BY <1>5, <1>6

\* What a call does shows in the book, on what it names and on nothing else.
LEMMA ApplyShows ==
  ASSUME Typed, AllSane, Answers, NEW c \in Calls, Apply(c), NEW i \in Ids
  PROVE  /\ i \notin Names(c)' => (i \in live' <=> i \in live)
         /\ wire'[c] = "refused" => (i \in live' <=> i \in live)
         /\ i \in Names(c)' /\ wire'[c] = "applied" =>
              /\ Shows(c, i)'
              /\ cmd[c].kind \in Alters => (i \in live' <=> i \in live)
<1>1. /\ wire[c] = "sent" /\ answer[c] = NoId /\ UNCHANGED <<book, held, cmd>>
      /\ cmd[c].ids \in Seq(Ids)
      /\ cmd[c].ids = <<>> <=> cmd[c].kind \in Creates \cup {"none"}
      /\ cmd[c].kind # "alertDelete" => Len(cmd[c].ids) <= 1
      /\ cmd[c].kind \in AllKinds
  <2>1. wire[c] = "sent" /\ UNCHANGED <<book, held, cmd>>
    BY ApplyReads
  <2>2. cmd[c].kind \in KindsOf[book] \cup {"none"} /\ cmd[c].kind # "none"
    BY <2>1 DEF AllSane, Sane
  <2> QED BY <2>1, <2>2, BooksOfKinds DEF AllSane, Sane, Typed, BookTyped, CallTyped
<1>2. Names(c)' = ToSet(cmd[c].ids) \cup {answer'[c]}
  BY <1>1 DEF Names
<1>3. PICK w \in {"applied", "partial", "refused", "declined", "split"} :
        /\ wire' = [wire EXCEPT ![c] = w]
        /\ CASE w = "applied"  -> Creation(c) \/ Removal(c) \/ Change(c)
             [] w = "partial"  -> PartialRemoval(c)
             [] w = "split"    -> Split(c)
             [] w = "declined" -> Is(c, "convert") /\ UNCHANGED <<live, answer>>
             [] w = "refused"  -> UNCHANGED <<live, answer>>
  BY DEF Apply
<1>4. wire'[c] = w
  BY <1>3 DEF Typed, CallTyped
<1>5. CASE w = "applied" /\ Creation(c)
  <2>1. PICK j \in Ids \ Given : live' = live \cup {j} /\ answer' = [answer EXCEPT ![c] = j]
    BY <1>5 DEF Creation
  <2>2. answer'[c] = j /\ cmd[c].kind \in Creates /\ cmd[c].kind \notin Leaves \cup Alters
    BY <1>5, <2>1 DEF Creation, Creates, Leaves, Removes, Alters, Typed, BookTyped
  <2>3. Names(c)' = {j}
    BY <1>1, <1>2, <2>2 DEF ToSet
  <2> QED BY <1>1, <1>4, <1>5, <2>1, <2>2, <2>3 DEF Shows
<1>6. CASE w = "applied" /\ Removal(c)
  <2>1. /\ live' = live \ ToSet(cmd[c].ids) /\ answer'[c] = NoId
        /\ cmd[c].kind \in Leaves /\ cmd[c].kind \notin Creates \cup {"paperEnable"} \cup Alters
    BY <1>1, <1>6 DEF Removal, Creates, Leaves, Removes, Alters
  <2> QED BY <1>1, <1>2, <1>4, <1>6, <2>1, NoIdAssumption DEF Shows
<1>7. CASE w = "applied" /\ Change(c)
  <2>1. CASE cmd[c].kind \in Alters
    <3>1. live' = live /\ cmd[c].kind \notin Creates \cup {"paperEnable"} \cup Leaves
      BY <1>7, <2>1 DEF Change, Is, Creates, Leaves, Removes, Alters
    <3> QED BY <1>1, <1>4, <1>7, <3>1 DEF Shows
  <2>2. CASE cmd[c].kind \notin Alters
    <3>1. /\ live' = live \cup {Target(c)} /\ answer'[c] = NoId /\ Is(c, "paperEnable")
          /\ cmd[c].kind \notin Creates \cup Leaves
      BY <1>1, <1>7, <2>2 DEF Change, Is, Creates, Leaves, Removes, Alters
    <3>2. ToSet(cmd[c].ids) = {Target(c)}
      <4>1. cmd[c].ids # <<>> /\ Len(cmd[c].ids) <= 1
        BY <1>1, <3>1 DEF Is, AllKinds
      <4>2. DOMAIN cmd[c].ids = {1}
        BY <1>1, <4>1
      <4> QED BY <4>2 DEF ToSet, Target
    <3> QED BY <1>1, <1>2, <1>4, <1>7, <2>2, <3>1, <3>2, NoIdAssumption DEF Shows
  <2> QED BY <2>1, <2>2
<1>8. CASE w = "partial"
  <2>1. PICK gone \in SUBSET ToSet(cmd[c].ids) : live' = live \ gone
    BY <1>3, <1>8 DEF PartialRemoval
  <2> QED BY <1>2, <1>4, <1>8, <2>1
<1>9. CASE w \in {"declined", "split", "refused"}
  BY <1>3, <1>4, <1>9 DEF Split
<1> QED BY <1>3, <1>5, <1>6, <1>7, <1>8, <1>9

\* The trail falls behind what is done, by what the call still owes.
LEMMA ApplyBehind ==
  ASSUME Typed, AllSane, Together, Answers, \A c \in Calls : Ending(c),
         NEW i \in Ids, Readable(i)', Behind(i), NEW c \in Calls, Apply(c)
  PROVE  Behind(i)'
<1>1. /\ wire[c] = "sent" /\ wire'[c] \in {"applied", "refused", "partial", "declined", "split"}
      /\ UNCHANGED <<book, held, cmd, pc, told, result, overlap, trail>>
      /\ \A d \in Calls \ {c} : wire'[d] = wire[d] /\ answer'[d] = answer[d]
  BY ApplyReads
<1>2. \A d \in Calls \ {c} : (Done(d, i)' <=> Done(d, i)) /\ (Owes(d, i)' <=> Owes(d, i))
  BY <1>1 DEF Done, Owes, Flying, Names
<1>3. Replayed' = Replayed /\ ~Done(c, i)
  BY <1>1 DEF Replayed, Moves, Done
<1>4. CASE ~Done(c, i)'
  <2>1. i \in live' <=> i \in live
    <3>1. CASE i \notin Names(c)'
      BY <3>1, ApplyShows
    <3>2. CASE i \in Names(c)'
      <4>1. wire'[c] = "refused"
        <5>1. ~Misleading(c)'
          BY <3>2 DEF Readable, Spoilt
        <5>2. ASSUME wire'[c] = "applied" PROVE FALSE
          <6>1. pc[c] \notin {"idle", "begun", "called"} /\ told[c] = 0
            BY <1>1, <1>4, <3>2, <5>2 DEF Done, Flying, AllSane, Sane, Answers
          <6>2. pc[c] = "returned"
            BY <6>1 DEF Typed, CallTyped
          <6>3. Size(c) # 0
            <7>1. cmd[c].ids \in Seq(Ids)
              BY DEF Typed, CallTyped
            <7> QED BY <7>1 DEF Size
          <6>4. result[c] = "error"
            BY <6>1, <6>2, <6>3 DEF Ending, Typed, CallTyped
          <6> QED BY <1>1, <5>1, <5>2, <6>4 DEF Misleading
        <5> QED BY <1>1, <5>1, <5>2 DEF Misleading
      <4> QED BY <4>1, ApplyShows
    <3> QED BY <3>1, <3>2
  <2> QED BY <1>1, <1>2, <1>3, <1>4, <2>1, BehindKept DEF Owes
<1>5. CASE Done(c, i)'
  <2>1. Flying(c) /\ i \in Names(c)' /\ wire'[c] = "applied"
    BY <1>1, <1>5 DEF Done, Flying
  <2>2. \A d \in Calls \ {c} : ~Done(d, i)'
    <3>1. ASSUME NEW d \in Calls \ {c}, Done(d, i)' PROVE FALSE
      <4>1. Flying(d) /\ i \in Names(d)'
        BY <1>1, <3>1 DEF Done, Flying
      <4>2. d \in overlap'[c]
        BY <1>1, <2>1, <4>1 DEF Together
      <4> QED BY <2>1, <4>1, <4>2 DEF Readable, Spoilt
    <3> QED BY <3>1
  <2>3. /\ Shows(c, i)'
        /\ cmd[c].kind \in Alters => (i \in live' <=> i \in live)
    BY <2>1, ApplyShows
  <2>4. ASSUME ~Owes(c, i)' PROVE i \in live' <=> i \in Replayed'
    <3>1. told'[c] = 0
      BY <1>1 DEF Answers
    <3>2. \A n \in 1..told'[c] : cmd'[c].ids[n] # i
      BY <3>1
    <3>3. cmd[c].kind \in Alters
      BY <1>1, <1>5, <2>4, <3>2 DEF Owes
    <3>4. \A d \in Calls : ~Owes(d, i)
      BY <1>2, <1>3, <2>2 DEF Owes
    <3> QED BY <1>3, <2>3, <3>3, <3>4 DEF Behind
  <2> QED BY <2>2, <2>3, <2>4 DEF Behind
<1> QED BY <1>4, <1>5

LEMMA TrailToldNext ==
  ASSUME Typed, AllSane, Together, Answers, \A c \in Calls : Ending(c), TrailTold,
         [BrokerNext]_brokerVars
  PROVE  TrailTold'
<1> SUFFICES ASSUME NEW i \in Ids, Readable(i)' PROVE Behind(i)'
  BY DEF TrailTold
<1>1. Readable(i) /\ Behind(i)
  BY ReadableBefore DEF TrailTold
<1> QED BY <1>1, QuietBehind, ApplyBehind, ToldBehind

-----------------------------------------------------------------------------
(* The theorems.                                                           *)

\* The inductive invariant.
BookInv ==
  /\ Typed /\ AllSane /\ Together
  /\ \A c \in Calls : Counting(c) /\ Ending(c)
  /\ AllBacked /\ Known /\ Gone /\ Late /\ NothingAfterRemoval
  /\ Answers /\ TrailTold

LEMMA BookInvInit == BrokerInit => BookInv
<1> SUFFICES ASSUME BrokerInit PROVE BookInv
  OBVIOUS
<1> USE DEF BrokerInit
<1>1. Typed
  BY DEF Typed, BookTyped, CallTyped, NoCommand, Books, AllKinds
<1>2. AllSane
  BY DEF AllSane, Sane, Size, Is, NoCommand
<1>3. Together
  BY DEF Together, Flying
<1>4. DOMAIN trail = {}
  OBVIOUS
<1>5. \A c, types : Heard(c, types) = {}
  BY <1>4 DEF Heard
<1>6. \A c \in Calls : Counting(c) /\ Ending(c)
  BY <1>5, FS_EmptySet DEF Counting, Ending, NoCommand
<1>7. AllBacked /\ Late /\ NothingAfterRemoval
  BY <1>4 DEF AllBacked, Late, NothingAfterRemoval
<1>8. Known /\ Gone
  BY DEF Known, Gone, Used, Given
<1>9. Answers
  BY DEF Answers
<1>10. TrailTold
  <2>1. Replayed = held
    BY <1>4 DEF Replayed, Moves
  <2>2. \A c \in Calls, i \in Ids : ~Done(c, i)
    BY DEF Done
  <2> QED BY <2>1, <2>2 DEF TrailTold, Behind
<1> QED BY <1>1, <1>2, <1>3, <1>6, <1>7, <1>8, <1>9, <1>10 DEF BookInv

THEOREM BookInvariant == BrokerSpec => []BookInv
<1>1. BookInv /\ [BrokerNext]_brokerVars => BookInv'
  BY TypedNext, SaneNext, TogetherNext, CountingNext, EndingNext, AllBackedNext, GoneNext,
     LateNext, NothingNext, AnswersNext, TrailToldNext DEF BookInv
<1> QED BY BookInvInit, <1>1, PTL DEF BrokerSpec

\* A call is told of as it ended, once for each thing it named.
THEOREM OneOutcomeHolds == BrokerSpec => []OneOutcome
<1>1. BookInv => OneOutcome
  <2> SUFFICES ASSUME BookInv, NEW c \in Calls
               PROVE  LET good == Heard(c, Success)
                          bad  == Heard(c, {"rejected"})
                      IN  /\ result[c] = "ok" =>
                               /\ bad = {}
                               /\ Cardinality(good) = Size(c)
                               /\ cmd[c].ids # <<>> =>
                                    \A n \in good : trail[n].id = cmd[c].ids[Rank(c, n)]
                          /\ result[c] = "error" =>
                               /\ good = {}
                               /\ Cardinality(bad) = IF book \in Rejecting /\ wire[c] # "none"
                                                     THEN 1 ELSE 0
                               /\ \A n \in bad : trail[n].id = Named(c)
    BY DEF OneOutcome, Size, Rejecting
  <2> DEFINE good == Heard(c, Success)
             bad  == Heard(c, {"rejected"})
  <2>1. Counting(c) /\ Ending(c) /\ Typed
    BY DEF BookInv
  <2>2. CASE result[c] = "ok"
    BY <2>1, <2>2 DEF Counting, Ending
  <2>3. CASE result[c] = "error"
    <3>1. good = {}
      BY <2>1, <2>3, HeardFinite, FS_EmptySet DEF Counting, Ending
    <3>2. CASE book \in Rejecting /\ wire[c] # "none"
      <4>1. PICK n \in bad : bad = {n} /\ trail[n].id = Named(c)
        BY <2>1, <2>3, <3>2 DEF Ending
      <4>2. Cardinality(bad) = 1
        BY <4>1, FS_Singleton
      <4> QED BY <2>3, <3>1, <3>2, <4>1, <4>2
    <3>3. CASE ~(book \in Rejecting /\ wire[c] # "none")
      <4>1. bad = {}
        BY <2>1, <2>3, <3>3 DEF Ending
      <4> QED BY <2>3, <3>1, <3>3, <4>1, FS_EmptySet
    <3> QED BY <3>2, <3>3
  <2> QED BY <2>2, <2>3
<1> QED BY BookInvariant, <1>1, PTL

\* Nothing is heard of a thing after its removal but by a call that overlapped it.
THEOREM NothingAfterRemovalHolds == BrokerSpec => []NothingAfterRemoval
<1>1. BookInv => NothingAfterRemoval
  BY DEF BookInv
<1> QED BY BookInvariant, <1>1, PTL

\* Replayed in the order of their dispatch, the events tell what a book holds, of all that
\* no calls fought over, no caller was misled about, and nothing but a command brought or
\* took: what an account deletion, an order or the broker moved is not told of at all.
THEOREM TrailTellsTheBook == BrokerSpec => []TrailTellsBook
<1>1. BookInv => TrailTellsBook
  <2> SUFFICES ASSUME BookInv, NEW i \in Ids \ elsewhere, ~Doubtful(i), book \in Anonymous => i \in held
               PROVE  i \in live <=> i \in Replayed
    BY DEF TrailTellsBook
  <2>1. Readable(i)
    BY DEF Readable, Spoilt, Doubtful
  <2>2. \A c \in Calls : ~Owes(c, i)
    BY DEF Owes, Done, Doubtful
  <2> QED BY <2>1, <2>2 DEF BookInv, TrailTold, Behind
<1> QED BY BookInvariant, <1>1, PTL

===============================================================================
