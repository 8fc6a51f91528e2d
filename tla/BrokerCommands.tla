---------------------------- MODULE BrokerCommands ----------------------------
(***************************************************************************)
(* The use cases that change something outside this process by one call    *)
(* and then dispatch a typed event: GTTs, mutual fund orders and SIPs,     *)
(* native alerts, trailing stops, paper trading, the conversion of a       *)
(* position, family invitations and members, and consent.  The audit rows  *)
(* of these commands are written from the events, so that the dispatched   *)
(* events (the trail) are all that is ever known of them.                  *)
(*                                                                         *)
(* Commands on different books share nothing but the trail, so a behaviour *)
(* is about one book.  The books themselves are external: Apply is what    *)
(* the code expects of the broker, the engine or the store behind a port.  *)
(* The event dispatcher is presumed wired.                                 *)
(***************************************************************************)
EXTENDS Integers, Sequences, FiniteSets, SequencesExt

CONSTANTS
  Calls,     \* requests that may overlap
  Ids,       \* triggers, orders, alerts, stops, invitations, or accounts by e-mail
  NoId,      \* the empty OrderID, TriggerID or UUID of an event
  MaxMoves   \* bound: the things that come or go otherwise than by a command

ASSUME NoIdAssumption == NoId \notin Ids

\* What can be asked of each book.
KindsOf ==
  [gtt      |-> {"gttPlace", "gttModify", "gttDelete"},
   mf       |-> {"mfPlace", "mfCancel"},
   sip      |-> {"sipPlace", "sipCancel"},
   native   |-> {"alertPlace", "alertModify", "alertDelete"},
   stop     |-> {"stopSet", "stopCancel"},
   paper    |-> {"paperEnable", "paperDisable", "paperReset"},
   position |-> {"convert"},
   family   |-> {"invite", "removeMember"},
   consent  |-> {"withdraw"}]

Books == DOMAIN KindsOf

Creates == {"gttPlace", "mfPlace", "sipPlace", "alertPlace", "stopSet", "invite"}
Removes == {"gttDelete", "mfCancel", "sipCancel", "alertDelete", "stopCancel",
            "removeMember", "convert"}

\* A broker answers over the network, so that a request can take effect after its
\* caller gave up.  The other books are stores and engines of this process.
Remote == {"gtt", "mf", "sip", "native", "position"}

\* Books that give each thing a new identifier.  A position, a member and a consent
\* can be there again after they were gone, and paper trading on again.
Fresh == {"gtt", "mf", "sip", "native", "stop"}

VARIABLES
  book,     \* the book this behaviour is about
  held,     \* what it held at first
  live,     \* what it holds
  elsewhere,  \* history: what came or went otherwise than by the commands here
  cmd,      \* kind and target identifiers of each call
  pc,       \* "idle", "begun", "called", "returned": where each call is
  wire,     \* at the book: "none", "sent", "applied", "refused", "partial", or, of
            \* a conversion, "declined" (answered false) or "split" (not all of it)
  answer,   \* the identifier a creation was given
  told,     \* how many success events it has dispatched
  result,   \* "none", "ok", "error": what the caller is told
  overlap,  \* the calls each call overlapped
  trail     \* the dispatched events

bookVars == <<book, held, live, elsewhere>>
brokerVars == <<bookVars, cmd, pc, wire, answer, told, result, overlap, trail>>

Event(c, type, id) == [call |-> c, type |-> type, id |-> id]

\* What a call names: nothing to create, one or more UUIDs to delete native alerts,
\* one identifier (a trigger, an order, a position, an e-mail) otherwise.
TargetsOf(k) ==
  CASE k \in Creates      -> {<<>>}
    [] k = "alertDelete"  -> {<<i>> : i \in Ids} \cup {<<i, j>> : i, j \in Ids}
    [] OTHER              -> {<<i>> : i \in Ids}

NoCommand == [kind |-> "none", ids |-> <<>>]

BrokerInit ==
  /\ book \in Books
  /\ held \in SUBSET Ids
  /\ live = held
  /\ elsewhere = {}
  /\ cmd = [c \in Calls |-> NoCommand]
  /\ pc = [c \in Calls |-> "idle"]
  /\ wire = [c \in Calls |-> "none"]
  /\ answer = [c \in Calls |-> NoId]
  /\ told = [c \in Calls |-> 0]
  /\ result = [c \in Calls |-> "none"]
  /\ overlap = [c \in Calls |-> {}]
  /\ trail = <<>>

Is(c, k) == cmd[c].kind = k

\* The identifier the command names.
Target(c) == cmd[c].ids[1]

-----------------------------------------------------------------------------
(* The steps the use cases are made of.                                    *)

Goto(c, l) == pc' = [pc EXCEPT ![c] = l]

Return(c, r) == Goto(c, "returned") /\ result' = [result EXCEPT ![c] = r]

Flying(c) == pc[c] \notin {"idle", "returned"}

\* The request comes in, and its arguments are checked.
Begin(c) ==
  /\ pc[c] = "idle"
  /\ \E k \in KindsOf[book] : \E ids \in TargetsOf(k) :
       cmd' = [cmd EXCEPT ![c] = [kind |-> k, ids |-> ids]]
  /\ \/ Goto(c, "begun") /\ UNCHANGED result
     \/ Return(c, "error")
  /\ overlap' = [d \in Calls |-> IF d = c THEN {e \in Calls : Flying(e)}
                                 ELSE IF Flying(d) THEN overlap[d] \cup {c} ELSE overlap[d]]
  /\ UNCHANGED <<bookVars, wire, answer, told, trail>>

\* A lookup ends the call: GetBrokerForEmail, or CanInvite and ListMembers.
LookupFails(c) ==
  /\ pc[c] = "begun"
  /\ Return(c, "error")
  /\ UNCHANGED <<bookVars, cmd, wire, answer, told, overlap, trail>>

\* The one call through the port.
Invoke(c) ==
  /\ pc[c] = "begun"
  /\ Goto(c, "called")
  /\ wire' = [wire EXCEPT ![c] = "sent"]
  /\ UNCHANGED <<bookVars, cmd, answer, told, result, overlap, trail>>

\* err # nil: it was not answered in time, or refused, or partly done, or done with
\* the answer lost.
Failed(c) ==
  /\ pc[c] = "called"
  /\ told[c] = 0
  /\ wire[c] # "declined"
  /\ wire[c] = "sent" => book \in Remote

\* Broken variant: the rejection forgets the identifier.
RejectUnnamed(c, id) ==
  /\ Failed(c)
  /\ trail' = Append(trail, Event(c, "rejected", NoId))
  /\ Return(c, "error")
  /\ UNCHANGED <<bookVars, cmd, wire, answer, told, overlap>>

\* The error is returned with a rejection event, or without any.
Reject(c, id) ==
  /\ Failed(c)
  /\ trail' = Append(trail, Event(c, "rejected", id))
  /\ Return(c, "error")
  /\ UNCHANGED <<bookVars, cmd, wire, answer, told, overlap>>

GiveUp(c) ==
  /\ Failed(c)
  /\ Return(c, "error")
  /\ UNCHANGED <<bookVars, cmd, wire, answer, told, overlap, trail>>

\* Broken variant: one event for the whole call.
TellOnce(c, type, ids) ==
  /\ pc[c] = "called"
  /\ wire[c] \in {"applied", "declined", "split"}
  /\ told' = [told EXCEPT ![c] = @ + 1]
  /\ trail' = Append(trail, Event(c, type, ids[1]))
  /\ Return(c, "ok")
  /\ UNCHANGED <<bookVars, cmd, wire, answer, overlap>>

\* err = nil: one success event for each of these, one by one, then the call returns.
Tell(c, type, ids) ==
  /\ pc[c] = "called"
  /\ wire[c] \in {"applied", "declined", "split"}
  /\ told' = [told EXCEPT ![c] = @ + 1]
  /\ trail' = Append(trail, Event(c, type, ids[told'[c]]))
  /\ IF told'[c] = Len(ids) THEN Return(c, "ok") ELSE UNCHANGED <<pc, result>>
  /\ UNCHANGED <<bookVars, cmd, wire, answer, overlap>>

-----------------------------------------------------------------------------
(* The use cases.                                                          *)

PlaceGTT(c) ==
  /\ Is(c, "gttPlace")
  /\ LookupFails(c) \/ Invoke(c) \/ Reject(c, NoId) \/ Tell(c, "created", <<answer[c]>>)

ModifyGTT(c) ==
  /\ Is(c, "gttModify")
  /\ LookupFails(c) \/ Invoke(c) \/ Reject(c, Target(c)) \/ Tell(c, "modified", cmd[c].ids)

\* Broken variant: an error of the broker is taken for a trigger that is gone already.
DeleteGTTAnyway(c) ==
  /\ Is(c, "gttDelete")
  /\ \/ LookupFails(c) \/ Invoke(c) \/ Tell(c, "removed", cmd[c].ids)
     \/ /\ Failed(c)
        /\ trail' = Append(trail, Event(c, "removed", Target(c)))
        /\ Return(c, "ok")
        /\ UNCHANGED <<bookVars, cmd, wire, answer, told, overlap>>

DeleteGTT(c) ==
  /\ Is(c, "gttDelete")
  /\ LookupFails(c) \/ Invoke(c) \/ Reject(c, Target(c)) \/ Tell(c, "removed", cmd[c].ids)

PlaceMFOrder(c) ==
  /\ Is(c, "mfPlace")
  /\ LookupFails(c) \/ Invoke(c) \/ Reject(c, NoId) \/ Tell(c, "created", <<answer[c]>>)

CancelMFOrder(c) ==
  /\ Is(c, "mfCancel")
  /\ LookupFails(c) \/ Invoke(c) \/ Reject(c, Target(c)) \/ Tell(c, "removed", cmd[c].ids)

PlaceMFSIP(c) ==
  /\ Is(c, "sipPlace")
  /\ LookupFails(c) \/ Invoke(c) \/ Reject(c, NoId) \/ Tell(c, "created", <<answer[c]>>)

CancelMFSIP(c) ==
  /\ Is(c, "sipCancel")
  /\ LookupFails(c) \/ Invoke(c) \/ Reject(c, Target(c)) \/ Tell(c, "removed", cmd[c].ids)

\* The event of a native alert names no UUID, and a failure is only logged.
PlaceNativeAlert(c) ==
  /\ Is(c, "alertPlace")
  /\ Invoke(c) \/ GiveUp(c) \/ Tell(c, "created", <<NoId>>)

ModifyNativeAlert(c) ==
  /\ Is(c, "alertModify")
  /\ Invoke(c) \/ GiveUp(c) \/ Tell(c, "modified", cmd[c].ids)

\* One call for all UUIDs, one event for each.
DeleteNativeAlert(c) ==
  /\ Is(c, "alertDelete")
  /\ Invoke(c) \/ GiveUp(c) \/ Tell(c, "removed", cmd[c].ids)

SetTrailingStop(c) ==
  /\ Is(c, "stopSet")
  /\ Invoke(c) \/ GiveUp(c) \/ Tell(c, "created", <<answer[c]>>)

CancelTrailingStop(c) ==
  /\ Is(c, "stopCancel")
  /\ Invoke(c) \/ GiveUp(c) \/ Tell(c, "removed", cmd[c].ids)

PaperTradingToggle(c) ==
  /\ Is(c, "paperEnable") \/ Is(c, "paperDisable")
  /\ \/ Invoke(c) \/ GiveUp(c)
     \/ Tell(c, IF Is(c, "paperEnable") THEN "created" ELSE "removed", cmd[c].ids)

PaperTradingReset(c) ==
  /\ Is(c, "paperReset")
  /\ Invoke(c) \/ GiveUp(c) \/ Tell(c, "modified", cmd[c].ids)

\* The truth value of the answer goes to the caller; the event is dispatched anyhow.
ConvertPosition(c) ==
  /\ Is(c, "convert")
  /\ LookupFails(c) \/ Invoke(c) \/ GiveUp(c) \/ Tell(c, "removed", cmd[c].ids)

\* The event names the guest, not the invitation.
InviteFamilyMember(c) ==
  /\ Is(c, "invite")
  /\ LookupFails(c) \/ Invoke(c) \/ GiveUp(c) \/ Tell(c, "created", <<NoId>>)

RemoveFamilyMember(c) ==
  /\ Is(c, "removeMember")
  /\ Invoke(c) \/ GiveUp(c) \/ Tell(c, "removed", cmd[c].ids)

WithdrawConsent(c) ==
  /\ Is(c, "withdraw")
  /\ Invoke(c) \/ GiveUp(c) \/ Tell(c, "removed", cmd[c].ids)

-----------------------------------------------------------------------------
(* The books.                                                              *)

Given == held \cup {answer[c] : c \in Calls}

Creation(c) ==
  /\ cmd[c].kind \in Creates
  /\ \E i \in Ids \ (Given \cup elsewhere) :
       live' = live \cup {i} /\ answer' = [answer EXCEPT ![c] = i]

\* Removing and changing need the thing to be there; a toggle and a withdrawal do not.
Removal(c) ==
  /\ \/ cmd[c].kind \in Removes /\ ToSet(cmd[c].ids) \subseteq live
     \/ cmd[c].kind \in {"paperDisable", "withdraw"}
  /\ live' = live \ ToSet(cmd[c].ids)
  /\ UNCHANGED answer

Change(c) ==
  /\ \/ cmd[c].kind \in {"gttModify", "alertModify", "paperReset"}
        /\ Target(c) \in live /\ UNCHANGED live
     \/ Is(c, "paperEnable") /\ live' = live \cup {Target(c)}
  /\ UNCHANGED answer

\* Several alerts are deleted one after the other, and one of them fails.
PartialRemoval(c) ==
  /\ Is(c, "alertDelete")
  /\ \E gone \in SUBSET ToSet(cmd[c].ids) :
       gone \subseteq live /\ gone \notin {{}, ToSet(cmd[c].ids)} /\ live' = live \ gone
  /\ UNCHANGED answer

\* A conversion of part of a position leaves the rest where it was.
Split(c) ==
  /\ Is(c, "convert") /\ Target(c) \in live
  /\ UNCHANGED <<live, answer>>

Apply(c) ==
  /\ wire[c] = "sent"
  /\ \E w \in {"applied", "partial", "refused", "declined", "split"} :
       /\ wire' = [wire EXCEPT ![c] = w]
       /\ CASE w = "applied"  -> Creation(c) \/ Removal(c) \/ Change(c)
            [] w = "partial"  -> PartialRemoval(c)
            [] w = "split"    -> Split(c)
            [] w = "declined" -> Is(c, "convert") /\ UNCHANGED <<live, answer>>
            [] w = "refused"  -> UNCHANGED <<live, answer>>
  /\ UNCHANGED <<book, held, elsewhere, cmd, pc, told, result, overlap, trail>>

-----------------------------------------------------------------------------
(* What comes and goes otherwise, without an event of these use cases.     *)

Moved(i) ==
  /\ Cardinality(elsewhere) < MaxMoves
  /\ elsewhere' = elsewhere \cup {i}
  /\ UNCHANGED <<book, held, cmd, pc, wire, answer, told, result, overlap, trail>>

\* The deletion of an account cancels its trailing stops and disables its paper trading.
AccountDeleted(i) ==
  /\ book \in {"stop", "paper"}
  /\ i \in live
  /\ live' = live \ {i}
  /\ Moved(i)

\* A trigger or a stop fires, an order completes; a position is closed by an order, a
\* trigger is deleted in an application of the broker's, an invitation runs out.
Goes(i) ==
  /\ book \in Fresh \cup {"position", "family"}
  /\ i \in live
  /\ live' = live \ {i}
  /\ Moved(i)

\* Something is made in an application of the broker's, a position is opened by an
\* order, a consent is given, a member is linked.
Comes(i) ==
  /\ \/ book \in Fresh \ {"stop"} /\ i \notin Given \cup elsewhere
     \/ book \in {"position", "family", "consent"} /\ i \notin live
  /\ live' = live \cup {i}
  /\ Moved(i)

-----------------------------------------------------------------------------
UseCase(c) ==
  \/ PlaceGTT(c) \/ ModifyGTT(c) \/ DeleteGTT(c)
  \/ PlaceMFOrder(c) \/ CancelMFOrder(c) \/ PlaceMFSIP(c) \/ CancelMFSIP(c)
  \/ PlaceNativeAlert(c) \/ ModifyNativeAlert(c) \/ DeleteNativeAlert(c)
  \/ SetTrailingStop(c) \/ CancelTrailingStop(c)
  \/ PaperTradingToggle(c) \/ PaperTradingReset(c) \/ ConvertPosition(c)
  \/ InviteFamilyMember(c) \/ RemoveFamilyMember(c) \/ WithdrawConsent(c)

BrokerNext ==
  \/ \E c \in Calls : Begin(c) \/ UseCase(c) \/ Apply(c)
  \/ \E i \in Ids : AccountDeleted(i) \/ Goes(i) \/ Comes(i)

BrokerSpec == BrokerInit /\ [][BrokerNext]_brokerVars

-----------------------------------------------------------------------------
(* What the trail is good for.                                             *)

\* The calls that did something and told the caller it failed, that did part of it,
\* or that told of something the broker declined.
Misleading(c) ==
  \/ wire[c] = "applied" /\ result[c] = "error"
  \/ wire[c] \in {"partial", "split", "declined"}

Names(c) == ToSet(cmd[c].ids) \cup {answer[c]}

\* The calls the trail cannot be trusted about: two that overlapped on one thing, a
\* misleading one, and one that has not come to its end.
Doubtful(i) ==
  \E c \in Calls :
    /\ i \in Names(c)
    /\ \/ Misleading(c) \/ Flying(c)
       \/ \E d \in overlap[c] : i \in Names(d)

Anonymous == {"native", "family"}

\* Where the trail tells that a thing came or went.
Moves(i) == {n \in DOMAIN trail : trail[n].id = i /\ trail[n].type \in {"created", "removed"}}

\* What is there by the events, in the order of their dispatch, over what was there at
\* first: the last of them that told of a thing's coming or going decides.
Replayed ==
  {i \in Ids : \/ Moves(i) = {} /\ i \in held
               \/ \E n \in Moves(i) : trail[n].type = "created" /\ \A m \in Moves(i) : m <= n}

\* The audit rows of these commands are persisted from their events only, so that the
\* events, replayed in their order, tell what a book holds: of everything that no two
\* calls fought over and no answer was lost about, that was done as a whole, that did
\* not come or go otherwise, and whose creation was told under its name.
TrailTellsBook ==
  \A i \in Ids \ elsewhere :
    \/ Doubtful(i)
    \/ book \in Anonymous /\ i \notin held
    \/ i \in live <=> i \in Replayed

\* Where in the trail a call's events of these types are, and how many of them there
\* are up to one of them.
Success == {"created", "modified", "removed"}
Heard(c, types) == {n \in DOMAIN trail : trail[n].call = c /\ trail[n].type \in types}
Rank(c, n) == Cardinality({m \in Heard(c, Success) : m <= n})

\* What a rejection names: the identifier the call named, if it named one.
Named(c) == IF cmd[c].ids = <<>> THEN NoId ELSE Target(c)

\* A rejection is told of a call that reached the broker and failed, once, under the
\* identifier the call named, where the use case tells of failures at all; a success
\* is told once for each identifier, in their order; nothing is told of a call that
\* never got through.
OneOutcome ==
  \A c \in Calls :
    LET good == Heard(c, Success)
        bad  == Heard(c, {"rejected"})
    IN  /\ result[c] = "ok" =>
             /\ bad = {}
             /\ Cardinality(good) = IF cmd[c].ids = <<>> THEN 1 ELSE Len(cmd[c].ids)
             /\ cmd[c].ids # <<>> => \A n \in good : trail[n].id = cmd[c].ids[Rank(c, n)]
        /\ result[c] = "error" =>
             /\ good = {}
             /\ Cardinality(bad) = IF book \in {"gtt", "mf", "sip"} /\ wire[c] # "none" THEN 1 ELSE 0
             /\ \A n \in bad : trail[n].id = Named(c)

\* Nothing is heard of a thing after its removal, unless the calls overlapped and the
\* events of the two overtook each other.
NothingAfterRemoval ==
  book \in Fresh =>
    \A m, n \in DOMAIN trail :
      (/\ m < n /\ trail[m].id = trail[n].id /\ trail[m].id # NoId
       /\ trail[m].type = "removed" /\ trail[n].type \in {"created", "modified"})
      => trail[m].call \in overlap[trail[n].call]

=============================================================================
