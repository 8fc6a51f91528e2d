--------------------------- MODULE StreamsProofs ---------------------------
(***************************************************************************)
(* The safety properties of Streams, for any finite set of calls, any      *)
(* names and any mix of use cases: first those that speak of overlapping   *)
(* calls, then what the events and the audit streams tell of the stores.   *)
(***************************************************************************)
EXTENDS Streams, TLAPS, FiniteSetTheorems, WellFoundedInduction

-----------------------------------------------------------------------------
(* The inductive invariant.                                                *)

Rows == outbox \cup log

\* The types, without the bounds on the numbers.
Typed ==
  /\ done \in [Calls -> Nat]
  /\ kind \in [Calls -> Kinds \cup {"none"}]
  /\ on \in [Calls -> Things \cup {NoCall}]
  /\ arg \in [Calls -> Args]
  /\ prior \in [Calls -> Calls \cup {NoCall}]
  /\ seq \in [Calls -> Nat]
  /\ direct \in SUBSET Calls
  /\ alive \in SUBSET Calls
  /\ cell \in [Cells -> Calls \cup {NoCall}]
  /\ token \in Calls \cup {NoCall}
  /\ \A r \in Rows : r.of \in Calls /\ r.seq \in Nat \ {0}
  /\ heard \in Seq(Calls)
  /\ before \in [Calls -> SUBSET Calls]
  /\ replaced \in [Calls -> Calls \cup {NoCall}]
  /\ lost \in SUBSET Calls

\* What a call of a kind works on, and how far it can be.
Placed ==
  \A c \in Calls :
    /\ kind[c] = "none" => done[c] = 0 /\ before[c] = {} /\ seq[c] = 0
    /\ kind[c] # "none" => done[c] <= Len(Stages[kind[c]])
    /\ kind[c] \in {"update", "invalidate"} \cup Clears \cup Logins => on[c] = "credential"
    /\ kind[c] = "setChat" => on[c] = "chat"

\* A call that had returned has returned.
Past == \A c \in Calls : before[c] \subseteq Returned

\* Has the call gone by this stage?
Behind(c, stage) ==
  Began(c) /\ \E i \in 1..done[c] : i <= Len(Stages[kind[c]]) /\ Stages[kind[c]][i] = stage

\* A row is its call's, which appends no other, and a call about to append
\* has its number.
OwnRows ==
  /\ \A r \in Rows : r.seq = seq[r.of] /\ Behind(r.of, "append")
  /\ \A r, s \in Rows : r.of = s.of => r = s
  /\ \A c \in Calls : At(c, "append") => seq[c] # 0

\* The rows can be counted.
Bounded == \E b \in Nat : \A r \in Rows : r.seq <= b

\* A number is above the rows of every call that had returned,
NumbersInOrder ==
  \A c \in Calls, r \in Rows :
    seq[c] # 0 /\ on[r.of] = on[c] /\ r.of \in before[c] => r.seq < seq[c]

\* and the next above a row of its thing.
NoGaps ==
  \A c \in Calls :
    seq[c] > 1 => \E r \in Rows : on[r.of] = on[c] /\ r.seq = seq[c] - 1

RowsInv == OwnRows /\ Bounded /\ NumbersInOrder /\ NoGaps

\* A list about to be written, or written, has found no list of its name that
\* was there before it began.
Vetted(c) == kind[c] = "createList" /\ (done[c] = 1 \/ c \in alive)
ListsInv ==
  /\ \A c \in alive : kind[c] \in Creates
  /\ \A c \in Calls, d \in alive :
       Vetted(c) /\ kind[d] = "createList" /\ arg[c] = arg[d] => d \notin before[c]

\* A snapshot is stale only if another call on the entry overlaps.
Disturbed(c) == \E d \in Calls : on[d] = on[c] /\ Overlap(c, d)
SnapshotsInv ==
  \A c \in Calls :
    /\ kind[c] \in Sets /\ done[c] = 1 => prior[c] = cell[on[c]] \/ Disturbed(c)
    /\ kind[c] \in Sets /\ done[c] > 1 => prior[c] = replaced[c] \/ Disturbed(c)

\* A call that changes the stored key.
Changes(c) == kind[c] \in {"update", "loginOwn"} \cup Clears

\* A call that has got rid of the token it found.
Dropped(c) == \/ kind[c] = "update" /\ done[c] > 2
              \/ kind[c] \in {"revoke", "loginOwn"} /\ done[c] > 1
              \/ kind[c] = "deleteAccount" /\ done[c] > 3

Rekeyed(c) == \E d \in CallsOn("credential") : Changes(d) /\ Overlap(c, d)

TokensInv ==
  /\ token # NoCall => kind[token] \in Logins /\ done[token] > 1
  /\ \A c \in Calls : kind[c] = "loginOwn" /\ done[c] > 0 => prior[c] = c
  /\ \A c \in Calls : kind[c] = "login" /\ done[c] = 1 => prior[c] = cell["credential"] \/ Rekeyed(c)
  /\ \A c \in Calls : Dropped(c) => token \notin before[c]
  /\ NoStaleToken

StreamsInv == /\ Typed /\ Placed /\ Past
              /\ RowsInv /\ ListsInv /\ SnapshotsInv /\ TokensInv

-----------------------------------------------------------------------------
(* The plans.                                                              *)

Uses == {"createAlert", "createComposite", "deleteAlert", "createList",
         "deleteList", "changeList", "update", "revoke", "deleteAccount",
         "invalidate", "setChat", "login", "loginOwn"}

\* A plan has no stage twice, and an append right behind every sequence.
WellMade(p) ==
  /\ Len(p) \in 1..6
  /\ \A i, j \in 1..Len(p) : p[i] = p[j] => i = j
  /\ \A i \in 1..Len(p) : p[i] = "append" => i > 1 /\ p[i - 1] = "sequence"
  /\ \A i \in 1..Len(p) : p[i] = "sequence" => i < Len(p) /\ p[i + 1] = "append"

LEMMA Plans == \A k \in Uses : WellMade(Stages[k])
<1>1. WellMade(CreateAlert)
  BY DEF WellMade, CreateAlert
<1>2. WellMade(CreateComposite)
  BY DEF WellMade, CreateComposite
<1>3. WellMade(DeleteAlert)
  BY DEF WellMade, DeleteAlert
<1>4. WellMade(CreateWatchlist)
  BY DEF WellMade, CreateWatchlist
<1>5. WellMade(DeleteWatchlist)
  BY DEF WellMade, DeleteWatchlist
<1>6. WellMade(ChangeWatchlist)
  BY DEF WellMade, ChangeWatchlist
<1>7. WellMade(UpdateCredentials)
  BY DEF WellMade, UpdateCredentials
<1>8. WellMade(RevokeCredentials)
  BY DEF WellMade, RevokeCredentials
<1>9. WellMade(DeleteAccount)
  BY DEF WellMade, DeleteAccount
<1>10. WellMade(InvalidateToken)
  BY DEF WellMade, InvalidateToken
<1>11. WellMade(SetupTelegram)
  BY DEF WellMade, SetupTelegram
<1>12. WellMade(Login)
  BY DEF WellMade, Login
<1>13. WellMade(LoginOwnKeys)
  BY DEF WellMade, LoginOwnKeys
<1> QED BY <1>1, <1>2, <1>3, <1>4, <1>5, <1>6, <1>7, <1>8, <1>9, <1>10, <1>11, <1>12, <1>13
        DEF Uses, Stages

LEMMA KindsAreUses == Kinds \subseteq Uses /\ "none" \notin Uses
BY KindsAssumption DEF Stages, Uses

\* Where the reads, the writes and the drops of a token stand.
Lookers == Sets \cup Logins \cup {"createList"}

LEMMA LooksAndWrites ==
  /\ \A k \in Lookers : /\ Len(Stages[k]) > 1
                        /\ \A i \in 1..Len(Stages[k]) :
                             /\ Stages[k][i] = "look" <=> i = 1
                             /\ Stages[k][i] = "write" <=> i = 2
  /\ \A k \in Clears : \A i \in 1..Len(Stages[k]) : Stages[k][i] = "write" <=> i = 1
  /\ \A k \in Uses : \A i \in 1..Len(Stages[k]) :
       Stages[k][i] = "store" <=> k = "loginOwn" /\ i = 3
BY DEF Lookers, Sets, Logins, Clears, Uses, Stages, CreateAlert, CreateComposite, DeleteAlert,
       CreateWatchlist, DeleteWatchlist, ChangeWatchlist, UpdateCredentials, RevokeCredentials,
       DeleteAccount, InvalidateToken, SetupTelegram, Login, LoginOwnKeys

LEMMA TokenPlans ==
  /\ Len(Stages["update"]) = 5 /\ Len(Stages["revoke"]) = 4
  /\ Len(Stages["deleteAccount"]) = 6 /\ Len(Stages["loginOwn"]) = 3 /\ Len(Stages["login"]) = 2
  /\ Stages["update"][3] = "token" /\ Stages["revoke"][2] = "token"
  /\ Stages["deleteAccount"][4] = "token"
  /\ Stages["update"][4] = "sequence" /\ Stages["revoke"][3] = "sequence"
  /\ Stages["deleteAccount"][2] = "sequence" /\ Stages["deleteAccount"][3] = "append"
BY DEF Stages, UpdateCredentials, RevokeCredentials, DeleteAccount, Login, LoginOwnKeys

-----------------------------------------------------------------------------
(* Numbers.                                                                *)

\* A bounded nonempty set of naturals has a greatest element, and Max is it.
LEMMA MaxIsGreatest ==
  ASSUME NEW T \in SUBSET Nat, T # {}, NEW b \in Nat, \A x \in T : x <= b
  PROVE  Max(T) \in T /\ \A x \in T : x <= Max(T)
<1> DEFINE R == OpToRel(<, Nat)
<1> DEFINE U == {n \in Nat : \A x \in T : x <= n}
<1>1. IsWellFoundedOn(R, Nat)
  BY NatLessThanWellFounded
<1>2. \A n, k \in Nat : n < k => <<n, k>> \in R
  BY DEF R, OpToRel
<1> HIDE DEF R
<1>3. b \in U /\ U \in SUBSET Nat
  OBVIOUS
<1> HIDE DEF U
<1>4. PICK m \in U : \A n \in U : <<n, m>> \notin R
  BY <1>1, <1>3, WFMin
<1>5. m \in Nat /\ \A x \in T : x <= m
  BY DEF U
<1>6. m \in T
  <2>1. CASE m = 0
    <3>1. PICK x \in T : TRUE
      OBVIOUS
    <3>2. x \in Nat /\ x <= 0
      BY <2>1, <1>5
    <3> QED BY <2>1, <3>2
  <2>2. CASE m # 0
    <3>1. m - 1 \in Nat /\ m - 1 < m
      BY <2>2, <1>5
    <3>2. m - 1 \notin U
      BY <3>1, <1>2, <1>4, <1>5
    <3>3. PICK x \in T : ~(x <= m - 1)
      BY <3>1, <3>2 DEF U
    <3> QED BY <3>1, <3>3, <1>5
  <2> QED BY <2>1, <2>2
<1>7. \A x \in T : m >= x
  BY <1>5
<1>8. Max(T) \in T /\ \A x \in T : Max(T) >= x
  BY <1>6, <1>7 DEF Max
<1> QED BY <1>8

\* NextSequence is the first number above every row of the thing.
LEMMA NextIsAbove ==
  ASSUME Typed, Bounded, NEW t
  PROVE  /\ NextSequence(t) \in Nat \ {0}
         /\ \A r \in Rows : on[r.of] = t => r.seq < NextSequence(t)
         /\ NextSequence(t) > 1 => \E r \in Rows : on[r.of] = t /\ r.seq = NextSequence(t) - 1
<1> DEFINE T == {0} \cup {r.seq : r \in RowsOn(t, Rows)}
<1>1. \A r \in Rows : r.seq \in Nat
  BY DEF Typed
<1>2. T \in SUBSET Nat /\ T # {}
  BY <1>1 DEF RowsOn
<1>3. PICK b \in Nat : \A r \in Rows : r.seq <= b
  BY DEF Bounded
<1>4. \A x \in T : x <= b
  BY <1>3 DEF RowsOn
<1>5. Max(T) \in T /\ \A x \in T : x <= Max(T)
  BY <1>2, <1>4, MaxIsGreatest
<1>6. NextSequence(t) = Max(T) + 1
  BY DEF NextSequence, Rows
<1>7. \A r \in Rows : on[r.of] = t => r.seq \in T
  BY DEF RowsOn
<1> HIDE DEF T
<1>8. Max(T) \in Nat
  BY <1>2, <1>5
<1>9. ASSUME NextSequence(t) > 1
      PROVE  \E r \in Rows : on[r.of] = t /\ r.seq = NextSequence(t) - 1
  <2>1. Max(T) # 0 /\ Max(T) = NextSequence(t) - 1
    BY <1>6, <1>8, <1>9
  <2>2. PICK r \in RowsOn(t, Rows) : r.seq = Max(T)
    BY <2>1, <1>5 DEF T
  <2> QED BY <2>1, <2>2 DEF RowsOn
<1>10. ASSUME NEW r \in Rows, on[r.of] = t PROVE r.seq < NextSequence(t)
  <2>1. r.seq <= Max(T) /\ r.seq \in Nat
    BY <1>1, <1>5, <1>7, <1>10
  <2> QED BY <2>1, <1>6, <1>8
<1> QED BY <1>6, <1>8, <1>9, <1>10

-----------------------------------------------------------------------------
(* What every step leaves alone.                                           *)

\* A call goes on, or stays where it is; nothing it was begun with changes.
Moves(c) ==
  /\ Running(c)
  /\ \E n \in Nat : /\ done[c] <= n /\ n <= Len(Stages[kind[c]])
                    /\ done' = [done EXCEPT ![c] = n]
  /\ UNCHANGED <<kind, on, arg, before>>

Starts(c) == \E k \in Kinds, t \in Things : Begin(c, k, t)

LEMMA RunningIsTyped ==
  ASSUME Typed, NEW c \in Calls, Began(c)
  PROVE  kind[c] \in Uses /\ WellMade(Stages[kind[c]]) /\ done[c] \in Nat
BY Plans, KindsAreUses DEF Typed, Began

\* Each step of a call starts it or moves it.
LEMMA StepMoves ==
  ASSUME Typed, Placed, NEW c \in Calls, CallStep(c)
  PROVE  Starts(c) \/ Moves(c)
<1>1. CASE Starts(c)
  BY <1>1
<1>2. CASE ~Starts(c)
  <2>1. /\ Running(c)
        /\ \/ Advance(c) \/ Return(c) \/ UNCHANGED done
           \/ done' = [done EXCEPT ![c] = @ + 2] /\ At(c, "sequence")
    BY <1>2 DEF CallStep, Starts, FindByName, Snapshot, ReadKey, Insert, Remove, Change, WriteFails,
         SetCell, ClearCell, CacheToken, DropToken, StoreKeys, SweepAlerts, SweepLists, Dispatch,
         AskSequence, SequenceFails, AppendToOutbox, OutboxFails, AppendRow, AppendFails, Direct, At
  <2>2. UNCHANGED <<kind, on, arg, before>>
    BY <1>2 DEF CallStep, Starts, FindByName, Snapshot, ReadKey, Insert, Remove, Change, WriteFails,
         SetCell, ClearCell, CacheToken, DropToken, StoreKeys, SweepAlerts, SweepLists, Dispatch,
         AskSequence, SequenceFails, AppendToOutbox, OutboxFails, AppendRow, AppendFails, history
  <2> DEFINE p == Stages[kind[c]]
  <2>3. WellMade(p) /\ done[c] \in Nat /\ done[c] < Len(p)
    BY <2>1, RunningIsTyped DEF Running
  <2>4. Len(p) \in Nat
    BY <2>3 DEF WellMade
  <2>5. \E n \in Nat : done[c] <= n /\ n <= Len(p) /\ done' = [done EXCEPT ![c] = n]
    <3>1. CASE Advance(c)
      <4>1. done[c] + 1 \in Nat /\ done[c] <= done[c] + 1 /\ done[c] + 1 <= Len(p)
        BY <2>3, <2>4
      <4> QED BY <3>1, <4>1 DEF Advance
    <3>2. CASE Return(c)
      <4>1. Len(p) \in Nat /\ done[c] <= Len(p) /\ Len(p) <= Len(p)
        BY <2>3, <2>4
      <4> QED BY <3>2, <4>1 DEF Return
    <3>3. CASE UNCHANGED done
      <4>1. done' = [done EXCEPT ![c] = done[c]]
        BY <3>3 DEF Typed
      <4>2. done[c] <= done[c] /\ done[c] <= Len(p)
        BY <2>3, <2>4
      <4> QED BY <4>1, <4>2, <2>3
    <3>4. CASE done' = [done EXCEPT ![c] = @ + 2] /\ At(c, "sequence")
      <4>1. done[c] + 1 \in 1..Len(p) /\ p[done[c] + 1] = "sequence"
        BY <3>4, <2>3, <2>4 DEF At
      <4>2. done[c] + 1 < Len(p)
        BY <4>1, <2>3 DEF WellMade
      <4>3. done[c] + 2 \in Nat /\ done[c] <= done[c] + 2 /\ done[c] + 2 <= Len(p)
        BY <4>2, <2>3, <2>4
      <4> QED BY <3>4, <4>3
    <3> QED BY <2>1, <3>1, <3>2, <3>3, <3>4
  <2> QED BY <2>1, <2>2, <2>5 DEF Moves
<1> QED BY <1>1, <1>2

\* What each step may change.
LEMMA Frames ==
  ASSUME NEW c \in Calls, CallStep(c)
  PROVE  /\ UNCHANGED prior \/ Snapshot(c) \/ ReadKey(c)
         /\ UNCHANGED replaced \/ SetCell(c)
         /\ UNCHANGED cell \/ SetCell(c) \/ ClearCell(c) \/ StoreKeys(c)
         /\ UNCHANGED token \/ CacheToken(c) \/ DropToken(c)
         /\ UNCHANGED alive \/ Insert(c) \/ Remove(c) \/ SweepAlerts(c) \/ SweepLists(c)
         /\ UNCHANGED seq \/ AskSequence(c)
         /\ UNCHANGED direct \/ OutboxFails(c)
         /\ UNCHANGED heard \/ Dispatch(c)
         /\ UNCHANGED <<outbox, log>> \/ AppendToOutbox(c) \/ AppendRow(c)
         /\ UNCHANGED lost \/ SequenceFails(c) \/ AppendFails(c)
<1>1. CASE \E k \in Kinds, t \in Things : Begin(c, k, t)
  BY <1>1 DEF Begin, storeVars, rowVars
<1>2. CASE FindByName(c) \/ Snapshot(c) \/ ReadKey(c)
  BY <1>2 DEF FindByName, Snapshot, ReadKey, storeVars, rowVars, history
<1>3. CASE Insert(c) \/ Remove(c) \/ Change(c) \/ WriteFails(c)
  BY <1>3 DEF Insert, Remove, Change, WriteFails, storeVars, rowVars, history
<1>4. CASE SetCell(c) \/ ClearCell(c) \/ CacheToken(c) \/ DropToken(c)
  BY <1>4 DEF SetCell, ClearCell, CacheToken, DropToken, rowVars, history
<1>5. CASE StoreKeys(c) \/ SweepAlerts(c) \/ SweepLists(c)
  BY <1>5 DEF StoreKeys, SweepAlerts, SweepLists, rowVars, history
<1>6. CASE Dispatch(c) \/ AskSequence(c) \/ SequenceFails(c)
  BY <1>6 DEF Dispatch, AskSequence, SequenceFails, storeVars, rowVars, history
<1>7. CASE AppendToOutbox(c) \/ OutboxFails(c) \/ AppendRow(c) \/ AppendFails(c)
  BY <1>7 DEF AppendToOutbox, OutboxFails, AppendRow, AppendFails, storeVars, rowVars, history
<1> QED BY <1>1, <1>2, <1>3, <1>4, <1>5, <1>6, <1>7 DEF CallStep

\* What begins has not begun before, and knows who had returned.
LEMMA StartsBegins ==
  ASSUME Typed, NEW c \in Calls, Starts(c)
  PROVE  /\ ~Began(c) /\ kind'[c] \in Uses /\ kind'[c] \in Kinds /\ before'[c] = Returned
         /\ on'[c] \in Things
         /\ kind'[c] \in Creates => on'[c] = c
         /\ kind'[c] \in {"update", "invalidate"} \cup Clears \cup Logins => on'[c] = "credential"
         /\ kind'[c] = "setChat" => on'[c] = "chat"
         /\ \A d \in Calls \ {c} : UNCHANGED <<kind[d], on[d], before[d]>>
         /\ UNCHANGED <<done, arg, prior, seq, direct, storeVars, rowVars, heard, replaced, lost>>
         /\ kind' \in [Calls -> Kinds \cup {"none"}] /\ on' \in [Calls -> Things \cup {NoCall}]
         /\ before' \in [Calls -> SUBSET Calls]
<1>1. PICK k \in Kinds, t \in Things : Begin(c, k, t)
  BY DEF Starts
<1>2. kind'[c] = k /\ on'[c] = t /\ before'[c] = Returned /\ k \in Uses
  BY <1>1, KindsAreUses DEF Begin, Typed
<1>3. k \in Creates => t = c
  BY <1>1 DEF Begin, Targets, Creates
<1>4. k \in {"update", "invalidate"} \cup Clears \cup Logins => t = "credential"
  BY <1>1 DEF Begin, Targets, Clears, Logins, Creates
<1>5. k = "setChat" => t = "chat"
  BY <1>1 DEF Begin, Targets, Creates
<1>6. Returned \in SUBSET Calls
  BY DEF Returned
<1> QED BY <1>1, <1>2, <1>3, <1>4, <1>5, <1>6 DEF Begin, Typed

-----------------------------------------------------------------------------
(* Overlaps.                                                               *)

\* Calls running side by side overlap.
LEMMA RunTogether ==
  ASSUME Past, NEW c \in Calls, NEW d \in Calls, c # d, Running(c), Running(d)
  PROVE  Overlap(c, d)
BY DEF Past, Returned, Overlap, Running

\* What has returned has returned for good, and what overlapped has.
LEMMA Stays ==
  ASSUME Typed, Placed, Past, NEW e \in Calls, Starts(e) \/ Moves(e)
  PROVE  /\ Returned \subseteq Returned'
         /\ \A c \in Calls : Began(c) => /\ Began(c)' /\ UNCHANGED <<kind[c], on[c], before[c]>>
         /\ \A c \in Calls : (c # e => UNCHANGED done[c]) /\ UNCHANGED arg[c]
         /\ \A c, d \in Calls : Overlap(c, d) => Overlap(c, d)'
         /\ Past'
<1>1. CASE Starts(e)
  <2>1. ~Began(e) /\ before'[e] = Returned /\ Began(e)'
    BY <1>1, StartsBegins, KindsAreUses DEF Began
  <2>2. \A c \in Calls : c # e => UNCHANGED <<kind[c], on[c], before[c]>>
    BY <1>1, StartsBegins
  <2>3. UNCHANGED <<done, arg>>
    BY <1>1, StartsBegins
  <2>4. \A c \in Calls : Began(c) => Began(c)' /\ UNCHANGED <<kind[c], on[c], before[c]>>
    BY <2>1, <2>2 DEF Began
  <2>5. Returned \subseteq Returned'
    BY <2>3, <2>4 DEF Returned, Running
  <2>6. \A c, d \in Calls : Overlap(c, d) => Overlap(c, d)'
    BY <2>4 DEF Overlap
  <2>7. Past'
    BY <2>1, <2>2, <2>5 DEF Past
  <2> QED BY <2>3, <2>4, <2>5, <2>6, <2>7
<1>2. CASE Moves(e)
  <2>1. UNCHANGED <<kind, on, arg, before>> /\ Running(e)
    BY <1>2 DEF Moves
  <2>2. \A c \in Calls : c # e => UNCHANGED done[c]
    BY <1>2 DEF Moves, Typed
  <2>3. Returned \subseteq Returned'
    BY <2>1, <2>2 DEF Returned, Running, Began
  <2>4. \A c, d \in Calls : Overlap(c, d) => Overlap(c, d)'
    BY <2>1 DEF Overlap, Began
  <2>5. Past'
    BY <2>1, <2>3 DEF Past
  <2> QED BY <2>1, <2>2, <2>3, <2>4, <2>5 DEF Began
<1> QED BY <1>1, <1>2

-----------------------------------------------------------------------------
(* Types and places.                                                       *)

LEMMA TypedInit == Init => Typed /\ Placed /\ Past
<1> SUFFICES ASSUME Init PROVE Typed /\ Placed /\ Past
  OBVIOUS
<1>1. Typed
  BY DEF Init, Typed, Rows
<1>2. Placed
  BY DEF Init, Placed, Clears, Logins
<1>3. Past
  BY DEF Init, Past
<1> QED BY <1>1, <1>2, <1>3

\* Only a running call asks for a number.
LEMMA SeqChanges ==
  ASSUME Typed, NEW c \in Calls, CallStep(c)
  PROVE  \A d \in Calls : seq'[d] # seq[d] => d = c /\ AskSequence(c)
BY Frames DEF AskSequence, Typed

LEMMA PlacedStep ==
  ASSUME Typed, Placed, NEW c \in Calls, CallStep(c)
  PROVE  Placed'
<1>1. \A d \in Calls : seq'[d] # seq[d] => d = c /\ Running(c)
  BY SeqChanges DEF AskSequence, At
<1>2. CASE Starts(c)
  <2>1. kind'[c] \in Uses /\ UNCHANGED <<done, seq>> /\ ~Began(c)
    BY <1>2, StartsBegins
  <2>2. done[c] = 0 /\ 0 <= Len(Stages[kind'[c]])
    BY <2>1, Plans DEF Placed, Began, WellMade
  <2>3. kind'[c] # "none"
    BY <2>1, KindsAreUses
  <2>4. /\ kind'[c] \in {"update", "invalidate"} \cup Clears \cup Logins => on'[c] = "credential"
        /\ kind'[c] = "setChat" => on'[c] = "chat"
        /\ \A d \in Calls \ {c} : UNCHANGED <<kind[d], on[d], before[d]>>
    BY <1>2, StartsBegins
  <2> QED BY <2>1, <2>2, <2>3, <2>4 DEF Placed
<1>3. CASE Moves(c)
  <2>1. UNCHANGED <<kind, on, before>> /\ Began(c)
    BY <1>3 DEF Moves, Running
  <2>2. \A d \in Calls : d # c => UNCHANGED done[d]
    BY <1>3 DEF Moves, Typed
  <2>3. done'[c] <= Len(Stages[kind[c]])
    BY <1>3 DEF Moves, Typed
  <2> QED BY <1>1, <2>1, <2>2, <2>3 DEF Placed, Began
<1> QED BY <1>2, <1>3, StepMoves

LEMMA TypedStep ==
  ASSUME Typed, Placed, OwnRows, Bounded, NEW c \in Calls, CallStep(c)
  PROVE  Typed'
<1>1. /\ done' \in [Calls -> Nat] /\ kind' \in [Calls -> Kinds \cup {"none"}]
      /\ on' \in [Calls -> Things \cup {NoCall}] /\ before' \in [Calls -> SUBSET Calls]
      /\ arg' \in [Calls -> Args]
  <2>1. CASE Starts(c)
    BY <2>1, StartsBegins DEF Typed
  <2>2. CASE Moves(c)
    BY <2>2 DEF Moves, Typed
  <2> QED BY <2>1, <2>2, StepMoves
<1>2. kind[c] \in Sets => on[c] \in Cells
  BY DEF Placed, Sets, Cells
<1>3. cell["credential"] \in Calls \cup {NoCall} /\ (kind[c] \in Sets => cell[on[c]] \in Calls \cup {NoCall})
  BY <1>2 DEF Typed, Cells
<1>4. prior' \in [Calls -> Calls \cup {NoCall}]
  <2>1. CASE Snapshot(c)
    BY <1>3, <2>1 DEF Typed, Snapshot
  <2>2. CASE ReadKey(c)
    <3>1. \E x \in Calls \cup {NoCall} : prior' = [prior EXCEPT ![c] = x]
      BY <1>3, <2>2 DEF ReadKey
    <3> QED BY <3>1 DEF Typed
  <2>3. CASE UNCHANGED prior
    BY <2>3 DEF Typed
  <2> QED BY <2>1, <2>2, <2>3, Frames
<1>5. replaced' \in [Calls -> Calls \cup {NoCall}]
  <2>1. UNCHANGED replaced \/ SetCell(c)
    BY Frames
  <2>2. SetCell(c) => replaced' = [replaced EXCEPT ![c] = cell[on[c]]] /\ kind[c] \in Sets
    BY DEF SetCell
  <2> QED BY <2>1, <2>2, <1>3 DEF Typed
<1>6. /\ cell' \in [Cells -> Calls \cup {NoCall}]
      /\ token' \in Calls \cup {NoCall}
  <2>1. \/ UNCHANGED cell \/ cell' = [cell EXCEPT ![on[c]] = c]
        \/ cell' = [cell EXCEPT !["credential"] = NoCall] \/ cell' = [cell EXCEPT !["credential"] = c]
    BY Frames DEF SetCell, ClearCell, StoreKeys
  <2>2. UNCHANGED token \/ token' = c \/ token' = NoCall
    BY Frames DEF CacheToken, DropToken
  <2> QED BY <2>1, <2>2 DEF Typed
<1>7. alive' \in SUBSET Calls
  BY Frames DEF Typed, Insert, Remove, SweepAlerts, SweepLists
<1>8. seq' \in [Calls -> Nat]
  <2>1. NextSequence(on[c]) \in Nat
    BY NextIsAbove
  <2> QED
    BY <2>1, Frames DEF Typed, AskSequence
<1>9. direct' \in SUBSET Calls /\ lost' \in SUBSET Calls
  BY Frames DEF Typed, OutboxFails, SequenceFails, AppendFails
<1>10. heard' \in Seq(Calls)
  <2>1. heard' = heard \/ heard' = Append(heard, c)
    BY Frames DEF Dispatch
  <2>2. heard \in Seq(Calls)
    BY DEF Typed
  <2>3. Append(heard, c) \in Seq(Calls)
    BY <2>2
  <2> QED BY <2>1, <2>2, <2>3
<1>11. \A r \in Rows' : r.of \in Calls /\ r.seq \in Nat \ {0}
  <2>1. \/ Rows' = Rows
        \/ Rows' = Rows \cup {Row(c)} /\ At(c, "append")
    BY Frames DEF Rows, AppendToOutbox, AppendRow, Direct
  <2>2. At(c, "append") => seq[c] \in Nat \ {0}
    BY DEF OwnRows, Typed
  <2> QED BY <2>1, <2>2 DEF Row, Typed
<1> QED BY <1>1, <1>4, <1>5, <1>6, <1>7, <1>8, <1>9, <1>10, <1>11 DEF Typed

-----------------------------------------------------------------------------
(* Rows and their numbers.                                                 *)

\* How a call gets past its stages.
LEMMA StepForms ==
  ASSUME NEW c \in Calls, CallStep(c)
  PROVE  \/ Starts(c)
         \/ Return(c)
         \/ OutboxFails(c)
         \/ SequenceFails(c)
         \/ AskSequence(c)
         \/ Advance(c) /\ ~At(c, "sequence")
<1>1. CASE FindByName(c) \/ Snapshot(c) \/ ReadKey(c)
  BY <1>1 DEF FindByName, Snapshot, ReadKey, At
<1>2. CASE Insert(c) \/ Remove(c) \/ Change(c) \/ WriteFails(c)
  BY <1>2 DEF Insert, Remove, Change, WriteFails, At
<1>3. CASE SetCell(c) \/ ClearCell(c) \/ CacheToken(c) \/ DropToken(c)
  BY <1>3 DEF SetCell, ClearCell, CacheToken, DropToken, At
<1>4. CASE StoreKeys(c) \/ SweepAlerts(c) \/ SweepLists(c) \/ Dispatch(c)
  BY <1>4 DEF StoreKeys, SweepAlerts, SweepLists, Dispatch, At
<1>5. CASE AppendToOutbox(c) \/ AppendRow(c) \/ AppendFails(c)
  BY <1>5 DEF AppendToOutbox, AppendRow, AppendFails, Direct, At
<1> QED BY <1>1, <1>2, <1>3, <1>4, <1>5 DEF CallStep, Starts

\* A call about to append has not appended, nor has one about to ask.
LEMMA AppendsOnce ==
  ASSUME Typed, NEW c \in Calls, At(c, "append") \/ At(c, "sequence")
  PROVE  ~Behind(c, "append")
<1> DEFINE p == Stages[kind[c]]
<1>1. Began(c) /\ done[c] < Len(p) /\ p[done[c] + 1] \in {"append", "sequence"}
  BY DEF At, Running
<1>2. WellMade(p) /\ done[c] \in Nat /\ Len(p) \in Nat
  BY <1>1, RunningIsTyped DEF WellMade
<1> HIDE DEF p
<1>3. ASSUME NEW i \in 1..done[c], i <= Len(p), p[i] = "append" PROVE FALSE
  <2>1. i \in 1..Len(p) /\ done[c] + 1 \in 1..Len(p) /\ i - 1 \in Int /\ i < done[c] + 1
    BY <1>1, <1>2, <1>3
  <2>2. i > 1 /\ p[i - 1] = "sequence"
    BY <2>1, <1>2, <1>3 DEF WellMade
  <2>3. i - 1 \in 1..Len(p)
    BY <2>1, <2>2, <1>2
  <2>4. i = done[c] + 1 \/ i - 1 = done[c] + 1
    BY <2>1, <2>2, <2>3, <1>1, <1>2, <1>3 DEF WellMade
  <2> QED BY <2>4, <2>1, <1>2
<1> QED BY <1>3 DEF Behind, p

\* What is behind a call stays behind it.
LEMMA BehindStays ==
  ASSUME Typed, Placed, Past, NEW e \in Calls, Starts(e) \/ Moves(e),
         NEW c \in Calls, NEW stage, Behind(c, stage)
  PROVE  Behind(c, stage)'
<1>1. UNCHANGED kind[c] /\ Began(c)'
  BY Stays DEF Behind
<1>2. done[c] \in Nat /\ done'[c] \in Nat /\ done[c] <= done'[c]
  <2>1. CASE Starts(e)
    BY <2>1, StartsBegins DEF Typed
  <2>2. CASE Moves(e)
    BY <2>2 DEF Moves, Typed
  <2> QED BY <2>1, <2>2
<1>3. \A i \in 1..done[c] : i \in 1..done'[c]
  BY <1>2
<1> QED BY <1>1, <1>3 DEF Behind

\* A call comes to its append with a number.
LEMMA AppendHasNumber ==
  ASSUME Typed, Placed, OwnRows, Bounded, NEW c \in Calls, CallStep(c), At(c, "append")'
  PROVE  seq'[c] # 0
<1> DEFINE p == Stages[kind'[c]]
<1>1. Began(c)' /\ done'[c] < Len(p) /\ p[done'[c] + 1] = "append"
  BY DEF At, Running
<1>2. WellMade(p) /\ done'[c] \in Nat /\ done[c] \in Nat
  <2>1. Typed'
    BY TypedStep
  <2>2. kind'[c] \in Uses
    BY <1>1, <2>1, KindsAreUses DEF Typed, Began
  <2> QED BY <2>1, <2>2, Plans DEF Typed
<1>3. done'[c] + 1 \in 1..Len(p)
  BY <1>1, <1>2 DEF WellMade
<1>4. done'[c] > 0 /\ p[done'[c]] = "sequence"
  <2>1. done'[c] + 1 > 1 /\ p[done'[c] + 1 - 1] = "sequence"
    BY <1>1, <1>2, <1>3 DEF WellMade
  <2>2. done'[c] + 1 - 1 = done'[c]
    BY <1>2
  <2> QED BY <2>1, <2>2, <1>2
<1>5. CASE Starts(c)
  <2>1. done'[c] = 0
    BY <1>5, StartsBegins DEF Placed, Began
  <2> QED BY <2>1, <1>4
<1>6. CASE Moves(c) /\ ~Starts(c)
  <2>1. UNCHANGED kind /\ Running(c) /\ p = Stages[kind[c]]
    BY <1>6 DEF Moves
  <2>2. CASE Return(c)
    BY <2>1, <2>2, <1>1, <1>2 DEF Return, Typed, WellMade
  <2>3. CASE OutboxFails(c)
    BY <2>3 DEF OutboxFails, OwnRows
  <2>4. CASE SequenceFails(c)
    <3>1. done'[c] = done[c] + 2 /\ p[done[c] + 1] = "sequence"
      BY <2>1, <2>4 DEF SequenceFails, At, Typed
    <3>2. done[c] + 1 \in 1..Len(p) /\ done'[c] \in 1..Len(p)
      <4>1. Len(p) \in Nat
        BY <1>2 DEF WellMade
      <4> HIDE DEF p
      <4> QED BY <3>1, <4>1, <1>1, <1>2
    <3>3. done[c] + 1 = done'[c]
      <4> HIDE DEF p
      <4>1. \A i, j \in 1..Len(p) : p[i] = p[j] => i = j
        BY <1>2 DEF WellMade
      <4>2. p[done[c] + 1] = p[done'[c]]
        BY <3>1, <1>4
      <4> QED BY <3>2, <4>1, <4>2
    <3> QED BY <3>1, <3>3, <1>2
  <2>5. CASE AskSequence(c)
    BY <2>5, NextIsAbove DEF AskSequence, Typed
  <2>6. CASE Advance(c) /\ ~At(c, "sequence")
    <3>1. done'[c] = done[c] + 1
      BY <2>6 DEF Advance, Typed
    <3>2. At(c, "sequence")
      BY <3>1, <2>1, <1>4 DEF At
    <3> QED BY <3>2, <2>6
  <2> QED BY <2>2, <2>3, <2>4, <2>5, <2>6, <1>6, StepForms
<1> QED BY <1>5, <1>6, StepMoves

\* The rows a step adds are those of the call at its append.
LEMMA RowsGrow ==
  ASSUME Typed, NEW c \in Calls, CallStep(c)
  PROVE  \/ Rows' = Rows
         \/ /\ Rows' = Rows \cup {Row(c)} /\ At(c, "append") /\ Began(c)
            /\ UNCHANGED <<seq, kind, on, before>> /\ done'[c] = done[c] + 1
<1>1. UNCHANGED <<outbox, log>> => Rows' = Rows
  BY DEF Rows
<1>2. CASE AppendToOutbox(c)
  BY <1>2 DEF AppendToOutbox, Rows, At, Running, Advance, Typed, history
<1>3. CASE AppendRow(c)
  BY <1>3 DEF AppendRow, Direct, Rows, At, Running, Advance, Typed, history
<1> QED BY <1>1, <1>2, <1>3, Frames

LEMMA OwnRowsStep ==
  ASSUME Typed, Placed, Past, OwnRows, Bounded, NEW c \in Calls, CallStep(c)
  PROVE  OwnRows'
<1>1. Starts(c) \/ Moves(c)
  BY StepMoves
<1>2. \A d \in Calls : Behind(d, "append") => Behind(d, "append")'
  BY <1>1, BehindStays
<1>3. ASSUME NEW r \in Rows PROVE r.seq = seq'[r.of] /\ Behind(r.of, "append")'
  <2>1. r.of \in Calls /\ r.seq = seq[r.of] /\ Behind(r.of, "append")
    BY DEF OwnRows, Typed
  <2>2. seq'[r.of] = seq[r.of]
    <3>1. SUFFICES ASSUME seq'[r.of] # seq[r.of] PROVE FALSE
      OBVIOUS
    <3>2. r.of = c /\ At(c, "sequence")
      BY <2>1, <3>1, SeqChanges DEF AskSequence
    <3> QED BY <2>1, <3>2, AppendsOnce
  <2> QED BY <1>2, <2>1, <2>2
<1>4. \A d \in Calls : At(d, "append")' => seq'[d] # 0
  <2>1. TAKE d \in Calls
  <2>2. CASE d = c
    BY <2>2, AppendHasNumber
  <2>3. CASE d # c
    <3>1. seq'[d] = seq[d] /\ UNCHANGED done[d]
      BY <1>1, <2>3, SeqChanges, Stays
    <3>2. UNCHANGED kind[d]
      BY <1>1, <2>3, StartsBegins DEF Moves
    <3> QED BY <3>1, <3>2 DEF OwnRows, At, Running, Began
  <2> QED BY <2>2, <2>3
<1>5. CASE Rows' = Rows
  BY <1>3, <1>4, <1>5 DEF OwnRows
<1>6. CASE Rows' = Rows \cup {Row(c)} /\ At(c, "append") /\ UNCHANGED <<seq, kind, on, before>>
           /\ Began(c) /\ done'[c] = done[c] + 1
  <2>1. ~Behind(c, "append")
    BY <1>6, AppendsOnce
  <2>2. \A r \in Rows : r.of # c
    BY <2>1 DEF OwnRows
  <2>3. Row(c).of = c /\ Row(c).seq = seq'[c]
    BY <1>6 DEF Row
  <2>4. Behind(c, "append")'
    <3>1. done[c] < Len(Stages[kind[c]]) /\ Stages[kind[c]][done[c] + 1] = "append"
      BY <1>6 DEF At, Running
    <3>2. done[c] \in Nat /\ Len(Stages[kind[c]]) \in Nat
      BY <1>6, RunningIsTyped DEF WellMade
    <3>3. done[c] + 1 \in 1..done'[c] /\ done[c] + 1 <= Len(Stages[kind[c]])
      BY <1>6, <3>1, <3>2
    <3> QED BY <1>6, <3>1, <3>3 DEF Behind, Began
  <2>5. \A r \in Rows' : r.seq = seq'[r.of] /\ Behind(r.of, "append")'
    BY <1>3, <1>6, <2>3, <2>4
  <2>6. \A r, s \in Rows' : r.of = s.of => r = s
    BY <1>6, <2>2, <2>3 DEF OwnRows
  <2> QED BY <1>4, <2>5, <2>6 DEF OwnRows
<1> QED BY <1>5, <1>6, RowsGrow

LEMMA BoundedStep ==
  ASSUME Typed, OwnRows, Bounded, NEW c \in Calls, CallStep(c)
  PROVE  Bounded'
<1>1. PICK b \in Nat : \A r \in Rows : r.seq <= b
  BY DEF Bounded
<1>2. seq[c] \in Nat /\ \A r \in Rows : r.seq \in Nat
  BY DEF Typed
<1>3. b + seq[c] \in Nat /\ \A r \in Rows : r.seq <= b + seq[c]
  BY <1>1, <1>2
<1>4. Row(c).seq <= b + seq[c]
  BY <1>1, <1>2 DEF Row
<1> QED BY <1>3, <1>4, RowsGrow DEF Bounded

\* A call that had returned writes no more rows, and a number is asked above
\* those it wrote.
LEMMA NumbersStep ==
  ASSUME Typed, Placed, Past, OwnRows, Bounded, NumbersInOrder, NoGaps, NEW c \in Calls, CallStep(c)
  PROVE  NumbersInOrder' /\ NoGaps'
<1>1. Starts(c) \/ Moves(c)
  BY StepMoves
<1>2. \A r \in Rows : r.of \in Calls /\ Began(r.of)
  BY DEF OwnRows, Typed, Behind
<1>3. \A d \in Calls : seq[d] # 0 => Began(d)
  BY DEF Placed, Began
<1>4. \A r \in Rows : UNCHANGED on[r.of]
  BY <1>1, <1>2, Stays
<1>5. \A d \in Calls : seq[d] # 0 => UNCHANGED <<on[d], before[d]>>
  BY <1>1, <1>3, Stays
<1>6. Rows \subseteq Rows'
  BY RowsGrow
<1>7. CASE AskSequence(c)
  <2>1. /\ seq' = [seq EXCEPT ![c] = NextSequence(on[c])] /\ Rows' = Rows
        /\ UNCHANGED <<on, before>>
    BY <1>7 DEF AskSequence, Rows, rowVars, history
  <2>2. seq'[c] = NextSequence(on[c]) /\ \A d \in Calls : d # c => seq'[d] = seq[d]
    BY <2>1 DEF Typed
  <2>3. NumbersInOrder'
    BY <2>1, <2>2, NextIsAbove DEF NumbersInOrder
  <2>4. NoGaps'
    BY <2>1, <2>2, NextIsAbove DEF NoGaps
  <2> QED BY <2>3, <2>4
<1>8. CASE ~AskSequence(c)
  <2>1. UNCHANGED seq
    BY <1>8, Frames
  <2>2. NoGaps'
    <3>1. SUFFICES ASSUME NEW d \in Calls, seq[d] > 1
                   PROVE  \E r \in Rows' : on'[r.of] = on'[d] /\ r.seq = seq[d] - 1
      BY <2>1 DEF NoGaps
    <3>2. PICK r \in Rows : on[r.of] = on[d] /\ r.seq = seq[d] - 1
      BY <3>1 DEF NoGaps
    <3>3. seq[d] # 0
      BY <3>1 DEF Typed
    <3> QED BY <3>2, <3>3, <1>4, <1>5, <1>6
  <2>3. NumbersInOrder'
    <3>1. SUFFICES ASSUME NEW d \in Calls, NEW r \in Rows', seq[d] # 0,
                          on'[r.of] = on'[d], r.of \in before'[d]
                   PROVE  r.seq < seq[d]
      BY <2>1 DEF NumbersInOrder
    <3>2. on'[d] = on[d] /\ before'[d] = before[d]
      BY <3>1, <1>5
    <3>3. CASE r \in Rows
      <4>1. on[r.of] = on[d] /\ r.of \in before[d]
        BY <3>1, <3>2, <3>3, <1>4
      <4> QED BY <3>1, <3>3, <4>1 DEF NumbersInOrder
    <3>4. CASE r \notin Rows
      <4>1. r = Row(c) /\ At(c, "append")
        BY <3>1, <3>4, RowsGrow
      <4>2. c \in before[d]
        BY <4>1, <3>1, <3>2 DEF Row
      <4>3. c \in Returned
        BY <4>2 DEF Past
      <4> QED BY <4>1, <4>3 DEF Returned, At
    <3> QED BY <3>3, <3>4
  <2> QED BY <2>2, <2>3
<1> QED BY <1>7, <1>8

-----------------------------------------------------------------------------
(* Looking, then writing.                                                  *)

\* The first two steps of a call that looks before it writes.
LEMMA LookersMove ==
  ASSUME Typed, NEW c \in Calls, CallStep(c), Began(c), kind[c] \in Lookers
  PROVE  /\ done[c] = 0 => FindByName(c) \/ Snapshot(c) \/ ReadKey(c)
         /\ done[c] = 1 => Insert(c) \/ WriteFails(c) \/ SetCell(c) \/ CacheToken(c)
<1> DEFINE p == Stages[kind[c]]
<1>1. /\ Len(p) > 1
      /\ \A i \in 1..Len(p) : (p[i] = "look" <=> i = 1) /\ (p[i] = "write" <=> i = 2)
  BY LooksAndWrites
<1>2. WellMade(p) /\ Len(p) \in Nat
  BY RunningIsTyped DEF WellMade
<1>3. p[1] = "look" /\ p[2] = "write"
  BY <1>1, <1>2
<1>4. ~Starts(c)
  BY StartsBegins
<1>5. kind[c] \notin Clears \cup {"deleteAlert", "deleteList", "changeList"}
  BY DEF Lookers, Sets, Logins, Clears
<1>6. \/ FindByName(c) \/ Snapshot(c) \/ ReadKey(c)
      \/ Insert(c) \/ WriteFails(c) \/ SetCell(c) \/ CacheToken(c)
      \/ ~At(c, "look") /\ ~At(c, "write") /\ Running(c)
  <2>1. ~Remove(c) /\ ~Change(c) /\ ~ClearCell(c)
    BY <1>5 DEF Remove, Change, ClearCell
  <2>2. DropToken(c) \/ StoreKeys(c) \/ SweepAlerts(c) \/ SweepLists(c) \/ Dispatch(c)
        => ~At(c, "look") /\ ~At(c, "write") /\ Running(c)
    BY DEF DropToken, StoreKeys, SweepAlerts, SweepLists, Dispatch, At
  <2>3. \/ AskSequence(c) \/ SequenceFails(c) \/ AppendToOutbox(c) \/ OutboxFails(c)
        \/ AppendRow(c) \/ AppendFails(c)
        => ~At(c, "look") /\ ~At(c, "write") /\ Running(c)
    BY DEF AskSequence, SequenceFails, AppendToOutbox, OutboxFails, AppendRow, AppendFails, Direct, At
  <2> QED BY <1>4, <2>1, <2>2, <2>3 DEF CallStep, Starts
<1>7. At(c, "look") => done[c] = 0
  BY <1>1, <1>2, RunningIsTyped DEF At, Running
<1>8. At(c, "write") => done[c] = 1
  <2>1. SUFFICES ASSUME At(c, "write") PROVE done[c] = 1
    OBVIOUS
  <2>2. done[c] + 1 \in 1..Len(p) /\ p[done[c] + 1] = "write"
    BY <2>1, <1>2, RunningIsTyped DEF At, Running
  <2> QED BY <2>2, <1>1, RunningIsTyped
<1>9. Running(c) /\ done[c] = 0 => At(c, "look")
  BY <1>3 DEF At
<1>10. Running(c) /\ done[c] = 1 => At(c, "write")
  BY <1>3 DEF At
<1>11. FindByName(c) \/ Snapshot(c) \/ ReadKey(c) => At(c, "look")
  BY DEF FindByName, Snapshot, ReadKey
<1>12. Insert(c) \/ WriteFails(c) \/ SetCell(c) \/ CacheToken(c) => At(c, "write")
  BY DEF Insert, WriteFails, SetCell, CacheToken
<1> QED BY <1>6, <1>7, <1>8, <1>9, <1>10, <1>11, <1>12

\* Where the reads and the writes of a step happen.
LEMMA LookAt ==
  ASSUME Typed, NEW c \in Calls, kind[c] \in Lookers
  PROVE  /\ At(c, "look") <=> Began(c) /\ done[c] = 0
         /\ At(c, "write") <=> Began(c) /\ done[c] = 1
<1> DEFINE p == Stages[kind[c]]
<1>1. /\ Len(p) > 1
      /\ \A i \in 1..Len(p) : (p[i] = "look" <=> i = 1) /\ (p[i] = "write" <=> i = 2)
  BY LooksAndWrites
<1>2. ASSUME Began(c) PROVE done[c] \in Nat /\ Len(p) \in Nat
  BY <1>2, RunningIsTyped DEF WellMade
<1> HIDE DEF p
<1>3. ASSUME Began(c), done[c] < Len(p)
      PROVE  /\ p[done[c] + 1] = "look" <=> done[c] = 0
             /\ p[done[c] + 1] = "write" <=> done[c] = 1
  <2>1. done[c] + 1 \in 1..Len(p)
    BY <1>2, <1>3
  <2>2. /\ done[c] + 1 = 1 <=> done[c] = 0
        /\ done[c] + 1 = 2 <=> done[c] = 1
    BY <1>2, <1>3
  <2> QED BY <1>1, <2>1, <2>2
<1>4. Began(c) /\ done[c] \in {0, 1} => done[c] < Len(p)
  BY <1>1, <1>2
<1> QED BY <1>3, <1>4 DEF At, Running, p

LEMMA ListsStep ==
  ASSUME Typed, Placed, Past, ListsInv, NEW c \in Calls, CallStep(c)
  PROVE  ListsInv'
<1>1. Starts(c) \/ Moves(c)
  BY StepMoves
<1>2. \A d \in alive : d \in Calls /\ Began(d) /\ kind[d] \in Creates
  BY DEF ListsInv, Creates, Typed, Began
<1>3. CASE Starts(c)
  <2>1. ~Began(c) /\ UNCHANGED <<done, arg, alive>>
    BY <1>3, StartsBegins DEF storeVars
  <2>2. \A d \in Calls : d # c => UNCHANGED <<kind[d], before[d]>>
    BY <1>3, StartsBegins
  <2>3. c \notin alive /\ done[c] = 0
    BY <1>2, <2>1 DEF Placed, Began
  <2>4. \A d \in alive : UNCHANGED kind[d]
    BY <1>2, <2>2, <2>3
  <2>5. \A d \in Calls : Vetted(d)' => Vetted(d) /\ UNCHANGED before[d]
    BY <2>1, <2>2, <2>3 DEF Vetted
  <2> QED BY <2>1, <2>4, <2>5 DEF ListsInv
<1>4. CASE Moves(c)
  <2>1. UNCHANGED <<kind, arg, before>> /\ Running(c) /\ Began(c)
    BY <1>4 DEF Moves, Running
  <2>2. \A d \in Calls : c \notin before[d]
    BY <2>1 DEF Past, Returned
  <2>3. \A d \in Calls : d # c => UNCHANGED done[d]
    BY <1>4 DEF Moves, Typed
  <2>4. CASE Insert(c)
    <3>1. alive' = alive \cup {c} /\ kind[c] \in Creates /\ At(c, "write")
      BY <2>4 DEF Insert
    <3>2. kind[c] = "createList" => done[c] = 1
      BY <3>1, LookAt DEF Lookers
    <3>3. \A d \in Calls : Vetted(d)' => Vetted(d)
      BY <2>1, <2>3, <3>1, <3>2 DEF Vetted
    <3> QED BY <2>1, <2>2, <3>1, <3>3 DEF ListsInv
  <2>5. CASE ~Insert(c)
    <3>1. alive' \subseteq alive
      BY <2>5, Frames DEF Remove, SweepAlerts, SweepLists
    <3>2. \A d \in Calls : d # c => (Vetted(d)' => Vetted(d))
      BY <2>1, <2>3, <3>1 DEF Vetted
    <3>3. ASSUME Vetted(c)', ~Vetted(c), NEW d \in alive', kind'[d] = "createList", arg'[d] = arg'[c]
          PROVE  FALSE
      <4>1. kind[c] = "createList" /\ done'[c] = 1 /\ done[c] # 1
        BY <2>1, <3>1, <3>3 DEF Vetted
      <4>2. done[c] = 0
        <5>1. done[c] <= done'[c] /\ done[c] \in Nat
          BY <1>4 DEF Moves, Typed
        <5> QED BY <5>1, <4>1
      <4>3. FindByName(c)
        <5>1. FindByName(c) \/ Snapshot(c) \/ ReadKey(c)
          BY <4>1, <4>2, <2>1, LookersMove DEF Lookers
        <5> QED BY <5>1, <4>1 DEF Snapshot, ReadKey, Sets, Logins
      <4>4. done' # [done EXCEPT ![c] = Len(Stages[kind[c]])]
        <5>1. Len(Stages["createList"]) = 5
          BY DEF Stages, CreateWatchlist
        <5> QED BY <4>1, <5>1 DEF Typed
      <4>5. ~ \E e \in alive : kind[e] = "createList" /\ arg[e] = arg[c]
        BY <4>3, <4>4 DEF FindByName, Return
      <4> QED BY <4>5, <3>1, <3>3, <2>1
    <3> QED BY <2>1, <3>1, <3>2, <3>3 DEF ListsInv
  <2> QED BY <2>4, <2>5
<1> QED BY <1>1, <1>3, <1>4

-----------------------------------------------------------------------------
(* What a call saw, and what the cells hold.                               *)

LEMMA PriorChanges ==
  ASSUME Typed, NEW c \in Calls, CallStep(c)
  PROVE  \A d \in Calls : prior'[d] # prior[d] =>
            d = c /\ done[c] = 0 /\ done'[c] = 1 /\ (Snapshot(c) \/ ReadKey(c))
<1>1. SUFFICES ASSUME NEW d \in Calls, prior'[d] # prior[d]
               PROVE  d = c /\ done[c] = 0 /\ done'[c] = 1 /\ (Snapshot(c) \/ ReadKey(c))
  OBVIOUS
<1>2. Snapshot(c) \/ ReadKey(c)
  BY <1>1, Frames
<1>3. At(c, "look") /\ kind[c] \in Lookers /\ Advance(c)
  BY <1>2 DEF Snapshot, ReadKey, Lookers
<1>4. d = c
  BY <1>1, <1>2 DEF Snapshot, ReadKey, Typed
<1>5. done[c] = 0
  BY <1>3, LookAt
<1> QED BY <1>2, <1>3, <1>4, <1>5 DEF Advance, Typed

LEMMA ReplacedChanges ==
  ASSUME Typed, NEW c \in Calls, CallStep(c)
  PROVE  \A d \in Calls : replaced'[d] # replaced[d] =>
            d = c /\ done[c] = 1 /\ kind[c] \in Sets /\ replaced'[c] = cell[on[c]]
<1>1. SUFFICES ASSUME NEW d \in Calls, replaced'[d] # replaced[d]
               PROVE  d = c /\ done[c] = 1 /\ kind[c] \in Sets /\ replaced'[c] = cell[on[c]]
  OBVIOUS
<1>2. SetCell(c)
  BY <1>1, Frames
<1>3. At(c, "write") /\ kind[c] \in Sets /\ kind[c] \in Lookers
  BY <1>2 DEF SetCell, Lookers
<1> QED BY <1>1, <1>2, <1>3, LookAt DEF SetCell, Typed

\* Who writes a cell works on it.
LEMMA CellChanges ==
  ASSUME Typed, Placed, NEW c \in Calls, CallStep(c), NEW x \in Cells, cell'[x] # cell[x]
  PROVE  /\ Running(c) /\ Moves(c) /\ on[c] = x
         /\ x = "credential" => Changes(c)
         /\ kind[c] = "loginOwn" => cell'[x] = c
<1>1. SetCell(c) \/ ClearCell(c) \/ StoreKeys(c)
  BY Frames
<1>2. Running(c) /\ Began(c)
  BY <1>1 DEF SetCell, ClearCell, StoreKeys, At, Running
<1>3. Moves(c)
  BY <1>2, StepMoves, StartsBegins
<1>4. CASE SetCell(c)
  <2>1. kind[c] \in Sets /\ on[c] = x
    BY <1>4 DEF SetCell, Typed
  <2>2. x = "credential" => kind[c] = "update"
    BY <2>1 DEF Sets, Placed
  <2>3. kind[c] # "loginOwn"
    BY <2>1 DEF Sets
  <2> QED BY <1>2, <1>3, <2>1, <2>2, <2>3 DEF Changes
<1>5. CASE ClearCell(c)
  <2>1. kind[c] \in Clears /\ x = "credential"
    BY <1>5 DEF ClearCell, Typed
  <2>2. on[c] = "credential"
    BY <2>1 DEF Placed
  <2>3. kind[c] # "loginOwn"
    BY <2>1 DEF Clears
  <2> QED BY <1>2, <1>3, <2>1, <2>2, <2>3 DEF Changes
<1>6. CASE StoreKeys(c)
  <2> DEFINE p == Stages[kind[c]]
  <2>1. x = "credential" /\ cell'[x] = c
    BY <1>6 DEF StoreKeys, Typed, Cells
  <2>2. kind[c] \in Uses /\ done[c] + 1 \in 1..Len(p) /\ p[done[c] + 1] = "store"
    BY <1>2, <1>6, RunningIsTyped DEF StoreKeys, At, Running, WellMade
  <2>3. kind[c] = "loginOwn"
    BY <2>2, LooksAndWrites
  <2>4. on[c] = "credential"
    BY <2>3 DEF Placed, Logins
  <2> QED BY <1>2, <1>3, <2>1, <2>3, <2>4 DEF Changes
<1> QED BY <1>1, <1>4, <1>5, <1>6

LEMMA SnapshotsStep ==
  ASSUME Typed, Placed, Past, SnapshotsInv, NEW c \in Calls, CallStep(c)
  PROVE  SnapshotsInv'
<1>1. Starts(c) \/ Moves(c)
  BY StepMoves
<1>2. ASSUME NEW d \in Calls, Began(d), Disturbed(d) PROVE Disturbed(d)'
  <2>1. PICK e \in Calls : on[e] = on[d] /\ Overlap(d, e)
    BY <1>2 DEF Disturbed
  <2>2. Overlap(d, e)' /\ on'[e] = on[e] /\ on'[d] = on[d]
    BY <1>1, <1>2, <2>1, Stays DEF Overlap
  <2> QED BY <2>1, <2>2 DEF Disturbed
<1>3. SUFFICES ASSUME NEW d \in Calls, kind'[d] \in Sets, done'[d] # 0
               PROVE  /\ done'[d] = 1 => prior'[d] = cell'[on'[d]] \/ Disturbed(d)'
                      /\ done'[d] > 1 => prior'[d] = replaced'[d] \/ Disturbed(d)'
  BY DEF SnapshotsInv
<1>4. Began(d) /\ done[d] \in Nat /\ done'[d] \in Nat
  <2>1. CASE d = c /\ Starts(c)
    <3>1. done'[d] = 0
      BY <2>1, StartsBegins DEF Placed, Began
    <3> QED BY <1>3, <3>1
  <2>2. CASE d # c
    <3>1. kind'[d] = kind[d] /\ done'[d] = done[d]
      BY <1>1, <2>2, StartsBegins, Stays DEF Moves
    <3> QED BY <1>3, <3>1 DEF Began, Sets, Typed
  <2>3. CASE d = c /\ Moves(c)
    BY <2>3 DEF Moves, Running, Typed
  <2> QED BY <1>1, <2>1, <2>2, <2>3
<1>5. kind'[d] = kind[d] /\ on'[d] = on[d] /\ kind[d] \in Lookers /\ on[d] \in Cells
  <2>1. kind'[d] = kind[d] /\ on'[d] = on[d]
    BY <1>1, <1>4, Stays
  <2> QED BY <1>3, <2>1 DEF Lookers, Placed, Sets, Cells
<1>6. kind[d] \in Sets
  BY <1>3, <1>5
<1>7. CASE d = c
  <2>1. Moves(c) /\ done[c] <= done'[c]
    <3>1. Moves(c)
      BY <1>1, <1>4, <1>7, StartsBegins
    <3> QED BY <3>1 DEF Moves, Typed
  <2>2. CASE done[c] = 0
    <3>1. Snapshot(c)
      <4>1. FindByName(c) \/ Snapshot(c) \/ ReadKey(c)
        BY <2>2, <1>4, <1>5, <1>7, LookersMove
      <4> QED BY <4>1, <1>6, <1>7 DEF FindByName, ReadKey, Sets, Logins
    <3>2. done'[c] = 1 /\ prior'[c] = cell[on[c]] /\ cell' = cell
      BY <3>1, <2>2 DEF Snapshot, Advance, Typed, storeVars
    <3> QED BY <3>2, <1>5, <1>7
  <2>3. CASE done[c] = 1
    <3>1. SetCell(c)
      <4>1. Insert(c) \/ WriteFails(c) \/ SetCell(c) \/ CacheToken(c)
        BY <2>3, <1>4, <1>5, <1>7, LookersMove
      <4> QED BY <4>1, <1>6, <1>7 DEF Insert, WriteFails, CacheToken, Sets, Logins, Creates
    <3>2. done'[c] = 2 /\ replaced'[c] = cell[on[c]] /\ prior' = prior
      BY <3>1, <2>3 DEF SetCell, Advance, Typed
    <3>3. prior[c] = cell[on[c]] \/ Disturbed(c)
      BY <2>3, <1>6, <1>7 DEF SnapshotsInv
    <3> QED BY <3>2, <3>3, <1>2, <1>4, <1>7
  <2>4. CASE done[c] > 1
    <3>1. prior'[c] = prior[c] /\ replaced'[c] = replaced[c]
      BY <2>4, PriorChanges, ReplacedChanges
    <3>2. prior[c] = replaced[c] \/ Disturbed(c)
      BY <2>4, <1>6, <1>7 DEF SnapshotsInv
    <3>3. done'[c] # 1
      BY <2>1, <2>4, <1>4, <1>7
    <3> QED BY <3>1, <3>2, <3>3, <1>2, <1>4, <1>7
  <2> QED BY <2>2, <2>3, <2>4, <1>4, <1>7
<1>8. CASE d # c
  <2>1. prior'[d] = prior[d] /\ replaced'[d] = replaced[d] /\ done'[d] = done[d]
    BY <1>1, <1>8, PriorChanges, ReplacedChanges, Stays
  <2>2. ASSUME done[d] = 1, cell'[on[d]] # cell[on[d]] PROVE Disturbed(d)
    <3>1. Running(c) /\ on[c] = on[d]
      BY <1>5, <2>2, CellChanges
    <3>2. Running(d)
      <4>1. Len(Stages[kind[d]]) > 1
        BY <1>5, LooksAndWrites
      <4> QED BY <4>1, <2>2, <1>4 DEF Running
    <3>3. Overlap(d, c)
      BY <3>1, <3>2, <1>8, RunTogether
    <3> QED BY <3>1, <3>3 DEF Disturbed
  <2>3. /\ done[d] = 1 => prior[d] = cell[on[d]] \/ Disturbed(d)
        /\ done[d] > 1 => prior[d] = replaced[d] \/ Disturbed(d)
    BY <1>6 DEF SnapshotsInv
  <2> QED BY <2>1, <2>2, <2>3, <1>2, <1>4, <1>5
<1> QED BY <1>7, <1>8

-----------------------------------------------------------------------------
(* The cached token.                                                       *)

LEMMA TokenStage ==
  ASSUME NEW c \in Calls, CallStep(c), At(c, "token"), Began(c), Typed
  PROVE  DropToken(c)
<1>1. ~Starts(c)
  BY StartsBegins
<1>2. ~(FindByName(c) \/ Snapshot(c) \/ ReadKey(c) \/ Insert(c) \/ Remove(c) \/ Change(c) \/ WriteFails(c))
  BY DEF FindByName, Snapshot, ReadKey, Insert, Remove, Change, WriteFails, At
<1>3. ~(SetCell(c) \/ ClearCell(c) \/ CacheToken(c) \/ StoreKeys(c) \/ SweepAlerts(c) \/ SweepLists(c))
  BY DEF SetCell, ClearCell, CacheToken, StoreKeys, SweepAlerts, SweepLists, At
<1>4. ~(Dispatch(c) \/ AskSequence(c) \/ SequenceFails(c) \/ AppendToOutbox(c) \/ OutboxFails(c)
        \/ AppendRow(c) \/ AppendFails(c))
  BY DEF Dispatch, AskSequence, SequenceFails, AppendToOutbox, OutboxFails, AppendRow, AppendFails,
         Direct, At
<1> QED BY <1>1, <1>2, <1>3, <1>4 DEF CallStep, Starts

\* No error of a store ends a change of the key.
LEMMA ChangersAdvance ==
  ASSUME Typed, NEW c \in Calls, CallStep(c), Began(c), Changes(c)
  PROVE  Advance(c) \/ SequenceFails(c)
<1>1. ~Starts(c)
  BY StartsBegins
<1>2. ~(FindByName(c) \/ WriteFails(c) \/ OutboxFails(c))
  BY DEF FindByName, WriteFails, OutboxFails, Changes, Creates, Clears
<1>3. Snapshot(c) \/ ReadKey(c) \/ Insert(c) \/ Remove(c) \/ Change(c) \/ SetCell(c) \/ ClearCell(c)
      => Advance(c)
  BY DEF Snapshot, ReadKey, Insert, Remove, Change, SetCell, ClearCell
<1>4. CacheToken(c) \/ StoreKeys(c) \/ SweepAlerts(c) \/ SweepLists(c) \/ DropToken(c) => Advance(c)
  BY DEF CacheToken, StoreKeys, SweepAlerts, SweepLists, DropToken
<1>5. Dispatch(c) \/ AskSequence(c) \/ AppendToOutbox(c) \/ AppendRow(c) \/ AppendFails(c) => Advance(c)
  BY DEF Dispatch, AskSequence, AppendToOutbox, AppendRow, AppendFails
<1> QED BY <1>1, <1>2, <1>3, <1>4, <1>5 DEF CallStep, Starts

\* A change of the key gets rid of the old token before it ends.
LEMMA ChangersDrop ==
  ASSUME Typed, Placed, NEW c \in Calls, CallStep(c), Began(c), Changes(c)
  PROVE  /\ Dropped(c)' /\ ~Dropped(c) => DropToken(c) \/ CacheToken(c)
         /\ ~Running(c)' => Dropped(c)'
<1> DEFINE p == Stages[kind[c]]
<1>1. Moves(c) /\ Running(c) /\ UNCHANGED kind
  BY StepMoves, StartsBegins DEF Moves
<1>2. done[c] \in Nat /\ done'[c] \in Nat /\ WellMade(p) /\ done[c] < Len(p)
  BY <1>1, RunningIsTyped DEF Moves, Typed, Running
<1>3. kind[c] \in {"update", "revoke", "deleteAccount", "loginOwn"}
  BY DEF Changes, Clears
<1>4. ~Running(c)' => Dropped(c)'
  <2>1. SUFFICES ASSUME ~Running(c)' PROVE Dropped(c)'
    OBVIOUS
  <2>2. ~(done'[c] < Len(p))
    BY <2>1, <1>1 DEF Running, Began
  <2>3. \/ kind[c] = "update" /\ Len(p) = 5
        \/ kind[c] = "revoke" /\ Len(p) = 4
        \/ kind[c] = "deleteAccount" /\ Len(p) = 6
        \/ kind[c] = "loginOwn" /\ Len(p) = 3
    BY <1>3, TokenPlans
  <2>4. done'[c] >= Len(p)
    BY <2>2, <2>3, <1>2
  <2>5. kind'[c] = kind[c]
    BY <1>1
  <2>6. \/ kind'[c] = "update" /\ done'[c] > 2
        \/ kind'[c] \in {"revoke", "loginOwn"} /\ done'[c] > 1
        \/ kind'[c] = "deleteAccount" /\ done'[c] > 3
    <3>1. CASE kind[c] = "update" /\ Len(p) = 5
      BY <3>1, <2>4, <2>5, <1>2
    <3>2. CASE kind[c] = "revoke" /\ Len(p) = 4
      BY <3>2, <2>4, <2>5, <1>2
    <3>3. CASE kind[c] = "deleteAccount" /\ Len(p) = 6
      BY <3>3, <2>4, <2>5, <1>2
    <3>4. CASE kind[c] = "loginOwn" /\ Len(p) = 3
      BY <3>4, <2>4, <2>5, <1>2
    <3> QED BY <3>1, <3>2, <3>3, <3>4, <2>3
  <2> QED BY <2>6 DEF Dropped
<1>5. \/ done'[c] = done[c] + 1
      \/ done'[c] = done[c] + 2 /\ p[done[c] + 1] = "sequence"
  BY ChangersAdvance DEF Advance, SequenceFails, At, Typed
<1>6. done[c] + 1 \in 1..Len(p) /\ Len(p) \in Nat
  BY <1>2 DEF WellMade
<1>7. ASSUME Dropped(c)', ~Dropped(c) PROVE DropToken(c) \/ CacheToken(c)
  <2>1. CASE kind[c] = "update"
    <3>1. done[c] <= 2 /\ done'[c] > 2
      BY <1>1, <1>2, <1>7, <2>1 DEF Dropped
    <3>2. p[done[c] + 1] # "sequence"
      <4>1. 4 \in 1..Len(p) /\ p[4] = "sequence" /\ done[c] + 1 # 4
        BY <2>1, <3>1, <1>2, TokenPlans
      <4> QED BY <4>1, <1>2, <1>6 DEF WellMade
    <3>3. done[c] = 2
      BY <3>1, <3>2, <1>2, <1>5
    <3>4. At(c, "token")
      BY <3>3, <2>1, <1>1, TokenPlans DEF At
    <3> QED BY <3>4, TokenStage
  <2>2. CASE kind[c] = "revoke"
    <3>1. done[c] <= 1 /\ done'[c] > 1
      BY <1>1, <1>2, <1>7, <2>2 DEF Dropped
    <3>2. p[done[c] + 1] # "sequence"
      <4>1. 3 \in 1..Len(p) /\ p[3] = "sequence" /\ done[c] + 1 # 3
        BY <2>2, <3>1, <1>2, TokenPlans
      <4> QED BY <4>1, <1>2, <1>6 DEF WellMade
    <3>3. done[c] = 1
      BY <3>1, <3>2, <1>2, <1>5
    <3>4. At(c, "token")
      BY <3>3, <2>2, <1>1, TokenPlans DEF At
    <3> QED BY <3>4, TokenStage
  <2>3. CASE kind[c] = "deleteAccount"
    <3>1. done[c] <= 3 /\ done'[c] > 3
      BY <1>1, <1>2, <1>7, <2>3 DEF Dropped
    <3>2. done[c] + 1 # 2 => p[done[c] + 1] # "sequence"
      <4>1. 2 \in 1..Len(p) /\ p[2] = "sequence"
        BY <2>3, TokenPlans
      <4> QED BY <4>1, <1>2, <1>6 DEF WellMade
    <3>3. done[c] = 3
      BY <3>1, <3>2, <1>2, <1>5
    <3>4. At(c, "token")
      BY <3>3, <2>3, <1>1, TokenPlans DEF At
    <3> QED BY <3>4, TokenStage
  <2>4. CASE kind[c] = "loginOwn"
    <3>1. done[c] <= 1 /\ done'[c] > 1
      BY <1>1, <1>2, <1>7, <2>4 DEF Dropped
    <3>2. p[done[c] + 1] # "sequence"
      <4>1. p = <<"look", "write", "store">>
        BY <2>4 DEF Stages, LoginOwnKeys
      <4>2. done[c] \in {0, 1}
        BY <3>1, <1>2
      <4> QED BY <4>1, <4>2
    <3>3. done[c] = 1
      BY <3>1, <3>2, <1>2, <1>5
    <3>4. Insert(c) \/ WriteFails(c) \/ SetCell(c) \/ CacheToken(c)
      BY <3>3, <2>4, LookersMove DEF Lookers, Logins
    <3>5. kind[c] \notin Creates \cup Sets \cup {"deleteAlert", "deleteList", "changeList"}
      BY <2>4 DEF Creates, Sets
    <3> QED BY <3>4, <3>5 DEF Insert, WriteFails, SetCell
  <2> QED BY <1>3, <2>1, <2>2, <2>3, <2>4
<1> QED BY <1>4, <1>7

\* Only a login at its write caches a token.
LEMMA TokenChanges ==
  ASSUME Typed, Placed, NEW c \in Calls, CallStep(c), token' # token, token' # NoCall
  PROVE  /\ token' = c /\ kind[c] \in Logins /\ Moves(c) /\ Running(c) /\ Began(c)
         /\ done[c] = 1 /\ done'[c] = 2 /\ UNCHANGED <<prior, cell>>
<1>1. CacheToken(c)
  BY Frames DEF DropToken
<1>2. token' = c /\ kind[c] \in Logins /\ At(c, "write") /\ Advance(c) /\ UNCHANGED <<prior, cell>>
  BY <1>1 DEF CacheToken
<1>3. Running(c) /\ Began(c) /\ done[c] = 1
  BY <1>2, LookAt DEF At, Running, Lookers
<1>4. Moves(c)
  BY <1>3, StepMoves, StartsBegins
<1> QED BY <1>2, <1>3, <1>4 DEF Advance, Typed

\* Once a change of the key has dropped the token, none of a login that had
\* returned before it began is cached again.
LEMMA DroppedStep ==
  ASSUME Typed, Placed, Past, \A d \in Calls : Dropped(d) => token \notin before[d],
         NEW c \in Calls, CallStep(c)
  PROVE  \A d \in Calls : Dropped(d)' => token' \notin before'[d]
<1>1. Starts(c) \/ Moves(c)
  BY StepMoves
<1>2. SUFFICES ASSUME NEW d \in Calls, Dropped(d)' PROVE token' \notin before'[d]
  OBVIOUS
<1>3. Began(d) /\ before'[d] = before[d] /\ kind'[d] = kind[d]
  <2>1. CASE d = c /\ Starts(c)
    <3>1. done'[d] = 0
      BY <2>1, StartsBegins DEF Placed, Began
    <3> QED BY <3>1, <1>2 DEF Dropped
  <2>2. CASE d # c
    <3>1. kind'[d] = kind[d] /\ before'[d] = before[d]
      BY <1>1, <2>2, StartsBegins DEF Moves
    <3> QED BY <3>1, <1>2 DEF Dropped, Began
  <2>3. CASE d = c /\ Moves(c)
    BY <2>3 DEF Moves, Running
  <2> QED BY <1>1, <2>1, <2>2, <2>3
<1>4. before[d] \subseteq Calls /\ NoCall \notin before[d]
  BY StreamsAssumption DEF Typed
<1>5. CASE token' # token /\ token' # NoCall
  <2>1. token' = c /\ Running(c)
    BY <1>5, TokenChanges
  <2>2. c \notin before[d]
    BY <2>1 DEF Past, Returned
  <2> QED BY <2>1, <2>2, <1>3
<1>6. CASE token' = NoCall
  BY <1>3, <1>4, <1>6
<1>7. CASE token' = token /\ token # NoCall
  <2>1. CASE Dropped(d)
    BY <2>1, <1>3, <1>7
  <2>2. CASE ~Dropped(d)
    <3>1. d = c
      BY <1>1, <1>2, <1>3, <2>2, Stays DEF Dropped
    <3>2. Changes(c)
      BY <1>2, <1>3, <3>1 DEF Dropped, Changes, Clears
    <3>3. DropToken(c) \/ CacheToken(c)
      BY <1>2, <1>3, <2>2, <3>1, <3>2, ChangersDrop
    <3>4. token' = c /\ Running(c)
      BY <3>3, <1>7 DEF DropToken, CacheToken, At
    <3> QED BY <3>4, <1>3 DEF Past, Returned
  <2> QED BY <2>1, <2>2
<1> QED BY <1>5, <1>6, <1>7

\* Who changes the key under a cached token is still at it, or has overlapped
\* the login.
LEMMA ChangerSeen ==
  ASSUME Typed, Placed, Past, TokensInv, NEW c \in Calls, CallStep(c),
         Running(c), Changes(c), token # NoCall, token' = token, c # token
  PROVE  Running(c)' \/ Overlap(token, c)'
<1>1. Moves(c) /\ Began(c)
  BY StepMoves, StartsBegins DEF Running
<1>2. SUFFICES ASSUME ~Running(c)' PROVE Overlap(token, c)'
  OBVIOUS
<1>3. Dropped(c)'
  BY <1>1, <1>2, ChangersDrop
<1>4. token \notin before'[c]
  BY <1>3, DroppedStep DEF TokensInv
<1>5. token \in Calls /\ Began(token)
  BY StreamsAssumption DEF Typed, TokensInv, Logins, Began
<1>6. c \notin before[token]
  BY <1>5 DEF Past, Returned
<1>7. before' = before /\ kind' = kind
  BY <1>1 DEF Moves
<1> QED BY <1>1, <1>4, <1>5, <1>6, <1>7 DEF Overlap, Began

LEMMA StaleStep ==
  ASSUME Typed, Placed, Past, TokensInv, NEW c \in Calls, CallStep(c)
  PROVE  NoStaleToken'
<1> DEFINE Witness(t, d) == /\ d \in CallsOn("credential")
                            /\ kind[d] \in {"update", "loginOwn"} \cup Clears
                            /\ Overlap(t, d) \/ Running(d)
<1>1. Starts(c) \/ Moves(c)
  BY StepMoves
<1>2. SUFFICES ASSUME token' # NoCall, prior'[token'] # cell'["credential"]
               PROVE  \E d \in Calls : Witness(token, d)'
  BY DEF NoStaleToken, CallsOn
<1>3. \A d \in CallsOn("credential") : /\ d \in CallsOn("credential")' /\ Began(d)
                                       /\ kind'[d] = kind[d] /\ d \in Calls
  BY <1>1, Stays DEF CallsOn
<1>4. CASE token' # token
  <2>1. /\ token' = c /\ kind[c] \in Logins /\ Moves(c) /\ Running(c) /\ Began(c)
        /\ done[c] = 1 /\ done'[c] = 2 /\ UNCHANGED <<prior, cell>>
    BY <1>2, <1>4, TokenChanges
  <2>2. UNCHANGED <<kind, on>>
    BY <2>1 DEF Moves
  <2>3. CASE kind[c] = "loginOwn"
    <3>1. on[c] = "credential"
      BY <2>3 DEF Placed, Logins
    <3>2. Running(c)'
      BY <2>1, <2>2, <2>3, TokenPlans DEF Running, Began
    <3> QED BY <2>2, <2>3, <3>1, <3>2, <2>1 DEF CallsOn, Began
  <2>4. CASE kind[c] = "login"
    <3>1. prior[c] # cell["credential"]
      BY <2>1, <1>2
    <3>2. PICK d \in CallsOn("credential") : Changes(d) /\ Overlap(c, d)
      BY <2>1, <2>4, <3>1 DEF TokensInv, Rekeyed
    <3>3. Overlap(c, d)'
      BY <1>1, <3>2, Stays DEF Overlap, CallsOn
    <3> QED BY <1>3, <2>1, <3>2, <3>3 DEF Changes
  <2> QED BY <2>1, <2>3, <2>4 DEF Logins
<1>5. CASE token' = token
  <2>1. token \in Calls /\ token # NoCall /\ kind[token] \in Logins /\ done[token] > 1
    BY <1>2, <1>5 DEF Typed, TokensInv
  <2>2. prior'[token] = prior[token]
    BY <2>1, PriorChanges
  \* The call of this step, if it changes the key.
  <2>3. ASSUME Running(c), Changes(c), on[c] = "credential" PROVE Witness(token, c)'
    <3>1. Moves(c) /\ Began(c) /\ c \in CallsOn("credential")
      BY <2>3, <1>1, StartsBegins DEF Running, CallsOn
    <3>2. c \in CallsOn("credential")' /\ kind'[c] = kind[c]
      BY <3>1, <1>3
    <3>3. CASE c # token
      BY <1>5, <2>1, <2>3, <3>2, <3>3, ChangerSeen DEF Changes
    <3>4. CASE c = token
      <4>1. kind[c] = "loginOwn"
        BY <2>1, <2>3, <3>4 DEF Logins, Changes, Clears
      <4>2. prior[c] = c
        BY <2>1, <3>4, <4>1 DEF TokensInv, Typed
      <4>3. cell'["credential"] # c
        BY <1>2, <1>5, <2>2, <3>4, <4>2
      <4>4. Running(c)'
        <5>1. SUFFICES ASSUME ~Running(c)' PROVE FALSE
          OBVIOUS
        <5>2. done[c] = 2 /\ At(c, "store")
          <6>1. Len(Stages["loginOwn"]) = 3 /\ Stages["loginOwn"][3] = "store"
            BY DEF Stages, LoginOwnKeys
          <6>2. done[c] < 3 /\ done[c] \in Nat /\ done[c] > 1
            BY <2>1, <2>3, <3>4, <4>1, <6>1 DEF Running, Typed
          <6> QED BY <6>1, <6>2, <4>1, <2>3 DEF At
        <5>3. StoreKeys(c)
          <6>1. ~Starts(c)
            BY <3>1, StartsBegins
          <6>2. ~(FindByName(c) \/ Snapshot(c) \/ ReadKey(c) \/ Insert(c) \/ Remove(c)
                  \/ Change(c) \/ WriteFails(c))
            BY <5>2 DEF FindByName, Snapshot, ReadKey, Insert, Remove, Change, WriteFails, At
          <6>3. ~(SetCell(c) \/ ClearCell(c) \/ CacheToken(c) \/ DropToken(c)
                  \/ SweepAlerts(c) \/ SweepLists(c))
            BY <5>2 DEF SetCell, ClearCell, CacheToken, DropToken, SweepAlerts, SweepLists, At
          <6>4. ~(Dispatch(c) \/ AskSequence(c) \/ SequenceFails(c) \/ AppendToOutbox(c)
                  \/ OutboxFails(c) \/ AppendRow(c) \/ AppendFails(c))
            BY <5>2 DEF Dispatch, AskSequence, SequenceFails, AppendToOutbox, OutboxFails,
                        AppendRow, AppendFails, Direct, At
          <6> QED BY <6>1, <6>2, <6>3, <6>4 DEF CallStep, Starts
        <5>4. cell'["credential"] = c
          BY <5>3 DEF StoreKeys, Typed, Cells
        <5> QED BY <5>4, <4>3
      <4> QED BY <2>3, <3>2, <4>4 DEF Changes
    <3> QED BY <3>3, <3>4
  <2>4. CASE prior[token] # cell["credential"]
    <3>1. PICK d \in CallsOn("credential") : Witness(token, d)
      BY <2>1, <2>4 DEF TokensInv, NoStaleToken
    <3>2. Overlap(token, d) => Overlap(token, d)'
      BY <1>1, <1>5, <2>1, <1>3, Stays
    <3>3. CASE Overlap(token, d)
      BY <1>3, <3>1, <3>2, <3>3
    <3>4. CASE Running(d) /\ d # c
      <4>1. Running(d)'
        BY <1>1, <1>3, <3>4, Stays DEF Running, Began
      <4> QED BY <1>3, <3>1, <4>1
    <3>5. CASE Running(d) /\ d = c
      BY <2>3, <3>1, <3>5, <1>3 DEF Changes, CallsOn
    <3> QED BY <3>1, <3>3, <3>4, <3>5
  <2>5. CASE prior[token] = cell["credential"]
    <3>1. Running(c) /\ on[c] = "credential" /\ Changes(c)
      BY <1>2, <1>5, <2>2, <2>5, CellChanges DEF Cells
    <3> QED BY <2>3, <3>1
  <2> QED BY <2>4, <2>5
<1> QED BY <1>4, <1>5

LEMMA TokensStep ==
  ASSUME Typed, Placed, Past, TokensInv, NEW c \in Calls, CallStep(c)
  PROVE  TokensInv'
<1>1. Starts(c) \/ Moves(c)
  BY StepMoves
<1>2. token' # NoCall => kind'[token'] \in Logins /\ done'[token'] > 1
  <2>1. CASE token' # token /\ token' # NoCall
    BY <2>1, TokenChanges DEF Moves
  <2>2. CASE token' = token /\ token # NoCall
    <3>1. token \in Calls /\ Began(token) /\ kind[token] \in Logins /\ done[token] > 1
      BY <2>2 DEF Typed, TokensInv, Logins, Began
    <3>2. kind'[token] = kind[token]
      BY <1>1, <3>1, Stays
    <3>3. done'[token] >= done[token]
      BY <1>1, <3>1, StartsBegins DEF Moves, Typed
    <3>4. done'[token] \in Nat /\ done[token] \in Nat
      BY <1>1, <3>1, StartsBegins DEF Moves, Typed
    <3> QED BY <2>2, <3>1, <3>2, <3>3, <3>4
  <2> QED BY <2>1, <2>2
<1>3. ASSUME NEW d \in Calls, kind'[d] \in Logins, done'[d] # 0
      PROVE  Began(d) /\ kind'[d] = kind[d] /\ (d # c => UNCHANGED <<prior[d], done[d]>>) /\ (d = c => Moves(c))
  <2>1. CASE d = c /\ Starts(c)
    <3>1. done'[d] = 0
      BY <2>1, StartsBegins DEF Placed, Began
    <3> QED BY <3>1, <1>3
  <2>2. CASE d # c
    <3>1. kind'[d] = kind[d] /\ done'[d] = done[d] /\ prior'[d] = prior[d]
      BY <1>1, <2>2, StartsBegins, Stays, PriorChanges DEF Moves
    <3> QED BY <3>1, <1>3, <2>2 DEF Began, Logins
  <2>3. CASE d = c /\ Moves(c)
    BY <2>3 DEF Moves, Running
  <2> QED BY <1>1, <2>1, <2>2, <2>3
\* A step of a login that is not its look leaves what it saw.
<1>4. ASSUME NEW d \in Calls, d = c, kind'[d] \in Logins, done'[d] # 0
      PROVE  /\ done[d] = 0 => /\ done'[d] = 1 /\ cell' = cell
                               /\ \/ kind[d] = "loginOwn" /\ prior'[d] = d
                                  \/ kind[d] = "login" /\ prior'[d] = cell["credential"]
             /\ done[d] # 0 => prior'[d] = prior[d] /\ done'[d] # 1
  <2>1. Began(c) /\ kind[c] \in Logins /\ Moves(c) /\ kind[c] \in Lookers
    BY <1>3, <1>4 DEF Lookers
  <2>2. CASE done[c] = 0
    <3>1. ReadKey(c)
      <4>1. FindByName(c) \/ Snapshot(c) \/ ReadKey(c)
        BY <2>1, <2>2, LookersMove
      <4> QED BY <4>1, <2>1 DEF FindByName, Snapshot, Sets, Logins
    <3> QED BY <3>1, <2>2, <1>4 DEF ReadKey, Advance, Typed, storeVars
  <2>3. CASE done[c] # 0
    <3>1. prior'[c] = prior[c]
      BY <2>3, PriorChanges
    <3>2. done'[c] # 1
      <4>1. CASE done[c] = 1
        <5>1. CacheToken(c)
          <6>1. Insert(c) \/ WriteFails(c) \/ SetCell(c) \/ CacheToken(c)
            BY <2>1, <4>1, LookersMove
          <6> QED BY <6>1, <2>1 DEF Insert, WriteFails, SetCell, Sets, Logins, Creates
        <5> QED BY <5>1, <4>1 DEF CacheToken, Advance, Typed
      <4>2. CASE done[c] # 1
        <5>1. done[c] \in Nat /\ done'[c] >= done[c]
          BY <2>1 DEF Moves, Typed
        <5> QED BY <5>1, <4>2, <2>3
      <4> QED BY <4>1, <4>2
    <3> QED BY <3>1, <3>2, <1>4, <2>3
  <2> QED BY <2>2, <2>3, <1>4
<1>5. ASSUME NEW d \in Calls, kind'[d] = "loginOwn", done'[d] > 0 PROVE prior'[d] = d
  <2>1. kind'[d] \in Logins /\ done'[d] # 0
    BY <1>5 DEF Logins
  <2>2. Began(d) /\ kind[d] = "loginOwn"
    BY <2>1, <1>3, <1>5
  <2>3. done[d] # 0 => prior[d] = d
    BY <2>2 DEF TokensInv, Typed
  <2>4. CASE d = c
    BY <1>4, <2>1, <2>2, <2>3, <2>4
  <2>5. CASE d # c
    BY <1>3, <2>1, <2>3, <2>5
  <2> QED BY <2>4, <2>5
<1>6. ASSUME NEW d \in Calls, kind'[d] = "login", done'[d] = 1
      PROVE  prior'[d] = cell'["credential"] \/ Rekeyed(d)'
  <2>1. kind'[d] \in Logins /\ done'[d] # 0
    BY <1>6 DEF Logins
  <2>2. Began(d) /\ kind[d] = "login"
    BY <2>1, <1>3, <1>6
  <2>3. CASE d = c
    BY <1>4, <1>6, <2>1, <2>2, <2>3
  <2>4. CASE d # c
    <3>1. done[d] = 1 /\ prior'[d] = prior[d]
      BY <1>3, <1>6, <2>1, <2>4
    <3>2. CASE Rekeyed(d)
      <4>1. PICK e \in CallsOn("credential") : Changes(e) /\ Overlap(d, e)
        BY <3>2 DEF Rekeyed
      <4>2. e \in CallsOn("credential")' /\ kind'[e] = kind[e] /\ Overlap(d, e)'
        BY <4>1, <1>1, Stays DEF CallsOn
      <4> QED BY <4>1, <4>2 DEF Rekeyed, Changes
    <3>3. CASE prior[d] = cell["credential"] /\ cell'["credential"] # cell["credential"]
      <4>1. Running(c) /\ on[c] = "credential" /\ Changes(c) /\ Began(c)
        BY <3>3, CellChanges DEF Cells, Running
      <4>2. Running(d)
        BY <2>2, <3>1, TokenPlans DEF Running
      <4>3. Overlap(d, c)
        BY <4>1, <4>2, <2>4, RunTogether
      <4>4. c \in CallsOn("credential")' /\ kind'[c] = kind[c] /\ Overlap(d, c)'
        BY <4>1, <4>3, <1>1, Stays DEF CallsOn
      <4> QED BY <4>1, <4>4 DEF Rekeyed, Changes
    <3>4. CASE prior[d] = cell["credential"] /\ cell'["credential"] = cell["credential"]
      BY <3>1, <3>4
    <3> QED BY <3>2, <3>3, <3>4, <3>1, <2>2 DEF TokensInv
  <2> QED BY <2>3, <2>4
<1>7. \A d \in Calls : Dropped(d)' => token' \notin before'[d]
  BY DroppedStep DEF TokensInv
<1>8. NoStaleToken'
  BY StaleStep
<1> QED BY <1>2, <1>5, <1>6, <1>7, <1>8 DEF TokensInv

-----------------------------------------------------------------------------
(* The theorems.                                                           *)

LEMMA InvInit == Init => StreamsInv
<1> SUFFICES ASSUME Init PROVE StreamsInv
  OBVIOUS
<1>1. Typed /\ Placed /\ Past
  BY TypedInit
<1>2. /\ Rows = {} /\ alive = {} /\ token = NoCall
      /\ \A c \in Calls : kind[c] = "none" /\ done[c] = 0 /\ seq[c] = 0
  BY DEF Init, Rows
<1>3. \A c \in Calls : ~Began(c)
  BY <1>2 DEF Began
<1>4. RowsInv
  <2>1. OwnRows
    BY <1>2, <1>3 DEF OwnRows, At, Running
  <2>2. Bounded
    BY <1>2 DEF Bounded
  <2>3. NumbersInOrder /\ NoGaps
    BY <1>2 DEF NumbersInOrder, NoGaps
  <2> QED BY <2>1, <2>2, <2>3 DEF RowsInv
<1>5. ListsInv
  BY <1>2 DEF ListsInv
<1>6. SnapshotsInv
  BY <1>2 DEF SnapshotsInv, Sets
<1>7. TokensInv
  BY <1>2 DEF TokensInv, NoStaleToken, Dropped
<1> QED BY <1>1, <1>4, <1>5, <1>6, <1>7 DEF StreamsInv

\* The pump moves rows and nothing else.
LEMMA InvKept ==
  ASSUME StreamsInv, Rows' = Rows, UNCHANGED <<callVars, storeVars, heard, history>>
  PROVE  StreamsInv'
<1>1. /\ UNCHANGED <<done, kind, on, arg, prior, seq, direct>> /\ UNCHANGED <<alive, cell, token>>
      /\ UNCHANGED <<before, replaced, lost, heard>>
  BY DEF callVars, storeVars, history
<1>2. Typed'
  BY <1>1 DEF StreamsInv, Typed
<1>3. Placed' /\ Past'
  BY <1>1 DEF StreamsInv, Placed, Past, Returned, Running, Began
<1>4. RowsInv'
  BY <1>1 DEF StreamsInv, RowsInv, OwnRows, Bounded, NumbersInOrder, NoGaps, Behind, At, Running, Began
<1>5. ListsInv'
  BY <1>1 DEF StreamsInv, ListsInv, Vetted
<1>6. \A c, d \in Calls : Overlap(c, d)' <=> Overlap(c, d)
  BY <1>1 DEF Overlap, Began
<1>7. SnapshotsInv'
  BY <1>1, <1>6 DEF StreamsInv, SnapshotsInv, Disturbed
<1>8. TokensInv'
  BY <1>1 DEF StreamsInv, TokensInv, Rekeyed, CallsOn, Changes, Dropped, NoStaleToken, Overlap, Running, Began
<1> QED BY <1>2, <1>3, <1>4, <1>5, <1>7, <1>8 DEF StreamsInv

LEMMA InvStep == StreamsInv /\ [Next]_vars => StreamsInv'
<1> SUFFICES ASSUME StreamsInv, [Next]_vars PROVE StreamsInv'
  OBVIOUS
<1>1. ASSUME NEW c \in Calls, CallStep(c) PROVE StreamsInv'
  <2>1. /\ Typed /\ Placed /\ Past /\ OwnRows /\ Bounded /\ NumbersInOrder /\ NoGaps
        /\ ListsInv /\ SnapshotsInv /\ TokensInv
    BY DEF StreamsInv, RowsInv
  <2>2. Typed' /\ Placed'
    BY <1>1, <2>1, TypedStep, PlacedStep
  <2>3. Past'
    BY <1>1, <2>1, StepMoves, Stays
  <2>4. RowsInv'
    BY <1>1, <2>1, OwnRowsStep, BoundedStep, NumbersStep DEF RowsInv
  <2>5. ListsInv' /\ SnapshotsInv' /\ TokensInv'
    BY <1>1, <2>1, ListsStep, SnapshotsStep, TokensStep
  <2> QED BY <2>2, <2>3, <2>4, <2>5 DEF StreamsInv
<1>2. ASSUME NEW r \in outbox, Pump(r) PROVE StreamsInv'
  <2>1. Rows' = Rows /\ UNCHANGED <<callVars, storeVars, heard, history>>
    BY <1>2 DEF Pump, Rows
  <2> QED BY <2>1, InvKept
<1>3. CASE UNCHANGED vars
  <2>1. Rows' = Rows /\ UNCHANGED <<callVars, storeVars, heard, history>>
    BY <1>3 DEF vars, Rows, rowVars
  <2> QED BY <2>1, InvKept
<1> QED BY <1>1, <1>2, <1>3 DEF Next

THEOREM StreamsInvariant == Spec => []StreamsInv
BY InvInit, InvStep, PTL DEF Spec

\* A number comes after all the numbers below it, each some call's.
LEMMA NumbersBelow ==
  ASSUME StreamsInv, NEW c \in Calls
  PROVE  \A i \in 1..seq[c] : \E d \in Calls : seq[d] = i
<1> DEFINE R == OpToRel(<, Nat)
<1> DEFINE Absent == {j \in Nat : j < seq[c] /\ \A d \in Calls : seq[d] # seq[c] - j}
<1>1. IsWellFoundedOn(R, Nat)
  BY NatLessThanWellFounded
<1>2. \A n, k \in Nat : n < k => <<n, k>> \in R
  BY DEF R, OpToRel
<1> HIDE DEF R
<1>3. \A d \in Calls : seq[d] \in Nat
  BY DEF StreamsInv, Typed
<1>4. \A d \in Calls : seq[d] > 1 => \E e \in Calls : seq[e] = seq[d] - 1
  <2>1. \A r \in Rows : r.of \in Calls /\ r.seq = seq[r.of]
    BY DEF StreamsInv, RowsInv, OwnRows, Typed
  <2> QED BY <2>1 DEF StreamsInv, RowsInv, NoGaps
<1>5. Absent = {}
  <2>1. SUFFICES ASSUME Absent # {} PROVE FALSE
    OBVIOUS
  <2>2. Absent \in SUBSET Nat
    OBVIOUS
  <2> HIDE DEF Absent
  <2>3. PICK j \in Absent : \A n \in Absent : <<n, j>> \notin R
    BY <2>1, <2>2, <1>1, WFMin
  <2>4. j \in Nat /\ j < seq[c] /\ \A d \in Calls : seq[d] # seq[c] - j
    BY <2>3 DEF Absent
  <2>5. j # 0
    BY <2>4, <1>3
  <2>6. j - 1 \in Nat /\ j - 1 < j /\ j - 1 < seq[c]
    BY <2>4, <2>5, <1>3
  <2>7. j - 1 \notin Absent
    BY <2>2, <2>3, <2>4, <2>6, <1>2
  <2>8. PICK d \in Calls : seq[d] = seq[c] - (j - 1)
    BY <2>6, <2>7 DEF Absent
  <2>9. seq[d] > 1
    BY <2>4, <2>6, <2>8, <1>3
  <2>10. PICK e \in Calls : seq[e] = seq[d] - 1
    BY <2>9, <1>4
  <2>11. seq[e] = seq[c] - j
    BY <2>4, <2>8, <2>10, <1>3
  <2> QED BY <2>4, <2>11
<1>6. ASSUME NEW i \in 1..seq[c] PROVE \E d \in Calls : seq[d] = i
  <2>1. seq[c] - i \in Nat /\ seq[c] - i < seq[c] /\ seq[c] - (seq[c] - i) = i
    BY <1>3
  <2>2. seq[c] - i \notin Absent
    BY <1>5
  <2> QED BY <2>1, <2>2
<1> QED BY <1>6

\* So no number exceeds the count of calls.
LEMMA NumbersBounded ==
  ASSUME StreamsInv, NEW c \in Calls
  PROVE  seq[c] <= Cardinality(Calls)
<1> DEFINE S == 1..seq[c]
<1> DEFINE f == [i \in S |-> CHOOSE d \in Calls : seq[d] = i]
<1>1. seq[c] \in Nat
  BY DEF StreamsInv, Typed
<1>2. \A i \in S : f[i] \in Calls /\ seq[f[i]] = i
  BY NumbersBelow
<1>3. f \in [S -> Calls]
  BY <1>2
<1> HIDE DEF f
<1>4. f \in Injection(S, Calls)
  <2>1. \A i, j \in S : f[i] = f[j] => i = j
    BY <1>2
  <2> QED BY <2>1, <1>3 DEF Injection, IsInjective
<1>5. Cardinality(S) <= Cardinality(Calls)
  BY <1>4, FS_Injection, StreamsAssumption
<1>6. Cardinality(S) = seq[c]
  BY <1>1, FS_Interval
<1> QED BY <1>5, <1>6

\* Numbers are taken one by one: no row's number exceeds the count of calls,
\* and no call leaves the end of its plan.
THEOREM StreamsAreTyped == Spec => []TypeOK
<1>1. StreamsInv => TypeOK
  <2> SUFFICES ASSUME StreamsInv PROVE TypeOK
    OBVIOUS
  <2>1. Typed /\ Placed
    BY DEF StreamsInv
  <2>2. Cardinality(Calls) \in Nat
    BY StreamsAssumption, FS_CardinalityType
  <2>3. \A c \in Calls : seq[c] \in 0..Cardinality(Calls)
    BY <2>1, <2>2, NumbersBounded DEF Typed
  <2>4. \A c \in Calls : done[c] \in 0..6
    <3> SUFFICES ASSUME NEW c \in Calls PROVE done[c] \in 0..6
      OBVIOUS
    <3>1. CASE Began(c)
      <4> DEFINE n == Len(Stages[kind[c]])
      <4>1. n \in 1..6 /\ done[c] \in Nat
        BY <2>1, <3>1, RunningIsTyped DEF WellMade
      <4>2. done[c] <= n
        BY <2>1, <3>1 DEF Placed, Began
      <4> HIDE DEF n
      <4> QED BY <4>1, <4>2
    <3>2. CASE ~Began(c)
      BY <2>1, <3>2 DEF Placed, Began
    <3> QED BY <3>1, <3>2
  <2>5. \A r \in Rows : r.of \in Calls /\ r.seq \in 1..Cardinality(Calls)
    <3> SUFFICES ASSUME NEW r \in Rows PROVE r.of \in Calls /\ r.seq \in 1..Cardinality(Calls)
      OBVIOUS
    <3>1. r.of \in Calls /\ r.seq \in Nat \ {0} /\ r.seq = seq[r.of]
      BY <2>1 DEF Typed, StreamsInv, RowsInv, OwnRows
    <3> QED BY <2>2, <2>3, <3>1
  <2>6. done \in [Calls -> 0..6] /\ seq \in [Calls -> 0..Cardinality(Calls)]
    BY <2>1, <2>3, <2>4 DEF Typed
  <2> QED BY <2>1, <2>5, <2>6 DEF TypeOK, Typed, Rows
<1> QED BY <1>1, StreamsInvariant, PTL

\* The audit rows of one thing replay in the order of the calls that wrote
\* them, whichever of outbox and event log each went through.
THEOREM RowsReplayInOrder == Spec => []RowsInOrder
<1>1. StreamsInv => RowsInOrder
  BY DEF StreamsInv, RowsInv, OwnRows, NumbersInOrder, Typed, RowsInOrder, Rows
<1> QED BY <1>1, StreamsInvariant, PTL

\* An update or a bind reports the entry it replaced, unless another call on
\* the entry overlaps.
THEOREM SnapshotsAreTrue == Spec => []SnapshotsHold
<1>1. StreamsInv => SnapshotsHold
  BY DEF StreamsInv, SnapshotsInv, Disturbed, SnapshotsHold
<1> QED BY <1>1, StreamsInvariant, PTL

\* The duplicate check lets two lists of one name through only if their
\* creates overlapped.
THEOREM ListNamesAreUnique == Spec => []OneListPerName
<1>1. StreamsInv => OneListPerName
  <2> SUFFICES ASSUME StreamsInv, NEW c \in alive, NEW d \in alive, kind[c] = "createList",
                      kind[d] = "createList", arg[c] = arg[d], c # d
               PROVE  Overlap(c, d)
    BY DEF OneListPerName
  <2>1. c \in Calls /\ d \in Calls
    BY DEF StreamsInv, Typed
  <2>2. c \notin before[d] /\ d \notin before[c]
    BY <2>1 DEF StreamsInv, ListsInv, Vetted
  <2> QED BY <2>2 DEF Overlap, Began
<1> QED BY <1>1, StreamsInvariant, PTL

\* A cached token belongs to the stored key, unless the login it came from
\* overlapped a change of the key or the change is still under way.
THEOREM TokensAreFresh == Spec => []NoStaleToken
<1>1. StreamsInv => NoStaleToken
  BY DEF StreamsInv, TokensInv
<1> QED BY <1>1, StreamsInvariant, PTL

-----------------------------------------------------------------------------
(* The inductive invariant behind what streams and events tell.            *)

\* The calls that delete, those that write the credentials, and all that append
\* a row.
Deletes  == {"deleteAlert", "deleteList"}
Rewrites == {"update"} \cup Clears
Audited  == Creates \cup Deletes \cup Rewrites \cup {"changeList"}

HasRow(c) == \E r \in Rows : r.of = c
Told(c)   == \E i \in 1..Len(heard) : heard[i] = c

\* The write of the call took effect: a call whose write failed has returned,
\* with no row made or lost.
Took(c) == /\ kind[c] \in Audited /\ Behind(c, "write")
           /\ Running(c) \/ c \in lost \/ HasRow(c)

\* Every write that took effect is followed by its row, or the loss of it, and
\* by its event.
Followed ==
  /\ \A c \in lost : Behind(c, "append")
  /\ \A c \in Calls : Took(c) /\ Behind(c, "append") => c \in lost \/ HasRow(c)
  /\ \A c \in Calls : Took(c) /\ Behind(c, "dispatch") => Told(c)
  /\ \A c \in Calls : Told(c) => Behind(c, "dispatch") /\ (kind[c] \in Audited => Took(c))
  /\ \A r \in Rows : r.type = RowType(r.of)

\* An event is not told before that of a call that had returned.
HeardInOrder ==
  \A i, j \in 1..Len(heard) : i < j => heard[j] \notin before[heard[i]]

\* A call on an alert or a list begins after the call that makes it.
Aimed ==
  \A c \in Calls :
    /\ kind[c] \in Creates => on[c] = c
    /\ kind[c] = "deleteAlert" => on[c] \in Calls /\ kind[on[c]] \in Alerts
    /\ kind[c] \in {"deleteList", "changeList"} => on[c] \in Calls /\ kind[on[c]] = "createList"
    /\ \A d \in before[c] : on[d] # c

\* What has been made is there, or somebody deleted it.
MadeOrGone ==
  /\ \A c \in alive : Took(c)
  /\ \A c \in Calls :
       Took(c) /\ kind[c] \in Creates =>
         \/ c \in alive
         \/ \E d \in Calls : Took(d) /\ kind[d] \in Deletes /\ on[d] = c
         \/ \E d \in Calls : kind[d] = "deleteAccount" /\ d \notin before[c]

\* Nothing comes back, and nothing is deleted or changed that is not there.
GoneForGood ==
  \A c \in Calls :
    Took(c) =>
      /\ kind[c] \in Deletes => on[c] \notin alive
      /\ kind[c] \in Deletes \cup {"changeList"} => Took(on[c])
      /\ kind[c] = "changeList" =>
           \A d \in before[c] : on[d] = on[c] /\ kind[d] \in Deletes => ~Took(d)

\* The last write of the credentials stands.
LastWriteStands ==
  LET c == cell["credential"]
  IN  /\ c # NoCall => /\ kind[c] \in {"update", "loginOwn"}
                       /\ kind[c] = "update" => Took(c)
                       /\ \A d \in Calls : Took(d) /\ kind[d] \in Rewrites => c \notin before[d]
      /\ c = NoCall => \A d \in Calls : Took(d) /\ kind[d] = "update" =>
                         \E e \in Calls : Took(e) /\ kind[e] \in Clears /\ e \notin before[d]

StoriesInv == /\ Followed /\ HeardInOrder /\ Aimed
              /\ MadeOrGone /\ GoneForGood /\ LastWriteStands

\* A plan that appends a row writes before it appends, asks or tells, and looks
\* before it writes.
AuditedPlan(p) ==
  \E w, a \in 1..Len(p) :
    /\ p[w] = "write" /\ p[a] = "append"
    /\ \A i \in 1..Len(p) : /\ p[i] \in {"sequence", "append", "dispatch"} => w < i
                            /\ p[i] = "look" => i < w

LEMMA AuditedPlans == \A k \in Audited : AuditedPlan(Stages[k])
<1> DEFINE Fits(p, w, a) ==
      /\ p[w] = "write" /\ p[a] = "append" /\ w \in 1..Len(p) /\ a \in 1..Len(p)
      /\ \A i \in 1..Len(p) : /\ p[i] \in {"sequence", "append", "dispatch"} => w < i
                              /\ p[i] = "look" => i < w
<1>1. Fits(CreateAlert, 1, 4)
  BY DEF CreateAlert
<1>2. Fits(CreateComposite, 1, 3)
  BY DEF CreateComposite
<1>3. Fits(DeleteAlert, 1, 4)
  BY DEF DeleteAlert
<1>4. Fits(CreateWatchlist, 2, 4)
  BY DEF CreateWatchlist
<1>5. Fits(DeleteWatchlist, 1, 3)
  BY DEF DeleteWatchlist
<1>6. Fits(ChangeWatchlist, 1, 3)
  BY DEF ChangeWatchlist
<1>7. Fits(UpdateCredentials, 2, 5)
  BY DEF UpdateCredentials
<1>8. Fits(RevokeCredentials, 1, 4)
  BY DEF RevokeCredentials
<1>9. Fits(DeleteAccount, 1, 3)
  BY DEF DeleteAccount
<1>10. \A p, w, a : Fits(p, w, a) => AuditedPlan(p)
  BY DEF AuditedPlan
<1> HIDE DEF Fits
<1> QED BY <1>1, <1>2, <1>3, <1>4, <1>5, <1>6, <1>7, <1>8, <1>9, <1>10
        DEF Audited, Creates, Deletes, Rewrites, Clears, Stages

LEMMA SweepsAndEvents ==
  /\ \A k \in Uses : \A i \in 1..Len(Stages[k]) :
       Stages[k][i] \in {"alerts", "lists"} => k = "deleteAccount"
  /\ Len(Stages["createAlert"]) = 4 /\ Stages["createAlert"][2] = "dispatch"
  /\ Len(Stages["createList"]) = 5 /\ Stages["createList"][5] = "dispatch"
  /\ Len(Stages["deleteAlert"]) = 4 /\ Stages["deleteAlert"][2] = "dispatch"
  /\ Len(Stages["deleteList"]) = 4 /\ Stages["deleteList"][4] = "dispatch"
BY DEF Uses, Stages, CreateAlert, CreateComposite, DeleteAlert,
       CreateWatchlist, DeleteWatchlist, ChangeWatchlist, UpdateCredentials, RevokeCredentials,
       DeleteAccount, InvalidateToken, SetupTelegram, Login, LoginOwnKeys

\* A stage comes once, and is not behind a call that is at it.
LEMMA AtOnce ==
  ASSUME Typed, NEW c \in Calls, NEW stage, At(c, stage)
  PROVE  ~Behind(c, stage)
<1> DEFINE p == Stages[kind[c]]
<1>1. Began(c) /\ done[c] < Len(p) /\ p[done[c] + 1] = stage
  BY DEF At, Running
<1>2. WellMade(p) /\ done[c] \in Nat /\ Len(p) \in Nat
  BY <1>1, RunningIsTyped DEF WellMade
<1> HIDE DEF p
<1>3. ASSUME NEW i \in 1..done[c], i <= Len(p), p[i] = stage PROVE FALSE
  <2>1. i \in 1..Len(p) /\ done[c] + 1 \in 1..Len(p) /\ i # done[c] + 1
    BY <1>1, <1>2, <1>3
  <2> QED BY <2>1, <1>1, <1>2, <1>3 DEF WellMade
<1> QED BY <1>3 DEF Behind, p

\* At its end an audited call has its append behind it.
LEMMA EndsBehind ==
  ASSUME NEW k \in Audited, NEW n \in Nat, ~(n < Len(Stages[k]))
  PROVE  \E i \in 1..n : i <= Len(Stages[k]) /\ Stages[k][i] = "append"
<1>1. PICK a \in 1..Len(Stages[k]) : Stages[k][a] = "append"
  BY AuditedPlans DEF AuditedPlan
<1>2. k \in Uses
  BY DEF Audited, Creates, Deletes, Rewrites, Clears, Uses
<1>3. Len(Stages[k]) \in Nat
  BY <1>2, Plans DEF WellMade
<1>4. a \in 1..n /\ a <= Len(Stages[k])
  BY <1>3
<1> QED BY <1>1, <1>4

\* Where the write of an audited call is.
LEMMA WriteStands ==
  ASSUME Typed, NEW c \in Calls, kind[c] \in Audited
  PROVE  /\ Began(c)
         /\ At(c, "look") \/ At(c, "write") =>
              ~Behind(c, "write") /\ ~Behind(c, "append") /\ ~Behind(c, "dispatch")
         /\ At(c, "sequence") \/ At(c, "append") \/ At(c, "dispatch") => Behind(c, "write")
         /\ Behind(c, "append") \/ Behind(c, "dispatch") => Behind(c, "write")
         /\ ~Running(c) => Behind(c, "append")
         /\ At(c, "write") => done[c] + 1 < Len(Stages[kind[c]])
<1> DEFINE p == Stages[kind[c]]
<1>1. Began(c)
  BY DEF Began, Audited, Creates, Deletes, Rewrites, Clears
<1>2. WellMade(p) /\ done[c] \in Nat /\ Len(p) \in Nat
  BY <1>1, RunningIsTyped DEF WellMade
<1>3. PICK w \in 1..Len(p), a \in 1..Len(p) :
        /\ p[w] = "write" /\ p[a] = "append"
        /\ \A i \in 1..Len(p) : /\ p[i] \in {"sequence", "append", "dispatch"} => w < i
                                /\ p[i] = "look" => i < w
  BY AuditedPlans DEF AuditedPlan
<1>4. \A stage : Behind(c, stage) <=> \E i \in 1..done[c] : i <= Len(p) /\ p[i] = stage
  BY <1>1 DEF Behind
<1>5. \A stage : At(c, stage) <=> done[c] < Len(p) /\ p[done[c] + 1] = stage
  BY <1>1 DEF At, Running
<1>6. ~Running(c) <=> ~(done[c] < Len(p))
  BY <1>1 DEF Running
<1> HIDE DEF p
<1>7. w < a
  BY <1>3
<1>8. ASSUME At(c, "look") \/ At(c, "write")
      PROVE  ~Behind(c, "write") /\ ~Behind(c, "append") /\ ~Behind(c, "dispatch")
  <2>1. done[c] + 1 \in 1..Len(p) /\ p[done[c] + 1] \in {"look", "write"}
    BY <1>2, <1>5, <1>8
  <2>2. done[c] + 1 <= w
    BY <2>1, <1>2, <1>3 DEF WellMade
  <2>3. ASSUME NEW i \in 1..done[c], i <= Len(p), p[i] \in {"write", "append", "dispatch"} PROVE FALSE
    <3>1. i \in 1..Len(p) /\ i < w
      BY <2>2, <2>3, <1>2
    <3> QED BY <3>1, <2>3, <1>2, <1>3 DEF WellMade
  <2> QED BY <2>3, <1>4
<1>9. ASSUME At(c, "sequence") \/ At(c, "append") \/ At(c, "dispatch") PROVE Behind(c, "write")
  <2>1. done[c] + 1 \in 1..Len(p) /\ p[done[c] + 1] \in {"sequence", "append", "dispatch"}
    BY <1>2, <1>5, <1>9
  <2>2. w < done[c] + 1
    BY <2>1, <1>3
  <2>3. w \in 1..done[c] /\ w <= Len(p)
    BY <2>2, <1>2
  <2> QED BY <2>3, <1>3, <1>4
<1>10. ASSUME Behind(c, "append") \/ Behind(c, "dispatch") PROVE Behind(c, "write")
  <2>1. PICK i \in 1..done[c] : i <= Len(p) /\ p[i] \in {"append", "dispatch"}
    BY <1>4, <1>10
  <2>2. i \in 1..Len(p)
    BY <2>1, <1>2
  <2>3. w < i
    BY <2>1, <2>2, <1>3
  <2>4. w \in 1..done[c] /\ w <= Len(p)
    BY <2>2, <2>3, <1>2
  <2> QED BY <2>4, <1>3, <1>4
<1>11. ASSUME ~Running(c) PROVE Behind(c, "append")
  <2>1. a \in 1..done[c] /\ a <= Len(p)
    BY <1>2, <1>6, <1>11
  <2> QED BY <2>1, <1>3, <1>4
<1>12. ASSUME At(c, "write") PROVE done[c] + 1 < Len(p)
  <2>1. done[c] + 1 \in 1..Len(p) /\ p[done[c] + 1] = "write"
    BY <1>2, <1>5, <1>12
  <2>2. done[c] + 1 = w
    BY <2>1, <1>2, <1>3 DEF WellMade
  <2> QED BY <2>2, <1>2, <1>7
<1> QED BY <1>1, <1>8, <1>9, <1>10, <1>11, <1>12 DEF p

\* The stages a step leaves behind, unless it ends the call early.
LEMMA Passes ==
  ASSUME Typed, NEW c \in Calls, Moves(c), Advance(c) \/ SequenceFails(c) \/ OutboxFails(c),
         NEW stage, Behind(c, stage)', ~Behind(c, stage)
  PROVE  \/ At(c, stage) /\ Advance(c)
         \/ SequenceFails(c) /\ stage \in {"sequence", "append"}
<1> DEFINE p == Stages[kind[c]]
<1>1. Began(c) /\ Running(c) /\ UNCHANGED kind
  BY DEF Moves, Running
<1>2. WellMade(p) /\ done[c] \in Nat /\ Len(p) \in Nat /\ done[c] < Len(p)
  BY <1>1, RunningIsTyped DEF WellMade, Running
<1>3. \A s : At(c, s) <=> p[done[c] + 1] = s
  BY <1>1 DEF At
<1>4. PICK i \in 1..done'[c] : i <= Len(p) /\ p[i] = stage
  BY <1>1 DEF Behind
<1>5. ~(i \in 1..done[c])
  BY <1>1, <1>4 DEF Behind
<1> HIDE DEF p
<1>6. CASE OutboxFails(c)
  BY <1>4, <1>5, <1>6 DEF OutboxFails
<1>7. CASE SequenceFails(c)
  <2>1. done'[c] = done[c] + 2 /\ p[done[c] + 1] = "sequence"
    BY <1>3, <1>7 DEF SequenceFails, Typed
  <2>2. done[c] + 1 \in 1..Len(p)
    BY <1>2
  <2>3. p[done[c] + 2] = "append"
    <3>1. p[done[c] + 1 + 1] = "append"
      BY <1>2, <2>1, <2>2 DEF WellMade
    <3>2. done[c] + 1 + 1 = done[c] + 2
      BY <1>2
    <3> QED BY <3>1, <3>2
  <2>4. i = done[c] + 1 \/ i = done[c] + 2
    BY <1>2, <1>4, <1>5, <2>1
  <2> QED BY <1>4, <1>7, <2>1, <2>3, <2>4
<1>8. CASE Advance(c)
  <2>1. done'[c] = done[c] + 1
    BY <1>8 DEF Advance, Typed
  <2>2. i = done[c] + 1
    BY <1>2, <1>4, <1>5, <2>1
  <2> QED BY <1>3, <1>4, <1>8, <2>2
<1> QED BY <1>6, <1>7, <1>8

\* Only a failed look or a failed write ends a call early.
EndsEarly(c) == (FindByName(c) \/ WriteFails(c)) /\ Return(c)

LEMMA GoesOn ==
  ASSUME NEW c \in Calls, CallStep(c), ~Starts(c)
  PROVE  Advance(c) \/ SequenceFails(c) \/ OutboxFails(c) \/ EndsEarly(c)
<1>1. FindByName(c) \/ WriteFails(c) => Advance(c) \/ EndsEarly(c)
  BY DEF FindByName, WriteFails, EndsEarly
<1>2. Snapshot(c) \/ ReadKey(c) \/ Insert(c) \/ Remove(c) \/ Change(c) \/ SetCell(c) \/ ClearCell(c)
      => Advance(c)
  BY DEF Snapshot, ReadKey, Insert, Remove, Change, SetCell, ClearCell
<1>3. CacheToken(c) \/ StoreKeys(c) \/ SweepAlerts(c) \/ SweepLists(c) \/ DropToken(c) => Advance(c)
  BY DEF CacheToken, StoreKeys, SweepAlerts, SweepLists, DropToken
<1>4. Dispatch(c) \/ AskSequence(c) \/ AppendToOutbox(c) \/ AppendRow(c) \/ AppendFails(c) => Advance(c)
  BY DEF Dispatch, AskSequence, AppendToOutbox, AppendRow, AppendFails
<1> QED BY <1>1, <1>2, <1>3, <1>4 DEF CallStep, Starts

-----------------------------------------------------------------------------
(* Writes, and the rows and events that follow them.                       *)

\* What a step does to the rows, the losses and the events is its call's.
LEMMA Marks ==
  ASSUME Typed, NEW c \in Calls, CallStep(c)
  PROVE  /\ \A d \in Calls : HasRow(d) => HasRow(d)'
         /\ \A d \in Calls : HasRow(d)' /\ ~HasRow(d) => d = c /\ At(c, "append") /\ Advance(c)
         /\ lost \subseteq lost'
         /\ \A d \in lost' \ lost : d = c /\ (SequenceFails(c) \/ (At(c, "append") /\ Advance(c)))
         /\ SequenceFails(c) => c \in lost'
         /\ At(c, "append") /\ Advance(c) => c \in lost' \/ HasRow(c)'
<1>1. CASE AppendToOutbox(c) \/ AppendRow(c)
  <2>1. Rows' = Rows \cup {Row(c)} /\ At(c, "append") /\ Advance(c) /\ lost' = lost
    BY <1>1 DEF AppendToOutbox, AppendRow, Direct, Rows, history
  <2>2. ~SequenceFails(c)
    BY <2>1 DEF SequenceFails, At
  <2>3. Row(c).of = c
    BY DEF Row
  <2> QED BY <2>1, <2>2, <2>3 DEF HasRow
<1>2. CASE ~(AppendToOutbox(c) \/ AppendRow(c))
  <2>1. Rows' = Rows
    BY <1>2, Frames DEF Rows
  <2>2. lost' = lost \/ SequenceFails(c) \/ AppendFails(c)
    BY Frames
  <2>3. AppendFails(c) => At(c, "append") /\ Advance(c) /\ lost' = lost \cup {c}
    BY DEF AppendFails, Direct
  <2>4. SequenceFails(c) => lost' = lost \cup {c}
    BY DEF SequenceFails
  <2>5. At(c, "append") /\ Advance(c) => AppendFails(c)
    <3>1. SUFFICES ASSUME At(c, "append"), Advance(c) PROVE AppendFails(c)
      OBVIOUS
    <3>2. ~OutboxFails(c)
      BY <3>1 DEF OutboxFails, Advance, Typed
    <3>3. ~Starts(c)
      BY <3>1, StartsBegins DEF At, Running
    <3>4. ~(FindByName(c) \/ Snapshot(c) \/ ReadKey(c) \/ Insert(c) \/ Remove(c) \/ Change(c) \/ WriteFails(c))
      BY <3>1 DEF At, FindByName, Snapshot, ReadKey, Insert, Remove, Change, WriteFails
    <3>5. ~(SetCell(c) \/ ClearCell(c) \/ CacheToken(c) \/ DropToken(c) \/ StoreKeys(c))
      BY <3>1 DEF At, SetCell, ClearCell, CacheToken, DropToken, StoreKeys
    <3>6. ~(SweepAlerts(c) \/ SweepLists(c) \/ Dispatch(c) \/ AskSequence(c) \/ SequenceFails(c))
      BY <3>1 DEF At, SweepAlerts, SweepLists, Dispatch, AskSequence, SequenceFails
    <3> QED BY <1>2, <3>2, <3>3, <3>4, <3>5, <3>6 DEF CallStep, Starts
  <2>6. \A d \in Calls : HasRow(d)' <=> HasRow(d)
    BY <2>1 DEF HasRow
  <2> QED BY <2>2, <2>3, <2>4, <2>5, <2>6
<1> QED BY <1>1, <1>2

\* A write that took effect stays so, and it took effect when the store took it.
LEMMA TookStep ==
  ASSUME Typed, Placed, Past, OwnRows, Bounded, Followed, NEW c \in Calls, CallStep(c)
  PROVE  /\ \A d \in Calls : Took(d) => Took(d)' /\ UNCHANGED <<kind[d], on[d], before[d]>>
         /\ \A d \in Calls : Took(d)' /\ ~Took(d) =>
              /\ d = c /\ Moves(c) /\ kind[c] \in Audited /\ At(c, "write")
              /\ Insert(c) \/ Remove(c) \/ Change(c) \/ SetCell(c) \/ ClearCell(c)
<1>1. Starts(c) \/ Moves(c)
  BY StepMoves
<1>2. Typed'
  BY TypedStep
<1>3. \A d \in Calls : d # c => (HasRow(d)' <=> HasRow(d)) /\ (d \in lost' <=> d \in lost)
  BY Marks
<1>4. \A d \in Calls : d # c => UNCHANGED <<kind[d], done[d]>>
  BY <1>1, StartsBegins, Stays DEF Moves
<1>5. \A d \in Calls : d # c => (Running(d)' <=> Running(d)) /\ (Behind(d, "write")' <=> Behind(d, "write"))
  BY <1>4 DEF Running, Began, Behind
<1>6. \A d \in Calls : d # c => (Took(d)' <=> Took(d))
  BY <1>3, <1>4, <1>5 DEF Took
<1>7. \A d \in Calls : Took(d) => Began(d) /\ UNCHANGED <<kind[d], on[d], before[d]>>
  BY <1>1, Stays DEF Took, Behind
<1>8. EndsEarly(c) => At(c, "look") \/ At(c, "write")
  BY DEF EndsEarly, FindByName, WriteFails
<1>9. ASSUME Took(c) PROVE Took(c)'
  <2>1. kind[c] \in Audited /\ Behind(c, "write") /\ Began(c)
    BY <1>9 DEF Took, Behind
  <2>2. ~Starts(c) /\ ~EndsEarly(c) /\ Moves(c)
    BY <2>1, <1>1, <1>8, StartsBegins, WriteStands
  <2>3. Behind(c, "write")' /\ kind'[c] = kind[c]
    BY <2>1, <2>2, <1>1, BehindStays DEF Moves
  <2>4. SUFFICES ASSUME ~Running(c)' PROVE c \in lost' \/ HasRow(c)'
    BY <2>1, <2>3 DEF Took
  <2>5. Behind(c, "append")'
    BY <2>1, <2>3, <2>4, <1>2, EndsBehind DEF Typed, Running, Behind, Began
  <2>6. CASE Behind(c, "append")
    BY <2>6, <1>9, Marks DEF Followed
  <2>7. CASE ~Behind(c, "append")
    <3>1. (At(c, "append") /\ Advance(c)) \/ SequenceFails(c)
      BY <2>2, <2>5, <2>7, GoesOn, Passes
    <3> QED BY <3>1, Marks
  <2> QED BY <2>6, <2>7
<1>10. ASSUME Took(c)', ~Took(c)
       PROVE  /\ Moves(c) /\ kind[c] \in Audited /\ At(c, "write")
              /\ Insert(c) \/ Remove(c) \/ Change(c) \/ SetCell(c) \/ ClearCell(c)
  <2>1. Behind(c, "write")' /\ kind'[c] \in Audited /\ (Running(c)' \/ c \in lost' \/ HasRow(c)')
    BY <1>10 DEF Took
  <2>2. ~Starts(c)
    <3>1. SUFFICES ASSUME Starts(c) PROVE FALSE
      OBVIOUS
    <3>2. done'[c] = 0
      BY <3>1, StartsBegins DEF Placed, Began
    <3> QED BY <3>2, <2>1 DEF Behind
  <2>3. Moves(c) /\ kind'[c] = kind[c] /\ Running(c)
    BY <2>2, <1>1 DEF Moves
  <2>4. ~Behind(c, "write")
    BY <2>1, <2>3, <1>10 DEF Took
  <2>5. c \notin lost /\ ~HasRow(c)
    BY <2>1, <2>3, <2>4, WriteStands DEF Followed, OwnRows, HasRow
  <2>6. ~EndsEarly(c)
    <3>1. SUFFICES ASSUME EndsEarly(c) PROVE FALSE
      OBVIOUS
    <3>2. done'[c] = Len(Stages[kind[c]])
      BY <3>1, <2>3 DEF EndsEarly, Return, Typed
    <3>3. ~Running(c)'
      BY <3>2, <2>3, RunningIsTyped DEF Running, WellMade
    <3>4. ~SequenceFails(c) /\ ~At(c, "append")
      BY <3>1 DEF EndsEarly, FindByName, WriteFails, SequenceFails, At
    <3> QED BY <3>3, <3>4, <2>1, <2>5, Marks
  <2>7. At(c, "write") /\ Advance(c)
    BY <2>1, <2>2, <2>3, <2>4, <2>6, GoesOn, Passes
  <2>8. done[c] + 1 < Len(Stages[kind[c]])
    BY <2>1, <2>3, <2>7, WriteStands
  <2>9. ~Return(c)
    BY <2>3, <2>7, <2>8, RunningIsTyped DEF Advance, Return, Typed, Running, WellMade
  <2>10. ~CacheToken(c)
    BY <2>1, <2>3 DEF CacheToken, Audited, Creates, Deletes, Rewrites, Clears, Logins
  <2>11. ~(FindByName(c) \/ Snapshot(c) \/ ReadKey(c) \/ WriteFails(c) \/ DropToken(c) \/ StoreKeys(c))
    BY <2>7, <2>9 DEF At, FindByName, Snapshot, ReadKey, WriteFails, DropToken, StoreKeys
  <2>12. ~(SweepAlerts(c) \/ SweepLists(c) \/ Dispatch(c) \/ AskSequence(c) \/ SequenceFails(c))
    BY <2>7 DEF At, SweepAlerts, SweepLists, Dispatch, AskSequence, SequenceFails
  <2>13. ~(AppendToOutbox(c) \/ OutboxFails(c) \/ AppendRow(c) \/ AppendFails(c))
    BY <2>7 DEF At, AppendToOutbox, OutboxFails, AppendRow, AppendFails, Direct
  <2> QED BY <2>1, <2>2, <2>3, <2>7, <2>10, <2>11, <2>12, <2>13 DEF CallStep, Starts
<1> QED BY <1>6, <1>7, <1>9, <1>10

\* A stage a call is done with is behind it.
LEMMA Comes ==
  ASSUME Typed, NEW c \in Calls, Moves(c)
  PROVE  /\ \A stage : At(c, stage) /\ Advance(c) => Behind(c, stage)'
         /\ SequenceFails(c) => Behind(c, "append")'
<1> DEFINE p == Stages[kind[c]]
<1>1. Began(c) /\ Running(c) /\ UNCHANGED kind /\ Began(c)'
  BY DEF Moves, Running, Began
<1>2. WellMade(p) /\ done[c] \in Nat /\ Len(p) \in Nat /\ done[c] < Len(p)
  BY <1>1, RunningIsTyped DEF WellMade, Running
<1>3. \A stage : Behind(c, stage)' <=> \E i \in 1..done'[c] : i <= Len(p) /\ p[i] = stage
  BY <1>1 DEF Behind
<1>4. \A stage : At(c, stage) <=> p[done[c] + 1] = stage
  BY <1>1 DEF At
<1> HIDE DEF p
<1>5. ASSUME NEW stage, At(c, stage), Advance(c) PROVE Behind(c, stage)'
  <2>1. done'[c] = done[c] + 1
    BY <1>5 DEF Advance, Typed
  <2>2. done[c] + 1 \in 1..done'[c] /\ done[c] + 1 <= Len(p) /\ p[done[c] + 1] = stage
    BY <2>1, <1>2, <1>4, <1>5
  <2> QED BY <2>2, <1>3
<1>6. ASSUME SequenceFails(c) PROVE Behind(c, "append")'
  <2>1. done'[c] = done[c] + 2 /\ p[done[c] + 1] = "sequence" /\ done[c] + 1 \in 1..Len(p)
    BY <1>2, <1>4, <1>6 DEF SequenceFails, Typed
  <2>2. done[c] + 1 < Len(p) /\ p[done[c] + 1 + 1] = "append"
    BY <2>1, <1>2 DEF WellMade
  <2>3. done[c] + 1 + 1 \in 1..done'[c] /\ done[c] + 1 + 1 <= Len(p)
    BY <2>1, <2>2, <1>2
  <2> QED BY <2>2, <2>3, <1>3
<1> QED BY <1>5, <1>6

\* What a step tells is its call.
LEMMA Tells ==
  ASSUME Typed, NEW c \in Calls, CallStep(c)
  PROVE  /\ \A d \in Calls : Told(d) => Told(d)'
         /\ \A d \in Calls : Told(d)' /\ ~Told(d) => d = c /\ At(c, "dispatch") /\ Advance(c)
         /\ At(c, "dispatch") /\ Advance(c) /\ kind[c] # "setChat" => Told(c)'
         /\ heard' = heard \/ (heard' = Append(heard, c) /\ Running(c))
<1>1. heard' = heard \/ (heard' = Append(heard, c) /\ At(c, "dispatch") /\ Advance(c))
  BY Frames DEF Dispatch
<1>2. heard \in Seq(Calls) /\ Len(heard) \in Nat
  BY DEF Typed
<1>3. CASE heard' = Append(heard, c)
  <2>1. /\ Len(heard') = Len(heard) + 1 /\ heard'[Len(heard) + 1] = c
        /\ \A i \in 1..Len(heard) : heard'[i] = heard[i]
    BY <1>2, <1>3
  <2>2. /\ 1..Len(heard) \subseteq 1..Len(heard') /\ Len(heard) + 1 \in 1..Len(heard')
        /\ \A i \in 1..Len(heard') : i \in 1..Len(heard) \/ i = Len(heard) + 1
    BY <2>1, <1>2
  <2>3. \A d \in Calls : Told(d)' <=> Told(d) \/ d = c
    BY <2>1, <2>2 DEF Told
  <2>4. At(c, "dispatch") /\ Advance(c)
    <3>1. heard' # heard
      BY <2>1, <1>2
    <3> QED BY <3>1, <1>1
  <2> QED BY <1>3, <2>3, <2>4 DEF At
<1>4. CASE heard' = heard
  <2>1. \A d \in Calls : Told(d)' <=> Told(d)
    BY <1>4 DEF Told
  <2>2. ~(At(c, "dispatch") /\ kind[c] # "setChat" /\ Advance(c))
    <3>1. SUFFICES ASSUME At(c, "dispatch"), kind[c] # "setChat" PROVE FALSE
      OBVIOUS
    <3>2. ~Dispatch(c)
      <4>1. ~Silent(c)
        BY <3>1 DEF Silent
      <4>2. Append(heard, c) # heard
        BY <1>2
      <4> QED BY <4>1, <4>2, <1>4 DEF Dispatch
    <3>3. ~Starts(c)
      BY <3>1, StartsBegins DEF At, Running
    <3>4. ~(FindByName(c) \/ Snapshot(c) \/ ReadKey(c) \/ Insert(c) \/ Remove(c) \/ Change(c) \/ WriteFails(c))
      BY <3>1 DEF At, FindByName, Snapshot, ReadKey, Insert, Remove, Change, WriteFails
    <3>5. ~(SetCell(c) \/ ClearCell(c) \/ CacheToken(c) \/ DropToken(c) \/ StoreKeys(c))
      BY <3>1 DEF At, SetCell, ClearCell, CacheToken, DropToken, StoreKeys
    <3>6. ~(SweepAlerts(c) \/ SweepLists(c) \/ AskSequence(c) \/ SequenceFails(c))
      BY <3>1 DEF At, SweepAlerts, SweepLists, AskSequence, SequenceFails
    <3>7. ~(AppendToOutbox(c) \/ OutboxFails(c) \/ AppendRow(c) \/ AppendFails(c))
      BY <3>1 DEF At, AppendToOutbox, OutboxFails, AppendRow, AppendFails, Direct
    <3> QED BY <3>2, <3>3, <3>4, <3>5, <3>6, <3>7 DEF CallStep, Starts
  <2> QED BY <1>4, <2>1, <2>2
<1> QED BY <1>1, <1>3, <1>4

\* Only the call that steps leaves a stage behind.
LEMMA Crosses ==
  ASSUME Typed, Placed, Past, NEW c \in Calls, CallStep(c), NEW d \in Calls, NEW stage,
         Behind(d, stage)', ~Behind(d, stage)
  PROVE  /\ d = c /\ Moves(c)
         /\ \/ At(c, stage) /\ Advance(c)
            \/ SequenceFails(c) /\ stage \in {"sequence", "append"}
            \/ EndsEarly(c)
<1>1. Starts(c) \/ Moves(c)
  BY StepMoves
<1>2. d = c
  <2>1. SUFFICES ASSUME d # c PROVE FALSE
    OBVIOUS
  <2>2. UNCHANGED <<kind[d], done[d]>>
    BY <1>1, <2>1, StartsBegins, Stays DEF Moves
  <2> QED BY <2>2 DEF Behind, Began
<1>3. ~Starts(c)
  <2>1. SUFFICES ASSUME Starts(c) PROVE FALSE
    OBVIOUS
  <2>2. done'[c] = 0
    BY <2>1, StartsBegins DEF Placed, Began
  <2> QED BY <2>2, <1>2 DEF Behind
<1> QED BY <1>1, <1>2, <1>3, GoesOn, Passes

LEMMA FollowedStep ==
  ASSUME Typed, Placed, Past, OwnRows, Bounded, Followed, NEW c \in Calls, CallStep(c)
  PROVE  Followed'
<1>1. Starts(c) \/ Moves(c)
  BY StepMoves
<1>2. \A d \in Calls : \A s : Behind(d, s) => Behind(d, s)'
  BY <1>1, BehindStays
<1>3. EndsEarly(c) => At(c, "look") \/ At(c, "write")
  BY DEF EndsEarly, FindByName, WriteFails
<1>4. \A d \in lost' : Behind(d, "append")'
  <2>1. SUFFICES ASSUME NEW d \in lost', d \notin lost PROVE Behind(d, "append")'
    BY <1>2 DEF Followed, Typed
  <2>2. lost' \subseteq Calls
    BY TypedStep DEF Typed
  <2>3. d = c /\ (SequenceFails(c) \/ (At(c, "append") /\ Advance(c)))
    BY <2>1, <2>2, Marks
  <2>4. Moves(c)
    BY <2>3, <1>1, StartsBegins DEF SequenceFails, At, Running
  <2> QED BY <2>3, <2>4, Comes
\* A call whose write took effect, now or before, does not end early.
<1>5. ASSUME NEW d \in Calls, Took(d)', NEW s \in {"append", "dispatch"}, Behind(d, s)', ~Behind(d, s)
      PROVE  /\ Took(d) /\ d = c
             /\ (At(c, s) /\ Advance(c)) \/ (SequenceFails(c) /\ s = "append")
  <2>1. d = c /\ Moves(c)
        /\ (\/ At(c, s) /\ Advance(c)
            \/ SequenceFails(c) /\ s = "append"
            \/ EndsEarly(c))
    BY <1>5, Crosses
  <2>2. CASE Took(d)
    BY <2>1, <2>2, <1>3, WriteStands DEF Took
  <2>3. CASE ~Took(d)
    <3>1. At(c, "write") /\ (Insert(c) \/ Remove(c) \/ Change(c) \/ SetCell(c) \/ ClearCell(c))
      BY <1>5, <2>3, TookStep
    <3>2. ~At(c, s) /\ ~SequenceFails(c)
      BY <3>1 DEF At, SequenceFails
    <3>3. Behind(c, "write")' /\ kind[c] \in Audited
      BY <1>5, <2>1, <2>3, TookStep DEF Took
    <3>4. done[c] + 1 < Len(Stages[kind[c]])
      BY <3>1, <3>3, WriteStands
    <3>5. Advance(c)
      BY <3>1 DEF Insert, Remove, Change, SetCell, ClearCell
    <3>6. ~EndsEarly(c)
      <4>1. Running(c)
        BY <3>1 DEF At
      <4> QED BY <3>4, <3>5, <4>1, RunningIsTyped DEF EndsEarly, Advance, Return, Typed, Running, WellMade
    <3> QED BY <2>1, <3>2, <3>6
  <2> QED BY <2>2, <2>3
<1>6. ASSUME NEW d \in Calls, Took(d)', Behind(d, "append")' PROVE d \in lost' \/ HasRow(d)'
  <2>1. CASE Behind(d, "append")
    <3>1. Took(d)
      <4>1. SUFFICES ASSUME ~Took(d) PROVE FALSE
        OBVIOUS
      <4> QED BY <4>1, <1>6, <2>1, TookStep, WriteStands
    <3> QED BY <2>1, <3>1, Marks DEF Followed
  <2>2. CASE ~Behind(d, "append")
    BY <2>2, <1>5, <1>6, Marks
  <2> QED BY <2>1, <2>2
<1>7. ASSUME NEW d \in Calls, Took(d)', Behind(d, "dispatch")' PROVE Told(d)'
  <2>1. CASE Behind(d, "dispatch")
    <3>1. Took(d)
      <4>1. SUFFICES ASSUME ~Took(d) PROVE FALSE
        OBVIOUS
      <4> QED BY <4>1, <1>7, <2>1, TookStep, WriteStands
    <3> QED BY <2>1, <3>1, Tells DEF Followed
  <2>2. CASE ~Behind(d, "dispatch")
    <3>1. Took(d) /\ d = c /\ At(c, "dispatch") /\ Advance(c)
      BY <2>2, <1>5, <1>7
    <3>2. kind[c] # "setChat"
      BY <3>1 DEF Took, Audited, Creates, Deletes, Rewrites, Clears
    <3> QED BY <3>1, <3>2, Tells
  <2> QED BY <2>1, <2>2
<1>8. ASSUME NEW d \in Calls, Told(d)' PROVE Behind(d, "dispatch")' /\ (kind'[d] \in Audited => Took(d)')
  <2>1. CASE Told(d)
    <3>1. Behind(d, "dispatch") /\ (kind[d] \in Audited => Took(d)) /\ Began(d)
      BY <2>1 DEF Followed, Behind
    <3>2. kind'[d] = kind[d]
      BY <1>1, <3>1, Stays
    <3> QED BY <3>1, <3>2, <1>2, TookStep
  <2>2. CASE ~Told(d)
    <3>1. d = c /\ At(c, "dispatch") /\ Advance(c)
      BY <2>2, <1>8, Tells
    <3>2. Moves(c) /\ Running(c)
      BY <3>1, <1>1, StartsBegins DEF At, Running
    <3>3. Behind(c, "dispatch")' /\ kind'[c] = kind[c]
      BY <3>1, <3>2, Comes DEF Moves
    <3>4. kind[c] \in Audited => Took(c)
      BY <3>1, <3>2, WriteStands DEF Took
    <3> QED BY <3>1, <3>3, <3>4, TookStep
  <2> QED BY <2>1, <2>2
<1>9. \A r \in Rows' : r.type = RowType(r.of)'
  <2>1. ASSUME NEW d \in Calls, Began(d), Behind(d, "append") \/ (d = c /\ At(c, "append"))
        PROVE  RowType(d)' = RowType(d)
    <3>1. kind'[d] = kind[d]
      BY <1>1, <2>1, Stays
    <3>2. prior'[d] = prior[d]
      <4>1. SUFFICES ASSUME prior'[d] # prior[d] PROVE FALSE
        OBVIOUS
      <4>2. d = c /\ done[c] = 0 /\ (Snapshot(c) \/ ReadKey(c))
        BY <4>1, PriorChanges
      <4>3. At(c, "look")
        BY <4>2 DEF Snapshot, ReadKey
      <4>4. ~At(c, "append")
        BY <4>3 DEF At
      <4> QED BY <4>2, <4>4, <2>1 DEF Behind
    <3> QED BY <3>1, <3>2 DEF RowType
  <2>2. \A r \in Rows : r.type = RowType(r.of) /\ r.of \in Calls /\ Behind(r.of, "append")
    BY DEF Followed, OwnRows, Typed
  <2>3. \A r \in Rows : r.type = RowType(r.of)'
    BY <2>1, <2>2 DEF Behind
  <2>4. Row(c).of = c /\ Row(c).type = RowType(c)
    BY DEF Row
  <2>5. At(c, "append") /\ Began(c) => RowType(c)' = RowType(c)
    BY <2>1
  <2>6. Rows' = Rows \/ (Rows' = Rows \cup {Row(c)} /\ At(c, "append") /\ Began(c))
    BY RowsGrow
  <2> QED BY <2>3, <2>4, <2>5, <2>6
<1> QED BY <1>4, <1>6, <1>7, <1>8, <1>9 DEF Followed

\* Who is told was at its dispatch, and nobody is told before one who had returned.
LEMMA HeardInOrderStep ==
  ASSUME Typed, Placed, Past, Followed, HeardInOrder, NEW c \in Calls, CallStep(c)
  PROVE  HeardInOrder'
<1>1. Starts(c) \/ Moves(c)
  BY StepMoves
<1>2. heard \in Seq(Calls) /\ Len(heard) \in Nat
  BY DEF Typed
<1>3. \A i \in 1..Len(heard) : heard[i] \in Calls /\ before'[heard[i]] = before[heard[i]]
  <2> SUFFICES ASSUME NEW i \in 1..Len(heard)
               PROVE  heard[i] \in Calls /\ before'[heard[i]] = before[heard[i]]
    OBVIOUS
  <2>1. heard[i] \in Calls /\ Told(heard[i])
    BY <1>2 DEF Told
  <2>2. Began(heard[i])
    BY <2>1 DEF Followed, Behind
  <2> QED BY <1>1, <2>1, <2>2, Stays
<1>4. CASE heard' = heard
  BY <1>3, <1>4 DEF HeardInOrder
<1>5. CASE heard' = Append(heard, c) /\ Running(c)
  <2>1. /\ Len(heard') = Len(heard) + 1 /\ heard'[Len(heard) + 1] = c
        /\ \A i \in 1..Len(heard) : heard'[i] = heard[i]
    BY <1>2, <1>5
  <2>2. SUFFICES ASSUME NEW i \in 1..Len(heard'), NEW j \in 1..Len(heard'), i < j
                 PROVE  heard'[j] \notin before'[heard'[i]]
    BY DEF HeardInOrder
  <2>3. i \in 1..Len(heard) /\ (j \in 1..Len(heard) \/ j = Len(heard) + 1)
    BY <2>1, <2>2, <1>2
  <2>4. before'[heard'[i]] = before[heard[i]] /\ heard[i] \in Calls
    BY <1>3, <2>1, <2>3
  <2>5. CASE j \in 1..Len(heard)
    BY <2>1, <2>2, <2>3, <2>4, <2>5 DEF HeardInOrder
  <2>6. CASE j = Len(heard) + 1
    BY <1>5, <2>1, <2>4, <2>6 DEF Past, Returned
  <2> QED BY <2>3, <2>5, <2>6
<1> QED BY <1>4, <1>5, Tells

LEMMA AimedStep ==
  ASSUME Typed, Placed, Past, Aimed, NEW c \in Calls, CallStep(c)
  PROVE  Aimed'
<1>1. Starts(c) \/ Moves(c)
  BY StepMoves
<1>2. CASE Moves(c)
  BY <1>2 DEF Moves, Aimed
<1>3. CASE Starts(c)
  <2>1. PICK k \in Kinds, t \in Things : Begin(c, k, t)
    BY <1>3 DEF Starts
  <2>2. /\ ~Began(c) /\ t \in Targets(c, k) /\ kind'[c] = k /\ on'[c] = t /\ before'[c] = Returned
        /\ \A d \in Calls \ {c} : UNCHANGED <<kind[d], on[d], before[d]>>
    BY <2>1, <1>3, StartsBegins DEF Begin, Typed
  <2>3. \A d \in Calls : Began(d) => d # c
    BY <2>2
  <2>4. k \in Creates => t = c
    BY <2>2 DEF Targets, Creates
  <2>5. k = "deleteAlert" => t \in Calls /\ kind[t] \in Alerts /\ t # c
    BY <2>2 DEF Targets, Creates, Alerts, Began
  <2>6. k \in {"deleteList", "changeList"} => t \in Calls /\ kind[t] = "createList" /\ t # c
    BY <2>2 DEF Targets, Creates, Began
  <2>7. ASSUME NEW d \in Calls, Began(d) PROVE on[d] # c
    <3>1. kind[d] \in Uses /\ d # c
      BY <2>3, <2>7, RunningIsTyped
    <3>2. \/ kind[d] \in Creates \/ kind[d] \in {"deleteAlert", "deleteList", "changeList"}
          \/ kind[d] \in {"update", "invalidate"} \cup Clears \cup Logins \/ kind[d] = "setChat"
      BY <3>1 DEF Uses, Creates, Clears, Logins
    <3>3. kind[d] \in {"update", "invalidate"} \cup Clears \cup Logins \/ kind[d] = "setChat" => on[d] \in Cells
      BY DEF Placed, Cells
    <3>4. kind[c] \notin Alerts /\ kind[c] # "createList"
      BY <2>2 DEF Began, Alerts
    <3> QED BY <3>1, <3>2, <3>3, <3>4, StreamsAssumption DEF Aimed
  <2>8. ASSUME NEW d \in Calls \ {c}
        PROVE  /\ kind'[d] \in Creates => on'[d] = d
               /\ kind'[d] = "deleteAlert" => on'[d] \in Calls /\ kind'[on'[d]] \in Alerts
               /\ kind'[d] \in {"deleteList", "changeList"} =>
                    on'[d] \in Calls /\ kind'[on'[d]] = "createList"
               /\ \A e \in before'[d] : on'[e] # d
    <3>1. UNCHANGED <<kind[d], on[d], before[d]>>
      BY <2>2, <2>8
    <3>2. kind[c] \notin Alerts /\ kind[c] # "createList"
      BY <2>2 DEF Began, Alerts
    <3>3. \A e \in before[d] : e \in Calls /\ e # c
      BY <2>2 DEF Past, Returned
    <3> QED BY <2>2, <3>1, <3>2, <3>3 DEF Aimed
  <2>9. \A e \in before'[c] : on'[e] # c
    BY <2>2, <2>7 DEF Returned
  <2>10. \A d \in Calls : kind[d] \in Alerts \cup {"createList"} => kind'[d] = kind[d]
    BY <2>2 DEF Began, Alerts
  <2> QED BY <2>2, <2>4, <2>5, <2>6, <2>8, <2>9, <2>10 DEF Aimed
<1> QED BY <1>1, <1>2, <1>3

\* A store that takes the write of an audited call makes it one that took effect.
LEMMA Takes ==
  ASSUME Typed, Placed, Past, NEW c \in Calls, CallStep(c),
         kind[c] \in Audited, At(c, "write"), Advance(c)
  PROVE  Took(c)' /\ ~Took(c) /\ Running(c) /\ Moves(c)
<1>1. Running(c) /\ Began(c)
  BY DEF At, Running
<1>2. Moves(c)
  BY <1>1, StepMoves, StartsBegins
<1>3. Behind(c, "write")' /\ kind'[c] = kind[c]
  BY <1>2, Comes DEF Moves
<1>4. done[c] + 1 < Len(Stages[kind[c]]) /\ ~Behind(c, "write")
  BY WriteStands
<1>5. Running(c)'
  BY <1>1, <1>3, <1>4 DEF Running, Began, Advance, Typed
<1> QED BY <1>1, <1>2, <1>3, <1>4, <1>5 DEF Took

LEMMA MadeOrGoneStep ==
  ASSUME Typed, Placed, Past, OwnRows, Bounded, Followed, MadeOrGone, NEW c \in Calls, CallStep(c)
  PROVE  MadeOrGone'
<1>1. Starts(c) \/ Moves(c)
  BY StepMoves
<1>2. \A d \in Calls : Running(c) => c \notin before[d]
  BY DEF Past, Returned
<1>3. Insert(c) => Took(c)' /\ alive' = alive \cup {c}
  BY Takes DEF Insert, Audited
<1>4. Remove(c) => Took(c)' /\ kind'[c] = kind[c] /\ on'[c] = on[c] /\ kind[c] \in Deletes
                   /\ alive' = alive \ {on[c]}
  BY Takes DEF Remove, Audited, Deletes
<1>5. SweepAlerts(c) \/ SweepLists(c) => kind[c] = "deleteAccount" /\ Running(c)
  <2>1. SUFFICES ASSUME At(c, "alerts") \/ At(c, "lists") PROVE kind[c] = "deleteAccount" /\ Running(c)
    BY DEF SweepAlerts, SweepLists
  <2>2. Running(c) /\ Began(c)
    BY <2>1 DEF At, Running
  <2>3. kind[c] \in Uses /\ done[c] + 1 \in 1..Len(Stages[kind[c]])
    BY <2>2, RunningIsTyped DEF Running, WellMade
  <2> QED BY <2>1, <2>2, <2>3, SweepsAndEvents DEF At
<1>6. \A d \in alive' : Took(d)'
  <2>1. alive' \subseteq alive \/ Insert(c)
    BY Frames DEF Remove, SweepAlerts, SweepLists
  <2> QED BY <2>1, <1>3, TookStep DEF MadeOrGone, Typed
<1>7. ASSUME NEW d \in Calls, Took(d)', kind'[d] \in Creates
      PROVE  \/ d \in alive'
             \/ \E e \in Calls : Took(e)' /\ kind'[e] \in Deletes /\ on'[e] = d
             \/ \E e \in Calls : kind'[e] = "deleteAccount" /\ e \notin before'[d]
  <2>1. CASE ~Took(d)
    <3>1. d = c /\ kind[c] \in Creates /\ (Insert(c) \/ Remove(c) \/ Change(c) \/ SetCell(c) \/ ClearCell(c))
      BY <2>1, <1>7, TookStep DEF Moves
    <3>2. Insert(c)
      BY <3>1 DEF Creates, Remove, Change, SetCell, ClearCell, Sets, Clears
    <3> QED BY <3>1, <3>2, <1>3
  <2>2. CASE Took(d)
    <3>1. UNCHANGED <<kind[d], before[d]>>
      BY <2>2, TookStep
    <3>2. \A e \in Calls : kind[e] = "deleteAccount" => kind'[e] = kind[e]
      BY <1>1, Stays DEF Began
    <3>3. CASE d \in alive
      <4>1. \/ d \in alive' \/ (Remove(c) /\ d = on[c]) \/ SweepAlerts(c) \/ SweepLists(c)
        BY <3>3, Frames DEF Insert, Remove
      <4> QED BY <4>1, <3>1, <3>2, <1>2, <1>4, <1>5
    <3>4. CASE \E e \in Calls : Took(e) /\ kind[e] \in Deletes /\ on[e] = d
      BY <3>4, TookStep
    <3>5. CASE \E e \in Calls : kind[e] = "deleteAccount" /\ e \notin before[d]
      BY <3>1, <3>2, <3>5
    <3> QED BY <1>7, <2>2, <3>1, <3>3, <3>4, <3>5 DEF MadeOrGone
  <2> QED BY <2>1, <2>2
<1> QED BY <1>6, <1>7 DEF MadeOrGone

LEMMA GoneForGoodStep ==
  ASSUME Typed, Placed, Past, OwnRows, Bounded, Followed, Aimed, MadeOrGone, GoneForGood,
         NEW c \in Calls, CallStep(c)
  PROVE  GoneForGood'
<1>1. Starts(c) \/ Moves(c)
  BY StepMoves
<1>2. \A d \in Calls : Running(c) => c \notin before[d]
  BY DEF Past, Returned
<1>3. alive' \subseteq alive \cup {c} /\ (c \in alive' /\ c \notin alive => Insert(c))
  BY Frames DEF Insert, Remove, SweepAlerts, SweepLists
<1>4. Insert(c) => ~Took(c)
  BY Takes DEF Insert, Audited
<1>5. \A d \in alive : Took(d)
  BY DEF MadeOrGone
<1>6. ASSUME NEW d \in Calls, Took(d), kind[d] \in Deletes \cup {"changeList"}
      PROVE  /\ UNCHANGED <<kind[d], on[d], before[d]>>
             /\ kind[d] \in Deletes => on[d] \notin alive'
             /\ Took(on[d])'
             /\ kind[d] = "changeList" =>
                  \A e \in before[d] : on'[e] = on[d] /\ kind'[e] \in Deletes => ~Took(e)'
  <2>1. UNCHANGED <<kind[d], on[d], before[d]>>
    BY <1>6, TookStep
  <2>2. Took(on[d]) /\ (kind[d] \in Deletes => on[d] \notin alive)
    BY <1>6 DEF GoneForGood
  <2>3. on[d] \in Calls
    BY <1>6 DEF Aimed, Deletes
  <2>4. Took(on[d])'
    BY <2>1, <2>2, <2>3, TookStep
  <2>5. kind[d] \in Deletes => on[d] \notin alive'
    BY <2>2, <1>3, <1>4
  <2>6. ASSUME kind[d] = "changeList", NEW e \in before[d], on'[e] = on[d], kind'[e] \in Deletes
        PROVE  ~Took(e)'
    <3>1. e \in Calls /\ e \in Returned /\ Began(e)
      BY <2>6 DEF Past, Typed, Returned
    <3>2. UNCHANGED <<kind[e], on[e]>>
      BY <3>1, <1>1, Stays
    <3>3. ~Took(e)
      BY <1>6, <2>6, <3>2 DEF GoneForGood
    <3> QED BY <3>1, <3>3, TookStep DEF Returned, At
  <2> QED BY <2>1, <2>4, <2>5, <2>6
<1>7. ASSUME NEW d \in Calls, Took(d)', ~Took(d), kind'[d] \in Deletes \cup {"changeList"}
      PROVE  /\ kind'[d] \in Deletes => on'[d] \notin alive'
             /\ Took(on[d])'
             /\ kind'[d] = "changeList" =>
                  \A e \in before'[d] : on'[e] = on'[d] /\ kind'[e] \in Deletes => ~Took(e)'
  <2>1. d = c /\ Moves(c) /\ Running(c)
        /\ (Insert(c) \/ Remove(c) \/ Change(c) \/ SetCell(c) \/ ClearCell(c))
    BY <1>7, TookStep DEF At
  <2>2. UNCHANGED <<kind, on, before>>
    BY <2>1 DEF Moves
  <2>3. Remove(c) \/ Change(c)
    BY <1>7, <2>1, <2>2 DEF Deletes, Insert, SetCell, ClearCell, Creates, Sets, Clears
  <2>4. /\ on[c] \in alive /\ on[c] \in Calls
        /\ kind[c] \in Deletes => alive' = alive \ {on[c]}
    BY <2>3 DEF Remove, Change, Deletes, Typed
  <2>5. Took(on[c]) /\ Took(on[c])'
    BY <2>2, <2>4, <1>5, TookStep
  <2>6. ASSUME NEW e \in before[c], on[e] = on[c], kind[e] \in Deletes PROVE ~Took(e)'
    <3>1. e \in Calls /\ e # c
      BY <2>1, <2>6 DEF Past, Returned
    <3>2. ~Took(e)
      BY <2>4, <2>6, <3>1 DEF GoneForGood
    <3> QED BY <3>1, <3>2, TookStep
  <2> QED BY <2>1, <2>2, <2>4, <2>5, <2>6
<1>8. ASSUME NEW d \in Calls, Took(d)' PROVE Took(d) => kind'[d] = kind[d]
  BY TookStep
<1> QED BY <1>6, <1>7, <1>8 DEF GoneForGood

LEMMA LastWriteStep ==
  ASSUME Typed, Placed, Past, OwnRows, Bounded, Followed, LastWriteStands,
         NEW c \in Calls, CallStep(c)
  PROVE  LastWriteStands'
<1> DEFINE x == cell["credential"]
<1>1. Starts(c) \/ Moves(c)
  BY StepMoves
<1>2. x \in Calls \cup {NoCall} /\ NoCall \notin Calls
  BY StreamsAssumption DEF Typed, Cells
<1>3. CASE SetCell(c) /\ kind[c] = "update"
  <2>1. Took(c)' /\ Running(c) /\ Moves(c)
    BY <1>3, Takes DEF SetCell, Audited, Rewrites
  <2>2. x' = c /\ c # NoCall /\ UNCHANGED <<kind, before>>
    BY <1>2, <1>3, <2>1 DEF SetCell, Placed, Typed, Cells, Moves
  <2>3. \A d \in Calls : c \notin before[d]
    BY <2>1 DEF Past, Returned
  <2> QED BY <1>3, <2>1, <2>2, <2>3 DEF LastWriteStands
<1>4. CASE ClearCell(c)
  <2>1. Took(c)' /\ Running(c) /\ Moves(c) /\ kind[c] \in Clears
    BY <1>4, Takes DEF ClearCell, Audited, Rewrites
  <2>2. x' = NoCall /\ UNCHANGED <<kind, before>>
    BY <1>4, <2>1 DEF ClearCell, Typed, Cells, Moves
  <2>3. \A d \in Calls : c \notin before[d]
    BY <2>1 DEF Past, Returned
  <2> QED BY <2>1, <2>2, <2>3 DEF LastWriteStands
<1>5. CASE StoreKeys(c)
  <2>1. Running(c)
    BY <1>5 DEF StoreKeys, At
  <2>2. x' = c /\ c # NoCall /\ Moves(c)
    BY <1>1, <1>2, <1>5, <2>1, StartsBegins DEF StoreKeys, Typed, Cells, Running
  <2>3. UNCHANGED <<kind, before>>
    BY <2>2 DEF Moves
  <2>4. kind[c] = "loginOwn"
    <3>1. Began(c) /\ done[c] < Len(Stages[kind[c]]) /\ Stages[kind[c]][done[c] + 1] = "store"
      BY <1>5, <2>1 DEF StoreKeys, At, Running
    <3>2. kind[c] \in Uses /\ done[c] + 1 \in 1..Len(Stages[kind[c]])
      BY <3>1, RunningIsTyped DEF WellMade
    <3> QED BY <3>1, <3>2, LooksAndWrites
  <2>5. \A d \in Calls : c \notin before[d]
    BY <2>1 DEF Past, Returned
  <2> QED BY <2>2, <2>3, <2>4, <2>5 DEF LastWriteStands
<1>6. CASE ~(SetCell(c) /\ kind[c] = "update") /\ ~ClearCell(c) /\ ~StoreKeys(c)
  <2>1. x' = x
    <3>1. CASE UNCHANGED cell
      BY <3>1
    <3>2. CASE SetCell(c)
      <4>1. kind[c] = "setChat"
        BY <3>2, <1>6 DEF SetCell, Sets
      <4>2. on[c] = "chat" /\ "credential" \in Cells
        BY <4>1 DEF Placed, Cells
      <4> QED BY <3>2, <4>2 DEF SetCell, Typed
    <3> QED BY <3>1, <3>2, <1>6, Frames
  <2>2. ASSUME NEW d \in Calls, Took(d)', kind'[d] \in Rewrites PROVE Took(d)
    <3>1. SUFFICES ASSUME ~Took(d) PROVE FALSE
      OBVIOUS
    <3>2. d = c /\ kind'[c] = kind[c]
          /\ (Insert(c) \/ Remove(c) \/ Change(c) \/ SetCell(c) \/ ClearCell(c))
      BY <3>1, <2>2, TookStep DEF Moves
    <3> QED BY <3>2, <2>2, <1>6 DEF Rewrites, Clears, Insert, Remove, Change, SetCell, Creates, Sets
  <2>3. \A d \in Calls : Took(d) => Took(d)' /\ UNCHANGED <<kind[d], before[d]>>
    BY TookStep
  <2>4. \A d \in Calls : kind[d] \in {"update", "loginOwn"} => kind'[d] = kind[d]
    BY <1>1, Stays DEF Began
  <2>5. CASE x # NoCall
    BY <1>2, <2>1, <2>2, <2>3, <2>4, <2>5 DEF LastWriteStands
  <2>6. CASE x = NoCall
    <3>1. SUFFICES ASSUME NEW d \in Calls, Took(d)', kind'[d] = "update"
                   PROVE  \E e \in Calls : Took(e)' /\ kind'[e] \in Clears /\ e \notin before'[d]
      BY <2>1, <2>6 DEF LastWriteStands
    <3>2. Took(d) /\ kind[d] = "update" /\ before'[d] = before[d]
      BY <2>2, <2>3, <3>1 DEF Rewrites
    <3> QED BY <2>3, <2>6, <3>2 DEF LastWriteStands
  <2> QED BY <2>5, <2>6
<1> QED BY <1>3, <1>4, <1>5, <1>6

-----------------------------------------------------------------------------

LEMMA StoriesInit == Init => StoriesInv
<1> SUFFICES ASSUME Init PROVE StoriesInv
  OBVIOUS
<1>1. /\ Rows = {} /\ alive = {} /\ lost = {} /\ Len(heard) = 0 /\ cell["credential"] = NoCall
      /\ \A c \in Calls : kind[c] = "none" /\ before[c] = {}
  BY DEF Init, Rows, Cells
<1>2. \A c \in Calls : ~Took(c) /\ ~Told(c)
  BY <1>1 DEF Took, Told, Behind, Began
<1>3. Followed /\ HeardInOrder
  BY <1>1, <1>2 DEF Followed, HeardInOrder
<1>4. Aimed
  BY <1>1 DEF Aimed, Creates
<1>5. MadeOrGone /\ GoneForGood /\ LastWriteStands
  BY <1>1, <1>2 DEF MadeOrGone, GoneForGood, LastWriteStands
<1> QED BY <1>3, <1>4, <1>5 DEF StoriesInv

LEMMA StoriesKept ==
  ASSUME StoriesInv, Rows' = Rows, UNCHANGED <<callVars, storeVars, heard, history>>
  PROVE  StoriesInv'
<1>1. /\ UNCHANGED <<done, kind, on, arg, prior, seq, direct>> /\ UNCHANGED <<alive, cell, token>>
      /\ UNCHANGED <<before, replaced, lost, heard>>
  BY DEF callVars, storeVars, history
<1>2. /\ \A c \in Calls : (HasRow(c)' <=> HasRow(c)) /\ (Told(c)' <=> Told(c))
                          /\ (Running(c)' <=> Running(c))
      /\ \A c : \A stage : Behind(c, stage)' <=> Behind(c, stage)
      /\ \A c : RowType(c)' = RowType(c)
  BY <1>1 DEF HasRow, Told, Running, Began, Behind, RowType
<1>3. \A c : Took(c)' <=> Took(c)
  BY <1>1 DEF Took, HasRow, Running, Began, Behind
<1>4. Followed'
  BY <1>1, <1>2, <1>3 DEF StoriesInv, Followed
<1>5. HeardInOrder' /\ Aimed'
  BY <1>1 DEF StoriesInv, HeardInOrder, Aimed
<1>6. MadeOrGone' /\ LastWriteStands'
  BY <1>1, <1>3 DEF StoriesInv, MadeOrGone, LastWriteStands
<1>7. GoneForGood'
  BY <1>1, <1>3 DEF StoriesInv, GoneForGood
<1> QED BY <1>4, <1>5, <1>6, <1>7 DEF StoriesInv

LEMMA StoriesStep == StreamsInv /\ StoriesInv /\ [Next]_vars => StoriesInv'
<1> SUFFICES ASSUME StreamsInv, StoriesInv, [Next]_vars PROVE StoriesInv'
  OBVIOUS
<1>1. ASSUME NEW c \in Calls, CallStep(c) PROVE StoriesInv'
  <2>1. /\ Typed /\ Placed /\ Past /\ OwnRows /\ Bounded
        /\ Followed /\ HeardInOrder /\ Aimed /\ MadeOrGone /\ GoneForGood /\ LastWriteStands
    BY DEF StreamsInv, RowsInv, StoriesInv
  <2>2. Followed' /\ HeardInOrder' /\ Aimed'
    BY <1>1, <2>1, FollowedStep, HeardInOrderStep, AimedStep
  <2>3. MadeOrGone' /\ GoneForGood' /\ LastWriteStands'
    BY <1>1, <2>1, MadeOrGoneStep, GoneForGoodStep, LastWriteStep
  <2> QED BY <2>2, <2>3 DEF StoriesInv
<1>2. ASSUME NEW r \in outbox, Pump(r) PROVE StoriesInv'
  <2>1. Rows' = Rows /\ UNCHANGED <<callVars, storeVars, heard, history>>
    BY <1>2 DEF Pump, Rows
  <2> QED BY <2>1, StoriesKept
<1>3. CASE UNCHANGED vars
  <2>1. Rows' = Rows /\ UNCHANGED <<callVars, storeVars, heard, history>>
    BY <1>3 DEF vars, Rows, rowVars
  <2> QED BY <2>1, StoriesKept
<1> QED BY <1>1, <1>2, <1>3 DEF Next

THEOREM StoriesInvariant == Spec => [](StreamsInv /\ StoriesInv)
BY InvInit, InvStep, StoriesInit, StoriesStep, PTL DEF Spec

-----------------------------------------------------------------------------
(* What the events and the stream of a thing tell, once it is quiet.       *)

LEMMA RowTypes ==
  \A c \in Calls : /\ RowType(c) = "deleted" <=> kind[c] \in Deletes
                   /\ RowType(c) = "revoked" <=> kind[c] \in Clears
BY DEF RowType, Deletes, Clears, Creates

LEMMA AppendersAreAudited ==
  \A k \in Uses : \A i \in 1..Len(Stages[k]) : Stages[k][i] = "append" => k \in Audited
<1>1. Uses \ Audited = {"invalidate", "setChat", "login", "loginOwn"}
  BY DEF Uses, Audited, Creates, Deletes, Rewrites, Clears
<1>2. \A k \in {"invalidate", "setChat", "login", "loginOwn"} :
        \A i \in 1..Len(Stages[k]) : Stages[k][i] # "append"
  BY DEF Stages, InvalidateToken, SetupTelegram, Login, LoginOwnKeys
<1> QED BY <1>1, <1>2

\* A call with a row has taken effect.
LEMMA RowsTook ==
  ASSUME Typed, OwnRows, NEW r \in Rows
  PROVE  r.of \in Calls /\ Began(r.of) /\ Took(r.of)
<1> DEFINE c == r.of
<1> DEFINE p == Stages[kind[c]]
<1>1. c \in Calls /\ Behind(c, "append") /\ HasRow(c)
  BY DEF OwnRows, Typed, HasRow
<1>2. PICK i \in 1..done[c] : i <= Len(p) /\ p[i] = "append"
  BY <1>1 DEF Behind
<1>3. Began(c) /\ kind[c] \in Uses /\ done[c] \in Nat /\ Len(p) \in Nat
  BY <1>1, RunningIsTyped DEF Behind, WellMade
<1>4. i \in 1..Len(p)
  BY <1>2, <1>3
<1>5. kind[c] \in Audited
  BY <1>2, <1>3, <1>4, AppendersAreAudited
<1>6. Behind(c, "write")
  BY <1>1, <1>5, WriteStands
<1> QED BY <1>1, <1>3, <1>5, <1>6 DEF Took

\* A creation or deletion that took effect and returned has been told.
LEMMA ReturnedIsTold ==
  ASSUME Typed, Followed, NEW c \in Calls, Took(c), ~Running(c),
         kind[c] \in {"createAlert", "createList"} \cup Deletes
  PROVE  Told(c)
<1> DEFINE p == Stages[kind[c]]
<1>1. Began(c) /\ done[c] \in Nat /\ ~(done[c] < Len(p))
  BY RunningIsTyped DEF Took, Behind, Running
<1>2. \E i \in 1..Len(p) : Len(p) \in Nat /\ p[i] = "dispatch"
  BY SweepsAndEvents DEF Deletes
<1>3. PICK i \in 1..Len(p) : Len(p) \in Nat /\ p[i] = "dispatch"
  BY <1>2
<1> HIDE DEF p
<1>4. i \in 1..done[c] /\ i <= Len(p)
  BY <1>1, <1>3
<1>5. Behind(c, "dispatch")
  BY <1>1, <1>3, <1>4 DEF Behind, p
<1> QED BY <1>5 DEF Followed

\* When the calls on an alert or a list came one after the other and none is
\* under way, whoever follows the events knows whether it is there.
THEOREM EventsAreTrue == Spec => []EventsTellStore
<1>1. StreamsInv /\ StoriesInv => EventsTellStore
  <2> SUFFICES ASSUME StreamsInv, StoriesInv,
                      NEW t \in Calls, Quiet(t), Serial(t), OpenlyKept(t),
                      kind[t] \in {"createAlert", "createList"}
               PROVE  t \in alive <=> \E i \in 1..Len(heard) :
                        /\ heard[i] = t
                        /\ \A j \in i..Len(heard) : on[heard[j]] = t => RowType(heard[j]) # "deleted"
    BY DEF EventsTellStore
  <2>1. /\ Typed /\ Placed /\ Past /\ OwnRows /\ Followed /\ HeardInOrder /\ Aimed
        /\ MadeOrGone /\ GoneForGood
    BY DEF StreamsInv, RowsInv, StoriesInv
  <2>2. heard \in Seq(Calls) /\ Len(heard) \in Nat
    BY <2>1 DEF Typed
  <2>3. kind[t] \in Creates /\ kind[t] \in Audited /\ on[t] = t /\ Began(t) /\ t \in CallsOn(t)
    BY <2>1 DEF Creates, Audited, Aimed, Began, CallsOn
  <2>4. ASSUME t \in alive
        PROVE  \E i \in 1..Len(heard) :
                 /\ heard[i] = t
                 /\ \A j \in i..Len(heard) : on[heard[j]] = t => RowType(heard[j]) # "deleted"
    <3>1. Told(t)
      BY <2>1, <2>3, <2>4, ReturnedIsTold DEF MadeOrGone, Quiet
    <3>2. PICK i \in 1..Len(heard) : heard[i] = t
      BY <3>1 DEF Told
    <3>3. ASSUME NEW j \in i..Len(heard), on[heard[j]] = t, RowType(heard[j]) = "deleted" PROVE FALSE
      <4>1. j \in 1..Len(heard)
        BY <2>2, <3>2, <3>3
      <4>2. heard[j] \in Calls /\ Told(heard[j])
        BY <2>2, <4>1 DEF Told
      <4>3. kind[heard[j]] \in Deletes /\ kind[heard[j]] \in Audited
        BY <3>3, <4>2, RowTypes DEF Audited
      <4>4. Took(heard[j])
        BY <2>1, <4>2, <4>3 DEF Followed
      <4> QED BY <2>1, <2>4, <3>3, <4>2, <4>3, <4>4 DEF GoneForGood
    <3> QED BY <3>2, <3>3
  <2>5. ASSUME NEW i \in 1..Len(heard), heard[i] = t,
               \A j \in i..Len(heard) : on[heard[j]] = t => RowType(heard[j]) # "deleted"
        PROVE  t \in alive
    <3>1. Took(t)
      BY <2>1, <2>3, <2>5 DEF Told, Followed
    <3>2. ASSUME NEW d \in Calls, Took(d), kind[d] \in Deletes, on[d] = t PROVE FALSE
      <4>1. Began(d) /\ d \in CallsOn(t)
        BY <3>2 DEF Took, Behind, CallsOn
      <4>2. Told(d)
        BY <2>1, <3>2, <4>1, ReturnedIsTold DEF Quiet
      <4>3. PICK j \in 1..Len(heard) : heard[j] = d
        BY <4>2 DEF Told
      <4>4. d # t
        BY <2>3, <3>2 DEF Creates, Deletes
      <4>5. t \in before[d]
        <5>1. d \notin before[t]
          BY <2>1, <3>2 DEF Aimed
        <5> QED BY <2>3, <4>1, <4>4, <5>1 DEF Serial, Overlap
      <4>6. ~(j < i)
        BY <2>1, <2>5, <4>3, <4>5 DEF HeardInOrder
      <4>7. j \in i..Len(heard)
        BY <2>2, <4>6
      <4>8. RowType(d) = "deleted"
        BY <3>2, RowTypes
      <4> QED BY <2>5, <3>2, <4>3, <4>7, <4>8
    <3>3. \A d \in Calls : kind[d] = "deleteAccount" => d \in before[t]
      BY DEF OpenlyKept
    <3> QED BY <2>1, <2>3, <3>1, <3>2, <3>3 DEF MadeOrGone
  <2> QED BY <2>4, <2>5
<1> QED BY <1>1, StoriesInvariant, PTL

\* A call with the last row of a thing.
LEMMA LastRow ==
  ASSUME Typed, Bounded, NEW t, NEW r0 \in RowsOn(t, Rows)
  PROVE  \E r \in RowsOn(t, Rows) : \A s \in RowsOn(t, Rows) : s.seq <= r.seq
<1> DEFINE T == {r.seq : r \in RowsOn(t, Rows)}
<1>1. T \in SUBSET Nat /\ T # {}
  <2>1. \A r \in RowsOn(t, Rows) : r.seq \in Nat
    BY DEF Typed, RowsOn
  <2>2. r0.seq \in T
    OBVIOUS
  <2> QED BY <2>1, <2>2
<1>2. PICK b \in Nat : \A r \in Rows : r.seq <= b
  BY DEF Bounded
<1>3. \A x \in T : x <= b
  BY <1>2 DEF RowsOn
<1>4. Max(T) \in T /\ \A x \in T : x <= Max(T)
  BY <1>1, <1>2, <1>3, MaxIsGreatest
<1>5. \A s \in RowsOn(t, Rows) : s.seq \in T
  OBVIOUS
<1>6. PICK r \in RowsOn(t, Rows) : r.seq = Max(T)
  BY <1>4
<1> HIDE DEF T
<1> QED BY <1>4, <1>5, <1>6

\* When the calls on an alert, a list or the credentials came one after the
\* other, none is under way and no row was lost, whoever replays the stream
\* knows whether the store has the thing.
THEOREM StreamsAreTrue == Spec => []StreamTellsStore
<1>1. StreamsInv /\ StoriesInv => StreamTellsStore
  <2> SUFFICES ASSUME StreamsInv, StoriesInv, NEW t \in Calls \cup {"credential"},
                      Quiet(t), Serial(t), OpenlyKept(t), CallsOn(t) \cap lost = {}
               PROVE  Replayed(t) <=> Stored(t)
    BY DEF StreamTellsStore
  <2>1. /\ Typed /\ Placed /\ Past /\ OwnRows /\ Bounded /\ NumbersInOrder /\ Followed /\ Aimed
        /\ MadeOrGone /\ GoneForGood /\ LastWriteStands
    BY DEF StreamsInv, RowsInv, StoriesInv
  <2> DEFINE mine == RowsOn(t, Rows)
  <2>2. Replayed(t) <=> \E r \in mine : r.type \notin Gone /\ \A s \in mine : s.seq <= r.seq
    BY DEF Replayed, Rows
  \* What took effect on the thing has its row, and the rows are of such calls.
  <2>3. \A c \in Calls : Took(c) /\ on[c] = t => c \in CallsOn(t) /\ \E r \in mine : r.of = c
    <3> SUFFICES ASSUME NEW c \in Calls, Took(c), on[c] = t
                 PROVE  c \in CallsOn(t) /\ \E r \in mine : r.of = c
      OBVIOUS
    <3>1. c \in CallsOn(t) /\ kind[c] \in Audited
      BY DEF Took, Behind, CallsOn
    <3>2. Behind(c, "append")
      BY <2>1, <3>1, WriteStands DEF Quiet
    <3>3. HasRow(c)
      BY <2>1, <3>1, <3>2 DEF Followed
    <3> QED BY <3>1, <3>3 DEF HasRow, RowsOn
  <2>4. \A r \in mine : /\ r \in Rows /\ r.of \in Calls /\ r.of \in CallsOn(t) /\ Took(r.of)
                        /\ r.type = RowType(r.of) /\ on[r.of] = t /\ r.seq \in Nat
    BY <2>1, RowsTook DEF RowsOn, CallsOn, Followed, Typed
  <2>5. \A r, s \in mine : \/ r = s
                           \/ r.of \in before[s.of] /\ r.seq < s.seq
                           \/ s.of \in before[r.of] /\ s.seq < r.seq
    <3> SUFFICES ASSUME NEW r \in mine, NEW s \in mine, r # s
                 PROVE  \/ r.of \in before[s.of] /\ r.seq < s.seq
                        \/ s.of \in before[r.of] /\ s.seq < r.seq
      OBVIOUS
    <3>1. r.of # s.of
      BY <2>1, <2>4 DEF OwnRows
    <3>2. r.of \in before[s.of] \/ s.of \in before[r.of]
      BY <2>4, <3>1 DEF Serial, Overlap, CallsOn
    <3>3. \A q \in mine : q.seq = seq[q.of] /\ q.seq # 0
      BY <2>1, <2>4 DEF OwnRows, Typed
    <3> QED BY <2>1, <2>4, <3>2, <3>3 DEF NumbersInOrder
  <2>6. \A c \in Calls : Took(c) =>
          \/ kind[c] \in Creates /\ on[c] = c
          \/ kind[c] \in Deletes \cup {"changeList"} /\ on[c] \in Calls
          \/ kind[c] \in Rewrites /\ on[c] = "credential"
    BY <2>1 DEF Took, Audited, Aimed, Placed, Deletes, Rewrites
  <2> HIDE DEF mine
  <2>7. CASE t \in Calls
    <3>1. t \notin Cells /\ "credential" \notin Calls /\ (Stored(t) <=> t \in alive)
      BY <2>7, StreamsAssumption DEF Stored, Cells
    <3>2. ASSUME t \in alive PROVE Replayed(t)
      <4>1. Took(t) /\ on[t] = t
        <5>1. Took(t)
          BY <2>1, <3>2 DEF MadeOrGone
        <5>2. kind[t] \in Creates
          BY <3>2 DEF StreamsInv, ListsInv
        <5> QED BY <2>1, <2>7, <5>1, <5>2 DEF Aimed
      <4>2. PICK r0 \in mine : TRUE
        BY <2>3, <2>7, <4>1
      <4>3. PICK r \in mine : \A s \in mine : s.seq <= r.seq
        BY <2>1, LastRow, <4>2 DEF mine
      <4>4. kind[r.of] \notin Deletes
        BY <2>1, <2>4, <3>2 DEF GoneForGood
      <4>5. kind[r.of] \notin Clears
        BY <2>1, <2>4, <2>7, <3>1 DEF Placed
      <4>6. r.type \notin Gone
        BY <2>4, <4>4, <4>5, RowTypes DEF Gone
      <4> QED BY <2>2, <4>3, <4>6
    <3>3. ASSUME NEW r \in mine, r.type \notin Gone, \A s \in mine : s.seq <= r.seq PROVE t \in alive
      <4> DEFINE c == r.of
      <4>1. c \in Calls /\ Took(c) /\ on[c] = t /\ kind[c] \notin Deletes
        BY <2>4, <3>3, RowTypes DEF Gone
      <4>2. \/ kind[c] \in Creates /\ c = t
            \/ kind[c] = "changeList"
        BY <2>6, <2>7, <3>1, <4>1
      <4>3. Took(t) /\ kind[t] \in Creates
        BY <2>1, <4>1, <4>2 DEF GoneForGood, Aimed, Creates
      <4>4. ASSUME NEW d \in Calls, Took(d), kind[d] \in Deletes, on[d] = t PROVE FALSE
        <5>1. PICK s \in mine : s.of = d
          BY <2>3, <4>4
        <5>2. s # r /\ ~(r.seq < s.seq)
          BY <2>4, <3>3, <4>1, <4>4, <5>1
        <5>3. d \in before[c]
          BY <2>5, <5>1, <5>2
        <5> QED BY <2>1, <4>1, <4>2, <4>4, <5>3 DEF Aimed, GoneForGood
      <4>5. \A d \in Calls : kind[d] = "deleteAccount" => d \in before[t]
        BY <2>7 DEF OpenlyKept
      <4> QED BY <2>1, <2>7, <4>3, <4>4, <4>5 DEF MadeOrGone
    <3> QED BY <2>2, <3>1, <3>2, <3>3
  <2>8. CASE t = "credential"
    <3> DEFINE x == cell["credential"]
    <3>1. "credential" \notin Calls /\ (Stored(t) <=> x # NoCall) /\ x \in Calls \cup {NoCall}
      BY <2>1, <2>8, StreamsAssumption DEF Stored, Cells, Typed
    <3>2. \A r \in mine : kind[r.of] \in Rewrites
      <4> SUFFICES ASSUME NEW r \in mine PROVE kind[r.of] \in Rewrites
        OBVIOUS
      <4>1. r.of \in Calls /\ Took(r.of) /\ on[r.of] = "credential"
        BY <2>4, <2>8
      <4> QED BY <2>6, <3>1, <4>1
    <3>3. ASSUME x # NoCall PROVE Replayed(t)
      <4>1. x \in Calls /\ kind[x] \in {"update", "loginOwn"} /\ (kind[x] = "update" => Took(x))
            /\ \A d \in Calls : Took(d) /\ kind[d] \in Rewrites => x \notin before[d]
        BY <2>1, <3>1, <3>3 DEF LastWriteStands
      <4>2. on[x] = "credential" /\ x \in CallsOn(t)
        BY <2>1, <2>8, <4>1 DEF Placed, Logins, CallsOn, Began
      <4>3. kind[x] = "update" /\ Took(x)
        BY <2>8, <4>1, <4>2 DEF OpenlyKept
      <4>4. PICK r \in mine : r.of = x
        BY <2>3, <2>8, <4>1, <4>2, <4>3
      <4>5. r.type \notin Gone
        BY <2>4, <4>3, <4>4, RowTypes DEF Gone, Deletes, Clears
      <4>6. \A s \in mine : s.seq <= r.seq
        BY <2>4, <2>5, <3>2, <4>1, <4>4
      <4> QED BY <2>2, <4>5, <4>6
    <3>4. ASSUME NEW r \in mine, r.type \notin Gone, \A s \in mine : s.seq <= r.seq PROVE x # NoCall
      <4>1. r.of \in Calls /\ Took(r.of) /\ kind[r.of] = "update"
        BY <2>4, <3>2, <3>4, RowTypes DEF Gone, Rewrites
      <4>2. SUFFICES ASSUME x = NoCall PROVE FALSE
        OBVIOUS
      <4>3. PICK e \in Calls : Took(e) /\ kind[e] \in Clears /\ e \notin before[r.of]
        BY <2>1, <4>1, <4>2 DEF LastWriteStands
      <4>4. on[e] = t
        BY <2>1, <2>8, <4>3 DEF Placed
      <4>5. PICK s \in mine : s.of = e
        BY <2>3, <4>3, <4>4
      <4>6. r.of # e
        BY <4>1, <4>3 DEF Clears
      <4>7. r.seq < s.seq
        BY <2>5, <4>3, <4>5, <4>6
      <4> QED BY <2>4, <3>4, <4>5, <4>7
    <3> QED BY <2>2, <3>1, <3>3, <3>4
  <2> QED BY <2>7, <2>8
<1> QED BY <1>1, StoriesInvariant, PTL

=============================================================================
