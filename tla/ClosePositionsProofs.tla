------------------------ MODULE ClosePositionsProofs ------------------------
(***************************************************************************)
(* The safety properties of ClosePositions, for any calls, any list of     *)
(* positions and any quantities.                                           *)
(***************************************************************************)
EXTENDS ClosePositions, TLAPS, FiniteSetTheorems, WellFoundedInduction

-----------------------------------------------------------------------------
(* Facts about the operators.                                              *)

\* A nonempty set of naturals has a least element, and Min is it.
LEMMA MinIsLeast ==
  ASSUME NEW T \in SUBSET Nat, T # {}
  PROVE  Min(T) \in T /\ \A n \in T : Min(T) <= n
<1> DEFINE R == OpToRel(<, Nat)
<1>1. IsWellFoundedOn(R, Nat)
  BY NatLessThanWellFounded
<1> HIDE DEF R
<1>2. PICK m \in T : \A n \in T : <<n, m>> \notin R
  BY <1>1, WFMin
<1>3. \A n, k \in Nat : n < k => <<n, k>> \in R
  BY DEF R, OpToRel
<1>4. ASSUME NEW n \in T PROVE m <= n
  <2>1. n \in Nat /\ m \in Nat
    OBVIOUS
  <2>2. ~(n < m)
    BY <1>2, <1>3, <2>1
  <2> QED BY <2>1, <2>2
<1> QED BY <1>4 DEF Min

\* The elements of a longer sequence.
LEMMA ElementsAppend ==
  ASSUME NEW S, NEW s \in Seq(S), NEW e \in S
  PROVE  Elements(Append(s, e)) = Elements(s) \cup {e}
<1>1. Len(Append(s, e)) = Len(s) + 1 /\ Len(s) \in Nat
  OBVIOUS
<1>2. \A i \in 1..Len(s) : Append(s, e)[i] = s[i]
  OBVIOUS
<1>3. Append(s, e)[Len(s) + 1] = e
  OBVIOUS
<1>4. 1..Len(s) + 1 = 1..Len(s) \cup {Len(s) + 1}
  BY <1>1
<1> QED BY <1>1, <1>2, <1>3, <1>4 DEF Elements

\* The opposite order of the whole quantity leaves nothing.
LEMMA FilledFlat == \A n \in Int : Filled(n, n) = 0
BY DEF Filled, Side, Quantity

\* What a call is about to close are positions.
LEMMA MatchedKeys == \A q, p : Matched(q, p) \subseteq Keys
<1> TAKE q, p
<1>1. MatchAll(q, p) \subseteq Keys
  BY DEF MatchAll
<1>2. MatchOne(q, p) \subseteq Keys
  <2> DEFINE T == {k \in MatchAll(q, p) : Instrument[k] = q.inst}
  <2>1. T \in SUBSET Nat
    BY <1>1, ListedAssumption DEF Keys
  <2>2. CASE T = {}
    BY <2>2 DEF MatchOne, First
  <2>3. CASE T # {}
    <3>1. Min(T) \in T
      BY <2>1, <2>3, MinIsLeast
    <3> QED BY <3>1, <2>3, <1>1 DEF MatchOne, First
  <2> QED BY <2>2, <2>3
<1> QED BY <1>1, <1>2 DEF Matched

-----------------------------------------------------------------------------
(* Types, and where a call is.                                             *)

\* The types, without the bounds on the counters.
CallTyped ==
  /\ pc \in [Calls -> {"idle", "check", "place", "call", "done", "failed"}]
  /\ req \in [Calls -> Requests]
  /\ queue \in [Calls -> SUBSET Keys]
  /\ stale \in [Calls -> SUBSET Keys]
  /\ frozen \in BOOLEAN

CountsTyped ==
  /\ success \in [Calls -> Nat]
  /\ errors \in [Calls -> Nat]
  /\ breached \in [Calls -> Nat]
  /\ sent \in [Calls -> Nat]
  /\ trades \in 0..MaxTrades

ReportTyped ==
  /\ results \in [Calls -> Seq([key : Keys, ok : BOOLEAN])]
  /\ closed \in [Calls -> Seq(Keys)]

MarketTyped ==
  /\ snap \in [Calls -> [Keys -> Int]]
  /\ ord \in [Calls -> [Keys -> {"none", "sent", "accepted", "refused", "filled", "voided"}]]
  /\ pos \in [Keys -> Int]

Typed == CallTyped /\ CountsTyped /\ ReportTyped /\ MarketTyped

\* A call in its loop has a position at hand, an idle one has nothing yet.
Placing ==
  \A c \in Calls :
    /\ pc[c] \in {"check", "place", "call"} => queue[c] # {}
    /\ pc[c] = "done" => queue[c] = {}
    /\ breached[c] <= 1
    /\ pc[c] # "failed" => breached[c] = 0
    /\ pc[c] = "idle" =>
         /\ queue[c] = {} /\ results[c] = <<>> /\ closed[c] = <<>>
         /\ success[c] = 0 /\ errors[c] = 0
         /\ snap[c] = [k \in Keys |-> 0] /\ ord[c] = [k \in Keys |-> "none"]

LEMMA TypedInit == Init => Typed /\ Placing
<1> SUFFICES ASSUME Init PROVE Typed /\ Placing
  OBVIOUS
<1>1. CallTyped
  BY DEF Init, CallTyped
<1>2. CountsTyped
  BY BoundsAssumption DEF Init, CountsTyped
<1>3. ReportTyped
  BY DEF Init, ReportTyped
<1>4. MarketTyped
  BY BoundsAssumption DEF Init, MarketTyped
<1>5. Placing
  BY DEF Init, Placing
<1> QED BY <1>1, <1>2, <1>3, <1>4, <1>5 DEF Typed

\* The position at hand is the first of those left.
LEMMA HandInQueue ==
  ASSUME Typed, NEW c \in Calls, queue[c] # {}
  PROVE  AtHand(c) \in queue[c] /\ AtHand(c) \in Keys
         /\ \A k \in queue[c] : AtHand(c) <= k
<1>1. queue[c] \in SUBSET Nat /\ queue[c] \subseteq Keys
  BY ListedAssumption DEF Typed, CallTyped, Keys
<1> QED BY <1>1, MinIsLeast DEF AtHand

\* An entry keeps the types.
LEMMA EnterTyped ==
  ASSUME Typed, NEW c \in Calls, queue[c] # {}, NEW ok \in BOOLEAN, Enter(c, ok)
  PROVE  /\ pc' \in [Calls -> {"idle", "check", "place", "call", "done", "failed"}]
         /\ queue' \in [Calls -> SUBSET Keys]
         /\ results' \in [Calls -> Seq([key : Keys, ok : BOOLEAN])]
<1> DEFINE Entries == [key : Keys, ok : BOOLEAN]
<1>1. [key |-> AtHand(c), ok |-> ok] \in Entries
  BY HandInQueue
<1>2. results[c] \in Seq(Entries) /\ results \in [Calls -> Seq(Entries)]
  BY DEF Typed, ReportTyped
<1> HIDE DEF Entries
<1>3. Append(results[c], [key |-> AtHand(c), ok |-> ok]) \in Seq(Entries)
  BY <1>1, <1>2
<1>4. results' \in [Calls -> Seq(Entries)]
  BY <1>2, <1>3 DEF Enter
<1>5. pc' \in [Calls -> {"idle", "check", "place", "call", "done", "failed"}]
  BY DEF Enter, Typed, CallTyped
<1>6. queue' \in [Calls -> SUBSET Keys]
  BY DEF Enter, Typed, CallTyped
<1> QED BY <1>4, <1>5, <1>6 DEF Entries

\* A new entry on a function of counters, or of lists.
LEMMA CountUp ==
  ASSUME NEW f \in [Calls -> Nat], NEW c \in Calls
  PROVE  [f EXCEPT ![c] = @ + 1] \in [Calls -> Nat]
OBVIOUS

\* Every step keeps the types.
LEMMA TypedNext ==
  ASSUME Typed, Placing, [Next]_vars
  PROVE  Typed'
<1> USE DEF Typed, callVars
<1>1. ASSUME NEW c \in Calls, Fetch(c) PROVE Typed'
  <2>1. CallTyped'
    BY <1>1, MatchedKeys DEF Fetch, CallTyped
  <2>2. MarketTyped'
    BY <1>1 DEF Fetch, MarketTyped
  <2> QED BY <1>1, <2>1, <2>2 DEF Fetch, CountsTyped, ReportTyped
<1>2. ASSUME NEW c \in Calls, FetchFails(c) PROVE Typed'
  BY <1>2 DEF FetchFails, CallTyped, CountsTyped, ReportTyped, MarketTyped
<1>3. ASSUME NEW c \in Calls, Allows(c) PROVE Typed'
  BY <1>3 DEF Allows, CallTyped, CountsTyped, ReportTyped, MarketTyped
<1>4. ASSUME NEW c \in Calls, BlocksEntry(c) PROVE Typed'
  <2>1. queue[c] # {} /\ Enter(c, FALSE)
    BY <1>4 DEF BlocksEntry, Placing
  <2>2. CallTyped' /\ ReportTyped'
    BY <1>4, <2>1, EnterTyped DEF BlocksEntry, CallTyped, ReportTyped
  <2>3. CountsTyped'
    BY <1>4, CountUp DEF BlocksEntry, CountsTyped
  <2> QED BY <1>4, <2>2, <2>3 DEF BlocksEntry, MarketTyped
<1>5. ASSUME NEW c \in Calls, BlocksCall(c) PROVE Typed'
  <2>1. CountsTyped'
    BY <1>5, CountUp DEF BlocksCall, CountsTyped
  <2> QED BY <1>5, <2>1 DEF BlocksCall, CallTyped, ReportTyped, MarketTyped
<1>6. ASSUME NEW c \in Calls, Place(c) PROVE Typed'
  <2>1. AtHand(c) \in Keys
    BY <1>6, HandInQueue DEF Place, Placing
  <2>2. CountsTyped'
    BY <1>6, CountUp DEF Place, CountsTyped
  <2>3. MarketTyped'
    BY <1>6, <2>1 DEF Place, MarketTyped
  <2> QED BY <1>6, <2>2, <2>3 DEF Place, CallTyped, ReportTyped
<1>7. ASSUME NEW c \in Calls, CallFails(c) PROVE Typed'
  <2>1. queue[c] # {}
    BY <1>7 DEF CallFails, Placing
  <2>2. CASE req[c].kind = "closeAll"
    <3>1. CallTyped' /\ ReportTyped'
      BY <1>7, <2>1, <2>2, EnterTyped DEF CallFails, CallTyped, ReportTyped
    <3>2. CountsTyped'
      BY <1>7, <2>2, CountUp DEF CallFails, CountsTyped
    <3> QED BY <1>7, <3>1, <3>2 DEF CallFails, MarketTyped
  <2>3. CASE req[c].kind # "closeAll"
    BY <1>7, <2>3 DEF CallFails, CallTyped, CountsTyped, ReportTyped, MarketTyped
  <2> QED BY <2>2, <2>3
<1>8. ASSUME NEW c \in Calls, CallSucceeds(c) PROVE Typed'
  <2>1. queue[c] # {} /\ Enter(c, TRUE)
    BY <1>8 DEF CallSucceeds, Placing
  <2>2. AtHand(c) \in Keys
    BY <2>1, HandInQueue
  <2>3. Append(closed[c], AtHand(c)) \in Seq(Keys)
    BY <2>2 DEF ReportTyped
  <2>4. CallTyped' /\ ReportTyped'
    BY <1>8, <2>1, <2>3, EnterTyped DEF CallSucceeds, CallTyped, ReportTyped
  <2>5. CountsTyped'
    BY <1>8, CountUp DEF CallSucceeds, CountsTyped
  <2> QED BY <1>8, <2>4, <2>5 DEF CallSucceeds, MarketTyped
<1>9. ASSUME NEW c \in Calls, NEW k \in Keys, Exchange(c, k) PROVE Typed'
  <2>1. CallTyped'
    BY <1>9 DEF Exchange, Accept, Fill, Void, Outdate, CallTyped
  <2>2. MarketTyped'
    <3>1. Filled(pos[k], snap[c][k]) \in Int
      BY DEF MarketTyped, Filled, Side, Quantity
    <3> QED BY <1>9, <3>1 DEF Exchange, Accept, Fill, Void, MarketTyped
  <2> QED BY <1>9, <2>1, <2>2 DEF Exchange, Accept, Fill, Void, CountsTyped, ReportTyped
<1>10. ASSUME NEW k \in Keys, NEW n \in (-MaxQty..MaxQty) \ {0}, Trade(k, n) PROVE Typed'
  <2>1. CallTyped'
    BY <1>10 DEF Trade, CallTyped
  <2>2. CountsTyped'
    BY <1>10, BoundsAssumption DEF Trade, CountsTyped
  <2>3. MarketTyped'
    BY <1>10, BoundsAssumption DEF Trade, MarketTyped
  <2> QED BY <1>10, <2>1, <2>2, <2>3 DEF Trade, ReportTyped
<1>11. CASE Freeze
  BY <1>11 DEF Freeze, CallTyped, CountsTyped, ReportTyped, MarketTyped
<1>12. CASE Unfreeze
  BY <1>12 DEF Unfreeze, CallTyped, CountsTyped, ReportTyped, MarketTyped
<1>13. CASE UNCHANGED vars
  BY <1>13 DEF vars, CallTyped, CountsTyped, ReportTyped, MarketTyped
<1> QED
  BY <1>1, <1>2, <1>3, <1>4, <1>5, <1>6, <1>7, <1>8, <1>9, <1>10, <1>11, <1>12, <1>13
     DEF Next, Run

\* Every step leaves a call in its loop with a position at hand.
LEMMA PlacingNext ==
  ASSUME Typed, Placing, [Next]_vars
  PROVE  Placing'
<1> USE DEF Typed, CallTyped, CountsTyped, Placing, callVars
<1>1. ASSUME NEW c \in Calls, Fetch(c) PROVE Placing'
  BY <1>1 DEF Fetch
<1>2. ASSUME NEW c \in Calls, FetchFails(c) PROVE Placing'
  BY <1>2 DEF FetchFails
<1>3. ASSUME NEW c \in Calls, Allows(c) PROVE Placing'
  BY <1>3 DEF Allows
<1>4. ASSUME NEW c \in Calls, BlocksEntry(c) PROVE Placing'
  <2>1. queue'[c] = {} <=> pc'[c] = "done"
    BY <1>4, HandInQueue DEF BlocksEntry, Enter
  <2>2. pc[c] = "check" /\ pc'[c] \in {"check", "done"}
    BY <1>4 DEF BlocksEntry, Enter
  <2>3. \A d \in Calls \ {c} : /\ pc'[d] = pc[d] /\ queue'[d] = queue[d]
                             /\ results'[d] = results[d] /\ errors'[d] = errors[d]
    BY <1>4 DEF BlocksEntry, Enter, ReportTyped
  <2>4. UNCHANGED <<success, closed, breached, snap, ord>>
    BY <1>4 DEF BlocksEntry
  <2>5. \A d \in Calls : /\ pc'[d] \in {"check", "place", "call"} => queue'[d] # {}
                         /\ pc'[d] = "done" => queue'[d] = {}
    BY <2>1, <2>2, <2>3
  <2>6. \A d \in Calls : breached'[d] <= 1 /\ (pc'[d] # "failed" => breached'[d] = 0)
    BY <2>2, <2>3, <2>4
  <2>7. \A d \in Calls : pc'[d] = "idle" => d # c /\ pc[d] = "idle"
    BY <2>2, <2>3
  <2> QED BY <2>3, <2>4, <2>5, <2>6, <2>7
<1>5. ASSUME NEW c \in Calls, BlocksCall(c) PROVE Placing'
  BY <1>5 DEF BlocksCall
<1>6. ASSUME NEW c \in Calls, Place(c) PROVE Placing'
  BY <1>6 DEF Place
<1>7. ASSUME NEW c \in Calls, CallFails(c) PROVE Placing'
  <2>1. CASE req[c].kind = "closeAll"
    <3>1. queue'[c] = {} <=> pc'[c] = "done"
      BY <1>7, <2>1, HandInQueue DEF CallFails, Enter
    <3>2. pc[c] = "call" /\ pc'[c] \in {"check", "done"}
      BY <1>7, <2>1 DEF CallFails, Enter
    <3>3. \A d \in Calls \ {c} : /\ pc'[d] = pc[d] /\ queue'[d] = queue[d]
                               /\ results'[d] = results[d] /\ errors'[d] = errors[d]
      BY <1>7, <2>1 DEF CallFails, Enter, ReportTyped
    <3>4. UNCHANGED <<success, closed, breached, snap, ord>>
      BY <1>7 DEF CallFails
    <3>5. \A d \in Calls : /\ pc'[d] \in {"check", "place", "call"} => queue'[d] # {}
                           /\ pc'[d] = "done" => queue'[d] = {}
      BY <3>1, <3>2, <3>3
    <3>6. \A d \in Calls : breached'[d] <= 1 /\ (pc'[d] # "failed" => breached'[d] = 0)
      BY <3>2, <3>3, <3>4
    <3>7. \A d \in Calls : pc'[d] = "idle" => d # c /\ pc[d] = "idle"
      BY <3>2, <3>3
    <3> QED BY <3>3, <3>4, <3>5, <3>6, <3>7
  <2>2. CASE req[c].kind # "closeAll"
    BY <1>7, <2>2 DEF CallFails
  <2> QED BY <2>1, <2>2
<1>8. ASSUME NEW c \in Calls, CallSucceeds(c) PROVE Placing'
  <2>1. queue'[c] = {} <=> pc'[c] = "done"
    BY <1>8, HandInQueue DEF CallSucceeds, Enter
  <2>2. pc[c] = "call" /\ pc'[c] \in {"check", "done"}
    BY <1>8 DEF CallSucceeds, Enter
  <2>3. \A d \in Calls \ {c} : /\ pc'[d] = pc[d] /\ queue'[d] = queue[d]
                             /\ results'[d] = results[d] /\ closed'[d] = closed[d]
                             /\ success'[d] = success[d]
    BY <1>8 DEF CallSucceeds, Enter, ReportTyped
  <2>4. UNCHANGED <<errors, breached, snap, ord>>
    BY <1>8 DEF CallSucceeds
  <2>5. \A d \in Calls : /\ pc'[d] \in {"check", "place", "call"} => queue'[d] # {}
                         /\ pc'[d] = "done" => queue'[d] = {}
    BY <2>1, <2>2, <2>3
  <2>6. \A d \in Calls : breached'[d] <= 1 /\ (pc'[d] # "failed" => breached'[d] = 0)
    BY <2>2, <2>3, <2>4
  <2>7. \A d \in Calls : pc'[d] = "idle" => d # c /\ pc[d] = "idle"
    BY <2>2, <2>3
  <2> QED BY <2>3, <2>4, <2>5, <2>6, <2>7
<1>9. ASSUME NEW c \in Calls, NEW k \in Keys, Exchange(c, k) PROVE Placing'
  <2>1. ord[c][k] # "none"
    BY <1>9 DEF Exchange, Accept, Fill, Void
  <2>2. \A d \in Calls : pc[d] = "idle" => d # c /\ ord'[d] = ord[d]
    BY <1>9, <2>1 DEF Exchange, Accept, Fill, Void, MarketTyped
  <2>3. UNCHANGED callVars
    BY <1>9 DEF Exchange, Accept, Fill, Void
  <2> QED BY <2>2, <2>3
<1>10. ASSUME NEW k \in Keys, NEW n \in (-MaxQty..MaxQty) \ {0}, Trade(k, n) PROVE Placing'
  BY <1>10 DEF Trade
<1>11. CASE Freeze
  BY <1>11 DEF Freeze
<1>12. CASE Unfreeze
  BY <1>12 DEF Unfreeze
<1>13. CASE UNCHANGED vars
  BY <1>13 DEF vars
<1> QED
  BY <1>1, <1>2, <1>3, <1>4, <1>5, <1>6, <1>7, <1>8, <1>9, <1>10, <1>11, <1>12, <1>13
     DEF Next, Run

-----------------------------------------------------------------------------
(* What a step does to the report of a call.                               *)

\* An entry with an error is made for the position at hand.
Misses(c) ==
  /\ pc[c] \in {"check", "call"}
  /\ Enter(c, FALSE)
  /\ errors'[c] = errors[c] + 1
  /\ UNCHANGED <<req, snap, success, closed, ord>>

SameReport(c) ==
  /\ req'[c] = req[c] /\ snap'[c] = snap[c] /\ queue'[c] = queue[c]
  /\ results'[c] = results[c] /\ closed'[c] = closed[c]
  /\ success'[c] = success[c] /\ errors'[c] = errors[c]

\* The orders of a call are as they were, and it is where it was, has been let
\* through by riskguard, or fails.
SameOrders(c) ==
  /\ ord'[c] = ord[c]
  /\ pc'[c] = pc[c] \/ (pc[c] = "check" /\ pc'[c] = "place") \/ pc'[c] = "failed"

Waits(c) ==
  SameReport(c) /\ (Place(c) \/ (\E k \in Keys : Exchange(c, k)) \/ SameOrders(c))

\* A call fetches, makes an entry, or keeps its report as it is.
LEMMA ReportSteps ==
  ASSUME Typed, [Next]_vars, NEW c \in Calls
  PROVE  Fetch(c) \/ Misses(c) \/ CallSucceeds(c) \/ Waits(c)
<1> USE DEF Typed, CallTyped, CountsTyped, ReportTyped, MarketTyped, SameReport, SameOrders, callVars
<1>1. ASSUME NEW d \in Calls, Run(d)
      PROVE  Fetch(c) \/ Misses(c) \/ CallSucceeds(c) \/ Waits(c)
  <2>1. CASE d # c
    <3>1. SameReport(c)
      BY <1>1, <2>1 DEF Run, Fetch, FetchFails, Allows, BlocksEntry, BlocksCall, Place,
                        CallFails, CallSucceeds, Enter
    <3>2. SameOrders(c)
      BY <1>1, <2>1 DEF Run, Fetch, FetchFails, Allows, BlocksEntry, BlocksCall, Place,
                        CallFails, CallSucceeds, Enter
    <3> QED BY <3>1, <3>2 DEF Waits
  <2>2. CASE d = c
    <3>1. BlocksEntry(c) => Misses(c)
      BY DEF BlocksEntry, Misses
    <3>2. CallFails(c) => Misses(c) \/ (SameReport(c) /\ SameOrders(c))
      BY DEF CallFails, Misses
    <3>3. FetchFails(c) \/ Allows(c) \/ BlocksCall(c) => SameReport(c) /\ SameOrders(c)
      BY DEF FetchFails, Allows, BlocksCall
    <3>4. Place(c) => SameReport(c)
      BY DEF Place
    <3> QED BY <1>1, <2>2, <3>1, <3>2, <3>3, <3>4 DEF Run, Waits
  <2> QED BY <2>1, <2>2
<1>2. ASSUME NEW d \in Calls, NEW k \in Keys, Exchange(d, k) PROVE Waits(c)
  <2>1. SameReport(c)
    BY <1>2 DEF Exchange, Accept, Fill, Void
  <2>2. CASE d # c
    BY <1>2, <2>2 DEF Exchange, Accept, Fill, Void, Waits
  <2> QED BY <1>2, <2>1, <2>2 DEF Waits
<1>3. ASSUME NEW k \in Keys, NEW n \in (-MaxQty..MaxQty) \ {0}, Trade(k, n) PROVE Waits(c)
  BY <1>3 DEF Trade, Waits
<1>4. CASE Freeze \/ Unfreeze
  BY <1>4 DEF Freeze, Unfreeze, Waits
<1>5. CASE UNCHANGED vars
  BY <1>5 DEF vars, Waits
<1> QED BY <1>1, <1>2, <1>3, <1>4, <1>5 DEF Next

\* What making an entry does to the sets the report is read by.
LEMMA EnterReads ==
  ASSUME Typed, NEW c \in Calls, queue[c] # {}, NEW ok \in BOOLEAN, Enter(c, ok)
  PROVE  /\ Entered(c)' = Entered(c) \cup {AtHand(c)}
         /\ Won(c)' = IF ok THEN Won(c) \cup {AtHand(c)} ELSE Won(c)
         /\ queue'[c] = queue[c] \ {AtHand(c)}
         /\ Len(results'[c]) = Len(results[c]) + 1
         /\ results'[c][Len(results[c]) + 1].key = AtHand(c)
         /\ \A i \in 1..Len(results[c]) : results'[c][i] = results[c][i]
<1> DEFINE Entries == [key : Keys, ok : BOOLEAN]
<1> DEFINE e == [key |-> AtHand(c), ok |-> ok]
<1>1. e \in Entries /\ e.key = AtHand(c) /\ e.ok = ok
  BY HandInQueue
<1>2. results[c] \in Seq(Entries) /\ results \in [Calls -> Seq(Entries)]
  BY DEF Typed, ReportTyped
<1>3. results'[c] = Append(results[c], e) /\ queue'[c] = queue[c] \ {AtHand(c)}
  BY <1>2 DEF Enter, Typed, CallTyped
<1> HIDE DEF Entries, e
<1>4. Elements(results'[c]) = Elements(results[c]) \cup {e}
  BY <1>1, <1>2, <1>3, ElementsAppend
<1>5. Entered(c)' = Entered(c) \cup {AtHand(c)}
  BY <1>4, <1>1 DEF Entered
<1>6. Won(c)' = IF ok THEN Won(c) \cup {AtHand(c)} ELSE Won(c)
  BY <1>4, <1>1 DEF Won
<1>7. /\ Len(results'[c]) = Len(results[c]) + 1
      /\ results'[c][Len(results[c]) + 1] = e
      /\ \A i \in 1..Len(results[c]) : results'[c][i] = results[c][i]
  BY <1>1, <1>2, <1>3
<1> QED BY <1>1, <1>3, <1>5, <1>6, <1>7

-----------------------------------------------------------------------------
(* The report.                                                             *)

Numbered(c) == Len(results[c]) + Cardinality(queue[c]) <= Listed

\* Sets of positions are finite, and not larger than the list.
LEMMA KeySets ==
  ASSUME NEW T \in SUBSET Keys
  PROVE  IsFiniteSet(T) /\ Cardinality(T) \in Nat /\ Cardinality(T) <= Listed
<1>1. IsFiniteSet(Keys) /\ Cardinality(Keys) = Listed
  BY ListedAssumption, FS_Interval DEF Keys
<1>2. IsFiniteSet(T) /\ Cardinality(T) <= Cardinality(Keys)
  BY <1>1, FS_Subset
<1> QED BY <1>1, <1>2, FS_CardinalityType

\* A fetch leaves an idle call's report empty.
LEMMA FetchReads ==
  ASSUME Typed, Placing, NEW c \in Calls, Fetch(c)
  PROVE  /\ results'[c] = <<>> /\ closed'[c] = <<>> /\ success'[c] = 0 /\ errors'[c] = 0
         /\ queue'[c] = Matched(req'[c], snap'[c])
         /\ Entered(c)' = {} /\ Won(c)' = {}
<1>1. results'[c] = <<>> /\ closed'[c] = <<>> /\ success'[c] = 0 /\ errors'[c] = 0
  BY DEF Fetch, Placing
<1>2. queue'[c] = Matched(req'[c], snap'[c])
  BY DEF Fetch, Typed, CallTyped, MarketTyped
<1>3. Elements(results'[c]) = {}
  BY <1>1 DEF Elements
<1> QED BY <1>1, <1>2, <1>3 DEF Entered, Won

\* A step keeps the entries and the positions left in number.
LEMMA NumberedNext ==
  ASSUME Typed, Placing, [Next]_vars, NEW c \in Calls, Numbered(c)
  PROVE  Numbered(c)'
<1>1. queue[c] \in SUBSET Keys /\ Len(results[c]) \in Nat
  BY DEF Typed, CallTyped, ReportTyped
<1>2. CASE Fetch(c)
  <2>1. queue'[c] \in SUBSET Keys /\ Len(results'[c]) = 0
    BY <1>2, FetchReads, MatchedKeys
  <2> QED BY <2>1, KeySets, ListedAssumption DEF Numbered
<1>3. ASSUME NEW ok \in BOOLEAN, Enter(c, ok), queue[c] # {} PROVE Numbered(c)'
  <2>1. AtHand(c) \in queue[c] /\ queue'[c] = queue[c] \ {AtHand(c)}
        /\ Len(results'[c]) = Len(results[c]) + 1
    BY <1>3, EnterReads, HandInQueue
  <2>2. Cardinality(queue'[c]) = Cardinality(queue[c]) - 1 /\ Cardinality(queue[c]) \in Nat
    BY <1>1, <2>1, KeySets, FS_RemoveElement
  <2> QED BY <1>1, <2>1, <2>2, ListedAssumption DEF Numbered
<1>4. CASE Waits(c)
  BY <1>4 DEF Waits, SameReport, Numbered
<1> QED BY <1>2, <1>3, <1>4, ReportSteps DEF Misses, CallSucceeds, Placing

\* A step keeps the entries and the positions left the matched ones, in order.
LEMMA WorkedNext ==
  ASSUME Typed, Placing, [Next]_vars, NEW c \in Calls, Worked(c)
  PROVE  Worked(c)'
<1>1. queue[c] \in SUBSET Keys /\ Len(results[c]) \in Nat
      /\ DOMAIN results[c] = 1..Len(results[c])
  BY DEF Typed, CallTyped, ReportTyped
<1>2. CASE Fetch(c)
  BY <1>2, FetchReads DEF Worked
<1>3. ASSUME NEW ok \in BOOLEAN, Enter(c, ok), queue[c] # {},
             req'[c] = req[c], snap'[c] = snap[c]
      PROVE  Worked(c)'
  <2> DEFINE n == Len(results[c])
  <2>1. /\ AtHand(c) \in queue[c] /\ queue'[c] = queue[c] \ {AtHand(c)}
        /\ Entered(c)' = Entered(c) \cup {AtHand(c)}
        /\ Len(results'[c]) = n + 1
        /\ results'[c][n + 1].key = AtHand(c)
        /\ \A i \in 1..n : results'[c][i] = results[c][i]
    BY <1>3, EnterReads, HandInQueue
  <2>2. Entered(c)' \cup queue'[c] = Matched(req'[c], snap'[c])
    BY <1>3, <2>1 DEF Worked
  <2>3. \A k \in Entered(c)', l \in queue'[c] : k < l
    <3>1. \A l \in queue[c] : AtHand(c) <= l
      BY <1>3, HandInQueue
    <3>2. \A l \in queue'[c] : l # AtHand(c) /\ l \in queue[c] /\ l \in Int /\ AtHand(c) \in Int
      BY <1>1, <2>1 DEF Keys
    <3>3. \A l \in queue'[c] : AtHand(c) < l
      BY <3>1, <3>2
    <3> QED BY <2>1, <3>2, <3>3 DEF Worked
  <2>4. \A i \in 1..n : results[c][i].key < AtHand(c)
    <3>1. \A i \in 1..n : results[c][i].key \in Entered(c)
      BY <1>1 DEF Entered, Elements
    <3> QED BY <2>1, <3>1 DEF Worked
  <2>5. DOMAIN results'[c] = 1..n + 1
    <3>1. results' \in [Calls -> Seq([key : Keys, ok : BOOLEAN])]
      BY <1>3, EnterTyped
    <3> QED BY <2>1, <3>1
  <2>6. ASSUME NEW i \in 1..n + 1, NEW j \in 1..n + 1, i < j
        PROVE  results'[c][i].key < results'[c][j].key
    <3>1. i \in 1..n
      BY <1>1, <2>6
    <3>2. CASE j = n + 1
      BY <2>1, <2>4, <3>1, <3>2
    <3>3. CASE j # n + 1
      <4>1. j \in 1..n
        BY <1>1, <3>3
      <4> QED BY <1>1, <2>1, <2>6, <3>1, <4>1 DEF Worked
    <3> QED BY <3>2, <3>3
  <2> QED BY <2>2, <2>3, <2>5, <2>6 DEF Worked
<1>4. CASE Waits(c)
  BY <1>4 DEF Waits, SameReport, Worked, Entered
<1>5. CASE Misses(c)
  BY <1>3, <1>5 DEF Misses, Placing
<1>6. CASE CallSucceeds(c)
  BY <1>3, <1>6 DEF CallSucceeds, Placing
<1> QED BY <1>2, <1>4, <1>5, <1>6, ReportSteps

\* A step keeps the counts those of the entries.
LEMMA CountedNext ==
  ASSUME Typed, Placing, [Next]_vars, NEW c \in Calls, Counted(c)
  PROVE  Counted(c)'
<1>1. /\ success[c] \in Nat /\ errors[c] \in Nat
      /\ Len(results[c]) \in Nat /\ Len(closed[c]) \in Nat
  BY DEF Typed, CountsTyped, ReportTyped
<1>2. CASE Fetch(c)
  BY <1>2, FetchReads DEF Counted
<1>3. CASE Misses(c)
  <2>1. Len(results'[c]) = Len(results[c]) + 1
    BY <1>3, EnterReads DEF Misses, Placing
  <2> QED BY <1>1, <1>3, <2>1 DEF Misses, Counted
<1>4. CASE CallSucceeds(c)
  <2>1. queue[c] # {} /\ Enter(c, TRUE)
    BY <1>4 DEF CallSucceeds, Placing
  <2>2. Len(results'[c]) = Len(results[c]) + 1
    BY <2>1, EnterReads
  <2>3. closed'[c] = Append(closed[c], AtHand(c))
    BY <1>4 DEF CallSucceeds, Typed, ReportTyped
  <2>4. Len(closed'[c]) = Len(closed[c]) + 1
    <3>1. closed[c] \in Seq(Keys) /\ AtHand(c) \in Keys
      BY <2>1, HandInQueue DEF Typed, ReportTyped
    <3> QED BY <2>3, <3>1
  <2>5. success'[c] = success[c] + 1 /\ errors'[c] = errors[c]
    BY <1>4 DEF CallSucceeds, Typed, CountsTyped
  <2>6. success'[c] + errors'[c] = success[c] + errors[c] + 1
    BY <1>1, <2>5
  <2>7. success[c] + errors[c] = Len(results[c]) /\ success[c] = Len(closed[c])
    BY DEF Counted
  <2>8. success'[c] + errors'[c] = Len(results'[c])
    BY <2>2, <2>6, <2>7
  <2>9. success'[c] = Len(closed'[c])
    BY <2>4, <2>5, <2>7
  <2> QED BY <2>8, <2>9 DEF Counted
<1>5. CASE Waits(c)
  BY <1>5 DEF Waits, SameReport, Counted
<1> QED BY <1>2, <1>3, <1>4, <1>5, ReportSteps

\* A step keeps the events those of the entries with an OrderID, in order.
LEMMA AnnouncedNext ==
  ASSUME Typed, Placing, [Next]_vars, NEW c \in Calls, Worked(c), Announced(c)
  PROVE  Announced(c)'
<1>1. closed[c] \in Seq(Keys) /\ Len(closed[c]) \in Nat
  BY DEF Typed, ReportTyped
<1>2. CASE Fetch(c)
  BY <1>2, FetchReads DEF Announced, Elements
<1>3. CASE Misses(c)
  <2>1. Won(c)' = Won(c)
    BY <1>3, EnterReads DEF Misses, Placing
  <2> QED BY <1>3, <2>1 DEF Misses, Announced
<1>4. CASE CallSucceeds(c)
  <2> DEFINE n == Len(closed[c])
  <2>1. queue[c] # {} /\ Enter(c, TRUE)
    BY <1>4 DEF CallSucceeds, Placing
  <2>2. AtHand(c) \in Keys /\ AtHand(c) \in queue[c]
    BY <2>1, HandInQueue
  <2>3. Won(c)' = Won(c) \cup {AtHand(c)}
    BY <2>1, EnterReads
  <2>4. closed'[c] = Append(closed[c], AtHand(c))
    BY <1>4 DEF CallSucceeds, Typed, ReportTyped
  <2>5. Elements(closed'[c]) = Won(c)'
    BY <1>1, <2>2, <2>3, <2>4, ElementsAppend DEF Announced
  <2>6. \A i \in 1..n : closed[c][i] < AtHand(c)
    <3>1. \A i \in 1..n : closed[c][i] \in Won(c)
      BY DEF Announced, Elements
    <3>2. Won(c) \subseteq Entered(c)
      BY DEF Won, Entered
    <3> QED BY <2>2, <3>1, <3>2 DEF Worked
  <2>7. ASSUME NEW i \in DOMAIN closed'[c], NEW j \in DOMAIN closed'[c], i < j
        PROVE  closed'[c][i] < closed'[c][j]
    <3>1. /\ i \in 1..n /\ j \in 1..n + 1
          /\ closed'[c][n + 1] = AtHand(c)
          /\ \A l \in 1..n : closed'[c][l] = closed[c][l]
      BY <1>1, <2>2, <2>4, <2>7
    <3>2. CASE j = n + 1
      BY <2>6, <3>1, <3>2
    <3>3. CASE j # n + 1
      <4>1. j \in 1..n /\ DOMAIN closed[c] = 1..n
        BY <1>1, <3>1, <3>3
      <4> QED BY <2>7, <3>1, <4>1 DEF Announced
    <3> QED BY <3>2, <3>3
  <2> QED BY <2>5, <2>7 DEF Announced
<1>5. CASE Waits(c)
  BY <1>5 DEF Waits, SameReport, Announced, Won
<1> QED BY <1>2, <1>3, <1>4, <1>5, ReportSteps

-----------------------------------------------------------------------------
(* The orders.                                                             *)

\* An order of a call is for an entry or the position at hand; the entries with
\* an OrderID have one the broker accepted, and without an error all have one.
Ordered(c) ==
  /\ \A k \in Keys : ord[c][k] # "none" => k \in Entered(c) \cup InHand(c)
  /\ Won(c) \subseteq Placed(c)
  /\ errors[c] = 0 => Won(c) = Entered(c)

LEMMA OrderedNext ==
  ASSUME Typed, Placing, [Next]_vars, NEW c \in Calls, Worked(c), Ordered(c)
  PROVE  Ordered(c)'
<1>1. ord \in [Calls -> [Keys -> {"none", "sent", "accepted", "refused", "filled", "voided"}]]
  BY DEF Typed, MarketTyped
<1>2. CASE Fetch(c)
  <2>1. ord'[c] = [k \in Keys |-> "none"]
    BY <1>2 DEF Fetch, Placing
  <2> QED BY <1>2, <2>1, FetchReads DEF Ordered
<1>3. CASE Misses(c)
  <2>1. Entered(c)' = Entered(c) \cup {AtHand(c)} /\ Won(c)' = Won(c)
    BY <1>3, EnterReads DEF Misses, Placing
  <2>2. errors'[c] # 0
    BY <1>3 DEF Misses, Typed, CountsTyped
  <2>3. ord' = ord /\ InHand(c) \subseteq {AtHand(c)}
    BY <1>3 DEF Misses, InHand
  <2> QED BY <2>1, <2>2, <2>3 DEF Ordered, Placed
<1>4. CASE CallSucceeds(c)
  <2>1. queue[c] # {} /\ Enter(c, TRUE) /\ AtHand(c) \in Keys
    BY <1>4, HandInQueue DEF CallSucceeds, Placing
  <2>2. Entered(c)' = Entered(c) \cup {AtHand(c)} /\ Won(c)' = Won(c) \cup {AtHand(c)}
    BY <2>1, EnterReads
  <2>3. ord' = ord /\ errors' = errors /\ AtHand(c) \in Placed(c)
    BY <1>4, <2>1 DEF CallSucceeds, Placed
  <2>4. InHand(c) \subseteq {AtHand(c)}
    BY DEF InHand
  <2> QED BY <2>2, <2>3, <2>4 DEF Ordered, Placed
<1>5. CASE Waits(c)
  <2>1. /\ Entered(c)' = Entered(c) /\ Won(c)' = Won(c) /\ errors'[c] = errors[c]
        /\ AtHand(c)' = AtHand(c) /\ queue'[c] = queue[c]
    BY <1>5 DEF Waits, SameReport, Entered, Won, AtHand
  <2>2. CASE SameOrders(c)
    <3>1. InHand(c) \subseteq InHand(c)' /\ Placed(c)' = Placed(c)
      BY <2>1, <2>2 DEF SameOrders, InHand, Placed
    <3> QED BY <2>1, <2>2, <3>1 DEF Ordered, SameOrders
  <2>3. CASE Place(c)
    <3>1. AtHand(c) \in queue[c] /\ AtHand(c) \in Keys
      BY <2>3, HandInQueue DEF Place, Placing
    <3>2. InHand(c) = {} /\ InHand(c)' = {AtHand(c)}
      <4>1. pc[c] = "place" /\ pc'[c] = "call"
        BY <2>3 DEF Place, Typed, CallTyped
      <4> QED BY <2>1, <3>1, <4>1 DEF InHand
    <3>3. ord'[c] = [ord[c] EXCEPT ![AtHand(c)] = "sent"]
      BY <1>1, <2>3 DEF Place
    <3> QED
      <4>1. \A k \in Keys \ {AtHand(c)} : ord'[c][k] = ord[c][k]
        BY <1>1, <3>3
      <4>2. ASSUME NEW k \in Won(c) PROVE k \in Placed(c)'
        <5>1. k \in Entered(c) /\ AtHand(c) \in Int
          BY <3>1 DEF Won, Entered, Keys
        <5>2. k # AtHand(c)
          BY <3>1, <5>1 DEF Worked
        <5> QED BY <4>1, <5>2 DEF Ordered, Placed
      <4>3. ASSUME NEW k \in Keys, ord'[c][k] # "none" PROVE k \in Entered(c)' \cup InHand(c)'
        BY <2>1, <3>2, <4>1, <4>3 DEF Ordered
      <4> QED BY <2>1, <4>2, <4>3 DEF Ordered
  <2>4. ASSUME NEW k \in Keys, Exchange(c, k) PROVE Ordered(c)'
    <3>1. pc' = pc /\ ord[c][k] # "none"
      BY <2>4 DEF Exchange, Accept, Fill, Void, callVars
    <3>2. \A l \in Keys \ {k} : ord'[c][l] = ord[c][l]
      BY <1>1, <2>4 DEF Exchange, Accept, Fill, Void
    <3>3. ord[c][k] \in {"accepted", "filled", "voided"}
            => ord'[c][k] \in {"accepted", "filled", "voided"}
      BY <1>1, <2>4 DEF Exchange, Accept, Fill, Void
    <3>4. InHand(c)' = InHand(c)
      BY <2>1, <3>1 DEF InHand
    <3>5. Placed(c) \subseteq Placed(c)'
      BY <3>2, <3>3 DEF Placed
    <3> QED BY <2>1, <3>1, <3>2, <3>4, <3>5 DEF Ordered
  <2> QED BY <1>5, <2>2, <2>3, <2>4 DEF Waits
<1> QED BY <1>2, <1>3, <1>4, <1>5, ReportSteps

-----------------------------------------------------------------------------
(* The account and the kill switch.                                        *)

\* Until somebody changes a position behind a call's back, it is what the call
\* saw, or flat once the call's own order has been filled.
Working(c, k) == pc[c] \notin {"idle", "failed"} \/ ord[c][k] # "none"

Mirrored ==
  \A c \in Calls, k \in Keys :
    Working(c, k) /\ k \notin stale[c]
      => pos[k] = IF ord[c][k] = "filled" THEN 0 ELSE snap[c][k]

LEMMA MirroredNext ==
  ASSUME Typed, Placing, \A c \in Calls : Worked(c) /\ Ordered(c), Mirrored, [Next]_vars
  PROVE  Mirrored'
<1> USE DEF Typed, CallTyped, MarketTyped
<1>1. ASSUME NEW c \in Calls, Fetch(c) PROVE Mirrored'
  <2>1. snap'[c] = pos /\ ord[c] = [k \in Keys |-> "none"]
    BY <1>1 DEF Fetch, Placing
  <2>2. \A d \in Calls \ {c} : pc'[d] = pc[d] /\ snap'[d] = snap[d]
    BY <1>1 DEF Fetch
  <2>3. UNCHANGED <<ord, stale, pos>>
    BY <1>1 DEF Fetch
  <2>4. ASSUME NEW d \in Calls, NEW k \in Keys, Working(d, k)', k \notin stale'[d]
        PROVE  pos'[k] = IF ord'[d][k] = "filled" THEN 0 ELSE snap'[d][k]
    <3>1. CASE d = c
      BY <2>1, <2>3, <3>1
    <3>2. CASE d # c
      BY <2>2, <2>3, <2>4, <3>2 DEF Mirrored, Working
    <3> QED BY <3>1, <3>2
  <2> QED BY <2>4 DEF Mirrored
<1>2. ASSUME NEW c \in Calls, Place(c) PROVE Mirrored'
  <2>1. AtHand(c) \in queue[c] /\ AtHand(c) \in Keys /\ pc[c] = "place"
    BY <1>2, HandInQueue DEF Place, Placing
  <2>2. AtHand(c) \notin Entered(c)
    <3>1. AtHand(c) \in Int
      BY <2>1 DEF Keys
    <3> QED BY <2>1, <3>1 DEF Worked
  <2>3. InHand(c) = {}
    BY <2>1 DEF InHand
  <2>4. ord[c][AtHand(c)] = "none"
    BY <2>1, <2>2, <2>3 DEF Ordered
  <2>5. \A d \in Calls, k \in Keys : Working(d, k)' => Working(d, k)
    BY <1>2, <2>1 DEF Place, Working
  <2>6. \A d \in Calls, k \in Keys : ord'[d][k] = "filled" <=> ord[d][k] = "filled"
    BY <1>2, <2>1, <2>4 DEF Place
  <2>7. UNCHANGED <<snap, stale, pos>>
    BY <1>2 DEF Place
  <2> QED BY <2>5, <2>6, <2>7 DEF Mirrored
<1>3. ASSUME NEW c \in Calls,
             FetchFails(c) \/ Allows(c) \/ BlocksEntry(c) \/ BlocksCall(c) \/ CallFails(c)
               \/ CallSucceeds(c)
      PROVE  Mirrored'
  <2>1. UNCHANGED <<snap, ord, stale, pos>>
    BY <1>3 DEF FetchFails, Allows, BlocksEntry, BlocksCall, CallFails, CallSucceeds
  <2>2. \A d \in Calls : pc'[d] \notin {"idle", "failed"} => pc[d] \notin {"idle", "failed"}
    BY <1>3 DEF FetchFails, Allows, BlocksEntry, BlocksCall, CallFails, CallSucceeds, Enter
  <2>3. \A d \in Calls, k \in Keys : Working(d, k)' => Working(d, k)
    BY <2>1, <2>2 DEF Working
  <2> QED BY <2>1, <2>3 DEF Mirrored
<1>4. ASSUME NEW c \in Calls, NEW k \in Keys, Accept(c, k) \/ Void(c, k) PROVE Mirrored'
  <2>1. /\ ord[c][k] \in {"sent", "accepted"}
        /\ ord'[c][k] \in {"accepted", "refused", "voided"}
        /\ \A d \in Calls, l \in Keys : d # c \/ l # k => ord'[d][l] = ord[d][l]
    BY <1>4 DEF Accept, Void
  <2>2. UNCHANGED <<pc, snap, stale, pos>>
    BY <1>4 DEF Accept, Void, callVars
  <2>3. \A d \in Calls, l \in Keys :
          /\ Working(d, l)' => Working(d, l)
          /\ ord'[d][l] = "filled" <=> ord[d][l] = "filled"
    BY <2>1, <2>2 DEF Working
  <2> QED BY <2>2, <2>3 DEF Mirrored
<1>5. ASSUME NEW c \in Calls, NEW k \in Keys, Fill(c, k) PROVE Mirrored'
  <2>1. ord[c][k] = "accepted" /\ ord'[c][k] = "filled" /\ UNCHANGED <<pc, snap>>
    BY <1>5 DEF Fill, callVars
  <2>2. pos' = [pos EXCEPT ![k] = Filled(pos[k], snap[c][k])]
    BY <1>5 DEF Fill
  <2>3. \A d \in Calls, l \in Keys : d # c \/ l # k => ord'[d][l] = ord[d][l]
    BY <1>5 DEF Fill
  <2>4. \A d \in Calls : stale[d] \subseteq stale'[d]
    BY <1>5 DEF Fill, Outdate
  <2>5. \A d \in Calls \ {c} : pc[d] # "idle" => k \in stale'[d]
    BY <1>5 DEF Fill, Outdate
  <2>6. ASSUME NEW d \in Calls, NEW l \in Keys, Working(d, l)', l \notin stale'[d]
        PROVE  pos'[l] = IF ord'[d][l] = "filled" THEN 0 ELSE snap'[d][l]
    <3>1. Working(d, l)
      BY <2>1, <2>3, <2>6 DEF Working
    <3>2. pos[l] = IF ord[d][l] = "filled" THEN 0 ELSE snap[d][l]
      BY <2>4, <2>6, <3>1 DEF Mirrored
    <3>3. pc[d] # "idle"
      BY <3>1 DEF Working, Placing
    <3>4. CASE l = k
      <4>1. d = c
        BY <2>5, <2>6, <3>3, <3>4
      <4>2. snap[c][k] \in Int /\ pos[k] = snap[c][k]
        BY <2>1, <3>2, <3>4, <4>1
      <4>3. pos'[k] = 0
        BY <2>2, <4>2, FilledFlat
      <4> QED BY <2>1, <3>4, <4>1, <4>3
    <3>5. CASE l # k
      BY <2>1, <2>2, <2>3, <3>2, <3>5
    <3> QED BY <3>4, <3>5
  <2> QED BY <2>6 DEF Mirrored
<1>6. ASSUME NEW k \in Keys, NEW n \in (-MaxQty..MaxQty) \ {0}, Trade(k, n) PROVE Mirrored'
  <2>1. /\ UNCHANGED <<pc, snap, ord>>
        /\ \A l \in Keys \ {k} : pos'[l] = pos[l]
        /\ \A d \in Calls : stale[d] \subseteq stale'[d] /\ (pc[d] # "idle" => k \in stale'[d])
    BY <1>6 DEF Trade, callVars
  <2>2. \A d \in Calls, l \in Keys : Working(d, l)' => Working(d, l) /\ pc[d] # "idle"
    BY <2>1 DEF Working, Placing
  <2> QED BY <2>1, <2>2 DEF Mirrored
<1>7. CASE Freeze \/ Unfreeze \/ UNCHANGED vars
  <2>1. UNCHANGED <<pc, snap, ord, stale, pos>>
    BY <1>7 DEF Freeze, Unfreeze, vars, callVars
  <2> QED BY <2>1 DEF Mirrored, Working
<1> QED BY <1>1, <1>2, <1>3, <1>4, <1>5, <1>6, <1>7 DEF Next, Run, Exchange

\* While frozen, a call sends at most the order riskguard had let through.
Halted ==
  frozen => \A c \in Calls : sent[c] <= 1 /\ (pc[c] = "place" => sent[c] = 0)

LEMMA HaltedNext ==
  ASSUME Typed, Halted, [Next]_vars
  PROVE  Halted'
<1> USE DEF Typed, CallTyped, CountsTyped, callVars
<1>1. ASSUME NEW c \in Calls, Place(c) PROVE Halted'
  BY <1>1 DEF Place, Halted
<1>2. ASSUME NEW c \in Calls,
             Fetch(c) \/ FetchFails(c) \/ Allows(c) \/ BlocksEntry(c) \/ BlocksCall(c)
               \/ CallFails(c) \/ CallSucceeds(c)
      PROVE  Halted'
  <2>1. UNCHANGED <<frozen, sent>>
    BY <1>2 DEF Fetch, FetchFails, Allows, BlocksEntry, BlocksCall, CallFails, CallSucceeds
  <2>2. frozen => \A d \in Calls : pc'[d] = "place" => pc[d] = "place"
    BY <1>2 DEF Fetch, FetchFails, Allows, BlocksEntry, BlocksCall, CallFails, CallSucceeds, Enter
  <2> QED BY <2>1, <2>2 DEF Halted
<1>3. ASSUME NEW c \in Calls, NEW k \in Keys, Exchange(c, k) PROVE Halted'
  BY <1>3 DEF Exchange, Accept, Fill, Void, Halted
<1>4. ASSUME NEW k \in Keys, NEW n \in (-MaxQty..MaxQty) \ {0}, Trade(k, n) PROVE Halted'
  BY <1>4 DEF Trade, Halted
<1>5. CASE Freeze
  BY <1>5 DEF Freeze, Halted
<1>6. CASE Unfreeze \/ UNCHANGED vars
  BY <1>6 DEF Unfreeze, vars, Halted
<1> QED BY <1>1, <1>2, <1>3, <1>4, <1>5, <1>6 DEF Next, Run

-----------------------------------------------------------------------------
(* The theorems.                                                           *)

\* The inductive invariant.
CloseInv ==
  /\ Typed /\ Placing /\ Mirrored /\ Halted
  /\ \A c \in Calls : Numbered(c) /\ Worked(c) /\ Counted(c) /\ Announced(c) /\ Ordered(c)

\* With nothing open there is nothing to close.
LEMMA NothingOpen ==
  ASSUME NEW q, NEW p, \A k \in Keys : p[k] = 0
  PROVE  Matched(q, p) = {}
BY DEF Matched, MatchAll, MatchOne, First

LEMMA CloseInvInit == Init => CloseInv
<1> SUFFICES ASSUME Init PROVE CloseInv
  OBVIOUS
<1>1. Typed /\ Placing
  BY TypedInit
<1>2. Mirrored /\ Halted
  BY DEF Init, Mirrored, Working, Halted
<1>3. ASSUME NEW c \in Calls
      PROVE  Numbered(c) /\ Worked(c) /\ Counted(c) /\ Announced(c) /\ Ordered(c)
  <2>1. /\ results[c] = <<>> /\ closed[c] = <<>> /\ queue[c] = {} /\ success[c] = 0
        /\ errors[c] = 0 /\ snap[c] = [k \in Keys |-> 0] /\ ord[c] = [k \in Keys |-> "none"]
    BY DEF Init
  <2>2. Elements(results[c]) = {} /\ Elements(closed[c]) = {}
    BY <2>1 DEF Elements
  <2>3. Entered(c) = {} /\ Won(c) = {}
    BY <2>2 DEF Entered, Won
  <2>4. Numbered(c) /\ Counted(c)
    BY <2>1, FS_EmptySet, ListedAssumption DEF Numbered, Counted
  <2>5. Worked(c)
    BY <2>1, <2>3, NothingOpen DEF Worked
  <2>6. Announced(c) /\ Ordered(c)
    BY <2>1, <2>2, <2>3 DEF Announced, Ordered
  <2> QED BY <2>4, <2>5, <2>6
<1> QED BY <1>1, <1>2, <1>3 DEF CloseInv

THEOREM CloseInvariant == Spec => []CloseInv
<1>1. CloseInv /\ [Next]_vars => CloseInv'
  BY TypedNext, PlacingNext, MirroredNext, HaltedNext, NumberedNext, WorkedNext, CountedNext,
     AnnouncedNext, OrderedNext DEF CloseInv
<1> QED BY CloseInvInit, <1>1, PTL DEF Spec

\* A call counts no more entries than there are positions.
THEOREM ClosesAreTyped == Spec => []TypeOK
<1>1. CloseInv => TypeOK
  <2> SUFFICES ASSUME CloseInv PROVE TypeOK
    OBVIOUS
  <2>1. ASSUME NEW c \in Calls PROVE success[c] \in 0..Listed /\ errors[c] \in 0..Listed
    <3>1. /\ success[c] \in Nat /\ errors[c] \in Nat /\ Len(results[c]) \in Nat
          /\ queue[c] \in SUBSET Keys
      BY DEF CloseInv, Typed, CallTyped, CountsTyped, ReportTyped
    <3>2. Cardinality(queue[c]) \in Nat
      BY <3>1, KeySets
    <3> QED BY <3>1, <3>2, ListedAssumption DEF CloseInv, Numbered, Counted
  <2>2. {success, errors} \subseteq [Calls -> 0..Listed]
    BY <2>1 DEF CloseInv, Typed, CountsTyped
  <2>3. breached \in [Calls -> 0..1]
    BY DEF CloseInv, Placing, Typed, CountsTyped
  <2> QED BY <2>2, <2>3
          DEF TypeOK, CloseInv, Typed, CallTyped, CountsTyped, ReportTyped, MarketTyped
<1> QED BY CloseInvariant, <1>1, PTL

\* What a call reports is what it did.
THEOREM ReportsAreTrue == Spec => []Accounting
<1>1. CloseInv => Accounting
  BY DEF CloseInv, Ordered, Accounting, Backed, Placed
<1> QED BY CloseInvariant, <1>1, PTL

\* A fill of a fresh snapshot leaves the position flat.
THEOREM FreshClosesFlatten == Spec => FreshCloseFlattens
<1>1. ASSUME CloseInv, CloseInv', [Next]_vars, NEW c \in Calls, NEW k \in Keys,
             ord[c][k] = "accepted", ord'[c][k] = "filled", k \notin stale[c]
      PROVE  pos'[k] = 0
  <2>1. stale'[c] = stale[c]
    <3> USE DEF CloseInv, Typed, MarketTyped
    <3>1. ASSUME NEW d \in Calls, Run(d) PROVE FALSE
      <4>1. CASE Place(d)
        BY <1>1, <4>1 DEF Place
      <4>2. CASE ~Place(d)
        <5>1. ord' = ord
          BY <3>1, <4>2 DEF Run, Fetch, FetchFails, Allows, BlocksEntry, BlocksCall,
                            CallFails, CallSucceeds
        <5> QED BY <1>1, <5>1
      <4> QED BY <4>1, <4>2
    <3>2. ASSUME NEW d \in Calls, NEW l \in Keys, Accept(d, l) \/ Void(d, l) PROVE FALSE
      <4>1. CASE d = c /\ l = k
        BY <1>1, <3>2, <4>1 DEF Accept, Void
      <4>2. CASE ~(d = c /\ l = k)
        <5>1. ord'[c][k] = ord[c][k]
          <6>1. CASE Accept(d, l)
            BY <4>2, <6>1 DEF Accept
          <6>2. CASE Void(d, l)
            BY <4>2, <6>2 DEF Void
          <6> QED BY <3>2, <6>1, <6>2
        <5> QED BY <1>1, <5>1
      <4> QED BY <4>1, <4>2
    <3>3. ASSUME NEW d \in Calls, NEW l \in Keys, Fill(d, l) PROVE stale'[c] = stale[c]
      <4>1. CASE d # c
        <5>1. ord'[c][k] = ord[c][k]
          BY <3>3, <4>1 DEF Fill
        <5> QED BY <1>1, <5>1
      <4>2. CASE d = c
        BY <3>3, <4>2 DEF Fill, Outdate
      <4> QED BY <4>1, <4>2
    <3>4. ASSUME NEW l \in Keys, NEW n \in (-MaxQty..MaxQty) \ {0}, Trade(l, n) PROVE FALSE
      BY <1>1, <3>4 DEF Trade
    <3>5. CASE Freeze \/ Unfreeze \/ UNCHANGED vars
      BY <1>1, <3>5 DEF Freeze, Unfreeze, vars
    <3> QED BY <1>1, <3>1, <3>2, <3>3, <3>4, <3>5 DEF Next, Exchange
  <2> QED BY <1>1, <2>1 DEF CloseInv, Mirrored, Working
<1>2. CloseInv /\ CloseInv' /\ [Next]_vars
        => [\A c \in Calls, k \in Keys :
              ord[c][k] = "accepted" /\ ord'[c][k] = "filled" /\ k \notin stale[c]
                => pos'[k] = 0]_vars
  BY <1>1
<1> QED BY CloseInvariant, <1>2, PTL DEF Spec, FreshCloseFlattens

\* A clean close-all leaves nothing open.
THEOREM CloseAllLeavesNothing == Spec => []CloseAllFlattens
<1>1. CloseInv => CloseAllFlattens
  <2> SUFFICES ASSUME CloseInv, NEW c \in Calls,
                      pc[c] = "done", req[c].kind = "closeAll", req[c].product = AnyProduct,
                      errors[c] = 0, stale[c] = {},
                      \A l \in Keys : ord[c][l] \in {"none", "filled"},
                      NEW k \in Keys
               PROVE  pos[k] = 0
    BY DEF CloseAllFlattens
  <2>1. pos[k] = IF ord[c][k] = "filled" THEN 0 ELSE snap[c][k]
    BY DEF CloseInv, Mirrored, Working
  <2>2. Won(c) = Matched(req[c], snap[c])
    BY DEF CloseInv, Placing, Worked, Ordered
  <2>3. snap[c][k] # 0 => k \in Won(c)
    BY <2>2 DEF Matched, MatchAll, Passes
  <2>4. k \in Won(c) => ord[c][k] = "filled"
    BY DEF CloseInv, Ordered, Placed
  <2> QED BY <2>1, <2>3, <2>4
<1> QED BY CloseInvariant, <1>1, PTL

\* The kill switch stops a running close-all.
THEOREM FreezeHalts == Spec => []FreezeStopsTheLoop
<1>1. CloseInv => FreezeStopsTheLoop
  BY DEF CloseInv, Halted, FreezeStopsTheLoop
<1> QED BY CloseInvariant, <1>1, PTL

=============================================================================
