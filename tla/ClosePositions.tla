--------------------------- MODULE ClosePositions ---------------------------
(***************************************************************************)
(* close_position and close_all_positions against one broker account.      *)
(* Each call takes one snapshot of the positions and then works from it,   *)
(* order by order, while other calls, the trader and the exchange change   *)
(* the account and an administrator may freeze it.  A MARKET order is      *)
(* accepted, and answered for, before the exchange fills it.  The event    *)
(* dispatcher and riskguard are presumed wired.                            *)
(***************************************************************************)
EXTENDS Integers, Sequences, FiniteSetsExt

CONSTANTS
  Calls,       \* invocations, each by its own goroutine
  Listed,      \* how many positions GetPositions lists
  Instrument,  \* the instrument of each position
  Product,     \* the product of each position
  AnyProduct,  \* no product filter: "" to close, "ALL" to close-all
  Served,      \* the use cases in play: "close", "closeAll"
  MaxQty,      \* bound on an initial or traded quantity
  MaxTrades    \* bound on trades made outside these use cases

ASSUME ListedAssumption == Listed \in Nat \ {0}
ASSUME BoundsAssumption == MaxQty \in Nat /\ MaxTrades \in Nat

Keys == 1..Listed   \* a position is known by its place in the list

VARIABLES
  pc, req,     \* where a call is, and what it was asked
  snap,        \* its copy of positions.Net
  queue,       \* the positions it has still to close, worked on in the order of the list
  results,     \* the entries made so far: key, and whether an OrderID came back
  success, errors,  \* successCount and errorCount
  closed,      \* PositionClosedEvents dispatched, in order
  breached,    \* RiskLimitBreachedEvents dispatched
  ord,         \* how far the order of a call for a key got
  pos,         \* the account: net quantity of each key
  stale,       \* history: keys whose quantity changed under a call's snapshot
  frozen,      \* riskguard's kill switch
  sent,        \* history: orders each call sent since the last freeze
  trades

callVars == <<pc, req, snap, queue, results, success, errors, closed, breached>>
vars     == <<callVars, ord, pos, stale, frozen, sent, trades>>

Products == {Product[k] : k \in Keys} \cup {AnyProduct}
Requests == [kind : Served, inst : {Instrument[k] : k \in Keys}, product : Products]

-----------------------------------------------------------------------------
\* Does the product filter let a position through?
Passes(q, k) == q.product = AnyProduct \/ q.product = Product[k]

First(hits) == IF hits = {} THEN {} ELSE {Min(hits)}

\* toClose: every open position the filter lets through.
MatchAll(q, p) == {k \in Keys : p[k] # 0 /\ Passes(q, k)}

\* matched: the first open position of the instrument that passes the filter.
MatchOne(q, p) == First({k \in MatchAll(q, p) : Instrument[k] = q.inst})

\* Broken variant: close-all, too, stops at the first match.
MatchedFirstOnly(q, p) == First(MatchAll(q, p))

Matched(q, p) == IF q.kind = "close" THEN MatchOne(q, p) ELSE MatchAll(q, p)

\* Broken variant: shorts are sold too.
SideSell(n) == "SELL"

\* The opposite MARKET order: its side, its quantity, and what filling it
\* does to a position.
Side(n)      == IF n > 0 THEN "SELL" ELSE "BUY"
Quantity(n)  == IF n < 0 THEN -n ELSE n
Filled(p, n) == IF Side(n) = "SELL" THEN p - Quantity(n) ELSE p + Quantity(n)

-----------------------------------------------------------------------------
Init ==
  /\ pc = [c \in Calls |-> "idle"]
  /\ req \in [Calls -> {q \in Requests : q.kind = "closeAll" => q.inst = Instrument[1]}]
  /\ snap = [c \in Calls |-> [k \in Keys |-> 0]]
  /\ queue = [c \in Calls |-> {}]
  /\ results = [c \in Calls |-> <<>>]
  /\ success = [c \in Calls |-> 0]
  /\ errors = [c \in Calls |-> 0]
  /\ closed = [c \in Calls |-> <<>>]
  /\ breached = [c \in Calls |-> 0]
  /\ ord = [c \in Calls |-> [k \in Keys |-> "none"]]
  /\ pos \in [Keys -> -MaxQty..MaxQty]
  /\ stale = [c \in Calls |-> {}]
  /\ frozen = FALSE
  /\ sent = [c \in Calls |-> 0]
  /\ trades = 0

-----------------------------------------------------------------------------
(* One call.                                                               *)

\* GetBrokerForEmail and GetPositions, then the filter over the snapshot; any
\* of them may end the call: the broker lookups fail, or nothing matches.
FetchFails(c) ==
  /\ pc[c] = "idle"
  /\ pc' = [pc EXCEPT ![c] = "failed"]
  /\ UNCHANGED <<req, snap, queue, results, success, errors, closed, breached, ord, pos,
                 stale, frozen, sent, trades>>

Fetch(c) ==
  /\ pc[c] = "idle"
  /\ snap' = [snap EXCEPT ![c] = pos]
  /\ queue' = [queue EXCEPT ![c] = Matched(req[c], pos)]
  /\ pc' = [pc EXCEPT ![c] = IF Matched(req[c], pos) # {} THEN "check"
                             ELSE IF req[c].kind = "close" THEN "failed" ELSE "done"]
  /\ UNCHANGED <<req, results, success, errors, closed, breached, ord, pos,
                 stale, frozen, sent, trades>>

\* Broken variant: the guard is asked once, for the first position.
AllowsOnce(c) ==
  /\ pc[c] = "check"
  /\ ~frozen \/ results[c] # <<>>
  /\ pc' = [pc EXCEPT ![c] = "place"]
  /\ UNCHANGED <<req, snap, queue, results, success, errors, closed, breached, ord, pos,
                 stale, frozen, sent, trades>>

\* CheckOrderCtx for the position at hand.
Allows(c) ==
  /\ pc[c] = "check"
  /\ ~frozen
  /\ pc' = [pc EXCEPT ![c] = "place"]
  /\ UNCHANGED <<req, snap, queue, results, success, errors, closed, breached, ord, pos,
                 stale, frozen, sent, trades>>

\* The position at hand.
AtHand(c) == Min(queue[c])

\* The entry for the position at hand is made; on to the next, or return.
Enter(c, ok) ==
  /\ results' = [results EXCEPT ![c] = Append(@, [key |-> AtHand(c), ok |-> ok])]
  /\ queue' = [queue EXCEPT ![c] = @ \ {AtHand(c)}]
  /\ pc' = [pc EXCEPT ![c] = IF queue[c] = {AtHand(c)} THEN "done" ELSE "check"]

\* Broken variant: a blocked position stays at the head of the loop.
BlocksEntryAgain(c) ==
  /\ pc[c] = "check"
  /\ req[c].kind = "closeAll"
  /\ errors' = [errors EXCEPT ![c] = @ + 1]
  /\ UNCHANGED <<pc, req, snap, queue, results, success, closed, breached, ord, pos,
                 stale, frozen, sent, trades>>

\* close-all: a blocked position is an entry with an error, and no event.
BlocksEntry(c) ==
  /\ pc[c] = "check"
  /\ req[c].kind = "closeAll"
  /\ errors' = [errors EXCEPT ![c] = @ + 1]
  /\ Enter(c, FALSE)
  /\ UNCHANGED <<req, snap, success, closed, breached, ord, pos, stale, frozen,
                 sent, trades>>

\* close: a blocked position is a breach event and an error.
BlocksCall(c) ==
  /\ pc[c] = "check"
  /\ req[c].kind = "close"
  /\ breached' = [breached EXCEPT ![c] = @ + 1]
  /\ pc' = [pc EXCEPT ![c] = "failed"]
  /\ UNCHANGED <<req, snap, queue, results, success, errors, closed, ord, pos,
                 stale, frozen, sent, trades>>

\* PlaceOrder puts the order on the wire.
Place(c) ==
  /\ pc[c] = "place"
  /\ pc' = [pc EXCEPT ![c] = "call"]
  /\ ord' = [ord EXCEPT ![c][AtHand(c)] = "sent"]
  /\ sent' = [sent EXCEPT ![c] = @ + 1]
  /\ UNCHANGED <<req, snap, queue, results, success, errors, closed, breached, pos,
                 stale, frozen, trades>>

\* Broken variant: an order that errors is counted on both sides.
CallFailsCountedTwice(c) ==
  /\ pc[c] = "call"
  /\ errors' = [errors EXCEPT ![c] = @ + 1]
  /\ success' = [success EXCEPT ![c] = @ + 1]
  /\ Enter(c, FALSE)
  /\ UNCHANGED <<req, snap, closed, breached, ord, pos, stale, frozen, sent, trades>>

\* Broken variant: the client waits for the broker for ever.
CallFailsIfRefused(c) ==
  /\ pc[c] = "call"
  /\ ord[c][AtHand(c)] = "refused"
  /\ errors' = [errors EXCEPT ![c] = @ + 1]
  /\ Enter(c, FALSE)
  /\ UNCHANGED <<req, snap, success, closed, breached, ord, pos, stale, frozen,
                 sent, trades>>

\* placeErr # nil: close-all makes an error entry and goes on, close returns
\* the error.  The broker may have accepted the order all the same.
CallFails(c) ==
  /\ pc[c] = "call"
  /\ IF req[c].kind = "closeAll"
       THEN /\ errors' = [errors EXCEPT ![c] = @ + 1]
            /\ Enter(c, FALSE)
       ELSE /\ pc' = [pc EXCEPT ![c] = "failed"]
            /\ UNCHANGED <<errors, results, queue>>
  /\ UNCHANGED <<req, snap, success, closed, breached, ord, pos, stale, frozen,
                 sent, trades>>

\* The order was accepted: OrderID, success and PositionClosedEvent.
CallSucceeds(c) ==
  LET k == AtHand(c) IN
  /\ pc[c] = "call"
  /\ ord[c][k] \in {"accepted", "filled", "voided"}
  /\ success' = [success EXCEPT ![c] = @ + 1]
  /\ closed' = [closed EXCEPT ![c] = Append(@, k)]
  /\ Enter(c, TRUE)
  /\ UNCHANGED <<req, snap, errors, breached, ord, pos, stale, frozen, sent, trades>>

-----------------------------------------------------------------------------
(* The broker, the exchange, the trader and the administrator.             *)

Accept(c, k) ==
  /\ ord[c][k] = "sent"
  /\ \E answer \in {"accepted", "refused"} : ord' = [ord EXCEPT ![c][k] = answer]
  /\ UNCHANGED <<callVars, pos, stale, frozen, sent, trades>>

\* Somebody's change to a position makes every other snapshot of it stale.
Outdate(k, by) ==
  stale' = [c \in Calls |-> IF c # by /\ pc[c] # "idle" THEN stale[c] \cup {k} ELSE stale[c]]

Fill(c, k) ==
  /\ ord[c][k] = "accepted"
  /\ ord' = [ord EXCEPT ![c][k] = "filled"]
  /\ pos' = [pos EXCEPT ![k] = Filled(@, snap[c][k])]
  /\ Outdate(k, c)
  /\ UNCHANGED <<callVars, frozen, sent, trades>>

Void(c, k) ==
  /\ ord[c][k] = "accepted"
  /\ ord' = [ord EXCEPT ![c][k] = "voided"]
  /\ UNCHANGED <<callVars, pos, stale, frozen, sent, trades>>

Trade(k, n) ==
  /\ trades < MaxTrades
  /\ trades' = trades + 1
  /\ pos' = [pos EXCEPT ![k] = @ + n]
  /\ stale' = [c \in Calls |-> IF pc[c] # "idle" THEN stale[c] \cup {k} ELSE stale[c]]
  /\ UNCHANGED <<callVars, ord, frozen, sent>>

Freeze ==
  /\ ~frozen
  /\ frozen' = TRUE
  /\ sent' = [c \in Calls |-> 0]
  /\ UNCHANGED <<callVars, ord, pos, stale, trades>>

Unfreeze ==
  /\ frozen
  /\ frozen' = FALSE
  /\ UNCHANGED <<callVars, ord, pos, stale, sent, trades>>

-----------------------------------------------------------------------------
Run(c) ==
  \/ Fetch(c) \/ FetchFails(c) \/ Allows(c) \/ BlocksEntry(c) \/ BlocksCall(c)
  \/ Place(c) \/ CallFails(c) \/ CallSucceeds(c)

Exchange(c, k) == Accept(c, k) \/ Fill(c, k) \/ Void(c, k)

Next ==
  \/ \E c \in Calls : Run(c)
  \/ \E c \in Calls, k \in Keys : Exchange(c, k)
  \/ \E k \in Keys, n \in (-MaxQty..MaxQty) \ {0} : Trade(k, n)
  \/ Freeze \/ Unfreeze

Spec == Init /\ [][Next]_vars

\* Goroutines run, and the broker client gives up by its own timeout.
FairSpec == Spec /\ \A c \in Calls : WF_vars(Run(c))

-----------------------------------------------------------------------------
(* Properties.                                                             *)

Elements(s) == {s[i] : i \in 1..Len(s)}

\* Every variable has its type: a call counts no more entries than there are
\* positions, and reports at most one breach.
TypeOK ==
  /\ pc \in [Calls -> {"idle", "check", "place", "call", "done", "failed"}]
  /\ req \in [Calls -> Requests]
  /\ snap \in [Calls -> [Keys -> Int]]
  /\ queue \in [Calls -> SUBSET Keys]
  /\ results \in [Calls -> Seq([key : Keys, ok : BOOLEAN])]
  /\ closed \in [Calls -> Seq(Keys)]
  /\ {success, errors} \subseteq [Calls -> 0..Listed]
  /\ breached \in [Calls -> 0..1]
  /\ sent \in [Calls -> Nat]
  /\ ord \in [Calls -> [Keys -> {"none", "sent", "accepted", "refused", "filled", "voided"}]]
  /\ pos \in [Keys -> Int]
  /\ stale \in [Calls -> SUBSET Keys]
  /\ frozen \in BOOLEAN
  /\ trades \in 0..MaxTrades

Entered(c) == {e.key : e \in Elements(results[c])}
Won(c)     == {e.key : e \in {x \in Elements(results[c]) : x.ok}}
Placed(c)  == {k \in Keys : ord[c][k] \in {"accepted", "filled", "voided"}}
InHand(c)  == IF pc[c] \in {"call", "failed"} /\ queue[c] # {} THEN {AtHand(c)} ELSE {}

\* The entries made and the positions left are the matched ones, once each and
\* in the order of the list.
Worked(c) ==
  /\ Entered(c) \cup queue[c] = Matched(req[c], snap[c])
  /\ \A i, j \in DOMAIN results[c] : i < j => results[c][i].key < results[c][j].key
  /\ \A k \in Entered(c), l \in queue[c] : k < l

\* The counts add up to the entries.
Counted(c) ==
  /\ success[c] + errors[c] = Len(results[c])
  /\ success[c] = Len(closed[c])

\* PositionClosedEvents are exactly the entries with an OrderID, in order.
Announced(c) ==
  /\ Elements(closed[c]) = Won(c)
  /\ \A i, j \in DOMAIN closed[c] : i < j => closed[c][i] < closed[c][j]

\* An entry with an OrderID has an order the broker accepted, and such an order
\* exists for no other position unless its entry, or the call, ended in an error.
Backed(c) == Won(c) \subseteq Placed(c) /\ Placed(c) \subseteq Entered(c) \cup InHand(c)

\* What a call reports is what it did, at any point of its loop.
Accounting == \A c \in Calls : Worked(c) /\ Counted(c) /\ Announced(c) /\ Backed(c)

\* A close never turns a position round, nor leaves part of it open, unless
\* the position changed between its snapshot and its fill: a fill of a fresh
\* snapshot leaves the position flat.
FreshCloseFlattens ==
  [][\A c \in Calls, k \in Keys :
       ord[c][k] = "accepted" /\ ord'[c][k] = "filled" /\ k \notin stale[c]
         => pos'[k] = 0]_vars

\* Nobody else at the account: close-all without a filter, all of whose
\* orders were accepted and filled, leaves nothing open.
CloseAllFlattens ==
  \A c \in Calls :
    /\ pc[c] = "done" /\ req[c].kind = "closeAll" /\ req[c].product = AnyProduct
    /\ errors[c] = 0 /\ stale[c] = {}
    /\ \A k \in Keys : ord[c][k] \in {"none", "filled"}
    => \A k \in Keys : pos[k] = 0

\* The kill switch stops a running close-all between two positions: the call
\* gets at most the one order out that riskguard had already let through.
FreezeStopsTheLoop ==
  frozen => \A c \in Calls : sent[c] <= 1

\* Every call that matched something comes to an end, whatever the broker
\* refuses and riskguard blocks.
CallEnds ==
  \A c \in Calls : pc[c] = "check" ~> pc[c] \in {"done", "failed"}

=============================================================================
