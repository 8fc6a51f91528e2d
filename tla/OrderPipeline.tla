--------------------------- MODULE OrderPipeline ---------------------------
(***************************************************************************)
(* The order use cases place_order, modify_order and cancel_order, each    *)
(* request a goroutine running one Execute: validate, ask riskguard,       *)
(* resolve the broker, call it, dispatch domain events, append an audit    *)
(* row through the outbox.  The steps are the points where Execute leaves  *)
(* its own frame, so requests interleave there, and the process may crash  *)
(* there.  Broker, riskguard and event store live outside this repository  *)
(* and are modelled from how Execute uses them.                            *)
(***************************************************************************)
EXTENDS Naturals, Sequences

CONSTANTS
  Reqs,             \* requests served, each by one goroutine
  Orders,           \* order ids the broker knows or may assign
  NoOrder,          \* the empty order id
  Ops,              \* the use cases served: place, modify, cancel
  GuardConfigured,  \* uc.riskguard # nil
  MaxCrashes        \* bound on process crashes

ASSUME NoOrderAssumption == NoOrder \notin Orders
ASSUME OpsAssumption == Ops \subseteq {"place", "modify", "cancel"}
ASSUME GuardAssumption == GuardConfigured \in BOOLEAN
ASSUME CrashAssumption == MaxCrashes \in Nat

VARIABLES
  pc,          \* where each request's goroutine is
  op,          \* the use case a request runs
  order,       \* the order it names, or the id the broker assigned
  wire,        \* how far its broker call got
  out,         \* what Execute has decided to return
  todo,        \* events still to dispatch
  seq,         \* the sequence number NextSequence gave it
  events,      \* history: the events dispatched for each request
  faults,      \* history: store calls of each request that failed
  book,        \* the broker's orders
  frozen,      \* riskguard's kill switch
  underFreeze, \* history: requests under one freeze since they began
  wired,       \* which of the two setters have been called
  wiredAt,     \* history: what was wired when a request began
  pred,        \* history: requests that had returned when it began
  outbox, log, \* the durable audit rows: staged, and drained
  crashes

reqVars    == <<pc, op, order, wire, out, todo, seq>>
storeVars  == <<outbox, log, faults>>
envVars    == <<frozen, underFreeze, wired, wiredAt, pred, crashes>>
vars       == <<reqVars, book, storeVars, envVars, events>>

-----------------------------------------------------------------------------
(* What each Execute does at the points where the three differ.  Here and  *)
(* below, the definitions marked as broken variants take no part in the    *)
(* specification: they stand in for the definition after them when a       *)
(* property is tested.                                                     *)

\* Broken variants: the two events swapped; a modify that skips riskguard.

PlaceOrderSwapped     == [guarded |-> TRUE,
                          success |-> <<"PositionOpened", "OrderPlaced">>]
ModifyOrderUnguarded  == [guarded |-> FALSE, success |-> <<"OrderModified">>]

PlaceOrder  == [guarded |-> TRUE,
                success |-> <<"OrderPlaced", "PositionOpened">>]
ModifyOrder == [guarded |-> TRUE,  success |-> <<"OrderModified">>]
CancelOrder == [guarded |-> FALSE, success |-> <<"OrderCancelled">>]

UseCase == [place |-> PlaceOrder, modify |-> ModifyOrder, cancel |-> CancelOrder]

\* Broken variant: the row is keyed by the command's order id, empty here.
PlacedRowWithoutId(r, via) ==
  [req |-> r, agg |-> NoOrder, type |-> "order.placed", seq |-> seq[r], via |-> via]

\* The StoredEvent each of the append...Event helpers builds, with the store
\* call that wrote it: the outbox INSERT or the direct Append.
PlacedRow(r, via) ==
  [req |-> r, agg |-> order[r], type |-> "order.placed", seq |-> seq[r], via |-> via]
ModifiedRow(r, via) ==
  [req |-> r, agg |-> order[r], type |-> "order.modified", seq |-> seq[r], via |-> via]
CancelledRow(r, via) ==
  [req |-> r, agg |-> order[r], type |-> "order.cancelled", seq |-> seq[r], via |-> via]

Row(r, via) == CASE op[r] = "place"  -> PlacedRow(r, via)
                 [] op[r] = "modify" -> ModifiedRow(r, via)
                 [] op[r] = "cancel" -> CancelledRow(r, via)

RowType == [place |-> "order.placed", modify |-> "order.modified",
            cancel |-> "order.cancelled"]

Rows == [req : Reqs, agg : Orders, seq : Nat,
         type : {"order.placed", "order.modified", "order.cancelled"},
         via : {"outbox", "append"}]

\* uc.events may still be nil: nothing is then dispatched.
IfWired(es) == IF "events" \in wired THEN es ELSE <<>>

-----------------------------------------------------------------------------
Init ==
  /\ pc = [r \in Reqs |-> "idle"]
  /\ op = [r \in Reqs |-> "none"]
  /\ order = [r \in Reqs |-> NoOrder]
  /\ wire = [r \in Reqs |-> "unsent"]
  /\ out = [r \in Reqs |-> "none"]
  /\ todo = [r \in Reqs |-> <<>>]
  /\ seq = [r \in Reqs |-> 0]
  /\ events = [r \in Reqs |-> <<>>]
  /\ faults = [r \in Reqs |-> {}]
  /\ book \in [Orders -> {"none", "open"}]
  /\ frozen = FALSE
  /\ underFreeze = {}
  /\ wired = {}
  /\ wiredAt = [r \in Reqs |-> {}]
  /\ pred = [r \in Reqs |-> {}]
  /\ outbox = {}
  /\ log = {}
  /\ crashes = 0

-----------------------------------------------------------------------------
(* One request.                                                            *)

\* Where a request that passed its input checks goes.
AfterValidation(k) == IF UseCase[k].guarded /\ GuardConfigured THEN "risk" ELSE "resolve"

\* A command arrives and its input is checked, which reads nothing but the
\* command and instrument metadata: it may fail, and that ends the request.
\* place names no order, the others name one the broker has.
Begin(r, k, o) ==
  /\ pc[r] = "idle"
  /\ IF k = "place" THEN o = NoOrder ELSE o \in Orders /\ book[o] # "none"
  /\ op' = [op EXCEPT ![r] = k]
  /\ order' = [order EXCEPT ![r] = o]
  /\ \/ pc' = [pc EXCEPT ![r] = AfterValidation(k)] /\ UNCHANGED out
     \/ pc' = [pc EXCEPT ![r] = "done"] /\ out' = [out EXCEPT ![r] = "invalid"]
  /\ wiredAt' = [wiredAt EXCEPT ![r] = wired]
  /\ underFreeze' = IF frozen THEN underFreeze \cup {r} ELSE underFreeze
  /\ pred' = [pred EXCEPT ![r] = {q \in Reqs : pc[q] = "done"}]
  /\ UNCHANGED <<wire, todo, seq, book, storeVars, events, frozen, wired, crashes>>

\* CheckOrderCtx: a frozen account is refused, and other limits may refuse.
RiskAllows(r) ==
  /\ pc[r] = "risk"
  /\ ~frozen
  /\ pc' = [pc EXCEPT ![r] = "resolve"]
  /\ UNCHANGED <<op, order, wire, out, todo, seq, book, storeVars,
                 events, envVars>>

RiskBlocks(r) ==
  /\ pc[r] = "risk"
  /\ out' = [out EXCEPT ![r] = "blocked"]
  /\ todo' = [todo EXCEPT ![r] = IfWired(<<"RiskLimitBreached">>)]
  /\ pc' = [pc EXCEPT ![r] = "dispatch"]
  /\ UNCHANGED <<op, order, wire, seq, book, storeVars, events, envVars>>

\* GetBrokerForEmail fails, or finds the client and the call is on the wire.
ResolveFails(r) ==
  /\ pc[r] = "resolve"
  /\ pc' = [pc EXCEPT ![r] = "done"]
  /\ out' = [out EXCEPT ![r] = "unresolved"]
  /\ UNCHANGED <<op, order, wire, todo, seq, book, storeVars, events, envVars>>

CallBroker(r) ==
  /\ pc[r] = "resolve"
  /\ pc' = [pc EXCEPT ![r] = "call"]
  /\ wire' = [wire EXCEPT ![r] = "sent"]
  /\ UNCHANGED <<op, order, out, todo, seq, book, storeVars, events, envVars>>

\* The broker applies a call it has received, also when nobody waits for it.
BrokerApplies(r) ==
  /\ wire[r] = "sent"
  /\ \E o \in Orders :
       /\ IF op[r] = "place" THEN book[o] = "none"
                             ELSE o = order[r] /\ book[o] = "open"
       /\ order' = [order EXCEPT ![r] = IF pc[r] = "call" THEN o ELSE order[r]]
       /\ book' = [book EXCEPT ![o] = IF op[r] = "cancel" THEN "cancelled" ELSE "open"]
  /\ wire' = [wire EXCEPT ![r] = "applied"]
  /\ UNCHANGED <<pc, op, out, todo, seq, storeVars, events, envVars>>

BrokerRefuses(r) ==
  /\ wire[r] = "sent"
  /\ wire' = [wire EXCEPT ![r] = "refused"]
  /\ UNCHANGED <<pc, op, order, out, todo, seq, book, storeVars, events, envVars>>

\* Broken variant: the answer's err is not looked at.
CallSucceedsUnchecked(r) ==
  /\ pc[r] = "call"
  /\ out' = [out EXCEPT ![r] = "ok"]
  /\ todo' = [todo EXCEPT ![r] = IfWired(UseCase[op[r]].success)]
  /\ pc' = [pc EXCEPT ![r] = "dispatch"]
  /\ UNCHANGED <<op, order, wire, seq, book, storeVars, events, envVars>>

\* err = nil: the broker's answer arrived and it is a success.
CallSucceeds(r) ==
  /\ pc[r] = "call"
  /\ wire[r] = "applied"
  /\ out' = [out EXCEPT ![r] = "ok"]
  /\ todo' = [todo EXCEPT ![r] = IfWired(UseCase[op[r]].success)]
  /\ pc' = [pc EXCEPT ![r] = "dispatch"]
  /\ UNCHANGED <<op, order, wire, seq, book, storeVars, events, envVars>>

\* Broken variant: the client waits for the broker for ever.
CallFailsIfRefused(r) ==
  /\ pc[r] = "call"
  /\ wire[r] = "refused"
  /\ out' = [out EXCEPT ![r] = "failed"]
  /\ todo' = [todo EXCEPT ![r] = IfWired(<<"OrderRejected">>)]
  /\ pc' = [pc EXCEPT ![r] = "dispatch"]
  /\ UNCHANGED <<op, order, wire, seq, book, storeVars, events, envVars>>

\* err # nil: the broker refused, or the answer was lost or came too late.
CallFails(r) ==
  /\ pc[r] = "call"
  /\ out' = [out EXCEPT ![r] = "failed"]
  /\ todo' = [todo EXCEPT ![r] = IfWired(<<"OrderRejected">>)]
  /\ pc' = [pc EXCEPT ![r] = "dispatch"]
  /\ UNCHANGED <<op, order, wire, seq, book, storeVars, events, envVars>>

Dispatch(r) ==
  /\ pc[r] = "dispatch"
  /\ todo[r] # <<>>
  /\ events' = [events EXCEPT ![r] = Append(@, Head(todo[r]))]
  /\ todo' = [todo EXCEPT ![r] = Tail(@)]
  /\ UNCHANGED <<pc, op, order, wire, out, seq, book, storeVars, envVars>>

\* Every failing path returns its error once its event is out.
ReturnError(r) ==
  /\ pc[r] = "dispatch"
  /\ todo[r] = <<>>
  /\ out[r] # "ok"
  /\ pc' = [pc EXCEPT ![r] = "done"]
  /\ UNCHANGED <<op, order, wire, out, todo, seq, book, storeVars, events, envVars>>

-----------------------------------------------------------------------------
(* The audit append of a request that succeeded.  Its failures are logged  *)
(* and swallowed: Execute returns success whatever happens here.           *)

\* Broken variant: the rows still staged in the outbox are not counted.
NextSequenceOfDrained(o) ==
  LET used == {row.seq : row \in {x \in log : x.agg = o}}
  IN  {n \in {m + 1 : m \in used \cup {0}} : \A m \in used : m < n}

\* One more than the last row the store holds for an order, staged ones
\* included: a set of one number.
NextSequence(o) ==
  LET used == {row.seq : row \in {x \in outbox \cup log : x.agg = o}}
  IN  {n \in {m + 1 : m \in used \cup {0}} : \A m \in used : m < n}

AskSequence(r) ==
  /\ pc[r] = "dispatch"
  /\ todo[r] = <<>>
  /\ out[r] = "ok"
  /\ \/ "store" \notin wired
        /\ pc' = [pc EXCEPT ![r] = "done"]
        /\ UNCHANGED <<seq, faults>>
     \/ "store" \in wired
        /\ pc' = [pc EXCEPT ![r] = "outbox"]
        /\ \E n \in NextSequence(order[r]) : seq' = [seq EXCEPT ![r] = n]
        /\ UNCHANGED faults
     \/ "store" \in wired
        /\ pc' = [pc EXCEPT ![r] = "done"]
        /\ faults' = [faults EXCEPT ![r] = @ \cup {"sequence"}]
        /\ UNCHANGED seq
  /\ UNCHANGED <<op, order, wire, out, todo, book, outbox, log, events, envVars>>

\* Broken variants: the direct append follows whether or not the outbox
\* took the row; and it never follows.
AppendToBoth(r) ==
  /\ pc[r] = "outbox"
  /\ pc' = [pc EXCEPT ![r] = "fallback"]
  /\ \/ outbox' = outbox \cup {Row(r, "outbox")} /\ UNCHANGED faults
     \/ faults' = [faults EXCEPT ![r] = @ \cup {"outbox"}] /\ UNCHANGED outbox
  /\ UNCHANGED <<op, order, wire, out, todo, seq, book, log, events, envVars>>

AppendToOutboxOnly(r) ==
  /\ pc[r] = "outbox"
  /\ pc' = [pc EXCEPT ![r] = "done"]
  /\ \/ outbox' = outbox \cup {Row(r, "outbox")} /\ UNCHANGED faults
     \/ faults' = [faults EXCEPT ![r] = @ \cup {"outbox"}] /\ UNCHANGED outbox
  /\ UNCHANGED <<op, order, wire, out, todo, seq, book, log, events, envVars>>

\* The INSERT of the outbox row commits, and Execute still waits for the
\* store to say so; or it fails and stages nothing.
AppendToOutbox(r) ==
  /\ pc[r] = "outbox"
  /\ \/ outbox' = outbox \cup {Row(r, "outbox")}
        /\ pc' = [pc EXCEPT ![r] = "staged"]
        /\ UNCHANGED faults
     \/ pc' = [pc EXCEPT ![r] = "fallback"]
        /\ faults' = [faults EXCEPT ![r] = @ \cup {"outbox"}]
        /\ UNCHANGED outbox
  /\ UNCHANGED <<op, order, wire, out, todo, seq, book, log, events, envVars>>

\* The row is staged, but AppendToOutbox reports an error all the same.
OutboxAnswerLost(r) ==
  /\ pc[r] = "staged"
  /\ pc' = [pc EXCEPT ![r] = "fallback"]
  /\ faults' = [faults EXCEPT ![r] = @ \cup {"answer"}]
  /\ UNCHANGED <<op, order, wire, out, todo, seq, book, outbox, log, events, envVars>>

\* The direct Append commits, or fails and stores nothing.
FallbackAppend(r) ==
  /\ pc[r] = "fallback"
  /\ \/ log' = log \cup {Row(r, "append")}
        /\ pc' = [pc EXCEPT ![r] = "appended"]
        /\ UNCHANGED faults
     \/ pc' = [pc EXCEPT ![r] = "done"]
        /\ faults' = [faults EXCEPT ![r] = @ \cup {"append"}]
        /\ UNCHANGED log
  /\ UNCHANGED <<op, order, wire, out, todo, seq, book, outbox, events, envVars>>

\* The store call that committed the row returns, and Execute with it; what
\* Append answers is only logged.
ReturnSuccess(r) ==
  /\ pc[r] \in {"staged", "appended"}
  /\ pc' = [pc EXCEPT ![r] = "done"]
  /\ UNCHANGED <<op, order, wire, out, todo, seq, book, storeVars, events, envVars>>

-----------------------------------------------------------------------------
(* What happens around the requests.                                       *)

\* The async pump moves a staged row into domain_events.
Pump(row) ==
  /\ row \in outbox
  /\ outbox' = outbox \ {row}
  /\ log' = log \cup {row}
  /\ UNCHANGED <<reqVars, book, faults, events, envVars>>

\* riskguard's kill switch; without a guard there is none to pull.
Freeze ==
  /\ GuardConfigured
  /\ ~frozen
  /\ frozen' = TRUE
  /\ UNCHANGED <<reqVars, book, storeVars, events, underFreeze, wired,
                 wiredAt, pred, crashes>>

Unfreeze ==
  /\ frozen
  /\ frozen' = FALSE
  /\ underFreeze' = {}
  /\ UNCHANGED <<reqVars, book, storeVars, events, wired, wiredAt, pred, crashes>>

\* SetEventDispatcher and SetEventStore, after the use case is constructed.
SetEventDispatcher ==
  /\ "events" \notin wired
  /\ wired' = wired \cup {"events"}
  /\ UNCHANGED <<reqVars, book, storeVars, events, frozen, underFreeze,
                 wiredAt, pred, crashes>>

SetEventStore ==
  /\ "store" \notin wired
  /\ wired' = wired \cup {"store"}
  /\ UNCHANGED <<reqVars, book, storeVars, events, frozen, underFreeze,
                 wiredAt, pred, crashes>>

\* Broken variant: the staged rows were only in memory.
CrashLosesOutbox ==
  /\ crashes < MaxCrashes
  /\ crashes' = crashes + 1
  /\ pc' = [r \in Reqs |-> IF pc[r] \in {"idle", "done"} THEN pc[r] ELSE "crashed"]
  /\ todo' = [r \in Reqs |-> <<>>]
  /\ wired' = {}
  /\ outbox' = {}
  /\ UNCHANGED <<op, order, wire, out, seq, book, log, faults, events,
                 frozen, underFreeze, wiredAt, pred>>

\* The process dies and restarts: goroutines and wiring are gone, the audit
\* tables, the broker and the calls already on the wire are not.
Crash ==
  /\ crashes < MaxCrashes
  /\ crashes' = crashes + 1
  /\ pc' = [r \in Reqs |-> IF pc[r] \in {"idle", "done"} THEN pc[r] ELSE "crashed"]
  /\ todo' = [r \in Reqs |-> <<>>]
  /\ wired' = {}
  /\ UNCHANGED <<op, order, wire, out, seq, book, storeVars, events,
                 frozen, underFreeze, wiredAt, pred>>

-----------------------------------------------------------------------------
\* What the goroutine of a request that has begun does next.
Run(r) ==
  \/ RiskAllows(r) \/ RiskBlocks(r) \/ ResolveFails(r) \/ CallBroker(r)
  \/ CallSucceeds(r) \/ CallFails(r) \/ Dispatch(r) \/ ReturnError(r)
  \/ AskSequence(r) \/ AppendToOutbox(r) \/ OutboxAnswerLost(r)
  \/ FallbackAppend(r) \/ ReturnSuccess(r)

Broker(r) == BrokerApplies(r) \/ BrokerRefuses(r)

Next ==
  \/ \E r \in Reqs, k \in Ops, o \in Orders \cup {NoOrder} : Begin(r, k, o)
  \/ \E r \in Reqs : Run(r) \/ Broker(r)
  \/ \E row \in outbox : Pump(row)
  \/ Freeze \/ Unfreeze \/ SetEventDispatcher \/ SetEventStore \/ Crash

Spec == Init /\ [][Next]_vars

\* The scheduler runs every goroutine, the broker client gives up by its own
\* timeout (CallFails), and the pump keeps draining.
FairSpec ==
  /\ Spec
  /\ \A r \in Reqs : WF_vars(Run(r))
  /\ WF_vars(\E row \in outbox : Pump(row))

-----------------------------------------------------------------------------
(* Properties.                                                             *)

EventKinds == {"OrderPlaced", "PositionOpened", "OrderModified",
               "OrderCancelled", "OrderRejected", "RiskLimitBreached"}

\* Every variable has its type.
TypeOK ==
  /\ pc \in [Reqs -> {"idle", "risk", "resolve", "call", "dispatch",
                      "outbox", "staged", "fallback", "appended", "done",
                      "crashed"}]
  /\ op \in [Reqs -> Ops \cup {"none"}]
  /\ order \in [Reqs -> Orders \cup {NoOrder}]
  /\ wire \in [Reqs -> {"unsent", "sent", "applied", "refused"}]
  /\ out \in [Reqs -> {"none", "invalid", "blocked", "unresolved", "failed", "ok"}]
  /\ todo \in [Reqs -> Seq(EventKinds)]
  /\ seq \in [Reqs -> Nat]
  /\ events \in [Reqs -> Seq(EventKinds)]
  /\ faults \in [Reqs -> SUBSET {"sequence", "outbox", "answer", "append"}]
  /\ book \in [Orders -> {"none", "open", "cancelled"}]
  /\ frozen \in BOOLEAN
  /\ underFreeze \in SUBSET Reqs
  /\ wired \in SUBSET {"events", "store"}
  /\ wiredAt \in [Reqs -> SUBSET {"events", "store"}]
  /\ pred \in [Reqs -> SUBSET Reqs]
  /\ outbox \in SUBSET Rows
  /\ log \in SUBSET Rows
  /\ crashes \in 0..MaxCrashes

Trail == outbox \cup log

Recorded(r) == \E row \in Trail : row.req = r

\* The audit trail tells no lies, across crashes and store failures: a row
\* stands for a request the broker applied and whose caller was told "ok" or,
\* the process having died behind the INSERT, nothing, but never an error; it
\* names the order, the change and the place in the order's history.  No row
\* is both staged and drained, and a request has two only where the store
\* took the outbox row and answered with an error (appendPlacedEvent then
\* takes its fallback).
AuditSound ==
  /\ \A row \in Trail :
       /\ wire[row.req] = "applied"
       /\ out[row.req] = "ok"
       /\ row.agg = order[row.req]
       /\ row.type = RowType[op[row.req]]
       /\ row.seq = seq[row.req]
  /\ \A x, y \in Trail : x.req = y.req /\ x # y => "answer" \in faults[x.req]
  /\ outbox \cap log = {}

\* The audit-loss window is no wider than appendPlacedEvent's comment has it:
\* an applied request without a row is still running, died before a store
\* call of its own committed the row, was reported to its caller as failed, began before the store
\* was wired, or met a store that failed NextSequence or both appends.
AuditComplete ==
  \A r \in Reqs :
    wire[r] = "applied" /\ pc[r] = "done" /\ ~Recorded(r)
      => \/ out[r] = "failed"
         \/ "store" \notin wiredAt[r]
         \/ "sequence" \in faults[r]
         \/ {"outbox", "append"} \subseteq faults[r]

\* What a use case owes its subscribers once it has decided what to return.
SuccessEvents == [place  |-> <<"OrderPlaced", "PositionOpened">>,
                  modify |-> <<"OrderModified">>,
                  cancel |-> <<"OrderCancelled">>]
Owed(r) ==
  CASE out[r] = "ok"      -> SuccessEvents[op[r]]
    [] out[r] = "failed"  -> <<"OrderRejected">>
    [] out[r] = "blocked" -> <<"RiskLimitBreached">>
    [] OTHER              -> <<>>

\* Subscribers (fill watcher, projector) never see the events of two outcomes
\* of one request, nor OrderPlaced after PositionOpened; a request that began
\* after SetEventDispatcher returns, and its audit row appears, only when all
\* its events are out, so no row a crash leaves behind is ahead of them.
\* Events of a request begun before may be missing, never wrong.
EventProtocol ==
  \A r \in Reqs :
    /\ \E n \in 0..Len(Owed(r)) : events[r] = SubSeq(Owed(r), 1, n)
    /\ "events" \in wiredAt[r] /\ (pc[r] = "done" \/ Recorded(r))
         => events[r] = Owed(r)

\* The kill switch: a place or modify that began under a freeze that still
\* holds has not touched the broker, whatever was in flight when it was
\* pulled.  A cancel, which Execute never sends through riskguard, may.
FreezeBarrier ==
  \A r \in underFreeze :
    GuardConfigured /\ wire[r] # "unsent" => op[r] = "cancel"

\* If one request on an order returned before another began, their rows
\* replay in that order, however late the pump drains them.
RealTimeSequence ==
  \A x, y \in Trail :
    x.agg = y.agg /\ x.req \in pred[y.req] => x.seq < y.seq

\* What has become of a request, for its caller.
Verdict(r) ==
  CASE pc[r] = "done" /\ out[r] = "ok" -> "ok"
    [] pc[r] = "done" /\ out[r] # "ok" -> "error"
    [] pc[r] = "crashed"               -> "gone"
    [] OTHER                           -> "open"

\* The order use cases implement AuditedMutation.
Promise == INSTANCE AuditedMutation WITH
  effect   <- {r \in Reqs : wire[r] = "applied"},
  recorded <- {r \in Reqs : Recorded(r)},
  verdict  <- [r \in Reqs |-> Verdict(r)]

ImplementsPromise == Promise!Spec

\* Every request that begins is answered or dies with its process: Execute
\* has no wait but the broker call, which ends by the client's timeout.
RequestReturns ==
  \A r \in Reqs : pc[r] # "idle" ~> pc[r] \in {"done", "crashed"}

\* A success whose appends the store did not refuse ends in domain_events,
\* also when the process dies after staging it (session_usecases.go: "crash
\* recovery is automatic").
SuccessIsAudited ==
  \A r \in Reqs :
    /\ pc[r] = "done" /\ out[r] = "ok" /\ "store" \in wiredAt[r]
    /\ "sequence" \notin faults[r] /\ ~({"outbox", "append"} \subseteq faults[r])
    ~> \E row \in log : row.req = r

\* place_order.go: on a failed placement "OrderID is empty here - the broker
\* never assigned one".
RejectedWasNeverPlaced ==
  \A r \in Reqs : \A i \in 1..Len(events[r]) :
    op[r] = "place" /\ events[r][i] = "OrderRejected" => wire[r] # "applied"

=============================================================================
