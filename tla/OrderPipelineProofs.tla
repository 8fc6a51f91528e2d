------------------------ MODULE OrderPipelineProofs ------------------------
(* Theorems about OrderPipeline, for any requests, orders and crashes.     *)
EXTENDS OrderPipeline, TLAPS

(***************************************************************************)
(* What the place of a request in Execute says of the rest of its state.   *)
(* AuditSound is not inductive without it: that an append is only reached  *)
(* by a request the broker applied is decided several steps earlier.       *)
(***************************************************************************)
Phases ==
  \A r \in Reqs :
    /\ pc[r] \in {"idle", "risk", "resolve", "call"} => out[r] = "none"
    /\ pc[r] \in {"idle", "risk", "resolve"} => wire[r] = "unsent"
    /\ pc[r] # "idle" => op[r] \in Ops
    /\ pc[r] = "call" /\ wire[r] = "applied" => order[r] \in Orders
    /\ out[r] = "ok" => wire[r] = "applied" /\ order[r] \in Orders
    /\ pc[r] \in {"outbox", "staged", "fallback", "appended"} => out[r] = "ok"

\* Each use case dispatches a sequence of events, and only cancel is unguarded.
LEMMA UseCaseType ==
  ASSUME NEW k \in Ops
  PROVE  /\ UseCase[k].success \in Seq(EventKinds)
         /\ UseCase[k].guarded <=> k # "cancel"
  <1> USE DEF UseCase, PlaceOrder, ModifyOrder, CancelOrder
  <1>1. k \in {"place", "modify", "cancel"}
    BY OpsAssumption
  <1>2. CASE k = "place"
    <2>1. UseCase[k] = [guarded |-> TRUE, success |-> <<"OrderPlaced", "PositionOpened">>]
      BY <1>2
    <2>2. <<"OrderPlaced", "PositionOpened">> \in Seq(EventKinds)
      BY DEF EventKinds
    <2>3. UseCase[k].success = <<"OrderPlaced", "PositionOpened">> /\ UseCase[k].guarded = TRUE
      BY <2>1
    <2> HIDE DEF UseCase
    <2> QED  BY <1>2, <2>2, <2>3
  <1>3. CASE k = "modify"
    <2>1. UseCase[k] = [guarded |-> TRUE, success |-> <<"OrderModified">>]
      BY <1>3
    <2>2. <<"OrderModified">> \in Seq(EventKinds)
      BY DEF EventKinds
    <2>3. UseCase[k].success = <<"OrderModified">> /\ UseCase[k].guarded = TRUE
      BY <2>1
    <2> HIDE DEF UseCase
    <2> QED  BY <1>3, <2>2, <2>3
  <1>4. CASE k = "cancel"
    <2>1. UseCase[k] = [guarded |-> FALSE, success |-> <<"OrderCancelled">>]
      BY <1>4
    <2>2. <<"OrderCancelled">> \in Seq(EventKinds)
      BY DEF EventKinds
    <2>3. UseCase[k].success = <<"OrderCancelled">> /\ UseCase[k].guarded = FALSE
      BY <2>1
    <2> HIDE DEF UseCase
    <2> QED  BY <1>4, <2>2, <2>3
  <1> QED  BY <1>1, <1>2, <1>3, <1>4

\* Whether or not the dispatcher is wired, what is to be dispatched are events.
LEMMA IfWiredType ==
  ASSUME NEW es \in Seq(EventKinds)
  PROVE  IfWired(es) \in Seq(EventKinds)
  BY DEF IfWired

LEMMA FailureEvents ==
  /\ IfWired(<<"OrderRejected">>) \in Seq(EventKinds)
  /\ IfWired(<<"RiskLimitBreached">>) \in Seq(EventKinds)
  <1>1. <<"OrderRejected">> \in Seq(EventKinds) /\ <<"RiskLimitBreached">> \in Seq(EventKinds)
    BY DEF EventKinds
  <1> QED  BY <1>1, IfWiredType

LEMMA FaultsType ==
  ASSUME TypeOK, NEW r \in Reqs, NEW f \in {"sequence", "outbox", "answer", "append"}
  PROVE  [faults EXCEPT ![r] = faults[r] \cup {f}]
           \in [Reqs -> SUBSET {"sequence", "outbox", "answer", "append"}]
  <1>1. faults[r] \cup {f} \in SUBSET {"sequence", "outbox", "answer", "append"}
    BY DEF TypeOK
  <1> QED  BY <1>1 DEF TypeOK

\* The row a request appends has the type of a row and names that request.
LEMMA RowFields ==
  ASSUME TypeOK, Phases, NEW r \in Reqs, pc[r] \in {"outbox", "fallback"},
         NEW via \in {"outbox", "append"}
  PROVE  /\ Row(r, via) \in Rows
         /\ Row(r, via).req = r
         /\ Row(r, via).agg = order[r]
         /\ Row(r, via).type = RowType[op[r]]
         /\ Row(r, via).seq = seq[r]
         /\ Row(r, via).via = via
  <1>1. op[r] \in {"place", "modify", "cancel"} /\ order[r] \in Orders /\ seq[r] \in Nat
    BY OpsAssumption DEF TypeOK, Phases
  <1>2. CASE op[r] = "place"
    BY <1>1, <1>2 DEF Row, Rows, PlacedRow, RowType
  <1>3. CASE op[r] = "modify"
    BY <1>1, <1>3 DEF Row, Rows, ModifiedRow, RowType
  <1>4. CASE op[r] = "cancel"
    BY <1>1, <1>4 DEF Row, Rows, CancelledRow, RowType
  <1> QED  BY <1>1, <1>2, <1>3, <1>4

LEMMA TypeOKInit == Init => TypeOK
  <1> SUFFICES ASSUME Init PROVE TypeOK
    OBVIOUS
  <1>1. book \in [Orders -> {"none", "open", "cancelled"}] /\ crashes \in 0..MaxCrashes
    BY CrashAssumption DEF Init
  <1>2. todo \in [Reqs -> Seq(EventKinds)] /\ events \in [Reqs -> Seq(EventKinds)]
    BY DEF Init
  <1>3. /\ faults \in [Reqs -> SUBSET {"sequence", "outbox", "answer", "append"}]
        /\ wiredAt \in [Reqs -> SUBSET {"events", "store"}]
        /\ pred \in [Reqs -> SUBSET Reqs]
    BY DEF Init
  <1>4. /\ op \in [Reqs -> Ops \cup {"none"}]
        /\ order \in [Reqs -> Orders \cup {NoOrder}]
        /\ seq \in [Reqs -> Nat]
    BY DEF Init
  <1>5. /\ underFreeze \in SUBSET Reqs /\ wired \in SUBSET {"events", "store"}
        /\ outbox \in SUBSET Rows /\ log \in SUBSET Rows /\ frozen \in BOOLEAN
    BY DEF Init
  <1>6. /\ pc \in [Reqs -> {"idle", "risk", "resolve", "call", "dispatch",
                          "outbox", "staged", "fallback", "appended", "done",
                          "crashed"}]
        /\ wire \in [Reqs -> {"unsent", "sent", "applied", "refused"}]
        /\ out \in [Reqs -> {"none", "invalid", "blocked", "unresolved", "failed", "ok"}]
    BY DEF Init
  <1> QED  BY <1>1, <1>2, <1>3, <1>4, <1>5, <1>6 DEF TypeOK

LEMMA PhasesInit == Init => Phases
  <1> SUFFICES ASSUME Init, NEW r \in Reqs
               PROVE  pc[r] = "idle" /\ out[r] = "none" /\ wire[r] = "unsent"
    BY DEF Phases
  <1> QED  BY DEF Init

-----------------------------------------------------------------------------

\* A function stays in its type when one of its values is replaced.
LEMMA ExceptType ==
  ASSUME NEW S, NEW T, NEW f \in [S -> T], NEW x \in S, NEW v \in T
  PROVE  [f EXCEPT ![x] = v] \in [S -> T]
OBVIOUS

\* A store call that fails forgets no earlier fault.
LEMMA FaultsGrow ==
  ASSUME TypeOK, NEW r \in Reqs, NEW f,
         faults' = faults \/ faults' = [faults EXCEPT ![r] = faults[r] \cup {f}]
  PROVE  \A q \in Reqs : faults[q] \subseteq faults'[q]
  <1>1. faults = [q \in Reqs |-> faults[q]]
    BY DEF TypeOK
  <1> SUFFICES ASSUME NEW q \in Reqs PROVE faults[q] \subseteq faults'[q]
    OBVIOUS
  <1>2. faults'[q] = faults[q] \/ faults'[q] = faults[q] \cup {f}
    BY <1>1
  <1> QED  BY <1>2

\* Every step keeps the types.
LEMMA TypeOKNext == TypeOK /\ Phases /\ [Next]_vars => TypeOK'
  <1> SUFFICES ASSUME TypeOK, Phases, [Next]_vars
               PROVE  TypeOK'
    OBVIOUS
  <1>a. ASSUME NEW r \in Reqs, NEW f \in {"sequence", "outbox", "answer", "append"}
        PROVE  [faults EXCEPT ![r] = faults[r] \cup {f}]
                 \in [Reqs -> SUBSET {"sequence", "outbox", "answer", "append"}]
    BY FaultsType
  <1> USE DEF TypeOK, reqVars, storeVars, envVars
  <1>1. ASSUME NEW r \in Reqs, NEW k \in Ops, NEW o \in Orders \cup {NoOrder}, Begin(r, k, o)
        PROVE  TypeOK'
    <2>1. UNCHANGED <<wire, todo, seq, book, outbox, log, faults, events, frozen, wired, crashes>>
      BY <1>1 DEF Begin
    <2>2. /\ op' \in [Reqs -> Ops \cup {"none"}]
          /\ order' \in [Reqs -> Orders \cup {NoOrder}]
      BY <1>1 DEF Begin
    <2>a. /\ wiredAt' = [wiredAt EXCEPT ![r] = wired]
          /\ pred' = [pred EXCEPT ![r] = {q \in Reqs : pc[q] = "done"}]
          /\ underFreeze' = underFreeze \/ underFreeze' = underFreeze \cup {r}
          /\ \E p \in {"risk", "resolve", "done"} : pc' = [pc EXCEPT ![r] = p]
          /\ out' = out \/ out' = [out EXCEPT ![r] = "invalid"]
      BY <1>1 DEF Begin, AfterValidation
    <2>3. pc' \in [Reqs -> {"idle", "risk", "resolve", "call", "dispatch",
                          "outbox", "staged", "fallback", "appended", "done",
                          "crashed"}]
      BY <2>a, ExceptType
    <2>5. out' \in [Reqs -> {"none", "invalid", "blocked", "unresolved", "failed", "ok"}]
      BY <2>a, ExceptType
    <2>4. /\ wiredAt' \in [Reqs -> SUBSET {"events", "store"}]
          /\ pred' \in [Reqs -> SUBSET Reqs]
          /\ underFreeze' \in SUBSET Reqs
      BY <2>a, ExceptType
    <2> QED  BY <2>1, <2>2, <2>3, <2>4, <2>5
  <1>2. ASSUME NEW r \in Reqs, RiskAllows(r)
        PROVE  TypeOK'
    BY <1>2 DEF RiskAllows
  <1>3. ASSUME NEW r \in Reqs, RiskBlocks(r)
        PROVE  TypeOK'
    <2>1. todo' \in [Reqs -> Seq(EventKinds)]
      BY <1>3, FailureEvents DEF RiskBlocks
    <2>2. UNCHANGED <<op, order, wire, seq, book, outbox, log, faults, events, frozen, underFreeze, wired, wiredAt, pred, crashes>>
      BY <1>3 DEF RiskBlocks
    <2>3. /\ pc' = [pc EXCEPT ![r] = "dispatch"]
          /\ out' = [out EXCEPT ![r] = "blocked"]
      BY <1>3 DEF RiskBlocks
    <2> QED  BY <2>1, <2>2, <2>3
  <1>4. ASSUME NEW r \in Reqs, ResolveFails(r) \/ CallBroker(r)
        PROVE  TypeOK'
    <2>1. CASE ResolveFails(r)
      BY <2>1 DEF ResolveFails
    <2>2. CASE CallBroker(r)
      BY <2>2 DEF CallBroker
    <2> QED  BY <1>4, <2>1, <2>2
  <1>5. ASSUME NEW r \in Reqs, CallSucceeds(r)
        PROVE  TypeOK'
    <2>1. op[r] \in Ops
      BY <1>5 DEF CallSucceeds, Phases
    <2>2. todo' \in [Reqs -> Seq(EventKinds)]
      BY <1>5, <2>1, UseCaseType, IfWiredType DEF CallSucceeds
    <2> QED  BY <1>5, <2>2 DEF CallSucceeds
  <1>6. ASSUME NEW r \in Reqs, CallFails(r)
        PROVE  TypeOK'
    <2>1. todo' \in [Reqs -> Seq(EventKinds)]
      BY <1>6, FailureEvents DEF CallFails
    <2> QED  BY <1>6, <2>1 DEF CallFails
  <1>7. ASSUME NEW r \in Reqs, Dispatch(r)
        PROVE  TypeOK'
    BY <1>7 DEF Dispatch
  <1>8. ASSUME NEW r \in Reqs, ReturnError(r)
        PROVE  TypeOK'
    BY <1>8 DEF ReturnError
  <1>9. ASSUME NEW r \in Reqs, AskSequence(r)
        PROVE  TypeOK'
    <2>1. NextSequence(order[r]) \subseteq Nat
      BY DEF NextSequence, Rows
    <2>c. seq' = seq \/ \E n \in Nat : seq' = [seq EXCEPT ![r] = n]
      BY <1>9, <2>1 DEF AskSequence
    <2>2. seq' \in [Reqs -> Nat]
      BY <2>c, ExceptType
    <2>b. [faults EXCEPT ![r] = faults[r] \cup {"sequence"}]
            \in [Reqs -> SUBSET {"sequence", "outbox", "answer", "append"}]
      BY <1>a
    <2>3. faults' = faults \/ faults' = [faults EXCEPT ![r] = faults[r] \cup {"sequence"}]
      BY <1>9 DEF AskSequence
    <2>4. faults' \in [Reqs -> SUBSET {"sequence", "outbox", "answer", "append"}]
      BY <2>3, <2>b
    <2>a. pc' = [pc EXCEPT ![r] = "done"] \/ pc' = [pc EXCEPT ![r] = "outbox"]
      BY <1>9 DEF AskSequence
    <2>5. pc' \in [Reqs -> {"idle", "risk", "resolve", "call", "dispatch",
                          "outbox", "staged", "fallback", "appended", "done",
                          "crashed"}]
      BY <2>a, ExceptType
    <2>6. UNCHANGED <<op, order, wire, out, todo, book, outbox, log, events, frozen, underFreeze, wired, wiredAt, pred, crashes>>
      BY <1>9 DEF AskSequence
    <2> QED  BY <2>2, <2>4, <2>5, <2>6
  <1>10. ASSUME NEW r \in Reqs, AppendToOutbox(r)
         PROVE  TypeOK'
    <2>1. Row(r, "outbox") \in Rows
      BY <1>10, RowFields DEF AppendToOutbox
    <2>2. outbox' \in SUBSET Rows
      BY <1>10, <2>1 DEF AppendToOutbox
    <2>b. [faults EXCEPT ![r] = faults[r] \cup {"outbox"}]
            \in [Reqs -> SUBSET {"sequence", "outbox", "answer", "append"}]
      BY <1>a
    <2>3. faults' = faults \/ faults' = [faults EXCEPT ![r] = faults[r] \cup {"outbox"}]
      BY <1>10 DEF AppendToOutbox
    <2>4. faults' \in [Reqs -> SUBSET {"sequence", "outbox", "answer", "append"}]
      BY <2>3, <2>b
    <2>a. pc' = [pc EXCEPT ![r] = "staged"] \/ pc' = [pc EXCEPT ![r] = "fallback"]
      BY <1>10 DEF AppendToOutbox
    <2>5. pc' \in [Reqs -> {"idle", "risk", "resolve", "call", "dispatch",
                          "outbox", "staged", "fallback", "appended", "done",
                          "crashed"}]
      BY <2>a, ExceptType
    <2>6. UNCHANGED <<op, order, wire, out, todo, seq, book, log, events, frozen, underFreeze, wired, wiredAt, pred, crashes>>
      BY <1>10 DEF AppendToOutbox
    <2> QED  BY <2>2, <2>4, <2>5, <2>6
  <1>11. ASSUME NEW r \in Reqs, FallbackAppend(r)
         PROVE  TypeOK'
    <2>1. Row(r, "append") \in Rows
      BY <1>11, RowFields DEF FallbackAppend
    <2>2. log' \in SUBSET Rows
      BY <1>11, <2>1 DEF FallbackAppend
    <2>b. [faults EXCEPT ![r] = faults[r] \cup {"append"}]
            \in [Reqs -> SUBSET {"sequence", "outbox", "answer", "append"}]
      BY <1>a
    <2>3. faults' = faults \/ faults' = [faults EXCEPT ![r] = faults[r] \cup {"append"}]
      BY <1>11 DEF FallbackAppend
    <2>4. faults' \in [Reqs -> SUBSET {"sequence", "outbox", "answer", "append"}]
      BY <2>3, <2>b
    <2>a. pc' = [pc EXCEPT ![r] = "appended"] \/ pc' = [pc EXCEPT ![r] = "done"]
      BY <1>11 DEF FallbackAppend
    <2>5. pc' \in [Reqs -> {"idle", "risk", "resolve", "call", "dispatch",
                          "outbox", "staged", "fallback", "appended", "done",
                          "crashed"}]
      BY <2>a, ExceptType
    <2>6. UNCHANGED <<op, order, wire, out, todo, seq, book, outbox, events, frozen, underFreeze, wired, wiredAt, pred, crashes>>
      BY <1>11 DEF FallbackAppend
    <2> QED  BY <2>2, <2>4, <2>5, <2>6
  <1>21. ASSUME NEW r \in Reqs, OutboxAnswerLost(r)
         PROVE  TypeOK'
    <2>1. [faults EXCEPT ![r] = faults[r] \cup {"answer"}]
            \in [Reqs -> SUBSET {"sequence", "outbox", "answer", "append"}]
      BY <1>a
    <2>2. /\ faults' = [faults EXCEPT ![r] = faults[r] \cup {"answer"}]
          /\ pc' = [pc EXCEPT ![r] = "fallback"]
      BY <1>21 DEF OutboxAnswerLost
    <2>3. UNCHANGED <<op, order, wire, out, todo, seq, book, outbox, log, events, frozen, underFreeze, wired, wiredAt, pred, crashes>>
      BY <1>21 DEF OutboxAnswerLost
    <2> QED  BY <2>1, <2>2, <2>3
  <1>22. ASSUME NEW r \in Reqs, ReturnSuccess(r)
         PROVE  TypeOK'
    BY <1>22 DEF ReturnSuccess
  <1>12. ASSUME NEW r \in Reqs, BrokerApplies(r)
         PROVE  TypeOK'
    BY <1>12 DEF BrokerApplies
  <1>13. ASSUME NEW r \in Reqs, BrokerRefuses(r)
         PROVE  TypeOK'
    BY <1>13 DEF BrokerRefuses
  <1>14. ASSUME NEW row \in outbox, Pump(row)
         PROVE  TypeOK'
    BY <1>14 DEF Pump
  <1>15. CASE Freeze
    BY <1>15 DEF Freeze
  <1>16. CASE Unfreeze
    BY <1>16 DEF Unfreeze
  <1>17. CASE SetEventDispatcher
    BY <1>17 DEF SetEventDispatcher
  <1>18. CASE SetEventStore
    BY <1>18 DEF SetEventStore
  <1>19. CASE Crash
    BY <1>19, CrashAssumption DEF Crash
  <1>20. CASE UNCHANGED vars
    BY <1>20 DEF vars
  <1> QED
    BY <1>1, <1>2, <1>3, <1>4, <1>5, <1>6, <1>7, <1>8, <1>9, <1>10, <1>11, <1>12,
       <1>13, <1>14, <1>15, <1>16, <1>17, <1>18, <1>19, <1>20, <1>21, <1>22
       DEF Next, Run, Broker

\* Every step keeps the phases.
LEMMA PhasesNext == TypeOK /\ Phases /\ [Next]_vars => Phases'
  <1> SUFFICES ASSUME TypeOK, Phases, [Next]_vars
               PROVE  Phases'
    OBVIOUS
  <1> USE DEF TypeOK, Phases, reqVars, storeVars, envVars
  <1>1. ASSUME NEW r \in Reqs, NEW k \in Ops, NEW o \in Orders \cup {NoOrder}, Begin(r, k, o)
        PROVE  Phases'
    BY <1>1 DEF Begin, AfterValidation
  <1>2. ASSUME NEW r \in Reqs, RiskAllows(r) \/ RiskBlocks(r)
        PROVE  Phases'
    BY <1>2 DEF RiskAllows, RiskBlocks
  <1>3. ASSUME NEW r \in Reqs, ResolveFails(r) \/ CallBroker(r)
        PROVE  Phases'
    <2>1. CASE ResolveFails(r)
      BY <2>1 DEF ResolveFails
    <2>2. CASE CallBroker(r)
      BY <2>2 DEF CallBroker
    <2> QED  BY <1>3, <2>1, <2>2
  <1>4. ASSUME NEW r \in Reqs, CallSucceeds(r)
        PROVE  Phases'
    BY <1>4 DEF CallSucceeds
  <1>5. ASSUME NEW r \in Reqs, CallFails(r)
        PROVE  Phases'
    BY <1>5 DEF CallFails
  <1>6. ASSUME NEW r \in Reqs, Dispatch(r) \/ ReturnError(r)
        PROVE  Phases'
    BY <1>6 DEF Dispatch, ReturnError
  <1>7. ASSUME NEW r \in Reqs, AskSequence(r)
        PROVE  Phases'
    <2>1. /\ pc' = [pc EXCEPT ![r] = "done"] \/ pc' = [pc EXCEPT ![r] = "outbox"]
          /\ out[r] = "ok"
          /\ pc[r] = "dispatch"
          /\ UNCHANGED <<op, order, wire, out>>
      BY <1>7 DEF AskSequence
    <2> QED  BY <2>1
  <1>8. ASSUME NEW r \in Reqs, AppendToOutbox(r)
        PROVE  Phases'
    <2>1. /\ pc' = [pc EXCEPT ![r] = "staged"] \/ pc' = [pc EXCEPT ![r] = "fallback"]
          /\ pc[r] = "outbox"
          /\ UNCHANGED <<op, order, wire, out>>
      BY <1>8 DEF AppendToOutbox
    <2> QED  BY <2>1
  <1>9. ASSUME NEW r \in Reqs, FallbackAppend(r)
        PROVE  Phases'
    <2>1. /\ pc' = [pc EXCEPT ![r] = "appended"] \/ pc' = [pc EXCEPT ![r] = "done"]
          /\ pc[r] = "fallback"
          /\ UNCHANGED <<op, order, wire, out>>
      BY <1>9 DEF FallbackAppend
    <2> QED  BY <2>1
  <1>17. ASSUME NEW r \in Reqs, OutboxAnswerLost(r) \/ ReturnSuccess(r)
         PROVE  Phases'
    <2>1. /\ pc' = [pc EXCEPT ![r] = "fallback"] \/ pc' = [pc EXCEPT ![r] = "done"]
          /\ pc[r] \in {"staged", "appended"}
          /\ UNCHANGED <<op, order, wire, out>>
      BY <1>17 DEF OutboxAnswerLost, ReturnSuccess
    <2> QED  BY <2>1
  <1>10. ASSUME NEW r \in Reqs, BrokerApplies(r)
         PROVE  Phases'
    BY <1>10 DEF BrokerApplies
  <1>11. ASSUME NEW r \in Reqs, BrokerRefuses(r)
         PROVE  Phases'
    BY <1>11 DEF BrokerRefuses
  <1>12. CASE Crash
    BY <1>12 DEF Crash
  <1>13. CASE UNCHANGED <<reqVars>>
    BY <1>13
  <1>14. ASSUME NEW row \in outbox, Pump(row)
         PROVE  UNCHANGED reqVars
    BY <1>14 DEF Pump
  <1>15. Freeze \/ Unfreeze \/ SetEventDispatcher \/ SetEventStore => UNCHANGED reqVars
    BY DEF Freeze, Unfreeze, SetEventDispatcher, SetEventStore
  <1>16. UNCHANGED vars => UNCHANGED reqVars
    BY DEF vars
  <1> QED
    BY <1>1, <1>2, <1>3, <1>4, <1>5, <1>6, <1>7, <1>8, <1>9, <1>10, <1>11, <1>12,
       <1>13, <1>14, <1>15, <1>16, <1>17 DEF Next, Run, Broker

-----------------------------------------------------------------------------
(* The audit trail.                                                        *)

(***************************************************************************)
(* AuditSound speaks of what is stored.  That a request stores a row twice *)
(* only behind a lost answer needs to know how far the request is that a   *)
(* row stands for: its row comes with or after the store call that wrote   *)
(* it, and a staged row is behind a request on its way to the direct       *)
(* Append only if the outbox answered with an error.                       *)
(***************************************************************************)
RowsBehind ==
  \A row \in Trail :
    /\ pc[row.req] \in {"staged", "fallback", "appended", "done", "crashed"}
    /\ row.via = "append" => pc[row.req] \in {"appended", "done", "crashed"}
    /\ pc[row.req] = "fallback" => "answer" \in faults[row.req]

AuditInv == AuditSound /\ RowsBehind

\* A new row that names its request keeps the trail sound: the request had
\* none, or the staged one whose answer was lost.
LEMMA AppendIsSound ==
  ASSUME TypeOK, Phases, AuditInv,
         NEW r \in Reqs, NEW via \in {"outbox", "append"},
         \/ via = "outbox" /\ pc[r] = "outbox" /\ pc' = [pc EXCEPT ![r] = "staged"]
         \/ via = "append" /\ pc[r] = "fallback" /\ pc' = [pc EXCEPT ![r] = "appended"],
         UNCHANGED <<op, order, wire, out, seq, faults>>,
         \/ outbox' = outbox \cup {Row(r, via)} /\ log' = log
         \/ log' = log \cup {Row(r, via)} /\ outbox' = outbox
  PROVE  AuditInv'
  <1> DEFINE new == Row(r, via)
  <1>1. \A row \in Trail : row.req \in Reqs
    BY DEF TypeOK, Trail, Rows
  <1>2. Trail' = Trail \cup {new}
    BY DEF Trail
  <1>3. /\ new.req = r
        /\ new.agg = order[r]
        /\ new.type = RowType[op[r]]
        /\ new.seq = seq[r]
        /\ new.via = via
    BY RowFields
  <1>4. wire[r] = "applied" /\ out[r] = "ok"
    BY DEF Phases
  <1>5. \A row \in Trail : row.req = r =>
          /\ via = "append" /\ pc[r] = "fallback"
          /\ "answer" \in faults[r]
          /\ row.via # "append"
    BY DEF AuditInv, RowsBehind
  <1>6. new \notin Trail
    BY <1>3, <1>5
  <1> HIDE DEF new
  <1>7. ASSUME NEW row \in Trail'
        PROVE  (/\ wire[row.req] = "applied"
                /\ out[row.req] = "ok"
                /\ row.agg = order[row.req]
                /\ row.type = RowType[op[row.req]]
                /\ row.seq = seq[row.req])'
    BY <1>2, <1>3, <1>4, <1>7 DEF AuditInv, AuditSound
  <1>8. \A x, y \in Trail' : x.req = y.req /\ x # y => "answer" \in faults'[x.req]
    BY <1>2, <1>3, <1>5 DEF AuditInv, AuditSound
  <1>9. outbox' \cap log' = {}
    BY <1>6 DEF AuditInv, AuditSound, Trail, new
  <1>10. ASSUME NEW row \in Trail'
         PROVE  (/\ pc[row.req] \in {"staged", "fallback", "appended", "done", "crashed"}
                 /\ row.via = "append" => pc[row.req] \in {"appended", "done", "crashed"}
                 /\ pc[row.req] = "fallback" => "answer" \in faults[row.req])'
    <2>1. CASE row.req = r
      <3>1. row.via = "append" => via = "append"
        BY <1>2, <1>3, <1>5, <2>1
      <3> QED  BY <2>1, <3>1 DEF TypeOK
    <2>2. CASE row.req # r
      <3>1. row \in Trail /\ pc'[row.req] = pc[row.req]
        BY <1>1, <1>2, <1>3, <2>2 DEF TypeOK
      <3> QED  BY <3>1 DEF AuditInv, RowsBehind
    <2> QED  BY <2>1, <2>2
  <1>11. AuditSound'
    BY <1>7, <1>8, <1>9 DEF AuditSound
  <1>12. RowsBehind'
    BY <1>10 DEF RowsBehind
  <1> QED  BY <1>11, <1>12 DEF AuditInv

\* What a step may not change of a request that may have a row, and how far
\* such a request may go.
Keeps(r) ==
  pc[r] \in {"staged", "fallback", "appended", "done", "crashed"}
      /\ out[r] = "ok" /\ wire[r] = "applied" =>
    /\ UNCHANGED <<out[r], wire[r], order[r], op[r], seq[r]>>
    /\ faults[r] \subseteq faults'[r]
    /\ \/ pc'[r] = pc[r]
       \/ pc'[r] \in {"done", "crashed"}
       \/ pc[r] = "staged" /\ pc'[r] = "fallback" /\ "answer" \in faults'[r]

\* A step that keeps the trail, and what the rows say of their requests,
\* keeps it sound.
LEMMA SameTrail ==
  ASSUME TypeOK, AuditInv, Trail' = Trail, outbox' \cap log' = {},
         \A r \in Reqs : Keeps(r)
  PROVE  AuditInv'
  <1>1. \A row \in Trail : row.req \in Reqs
    BY DEF Trail, TypeOK, Rows
  <1>2. \A row \in Trail :
          /\ UNCHANGED <<out[row.req], wire[row.req], order[row.req], op[row.req], seq[row.req]>>
          /\ faults[row.req] \subseteq faults'[row.req]
          /\ \/ pc'[row.req] = pc[row.req]
             \/ pc'[row.req] \in {"done", "crashed"}
             \/ /\ pc[row.req] = "staged" /\ pc'[row.req] = "fallback"
                /\ "answer" \in faults'[row.req]
    BY <1>1 DEF Keeps, AuditInv, AuditSound, RowsBehind
  <1>3. AuditSound'
    BY <1>2 DEF AuditInv, AuditSound
  <1>4. RowsBehind'
    BY <1>2 DEF AuditInv, RowsBehind
  <1> QED  BY <1>3, <1>4 DEF AuditInv

LEMMA AuditInvNext == TypeOK /\ Phases /\ AuditInv /\ [Next]_vars => AuditInv'
  <1> SUFFICES ASSUME TypeOK, Phases, AuditInv, [Next]_vars
               PROVE  AuditInv'
    OBVIOUS
  <1> DEFINE Quiet == UNCHANGED <<outbox, log>> /\ \A q \in Reqs : Keeps(q)
  <1>1. Quiet => AuditInv'
    <2>1. outbox \cap log = {}
      BY DEF AuditInv, AuditSound
    <2> QED  BY <2>1, SameTrail DEF Trail
  <1>2. ASSUME NEW r \in Reqs, AppendToOutbox(r)
        PROVE  AuditInv'
    <2>1. CASE outbox' = outbox \cup {Row(r, "outbox")} /\ pc' = [pc EXCEPT ![r] = "staged"]
      <3>1. CASE UNCHANGED faults
        <4>1. pc[r] = "outbox" /\ log' = log /\ UNCHANGED <<op, order, wire, out, seq>>
          BY <1>2 DEF AppendToOutbox
        <4> QED  BY <2>1, <3>1, <4>1, AppendIsSound
      <3> QED  BY <1>2, <2>1, <3>1 DEF AppendToOutbox, TypeOK
    <2>2. CASE outbox' = outbox /\ pc' = [pc EXCEPT ![r] = "fallback"]
      <3>1. /\ pc[r] = "outbox" /\ UNCHANGED <<outbox, log, op, order, wire, out, seq>>
            /\ faults' = faults \/ faults' = [faults EXCEPT ![r] = faults[r] \cup {"outbox"}]
        BY <1>2, <2>2 DEF AppendToOutbox
      <3>3. \A q \in Reqs : faults[q] \subseteq faults'[q]
        BY <3>1, FaultsGrow
      <3>2. Quiet
        BY <2>2, <3>1, <3>3 DEF TypeOK, Keeps
      <3> QED  BY <1>1, <3>2
    <2> QED  BY <1>2, <2>1, <2>2 DEF AppendToOutbox
  <1>3. ASSUME NEW r \in Reqs, FallbackAppend(r)
        PROVE  AuditInv'
    <2>1. CASE log' = log \cup {Row(r, "append")} /\ pc' = [pc EXCEPT ![r] = "appended"] /\ faults' = faults
      <3>1. pc[r] = "fallback" /\ outbox' = outbox /\ UNCHANGED <<op, order, wire, out, seq>>
        BY <1>3 DEF FallbackAppend
      <3> QED  BY <2>1, <3>1, AppendIsSound
    <2>2. CASE log' = log /\ pc' = [pc EXCEPT ![r] = "done"]
      <3>1. /\ UNCHANGED <<outbox, log, op, order, wire, out, seq>>
            /\ faults' = faults \/ faults' = [faults EXCEPT ![r] = faults[r] \cup {"append"}]
        BY <1>3, <2>2 DEF FallbackAppend
      <3>3. \A q \in Reqs : faults[q] \subseteq faults'[q]
        BY <3>1, FaultsGrow
      <3>2. Quiet
        BY <2>2, <3>1, <3>3 DEF TypeOK, Keeps
      <3> QED  BY <1>1, <3>2
    <2> QED  BY <1>3, <2>1, <2>2 DEF FallbackAppend
  <1>4. ASSUME NEW r \in Reqs, OutboxAnswerLost(r)
        PROVE  Quiet
    <2>1. /\ UNCHANGED <<outbox, log, op, order, wire, out, seq>>
          /\ pc[r] = "staged" /\ pc' = [pc EXCEPT ![r] = "fallback"]
          /\ faults' = [faults EXCEPT ![r] = faults[r] \cup {"answer"}]
      BY <1>4 DEF OutboxAnswerLost
    <2>2. \A q \in Reqs : faults[q] \subseteq faults'[q]
      BY <2>1, FaultsGrow
    <2>3. "answer" \in faults'[r]
      BY <2>1 DEF TypeOK
    <2> QED  BY <2>1, <2>2, <2>3 DEF TypeOK, Keeps
  <1>14. ASSUME NEW r \in Reqs, ReturnSuccess(r)
         PROVE  Quiet
    BY <1>14 DEF ReturnSuccess, TypeOK, Keeps, storeVars
  <1>5. ASSUME NEW row \in outbox, Pump(row)
        PROVE  AuditInv'
    <2>1. Trail' = Trail /\ UNCHANGED <<reqVars, faults>>
      BY <1>5 DEF Pump, Trail
    <2>2. outbox' \cap log' = {}
      BY <1>5 DEF Pump, AuditInv, AuditSound
    <2>3. \A q \in Reqs : Keeps(q)
      BY <2>1 DEF Keeps, reqVars
    <2> QED  BY <2>1, <2>2, <2>3, SameTrail
  <1>6. ASSUME NEW r \in Reqs, NEW k \in Ops, NEW o \in Orders \cup {NoOrder}, Begin(r, k, o)
        PROVE  Quiet
    BY <1>6 DEF Begin, storeVars, TypeOK, Keeps
  <1>7. ASSUME NEW r \in Reqs, RiskAllows(r) \/ RiskBlocks(r)
        PROVE  Quiet
    BY <1>7 DEF RiskAllows, RiskBlocks, storeVars, TypeOK, Keeps
  <1>8. ASSUME NEW r \in Reqs, ResolveFails(r) \/ CallBroker(r)
        PROVE  Quiet
    BY <1>8 DEF ResolveFails, CallBroker, storeVars, TypeOK, Keeps
  <1>9. ASSUME NEW r \in Reqs, CallSucceeds(r) \/ CallFails(r)
        PROVE  Quiet
    BY <1>9 DEF CallSucceeds, CallFails, storeVars, TypeOK, Keeps
  <1>10. ASSUME NEW r \in Reqs, Dispatch(r) \/ ReturnError(r)
        PROVE  Quiet
    BY <1>10 DEF Dispatch, ReturnError, storeVars, TypeOK, Keeps
  <1>11. ASSUME NEW r \in Reqs, AskSequence(r)
         PROVE  Quiet
    <2>1. /\ pc[r] = "dispatch" /\ UNCHANGED <<outbox, log, op, order, wire, out>>
          /\ \A q \in Reqs \ {r} : UNCHANGED <<pc[q], seq[q], faults[q]>>
      BY <1>11 DEF AskSequence, TypeOK
    <2> QED  BY <2>1 DEF Keeps
  <1>12. ASSUME NEW r \in Reqs, BrokerApplies(r) \/ BrokerRefuses(r)
         PROVE  Quiet
    BY <1>12 DEF BrokerApplies, BrokerRefuses, storeVars, TypeOK, Keeps
  <1>13. ASSUME Crash
         PROVE  Quiet
    BY <1>13 DEF Crash, storeVars, TypeOK, Keeps
  <1>15. Freeze \/ Unfreeze \/ SetEventDispatcher \/ SetEventStore \/ UNCHANGED vars => Quiet
    BY DEF Freeze, Unfreeze, SetEventDispatcher, SetEventStore, vars, reqVars, storeVars, Keeps
  <1> QED
    BY <1>1, <1>2, <1>3, <1>4, <1>5, <1>6, <1>7, <1>8, <1>9, <1>10, <1>11, <1>12, <1>13,
       <1>14, <1>15 DEF Next, Run, Broker

\* The types, for any number of requests, orders and crashes.
THEOREM TypeCorrect == Spec => []TypeOK
  <1>1. Init => TypeOK /\ Phases
    BY TypeOKInit, PhasesInit
  <1>2. TypeOK /\ Phases /\ [Next]_vars => (TypeOK /\ Phases)'
    BY TypeOKNext, PhasesNext
  <1> QED  BY <1>1, <1>2, PTL DEF Spec

LEMMA PhasesCorrect == Spec => []Phases
  <1>1. Init => TypeOK /\ Phases
    BY TypeOKInit, PhasesInit
  <1>2. TypeOK /\ Phases /\ [Next]_vars => (TypeOK /\ Phases)'
    BY TypeOKNext, PhasesNext
  <1> QED  BY <1>1, <1>2, PTL DEF Spec

LEMMA AuditInvCorrect == Spec => []AuditInv
  <1>1. Init => AuditInv
    BY DEF Init, AuditInv, AuditSound, RowsBehind, Trail
  <1>2. TypeOK /\ Phases /\ AuditInv /\ [Next]_vars => AuditInv'
    BY AuditInvNext
  <1> QED  BY <1>1, <1>2, TypeCorrect, PhasesCorrect, PTL DEF Spec

\* The audit trail tells no lies: every row is about a request the broker
\* applied and whose caller was told "ok" or nothing, and no request has two
\* unless the outbox's answer was lost.
THEOREM AuditIsSound == Spec => []AuditSound
  <1>1. AuditInv => AuditSound
    BY DEF AuditInv
  <1> QED  BY <1>1, AuditInvCorrect, PTL

-----------------------------------------------------------------------------
(* The kill switch.                                                        *)

(***************************************************************************)
(* A request that began under the freeze cannot get past riskguard while   *)
(* the freeze holds, so it is not where a call could be made.              *)
(***************************************************************************)
HeldByFreeze ==
  \A r \in underFreeze :
    /\ frozen
    /\ pc[r] # "idle"
    /\ GuardConfigured /\ op[r] # "cancel" =>
         wire[r] = "unsent" /\ pc[r] \notin {"resolve", "call"}

LEMMA HeldByFreezeNext == TypeOK /\ HeldByFreeze /\ Phases /\ [Next]_vars => HeldByFreeze'
  <1> SUFFICES ASSUME TypeOK, HeldByFreeze, Phases, [Next]_vars
               PROVE  HeldByFreeze'
    OBVIOUS
  <1> USE DEF HeldByFreeze, TypeOK, storeVars, envVars
  <1>1. ASSUME NEW r \in Reqs, NEW k \in Ops, NEW o \in Orders \cup {NoOrder}, Begin(r, k, o)
        PROVE  HeldByFreeze'
    <2>1. AfterValidation(k) = IF k # "cancel" /\ GuardConfigured THEN "risk" ELSE "resolve"
      BY UseCaseType DEF AfterValidation
    <2>2. wire[r] = "unsent" /\ r \notin underFreeze
      BY <1>1 DEF Begin, Phases
    <2>3. /\ op' = [op EXCEPT ![r] = k]
          /\ pc' = [pc EXCEPT ![r] = AfterValidation(k)] \/ pc' = [pc EXCEPT ![r] = "done"]
          /\ underFreeze' = IF frozen THEN underFreeze \cup {r} ELSE underFreeze
          /\ UNCHANGED <<wire, frozen>>
      BY <1>1 DEF Begin
    <2> QED  BY <2>1, <2>2, <2>3
  <1>2. ASSUME NEW r \in Reqs, RiskAllows(r) \/ RiskBlocks(r)
        PROVE  HeldByFreeze'
    BY <1>2 DEF RiskAllows, RiskBlocks
  <1>3. ASSUME NEW r \in Reqs, ResolveFails(r) \/ CallBroker(r)
        PROVE  HeldByFreeze'
    BY <1>3 DEF ResolveFails, CallBroker
  <1>4. ASSUME NEW r \in Reqs, CallSucceeds(r) \/ CallFails(r)
        PROVE  HeldByFreeze'
    BY <1>4 DEF CallSucceeds, CallFails
  <1>5. ASSUME NEW r \in Reqs, Dispatch(r) \/ ReturnError(r)
        PROVE  HeldByFreeze'
    BY <1>5 DEF Dispatch, ReturnError
  <1>6. ASSUME NEW r \in Reqs,
               \/ AskSequence(r) \/ AppendToOutbox(r) \/ OutboxAnswerLost(r)
               \/ FallbackAppend(r) \/ ReturnSuccess(r)
        PROVE  HeldByFreeze'
    <2>1. /\ \E p \in {"done", "outbox", "staged", "fallback", "appended"} :
               pc' = [pc EXCEPT ![r] = p]
          /\ UNCHANGED <<op, wire, frozen, underFreeze>>
      BY <1>6 DEF AskSequence, AppendToOutbox, OutboxAnswerLost, FallbackAppend, ReturnSuccess
    <2> QED  BY <2>1
  <1>7. ASSUME NEW r \in Reqs, BrokerApplies(r) \/ BrokerRefuses(r)
        PROVE  HeldByFreeze'
    BY <1>7 DEF BrokerApplies, BrokerRefuses
  <1>8. ASSUME NEW row \in outbox, Pump(row)
        PROVE  HeldByFreeze'
    BY <1>8 DEF Pump, reqVars
  <1>9. Freeze \/ Unfreeze \/ SetEventDispatcher \/ SetEventStore => HeldByFreeze'
    BY DEF Freeze, Unfreeze, SetEventDispatcher, SetEventStore, reqVars
  <1>10. Crash => HeldByFreeze'
    BY DEF Crash
  <1>11. UNCHANGED vars => HeldByFreeze'
    BY DEF vars, reqVars
  <1> QED
    BY <1>1, <1>2, <1>3, <1>4, <1>5, <1>6, <1>7, <1>8, <1>9, <1>10, <1>11
       DEF Next, Run, Broker

\* While a freeze holds, no place or modify begun under it reaches the broker.
THEOREM FreezeHolds == Spec => []FreezeBarrier
  <1>1. Init => HeldByFreeze
    BY DEF Init, HeldByFreeze
  <1>2. HeldByFreeze => FreezeBarrier
    BY DEF HeldByFreeze, FreezeBarrier
  <1> QED  BY <1>1, <1>2, HeldByFreezeNext, TypeCorrect, PhasesCorrect, PTL DEF Spec

-----------------------------------------------------------------------------
(* Replay order.                                                           *)

(***************************************************************************)
(* RealTimeSequence speaks of rows only; to be inductive it must speak of  *)
(* a request that already holds its number and has yet to append, and it   *)
(* needs that a request which had returned appends nothing any more.       *)
(***************************************************************************)
Numbered == {"outbox", "staged", "fallback"}

SequenceInv ==
  /\ \A r \in Reqs : \A q \in pred[r] : pc[q] = "done"
  /\ \A r \in Reqs : pc[r] \in Numbered =>
       \A x \in Trail : x.agg = order[r] /\ x.req \in pred[r] => x.seq < seq[r]
  /\ RealTimeSequence

\* NextSequence is above every row of the order.
LEMMA NextSequenceAbove ==
  ASSUME TypeOK, NEW o, NEW n \in NextSequence(o), NEW x \in Trail, x.agg = o
  PROVE  x.seq < n
  BY DEF NextSequence, Trail

\* Steps that leave rows, numbers and histories alone, and revive nobody.
LEMMA SequenceQuiet ==
  ASSUME TypeOK, Phases, SequenceInv,
         Trail' = Trail, UNCHANGED <<seq, pred>>,
         \A r \in Reqs : pc[r] = "done" => pc'[r] = "done",
         \A r \in Reqs : pc'[r] \in Numbered =>
                           pc[r] \in Numbered /\ order'[r] = order[r]
  PROVE  SequenceInv'
  <1>1. \A r \in Reqs : \A q \in pred[r] : q \in Reqs
    BY DEF TypeOK
  <1>2. \A r \in Reqs : \A q \in pred'[r] : pc'[q] = "done"
    BY <1>1 DEF SequenceInv
  <1>3. ASSUME NEW r \in Reqs, pc'[r] \in Numbered,
               NEW x \in Trail', x.agg = order'[r], x.req \in pred'[r]
        PROVE  x.seq < seq'[r]
    BY <1>3 DEF SequenceInv
  <1>4. RealTimeSequence'
    BY DEF SequenceInv, RealTimeSequence
  <1> QED  BY <1>2, <1>3, <1>4 DEF SequenceInv

\* A request appends its row.
LEMMA SequenceAppend ==
  ASSUME TypeOK, Phases, SequenceInv,
         NEW r \in Reqs, NEW via \in {"outbox", "append"},
         pc[r] \in {"outbox", "fallback"},
         pc' = [pc EXCEPT ![r] = "staged"] \/ pc' = [pc EXCEPT ![r] = "appended"],
         UNCHANGED <<order, seq, pred>>,
         Trail' = Trail \cup {Row(r, via)}
  PROVE  SequenceInv'
  <1>1. Row(r, via).req = r /\ Row(r, via).agg = order[r] /\ Row(r, via).seq = seq[r]
    BY RowFields
  <1>2. \A q \in Reqs : r \notin pred[q]
    BY DEF SequenceInv
  <1>3. \A x \in Trail : x.req \in Reqs
    BY DEF Trail, TypeOK, Rows
  <1>4. \A q \in Reqs : \A p \in pred[q] : p \in Reqs /\ pc'[p] = "done"
    BY DEF SequenceInv, TypeOK
  <1>a. pc[r] \in Numbered /\ \A q \in Reqs : pc'[q] \in Numbered => pc[q] \in Numbered
    BY DEF Numbered, TypeOK
  <1>5. ASSUME NEW q \in Reqs, pc'[q] \in Numbered,
               NEW x \in Trail', x.agg = order[q], x.req \in pred[q]
        PROVE  x.seq < seq[q]
    <2>1. x \in Trail
      BY <1>1, <1>2, <1>5
    <2> QED  BY <1>a, <1>5, <2>1 DEF SequenceInv
  <1>6. ASSUME NEW x \in Trail', NEW y \in Trail', x.agg = y.agg, x.req \in pred[y.req]
        PROVE  x.seq < y.seq
    <2>1. y.req \in Reqs
      BY <1>1, <1>3
    <2>2. x \in Trail
      BY <1>1, <1>2, <1>6, <2>1
    <2> QED  BY <1>1, <1>a, <1>6, <2>2 DEF SequenceInv, RealTimeSequence
  <1>7. RealTimeSequence'
    BY <1>6 DEF RealTimeSequence
  <1>8. \A q \in Reqs : \A p \in pred'[q] : pc'[p] = "done"
    BY <1>4
  <1>9. \A q \in Reqs : pc'[q] \in Numbered =>
          \A x \in Trail' : x.agg = order'[q] /\ x.req \in pred'[q] => x.seq < seq'[q]
    BY <1>5
  <1> QED  BY <1>7, <1>8, <1>9 DEF SequenceInv

LEMMA SequenceInvNext ==
  TypeOK /\ Phases /\ AuditInv /\ SequenceInv /\ [Next]_vars => SequenceInv'
  <1> SUFFICES ASSUME TypeOK, Phases, AuditInv, SequenceInv, [Next]_vars
               PROVE  SequenceInv'
    OBVIOUS
  <1> DEFINE Quiet ==
        /\ Trail' = Trail /\ UNCHANGED <<seq, pred>>
        /\ \A r \in Reqs : pc[r] = "done" => pc'[r] = "done"
        /\ \A r \in Reqs : pc'[r] \in Numbered =>
             pc[r] \in Numbered /\ order'[r] = order[r]
  <1>1. Quiet => SequenceInv'
    BY SequenceQuiet
  <1>2. ASSUME NEW r \in Reqs, NEW k \in Ops, NEW o \in Orders \cup {NoOrder}, Begin(r, k, o)
        PROVE  SequenceInv'
    <2>1. /\ pc[r] = "idle" /\ Trail' = Trail /\ seq' = seq
          /\ order' = [order EXCEPT ![r] = o]
          /\ pred' = [pred EXCEPT ![r] = {q \in Reqs : pc[q] = "done"}]
          /\ \E p \in {"risk", "resolve", "done"} : pc' = [pc EXCEPT ![r] = p]
      BY <1>2 DEF Begin, AfterValidation, storeVars, Trail
    <2>2. \A q \in Reqs : pc[q] = "done" => pc'[q] = "done" /\ q # r
      BY <2>1 DEF TypeOK
    <2>3. \A q \in Reqs : \A p \in pred'[q] : pc'[p] = "done"
      <3>1. pred \in [Reqs -> SUBSET Reqs]
        BY DEF TypeOK
      <3>2. \A q \in Reqs : \A p \in pred[q] : p \in Reqs /\ pc[p] = "done"
        BY <3>1 DEF SequenceInv
      <3>3. \A q \in Reqs : \A p \in pred'[q] : p \in Reqs /\ pc[p] = "done"
        BY <2>1, <3>1, <3>2
      <3> QED BY <2>2, <3>3
    <2>4. \A y \in Trail : y.req \in Reqs /\ y.req # r
      BY <2>1 DEF AuditInv, RowsBehind, Trail, TypeOK, Rows
    <2>5. RealTimeSequence'
      BY <2>1, <2>4 DEF SequenceInv, RealTimeSequence, TypeOK
    <2>6. ASSUME NEW q \in Reqs, pc'[q] \in Numbered,
                 NEW x \in Trail', x.agg = order'[q], x.req \in pred'[q]
          PROVE  x.seq < seq'[q]
      <3>1. q # r /\ pc'[q] = pc[q] /\ pred'[q] = pred[q] /\ order'[q] = order[q]
        BY <2>1, <2>6 DEF TypeOK, Numbered
      <3> QED  BY <2>1, <2>6, <3>1 DEF SequenceInv
    <2> QED  BY <2>3, <2>5, <2>6 DEF SequenceInv
  <1>3. ASSUME NEW r \in Reqs, AskSequence(r)
        PROVE  SequenceInv'
    <2>1. CASE pc' = [pc EXCEPT ![r] = "done"] /\ seq' = seq
      <3>1. Quiet
        BY <1>3, <2>1 DEF AskSequence, envVars, Trail, TypeOK, Numbered
      <3> QED  BY <1>1, <3>1
    <2>2. CASE pc' = [pc EXCEPT ![r] = "outbox"]
      <3>1. PICK n \in NextSequence(order[r]) : seq' = [seq EXCEPT ![r] = n]
        BY <1>3, <2>2 DEF AskSequence, TypeOK
      <3>2. pc[r] = "dispatch" /\ Trail' = Trail /\ UNCHANGED <<order, pred>>
        BY <1>3 DEF AskSequence, envVars, Trail
      <3>3. \A q \in Reqs : \A p \in pred'[q] : pc'[p] = "done"
        BY <2>2, <3>2 DEF SequenceInv, TypeOK
      <3>4. RealTimeSequence'
        BY <3>2 DEF SequenceInv, RealTimeSequence
      <3>5. ASSUME NEW q \in Reqs, pc'[q] \in Numbered,
                   NEW x \in Trail', x.agg = order'[q], x.req \in pred'[q]
            PROVE  x.seq < seq'[q]
        <4>1. CASE q = r
          BY <3>1, <3>2, <3>5, <4>1, NextSequenceAbove DEF TypeOK
        <4>2. CASE q # r
          BY <2>2, <3>1, <3>2, <3>5, <4>2 DEF SequenceInv, TypeOK
        <4> QED  BY <4>1, <4>2
      <3> QED  BY <3>3, <3>4, <3>5 DEF SequenceInv
    <2> QED  BY <1>3, <2>1, <2>2 DEF AskSequence
  <1>4. ASSUME NEW r \in Reqs, AppendToOutbox(r)
        PROVE  SequenceInv'
    <2>1. CASE pc' = [pc EXCEPT ![r] = "staged"] /\ outbox' = outbox \cup {Row(r, "outbox")}
      <3>1. /\ pc[r] = "outbox" /\ UNCHANGED <<order, seq, pred>>
            /\ Trail' = Trail \cup {Row(r, "outbox")}
        BY <1>4, <2>1 DEF AppendToOutbox, envVars, Trail
      <3> QED  BY <2>1, <3>1, SequenceAppend
    <2>2. CASE pc' = [pc EXCEPT ![r] = "fallback"] /\ outbox' = outbox
      <3>1. Quiet
        BY <1>4, <2>2 DEF AppendToOutbox, envVars, Trail, TypeOK, Numbered
      <3> QED  BY <1>1, <3>1
    <2> QED  BY <1>4, <2>1, <2>2 DEF AppendToOutbox
  <1>5. ASSUME NEW r \in Reqs, FallbackAppend(r)
        PROVE  SequenceInv'
    <2>1. CASE log' = log \cup {Row(r, "append")} /\ pc' = [pc EXCEPT ![r] = "appended"]
      <3>1. /\ pc[r] = "fallback"
            /\ UNCHANGED <<order, seq, pred>> /\ Trail' = Trail \cup {Row(r, "append")}
        BY <1>5, <2>1 DEF FallbackAppend, envVars, Trail
      <3> QED  BY <2>1, <3>1, SequenceAppend
    <2>2. CASE log' = log /\ pc' = [pc EXCEPT ![r] = "done"]
      <3>1. Quiet
        BY <1>5, <2>2 DEF FallbackAppend, envVars, Trail, TypeOK, Numbered
      <3> QED  BY <1>1, <3>1
    <2> QED  BY <1>5, <2>1, <2>2 DEF FallbackAppend
  <1>11. ASSUME NEW r \in Reqs, OutboxAnswerLost(r) \/ ReturnSuccess(r)
         PROVE  Quiet
    <2>1. /\ Trail' = Trail /\ UNCHANGED <<seq, pred, order>>
          /\ \/ pc[r] = "staged" /\ pc' = [pc EXCEPT ![r] = "fallback"]
             \/ pc[r] \in {"staged", "appended"} /\ pc' = [pc EXCEPT ![r] = "done"]
      BY <1>11 DEF OutboxAnswerLost, ReturnSuccess, storeVars, envVars, Trail
    <2> QED  BY <2>1 DEF TypeOK, Numbered
  <1>6. ASSUME NEW r \in Reqs,
               \/ RiskAllows(r) \/ RiskBlocks(r) \/ ResolveFails(r) \/ CallBroker(r)
               \/ CallSucceeds(r) \/ CallFails(r) \/ Dispatch(r) \/ ReturnError(r)
        PROVE  Quiet
    <2>1. \/ UNCHANGED pc
          \/ /\ pc[r] \notin {"idle", "done"}
             /\ \E p \in {"resolve", "dispatch", "done", "call"} : pc' = [pc EXCEPT ![r] = p]
      BY <1>6 DEF RiskAllows, RiskBlocks, ResolveFails, CallBroker, CallSucceeds,
         CallFails, Dispatch, ReturnError
    <2>2. UNCHANGED <<order, seq, storeVars, envVars>>
      BY <1>6 DEF RiskAllows, RiskBlocks, ResolveFails, CallBroker, CallSucceeds,
         CallFails, Dispatch, ReturnError
    <2>3. Trail' = Trail /\ UNCHANGED <<seq, pred, order>>
      BY <2>2 DEF storeVars, envVars, Trail
    <2> QED  BY <2>1, <2>3 DEF TypeOK, Numbered
  <1>7. ASSUME NEW r \in Reqs, BrokerApplies(r) \/ BrokerRefuses(r)
        PROVE  Quiet
    <2>1. /\ Trail' = Trail /\ UNCHANGED <<pc, seq, pred>>
          /\ wire[r] = "sent"
          /\ order' = order \/ \E o \in Orders : order' = [order EXCEPT ![r] = o]
                           \/ order' = [order EXCEPT ![r] = order[r]]
      BY <1>7 DEF BrokerApplies, BrokerRefuses, storeVars, envVars, Trail
    <2>2. pc[r] \notin Numbered
      BY <2>1 DEF Phases, Numbered
    <2> QED  BY <2>1, <2>2 DEF TypeOK
  <1>8. ASSUME NEW row \in outbox, Pump(row)
        PROVE  Quiet
    BY <1>8 DEF Pump, reqVars, envVars, Trail
  <1>9. Crash => Quiet
    BY DEF Crash, storeVars, Trail, TypeOK, Numbered
  <1>10. Freeze \/ Unfreeze \/ SetEventDispatcher \/ SetEventStore \/ UNCHANGED vars => Quiet
    BY DEF Freeze, Unfreeze, SetEventDispatcher, SetEventStore, vars, reqVars,
       storeVars, envVars, Trail
  <1> QED
    BY <1>1, <1>2, <1>3, <1>4, <1>5, <1>6, <1>7, <1>8, <1>9, <1>10, <1>11
       DEF Next, Run, Broker

\* Requests that did not overlap replay in the order they were made.
THEOREM ReplayOrder == Spec => []RealTimeSequence
  <1>1. Init => SequenceInv
    BY DEF Init, SequenceInv, RealTimeSequence, Trail
  <1>2. SequenceInv => RealTimeSequence
    BY DEF SequenceInv
  <1> QED  BY <1>1, <1>2, SequenceInvNext, TypeCorrect, PhasesCorrect, AuditInvCorrect,
           PTL DEF Spec

-----------------------------------------------------------------------------
(* The audit-loss window.                                                  *)

(***************************************************************************)
(* AuditComplete speaks of requests that have returned.  What it allows    *)
(* them is decided before: a call the broker has can only come back as a   *)
(* success or a failure, the direct append follows an outbox that failed   *)
(* or whose answer was lost, a store call that committed has left a row,   *)
(* and what was wired when a request began is wired as long as it runs,    *)
(* since only a crash unwires it.                                          *)
(***************************************************************************)
Running(r) == pc[r] \notin {"idle", "done", "crashed"}

StillWired == \A r \in Reqs : Running(r) => wiredAt[r] \subseteq wired

CompleteInv ==
  /\ \A r \in Reqs :
       /\ wire[r] # "unsent" /\ pc[r] \in {"dispatch", "done"} => out[r] \in {"ok", "failed"}
       /\ pc[r] = "fallback" => "outbox" \in faults[r] \/ Recorded(r)
       /\ pc[r] \in {"staged", "appended"} => Recorded(r)
  /\ AuditComplete

LEMMA StillWiredNext == TypeOK /\ StillWired /\ [Next]_vars => StillWired'
  <1> SUFFICES ASSUME TypeOK, StillWired, [Next]_vars
               PROVE  StillWired'
    OBVIOUS
  <1> USE DEF TypeOK, StillWired, Running
  <1>1. ASSUME NEW r \in Reqs, NEW k \in Ops, NEW o \in Orders \cup {NoOrder}, Begin(r, k, o)
        PROVE  StillWired'
    <2>1. /\ wiredAt' = [wiredAt EXCEPT ![r] = wired] /\ wired' = wired
          /\ \E p \in {"risk", "resolve", "done"} : pc' = [pc EXCEPT ![r] = p]
      BY <1>1 DEF Begin, AfterValidation
    <2> QED  BY <2>1
  <1>2. ASSUME NEW r \in Reqs, Run(r) \/ Broker(r)
        PROVE  StillWired'
    <2>1. UNCHANGED <<wired, wiredAt>>
      BY <1>2 DEF Run, Broker, RiskAllows, RiskBlocks, ResolveFails, CallBroker, CallSucceeds,
         CallFails, Dispatch, ReturnError, AskSequence, AppendToOutbox, OutboxAnswerLost,
         FallbackAppend, ReturnSuccess, BrokerApplies, BrokerRefuses, envVars
    <2>2. \/ pc' = pc
          \/ /\ pc[r] \notin {"idle", "done", "crashed"}
             /\ \E p : pc' = [pc EXCEPT ![r] = p]
      BY <1>2 DEF Run, Broker, RiskAllows, RiskBlocks, ResolveFails, CallBroker, CallSucceeds,
         CallFails, Dispatch, ReturnError, AskSequence, AppendToOutbox, OutboxAnswerLost,
         FallbackAppend, ReturnSuccess, BrokerApplies, BrokerRefuses
    <2>3. \A q \in Reqs : pc'[q] = pc[q] \/ Running(q)
      BY <2>2
    <2> QED  BY <2>1, <2>3
  <1>3. ASSUME NEW row \in outbox, Pump(row)
        PROVE  StillWired'
    BY <1>3 DEF Pump, reqVars, envVars
  <1>4. Freeze \/ Unfreeze \/ SetEventDispatcher \/ SetEventStore => StillWired'
    BY DEF Freeze, Unfreeze, SetEventDispatcher, SetEventStore, reqVars
  <1>5. Crash => StillWired'
    BY DEF Crash
  <1>6. UNCHANGED vars => StillWired'
    BY DEF vars, reqVars, envVars
  <1> QED  BY <1>1, <1>2, <1>3, <1>4, <1>5, <1>6 DEF Next

\* A row that is there stays there.
LEMMA TrailGrows == [Next]_vars => Trail \subseteq Trail'
  <1> SUFFICES ASSUME [Next]_vars PROVE Trail \subseteq Trail'
    OBVIOUS
  <1> USE DEF Trail, storeVars
  <1>1. ASSUME NEW r \in Reqs, NEW k \in Ops, NEW o \in Orders \cup {NoOrder}, Begin(r, k, o)
        PROVE  Trail \subseteq Trail'
    BY <1>1 DEF Begin
  <1>2. ASSUME NEW r \in Reqs, Run(r) \/ Broker(r)
        PROVE  Trail \subseteq Trail'
    BY <1>2 DEF Run, Broker, RiskAllows, RiskBlocks, ResolveFails, CallBroker, CallSucceeds,
       CallFails, Dispatch, ReturnError, AskSequence, AppendToOutbox, OutboxAnswerLost,
       FallbackAppend, ReturnSuccess, BrokerApplies, BrokerRefuses
  <1>3. ASSUME NEW row \in outbox, Pump(row)
        PROVE  Trail \subseteq Trail'
    BY <1>3 DEF Pump
  <1>4. Freeze \/ Unfreeze \/ SetEventDispatcher \/ SetEventStore \/ Crash \/ UNCHANGED vars
          => Trail \subseteq Trail'
    BY DEF Freeze, Unfreeze, SetEventDispatcher, SetEventStore, Crash, vars
  <1> QED  BY <1>1, <1>2, <1>3, <1>4 DEF Next

\* A step that leaves what CompleteInv says of each request alone.
LEMMA CompleteQuiet ==
  ASSUME CompleteInv, [Next]_vars, UNCHANGED <<wiredAt, faults>>,
         \A r \in Reqs : pc'[r] # pc[r] => 
           pc'[r] \notin {"dispatch", "staged", "fallback", "appended", "done"},
         \A r \in Reqs : pc[r] \in {"dispatch", "done"} /\ wire'[r] # "unsent" =>
                           wire[r] # "unsent" /\ out'[r] = out[r],
         \A r \in Reqs : wire'[r] = "applied" /\ pc[r] = "done" =>
                           wire[r] = "applied" \/ out[r] = "failed"
  PROVE  CompleteInv'
  <1>1. \A r \in Reqs : Recorded(r) => Recorded(r)'
    BY TrailGrows DEF Recorded
  <1>2. AuditComplete'
    <2> SUFFICES ASSUME NEW r \in Reqs, wire'[r] = "applied", pc'[r] = "done", ~Recorded(r)'
                 PROVE  \/ out'[r] = "failed"
                        \/ "store" \notin wiredAt'[r]
                        \/ "sequence" \in faults'[r]
                        \/ {"outbox", "append"} \subseteq faults'[r]
      BY DEF AuditComplete
    <2>1. pc[r] = "done" /\ out'[r] = out[r] /\ ~Recorded(r)
      BY <1>1
    <2> QED  BY <2>1 DEF CompleteInv, AuditComplete
  <1> QED  BY <1>1, <1>2 DEF CompleteInv

LEMMA CompleteInvNext ==
  TypeOK /\ Phases /\ StillWired /\ CompleteInv /\ [Next]_vars => CompleteInv'
  <1> SUFFICES ASSUME TypeOK, Phases, StillWired, CompleteInv, [Next]_vars
               PROVE  CompleteInv'
    OBVIOUS
  <1> DEFINE Excused(r) == \/ out[r] = "failed"
                           \/ "store" \notin wiredAt[r]
                           \/ "sequence" \in faults[r]
                           \/ {"outbox", "append"} \subseteq faults[r]
             Fine(r) == /\ wire[r] # "unsent" /\ pc[r] \in {"dispatch", "done"} => out[r] \in {"ok", "failed"}
                        /\ pc[r] = "fallback" => "outbox" \in faults[r] \/ Recorded(r)
                        /\ pc[r] \in {"staged", "appended"} => Recorded(r)
                        /\ wire[r] = "applied" /\ pc[r] = "done" /\ ~Recorded(r) => Excused(r)
  <1>1. \A r \in Reqs : Fine(r)
    BY DEF CompleteInv, AuditComplete
  <1>2. (\A r \in Reqs : Fine(r)') => CompleteInv'
    BY DEF CompleteInv, AuditComplete
  <1>3. \A r \in Reqs : Recorded(r) => Recorded(r)'
    BY TrailGrows DEF Recorded
  <1>4. ASSUME NEW r \in Reqs,
               \A q \in Reqs \ {r} : UNCHANGED <<pc[q], wire[q], out[q], wiredAt[q], faults[q]>>,
               Fine(r)'
        PROVE  CompleteInv'
    <2>1. \A q \in Reqs \ {r} : Fine(q)'
      BY <1>1, <1>3, <1>4
    <2> QED  BY <1>2, <1>4, <2>1
  <1> HIDE DEF Fine
  <1>5. ASSUME NEW r \in Reqs, NEW k \in Ops, NEW o \in Orders \cup {NoOrder}, Begin(r, k, o)
        PROVE  CompleteInv'
    <2>1. /\ wire'[r] = "unsent" /\ pc'[r] \notin {"staged", "fallback", "appended"}
          /\ \A q \in Reqs \ {r} : UNCHANGED <<pc[q], wire[q], out[q], wiredAt[q], faults[q]>>
      BY <1>5 DEF Begin, AfterValidation, storeVars, Phases, TypeOK
    <2> QED  BY <1>4, <2>1 DEF Fine
  <1>6. ASSUME NEW r \in Reqs,
               RiskAllows(r) \/ RiskBlocks(r) \/ ResolveFails(r) \/ CallBroker(r)
        PROVE  CompleteInv'
    <2>1. /\ wire'[r] = "unsent" \/ pc'[r] = "call"
          /\ pc'[r] \notin {"staged", "fallback", "appended"}
          /\ \A q \in Reqs \ {r} : UNCHANGED <<pc[q], wire[q], out[q], wiredAt[q], faults[q]>>
      BY <1>6 DEF RiskAllows, RiskBlocks, ResolveFails, CallBroker, storeVars, envVars, Phases, TypeOK
    <2> QED  BY <1>4, <2>1 DEF Fine
  <1>7. ASSUME NEW r \in Reqs, CallSucceeds(r) \/ CallFails(r)
        PROVE  CompleteInv'
    <2>1. /\ out'[r] \in {"ok", "failed"} /\ pc'[r] = "dispatch"
          /\ \A q \in Reqs \ {r} : UNCHANGED <<pc[q], wire[q], out[q], wiredAt[q], faults[q]>>
      BY <1>7 DEF CallSucceeds, CallFails, storeVars, envVars, TypeOK
    <2> QED  BY <1>4, <2>1 DEF Fine
  <1>8. ASSUME NEW r \in Reqs, Dispatch(r) \/ ReturnError(r)
        PROVE  CompleteInv'
    <2>1. /\ pc[r] = "dispatch" /\ pc'[r] \in {"dispatch", "done"}
          /\ pc'[r] = "done" => out[r] # "ok"
          /\ UNCHANGED <<wire[r], out[r], wiredAt[r], faults[r]>>
          /\ \A q \in Reqs \ {r} : UNCHANGED <<pc[q], wire[q], out[q], wiredAt[q], faults[q]>>
      BY <1>8 DEF Dispatch, ReturnError, storeVars, envVars, TypeOK
    <2>2. Fine(r)'
      BY <1>1, <2>1 DEF Fine
    <2> QED  BY <1>4, <2>1, <2>2
  <1>9. ASSUME NEW r \in Reqs, AskSequence(r)
        PROVE  CompleteInv'
    <2>1. /\ pc[r] = "dispatch" /\ out[r] = "ok" /\ pc'[r] \in {"outbox", "done"}
          /\ pc'[r] = "done" => "store" \notin wired \/ "sequence" \in faults'[r]
          /\ UNCHANGED <<wire[r], out[r], wiredAt[r]>>
          /\ \A q \in Reqs \ {r} : UNCHANGED <<pc[q], wire[q], out[q], wiredAt[q], faults[q]>>
      BY <1>9 DEF AskSequence, envVars, TypeOK
    <2>2. wiredAt[r] \subseteq wired
      BY <2>1 DEF StillWired, Running
    <2>3. Fine(r)'
      BY <2>1, <2>2 DEF Fine
    <2> QED  BY <1>4, <2>1, <2>3
  <1>10. ASSUME NEW r \in Reqs, AppendToOutbox(r)
         PROVE  CompleteInv'
    <2>1. /\ out'[r] = "ok"
          /\ \/ pc'[r] = "staged" /\ Row(r, "outbox") \in Trail'
             \/ pc'[r] = "fallback" /\ "outbox" \in faults'[r]
          /\ \A q \in Reqs \ {r} : UNCHANGED <<pc[q], wire[q], out[q], wiredAt[q], faults[q]>>
      BY <1>10 DEF AppendToOutbox, envVars, TypeOK, Phases, Trail
    <2>2. Row(r, "outbox").req = r
      BY <1>10, RowFields DEF AppendToOutbox
    <2>3. pc'[r] = "staged" => Recorded(r)'
      BY <2>1, <2>2 DEF Recorded
    <2> QED  BY <1>4, <2>1, <2>3 DEF Fine
  <1>11. ASSUME NEW r \in Reqs, FallbackAppend(r)
         PROVE  CompleteInv'
    <2>1. /\ out'[r] = "ok"
          /\ \/ pc'[r] = "appended" /\ Row(r, "append") \in Trail'
             \/ pc'[r] = "done" /\ faults'[r] = faults[r] \cup {"append"}
          /\ \A q \in Reqs \ {r} : UNCHANGED <<pc[q], wire[q], out[q], wiredAt[q], faults[q]>>
      BY <1>11 DEF FallbackAppend, envVars, TypeOK, Phases, Trail
    <2>2. /\ Row(r, "append").req = r
          /\ "outbox" \in faults[r] \/ Recorded(r)
      BY <1>1, <1>11, RowFields DEF FallbackAppend, Fine
    <2>3. /\ pc'[r] = "appended" => Recorded(r)'
          /\ pc'[r] = "done" => Recorded(r)' \/ {"outbox", "append"} \subseteq faults'[r]
      BY <1>3, <2>1, <2>2 DEF Recorded
    <2> QED  BY <1>4, <2>1, <2>3 DEF Fine
  <1>17. ASSUME NEW r \in Reqs, OutboxAnswerLost(r) \/ ReturnSuccess(r)
         PROVE  CompleteInv'
    <2>1. /\ out'[r] = "ok" /\ pc[r] \in {"staged", "appended"}
          /\ \A q \in Reqs \ {r} : UNCHANGED <<pc[q], wire[q], out[q], wiredAt[q], faults[q]>>
      BY <1>17 DEF OutboxAnswerLost, ReturnSuccess, storeVars, envVars, TypeOK, Phases
    <2>2. Recorded(r)'
      BY <1>1, <1>3, <2>1 DEF Fine
    <2> QED  BY <1>4, <2>1, <2>2 DEF Fine
  <1>12. ASSUME NEW r \in Reqs, BrokerApplies(r) \/ BrokerRefuses(r)
         PROVE  CompleteInv'
    <2>1. /\ wire[r] = "sent" /\ wire'[r] # "unsent"
          /\ UNCHANGED <<pc, out, wiredAt, faults>>
          /\ \A q \in Reqs \ {r} : UNCHANGED wire[q]
      BY <1>12 DEF BrokerApplies, BrokerRefuses, storeVars, envVars, TypeOK
    <2>2. out[r] # "ok"
      BY <2>1 DEF Phases
    <2>3. Fine(r)'
      BY <1>1, <1>3, <2>1, <2>2 DEF Fine
    <2> QED  BY <1>4, <2>1, <2>3
  <1>13. ASSUME UNCHANGED <<pc, out, wire, wiredAt, faults>>
         PROVE  CompleteInv'
    BY <1>13, CompleteQuiet
  <1>14. ASSUME NEW row \in outbox, Pump(row)
         PROVE  CompleteInv'
    BY <1>13, <1>14 DEF Pump, reqVars, envVars
  <1>15. Freeze \/ Unfreeze \/ SetEventDispatcher \/ SetEventStore \/ UNCHANGED vars => CompleteInv'
    BY <1>13 DEF Freeze, Unfreeze, SetEventDispatcher, SetEventStore, vars, reqVars, storeVars, envVars
  <1>16. Crash => CompleteInv'
    <2> SUFFICES ASSUME Crash PROVE CompleteInv'
      OBVIOUS
    <2>1. /\ \A r \in Reqs : pc'[r] = pc[r] \/ pc'[r] = "crashed"
          /\ UNCHANGED <<wire, out, wiredAt, faults>>
      BY DEF Crash, storeVars
    <2> QED  BY <2>1, CompleteQuiet
  <1> QED
    BY <1>5, <1>6, <1>7, <1>8, <1>9, <1>10, <1>11, <1>12, <1>14, <1>15, <1>16,
       <1>17 DEF Next, Run, Broker

\* An applied request that returned without a row is one the comments allow:
\* reported as failed, begun before the wiring, or let down by the store.
THEOREM AuditIsComplete == Spec => []AuditComplete
  <1>1. Init => StillWired /\ CompleteInv
    BY DEF Init, StillWired, Running, CompleteInv, AuditComplete
  <1>2. CompleteInv => AuditComplete
    BY DEF CompleteInv
  <1> QED
    BY <1>1, <1>2, StillWiredNext, CompleteInvNext, TypeCorrect, PhasesCorrect, PTL DEF Spec

-----------------------------------------------------------------------------
(* What subscribers are told.                                              *)

(***************************************************************************)
(* What is still to be dispatched is the rest of what is owed, or nothing: *)
(* a request that decided before the dispatcher was wired dispatches       *)
(* nothing, and neither does one whose process died.  One that began after *)
(* the wiring and lives has the rest, so that it is done when none is left.*)
(* Told is what the row of a process that died keeps of that.              *)
(***************************************************************************)
Decided == {"dispatch", "outbox", "staged", "fallback", "appended", "done"}

Behind(r, n) ==
  /\ events[r] = SubSeq(Owed(r), 1, n)
  /\ \/ todo[r] = SubSeq(Owed(r), n + 1, Len(Owed(r)))
     \/ todo[r] = <<>> /\ ~(pc[r] \in Decided /\ "events" \in wiredAt[r])

EventsOf(r) ==
  /\ pc[r] \notin Decided \cup {"crashed"} => events[r] = <<>>
  /\ pc[r] # "dispatch" => todo[r] = <<>>
  /\ \E n \in 0..Len(Owed(r)) : Behind(r, n)

EventsInv == \A r \in Reqs : EventsOf(r)

Told == \A r \in Reqs : Recorded(r) /\ "events" \in wiredAt[r] => events[r] = Owed(r)

\* What is owed are events, and nothing before the request has decided.
LEMMA OwedType ==
  ASSUME NEW r \in Reqs, out[r] = "ok" => op[r] \in Ops
  PROVE  /\ Owed(r) \in Seq(EventKinds)
         /\ out[r] \notin {"ok", "failed", "blocked"} => Owed(r) = <<>>
         /\ out[r] = "failed" => Owed(r) = <<"OrderRejected">>
         /\ out[r] = "blocked" => Owed(r) = <<"RiskLimitBreached">>
         /\ out[r] = "ok" => Owed(r) = SuccessEvents[op[r]]
  <1>1. <<>> \in Seq(EventKinds)
        /\ <<"OrderRejected">> \in Seq(EventKinds) /\ <<"RiskLimitBreached">> \in Seq(EventKinds)
    BY DEF EventKinds
  <1>2. ASSUME op[r] \in Ops
        PROVE  SuccessEvents[op[r]] \in Seq(EventKinds)
    <2>1. op[r] \in {"place", "modify", "cancel"}
      BY <1>2, OpsAssumption
    <2>2. /\ <<"OrderPlaced", "PositionOpened">> \in Seq(EventKinds)
          /\ <<"OrderModified">> \in Seq(EventKinds)
          /\ <<"OrderCancelled">> \in Seq(EventKinds)
      BY DEF EventKinds
    <2>3. CASE op[r] = "place"
      BY <2>2, <2>3 DEF SuccessEvents
    <2>4. CASE op[r] = "modify"
      BY <2>2, <2>4 DEF SuccessEvents
    <2>5. CASE op[r] = "cancel"
      BY <2>2, <2>5 DEF SuccessEvents
    <2> QED  BY <2>1, <2>3, <2>4, <2>5
  <1> QED  BY <1>1, <1>2 DEF Owed

\* What a use case dispatches on success is what it owes.
LEMMA OwedOnSuccess ==
  ASSUME NEW k \in Ops
  PROVE  UseCase[k].success = SuccessEvents[k]
  <1>1. k \in {"place", "modify", "cancel"}
    BY OpsAssumption
  <1>2. CASE k = "place"
    BY <1>2 DEF UseCase, PlaceOrder, SuccessEvents
  <1>3. CASE k = "modify"
    BY <1>3 DEF UseCase, ModifyOrder, SuccessEvents
  <1>4. CASE k = "cancel"
    BY <1>4 DEF UseCase, CancelOrder, SuccessEvents
  <1> QED  BY <1>1, <1>2, <1>3, <1>4

\* Moving the head of the rest to the end of the prefix.
LEMMA NextOfRest ==
  ASSUME NEW S, NEW s \in Seq(S), NEW n \in 0..Len(s),
         SubSeq(s, n + 1, Len(s)) # <<>>
  PROVE  /\ n + 1 \in 0..Len(s)
         /\ Append(SubSeq(s, 1, n), Head(SubSeq(s, n + 1, Len(s)))) = SubSeq(s, 1, n + 1)
         /\ Tail(SubSeq(s, n + 1, Len(s))) = SubSeq(s, n + 2, Len(s))
  <1>1. n + 1 <= Len(s)
    OBVIOUS
  <1>2. Head(SubSeq(s, n + 1, Len(s))) = s[n + 1]
    BY <1>1
  <1>3. Append(SubSeq(s, 1, n), s[n + 1]) = SubSeq(s, 1, n + 1)
    BY <1>1
  <1>4. Tail(SubSeq(s, n + 1, Len(s))) = SubSeq(s, n + 2, Len(s))
    BY <1>1
  <1> QED  BY <1>1, <1>2, <1>3, <1>4

\* All of a sequence, and nothing of it.
LEMMA WholeAndNone ==
  ASSUME NEW S, NEW s \in Seq(S)
  PROVE  /\ SubSeq(s, 1, 0) = <<>>
         /\ SubSeq(s, 1, Len(s)) = s
         /\ \A n \in 0..Len(s) : SubSeq(s, n + 1, Len(s)) = <<>> => n = Len(s)
         /\ SubSeq(s, Len(s) + 1, Len(s)) = <<>>
  OBVIOUS

\* A request past its events has dispatched what it owes.
LEMMA Delivered ==
  ASSUME TypeOK, Phases, EventsInv, NEW r \in Reqs, "events" \in wiredAt[r],
         pc[r] \in Decided \ {"dispatch"}
  PROVE  events[r] = Owed(r)
  <1>1. out[r] = "ok" => op[r] \in Ops
    BY DEF TypeOK, Phases
  <1>2. Owed(r) \in Seq(EventKinds)
    BY <1>1, OwedType
  <1>3. PICK n \in 0..Len(Owed(r)) : Behind(r, n)
    BY DEF EventsInv, EventsOf
  <1>4. n = Len(Owed(r))
    BY <1>2, <1>3, WholeAndNone DEF Behind, EventsInv, EventsOf
  <1> QED  BY <1>2, <1>3, <1>4, WholeAndNone DEF Behind

LEMMA EventsProtocolled == TypeOK /\ Phases /\ EventsInv /\ Told => EventProtocol
  <1> SUFFICES ASSUME TypeOK, Phases, EventsInv, Told, NEW r \in Reqs
               PROVE  /\ \E n \in 0..Len(Owed(r)) : events[r] = SubSeq(Owed(r), 1, n)
                      /\ "events" \in wiredAt[r] /\ (pc[r] = "done" \/ Recorded(r))
                           => events[r] = Owed(r)
    BY DEF EventProtocol
  <1>1. \E n \in 0..Len(Owed(r)) : events[r] = SubSeq(Owed(r), 1, n)
    BY DEF Behind, EventsInv, EventsOf
  <1>2. pc[r] = "done" /\ "events" \in wiredAt[r] => events[r] = Owed(r)
    BY Delivered DEF Decided
  <1> QED  BY <1>1, <1>2 DEF Told

\* A request that decides what it returns, and what it has to dispatch.
LEMMA Decides ==
  ASSUME TypeOK, Phases, StillWired, EventsInv, NEW r \in Reqs,
         pc[r] \in {"risk", "call"}, pc'[r] = "dispatch",
         Owed(r)' \in Seq(EventKinds), todo'[r] = IfWired(Owed(r)'),
         UNCHANGED <<events[r], wiredAt[r]>>
  PROVE  EventsOf(r)'
  <1>1. wiredAt[r] \subseteq wired /\ events[r] = <<>>
    BY DEF StillWired, Running, EventsInv, EventsOf, Decided
  <1>2. 0 \in 0..Len(Owed(r)') /\ SubSeq(Owed(r)', 0 + 1, Len(Owed(r)')) = Owed(r)'
    BY WholeAndNone
  <1>3. events'[r] = SubSeq(Owed(r)', 1, 0)
    BY <1>1, WholeAndNone
  <1>4. Behind(r, 0)'
    BY <1>1, <1>2, <1>3 DEF Behind, IfWired
  <1> QED  BY <1>2, <1>4 DEF EventsOf, Decided

\* A request that moves on without dispatching anything, and owes what it did.
LEMMA MovesOn ==
  ASSUME EventsInv, NEW r \in Reqs,
         UNCHANGED <<events[r], todo[r], wiredAt[r], Owed(r)>>,
         \/ pc'[r] = pc[r]
         \/ pc[r] \notin Decided \cup {"crashed"} /\ pc'[r] \notin Decided
         \/ pc[r] \in Decided /\ pc'[r] \in Decided
         \/ pc'[r] = "crashed",
         pc'[r] # "dispatch" => todo[r] = <<>>
  PROVE  EventsOf(r)'
  <1>1. pc'[r] \notin Decided \cup {"crashed"} => events'[r] = <<>>
    BY DEF EventsInv, EventsOf, Decided
  <1>2. PICK n \in 0..Len(Owed(r)) : Behind(r, n)
    BY DEF EventsInv, EventsOf
  <1>3. n \in 0..Len(Owed(r)') /\ Behind(r, n)'
    BY <1>2 DEF Behind, Decided
  <1> QED  BY <1>1, <1>3 DEF EventsOf

LEMMA EventsInvNext ==
  TypeOK /\ Phases /\ StillWired /\ EventsInv /\ [Next]_vars => EventsInv'
  <1> SUFFICES ASSUME TypeOK, Phases, StillWired, EventsInv, [Next]_vars
               PROVE  EventsInv'
    OBVIOUS
  <1>1. \A r \in Reqs : /\ out[r] = "ok" => op[r] \in Ops
                        /\ Owed(r) \in Seq(EventKinds)
    <2> SUFFICES ASSUME NEW r \in Reqs
                 PROVE  (out[r] = "ok" => op[r] \in Ops) /\ Owed(r) \in Seq(EventKinds)
      OBVIOUS
    <2>1. out[r] = "ok" => op[r] \in Ops
      BY DEF TypeOK, Phases
    <2> QED  BY <2>1, OwedType
  <1>2. ASSUME NEW r \in Reqs, UNCHANGED <<out[r], op[r]>>
        PROVE  UNCHANGED Owed(r)
    BY <1>2 DEF Owed
  <1> DEFINE Kept(q) == UNCHANGED <<pc[q], op[q], out[q], todo[q], events[q], wiredAt[q]>>
  <1>3. ASSUME NEW r \in Reqs, Kept(r)
        PROVE  EventsOf(r)'
    BY <1>2, <1>3, MovesOn DEF EventsInv, EventsOf
  <1>4. ASSUME NEW r \in Reqs, NEW k \in Ops, NEW o \in Orders \cup {NoOrder}, Begin(r, k, o)
        PROVE  EventsInv'
    <2>1. /\ \A q \in Reqs \ {r} : Kept(q)
          /\ pc[r] = "idle" /\ pc'[r] \in {"risk", "resolve", "done"}
          /\ out'[r] \in {"none", "invalid"} /\ out[r] = "none"
          /\ UNCHANGED <<events[r], todo[r]>>
      BY <1>4 DEF Begin, AfterValidation, TypeOK, Phases
    <2>2. events[r] = <<>> /\ todo[r] = <<>>
      BY <2>1 DEF EventsInv, EventsOf, Decided
    <2>3. Owed(r)' = <<>>
      BY <2>1 DEF Owed
    <2>4. Behind(r, 0)' /\ 0 \in 0..Len(Owed(r)')
      BY <2>1, <2>2, <2>3 DEF Behind
    <2>5. EventsOf(r)'
      BY <2>1, <2>2, <2>4 DEF EventsOf
    <2> QED  BY <1>3, <2>1, <2>5 DEF EventsInv
  <1>5. ASSUME NEW r \in Reqs, RiskBlocks(r)
        PROVE  EventsInv'
    <2>1. /\ \A q \in Reqs \ {r} : Kept(q)
          /\ pc[r] = "risk" /\ pc'[r] = "dispatch" /\ out'[r] = "blocked"
          /\ todo'[r] = IfWired(<<"RiskLimitBreached">>)
          /\ UNCHANGED <<events[r], wiredAt[r]>>
      BY <1>5 DEF RiskBlocks, TypeOK, envVars
    <2>2. Owed(r)' = <<"RiskLimitBreached">>
      BY <2>1 DEF Owed
    <2>3. Owed(r)' \in Seq(EventKinds)
      BY <2>2 DEF EventKinds
    <2>4. EventsOf(r)'
      BY <2>1, <2>2, <2>3, Decides
    <2> QED  BY <1>3, <2>1, <2>4 DEF EventsInv
  <1>6. ASSUME NEW r \in Reqs, CallFails(r)
        PROVE  EventsInv'
    <2>1. /\ \A q \in Reqs \ {r} : Kept(q)
          /\ pc[r] = "call" /\ pc'[r] = "dispatch" /\ out'[r] = "failed"
          /\ todo'[r] = IfWired(<<"OrderRejected">>)
          /\ UNCHANGED <<events[r], wiredAt[r]>>
      BY <1>6 DEF CallFails, TypeOK, envVars
    <2>2. Owed(r)' = <<"OrderRejected">>
      BY <2>1 DEF Owed
    <2>3. Owed(r)' \in Seq(EventKinds)
      BY <2>2 DEF EventKinds
    <2>4. EventsOf(r)'
      BY <2>1, <2>2, <2>3, Decides
    <2> QED  BY <1>3, <2>1, <2>4 DEF EventsInv
  <1>7. ASSUME NEW r \in Reqs, CallSucceeds(r)
        PROVE  EventsInv'
    <2>1. /\ \A q \in Reqs \ {r} : Kept(q)
          /\ pc[r] = "call" /\ pc'[r] = "dispatch" /\ out'[r] = "ok"
          /\ todo'[r] = IfWired(UseCase[op[r]].success)
          /\ UNCHANGED <<events[r], wiredAt[r], op[r]>>
      BY <1>7 DEF CallSucceeds, TypeOK, envVars
    <2>2. op[r] \in Ops
      BY <2>1 DEF Phases
    <2>3. Owed(r)' = SuccessEvents[op[r]]
      BY <2>1 DEF Owed
    <2>4. todo'[r] = IfWired(Owed(r)') /\ Owed(r)' \in Seq(EventKinds)
      BY <2>1, <2>2, <2>3, OwedOnSuccess, UseCaseType
    <2>5. EventsOf(r)'
      BY <2>1, <2>4, Decides
    <2> QED  BY <1>3, <2>1, <2>5 DEF EventsInv
  <1>8. ASSUME NEW r \in Reqs, Dispatch(r)
        PROVE  EventsInv'
    <2>1. /\ \A q \in Reqs \ {r} : Kept(q)
          /\ pc[r] = "dispatch" /\ todo[r] # <<>>
          /\ events'[r] = Append(events[r], Head(todo[r])) /\ todo'[r] = Tail(todo[r])
          /\ UNCHANGED <<pc[r], op[r], out[r], wiredAt[r]>>
      BY <1>8 DEF Dispatch, TypeOK, envVars
    <2>2. PICK n \in 0..Len(Owed(r)) : Behind(r, n)
      BY DEF EventsInv, EventsOf
    <2> DEFINE owed == Owed(r)
    <2>3. owed \in Seq(EventKinds) /\ Owed(r)' = owed
      BY <1>1, <1>2, <2>1
    <2>4. events[r] = SubSeq(owed, 1, n) /\ todo[r] = SubSeq(owed, n + 1, Len(owed))
      BY <2>1, <2>2 DEF Behind
    <2> HIDE DEF owed
    <2>5. /\ n + 1 \in 0..Len(owed)
          /\ events'[r] = SubSeq(owed, 1, n + 1)
          /\ todo'[r] = SubSeq(owed, n + 2, Len(owed))
      BY <2>1, <2>2, <2>3, <2>4, NextOfRest DEF owed
    <2>6. (n + 1) + 1 = n + 2
      BY <2>2
    <2>7. Behind(r, n + 1)'
      BY <2>3, <2>5, <2>6 DEF Behind
    <2>8. EventsOf(r)'
      BY <2>1, <2>3, <2>5, <2>7 DEF EventsOf, Decided
    <2> QED  BY <1>3, <2>1, <2>8 DEF EventsInv
  <1>9. ASSUME NEW r \in Reqs, RiskAllows(r) \/ CallBroker(r)
        PROVE  EventsInv'
    <2>1. /\ \A q \in Reqs \ {r} : Kept(q)
          /\ pc[r] \in {"risk", "resolve"} /\ pc'[r] \in {"resolve", "call"}
          /\ UNCHANGED <<events[r], todo[r], wiredAt[r], out[r], op[r]>>
      BY <1>9 DEF RiskAllows, CallBroker, TypeOK, envVars
    <2>2. todo[r] = <<>>
      BY <2>1 DEF EventsInv, EventsOf
    <2>3. EventsOf(r)'
      BY <1>2, <2>1, <2>2, MovesOn DEF Decided
    <2> QED  BY <1>3, <2>1, <2>3 DEF EventsInv
  <1>10. ASSUME NEW r \in Reqs, ResolveFails(r)
         PROVE  EventsInv'
    <2>1. /\ \A q \in Reqs \ {r} : Kept(q)
          /\ pc[r] = "resolve" /\ pc'[r] = "done" /\ out'[r] = "unresolved"
          /\ UNCHANGED <<events[r], todo[r]>>
      BY <1>10 DEF ResolveFails, TypeOK, envVars
    <2>2. events[r] = <<>> /\ todo[r] = <<>>
      BY <2>1 DEF EventsInv, EventsOf, Decided
    <2>3. Owed(r)' = <<>>
      BY <2>1 DEF Owed
    <2>4. Behind(r, 0)' /\ 0 \in 0..Len(Owed(r)')
      BY <2>1, <2>2, <2>3 DEF Behind
    <2>5. EventsOf(r)'
      BY <2>1, <2>2, <2>4 DEF EventsOf
    <2> QED  BY <1>3, <2>1, <2>5 DEF EventsInv
  <1>11. ASSUME NEW r \in Reqs,
                \/ ReturnError(r) \/ AskSequence(r) \/ AppendToOutbox(r)
                \/ OutboxAnswerLost(r) \/ FallbackAppend(r) \/ ReturnSuccess(r)
         PROVE  EventsInv'
    <2>1. /\ \A q \in Reqs \ {r} : Kept(q)
          /\ pc[r] \in Decided /\ pc'[r] \in Decided
          /\ pc[r] = "dispatch" => todo[r] = <<>>
          /\ UNCHANGED <<events[r], todo[r], wiredAt[r], out[r], op[r]>>
      BY <1>11 DEF ReturnError, AskSequence, AppendToOutbox, OutboxAnswerLost, FallbackAppend,
         ReturnSuccess, TypeOK, envVars, Decided
    <2>2. todo[r] = <<>>
      BY <2>1 DEF EventsInv, EventsOf
    <2>3. EventsOf(r)'
      BY <1>2, <2>1, <2>2, MovesOn
    <2> QED  BY <1>3, <2>1, <2>3 DEF EventsInv
  <1>12. ASSUME NEW r \in Reqs, Broker(r)
         PROVE  EventsInv'
    BY <1>3, <1>12 DEF Broker, BrokerApplies, BrokerRefuses, envVars, EventsInv
  <1>13. ASSUME NEW row \in outbox, Pump(row)
         PROVE  EventsInv'
    BY <1>3, <1>13 DEF Pump, reqVars, envVars, EventsInv
  <1>14. Freeze \/ Unfreeze \/ SetEventDispatcher \/ SetEventStore \/ UNCHANGED vars => EventsInv'
    BY <1>3 DEF Freeze, Unfreeze, SetEventDispatcher, SetEventStore, vars, reqVars, envVars, EventsInv
  <1>15. Crash => EventsInv'
    <2> SUFFICES ASSUME Crash, NEW r \in Reqs PROVE EventsOf(r)'
      BY DEF EventsInv
    <2>1. /\ pc'[r] = IF pc[r] \in {"idle", "done"} THEN pc[r] ELSE "crashed"
          /\ todo'[r] = <<>>
          /\ UNCHANGED <<events[r], wiredAt[r], out[r], op[r]>>
      BY DEF Crash
    <2>2. CASE pc[r] \in {"idle", "done"}
      <3>1. todo[r] = <<>>
        BY <2>2 DEF EventsInv, EventsOf
      <3> QED  BY <1>3, <2>1, <2>2, <3>1
    <2>3. CASE pc[r] \notin {"idle", "done"}
      <3>1. PICK n \in 0..Len(Owed(r)) : Behind(r, n)
        BY DEF EventsInv, EventsOf
      <3>2. n \in 0..Len(Owed(r)') /\ Behind(r, n)'
        BY <1>2, <2>1, <2>3, <3>1 DEF Behind, Decided
      <3> QED  BY <2>1, <2>3, <3>2 DEF EventsOf
    <2> QED  BY <2>2, <2>3
  <1> QED
    BY <1>4, <1>5, <1>6, <1>7, <1>8, <1>9, <1>10, <1>11, <1>12, <1>13, <1>14, <1>15
       DEF Next, Run

\* A new row is the row of a request on its way to an append.
LEMMA NewRows ==
  TypeOK /\ Phases /\ [Next]_vars =>
    \A row \in Trail' \ Trail : pc[row.req] \in {"outbox", "fallback"} /\ pc'[row.req] # "crashed"
  <1> SUFFICES ASSUME TypeOK, Phases, [Next]_vars, NEW new \in Trail' \ Trail
               PROVE  pc[new.req] \in {"outbox", "fallback"} /\ pc'[new.req] # "crashed"
    OBVIOUS
  <1>1. ASSUME NEW r \in Reqs, AppendToOutbox(r)
        PROVE  pc[new.req] \in {"outbox", "fallback"} /\ pc'[new.req] # "crashed"
    <2>1. /\ pc[r] = "outbox" /\ Row(r, "outbox").req = r
          /\ pc' = [pc EXCEPT ![r] = "staged"] \/ pc' = [pc EXCEPT ![r] = "fallback"]
      BY <1>1, RowFields DEF AppendToOutbox
    <2>2. new = Row(r, "outbox")
      BY <1>1 DEF AppendToOutbox, Trail
    <2> QED  BY <2>1, <2>2 DEF TypeOK
  <1>2. ASSUME NEW r \in Reqs, FallbackAppend(r)
        PROVE  pc[new.req] \in {"outbox", "fallback"} /\ pc'[new.req] # "crashed"
    <2>1. /\ pc[r] = "fallback" /\ Row(r, "append").req = r
          /\ pc' = [pc EXCEPT ![r] = "appended"] \/ pc' = [pc EXCEPT ![r] = "done"]
      BY <1>2, RowFields DEF FallbackAppend
    <2>2. new = Row(r, "append")
      BY <1>2 DEF FallbackAppend, Trail
    <2> QED  BY <2>1, <2>2 DEF TypeOK
  <1>3. ASSUME NEW r \in Reqs, NEW k \in Ops, NEW o \in Orders \cup {NoOrder}, Begin(r, k, o)
        PROVE  Trail' = Trail
    BY <1>3 DEF Begin, storeVars, Trail
  <1>4. ASSUME NEW r \in Reqs,
               \/ RiskAllows(r) \/ RiskBlocks(r) \/ ResolveFails(r) \/ CallBroker(r)
               \/ CallSucceeds(r) \/ CallFails(r) \/ Dispatch(r) \/ ReturnError(r)
               \/ AskSequence(r) \/ OutboxAnswerLost(r) \/ ReturnSuccess(r) \/ Broker(r)
        PROVE  Trail' = Trail
    BY <1>4 DEF RiskAllows, RiskBlocks, ResolveFails, CallBroker, CallSucceeds, CallFails,
       Dispatch, ReturnError, AskSequence, OutboxAnswerLost, ReturnSuccess, Broker,
       BrokerApplies, BrokerRefuses, storeVars, Trail
  <1>5. ASSUME NEW row \in outbox, Pump(row)
        PROVE  Trail' = Trail
    BY <1>5 DEF Pump, Trail
  <1>6. Freeze \/ Unfreeze \/ SetEventDispatcher \/ SetEventStore \/ Crash \/ UNCHANGED vars
          => Trail' = Trail
    BY DEF Freeze, Unfreeze, SetEventDispatcher, SetEventStore, Crash, vars, storeVars, Trail
  <1> QED  BY <1>1, <1>2, <1>3, <1>4, <1>5, <1>6 DEF Next, Run

\* Nothing is done any more for a request whose process died.
LEMMA DeadIsStill ==
  ASSUME TypeOK, [Next]_vars, NEW r \in Reqs, pc'[r] = "crashed"
  PROVE  UNCHANGED <<events[r], wiredAt[r], out[r], op[r]>>
  <1> DEFINE Still == UNCHANGED <<events[r], wiredAt[r], out[r], op[r]>>
  <1>1. ASSUME NEW q \in Reqs, NEW k \in Ops, NEW o \in Orders \cup {NoOrder}, Begin(q, k, o)
        PROVE  Still
    <2>1. pc'[q] \in {"risk", "resolve", "done"}
      BY <1>1 DEF Begin, AfterValidation, TypeOK
    <2> QED  BY <1>1, <2>1 DEF Begin, TypeOK
  <1>2. ASSUME NEW q \in Reqs, RiskAllows(q) \/ RiskBlocks(q) \/ ResolveFails(q) \/ CallBroker(q)
        PROVE  Still
    BY <1>2 DEF RiskAllows, RiskBlocks, ResolveFails, CallBroker, envVars, TypeOK
  <1>3. ASSUME NEW q \in Reqs, CallSucceeds(q) \/ CallFails(q)
        PROVE  Still
    BY <1>3 DEF CallSucceeds, CallFails, envVars, TypeOK
  <1>4. ASSUME NEW q \in Reqs, Dispatch(q)
        PROVE  Still
    BY <1>4 DEF Dispatch, envVars, TypeOK
  <1>5. ASSUME NEW q \in Reqs,
               \/ ReturnError(q) \/ AskSequence(q) \/ AppendToOutbox(q)
               \/ OutboxAnswerLost(q) \/ FallbackAppend(q) \/ ReturnSuccess(q) \/ Broker(q)
        PROVE  Still
    BY <1>5 DEF ReturnError, AskSequence, AppendToOutbox, OutboxAnswerLost, FallbackAppend,
       ReturnSuccess, Broker, BrokerApplies, BrokerRefuses, envVars
  <1>6. ASSUME NEW row \in outbox, Pump(row)
        PROVE  Still
    BY <1>6 DEF Pump, reqVars, envVars
  <1>7. Freeze \/ Unfreeze \/ SetEventDispatcher \/ SetEventStore \/ Crash \/ UNCHANGED vars => Still
    BY DEF Freeze, Unfreeze, SetEventDispatcher, SetEventStore, Crash, vars, reqVars, envVars
  <1> QED  BY <1>1, <1>2, <1>3, <1>4, <1>5, <1>6, <1>7 DEF Next, Run

LEMMA ToldNext ==
  TypeOK /\ Phases /\ Told /\ [Next]_vars /\ (TypeOK /\ Phases /\ AuditInv /\ EventsInv)' => Told'
  <1> SUFFICES ASSUME TypeOK, Phases, Told, [Next]_vars, (TypeOK /\ Phases /\ AuditInv /\ EventsInv)',
                      NEW r \in Reqs, Recorded(r)', "events" \in wiredAt'[r]
               PROVE  events'[r] = Owed(r)'
    BY DEF Told
  <1>1. CASE pc'[r] = "crashed"
    <2>1. Recorded(r)
      BY <1>1, NewRows DEF Recorded
    <2>2. UNCHANGED <<events[r], wiredAt[r], out[r], op[r]>>
      BY <1>1, DeadIsStill
    <2> QED  BY <2>1, <2>2 DEF Told, Owed
  <1>2. CASE pc'[r] # "crashed"
    <2>1. pc'[r] \in Decided \ {"dispatch"}
      BY <1>2 DEF Recorded, AuditInv, RowsBehind, Decided
    <2>2. (TypeOK /\ Phases /\ EventsInv /\ pc[r] \in Decided \ {"dispatch"}
             /\ "events" \in wiredAt[r] => events[r] = Owed(r))'
      BY Delivered, PTL
    <2> QED  BY <2>1, <2>2
  <1> QED  BY <1>1, <1>2

LEMMA EventsInvInit == Init => EventsInv
  <1> SUFFICES ASSUME Init, NEW r \in Reqs PROVE EventsOf(r)
    BY DEF EventsInv
  <1>1. pc[r] = "idle" /\ out[r] = "none" /\ events[r] = <<>> /\ todo[r] = <<>>
    BY DEF Init
  <1>2. Owed(r) = <<>>
    BY <1>1 DEF Owed
  <1>3. Behind(r, 0) /\ 0 \in 0..Len(Owed(r))
    BY <1>1, <1>2 DEF Behind, Decided
  <1> QED  BY <1>1, <1>3 DEF EventsOf

\* Subscribers see the events of one outcome, in order, and all of them before
\* the request returns, and before it has a row, if the dispatcher was wired
\* when it began.
THEOREM EventsInOrder == Spec => []EventProtocol
  <1>1. Init => StillWired /\ Told
    BY DEF Init, StillWired, Running, Told, Recorded, Trail
  <1> QED
    BY <1>1, EventsInvInit, StillWiredNext, EventsInvNext, ToldNext, EventsProtocolled,
       TypeCorrect, PhasesCorrect, AuditInvCorrect, PTL DEF Spec

-----------------------------------------------------------------------------
(* The refinement.                                                         *)

\* A step that changes neither what the broker has applied, nor who is
\* recorded, nor what became of a request, is a stutter of the promise.
LEMMA Stutters ==
  ASSUME TypeOK, UNCHANGED <<outbox, log>> \/ Trail' = Trail,
         \A r \in Reqs : wire'[r] = "applied" <=> wire[r] = "applied",
         \A r \in Reqs : Verdict(r)' = Verdict(r)
  PROVE  UNCHANGED Promise!vars
  <1>1. \A r \in Reqs : Recorded(r)' <=> Recorded(r)
    BY DEF Recorded, Trail
  <1> QED  BY <1>1 DEF Promise!vars

\* Only the verdict on one request that was open and has no row changes, to
\* "error".
LEMMA Fails ==
  ASSUME TypeOK, AuditInv, NEW r \in Reqs, UNCHANGED <<outbox, log, wire>>,
         pc[r] \in {"idle", "resolve", "dispatch"},
         Verdict(r) = "open", Verdict(r)' = "error",
         \A q \in Reqs \ {r} : Verdict(q)' = Verdict(q)
  PROVE  Promise!Fail(r)
  <1>1. \A q \in Reqs : Recorded(q)' <=> Recorded(q)
    BY DEF Recorded, Trail
  <1>2. [q \in Reqs |-> Verdict(q)]' = [[q \in Reqs |-> Verdict(q)] EXCEPT ![r] = "error"]
    OBVIOUS
  <1>3. ~Recorded(r)
    BY DEF Recorded, AuditInv, RowsBehind
  <1> QED  BY <1>1, <1>2, <1>3 DEF Promise!Fail

\* A request that the broker applied succeeds; its row is there, or was lost.
LEMMA Succeeds ==
  ASSUME TypeOK, NEW r \in Reqs, UNCHANGED wire, wire[r] = "applied",
         Verdict(r) = "open", Verdict(r)' = "ok",
         \A q \in Reqs \ {r} : Verdict(q)' = Verdict(q),
         Trail' = Trail
  PROVE  Promise!Succeed(r)
  <1>1. \A q \in Reqs : Recorded(q)' <=> Recorded(q)
    BY DEF Recorded
  <1>2. [q \in Reqs |-> Verdict(q)]' = [[q \in Reqs |-> Verdict(q)] EXCEPT ![r] = "ok"]
    OBVIOUS
  <1> QED  BY <1>1, <1>2 DEF Promise!Succeed

\* The row of a request that the broker applied is stored while the request is
\* still open, or a second time.
LEMMA Records ==
  ASSUME TypeOK, NEW r \in Reqs, UNCHANGED wire, wire[r] = "applied",
         Verdict(r) = "open", \A q \in Reqs : Verdict(q)' = Verdict(q),
         NEW row, row.req = r, Trail' = Trail \cup {row}
  PROVE  Promise!Record(r) \/ UNCHANGED Promise!vars
  <1>1. \A q \in Reqs : Recorded(q)' <=> Recorded(q) \/ q = r
    BY DEF Recorded
  <1>2. {q \in Reqs : Recorded(q)}' = {q \in Reqs : Recorded(q)} \cup {r}
    BY <1>1
  <1>3. UNCHANGED <<{q \in Reqs : wire[q] = "applied"}, [q \in Reqs |-> Verdict(q)]>>
    OBVIOUS
  <1>4. CASE Recorded(r)
    <2>1. {q \in Reqs : Recorded(q)}' = {q \in Reqs : Recorded(q)}
      BY <1>2, <1>4
    <2> QED  BY <1>3, <2>1 DEF Promise!vars
  <1>5. CASE ~Recorded(r)
    BY <1>2, <1>3, <1>5 DEF Promise!Record
  <1> QED  BY <1>4, <1>5

LEMMA PromiseInit == Init => Promise!Init
  BY DEF Init, Promise!Init, Verdict, Recorded, Trail

LEMMA PromiseStep ==
  TypeOK /\ Phases /\ AuditInv /\ [Next]_vars => [Promise!Next]_(Promise!vars)
  <1> SUFFICES ASSUME TypeOK, Phases, AuditInv, [Next]_vars
               PROVE  Promise!Next \/ UNCHANGED Promise!vars
    OBVIOUS
  <1>1. ASSUME NEW r \in Reqs, UNCHANGED <<pc[r], out[r]>>
        PROVE  Verdict(r)' = Verdict(r)
    BY <1>1 DEF Verdict
  <1>2. ASSUME NEW r \in Reqs, NEW k \in Ops, NEW o \in Orders \cup {NoOrder}, Begin(r, k, o)
        PROVE  Promise!Fail(r) \/ UNCHANGED Promise!vars
    <2>1. /\ UNCHANGED <<outbox, log, wire>> /\ pc[r] = "idle"
          /\ \A q \in Reqs \ {r} : UNCHANGED <<pc[q], out[q]>>
          /\ \/ pc'[r] \in {"risk", "resolve"}
             \/ pc'[r] = "done" /\ out'[r] = "invalid"
      BY <1>2 DEF Begin, AfterValidation, storeVars, TypeOK
    <2>2. Verdict(r) = "open"
      BY <2>1 DEF Verdict
    <2>3. \A q \in Reqs \ {r} : Verdict(q)' = Verdict(q)
      BY <1>1, <2>1
    <2>4. CASE pc'[r] \in {"risk", "resolve"}
      <3>1. Verdict(r)' = "open"
        BY <2>4 DEF Verdict
      <3> QED  BY <2>1, <2>2, <2>3, <3>1, Stutters
    <2>5. CASE pc'[r] = "done" /\ out'[r] = "invalid"
      <3>1. Verdict(r)' = "error"
        BY <2>5 DEF Verdict
      <3> QED  BY <2>1, <2>2, <2>3, <3>1, Fails
    <2> QED  BY <2>1, <2>4, <2>5
  <1>3. ASSUME NEW r \in Reqs,
               \/ RiskAllows(r) \/ RiskBlocks(r) \/ CallBroker(r)
               \/ CallSucceeds(r) \/ CallFails(r) \/ Dispatch(r)
        PROVE  UNCHANGED Promise!vars
    <2>1. /\ UNCHANGED <<outbox, log>> /\ \A q \in Reqs \ {r} : UNCHANGED <<pc[q], out[q]>>
          /\ {pc[r], pc'[r]} \subseteq {"risk", "resolve", "call", "dispatch"}
          /\ \/ UNCHANGED wire
             \/ /\ wire[r] # "applied" /\ wire'[r] # "applied"
                /\ \A q \in Reqs \ {r} : wire'[q] = wire[q]
      BY <1>3 DEF RiskAllows, RiskBlocks, CallBroker, CallSucceeds, CallFails, Dispatch,
         storeVars, TypeOK, Phases
    <2>2. Verdict(r) = "open" /\ Verdict(r)' = "open"
      BY <2>1 DEF Verdict
    <2>3. \A q \in Reqs : Verdict(q)' = Verdict(q)
      BY <1>1, <2>1, <2>2
    <2> QED  BY <2>1, <2>3, Stutters
  <1>4. ASSUME NEW r \in Reqs, ResolveFails(r) \/ ReturnError(r)
        PROVE  Promise!Fail(r)
    <2>1. /\ UNCHANGED <<outbox, log, wire>> /\ \A q \in Reqs \ {r} : UNCHANGED <<pc[q], out[q]>>
          /\ pc[r] \in {"resolve", "dispatch"} /\ pc'[r] = "done" /\ out'[r] # "ok"
      BY <1>4 DEF ResolveFails, ReturnError, storeVars, TypeOK
    <2>2. Verdict(r) = "open" /\ Verdict(r)' = "error"
      BY <2>1 DEF Verdict
    <2>3. \A q \in Reqs \ {r} : Verdict(q)' = Verdict(q)
      BY <1>1, <2>1
    <2> QED  BY <2>1, <2>2, <2>3, Fails
  <1>5. ASSUME NEW r \in Reqs,
               \/ AskSequence(r) \/ AppendToOutbox(r) \/ OutboxAnswerLost(r)
               \/ FallbackAppend(r) \/ ReturnSuccess(r)
        PROVE  Promise!Record(r) \/ Promise!Succeed(r) \/ UNCHANGED Promise!vars
    <2>1. /\ UNCHANGED <<wire, out>> /\ \A q \in Reqs \ {r} : UNCHANGED <<pc[q], out[q]>>
          /\ pc[r] \in {"dispatch", "outbox", "staged", "fallback", "appended"} /\ out[r] = "ok"
          /\ pc'[r] \in {"outbox", "staged", "fallback", "appended", "done"}
      BY <1>5 DEF AskSequence, AppendToOutbox, OutboxAnswerLost, FallbackAppend, ReturnSuccess,
         TypeOK, Phases
    <2>2. wire[r] = "applied" /\ Verdict(r) = "open"
      BY <2>1 DEF Phases, Verdict
    <2>3. \A q \in Reqs \ {r} : Verdict(q)' = Verdict(q)
      BY <1>1, <2>1
    <2>4. \/ Trail' = Trail
          \/ /\ pc[r] \in {"outbox", "fallback"} /\ pc'[r] # "done"
             /\ \E via \in {"outbox", "append"} : Trail' = Trail \cup {Row(r, via)}
      BY <1>5 DEF AskSequence, AppendToOutbox, OutboxAnswerLost, FallbackAppend, ReturnSuccess,
         storeVars, Trail, TypeOK
    <2>5. CASE pc'[r] = "done"
      <3>1. Verdict(r)' = "ok"
        BY <2>1, <2>5 DEF Verdict
      <3> QED  BY <2>1, <2>2, <2>3, <2>4, <2>5, <3>1, Succeeds
    <2>6. CASE pc'[r] # "done"
      <3>1. \A q \in Reqs : Verdict(q)' = Verdict(q)
        BY <2>1, <2>2, <2>3, <2>6 DEF Verdict
      <3>2. CASE Trail' = Trail
        BY <2>1, <3>1, <3>2, Stutters
      <3>3. CASE Trail' # Trail
        <4>1. PICK via \in {"outbox", "append"} : Trail' = Trail \cup {Row(r, via)}
          BY <2>4, <3>3
        <4>2. Row(r, via).req = r
          BY <2>4, <3>3, RowFields
        <4> QED  BY <2>1, <2>2, <3>1, <4>1, <4>2, Records
      <3> QED  BY <3>2, <3>3
    <2> QED  BY <2>5, <2>6
  <1>6. ASSUME NEW r \in Reqs, BrokerApplies(r)
        PROVE  Promise!Apply(r)
    <2>1. /\ UNCHANGED <<outbox, log, pc, out>> /\ wire[r] = "sent"
          /\ wire' = [wire EXCEPT ![r] = "applied"]
      BY <1>6 DEF BrokerApplies, storeVars
    <2>2. out[r] # "ok"
      BY <2>1 DEF Phases
    <2>3. Verdict(r) # "ok" /\ \A q \in Reqs : Verdict(q)' = Verdict(q)
      BY <1>1, <2>1, <2>2 DEF Verdict
    <2>4. \A q \in Reqs : Recorded(q)' <=> Recorded(q)
      BY <2>1 DEF Recorded, Trail
    <2>5. {q \in Reqs : wire[q] = "applied"}' = {q \in Reqs : wire[q] = "applied"} \cup {r}
      BY <2>1 DEF TypeOK
    <2> QED  BY <2>1, <2>3, <2>4, <2>5 DEF Promise!Apply
  <1>7. ASSUME NEW r \in Reqs, BrokerRefuses(r)
        PROVE  UNCHANGED Promise!vars
    <2>1. /\ UNCHANGED <<outbox, log, pc, out>> /\ wire[r] = "sent"
          /\ wire' = [wire EXCEPT ![r] = "refused"]
      BY <1>7 DEF BrokerRefuses, storeVars
    <2>2. \A q \in Reqs : Verdict(q)' = Verdict(q)
      BY <1>1, <2>1
    <2> QED  BY <2>1, <2>2, Stutters DEF TypeOK
  <1>8. ASSUME NEW row \in outbox, Pump(row)
        PROVE  UNCHANGED Promise!vars
    <2>1. Trail' = Trail /\ UNCHANGED <<pc, out, wire>>
      BY <1>8 DEF Pump, Trail, reqVars
    <2>2. \A q \in Reqs : Verdict(q)' = Verdict(q)
      BY <1>1, <2>1
    <2> QED  BY <2>1, <2>2, Stutters
  <1>9. ASSUME Freeze \/ Unfreeze \/ SetEventDispatcher \/ SetEventStore \/ UNCHANGED vars
        PROVE  UNCHANGED Promise!vars
    <2>1. UNCHANGED <<outbox, log, pc, out, wire>>
      BY <1>9 DEF Freeze, Unfreeze, SetEventDispatcher, SetEventStore, vars, reqVars, storeVars
    <2>2. \A q \in Reqs : Verdict(q)' = Verdict(q)
      BY <1>1, <2>1
    <2> QED  BY <2>1, <2>2, Stutters
  <1>10. ASSUME Crash
         PROVE  Promise!Crash
    <2> DEFINE dead == {r \in Reqs : Running(r)}
    <2>1. /\ UNCHANGED <<outbox, log, out, wire>>
          /\ \A r \in Reqs : pc'[r] = IF pc[r] \in {"idle", "done"} THEN pc[r] ELSE "crashed"
      BY <1>10 DEF Crash, storeVars
    <2>2. \A r \in dead : Verdict(r) = "open" /\ Verdict(r)' = "gone"
      BY <2>1 DEF Verdict, Running
    <2>3. \A r \in Reqs \ dead : Verdict(r)' = Verdict(r)
      BY <2>1 DEF Verdict, Running
    <2>4. \A r \in Reqs : Recorded(r)' <=> Recorded(r)
      BY <2>1 DEF Recorded, Trail
    <2>5. dead \in SUBSET {r \in Reqs : [q \in Reqs |-> Verdict(q)][r] = "open"}
      BY <2>2
    <2>6. [q \in Reqs |-> Verdict(q)]'
            = [r \in Reqs |-> IF r \in dead THEN "gone" ELSE [q \in Reqs |-> Verdict(q)][r]]
      BY <2>2, <2>3
    <2>7. UNCHANGED <<{r \in Reqs : wire[r] = "applied"}, {r \in Reqs : Recorded(r)}>>
      BY <2>1, <2>4
    <2> HIDE DEF dead
    <2> QED  BY <2>5, <2>6, <2>7 DEF Promise!Crash
  <1> QED
    BY <1>2, <1>3, <1>4, <1>5, <1>6, <1>7, <1>8, <1>9, <1>10
       DEF Next, Run, Broker, Promise!Next

\* The order use cases, with all their steps and crashes, do nothing that
\* AuditedMutation does not allow.
THEOREM PromiseKept == Spec => ImplementsPromise
  <1> QED
    BY PromiseInit, PromiseStep, TypeCorrect, PhasesCorrect, AuditInvCorrect, PTL
       DEF Spec, ImplementsPromise, Promise!Spec

=============================================================================
