----------------------------- MODULE SagaProofs -----------------------------
(***************************************************************************)
(* The properties of RunSaga, for sagas of every length.                   *)
(***************************************************************************)
EXTENDS Saga, TLAPS

RollingBack == phase = "rollback" \/ ret = "failed"

\* What the loop over the steps has done by the time it is at step i.
Forward ==
  /\ completed = [j \in 1..(i - 1) |-> j]
  /\ 1..(i - 1) \subseteq attempted
  /\ effects \subseteq 1..(i - 1)
  /\ phase # "returned" => ret = "none"
  /\ phase = "returned" => ret # "none"
  /\ ret = "nil" => i = N + 1
  /\ ~RollingBack => /\ undone = <<>>
                     /\ compErrs = {}
                     /\ \A s \in 1..(i - 1) : s \in effects \/ steps[s].continueOnError

\* What the walk back has done by the time it is at cursor.
Backward ==
  RollingBack =>
    /\ cursor \in 0..(i - 1)
    /\ i <= N
    /\ ret = "failed" => cursor = 0
    /\ Undone = {s \in (cursor + 1)..(i - 1) : steps[s].compensate}
    /\ \A j, k \in 1..Len(undone) : j < k => undone[j] > undone[k]
    /\ compErrs \subseteq Undone
    /\ \A s \in effects : s <= cursor \/ ~steps[s].compensate \/ s \in compErrs

Inv == TypeOK /\ Forward /\ Backward

-----------------------------------------------------------------------------
\* The step at the cursor: its index is the cursor itself.
LEMMA CursorStep ==
  ASSUME Inv, phase = "rollback", cursor > 0
  PROVE  /\ completed[cursor] = cursor
         /\ cursor \in Indices
BY NAssumption DEF Inv, TypeOK, Forward, Backward, RollingBack, Indices

\* Appending to the list of compensations adds one to its elements.
LEMMA UndoneAppend ==
  ASSUME undone \in Seq(Indices), NEW s \in Indices, undone' = Append(undone, s)
  PROVE  /\ undone' \in Seq(Indices)
         /\ Undone' = Undone \cup {s}
         /\ Len(undone') = Len(undone) + 1
         /\ \A k \in 1..Len(undone) : undone'[k] = undone[k]
         /\ undone'[Len(undone) + 1] = s
<1>1. /\ undone' \in Seq(Indices)
      /\ Len(undone') = Len(undone) + 1
      /\ \A k \in 1..Len(undone) : undone'[k] = undone[k]
      /\ undone'[Len(undone) + 1] = s
  OBVIOUS
<1>2. 1..Len(undone') = 1..Len(undone) \cup {Len(undone) + 1}
  BY <1>1
<1>3. Undone' = Undone \cup {s}
  BY <1>1, <1>2 DEF Undone
<1> QED BY <1>1, <1>3

LEMMA TypeInit == Init => TypeOK
BY NAssumption DEF Init, TypeOK, Indices, Outcomes

LEMMA TypeNext ==
  ASSUME Inv, [Next]_vars
  PROVE  TypeOK'
<1> USE NAssumption
<1>1. CASE NilAction
  BY <1>1 DEF Inv, TypeOK, NilAction, Outcomes, histVars
<1>2. CASE ActionSucceeds
  BY <1>2 DEF Inv, TypeOK, ActionSucceeds, AtStep, Indices
<1>3. CASE ActionFailsContinue
  BY <1>3 DEF Inv, TypeOK, ActionFailsContinue, AtStep, Indices
<1>4. CASE ActionFails
  <2>1. Len(completed) = i - 1
    BY <1>4 DEF Inv, TypeOK, Forward, ActionFails, AtStep, Indices
  <2> QED BY <1>4, <2>1 DEF Inv, TypeOK, ActionFails, AtStep, Indices
<1>5. CASE Finish
  BY <1>5 DEF Inv, TypeOK, Finish, Outcomes, histVars
<1>6. CASE CompensateNext
  <2>1. completed[cursor] = cursor /\ cursor \in Indices
    BY <1>6, CursorStep DEF CompensateNext
  <2>2. undone' \in Seq(Indices)
    BY <1>6, <2>1, UndoneAppend DEF CompensateNext, Inv, TypeOK
  <2>3. effects' \subseteq Indices /\ compErrs' \subseteq Indices /\ cursor' \in 0..N
    <3>1. /\ \/ effects' = effects
             \/ effects' = effects \ {cursor}
          /\ \/ compErrs' = compErrs
             \/ compErrs' = compErrs \cup {cursor}
      BY <1>6, <2>1 DEF CompensateNext
    <3>2. cursor > 0 /\ cursor' = cursor - 1
      BY <1>6 DEF CompensateNext
    <3>3. effects \subseteq Indices /\ compErrs \subseteq Indices /\ cursor \in 0..N
      BY DEF Inv, TypeOK
    <3>4. cursor' \in 0..N
      BY <3>2, <3>3
    <3>5. effects' \subseteq Indices
      BY <3>1, <3>3
    <3>6. compErrs' \subseteq Indices
      <4>1. cursor \in Indices /\ compErrs \subseteq Indices
        BY <2>1, <3>3
      <4>2. compErrs' = compErrs \/ compErrs' = compErrs \cup {cursor}
        BY <3>1
      <4> QED BY <4>1, <4>2, Zenon
    <3> QED BY <3>4, <3>5, <3>6
  <2> QED BY <1>6, <2>2, <2>3 DEF Inv, TypeOK, CompensateNext
<1>7. CASE ReturnError
  BY <1>7 DEF Inv, TypeOK, ReturnError, Outcomes, histVars
<1>8. CASE UNCHANGED vars
  BY <1>8 DEF Inv, TypeOK, vars, loopVars, histVars
<1> QED BY <1>1, <1>2, <1>3, <1>4, <1>5, <1>6, <1>7, <1>8 DEF Next

\* A step that ran is appended at its own index.
LEMMA CompletedAppend ==
  ASSUME TypeOK, Forward, i \in Indices, completed' = Append(completed, i), i' = i + 1
  PROVE  completed' = [j \in 1..(i' - 1) |-> j]
BY NAssumption DEF TypeOK, Forward, Indices

LEMMA ForwardNext ==
  ASSUME Inv, [Next]_vars
  PROVE  Forward'
<1> USE NAssumption
<1>1. CASE NilAction
  BY <1>1 DEF Inv, TypeOK, Forward, Backward, RollingBack, NilAction, AtStep, histVars
<1>2. CASE ActionSucceeds
  <2>1. completed' = [j \in 1..(i' - 1) |-> j]
    BY <1>2, CompletedAppend DEF Inv, ActionSucceeds, AtStep
  <2>2. ~RollingBack /\ ~RollingBack' /\ i' = i + 1 /\ i \in Indices
    BY <1>2 DEF Inv, TypeOK, Forward, ActionSucceeds, AtStep, RollingBack
  <2>3. 1..(i' - 1) = 1..(i - 1) \cup {i}
    BY <2>2 DEF Indices
  <2> QED BY <1>2, <2>1, <2>2, <2>3 DEF Inv, TypeOK, Forward, ActionSucceeds, AtStep
<1>3. CASE ActionFailsContinue
  <2>1. completed' = [j \in 1..(i' - 1) |-> j]
    BY <1>3, CompletedAppend DEF Inv, ActionFailsContinue, AtStep
  <2>2. ~RollingBack /\ ~RollingBack' /\ i' = i + 1 /\ i \in Indices
    BY <1>3 DEF Inv, TypeOK, Forward, ActionFailsContinue, AtStep, RollingBack
  <2>3. 1..(i' - 1) = 1..(i - 1) \cup {i}
    BY <2>2 DEF Indices
  <2> QED BY <1>3, <2>1, <2>2, <2>3 DEF Inv, TypeOK, Forward, ActionFailsContinue, AtStep
<1>4. CASE ActionFails
  BY <1>4 DEF Inv, TypeOK, Forward, RollingBack, ActionFails, AtStep
<1>5. CASE Finish
  BY <1>5 DEF Inv, TypeOK, Forward, RollingBack, Finish, histVars
<1>6. CASE CompensateNext
  BY <1>6 DEF Inv, TypeOK, Forward, RollingBack, CompensateNext
<1>7. CASE ReturnError
  BY <1>7 DEF Inv, TypeOK, Forward, RollingBack, ReturnError, histVars
<1>8. CASE UNCHANGED vars
  BY <1>8 DEF Inv, Forward, RollingBack, vars, loopVars, histVars
<1> QED BY <1>1, <1>2, <1>3, <1>4, <1>5, <1>6, <1>7, <1>8 DEF Next

-----------------------------------------------------------------------------
\* One turn of the walk back keeps what it has established.
LEMMA BackwardCompensate ==
  ASSUME Inv, CompensateNext
  PROVE  Backward'
<1> USE NAssumption
<1>1. /\ phase = "rollback" /\ cursor > 0 /\ cursor' = cursor - 1
      /\ completed[cursor] = cursor /\ cursor \in Indices
      /\ steps' = steps /\ i' = i /\ ret' = ret /\ ret = "none"
  BY CursorStep DEF CompensateNext, Inv, Forward
<1>2. /\ cursor \in 0..(i - 1) /\ i \in 1..(N + 1) /\ i <= N /\ RollingBack
      /\ Undone = {s \in (cursor + 1)..(i - 1) : steps[s].compensate}
      /\ \A j, k \in 1..Len(undone) : j < k => undone[j] > undone[k]
      /\ compErrs \subseteq Undone
      /\ effects \subseteq 1..(i - 1)
      /\ \A s \in effects : s <= cursor \/ ~steps[s].compensate \/ s \in compErrs
      /\ undone \in Seq(Indices)
  BY <1>1 DEF Inv, TypeOK, Forward, Backward, RollingBack
<1>3. (cursor' + 1)..(i - 1) = ((cursor + 1)..(i - 1)) \cup {cursor}
  BY <1>1, <1>2
<1>4. CASE steps[cursor].compensate
  <2>1. /\ undone' = Append(undone, cursor)
        /\ \/ effects' = effects \ {cursor} /\ compErrs' = compErrs
           \/ compErrs' = compErrs \cup {cursor} /\ effects' = effects
    BY <1>1, <1>4 DEF CompensateNext
  <2>2. /\ Undone' = Undone \cup {cursor}
        /\ Len(undone') = Len(undone) + 1
        /\ \A k \in 1..Len(undone) : undone'[k] = undone[k]
        /\ undone'[Len(undone) + 1] = cursor
    BY <2>1, <1>1, <1>2, UndoneAppend
  <2>3. Undone' = {s \in (cursor' + 1)..(i - 1) : steps[s].compensate}
    BY <2>2, <1>2, <1>3, <1>4
  <2>4. \A k \in 1..Len(undone) : undone[k] > cursor
    <3>1. \A k \in 1..Len(undone) : undone[k] \in Undone
      BY DEF Undone
    <3> QED BY <3>1, <1>1, <1>2 DEF Indices
  <2>5. \A j, k \in 1..Len(undone') : j < k => undone'[j] > undone'[k]
    BY <2>2, <2>4, <1>2
  <2>6. compErrs' \subseteq Undone'
    BY <2>1, <2>2, <1>2
  <2>7. \A s \in effects' : s <= cursor' \/ ~steps[s].compensate \/ s \in compErrs'
    <3> SUFFICES ASSUME NEW s \in effects'
                 PROVE  s <= cursor' \/ ~steps[s].compensate \/ s \in compErrs'
      OBVIOUS
    <3>1. s \in effects /\ compErrs \subseteq compErrs'
      BY <2>1
    <3>2. s \in Nat /\ cursor \in Nat
      BY <3>1, <1>1, <1>2 DEF Indices
    <3>3. CASE s = cursor
      BY <2>1, <3>3
    <3>4. CASE s # cursor
      BY <3>1, <3>2, <3>4, <1>1, <1>2
    <3> QED BY <3>3, <3>4
  <2> QED BY <1>1, <1>2, <2>3, <2>5, <2>6, <2>7 DEF Backward, Indices
<1>5. CASE ~steps[cursor].compensate
  <2>1. undone' = undone /\ effects' = effects /\ compErrs' = compErrs
    BY <1>1, <1>5 DEF CompensateNext
  <2>2. Undone' = {s \in (cursor' + 1)..(i - 1) : steps[s].compensate}
    BY <2>1, <1>2, <1>3, <1>5 DEF Undone
  <2>3. \A s \in effects' : s <= cursor' \/ ~steps[s].compensate \/ s \in compErrs'
    <3> SUFFICES ASSUME NEW s \in effects
                 PROVE  s <= cursor' \/ ~steps[s].compensate \/ s \in compErrs
      BY <2>1
    <3>1. s \in Nat /\ cursor \in Nat
      BY <1>1, <1>2 DEF Indices
    <3>2. CASE s = cursor
      BY <3>2, <1>5
    <3>3. CASE s # cursor
      BY <3>1, <3>3, <1>1, <1>2
    <3> QED BY <3>2, <3>3
  <2>4. compErrs' \subseteq Undone'
    BY <2>1, <1>2 DEF Undone
  <2> QED BY <1>1, <1>2, <2>1, <2>2, <2>3, <2>4 DEF Backward, Indices
<1> QED BY <1>4, <1>5

LEMMA BackwardNext ==
  ASSUME Inv, [Next]_vars
  PROVE  Backward'
<1> USE NAssumption
<1>1. CASE NilAction
  BY <1>1 DEF Inv, Forward, Backward, RollingBack, NilAction, AtStep, Undone, histVars
<1>2. CASE ActionSucceeds
  BY <1>2 DEF Inv, Forward, Backward, RollingBack, ActionSucceeds, AtStep
<1>3. CASE ActionFailsContinue
  BY <1>3 DEF Inv, Forward, Backward, RollingBack, ActionFailsContinue, AtStep
<1>4. CASE ActionFails
  <2>1. cursor' = i - 1 /\ i' = i /\ i \in 1..N /\ ret' = "none" /\ steps' = steps
    BY <1>4 DEF Inv, TypeOK, Forward, ActionFails, AtStep, Indices
  <2>2. undone' = <<>> /\ compErrs' = {} /\ effects' = effects /\ effects \subseteq 1..(i - 1)
    BY <1>4 DEF Inv, Forward, RollingBack, ActionFails, AtStep
  <2>3. Undone' = {} /\ Len(undone') = 0
    BY <2>2 DEF Undone
  <2> QED BY <2>1, <2>2, <2>3 DEF Backward
<1>5. CASE Finish
  BY <1>5 DEF Inv, Forward, Backward, RollingBack, Finish
<1>6. CASE CompensateNext
  BY <1>6, BackwardCompensate
<1>7. CASE ReturnError
  BY <1>7 DEF Inv, Forward, Backward, RollingBack, ReturnError, Undone, histVars
<1>8. CASE UNCHANGED vars
  BY <1>8 DEF Inv, Backward, RollingBack, Undone, vars, loopVars, histVars
<1> QED BY <1>1, <1>2, <1>3, <1>4, <1>5, <1>6, <1>7, <1>8 DEF Next

-----------------------------------------------------------------------------
\* The three parts hold of every reachable state.
THEOREM SagaInvariant == Spec => []Inv
<1>1. Init => Inv
  <2>1. Init => Forward /\ Backward
    BY DEF Init, Forward, Backward, RollingBack
  <2> QED BY <2>1, TypeInit DEF Inv
<1>2. Inv /\ [Next]_vars => Inv'
  BY TypeNext, ForwardNext, BackwardNext DEF Inv
<1> QED BY <1>1, <1>2, PTL DEF Spec

\* RunSaga's variables keep their types, for every number of steps.
THEOREM SagaTypeCorrect == Spec => []TypeOK
BY SagaInvariant, PTL DEF Inv

\* compensateSteps undoes last in, first out, and nothing twice.
THEOREM SagaLIFO == Spec => []LIFO
<1>1. Inv => LIFO
  <2> SUFFICES ASSUME Inv PROVE LIFO
    OBVIOUS
  <2>1. CASE RollingBack
    BY <2>1, NAssumption DEF Inv, TypeOK, Forward, Backward, LIFO, Indices
  <2>2. CASE ~RollingBack
    BY <2>2 DEF Inv, Forward, LIFO, Undone
  <2> QED BY <2>1, <2>2
<1> QED BY <1>1, SagaInvariant, PTL

\* RunSaga's failure returns only after every earlier step was compensated.
THEOREM SagaRollbackComplete == Spec => []RollbackComplete
<1>1. Inv => RollbackComplete
  <2> SUFFICES ASSUME Inv, phase = "returned", ret = "failed"
               PROVE  /\ Undone = {s \in 1..(i - 1) : steps[s].compensate}
                      /\ compErrs \subseteq Undone
                      /\ \A s \in effects : ~steps[s].compensate \/ s \in compErrs
    BY DEF RollbackComplete
  <2>1. /\ cursor = 0
        /\ i \in 1..(N + 1)
        /\ effects \subseteq 1..(i - 1)
    BY DEF Inv, TypeOK, Forward, Backward, RollingBack
  <2> QED BY <2>1, NAssumption DEF Inv, Backward, RollingBack
<1> QED BY <1>1, SagaInvariant, PTL

\* RunSaga returns nil only if it attempted and kept everything.
THEOREM SagaSuccessKeepsAll == Spec => []SuccessKeepsAll
<1>1. Inv => SuccessKeepsAll
  <2> SUFFICES ASSUME Inv, phase = "returned", ret = "nil"
               PROVE  /\ attempted = Indices
                      /\ \A s \in Indices : s \in effects \/ steps[s].continueOnError
                      /\ undone = <<>>
    BY DEF SuccessKeepsAll
  <2>1. i = N + 1 /\ ~RollingBack
    BY DEF Inv, Forward, RollingBack
  <2>2. 1..(i - 1) = Indices
    BY <2>1, NAssumption DEF Indices
  <2> QED BY <2>1, <2>2 DEF Inv, TypeOK, Forward
<1> QED BY <1>1, SagaInvariant, PTL

=============================================================================
