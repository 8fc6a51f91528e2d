-------------------------------- MODULE Saga --------------------------------
(***************************************************************************)
(* RunSaga: run the steps in order; on a failure that is not to be         *)
(* continued over, compensate the completed steps in reverse.  What an     *)
(* Action or a Compensate does is the caller's: here it succeeds, and its  *)
(* effect is there or gone, or it fails and changes nothing.               *)
(***************************************************************************)
EXTENDS Naturals, Sequences

CONSTANT N   \* how many steps the saga has

ASSUME NAssumption == N \in Nat

Indices == 1..N

\* What RunSaga looks at in a SagaStep: is Action nil, is Compensate nil.
SagaStep == [action : BOOLEAN, compensate : BOOLEAN, continueOnError : BOOLEAN]

VARIABLES
  steps,      \* the saga
  phase,      \* "forward", "rollback" or "returned"
  i,          \* the step the loop is at
  completed,  \* indices of the steps that ran
  cursor,     \* how many of them are still to be compensated
  compErrs,   \* steps whose Compensate failed
  ret,        \* what RunSaga returned
  attempted,  \* history: steps whose Action was called
  effects,    \* history: steps whose effect is there
  undone      \* history: steps whose Compensate was called, in order

loopVars == <<steps, phase, i, completed, cursor, compErrs, ret>>
histVars == <<attempted, effects, undone>>
vars     == <<loopVars, histVars>>

Outcomes == {"none", "nil", "failed", "nilAction"}

Init ==
  /\ steps \in [Indices -> SagaStep]
  /\ phase = "forward"
  /\ i = 1
  /\ completed = <<>>
  /\ cursor = 0
  /\ compErrs = {}
  /\ ret = "none"
  /\ attempted = {}
  /\ effects = {}
  /\ undone = <<>>

-----------------------------------------------------------------------------
AtStep == phase = "forward" /\ i \in Indices

\* A step without an Action ends the saga there and then.
NilAction ==
  /\ AtStep
  /\ ~steps[i].action
  /\ phase' = "returned"
  /\ ret' = "nilAction"
  /\ UNCHANGED <<steps, i, completed, cursor, compErrs, histVars>>

ActionSucceeds ==
  /\ AtStep
  /\ steps[i].action
  /\ attempted' = attempted \cup {i}
  /\ effects' = effects \cup {i}
  /\ completed' = Append(completed, i)
  /\ i' = i + 1
  /\ UNCHANGED <<steps, phase, cursor, compErrs, ret, undone>>

\* ContinueOnError: the failed step counts as completed.
ActionFailsContinue ==
  /\ AtStep
  /\ steps[i].action
  /\ steps[i].continueOnError
  /\ attempted' = attempted \cup {i}
  /\ completed' = Append(completed, i)
  /\ i' = i + 1
  /\ UNCHANGED <<steps, phase, cursor, compErrs, ret, effects, undone>>

\* The triggering failure.
ActionFails ==
  /\ AtStep
  /\ steps[i].action
  /\ ~steps[i].continueOnError
  /\ attempted' = attempted \cup {i}
  /\ phase' = "rollback"
  /\ cursor' = Len(completed)
  /\ UNCHANGED <<steps, i, completed, compErrs, ret, effects, undone>>

\* Past the last step: nil.
Finish ==
  /\ phase = "forward"
  /\ i > N
  /\ phase' = "returned"
  /\ ret' = "nil"
  /\ UNCHANGED <<steps, i, completed, cursor, compErrs, histVars>>

-----------------------------------------------------------------------------
\* Broken variants: rollback gives up at the first compensation that fails;
\* it walks the completed steps first to last; it does not get past a step
\* without a Compensate.
CompensateUntilError ==
  /\ phase = "rollback"
  /\ cursor > 0
  /\ LET s == completed[cursor] IN
     IF steps[s].compensate
     THEN /\ undone' = Append(undone, s)
          /\ \/ effects' = effects \ {s} /\ cursor' = cursor - 1 /\ UNCHANGED compErrs
             \/ compErrs' = compErrs \cup {s} /\ cursor' = 0 /\ UNCHANGED effects
     ELSE cursor' = cursor - 1 /\ UNCHANGED <<compErrs, effects, undone>>
  /\ UNCHANGED <<steps, phase, i, completed, ret, attempted>>

CompensateForwards ==
  /\ phase = "rollback"
  /\ cursor > 0
  /\ cursor' = cursor - 1
  /\ LET s == completed[Len(completed) - cursor + 1] IN
     IF steps[s].compensate
     THEN /\ undone' = Append(undone, s)
          /\ \/ effects' = effects \ {s} /\ UNCHANGED compErrs
             \/ compErrs' = compErrs \cup {s} /\ UNCHANGED effects
     ELSE UNCHANGED <<compErrs, effects, undone>>
  /\ UNCHANGED <<steps, phase, i, completed, ret, attempted>>

CompensateStuck ==
  /\ phase = "rollback"
  /\ cursor > 0
  /\ LET s == completed[cursor] IN
     /\ steps[s].compensate
     /\ cursor' = cursor - 1
     /\ undone' = Append(undone, s)
     /\ \/ effects' = effects \ {s} /\ UNCHANGED compErrs
        \/ compErrs' = compErrs \cup {s} /\ UNCHANGED effects
  /\ UNCHANGED <<steps, phase, i, completed, ret, attempted>>

\* One turn of compensateSteps: the last completed step not yet visited.
CompensateNext ==
  /\ phase = "rollback"
  /\ cursor > 0
  /\ cursor' = cursor - 1
  /\ LET s == completed[cursor] IN
     IF steps[s].compensate
     THEN /\ undone' = Append(undone, s)
          /\ \/ effects' = effects \ {s} /\ UNCHANGED compErrs
             \/ compErrs' = compErrs \cup {s} /\ UNCHANGED effects
     ELSE UNCHANGED <<compErrs, effects, undone>>
  /\ UNCHANGED <<steps, phase, i, completed, ret, attempted>>

\* The SagaError: the cause, and what compensateSteps collected.
ReturnError ==
  /\ phase = "rollback"
  /\ cursor = 0
  /\ phase' = "returned"
  /\ ret' = "failed"
  /\ UNCHANGED <<steps, i, completed, cursor, compErrs, histVars>>

Next ==
  \/ NilAction \/ ActionSucceeds \/ ActionFailsContinue \/ ActionFails \/ Finish
  \/ CompensateNext \/ ReturnError

Spec == Init /\ [][Next]_vars

\* RunSaga is one goroutine; the caller's functions are taken to return.
FairSpec == Spec /\ WF_vars(Next)

-----------------------------------------------------------------------------
(* Properties.                                                             *)

\* Every variable has its type.
TypeOK ==
  /\ steps \in [Indices -> SagaStep]
  /\ phase \in {"forward", "rollback", "returned"}
  /\ i \in 1..(N + 1)
  /\ completed \in Seq(Indices)
  /\ cursor \in 0..N
  /\ compErrs \in SUBSET Indices
  /\ ret \in Outcomes
  /\ attempted \in SUBSET Indices
  /\ effects \in SUBSET Indices
  /\ undone \in Seq(Indices)

Undone == {undone[k] : k \in 1..Len(undone)}

\* Last in, first out, and nothing twice: compensations run in strictly
\* decreasing order of steps, each on a step that ran, never on the step
\* whose failure started the rollback.
LIFO ==
  /\ \A j, k \in 1..Len(undone) : j < k => undone[j] > undone[k]
  /\ \A s \in Undone : s < i /\ s \in attempted /\ steps[s].compensate

\* When RunSaga returns a failure, every step before the failed one has been
\* compensated, the best-effort ones that had failed included, no matter
\* how many compensations failed on the way; and what still has its effect
\* either had no Compensate or is named in CompensationErrors.
RollbackComplete ==
  phase = "returned" /\ ret = "failed" =>
    /\ Undone = {s \in 1..(i - 1) : steps[s].compensate}
    /\ compErrs \subseteq Undone
    /\ \A s \in effects : ~steps[s].compensate \/ s \in compErrs

\* When it returns nil, every step was attempted, those that have no effect
\* were best-effort, and nothing was compensated.
SuccessKeepsAll ==
  phase = "returned" /\ ret = "nil" =>
    /\ attempted = Indices
    /\ \A s \in Indices : s \in effects \/ steps[s].continueOnError
    /\ undone = <<>>

\* RunSaga returns.
Returns == <>(phase = "returned")

=============================================================================
