------------------------------- MODULE Queries -------------------------------
(***************************************************************************)
(* The read side, as one request meets it: it is a strategy to be priced,  *)
(* an answer gathered from several sources, or a page of a listing.  The   *)
(* three parts share no variable, so one request at a time shows all they  *)
(* can do.                                                                 *)
(***************************************************************************)
EXTENDS OptionsStrategy, Snapshots, Paging

queryVars == <<strategyVars, snapshotVars, pagingVars>>

Init ==
  \E part \in {"strategy", "snapshot", "page"} :
    /\ StrategyInit(part = "strategy")
    /\ SnapshotInit(part = "snapshot")
    /\ PagingInit(part = "page")

Next ==
  \/ StrategyNext /\ UNCHANGED <<snapshotVars, pagingVars>>
  \/ SnapshotNext /\ UNCHANGED <<strategyVars, pagingVars>>
  \/ PagingNext   /\ UNCHANGED <<strategyVars, snapshotVars>>

Spec == Init /\ [][Next]_queryVars

\* The caller's goroutine runs, and the broker client and the stores give up by
\* their own timeouts, so that every call of theirs returns.
FairSpec ==
  /\ Spec
  /\ WF_queryVars(Caller /\ UNCHANGED <<strategyVars, pagingVars>>)
  /\ \A s \in Sources : WF_queryVars(Goroutine(s) /\ UNCHANGED <<strategyVars, pagingVars>>)

=============================================================================
