------------------------------ MODULE Snapshots ------------------------------
(***************************************************************************)
(* The queries that put one answer together from several sources:          *)
(* trading_context and pre_trade_check gather over a channel, the portfolio*)
(* widget joins goroutines with a WaitGroup, and the portfolio, the other  *)
(* widgets, the data export and the server metrics ask one source after    *)
(* the other.  What a source says is a section of the answer, and asking   *)
(* any of them may fail.  Which section a value came from is all that is   *)
(* told apart of it.                                                       *)
(***************************************************************************)
EXTENDS Integers, Sequences, FiniteSets, FiniteSetsExt, SequencesExt

Err    == "err"      \* the source answered with an error
Unread == "unread"

\* The sections of each query, in the order the code declares or asks them.
Context        == <<"margins", "positions", "orders", "holdings">>
PreTrade       == <<"ltp", "margins", "positions", "holdings", "order_margins">>
PortfolioTable == <<"holdings", "positions">>
OrdersWidget   == <<"calls", "orders">>
AlertsWidget   == <<"alerts", "ltp">>
ActivityWidget == <<"calls", "stats", "counts">>
ServerMetrics  == <<"stats", "tools", "errors">>
Export         == <<"calls", "alerts", "lists", "paper", "sessions", "credentials",
                    "consent", "events">>

SectionsOf(q) ==
  CASE q = "context" -> Context       [] q = "pretrade" -> PreTrade
    [] q \in {"widget", "portfolio"} -> PortfolioTable
    [] q = "orders" -> OrdersWidget   [] q = "alerts" -> AlertsWidget
    [] q = "activity" -> ActivityWidget
    [] q = "metrics" -> ServerMetrics [] q = "export" -> Export
    [] OTHER -> <<>>

Names(q) == ToSet(SectionsOf(q))
Sources  == UNION {Names(q) : q \in {"context", "pretrade", "orders", "alerts", "activity",
                                     "metrics", "export"}}

Channelled(q) == q \in {"context", "pretrade"}
Joined(q)     == q = "widget"
Sequential(q) == q \in {"portfolio", "orders", "alerts", "activity", "metrics", "export"}

\* What a failing section does: it fails the query, is noted in the answer, or
\* is silently left out.
OnError(q, s) ==
  CASE Channelled(q) \/ q = "export" -> "note"
    [] Joined(q) \/ q = "portfolio"  -> "fail"
    [] q = "metrics"                 -> IF s = "errors" THEN "omit" ELSE "fail"
    [] OTHER                         -> IF s = "calls" THEN "fail" ELSE "omit"

VARIABLES
  query,    \* the query, "none" if there is none
  phase,    \* "start", "fetch", "answered", "failed"
  job,      \* what each section's goroutine is doing
  val,      \* what it read
  chan,     \* the buffered channel, or the WaitGroup's finished goroutines
  data,     \* the answer: section to value, Unread where it holds none
  noted,    \* the answer's errors
  reported  \* the section whose error the caller was told

snapshotVars == <<query, phase, job, val, chan, data, noted, reported>>

-----------------------------------------------------------------------------
\* With a query, or with none.
SnapshotInit(asked) ==
  /\ query \in IF asked THEN {"context", "pretrade", "widget", "portfolio", "orders", "alerts",
                              "activity", "metrics", "export"} ELSE {"none"}
  /\ phase = IF asked THEN "start" ELSE "failed"
  /\ job = [s \in Sources |-> "idle"]
  /\ val = [s \in Sources |-> Unread]
  /\ chan = <<>>
  /\ data = [s \in Sources |-> Unread]
  /\ noted = {}
  /\ reported = "none"

\* Validation, GetBrokerForEmail, and for the parallel queries the goroutines.
Begin ==
  /\ phase = "start"
  /\ \/ /\ phase' = "failed"
        /\ UNCHANGED job
     \/ /\ phase' = "fetch"
        /\ job' = [s \in Sources |-> IF s \in Names(query) /\ ~Sequential(query)
                                     THEN "running" ELSE "idle"]
  /\ UNCHANGED <<query, val, chan, data, noted, reported>>

\* A source answers: with what it holds, or with an error (for the export also:
\* its port is nil).  AlertStore.List has no error.
Answers(s) ==
  \/ val' = [val EXCEPT ![s] = s]
  \/ /\ <<query, s>> # <<"alerts", "alerts">>
     /\ val' = [val EXCEPT ![s] = Err]

\* A goroutine's call returns; it is about to send, or to call Done.
Read(s) ==
  /\ job[s] = "running"
  /\ Answers(s)
  /\ job' = [job EXCEPT ![s] = "read"]
  /\ UNCHANGED <<query, phase, chan, data, noted, reported>>

\* ch <- apiResult{key, val, err}, or wg.Done(): the channel holds every answer,
\* so that no goroutine ever waits.
Send(s) ==
  /\ job[s] = "read"
  /\ Len(chan) < Len(SectionsOf(query))
  /\ chan' = Append(chan, s)
  /\ job' = [job EXCEPT ![s] = "ended"]
  /\ UNCHANGED <<query, phase, val, data, noted, reported>>

\* How a section that has answered v enters the answer.
Place(s, v) ==
  IF v # Err THEN data' = [data EXCEPT ![s] = v] /\ UNCHANGED noted
  ELSE /\ noted' = IF OnError(query, s) = "note" THEN noted \cup {s} ELSE noted
       /\ UNCHANGED data

\* How many sections the answer accounts for.
Received == Cardinality({s \in Sources : data[s] # Unread} \cup noted)

\* Broken variant: the results are stored in the order they were declared.
ReceiveByPosition ==
  /\ phase = "fetch"
  /\ Channelled(query)
  /\ chan # <<>>
  /\ Place(SectionsOf(query)[Received + 1], val[Head(chan)])
  /\ chan' = Tail(chan)
  /\ phase' = IF Received + 1 = Len(SectionsOf(query)) THEN "answered" ELSE phase
  /\ UNCHANGED <<query, job, val, reported>>

\* Broken variant: one receive too many.
ReceiveOneMore ==
  /\ phase = "fetch"
  /\ Channelled(query)
  /\ chan # <<>>
  /\ Place(Head(chan), val[Head(chan)])
  /\ chan' = Tail(chan)
  /\ phase' = IF Received = Len(SectionsOf(query)) THEN "answered" ELSE phase
  /\ UNCHANGED <<query, job, val, reported>>

\* r := <-ch, as many times as there are goroutines; then the answer is returned.
Receive ==
  /\ phase = "fetch"
  /\ Channelled(query)
  /\ chan # <<>>
  /\ Place(Head(chan), val[Head(chan)])
  /\ chan' = Tail(chan)
  /\ phase' = IF Received + 1 = Len(SectionsOf(query)) THEN "answered" ELSE phase
  /\ UNCHANGED <<query, job, val, reported>>

\* The first of the sections that failed, in the order of the code's checks.
FirstFailed == SectionsOf(query)[Min({i \in 1..Len(SectionsOf(query)) :
                                        val[SectionsOf(query)[i]] = Err})]

\* wg.Wait(), then the error checks one after the other, then the answer.
Join ==
  /\ phase = "fetch"
  /\ Joined(query)
  /\ Len(chan) = Len(SectionsOf(query))
  /\ IF \E s \in Names(query) : val[s] = Err
       THEN /\ phase' = "failed"
            /\ reported' = FirstFailed
            /\ UNCHANGED data
       ELSE /\ phase' = "answered"
            /\ data' = [s \in Sources |-> IF s \in Names(query) THEN val[s] ELSE Unread]
            /\ UNCHANGED reported
  /\ UNCHANGED <<query, job, val, chan, noted>>

-----------------------------------------------------------------------------
(* The sequential queries.                                                 *)

\* The section whose turn it is.
Turn == SectionsOf(query)[1 + Cardinality({s \in Names(query) : job[s] = "ended"})]

\* One source is asked; an error fails the query, is noted, or is dropped, and
\* after the last one the answer is returned.
Ask ==
  /\ phase = "fetch"
  /\ Sequential(query)
  /\ Answers(Turn)
  /\ job' = [job EXCEPT ![Turn] = "ended"]
  /\ IF val'[Turn] = Err /\ OnError(query, Turn) = "fail"
       THEN /\ phase' = "failed"
            /\ reported' = Turn
            /\ UNCHANGED <<data, noted>>
       ELSE /\ Place(Turn, val'[Turn])
            /\ phase' = IF Turn = Last(SectionsOf(query)) THEN "answered" ELSE phase
            /\ UNCHANGED reported
  /\ UNCHANGED <<query, chan>>

Goroutine(s) == Read(s) \/ Send(s)
Caller       == Begin \/ Receive \/ Join \/ Ask

SnapshotNext ==
  \/ Caller
  \/ \E s \in Sources : Goroutine(s)

-----------------------------------------------------------------------------
(* Properties.                                                             *)

\* When an answer is returned every goroutine has ended and the channel is
\* empty; every section holds exactly what its own source said, in whatever
\* order the answers came in, or, if that was an error, nothing, with a note
\* where the query notes errors; and no section that must not fail has failed.
\* A query that fails instead names the failing section that is first in the
\* order of the code, whichever goroutine was the first to end.
AnswerComplete ==
  /\ phase = "answered" =>
       /\ Channelled(query) => chan = <<>>
       /\ \A s \in Names(query) :
            /\ job[s] = "ended"
            /\ val[s] = Err => /\ data[s] = Unread
                               /\ OnError(query, s) # "fail"
                               /\ s \in noted <=> OnError(query, s) = "note"
            /\ val[s] # Err => data[s] = s /\ s \notin noted
  /\ \A i, j \in 1..Len(SectionsOf(query)) :
       /\ reported = SectionsOf(query)[j]
       /\ val[SectionsOf(query)[i]] = Err
       /\ OnError(query, SectionsOf(query)[i]) = "fail"
       => i >= j

\* A query whose goroutines are started, or whose first source is asked,
\* returns, whichever sources fail: no goroutine is left waiting for a channel
\* that nobody reads, and none is waited for that never sends.
QueryReturns == phase = "fetch" ~> phase \in {"answered", "failed"}

=============================================================================
