---------------------------- MODULE QueriesProofs ----------------------------
(***************************************************************************)
(* What the read side promises, for every bound and every input.           *)
(*                                                                         *)
(* A page is the slice asked for, whatever the size of an int and of the   *)
(* listing; the only exception is a from so large that from + limit wraps  *)
(* around, where there is always a panic.                                  *)
(*                                                                         *)
(* An answer put together from several sources holds of each section what  *)
(* its own source said, in whatever order the goroutines end.              *)
(*                                                                         *)
(* The metrics of a strategy are those of its legs, for all strikes and    *)
(* premiums.  Payoff and formulas are compared per unit and per strategy   *)
(* (Honest), where everything is linear; a quantity multiplies both sides  *)
(* (LegsScaled, MetricsTruthful).                                          *)
(***************************************************************************)
EXTENDS Queries, FiniteSetTheorems, TLAPS

\* Min and Max of two, as the code uses min, max and its comparisons.
LEMMA MaxOfTwo ==
  ASSUME NEW a \in Int, NEW b \in Int
  PROVE  Max({a, b}) = IF a >= b THEN a ELSE b
<1> DEFINE m == IF a >= b THEN a ELSE b
<1>1. m \in {a, b} /\ \A y \in {a, b} : m >= y
  OBVIOUS
<1>2. \A x \in {a, b} : (\A y \in {a, b} : x >= y) => x = m
  OBVIOUS
<1> HIDE DEF m
<1>3. Max({a, b}) = m
  BY <1>1, <1>2 DEF Max
<1> QED BY <1>3 DEF m

LEMMA MinOfTwo ==
  ASSUME NEW a \in Int, NEW b \in Int
  PROVE  Min({a, b}) = IF a <= b THEN a ELSE b
<1> DEFINE m == IF a <= b THEN a ELSE b
<1>1. m \in {a, b} /\ \A y \in {a, b} : m <= y
  OBVIOUS
<1>2. \A x \in {a, b} : (\A y \in {a, b} : x <= y) => x = m
  OBVIOUS
<1> HIDE DEF m
<1>3. Min({a, b}) = m
  BY <1>1, <1>2 DEF Min
<1> QED BY <1>3 DEF m

\* The first of an interval that is not empty.
LEMMA MinOfInterval ==
  ASSUME NEW a \in Int, NEW b \in Int, a <= b
  PROVE  Min(a..b) = a
<1>1. a \in a..b /\ \A y \in a..b : a <= y
  OBVIOUS
<1>2. \A x \in a..b : (\A y \in a..b : x <= y) => x = a
  BY <1>1
<1> QED BY <1>1, <1>2 DEF Min

\* The extreme of a set of numbers is the number in it that bounds it.
LEMMA ExtremeIs ==
  ASSUME NEW S \in SUBSET Int, NEW m \in S
  PROVE  /\ (\A y \in S : m <= y) => Min(S) = m
         /\ (\A y \in S : y <= m) => Max(S) = m
<1>1. ASSUME \A y \in S : m <= y PROVE Min(S) = m
  <2>1. \A x \in S : (\A y \in S : x <= y) => x = m
    BY <1>1
  <2> QED BY <1>1, <2>1 DEF Min
<1>2. ASSUME \A y \in S : y <= m PROVE Max(S) = m
  <2>1. \A x \in S : (\A y \in S : x >= y) => x = m
    BY <1>2
  <2>2. \A y \in S : m >= y
    BY <1>2
  <2> QED BY <2>1, <2>2 DEF Max
<1> QED BY <1>1, <1>2

-----------------------------------------------------------------------------
(* Pages.                                                                  *)

\* The code's arithmetic on a clamped limit and a from that is not negative:
\* as long as the sum fits into an int, the slice is what skipping and taking
\* would give, and beyond that it panics.
LEMMA PageFits ==
  ASSUME NEW from \in 0..MaxInt, NEW limit \in 1..500, NEW n \in 0..MaxInt,
         from + limit <= MaxInt
  PROVE  IsSlice(PageOf(from, limit, n), from, limit, n)
<1> DEFINE taken == {i \in 0..n - 1 : from <= i /\ i - from < limit}
           end   == from + limit
           first == IF from <= n THEN from ELSE n
           last  == IF end <= n THEN end ELSE n
<1> USE PagingAssumption
<1>1. Wrap(from + limit) = end
  BY DEF Wrap
<1>2. Min({from, n}) = first /\ Min({end, n}) = last
  BY MinOfTwo
<1>3. 0 <= first /\ first <= last /\ last <= n /\ first \in Int /\ last \in Int
  OBVIOUS
<1>4. PageOf(from, limit, n) = [is |-> "rows", first |-> first, count |-> last - first]
  BY <1>1, <1>2, <1>3 DEF PageOf, Slice
<1>5. taken = first..(last - 1)
  OBVIOUS
<1>6. Cardinality(taken) = last - first
  <2>1. Cardinality(first..(last - 1)) = IF first > last - 1 THEN 0 ELSE (last - 1) - first + 1
    BY <1>3, FS_Interval
  <2> HIDE DEF taken, first, last
  <2> QED BY <1>3, <1>5, <2>1
<1>7. ASSUME taken # {} PROVE Min(taken) = first
  <2> HIDE DEF taken, first, last
  <2>1. first <= last - 1
    BY <1>3, <1>5, <1>7
  <2> QED BY <1>3, <1>5, <2>1, MinOfInterval
<1> HIDE DEF taken, first, last
<1>8. PageOf(from, limit, n) # Panic
  BY <1>4 DEF Panic
<1> QED BY <1>4, <1>6, <1>7, <1>8 DEF taken, IsSlice

LEMMA PagePanics ==
  ASSUME NEW from \in 0..MaxInt, NEW limit \in 1..500, NEW n \in 0..MaxInt,
         from + limit > MaxInt
  PROVE  PageOf(from, limit, n) = Panic
<1> DEFINE end == from + limit - 2 * (MaxInt + 1)
<1> USE PagingAssumption
<1>1. Wrap(from + limit) = end /\ end < 0 /\ end \in Int
  BY DEF Wrap
<1>2. Min({end, n}) = end
  BY <1>1, MinOfTwo
<1>3. Min({from, n}) \in Nat
  BY MinOfTwo
<1> HIDE DEF end
<1>4. ~(Min({from, n}) <= Min({end, n}))
  BY <1>1, <1>2, <1>3
<1> QED BY <1>1, <1>4 DEF PageOf, Slice

\* A listing that is asked for, if one is, and a page that has been checked.
PagingInv ==
  /\ listing # NoListing => listing \in [of : {"users", "family"}, from : Froms, limit : Limits]
  /\ rows \in 0..MaxListed
  /\ PageIsSlice

LEMMA ListInv ==
  ASSUME PagingInv, List
  PROVE  PageIsSlice'
<1> DEFINE of    == listing.of
           from  == IF listing.from >= 0 THEN listing.from ELSE 0
           limit == IF listing.limit \in 1..500 THEN listing.limit ELSE DefaultLimit(of)
<1> USE PagingAssumption
<1>1. /\ listing.from \in Int /\ listing.from <= MaxInt
      /\ listing.limit \in Int /\ of \in {"users", "family"} /\ rows \in 0..MaxInt
  BY DEF PagingInv, List
<1>2. from \in 0..MaxInt
  BY <1>1
<1>3. Max({listing.from, 0}) = from
  BY <1>1, MaxOfTwo
<1>4. Clamped(of, listing.limit) = limit /\ limit \in 1..500
  <2>1. DefaultLimit(of) \in 1..500
    BY <1>1 DEF DefaultLimit
  <2>2. CASE listing.limit \in 1..500
    BY <1>1, <2>2 DEF Clamped
  <2>3. CASE listing.limit \notin 1..500
    BY <1>1, <2>1, <2>3 DEF Clamped
  <2> QED BY <2>2, <2>3
<1> HIDE DEF of, from, limit
<1>5. page' = PageOf(from, limit, rows)
  <2>1. page' = PageOf(Max({listing.from, 0}), Clamped(listing.of, listing.limit), rows)
    BY DEF List
  <2> QED BY <1>3, <1>4, <2>1 DEF of
<1>6. CASE from + limit <= MaxInt
  <2>1. ~(from > MaxInt - limit)
    BY <1>2, <1>4, <1>6
  <2>2. IsSlice(page', from, limit, rows)
    BY <1>1, <1>2, <1>4, <1>5, <1>6, PageFits
  <2> QED BY <1>3, <2>1, <2>2 DEF PageIsSlice, List, limit, of
<1>7. CASE from + limit > MaxInt
  <2>1. from > MaxInt - limit
    BY <1>2, <1>4, <1>7
  <2>2. page' = Panic
    BY <1>1, <1>2, <1>4, <1>5, <1>7, PagePanics
  <2> QED BY <1>3, <2>1, <2>2 DEF PageIsSlice, List, limit, of
<1> QED BY <1>2, <1>4, <1>6, <1>7

-----------------------------------------------------------------------------
(* The sections of the queries.                                            *)

Asked == {"context", "pretrade", "widget", "portfolio", "orders", "alerts", "activity",
          "metrics", "export"}

\* The sections, query by query.
LEMMA SectionLists ==
  /\ SectionsOf("context") = <<"margins", "positions", "orders", "holdings">>
  /\ SectionsOf("pretrade") = <<"ltp", "margins", "positions", "holdings", "order_margins">>
  /\ SectionsOf("widget") = <<"holdings", "positions">>
  /\ SectionsOf("portfolio") = <<"holdings", "positions">>
  /\ SectionsOf("orders") = <<"calls", "orders">>
  /\ SectionsOf("alerts") = <<"alerts", "ltp">>
  /\ SectionsOf("activity") = <<"calls", "stats", "counts">>
  /\ SectionsOf("metrics") = <<"stats", "tools", "errors">>
  /\ SectionsOf("export") = <<"calls", "alerts", "lists", "paper", "sessions", "credentials",
                             "consent", "events">>
BY DEF SectionsOf, Context, PreTrade, PortfolioTable, OrdersWidget, AlertsWidget, ActivityWidget,
       ServerMetrics, Export

\* Every section is a source, and no source is one of the words for "no value".
LEMMA SourcesNamed ==
  /\ \A q \in Asked : Names(q) \subseteq Sources
  /\ Err \notin Sources /\ Unread \notin Sources /\ "none" \notin Sources
<1>1. Names("widget") = Names("context") \cap Names("widget")
  BY DEF Names, SectionsOf, Context, PortfolioTable, ToSet
<1>2. Names("portfolio") = Names("widget")
  BY DEF Names, SectionsOf
<1>3. \A q \in Asked : Names(q) \subseteq Sources
  BY <1>1, <1>2 DEF Asked, Sources
<1>4. ASSUME NEW q \in {"context", "pretrade", "orders", "alerts", "activity", "metrics", "export"}
      PROVE  Err \notin Names(q) /\ Unread \notin Names(q) /\ "none" \notin Names(q)
  <2>1. CASE q = "context"
    <3>1. Names(q) = {"margins", "positions", "orders", "holdings"}
      BY <2>1, SectionLists DEF Names, ToSet
    <3> QED BY <3>1 DEF Err, Unread
  <2>2. CASE q = "pretrade"
    <3>1. Names(q) = {"ltp", "margins", "positions", "holdings", "order_margins"}
      BY <2>2, SectionLists DEF Names, ToSet
    <3> QED BY <3>1 DEF Err, Unread
  <2>3. CASE q = "orders"
    <3>1. Names(q) = {"calls", "orders"}
      BY <2>3, SectionLists DEF Names, ToSet
    <3> QED BY <3>1 DEF Err, Unread
  <2>4. CASE q = "alerts"
    <3>1. Names(q) = {"alerts", "ltp"}
      BY <2>4, SectionLists DEF Names, ToSet
    <3> QED BY <3>1 DEF Err, Unread
  <2>5. CASE q = "activity"
    <3>1. Names(q) = {"calls", "stats", "counts"}
      BY <2>5, SectionLists DEF Names, ToSet
    <3> QED BY <3>1 DEF Err, Unread
  <2>6. CASE q = "metrics"
    <3>1. Names(q) = {"stats", "tools", "errors"}
      BY <2>6, SectionLists DEF Names, ToSet
    <3> QED BY <3>1 DEF Err, Unread
  <2>7. CASE q = "export"
    <3>1. Names(q) = {"calls", "alerts", "lists", "paper", "sessions", "credentials",
                             "consent", "events"}
      BY <2>7, SectionLists DEF Names, ToSet
    <3> QED BY <3>1 DEF Err, Unread
  <2> QED BY <2>1, <2>2, <2>3, <2>4, <2>5, <2>6, <2>7
<1> QED BY <1>3, <1>4 DEF Sources

\* No query asks a source twice.
LEMMA Sections ==
  ASSUME NEW q \in Asked
  PROVE  /\ SectionsOf(q) \in Seq(Sources) /\ Len(SectionsOf(q)) \in Nat \ {0}
         /\ \A i, j \in 1..Len(SectionsOf(q)) : SectionsOf(q)[i] = SectionsOf(q)[j] => i = j
         /\ \A i \in 1..Len(SectionsOf(q)) : SectionsOf(q)[i] \in Names(q)
         /\ \A s \in Names(q) : \E i \in 1..Len(SectionsOf(q)) : s = SectionsOf(q)[i]
<1> DEFINE secs == SectionsOf(q)
<1>1. /\ secs = [i \in 1..Len(secs) |-> secs[i]] /\ Len(secs) \in Nat \ {0}
      /\ \A i, j \in 1..Len(secs) : secs[i] = secs[j] => i = j
  <2>1. CASE q = "context"
    <3>1. secs = <<"margins", "positions", "orders", "holdings">>
      BY <2>1, SectionLists
    <3> HIDE DEF secs
    <3> QED BY <3>1
  <2>2. CASE q = "pretrade"
    <3>1. secs = <<"ltp", "margins", "positions", "holdings", "order_margins">>
      BY <2>2, SectionLists
    <3> HIDE DEF secs
    <3> QED BY <3>1
  <2>3. CASE q \in {"widget", "portfolio"}
    <3>1. secs = <<"holdings", "positions">>
      BY <2>3, SectionLists
    <3> HIDE DEF secs
    <3> QED BY <3>1
  <2>4. CASE q = "orders"
    <3>1. secs = <<"calls", "orders">>
      BY <2>4, SectionLists
    <3> HIDE DEF secs
    <3> QED BY <3>1
  <2>5. CASE q = "alerts"
    <3>1. secs = <<"alerts", "ltp">>
      BY <2>5, SectionLists
    <3> HIDE DEF secs
    <3> QED BY <3>1
  <2>6. CASE q = "activity"
    <3>1. secs = <<"calls", "stats", "counts">>
      BY <2>6, SectionLists
    <3> HIDE DEF secs
    <3> QED BY <3>1
  <2>7. CASE q = "metrics"
    <3>1. secs = <<"stats", "tools", "errors">>
      BY <2>7, SectionLists
    <3> HIDE DEF secs
    <3> QED BY <3>1
  <2>8. CASE q = "export"
    <3>1. secs = <<"calls", "alerts", "lists", "paper", "sessions", "credentials",
                             "consent", "events">>
      BY <2>8, SectionLists
    <3> HIDE DEF secs
    <3> QED BY <3>1
  <2> QED BY <2>1, <2>2, <2>3, <2>4, <2>5, <2>6, <2>7, <2>8 DEF Asked
<1> HIDE DEF secs
<1>2. Names(q) = {secs[i] : i \in 1..Len(secs)}
  BY <1>1 DEF Names, ToSet, secs
<1>3. \A i \in 1..Len(secs) : secs[i] \in Sources
  BY <1>2, SourcesNamed
<1>4. secs \in Seq(Sources)
  BY <1>1, <1>3
<1> QED BY <1>1, <1>2, <1>4 DEF secs

\* A query gathers over a channel, joins goroutines or asks one source after the other,
\* and only notes errors in the first way.
LEMMA Ways ==
  ASSUME NEW q \in Asked
  PROVE  /\ Channelled(q) => ~Joined(q) /\ ~Sequential(q)
         /\ Joined(q) => ~Sequential(q) /\ q = "widget"
         /\ Channelled(q) \/ Joined(q) \/ Sequential(q)
         /\ Channelled(q) => \A s : OnError(q, s) = "note"
BY DEF Asked, Channelled, Joined, Sequential, OnError

\* As many names as sections, for the queries that count them.
LEMMA NamesCounted ==
  ASSUME NEW q, Channelled(q)
  PROVE  IsFiniteSet(Names(q)) /\ Cardinality(Names(q)) = Len(SectionsOf(q))
<1>1. /\ Names("context") = {"margins", "positions", "orders", "holdings"}
      /\ Len(SectionsOf("context")) = 4
  BY DEF Names, ToSet, SectionsOf, Context
<1>2. /\ Names("pretrade") = {"ltp", "margins", "positions", "holdings", "order_margins"}
      /\ Len(SectionsOf("pretrade")) = 5
  BY DEF Names, ToSet, SectionsOf, PreTrade
<1>3. /\ IsFiniteSet({"margins", "positions", "holdings"})
      /\ Cardinality({"margins", "positions", "holdings"}) = 3
  <2>1. IsFiniteSet({"margins"}) /\ Cardinality({"margins"}) = 1
    BY FS_Singleton
  <2>2. IsFiniteSet({"margins"} \cup {"positions"}) /\ Cardinality({"margins"} \cup {"positions"}) = 2
    BY <2>1, FS_AddElement
  <2>3. /\ IsFiniteSet(({"margins"} \cup {"positions"}) \cup {"holdings"})
        /\ Cardinality(({"margins"} \cup {"positions"}) \cup {"holdings"}) = 3
    BY <2>2, FS_AddElement
  <2>4. ({"margins"} \cup {"positions"}) \cup {"holdings"} = {"margins", "positions", "holdings"}
    OBVIOUS
  <2> QED BY <2>3, <2>4
<1> DEFINE three == {"margins", "positions", "holdings"}
<1>4. IsFiniteSet(three \cup {"orders"}) /\ Cardinality(three \cup {"orders"}) = 4
  BY <1>3, FS_AddElement
<1>5. IsFiniteSet(three \cup {"ltp"}) /\ Cardinality(three \cup {"ltp"}) = 4
  BY <1>3, FS_AddElement
<1>6. /\ IsFiniteSet((three \cup {"ltp"}) \cup {"order_margins"})
      /\ Cardinality((three \cup {"ltp"}) \cup {"order_margins"}) = 5
  BY <1>5, FS_AddElement
<1>7. Names("context") = three \cup {"orders"}
  BY <1>1
<1>8. Names("pretrade") = (three \cup {"ltp"}) \cup {"order_margins"}
  BY <1>2
<1> HIDE DEF three
<1> QED BY <1>1, <1>2, <1>4, <1>6, <1>7, <1>8 DEF Channelled

-----------------------------------------------------------------------------
(* The invariant.                                                          *)

SnapshotTyped ==
  /\ query \in Asked \cup {"none"}
  /\ phase \in {"start", "fetch", "answered", "failed"}
  /\ job \in [Sources -> {"idle", "running", "read", "ended"}]
  /\ val \in [Sources -> Sources \cup {Err, Unread}]
  /\ chan \in Seq(Sources)
  /\ data \in [Sources -> Sources \cup {Unread}]
  /\ noted \in SUBSET Sources
  /\ reported \in Sources \cup {"none"}
  /\ query = "none" => phase = "failed"

\* A source has said nothing yet, or its own thing, or an error.
Spoken == \A s \in Sources : val[s] \in IF job[s] \in {"read", "ended"} THEN {s, Err} ELSE {Unread}

\* The answer holds nothing of a section, or what its source said.
Silent(s) == data[s] = Unread /\ s \notin noted

Told(s) ==
  /\ job[s] = "ended"
  /\ val[s] = Err => /\ data[s] = Unread /\ OnError(query, s) # "fail"
                     /\ s \in noted <=> OnError(query, s) = "note"
  /\ val[s] # Err => data[s] = s /\ s \notin noted

\* Before the query begins.
Before == phase = "start" => chan = <<>> /\ \A s \in Sources : job[s] = "idle" /\ Silent(s)

\* What has been sent and not been received, once each.
Waiting == {chan[n] : n \in DOMAIN chan}

Queued ==
  /\ \A m, n \in DOMAIN chan : chan[m] = chan[n] => m = n
  /\ \A s \in Waiting : s \in Names(query) /\ job[s] = "ended"

\* What a source said is on its way in the channel, or in the answer, never both.
Gathering ==
  phase = "fetch" /\ Channelled(query) =>
    /\ Queued
    /\ \A s \in Sources : Silent(s) \/ (Told(s) /\ s \in Names(query) /\ s \notin Waiting)
    /\ \A s \in Sources : job[s] = "ended" /\ Silent(s) => s \in Waiting

Joining == phase = "fetch" /\ Joined(query) => Queued /\ \A s \in Sources : Silent(s)

\* The sources asked so far are the first in the order of the code.
Ended == {s \in Names(query) : job[s] = "ended"}

Asking ==
  phase = "fetch" /\ Sequential(query) =>
    /\ IsFiniteSet(Ended) /\ Cardinality(Ended) < Len(SectionsOf(query))
    /\ \A i \in 1..Len(SectionsOf(query)) :
         IF i <= Cardinality(Ended) THEN Told(SectionsOf(query)[i])
         ELSE job[SectionsOf(query)[i]] = "idle" /\ Silent(SectionsOf(query)[i])

\* Only the query's own sources are asked.  No goroutine is left when the query has
\* returned, and none is started by one that asks the sources itself.
Over ==
  /\ \A s \in Sources : job[s] # "idle" => s \in Names(query)
  /\ phase \in {"answered", "failed"} \/ Sequential(query) =>
       \A s \in Sources : job[s] \in {"idle", "ended"}

SnapshotInv ==
  /\ SnapshotTyped /\ Spoken /\ Before /\ Gathering /\ Joining /\ Asking /\ Over
  /\ reported # "none" => phase = "failed"
  /\ AnswerComplete

-----------------------------------------------------------------------------
\* No section is called "none".
LEMMA NoneNamed ==
  ASSUME NEW q \in Asked \cup {"none"}
  PROVE  \A j \in 1..Len(SectionsOf(q)) : SectionsOf(q)[j] # "none"
<1>1. CASE q \in Asked
  BY <1>1, Sections, SourcesNamed
<1>2. CASE q = "none"
  <2>1. SectionsOf(q) = <<>>
    BY <1>2 DEF SectionsOf
  <2> QED BY <2>1
<1> QED BY <1>1, <1>2

LEMMA SnapshotInvInit ==
  ASSUME NEW asked \in BOOLEAN, SnapshotInit(asked)
  PROVE  SnapshotInv
<1> USE DEF SnapshotInit
<1>1. SnapshotTyped /\ Spoken /\ Before /\ Over
  <2>1. SnapshotTyped
    BY DEF SnapshotTyped, Asked
  <2> QED BY <2>1 DEF Spoken, Before, Silent, Over
<1>2. phase # "fetch" /\ phase # "answered" /\ reported = "none"
  OBVIOUS
<1>3. \A j \in 1..Len(SectionsOf(query)) : reported # SectionsOf(query)[j]
  BY <1>1, <1>2, NoneNamed DEF SnapshotTyped
<1> QED BY <1>1, <1>2, <1>3 DEF SnapshotInv, Gathering, Joining, Asking, AnswerComplete

LEMMA SnapshotStutters ==
  ASSUME SnapshotInv, UNCHANGED snapshotVars
  PROVE  SnapshotInv'
BY DEF SnapshotInv, snapshotVars, SnapshotTyped, Spoken, Before, Silent, Told, Waiting, Queued,
       Gathering, Joining, Ended, Asking, Over, AnswerComplete

LEMMA BeginKeeps ==
  ASSUME SnapshotInv, Begin
  PROVE  SnapshotInv'
<1> USE DEF Begin
<1>1. SnapshotTyped /\ Spoken /\ Before /\ Over /\ query \in Asked /\ reported = "none"
  BY DEF SnapshotInv, SnapshotTyped
<1>2. /\ chan = <<>>
      /\ \A s \in Sources : job[s] = "idle" /\ Silent(s)
  BY <1>1 DEF Before
<1>3. SnapshotTyped' /\ Spoken' /\ Before' /\ Over'
  <2>1. SnapshotTyped'
    BY <1>1 DEF SnapshotTyped
  <2>2. \A s \in Sources : job'[s] \in {"idle", "running"} /\ (job'[s] # "idle" => s \in Names(query))
    BY <1>1, <1>2 DEF SnapshotTyped
  <2>3. phase' = "failed" \/ Sequential(query) => \A s \in Sources : job'[s] = "idle"
    BY <1>1, <1>2 DEF SnapshotTyped
  <2> QED BY <1>1, <1>2, <2>1, <2>2, <2>3 DEF Spoken, Before, Over
<1>4. reported' = "none" /\ \A j \in 1..Len(SectionsOf(query')) : SectionsOf(query')[j] # reported'
  BY <1>1, NoneNamed
<1>5. CASE phase' = "failed"
  BY <1>3, <1>4, <1>5 DEF SnapshotInv, Gathering, Joining, Asking, AnswerComplete
<1>6. CASE phase' = "fetch"
  <2>1. \A s \in Sources : Silent(s)' /\ job'[s] # "ended"
    BY <1>1, <1>2, <1>6 DEF Silent, SnapshotTyped
  <2>2. Queued'
    BY <1>2 DEF Queued, Waiting
  <2>3. Gathering' /\ Joining'
    BY <2>1, <2>2 DEF Gathering, Joining
  <2>4. Asking'
    <3> SUFFICES ASSUME Sequential(query)
                 PROVE  /\ IsFiniteSet(Ended)' /\ Cardinality(Ended)' < Len(SectionsOf(query))
                        /\ \A i \in 1..Len(SectionsOf(query)) :
                             /\ ~(i <= Cardinality(Ended)')
                             /\ job'[SectionsOf(query)[i]] = "idle" /\ Silent(SectionsOf(query)[i])'
      BY <1>6 DEF Asking
    <3>1. \A s \in Sources : job'[s] = "idle"
      BY <1>1, <1>2, <1>6 DEF SnapshotTyped
    <3>2. Ended' = {}
      BY <1>1, <3>1, SourcesNamed DEF Ended
    <3>3. IsFiniteSet(Ended)' /\ Cardinality(Ended)' = 0
      BY <3>2, FS_EmptySet
    <3>4. /\ Len(SectionsOf(query)) \in Nat \ {0}
          /\ \A i \in 1..Len(SectionsOf(query)) : SectionsOf(query)[i] \in Sources
      BY <1>1, Sections
    <3> QED BY <2>1, <3>1, <3>3, <3>4
  <2> QED BY <1>3, <1>4, <1>6, <2>3, <2>4 DEF SnapshotInv, AnswerComplete
<1> QED BY <1>5, <1>6

LEMMA ReadKeeps ==
  ASSUME SnapshotInv, NEW s \in Sources, Read(s)
  PROVE  SnapshotInv'
<1> USE DEF Read
<1>1. /\ SnapshotTyped /\ Spoken /\ Before /\ Over
      /\ phase = "fetch" /\ query \in Asked /\ ~Sequential(query) /\ reported = "none"
  BY DEF SnapshotInv, SnapshotTyped, Before, Over
<1>2. /\ val'[s] \in {s, Err}
      /\ \A t \in Sources \ {s} : val'[t] = val[t] /\ job'[t] = job[t]
      /\ job'[s] = "read" /\ job[s] = "running" /\ s \in Names(query)
  BY <1>1 DEF Answers, SnapshotTyped, Over
<1>3. SnapshotTyped'
  BY <1>1 DEF SnapshotTyped, Answers
<1>4. Spoken' /\ Before' /\ Over' /\ Asking'
  BY <1>1, <1>2 DEF Spoken, Before, Over, Asking
<1>5. Queued => Queued'
  BY <1>1, <1>2, SourcesNamed DEF Queued, Waiting
<1>6. Waiting' = Waiting /\ \A t \in Sources : Silent(t)' = Silent(t) /\ (Told(t) => Told(t)')
  BY <1>2 DEF Waiting, Silent, Told
<1>7. Joining'
  BY <1>1, <1>5, <1>6 DEF SnapshotInv, Joining
<1>8. Gathering'
  BY <1>1, <1>2, <1>5, <1>6 DEF SnapshotInv, Gathering
<1>9. \A j \in 1..Len(SectionsOf(query')) : SectionsOf(query')[j] # reported'
  BY <1>1, NoneNamed
<1> QED BY <1>1, <1>3, <1>4, <1>7, <1>8, <1>9 DEF SnapshotInv, AnswerComplete

\* One more goroutine waits to be received.
LEMMA WaitingSent ==
  ASSUME chan \in Seq(Sources), NEW s \in Sources, chan' = Append(chan, s)
  PROVE  Waiting' = Waiting \cup {s}
<1>1. DOMAIN chan = 1..Len(chan) /\ Len(chan) \in Nat /\ DOMAIN chan' = 1..Len(chan) + 1
  OBVIOUS
<1>2. chan'[Len(chan) + 1] = s /\ \A n \in 1..Len(chan) : chan'[n] = chan[n]
  OBVIOUS
<1>3. \A n \in DOMAIN chan' : n \in 1..Len(chan) \/ n = Len(chan) + 1
  BY <1>1
<1> QED BY <1>1, <1>2, <1>3 DEF Waiting

LEMMA SendKeeps ==
  ASSUME SnapshotInv, NEW s \in Sources, Send(s)
  PROVE  SnapshotInv'
<1> USE DEF Send
<1>1. /\ SnapshotTyped /\ Spoken /\ Before /\ Over
      /\ phase = "fetch" /\ query \in Asked /\ ~Sequential(query) /\ reported = "none"
  BY DEF SnapshotInv, SnapshotTyped, Before, Over
<1>2. /\ \A t \in Sources \ {s} : job'[t] = job[t]
      /\ job'[s] = "ended" /\ job[s] = "read" /\ s \in Names(query)
  BY <1>1 DEF SnapshotTyped, Over
<1>3. SnapshotTyped'
  BY <1>1 DEF SnapshotTyped
<1>4. Spoken' /\ Before' /\ Over' /\ Asking'
  BY <1>1, <1>2 DEF Spoken, Before, Over, Asking
<1>5. Waiting' = Waiting \cup {s}
  BY <1>1, WaitingSent DEF SnapshotTyped
<1>6. Queued => Queued'
  <2> SUFFICES ASSUME Queued PROVE Queued'
    OBVIOUS
  <2>1. \A t \in Waiting' : t \in Names(query) /\ job'[t] = "ended"
    <3>1. Waiting \subseteq Sources
      BY <1>1, SourcesNamed DEF Queued
    <3> QED BY <1>2, <1>5, <3>1 DEF Queued
  <2>2. /\ DOMAIN chan = 1..Len(chan) /\ Len(chan) \in Nat /\ DOMAIN chan' = 1..Len(chan) + 1
        /\ chan'[Len(chan) + 1] = s /\ \A n \in 1..Len(chan) : chan'[n] = chan[n]
    BY <1>1 DEF SnapshotTyped
  <2>3. \A n \in 1..Len(chan) : chan[n] # s
    BY <1>2, <2>2 DEF Queued, Waiting
  <2>4. \A m, n \in 1..Len(chan) : chan[m] = chan[n] => m = n
    BY <2>2 DEF Queued
  <2>5. \A m, n \in DOMAIN chan' : chan'[m] = chan'[n] => m = n
    <3>1. \A n \in DOMAIN chan' : n \in 1..Len(chan) \/ n = Len(chan) + 1
      BY <2>2
    <3> QED BY <2>2, <2>3, <2>4, <3>1
  <2> QED BY <2>1, <2>5 DEF Queued
<1>7. \A t \in Sources : Silent(t)' = Silent(t) /\ (Told(t) => t # s /\ Told(t)')
  BY <1>2 DEF Silent, Told
<1>8. Joining'
  BY <1>1, <1>6, <1>7 DEF SnapshotInv, Joining
<1>9. Gathering'
  BY <1>1, <1>2, <1>5, <1>6, <1>7 DEF SnapshotInv, Gathering
<1>10. \A j \in 1..Len(SectionsOf(query')) : SectionsOf(query')[j] # reported'
  BY <1>1, NoneNamed
<1> QED BY <1>1, <1>3, <1>4, <1>8, <1>9, <1>10 DEF SnapshotInv, AnswerComplete

\* The answer accounts for the sections that are in it.
Entered == {s \in Sources : data[s] # Unread} \cup noted

LEMMA EnteredTold ==
  ASSUME SnapshotTyped
  PROVE  Entered = {s \in Sources : ~Silent(s)}
BY DEF SnapshotTyped, Entered, Silent

\* Receiving puts one more section into the answer, the one whose answer is received.
LEMMA ReceiveEnters ==
  ASSUME SnapshotTyped, Spoken, Gathering, Receive, query \in Asked, NEW s, s = Head(chan)
  PROVE  /\ s \in Names(query) /\ Silent(s) /\ Told(s)'
         /\ \A t \in Sources \ {s} : Silent(t)' = Silent(t) /\ (Told(t) => Told(t)')
         /\ Waiting' = Waiting \ {s} /\ s \in Waiting /\ Queued'
         /\ data' \in [Sources -> Sources \cup {Unread}] /\ noted' \in SUBSET Sources
<1> USE DEF Receive
<1>1. /\ Queued /\ chan \in Seq(Sources) /\ Len(chan) \in Nat \ {0} /\ DOMAIN chan = 1..Len(chan)
      /\ s = chan[1] /\ chan' = Tail(chan) /\ DOMAIN chan' = 1..Len(chan) - 1
      /\ \A n \in 1..Len(chan) - 1 : chan'[n] = chan[n + 1]
  BY DEF SnapshotTyped, Gathering
<1>2. s \in Waiting /\ s \in Names(query) /\ job[s] = "ended" /\ s \in Sources
  BY <1>1, SourcesNamed DEF Queued, Waiting
<1>3. Silent(s)
  BY <1>2 DEF Gathering
<1>4. Waiting' = Waiting \ {s}
  <2>1. \A t \in Waiting' : t \in Waiting /\ t # s
    <3> SUFFICES ASSUME NEW n \in 1..Len(chan) - 1
                 PROVE  chan[n + 1] \in Waiting /\ chan[n + 1] # s
      BY <1>1 DEF Waiting
    <3>1. n + 1 \in 1..Len(chan) /\ 1 \in 1..Len(chan) /\ n + 1 # 1
      BY <1>1
    <3> QED BY <1>1, <3>1 DEF Waiting, Queued
  <2>2. \A t \in Waiting : t # s => t \in Waiting'
    <3> SUFFICES ASSUME NEW n \in 1..Len(chan), chan[n] # s
                 PROVE  chan[n] \in Waiting'
      BY <1>1 DEF Waiting
    <3>1. n - 1 \in 1..Len(chan) - 1 /\ n = (n - 1) + 1
      BY <1>1
    <3>2. chan'[n - 1] = chan[n]
      BY <1>1, <3>1
    <3> QED BY <1>1, <3>1, <3>2 DEF Waiting
  <2> QED BY <2>1, <2>2
<1>5. Queued'
  <2>1. \A m, n \in 1..Len(chan) - 1 : chan'[m] = chan'[n] => m = n
    <3> SUFFICES ASSUME NEW m \in 1..Len(chan) - 1, NEW n \in 1..Len(chan) - 1, chan[m + 1] = chan[n + 1]
                 PROVE  m = n
      BY <1>1
    <3>1. m + 1 \in 1..Len(chan) /\ n + 1 \in 1..Len(chan)
      BY <1>1
    <3>2. m + 1 = n + 1
      BY <1>1, <3>1 DEF Queued
    <3> QED BY <3>2
  <2> QED BY <1>1, <1>4, <2>1 DEF Queued
<1>6. OnError(query, s) = "note" /\ val[s] \in {s, Err} /\ s # Err /\ s # Unread
  BY <1>2, Ways, SourcesNamed DEF Spoken
<1>7. Told(s)'
  <2>1. CASE val[s] = Err
    <3>1. noted' = noted \cup {s} /\ data' = data /\ data[s] = Unread
      BY <1>3, <1>6, <2>1 DEF Place, Silent
    <3>2. /\ job'[s] = "ended" /\ val'[s] = Err /\ data'[s] = Unread
          /\ s \in noted' /\ OnError(query', s) = "note"
      BY <1>2, <1>6, <2>1, <3>1
    <3> QED BY <3>2 DEF Told
  <2>2. CASE val[s] # Err
    <3>1. noted' = noted /\ data' = [data EXCEPT ![s] = s]
      BY <1>6, <2>2 DEF Place
    <3>2. job'[s] = "ended" /\ val'[s] # Err /\ data'[s] = s /\ s \notin noted'
      BY <1>2, <1>3, <2>2, <3>1 DEF SnapshotTyped, Silent
    <3> QED BY <3>2 DEF Told
  <2> QED BY <2>1, <2>2
<1>8. /\ data' \in [Sources -> Sources \cup {Unread}] /\ noted' \in SUBSET Sources
      /\ \A t \in Sources \ {s} : data'[t] = data[t] /\ (t \in noted' <=> t \in noted)
  BY <1>2, <1>6 DEF SnapshotTyped, Place
<1>9. \A t \in Sources \ {s} : Silent(t)' = Silent(t) /\ (Told(t) => Told(t)')
  BY <1>8 DEF Silent, Told
<1> QED BY <1>2, <1>3, <1>4, <1>5, <1>7, <1>8, <1>9

\* The answer is complete when it accounts for as many sections as the query has.
LEMMA ReceiveCompletes ==
  ASSUME SnapshotTyped, SnapshotTyped', Spoken, Gathering, Receive, query \in Asked,
         Received + 1 = Len(SectionsOf(query)),
         \A t \in Sources : Silent(t)' \/ (Told(t)' /\ t \in Names(query))
  PROVE  \A s \in Names(query) : ~Silent(s)'
<1> PICK s : s = Head(chan)
  OBVIOUS
<1>1. Entered' = Entered \cup {s} /\ s \notin Entered
  <2>1. /\ s \in Names(query) /\ Silent(s) /\ Told(s)'
        /\ \A t \in Sources \ {s} : Silent(t)' = Silent(t)
    BY ReceiveEnters
  <2>2. Entered = {t \in Sources : ~Silent(t)}
    BY EnteredTold
  <2>3. Entered' = {t \in Sources : ~Silent(t)'}
    BY DEF SnapshotTyped, Entered, Silent
  <2>4. s \in Sources
    BY <2>1, SourcesNamed
  <2>5. ~Silent(s)'
    <3>1. OnError(query', s) = "note"
      BY Ways DEF Receive
    <3> QED BY <2>1, <2>4, <3>1, SourcesNamed DEF Told, Silent
  <2> QED BY <2>1, <2>2, <2>3, <2>4, <2>5
<1>2. Entered' \subseteq Names(query)
  BY DEF SnapshotTyped, Entered, Silent
<1>3. IsFiniteSet(Names(query)) /\ Cardinality(Names(query)) = Len(SectionsOf(query))
  BY NamesCounted DEF Receive
<1>4. IsFiniteSet(Entered)
  BY <1>1, <1>2, <1>3, FS_Subset
<1>5. Cardinality(Entered') = Cardinality(Names(query))
  BY <1>1, <1>3, <1>4, FS_AddElement DEF Received, Entered
<1>6. Entered' = Names(query)
  BY <1>2, <1>3, <1>5, FS_Subset
<1> QED BY <1>6, SourcesNamed DEF Entered, Silent

LEMMA ReceiveKeeps ==
  ASSUME SnapshotInv, Receive
  PROVE  SnapshotInv'
<1> USE DEF Receive
<1>1. /\ SnapshotTyped /\ Spoken /\ Before /\ Gathering /\ Over
      /\ query \in Asked /\ reported = "none" /\ ~Joined(query) /\ ~Sequential(query)
  BY Ways DEF SnapshotInv, SnapshotTyped
<1> PICK s : s = Head(chan)
  OBVIOUS
<1>2. /\ s \in Names(query) /\ Silent(s) /\ Told(s)'
      /\ \A t \in Sources \ {s} : Silent(t)' = Silent(t) /\ (Told(t) => Told(t)')
      /\ Waiting' = Waiting \ {s} /\ s \in Waiting /\ Queued'
      /\ data' \in [Sources -> Sources \cup {Unread}] /\ noted' \in SUBSET Sources
  BY <1>1, ReceiveEnters
<1>3. SnapshotTyped'
  <2>1. chan' \in Seq(Sources)
    BY <1>1 DEF SnapshotTyped
  <2> QED BY <1>1, <1>2, <2>1 DEF SnapshotTyped
<1>4. \A t \in Sources : Silent(t)' \/ (Told(t)' /\ t \in Names(query) /\ t \notin Waiting')
  BY <1>1, <1>2 DEF Gathering
<1>5. \A t \in Sources : job'[t] = "ended" /\ Silent(t)' => t \in Waiting'
  <2> SUFFICES ASSUME NEW t \in Sources, job'[t] = "ended", Silent(t)' PROVE t \in Waiting'
    OBVIOUS
  <2>1. t # s
    <3>1. OnError(query', s) = "note"
      BY <1>1, Ways
    <3>2. s \in Sources
      BY <1>1, <1>2, SourcesNamed
    <3>3. ~Silent(s)'
      BY <1>2, <3>1, <3>2, SourcesNamed DEF Told, Silent
    <3> QED BY <3>3
  <2> QED BY <1>1, <1>2, <2>1 DEF Gathering
<1>6. Gathering' /\ Joining' /\ Asking'
  BY <1>1, <1>2, <1>4, <1>5 DEF Gathering, Joining, Asking
<1>7. \A j \in 1..Len(SectionsOf(query')) : SectionsOf(query')[j] # reported'
  BY <1>1, NoneNamed
<1>8. Spoken' /\ Before'
  BY <1>1 DEF Spoken, Before
<1>9. CASE phase' = "fetch"
  <2>1. Over'
    BY <1>1, <1>9 DEF Over
  <2> QED BY <1>1, <1>3, <1>6, <1>7, <1>8, <1>9, <2>1 DEF SnapshotInv, AnswerComplete
<1>10. CASE phase' # "fetch"
  <2>1. phase' = "answered" /\ Received + 1 = Len(SectionsOf(query))
    BY <1>10
  <2>2. \A t \in Names(query) : t \in Sources /\ ~Silent(t)' /\ Told(t)' /\ t \notin Waiting'
    BY <1>1, <1>3, <1>4, <2>1, ReceiveCompletes, SourcesNamed
  <2>3. chan' = <<>>
    <3>1. Waiting' = {}
      BY <1>2, <2>2 DEF Queued
    <3>2. chan' \in Seq(Sources)
      BY <1>3 DEF SnapshotTyped
    <3>3. DOMAIN chan' = {}
      BY <3>1 DEF Waiting
    <3> QED BY <3>2, <3>3
  <2>4. \A t \in Names(query) : job'[t] = "ended"
    BY <2>2 DEF Told
  <2>5. Over'
    BY <1>1, <2>4 DEF Over, SnapshotTyped
  <2>6. AnswerComplete'
    BY <1>7, <2>2, <2>3 DEF AnswerComplete, Told
  <2> QED BY <1>1, <1>3, <1>6, <1>8, <2>5, <2>6 DEF SnapshotInv
<1> QED BY <1>9, <1>10

\* The smallest of the numbers that name the two sections of the joined queries.
LEMMA FirstOfTwo ==
  ASSUME NEW S, S \subseteq 1..2, S # {}
  PROVE  Min(S) \in S /\ Min(S) \in {1, 2} /\ \A i \in S : i >= Min(S)
<1>1. \E x \in S : \A y \in S : x <= y
  <2>1. CASE 1 \in S
    BY <2>1
  <2>2. CASE 1 \notin S
    <3>1. \A y \in S : y = 2
      BY <2>2
    <3>2. 2 \in S
      BY <3>1
    <3> QED BY <3>1, <3>2
  <2> QED BY <2>1, <2>2
<1>2. Min(S) \in S /\ \A y \in S : Min(S) <= y
  BY <1>1 DEF Min
<1>3. Min(S) \in 1..2
  BY <1>2
<1> QED BY <1>2, <1>3

LEMMA JoinKeeps ==
  ASSUME SnapshotInv, Join
  PROVE  SnapshotInv'
<1> USE DEF Join
<1>1. /\ SnapshotTyped /\ Spoken /\ Before /\ Joining /\ Over
      /\ query \in Asked /\ reported = "none" /\ ~Channelled(query) /\ ~Sequential(query)
      /\ query = "widget"
  BY Ways DEF SnapshotInv, SnapshotTyped
<1>2. /\ SectionsOf(query) = <<"holdings", "positions">> /\ Len(SectionsOf(query)) = 2
      /\ Names(query) = {"holdings", "positions"} /\ Names(query) \subseteq Sources
  <2>1. SectionsOf(query) = <<"holdings", "positions">>
    BY <1>1, SectionLists
  <2>2. Names(query) = {"holdings", "positions"}
    BY <2>1 DEF Names, ToSet
  <2>3. Names(query) \subseteq Sources
    BY <1>1, SourcesNamed
  <2> QED BY <2>1, <2>2, <2>3
<1>3. \A s \in Names(query) : job[s] = "ended" /\ val[s] \in {s, Err}
  <2>1. /\ DOMAIN chan = {1, 2} /\ chan[1] # chan[2]
        /\ \A n \in {1, 2} : chan[n] \in Names(query) /\ job[chan[n]] = "ended"
    BY <1>1, <1>2 DEF Joining, Queued, Waiting, SnapshotTyped
  <2>2. \A s \in Names(query) : s = chan[1] \/ s = chan[2]
    BY <1>2, <2>1
  <2>3. \A s \in Names(query) : job[s] = "ended"
    BY <2>1, <2>2
  <2> QED BY <1>2, <1>1, <2>3 DEF Spoken
<1>4. \A s \in Sources : Silent(s)
  BY <1>1 DEF Joining
<1>5. \A s \in Sources : job[s] \in {"idle", "ended"}
  BY <1>1, <1>3 DEF Over, SnapshotTyped
<1>6. phase' \in {"failed", "answered"}
  OBVIOUS
<1>7. Spoken' /\ Before' /\ Over' /\ Gathering' /\ Joining' /\ Asking'
  BY <1>1, <1>5, <1>6 DEF Spoken, Before, Over, Gathering, Joining, Asking
<1>8. CASE \E s \in Names(query) : val[s] = Err
  <2> DEFINE failing == {i \in 1..2 : val[SectionsOf(query)[i]] = Err}
  <2>1. failing \subseteq 1..2 /\ failing # {}
    BY <1>2, <1>8
  <2>2. Min(failing) \in failing /\ Min(failing) \in {1, 2} /\ \A i \in failing : i >= Min(failing)
    BY <2>1, FirstOfTwo
  <2>3. phase' = "failed" /\ reported' = SectionsOf(query)[Min(failing)]
    BY <1>2, <1>8 DEF FirstFailed
  <2> HIDE DEF failing
  <2>4. \A j \in 1..2 : reported' = SectionsOf(query)[j] => j = Min(failing)
    <3>1. Min(failing) = 1 \/ Min(failing) = 2
      BY <2>2
    <3>2. SectionsOf(query)[1] = "holdings" /\ SectionsOf(query)[2] = "positions"
      BY <1>2
    <3>3. "holdings" # "positions"
      OBVIOUS
    <3>4. ASSUME NEW j \in 1..2, reported' = SectionsOf(query)[j] PROVE j = Min(failing)
      <4>1. j = 1 \/ j = 2
        OBVIOUS
      <4>2. SectionsOf(query)[j] = SectionsOf(query)[Min(failing)]
        BY <2>3, <3>4
      <4> QED BY <3>1, <3>2, <3>3, <4>1, <4>2
    <3> QED BY <3>4
  <2>5. \A i \in 1..2 : val[SectionsOf(query)[i]] = Err => i \in failing
    BY DEF failing
  <2>6. AnswerComplete'
    BY <1>2, <2>2, <2>3, <2>4, <2>5 DEF AnswerComplete
  <2>7. SnapshotTyped'
    <3>1. reported' \in Sources
      BY <1>2, <2>2, <2>3
    <3> QED BY <1>1, <1>8, <2>3, <3>1 DEF SnapshotTyped
  <2> QED BY <1>7, <2>3, <2>6, <2>7 DEF SnapshotInv
<1>9. CASE ~\E s \in Names(query) : val[s] = Err
  <2>1. /\ phase' = "answered" /\ reported' = "none"
        /\ data' = [s \in Sources |-> IF s \in Names(query) THEN val[s] ELSE Unread]
    BY <1>1, <1>9
  <2>2. \A s \in Names(query) : val'[s] # Err /\ data'[s] = s /\ s \notin noted' /\ job'[s] = "ended"
    BY <1>2, <1>3, <1>4, <1>9, <2>1 DEF Silent
  <2>3. AnswerComplete'
    BY <1>1, <2>1, <2>2, NoneNamed DEF AnswerComplete
  <2>4. SnapshotTyped'
    BY <1>1, <1>2, <1>3, <1>9, <2>1 DEF SnapshotTyped
  <2> QED BY <1>7, <2>1, <2>3, <2>4 DEF SnapshotInv
<1> QED BY <1>8, <1>9

\* Every section that has been asked stays as it is when the next one is asked, and the
\* sections that have been asked are one more.
LEMMA AskTurn ==
  ASSUME SnapshotTyped, Asking, Ask, query \in Asked, NEW n, n = Cardinality(Ended) + 1,
         NEW t, t = Turn
  PROVE  /\ n \in 1..Len(SectionsOf(query)) /\ t = SectionsOf(query)[n] /\ t \in Names(query) /\ t \in Sources
         /\ job[t] = "idle" /\ Silent(t) /\ job' = [job EXCEPT ![t] = "ended"]
         /\ \A i \in 1..n - 1 : Told(SectionsOf(query)[i])
         /\ \A i \in 1..Len(SectionsOf(query)) : i > n =>
              job[SectionsOf(query)[i]] = "idle" /\ Silent(SectionsOf(query)[i])
         /\ \A i \in 1..Len(SectionsOf(query)) : SectionsOf(query)[i] = t => i = n
         /\ IsFiniteSet(Ended') /\ Cardinality(Ended') = n
<1> DEFINE secs == SectionsOf(query)
<1> USE DEF Ask
<1>1. /\ IsFiniteSet(Ended) /\ Cardinality(Ended) \in Nat /\ Cardinality(Ended) < Len(secs)
      /\ \A i \in 1..Len(secs) : IF i <= Cardinality(Ended) THEN Told(secs[i])
                                 ELSE job[secs[i]] = "idle" /\ Silent(secs[i])
  BY FS_CardinalityType DEF Asking
<1>2. /\ Len(secs) \in Nat \ {0}
      /\ \A i, j \in 1..Len(secs) : secs[i] = secs[j] => i = j
      /\ \A i \in 1..Len(secs) : secs[i] \in Names(query)
      /\ Names(query) \subseteq Sources
  BY Sections, SourcesNamed
<1>3. n \in 1..Len(secs) /\ t = secs[n]
  <2>1. 1 + Cardinality(Ended) = n
    BY <1>1
  <2>2. Turn = secs[n]
    BY <2>1 DEF Turn, Ended
  <2> QED BY <1>1, <1>2, <2>2
<1> HIDE DEF secs
<1>4. t \in Names(query) /\ t \in Sources /\ job[t] = "idle" /\ Silent(t)
  BY <1>1, <1>2, <1>3
<1>5. job' = [job EXCEPT ![t] = "ended"]
  OBVIOUS
<1>6. Ended' = Ended \cup {t} /\ t \notin Ended
  BY <1>2, <1>4, <1>5 DEF Ended, SnapshotTyped
<1>7. IsFiniteSet(Ended') /\ Cardinality(Ended') = n
  BY <1>1, <1>6, FS_AddElement
<1>8. \A i \in 1..n - 1 : Told(secs[i])
  BY <1>1, <1>3
<1>9. \A i \in 1..Len(secs) : i > n => job[secs[i]] = "idle" /\ Silent(secs[i])
  BY <1>1, <1>3
<1> QED BY <1>2, <1>3, <1>4, <1>5, <1>7, <1>8, <1>9 DEF secs

LEMMA AskKeeps ==
  ASSUME SnapshotInv, Ask
  PROVE  SnapshotInv'
<1> USE DEF Ask
<1> DEFINE secs == SectionsOf(query)
<1>1. /\ SnapshotTyped /\ Spoken /\ Before /\ Asking /\ Over
      /\ query \in Asked /\ reported = "none" /\ ~Channelled(query) /\ ~Joined(query)
  BY Ways DEF SnapshotInv, SnapshotTyped
<1> PICK n : n = Cardinality(Ended) + 1
  OBVIOUS
<1> PICK t : t = Turn
  OBVIOUS
<1>2. /\ n \in 1..Len(secs) /\ t = secs[n] /\ t \in Names(query) /\ t \in Sources
      /\ job[t] = "idle" /\ Silent(t) /\ job' = [job EXCEPT ![t] = "ended"]
      /\ \A i \in 1..n - 1 : Told(secs[i])
      /\ \A i \in 1..Len(secs) : i > n => job[secs[i]] = "idle" /\ Silent(secs[i])
      /\ \A i \in 1..Len(secs) : secs[i] = t => i = n
      /\ IsFiniteSet(Ended') /\ Cardinality(Ended') = n
  BY <1>1, AskTurn
<1>3. /\ \A s \in Sources \ {t} : val'[s] = val[s] /\ job'[s] = job[s]
      /\ val'[t] \in {t, Err} /\ job'[t] = "ended" /\ t # Err /\ t # Unread
      /\ val' \in [Sources -> Sources \cup {Err, Unread}]
  BY <1>1, <1>2, SourcesNamed DEF Answers, SnapshotTyped
<1>4. /\ Len(secs) \in Nat \ {0} /\ \A i \in 1..Len(secs) : secs[i] \in Names(query)
      /\ \A s \in Names(query) : \E i \in 1..Len(secs) : s = secs[i]
      /\ Names(query) \subseteq Sources /\ secs' = secs
  BY <1>1, Sections, SourcesNamed
<1> HIDE DEF secs
<1>8. /\ job' \in [Sources -> {"idle", "running", "read", "ended"}] /\ query' \in Asked
      /\ chan' \in Seq(Sources)
  BY <1>1, <1>2 DEF SnapshotTyped
<1>5. Spoken' /\ Before' /\ Over' /\ Gathering' /\ Joining'
  <2>1. job' \in [Sources -> {"idle", "ended"}]
    BY <1>1, <1>2 DEF Over, SnapshotTyped
  <2>2. \A s \in Sources : job'[s] # "idle" => s \in Names(query)
    BY <1>1, <1>2, <1>3 DEF Over
  <2> QED BY <1>1, <1>2, <1>3, <2>1, <2>2 DEF Spoken, Before, Over, Gathering, Joining
<1>6. CASE val'[t] = Err /\ OnError(query, t) = "fail"
  <2>1. phase' = "failed" /\ reported' = t /\ data' = data /\ noted' = noted
    BY <1>6
  <2>2. \A i \in 1..Len(secs) : val'[secs[i]] = Err /\ OnError(query, secs[i]) = "fail" => i >= n
    <3> SUFFICES ASSUME NEW i \in 1..Len(secs), val'[secs[i]] = Err, OnError(query, secs[i]) = "fail", ~(i >= n)
                 PROVE  FALSE
      OBVIOUS
    <3>1. i \in 1..n - 1 /\ i # n
      BY <1>2, <1>4
    <3>2. Told(secs[i]) /\ val'[secs[i]] = val[secs[i]]
      BY <1>2, <1>3, <1>4, <3>1
    <3> QED BY <3>2 DEF Told
  <2>3. \A j \in 1..Len(secs) : reported' = secs[j] => j = n
    BY <1>2, <2>1
  <2>4. AnswerComplete'
    BY <2>1, <2>2, <2>3 DEF AnswerComplete, secs
  <2>5. SnapshotTyped' /\ Asking'
    BY <1>1, <1>2, <1>3, <1>8, <2>1 DEF SnapshotTyped, Asking
  <2> QED BY <1>5, <2>1, <2>4, <2>5 DEF SnapshotInv
<1>7. CASE ~(val'[t] = Err /\ OnError(query, t) = "fail")
  <2>1. Place(t, val'[t]) /\ reported' = "none"
        /\ phase' = IF t = Last(secs) THEN "answered" ELSE "fetch"
    BY <1>1, <1>7 DEF secs
  <2>2. /\ data' \in [Sources -> Sources \cup {Unread}] /\ noted' \in SUBSET Sources
        /\ \A s \in Sources \ {t} : data'[s] = data[s] /\ (s \in noted' <=> s \in noted)
    <3>1. CASE val'[t] = Err
      <4>1. data' = data /\ (noted' = noted \cup {t} \/ noted' = noted)
        BY <2>1, <3>1 DEF Place
      <4> QED BY <1>1, <1>2, <4>1 DEF SnapshotTyped
    <3>2. CASE val'[t] # Err
      <4>1. data' = [data EXCEPT ![t] = t] /\ noted' = noted
        BY <1>3, <2>1, <3>2 DEF Place
      <4> QED BY <1>1, <1>2, <4>1 DEF SnapshotTyped
    <3> QED BY <3>1, <3>2
  <2>3. SnapshotTyped'
    BY <1>3, <1>8, <2>1, <2>2 DEF SnapshotTyped, Asked
  <2>4. Told(t)'
    <3>1. CASE val'[t] = Err
      <4>1. data'[t] = Unread /\ (t \in noted' <=> OnError(query, t) = "note")
        BY <1>2, <2>1, <3>1 DEF Place, Silent
      <4> QED BY <1>3, <1>7, <3>1, <4>1 DEF Told
    <3>2. CASE val'[t] # Err
      <4>1. data'[t] = t /\ t \notin noted'
        BY <1>1, <1>2, <1>3, <2>1, <3>2 DEF Place, Silent, SnapshotTyped
      <4> QED BY <1>3, <3>2, <4>1 DEF Told
    <3> QED BY <3>1, <3>2
  <2>5. ASSUME NEW i \in 1..Len(secs)
        PROVE  IF i <= n THEN Told(secs[i])' ELSE job'[secs[i]] = "idle" /\ Silent(secs[i])'
    <3>1. CASE i = n
      BY <1>2, <1>4, <2>4, <3>1
    <3>2. CASE i < n
      <4>1. Told(secs[i]) /\ secs[i] # t /\ secs[i] \in Sources
        BY <1>2, <1>4, <3>2
      <4> QED BY <1>2, <1>3, <1>4, <2>2, <3>2, <4>1 DEF Told
    <3>3. CASE i > n
      <4>1. secs[i] # t /\ secs[i] \in Sources /\ job[secs[i]] = "idle" /\ Silent(secs[i])
        BY <1>2, <1>4, <3>3
      <4> QED BY <1>2, <1>3, <1>4, <2>2, <3>3, <4>1 DEF Silent
    <3> QED BY <1>2, <1>4, <3>1, <3>2, <3>3
  <2>6. \A j \in 1..Len(SectionsOf(query')) : SectionsOf(query')[j] # reported'
    BY <1>1, <2>1, NoneNamed
  <2>7. CASE t = Last(secs)
    <3>1. n = Len(secs)
      BY <1>2, <1>4, <2>7 DEF Last
    <3>2. \A s \in Names(query) : Told(s)'
      BY <1>4, <2>5, <3>1
    <3>3. phase' = "answered"
      BY <2>1, <2>7
    <3>4. AnswerComplete'
      BY <1>1, <2>6, <3>2 DEF AnswerComplete, Told
    <3> QED BY <1>5, <2>1, <2>3, <3>3, <3>4 DEF SnapshotInv, Asking
  <2>8. CASE t # Last(secs)
    <3>1. n < Len(secs)
      BY <1>2, <1>4, <2>8 DEF Last
    <3>2. phase' = "fetch"
      BY <2>1, <2>8
    <3>3. Asking'
      BY <1>2, <2>5, <3>1 DEF Asking, secs
    <3> QED BY <1>5, <2>1, <2>3, <2>6, <3>2, <3>3 DEF SnapshotInv, AnswerComplete
  <2> QED BY <2>7, <2>8
<1> QED BY <1>6, <1>7

LEMMA SnapshotInvNext ==
  ASSUME SnapshotInv, SnapshotNext
  PROVE  SnapshotInv'
BY BeginKeeps, ReceiveKeeps, JoinKeeps, AskKeeps, ReadKeeps, SendKeeps
   DEF SnapshotNext, Caller, Goroutine

-----------------------------------------------------------------------------
(* Sums.                                                                   *)

\* How SumFunction adds up: one chosen index after the other.
Chosen(s) == CHOOSE x \in s : TRUE

Adds(it, v) ==
  it = [s \in SUBSET (DOMAIN v) |-> IF s = {} THEN 0 ELSE v[Chosen(s)] + it[s \ {Chosen(s)}]]

\* What at most four numbers add up to, whichever is chosen first.
Few(v)        == \E n \in 0..4 : v \in [1..n -> Int]
Part(v, i, s) == IF i \in s THEN v[i] ELSE 0
Total(v, s)   == Part(v, 1, s) + Part(v, 2, s) + Part(v, 3, s) + Part(v, 4, s)

LEMMA TotalSplits ==
  ASSUME NEW v, Few(v), NEW s, s \in SUBSET DOMAIN v, NEW x, x \in s
  PROVE  Total(v, s) = v[x] + Total(v, s \ {x})
<1> PICK n \in 0..4 : v \in [1..n -> Int]
  BY DEF Few
<1>1. \A i \in 1..4 : \A t \in SUBSET (1..n) : Part(v, i, t) \in Int
  BY DEF Part, Few
<1>2. \A i \in 1..4 : i # x => Part(v, i, s \ {x}) = Part(v, i, s)
  BY DEF Part
<1>3. Part(v, x, s \ {x}) = 0 /\ Part(v, x, s) = v[x] /\ v[x] \in Int
  BY DEF Part, Few
<1>4. x = 1 \/ x = 2 \/ x = 3 \/ x = 4
  BY DEF Few
<1>5. \A i \in 1..4 : Part(v, i, s) \in Int /\ Part(v, i, s \ {x}) \in Int
  BY <1>1
<1>6. CASE x = 1
  BY <1>2, <1>3, <1>5, <1>6 DEF Total
<1>7. CASE x = 2
  BY <1>2, <1>3, <1>5, <1>7 DEF Total
<1>8. CASE x = 3
  BY <1>2, <1>3, <1>5, <1>8 DEF Total
<1>9. CASE x = 4
  BY <1>2, <1>3, <1>5, <1>9 DEF Total
<1> QED BY <1>4, <1>6, <1>7, <1>8, <1>9

LEMMA Total0 ==
  ASSUME NEW v PROVE Total(v, {}) = 0
BY DEF Total, Part

LEMMA SumOfFew ==
  ASSUME NEW v, Few(v)
  PROVE  SumFunction(v) = Total(v, DOMAIN v)
<1> DEFINE subsets == SUBSET DOMAIN v
           g  == [s \in subsets |-> Total(v, s)]
<1>1. SumFunction(v) = (CHOOSE it : Adds(it, v))[DOMAIN v]
  BY DEF SumFunction, SumFunctionOnSet, FoldFunctionOnSet, MapThenFoldSet, Adds, Chosen
<1>a. \A s \in subsets : s # {} => /\ Chosen(s) \in s /\ s \ {Chosen(s)} \in subsets
                                   /\ Total(v, s) = v[Chosen(s)] + Total(v, s \ {Chosen(s)})
  <2> TAKE s \in subsets
  <2> HAVE s # {}
  <2>1. Chosen(s) \in s
    BY DEF Chosen
  <2> HIDE DEF g
  <2>2. Total(v, s) = v[Chosen(s)] + Total(v, s \ {Chosen(s)})
    <3>1. PICK x : x = Chosen(s)
      OBVIOUS
    <3>2. Total(v, s) = v[x] + Total(v, s \ {x})
      BY <2>1, <3>1, TotalSplits
    <3> QED BY <3>1, <3>2
  <2> QED BY <2>1, <2>2
<1>2. Adds(g, v)
  <2>1. ASSUME NEW s \in subsets
        PROVE  Total(v, s) = IF s = {} THEN 0 ELSE v[Chosen(s)] + g[s \ {Chosen(s)}]
    <3>1. CASE s = {}
      BY <3>1, Total0
    <3>2. CASE s # {}
      <4>1. g[s \ {Chosen(s)}] = Total(v, s \ {Chosen(s)})
        BY <1>a, <3>2
      <4> HIDE DEF g
      <4> QED BY <1>a, <3>2, <4>1
    <3> QED BY <3>1, <3>2
  <2>2. g = [s \in subsets |-> IF s = {} THEN 0 ELSE v[Chosen(s)] + g[s \ {Chosen(s)}]]
    BY <2>1
  <2> HIDE DEF g
  <2> QED BY <2>2 DEF Adds
<1> PICK it : it = CHOOSE f : Adds(f, v)
  OBVIOUS
<1>3. Adds(it, v)
  BY <1>2
<1>4. \A s \in subsets : it[s] = IF s = {} THEN 0 ELSE v[Chosen(s)] + it[s \ {Chosen(s)}]
  BY <1>3 DEF Adds
<1> DEFINE Same(k) == \A s \in subsets : Cardinality(s) = k => it[s] = Total(v, s)
<1>5. \A s \in subsets : IsFiniteSet(s) /\ Cardinality(s) \in 0..4
  <2> PICK n \in 0..4 : v \in [1..n -> Int]
    BY DEF Few
  <2>1. IsFiniteSet(1..n) /\ Cardinality(1..n) = (IF 1 > n THEN 0 ELSE n - 1 + 1)
    BY FS_Interval
  <2>2. Cardinality(1..n) \in 0..4
    BY <2>1
  <2> SUFFICES ASSUME NEW s \in subsets PROVE IsFiniteSet(s) /\ Cardinality(s) \in 0..4
    OBVIOUS
  <2>3. IsFiniteSet(s) /\ Cardinality(s) <= Cardinality(1..n) /\ Cardinality(s) \in Nat
    BY <2>1, FS_Subset, FS_CardinalityType
  <2> QED BY <2>2, <2>3
<1>6. Same(0)
  BY <1>4, <1>5, FS_EmptySet, Total0
<1>7. ASSUME NEW k \in 0..3, Same(k)
      PROVE  Same(k + 1)
  <2> SUFFICES ASSUME NEW s \in subsets, Cardinality(s) = k + 1
               PROVE  it[s] = Total(v, s)
    OBVIOUS
  <2>1. s # {}
    BY FS_EmptySet
  <2>2. Chosen(s) \in s /\ s \ {Chosen(s)} \in subsets
    BY <1>a, <2>1
  <2>3. Cardinality(s \ {Chosen(s)}) = k
    <3>1. IsFiniteSet(s)
      BY <1>5
    <3>2. Cardinality(s \ {Chosen(s)}) = Cardinality(s) - 1
      BY <2>2, <3>1, FS_RemoveElement
    <3> QED BY <3>2
  <2>4. it[s \ {Chosen(s)}] = Total(v, s \ {Chosen(s)})
    BY <1>7, <2>2, <2>3
  <2> QED BY <1>4, <1>a, <2>1, <2>4
<1>8. Same(1) /\ Same(2) /\ Same(3) /\ Same(4)
  <2> HIDE DEF Same
  <2>1. Same(0 + 1)
    BY <1>6, <1>7
  <2>2. Same(1 + 1)
    BY <1>7, <2>1
  <2>3. Same(2 + 1)
    BY <1>7, <2>2
  <2>4. Same(3 + 1)
    BY <1>7, <2>3
  <2> QED BY <2>1, <2>2, <2>3, <2>4
<1>9. it[DOMAIN v] = Total(v, DOMAIN v)
  <2>1. DOMAIN v \in subsets
    OBVIOUS
  <2>2. Cardinality(DOMAIN v) \in {0, 1, 2, 3, 4}
    BY <1>5, <2>1
  <2> QED BY <1>6, <1>8, <2>1, <2>2
<1> QED BY <1>1, <1>9

LEMMA SumOfTwo ==
  ASSUME NEW v, v \in [1..2 -> Int]
  PROVE  SumFunction(v) = v[1] + v[2]
<1>1. Few(v) /\ DOMAIN v = 1..2
  BY DEF Few
<1>2. Total(v, 1..2) = v[1] + v[2]
  BY DEF Total, Part
<1> QED BY <1>1, <1>2, SumOfFew

LEMMA SumOfThree ==
  ASSUME NEW v, v \in [1..3 -> Int]
  PROVE  SumFunction(v) = v[1] + v[2] + v[3]
<1>1. Few(v) /\ DOMAIN v = 1..3
  BY DEF Few
<1>2. Total(v, 1..3) = v[1] + v[2] + v[3]
  BY DEF Total, Part
<1> QED BY <1>1, <1>2, SumOfFew

LEMMA SumOfFour ==
  ASSUME NEW v, v \in [1..4 -> Int]
  PROVE  SumFunction(v) = v[1] + v[2] + v[3] + v[4]
<1>1. Few(v) /\ DOMAIN v = 1..4
  BY DEF Few
<1>2. Total(v, 1..4) = v[1] + v[2] + v[3] + v[4]
  BY DEF Total, Part
<1> QED BY <1>1, <1>2, SumOfFew

-----------------------------------------------------------------------------
(* Legs.                                                                   *)

\* The legs of the specifications sp at the prices p.
OneLeg(sp, price, lots, size) ==
  [strike |-> sp.strike, opt |-> sp.opt, act |-> sp.act, lots |-> lots * sp.multi,
   quantity |-> lots * sp.multi * size, premium |-> price]

LegsOf(sp, p, lots, size) == [i \in 1..Len(sp) |-> OneLeg(sp[i], p[i], lots, size)]

\* A leg specification as buildLegSpecs makes it.
Made(sp) ==
  /\ sp = [strike |-> sp.strike, opt |-> sp.opt, act |-> sp.act, multi |-> sp.multi]
  /\ sp.strike \in Int /\ sp.opt \in {"CE", "PE"} /\ sp.act \in {"BUY", "SELL"} /\ sp.multi \in {1, 2}

\* What one unit of a leg is worth at expiry, what it gains, and what it brings in.
Worth(sp, x) ==
  IF sp.opt = "CE" THEN IF x > sp.strike THEN x - sp.strike ELSE 0
  ELSE IF sp.strike > x THEN sp.strike - x ELSE 0

Times(sp, n) == IF sp.act = "BUY" THEN IF sp.multi = 1 THEN n ELSE 2 * n
                ELSE IF sp.multi = 1 THEN -n ELSE -(2 * n)

Gain(sp, price, x) == Times(sp, Worth(sp, x) - price)
Cash(sp, price)    == Times(sp, -price)

\* What a leg adds to the payoff and to the cash at the opening.
Earned(leg, x) == (IF leg.act = "BUY" THEN 1 ELSE -1) * (Intrinsic(leg, x) - leg.premium) * leg.quantity
Taken(leg)     == (IF leg.act = "SELL" THEN 1 ELSE -1) * leg.premium * leg.quantity

\* The payoff of a leg, and the cash it brings in, are those of a unit times the quantity.
Scaled(leg, sp, price, q, x) ==
  /\ Earned(leg, x) = Gain(sp, price, x) * q /\ Taken(leg) = Cash(sp, price) * q
  /\ Gain(sp, price, x) \in Int /\ Cash(sp, price) \in Int
  /\ leg.premium = price

LEMMA LegScaled ==
  ASSUME NEW sp, Made(sp), NEW price \in Int, NEW lots \in Int, NEW size \in Int, NEW x \in Int
  PROVE  Scaled(OneLeg(sp, price, lots, size), sp, price, size * lots, x)
<1> PICK leg : leg = OneLeg(sp, price, lots, size)
  OBVIOUS
<1>0. /\ leg.strike = sp.strike /\ leg.opt = sp.opt /\ leg.act = sp.act /\ leg.premium = price
      /\ leg.quantity = lots * sp.multi * size
  BY DEF OneLeg
<1>1. Intrinsic(leg, x) = Worth(sp, x) /\ Worth(sp, x) \in Int
  <2>1. leg.strike = sp.strike /\ leg.opt = sp.opt /\ sp.strike \in Int
    BY <1>0 DEF Made
  <2>2. ASSUME NEW d \in Int
        PROVE  Max({0, d}) = IF d > 0 THEN d ELSE 0
    <3>1. Max({0, d}) = IF 0 >= d THEN 0 ELSE d
      BY MaxOfTwo
    <3> QED BY <3>1
  <2>3. Max({0, x - sp.strike}) = IF x > sp.strike THEN x - sp.strike ELSE 0
    BY <2>1, <2>2
  <2>4. Max({0, sp.strike - x}) = IF sp.strike > x THEN sp.strike - x ELSE 0
    BY <2>1, <2>2
  <2>5. CASE sp.opt = "CE"
    <3>1. Intrinsic(leg, x) = Max({0, x - sp.strike})
      BY <2>1, <2>5 DEF Intrinsic
    <3> QED BY <2>1, <2>3, <2>5, <3>1 DEF Worth
  <2>6. CASE sp.opt = "PE"
    <3>1. Intrinsic(leg, x) = Max({0, sp.strike - x})
      BY <2>1, <2>6 DEF Intrinsic
    <3> QED BY <2>1, <2>4, <2>6, <3>1 DEF Worth
  <2> QED BY <2>5, <2>6 DEF Made
<1> PICK q \in Int : q = size * lots
  OBVIOUS
<1>2. leg.quantity = IF sp.multi = 1 THEN q ELSE 2 * q
  <2>1. lots * 1 * size = q /\ lots * 2 * size = 2 * q
    OBVIOUS
  <2>2. leg.quantity = lots * sp.multi * size
    BY <1>0
  <2>3. CASE sp.multi = 1
    BY <2>1, <2>2, <2>3
  <2>4. CASE sp.multi = 2
    BY <2>1, <2>2, <2>4
  <2> QED BY <2>3, <2>4 DEF Made
<1>3. leg.act = sp.act /\ leg.premium = price
  BY <1>0
<1>4. ASSUME NEW a \in Int
      PROVE  /\ 1 * a * q = a * q
             /\ (-1) * a * q = (-a) * q
             /\ 1 * a * (2 * q) = (2 * a) * q
             /\ (-1) * a * (2 * q) = (-(2 * a)) * q
             /\ 1 * a * q = (-(-a)) * q
             /\ 1 * a * (2 * q) = (-(2 * (-a))) * q
             /\ (-1) * a * (2 * q) = (2 * (-a)) * q
  OBVIOUS
<1>5. (IF leg.act = "BUY" THEN 1 ELSE -1) * (Intrinsic(leg, x) - leg.premium) * leg.quantity
        = Gain(sp, price, x) * q
  <2> PICK a \in Int : a = Worth(sp, x) - price
    BY <1>1
  <2> SUFFICES (IF sp.act = "BUY" THEN 1 ELSE -1) * a * (IF sp.multi = 1 THEN q ELSE 2 * q) = Times(sp, a) * q
    BY <1>1, <1>2, <1>3 DEF Gain
  <2> QED BY <1>4 DEF Times, Made
<1>6. (IF leg.act = "SELL" THEN 1 ELSE -1) * leg.premium * leg.quantity = Cash(sp, price) * q
  <2> SUFFICES (IF sp.act = "SELL" THEN 1 ELSE -1) * price * (IF sp.multi = 1 THEN q ELSE 2 * q) = Times(sp, -price) * q
    BY <1>2, <1>3 DEF Cash
  <2> QED BY <1>4 DEF Times, Made
<1>7. Gain(sp, price, x) \in Int /\ Cash(sp, price) \in Int
  BY <1>1 DEF Gain, Cash, Times
<1> QED BY <1>3, <1>5, <1>6, <1>7 DEF Earned, Taken, Scaled

\* Two to four specifications and their prices.
Priced(n, sp, p) ==
  /\ n \in {2, 3, 4} /\ Len(sp) = n /\ p \in [1..n -> Int]
  /\ \A i \in 1..n : Made(sp[i])

\* One leg of the legs of specifications.
LEMMA LegAt ==
  ASSUME NEW n, NEW sp, NEW p, Priced(n, sp, p), NEW lots \in Int, NEW size \in Int, NEW x \in Int
  PROVE  LET legs == LegsOf(sp, p, lots, size) IN
         /\ Len(legs) = n
         /\ \A i \in 1..n : Scaled(legs[i], sp[i], p[i], size * lots, x)
<1> DEFINE legs == LegsOf(sp, p, lots, size)
<1>1. Len(legs) = n
  <2>1. LegsOf(sp, p, lots, size) \in Seq({LegsOf(sp, p, lots, size)[i] : i \in 1..n}) /\ DOMAIN legs = 1..n
    BY DEF LegsOf, Priced
  <2> QED BY <2>1 DEF Priced
<1>2. ASSUME NEW i \in 1..n
      PROVE  Scaled(legs[i], sp[i], p[i], size * lots, x)
  <2>1. Made(sp[i]) /\ p[i] \in Int
    BY DEF Priced
  <2>2. legs[i] = OneLeg(sp[i], p[i], lots, size)
    BY DEF LegsOf, Priced
  <2> HIDE DEF legs
  <2> QED BY <2>1, <2>2, LegScaled
<1> QED BY <1>1, <1>2

\* A number for each leg, summed up and scaled.
Multiple(w, v, q) ==
  \E n \in {2, 3, 4} : v \in [1..n -> Int] /\ q \in Int /\ w = [i \in 1..n |-> v[i] * q]

LEMMA SumScaled ==
  ASSUME NEW v, NEW w, NEW q, Multiple(w, v, q)
  PROVE  SumFunction(w) = SumFunction(v) * q
<1> PICK n \in {2, 3, 4} : v \in [1..n -> Int] /\ q \in Int /\ w = [i \in 1..n |-> v[i] * q]
  BY DEF Multiple
<1>1. w \in [1..n -> Int]
  OBVIOUS
<1>2. CASE n = 2
  <2>1. PICK a \in Int, b \in Int : v[1] = a /\ v[2] = b
    BY <1>2
  <2>2. w[1] = a * q /\ w[2] = b * q
    BY <1>2, <2>1
  <2>3. SumFunction(v) = v[1] + v[2] /\ SumFunction(w) = w[1] + w[2]
    BY <1>1, <1>2, SumOfTwo
  <2>4. SumFunction(v) = a + b /\ SumFunction(w) = a * q + b * q
    BY <2>1, <2>2, <2>3
  <2>5. a * q + b * q = (a + b) * q
    OBVIOUS
  <2> QED BY <2>4, <2>5
<1>3. CASE n = 3
  <2>1. PICK a \in Int, b \in Int, c \in Int : v[1] = a /\ v[2] = b /\ v[3] = c
    BY <1>3
  <2>2. w[1] = a * q /\ w[2] = b * q /\ w[3] = c * q
    BY <1>3, <2>1
  <2>3. SumFunction(v) = v[1] + v[2] + v[3] /\ SumFunction(w) = w[1] + w[2] + w[3]
    BY <1>1, <1>3, SumOfThree
  <2>4. SumFunction(v) = a + b + c /\ SumFunction(w) = a * q + b * q + c * q
    BY <2>1, <2>2, <2>3
  <2>5. a * q + b * q + c * q = (a + b + c) * q
    OBVIOUS
  <2> QED BY <2>4, <2>5
<1>4. CASE n = 4
  <2>1. PICK a \in Int, b \in Int, c \in Int, d \in Int : v[1] = a /\ v[2] = b /\ v[3] = c /\ v[4] = d
    BY <1>4
  <2>2. w[1] = a * q /\ w[2] = b * q /\ w[3] = c * q /\ w[4] = d * q
    BY <1>4, <2>1
  <2>3. SumFunction(v) = v[1] + v[2] + v[3] + v[4] /\ SumFunction(w) = w[1] + w[2] + w[3] + w[4]
    BY <1>1, <1>4, SumOfFour
  <2>4. SumFunction(v) = a + b + c + d /\ SumFunction(w) = a * q + b * q + c * q + d * q
    BY <2>1, <2>2, <2>3
  <2>5. a * q + b * q + c * q + d * q = (a + b + c + d) * q
    OBVIOUS
  <2> QED BY <2>4, <2>5
<1> QED BY <1>2, <1>3, <1>4

\* What a unit of the strategy gains at expiry, and what it brings in at the opening.
Gains(sp, p, x) == SumFunction([i \in 1..Len(sp) |-> Gain(sp[i], p[i], x)])
Cashes(sp, p)   == SumFunction([i \in 1..Len(sp) |-> Cash(sp[i], p[i])])

\* The payoff of the legs is the gain of a unit times the quantity.
LEMMA LegsScaled ==
  ASSUME NEW n, NEW sp, NEW p, Priced(n, sp, p), NEW lots \in Int, NEW size \in Int, NEW x \in Int
  PROVE  /\ Payoff(LegsOf(sp, p, lots, size), x) = Gains(sp, p, x) * (size * lots)
         /\ NetPremium(LegsOf(sp, p, lots, size)) = Cashes(sp, p) * (size * lots)
<1> DEFINE legs == LegsOf(sp, p, lots, size)
           gains == [i \in 1..n |-> Gain(sp[i], p[i], x)]
           cashes == [i \in 1..n |-> Cash(sp[i], p[i])]
<1> PICK q \in Int : q = size * lots
  OBVIOUS
<1>1. Len(legs) = n /\ \A i \in 1..n : Scaled(legs[i], sp[i], p[i], q, x)
  BY LegAt
<1> HIDE DEF legs
<1>2. \A i \in 1..n :
        /\ Earned(legs[i], x) = gains[i] * q /\ Taken(legs[i]) = cashes[i] * q
        /\ Gain(sp[i], p[i], x) \in Int /\ Cash(sp[i], p[i]) \in Int
  BY <1>1 DEF Scaled
<1>3. gains \in [1..n -> Int] /\ cashes \in [1..n -> Int]
  BY <1>2
<1>4. Gains(sp, p, x) = SumFunction(gains) /\ Cashes(sp, p) = SumFunction(cashes)
  BY DEF Gains, Cashes, Priced
<1> HIDE DEF gains, cashes
<1>5. /\ Multiple([i \in 1..n |-> Earned(legs[i], x)], gains, q)
      /\ Multiple([i \in 1..n |-> Taken(legs[i])], cashes, q)
  <2>1. /\ [i \in 1..n |-> Earned(legs[i], x)] = [i \in 1..n |-> gains[i] * q]
        /\ [i \in 1..n |-> Taken(legs[i])] = [i \in 1..n |-> cashes[i] * q]
    BY <1>2
  <2>2. n \in {2, 3, 4}
    BY DEF Priced
  <2> QED BY <1>3, <2>1, <2>2 DEF Multiple
<1>6. /\ Payoff(legs, x) = SumFunction([i \in 1..n |-> Earned(legs[i], x)])
      /\ NetPremium(legs) = SumFunction([i \in 1..n |-> Taken(legs[i])])
  BY <1>1 DEF Payoff, NetPremium, Earned, Taken
<1>7. Payoff(legs, x) = SumFunction(gains) * q
  BY <1>5, <1>6, SumScaled
<1>8. NetPremium(legs) = SumFunction(cashes) * q
  BY <1>5, <1>6, SumScaled
<1> QED BY <1>4, <1>7, <1>8 DEF legs

\* The sums written out.
LEMMA GainsAre ==
  ASSUME NEW n, NEW sp, NEW p, Priced(n, sp, p), NEW x \in Int
  PROVE  /\ n = 2 => /\ Gains(sp, p, x) = Gain(sp[1], p[1], x) + Gain(sp[2], p[2], x)
                     /\ Cashes(sp, p) = Cash(sp[1], p[1]) + Cash(sp[2], p[2])
         /\ n = 3 => /\ Gains(sp, p, x) = Gain(sp[1], p[1], x) + Gain(sp[2], p[2], x) + Gain(sp[3], p[3], x)
                     /\ Cashes(sp, p) = Cash(sp[1], p[1]) + Cash(sp[2], p[2]) + Cash(sp[3], p[3])
         /\ n = 4 => /\ Gains(sp, p, x) = Gain(sp[1], p[1], x) + Gain(sp[2], p[2], x)
                                            + Gain(sp[3], p[3], x) + Gain(sp[4], p[4], x)
                     /\ Cashes(sp, p) = Cash(sp[1], p[1]) + Cash(sp[2], p[2])
                                          + Cash(sp[3], p[3]) + Cash(sp[4], p[4])
<1> DEFINE gains  == [i \in 1..n |-> Gain(sp[i], p[i], x)]
           cashes == [i \in 1..n |-> Cash(sp[i], p[i])]
<1>1. Gains(sp, p, x) = SumFunction(gains) /\ Cashes(sp, p) = SumFunction(cashes)
  BY DEF Gains, Cashes, Priced
<1>2. gains \in [1..n -> Int] /\ cashes \in [1..n -> Int]
  <2>1. ASSUME NEW i \in 1..n PROVE Gain(sp[i], p[i], x) \in Int /\ Cash(sp[i], p[i]) \in Int
    <3>1. Made(sp[i]) /\ p[i] \in Int
      BY DEF Priced
    <3>2. Worth(sp[i], x) \in Int
      BY <3>1 DEF Worth, Made
    <3> QED BY <3>1, <3>2 DEF Gain, Cash, Times
  <2> QED BY <2>1
<1>3. \A i \in 1..n : gains[i] = Gain(sp[i], p[i], x) /\ cashes[i] = Cash(sp[i], p[i])
  OBVIOUS
<1> HIDE DEF gains, cashes
<1>4. CASE n = 2
  <2>1. /\ SumFunction(gains) = gains[1] + gains[2]
        /\ SumFunction(cashes) = cashes[1] + cashes[2]
    BY <1>2, <1>4, SumOfTwo
  <2> QED BY <1>1, <1>3, <1>4, <2>1
<1>5. CASE n = 3
  <2>1. /\ SumFunction(gains) = gains[1] + gains[2] + gains[3]
        /\ SumFunction(cashes) = cashes[1] + cashes[2] + cashes[3]
    BY <1>2, <1>5, SumOfThree
  <2> QED BY <1>1, <1>3, <1>5, <2>1
<1>6. CASE n = 4
  <2>1. /\ SumFunction(gains) = gains[1] + gains[2] + gains[3] + gains[4]
        /\ SumFunction(cashes) = cashes[1] + cashes[2] + cashes[3] + cashes[4]
    BY <1>2, <1>6, SumOfFour
  <2> QED BY <1>1, <1>3, <1>6, <2>1
<1> QED BY <1>4, <1>5, <1>6 DEF Priced

-----------------------------------------------------------------------------
(* The formulas, strategy by strategy.                                     *)

\* What a call and a put are worth at expiry.
Call(strike, x) == IF x > strike THEN x - strike ELSE 0
Put(strike, x)  == IF strike > x THEN strike - x ELSE 0

\* A specification, and the unit it stands for at a price.
LEMMA Specified ==
  ASSUME NEW strike \in Int
  PROVE  /\ Made(Leg(strike, "CE", "BUY", 1)) /\ Made(Leg(strike, "CE", "SELL", 1))
         /\ Made(Leg(strike, "PE", "BUY", 1)) /\ Made(Leg(strike, "PE", "SELL", 1))
         /\ Made(Leg(strike, "CE", "SELL", 2))
BY DEF Made, Leg

Units(strike, price, x) ==
  /\ Gain(Leg(strike, "CE", "BUY", 1), price, x) = Call(strike, x) - price
  /\ Gain(Leg(strike, "CE", "SELL", 1), price, x) = price - Call(strike, x)
  /\ Gain(Leg(strike, "PE", "BUY", 1), price, x) = Put(strike, x) - price
  /\ Gain(Leg(strike, "PE", "SELL", 1), price, x) = price - Put(strike, x)
  /\ Gain(Leg(strike, "CE", "SELL", 2), price, x) = 2 * price - 2 * Call(strike, x)
  /\ Cash(Leg(strike, "CE", "BUY", 1), price) = -price
  /\ Cash(Leg(strike, "CE", "SELL", 1), price) = price
  /\ Cash(Leg(strike, "PE", "BUY", 1), price) = -price
  /\ Cash(Leg(strike, "PE", "SELL", 1), price) = price
  /\ Cash(Leg(strike, "CE", "SELL", 2), price) = 2 * price
  /\ Call(strike, x) \in Int /\ Put(strike, x) \in Int

LEMMA UnitsHold ==
  ASSUME NEW strike \in Int, NEW price \in Int, NEW x \in Int
  PROVE  Units(strike, price, x)
<1>2. \A opt \in {"CE", "PE"} : \A act \in {"BUY", "SELL"} : \A multi \in {1, 2} :
        LET leg == Leg(strike, opt, act, multi)
        IN  leg.strike = strike /\ leg.opt = opt /\ leg.act = act /\ leg.multi = multi
  BY DEF Leg
<1>3. \A act \in {"BUY", "SELL"} : \A multi \in {1, 2} :
        /\ Worth(Leg(strike, "CE", act, multi), x) = Call(strike, x)
        /\ Worth(Leg(strike, "PE", act, multi), x) = Put(strike, x)
  BY <1>2 DEF Worth, Call, Put
<1>4. Call(strike, x) \in Int /\ Put(strike, x) \in Int
  BY DEF Call, Put
<1>5. \A opt \in {"CE", "PE"} : \A m \in Int :
        /\ Times(Leg(strike, opt, "BUY", 1), m) = m
        /\ Times(Leg(strike, opt, "SELL", 1), m) = -m
        /\ Times(Leg(strike, opt, "SELL", 2), m) = -(2 * m)
  BY <1>2 DEF Times
<1> QED BY <1>3, <1>4, <1>5 DEF Gain, Cash, Units

\* A strategy that is accepted, and the prices of its legs.
Quoted(s, k, p) ==
  /\ s \in Strategies /\ k \in [1..4 -> 0..MaxStrike] /\ k[1] > 0 /\ Ordered(s, k)
  /\ p \in [1..Len(SpecsOf(s, k)) -> Nat]

\* The gain of a unit and the cash it brings in.
LEMMA UnitOfStrategy ==
  ASSUME NEW s, NEW k, NEW p, Quoted(s, k, p), NEW x \in Int
  PROVE  LET U == Gains(SpecsOf(s, k), p, x)
             V == Cashes(SpecsOf(s, k), p) IN
         /\ s = "bull_call_spread" =>
              U = (Call(k[1], x) - p[1]) + (p[2] - Call(k[2], x)) /\ V = p[2] - p[1]
         /\ s = "bear_put_spread" =>
              U = (p[1] - Put(k[1], x)) + (Put(k[2], x) - p[2]) /\ V = p[1] - p[2]
         /\ s = "bear_call_spread" =>
              U = (p[1] - Call(k[1], x)) + (Call(k[2], x) - p[2]) /\ V = p[1] - p[2]
         /\ s = "bull_put_spread" =>
              U = (Put(k[1], x) - p[1]) + (p[2] - Put(k[2], x)) /\ V = p[2] - p[1]
         /\ s = "straddle" =>
              U = (Call(k[1], x) - p[1]) + (Put(k[1], x) - p[2]) /\ V = -p[1] - p[2]
         /\ s = "strangle" =>
              U = (Put(k[1], x) - p[1]) + (Call(k[2], x) - p[2]) /\ V = -p[1] - p[2]
         /\ s = "iron_condor" =>
              /\ U = (Put(k[1], x) - p[1]) + (p[2] - Put(k[2], x))
                       + (p[3] - Call(k[3], x)) + (Call(k[4], x) - p[4])
              /\ V = (p[2] + p[3]) - (p[1] + p[4])
         /\ s = "butterfly" =>
              /\ U = (Call(k[1], x) - p[1]) + (2 * p[2] - 2 * Call(k[2], x)) + (Call(k[3], x) - p[3])
              /\ V = 2 * p[2] - p[1] - p[3]
         /\ Priced(Len(SpecsOf(s, k)), SpecsOf(s, k), p)
<1> DEFINE sp == SpecsOf(s, k)
           U == Gains(sp, p, x)
           V == Cashes(sp, p)
<1>1. \A i \in 1..4 : k[i] \in Int
  BY BoundsAssumption DEF Quoted
<1>2. ASSUME Len(sp) = 2, Made(sp[1]), Made(sp[2])
      PROVE  /\ Priced(2, sp, p) /\ p[1] \in Int /\ p[2] \in Int
             /\ U = Gain(sp[1], p[1], x) + Gain(sp[2], p[2], x)
             /\ V = Cash(sp[1], p[1]) + Cash(sp[2], p[2])
  <2>1. Priced(2, sp, p) /\ p[1] \in Int /\ p[2] \in Int
    BY <1>2 DEF Priced, Quoted
  <2> HIDE DEF sp
  <2> QED BY <2>1, GainsAre
<1>3. ASSUME Len(sp) = 3, Made(sp[1]), Made(sp[2]), Made(sp[3])
      PROVE  /\ Priced(3, sp, p) /\ p[1] \in Int /\ p[2] \in Int /\ p[3] \in Int
             /\ U = Gain(sp[1], p[1], x) + Gain(sp[2], p[2], x) + Gain(sp[3], p[3], x)
             /\ V = Cash(sp[1], p[1]) + Cash(sp[2], p[2]) + Cash(sp[3], p[3])
  <2>1. Priced(3, sp, p) /\ p[1] \in Int /\ p[2] \in Int /\ p[3] \in Int
    BY <1>3 DEF Priced, Quoted
  <2> HIDE DEF sp
  <2> QED BY <2>1, GainsAre
<1>4. ASSUME Len(sp) = 4, Made(sp[1]), Made(sp[2]), Made(sp[3]), Made(sp[4])
      PROVE  /\ Priced(4, sp, p) /\ p[1] \in Int /\ p[2] \in Int /\ p[3] \in Int /\ p[4] \in Int
             /\ U = Gain(sp[1], p[1], x) + Gain(sp[2], p[2], x) + Gain(sp[3], p[3], x) + Gain(sp[4], p[4], x)
             /\ V = Cash(sp[1], p[1]) + Cash(sp[2], p[2]) + Cash(sp[3], p[3]) + Cash(sp[4], p[4])
  <2>1. Priced(4, sp, p) /\ p[1] \in Int /\ p[2] \in Int /\ p[3] \in Int /\ p[4] \in Int
    BY <1>4 DEF Priced, Quoted
  <2> HIDE DEF sp
  <2> QED BY <2>1, GainsAre
<1>10. CASE s = "bull_call_spread"
  <2>1. /\ sp = <<Leg(k[1], "CE", "BUY", 1), Leg(k[2], "CE", "SELL", 1)>>
        /\ Len(sp) = 2
    BY <1>10 DEF SpecsOf
  <2>2. sp[1] = Leg(k[1], "CE", "BUY", 1) /\ sp[2] = Leg(k[2], "CE", "SELL", 1)
    BY <2>1
  <2> HIDE DEF sp
  <2>3. Made(sp[1]) /\ Made(sp[2])
    BY <1>1, <2>2, Specified
  <2>7. Units(k[1], p[1], x) /\ Units(k[2], p[2], x)
    BY <1>1, <1>2, <2>1, <2>3, UnitsHold
  <2>4. /\ Gain(sp[1], p[1], x) = (Call(k[1], x) - p[1])
        /\ Cash(sp[1], p[1]) = -p[1]
        /\ Gain(sp[2], p[2], x) = (p[2] - Call(k[2], x))
        /\ Cash(sp[2], p[2]) = p[2]
    BY <2>2, <2>7 DEF Units
  <2>5. Priced(2, sp, p) /\ U = (Call(k[1], x) - p[1]) + (p[2] - Call(k[2], x))
    BY <1>2, <2>1, <2>3, <2>4
  <2>6. V = (-p[1]) + p[2] /\ p[1] \in Int /\ p[2] \in Int
    BY <1>2, <2>1, <2>3, <2>4
  <2>8. V = p[2] - p[1]
    <3> HIDE DEF V
    <3> QED BY <2>6
  <2> QED BY <1>10, <2>1, <2>5, <2>6, <2>7, <2>8 DEF sp, Units
<1>11. CASE s = "bear_put_spread"
  <2>1. /\ sp = <<Leg(k[1], "PE", "SELL", 1), Leg(k[2], "PE", "BUY", 1)>>
        /\ Len(sp) = 2
    BY <1>11 DEF SpecsOf
  <2>2. sp[1] = Leg(k[1], "PE", "SELL", 1) /\ sp[2] = Leg(k[2], "PE", "BUY", 1)
    BY <2>1
  <2> HIDE DEF sp
  <2>3. Made(sp[1]) /\ Made(sp[2])
    BY <1>1, <2>2, Specified
  <2>7. Units(k[1], p[1], x) /\ Units(k[2], p[2], x)
    BY <1>1, <1>2, <2>1, <2>3, UnitsHold
  <2>4. /\ Gain(sp[1], p[1], x) = (p[1] - Put(k[1], x))
        /\ Cash(sp[1], p[1]) = p[1]
        /\ Gain(sp[2], p[2], x) = (Put(k[2], x) - p[2])
        /\ Cash(sp[2], p[2]) = -p[2]
    BY <2>2, <2>7 DEF Units
  <2>5. Priced(2, sp, p) /\ U = (p[1] - Put(k[1], x)) + (Put(k[2], x) - p[2])
    BY <1>2, <2>1, <2>3, <2>4
  <2>6. V = p[1] + (-p[2]) /\ p[1] \in Int /\ p[2] \in Int
    BY <1>2, <2>1, <2>3, <2>4
  <2>8. V = p[1] - p[2]
    <3> HIDE DEF V
    <3> QED BY <2>6
  <2> QED BY <1>11, <2>1, <2>5, <2>6, <2>7, <2>8 DEF sp, Units
<1>12. CASE s = "bear_call_spread"
  <2>1. /\ sp = <<Leg(k[1], "CE", "SELL", 1), Leg(k[2], "CE", "BUY", 1)>>
        /\ Len(sp) = 2
    BY <1>12 DEF SpecsOf
  <2>2. sp[1] = Leg(k[1], "CE", "SELL", 1) /\ sp[2] = Leg(k[2], "CE", "BUY", 1)
    BY <2>1
  <2> HIDE DEF sp
  <2>3. Made(sp[1]) /\ Made(sp[2])
    BY <1>1, <2>2, Specified
  <2>7. Units(k[1], p[1], x) /\ Units(k[2], p[2], x)
    BY <1>1, <1>2, <2>1, <2>3, UnitsHold
  <2>4. /\ Gain(sp[1], p[1], x) = (p[1] - Call(k[1], x))
        /\ Cash(sp[1], p[1]) = p[1]
        /\ Gain(sp[2], p[2], x) = (Call(k[2], x) - p[2])
        /\ Cash(sp[2], p[2]) = -p[2]
    BY <2>2, <2>7 DEF Units
  <2>5. Priced(2, sp, p) /\ U = (p[1] - Call(k[1], x)) + (Call(k[2], x) - p[2])
    BY <1>2, <2>1, <2>3, <2>4
  <2>6. V = p[1] + (-p[2]) /\ p[1] \in Int /\ p[2] \in Int
    BY <1>2, <2>1, <2>3, <2>4
  <2>8. V = p[1] - p[2]
    <3> HIDE DEF V
    <3> QED BY <2>6
  <2> QED BY <1>12, <2>1, <2>5, <2>6, <2>7, <2>8 DEF sp, Units
<1>13. CASE s = "bull_put_spread"
  <2>1. /\ sp = <<Leg(k[1], "PE", "BUY", 1), Leg(k[2], "PE", "SELL", 1)>>
        /\ Len(sp) = 2
    BY <1>13 DEF SpecsOf
  <2>2. sp[1] = Leg(k[1], "PE", "BUY", 1) /\ sp[2] = Leg(k[2], "PE", "SELL", 1)
    BY <2>1
  <2> HIDE DEF sp
  <2>3. Made(sp[1]) /\ Made(sp[2])
    BY <1>1, <2>2, Specified
  <2>7. Units(k[1], p[1], x) /\ Units(k[2], p[2], x)
    BY <1>1, <1>2, <2>1, <2>3, UnitsHold
  <2>4. /\ Gain(sp[1], p[1], x) = (Put(k[1], x) - p[1])
        /\ Cash(sp[1], p[1]) = -p[1]
        /\ Gain(sp[2], p[2], x) = (p[2] - Put(k[2], x))
        /\ Cash(sp[2], p[2]) = p[2]
    BY <2>2, <2>7 DEF Units
  <2>5. Priced(2, sp, p) /\ U = (Put(k[1], x) - p[1]) + (p[2] - Put(k[2], x))
    BY <1>2, <2>1, <2>3, <2>4
  <2>6. V = (-p[1]) + p[2] /\ p[1] \in Int /\ p[2] \in Int
    BY <1>2, <2>1, <2>3, <2>4
  <2>8. V = p[2] - p[1]
    <3> HIDE DEF V
    <3> QED BY <2>6
  <2> QED BY <1>13, <2>1, <2>5, <2>6, <2>7, <2>8 DEF sp, Units
<1>14. CASE s = "straddle"
  <2>1. /\ sp = <<Leg(k[1], "CE", "BUY", 1), Leg(k[1], "PE", "BUY", 1)>>
        /\ Len(sp) = 2
    BY <1>14 DEF SpecsOf
  <2>2. sp[1] = Leg(k[1], "CE", "BUY", 1) /\ sp[2] = Leg(k[1], "PE", "BUY", 1)
    BY <2>1
  <2> HIDE DEF sp
  <2>3. Made(sp[1]) /\ Made(sp[2])
    BY <1>1, <2>2, Specified
  <2>7. Units(k[1], p[1], x) /\ Units(k[1], p[2], x)
    BY <1>1, <1>2, <2>1, <2>3, UnitsHold
  <2>4. /\ Gain(sp[1], p[1], x) = (Call(k[1], x) - p[1])
        /\ Cash(sp[1], p[1]) = -p[1]
        /\ Gain(sp[2], p[2], x) = (Put(k[1], x) - p[2])
        /\ Cash(sp[2], p[2]) = -p[2]
    BY <2>2, <2>7 DEF Units
  <2>5. Priced(2, sp, p) /\ U = (Call(k[1], x) - p[1]) + (Put(k[1], x) - p[2])
    BY <1>2, <2>1, <2>3, <2>4
  <2>6. V = (-p[1]) + (-p[2]) /\ p[1] \in Int /\ p[2] \in Int
    BY <1>2, <2>1, <2>3, <2>4
  <2>8. V = -p[1] - p[2]
    <3> HIDE DEF V
    <3> QED BY <2>6
  <2> QED BY <1>14, <2>1, <2>5, <2>6, <2>7, <2>8 DEF sp, Units
<1>15. CASE s = "strangle"
  <2>1. /\ sp = <<Leg(k[1], "PE", "BUY", 1), Leg(k[2], "CE", "BUY", 1)>>
        /\ Len(sp) = 2
    BY <1>15 DEF SpecsOf
  <2>2. sp[1] = Leg(k[1], "PE", "BUY", 1) /\ sp[2] = Leg(k[2], "CE", "BUY", 1)
    BY <2>1
  <2> HIDE DEF sp
  <2>3. Made(sp[1]) /\ Made(sp[2])
    BY <1>1, <2>2, Specified
  <2>7. Units(k[1], p[1], x) /\ Units(k[2], p[2], x)
    BY <1>1, <1>2, <2>1, <2>3, UnitsHold
  <2>4. /\ Gain(sp[1], p[1], x) = (Put(k[1], x) - p[1])
        /\ Cash(sp[1], p[1]) = -p[1]
        /\ Gain(sp[2], p[2], x) = (Call(k[2], x) - p[2])
        /\ Cash(sp[2], p[2]) = -p[2]
    BY <2>2, <2>7 DEF Units
  <2>5. Priced(2, sp, p) /\ U = (Put(k[1], x) - p[1]) + (Call(k[2], x) - p[2])
    BY <1>2, <2>1, <2>3, <2>4
  <2>6. V = (-p[1]) + (-p[2]) /\ p[1] \in Int /\ p[2] \in Int
    BY <1>2, <2>1, <2>3, <2>4
  <2>8. V = -p[1] - p[2]
    <3> HIDE DEF V
    <3> QED BY <2>6
  <2> QED BY <1>15, <2>1, <2>5, <2>6, <2>7, <2>8 DEF sp, Units
<1>16. CASE s = "iron_condor"
  <2>1. /\ sp = <<Leg(k[1], "PE", "BUY", 1),
                   Leg(k[2], "PE", "SELL", 1),
                   Leg(k[3], "CE", "SELL", 1),
                   Leg(k[4], "CE", "BUY", 1)>>
        /\ Len(sp) = 4
    BY <1>16 DEF SpecsOf
  <2>2. /\ sp[1] = Leg(k[1], "PE", "BUY", 1)
        /\ sp[2] = Leg(k[2], "PE", "SELL", 1)
        /\ sp[3] = Leg(k[3], "CE", "SELL", 1)
        /\ sp[4] = Leg(k[4], "CE", "BUY", 1)
    BY <2>1
  <2> HIDE DEF sp
  <2>3. Made(sp[1]) /\ Made(sp[2]) /\ Made(sp[3]) /\ Made(sp[4])
    BY <1>1, <2>2, Specified
  <2>7. Units(k[1], p[1], x) /\ Units(k[2], p[2], x) /\ Units(k[3], p[3], x) /\ Units(k[4], p[4], x)
    BY <1>1, <1>4, <2>1, <2>3, UnitsHold
  <2>4. /\ Gain(sp[1], p[1], x) = (Put(k[1], x) - p[1])
        /\ Cash(sp[1], p[1]) = -p[1]
        /\ Gain(sp[2], p[2], x) = (p[2] - Put(k[2], x))
        /\ Cash(sp[2], p[2]) = p[2]
        /\ Gain(sp[3], p[3], x) = (p[3] - Call(k[3], x))
        /\ Cash(sp[3], p[3]) = p[3]
        /\ Gain(sp[4], p[4], x) = (Call(k[4], x) - p[4])
        /\ Cash(sp[4], p[4]) = -p[4]
    BY <2>2, <2>7 DEF Units
  <2>5. Priced(4, sp, p) /\ U = (Put(k[1], x) - p[1]) + (p[2] - Put(k[2], x)) + (p[3] - Call(k[3], x)) + (Call(k[4], x) - p[4])
    BY <1>4, <2>1, <2>3, <2>4
  <2>6. V = (-p[1]) + p[2] + p[3] + (-p[4]) /\ p[1] \in Int /\ p[2] \in Int /\ p[3] \in Int /\ p[4] \in Int
    BY <1>4, <2>1, <2>3, <2>4
  <2>8. V = (p[2] + p[3]) - (p[1] + p[4])
    <3> HIDE DEF V
    <3> QED BY <2>6
  <2> QED BY <1>16, <2>1, <2>5, <2>6, <2>7, <2>8 DEF sp, Units
<1>17. CASE s = "butterfly"
  <2>1. /\ sp = <<Leg(k[1], "CE", "BUY", 1),
                   Leg(k[2], "CE", "SELL", 2),
                   Leg(k[3], "CE", "BUY", 1)>>
        /\ Len(sp) = 3
    BY <1>17 DEF SpecsOf
  <2>2. /\ sp[1] = Leg(k[1], "CE", "BUY", 1)
        /\ sp[2] = Leg(k[2], "CE", "SELL", 2)
        /\ sp[3] = Leg(k[3], "CE", "BUY", 1)
    BY <2>1
  <2> HIDE DEF sp
  <2>3. Made(sp[1]) /\ Made(sp[2]) /\ Made(sp[3])
    BY <1>1, <2>2, Specified
  <2>7. Units(k[1], p[1], x) /\ Units(k[2], p[2], x) /\ Units(k[3], p[3], x)
    BY <1>1, <1>3, <2>1, <2>3, UnitsHold
  <2>4. /\ Gain(sp[1], p[1], x) = (Call(k[1], x) - p[1])
        /\ Cash(sp[1], p[1]) = -p[1]
        /\ Gain(sp[2], p[2], x) = (2 * p[2] - 2 * Call(k[2], x))
        /\ Cash(sp[2], p[2]) = 2 * p[2]
        /\ Gain(sp[3], p[3], x) = (Call(k[3], x) - p[3])
        /\ Cash(sp[3], p[3]) = -p[3]
    BY <2>2, <2>7 DEF Units
  <2>5. Priced(3, sp, p) /\ U = (Call(k[1], x) - p[1]) + (2 * p[2] - 2 * Call(k[2], x)) + (Call(k[3], x) - p[3])
    BY <1>3, <2>1, <2>3, <2>4
  <2>6. V = (-p[1]) + 2 * p[2] + (-p[3]) /\ p[1] \in Int /\ p[2] \in Int /\ p[3] \in Int
    BY <1>3, <2>1, <2>3, <2>4
  <2>8. V = 2 * p[2] - p[1] - p[3]
    <3> HIDE DEF V
    <3> QED BY <2>6
  <2> QED BY <1>17, <2>1, <2>5, <2>6, <2>7, <2>8 DEF sp, Units
<1> QED BY <1>10, <1>11, <1>12, <1>13, <1>14, <1>15, <1>16, <1>17 DEF Quoted, Strategies

\* What the formulas are to say, per unit.
Loss(s, k, p)   == IF Credit(s) THEN Width(s, k) - Net(s, p) ELSE Net(s, p)
Profit(s, k, p) == IF Credit(s) THEN Net(s, p) ELSE Width(s, k) - Net(s, p)

Shape(s, k, p) ==
  CASE s = "strangle"  -> k[1] <= k[2]
    [] s = "butterfly" -> k[2] - k[1] = k[3] - k[2] /\ Cashes(SpecsOf(s, k), p) <= 0
    [] OTHER -> TRUE

Wide(s, k) == s = "butterfly" /\ k[3] - k[2] > k[2] - k[1]

Inside(s, k, price) == IF Unlimited(s) THEN price >= 0 ELSE price \in k[1]..k[Reads(s)]

\* The loss is the lowest gain, the profit the highest, a breakeven is a zero.
Honest(s, k, p) ==
  LET U(x) == Gains(SpecsOf(s, k), p, x)
  IN  /\ \A x \in Prices : U(x) \in Int
      /\ Loss(s, k, p) \in Int /\ Profit(s, k, p) \in Int
      /\ Shape(s, k, p) => \E x \in Prices : U(x) = -Loss(s, k, p)
      /\ ~Wide(s, k) => /\ \A x \in Prices : U(x) >= -Loss(s, k, p)
                        /\ \E x \in Prices : \A y \in Prices : U(x) <= U(y)
      /\ U(MaxStrike + 1) = U(MaxStrike) + IF Unlimited(s) THEN 1 ELSE 0
      /\ Shape(s, k, p) /\ ~Unlimited(s) =>
           /\ \A x \in Prices : U(x) <= Profit(s, k, p)
           /\ \E x \in Prices : U(x) = Profit(s, k, p)
      /\ Shape(s, k, p) => LET b == Breakevens(s, k, Net(s, p)) IN
           \A i \in 1..Len(b) : /\ b[i] \in Int
                                /\ Inside(s, k, b[i]) /\ (Unlimited(s) \/ Profit(s, k, p) >= 0) => U(b[i]) = 0
      /\ Cashes(SpecsOf(s, k), p) \in Int
      /\ Shape(s, k, p) =>
           Cashes(SpecsOf(s, k), p) = IF Credit(s) THEN Profit(s, k, p) ELSE -Loss(s, k, p)

\* Between its strikes a vertical spread follows a ramp, up for a bull and down for
\* a bear; beyond them it stays where it is.
Verticals == {"bull_call_spread", "bear_put_spread", "bear_call_spread", "bull_put_spread"}

Ramp(lo, hi, x) == Call(lo, x) - Call(hi, x)

LEMMA RampIs ==
  ASSUME NEW lo \in Int, NEW hi \in Int, lo < hi, NEW x \in Int
  PROVE  /\ Ramp(lo, hi, x) \in 0..(hi - lo)
         /\ Put(hi, x) - Put(lo, x) = (hi - lo) - Ramp(lo, hi, x)
         /\ x <= lo => Ramp(lo, hi, x) = 0
         /\ x >= hi => Ramp(lo, hi, x) = hi - lo
         /\ x \in lo..hi => Ramp(lo, hi, x) = x - lo
BY DEF Ramp, Call, Put

LEMMA VerticalAmounts ==
  ASSUME NEW k, NEW p, k[1] \in Int, k[2] \in Int, p[1] \in Int, p[2] \in Int
  PROVE  LET w == k[2] - k[1] IN
         /\ ~Credit("bull_call_spread") /\ Loss("bull_call_spread", k, p) = p[1] - p[2]
         /\ Profit("bull_call_spread", k, p) = w - (p[1] - p[2])
         /\ Breakevens("bull_call_spread", k, Net("bull_call_spread", p)) = <<k[1] + (p[1] - p[2])>>
         /\ ~Credit("bear_put_spread") /\ Loss("bear_put_spread", k, p) = p[2] - p[1]
         /\ Profit("bear_put_spread", k, p) = w - (p[2] - p[1])
         /\ Breakevens("bear_put_spread", k, Net("bear_put_spread", p)) = <<k[2] - (p[2] - p[1])>>
         /\ Credit("bear_call_spread") /\ Loss("bear_call_spread", k, p) = w - (p[1] - p[2])
         /\ Profit("bear_call_spread", k, p) = p[1] - p[2]
         /\ Breakevens("bear_call_spread", k, Net("bear_call_spread", p)) = <<k[1] + (p[1] - p[2])>>
         /\ Credit("bull_put_spread") /\ Loss("bull_put_spread", k, p) = w - (p[2] - p[1])
         /\ Profit("bull_put_spread", k, p) = p[2] - p[1]
         /\ Breakevens("bull_put_spread", k, Net("bull_put_spread", p)) = <<k[2] - (p[2] - p[1])>>
<1>1. /\ Net("bull_call_spread", p) = p[1] - p[2] /\ ~Credit("bull_call_spread")
      /\ Net("bear_put_spread", p) = p[2] - p[1] /\ ~Credit("bear_put_spread")
      /\ Net("bear_call_spread", p) = p[1] - p[2] /\ Credit("bear_call_spread")
      /\ Net("bull_put_spread", p) = p[2] - p[1] /\ Credit("bull_put_spread")
  BY DEF Net, Credit, Unlimited
<1>2. \A s \in Verticals : Width(s, k) = k[2] - k[1]
  BY DEF Width, Verticals
<1>3. \A n : /\ Breakevens("bull_call_spread", k, n) = <<k[1] + n>>
            /\ Breakevens("bear_put_spread", k, n) = <<k[2] - n>>
            /\ Breakevens("bear_call_spread", k, n) = <<k[1] + n>>
            /\ Breakevens("bull_put_spread", k, n) = <<k[2] - n>>
  BY DEF Breakevens
<1> QED BY <1>1, <1>2, <1>3 DEF Loss, Profit, Verticals

LEMMA VerticalHonest ==
  ASSUME NEW s \in Verticals, NEW k, NEW p, Quoted(s, k, p)
  PROVE  Honest(s, k, p)
<1> DEFINE sp == SpecsOf(s, k)
           U(x) == Gains(sp, p, x)
           bull == s \in {"bull_call_spread", "bull_put_spread"}
           w == k[2] - k[1]
           loss == Loss(s, k, p)
           b == IF bull THEN k[1] + loss ELSE k[2] - loss
<1>1. /\ k[1] \in Nat /\ k[2] \in Nat /\ k[1] < k[2] /\ k[2] <= MaxStrike
      /\ p[1] \in Nat /\ p[2] \in Nat /\ MaxStrike \in Nat
  BY BoundsAssumption DEF Quoted, SpecsOf, Ordered, Verticals
<1>ramp. ASSUME NEW x \in Int
      PROVE  /\ Ramp(k[1], k[2], x) \in 0..w
             /\ Put(k[2], x) - Put(k[1], x) = w - Ramp(k[1], k[2], x)
             /\ x <= k[1] => Ramp(k[1], k[2], x) = 0
             /\ x >= k[2] => Ramp(k[1], k[2], x) = w
             /\ x \in k[1]..k[2] => Ramp(k[1], k[2], x) = x - k[1]
  <2>1. k[1] \in Int /\ k[2] \in Int /\ k[1] < k[2]
    BY <1>1
  <2> QED BY <2>1, RampIs
<1>2. ~Unlimited(s) /\ ~Wide(s, k) /\ Shape(s, k, p) /\ Reads(s) = 2
  BY DEF Verticals, Unlimited, Wide, Shape, Reads
<1>3. /\ loss \in Int /\ Profit(s, k, p) = w - loss
      /\ Breakevens(s, k, Net(s, p)) = <<b>> /\ b \in Int
  <2>1. CASE s = "bull_call_spread"
    <3>1. loss = p[1] - p[2] /\ Profit(s, k, p) = w - (p[1] - p[2])
      BY <1>1, <2>1, VerticalAmounts
    <3>2. Breakevens(s, k, Net(s, p)) = <<k[1] + (p[1] - p[2])>>
      BY <1>1, <2>1, VerticalAmounts
    <3>3. b = k[1] + (p[1] - p[2])
      BY <1>1, <2>1, <3>1
    <3> HIDE DEF b
    <3> QED BY <1>1, <3>1, <3>2, <3>3
  <2>2. CASE s = "bear_put_spread"
    <3>1. loss = p[2] - p[1] /\ Profit(s, k, p) = w - (p[2] - p[1])
      BY <1>1, <2>2, VerticalAmounts
    <3>2. Breakevens(s, k, Net(s, p)) = <<k[2] - (p[2] - p[1])>>
      BY <1>1, <2>2, VerticalAmounts
    <3>3. b = k[2] - (p[2] - p[1])
      BY <1>1, <2>2, <3>1
    <3> HIDE DEF b
    <3> QED BY <1>1, <3>1, <3>2, <3>3
  <2>3. CASE s = "bear_call_spread"
    <3>1. loss = w - (p[1] - p[2]) /\ Profit(s, k, p) = p[1] - p[2]
      BY <1>1, <2>3, VerticalAmounts
    <3>2. Breakevens(s, k, Net(s, p)) = <<k[1] + (p[1] - p[2])>>
      BY <1>1, <2>3, VerticalAmounts
    <3>3. b = k[1] + (p[1] - p[2])
      BY <1>1, <2>3, <3>1
    <3> HIDE DEF b
    <3> QED BY <1>1, <3>1, <3>2, <3>3
  <2>4. CASE s = "bull_put_spread"
    <3>1. loss = w - (p[2] - p[1]) /\ Profit(s, k, p) = p[2] - p[1]
      BY <1>1, <2>4, VerticalAmounts
    <3>2. Breakevens(s, k, Net(s, p)) = <<k[2] - (p[2] - p[1])>>
      BY <1>1, <2>4, VerticalAmounts
    <3>3. b = k[2] - (p[2] - p[1])
      BY <1>1, <2>4, <3>1
    <3> HIDE DEF b
    <3> QED BY <1>1, <3>1, <3>2, <3>3
  <2> QED BY <2>1, <2>2, <2>3, <2>4 DEF Verticals
<1>4. ASSUME NEW x \in Int
      PROVE  /\ U(x) = (IF bull THEN Ramp(k[1], k[2], x) ELSE w - Ramp(k[1], k[2], x)) - loss
             /\ Cashes(sp, p) = IF Credit(s) THEN w - loss ELSE -loss
  <2>1. /\ Put(k[2], x) - Put(k[1], x) = w - Ramp(k[1], k[2], x) /\ Ramp(k[1], k[2], x) \in Int
        /\ Ramp(k[1], k[2], x) = Call(k[1], x) - Call(k[2], x)
        /\ Call(k[1], x) \in Int /\ Call(k[2], x) \in Int /\ Put(k[1], x) \in Int /\ Put(k[2], x) \in Int
    <3>1. Put(k[2], x) - Put(k[1], x) = w - Ramp(k[1], k[2], x) /\ Ramp(k[1], k[2], x) \in 0..w
      BY <1>ramp
    <3>2. Call(k[1], x) \in Int /\ Call(k[2], x) \in Int /\ Put(k[1], x) \in Int /\ Put(k[2], x) \in Int
      BY <1>1 DEF Call, Put
    <3>3. Ramp(k[1], k[2], x) = Call(k[1], x) - Call(k[2], x)
      BY DEF Ramp
    <3> QED BY <1>1, <3>1, <3>2, <3>3
  <2>2. CASE s = "bull_call_spread"
    <3>1. /\ U(x) = (Call(k[1], x) - p[1]) + (p[2] - Call(k[2], x))
          /\ Cashes(sp, p) = p[2] - p[1]
      BY <2>2, UnitOfStrategy
    <3>2. loss = p[1] - p[2] /\ ~Credit(s) /\ bull
      BY <1>1, <2>2, VerticalAmounts
    <3> QED BY <1>1, <2>1, <3>1, <3>2
  <2>3. CASE s = "bear_put_spread"
    <3>1. /\ U(x) = (p[1] - Put(k[1], x)) + (Put(k[2], x) - p[2])
          /\ Cashes(sp, p) = p[1] - p[2]
      BY <2>3, UnitOfStrategy
    <3>2. loss = p[2] - p[1] /\ ~Credit(s) /\ ~bull
      BY <1>1, <2>3, VerticalAmounts
    <3> QED BY <1>1, <2>1, <3>1, <3>2
  <2>4. CASE s = "bear_call_spread"
    <3>1. /\ U(x) = (p[1] - Call(k[1], x)) + (Call(k[2], x) - p[2])
          /\ Cashes(sp, p) = p[1] - p[2]
      BY <2>4, UnitOfStrategy
    <3>2. loss = w - (p[1] - p[2]) /\ Credit(s) /\ ~bull
      BY <1>1, <2>4, VerticalAmounts
    <3> QED BY <1>1, <2>1, <3>1, <3>2
  <2>5. CASE s = "bull_put_spread"
    <3>1. /\ U(x) = (Put(k[1], x) - p[1]) + (p[2] - Put(k[2], x))
          /\ Cashes(sp, p) = p[2] - p[1]
      BY <2>5, UnitOfStrategy
    <3>2. loss = w - (p[2] - p[1]) /\ Credit(s) /\ bull
      BY <1>1, <2>5, VerticalAmounts
    <3> QED BY <1>1, <2>1, <3>1, <3>2
  <2> QED BY <2>2, <2>3, <2>4, <2>5 DEF Verticals
<1> HIDE DEF sp, U, bull, loss
<1>5. \A x \in Int : Ramp(k[1], k[2], x) \in 0..w
  BY <1>ramp, <1>1
<1>6. Prices \subseteq Int /\ k[1] \in Prices /\ k[2] \in Prices /\ Ramp(k[1], k[2], k[1]) = 0 /\ Ramp(k[1], k[2], k[2]) = w
  <2>1. Prices \subseteq Int /\ k[1] \in Prices /\ k[2] \in Prices
    BY <1>1 DEF Prices
  <2>2. k[1] \in Int /\ k[2] \in Int /\ k[1] <= k[1] /\ k[2] >= k[2]
    BY <1>1
  <2> QED BY <1>ramp, <2>1, <2>2
<1>7. \A x \in Prices : U(x) \in Int /\ U(x) >= -loss /\ U(x) <= w - loss
  <2> TAKE x \in Prices
  <2>1. U(x) = (IF bull THEN Ramp(k[1], k[2], x) ELSE w - Ramp(k[1], k[2], x)) - loss /\ Ramp(k[1], k[2], x) \in 0..w
    BY <1>4, <1>5, <1>6
  <2> QED BY <1>1, <1>3, <2>1
<1>8. \E x \in Prices : U(x) = -loss
  <2>1. U(k[1]) = (IF bull THEN 0 ELSE w) - loss /\ U(k[2]) = (IF bull THEN w ELSE w - w) - loss
    BY <1>1, <1>4, <1>6
  <2>2. U(IF bull THEN k[1] ELSE k[2]) = -loss
    BY <1>1, <1>3, <2>1
  <2> QED BY <1>6, <2>2
<1>9. \E x \in Prices : U(x) = w - loss
  <2>1. U(k[1]) = (IF bull THEN 0 ELSE w - 0) - loss /\ U(k[2]) = (IF bull THEN w ELSE 0) - loss
    BY <1>1, <1>4, <1>6
  <2>2. U(IF bull THEN k[2] ELSE k[1]) = w - loss
    BY <1>1, <1>3, <2>1
  <2> QED BY <1>6, <2>2
<1>10. U(MaxStrike + 1) = U(MaxStrike) /\ U(MaxStrike) \in Int
  <2>1. MaxStrike + 1 \in Int /\ MaxStrike \in Int /\ MaxStrike \in Prices
    BY <1>1 DEF Prices
  <2>2. Ramp(k[1], k[2], MaxStrike) = w /\ Ramp(k[1], k[2], MaxStrike + 1) = w
    BY <1>ramp, <1>1
  <2> QED BY <1>4, <1>7, <2>1, <2>2
<1>11. Inside(s, k, b) => U(b) = 0
  <2> SUFFICES ASSUME b \in k[1]..k[2] PROVE U(b) = 0
    BY <1>2 DEF Inside
  <2>1. Ramp(k[1], k[2], b) = b - k[1]
    BY <1>ramp, <1>1, <1>3
  <2>2. U(b) = (IF bull THEN b - k[1] ELSE w - (b - k[1])) - loss
    BY <1>3, <1>4, <2>1
  <2> QED BY <1>1, <1>3, <2>2
<1>12. Cashes(sp, p) = IF Credit(s) THEN Profit(s, k, p) ELSE -loss
  BY <1>3, <1>4, 0 \in Int
<1>13. Profit(s, k, p) \in Int /\ Cashes(sp, p) \in Int
  BY <1>1, <1>3, <1>12
<1>14. LET bs == Breakevens(s, k, Net(s, p)) IN
       \A i \in 1..Len(bs) : /\ bs[i] \in Int
                             /\ Inside(s, k, bs[i]) /\ (Unlimited(s) \/ Profit(s, k, p) >= 0) => U(bs[i]) = 0
  <2> HIDE DEF b
  <2> QED BY <1>3, <1>11
<1>15. \E x \in Prices : \A y \in Prices : U(x) <= U(y)
  BY <1>3, <1>7, <1>8
<1>16. U(MaxStrike + 1) = U(MaxStrike) + IF Unlimited(s) THEN 1 ELSE 0
  BY <1>2, <1>10
<1> HIDE DEF w, b
<1> QED BY <1>2, <1>3, <1>7, <1>8, <1>9, <1>12, <1>13, <1>14, <1>15, <1>16
     DEF Honest, U, sp, loss

\* A put and a call that are bought lose their price between the strikes at most,
\* and gain without bound beyond the upper one.
LEMMA LongVolatilityHonest ==
  ASSUME NEW s \in {"straddle", "strangle"}, NEW k, NEW p, Quoted(s, k, p)
  PROVE  Honest(s, k, p)
<1> DEFINE sp == SpecsOf(s, k)
           U(x) == Gains(sp, p, x)
           h == IF s = "straddle" THEN k[1] ELSE k[2]
<1>1. /\ k[1] \in Nat /\ h \in Nat /\ k[1] <= MaxStrike /\ h <= MaxStrike
      /\ p[1] \in Nat /\ p[2] \in Nat /\ MaxStrike \in Nat
      /\ Width(s, k) \in Int
  BY BoundsAssumption DEF Quoted, SpecsOf, Width
<1> PICK n \in Nat : n = p[1] + p[2]
  BY <1>1
<1>2. ASSUME NEW x \in Int
      PROVE  U(x) = Put(k[1], x) + Call(h, x) - n /\ Cashes(sp, p) = -n
  <2>1. Call(k[1], x) \in Int /\ Put(k[1], x) \in Int /\ Call(h, x) \in Int
    BY <1>1 DEF Call, Put
  <2>2. CASE s = "straddle"
    <3>1. U(x) = (Call(k[1], x) - p[1]) + (Put(k[1], x) - p[2]) /\ Cashes(sp, p) = -p[1] - p[2]
      BY <2>2, UnitOfStrategy
    <3> QED BY <1>1, <2>1, <2>2, <3>1
  <2>3. CASE s = "strangle"
    <3>1. U(x) = (Put(k[1], x) - p[1]) + (Call(k[2], x) - p[2]) /\ Cashes(sp, p) = -p[1] - p[2]
      BY <2>3, UnitOfStrategy
    <3> QED BY <1>1, <2>1, <2>3, <3>1
  <2> QED BY <2>2, <2>3
<1>3. /\ Net(s, p) = n /\ Loss(s, k, p) = n /\ Profit(s, k, p) \in Int
      /\ Breakevens(s, k, n) = <<k[1] - n, h + n>>
      /\ Unlimited(s) /\ ~Credit(s)
      /\ Shape(s, k, p) => k[1] <= h
  <2>1. Net(s, p) = n /\ Unlimited(s) /\ ~Credit(s)
    BY DEF Net, Credit, Unlimited
  <2>2. Shape(s, k, p) => k[1] <= h
    BY <1>1 DEF Shape
  <2> QED BY <1>1, <2>1, <2>2 DEF Loss, Profit, Breakevens
<1> HIDE DEF sp, U, h
<1>4. \A x \in Int : U(x) \in Int /\ U(x) >= -n
  <2> TAKE x \in Int
  <2>1. U(x) = Put(k[1], x) + Call(h, x) - n
    BY <1>2
  <2> QED BY <1>1, <2>1 DEF Put, Call
<1>5. k[1] \in Prices /\ Prices \subseteq Int /\ MaxStrike \in Int /\ MaxStrike + 1 \in Int
  BY <1>1 DEF Prices
<1>6. \A y \in Prices : U(k[1]) <= U(y)
  <2> TAKE y \in Prices
  <2>1. U(y) = Put(k[1], y) + Call(h, y) - n /\ U(k[1]) = Put(k[1], k[1]) + Call(h, k[1]) - n /\ y \in Int
    BY <1>1, <1>2, <1>5
  <2> QED BY <1>1, <2>1 DEF Put, Call
<1>7. U(MaxStrike + 1) = U(MaxStrike) + 1
  <2>1. /\ U(MaxStrike) = Put(k[1], MaxStrike) + Call(h, MaxStrike) - n
        /\ U(MaxStrike + 1) = Put(k[1], MaxStrike + 1) + Call(h, MaxStrike + 1) - n
    BY <1>2, <1>5
  <2> QED BY <1>1, <2>1 DEF Put, Call
<1>8. ASSUME k[1] <= h
      PROVE  U(k[1]) = -n /\ U(k[1] - n) = 0 /\ U(h + n) = 0
  <2>1. k[1] \in Int /\ k[1] - n \in Int /\ h + n \in Int
    BY <1>1
  <2>2. /\ U(k[1]) = Put(k[1], k[1]) + Call(h, k[1]) - n
        /\ U(k[1] - n) = Put(k[1], k[1] - n) + Call(h, k[1] - n) - n
        /\ U(h + n) = Put(k[1], h + n) + Call(h, h + n) - n
    BY <1>2, <2>1
  <2> QED BY <1>1, <1>8, <2>1, <2>2 DEF Put, Call
<1>9. Shape(s, k, p) => \E x \in Prices : U(x) = -Loss(s, k, p)
  BY <1>3, <1>5, <1>8
<1>10. LET b == Breakevens(s, k, Net(s, p)) IN
       \A i \in 1..Len(b) : b[i] \in Int /\ (Shape(s, k, p) => U(b[i]) = 0)
  <2>1. k[1] - n \in Int /\ h + n \in Int
    BY <1>1
  <2>2. Len(<<k[1] - n, h + n>>) = 2 /\ \A i \in 1..2 : i = 1 \/ i = 2
    OBVIOUS
  <2> QED BY <1>3, <1>8, <2>1, <2>2
<1>11. Cashes(sp, p) = -n /\ n \in Int /\ -n \in Int
  BY <1>2, 0 \in Int
<1>12. U(MaxStrike + 1) = U(MaxStrike) + IF Unlimited(s) THEN 1 ELSE 0
  BY <1>3, <1>7
<1> QED BY <1>3, <1>4, <1>5, <1>6, <1>9, <1>10, <1>11, <1>12 DEF Honest, U, sp

\* A condor loses most beyond its wider wing and earns most between the inner strikes.
LEMMA CondorHonest ==
  ASSUME NEW k, NEW p, Quoted("iron_condor", k, p)
  PROVE  Honest("iron_condor", k, p)
<1> DEFINE s == "iron_condor"
           sp == SpecsOf(s, k)
           U(x) == Gains(sp, p, x)
<1>1. /\ k[1] \in Nat /\ k[2] \in Nat /\ k[3] \in Nat /\ k[4] \in Nat
      /\ k[1] < k[2] /\ k[2] < k[3] /\ k[3] < k[4] /\ k[4] <= MaxStrike
      /\ p[1] \in Nat /\ p[2] \in Nat /\ p[3] \in Nat /\ p[4] \in Nat /\ MaxStrike \in Nat
  BY BoundsAssumption DEF Quoted, SpecsOf, Ordered
<1> PICK n \in Int : n = (p[2] + p[3]) - (p[1] + p[4])
  BY <1>1
<1> PICK w \in Int : w = IF k[2] - k[1] >= k[4] - k[3] THEN k[2] - k[1] ELSE k[4] - k[3]
  BY <1>1
<1>2. \A x \in Int : U(x) = (Put(k[1], x) - p[1]) + (p[2] - Put(k[2], x)) + (p[3] - Call(k[3], x)) + (Call(k[4], x) - p[4])
  BY UnitOfStrategy
<1>3. Cashes(sp, p) = (p[2] + p[3]) - (p[1] + p[4])
  BY UnitOfStrategy
<1>4. /\ Net(s, p) = n /\ Loss(s, k, p) = w - n /\ Profit(s, k, p) = n
      /\ Breakevens(s, k, n) = <<k[2] - n, k[3] + n>>
      /\ ~Unlimited(s) /\ ~Wide(s, k) /\ Shape(s, k, p) /\ Reads(s) = 4 /\ Credit(s)
  <2>1. Max({k[2] - k[1], k[4] - k[3]}) = w
    <3>1. k[2] - k[1] \in Int /\ k[4] - k[3] \in Int
      BY <1>1
    <3> QED BY <3>1, MaxOfTwo
  <2>2. Width(s, k) = w
    BY <2>1 DEF Width
  <2> QED BY <2>2 DEF Net, Loss, Profit, Credit, Unlimited, Wide, Shape, Reads, Breakevens
<1> HIDE DEF s, sp, U
<1> USE DEF Call, Put, Prices
<1>5. \A x \in Int : U(x) \in Int
  <2> TAKE x \in Int
  <2>1. U(x) = (Put(k[1], x) - p[1]) + (p[2] - Put(k[2], x)) + (p[3] - Call(k[3], x)) + (Call(k[4], x) - p[4])
    BY <1>2
  <2> QED BY <1>1, <2>1
<1>6. \E x \in Prices : U(x) = -(w - n)
  <2>1. k[1] \in Int /\ k[1] \in Prices /\ k[4] \in Int /\ k[4] \in Prices
    BY <1>1
  <2>2. /\ U(k[1]) = (Put(k[1], k[1]) - p[1]) + (p[2] - Put(k[2], k[1])) + (p[3] - Call(k[3], k[1])) + (Call(k[4], k[1]) - p[4])
        /\ U(k[4]) = (Put(k[1], k[4]) - p[1]) + (p[2] - Put(k[2], k[4])) + (p[3] - Call(k[3], k[4])) + (Call(k[4], k[4]) - p[4])
    BY <1>2, <2>1
  <2>3. U(k[1]) = n - (k[2] - k[1]) /\ U(k[4]) = n - (k[4] - k[3])
    BY <1>1, <2>2
  <2>4. CASE k[2] - k[1] >= k[4] - k[3]
    <3>1. U(k[1]) = -(w - n)
      BY <1>1, <2>3, <2>4
    <3> QED BY <2>1, <3>1
  <2>5. CASE ~(k[2] - k[1] >= k[4] - k[3])
    <3>1. U(k[4]) = -(w - n)
      BY <1>1, <2>3, <2>5
    <3> QED BY <2>1, <3>1
  <2> QED BY <2>4, <2>5
<1>7. U(k[2]) = n /\ k[2] \in Prices
  <2>1. k[2] \in Int /\ k[2] \in Prices
    BY <1>1
  <2>2. U(k[2]) = (Put(k[1], k[2]) - p[1]) + (p[2] - Put(k[2], k[2])) + (p[3] - Call(k[3], k[2])) + (Call(k[4], k[2]) - p[4])
    BY <1>2, <2>1
  <2> QED BY <1>1, <2>1, <2>2
<1>8. \A x \in Prices : U(x) >= -(w - n) /\ U(x) <= n
  <2> SUFFICES ASSUME NEW x \in Prices PROVE U(x) >= -(w - n) /\ U(x) <= n
    OBVIOUS
  <2>1. x \in Int
    BY <1>1
  <2>2. U(x) = (Put(k[1], x) - p[1]) + (p[2] - Put(k[2], x)) + (p[3] - Call(k[3], x)) + (Call(k[4], x) - p[4])
    BY <1>2, <2>1
  <2> QED BY <1>1, <2>1, <2>2
<1>9. U(MaxStrike + 1) = U(MaxStrike)
  <2>1. MaxStrike \in Int /\ MaxStrike + 1 \in Int
    BY <1>1
  <2>2. /\ U(MaxStrike) = (Put(k[1], MaxStrike) - p[1]) + (p[2] - Put(k[2], MaxStrike)) + (p[3] - Call(k[3], MaxStrike)) + (Call(k[4], MaxStrike) - p[4])
        /\ U(MaxStrike + 1) = (Put(k[1], MaxStrike + 1) - p[1]) + (p[2] - Put(k[2], MaxStrike + 1)) + (p[3] - Call(k[3], MaxStrike + 1)) + (Call(k[4], MaxStrike + 1) - p[4])
    BY <1>2, <2>1
  <2> QED BY <1>1, <2>1, <2>2
<1>10. \A b \in Int : (b = k[2] - n \/ b = k[3] + n) /\ b \in k[1]..k[4] /\ n >= 0 => U(b) = 0
  <2> SUFFICES ASSUME NEW b \in Int, b = k[2] - n \/ b = k[3] + n, b \in k[1]..k[4], n >= 0 PROVE U(b) = 0
    OBVIOUS
  <2>1. U(b) = (Put(k[1], b) - p[1]) + (p[2] - Put(k[2], b)) + (p[3] - Call(k[3], b)) + (Call(k[4], b) - p[4])
    BY <1>2
  <2> QED BY <1>1, <2>1
<1>11. Cashes(sp, p) = n
  BY <1>1, <1>3
<1>12. \E x \in Prices : U(x) = -Loss(s, k, p)
  BY <1>4, <1>6
<1>13. \E x \in Prices : U(x) = Profit(s, k, p)
  BY <1>4, <1>7
<1>14. \A x \in Prices : U(x) \in Int /\ U(x) >= -Loss(s, k, p) /\ U(x) <= Profit(s, k, p)
  BY <1>1, <1>4, <1>5, <1>8
<1>15. LET b == Breakevens(s, k, Net(s, p)) IN
       \A i \in 1..Len(b) : /\ b[i] \in Int
                            /\ Inside(s, k, b[i]) /\ (Unlimited(s) \/ Profit(s, k, p) >= 0) => U(b[i]) = 0
  <2>1. Breakevens(s, k, Net(s, p)) = <<k[2] - n, k[3] + n>>
    BY <1>4
  <2>2. k[2] - n \in Int /\ k[3] + n \in Int
    BY <1>1
  <2>3. \A b \in {k[2] - n, k[3] + n} :
          Inside(s, k, b) /\ (Unlimited(s) \/ Profit(s, k, p) >= 0) => U(b) = 0
    BY <1>4, <1>10, <2>2 DEF Inside
  <2>4. Len(<<k[2] - n, k[3] + n>>) = 2 /\ \A i \in 1..2 : i = 1 \/ i = 2
    OBVIOUS
  <2> QED BY <2>1, <2>2, <2>3, <2>4
<1>16. Cashes(sp, p) \in Int /\ Loss(s, k, p) \in Int /\ Profit(s, k, p) \in Int
  BY <1>4, <1>11
<1>17. Cashes(sp, p) = IF Credit(s) THEN Profit(s, k, p) ELSE -Loss(s, k, p)
  BY <1>4, <1>11
<1>18. U(MaxStrike + 1) = U(MaxStrike) + IF Unlimited(s) THEN 1 ELSE 0
  BY <1>1, <1>4, <1>5, <1>9
<1>19. \E x \in Prices : \A y \in Prices : U(x) <= U(y)
  BY <1>12, <1>14, <1>16
<1> QED BY <1>12, <1>13, <1>14, <1>15, <1>16, <1>17, <1>18, <1>19 DEF Honest, U, sp, s

\* A butterfly loses its price below the lower wing, which is its lowest gain
\* unless the upper wing is the wider one.
LEMMA ButterflyHonest ==
  ASSUME NEW k, NEW p, Quoted("butterfly", k, p)
  PROVE  Honest("butterfly", k, p)
<1> DEFINE s == "butterfly"
           sp == SpecsOf(s, k)
           U(x) == Gains(sp, p, x)
<1>1. /\ k[1] \in Nat /\ k[2] \in Nat /\ k[3] \in Nat
      /\ k[1] < k[2] /\ k[2] < k[3] /\ k[3] <= MaxStrike
      /\ p[1] \in Nat /\ p[2] \in Nat /\ p[3] \in Nat /\ MaxStrike \in Nat
  BY BoundsAssumption DEF Quoted, SpecsOf, Ordered
<1> PICK d \in Int : d = p[1] - 2 * p[2] + p[3]
  BY <1>1
<1> PICK n \in Int : n = IF d >= 0 THEN d ELSE 0
  OBVIOUS
<1>2. \A x \in Int : U(x) = (Call(k[1], x) - p[1]) + (2 * p[2] - 2 * Call(k[2], x)) + (Call(k[3], x) - p[3])
  BY UnitOfStrategy
<1>3. Cashes(sp, p) = 2 * p[2] - p[1] - p[3]
  BY UnitOfStrategy
<1>4. /\ Net(s, p) = n /\ Loss(s, k, p) = n /\ Profit(s, k, p) = (k[2] - k[1]) - n
      /\ Breakevens(s, k, n) = <<k[1] + n, k[3] - n>>
      /\ ~Unlimited(s) /\ Reads(s) = 3 /\ ~Credit(s)
      /\ Shape(s, k, p) <=> k[2] - k[1] = k[3] - k[2] /\ Cashes(sp, p) <= 0
      /\ Wide(s, k) <=> k[3] - k[2] > k[2] - k[1]
  <2>1. Max({0, d}) = n
    <3>1. Max({0, d}) = IF 0 >= d THEN 0 ELSE d
      BY MaxOfTwo
    <3> QED BY <3>1
  <2>2. Net(s, p) = n
    BY <2>1 DEF Net, Unlimited
  <2> QED BY <2>2 DEF Loss, Profit, Width, Credit, Unlimited, Wide, Shape, Reads, Breakevens
<1> HIDE DEF s, sp, U
<1> USE DEF Call, Put, Prices
<1>5. \A x \in Int : U(x) \in Int
  <2> TAKE x \in Int
  <2>1. U(x) = (Call(k[1], x) - p[1]) + (2 * p[2] - 2 * Call(k[2], x)) + (Call(k[3], x) - p[3])
    BY <1>2
  <2> QED BY <1>1, <2>1
<1>6. U(0) = -d /\ 0 \in Prices
  <2>1. 0 \in Int /\ 0 \in Prices
    BY <1>1
  <2>2. U(0) = (Call(k[1], 0) - p[1]) + (2 * p[2] - 2 * Call(k[2], 0)) + (Call(k[3], 0) - p[3])
    BY <1>2, <2>1
  <2> QED BY <1>1, <2>1, <2>2
<1>7. U(k[2]) = (k[2] - k[1]) - d /\ k[2] \in Prices
  <2>1. k[2] \in Int /\ k[2] \in Prices
    BY <1>1
  <2>2. U(k[2]) = (Call(k[1], k[2]) - p[1]) + (2 * p[2] - 2 * Call(k[2], k[2])) + (Call(k[3], k[2]) - p[3])
    BY <1>2, <2>1
  <2> QED BY <1>1, <2>1, <2>2
<1>8. \A x \in Prices : /\ k[3] - k[2] <= k[2] - k[1] => U(x) >= -d
                        /\ k[3] - k[2] = k[2] - k[1] => U(x) <= (k[2] - k[1]) - d
  <2> TAKE x \in Prices
  <2>1. x \in Int
    BY <1>1
  <2>2. U(x) = (Call(k[1], x) - p[1]) + (2 * p[2] - 2 * Call(k[2], x)) + (Call(k[3], x) - p[3])
    BY <1>2, <2>1
  <2>3. k[3] - k[2] <= k[2] - k[1] => U(x) >= -d
    BY <1>1, <2>1, <2>2
  <2>4. k[3] - k[2] = k[2] - k[1] => U(x) <= (k[2] - k[1]) - d
    BY <1>1, <2>1, <2>2
  <2> QED BY <2>3, <2>4
<1>9. U(MaxStrike + 1) = U(MaxStrike) + IF Unlimited(s) THEN 1 ELSE 0
  <2>1. MaxStrike \in Int /\ MaxStrike + 1 \in Int
    BY <1>1
  <2>2. /\ U(MaxStrike) = (Call(k[1], MaxStrike) - p[1]) + (2 * p[2] - 2 * Call(k[2], MaxStrike)) + (Call(k[3], MaxStrike) - p[3])
        /\ U(MaxStrike + 1) = (Call(k[1], MaxStrike + 1) - p[1]) + (2 * p[2] - 2 * Call(k[2], MaxStrike + 1)) + (Call(k[3], MaxStrike + 1) - p[3])
    BY <1>2, <2>1
  <2>3. U(MaxStrike + 1) = U(MaxStrike) /\ U(MaxStrike) \in Int
    BY <1>1, <2>1, <2>2
  <2> QED BY <1>4, <2>3
<1>10. Cashes(sp, p) = -d
  BY <1>1, <1>3
<1>11. Shape(s, k, p) => d >= 0 /\ n = d /\ k[3] - k[2] = k[2] - k[1]
  BY <1>1, <1>4, <1>10
<1>12. Shape(s, k, p) => \E x \in Prices : U(x) = -Loss(s, k, p)
  BY <1>4, <1>6, <1>11
<1>13. Shape(s, k, p) => /\ \A x \in Prices : U(x) <= Profit(s, k, p)
                         /\ \E x \in Prices : U(x) = Profit(s, k, p)
  BY <1>4, <1>7, <1>8, <1>11
<1>14. \A x \in Prices : U(x) \in Int
  BY <1>1, <1>5
<1>15. ASSUME ~Wide(s, k)
       PROVE  /\ \A x \in Prices : U(x) >= -Loss(s, k, p)
              /\ \E x \in Prices : \A y \in Prices : U(x) <= U(y)
  <2>1. k[3] - k[2] <= k[2] - k[1]
    BY <1>1, <1>4, <1>15
  <2>2. \A x \in Prices : U(x) >= -d
    BY <1>8, <2>1
  <2>3. -d >= -n
    OBVIOUS
  <2>4. \A x \in Prices : U(x) >= -n
    BY <1>14, <2>2, <2>3
  <2>5. \A y \in Prices : U(0) <= U(y)
    BY <1>6, <1>14, <2>2
  <2> QED BY <1>4, <1>6, <2>4, <2>5
<1>16. \A b \in Int : /\ b = k[1] + n \/ b = k[3] - n
                      /\ b \in k[1]..k[3] /\ (k[2] - k[1]) - n >= 0 /\ Shape(s, k, p)
                      => U(b) = 0
  <2> SUFFICES ASSUME NEW b \in Int, b = k[1] + n \/ b = k[3] - n, b \in k[1]..k[3],
                      (k[2] - k[1]) - n >= 0, Shape(s, k, p)
               PROVE  U(b) = 0
    OBVIOUS
  <2>1. U(b) = (Call(k[1], b) - p[1]) + (2 * p[2] - 2 * Call(k[2], b)) + (Call(k[3], b) - p[3])
    BY <1>2
  <2>2. n = d /\ d >= 0 /\ k[3] - k[2] = k[2] - k[1]
    BY <1>11
  <2> QED BY <1>1, <2>1, <2>2
<1>17. Shape(s, k, p) => LET b == Breakevens(s, k, Net(s, p)) IN
       \A i \in 1..Len(b) : /\ b[i] \in Int
                            /\ Inside(s, k, b[i]) /\ (Unlimited(s) \/ Profit(s, k, p) >= 0) => U(b[i]) = 0
  <2>1. Breakevens(s, k, Net(s, p)) = <<k[1] + n, k[3] - n>>
    BY <1>4
  <2>2. k[1] + n \in Int /\ k[3] - n \in Int
    BY <1>1
  <2>3. \A b \in {k[1] + n, k[3] - n} :
          Inside(s, k, b) /\ (Unlimited(s) \/ Profit(s, k, p) >= 0) /\ Shape(s, k, p) => U(b) = 0
    BY <1>4, <1>16, <2>2 DEF Inside
  <2>4. Len(<<k[1] + n, k[3] - n>>) = 2 /\ \A i \in 1..2 : i = 1 \/ i = 2
    OBVIOUS
  <2> QED BY <2>1, <2>2, <2>3, <2>4
<1>18. Cashes(sp, p) \in Int /\ Loss(s, k, p) \in Int /\ Profit(s, k, p) \in Int
  BY <1>1, <1>4, <1>10
<1>19. Shape(s, k, p) => Cashes(sp, p) = IF Credit(s) THEN Profit(s, k, p) ELSE -Loss(s, k, p)
  BY <1>4, <1>10, <1>11
<1> QED BY <1>9, <1>12, <1>13, <1>14, <1>15, <1>17, <1>18, <1>19 DEF Honest, U, sp, s

LEMMA EveryStrategyHonest ==
  ASSUME NEW s, NEW k, NEW p, Quoted(s, k, p)
  PROVE  Honest(s, k, p)
BY VerticalHonest, LongVolatilityHonest, CondorHonest, ButterflyHonest
   DEF Quoted, Strategies, Verticals

\* Multiplying by a positive quantity keeps the order.
LEMMA Ordering ==
  ASSUME NEW a \in Int, NEW b \in Int, NEW q \in Nat \ {0}
  PROVE  (a <= b <=> a * q <= b * q) /\ (-a) * q = -(a * q) /\ a * q \in Int
<1>1. PICK e \in Int : e = b - a
  OBVIOUS
<1>2. e * q = b * q - a * q
  BY <1>1
<1>3. e >= 0 => e * q >= 0
  OBVIOUS
<1>4. e < 0 => e * q < 0
  <2> SUFFICES ASSUME e < 0 PROVE e * q < 0
    OBVIOUS
  <2>1. PICK f \in Nat \ {0} : f = -e
    OBVIOUS
  <2>2. f * q >= 1 /\ f * q \in Int
    OBVIOUS
  <2>3. e * q = -(f * q)
    BY <2>1
  <2> QED BY <2>2, <2>3
<1>5. a * q \in Int /\ b * q \in Int /\ e * q \in Int
  OBVIOUS
<1>6. a <= b <=> e >= 0
  BY <1>1
<1>7. (-a) * q = -(a * q)
  OBVIOUS
<1> QED BY <1>2, <1>3, <1>4, <1>5, <1>6, <1>7

\* What the metrics m of the legs are to say.
Truthful(s, k, p, legs, m) ==
  LET U(x)  == Payoff(legs, x)
      gains == {U(x) : x \in Prices}
  IN  /\ Shape(s, k, p) => m.maxLoss = -Min(gains)
      /\ ~Wide(s, k) => m.maxLoss >= -Min(gains)
      /\ m.unlimited = (U(MaxStrike + 1) > U(MaxStrike))
      /\ Shape(s, k, p) /\ ~m.unlimited => m.maxProfit = Max(gains)
      /\ Shape(s, k, p) => \A i \in 1..Len(m.breakevens) :
           Inside(s, k, m.breakevens[i]) /\ m.maxProfit >= 0 => U(m.breakevens[i]) = 0
      /\ Shape(s, k, p) => NetPremium(legs) = IF Credit(s) THEN m.maxProfit ELSE -m.maxLoss
      /\ NetPremium(legs) <= 0 <=> Cashes(SpecsOf(s, k), p) <= 0

\* The metrics of the whole quantity are those of a unit times the quantity.
LEMMA MetricsTruthful ==
  ASSUME NEW s, NEW k, NEW p, Quoted(s, k, p), NEW lots \in Nat \ {0}, NEW size \in Nat \ {0}
  PROVE  Truthful(s, k, p, LegsOf(SpecsOf(s, k), p, lots, size), Metrics(s, k, p, size * lots))
<1> DEFINE sp == SpecsOf(s, k)
           legs == LegsOf(sp, p, lots, size)
           G(x) == Gains(sp, p, x)
           U(x) == Payoff(legs, x)
           gains == {U(x) : x \in Prices}
           loss == Loss(s, k, p)
           profit == Profit(s, k, p)
           cash == Cashes(sp, p)
           b == Breakevens(s, k, Net(s, p))
<1> PICK q \in Nat \ {0} : q = size * lots
  OBVIOUS
<1> DEFINE m == Metrics(s, k, p, q)
<1>1. Honest(s, k, p)
  BY EveryStrategyHonest
<1>2. \A x \in Int : U(x) = G(x) * q /\ NetPremium(legs) = cash * q
  <2> TAKE x \in Int
  <2>1. Priced(Len(sp), sp, p)
    BY UnitOfStrategy
  <2> HIDE DEF sp
  <2>2. lots \in Int /\ size \in Int
    OBVIOUS
  <2> QED BY <2>1, <2>2, LegsScaled
<1>3. /\ m.unlimited = Unlimited(s)
      /\ m.maxLoss = loss * q
      /\ m.maxProfit = IF Unlimited(s) THEN 0 ELSE profit * q
      /\ m.breakevens = b
  BY DEF Metrics, MaxLossAmt, MaxProfitAmt, Loss, Profit
<1>4. MaxStrike \in Nat /\ Prices = 0..MaxStrike + 1
  BY BoundsAssumption DEF Prices
<1>5. loss \in Int /\ profit \in Int /\ cash \in Int /\ \A x \in Prices : x \in Int /\ G(x) \in Int
  BY <1>1, <1>4 DEF Honest
<1>6. /\ Shape(s, k, p) => \E x \in Prices : G(x) = -loss
      /\ ~Wide(s, k) => /\ \A x \in Prices : G(x) >= -loss
                        /\ \E x \in Prices : \A y \in Prices : G(x) <= G(y)
      /\ G(MaxStrike + 1) = G(MaxStrike) + IF Unlimited(s) THEN 1 ELSE 0
      /\ Shape(s, k, p) /\ ~Unlimited(s) =>
           /\ \A x \in Prices : G(x) <= profit
           /\ \E x \in Prices : G(x) = profit
      /\ Shape(s, k, p) =>
           \A i \in 1..Len(b) : /\ b[i] \in Int
                                /\ Inside(s, k, b[i]) /\ (Unlimited(s) \/ profit >= 0) => G(b[i]) = 0
      /\ Shape(s, k, p) => cash = IF Credit(s) THEN profit ELSE -loss
  BY <1>1 DEF Honest
<1>7. Shape(s, k, p) => ~Wide(s, k)
  <2> SUFFICES ASSUME s = "butterfly", Shape(s, k, p), k[3] - k[2] > k[2] - k[1] PROVE FALSE
    BY DEF Wide
  <2>1. k[2] - k[1] = k[3] - k[2]
    BY DEF Shape
  <2>2. k[1] \in Int /\ k[2] \in Int /\ k[3] \in Int
    BY <1>4 DEF Quoted
  <2> QED BY <2>1, <2>2
<1>8. gains \in SUBSET Int /\ \A x \in Prices : U(x) = G(x) * q /\ U(x) \in Int
  <2>1. ASSUME NEW x \in Prices PROVE U(x) = G(x) * q /\ U(x) \in Int
    <3>1. G(x) \in Int /\ x \in Int
      BY <1>5
    <3>2. G(x) * q \in Int
      BY <3>1, Ordering
    <3> QED BY <1>2, <3>1, <3>2
  <2> QED BY <2>1
<1> HIDE DEF sp, legs, G, U, loss, profit, cash, b, m
<1>9. \A x \in Prices : U(x) \in gains
  OBVIOUS
<1>10. \A x, y \in Prices : G(x) <= G(y) => U(x) <= U(y)
  <2> SUFFICES ASSUME NEW x \in Prices, NEW y \in Prices, G(x) <= G(y) PROVE U(x) <= U(y)
    OBVIOUS
  <2>1. G(x) * q <= G(y) * q
    BY <1>5, Ordering
  <2> QED BY <1>8, <2>1
<1>11. ASSUME ~Wide(s, k)
       PROVE  \E x \in Prices : Min(gains) = U(x) /\ \A y \in Prices : U(x) <= U(y)
  <2>1. PICK x \in Prices : \A y \in Prices : G(x) <= G(y)
    BY <1>6, <1>11
  <2>2. \A y \in Prices : U(x) <= U(y)
    BY <1>10, <2>1
  <2>3. U(x) \in gains /\ \A y \in gains : U(x) <= y
    BY <2>2
  <2>4. gains \in SUBSET Int
    BY <1>8
  <2> HIDE DEF gains
  <2>5. Min(gains) = U(x)
    BY <2>3, <2>4, ExtremeIs
  <2> QED BY <2>2, <2>5
<1>12. ASSUME Shape(s, k, p) PROVE m.maxLoss = -Min(gains)
  <2>1. PICK x \in Prices : Min(gains) = U(x) /\ \A y \in Prices : U(x) <= U(y)
    BY <1>7, <1>11, <1>12
  <2>2. PICK y \in Prices : G(y) = -loss
    BY <1>6, <1>12
  <2>3. U(y) = -(loss * q)
    <3>1. (-loss) * q = -(loss * q)
      BY <1>5, Ordering
    <3> QED BY <1>8, <2>2, <3>1
  <2>4. U(x) >= -(loss * q)
    <3>1. -loss <= G(x) /\ -loss \in Int
      BY <1>5, <1>6, <1>7, <1>12
    <3>2. (-loss) * q <= G(x) * q /\ (-loss) * q = -(loss * q)
      BY <1>5, <3>1, Ordering
    <3> QED BY <1>5, <1>8, <3>2, Ordering
  <2>5. U(x) <= U(y) /\ U(x) \in Int /\ loss * q \in Int
    BY <1>5, <1>8, <2>1, Ordering
  <2> HIDE DEF gains
  <2> QED BY <1>3, <2>1, <2>3, <2>4, <2>5
<1>13. ASSUME ~Wide(s, k) PROVE m.maxLoss >= -Min(gains)
  <2>1. PICK x \in Prices : Min(gains) = U(x)
    BY <1>11, <1>13
  <2>2. -loss <= G(x) /\ -loss \in Int
    BY <1>5, <1>6, <1>13
  <2>3. (-loss) * q <= G(x) * q /\ (-loss) * q = -(loss * q)
    BY <1>5, <2>2, Ordering
  <2>4. U(x) = G(x) * q /\ U(x) \in Int /\ loss * q \in Int
    BY <1>5, <1>8, Ordering
  <2> HIDE DEF gains
  <2> QED BY <1>3, <2>1, <2>3, <2>4
<1>14. m.unlimited = (U(MaxStrike + 1) > U(MaxStrike))
  <2>1. /\ MaxStrike \in Prices /\ MaxStrike + 1 \in Prices
    BY <1>4
  <2>2. /\ U(MaxStrike) = G(MaxStrike) * q /\ U(MaxStrike + 1) = G(MaxStrike + 1) * q
        /\ G(MaxStrike) \in Int /\ G(MaxStrike) * q \in Int
    BY <1>5, <1>8, <2>1
  <2>3. CASE Unlimited(s)
    <3>1. G(MaxStrike + 1) = G(MaxStrike) + 1
      BY <1>6, <2>3
    <3>2. (G(MaxStrike) + 1) * q = G(MaxStrike) * q + q
      BY <2>2
    <3>3. U(MaxStrike + 1) > U(MaxStrike)
      BY <2>2, <3>1, <3>2
    <3> QED BY <1>3, <2>3, <3>3
  <2>4. CASE ~Unlimited(s)
    <3>1. G(MaxStrike + 1) = G(MaxStrike)
      BY <1>6, <2>2, <2>4
    <3>2. ~(U(MaxStrike + 1) > U(MaxStrike))
      BY <2>2, <3>1
    <3> QED BY <1>3, <2>4, <3>2 DEF Unlimited
  <2> QED BY <2>3, <2>4
<1>15. ASSUME Shape(s, k, p), ~m.unlimited PROVE m.maxProfit = Max(gains)
  <2>1. ~Unlimited(s)
    BY <1>3, <1>15
  <2>2. PICK x \in Prices : G(x) = profit
    BY <1>6, <1>15, <2>1
  <2>3. \A y \in Prices : G(y) <= G(x)
    BY <1>6, <1>15, <2>1, <2>2
  <2>4. U(x) \in gains /\ \A y \in gains : y <= U(x)
    BY <1>10, <2>3
  <2>5. U(x) = profit * q
    BY <1>8, <2>2
  <2>6. gains \in SUBSET Int
    BY <1>8
  <2> HIDE DEF gains
  <2>7. Max(gains) = U(x)
    BY <2>4, <2>6, ExtremeIs
  <2> QED BY <1>3, <2>1, <2>5, <2>7
<1>16. ASSUME Shape(s, k, p), NEW i \in 1..Len(m.breakevens),
              Inside(s, k, m.breakevens[i]), m.maxProfit >= 0
       PROVE  U(m.breakevens[i]) = 0
  <2>1. m.breakevens[i] = b[i] /\ i \in 1..Len(b)
    BY <1>3, <1>16
  <2>2. Unlimited(s) \/ profit >= 0
    <3>1. CASE ~Unlimited(s)
      <4>1. profit * q >= 0
        BY <1>3, <1>16, <3>1
      <4>2. 0 <= profit <=> 0 * q <= profit * q
        BY <1>5, Ordering
      <4> QED BY <1>5, <4>1, <4>2
    <3> QED BY <3>1
  <2>3. b[i] \in Int /\ G(b[i]) = 0
    BY <1>6, <1>16, <2>1, <2>2
  <2>4. U(b[i]) = 0 * q
    BY <1>2, <2>3
  <2> QED BY <2>1, <2>4
<1>17. NetPremium(legs) = cash * q
  BY <1>2
<1>18. ASSUME Shape(s, k, p) PROVE NetPremium(legs) = IF Credit(s) THEN m.maxProfit ELSE -m.maxLoss
  <2>1. CASE Credit(s)
    <3>1. ~Unlimited(s)
      BY <2>1 DEF Credit, Unlimited
    <3>2. cash = profit
      BY <1>6, <1>18, <2>1
    <3> QED BY <1>3, <1>17, <2>1, <3>1, <3>2
  <2>2. CASE ~Credit(s)
    <3>1. cash = -loss
      BY <1>6, <1>18, <2>2
    <3>2. (-loss) * q = -(loss * q)
      BY <1>5, Ordering
    <3> QED BY <1>3, <1>17, <2>2, <3>1, <3>2
  <2> QED BY <2>1, <2>2
<1>19. NetPremium(legs) <= 0 <=> cash <= 0
  <2>1. cash <= 0 <=> cash * q <= 0 * q
    BY <1>5, Ordering
  <2> QED BY <1>17, <2>1
<1>20. Truthful(s, k, p, legs, m)
  BY <1>12, <1>13, <1>14, <1>15, <1>16, <1>18, <1>19 DEF Truthful, U, cash, sp
<1> QED BY <1>20 DEF legs, m, sp

\* A strategy that was accepted, sizes that were settled, legs that were priced.
Accepted == cmd \in Commands /\ Acceptable(cmd) /\ specs = SpecsOf(cmd.strategy, cmd.strike)
Sized    == resp.lots \in Nat \ {0} /\ resp.lotSize \in Nat \ {0}
Legged   == \E p : /\ Quoted(cmd.strategy, cmd.strike, p)
                   /\ resp.legs = LegsOf(specs, p, resp.lots, resp.lotSize)

\* What each stage of a strategy can rely on.
StrategyInv ==
  /\ stage \in {"validate", "resolve", "quote", "metrics", "built", "error"}
  /\ stage = "validate" => cmd \in Commands
  /\ stage \in {"resolve", "quote", "metrics"} => Accepted
  /\ stage = "quote" => resp = [legs |-> <<>>, lots |-> resp.lots, lotSize |-> resp.lotSize]
  /\ stage \in {"quote", "metrics"} => Sized
  /\ stage = "metrics" => Legged
  /\ MetricsMatchPayoff
  /\ LossNeverUnderstated

LEMMA StrategyInvInit ==
  ASSUME NEW asked \in BOOLEAN, StrategyInit(asked)
  PROVE  StrategyInv
BY DEF StrategyInit, StrategyInv, MetricsMatchPayoff, LossNeverUnderstated

LEMMA StrategyStutters ==
  ASSUME StrategyInv, UNCHANGED strategyVars
  PROVE  StrategyInv'
BY DEF StrategyInv, strategyVars, Accepted, Sized, Legged, MetricsMatchPayoff, LossNeverUnderstated,
       Regular, Payoffs, Rising, Between

\* A command as its fields.
LEMMA CommandFields ==
  ASSUME NEW c \in Commands
  PROVE  /\ c.strategy \in Strategies /\ c.strike \in [1..4 -> 0..MaxStrike]
         /\ c.lots \in Int /\ c.lotSize \in Int
BY BoundsAssumption DEF Commands

LEMMA ResolveKeeps ==
  ASSUME StrategyInv, Resolve
  PROVE  StrategyInv'
<1>1. Accepted /\ cmd \in Commands
  BY DEF StrategyInv, Resolve, Accepted
<1>2. CASE Fail
  BY <1>2 DEF Fail, StrategyInv, MetricsMatchPayoff, LossNeverUnderstated
<1>3. CASE ~Fail
  <2>1. PICK size \in LotSizes : /\ resp' = [legs |-> <<>>, lots |-> Lots, lotSize |-> size]
                                 /\ stage' = "quote"
                                 /\ UNCHANGED <<cmd, specs>>
    BY <1>3 DEF Resolve
  <2>2. Lots \in Nat \ {0}
    BY <1>1, CommandFields DEF Lots
  <2>3. size \in Nat \ {0}
    BY <1>1, <2>1, CommandFields, BoundsAssumption DEF LotSizes
  <2>4. /\ resp'.lots = Lots /\ resp'.lotSize = size
        /\ resp' = [legs |-> <<>>, lots |-> resp'.lots, lotSize |-> resp'.lotSize]
    BY <2>1
  <2>5. Sized'
    BY <2>2, <2>3, <2>4 DEF Sized
  <2>6. Accepted'
    BY <1>1, <2>1 DEF Accepted
  <2>7. /\ resp' = [legs |-> <<>>, lots |-> resp'.lots, lotSize |-> resp'.lotSize]
        /\ stage' = "quote"
    BY <2>1, <2>4
  <2> QED BY <2>5, <2>6, <2>7 DEF StrategyInv, MetricsMatchPayoff, LossNeverUnderstated
<1> QED BY <1>2, <1>3

LEMMA QuoteKeeps ==
  ASSUME StrategyInv, Quote
  PROVE  StrategyInv'
<1>1. /\ Accepted /\ Sized
      /\ resp = [legs |-> <<>>, lots |-> resp.lots, lotSize |-> resp.lotSize]
  BY DEF StrategyInv, Quote
<1>2. CASE Fail
  BY <1>2 DEF Fail, StrategyInv, MetricsMatchPayoff, LossNeverUnderstated
<1>3. CASE ~Fail
  <2>1. PICK price \in [1..Len(specs) -> 0..MaxPremium] :
          /\ resp' = [resp EXCEPT !.legs =
               [i \in 1..Len(specs) |-> LegOf(i, price[i], resp.lots, resp.lotSize)]]
          /\ stage' = "metrics"
          /\ UNCHANGED <<cmd, specs>>
    BY <1>3 DEF Quote
  <2>2. [i \in 1..Len(specs) |-> LegOf(i, price[i], resp.lots, resp.lotSize)]
          = LegsOf(specs, price, resp.lots, resp.lotSize)
    BY DEF LegOf, LegsOf, OneLeg
  <2>3. /\ resp'.legs = LegsOf(specs, price, resp.lots, resp.lotSize)
        /\ resp'.lots = resp.lots /\ resp'.lotSize = resp.lotSize
    BY <1>1, <2>1, <2>2
  <2>4. Quoted(cmd.strategy, cmd.strike, price)
    <3>1. price \in [1..Len(SpecsOf(cmd.strategy, cmd.strike)) -> Nat]
      BY <1>1, <2>1, BoundsAssumption DEF Accepted
    <3> QED BY <1>1, <3>1, CommandFields DEF Accepted, Acceptable, Quoted
  <2>5. Legged'
    BY <2>1, <2>3, <2>4 DEF Legged
  <2>6. Accepted' /\ Sized'
    BY <1>1, <2>1, <2>3 DEF Accepted, Sized
  <2>7. stage' = "metrics"
    BY <2>1
  <2> QED BY <2>5, <2>6, <2>7 DEF StrategyInv, MetricsMatchPayoff, LossNeverUnderstated
<1> QED BY <1>2, <1>3

\* The response that is built has the truth about its legs in it.
LEMMA BuildKeeps ==
  ASSUME StrategyInv, Build
  PROVE  StrategyInv'
<1> PICK s, k : s = cmd.strategy /\ k = cmd.strike
  OBVIOUS
<1> DEFINE sp == SpecsOf(s, k)
           lots == resp.lots
           size == resp.lotSize
           legs == resp.legs
<1>1. /\ Accepted /\ Sized /\ Legged
  BY DEF StrategyInv, Build
<1>2. PICK p : Quoted(s, k, p) /\ legs = LegsOf(sp, p, lots, size)
  BY <1>1 DEF Legged, Accepted
<1> PICK m : m = Metrics(s, k, p, size * lots)
  OBVIOUS
<1>3. lots \in Nat \ {0} /\ size \in Nat \ {0} /\ lots \in Int /\ size \in Int
  BY <1>1 DEF Sized
<1>4. [i \in 1..Len(legs) |-> legs[i].premium] = p
  <2>1. Priced(Len(sp), sp, p)
    BY <1>2, 0 \in Int, UnitOfStrategy
  <2> HIDE DEF sp
  <2>2. /\ Len(LegsOf(sp, p, lots, size)) = Len(sp)
        /\ \A i \in 1..Len(sp) : Scaled(LegsOf(sp, p, lots, size)[i], sp[i], p[i], size * lots, 0)
    BY <1>3, <2>1, 0 \in Int, LegAt
  <2>3. Len(legs) = Len(sp) /\ \A i \in 1..Len(sp) : legs[i].premium = p[i]
    BY <1>2, <2>2 DEF Scaled
  <2>4. p = [i \in 1..Len(sp) |-> p[i]]
    BY <2>1 DEF Priced
  <2> QED BY <2>3, <2>4
<1>5. /\ resp' = [legs |-> legs, lots |-> lots, lotSize |-> size, netPremium |-> NetPremium(legs),
                  metrics |-> Metrics(s, k, p, size * lots)]
      /\ stage' = "built" /\ cmd' = cmd
  BY <1>4 DEF Build, Response
<1>6. /\ resp'.metrics = m
      /\ resp'.legs = legs /\ resp'.netPremium = NetPremium(legs)
      /\ cmd'.strategy = s /\ cmd'.strike = k
  BY <1>5
<1>7. Truthful(s, k, p, legs, m)
  BY <1>2, <1>3, MetricsTruthful
<1> PICK gains : gains = {Payoff(legs, x) : x \in Prices}
  OBVIOUS
<1>8. /\ Payoffs' = gains
      /\ Rising' = (Payoff(legs, MaxStrike + 1) > Payoff(legs, MaxStrike))
  BY <1>6 DEF Payoffs, Rising
<1>9. Regular' => Shape(s, k, p)
  <2>1. NetPremium(legs) <= 0 <=> Cashes(sp, p) <= 0
    BY <1>7 DEF Truthful
  <2> QED BY <1>6, <2>1 DEF Regular, Shape
<1>10. \A x : Between(x)' => Inside(s, k, x)
  BY <1>6 DEF Between, Inside
<1> HIDE DEF legs, sp, lots, size
<1>11. ASSUME Regular'
       PROVE  /\ m.maxLoss = -Min(gains)
              /\ m.unlimited = Rising'
              /\ ~m.unlimited => m.maxProfit = Max(gains)
              /\ \A i \in 1..Len(m.breakevens) :
                   Between(m.breakevens[i])' /\ m.maxProfit >= 0 => Payoff(legs, m.breakevens[i]) = 0
              /\ NetPremium(legs) = IF Credit(s) THEN m.maxProfit ELSE -m.maxLoss
  <2>1. Shape(s, k, p)
    BY <1>9, <1>11
  <2> QED BY <1>7, <1>8, <1>10, <2>1 DEF Truthful
<1>12. MetricsMatchPayoff'
  BY <1>6, <1>8, <1>11 DEF MetricsMatchPayoff
<1>13. LossNeverUnderstated'
  <2>1. ~Wide(s, k) => m.maxLoss >= -Min(gains)
    BY <1>7 DEF Truthful
  <2> QED BY <1>6, <1>8, <2>1 DEF LossNeverUnderstated, Wide
<1> QED BY <1>5, <1>12, <1>13 DEF StrategyInv

LEMMA StrategyInvNext ==
  ASSUME StrategyInv, StrategyNext
  PROVE  StrategyInv'
<1>1. CASE Validate
  BY <1>1 DEF Validate, Fail, StrategyInv, Accepted, MetricsMatchPayoff, LossNeverUnderstated
<1> QED BY <1>1, ResolveKeeps, QuoteKeeps, BuildKeeps DEF StrategyNext

-----------------------------------------------------------------------------
(* The request as a whole: one of the three parts is at work, and the      *)
(* others keep what they hold.                                             *)

QueriesInv == StrategyInv /\ SnapshotInv /\ PagingInv

LEMMA PagingInvInit ==
  ASSUME NEW asked \in BOOLEAN, PagingInit(asked)
  PROVE  PagingInv
BY PagingAssumption DEF PagingInit, PagingInv, PageIsSlice

LEMMA PagingStutters ==
  ASSUME PagingInv, UNCHANGED pagingVars
  PROVE  PagingInv'
<1>1. page' = page /\ listing' = listing /\ rows' = rows
  BY DEF pagingVars
<1>2. PageIsSlice'
  BY <1>1 DEF PagingInv, PageIsSlice
<1> QED BY <1>1, <1>2 DEF PagingInv

LEMMA QueriesInvInit ==
  Init => QueriesInv
<1> SUFFICES ASSUME Init PROVE QueriesInv
  OBVIOUS
<1>1. PICK part \in {"strategy", "snapshot", "page"} :
        /\ StrategyInit(part = "strategy")
        /\ SnapshotInit(part = "snapshot")
        /\ PagingInit(part = "page")
  BY DEF Init
<1>2. (part = "strategy") \in BOOLEAN /\ (part = "snapshot") \in BOOLEAN /\ (part = "page") \in BOOLEAN
  OBVIOUS
<1> QED BY <1>1, <1>2, StrategyInvInit, SnapshotInvInit, PagingInvInit DEF QueriesInv

LEMMA QueriesInvNext ==
  QueriesInv /\ [Next]_queryVars => QueriesInv'
<1> SUFFICES ASSUME QueriesInv, [Next]_queryVars PROVE QueriesInv'
  OBVIOUS
<1>1. StrategyInv /\ SnapshotInv /\ PagingInv
  BY DEF QueriesInv
<1>2. CASE StrategyNext /\ UNCHANGED <<snapshotVars, pagingVars>>
  BY <1>1, <1>2, StrategyInvNext, SnapshotStutters, PagingStutters DEF QueriesInv
<1>3. CASE SnapshotNext /\ UNCHANGED <<strategyVars, pagingVars>>
  BY <1>1, <1>3, SnapshotInvNext, StrategyStutters, PagingStutters DEF QueriesInv
<1>4. CASE PagingNext /\ UNCHANGED <<strategyVars, snapshotVars>>
  <2>1. PageIsSlice' /\ UNCHANGED <<listing, rows>>
    BY <1>1, <1>4, ListInv DEF PagingNext, List
  <2>2. PagingInv'
    BY <1>1, <2>1 DEF PagingInv
  <2> QED BY <1>1, <1>4, <2>2, StrategyStutters, SnapshotStutters DEF QueriesInv
<1>5. CASE UNCHANGED queryVars
  BY <1>1, <1>5, StrategyStutters, SnapshotStutters, PagingStutters DEF queryVars, QueriesInv
<1> QED BY <1>2, <1>3, <1>4, <1>5 DEF Next

\* The inductive invariant of the read side.
THEOREM QueriesInvHolds == Spec => []QueriesInv
BY QueriesInvInit, QueriesInvNext, PTL DEF Spec

\* Every page is the slice asked for, or the panic of a sum that wraps around, for
\* every size of an int and of the listing (admin_usecases.go:102-121).
THEOREM PageIsSliceHolds == Spec => []PageIsSlice
<1>1. QueriesInv => PageIsSlice
  BY DEF QueriesInv, PagingInv
<1> QED BY <1>1, QueriesInvHolds, PTL

\* Of all nine queries, whatever order the sources answer and fail in: an answer
\* holds of every section what its own source said, or its error as the query
\* treats it, and a query that fails names the first failing section of the code
\* (context_usecases.go, pretrade_usecases.go, widget_usecases.go, data_export_usecases.go).
THEOREM AnswerCompleteHolds == Spec => []AnswerComplete
<1>1. QueriesInv => AnswerComplete
  BY DEF QueriesInv, SnapshotInv
<1> QED BY <1>1, QueriesInvHolds, PTL

\* For every strike, premium and number of lots, a regular strategy's maximum
\* profit, maximum loss, breakevens and opening cash are those of the payoff of
\* its legs (options_strategy.go: applyStrategyMetrics against buildLegSpecs).
THEOREM MetricsMatchPayoffHolds == Spec => []MetricsMatchPayoff
<1>1. QueriesInv => MetricsMatchPayoff
  BY DEF QueriesInv, StrategyInv
<1> QED BY <1>1, QueriesInvHolds, PTL

\* The maximum loss shown is at least what the legs can lose, irregular shapes
\* included, but for the butterfly whose upper wing is the wider one.
THEOREM LossNeverUnderstatedHolds == Spec => []LossNeverUnderstated
<1>1. QueriesInv => LossNeverUnderstated
  BY DEF QueriesInv, StrategyInv
<1> QED BY <1>1, QueriesInvHolds, PTL

=============================================================================
