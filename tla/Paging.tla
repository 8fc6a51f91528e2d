-------------------------------- MODULE Paging --------------------------------
(***************************************************************************)
(* The listings an administrator pages through: AdminListUsers             *)
(* (admin_usecases.go) and AdminListFamily (family_usecases.go).  Both     *)
(* clamp from and limit and take entries[from:end]; they differ in their   *)
(* default limit.  Go's int wraps around; MaxInt stands for its maximum.   *)
(***************************************************************************)
EXTENDS Integers, Sequences, FiniteSetsExt

CONSTANTS
  MaxInt,       \* the largest int
  MaxListed,    \* bound: this many rows in the store at most
  Froms,        \* what a caller may ask for as from
  Limits        \* what a caller may ask for as limit

ASSUME PagingAssumption ==
  MaxInt \in Nat /\ MaxInt > 500 /\ MaxListed \in 0..MaxInt
    /\ Froms \cup Limits \subseteq -MaxInt..MaxInt

Wrap(n) == IF n > MaxInt THEN n - 2 * (MaxInt + 1) ELSE n

VARIABLES
  listing,  \* [of, from, limit], of = "users", "family" or "none"
  rows,     \* how many rows there are
  page      \* what came of it: nothing yet, a panic, or rows from first on

pagingVars == <<listing, rows, page>>

NoListing == [of |-> "none"]
NoPage    == [is |-> "none", first |-> 0, count |-> 0]
Panic     == [is |-> "panic", first |-> 0, count |-> 0]

\* With a listing asked for, or with none.
PagingInit(asked) ==
  /\ listing \in IF asked THEN [of : {"users", "family"}, from : Froms, limit : Limits]
                 ELSE {NoListing}
  /\ rows \in IF asked THEN 0..MaxListed ELSE {0}
  /\ page = NoPage

DefaultLimit(of) == IF of = "users" THEN 100 ELSE 50

\* Broken variant: the limit has no upper bound.
ClampedBelow(of, limit) == IF limit <= 0 THEN DefaultLimit(of) ELSE limit

Clamped(of, limit) == IF limit <= 0 \/ limit > 500 THEN DefaultLimit(of) ELSE limit

\* entries[from:end]: Go panics unless 0 <= from <= end <= length.
Slice(from, end, n) ==
  IF 0 <= from /\ from <= end /\ end <= n
  THEN [is |-> "rows", first |-> from, count |-> end - from] ELSE Panic

\* end is computed before from is brought down to the length.
PageOf(from, limit, n) ==
  LET end == Wrap(from + limit)
  IN  Slice(Min({from, n}), Min({end, n}), n)

List ==
  /\ listing # NoListing
  /\ page = NoPage
  /\ page' = PageOf(Max({listing.from, 0}), Clamped(listing.of, listing.limit), rows)
  /\ UNCHANGED <<listing, rows>>

PagingNext == List

-----------------------------------------------------------------------------
\* What skipping from rows of n and taking up to limit of the rest would give.
IsSlice(p, from, limit, n) ==
  LET taken == {i \in 0..n - 1 : from <= i /\ i - from < limit}
  IN  /\ p # Panic
      /\ p.count = Cardinality(taken)
      /\ taken # {} => p.first = Min(taken)

\* The rows a listing returns are what skipping and then taking would give:
\* at most 500 of them, never one before from and none left out below the
\* limit; a from beyond the end, or a negative one, is no error.  The one
\* thing that breaks it is a from so large that from + limit wraps around:
\* end is then negative and is never compared with zero, and the slice panics.
PageIsSlice ==
  page # NoPage =>
    LET from  == Max({listing.from, 0})
        limit == IF listing.limit \in 1..500 THEN listing.limit ELSE DefaultLimit(listing.of)
    IN  IF from > MaxInt - limit THEN page = Panic ELSE IsSlice(page, from, limit, rows)

=============================================================================
