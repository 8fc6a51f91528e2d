------------------------------ MODULE Streams ------------------------------
(***************************************************************************)
(* Alerts, watchlists, credentials and the Telegram chat of one user: each *)
(* use case writes a store, tells subscribers, and appends a row to the    *)
(* thing's audit stream, in an order of its own.  The stores lock each     *)
(* operation and nothing spans two.  Dispatcher and event store are        *)
(* presumed wired.                                                         *)
(***************************************************************************)
EXTENDS Naturals, Sequences, FiniteSetsExt

CONSTANTS
  Calls,     \* invocations, each by its own goroutine
  Kinds,     \* the use cases in play
  Args,      \* watchlist names and chat ids
  NoCall

Cells  == {"credential", "chat"}   \* what a user has one of
Things == Calls \cup Cells         \* an alert or a list goes by the call that made it

\* What the model relies on in its constants.
ASSUME StreamsAssumption ==
  /\ IsFiniteSet(Calls)
  /\ NoCall \notin Calls
  /\ Calls \cap Cells = {}

VARIABLES
  done,      \* the stages a call has behind it
  kind, on, arg,  \* what it is, the thing it works on, its name or chat id
  prior,     \* the entry it saw before its write
  seq,       \* the number NextSequence gave it
  direct,    \* creates the outbox refused, which append directly
  alive,     \* the alerts and lists in their stores
  cell,      \* the call whose entry each cell holds
  token,     \* the login whose access token is cached
  outbox, log,  \* rows staged, and in domain_events
  heard,     \* what subscribers were told, in order
  before,    \* history: the calls that had returned when a call began
  replaced,  \* history: the entry a call's write replaced
  lost       \* history: calls whose row no store accepted

callVars  == <<done, kind, on, arg, prior, seq, direct>>
storeVars == <<alive, cell, token>>
rowVars   == <<outbox, log>>
history   == <<before, replaced, lost>>
vars      == <<callVars, storeVars, rowVars, heard, history>>

-----------------------------------------------------------------------------
(* The use cases: their stages, in order.                                  *)

CreateAlert     == <<"write", "dispatch", "sequence", "append">>
CreateComposite == <<"write", "sequence", "append">>
DeleteAlert     == <<"write", "dispatch", "sequence", "append">>
CreateWatchlist == <<"look", "write", "sequence", "append", "dispatch">>
DeleteWatchlist == <<"write", "sequence", "append", "dispatch">>
ChangeWatchlist == <<"write", "sequence", "append", "dispatch">>
RevokeCredentials == <<"write", "token", "sequence", "append">>
DeleteAccount   == <<"write", "sequence", "append", "token", "alerts", "lists">>
InvalidateToken == <<"token">>
SetupTelegram   == <<"look", "write", "dispatch">>
Login           == <<"look", "write">>
LoginOwnKeys    == <<"look", "write", "store">>  \* the user brings the keys along

\* Broken variant: the cached token of the old key stays.
UpdateCredentialsOnly == <<"look", "write", "sequence", "append">>
UpdateCredentials     == <<"look", "write", "token", "sequence", "append">>

Stages == [createAlert |-> CreateAlert, createComposite |-> CreateComposite,
           deleteAlert |-> DeleteAlert, createList |-> CreateWatchlist,
           deleteList |-> DeleteWatchlist, changeList |-> ChangeWatchlist,
           update |-> UpdateCredentials, revoke |-> RevokeCredentials,
           deleteAccount |-> DeleteAccount, invalidate |-> InvalidateToken,
           setChat |-> SetupTelegram, login |-> Login, loginOwn |-> LoginOwnKeys]

\* The use cases in play are among these.
ASSUME KindsAssumption == Kinds \subseteq DOMAIN Stages

Creates == {"createAlert", "createComposite", "createList"}
Sets    == {"update", "setChat"}
Clears  == {"revoke", "deleteAccount"}
Logins  == {"login", "loginOwn"}
Alerts  == {"createAlert", "createComposite"}  \* the alert store; the other has the lists

\* What a call may work on: a create makes its own, the others name one that a
\* matching create makes or made.
Targets(c, k) ==
  CASE k \in Creates      -> {c}
    [] k = "deleteAlert"  -> {d \in Calls : kind[d] \in Alerts}
    [] k \in {"deleteList", "changeList"} -> {d \in Calls : kind[d] = "createList"}
    [] k = "setChat"      -> {"chat"}
    [] OTHER              -> {"credential"}

Began(c)     == kind[c] # "none"
Running(c)   == Began(c) /\ done[c] < Len(Stages[kind[c]])
Returned     == {c \in Calls : Began(c) /\ ~Running(c)}
At(c, stage) == Running(c) /\ Stages[kind[c]][done[c] + 1] = stage
Advance(c)   == done' = [done EXCEPT ![c] = @ + 1]
Return(c)    == done' = [done EXCEPT ![c] = Len(Stages[kind[c]])]

\* The StoredEvent a call appends.
RowType(c) ==
  CASE kind[c] \in Creates -> "created"
    [] kind[c] \in {"deleteAlert", "deleteList"} -> "deleted"
    [] kind[c] = "changeList" -> "changed"
    [] kind[c] \in Clears -> "revoked"
    [] OTHER -> IF prior[c] = NoCall THEN "registered" ELSE "rotated"

Row(c) == [of |-> c, seq |-> seq[c], type |-> RowType(c)]

-----------------------------------------------------------------------------
Init ==
  /\ done = [c \in Calls |-> 0]
  /\ kind = [c \in Calls |-> "none"]
  /\ on = [c \in Calls |-> NoCall]
  /\ arg \in [Calls -> Args]
  /\ prior = [c \in Calls |-> NoCall]
  /\ seq = [c \in Calls |-> 0]
  /\ direct = {}
  /\ alive = {}
  /\ cell = [x \in Cells |-> NoCall]
  /\ token = NoCall
  /\ outbox = {}
  /\ log = {}
  /\ heard = <<>>
  /\ before = [c \in Calls |-> {}]
  /\ replaced = [c \in Calls |-> NoCall]
  /\ lost = {}

\* A command passes validation, which reads nothing but the command; one that
\* does not has no effect at all.
Begin(c, k, t) ==
  /\ ~Began(c)
  /\ t \in Targets(c, k)
  /\ kind' = [kind EXCEPT ![c] = k]
  /\ on' = [on EXCEPT ![c] = t]
  /\ before' = [before EXCEPT ![c] = Returned]
  /\ UNCHANGED <<done, arg, prior, seq, direct, storeVars, rowVars, heard, replaced, lost>>

-----------------------------------------------------------------------------
(* What a call reads before it writes.                                     *)

\* Broken variant: the duplicate check is gone.
FindNothing(c) ==
  /\ At(c, "look") /\ kind[c] = "createList"
  /\ Advance(c)
  /\ UNCHANGED <<kind, on, arg, prior, seq, direct, storeVars, rowVars, heard, history>>

\* FindWatchlistByName: a list of that name ends the call.
FindByName(c) ==
  /\ At(c, "look") /\ kind[c] = "createList"
  /\ IF \E d \in alive : kind[d] = "createList" /\ arg[d] = arg[c]
     THEN Return(c) ELSE Advance(c)
  /\ UNCHANGED <<kind, on, arg, prior, seq, direct, storeVars, rowVars, heard, history>>

\* Broken variant: the snapshot is taken by nobody.
SnapshotNothing(c) ==
  /\ At(c, "look") /\ kind[c] \in Sets
  /\ Advance(c)
  /\ UNCHANGED <<kind, on, arg, prior, seq, direct, storeVars, rowVars, heard, history>>

\* Has, GetTelegramChatID: the entry before the write.
Snapshot(c) ==
  /\ At(c, "look") /\ kind[c] \in Sets
  /\ prior' = [prior EXCEPT ![c] = cell[on[c]]]
  /\ Advance(c)
  /\ UNCHANGED <<kind, on, arg, seq, direct, storeVars, rowVars, heard, history>>

\* A login goes out to the broker with the API key of the moment, or its own.
ReadKey(c) ==
  /\ At(c, "look") /\ kind[c] \in Logins
  /\ \/ kind[c] = "loginOwn" /\ prior' = [prior EXCEPT ![c] = c]
     \/ /\ kind[c] = "login" /\ cell["credential"] # NoCall
        /\ prior' = [prior EXCEPT ![c] = cell["credential"]]
  /\ Advance(c)
  /\ UNCHANGED <<kind, on, arg, seq, direct, storeVars, rowVars, heard, history>>

-----------------------------------------------------------------------------
(* Writes.                                                                 *)

\* Add, AddWithReferencePrice, AddComposite, CreateWatchlist.
Insert(c) ==
  /\ At(c, "write") /\ kind[c] \in Creates
  /\ alive' = alive \cup {c}
  /\ Advance(c)
  /\ UNCHANGED <<kind, on, arg, prior, seq, direct, cell, token, rowVars, heard, history>>

\* Delete, DeleteWatchlist.
Remove(c) ==
  /\ At(c, "write") /\ kind[c] \in {"deleteAlert", "deleteList"}
  /\ on[c] \in alive
  /\ alive' = alive \ {on[c]}
  /\ Advance(c)
  /\ UNCHANGED <<kind, on, arg, prior, seq, direct, cell, token, rowVars, heard, history>>

\* AddItem, RemoveItem.
Change(c) ==
  /\ At(c, "write") /\ kind[c] = "changeList"
  /\ on[c] \in alive
  /\ Advance(c)
  /\ UNCHANGED <<kind, on, arg, prior, seq, direct, storeVars, rowVars, heard, history>>

\* Broken variant: the error is logged, and the call goes on.
WriteFailsOn(c) ==
  /\ At(c, "write")
  /\ kind[c] \in Creates \cup {"deleteAlert", "deleteList", "changeList"}
  /\ Advance(c)
  /\ UNCHANGED <<kind, on, arg, prior, seq, direct, storeVars, rowVars, heard, history>>

\* The store answers with an error, and the call ends.
WriteFails(c) ==
  /\ At(c, "write")
  /\ kind[c] \in Creates \cup {"deleteAlert", "deleteList", "changeList"}
  /\ Return(c)
  /\ UNCHANGED <<kind, on, arg, prior, seq, direct, storeVars, rowVars, heard, history>>

\* Set, SetTelegramChatID.
SetCell(c) ==
  /\ At(c, "write") /\ kind[c] \in Sets
  /\ replaced' = [replaced EXCEPT ![c] = cell[on[c]]]
  /\ cell' = [cell EXCEPT ![on[c]] = c]
  /\ Advance(c)
  /\ UNCHANGED <<kind, on, arg, prior, seq, direct, alive, token, rowVars, heard, before, lost>>

\* CredentialStore.Delete, whether or not there is an entry.
ClearCell(c) ==
  /\ At(c, "write") /\ kind[c] \in Clears
  /\ cell' = [cell EXCEPT !["credential"] = NoCall]
  /\ Advance(c)
  /\ UNCHANGED <<kind, on, arg, prior, seq, direct, alive, token, rowVars, heard, history>>

\* CacheKiteAccessToken, at the end of a login.
CacheToken(c) ==
  /\ At(c, "write") /\ kind[c] \in Logins
  /\ token' = c
  /\ Advance(c)
  /\ UNCHANGED <<kind, on, arg, prior, seq, direct, alive, cell, rowVars, heard, history>>

\* StoreUserKiteCredentials: a credential write no audit stream hears of.
StoreKeys(c) ==
  /\ At(c, "store")
  /\ cell' = [cell EXCEPT !["credential"] = c]
  /\ Advance(c)
  /\ UNCHANGED <<kind, on, arg, prior, seq, direct, alive, token, rowVars, heard, history>>

\* The two DeleteByEmail of an account deletion, which write no row either.
SweepAlerts(c) ==
  /\ At(c, "alerts")
  /\ alive' = {d \in alive : kind[d] \notin Alerts}
  /\ Advance(c)
  /\ UNCHANGED <<kind, on, arg, prior, seq, direct, cell, token, rowVars, heard, history>>

SweepLists(c) ==
  /\ At(c, "lists")
  /\ alive' = {d \in alive : kind[d] \in Alerts}
  /\ Advance(c)
  /\ UNCHANGED <<kind, on, arg, prior, seq, direct, cell, token, rowVars, heard, history>>

\* TokenStore.Delete.
DropToken(c) ==
  /\ At(c, "token")
  /\ token' = NoCall
  /\ Advance(c)
  /\ UNCHANGED <<kind, on, arg, prior, seq, direct, alive, cell, rowVars, heard, history>>

-----------------------------------------------------------------------------
(* What subscribers and the audit stream are told.                         *)

\* Binding the chat that is already bound is silent.
Silent(c) == kind[c] = "setChat" /\ prior[c] # NoCall /\ arg[prior[c]] = arg[c]

Dispatch(c) ==
  /\ At(c, "dispatch")
  /\ heard' = IF Silent(c) THEN heard ELSE Append(heard, c)
  /\ Advance(c)
  /\ UNCHANGED <<kind, on, arg, prior, seq, direct, storeVars, rowVars, history>>

RowsOn(t, rows) == {r \in rows : on[r.of] = t}

\* Broken variant: the rows still staged in the outbox are not counted.
NextSequenceOfDrained(t) == Cardinality(RowsOn(t, log)) + 1

\* The first number above every row of the thing, staged ones included.
NextSequence(t) == Max({0} \cup {r.seq : r \in RowsOn(t, outbox \cup log)}) + 1

AskSequence(c) ==
  /\ At(c, "sequence")
  /\ seq' = [seq EXCEPT ![c] = NextSequence(on[c])]
  /\ Advance(c)
  /\ UNCHANGED <<kind, on, arg, prior, direct, storeVars, rowVars, heard, history>>

\* Broken variant: the error is logged, and the row appended all the same.
SequenceFailsOn(c) ==
  /\ At(c, "sequence")
  /\ Advance(c)
  /\ lost' = lost \cup {c}
  /\ UNCHANGED <<kind, on, arg, prior, seq, direct, storeVars, rowVars, heard, before, replaced>>

\* NextSequence fails: logged, swallowed, and no row.
SequenceFails(c) ==
  /\ At(c, "sequence")
  /\ done' = [done EXCEPT ![c] = @ + 2]
  /\ lost' = lost \cup {c}
  /\ UNCHANGED <<kind, on, arg, prior, seq, direct, storeVars, rowVars, heard, before, replaced>>

\* create_alert is a hot path: its row is staged in the outbox.
AppendToOutbox(c) ==
  /\ At(c, "append") /\ kind[c] = "createAlert" /\ c \notin direct
  /\ outbox' = outbox \cup {Row(c)}
  /\ Advance(c)
  /\ UNCHANGED <<kind, on, arg, prior, seq, direct, storeVars, log, heard, history>>

\* Broken variant: without the direct path behind it.
OutboxFailsForGood(c) ==
  /\ At(c, "append") /\ kind[c] = "createAlert" /\ c \notin direct
  /\ Advance(c)
  /\ UNCHANGED <<kind, on, arg, prior, seq, direct, storeVars, rowVars, heard, history>>

OutboxFails(c) ==
  /\ At(c, "append") /\ kind[c] = "createAlert" /\ c \notin direct
  /\ direct' = direct \cup {c}
  /\ UNCHANGED <<done, kind, on, arg, prior, seq, storeVars, rowVars, heard, history>>

\* Everything else goes to domain_events at once.
Direct(c) == At(c, "append") /\ (kind[c] = "createAlert" => c \in direct)

AppendRow(c) ==
  /\ Direct(c)
  /\ log' = log \cup {Row(c)}
  /\ Advance(c)
  /\ UNCHANGED <<kind, on, arg, prior, seq, direct, storeVars, outbox, heard, history>>

AppendFails(c) ==
  /\ Direct(c)
  /\ lost' = lost \cup {c}
  /\ Advance(c)
  /\ UNCHANGED <<kind, on, arg, prior, seq, direct, storeVars, rowVars, heard, before, replaced>>

\* The async pump moves a staged row into domain_events.
Pump(r) ==
  /\ r \in outbox
  /\ outbox' = outbox \ {r}
  /\ log' = log \cup {r}
  /\ UNCHANGED <<callVars, storeVars, heard, history>>

-----------------------------------------------------------------------------
CallStep(c) ==
  \/ \E k \in Kinds, t \in Things : Begin(c, k, t)
  \/ FindByName(c) \/ Snapshot(c) \/ ReadKey(c)
  \/ Insert(c) \/ Remove(c) \/ Change(c) \/ WriteFails(c)
  \/ SetCell(c) \/ ClearCell(c) \/ CacheToken(c) \/ DropToken(c)
  \/ StoreKeys(c) \/ SweepAlerts(c) \/ SweepLists(c)
  \/ Dispatch(c) \/ AskSequence(c) \/ SequenceFails(c)
  \/ AppendToOutbox(c) \/ OutboxFails(c) \/ AppendRow(c) \/ AppendFails(c)

Next ==
  \/ \E c \in Calls : CallStep(c)
  \/ \E r \in outbox : Pump(r)

Spec == Init /\ [][Next]_vars

-----------------------------------------------------------------------------
\* Two calls ran at the same time, for a while.
Overlap(c, d) == /\ c # d /\ Began(c) /\ Began(d)
                 /\ c \notin before[d] /\ d \notin before[c]

CallsOn(t) == {c \in Calls : Began(c) /\ on[c] = t}
Serial(t)  == \A c, d \in CallsOn(t) : ~Overlap(c, d)
Quiet(t)   == \A c \in CallsOn(t) : ~Running(c)

\* Does its store have the thing?
Stored(t) == IF t \in Cells THEN cell[t] # NoCall ELSE t \in alive

Gone == {"deleted", "revoked"}

\* Nobody wrote the thing's store behind the back of its stream: a login with
\* keys of its own does, and so does an account deletion to alerts and lists.
OpenlyKept(t) ==
  /\ t = "credential" => \A d \in CallsOn(t) : kind[d] # "loginOwn"
  /\ t \in Calls => \A d \in Calls : kind[d] = "deleteAccount" => d \in before[t]

\* What a reader who replays the stream believes.
Replayed(t) ==
  \E r \in RowsOn(t, outbox \cup log) :
    /\ r.type \notin Gone
    /\ \A s \in RowsOn(t, outbox \cup log) : s.seq <= r.seq

TypeOK ==
  /\ done \in [Calls -> 0..6]
  /\ kind \in [Calls -> Kinds \cup {"none"}]
  /\ on \in [Calls -> Things \cup {NoCall}]
  /\ arg \in [Calls -> Args]
  /\ prior \in [Calls -> Calls \cup {NoCall}]
  /\ seq \in [Calls -> 0..Cardinality(Calls)]
  /\ direct \in SUBSET Calls
  /\ alive \in SUBSET Calls
  /\ cell \in [Cells -> Calls \cup {NoCall}]
  /\ token \in Calls \cup {NoCall}
  /\ \A r \in outbox \cup log : r.of \in Calls /\ r.seq \in 1..Cardinality(Calls)
  /\ heard \in Seq(Calls)
  /\ before \in [Calls -> SUBSET Calls]
  /\ replaced \in [Calls -> Calls \cup {NoCall}]
  /\ lost \in SUBSET Calls

(* Rows of one thing replay in the order of the calls that wrote them, though  *)
(* create_alert stages its row and delete_alert does not                       *)
(* (create_alert.go:174-180, alert_usecases.go:127).                           *)
RowsInOrder ==
  \A r, s \in outbox \cup log :
    on[r.of] = on[s.of] /\ r.of \in before[s.of] => r.seq < s.seq

(* When the calls on a thing came one after the other, no row was lost and no  *)
(* silent writer touched it, the audit stream and the store tell the same      *)
(* story (alert_usecases.go:102-103, account_usecases.go:361-364).             *)
StreamTellsStore ==
  \A t \in Calls \cup {"credential"} :
    Quiet(t) /\ Serial(t) /\ OpenlyKept(t) /\ CallsOn(t) \cap lost = {} =>
      (Replayed(t) <=> Stored(t))

(* So do the events, whose dispatch comes before the append for alerts and     *)
(* after it for watchlists; composite alerts are announced by nobody.          *)
EventsTellStore ==
  \A t \in Calls :
    Quiet(t) /\ Serial(t) /\ OpenlyKept(t) /\ kind[t] \in {"createAlert", "createList"} =>
      (t \in alive <=> \E i \in 1..Len(heard) :
                         /\ heard[i] = t
                         /\ \A j \in i..Len(heard) : on[heard[j]] = t => RowType(heard[j]) # "deleted")

(* Unless another call on the same entry overlaps, what an update or a bind    *)
(* reports as the prior entry is what it replaced (account_usecases.go:349,    *)
(* telegram_usecases.go:66).                                                   *)
SnapshotsHold ==
  \A c \in Calls :
    /\ kind[c] \in Sets /\ done[c] > 1
    /\ \A d \in Calls : on[d] = on[c] => ~Overlap(c, d)
    => prior[c] = replaced[c]

(* Two lists of one name come from creates that overlapped: the duplicate      *)
(* check (watchlist_usecases.go:72) stops every later one.                     *)
OneListPerName ==
  \A c, d \in alive :
    kind[c] = "createList" /\ kind[d] = "createList" /\ arg[c] = arg[d] /\ c # d => Overlap(c, d)

(* A cached token of a key that is not the stored one belongs to a login that  *)
(* overlapped the change of the key, or the change is still under way          *)
(* (account_usecases.go:326-333).                                              *)
NoStaleToken ==
  token # NoCall /\ prior[token] # cell["credential"] =>
    \E d \in CallsOn("credential") :
      /\ kind[d] \in {"update", "loginOwn"} \cup Clears
      /\ Overlap(token, d) \/ Running(d)

(* account_usecases.go:342-346 says of overlapping calls that the worst case   *)
(* is two registrations on the credential stream, "still auditor-correct".  So *)
(* a complete stream without a tie would end in what the store holds.          *)
AuditorCorrect ==
  LET rows == RowsOn("credential", outbox \cup log)
  IN  /\ Quiet("credential")
      /\ CallsOn("credential") \cap lost = {}
      /\ \A r, s \in rows : r.seq = s.seq => r = s
      => (Replayed("credential") <=> Stored("credential"))
=============================================================================
