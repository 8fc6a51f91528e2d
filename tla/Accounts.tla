------------------------------ MODULE Accounts ------------------------------
(***************************************************************************)
(* Administration, account deletion and login over one user store.         *)
(* Every call is a goroutine that reads the store, decides, and writes     *)
(* later, store by store; the stores lock each operation and nothing more. *)
(* Sessions, and what a session's requests write, belong to the server     *)
(* around the use cases.                                                   *)
(***************************************************************************)
EXTENDS Naturals, Sequences, FiniteSets

CONSTANTS
  Users,
  Calls,      \* invocations, each by its own goroutine
  Ops,        \* the use cases in play: "suspend", "role", "delete", "login"
  Wiped,      \* the stores a deletion empties once the sessions are gone, in
              \* order: alerts, watchlists, trailing stops, paper trading
  Fallible    \* those whose cleanup may fail: paper trading

Wipes  == {Wiped[i] : i \in 1..Len(Wiped)}
Stores == {"credential", "token"} \cup Wipes

\* What the model relies on in its constants.
ASSUME AccountsAssumption ==
  /\ IsFiniteSet(Users)
  /\ Ops \subseteq {"suspend", "role", "delete", "login"}
  /\ Wiped \in Seq(STRING \ {"credential", "token"})

VARIABLES
  pc, req,    \* where a call is, and what it was asked
  cursor,     \* the store a deletion empties next, in Wiped
  role, status,  \* the user store
  frozen,     \* users whose trading riskguard has frozen
  sessions,   \* the live sessions, each named by the login that opened it
  requests,   \* the sessions with a request in progress
  rotating,   \* those of them between the two writes of UpdateMyCredentials
  data,       \* what the other stores hold: store, and session it came through
  late,       \* history: the logins a ban overlapped with, or that a deletion
              \* already done did not keep out
  busy,       \* history: the sessions that were in a request when a ban ended them
  midway,     \* history: the sessions that were in a request at some time from
              \* when a deletion had taken the credential to when it ended them
  standing,   \* history: bans nobody has lifted since they were written
  thawed,     \* history: suspensions whose freeze somebody lifted
  raced,      \* history: guarded calls that lost an admin, or whose target
              \* became one, between their read and their write
  botched,    \* history: deletions in which a cleanup failed
  closed      \* history: users ever offboarded

callVars == <<pc, req, cursor>>
userVars == <<role, status>>
liveVars == <<sessions, requests, rotating, data>>
history  == <<late, busy, midway, standing, thawed, raced, botched, closed>>
vars     == <<callVars, userVars, frozen, liveVars, history>>

Roles    == {"admin", "trader"}
Statuses == {"absent", "active", "suspended", "offboarded"}
Requests == [op : Ops, user : Users, role : Roles]
Phases   == {"idle", "get", "count", "freeze", "update", "credential", "token",
             "terminate", "wipe", "check", "ensure", "cache", "key", "session",
             "done", "refused", "failed"}

Op(c)   == req[c].op
User(c) == req[c].user

Step(c, to) == pc' = [pc EXCEPT ![c] = to]

\* The users List() counts: active, and admin.
ActiveAdmins == {u \in Users : role[u] = "admin" /\ status[u] = "active"}

\* The logins of u between the status check and the session.
InFlight(u) ==
  {l \in Calls : User(l) = u /\ pc[l] \in {"ensure", "cache", "key", "session"}}

\* What the stores s hold for u.
Held(u, s) == {d \in data : d.store \in s /\ User(d.via) = u}

-----------------------------------------------------------------------------
Init ==
  /\ pc = [c \in Calls |-> "idle"]
  /\ req \in [Calls -> {q \in Requests : q.op # "role" => q.role = "trader"}]
  /\ cursor = [c \in Calls |-> 1]
  /\ role \in [Users -> Roles]
  /\ status \in [Users -> {"absent", "active"}]
  /\ \A u \in Users : status[u] = "absent" => role[u] = "trader"
  /\ frozen = {}
  /\ sessions = {}
  /\ requests = {}
  /\ rotating = {}
  /\ data = {}
  /\ late = [c \in Calls |-> {}]
  /\ busy = [c \in Calls |-> {}]
  /\ midway = [c \in Calls |-> {}]
  /\ standing = {}
  /\ thawed = {}
  /\ raced = {}
  /\ botched = {}
  /\ closed = {}

\* A guarded call between the read of its target and its write.
Guarding(c) == Op(c) \in {"suspend", "role"} /\ pc[c] \in {"count", "freeze", "update"}

\* History: the guarded calls, other than the writer, that the write cost an
\* active admin or gave one as target.
NoteRaces(writer) ==
  raced' = raced \cup {c \in Calls \ {writer} :
                         /\ Guarding(c)
                         /\ \/ ~(ActiveAdmins \subseteq ActiveAdmins')
                            \/ User(c) \in ActiveAdmins' \ ActiveAdmins}

-----------------------------------------------------------------------------
(* A call starts.                                                          *)

First == [suspend |-> "get", role |-> "get", delete |-> "credential", login |-> "check"]

\* Execute up to its first read, when validation lets the command through.
Begin(c) ==
  /\ pc[c] = "idle"
  /\ Step(c, First[Op(c)])
  /\ late' = [late EXCEPT ![c] = IF Op(c) = "delete" THEN InFlight(User(c)) ELSE {}]
  /\ UNCHANGED <<req, cursor, userVars, frozen, liveVars, busy, midway, standing, thawed,
                 raced, botched, closed>>

\* Validation: an empty email or role, an admin who would suspend himself.
Refuse(c) ==
  /\ pc[c] = "idle"
  /\ Step(c, "refused")
  /\ UNCHANGED <<req, cursor, userVars, frozen, liveVars, history>>

-----------------------------------------------------------------------------
(* Suspension and change of role.                                          *)

\* Would the call take an active admin away, as far as Get shows?
SuspendsAdmin(c) == User(c) \in ActiveAdmins
DemotesAdmin(c)  == role[User(c)] = "admin" /\ req[c].role # "admin"
Guarded(c) == IF Op(c) = "suspend" THEN SuspendsAdmin(c) ELSE DemotesAdmin(c)

\* What follows the last-admin guard: riskguard's freeze, or the write itself.
PastGuard(c) == IF Op(c) = "suspend" THEN "freeze" ELSE "update"

\* Broken variant: the freeze is left to those who were admins.
GetTargetSkipsFreeze(c) ==
  /\ pc[c] = "get"
  /\ Step(c, IF status[User(c)] = "absent" /\ Op(c) = "role" THEN "refused"
             ELSE IF Guarded(c) THEN "count" ELSE "update")
  /\ UNCHANGED <<req, cursor, userVars, frozen, liveVars, history>>

\* Get(target).  A change of role needs the user to exist; a suspension goes on.
GetTarget(c) ==
  /\ pc[c] = "get"
  /\ Step(c, IF status[User(c)] = "absent" /\ Op(c) = "role" THEN "refused"
             ELSE IF Guarded(c) THEN "count" ELSE PastGuard(c))
  /\ UNCHANGED <<req, cursor, userVars, frozen, liveVars, history>>

\* Broken variant: an off-by-one lets the last admin go.
CountAdminsOffByOne(c) ==
  /\ pc[c] = "count"
  /\ Step(c, IF Cardinality(ActiveAdmins) < 1 THEN "refused" ELSE PastGuard(c))
  /\ UNCHANGED <<req, cursor, userVars, frozen, liveVars, history>>

\* List(), and the guard over its copy.
CountAdmins(c) ==
  /\ pc[c] = "count"
  /\ Step(c, IF Cardinality(ActiveAdmins) <= 1 THEN "refused" ELSE PastGuard(c))
  /\ UNCHANGED <<req, cursor, userVars, frozen, liveVars, history>>

\* riskguard.Freeze, before the status is written and whether or not it can be.
FreezeTarget(c) ==
  /\ pc[c] = "freeze"
  /\ frozen' = frozen \cup {User(c)}
  /\ Step(c, "update")
  /\ UNCHANGED <<req, cursor, userVars, liveVars, history>>

\* UpdateStatus(suspended).
WriteSuspended(c) ==
  /\ pc[c] = "update" /\ Op(c) = "suspend"
  /\ status[User(c)] # "absent"
  /\ status' = [status EXCEPT ![User(c)] = "suspended"]
  /\ standing' = standing \cup {c}
  /\ Step(c, "terminate")
  /\ UNCHANGED <<req, cursor, role, frozen, liveVars, late, busy, midway, thawed, botched, closed>>
  /\ NoteRaces(c)

\* UpdateRole.
WriteRole(c) ==
  /\ pc[c] = "update" /\ Op(c) = "role"
  /\ status[User(c)] # "absent"
  /\ role' = [role EXCEPT ![User(c)] = req[c].role]
  /\ Step(c, "done")
  /\ UNCHANGED <<req, cursor, status, frozen, liveVars, late, busy, midway, standing, thawed,
                 botched, closed>>
  /\ NoteRaces(c)

\* The user store answers with an error: the call fails where it stands, and
\* what it did before stays.
WriteFails(c) ==
  /\ pc[c] = "update" /\ Op(c) \in {"suspend", "role"}
  /\ Step(c, "failed")
  /\ UNCHANGED <<req, cursor, userVars, frozen, liveVars, history>>

-----------------------------------------------------------------------------
(* Account deletion.                                                       *)

\* Broken variant: the token is left for the sessions to lose.
DeleteCredentialOnly(c) ==
  /\ pc[c] = "credential"
  /\ data' = data \ Held(User(c), {"credential"})
  /\ midway' = [midway EXCEPT ![c] = {l \in requests : User(l) = User(c)}]
  /\ Step(c, "terminate")
  /\ UNCHANGED <<req, cursor, userVars, frozen, sessions, requests, rotating,
                 late, busy, standing, thawed, raced, botched, closed>>

\* CredentialStore.Delete.
DeleteCredential(c) ==
  /\ pc[c] = "credential"
  /\ data' = data \ Held(User(c), {"credential"})
  /\ midway' = [midway EXCEPT ![c] = {l \in requests : User(l) = User(c)}]
  /\ Step(c, "token")
  /\ UNCHANGED <<req, cursor, userVars, frozen, sessions, requests, rotating,
                 late, busy, standing, thawed, raced, botched, closed>>

\* TokenStore.Delete.
DeleteToken(c) ==
  /\ pc[c] = "token"
  /\ data' = data \ Held(User(c), {"token"})
  /\ Step(c, "terminate")
  /\ UNCHANGED <<req, cursor, userVars, frozen, sessions, requests, rotating, history>>

\* Sessions.TerminateByEmail: the last step of a suspension, after its status,
\* and the third of a deletion, before its status.  A request in progress runs on.
Terminate(c) ==
  /\ pc[c] = "terminate"
  /\ sessions' = {l \in sessions : User(l) # User(c)}
  /\ busy' = [busy EXCEPT ![c] = {l \in requests : User(l) = User(c)}]
  /\ late' = [late EXCEPT ![c] = IF Op(c) = "suspend" THEN InFlight(User(c)) ELSE @]
  /\ Step(c, IF Op(c) = "suspend" THEN "done"
             ELSE IF Wiped = <<>> THEN "update" ELSE "wipe")
  /\ UNCHANGED <<req, cursor, userVars, frozen, requests, rotating, data, midway, standing, thawed,
                 raced, botched, closed>>

\* On to the next store of the teardown, or to the status.
Advance(c) ==
  /\ cursor' = [cursor EXCEPT ![c] = @ + 1]
  /\ Step(c, IF cursor[c] < Len(Wiped) THEN "wipe" ELSE "update")

\* DeleteByEmail, CancelByEmail, Reset and Disable, store after store.
WipeNext(c) ==
  /\ pc[c] = "wipe"
  /\ data' = data \ Held(User(c), {Wiped[cursor[c]]})
  /\ Advance(c)
  /\ UNCHANGED <<req, userVars, frozen, sessions, requests, rotating, history>>

\* A cleanup fails: logged, swallowed, and on to the next.
WipeFails(c) ==
  /\ pc[c] = "wipe"
  /\ Wiped[cursor[c]] \in Fallible
  /\ botched' = botched \cup {c}
  /\ Advance(c)
  /\ UNCHANGED <<req, userVars, frozen, liveVars, late, busy, midway, standing, thawed, raced, closed>>

\* UpdateStatus(offboarded), the last step.
WriteOffboarded(c) ==
  /\ pc[c] = "update" /\ Op(c) = "delete"
  /\ status[User(c)] # "absent"
  /\ status' = [status EXCEPT ![User(c)] = "offboarded"]
  /\ standing' = standing \cup {c}
  /\ closed' = closed \cup {User(c)}
  /\ Step(c, "done")
  /\ UNCHANGED <<req, cursor, role, frozen, liveVars, late, busy, midway, thawed, botched>>
  /\ NoteRaces(c)

\* Its error is swallowed too: the deletion reports success.
WriteOffboardedFails(c) ==
  /\ pc[c] = "update" /\ Op(c) = "delete"
  /\ Step(c, "done")
  /\ UNCHANGED <<req, cursor, userVars, frozen, liveVars, history>>

-----------------------------------------------------------------------------
(* Login: ProvisionUserOnLogin, then the OAuth callback's other commands.  *)

\* Broken variant: only a suspension keeps a user out.
LoginAllowedUnlessSuspended(c) ==
  /\ pc[c] = "check"
  /\ status[User(c)] # "suspended"
  /\ Step(c, "ensure")
  /\ UNCHANGED <<req, cursor, userVars, frozen, liveVars, history>>

\* GetStatus lets the login through.  A deletion under way has one more login
\* to overlap with, and one that is done and did not write the status, or was
\* undone by Activate, does not keep it out.
LoginAllowed(c) ==
  /\ pc[c] = "check"
  /\ status[User(c)] \notin {"suspended", "offboarded"}
  /\ late' = [d \in Calls |->
                IF /\ Op(d) = "delete" /\ User(d) = User(c)
                   /\ pc[d] \in {"credential", "token", "terminate", "wipe", "update", "done"}
                THEN late[d] \cup {c} ELSE late[d]]
  /\ Step(c, "ensure")
  /\ UNCHANGED <<req, cursor, userVars, frozen, liveVars, busy, midway, standing, thawed,
                 raced, botched, closed>>

\* ErrUserSuspended, ErrUserOffboarded.
LoginDenied(c) ==
  /\ pc[c] = "check"
  /\ status[User(c)] \in {"suspended", "offboarded"}
  /\ Step(c, "refused")
  /\ UNCHANGED <<req, cursor, userVars, frozen, liveVars, history>>

\* EnsureUser: a new user is an active trader, a known one stays as he is.
EnsureUser(c) ==
  /\ pc[c] = "ensure"
  /\ status' = [status EXCEPT ![User(c)] = IF @ = "absent" THEN "active" ELSE @]
  /\ Step(c, "cache")
  /\ UNCHANGED <<req, cursor, role, frozen, liveVars, late, busy, midway, standing, thawed,
                 botched, closed>>
  /\ NoteRaces(c)

\* What the store holds for the user is replaced.
Put(c, store) == data' = (data \ Held(User(c), {store})) \cup {[store |-> store, via |-> c]}

\* CacheKiteAccessToken.
CacheToken(c) ==
  /\ pc[c] = "cache"
  /\ Put(c, "token")
  /\ Step(c, "key")
  /\ UNCHANGED <<req, cursor, userVars, frozen, sessions, requests, rotating, history>>

\* StoreUserKiteCredentials, for a login with keys of the user's own.
StoreCredentials(c) ==
  /\ pc[c] = "key"
  /\ Put(c, "credential")
  /\ Step(c, "session")
  /\ UNCHANGED <<req, cursor, userVars, frozen, sessions, requests, rotating, history>>

SkipCredentials(c) ==
  /\ pc[c] = "key"
  /\ Step(c, "session")
  /\ UNCHANGED <<req, cursor, userVars, frozen, liveVars, history>>

\* The callback ends with a session.
OpenSession(c) ==
  /\ pc[c] = "session"
  /\ sessions' = sessions \cup {c}
  /\ Step(c, "done")
  /\ UNCHANGED <<req, cursor, userVars, frozen, requests, rotating, data, history>>

-----------------------------------------------------------------------------
(* One-step use cases, and the sessions' own requests.                     *)

\* UpdateStatus(active), whatever the status was.
Activate(u) ==
  /\ status[u] # "absent"
  /\ status' = [status EXCEPT ![u] = "active"]
  /\ standing' = {c \in standing : User(c) # u}
  /\ UNCHANGED <<callVars, role, frozen, liveVars, late, busy, midway, thawed, botched, closed>>
  /\ raced' = raced \cup {c \in Calls : /\ Guarding(c)
                                        /\ User(c) \in ActiveAdmins' \ ActiveAdmins}

FreezeUser(u) ==
  /\ frozen' = frozen \cup {u}
  /\ UNCHANGED <<callVars, userVars, liveVars, history>>

UnfreezeUser(u) ==
  /\ frozen' = frozen \ {u}
  /\ thawed' = thawed \cup {c \in Calls : /\ Op(c) = "suspend" /\ User(c) = u
                                          /\ pc[c] \in {"update", "terminate", "done", "failed"}}
  /\ UNCHANGED <<callVars, userVars, liveVars, late, busy, midway, standing, raced, botched, closed>>

\* A live session starts a request; the request writes to the stores of the
\* user, and ends, also after the session is gone.
StartRequest(l) ==
  /\ l \in sessions
  /\ requests' = requests \cup {l}
  /\ midway' = [d \in Calls |->
                  IF Op(d) = "delete" /\ User(d) = User(l) /\ pc[d] \in {"token", "terminate"}
                  THEN midway[d] \cup {l} ELSE midway[d]]
  /\ UNCHANGED <<callVars, userVars, frozen, sessions, rotating, data,
                 late, busy, standing, thawed, raced, botched, closed>>

RequestWrites(l, store) ==
  /\ l \in requests
  /\ data' = data \cup {[store |-> store, via |-> l]}
  /\ UNCHANGED <<callVars, userVars, frozen, sessions, requests, rotating, history>>

\* Broken variant: the request does not wait for the rest of the update.
SetCredentialDetached(l) ==
  /\ l \in requests \ rotating
  /\ Put(l, "credential")
  /\ rotating' = rotating \cup {l}
  /\ requests' = requests \ {l}
  /\ UNCHANGED <<callVars, userVars, frozen, sessions, history>>

\* UpdateMyCredentials: CredentialStore.Set, and then TokenStore.Delete.
SetCredential(l) ==
  /\ l \in requests \ rotating
  /\ Put(l, "credential")
  /\ rotating' = rotating \cup {l}
  /\ UNCHANGED <<callVars, userVars, frozen, sessions, requests, history>>

DropToken(l) ==
  /\ l \in rotating
  /\ data' = data \ Held(User(l), {"token"})
  /\ rotating' = rotating \ {l}
  /\ UNCHANGED <<callVars, userVars, frozen, sessions, requests, history>>

EndRequest(l) ==
  /\ l \in requests \ rotating
  /\ requests' = requests \ {l}
  /\ UNCHANGED <<callVars, userVars, frozen, sessions, rotating, data, history>>

-----------------------------------------------------------------------------
AdminStep(c) ==
  \/ GetTarget(c) \/ CountAdmins(c) \/ FreezeTarget(c)
  \/ WriteSuspended(c) \/ WriteRole(c) \/ WriteFails(c)

DeleteStep(c) ==
  \/ DeleteCredential(c) \/ DeleteToken(c) \/ Terminate(c)
  \/ WipeNext(c) \/ WipeFails(c) \/ WriteOffboarded(c) \/ WriteOffboardedFails(c)

LoginStep(c) ==
  \/ LoginAllowed(c) \/ LoginDenied(c) \/ EnsureUser(c) \/ CacheToken(c)
  \/ StoreCredentials(c) \/ SkipCredentials(c) \/ OpenSession(c)

UserStep(u) == Activate(u) \/ FreezeUser(u) \/ UnfreezeUser(u)

SessionStep(l) ==
  \/ StartRequest(l) \/ SetCredential(l) \/ DropToken(l) \/ EndRequest(l)
  \/ \E s \in Wipes : RequestWrites(l, s)

Next ==
  \/ \E c \in Calls : \/ Begin(c) \/ Refuse(c) \/ AdminStep(c)
                      \/ DeleteStep(c) \/ LoginStep(c) \/ SessionStep(c)
  \/ \E u \in Users : UserStep(u)

Spec == Init /\ [][Next]_vars

-----------------------------------------------------------------------------
TypeOK ==
  /\ pc \in [Calls -> Phases]
  /\ req \in [Calls -> Requests]
  /\ cursor \in [Calls -> 1..Len(Wiped) + 1]
  /\ role \in [Users -> Roles]
  /\ status \in [Users -> Statuses]
  /\ frozen \in SUBSET Users
  /\ sessions \in SUBSET Calls
  /\ requests \in SUBSET Calls
  /\ rotating \in SUBSET requests
  /\ data \in SUBSET [store : Stores, via : Calls]
  /\ late \in [Calls -> SUBSET Calls]
  /\ busy \in [Calls -> SUBSET Calls]
  /\ midway \in [Calls -> SUBSET Calls]
  /\ standing \in SUBSET Calls
  /\ thawed \in SUBSET Calls
  /\ raced \in SUBSET Calls
  /\ botched \in SUBSET Calls
  /\ closed \in SUBSET Users

(* The last-admin guard (admin_usecases.go:270-282, 373-384) does its job for  *)
(* every call that is not overtaken: no such suspension or demotion leaves the *)
(* system without an active admin.  Only a call that lost an admin, or whose   *)
(* target became one, after it had looked can do that, or a deletion, which    *)
(* has no guard.                                                               *)
GuardKeepsAnAdmin ==
  [][ActiveAdmins # {} /\ ActiveAdmins' = {} =>
       \E c \in Calls : /\ pc[c] = "update" /\ pc'[c] # "update"
                        /\ c \in raced \/ Op(c) = "delete"]_vars

(* When a suspension or a deletion has returned and nobody has activated the   *)
(* user since, the sessions he still has come from logins whose status check   *)
(* came before the ban and which were under way while it ran.                  *)
BanLogsOut ==
  \A c \in standing : pc[c] = "done" =>
    \A l \in sessions : User(l) = User(c) => l \in late[c]

(* A suspended user stays frozen for trading, whatever order suspensions,      *)
(* freezes and logins come in, unless an admin unfreezes him after the         *)
(* suspension froze him; so does one whose suspension came back as failed,     *)
(* because the status could not be written.                                    *)
SuspensionFreezes ==
  \A c \in Calls : Op(c) = "suspend" /\ (c \in standing \/ pc[c] = "failed") =>
    User(c) \in frozen \/ c \in thawed

(* What a user still has in any store when a deletion has returned, whether or *)
(* not it could write his status, and at any time since, came through a login  *)
(* it overlapped with or did not keep out; a request that was running when it  *)
(* ended the sessions; an UpdateMyCredentials by a request that ran between    *)
(* the deletion of the credential and that; or a cleanup that failed and was   *)
(* swallowed.  Nothing else that was there before is left.                     *)
NothingOutlivesDeletion ==
  \A c \in Calls : Op(c) = "delete" /\ pc[c] = "done" =>
    \A d \in Held(User(c), Stores) :
      \/ d.via \in late[c]
      \/ d.via \in busy[c] /\ d.store \in Wipes
      \/ d.via \in midway[c] /\ d.store = "credential"
      \/ c \in botched /\ d.store \in Fallible

(* oauth_bridge_usecases.go:36 calls offboarded a terminal status, "distinct   *)
(* from suspended (suspended can be re-activated by an admin)".                *)
OffboardedIsTerminal == \A u \in closed : status[u] = "offboarded"
=============================================================================
