------------------------------- MODULE Registry -------------------------------
(***************************************************************************)
(* The registry of API keys: what SyncRegistryAfterLogin does to it after  *)
(* each login, call by call, and what the administrator does from the      *)
(* dashboard.  The synchronisation holds no lock between its calls, so     *)
(* that two logins, and the administrator, interleave between them.        *)
(*                                                                         *)
(* The store behind RegistrySync is external: each of its calls is atomic. *)
(* GetByEmail answers with a key that is active, as the other lookup, Any- *)
(* Status, suggests; an empty status or owner given to Update is left as   *)
(* it is.  Identifiers, secrets, labels and LastUsedAt are left out.       *)
(***************************************************************************)
EXTENDS Naturals

CONSTANTS
  Users,     \* lower-cased e-mails
  Keys,      \* API keys
  Logins,    \* how many logins can be synchronised at once
  Empty      \* the empty string: no key, nobody

ASSUME EmptyAssumption == Empty \notin Keys \cup Users

VARIABLES
  status,        \* [Keys -> {"absent", "active", "replaced"}]
  owner,         \* assignedTo of the entries that are not absent
  login,         \* user and key of each login under way
  at,            \* where its Execute is
  old,           \* the key GetByEmail answered with
  raced,         \* users two of whose logins were synchronised at the same time
  administered   \* users the administrator gave an active key

entryVars == <<status, owner>>
registryVars == <<status, owner, login, at, old, raced, administered>>

Requests == [user : Users, key : Keys]

NoRequest == [user |-> Empty, key |-> Empty]

RegistryInit ==
  /\ status = [k \in Keys |-> "absent"]
  /\ owner = [k \in Keys |-> Empty]
  /\ login = [l \in Logins |-> NoRequest]
  /\ at = [l \in Logins |-> "idle"]
  /\ old = [l \in Logins |-> Empty]
  /\ raced = {}
  /\ administered = {}

ActiveKeys(u) == {k \in Keys : status[k] = "active" /\ owner[k] = u}

Step(l, from, to) ==
  /\ at[l] = from
  /\ at' = [at EXCEPT ![l] = to]
  /\ UNCHANGED <<login, raced, administered>>

\* LastUsedAt is stamped and the login forgotten.
Stamp(l, from) ==
  /\ at[l] = from
  /\ at' = [at EXCEPT ![l] = "idle"]
  /\ login' = [login EXCEPT ![l] = NoRequest]
  /\ old' = [old EXCEPT ![l] = Empty]
  /\ UNCHANGED <<raced, administered>>

\* Without a key nothing is done, and without AutoRegister the login only stamps
\* LastUsedAt: the requests that change something have both.
SyncBegins(l, r) ==
  /\ at[l] = "idle"
  /\ at' = [at EXCEPT ![l] = "byEmail"]
  /\ login' = [login EXCEPT ![l] = r]
  /\ raced' = raced \cup {u \in Users : u = r.user /\ \E m \in Logins : login[m].user = u}
  /\ UNCHANGED <<entryVars, old, administered>>

GetByEmail(l) ==
  LET found == ActiveKeys(login[l].user)
  IN  \E k \in IF found = {} THEN {Empty} ELSE found :
        /\ old' = [old EXCEPT ![l] = k]
        /\ Step(l, "byEmail", IF k \in {Empty, login[l].key} THEN "byKey" ELSE "mark")
        /\ UNCHANGED entryVars

\* Broken variant: the wrong key is marked.
MarkNewReplaced(l) ==
  /\ Step(l, "mark", "byKey")
  /\ status' = [status EXCEPT ![login[l].key] = IF @ = "absent" THEN @ ELSE "replaced"]
  /\ UNCHANGED <<owner, old>>

\* MarkStatus names the key, whoever owns it by now; an unknown key is ignored.
MarkReplaced(l) ==
  /\ Step(l, "mark", "byKey")
  /\ status' = [status EXCEPT ![old[l]] = IF @ = "absent" THEN @ ELSE "replaced"]
  /\ UNCHANGED <<owner, old>>

GetByAPIKeyAnyStatus(l) ==
  LET k == login[l].key
  IN  /\ \/ Step(l, "byKey", "register") /\ status[k] = "absent" /\ UNCHANGED old
         \/ /\ Step(l, "byKey", "reassign") /\ status[k] # "absent"
            /\ owner[k] # login[l].user /\ UNCHANGED old
         \/ Stamp(l, "byKey") /\ status[k] # "absent" /\ owner[k] = login[l].user
      /\ UNCHANGED entryVars

\* A key that is registered by now is refused, and so is any key when the store
\* fails: the error is only logged.
Register(l) ==
  LET k == login[l].key
  IN  /\ Stamp(l, "register")
      /\ \/ /\ status[k] = "absent"
            /\ status' = [status EXCEPT ![k] = "active"]
            /\ owner' = [owner EXCEPT ![k] = login[l].user]
         \/ UNCHANGED entryVars

\* Broken variant: the key is made active for its new owner.
ReassignActive(l) ==
  LET k == login[l].key
  IN  /\ Stamp(l, "reassign")
      /\ \/ /\ status[k] # "absent"
            /\ status' = [status EXCEPT ![k] = "active"]
            /\ owner' = [owner EXCEPT ![k] = login[l].user]
         \/ UNCHANGED entryVars

\* Update with an empty status; the error is dropped.
Reassign(l) ==
  LET k == login[l].key
  IN  /\ Stamp(l, "reassign")
      /\ UNCHANGED status
      /\ \/ /\ status[k] # "absent"
            /\ owner' = [owner EXCEPT ![k] = login[l].user]
         \/ UNCHANGED owner

Sync(l) ==
  \/ \E r \in Requests : SyncBegins(l, r)
  \/ GetByEmail(l) \/ MarkReplaced(l)
  \/ GetByAPIKeyAnyStatus(l) \/ Register(l) \/ Reassign(l)

\* An active key in u's hands by the administrator's doing.
Administer(u, s) ==
  administered' = administered \cup {v \in Users : v = u /\ s = "active"}

\* (A key the administrator assigns to nobody is nobody's, and is left out.)
AdminRegisterApp(k, u) ==
  /\ status[k] = "absent"
  /\ status' = [status EXCEPT ![k] = "active"]
  /\ owner' = [owner EXCEPT ![k] = u]
  /\ Administer(u, "active")
  /\ UNCHANGED <<login, at, old, raced>>

AdminUpdateRegistry(k, u, s) ==
  /\ status[k] # "absent"
  /\ status' = [status EXCEPT ![k] = s]
  /\ owner' = [owner EXCEPT ![k] = u]
  /\ Administer(u, s)
  /\ UNCHANGED <<login, at, old, raced>>

AdminDeleteRegistry(k) ==
  /\ status[k] # "absent"
  /\ status' = [status EXCEPT ![k] = "absent"]
  /\ owner' = [owner EXCEPT ![k] = Empty]
  /\ UNCHANGED <<login, at, old, raced, administered>>

Admin ==
  \E k \in Keys :
    \/ \E u \in Users : AdminRegisterApp(k, u)
    \/ \E u \in Users, s \in {"active", "replaced"} : AdminUpdateRegistry(k, u, s)
    \/ AdminDeleteRegistry(k)

RegistryNext == Admin \/ \E l \in Logins : Sync(l)

RegistrySpec == RegistryInit /\ [][RegistryNext]_registryVars

-----------------------------------------------------------------------------
RegistryTypeOK ==
  /\ status \in [Keys -> {"absent", "active", "replaced"}]
  /\ owner \in [Keys -> Users \cup {Empty}]
  /\ login \in [Logins -> Requests \cup {NoRequest}]
  /\ at \in [Logins -> {"idle", "byEmail", "mark", "byKey", "register", "reassign"}]
  /\ old \in [Logins -> Keys \cup {Empty}]
  /\ raced \subseteq Users
  /\ administered \subseteq Users

\* A user has one active key at most, as GetByEmail takes for granted, whatever the
\* other users' logins do to his keys in the meantime: only two logins of his own,
\* synchronised at the same time, and the administrator can give him two.
OneActiveKey ==
  \A u \in Users \ (raced \cup administered) :
    \A k, l \in ActiveKeys(u) : k = l

\* A rotation is for good: no login makes a replaced key active again, not even one
\* with that very key, whose user is then left without an active key; nor does it
\* remove an entry, so that the registry keeps showing the rotation.  (A step of a
\* login is one that changes where it is.)
OnlyAdminRevives ==
  [][at' # at =>
       \A k \in Keys : status[k] # "absent" => status'[k] \in {status[k], "replaced"}]_registryVars

=============================================================================
