---------------------------- MODULE RegistryProofs ----------------------------
(***************************************************************************)
(* A user keeps one active key, and a rotated key stays rotated, for every *)
(* number of users, keys and logins at once.  The entries of the registry  *)
(* change between the calls of a synchronisation; what it may rely on is   *)
(* that nobody else adds to the active keys of its user (Shrinks), so that *)
(* what it has seen of them stays an upper bound (SyncKnows).              *)
(***************************************************************************)
EXTENDS Registry, TLAPS

\* What the synchronisation of a user's only login knows of his active keys.
Knows(l) ==
  LET u == login[l].user
  IN  u \notin raced \cup administered =>
        /\ at[l] = "mark" => ActiveKeys(u) \subseteq {old[l]}
        /\ at[l] \in {"byKey", "register", "reassign"} => ActiveKeys(u) \subseteq {login[l].key}

SyncKnows == \A l \in Logins : Knows(l)

\* A slot that is idle holds no request, and any other one a user's.
RequestHeld ==
  \A l \in Logins : IF at[l] = "idle" THEN login[l] = NoRequest ELSE login[l] \in Requests

\* A user's login is his only one, or he is marked.
AloneUnlessRaced ==
  \A l, m \in Logins :
    (l # m /\ at[l] # "idle" /\ login[l].user = login[m].user) => login[l].user \in raced

KeyInv == RegistryTypeOK /\ RequestHeld /\ AloneUnlessRaced /\ SyncKnows /\ OneActiveKey

-----------------------------------------------------------------------------
\* Nothing but a login of u, or the administrator who hands him one, adds to the
\* active keys of u.
LEMMA SyncShrinks ==
  ASSUME RegistryTypeOK, RequestHeld, NEW l \in Logins, Sync(l),
         NEW u \in Users, at[l] # "idle" => login[l].user # u
  PROVE  ActiveKeys(u)' \subseteq ActiveKeys(u)
<1> USE DEF ActiveKeys, RegistryTypeOK, Step, Stamp, entryVars
<1>1. CASE \E r \in Requests : SyncBegins(l, r)
  BY <1>1 DEF SyncBegins
<1>2. CASE GetByEmail(l)
  BY <1>2 DEF GetByEmail
<1>3. CASE MarkReplaced(l)
  BY <1>3 DEF MarkReplaced
<1>4. CASE GetByAPIKeyAnyStatus(l)
  BY <1>4 DEF GetByAPIKeyAnyStatus
<1>5. CASE Register(l)
  <2>1. login[l] \in Requests /\ login[l].user # u
    BY <1>5 DEF Register, RequestHeld
  <2> QED BY <1>5, <2>1 DEF Register, Requests
<1>6. CASE Reassign(l)
  <2>1. login[l] \in Requests /\ login[l].user # u
    BY <1>6 DEF Reassign, RequestHeld
  <2> QED BY <1>6, <2>1 DEF Reassign, Requests
<1> QED BY <1>1, <1>2, <1>3, <1>4, <1>5, <1>6 DEF Sync

LEMMA AdminShrinks ==
  ASSUME RegistryTypeOK, Admin, NEW u \in Users, u \notin administered'
  PROVE  ActiveKeys(u)' \subseteq ActiveKeys(u)
<1> USE DEF ActiveKeys, RegistryTypeOK
<1>1. CASE \E k \in Keys, v \in Users : AdminRegisterApp(k, v)
  BY <1>1 DEF AdminRegisterApp, Administer
<1>2. CASE \E k \in Keys, v \in Users, s \in {"active", "replaced"} : AdminUpdateRegistry(k, v, s)
  BY <1>2 DEF AdminUpdateRegistry, Administer
<1>3. CASE \E k \in Keys : AdminDeleteRegistry(k)
  BY <1>3 DEF AdminDeleteRegistry
<1> QED BY <1>1, <1>2, <1>3 DEF Admin

\* The administrator touches no login, and only ever adds to the users he gave a key.
LEMMA AdminApart ==
  ASSUME RegistryTypeOK, Admin
  PROVE  /\ UNCHANGED <<login, at, old, raced>>
         /\ administered \subseteq administered'
         /\ RegistryTypeOK'
BY DEF Admin, AdminRegisterApp, AdminUpdateRegistry, AdminDeleteRegistry, Administer,
       RegistryTypeOK

-----------------------------------------------------------------------------
LEMMA TypeInit == RegistryInit => RegistryTypeOK
BY DEF RegistryInit, RegistryTypeOK

LEMMA SyncTyped ==
  ASSUME RegistryTypeOK, RequestHeld, NEW l \in Logins, Sync(l)
  PROVE  RegistryTypeOK' /\ RequestHeld'
<1> USE DEF RegistryTypeOK, RequestHeld, Step, Stamp, entryVars
<1>1. CASE \E r \in Requests : SyncBegins(l, r)
  BY <1>1 DEF SyncBegins
<1>2. CASE GetByEmail(l)
  BY <1>2 DEF GetByEmail, ActiveKeys
<1>3. CASE MarkReplaced(l)
  BY <1>3 DEF MarkReplaced
<1>4. CASE GetByAPIKeyAnyStatus(l)
  BY <1>4 DEF GetByAPIKeyAnyStatus
<1>5. CASE Register(l)
  BY <1>5 DEF Register, Requests
<1>6. CASE Reassign(l)
  BY <1>6 DEF Reassign, Requests
<1> QED BY <1>1, <1>2, <1>3, <1>4, <1>5, <1>6 DEF Sync

\* Of the logins, a step moves only its own; it keeps its request or forgets it.
LEMMA SyncMoves ==
  ASSUME RegistryTypeOK, RequestHeld, NEW l \in Logins, Sync(l)
  PROVE  /\ \A m \in Logins \ {l} : at'[m] = at[m] /\ login'[m] = login[m] /\ old'[m] = old[m]
         /\ at[l] # "idle" => login'[l] \in {login[l], NoRequest}
         /\ at[l] # "idle" => raced' = raced
         /\ raced \subseteq raced' /\ administered' = administered
<1> USE DEF RegistryTypeOK, RequestHeld, Step, Stamp, entryVars
<1>1. CASE \E r \in Requests : SyncBegins(l, r)
  BY <1>1 DEF SyncBegins
<1>2. CASE GetByEmail(l)
  BY <1>2 DEF GetByEmail
<1>3. CASE MarkReplaced(l)
  BY <1>3 DEF MarkReplaced
<1>4. CASE GetByAPIKeyAnyStatus(l)
  BY <1>4 DEF GetByAPIKeyAnyStatus
<1>5. CASE Register(l)
  BY <1>5 DEF Register
<1>6. CASE Reassign(l)
  BY <1>6 DEF Reassign
<1> QED BY <1>1, <1>2, <1>3, <1>4, <1>5, <1>6 DEF Sync

\* A second login of the same user marks him as it begins.
LEMMA SyncAlone ==
  ASSUME RegistryTypeOK, RequestHeld, AloneUnlessRaced, NEW l \in Logins, Sync(l)
  PROVE  AloneUnlessRaced'
<1>1. CASE at[l] # "idle"
  <2> SUFFICES ASSUME NEW m \in Logins, NEW n \in Logins, m # n,
                      at'[m] # "idle", login'[m].user = login'[n].user
               PROVE  login'[m].user \in raced'
    BY DEF AloneUnlessRaced
  <2>1. RegistryTypeOK' /\ RequestHeld'
    BY SyncTyped
  <2>2. \A k \in Logins : login'[k] = login[k] \/ login'[k] = NoRequest
    BY <1>1, SyncMoves
  <2>3. login'[m] \in Requests /\ login'[m].user \in Users
    BY <2>1 DEF RequestHeld, Requests
  <2>4. login'[m] # NoRequest /\ login'[n] # NoRequest
    BY <2>3, EmptyAssumption DEF NoRequest
  <2>5. login[m] = login'[m] /\ login[n] = login'[n]
    BY <2>2, <2>4
  <2>6. at[m] # "idle"
    BY <2>4, <2>5 DEF RequestHeld
  <2> QED BY <1>1, <2>5, <2>6, SyncMoves DEF AloneUnlessRaced
<1>2. CASE at[l] = "idle"
  <2>1. PICK r \in Requests : SyncBegins(l, r)
    BY <1>2 DEF Sync, GetByEmail, MarkReplaced, GetByAPIKeyAnyStatus, Register, Reassign,
                Step, Stamp
  <2>2. /\ \A m \in Logins : login'[m] = IF m = l THEN r ELSE login[m]
        /\ \A m \in Logins \ {l} : at'[m] = at[m]
        /\ raced \subseteq raced'
        /\ r.user \in Users
        /\ (\E m \in Logins : login[m].user = r.user) => r.user \in raced'
    BY <2>1 DEF SyncBegins, RegistryTypeOK, Requests
  <2> QED BY <2>2 DEF AloneUnlessRaced
<1> QED BY <1>1, <1>2

-----------------------------------------------------------------------------
\* What the running login knows stays true when somebody else makes a step.
LEMMA OthersKeepKnowledge ==
  ASSUME KeyInv, NEW m \in Logins, UNCHANGED <<at[m], login[m], old[m]>>,
         raced \subseteq raced', administered \subseteq administered',
         NEW u, u = login[m].user,
         u \notin raced' \cup administered' => ActiveKeys(u)' \subseteq ActiveKeys(u)
  PROVE  Knows(m)'
<1>1. Knows(m)
  BY DEF KeyInv, SyncKnows, Knows
<1>2. ActiveKeys(login[m].user)' = ActiveKeys(u)'
  BY DEF ActiveKeys
<1> QED BY <1>1, <1>2 DEF Knows

\* The login's own step.
LEMMA OwnKnowledge ==
  ASSUME KeyInv, NEW l \in Logins, Sync(l)
  PROVE  Knows(l)'
<1> SUFFICES ASSUME login'[l].user \notin raced' \cup administered'
             PROVE  Knows(l)'
  BY DEF Knows
<1> USE DEF KeyInv, RegistryTypeOK, RequestHeld, Step, Stamp, entryVars
<1>1. CASE \E r \in Requests : SyncBegins(l, r)
  BY <1>1 DEF SyncBegins, Knows
<1>2. CASE GetByEmail(l)
  <2> PICK u : u = login[l].user
    OBVIOUS
  <2>1. /\ u \in Users \ (raced \cup administered)
        /\ login' = login /\ ActiveKeys(u)' = ActiveKeys(u)
    BY <1>2 DEF GetByEmail, ActiveKeys, Requests
  <2>2. PICK k \in IF ActiveKeys(u) = {} THEN {Empty} ELSE ActiveKeys(u) :
              /\ old'[l] = k
              /\ at'[l] = IF k \in {Empty, login[l].key} THEN "byKey" ELSE "mark"
    BY <1>2 DEF GetByEmail
  <2>3. \A j \in ActiveKeys(u) : k = j
    BY <2>1, <2>2 DEF OneActiveKey, ActiveKeys
  <2>4. k = Empty => ActiveKeys(u) = {}
    BY <2>2, EmptyAssumption DEF ActiveKeys
  <2>5. ActiveKeys(login[l].user)' = ActiveKeys(u)'
    BY <2>1 DEF ActiveKeys
  <2> QED BY <2>1, <2>2, <2>3, <2>4, <2>5 DEF Knows
<1>3. CASE MarkReplaced(l)
  <2> PICK u : u = login[l].user
    OBVIOUS
  <2>1. u \notin raced \cup administered /\ login' = login /\ at[l] = "mark" /\ at'[l] = "byKey"
    BY <1>3 DEF MarkReplaced
  <2>2. ActiveKeys(u) \subseteq {old[l]}
    BY <2>1 DEF SyncKnows, Knows
  <2>3. ActiveKeys(u)' \subseteq ActiveKeys(u) \ {old[l]}
    BY <1>3 DEF MarkReplaced, ActiveKeys
  <2>4. ActiveKeys(login[l].user)' = ActiveKeys(u)'
    BY <2>1 DEF ActiveKeys
  <2> QED BY <2>1, <2>2, <2>3, <2>4 DEF Knows
<1>4. CASE GetByAPIKeyAnyStatus(l)
  <2> PICK u : u = login[l].user
    OBVIOUS
  <2>1. CASE at'[l] = "idle"
    BY <2>1 DEF Knows
  <2>2. CASE at'[l] # "idle"
    <3>1. /\ u \notin raced \cup administered /\ login' = login /\ at[l] = "byKey"
          /\ at'[l] \in {"register", "reassign"} /\ ActiveKeys(u)' = ActiveKeys(u)
      BY <1>4, <2>2 DEF GetByAPIKeyAnyStatus, ActiveKeys
    <3>2. ActiveKeys(u) \subseteq {login[l].key}
      BY <3>1 DEF SyncKnows, Knows
    <3>3. ActiveKeys(login[l].user)' = ActiveKeys(u)'
      BY <3>1 DEF ActiveKeys
    <3> QED BY <3>1, <3>2, <3>3 DEF Knows
  <2> QED BY <2>1, <2>2
<1>5. CASE Register(l)
  BY <1>5 DEF Register, Knows
<1>6. CASE Reassign(l)
  BY <1>6 DEF Reassign, Knows
<1> QED BY <1>1, <1>2, <1>3, <1>4, <1>5, <1>6 DEF Sync

LEMMA SyncKeepsKnowledge ==
  ASSUME KeyInv, NEW l \in Logins, Sync(l)
  PROVE  SyncKnows'
<1> SUFFICES ASSUME NEW m \in Logins PROVE Knows(m)'
  BY DEF SyncKnows
<1>1. CASE m = l
  BY <1>1, OwnKnowledge
<1>2. CASE m # l /\ at[m] # "idle"
  <2>1. UNCHANGED <<at[m], login[m], old[m]>> /\ raced \subseteq raced' /\ administered' = administered
    BY <1>2, SyncMoves DEF KeyInv
  <2>2. login[m].user \in Users
    BY <1>2 DEF KeyInv, RequestHeld, Requests
  <2>3. login[m].user \notin raced => (at[l] # "idle" => login[l].user # login[m].user)
    BY <1>2, <2>1 DEF KeyInv, AloneUnlessRaced
  <2>4. PICK u \in Users : u = login[m].user
    BY <2>2
  <2>5. u \notin raced' => ActiveKeys(u)' \subseteq ActiveKeys(u)
    BY <2>1, <2>3, <2>4, SyncShrinks DEF KeyInv
  <2> QED BY <2>1, <2>4, <2>5, OthersKeepKnowledge
<1>3. CASE m # l /\ at[m] = "idle"
  BY <1>3, SyncMoves DEF KeyInv, Knows
<1> QED BY <1>1, <1>2, <1>3

LEMMA SyncKeepsOneKey ==
  ASSUME KeyInv, NEW l \in Logins, Sync(l)
  PROVE  OneActiveKey'
<1> SUFFICES ASSUME NEW u \in Users, u \notin raced' \cup administered',
                    NEW j \in ActiveKeys(u)', NEW k \in ActiveKeys(u)'
             PROVE  j = k
  BY DEF OneActiveKey
<1>1. u \notin raced \cup administered
  BY SyncMoves DEF KeyInv
<1>2. CASE ActiveKeys(u)' \subseteq ActiveKeys(u)
  BY <1>1, <1>2 DEF KeyInv, OneActiveKey
<1>3. CASE at[l] # "idle" /\ login[l].user = u
  <2>1. CASE at[l] \in {"register", "reassign"}
    <3>1. ActiveKeys(u) \subseteq {login[l].key}
      BY <1>1, <1>3, <2>1 DEF KeyInv, SyncKnows, Knows
    <3>2. ActiveKeys(u)' \subseteq ActiveKeys(u) \cup {login[l].key}
      BY <2>1 DEF Sync, SyncBegins, GetByEmail, MarkReplaced, GetByAPIKeyAnyStatus, Register,
                  Reassign, Step, Stamp, ActiveKeys, KeyInv, RegistryTypeOK, entryVars
    <3> QED BY <3>1, <3>2
  <2>2. CASE at[l] \notin {"register", "reassign"}
    <3>1. ActiveKeys(u)' \subseteq ActiveKeys(u)
      BY <2>2 DEF Sync, SyncBegins, GetByEmail, MarkReplaced, GetByAPIKeyAnyStatus, Register,
                  Reassign, Step, Stamp, ActiveKeys, KeyInv, RegistryTypeOK, entryVars
    <3> QED BY <3>1, <1>2
  <2> QED BY <2>1, <2>2
<1> QED BY <1>2, <1>3, SyncShrinks DEF KeyInv

LEMMA AdminKeepsKeyInv ==
  ASSUME KeyInv, Admin
  PROVE  KeyInv'
<1>1. /\ UNCHANGED <<login, at, old, raced>>
      /\ administered \subseteq administered'
      /\ RegistryTypeOK'
  BY AdminApart DEF KeyInv
<1>2. RequestHeld' /\ AloneUnlessRaced'
  BY <1>1 DEF KeyInv, RequestHeld, AloneUnlessRaced
<1>3. SyncKnows'
  <2> SUFFICES ASSUME NEW m \in Logins PROVE Knows(m)'
    BY DEF SyncKnows
  <2>1. CASE at[m] = "idle"
    BY <1>1, <2>1 DEF Knows
  <2>2. CASE at[m] # "idle"
    <3>1. PICK u \in Users : u = login[m].user
      BY <2>2 DEF KeyInv, RequestHeld, Requests
    <3>2. u \notin administered' => ActiveKeys(u)' \subseteq ActiveKeys(u)
      BY AdminShrinks DEF KeyInv
    <3> QED BY <1>1, <3>1, <3>2, OthersKeepKnowledge
  <2> QED BY <2>1, <2>2
<1>4. OneActiveKey'
  <2> SUFFICES ASSUME NEW u \in Users, u \notin raced' \cup administered',
                      NEW j \in ActiveKeys(u)', NEW k \in ActiveKeys(u)'
               PROVE  j = k
    BY DEF OneActiveKey
  <2>1. ActiveKeys(u)' \subseteq ActiveKeys(u)
    BY AdminShrinks DEF KeyInv
  <2> QED BY <1>1, <2>1 DEF KeyInv, OneActiveKey
<1> QED BY <1>1, <1>2, <1>3, <1>4 DEF KeyInv

LEMMA KeyInvInit == RegistryInit => KeyInv
BY TypeInit DEF RegistryInit, KeyInv, RequestHeld, AloneUnlessRaced, SyncKnows, Knows, OneActiveKey,
                ActiveKeys

LEMMA KeyInvNext == KeyInv /\ [RegistryNext]_registryVars => KeyInv'
<1> SUFFICES ASSUME KeyInv, [RegistryNext]_registryVars PROVE KeyInv'
  OBVIOUS
<1>1. CASE Admin
  BY <1>1, AdminKeepsKeyInv
<1>2. CASE \E l \in Logins : Sync(l)
  <2>1. PICK l \in Logins : Sync(l)
    BY <1>2
  <2>2. RegistryTypeOK' /\ RequestHeld'
    BY <2>1, SyncTyped DEF KeyInv
  <2>3. AloneUnlessRaced'
    BY <2>1, SyncAlone DEF KeyInv
  <2>4. SyncKnows' /\ OneActiveKey'
    BY <2>1, SyncKeepsKnowledge, SyncKeepsOneKey
  <2> QED BY <2>2, <2>3, <2>4 DEF KeyInv
<1>3. CASE UNCHANGED registryVars
  BY <1>3 DEF registryVars, KeyInv, RegistryTypeOK, RequestHeld, AloneUnlessRaced, SyncKnows, Knows,
              OneActiveKey, ActiveKeys
<1> QED BY <1>1, <1>2, <1>3 DEF RegistryNext

THEOREM KeyInvHolds == RegistrySpec => []KeyInv
BY KeyInvInit, KeyInvNext, PTL DEF RegistrySpec

\* SyncRegistryAfterLogin leaves a user with one active key at most, whatever the other
\* users' logins and the administrator do between its calls, unless two logins of that
\* user were synchronised at once or the administrator gave him an active key.
THEOREM OneActiveKeyHolds == RegistrySpec => []OneActiveKey
<1>1. KeyInv => OneActiveKey
  BY DEF KeyInv
<1> QED BY <1>1, KeyInvHolds, PTL

\* No synchronisation makes a replaced key active again or removes an entry.
THEOREM OnlyAdminRevivesHolds == RegistrySpec => OnlyAdminRevives
<1>1. KeyInv /\ [RegistryNext]_registryVars =>
        [at' # at => \A k \in Keys : status[k] # "absent"
                                     => status'[k] \in {status[k], "replaced"}]_registryVars
  <2> SUFFICES ASSUME KeyInv, RegistryNext, at' # at, NEW k \in Keys, status[k] # "absent"
               PROVE  status'[k] \in {status[k], "replaced"}
    OBVIOUS
  <2>1. PICK l \in Logins : Sync(l)
    BY AdminApart DEF RegistryNext, KeyInv
  <2> QED
    BY <2>1 DEF Sync, SyncBegins, GetByEmail, MarkReplaced, GetByAPIKeyAnyStatus, Register,
                Reassign, Step, Stamp, entryVars, KeyInv, RegistryTypeOK
<1> QED BY <1>1, KeyInvHolds, PTL DEF RegistrySpec, OnlyAdminRevives

=============================================================================
