--------------------------- MODULE AccountsProofs ---------------------------
(***************************************************************************)
(* The properties of Accounts, for any users, calls and stores.            *)
(***************************************************************************)
EXTENDS Accounts, TLAPS, FiniteSetTheorems

Deleting(c) == pc[c] \in {"credential", "token", "terminate", "wipe", "update"}

\* Which use case a phase belongs to, and where its cursor is.
Phased ==
  \A c \in Calls :
    /\ pc[c] \in {"get", "count"} => Op(c) \in {"suspend", "role"}
    /\ pc[c] = "freeze" => Op(c) = "suspend"
    /\ pc[c] = "update" => Op(c) \in {"suspend", "role", "delete"}
    /\ pc[c] = "terminate" => Op(c) \in {"suspend", "delete"}
    /\ pc[c] \in {"credential", "token", "wipe"} => Op(c) = "delete"
    /\ pc[c] \in {"check", "ensure", "cache", "key", "session"} => Op(c) = "login"
    /\ pc[c] \in {"idle", "credential", "token", "terminate"} => cursor[c] = 1
    /\ Op(c) # "delete" => cursor[c] = 1
    /\ pc[c] = "wipe" => cursor[c] <= Len(Wiped)
    /\ pc[c] = "update" /\ Op(c) = "delete" => cursor[c] = Len(Wiped) + 1

\* The initial states are well typed, with every call in a phase of its use case.
LEMMA TypeInit == Init => TypeOK /\ Phased
BY AccountsAssumption
   DEF Init, TypeOK, Phased, Phases, Roles, Statuses, Requests, Op

\* Len(Wiped) is a natural number, and the operations are four.
LEMMA ConstantTypes ==
  /\ Len(Wiped) \in Nat
  /\ Wiped = <<>> <=> Len(Wiped) = 0
  /\ \A j \in 1..Len(Wiped) : Wiped[j] \in Wipes
  /\ Wipes \cap {"credential", "token"} = {}
BY AccountsAssumption DEF Wipes

\* Every step keeps the types.
LEMMA TypeNext ==
  ASSUME TypeOK, Phased, [Next]_vars
  PROVE  TypeOK'
<1> USE AccountsAssumption DEF TypeOK, Step, Phases, callVars, userVars, liveVars, history
<1>1. ASSUME NEW c \in Calls, Begin(c) PROVE TypeOK'
  <2>1. req[c] \in Requests /\ Op(c) \in {"suspend", "role", "delete", "login"}
    BY DEF Requests, Op
  <2>2. First[Op(c)] \in Phases
    BY <2>1 DEF First
  <2>3. pc' \in [Calls -> Phases]
    BY <1>1, <2>2 DEF Begin
  <2> QED BY <1>1, <2>3 DEF Begin, InFlight
<1>2. ASSUME NEW c \in Calls, Refuse(c) PROVE TypeOK'
  BY <1>2 DEF Refuse
<1>3. ASSUME NEW c \in Calls, GetTarget(c) PROVE TypeOK'
  BY <1>3 DEF GetTarget, PastGuard
<1>4. ASSUME NEW c \in Calls, CountAdmins(c) PROVE TypeOK'
  BY <1>4 DEF CountAdmins, PastGuard
<1>5. ASSUME NEW c \in Calls, FreezeTarget(c) PROVE TypeOK'
  BY <1>5 DEF FreezeTarget, User, Requests
<1>6. ASSUME NEW c \in Calls, WriteSuspended(c) PROVE TypeOK'
  BY <1>6 DEF WriteSuspended, User, Requests, Statuses, NoteRaces
<1>7. ASSUME NEW c \in Calls, WriteRole(c) PROVE TypeOK'
  BY <1>7 DEF WriteRole, User, Requests, NoteRaces
<1>8. ASSUME NEW c \in Calls, WriteFails(c) PROVE TypeOK'
  BY <1>8 DEF WriteFails
<1>9. ASSUME NEW c \in Calls, DeleteCredential(c) PROVE TypeOK'
  BY <1>9 DEF DeleteCredential
<1>10. ASSUME NEW c \in Calls, DeleteToken(c) PROVE TypeOK'
  BY <1>10 DEF DeleteToken
<1>11. ASSUME NEW c \in Calls, Terminate(c) PROVE TypeOK'
  BY <1>11 DEF Terminate, InFlight
<1>12. ASSUME NEW c \in Calls, WipeNext(c) PROVE TypeOK'
  BY <1>12, ConstantTypes DEF WipeNext, Advance, Phased
<1>13. ASSUME NEW c \in Calls, WipeFails(c) PROVE TypeOK'
  BY <1>13, ConstantTypes DEF WipeFails, Advance, Phased
<1>14. ASSUME NEW c \in Calls, WriteOffboarded(c) PROVE TypeOK'
  BY <1>14 DEF WriteOffboarded, User, Requests, Statuses, NoteRaces
<1>15. ASSUME NEW c \in Calls, WriteOffboardedFails(c) PROVE TypeOK'
  BY <1>15 DEF WriteOffboardedFails
<1>16. ASSUME NEW c \in Calls, LoginAllowed(c) PROVE TypeOK'
  BY <1>16 DEF LoginAllowed
<1>17. ASSUME NEW c \in Calls, LoginDenied(c) PROVE TypeOK'
  BY <1>17 DEF LoginDenied
<1>18. ASSUME NEW c \in Calls, EnsureUser(c) PROVE TypeOK'
  BY <1>18 DEF EnsureUser, User, Requests, Statuses, NoteRaces
<1>19. ASSUME NEW c \in Calls, CacheToken(c) PROVE TypeOK'
  BY <1>19 DEF CacheToken, Put, Stores
<1>20. ASSUME NEW c \in Calls, StoreCredentials(c) PROVE TypeOK'
  BY <1>20 DEF StoreCredentials, Put, Stores
<1>21. ASSUME NEW c \in Calls, SkipCredentials(c) PROVE TypeOK'
  BY <1>21 DEF SkipCredentials
<1>22. ASSUME NEW c \in Calls, OpenSession(c) PROVE TypeOK'
  BY <1>22 DEF OpenSession
<1>23. ASSUME NEW l \in Calls, StartRequest(l) PROVE TypeOK'
  BY <1>23 DEF StartRequest
<1>24. ASSUME NEW l \in Calls, EndRequest(l) PROVE TypeOK'
  BY <1>24 DEF EndRequest
<1>25. ASSUME NEW l \in Calls, NEW s \in Wipes, RequestWrites(l, s) PROVE TypeOK'
  BY <1>25 DEF RequestWrites, Stores
<1>26. ASSUME NEW u \in Users, Activate(u) PROVE TypeOK'
  BY <1>26 DEF Activate, Statuses
<1>27. ASSUME NEW u \in Users, FreezeUser(u) PROVE TypeOK'
  BY <1>27 DEF FreezeUser
<1>28. ASSUME NEW u \in Users, UnfreezeUser(u) PROVE TypeOK'
  BY <1>28 DEF UnfreezeUser
<1>29. ASSUME NEW l \in Calls, SetCredential(l) PROVE TypeOK'
  BY <1>29 DEF SetCredential, Put, Stores
<1>30. ASSUME NEW l \in Calls, DropToken(l) PROVE TypeOK'
  BY <1>30 DEF DropToken
<1>31. CASE UNCHANGED vars
  BY <1>31 DEF vars
<1> QED
  BY <1>1, <1>2, <1>3, <1>4, <1>5, <1>6, <1>7, <1>8, <1>9, <1>10, <1>11,
     <1>12, <1>13, <1>14, <1>15, <1>16, <1>17, <1>18, <1>19, <1>20, <1>21,
     <1>22, <1>23, <1>24, <1>25, <1>26, <1>27, <1>28, <1>29, <1>30, <1>31
     DEF Next, AdminStep, DeleteStep, LoginStep, SessionStep, UserStep

\* Every step keeps calls in phases of their use case.
LEMMA PhasedNext ==
  ASSUME TypeOK, Phased, [Next]_vars
  PROVE  Phased'
<1> USE ConstantTypes DEF TypeOK, Phased, Step, Op, callVars, userVars, liveVars, history
<1>1. ASSUME NEW c \in Calls, Begin(c) PROVE Phased'
  <2>1. Op(c) \in {"suspend", "role", "delete", "login"}
    BY AccountsAssumption DEF Requests
  <2>2. \/ Op(c) = "suspend" /\ pc' = [pc EXCEPT ![c] = "get"]
        \/ Op(c) = "role" /\ pc' = [pc EXCEPT ![c] = "get"]
        \/ Op(c) = "delete" /\ pc' = [pc EXCEPT ![c] = "credential"]
        \/ Op(c) = "login" /\ pc' = [pc EXCEPT ![c] = "check"]
    <3>1. /\ First["suspend"] = "get" /\ First["role"] = "get"
          /\ First["delete"] = "credential" /\ First["login"] = "check"
      BY DEF First
    <3>2. pc' = [pc EXCEPT ![c] = First[Op(c)]]
      BY <1>1 DEF Begin
    <3> HIDE DEF Op
    <3> QED BY <2>1, <3>1, <3>2, Zenon
  <2>3. cursor' = cursor /\ req' = req /\ pc[c] = "idle"
    BY <1>1 DEF Begin
  <2> QED BY <2>2, <2>3
<1>2. ASSUME NEW c \in Calls, Refuse(c) PROVE Phased'
  BY <1>2 DEF Refuse
<1>3. ASSUME NEW c \in Calls, GetTarget(c) PROVE Phased'
  BY <1>3 DEF GetTarget, PastGuard
<1>4. ASSUME NEW c \in Calls, CountAdmins(c) PROVE Phased'
  BY <1>4 DEF CountAdmins, PastGuard
<1>5. ASSUME NEW c \in Calls, FreezeTarget(c) PROVE Phased'
  BY <1>5 DEF FreezeTarget
<1>6. ASSUME NEW c \in Calls, WriteSuspended(c) PROVE Phased'
  BY <1>6 DEF WriteSuspended
<1>7. ASSUME NEW c \in Calls, WriteRole(c) PROVE Phased'
  BY <1>7 DEF WriteRole
<1>8. ASSUME NEW c \in Calls, WriteFails(c) PROVE Phased'
  BY <1>8 DEF WriteFails
<1>9. ASSUME NEW c \in Calls, DeleteCredential(c) PROVE Phased'
  BY <1>9 DEF DeleteCredential
<1>10. ASSUME NEW c \in Calls, DeleteToken(c) PROVE Phased'
  BY <1>10 DEF DeleteToken
<1>11. ASSUME NEW c \in Calls, Terminate(c) PROVE Phased'
  BY <1>11 DEF Terminate
<1>12. ASSUME NEW c \in Calls, WipeNext(c) PROVE Phased'
  BY <1>12 DEF WipeNext, Advance
<1>13. ASSUME NEW c \in Calls, WipeFails(c) PROVE Phased'
  BY <1>13 DEF WipeFails, Advance
<1>14. ASSUME NEW c \in Calls, WriteOffboarded(c) PROVE Phased'
  BY <1>14 DEF WriteOffboarded
<1>15. ASSUME NEW c \in Calls, WriteOffboardedFails(c) PROVE Phased'
  BY <1>15 DEF WriteOffboardedFails
<1>16. ASSUME NEW c \in Calls, LoginAllowed(c) PROVE Phased'
  BY <1>16 DEF LoginAllowed
<1>17. ASSUME NEW c \in Calls, LoginDenied(c) PROVE Phased'
  BY <1>17 DEF LoginDenied
<1>18. ASSUME NEW c \in Calls, EnsureUser(c) PROVE Phased'
  BY <1>18 DEF EnsureUser
<1>19. ASSUME NEW c \in Calls, CacheToken(c) PROVE Phased'
  BY <1>19 DEF CacheToken
<1>20. ASSUME NEW c \in Calls, StoreCredentials(c) PROVE Phased'
  BY <1>20 DEF StoreCredentials
<1>21. ASSUME NEW c \in Calls, SkipCredentials(c) PROVE Phased'
  BY <1>21 DEF SkipCredentials
<1>22. ASSUME NEW c \in Calls, OpenSession(c) PROVE Phased'
  BY <1>22 DEF OpenSession
<1>23. ASSUME NEW l \in Calls, StartRequest(l) PROVE Phased'
  BY <1>23 DEF StartRequest
<1>24. ASSUME NEW l \in Calls, EndRequest(l) PROVE Phased'
  BY <1>24 DEF EndRequest
<1>25. ASSUME NEW l \in Calls, NEW s \in Wipes, RequestWrites(l, s) PROVE Phased'
  BY <1>25 DEF RequestWrites
<1>26. ASSUME NEW u \in Users, Activate(u) PROVE Phased'
  BY <1>26 DEF Activate
<1>27. ASSUME NEW u \in Users, FreezeUser(u) PROVE Phased'
  BY <1>27 DEF FreezeUser
<1>28. ASSUME NEW u \in Users, UnfreezeUser(u) PROVE Phased'
  BY <1>28 DEF UnfreezeUser
<1>29. ASSUME NEW l \in Calls, SetCredential(l) PROVE Phased'
  BY <1>29 DEF SetCredential
<1>30. ASSUME NEW l \in Calls, DropToken(l) PROVE Phased'
  BY <1>30 DEF DropToken
<1>31. CASE UNCHANGED vars
  BY <1>31 DEF vars
<1> QED
  BY <1>1, <1>2, <1>3, <1>4, <1>5, <1>6, <1>7, <1>8, <1>9, <1>10, <1>11,
     <1>12, <1>13, <1>14, <1>15, <1>16, <1>17, <1>18, <1>19, <1>20, <1>21,
     <1>22, <1>23, <1>24, <1>25, <1>26, <1>27, <1>28, <1>29, <1>30, <1>31
     DEF Next, AdminStep, DeleteStep, LoginStep, SessionStep, UserStep

\* Every variable keeps its type.
THEOREM TypeCorrect == Spec => []TypeOK
<1>1. Init => TypeOK /\ Phased
  BY TypeInit
<1>2. TypeOK /\ Phased /\ [Next]_vars => (TypeOK /\ Phased)'
  BY TypeNext, PhasedNext
<1> QED BY <1>1, <1>2, PTL DEF Spec

-----------------------------------------------------------------------------
(* The last-admin guard.                                                    *)

\* A guarded call past its guard that nobody has raced takes no admin away, or
\* leaves another one.
Spared(c) ==
  /\ pc[c] \in {"freeze", "update"}
  /\ Op(c) \in {"suspend", "role"}
  /\ Op(c) = "role" => req[c].role # "admin"
  /\ c \notin raced
  /\ User(c) \in ActiveAdmins

AdminSpared == \A c \in Calls : Spared(c) => \E v \in ActiveAdmins : v # User(c)

\* A step that writes no user and takes no call past its guard.
Quiet ==
  /\ UNCHANGED <<req, userVars, raced>>
  /\ \A d \in Calls : pc'[d] \in {"freeze", "update"} =>
                        pc[d] \in {"freeze", "update"} \/ Op(d) = "delete"

\* A write by a call that is past its own guard, noted as a race.
Noted(w) ==
  /\ req' = req
  /\ NoteRaces(w)
  /\ \A d \in Calls : pc'[d] \in {"freeze", "update"} => pc'[d] = pc[d] /\ d # w

\* Quiet steps keep the admins a call past its guard relies on.
LEMMA QuietKeeps ==
  ASSUME AdminSpared, Quiet
  PROVE  AdminSpared'
<1>1. ActiveAdmins' = ActiveAdmins
  BY DEF Quiet, ActiveAdmins, userVars
<1> QED BY <1>1 DEF AdminSpared, Spared, Quiet, Op, User

\* So do writes that are noted as races.
LEMMA NotedKeeps ==
  ASSUME AdminSpared, NEW w, Noted(w)
  PROVE  AdminSpared'
<1> SUFFICES ASSUME NEW c \in Calls, Spared(c)'
             PROVE  \E v \in ActiveAdmins' : v # User(c)'
  BY DEF AdminSpared
<1>1. c # w /\ Guarding(c) /\ c \notin raced /\ c \notin raced'
  BY DEF Spared, Noted, NoteRaces, Guarding, Op
<1>2. ActiveAdmins \subseteq ActiveAdmins' /\ User(c) \notin ActiveAdmins' \ ActiveAdmins
  BY <1>1 DEF Noted, NoteRaces
<1>3. Spared(c) /\ User(c)' = User(c)
  BY <1>1, <1>2 DEF Spared, Noted, Op, User
<1> QED BY <1>2, <1>3 DEF AdminSpared

\* More than one of them is one besides any given one.
LEMMA AnotherOne ==
  ASSUME NEW S, IsFiniteSet(S), Cardinality(S) > 1, NEW t
  PROVE  \E v \in S : v # t
<1> SUFFICES ASSUME S \subseteq {t} PROVE FALSE
  OBVIOUS
<1>1. Cardinality({t}) = 1 /\ IsFiniteSet({t})
  BY FS_Singleton
<1>2. Cardinality(S) <= 1 /\ Cardinality(S) \in Nat
  BY <1>1, FS_Subset, FS_CardinalityType
<1> QED BY <1>2

\* So does every step.
LEMMA AdminSparedNext ==
  ASSUME TypeOK, Phased, AdminSpared, [Next]_vars
  PROVE  AdminSpared'
<1> USE DEF Step, callVars, userVars, liveVars, history
<1>1. ASSUME NEW c \in Calls, Begin(c) PROVE Quiet
  <2>1. Op(c) \in {"suspend", "role", "delete", "login"}
    BY AccountsAssumption DEF TypeOK, Requests, Op
  <2>2. First[Op(c)] \notin {"freeze", "update"}
    BY <2>1 DEF First
  <2> QED BY <1>1, <2>2 DEF Begin, Quiet, TypeOK
<1>2. ASSUME NEW c \in Calls, Refuse(c) PROVE Quiet
  BY <1>2 DEF Refuse, Quiet, TypeOK
<1>3. ASSUME NEW c \in Calls, GetTarget(c) PROVE AdminSpared'
  <2> SUFFICES ASSUME NEW d \in Calls, Spared(d)'
               PROVE  \E v \in ActiveAdmins' : v # User(d)'
    BY DEF AdminSpared
  <2>1. ActiveAdmins' = ActiveAdmins /\ User(d)' = User(d)
    BY <1>3 DEF GetTarget, ActiveAdmins, User
  <2>2. CASE d = c
    <3>1. ~Guarded(c)
      BY <1>3, <2>2 DEF GetTarget, Spared, TypeOK
    <3>2. Op(c) = "suspend" => User(c) \notin ActiveAdmins
      BY <3>1 DEF Guarded, SuspendsAdmin
    <3>3. Op(c) = "role" => role[User(c)] # "admin" \/ req[c].role = "admin"
      BY <3>1 DEF Guarded, DemotesAdmin
    <3> QED BY <1>3, <2>1, <2>2, <3>2, <3>3
            DEF GetTarget, Spared, ActiveAdmins, Op, User
  <2>3. CASE d # c
    BY <1>3, <2>1, <2>3 DEF GetTarget, Spared, AdminSpared, TypeOK, Op, User
  <2> QED BY <2>2, <2>3
<1>4. ASSUME NEW c \in Calls, CountAdmins(c) PROVE AdminSpared'
  <2> SUFFICES ASSUME NEW d \in Calls, Spared(d)'
               PROVE  \E v \in ActiveAdmins' : v # User(d)'
    BY DEF AdminSpared
  <2>1. ActiveAdmins' = ActiveAdmins /\ User(d)' = User(d)
    BY <1>4 DEF CountAdmins, ActiveAdmins, User
  <2>2. CASE d = c
    <3>1. ~(Cardinality(ActiveAdmins) <= 1)
      BY <1>4, <2>2 DEF CountAdmins, Spared, TypeOK
    <3>2. IsFiniteSet(ActiveAdmins)
      BY AccountsAssumption, FS_Subset DEF ActiveAdmins
    <3>3. Cardinality(ActiveAdmins) > 1
      BY <3>1, <3>2, FS_CardinalityType
    <3> QED BY <2>1, <3>2, <3>3, AnotherOne
  <2>3. CASE d # c
    BY <1>4, <2>1, <2>3 DEF CountAdmins, Spared, AdminSpared, TypeOK, Op, User
  <2> QED BY <2>2, <2>3
<1>5. ASSUME NEW c \in Calls, FreezeTarget(c) PROVE Quiet
  BY <1>5 DEF FreezeTarget, Quiet, TypeOK
<1>6. ASSUME NEW c \in Calls, WriteSuspended(c) PROVE Noted(c)
  BY <1>6 DEF WriteSuspended, Noted, TypeOK
<1>7. ASSUME NEW c \in Calls, WriteRole(c) PROVE Noted(c)
  BY <1>7 DEF WriteRole, Noted, TypeOK
<1>8. ASSUME NEW c \in Calls, WriteFails(c) PROVE Quiet
  BY <1>8 DEF WriteFails, Quiet, TypeOK
<1>9. ASSUME NEW c \in Calls, DeleteCredential(c) PROVE Quiet
  BY <1>9 DEF DeleteCredential, Quiet, TypeOK
<1>10. ASSUME NEW c \in Calls, DeleteToken(c) PROVE Quiet
  BY <1>10 DEF DeleteToken, Quiet, TypeOK
<1>11. ASSUME NEW c \in Calls, Terminate(c) PROVE Quiet
  BY <1>11 DEF Terminate, Quiet, TypeOK, Phased, Op
<1>12. ASSUME NEW c \in Calls, WipeNext(c) PROVE Quiet
  BY <1>12 DEF WipeNext, Quiet, TypeOK, Phased, Advance, Op
<1>13. ASSUME NEW c \in Calls, WipeFails(c) PROVE Quiet
  BY <1>13 DEF WipeFails, Quiet, TypeOK, Phased, Advance, Op
<1>14. ASSUME NEW c \in Calls, WriteOffboarded(c) PROVE Noted(c)
  BY <1>14 DEF WriteOffboarded, Noted, TypeOK
<1>15. ASSUME NEW c \in Calls, WriteOffboardedFails(c) PROVE Quiet
  BY <1>15 DEF WriteOffboardedFails, Quiet, TypeOK
<1>16. ASSUME NEW c \in Calls, LoginAllowed(c) PROVE Quiet
  BY <1>16 DEF LoginAllowed, Quiet, TypeOK
<1>17. ASSUME NEW c \in Calls, LoginDenied(c) PROVE Quiet
  BY <1>17 DEF LoginDenied, Quiet, TypeOK
<1>18. ASSUME NEW c \in Calls, EnsureUser(c) PROVE Noted(c)
  BY <1>18 DEF EnsureUser, Noted, TypeOK
<1>19. ASSUME NEW c \in Calls, CacheToken(c) PROVE Quiet
  BY <1>19 DEF CacheToken, Quiet, TypeOK
<1>20. ASSUME NEW c \in Calls, StoreCredentials(c) PROVE Quiet
  BY <1>20 DEF StoreCredentials, Quiet, TypeOK
<1>21. ASSUME NEW c \in Calls, SkipCredentials(c) PROVE Quiet
  BY <1>21 DEF SkipCredentials, Quiet, TypeOK
<1>22. ASSUME NEW c \in Calls, OpenSession(c) PROVE Quiet
  BY <1>22 DEF OpenSession, Quiet, TypeOK
<1>23. ASSUME NEW l \in Calls, StartRequest(l) PROVE Quiet
  BY <1>23 DEF StartRequest, Quiet, TypeOK
<1>24. ASSUME NEW l \in Calls, EndRequest(l) PROVE Quiet
  BY <1>24 DEF EndRequest, Quiet, TypeOK
<1>25. ASSUME NEW l \in Calls, NEW s \in Wipes, RequestWrites(l, s) PROVE Quiet
  BY <1>25 DEF RequestWrites, Quiet, TypeOK
<1>26. ASSUME NEW u \in Users, Activate(u) PROVE AdminSpared'
  <2> SUFFICES ASSUME NEW d \in Calls, Spared(d)'
               PROVE  \E v \in ActiveAdmins' : v # User(d)'
    BY DEF AdminSpared
  <2>1. ActiveAdmins \subseteq ActiveAdmins'
    BY <1>26 DEF Activate, ActiveAdmins, TypeOK
  <2>2. Guarding(d) /\ d \notin raced /\ User(d) \notin ActiveAdmins' \ ActiveAdmins
    BY <1>26 DEF Activate, Spared, Guarding, Op
  <2>3. Spared(d) /\ User(d)' = User(d)
    BY <1>26, <2>2 DEF Activate, Spared, Op, User
  <2> QED BY <2>1, <2>3 DEF AdminSpared
<1>27. ASSUME NEW u \in Users, FreezeUser(u) PROVE Quiet
  BY <1>27 DEF FreezeUser, Quiet, TypeOK
<1>28. ASSUME NEW u \in Users, UnfreezeUser(u) PROVE Quiet
  BY <1>28 DEF UnfreezeUser, Quiet, TypeOK
<1>29. ASSUME NEW l \in Calls, SetCredential(l) PROVE Quiet
  BY <1>29 DEF SetCredential, Quiet, TypeOK
<1>30. ASSUME NEW l \in Calls, DropToken(l) PROVE Quiet
  BY <1>30 DEF DropToken, Quiet, TypeOK
<1>31. ASSUME UNCHANGED vars PROVE Quiet
  BY <1>31 DEF vars, Quiet
<1> QED
  BY <1>1, <1>2, <1>3, <1>4, <1>5, <1>6, <1>7, <1>8, <1>9, <1>10, <1>11,
     <1>12, <1>13, <1>14, <1>15, <1>16, <1>17, <1>18, <1>19, <1>20, <1>21,
     <1>22, <1>23, <1>24, <1>25, <1>26, <1>27, <1>28, <1>29, <1>30, <1>31,
     QuietKeeps, NotedKeeps
     DEF Next, AdminStep, DeleteStep, LoginStep, SessionStep, UserStep

\* Only the writes of a role or a status change who the active admins are, and
\* only one that a race or a deletion explains takes the last.
LEMMA GuardStep ==
  ASSUME TypeOK, Phased, AdminSpared, [Next]_vars,
         ActiveAdmins # {}, ActiveAdmins' = {}
  PROVE  \E c \in Calls : /\ pc[c] = "update" /\ pc'[c] # "update"
                          /\ c \in raced \/ Op(c) = "delete"
<1> USE DEF Step, callVars, userVars, liveVars, history
<1>1. ~UNCHANGED userVars
  BY DEF ActiveAdmins
<1>2. ASSUME NEW c \in Calls, WriteSuspended(c) PROVE c \in raced /\ pc'[c] # "update"
  <2>1. \A v \in ActiveAdmins : v # User(c) => v \in ActiveAdmins'
    BY <1>2 DEF WriteSuspended, ActiveAdmins, TypeOK
  <2>2. \A v \in ActiveAdmins : v = User(c)
    BY <2>1
  <2>3. ~Spared(c)
    BY <2>2 DEF AdminSpared
  <2> QED BY <1>2, <2>2, <2>3 DEF WriteSuspended, Spared, TypeOK
<1>3. ASSUME NEW c \in Calls, WriteRole(c) PROVE c \in raced /\ pc'[c] # "update"
  <2>1. \A v \in ActiveAdmins : v # User(c) => v \in ActiveAdmins'
    BY <1>3 DEF WriteRole, ActiveAdmins, TypeOK
  <2>2. \A v \in ActiveAdmins : v = User(c)
    BY <2>1
  <2>3. req[c].role # "admin"
    BY <1>3, <2>2 DEF WriteRole, ActiveAdmins, TypeOK
  <2>4. ~Spared(c)
    BY <2>2 DEF AdminSpared
  <2> QED BY <1>3, <2>2, <2>3, <2>4 DEF WriteRole, Spared, TypeOK
<1>4. ASSUME NEW c \in Calls, WriteOffboarded(c)
      PROVE  Op(c) = "delete" /\ pc[c] = "update" /\ pc'[c] # "update"
  BY <1>4 DEF WriteOffboarded, TypeOK
<1>5. ASSUME NEW c \in Calls, EnsureUser(c) PROVE FALSE
  BY <1>5 DEF EnsureUser, ActiveAdmins, TypeOK
<1>6. ASSUME NEW u \in Users, Activate(u) PROVE FALSE
  BY <1>6 DEF Activate, ActiveAdmins, TypeOK
<1>7. \/ \E c \in Calls : WriteSuspended(c) \/ WriteRole(c) \/ WriteOffboarded(c) \/ EnsureUser(c)
      \/ \E u \in Users : Activate(u)
  BY <1>1
     DEF Next, AdminStep, DeleteStep, LoginStep, SessionStep, UserStep, vars, Begin,
         Refuse, GetTarget, CountAdmins, FreezeTarget, WriteFails, DeleteCredential,
         DeleteToken, Terminate, WipeNext, WipeFails, WriteOffboardedFails,
         LoginAllowed, LoginDenied, CacheToken, StoreCredentials, SkipCredentials,
         OpenSession, StartRequest, SetCredential, DropToken, RequestWrites, EndRequest,
         FreezeUser, UnfreezeUser
<1> QED BY <1>2, <1>3, <1>4, <1>5, <1>6, <1>7 DEF WriteSuspended, WriteRole

\* The guard keeps an active admin, for any number of users and concurrent
\* calls, unless the call was raced or is a deletion.
THEOREM GuardHolds == Spec => GuardKeepsAnAdmin
<1> DEFINE IInv == TypeOK /\ Phased /\ AdminSpared
<1>1. Init => IInv
  BY TypeInit DEF Init, AdminSpared, Spared
<1>2. IInv /\ [Next]_vars => IInv'
  BY TypeNext, PhasedNext, AdminSparedNext
<1>3. IInv /\ [Next]_vars =>
        [ActiveAdmins # {} /\ ActiveAdmins' = {} =>
           \E c \in Calls : /\ pc[c] = "update" /\ pc'[c] # "update"
                            /\ c \in raced \/ Op(c) = "delete"]_vars
  BY GuardStep
<1> QED BY <1>1, <1>2, <1>3, PTL DEF Spec, GuardKeepsAnAdmin

-----------------------------------------------------------------------------
(* Bans: suspensions and deletions.                                         *)

\* A deletion under way or done, a suspension that has returned and stands: the
\* logins they overlap with, or do not keep out, are on record.
Recording(c) ==
  \/ Op(c) = "delete" /\ (Deleting(c) \/ pc[c] = "done")
  \/ Op(c) = "suspend" /\ pc[c] = "done" /\ c \in standing

\* The sessions have been ended.
LoggedOut(c) ==
  \/ Op(c) = "delete" /\ pc[c] \in {"wipe", "update", "done"}
  \/ Op(c) = "suspend" /\ pc[c] = "done" /\ c \in standing

Flying == {"ensure", "cache", "key", "session"}

BanInv ==
  /\ \A c \in standing :
       /\ status[User(c)] \in {"suspended", "offboarded"}
       /\ \/ Op(c) = "suspend" /\ pc[c] \in {"terminate", "done"}
          \/ Op(c) = "delete" /\ pc[c] = "done"
  /\ \A c, l \in Calls : User(l) = User(c) =>
       /\ Recording(c) /\ pc[l] \in Flying => l \in late[c]
       /\ LoggedOut(c) /\ l \in sessions => l \in late[c]

\* Where a call may start.
LEMMA BeginsAt ==
  ASSUME TypeOK, NEW c \in Calls, Begin(c)
  PROVE  pc'[c] \in {"get", "credential", "check"}
<1>1. Op(c) \in {"suspend", "role", "delete", "login"}
  BY AccountsAssumption DEF TypeOK, Requests, Op
<1>2. /\ First["suspend"] = "get" /\ First["role"] = "get"
      /\ First["delete"] = "credential" /\ First["login"] = "check"
  BY DEF First
<1>3. pc'[c] = First[Op(c)]
  BY DEF Begin, Step, TypeOK
<1> QED BY <1>1, <1>2, <1>3, Zenon

\* A step of one call that writes neither statuses nor records, and brings no
\* login into flight and no deletion under way, keeps what a ban has recorded.
LEMMA BanWalk ==
  ASSUME TypeOK, BanInv, NEW c \in Calls, NEW p,
         pc' = [pc EXCEPT ![c] = p], pc[c] \notin {"terminate", "done"},
         UNCHANGED <<req, standing, status, late, sessions>>,
         p \in Flying => pc[c] \in Flying,
         Op(c) = "delete" /\ p \in {"credential", "token", "terminate", "wipe", "update", "done"}
           => Deleting(c),
         Op(c) = "delete" /\ p \in {"wipe", "update", "done"} => pc[c] \in {"wipe", "update"}
  PROVE  BanInv'
<1>1. c \notin standing
  BY DEF BanInv
<1>2. /\ \A d \in Calls : d # c => pc'[d] = pc[d]
      /\ pc'[c] = p
      /\ standing \subseteq Calls
  BY DEF TypeOK
<1>3. \A d \in Calls : Op(d)' = Op(d) /\ User(d)' = User(d)
  BY DEF Op, User
<1>4. \A d \in Calls : pc'[d] \in Flying => pc[d] \in Flying
  BY <1>2
<1>5. \A d \in Calls : (Deleting(d)' \/ pc'[d] = "done") /\ Op(d) = "delete"
                         => Deleting(d) \/ pc[d] = "done"
  BY <1>2 DEF Deleting
<1>6. \A d \in Calls : Recording(d)' => Recording(d)
  BY <1>1, <1>2, <1>3, <1>5 DEF Recording
<1>7. \A d \in Calls : LoggedOut(d)' => LoggedOut(d)
  BY <1>1, <1>2, <1>3 DEF LoggedOut
<1>8. \A d \in standing : pc'[d] = pc[d]
  BY <1>1, <1>2
<1>9. \A d \in standing' :
        /\ status'[User(d)'] \in {"suspended", "offboarded"}
        /\ \/ Op(d)' = "suspend" /\ pc'[d] \in {"terminate", "done"}
           \/ Op(d)' = "delete" /\ pc'[d] = "done"
  BY <1>2, <1>3, <1>8 DEF BanInv
<1>10. \A d, l \in Calls : User(l)' = User(d)' =>
         /\ Recording(d)' /\ pc'[l] \in Flying => l \in late'[d]
         /\ LoggedOut(d)' /\ l \in sessions' => l \in late'[d]
  BY <1>3, <1>4, <1>6, <1>7 DEF BanInv
<1>11. Flying' = Flying
  BY DEF Flying
<1> QED BY <1>9, <1>10, <1>11 DEF BanInv

\* Every step keeps what a ban has recorded.
LEMMA BanNext ==
  ASSUME TypeOK, Phased, BanInv, [Next]_vars
  PROVE  BanInv'
<1> USE DEF TypeOK, Step, Op, User, BanInv, Recording, LoggedOut, Deleting, Flying,
            callVars, userVars, liveVars, history
<1>1. ASSUME NEW c \in Calls, Begin(c) PROVE BanInv'
  <2>1. /\ pc' = [pc EXCEPT ![c] = First[Op(c)]] /\ pc[c] = "idle"
        /\ late' = [late EXCEPT ![c] = IF Op(c) = "delete" THEN InFlight(User(c)) ELSE {}]
        /\ UNCHANGED <<req, standing, status, sessions>>
    BY <1>1 DEF Begin
  <2>2. pc'[c] \in {"get", "credential", "check"}
    BY <1>1, BeginsAt
  <2>3. c \notin standing
    BY <2>1
  <2>4. \A d \in Calls : d # c => pc'[d] = pc[d] /\ late'[d] = late[d]
    BY <2>1
  <2>5. Op(c) = "delete" => \A l \in Calls : User(l) = User(c) /\ pc[l] \in Flying => l \in late'[c]
    BY <2>1 DEF InFlight
  <2>6. ~LoggedOut(c)' /\ pc'[c] \notin Flying /\ (Recording(c)' => Op(c) = "delete")
    BY <2>1, <2>2, <2>3
  <2>7. \A d \in Calls : d # c => /\ Recording(d)' => Recording(d)
                                  /\ LoggedOut(d)' => LoggedOut(d)
    BY <2>1, <2>4
  <2>8. \A d \in standing' :
          /\ status'[User(d)'] \in {"suspended", "offboarded"}
          /\ \/ Op(d)' = "suspend" /\ pc'[d] \in {"terminate", "done"}
             \/ Op(d)' = "delete" /\ pc'[d] = "done"
    BY <2>1, <2>3, <2>4
  <2>9. req' = req /\ sessions' = sessions
    BY <2>1
  <2> HIDE DEF Recording, LoggedOut, Deleting
  <2>10. \A d, l \in Calls : User(l) = User(d) =>
           /\ Recording(d)' /\ pc'[l] \in Flying => l \in late'[d]
           /\ LoggedOut(d)' /\ l \in sessions => l \in late'[d]
    <3> SUFFICES ASSUME NEW d \in Calls, NEW l \in Calls, User(l) = User(d)
                 PROVE  /\ Recording(d)' /\ pc'[l] \in Flying => l \in late'[d]
                        /\ LoggedOut(d)' /\ l \in sessions => l \in late'[d]
      OBVIOUS
    <3> HIDE DEF TypeOK, Flying
    <3>1. pc'[l] \in Flying => pc[l] \in Flying
      BY <2>4, <2>6
    <3>2. CASE d = c
      BY <2>5, <2>6, <3>1, <3>2
    <3>3. CASE d # c
      BY <2>4, <2>7, <3>1, <3>3
    <3> QED BY <3>2, <3>3
  <2> HIDE DEF TypeOK, Flying
  <2> QED BY <2>8, <2>9, <2>10
<1>2. ASSUME NEW c \in Calls, Refuse(c) PROVE BanInv'
  <2>1. /\ \E p \in {"refused"} : pc' = [pc EXCEPT ![c] = p]
        /\ pc[c] = "idle"
        /\ UNCHANGED <<req, standing, status, late, sessions>>
    BY <1>2 DEF Refuse
  <2> HIDE DEF TypeOK, BanInv
  <2> QED BY <2>1, BanWalk
<1>3. ASSUME NEW c \in Calls, GetTarget(c) PROVE BanInv'
  <2>1. /\ \E p \in {"refused", "count", "freeze", "update"} : pc' = [pc EXCEPT ![c] = p]
        /\ pc[c] = "get" /\ Op(c) \in {"suspend", "role"}
        /\ UNCHANGED <<req, standing, status, late, sessions>>
    BY <1>3 DEF GetTarget, PastGuard, Phased
  <2> HIDE DEF TypeOK, BanInv
  <2> QED BY <2>1, BanWalk
<1>4. ASSUME NEW c \in Calls, CountAdmins(c) PROVE BanInv'
  <2>1. /\ \E p \in {"refused", "freeze", "update"} : pc' = [pc EXCEPT ![c] = p]
        /\ pc[c] = "count" /\ Op(c) \in {"suspend", "role"}
        /\ UNCHANGED <<req, standing, status, late, sessions>>
    BY <1>4 DEF CountAdmins, PastGuard, Phased
  <2> HIDE DEF TypeOK, BanInv
  <2> QED BY <2>1, BanWalk
<1>5. ASSUME NEW c \in Calls, FreezeTarget(c) PROVE BanInv'
  <2>1. /\ \E p \in {"update"} : pc' = [pc EXCEPT ![c] = p]
        /\ pc[c] = "freeze" /\ Op(c) = "suspend"
        /\ UNCHANGED <<req, standing, status, late, sessions>>
    BY <1>5 DEF FreezeTarget, Phased
  <2> HIDE DEF TypeOK, BanInv
  <2> QED BY <2>1, BanWalk
<1>6. ASSUME NEW c \in Calls, WriteSuspended(c) PROVE BanInv'
  <2>1. /\ standing' = standing \cup {c} /\ status' = [status EXCEPT ![User(c)] = "suspended"]
        /\ pc' = [pc EXCEPT ![c] = "terminate"] /\ pc[c] = "update" /\ Op(c) = "suspend"
        /\ UNCHANGED <<req, late, sessions>>
    BY <1>6 DEF WriteSuspended
  <2>2. c \notin standing
    BY <2>1
  <2>3. \A d \in standing' :
          /\ status'[User(d)] \in {"suspended", "offboarded"}
          /\ \/ Op(d) = "suspend" /\ pc'[d] \in {"terminate", "done"}
             \/ Op(d) = "delete" /\ pc'[d] = "done"
    BY <2>1, <2>2 DEF Requests
  <2>4. \A d \in Calls : /\ Recording(d)' => Recording(d)
                         /\ LoggedOut(d)' => LoggedOut(d)
                         /\ pc'[d] \in Flying => pc[d] \in Flying
    BY <2>1
  <2> HIDE DEF Recording, LoggedOut, Flying
  <2> QED BY <2>1, <2>3, <2>4
<1>7. ASSUME NEW c \in Calls, WriteRole(c) PROVE BanInv'
  <2>1. /\ \E p \in {"done"} : pc' = [pc EXCEPT ![c] = p]
        /\ pc[c] = "update"
        /\ UNCHANGED <<req, standing, status, late, sessions>>
    BY <1>7 DEF WriteRole
  <2> HIDE DEF TypeOK, BanInv
  <2> QED BY <2>1, BanWalk
<1>8. ASSUME NEW c \in Calls, WriteFails(c) PROVE BanInv'
  <2>1. /\ \E p \in {"failed"} : pc' = [pc EXCEPT ![c] = p]
        /\ pc[c] = "update"
        /\ UNCHANGED <<req, standing, status, late, sessions>>
    BY <1>8 DEF WriteFails
  <2> HIDE DEF TypeOK, BanInv
  <2> QED BY <2>1, BanWalk
<1>9. ASSUME NEW c \in Calls, DeleteCredential(c) PROVE BanInv'
  <2>1. /\ \E p \in {"token"} : pc' = [pc EXCEPT ![c] = p]
        /\ pc[c] = "credential"
        /\ UNCHANGED <<req, standing, status, late, sessions>>
    BY <1>9 DEF DeleteCredential
  <2> HIDE DEF TypeOK, BanInv
  <2> QED BY <2>1, BanWalk
<1>10. ASSUME NEW c \in Calls, DeleteToken(c) PROVE BanInv'
  <2>1. /\ \E p \in {"terminate"} : pc' = [pc EXCEPT ![c] = p]
        /\ pc[c] = "token"
        /\ UNCHANGED <<req, standing, status, late, sessions>>
    BY <1>10 DEF DeleteToken
  <2> HIDE DEF TypeOK, BanInv
  <2> QED BY <2>1, BanWalk
<1>11. ASSUME NEW c \in Calls, Terminate(c) PROVE BanInv'
  <2>1. /\ UNCHANGED <<req, standing, status>>
        /\ sessions' = {l \in sessions : User(l) # User(c)}
        /\ late' = [late EXCEPT ![c] = IF Op(c) = "suspend" THEN InFlight(User(c)) ELSE @]
        /\ pc[c] = "terminate" /\ Op(c) \in {"suspend", "delete"}
        /\ \A d \in Calls : d # c => pc'[d] = pc[d] /\ late'[d] = late[d]
    BY <1>11 DEF Terminate, Phased
  <2>2. pc'[c] \in IF Op(c) = "suspend" THEN {"done"} ELSE {"wipe", "update"}
    BY <1>11, <2>1 DEF Terminate
  <2>3. \A d \in standing' :
          /\ status'[User(d)] \in {"suspended", "offboarded"}
          /\ \/ Op(d) = "suspend" /\ pc'[d] \in {"terminate", "done"}
             \/ Op(d) = "delete" /\ pc'[d] = "done"
    BY <2>1, <2>2
  <2>4. \A d \in Calls : pc'[d] \in Flying => pc[d] \in Flying
    BY <2>1, <2>2
  <2>5. CASE Op(c) = "suspend"
    <3>1. \A l \in Calls : User(l) = User(c) /\ pc[l] \in Flying => l \in late'[c]
      BY <2>1, <2>5 DEF InFlight
    <3>2. \A l \in sessions' : User(l) # User(c)
      BY <2>1
    <3>3. \A d \in Calls : d # c => /\ Recording(d)' => Recording(d)
                                    /\ LoggedOut(d)' => LoggedOut(d)
      BY <2>1
    <3> HIDE DEF Recording, LoggedOut, Deleting, Flying
    <3> QED BY <2>1, <2>3, <2>4, <3>1, <3>2, <3>3 DEF Flying
  <2>6. CASE Op(c) = "delete"
    <3>1. late' = late
      BY <2>1, <2>6
    <3>2. \A d \in Calls : /\ Recording(d)' => Recording(d)
                           /\ d # c /\ LoggedOut(d)' => LoggedOut(d)
      BY <2>1, <2>2, <2>6
    <3>3. \A l \in sessions' : User(l) # User(c)
      BY <2>1
    <3> HIDE DEF Recording, LoggedOut, Deleting, Flying
    <3> QED BY <2>1, <2>3, <2>4, <3>1, <3>2, <3>3 DEF Flying
  <2> QED BY <2>1, <2>5, <2>6
<1>12. ASSUME NEW c \in Calls, WipeNext(c) PROVE BanInv'
  <2>1. /\ \E p \in {"wipe", "update"} : pc' = [pc EXCEPT ![c] = p]
        /\ pc[c] = "wipe"
        /\ UNCHANGED <<req, standing, status, late, sessions>>
    BY <1>12 DEF WipeNext, Advance
  <2> HIDE DEF TypeOK, BanInv
  <2> QED BY <2>1, BanWalk
<1>13. ASSUME NEW c \in Calls, WipeFails(c) PROVE BanInv'
  <2>1. /\ \E p \in {"wipe", "update"} : pc' = [pc EXCEPT ![c] = p]
        /\ pc[c] = "wipe"
        /\ UNCHANGED <<req, standing, status, late, sessions>>
    BY <1>13 DEF WipeFails, Advance
  <2> HIDE DEF TypeOK, BanInv
  <2> QED BY <2>1, BanWalk
<1>14. ASSUME NEW c \in Calls, WriteOffboarded(c) PROVE BanInv'
  <2>1. /\ standing' = standing \cup {c} /\ status' = [status EXCEPT ![User(c)] = "offboarded"]
        /\ pc' = [pc EXCEPT ![c] = "done"] /\ pc[c] = "update" /\ Op(c) = "delete"
        /\ UNCHANGED <<req, late, sessions>>
    BY <1>14 DEF WriteOffboarded
  <2>2. c \notin standing
    BY <2>1
  <2>3. \A d \in standing' :
          /\ status'[User(d)] \in {"suspended", "offboarded"}
          /\ \/ Op(d) = "suspend" /\ pc'[d] \in {"terminate", "done"}
             \/ Op(d) = "delete" /\ pc'[d] = "done"
    BY <2>1, <2>2 DEF Requests
  <2>4. \A d \in Calls : /\ Recording(d)' => Recording(d)
                         /\ LoggedOut(d)' => LoggedOut(d)
                         /\ pc'[d] \in Flying => pc[d] \in Flying
    BY <2>1
  <2> HIDE DEF Recording, LoggedOut, Flying
  <2> QED BY <2>1, <2>3, <2>4
<1>15. ASSUME NEW c \in Calls, WriteOffboardedFails(c) PROVE BanInv'
  <2>1. /\ \E p \in {"done"} : pc' = [pc EXCEPT ![c] = p]
        /\ pc[c] = "update"
        /\ UNCHANGED <<req, standing, status, late, sessions>>
    BY <1>15 DEF WriteOffboardedFails
  <2> HIDE DEF TypeOK, BanInv
  <2> QED BY <2>1, BanWalk
<1>16. ASSUME NEW c \in Calls, LoginAllowed(c) PROVE BanInv'
  <2>1. /\ UNCHANGED <<req, standing, status, sessions>> /\ pc[c] = "check"
        /\ pc' = [pc EXCEPT ![c] = "ensure"]
        /\ status[User(c)] \notin {"suspended", "offboarded"}
    BY <1>16 DEF LoginAllowed
  <2>2. \A d \in Calls : /\ late[d] \subseteq late'[d]
                         /\ Op(d) = "delete" /\ User(d) = User(c) /\ (Deleting(d) \/ pc[d] = "done")
                            => c \in late'[d]
    BY <1>16 DEF LoginAllowed
  <2>3. \A d \in standing : User(d) # User(c)
    BY <2>1
  <2>4. \A d \in Calls : /\ Recording(d)' => Recording(d)
                         /\ LoggedOut(d)' => LoggedOut(d)
                         /\ pc'[d] \in Flying => pc[d] \in Flying \/ d = c
    BY <2>1, Phased
  <2>5. \A d \in standing' :
          /\ status'[User(d)] \in {"suspended", "offboarded"}
          /\ \/ Op(d) = "suspend" /\ pc'[d] \in {"terminate", "done"}
             \/ Op(d) = "delete" /\ pc'[d] = "done"
    BY <2>1
  <2>6. \A d \in Calls : Recording(d) /\ User(d) = User(c) => c \in late'[d]
    BY <2>2, <2>3
  <2> HIDE DEF Recording, LoggedOut, Flying
  <2> QED BY <2>1, <2>2, <2>4, <2>5, <2>6
<1>17. ASSUME NEW c \in Calls, LoginDenied(c) PROVE BanInv'
  <2>1. /\ \E p \in {"refused"} : pc' = [pc EXCEPT ![c] = p]
        /\ pc[c] = "check"
        /\ UNCHANGED <<req, standing, status, late, sessions>>
    BY <1>17 DEF LoginDenied
  <2> HIDE DEF TypeOK, BanInv
  <2> QED BY <2>1, BanWalk
<1>18. ASSUME NEW c \in Calls, EnsureUser(c) PROVE BanInv'
  BY <1>18 DEF EnsureUser
<1>19. ASSUME NEW c \in Calls, CacheToken(c) PROVE BanInv'
  <2>1. /\ \E p \in {"key"} : pc' = [pc EXCEPT ![c] = p]
        /\ pc[c] = "cache"
        /\ UNCHANGED <<req, standing, status, late, sessions>>
    BY <1>19 DEF CacheToken
  <2> HIDE DEF TypeOK, BanInv
  <2> QED BY <2>1, BanWalk
<1>20. ASSUME NEW c \in Calls, StoreCredentials(c) PROVE BanInv'
  <2>1. /\ \E p \in {"session"} : pc' = [pc EXCEPT ![c] = p]
        /\ pc[c] = "key"
        /\ UNCHANGED <<req, standing, status, late, sessions>>
    BY <1>20 DEF StoreCredentials
  <2> HIDE DEF TypeOK, BanInv
  <2> QED BY <2>1, BanWalk
<1>21. ASSUME NEW c \in Calls, SkipCredentials(c) PROVE BanInv'
  <2>1. /\ \E p \in {"session"} : pc' = [pc EXCEPT ![c] = p]
        /\ pc[c] = "key"
        /\ UNCHANGED <<req, standing, status, late, sessions>>
    BY <1>21 DEF SkipCredentials
  <2> HIDE DEF TypeOK, BanInv
  <2> QED BY <2>1, BanWalk
<1>22. ASSUME NEW c \in Calls, OpenSession(c) PROVE BanInv'
  <2>1. /\ sessions' = sessions \cup {c} /\ pc[c] = "session"
        /\ pc' = [pc EXCEPT ![c] = "done"] /\ Op(c) = "login"
        /\ UNCHANGED <<req, standing, status, late>>
    BY <1>22 DEF OpenSession, Phased
  <2>2. \A d \in standing' :
          /\ status'[User(d)] \in {"suspended", "offboarded"}
          /\ \/ Op(d) = "suspend" /\ pc'[d] \in {"terminate", "done"}
             \/ Op(d) = "delete" /\ pc'[d] = "done"
    BY <2>1
  <2>3. \A d \in Calls : /\ Recording(d)' => Recording(d)
                         /\ LoggedOut(d)' => LoggedOut(d)
                         /\ LoggedOut(d) => Recording(d)
                         /\ pc'[d] \in Flying => pc[d] \in Flying
    BY <2>1
  <2>4. pc[c] \in Flying
    BY <2>1
  <2> HIDE DEF Recording, LoggedOut, Flying, TypeOK
  <2> QED BY <2>1, <2>2, <2>3, <2>4
<1>23. ASSUME NEW l \in Calls, StartRequest(l) PROVE BanInv'
  BY <1>23 DEF StartRequest
<1>24. ASSUME NEW l \in Calls, EndRequest(l) PROVE BanInv'
  BY <1>24 DEF EndRequest
<1>25. ASSUME NEW l \in Calls, NEW s \in Wipes, RequestWrites(l, s) PROVE BanInv'
  BY <1>25 DEF RequestWrites
<1>26. ASSUME NEW u \in Users, Activate(u) PROVE BanInv'
  BY <1>26 DEF Activate
<1>27. ASSUME NEW u \in Users, FreezeUser(u) PROVE BanInv'
  BY <1>27 DEF FreezeUser
<1>28. ASSUME NEW u \in Users, UnfreezeUser(u) PROVE BanInv'
  BY <1>28 DEF UnfreezeUser
<1>29. ASSUME NEW l \in Calls, SetCredential(l) PROVE BanInv'
  BY <1>29 DEF SetCredential
<1>30. ASSUME NEW l \in Calls, DropToken(l) PROVE BanInv'
  BY <1>30 DEF DropToken
<1>31. CASE UNCHANGED vars
  BY <1>31 DEF vars
<1> QED
  BY <1>1, <1>2, <1>3, <1>4, <1>5, <1>6, <1>7, <1>8, <1>9, <1>10, <1>11,
     <1>12, <1>13, <1>14, <1>15, <1>16, <1>17, <1>18, <1>19, <1>20, <1>21,
     <1>22, <1>23, <1>24, <1>25, <1>26, <1>27, <1>28, <1>29, <1>30, <1>31
     DEF Next, AdminStep, DeleteStep, LoginStep, SessionStep, UserStep

\* A suspension that is past its freeze has left the user frozen, and so has one
\* that failed.
FreezeInv ==
  \A c \in Calls :
    Op(c) = "suspend" /\ (pc[c] \in {"update", "terminate", "failed"} \/ c \in standing) =>
      User(c) \in frozen \/ c \in thawed

\* Every step keeps a suspended user frozen, or notes who thawed him.
LEMMA FreezeNext ==
  ASSUME TypeOK, Phased, BanInv, FreezeInv, [Next]_vars
  PROVE  FreezeInv'
<1> USE DEF TypeOK, Step, Op, User, BanInv, FreezeInv, callVars, userVars, liveVars, history
<1>1. ASSUME NEW c \in Calls, Begin(c) PROVE FreezeInv'
  <2>1. pc'[c] \in {"get", "credential", "check"}
    BY <1>1, BeginsAt
  <2> QED BY <1>1, <2>1 DEF Begin
<1>2. ASSUME NEW c \in Calls, Refuse(c) PROVE FreezeInv'
  BY <1>2 DEF Refuse
<1>3. ASSUME NEW c \in Calls, GetTarget(c) PROVE FreezeInv'
  BY <1>3 DEF GetTarget, PastGuard
<1>4. ASSUME NEW c \in Calls, CountAdmins(c) PROVE FreezeInv'
  <2>1. \/ Op(c) = "suspend" /\ pc'[c] \in {"refused", "freeze"}
        \/ Op(c) # "suspend"
    BY <1>4 DEF CountAdmins, PastGuard
  <2>2. UNCHANGED <<req, standing, frozen, thawed>> /\ \A d \in Calls : d # c => pc'[d] = pc[d]
    BY <1>4 DEF CountAdmins
  <2> QED BY <2>1, <2>2
<1>5. ASSUME NEW c \in Calls, FreezeTarget(c) PROVE FreezeInv'
  BY <1>5 DEF FreezeTarget
<1>6. ASSUME NEW c \in Calls, WriteSuspended(c) PROVE FreezeInv'
  BY <1>6 DEF WriteSuspended
<1>7. ASSUME NEW c \in Calls, WriteRole(c) PROVE FreezeInv'
  BY <1>7 DEF WriteRole
<1>8. ASSUME NEW c \in Calls, WriteFails(c) PROVE FreezeInv'
  BY <1>8 DEF WriteFails
<1>9. ASSUME NEW c \in Calls, DeleteCredential(c) PROVE FreezeInv'
  BY <1>9 DEF DeleteCredential
<1>10. ASSUME NEW c \in Calls, DeleteToken(c) PROVE FreezeInv'
  BY <1>10 DEF DeleteToken, Phased
<1>11. ASSUME NEW c \in Calls, Terminate(c) PROVE FreezeInv'
  BY <1>11 DEF Terminate, Phased
<1>12. ASSUME NEW c \in Calls, WipeNext(c) PROVE FreezeInv'
  BY <1>12 DEF WipeNext, Advance, Phased
<1>13. ASSUME NEW c \in Calls, WipeFails(c) PROVE FreezeInv'
  BY <1>13 DEF WipeFails, Advance, Phased
<1>14. ASSUME NEW c \in Calls, WriteOffboarded(c) PROVE FreezeInv'
  BY <1>14 DEF WriteOffboarded
<1>15. ASSUME NEW c \in Calls, WriteOffboardedFails(c) PROVE FreezeInv'
  BY <1>15 DEF WriteOffboardedFails
<1>16. ASSUME NEW c \in Calls, LoginAllowed(c) PROVE FreezeInv'
  BY <1>16 DEF LoginAllowed
<1>17. ASSUME NEW c \in Calls, LoginDenied(c) PROVE FreezeInv'
  BY <1>17 DEF LoginDenied
<1>18. ASSUME NEW c \in Calls, EnsureUser(c) PROVE FreezeInv'
  BY <1>18 DEF EnsureUser
<1>19. ASSUME NEW c \in Calls, CacheToken(c) PROVE FreezeInv'
  BY <1>19 DEF CacheToken
<1>20. ASSUME NEW c \in Calls, StoreCredentials(c) PROVE FreezeInv'
  BY <1>20 DEF StoreCredentials
<1>21. ASSUME NEW c \in Calls, SkipCredentials(c) PROVE FreezeInv'
  BY <1>21 DEF SkipCredentials
<1>22. ASSUME NEW c \in Calls, OpenSession(c) PROVE FreezeInv'
  BY <1>22 DEF OpenSession
<1>23. ASSUME NEW l \in Calls, StartRequest(l) PROVE FreezeInv'
  BY <1>23 DEF StartRequest
<1>24. ASSUME NEW l \in Calls, EndRequest(l) PROVE FreezeInv'
  BY <1>24 DEF EndRequest
<1>25. ASSUME NEW l \in Calls, NEW s \in Wipes, RequestWrites(l, s) PROVE FreezeInv'
  BY <1>25 DEF RequestWrites
<1>26. ASSUME NEW u \in Users, Activate(u) PROVE FreezeInv'
  BY <1>26 DEF Activate
<1>27. ASSUME NEW u \in Users, FreezeUser(u) PROVE FreezeInv'
  BY <1>27 DEF FreezeUser
<1>28. ASSUME NEW u \in Users, UnfreezeUser(u) PROVE FreezeInv'
  BY <1>28 DEF UnfreezeUser
<1>29. ASSUME NEW l \in Calls, SetCredential(l) PROVE FreezeInv'
  BY <1>29 DEF SetCredential
<1>30. ASSUME NEW l \in Calls, DropToken(l) PROVE FreezeInv'
  BY <1>30 DEF DropToken
<1>31. CASE UNCHANGED vars
  BY <1>31 DEF vars
<1> QED
  BY <1>1, <1>2, <1>3, <1>4, <1>5, <1>6, <1>7, <1>8, <1>9, <1>10, <1>11,
     <1>12, <1>13, <1>14, <1>15, <1>16, <1>17, <1>18, <1>19, <1>20, <1>21,
     <1>22, <1>23, <1>24, <1>25, <1>26, <1>27, <1>28, <1>29, <1>30, <1>31
     DEF Next, AdminStep, DeleteStep, LoginStep, SessionStep, UserStep

\* A request that runs between the deletion of the credential and the end of the
\* sessions is on record for that; one that runs when they are gone was running
\* when they went, and so is on record for both, or belongs to a login that
\* overlapped with the deletion or was not kept out.
RequestInv ==
  \A e \in Calls : Op(e) = "delete" =>
    /\ pc[e] \in {"token", "terminate"} =>
         \A l \in requests : User(l) = User(e) => l \in midway[e]
    /\ LoggedOut(e) =>
         /\ busy[e] \subseteq midway[e]
         /\ \A l \in requests : User(l) = User(e) => l \in late[e] \cup busy[e]

\* Every step keeps the account of the requests that outlive their session.
LEMMA RequestNext ==
  ASSUME TypeOK, Phased, BanInv, RequestInv, [Next]_vars
  PROVE  RequestInv'
<1> USE DEF TypeOK, Step, Op, User, BanInv, LoggedOut, RequestInv,
            callVars, userVars, liveVars, history
<1>1. ASSUME NEW c \in Calls, Begin(c) PROVE RequestInv'
  <2>1. pc'[c] \in {"get", "credential", "check"}
    BY <1>1, BeginsAt
  <2> QED BY <1>1, <2>1 DEF Begin
<1>2. ASSUME NEW c \in Calls, Refuse(c) PROVE RequestInv'
  BY <1>2 DEF Refuse
<1>3. ASSUME NEW c \in Calls, GetTarget(c) PROVE RequestInv'
  BY <1>3 DEF GetTarget, PastGuard, Phased
<1>4. ASSUME NEW c \in Calls, CountAdmins(c) PROVE RequestInv'
  <2>1. Op(c) # "delete" /\ pc[c] = "count"
    BY <1>4 DEF CountAdmins, Phased
  <2>2. /\ UNCHANGED <<req, standing, late, requests, busy, midway>>
        /\ \A d \in Calls : d # c => pc'[d] = pc[d]
    BY <1>4 DEF CountAdmins
  <2> QED BY <2>1, <2>2
<1>5. ASSUME NEW c \in Calls, FreezeTarget(c) PROVE RequestInv'
  BY <1>5 DEF FreezeTarget, Phased
<1>6. ASSUME NEW c \in Calls, WriteSuspended(c) PROVE RequestInv'
  BY <1>6 DEF WriteSuspended
<1>7. ASSUME NEW c \in Calls, WriteRole(c) PROVE RequestInv'
  BY <1>7 DEF WriteRole
<1>8. ASSUME NEW c \in Calls, WriteFails(c) PROVE RequestInv'
  BY <1>8 DEF WriteFails
<1>9. ASSUME NEW c \in Calls, DeleteCredential(c) PROVE RequestInv'
  BY <1>9 DEF DeleteCredential
<1>10. ASSUME NEW c \in Calls, DeleteToken(c) PROVE RequestInv'
  BY <1>10 DEF DeleteToken, Phased
<1>11. ASSUME NEW c \in Calls, Terminate(c) PROVE RequestInv'
  BY <1>11 DEF Terminate
<1>12. ASSUME NEW c \in Calls, WipeNext(c) PROVE RequestInv'
  BY <1>12 DEF WipeNext, Advance
<1>13. ASSUME NEW c \in Calls, WipeFails(c) PROVE RequestInv'
  BY <1>13 DEF WipeFails, Advance
<1>14. ASSUME NEW c \in Calls, WriteOffboarded(c) PROVE RequestInv'
  BY <1>14 DEF WriteOffboarded
<1>15. ASSUME NEW c \in Calls, WriteOffboardedFails(c) PROVE RequestInv'
  BY <1>15 DEF WriteOffboardedFails
<1>16. ASSUME NEW c \in Calls, LoginAllowed(c) PROVE RequestInv'
  BY <1>16 DEF LoginAllowed, Phased
<1>17. ASSUME NEW c \in Calls, LoginDenied(c) PROVE RequestInv'
  BY <1>17 DEF LoginDenied
<1>18. ASSUME NEW c \in Calls, EnsureUser(c) PROVE RequestInv'
  BY <1>18 DEF EnsureUser
<1>19. ASSUME NEW c \in Calls, CacheToken(c) PROVE RequestInv'
  BY <1>19 DEF CacheToken
<1>20. ASSUME NEW c \in Calls, StoreCredentials(c) PROVE RequestInv'
  BY <1>20 DEF StoreCredentials
<1>21. ASSUME NEW c \in Calls, SkipCredentials(c) PROVE RequestInv'
  BY <1>21 DEF SkipCredentials
<1>22. ASSUME NEW c \in Calls, OpenSession(c) PROVE RequestInv'
  BY <1>22 DEF OpenSession, Phased
<1>23. ASSUME NEW l \in Calls, StartRequest(l) PROVE RequestInv'
  BY <1>23 DEF StartRequest
<1>24. ASSUME NEW l \in Calls, EndRequest(l) PROVE RequestInv'
  BY <1>24 DEF EndRequest
<1>25. ASSUME NEW l \in Calls, NEW s \in Wipes, RequestWrites(l, s) PROVE RequestInv'
  BY <1>25 DEF RequestWrites
<1>26. ASSUME NEW u \in Users, Activate(u) PROVE RequestInv'
  BY <1>26 DEF Activate
<1>27. ASSUME NEW u \in Users, FreezeUser(u) PROVE RequestInv'
  BY <1>27 DEF FreezeUser
<1>28. ASSUME NEW u \in Users, UnfreezeUser(u) PROVE RequestInv'
  BY <1>28 DEF UnfreezeUser
<1>29. ASSUME NEW l \in Calls, SetCredential(l) PROVE RequestInv'
  BY <1>29 DEF SetCredential
<1>30. ASSUME NEW l \in Calls, DropToken(l) PROVE RequestInv'
  BY <1>30 DEF DropToken
<1>31. CASE UNCHANGED vars
  BY <1>31 DEF vars
<1> QED
  BY <1>1, <1>2, <1>3, <1>4, <1>5, <1>6, <1>7, <1>8, <1>9, <1>10, <1>11,
     <1>12, <1>13, <1>14, <1>15, <1>16, <1>17, <1>18, <1>19, <1>20, <1>21,
     <1>22, <1>23, <1>24, <1>25, <1>26, <1>27, <1>28, <1>29, <1>30, <1>31
     DEF Next, AdminStep, DeleteStep, LoginStep, SessionStep, UserStep

\* The stores a deletion has been through.
Cleared(e, s) ==
  \/ pc[e] = "done"
  \/ s = "credential" /\ pc[e] \in {"token", "terminate", "wipe", "update"}
  \/ s = "token" /\ pc[e] \in {"terminate", "wipe", "update"}
  \/ pc[e] \in {"wipe", "update"} /\ \E j \in 1..(cursor[e] - 1) : s = Wiped[j]

\* What may be left in one of them.
Explained(e, d) ==
  \/ d.via \in late[e]
  \/ d.via \in busy[e] /\ d.store \in Wipes
  \/ d.via \in midway[e] /\ d.store = "credential"
  \/ e \in botched /\ d.store \in Fallible

StoreInv ==
  \A e \in Calls, d \in data :
    Op(e) = "delete" /\ User(d.via) = User(e) /\ Cleared(e, d.store) => Explained(e, d)

\* Every step keeps what is left in an emptied store explained.
LEMMA StoreNext ==
  ASSUME TypeOK, Phased, BanInv, RequestInv, StoreInv, [Next]_vars
  PROVE  StoreInv'
<1> USE DEF TypeOK, Step, Op, User, Cleared, Explained, StoreInv,
            callVars, userVars, liveVars, history
<1>1. ASSUME NEW c \in Calls, Begin(c) PROVE StoreInv'
  <2>1. pc'[c] \in {"get", "credential", "check"} /\ c \notin standing
    BY <1>1, BeginsAt DEF Begin, BanInv
  <2>2. \A e \in Calls, s \in Stores : Cleared(e, s)' => Cleared(e, s) /\ late'[e] = late[e]
    BY <1>1, <2>1 DEF Begin
  <2> QED BY <1>1, <2>2 DEF Begin
<1>2. ASSUME NEW c \in Calls, Refuse(c) PROVE StoreInv'
  BY <1>2 DEF Refuse
<1>3. ASSUME NEW c \in Calls, GetTarget(c) PROVE StoreInv'
  BY <1>3 DEF GetTarget, PastGuard, Phased
<1>4. ASSUME NEW c \in Calls, CountAdmins(c) PROVE StoreInv'
  <2>1. Op(c) # "delete" /\ pc[c] = "count"
    BY <1>4 DEF CountAdmins, Phased
  <2>2. /\ UNCHANGED <<req, cursor, standing, late, data, busy, midway, botched>>
        /\ \A e \in Calls : e # c => pc'[e] = pc[e]
    BY <1>4 DEF CountAdmins
  <2> QED BY <2>1, <2>2
<1>5. ASSUME NEW c \in Calls, FreezeTarget(c) PROVE StoreInv'
  BY <1>5 DEF FreezeTarget, Phased
<1>6. ASSUME NEW c \in Calls, WriteSuspended(c) PROVE StoreInv'
  BY <1>6 DEF WriteSuspended
<1>7. ASSUME NEW c \in Calls, WriteRole(c) PROVE StoreInv'
  BY <1>7 DEF WriteRole
<1>8. ASSUME NEW c \in Calls, WriteFails(c) PROVE StoreInv'
  BY <1>8 DEF WriteFails
<1>9. ASSUME NEW c \in Calls, DeleteCredential(c) PROVE StoreInv'
  BY <1>9 DEF DeleteCredential, Held
<1>10. ASSUME NEW c \in Calls, DeleteToken(c) PROVE StoreInv'
  BY <1>10 DEF DeleteToken, Phased, Held
<1>11. ASSUME NEW c \in Calls, Terminate(c) PROVE StoreInv'
  <2>1. /\ UNCHANGED <<req, cursor, standing, data, midway, botched>> /\ pc[c] = "terminate"
        /\ \A e \in Calls : e # c => pc'[e] = pc[e] /\ late'[e] = late[e] /\ busy'[e] = busy[e]
    BY <1>11 DEF Terminate
  <2>2. CASE Op(c) = "delete"
    <3>1. cursor[c] = 1 /\ c \notin standing /\ late'[c] = late[c] /\ pc'[c] \in {"wipe", "update"}
      BY <1>11, <2>2 DEF Terminate, Phased, BanInv
    <3>2. \A s \in Stores : Cleared(c, s)' => s \in {"credential", "token"} /\ Cleared(c, s)
      BY <2>1, <3>1
    <3>3. \A d \in data : Op(c) = "delete" /\ User(d.via) = User(c) /\ Cleared(c, d.store)'
                           => Explained(c, d)'
      BY <2>1, <3>1, <3>2, ConstantTypes
    <3>4. \A e \in Calls, d \in data : e # c => (Explained(e, d)' <=> Explained(e, d))
      BY <2>1
    <3>5. \A e \in Calls, s \in Stores : e # c => (Cleared(e, s)' <=> Cleared(e, s))
      BY <2>1
    <3> HIDE DEF Cleared, Explained
    <3> QED BY <2>1, <3>3, <3>4, <3>5
  <2>3. CASE Op(c) # "delete"
    <3>1. \A e \in Calls, d \in data : e # c => (Explained(e, d)' <=> Explained(e, d))
      BY <2>1
    <3>2. \A e \in Calls, s \in Stores : e # c => (Cleared(e, s)' <=> Cleared(e, s))
      BY <2>1
    <3> HIDE DEF Cleared, Explained
    <3> QED BY <2>1, <2>3, <3>1, <3>2
  <2> QED BY <2>2, <2>3
<1>12. ASSUME NEW c \in Calls, WipeNext(c) PROVE StoreInv'
  <2>1. /\ UNCHANGED <<req, standing, late, busy, midway, botched>> /\ pc[c] = "wipe" /\ Op(c) = "delete"
        /\ \A e \in Calls : e # c => pc'[e] = pc[e] /\ cursor'[e] = cursor[e]
        /\ cursor'[c] = cursor[c] + 1
        /\ data' = data \ Held(User(c), {Wiped[cursor[c]]})
        /\ pc'[c] \in {"wipe", "update"}
    BY <1>12 DEF WipeNext, Advance, Phased
  <2>2. cursor[c] \in Nat /\ Len(Wiped) \in Nat
    BY ConstantTypes
  <2>3. \A s \in Stores : Cleared(c, s)' => Cleared(c, s) \/ s = Wiped[cursor[c]]
    BY <2>1, <2>2
  <2>4. \A d \in data' : d \in data /\ (User(d.via) = User(c) => d.store # Wiped[cursor[c]])
    BY <2>1 DEF Held
  <2>5. \A e \in Calls, s \in Stores : e # c => (Cleared(e, s)' <=> Cleared(e, s))
    BY <2>1
  <2>6. \A e \in Calls, d \in data : Explained(e, d)' <=> Explained(e, d)
    BY <2>1
  <2> HIDE DEF Cleared, Explained
  <2> QED BY <2>1, <2>3, <2>4, <2>5, <2>6
<1>13. ASSUME NEW c \in Calls, WipeFails(c) PROVE StoreInv'
  <2>1. /\ UNCHANGED <<req, standing, late, busy, midway, data>> /\ pc[c] = "wipe" /\ Op(c) = "delete"
        /\ \A e \in Calls : e # c => pc'[e] = pc[e] /\ cursor'[e] = cursor[e]
        /\ cursor'[c] = cursor[c] + 1 /\ Wiped[cursor[c]] \in Fallible
        /\ botched' = botched \cup {c}
        /\ pc'[c] \in {"wipe", "update"}
    BY <1>13 DEF WipeFails, Advance, Phased
  <2>2. cursor[c] \in Nat /\ Len(Wiped) \in Nat
    BY ConstantTypes
  <2>3. \A s \in Stores : Cleared(c, s)' => Cleared(c, s) \/ s = Wiped[cursor[c]]
    BY <2>1, <2>2
  <2>4. \A e \in Calls, s \in Stores : e # c => (Cleared(e, s)' <=> Cleared(e, s))
    BY <2>1
  <2>5. \A e \in Calls, d \in data : Explained(e, d) => Explained(e, d)'
    BY <2>1
  <2>6. \A d \in data : d.store = Wiped[cursor[c]] => Explained(c, d)'
    BY <2>1
  <2> HIDE DEF Cleared, Explained
  <2> QED BY <2>1, <2>3, <2>4, <2>5, <2>6
<1>14. ASSUME NEW c \in Calls, WriteOffboarded(c) PROVE StoreInv'
  <2>1. /\ UNCHANGED <<req, cursor, late, busy, midway, botched, data>>
        /\ pc[c] = "update" /\ Op(c) = "delete"
        /\ \A e \in Calls : e # c => pc'[e] = pc[e]
    BY <1>14 DEF WriteOffboarded
  <2>2. cursor[c] = Len(Wiped) + 1 /\ Len(Wiped) \in Nat
    BY <2>1, ConstantTypes DEF Phased
  <2>3. \A s \in Stores : Cleared(c, s)
    BY <2>1, <2>2 DEF Stores, Wipes
  <2>4. \A e \in Calls, s \in Stores : e # c => (Cleared(e, s)' <=> Cleared(e, s))
    BY <2>1
  <2>5. \A e \in Calls, d \in data : Explained(e, d) <=> Explained(e, d)'
    BY <2>1
  <2> HIDE DEF Cleared, Explained
  <2> QED BY <2>1, <2>3, <2>4, <2>5
<1>15. ASSUME NEW c \in Calls, WriteOffboardedFails(c) PROVE StoreInv'
  <2>1. /\ UNCHANGED <<req, cursor, late, busy, midway, botched, data>>
        /\ pc[c] = "update" /\ Op(c) = "delete"
        /\ \A e \in Calls : e # c => pc'[e] = pc[e]
    BY <1>15 DEF WriteOffboardedFails
  <2>2. cursor[c] = Len(Wiped) + 1 /\ Len(Wiped) \in Nat
    BY <2>1, ConstantTypes DEF Phased
  <2>3. \A s \in Stores : Cleared(c, s)
    BY <2>1, <2>2 DEF Stores, Wipes
  <2>4. \A e \in Calls, s \in Stores : e # c => (Cleared(e, s)' <=> Cleared(e, s))
    BY <2>1
  <2>5. \A e \in Calls, d \in data : Explained(e, d) <=> Explained(e, d)'
    BY <2>1
  <2> HIDE DEF Cleared, Explained
  <2> QED BY <2>1, <2>3, <2>4, <2>5
<1>16. ASSUME NEW c \in Calls, LoginAllowed(c) PROVE StoreInv'
  BY <1>16 DEF LoginAllowed, Phased
<1>17. ASSUME NEW c \in Calls, LoginDenied(c) PROVE StoreInv'
  BY <1>17 DEF LoginDenied
<1>18. ASSUME NEW c \in Calls, EnsureUser(c) PROVE StoreInv'
  BY <1>18 DEF EnsureUser
<1>19. ASSUME NEW c \in Calls, CacheToken(c) PROVE StoreInv'
  <2>1. /\ UNCHANGED <<req, cursor, standing, late, busy, midway, botched>> /\ c \in Calls
        /\ pc[c] \in {"cache", "key"} /\ \A e \in Calls : e # c => pc'[e] = pc[e]
        /\ pc'[c] \in {"key", "session"}
        /\ data' \subseteq data \cup {[store |-> "token", via |-> c]}
    BY <1>19 DEF CacheToken, Put
  <2>2. Op(c) = "login"
    BY <2>1 DEF Phased
  <2>3. \A e \in Calls, s \in Stores :
          Op(e) = "delete" /\ Cleared(e, s)' => Cleared(e, s) /\ Recording(e)
    BY <2>1, <2>2 DEF Recording, Deleting
  <2>4. \A e \in Calls : Recording(e) /\ User(c) = User(e) => c \in late[e]
    BY <2>1 DEF BanInv, Flying
  <2> QED BY <2>1, <2>3, <2>4 DEF Stores
<1>20. ASSUME NEW c \in Calls, StoreCredentials(c) PROVE StoreInv'
  <2>1. /\ UNCHANGED <<req, cursor, standing, late, busy, midway, botched>> /\ c \in Calls
        /\ pc[c] \in {"cache", "key"} /\ \A e \in Calls : e # c => pc'[e] = pc[e]
        /\ pc'[c] \in {"key", "session"}
        /\ data' \subseteq data \cup {[store |-> "credential", via |-> c]}
    BY <1>20 DEF StoreCredentials, Put
  <2>2. Op(c) = "login"
    BY <2>1 DEF Phased
  <2>3. \A e \in Calls, s \in Stores :
          Op(e) = "delete" /\ Cleared(e, s)' => Cleared(e, s) /\ Recording(e)
    BY <2>1, <2>2 DEF Recording, Deleting
  <2>4. \A e \in Calls : Recording(e) /\ User(c) = User(e) => c \in late[e]
    BY <2>1 DEF BanInv, Flying
  <2> QED BY <2>1, <2>3, <2>4 DEF Stores
<1>21. ASSUME NEW c \in Calls, SkipCredentials(c) PROVE StoreInv'
  BY <1>21 DEF SkipCredentials
<1>22. ASSUME NEW c \in Calls, OpenSession(c) PROVE StoreInv'
  BY <1>22 DEF OpenSession, Phased
<1>23. ASSUME NEW l \in Calls, StartRequest(l) PROVE StoreInv'
  BY <1>23 DEF StartRequest
<1>24. ASSUME NEW l \in Calls, EndRequest(l) PROVE StoreInv'
  BY <1>24 DEF EndRequest
<1>25. ASSUME NEW l \in Calls, NEW s \in Wipes, RequestWrites(l, s) PROVE StoreInv'
  <2>1. /\ UNCHANGED <<pc, req, cursor, standing, late, busy, midway, botched>> /\ l \in requests
        /\ data' = data \cup {[store |-> s, via |-> l]}
    BY <1>25 DEF RequestWrites
  <2>2. \A e \in Calls : Op(e) = "delete" /\ Cleared(e, s) => LoggedOut(e)
    BY ConstantTypes DEF LoggedOut
  <2>3. \A e \in Calls : Op(e) = "delete" /\ Cleared(e, s) /\ User(l) = User(e)
                          => l \in late[e] \cup busy[e]
    BY <2>1, <2>2 DEF RequestInv
  <2> QED BY <2>1, <2>3 DEF Stores
<1>26. ASSUME NEW u \in Users, Activate(u) PROVE StoreInv'
  BY <1>26 DEF Activate
<1>27. ASSUME NEW u \in Users, FreezeUser(u) PROVE StoreInv'
  BY <1>27 DEF FreezeUser
<1>28. ASSUME NEW u \in Users, UnfreezeUser(u) PROVE StoreInv'
  BY <1>28 DEF UnfreezeUser
<1>29. ASSUME NEW l \in Calls, SetCredential(l) PROVE StoreInv'
  <2>1. /\ UNCHANGED <<pc, req, cursor, late, busy, midway, botched>> /\ l \in requests
        /\ data' \subseteq data \cup {[store |-> "credential", via |-> l]}
    BY <1>29 DEF SetCredential, Put
  <2>2. \A e \in Calls : Op(e) = "delete" /\ Cleared(e, "credential")
                          => LoggedOut(e) \/ pc[e] \in {"token", "terminate"}
    BY DEF LoggedOut
  <2>3. \A e \in Calls : Op(e) = "delete" /\ Cleared(e, "credential") /\ User(l) = User(e)
                          => l \in late[e] \cup midway[e]
    BY <2>1, <2>2 DEF RequestInv
  <2> QED BY <2>1, <2>3
<1>30. ASSUME NEW l \in Calls, DropToken(l) PROVE StoreInv'
  BY <1>30 DEF DropToken
<1>31. CASE UNCHANGED vars
  BY <1>31 DEF vars
<1> QED
  BY <1>1, <1>2, <1>3, <1>4, <1>5, <1>6, <1>7, <1>8, <1>9, <1>10, <1>11,
     <1>12, <1>13, <1>14, <1>15, <1>16, <1>17, <1>18, <1>19, <1>20, <1>21,
     <1>22, <1>23, <1>24, <1>25, <1>26, <1>27, <1>28, <1>29, <1>30, <1>31
     DEF Next, AdminStep, DeleteStep, LoginStep, SessionStep, UserStep

-----------------------------------------------------------------------------
\* Everything a ban rests on, in one inductive invariant.
Bans == TypeOK /\ Phased /\ BanInv /\ FreezeInv /\ RequestInv /\ StoreInv

\* The invariant holds always.
LEMMA BansInductive == Spec => []Bans
<1>1. Init => Bans
  <2> SUFFICES ASSUME Init PROVE Bans
    OBVIOUS
  <2>1. TypeOK /\ Phased
    BY TypeInit
  <2>2. standing = {} /\ sessions = {} /\ requests = {} /\ data = {}
        /\ \A c \in Calls : pc[c] = "idle"
    BY DEF Init
  <2>3. BanInv
    BY <2>2 DEF BanInv, Recording, LoggedOut, Deleting, Flying
  <2>4. FreezeInv /\ RequestInv /\ StoreInv
    BY <2>2 DEF FreezeInv, RequestInv, StoreInv, LoggedOut
  <2> QED BY <2>1, <2>3, <2>4 DEF Bans
<1>2. Bans /\ [Next]_vars => Bans'
  BY TypeNext, PhasedNext, BanNext, FreezeNext, RequestNext, StoreNext DEF Bans
<1> QED BY <1>1, <1>2, PTL DEF Spec

\* A ban that nobody has lifted leaves the user no session but those of logins
\* it overlapped with, however many bans and logins run at once.
THEOREM BansLogOut == Spec => []BanLogsOut
<1>1. Bans => BanLogsOut
  BY DEF Bans, BanInv, BanLogsOut, LoggedOut, TypeOK, User
<1> QED BY <1>1, BansInductive, PTL

\* A user is frozen from the time his suspension has stood or failed until
\* somebody unfreezes him, however suspensions and freezes interleave.
THEOREM SuspensionsFreeze == Spec => []SuspensionFreezes
<1>1. Bans => SuspensionFreezes
  BY DEF Bans, FreezeInv, SuspensionFreezes, TypeOK
<1> QED BY <1>1, BansInductive, PTL

\* Whatever stores a deletion empties, whichever of them may fail, and whether or
\* not the status could be written, what the user has once it has returned came
\* after it or is explained by what ran beside it: nothing simply outlives him.
THEOREM DeletionsLeaveNothing == Spec => []NothingOutlivesDeletion
<1>1. Bans => NothingOutlivesDeletion
  BY DEF Bans, StoreInv, NothingOutlivesDeletion, Cleared, Explained, Held, TypeOK
<1> QED BY <1>1, BansInductive, PTL
=============================================================================
