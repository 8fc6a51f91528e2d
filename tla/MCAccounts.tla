----------------------------- MODULE MCAccounts -----------------------------
(* Instances of Accounts for TLC.                                           *)
EXTENDS Accounts, TLC

CONSTANTS u1, u2, u3, c1, c2, c3

\* One store whose cleanup cannot fail and the one whose cleanup can.
TwoStores == <<"alerts", "paper">>
OneStore  == <<"paper">>

\* Neither users nor calls are told apart.
Symmetry == Permutations(Users) \cup Permutations(Calls)

\* What the last-admin guard does takes two users, and no login, which makes only
\* traders; what a ban leaves behind concerns one user, and no role.
Mixes ==
  \/ \A c \in Calls : Op(c) # "login"
  \/ \E u \in Users : /\ \A c \in Calls : Op(c) # "role" /\ User(c) = u
                      /\ \A v \in Users \ {u} : status[v] = "absent"

MixedInit == Init /\ Mixes

MixedSpec == MixedInit /\ [][Next]_vars
=============================================================================
