--------------------------------- MODULE Desk ---------------------------------
(***************************************************************************)
(* The commands on the books beside the orders, and the registry of keys.  *)
(* They share no variable, so a behaviour is about one of them.            *)
(***************************************************************************)
EXTENDS BrokerCommands, Registry

VARIABLE part    \* "commands" or "registry"

deskVars == <<brokerVars, registryVars, part>>

Init ==
  /\ BrokerInit
  /\ RegistryInit
  /\ \/ part = "commands"
     \/ part = "registry" /\ book = "gtt" /\ held = {}

Next ==
  /\ UNCHANGED part
  /\ \/ part = "commands" /\ BrokerNext /\ UNCHANGED registryVars
     \/ part = "registry" /\ RegistryNext /\ UNCHANGED brokerVars

Spec == Init /\ [][Next]_deskVars

=============================================================================
