-------------------------------- MODULE MCEditor --------------------------------
(***************************************************************************)
(* The parts of the server that need no timeline in common, side by side   *)
(* in one run and told apart by part: the event hub, the commands, the     *)
(* documents and the definition snapshots.  The variables of the parts     *)
(* that are not running keep their first values.                           *)
(***************************************************************************)
EXTENDS EventHub, Documents, Commands, SnapshotStore

CONSTANTS c1, c2    \* two requests, or two workers
RequestSymmetry == Permutations({c1, c2})

\* The texts and abilities the commands meet.
CommandText ==
  <<<<[kind |-> "read", named |-> TRUE], [kind |-> "call", named |-> FALSE]>>,
    <<[kind |-> "call", named |-> FALSE]>>>>
CommandAbilities == {{"readOnly", "params"}, {"readOnlyParams", "readOnly", "params", "describe", "explain"}}

\* The attempts of two processes.
SnapshotAttempts == <<{1, 2}, {1}>>

VARIABLE part
runVars == <<hubVars, docVars, cmdVars, storeVars, part>>

\* One of the first states of the commands, while another part is running.
OneCommandInit == doc = NoDoc /\ ~ready /\ catalog = "rows"

\* The driver of the first connection implements everything; that of the next may not.
FirstIsAble == "explain" \in abilities

\* The pids are alike, and none but its own is free for a process that comes back.
PidsInOrder == pid = <<1, 2>>

RunInit ==
  /\ part \in {"hub", "documents", "commands", "snapshots"}
  /\ HubInit /\ DocInit /\ CmdInit /\ StoreInit
  /\ part # "commands" => OneCommandInit
  /\ FirstIsAble /\ PidsInOrder

RunNext ==
  /\ UNCHANGED part
  /\ \/ part = "hub"       /\ HubNext   /\ UNCHANGED <<docVars, cmdVars, storeVars>>
     \/ part = "documents" /\ DocNext   /\ UNCHANGED <<hubVars, cmdVars, storeVars>>
     \/ part = "commands"  /\ CmdNext   /\ UNCHANGED <<hubVars, docVars, storeVars>>
     \/ part = "snapshots" /\ StoreNext /\ UNCHANGED <<hubVars, docVars, cmdVars>>

RunSpec == RunInit /\ [][RunNext]_runVars
=============================================================================
