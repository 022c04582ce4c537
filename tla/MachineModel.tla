---------------------------- MODULE MachineModel ----------------------------
(***************************************************************************)
(* The instance TLC checks of three components that share no state: the    *)
(* cron jobs with the command line that edits them, the native tools with  *)
(* the operator's emergency stop, and the gateway with its clients.  A     *)
(* behaviour is a behaviour of one of them; the others stay in one of      *)
(* their initial states.                                                   *)
(***************************************************************************)
EXTENDS CronModel, ToolsModel, GatewayModel

VARIABLE machine   \* the component this behaviour is one of

machineVars == <<machine, cronVars, toolVars, gatewayVars>>

MachineInit ==
    /\ machine \in {"cron", "tools", "gateway"}
    /\ CronInit /\ ToolInit /\ GatewayInit
    /\ machine # "cron" => nanocron /\ file.lines = <<>>

MachineNext ==
    /\ UNCHANGED machine
    /\ \/ machine = "cron" /\ CronNext /\ UNCHANGED <<toolVars, gatewayVars>>
       \/ machine = "tools" /\ ToolNext /\ UNCHANGED <<cronVars, gatewayVars>>
       \/ machine = "gateway" /\ GatewayNext /\ UNCHANGED <<cronVars, toolVars>>

MachineSpec == MachineInit /\ [][MachineNext]_machineVars
=============================================================================
