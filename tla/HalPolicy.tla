------------------------------ MODULE HalPolicy ------------------------------
(***************************************************************************)
(* The two decisions HAL makes about one side-effecting action.  The       *)
(* HalGate RPC (hal/src/main.rs, PolicyHalGate) scores the operation and   *)
(* its path; when it answers approval_required the orchestrator asks again *)
(* on hal.sock (orchestrator/src/approval_socket.rs), where approval_flow  *)
(* grades the request with its own v0 rules.                               *)
(*                                                                         *)
(* An operation is the class of names its first marker puts it in, a       *)
(* target the zone of the file system its path lies in.                    *)
(***************************************************************************)
EXTENDS Integers

CONSTANT HomeDangerous \* is $HOME below a path of dangerous_path's list (/root, /var/lib)?

ASSUME HomeAssumption == HomeDangerous \in BOOLEAN

(* "rm" is an `rm ...` name: a delete for the scorer, unmarked on hal.sock. *)
Op == {"delete", "rm", "install", "config", "create", "move", "execute", "reboot",
       "other"}

(* Below $HOME, on the dangerous list, another absolute path, or not absolute. *)
Zone == {"home", "system", "elsewhere", "relative"}

(* The names capability routing gives: agent.file and agent.coordinator. *)
Agent == {"file", "coordinator"}

Level == {"Silent", "Notify", "Confirm", "Block"}

DangerousPath(zone) == zone = "system" \/ (zone = "home" /\ HomeDangerous)
OutsideUserHome(zone) == zone \in {"system", "elsewhere"}
IsDelete(op) == op \in {"delete", "rm"}
DestructivePattern(op) == op = "reboot"

(* score_action on the inputs PolicyHalGate builds, in hundredths: the      *)
(* irreversibility and scope terms less the history and pattern ones,       *)
(* clamped, then the floors for deletes and kernel-adjacent paths.          *)
Score(op, zone) ==
  LET raw == (IF IsDelete(op) THEN 25 ELSE 0) + (IF DangerousPath(zone) THEN 20 ELSE 0) - 15
      floors == {0} \cup (IF IsDelete(op) THEN {50} ELSE {})
                    \cup (IF DangerousPath(zone) THEN {70} ELSE {})
  IN CHOOSE s \in floors \cup {raw} : \A x \in floors \cup {raw} : x <= s

Band(score) ==
  CASE score < 30 -> "Silent" [] score \in 30..59 -> "Notify"
    [] score \in 60..79 -> "Confirm" [] OTHER -> "Block"

(* PolicyHalGate::evaluate, with allow_approval as gate_action sets it. *)
GateStatus(op, zone) ==
  IF DestructivePattern(op) THEN "denied"
  ELSE CASE Band(Score(op, zone)) \in {"Silent", "Notify"} -> "granted"
         [] Band(Score(op, zone)) = "Confirm" -> "approval_required"
         [] OTHER -> "denied"

(* map_gate_action *)
GateAction(op) ==
  CASE op = "delete" -> "delete_file" [] op = "install" -> "install_package"
    [] op = "config" -> "modify_config" [] op = "create" -> "create_file"
    [] op = "move" -> "move_file" [] op = "execute" -> "execute_binary"
    [] OTHER -> "open_file"

KnownAgent(agent) == agent = "file"

(* compute_hal_level_v0; the orchestrator never sets is_ai_generated. *)
HalLevelV0(agent, action, zone) ==
  IF ~ KnownAgent(agent) \/ OutsideUserHome(zone) THEN "Block"
  ELSE CASE action \in {"install_package", "modify_config", "delete_file"} -> "Confirm"
         [] action \in {"move_file", "create_file", "start_service"} -> "Notify"
         [] OTHER -> "Silent"
=============================================================================
