-------------------------- MODULE MCTaskExecution --------------------------
(***************************************************************************)
(* Model-checking instances of TaskExecution: the message menus of the     *)
(* runs.                                                                   *)
(***************************************************************************)
EXTENDS TaskExecution

\* Every control of a task, against inputs of the same and of later batches.
ControlMenu == {"text", "pause", "resume", "cancel", "budget"}
\* What ends and moves conversations, with the permission flow and model commands inside them.
SessionMenu == {"text", "file", "new", "confirm", "revoke", "manage"}
\* What stops a task and sets it going again.
ProgressMenu == {"text", "pause", "resume", "cancel"}
\* The shortest menu that shows the disagreement.
RevokeMenu == {"text", "confirm", "revoke"}
=============================================================================
