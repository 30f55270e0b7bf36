----------------------------- MODULE TaskDomain -----------------------------
(***************************************************************************)
(* The task status of the domain model and the transitions it declares.    *)
(***************************************************************************)

Terminal == {"COMPLETED", "FAILED", "CANCELLED"}
Active == {"RUNNING", "REVIEWING", "PAUSING", "CANCELLING"}
TaskStatus == {"QUEUED", "WAITING", "PAUSED"} \cup Active \cup Terminal

\* transitions, the table assertTaskTransition looks a change up in.
Successors(st) ==
    CASE st = "QUEUED" -> {"RUNNING", "PAUSED", "CANCELLED"}
      [] st = "RUNNING" -> {"QUEUED", "REVIEWING", "WAITING", "PAUSING", "PAUSED",
                            "CANCELLING", "FAILED"}
      [] st = "REVIEWING" -> {"COMPLETED", "QUEUED", "WAITING", "PAUSING", "PAUSED",
                              "CANCELLING", "FAILED"}
      [] st = "WAITING" -> {"QUEUED", "PAUSED", "CANCELLED"}
      [] st = "PAUSING" -> {"PAUSED", "CANCELLING"}
      [] st = "PAUSED" -> {"QUEUED", "CANCELLED"}
      [] st = "CANCELLING" -> {"CANCELLED"}
      [] OTHER -> {}
=============================================================================
