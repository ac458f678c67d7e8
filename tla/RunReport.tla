----------------------------- MODULE RunReport ------------------------------
(***************************************************************************)
(* What a finished process tells its user about the run: the title of the  *)
(* summary box (renderSummaryBox in ui/view.go) and the exit status        *)
(* (run in main.go), as functions of the event loop's last Model; and what *)
(* the comments and the README say those, and the Model's phases, mean.    *)
(***************************************************************************)
EXTENDS Pipeline

Title ==
    CASE state = "Cancelled"                -> "cancelled"
      [] state # "Cancelled" /\ mode = "verify" /\ failed > 0 -> "verification failed"
      [] state # "Cancelled" /\ mode = "verify" /\ failed = 0 -> "verification passed"
      [] state # "Cancelled" /\ mode = "dry" -> "dry run complete"
      [] state # "Cancelled" /\ mode = "sync" /\ failed > 0   -> "complete with errors"
      [] OTHER                              -> "complete"

\* Errors has one entry per failed item.
ExitStatus == IF mode = "verify" /\ failed > 0 THEN 1 ELSE 0

\* Whether the run went over all its items.
Finished == state = "Done"

\* "Only a genuinely finished run counts as success.  Quitting while work
\* remains is a cancellation, not a completion" (ui/update.go): a process that
\* ends with a title of success, and whose scan did not fail, has finished its
\* run.
SuccessMeansFinished ==
    (exited /\ state # "Error" /\ Title \in {"complete", "verification passed"})
        => Finished
=============================================================================
