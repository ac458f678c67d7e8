--------------------------- MODULE PipelineLedger ---------------------------
(***************************************************************************)
(* Pipeline as an implementation of SyncLedger: the history records are    *)
(* the outcomes, and a run is finished when its state is Done.             *)
(***************************************************************************)
EXTENDS Pipeline

Ledger == INSTANCE SyncLedger WITH
    todo     <- 0 .. total - 1,
    outcome  <- record,
    stored   <- complete,
    finished <- (state = "Done")

\* Every behaviour of the pipeline is one of the ledger: an item is settled at
\* most once, truthfully, and the run is Done exactly when the last one is
\* (the WorkerStatusMsg case of Update against startWorkerPool's loop).
LedgerSpec == Ledger!Spec
=============================================================================
