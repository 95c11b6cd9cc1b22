------------------------ MODULE TaskStoreRefinement ------------------------
(***************************************************************************)
(* The task directory of TaskStore implements the atomic events of         *)
(* TaskEvents.  An event takes effect when its body can be read back, for   *)
(* then a journal that outlives a kill is certain to be replayed; if the    *)
(* body cannot be read, when state.json is saved.                          *)
(***************************************************************************)
EXTENDS TaskStore

\* state.json as the next open_task will see it.
Committed ==
    IF ~CaughtUp /\ BodyLanded
    THEN ApplyPatch(intent.kind, st, intent.patch)
    ELSE st

Events == INSTANCE TaskEvents WITH
    phase    <- Committed.phase,
    started  <- Committed.progress_initialized,
    seed     <- Committed.seed_metric,
    rounds   <- Committed.eval_rounds,
    failures <- Committed.consecutive_failures,
    best     <- Committed.best_metric,
    pending  <- (Committed.pending_settle # NoPending),
    version  <- Committed.plan_version

\* Whatever step of a transaction a script is killed at, the phase and the
\* progress fields that the next script reads move from event to event.
EventsAtomic == Events!Spec
=============================================================================
