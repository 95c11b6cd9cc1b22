---------------------------- MODULE TaskEvents -----------------------------
(***************************************************************************)
(* What a task promises to whoever drives it (task_handle.py and the       *)
(* workflow modules): baseline, round, settlement and plan are events, each *)
(* of which moves the phase and all progress fields in one step or not at  *)
(* all.  There is no journal here, no file and no crash.                   *)
(***************************************************************************)
EXTENDS Integers

CONSTANTS MaxRounds, FailThreshold, Metrics

VARIABLES
    phase,     \* the phase of the task
    started,   \* a baseline is committed
    seed,      \* metric of the seed kernel, 0 for none
    rounds,    \* rounds recorded
    failures,  \* consecutive failures
    best,      \* best metric, 0 for none
    pending,   \* a recorded round waits for its settlement
    version    \* plan version

evars == <<phase, started, seed, rounds, failures, best, pending, version>>

Init ==
    /\ phase = "INIT" /\ ~started /\ ~pending
    /\ seed = 0 /\ rounds = 0 /\ failures = 0 /\ best = 0 /\ version = 0

\* A task is activated once; a task whose seed kernel failed goes back from
\* REPLAN to PLAN when it is activated again.
Activate ==
    /\ \/ phase = "INIT" /\ phase' = "BASELINE"
       \/ phase = "REPLAN" /\ seed = 0 /\ phase' = "PLAN"
    /\ UNCHANGED <<started, seed, rounds, failures, best, pending, version>>

\* A kernel that fails leaves no metric, and the task is started all the same.
Baseline(m) ==
    /\ phase = "BASELINE" /\ ~started
    /\ started' = TRUE /\ phase' = "PLAN"
    /\ seed' = m /\ best' = m
    /\ UNCHANGED <<rounds, failures, pending, version>>

PlanCommitted ==
    /\ started
    /\ phase \in {"PLAN", "REPLAN", "DIAGNOSE"} \/ (phase = "EDIT" /\ pending)
    /\ version' = version + 1
    /\ phase' = "EDIT" /\ pending' = FALSE
    /\ failures' = IF phase = "DIAGNOSE" THEN 0 ELSE failures
    /\ UNCHANGED <<started, seed, rounds, best>>

RoundRecorded ==
    /\ started /\ phase = "EDIT" /\ ~pending
    /\ rounds' = rounds + 1 /\ pending' = TRUE
    /\ \/ best' \in Metrics /\ failures' = 0
       \/ best' = best /\ failures' \in {failures, failures + 1}
    /\ UNCHANGED <<phase, started, seed, version>>

RoundSettled ==
    /\ phase = "EDIT" /\ pending
    /\ pending' = FALSE
    /\ phase' \in IF rounds >= MaxRounds THEN {"FINISH"}
                  ELSE IF failures >= FailThreshold THEN {"DIAGNOSE"}
                  ELSE {"EDIT", "REPLAN"}
    /\ UNCHANGED <<started, seed, rounds, failures, best, version>>

Next ==
    \/ Activate
    \/ \E m \in Metrics \cup {0} : Baseline(m)
    \/ PlanCommitted
    \/ RoundRecorded
    \/ RoundSettled

Spec == Init /\ [][Next]_evars
=============================================================================
