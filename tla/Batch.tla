-------------------------------- MODULE Batch --------------------------------
(***************************************************************************)
(* The batch supervisor (scripts/batch/run.py, manifest.py): runners take  *)
(* the lock of a batch directory, recover what a dead runner left, and     *)
(* drive one agent process per operator.  An agent runs in a process group *)
(* of its own and outlives a killed runner; its scaffold (scaffold.py)     *)
(* writes the task directory it made back into batch_progress.json.        *)
(***************************************************************************)
EXTENDS Integers, FiniteSets

CONSTANTS
    Ops,            \* operators of the manifest
    Runners,        \* process ids of run.py
    Tasks,          \* bound: task directories that can be made, 1, 2, ...
    MaxRetries,     \* batch.transient_retries
    MaxFaults,      \* bound: runners killed, or ended by an exception
    MaxEdits,       \* bound: times prepare.py writes the manifest
    RetryErrored,   \* runners are started with --retry-errored
    Overlap,        \* a runner may start while another is taking the lock
    Lapses,         \* the heartbeat of a working agent may go stale
    None

ASSUME BatchAssumption ==
    /\ Tasks \subseteq Nat /\ 0 \notin Runners
    /\ None \notin Tasks \cup Runners \cup Ops
    /\ None \notin [by : Runners, pid : {0} \cup Runners]
    /\ MaxRetries \in Nat /\ MaxFaults \in Nat /\ MaxEdits \in Nat
    /\ RetryErrored \in BOOLEAN /\ Overlap \in BOOLEAN /\ Lapses \in BOOLEAN

\* Task directories are made one after the other: of any of them one is the last.
ASSUME NewestAssumption ==
    \A made \in (SUBSET Tasks) \ {{}} : \E t \in made : \A u \in made : u <= t

VARIABLES
    manifest,   \* the operators manifest.yaml lists
    lock,       \* .batch.lock: None or [by, pid], pid 0 until it is written
    cases,      \* batch_progress.json
    task,       \* the task directories and their state.json
    run,        \* the runners
    agent,      \* the agent driver each runner has spawned last
    faults,     \* runners killed, or ended by an exception, so far
    edits       \* times the manifest was written

vars == <<manifest, lock, cases, task, run, agent, faults, edits>>

Statuses == {"absent", "pending", "running", "done", "error"}
RunnerAt == {"out", "create", "pid", "read", "unlink", "recover", "pick",
             "stream", "collect", "finish"}
NoCase == [status |-> "absent", task |-> None, runner |-> None, cut |-> FALSE]
NoTask == [op |-> None, phase |-> "none", journal |-> "empty",
           owned |-> FALSE, fresh |-> FALSE]
NoRun == [at |-> "out", retry |-> FALSE, queue |-> {}, op |-> None, prev |-> None,
          pre |-> {}, rc |-> 0, cut |-> FALSE, retries |-> 0, found |-> None,
          ok |-> FALSE, again |-> FALSE]
NoAgent == [at |-> "none", op |-> None, task |-> None]

TypeOK ==
    /\ manifest \subseteq Ops
    /\ lock \in {None} \cup [by : Runners, pid : {0} \cup Runners]
    /\ cases \in [Ops -> [status : Statuses, task : Tasks \cup {None},
                          runner : Runners \cup {None}, cut : BOOLEAN]]
    /\ task \in [Tasks -> [op : Ops \cup {None},
                           phase : {"none", "BASELINE", "WORK", "FINISH"},
                           journal : {"empty", "pending", "broken"},
                           owned : BOOLEAN, fresh : BOOLEAN]]
    /\ run \in [Runners -> [at : RunnerAt, retry : BOOLEAN, queue : SUBSET Ops,
                            op : Ops \cup {None}, prev : Tasks \cup {None},
                            pre : SUBSET Tasks, rc : {0, 1}, cut : BOOLEAN,
                            retries : 0..MaxRetries, found : Tasks \cup {None},
                            ok : BOOLEAN, again : BOOLEAN]]
    /\ agent \in [Runners -> [at : {"none", "boot", "work"},
                              op : Ops \cup {None}, task : Tasks \cup {None}]]
    /\ faults \in 0..MaxFaults /\ edits \in 0..MaxEdits

Init ==
    /\ manifest = {} /\ lock = None
    /\ cases = [op \in Ops |-> NoCase]
    /\ task = [t \in Tasks |-> NoTask]
    /\ run = [r \in Runners |-> NoRun]
    /\ agent = [r \in Runners |-> NoAgent]
    /\ faults = 0 /\ edits = 0

Alive(r) == run[r].at # "out"
Made == {t \in Tasks : task[t].op # None}
Taking == {"create", "pid", "read", "unlink"}
InBatch(r) == run[r].at \in {"recover", "pick", "stream", "collect", "finish"}
LockedBy == IF lock = None THEN None ELSE lock.by
Dies(r) == run' = [run EXCEPT ![r] = NoRun]
Go(r, at) == run' = [run EXCEPT ![r] = [@ EXCEPT !.at = at]]

-----------------------------------------------------------------------------
(* prepare.py and the lock.                                                *)

\* prepare.py: the operators with a reference and a kernel replace the list.
Prepare ==
    /\ edits < MaxEdits /\ edits' = edits + 1
    /\ \E ops \in SUBSET Ops : ops # {} /\ ops # manifest /\ manifest' = ops
    /\ UNCHANGED <<lock, cases, task, run, agent, faults>>

\* resolve_cases refuses an empty list, before the lock is taken.
ResolveCases == manifest # {}

\* A new run.py; its process id is nobody's.
Start(r) ==
    /\ run[r].at = "out" /\ ResolveCases
    /\ r # LockedBy
    /\ \A op \in Ops : cases[op].status = "running" => cases[op].runner # r
    /\ agent[r].at = "none"
    /\ Overlap \/ \A q \in Runners : run[q].at \notin Taking
    /\ run' = [run EXCEPT ![r] = [NoRun EXCEPT !.at = "create"]]
    /\ UNCHANGED <<manifest, lock, cases, task, agent, faults, edits>>

\* os.open(O_CREAT | O_EXCL).
AcquireCreate(r) ==
    /\ run[r].at = "create"
    /\ IF lock = None
       THEN lock' = [by |-> r, pid |-> 0] /\ Go(r, "pid")
       ELSE Go(r, "read") /\ UNCHANGED lock
    /\ UNCHANGED <<manifest, cases, task, agent, faults, edits>>

\* os.write reaches the file this runner created, were it unlinked or not.
AcquireWritePid(r) ==
    /\ run[r].at = "pid"
    /\ lock' = IF lock # None /\ lock.by = r THEN [lock EXCEPT !.pid = r] ELSE lock
    /\ Go(r, "recover")
    /\ UNCHANGED <<manifest, cases, task, agent, faults, edits>>

\* Mutant of LockHeld: the liveness test is the wrong way round.
LockHeldByDead == lock # None /\ lock.pid # 0 /\ ~Alive(lock.pid)

\* A live process id refuses; a file that is gone, empty or stale is removed
\* and the creation tried once more.
LockHeld == lock # None /\ lock.pid # 0 /\ Alive(lock.pid)

AcquireRead(r) ==
    /\ run[r].at = "read"
    /\ IF LockHeld \/ run[r].retry THEN Dies(r) ELSE Go(r, "unlink")
    /\ UNCHANGED <<manifest, lock, cases, task, agent, faults, edits>>

AcquireUnlink(r) ==
    /\ run[r].at = "unlink"
    /\ lock' = None
    /\ run' = [run EXCEPT ![r] = [@ EXCEPT !.at = "create", !.retry = TRUE]]
    /\ UNCHANGED <<manifest, cases, task, agent, faults, edits>>

-----------------------------------------------------------------------------
(* Recovery and the queue.                                                 *)

\* Mutant of IsTaskActive: an owner counts however old its heartbeat is.
IsTaskActiveOwned(t) == task[t].owned

IsTaskActive(t) == task[t].owned /\ task[t].fresh

\* manifest.read_phase: a task that only exists has no phase yet.
Finished(t) == t # None /\ task[t].phase = "FINISH"

\* Mutant of RecoverCase: a case with a task directory counts as done.
RecoverCaseBound(c) ==
    IF \/ c.status # "running"
       \/ c.runner # None /\ Alive(c.runner)
       \/ c.task # None /\ IsTaskActive(c.task)
    THEN c
    ELSE [c EXCEPT !.status = IF c.task # None THEN "done" ELSE "error"]

\* Mutant of RecoverCase: whatever a dead runner left is an error.
RecoverCaseError(c) ==
    IF \/ c.status # "running"
       \/ c.runner # None /\ Alive(c.runner)
       \/ c.task # None /\ IsTaskActive(c.task)
    THEN c
    ELSE [c EXCEPT !.status = "error"]

\* recover_stale_running: what no living runner and no live agent works on.
RecoverCase(c) ==
    IF \/ c.status # "running"
       \/ c.runner # None /\ Alive(c.runner)
       \/ c.task # None /\ IsTaskActive(c.task)
    THEN c
    ELSE [c EXCEPT !.status = IF Finished(c.task) THEN "done" ELSE "error"]

\* merge_cases: the manifest decides which cases there are.
MergeCase(op, c) ==
    IF op \notin manifest THEN NoCase
    ELSE IF c.status = "absent" THEN [NoCase EXCEPT !.status = "pending"] ELSE c

Queued(c) == c.status = "pending" \/ (RetryErrored /\ c.status = "error")

\* main: recover, merge, save; --only and --limit choose among the queued.
Recover(r) ==
    /\ run[r].at = "recover"
    /\ cases' = [op \in Ops |-> MergeCase(op, RecoverCase(cases[op]))]
    /\ \E q \in SUBSET {op \in Ops : Queued(cases'[op])} :
         run' = [run EXCEPT ![r] = [@ EXCEPT !.at = "pick", !.queue = q]]
    /\ UNCHANGED <<manifest, lock, task, agent, faults, edits>>

\* update_case: an operator the file does not know raises.
Known(op) == cases[op].status # "absent"
Raises(r) ==
    /\ Dies(r) /\ lock' = None
    /\ UNCHANGED <<manifest, cases, task, agent, edits>>

Spawn(r, op, t) ==
    agent' = [agent EXCEPT ![r] = [at |-> "boot", op |-> op, task |-> t]]

\* The next operator, if its status still queues it; the case is bound to this
\* runner and the ownership of the previous task is released.
Begin(r) ==
    /\ run[r].at = "pick"
    /\ \E op \in run[r].queue :
         IF ~Queued(cases[op])
         THEN /\ run' = [run EXCEPT ![r].queue = @ \ {op}]
              /\ UNCHANGED <<cases, task, agent>>
         ELSE /\ cases' = [cases EXCEPT ![op] =
                    [status |-> "running", task |-> None, runner |-> r, cut |-> FALSE]]
              /\ task' = [t \in Tasks |-> IF t = run[r].prev
                                          THEN [task[t] EXCEPT !.owned = FALSE] ELSE task[t]]
              /\ run' = [run EXCEPT ![r] =
                    [@ EXCEPT !.at = "stream", !.queue = run[r].queue \ {op}, !.op = op,
                              !.pre = Made]]
              /\ Spawn(r, op, None)
    /\ UNCHANGED <<manifest, lock, faults, edits>>

\* clear_active_task refuses: the session index of the runner's own session
\* names a task of a live foreign session; or the opencode driver is missing.
BeginRefused(r) ==
    /\ run[r].at = "pick" /\ run[r].prev = None
    /\ \E op \in run[r].queue :
         /\ Queued(cases[op])
         /\ cases' = [cases EXCEPT ![op] =
                [status |-> "error", task |-> None, runner |-> r, cut |-> FALSE]]
         /\ run' = [run EXCEPT ![r].queue = @ \ {op}]
    /\ UNCHANGED <<manifest, lock, task, agent, faults, edits>>

\* print_summary, then release_lock removes whatever file is there.
Finish(r) ==
    /\ run[r].at = "pick" /\ run[r].queue = {}
    /\ Dies(r) /\ lock' = None
    /\ UNCHANGED <<manifest, cases, task, agent, faults, edits>>

-----------------------------------------------------------------------------
(* _stream_subprocess and what follows it.                                 *)

\* The agent's output ended, with its return code.
StreamEnds(r) ==
    /\ run[r].at = "stream" /\ agent[r].at = "none"
    /\ Go(r, "collect")
    /\ UNCHANGED <<manifest, lock, cases, task, agent, faults, edits>>

\* A killed agent leaves its round journal in whatever state it was.
Cut(t) ==
    IF t = None \/ task[t].phase # "WORK" THEN {task}
    ELSE {[task EXCEPT ![t].journal = j] : j \in {"empty", "pending", "broken"}}

\* Wall-clock timeout or Ctrl-C: terminate_process_tree.
StreamKills(r, cut) ==
    /\ run[r].at = "stream" /\ agent[r].at # "none"
    /\ task' \in Cut(agent[r].task)
    /\ agent' = [agent EXCEPT ![r] = NoAgent]
    /\ run' = [run EXCEPT ![r] = [@ EXCEPT !.at = "collect", !.rc = 1,
                                            !.cut = run[r].cut \/ cut]]
    /\ UNCHANGED <<manifest, lock, cases, faults, edits>>

\* The driver closed its output and did not exit: proc.wait(timeout=30) raises.
StreamRaises(r) ==
    /\ run[r].at = "stream" /\ agent[r].at = "work"
    /\ faults < MaxFaults /\ faults' = faults + 1
    /\ Raises(r)

\* pick_new_task_dir: the newest directory of this operator made since.
PickNewTaskDir(pre, op) ==
    LET new == {t \in Made \ pre : task[t].op = op}
    IN IF new = {} THEN None ELSE CHOOSE t \in new : \A u \in new : u <= t

\* _find_task_dir: the recorded directory of this operator, else a new one.
FindTaskDir(r) ==
    LET recorded == cases[run[r].op].task
    IN IF recorded # None /\ task[recorded].op = run[r].op THEN recorded
       ELSE PickNewTaskDir(run[r].pre, run[r].op)

\* Opening the task as supervisor replays its journal, or refuses to.
Healed(t) ==
    IF task[t].journal # "pending" THEN {task}
    ELSE {[task EXCEPT ![t] = [@ EXCEPT !.journal = "empty", !.phase = ph]] :
            ph \in {"WORK", "FINISH"}}

RetriesLeft(r) == run[r].retries < MaxRetries

\* run_one between the agent's end and the last update_case.  A retry needs a
\* baseline and, the first time, a failed process and a clean journal.
Collect(r) ==
    /\ run[r].at = "collect"
    /\ LET t == FindTaskDir(r)
       IN IF t = None
          THEN /\ run' = [run EXCEPT ![r] = [@ EXCEPT !.at = "finish", !.ok = FALSE]]
               /\ UNCHANGED <<task, agent>>
          ELSE /\ task' \in Healed(t)
               /\ LET finish == task'[t].phase = "FINISH"
                      refused == task'[t].journal = "broken"
                      ok == finish /\ ~run[r].cut /\ (refused => run[r].again)
                      retry == /\ ~finish /\ ~run[r].cut /\ RetriesLeft(r)
                               /\ run[r].again \/ (run[r].rc # 0 /\ ~refused
                                                   /\ task'[t].phase = "WORK")
                  IN IF retry
                     THEN /\ Spawn(r, run[r].op, t)
                          /\ run' = [run EXCEPT ![r] =
                                [@ EXCEPT !.at = "stream", !.retries = run[r].retries + 1, !.found = t,
                                          !.again = TRUE, !.rc = 0]]
                     ELSE /\ run' = [run EXCEPT ![r] =
                                [@ EXCEPT !.at = "finish", !.found = t, !.ok = ok]]
                          /\ UNCHANGED agent
    /\ UNCHANGED <<manifest, lock, cases, faults, edits>>

\* _finish_case; an interrupted operator ends the batch, and the task of this
\* one is the next one's prev.
FinishCase(r) ==
    /\ run[r].at = "finish"
    /\ IF ~Known(run[r].op) THEN Raises(r) /\ UNCHANGED faults
       ELSE LET op == run[r].op
                t == IF run[r].found = None THEN cases[op].task ELSE run[r].found
            IN /\ cases' = [cases EXCEPT ![op] =
                    [@ EXCEPT !.status = IF run[r].ok THEN "done" ELSE "error",
                              !.task = t, !.cut = run[r].cut]]
               /\ run' = [run EXCEPT ![r] =
                    [NoRun EXCEPT !.at = "pick",
                                  !.queue = IF run[r].cut THEN {} ELSE run[r].queue,
                                  !.prev = IF t = None THEN run[r].prev ELSE t]]
               /\ UNCHANGED <<manifest, lock, task, agent, faults, edits>>

-----------------------------------------------------------------------------
(* The agent driver and its faults.                                        *)

Bound(op, t) == IF Known(op) THEN [cases EXCEPT ![op].task = t] ELSE cases

\* scaffold.py makes the directory, then binds it in the batch's progress; a
\* driver started with --resume takes the task it was given.
AgentScaffold(r) ==
    /\ agent[r].at = "boot"
    /\ \/ /\ agent[r].task # None
          /\ agent' = [agent EXCEPT ![r].at = "work"]
          /\ task' = [task EXCEPT ![agent[r].task] = [@ EXCEPT !.owned = TRUE, !.fresh = TRUE]]
          /\ UNCHANGED cases
       \/ /\ agent[r].task = None
          /\ \E t \in Tasks \ Made :
               /\ \A u \in Tasks \ Made : t <= u
               /\ task' = [task EXCEPT ![t] = [op |-> agent[r].op, phase |-> "BASELINE",
                              journal |-> "empty", owned |-> TRUE, fresh |-> TRUE]]
               /\ cases' = Bound(agent[r].op, t)
               /\ agent' = [agent EXCEPT ![r] = [@ EXCEPT !.at = "work", !.task = t]]
    /\ UNCHANGED <<manifest, lock, run, faults, edits>>

\* The baseline lands, or the last round is settled; every hook touches the
\* heartbeat and a session that works owns its task.
AgentWorks(r) ==
    /\ agent[r].at = "work"
    /\ LET t == agent[r].task
           next == CASE task[t].phase = "BASELINE" -> "WORK" [] OTHER -> "FINISH"
       IN /\ task[t].journal = "broken" => next = task[t].phase
          /\ task' = [task EXCEPT ![t] = [@ EXCEPT !.phase = next, !.owned = TRUE,
                         !.journal = IF task[t].journal = "pending" THEN "empty" ELSE task[t].journal,
                         !.fresh = TRUE]]
    /\ UNCHANGED <<manifest, lock, cases, run, agent, faults, edits>>

\* The process ends by itself: at the end, early (rc 0) or by an error.
AgentExits(r, rc) ==
    /\ agent[r].at # "none"
    /\ task' \in IF rc = 0 THEN {task} ELSE Cut(agent[r].task)
    /\ agent' = [agent EXCEPT ![r] = NoAgent]
    /\ run' = [run EXCEPT ![r].rc = IF run[r].at = "stream" THEN rc ELSE @]
    /\ UNCHANGED <<manifest, lock, cases, faults, edits>>

Worked(t) == \E r \in Runners : agent[r].at # "none" /\ agent[r].task = t

\* The heartbeat of a task nobody touches grows stale.
HeartbeatLapses(t) ==
    /\ task[t].fresh /\ (Lapses \/ ~Worked(t))
    /\ task' = [task EXCEPT ![t].fresh = FALSE]
    /\ UNCHANGED <<manifest, lock, cases, run, agent, faults, edits>>

\* SIGKILL, OOM, reboot of the runner: the lock, the case and the agent stay.
Kill(r) ==
    /\ Alive(r) /\ faults < MaxFaults
    /\ faults' = faults + 1
    /\ Dies(r)
    /\ UNCHANGED <<manifest, lock, cases, task, agent, edits>>

Acquire(r) == AcquireCreate(r) \/ AcquireWritePid(r) \/ AcquireRead(r) \/ AcquireUnlink(r)
RunnerStep(r) ==
    \/ Acquire(r) \/ Recover(r) \/ Begin(r) \/ BeginRefused(r) \/ Finish(r)
    \/ StreamEnds(r) \/ (\E cut \in BOOLEAN : StreamKills(r, cut)) \/ StreamRaises(r)
    \/ Collect(r) \/ FinishCase(r)
AgentStep(r) == AgentScaffold(r) \/ AgentWorks(r) \/ \E rc \in {0, 1} : AgentExits(r, rc)

Next ==
    \/ Prepare
    \/ \E r \in Runners : Start(r) \/ RunnerStep(r) \/ AgentStep(r) \/ Kill(r)
    \/ \E t \in Tasks : HeartbeatLapses(t)

Spec == Init /\ [][Next]_vars

-----------------------------------------------------------------------------
(* Properties.                                                             *)

\* One runner at a time works on a batch directory, through crashes that leave
\* a stale lock behind (the promise of acquire_lock).
OneRunner == \A r, q \in Runners : InBatch(r) /\ InBatch(q) => r = q

\* A case that counts as done names a finished task of its own operator: an
\* agent that outlives its runner scaffolds and works on while the next runner
\* recovers the case, and its late binding of task_dir neither makes a case done
\* nor leaves a done case naming unfinished work. For cases begun once
\* (RetryErrored = FALSE). With --retry-errored it is false: the orphan of the
\* first attempt binds its new directory into the case after the second attempt
\* has made it done.
DoneIsFinished ==
    \A op \in Ops : cases[op].status = "done" =>
        Finished(cases[op].task) /\ task[cases[op].task].op = op

\* No two agents work on the same task: a runner resumes only a task no
\* orphaned agent holds.
OneAgentPerTask ==
    \A r, q \in Runners :
        agent[r].at # "none" /\ agent[q].at # "none" /\ agent[r].task # None
            /\ agent[r].task = agent[q].task => r = q

\* The result of a finished task is not thrown away: a case whose recorded
\* task is finished becomes done, unless an operator cut the run or its journal
\* was refused, at whichever step the runner died.
FinishedKept ==
    [][\A op \in Ops :
         /\ cases[op].status = "running" /\ cases'[op].status = "error"
         /\ Finished(cases[op].task)
         => cases'[op].cut \/ task[cases[op].task].journal = "broken"]_vars

\* Again and again no case is running: a runner that takes the lock gets to the
\* end of its cases, whatever its agents do, and a case a dead runner left behind
\* is settled by one of those started after it.
CaseSettles == []<>(\A op \in Ops : cases[op].status # "running")

\* The operator starts run.py again; processes take their steps, an agent that
\* never ends meets the wall clock, and the heartbeat of a task nobody works on
\* goes stale.
Proceed(r) ==
    \/ Acquire(r) \/ Recover(r) \/ Begin(r) \/ Finish(r)
    \/ StreamEnds(r) \/ StreamKills(r, FALSE) \/ Collect(r) \/ FinishCase(r)
Fairness ==
    /\ \A r \in Runners :
         SF_vars(Start(r)) /\ WF_vars(Proceed(r)) /\ WF_vars(\E rc \in {0, 1} : AgentExits(r, rc))
    /\ \A t \in Tasks : WF_vars(HeartbeatLapses(t))

FairSpec == Spec /\ Fairness
=============================================================================
