# op-autoresearch: a TLA+ verification project

op-autoresearch lets a coding agent optimise an operator kernel: the agent plans,
edits and evaluates, and a set of scripts keeps the state of the task on disk,
decides which edits stay and runs the evaluations on accelerator devices, often
on a remote worker daemon. This directory models the parts of the program
whose correctness depends on the order of durable writes, of messages and of
processes, checks them with TLC on small instances and proves the most
important invariants with TLAPS for all values of the constants.

Source paths are given from the repository root (`src/...`). `PROJECT.json`
maps every definition to the lines it stands for.

## 1. The system

### Parts, state and operations

| Part | State it keeps | Operations that change it |
|---|---|---|
| Task state store (`scripts/phase_machine/state_store.py`, `models.py`) | `.ar_state/state.json` (phase, owner, heartbeat, `pending_settle`, `expected_*`, progress), `intent.json` (write-ahead journal), `history.jsonl`, `.edit_started`, one index file per session | `save_state`, `write_intent`, `clear_intent`, `replay_intent`, `append_history`, `set_task_dir`, `touch_heartbeat`, `clear_active_task` |
| Task handle (`scripts/task_handle.py`) | none of its own; opens a task, heals it, checks it, claims it | `open_task`, `record_baseline`, `record_round`, `settle_round`, `commit_plan`, `activate`, `rollback_edit` |
| Workflow (`scripts/workflow/`) | `plan.md`; the reducers and the phase transitions | baseline, round and plan transactions, settlement of plan items |
| Engine scripts (`scripts/engine/`, `scripts/resume.py`) | one process each over the files above | `baseline.py`, `pipeline.py`, `create_plan.py`, `resume.py` |
| Hooks (`scripts/decide.py`, `scripts/phase_machine/`) | edit marker, `diagnose_attempts`, activation | gates before and after each tool call of the agent, stop hook |
| Opencode driver (`.opencode/`) | the session it continues | turns until the stop hook lets go |
| Git access (`scripts/utils/git_utils.py`, `framework/git_repo.py`) | the task's repository | commit of a KEEP, rollback of a DISCARD or FAIL |
| Eval bridge, metric policy and anchors (`scripts/utils/`, `scripts/task_config/`) | the committed `baseline_*` fields | one evaluation: worker, verify, profile, payload |
| Kernel verifier and profilers (`op/verifier/`) | a verify directory per step, a data cache with lock directories | project generation, verify, profile, reference and baseline generation |
| Device pool (`core/async_pool/device_pool.py`) | queue of free devices, leases with owner, number and deadline | acquire, release, renew, keepalive, reaper |
| Worker daemon (`worker/server.py`, `local_worker.py`) | the pool, the running handlers and script processes | HTTP handlers, start-up |
| Remote worker client, worker manager (`core/worker/`) | the token of the active lease; registration and load | acquire, verify, profile, profile_single_task, generate_reference, release |
| Process groups (`utils/process_utils.py`) | registry files of running scripts | register, kill, reap after a restart |
| Worker CLI and tunnels (`cli/`) | `worker_state.json`, tunnel pid files | start, stop, reconnect, local and over ssh |
| Batch runner, scaffold (`scripts/batch/`, `scripts/scaffold.py`) | manifest, lock, `batch_progress.json`; new task directories | prepare, run, recover stale cases |
| CANN correctness, code checker, adapters | none | text generation, text analysis and numerics |
| Reports, dashboards, monitors | none | rendering |

### How they interact

The agent starts a script, the hooks decide whether it may. The script opens the
task: it replays the journal, checks that `state.json` agrees with `plan.md` and
`history.jsonl`, claims the task and only then acts. A round goes through
edit, `pipeline.py`, quick check, evaluation, decision, git, the transaction of
the round, and settlement, which chooses the next phase. The evaluation reserves
a worker, leases a device from its pool, generates a project, sends it with
requests that name the lease, reads back what the scripts left and
releases the device. A headless driver repeats turns until the stop hook lets go,
and a batch runner repeats drivers over a list of operators. The parts share
state through files and through the daemon's memory; there is no transaction
across files and no acknowledgement across the network beyond a single HTTP
response.

### What is hard

* **Kills.** A script may be killed between any two durable writes, or within
  an append. What it left behind must be completed or undone by the next script,
  exactly once. The same holds of a batch runner whose agent works on, and of a
  daemon whose scripts do.
* **Several files, one event.** A round touches git, the journal, the history,
  the state, the plan and the marker.
* **Several sessions** on one task directory, through claims, heartbeats and
  lookups that take no lock.
* **Locks by path**: the batch lock and the cache locks are removed by name,
  whoever made them, and are stale by age or by process id.
* **Hold and wait**: devices held while waiting for cache locks and the reverse,
  two state locks in one claim.
* **Leftovers**: a second attempt at a step meets the files of the first.
* **Leases that outlive their holders**, releases that arrive after the device has
  a new holder, answers that never arrive, requests that outlive their
  connection, a daemon that forgets everything.
* **Process ids** that are reused, groups that outlive their leader.
* **Counters at their limits**: the round budget, the failure threshold, the cap
  on diagnoses, pids.

### What makes each part correct

* Task state: a gap between the files is always explained by the journal; a
  round is recorded once and settled once; `best_commit` is a commit that
  measured `best_metric`; phases follow the events; FINISH is final; the
  task gets there.
* Sessions: a fresh claim is kept, a session owns one task and finds it again,
  claims end.
* Hooks: the gates admit what the guidance asks for, or name what they admit instead;
  a plan leaves DIAGNOSE with a diagnosis or after the cap; the driver's loop ends.
* Evaluation: the verdict is about the code handed in; the device is given
  back; rounds start from a measured reference; no failing edit is kept.
* Data cache: one writer at a time, one generation of what can be used, no deadlock
  with devices.
* Device pool: a device is in the queue once, leased once, or in one
  handler's hand; a lease ends by its own release or by expiry; a running
  request keeps its device; a dead client's device returns.
* Worker host: what runs is recorded; a ready daemon has no orphans beside it; a
  stop leaves no daemon; commands end.
* Batch: one runner; done means finished; what is finished is kept; no case
  stays running.

The hazards are listed, with the line at which each bites, in `PROJECT.json`.

## 2. Modules

| Module | Role |
|---|---|
| `TaskStore` | a task directory, its git repository and the script running over them |
| `TaskEvents` | abstract specification: the same task as atomic events without files or kills |
| `TaskStoreRefinement` | the mapping from `TaskStore` to `TaskEvents` |
| `Sessions` | ownership of task directories by sessions and their processes |
| `Hooks` | the gates, the diagnose loop and the headless driver, composed with `TaskEvents` |
| `EvalPath` | the evaluations of one task: eval bridge, verifier, worker, anchor |
| `DataCache` | the verifier's cache, its locks and the devices held meanwhile |
| `DevicePool` | the pool's operations on its own state |
| `DeviceLeases` | composition: daemon handlers, clients, network and restarts around `DevicePool` |
| `WorkerControl` | worker CLI, daemon, process groups, registry, state file and tunnel on one host |
| `Batch` | runners, lock, progress file and agents of one batch directory |
| `MC...` | one TLC instance per specification |
| `...Proofs` | theorems: `TaskStoreProofs`, `DeviceLeasesProofs`, `EvalPathProofs`, `DataCacheProofs`, `SessionsProofs`, `HooksProofs`, `WorkerControlProofs`, `BatchProofs` |

Operators named "Mutant of X" are deliberately wrong variants of `X`. They are
used by no specification; substituting one for `X` must break the property
that it is paired with in `PROJECT.json`.

How the modules fit together: `TaskStore` shows that the scripts behave like the
atomic events of `TaskEvents`; `Hooks` takes these events as what a script does and
looks at the agent around them. `EvalPath` opens up the evaluation that is one
free choice in `TaskStore`, with a device as a flag; `DeviceLeases` opens up the
device. `DataCache` looks at the same verify and profile jobs from many processes.
`WorkerControl` opens up the restart of `DeviceLeases`. `Batch` sees a whole task as
three phases and a journal.

### TaskStore

State and code: `st` is `state.json` without text fields, `intent` is
`intent.json`, `hist` the lines of `history.jsonl`, `cut` says that its last line
has no newline, `plan` is `plan.md`, `marker` is `.edit_started`, `head`, `dirty` are
git's view, `measured` is a history variable that pairs commits with
metrics. `cmd`, `pc` and `rec` are the running script, lost when it is
killed.

* `Invoke(c)` starts a script. `ReplayRebuild`, `ReplayClear`, `ReplayDrop`
  are `replay_intent`; `Refuse` collects the checks that turn a script down.
* `RecordBaseline`, `RoundKeep`, `RoundRollback`, `CommitPlan` compute a
  transaction and hand it to `WriteIntent`, `AppendHistory` or `WritePlan`,
  `SaveState`, `ClearIntent`: the journal, the body, the commit and the clear,
  one durable write per step. `rec.kind` selects which fields the patch covers.
* `SettlePlan`, `SettleSave`, `SettleMarker` are `settle_round`, also when
  replayed by `PipelineReplay`.
* `PipelineReject`, `PlanRejected`, `BaselineUnavailable`, `BaselineAlreadyDone`,
  `Resume` and `Activate` are the other ways in which a script ends.
* `AgentEdit` is an edit that the gate lets through. `Crash` kills the script
  between two writes, `TornAppend` within the append.

Abstractions. Metrics are positive integers and 0 is None; the improvement test
is the integer form of the code's. The outcome of an evaluation, of a
static check, of a git commit and of a git rollback is a free choice. Files
written by `atomic_write_*` are replaced in one step; only the append can tear.
One script runs at a time: a second one is the subject of `Sessions`. The
phases are not guarded by the hooks here, so any script may be invoked in any
phase and the properties rest on the scripts' own checks alone. A rebuilt
`state.json` and the clearing of the journal are separate steps because
`replay_intent` may be killed too.

### TaskEvents and the refinement

`TaskEvents` has one action per event (activation, baseline, plan, round,
settlement) over the phase and progress fields. `Committed` is
`state.json` as the next script will read it: if the journal's body is on disk,
the patch is as good as applied, because every script replays it before it
looks. With a torn append the body cannot be read, and the event takes effect
when `state.json` is saved.

### Sessions

`owner` and `age` are the two fields of each `state.json` that matter, `index` the
session index files, `proc` the processes of the sessions. A process looks up its
task (`BeginLookup` to `FindActiveTaskDir`, no lock), claims one (`BeginClaim` to
`WriteIndex`, one durable write per step), works in it and leaves
(`CloseTask`, or `Raise`, `ClearOwner`, `DropIndex`). Locks are not variables:
a lock is held exactly while a process is at certain points (`StateLocks`,
`SessionLockFree`), and a kill drops them as the operating system does.
`lost` remembers the sessions whose correct index entry was dropped
by a step other than a claim; the promise of `set_task_dir` holds for the
others. Time is an age per task that stops at `Window`. A task's number is the rank
of its path, which is what `state_transaction` sorts by.

### Hooks

The task is the state of `TaskEvents`; `good`, `attempts` and `attemptsFor` are the
diagnosis artifacts and their counter, `dirty` and `marker` are what
`_edit_phase_git_gate` looks at (git's diff of the editable files and
`.edit_started`), `call` the tool call that passed its gate, `sub` the subagents in
flight with their kind and the plan version they were started for, `driver` the loop of
`run_loop.py`. A command is a record of the features that `phase_policy.py` extracts
from its text (script name, directory, direct invocation, substitution, commit,
segments of a chain); the instance tries one of every shape. An instruction of
`guidance.py` is the set of tool calls that it asks for. `PostTaskRead` and
`PostTaskWrite` are the two halves of `_post_task`, which holds no lock between them.

The git gate blocks a kernel edit when EDIT is entered over an uncommitted change: a
silent rollback failure or a killed `pipeline.py` leads there. `GuidanceAllowed` therefore
does not say that every guided call is admitted; it says that this one is the only
exception and that `pipeline.py`, which the gate's message names, is then admitted
and has something to settle. A git that fails or times out closes nothing
(`EditPasses`).

`obeys` divides agents into those that do what they are told, for which liveness is claimed,
and those that try anything, for which safety is claimed too. Three history variables
tell apart what the counter counts: `failed` are subagents of any kind that came back to
a version without an artifact, `own` those of them that are ar-diagnosis runs started for
it, `diagnosed` the versions that had an artifact. The code counts the first kind and
says the second; `PlanFromDiagnosis` shows that they are the same for an
obedient agent; `FallbackFromOwnRuns`, false of any other, is in the table of section 3.

### EvalPath

A kernel is an edit number and what running it does (seven kinds, among them one
that hangs, an empty file and an autotuned one that is verified config by config). `dir`
is the verify directory of the current step, which a repeated attempt finds as
the previous left it; `ev` is the evaluation in flight with everything it has
read so far; `report` is the last result with what it was computed from.
Each step that may raise has the fault as a second disjunct, and the step in
which a `finally` runs gives the device back. The generated scripts are external: they
are what the host reads back (exit status, sidecar, times). The data cache is off, as
it is by default. `Killed` ends the process anywhere; the daemon is then assumed to
take the lease back, which is what `DeviceLeases` shows.

### DataCache

One entry and one lock directory per namespace, processes with one job each. A
verify takes its device, then the reference lock; a baseline job takes the lock, then
a device; a profile reads and stores the baseline entry without a lock. A lock that is
seen as stale is removed in a later step, by path. `aged` and `made` are history.
A lock grows stale only after its process died: the limit is an hour and a job's
scripts have wall clock caps below it.

What is stored is not looked at: a generated reference may fail the validation of
the next reader (no inputs to reuse, a payload that does not load), and is then deleted and
generated again. `Blind` are the processes whose PyTorch is missing or knows no
`weights_only`: they judge every reference unusable, and delete good ones too
(`Usable`, `Delete`). "Made once" is a claim about usable references, and counts again
after a blind process dropped one.

### DevicePool and DeviceLeases

`free` counts how often a device is in the queue, so that queueing it twice is a
visible error; `leases` holds owner, number and an `expired` flag; `seq` is the
last number. Each pool operation runs without awaiting, hence in one step, except
`acquire_device`, which waits for the queue and stamps the lease when it resumes:
`Dequeue` and `Stamp`, with `PutBack` for a cancellation in between.

A client is idle, acquiring, holding, working or dead. `acq` is its acquire
handler on the daemon, which outlives an abandoned connection; `work` are the
daemon's work handlers, which outlive theirs. `releases` are release requests
under way: they are delivered in any order, late or never. `Modes` are the
three ways in which a request may name its lease: with its token, by owner
only (older clients), or under a derived task id that renews nothing.

Time is not modelled. A lease may expire (`Expire`) whenever no running handler
beats for it, since the handler beats at a third of the TTL; this assumes that
the event loop is not blocked for two thirds of a TTL. The reaper's scan is a
separate step, so an expired lease may still be renewed. A restart
creates an empty pool whose numbers start again and kills the scripts
of its predecessor; that the reaping does so is the subject of `WorkerControl`. The
health probe takes a device out of the queue and puts it back without awaiting, so it
is not a step. `force_release_device` has no caller. The device list is assumed
to name each device once.

### WorkerControl

The host's processes by PID: what a process is (`proc`), its start tick, the rest
of its group (`kids`), the request that runs in it (`req`), its record in the
registry. `entry` is the port's PID in `worker_state.json`, `cli` the commands in
progress. A leader may exit before its group; its PID is free when the whole group
is gone, and goes to any other process then. Signals that a script survives
leave it `"wedged"`. `TunnelStart`, `ProbeRemote` and `Answers` are the possible
outcomes of ssh, of the remote probe and of `/status`.

A reaping is a load (`ReapLoad`), one step per record with its TERM, grace and KILL
(`ReapGroup`) and a save (`ReapSave`), by a daemon that starts or a shell that stops
one: `_registry_lock` is of one process, so any other may write the registry in
between and lose it to the save. `groups` and `survivors` are the local
variables of the reapers. A start is a `Popen` (`StartSpawn`) and a save
(`StartSave`), which may fail unheard of and leave the old file or a torn one. A
command may be interrupted at any step. When that happens, or the save fails, with the
daemon running and not entered, the history variable `lost` is set: no entry names this daemon,
and a local stop leaves it running. The three invariants except that case. A draining
daemon may still start the next script of a request.

Assumptions: a dead daemon is waited for (a zombie would count as an owner alive);
a PID is not reused while the request that had it is being closed; nobody else
listens on the port; the registry path that the remote stop names is the daemon's
own; one shell at a time. With two shells all three invariants fail, because
`worker_state.json` and the registry have no lock between processes.

### Batch

`lock` records who made the file and the PID written in it, because the two differ
between creation and write and because every removal is by path. `cases` is
`batch_progress.json`, `task` the task directories as phase, journal and
ownership, `run` the runners with their local variables, `agent` the driver each
has spawned, which outlives a killed runner. `Collect` is `run_one` between the agent's
end and the last `update_case`, with its replay of the journal and its retry.

Three constants name what the environment may do: `Overlap` lets a runner start
while another is taking the lock, `RetryErrored` is the flag of that name, `Lapses`
lets the heartbeat of a working agent go stale. The passing run has them
off, so each case is begun once and no case is started anew; what becomes false with
them on is told below.

## 3. Runs

All passing runs explore their complete state space.

| Run | Constants | States | Shows |
|---|---|---|---|
| `store_crash` | 2 rounds, threshold 1, metrics {1, 2}, plans of 2, 2 kills | 2.0 M | `TypeOK`, `NoJournalNoGap`, `RoundsRecordedOnce`, `HistoryMatchesState`, `SettledOnce`, `SettleSucceeds`, `BestIsCommitted`, and `EventsAtomic`: `TaskStore` implements `TaskEvents` |
| `store_liveness` | 3 rounds, threshold 2, plans of 2, 1 kill, fair | 97 k | `EditHasActive`, `RoundsBounded`, `TaskFinishes` |
| `lease_pool` | 1 device, 2 clients, 3 leases, all modes, 1 disconnect, 1 restart | 120 k | `DevicesConserved` |
| `lease_liveness` | 2 devices, 2 clients, 3 leases, tokens only, fair | 123 k | `TokenKeepsLease`, `LateReleaseFreesNothing`, `OneScriptPerDevice`, `LeaseEndsRightly`, `DeadClientReclaimed` |
| `sessions` | 2 sessions, 2 tasks of which 1 is scanned, 1 kill, 2 claims, fair | 158 k | `OneTaskPerSession`, `FreshClaimKept`, `ClaimEnds`, `OwnedTaskFound` |
| `hooks` | 3 rounds, threshold 1, cap 2, 2 subagents, 15 commands, any agent | 1.8 M | `GuidanceAllowed`, `FallbackEarned`, `PlanFromDiagnosis` |
| `hooks_liveness` | the same, an obedient agent, fair | 7.9 k | `LoopEnds` |
| `eval` | 3 edits, 2 rounds, 2 faults, 2 configs | 4.3 M | `VerdictOfThisCode`, `DeviceReturned`, `AnchorBeforeRounds`, `KeptIsCorrect` |
| `cache` | 3 processes of which 1 is blind, 1 device, 1 kill, fair | 83 k | `ExclusiveWhileFresh`, `ReferenceMadeOnce`, `JobsEnd` |
| `workers` | 1 shell, 2 PIDs, 4 starts, 1 kill, fair | 619 k | `RunningIsRecorded`, `ReadyMeansReaped`, `StopLeavesNoWorker`, `CommandEnds` |
| `batch` | 2 operators, 2 runners, 2 task directories, 1 retry, 1 fault, fair | 766 k | `OneRunner`, `DoneIsFinished`, `FinishedKept`, `CaseSettles` |

Why the bounds are enough. *Store*: two kills cover "kill in a
transaction, kill in its replay" as well as "kill in a round, kill in its
settlement"; two rounds let a second round meet what the first left; three rounds
with threshold 2 reach DIAGNOSE, a replan and the budget; two metrics give improvement,
equality and regression. *Leases*: one device makes clients contend; two devices
let one client's token be compared with a lease on the other; three leases let
a device be leased, reaped, leased again while the first release is still under way.
Symmetry of clients and handlers, and of subagents, is used in safety runs only. *Sessions*: two
sessions and two tasks are what a swap needs, a task outside the scan is what
makes an index entry irreplaceable; two claims and any number of hooks interleave.
*Hooks*: two subagents make their hooks overlap, three rounds with threshold 1
make two diagnoses of two plan versions follow each other, so an old
subagent can report into a new version; obedient and other agents are both initial states. *Eval*: two faults repeat an attempt twice
at one step, three edits let each attempt have other code. *Cache*: three processes
on one device have each kind of job hold what another needs, and leave two beside the
blind one to store and to reuse. *Workers*: two PIDs and
four starts make PIDs be reused, and let a daemon be killed, a script be left and
a successor reap it. *Batch*: two operators give a queue and two task
directories, one fault leaves one orphan to the second runner.

`CHECK_DEADLOCK FALSE` is set where a system may stop: lease clients
all dead, sessions and agents gone, the bound on evaluations, jobs,
starts or task directories used up, a driver that has ended. A task in `TaskStore`
never deadlocks, since a script may always be invoked.

### Fairness

`TaskStore`: a started script runs on (weak fairness of its steps). The stop
hook refuses to end the session before FINISH and the guidance names the script
to run, so each script is invoked again and again; now and then an edit is
effective and an evaluation yields a result that is recorded (strong fairness,
because kills, refusals and rejected edits interrupt these). An agent that never
produces a compiling kernel has failing rounds, which are recorded too. What is
really assumed is that infrastructure failures do not go on for ever.

`Hooks`: an obedient agent makes the next guided call and ends its turn when
there is none; scripts and hooks that started end; a baseline, a pipeline run, a kernel
edit that changes something and the writing of valid plan items, tried again and again,
succeed once.

`Sessions`: a process that runs goes on, and hooks keep firing while the
agent lives. `DataCache`: a living process goes on and time passes for an abandoned
lock; no fairness is put on timeouts, so jobs end without their help.
`WorkerControl`: a command in progress takes its next step; nothing is assumed of the
daemon or its scripts. `Batch`: run.py is started again and again,
processes take their steps, a driver that never ends meets the wall
clock, and the heartbeat of a task nobody works on goes stale.

`DeviceLeases`: time passes (`Expire`), the reaper's loop scans, and
handlers end because waits and scripts have wall clock caps. Nothing is assumed of
clients or of the network: releases may be lost for ever.

### What the code does not do as documented

One statement is a run in which TLC finds it violated, `v_batch_lock`: two runners that
start together over a stale or a still empty lock file both enter the batch, since the
slower one unlinks the other's new lock by path.

The following are definitions beside the properties of their module. Each states what
a comment or a document says; each is violated when it is added to the configuration
named here, with the constants changed as said.

| Statement | Configuration | What happens |
|---|---|---|
| `RoundBudget` (`AUTORESEARCH.md`: maximum number of rounds) | `StoreCrash`, MaxRounds 1, FailThreshold 2, PlanSizes {1}, MaxCrashes 1 | a recovery plan after a kill between a round and its settlement goes to EDIT without asking `phase_after_round`; `RoundsBounded` says how far this goes |
| `StaleMarkerCleaned` (`resume.py`) | `StoreLiveness`, MaxRounds 2, FailThreshold 1, MaxCrashes 0 | `is_working_tree_clean` calls `dirty_files()` without its argument, the error is swallowed and no stale `.edit_started` is removed |
| `CommittedRoundReadable` (`state_store.py`: rows are self-contained) | `StoreCrash`, MaxCrashes 1 | the row after a torn append is glued to the torn line |
| `WorkKeepsLease` (`device_pool.py`) | `LeasePool`, Modes {"other"}, one client | a request under a derived task id carries no token, renews nothing and loses its lease while its script runs |
| `LateReleaseFreesNothing` (`device_pool.py`) | `LeaseLiveness`, MaxRestarts 1 | lease numbers start again with each daemon, so a release of the old lease 1 frees the new one |
| `OneScriptPerDevice` (`manager.py`: each worker's `DevicePool` provides resource exclusion) | `LeaseLiveness`, Spec, Devices {0}, MaxLeases 2, MaxDisconnects 1 | a client that gives up on a request releases its device in its `finally` while the script still runs on it |
| `LiveSessionKept` (`run_loop.py`) | `Sessions`, Spec, `Procs <- TwoAndOne`, MaxKills 0 | a session inside a step longer than the heartbeat window is displaced without force, and goes on saving |
| `FallbackFromOwnRuns` (`decide.py`: the DIAGNOSE subagent already failed N times for this plan version) | `Hooks`, Obedience {FALSE} | subagents that were started before the phase, or are of another kind, report into it and are counted |
| `DoneIsFinished` (`Batch`) | `Batch`, Spec, RetryErrored TRUE | the agent of the first attempt, orphaned before its scaffold, binds its new directory into the case after the second attempt has made it done |
| `OneAgentPerTask` (`Batch`) | `Batch`, RetryErrored TRUE | an orphaned agent binds its directory to a case that was started anew, and the runner resumes the task the orphan still drives |
| `TransportNotKernel` (`metric_policy.py`) | `Eval` | a lost connection is a failed verification and is charged to the kernel |
| `RefBlameIsReal` (`metric_policy.py`) | `Eval` | the sidecar of an earlier attempt at the step blames a reference that has been repaired |
| `FailedRoundKeepsAnchor` (`eval_bridge.py`) | `Eval` | the reference time that rides on a failed round replaces an anchor with made-up labels |
| `WorkerReleased` (`manager.py`) | `Eval` | `_build_verifier` raises between the reservation and the `try` |
| `LockExclusive` (`data_cache.py`) | `Cache` | two waiters see a dead process's lock as stale; the second removes the lock that the first has made since |
| `StopLeavesNoWorker` without `~lost` (`cli.py`: `--stop`) | `Workers` | a start is interrupted, or cannot write, between `Popen` and `save_worker_state`; the next local stop goes by the entry and misses the daemon |
| `RunningIsRecorded` (`process_utils.py`) | `Workers`, two shells, three PIDs, MaxStarts 3 | a stop has loaded the registry; a start's daemon becomes ready and registers a script; the stop's save drops the record |
| `StopSparesOthers` (`worker_state.py`) | `Workers`, MaxStarts 3 | `_stop_local` falls back to a PID whose command line did not validate |

## 4. Proofs

The proof modules are checked by TLAPS from the named assumptions on the constants
(`ConstantsAssumption`; `DevicesAssumption`, `LeasesAssumption`; `EvalAssumption`,
`NoneAssumption`; `CacheAssumption`; `SessionsAssumption`; `HooksAssumption`;
`ControlAssumption`; `BatchAssumption`, `NewestAssumption`): any budget, threshold, plan
sizes, sets of metrics, devices, clients, sessions, processes, PIDs and operators, any
number of edits, rounds and configs, and any bounds on kills, faults, leases and
restarts. Where a theorem needs more, the hypothesis is a named definition in its
`ASSUME`, and TLC has a counterexample without it. Every safety property that a passing
run checks is stated by a theorem; the inductive invariants were checked with TLC
before they were proved.

**TaskStore.** `NoJournalNoGap` and `RoundsRecordedOnce` are not inductive: that
the appended row is the next one depends on what the script has in its hands,
and that a replay may apply its patch depends on the patch having been computed from
the very `state.json` it is applied to. The invariant `IInv` adds

* `StateInv`: what `state.json` may hold in which phase (progress exists
  from PLAN on, a pending round implies EDIT, the markers equal the counters);
* `JournalInv`: while a transaction is under way or a journal is on disk, its patch is one
  event ahead of `state.json` or already in it;
* `GapInv`: an artifact that can be read and disagrees with `state.json` is the body
  the journal names;
* `RowsInv`: a readable row belongs to a committed round, or is the last line and
  the body of the journalled transaction.

`InductiveInvariant` proves `IInv` over all actions, with one lemma for each
conjunct. From it follow `TypeCorrect`, `NoGapWithoutJournal`, `RoundsOnce` and the
action properties `FinishFinal` and `CountersOnlyAdvance`.

The other properties relate `state.json` to `plan.md`, `history.jsonl` and git, and
between the write of a body and the save they do not hold of `state.json`. They hold
of `Committed`, the `state.json` that the next `open_task` will see, which is also the
refinement mapping to `TaskEvents`. The second invariant, `CInv`, is stated over it, so
that a replay has nothing to prove: it makes `state.json` what `Committed` was. Its parts:

* `PlanInv`, `PidInv`: the ACTIVE item is one that is left to do, the Settled History
  names an item once, pids are below the counter, so a new plan's items are new;
* `PhaseInv`: EDIT has something to do or to settle, REPLAN has nothing left, PLAN comes
  before the first plan or after a failed seed;
* `PendingInv`: a recorded round waits for the ACTIVE item, or for one that a killed
  settlement has already moved;
* `BudgetInv`: a phase that can begin a round is below the budget; a round beyond
  it takes a kill between a round and its settlement;
* `HistoryInv`: the rows add up to the counters and metrics of `Committed` as long as
  every line parses, and every settled or pending item has its row;
* `BestMeasured`: the best commit was measured with the best metric, in `state.json` and in
  `Committed`;
* `ReadyInv`: until it is saved, the transaction in `rec` is what its recorder computed
  from the present `state.json`.

A row that is appended after a torn line cannot be read, so a round takes effect with its
row or, over a spoilt file, with the save; `AppendCases` and `SaveCases` tell the two apart.
`StepKeeps` proves `CInv` and says what a step does to `Committed`: nothing, the patch of
a transaction, the end of a settlement, or an activation. From `CommittedInvariant`
follow `HistoryAddsUp`, `SettledExactlyOnce`, `SettlementsSucceed`, `BestHasCommit`,
`EditIsBound` and `BudgetHolds`, and, one lemma for each kind of change, the refinement
`EventsAreAtomic`. None of them has a hypothesis.

**DeviceLeases.** `PoolInvariant` (types, the shape of handlers and tokens,
`DevicesConserved`) holds under all faults, restarts included: `TypeCorrect`,
`PoolConserves`. The claims about tokens need numbers that are not reused, so
they assume `MaxRestarts = 0`; the table above says what a restart does to them.
`TokenInvariant` adds that numbers do not exceed the counter
(`Counted`), that a token is in one place only, with a client, in a handler's answer
or in a release under way (`TokenOnce`), that an attached request's token is
with its client (`AttachedInv`) and that the lease of a running token request is
neither gone nor expired (`KeptFresh`). From it: `RequestsKeepLeases`,
`LateReleases` and `LeasesEndRightly`. `ScriptsKeptApart` adds that a token serves one
attached request at a time (`TokensServeOne`); it assumes `NoneLeft`, that no connection
breaks and that requests carry their tokens, for a script whose client is gone
runs on beside the next one (section 3).

**EvalPath.** The four properties speak of reports, commits and anchors; what makes
them true is known only inside an evaluation. `EvalInv` carries it along:

* `DirInv`: the directory's copy of the reference works only if the reference does,
  and a directory with a verify script has a copy. A reference is never broken
  again, so a leftover copy is worse than the original, never better.
* `FlightInv`: an evaluation is about `kernel.py`, which nobody edits meanwhile; from a
  passed verify on, the directory holds the code that ran; if the project
  was generated, that is the code handed in, and it passes. A device is held in
  the five steps between an acquire and its `finally` only.
* `ReportInv`: a report "ok" inherits this; a reference time at step 0 comes from a
  working reference, since no committed baseline stands in for one before there is one.
* `AnchorInv`: there is an anchor exactly from the first round on.

Every action either goes on (`MoveKeeps`) or ends the evaluation (`EndKeeps`), and
the ways to end are one lemma each. From `EvalInvariant`: `VerdictRight`,
`DevicesBack`, `AnchorsFirst`, `OnlyPassingKept`, `TypeCorrect`.

**DataCache.** Locks are released by path, so mutual exclusion needs an argument:
`LockInv` says that between `mkdir` and release a living process owns a directory
that it made itself, unless a lock of that namespace has once been stale, and that a
process about to steal is evidence of that. `RefInv` says that whoever is
about to make the reference saw, under the lock, that there is none that it could use,
and nobody has stored one since; a blind process may find a valid one, and has
dropped it by the time it makes another (`Settled`). `CacheInvariant` proves both;
`LockExcludes` and `ReferenceOnce` follow, for any set of blind processes. The table
above says what happens after a lock went stale.

**Sessions.** A claim reads the owner, takes two locks, writes two task files and
then the index; `OneTaskPerSession` and `FreshClaimKept` are about the states in
between. `SessionInv` says which locks a process holds at each place and that no two
processes hold the same (`LockInv`), that a claim past its refusal is about a task nobody
else keeps fresh (`OwnInv`), that an owned task is indexed or its claim is about to index
it (`IndexInv`), and which task of its session a claim knows of (`ClaimInv`). Sessions
whose index entry was dropped or never written are exempt, as in the properties. From
`SessionInvariant`: `SessionTypes`, `OneTaskEach`, `FreshClaimsKept`, without hypotheses.

**Hooks.** `FlowInv` bounds plan versions by rounds for an agent that follows its
guidance; `CountInv` says that the stored counter and what each overlapping subagent hook
has read are at most the failures that happened at that version. Lost updates of the counter
thus only delay the fallback. `ObeyInv` says that an obedient agent has one subagent in
flight at a time, an ar-diagnosis run of the current version, so that all failures
are its own. From `HooksInvariant`: `GuidanceNeverBlocked`,
`FallbackIsEarned`, `PlansAreDiagnosed`, for any set of commands, without hypotheses.

**WorkerControl.** What a stop leaves behind needs the entry of the state file to be the
only daemon, and what the registry says needs no other process to write it during a
reaping. The code orders neither two commands nor two reapings, so the theorems assume one
shell (`OneShell`), and `ControlInv` holds until a daemon is lost (`~lost`). Its parts:

* `HostInv`: a request has a serving daemon, and the registry names the generation of its
  process group, so that a reused PID is not taken for the old one;
* `SoleInv`: the entry names the only daemon, except while a start is about to save it,
  when the shell knows it; from the reaping of a stop to its end there is none;
* `KeptInv`: what a reaper has loaded or kept is still what the registry says, hence its save
  drops no record of a running script; a starting daemon has dealt with what it keeps;
* `Swept`: beside a ready daemon the registry names no orphan that a signal ends.

From `ControlInvariant`: `RunningStaysRecorded`, `StopsLeaveNoWorker`,
`ReadyFindsNoOrphan`. With two shells and three PIDs TLC refutes all three: a start
spawns while a stop is about to reap; a stop's save drops the record of the other
shell's daemon (see the table); and a second daemon that becomes ready while the first
one serves spares its script since the owner lives, and keeps it when that
owner is killed.

**Batch.** The lock file is created, checked and removed by path: two runners that
take it at once may both have it (`v_batch_lock`). `RunnersKeptApart` assumes that this does not happen
(`~Overlap`). `BatchInv` then says that a case, its runner and its agent are of one
attempt (`AttemptInv`), whose task a directory is (`TaskInv`) and what a runner about to
settle knows (`SettleInv`). `DoneCasesAreFinished`, `FinishedResultsKept` and
`AgentsKeptApart` also assume that each operator is begun once (`Once`: no
`--retry-errored`, one manifest), as in the run: an orphan may bind its directory late, but
into the case of its own attempt. Otherwise an orphaned agent of an earlier attempt
binds its directory to the case that was started anew, and both claims fail. `BatchTypes` needs neither.

**Only model-checked**: liveness (`TaskFinishes`, `DeadClientReclaimed`, `ClaimEnds`,
`OwnedTaskFound`, `LoopEnds`, `JobsEnd`, `CommandEnds`, `CaseSettles`), which is out of
the prover's reach.

## 5. Not modelled

* Measurement, numerics (roofline, CANN tolerance), code generation by the
  adapters and templates, the code checker, log parsing in `failure_extractor.py`:
  text and floating point without control of their own. Their verdicts are inputs of
  the models.
* The wording of guidance: only the tool calls it names.
* Reports, dashboards, `batch/monitor.py`, `batch/summarize.py` and `batch/verify.py` read
  only. The scan of `batch/discover.py` is a free choice of operators in `Prepare`. Copying
  and templates of the scaffold.
* Routing among several workers: an evaluating process registers one.
* The data cache inside an evaluation (it is off by default). When it is on, a
  cached scalar time of an operator with several shapes has no per-shape times and
  `_make_ok_payload` drops it.
* Corrupted files other than a torn append; `atomic_write_*` is taken at its word.
* Two shells on one worker host, for which the code has no lock, are in no run; the model
  allows them and section 4 says what still holds.

## 6. Plan

1. (done) `TaskStore`, `TaskEvents`, refinement, invariants and first theorems.
2. (done) `DevicePool`, `DeviceLeases`, invariants and first theorems.
3. (done) `Sessions`, `Hooks`, `Batch`, `EvalPath`, `DataCache`, `WorkerControl`.
4. (done) Invariants and theorems for all specifications, the refinement of
   `TaskEvents`.
5. What could be added: the wiring between modules as refinements of their own (the device
   of `EvalPath` as a lease of `DeviceLeases`, the phases of a task in `Batch` as events
   of `TaskEvents`), and weaker hypotheses where a theorem has one, e.g. `StopsLeaveNoWorker`
   for several shells whose commands never overlap.

## 7. Running

    tlc -workers 2 -config StoreCrash.cfg MCTaskStore
    tlc -workers 2 -config Eval.cfg MCEvalPath
    tlapm TaskStoreProofs.tla
    tlapm DeviceLeasesProofs.tla
    tlapm EvalPathProofs.tla
    tlapm DataCacheProofs.tla
    tlapm SessionsProofs.tla
    tlapm HooksProofs.tla
    tlapm WorkerControlProofs.tla
    tlapm BatchProofs.tla
