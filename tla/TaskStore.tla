----------------------------- MODULE TaskStore -----------------------------
(***************************************************************************)
(* One autoresearch task directory: .ar_state/{state.json, intent.json,    *)
(* history.jsonl, plan.md, .edit_started}, the git repository of the task  *)
(* and the script that is running over them.  Every durable write is one   *)
(* step and the script may be killed between any two of them.              *)
(*                                                                         *)
(* The baseline, round and plan transactions (workflow/baseline.py,        *)
(* workflow/round.py, task_handle.py) share one shape, intent -> body ->   *)
(* save -> clear; rec carries what differs.  Ownership, heartbeats and the *)
(* hook gates are outside this module, so any script may be invoked in any *)
(* phase and only the checks the scripts make themselves hold it back.     *)
(***************************************************************************)
EXTENDS Integers, Sequences, FiniteSets

CONSTANTS
    MaxRounds,             \* config.max_rounds, copied into state.json by the baseline
    FailThreshold,         \* settings.consecutive_fail_threshold()
    Metrics,               \* values the primary metric may take
    LowerIsBetter,         \* config.lower_is_better
    ImprovementThreshold,  \* config.improvement_threshold, in percent
    PlanSizes,             \* number of items a validated plan may have
    MaxCrashes             \* bound: how often a script is killed

ASSUME ConstantsAssumption ==
    /\ MaxRounds \in Nat \ {0}
    /\ FailThreshold \in Nat \ {0}
    /\ Metrics \subseteq Nat \ {0}
    /\ LowerIsBetter \in BOOLEAN
    /\ ImprovementThreshold \in Nat
    /\ PlanSizes \subseteq Nat \ {0}
    /\ MaxCrashes \in Nat

Phases == {"INIT", "BASELINE", "PLAN", "EDIT", "DIAGNOSE", "REPLAN", "FINISH"}
Decisions == {"KEEP", "DISCARD", "FAIL"}
Commands == {"baseline", "pipeline", "create_plan", "resume", "activate"}
NoMetric == 0     \* a metric that is None
NoCommit == -1    \* best_commit is None or "seed_profile_failed"
NoRound == -1     \* no history yet, or its last line does not parse

\* pending_settle: the kd_json of a recorded round that plan.md has not absorbed.
NoPending == [item |-> 0, decision |-> "none", round |-> 0]

\* One line of history.jsonl; a line that does not parse is Garbage.
Garbage == [round |-> NoRound, decision |-> "garbage", item |-> 0, metric |-> NoMetric]

\* plan.md; version 0 stands for a missing file.
NoPlan == [version |-> 0, ids |-> {}, done |-> {}, active |-> 0, settled |-> <<>>]

\* state.json before any baseline: the control defaults, and the defaults of
\* the Progress dataclass for the fields a reader would see.
FreshState ==
    [phase |-> "INIT", progress_initialized |-> FALSE,
     pending_settle |-> NoPending,
     expected_plan_version |-> 0, expected_history_round |-> 0,
     eval_rounds |-> 0, consecutive_failures |-> 0,
     best_metric |-> NoMetric, best_commit |-> NoCommit,
     seed_metric |-> NoMetric, baseline_ok |-> FALSE,
     plan_version |-> 0, next_pid |-> 0]

NoIntent == [kind |-> "none", n |-> 0, patch |-> FreshState]
NoRec == [kind |-> "none", n |-> 0, patch |-> FreshState, row |-> Garbage, ids |-> {}]

VARIABLES
    st,        \* state.json
    intent,    \* intent.json, the write-ahead journal
    hist,      \* history.jsonl, one element per line
    cut,       \* history.jsonl does not end with a newline
    plan,      \* plan.md
    marker,    \* .edit_started exists
    head,      \* number of the git HEAD commit; 0 is the scaffold commit
    dirty,     \* an editable file differs from HEAD
    measured,  \* history variable: <<c, m>> when the kernel of commit c measured m
    cmd,       \* script being run
    pc,        \* where that script is
    rec,       \* volatile: the transaction the script is carrying out
    crashes    \* number of times a script was killed

files == <<st, intent, hist, cut, plan, marker>>
git == <<head, dirty, measured>>
proc == <<cmd, pc, rec>>
vars == <<files, git, proc, crashes>>

-----------------------------------------------------------------------------
(* Types *)

Pending == [item : Nat, decision : Decisions, round : Nat] \cup {NoPending}
Line == [round : Nat \cup {NoRound}, decision : Decisions \cup {"SEED", "garbage"},
         item : Nat, metric : Metrics \cup {NoMetric}]
State ==
    [phase : Phases, progress_initialized : BOOLEAN, pending_settle : Pending,
     expected_plan_version : Nat, expected_history_round : Nat,
     eval_rounds : Nat, consecutive_failures : Nat,
     best_metric : Metrics \cup {NoMetric}, best_commit : Nat \cup {NoCommit},
     seed_metric : Metrics \cup {NoMetric}, baseline_ok : BOOLEAN,
     plan_version : Nat, next_pid : Nat]
Plan == [version : Nat, ids : SUBSET Nat, done : SUBSET Nat, active : Nat,
         settled : Seq([item : Nat, decision : Decisions])]
Kinds == {"none", "baseline", "round", "plan"}
Locations == {"idle", "open", "open_clear", "enter", "intent", "body", "save",
              "clear", "settle", "settle_save", "settle_marker"}

TypeOK ==
    /\ st \in State
    /\ intent \in [kind : Kinds, n : Nat, patch : State]
    /\ hist \in Seq(Line)
    /\ cut \in BOOLEAN
    /\ plan \in Plan
    /\ marker \in BOOLEAN
    /\ head \in Nat
    /\ dirty \in BOOLEAN
    /\ measured \subseteq Nat \X Metrics
    /\ cmd \in Commands \cup {"none"}
    /\ pc \in Locations
    /\ rec \in [kind : Kinds, n : Nat, patch : State, row : Line, ids : SUBSET Nat]
    /\ crashes \in Nat

Init ==
    /\ st = FreshState /\ intent = NoIntent
    /\ hist = <<>> /\ cut = FALSE
    /\ plan = NoPlan /\ marker = FALSE
    /\ head = 0 /\ dirty = FALSE /\ measured = {}
    /\ cmd = "none" /\ pc = "idle" /\ rec = NoRec
    /\ crashes = 0

-----------------------------------------------------------------------------
(* Readers *)

PlanExists == plan.version # 0

PendingItems(p) == p.ids \ p.done

\* The first pending item in file order; ids are allocated in ascending order.
FirstOf(S) == IF S = {} THEN 0 ELSE CHOOSE i \in S : \A j \in S : i <= j

SettledItems(p) == {p.settled[i].item : i \in DOMAIN p.settled}

LastRound(h) == IF h = <<>> THEN NoRound ELSE h[Len(h)].round

SeedOnDisk == hist # <<>> /\ hist[1].round = 0 /\ hist[1].decision = "SEED"

\* check_state_consistency: an artifact that can be read must be at the
\* version state.json expects; one that cannot be read is taken as consistent.
Consistent ==
    /\ PlanExists => plan.version = st.expected_plan_version
    /\ LastRound(hist) # NoRound => LastRound(hist) = st.expected_history_round

Precheck ==
    CASE st.progress_initialized /\ SeedOnDisk   -> "already_done"
      [] st.progress_initialized /\ ~SeedOnDisk  -> "missing_seed"
      [] ~st.progress_initialized /\ SeedOnDisk  -> "orphan_seed"
      [] OTHER                                   -> "proceed"

\* Mutant of PhaseAfterRound: the round budget is off by one.
PhaseAfterRoundBudgetOff ==
    CASE st.eval_rounds > MaxRounds                   -> "FINISH"
      [] st.eval_rounds <= MaxRounds
         /\ st.consecutive_failures >= FailThreshold  -> "DIAGNOSE"
      [] OTHER -> IF PendingItems(plan) # {} THEN "EDIT" ELSE "REPLAN"

PhaseAfterRound ==
    CASE st.eval_rounds >= MaxRounds                  -> "FINISH"
      [] st.eval_rounds < MaxRounds
         /\ st.consecutive_failures >= FailThreshold  -> "DIAGNOSE"
      [] OTHER -> IF PendingItems(plan) # {} THEN "EDIT" ELSE "REPLAN"

PhaseOnResume ==
    CASE ~st.progress_initialized -> "BASELINE"
      [] st.progress_initialized /\ st.eval_rounds >= MaxRounds -> "FINISH"
      [] OTHER -> IF st.seed_metric = NoMetric \/ ~st.baseline_ok \/ ~PlanExists
                  THEN "PLAN"
                  ELSE IF plan.active # 0 \/ PendingItems(plan) # {}
                       THEN "EDIT" ELSE "REPLAN"

-----------------------------------------------------------------------------
(* Opening a task: every script heals first, then checks, then acts. *)

\* A script is started by the agent, by scaffold.py or from a shell.
Invoke(c) ==
    /\ pc = "idle"
    /\ cmd' = c /\ pc' = "open"
    /\ UNCHANGED <<files, git, rec, crashes>>

CaughtUp ==
    CASE intent.kind = "round"    -> st.expected_history_round = intent.n
      [] intent.kind = "baseline" -> st.progress_initialized
                                     /\ st.expected_history_round = 0
      [] intent.kind = "plan"     -> st.expected_plan_version = intent.n
      [] OTHER                    -> TRUE

\* Mutant of BodyLanded: a body on disk is not recognised.
BodyLandedNever == FALSE

BodyLanded ==
    CASE intent.kind = "round"    -> LastRound(hist) = intent.n
      [] intent.kind = "baseline" -> LastRound(hist) = 0
      [] intent.kind = "plan"     -> plan.version = intent.n
      [] OTHER                    -> FALSE

\* Mutant of ApplyPatch: the writer of a round forgets the round counter.
ApplyPatchNoRounds(kind, s, p) ==
    CASE kind = "round" ->
           [s EXCEPT !.consecutive_failures = p.consecutive_failures,
                     !.best_metric = p.best_metric, !.best_commit = p.best_commit,
                     !.pending_settle = p.pending_settle,
                     !.expected_history_round = p.expected_history_round]
      [] kind = "none" -> s
      [] OTHER -> p

\* Mutant of ApplyPatch: the writer of a round forgets the best metric.
ApplyPatchNoBest(kind, s, p) ==
    CASE kind = "round" -> [p EXCEPT !.best_metric = s.best_metric]
      [] kind = "none" -> s
      [] OTHER -> p

\* state.update(state_patch): each kind of transaction patches its own fields.
ApplyPatch(kind, s, p) ==
    CASE kind = "round" ->
           [s EXCEPT !.eval_rounds = p.eval_rounds,
                     !.consecutive_failures = p.consecutive_failures,
                     !.best_metric = p.best_metric, !.best_commit = p.best_commit,
                     !.seed_metric = p.seed_metric, !.baseline_ok = p.baseline_ok,
                     !.plan_version = p.plan_version, !.next_pid = p.next_pid,
                     !.pending_settle = p.pending_settle,
                     !.expected_history_round = p.expected_history_round]
      [] kind = "baseline" ->
           [s EXCEPT !.eval_rounds = p.eval_rounds,
                     !.consecutive_failures = p.consecutive_failures,
                     !.best_metric = p.best_metric, !.best_commit = p.best_commit,
                     !.seed_metric = p.seed_metric, !.baseline_ok = p.baseline_ok,
                     !.plan_version = p.plan_version, !.next_pid = p.next_pid,
                     !.phase = p.phase,
                     !.progress_initialized = p.progress_initialized,
                     !.expected_history_round = p.expected_history_round]
      [] kind = "plan" ->
           [s EXCEPT !.plan_version = p.plan_version, !.next_pid = p.next_pid,
                     !.consecutive_failures = p.consecutive_failures,
                     !.phase = p.phase, !.pending_settle = p.pending_settle,
                     !.expected_plan_version = p.expected_plan_version]
      [] OTHER -> s

\* replay_intent, "rebuilt": the body landed and state.json did not.
ReplayRebuild ==
    /\ pc = "open"
    /\ ~CaughtUp /\ BodyLanded
    /\ st' = ApplyPatch(intent.kind, st, intent.patch)
    /\ pc' = "open_clear"
    /\ UNCHANGED <<intent, hist, cut, plan, marker, git, cmd, rec, crashes>>

\* clear_intent after the rebuilt state.json was saved.
ReplayClear ==
    /\ pc = "open_clear"
    /\ intent' = NoIntent
    /\ pc' = "enter"
    /\ UNCHANGED <<st, hist, cut, plan, marker, git, cmd, rec, crashes>>

\* replay_intent, no journal, "cleared" or "discarded".
ReplayDrop ==
    /\ pc = "open"
    /\ CaughtUp \/ ~BodyLanded
    /\ intent' = NoIntent
    /\ pc' = "enter"
    /\ UNCHANGED <<st, hist, cut, plan, marker, git, cmd, rec, crashes>>

\* The body of script c runs once the consistency check passed.
Entered(c) == pc = "enter" /\ cmd = c /\ Consistent

Done == cmd' = "none" /\ pc' = "idle" /\ rec' = NoRec

\* The checks with which a script turns an invocation down: the consistency
\* report, baseline_preflight, require_phase, _commit_plan, _validate_resumable.
Refused ==
    \/ ~Consistent
    \/ /\ cmd = "baseline"
       /\ \/ Precheck \in {"orphan_seed", "missing_seed"}
          \/ /\ st.phase # "BASELINE"
             /\ ~(Precheck = "already_done" /\ st.phase = "PLAN")
    \/ cmd = "pipeline" /\ st.phase # "EDIT"
    \/ /\ cmd = "create_plan"
       /\ \/ ~st.progress_initialized
          \/ /\ st.phase \notin {"PLAN", "REPLAN", "DIAGNOSE"}
             /\ ~(st.phase = "EDIT" /\ st.pending_settle # NoPending)
    \/ cmd = "resume" /\ ~st.progress_initialized /\ st.phase # "BASELINE"

Refuse ==
    /\ pc = "enter"
    /\ Refused
    /\ Done
    /\ UNCHANGED <<files, git, crashes>>

-----------------------------------------------------------------------------
(* The shared transaction: intent -> body -> save -> clear *)

Start(r) == rec' = r /\ pc' = "intent" /\ UNCHANGED cmd

\* Mutant of WriteIntent: the body is written without a journal.
WriteIntentSkipped ==
    /\ pc = "intent"
    /\ pc' = "body"
    /\ UNCHANGED <<files, git, cmd, rec, crashes>>

WriteIntent ==
    /\ pc = "intent"
    /\ intent' = [kind |-> rec.kind, n |-> rec.n, patch |-> rec.patch]
    /\ pc' = "body"
    /\ UNCHANGED <<st, hist, cut, plan, marker, git, cmd, rec, crashes>>

\* append_history: text after an unterminated line joins that line.
AppendLine(h, c, row) == IF c THEN [h EXCEPT ![Len(h)] = Garbage] ELSE Append(h, row)

\* The SEED row is not appended a second time.
AppendsRow == rec.kind = "round" \/ (rec.kind = "baseline" /\ ~SeedOnDisk)

AppendHistory ==
    /\ pc = "body" /\ rec.kind # "plan"
    /\ IF AppendsRow
       THEN hist' = AppendLine(hist, cut, rec.row) /\ cut' = FALSE
       ELSE UNCHANGED <<hist, cut>>
    /\ pc' = "save"
    /\ UNCHANGED <<st, intent, plan, marker, git, cmd, rec, crashes>>

\* PlanStore.write: the first item is ACTIVE, the settled rows carry over.
WritePlan ==
    /\ pc = "body" /\ rec.kind = "plan"
    /\ plan' = [version |-> rec.n, ids |-> rec.ids, done |-> {},
                active |-> FirstOf(rec.ids), settled |-> plan.settled]
    /\ pc' = "save"
    /\ UNCHANGED <<st, intent, hist, cut, marker, git, cmd, rec, crashes>>

SaveState ==
    /\ pc = "save"
    /\ st' = ApplyPatch(rec.kind, st, rec.patch)
    /\ pc' = "clear"
    /\ UNCHANGED <<intent, hist, cut, plan, marker, git, cmd, rec, crashes>>

\* clear_intent; a recorded round goes on to be settled by the same script.
ClearIntent ==
    /\ pc = "clear"
    /\ intent' = NoIntent
    /\ IF rec.kind = "round"
       THEN pc' = "settle" /\ rec' = NoRec /\ UNCHANGED cmd
       ELSE Done
    /\ UNCHANGED <<st, hist, cut, plan, marker, git, crashes>>

-----------------------------------------------------------------------------
(* engine/baseline.py *)

\* ALREADY_DONE: Task.activate derives the phase from the committed event.
ActivateTarget ==
    CASE st.pending_settle # NoPending -> "EDIT"
      [] /\ st.pending_settle = NoPending
         /\ \/ st.phase \in {"INIT", "PLAN", "REPLAN"}
            \/ st.phase = "BASELINE" /\ st.progress_initialized -> PhaseOnResume
      [] OTHER -> st.phase

BaselineAlreadyDone ==
    /\ Entered("baseline") /\ ~Refused
    /\ Precheck = "already_done"
    /\ st' = [st EXCEPT !.phase = ActivateTarget]
    /\ Done
    /\ UNCHANGED <<intent, hist, cut, plan, marker, git, crashes>>

\* No valid reference, an infrastructure failure, or OK without the primary
\* metric: the task is parked at BASELINE with nothing committed.
BaselineUnavailable ==
    /\ Entered("baseline") /\ ~Refused
    /\ Precheck = "proceed"
    /\ st' = [st EXCEPT !.phase = "BASELINE"]
    /\ intent' = NoIntent
    /\ Done
    /\ UNCHANGED <<hist, cut, plan, marker, git, crashes>>

\* m = NoMetric: KERNEL_FAIL, whose timing cannot anchor best_metric.
BaselinePatch(m) ==
    [st EXCEPT !.eval_rounds = 0, !.consecutive_failures = 0,
               !.best_metric = m, !.seed_metric = m,
               !.best_commit = IF m = NoMetric THEN NoCommit ELSE head,
               !.baseline_ok = (m # NoMetric),
               !.plan_version = 0, !.next_pid = 0,
               !.phase = "PLAN", !.expected_history_round = 0,
               !.progress_initialized = TRUE]

RecordBaseline(m) ==
    /\ Entered("baseline") /\ ~Refused
    /\ Precheck = "proceed"
    /\ measured' = measured \cup (IF m = NoMetric THEN {} ELSE {<<head, m>>})
    /\ Start([kind |-> "baseline", n |-> 0, patch |-> BaselinePatch(m),
              row |-> [round |-> 0, decision |-> "SEED", item |-> 0, metric |-> m],
              ids |-> {}])
    /\ UNCHANGED <<files, head, dirty, crashes>>

-----------------------------------------------------------------------------
(* engine/pipeline.py *)

\* A pending_settle is settled first; nothing is evaluated.
PipelineReplay ==
    /\ Entered("pipeline") /\ ~Refused
    /\ st.pending_settle # NoPending
    /\ pc' = "settle"
    /\ UNCHANGED <<files, git, cmd, rec, crashes>>

\* auto_rollback restores HEAD, and keeps silent when git fails.
Rollback == dirty' \in {FALSE, dirty}

\* Quick check failed, the evaluation raised or was an INFRA_FAIL.
PipelineReject ==
    /\ Entered("pipeline") /\ ~Refused
    /\ st.pending_settle = NoPending
    /\ Rollback
    /\ marker' = FALSE
    /\ Done
    /\ UNCHANGED <<st, intent, hist, cut, plan, head, measured, crashes>>

\* is_improvement; metrics are positive.
IsImprovement(cur, best) ==
    (IF LowerIsBetter THEN best - cur ELSE cur - best) * 100
        > ImprovementThreshold * best

\* cur = NoMetric: incorrect, a constraint is violated, or there is no number.
Decide(cur) ==
    CASE cur = NoMetric -> "FAIL"
      [] cur # NoMetric /\ st.best_metric = NoMetric -> "KEEP"
      [] OTHER -> IF IsImprovement(cur, st.best_metric) THEN "KEEP" ELSE "DISCARD"

NextRound == st.eval_rounds + 1

Kept(cur, commit) ==
    [st EXCEPT !.consecutive_failures = 0, !.best_metric = cur, !.best_commit = commit]

\* Mutant of NotKept: a failure is counted down.
NotKeptSignOff(decision) ==
    [st EXCEPT !.consecutive_failures = IF decision = "FAIL" THEN @ - 1 ELSE @]

NotKept(decision) ==
    [st EXCEPT !.consecutive_failures = IF decision = "FAIL" THEN @ + 1 ELSE @]

\* Mutant of RoundRec: pending_settle is not bound to the evaluated item.
RoundRecUnbound(s, decision, cur) ==
    [kind |-> "round", n |-> NextRound,
     patch |-> [s EXCEPT !.eval_rounds = NextRound,
                         !.expected_history_round = NextRound,
                         !.pending_settle = [item |-> 0, decision |-> decision,
                                             round |-> NextRound]],
     row |-> [round |-> NextRound, decision |-> decision,
              item |-> plan.active, metric |-> cur],
     ids |-> {}]

\* s: the progress after the decision.  The patch adds the round counter, the
\* kd_json and the history marker.
RoundRec(s, decision, cur) ==
    [kind |-> "round", n |-> NextRound,
     patch |-> [s EXCEPT !.eval_rounds = NextRound,
                         !.expected_history_round = NextRound,
                         !.pending_settle = [item |-> plan.active,
                                             decision |-> decision,
                                             round |-> NextRound]],
     row |-> [round |-> NextRound, decision |-> decision,
              item |-> plan.active, metric |-> cur],
     ids |-> {}]

\* quick_check turns down an edit without a git-visible change.
EffectiveEdit == dirty

RoundStarts ==
    /\ Entered("pipeline") /\ ~Refused
    /\ st.pending_settle = NoPending
    /\ EffectiveEdit

\* KEEP: the kernel is committed before anything else is written.  A "noop"
\* commit leaves HEAD, whose kernel is then the one that was measured.
RoundKeep(cur, noop) ==
    /\ RoundStarts
    /\ Decide(cur) = "KEEP"
    /\ head' = IF noop THEN head ELSE head + 1
    /\ dirty' = FALSE
    /\ measured' = measured \cup {<<head', cur>>}
    /\ Start(RoundRec(Kept(cur, head'), "KEEP", cur))
    /\ UNCHANGED <<files, crashes>>

\* Mutant of RoundRollback: best_metric is written although the commit failed.
RoundRollbackKeepsBest(cur, commitFails) ==
    LET decision == IF commitFails THEN "KEEP" ELSE Decide(cur) IN
    /\ RoundStarts
    /\ commitFails <=> Decide(cur) = "KEEP"
    /\ Rollback
    /\ Start(RoundRec(IF commitFails THEN Kept(cur, NoCommit) ELSE NotKept(decision),
                      decision, cur))
    /\ UNCHANGED <<files, head, measured, crashes>>

\* DISCARD, FAIL, or a KEEP whose commit failed: roll back to HEAD.
RoundRollback(cur, commitFails) ==
    LET decision == IF commitFails THEN "FAIL" ELSE Decide(cur) IN
    /\ RoundStarts
    /\ commitFails => Decide(cur) = "KEEP"
    /\ decision # "KEEP"
    /\ Rollback
    /\ Start(RoundRec(NotKept(decision), decision, cur))
    /\ UNCHANGED <<files, head, measured, crashes>>

-----------------------------------------------------------------------------
(* Task.settle_round: plan.md, then phase and pending_settle, then the marker *)

\* Mutant of AlreadySettled: a settlement is not recognised when replayed.
AlreadySettledNever == FALSE

AlreadySettled ==
    /\ st.pending_settle.item # plan.active
    /\ st.pending_settle.item \in SettledItems(plan)

\* No plan, no ACTIVE item, or another item is ACTIVE and this one is not in
\* the Settled History.
SettleFails ==
    \/ ~PlanExists
    \/ plan.active = 0 /\ ~AlreadySettled
    \/ st.pending_settle.item \notin {0, plan.active} /\ ~AlreadySettled

\* Mutant of SettleActive: the ACTIVE marker is not advanced.
SettleActiveNoAdvance(p, decision) ==
    [p EXCEPT !.done = @ \cup {p.active}, !.active = 0,
              !.settled = Append(@, [item |-> p.active, decision |-> decision])]

SettleActive(p, decision) ==
    [p EXCEPT !.done = @ \cup {p.active},
              !.active = FirstOf(PendingItems(p) \ {p.active}),
              !.settled = Append(@, [item |-> p.active, decision |-> decision])]

SettlePlan ==
    /\ pc = "settle"
    /\ IF SettleFails
       THEN Done /\ UNCHANGED plan
       ELSE /\ plan' = IF AlreadySettled THEN plan
                       ELSE SettleActive(plan, st.pending_settle.decision)
            /\ pc' = "settle_save"
            /\ UNCHANGED <<cmd, rec>>
    /\ UNCHANGED <<st, intent, hist, cut, marker, git, crashes>>

\* Mutant of SettleSave: the phase is saved, the sentinel is cleared later.
SettleSavePhaseOnly ==
    /\ pc = "settle_save"
    /\ IF st.phase = PhaseAfterRound
       THEN st' = [st EXCEPT !.pending_settle = NoPending] /\ pc' = "settle_marker"
       ELSE st' = [st EXCEPT !.phase = PhaseAfterRound] /\ UNCHANGED pc
    /\ UNCHANGED <<intent, hist, cut, plan, marker, git, cmd, rec, crashes>>

SettleSave ==
    /\ pc = "settle_save"
    /\ st' = [st EXCEPT !.phase = PhaseAfterRound, !.pending_settle = NoPending]
    /\ pc' = "settle_marker"
    /\ UNCHANGED <<intent, hist, cut, plan, marker, git, cmd, rec, crashes>>

SettleMarker ==
    /\ pc = "settle_marker"
    /\ marker' = FALSE
    /\ Done
    /\ UNCHANGED <<st, intent, hist, cut, plan, git, crashes>>

-----------------------------------------------------------------------------
(* engine/create_plan.py, resume.py and the activation hook *)

\* The persisted counter, or one past the highest pid plan.md still lists.
ComputeNextPid ==
    IF st.next_pid # 0 THEN st.next_pid
    ELSE 1 + (IF plan.ids = {} THEN 0 ELSE CHOOSE i \in plan.ids : \A j \in plan.ids : j <= i)

\* The failure counter starts anew only when the plan answers a DIAGNOSE.
PlanPatch(next) ==
    [st EXCEPT !.plan_version = @ + 1,
               !.next_pid = next,
               !.consecutive_failures = IF st.phase = "DIAGNOSE" THEN 0 ELSE @,
               !.phase = "EDIT",
               !.pending_settle = NoPending,
               !.expected_plan_version = st.plan_version + 1]

CommitPlan(size) ==
    LET first == ComputeNextPid IN
    /\ Entered("create_plan") /\ ~Refused
    /\ Start([kind |-> "plan", n |-> st.plan_version + 1,
              patch |-> PlanPatch(first + size),
              row |-> Garbage,
              ids |-> first .. first + size - 1])
    /\ UNCHANGED <<files, git, crashes>>

\* The XML input does not parse or validate: nothing is written.
PlanRejected ==
    /\ Entered("create_plan") /\ ~Refused
    /\ Done
    /\ UNCHANGED <<files, git, crashes>>

\* is_working_tree_clean calls GitRepo.dirty_files() without its argument;
\* the TypeError is swallowed and every tree is reported as not clean.
IsWorkingTreeClean == FALSE

CleanStaleMarker == marker' = (marker /\ ~IsWorkingTreeClean)

Resume ==
    /\ Entered("resume") /\ ~Refused
    /\ CleanStaleMarker
    /\ Done
    /\ UNCHANGED <<st, intent, hist, cut, plan, git, crashes>>

\* Activation with fresh=True only ever meets phase INIT, where both
\* branches of Task.activate select BASELINE.
Activate ==
    /\ Entered("activate")
    /\ CleanStaleMarker
    /\ st' = [st EXCEPT !.phase = ActivateTarget]
    /\ Done
    /\ UNCHANGED <<intent, hist, cut, plan, git, crashes>>

-----------------------------------------------------------------------------
(* The agent's edits, and crashes *)

\* The pre_edit gate and the edit it lets through (the edit itself may fail).
AgentEdit ==
    /\ pc = "idle"
    /\ st.phase = "EDIT"
    /\ marker \/ ~dirty
    /\ marker' = TRUE
    /\ dirty' \in {dirty, TRUE}
    /\ UNCHANGED <<st, intent, hist, cut, plan, head, measured, proc, crashes>>

Killed ==
    /\ crashes < MaxCrashes
    /\ crashes' = crashes + 1
    /\ Done

\* Killed between two writes.
Crash ==
    /\ pc # "idle"
    /\ Killed
    /\ UNCHANGED <<files, git>>

\* Killed, or out of disk space, within the append to history.jsonl: the line
\* is left without its newline, and unless only that was missing it does not
\* parse.
TornAppend(line) ==
    /\ pc = "body" /\ rec.kind # "plan" /\ AppendsRow
    /\ line \in {Garbage, rec.row}
    /\ hist' = AppendLine(hist, cut, line)
    /\ cut' = TRUE
    /\ Killed
    /\ UNCHANGED <<st, intent, plan, marker, git>>

-----------------------------------------------------------------------------
(* The steps of a running script, and the specification *)

Recording ==
    \/ \E m \in Metrics \cup {NoMetric} : RecordBaseline(m)
    \/ \E m \in Metrics, noop \in BOOLEAN : RoundKeep(m, noop)
    \/ \E m \in Metrics \cup {NoMetric}, fails \in BOOLEAN : RoundRollback(m, fails)
    \/ \E size \in PlanSizes : CommitPlan(size)

Transaction ==
    WriteIntent \/ AppendHistory \/ WritePlan \/ SaveState \/ ClearIntent

ScriptStep ==
    \/ ReplayRebuild \/ ReplayClear \/ ReplayDrop \/ Refuse
    \/ BaselineAlreadyDone \/ BaselineUnavailable
    \/ PipelineReplay \/ PipelineReject \/ PlanRejected
    \/ Resume \/ Activate
    \/ Recording \/ Transaction
    \/ SettlePlan \/ SettleSave \/ SettleMarker

Next ==
    \/ \E c \in Commands : Invoke(c)
    \/ ScriptStep
    \/ AgentEdit
    \/ Crash
    \/ \E line \in {Garbage, rec.row} : TornAppend(line)

Spec == Init /\ [][Next]_vars

\* A started script runs on unless it is killed.  The stop hook refuses to let
\* the session end before FINISH and the guidance names the script to run, so
\* the agent keeps invoking every script; now and then its edit is effective
\* and an evaluation yields a recorded result.
Fairness ==
    /\ WF_vars(ScriptStep)
    /\ \A c \in Commands : SF_vars(Invoke(c))
    /\ SF_vars(AgentEdit /\ dirty')
    /\ SF_vars(Recording)

FairSpec == Spec /\ Fairness

-----------------------------------------------------------------------------
(* Safety *)

NoGarbage == \A i \in DOMAIN hist : hist[i].round # NoRound

\* A gap between state.json and plan.md or history.jsonl is always covered by
\* a journal, so no kill at any point makes open_task raise
\* TaskConsistencyError once replay_intent has run.
NoJournalNoGap == intent.kind = "none" => Consistent

\* A round number is never used for two readable rows of history.jsonl, and
\* rows are in round order: no retry after a kill records a round twice.
RoundsRecordedOnce ==
    \A i, j \in DOMAIN hist :
        /\ i < j
        /\ hist[i].round # NoRound
        /\ hist[j].round # NoRound
        => hist[i].round < hist[j].round

\* While no transaction is in flight and no append was torn, state.json is what
\* history.jsonl adds up to: rows 0 .. eval_rounds without a hole, the seed
\* metric that of the SEED row, the best metric that of the last KEEP row.
HistoryMatchesState ==
    /\ intent.kind = "none"
    /\ st.progress_initialized
    /\ NoGarbage
    => /\ Len(hist) = st.eval_rounds + 1
       /\ \A i \in DOMAIN hist : hist[i].round = i - 1
       /\ st.seed_metric = hist[1].metric
       /\ \E k \in DOMAIN hist :
             /\ hist[k].decision \in {"SEED", "KEEP"}
             /\ hist[k].metric = st.best_metric
             /\ \A i \in DOMAIN hist : hist[i].decision = "KEEP" => i <= k

\* The Settled History names an item once, with the decision that history.jsonl
\* recorded for it, however often the settlement was replayed.
SettledOnce ==
    /\ \A i, j \in DOMAIN plan.settled :
          i # j => plan.settled[i].item # plan.settled[j].item
    /\ NoGarbage =>
          \A i \in DOMAIN plan.settled : \E k \in DOMAIN hist :
              /\ hist[k].item = plan.settled[i].item
              /\ hist[k].decision = plan.settled[i].decision

\* settle_round never raises TaskCorrupted: the pending item is ACTIVE or
\* already in the Settled History whenever a settlement starts.
SettleSucceeds == pc = "settle" => ~SettleFails

\* best_commit is a commit whose kernel really measured best_metric.
BestIsCommitted ==
    st.best_metric # NoMetric => <<st.best_commit, st.best_metric>> \in measured

\* In EDIT with nothing pending there is an ACTIVE item, so pipeline.py never
\* records a round that is bound to no plan item.
EditHasActive ==
    /\ st.phase = "EDIT"
    /\ st.pending_settle = NoPending
    /\ intent.kind = "none"
    => plan.active \in PendingItems(plan)

\* The round budget is overrun only by one round per kill: without a kill the
\* round that reaches max_rounds is settled, and settling it is FINISH.
RoundsBounded == st.eval_rounds <= MaxRounds + crashes

(* Action properties *)

\* FINISH is final, whatever is run or killed afterwards.
FinishIsFinal == [][st.phase = "FINISH" => st'.phase = "FINISH"]_vars

\* Rounds are counted one by one and never taken back; plan versions and pids
\* only grow.
CountersAdvance ==
    [][/\ st'.eval_rounds \in {st.eval_rounds, st.eval_rounds + 1}
       /\ st'.expected_history_round \in
              {st.expected_history_round, st.expected_history_round + 1}
       /\ st'.plan_version \in {st.plan_version, st.plan_version + 1}
       /\ st'.next_pid >= st.next_pid]_vars

(* Liveness *)

\* The task reaches FINISH and stays there with nothing left to settle: a
\* recorded round is settled by its own script, by a replay or by a recovery
\* plan.
TaskFinishes == <>[](st.phase = "FINISH" /\ st.pending_settle = NoPending)

(* Statements of the documentation that the code does not keep *)

\* AUTORESEARCH.md: --max-rounds N is the maximum number of rounds.
RoundBudget == st.eval_rounds <= MaxRounds

\* resume.py: a git clean tree means that the marker is stale and goes.
StaleMarkerCleaned == [][Resume /\ ~dirty => ~marker']_vars

\* append_history: each row is self-contained, so a committed round has one.
CommittedRoundReadable ==
    st.progress_initialized =>
        \E i \in DOMAIN hist : hist[i].round = st.expected_history_round
=============================================================================
