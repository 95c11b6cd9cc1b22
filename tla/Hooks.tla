-------------------------------- MODULE Hooks --------------------------------
(***************************************************************************)
(* The guard rails around an agent that drives one task: every tool call   *)
(* passes the pre hook, runs, and is reported by the post hook             *)
(* (scripts/decide.py), on the gates of phase_machine/phase_policy.py, the *)
(* diagnosis sub-states of validators.py and the instructions of           *)
(* guidance.py.  A headless driver (.opencode/run_loop.py) repeats turns   *)
(* until the stop verdict lets go.  The engine scripts are the events of   *)
(* TaskEvents, which TaskStore is shown to implement.                      *)
(***************************************************************************)
EXTENDS Integers

CONSTANTS
    MaxRounds, FailThreshold, Metrics,   \* of TaskEvents
    AttemptsCap,    \* DIAGNOSE_ATTEMPTS_CAP
    Subs,           \* the subagents that may run at the same time
    MaxVersion,     \* bound: plans committed by an agent that follows no guidance
    MaxSpawns,      \* bound: subagents started by such an agent
    Commands,       \* the shell commands the agent tries
    Obedience       \* TRUE: agents that follow their guidance, FALSE: any agent

ASSUME HooksAssumption ==
    /\ MaxRounds \in Nat \ {0} /\ FailThreshold \in Nat \ {0}
    /\ Metrics \subseteq Nat \ {0}
    /\ AttemptsCap \in Nat \ {0} /\ MaxVersion \in Nat /\ MaxSpawns \in Nat
    /\ Obedience \subseteq BOOLEAN

VARIABLES
    phase, started, seed, rounds, failures, best, pending, version,
    good,       \* plan versions whose diagnose_v<N>.md validates
    attempts,   \* diagnose_attempts
    attemptsFor,\* diagnose_attempts_for_version
    items,      \* plan_items.xml: "none", "valid" or "invalid"
    dirty,      \* an editable file differs from HEAD
    marker,     \* .edit_started exists
    call,       \* the tool call of the main agent that passed its pre hook
    sub,        \* the subagents in flight
    spawns,     \* subagents started, against MaxSpawns
    driver,     \* the driver's loop: "check", "turn", "ended", "aborted"
    obeys,      \* this agent makes the calls its guidance names, in their order
    failed,     \* history: subagents, of any kind, that came back while a version
                \* was current and had no valid artifact
    own,        \* history: those of them that are ar-diagnosis runs started for it
    diagnosed   \* history: versions whose artifact was valid at some time

event == <<phase, started, seed, rounds, failures, best, pending, version>>
kernel == <<dirty, marker>>
ghosts == <<failed, own, diagnosed>>
vars == <<event, good, attempts, attemptsFor, items, kernel, call, sub, spawns, driver, obeys, ghosts>>

Events == INSTANCE TaskEvents

Phases == {"INIT", "BASELINE", "PLAN", "EDIT", "DIAGNOSE", "REPLAN", "FINISH"}
Versions == 0..(MaxVersion + MaxRounds)

-----------------------------------------------------------------------------
(* phase_policy.py: the shape of a command.                                *)

EngineScripts == {"baseline.py", "create_plan.py", "parse_args.py", "pipeline.py"}
LifecycleScripts == {"dashboard.py", "parse_args.py", "scaffold.py", "resume.py"}
Blessed == EngineScripts \cup LifecycleScripts
LibraryNotCli == {"eval_kernel.py", "quick_check.py", "report.py"}

CanonicalLocation(name) == IF name \in EngineScripts THEN "engine" ELSE "root"

\* One segment of a chain, tokenised: a redirect, an --output flag, a find
\* action with an effect and a git branch flag that does not list are unsafe.
ReadonlySegment(seg) ==
    /\ seg.safe
    /\ seg.head \in {"reader", "find"}
       \/ (seg.head = "git" /\ seg.arg \in {"log", "diff", "status", "show",
                                            "rev-parse", "blame", "branch"})
       \/ (seg.head = "export" /\ seg.arg = "AR_TASK_DIR")

\* A substitution is never read; a direct invocation of a script in its own
\* place is AR or LIFECYCLE; a chain of readers is READONLY.
Classify(c) ==
    IF c.subst THEN [klass |-> "OTHER", name |-> "none"]
    ELSE IF c.direct /\ c.name \in Blessed /\ c.dir = CanonicalLocation(c.name)
    THEN [klass |-> IF c.name \in LifecycleScripts THEN "LIFECYCLE" ELSE "AR",
          name |-> c.name]
    ELSE IF c.segs # {} /\ \A seg \in c.segs : ReadonlySegment(seg)
    THEN [klass |-> "READONLY", name |-> "none"]
    ELSE [klass |-> "OTHER", name |-> "none"]

Invoked(c) == Classify(c).name

\* The names of scripts/ a python command mentions, in whatever shape.
ScriptNames(c) == IF c.python /\ c.name # "none" THEN {c.name} ELSE {}

ScriptNamesKnown(c) == ScriptNames(c) \subseteq Blessed

ARAllowed(ph) ==
    CASE ph = "BASELINE" -> {"baseline.py"}
      [] ph \in {"DIAGNOSE", "PLAN", "REPLAN"} -> {"create_plan.py"}
      [] ph = "EDIT" -> {"pipeline.py"}
      [] OTHER -> {}

CheckBash(ph, c) ==
    /\ ~c.commit
    /\ \/ Classify(c).klass \in {"LIFECYCLE", "READONLY"}
       \/ Classify(c).klass = "AR" /\ Invoked(c) \in ARAllowed(ph)

-----------------------------------------------------------------------------
(* validators.py: where a diagnosis stands.                                *)

\* Mutant of DiagnoseAttempts: the attempts of an older plan still count.
DiagnoseAttemptsAny == attempts

\* Attempts count only for the plan version they were made for.
DiagnoseAttempts == IF attemptsFor = version THEN attempts ELSE 0

ValidateDiagnose(v) == v \in good

DiagnoseAction ==
    IF ValidateDiagnose(version) THEN "READY"
    ELSE IF DiagnoseAttempts >= AttemptsCap THEN "FALLBACK" ELSE "NEED"

\* Mutant of CheckEdit: the manual fallback does not open the plan items.
CheckEditReadyOnly(ph, path) ==
    CASE path = "plan_items" -> \/ ph \in {"PLAN", "REPLAN"}
                                \/ ph = "DIAGNOSE" /\ DiagnoseAction = "READY"
                                \/ ph = "EDIT" /\ pending
      [] path = "diagnose" -> ph = "DIAGNOSE"
      [] path = "editable" -> ph = "EDIT"
      [] OTHER -> FALSE

\* check_edit on a file of the task.
CheckEdit(ph, path) ==
    CASE path = "plan_items" -> \/ ph \in {"PLAN", "REPLAN"}
                                \/ ph = "DIAGNOSE" /\ DiagnoseAction \in {"READY", "FALLBACK"}
                                \/ ph = "EDIT" /\ pending
      [] path = "diagnose" -> ph = "DIAGNOSE"
      [] path = "editable" -> ph = "EDIT"
      [] OTHER -> FALSE            \* plan.md, state.json, history, files outside

-----------------------------------------------------------------------------
(* decide.py, before a tool call.                                          *)

\* Mutant of PreBash: create_plan.py is let through while a diagnosis is due.
PreBashUndiagnosed(c) ==
    /\ ScriptNamesKnown(c)
    /\ IF phase = "EDIT" /\ Invoked(c) = "create_plan.py" /\ pending
       THEN CheckBash("REPLAN", c) ELSE CheckBash(phase, c)

\* _pre_bash: the names, the diagnosis gate, the table; a settled plan whose
\* round is pending may be replaced.
PreBash(c) ==
    /\ ScriptNamesKnown(c)
    /\ ~(phase = "DIAGNOSE" /\ Invoked(c) = "create_plan.py" /\ DiagnoseAction = "NEED")
    /\ IF phase = "EDIT" /\ Invoked(c) = "create_plan.py" /\ pending
       THEN CheckBash("REPLAN", c) ELSE CheckBash(phase, c)

\* _edit_phase_git_gate: on entry to EDIT the kernel is as HEAD has it; the first
\* edit that passes leaves .edit_started, and the next ones are not looked at.
GitGate == marker \/ ~dirty

\* _pre_edit, when git answers.
PreEdit(path) ==
    /\ CheckEdit(phase, path)
    /\ phase = "EDIT" /\ path = "editable" => GitGate

\* The marker after an edit call; git that fails or times out closes nothing,
\* and whether the marker is then made depends on which of its calls failed.
EditPasses(path) ==
    \/ /\ PreEdit(path)
       /\ marker' = (marker \/ (phase = "EDIT" /\ path = "editable"))
    \/ /\ CheckEdit(phase, path) /\ phase = "EDIT" /\ path = "editable"
       /\ marker' \in {marker, TRUE}

PreTask(agent) ==
    phase = "DIAGNOSE" => DiagnoseAction = "NEED" /\ agent = "ar-diagnosis"

\* The baseline is missing and no baseline run produced it.
IsStuck == phase = "BASELINE" /\ ~started

StopBlocked == phase # "FINISH" /\ ~IsStuck

-----------------------------------------------------------------------------
(* guidance.py: the tool calls an instruction asks for, in their order.    *)

Direct(name) == [name |-> name, dir |-> CanonicalLocation(name), direct |-> TRUE,
                 python |-> TRUE, subst |-> FALSE, commit |-> FALSE, segs |-> {}]
ExportTask == [name |-> "none", dir |-> "none", direct |-> FALSE, python |-> FALSE,
               subst |-> FALSE, commit |-> FALSE,
               segs |-> {[head |-> "export", arg |-> "AR_TASK_DIR", safe |-> TRUE]}]

Shell(c) == [tool |-> "shell", cmd |-> c]
Edit(path) == [tool |-> "edit", path |-> path]
Spawn(agent) == [tool |-> "subagent", agent |-> agent]

\* Write the items to the fixed path, then run the script.
CreatePlanInstruction == {Edit("plan_items"), Shell(Direct("create_plan.py"))}

PlanGuidance == CreatePlanInstruction
ReplanGuidance == CreatePlanInstruction
EditGuidance == {Edit("editable"), Shell(Direct("pipeline.py"))}

DiagnosePlanNextStep == CreatePlanInstruction
DiagnosePrompt == {Spawn("ar-diagnosis")}
DiagnoseGuidance ==
    IF started /\ DiagnoseAction \in {"READY", "FALLBACK"}
    THEN DiagnosePlanNextStep ELSE DiagnosePrompt

GetGuidance ==
    CASE phase = "INIT" -> {Shell(ExportTask)}
      [] phase = "BASELINE" -> {Shell(Direct("baseline.py"))}
      [] phase = "PLAN" -> PlanGuidance
      [] phase = "EDIT" -> EditGuidance
      [] phase = "DIAGNOSE" -> DiagnoseGuidance
      [] phase = "REPLAN" -> ReplanGuidance
      [] OTHER -> {}

Allowed(tc) ==
    CASE tc.tool = "shell" -> PreBash(tc.cmd)
      [] tc.tool = "edit" -> PreEdit(tc.path)
      [] tc.tool = "subagent" -> PreTask(tc.agent)

-----------------------------------------------------------------------------
NoCall == [tool |-> "none"]
NoSub == [at |-> "none", agent |-> "none", version |-> 0, attempts |-> 0]
Agents == {"ar-diagnosis", "other"}
Paths == {"plan_items", "diagnose", "editable", "plan_md", "state", "outside"}
ToolCalls == {Shell(c) : c \in Commands} \cup {Edit(path) : path \in Paths}
             \cup {Spawn(agent) : agent \in Agents}

\* The types; failed diagnoses are counted for a plan that exists.
TypeOK ==
    /\ phase \in Phases /\ started \in BOOLEAN /\ pending \in BOOLEAN
    /\ seed \in Nat /\ rounds \in Nat /\ failures \in Nat /\ best \in Nat
    /\ version \in Versions /\ attemptsFor \in -1..version
    /\ good \subseteq Versions /\ attempts \in Nat
    /\ items \in {"none", "valid", "invalid"} /\ dirty \in BOOLEAN /\ marker \in BOOLEAN
    /\ call \in ToolCalls \cup {NoCall}
    /\ sub \in [Subs -> [at : {"none", "runs", "read"}, agent : Agents \cup {"none"},
                        version : Versions, attempts : Nat]]
    /\ driver \in {"check", "turn", "ended", "aborted"}
    /\ obeys \in BOOLEAN /\ spawns \in 0..MaxSpawns
    /\ failed \in [Versions -> Nat] /\ own \in [Versions -> Nat] /\ diagnosed \subseteq Versions

Init ==
    /\ phase = "INIT" /\ started = FALSE /\ pending = FALSE
    /\ seed = 0 /\ rounds = 0 /\ failures = 0 /\ best = 0 /\ version = 0
    /\ good = {} /\ attempts = 0 /\ attemptsFor = -1 /\ items = "none"
    /\ dirty = FALSE /\ marker = FALSE
    /\ call = NoCall /\ sub = [i \in Subs |-> NoSub]
    /\ driver = "check" /\ obeys \in Obedience /\ spawns = 0
    /\ failed = [v \in Versions |-> 0] /\ own = [v \in Versions |-> 0] /\ diagnosed = {}

hooks == <<good, attempts, attemptsFor>>
loop == <<driver, obeys, spawns>>

\* The next call of an instruction: the items before the script that reads
\* them, an edit before the pipeline unless there is a change to settle, and one
\* subagent at a time.
NextGuided ==
    IF \E i \in Subs : sub[i] # NoSub THEN {}
    ELSE IF Edit("plan_items") \in GetGuidance
    THEN IF items = "valid" THEN {Shell(Direct("create_plan.py"))} ELSE {Edit("plan_items")}
    ELSE IF Edit("editable") \in GetGuidance
    THEN IF dirty THEN {Shell(Direct("pipeline.py"))} ELSE {Edit("editable")}
    ELSE GetGuidance

\* The agent proposes a tool call; a blocked one has no effect.
PreTool(tc) ==
    /\ driver = "turn" /\ call = NoCall
    /\ obeys => tc \in NextGuided
    /\ tc = Shell(Direct("create_plan.py")) => obeys \/ version < MaxVersion
    /\ IF tc.tool = "edit" THEN EditPasses(tc.path) ELSE Allowed(tc) /\ UNCHANGED marker
    /\ IF tc.tool = "subagent"
       THEN /\ \E i \in Subs :
                 /\ sub[i] = NoSub
                 /\ sub' = [sub EXCEPT ![i] = [@ EXCEPT !.at = "runs", !.agent = tc.agent,
                                                       !.version = version]]
            /\ obeys \/ spawns < MaxSpawns
            /\ spawns' = IF obeys THEN spawns ELSE spawns + 1
            /\ UNCHANGED call
       ELSE call' = tc /\ UNCHANGED <<sub, spawns>>
    /\ UNCHANGED <<event, hooks, items, dirty, driver, obeys, ghosts>>

Called(c) == call.tool = "shell" /\ call.cmd = c
Returns == call' = NoCall /\ UNCHANGED <<sub, loop, failed, own>>

\* What the shell commands do.  A failing script leaves the task as it was.
RunExport ==
    /\ Called(ExportTask)
    /\ \/ Events!Activate
       \/ ~(phase = "INIT" \/ (phase = "REPLAN" /\ seed = 0)) /\ UNCHANGED event
    /\ UNCHANGED <<hooks, items, kernel, diagnosed>> /\ Returns

RunBaseline ==
    /\ Called(Direct("baseline.py"))
    /\ (\E m \in Metrics \cup {0} : Events!Baseline(m)) \/ UNCHANGED event
    /\ UNCHANGED <<hooks, items, kernel, diagnosed>> /\ Returns

\* create_plan.py takes valid items and removes nothing else.
RunCreatePlan ==
    /\ Called(Direct("create_plan.py"))
    /\ \/ items = "valid" /\ Events!PlanCommitted /\ UNCHANGED items
       \/ items # "valid" /\ UNCHANGED <<event, items>>
    /\ UNCHANGED <<hooks, kernel, diagnosed>> /\ Returns

\* One run of pipeline.py records and settles a round; the settle may be left
\* to the next run.  A round needs a change git can see; it ends with a commit or
\* with a rollback, which keeps silent when git fails.  The settlement removes
\* the marker last.  A run that records nothing was turned down by the checks,
\* and rolls back and removes the marker, or it died on its way.
RunPipeline ==
    /\ Called(Direct("pipeline.py"))
    /\ \/ /\ Events!RoundRecorded /\ dirty
          /\ dirty' \in IF best' # best THEN {FALSE} ELSE BOOLEAN
          /\ UNCHANGED marker
       \/ Events!RoundSettled /\ UNCHANGED dirty /\ marker' \in {marker, FALSE}
       \/ UNCHANGED event /\ dirty' \in {dirty, FALSE} /\ marker' \in {marker, FALSE}
    /\ UNCHANGED <<hooks, items, diagnosed>> /\ Returns

RunOther ==
    /\ call.tool = "shell"
    /\ \A c \in {ExportTask, Direct("baseline.py"), Direct("create_plan.py"),
                 Direct("pipeline.py")} : ~Called(c)
    /\ UNCHANGED <<event, hooks, items, kernel, diagnosed>> /\ Returns

\* The file's body has the marker and the three sections, or it does not.
WriteArtifact(v) ==
    /\ good' \in {good \cup {v}, good \ {v}}
    /\ diagnosed' = diagnosed \cup good'

RunEdit ==
    /\ call.tool = "edit"
    /\ IF call.path = "plan_items" THEN items' \in {"valid", "invalid"} ELSE UNCHANGED items
    /\ IF call.path = "diagnose" THEN WriteArtifact(version)
                                 ELSE UNCHANGED <<good, diagnosed>>
    /\ IF call.path = "editable" THEN dirty' \in BOOLEAN ELSE UNCHANGED dirty
    /\ UNCHANGED <<event, attempts, attemptsFor, marker>> /\ Returns

\* A subagent writes the artifact its prompt names, through the edit gate.
SubagentWrites(i) ==
    /\ sub[i].at = "runs" /\ PreEdit("diagnose")
    /\ WriteArtifact(sub[i].version)
    /\ UNCHANGED <<event, attempts, attemptsFor, items, kernel, call, sub, loop, failed, own>>

\* Mutant of PostTaskRead: a run that left no valid artifact is not counted.
PostTaskReadUncounted(i) ==
    /\ sub[i].at = "runs"
    /\ sub' = [sub EXCEPT ![i] =
          IF phase # "DIAGNOSE" \/ DiagnoseAction # "READY" THEN NoSub
          ELSE [sub[i] EXCEPT !.at = "read", !.version = version, !.attempts = 0]]
    /\ UNCHANGED <<event, hooks, items, kernel, call, loop, ghosts>>

\* _post_task, first half: a subagent is back; phase, artifact and counter are
\* read.  Which agent it was and what plan it was started for is not asked.
PostTaskRead(i) ==
    LET misses == phase = "DIAGNOSE" /\ DiagnoseAction # "READY"
        its == sub[i].agent = "ar-diagnosis" /\ sub[i].version = version
    IN
    /\ sub[i].at = "runs"
    /\ sub' = [sub EXCEPT ![i] =
          IF phase # "DIAGNOSE" THEN NoSub
          ELSE [@ EXCEPT !.at = "read", !.version = version,
                         !.attempts = IF misses THEN DiagnoseAttempts + 1 ELSE 0]]
    /\ failed' = IF misses THEN [failed EXCEPT ![version] = @ + 1] ELSE failed
    /\ own' = IF misses /\ its THEN [own EXCEPT ![version] = @ + 1] ELSE own
    /\ UNCHANGED <<event, hooks, items, kernel, call, loop, diagnosed>>

\* Second half: update_progress writes what was read plus one.
PostTaskWrite(i) ==
    /\ sub[i].at = "read"
    /\ attempts' = sub[i].attempts /\ attemptsFor' = sub[i].version
    /\ sub' = [sub EXCEPT ![i] = NoSub]
    /\ UNCHANGED <<event, good, items, kernel, call, loop, ghosts>>

-----------------------------------------------------------------------------
(* The driver.                                                             *)

\* while decide(stop).block: another turn.
LoopCheck ==
    /\ driver = "check" /\ call = NoCall
    /\ driver' = IF StopBlocked THEN "turn" ELSE "ended"
    /\ UNCHANGED <<event, hooks, items, kernel, call, sub, obeys, spawns, ghosts>>

\* The agent ends its turn.  A provider error, or a first turn that prints no
\* session id, ends the loop.
TurnEnds ==
    /\ driver = "turn" /\ call = NoCall /\ \A i \in Subs : sub[i] = NoSub
    /\ driver' \in {"check", "aborted"}
    /\ UNCHANGED <<event, hooks, items, kernel, call, sub, obeys, spawns, ghosts>>

Next ==
    \/ \E tc \in ToolCalls : PreTool(tc)
    \/ RunExport \/ RunBaseline \/ RunCreatePlan \/ RunPipeline \/ RunOther \/ RunEdit
    \/ \E i \in Subs : SubagentWrites(i) \/ PostTaskRead(i) \/ PostTaskWrite(i)
    \/ LoopCheck \/ TurnEnds

Spec == Init /\ [][Next]_vars

-----------------------------------------------------------------------------
(* Properties.                                                             *)

\* Guidance and gates agree: the tables of phase_policy.py and decide.py, the
\* sub-states of a diagnosis and the texts of guidance.py are written apart and
\* must not drift, or the agent is locked out.  Every call an instruction names
\* is let through, but for one: the kernel edit is turned down when pipeline.py
\* left a change behind, and then the script that message names is let through
\* and has a change to settle.  A task that cannot stop is told something to do.
GuidanceAllowed ==
    /\ \A tc \in GetGuidance :
         \/ Allowed(tc)
         \/ /\ tc = Edit("editable") /\ dirty
            /\ Shell(Direct("pipeline.py")) \in GetGuidance
            /\ Allowed(Shell(Direct("pipeline.py")))
    /\ StopBlocked => GetGuidance # {}

\* The manual fallback is earned: the counter of failed diagnoses, read and
\* written back in two steps by hooks that overlap and that may belong to an
\* older plan, never counts more failures than came back to this plan version.
FallbackEarned ==
    DiagnoseAttempts <= failed[version]

\* A plan leaves DIAGNOSE only when a valid artifact of its version has been
\* written, or AttemptsCap subagents came back to this version without one,
\* however the gate of create_plan.py and the hooks of the subagents interleave.
\* An agent that follows its guidance is spared no diagnosis by that: all of them
\* were ar-diagnosis runs, started for this version.
PlanFromDiagnosis ==
    [][(phase = "DIAGNOSE" /\ version' # version)
         => \/ version \in diagnosed
            \/ /\ failed[version] >= AttemptsCap
               /\ obeys => own[version] >= AttemptsCap]_vars

\* The claim of decide.py's fallback message, of whatever agent: the ar-diagnosis
\* subagent failed AttemptsCap times for this plan version.
FallbackFromOwnRuns ==
    phase = "DIAGNOSE" /\ DiagnoseAction = "FALLBACK" => own[version] >= AttemptsCap

\* An agent that follows its guidance brings the driver's loop to an end, and
\* then the task is finished or has no baseline.
LoopEnds ==
    obeys ~> (\/ driver = "aborted"
              \/ driver = "ended" /\ (phase = "FINISH" \/ IsStuck))

\* The agent makes its next guided call and ends its turn when there is none,
\* hooks and scripts that started end, and a script that is tried again and
\* again does its work once.
Fairness ==
    /\ SF_vars(\E tc \in NextGuided : PreTool(tc))
    /\ SF_vars(RunBaseline /\ event' # event)
    /\ SF_vars(RunPipeline /\ event' # event)
    /\ SF_vars(RunEdit /\ items' = "valid" /\ items # "valid") /\ SF_vars(RunEdit /\ dirty' /\ ~dirty)
    /\ WF_vars(RunExport \/ RunBaseline \/ RunCreatePlan \/ RunPipeline \/ RunOther \/ RunEdit)
    /\ WF_vars(LoopCheck) /\ WF_vars(TurnEnds /\ GetGuidance = {})
    /\ \A i \in Subs : WF_vars(PostTaskRead(i)) /\ WF_vars(PostTaskWrite(i))

FairSpec == Spec /\ Fairness
=============================================================================
