----------------------------- MODULE HooksProofs -----------------------------
(***************************************************************************)
(* Proofs about Hooks, for any rounds, threshold, cap, commands and number *)
(* of subagents: the gates admit the guidance, and a plan leaves DIAGNOSE  *)
(* by an artifact or by failures that really happened.                     *)
(***************************************************************************)
EXTENDS Hooks, TLAPS

PlanCall == Shell(Direct("create_plan.py"))
Planning == {"PLAN", "REPLAN", "DIAGNOSE"}

\* How far a task is when it has this many plans.  An agent that follows its
\* guidance makes one plan per round at most; any other is stopped by MaxVersion.
FlowInv ==
  /\ phase \in {"PLAN", "EDIT", "DIAGNOSE", "REPLAN", "FINISH"} => started
  /\ ~obeys => version <= MaxVersion /\ (call = PlanCall => version < MaxVersion)
  /\ obeys =>
       /\ version <= MaxRounds
       /\ phase \in {"INIT", "BASELINE"} => version = 0 /\ rounds = 0
       /\ phase \in Planning => version <= rounds /\ rounds < MaxRounds
       /\ phase = "EDIT" /\ ~pending => version <= rounds + 1 /\ rounds < MaxRounds
       /\ pending => phase = "EDIT" /\ version <= rounds /\ rounds <= MaxRounds
       /\ call = PlanCall => phase \in Planning

\* What the counter and the hooks that are about to write it stand for.
CountInv ==
  /\ attemptsFor \in Versions => attempts <= failed[attemptsFor]
  /\ \A i \in Subs : /\ sub[i].version <= version
                     /\ sub[i].at = "read" => sub[i].attempts <= failed[sub[i].version]
  /\ good \subseteq diagnosed
  /\ call = PlanCall /\ phase = "DIAGNOSE"
       => version \in diagnosed \/ failed[version] >= AttemptsCap

\* An agent that follows its guidance waits for its subagent: the run that comes
\* back is an ar-diagnosis run of this version, so every failure is one of its own.
ObeyInv ==
  obeys => /\ own = failed
           /\ \A i \in Subs : sub[i].at # "none" =>
                /\ call = NoCall
                /\ sub[i].at = "runs" => sub[i].agent = "ar-diagnosis" /\ sub[i].version = version

HooksInv == TypeOK /\ FlowInv /\ CountInv /\ ObeyInv

-----------------------------------------------------------------------------
(* Tool calls.                                                             *)

\* The fields of the calls.
LEMMA CallFields ==
  /\ NoCall.tool = "none"
  /\ \A c : Shell(c).tool = "shell" /\ Shell(c).cmd = c
  /\ \A path : Edit(path).tool = "edit" /\ Edit(path).path = path
  /\ \A agent : Spawn(agent).tool = "subagent" /\ Spawn(agent).agent = agent
BY DEF NoCall, Shell, Edit, Spawn

\* A shell call is the one of its command.
LEMMA CalledIs ==
  ASSUME TypeOK, NEW c, Called(c)
  PROVE  call = Shell(c)
<1>1. call \in ToolCalls \cup {NoCall} /\ call.tool = "shell" /\ call.cmd = c
  BY DEF TypeOK, Called
<1>2. PICK d : call = Shell(d)
  BY <1>1, CallFields DEF ToolCalls
<1> QED
  BY <1>1, <1>2, CallFields

\* The gate knows the scripts by their direct invocation.
LEMMA DirectIs ==
  ASSUME NEW name \in Blessed
  PROVE  /\ Invoked(Direct(name)) = name
         /\ Classify(Direct(name)).klass = IF name \in LifecycleScripts THEN "LIFECYCLE" ELSE "AR"
         /\ ScriptNamesKnown(Direct(name)) /\ ~Direct(name).commit
<1>1. /\ Direct(name).name = name /\ Direct(name).dir = CanonicalLocation(name)
      /\ Direct(name).direct = TRUE /\ Direct(name).subst = FALSE /\ Direct(name).commit = FALSE
  BY DEF Direct
<1>2. Classify(Direct(name)) =
        [klass |-> IF name \in LifecycleScripts THEN "LIFECYCLE" ELSE "AR", name |-> name]
  BY <1>1 DEF Classify
<1>3. ScriptNames(Direct(name)) \subseteq {name}
  BY <1>1 DEF ScriptNames
<1> QED
  BY <1>1, <1>2, <1>3 DEF Invoked, ScriptNamesKnown

\* Three states of a diagnosis.
LEMMA Actions == DiagnoseAction \in {"READY", "FALLBACK", "NEED"}
BY DEF DiagnoseAction

\* A plan passes its gate in DIAGNOSE only when the diagnosis is over.
LEMMA PlanGate ==
  ASSUME PreBash(Direct("create_plan.py")), phase = "DIAGNOSE"
  PROVE  DiagnoseAction \in {"READY", "FALLBACK"}
<1>1. Invoked(Direct("create_plan.py")) = "create_plan.py"
  BY DirectIs DEF Blessed, EngineScripts
<1> QED
  BY <1>1, Actions DEF PreBash

\* What an obedient agent calls create_plan.py for.
LEMMA GuidedPlan ==
  ASSUME TypeOK, PlanCall \in NextGuided
  PROVE  phase \in Planning
<1>1. /\ Direct("baseline.py") # Direct("create_plan.py")
      /\ Direct("pipeline.py") # Direct("create_plan.py")
      /\ ExportTask # Direct("create_plan.py")
  BY DEF Direct, ExportTask
<1>2. /\ PlanCall # Shell(Direct("baseline.py")) /\ PlanCall # Shell(Direct("pipeline.py"))
      /\ PlanCall # Shell(ExportTask) /\ PlanCall # Edit("plan_items")
      /\ Edit("plan_items") # Edit("editable")
      /\ \A c : Edit("plan_items") # Shell(c)
      /\ \A agent : PlanCall # Spawn(agent) /\ Edit("plan_items") # Spawn(agent)
  BY <1>1, CallFields DEF PlanCall
<1>3. phase = "INIT" => PlanCall \notin GetGuidance /\ Edit("plan_items") \notin GetGuidance
  BY <1>2 DEF GetGuidance
<1>4. phase = "BASELINE" => PlanCall \notin GetGuidance /\ Edit("plan_items") \notin GetGuidance
  BY <1>2 DEF GetGuidance
<1>5. phase = "EDIT" => PlanCall \notin GetGuidance /\ Edit("plan_items") \notin GetGuidance
  BY <1>2, CallFields DEF GetGuidance, EditGuidance, PlanCall
<1>6. phase = "FINISH" => PlanCall \notin GetGuidance /\ Edit("plan_items") \notin GetGuidance
  BY DEF GetGuidance
<1>7. PlanCall \in GetGuidance \/ Edit("plan_items") \in GetGuidance
  <2>1. PlanCall # Edit("editable")
    BY CallFields DEF PlanCall
  <2> QED
    BY <1>2, <2>1 DEF NextGuided
<1> QED
  BY <1>3, <1>4, <1>5, <1>6, <1>7 DEF TypeOK, Phases, Planning

\* The one subagent that is ever asked for.
LEMMA GuidedSpawn ==
  ASSUME NEW tc \in NextGuided, tc.tool = "subagent"
  PROVE  tc.agent = "ar-diagnosis"
<1>1. tc \in GetGuidance
  BY CallFields DEF NextGuided
<1>2. tc \notin CreatePlanInstruction /\ tc \notin EditGuidance
  BY CallFields DEF CreatePlanInstruction, EditGuidance
<1>3. tc \in DiagnosePrompt
  BY <1>1, <1>2, CallFields DEF GetGuidance, PlanGuidance, ReplanGuidance, DiagnoseGuidance,
                                DiagnosePlanNextStep
<1> QED
  BY <1>3, CallFields DEF DiagnosePrompt

\* While a subagent is out there is nothing to do.
LEMMA GuidedAlone ==
  ASSUME TypeOK, NEW tc \in NextGuided
  PROVE  \A i \in Subs : sub[i].at = "none"
<1>1. \A i \in Subs : sub[i] = NoSub
  BY DEF NextGuided
<1> QED
  BY <1>1 DEF NoSub

-----------------------------------------------------------------------------
(* The gates admit the guidance.                                           *)

\* A script of the phase passes.
LEMMA ScriptAllowed ==
  ASSUME NEW name \in EngineScripts \ LifecycleScripts, name \in ARAllowed(phase),
         name = "create_plan.py" => phase # "DIAGNOSE" \/ DiagnoseAction \in {"READY", "FALLBACK"},
         name = "create_plan.py" => phase # "EDIT"
  PROVE  Allowed(Shell(Direct(name)))
<1>1. /\ Invoked(Direct(name)) = name /\ Classify(Direct(name)).klass = "AR"
      /\ ScriptNamesKnown(Direct(name)) /\ ~Direct(name).commit
  BY DirectIs DEF Blessed
<1>2. CheckBash(phase, Direct(name))
  BY <1>1 DEF CheckBash
<1>3. PreBash(Direct(name))
  BY <1>1, <1>2 DEF PreBash
<1> QED
  BY <1>3, CallFields DEF Allowed

\* The instruction to plan passes, when the diagnosis is over or there is none.
LEMMA PlanAllowed ==
  ASSUME phase \in Planning,
         phase = "DIAGNOSE" => DiagnoseAction \in {"READY", "FALLBACK"}
  PROVE  \A tc \in CreatePlanInstruction : Allowed(tc)
<1>1. Allowed(PlanCall)
  BY ScriptAllowed DEF PlanCall, Planning, ARAllowed, EngineScripts, LifecycleScripts
<1>2. CheckEdit(phase, "plan_items")
  BY DEF CheckEdit, Planning
<1>3. Allowed(Edit("plan_items"))
  BY <1>2, CallFields DEF Allowed, PreEdit, Planning
<1> QED
  BY <1>1, <1>3 DEF CreatePlanInstruction, PlanCall

\* In every phase, a task whose diagnosis began with a baseline is told what its
\* gates let through.
LEMMA GuidancePasses ==
  ASSUME phase \in Phases, phase = "DIAGNOSE" => started
  PROVE  GuidanceAllowed
<1>1. CASE phase = "INIT"
  <2> DEFINE seg == [head |-> "export", arg |-> "AR_TASK_DIR", safe |-> TRUE]
  <2>1. ReadonlySegment(seg)
    <3>1. seg.head = "export" /\ seg.arg = "AR_TASK_DIR" /\ seg.safe = TRUE
      OBVIOUS
    <3> HIDE DEF seg
    <3> QED
      BY <3>1 DEF ReadonlySegment
  <2>2. /\ ExportTask.segs = {seg} /\ ExportTask.direct = FALSE /\ ExportTask.python = FALSE
        /\ ExportTask.subst = FALSE /\ ExportTask.commit = FALSE
    BY DEF ExportTask
  <2>3. Classify(ExportTask) = [klass |-> "READONLY", name |-> "none"]
    BY <2>1, <2>2 DEF Classify
  <2>4. ScriptNamesKnown(ExportTask)
    BY <2>2 DEF ScriptNamesKnown, ScriptNames
  <2>5. CheckBash(phase, ExportTask)
    BY <2>2, <2>3 DEF CheckBash
  <2>6. PreBash(ExportTask)
    BY <1>1, <2>4, <2>5 DEF PreBash
  <2>7. GetGuidance = {Shell(ExportTask)}
    BY <1>1 DEF GetGuidance
  <2>8. Allowed(Shell(ExportTask))
    BY <2>6, CallFields DEF Allowed
  <2> QED
    BY <2>7, <2>8 DEF GuidanceAllowed
<1>2. CASE phase = "BASELINE"
  <2>1. GetGuidance = {Shell(Direct("baseline.py"))}
    BY <1>2 DEF GetGuidance
  <2>2. Allowed(Shell(Direct("baseline.py")))
    BY <1>2, ScriptAllowed DEF ARAllowed, EngineScripts, LifecycleScripts
  <2> QED
    BY <2>1, <2>2 DEF GuidanceAllowed
<1>3. CASE phase \in {"PLAN", "REPLAN"}
  <2>1. GetGuidance = CreatePlanInstruction
    BY <1>3 DEF GetGuidance, PlanGuidance, ReplanGuidance
  <2> QED
    BY <1>3, <2>1, PlanAllowed DEF GuidanceAllowed, Planning, CreatePlanInstruction
<1>4. CASE phase = "EDIT"
  <2>1. GetGuidance = {Edit("editable"), Shell(Direct("pipeline.py"))}
    BY <1>4 DEF GetGuidance, EditGuidance
  <2>2. Allowed(Shell(Direct("pipeline.py")))
    BY <1>4, ScriptAllowed DEF ARAllowed, EngineScripts, LifecycleScripts
  <2>3. CheckEdit(phase, "editable")
    BY <1>4 DEF CheckEdit
  <2>4. Allowed(Edit("editable")) \/ dirty
    BY <2>3, CallFields DEF Allowed, PreEdit, GitGate
  <2> QED
    BY <2>1, <2>2, <2>4 DEF GuidanceAllowed
<1>5. CASE phase = "DIAGNOSE"
  <2>1. GetGuidance = DiagnoseGuidance
    BY <1>5 DEF GetGuidance
  <2>2. CASE DiagnoseAction \in {"READY", "FALLBACK"}
    <3>1. GetGuidance = CreatePlanInstruction
      BY <1>5, <2>1, <2>2 DEF DiagnoseGuidance, DiagnosePlanNextStep
    <3> QED
      BY <1>5, <2>2, <3>1, PlanAllowed DEF GuidanceAllowed, Planning, CreatePlanInstruction
  <2>3. CASE DiagnoseAction = "NEED"
    <3>1. GetGuidance = {Spawn("ar-diagnosis")}
      BY <2>1, <2>3 DEF DiagnoseGuidance, DiagnosePrompt
    <3>2. PreTask("ar-diagnosis")
      BY <2>3 DEF PreTask
    <3>3. Allowed(Spawn("ar-diagnosis"))
      BY <3>2, CallFields DEF Allowed
    <3> QED
      BY <3>1, <3>3 DEF GuidanceAllowed
  <2> QED
    BY <2>2, <2>3, Actions
<1>6. CASE phase = "FINISH"
  <2>1. GetGuidance = {}
    BY <1>6 DEF GetGuidance
  <2> QED
    BY <1>6, <2>1 DEF GuidanceAllowed, StopBlocked
<1> QED
  BY <1>1, <1>2, <1>3, <1>4, <1>5, <1>6 DEF Phases

-----------------------------------------------------------------------------
(* The steps.                                                              *)

SubRec == [at : {"none", "runs", "read"}, agent : Agents \cup {"none"},
           version : Versions, attempts : Nat]

\* The parts of a subagent's record.
LEMMA SubParts ==
  ASSUME TypeOK
  PROVE  \A i \in Subs : /\ sub[i] \in SubRec /\ sub[i].at \in {"none", "runs", "read"}
                         /\ sub[i].version \in Versions /\ sub[i].attempts \in Nat
<1>1. \A s \in SubRec : /\ s.at \in {"none", "runs", "read"}
                        /\ s.version \in Versions /\ s.attempts \in Nat
  BY DEF SubRec
<1> QED
  BY <1>1 DEF TypeOK, SubRec

\* The numbers a version is compared with.
LEMMA Numbers ==
  ASSUME TypeOK
  PROVE  /\ MaxRounds \in Nat /\ MaxVersion \in Nat /\ AttemptsCap \in Nat \ {0}
         /\ version \in Nat /\ version <= MaxVersion + MaxRounds
         /\ rounds \in Nat /\ failures \in Nat /\ attempts \in Nat
         /\ \A v \in Versions : v \in Nat /\ failed[v] \in Nat
BY HooksAssumption DEF TypeOK, Versions

\* The events of a task, with what the next plan may be.
EventStep ==
  \/ Events!Activate
  \/ \E m \in Metrics \cup {0} : Events!Baseline(m)
  \/ call = PlanCall /\ Events!PlanCommitted
  \/ Events!RoundRecorded \/ Events!RoundSettled
  \/ UNCHANGED event

\* The types after an event.
LEMMA EventTypes ==
  ASSUME TypeOK, FlowInv, EventStep
  PROVE  /\ phase' \in Phases /\ started' \in BOOLEAN /\ pending' \in BOOLEAN
         /\ seed' \in Nat /\ rounds' \in Nat /\ failures' \in Nat /\ best' \in Nat
         /\ version' \in Versions
         /\ version' = version \/ (call = PlanCall /\ version' = version + 1)
<1>0. /\ phase \in Phases /\ started \in BOOLEAN /\ pending \in BOOLEAN
      /\ seed \in Nat /\ best \in Nat /\ version \in Versions /\ Metrics \subseteq Nat
  BY HooksAssumption DEF TypeOK
<1>1. CASE Events!Activate
  BY <1>0, <1>1, Numbers DEF Events!Activate, Phases
<1>2. ASSUME NEW m \in Metrics \cup {0}, Events!Baseline(m)
      PROVE  /\ phase' \in Phases /\ started' \in BOOLEAN /\ pending' \in BOOLEAN
             /\ seed' \in Nat /\ rounds' \in Nat /\ failures' \in Nat /\ best' \in Nat
             /\ version' = version
  <2>1. m \in Nat
    BY <1>0
  <2> QED
    BY <1>0, <1>2, <2>1, Numbers DEF Events!Baseline, Phases
<1>3. CASE call = PlanCall /\ Events!PlanCommitted
  <2>1. version + 1 \in Versions
    BY <1>3, Numbers DEF FlowInv, Versions, TypeOK
  <2> QED
    BY <1>0, <1>3, <2>1, Numbers DEF Events!PlanCommitted, Phases
<1>4. CASE Events!RoundRecorded
  <2>1. failures' \in {0, failures, failures + 1} /\ best' \in Metrics \cup {best}
    BY <1>4 DEF Events!RoundRecorded
  <2>2. failures' \in Nat /\ best' \in Nat
    BY <1>0, <2>1, Numbers
  <2>3. rounds' \in Nat /\ pending' = TRUE /\ UNCHANGED <<phase, started, seed, version>>
    BY <1>4, Numbers DEF Events!RoundRecorded
  <2> QED
    BY <1>0, <2>2, <2>3
<1>5. CASE Events!RoundSettled
  BY <1>0, <1>5, Numbers DEF Events!RoundSettled, Phases
<1>6. CASE UNCHANGED event
  BY <1>0, <1>6, Numbers DEF event
<1> QED
  BY <1>0, <1>1, <1>2, <1>3, <1>4, <1>5, <1>6 DEF EventStep

\* How far the task is after an event.
LEMMA EventFlow ==
  ASSUME TypeOK, FlowInv, EventStep, call' = NoCall, obeys' = obeys
  PROVE  FlowInv'
<1>0. call' # PlanCall
  BY CallFields DEF PlanCall
<1>1. MaxRounds \in Nat \ {0} /\ phase \in Phases /\ pending \in BOOLEAN /\ started \in BOOLEAN
  BY HooksAssumption DEF TypeOK
<1>2. CASE Events!Activate
  BY <1>0, <1>2, Numbers DEF FlowInv, Events!Activate, Planning
<1>3. ASSUME NEW m \in Metrics \cup {0}, Events!Baseline(m)
      PROVE  FlowInv'
  BY <1>0, <1>1, <1>3, Numbers DEF FlowInv, Events!Baseline, Planning
<1>4. CASE call = PlanCall /\ Events!PlanCommitted
  BY <1>0, <1>1, <1>4, Numbers DEF FlowInv, Events!PlanCommitted, Planning
<1>5. CASE Events!RoundRecorded
  BY <1>0, <1>1, <1>5, Numbers DEF FlowInv, Events!RoundRecorded, Planning
<1>6. CASE Events!RoundSettled
  BY <1>0, <1>1, <1>6, Numbers DEF FlowInv, Events!RoundSettled, Planning
<1>7. CASE UNCHANGED event
  BY <1>0, <1>7 DEF FlowInv, event
<1> QED
  BY <1>2, <1>3, <1>4, <1>5, <1>6, <1>7 DEF EventStep

\* A call that is not the one of a plan, or none, promises nothing.
LEMMA ScriptStep ==
  ASSUME HooksInv, EventStep, UNCHANGED <<hooks, items, diagnosed>>, Returns,
         call.tool = "shell", dirty' \in BOOLEAN, marker' \in BOOLEAN
  PROVE  HooksInv'
<1>0. TypeOK /\ FlowInv /\ CountInv /\ ObeyInv
  BY DEF HooksInv
<1>1. /\ call' = NoCall
      /\ UNCHANGED <<sub, driver, obeys, spawns, failed, own, good, attempts, attemptsFor>>
  BY DEF Returns, loop, hooks
<1>2. /\ phase' \in Phases /\ started' \in BOOLEAN /\ pending' \in BOOLEAN
      /\ seed' \in Nat /\ rounds' \in Nat /\ failures' \in Nat /\ best' \in Nat
      /\ version' \in Versions /\ version' >= version
  BY <1>0, EventTypes, Numbers
<1>3. TypeOK'
  <2>1. attemptsFor' \in -1..version'
    BY <1>0, <1>1, <1>2, Numbers DEF TypeOK, Versions
  <2> QED
    BY <1>0, <1>1, <1>2, <2>1 DEF TypeOK
<1>4. FlowInv'
  BY <1>0, <1>1, EventFlow
<1>5. CountInv'
  <2>1. call' # PlanCall
    BY <1>1, CallFields DEF PlanCall
  <2>2. \A i \in Subs : sub[i].version \in Nat /\ version' \in Nat /\ version \in Nat
    BY <1>0, <1>2, SubParts, Numbers DEF Versions
  <2>3. \A i \in Subs : sub[i].version <= version'
    BY <1>0, <1>2, <2>2 DEF CountInv
  <2> QED
    BY <1>0, <1>1, <2>1, <2>3 DEF CountInv
<1>6. ObeyInv'
  <2>1. call # NoCall
    BY CallFields
  <2> QED
    BY <1>0, <1>1, <2>1 DEF ObeyInv
<1> QED
  BY <1>3, <1>4, <1>5, <1>6 DEF HooksInv

\* The counter never counts more than what happened.
LEMMA CounterEarned ==
  ASSUME TypeOK, CountInv
  PROVE  FallbackEarned /\ DiagnoseAttempts \in Nat
<1>1. version \in Versions /\ failed[version] \in Nat /\ attempts \in Nat
  BY Numbers DEF TypeOK
<1> QED
  BY <1>1 DEF CountInv, FallbackEarned, DiagnoseAttempts

\* A tool call passes its gate.
LEMMA PreToolStep ==
  ASSUME HooksInv, NEW tc \in ToolCalls, PreTool(tc)
  PROVE  HooksInv'
<1>0. TypeOK /\ FlowInv /\ CountInv /\ ObeyInv
  BY DEF HooksInv
<1>1. /\ UNCHANGED <<phase, started, seed, rounds, failures, best, pending, version>>
      /\ UNCHANGED <<good, attempts, attemptsFor, items, dirty, driver, obeys>>
      /\ UNCHANGED <<failed, own, diagnosed>>
      /\ call = NoCall
  BY DEF PreTool, event, hooks, ghosts
<1>m. marker' \in BOOLEAN
  BY <1>0 DEF PreTool, EditPasses, TypeOK
<1>2. CASE tc.tool = "subagent"
  <2>1. call' = call /\ call # PlanCall
    BY <1>1, <1>2, CallFields DEF PreTool, PlanCall
  <2>2. spawns' \in 0..MaxSpawns
    <3>1. spawns \in 0..MaxSpawns /\ MaxSpawns \in Nat
      BY <1>0, HooksAssumption DEF TypeOK
    <3>2. spawns' = spawns \/ (spawns < MaxSpawns /\ spawns' = spawns + 1)
      BY <1>2 DEF PreTool
    <3> QED
      BY <3>1, <3>2
  <2>3. PICK i \in Subs :
          sub' = [sub EXCEPT ![i] = [@ EXCEPT !.at = "runs", !.agent = tc.agent,
                                              !.version = version]]
    BY <1>2 DEF PreTool
  <2> DEFINE rec == [sub[i] EXCEPT !.at = "runs", !.agent = tc.agent, !.version = version]
  <2>4. sub[i] \in SubRec /\ version \in Versions /\ tc.agent \in Agents
    BY <1>0, <1>2, SubParts, CallFields DEF TypeOK, ToolCalls
  <2>5. rec \in SubRec /\ rec.at = "runs" /\ rec.version = version /\ rec.agent = tc.agent
    BY <2>4 DEF SubRec
  <2>6. sub' = [sub EXCEPT ![i] = rec] /\ sub \in [Subs -> SubRec]
    BY <1>0, <2>3 DEF TypeOK, SubRec
  <2> HIDE DEF rec
  <2>7. sub' \in [Subs -> SubRec] /\ sub'[i] = rec /\ \A j \in Subs \ {i} : sub'[j] = sub[j]
    BY <2>5, <2>6
  <2>8. TypeOK'
    BY <1>0, <1>1, <1>m, <2>1, <2>2, <2>7 DEF TypeOK, SubRec
  <2>9. FlowInv'
    BY <1>0, <1>1, <2>1 DEF FlowInv
  <2>10. CountInv'
    BY <1>0, <1>1, <2>1, <2>5, <2>7, Numbers DEF CountInv
  <2>11. ObeyInv'
    <3> SUFFICES ASSUME obeys PROVE ObeyInv'
      BY <1>1 DEF ObeyInv
    <3>1. tc \in NextGuided
      BY DEF PreTool
    <3>2. tc.agent = "ar-diagnosis" /\ \A j \in Subs : sub[j].at = "none"
      BY <1>0, <1>2, <3>1, GuidedSpawn, GuidedAlone
    <3> QED
      BY <1>0, <1>1, <2>1, <2>5, <2>7, <3>2 DEF ObeyInv
  <2> QED
    BY <2>8, <2>9, <2>10, <2>11 DEF HooksInv
<1>3. CASE tc.tool # "subagent"
  <2>1. call' = tc /\ UNCHANGED <<sub, spawns>>
    BY <1>3 DEF PreTool
  <2>2. TypeOK'
    BY <1>0, <1>1, <1>m, <2>1 DEF TypeOK
  <2>3. /\ (tc = PlanCall /\ obeys) => phase \in Planning
        /\ (tc = PlanCall /\ ~obeys) => version < MaxVersion
    BY <1>0, GuidedPlan DEF PreTool, PlanCall
  <2>4. FlowInv'
    BY <1>0, <1>1, <2>1, <2>3 DEF FlowInv
  <2>5. ASSUME tc = PlanCall, phase = "DIAGNOSE"
        PROVE  version \in diagnosed \/ failed[version] >= AttemptsCap
    <3>1. PreBash(Direct("create_plan.py"))
      BY <2>5, CallFields DEF PreTool, Allowed, PlanCall
    <3>2. DiagnoseAction \in {"READY", "FALLBACK"}
      BY <2>5, <3>1, PlanGate
    <3>3. version \in good \/ DiagnoseAttempts >= AttemptsCap
      BY <3>2 DEF DiagnoseAction, ValidateDiagnose
    <3>4. failed[version] \in Nat /\ AttemptsCap \in Nat
      BY <1>0, Numbers DEF TypeOK
    <3> QED
      BY <1>0, <3>3, <3>4, CounterEarned DEF CountInv, FallbackEarned
  <2>6. CountInv'
    BY <1>0, <1>1, <2>1, <2>5 DEF CountInv
  <2>7. ObeyInv'
    <3> SUFFICES ASSUME obeys PROVE ObeyInv'
      BY <1>1 DEF ObeyInv
    <3>1. \A j \in Subs : sub[j].at = "none"
      BY <1>0, GuidedAlone DEF PreTool
    <3> QED
      BY <1>0, <1>1, <2>1, <3>1 DEF ObeyInv
  <2> QED
    BY <2>2, <2>4, <2>6, <2>7 DEF HooksInv
<1> QED
  BY <1>2, <1>3

\* An artifact is written, or spoilt, and the artifacts that were valid are
\* remembered.
LEMMA ArtifactStep ==
  ASSUME TypeOK, CountInv, NEW v \in Versions, WriteArtifact(v)
  PROVE  /\ good' \subseteq Versions /\ diagnosed' \subseteq Versions
         /\ diagnosed \subseteq diagnosed' /\ good' \subseteq diagnosed'
BY DEF TypeOK, CountInv, WriteArtifact

\* The agent writes a file.
LEMMA EditStep ==
  ASSUME HooksInv, RunEdit
  PROVE  HooksInv'
<1>0. TypeOK /\ FlowInv /\ CountInv /\ ObeyInv
  BY DEF HooksInv
<1>1. /\ UNCHANGED <<phase, started, seed, rounds, failures, best, pending, version>>
      /\ UNCHANGED <<attempts, attemptsFor, sub, driver, obeys, spawns, failed, own, marker>>
      /\ call' = NoCall /\ items' \in {"none", "valid", "invalid"} /\ dirty' \in BOOLEAN
  BY <1>0 DEF RunEdit, event, Returns, loop, TypeOK
<1>2. /\ good' \subseteq Versions /\ diagnosed' \subseteq Versions
      /\ diagnosed \subseteq diagnosed' /\ good' \subseteq diagnosed'
  <2>1. CASE WriteArtifact(version)
    BY <1>0, <2>1, ArtifactStep DEF TypeOK
  <2>2. CASE UNCHANGED <<good, diagnosed>>
    BY <1>0, <2>2 DEF TypeOK, CountInv
  <2> QED
    BY <2>1, <2>2 DEF RunEdit
<1>3. call' # PlanCall
  BY <1>1, CallFields DEF PlanCall
<1>4. TypeOK'
  BY <1>0, <1>1, <1>2 DEF TypeOK
<1>5. FlowInv'
  BY <1>0, <1>1, <1>3 DEF FlowInv
<1>6. CountInv'
  BY <1>0, <1>1, <1>2, <1>3 DEF CountInv
<1>7. ObeyInv'
  <2>1. call # NoCall
    BY CallFields DEF RunEdit
  <2> QED
    BY <1>0, <1>1, <2>1 DEF ObeyInv
<1> QED
  BY <1>4, <1>5, <1>6, <1>7 DEF HooksInv

\* A subagent writes its artifact.
LEMMA SubagentStep ==
  ASSUME HooksInv, NEW i \in Subs, SubagentWrites(i)
  PROVE  HooksInv'
<1>0. TypeOK /\ FlowInv /\ CountInv /\ ObeyInv
  BY DEF HooksInv
<1>1. /\ UNCHANGED <<phase, started, seed, rounds, failures, best, pending, version>>
      /\ UNCHANGED <<attempts, attemptsFor, items, dirty, marker, call, sub>>
      /\ UNCHANGED <<driver, obeys, spawns, failed, own>>
  BY DEF SubagentWrites, event, loop, kernel
<1>2. /\ good' \subseteq Versions /\ diagnosed' \subseteq Versions
      /\ diagnosed \subseteq diagnosed' /\ good' \subseteq diagnosed'
  BY <1>0, SubParts, ArtifactStep DEF SubagentWrites
<1>3. TypeOK'
  BY <1>0, <1>1, <1>2 DEF TypeOK
<1>4. FlowInv'
  BY <1>0, <1>1 DEF FlowInv
<1>5. CountInv'
  BY <1>0, <1>1, <1>2 DEF CountInv
<1>6. ObeyInv'
  BY <1>0, <1>1 DEF ObeyInv
<1> QED
  BY <1>3, <1>4, <1>5, <1>6 DEF HooksInv

\* One subagent's record is replaced, by one of no later version.
LEMMA SubSet ==
  ASSUME TypeOK, NEW i \in Subs, NEW rec \in SubRec, sub' = [sub EXCEPT ![i] = rec]
  PROVE  /\ sub' \in [Subs -> SubRec] /\ sub'[i] = rec
         /\ \A j \in Subs \ {i} : sub'[j] = sub[j]
BY DEF TypeOK, SubRec

\* No subagent.
LEMMA NoSubIs == NoSub \in SubRec /\ NoSub.at = "none" /\ NoSub.version = 0
<1>1. 0 \in Versions
  BY HooksAssumption DEF Versions
<1> QED
  BY <1>1 DEF NoSub, SubRec

\* A hook reads the counter: a run without an artifact is a failure of this
\* version, and what will be written counts it.
LEMMA ReadStep ==
  ASSUME HooksInv, NEW i \in Subs, PostTaskRead(i)
  PROVE  HooksInv'
<1> DEFINE misses == phase = "DIAGNOSE" /\ DiagnoseAction # "READY"
           its == sub[i].agent = "ar-diagnosis" /\ sub[i].version = version
           count == IF misses THEN DiagnoseAttempts + 1 ELSE 0
           back == [sub[i] EXCEPT !.at = "read", !.version = version, !.attempts = count]
           rec == IF phase # "DIAGNOSE" THEN NoSub ELSE back
<1>0. TypeOK /\ FlowInv /\ CountInv /\ ObeyInv
  BY DEF HooksInv
<1>1. /\ UNCHANGED <<phase, started, seed, rounds, failures, best, pending, version>>
      /\ UNCHANGED <<good, attempts, attemptsFor, items, dirty, marker, call>>
      /\ UNCHANGED <<driver, obeys, spawns, diagnosed>>
      /\ sub[i].at = "runs"
  BY DEF PostTaskRead, event, hooks, loop, kernel
<1>2. /\ sub' = [sub EXCEPT ![i] = rec]
      /\ failed' = IF misses THEN [failed EXCEPT ![version] = @ + 1] ELSE failed
      /\ own' = IF misses /\ its THEN [own EXCEPT ![version] = @ + 1] ELSE own
  BY DEF PostTaskRead
<1>3. /\ version \in Versions /\ version \in Nat
      /\ failed \in [Versions -> Nat] /\ own \in [Versions -> Nat]
      /\ DiagnoseAttempts \in Nat /\ DiagnoseAttempts <= failed[version]
      /\ AttemptsCap \in Nat /\ sub[i] \in SubRec
  BY <1>0, Numbers, CounterEarned, SubParts DEF TypeOK, FallbackEarned
<1>4. /\ back \in SubRec /\ back.at = "read" /\ back.version = version
      /\ back.attempts = count
  <2>1. count \in Nat
    BY <1>3
  <2> HIDE DEF count
  <2>2. sub[i] \in SubRec /\ version \in Versions
    BY <1>3
  <2> QED
    BY <2>1, <2>2 DEF SubRec
<1> HIDE DEF back
<1>5. /\ rec \in SubRec /\ rec.at # "runs" /\ rec.version <= version
      /\ rec.at = "read" => rec = back
  BY <1>3, <1>4, NoSubIs
<1>6. /\ sub' \in [Subs -> SubRec] /\ sub'[i] = rec /\ \A j \in Subs \ {i} : sub'[j] = sub[j]
  BY <1>0, <1>2, <1>5, SubSet
<1> HIDE DEF rec
<1>7. /\ failed' \in [Versions -> Nat] /\ own' \in [Versions -> Nat]
      /\ \A v \in Versions : failed[v] \in Nat /\ failed'[v] \in Nat /\ failed[v] <= failed'[v]
      /\ failed'[version] = IF misses THEN failed[version] + 1 ELSE failed[version]
  BY <1>2, <1>3
<1>8. rec.at = "read" => rec.attempts <= failed'[rec.version]
  BY <1>3, <1>4, <1>5, <1>7
<1>9. FlowInv'
  BY <1>0, <1>1 DEF FlowInv
<1>10. TypeOK'
  BY <1>0, <1>1, <1>6, <1>7 DEF TypeOK, SubRec
<1>11. CountInv'
  <2>1. \A v \in Versions, n \in Nat : n <= failed[v] => n <= failed'[v]
    BY <1>7
  <2>2. attemptsFor' \in Versions => attempts' <= failed'[attemptsFor']
    BY <1>0, <1>1, <2>1, Numbers DEF CountInv
  <2>3. \A j \in Subs : /\ sub'[j].version <= version'
                        /\ sub'[j].at = "read" => sub'[j].attempts <= failed'[sub'[j].version]
    BY <1>0, <1>1, <1>5, <1>6, <1>8, <2>1, SubParts DEF CountInv
  <2>4. (call' = PlanCall /\ phase' = "DIAGNOSE")
          => (version' \in diagnosed' \/ failed'[version'] >= AttemptsCap)
    BY <1>0, <1>1, <1>3, <2>1 DEF CountInv
  <2>5. good' \subseteq diagnosed'
    BY <1>0, <1>1 DEF CountInv
  <2> QED
    BY <2>2, <2>3, <2>4, <2>5 DEF CountInv
<1>12. ObeyInv'
  <2> SUFFICES ASSUME obeys PROVE ObeyInv'
    BY <1>1 DEF ObeyInv
  <2>1. own = failed /\ its /\ call = NoCall
    BY <1>0, <1>1 DEF ObeyInv
  <2>2. own' = failed'
    BY <1>2, <2>1
  <2>3. \A j \in Subs : sub'[j].at = "runs" => sub'[j] = sub[j]
    BY <1>5, <1>6
  <2> QED
    BY <1>0, <1>1, <1>5, <1>6, <2>1, <2>2, <2>3 DEF ObeyInv
<1> QED
  BY <1>9, <1>10, <1>11, <1>12 DEF HooksInv

\* A hook writes what it read plus one, however late.
LEMMA WriteStep ==
  ASSUME HooksInv, NEW i \in Subs, PostTaskWrite(i)
  PROVE  HooksInv'
<1>0. TypeOK /\ FlowInv /\ CountInv /\ ObeyInv
  BY DEF HooksInv
<1>1. /\ UNCHANGED <<phase, started, seed, rounds, failures, best, pending, version>>
      /\ UNCHANGED <<good, items, dirty, marker, call, driver, obeys, spawns>>
      /\ UNCHANGED <<failed, own, diagnosed>>
      /\ attempts' = sub[i].attempts /\ attemptsFor' = sub[i].version
      /\ sub' = [sub EXCEPT ![i] = NoSub] /\ sub[i].at = "read"
  BY DEF PostTaskWrite, event, loop, kernel, ghosts
<1>2. /\ sub' \in [Subs -> SubRec] /\ sub'[i] = NoSub
      /\ \A j \in Subs \ {i} : sub'[j] = sub[j]
  BY <1>0, <1>1, NoSubIs, SubSet
<1>3. /\ sub[i].version \in Versions /\ sub[i].attempts \in Nat /\ sub[i].version <= version
      /\ sub[i].version \in Nat /\ version \in Nat
      /\ sub[i].attempts <= failed[sub[i].version]
  BY <1>0, <1>1, SubParts, Numbers DEF CountInv
<1>4. TypeOK'
  <2>1. attemptsFor' \in -1..version' /\ attempts' \in Nat
    BY <1>1, <1>3
  <2> QED
    BY <1>0, <1>1, <1>2, <2>1 DEF TypeOK, SubRec
<1>5. FlowInv'
  BY <1>0, <1>1 DEF FlowInv
<1>6. CountInv'
  BY <1>0, <1>1, <1>2, <1>3, NoSubIs DEF CountInv
<1>7. ObeyInv'
  BY <1>0, <1>1, <1>2, NoSubIs DEF ObeyInv
<1> QED
  BY <1>4, <1>5, <1>6, <1>7 DEF HooksInv

\* Only the driver moves.
LEMMA DriverStep ==
  ASSUME HooksInv, driver' \in {"check", "turn", "ended", "aborted"},
         UNCHANGED <<event, hooks, items, kernel, call, sub, obeys, spawns, ghosts>>
  PROVE  HooksInv'
<1>1. TypeOK'
  BY DEF HooksInv, TypeOK, event, hooks, kernel, ghosts
<1>2. FlowInv' /\ CountInv' /\ ObeyInv'
  BY DEF HooksInv, FlowInv, CountInv, ObeyInv, event, hooks, ghosts
<1> QED
  BY <1>1, <1>2 DEF HooksInv

\* Every step keeps the invariant.
LEMMA HooksKept ==
  ASSUME HooksInv, [Next]_vars
  PROVE  HooksInv'
<1>1. ASSUME NEW tc \in ToolCalls, PreTool(tc)
      PROVE  HooksInv'
  BY <1>1, PreToolStep
<1>2. CASE RunExport \/ RunBaseline \/ RunPipeline \/ RunOther
  <2>1. dirty \in BOOLEAN /\ marker \in BOOLEAN
    BY DEF HooksInv, TypeOK
  <2>2. dirty' \in BOOLEAN /\ marker' \in BOOLEAN
    BY <1>2, <2>1 DEF RunExport, RunBaseline, RunPipeline, RunOther, kernel
  <2>3. call.tool = "shell" /\ EventStep /\ UNCHANGED <<hooks, items, diagnosed>> /\ Returns
    BY <1>2 DEF RunExport, RunBaseline, RunPipeline, RunOther, EventStep, Called
  <2> QED
    BY <2>2, <2>3, ScriptStep
<1>3. CASE RunCreatePlan
  <2>1. call = PlanCall
    BY <1>3, CalledIs DEF RunCreatePlan, PlanCall, HooksInv
  <2>2. EventStep /\ call.tool = "shell" /\ UNCHANGED <<hooks, items, diagnosed>> /\ Returns
    BY <1>3, <2>1 DEF RunCreatePlan, EventStep, Called
  <2>3. dirty' \in BOOLEAN /\ marker' \in BOOLEAN
    BY <1>3 DEF RunCreatePlan, kernel, HooksInv, TypeOK
  <2> QED
    BY <2>2, <2>3, ScriptStep
<1>4. CASE RunEdit
  BY <1>4, EditStep
<1>5. ASSUME NEW i \in Subs, SubagentWrites(i) \/ PostTaskRead(i) \/ PostTaskWrite(i)
      PROVE  HooksInv'
  BY <1>5, SubagentStep, ReadStep, WriteStep
<1>6. CASE LoopCheck \/ TurnEnds
  <2>1. /\ driver' \in {"check", "turn", "ended", "aborted"}
        /\ UNCHANGED <<event, hooks, items, kernel, call, sub, obeys, spawns, ghosts>>
    BY <1>6 DEF LoopCheck, TurnEnds
  <2> QED
    BY <2>1, DriverStep
<1>7. CASE UNCHANGED vars
  <2>1. /\ UNCHANGED driver
        /\ UNCHANGED <<event, hooks, items, kernel, call, sub, obeys, spawns, ghosts>>
    BY <1>7 DEF vars, hooks
  <2> QED
    BY <2>1, DriverStep DEF HooksInv, TypeOK
<1> QED
  BY <1>1, <1>2, <1>3, <1>4, <1>5, <1>6, <1>7 DEF Next

\* Nothing has happened yet.
LEMMA HooksStart ==
  ASSUME Init
  PROVE  HooksInv
<1>1. 0 \in Versions /\ MaxRounds \in Nat \ {0} /\ MaxVersion \in Nat /\ MaxSpawns \in Nat
  BY HooksAssumption DEF Versions
<1>2. call # PlanCall
  BY CallFields DEF Init, PlanCall
<1>3. sub \in [Subs -> SubRec] /\ \A i \in Subs : sub[i].at = "none" /\ sub[i].version = 0
  BY NoSubIs DEF Init
<1>4. TypeOK
  <2>1. version \in Versions /\ attemptsFor \in -1..version /\ spawns \in 0..MaxSpawns
    BY <1>1 DEF Init
  <2>2. /\ failed \in [Versions -> Nat] /\ own \in [Versions -> Nat]
        /\ good \subseteq Versions /\ diagnosed \subseteq Versions /\ obeys \in BOOLEAN
    BY HooksAssumption DEF Init
  <2> QED
    BY <1>3, <2>1, <2>2 DEF Init, TypeOK, Phases, SubRec
<1>5. FlowInv
  BY <1>1, <1>2 DEF Init, FlowInv, Planning
<1>6. CountInv
  BY <1>1, <1>2, <1>3 DEF Init, CountInv, Versions
<1>7. ObeyInv
  BY <1>3 DEF Init, ObeyInv
<1> QED
  BY <1>4, <1>5, <1>6, <1>7 DEF HooksInv

-----------------------------------------------------------------------------
(* The theorems.                                                           *)

\* The inductive invariant of the gates, the hooks and the driver.
THEOREM HooksInvariant == Spec => []HooksInv
<1>1. Init => HooksInv
  BY HooksStart
<1>2. HooksInv /\ [Next]_vars => HooksInv'
  BY HooksKept
<1> QED
  BY <1>1, <1>2, PTL DEF Spec

\* The tables of phase_policy.py and decide.py never lock out an agent that does
\* what guidance.py tells it (GuidanceAllowed): a diagnosis, whose instruction
\* depends on the history, begins only after a baseline, and the git gate of
\* decide.py refuses an edit only where there is a change for pipeline.py.
THEOREM GuidanceNeverBlocked == Spec => []GuidanceAllowed
<1>1. HooksInv => GuidanceAllowed
  BY GuidancePasses DEF HooksInv, TypeOK, FlowInv
<1> QED
  BY <1>1, HooksInvariant, PTL

\* However many hooks read and write diagnose_attempts at once, it never counts
\* more failures than the version has seen (FallbackEarned).
THEOREM FallbackIsEarned == Spec => []FallbackEarned
<1>1. HooksInv => FallbackEarned
  BY CounterEarned DEF HooksInv
<1> QED
  BY <1>1, HooksInvariant, PTL

\* A plan leaves DIAGNOSE by an artifact of its version or by AttemptsCap subagents
\* that came back to it without one, for any number of subagents; for an agent that
\* follows its guidance they are ar-diagnosis runs of that version
\* (PlanFromDiagnosis).
THEOREM PlansAreDiagnosed == Spec => PlanFromDiagnosis
<1> DEFINE Earned == \/ version \in diagnosed
                     \/ /\ failed[version] >= AttemptsCap
                        /\ obeys => own[version] >= AttemptsCap
<1>1. HooksInv /\ [Next]_vars => [(phase = "DIAGNOSE" /\ version' # version) => Earned]_vars
  <2> SUFFICES ASSUME HooksInv, Next, phase = "DIAGNOSE", version' # version
               PROVE  Earned
    BY DEF vars, event
  <2>1. ~UNCHANGED event
    BY DEF event
  <2>2. RunExport \/ RunBaseline \/ RunCreatePlan \/ RunPipeline
    BY <2>1 DEF Next, PreTool, RunOther, RunEdit, SubagentWrites, PostTaskRead, PostTaskWrite,
                LoopCheck, TurnEnds
  <2>3. RunCreatePlan
    BY <2>1, <2>2 DEF RunExport, RunBaseline, RunPipeline, Events!Activate, Events!Baseline,
                      Events!RoundRecorded, Events!RoundSettled
  <2>4. call = PlanCall
    BY <2>3, CalledIs DEF RunCreatePlan, PlanCall, HooksInv
  <2>5. version \in diagnosed \/ failed[version] >= AttemptsCap
    BY <2>4 DEF HooksInv, CountInv
  <2>6. obeys => own = failed
    BY DEF HooksInv, ObeyInv
  <2> QED
    BY <2>5, <2>6
<1> QED
  BY <1>1, HooksInvariant, PTL DEF Spec, PlanFromDiagnosis
=============================================================================
