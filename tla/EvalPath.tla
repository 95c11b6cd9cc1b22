------------------------------ MODULE EvalPath ------------------------------
(***************************************************************************)
(* The evaluations of one task: scripts/utils/eval_bridge.py over           *)
(* KernelVerifier (verify, then profile) and the worker that runs the       *)
(* generated scripts.  A round whose evaluation broke is evaluated again at *)
(* the same step, in the same verify directory, possibly with other code.   *)
(*                                                                         *)
(* A kernel is an edit number and what running it does.  The generated     *)
(* scripts are external: only what the host reads back from them matters.  *)
(***************************************************************************)
EXTENDS Integers, FiniteSets, FiniteSetsExt

CONSTANTS
  MaxEdits,    \* bound: kernels the agent writes
  MaxStep,     \* bound: the last round evaluated
  MaxFaults,   \* bound: infrastructure faults and kills
  Configs,     \* autotune configs of a "tuned" kernel, tried in order 1..Configs
  None

ASSUME EvalAssumption ==
  MaxEdits \in Nat /\ MaxStep \in Nat /\ MaxFaults \in Nat /\ Configs \in Nat \ {0}

VARIABLES
  kernel,   \* content of kernel.py
  commit,   \* content of its last commit
  ref,      \* "ok", or "broken": the reference raises
  step,     \* current_step: the round about to be recorded, 0 the baseline
  dir,      \* the verify directory of that step
  anchor,   \* the committed baseline_* fields
  ev,       \* the evaluation in flight
  held,     \* a device lease is held for the evaluation
  edits,    \* edits so far
  faults,   \* faults so far
  report    \* the last EvalResult, with what it was computed from

vars == <<kernel, commit, ref, step, dir, anchor, ev, held, edits, faults, report>>

\* What running a kernel does: passes, differs from the reference, dies at
\* import, passes too slowly to be timed, never returns, is an empty file, or is
\* autotuned and verified config by config.
Qualities == {"good", "miss", "crash", "slow", "hang", "empty", "tuned"}
Kernel == [id : 0..MaxEdits, q : Qualities]

ASSUME NoneAssumption == None \notin Kernel

\* verify_result.json: the kernel it is about and whom it blames.
Sidecar == [of : Kernel, src : {"ref", "kernel", "none"}]

Dir == [ref    : {"none", "ok", "broken"},   \* the reference bundle, as copied
        impl   : Kernel \cup {None},    \* the implementation written
        script : BOOLEAN,               \* verify_<op>.py
        side   : Sidecar \cup {None},   \* verify_result.json
        gen    : BOOLEAN]               \* profile_<op>_generation.py
EmptyDir == [ref |-> "none", impl |-> None, script |-> FALSE, side |-> None, gen |-> FALSE]

\* A reference time: how its shapes are labelled ("named" after the sidecar's
\* cases, "generic" when made up), and where its per-shape times come from.
Base == [label : {"none", "generic", "named"}, per : {"none", "profile", "walls"}]
NoBase == [label |-> "none", per |-> "none"]

Idle == [pc |-> "idle", k |-> None, ran |-> None, side |-> None, ok |-> FALSE,
         genok |-> TRUE, lost |-> FALSE, reserved |-> FALSE]
NoReport == [out |-> "none", src |-> "none", k |-> None, ran |-> None,
             timed |-> None, base |-> NoBase, genok |-> TRUE, lost |-> FALSE]

Init ==
  /\ kernel \in [id : {0}, q : Qualities]
  /\ commit = kernel
  /\ ref \in {"ok", "broken"}
  /\ step = 0
  /\ dir = EmptyDir
  /\ anchor = NoBase
  /\ ev = Idle
  /\ held = FALSE
  /\ edits = 0
  /\ faults = 0
  /\ report = NoReport

Fault == faults < MaxFaults /\ faults' = faults + 1

-----------------------------------------------------------------------------
(***************************************************************************)
(* What ends an evaluation.                                                *)
(***************************************************************************)

Payload(out, src, timed, base) ==
  [out |-> out, src |-> src, k |-> ev.k, ran |-> ev.ran, timed |-> timed,
   base |-> base, genok |-> ev.genok, lost |-> ev.lost]

\* The ways out of _eval_async's try give back the worker in the finally.
Finish(payload) ==
  /\ report' = payload
  /\ ev' = [Idle EXCEPT !.pc = "reported"]

InfraFail == Finish(Payload("infra_fail", "none", None, NoBase))

\* run_eval turns whatever eval_kernel raises into infra_fail.  "kept": the worker
\* is still reserved, since the exception left before the try.
Raised(kept) ==
  /\ report' = Payload("infra_fail", "none", None, NoBase)
  /\ ev' = [Idle EXCEPT !.pc = "reported", !.reserved = kept]

\* _verify_fail_payload: whom the sidecar the verifier read blames, else the
\* kernel; its cases' reference walls replace the profiled per-shape times.
VerifyFail(base) ==
  LET blame == IF ev.side # None /\ ev.side.src = "ref" THEN "ref" ELSE "kernel"
      per   == IF ev.side = None THEN base.per
               ELSE IF ev.side.src = "ref" THEN "none" ELSE "walls"
  IN  Finish(Payload("kernel_fail", blame, None,
                     IF base = NoBase THEN base ELSE [base EXCEPT !.per = per]))

-----------------------------------------------------------------------------
(***************************************************************************)
(* Verification.                                                           *)
(***************************************************************************)

\* _eval_async reads kernel.py and the reference.  A missing seed file or an arch
\* nobody knows is reported at once.
Begin ==
  /\ ev.pc = "idle" /\ step <= MaxStep
  /\ \/ /\ ev' = [Idle EXCEPT !.pc = "worker", !.k = kernel]
        /\ UNCHANGED <<faults, report>>
     \/ /\ Fault
        /\ ev' = [Idle EXCEPT !.pc = "reported"]
        /\ report' = [NoReport EXCEPT !.out = "infra_fail", !.k = kernel]
  /\ UNCHANGED <<edits, kernel, commit, ref, step, dir, anchor, held>>

\* register_remote_worker: the daemon must report one of the devices the task asks
\* for ("mine"); one that does not answer reports none.
RegisterRemoteWorker(reported) == reported \cap {"mine"} # {}

\* WorkerManager.register and reserve: a fresh entry, one load on it.
Reserve == ev' = [ev EXCEPT !.pc = "build", !.reserved = TRUE]

\* _acquire_worker: the local worker, or the daemon behind the task's URL.
AcquireWorker ==
  /\ ev.pc = "worker"
  /\ \E remote \in BOOLEAN, reported \in SUBSET {"mine", "other"} :
       IF remote => RegisterRemoteWorker(reported)
       THEN Reserve /\ UNCHANGED <<faults, report>>
       ELSE Fault /\ InfraFail
  /\ UNCHANGED <<edits, kernel, commit, ref, step, dir, anchor, held>>

\* KernelVerifier.__init__ refuses a DSL, an aux file or a backend and arch it does
\* not know.
VerifierRefuses == Fault

\* _build_verifier runs before the try whose finally releases the worker.
BuildVerifier ==
  /\ ev.pc = "build"
  /\ \/ /\ ev' = [ev EXCEPT !.pc = "acquire"]
        /\ UNCHANGED <<faults, report>>
     \/ VerifierRefuses /\ Raised(TRUE)
  /\ UNCHANGED <<edits, kernel, commit, ref, step, dir, anchor, held>>

\* KernelVerifier.run refuses an empty file at once; otherwise it takes a device
\* for the whole verify.  A failure to get one leaves run() as an exception.
AcquireForVerify ==
  /\ ev.pc = "acquire"
  /\ \/ /\ ev.k.q = "empty"
        /\ ev' = [ev EXCEPT !.pc = "judge"]
        /\ UNCHANGED <<held, faults, report>>
     \/ /\ ev.k.q # "empty"
        /\ held' = TRUE
        /\ ev' = [ev EXCEPT !.pc = "generate"]
        /\ UNCHANGED <<faults, report>>
     \/ /\ ev.k.q # "empty"
        /\ Fault /\ Raised(FALSE)
        /\ UNCHANGED held
  /\ UNCHANGED <<edits, kernel, commit, ref, step, dir, anchor>>

\* _materialize_framework_bundle: the reference and its sidecars, written anew.
MaterializeBundle(d) == [d EXCEPT !.ref = ref]

\* Mutant of GenVerifyProject: an implementation already in the directory stays.
GenVerifyProjectOnce(d, k) ==
  [MaterializeBundle(d) EXCEPT !.impl = IF @ = None THEN k ELSE @, !.script = TRUE]

\* gen_verify_project writes the reference bundle, the implementation and, last,
\* the script.  It may raise before or after each of them.
GenVerifyProject(d, k) == [MaterializeBundle(d) EXCEPT !.impl = k, !.script = TRUE]
GenStopped(d, k) ==
  {d, MaterializeBundle(d), [MaterializeBundle(d) EXCEPT !.impl = k]}

\* run(): a generation that raised is noted in the log, and the verify goes on
\* with what the directory holds.
Generate ==
  /\ ev.pc = "generate"
  /\ ev.k.q # "tuned"
  /\ \/ /\ dir' = GenVerifyProject(dir, ev.k)
        /\ ev' = [ev EXCEPT !.pc = "script"]
        /\ UNCHANGED faults
     \/ /\ Fault
        /\ dir' \in GenStopped(dir, ev.k)
        /\ ev' = [ev EXCEPT !.pc = "script", !.genok = FALSE]
  /\ UNCHANGED <<edits, kernel, commit, ref, step, anchor, held, report>>

\* The configs tried one by one: two timeouts in a row stop the series.
Tried(res) ==
  LET twice == {i \in 2..Configs : res[i] = "timeout" /\ res[i - 1] = "timeout"}
  IN  IF twice = {} THEN 1..Configs ELSE 1..Min(twice)
Passed(res) == {i \in Tried(res) : res[i] = "pass"}

\* _verify_configs_separately on a "tuned" kernel: each config alone, the whole
\* code again when all of them passed, then the project of the configs that
\* passed, which counts as "good"; kernel.py keeps all of them.  A generation that
\* raises fails the verify.  No sidecar is read in this mode.
VerifyConfigsSeparately ==
  /\ ev.pc = "generate"
  /\ ev.k.q = "tuned"
  /\ \E res \in [1..Configs -> {"pass", "fail", "timeout"}], whole \in BOOLEAN :
       LET n == Cardinality(Passed(res))
           final == IF n > 0 THEN [ev.k EXCEPT !.q = "good"] ELSE ev.k
       IN  /\ ~whole => n = Configs /\ Configs > 1
           /\ ref = "broken" => n = 0
           /\ \/ /\ dir' = GenVerifyProject(dir, final)
                 /\ ev' = [ev EXCEPT !.pc = "judge", !.ok = n > 0 /\ whole, !.ran = final]
                 /\ UNCHANGED faults
              \/ /\ Fault
                 /\ dir' \in GenStopped(dir, final)
                 /\ ev' = [ev EXCEPT !.pc = "judge", !.genok = FALSE]
  /\ held' = FALSE
  /\ UNCHANGED <<edits, kernel, commit, ref, step, anchor, report>>

\* The generated verify script, run on a kernel and a copy of the reference: it
\* writes the sidecar once every case ran, and fails when one failed; a kernel that
\* dies at import or hangs writes none.
ScriptCrashes(k) == k.q \in {"crash", "hang", "empty"}
ScriptSidecar(k, r) ==
  [of |-> k, src |-> IF r = "broken" THEN "ref"
                     ELSE IF k.q \in {"good", "slow"} THEN "none" ELSE "kernel"]

\* worker.verify: a missing script, a timeout or an exit status other than 0 is
\* "not passed"; the JSON files of the run are its artifacts.
WorkerVerify(d) ==
  IF ~d.script \/ d.impl = None THEN [ok |-> FALSE, ran |-> None, side |-> None]
  ELSE IF ScriptCrashes(d.impl) THEN [ok |-> FALSE, ran |-> d.impl, side |-> None]
  ELSE LET side == ScriptSidecar(d.impl, d.ref)
       IN  [ok |-> side.src = "none", ran |-> d.impl, side |-> side]

\* sync_artifacts_to_directory.
SyncArtifacts(d, side) == IF side = None THEN d ELSE [d EXCEPT !.side = side]

\* run_verify: a lost connection or a package that does not extract is "not passed"
\* with a log and no files; an artifact that cannot be written back is only logged,
\* and the directory keeps what it had.
RunVerify ==
  /\ ev.pc = "script"
  /\ \/ /\ Fault
        /\ ev' = [ev EXCEPT !.pc = "conclude", !.lost = TRUE]
        /\ UNCHANGED dir
     \/ LET res == WorkerVerify(dir)
        IN  /\ ev' = [ev EXCEPT !.pc = "conclude", !.ran = res.ran, !.ok = res.ok]
            /\ \/ dir' = SyncArtifacts(dir, res.side) /\ UNCHANGED faults
               \/ res.side # None /\ Fault /\ UNCHANGED dir
  /\ UNCHANGED <<edits, kernel, commit, ref, step, anchor, held, report>>

\* Mutant of ConcludeVerify: the device of a failed verify is not released.
ConcludeVerifyKeepsDevice ==
  /\ ev.pc = "conclude"
  /\ ev' = [ev EXCEPT !.pc = "judge", !.side = dir.side]
  /\ held' = ~ev.ok
  /\ UNCHANGED <<edits, kernel, commit, ref, step, dir, anchor, faults, report>>

\* The rest of run(): read whatever verify_result.json the directory holds, append
\* the result to the JSONL record, and release the device in the finally.
ConcludeVerify ==
  /\ ev.pc = "conclude"
  /\ ev' = [ev EXCEPT !.pc = "judge", !.side = dir.side]
  /\ held' = FALSE
  /\ UNCHANGED <<edits, kernel, commit, ref, step, dir, anchor, faults, report>>

-----------------------------------------------------------------------------
(***************************************************************************)
(* Profiling.                                                              *)
(***************************************************************************)

\* exact_fingerprint_match: made-up labels never match, since without a sidecar the
\* current fingerprint has no shape signature at all.
FingerprintMatch == anchor.label = "named" /\ ev.side # None

\* _sticky_baseline_override: the committed baseline, when it is of these shapes.
StickyBaseline == FingerprintMatch

\* plan_profile: the kernel's own walls say it cannot be timed in the budget.
TooSlow == ev.side # None /\ ev.side.of.q = "slow"

\* _eval_async after run(): what is left to measure.
Judge ==
  /\ ev.pc = "judge"
  /\ \/ /\ ~ev.ok /\ StickyBaseline
        /\ VerifyFail(NoBase)
     \/ /\ ~ev.ok /\ ~StickyBaseline
        /\ ev' = [ev EXCEPT !.pc = "profile"]
        /\ UNCHANGED report
     \/ /\ ev.ok /\ TooSlow
        /\ Finish(Payload("kernel_fail", "kernel", None, NoBase))
     \/ /\ ev.ok /\ ~TooSlow
        /\ ev' = [ev EXCEPT !.pc = "profile"]
        /\ UNCHANGED report
  /\ UNCHANGED <<edits, kernel, commit, ref, step, dir, anchor, held, faults>>

\* A reference timed by the profiler, labelled after the sidecar's cases if any.
Profiled ==
  [label |-> IF ev.side = None THEN "generic" ELSE "named", per |-> "profile"]

\* What run_profile returns: was the reference, was the implementation timed.
NoProfile == [base |-> FALSE, gen |-> FALSE]

\* _make_ok_payload: no time of the implementation is infra_fail, no reference time
\* is left out.
MakeOkPayload(res) ==
  IF ~res.gen THEN InfraFail
  ELSE Finish(Payload("ok", "none", dir.impl,
                      IF ~res.base THEN NoBase
                      ELSE IF StickyBaseline THEN anchor ELSE Profiled))

\* _eval_async after run_profile: the reference time of a failed verify rides on
\* its failure payload.
Conclude(res) ==
  IF ev.ok THEN MakeOkPayload(res)
  ELSE VerifyFail(IF res.base THEN Profiled ELSE NoBase)

\* run_profile takes a device again.  Whatever it raises, this too, becomes an
\* empty result.
AcquireForProfile ==
  /\ ev.pc = "profile"
  /\ \/ /\ held' = TRUE
        /\ ev' = [ev EXCEPT !.pc = "scripts"]
        /\ UNCHANGED <<faults, report>>
     \/ /\ Fault
        /\ Conclude(NoProfile)
        /\ UNCHANGED held
  /\ UNCHANGED <<edits, kernel, commit, ref, step, dir, anchor>>

\* run_profile's project: after a failed verify the reference alone, with the stale
\* generation scripts removed; otherwise the implementation the verify left.
ProfileProject(d) ==
  IF ~ev.ok THEN [MaterializeBundle(d) EXCEPT !.gen = FALSE]
  ELSE [IF d.impl = None THEN GenVerifyProject(d, ev.k) ELSE d EXCEPT !.gen = TRUE]

\* gen_profile_project renders the scripts, or raises.
GenProfileProject ==
  /\ ev.pc = "scripts"
  /\ \/ /\ dir' = ProfileProject(dir)
        /\ ev' = [ev EXCEPT !.pc = "timing"]
        /\ UNCHANGED <<held, faults, report>>
     \/ /\ Fault
        /\ dir' \in {dir, ProfileProject(dir)}
        /\ Conclude(NoProfile)
        /\ held' = FALSE
  /\ UNCHANGED <<edits, kernel, commit, ref, step, anchor>>

\* run_profile_scripts_and_collect_results: the sections that can come back.  The
\* committed baseline stands in for the reference; a broken reference is not timed.
Sections ==
  [base : IF StickyBaseline /\ ev.ok THEN {TRUE}
          ELSE IF dir.ref = "broken" THEN {FALSE} ELSE BOOLEAN,
   gen  : IF dir.gen THEN BOOLEAN ELSE {FALSE}]

\* LocalWorker.profile: a generation that was asked for and not timed spoils the
\* whole result, a reference that was not timed only its half.
ProfileResult(sec) == IF dir.gen /\ ~sec.gen THEN NoProfile ELSE sec

\* worker.profile and the rest of run_profile, with its finally.  A section that
\* could have been timed and was not is a fault.
WorkerProfile ==
  /\ ev.pc = "timing"
  /\ \E sec \in Sections :
       /\ Conclude(ProfileResult(sec))
       /\ IF (dir.gen => sec.gen) /\ (sec.base \/ dir.ref = "broken")
          THEN UNCHANGED faults ELSE Fault
  /\ held' = FALSE
  /\ UNCHANGED <<edits, kernel, commit, ref, step, dir, anchor>>

-----------------------------------------------------------------------------
(***************************************************************************)
(* What the engine does with the report, and the rest of the world.        *)
(***************************************************************************)

\* Mutant of HasReference: any evaluation that ran will do.
HasReferenceIfRan == report.out # "infra_fail"

\* run_baseline_init: without a reference time the task stays at BASELINE, to be
\* run again at step 0; otherwise the anchor is committed.
HasReference == report.out # "infra_fail" /\ report.base # NoBase
SettleBaseline ==
  /\ ev.pc = "reported" /\ step = 0
  /\ ev' = Idle
  /\ IF HasReference
     THEN anchor' = report.base /\ step' = 1 /\ dir' = EmptyDir
     ELSE UNCHANGED <<anchor, step, dir>>
  /\ UNCHANGED <<edits, kernel, commit, ref, held, faults, report>>

\* refresh_round_anchor: a fresh reference time with other labels replaces the
\* anchor, whatever the verdict of the round.
RefreshAnchor ==
  IF report.base # NoBase /\ report.base.label # anchor.label
  THEN report.base ELSE anchor

\* Mutant of KeepOrRollback: any recorded round may be kept.
KeepOrRollbackAny ==
  \/ commit' = kernel /\ UNCHANGED kernel
  \/ kernel' = commit /\ UNCHANGED commit

\* A KEEP commits the kernel; anything else rolls it back to the last commit.
KeepOrRollback ==
  \/ report.out = "ok" /\ commit' = kernel /\ UNCHANGED kernel
  \/ kernel' = commit /\ UNCHANGED commit

\* pipeline.py and record_round: infra_fail rolls the edit back and records
\* nothing; anything else is recorded, so the next round has its own directory.
SettleRound ==
  /\ ev.pc = "reported" /\ step > 0
  /\ ev' = Idle
  /\ IF report.out = "infra_fail"
     THEN kernel' = commit /\ UNCHANGED <<commit, step, dir, anchor>>
     ELSE /\ KeepOrRollback
          /\ step' = step + 1
          /\ dir' = EmptyDir
          /\ anchor' = RefreshAnchor
  /\ UNCHANGED <<edits, ref, held, faults, report>>

\* The agent edits kernel.py between evaluations; a seed is edited by the operator.
Edit ==
  /\ ev.pc = "idle" /\ edits < MaxEdits
  /\ edits' = edits + 1
  /\ \E q \in Qualities : kernel' = [id |-> edits', q |-> q]
  /\ commit' = IF step = 0 THEN kernel' ELSE commit
  /\ UNCHANGED <<ref, step, dir, anchor, ev, held, faults, report>>

\* The operator repairs the reference of a task parked at BASELINE.
RepairReference ==
  /\ ev.pc = "idle" /\ step = 0 /\ ref = "broken"
  /\ ref' = "ok"
  /\ UNCHANGED <<edits, kernel, commit, step, dir, anchor, ev, held, faults, report>>

\* The evaluating process is killed: the daemon takes the lease back, and the
\* verify directory stays as it is.
Killed ==
  /\ ev.pc \notin {"idle", "reported"}
  /\ Fault
  /\ ev' = Idle
  /\ held' = FALSE
  /\ UNCHANGED <<edits, kernel, commit, ref, step, dir, anchor, report>>

Next ==
  \/ Begin \/ AcquireWorker \/ BuildVerifier \/ AcquireForVerify \/ Generate
  \/ VerifyConfigsSeparately \/ RunVerify \/ ConcludeVerify \/ Judge
  \/ AcquireForProfile \/ GenProfileProject \/ WorkerProfile \/ SettleBaseline \/ SettleRound
  \/ Edit \/ RepairReference \/ Killed

Spec == Init /\ [][Next]_vars

-----------------------------------------------------------------------------
(***************************************************************************)
(* Properties.                                                             *)
(***************************************************************************)

\* Every variable stays in the domain the code gives it.
TypeOK ==
  /\ kernel \in Kernel /\ commit \in Kernel
  /\ ref \in {"ok", "broken"}
  /\ step \in 0..(MaxStep + 1)
  /\ dir \in Dir
  /\ anchor \in Base
  /\ ev \in [pc : {"idle", "worker", "build", "acquire", "generate", "script",
                   "conclude", "judge", "profile", "scripts", "timing", "reported"},
             k : Kernel \cup {None}, ran : Kernel \cup {None},
             side : Sidecar \cup {None}, ok : BOOLEAN, genok : BOOLEAN,
             lost : BOOLEAN, reserved : BOOLEAN]
  /\ held \in BOOLEAN
  /\ edits \in 0..MaxEdits /\ faults \in 0..MaxFaults
  /\ report \in [out : {"none", "ok", "kernel_fail", "infra_fail"},
                 src : {"none", "ref", "kernel"}, k : Kernel \cup {None},
                 ran : Kernel \cup {None}, timed : Kernel \cup {None},
                 base : Base, genok : BOOLEAN, lost : BOOLEAN]

\* The code that is timed is the code that was verified, and, unless the project
\* of this attempt could not be generated, it is the code handed to the evaluation:
\* a directory reused by a second attempt at the same step, a per-config rewrite
\* or a re-generated project never mixes two edits in one verdict.
VerdictOfThisCode ==
  report.out = "ok" =>
    /\ report.timed = report.ran
    /\ report.genok => report.ran.id = report.k.id

\* No evaluation ends with a device: whatever verify, profile, the worker or the
\* generation raised, the lease taken for it has been given back.
DeviceReturned ==
  held => ev.pc \in {"generate", "script", "conclude", "scripts", "timing"}

\* Rounds only start from a measured, working reference: a task whose reference
\* raises parks at BASELINE until it is repaired, whatever old copies of it and old
\* sidecars the verify directory of step 0 still holds.
AnchorBeforeRounds == step > 0 => anchor # NoBase /\ ref = "ok"

\* What record_round keeps is code that passes: across retries in a reused
\* directory, crashes and lost connections, no failing edit is ever committed as
\* the new best (unless its own project could not be generated).
KeptIsCorrect ==
  [][step > 0 /\ commit' # commit /\ report.genok
       => commit'.q \in {"good", "slow", "tuned"}]_vars

-----------------------------------------------------------------------------
(***************************************************************************)
(* What comments of the code say and the code does not do.                 *)
(***************************************************************************)

\* scripts/task_config/metric_policy.py: a transport that went down is the operator's
\* business (infra_fail), never a failure charged to the kernel.
TransportNotKernel == report.lost => report.out # "kernel_fail"

\* scripts/utils/eval_bridge.py: the metrics of a failed round are dropped, so it
\* leaves the committed baseline alone.
FailedRoundKeepsAnchor ==
  [][step > 0 /\ step' # step /\ report.out # "ok" => anchor' = anchor]_vars

\* scripts/task_config/metric_policy.py: a failure blamed on the reference means that
\* the reference file is broken.
RefBlameIsReal == ev.pc = "reported" /\ report.src = "ref" => ref = "broken"

\* core/worker/manager.py: a worker's load is decremented after completion or
\* failure.
WorkerReleased == ev.pc = "reported" => ~ev.reserved
=============================================================================
