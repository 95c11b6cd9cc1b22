---------------------------- MODULE EvalPathProofs ----------------------------
(***************************************************************************)
(* Proofs about EvalPath, for any number of edits, rounds, faults and      *)
(* autotune configs.                                                       *)
(***************************************************************************)
EXTENDS EvalPath, TLAPS

EvRec == [pc : {"idle", "worker", "build", "acquire", "generate", "script",
                "conclude", "judge", "profile", "scripts", "timing", "reported"},
          k : Kernel \cup {None}, ran : Kernel \cup {None},
          side : Sidecar \cup {None}, ok : BOOLEAN, genok : BOOLEAN,
          lost : BOOLEAN, reserved : BOOLEAN]
ReportRec == [out : {"none", "ok", "kernel_fail", "infra_fail"},
              src : {"none", "ref", "kernel"}, k : Kernel \cup {None},
              ran : Kernel \cup {None}, timed : Kernel \cup {None},
              base : Base, genok : BOOLEAN, lost : BOOLEAN]

Holding == {"generate", "script", "conclude", "scripts", "timing"}
Verified == {"conclude", "judge", "profile", "scripts", "timing"}
Passing == {"good", "slow", "tuned"}

\* The directory's copy of the reference is never better than the reference, and
\* its verify script never lacks one.
DirInv ==
  /\ dir.ref = "ok" => ref = "ok"
  /\ dir.script => dir.ref # "none"

\* An anchor exactly from the first round on.
AnchorInv ==
  /\ step = 0 => anchor = NoBase
  /\ step > 0 => anchor # NoBase /\ ref = "ok"

\* An evaluation in flight is about kernel.py; once its verify has passed, the
\* directory holds the code that ran, and that is the code handed in.
FlightInv ==
  /\ ev.pc # "idle" => step <= MaxStep
  /\ ev.pc \notin {"idle", "reported"} => ev.k = kernel
  /\ held => ev.pc \in Holding
  /\ ev.ok => ev.pc \in Verified
  /\ ev.ok => dir.script /\ dir.impl = ev.ran /\ ev.ran \in Kernel
  /\ ev.ok /\ ev.genok => ev.ran.id = ev.k.id /\ ev.k.q \in Passing
  /\ ev.pc = "script" /\ ev.genok => dir.impl = ev.k
  /\ ev.pc = "timing" => dir.ref # "none"

\* What a report says of the code and of the reference.
ReportInv ==
  /\ report.out = "ok" => report.timed = report.ran
  /\ report.out = "ok" /\ report.genok
       => report.ran.id = report.k.id /\ report.k.q \in Passing
  /\ ev.pc = "reported" => report.k = kernel
  /\ ev.pc = "reported" /\ step = 0 /\ report.base # NoBase => ref = "ok"

EvalInv == TypeOK /\ DirInv /\ AnchorInv /\ FlightInv /\ ReportInv

-----------------------------------------------------------------------------
(* The records.                                                            *)

\* The type invariant in terms of the two records above.
LEMMA Types ==
  TypeOK <=>
    /\ kernel \in Kernel /\ commit \in Kernel
    /\ ref \in {"ok", "broken"} /\ step \in 0..(MaxStep + 1)
    /\ dir \in Dir /\ anchor \in Base /\ ev \in EvRec /\ held \in BOOLEAN
    /\ edits \in 0..MaxEdits /\ faults \in 0..MaxFaults /\ report \in ReportRec
BY DEF TypeOK, EvRec, ReportRec

\* The same of the next state.
LEMMA TypesNext ==
  TypeOK' <=>
    /\ kernel' \in Kernel /\ commit' \in Kernel
    /\ ref' \in {"ok", "broken"} /\ step' \in 0..(MaxStep + 1)
    /\ dir' \in Dir /\ anchor' \in Base /\ ev' \in EvRec /\ held' \in BOOLEAN
    /\ edits' \in 0..MaxEdits /\ faults' \in 0..MaxFaults /\ report' \in ReportRec
BY DEF TypeOK, EvRec, ReportRec

\* The constant records are of their types.
LEMMA Constants ==
  /\ Idle \in EvRec /\ Idle.pc = "idle" /\ Idle.ok = FALSE
  /\ NoBase \in Base /\ EmptyDir \in Dir
  /\ EmptyDir.ref = "none" /\ EmptyDir.script = FALSE
  /\ NoReport \in ReportRec /\ NoReport.out = "none" /\ NoReport.base = NoBase
BY DEF Idle, EvRec, NoBase, Base, EmptyDir, Dir, NoReport, ReportRec

\* An evaluation begins empty.
LEMMA InitInv == Init => EvalInv
<1> SUFFICES ASSUME Init PROVE EvalInv
  OBVIOUS
<1> USE EvalAssumption
<1>1. TypeOK
  <2>1. [id : {0}, q : Qualities] \subseteq Kernel
    BY DEF Kernel
  <2>2. kernel \in Kernel /\ commit \in Kernel
    BY <2>1 DEF Init
  <2>3. step \in 0..(MaxStep + 1) /\ edits \in 0..MaxEdits /\ faults \in 0..MaxFaults
    BY DEF Init
  <2>4. ref \in {"ok", "broken"} /\ held \in BOOLEAN
    BY DEF Init
  <2>5. dir \in Dir /\ anchor \in Base /\ ev \in EvRec /\ report \in ReportRec
    BY Constants DEF Init
  <2> QED BY <2>2, <2>3, <2>4, <2>5, Types
<1>2. DirInv /\ AnchorInv /\ FlightInv /\ ReportInv
  BY Constants DEF Init, DirInv, AnchorInv, FlightInv, ReportInv
<1> QED BY <1>1, <1>2 DEF EvalInv

\* A fault stays within its bound.
LEMMA FaultType == TypeOK /\ Fault => faults' \in 0..MaxFaults
BY EvalAssumption DEF TypeOK, Fault

-----------------------------------------------------------------------------
(* How an evaluation ends.                                                 *)

\* What every way out has in common: the report is about the code handed in, it is
\* "ok" only after a passed verify, and it has a reference time only if b.
Ended(b) ==
  /\ ev' \in EvRec /\ ev'.pc = "reported" /\ ev'.ok = FALSE
  /\ report' \in ReportRec /\ report'.k = ev.k
  /\ report'.out = "ok" => /\ ev.ok /\ report'.timed = dir.impl
                           /\ report'.ran = ev.ran /\ report'.genok = ev.genok
  /\ report'.base # NoBase => b

\* A payload has the fields it is given.
LEMMA PayloadType ==
  ASSUME TypeOK, NEW out \in {"ok", "kernel_fail", "infra_fail"},
         NEW src \in {"none", "ref", "kernel"}, NEW timed \in Kernel \cup {None},
         NEW base \in Base
  PROVE  LET r == Payload(out, src, timed, base) IN
           /\ r \in ReportRec /\ r.out = out /\ r.timed = timed /\ r.base = base
           /\ r.k = ev.k /\ r.ran = ev.ran /\ r.genok = ev.genok
<1>1. ev \in EvRec
  BY Types
<1> QED BY <1>1 DEF Payload, ReportRec, EvRec

\* Finish and Raised report and leave the evaluation.
LEMMA FinishEnds ==
  ASSUME NEW r, Finish(r)
  PROVE  ev' \in EvRec /\ ev'.pc = "reported" /\ ev'.ok = FALSE /\ report' = r
BY DEF Finish, Idle, EvRec

\* InfraFail and Raised carry no reference time.
LEMMA InfraEnds ==
  ASSUME TypeOK, InfraFail \/ \E kept \in BOOLEAN : Raised(kept)
  PROVE  Ended(FALSE)
<1> DEFINE r == Payload("infra_fail", "none", None, NoBase)
<1>1. r \in ReportRec /\ r.out = "infra_fail" /\ r.base = NoBase /\ r.k = ev.k
  BY PayloadType, Constants
<1>2. report' = r /\ ev' \in EvRec /\ ev'.pc = "reported" /\ ev'.ok = FALSE
  <2>1. CASE InfraFail
    BY <2>1, FinishEnds DEF InfraFail
  <2>2. CASE \E kept \in BOOLEAN : Raised(kept)
    BY <2>2 DEF Raised, Idle, EvRec
  <2> QED BY <2>1, <2>2
<1> HIDE DEF r
<1> QED BY <1>1, <1>2 DEF Ended

\* A failed verify carries the reference time it is given.
LEMMA VerifyFailEnds ==
  ASSUME TypeOK, NEW base \in Base, VerifyFail(base)
  PROVE  Ended(base # NoBase)
<1>1. PICK src \in {"ref", "kernel"}, b \in Base :
         /\ Finish(Payload("kernel_fail", src, None, b))
         /\ base = NoBase => b = NoBase
  <2>1. \A per \in {"none", "profile", "walls"} : [base EXCEPT !.per = per] \in Base
    BY DEF Base
  <2>2. base.per \in {"none", "profile", "walls"}
    BY DEF Base
  <2> QED BY <2>1, <2>2, Constants DEF VerifyFail
<1> DEFINE r == Payload("kernel_fail", src, None, b)
<1>2. r \in ReportRec /\ r.out = "kernel_fail" /\ r.base = b /\ r.k = ev.k
  BY PayloadType
<1>3. report' = r /\ ev' \in EvRec /\ ev'.pc = "reported" /\ ev'.ok = FALSE
  BY <1>1, FinishEnds
<1> HIDE DEF r
<1> QED BY <1>1, <1>2, <1>3 DEF Ended

\* After a profile, a reference time is reported only if there is one.
LEMMA ConcludeEnds ==
  ASSUME TypeOK, NEW res, res.base \in BOOLEAN, res.gen \in BOOLEAN, Conclude(res)
  PROVE  Ended(res.base)
<1>0. Profiled \in Base /\ anchor \in Base /\ dir.impl \in Kernel \cup {None}
  BY DEF Profiled, Base, TypeOK, Dir
<1>1. CASE ev.ok /\ ~res.gen
  <2>1. Ended(FALSE)
    BY <1>1, InfraEnds DEF Conclude, MakeOkPayload
  <2> QED BY <2>1 DEF Ended
<1>2. CASE ev.ok /\ res.gen
  <2>1. PICK b \in Base : /\ Finish(Payload("ok", "none", dir.impl, b))
                          /\ ~res.base => b = NoBase
    BY <1>0, <1>2, Constants DEF Conclude, MakeOkPayload
  <2> DEFINE r == Payload("ok", "none", dir.impl, b)
  <2>2. /\ r \in ReportRec /\ r.out = "ok" /\ r.base = b /\ r.k = ev.k
        /\ r.timed = dir.impl /\ r.ran = ev.ran /\ r.genok = ev.genok
    <3>1. b \in Base /\ dir.impl \in Kernel \cup {None} /\ ev \in EvRec
      BY <1>0, <2>1, Types
    <3> QED BY <3>1 DEF Payload, ReportRec, EvRec
  <2>3. report' = r /\ ev' \in EvRec /\ ev'.pc = "reported" /\ ev'.ok = FALSE
    BY <2>1, FinishEnds
  <2> HIDE DEF r
  <2> QED BY <1>2, <2>1, <2>2, <2>3 DEF Ended
<1>3. CASE ~ev.ok /\ res.base
  <2>1. Ended(Profiled # NoBase)
    BY <1>0, <1>3, VerifyFailEnds DEF Conclude
  <2> QED BY <1>3, <2>1 DEF Ended
<1>4. CASE ~ev.ok /\ ~res.base
  <2>1. Ended(NoBase # NoBase)
    BY <1>4, Constants, VerifyFailEnds DEF Conclude
  <2> QED BY <2>1 DEF Ended
<1> QED BY <1>1, <1>2, <1>3, <1>4

\* Ending an evaluation keeps the invariant, if the device is back and a reference
\* time comes from a reference that works.
LEMMA EndKeeps ==
  ASSUME EvalInv, NEW b \in BOOLEAN, Ended(b), ev.pc \notin {"idle", "reported"},
         b /\ step = 0 => ref = "ok",
         kernel' = kernel, commit' = commit, ref' = ref, step' = step,
         anchor' = anchor, edits' = edits, faults' \in 0..MaxFaults,
         dir' \in Dir, DirInv', held' = FALSE
  PROVE  EvalInv'
<1>1. TypeOK'
  BY Types, TypesNext DEF EvalInv, Ended
<1>2. AnchorInv' /\ FlightInv'
  BY DEF EvalInv, AnchorInv, FlightInv, Ended
<1>3. ReportInv'
  BY DEF EvalInv, FlightInv, ReportInv, Ended
<1> QED BY <1>1, <1>2, <1>3 DEF EvalInv

\* Going on with an evaluation keeps the invariant, if it keeps what is said of the
\* directory and of the evaluation in flight.
LEMMA MoveKeeps ==
  ASSUME EvalInv, ev.pc \notin {"idle", "reported"}, ev' \in EvRec,
         ev'.pc \notin {"idle", "reported"},
         kernel' = kernel, commit' = commit, ref' = ref, step' = step,
         anchor' = anchor, edits' = edits, faults' \in 0..MaxFaults,
         report' = report, dir' \in Dir, held' \in BOOLEAN, DirInv', FlightInv'
  PROVE  EvalInv'
<1>1. TypeOK'
  BY Types, TypesNext DEF EvalInv
<1>2. AnchorInv' /\ ReportInv'
  BY DEF EvalInv, AnchorInv, ReportInv
<1> QED BY <1>1, <1>2 DEF EvalInv

\* Nothing is ever held outside the device's own steps.
LEMMA NotHeld == EvalInv /\ ev.pc \notin Holding => held = FALSE
BY DEF EvalInv, FlightInv, TypeOK

\* A directory left alone stays as good as it was.
LEMMA SameDir ==
  ASSUME EvalInv, ref' = ref, dir' = dir
  PROVE  dir' \in Dir /\ DirInv'
BY DEF EvalInv, TypeOK, DirInv

-----------------------------------------------------------------------------
(* Verification.                                                           *)

\* Begin reads kernel.py, or reports that it could not.
LEMMA BeginKeeps == EvalInv /\ Begin => EvalInv'
<1> SUFFICES ASSUME EvalInv, Begin PROVE EvalInv'
  OBVIOUS
<1>0. /\ TypeOK /\ kernel \in Kernel /\ kernel' = kernel /\ commit' = commit
      /\ ref' = ref /\ step' = step /\ dir' = dir /\ anchor' = anchor
      /\ held' = held /\ edits' = edits /\ step <= MaxStep
  BY DEF Begin, EvalInv, TypeOK
<1>1. held = FALSE
  BY NotHeld DEF Begin, Holding
<1>2. DirInv' /\ AnchorInv'
  BY <1>0 DEF EvalInv, DirInv, AnchorInv
<1>3. CASE ev' = [Idle EXCEPT !.pc = "worker", !.k = kernel] /\ UNCHANGED <<faults, report>>
  <2>1. ev' \in EvRec /\ ev'.pc = "worker" /\ ev'.k = kernel /\ ev'.ok = FALSE
    BY <1>0, <1>3 DEF Idle, EvRec
  <2>2. TypeOK'
    BY <1>0, <1>3, <2>1, Types, TypesNext
  <2>3. FlightInv' /\ ReportInv'
    BY <1>0, <1>1, <1>3, <2>1 DEF EvalInv, FlightInv, ReportInv
  <2> QED BY <1>2, <2>2, <2>3 DEF EvalInv
<1>4. CASE /\ Fault
           /\ ev' = [Idle EXCEPT !.pc = "reported"]
           /\ report' = [NoReport EXCEPT !.out = "infra_fail", !.k = kernel]
  <2>1. ev' \in EvRec /\ ev'.pc = "reported" /\ ev'.ok = FALSE
    BY <1>4 DEF Idle, EvRec
  <2>2. /\ report' \in ReportRec /\ report'.out = "infra_fail" /\ report'.k = kernel
        /\ report'.base = NoBase
    BY <1>0, <1>4, Constants DEF NoReport, ReportRec
  <2>3. TypeOK'
    BY <1>0, <1>4, <2>1, <2>2, FaultType, Types, TypesNext
  <2>4. FlightInv' /\ ReportInv'
    BY <1>0, <1>1, <2>1, <2>2 DEF EvalInv, FlightInv, ReportInv
  <2> QED BY <1>2, <2>3, <2>4 DEF EvalInv
<1> QED BY <1>3, <1>4 DEF Begin

\* The steps before a device is taken: a worker is reserved, a verifier built.
LEMMA PrepareKeeps == EvalInv /\ (AcquireWorker \/ BuildVerifier) => EvalInv'
<1> SUFFICES ASSUME EvalInv, AcquireWorker \/ BuildVerifier PROVE EvalInv'
  OBVIOUS
<1>0. /\ TypeOK /\ ev \in EvRec /\ ev.pc \in {"worker", "build"}
      /\ kernel' = kernel /\ commit' = commit /\ ref' = ref /\ step' = step
      /\ dir' = dir /\ anchor' = anchor /\ edits' = edits /\ held' = held
  BY Types DEF AcquireWorker, BuildVerifier, EvalInv
<1>1. held = FALSE /\ ev.ok = FALSE
  BY <1>0, NotHeld DEF Holding, EvalInv, FlightInv, Verified, EvRec
<1>2. dir' \in Dir /\ DirInv'
  BY <1>0, SameDir
<1>3. CASE /\ faults' = faults /\ report' = report
           /\ \/ ev' = [ev EXCEPT !.pc = "build", !.reserved = TRUE]
              \/ ev' = [ev EXCEPT !.pc = "acquire"]
  <2>1. ev' \in EvRec /\ ev'.pc \in {"build", "acquire"} /\ ev'.k = ev.k /\ ev'.ok = FALSE
    BY <1>0, <1>1, <1>3 DEF EvRec
  <2>2. FlightInv'
    BY <1>0, <1>1, <2>1 DEF EvalInv, FlightInv
  <2> QED BY <1>0, <1>1, <1>2, <1>3, <2>1, <2>2, MoveKeeps, Types
<1>4. CASE Fault /\ (InfraFail \/ Raised(TRUE))
  <2>1. Ended(FALSE)
    BY <1>0, <1>4, InfraEnds
  <2> QED BY <1>0, <1>1, <1>2, <1>4, <2>1, FaultType, EndKeeps
<1> QED BY <1>3, <1>4 DEF AcquireWorker, BuildVerifier, Reserve, VerifierRefuses

\* Taking the device of the verify.
LEMMA AcquireForVerifyKeeps == EvalInv /\ AcquireForVerify => EvalInv'
<1> SUFFICES ASSUME EvalInv, AcquireForVerify PROVE EvalInv'
  OBVIOUS
<1>0. /\ TypeOK /\ ev \in EvRec /\ ev.pc = "acquire"
      /\ kernel' = kernel /\ commit' = commit /\ ref' = ref /\ step' = step
      /\ dir' = dir /\ anchor' = anchor /\ edits' = edits
  BY Types DEF AcquireForVerify, EvalInv
<1>1. held = FALSE /\ ev.ok = FALSE
  BY <1>0, NotHeld DEF Holding, EvalInv, FlightInv, Verified, EvRec
<1>2. dir' \in Dir /\ DirInv'
  BY <1>0, SameDir
<1>3. CASE /\ UNCHANGED <<faults, report>>
           /\ \/ ev' = [ev EXCEPT !.pc = "judge"] /\ held' = held
              \/ ev' = [ev EXCEPT !.pc = "generate"] /\ held' = TRUE
  <2>1. /\ ev' \in EvRec /\ ev'.pc \in {"judge", "generate"} /\ ev'.k = ev.k
        /\ ev'.ok = FALSE /\ held' \in BOOLEAN /\ (held' => ev'.pc = "generate")
    BY <1>0, <1>1, <1>3 DEF EvRec
  <2>2. FlightInv'
    BY <1>0, <1>1, <2>1 DEF EvalInv, FlightInv, Holding
  <2> QED BY <1>0, <1>1, <1>2, <1>3, <2>1, <2>2, MoveKeeps, Types
<1>4. CASE Fault /\ Raised(FALSE) /\ held' = held
  <2>1. Ended(FALSE)
    BY <1>0, <1>4, InfraEnds
  <2> QED BY <1>0, <1>1, <1>2, <1>4, <2>1, FaultType, EndKeeps
<1> QED BY <1>3, <1>4 DEF AcquireForVerify

\* Generating the project of k, wholly or in part, leaves a directory whose
\* reference is a copy of the present one, or the old directory.
LEMMA GeneratedDir ==
  ASSUME EvalInv, ref' = ref, NEW k \in Kernel,
         dir' \in {GenVerifyProject(dir, k)} \cup GenStopped(dir, k)
  PROVE  /\ dir' \in Dir /\ DirInv'
         /\ dir' = GenVerifyProject(dir, k) => dir'.impl = k /\ dir'.script
<1>1. dir \in Dir /\ ref \in {"ok", "broken"}
  BY DEF EvalInv, TypeOK
<1>2. CASE dir' = dir
  BY <1>1, <1>2 DEF EvalInv, DirInv, GenVerifyProject, MaterializeBundle, Dir
<1>3. CASE \/ dir' = GenVerifyProject(dir, k)
           \/ dir' = MaterializeBundle(dir)
           \/ dir' = [MaterializeBundle(dir) EXCEPT !.impl = k]
  <2>1. dir' \in Dir /\ dir'.ref = ref
    BY <1>1, <1>3 DEF GenVerifyProject, MaterializeBundle, Dir
  <2>2. dir' = GenVerifyProject(dir, k) => dir'.impl = k /\ dir'.script
    BY <1>1 DEF GenVerifyProject, MaterializeBundle, Dir
  <2> QED BY <1>1, <2>1, <2>2 DEF DirInv
<1> QED BY <1>2, <1>3 DEF GenStopped

\* Generate writes the project of the code handed in, or fails and says so.
LEMMA GenerateKeeps == EvalInv /\ Generate => EvalInv'
<1> SUFFICES ASSUME EvalInv, Generate PROVE EvalInv'
  OBVIOUS
<1>0. /\ TypeOK /\ ev \in EvRec /\ ev.pc = "generate"
      /\ kernel' = kernel /\ commit' = commit /\ ref' = ref /\ step' = step
      /\ anchor' = anchor /\ edits' = edits /\ held' = held /\ report' = report
  BY Types DEF Generate, EvalInv
<1>1. ev.k = kernel /\ ev.k \in Kernel /\ ev.ok = FALSE /\ held \in BOOLEAN
  BY <1>0 DEF EvalInv, FlightInv, Verified, EvRec, TypeOK
<1>2. /\ dir' \in Dir /\ DirInv'
      /\ dir' = GenVerifyProject(dir, ev.k) => dir'.impl = ev.k
  BY <1>0, <1>1, GeneratedDir DEF Generate
<1>3. /\ ev' \in EvRec /\ ev'.pc = "script" /\ ev'.k = ev.k /\ ev'.ok = FALSE
      /\ ev'.genok => dir' = GenVerifyProject(dir, ev.k)
      /\ faults' \in 0..MaxFaults
  BY <1>0, <1>1, FaultType, Types DEF Generate, EvRec
<1>4. FlightInv'
  BY <1>0, <1>1, <1>2, <1>3 DEF EvalInv, FlightInv, Holding
<1> QED BY <1>0, <1>1, <1>2, <1>3, <1>4, MoveKeeps

\* The per-config mode passes only with the project of what it passed.
LEMMA VerifyConfigsKeeps == EvalInv /\ VerifyConfigsSeparately => EvalInv'
<1> SUFFICES ASSUME EvalInv, VerifyConfigsSeparately PROVE EvalInv'
  OBVIOUS
<1>0. /\ TypeOK /\ ev \in EvRec /\ ev.pc = "generate" /\ ev.k.q = "tuned"
      /\ kernel' = kernel /\ commit' = commit /\ ref' = ref /\ step' = step
      /\ anchor' = anchor /\ edits' = edits /\ held' = FALSE /\ report' = report
  BY Types DEF VerifyConfigsSeparately, EvalInv
<1>1. ev.k = kernel /\ ev.k \in Kernel /\ ev.ok = FALSE
  BY <1>0 DEF EvalInv, FlightInv, Verified, EvRec, TypeOK
<1>2. PICK final \in {[ev.k EXCEPT !.q = "good"], ev.k}, ok \in BOOLEAN :
         \/ /\ dir' = GenVerifyProject(dir, final)
            /\ ev' = [ev EXCEPT !.pc = "judge", !.ok = ok, !.ran = final]
            /\ UNCHANGED faults
         \/ /\ Fault
            /\ dir' \in GenStopped(dir, final)
            /\ ev' = [ev EXCEPT !.pc = "judge", !.genok = FALSE]
  <2>1. PICK res \in [1..Configs -> {"pass", "fail", "timeout"}], whole \in BOOLEAN :
          LET n == Cardinality(Passed(res))
              final == IF n > 0 THEN [ev.k EXCEPT !.q = "good"] ELSE ev.k
          IN  \/ /\ dir' = GenVerifyProject(dir, final)
                 /\ ev' = [ev EXCEPT !.pc = "judge", !.ok = n > 0 /\ whole, !.ran = final]
                 /\ UNCHANGED faults
              \/ /\ Fault
                 /\ dir' \in GenStopped(dir, final)
                 /\ ev' = [ev EXCEPT !.pc = "judge", !.genok = FALSE]
    BY DEF VerifyConfigsSeparately
  <2> DEFINE n == Cardinality(Passed(res))
             f == IF n > 0 THEN [ev.k EXCEPT !.q = "good"] ELSE ev.k
             o == n > 0 /\ whole
  <2>2. f \in {[ev.k EXCEPT !.q = "good"], ev.k} /\ o \in BOOLEAN
    OBVIOUS
  <2>3. \/ /\ dir' = GenVerifyProject(dir, f)
           /\ ev' = [ev EXCEPT !.pc = "judge", !.ok = o, !.ran = f]
           /\ UNCHANGED faults
        \/ /\ Fault
           /\ dir' \in GenStopped(dir, f)
           /\ ev' = [ev EXCEPT !.pc = "judge", !.genok = FALSE]
    BY <2>1
  <2> HIDE DEF n, f, o
  <2> QED BY <2>2, <2>3
<1>3. final \in Kernel /\ final.id = ev.k.id
  BY <1>1, <1>2 DEF Kernel, Qualities
<1>4. /\ dir' \in Dir /\ DirInv'
      /\ dir' = GenVerifyProject(dir, final) => dir'.impl = final /\ dir'.script
  BY <1>0, <1>2, <1>3, GeneratedDir
<1>5. /\ ev' \in EvRec /\ ev'.pc = "judge" /\ ev'.k = ev.k
      /\ ev'.ok => dir' = GenVerifyProject(dir, final) /\ ev'.ran = final
      /\ faults' \in 0..MaxFaults
  BY <1>0, <1>1, <1>2, <1>3, FaultType, Types DEF EvRec
<1>6. FlightInv'
  BY <1>0, <1>1, <1>3, <1>4, <1>5 DEF EvalInv, FlightInv, Verified, Passing
<1> QED BY <1>0, <1>4, <1>5, <1>6, MoveKeeps

\* A script that passed ran the directory's code against a working copy of the
\* reference, and that code passes.
LEMMA WorkerVerifyRight ==
  ASSUME dir \in Dir
  PROVE  LET res == WorkerVerify(dir) IN
           /\ res.ok \in BOOLEAN /\ res.ran \in Kernel \cup {None}
           /\ res.side \in Sidecar \cup {None}
           /\ res.ok => /\ dir.script /\ dir.impl \in Kernel /\ res.ran = dir.impl
                        /\ dir.impl.q \in Passing
<1>1. CASE ~dir.script \/ dir.impl = None
  BY <1>1 DEF WorkerVerify
<1>2. CASE dir.script /\ dir.impl # None /\ ScriptCrashes(dir.impl)
  BY <1>2 DEF WorkerVerify, Dir
<1>3. CASE dir.script /\ dir.impl # None /\ ~ScriptCrashes(dir.impl)
  <2>1. dir.impl \in Kernel
    BY <1>3 DEF Dir
  <2> DEFINE side == ScriptSidecar(dir.impl, dir.ref)
  <2>2. side \in Sidecar /\ (side.src = "none" => dir.impl.q \in {"good", "slow"})
    BY <2>1 DEF ScriptSidecar, Sidecar
  <2>3. WorkerVerify(dir) = [ok |-> side.src = "none", ran |-> dir.impl, side |-> side]
    BY <1>3 DEF WorkerVerify
  <2> DEFINE res == WorkerVerify(dir)
  <2>4. res.ok = (side.src = "none") /\ res.ran = dir.impl /\ res.side = side
    BY <2>3
  <2> HIDE DEF side, res
  <2>5. res.ok \in BOOLEAN /\ (res.ok => dir.impl.q \in Passing)
    BY <2>2, <2>4 DEF Passing
  <2>6. res.ran \in Kernel \cup {None} /\ res.side \in Sidecar \cup {None}
    BY <2>1, <2>2, <2>4
  <2> QED BY <1>3, <2>1, <2>4, <2>5, <2>6 DEF res
<1> QED BY <1>1, <1>2, <1>3 DEF Dir

\* Running the verify script.
LEMMA RunVerifyKeeps == EvalInv /\ RunVerify => EvalInv'
<1> SUFFICES ASSUME EvalInv, RunVerify PROVE EvalInv'
  OBVIOUS
<1>0. /\ TypeOK /\ ev \in EvRec /\ ev.pc = "script" /\ dir \in Dir
      /\ kernel' = kernel /\ commit' = commit /\ ref' = ref /\ step' = step
      /\ anchor' = anchor /\ edits' = edits /\ held' = held /\ report' = report
  BY Types DEF RunVerify, EvalInv
<1>1. /\ ev.k = kernel /\ ev.ok = FALSE /\ held \in BOOLEAN
      /\ ev.genok => dir.impl = ev.k
  BY <1>0 DEF EvalInv, FlightInv, Verified, EvRec, TypeOK
<1> DEFINE res == WorkerVerify(dir)
<1>2. /\ res.ok \in BOOLEAN /\ res.ran \in Kernel \cup {None}
      /\ res.side \in Sidecar \cup {None}
      /\ res.ok => /\ dir.script /\ dir.impl \in Kernel /\ res.ran = dir.impl
                   /\ dir.impl.q \in Passing
  BY <1>0, WorkerVerifyRight
<1>3. dir' = dir \/ dir' = SyncArtifacts(dir, res.side)
  BY DEF RunVerify
<1>4. \/ ev' = [ev EXCEPT !.pc = "conclude", !.lost = TRUE]
      \/ ev' = [ev EXCEPT !.pc = "conclude", !.ran = res.ran, !.ok = res.ok]
  BY DEF RunVerify
<1>5. faults' \in 0..MaxFaults
  BY <1>0, FaultType, Types DEF RunVerify
<1> HIDE DEF res
<1>6. /\ dir' \in Dir /\ dir'.ref = dir.ref /\ dir'.impl = dir.impl
      /\ dir'.script = dir.script
  BY <1>0, <1>2, <1>3 DEF SyncArtifacts, Dir
<1>7. /\ ev' \in EvRec /\ ev'.pc = "conclude" /\ ev'.k = ev.k /\ ev'.genok = ev.genok
      /\ ev'.ok => res.ok /\ ev'.ran = res.ran
  BY <1>0, <1>1, <1>2, <1>4 DEF EvRec
<1>8. DirInv'
  BY <1>0, <1>6 DEF EvalInv, DirInv
<1>9. FlightInv'
  BY <1>0, <1>1, <1>2, <1>6, <1>7 DEF EvalInv, FlightInv, Verified, Holding
<1> QED BY <1>0, <1>1, <1>5, <1>6, <1>7, <1>8, <1>9, MoveKeeps

\* Reading the sidecar, and giving the device back.
LEMMA ConcludeVerifyKeeps == EvalInv /\ ConcludeVerify => EvalInv'
<1> SUFFICES ASSUME EvalInv, ConcludeVerify PROVE EvalInv'
  OBVIOUS
<1>0. /\ TypeOK /\ ev \in EvRec /\ ev.pc = "conclude" /\ dir \in Dir
      /\ kernel' = kernel /\ commit' = commit /\ ref' = ref /\ step' = step
      /\ dir' = dir /\ anchor' = anchor /\ edits' = edits /\ held' = FALSE
      /\ report' = report /\ faults' \in 0..MaxFaults
      /\ ev' = [ev EXCEPT !.pc = "judge", !.side = dir.side]
  BY Types DEF ConcludeVerify, EvalInv
<1>1. /\ ev' \in EvRec /\ ev'.pc = "judge" /\ ev'.k = ev.k /\ ev'.ran = ev.ran
      /\ ev'.ok = ev.ok /\ ev'.genok = ev.genok
  BY <1>0 DEF EvRec, Dir
<1>2. dir' \in Dir /\ DirInv'
  BY <1>0, SameDir
<1>3. FlightInv'
  BY <1>0, <1>1 DEF EvalInv, FlightInv, Verified
<1> QED BY <1>0, <1>1, <1>2, <1>3, MoveKeeps

-----------------------------------------------------------------------------
(* Profiling.                                                              *)

\* No committed baseline stands in at step 0.
LEMMA NothingSticky == EvalInv /\ step = 0 => ~StickyBaseline
BY DEF EvalInv, AnchorInv, StickyBaseline, FingerprintMatch, NoBase

\* What is left to measure after the verify.
LEMMA JudgeKeeps == EvalInv /\ Judge => EvalInv'
<1> SUFFICES ASSUME EvalInv, Judge PROVE EvalInv'
  OBVIOUS
<1>0. /\ TypeOK /\ ev \in EvRec /\ ev.pc = "judge"
      /\ kernel' = kernel /\ commit' = commit /\ ref' = ref /\ step' = step
      /\ dir' = dir /\ anchor' = anchor /\ edits' = edits /\ held' = held
      /\ faults' \in 0..MaxFaults
  BY Types DEF Judge, EvalInv
<1>1. held = FALSE
  BY <1>0, NotHeld DEF Holding
<1>2. dir' \in Dir /\ DirInv'
  BY <1>0, SameDir
<1>3. CASE ev' = [ev EXCEPT !.pc = "profile"] /\ report' = report
  <2>1. /\ ev' \in EvRec /\ ev'.pc = "profile" /\ ev'.k = ev.k /\ ev'.ran = ev.ran
        /\ ev'.ok = ev.ok /\ ev'.genok = ev.genok
    BY <1>0, <1>3 DEF EvRec
  <2>2. FlightInv'
    BY <1>0, <1>1, <2>1 DEF EvalInv, FlightInv, Verified
  <2> QED BY <1>0, <1>1, <1>2, <1>3, <2>1, <2>2, MoveKeeps
<1>4. CASE VerifyFail(NoBase)
  <2>1. Ended(NoBase # NoBase)
    BY <1>0, <1>4, Constants, VerifyFailEnds
  <2>2. Ended(FALSE)
    BY <2>1 DEF Ended
  <2> QED BY <1>0, <1>1, <1>2, <2>2, EndKeeps
<1>5. CASE Finish(Payload("kernel_fail", "kernel", None, NoBase))
  <2> DEFINE r == Payload("kernel_fail", "kernel", None, NoBase)
  <2>1. r \in ReportRec /\ r.out = "kernel_fail" /\ r.base = NoBase /\ r.k = ev.k
    BY <1>0, PayloadType, Constants
  <2>2. report' = r /\ ev' \in EvRec /\ ev'.pc = "reported" /\ ev'.ok = FALSE
    BY <1>5, FinishEnds
  <2> HIDE DEF r
  <2>3. Ended(FALSE)
    BY <2>1, <2>2 DEF Ended
  <2> QED BY <1>0, <1>1, <1>2, <2>3, EndKeeps
<1> QED BY <1>3, <1>4, <1>5 DEF Judge

\* A profile that never ran ends the evaluation without a reference time.
LEMMA NoProfileEnds ==
  ASSUME TypeOK, Conclude(NoProfile)
  PROVE  Ended(FALSE)
<1>0. NoProfile.base = FALSE /\ NoProfile.gen = FALSE
  BY DEF NoProfile
<1>1. CASE ev.ok
  <2>1. InfraFail
    BY <1>0, <1>1 DEF Conclude, MakeOkPayload
  <2> QED BY <2>1, InfraEnds
<1>2. CASE ~ev.ok
  <2>1. VerifyFail(NoBase)
    BY <1>0, <1>2 DEF Conclude
  <2>2. Ended(NoBase # NoBase)
    BY <2>1, Constants, VerifyFailEnds
  <2> QED BY <2>2 DEF Ended
<1> QED BY <1>1, <1>2

\* Taking the device of the profile.
LEMMA AcquireForProfileKeeps == EvalInv /\ AcquireForProfile => EvalInv'
<1> SUFFICES ASSUME EvalInv, AcquireForProfile PROVE EvalInv'
  OBVIOUS
<1>0. /\ TypeOK /\ ev \in EvRec /\ ev.pc = "profile"
      /\ kernel' = kernel /\ commit' = commit /\ ref' = ref /\ step' = step
      /\ dir' = dir /\ anchor' = anchor /\ edits' = edits
  BY Types DEF AcquireForProfile, EvalInv
<1>1. held = FALSE
  BY <1>0, NotHeld DEF Holding
<1>2. dir' \in Dir /\ DirInv'
  BY <1>0, SameDir
<1>3. CASE held' = TRUE /\ ev' = [ev EXCEPT !.pc = "scripts"] /\ UNCHANGED <<faults, report>>
  <2>1. /\ ev' \in EvRec /\ ev'.pc = "scripts" /\ ev'.k = ev.k /\ ev'.ran = ev.ran
        /\ ev'.ok = ev.ok /\ ev'.genok = ev.genok /\ held' \in BOOLEAN
    BY <1>0, <1>3 DEF EvRec
  <2>2. FlightInv'
    BY <1>0, <2>1 DEF EvalInv, FlightInv, Verified, Holding
  <2> QED BY <1>0, <1>2, <1>3, <2>1, <2>2, MoveKeeps, Types
<1>4. CASE Fault /\ Conclude(NoProfile) /\ held' = held
  <2>1. Ended(FALSE)
    BY <1>0, <1>4, NoProfileEnds
  <2> QED BY <1>0, <1>1, <1>2, <1>4, <2>1, FaultType, EndKeeps
<1> QED BY <1>3, <1>4 DEF AcquireForProfile

\* The profile project keeps the code that was verified.
LEMMA ProfileDir ==
  ASSUME EvalInv, ref' = ref, dir' = ProfileProject(dir)
  PROVE  /\ dir' \in Dir /\ DirInv' /\ dir'.ref # "none"
         /\ ev.ok => dir'.impl = dir.impl /\ dir'.script = dir.script
<1>0. dir \in Dir /\ ref \in {"ok", "broken"} /\ ev \in EvRec
  BY Types DEF EvalInv
<1>1. CASE ~ev.ok
  <2>1. dir' = [MaterializeBundle(dir) EXCEPT !.gen = FALSE]
    BY <1>1 DEF ProfileProject
  <2>2. dir' \in Dir /\ dir'.ref = ref
    BY <1>0, <2>1 DEF MaterializeBundle, Dir
  <2> QED BY <1>0, <1>1, <2>2 DEF DirInv
<1>2. CASE ev.ok
  <2>1. dir.impl # None /\ dir.script
    BY <1>2, NoneAssumption DEF EvalInv, FlightInv
  <2>2. dir' = [dir EXCEPT !.gen = TRUE]
    BY <1>2, <2>1 DEF ProfileProject
  <2>3. /\ dir' \in Dir /\ dir'.ref = dir.ref /\ dir'.impl = dir.impl
        /\ dir'.script = dir.script
    BY <1>0, <2>2 DEF Dir
  <2> QED BY <2>1, <2>3 DEF EvalInv, DirInv
<1> QED BY <1>1, <1>2

\* Rendering the profile scripts.
LEMMA GenProfileKeeps == EvalInv /\ GenProfileProject => EvalInv'
<1> SUFFICES ASSUME EvalInv, GenProfileProject PROVE EvalInv'
  OBVIOUS
<1>0. /\ TypeOK /\ ev \in EvRec /\ ev.pc = "scripts" /\ held \in BOOLEAN
      /\ kernel' = kernel /\ commit' = commit /\ ref' = ref /\ step' = step
      /\ anchor' = anchor /\ edits' = edits
  BY Types DEF GenProfileProject, EvalInv
<1>1. CASE /\ dir' = ProfileProject(dir) /\ ev' = [ev EXCEPT !.pc = "timing"]
           /\ UNCHANGED <<held, faults, report>>
  <2>1. /\ ev' \in EvRec /\ ev'.pc = "timing" /\ ev'.k = ev.k /\ ev'.ran = ev.ran
        /\ ev'.ok = ev.ok /\ ev'.genok = ev.genok
    BY <1>0, <1>1 DEF EvRec
  <2>2. /\ dir' \in Dir /\ DirInv' /\ dir'.ref # "none"
        /\ ev.ok => dir'.impl = dir.impl /\ dir'.script = dir.script
    BY <1>0, <1>1, ProfileDir
  <2>3. FlightInv'
    BY <1>0, <1>1, <2>1, <2>2 DEF EvalInv, FlightInv, Verified, Holding
  <2> QED BY <1>0, <1>1, <2>1, <2>2, <2>3, MoveKeeps, Types
<1>2. CASE /\ Fault /\ dir' \in {dir, ProfileProject(dir)} /\ Conclude(NoProfile)
           /\ held' = FALSE
  <2>1. Ended(FALSE)
    BY <1>0, <1>2, NoProfileEnds
  <2>2. dir' \in Dir /\ DirInv'
    BY <1>0, <1>2, SameDir, ProfileDir
  <2> QED BY <1>0, <1>2, <2>1, <2>2, FaultType, EndKeeps
<1> QED BY <1>1, <1>2 DEF GenProfileProject

\* A profile at step 0 has a reference time only from a working reference.
LEMMA WorkerProfileKeeps == EvalInv /\ WorkerProfile => EvalInv'
<1> SUFFICES ASSUME EvalInv, WorkerProfile PROVE EvalInv'
  OBVIOUS
<1>0. /\ TypeOK /\ ev \in EvRec /\ ev.pc = "timing" /\ dir \in Dir
      /\ kernel' = kernel /\ commit' = commit /\ ref' = ref /\ step' = step
      /\ dir' = dir /\ anchor' = anchor /\ edits' = edits /\ held' = FALSE
      /\ faults' \in 0..MaxFaults
  BY FaultType, Types DEF WorkerProfile, EvalInv
<1>1. PICK sec \in Sections : Conclude(ProfileResult(sec))
  BY DEF WorkerProfile
<1> DEFINE res == ProfileResult(sec)
<1>2. sec.base \in BOOLEAN /\ sec.gen \in BOOLEAN
  BY DEF Sections
<1>3. sec.base /\ step = 0 => dir.ref # "broken"
  BY NothingSticky DEF Sections
<1>4. res.base \in BOOLEAN /\ res.gen \in BOOLEAN /\ (res.base => sec.base)
  BY <1>2 DEF ProfileResult, NoProfile
<1>5. Conclude(res)
  BY <1>1
<1> HIDE DEF res
<1>6. Ended(res.base)
  BY <1>0, <1>4, <1>5, ConcludeEnds
<1>7. res.base /\ step = 0 => ref = "ok"
  BY <1>0, <1>3, <1>4 DEF EvalInv, FlightInv, DirInv, Dir
<1>8. dir' \in Dir /\ DirInv'
  BY <1>0, SameDir
<1> QED BY <1>0, <1>4, <1>6, <1>7, <1>8, EndKeeps

-----------------------------------------------------------------------------
(* What is done with the report.                                           *)

\* The baseline is committed only with a reference time.
LEMMA SettleBaselineKeeps == EvalInv /\ SettleBaseline => EvalInv'
<1> SUFFICES ASSUME EvalInv, SettleBaseline PROVE EvalInv'
  OBVIOUS
<1>0. /\ TypeOK /\ ev.pc = "reported" /\ step = 0 /\ ev' = Idle
      /\ kernel' = kernel /\ commit' = commit /\ ref' = ref /\ edits' = edits
      /\ held' = held /\ faults' = faults /\ report' = report
  BY DEF SettleBaseline, EvalInv
<1>1. held = FALSE /\ ev'.pc = "idle" /\ ev'.ok = FALSE
  BY <1>0, NotHeld, Constants DEF Holding
<1>2. FlightInv' /\ ReportInv'
  BY <1>0, <1>1 DEF EvalInv, FlightInv, ReportInv
<1>3. CASE HasReference /\ anchor' = report.base /\ step' = 1 /\ dir' = EmptyDir
  <2>1. report.base # NoBase /\ ref = "ok" /\ report.base \in Base
    BY <1>0, <1>3 DEF HasReference, EvalInv, ReportInv, TypeOK
  <2>2. step' \in 0..(MaxStep + 1)
    BY <1>3, EvalAssumption
  <2>3. TypeOK'
    BY <1>0, <1>3, <2>1, <2>2, Constants, Types, TypesNext
  <2>4. DirInv' /\ AnchorInv'
    BY <1>0, <1>3, <2>1, Constants DEF DirInv, AnchorInv
  <2> QED BY <1>2, <2>3, <2>4 DEF EvalInv
<1>4. CASE UNCHANGED <<anchor, step, dir>>
  <2>1. TypeOK'
    BY <1>0, <1>4, Constants, Types, TypesNext
  <2>2. DirInv' /\ AnchorInv'
    BY <1>0, <1>4 DEF EvalInv, DirInv, AnchorInv
  <2> QED BY <1>2, <2>1, <2>2 DEF EvalInv
<1> QED BY <1>3, <1>4 DEF SettleBaseline

\* A round that is recorded has its own directory and keeps an anchor.
LEMMA SettleRoundKeeps == EvalInv /\ SettleRound => EvalInv'
<1> SUFFICES ASSUME EvalInv, SettleRound PROVE EvalInv'
  OBVIOUS
<1>0. /\ TypeOK /\ ev.pc = "reported" /\ step > 0 /\ ev' = Idle
      /\ ref' = ref /\ edits' = edits /\ held' = held /\ faults' = faults
      /\ report' = report /\ kernel' \in Kernel /\ commit' \in Kernel
  BY DEF SettleRound, KeepOrRollback, EvalInv, TypeOK
<1>1. held = FALSE /\ ev'.pc = "idle" /\ ev'.ok = FALSE
  BY <1>0, NotHeld, Constants DEF Holding
<1>2. FlightInv' /\ ReportInv'
  BY <1>0, <1>1 DEF EvalInv, FlightInv, ReportInv
<1>3. CASE step' = step + 1 /\ dir' = EmptyDir /\ anchor' = RefreshAnchor
  <2>1. step' \in 0..(MaxStep + 1) /\ step' > 0
    BY <1>0, <1>3, EvalAssumption DEF EvalInv, FlightInv, TypeOK
  <2>2. anchor' \in Base /\ anchor' # NoBase
    BY <1>0, <1>3 DEF RefreshAnchor, EvalInv, AnchorInv, TypeOK
  <2>3. TypeOK'
    BY <1>0, <1>3, <2>1, <2>2, Constants, Types, TypesNext
  <2>4. DirInv' /\ AnchorInv'
    BY <1>0, <1>3, <2>1, <2>2, Constants DEF EvalInv, DirInv, AnchorInv
  <2> QED BY <1>2, <2>3, <2>4 DEF EvalInv
<1>4. CASE UNCHANGED <<step, dir, anchor>>
  <2>1. TypeOK'
    BY <1>0, <1>4, Constants, Types, TypesNext
  <2>2. DirInv' /\ AnchorInv'
    BY <1>0, <1>4 DEF EvalInv, DirInv, AnchorInv
  <2> QED BY <1>2, <2>1, <2>2 DEF EvalInv
<1> QED BY <1>3, <1>4 DEF SettleRound

\* An edit happens between evaluations.
LEMMA EditKeeps == EvalInv /\ Edit => EvalInv'
<1> SUFFICES ASSUME EvalInv, Edit PROVE EvalInv'
  OBVIOUS
<1>0. /\ TypeOK /\ ev.pc = "idle" /\ edits' = edits + 1 /\ edits < MaxEdits
      /\ ref' = ref /\ step' = step /\ dir' = dir /\ anchor' = anchor /\ ev' = ev
      /\ held' = held /\ faults' = faults /\ report' = report
  BY DEF Edit, EvalInv
<1>1. edits' \in 0..MaxEdits
  BY <1>0, EvalAssumption DEF TypeOK
<1>2. kernel' \in Kernel /\ commit' \in Kernel
  BY <1>0, <1>1 DEF Edit, Kernel, TypeOK
<1>3. TypeOK'
  BY <1>0, <1>1, <1>2, Types, TypesNext
<1>4. DirInv' /\ AnchorInv' /\ ReportInv'
  BY <1>0 DEF EvalInv, DirInv, AnchorInv, ReportInv
<1>5. FlightInv'
  BY <1>0 DEF EvalInv, FlightInv, Verified, Holding
<1> QED BY <1>3, <1>4, <1>5 DEF EvalInv

\* A repaired reference is better than any copy of it.
LEMMA RepairKeeps == EvalInv /\ RepairReference => EvalInv'
<1> SUFFICES ASSUME EvalInv, RepairReference PROVE EvalInv'
  OBVIOUS
<1>0. /\ TypeOK /\ ev.pc = "idle" /\ step = 0 /\ ref' = "ok"
      /\ kernel' = kernel /\ commit' = commit /\ edits' = edits
      /\ step' = step /\ dir' = dir /\ anchor' = anchor /\ ev' = ev
      /\ held' = held /\ faults' = faults /\ report' = report
  BY DEF RepairReference, EvalInv
<1>1. TypeOK'
  BY <1>0, Types, TypesNext
<1>2. DirInv' /\ AnchorInv' /\ FlightInv' /\ ReportInv'
  BY <1>0 DEF EvalInv, DirInv, AnchorInv, FlightInv, ReportInv
<1> QED BY <1>1, <1>2 DEF EvalInv

\* A kill leaves the directory, and nothing else, behind.
LEMMA KilledKeeps == EvalInv /\ Killed => EvalInv'
<1> SUFFICES ASSUME EvalInv, Killed PROVE EvalInv'
  OBVIOUS
<1>0. /\ TypeOK /\ ev' = Idle /\ held' = FALSE /\ faults' \in 0..MaxFaults
      /\ kernel' = kernel /\ commit' = commit /\ ref' = ref /\ edits' = edits
      /\ step' = step /\ dir' = dir /\ anchor' = anchor /\ report' = report
  BY FaultType DEF Killed, EvalInv
<1>1. TypeOK'
  BY <1>0, Constants, Types, TypesNext
<1>2. DirInv' /\ AnchorInv' /\ FlightInv' /\ ReportInv'
  BY <1>0, Constants DEF EvalInv, DirInv, AnchorInv, FlightInv, ReportInv
<1> QED BY <1>1, <1>2 DEF EvalInv

\* One case per action.
LEMMA NextKeeps == EvalInv /\ [Next]_vars => EvalInv'
<1> SUFFICES ASSUME EvalInv, [Next]_vars PROVE EvalInv'
  OBVIOUS
<1>1. CASE UNCHANGED vars
  <2>1. TypeOK'
    BY <1>1, Types, TypesNext DEF vars, EvalInv
  <2>2. DirInv' /\ AnchorInv' /\ FlightInv' /\ ReportInv'
    BY <1>1 DEF vars, EvalInv, DirInv, AnchorInv, FlightInv, ReportInv
  <2> QED BY <2>1, <2>2 DEF EvalInv
<1>2. CASE Next
  BY <1>2, BeginKeeps, PrepareKeeps, AcquireForVerifyKeeps, GenerateKeeps,
     VerifyConfigsKeeps, RunVerifyKeeps, ConcludeVerifyKeeps, JudgeKeeps,
     AcquireForProfileKeeps, GenProfileKeeps, WorkerProfileKeeps,
     SettleBaselineKeeps, SettleRoundKeeps, EditKeeps, RepairKeeps, KilledKeeps DEF Next
<1> QED BY <1>1, <1>2

-----------------------------------------------------------------------------
(* The theorems.                                                           *)

\* The inductive invariant: what an evaluation in flight knows of the directory it
\* works in, and the report of the reference and of the code.
THEOREM EvalInvariant == Spec => []EvalInv
BY InitInv, NextKeeps, PTL DEF Spec

\* The code that is timed is the code that was verified and, when its project was
\* generated, the code eval_kernel was handed: no retry at the same step, no
\* per-config rewrite, no re-generated project mixes two edits in one verdict.
THEOREM VerdictRight == Spec => []VerdictOfThisCode
<1>1. EvalInv => VerdictOfThisCode
  BY DEF EvalInv, ReportInv, VerdictOfThisCode
<1> QED BY <1>1, EvalInvariant, PTL

\* Whatever the verify, the profile, the worker or a generation raised, the lease of
\* KernelVerifier.run or run_profile is back before the evaluation reports.
THEOREM DevicesBack == Spec => []DeviceReturned
<1>1. EvalInv => DeviceReturned
  BY DEF EvalInv, FlightInv, Holding, DeviceReturned
<1> QED BY <1>1, EvalInvariant, PTL

\* run_baseline_init never leaves BASELINE without a measured, working reference,
\* whatever the verify directory of step 0 still holds.
THEOREM AnchorsFirst == Spec => []AnchorBeforeRounds
<1>1. EvalInv => AnchorBeforeRounds
  BY DEF EvalInv, AnchorInv, AnchorBeforeRounds
<1> QED BY <1>1, EvalInvariant, PTL

\* What record_round commits as the new best passes, unless the project of its own
\* evaluation could not be generated.
THEOREM OnlyPassingKept == Spec => KeptIsCorrect
<1>1. EvalInv /\ [Next]_vars
        => [step > 0 /\ commit' # commit /\ report.genok
              => commit'.q \in {"good", "slow", "tuned"}]_vars
  <2> SUFFICES ASSUME EvalInv, Next, step > 0, commit' # commit, report.genok
               PROVE  commit'.q \in {"good", "slow", "tuned"}
    OBVIOUS
  <2>1. SettleRound
    <3>1. CASE Edit
      BY <3>1 DEF Edit, EvalInv, TypeOK
    <3> QED BY <3>1 DEF Next, Begin, AcquireWorker, BuildVerifier, AcquireForVerify,
               Generate, VerifyConfigsSeparately, RunVerify, ConcludeVerify, Judge,
               AcquireForProfile, GenProfileProject, WorkerProfile, SettleBaseline,
               RepairReference, Killed
  <2>2. report.out = "ok" /\ commit' = kernel /\ ev.pc = "reported"
    BY <2>1 DEF SettleRound, KeepOrRollback
  <2> QED BY <2>2 DEF EvalInv, ReportInv, Passing
<1> QED BY <1>1, EvalInvariant, PTL DEF Spec, KeptIsCorrect

\* Every variable of the evaluation path keeps its type.
THEOREM TypeCorrect == Spec => []TypeOK
<1>1. EvalInv => TypeOK
  BY DEF EvalInv
<1> QED BY <1>1, EvalInvariant, PTL
===============================================================================
