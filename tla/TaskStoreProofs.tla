-------------------------- MODULE TaskStoreProofs --------------------------
(***************************************************************************)
(* Theorems about TaskStore, for every value of its constants.  They rest  *)
(* on two inductive invariants.  IInv is about the files: the heart of it   *)
(* is JournalInv, what the transaction in rec and the one in intent.json    *)
(* have to do with state.json, plan.md and history.jsonl at every place a   *)
(* script may be killed at.  CInv is about Committed, the state.json that   *)
(* the next open_task will see: its phase, budget, pids and metrics add up  *)
(* with plan.md and history.jsonl.  From the two of them follows that       *)
(* TaskStore implements TaskEvents.                                         *)
(***************************************************************************)
EXTENDS TaskStoreRefinement, WellFoundedInduction, SequenceTheorems, TLAPS

-----------------------------------------------------------------------------
(* The inductive invariant *)

\* The fields of state.json agree with each other: before the baseline there
\* is nothing to count, and a round waits for its settlement only in EDIT.
StateInv ==
    /\ ~st.progress_initialized =>
          /\ st.phase \in {"INIT", "BASELINE"}
          /\ st.expected_history_round = 0
          /\ st.expected_plan_version = 0
          /\ st.next_pid = 0
          /\ st.pending_settle = NoPending
    /\ st.pending_settle # NoPending => st.phase = "EDIT"
    /\ st.plan_version = st.expected_plan_version
    /\ st.eval_rounds = st.expected_history_round
    /\ st.plan_version # 0 => st.next_pid # 0

\* A round n with patch p, journalled or about to be, continues state.json.
RoundFits(n, p) ==
    /\ st.progress_initialized /\ st.phase = "EDIT"
    /\ n = st.expected_history_round \/ n = st.expected_history_round + 1
    /\ n # 0
    /\ p.expected_history_round = n /\ p.eval_rounds = n
    /\ p.pending_settle # NoPending
    /\ p.plan_version = st.plan_version /\ p.next_pid = st.next_pid

\* A baseline with patch p starts from a state.json without progress.
BaselineFits(n, p) ==
    /\ n = 0
    /\ st.phase \in {"BASELINE", "PLAN"}
    /\ st.pending_settle = NoPending
    /\ st.expected_history_round = 0 /\ st.expected_plan_version = 0
    /\ st.next_pid = 0
    /\ p.progress_initialized /\ p.phase = "PLAN"
    /\ p.expected_history_round = 0 /\ p.eval_rounds = 0
    /\ p.plan_version = 0 /\ p.next_pid = 0

\* A plan n with patch p continues state.json, and the task is not finished.
PlanFits(n, p) ==
    /\ st.progress_initialized /\ st.phase # "FINISH"
    /\ n = st.expected_plan_version \/ n = st.expected_plan_version + 1
    /\ n # 0
    /\ p.expected_plan_version = n /\ p.plan_version = n
    /\ p.phase = "EDIT" /\ p.pending_settle = NoPending
    /\ p.next_pid # 0 /\ p.next_pid >= st.next_pid

Fits(k, n, p) ==
    /\ k = "round"    => RoundFits(n, p)
    /\ k = "baseline" => BaselineFits(n, p)
    /\ k = "plan"     => PlanFits(n, p)

\* Neither the body nor the state of this transaction is on disk.
NotYet(k, n) ==
    /\ k = "round"    => st.expected_history_round + 1 = n /\ LastRound(hist) # n
    /\ k = "baseline" => ~st.progress_initialized /\ LastRound(hist) = NoRound
    /\ k = "plan"     => st.expected_plan_version + 1 = n /\ plan.version # n

Transacting == pc \in {"intent", "body", "save", "clear"}

JournalInv ==
    /\ Fits(intent.kind, intent.n, intent.patch)
    /\ Transacting =>
          /\ rec.kind # "none"
          /\ Fits(rec.kind, rec.n, rec.patch)
          /\ rec.kind # "plan" => rec.row.round = rec.n
    /\ pc \in {"body", "save", "clear"} =>
          intent = [kind |-> rec.kind, n |-> rec.n, patch |-> rec.patch]
    /\ pc \in {"intent", "body"} => NotYet(rec.kind, rec.n)
    /\ pc \in {"enter", "intent", "settle", "settle_save", "settle_marker"} =>
          intent.kind = "none"
    /\ pc = "save" =>
          /\ rec.kind # "plan" => LastRound(hist) \in {NoRound, rec.n}
          /\ rec.kind = "plan" => plan.version = rec.n
    /\ pc \in {"open_clear", "clear"} => CaughtUp
    /\ pc = "clear" /\ rec.kind = "round" => st.pending_settle # NoPending
    /\ pc \in {"settle", "settle_save"} => st.pending_settle # NoPending

\* An artifact that can be read is at the version state.json expects, or is
\* the body of the journalled transaction.
GapInv ==
    /\ \/ LastRound(hist) \in {NoRound, st.expected_history_round}
       \/ intent.kind = "round" /\ LastRound(hist) = intent.n
    /\ \/ plan.version \in {0, st.expected_plan_version}
       \/ intent.kind = "plan" /\ plan.version = intent.n
    /\ plan.version = 0 => plan.ids = {}

\* A readable row belongs to a committed round, or is the last line and the
\* body of the journalled transaction.
RowsInv ==
    \A i \in DOMAIN hist : hist[i].round # NoRound =>
        \/ st.progress_initialized /\ hist[i].round <= st.expected_history_round
        \/ i = Len(hist) /\ intent.kind = "round" /\ hist[i].round = intent.n
        \/ i = Len(hist) /\ intent.kind = "baseline" /\ hist[i].round = 0

IInv ==
    /\ TypeOK
    /\ StateInv
    /\ JournalInv
    /\ GapInv
    /\ RowsInv
    /\ RoundsRecordedOnce

-----------------------------------------------------------------------------
(* Lemmas about the operators of TaskStore *)

\* A nonempty set of naturals has a least element: FirstOf's choice exists.
LEMMA MinExists ==
    ASSUME NEW S \in SUBSET Nat, S # {}
    PROVE  \E i \in S : \A j \in S : i <= j
<1>1. PICK i \in S : \A j \in S : ~ (<<j, i>> \in OpToRel(<, Nat))
  BY WFMin, NatLessThanWellFounded
<1>2. \A j \in S : i <= j
  <2> TAKE j \in S
  <2>1. j \in Nat /\ i \in Nat
    OBVIOUS
  <2>2. ASSUME j < i PROVE FALSE
    BY <1>1, <2>1, <2>2 DEF OpToRel
  <2> QED BY <2>1, <2>2
<1> QED BY <1>2

\* FirstOf picks an item of the set, or 0 when there is none.
LEMMA FirstOfType ==
    ASSUME NEW S \in SUBSET Nat
    PROVE  FirstOf(S) \in Nat /\ (S # {} => FirstOf(S) \in S)
BY MinExists DEF FirstOf

\* A patch applied to a well-formed state.json gives a well-formed one.
LEMMA ApplyPatchType ==
    ASSUME NEW k \in Kinds, NEW s \in State, NEW p \in State
    PROVE  ApplyPatch(k, s, p) \in State
<1>1. CASE k = "round"     BY <1>1 DEF ApplyPatch, State
<1>2. CASE k = "baseline"  BY <1>2 DEF ApplyPatch, State
<1>3. CASE k = "plan"      BY <1>3 DEF ApplyPatch, State
<1>4. CASE k = "none"      BY <1>4 DEF ApplyPatch
<1> QED BY <1>1, <1>2, <1>3, <1>4 DEF Kinds

\* append_history after a whole line: a new last line, the others stay.
LEMMA AppendWhole ==
    ASSUME NEW h \in Seq(Line), NEW row \in Line
    PROVE  /\ AppendLine(h, FALSE, row) \in Seq(Line)
           /\ LastRound(AppendLine(h, FALSE, row)) = row.round
           /\ Len(AppendLine(h, FALSE, row)) = Len(h) + 1
           /\ AppendLine(h, FALSE, row)[Len(h) + 1] = row
           /\ \A i \in DOMAIN AppendLine(h, FALSE, row) :
                 i # Len(h) + 1 => i \in DOMAIN h /\ AppendLine(h, FALSE, row)[i] = h[i]
<1> DEFINE g == Append(h, row)
<1>1. AppendLine(h, FALSE, row) = g  BY DEF AppendLine
<1>2. /\ g \in Seq(Line) /\ Len(g) = Len(h) + 1 /\ g[Len(h) + 1] = row
      /\ \A i \in 1 .. Len(h) : g[i] = h[i]
  BY AppendProperties
<1>3. DOMAIN g = 1 .. Len(h) + 1 /\ DOMAIN h = 1 .. Len(h) /\ Len(h) \in Nat
  BY <1>2
<1>4. LastRound(g) = row.round
  BY <1>2, <1>3 DEF LastRound
<1> HIDE DEF g
<1>5. \A i \in DOMAIN g : i # Len(h) + 1 => i \in DOMAIN h /\ g[i] = h[i]
  BY <1>2, <1>3
<1> QED BY <1>1, <1>2, <1>4, <1>5

\* append_history after a torn line: that line is spoilt, the others stay.
LEMMA AppendTorn ==
    ASSUME NEW h \in Seq(Line), NEW row \in Line
    PROVE  /\ AppendLine(h, TRUE, row) \in Seq(Line)
           /\ LastRound(AppendLine(h, TRUE, row)) = NoRound
           /\ \A i \in DOMAIN AppendLine(h, TRUE, row) :
                 i \in DOMAIN h /\ AppendLine(h, TRUE, row)[i] \in {h[i], Garbage}
<1>1. Garbage \in Line  BY DEF Garbage, Line, NoRound, NoMetric
<1>2. AppendLine(h, TRUE, row) = [h EXCEPT ![Len(h)] = Garbage]
  BY DEF AppendLine
<1>3. CASE h = <<>>
  <2>1. Len(h) = 0 /\ [h EXCEPT ![Len(h)] = Garbage] = h  BY <1>3
  <2> QED BY <1>2, <1>3, <2>1 DEF LastRound
<1>4. CASE h # <<>>
  <2>1. Len(h) \in 1 .. Len(h) /\ DOMAIN h = 1 .. Len(h)  BY <1>4
  <2>2. /\ [h EXCEPT ![Len(h)] = Garbage] \in Seq(Line)
        /\ Len([h EXCEPT ![Len(h)] = Garbage]) = Len(h)
    BY <1>1, <2>1, ExceptSeq
  <2>3. [h EXCEPT ![Len(h)] = Garbage] # <<>>
    BY <2>1, <2>2
  <2>4. LastRound([h EXCEPT ![Len(h)] = Garbage]) = NoRound
    BY <2>1, <2>2, <2>3 DEF LastRound, Garbage
  <2> QED BY <1>2, <2>1, <2>2, <2>4
<1> QED BY <1>3, <1>4

\* Either way the file holds lines.
LEMMA AppendType ==
    ASSUME NEW h \in Seq(Line), NEW c \in BOOLEAN, NEW row \in Line
    PROVE  AppendLine(h, c, row) \in Seq(Line)
<1>1. CASE c = TRUE   BY <1>1, AppendTorn
<1>2. CASE c = FALSE  BY <1>2, AppendWhole
<1> QED BY <1>1, <1>2

\* The round of a row that parses is a number.
LEMMA RowRound ==
    ASSUME NEW h \in Seq(Line), NEW i \in DOMAIN h, h[i].round # NoRound
    PROVE  h[i].round \in Nat
<1>1. h[i] \in Line  OBVIOUS
<1> QED BY <1>1 DEF Line

\* What each kind of patch writes, in the fields the invariant is about.
LEMMA ApplyPatchFields ==
    ASSUME NEW k \in Kinds, NEW s \in State, NEW p \in State
    PROVE  LET t == ApplyPatch(k, s, p) IN
           /\ k = "none" => t = s
           /\ k = "round" =>
                 /\ t.phase = s.phase
                 /\ t.progress_initialized = s.progress_initialized
                 /\ t.pending_settle = p.pending_settle
                 /\ t.expected_history_round = p.expected_history_round
                 /\ t.eval_rounds = p.eval_rounds
                 /\ t.expected_plan_version = s.expected_plan_version
                 /\ t.plan_version = p.plan_version /\ t.next_pid = p.next_pid
           /\ k = "baseline" =>
                 /\ t.phase = p.phase
                 /\ t.progress_initialized = p.progress_initialized
                 /\ t.pending_settle = s.pending_settle
                 /\ t.expected_history_round = p.expected_history_round
                 /\ t.eval_rounds = p.eval_rounds
                 /\ t.expected_plan_version = s.expected_plan_version
                 /\ t.plan_version = p.plan_version /\ t.next_pid = p.next_pid
           /\ k = "plan" =>
                 /\ t.phase = p.phase
                 /\ t.progress_initialized = s.progress_initialized
                 /\ t.pending_settle = p.pending_settle
                 /\ t.expected_history_round = s.expected_history_round
                 /\ t.eval_rounds = s.eval_rounds
                 /\ t.expected_plan_version = p.expected_plan_version
                 /\ t.plan_version = p.plan_version /\ t.next_pid = p.next_pid
<1>1. CASE k = "round"     BY <1>1 DEF ApplyPatch, State
<1>2. CASE k = "baseline"  BY <1>2 DEF ApplyPatch, State
<1>3. CASE k = "plan"      BY <1>3 DEF ApplyPatch, State
<1>4. CASE k = "none"      BY <1>4 DEF ApplyPatch
<1> QED BY <1>1, <1>2, <1>3, <1>4 DEF Kinds

-----------------------------------------------------------------------------
(* The invariant holds initially *)

\* The defaults state.json, the journal and the script start from have their
\* types.
LEMMA DefaultTypes ==
    /\ NoPending \in Pending /\ Garbage \in Line
    /\ FreshState \in State /\ NoPlan \in Plan
    /\ NoIntent \in [kind : Kinds, n : Nat, patch : State]
    /\ NoRec \in [kind : Kinds, n : Nat, patch : State, row : Line, ids : SUBSET Nat]
<1>1. NoPending \in Pending  BY DEF Pending
<1>2. Garbage \in Line  BY DEF Garbage, Line, NoRound, NoMetric
<1>3. FreshState \in State
  BY <1>1 DEF FreshState, State, Phases, NoMetric, NoCommit
<1>4. NoPlan \in Plan  BY DEF NoPlan, Plan
<1>5. NoIntent \in [kind : Kinds, n : Nat, patch : State]
  BY <1>3 DEF NoIntent, Kinds
<1>6. NoRec \in [kind : Kinds, n : Nat, patch : State, row : Line, ids : SUBSET Nat]
  BY <1>2, <1>3 DEF NoRec, Kinds
<1> QED BY <1>1, <1>2, <1>3, <1>4, <1>5, <1>6

\* A freshly scaffolded task directory satisfies the first invariant.
LEMMA InitInv == Init => IInv
<1> SUFFICES ASSUME Init PROVE IInv
  OBVIOUS
<1> USE DEF Init
<1>1. TypeOK
  <2>1. cut \in BOOLEAN /\ marker \in BOOLEAN /\ dirty \in BOOLEAN
    OBVIOUS
  <2>2. hist \in Seq(Line) /\ head \in Nat /\ crashes \in Nat
    OBVIOUS
  <2>3. measured \subseteq Nat \X Metrics
    OBVIOUS
  <2>4. pc \in Locations /\ cmd \in Commands \cup {"none"}
    BY DEF Locations
  <2> QED BY DefaultTypes, <2>1, <2>2, <2>3, <2>4 DEF TypeOK
<1>2. StateInv
  BY DEF StateInv, FreshState
<1>3. JournalInv
  BY DEF JournalInv, NoIntent, Fits, Transacting
<1>4. GapInv
  BY DEF GapInv, LastRound, NoPlan
<1>5. RowsInv /\ RoundsRecordedOnce
  BY DEF RowsInv, RoundsRecordedOnce
<1> QED BY <1>1, <1>2, <1>3, <1>4, <1>5 DEF IInv

-----------------------------------------------------------------------------
(* Types are preserved *)

\* The fields of a well-formed state.json.
LEMMA StateFacts ==
    ASSUME NEW s \in State
    PROVE  /\ s.phase \in Phases /\ s.progress_initialized \in BOOLEAN
           /\ s.pending_settle \in Pending
           /\ s.expected_plan_version \in Nat /\ s.expected_history_round \in Nat
           /\ s.eval_rounds \in Nat /\ s.consecutive_failures \in Nat
           /\ s.plan_version \in Nat /\ s.next_pid \in Nat
BY DEF State

\* A change of phase, with or without the settlement, keeps the type.
LEMMA PhaseSaved ==
    ASSUME NEW s \in State, NEW ph \in Phases
    PROVE  /\ [s EXCEPT !.phase = ph] \in State
           /\ [s EXCEPT !.phase = ph, !.pending_settle = NoPending] \in State
BY DefaultTypes DEF State

\* The patch of the baseline has its type.
LEMMA BaselinePatchType ==
    ASSUME st \in State, head \in Nat, NEW m \in Metrics \cup {NoMetric}
    PROVE  BaselinePatch(m) \in State
<1>1. "PLAN" \in Phases  BY DEF Phases
<1>2. (IF m = NoMetric THEN NoCommit ELSE head) \in Nat \cup {NoCommit}  OBVIOUS
<1>3. (m # NoMetric) \in BOOLEAN  OBVIOUS
<1> QED BY <1>1, <1>2, <1>3 DEF BaselinePatch, State


\* The patch of a plan has its type.
LEMMA PlanPatchType ==
    ASSUME st \in State, NEW next \in Nat
    PROVE  PlanPatch(next) \in State
<1>1. "EDIT" \in Phases /\ NoPending \in Pending  BY DefaultTypes DEF Phases
<1>2. st.plan_version \in Nat /\ st.consecutive_failures \in Nat  BY StateFacts
<1> DEFINE v == st.plan_version + 1
           f == IF st.phase = "DIAGNOSE" THEN 0 ELSE st.consecutive_failures
<1>3. v \in Nat /\ f \in Nat  BY <1>2
<1>4. PlanPatch(next) = [st EXCEPT !.plan_version = v, !.next_pid = next,
                                   !.consecutive_failures = f, !.phase = "EDIT",
                                   !.pending_settle = NoPending,
                                   !.expected_plan_version = v]
  BY DEF PlanPatch
<1> HIDE DEF v, f
<1> QED BY <1>1, <1>3, <1>4 DEF State

\* A round's transaction record has its type.
LEMMA RoundRecType ==
    ASSUME TypeOK, NEW s \in State, NEW decision \in Decisions,
           NEW cur \in Metrics \cup {NoMetric}
    PROVE  RoundRec(s, decision, cur) \in
             [kind : Kinds, n : Nat, patch : State, row : Line, ids : SUBSET Nat]
<1>1. NextRound \in Nat /\ plan.active \in Nat
  <2>1. st \in State /\ plan \in Plan  BY DEF TypeOK
  <2>2. st.eval_rounds \in Nat  BY <2>1, StateFacts
  <2>3. plan.active \in Nat  BY <2>1 DEF Plan
  <2> QED BY <2>2, <2>3 DEF NextRound
<1>2. [item |-> plan.active, decision |-> decision, round |-> NextRound] \in Pending
  BY <1>1 DEF Pending
<1>3. [s EXCEPT !.eval_rounds = NextRound, !.expected_history_round = NextRound,
                !.pending_settle = [item |-> plan.active, decision |-> decision,
                                    round |-> NextRound]] \in State
  BY <1>1, <1>2 DEF State
<1>4. [round |-> NextRound, decision |-> decision, item |-> plan.active,
       metric |-> cur] \in Line
  BY <1>1 DEF Line
<1> QED BY <1>1, <1>3, <1>4 DEF RoundRec, Kinds

\* The decision on a measurement, and the progress after it.
LEMMA DecideType ==
    ASSUME TypeOK, NEW cur \in Metrics \cup {NoMetric}
    PROVE  Decide(cur) \in Decisions
BY DEF Decide, Decisions

\* Progress after a round that is not kept is a state.json.
LEMMA NotKeptType ==
    ASSUME TypeOK, NEW decision
    PROVE  NotKept(decision) \in State
<1>1. st \in State  BY DEF TypeOK
<1>2. st.consecutive_failures \in Nat  BY <1>1, StateFacts
<1> QED BY <1>1, <1>2 DEF State, NotKept

\* Progress after a round that is kept is a state.json.
LEMMA KeptType ==
    ASSUME TypeOK, NEW cur \in Metrics, NEW c \in Nat
    PROVE  Kept(cur, c) \in State
BY DEF TypeOK, State, Kept

\* The phases that activation, a round and a settlement move to are phases.
LEMMA PhaseTypes ==
    ASSUME TypeOK
    PROVE  PhaseAfterRound \in Phases /\ PhaseOnResume \in Phases
           /\ ActivateTarget \in Phases
<1>1. PhaseAfterRound \in Phases  BY DEF PhaseAfterRound, Phases
<1>2. PhaseOnResume \in Phases  BY DEF PhaseOnResume, Phases
<1>3. ActivateTarget \in Phases
  BY <1>2 DEF ActivateTarget, TypeOK, State, Phases
<1> QED BY <1>1, <1>2, <1>3

\* When create_plan.py runs, plan.md lists pids only if the counter is saved.
LEMMA NextPidType ==
    ASSUME IInv, pc = "enter"
    PROVE  ComputeNextPid \in Nat \ {0} /\ ComputeNextPid >= st.next_pid
<1>1. intent.kind = "none"  BY DEF IInv, JournalInv
<1>2. st.next_pid \in Nat  BY DEF IInv, TypeOK, State
<1>3. CASE st.next_pid = 0
  <2>1. plan.ids = {}
    BY <1>1, <1>3 DEF IInv, GapInv, StateInv
  <2> QED BY <2>1, <1>3 DEF ComputeNextPid
<1>4. CASE st.next_pid # 0
  BY <1>2, <1>4 DEF ComputeNextPid
<1> QED BY <1>3, <1>4

\* Every step of a script keeps the types.
LEMMA TypeStep ==
    ASSUME IInv, [Next]_vars
    PROVE  TypeOK'
<1> TypeOK
  BY DEF IInv
<1> USE DEF TypeOK, files, git, proc
<1>1. CASE \E c \in Commands : Invoke(c)
  BY <1>1 DEF Invoke, Locations
<1>2. CASE ReplayRebuild
  BY <1>2, ApplyPatchType DEF ReplayRebuild, Locations
<1>3. CASE ReplayClear
  BY <1>3, DefaultTypes DEF ReplayClear, Locations
<1>4. CASE ReplayDrop
  BY <1>4, DefaultTypes DEF ReplayDrop, Locations
<1>5. CASE Refuse
  BY <1>5, DefaultTypes DEF Refuse, Done, Locations
<1>6. CASE BaselineAlreadyDone
  BY <1>6, DefaultTypes, PhaseSaved, PhaseTypes
     DEF BaselineAlreadyDone, Done, Locations
<1>7. CASE BaselineUnavailable
  BY <1>7, DefaultTypes, PhaseSaved DEF BaselineUnavailable, Done, Locations, Phases
<1>8. CASE PipelineReplay
  BY <1>8 DEF PipelineReplay, Locations
<1>9. CASE PipelineReject
  BY <1>9, DefaultTypes DEF PipelineReject, Done, Rollback, Locations
<1>10. CASE PlanRejected
  BY <1>10, DefaultTypes DEF PlanRejected, Done, Locations
<1>11. CASE Resume
  BY <1>11, DefaultTypes DEF Resume, CleanStaleMarker, Done, Locations
<1>12. CASE Activate
  <2>1. marker' \in BOOLEAN
    BY <1>12 DEF Activate, CleanStaleMarker, IsWorkingTreeClean
  <2>2. st' \in State
    BY <1>12, PhaseSaved, PhaseTypes DEF Activate
  <2> QED BY <1>12, <2>1, <2>2, DefaultTypes DEF Activate, Done, Locations
<1>13. CASE \E m \in Metrics \cup {NoMetric} : RecordBaseline(m)
  <2>1. PICK m \in Metrics \cup {NoMetric} : RecordBaseline(m)  BY <1>13
  <2>2. BaselinePatch(m) \in State
    BY BaselinePatchType
  <2>3. [round |-> 0, decision |-> "SEED", item |-> 0, metric |-> m] \in Line
    BY DEF Line
  <2>4. rec' \in [kind : Kinds, n : Nat, patch : State, row : Line, ids : SUBSET Nat]
    BY <2>1, <2>2, <2>3 DEF RecordBaseline, Start, Kinds
  <2>5. measured' \subseteq Nat \X Metrics
    BY <2>1 DEF RecordBaseline
  <2> QED BY <2>1, <2>4, <2>5 DEF RecordBaseline, Start, Locations
<1>14. CASE \E m \in Metrics, noop \in BOOLEAN : RoundKeep(m, noop)
  <2>1. PICK m \in Metrics, noop \in BOOLEAN : RoundKeep(m, noop)  BY <1>14
  <2>2. head' \in Nat  BY <2>1 DEF RoundKeep
  <2>3. measured' \subseteq Nat \X Metrics  BY <2>1, <2>2 DEF RoundKeep
  <2>4. rec' \in [kind : Kinds, n : Nat, patch : State, row : Line, ids : SUBSET Nat]
    BY <2>1, <2>2, RoundRecType, KeptType DEF RoundKeep, Start, Decisions
  <2> QED BY <2>1, <2>2, <2>3, <2>4 DEF RoundKeep, Start, Locations
<1>15. CASE \E m \in Metrics \cup {NoMetric}, fails \in BOOLEAN : RoundRollback(m, fails)
  <2>1. PICK m \in Metrics \cup {NoMetric}, fails \in BOOLEAN : RoundRollback(m, fails)
    BY <1>15
  <2> DEFINE decision == IF fails THEN "FAIL" ELSE Decide(m)
  <2>2. decision \in Decisions
    BY DecideType DEF Decisions
  <2>3. rec' = RoundRec(NotKept(decision), decision, m)
    BY <2>1 DEF RoundRollback, Start
  <2>4. rec' \in [kind : Kinds, n : Nat, patch : State, row : Line, ids : SUBSET Nat]
    BY <2>2, <2>3, RoundRecType, NotKeptType
  <2>5. dirty' \in BOOLEAN
    BY <2>1 DEF RoundRollback, Rollback
  <2> QED BY <2>1, <2>4, <2>5 DEF RoundRollback, Start, Locations
<1>16. CASE \E size \in PlanSizes : CommitPlan(size)
  <2>1. PICK size \in PlanSizes : CommitPlan(size)  BY <1>16
  <2>2. /\ ComputeNextPid \in Nat /\ ComputeNextPid + size \in Nat
        /\ ComputeNextPid .. ComputeNextPid + size - 1 \in SUBSET Nat
    BY <2>1, NextPidType, ConstantsAssumption DEF CommitPlan, Entered
  <2>3. st.plan_version + 1 \in Nat
    <3>1. st.plan_version \in Nat  BY StateFacts
    <3> QED BY <3>1
  <2>4. PlanPatch(ComputeNextPid + size) \in State
    BY <2>2, PlanPatchType
  <2>5. rec' \in [kind : Kinds, n : Nat, patch : State, row : Line, ids : SUBSET Nat]
    BY <2>1, <2>2, <2>3, <2>4, DefaultTypes DEF CommitPlan, Start, Kinds
  <2> QED BY <2>1, <2>5 DEF CommitPlan, Start, Locations
<1>17. CASE WriteIntent
  BY <1>17 DEF WriteIntent, Locations
<1>18. CASE AppendHistory
  <2>1. hist' \in Seq(Line)
    <3>1. AppendLine(hist, cut, rec.row) \in Seq(Line)
      BY AppendType
    <3> QED BY <1>18, <3>1 DEF AppendHistory
  <2>2. cut' \in BOOLEAN
    BY <1>18 DEF AppendHistory
  <2> QED BY <1>18, <2>1, <2>2 DEF AppendHistory, Locations
<1>19. CASE WritePlan
  BY <1>19, FirstOfType DEF WritePlan, Plan, Locations
<1>20. CASE SaveState
  BY <1>20, ApplyPatchType DEF SaveState, Locations
<1>21. CASE ClearIntent
  BY <1>21, DefaultTypes DEF ClearIntent, Done, Locations
<1>22. CASE SettlePlan
  <2>1. st.pending_settle.decision \in Decisions
    BY <1>22, StateFacts DEF SettlePlan, IInv, JournalInv, Pending
  <2>2. SettleActive(plan, st.pending_settle.decision) \in Plan
    <3>1. /\ plan.active \in Nat /\ plan.done \in SUBSET Nat
          /\ plan.settled \in Seq([item : Nat, decision : Decisions])
          /\ PendingItems(plan) \ {plan.active} \in SUBSET Nat
      BY DEF Plan, PendingItems
    <3>2. Append(plan.settled, [item |-> plan.active,
                                decision |-> st.pending_settle.decision])
            \in Seq([item : Nat, decision : Decisions])
      BY <2>1, <3>1
    <3> QED BY <3>1, <3>2, FirstOfType DEF SettleActive, Plan
  <2> QED BY <1>22, <2>2, DefaultTypes DEF SettlePlan, Done, Locations
<1>23. CASE SettleSave
  BY <1>23, PhaseSaved, PhaseTypes DEF SettleSave, Locations
<1>24. CASE SettleMarker
  BY <1>24, DefaultTypes DEF SettleMarker, Done, Locations
<1>25. CASE AgentEdit
  BY <1>25 DEF AgentEdit
<1>26. CASE Crash
  BY <1>26, DefaultTypes DEF Crash, Killed, Done, Locations
<1>27. CASE \E line \in {Garbage, rec.row} : TornAppend(line)
  <2>1. PICK line \in {Garbage, rec.row} : TornAppend(line)  BY <1>27
  <2>2. line \in Line  BY DefaultTypes
  <2>3. hist' \in Seq(Line)  BY <2>1, <2>2, AppendType DEF TornAppend
  <2>4. cut' \in BOOLEAN  BY <2>1 DEF TornAppend
  <2> QED BY <2>1, <2>3, <2>4, DefaultTypes DEF TornAppend, Killed, Done, Locations
<1>28. CASE UNCHANGED vars
  BY <1>28 DEF vars
<1> QED
  BY <1>1, <1>2, <1>3, <1>4, <1>5, <1>6, <1>7, <1>8, <1>9, <1>10, <1>11, <1>12,
     <1>13, <1>14, <1>15, <1>16, <1>17, <1>18, <1>19, <1>20, <1>21, <1>22, <1>23,
     <1>24, <1>25, <1>26, <1>27, <1>28
     DEF Next, ScriptStep, Recording, Transaction

-----------------------------------------------------------------------------
(* The invariant is preserved.  First, by the kinds of step there are. *)

\* Steps that touch none of state.json, the journal, history.jsonl and plan.md
\* and leave no transaction under way: a start, a refusal, a kill.
LEMMA QuietStep ==
    ASSUME IInv, TypeOK', UNCHANGED <<st, intent, hist, plan>>,
           pc' \in {"idle", "open"}
    PROVE  IInv'
<1>1. StateInv' /\ GapInv'
  BY DEF IInv, StateInv, GapInv
<1>2. RowsInv' /\ RoundsRecordedOnce'
  BY DEF IInv, RowsInv, RoundsRecordedOnce
<1>3. Fits(intent.kind, intent.n, intent.patch)'
  BY DEF IInv, JournalInv, Fits, RoundFits, BaselineFits, PlanFits
<1>4. JournalInv'
  BY <1>3 DEF JournalInv, Transacting
<1> QED BY <1>1, <1>2, <1>4 DEF IInv

\* A transaction is prepared in memory; nothing is written yet.
LEMMA StartStep ==
    ASSUME IInv, TypeOK', UNCHANGED <<st, intent, hist, plan>>,
           pc = "enter", pc' = "intent",
           rec'.kind # "none",
           Fits(rec'.kind, rec'.n, rec'.patch),
           NotYet(rec'.kind, rec'.n),
           rec'.kind # "plan" => rec'.row.round = rec'.n
    PROVE  IInv'
<1>1. StateInv' /\ GapInv'
  BY DEF IInv, StateInv, GapInv
<1>2. RowsInv' /\ RoundsRecordedOnce'
  BY DEF IInv, RowsInv, RoundsRecordedOnce
<1>3. Fits(intent.kind, intent.n, intent.patch)'
  BY DEF IInv, JournalInv, Fits, RoundFits, BaselineFits, PlanFits
<1>4. Fits(rec.kind, rec.n, rec.patch)'
  BY DEF Fits, RoundFits, BaselineFits, PlanFits
<1>5. NotYet(rec.kind, rec.n)'
  BY DEF NotYet
<1>6. intent'.kind = "none"
  BY DEF IInv, JournalInv
<1>7. JournalInv'
  BY <1>3, <1>4, <1>5, <1>6 DEF JournalInv, Transacting
<1> QED BY <1>1, <1>2, <1>7 DEF IInv

\* The journal is dropped: its transaction is complete, or left no body.
LEMMA ClearStep ==
    ASSUME IInv, TypeOK', UNCHANGED <<st, hist, plan>>, intent' = NoIntent,
           CaughtUp \/ ~BodyLanded
    PROVE  /\ StateInv' /\ GapInv' /\ RowsInv' /\ RoundsRecordedOnce'
           /\ Fits(intent.kind, intent.n, intent.patch)'
           /\ intent'.kind = "none"
<1> USE DEF NoIntent
<1>1. StateInv'
  BY DEF IInv, StateInv
<1>2. intent.kind \in Kinds
  BY DEF IInv, TypeOK
<1>3. GapInv'
  BY <1>2 DEF IInv, GapInv, CaughtUp, BodyLanded, Kinds
<1>4. RowsInv'
  <2> SUFFICES ASSUME NEW i \in DOMAIN hist, hist[i].round # NoRound
               PROVE  /\ st.progress_initialized
                      /\ hist[i].round <= st.expected_history_round
    BY DEF RowsInv
  <2>1. CASE i = Len(hist) /\ intent.kind = "round" /\ hist[i].round = intent.n
    <3>1. LastRound(hist) = intent.n  BY <2>1 DEF LastRound, IInv, TypeOK
    <3>2. st.expected_history_round = intent.n
      BY <2>1, <3>1 DEF CaughtUp, BodyLanded
    <3>3. st.progress_initialized
      BY <2>1 DEF IInv, JournalInv, Fits, RoundFits
    <3>4. intent.n \in Nat  BY DEF IInv, TypeOK
    <3> QED BY <2>1, <3>2, <3>3, <3>4
  <2>2. CASE i = Len(hist) /\ intent.kind = "baseline" /\ hist[i].round = 0
    <3>1. LastRound(hist) = 0  BY <2>2 DEF LastRound, IInv, TypeOK
    <3> QED BY <2>2, <3>1 DEF CaughtUp, BodyLanded
  <2> QED BY <2>1, <2>2 DEF IInv, RowsInv
<1>5. RoundsRecordedOnce'
  BY DEF IInv, RoundsRecordedOnce
<1> QED BY <1>1, <1>3, <1>4, <1>5 DEF Fits

\* state.json receives the patch of the journalled transaction.
LEMMA ApplyStep ==
    ASSUME IInv, TypeOK', UNCHANGED <<intent, hist, plan>>,
           st' = ApplyPatch(intent.kind, st, intent.patch),
           intent.kind \in {"round", "baseline"} =>
               LastRound(hist) \in {NoRound, intent.n},
           intent.kind = "plan" => plan.version = intent.n
    PROVE  /\ StateInv' /\ GapInv' /\ RowsInv' /\ RoundsRecordedOnce'
           /\ Fits(intent.kind, intent.n, intent.patch)'
           /\ CaughtUp'
           /\ intent.kind = "round" => st'.pending_settle # NoPending
<1>0. RoundsRecordedOnce'
  BY DEF IInv, RoundsRecordedOnce
<1>1. /\ intent.kind \in Kinds /\ intent.n \in Nat
      /\ st \in State /\ intent.patch \in State
  BY DEF IInv, TypeOK
<1>2. /\ st.expected_history_round \in Nat /\ st.expected_plan_version \in Nat
      /\ st.next_pid \in Nat /\ intent.patch.next_pid \in Nat
  BY <1>1, StateFacts
<1>3. Fits(intent.kind, intent.n, intent.patch)
  BY DEF IInv, JournalInv
<1>4. CASE intent.kind = "round"
  <2>1. RoundFits(intent.n, intent.patch)  BY <1>3, <1>4 DEF Fits
  <2>2. /\ st'.phase = st.phase
        /\ st'.progress_initialized = st.progress_initialized
        /\ st'.pending_settle = intent.patch.pending_settle
        /\ st'.expected_history_round = intent.patch.expected_history_round
        /\ st'.eval_rounds = intent.patch.eval_rounds
        /\ st'.expected_plan_version = st.expected_plan_version
        /\ st'.plan_version = intent.patch.plan_version
        /\ st'.next_pid = intent.patch.next_pid
    BY <1>1, <1>4, ApplyPatchFields
  <2>3. StateInv'
    BY <1>2, <2>1, <2>2 DEF IInv, StateInv, RoundFits
  <2>4. GapInv'
    BY <1>4, <2>1, <2>2 DEF IInv, GapInv, RoundFits
  <2>5. RowsInv'
    <3> SUFFICES ASSUME NEW i \in DOMAIN hist, hist[i].round # NoRound
                 PROVE  /\ st'.progress_initialized
                        /\ hist[i].round <= st'.expected_history_round
      BY DEF RowsInv
    <3>1. hist[i].round \in Nat  BY RowRound DEF IInv, TypeOK
    <3>2. hist[i].round <= st.expected_history_round \/ hist[i].round = intent.n
      BY <1>4 DEF IInv, RowsInv
    <3> QED BY <1>1, <1>2, <2>1, <2>2, <3>1, <3>2 DEF RoundFits
  <2>6. Fits(intent.kind, intent.n, intent.patch)'
    BY <1>4, <2>1, <2>2 DEF Fits, RoundFits
  <2> QED BY <1>0, <1>4, <2>1, <2>2, <2>3, <2>4, <2>5, <2>6 DEF CaughtUp, RoundFits
<1>5. CASE intent.kind = "baseline"
  <2>1. BaselineFits(intent.n, intent.patch)  BY <1>3, <1>5 DEF Fits
  <2>2. /\ st'.phase = intent.patch.phase
        /\ st'.progress_initialized = intent.patch.progress_initialized
        /\ st'.pending_settle = st.pending_settle
        /\ st'.expected_history_round = intent.patch.expected_history_round
        /\ st'.eval_rounds = intent.patch.eval_rounds
        /\ st'.expected_plan_version = st.expected_plan_version
        /\ st'.plan_version = intent.patch.plan_version
        /\ st'.next_pid = intent.patch.next_pid
    BY <1>1, <1>5, ApplyPatchFields
  <2>3. StateInv'
    BY <2>1, <2>2 DEF StateInv, BaselineFits
  <2>4. GapInv'
    BY <1>5, <2>1, <2>2 DEF IInv, GapInv, BaselineFits
  <2>5. RowsInv'
    <3> SUFFICES ASSUME NEW i \in DOMAIN hist, hist[i].round # NoRound
                 PROVE  /\ st'.progress_initialized
                        /\ hist[i].round <= st'.expected_history_round
      BY DEF RowsInv
    <3>1. hist[i].round \in Nat  BY RowRound DEF IInv, TypeOK
    <3>2. hist[i].round <= st.expected_history_round \/ hist[i].round = 0
      BY <1>5 DEF IInv, RowsInv
    <3> QED BY <2>1, <2>2, <3>1, <3>2 DEF BaselineFits
  <2>6. Fits(intent.kind, intent.n, intent.patch)'
    BY <1>5, <2>1, <2>2 DEF Fits, BaselineFits
  <2> QED BY <1>0, <1>5, <2>1, <2>2, <2>3, <2>4, <2>5, <2>6 DEF CaughtUp, BaselineFits
<1>6. CASE intent.kind = "plan"
  <2>1. PlanFits(intent.n, intent.patch)  BY <1>3, <1>6 DEF Fits
  <2>2. /\ st'.phase = intent.patch.phase
        /\ st'.progress_initialized = st.progress_initialized
        /\ st'.pending_settle = intent.patch.pending_settle
        /\ st'.expected_history_round = st.expected_history_round
        /\ st'.eval_rounds = st.eval_rounds
        /\ st'.expected_plan_version = intent.patch.expected_plan_version
        /\ st'.plan_version = intent.patch.plan_version
        /\ st'.next_pid = intent.patch.next_pid
    BY <1>1, <1>6, ApplyPatchFields
  <2>3. StateInv'
    BY <2>1, <2>2 DEF IInv, StateInv, PlanFits
  <2>4. GapInv'
    BY <1>6, <2>1, <2>2 DEF IInv, GapInv, PlanFits
  <2>5. RowsInv'
    BY <1>6, <2>2 DEF IInv, RowsInv
  <2>6. Fits(intent.kind, intent.n, intent.patch)'
    <3>1. /\ st'.progress_initialized /\ st'.phase # "FINISH"
          /\ intent.n = st'.expected_plan_version
          /\ intent.patch.next_pid >= st'.next_pid
      BY <1>2, <2>1, <2>2 DEF PlanFits
    <3> QED BY <1>6, <2>1, <3>1 DEF Fits, PlanFits
  <2> QED BY <1>0, <1>6, <2>1, <2>2, <2>3, <2>4, <2>5, <2>6 DEF CaughtUp, PlanFits
<1>7. CASE intent.kind = "none"
  <2>1. st' = st  BY <1>1, <1>7, ApplyPatchFields
  <2> QED BY <1>0, <1>7, <2>1 DEF IInv, StateInv, GapInv, RowsInv, Fits, CaughtUp
<1> QED BY <1>1, <1>4, <1>5, <1>6, <1>7 DEF Kinds

\* A row of the journalled round or baseline is written to history.jsonl,
\* whole or in part.
LEMMA AppendStep ==
    ASSUME IInv, TypeOK', UNCHANGED <<st, intent, plan>>,
           pc = "body", rec.kind # "plan",
           NEW line \in {Garbage, rec.row},
           hist' = AppendLine(hist, cut, line)
    PROVE  /\ GapInv' /\ RowsInv' /\ RoundsRecordedOnce'
           /\ LastRound(hist') \in {NoRound, rec.n}
<1>1. /\ hist \in Seq(Line) /\ line \in Line /\ cut \in BOOLEAN
      /\ rec.n \in Nat /\ st.expected_history_round \in Nat
  <2>1. st \in State  BY DEF IInv, TypeOK
  <2> QED BY <2>1, DefaultTypes, StateFacts DEF IInv, TypeOK
<1>2. /\ intent.kind = rec.kind /\ intent.n = rec.n
      /\ rec.kind \in {"round", "baseline"}
      /\ rec.row.round = rec.n
  BY DEF IInv, JournalInv, Transacting, TypeOK, Kinds
<1>3. /\ rec.kind = "round" => st.expected_history_round + 1 = rec.n
                               /\ LastRound(hist) # rec.n
                               /\ st.progress_initialized
      /\ rec.kind = "baseline" => rec.n = 0 /\ ~st.progress_initialized
                                  /\ LastRound(hist) = NoRound
  BY DEF IInv, JournalInv, Transacting, NotYet, Fits, RoundFits, BaselineFits
<1>4. ASSUME NEW i \in DOMAIN hist, hist[i].round # NoRound
      PROVE  /\ rec.kind = "round"
             /\ hist[i].round <= st.expected_history_round /\ hist[i].round < rec.n
  <2>1. hist[i].round \in Nat  BY <1>1, <1>4, RowRound
  <2>2. i = Len(hist) => LastRound(hist) = hist[i].round
    BY <1>1 DEF LastRound
  <2> QED BY <1>1, <1>2, <1>3, <1>4, <2>1, <2>2 DEF IInv, RowsInv
<1>5. line.round \in {NoRound, rec.n}
  BY <1>2 DEF Garbage
<1>6. CASE cut = TRUE
  <2>1. /\ LastRound(hist') = NoRound
        /\ \A i \in DOMAIN hist' : i \in DOMAIN hist /\ hist'[i] \in {hist[i], Garbage}
    BY <1>1, <1>6, AppendTorn
  <2>2. \A i \in DOMAIN hist' :
           hist'[i].round # NoRound => hist[i].round # NoRound /\ hist'[i] = hist[i]
    BY <2>1 DEF Garbage
  <2>3. RowsInv'
    BY <1>3, <1>4, <2>1, <2>2 DEF RowsInv
  <2>4. RoundsRecordedOnce'
    BY <2>1, <2>2 DEF IInv, RoundsRecordedOnce
  <2>5. GapInv'
    BY <2>1 DEF IInv, GapInv
  <2> QED BY <2>1, <2>3, <2>4, <2>5
<1>7. CASE cut = FALSE
  <2>1. /\ LastRound(hist') = line.round
        /\ Len(hist') = Len(hist) + 1
        /\ hist'[Len(hist) + 1] = line
        /\ \A i \in DOMAIN hist' :
              i # Len(hist) + 1 => i \in DOMAIN hist /\ hist'[i] = hist[i]
    BY <1>1, <1>7, AppendWhole
  <2>2. RowsInv'
    BY <1>2, <1>3, <1>4, <1>5, <2>1 DEF RowsInv
  <2>3. RoundsRecordedOnce'
    <3> SUFFICES ASSUME NEW i \in DOMAIN hist', NEW j \in DOMAIN hist', i < j,
                        hist'[i].round # NoRound, hist'[j].round # NoRound
                 PROVE  hist'[i].round < hist'[j].round
      BY DEF RoundsRecordedOnce
    <3>1. DOMAIN hist' = 1 .. Len(hist) + 1
      BY <1>1, <2>1 DEF TypeOK
    <3>2. i # Len(hist') /\ i \in DOMAIN hist /\ hist'[i] = hist[i]
      BY <1>1, <2>1, <3>1
    <3>3. CASE j = Len(hist')
      BY <1>4, <1>5, <2>1, <3>2, <3>3
    <3>4. CASE j # Len(hist')
      BY <2>1, <3>2, <3>4 DEF IInv, RoundsRecordedOnce
    <3> QED BY <3>3, <3>4
  <2>4. GapInv'
    BY <1>2, <1>3, <1>5, <2>1 DEF IInv, GapInv, JournalInv, Fits, BaselineFits
  <2> QED BY <1>5, <2>1, <2>2, <2>3, <2>4
<1> QED BY <1>1, <1>6, <1>7

\* The round that a pipeline prepares continues state.json, and no row of
\* history.jsonl has its number yet.
LEMMA RoundContinues ==
    ASSUME IInv, RoundStarts, NEW s, NEW decision \in Decisions, NEW cur,
           s \in State,
           s.plan_version = st.plan_version, s.next_pid = st.next_pid
    PROVE  LET r == RoundRec(s, decision, cur) IN
           /\ r.kind = "round" /\ r.row.round = r.n
           /\ Fits(r.kind, r.n, r.patch) /\ NotYet(r.kind, r.n)
<1>1. /\ pc = "enter" /\ st.phase = "EDIT" /\ intent.kind = "none"
      /\ st.progress_initialized
  <2>1. pc = "enter" /\ st.phase = "EDIT"
    BY DEF RoundStarts, Entered, Refused
  <2> QED BY <2>1 DEF IInv, JournalInv, StateInv
<1>2. st.expected_history_round \in Nat /\ st.eval_rounds = st.expected_history_round
  <2>1. st \in State  BY DEF IInv, TypeOK
  <2> QED BY <2>1, StateFacts DEF IInv, StateInv
<1>3. NextRound = st.expected_history_round + 1 /\ NextRound # 0
  BY <1>2 DEF NextRound
<1>4. LastRound(hist) # NextRound
  BY <1>1, <1>2, <1>3 DEF IInv, GapInv, NoRound
<1> DEFINE pending == [item |-> plan.active, decision |-> decision, round |-> NextRound]
           patch == [s EXCEPT !.eval_rounds = NextRound,
                              !.expected_history_round = NextRound,
                              !.pending_settle = pending]
<1>5. pending # NoPending
  BY DEF NoPending, Decisions
<1> HIDE DEF pending
<1>6. /\ patch.expected_history_round = NextRound /\ patch.eval_rounds = NextRound
      /\ patch.pending_settle = pending
      /\ patch.plan_version = s.plan_version /\ patch.next_pid = s.next_pid
  BY DEF State
<1> HIDE DEF patch
<1>7. RoundRec(s, decision, cur).kind = "round"
      /\ RoundRec(s, decision, cur).n = NextRound
      /\ RoundRec(s, decision, cur).patch = patch
      /\ RoundRec(s, decision, cur).row.round = NextRound
  BY DEF RoundRec, patch, pending
<1>8. RoundFits(NextRound, patch)
  BY <1>1, <1>3, <1>5, <1>6 DEF RoundFits
<1> QED BY <1>3, <1>4, <1>7, <1>8 DEF Fits, NotYet

\* A phase that is saved without a transaction keeps the invariant.
LEMMA PhaseStep ==
    ASSUME IInv, TypeOK', UNCHANGED <<hist, plan>>, intent.kind = "none",
           intent' = intent \/ intent' = NoIntent, pc' \in {"idle", "settle_marker"},
           NEW ph,
           \/ st' = [st EXCEPT !.phase = ph] /\ (st.pending_settle # NoPending => ph = "EDIT")
           \/ st' = [st EXCEPT !.phase = ph, !.pending_settle = NoPending],
           ~st.progress_initialized => ph \in {"INIT", "BASELINE"}
    PROVE  IInv'
<1>1. st \in State  BY DEF IInv, TypeOK
<1>2. /\ st'.phase = ph
      /\ st'.progress_initialized = st.progress_initialized
      /\ st'.pending_settle = NoPending \/ (/\ st'.pending_settle = st.pending_settle
                                            /\ st.pending_settle # NoPending => ph = "EDIT")
      /\ st'.expected_history_round = st.expected_history_round
      /\ st'.eval_rounds = st.eval_rounds
      /\ st'.expected_plan_version = st.expected_plan_version
      /\ st'.plan_version = st.plan_version
      /\ st'.next_pid = st.next_pid
  BY <1>1 DEF State
<1>3. StateInv'  BY <1>2 DEF IInv, StateInv
<1>4. intent'.kind = "none"  BY DEF NoIntent
<1>5. GapInv'  BY <1>2, <1>4 DEF IInv, GapInv
<1>6. RowsInv'  BY <1>2, <1>4 DEF IInv, RowsInv
<1>7. RoundsRecordedOnce'  BY DEF IInv, RoundsRecordedOnce
<1>8. JournalInv'  BY <1>4 DEF JournalInv, Transacting, Fits
<1> QED BY <1>3, <1>5, <1>6, <1>7, <1>8 DEF IInv

-----------------------------------------------------------------------------
(* Every step preserves the invariant. *)

\* One step of Next, or none, keeps the first invariant.
LEMMA StepInv ==
    ASSUME IInv, [Next]_vars
    PROVE  IInv'
<1> TypeOK'
  BY TypeStep
<1> USE DEF files, git, proc
<1>1. CASE \/ \E c \in Commands : Invoke(c)
           \/ Refuse \/ PipelineReject \/ PlanRejected \/ Resume \/ SettleMarker
           \/ AgentEdit \/ Crash
  BY <1>1, QuietStep
     DEF Invoke, Refuse, PipelineReject, PlanRejected, Resume, SettleMarker,
         AgentEdit, Crash, Killed, Done
<1>2. CASE ReplayRebuild
  <2>1. BodyLanded  BY <1>2 DEF ReplayRebuild
  <2>2. intent.kind = "baseline" => intent.n = 0
    BY DEF IInv, JournalInv, Fits, BaselineFits
  <2>3. /\ StateInv' /\ GapInv' /\ RowsInv' /\ RoundsRecordedOnce'
        /\ Fits(intent.kind, intent.n, intent.patch)' /\ CaughtUp'
    BY <1>2, <2>1, <2>2, ApplyStep DEF ReplayRebuild, BodyLanded
  <2>4. JournalInv'
    BY <1>2, <2>3 DEF ReplayRebuild, JournalInv, Transacting
  <2> QED BY <2>3, <2>4 DEF IInv
<1>3. CASE ReplayClear
  <2>1. CaughtUp  BY <1>3 DEF ReplayClear, IInv, JournalInv
  <2>2. /\ StateInv' /\ GapInv' /\ RowsInv' /\ RoundsRecordedOnce'
        /\ Fits(intent.kind, intent.n, intent.patch)' /\ intent'.kind = "none"
    BY <1>3, <2>1, ClearStep DEF ReplayClear
  <2>3. JournalInv'
    BY <1>3, <2>2 DEF ReplayClear, JournalInv, Transacting
  <2> QED BY <2>2, <2>3 DEF IInv
<1>4. CASE ReplayDrop
  <2>1. /\ StateInv' /\ GapInv' /\ RowsInv' /\ RoundsRecordedOnce'
        /\ Fits(intent.kind, intent.n, intent.patch)' /\ intent'.kind = "none"
    BY <1>4, ClearStep DEF ReplayDrop
  <2>2. JournalInv'
    BY <1>4, <2>1 DEF ReplayDrop, JournalInv, Transacting
  <2> QED BY <2>1, <2>2 DEF IInv
<1>5. CASE BaselineAlreadyDone
  <2>1. /\ intent.kind = "none" /\ st.progress_initialized
        /\ st.pending_settle # NoPending => ActivateTarget = "EDIT"
    BY <1>5 DEF BaselineAlreadyDone, Entered, Precheck, IInv, JournalInv, ActivateTarget
  <2> QED BY <1>5, <2>1, PhaseStep DEF BaselineAlreadyDone, Done
<1>6. CASE BaselineUnavailable
  <2>1. /\ intent.kind = "none" /\ ~st.progress_initialized
        /\ st.pending_settle = NoPending
    BY <1>6 DEF BaselineUnavailable, Entered, Precheck, IInv, JournalInv, StateInv
  <2> QED BY <1>6, <2>1, PhaseStep DEF BaselineUnavailable, Done
<1>7. CASE Activate
  <2>1. intent.kind = "none"
    BY <1>7 DEF Activate, Entered, IInv, JournalInv
  <2>2. st.pending_settle # NoPending => ActivateTarget = "EDIT"
    BY DEF ActivateTarget
  <2>3. ~st.progress_initialized => ActivateTarget \in {"INIT", "BASELINE"}
    BY DEF ActivateTarget, PhaseOnResume, IInv, StateInv
  <2> QED BY <1>7, <2>1, <2>2, <2>3, PhaseStep DEF Activate, Done
<1>8. CASE SettleSave
  <2>1. intent.kind = "none" /\ st.progress_initialized
    BY <1>8 DEF SettleSave, IInv, JournalInv, StateInv
  <2> QED BY <1>8, <2>1, PhaseStep DEF SettleSave
<1>9. CASE PipelineReplay
  <2>1. intent.kind = "none"
    BY <1>9 DEF PipelineReplay, Entered, IInv, JournalInv
  <2>2. JournalInv'
    BY <1>9, <2>1 DEF PipelineReplay, JournalInv, Transacting, Fits
  <2> QED BY <1>9, <2>2
          DEF PipelineReplay, IInv, StateInv, GapInv, RowsInv, RoundsRecordedOnce
<1>10. CASE \E m \in Metrics \cup {NoMetric} : RecordBaseline(m)
  <2>1. PICK m \in Metrics \cup {NoMetric} : RecordBaseline(m)  BY <1>10
  <2>2. pc = "enter" /\ intent.kind = "none" /\ ~st.progress_initialized
    BY <2>1 DEF RecordBaseline, Entered, Precheck, IInv, JournalInv
  <2>3. st.phase = "BASELINE"
    BY <2>1 DEF RecordBaseline, Refused, Entered, Precheck
  <2>4. LastRound(hist) = NoRound
    <3>1. hist \in Seq(Line)  BY DEF IInv, TypeOK
    <3> QED BY <2>2, <3>1 DEF IInv, RowsInv, LastRound
  <2>5. /\ BaselinePatch(m).progress_initialized /\ BaselinePatch(m).phase = "PLAN"
        /\ BaselinePatch(m).expected_history_round = 0 /\ BaselinePatch(m).eval_rounds = 0
        /\ BaselinePatch(m).plan_version = 0 /\ BaselinePatch(m).next_pid = 0
    <3>1. st \in State  BY DEF IInv, TypeOK
    <3> QED BY <3>1 DEF BaselinePatch, State
  <2>6. /\ rec'.kind = "baseline" /\ rec'.n = 0 /\ rec'.patch = BaselinePatch(m)
        /\ rec'.row.round = 0
    BY <2>1 DEF RecordBaseline, Start
  <2>7. Fits(rec'.kind, rec'.n, rec'.patch)
    BY <2>2, <2>3, <2>5, <2>6 DEF Fits, BaselineFits, IInv, StateInv
  <2>8. NotYet(rec'.kind, rec'.n)
    BY <2>2, <2>4, <2>6 DEF NotYet
  <2> QED BY <2>1, <2>2, <2>6, <2>7, <2>8, StartStep DEF RecordBaseline, Start
<1>11. CASE \E m \in Metrics, noop \in BOOLEAN : RoundKeep(m, noop)
  <2>1. PICK m \in Metrics, noop \in BOOLEAN : RoundKeep(m, noop)  BY <1>11
  <2>2. head' \in Nat  BY DEF TypeOK
  <2>3. Kept(m, head') \in State  BY <2>2, KeptType DEF IInv
  <2>4. /\ Kept(m, head').plan_version = st.plan_version
        /\ Kept(m, head').next_pid = st.next_pid
    <3>1. st \in State  BY DEF IInv, TypeOK
    <3> QED BY <3>1 DEF Kept, State
  <2>5. rec' = RoundRec(Kept(m, head'), "KEEP", m)
    BY <2>1 DEF RoundKeep, Start
  <2>6. /\ rec'.kind = "round" /\ rec'.row.round = rec'.n
        /\ Fits(rec'.kind, rec'.n, rec'.patch) /\ NotYet(rec'.kind, rec'.n)
    BY <2>1, <2>3, <2>4, <2>5, RoundContinues DEF RoundKeep, Decisions
  <2> QED BY <2>1, <2>6, StartStep DEF RoundKeep, RoundStarts, Entered, Start
<1>12. CASE \E m \in Metrics \cup {NoMetric}, fails \in BOOLEAN : RoundRollback(m, fails)
  <2>1. PICK m \in Metrics \cup {NoMetric}, fails \in BOOLEAN : RoundRollback(m, fails)
    BY <1>12
  <2> DEFINE decision == IF fails THEN "FAIL" ELSE Decide(m)
  <2>2. decision \in Decisions
    BY DecideType DEF IInv, Decisions
  <2>3. rec' = RoundRec(NotKept(decision), decision, m)
    BY <2>1 DEF RoundRollback, Start
  <2> HIDE DEF decision
  <2>4. /\ NotKept(decision) \in State
        /\ NotKept(decision).plan_version = st.plan_version
        /\ NotKept(decision).next_pid = st.next_pid
    <3>1. st \in State  BY DEF IInv, TypeOK
    <3>2. NotKept(decision) \in State  BY NotKeptType DEF IInv
    <3> QED BY <3>1, <3>2 DEF NotKept, State
  <2>5. /\ rec'.kind = "round" /\ rec'.row.round = rec'.n
        /\ Fits(rec'.kind, rec'.n, rec'.patch) /\ NotYet(rec'.kind, rec'.n)
    BY <2>1, <2>2, <2>3, <2>4, RoundContinues DEF RoundRollback
  <2> QED BY <2>1, <2>5, StartStep DEF RoundRollback, RoundStarts, Entered, Start
<1>13. CASE \E size \in PlanSizes : CommitPlan(size)
  <2>1. PICK size \in PlanSizes : CommitPlan(size)  BY <1>13
  <2>2. pc = "enter" /\ intent.kind = "none"
    BY <2>1 DEF CommitPlan, Entered, IInv, JournalInv
  <2>3. st.progress_initialized /\ st.phase # "FINISH"
    BY <2>1 DEF CommitPlan, Entered, Refused
  <2>4. st.plan_version \in Nat /\ st.next_pid \in Nat /\ st \in State
    <3>1. st \in State  BY DEF IInv, TypeOK
    <3> QED BY <3>1, StateFacts
  <2> DEFINE next == ComputeNextPid + size
  <2>5. next \in Nat /\ next # 0 /\ next >= st.next_pid
    BY <2>2, <2>4, NextPidType, ConstantsAssumption
  <2> HIDE DEF next
  <2>6. /\ PlanPatch(next).expected_plan_version = st.plan_version + 1
        /\ PlanPatch(next).plan_version = st.plan_version + 1
        /\ PlanPatch(next).phase = "EDIT"
        /\ PlanPatch(next).pending_settle = NoPending
        /\ PlanPatch(next).next_pid = next
    BY <2>4 DEF PlanPatch, State
  <2>7. /\ rec'.kind = "plan" /\ rec'.n = st.plan_version + 1
        /\ rec'.patch = PlanPatch(next)
    BY <2>1 DEF CommitPlan, Start, next
  <2>8. Fits(rec'.kind, rec'.n, rec'.patch)
    BY <2>3, <2>4, <2>5, <2>6, <2>7 DEF Fits, PlanFits, IInv, StateInv
  <2>9. NotYet(rec'.kind, rec'.n)
    BY <2>2, <2>4, <2>7 DEF NotYet, IInv, GapInv, StateInv
  <2> QED BY <2>1, <2>2, <2>7, <2>8, <2>9, StartStep DEF CommitPlan, Start
<1>14. CASE WriteIntent
  <2>1. intent.kind = "none"  BY <1>14 DEF WriteIntent, IInv, JournalInv
  <2>2. StateInv' /\ GapInv' /\ RowsInv' /\ RoundsRecordedOnce'
    BY <1>14, <2>1 DEF WriteIntent, IInv, StateInv, GapInv, RowsInv, RoundsRecordedOnce
  <2>3. Fits(rec.kind, rec.n, rec.patch)' /\ NotYet(rec.kind, rec.n)'
        /\ rec.kind # "none" /\ (rec.kind # "plan" => rec.row.round = rec.n)
    BY <1>14 DEF WriteIntent, IInv, JournalInv, Transacting, Fits, NotYet,
                 RoundFits, BaselineFits, PlanFits
  <2>4. JournalInv'
    BY <1>14, <2>3 DEF WriteIntent, JournalInv, Transacting
  <2> QED BY <2>2, <2>4 DEF IInv
<1>15. CASE AppendHistory
  <2>1. /\ rec.kind \in {"round", "baseline"}
        /\ intent = [kind |-> rec.kind, n |-> rec.n, patch |-> rec.patch]
        /\ Fits(rec.kind, rec.n, rec.patch)'
        /\ rec.row.round = rec.n
    BY <1>15 DEF AppendHistory, IInv, JournalInv, Transacting, TypeOK, Kinds,
                 Fits, RoundFits, BaselineFits
  <2>2. /\ GapInv' /\ RowsInv' /\ RoundsRecordedOnce'
        /\ LastRound(hist') \in {NoRound, rec.n}
    <3>1. CASE AppendsRow
      BY <1>15, <3>1, AppendStep DEF AppendHistory
    <3>2. CASE ~AppendsRow
      <4>1. LastRound(hist') = NoRound
        BY <1>15, <2>1, <3>2
           DEF AppendHistory, AppendsRow, IInv, JournalInv, NotYet
      <4> QED BY <1>15, <3>2, <4>1
              DEF AppendHistory, IInv, GapInv, RowsInv, RoundsRecordedOnce
    <3> QED BY <3>1, <3>2
  <2>3. StateInv'
    BY <1>15 DEF AppendHistory, IInv, StateInv
  <2>4. JournalInv'
    BY <1>15, <2>1, <2>2 DEF AppendHistory, JournalInv, Transacting
  <2> QED BY <2>2, <2>3, <2>4 DEF IInv
<1>16. CASE WritePlan
  <2>1. /\ intent = [kind |-> rec.kind, n |-> rec.n, patch |-> rec.patch]
        /\ rec.n # 0
        /\ Fits(rec.kind, rec.n, rec.patch)'
    BY <1>16 DEF WritePlan, IInv, JournalInv, Transacting, Fits, PlanFits
  <2>2. plan'.version = rec.n
    BY <1>16 DEF WritePlan
  <2>3. GapInv'
    BY <1>16, <2>1, <2>2 DEF WritePlan, IInv, GapInv
  <2>4. StateInv' /\ RowsInv' /\ RoundsRecordedOnce'
    BY <1>16 DEF WritePlan, IInv, StateInv, RowsInv, RoundsRecordedOnce
  <2>5. JournalInv'
    BY <1>16, <2>1, <2>2 DEF WritePlan, JournalInv, Transacting
  <2> QED BY <2>3, <2>4, <2>5 DEF IInv
<1>17. CASE SaveState
  <2>1. /\ intent = [kind |-> rec.kind, n |-> rec.n, patch |-> rec.patch]
        /\ rec.kind # "none" /\ (rec.kind # "plan" => rec.row.round = rec.n)
        /\ rec.kind # "plan" => LastRound(hist) \in {NoRound, rec.n}
        /\ rec.kind = "plan" => plan.version = rec.n
    BY <1>17 DEF SaveState, IInv, JournalInv, Transacting
  <2>2. /\ StateInv' /\ GapInv' /\ RowsInv' /\ RoundsRecordedOnce'
        /\ Fits(intent.kind, intent.n, intent.patch)' /\ CaughtUp'
        /\ intent.kind = "round" => st'.pending_settle # NoPending
    BY <1>17, <2>1, ApplyStep DEF SaveState
  <2>3. JournalInv'
    BY <1>17, <2>1, <2>2 DEF SaveState, JournalInv, Transacting
  <2> QED BY <2>2, <2>3 DEF IInv
<1>18. CASE ClearIntent
  <2>1. CaughtUp /\ (rec.kind = "round" => st.pending_settle # NoPending)
    BY <1>18 DEF ClearIntent, IInv, JournalInv
  <2>2. /\ StateInv' /\ GapInv' /\ RowsInv' /\ RoundsRecordedOnce'
        /\ Fits(intent.kind, intent.n, intent.patch)' /\ intent'.kind = "none"
    BY <1>18, <2>1, ClearStep DEF ClearIntent
  <2>3. JournalInv'
    BY <1>18, <2>1, <2>2 DEF ClearIntent, Done, JournalInv, Transacting
  <2> QED BY <2>2, <2>3 DEF IInv
<1>19. CASE SettlePlan
  <2>1. intent.kind = "none" /\ st.pending_settle # NoPending
    BY <1>19 DEF SettlePlan, IInv, JournalInv
  <2>2. plan'.version = plan.version /\ plan'.ids = plan.ids
    <3>1. plan \in Plan  BY DEF IInv, TypeOK
    <3> QED BY <1>19, <3>1 DEF SettlePlan, SettleActive, Plan
  <2>3. StateInv' /\ GapInv' /\ RowsInv' /\ RoundsRecordedOnce'
    BY <1>19, <2>2 DEF SettlePlan, IInv, StateInv, GapInv, RowsInv, RoundsRecordedOnce
  <2>4. JournalInv'
    BY <1>19, <2>1 DEF SettlePlan, Done, JournalInv, Transacting, Fits
  <2> QED BY <2>3, <2>4 DEF IInv
<1>20. CASE \E line \in {Garbage, rec.row} : TornAppend(line)
  <2>1. PICK line \in {Garbage, rec.row} : TornAppend(line)  BY <1>20
  <2>2. GapInv' /\ RowsInv' /\ RoundsRecordedOnce'
    BY <2>1, AppendStep DEF TornAppend
  <2>3. StateInv'
    BY <2>1 DEF TornAppend, IInv, StateInv
  <2>4. Fits(intent.kind, intent.n, intent.patch)'
    BY <2>1 DEF TornAppend, IInv, JournalInv, Fits, RoundFits, BaselineFits, PlanFits
  <2>5. JournalInv'
    BY <2>1, <2>4 DEF TornAppend, Killed, Done, JournalInv, Transacting
  <2> QED BY <2>2, <2>3, <2>5 DEF IInv
<1>21. CASE UNCHANGED vars
  BY <1>21 DEF vars, IInv, StateInv, JournalInv, Fits, RoundFits, BaselineFits, PlanFits,
               NotYet, Transacting, CaughtUp, GapInv, RowsInv, RoundsRecordedOnce
<1> QED
  BY <1>1, <1>2, <1>3, <1>4, <1>5, <1>6, <1>7, <1>8, <1>9, <1>10, <1>11, <1>12,
     <1>13, <1>14, <1>15, <1>16, <1>17, <1>18, <1>19, <1>20, <1>21
     DEF Next, ScriptStep, Recording, Transaction

-----------------------------------------------------------------------------
(* Theorems *)

\* The inductive invariant holds of every reachable state.
THEOREM InductiveInvariant == Spec => []IInv
<1>1. IInv /\ [Next]_vars => IInv'
  BY StepInv
<1> QED BY InitInv, <1>1, PTL DEF Spec

\* Every file of the task directory has its type, whatever is killed where.
THEOREM TypeCorrect == Spec => []TypeOK
<1>1. IInv => TypeOK
  BY DEF IInv
<1> QED BY InductiveInvariant, <1>1, PTL

\* open_task never meets a gap that replay_intent has not healed: without a
\* journal, plan.md and history.jsonl are what state.json expects.
THEOREM NoGapWithoutJournal == Spec => []NoJournalNoGap
<1>1. IInv => NoJournalNoGap
  BY DEF IInv, GapInv, NoJournalNoGap, Consistent, PlanExists
<1> QED BY InductiveInvariant, <1>1, PTL

\* No retry records a round a second time or out of order.
THEOREM RoundsOnce == Spec => []RoundsRecordedOnce
<1>1. IInv => RoundsRecordedOnce
  BY DEF IInv
<1> QED BY InductiveInvariant, <1>1, PTL

\* What a step may do to state.json, in the fields the action properties are
\* about.
LEMMA StateStep ==
    ASSUME IInv, [Next]_vars
    PROVE  /\ st.phase = "FINISH" => st'.phase = "FINISH"
           /\ st'.eval_rounds \in {st.eval_rounds, st.eval_rounds + 1}
           /\ st'.expected_history_round \in
                  {st.expected_history_round, st.expected_history_round + 1}
           /\ st'.plan_version \in {st.plan_version, st.plan_version + 1}
           /\ st'.next_pid >= st.next_pid
<1>1. st \in State /\ intent.patch \in State /\ intent.kind \in Kinds
  BY DEF IInv, TypeOK
<1>2. st.next_pid \in Nat /\ intent.patch.next_pid \in Nat
  BY <1>1, StateFacts
<1>3. CASE st' = st
  BY <1>2, <1>3
<1>4. CASE st' = ApplyPatch(intent.kind, st, intent.patch)
  <2>1. Fits(intent.kind, intent.n, intent.patch) /\ StateInv
    BY DEF IInv, JournalInv
  <2>2. CASE intent.kind = "round"
    BY <1>1, <1>2, <1>4, <2>1, <2>2, ApplyPatchFields DEF Fits, RoundFits, StateInv
  <2>3. CASE intent.kind = "baseline"
    BY <1>1, <1>2, <1>4, <2>1, <2>3, ApplyPatchFields DEF Fits, BaselineFits, StateInv
  <2>4. CASE intent.kind = "plan"
    BY <1>1, <1>2, <1>4, <2>1, <2>4, ApplyPatchFields DEF Fits, PlanFits, StateInv
  <2>5. CASE intent.kind = "none"
    BY <1>1, <1>2, <1>4, <2>5, ApplyPatchFields
  <2> QED BY <1>1, <2>2, <2>3, <2>4, <2>5 DEF Kinds
<1>5. ASSUME NEW ph,
             \/ st' = [st EXCEPT !.phase = ph]
             \/ st' = [st EXCEPT !.phase = ph, !.pending_settle = NoPending],
             st.phase = "FINISH" => ph = "FINISH"
      PROVE  /\ st.phase = "FINISH" => st'.phase = "FINISH"
             /\ st'.eval_rounds = st.eval_rounds
             /\ st'.expected_history_round = st.expected_history_round
             /\ st'.plan_version = st.plan_version
             /\ st'.next_pid >= st.next_pid
  <2>1. st \in State  BY <1>1
  <2>2. /\ st'.phase = ph /\ st'.eval_rounds = st.eval_rounds
        /\ st'.expected_history_round = st.expected_history_round
        /\ st'.plan_version = st.plan_version /\ st'.next_pid = st.next_pid
    BY <1>5, <2>1 DEF State
  <2> QED BY <1>2, <1>5, <2>2
<1>6. CASE ReplayRebuild
  BY <1>4, <1>6 DEF ReplayRebuild
<1>7. CASE SaveState
  <2>1. rec.kind = intent.kind /\ rec.patch = intent.patch
    BY <1>7 DEF SaveState, IInv, JournalInv
  <2> QED BY <1>4, <1>7, <2>1 DEF SaveState
<1>8. CASE BaselineAlreadyDone
  <2>1. st.phase # "FINISH"
    BY <1>8 DEF BaselineAlreadyDone, Refused, Entered
  <2> QED BY <1>5, <1>8, <2>1 DEF BaselineAlreadyDone
<1>9. CASE BaselineUnavailable
  <2>1. st.phase # "FINISH"
    BY <1>9 DEF BaselineUnavailable, Precheck, IInv, StateInv
  <2> QED BY <1>5, <1>9, <2>1 DEF BaselineUnavailable
<1>10. CASE Activate
  <2>1. st.phase = "FINISH" => ActivateTarget = "FINISH"
    BY DEF ActivateTarget, IInv, StateInv
  <2> QED BY <1>5, <1>10, <2>1 DEF Activate
<1>11. CASE SettleSave
  <2>1. st.phase # "FINISH"
    BY <1>11 DEF SettleSave, IInv, JournalInv, StateInv
  <2> QED BY <1>5, <1>11, <2>1 DEF SettleSave
<1>12. \/ st' = st \/ ReplayRebuild \/ SaveState \/ BaselineAlreadyDone
       \/ BaselineUnavailable \/ Activate \/ SettleSave
  <2> USE DEF files
  <2>1. CASE \/ \E c \in Commands : Invoke(c)
             \/ ReplayClear \/ ReplayDrop \/ Refuse
             \/ PipelineReplay \/ PipelineReject \/ PlanRejected \/ Resume
    BY <2>1 DEF Invoke, ReplayClear, ReplayDrop, Refuse, PipelineReplay,
                PipelineReject, PlanRejected, Resume
  <2>2. CASE Recording
    BY <2>2 DEF Recording, RecordBaseline, RoundKeep, RoundRollback, CommitPlan
  <2>3. CASE \/ WriteIntent \/ AppendHistory \/ WritePlan \/ ClearIntent
             \/ SettlePlan \/ SettleMarker
    BY <2>3 DEF WriteIntent, AppendHistory, WritePlan, ClearIntent, SettlePlan,
                SettleMarker
  <2>4. CASE \/ AgentEdit \/ Crash \/ UNCHANGED vars
             \/ \E line \in {Garbage, rec.row} : TornAppend(line)
    BY <2>4 DEF AgentEdit, Crash, TornAppend, vars
  <2> QED BY <2>1, <2>2, <2>3, <2>4 DEF Next, ScriptStep, Transaction
<1> QED BY <1>3, <1>6, <1>7, <1>8, <1>9, <1>10, <1>11, <1>12

\* A finished task stays finished, and its counters never run back or skip.
THEOREM FinishFinal == Spec => FinishIsFinal
<1>1. IInv /\ [Next]_vars => [st.phase = "FINISH" => st'.phase = "FINISH"]_vars
  BY StateStep
<1> QED BY InductiveInvariant, <1>1, PTL DEF Spec, FinishIsFinal

\* Rounds are counted one by one; plan versions and pids only grow.
THEOREM CountersOnlyAdvance == Spec => CountersAdvance
<1>1. IInv /\ [Next]_vars =>
        [/\ st'.eval_rounds \in {st.eval_rounds, st.eval_rounds + 1}
         /\ st'.expected_history_round \in
                {st.expected_history_round, st.expected_history_round + 1}
         /\ st'.plan_version \in {st.plan_version, st.plan_version + 1}
         /\ st'.next_pid >= st.next_pid]_vars
  BY StateStep
<1> QED BY InductiveInvariant, <1>1, PTL DEF Spec, CountersAdvance

-----------------------------------------------------------------------------
(* The second invariant: what the next open_task will see *)

\* plan.md by itself: its ACTIVE item is one it still has to do, an item is
\* done when the Settled History names it, and it names an item once.
PlanInv ==
    /\ plan.active = 0 <=> PendingItems(plan) = {}
    /\ plan.active # 0 => plan.active \in PendingItems(plan)
    /\ 0 \notin plan.ids
    /\ plan.ids \cap SettledItems(plan) = plan.done
    /\ \A i, j \in DOMAIN plan.settled :
          i # j => plan.settled[i].item # plan.settled[j].item
    /\ plan.version = 0 => plan.settled = <<>>

\* pids are handed out once.
PidInv == \A i \in plan.ids \cup SettledItems(plan) : i < Committed.next_pid

\* The phase, the progress fields and plan.md agree: in EDIT there is something
\* to do or to settle, in REPLAN nothing is left, in PLAN there is no plan that
\* a seed with a metric could go on with.
PhaseInv ==
    /\ Committed.phase = "EDIT" /\ Committed.pending_settle = NoPending => plan.active # 0
    /\ Committed.phase = "PLAN" => Committed.seed_metric = NoMetric \/ plan.version = 0
    /\ Committed.phase = "REPLAN" => plan.active = 0 /\ plan.version # 0
    /\ Committed.phase \in {"INIT", "BASELINE"} <=> ~Committed.progress_initialized
    /\ Committed.baseline_ok <=> Committed.seed_metric # NoMetric
    /\ ~Committed.progress_initialized => Committed.consecutive_failures = 0

\* The recorded round waits for the ACTIVE item or for one that plan.md has
\* settled already.
PendingInv ==
    Committed.pending_settle # NoPending =>
        /\ Committed.phase = "EDIT"
        /\ Committed.pending_settle.item # 0
        /\ Committed.pending_settle.item \in {plan.active} \cup SettledItems(plan)

\* Where the script that recorded a round is on its way to settle it.
Settling ==
    \/ pc \in {"save", "clear"} /\ rec.kind = "round"
    \/ pc \in {"settle", "settle_save"}

\* The round budget.  A round beyond it takes a kill between a round and its
\* settlement.
BudgetInv ==
    /\ Committed.eval_rounds <= MaxRounds + crashes
    /\ Committed.phase \in {"PLAN", "REPLAN", "DIAGNOSE"} =>
          Committed.eval_rounds < MaxRounds
    /\ Committed.phase = "EDIT" /\ (Committed.pending_settle = NoPending \/ ~Settling) =>
          Committed.eval_rounds < MaxRounds + crashes

\* The rows of h are those of a seed and this many rounds, with these metrics.
AddsUp(h, rounds, seed, best) ==
    /\ Len(h) = rounds + 1
    /\ \A i \in DOMAIN h : h[i].round = i - 1
    /\ seed = h[1].metric
    /\ \E k \in DOMAIN h :
          /\ h[k].decision \in {"SEED", "KEEP"}
          /\ h[k].metric = best
          /\ \A i \in DOMAIN h : h[i].decision = "KEEP" => i <= k

\* Committed counts the rows of history.jsonl and has its seed and best metric.
Matches == AddsUp(hist, Committed.eval_rounds, Committed.seed_metric, Committed.best_metric)

\* h has a row with this item and this decision.
HasRow(h, item, decision) ==
    \E k \in DOMAIN h : h[k].item = item /\ h[k].decision = decision

\* history.jsonl, while every line of it parses: it adds up with Committed, and
\* has a row for the pending round and for every item of the Settled History.
HistoryInv ==
    /\ cut => hist # <<>>
    /\ pc = "save" /\ rec.kind # "plan" => hist # <<>>
    /\ NoGarbage /\ Committed.progress_initialized => Matches
    /\ NoGarbage /\ Committed.pending_settle # NoPending =>
          HasRow(hist, Committed.pending_settle.item, Committed.pending_settle.decision)
    /\ NoGarbage => \A i \in DOMAIN plan.settled :
          HasRow(hist, plan.settled[i].item, plan.settled[i].decision)

\* A best metric has a commit that measured it.
BestMeasured(s) == s.best_metric # NoMetric => <<s.best_commit, s.best_metric>> \in measured

\* A round that is not in state.json yet, as its recorder computed it.
RoundReady ==
    /\ st.pending_settle = NoPending
    /\ rec.n = st.expected_history_round + 1
    /\ rec.patch.seed_metric = st.seed_metric
    /\ rec.patch.baseline_ok = st.baseline_ok
    /\ rec.patch.pending_settle.item = plan.active
    /\ rec.patch.pending_settle.decision = rec.row.decision
    /\ rec.row.item = plan.active
    /\ \/ /\ rec.row.decision = "KEEP"
          /\ rec.patch.best_metric = rec.row.metric
          /\ rec.patch.best_metric \in Metrics
          /\ rec.patch.consecutive_failures = 0
       \/ /\ rec.row.decision \in {"DISCARD", "FAIL"}
          /\ rec.patch.best_metric = st.best_metric
          /\ rec.patch.consecutive_failures \in
                {st.consecutive_failures, st.consecutive_failures + 1}

\* The same of a baseline.
BaselineReady ==
    /\ ~st.progress_initialized /\ st.phase = "BASELINE"
    /\ rec.row.decision = "SEED"
    /\ rec.patch.best_metric = rec.row.metric
    /\ rec.patch.seed_metric = rec.row.metric
    /\ rec.patch.baseline_ok <=> rec.row.metric # NoMetric
    /\ rec.patch.consecutive_failures = 0

\* The same of a plan: its version is the next one, its pids are new.
PlanReady ==
    /\ rec.n = st.expected_plan_version + 1
    /\ \/ st.phase \in {"PLAN", "REPLAN", "DIAGNOSE"}
       \/ st.phase = "EDIT" /\ st.pending_settle # NoPending
    /\ rec.patch.consecutive_failures =
          IF st.phase = "DIAGNOSE" THEN 0 ELSE st.consecutive_failures
    /\ rec.ids # {}
    /\ \A i \in rec.ids : i # 0 /\ st.next_pid <= i /\ i < rec.patch.next_pid

\* Until it is saved, the transaction under way is what its recorder computed.
ReadyInv ==
    pc \in {"intent", "body", "save"} =>
        /\ rec.kind = "round" => RoundReady
        /\ rec.kind = "baseline" => BaselineReady
        /\ rec.kind = "plan" => PlanReady
        /\ rec.kind \in {"round", "baseline"} => BestMeasured(rec.patch)

\* The second invariant.  It speaks of Committed, not of state.json, and so a
\* replay has nothing to prove: it makes state.json what Committed was.
CInv ==
    /\ PlanInv /\ PidInv /\ PhaseInv /\ PendingInv /\ BudgetInv /\ HistoryInv
    /\ BestMeasured(st) /\ BestMeasured(Committed)
    /\ ReadyInv

-----------------------------------------------------------------------------
(* Committed: what a step does to it *)

\* Committed is a state.json, and is the one on disk unless a body has landed
\* that state.json has not caught up with.
LEMMA CommittedFacts ==
    ASSUME TypeOK
    PROVE  /\ Committed \in State
           /\ intent.kind = "none" => Committed = st
           /\ CaughtUp \/ ~BodyLanded => Committed = st
           /\ ~CaughtUp /\ BodyLanded =>
                 Committed = ApplyPatch(intent.kind, st, intent.patch)
<1>1. st \in State /\ intent.patch \in State /\ intent.kind \in Kinds
  BY DEF TypeOK
<1>2. intent.kind = "none" => CaughtUp
  BY DEF CaughtUp
<1> QED BY <1>1, <1>2, ApplyPatchType DEF Committed

\* It stays when the files it depends on stay.
LEMMA CommittedKept ==
    ASSUME UNCHANGED <<st, intent, hist>>, plan'.version = plan.version
    PROVE  Committed' = Committed
<1>1. CaughtUp' = CaughtUp /\ BodyLanded' = BodyLanded
  BY DEF CaughtUp, BodyLanded
<1> QED BY <1>1 DEF Committed

\* The fields of progress a patch writes.
LEMMA ApplyPatchProgress ==
    ASSUME NEW k \in Kinds, NEW s \in State, NEW p \in State
    PROVE  LET t == ApplyPatch(k, s, p) IN
           /\ k \in {"round", "baseline"} =>
                 /\ t.consecutive_failures = p.consecutive_failures
                 /\ t.best_metric = p.best_metric /\ t.best_commit = p.best_commit
                 /\ t.seed_metric = p.seed_metric /\ t.baseline_ok = p.baseline_ok
           /\ k = "plan" =>
                 /\ t.consecutive_failures = p.consecutive_failures
                 /\ t.best_metric = s.best_metric /\ t.best_commit = s.best_commit
                 /\ t.seed_metric = s.seed_metric /\ t.baseline_ok = s.baseline_ok
<1>1. CASE k = "round"     BY <1>1 DEF ApplyPatch, State
<1>2. CASE k = "baseline"  BY <1>2 DEF ApplyPatch, State
<1>3. CASE k = "plan"      BY <1>3 DEF ApplyPatch, State
<1> QED BY <1>1, <1>2, <1>3

\* Neither a body nor a state of the transaction under way is on disk before
\* its body: what the next script sees is state.json.
LEMMA CommittedBefore ==
    ASSUME IInv, pc \in {"intent", "body"}
    PROVE  Committed = st
<1>1. CASE pc = "intent"
  BY <1>1, CommittedFacts DEF IInv, JournalInv
<1>2. CASE pc = "body"
  <2>1. /\ intent.kind = rec.kind /\ intent.n = rec.n
        /\ NotYet(rec.kind, rec.n) /\ Fits(rec.kind, rec.n, rec.patch)
        /\ rec.kind \in Kinds
    BY <1>2 DEF IInv, JournalInv, Transacting, TypeOK
  <2>2. ~BodyLanded
    BY <2>1 DEF BodyLanded, NotYet, NoRound, Kinds
  <2> QED BY <2>2, CommittedFacts DEF IInv
<1> QED BY <1>1, <1>2

\* A step that the next script does not see keeps the second invariant.
LEMMA UnseenStep ==
    ASSUME IInv, CInv, IInv',
           Committed' = Committed, UNCHANGED <<plan, hist, cut>>,
           measured \subseteq measured',
           crashes' \in Nat, crashes' >= crashes,
           st' = st \/ st' = Committed,
           Settling /\ ~Settling' =>
               \/ crashes' > crashes
               \/ Committed.pending_settle = NoPending,
           pc' = "save" => (pc = "save" /\ UNCHANGED rec) \/ hist # <<>>,
           ReadyInv'
    PROVE  CInv'
<1>1. PlanInv'
  BY DEF CInv, PlanInv, PendingItems, SettledItems
<1>2. PidInv'
  BY DEF CInv, PidInv, SettledItems
<1>3. PhaseInv' /\ PendingInv'
  BY DEF CInv, PhaseInv, PendingInv, SettledItems
<1>4. BudgetInv'
  <2>1. /\ Committed.eval_rounds \in Nat /\ crashes \in Nat /\ MaxRounds \in Nat
    BY CommittedFacts, StateFacts, ConstantsAssumption DEF IInv, TypeOK
  <2> QED BY <2>1 DEF CInv, BudgetInv
<1>5. HistoryInv'
  <2>1. NoGarbage' = NoGarbage /\ Matches' = Matches
    BY DEF NoGarbage, Matches
  <2> QED BY <2>1 DEF CInv, HistoryInv
<1>6. BestMeasured(st)' /\ BestMeasured(Committed)'
  BY DEF CInv, BestMeasured
<1> QED BY <1>1, <1>2, <1>3, <1>4, <1>5, <1>6 DEF CInv

\* A transaction that waits for its next write stays as it was recorded.
LEMMA ReadyKept ==
    ASSUME ReadyInv, UNCHANGED <<st, rec, measured>>,
           plan' = plan \/ rec.kind = "plan", pc \in {"intent", "body"}
    PROVE  ReadyInv'
<1>1. rec.kind = "round" /\ RoundReady => RoundReady'
  BY DEF RoundReady
<1>2. BaselineReady => BaselineReady'
  BY DEF BaselineReady
<1>3. PlanReady => PlanReady'
  BY DEF PlanReady
<1>4. BestMeasured(rec.patch) => BestMeasured(rec.patch)'
  BY DEF BestMeasured
<1> QED BY <1>1, <1>2, <1>3, <1>4 DEF ReadyInv

\* The record under way, as the parts of the invariants see it.
LEMMA RecFacts ==
    ASSUME IInv, CInv, pc \in {"intent", "body", "save"}
    PROVE  /\ rec.kind \in {"round", "baseline", "plan"} /\ rec.n \in Nat
           /\ rec.patch \in State /\ rec.row \in Line /\ st \in State
           /\ rec.kind # "plan" => rec.row.round = rec.n /\ BestMeasured(rec.patch)
           /\ rec.kind = "round" => RoundReady /\ RoundFits(rec.n, rec.patch)
           /\ rec.kind = "baseline" => BaselineReady /\ BaselineFits(rec.n, rec.patch)
           /\ rec.kind = "plan" => PlanReady /\ PlanFits(rec.n, rec.patch)
<1>1. /\ rec.kind \in Kinds /\ rec.n \in Nat /\ rec.patch \in State /\ rec.row \in Line
      /\ st \in State
  BY DEF IInv, TypeOK
<1>2. /\ rec.kind # "none" /\ Fits(rec.kind, rec.n, rec.patch)
      /\ rec.kind # "plan" => rec.row.round = rec.n
  BY DEF IInv, JournalInv, Transacting
<1> QED BY <1>1, <1>2 DEF Kinds, CInv, ReadyInv, Fits

\* A round or a baseline takes effect: its row can be read, or state.json is
\* saved over a row that cannot.
LEMMA LandStep ==
    ASSUME IInv, CInv, IInv', pc \in {"body", "save"},
           rec.kind \in {"round", "baseline"},
           Committed = st, Committed' = ApplyPatch(rec.kind, st, rec.patch),
           UNCHANGED <<plan, measured>>,
           crashes' \in Nat, crashes' >= crashes,
           rec.kind = "round" /\ ~Settling' => crashes' > crashes
    PROVE  PlanInv' /\ PidInv' /\ PhaseInv' /\ PendingInv' /\ BudgetInv'
           /\ BestMeasured(Committed)'
<1>1. /\ st \in State /\ rec.patch \in State /\ rec.n \in Nat /\ rec.kind \in Kinds
      /\ BestMeasured(rec.patch)
      /\ rec.kind = "round" => RoundReady /\ RoundFits(rec.n, rec.patch)
      /\ rec.kind = "baseline" => BaselineReady /\ BaselineFits(rec.n, rec.patch)
  BY RecFacts DEF Kinds
<1>2. /\ Committed'.best_metric = rec.patch.best_metric
      /\ Committed'.best_commit = rec.patch.best_commit
      /\ Committed'.seed_metric = rec.patch.seed_metric
      /\ Committed'.baseline_ok = rec.patch.baseline_ok
      /\ Committed'.consecutive_failures = rec.patch.consecutive_failures
      /\ Committed'.next_pid = rec.patch.next_pid
      /\ Committed'.eval_rounds = rec.patch.eval_rounds
  BY <1>1, ApplyPatchProgress, ApplyPatchFields
<1>3. PlanInv'
  BY DEF CInv, PlanInv, PendingItems, SettledItems
<1>4. BestMeasured(Committed)'
  BY <1>1, <1>2 DEF BestMeasured
<1>5. /\ st.eval_rounds \in Nat /\ crashes \in Nat /\ MaxRounds \in Nat \ {0}
      /\ st.expected_history_round = st.eval_rounds
  BY <1>1, StateFacts, ConstantsAssumption DEF IInv, TypeOK, StateInv
<1>6. CASE rec.kind = "round"
  <2>1. /\ Committed'.phase = "EDIT" /\ Committed'.progress_initialized
        /\ Committed'.pending_settle = rec.patch.pending_settle
        /\ Committed'.pending_settle # NoPending
        /\ Committed'.pending_settle.item = plan.active
        /\ Committed'.eval_rounds = st.eval_rounds + 1
        /\ Committed'.next_pid = st.next_pid
        /\ Committed'.seed_metric = st.seed_metric
        /\ Committed'.baseline_ok = st.baseline_ok
        /\ st.phase = "EDIT" /\ st.pending_settle = NoPending
    BY <1>1, <1>2, <1>5, <1>6, ApplyPatchFields DEF RoundReady, RoundFits
  <2>2. PidInv'
    BY <2>1 DEF CInv, PidInv, SettledItems
  <2>3. PhaseInv'
    BY <2>1 DEF CInv, PhaseInv
  <2>4. plan.active # 0
    BY <2>1 DEF CInv, PhaseInv
  <2>5. PendingInv'
    BY <2>1, <2>4 DEF PendingInv
  <2>6. st.eval_rounds < MaxRounds + crashes
    BY <2>1 DEF CInv, BudgetInv
  <2>7. BudgetInv'
    BY <1>5, <1>6, <2>1, <2>6 DEF BudgetInv
  <2> QED BY <1>3, <1>4, <2>2, <2>3, <2>5, <2>7
<1>7. CASE rec.kind = "baseline"
  <2>1. /\ Committed'.phase = "PLAN" /\ Committed'.progress_initialized
        /\ Committed'.pending_settle = NoPending
        /\ Committed'.eval_rounds = 0
        /\ Committed'.next_pid = 0
        /\ st.next_pid = 0
        /\ st.expected_plan_version = 0
    BY <1>1, <1>2, <1>7, ApplyPatchFields DEF BaselineFits
  <2>7. Committed'.baseline_ok <=> Committed'.seed_metric # NoMetric
    BY <1>1, <1>2, <1>7, Zenon DEF BaselineReady
  <2>2. PidInv'
    BY <2>1 DEF CInv, PidInv, SettledItems
  <2>3. plan.version = 0
    <3>1. intent.kind = "baseline"
      BY <1>7 DEF IInv, JournalInv
    <3> QED BY <2>1, <3>1 DEF IInv, GapInv
  <2>4. PhaseInv'
    BY <2>1, <2>7, <2>3 DEF PhaseInv
  <2>5. PendingInv'
    BY <2>1 DEF PendingInv
  <2>6. BudgetInv'
    <3>1. MaxRounds \in Nat /\ 0 < MaxRounds  BY ConstantsAssumption
    <3>2. ASSUME NEW a \in Nat, NEW b \in Nat PROVE 0 <= a + b  OBVIOUS
    <3>3. 0 <= MaxRounds + crashes'  BY <3>1, <3>2
    <3> QED BY <2>1, <3>1, <3>3 DEF BudgetInv
  <2> QED BY <1>3, <1>4, <2>2, <2>4, <2>5, <2>6
<1> QED BY <1>6, <1>7

\* A row of the Settled History names an item and a decision.
LEMMA SettledRow ==
    ASSUME NEW q \in Seq([item : Nat, decision : Decisions]), NEW k \in DOMAIN q
    PROVE  q[k].item \in Nat /\ q[k].decision \in Decisions
<1>1. ASSUME NEW S, NEW r \in Seq(S), NEW j \in DOMAIN r PROVE r[j] \in S
  OBVIOUS
<1>2. q[k] \in [item : Nat, decision : Decisions]  BY <1>1
<1> QED BY <1>2

\* A plan takes effect with its body: the settled rows carry over and the new
\* items have pids that no item had before.
LEMMA PlanLands ==
    ASSUME IInv, CInv, IInv', WritePlan
    PROVE  /\ CInv'
           /\ Committed = st /\ Committed' = ApplyPatch("plan", st, rec.patch)
<1> USE DEF git
<1>1. /\ pc = "body" /\ rec.kind = "plan" /\ pc' = "save"
      /\ UNCHANGED <<st, intent, hist, cut, measured, rec, crashes>>
      /\ plan' = [version |-> rec.n, ids |-> rec.ids, done |-> {},
                  active |-> FirstOf(rec.ids), settled |-> plan.settled]
  BY DEF WritePlan
<1>2. /\ st \in State /\ rec.patch \in State /\ rec.n \in Nat /\ rec.kind \in Kinds
      /\ PlanReady /\ PlanFits(rec.n, rec.patch)
  BY <1>1, RecFacts DEF Kinds
<1>3. intent = [kind |-> "plan", n |-> rec.n, patch |-> rec.patch]
  BY <1>1 DEF IInv, JournalInv
<1>4. Committed = st
  BY <1>1, CommittedBefore
<1>5. Committed' = ApplyPatch("plan", st, rec.patch)
  <2>1. st.expected_plan_version \in Nat  BY <1>2, StateFacts
  <2>2. ~CaughtUp' /\ BodyLanded'
    BY <1>1, <1>2, <1>3, <2>1 DEF CaughtUp, BodyLanded, PlanReady
  <2> QED BY <1>1, <1>3, <2>2 DEF Committed
<1>6. /\ Committed'.phase = "EDIT" /\ Committed'.pending_settle = NoPending
      /\ Committed'.progress_initialized
      /\ Committed'.next_pid = rec.patch.next_pid
      /\ Committed'.eval_rounds = st.eval_rounds
      /\ Committed'.seed_metric = st.seed_metric /\ Committed'.baseline_ok = st.baseline_ok
      /\ Committed'.best_metric = st.best_metric /\ Committed'.best_commit = st.best_commit
  <2>1. "plan" \in Kinds  BY DEF Kinds
  <2>2. PICK k \in Kinds : k = "plan"  BY <2>1
  <2>3. Committed' = ApplyPatch(k, st, rec.patch)  BY <1>5, <2>2
  <2> QED BY <1>2, <2>2, <2>3, ApplyPatchFields, ApplyPatchProgress DEF PlanFits
<1>7. /\ rec.ids \in SUBSET Nat /\ rec.ids # {} /\ 0 \notin rec.ids
      /\ \A i \in rec.ids : st.next_pid <= i /\ i < rec.patch.next_pid
      /\ st.next_pid \in Nat /\ rec.patch.next_pid \in Nat
  <2>1. rec.ids \in SUBSET Nat  BY DEF IInv, TypeOK
  <2> QED BY <1>2, <2>1, StateFacts DEF PlanReady
<1>8. FirstOf(rec.ids) \in rec.ids
  BY <1>7, FirstOfType
<1>9. /\ plan'.version = rec.n /\ plan'.ids = rec.ids /\ plan'.done = {}
      /\ plan'.active = FirstOf(rec.ids) /\ plan'.settled = plan.settled
  BY <1>1
<1>10. SettledItems(plan)' = SettledItems(plan)
  BY <1>9 DEF SettledItems
<1>11. \A i \in SettledItems(plan) : i < st.next_pid /\ i \in Nat
  <2>1. \A i \in SettledItems(plan) : i \in Nat
    <3>1. plan.settled \in Seq([item : Nat, decision : Decisions])
      BY DEF IInv, TypeOK, Plan
    <3>2. \A k \in DOMAIN plan.settled : plan.settled[k].item \in Nat
      BY <3>1, SettledRow
    <3> QED BY <3>2 DEF SettledItems
  <2> QED BY <1>4, <2>1 DEF CInv, PidInv
<1>12. PlanInv'
  <2>1. (PendingItems(plan) = rec.ids)'
    BY <1>1, <1>9 DEF PendingItems
  <2>2. rec.n # 0
    BY <1>2 DEF PlanFits
  <2>3. \A i \in SettledItems(plan) : i \notin rec.ids
    BY <1>7, <1>11
  <2>4. plan'.active # 0 /\ plan'.active \in rec.ids
    BY <1>7, <1>8, <1>9
  <2>5. \A i, j \in DOMAIN plan'.settled :
           i # j => plan'.settled[i].item # plan'.settled[j].item
    BY <1>9 DEF CInv, PlanInv
  <2>6. plan'.ids \cap SettledItems(plan)' = plan'.done
    BY <1>9, <1>10, <2>3
  <2>7. PendingItems(plan)' = rec.ids  BY <1>1, <2>1
  <2> QED BY <1>7, <1>9, <2>2, <2>4, <2>5, <2>6, <2>7 DEF PlanInv
<1>13. PidInv'
  <2>1. st.next_pid <= rec.patch.next_pid
    BY <1>2 DEF PlanFits
  <2> QED BY <1>6, <1>7, <1>9, <1>10, <1>11, <2>1 DEF PidInv
<1>14. PhaseInv'
  <2>1. plan'.active # 0
    BY <1>7, <1>8, <1>9
  <2>2. st.baseline_ok <=> st.seed_metric # NoMetric
    BY <1>4 DEF CInv, PhaseInv
  <2> QED BY <1>6, <2>1, <2>2 DEF PhaseInv
<1>15. PendingInv'
  BY <1>6 DEF PendingInv
<1>16. BudgetInv'
  <2>1. /\ st.eval_rounds \in Nat /\ crashes \in Nat /\ MaxRounds \in Nat
    BY <1>2, StateFacts, ConstantsAssumption DEF IInv, TypeOK
  <2>2. ~Settling
    BY <1>1 DEF Settling
  <2>3. st.eval_rounds < MaxRounds + crashes
    BY <1>2, <1>4, <2>1, <2>2 DEF CInv, BudgetInv, PlanReady
  <2> QED BY <1>1, <1>6, <2>1, <2>3 DEF BudgetInv
<1>17. HistoryInv'
  <2>1. st.progress_initialized  BY <1>2 DEF PlanFits
  <2>2. NoGarbage' => Matches'
    BY <1>1, <1>4, <1>6, <2>1 DEF CInv, HistoryInv, NoGarbage, Matches
  <2>3. NoGarbage' => \A i \in DOMAIN plan'.settled :
           HasRow(hist', plan'.settled[i].item, plan'.settled[i].decision)
    BY <1>1, <1>9 DEF CInv, HistoryInv, NoGarbage
  <2> QED BY <1>1, <1>6, <1>9, <2>2, <2>3 DEF CInv, HistoryInv
<1>18. BestMeasured(st)' /\ BestMeasured(Committed)'
  BY <1>1, <1>4, <1>6 DEF CInv, BestMeasured
<1>19. ReadyInv'
  BY <1>1, ReadyKept DEF CInv
<1> QED BY <1>4, <1>5, <1>12, <1>13, <1>14, <1>15, <1>16, <1>17, <1>18, <1>19 DEF CInv

\* What Append does, for any kind of row.
LEMMA AppendShape ==
    ASSUME NEW S, NEW q \in Seq(S), NEW row \in S
    PROVE  /\ Len(q) \in Nat /\ DOMAIN q = 1 .. Len(q)
           /\ DOMAIN Append(q, row) = 1 .. Len(q) + 1
           /\ Append(q, row)[Len(q) + 1] = row
           /\ \A i \in 1 .. Len(q) : Append(q, row)[i] = q[i]
OBVIOUS

\* A nonempty file whose last line does not parse has a line that does not.
LEMMA LastGarbage ==
    ASSUME NEW h \in Seq(Line), h # <<>>, LastRound(h) = NoRound
    PROVE  \E i \in DOMAIN h : h[i].round = NoRound
<1>1. Len(h) \in DOMAIN h  OBVIOUS
<1> QED BY <1>1 DEF LastRound

\* A row that is appended spoils the file, or lands and is the event.
LEMMA AppendCases ==
    ASSUME IInv, CInv, TypeOK', UNCHANGED <<st, intent, plan>>,
           pc = "body", rec.kind # "plan", NEW line \in {Garbage, rec.row},
           hist' = AppendLine(hist, cut, line)
    PROVE  /\ hist' # <<>>
           /\ \/ Committed' = Committed /\ ~NoGarbage'
              \/ /\ cut = FALSE /\ line = rec.row
                 /\ Committed' = ApplyPatch(rec.kind, st, rec.patch)
<1>1. /\ rec.kind \in {"round", "baseline"} /\ rec.n \in Nat /\ rec.row \in Line
      /\ rec.row.round = rec.n /\ st \in State
      /\ rec.kind = "round" => RoundReady
      /\ rec.kind = "baseline" => BaselineReady
  BY RecFacts
<1>2. intent = [kind |-> rec.kind, n |-> rec.n, patch |-> rec.patch]
  BY DEF IInv, JournalInv
<1>3. hist \in Seq(Line) /\ hist' \in Seq(Line) /\ cut \in BOOLEAN /\ line \in Line
  BY <1>1, DefaultTypes DEF IInv, TypeOK
<1>4. hist' # <<>>
  <2>1. CASE cut = TRUE
    <3>1. hist # <<>>  BY <2>1 DEF CInv, HistoryInv
    <3>2. Len(hist) \in 1 .. Len(hist)  BY <1>3, <3>1
    <3>3. hist' = [hist EXCEPT ![Len(hist)] = Garbage]
      BY <2>1 DEF AppendLine
    <3>4. Len(hist') = Len(hist)
      BY <1>3, <3>2, <3>3, ExceptSeq, DefaultTypes
    <3> QED BY <3>2, <3>4
  <2>2. CASE cut = FALSE
    <3>1. Len(hist') = Len(hist) + 1  BY <1>3, <2>2, AppendWhole
    <3>2. Len(hist) \in Nat  BY <1>3
    <3> QED BY <3>1, <3>2
  <2> QED BY <1>3, <2>1, <2>2
<1>5. Committed = st
  BY CommittedBefore
<1>6. CASE LastRound(hist') = NoRound
  <2>1. ~NoGarbage'
    BY <1>3, <1>4, <1>6, LastGarbage DEF NoGarbage
  <2>2. ~BodyLanded'
    BY <1>1, <1>2, <1>6 DEF BodyLanded, NoRound
  <2>3. Committed' = Committed
    BY <1>5, <2>2 DEF Committed
  <2> QED BY <1>4, <2>1, <2>3
<1>7. CASE LastRound(hist') # NoRound
  <2>1. cut = FALSE
    BY <1>3, <1>7, AppendTorn
  <2>2. LastRound(hist') = line.round
    BY <1>3, <2>1, AppendWhole
  <2>3. line = rec.row
    BY <1>7, <2>2 DEF Garbage
  <2>4. LastRound(hist') = rec.n
    BY <1>1, <2>2, <2>3
  <2>5. rec.kind = "baseline" => rec.n = 0
    BY RecFacts DEF BaselineFits
  <2>6. BodyLanded'
    BY <1>1, <1>2, <2>4, <2>5 DEF BodyLanded
  <2>7. st.expected_history_round \in Nat  BY <1>1, StateFacts
  <2>8. ~CaughtUp'
    BY <1>1, <1>2, <2>7 DEF CaughtUp, RoundReady, BaselineReady
  <2>9. Committed' = ApplyPatch(rec.kind, st, rec.patch)
    BY <1>2, <2>6, <2>8 DEF Committed
  <2> QED BY <1>4, <2>1, <2>3, <2>9
<1> QED BY <1>6, <1>7

\* A row that is appended is a row, and the others stay.
LEMMA HasRowAppend ==
    ASSUME NEW h \in Seq(Line), NEW row \in Line, NEW item, NEW d,
           HasRow(h, item, d) \/ (row.item = item /\ row.decision = d)
    PROVE  HasRow(Append(h, row), item, d)
<1> DEFINE g == Append(h, row)
<1>1. /\ Len(h) \in Nat /\ DOMAIN h = 1 .. Len(h) /\ DOMAIN g = 1 .. Len(h) + 1
      /\ g[Len(h) + 1] = row /\ \A i \in 1 .. Len(h) : g[i] = h[i]
  OBVIOUS
<1> HIDE DEF g
<1>2. CASE HasRow(h, item, d)
  <2>1. PICK k \in DOMAIN h : h[k].item = item /\ h[k].decision = d
    BY <1>2 DEF HasRow
  <2>2. k \in DOMAIN g /\ g[k] = h[k]  BY <1>1
  <2> QED BY <2>1, <2>2 DEF HasRow, g
<1>3. CASE row.item = item /\ row.decision = d
  <2>1. Len(h) + 1 \in DOMAIN g  BY <1>1
  <2> QED BY <1>1, <1>3, <2>1 DEF HasRow, g
<1> QED BY <1>2, <1>3

\* The row of the next round continues the file.
LEMMA AddsUpAppend ==
    ASSUME NEW h \in Seq(Line), NEW row \in Line, NEW r \in Nat, NEW seed, NEW best,
           AddsUp(h, r, seed, best), row.round = r + 1, NEW b,
           \/ row.decision = "KEEP" /\ b = row.metric
           \/ row.decision # "KEEP" /\ b = best
    PROVE  AddsUp(Append(h, row), r + 1, seed, b)
<1> DEFINE g == Append(h, row)
<1>1. /\ Len(h) \in Nat /\ DOMAIN h = 1 .. Len(h) /\ DOMAIN g = 1 .. Len(h) + 1
      /\ Len(g) = Len(h) + 1
      /\ g[Len(h) + 1] = row /\ \A i \in 1 .. Len(h) : g[i] = h[i]
  OBVIOUS
<1> HIDE DEF g
<1>2. Len(h) = r + 1  BY DEF AddsUp
<1>3. \A i \in DOMAIN g : g[i].round = i - 1
  <2> TAKE i \in DOMAIN g
  <2>1. CASE i = Len(h) + 1  BY <1>1, <1>2, <2>1
  <2>2. CASE i # Len(h) + 1
    <3>1. i \in DOMAIN h /\ g[i] = h[i]  BY <1>1, <2>2
    <3> QED BY <3>1 DEF AddsUp
  <2> QED BY <2>1, <2>2
<1>4. seed = g[1].metric
  <2>1. 1 \in 1 .. Len(h)  BY <1>1, <1>2
  <2> QED BY <1>1, <2>1 DEF AddsUp
<1>5. \E k \in DOMAIN g :
        /\ g[k].decision \in {"SEED", "KEEP"}
        /\ g[k].metric = b
        /\ \A i \in DOMAIN g : g[i].decision = "KEEP" => i <= k
  <2>1. CASE row.decision = "KEEP"
    <3>1. /\ Len(h) + 1 \in DOMAIN g
          /\ \A i \in DOMAIN g : i <= Len(h) + 1
      BY <1>1
    <3> QED BY <1>1, <2>1, <3>1
  <2>2. CASE row.decision # "KEEP"
    <3>1. PICK k \in DOMAIN h :
             /\ h[k].decision \in {"SEED", "KEEP"}
             /\ h[k].metric = best
             /\ \A i \in DOMAIN h : h[i].decision = "KEEP" => i <= k
      BY DEF AddsUp
    <3>2. k \in DOMAIN g /\ g[k] = h[k]  BY <1>1
    <3>3. ASSUME NEW i \in DOMAIN g, g[i].decision = "KEEP" PROVE i <= k
      <4>1. i # Len(h) + 1  BY <1>1, <2>2, <3>3
      <4>2. i \in DOMAIN h /\ g[i] = h[i]  BY <1>1, <4>1
      <4> QED BY <3>1, <3>3, <4>2
    <3> QED BY <2>2, <3>1, <3>2, <3>3
  <2> QED BY <2>1, <2>2
<1> QED BY <1>1, <1>2, <1>3, <1>4, <1>5 DEF AddsUp, g

\* A file with nothing but the SEED row.
LEMMA AddsUpSeed ==
    ASSUME NEW row \in Line, row.round = 0, row.decision = "SEED"
    PROVE  AddsUp(Append(<<>>, row), 0, row.metric, row.metric)
<1> DEFINE g == Append(<<>>, row)
<1>1. Len(g) = 1 /\ DOMAIN g = {1} /\ g[1] = row
  OBVIOUS
<1> HIDE DEF g
<1> QED BY <1>1 DEF AddsUp, g

\* Lines that all parse have parsed before.
LEMMA NoGarbageBefore ==
    ASSUME NEW h \in Seq(Line), NEW row \in Line,
           \A i \in DOMAIN Append(h, row) : Append(h, row)[i].round # NoRound
    PROVE  \A i \in DOMAIN h : h[i].round # NoRound
<1> DEFINE g == Append(h, row)
<1>1. /\ Len(h) \in Nat /\ DOMAIN h = 1 .. Len(h) /\ DOMAIN g = 1 .. Len(h) + 1
      /\ \A i \in 1 .. Len(h) : g[i] = h[i]
  OBVIOUS
<1>2. \A i \in DOMAIN g : g[i].round # NoRound
  OBVIOUS
<1> HIDE DEF g
<1> QED BY <1>1, <1>2

\* history.jsonl still adds up when a whole row has landed.
LEMMA LandedRows ==
    ASSUME IInv, CInv, IInv', pc = "body", rec.kind \in {"round", "baseline"},
           UNCHANGED plan,
           hist' = AppendLine(hist, FALSE, rec.row),
           Committed' = ApplyPatch(rec.kind, st, rec.patch)
    PROVE  /\ NoGarbage' => Matches'
           /\ NoGarbage' /\ Committed'.pending_settle # NoPending =>
                 HasRow(hist', Committed'.pending_settle.item,
                        Committed'.pending_settle.decision)
           /\ NoGarbage' => \A i \in DOMAIN plan.settled :
                 HasRow(hist', plan.settled[i].item, plan.settled[i].decision)
<1>1. /\ st \in State /\ rec.patch \in State /\ rec.n \in Nat /\ rec.kind \in Kinds
      /\ rec.row \in Line /\ rec.row.round = rec.n
      /\ rec.kind = "round" => RoundReady /\ RoundFits(rec.n, rec.patch)
      /\ rec.kind = "baseline" => BaselineReady /\ BaselineFits(rec.n, rec.patch)
  BY RecFacts DEF Kinds
<1>2. /\ Committed'.best_metric = rec.patch.best_metric
      /\ Committed'.seed_metric = rec.patch.seed_metric
      /\ Committed'.eval_rounds = rec.patch.eval_rounds
  BY <1>1, ApplyPatchProgress, ApplyPatchFields
<1>3. Committed = st
  BY CommittedBefore
<1>4. hist \in Seq(Line) /\ hist' = Append(hist, rec.row)
  BY DEF IInv, TypeOK, AppendLine
<1>5. NoGarbage' => NoGarbage
  BY <1>1, <1>4, NoGarbageBefore DEF NoGarbage
<1>6. NoGarbage' => \A i \in DOMAIN plan.settled :
        HasRow(hist', plan.settled[i].item, plan.settled[i].decision)
  BY <1>1, <1>4, <1>5, HasRowAppend DEF CInv, HistoryInv
<1>7. CASE rec.kind = "round"
  <2>1. /\ Committed'.pending_settle.item = rec.row.item
        /\ Committed'.pending_settle.decision = rec.row.decision
    BY <1>1, <1>7, ApplyPatchFields DEF RoundReady
  <2>2. HasRow(hist', Committed'.pending_settle.item, Committed'.pending_settle.decision)
    BY <1>1, <1>4, <2>1, HasRowAppend
  <2>3. ASSUME NoGarbage' PROVE Matches'
    <3>1. AddsUp(hist, st.eval_rounds, st.seed_metric, st.best_metric)
      BY <1>1, <1>3, <1>5, <1>7, <2>3 DEF CInv, HistoryInv, RoundFits, Matches
    <3>2. /\ st.eval_rounds \in Nat /\ st.expected_history_round = st.eval_rounds
          /\ rec.row.round = st.eval_rounds + 1
          /\ Committed'.eval_rounds = st.eval_rounds + 1
          /\ Committed'.seed_metric = st.seed_metric
          /\ \/ rec.row.decision = "KEEP" /\ Committed'.best_metric = rec.row.metric
             \/ rec.row.decision # "KEEP" /\ Committed'.best_metric = st.best_metric
      BY <1>1, <1>2, <1>7, StateFacts DEF IInv, StateInv, RoundReady, RoundFits
    <3>3. AddsUp(hist', st.eval_rounds + 1, st.seed_metric, Committed'.best_metric)
      BY <1>1, <1>4, <3>1, <3>2, AddsUpAppend
    <3> QED BY <3>2, <3>3 DEF Matches
  <2> QED BY <1>6, <2>2, <2>3
<1>8. CASE rec.kind = "baseline"
  <2>1. Committed'.pending_settle = NoPending
    BY <1>1, <1>8, ApplyPatchFields DEF BaselineFits
  <2>2. ASSUME NoGarbage' PROVE Matches'
    <3>1. /\ ~st.progress_initialized /\ LastRound(hist) = NoRound
      BY <1>8 DEF IInv, JournalInv, NotYet
    <3>2. hist = <<>>
      BY <1>4, <1>5, <2>2, <3>1, LastGarbage DEF NoGarbage
    <3>3. /\ Committed'.eval_rounds = 0 /\ rec.row.round = 0
          /\ Committed'.seed_metric = rec.row.metric
          /\ Committed'.best_metric = rec.row.metric
          /\ rec.row.decision = "SEED"
      BY <1>1, <1>2, <1>8 DEF BaselineFits, BaselineReady
    <3> QED BY <1>1, <1>4, <3>2, <3>3, AddsUpSeed DEF Matches
  <2> QED BY <1>6, <2>1, <2>2
<1> QED BY <1>7, <1>8

\* An append, whole or torn, keeps the second invariant.
LEMMA AppendKeeps ==
    ASSUME IInv, CInv, IInv', UNCHANGED <<st, intent, plan, measured>>,
           pc = "body", rec.kind # "plan", NEW line \in {Garbage, rec.row},
           hist' = AppendLine(hist, cut, line),
           crashes' \in Nat, crashes' >= crashes,
           \/ pc' = "save" /\ UNCHANGED <<rec, crashes>>
           \/ pc' = "idle" /\ crashes' > crashes
    PROVE  /\ CInv'
           /\ \/ Committed' = Committed
              \/ Committed = st /\ Committed' = ApplyPatch(rec.kind, st, rec.patch)
<1>1. /\ hist' # <<>>
      /\ \/ Committed' = Committed /\ ~NoGarbage'
         \/ /\ cut = FALSE /\ line = rec.row
            /\ Committed' = ApplyPatch(rec.kind, st, rec.patch)
  BY AppendCases DEF IInv
<1>2. Committed = st
  BY CommittedBefore
<1>3. rec.kind \in {"round", "baseline"}
  BY RecFacts
<1>4. ReadyInv'
  BY ReadyKept DEF CInv, ReadyInv
<1>5. BestMeasured(st)'
  BY DEF CInv, BestMeasured
<1>6. CASE Committed' = Committed /\ ~NoGarbage'
  <2>1. PlanInv' /\ PidInv' /\ PhaseInv' /\ PendingInv'
    BY <1>6 DEF CInv, PlanInv, PidInv, PhaseInv, PendingInv, PendingItems, SettledItems
  <2>2. /\ Committed.eval_rounds \in Nat /\ crashes \in Nat /\ MaxRounds \in Nat
    BY CommittedFacts, StateFacts, ConstantsAssumption DEF IInv, TypeOK
  <2>3. ~Settling  BY DEF Settling
  <2>4. BudgetInv'
    BY <1>6, <2>2, <2>3 DEF CInv, BudgetInv
  <2>5. HistoryInv'
    BY <1>1, <1>6 DEF HistoryInv
  <2>6. BestMeasured(Committed)'
    BY <1>6 DEF CInv, BestMeasured
  <2> QED BY <1>4, <1>5, <1>6, <2>1, <2>4, <2>5, <2>6 DEF CInv
<1>7. CASE /\ cut = FALSE /\ line = rec.row
           /\ Committed' = ApplyPatch(rec.kind, st, rec.patch)
  <2>1. rec.kind = "round" /\ ~Settling' => crashes' > crashes
    BY DEF Settling
  <2>2. PlanInv' /\ PidInv' /\ PhaseInv' /\ PendingInv' /\ BudgetInv'
        /\ BestMeasured(Committed)'
    BY <1>2, <1>3, <1>7, <2>1, LandStep
  <2>3. HistoryInv'
    BY <1>1, <1>3, <1>7, LandedRows DEF HistoryInv
  <2> QED BY <1>2, <1>4, <1>5, <1>7, <2>2, <2>3 DEF CInv
<1> QED BY <1>1, <1>2, <1>6, <1>7

\* state.json is saved: the row has landed and nothing is to be seen, or it
\* cannot be read and this is the event.
LEMMA SaveCases ==
    ASSUME IInv, CInv, IInv', SaveState
    PROVE  /\ Committed' = st'
           /\ \/ Committed' = Committed
              \/ /\ rec.kind \in {"round", "baseline"} /\ ~NoGarbage
                 /\ Committed = st /\ Committed' = ApplyPatch(rec.kind, st, rec.patch)
<1>1. /\ pc = "save" /\ pc' = "clear" /\ UNCHANGED <<intent, hist, plan, rec>>
      /\ st' = ApplyPatch(rec.kind, st, rec.patch)
  BY DEF SaveState
<1>2. /\ rec.kind \in {"round", "baseline", "plan"} /\ rec.n \in Nat /\ st \in State
      /\ rec.kind = "round" => RoundReady
      /\ rec.kind = "baseline" => BaselineReady
      /\ rec.kind = "plan" => PlanReady
  BY <1>1, RecFacts
<1>3. intent = [kind |-> rec.kind, n |-> rec.n, patch |-> rec.patch]
  BY <1>1 DEF IInv, JournalInv
<1>4. Committed' = st'
  BY <1>1 DEF Committed, IInv, JournalInv
<1>5. ~CaughtUp
  <2>1. st.expected_history_round \in Nat /\ st.expected_plan_version \in Nat
    BY <1>2, StateFacts
  <2> QED BY <1>2, <1>3, <2>1 DEF CaughtUp, RoundReady, BaselineReady, PlanReady
<1>6. CASE BodyLanded
  <2>1. Committed = ApplyPatch(rec.kind, st, rec.patch)
    BY <1>3, <1>5, <1>6 DEF Committed
  <2> QED BY <1>1, <1>4, <2>1
<1>7. CASE ~BodyLanded
  <2>1. Committed = st
    BY <1>7 DEF Committed
  <2>2. /\ rec.kind # "plan" => LastRound(hist) \in {NoRound, rec.n}
        /\ rec.kind = "plan" => plan.version = rec.n
        /\ rec.kind = "baseline" => rec.n = 0
    BY <1>1, RecFacts DEF IInv, JournalInv, BaselineFits
  <2>3. rec.kind # "plan" /\ LastRound(hist) = NoRound
    BY <1>2, <1>3, <1>7, <2>2 DEF BodyLanded
  <2>4. hist \in Seq(Line) /\ hist # <<>>
    BY <1>1, <2>3 DEF CInv, HistoryInv, IInv, TypeOK
  <2>5. ~NoGarbage
    BY <2>3, <2>4, LastGarbage DEF NoGarbage
  <2> QED BY <1>1, <1>2, <1>4, <2>1, <2>3, <2>5
<1> QED BY <1>6, <1>7

\* The save of state.json at the end of a transaction keeps the second
\* invariant.
LEMMA SaveKeeps ==
    ASSUME IInv, CInv, IInv', SaveState
    PROVE  CInv'
<1>1. /\ pc = "save" /\ pc' = "clear"
      /\ UNCHANGED <<intent, hist, cut, plan, rec, measured, crashes>>
  BY DEF SaveState, git
<1>2. crashes' \in Nat /\ crashes' >= crashes /\ crashes \in Nat
  BY <1>1 DEF IInv, TypeOK
<1>3. ReadyInv'
  BY <1>1 DEF ReadyInv
<1>4. Settling' = Settling
  BY <1>1 DEF Settling
<1>5. CASE Committed' = Committed
  <2>1. st' = Committed  BY <1>5, SaveCases
  <2> QED BY <1>1, <1>2, <1>3, <1>4, <1>5, <2>1, UnseenStep
<1>6. CASE /\ rec.kind \in {"round", "baseline"} /\ ~NoGarbage
           /\ Committed = st /\ Committed' = ApplyPatch(rec.kind, st, rec.patch)
  <2>1. rec.kind = "round" /\ ~Settling' => crashes' > crashes
    BY <1>1 DEF Settling
  <2>2. PlanInv' /\ PidInv' /\ PhaseInv' /\ PendingInv' /\ BudgetInv'
        /\ BestMeasured(Committed)'
    BY <1>1, <1>2, <1>6, <2>1, LandStep
  <2>3. ~NoGarbage'
    BY <1>1, <1>6 DEF NoGarbage
  <2>4. HistoryInv'
    BY <1>1, <2>3 DEF CInv, HistoryInv
  <2>5. BestMeasured(st)'
    BY <2>2, SaveCases DEF BestMeasured
  <2> QED BY <1>3, <2>2, <2>4, <2>5 DEF CInv
<1> QED BY <1>5, <1>6, SaveCases

-----------------------------------------------------------------------------
(* Settlement and activation *)

\* When a settlement starts, its item is ACTIVE or has been settled before.
LEMMA SettleFinds ==
    ASSUME IInv, CInv, pc = "settle"
    PROVE  /\ ~SettleFails
           /\ Committed = st
           /\ ~AlreadySettled => st.pending_settle.item = plan.active /\ plan.active # 0
<1>1. Committed = st /\ st.pending_settle # NoPending
  BY CommittedFacts DEF IInv, JournalInv
<1>2. /\ st.pending_settle.item # 0
      /\ st.pending_settle.item \in {plan.active} \cup SettledItems(plan)
  BY <1>1 DEF CInv, PendingInv
<1>3. PlanExists
  <2> SUFFICES ASSUME plan.version = 0 PROVE FALSE
    BY DEF PlanExists
  <2>1. plan.settled = <<>> /\ plan.ids = {}
    BY DEF CInv, PlanInv, IInv, GapInv
  <2>2. SettledItems(plan) = {} /\ PendingItems(plan) = {}
    BY <2>1 DEF SettledItems, PendingItems
  <2> QED BY <1>2, <2>2 DEF CInv, PlanInv
<1> QED BY <1>1, <1>2, <1>3 DEF SettleFails, AlreadySettled

\* settle moves the ACTIVE item to the Settled History, or finds it there; what
\* the next script sees of state.json is the same.
LEMMA SettlePlanKeeps ==
    ASSUME IInv, CInv, IInv', SettlePlan
    PROVE  CInv' /\ Committed' = Committed
<1>1. /\ pc = "settle" /\ pc' = "settle_save"
      /\ UNCHANGED <<st, intent, hist, cut, measured, crashes>>
      /\ plan' = IF AlreadySettled THEN plan
                 ELSE SettleActive(plan, st.pending_settle.decision)
  BY SettleFinds DEF SettlePlan, git
<1>2. /\ plan \in Plan /\ crashes \in Nat /\ st \in State
  BY DEF IInv, TypeOK
<1>3. plan'.version = plan.version
  BY <1>1, <1>2 DEF SettleActive, Plan
<1>4. Committed' = Committed
  BY <1>1, <1>3, CommittedKept
<1>5. ReadyInv'
  BY <1>1 DEF ReadyInv
<1>6. Settling'
  BY <1>1 DEF Settling
<1>7. CASE AlreadySettled
  <2>1. plan' = plan  BY <1>1, <1>7
  <2>2. crashes' \in Nat /\ crashes' >= crashes  BY <1>1, <1>2
  <2> QED BY <1>1, <1>4, <1>5, <1>6, <2>1, <2>2, UnseenStep
<1>8. CASE ~AlreadySettled
  <2> DEFINE a == plan.active
             row == [item |-> a, decision |-> st.pending_settle.decision]
             left == PendingItems(plan) \ {a}
  <2>1. /\ Committed = st /\ st.pending_settle # NoPending
        /\ st.pending_settle.item = a /\ a # 0 /\ a \in PendingItems(plan)
    BY <1>1, <1>8, SettleFinds DEF IInv, JournalInv, CInv, PlanInv
  <2>2. /\ plan.settled \in Seq([item : Nat, decision : Decisions])
        /\ a \in Nat /\ plan.ids \in SUBSET Nat
    BY <1>2 DEF Plan
  <2>3. st.pending_settle.decision \in Decisions
    BY <1>2, <2>1, StateFacts DEF Pending
  <2>4. /\ plan'.version = plan.version /\ plan'.ids = plan.ids
        /\ plan'.done = plan.done \cup {a} /\ plan'.active = FirstOf(left)
        /\ plan'.settled = Append(plan.settled, row)
    BY <1>1, <1>2, <1>8 DEF SettleActive, Plan
  <2>5. /\ row \in [item : Nat, decision : Decisions]
        /\ row.item = a /\ row.decision = st.pending_settle.decision
    BY <2>2, <2>3
  <2>6. left \in SUBSET Nat  BY <2>2 DEF PendingItems
  <2> HIDE DEF row
  <2>7. /\ Len(plan.settled) \in Nat
        /\ DOMAIN plan.settled = 1 .. Len(plan.settled)
        /\ DOMAIN plan'.settled = 1 .. Len(plan.settled) + 1
        /\ plan'.settled[Len(plan.settled) + 1] = row
        /\ \A i \in 1 .. Len(plan.settled) : plan'.settled[i] = plan.settled[i]
    BY <2>2, <2>4, <2>5, AppendShape
  <2>8. SettledItems(plan)' = SettledItems(plan) \cup {a}
    BY <2>5, <2>7 DEF SettledItems
  <2>9. PendingItems(plan)' = left
    BY <2>4 DEF PendingItems
  <2>10. a \in plan.ids /\ a \notin plan.done /\ a \notin SettledItems(plan)
    BY <2>1 DEF PendingItems, CInv, PlanInv
  <2>11. plan'.ids \cap SettledItems(plan)' = plan'.done
    BY <2>4, <2>8, <2>10 DEF CInv, PlanInv
  <2>12. \A i, j \in DOMAIN plan'.settled :
            i # j => plan'.settled[i].item # plan'.settled[j].item
    <3>1. \A i \in 1 .. Len(plan.settled) : plan.settled[i].item # a
      BY <2>7, <2>10 DEF SettledItems
    <3>2. \A i, j \in 1 .. Len(plan.settled) :
             i # j => plan.settled[i].item # plan.settled[j].item
      BY <2>7 DEF CInv, PlanInv
    <3> SUFFICES ASSUME NEW i \in DOMAIN plan'.settled, NEW j \in DOMAIN plan'.settled,
                        i # j
                 PROVE  plan'.settled[i].item # plan'.settled[j].item
      OBVIOUS
    <3>3. \A k \in DOMAIN plan'.settled :
             \/ k = Len(plan.settled) + 1 /\ plan'.settled[k].item = a
             \/ k \in 1 .. Len(plan.settled) /\ plan'.settled[k] = plan.settled[k]
      BY <2>5, <2>7
    <3> QED BY <3>1, <3>2, <3>3
  <2>13. plan.version # 0
    BY <2>10 DEF IInv, GapInv
  <2>14. PlanInv'
    <3>1. left = {} => FirstOf(left) = 0
      BY DEF FirstOf
    <3>2. left # {} => FirstOf(left) \in left
      BY <2>6, FirstOfType
    <3>3. 0 \notin left
      BY DEF CInv, PlanInv, PendingItems
    <3>4. 0 \notin plan'.ids
      BY <2>4 DEF CInv, PlanInv
    <3> HIDE DEF left
    <3> QED BY <2>4, <2>9, <2>11, <2>12, <2>13, <3>1, <3>2, <3>3, <3>4 DEF PlanInv
  <2>15. PidInv'
    BY <1>4, <2>4, <2>8, <2>10 DEF CInv, PidInv
  <2>16. Committed.phase = "EDIT" /\ Committed.progress_initialized
    BY <2>1 DEF CInv, PendingInv, PhaseInv
  <2>17. PhaseInv'
    BY <1>4, <2>1, <2>16 DEF CInv, PhaseInv
  <2>18. PendingInv'
    BY <1>4, <2>1, <2>8 DEF CInv, PendingInv
  <2>19. BudgetInv'
    BY <1>1, <1>4, <1>6, <2>1 DEF CInv, BudgetInv
  <2>20. HistoryInv'
    <3>1. NoGarbage' = NoGarbage /\ Matches' = Matches
      BY <1>1, <1>4 DEF NoGarbage, Matches
    <3>2. NoGarbage => HasRow(hist, a, st.pending_settle.decision)
      BY <2>1 DEF CInv, HistoryInv
    <3>3. NoGarbage => \A i \in 1 .. Len(plan.settled) :
              HasRow(hist, plan.settled[i].item, plan.settled[i].decision)
      BY <2>7 DEF CInv, HistoryInv
    <3>4. NoGarbage => \A i \in DOMAIN plan'.settled :
              HasRow(hist, plan'.settled[i].item, plan'.settled[i].decision)
      BY <2>5, <2>7, <3>2, <3>3
    <3> QED BY <1>1, <1>4, <3>1, <3>4 DEF CInv, HistoryInv
  <2>21. BestMeasured(st)' /\ BestMeasured(Committed)'
    BY <1>1, <1>4 DEF CInv, BestMeasured
  <2> QED BY <1>4, <1>5, <2>14, <2>15, <2>17, <2>18, <2>19, <2>20, <2>21 DEF CInv
<1> QED BY <1>7, <1>8

\* A new phase that fits the progress and plan.md keeps the second invariant.
LEMMA PhaseMove ==
    ASSUME IInv, CInv, IInv', UNCHANGED <<plan, hist, cut, measured, crashes>>,
           Committed = st, Committed' = st', pc' \in {"idle", "settle_marker"},
           NEW ph,
           \/ st' = [st EXCEPT !.phase = ph] /\ st.pending_settle = NoPending
           \/ st' = [st EXCEPT !.phase = ph, !.pending_settle = NoPending],
           ph \in {"INIT", "BASELINE"} <=> ~st.progress_initialized,
           ph = "EDIT" => plan.active # 0 /\ st.eval_rounds < MaxRounds,
           ph = "PLAN" => st.seed_metric = NoMetric \/ plan.version = 0,
           ph = "REPLAN" => plan.active = 0 /\ plan.version # 0,
           ph \in {"PLAN", "REPLAN", "DIAGNOSE"} => st.eval_rounds < MaxRounds
    PROVE  CInv'
<1>1. st \in State  BY DEF IInv, TypeOK
<1>2. /\ Committed'.phase = ph /\ Committed'.pending_settle = NoPending
      /\ Committed'.progress_initialized = st.progress_initialized
      /\ Committed'.eval_rounds = st.eval_rounds
      /\ Committed'.seed_metric = st.seed_metric
      /\ Committed'.baseline_ok = st.baseline_ok
      /\ Committed'.best_metric = st.best_metric
      /\ Committed'.best_commit = st.best_commit
      /\ Committed'.consecutive_failures = st.consecutive_failures
      /\ Committed'.next_pid = st.next_pid
  BY <1>1 DEF State
<1>3. PlanInv' /\ PidInv'
  BY <1>2 DEF CInv, PlanInv, PidInv, PendingItems, SettledItems
<1>4. PhaseInv'
  <2>1. /\ st.baseline_ok <=> st.seed_metric # NoMetric
        /\ ~st.progress_initialized => st.consecutive_failures = 0
    BY DEF CInv, PhaseInv
  <2>2. Committed'.baseline_ok <=> Committed'.seed_metric # NoMetric
    BY <1>2, <2>1, Zenon
  <2>3. Committed'.phase \in {"INIT", "BASELINE"} <=> ~Committed'.progress_initialized
    BY <1>2, Zenon
  <2> QED BY <1>2, <2>1, <2>2, <2>3 DEF PhaseInv
<1>5. PendingInv'
  BY <1>2 DEF PendingInv
<1>6. BudgetInv'
  <2>1. st.eval_rounds \in Nat /\ crashes \in Nat /\ MaxRounds \in Nat
    BY <1>1, StateFacts, ConstantsAssumption DEF IInv, TypeOK
  <2>2. st.eval_rounds <= MaxRounds + crashes
    BY DEF CInv, BudgetInv
  <2> QED BY <1>2, <2>1, <2>2 DEF BudgetInv
<1>7. HistoryInv'
  <2>1. NoGarbage' = NoGarbage /\ Matches' = Matches
    BY <1>2 DEF NoGarbage, Matches
  <2> QED BY <1>2, <2>1 DEF CInv, HistoryInv
<1>8. BestMeasured(st)' /\ BestMeasured(Committed)'
  BY <1>2 DEF CInv, BestMeasured
<1>9. ReadyInv'
  BY DEF ReadyInv
<1> QED BY <1>3, <1>4, <1>5, <1>6, <1>7, <1>8, <1>9 DEF CInv

\* Task.activate changes the phase of a new task, and of one whose seed kernel
\* failed and whose plan is used up; any other task it leaves where it is.
LEMMA ActivateMoves ==
    ASSUME IInv, CInv, Committed = st
    PROVE  \/ ActivateTarget = st.phase
           \/ /\ st.phase = "INIT" /\ ActivateTarget = "BASELINE"
              /\ ~st.progress_initialized /\ st.pending_settle = NoPending
           \/ /\ st.phase = "REPLAN" /\ ActivateTarget = "PLAN"
              /\ st.seed_metric = NoMetric /\ st.pending_settle = NoPending
              /\ st.eval_rounds < MaxRounds
<1>1. st.eval_rounds \in Nat /\ MaxRounds \in Nat /\ st.phase \in Phases
  BY StateFacts, ConstantsAssumption DEF IInv, TypeOK
<1>2. CASE st.pending_settle # NoPending
  BY <1>2 DEF CInv, PendingInv, ActivateTarget
<1>3. CASE st.pending_settle = NoPending
  <2>1. CASE st.phase = "INIT"
    <3>1. ~st.progress_initialized  BY <2>1 DEF CInv, PhaseInv
    <3> QED BY <1>3, <2>1, <3>1 DEF ActivateTarget, PhaseOnResume
  <2>2. CASE st.phase = "PLAN"
    <3>1. /\ st.progress_initialized /\ st.eval_rounds < MaxRounds
          /\ st.seed_metric = NoMetric \/ plan.version = 0
      BY <2>2 DEF CInv, PhaseInv, BudgetInv
    <3>2. PhaseOnResume = "PLAN"
      BY <1>1, <3>1 DEF PhaseOnResume, PlanExists
    <3> QED BY <1>3, <2>2, <3>2 DEF ActivateTarget
  <2>3. CASE st.phase = "REPLAN"
    <3>1. /\ st.progress_initialized /\ st.eval_rounds < MaxRounds
          /\ st.baseline_ok <=> st.seed_metric # NoMetric
          /\ plan.active = 0 /\ plan.version # 0 /\ PendingItems(plan) = {}
      BY <2>3 DEF CInv, PhaseInv, PlanInv, BudgetInv
    <3>2. CASE st.seed_metric = NoMetric
      <4>1. PhaseOnResume = "PLAN"
        BY <1>1, <3>1, <3>2 DEF PhaseOnResume
      <4>2. ActivateTarget = "PLAN"
        BY <1>3, <2>3, <4>1 DEF ActivateTarget
      <4> QED BY <1>3, <2>3, <3>1, <3>2, <4>2
    <3>3. CASE st.seed_metric # NoMetric
      <4>1. PhaseOnResume = "REPLAN"
        BY <1>1, <3>1, <3>3 DEF PhaseOnResume, PlanExists
      <4> QED BY <1>3, <2>3, <4>1 DEF ActivateTarget
    <3> QED BY <3>2, <3>3
  <2>4. CASE st.phase \notin {"INIT", "PLAN", "REPLAN"}
    <3>1. st.phase = "BASELINE" => ~st.progress_initialized
      BY DEF CInv, PhaseInv
    <3> QED BY <1>3, <2>4, <3>1 DEF ActivateTarget
  <2> QED BY <2>1, <2>2, <2>3, <2>4
<1> QED BY <1>2, <1>3

\* Activation saves a phase that fits the progress and plan.md.
LEMMA ActivateKeeps ==
    ASSUME IInv, CInv, IInv', UNCHANGED <<intent, hist, cut, plan, measured, crashes>>,
           pc = "enter", pc' = "idle", st' = [st EXCEPT !.phase = ActivateTarget]
    PROVE  CInv' /\ Committed = st /\ Committed' = st'
<1>1. st \in State /\ crashes \in Nat /\ intent.kind = "none"
  BY DEF IInv, TypeOK, JournalInv
<1>2. Committed = st /\ Committed' = st'
  BY <1>1, CommittedFacts DEF IInv, Committed, CaughtUp
<1>3. CASE ActivateTarget = st.phase
  <2>1. st' = st
    BY <1>1, <1>3 DEF State
  <2>2. crashes' \in Nat /\ crashes' >= crashes  BY <1>1
  <2>3. ReadyInv' /\ ~Settling
    BY DEF ReadyInv, Settling
  <2> QED BY <1>2, <2>1, <2>2, <2>3, UnseenStep
<1>4. CASE /\ st.phase = "INIT" /\ ActivateTarget = "BASELINE"
           /\ ~st.progress_initialized /\ st.pending_settle = NoPending
  BY <1>2, <1>4, PhaseMove
<1>5. CASE /\ st.phase = "REPLAN" /\ ActivateTarget = "PLAN"
           /\ st.seed_metric = NoMetric /\ st.pending_settle = NoPending
           /\ st.eval_rounds < MaxRounds
  <2>1. st.progress_initialized
    BY <1>2, <1>5 DEF CInv, PhaseInv
  <2>2. PICK ph : ph = "PLAN"
    OBVIOUS
  <2>3. st' = [st EXCEPT !.phase = ph] /\ st.pending_settle = NoPending
    BY <1>5, <2>2
  <2>4. /\ ph \in {"INIT", "BASELINE"} <=> ~st.progress_initialized
        /\ ph # "EDIT" /\ ph # "REPLAN"
    BY <2>1, <2>2
  <2>5. CInv'
    BY <1>2, <1>5, <2>3, <2>4, PhaseMove
  <2> QED BY <1>2, <2>5
<1> QED BY <1>2, <1>3, <1>4, <1>5, ActivateMoves

\* The save that ends a settlement: the pending round is cleared and the phase
\* is the one after the round.
LEMMA SettleSaveKeeps ==
    ASSUME IInv, CInv, IInv', SettleSave
    PROVE  /\ CInv' /\ Committed = st /\ Committed' = st'
           /\ st.phase = "EDIT" /\ st.pending_settle # NoPending
<1>1. /\ pc = "settle_save" /\ pc' = "settle_marker"
      /\ UNCHANGED <<intent, hist, cut, plan, measured, crashes>>
      /\ st' = [st EXCEPT !.phase = PhaseAfterRound, !.pending_settle = NoPending]
  BY DEF SettleSave, git
<1>2. st \in State /\ intent.kind = "none" /\ st.pending_settle # NoPending
  BY <1>1 DEF IInv, TypeOK, JournalInv
<1>3. Committed = st /\ Committed' = st'
  BY <1>1, <1>2, CommittedFacts DEF IInv, Committed, CaughtUp
<1>4. /\ st.phase = "EDIT" /\ st.progress_initialized
      /\ st.pending_settle.item # 0
      /\ st.pending_settle.item \in {plan.active} \cup SettledItems(plan)
  BY <1>2, <1>3 DEF CInv, PendingInv, PhaseInv
<1>5. plan.version # 0
  <2> SUFFICES ASSUME plan.version = 0 PROVE FALSE
    OBVIOUS
  <2>1. plan.settled = <<>> /\ plan.ids = {}
    BY DEF CInv, PlanInv, IInv, GapInv
  <2>2. SettledItems(plan) = {} /\ PendingItems(plan) = {}
    BY <2>1 DEF SettledItems, PendingItems
  <2> QED BY <1>4, <2>2 DEF CInv, PlanInv
<1>6. st.eval_rounds \in Nat /\ MaxRounds \in Nat
  BY <1>2, StateFacts, ConstantsAssumption
<1>7. /\ PhaseAfterRound \in {"FINISH", "DIAGNOSE", "EDIT", "REPLAN"}
      /\ PhaseAfterRound # "FINISH" => st.eval_rounds < MaxRounds
      /\ PhaseAfterRound = "EDIT" => PendingItems(plan) # {}
      /\ PhaseAfterRound = "REPLAN" => PendingItems(plan) = {}
  BY <1>6 DEF PhaseAfterRound
<1>8. /\ PhaseAfterRound = "EDIT" => plan.active # 0
      /\ PhaseAfterRound = "REPLAN" => plan.active = 0
  BY <1>7 DEF CInv, PlanInv
<1>9. PICK ph : ph = PhaseAfterRound
  OBVIOUS
<1>10. /\ st' = [st EXCEPT !.phase = ph, !.pending_settle = NoPending]
       /\ ph \in {"FINISH", "DIAGNOSE", "EDIT", "REPLAN"}
       /\ ph # "FINISH" => st.eval_rounds < MaxRounds
       /\ ph = "EDIT" => plan.active # 0
       /\ ph = "REPLAN" => plan.active = 0
  BY <1>1, <1>7, <1>8, <1>9
<1>11. CInv'
  BY <1>1, <1>3, <1>4, <1>5, <1>10, PhaseMove
<1> QED BY <1>2, <1>3, <1>4, <1>11

-----------------------------------------------------------------------------
(* Recording: the transactions are ready when they are begun *)

\* Nothing is written when a transaction begins.
LEMMA StartKeeps ==
    ASSUME IInv, CInv, IInv', UNCHANGED <<st, intent, hist, cut, plan, crashes>>,
           measured \subseteq measured', pc = "enter", pc' = "intent", ReadyInv'
    PROVE  CInv' /\ Committed' = Committed
<1>1. Committed' = Committed
  BY CommittedKept
<1>2. crashes' \in Nat /\ crashes' >= crashes /\ ~Settling
  BY DEF IInv, TypeOK, Settling
<1> QED BY <1>1, <1>2, UnseenStep

\* A round that a pipeline begins is recorded for the ACTIVE item, with a
\* decision and metrics that fit each other.
LEMMA RoundBegins ==
    ASSUME IInv, CInv, IInv', RoundStarts, UNCHANGED <<files, crashes>>,
           measured \subseteq measured', pc' = "intent",
           NEW s \in State, NEW decision \in Decisions, NEW cur \in Metrics \cup {NoMetric},
           rec' = RoundRec(s, decision, cur),
           s.seed_metric = st.seed_metric, s.baseline_ok = st.baseline_ok,
           \/ /\ decision = "KEEP" /\ s.best_metric = cur /\ cur \in Metrics
              /\ s.consecutive_failures = 0
           \/ /\ decision \in {"DISCARD", "FAIL"} /\ s.best_metric = st.best_metric
              /\ s.consecutive_failures \in
                    {st.consecutive_failures, st.consecutive_failures + 1},
           s.best_metric # NoMetric => <<s.best_commit, s.best_metric>> \in measured'
    PROVE  CInv' /\ Committed' = Committed
<1>1. pc = "enter" /\ st.pending_settle = NoPending /\ UNCHANGED <<st, intent, hist, cut, plan>>
  BY DEF RoundStarts, Entered, files
<1>2. NextRound = st.expected_history_round + 1
  BY DEF NextRound, IInv, StateInv
<1> DEFINE pending == [item |-> plan.active, decision |-> decision, round |-> NextRound]
           patch == [s EXCEPT !.eval_rounds = NextRound,
                              !.expected_history_round = NextRound,
                              !.pending_settle = pending]
           row == [round |-> NextRound, decision |-> decision,
                   item |-> plan.active, metric |-> cur]
<1>3. pending.item = plan.active /\ pending.decision = decision
      /\ row.item = plan.active /\ row.decision = decision /\ row.metric = cur
  OBVIOUS
<1>4. rec'.kind = "round" /\ rec'.n = NextRound /\ rec'.patch = patch /\ rec'.row = row
  BY DEF RoundRec
<1> HIDE DEF pending, row
<1>5. /\ patch.seed_metric = s.seed_metric /\ patch.baseline_ok = s.baseline_ok
      /\ patch.best_metric = s.best_metric /\ patch.best_commit = s.best_commit
      /\ patch.consecutive_failures = s.consecutive_failures
      /\ patch.pending_settle = pending
  BY DEF State
<1> HIDE DEF patch
<1>6. RoundReady'
  BY <1>1, <1>2, <1>3, <1>4, <1>5 DEF RoundReady
<1>7. BestMeasured(rec.patch)'
  BY <1>4, <1>5 DEF BestMeasured
<1>8. ReadyInv'
  BY <1>4, <1>6, <1>7 DEF ReadyInv
<1> QED BY <1>1, <1>8, StartKeeps

\* Every script that begins a transaction prepares one that is ready.
LEMMA RecordingKeeps ==
    ASSUME IInv, CInv, IInv', Recording
    PROVE  CInv' /\ Committed' = Committed
<1> USE DEF files
<1>1. st \in State /\ head \in Nat
  BY DEF IInv, TypeOK
<1>2. CASE \E m \in Metrics \cup {NoMetric} : RecordBaseline(m)
  <2>1. PICK m \in Metrics \cup {NoMetric} : RecordBaseline(m)  BY <1>2
  <2>2. /\ pc = "enter" /\ pc' = "intent" /\ ~st.progress_initialized
        /\ UNCHANGED <<st, intent, hist, cut, plan, crashes>>
        /\ measured' = measured \cup (IF m = NoMetric THEN {} ELSE {<<head, m>>})
    BY <2>1 DEF RecordBaseline, Entered, Start, Precheck
  <2>3. st.phase = "BASELINE"
    BY <2>1 DEF RecordBaseline, Refused, Entered, Precheck
  <2>4. /\ BaselinePatch(m).best_metric = m /\ BaselinePatch(m).seed_metric = m
        /\ BaselinePatch(m).baseline_ok = (m # NoMetric)
        /\ BaselinePatch(m).consecutive_failures = 0
        /\ BaselinePatch(m).best_commit = IF m = NoMetric THEN NoCommit ELSE head
    BY <1>1 DEF BaselinePatch, State
  <2>5. /\ rec'.kind = "baseline" /\ rec'.patch = BaselinePatch(m)
        /\ rec'.row.decision = "SEED" /\ rec'.row.metric = m
    BY <2>1 DEF RecordBaseline, Start
  <2>6. BaselineReady'
    <3>1. rec'.patch.baseline_ok <=> rec'.row.metric # NoMetric
      BY <2>4, <2>5, Zenon
    <3> QED BY <2>2, <2>3, <2>4, <2>5, <3>1 DEF BaselineReady
  <2>7. BestMeasured(rec.patch)'
    BY <2>2, <2>4, <2>5 DEF BestMeasured
  <2>8. ReadyInv'
    BY <2>5, <2>6, <2>7 DEF ReadyInv
  <2> QED BY <2>2, <2>8, StartKeeps
<1>3. CASE \E m \in Metrics, noop \in BOOLEAN : RoundKeep(m, noop)
  <2>1. PICK m \in Metrics, noop \in BOOLEAN : RoundKeep(m, noop)  BY <1>3
  <2>2. head' \in Nat  BY DEF IInv, TypeOK
  <2> DEFINE s == Kept(m, head')
  <2>3. s \in State  BY <2>2, KeptType DEF IInv
  <2>4. /\ s.seed_metric = st.seed_metric /\ s.baseline_ok = st.baseline_ok
        /\ s.best_metric = m /\ s.best_commit = head' /\ s.consecutive_failures = 0
    BY <1>1 DEF Kept, State
  <2>5. rec' = RoundRec(s, "KEEP", m) /\ pc' = "intent"
    BY <2>1 DEF RoundKeep, Start
  <2>6. measured \subseteq measured' /\ <<head', m>> \in measured'
    BY <2>1 DEF RoundKeep
  <2>7. RoundStarts /\ UNCHANGED <<files, crashes>>
    BY <2>1 DEF RoundKeep
  <2> HIDE DEF s
  <2>8. "KEEP" \in Decisions  BY DEF Decisions
  <2> QED BY <2>3, <2>4, <2>5, <2>6, <2>7, <2>8, RoundBegins
<1>4. CASE \E m \in Metrics \cup {NoMetric}, fails \in BOOLEAN : RoundRollback(m, fails)
  <2>1. PICK m \in Metrics \cup {NoMetric}, fails \in BOOLEAN : RoundRollback(m, fails)
    BY <1>4
  <2> DEFINE d == IF fails THEN "FAIL" ELSE Decide(m)
             s == NotKept(d)
  <2>2. d \in {"DISCARD", "FAIL"}
    BY <2>1, DecideType DEF IInv, Decisions, RoundRollback
  <2>3. rec' = RoundRec(s, d, m) /\ pc' = "intent"
    BY <2>1 DEF RoundRollback, Start
  <2>4. RoundStarts /\ UNCHANGED <<files, crashes, measured>>
    BY <2>1 DEF RoundRollback
  <2> HIDE DEF d
  <2>5. s \in State  BY NotKeptType DEF IInv
  <2>6. /\ s.seed_metric = st.seed_metric /\ s.baseline_ok = st.baseline_ok
        /\ s.best_metric = st.best_metric /\ s.best_commit = st.best_commit
        /\ s.consecutive_failures \in
              {st.consecutive_failures, st.consecutive_failures + 1}
    BY <1>1 DEF NotKept, State
  <2> HIDE DEF s
  <2>7. d \in Decisions  BY <2>2 DEF Decisions
  <2>8. s.best_metric # NoMetric => <<s.best_commit, s.best_metric>> \in measured'
    BY <2>4, <2>6 DEF CInv, BestMeasured
  <2> QED BY <2>2, <2>3, <2>4, <2>5, <2>6, <2>7, <2>8, RoundBegins
<1>5. CASE \E size \in PlanSizes : CommitPlan(size)
  <2>1. PICK size \in PlanSizes : CommitPlan(size)  BY <1>5
  <2> DEFINE first == ComputeNextPid
             next == ComputeNextPid + size
  <2>2. /\ pc = "enter" /\ pc' = "intent"
        /\ UNCHANGED <<st, intent, hist, cut, plan, crashes, measured>>
        /\ rec'.kind = "plan" /\ rec'.n = st.plan_version + 1
        /\ rec'.patch = PlanPatch(next) /\ rec'.ids = first .. first + size - 1
    BY <2>1 DEF CommitPlan, Entered, Start, git
  <2>3. /\ st.plan_version = st.expected_plan_version
        /\ \/ st.phase \in {"PLAN", "REPLAN", "DIAGNOSE"}
           \/ st.phase = "EDIT" /\ st.pending_settle # NoPending
    BY <2>1 DEF CommitPlan, Entered, Refused, IInv, StateInv
  <2>4. first \in Nat /\ first # 0 /\ first >= st.next_pid /\ size \in Nat /\ size # 0
    BY <2>2, NextPidType, ConstantsAssumption
  <2>5. st.next_pid \in Nat  BY <1>1, StateFacts
  <2> HIDE DEF first
  <2>6. next = first + size  BY DEF first
  <2> HIDE DEF next
  <2>7. /\ first .. first + size - 1 # {}
        /\ \A i \in first .. first + size - 1 : i # 0 /\ st.next_pid <= i /\ i < next
    BY <2>4, <2>5, <2>6
  <2>8. /\ PlanPatch(next).next_pid = next
        /\ PlanPatch(next).consecutive_failures =
              IF st.phase = "DIAGNOSE" THEN 0 ELSE st.consecutive_failures
    BY <1>1 DEF PlanPatch, State
  <2>9. PlanReady'
    BY <2>2, <2>3, <2>7, <2>8 DEF PlanReady
  <2>10. ReadyInv'
    BY <2>2, <2>9 DEF ReadyInv
  <2> QED BY <2>2, <2>10, StartKeeps
<1> QED BY <1>2, <1>3, <1>4, <1>5 DEF Recording

-----------------------------------------------------------------------------
(* Every step keeps the second invariant, and what it changes of Committed *)

\* A transaction takes effect: Committed receives its patch.
Lands ==
    /\ pc \in {"body", "save"}
    /\ Committed = st /\ Committed' = ApplyPatch(rec.kind, st, rec.patch)

\* A task is activated: its phase is saved, without a transaction.
Activates ==
    /\ Committed = st /\ Committed' = st'
    /\ st' = [st EXCEPT !.phase = ActivateTarget]

\* Steps that leave the files alone.
LEMMA QuietKeeps ==
    ASSUME IInv, CInv, IInv', UNCHANGED <<st, intent, hist, cut, plan, measured>>,
           pc' \notin {"intent", "body", "save"},
           Settling /\ ~Settling' => crashes' > crashes,
           crashes' \in Nat, crashes' >= crashes
    PROVE  CInv' /\ Committed' = Committed
<1>1. Committed' = Committed
  BY CommittedKept
<1>2. ReadyInv'
  BY DEF ReadyInv
<1> QED BY <1>1, <1>2, UnseenStep

\* Steps that replay, write or drop the journal.
LEMMA JournalKeeps ==
    ASSUME IInv, CInv, IInv',
           ReplayRebuild \/ ReplayClear \/ ReplayDrop \/ WriteIntent \/ ClearIntent
    PROVE  CInv' /\ Committed' = Committed
<1>1. UNCHANGED <<hist, cut, plan, measured, crashes>>
  BY DEF ReplayRebuild, ReplayClear, ReplayDrop, WriteIntent, ClearIntent, git
<1>2. crashes' \in Nat /\ crashes' >= crashes
  BY <1>1 DEF IInv, TypeOK
<1>3. CASE ReplayRebuild
  <2>1. /\ st' = Committed /\ pc' = "open_clear" /\ pc = "open"
    BY <1>3 DEF ReplayRebuild, Committed
  <2>2. Committed' = st'
    BY <2>1 DEF Committed, IInv, JournalInv
  <2>3. ReadyInv' /\ ~Settling
    BY <2>1 DEF ReadyInv, Settling
  <2> QED BY <1>1, <1>2, <2>1, <2>2, <2>3, UnseenStep
<1>4. CASE ReplayClear \/ ReplayDrop
  <2>1. /\ st' = st /\ intent' = NoIntent /\ pc' = "enter" /\ pc \in {"open", "open_clear"}
        /\ CaughtUp \/ ~BodyLanded
    BY <1>4 DEF ReplayClear, ReplayDrop, IInv, JournalInv
  <2>2. Committed = st
    BY <2>1 DEF Committed
  <2>3. Committed' = st'
    BY <2>1 DEF Committed, CaughtUp, NoIntent
  <2>4. ReadyInv' /\ ~Settling
    BY <2>1 DEF ReadyInv, Settling
  <2> QED BY <1>1, <1>2, <2>1, <2>2, <2>3, <2>4, UnseenStep
<1>5. CASE WriteIntent
  <2>1. pc = "intent" /\ pc' = "body" /\ UNCHANGED <<st, rec>>
    BY <1>5 DEF WriteIntent
  <2>2. Committed = st
    BY <2>1, CommittedBefore
  <2>3. Committed' = st'
    <3>1. /\ NotYet(rec.kind, rec.n) /\ rec.kind \in {"round", "baseline", "plan"}
          /\ Fits(rec.kind, rec.n, rec.patch)
      BY <2>1, RecFacts DEF IInv, JournalInv, Transacting
    <3>2. intent' = [kind |-> rec.kind, n |-> rec.n, patch |-> rec.patch]
      BY <1>5 DEF WriteIntent
    <3>3. ~BodyLanded'
      BY <1>1, <3>1, <3>2 DEF BodyLanded, NotYet, NoRound
    <3> QED BY <3>3 DEF Committed
  <2>4. ReadyInv' /\ ~Settling
    BY <1>1, <2>1, ReadyKept DEF CInv, Settling
  <2> QED BY <1>1, <1>2, <2>1, <2>2, <2>3, <2>4, UnseenStep
<1>6. CASE ClearIntent
  <2>1. /\ st' = st /\ intent' = NoIntent /\ pc = "clear" /\ CaughtUp
        /\ rec.kind = "round" => pc' = "settle"
        /\ rec.kind # "round" => pc' = "idle"
    BY <1>6 DEF ClearIntent, Done, IInv, JournalInv
  <2>2. Committed = st
    BY <2>1 DEF Committed
  <2>3. Committed' = st'
    BY <2>1 DEF Committed, CaughtUp, NoIntent
  <2>4. ReadyInv' /\ (Settling => Settling')
    BY <2>1 DEF ReadyInv, Settling
  <2> QED BY <1>1, <1>2, <2>1, <2>2, <2>3, <2>4, UnseenStep
<1> QED BY <1>3, <1>4, <1>5, <1>6

\* One step keeps the second invariant; Committed changes only where a
\* transaction lands, a settlement ends or a task is activated.
LEMMA StepKeeps ==
    ASSUME IInv, CInv, IInv', [Next]_vars
    PROVE  /\ CInv'
           /\ Committed' = Committed \/ Lands \/ SettleSave \/ Activates
<1> USE DEF files, git, proc
<1>0. crashes \in Nat /\ crashes' \in Nat
  BY DEF IInv, TypeOK
<1>1. CASE \/ \E c \in Commands : Invoke(c)
           \/ Refuse \/ PipelineReject \/ PlanRejected \/ Resume \/ SettleMarker
           \/ PipelineReplay
  <2>1. /\ UNCHANGED <<st, intent, hist, cut, plan, measured, crashes>>
        /\ pc' \notin {"intent", "body", "save"}
        /\ pc \in {"idle", "enter", "settle_marker"}
    BY <1>1 DEF Invoke, Refuse, PipelineReject, PlanRejected, Resume, SettleMarker,
                PipelineReplay, Entered, Done
  <2>2. ~Settling
    BY <2>1 DEF Settling
  <2>3. crashes' >= crashes
    BY <1>0, <2>1
  <2> QED BY <1>0, <2>1, <2>2, <2>3, QuietKeeps
<1>2. CASE AgentEdit
  <2>1. /\ UNCHANGED <<st, intent, hist, cut, plan, measured, crashes>>
        /\ pc = "idle" /\ pc' = "idle"
    BY <1>2 DEF AgentEdit
  <2>2. ~Settling /\ crashes' >= crashes
    BY <1>0, <2>1 DEF Settling
  <2> QED BY <1>0, <2>1, <2>2, QuietKeeps
<1>3. CASE Crash
  <2>1. /\ UNCHANGED <<st, intent, hist, cut, plan, measured>>
        /\ pc' = "idle" /\ crashes' = crashes + 1
    BY <1>3 DEF Crash, Killed, Done
  <2>2. crashes' > crashes /\ crashes' >= crashes
    BY <1>0, <2>1
  <2> QED BY <1>0, <2>1, <2>2, QuietKeeps
<1>4. CASE ReplayRebuild \/ ReplayClear \/ ReplayDrop \/ WriteIntent \/ ClearIntent
  BY <1>4, JournalKeeps
<1>5. CASE BaselineUnavailable
  <2>1. /\ pc = "enter" /\ pc' = "idle" /\ intent' = NoIntent
        /\ UNCHANGED <<hist, cut, plan, measured, crashes>>
        /\ st' = [st EXCEPT !.phase = "BASELINE"] /\ st.phase = "BASELINE"
    BY <1>5 DEF BaselineUnavailable, Entered, Refused, Precheck, Done
  <2>2. st' = st
    <3>1. st \in State  BY DEF IInv, TypeOK
    <3> QED BY <2>1, <3>1 DEF State
  <2>3. Committed = st /\ Committed' = st'
    BY <2>1 DEF IInv, JournalInv, Committed, CaughtUp, NoIntent
  <2>4. ReadyInv' /\ ~Settling
    BY <2>1 DEF ReadyInv, Settling
  <2>5. crashes' >= crashes  BY <1>0, <2>1
  <2> QED BY <1>0, <2>1, <2>2, <2>3, <2>4, <2>5, UnseenStep
<1>6. CASE BaselineAlreadyDone \/ Activate
  <2>1. /\ UNCHANGED <<intent, hist, cut, plan, measured, crashes>>
        /\ pc = "enter" /\ pc' = "idle" /\ st' = [st EXCEPT !.phase = ActivateTarget]
    BY <1>6 DEF BaselineAlreadyDone, Activate, Entered, Done
  <2> QED BY <2>1, ActivateKeeps DEF Activates
<1>7. CASE Recording
  BY <1>7, RecordingKeeps
<1>8. CASE AppendHistory
  <2>1. /\ UNCHANGED <<st, intent, plan, measured, rec, crashes>>
        /\ pc = "body" /\ rec.kind # "plan" /\ pc' = "save" /\ crashes' >= crashes
    BY <1>0, <1>8 DEF AppendHistory
  <2>2. CASE AppendsRow
    <3>1. hist' = AppendLine(hist, cut, rec.row)
      BY <1>8, <2>2 DEF AppendHistory
    <3> QED BY <1>0, <2>1, <3>1, AppendKeeps DEF Lands
  <2>3. CASE ~AppendsRow
    <3>1. /\ UNCHANGED <<hist, cut>> /\ hist # <<>>
      BY <1>8, <2>1, <2>3, RecFacts DEF AppendHistory, AppendsRow, SeedOnDisk
    <3>2. rec.kind = "baseline"
      BY <2>1, <2>3, RecFacts DEF AppendsRow
    <3>3. Committed' = Committed
      BY <2>1, <3>1, CommittedKept
    <3>4. ReadyInv'
      BY <2>1, ReadyKept DEF CInv
    <3>5. ~Settling
      BY <2>1 DEF Settling
    <3> QED BY <1>0, <2>1, <3>1, <3>3, <3>4, <3>5, UnseenStep
  <2> QED BY <2>2, <2>3
<1>9. CASE \E line \in {Garbage, rec.row} : TornAppend(line)
  <2>1. PICK line \in {Garbage, rec.row} : TornAppend(line)  BY <1>9
  <2>2. /\ UNCHANGED <<st, intent, plan, measured>>
        /\ pc = "body" /\ rec.kind # "plan" /\ pc' = "idle" /\ crashes' = crashes + 1
        /\ hist' = AppendLine(hist, cut, line)
    BY <2>1 DEF TornAppend, Killed, Done
  <2>3. crashes' > crashes /\ crashes' >= crashes
    BY <1>0, <2>2
  <2> QED BY <1>0, <2>2, <2>3, AppendKeeps DEF Lands
<1>10. CASE WritePlan
  <2>1. pc = "body" /\ rec.kind = "plan"
    BY <1>10 DEF WritePlan
  <2> QED BY <1>10, <2>1, PlanLands DEF Lands
<1>11. CASE SaveState
  <2>1. pc = "save"
    BY <1>11 DEF SaveState
  <2> QED BY <1>11, <2>1, SaveKeeps, SaveCases DEF Lands
<1>12. CASE SettlePlan
  BY <1>12, SettlePlanKeeps
<1>13. CASE SettleSave
  BY <1>13, SettleSaveKeeps
<1>14. CASE UNCHANGED vars
  <2>1. /\ UNCHANGED <<st, intent, hist, cut, plan, measured, rec, pc, crashes>>
    BY <1>14 DEF vars
  <2>2. Committed' = Committed
    BY <2>1, CommittedKept
  <2>3. Settling' = Settling /\ crashes' >= crashes
    BY <1>0, <2>1 DEF Settling
  <2>4. ReadyInv'
    <3>1. /\ RoundReady' = RoundReady /\ BaselineReady' = BaselineReady
          /\ PlanReady' = PlanReady
          /\ BestMeasured(rec.patch) => BestMeasured(rec.patch)'
      BY <2>1 DEF RoundReady, BaselineReady, PlanReady, BestMeasured
    <3> QED BY <2>1, <3>1 DEF CInv, ReadyInv
  <2> QED BY <1>0, <2>1, <2>2, <2>3, <2>4, UnseenStep
<1> QED
  BY <1>1, <1>2, <1>3, <1>4, <1>5, <1>6, <1>7, <1>8, <1>9, <1>10, <1>11, <1>12,
     <1>13, <1>14 DEF Next, ScriptStep, Transaction

\* A freshly scaffolded task directory satisfies the second invariant.
LEMMA InitKeeps == Init => CInv
<1> SUFFICES ASSUME Init PROVE CInv
  OBVIOUS
<1> USE DEF Init
<1>1. Committed = FreshState /\ st = FreshState
  BY DEF Committed, CaughtUp, NoIntent
<1>2. SettledItems(plan) = {} /\ PendingItems(plan) = {}
  BY DEF SettledItems, PendingItems, NoPlan
<1>3. PlanInv /\ PidInv
  BY <1>2 DEF PlanInv, PidInv, NoPlan
<1>4. PhaseInv /\ PendingInv
  BY <1>1 DEF PhaseInv, PendingInv, FreshState
<1>5. BudgetInv
  <2>1. MaxRounds \in Nat  BY ConstantsAssumption
  <2> QED BY <1>1, <2>1 DEF BudgetInv, FreshState
<1>6. HistoryInv
  BY <1>1 DEF HistoryInv, FreshState, NoPlan
<1>7. BestMeasured(st) /\ BestMeasured(Committed) /\ ReadyInv
  BY <1>1 DEF BestMeasured, FreshState, ReadyInv
<1> QED BY <1>3, <1>4, <1>5, <1>6, <1>7 DEF CInv

-----------------------------------------------------------------------------
(* What follows *)

\* The two invariants together: whatever is killed where, what the next script
\* will see adds up.
THEOREM CommittedInvariant == Spec => [](IInv /\ CInv)
<1>1. IInv /\ CInv /\ [Next]_vars => (IInv /\ CInv)'
  BY StepInv, StepKeeps
<1> QED BY InitInv, InitKeeps, <1>1, PTL DEF Spec

\* Between transactions state.json is what history.jsonl adds up to, however
\* many scripts were killed before.
THEOREM HistoryAddsUp == Spec => []HistoryMatchesState
<1>1. IInv /\ CInv => HistoryMatchesState
  <2> SUFFICES ASSUME IInv, CInv, intent.kind = "none", st.progress_initialized, NoGarbage
               PROVE  AddsUp(hist, st.eval_rounds, st.seed_metric, st.best_metric)
    BY DEF HistoryMatchesState, AddsUp
  <2>1. Committed = st  BY CommittedFacts DEF IInv
  <2> QED BY <2>1 DEF CInv, HistoryInv, Matches
<1> QED BY CommittedInvariant, <1>1, PTL

\* No item is settled twice, and none with a decision that was not recorded.
THEOREM SettledExactlyOnce == Spec => []SettledOnce
<1>1. IInv /\ CInv => SettledOnce
  BY DEF CInv, PlanInv, HistoryInv, HasRow, SettledOnce
<1> QED BY CommittedInvariant, <1>1, PTL

\* No settlement, first or replayed, raises TaskCorrupted.
THEOREM SettlementsSucceed == Spec => []SettleSucceeds
<1>1. IInv /\ CInv => SettleSucceeds
  BY SettleFinds DEF SettleSucceeds
<1> QED BY CommittedInvariant, <1>1, PTL

\* best_commit is the commit that measured best_metric, also right after a kill
\* between a commit and the save of state.json.
THEOREM BestHasCommit == Spec => []BestIsCommitted
<1>1. IInv /\ CInv => BestIsCommitted
  BY DEF CInv, BestMeasured, BestIsCommitted
<1> QED BY CommittedInvariant, <1>1, PTL

\* A round is always bound to an item of the plan.
THEOREM EditIsBound == Spec => []EditHasActive
<1>1. IInv /\ CInv => EditHasActive
  <2> SUFFICES ASSUME IInv, CInv, st.phase = "EDIT", st.pending_settle = NoPending,
                      intent.kind = "none"
               PROVE  plan.active \in PendingItems(plan)
    BY DEF EditHasActive
  <2>1. Committed = st  BY CommittedFacts DEF IInv
  <2> QED BY <2>1 DEF CInv, PhaseInv, PlanInv
<1> QED BY CommittedInvariant, <1>1, PTL

\* The budget is overrun by one round per kill at most, for any budget.
THEOREM BudgetHolds == Spec => []RoundsBounded
<1>1. IInv /\ CInv => RoundsBounded
  <2> SUFFICES ASSUME IInv, CInv PROVE st.eval_rounds <= MaxRounds + crashes
    BY DEF RoundsBounded
  <2>1. /\ st \in State /\ intent.patch \in State /\ intent.kind \in Kinds
        /\ crashes \in Nat /\ MaxRounds \in Nat
    BY ConstantsAssumption DEF IInv, TypeOK
  <2>2. st.eval_rounds \in Nat /\ Committed.eval_rounds \in Nat
    BY <2>1, CommittedFacts, StateFacts DEF IInv
  <2>3. Committed.eval_rounds <= MaxRounds + crashes
    BY DEF CInv, BudgetInv
  <2>4. CASE Committed = st
    BY <2>3, <2>4
  <2>5. CASE Committed # st
    <3>1. Committed = ApplyPatch(intent.kind, st, intent.patch)
      BY <2>5 DEF Committed
    <3>2. st.eval_rounds <= Committed.eval_rounds
      <4>1. Fits(intent.kind, intent.n, intent.patch) /\ StateInv
        BY DEF IInv, JournalInv
      <4>2. CASE intent.kind = "round"
        <5>1. Committed.eval_rounds \in {st.eval_rounds, st.eval_rounds + 1}
          BY <2>1, <3>1, <4>1, <4>2, ApplyPatchFields DEF Fits, RoundFits, StateInv
        <5> QED BY <2>2, <5>1
      <4>3. CASE intent.kind = "baseline"
        <5>1. st.eval_rounds = 0
          BY <4>1, <4>3 DEF Fits, BaselineFits, StateInv
        <5> QED BY <2>2, <5>1
      <4>4. CASE intent.kind \in {"plan", "none"}
        <5>1. Committed.eval_rounds = st.eval_rounds
          BY <2>1, <3>1, <4>4, ApplyPatchFields
        <5> QED BY <2>2, <5>1
      <4> QED BY <2>1, <4>2, <4>3, <4>4 DEF Kinds
    <3> QED BY <2>1, <2>2, <2>3, <3>2
  <2> QED BY <2>4, <2>5
<1> QED BY CommittedInvariant, <1>1, PTL

-----------------------------------------------------------------------------
(* The refinement: every step is one event of TaskEvents, or none *)

\* A transaction that takes effect is the event it stands for.
LEMMA LandsEvent ==
    ASSUME IInv, CInv, Lands
    PROVE  Events!Next
<1>1. /\ rec.kind \in {"round", "baseline", "plan"} /\ rec.kind \in Kinds
      /\ rec.patch \in State /\ rec.row \in Line /\ st \in State /\ rec.n \in Nat
      /\ rec.kind = "round" => RoundReady /\ RoundFits(rec.n, rec.patch)
      /\ rec.kind = "baseline" => BaselineReady /\ BaselineFits(rec.n, rec.patch)
      /\ rec.kind = "plan" => PlanReady /\ PlanFits(rec.n, rec.patch)
  BY RecFacts DEF Lands, Kinds
<1>2. Committed = st /\ Committed' = ApplyPatch(rec.kind, st, rec.patch)
  BY DEF Lands
<1>3. /\ st.eval_rounds = st.expected_history_round
      /\ st.plan_version = st.expected_plan_version
  BY DEF IInv, StateInv
<1>4. CASE rec.kind = "round"
  <2>1. /\ Committed'.phase = st.phase /\ st.phase = "EDIT"
        /\ Committed'.progress_initialized = st.progress_initialized
        /\ st.progress_initialized
        /\ st.pending_settle = NoPending /\ Committed'.pending_settle # NoPending
        /\ Committed'.eval_rounds = st.eval_rounds + 1
        /\ Committed'.plan_version = st.plan_version
    BY <1>1, <1>2, <1>3, <1>4, ApplyPatchFields DEF RoundReady, RoundFits
  <2>2. /\ Committed'.seed_metric = st.seed_metric
        /\ \/ Committed'.best_metric \in Metrics /\ Committed'.consecutive_failures = 0
           \/ /\ Committed'.best_metric = st.best_metric
              /\ Committed'.consecutive_failures \in
                    {st.consecutive_failures, st.consecutive_failures + 1}
    BY <1>1, <1>2, <1>4, ApplyPatchProgress DEF RoundReady
  <2>3. Events!RoundRecorded
    BY <1>2, <2>1, <2>2 DEF Events!RoundRecorded
  <2> QED BY <2>3 DEF Events!Next
<1>5. CASE rec.kind = "baseline"
  <2>1. /\ Committed'.phase = "PLAN" /\ st.phase = "BASELINE"
        /\ Committed'.progress_initialized /\ ~st.progress_initialized
        /\ st.pending_settle = NoPending /\ Committed'.pending_settle = NoPending
        /\ Committed'.eval_rounds = 0 /\ st.eval_rounds = 0
        /\ Committed'.plan_version = 0 /\ st.plan_version = 0
    BY <1>1, <1>2, <1>3, <1>5, ApplyPatchFields DEF BaselineReady, BaselineFits
  <2>2. /\ Committed'.seed_metric = rec.row.metric /\ Committed'.best_metric = rec.row.metric
        /\ Committed'.consecutive_failures = 0
    BY <1>1, <1>2, <1>5, ApplyPatchProgress DEF BaselineReady
  <2>3. st.consecutive_failures = 0
    BY <1>2, <2>1 DEF CInv, PhaseInv
  <2>4. rec.row.metric \in Metrics \cup {0}
    BY <1>1 DEF Line, NoMetric
  <2>5. Committed'.progress_initialized = TRUE
    <3>1. Committed' \in State
      BY <1>1, <1>2, ApplyPatchType
    <3>2. Committed'.progress_initialized \in BOOLEAN
      BY <3>1 DEF State
    <3> QED BY <2>1, <3>2
  <2>6. Events!Baseline(rec.row.metric)
    BY <1>2, <2>1, <2>2, <2>3, <2>5 DEF Events!Baseline
  <2> QED BY <2>4, <2>6 DEF Events!Next
<1>6. CASE rec.kind = "plan"
  <2>1. /\ Committed'.phase = "EDIT" /\ Committed'.pending_settle = NoPending
        /\ Committed'.progress_initialized = st.progress_initialized
        /\ st.progress_initialized
        /\ Committed'.eval_rounds = st.eval_rounds
        /\ Committed'.plan_version = st.plan_version + 1
        /\ \/ st.phase \in {"PLAN", "REPLAN", "DIAGNOSE"}
           \/ st.phase = "EDIT" /\ st.pending_settle # NoPending
    BY <1>1, <1>2, <1>3, <1>6, ApplyPatchFields DEF PlanReady, PlanFits
  <2>2. /\ Committed'.seed_metric = st.seed_metric
        /\ Committed'.best_metric = st.best_metric
        /\ Committed'.consecutive_failures =
              IF st.phase = "DIAGNOSE" THEN 0 ELSE st.consecutive_failures
    BY <1>1, <1>2, <1>6, ApplyPatchProgress DEF PlanReady
  <2>3. Events!PlanCommitted
    BY <1>2, <2>1, <2>2 DEF Events!PlanCommitted
  <2> QED BY <2>3 DEF Events!Next
<1> QED BY <1>1, <1>4, <1>5, <1>6

\* The save at the end of a settlement is its event.
LEMMA SettleEvent ==
    ASSUME IInv, CInv, IInv', SettleSave
    PROVE  Events!Next
<1>1. /\ Committed = st /\ Committed' = st'
      /\ st.phase = "EDIT" /\ st.pending_settle # NoPending
  BY SettleSaveKeeps
<1>2. st \in State /\ st' = [st EXCEPT !.phase = PhaseAfterRound, !.pending_settle = NoPending]
  BY DEF SettleSave, IInv, TypeOK
<1>3. /\ st'.phase = PhaseAfterRound /\ st'.pending_settle = NoPending
      /\ st'.progress_initialized = st.progress_initialized
      /\ st'.seed_metric = st.seed_metric /\ st'.eval_rounds = st.eval_rounds
      /\ st'.consecutive_failures = st.consecutive_failures
      /\ st'.best_metric = st.best_metric /\ st'.plan_version = st.plan_version
  BY <1>2 DEF State
<1>4. /\ st.eval_rounds \in Nat /\ st.consecutive_failures \in Nat
      /\ MaxRounds \in Nat /\ FailThreshold \in Nat
  BY <1>2, StateFacts, ConstantsAssumption
<1>5. PhaseAfterRound \in IF st.eval_rounds >= MaxRounds THEN {"FINISH"}
                          ELSE IF st.consecutive_failures >= FailThreshold THEN {"DIAGNOSE"}
                          ELSE {"EDIT", "REPLAN"}
  BY <1>4 DEF PhaseAfterRound
<1>6. Events!RoundSettled
  BY <1>1, <1>3, <1>5 DEF Events!RoundSettled
<1> QED BY <1>6 DEF Events!Next

\* An activation is the event of that name, or changes nothing.
LEMMA ActivateEvent ==
    ASSUME IInv, CInv, Activates
    PROVE  Events!Next \/ Committed' = Committed
<1>1. /\ Committed = st /\ Committed' = st' /\ st' = [st EXCEPT !.phase = ActivateTarget]
      /\ st \in State
  BY DEF Activates, IInv, TypeOK
<1>2. CASE ActivateTarget = st.phase
  <2>1. st' = st  BY <1>1, <1>2 DEF State
  <2> QED BY <1>1, <2>1
<1>3. CASE \/ st.phase = "INIT" /\ ActivateTarget = "BASELINE"
           \/ st.phase = "REPLAN" /\ ActivateTarget = "PLAN" /\ st.seed_metric = NoMetric
  <2>1. /\ st'.phase = ActivateTarget /\ st'.pending_settle = st.pending_settle
        /\ st'.progress_initialized = st.progress_initialized
        /\ st'.seed_metric = st.seed_metric /\ st'.eval_rounds = st.eval_rounds
        /\ st'.consecutive_failures = st.consecutive_failures
        /\ st'.best_metric = st.best_metric /\ st'.plan_version = st.plan_version
    BY <1>1 DEF State
  <2>2. Events!Activate
    BY <1>1, <1>3, <2>1 DEF Events!Activate, NoMetric
  <2> QED BY <2>2 DEF Events!Next
<1> QED BY <1>1, <1>2, <1>3, ActivateMoves

\* The task directory implements the atomic events: a kill at any write leaves
\* the next script an event that happened, or one that did not.
THEOREM EventsAreAtomic == Spec => EventsAtomic
<1>1. Init => Events!Init
  <2> SUFFICES ASSUME Init PROVE Events!Init
    OBVIOUS
  <2>1. Committed = FreshState
    BY DEF Init, Committed, CaughtUp, NoIntent
  <2> QED BY <2>1 DEF Events!Init, FreshState, NoMetric
<1>2. ASSUME IInv, CInv, IInv', [Next]_vars
      PROVE  [Events!Next]_(Events!evars)
  <2>1. CASE Committed' = Committed
    BY <2>1 DEF Events!evars
  <2>2. CASE Lands
    BY <2>2, <1>2, LandsEvent
  <2>3. CASE SettleSave
    BY <2>3, <1>2, SettleEvent
  <2>4. CASE Activates
    BY <2>1, <2>4, <1>2, ActivateEvent
  <2> QED BY <1>2, <2>1, <2>2, <2>3, <2>4, StepKeeps
<1>3. IInv /\ CInv /\ IInv' /\ [Next]_vars => [Events!Next]_(Events!evars)
  BY <1>2
<1> QED BY CommittedInvariant, <1>1, <1>3, PTL DEF Spec, EventsAtomic, Events!Spec
=============================================================================
