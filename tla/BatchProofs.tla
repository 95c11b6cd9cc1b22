----------------------------- MODULE BatchProofs -----------------------------
(***************************************************************************)
(* Proofs about Batch, for any operators, runners, task directories,       *)
(* retries and faults.  The lock keeps runners apart when no two of them   *)
(* are taking it at once; what a case says of its task holds when each     *)
(* operator is begun once: without --retry-errored, over one manifest.     *)
(***************************************************************************)
EXTENDS Batch, TLAPS

CaseRec == [status : Statuses, task : Tasks \cup {None}, runner : Runners \cup {None},
            cut : BOOLEAN]
TaskRec == [op : Ops \cup {None}, phase : {"none", "BASELINE", "WORK", "FINISH"},
            journal : {"empty", "pending", "broken"}, owned : BOOLEAN, fresh : BOOLEAN]
RunRec == [at : RunnerAt, retry : BOOLEAN, queue : SUBSET Ops, op : Ops \cup {None},
           prev : Tasks \cup {None}, pre : SUBSET Tasks, rc : {0, 1}, cut : BOOLEAN,
           retries : 0..MaxRetries, found : Tasks \cup {None}, ok : BOOLEAN, again : BOOLEAN]
AgentRec == [at : {"none", "boot", "work"}, op : Ops \cup {None}, task : Tasks \cup {None}]
LockRec == [by : Runners, pid : {0} \cup Runners]

\* Where a runner has an operator at hand.
Working == {"stream", "collect", "finish"}

TypeInv ==
  /\ manifest \subseteq Ops
  /\ lock \in {None} \cup LockRec
  /\ cases \in [Ops -> CaseRec]
  /\ task \in [Tasks -> TaskRec]
  /\ run \in [Runners -> RunRec]
  /\ agent \in [Runners -> AgentRec]
  /\ faults \in 0..MaxFaults /\ edits \in 0..MaxEdits
  /\ \A r \in Runners : run[r].at \in Working => run[r].op \in Ops

\* Whoever is past the lock has it; its pid is written before the first case is
\* read; whoever is about to remove the file has nobody to take it from.
LockInv ==
  /\ \A r \in Runners : InBatch(r) => lock # None /\ lock.by = r /\ lock.pid = r
  /\ \A r \in Runners : run[r].at = "pid" => lock # None /\ lock.by = r
  /\ \A r, q \in Runners : run[r].at \in Taking /\ run[q].at \in Taking => r = q
  /\ \A r, q \in Runners : run[r].at = "unlink" => ~InBatch(q)

\* A runner and an agent that work on an operator.
Busy(r, op) == run[r].at \in Working /\ run[r].op = op
Live(r, op) == agent[r].at # "none" /\ agent[r].op = op
On(r, op) == Busy(r, op) \/ Live(r, op)

\* One attempt per operator: its runner and its agent are of the same attempt.
AttemptInv ==
  /\ edits = 0 => \A op \in Ops : cases[op].status = "absent"
  /\ \A op \in Ops : cases[op].status # "absent" => op \in manifest
  /\ manifest # {} => edits # 0
  /\ \A op \in Ops, r \in Runners : cases[op].status \in {"absent", "pending"} => ~On(r, op)
  /\ \A op \in Ops, r, q \in Runners : On(r, op) /\ On(q, op) => r = q
  /\ \A op \in Ops, r \in Runners : Busy(r, op) => cases[op].status = "running" /\ cases[op].runner = r
  /\ \A r \in Runners :
       /\ agent[r].at # "none" => run[r].at = "stream" \/ run[r].at = "out"
       /\ agent[r].at # "none" /\ run[r].at = "stream" => agent[r].op = run[r].op
       /\ agent[r].at # "none" => agent[r].op \in Ops
       /\ agent[r].at = "work" => agent[r].task # None

\* Whose task a directory is, and which journals are pending.
TaskInv ==
  /\ \A op \in Ops : cases[op].task # None => task[cases[op].task].op = op
  /\ \A op \in Ops, r \in Runners :
       cases[op].task # None /\ Live(r, op) => agent[r].task # None
  /\ \A r \in Runners : agent[r].at # "none" /\ agent[r].task # None
                          => task[agent[r].task].op = agent[r].op
  /\ \A t \in Tasks : task[t].journal = "pending" => task[t].phase = "WORK"
  /\ \A r \in Runners : run[r].found # None
       => run[r].at \in Working /\ task[run[r].found].op = run[r].op

\* What a runner that is about to settle its case knows.
SettleInv ==
  \A r \in Runners : run[r].at = "finish" =>
    LET t == cases[run[r].op].task IN
    /\ run[r].ok => Finished(run[r].found)
    /\ ~run[r].ok /\ Finished(t) => run[r].cut \/ task[t].journal = "broken"

CaseInv == AttemptInv /\ TaskInv /\ SettleInv /\ DoneIsFinished
BatchInv == TypeInv /\ LockInv /\ CaseInv

-----------------------------------------------------------------------------
(* Records.                                                                *)

\* The parts of the records have their types.
LEMMA Parts ==
  ASSUME TypeInv
  PROVE  /\ \A op \in Ops : /\ cases[op] \in CaseRec /\ cases[op].status \in Statuses
                            /\ cases[op].task \in Tasks \cup {None}
                            /\ cases[op].runner \in Runners \cup {None}
         /\ \A t \in Tasks : /\ task[t] \in TaskRec /\ task[t].op \in Ops \cup {None}
                             /\ task[t].phase \in {"none", "BASELINE", "WORK", "FINISH"}
                             /\ task[t].journal \in {"empty", "pending", "broken"}
         /\ \A r \in Runners : /\ run[r] \in RunRec /\ run[r].at \in RunnerAt
                               /\ run[r].queue \subseteq Ops /\ run[r].op \in Ops \cup {None}
                               /\ run[r].prev \in Tasks \cup {None}
                               /\ run[r].found \in Tasks \cup {None}
                               /\ run[r].retries \in 0..MaxRetries
                               /\ run[r].cut \in BOOLEAN /\ run[r].pre \subseteq Tasks
         /\ \A r \in Runners : /\ agent[r] \in AgentRec /\ agent[r].at \in {"none", "boot", "work"}
                               /\ agent[r].op \in Ops \cup {None}
                               /\ agent[r].task \in Tasks \cup {None}
<1>1. ASSUME NEW c \in CaseRec
      PROVE  c.status \in Statuses /\ c.task \in Tasks \cup {None} /\ c.runner \in Runners \cup {None}
  BY DEF CaseRec
<1>2. ASSUME NEW t \in TaskRec
      PROVE  /\ t.op \in Ops \cup {None} /\ t.phase \in {"none", "BASELINE", "WORK", "FINISH"}
             /\ t.journal \in {"empty", "pending", "broken"}
  BY DEF TaskRec
<1>3. ASSUME NEW r \in RunRec
      PROVE  /\ r.at \in RunnerAt /\ r.queue \subseteq Ops /\ r.op \in Ops \cup {None}
             /\ r.prev \in Tasks \cup {None} /\ r.found \in Tasks \cup {None}
             /\ r.retries \in 0..MaxRetries /\ r.cut \in BOOLEAN /\ r.pre \subseteq Tasks
  BY DEF RunRec
<1>4. ASSUME NEW a \in AgentRec
      PROVE  /\ a.at \in {"none", "boot", "work"} /\ a.op \in Ops \cup {None}
             /\ a.task \in Tasks \cup {None}
  BY DEF AgentRec
<1> QED
  BY <1>1, <1>2, <1>3, <1>4 DEF TypeInv

\* The records of nothing.
LEMMA Nothing ==
  /\ NoCase \in CaseRec /\ NoCase.status = "absent" /\ NoCase.task = None
  /\ NoTask \in TaskRec /\ NoTask.op = None /\ NoTask.journal = "empty"
  /\ NoAgent \in AgentRec /\ NoAgent.at = "none"
  /\ NoRun \in RunRec /\ NoRun.at = "out" /\ NoRun.found = None
<1>1. NoCase \in CaseRec /\ NoTask \in TaskRec /\ NoAgent \in AgentRec
  BY DEF NoCase, NoTask, NoAgent, CaseRec, TaskRec, AgentRec, Statuses
<1>2. NoRun \in RunRec
  BY BatchAssumption DEF NoRun, RunRec, RunnerAt
<1> QED
  BY <1>1, <1>2 DEF NoCase, NoTask, NoAgent, NoRun

\* Only runner r moves, and to this record.
RunTo(r, rec) ==
  /\ rec \in RunRec /\ run' \in [Runners -> RunRec] /\ run'[r] = rec
  /\ \A q \in Runners \ {r} : run'[q] = run[q]

\* A runner's record is replaced.
LEMMA RunSet ==
  ASSUME TypeInv, NEW r \in Runners, NEW rec \in RunRec, run' = [run EXCEPT ![r] = rec]
  PROVE  RunTo(r, rec)
BY DEF TypeInv, RunTo

\* Go and Dies, as replacements.
LEMMA GoTo ==
  ASSUME TypeInv, NEW r \in Runners, NEW a \in RunnerAt, Go(r, a)
  PROVE  /\ RunTo(r, [run[r] EXCEPT !.at = a])
         /\ run'[r].at = a /\ run'[r].op = run[r].op /\ run'[r].found = run[r].found
         /\ run'[r].cut = run[r].cut /\ run'[r].prev = run[r].prev /\ run'[r].queue = run[r].queue
<1> DEFINE rec == [run[r] EXCEPT !.at = a]
<1>1. run[r] \in RunRec
  BY Parts
<1>2. rec \in RunRec /\ rec.at = a /\ rec.op = run[r].op /\ rec.found = run[r].found
      /\ rec.cut = run[r].cut /\ rec.prev = run[r].prev /\ rec.queue = run[r].queue
  BY <1>1 DEF RunRec
<1>3. run' = [run EXCEPT ![r] = rec]
  BY DEF Go
<1> HIDE DEF rec
<1>4. RunTo(r, rec)
  BY <1>2, <1>3, RunSet
<1>5. run'[r] = rec
  BY <1>4 DEF RunTo
<1> QED
  BY <1>2, <1>4, <1>5 DEF rec

\* A runner that is gone.
LEMMA DiesTo ==
  ASSUME TypeInv, NEW r \in Runners, Dies(r)
  PROVE  RunTo(r, NoRun) /\ run'[r].at = "out" /\ run'[r].found = None
<1>1. RunTo(r, NoRun)
  BY Nothing, RunSet DEF Dies
<1> QED
  BY <1>1, Nothing DEF RunTo

-----------------------------------------------------------------------------
(* The lock.                                                               *)

\* A step that moves one runner outside the taking of the lock.
LEMMA LockQuiet ==
  ASSUME LockInv, NEW r \in Runners, \A q \in Runners \ {r} : run'[q] = run[q],
         lock' = lock,
         \/ run'[r].at = "out" \/ run'[r].at = run[r].at
         \/ run[r].at \in {"recover", "pick", "stream", "collect", "finish"}
            /\ run'[r].at \in {"recover", "pick", "stream", "collect", "finish"}
  PROVE  LockInv'
BY DEF LockInv, InBatch, Taking

\* The runner in the batch leaves and removes the lock.
LEMMA LockLeft ==
  ASSUME LockInv, NEW r \in Runners, \A q \in Runners \ {r} : run'[q] = run[q],
         lock' = None, InBatch(r), run'[r].at = "out"
  PROVE  LockInv'
<1>1. \A q \in Runners : InBatch(q) => q = r
  BY DEF LockInv
<1>2. \A q \in Runners : run[q].at # "pid"
  BY DEF LockInv, InBatch
<1> QED
  BY <1>1, <1>2 DEF LockInv, InBatch, Taking

\* The taking of the lock.
LEMMA LockTaken ==
  ASSUME TypeInv, LockInv, ~Overlap, NEW r \in Runners, Start(r) \/ Acquire(r)
  PROVE  LockInv'
<1>1. CASE Start(r)
  <2>1. run'[r].at = "create" /\ \A q \in Runners \ {r} : run'[q] = run[q]
    BY <1>1 DEF Start, NoRun, TypeInv
  <2>2. \A q \in Runners : run[q].at \notin Taking
    BY <1>1 DEF Start
  <2>3. lock' = lock /\ run[r].at = "out"
    BY <1>1 DEF Start
  <2> QED
    BY <2>1, <2>2, <2>3 DEF LockInv, InBatch, Taking
<1>2. CASE AcquireCreate(r)
  <2>1. run[r].at = "create"
    BY <1>2 DEF AcquireCreate
  <2>2. CASE lock = None
    <3>1. lock' = [by |-> r, pid |-> 0] /\ Go(r, "pid")
      BY <1>2, <2>2 DEF AcquireCreate
    <3>2. lock' \in LockRec /\ lock'.by = r
      BY <3>1 DEF LockRec
    <3>3. lock' # None
      BY <3>2, BatchAssumption DEF LockRec
    <3>4. run'[r].at = "pid" /\ \A q \in Runners \ {r} : run'[q] = run[q]
      BY <3>1, GoTo DEF RunnerAt, RunTo
    <3>5. \A q \in Runners : ~InBatch(q)
      BY <2>2 DEF LockInv
    <3> QED
      BY <2>1, <3>2, <3>3, <3>4, <3>5 DEF LockInv, InBatch, Taking
  <2>3. CASE lock # None
    <3>1. lock' = lock /\ Go(r, "read")
      BY <1>2, <2>3 DEF AcquireCreate
    <3>2. run'[r].at = "read" /\ \A q \in Runners \ {r} : run'[q] = run[q]
      BY <3>1, GoTo DEF RunnerAt, RunTo
    <3> QED
      BY <2>1, <3>1, <3>2 DEF LockInv, InBatch, Taking
  <2> QED
    BY <2>2, <2>3
<1>3. CASE AcquireWritePid(r)
  <2>1. run[r].at = "pid" /\ lock # None /\ lock.by = r
    BY <1>3 DEF AcquireWritePid, LockInv
  <2>2. lock \in LockRec
    BY <2>1 DEF TypeInv
  <2>3. lock' = [lock EXCEPT !.pid = r] /\ Go(r, "recover")
    BY <1>3, <2>1 DEF AcquireWritePid
  <2>4. lock' \in LockRec /\ lock'.by = r /\ lock'.pid = r
    BY <2>1, <2>2, <2>3 DEF LockRec
  <2>5. lock' # None
    BY <2>4, BatchAssumption DEF LockRec
  <2>6. run'[r].at = "recover" /\ \A q \in Runners \ {r} : run'[q] = run[q]
    BY <2>3, GoTo DEF RunnerAt, RunTo
  <2>7. \A q \in Runners : ~InBatch(q)
    BY <2>1 DEF LockInv, InBatch
  <2>8. \A q \in Runners \ {r} : run[q].at \notin Taking
    BY <2>1 DEF LockInv, Taking
  <2> QED
    BY <2>1, <2>4, <2>5, <2>6, <2>7, <2>8 DEF LockInv, InBatch, Taking
<1>4. CASE AcquireRead(r)
  <2>1. run[r].at = "read" /\ lock' = lock
    BY <1>4 DEF AcquireRead
  <2>2. CASE Dies(r)
    BY <2>1, <2>2, DiesTo, LockQuiet DEF RunTo
  <2>3. CASE ~LockHeld /\ Go(r, "unlink")
    <3>1. run'[r].at = "unlink" /\ \A q \in Runners \ {r} : run'[q] = run[q]
      BY <2>3, GoTo DEF RunnerAt, RunTo
    <3>2. \A q \in Runners : ~InBatch(q)
      BY <2>3, BatchAssumption DEF LockHeld, LockInv, Alive, InBatch
    <3> QED
      BY <2>1, <3>1, <3>2 DEF LockInv, InBatch, Taking
  <2> QED
    BY <1>4, <2>2, <2>3 DEF AcquireRead
<1>5. CASE AcquireUnlink(r)
  <2>1. run[r].at = "unlink" /\ lock' = None
    BY <1>5 DEF AcquireUnlink
  <2>2. run'[r].at = "create" /\ \A q \in Runners \ {r} : run'[q] = run[q]
    BY <1>5 DEF AcquireUnlink, TypeInv, RunRec
  <2>3. \A q \in Runners : ~InBatch(q)
    BY <2>1 DEF LockInv
  <2>4. \A q \in Runners \ {r} : run[q].at \notin Taking
    BY <2>1 DEF LockInv, Taking
  <2> QED
    BY <2>1, <2>2, <2>3, <2>4 DEF LockInv, InBatch, Taking
<1> QED
  BY <1>1, <1>2, <1>3, <1>4, <1>5 DEF Acquire

-----------------------------------------------------------------------------
(* What each step does, and the types.                                     *)

\* A step that touches nothing but the runners and the lock.
LEMMA RunnerTypes ==
  ASSUME TypeInv, run' \in [Runners -> RunRec], lock' \in {None} \cup LockRec,
         NEW r \in Runners, \A q \in Runners \ {r} : run'[q] = run[q], run'[r].at \notin Working,
         faults' \in 0..MaxFaults, UNCHANGED <<manifest, cases, task, agent, edits>>
  PROVE  TypeInv'
BY DEF TypeInv

\* The taking of the lock.
LEMMA TakingFacts ==
  ASSUME TypeInv, NEW r \in Runners, Start(r) \/ Acquire(r)
  PROVE  /\ TypeInv' /\ UNCHANGED <<manifest, cases, task, agent, edits>>
         /\ \A q \in Runners \ {r} : run'[q] = run[q]
         /\ run'[r].at \notin Working
         /\ \/ run[r].at \in Taking
            \/ agent[r].at = "none" /\ run[r].at = "out" /\ manifest # {}
         /\ run'[r].at = "out" \/ run[r].at # "out" \/ agent[r].at = "none"
         /\ run'[r].found \in {run[r].found, None}
<1>1. CASE Start(r)
  <2> DEFINE rec == [NoRun EXCEPT !.at = "create"]
  <2>1. rec \in RunRec /\ rec.at = "create" /\ rec.found = None
    BY Nothing DEF RunRec, RunnerAt
  <2>2. run' = [run EXCEPT ![r] = rec]
    BY <1>1 DEF Start
  <2> HIDE DEF rec
  <2>3. RunTo(r, rec)
    BY <2>1, <2>2, RunSet
  <2> QED
    BY <1>1, <2>1, <2>3, RunnerTypes DEF RunTo, Start, ResolveCases, TypeInv, Working
<1>2. CASE AcquireCreate(r)
  <2>1. [by |-> r, pid |-> 0] \in LockRec
    BY DEF LockRec
  <2>2. lock' \in {None} \cup LockRec
    BY <1>2, <2>1 DEF AcquireCreate, TypeInv
  <2>3. Go(r, "pid") \/ Go(r, "read")
    BY <1>2 DEF AcquireCreate
  <2>4. run' \in [Runners -> RunRec] /\ run'[r].at \in {"pid", "read"} /\ run'[r].found = run[r].found
        /\ \A q \in Runners \ {r} : run'[q] = run[q]
    BY <2>3, GoTo DEF RunTo, RunnerAt
  <2> QED
    BY <1>2, <2>2, <2>4, RunnerTypes DEF AcquireCreate, TypeInv, Taking, Working
<1>3. CASE AcquireWritePid(r)
  <2>1. lock' \in {None} \cup LockRec
    BY <1>3 DEF AcquireWritePid, TypeInv, LockRec
  <2>2. run' \in [Runners -> RunRec] /\ run'[r].at = "recover" /\ run'[r].found = run[r].found
        /\ \A q \in Runners \ {r} : run'[q] = run[q]
    BY <1>3, GoTo DEF AcquireWritePid, RunTo, RunnerAt
  <2> QED
    BY <1>3, <2>1, <2>2, RunnerTypes DEF AcquireWritePid, TypeInv, Taking, Working
<1>4. CASE AcquireRead(r)
  <2>1. Dies(r) \/ Go(r, "unlink")
    BY <1>4 DEF AcquireRead
  <2>2. run' \in [Runners -> RunRec] /\ run'[r].at \in {"out", "unlink"}
        /\ run'[r].found \in {run[r].found, None}
        /\ \A q \in Runners \ {r} : run'[q] = run[q]
    BY <2>1, GoTo, DiesTo DEF RunTo, RunnerAt
  <2> QED
    BY <1>4, <2>2, RunnerTypes DEF AcquireRead, TypeInv, Taking, Working
<1>5. CASE AcquireUnlink(r)
  <2> DEFINE rec == [run[r] EXCEPT !.at = "create", !.retry = TRUE]
  <2>1. run[r] \in RunRec
    BY Parts
  <2>2. rec \in RunRec /\ rec.at = "create" /\ rec.found = run[r].found
    BY <2>1 DEF RunRec, RunnerAt
  <2>3. run' = [run EXCEPT ![r] = rec]
    BY <1>5 DEF AcquireUnlink
  <2> HIDE DEF rec
  <2>4. RunTo(r, rec)
    BY <2>2, <2>3, RunSet
  <2> QED
    BY <1>5, <2>2, <2>4, RunnerTypes DEF RunTo, AcquireUnlink, TypeInv, Taking, Working
<1> QED
  BY <1>1, <1>2, <1>3, <1>4, <1>5 DEF Acquire

\* A runner that ends: killed, through its last case, or by an exception.
LEMMA EndFacts ==
  ASSUME TypeInv, NEW r \in Runners,
         Kill(r) \/ Finish(r) \/ StreamRaises(r) \/ (Raises(r) /\ UNCHANGED faults)
  PROVE  /\ TypeInv' /\ UNCHANGED <<manifest, cases, task, agent, edits>>
         /\ \A q \in Runners \ {r} : run'[q] = run[q]
         /\ run'[r].at = "out" /\ run'[r].found = None /\ lock' \in {lock, None}
<1>1. Dies(r) /\ lock' \in {lock, None} /\ UNCHANGED <<manifest, cases, task, agent, edits>>
      /\ faults' \in 0..MaxFaults
  BY BatchAssumption DEF Kill, Finish, StreamRaises, Raises, TypeInv
<1>2. RunTo(r, NoRun) /\ run'[r].at = "out" /\ run'[r].found = None
  BY <1>1, DiesTo
<1> QED
  BY <1>1, <1>2, RunnerTypes DEF RunTo, TypeInv, Working

\* Recovery and the merge of one case.
LEMMA MergedCase ==
  ASSUME NEW op \in Ops, NEW c \in CaseRec
  PROVE  LET d == MergeCase(op, RecoverCase(c)) IN
         /\ d \in CaseRec
         /\ d.status # "absent" => op \in manifest
         /\ d.status \in {"absent", "pending"}
              => (c.status \in {"absent", "pending"} \/ op \notin manifest)
         /\ d.status = "running" => d = c
         /\ (d.status = "done" /\ c.status # "done")
              => (d.task = c.task /\ Finished(c.task) /\ c.status = "running")
         /\ d.status = "done" => d.task = c.task
         /\ d.task \in {c.task, None}
         /\ (c.status = "running" /\ d.status = "error") => ~Finished(c.task)
         /\ (op \in manifest /\ c.status = "running") => d.status # "pending"
<1>1. PICK e \in CaseRec :
        /\ e = RecoverCase(c) /\ e.task = c.task
        /\ \/ e = c
           \/ c.status = "running" /\ e.status = IF Finished(c.task) THEN "done" ELSE "error"
  <2>1. CASE RecoverCase(c) = c
    BY <2>1
  <2>2. CASE RecoverCase(c) # c
    <3> DEFINE st == IF Finished(c.task) THEN "done" ELSE "error"
               e == [c EXCEPT !.status = st]
    <3>1. e \in CaseRec /\ e.task = c.task /\ e.status = st
      BY DEF CaseRec, Statuses
    <3>2. RecoverCase(c) = e /\ c.status = "running"
      BY <2>2 DEF RecoverCase
    <3> QED
      BY <3>1, <3>2
  <2> QED
    BY <2>1, <2>2
<1>2. CASE op \notin manifest
  BY <1>1, <1>2, Nothing DEF MergeCase
<1>3. CASE op \in manifest /\ e.status = "absent"
  <2> DEFINE d == [NoCase EXCEPT !.status = "pending"]
  <2>1. d \in CaseRec /\ d.status = "pending" /\ d.task = None
    BY Nothing DEF CaseRec, Statuses, NoCase
  <2>2. MergeCase(op, e) = d
    BY <1>3 DEF MergeCase
  <2> QED
    BY <1>1, <1>3, <2>1, <2>2
<1>4. CASE op \in manifest /\ e.status # "absent"
  <2>1. MergeCase(op, e) = e
    BY <1>4 DEF MergeCase
  <2> QED
    BY <1>1, <1>4, <2>1
<1> QED
  BY <1>2, <1>3, <1>4

\* The recovery of a batch.
LEMMA RecoverFacts ==
  ASSUME TypeInv, NEW r \in Runners, Recover(r)
  PROVE  /\ TypeInv' /\ UNCHANGED <<manifest, lock, task, agent, edits>>
         /\ run[r].at = "recover" /\ run'[r].at = "pick" /\ run'[r].found = run[r].found
         /\ \A q \in Runners \ {r} : run'[q] = run[q]
         /\ \A op \in Ops : cases'[op] = MergeCase(op, RecoverCase(cases[op]))
<1>1. \A op \in Ops : cases'[op] = MergeCase(op, RecoverCase(cases[op]))
  BY DEF Recover
<1>2. \A op \in Ops : MergeCase(op, RecoverCase(cases[op])) \in CaseRec
  BY Parts, MergedCase
<1>3. cases' \in [Ops -> CaseRec]
  BY <1>2 DEF Recover
<1>4. PICK q \in SUBSET Ops :
        run' = [run EXCEPT ![r] = [@ EXCEPT !.at = "pick", !.queue = q]]
  BY DEF Recover
<1> DEFINE rec == [run[r] EXCEPT !.at = "pick", !.queue = q]
<1>5. run[r] \in RunRec
  BY Parts
<1>6. rec \in RunRec /\ rec.at = "pick" /\ rec.found = run[r].found
  BY <1>5 DEF RunRec, RunnerAt
<1>7. run' = [run EXCEPT ![r] = rec]
  BY <1>4
<1> HIDE DEF rec
<1>8. RunTo(r, rec)
  BY <1>6, <1>7, RunSet
<1> QED
  BY <1>1, <1>3, <1>6, <1>8 DEF RunTo, Recover, TypeInv, Working

\* prepare.py writes the manifest.
LEMMA PrepareFacts ==
  ASSUME TypeInv, Prepare
  PROVE  /\ TypeInv' /\ UNCHANGED <<lock, cases, task, run, agent>>
         /\ edits < MaxEdits /\ edits' = edits + 1
BY BatchAssumption DEF Prepare, TypeInv

\* An operator of the queue whose status no longer queues it is skipped.
Skips(r) ==
  /\ run'[r].at = "pick" /\ UNCHANGED <<cases, task, agent>>

\* An operator is taken: its case is bound to the runner and an agent spawned.
Takes(r, op) ==
  /\ Queued(cases[op])
  /\ cases'[op].status = "running" /\ cases'[op].task = None /\ cases'[op].runner = r
  /\ \A o \in Ops \ {op} : cases'[o] = cases[o]
  /\ \A t \in Tasks : /\ task'[t].op = task[t].op /\ task'[t].phase = task[t].phase
                      /\ task'[t].journal = task[t].journal
  /\ run'[r].at = "stream" /\ run'[r].op = op
  /\ agent'[r].at = "boot" /\ agent'[r].op = op /\ agent'[r].task = None
  /\ \A q \in Runners \ {r} : agent'[q] = agent[q]

\* The next operator of the queue.
LEMMA BeginFacts ==
  ASSUME TypeInv, NEW r \in Runners, Begin(r)
  PROVE  /\ TypeInv' /\ UNCHANGED <<manifest, lock, edits>>
         /\ run[r].at = "pick" /\ run'[r].found = run[r].found
         /\ \A q \in Runners \ {r} : run'[q] = run[q]
         /\ Skips(r) \/ \E op \in Ops : Takes(r, op)
<1>1. PICK op \in run[r].queue :
        IF ~Queued(cases[op])
        THEN /\ run' = [run EXCEPT ![r].queue = @ \ {op}]
             /\ UNCHANGED <<cases, task, agent>>
        ELSE /\ cases' = [cases EXCEPT ![op] =
                   [status |-> "running", task |-> None, runner |-> r, cut |-> FALSE]]
             /\ task' = [t \in Tasks |-> IF t = run[r].prev
                                         THEN [task[t] EXCEPT !.owned = FALSE] ELSE task[t]]
             /\ run' = [run EXCEPT ![r] =
                   [@ EXCEPT !.at = "stream", !.queue = run[r].queue \ {op}, !.op = op, !.pre = Made]]
             /\ Spawn(r, op, None)
  BY DEF Begin
<1>2. op \in Ops /\ run[r] \in RunRec /\ run[r].queue \subseteq Ops
  BY Parts
<1>3. run[r].at = "pick" /\ UNCHANGED <<manifest, lock, faults, edits>>
  BY DEF Begin
<1>4. CASE ~Queued(cases[op])
  <2> DEFINE rec == [run[r] EXCEPT !.queue = @ \ {op}]
  <2>1. rec \in RunRec /\ rec.at = run[r].at /\ rec.found = run[r].found
    BY <1>2 DEF RunRec
  <2>2. run' = [run EXCEPT ![r] = rec]
    BY <1>1, <1>4
  <2> HIDE DEF rec
  <2>3. RunTo(r, rec)
    BY <2>1, <2>2, RunSet
  <2>4. UNCHANGED <<cases, task, agent>>
    BY <1>1, <1>4
  <2> QED
    BY <1>3, <2>1, <2>3, <2>4, RunnerTypes DEF RunTo, Skips, TypeInv, Working
<1>5. CASE Queued(cases[op])
  <2> DEFINE rec == [run[r] EXCEPT !.at = "stream", !.queue = run[r].queue \ {op}, !.op = op, !.pre = Made]
             cas == [status |-> "running", task |-> None, runner |-> r, cut |-> FALSE]
             agt == [at |-> "boot", op |-> op, task |-> None]
  <2>1. rec \in RunRec /\ rec.at = "stream" /\ rec.found = run[r].found /\ rec.op = op
    BY <1>2 DEF RunRec, RunnerAt, Made
  <2>2. cas \in CaseRec /\ cas.status = "running" /\ cas.task = None /\ cas.runner = r
    BY DEF CaseRec, Statuses
  <2>3. agt \in AgentRec /\ agt.at = "boot" /\ agt.op = op /\ agt.task = None
    BY <1>2 DEF AgentRec
  <2>4. /\ run' = [run EXCEPT ![r] = rec] /\ cases' = [cases EXCEPT ![op] = cas]
        /\ agent' = [agent EXCEPT ![r] = agt]
        /\ task' = [t \in Tasks |-> IF t = run[r].prev
                                    THEN [task[t] EXCEPT !.owned = FALSE] ELSE task[t]]
    <3>1. run' = [run EXCEPT ![r] = rec]
      BY <1>1, <1>5
    <3>2. cases' = [cases EXCEPT ![op] = cas]
      BY <1>1, <1>5
    <3>3. agent' = [agent EXCEPT ![r] = agt]
      BY <1>1, <1>5 DEF Spawn
    <3>4. task' = [t \in Tasks |-> IF t = run[r].prev
                                   THEN [task[t] EXCEPT !.owned = FALSE] ELSE task[t]]
      BY <1>1, <1>5
    <3> QED
      BY <3>1, <3>2, <3>3, <3>4, Zenon
  <2> HIDE DEF rec, cas, agt
  <2>5. RunTo(r, rec)
    BY <2>1, <2>4, RunSet
  <2>6. ASSUME NEW x \in TaskRec
        PROVE  LET y == [x EXCEPT !.owned = FALSE] IN
               y \in TaskRec /\ y.op = x.op /\ y.phase = x.phase /\ y.journal = x.journal
    BY DEF TaskRec
  <2>7. /\ task' \in [Tasks -> TaskRec]
        /\ \A t \in Tasks : /\ task'[t].op = task[t].op /\ task'[t].phase = task[t].phase
                            /\ task'[t].journal = task[t].journal
    BY <2>4, <2>6 DEF TypeInv
  <2>8. /\ cases' \in [Ops -> CaseRec] /\ cases'[op] = cas
        /\ \A o \in Ops \ {op} : cases'[o] = cases[o]
    BY <1>2, <2>2, <2>4 DEF TypeInv
  <2>9. /\ agent' \in [Runners -> AgentRec] /\ agent'[r] = agt
        /\ \A q \in Runners \ {r} : agent'[q] = agent[q]
    BY <2>3, <2>4 DEF TypeInv
  <2>10. TypeInv'
    BY <1>2, <1>3, <2>1, <2>5, <2>7, <2>8, <2>9 DEF RunTo, TypeInv, Working
  <2>11. Takes(r, op)
    BY <1>5, <2>1, <2>2, <2>3, <2>5, <2>7, <2>8, <2>9 DEF RunTo, Takes
  <2> QED
    BY <1>2, <1>3, <2>1, <2>5, <2>10, <2>11 DEF RunTo
<1> QED
  BY <1>4, <1>5

\* An operator that cannot be begun is an error.
LEMMA RefusedFacts ==
  ASSUME TypeInv, NEW r \in Runners, BeginRefused(r)
  PROVE  /\ TypeInv' /\ UNCHANGED <<manifest, lock, task, agent, edits>>
         /\ run[r].at = "pick" /\ run'[r].at = "pick" /\ run'[r].found = run[r].found
         /\ \A q \in Runners \ {r} : run'[q] = run[q]
         /\ \E op \in Ops : /\ Queued(cases[op]) /\ cases'[op].status = "error"
                            /\ cases'[op].task = None
                            /\ \A o \in Ops \ {op} : cases'[o] = cases[o]
<1>1. PICK op \in run[r].queue :
         /\ Queued(cases[op])
         /\ cases' = [cases EXCEPT ![op] =
                [status |-> "error", task |-> None, runner |-> r, cut |-> FALSE]]
         /\ run' = [run EXCEPT ![r].queue = @ \ {op}]
  BY DEF BeginRefused
<1>2. op \in Ops /\ run[r] \in RunRec /\ run[r].queue \subseteq Ops
  BY Parts
<1>3. run[r].at = "pick" /\ UNCHANGED <<manifest, lock, task, agent, faults, edits>>
  BY DEF BeginRefused
<1> DEFINE rec == [run[r] EXCEPT !.queue = @ \ {op}]
           cas == [status |-> "error", task |-> None, runner |-> r, cut |-> FALSE]
<1>4. rec \in RunRec /\ rec.at = run[r].at /\ rec.found = run[r].found
  BY <1>2 DEF RunRec
<1>5. cas \in CaseRec /\ cas.status = "error" /\ cas.task = None
  BY DEF CaseRec, Statuses
<1>6. run' = [run EXCEPT ![r] = rec] /\ cases' = [cases EXCEPT ![op] = cas]
  BY <1>1
<1> HIDE DEF rec, cas
<1>7. RunTo(r, rec)
  BY <1>4, <1>6, RunSet
<1>8. /\ cases' \in [Ops -> CaseRec] /\ cases'[op] = cas
      /\ \A o \in Ops \ {op} : cases'[o] = cases[o]
  BY <1>2, <1>5, <1>6 DEF TypeInv
<1>9. TypeInv'
  BY <1>3, <1>4, <1>7, <1>8 DEF RunTo, TypeInv, Working
<1> QED
  BY <1>1, <1>2, <1>3, <1>4, <1>5, <1>7, <1>8, <1>9 DEF RunTo

\* One task directory changes.
LEMMA TaskSet ==
  ASSUME TypeInv, NEW t \in Tasks \cup {None}, NEW rec, t \in Tasks => rec \in TaskRec,
         task' = [task EXCEPT ![t] = rec]
  PROVE  /\ task' \in [Tasks -> TaskRec]
         /\ \A u \in Tasks \ {t} : task'[u] = task[u]
         /\ t \in Tasks => task'[t] = rec
BY BatchAssumption DEF TypeInv

\* What the agent of a task, or its supervisor, may do to the directories: only
\* this one changes, it keeps its operator, and it stays finished.
Ages(t) ==
  /\ task' \in [Tasks -> TaskRec]
  /\ \A u \in Tasks \ {t} : task'[u] = task[u]
  /\ \A u \in Tasks : /\ task'[u].op = task[u].op
                      /\ task[u].phase = "FINISH" => task'[u].phase = "FINISH"
                      /\ task'[u].journal = "pending" =>
                           (task'[u].phase = "WORK" \/ task'[u] = task[u])

\* A killed agent and its task.
LEMMA CutAges ==
  ASSUME TypeInv, NEW t \in Tasks \cup {None}, task' \in Cut(t)
  PROVE  Ages(t)
<1>1. CASE task' = task
  BY <1>1 DEF Ages, TypeInv
<1>2. CASE task' # task
  <2>1. PICK j \in {"empty", "pending", "broken"} : task' = [task EXCEPT ![t].journal = j]
    BY <1>2 DEF Cut
  <2>2. t \in Tasks /\ task[t].phase = "WORK"
    BY <1>2 DEF Cut
  <2> DEFINE rec == [task[t] EXCEPT !.journal = j]
  <2>3. rec \in TaskRec /\ rec.op = task[t].op /\ rec.phase = "WORK"
    BY <2>2, Parts DEF TaskRec
  <2>4. task' = [task EXCEPT ![t] = rec]
    BY <2>1
  <2> HIDE DEF rec
  <2> QED
    BY <2>2, <2>3, <2>4, TaskSet DEF Ages
<1> QED
  BY <1>1, <1>2

\* The supervisor opens a task.
LEMMA HealedAges ==
  ASSUME TypeInv, NEW t \in Tasks, task' \in Healed(t), task[t].phase # "FINISH" \/ task[t].journal # "pending"
  PROVE  Ages(t)
<1>1. CASE task' = task
  BY <1>1 DEF Ages, TypeInv
<1>2. CASE task' # task
  <2>1. PICK ph \in {"WORK", "FINISH"} :
          task' = [task EXCEPT ![t] = [@ EXCEPT !.journal = "empty", !.phase = ph]]
    BY <1>2 DEF Healed
  <2>2. task[t].journal = "pending"
    BY <1>2 DEF Healed
  <2> DEFINE rec == [task[t] EXCEPT !.journal = "empty", !.phase = ph]
  <2>3. rec \in TaskRec /\ rec.op = task[t].op /\ rec.journal = "empty"
    BY Parts DEF TaskRec
  <2>4. task' = [task EXCEPT ![t] = rec]
    BY <2>1
  <2> HIDE DEF rec
  <2> QED
    BY <2>2, <2>3, <2>4, TaskSet DEF Ages
<1> QED
  BY <1>1, <1>2

\* An opened task has the types of one, whatever its journal was.
LEMMA HealedTypes ==
  ASSUME TypeInv, NEW t \in Tasks, task' \in Healed(t)
  PROVE  task' \in [Tasks -> TaskRec]
<1>1. CASE task' = task
  BY <1>1 DEF TypeInv
<1>2. CASE task' # task
  <2>1. PICK ph \in {"WORK", "FINISH"} :
          task' = [task EXCEPT ![t] = [@ EXCEPT !.journal = "empty", !.phase = ph]]
    BY <1>2 DEF Healed
  <2> DEFINE rec == [task[t] EXCEPT !.journal = "empty", !.phase = ph]
  <2>2. rec \in TaskRec
    BY Parts DEF TaskRec
  <2>3. task' = [task EXCEPT ![t] = rec]
    BY <2>1
  <2> HIDE DEF rec
  <2> QED
    BY <2>2, <2>3, TaskSet
<1> QED
  BY <1>1, <1>2

\* What becomes of the agent of a runner: it is gone, or it works on its task.
Drives(r) ==
  /\ agent' \in [Runners -> AgentRec]
  /\ \A q \in Runners \ {r} : agent'[q] = agent[q]
  /\ \/ agent'[r].at = "none"
     \/ /\ agent'[r].at = "work" /\ agent'[r].op = agent[r].op
        /\ agent'[r].task = agent[r].task

\* The agent of a runner is gone.
LEMMA AgentGone ==
  ASSUME TypeInv, NEW r \in Runners, agent' = [agent EXCEPT ![r] = NoAgent]
  PROVE  Drives(r) /\ agent'[r].at = "none"
BY Nothing DEF TypeInv, Drives

\* The agent's output ended.
LEMMA EndsFacts ==
  ASSUME TypeInv, NEW r \in Runners, StreamEnds(r)
  PROVE  /\ TypeInv' /\ UNCHANGED <<manifest, lock, cases, task, agent, edits>>
         /\ run[r].at = "stream" /\ run'[r].at = "collect" /\ agent[r].at = "none"
         /\ run'[r].op = run[r].op /\ run'[r].found = run[r].found
         /\ \A q \in Runners \ {r} : run'[q] = run[q]
<1>1. /\ run[r].at = "stream" /\ agent[r].at = "none" /\ Go(r, "collect")
      /\ UNCHANGED <<manifest, lock, cases, task, agent, faults, edits>>
  BY DEF StreamEnds
<1>2. /\ run' \in [Runners -> RunRec] /\ \A q \in Runners \ {r} : run'[q] = run[q]
      /\ run'[r].at = "collect" /\ run'[r].op = run[r].op /\ run'[r].found = run[r].found
  BY <1>1, GoTo DEF RunTo, RunnerAt
<1> QED
  BY <1>1, <1>2 DEF TypeInv, Working

\* The wall clock or the operator ends the agent.
LEMMA KillsFacts ==
  ASSUME TypeInv, NEW r \in Runners, NEW cut \in BOOLEAN, StreamKills(r, cut)
  PROVE  /\ TypeInv' /\ UNCHANGED <<manifest, lock, cases, edits>>
         /\ run[r].at = "stream" /\ run'[r].at = "collect" /\ agent[r].at # "none"
         /\ run'[r].op = run[r].op /\ run'[r].found = run[r].found
         /\ \A q \in Runners \ {r} : run'[q] = run[q]
         /\ Ages(agent[r].task) /\ Drives(r) /\ agent'[r].at = "none"
<1> DEFINE rec == [run[r] EXCEPT !.at = "collect", !.rc = 1, !.cut = run[r].cut \/ cut]
<1>1. /\ run[r].at = "stream" /\ agent[r].at # "none"
      /\ UNCHANGED <<manifest, lock, cases, faults, edits>>
  BY DEF StreamKills
<1>2. run[r] \in RunRec /\ agent[r].task \in Tasks \cup {None}
  BY Parts
<1>3. rec \in RunRec /\ rec.at = "collect" /\ rec.op = run[r].op /\ rec.found = run[r].found
  BY <1>2 DEF RunRec, RunnerAt
<1>4. run' = [run EXCEPT ![r] = rec]
  BY DEF StreamKills
<1> HIDE DEF rec
<1>5. RunTo(r, rec)
  BY <1>3, <1>4, RunSet
<1>6. Ages(agent[r].task)
  BY <1>2, CutAges DEF StreamKills
<1>7. Drives(r) /\ agent'[r].at = "none"
  BY AgentGone DEF StreamKills
<1>8. TypeInv'
  BY <1>1, <1>3, <1>5, <1>6, <1>7 DEF TypeInv, RunTo, Ages, Drives, Working
<1> QED
  BY <1>1, <1>3, <1>5, <1>6, <1>7, <1>8 DEF RunTo

\* The agent ends by itself.
LEMMA ExitsFacts ==
  ASSUME TypeInv, NEW r \in Runners, NEW rc \in {0, 1}, AgentExits(r, rc)
  PROVE  /\ TypeInv' /\ UNCHANGED <<manifest, lock, cases, edits>>
         /\ agent[r].at # "none"
         /\ run'[r].at = run[r].at /\ run'[r].op = run[r].op /\ run'[r].found = run[r].found
         /\ run'[r].ok = run[r].ok /\ run'[r].cut = run[r].cut
         /\ \A q \in Runners \ {r} : run'[q] = run[q]
         /\ Ages(agent[r].task) /\ Drives(r) /\ agent'[r].at = "none"
<1> DEFINE code == IF run[r].at = "stream" THEN rc ELSE run[r].rc
           rec == [run[r] EXCEPT !.rc = code]
<1>1. agent[r].at # "none" /\ UNCHANGED <<manifest, lock, cases, faults, edits>>
  BY DEF AgentExits
<1>2. run[r] \in RunRec /\ agent[r].task \in Tasks \cup {None}
  BY Parts
<1>3. /\ rec \in RunRec /\ rec.at = run[r].at /\ rec.op = run[r].op /\ rec.found = run[r].found
      /\ rec.ok = run[r].ok /\ rec.cut = run[r].cut
  BY <1>2 DEF RunRec
<1>4. run' = [run EXCEPT ![r] = rec]
  BY DEF AgentExits
<1> HIDE DEF rec
<1>5. RunTo(r, rec)
  BY <1>3, <1>4, RunSet
<1>6. task' = task \/ task' \in Cut(agent[r].task)
  BY DEF AgentExits
<1>7. Ages(agent[r].task)
  BY <1>2, <1>6, CutAges DEF Ages, TypeInv
<1>8. Drives(r) /\ agent'[r].at = "none"
  BY AgentGone DEF AgentExits
<1>9. TypeInv'
  BY <1>1, <1>3, <1>5, <1>7, <1>8 DEF TypeInv, RunTo, Ages, Drives, Working
<1> QED
  BY <1>1, <1>3, <1>5, <1>7, <1>8, <1>9 DEF RunTo

\* The agent gets its task further.
LEMMA WorksFacts ==
  ASSUME TypeInv, NEW r \in Runners, AgentWorks(r)
  PROVE  /\ TypeInv' /\ UNCHANGED <<manifest, lock, cases, run, agent, edits>>
         /\ agent[r].at = "work" /\ Ages(agent[r].task)
<1> DEFINE t == agent[r].task
           next == CASE task[t].phase = "BASELINE" -> "WORK" [] OTHER -> "FINISH"
           jn == IF task[t].journal = "pending" THEN "empty" ELSE task[t].journal
           rec == [task[t] EXCEPT !.phase = next, !.owned = TRUE, !.journal = jn, !.fresh = TRUE]
<1>1. agent[r].at = "work" /\ UNCHANGED <<manifest, lock, cases, run, agent, faults, edits>>
  BY DEF AgentWorks
<1>2. t \in Tasks \cup {None}
  BY Parts
<1>3. task' = [task EXCEPT ![t] = rec]
  BY DEF AgentWorks
<1>4. ASSUME t \in Tasks
      PROVE  /\ rec \in TaskRec /\ rec.op = task[t].op /\ rec.journal # "pending"
             /\ task[t].phase = "FINISH" => rec.phase = "FINISH"
  <2>1. task[t] \in TaskRec
    BY <1>4, Parts
  <2>2. next \in {"WORK", "FINISH"} /\ (task[t].phase = "FINISH" => next = "FINISH")
    OBVIOUS
  <2>3. jn \in {"empty", "broken"}
    BY <1>4, Parts
  <2> HIDE DEF next, jn
  <2> QED
    BY <2>1, <2>2, <2>3 DEF TaskRec
<1> HIDE DEF rec, t
<1>5. Ages(t)
  BY <1>2, <1>3, <1>4, TaskSet DEF Ages
<1>6. TypeInv'
  BY <1>1, <1>5 DEF TypeInv, Ages
<1> QED
  BY <1>1, <1>5, <1>6 DEF t

\* A heartbeat grows stale.
LEMMA LapseFacts ==
  ASSUME TypeInv, NEW t \in Tasks, HeartbeatLapses(t)
  PROVE  /\ TypeInv' /\ UNCHANGED <<manifest, lock, cases, run, agent, edits>>
         /\ \A u \in Tasks : /\ task'[u].op = task[u].op /\ task'[u].phase = task[u].phase
                             /\ task'[u].journal = task[u].journal
<1> DEFINE rec == [task[t] EXCEPT !.fresh = FALSE]
<1>1. UNCHANGED <<manifest, lock, cases, run, agent, faults, edits>>
  BY DEF HeartbeatLapses
<1>2. /\ rec \in TaskRec /\ rec.op = task[t].op /\ rec.phase = task[t].phase
      /\ rec.journal = task[t].journal
  BY Parts DEF TaskRec
<1>3. task' = [task EXCEPT ![t] = rec]
  BY DEF HeartbeatLapses
<1> HIDE DEF rec
<1>4. /\ task' \in [Tasks -> TaskRec] /\ task'[t] = rec
      /\ \A u \in Tasks \ {t} : task'[u] = task[u]
  BY <1>2, <1>3, TaskSet
<1> QED
  BY <1>1, <1>2, <1>4 DEF TypeInv

\* An agent that is told which task to resume takes it.
Resumes(r) ==
  /\ agent[r].task # None /\ Drives(r) /\ agent'[r].at = "work" /\ UNCHANGED cases
  /\ \A u \in Tasks : /\ task'[u].op = task[u].op /\ task'[u].phase = task[u].phase
                      /\ task'[u].journal = task[u].journal

\* Another agent makes a directory and binds it to the case of its operator.
Scaffolds(r, t) ==
  /\ agent[r].task = None /\ task[t].op = None
  /\ agent'[r].at = "work" /\ agent'[r].op = agent[r].op /\ agent'[r].task = t
  /\ \A q \in Runners \ {r} : agent'[q] = agent[q]
  /\ task'[t].op = agent[r].op /\ task'[t].journal = "empty"
  /\ \A u \in Tasks \ {t} : task'[u] = task[u]
  /\ \A op \in Ops : cases'[op] = cases[op] \/ (op = agent[r].op /\ Known(op))
  /\ \A op \in Ops : /\ cases'[op].status = cases[op].status
                     /\ cases'[op].runner = cases[op].runner
                     /\ cases'[op] = cases[op] \/ cases'[op].task = t

\* The agent gets its task.
LEMMA ScaffoldFacts ==
  ASSUME TypeInv, NEW r \in Runners, AgentScaffold(r)
  PROVE  /\ TypeInv' /\ UNCHANGED <<manifest, lock, run, edits>>
         /\ agent[r].at = "boot"
         /\ Resumes(r) \/ \E t \in Tasks : Scaffolds(r, t)
<1>1. agent[r].at = "boot" /\ UNCHANGED <<manifest, lock, run, faults, edits>>
  BY DEF AgentScaffold
<1>2. agent[r] \in AgentRec /\ agent[r].task \in Tasks \cup {None} /\ agent[r].op \in Ops \cup {None}
  BY Parts
<1>3. CASE agent[r].task # None
  <2> DEFINE t == agent[r].task
             rec == [task[t] EXCEPT !.owned = TRUE, !.fresh = TRUE]
             agt == [agent[r] EXCEPT !.at = "work"]
  <2>1. t \in Tasks
    BY <1>2, <1>3
  <2>2. agent' = [agent EXCEPT ![r] = agt] /\ task' = [task EXCEPT ![t] = rec] /\ UNCHANGED cases
    BY <1>3 DEF AgentScaffold
  <2>3. /\ rec \in TaskRec /\ rec.op = task[t].op /\ rec.phase = task[t].phase
        /\ rec.journal = task[t].journal
    BY <2>1, Parts DEF TaskRec
  <2>4. agt \in AgentRec /\ agt.at = "work" /\ agt.op = agent[r].op /\ agt.task = agent[r].task
    BY <1>2 DEF AgentRec
  <2> HIDE DEF rec, agt, t
  <2>5. /\ task' \in [Tasks -> TaskRec] /\ task'[t] = rec
        /\ \A u \in Tasks \ {t} : task'[u] = task[u]
    BY <2>1, <2>2, <2>3, TaskSet
  <2>6. Drives(r) /\ agent'[r].at = "work"
    BY <2>2, <2>4 DEF TypeInv, Drives
  <2>7. TypeInv'
    BY <1>1, <2>2, <2>5, <2>6 DEF TypeInv, Drives
  <2>8. Resumes(r)
    BY <1>3, <2>1, <2>2, <2>3, <2>5, <2>6 DEF Resumes
  <2> QED
    BY <1>1, <2>7, <2>8
<1>4. CASE agent[r].task = None
  <2>1. PICK t \in Tasks \ Made :
          /\ task' = [task EXCEPT ![t] = [op |-> agent[r].op, phase |-> "BASELINE",
                         journal |-> "empty", owned |-> TRUE, fresh |-> TRUE]]
          /\ cases' = Bound(agent[r].op, t)
          /\ agent' = [agent EXCEPT ![r] = [@ EXCEPT !.at = "work", !.task = t]]
    BY <1>4 DEF AgentScaffold
  <2> DEFINE rec == [op |-> agent[r].op, phase |-> "BASELINE",
                     journal |-> "empty", owned |-> TRUE, fresh |-> TRUE]
             agt == [agent[r] EXCEPT !.at = "work", !.task = t]
  <2>2. t \in Tasks /\ task[t].op = None
    BY DEF Made
  <2>3. agent' = [agent EXCEPT ![r] = agt] /\ task' = [task EXCEPT ![t] = rec]
    BY <2>1
  <2>4. rec \in TaskRec /\ rec.op = agent[r].op /\ rec.journal = "empty"
    BY <1>2 DEF TaskRec
  <2>5. agt \in AgentRec /\ agt.at = "work" /\ agt.op = agent[r].op /\ agt.task = t
    BY <1>2, <2>2 DEF AgentRec
  <2> HIDE DEF rec, agt
  <2>6. /\ task' \in [Tasks -> TaskRec] /\ task'[t] = rec
        /\ \A u \in Tasks \ {t} : task'[u] = task[u]
    BY <2>2, <2>3, <2>4, TaskSet
  <2>7. /\ agent' \in [Runners -> AgentRec] /\ agent'[r] = agt
        /\ \A q \in Runners \ {r} : agent'[q] = agent[q]
    BY <2>3, <2>5 DEF TypeInv
  <2>8. /\ cases' \in [Ops -> CaseRec]
        /\ \A op \in Ops : cases'[op] = cases[op] \/ (op = agent[r].op /\ Known(op))
        /\ \A op \in Ops : /\ cases'[op].status = cases[op].status
                           /\ cases'[op].runner = cases[op].runner
                           /\ cases'[op] = cases[op] \/ cases'[op].task = t
    <3>1. CASE agent[r].op \in Ops /\ Known(agent[r].op)
      <4> DEFINE o == agent[r].op
                 cas == [cases[o] EXCEPT !.task = t]
      <4>1. cases[o] \in CaseRec
        BY <3>1, Parts
      <4>2. /\ cas \in CaseRec /\ cas.status = cases[o].status /\ cas.runner = cases[o].runner
            /\ cas.task = t
        BY <4>1, <2>2 DEF CaseRec
      <4>3. cases' = [cases EXCEPT ![o] = cas]
        BY <2>1, <3>1 DEF Bound
      <4> HIDE DEF cas
      <4> QED
        BY <3>1, <4>2, <4>3 DEF TypeInv
    <3>2. CASE agent[r].op \notin Ops \/ ~Known(agent[r].op)
      <4>1. cases \in [Ops -> CaseRec]
        BY DEF TypeInv
      <4>2. CASE ~Known(agent[r].op)
        BY <2>1, <4>1, <4>2 DEF Bound
      <4>3. CASE agent[r].op \notin Ops
        BY <2>1, <4>1, <4>3 DEF Bound
      <4> QED
        BY <3>2, <4>2, <4>3
    <3> QED
      BY <3>1, <3>2
  <2>9. TypeInv'
    BY <1>1, <2>6, <2>7, <2>8 DEF TypeInv
  <2>10. Scaffolds(r, t)
    BY <1>4, <2>2, <2>4, <2>5, <2>6, <2>7, <2>8 DEF Scaffolds
  <2> QED
    BY <1>1, <2>2, <2>9, <2>10
<1> QED
  BY <1>3, <1>4

\* The task directory a runner finds for its operator is one of it: the recorded
\* one, when there is one.
LEMMA FoundTask ==
  ASSUME TypeInv, NEW r \in Runners, run[r].op \in Ops
  PROVE  LET t == FindTaskDir(r)
             c == cases[run[r].op].task IN
         /\ t \in Tasks \cup {None}
         /\ t # None => task[t].op = run[r].op
         /\ (c # None /\ task[c].op = run[r].op) => t = c
<1> DEFINE c == cases[run[r].op].task
           new == {t \in Made \ run[r].pre : task[t].op = run[r].op}
<1>1. c \in Tasks \cup {None}
  BY Parts
<1>2. CASE c # None /\ task[c].op = run[r].op
  <2>1. FindTaskDir(r) = c
    BY <1>2 DEF FindTaskDir
  <2> QED
    BY <1>1, <1>2, <2>1
<1>3. CASE ~(c # None /\ task[c].op = run[r].op)
  <2>1. FindTaskDir(r) = PickNewTaskDir(run[r].pre, run[r].op)
    BY <1>3 DEF FindTaskDir
  <2>2. new \subseteq Tasks
    BY DEF Made
  <2>3. CASE new = {}
    BY <1>3, <2>1, <2>3 DEF PickNewTaskDir
  <2>4. CASE new # {}
    <3>1. \E t \in new : \A u \in new : u <= t
      BY <2>2, <2>4, NewestAssumption
    <3>2. FindTaskDir(r) = CHOOSE t \in new : \A u \in new : u <= t
      BY <2>1, <2>4 DEF PickNewTaskDir
    <3> HIDE DEF new
    <3>3. FindTaskDir(r) \in new
      BY <3>1, <3>2
    <3>4. FindTaskDir(r) \in Tasks /\ task[FindTaskDir(r)].op = run[r].op
      BY <2>2, <3>3 DEF new
    <3> QED
      BY <1>3, <3>4
  <2> QED
    BY <2>3, <2>4
<1> QED
  BY <1>2, <1>3

\* No directory is found: the operator has failed.
FindsNone(r) ==
  /\ FindTaskDir(r) = None /\ UNCHANGED <<task, agent>>
  /\ run'[r].at = "finish" /\ run'[r].found = run[r].found /\ run'[r].ok = FALSE

\* The agent is spawned again, to resume the task.
Retries(r, t) ==
  /\ t = FindTaskDir(r) /\ task' \in Healed(t)
  /\ run'[r].at = "stream" /\ run'[r].found = t
  /\ agent'[r].at = "boot" /\ agent'[r].op = run[r].op /\ agent'[r].task = t
  /\ \A q \in Runners \ {r} : agent'[q] = agent[q]

\* The outcome is known.
Concludes(r, t) ==
  /\ t = FindTaskDir(r) /\ task' \in Healed(t) /\ UNCHANGED agent
  /\ run'[r].at = "finish" /\ run'[r].found = t /\ run'[r].cut = run[r].cut
  /\ run'[r].ok => task'[t].phase = "FINISH"
  /\ (~run'[r].ok /\ task'[t].phase = "FINISH")
       => (run'[r].cut \/ task'[t].journal = "broken")

\* What a runner makes of an agent that ended.
LEMMA CollectFacts ==
  ASSUME TypeInv, NEW r \in Runners, Collect(r)
  PROVE  /\ TypeInv' /\ UNCHANGED <<manifest, lock, cases, edits>>
         /\ run[r].at = "collect" /\ run'[r].op = run[r].op
         /\ \A q \in Runners \ {r} : run'[q] = run[q]
         /\ FindsNone(r) \/ \E t \in Tasks : Retries(r, t) \/ Concludes(r, t)
<1> DEFINE t == FindTaskDir(r)
<1>1. run[r].at = "collect" /\ UNCHANGED <<manifest, lock, cases, faults, edits>>
  BY DEF Collect
<1>2. run[r].op \in Ops /\ run[r] \in RunRec
  BY <1>1, Parts DEF TypeInv, Working
<1>3. t \in Tasks \cup {None}
  BY <1>2, FoundTask
<1>4. CASE t = None
  <2> DEFINE rec == [run[r] EXCEPT !.at = "finish", !.ok = FALSE]
  <2>1. run' = [run EXCEPT ![r] = rec] /\ UNCHANGED <<task, agent>>
    BY <1>4 DEF Collect
  <2>2. /\ rec \in RunRec /\ rec.at = "finish" /\ rec.op = run[r].op
        /\ rec.found = run[r].found /\ rec.ok = FALSE
    BY <1>2 DEF RunRec, RunnerAt
  <2> HIDE DEF rec
  <2>3. RunTo(r, rec)
    BY <2>1, <2>2, RunSet
  <2>4. TypeInv'
    BY <1>1, <1>2, <2>1, <2>2, <2>3 DEF TypeInv, RunTo
  <2>5. FindsNone(r)
    BY <1>4, <2>1, <2>2, <2>3 DEF FindsNone, RunTo
  <2> QED
    BY <1>1, <2>2, <2>3, <2>4, <2>5 DEF RunTo
<1>5. CASE t # None
  <2> DEFINE finish == task'[t].phase = "FINISH"
             refused == task'[t].journal = "broken"
             ok == finish /\ ~run[r].cut /\ (refused => run[r].again)
             again == [run[r] EXCEPT !.at = "stream", !.retries = run[r].retries + 1, !.found = t,
                                     !.again = TRUE, !.rc = 0]
             ended == [run[r] EXCEPT !.at = "finish", !.found = t, !.ok = ok]
             agt == [at |-> "boot", op |-> run[r].op, task |-> t]
  <2>1. t \in Tasks
    BY <1>3, <1>5
  <2>2. task' \in Healed(t)
    BY <1>5 DEF Collect
  <2>3. task' \in [Tasks -> TaskRec]
    BY <2>1, <2>2, HealedTypes
  <2>4. \/ /\ RetriesLeft(r) /\ run' = [run EXCEPT ![r] = again]
           /\ agent' = [agent EXCEPT ![r] = agt]
        \/ run' = [run EXCEPT ![r] = ended] /\ UNCHANGED agent
    BY <1>5 DEF Collect, Spawn
  <2>5. CASE RetriesLeft(r) /\ run' = [run EXCEPT ![r] = again] /\ agent' = [agent EXCEPT ![r] = agt]
    <3>1. run[r].retries + 1 \in 0..MaxRetries
      BY <2>5, Parts, BatchAssumption DEF RetriesLeft
    <3>2. /\ again \in RunRec /\ again.at = "stream" /\ again.op = run[r].op /\ again.found = t
      BY <1>2, <2>1, <3>1 DEF RunRec, RunnerAt
    <3>3. agt \in AgentRec /\ agt.at = "boot" /\ agt.op = run[r].op /\ agt.task = t
      BY <1>2, <2>1 DEF AgentRec
    <3> HIDE DEF again, agt, t
    <3>4. RunTo(r, again)
      BY <2>5, <3>2, RunSet
    <3>5. /\ agent' \in [Runners -> AgentRec] /\ agent'[r] = agt
          /\ \A q \in Runners \ {r} : agent'[q] = agent[q]
      BY <2>5, <3>3 DEF TypeInv
    <3>6. TypeInv'
      BY <1>1, <1>2, <2>3, <3>2, <3>4, <3>5 DEF TypeInv, RunTo
    <3>7. Retries(r, t)
      BY <2>2, <3>2, <3>3, <3>4, <3>5 DEF Retries, RunTo, t
    <3> QED
      BY <1>1, <2>1, <3>2, <3>4, <3>6, <3>7 DEF RunTo
  <2>6. CASE run' = [run EXCEPT ![r] = ended] /\ UNCHANGED agent
    <3>1. ok \in BOOLEAN
      OBVIOUS
    <3>2. /\ (ok => finish)
          /\ (~ok /\ finish) => (run[r].cut \/ refused)
      OBVIOUS
    <3> HIDE DEF ok
    <3>3. /\ ended \in RunRec /\ ended.at = "finish" /\ ended.op = run[r].op /\ ended.found = t
          /\ ended.cut = run[r].cut /\ ended.ok = ok
      BY <1>2, <2>1, <3>1 DEF RunRec, RunnerAt
    <3> HIDE DEF ended, t
    <3>4. RunTo(r, ended)
      BY <2>6, <3>3, RunSet
    <3>5. TypeInv'
      BY <1>1, <1>2, <2>3, <2>6, <3>3, <3>4 DEF TypeInv, RunTo
    <3>6. Concludes(r, t)
      <4>1. /\ run'[r].at = "finish" /\ run'[r].found = t /\ run'[r].cut = run[r].cut
            /\ run'[r].ok = ok
        BY <3>3, <3>4 DEF RunTo
      <4>2. t = FindTaskDir(r)
        BY DEF t
      <4> QED
        BY <2>2, <2>6, <3>1, <3>2, <4>1, <4>2 DEF Concludes
    <3> QED
      BY <1>1, <2>1, <3>3, <3>4, <3>5, <3>6 DEF RunTo
  <2> QED
    BY <2>4, <2>5, <2>6
<1> QED
  BY <1>4, <1>5

\* The case is settled.
Settles(r, op) ==
  /\ op = run[r].op /\ Known(op)
  /\ cases'[op].status = IF run[r].ok THEN "done" ELSE "error"
  /\ cases'[op].task = IF run[r].found = None THEN cases[op].task ELSE run[r].found
  /\ cases'[op].cut = run[r].cut
  /\ \A o \in Ops \ {op} : cases'[o] = cases[o]
  /\ run'[r].at = "pick" /\ run'[r].found = None
  /\ UNCHANGED <<manifest, lock, task, agent, edits>>

\* The end of a case.
LEMMA SettleFacts ==
  ASSUME TypeInv, NEW r \in Runners, FinishCase(r)
  PROVE  /\ TypeInv' /\ run[r].at = "finish"
         /\ \A q \in Runners \ {r} : run'[q] = run[q]
         /\ \/ Raises(r) /\ UNCHANGED faults
            \/ \E op \in Ops : Settles(r, op)
<1> DEFINE op == run[r].op
           t == IF run[r].found = None THEN cases[op].task ELSE run[r].found
           st == IF run[r].ok THEN "done" ELSE "error"
           cas == [cases[op] EXCEPT !.status = st, !.task = t, !.cut = run[r].cut]
           left == IF run[r].cut THEN {} ELSE run[r].queue
           prev == IF t = None THEN run[r].prev ELSE t
           rec == [NoRun EXCEPT !.at = "pick", !.queue = left, !.prev = prev]
<1>1. run[r].at = "finish"
  BY DEF FinishCase
<1>2. CASE Raises(r) /\ UNCHANGED faults
  BY <1>1, <1>2, EndFacts
<1>3. CASE ~(Raises(r) /\ UNCHANGED faults)
  <2>1. /\ Known(op) /\ cases' = [cases EXCEPT ![op] = cas]
        /\ run' = [run EXCEPT ![r] = rec]
        /\ UNCHANGED <<manifest, lock, task, agent, faults, edits>>
    BY <1>3 DEF FinishCase
  <2>2. /\ op \in Ops /\ run[r].found \in Tasks \cup {None} /\ run[r].queue \subseteq Ops
        /\ run[r].prev \in Tasks \cup {None} /\ run[r].cut \in BOOLEAN
    BY <1>1, Parts DEF TypeInv, Working
  <2>3. cases[op] \in CaseRec /\ cases[op].task \in Tasks \cup {None}
    BY <2>2, Parts
  <2>4. t \in Tasks \cup {None} /\ prev \in Tasks \cup {None} /\ left \subseteq Ops
    BY <2>2, <2>3
  <2>5. st \in {"done", "error"}
    OBVIOUS
  <2> HIDE DEF t, st, prev, left
  <2>6. cas \in CaseRec /\ cas.status = st /\ cas.task = t /\ cas.cut = run[r].cut
    BY <2>2, <2>3, <2>4, <2>5 DEF CaseRec, Statuses
  <2>7. rec \in RunRec /\ rec.at = "pick" /\ rec.found = None
    BY <2>4, Nothing DEF RunRec, RunnerAt
  <2> HIDE DEF cas, rec
  <2>8. RunTo(r, rec)
    BY <2>1, <2>7, RunSet
  <2>9. /\ cases' \in [Ops -> CaseRec] /\ cases'[op] = cas
        /\ \A o \in Ops \ {op} : cases'[o] = cases[o]
    BY <2>1, <2>2, <2>6 DEF TypeInv
  <2>10. TypeInv'
    BY <2>1, <2>7, <2>8, <2>9 DEF TypeInv, RunTo, Working
  <2>11. Settles(r, op)
    BY <2>1, <2>6, <2>7, <2>8, <2>9 DEF Settles, RunTo, t, st
  <2> HIDE DEF op
  <2> QED
    BY <1>1, <2>2, <2>8, <2>10, <2>11 DEF RunTo
<1> QED
  BY <1>2, <1>3

-----------------------------------------------------------------------------
(* One runner per batch directory.                                         *)

\* Nothing has happened yet.
LEMMA Starts ==
  ASSUME Init
  PROVE  TypeInv /\ LockInv /\ CaseInv
<1>1. /\ \A op \in Ops : cases[op] = NoCase
      /\ \A t \in Tasks : task[t] = NoTask
      /\ \A r \in Runners : run[r] = NoRun /\ agent[r] = NoAgent
  BY DEF Init
<1>2. TypeInv
  BY <1>1, Nothing, BatchAssumption DEF Init, TypeInv, Working
<1>3. LockInv
  BY <1>1, Nothing DEF LockInv, InBatch, Taking
<1>4. AttemptInv
  BY <1>1, Nothing DEF Init, AttemptInv, On, Busy, Live, Working
<1>5. TaskInv /\ SettleInv /\ DoneIsFinished
  BY <1>1, Nothing DEF TaskInv, SettleInv, DoneIsFinished, Live
<1> QED
  BY <1>2, <1>3, <1>4, <1>5 DEF CaseInv

\* Every step keeps the types.
LEMMA TypesKept ==
  ASSUME TypeInv, [Next]_vars
  PROVE  TypeInv'
<1>1. CASE Prepare
  BY <1>1, PrepareFacts
<1>2. ASSUME NEW r \in Runners, Start(r) \/ RunnerStep(r) \/ AgentStep(r) \/ Kill(r)
      PROVE  TypeInv'
  <2>1. CASE Start(r) \/ Acquire(r)
    BY <2>1, TakingFacts
  <2>2. CASE Recover(r)
    BY <2>2, RecoverFacts
  <2>3. CASE Begin(r) \/ BeginRefused(r)
    BY <2>3, BeginFacts, RefusedFacts
  <2>4. CASE Finish(r) \/ StreamRaises(r) \/ Kill(r)
    BY <2>4, EndFacts
  <2>5. CASE StreamEnds(r) \/ \E cut \in BOOLEAN : StreamKills(r, cut)
    BY <2>5, EndsFacts, KillsFacts
  <2>6. CASE Collect(r) \/ FinishCase(r)
    BY <2>6, CollectFacts, SettleFacts
  <2>7. CASE AgentStep(r)
    BY <2>7, ScaffoldFacts, WorksFacts, ExitsFacts DEF AgentStep
  <2> QED
    BY <1>2, <2>1, <2>2, <2>3, <2>4, <2>5, <2>6, <2>7 DEF RunnerStep
<1>3. ASSUME NEW t \in Tasks, HeartbeatLapses(t)
      PROVE  TypeInv'
  BY <1>3, LapseFacts
<1>4. CASE UNCHANGED vars
  BY <1>4 DEF vars, TypeInv, Working
<1> QED
  BY <1>1, <1>2, <1>3, <1>4 DEF Next

\* Every step keeps what the lock stands for.
LEMMA LockKept ==
  ASSUME TypeInv, LockInv, ~Overlap, [Next]_vars
  PROVE  LockInv'
<1>0. CASE UNCHANGED <<run, lock>>
  BY <1>0 DEF LockInv, InBatch, Taking
<1>1. CASE Prepare
  BY <1>0, <1>1, PrepareFacts
<1>2. ASSUME NEW r \in Runners, Start(r) \/ RunnerStep(r) \/ AgentStep(r) \/ Kill(r)
      PROVE  LockInv'
  <2>1. CASE Start(r) \/ Acquire(r)
    BY <2>1, LockTaken
  <2>2. CASE Recover(r)
    BY <2>2, RecoverFacts, LockQuiet
  <2>3. CASE Begin(r)
    BY <2>3, BeginFacts, LockQuiet DEF Skips, Takes
  <2>4. CASE BeginRefused(r)
    BY <2>4, RefusedFacts, LockQuiet
  <2>5. CASE Finish(r) \/ StreamRaises(r)
    <3>1. InBatch(r) /\ lock' = None
      BY <2>5 DEF Finish, StreamRaises, Raises, InBatch
    <3> QED
      BY <2>5, <3>1, EndFacts, LockLeft
  <2>6. CASE Kill(r)
    <3>1. lock' = lock
      BY <2>6 DEF Kill
    <3> QED
      BY <2>6, <3>1, EndFacts, LockQuiet
  <2>7. CASE StreamEnds(r)
    BY <2>7, EndsFacts, LockQuiet
  <2>8. ASSUME NEW cut \in BOOLEAN, StreamKills(r, cut)
        PROVE  LockInv'
    BY <2>8, KillsFacts, LockQuiet
  <2>9. CASE Collect(r)
    BY <2>9, CollectFacts, LockQuiet DEF FindsNone, Retries, Concludes
  <2>10. CASE FinishCase(r)
    <3>1. CASE Raises(r) /\ UNCHANGED faults
      <4>1. InBatch(r) /\ lock' = None
        BY <2>10, <3>1 DEF FinishCase, Raises, InBatch
      <4> QED
        BY <3>1, <4>1, EndFacts, LockLeft
    <3>2. CASE \E op \in Ops : Settles(r, op)
      BY <2>10, <3>2, SettleFacts, LockQuiet DEF Settles
    <3> QED
      BY <2>10, <3>1, <3>2, SettleFacts
  <2>11. CASE AgentScaffold(r) \/ AgentWorks(r)
    BY <1>0, <2>11, ScaffoldFacts, WorksFacts
  <2>12. ASSUME NEW rc \in {0, 1}, AgentExits(r, rc)
         PROVE  LockInv'
    BY <2>12, ExitsFacts, LockQuiet
  <2> QED
    BY <1>2, <2>1, <2>2, <2>3, <2>4, <2>5, <2>6, <2>7, <2>8, <2>9, <2>10, <2>11, <2>12
       DEF RunnerStep, AgentStep
<1>3. ASSUME NEW t \in Tasks, HeartbeatLapses(t)
      PROVE  LockInv'
  BY <1>0, <1>3, LapseFacts
<1>4. CASE UNCHANGED vars
  BY <1>0, <1>4 DEF vars
<1> QED
  BY <1>1, <1>2, <1>3, <1>4 DEF Next

\* The state of the batch is always of its types, whatever is killed or raised
\* (TypeOK of run.py's lock, progress file and agents).
THEOREM BatchTypes == Spec => []TypeOK
<1>1. Init => TypeInv
  BY Starts
<1>2. TypeInv /\ [Next]_vars => TypeInv'
  BY TypesKept
<1>3. TypeInv => TypeOK
  BY DEF TypeInv, TypeOK, CaseRec, TaskRec, RunRec, AgentRec, LockRec
<1> QED
  BY <1>1, <1>2, <1>3, PTL DEF Spec

\* acquire_lock keeps its promise: two runners are never past the lock of one
\* batch directory, however many were killed and left their file behind, as
\* long as no two of them are taking it at once (with Overlap they are not kept
\* apart: the violation run).
THEOREM RunnersKeptApart == ~Overlap => (Spec => []OneRunner)
<1> SUFFICES ASSUME ~Overlap
             PROVE  Spec => []OneRunner
  OBVIOUS
<1>1. Init => TypeInv /\ LockInv
  BY Starts
<1>2. TypeInv /\ LockInv /\ [Next]_vars => TypeInv' /\ LockInv'
  BY TypesKept, LockKept
<1>3. LockInv => OneRunner
  BY DEF LockInv, OneRunner
<1> QED
  BY <1>1, <1>2, <1>3, PTL DEF Spec

-----------------------------------------------------------------------------
(* What a case says of its task, when each operator is begun once.         *)

Once == ~RetryErrored /\ MaxEdits <= 1

\* Whoever is past the lock is the only one with an operator at hand.
LEMMA Alone ==
  ASSUME LockInv, NEW r \in Runners, InBatch(r)
  PROVE  \A q \in Runners \ {r} : run[q].at \notin Working
BY DEF LockInv, InBatch, Working

\* A runner that only moves outside its cases.
LEMMA CaseLight ==
  ASSUME TypeInv, CaseInv, NEW r \in Runners, UNCHANGED <<manifest, cases, task, agent, edits>>,
         \A q \in Runners \ {r} : run'[q] = run[q], run'[r].at \notin Working,
         run'[r].found = None, run'[r].at = "out" \/ agent[r].at = "none"
  PROVE  CaseInv'
<1>1. AttemptInv'
  BY DEF CaseInv, AttemptInv, On, Busy, Live, Working
<1>2. TaskInv'
  BY DEF CaseInv, TaskInv, Live, Working
<1>3. SettleInv'
  BY DEF CaseInv, SettleInv, Finished, Working
<1>4. DoneIsFinished'
  BY DEF CaseInv, DoneIsFinished, Finished
<1> QED
  BY <1>1, <1>2, <1>3, <1>4 DEF CaseInv

\* The one manifest is written before there is a case.
LEMMA PrepareCase ==
  ASSUME TypeInv, CaseInv, Once, Prepare
  PROVE  CaseInv'
<1>1. edits = 0 /\ edits' = 1
  BY PrepareFacts, BatchAssumption DEF Once, TypeInv
<1>2. UNCHANGED <<cases, task, run, agent>>
  BY PrepareFacts
<1>3. AttemptInv'
  BY <1>1, <1>2 DEF CaseInv, AttemptInv, On, Busy, Live
<1>4. TaskInv' /\ SettleInv' /\ DoneIsFinished'
  BY <1>2 DEF CaseInv, TaskInv, SettleInv, DoneIsFinished, Finished, Live
<1> QED
  BY <1>3, <1>4 DEF CaseInv

\* Recovery: a case becomes done by a finished task that it names, and one that
\* is not begun has nobody on it.
LEMMA RecoverCases ==
  ASSUME TypeInv, LockInv, CaseInv, NEW r \in Runners, Recover(r)
  PROVE  CaseInv'
<1>1. /\ UNCHANGED <<manifest, lock, task, agent, edits>>
      /\ run[r].at = "recover" /\ run'[r].at = "pick" /\ run'[r].found = run[r].found
      /\ \A q \in Runners \ {r} : run'[q] = run[q]
  BY RecoverFacts
<1>2. \A q \in Runners : run[q].at \notin Working /\ run'[q].at \notin Working
  BY <1>1, Alone DEF InBatch, Working
<1>3. \A op \in Ops :
         /\ cases'[op].status # "absent" => op \in manifest
         /\ cases'[op].status \in {"absent", "pending"}
              => (cases[op].status \in {"absent", "pending"} \/ op \notin manifest)
         /\ (cases'[op].status = "done" /\ cases[op].status # "done")
              => Finished(cases[op].task)
         /\ cases'[op].status = "done" => cases'[op].task = cases[op].task
         /\ cases'[op].task \in {cases[op].task, None}
  BY Parts, MergedCase, RecoverFacts
<1>4. agent[r].at = "none"
  BY <1>1 DEF CaseInv, AttemptInv
<1>5. run[r].found = None
  BY <1>1 DEF CaseInv, TaskInv, Working
<1>6. AttemptInv'
  <2>1. \A op \in Ops, q \in Runners : On(q, op)' <=> Live(q, op)
    BY <1>1, <1>2 DEF On, Busy, Live
  <2>2. \A op \in Ops, q \in Runners : On(q, op) <=> Live(q, op)
    BY <1>2 DEF On, Busy, Live
  <2>3. \A op \in Ops, q \in Runners :
           cases'[op].status \in {"absent", "pending"} => ~On(q, op)'
    BY <1>3, <2>1, <2>2 DEF CaseInv, AttemptInv
  <2>4. \A op \in Ops, p, q \in Runners : On(p, op)' /\ On(q, op)' => p = q
    BY <2>1, <2>2 DEF CaseInv, AttemptInv
  <2>5. \A op \in Ops, q \in Runners : ~Busy(q, op)'
    BY <1>2 DEF Busy
  <2>6. edits' = 0 => \A op \in Ops : cases'[op].status = "absent"
    BY <1>1, <1>3 DEF CaseInv, AttemptInv
  <2> QED
    BY <1>1, <1>3, <1>4, <2>3, <2>4, <2>5, <2>6 DEF CaseInv, AttemptInv
<1>7. TaskInv'
  BY <1>1, <1>3, <1>5 DEF CaseInv, TaskInv, Live
<1>8. SettleInv'
  BY <1>2 DEF SettleInv, Working
<1>9. DoneIsFinished'
  BY <1>1, <1>3 DEF CaseInv, DoneIsFinished, Finished, TaskInv
<1> QED
  BY <1>6, <1>7, <1>8, <1>9 DEF CaseInv

\* An operator that is begun was pending: nobody is on it.
LEMMA TakesCase ==
  ASSUME TypeInv, LockInv, CaseInv, Once, NEW r \in Runners, NEW op \in Ops, Takes(r, op),
         UNCHANGED <<manifest, edits>>, run[r].at = "pick", run'[r].found = run[r].found,
         \A q \in Runners \ {r} : run'[q] = run[q]
  PROVE  CaseInv'
<1>0. /\ \A o \in Ops : cases[o].task \in Tasks \cup {None}
      /\ \A q \in Runners : agent[q].task \in Tasks \cup {None}
  BY Parts
<1>1. cases[op].status = "pending"
  BY DEF Takes, Queued, Once
<1>2. \A q \in Runners \ {r} : run[q].at \notin Working
  BY Alone DEF InBatch
<1>3. \A q \in Runners : ~On(q, op)
  BY <1>1 DEF CaseInv, AttemptInv
<1>4. run[r].found = None
  BY DEF CaseInv, TaskInv, Working
<1>5. \A o \in Ops : On(r, o)' => o = op
  BY DEF Takes, On, Busy, Live
<1>6. \A o \in Ops, q \in Runners \ {r} : (On(q, o)' <=> On(q, o)) /\ ~Busy(q, o)'
  BY <1>2 DEF Takes, On, Busy, Live
<1>7. AttemptInv'
  <2>1. edits' = 0 => \A o \in Ops : cases'[o].status = "absent"
    BY <1>1 DEF CaseInv, AttemptInv
  <2>2. \A o \in Ops : cases'[o].status # "absent" => o \in manifest'
    BY <1>1 DEF CaseInv, AttemptInv, Takes
  <2>3. \A o \in Ops, q \in Runners : cases'[o].status \in {"absent", "pending"} => ~On(q, o)'
    BY <1>5, <1>6 DEF CaseInv, AttemptInv, Takes
  <2>4. \A o \in Ops, p, q \in Runners : On(p, o)' /\ On(q, o)' => p = q
    BY <1>3, <1>5, <1>6 DEF CaseInv, AttemptInv
  <2>5. \A o \in Ops, q \in Runners : Busy(q, o)' => cases'[o].status = "running" /\ cases'[o].runner = q
    BY <1>5, <1>6 DEF Takes, On
  <2> QED
    BY <2>1, <2>2, <2>3, <2>4, <2>5 DEF CaseInv, AttemptInv, Takes
<1>8. TaskInv'
  <2>1. \A o \in Ops : cases'[o].task # None => task'[cases'[o].task].op = o
    BY <1>0 DEF CaseInv, TaskInv, Takes
  <2>2. \A o \in Ops, q \in Runners : cases'[o].task # None /\ Live(q, o)' => agent'[q].task # None
    BY DEF CaseInv, TaskInv, Takes, Live
  <2>3. \A q \in Runners : agent'[q].at # "none" /\ agent'[q].task # None
                            => task'[agent'[q].task].op = agent'[q].op
    BY <1>0 DEF CaseInv, TaskInv, Takes
  <2>4. \A t \in Tasks : task'[t].journal = "pending" => task'[t].phase = "WORK"
    BY DEF CaseInv, TaskInv, Takes
  <2>5. \A q \in Runners : run'[q].found = None
    BY <1>2, <1>4 DEF CaseInv, TaskInv
  <2> QED
    BY <2>1, <2>2, <2>3, <2>4, <2>5 DEF TaskInv
<1>9. SettleInv'
  BY <1>2 DEF SettleInv, Working, Takes
<1>10. DoneIsFinished'
  BY <1>0, <1>1 DEF CaseInv, DoneIsFinished, Finished, TaskInv, Takes
<1> QED
  BY <1>7, <1>8, <1>9, <1>10 DEF CaseInv

\* An operator that cannot be begun.
LEMMA RefusedCase ==
  ASSUME TypeInv, LockInv, CaseInv, Once, NEW r \in Runners, BeginRefused(r)
  PROVE  CaseInv'
<1>1. /\ UNCHANGED <<manifest, lock, task, agent, edits>>
      /\ run[r].at = "pick" /\ run'[r].at = "pick" /\ run'[r].found = run[r].found
      /\ \A q \in Runners \ {r} : run'[q] = run[q]
  BY RefusedFacts
<1>2. PICK op \in Ops : /\ Queued(cases[op]) /\ cases'[op].status = "error"
                        /\ cases'[op].task = None
                        /\ \A o \in Ops \ {op} : cases'[o] = cases[o]
  BY RefusedFacts
<1>3. cases[op].status = "pending"
  BY <1>2 DEF Queued, Once
<1>4. \A o \in Ops, q \in Runners : (On(q, o)' <=> On(q, o)) /\ (Busy(q, o)' <=> Busy(q, o))
  BY <1>1 DEF On, Busy, Live, Working
<1>5. \A q \in Runners : ~On(q, op)
  BY <1>3 DEF CaseInv, AttemptInv
<1>6. AttemptInv'
  <2>1. \A o \in Ops : cases'[o].status # "absent" => o \in manifest'
    BY <1>1, <1>2, <1>3 DEF CaseInv, AttemptInv
  <2>2. \A o \in Ops, q \in Runners : cases'[o].status \in {"absent", "pending"} => ~On(q, o)'
    BY <1>2, <1>4 DEF CaseInv, AttemptInv
  <2>3. \A o \in Ops, p, q \in Runners : On(p, o)' /\ On(q, o)' => p = q
    BY <1>4 DEF CaseInv, AttemptInv
  <2>4. \A o \in Ops, q \in Runners : Busy(q, o)' => cases'[o].status = "running" /\ cases'[o].runner = q
    BY <1>2, <1>4, <1>5 DEF CaseInv, AttemptInv, On
  <2>5. edits' = 0 => \A o \in Ops : cases'[o].status = "absent"
    BY <1>1, <1>3 DEF CaseInv, AttemptInv
  <2> QED
    BY <1>1, <2>1, <2>2, <2>3, <2>4, <2>5 DEF CaseInv, AttemptInv
<1>7. TaskInv'
  BY <1>1, <1>2 DEF CaseInv, TaskInv, Live, Working
<1>8. SettleInv'
  <2>1. \A q \in Runners : run'[q].at \notin Working
    BY <1>1, Alone DEF InBatch, Working
  <2> QED
    BY <2>1 DEF SettleInv, Working
<1>9. DoneIsFinished'
  BY <1>1, <1>2 DEF CaseInv, DoneIsFinished, Finished
<1> QED
  BY <1>6, <1>7, <1>8, <1>9 DEF CaseInv

\* The end of an agent is noticed.
LEMMA EndsCase ==
  ASSUME TypeInv, CaseInv, NEW r \in Runners, StreamEnds(r)
  PROVE  CaseInv'
<1>1. /\ UNCHANGED <<manifest, cases, task, agent, edits>>
      /\ run[r].at = "stream" /\ run'[r].at = "collect" /\ agent[r].at = "none"
      /\ run'[r].op = run[r].op /\ run'[r].found = run[r].found
      /\ \A q \in Runners \ {r} : run'[q] = run[q]
  BY EndsFacts
<1>2. AttemptInv'
  BY <1>1 DEF CaseInv, AttemptInv, On, Busy, Live, Working
<1>3. TaskInv' /\ SettleInv' /\ DoneIsFinished'
  BY <1>1 DEF CaseInv, TaskInv, SettleInv, DoneIsFinished, Finished, Live, Working
<1> QED
  BY <1>2, <1>3 DEF CaseInv

\* No agent is at work on the task a runner is about to settle its case by: one
\* on that task is of the same operator, so it is the runner's own, which ended.
LEMMA Untouched ==
  ASSUME TypeInv, CaseInv, NEW r \in Runners, NEW q \in Runners, run[r].at = "finish",
         agent[q].at # "none"
  PROVE  /\ agent[q].op # run[r].op
         /\ cases[run[r].op].task # None => agent[q].task # cases[run[r].op].task
<1> DEFINE op == run[r].op
<1>1. op \in Ops /\ Busy(r, op)
  BY DEF TypeInv, Working, Busy
<1>2. agent[q].op # op
  <2>1. SUFFICES ASSUME agent[q].op = op
                 PROVE  FALSE
    OBVIOUS
  <2>2. Live(q, op)
    BY <2>1 DEF Live
  <2>3. q = r
    BY <1>1, <2>2 DEF CaseInv, AttemptInv, On
  <2> QED
    BY <2>3 DEF CaseInv, AttemptInv
<1>3. ASSUME cases[op].task # None, agent[q].task = cases[op].task
      PROVE  FALSE
  <2>1. task[cases[op].task].op = op
    BY <1>1, <1>3 DEF CaseInv, TaskInv
  <2>2. task[agent[q].task].op = agent[q].op
    BY <1>3 DEF CaseInv, TaskInv
  <2> QED
    BY <1>2, <1>3, <2>1, <2>2
<1> QED
  BY <1>2, <1>3

\* An agent works on its task, or is gone; its own runner may notice.
LEMMA AgentCase ==
  ASSUME TypeInv, CaseInv, NEW r \in Runners, agent[r].at # "none",
         UNCHANGED <<manifest, cases, edits>>, Ages(agent[r].task), Drives(r),
         agent'[r].at = "none" \/ agent[r].task # None,
         \A q \in Runners \ {r} : run'[q] = run[q],
         run'[r].found = run[r].found, run'[r].op = run[r].op,
         \/ run'[r].at = run[r].at
         \/ run[r].at = "stream" /\ run'[r].at = "collect" /\ agent'[r].at = "none"
  PROVE  CaseInv'
<1>1. /\ \A o \in Ops : cases[o].task \in Tasks \cup {None}
      /\ \A q \in Runners : agent[q].task \in Tasks \cup {None} /\ run[q].found \in Tasks \cup {None}
  BY Parts
<1>2. run[r].at = "stream" \/ run[r].at = "out"
  BY DEF CaseInv, AttemptInv
<1>3. \A o \in Ops, q \in Runners : (On(q, o)' => On(q, o)) /\ (Busy(q, o)' <=> Busy(q, o))
  <2>1. \A o \in Ops, q \in Runners : Busy(q, o)' <=> Busy(q, o)
    BY <1>2 DEF Busy, Working
  <2>2. \A o \in Ops, q \in Runners : Live(q, o)' => Live(q, o)
    BY DEF Drives, Live
  <2> QED
    BY <2>1, <2>2 DEF On
<1>4. AttemptInv'
  <2>1. \A o \in Ops, q \in Runners : cases'[o].status \in {"absent", "pending"} => ~On(q, o)'
    BY <1>3 DEF CaseInv, AttemptInv
  <2>2. \A o \in Ops, p, q \in Runners : On(p, o)' /\ On(q, o)' => p = q
    BY <1>3 DEF CaseInv, AttemptInv
  <2>3. \A o \in Ops, q \in Runners : Busy(q, o)' => cases'[o].status = "running" /\ cases'[o].runner = q
    BY <1>3 DEF CaseInv, AttemptInv
  <2>4. \A q \in Runners :
          /\ agent'[q].at # "none" => run'[q].at = "stream" \/ run'[q].at = "out"
          /\ agent'[q].at # "none" /\ run'[q].at = "stream" => agent'[q].op = run'[q].op
          /\ agent'[q].at # "none" => agent'[q].op \in Ops
          /\ agent'[q].at = "work" => agent'[q].task # None
    BY DEF CaseInv, AttemptInv, Drives
  <2> QED
    BY <2>1, <2>2, <2>3, <2>4 DEF CaseInv, AttemptInv
<1>5. TaskInv'
  <2>1. \A o \in Ops : cases'[o].task # None => task'[cases'[o].task].op = o
    BY <1>1 DEF CaseInv, TaskInv, Ages
  <2>2. \A o \in Ops, q \in Runners : cases'[o].task # None /\ Live(q, o)' => agent'[q].task # None
    BY DEF CaseInv, TaskInv, Live, Drives
  <2>3. \A q \in Runners : agent'[q].at # "none" /\ agent'[q].task # None
                            => task'[agent'[q].task].op = agent'[q].op
    BY <1>1 DEF CaseInv, TaskInv, Ages, Drives
  <2>4. \A t \in Tasks : task'[t].journal = "pending" => task'[t].phase = "WORK"
    BY DEF CaseInv, TaskInv, Ages
  <2>5. \A q \in Runners : run'[q].found # None
          => run'[q].at \in Working /\ task'[run'[q].found].op = run'[q].op
    BY <1>1, <1>2 DEF CaseInv, TaskInv, Ages, Working
  <2> QED
    BY <2>1, <2>2, <2>3, <2>4, <2>5 DEF TaskInv
<1>6. SettleInv'
  <2> SUFFICES ASSUME NEW q \in Runners, run'[q].at = "finish"
               PROVE  LET t == cases'[run'[q].op].task IN
                      /\ run'[q].ok => (run'[q].found # None /\ task'[run'[q].found].phase = "FINISH")
                      /\ (~run'[q].ok /\ t # None /\ task'[t].phase = "FINISH")
                           => (run'[q].cut \/ task'[t].journal = "broken")
    BY DEF SettleInv, Finished
  <2> DEFINE t == cases[run[q].op].task
  <2>1. q # r /\ run'[q] = run[q] /\ run[q].at = "finish"
    BY <1>2
  <2>2. run[q].op \in Ops
    BY <2>1 DEF TypeInv, Working
  <2>3. t \in Tasks \cup {None}
    BY <1>1, <2>2
  <2>4. /\ run[q].ok => (run[q].found # None /\ task[run[q].found].phase = "FINISH")
        /\ (~run[q].ok /\ t # None /\ task[t].phase = "FINISH")
             => (run[q].cut \/ task[t].journal = "broken")
    BY <2>1 DEF CaseInv, SettleInv, Finished
  <2>5. t # None => task'[t] = task[t]
    BY <2>1, <2>3, Untouched DEF Ages
  <2>6. (run[q].found # None /\ task[run[q].found].phase = "FINISH")
          => task'[run[q].found].phase = "FINISH"
    BY <1>1 DEF Ages
  <2> QED
    BY <2>1, <2>4, <2>5, <2>6
<1>7. DoneIsFinished'
  BY <1>1 DEF CaseInv, DoneIsFinished, Finished, Ages
<1> QED
  BY <1>4, <1>5, <1>6, <1>7 DEF CaseInv

\* What the lapse of a heartbeat, or a resumed agent, leaves of the tasks.
LEMMA SameTasks ==
  ASSUME TypeInv, CaseInv, UNCHANGED <<manifest, cases, run, edits>>,
         \A t \in Tasks : /\ task'[t].op = task[t].op /\ task'[t].phase = task[t].phase
                          /\ task'[t].journal = task[t].journal,
         \A q \in Runners :
           \/ agent'[q] = agent[q]
           \/ /\ agent[q].at # "none" /\ agent[q].task # None /\ agent'[q].at = "work"
              /\ agent'[q].op = agent[q].op /\ agent'[q].task = agent[q].task
  PROVE  CaseInv'
<1>1. /\ \A o \in Ops : cases[o].task \in Tasks \cup {None}
      /\ \A q \in Runners : agent[q].task \in Tasks \cup {None} /\ run[q].found \in Tasks \cup {None}
  BY Parts
<1>2. \A q \in Runners : /\ agent'[q].at # "none" <=> agent[q].at # "none"
                         /\ agent'[q].op = agent[q].op /\ agent'[q].task = agent[q].task
                         /\ agent'[q].at = "work" => (agent[q].at = "work" \/ agent[q].task # None)
  OBVIOUS
<1>3. \A o \in Ops, q \in Runners : (On(q, o)' <=> On(q, o)) /\ (Busy(q, o)' <=> Busy(q, o))
                                    /\ (Live(q, o)' <=> Live(q, o))
  BY <1>2 DEF On, Busy, Live
<1>4. AttemptInv'
  BY <1>2, <1>3 DEF CaseInv, AttemptInv
<1>5. TaskInv'
  BY <1>1, <1>2, <1>3 DEF CaseInv, TaskInv
<1>6. \A q \in Runners : run[q].at = "finish" => run[q].op \in Ops
  BY DEF TypeInv, Working
<1>7. SettleInv'
  BY <1>1, <1>6 DEF CaseInv, SettleInv, Finished
<1>8. DoneIsFinished'
  BY <1>1 DEF CaseInv, DoneIsFinished, Finished
<1> QED
  BY <1>4, <1>5, <1>7, <1>8 DEF CaseInv

\* An agent that makes its directory is the only one on its operator, and the
\* case of that operator is not settled by a task yet.
LEMMA ScaffoldCase ==
  ASSUME TypeInv, CaseInv, NEW r \in Runners, NEW t \in Tasks, agent[r].at = "boot",
         Scaffolds(r, t), UNCHANGED <<manifest, run, edits>>
  PROVE  CaseInv'
<1> DEFINE op == agent[r].op
<1>1. /\ \A o \in Ops : cases[o].task \in Tasks \cup {None}
      /\ \A q \in Runners : agent[q].task \in Tasks \cup {None} /\ run[q].found \in Tasks \cup {None}
  BY Parts
<1>2. op \in Ops /\ (run[r].at = "stream" \/ run[r].at = "out") /\ Live(r, op)
  BY DEF CaseInv, AttemptInv, Live
<1>3. task[t].op = None /\ None \notin Ops /\ t # None
  BY BatchAssumption DEF Scaffolds
<1>4. \A o \in Ops, q \in Runners : (Live(q, o)' <=> Live(q, o)) /\ (Busy(q, o)' <=> Busy(q, o))
  BY DEF Scaffolds, Live, Busy
<1>5. \A o \in Ops, q \in Runners : On(q, o)' <=> On(q, o)
  BY <1>4 DEF On
<1>6. \A q \in Runners : On(q, op) => q = r
  BY <1>2 DEF CaseInv, AttemptInv, On
<1>7. \A o \in Ops \ {op} : cases'[o] = cases[o]
  BY DEF Scaffolds
<1>8. \A o \in Ops : cases[o].task # None => (task'[cases[o].task] = task[cases[o].task] /\ o # op)
  <2> SUFFICES ASSUME NEW o \in Ops, cases[o].task # None
               PROVE  task'[cases[o].task] = task[cases[o].task] /\ o # op
    OBVIOUS
  <2>1. task[cases[o].task].op = o /\ cases[o].task # t
    BY <1>3 DEF CaseInv, TaskInv
  <2>2. o # op
    BY <1>2 DEF CaseInv, TaskInv, Scaffolds
  <2> QED
    BY <1>1, <2>1, <2>2 DEF Scaffolds
<1>9. AttemptInv'
  <2>1. \A o \in Ops, q \in Runners : cases'[o].status \in {"absent", "pending"} => ~On(q, o)'
    BY <1>5 DEF CaseInv, AttemptInv, Scaffolds
  <2>2. \A o \in Ops, p, q \in Runners : On(p, o)' /\ On(q, o)' => p = q
    BY <1>5 DEF CaseInv, AttemptInv
  <2>3. \A o \in Ops, q \in Runners : Busy(q, o)' => cases'[o].status = "running" /\ cases'[o].runner = q
    BY <1>4 DEF CaseInv, AttemptInv, Scaffolds
  <2>4. \A o \in Ops : cases'[o].status = cases[o].status
    BY DEF Scaffolds
  <2>5. \A q \in Runners :
          /\ agent'[q].at # "none" => run'[q].at = "stream" \/ run'[q].at = "out"
          /\ agent'[q].at # "none" /\ run'[q].at = "stream" => agent'[q].op = run'[q].op
          /\ agent'[q].at # "none" => agent'[q].op \in Ops
          /\ agent'[q].at = "work" => agent'[q].task # None
    BY <1>3 DEF CaseInv, AttemptInv, Scaffolds
  <2> QED
    BY <2>1, <2>2, <2>3, <2>4, <2>5 DEF CaseInv, AttemptInv
<1>10. TaskInv'
  <2>1. \A o \in Ops : cases'[o].task # None => task'[cases'[o].task].op = o
    <3>1. ASSUME NEW o \in Ops, cases'[o] = cases[o], cases'[o].task # None
          PROVE  task'[cases'[o].task].op = o
      BY <1>8, <3>1 DEF CaseInv, TaskInv
    <3>2. ASSUME NEW o \in Ops, cases'[o] # cases[o]
          PROVE  task'[cases'[o].task].op = o
      BY <3>2 DEF Scaffolds
    <3> QED
      BY <3>1, <3>2
  <2>2. \A o \in Ops, q \in Runners : cases'[o].task # None /\ Live(q, o)' => agent'[q].task # None
    <3> SUFFICES ASSUME NEW o \in Ops, NEW q \in Runners, cases'[o].task # None, Live(q, o)'
                 PROVE  agent'[q].task # None
      OBVIOUS
    <3>1. CASE q = r
      BY <1>3, <3>1 DEF Scaffolds
    <3>2. CASE q # r
      <4>1. Live(q, o)
        BY <1>4
      <4>2. o # op
        BY <1>6, <3>2, <4>1 DEF On
      <4> QED
        BY <1>7, <3>2, <4>1, <4>2 DEF CaseInv, TaskInv, Scaffolds
    <3> QED
      BY <3>1, <3>2
  <2>3. \A q \in Runners : agent'[q].at # "none" /\ agent'[q].task # None
                            => task'[agent'[q].task].op = agent'[q].op
    <3> SUFFICES ASSUME NEW q \in Runners, agent'[q].at # "none", agent'[q].task # None
                 PROVE  task'[agent'[q].task].op = agent'[q].op
      OBVIOUS
    <3>1. CASE q = r
      BY <3>1 DEF Scaffolds
    <3>2. CASE q # r
      <4>1. agent'[q] = agent[q]
        BY <3>2 DEF Scaffolds
      <4>2. task[agent[q].task].op = agent[q].op /\ agent[q].op \in Ops
        BY <4>1 DEF CaseInv, TaskInv, AttemptInv
      <4> QED
        BY <1>1, <1>3, <4>1, <4>2 DEF Scaffolds
    <3> QED
      BY <3>1, <3>2
  <2>4. \A u \in Tasks : task'[u].journal = "pending" => task'[u].phase = "WORK"
    BY DEF CaseInv, TaskInv, Scaffolds
  <2>5. \A q \in Runners : run[q].found # None
          => run[q].at \in Working /\ task'[run[q].found].op = run[q].op
    <3> SUFFICES ASSUME NEW q \in Runners, run[q].found # None
                 PROVE  run[q].at \in Working /\ task'[run[q].found].op = run[q].op
      OBVIOUS
    <3>1. run[q].at \in Working /\ task[run[q].found].op = run[q].op
      BY DEF CaseInv, TaskInv
    <3>2. run[q].op \in Ops
      BY <3>1 DEF TypeInv
    <3> QED
      BY <1>1, <1>3, <3>1, <3>2 DEF Scaffolds
  <2> QED
    BY <2>1, <2>2, <2>3, <2>4, <2>5 DEF TaskInv
<1>11. SettleInv'
  <2> SUFFICES ASSUME NEW q \in Runners, run[q].at = "finish"
               PROVE  LET c == cases'[run[q].op].task IN
                      /\ run[q].ok => (run[q].found # None /\ task'[run[q].found].phase = "FINISH")
                      /\ (~run[q].ok /\ c # None /\ task'[c].phase = "FINISH")
                           => (run[q].cut \/ task'[c].journal = "broken")
    BY DEF SettleInv, Finished
  <2>1. run[q].op \in Ops /\ run[q].op # op
    BY Untouched DEF TypeInv, Working
  <2>2. cases'[run[q].op] = cases[run[q].op]
    BY <1>7, <2>1
  <2>3. cases[run[q].op].task # None => task'[cases[run[q].op].task] = task[cases[run[q].op].task]
    BY <1>8, <2>1
  <2>4. run[q].found # None => task'[run[q].found] = task[run[q].found]
    <3>1. run[q].found # None => task[run[q].found].op \in Ops
      BY <2>1 DEF CaseInv, TaskInv
    <3> QED
      BY <1>1, <1>3, <3>1 DEF Scaffolds
  <2> QED
    BY <2>2, <2>3, <2>4 DEF CaseInv, SettleInv, Finished
<1>12. DoneIsFinished'
  <2> SUFFICES ASSUME NEW o \in Ops, cases'[o].status = "done"
               PROVE  /\ cases'[o].task # None /\ task'[cases'[o].task].phase = "FINISH"
                      /\ task'[cases'[o].task].op = o
    BY DEF DoneIsFinished, Finished
  <2>1. cases[o].status = "done"
    BY DEF Scaffolds
  <2>2. /\ cases[o].task # None /\ task[cases[o].task].phase = "FINISH"
        /\ task[cases[o].task].op = o
    BY <2>1 DEF CaseInv, DoneIsFinished, Finished
  <2> QED
    BY <1>7, <1>8, <2>2
<1> QED
  BY <1>9, <1>10, <1>11, <1>12 DEF CaseInv

\* The end of a case.
LEMMA SettlesCase ==
  ASSUME TypeInv, LockInv, CaseInv, NEW r \in Runners, NEW op \in Ops, run[r].at = "finish",
         Settles(r, op), \A q \in Runners \ {r} : run'[q] = run[q]
  PROVE  CaseInv'
<1>1. \A q \in Runners \ {r} : run[q].at \notin Working
  BY Alone DEF InBatch
<1>2. Busy(r, op) /\ agent[r].at = "none"
  BY DEF Busy, Working, Settles, CaseInv, AttemptInv
<1>3. \A q \in Runners : ~Live(q, op)
  BY Untouched DEF Live, Settles
<1>4. \A o \in Ops, q \in Runners : /\ ~Busy(q, o)' /\ (Live(q, o)' <=> Live(q, o))
                                    /\ On(q, o)' => On(q, o)
  BY <1>1 DEF On, Busy, Live, Settles, Working
<1>5. cases[op].status = "running"
  BY <1>2 DEF CaseInv, AttemptInv
<1>6. /\ run[r].found # None => task[run[r].found].op = op
      /\ run[r].ok => Finished(run[r].found)
  BY DEF CaseInv, TaskInv, SettleInv, Settles
<1>7. AttemptInv'
  <2>1. \A o \in Ops, q \in Runners : cases'[o].status \in {"absent", "pending"} => ~On(q, o)'
    BY <1>4 DEF CaseInv, AttemptInv, Settles
  <2>2. \A o \in Ops, p, q \in Runners : On(p, o)' /\ On(q, o)' => p = q
    BY <1>4 DEF CaseInv, AttemptInv
  <2>3. \A o \in Ops : cases'[o].status # "absent" => o \in manifest
    BY <1>5 DEF CaseInv, AttemptInv, Settles
  <2>4. edits = 0 => \A o \in Ops : cases'[o].status = "absent"
    BY <1>5 DEF CaseInv, AttemptInv
  <2>5. \A q \in Runners :
          /\ agent'[q].at # "none" => run'[q].at = "stream" \/ run'[q].at = "out"
          /\ agent'[q].at # "none" /\ run'[q].at = "stream" => agent'[q].op = run'[q].op
          /\ agent'[q].at # "none" => agent'[q].op \in Ops
          /\ agent'[q].at = "work" => agent'[q].task # None
    BY <1>2 DEF CaseInv, AttemptInv, Settles
  <2>6. manifest' = manifest /\ edits' = edits
    BY DEF Settles
  <2> QED
    BY <1>4, <2>1, <2>2, <2>3, <2>4, <2>5, <2>6 DEF CaseInv, AttemptInv
<1>8. TaskInv'
  <2>1. \A o \in Ops : cases'[o].task # None => task[cases'[o].task].op = o
    BY <1>6 DEF CaseInv, TaskInv, Settles
  <2>2. \A o \in Ops, q \in Runners : cases'[o].task # None /\ Live(q, o)' => agent[q].task # None
    BY <1>3, <1>4 DEF CaseInv, TaskInv, Settles
  <2>3. \A q \in Runners : run'[q].found # None
          => run'[q].at \in Working /\ task[run'[q].found].op = run'[q].op
    BY DEF CaseInv, TaskInv, Settles
  <2>4. task' = task /\ agent' = agent
    BY DEF Settles
  <2> QED
    BY <2>1, <2>2, <2>3, <2>4 DEF CaseInv, TaskInv
<1>9. SettleInv'
  BY <1>1 DEF SettleInv, Settles, Working
<1>10. DoneIsFinished'
  BY <1>6 DEF CaseInv, DoneIsFinished, Finished, Settles
<1> QED
  BY <1>7, <1>8, <1>9, <1>10 DEF CaseInv

\* What a runner finds is what its case records, and a finished task settles it.
LEMMA CollectCase ==
  ASSUME TypeInv, LockInv, CaseInv, NEW r \in Runners, Collect(r)
  PROVE  CaseInv'
<1> DEFINE op == run[r].op
<1>1. /\ UNCHANGED <<manifest, cases, edits>>
      /\ run[r].at = "collect" /\ run'[r].op = run[r].op
      /\ \A q \in Runners \ {r} : run'[q] = run[q]
  BY CollectFacts
<1>2. \A q \in Runners \ {r} : run[q].at \notin Working
  BY <1>1, Alone DEF InBatch
<1>3. op \in Ops /\ Busy(r, op) /\ agent[r].at = "none"
  BY <1>1 DEF TypeInv, Busy, Working, CaseInv, AttemptInv
<1>4. /\ \A o \in Ops : cases[o].task \in Tasks \cup {None}
      /\ \A q \in Runners : agent[q].task \in Tasks \cup {None} /\ run[q].found \in Tasks \cup {None}
  BY Parts
<1>5. cases[op].task # None => FindTaskDir(r) = cases[op].task
  BY <1>3, FoundTask DEF CaseInv, TaskInv
<1>6. FindTaskDir(r) # None => task[FindTaskDir(r)].op = op
  BY <1>3, FoundTask
<1>7. CASE FindsNone(r)
  <2>1. AttemptInv'
    BY <1>1, <1>3, <1>7 DEF CaseInv, AttemptInv, FindsNone, On, Busy, Live, Working
  <2>2. TaskInv'
    BY <1>1, <1>7 DEF CaseInv, TaskInv, FindsNone, Live, Working
  <2>3. SettleInv'
    BY <1>1, <1>2, <1>5, <1>7 DEF SettleInv, FindsNone, Finished, Working
  <2>4. DoneIsFinished'
    BY <1>1, <1>7 DEF CaseInv, DoneIsFinished, FindsNone, Finished
  <2> QED
    BY <2>1, <2>2, <2>3, <2>4 DEF CaseInv
<1>8. ASSUME NEW t \in Tasks, Retries(r, t) \/ Concludes(r, t)
      PROVE  CaseInv'
  <2>1. /\ t = FindTaskDir(r) /\ task' \in Healed(t) /\ run'[r].found = t
        /\ run'[r].at \in Working /\ \A q \in Runners \ {r} : agent'[q] = agent[q]
    BY <1>8 DEF Retries, Concludes, Working
  <2>2. task[t].op = op /\ t # None
    BY <1>6, <2>1, BatchAssumption
  <2>3. Ages(t)
    BY <2>1, HealedAges DEF CaseInv, TaskInv
  <2>4. /\ agent'[r].at \in {"none", "boot"}
        /\ agent'[r].at = "boot" =>
             (run'[r].at = "stream" /\ agent'[r].op = op /\ agent'[r].task = t)
        /\ run'[r].at # "out"
    BY <1>3, <1>8 DEF Retries, Concludes
  <2>5. \A o \in Ops, q \in Runners : /\ Busy(q, o)' <=> Busy(q, o)
                                      /\ On(q, o)' <=> On(q, o)
    <3>1. \A o \in Ops, q \in Runners : Busy(q, o)' <=> Busy(q, o)
      BY <1>1, <2>1 DEF Busy, Working
    <3>2. \A o \in Ops, q \in Runners \ {r} : Live(q, o)' <=> Live(q, o)
      BY <2>1 DEF Live
    <3>3. \A o \in Ops : Live(r, o)' => o = op
      BY <2>4 DEF Live
    <3>4. \A o \in Ops : ~Live(r, o)
      BY <1>3 DEF Live
    <3> QED
      BY <1>3, <3>1, <3>2, <3>3, <3>4 DEF On
  <2>6. AttemptInv'
    <3>1. \A o \in Ops, q \in Runners : cases'[o].status \in {"absent", "pending"} => ~On(q, o)'
      BY <1>1, <2>5 DEF CaseInv, AttemptInv
    <3>2. \A o \in Ops, p, q \in Runners : On(p, o)' /\ On(q, o)' => p = q
      BY <2>5 DEF CaseInv, AttemptInv
    <3>3. \A o \in Ops, q \in Runners : Busy(q, o)' => cases'[o].status = "running" /\ cases'[o].runner = q
      BY <1>1, <2>5 DEF CaseInv, AttemptInv
    <3>4. \A q \in Runners :
            /\ agent'[q].at # "none" => run'[q].at = "stream" \/ run'[q].at = "out"
            /\ agent'[q].at # "none" /\ run'[q].at = "stream" => agent'[q].op = run'[q].op
            /\ agent'[q].at # "none" => agent'[q].op \in Ops
            /\ agent'[q].at = "work" => agent'[q].task # None
      BY <1>1, <1>3, <2>1, <2>4 DEF CaseInv, AttemptInv
    <3> QED
      BY <1>1, <3>1, <3>2, <3>3, <3>4 DEF CaseInv, AttemptInv
  <2>7. TaskInv'
    <3>1. \A o \in Ops : cases'[o].task # None => task'[cases'[o].task].op = o
      BY <1>1, <1>4, <2>3 DEF CaseInv, TaskInv, Ages
    <3>2. \A o \in Ops, q \in Runners : cases'[o].task # None /\ Live(q, o)' => agent'[q].task # None
      BY <1>1, <2>1, <2>2, <2>4 DEF CaseInv, TaskInv, Live
    <3>3. \A q \in Runners : agent'[q].at # "none" /\ agent'[q].task # None
                              => task'[agent'[q].task].op = agent'[q].op
      BY <1>4, <2>1, <2>2, <2>3, <2>4 DEF CaseInv, TaskInv, Ages
    <3>4. \A u \in Tasks : task'[u].journal = "pending" => task'[u].phase = "WORK"
      BY <2>3 DEF CaseInv, TaskInv, Ages
    <3>5. \A q \in Runners : run'[q].found # None
            => run'[q].at \in Working /\ task'[run'[q].found].op = run'[q].op
      BY <1>1, <1>4, <2>1, <2>2, <2>3 DEF CaseInv, TaskInv, Ages
    <3> QED
      BY <3>1, <3>2, <3>3, <3>4, <3>5 DEF TaskInv
  <2>8. SettleInv'
    <3>1. \A q \in Runners \ {r} : run'[q].at # "finish"
      BY <1>1, <1>2 DEF Working
    <3>2. CASE Retries(r, t)
      BY <3>1, <3>2 DEF SettleInv, Retries
    <3>3. CASE Concludes(r, t)
      <4>1. run'[r].ok => (run'[r].found # None /\ task'[run'[r].found].phase = "FINISH")
        BY <2>1, <2>2, <3>3 DEF Concludes
      <4>2. cases[op].task # None => cases[op].task = t
        BY <1>5, <2>1
      <4>3. (~run'[r].ok /\ cases[op].task # None /\ task'[cases[op].task].phase = "FINISH")
              => (run'[r].cut \/ task'[cases[op].task].journal = "broken")
        BY <4>2, <3>3 DEF Concludes
      <4> QED
        BY <1>1, <3>1, <4>1, <4>3 DEF SettleInv, Finished
    <3> QED
      BY <1>8, <3>2, <3>3
  <2>9. DoneIsFinished'
    BY <1>1, <1>4, <2>3 DEF CaseInv, DoneIsFinished, Finished, Ages
  <2> QED
    BY <2>6, <2>7, <2>8, <2>9 DEF CaseInv
<1> QED
  BY <1>7, <1>8, CollectFacts

\* Every step keeps what the cases say of their tasks.
LEMMA CaseKept ==
  ASSUME TypeInv, LockInv, CaseInv, Once, [Next]_vars
  PROVE  CaseInv'
<1>1. CASE Prepare
  BY <1>1, PrepareCase
<1>2. ASSUME NEW r \in Runners, Start(r) \/ RunnerStep(r) \/ AgentStep(r) \/ Kill(r)
      PROVE  CaseInv'
  <2>1. CASE Start(r) \/ Acquire(r)
    <3>1. /\ UNCHANGED <<manifest, cases, task, agent, edits>>
          /\ \A q \in Runners \ {r} : run'[q] = run[q]
          /\ run'[r].at \notin Working /\ run'[r].found \in {run[r].found, None}
          /\ \/ run[r].at \in Taking
             \/ agent[r].at = "none" /\ run[r].at = "out"
      BY <2>1, TakingFacts
    <3>2. run[r].found = None
      BY <3>1 DEF CaseInv, TaskInv, Taking, Working
    <3>3. agent[r].at = "none"
      BY <3>1 DEF CaseInv, AttemptInv, Taking
    <3> QED
      BY <3>1, <3>2, <3>3, CaseLight
  <2>2. CASE Recover(r)
    BY <2>2, RecoverCases
  <2>3. CASE Begin(r)
    <3>1. /\ UNCHANGED <<manifest, edits>>
          /\ run[r].at = "pick" /\ run'[r].found = run[r].found
          /\ \A q \in Runners \ {r} : run'[q] = run[q]
          /\ Skips(r) \/ \E op \in Ops : Takes(r, op)
      BY <2>3, BeginFacts
    <3>2. run[r].found = None /\ agent[r].at = "none"
      BY <3>1 DEF CaseInv, TaskInv, AttemptInv, Working
    <3>3. CASE Skips(r)
      BY <3>1, <3>2, <3>3, CaseLight DEF Skips, Working
    <3> QED
      BY <3>1, <3>3, TakesCase
  <2>4. CASE BeginRefused(r)
    BY <2>4, RefusedCase
  <2>5. CASE Finish(r) \/ StreamRaises(r) \/ Kill(r)
    BY <2>5, EndFacts, CaseLight DEF Working
  <2>6. CASE StreamEnds(r)
    BY <2>6, EndsCase
  <2>7. ASSUME NEW cut \in BOOLEAN, StreamKills(r, cut)
        PROVE  CaseInv'
    BY <2>7, KillsFacts, AgentCase
  <2>8. CASE Collect(r)
    BY <2>8, CollectCase
  <2>9. CASE FinishCase(r)
    <3>1. CASE Raises(r) /\ UNCHANGED faults
      BY <3>1, EndFacts, CaseLight DEF Working
    <3> QED
      BY <2>9, <3>1, SettleFacts, SettlesCase
  <2>10. CASE AgentScaffold(r)
    <3>1. /\ UNCHANGED <<manifest, run, edits>> /\ agent[r].at = "boot"
          /\ Resumes(r) \/ \E t \in Tasks : Scaffolds(r, t)
      BY <2>10, ScaffoldFacts
    <3>2. CASE Resumes(r)
      BY <3>1, <3>2, SameTasks DEF Resumes, Drives
    <3> QED
      BY <3>1, <3>2, ScaffoldCase
  <2>11. CASE AgentWorks(r)
    <3>1. UNCHANGED <<manifest, cases, run, agent, edits>> /\ agent[r].at = "work" /\ Ages(agent[r].task)
      BY <2>11, WorksFacts
    <3>2. agent[r].task # None
      BY <3>1 DEF CaseInv, AttemptInv
    <3>3. Drives(r)
      BY <3>1 DEF Drives, TypeInv
    <3> QED
      BY <3>1, <3>2, <3>3, AgentCase
  <2>12. ASSUME NEW rc \in {0, 1}, AgentExits(r, rc)
         PROVE  CaseInv'
    BY <2>12, ExitsFacts, AgentCase
  <2> QED
    BY <1>2, <2>1, <2>2, <2>3, <2>4, <2>5, <2>6, <2>7, <2>8, <2>9, <2>10, <2>11, <2>12
       DEF RunnerStep, AgentStep
<1>3. ASSUME NEW t \in Tasks, HeartbeatLapses(t)
      PROVE  CaseInv'
  BY <1>3, LapseFacts, SameTasks
<1>4. CASE UNCHANGED vars
  BY <1>4, SameTasks DEF vars
<1> QED
  BY <1>1, <1>2, <1>3, <1>4 DEF Next

\* A case goes from running to error by its runner, which knows why, or by a
\* recovery, which looked at the task.
LEMMA ErrorsEarned ==
  ASSUME TypeInv, LockInv, CaseInv, Once, [Next]_vars, NEW op \in Ops,
         cases[op].status = "running", cases'[op].status = "error", Finished(cases[op].task)
  PROVE  cases'[op].cut \/ task[cases[op].task].journal = "broken"
<1>1. CASE cases' = cases
  BY <1>1
<1>2. ASSUME NEW r \in Runners, cases' # cases, RunnerStep(r) \/ AgentStep(r)
      PROVE  cases'[op].cut \/ task[cases[op].task].journal = "broken"
  <2>1. CASE Recover(r)
    BY <2>1, RecoverFacts, MergedCase, Parts
  <2>2. CASE Begin(r)
    BY <1>2, <2>2, BeginFacts DEF Skips, Takes
  <2>3. CASE BeginRefused(r)
    BY <2>3, RefusedFacts DEF Queued, Once
  <2>4. CASE FinishCase(r)
    <3>1. run[r].at = "finish" /\ \E o \in Ops : Settles(r, o)
      BY <1>2, <2>4, SettleFacts DEF Raises
    <3>2. Settles(r, op)
      BY <3>1 DEF Settles
    <3> QED
      BY <3>1, <3>2 DEF Settles, CaseInv, SettleInv
  <2>5. CASE AgentScaffold(r)
    BY <2>5, ScaffoldFacts DEF Resumes, Scaffolds
  <2>6. CASE Acquire(r) \/ Finish(r) \/ StreamRaises(r) \/ StreamEnds(r) \/ Collect(r)
             \/ AgentWorks(r)
    BY <1>2, <2>6, TakingFacts, EndFacts, EndsFacts, CollectFacts, WorksFacts
  <2>7. CASE \E cut \in BOOLEAN : StreamKills(r, cut)
    BY <1>2, <2>7 DEF StreamKills
  <2>8. CASE \E rc \in {0, 1} : AgentExits(r, rc)
    BY <1>2, <2>8 DEF AgentExits
  <2> QED
    BY <1>2, <2>1, <2>2, <2>3, <2>4, <2>5, <2>6, <2>7, <2>8 DEF RunnerStep, AgentStep
<1>3. CASE Prepare \/ \E r \in Runners : Start(r) \/ Kill(r)
  BY <1>1, <1>3 DEF Prepare, Start, Kill
<1>4. CASE \E t \in Tasks : HeartbeatLapses(t)
  BY <1>1, <1>4 DEF HeartbeatLapses
<1>5. CASE UNCHANGED vars
  BY <1>1, <1>5 DEF vars
<1> QED
  BY <1>1, <1>2, <1>3, <1>4, <1>5 DEF Next

\* The inductive invariant of a batch whose operators are begun once and whose
\* runners take the lock one after the other.
THEOREM BatchInvariant == ~Overlap /\ Once => (Spec => []BatchInv)
<1> SUFFICES ASSUME ~Overlap, Once
             PROVE  Spec => []BatchInv
  OBVIOUS
<1>1. Init => BatchInv
  BY Starts DEF BatchInv
<1>2. BatchInv /\ [Next]_vars => BatchInv'
  BY TypesKept, LockKept, CaseKept DEF BatchInv
<1> QED
  BY <1>1, <1>2, PTL DEF Spec

\* A case is done only by a finished task of its own operator, whichever of its
\* runner and its agent were killed and in which order (DoneIsFinished of
\* recover_stale_running, _find_task_dir and _finish_case).
THEOREM DoneCasesAreFinished == ~Overlap /\ Once => (Spec => []DoneIsFinished)
<1> SUFFICES ASSUME ~Overlap, Once
             PROVE  Spec => []DoneIsFinished
  OBVIOUS
<1>1. Spec => []BatchInv
  BY BatchInvariant
<1>2. BatchInv => DoneIsFinished
  BY DEF BatchInv, CaseInv
<1> QED
  BY <1>1, <1>2, PTL

\* No step turns a case whose recorded task is finished into an error, but by a
\* cut or a refused journal (FinishedKept).
THEOREM FinishedResultsKept == ~Overlap /\ Once => (Spec => FinishedKept)
<1> SUFFICES ASSUME ~Overlap, Once
             PROVE  Spec => FinishedKept
  OBVIOUS
<1>1. Spec => []BatchInv
  BY BatchInvariant
<1>2. BatchInv /\ [Next]_vars =>
        [\A op \in Ops :
           /\ cases[op].status = "running" /\ cases'[op].status = "error"
           /\ Finished(cases[op].task)
           => cases'[op].cut \/ task[cases[op].task].journal = "broken"]_vars
  BY ErrorsEarned DEF BatchInv
<1> QED
  BY <1>1, <1>2, PTL DEF Spec, FinishedKept

\* Nor do two agents drive one task: an orphaned agent is of the same attempt as
\* the runner that would resume its task (OneAgentPerTask; --retry-errored breaks it).
THEOREM AgentsKeptApart == ~Overlap /\ Once => (Spec => []OneAgentPerTask)
<1> SUFFICES ASSUME ~Overlap, Once
             PROVE  Spec => []OneAgentPerTask
  OBVIOUS
<1>1. Spec => []BatchInv
  BY BatchInvariant
<1>2. BatchInv => OneAgentPerTask
  <2> SUFFICES ASSUME BatchInv, NEW r \in Runners, NEW q \in Runners,
                      agent[r].at # "none", agent[q].at # "none", agent[r].task # None,
                      agent[r].task = agent[q].task
               PROVE  r = q
    BY DEF OneAgentPerTask
  <2>1. agent[r].op = agent[q].op
    BY DEF BatchInv, CaseInv, TaskInv
  <2>2. agent[r].op \in Ops /\ On(r, agent[r].op) /\ On(q, agent[r].op)
    BY <2>1 DEF BatchInv, CaseInv, AttemptInv, On, Live
  <2> QED
    BY <2>2 DEF BatchInv, CaseInv, AttemptInv
<1> QED
  BY <1>1, <1>2, PTL
=============================================================================
