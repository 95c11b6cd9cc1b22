--------------------------- MODULE SessionsProofs ---------------------------
(***************************************************************************)
(* Proofs about Sessions, for any sets of sessions, tasks and processes,   *)
(* and any bounds on kills and claims.                                     *)
(***************************************************************************)
EXTENDS Sessions, FiniteSetTheorems, TLAPS

Places == {"idle", "look", "stale", "scan", "pick", "rewrite", "open", "touch", "body"}
            \cup ClaimStates \cup ClearStates
ProcRec == [at : Places, task : Tasks \cup {None}, prior : Tasks \cup {None},
            role : {"none", "hook", "task", "force", "resume"}]
LockStates == ClaimStates \cup ClearStates

TypeInv ==
  /\ owner \in [Tasks -> SessionIds \cup {None}]
  /\ age \in [Tasks -> 0..Window]
  /\ index \in [SessionIds -> Tasks \cup {None}]
  /\ proc \in [Procs -> ProcRec]
  /\ alive \subseteq SessionIds
  /\ kills \in 0..MaxKills
  /\ claims \in 0..MaxClaims
  /\ lost \subseteq SessionIds

\* A process that is past its lookup has a task.
Shaped(r) ==
  r.at \in {"stale", "rewrite", "open", "touch", "body"} \cup LockStates => r.task \in Tasks
ShapeInv == \A p \in Procs : Shaped(proc[p])

\* The state locks of a process, read off its record.
LocksOf(r) ==
  CASE r.at = "second" -> {FirstLock(r)}
    [] r.at \in {"locked", "own", "index"} -> LockSet(r)
    [] r.at = "dropindex" -> {r.task}
    [] OTHER -> {}

\* No state lock is held twice, and no session lock is.
LockInv ==
  /\ \A p, q \in Procs : p # q => LocksOf(proc[p]) \cap LocksOf(proc[q]) = {}
  /\ \A p, q \in Procs : p # q /\ p[1] = q[1] /\ proc[p].at \in LockStates
                           => proc[q].at \notin LockStates

\* A claim that is past its refusal, and not forced, is about a task that nobody
\* else owns with a fresh heartbeat.
MayOwn(p) ==
  proc[p].at = "own" /\ proc[p].role # "force"
    => owner[proc[p].task] \in {None, p[1]} \/ ~HeartbeatFresh(proc[p].task)
OwnInv == \A p \in Procs : MayOwn(p)

\* The index names every task a session owns, or a claim is about to make it so.
IndexInv ==
  \A t \in Tasks :
    owner[t] \in SessionIds \ lost
      => \/ index[owner[t]] = t
         \/ \E p \in Procs : p[1] = owner[t] /\ proc[p].at = "index" /\ proc[p].task = t

\* What a claim knows of the tasks its session owns.
ClaimInv ==
  \A p \in Procs, t \in Tasks :
    owner[t] = p[1] /\ p[1] \notin lost
      => /\ proc[p].at \in {"claim", "second", "locked"} => t = proc[p].prior
         /\ proc[p].at \in {"own", "index"} => t = proc[p].task

SessionInv == TypeInv /\ ShapeInv /\ LockInv /\ OwnInv /\ IndexInv /\ ClaimInv

-----------------------------------------------------------------------------
(* Records of processes.                                                   *)

\* The parts of a process record have their types.
LEMMA RecParts ==
  ASSUME NEW r \in ProcRec
  PROVE  /\ r.at \in Places /\ r.task \in Tasks \cup {None} /\ r.prior \in Tasks \cup {None}
         /\ r.role \in {"none", "hook", "task", "force", "resume"}
BY DEF ProcRec

\* What a step of p does to the processes: only p moves, and to this record.
Became(p, a, t, u, ro) ==
  /\ proc' \in [Procs -> ProcRec]
  /\ \A q \in Procs \ {p} : proc'[q] = proc[q]
  /\ proc'[p].at = a /\ proc'[p].task = t /\ proc'[p].prior = u /\ proc'[p].role = ro

\* Goto changes the place and the task of one process.
LEMMA GotoBecame ==
  ASSUME TypeInv, NEW p \in Procs, NEW a \in Places, NEW t \in Tasks \cup {None},
         Goto(p, a, t)
  PROVE  Became(p, a, t, proc[p].prior, proc[p].role)
<1>1. proc[p] \in ProcRec
  BY DEF TypeInv
<1> DEFINE r == [proc[p] EXCEPT !.at = a, !.task = t]
<1>2. r \in ProcRec /\ r.at = a /\ r.task = t /\ r.prior = proc[p].prior /\ r.role = proc[p].role
  BY <1>1 DEF ProcRec
<1>3. proc' = [proc EXCEPT ![p] = r]
  BY DEF Goto
<1> QED
  BY <1>2, <1>3 DEF Became, TypeInv

\* A hook or a resume begins with a place, a task and its role.
LEMMA HookBecame ==
  ASSUME TypeInv, NEW p \in Procs, NEW a \in Places, NEW t \in Tasks \cup {None},
         NEW ro \in {"none", "hook", "task", "force", "resume"},
         proc' = [proc EXCEPT ![p] = [@ EXCEPT !.at = a, !.task = t, !.role = ro]]
  PROVE  Became(p, a, t, proc[p].prior, ro)
<1>1. proc[p] \in ProcRec
  BY DEF TypeInv
<1> DEFINE r == [proc[p] EXCEPT !.at = a, !.task = t, !.role = ro]
<1>2. r \in ProcRec /\ r.at = a /\ r.task = t /\ r.prior = proc[p].prior /\ r.role = ro
  BY <1>1 DEF ProcRec
<1>3. proc' = [proc EXCEPT ![p] = r]
  OBVIOUS
<1> QED
  BY <1>2, <1>3 DEF Became, TypeInv

\* A process that ends is idle.
LEMMA IdleBecame ==
  ASSUME TypeInv, NEW p \in Procs, proc' = [proc EXCEPT ![p] = Idle]
  PROVE  Became(p, "idle", None, None, "none")
<1>1. Idle \in ProcRec
  BY DEF Idle, ProcRec, Places
<1> QED
  BY <1>1 DEF Became, TypeInv, Idle

\* A claim starts with the session's indexed task as the prior one.
LEMMA ClaimBecame ==
  ASSUME TypeInv, NEW p \in Procs, NEW t \in Tasks,
         NEW ro \in {"none", "hook", "task", "force", "resume"}, StartClaim(p, t, ro)
  PROVE  /\ Became(p, "claim", t, index[p[1]], ro)
         /\ SessionLockFree(p[1])
<1>1. p[1] \in SessionIds
  BY SessionsAssumption
<1> DEFINE r == [at |-> "claim", task |-> t, prior |-> index[p[1]], role |-> ro]
<1>2. r \in ProcRec
  BY <1>1 DEF ProcRec, Places, TypeInv, ClaimStates
<1>3. proc' = [proc EXCEPT ![p] = r] /\ SessionLockFree(p[1])
  BY DEF StartClaim
<1> HIDE DEF r
<1>4. proc' \in [Procs -> ProcRec] /\ proc'[p] = r /\ \A q \in Procs \ {p} : proc'[q] = proc[q]
  BY <1>2, <1>3 DEF TypeInv
<1> QED
  BY <1>3, <1>4 DEF Became, r

\* A process's locks are those its record tells.
LEMMA LocksOfProc ==
  ASSUME NEW q \in Procs
  PROVE  StateLocks(q) = LocksOf(proc[q])
BY DEF StateLocks, LocksOf

\* The locks of a record depend on its place, task and prior task only.
LEMMA LocksCases ==
  ASSUME NEW r
  PROVE  /\ r.at = "second" => LocksOf(r) = {FirstLock(r)}
         /\ r.at \in {"locked", "own", "index"} => LocksOf(r) = LockSet(r)
         /\ r.at = "dropindex" => LocksOf(r) = {r.task}
         /\ r.at \notin {"second", "locked", "own", "index", "dropindex"} => LocksOf(r) = {}
         /\ r.task \in LockSet(r)
BY DEF LocksOf, LockSet

\* Two records about the same tasks ask for the same locks in the same order.
LEMMA SameLocks ==
  ASSUME NEW r, NEW s, r.task = s.task, r.prior = s.prior
  PROVE  LockSet(r) = LockSet(s) /\ FirstLock(r) = FirstLock(s)
<1>1. LockSet(r) = LockSet(s)
  BY DEF LockSet
<1> QED
  BY <1>1 DEF FirstLock

\* A claim that needs a single lock has it when it has the first.
LEMMA OneLock ==
  ASSUME NEW r \in ProcRec, r.task \in Tasks, Cardinality(LockSet(r)) = 1
  PROVE  LockSet(r) = {FirstLock(r)}
<1>1. r.prior \in Tasks \cup {None}
  BY RecParts
<1>2. CASE r.prior = None \/ r.prior = r.task
  <2>1. LockSet(r) = {r.task}
    BY <1>2 DEF LockSet
  <2>a. r.task \in Nat
    BY SessionsAssumption
  <2>2. r.task <= r.task
    BY <2>a
  <2>3. Least({r.task}) = r.task
    BY <2>2 DEF Least
  <2> QED
    BY <2>1, <2>3 DEF FirstLock
<1>3. CASE r.prior # None /\ r.prior # r.task
  <2>1. LockSet(r) = {r.task} \cup {r.prior}
    BY <1>3 DEF LockSet
  <2>2. IsFiniteSet({r.prior}) /\ Cardinality({r.prior}) = 1
    BY FS_Singleton
  <2>3. Cardinality({r.prior} \cup {r.task}) = Cardinality({r.prior}) + 1
    BY <1>3, <2>2, FS_AddElement
  <2>4. LockSet(r) = {r.prior} \cup {r.task}
    BY <2>1
  <2>5. 1 = 1 + 1
    BY <2>2, <2>3, <2>4
  <2> QED
    BY <2>5
<1> QED
  BY <1>2, <1>3

-----------------------------------------------------------------------------
(* Types and locks.                                                        *)

\* What every step of a process obeys: it takes a state lock only when it is
\* free, and its session's lock only when that is.
Moved(p) ==
  /\ proc' \in [Procs -> ProcRec]
  /\ \A q \in Procs \ {p} : proc'[q] = proc[q]
  /\ Shaped(proc'[p])
  /\ \A t \in LocksOf(proc'[p]) : t \in LocksOf(proc[p]) \/ Free(p, t)
  /\ proc'[p].at \in LockStates => proc[p].at \in LockStates \/ SessionLockFree(p[1])

\* A step of that kind keeps every lock with a single holder.
LEMMA MovedKeeps ==
  ASSUME ShapeInv, LockInv, NEW p \in Procs, Moved(p)
  PROVE  ShapeInv' /\ LockInv'
<1>1. ShapeInv'
  BY DEF ShapeInv, Shaped, Moved
<1>2. \A q \in Procs \ {p} : LocksOf(proc'[p]) \cap LocksOf(proc[q]) = {}
  <2> SUFFICES ASSUME NEW q \in Procs \ {p}, NEW t \in LocksOf(proc'[p]), t \in LocksOf(proc[q])
               PROVE  FALSE
    OBVIOUS
  <2>1. t \notin LocksOf(proc[p])
    BY DEF LockInv
  <2>2. Free(p, t)
    BY <2>1 DEF Moved
  <2> QED
    BY <2>2, LocksOfProc DEF Free
<1>3. \A q, r \in Procs : q # r => LocksOf(proc'[q]) \cap LocksOf(proc'[r]) = {}
  <2> SUFFICES ASSUME NEW q \in Procs, NEW r \in Procs, q # r
               PROVE  LocksOf(proc'[q]) \cap LocksOf(proc'[r]) = {}
    OBVIOUS
  <2>1. CASE q = p
    BY <1>2, <2>1 DEF Moved
  <2>2. CASE r = p
    BY <1>2, <2>2 DEF Moved
  <2>3. CASE q # p /\ r # p
    BY <2>3 DEF Moved, LockInv
  <2> QED
    BY <2>1, <2>2, <2>3
<1>4. \A q \in Procs \ {p} : q[1] = p[1] /\ proc'[p].at \in LockStates => proc[q].at \notin LockStates
  BY DEF Moved, LockInv, SessionLockFree, LockStates
<1>5. \A q, r \in Procs : q # r /\ q[1] = r[1] /\ proc'[q].at \in LockStates
                             => proc'[r].at \notin LockStates
  BY <1>4 DEF Moved, LockInv
<1>6. \A q \in Procs : LocksOf(proc[q])' = LocksOf(proc'[q])
  BY DEF LocksOf, FirstLock, LockSet, Least
<1> QED
  BY <1>1, <1>3, <1>5, <1>6 DEF LockInv

\* Nobody moves, nobody's locks change.
LEMMA LocksStay ==
  ASSUME LockInv, proc' = proc
  PROVE  LockInv'
<1>1. \A q \in Procs : LocksOf(proc[q])' = LocksOf(proc'[q])
  BY DEF LocksOf, FirstLock, LockSet, Least
<1>2. \A q \in Procs : LocksOf(proc[q])' = LocksOf(proc[q])
  BY <1>1
<1> QED
  BY <1>2 DEF LockInv

\* Moving to a place where no lock is held.
LEMMA FreeMove ==
  ASSUME NEW p \in Procs, NEW a, NEW t, NEW u, NEW ro, Became(p, a, t, u, ro),
         a \notin LockStates, a \in {"stale", "rewrite", "open", "touch", "body"} => t \in Tasks
  PROVE  Moved(p)
BY LocksCases DEF Moved, Became, Shaped, LockStates, ClaimStates, ClearStates

-----------------------------------------------------------------------------
(* Steps of one process.                                                   *)

\* The types of everything but the processes, after the step.
RestTyped ==
  /\ owner' \in [Tasks -> SessionIds \cup {None}]
  /\ age' \in [Tasks -> 0..Window]
  /\ index' \in [SessionIds -> Tasks \cup {None}]
  /\ alive' \subseteq SessionIds
  /\ kills' \in 0..MaxKills
  /\ claims' \in 0..MaxClaims
  /\ lost' \subseteq SessionIds

\* A step writes a task's state only under the state's lock.
Wrote(p) ==
  \A t \in Tasks : owner'[t] # owner[t] \/ age'[t] # age[t]
                     => Free(p, t) \/ t \in LocksOf(proc[p])

Orderly(p) == Moved(p) /\ RestTyped /\ Wrote(p) /\ MayOwn(p)'

\* Types, locks and what the claims past their refusal know survive a step that
\* writes under locks: nobody else's task changes hands meanwhile.
LEMMA OrderlyKeeps ==
  ASSUME SessionInv, NEW p \in Procs, Orderly(p)
  PROVE  TypeInv' /\ ShapeInv' /\ LockInv' /\ OwnInv'
<1>1. TypeInv'
  BY DEF Orderly, Moved, RestTyped, TypeInv
<1>2. ShapeInv' /\ LockInv'
  BY MovedKeeps DEF Orderly, SessionInv
<1>3. ASSUME NEW q \in Procs, q # p
      PROVE  MayOwn(q)'
  <2> SUFFICES ASSUME proc'[q].at = "own", proc'[q].role # "force"
               PROVE  owner'[proc'[q].task] \in {None, q[1]} \/ ~(age'[proc'[q].task] < Window)
    BY DEF MayOwn, HeartbeatFresh
  <2>1. proc'[q] = proc[q]
    BY <1>3 DEF Orderly, Moved
  <2> DEFINE t == proc[q].task
  <2>2. t \in LocksOf(proc[q])
    BY <2>1, LocksCases
  <2>3. t \in Tasks
    BY <2>1 DEF SessionInv, ShapeInv, Shaped, LockStates, ClaimStates
  <2>4. t \notin LocksOf(proc[p]) /\ ~Free(p, t)
    BY <1>3, <2>2, LocksOfProc DEF SessionInv, LockInv, Free
  <2>5. owner'[t] = owner[t] /\ age'[t] = age[t]
    BY <2>3, <2>4 DEF Orderly, Wrote
  <2>6. owner[t] \in {None, q[1]} \/ ~(age[t] < Window)
    BY <2>1 DEF SessionInv, OwnInv, MayOwn, HeartbeatFresh
  <2> QED
    BY <2>1, <2>5, <2>6
<1> QED
  BY <1>1, <1>2, <1>3 DEF Orderly, OwnInv

\* What every step but the save of an owner and the write of a claim's index
\* obeys: tasks are only given up, an index entry that is right goes only with the
\* session's loss, and a claim starts from the index under the session's lock.
Frame(p) ==
  /\ \A t \in Tasks : owner'[t] = owner[t] \/ owner'[t] = None
  /\ lost \subseteq lost'
  /\ \A s \in SessionIds \ lost' :
       index[s] # None /\ owner[index[s]] = s => index'[s] = index[s]
  /\ proc[p].at = "index" => p[1] \in lost'
  /\ proc'[p].at # "index"
  /\ proc'[p].at \in {"claim", "second", "locked"}
       => \/ proc[p].at \in {"claim", "second", "locked"} /\ proc'[p].prior = proc[p].prior
          \/ proc'[p].prior = index[p[1]] /\ SessionLockFree(p[1])
  /\ proc'[p].at = "own" /\ p[1] \notin lost'
       => \A t \in Tasks : owner'[t] = p[1] => t = proc'[p].task

\* Such a step keeps the index right for every session that has lost nothing.
LEMMA FrameKeeps ==
  ASSUME SessionInv, NEW p \in Procs, Moved(p), RestTyped, Frame(p)
  PROVE  IndexInv' /\ ClaimInv'
<1>0. \A q \in Procs : q[1] \in SessionIds
  BY SessionsAssumption
<1>1. ASSUME NEW t \in Tasks, owner'[t] \in SessionIds \ lost'
      PROVE  \/ index'[owner'[t]] = t
             \/ \E q \in Procs : q[1] = owner'[t] /\ proc'[q].at = "index" /\ proc'[q].task = t
  <2>1. owner'[t] = owner[t] /\ owner[t] \in SessionIds \ lost
    BY <1>1, SessionsAssumption DEF Frame
  <2>2. CASE index[owner[t]] = t
    <3>1. index[owner[t]] # None
      BY <2>2, SessionsAssumption
    <3> QED
      BY <1>1, <2>1, <2>2, <3>1 DEF Frame
  <2>3. ASSUME NEW q \in Procs, q[1] = owner[t], proc[q].at = "index", proc[q].task = t
        PROVE  proc'[q] = proc[q]
    BY <1>1, <2>1, <2>3 DEF Frame, Moved
  <2> QED
    BY <2>1, <2>2, <2>3 DEF SessionInv, IndexInv
<1>2. ASSUME NEW q \in Procs, NEW t \in Tasks, owner'[t] = q[1], q[1] \notin lost'
      PROVE  /\ proc'[q].at \in {"claim", "second", "locked"} => t = proc'[q].prior
             /\ proc'[q].at \in {"own", "index"} => t = proc'[q].task
  <2>1. owner[t] = q[1] /\ q[1] \notin lost /\ q[1] # None
    BY <1>0, <1>2, SessionsAssumption DEF Frame
  <2>2. CASE q # p
    BY <2>1, <2>2 DEF Moved, SessionInv, ClaimInv
  <2>3. CASE q = p
    <3>1. CASE proc'[p].at \in {"claim", "second", "locked"}
      <4>1. CASE proc[p].at \in {"claim", "second", "locked"} /\ proc'[p].prior = proc[p].prior
        BY <2>1, <2>3, <3>1, <4>1 DEF SessionInv, ClaimInv
      <4>2. CASE proc'[p].prior = index[p[1]] /\ SessionLockFree(p[1])
        <5>1. \A r \in Procs : r[1] = p[1] => proc[r].at # "index"
          BY <4>2 DEF SessionLockFree, ClaimStates
        <5>2. index[p[1]] = t
          BY <1>0, <2>1, <2>3, <5>1 DEF SessionInv, IndexInv
        <5> QED
          BY <2>3, <3>1, <4>2, <5>2
      <4> QED
        BY <3>1, <4>1, <4>2 DEF Frame
    <3>2. CASE proc'[p].at = "own"
      BY <1>2, <2>3, <3>2 DEF Frame
    <3> QED
      BY <2>3, <3>1, <3>2 DEF Frame
  <2> QED
    BY <2>2, <2>3
<1>3. IndexInv'
  BY <1>1 DEF IndexInv
<1>4. ClaimInv'
  BY <1>2 DEF ClaimInv
<1> QED
  BY <1>3, <1>4

\* A step to a place without locks, from any place but a claim's last.
LEMMA PlainKeeps ==
  ASSUME SessionInv, NEW p \in Procs, NEW a, NEW t, NEW u, NEW ro, Became(p, a, t, u, ro),
         a \notin LockStates, a \in {"stale", "rewrite", "open", "touch", "body"} => t \in Tasks,
         proc[p].at = "index" => p[1] \in lost',
         RestTyped, Wrote(p), lost \subseteq lost',
         \A x \in Tasks : owner'[x] = owner[x] \/ owner'[x] = None,
         \A s \in SessionIds \ lost' :
           index[s] # None /\ owner[index[s]] = s => index'[s] = index[s]
  PROVE  SessionInv'
<1>1. Moved(p)
  BY FreeMove
<1>2. proc'[p].at \notin LockStates
  BY DEF Became
<1>3. Frame(p) /\ MayOwn(p)'
  BY <1>2 DEF Frame, MayOwn, LockStates, ClaimStates
<1>4. Orderly(p)
  BY <1>1, <1>3 DEF Orderly
<1> QED
  BY <1>1, <1>3, <1>4, OrderlyKeeps, FrameKeeps DEF SessionInv

\* A step that moves one process and writes nothing but the count of claims.
LEMMA QuietKeeps ==
  ASSUME SessionInv, NEW p \in Procs, NEW a, NEW t, NEW u, NEW ro, Became(p, a, t, u, ro),
         a \notin LockStates, a \in {"stale", "rewrite", "open", "touch", "body"} => t \in Tasks,
         proc[p].at # "index", claims' \in 0..MaxClaims,
         UNCHANGED <<owner, age, index, alive, kills, lost>>
  PROVE  SessionInv'
<1>1. RestTyped
  BY DEF RestTyped, SessionInv, TypeInv
<1>2. Wrote(p)
  BY DEF Wrote
<1> QED
  BY <1>1, <1>2, PlainKeeps

\* An index write that counts the session as lost when the entry was right.
LEMMA IndexWritten ==
  ASSUME TypeInv, NEW p \in Procs, NEW v \in Tasks \cup {None},
         index' = [index EXCEPT ![p[1]] = v], lost' = Lose(p[1])
  PROVE  /\ index' \in [SessionIds -> Tasks \cup {None}]
         /\ lost' \subseteq SessionIds /\ lost \subseteq lost'
         /\ \A s \in SessionIds \ lost' :
              index[s] # None /\ owner[index[s]] = s => index'[s] = index[s]
<1>1. p[1] \in SessionIds
  BY SessionsAssumption
<1> QED
  BY <1>1 DEF Lose, TypeInv

\* The bound on what is begun.
LEMMA BegunTyped ==
  ASSUME TypeInv, NEW b, Begun(b)
  PROVE  claims' \in 0..MaxClaims
BY SessionsAssumption DEF Begun, TypeInv

\* What is known of a process in a state of the invariant.
LEMMA ProcKnown ==
  ASSUME SessionInv, NEW p \in Procs
  PROVE  /\ p[1] \in SessionIds
         /\ proc[p].at \in Places /\ proc[p].task \in Tasks \cup {None}
         /\ proc[p].prior \in Tasks \cup {None}
         /\ proc[p].role \in {"none", "hook", "task", "force", "resume"}
         /\ proc[p].at \in {"stale", "rewrite", "open", "touch", "body"} \cup LockStates
              => proc[p].task \in Tasks
<1>1. proc[p] \in ProcRec
  BY DEF SessionInv, TypeInv
<1> QED
  BY <1>1, RecParts, SessionsAssumption DEF SessionInv, ShapeInv, Shaped

\* The first read of the index, by a hook or a resume.
LEMMA BeginLookupKeeps ==
  ASSUME SessionInv, NEW p \in Procs, NEW role \in {"hook", "resume"}, BeginLookup(p, role)
  PROVE  SessionInv'
<1>1. p[1] \in SessionIds /\ index[p[1]] \in Tasks \cup {None}
  BY ProcKnown DEF SessionInv, TypeInv
<1>2. proc[p].at = "idle"
  BY DEF BeginLookup, Idle
<1>7. Became(p, "look", index[p[1]], proc[p].prior, role)
  BY <1>1, HookBecame DEF BeginLookup, SessionInv, Places
<1>8. claims' \in 0..MaxClaims
  BY BegunTyped DEF BeginLookup, SessionInv
<1> QED
  BY <1>2, <1>7, <1>8, QuietKeeps DEF BeginLookup, LockStates, ClaimStates, ClearStates

\* Where a lookup goes from the entry it read.
LEMMA FoundKeeps ==
  ASSUME SessionInv, NEW p \in Procs, NEW t \in Tasks, Found(p, t)
  PROVE  \E a \in {"open", "touch"} : Became(p, a, t, proc[p].prior, proc[p].role)
<1>1. TypeInv
  BY DEF SessionInv
<1>2. CASE proc[p].role = "resume"
  <2>1. Goto(p, "open", t)
    BY <1>2 DEF Found
  <2> QED
    BY <1>1, <2>1, GotoBecame DEF Places
<1>3. CASE proc[p].role # "resume"
  <2>1. Goto(p, "touch", t)
    BY <1>3 DEF Found
  <2> QED
    BY <1>1, <2>1, GotoBecame DEF Places
<1> QED
  BY <1>2, <1>3

\* The entry is checked against the owner it names.
LEMMA LookupPointedKeeps ==
  ASSUME SessionInv, NEW p \in Procs, LookupPointed(p)
  PROVE  SessionInv'
<1>1. TypeInv /\ proc[p].at # "index" /\ claims' \in 0..MaxClaims
  BY DEF SessionInv, TypeInv, LookupPointed
<1>2. proc[p].task \in Tasks \cup {None}
  BY ProcKnown
<1>3. CASE proc[p].task # None /\ Found(p, proc[p].task)
  BY <1>1, <1>2, <1>3, FoundKeeps, QuietKeeps
     DEF LookupPointed, LockStates, ClaimStates, ClearStates
<1>4. CASE proc[p].task # None /\ Goto(p, "stale", proc[p].task)
  <2>1. Became(p, "stale", proc[p].task, proc[p].prior, proc[p].role)
    BY <1>1, <1>2, <1>4, GotoBecame DEF Places
  <2> QED
    BY <1>1, <1>2, <1>4, <2>1, QuietKeeps DEF LookupPointed, LockStates, ClaimStates, ClearStates
<1>5. CASE Goto(p, "scan", None)
  <2>1. Became(p, "scan", None, proc[p].prior, proc[p].role)
    BY <1>1, <1>5, GotoBecame DEF Places
  <2> QED
    BY <1>1, <2>1, QuietKeeps DEF LookupPointed, LockStates, ClaimStates, ClearStates
<1> QED
  BY <1>3, <1>4, <1>5 DEF LookupPointed

\* A stale entry is cleared without a lock.
LEMMA LookupClearStaleKeeps ==
  ASSUME SessionInv, NEW p \in Procs, LookupClearStale(p)
  PROVE  SessionInv'
<1>1. TypeInv /\ proc[p].at = "stale"
  BY DEF SessionInv, LookupClearStale
<1>2. Became(p, "scan", None, proc[p].prior, proc[p].role)
  BY <1>1, GotoBecame DEF LookupClearStale, Places
<1>3. index' = [index EXCEPT ![p[1]] = None] /\ lost' = Lose(p[1])
  BY DEF LookupClearStale
<1>4. /\ index' \in [SessionIds -> Tasks \cup {None}]
      /\ lost' \subseteq SessionIds /\ lost \subseteq lost'
      /\ \A s \in SessionIds \ lost' :
           index[s] # None /\ owner[index[s]] = s => index'[s] = index[s]
  BY <1>1, <1>3, IndexWritten
<1>5. RestTyped
  BY <1>1, <1>4 DEF RestTyped, TypeInv, LookupClearStale
<1>6. Wrote(p) /\ \A x \in Tasks : owner'[x] = owner[x] \/ owner'[x] = None
  BY DEF Wrote, LookupClearStale
<1> QED
  BY <1>1, <1>2, <1>4, <1>5, <1>6, PlainKeeps DEF LockStates, ClaimStates, ClearStates

\* The scan of the task directories.
LEMMA LookupScanKeeps ==
  ASSUME SessionInv, NEW p \in Procs, LookupScan(p)
  PROVE  SessionInv'
<1>1. TypeInv /\ proc[p].at # "index" /\ claims' \in 0..MaxClaims
  BY DEF SessionInv, TypeInv, LookupScan
<1>2. ASSUME NEW t \in Freshest(Owned(p[1]) \cap Listed), Goto(p, "rewrite", t)
      PROVE  SessionInv'
  <2>1. t \in Tasks
    BY <1>2 DEF Freshest, Owned
  <2>2. Became(p, "rewrite", t, proc[p].prior, proc[p].role)
    BY <1>1, <1>2, <2>1, GotoBecame DEF Places
  <2> QED
    BY <1>1, <2>1, <2>2, QuietKeeps DEF LookupScan, LockStates, ClaimStates, ClearStates
<1>3. CASE Goto(p, "pick", None)
  <2>1. Became(p, "pick", None, proc[p].prior, proc[p].role)
    BY <1>1, <1>3, GotoBecame DEF Places
  <2> QED
    BY <1>1, <2>1, QuietKeeps DEF LookupScan, LockStates, ClaimStates, ClearStates
<1>4. CASE proc' = [proc EXCEPT ![p] = Idle]
  <2>1. Became(p, "idle", None, None, "none")
    BY <1>1, <1>4, IdleBecame
  <2> QED
    BY <1>1, <2>1, QuietKeeps DEF LookupScan, LockStates, ClaimStates, ClearStates
<1> QED
  BY <1>2, <1>3, <1>4 DEF LookupScan

\* The scan's answer is written back without a lock.
LEMMA LookupRewriteKeeps ==
  ASSUME SessionInv, NEW p \in Procs, LookupRewrite(p)
  PROVE  SessionInv'
<1>1. TypeInv /\ proc[p].at = "rewrite"
  BY DEF SessionInv, LookupRewrite
<1>2. proc[p].task \in Tasks
  BY <1>1, ProcKnown
<1>3. \E a \in {"open", "touch"} : Became(p, a, proc[p].task, proc[p].prior, proc[p].role)
  BY <1>2, FoundKeeps DEF LookupRewrite
<1>4. index' = [index EXCEPT ![p[1]] = proc[p].task] /\ lost' = Lose(p[1])
  BY DEF LookupRewrite
<1>5. /\ index' \in [SessionIds -> Tasks \cup {None}]
      /\ lost' \subseteq SessionIds /\ lost \subseteq lost'
      /\ \A s \in SessionIds \ lost' :
           index[s] # None /\ owner[index[s]] = s => index'[s] = index[s]
  BY <1>1, <1>2, <1>4, IndexWritten
<1>6. RestTyped
  BY <1>1, <1>5 DEF RestTyped, TypeInv, LookupRewrite
<1>7. Wrote(p) /\ \A x \in Tasks : owner'[x] = owner[x] \/ owner'[x] = None
  BY DEF Wrote, LookupRewrite
<1> QED
  BY <1>1, <1>2, <1>3, <1>5, <1>6, <1>7, PlainKeeps DEF LockStates, ClaimStates, ClearStates

\* resume.py without an argument falls back to the freshest task.
LEMMA FindActiveKeeps ==
  ASSUME SessionInv, NEW p \in Procs, FindActiveTaskDir(p)
  PROVE  SessionInv'
<1>1. TypeInv /\ proc[p].at # "index" /\ claims' \in 0..MaxClaims
  BY DEF SessionInv, TypeInv, FindActiveTaskDir
<1>2. ASSUME NEW t \in FindActive, Found(p, t)
      PROVE  SessionInv'
  <2>1. t \in Tasks
    BY <1>2, SessionsAssumption DEF FindActive, Freshest
  <2> QED
    BY <1>1, <1>2, <2>1, FoundKeeps, QuietKeeps
       DEF FindActiveTaskDir, LockStates, ClaimStates, ClearStates
<1>3. CASE proc' = [proc EXCEPT ![p] = Idle]
  <2>1. Became(p, "idle", None, None, "none")
    BY <1>1, <1>3, IdleBecame
  <2> QED
    BY <1>1, <2>1, QuietKeeps DEF FindActiveTaskDir, LockStates, ClaimStates, ClearStates
<1> QED
  BY <1>2, <1>3 DEF FindActiveTaskDir

\* A heartbeat is written under the state lock of its task.
LEMMA TouchKeeps ==
  ASSUME SessionInv, NEW p \in Procs, TouchHeartbeat(p)
  PROVE  SessionInv'
<1>1. TypeInv /\ proc[p].at = "touch" /\ Free(p, proc[p].task)
  BY DEF SessionInv, TouchHeartbeat
<1>2. proc[p].task \in Tasks
  BY <1>1, ProcKnown
<1>3. 0 \in 0..Window
  BY SessionsAssumption
<1>4. RestTyped
  BY <1>1, <1>2, <1>3 DEF RestTyped, TypeInv, TouchHeartbeat
<1>5. Wrote(p) /\ \A x \in Tasks : owner'[x] = owner[x] \/ owner'[x] = None
  BY <1>1, <1>2 DEF Wrote, TouchHeartbeat, TypeInv
<1>6. /\ lost \subseteq lost'
      /\ \A s \in SessionIds \ lost' :
           index[s] # None /\ owner[index[s]] = s => index'[s] = index[s]
  BY DEF TouchHeartbeat
<1>7. CASE proc' = [proc EXCEPT ![p] = Idle]
  <2>1. Became(p, "idle", None, None, "none")
    BY <1>1, <1>7, IdleBecame
  <2> QED
    BY <1>1, <1>4, <1>5, <1>6, <2>1, PlainKeeps DEF LockStates, ClaimStates, ClearStates
<1>8. CASE proc' = [proc EXCEPT ![p] = [@ EXCEPT !.at = "body", !.prior = None]]
  <2> DEFINE r == [proc[p] EXCEPT !.at = "body", !.prior = None]
  <2>1. proc[p] \in ProcRec
    BY <1>1 DEF TypeInv
  <2>2. r \in ProcRec /\ r.at = "body" /\ r.task = proc[p].task /\ r.prior = None
        /\ r.role = proc[p].role
    BY <2>1 DEF ProcRec, Places
  <2>3. proc' = [proc EXCEPT ![p] = r]
    BY <1>8
  <2>4. Became(p, "body", proc[p].task, None, proc[p].role)
    BY <1>1, <2>2, <2>3 DEF Became, TypeInv
  <2> QED
    BY <1>1, <1>2, <1>4, <1>5, <1>6, <2>4, PlainKeeps DEF LockStates, ClaimStates, ClearStates
<1> QED
  BY <1>7, <1>8 DEF TouchHeartbeat

\* The pre-edit hook goes to the heartbeat of the edited file's task.
LEMMA PreEditKeeps ==
  ASSUME SessionInv, NEW p \in Procs, NEW t \in Tasks, PreEditTouch(p, t)
  PROVE  SessionInv'
<1>1. Became(p, "touch", t, proc[p].prior, "hook")
  BY HookBecame DEF PreEditTouch, SessionInv, Places
<1>2. claims' \in 0..MaxClaims /\ proc[p].at = "idle"
  BY SessionsAssumption DEF PreEditTouch, Begun, SessionInv, TypeInv, Idle
<1> QED
  BY <1>1, <1>2, QuietKeeps DEF PreEditTouch, LockStates, ClaimStates, ClearStates

\* A step to a place where locks may be held, with nothing written.
LEMMA LockMoveKeeps ==
  ASSUME SessionInv, NEW p \in Procs, Moved(p), proc[p].at # "index", claims' \in 0..MaxClaims,
         UNCHANGED <<owner, age, index, alive, kills, lost>>,
         proc'[p].at \in {"claim", "second", "locked", "clear"},
         proc'[p].at # "clear"
           => \/ proc[p].at \in {"claim", "second", "locked"} /\ proc'[p].prior = proc[p].prior
              \/ proc'[p].prior = index[p[1]] /\ SessionLockFree(p[1])
  PROVE  SessionInv'
<1>1. RestTyped /\ Wrote(p)
  BY DEF RestTyped, Wrote, SessionInv, TypeInv
<1>2. Frame(p)
  BY DEF Frame
<1>3. MayOwn(p)'
  BY DEF MayOwn
<1> QED
  BY <1>1, <1>2, <1>3, OrderlyKeeps, FrameKeeps DEF SessionInv, Orderly

\* A claim begins under the session's lock, which no other process has.
LEMMA StartClaimKeeps ==
  ASSUME SessionInv, NEW p \in Procs, NEW t \in Tasks,
         NEW ro \in {"none", "hook", "task", "force", "resume"}, StartClaim(p, t, ro),
         proc[p].at # "index", claims' \in 0..MaxClaims,
         UNCHANGED <<owner, age, index, alive, kills, lost>>
  PROVE  SessionInv'
<1>1. Became(p, "claim", t, index[p[1]], ro) /\ SessionLockFree(p[1])
  BY ClaimBecame DEF SessionInv
<1>2. LocksOf(proc'[p]) = {}
  BY <1>1, LocksCases DEF Became
<1>3. Moved(p)
  BY <1>1, <1>2 DEF Moved, Became, Shaped
<1> QED
  BY <1>1, <1>3, LockMoveKeeps DEF Became

\* A claim by a hook, by Task.__enter__ or by a forced resume.
LEMMA BeginClaimKeeps ==
  ASSUME SessionInv, NEW p \in Procs, NEW t \in Tasks, NEW ro \in {"hook", "task", "force"},
         BeginClaim(p, t, ro)
  PROVE  SessionInv'
<1>1. claims' \in 0..MaxClaims /\ proc[p].at = "idle"
  BY SessionsAssumption DEF BeginClaim, Begun, SessionInv, TypeInv, Idle
<1> QED
  BY <1>1, StartClaimKeeps DEF BeginClaim

\* A resume opens what its lookup found.
LEMMA ResumeFoundKeeps ==
  ASSUME SessionInv, NEW p \in Procs, ResumeFound(p)
  PROVE  SessionInv'
<1>1. proc[p].task \in Tasks /\ claims' \in 0..MaxClaims /\ proc[p].at = "open"
  BY ProcKnown DEF ResumeFound, SessionInv, TypeInv
<1> QED
  BY <1>1, StartClaimKeeps DEF ResumeFound

\* The first of a claim's state locks; it is the only one when there is one task.
LEMMA LockFirstKeeps ==
  ASSUME SessionInv, NEW p \in Procs, LockFirst(p)
  PROVE  SessionInv'
<1>1. TypeInv /\ proc[p].at = "claim" /\ proc[p] \in ProcRec /\ Free(p, FirstLock(proc[p]))
  BY DEF SessionInv, TypeInv, LockFirst
<1>2. proc[p].task \in Tasks
  BY <1>1, ProcKnown DEF LockStates, ClaimStates
<1>3. CASE Cardinality(LockSet(proc[p])) = 1
  <2>1. Goto(p, "locked", proc[p].task)
    BY <1>3 DEF LockFirst
  <2>2. Became(p, "locked", proc[p].task, proc[p].prior, proc[p].role)
    BY <1>1, <1>2, <2>1, GotoBecame DEF Places, ClaimStates
  <2>3. LocksOf(proc'[p]) = LockSet(proc[p])
    BY <2>2, LocksCases, SameLocks DEF Became
  <2>4. \A t \in LocksOf(proc'[p]) : Free(p, t)
    BY <1>1, <1>2, <1>3, <2>3, OneLock
  <2>5. Moved(p)
    BY <1>1, <1>2, <2>2, <2>4 DEF Moved, Became, Shaped, LockStates, ClaimStates
  <2> QED
    BY <1>1, <2>2, <2>5, LockMoveKeeps DEF LockFirst, Became, SessionInv, TypeInv
<1>4. CASE Cardinality(LockSet(proc[p])) # 1
  <2>1. Goto(p, "second", proc[p].task)
    BY <1>4 DEF LockFirst
  <2>2. Became(p, "second", proc[p].task, proc[p].prior, proc[p].role)
    BY <1>1, <1>2, <2>1, GotoBecame DEF Places, ClaimStates
  <2>3. LocksOf(proc'[p]) = {FirstLock(proc[p])}
    BY <2>2, LocksCases, SameLocks DEF Became
  <2>5. Moved(p)
    BY <1>1, <1>2, <2>2, <2>3 DEF Moved, Became, Shaped, LockStates, ClaimStates
  <2> QED
    BY <1>1, <2>2, <2>5, LockMoveKeeps DEF LockFirst, Became, SessionInv, TypeInv
<1> QED
  BY <1>3, <1>4

\* The second lock.
LEMMA LockSecondKeeps ==
  ASSUME SessionInv, NEW p \in Procs, LockSecond(p)
  PROVE  SessionInv'
<1>1. TypeInv /\ proc[p].at = "second" /\ \A t \in LockSet(proc[p]) : Free(p, t)
  BY DEF SessionInv, LockSecond
<1>2. proc[p].task \in Tasks
  BY <1>1, ProcKnown DEF LockStates, ClaimStates
<1>3. Became(p, "locked", proc[p].task, proc[p].prior, proc[p].role)
  BY <1>1, <1>2, GotoBecame DEF LockSecond, Places, ClaimStates
<1>4. LocksOf(proc'[p]) = LockSet(proc[p])
  BY <1>3, LocksCases, SameLocks DEF Became
<1>5. Moved(p)
  BY <1>1, <1>2, <1>3, <1>4 DEF Moved, Became, Shaped, LockStates, ClaimStates
<1> QED
  BY <1>1, <1>3, <1>5, LockMoveKeeps DEF LockSecond, Became, SessionInv, TypeInv

\* A refused claim gives its locks back.
LEMMA ClaimRefusedKeeps ==
  ASSUME SessionInv, NEW p \in Procs, ClaimRefused(p)
  PROVE  SessionInv'
<1>1. TypeInv /\ proc[p].at = "locked" /\ claims' \in 0..MaxClaims
  BY DEF SessionInv, TypeInv, ClaimRefused
<1>2. proc[p].task \in Tasks
  BY <1>1, ProcKnown DEF LockStates, ClaimStates
<1>3. CASE proc[p].role = "hook"
  <2>1. Became(p, "touch", proc[p].task, proc[p].prior, proc[p].role)
    BY <1>1, <1>2, <1>3, GotoBecame DEF ClaimRefused, Places
  <2> QED
    BY <1>1, <1>2, <2>1, QuietKeeps DEF ClaimRefused, LockStates, ClaimStates, ClearStates
<1>4. CASE proc[p].role # "hook"
  <2>1. Became(p, "idle", None, None, "none")
    BY <1>1, <1>4, IdleBecame DEF ClaimRefused
  <2> QED
    BY <1>1, <2>1, QuietKeeps DEF ClaimRefused, LockStates, ClaimStates, ClearStates
<1> QED
  BY <1>3, <1>4

\* The prior task is given up before the target is taken.
LEMMA ReleasePriorKeeps ==
  ASSUME SessionInv, NEW p \in Procs, ReleasePrior(p)
  PROVE  SessionInv'
<1>1. TypeInv /\ proc[p].at = "locked" /\ ~Refused(p)
  BY DEF SessionInv, ReleasePrior
<1>2. proc[p].task \in Tasks /\ p[1] \in SessionIds /\ proc[p].prior \in Tasks \cup {None}
  BY <1>1, ProcKnown DEF LockStates, ClaimStates
<1>3. Became(p, "own", proc[p].task, proc[p].prior, proc[p].role)
  BY <1>1, <1>2, GotoBecame DEF ReleasePrior, Places, ClaimStates
<1>4. LocksOf(proc'[p]) = LockSet(proc[p]) /\ LocksOf(proc[p]) = LockSet(proc[p])
  BY <1>1, <1>3, LocksCases, SameLocks DEF Became
<1>5. Moved(p)
  BY <1>1, <1>2, <1>3, <1>4 DEF Moved, Became, Shaped, LockStates, ClaimStates
<1> DEFINE q == proc[p].prior
           Given == q \notin {None, proc[p].task} /\ owner[q] = p[1]
<1>6. /\ Given => q \in Tasks /\ owner' = [owner EXCEPT ![q] = None] /\ age' = [age EXCEPT ![q] = 0]
      /\ ~Given => owner' = owner /\ age' = age
  BY <1>2 DEF ReleasePrior
<1>7. 0 \in 0..Window
  BY SessionsAssumption
<1>8. RestTyped
  BY <1>1, <1>6, <1>7 DEF RestTyped, TypeInv, ReleasePrior
<1>9. Wrote(p)
  BY <1>1, <1>4, <1>6 DEF Wrote, TypeInv, LockSet
<1>10. owner'[proc[p].task] = owner[proc[p].task] /\ age'[proc[p].task] = age[proc[p].task]
  BY <1>1, <1>2, <1>6 DEF TypeInv
<1>11. MayOwn(p)'
  BY <1>1, <1>3, <1>10 DEF MayOwn, Became, Refused, HeartbeatFresh
<1>12. ASSUME NEW t \in Tasks, owner'[t] = p[1], p[1] \notin lost
       PROVE  t = proc[p].task
  <2>1. p[1] # None
    BY <1>2, SessionsAssumption
  <2>2. owner[t] = p[1]
    BY <1>1, <1>6, <1>12, <2>1 DEF TypeInv
  <2>3. t = q
    BY <1>1, <1>12, <2>2 DEF SessionInv, ClaimInv
  <2>4. q # None
    BY <2>3, SessionsAssumption
  <2>5. CASE q # proc[p].task
    <3>1. Given
      BY <2>2, <2>3, <2>4, <2>5
    <3>2. owner'[q] = None
      BY <1>1, <1>6, <3>1 DEF TypeInv
    <3> QED
      BY <1>12, <2>1, <2>3, <3>2
  <2> QED
    BY <2>3, <2>5
<1>13. Frame(p)
  <2>1. \A t \in Tasks : owner'[t] = owner[t] \/ owner'[t] = None
    BY <1>1, <1>6 DEF TypeInv
  <2>2. lost' = lost /\ index' = index
    BY DEF ReleasePrior
  <2> QED
    BY <1>1, <1>3, <1>12, <2>1, <2>2 DEF Frame, Became
<1> QED
  BY <1>5, <1>8, <1>9, <1>11, <1>13, OrderlyKeeps, FrameKeeps DEF SessionInv, Orderly

\* The target's owner is saved: the session owned nothing else.
LEMMA SaveOwnerKeeps ==
  ASSUME SessionInv, NEW p \in Procs, SaveOwner(p)
  PROVE  SessionInv'
<1> DEFINE t0 == proc[p].task
<1>1. TypeInv /\ proc[p].at = "own"
  BY DEF SessionInv, SaveOwner
<1>2. t0 \in Tasks /\ p[1] \in SessionIds /\ p[1] # None
  BY <1>1, ProcKnown, SessionsAssumption DEF LockStates, ClaimStates
<1>3. Became(p, "index", t0, proc[p].prior, proc[p].role)
  BY <1>1, <1>2, GotoBecame DEF SaveOwner, Places, ClaimStates
<1>4. LocksOf(proc'[p]) = LockSet(proc[p]) /\ LocksOf(proc[p]) = LockSet(proc[p])
  BY <1>1, <1>3, LocksCases, SameLocks DEF Became
<1>5. Moved(p)
  BY <1>1, <1>2, <1>3, <1>4 DEF Moved, Became, Shaped, LockStates, ClaimStates
<1>6. owner' = [owner EXCEPT ![t0] = p[1]] /\ age' = [age EXCEPT ![t0] = 0]
      /\ index' = index /\ lost' = lost
  BY DEF SaveOwner
<1>7. 0 \in 0..Window
  BY SessionsAssumption
<1>8. RestTyped
  BY <1>1, <1>2, <1>6, <1>7 DEF RestTyped, TypeInv, SaveOwner
<1>9. Wrote(p)
  BY <1>1, <1>4, <1>6 DEF Wrote, TypeInv, LockSet
<1>10. MayOwn(p)'
  BY <1>3 DEF MayOwn, Became
<1>11. \A t \in Tasks : owner'[t] = IF t = t0 THEN p[1] ELSE owner[t]
  BY <1>1, <1>2, <1>6 DEF TypeInv
<1>12. \A t \in Tasks : t # t0 /\ owner[t] = p[1] => p[1] \in lost
  BY <1>1 DEF SessionInv, ClaimInv
<1>13. ASSUME NEW t \in Tasks, owner'[t] \in SessionIds \ lost'
       PROVE  \/ index'[owner'[t]] = t
              \/ \E q \in Procs : q[1] = owner'[t] /\ proc'[q].at = "index" /\ proc'[q].task = t
  <2>1. CASE t = t0
    BY <1>3, <1>11, <2>1 DEF Became
  <2>2. CASE t # t0
    <3>1. owner'[t] = owner[t] /\ owner[t] \in SessionIds \ lost
      BY <1>6, <1>11, <1>13, <2>2
    <3>2. ASSUME NEW q \in Procs, q[1] = owner[t], proc[q].at = "index", proc[q].task = t
          PROVE  proc'[q] = proc[q]
      BY <1>1, <1>5, <3>2 DEF Moved
    <3> QED
      BY <1>6, <3>1, <3>2 DEF SessionInv, IndexInv
  <2> QED
    BY <2>1, <2>2
<1>14. ASSUME NEW q \in Procs, NEW t \in Tasks, owner'[t] = q[1], q[1] \notin lost'
       PROVE  /\ proc'[q].at \in {"claim", "second", "locked"} => t = proc'[q].prior
              /\ proc'[q].at \in {"own", "index"} => t = proc'[q].task
  <2>1. CASE q = p
    BY <1>3, <1>6, <1>11, <1>12, <1>14, <2>1 DEF Became
  <2>2. CASE q # p
    <3>1. proc'[q] = proc[q]
      BY <1>5, <2>2 DEF Moved
    <3>2. CASE t = t0
      <4>1. q[1] = p[1]
        BY <1>11, <1>14, <3>2
      <4>2. proc[q].at \notin LockStates
        BY <1>1, <2>2, <4>1 DEF SessionInv, LockInv, LockStates, ClaimStates
      <4> QED
        BY <3>1, <4>2 DEF LockStates, ClaimStates
    <3>3. CASE t # t0
      BY <1>6, <1>11, <1>14, <3>1, <3>3 DEF SessionInv, ClaimInv
    <3> QED
      BY <3>2, <3>3
  <2> QED
    BY <2>1, <2>2
<1>15. IndexInv'
  BY <1>13 DEF IndexInv
<1>16. ClaimInv'
  BY <1>14 DEF ClaimInv
<1> QED
  BY <1>5, <1>8, <1>9, <1>10, <1>15, <1>16, OrderlyKeeps DEF SessionInv, Orderly

\* The claim ends with the index naming the one task the session owns.
LEMMA WriteIndexKeeps ==
  ASSUME SessionInv, NEW p \in Procs, WriteIndex(p)
  PROVE  SessionInv'
<1> DEFINE t0 == proc[p].task
<1>1. TypeInv /\ proc[p].at = "index"
  BY DEF SessionInv, WriteIndex
<1>2. t0 \in Tasks /\ p[1] \in SessionIds
  BY <1>1, ProcKnown DEF LockStates, ClaimStates
<1>3. Became(p, "touch", t0, proc[p].prior, proc[p].role)
  BY <1>1, <1>2, GotoBecame DEF WriteIndex, Places
<1>4. Moved(p)
  BY <1>2, <1>3, FreeMove DEF LockStates, ClaimStates, ClearStates
<1>5. index' = [index EXCEPT ![p[1]] = t0] /\ owner' = owner /\ age' = age /\ lost' = lost
  BY DEF WriteIndex
<1>6. RestTyped
  BY <1>1, <1>2, <1>5 DEF RestTyped, TypeInv, WriteIndex
<1>7. Wrote(p) /\ MayOwn(p)'
  BY <1>3, <1>5 DEF Wrote, MayOwn, Became
<1>8. ASSUME NEW t \in Tasks, owner[t] \in SessionIds \ lost
      PROVE  \/ index'[owner[t]] = t
             \/ \E q \in Procs : q[1] = owner[t] /\ proc'[q].at = "index" /\ proc'[q].task = t
  <2>1. CASE owner[t] = p[1]
    <3>1. t = t0
      BY <1>1, <1>8, <2>1 DEF SessionInv, ClaimInv
    <3> QED
      BY <1>1, <1>2, <1>5, <2>1, <3>1 DEF TypeInv
  <2>2. CASE owner[t] # p[1]
    <3>1. index'[owner[t]] = index[owner[t]]
      BY <1>1, <1>5, <1>8, <2>2 DEF TypeInv
    <3>2. ASSUME NEW q \in Procs, q[1] = owner[t]
          PROVE  proc'[q] = proc[q]
      BY <1>4, <2>2, <3>2 DEF Moved
    <3> QED
      BY <1>8, <3>1, <3>2 DEF SessionInv, IndexInv
  <2> QED
    BY <2>1, <2>2
<1>9. IndexInv'
  BY <1>5, <1>8 DEF IndexInv
<1>10. \A q \in Procs : proc'[q] = proc[q] \/ proc'[q].at = "touch"
  BY <1>3 DEF Became
<1>11. ClaimInv'
  BY <1>5, <1>10 DEF ClaimInv, SessionInv
<1> QED
  BY <1>4, <1>6, <1>7, <1>9, <1>11, OrderlyKeeps DEF SessionInv, Orderly

\* A transaction of the body stamps the heartbeat under the state lock.
LEMMA TransactKeeps ==
  ASSUME SessionInv, NEW p \in Procs, Transact(p)
  PROVE  SessionInv'
<1>1. TypeInv /\ proc[p].at = "body" /\ Free(p, proc[p].task)
  BY DEF SessionInv, Transact
<1>2. proc[p].task \in Tasks
  BY <1>1, ProcKnown
<1>3. 0 \in 0..Window
  BY SessionsAssumption
<1>4. RestTyped
  BY <1>1, <1>2, <1>3 DEF RestTyped, TypeInv, Transact
<1>5. Wrote(p) /\ \A x \in Tasks : owner'[x] = owner[x] \/ owner'[x] = None
  BY <1>1, <1>2 DEF Wrote, Transact, TypeInv
<1>6. /\ lost \subseteq lost'
      /\ \A s \in SessionIds \ lost' :
           index[s] # None /\ owner[index[s]] = s => index'[s] = index[s]
  BY DEF Transact
<1>7. Became(p, "body", proc[p].task, proc[p].prior, proc[p].role)
  BY <1>1 DEF Became, Transact, TypeInv
<1> QED
  BY <1>1, <1>2, <1>4, <1>5, <1>6, <1>7, PlainKeeps DEF LockStates, ClaimStates, ClearStates

\* A clean exit.
LEMMA CloseTaskKeeps ==
  ASSUME SessionInv, NEW p \in Procs, CloseTask(p)
  PROVE  SessionInv'
<1>1. TypeInv /\ proc[p].at = "body" /\ claims' \in 0..MaxClaims
  BY DEF SessionInv, TypeInv, CloseTask
<1>2. Became(p, "idle", None, None, "none")
  BY <1>1, IdleBecame DEF CloseTask
<1> QED
  BY <1>1, <1>2, QuietKeeps DEF CloseTask, LockStates, ClaimStates, ClearStates

\* An exception takes the session's lock.
LEMMA RaiseKeeps ==
  ASSUME SessionInv, NEW p \in Procs, Raise(p)
  PROVE  SessionInv'
<1>1. TypeInv /\ proc[p].at = "body" /\ SessionLockFree(p[1]) /\ claims' \in 0..MaxClaims
  BY DEF SessionInv, TypeInv, Raise
<1>2. proc[p].task \in Tasks
  BY <1>1, ProcKnown
<1>3. Became(p, "clear", proc[p].task, proc[p].prior, proc[p].role)
  BY <1>1, <1>2, GotoBecame DEF Raise, Places, ClearStates
<1>4. LocksOf(proc'[p]) = {}
  BY <1>3, LocksCases DEF Became
<1>5. Moved(p)
  BY <1>1, <1>2, <1>3, <1>4 DEF Moved, Became, Shaped
<1> QED
  BY <1>1, <1>3, <1>5, LockMoveKeeps DEF Raise, Became

\* The release of an exception: the owner goes under the state lock.
LEMMA ClearOwnerKeeps ==
  ASSUME SessionInv, NEW p \in Procs, ClearOwner(p)
  PROVE  SessionInv'
<1> DEFINE t0 == proc[p].task
<1>1. TypeInv /\ proc[p].at = "clear" /\ Free(p, t0)
  BY DEF SessionInv, ClearOwner
<1>2. t0 \in Tasks /\ p[1] \in SessionIds
  BY <1>1, ProcKnown DEF LockStates, ClearStates
<1>3. CASE owner[t0] = None
  <2>1. index' = [index EXCEPT ![p[1]] = None] /\ lost' = Lose(p[1])
    BY <1>3 DEF ClearOwner
  <2>2. Became(p, "idle", None, None, "none")
    BY <1>1, <1>3, IdleBecame DEF ClearOwner
  <2>3. /\ index' \in [SessionIds -> Tasks \cup {None}]
        /\ lost' \subseteq SessionIds /\ lost \subseteq lost'
        /\ \A s \in SessionIds \ lost' :
             index[s] # None /\ owner[index[s]] = s => index'[s] = index[s]
    BY <1>1, <2>1, IndexWritten
  <2>4. RestTyped
    BY <1>1, <1>3, <2>3 DEF RestTyped, TypeInv, ClearOwner
  <2>5. Wrote(p) /\ \A x \in Tasks : owner'[x] = owner[x] \/ owner'[x] = None
    BY <1>3 DEF Wrote, ClearOwner
  <2> QED
    BY <1>1, <2>2, <2>3, <2>4, <2>5, PlainKeeps DEF LockStates, ClaimStates, ClearStates
<1>4. CASE owner[t0] # None
  <2>1. owner' = [owner EXCEPT ![t0] = None] /\ age' = [age EXCEPT ![t0] = 0]
        /\ index' = index /\ lost' = lost
    BY <1>4 DEF ClearOwner
  <2>2. 0 \in 0..Window
    BY SessionsAssumption
  <2>3. RestTyped
    BY <1>1, <1>2, <2>1, <2>2 DEF RestTyped, TypeInv, ClearOwner
  <2>4. Wrote(p) /\ \A x \in Tasks : owner'[x] = owner[x] \/ owner'[x] = None
    BY <1>1, <1>2, <2>1 DEF Wrote, TypeInv
  <2>5. CASE owner[t0] = p[1]
    <3>1. Became(p, "dropindex", t0, proc[p].prior, proc[p].role)
      BY <1>1, <1>2, <1>4, <2>5, GotoBecame DEF ClearOwner, Places, ClearStates
    <3>2. LocksOf(proc'[p]) = {t0}
      BY <3>1, LocksCases DEF Became
    <3>3. Moved(p)
      BY <1>1, <1>2, <3>1, <3>2 DEF Moved, Became, Shaped, LockStates, ClearStates
    <3>4. Frame(p) /\ MayOwn(p)'
      BY <1>1, <2>1, <2>4, <3>1 DEF Frame, MayOwn, Became
    <3> QED
      BY <2>3, <2>4, <3>3, <3>4, OrderlyKeeps, FrameKeeps DEF SessionInv, Orderly
  <2>6. CASE owner[t0] # p[1]
    <3>1. Became(p, "idle", None, None, "none")
      BY <1>1, <1>4, <2>6, IdleBecame DEF ClearOwner
    <3> QED
      BY <1>1, <2>1, <2>3, <2>4, <3>1, PlainKeeps DEF LockStates, ClaimStates, ClearStates
  <2> QED
    BY <2>5, <2>6
<1> QED
  BY <1>3, <1>4

\* The index entry of a released task goes.
LEMMA DropIndexKeeps ==
  ASSUME SessionInv, NEW p \in Procs, DropIndex(p)
  PROVE  SessionInv'
<1>1. TypeInv /\ proc[p].at = "dropindex"
  BY DEF SessionInv, DropIndex
<1>2. Became(p, "idle", None, None, "none")
  BY <1>1, IdleBecame DEF DropIndex
<1>3. index' = [index EXCEPT ![p[1]] = None] /\ lost' = Lose(p[1])
  BY DEF DropIndex
<1>4. /\ index' \in [SessionIds -> Tasks \cup {None}]
      /\ lost' \subseteq SessionIds /\ lost \subseteq lost'
      /\ \A s \in SessionIds \ lost' :
           index[s] # None /\ owner[index[s]] = s => index'[s] = index[s]
  BY <1>1, <1>3, IndexWritten
<1>5. RestTyped
  BY <1>1, <1>4 DEF RestTyped, TypeInv, DropIndex
<1>6. Wrote(p) /\ \A x \in Tasks : owner'[x] = owner[x] \/ owner'[x] = None
  BY DEF Wrote, DropIndex
<1> QED
  BY <1>1, <1>2, <1>4, <1>5, <1>6, PlainKeeps DEF LockStates, ClaimStates, ClearStates

\* A killed process: a claim killed before its index is the session's loss.
LEMMA KillProcKeeps ==
  ASSUME SessionInv, NEW p \in Procs, KillProc(p)
  PROVE  SessionInv'
<1>1. TypeInv /\ p[1] \in SessionIds
  BY ProcKnown DEF SessionInv
<1>2. Became(p, "idle", None, None, "none")
  BY <1>1, IdleBecame DEF KillProc
<1>3. kills' \in 0..MaxKills
  BY <1>1, SessionsAssumption DEF KillProc, TypeInv
<1>4. RestTyped
  BY <1>1, <1>3 DEF RestTyped, TypeInv, KillProc
<1>5. Wrote(p) /\ lost \subseteq lost' /\ (proc[p].at = "index" => p[1] \in lost')
      /\ \A x \in Tasks : owner'[x] = owner[x] \/ owner'[x] = None
  BY DEF Wrote, KillProc
<1>6. index' = index
  BY DEF KillProc
<1> QED
  BY <1>2, <1>4, <1>5, <1>6, PlainKeeps DEF LockStates, ClaimStates, ClearStates

-----------------------------------------------------------------------------
(* The environment, the start and the invariant.                           *)

\* A dead session's processes are gone with their locks.
LEMMA SessionDiesKeeps ==
  ASSUME SessionInv, NEW s \in SessionIds, SessionDies(s)
  PROVE  SessionInv'
<1>1. TypeInv
  BY DEF SessionInv
<1>2. Idle \in ProcRec /\ Idle.at = "idle"
  BY DEF Idle, ProcRec, Places
<1>3. \A q \in Procs : proc'[q] = IF q[1] = s THEN Idle ELSE proc[q]
  BY DEF SessionDies
<1>4. proc' \in [Procs -> ProcRec]
  BY <1>1, <1>2 DEF SessionDies, TypeInv
<1>5. TypeInv'
  BY <1>1, <1>4, SessionsAssumption DEF TypeInv, SessionDies
<1>6. \A q \in Procs : proc'[q] = proc[q] \/ proc'[q].at = "idle"
  BY <1>2, <1>3
<1>7. \A q \in Procs : LocksOf(proc'[q]) = LocksOf(proc[q]) \/ LocksOf(proc'[q]) = {}
  BY <1>6, LocksCases
<1>8. \A q \in Procs : LocksOf(proc[q])' = LocksOf(proc'[q])
  BY DEF LocksOf, FirstLock, LockSet, Least
<1>9. ShapeInv'
  BY <1>6 DEF SessionInv, ShapeInv, Shaped, LockStates, ClaimStates, ClearStates
<1>10. \A q, r \in Procs : q # r => LocksOf(proc'[q]) \cap LocksOf(proc'[r]) = {}
  <2> SUFFICES ASSUME NEW q \in Procs, NEW r \in Procs, q # r
               PROVE  LocksOf(proc'[q]) \cap LocksOf(proc'[r]) = {}
    OBVIOUS
  <2>1. LocksOf(proc[q]) \cap LocksOf(proc[r]) = {}
    BY DEF SessionInv, LockInv
  <2> QED
    BY <1>7, <2>1
<1>11. \A q, r \in Procs : q # r /\ q[1] = r[1] /\ proc'[q].at \in LockStates
                             => proc'[r].at \notin LockStates
  BY <1>6 DEF SessionInv, LockInv, LockStates, ClaimStates, ClearStates
<1>12. LockInv'
  BY <1>8, <1>10, <1>11 DEF LockInv
<1>13. owner' = owner /\ age' = age /\ index' = index /\ lost \subseteq lost'
  BY DEF SessionDies
<1>14. OwnInv'
  BY <1>6, <1>13 DEF SessionInv, OwnInv, MayOwn, HeartbeatFresh
<1>15. ASSUME NEW t \in Tasks, owner[t] \in SessionIds \ lost'
       PROVE  \/ index[owner[t]] = t
              \/ \E q \in Procs : q[1] = owner[t] /\ proc'[q].at = "index" /\ proc'[q].task = t
  <2>1. owner[t] \in SessionIds \ lost
    BY <1>13, <1>15
  <2>2. ASSUME NEW q \in Procs, q[1] = owner[t], proc[q].at = "index"
        PROVE  proc'[q] = proc[q]
    <3>1. CASE q[1] = s
      <4>1. s \in lost'
        BY <2>2, <3>1 DEF SessionDies
      <4> QED
        BY <1>15, <2>2, <3>1, <4>1
    <3> QED
      BY <1>3, <3>1
  <2> QED
    BY <2>1, <2>2 DEF SessionInv, IndexInv
<1>16. IndexInv'
  BY <1>13, <1>15 DEF IndexInv
<1>17. ClaimInv'
  BY <1>6, <1>13 DEF SessionInv, ClaimInv
<1> QED
  BY <1>5, <1>9, <1>12, <1>14, <1>16, <1>17 DEF SessionInv

\* Time only makes heartbeats older.
LEMMA TickKeeps ==
  ASSUME SessionInv, Tick
  PROVE  SessionInv'
<1>1. owner' = owner /\ index' = index /\ proc' = proc /\ lost' = lost /\ alive' = alive
      /\ kills' = kills /\ claims' = claims
  BY DEF Tick
<1>2. \A t \in Tasks : age'[t] = IF age[t] < Window THEN age[t] + 1 ELSE age[t]
  BY DEF Tick, HeartbeatFresh
<1>3. age \in [Tasks -> 0..Window] /\ Window \in Nat
  BY SessionsAssumption DEF SessionInv, TypeInv
<1>4. age' \in [Tasks -> 0..Window]
  BY <1>3 DEF Tick, HeartbeatFresh
<1>5. \A t \in Tasks : ~(age[t] < Window) => ~(age'[t] < Window)
  BY <1>2
<1>6. TypeInv'
  BY <1>1, <1>4 DEF SessionInv, TypeInv
<1>7. ASSUME NEW p \in Procs
      PROVE  MayOwn(p)'
  <2>1. proc[p].at = "own" => proc[p].task \in Tasks
    BY ProcKnown DEF LockStates, ClaimStates
  <2> QED
    BY <1>1, <1>5, <2>1 DEF SessionInv, OwnInv, MayOwn, HeartbeatFresh
<1>8. ShapeInv' /\ IndexInv' /\ ClaimInv'
  BY <1>1 DEF SessionInv, ShapeInv, Shaped, IndexInv, ClaimInv
<1>9. LockInv'
  BY <1>1, LocksStay DEF SessionInv
<1> QED
  BY <1>6, <1>7, <1>8, <1>9 DEF SessionInv, OwnInv

\* Sessions start with a claim each that their index names.
LEMMA InitSession ==
  ASSUME Init
  PROVE  SessionInv
<1>1. Idle \in ProcRec /\ Idle.at = "idle"
  BY DEF Idle, ProcRec, Places
<1>2. proc \in [Procs -> ProcRec] /\ \A p \in Procs : proc[p] = Idle
  BY <1>1 DEF Init
<1>3. ASSUME NEW t \in Tasks
      PROVE  \/ owner[t] = None
             \/ owner[t] \in SessionIds /\ index[owner[t]] = t
  <2>1. CASE \E s \in SessionIds : index[s] = t
    <3>1. owner[t] = CHOOSE s \in SessionIds : index[s] = t
      BY <2>1 DEF Init
    <3> QED
      BY <2>1, <3>1
  <2>2. CASE ~\E s \in SessionIds : index[s] = t
    BY <2>2 DEF Init
  <2> QED
    BY <2>1, <2>2
<1>4. owner \in [Tasks -> SessionIds \cup {None}]
  <2>1. owner = [t \in Tasks |-> owner[t]]
    BY DEF Init
  <2> QED
    BY <1>3, <2>1
<1>5. age \in [Tasks -> 0..Window]
  BY SessionsAssumption DEF Init
<1>6. TypeInv
  BY <1>2, <1>4, <1>5, SessionsAssumption DEF Init, TypeInv
<1>7. \A p \in Procs : LocksOf(proc[p]) = {}
  BY <1>1, <1>2, LocksCases
<1>8. ShapeInv /\ LockInv /\ OwnInv /\ ClaimInv
  BY <1>1, <1>2, <1>7
     DEF ShapeInv, Shaped, LockInv, OwnInv, MayOwn, ClaimInv, LockStates, ClaimStates, ClearStates
<1>9. IndexInv
  BY <1>3, SessionsAssumption DEF IndexInv
<1> QED
  BY <1>6, <1>8, <1>9 DEF SessionInv

\* One step per disjunct of Next.
LEMMA NextSession ==
  ASSUME SessionInv, [Next]_vars
  PROVE  SessionInv'
<1>1. ASSUME NEW p \in Procs, NEW role \in {"hook", "resume"}, BeginLookup(p, role)
      PROVE  SessionInv'
  BY <1>1, BeginLookupKeeps
<1>2. ASSUME NEW p \in Procs, NEW t \in Tasks, PreEditTouch(p, t)
      PROVE  SessionInv'
  BY <1>2, PreEditKeeps
<1>3. ASSUME NEW p \in Procs, NEW t \in Tasks, NEW role \in {"hook", "task", "force"},
             BeginClaim(p, t, role)
      PROVE  SessionInv'
  BY <1>3, BeginClaimKeeps
<1>4. ASSUME NEW p \in Procs, LookupStep(p)
      PROVE  SessionInv'
  BY <1>4, LookupPointedKeeps, LookupClearStaleKeeps, LookupScanKeeps, LookupRewriteKeeps,
     FindActiveKeeps, ResumeFoundKeeps DEF LookupStep
<1>5. ASSUME NEW p \in Procs, ClaimStep(p)
      PROVE  SessionInv'
  BY <1>5, ClaimRefusedKeeps, ReleasePriorKeeps, SaveOwnerKeeps, WriteIndexKeeps DEF ClaimStep
<1>6. ASSUME NEW p \in Procs, LockStep(p)
      PROVE  SessionInv'
  BY <1>6, LockFirstKeeps, LockSecondKeeps, TouchKeeps DEF LockStep
<1>7. ASSUME NEW p \in Procs,
             Transact(p) \/ CloseTask(p) \/ Raise(p) \/ ClearOwner(p) \/ DropIndex(p) \/ KillProc(p)
      PROVE  SessionInv'
  BY <1>7, TransactKeeps, CloseTaskKeeps, RaiseKeeps, ClearOwnerKeeps, DropIndexKeeps, KillProcKeeps
<1>8. ASSUME NEW s \in SessionIds, SessionDies(s)
      PROVE  SessionInv'
  BY <1>8, SessionDiesKeeps
<1>9. CASE Tick
  BY <1>9, TickKeeps
<1>10. CASE UNCHANGED vars
  <2>1. LockInv'
    BY <1>10, LocksStay DEF vars, SessionInv
  <2> QED
    BY <1>10, <2>1 DEF vars, SessionInv, TypeInv, ShapeInv, Shaped, OwnInv, MayOwn, HeartbeatFresh,
       IndexInv, ClaimInv
<1> QED
  BY <1>1, <1>2, <1>3, <1>4, <1>5, <1>6, <1>7, <1>8, <1>9, <1>10 DEF Next

\* The inductive invariant of the ownership protocol: every lock has one holder,
\* what a claim decided under its locks still holds when it writes, and the index
\* of a session that lost nothing names the task it owns.
THEOREM SessionInvariant == Spec => []SessionInv
<1>1. Init => SessionInv
  BY InitSession
<1>2. SessionInv /\ [Next]_vars => SessionInv'
  BY NextSession
<1> QED
  BY <1>1, <1>2, PTL DEF Spec

\* The type invariant.
THEOREM SessionTypes == Spec => []TypeOK
<1>1. SessionInv => TypeOK
  BY DEF SessionInv, TypeInv, TypeOK, ProcRec, Places
<1> QED
  BY <1>1, SessionInvariant, PTL

\* A session whose entry was never dropped owns one task at most, and outside a
\* claim or a release its index names it: for any number of sessions, tasks and
\* processes, killed wherever they are.
THEOREM OneTaskEach == Spec => []OneTaskPerSession
<1>1. ASSUME SessionInv, NEW s \in SessionIds \ lost
      PROVE  /\ Cardinality(Owned(s)) <= 1
             /\ (SessionLockFree(s) /\ Owned(s) # {}) => index[s] \in Owned(s)
  <2>1. CASE Owned(s) = {}
    <3>1. Cardinality(Owned(s)) = 0
      BY <2>1, FS_EmptySet
    <3> QED
      BY <2>1, <3>1
  <2>2. ASSUME NEW t \in Owned(s)
        PROVE  Owned(s) = {t}
    <3> SUFFICES ASSUME NEW u \in Owned(s)
                 PROVE  u = t
      BY <2>2
    <3>1. t \in Tasks /\ owner[t] = s /\ u \in Tasks /\ owner[u] = s
      BY DEF Owned
    <3>2. ASSUME NEW p \in Procs, p[1] = s, proc[p].at = "index"
          PROVE  u = t
      BY <1>1, <3>1, <3>2 DEF SessionInv, ClaimInv
    <3> QED
      BY <1>1, <3>1, <3>2 DEF SessionInv, IndexInv
  <2>3. ASSUME NEW t \in Owned(s)
        PROVE  Cardinality(Owned(s)) = 1
    BY <2>2, <2>3, FS_Singleton
  <2>4. ASSUME NEW t \in Owned(s), SessionLockFree(s)
        PROVE  index[s] = t
    <3>1. t \in Tasks /\ owner[t] = s
      BY <2>4 DEF Owned
    <3>2. \A p \in Procs : p[1] = s => proc[p].at # "index"
      BY <2>4 DEF SessionLockFree, ClaimStates
    <3> QED
      BY <1>1, <3>1, <3>2 DEF SessionInv, IndexInv
  <2> QED
    BY <2>1, <2>3, <2>4
<1>2. SessionInv => OneTaskPerSession
  BY <1>1 DEF OneTaskPerSession
<1> QED
  BY <1>2, SessionInvariant, PTL

\* The step that ends a claim with a fresh heartbeat: the session's own claim or
\* release, a release of a process that opened the task, or a forced claim.  The
\* refusal is decided under the lock the save is made under, so an unforced claim
\* of another session cannot be among them.
THEOREM FreshClaimsKept == Spec => FreshClaimKept
<1> DEFINE Allowed ==
      \A t \in Tasks :
         (owner[t] # None /\ HeartbeatFresh(t) /\ owner'[t] # owner[t])
           => \E p \in Procs :
                /\ t \in {proc[p].task, proc[p].prior}
                /\ \/ p[1] = owner[t] /\ proc[p].at \in {"locked", "clear"}
                   \/ proc[p].task = t /\ proc[p].at = "clear"
                   \/ proc[p].task = t /\ proc[p].at = "own" /\ proc[p].role = "force"
<1>1. ASSUME SessionInv, NEW p \in Procs, ReleasePrior(p)
      PROVE  Allowed
  BY <1>1 DEF ReleasePrior, SessionInv, TypeInv
<1>2. ASSUME SessionInv, NEW p \in Procs, SaveOwner(p)
      PROVE  Allowed
  <2> SUFFICES ASSUME NEW t \in Tasks, owner[t] # None, HeartbeatFresh(t), owner'[t] # owner[t]
               PROVE  proc[p].task = t /\ proc[p].at = "own" /\ proc[p].role = "force"
    BY <1>2
  <2>1. proc[p].at = "own" /\ t = proc[p].task /\ owner'[t] = p[1]
    BY <1>2 DEF SaveOwner, SessionInv, TypeInv
  <2>2. MayOwn(p)
    BY <1>2 DEF SessionInv, OwnInv
  <2> QED
    BY <2>1, <2>2 DEF MayOwn
<1>3. ASSUME SessionInv, NEW p \in Procs, ClearOwner(p)
      PROVE  Allowed
  BY <1>3 DEF ClearOwner, SessionInv, TypeInv
<1>4. ASSUME owner' = owner
      PROVE  Allowed
  BY <1>4
<1>5. ASSUME SessionInv, [Next]_vars
      PROVE  Allowed
  <2>1. ASSUME NEW p \in Procs, ClaimStep(p)
        PROVE  Allowed
    <3>1. CASE ClaimRefused(p) \/ WriteIndex(p)
      BY <1>4, <3>1 DEF ClaimRefused, WriteIndex
    <3> QED
      BY <1>1, <1>2, <1>5, <2>1, <3>1 DEF ClaimStep
  <2>2. ASSUME NEW p \in Procs,
               \/ \E role \in {"hook", "resume"} : BeginLookup(p, role)
               \/ \E t \in Tasks : PreEditTouch(p, t)
               \/ \E t \in Tasks, role \in {"hook", "task", "force"} : BeginClaim(p, t, role)
               \/ LookupStep(p) \/ LockStep(p)
               \/ Transact(p) \/ CloseTask(p) \/ Raise(p) \/ DropIndex(p) \/ KillProc(p)
        PROVE  owner' = owner
    BY <2>2 DEF BeginLookup, PreEditTouch, BeginClaim, LookupStep, LookupPointed, LookupClearStale,
       LookupScan, LookupRewrite, FindActiveTaskDir, ResumeFound, LockStep, LockFirst, LockSecond,
       TouchHeartbeat, Transact, CloseTask, Raise, DropIndex, KillProc
  <2>3. ASSUME (\E s \in SessionIds : SessionDies(s)) \/ Tick \/ UNCHANGED vars
        PROVE  owner' = owner
    BY <2>3 DEF SessionDies, Tick, vars
  <2> QED
    BY <1>3, <1>4, <1>5, <2>1, <2>2, <2>3 DEF Next
<1>6. SessionInv /\ [Next]_vars => [Allowed]_vars
  BY <1>5
<1> QED
  BY <1>6, SessionInvariant, PTL DEF Spec, FreshClaimKept
=============================================================================
