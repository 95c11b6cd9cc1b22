--------------------------- MODULE DataCacheProofs ---------------------------
(***************************************************************************)
(* Proofs about DataCache, for any set of processes, any number of devices *)
(* and any number of kills.                                                *)
(***************************************************************************)
EXTENDS DataCache, FiniteSetTheorems, TLAPS

\* The records of jobs, and the types the argument needs; the count of devices
\* plays no part in it.
Steps == {"new", "device", "purge", "lock", "steal", "check", "delete",
          "make", "store", "unlock", "verify", "done", "dead"}
JobRec == [kind : Kinds \cup {"none"}, dev : BOOLEAN, own : BOOLEAN, hit : BOOLEAN,
           pc : Steps]
TypeInv ==
  /\ entry \in [Namespaces -> {"none", "valid", "bad"}]
  /\ lock \in [Namespaces -> [by : Procs \cup {None}, stale : BOOLEAN]]
  /\ proc \in [Procs -> JobRec]
  /\ aged \subseteq Namespaces
  /\ made \in Nat

\* Which jobs reach which step.
KindInv ==
  \A p \in Procs :
    /\ proc[p].kind = "none" => proc[p].pc = "new"
    /\ proc[p].pc = "new" => ~proc[p].own
    /\ proc[p].pc = "device" => proc[p].kind \in {"reference", "profile"}
    /\ proc[p].pc = "purge" => proc[p].kind \in {"baseline", "profile"}

\* Between the mkdir and the release a process owns a lock, and the directory is
\* its own unless a lock of the namespace has been stale.
LockInv ==
  /\ \A n \in Namespaces : lock[n].stale => n \in aged
  /\ \A p \in Procs : At(p, "steal") => Lk(p) \in aged
  /\ \A p \in Procs : proc[p].pc \in {"check", "delete", "unlock"} => proc[p].own
  /\ \A p \in Procs : proc[p].pc \in {"make", "store"} /\ proc[p].kind # "profile"
                        => proc[p].own
  /\ \A p \in Procs : proc[p].own /\ proc[p].pc # "dead"
                        => Lk(p) \in aged \/ lock[Lk(p)].by = p

\* Who has seen, under the lock, that there is no usable reference: a blind process
\* only once it has deleted what it found.
Settled(p, pc) == pc \in {"make", "store"} \/ (pc = "delete" /\ p \notin Blind)

\* Whoever is about to make the reference saw, under the lock, that there is none,
\* and nobody has stored one since.
RefInv ==
  "reference" \notin aged =>
    /\ made <= 1
    /\ made = 1 => entry["reference"] = "valid"
    /\ \A p \in Procs :
         proc[p].kind = "reference" /\ Settled(p, proc[p].pc) => entry["reference"] # "valid"

CacheInv == TypeInv /\ KindInv /\ LockInv /\ RefInv

USE DEF Settled

-----------------------------------------------------------------------------

\* Each job has a namespace and a lock.
LEMMA NamespaceType ==
  ASSUME NEW p PROVE Lk(p) \in Namespaces /\ Ns(p) \in Namespaces
BY DEF Lk, LockOf, Ns, Namespace, Namespaces

\* The initial state: no lock, no job.
LEMMA InitInv == Init => CacheInv
<1> SUFFICES ASSUME Init PROVE CacheInv
  OBVIOUS
<1> USE CacheAssumption
<1>1. TypeInv
  BY DEF Init, TypeInv, JobRec, Steps, NoLock, NoJob, Kinds
<1>2. KindInv
  BY DEF Init, KindInv, NoJob
<1>3. LockInv
  BY NamespaceType DEF Init, LockInv, NoLock, NoJob, At, Lk, LockOf
<1>4. RefInv
  BY DEF Init, RefInv, NoJob
<1> QED BY <1>1, <1>2, <1>3, <1>4 DEF CacheInv

-----------------------------------------------------------------------------
(* What a step does to the job of its process.                             *)

Moved(p, pc, kind, own) ==
  /\ proc' \in [Procs -> JobRec]
  /\ proc'[p].pc = pc /\ proc'[p].kind = kind /\ proc'[p].own = own
  /\ \A q \in Procs \ {p} : proc'[q] = proc[q]

\* Replacing one job by another.
LEMMA Replaced ==
  ASSUME TypeInv, NEW p \in Procs, NEW r \in JobRec, proc' = [proc EXCEPT ![p] = r]
  PROVE  Moved(p, r.pc, r.kind, r.own)
BY DEF TypeInv, Moved

\* Goto changes the step only.
LEMMA GotoMoves ==
  ASSUME TypeInv, NEW p \in Procs, NEW pc \in Steps, Goto(p, pc)
  PROVE  Moved(p, pc, proc[p].kind, proc[p].own)
<1> DEFINE r == [proc[p] EXCEPT !.pc = pc]
<1>1. r \in JobRec /\ r.pc = pc /\ r.kind = proc[p].kind /\ r.own = proc[p].own
  BY DEF TypeInv, JobRec
<1>2. proc' = [proc EXCEPT ![p] = r]
  BY DEF Goto
<1> QED BY <1>1, <1>2, Replaced

\* Taking and giving back a device changes the step and the device.
LEMMA DeviceMoves ==
  ASSUME TypeInv, NEW p \in Procs, NEW pc \in Steps, TakeDevice(p, pc) \/ Leave(p, pc)
  PROVE  Moved(p, pc, proc[p].kind, proc[p].own)
<1>1. PICK d \in BOOLEAN : proc' = [proc EXCEPT ![p] = [proc[p] EXCEPT !.pc = pc, !.dev = d]]
  BY DEF TakeDevice, Leave
<1> DEFINE r == [proc[p] EXCEPT !.pc = pc, !.dev = d]
<1>2. r \in JobRec /\ r.pc = pc /\ r.kind = proc[p].kind /\ r.own = proc[p].own
  BY DEF TypeInv, JobRec
<1> QED BY <1>1, <1>2, Replaced

\* A process that leaves locks and entries alone keeps the invariant when the step
\* it enters is one it may be at.
LEMMA PlainMove ==
  ASSUME CacheInv, NEW p \in Procs, NEW pc \in Steps \ {"new", "device", "purge"},
         Moved(p, pc, proc[p].kind, proc[p].own),
         entry' = entry, lock' = lock, aged' = aged, made' = made,
         proc[p].pc \notin {"new", "dead"},
         pc = "steal" => Lk(p) \in aged,
         pc \in {"check", "delete", "unlock"} => proc[p].own,
         pc \in {"make", "store"} /\ proc[p].kind # "profile" => proc[p].own,
         "reference" \notin aged /\ proc[p].kind = "reference" /\ Settled(p, pc)
           => entry["reference"] # "valid"
  PROVE  CacheInv'
<1>1. \A q \in Procs : Lk(q)' = Lk(q)
  BY DEF Moved, Lk
<1>2. TypeInv'
  BY DEF CacheInv, TypeInv, Moved
<1>3. KindInv'
  BY DEF CacheInv, KindInv, Moved
<1>4. LockInv'
  <2>1. \A n \in Namespaces : lock'[n].stale => n \in aged'
    BY DEF CacheInv, LockInv
  <2>2. \A q \in Procs : proc'[q].pc = "steal" => Lk(q)' \in aged'
    BY <1>1 DEF CacheInv, LockInv, Moved, At
  <2>3. \A q \in Procs : proc'[q].pc \in {"check", "delete", "unlock"} => proc'[q].own
    BY DEF CacheInv, LockInv, Moved
  <2>4. \A q \in Procs : proc'[q].pc \in {"make", "store"} /\ proc'[q].kind # "profile"
                           => proc'[q].own
    BY DEF CacheInv, LockInv, Moved
  <2>5. \A q \in Procs : proc'[q].own /\ proc'[q].pc # "dead"
                           => Lk(q)' \in aged' \/ lock'[Lk(q)'].by = q
    BY <1>1 DEF CacheInv, LockInv, Moved
  <2> QED BY <2>1, <2>2, <2>3, <2>4, <2>5 DEF LockInv, At
<1>5. RefInv'
  BY DEF CacheInv, RefInv, Moved
<1> QED BY <1>2, <1>3, <1>4, <1>5 DEF CacheInv

-----------------------------------------------------------------------------
(* The actions.                                                            *)

\* The steps of a job that touch neither locks nor entries.
LEMMA JobMoves ==
  ASSUME CacheInv, NEW p \in Procs,
         \/ SeeStale(p) \/ LockTimeout(p) \/ Check(p) \/ Acquire(p) \/ NoWorker(p)
         \/ MakeReference(p) \/ MakeBaseline(p) \/ MakeProfile(p) \/ Verify(p) \/ Kill(p)
  PROVE  CacheInv'
<1> TypeInv
  BY DEF CacheInv
<1> USE DEF Steps
<1>1. CASE SeeStale(p)
  <2>1. Moved(p, "steal", proc[p].kind, proc[p].own) /\ Lk(p) \in aged
    BY <1>1, GotoMoves, NamespaceType DEF SeeStale, CacheInv, LockInv
  <2> QED BY <1>1, <2>1, PlainMove DEF SeeStale, At
<1>2. CASE LockTimeout(p)
  <2>1. PICK pc \in {"verify", "done"} : Moved(p, pc, proc[p].kind, proc[p].own)
    BY <1>2, GotoMoves DEF LockTimeout
  <2> QED BY <1>2, <2>1, PlainMove DEF LockTimeout, At
<1>3. CASE Check(p)
  <2>0. proc[p].pc = "check" /\ entry' = entry /\ lock' = lock /\ aged' = aged /\ made' = made
    BY <1>3 DEF Check, At
  <2>2. proc[p].kind = "reference" => Ns(p) = "reference"
    BY DEF Ns, Namespace
  <2>3. entry[Ns(p)] \in {"none", "valid", "bad"}
    BY NamespaceType DEF TypeInv
  <2>4. CASE entry[Ns(p)] # "none" /\ Usable(p)
    <3>1. Moved(p, "unlock", proc[p].kind, proc[p].own)
      BY <1>3, <2>4, GotoMoves DEF Check
    <3> QED BY <2>0, <3>1, PlainMove DEF CacheInv, LockInv
  <2>5. CASE entry[Ns(p)] # "none" /\ ~Usable(p)
    <3>1. Moved(p, "delete", proc[p].kind, proc[p].own)
      BY <1>3, <2>5, GotoMoves DEF Check
    <3>2. p \notin Blind => entry[Ns(p)] # "valid"
      BY <2>5 DEF Usable
    <3> QED BY <2>0, <2>2, <3>1, <3>2, PlainMove DEF CacheInv, LockInv
  <2>6. CASE entry[Ns(p)] = "none"
    <3>1. Moved(p, "make", proc[p].kind, proc[p].own)
      BY <1>3, <2>6, GotoMoves DEF Check
    <3> QED BY <2>0, <2>2, <2>6, <3>1, PlainMove DEF CacheInv, LockInv
  <2> QED BY <2>4, <2>5, <2>6
<1>4. CASE Acquire(p)
  <2>1. CASE At(p, "device") /\ proc[p].kind = "reference"
    <3>1. Moved(p, "lock", proc[p].kind, proc[p].own)
      BY <1>4, <2>1, DeviceMoves DEF Acquire, At
    <3> QED BY <1>4, <2>1, <3>1, PlainMove DEF Acquire, At
  <2>2. CASE At(p, "device") /\ proc[p].kind # "reference"
    <3>1. Moved(p, "make", proc[p].kind, proc[p].own)
      BY <1>4, <2>2, DeviceMoves DEF Acquire, At
    <3>2. proc[p].kind = "profile"
      BY <2>2 DEF CacheInv, KindInv, At
    <3> QED BY <1>4, <2>2, <3>1, <3>2, PlainMove DEF Acquire, At
  <2>3. CASE At(p, "make")
    <3>1. Moved(p, "make", proc[p].kind, proc[p].own)
      BY <1>4, <2>3, DeviceMoves DEF Acquire, At
    <3> QED BY <1>4, <2>3, <3>1, PlainMove DEF Acquire, At, CacheInv, LockInv, RefInv
  <2> QED BY <1>4, <2>1, <2>2, <2>3 DEF Acquire
<1>5. CASE NoWorker(p)
  <2>1. Moved(p, "unlock", proc[p].kind, proc[p].own)
    BY <1>5, GotoMoves DEF NoWorker
  <2>2. /\ proc[p].pc = "make" /\ proc[p].kind = "baseline"
        /\ entry' = entry /\ lock' = lock /\ aged' = aged /\ made' = made
    BY <1>5 DEF NoWorker, At
  <2>3. proc[p].own = TRUE
    BY <2>2 DEF CacheInv, LockInv, TypeInv, JobRec
  <2> QED BY <2>1, <2>2, <2>3, PlainMove
<1>6. CASE MakeReference(p)
  <2>1. PICK pc \in {"store", "unlock"} : Moved(p, pc, proc[p].kind, proc[p].own)
    BY <1>6, GotoMoves DEF MakeReference
  <2> QED BY <1>6, <2>1, PlainMove DEF MakeReference, At, CacheInv, LockInv, RefInv
<1>7. CASE MakeBaseline(p)
  <2>1. PICK pc \in {"store", "unlock"} : Moved(p, pc, proc[p].kind, proc[p].own)
    BY <1>7, GotoMoves, DeviceMoves DEF MakeBaseline
  <2> QED BY <1>7, <2>1, PlainMove DEF MakeBaseline, At, CacheInv, LockInv
<1>8. CASE MakeProfile(p)
  <2>1. PICK pc \in {"store", "done"} : Moved(p, pc, proc[p].kind, proc[p].own)
    BY <1>8, GotoMoves, DeviceMoves DEF MakeProfile
  <2> QED BY <1>8, <2>1, PlainMove DEF MakeProfile, At
<1>9. CASE Verify(p)
  <2>1. Moved(p, "done", proc[p].kind, proc[p].own)
    BY <1>9, DeviceMoves DEF Verify
  <2> QED BY <1>9, <2>1, PlainMove DEF Verify, At
<1>10. CASE Kill(p)
  <2>1. Moved(p, "dead", proc[p].kind, proc[p].own)
    BY <1>10, DeviceMoves DEF Kill
  <2> QED BY <1>10, <2>1, PlainMove DEF Kill
<1> QED BY <1>1, <1>2, <1>3, <1>4, <1>5, <1>6, <1>7, <1>8, <1>9, <1>10

\* A job that begins owns nothing and has made nothing.
LEMMA JobBegins ==
  ASSUME CacheInv, NEW p \in Procs, StartReference(p) \/ StartBaseline(p)
  PROVE  CacheInv'
<1> TypeInv
  BY DEF CacheInv
<1>0. ~proc[p].own /\ proc[p] \in JobRec /\ proc[p].pc = "new"
  BY DEF StartReference, StartBaseline, At, CacheInv, KindInv, TypeInv
<1>1. PICK kind \in Kinds, pc \in {"device", "purge", "lock", "done"}, h \in BOOLEAN :
         /\ proc' = [proc EXCEPT ![p] = [proc[p] EXCEPT !.kind = kind, !.pc = pc, !.hit = h]]
         /\ pc = "device" => kind \in {"reference", "profile"}
         /\ pc = "purge" => kind \in {"baseline", "profile"}
  <2>1. CASE StartReference(p)
    <3>1. [proc[p] EXCEPT !.kind = "reference", !.pc = "device"]
            = [proc[p] EXCEPT !.kind = "reference", !.pc = "device", !.hit = proc[p].hit]
      BY <1>0 DEF JobRec
    <3> QED BY <2>1, <1>0, <3>1 DEF StartReference, Kinds, JobRec
  <2>2. CASE StartBaseline(p)
    <3>1. PICK kind \in {"baseline", "profile"} :
             proc' = [proc EXCEPT ![p] = [proc[p] EXCEPT !.kind = kind, !.pc = AfterLook(kind),
                                             !.hit = (entry["baseline"] = "valid")]]
      BY <2>2 DEF StartBaseline
    <3>2. AfterLook(kind) \in {"device", "purge", "lock", "done"}
          /\ (AfterLook(kind) = "device" => kind = "profile")
      BY DEF AfterLook
    <3> QED BY <3>1, <3>2 DEF Kinds
  <2> QED BY <2>1, <2>2
<1> DEFINE r == [proc[p] EXCEPT !.kind = kind, !.pc = pc, !.hit = h]
<1>2. r \in JobRec /\ r.pc = pc /\ r.kind = kind /\ ~r.own
  BY <1>0 DEF JobRec, Steps
<1>3. Moved(p, pc, kind, r.own)
  BY <1>1, <1>2, Replaced
<1>4. entry' = entry /\ lock' = lock /\ aged' = aged /\ made' = made
  BY DEF StartReference, StartBaseline
<1> HIDE DEF r
<1>5. \A q \in Procs \ {p} : Lk(q)' = Lk(q)
  BY <1>3 DEF Moved, Lk
<1>6. TypeInv'
  BY <1>3, <1>4 DEF TypeInv, Moved
<1>7. KindInv'
  BY <1>1, <1>2, <1>3 DEF Kinds, CacheInv, KindInv, Moved
<1>8. LockInv'
  BY <1>2, <1>3, <1>4, <1>5 DEF CacheInv, LockInv, Moved, At
<1>9. RefInv'
  BY <1>3, <1>4 DEF CacheInv, RefInv, Moved
<1> QED BY <1>6, <1>7, <1>8, <1>9 DEF CacheInv

\* Taking a lock that is free: nobody else is inside a namespace without a stale lock.
LEMMA LockTaken ==
  ASSUME CacheInv, NEW p \in Procs, TryAcquire(p)
  PROVE  CacheInv'
<1> TypeInv
  BY DEF CacheInv
<1>0. Lk(p) \in Namespaces /\ lock[Lk(p)].by = None /\ None \notin Procs
  BY NamespaceType, CacheAssumption DEF TryAcquire
<1> DEFINE r == [proc[p] EXCEPT !.pc = "check", !.own = TRUE]
<1>1. r \in JobRec /\ r.pc = "check" /\ r.kind = proc[p].kind /\ r.own = TRUE
  BY DEF TypeInv, JobRec, Steps
<1>2. Moved(p, "check", proc[p].kind, TRUE)
  BY <1>1, Replaced DEF TryAcquire
<1>3. /\ entry' = entry /\ aged' = aged /\ made' = made
      /\ lock' = [lock EXCEPT ![Lk(p)] = [by |-> p, stale |-> FALSE]]
  BY DEF TryAcquire
<1> HIDE DEF r
<1>4. \A q \in Procs : Lk(q)' = Lk(q) /\ Lk(q) \in Namespaces
  BY <1>2, NamespaceType DEF Moved, Lk
<1>5. TypeInv'
  BY <1>0, <1>2, <1>3 DEF TypeInv, Moved
<1>6. KindInv'
  BY <1>2 DEF TryAcquire, At, CacheInv, KindInv, Moved
<1>7. LockInv'
  <2>1. \A n \in Namespaces : lock'[n].stale => n \in aged'
    BY <1>0, <1>3 DEF CacheInv, LockInv, TypeInv
  <2>2. \A q \in Procs : proc'[q].own /\ proc'[q].pc # "dead"
                           => Lk(q)' \in aged' \/ lock'[Lk(q)'].by = q
    <3> SUFFICES ASSUME NEW q \in Procs, proc'[q].own, proc'[q].pc # "dead", Lk(q) \notin aged
                 PROVE  lock'[Lk(q)].by = q
      BY <1>3, <1>4
    <3>1. CASE q = p
      BY <1>0, <1>3, <3>1 DEF TypeInv
    <3>2. CASE q # p
      <4>1. lock[Lk(q)].by = q
        BY <1>2, <3>2 DEF CacheInv, LockInv, Moved
      <4> QED BY <1>0, <1>3, <1>4, <4>1 DEF TypeInv
    <3> QED BY <3>1, <3>2
  <2> QED BY <1>2, <1>3, <1>4, <2>1, <2>2 DEF CacheInv, LockInv, Moved, At
<1>8. RefInv'
  BY <1>2, <1>3 DEF CacheInv, RefInv, Moved
<1> QED BY <1>5, <1>6, <1>7, <1>8 DEF CacheInv

\* Removing a lock directory: the owner of a fresh lock is the one who removes it.
LEMMA LockRemoved ==
  ASSUME CacheInv, NEW p \in Procs, Steal(p) \/ Unlock(p)
  PROVE  CacheInv'
<1> TypeInv
  BY DEF CacheInv
<1>0. Lk(p) \in Namespaces
  BY NamespaceType
<1>1. PICK pc \in {"lock", "verify", "done"}, own \in BOOLEAN :
         /\ Moved(p, pc, proc[p].kind, own)
         /\ Steal(p) => own = proc[p].own
         /\ Unlock(p) => ~own
  <2>1. CASE Steal(p)
    <3>1. Moved(p, "lock", proc[p].kind, proc[p].own)
      BY <2>1, GotoMoves DEF Steal, Steps
    <3>2. ~Unlock(p) /\ proc[p].own \in BOOLEAN
      BY <2>1 DEF Steal, Unlock, At, TypeInv, JobRec
    <3> QED BY <3>1, <3>2
  <2>2. CASE Unlock(p)
    <3>1. PICK pc \in {"verify", "done"} :
             proc' = [proc EXCEPT ![p] = [proc[p] EXCEPT !.own = FALSE, !.pc = pc]]
      BY <2>2 DEF Unlock
    <3> DEFINE r == [proc[p] EXCEPT !.own = FALSE, !.pc = pc]
    <3>2. r \in JobRec /\ r.pc = pc /\ r.kind = proc[p].kind /\ r.own = FALSE
      BY DEF TypeInv, JobRec, Steps
    <3>3. Moved(p, pc, proc[p].kind, FALSE)
      BY <3>1, <3>2, Replaced
    <3>4. ~Steal(p)
      BY <2>2 DEF Steal, Unlock, At
    <3> QED BY <3>3, <3>4
  <2> QED BY <2>1, <2>2
<1>2. /\ entry' = entry /\ aged' = aged /\ made' = made
      /\ lock' = [lock EXCEPT ![Lk(p)] = NoLock]
  BY DEF Steal, Unlock
<1>3. \A q \in Procs : Lk(q)' = Lk(q) /\ Lk(q) \in Namespaces
  BY <1>1, NamespaceType DEF Moved, Lk
<1>4. TypeInv'
  BY <1>0, <1>1, <1>2 DEF TypeInv, Moved, NoLock
<1>5. KindInv'
  BY <1>1 DEF Steal, Unlock, At, CacheInv, KindInv, Moved
<1>6. LockInv'
  <2>1. \A n \in Namespaces : lock'[n].stale => n \in aged'
    BY <1>0, <1>2 DEF CacheInv, LockInv, TypeInv, NoLock
  <2>2. \A q \in Procs : proc'[q].own /\ proc'[q].pc # "dead"
                           => Lk(q)' \in aged' \/ lock'[Lk(q)'].by = q
    <3> SUFFICES ASSUME NEW q \in Procs, proc'[q].own, proc'[q].pc # "dead", Lk(q) \notin aged
                 PROVE  lock'[Lk(q)].by = q
      BY <1>2, <1>3
    <3>1. CASE Steal(p)
      <4>1. Lk(p) \in aged /\ proc[p].pc # "dead"
        BY <3>1 DEF Steal, CacheInv, LockInv, At
      <4>2. lock[Lk(q)].by = q
        BY <1>1, <3>1, <4>1 DEF CacheInv, LockInv, Moved
      <4> QED BY <1>0, <1>2, <1>3, <4>1, <4>2 DEF TypeInv
    <3>2. CASE Unlock(p)
      <4>1. q # p /\ proc[q].own /\ proc[q].pc # "dead"
        BY <1>1, <3>2 DEF Moved
      <4>2. proc[p].own /\ proc[p].pc # "dead"
        BY <3>2 DEF Unlock, At, CacheInv, LockInv
      <4>3. lock[Lk(q)].by = q /\ (Lk(p) \in aged \/ lock[Lk(p)].by = p)
        BY <4>1, <4>2 DEF CacheInv, LockInv
      <4>4. Lk(q) # Lk(p)
        BY <4>1, <4>3
      <4> QED BY <1>0, <1>2, <1>3, <4>3, <4>4 DEF TypeInv
    <3> QED BY <3>1, <3>2
  <2> QED BY <1>1, <1>2, <1>3, <2>1, <2>2 DEF CacheInv, LockInv, Moved, At
<1>7. RefInv'
  BY <1>1, <1>2 DEF CacheInv, RefInv, Moved
<1> QED BY <1>4, <1>5, <1>6, <1>7 DEF CacheInv

\* Deleting an entry: under the lock, or of the baseline.
LEMMA EntryDeleted ==
  ASSUME CacheInv, NEW p \in Procs, Delete(p)
  PROVE  CacheInv'
<1> TypeInv
  BY DEF CacheInv
<1>0. Ns(p) \in Namespaces
  BY NamespaceType
<1>1. PICK pc \in {"make", "device", "lock"} :
         /\ Moved(p, pc, proc[p].kind, proc[p].own)
         /\ pc = "make" => At(p, "delete")
         /\ pc = "device" => proc[p].kind = "profile"
  BY GotoMoves DEF Delete, Steps
<1>2. /\ lock' = lock /\ aged' = aged
      /\ made' = IF Ns(p) = "reference" /\ p \in Blind THEN 0 ELSE made
      /\ entry' = [entry EXCEPT ![Ns(p)] = "none"]
  BY DEF Delete
<1>3. \A q \in Procs : Lk(q)' = Lk(q)
  BY <1>1 DEF Moved, Lk
<1>4. TypeInv'
  BY <1>0, <1>1, <1>2 DEF TypeInv, Moved
<1>5. KindInv'
  BY <1>1 DEF Delete, At, CacheInv, KindInv, Moved
<1>6. LockInv'
  <2>1. proc[p].pc # "dead" /\ (At(p, "delete") => proc[p].own)
    BY DEF Delete, At, CacheInv, LockInv
  <2> QED BY <1>1, <1>2, <1>3, <2>1 DEF CacheInv, LockInv, Moved, At
<1>7. RefInv'
  <2> SUFFICES ASSUME "reference" \notin aged PROVE RefInv'
    BY <1>2 DEF RefInv
  <2>1. CASE Ns(p) = "reference"
    <3>1. At(p, "delete") /\ proc[p].kind = "reference"
      BY <2>1 DEF Delete, At, Ns, Namespace, CacheInv, KindInv
    <3>2. p \notin Blind => entry["reference"] # "valid"
      BY <3>1 DEF CacheInv, RefInv, At
    <3>3. made' # 1 /\ made' <= 1
      BY <1>2, <2>1, <3>2 DEF CacheInv, RefInv
    <3>4. entry'["reference"] = "none"
      BY <1>0, <1>2, <2>1 DEF TypeInv
    <3> QED BY <3>3, <3>4 DEF RefInv
  <2>2. CASE Ns(p) # "reference"
    <3>1. entry'["reference"] = entry["reference"] /\ proc[p].kind # "reference"
      BY <1>2, <2>2 DEF TypeInv, Ns, Namespace, Namespaces
    <3> QED BY <1>1, <1>2, <3>1 DEF CacheInv, RefInv, Moved
  <2> QED BY <2>1, <2>2
<1> QED BY <1>4, <1>5, <1>6, <1>7 DEF CacheInv

\* Storing: whoever stores a reference is the only one inside and the first.
LEMMA EntryStored ==
  ASSUME CacheInv, NEW p \in Procs, Store(p)
  PROVE  CacheInv'
<1> TypeInv
  BY DEF CacheInv
<1>0. Ns(p) \in Namespaces /\ proc[p].pc = "store" /\ lock' = lock /\ aged' = aged
  BY NamespaceType DEF Store, At
<1>1. PICK pc \in {"unlock", "done"} :
         /\ Moved(p, pc, proc[p].kind, proc[p].own)
         /\ pc = "unlock" => proc[p].kind # "profile"
  <2>1. CASE proc[p].kind = "reference"
    BY <2>1, GotoMoves DEF Store, Steps
  <2>2. CASE proc[p].kind = "baseline"
    BY <2>2, DeviceMoves DEF Store, Steps
  <2>3. CASE proc[p].kind = "profile"
    BY <2>3, DeviceMoves DEF Store, Steps
  <2>4. CASE proc[p].kind = "none"
    BY <1>0, <2>4 DEF CacheInv, KindInv
  <2>5. proc[p].kind \in {"reference", "baseline", "profile", "none"}
    BY DEF TypeInv, JobRec, Kinds
  <2> QED BY <2>1, <2>2, <2>3, <2>4, <2>5
<1>2. \/ entry' = entry /\ made' = made
      \/ /\ entry' = [entry EXCEPT ![Ns(p)] = "valid"]
         /\ made' = IF Ns(p) = "reference" THEN made + 1 ELSE made
      \/ /\ entry' = [entry EXCEPT !["reference"] = "bad"] /\ made' = made
         /\ Ns(p) = "reference"
  BY DEF Store
<1>3. \A q \in Procs : Lk(q)' = Lk(q)
  BY <1>1 DEF Moved, Lk
<1>4. TypeInv'
  BY <1>0, <1>1, <1>2 DEF TypeInv, Moved
<1>5. KindInv'
  BY <1>0, <1>1 DEF CacheInv, KindInv, Moved
<1>6. LockInv'
  BY <1>0, <1>1, <1>3 DEF CacheInv, LockInv, Moved, At
<1>7. RefInv'
  <2> SUFFICES ASSUME "reference" \notin aged PROVE RefInv'
    BY <1>0 DEF RefInv
  <2>1. CASE entry' = entry /\ made' = made
    BY <1>0, <1>1, <2>1 DEF CacheInv, RefInv, Moved
  <2>2. CASE /\ entry' = [entry EXCEPT ![Ns(p)] = "valid"] /\ Ns(p) # "reference"
             /\ made' = made
    <3>1. entry'["reference"] = entry["reference"]
      BY <2>2 DEF TypeInv, Namespaces
    <3> QED BY <1>0, <1>1, <2>2, <3>1 DEF CacheInv, RefInv, Moved
  <2>3. CASE /\ entry' = [entry EXCEPT ![Ns(p)] = "valid"] /\ Ns(p) = "reference"
             /\ made' = made + 1
    <3>1. proc[p].kind = "reference"
      BY <2>3 DEF Ns, Namespace
    <3>2. entry["reference"] # "valid"
      BY <1>0, <3>1 DEF CacheInv, RefInv
    <3>3. made = 0
      BY <3>2 DEF CacheInv, RefInv, TypeInv
    <3>4. entry'["reference"] = "valid"
      BY <2>3 DEF TypeInv, Namespaces
    <3>5. ASSUME NEW q \in Procs, proc'[q].kind = "reference",
                 proc'[q].pc \in {"delete", "make", "store"}
          PROVE  FALSE
      <4>1. q # p /\ proc[q].kind = "reference" /\ proc[q].pc \in {"delete", "make", "store"}
        BY <1>1, <3>5 DEF Moved
      <4>2. Lk(q) = "reference" /\ Lk(p) = "reference"
        BY <3>1, <4>1 DEF Lk, LockOf, Namespace
      <4>3. lock["reference"].by = q
        BY <4>1, <4>2 DEF CacheInv, LockInv
      <4>4. lock["reference"].by = p
        BY <1>0, <3>1, <4>2 DEF CacheInv, LockInv
      <4> QED BY <4>1, <4>3, <4>4
    <3> QED BY <2>3, <3>3, <3>4, <3>5 DEF RefInv
  <2>4. CASE /\ entry' = [entry EXCEPT !["reference"] = "bad"] /\ made' = made
             /\ Ns(p) = "reference"
    <3>1. entry["reference"] # "valid"
      BY <1>0, <2>4 DEF Ns, Namespace, CacheInv, RefInv
    <3>2. made = 0 /\ entry'["reference"] = "bad"
      BY <2>4, <3>1 DEF CacheInv, RefInv, TypeInv, Namespaces
    <3> QED BY <2>4, <3>2 DEF RefInv
  <2> QED BY <1>2, <2>1, <2>2, <2>3, <2>4
<1> QED BY <1>4, <1>5, <1>6, <1>7 DEF CacheInv

\* A lock of a process that is gone becomes stale.
LEMMA LockAges ==
  ASSUME CacheInv, NEW n \in Namespaces, Age(n)
  PROVE  CacheInv'
<1>1. /\ entry' = entry /\ proc' = proc /\ made' = made /\ aged' = aged \cup {n}
      /\ lock' = [lock EXCEPT ![n].stale = TRUE]
  BY DEF Age
<1>2. /\ lock' \in [Namespaces -> [by : Procs \cup {None}, stale : BOOLEAN]]
      /\ \A m \in Namespaces : lock'[m].by = lock[m].by
      /\ \A m \in Namespaces \ {n} : lock'[m] = lock[m]
  BY <1>1 DEF CacheInv, TypeInv
<1>3. \A q \in Procs : Lk(q)' = Lk(q) /\ Lk(q) \in Namespaces
  BY <1>1, NamespaceType DEF Lk
<1>4. TypeInv' /\ KindInv' /\ RefInv'
  BY <1>1, <1>2 DEF CacheInv, TypeInv, KindInv, RefInv
<1>5. LockInv'
  BY <1>1, <1>2, <1>3 DEF CacheInv, LockInv, At
<1> QED BY <1>4, <1>5 DEF CacheInv

\* A stuttering step changes nothing.
LEMMA CacheStutters == CacheInv /\ UNCHANGED vars => CacheInv'
BY DEF vars, CacheInv, TypeInv, KindInv, LockInv, RefInv, At, Lk, LockOf

\* The invariant of the cache: who owns a fresh lock made the directory, and who is
\* about to make the reference has left no usable one, through every kill.
THEOREM CacheInvariant == Spec => []CacheInv
<1>1. CacheInv /\ [Next]_vars => CacheInv'
  BY JobMoves, JobBegins, LockTaken, LockRemoved, EntryDeleted, EntryStored, LockAges,
     CacheStutters DEF Next, Locking, Job
<1> QED BY InitInv, <1>1, PTL DEF Spec

\* At most one living process is in the locked part of an entry whose locks never
\* went stale, for any number of processes and kills: the locks of data_cache.py
\* are released by path, and still never free somebody else's.
THEOREM LockExcludes == Spec => []ExclusiveWhileFresh
<1>1. CacheInv => ExclusiveWhileFresh
  <2> SUFFICES ASSUME CacheInv, NEW n \in Namespaces, n \notin aged
               PROVE  Cardinality(Inside(n)) <= 1
    BY DEF ExclusiveWhileFresh
  <2> DEFINE h == lock[n].by
  <2>1. Inside(n) \subseteq {h}
    BY DEF Inside, CacheInv, LockInv, At
  <2>2. IsFiniteSet({h}) /\ Cardinality({h}) = 1
    BY FS_Singleton
  <2>3. IsFiniteSet(Inside(n)) /\ Cardinality(Inside(n)) <= Cardinality({h})
    BY <2>1, <2>2, FS_Subset
  <2> QED BY <2>2, <2>3
<1> QED BY <1>1, CacheInvariant, PTL

\* A usable reference of an entry is generated once and then kept, for any number of
\* processes that miss it at the same time, until a process that cannot load
\* references drops it.
THEOREM ReferenceOnce == Spec => []ReferenceMadeOnce
<1>1. CacheInv => ReferenceMadeOnce
  BY DEF CacheInv, RefInv, ReferenceMadeOnce
<1> QED BY <1>1, CacheInvariant, PTL

==============================================================================
