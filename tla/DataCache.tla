------------------------------ MODULE DataCache ------------------------------
(***************************************************************************)
(* The verifier's data cache: reference outputs and baseline times shared  *)
(* by processes through files, one lock directory per entry, and the jobs  *)
(* that use it while they hold devices.                                    *)
(*                                                                         *)
(*   "reference"  KernelVerifier.run: a device first, then the lock        *)
(*   "baseline"   profile_baseline_once: the lock first, then a device     *)
(*   "profile"    KernelVerifier.run_profile: the baseline entry, no lock  *)
(*                                                                         *)
(* One op, one cache key, so one entry and one lock per namespace.         *)
(***************************************************************************)
EXTENDS Integers, FiniteSets

CONSTANTS
  Procs,        \* processes, one job each
  Devices,      \* devices of the worker
  Blind,        \* processes whose PyTorch cannot load a reference safely
  MaxCrashes,   \* bound: processes killed
  None

ASSUME CacheAssumption ==
  /\ IsFiniteSet(Procs) /\ None \notin Procs /\ Blind \subseteq Procs
  /\ Devices \in Nat \ {0} /\ MaxCrashes \in Nat

VARIABLES
  entry,     \* namespace -> "none", "valid", or "bad" (older format, truncated,
             \* no inputs to reuse)
  lock,      \* namespace -> the lock directory: who made it, or None, and its age
  proc,      \* process -> its job
  free,      \* devices nobody holds
  crashes,   \* processes killed so far
  aged,      \* namespaces whose lock ever outlived the staleness limit (ghost)
  made       \* usable references stored since a blind process last dropped
             \* one (ghost)

vars == <<entry, lock, proc, free, crashes, aged, made>>

Namespaces == {"reference", "baseline"}
Kinds == {"reference", "baseline", "profile"}

NoLock == [by |-> None, stale |-> FALSE]
NoJob == [kind |-> "none", pc |-> "new", dev |-> FALSE, own |-> FALSE, hit |-> FALSE]

Init ==
  /\ entry \in [Namespaces -> {"none", "valid", "bad"}]
  /\ lock = [n \in Namespaces |-> NoLock]
  /\ proc = [p \in Procs |-> NoJob]
  /\ free = Devices
  /\ crashes = 0
  /\ aged = {}
  /\ made = 0

\* The namespace of the entry a job uses.
Namespace(kind) == IF kind = "reference" THEN "reference" ELSE "baseline"
Ns(p) == Namespace(proc[p].kind)

\* Mutant of LockOf: one lock serves both caches.
LockOfShared(kind) == IF kind = "none" THEN "baseline" ELSE "reference"

\* _cache_lock_dir: a lock per namespace, beside the entries.
LockOf(kind) == Namespace(kind)
Lk(p) == LockOf(proc[p].kind)

At(p, pc) == proc[p].pc = pc
Goto(p, pc) == proc' = [proc EXCEPT ![p].pc = pc]

-----------------------------------------------------------------------------
(***************************************************************************)
(* Devices.                                                                *)
(***************************************************************************)

TakeDevice(p, pc) ==
  /\ free > 0
  /\ free' = free - 1
  /\ proc' = [proc EXCEPT ![p] = [@ EXCEPT !.pc = pc, !.dev = TRUE]]

\* Leaving the job: the device goes back in a finally or by the exit stack.
Leave(p, pc) ==
  /\ free' = IF proc[p].dev THEN free + 1 ELSE free
  /\ proc' = [proc EXCEPT ![p] = [@ EXCEPT !.pc = pc, !.dev = FALSE]]

-----------------------------------------------------------------------------
(***************************************************************************)
(* verifier_data_cache_lock.                                               *)
(***************************************************************************)

\* Mutant of TryAcquire: mkdir with exist_ok.
TryAcquireExistOk(p) ==
  /\ At(p, "lock")
  /\ lock' = [lock EXCEPT ![Lk(p)] = [by |-> p, stale |-> FALSE]]
  /\ proc' = [proc EXCEPT ![p] = [@ EXCEPT !.pc = "check", !.own = TRUE]]
  /\ UNCHANGED <<entry, free, crashes, aged, made>>

\* _try_acquire_cache_lock: mkdir succeeds for one process.
TryAcquire(p) ==
  /\ At(p, "lock")
  /\ lock[Lk(p)].by = None
  /\ lock' = [lock EXCEPT ![Lk(p)] = [by |-> p, stale |-> FALSE]]
  /\ proc' = [proc EXCEPT ![p] = [@ EXCEPT !.pc = "check", !.own = TRUE]]
  /\ UNCHANGED <<entry, free, crashes, aged, made>>

\* _is_stale_lock: the directory is older than the limit.
SeeStale(p) ==
  /\ At(p, "lock")
  /\ lock[Lk(p)].by # None /\ lock[Lk(p)].stale
  /\ Goto(p, "steal")
  /\ UNCHANGED <<entry, lock, free, crashes, aged, made>>

\* _release_cache_lock of a lock seen as stale: whatever directory is there now.
Steal(p) ==
  /\ At(p, "steal")
  /\ lock' = [lock EXCEPT ![Lk(p)] = NoLock]
  /\ Goto(p, "lock")
  /\ UNCHANGED <<entry, free, crashes, aged, made>>

\* The wait for the lock timed out: the verify goes on without cached data, the
\* baseline is not measured.
LockTimeout(p) ==
  /\ At(p, "lock")
  /\ lock[Lk(p)].by # None
  /\ Goto(p, IF proc[p].kind = "reference" THEN "verify" ELSE "done")
  /\ UNCHANGED <<entry, lock, free, crashes, aged, made>>

\* Leaving the context manager: _release_cache_lock, whoever made the directory.
Unlock(p) ==
  /\ At(p, "unlock")
  /\ lock' = [lock EXCEPT ![Lk(p)] = NoLock]
  /\ proc' = [proc EXCEPT ![p] = [@ EXCEPT !.own = FALSE,
                !.pc = IF proc[p].kind = "reference" THEN "verify" ELSE "done"]]
  /\ UNCHANGED <<entry, free, crashes, aged, made>>

-----------------------------------------------------------------------------
(***************************************************************************)
(* The jobs.                                                               *)
(***************************************************************************)

\* A verify acquires its device before anything else.
StartReference(p) ==
  /\ At(p, "new")
  /\ proc' = [proc EXCEPT ![p] = [@ EXCEPT !.kind = "reference", !.pc = "device"]]
  /\ UNCHANGED <<entry, lock, free, crashes, aged, made>>

\* profile_baseline_once and _get_cached_baseline_time_us look before they lock or
\* take a device; an entry without a usable time is to be deleted.
AfterLook(kind) ==
  IF entry["baseline"] = "bad" THEN "purge"
  ELSE IF kind = "profile" THEN "device"
  ELSE IF entry["baseline"] = "valid" THEN "done" ELSE "lock"
StartBaseline(p) ==
  /\ At(p, "new")
  /\ \E kind \in {"baseline", "profile"} :
       proc' = [proc EXCEPT ![p] = [@ EXCEPT !.kind = kind, !.pc = AfterLook(kind),
                                             !.hit = entry["baseline"] = "valid"]]
  /\ UNCHANGED <<entry, lock, free, crashes, aged, made>>

\* delete_*_from_cache of the entry that was read as unusable, in the unlocked
\* look ("purge") or under the lock ("delete").
Delete(p) ==
  /\ At(p, "purge") \/ At(p, "delete")
  /\ entry' = [entry EXCEPT ![Ns(p)] = "none"]
  /\ made' = IF Ns(p) = "reference" /\ p \in Blind THEN 0 ELSE made
  /\ Goto(p, IF At(p, "delete") THEN "make"
             ELSE IF proc[p].kind = "profile" THEN "device" ELSE "lock")
  /\ UNCHANGED <<lock, free, crashes, aged>>

\* Mutant of Check: a miss seen before the lock is not looked up again.
CheckSkipped(p) ==
  /\ At(p, "check")
  /\ Goto(p, "make")
  /\ UNCHANGED <<entry, lock, free, crashes, aged, made>>

\* _is_valid_cached_reference_data, or a usable time: without torch, or with one
\* that knows no weights_only, every reference is unusable.
Usable(p) == entry[Ns(p)] = "valid" /\ (Ns(p) = "reference" => p \notin Blind)

\* The read under the lock.
Check(p) ==
  /\ At(p, "check")
  /\ Goto(p, IF entry[Ns(p)] = "none" THEN "make" ELSE IF Usable(p) THEN "unlock" ELSE "delete")
  /\ UNCHANGED <<entry, lock, free, crashes, aged, made>>

\* worker.acquire_device of a verify or profile; a baseline job selects a worker
\* and leases a device under its lock.
Acquire(p) ==
  /\ \/ At(p, "device")
        /\ TakeDevice(p, IF proc[p].kind = "reference" THEN "lock" ELSE "make")
     \/ At(p, "make") /\ ~proc[p].dev /\ TakeDevice(p, "make")
  /\ UNCHANGED <<entry, lock, crashes, aged, made>>

\* A baseline job that finds no worker, or whose lease fails, gives up.
NoWorker(p) ==
  /\ At(p, "make") /\ proc[p].kind = "baseline" /\ ~proc[p].dev
  /\ Goto(p, "unlock")
  /\ UNCHANGED <<entry, lock, free, crashes, aged, made>>

\* What the scripts of a worker leave behind: the exit status, the marker and the
\* .pt file of a reference, the time of a baseline.
ReferenceRun == [rc0 : BOOLEAN, marker : BOOLEAN, file : BOOLEAN]
BaselineRun == [rc0 : BOOLEAN, time : {"none", "zero", "us"}]

\* worker.generate_reference and worker.profile_single_task: what counts as a
\* result.  A lost connection or an exception counts as a failed script.
WorkerReference(run) == run.rc0 /\ run.marker /\ run.file
WorkerTime(run) == IF run.rc0 /\ run.time = "us" THEN "us" ELSE "none"

\* generate_reference_data under the lock, in a scratch directory of its own.
MakeReference(p) ==
  /\ At(p, "make") /\ proc[p].kind = "reference"
  /\ \E run \in ReferenceRun : Goto(p, IF WorkerReference(run) THEN "store" ELSE "unlock")
  /\ UNCHANGED <<entry, lock, free, crashes, aged, made>>

\* profile_single_task under the lock: a time that is not positive and finite is
\* refused, and the exit stack gives the device back before the lock.
MakeBaseline(p) ==
  /\ At(p, "make") /\ proc[p].kind = "baseline" /\ proc[p].dev
  /\ \E run \in BaselineRun :
       IF WorkerTime(run) = "us" THEN Goto(p, "store") /\ UNCHANGED free
       ELSE Leave(p, "unlock")
  /\ UNCHANGED <<entry, lock, crashes, aged, made>>

\* run_profile: times the base unless the entry was a hit.
MakeProfile(p) ==
  /\ At(p, "make") /\ proc[p].kind = "profile" /\ proc[p].dev
  /\ \/ ~proc[p].hit /\ Goto(p, "store") /\ UNCHANGED free
     \/ Leave(p, "done")
  /\ UNCHANGED <<entry, lock, crashes, aged, made>>

\* write_reference_data_to_cache and write_baseline_result_to_cache: an atomic
\* replace, or a failure that is only logged.  Nobody looks whether the reference
\* stored will pass the validation of the next reader; a time has been looked at.
\* The profile stores unlocked.
Store(p) ==
  /\ At(p, "store")
  /\ \/ /\ entry' = [entry EXCEPT ![Ns(p)] = "valid"]
        /\ made' = IF Ns(p) = "reference" THEN made + 1 ELSE made
     \/ /\ Ns(p) = "reference"
        /\ entry' = [entry EXCEPT !["reference"] = "bad"]
        /\ UNCHANGED made
     \/ UNCHANGED <<entry, made>>
  /\ CASE proc[p].kind = "reference" -> Goto(p, "unlock") /\ UNCHANGED free
       [] proc[p].kind = "baseline"  -> Leave(p, "unlock")
       [] proc[p].kind = "profile"   -> Leave(p, "done")
  /\ UNCHANGED <<lock, crashes, aged>>

\* The verify itself, with or without cached data, then its finally.
Verify(p) ==
  /\ At(p, "verify")
  /\ Leave(p, "done")
  /\ UNCHANGED <<entry, lock, crashes, aged, made>>

-----------------------------------------------------------------------------
(***************************************************************************)
(* The rest of the world.                                                  *)
(***************************************************************************)

\* A process is killed: its lock directory stays, its device is reclaimed.
Kill(p) ==
  /\ proc[p].pc \notin {"new", "done", "dead"}
  /\ crashes < MaxCrashes
  /\ crashes' = crashes + 1
  /\ Leave(p, "dead")
  /\ UNCHANGED <<entry, lock, aged, made>>

\* The limit of an hour passes for the lock of a process that is gone.
Age(n) ==
  /\ lock[n].by # None /\ ~lock[n].stale
  /\ At(lock[n].by, "dead")
  /\ lock' = [lock EXCEPT ![n].stale = TRUE]
  /\ aged' = aged \cup {n}
  /\ UNCHANGED <<entry, proc, free, crashes, made>>

Locking(p) == TryAcquire(p) \/ SeeStale(p) \/ Steal(p) \/ Unlock(p)
Job(p) ==
  \/ StartReference(p) \/ StartBaseline(p) \/ Delete(p) \/ Check(p) \/ Acquire(p)
  \/ MakeReference(p) \/ MakeBaseline(p) \/ MakeProfile(p) \/ Store(p)
  \/ Verify(p)

Next ==
  \/ \E p \in Procs : Locking(p) \/ Job(p) \/ LockTimeout(p) \/ NoWorker(p) \/ Kill(p)
  \/ \E n \in Namespaces : Age(n)

Spec == Init /\ [][Next]_vars

\* A living process goes on, and time passes for an abandoned lock.  No fairness
\* is put on timeouts and failures: they are the remedy, not the reason jobs end.
Fairness ==
  /\ \A p \in Procs : WF_vars(Locking(p) \/ Job(p))
  /\ \A n \in Namespaces : WF_vars(Age(n))
FairSpec == Spec /\ Fairness

-----------------------------------------------------------------------------
(***************************************************************************)
(* Properties.                                                             *)
(***************************************************************************)

\* Every variable stays in the domain the code gives it.
TypeOK ==
  /\ entry \in [Namespaces -> {"none", "valid", "bad"}]
  /\ lock \in [Namespaces -> [by : Procs \cup {None}, stale : BOOLEAN]]
  /\ proc \in [Procs -> [kind : Kinds \cup {"none"},
                 dev : BOOLEAN, own : BOOLEAN, hit : BOOLEAN,
                 pc : {"new", "device", "purge", "lock", "steal", "check", "delete",
                       "make", "store", "unlock", "verify", "done", "dead"}]]
  /\ free \in 0..Devices
  /\ crashes \in 0..MaxCrashes
  /\ aged \subseteq Namespaces
  /\ made \in Nat

\* Living processes inside the locked part of a namespace.
Inside(n) == {p \in Procs : proc[p].own /\ ~At(p, "dead") /\ Lk(p) = n}

\* As long as no lock of the entry outlived the limit, at most one process is in
\* its locked part: releases by path never free another process's lock.
ExclusiveWhileFresh ==
  \A n \in Namespaces : n \notin aged => Cardinality(Inside(n)) <= 1

\* A usable reference is generated once: a process that waited for the lock, or
\* comes later, finds what the first one stored, and nobody deletes it again on
\* the strength of an older look.  Only a process that cannot load references at
\* all drops it, and one is generated anew; a reference that passes nobody's
\* validation is generated again by each.
ReferenceMadeOnce ==
  "reference" \notin aged =>
    /\ made <= 1
    /\ made = 1 => entry["reference"] = "valid"

\* Verifies hold a device while they wait for a lock and baseline jobs hold a lock
\* while they wait for a device; still every job ends without any timeout.
JobsEnd == <>[](\A p \in Procs : proc[p].pc \in {"done", "dead"})

\* data_cache.py: the lock serialises the mutations of one entry across processes,
\* also after the process that held it died.
LockExclusive == \A n \in Namespaces : Cardinality(Inside(n)) <= 1
=============================================================================
