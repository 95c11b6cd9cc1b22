---------------------------- MODULE DevicePool -----------------------------
(***************************************************************************)
(* The lease-based device pool of a worker daemon, core/async_pool/        *)
(* device_pool.py.  No critical section of the pool awaits anything, so    *)
(* each operation is one step on the pool's state; DeviceLeases puts them  *)
(* into the handlers of the daemon.                                        *)
(*                                                                         *)
(* Deadlines are abstracted to a flag.  A lease whose deadline has passed  *)
(* is expired; it stays in the pool until the reaper's next scan and may   *)
(* still be renewed before that.  The free queue is a count per device: no *)
(* property depends on which free device is handed out first.              *)
(***************************************************************************)
EXTENDS Integers

CONSTANTS
    Devices,     \* device_list, without repetition
    TaskIds      \* owners that leases are taken under

ASSUME DevicesAssumption == Devices \subseteq Nat

VARIABLES
    free,        \* available_devices: how often a device is in the queue
    leases,      \* _leases: the lease of a device, NoLease if there is none
    seq          \* _lease_seq

pool == <<free, leases, seq>>

NoTask == "none"
NoLease == [owner |-> NoTask, id |-> 0, expired |-> FALSE]
Lease == [owner : TaskIds \cup {NoTask}, id : Nat, expired : BOOLEAN]

PoolTypeOK ==
    /\ free \in [Devices -> Nat]
    /\ leases \in [Devices -> Lease]
    /\ seq \in Nat

PoolInit ==
    /\ free = [d \in Devices |-> 1]
    /\ leases = [d \in Devices |-> NoLease]
    /\ seq = 0

Leased(d) == leases[d].id # 0

\* acquire_device, first half: the queue hands out a device.  The coroutine
\* resumes later, and until then the device is in neither place.
Dequeue(d) ==
    /\ free[d] > 0
    /\ free' = [free EXCEPT ![d] = @ - 1]
    /\ UNCHANGED <<leases, seq>>

\* Mutant of Stamp: a device's leases all carry the same token.
StampSameToken(d, owner) ==
    /\ seq' = seq + 1
    /\ leases' = [leases EXCEPT ![d] = [owner |-> owner, id |-> 1, expired |-> FALSE]]
    /\ UNCHANGED free

\* acquire_device, second half: a renewable lease under a new token.
Stamp(d, owner) ==
    /\ seq' = seq + 1
    /\ leases' = [leases EXCEPT ![d] =
                     [owner |-> owner, id |-> seq + 1, expired |-> FALSE]]
    /\ UNCHANGED free

\* acquire_device cancelled before the lease is stamped.
PutBack(d) ==
    /\ free' = [free EXCEPT ![d] = @ + 1]
    /\ UNCHANGED <<leases, seq>>

\* Mutant of ReleaseDevice: only the device is looked at, not the token.
ReleaseDeviceUnchecked(d, id) ==
    /\ IF Leased(d)
       THEN /\ leases' = [leases EXCEPT ![d] = NoLease]
            /\ free' = [free EXCEPT ![d] = @ + 1]
       ELSE UNCHANGED <<free, leases>>
    /\ UNCHANGED seq

\* Mutant of ReleaseDevice: a device that is not leased is queued again.
ReleaseDeviceTwice(d, id) ==
    /\ IF ~Leased(d) \/ leases[d].id = id
       THEN /\ leases' = [leases EXCEPT ![d] = NoLease]
            /\ free' = [free EXCEPT ![d] = @ + 1]
       ELSE UNCHANGED <<free, leases>>
    /\ UNCHANGED seq

\* release_device: a no-op unless the lease on the device is the one named.
ReleaseDevice(d, id) ==
    /\ IF Leased(d) /\ leases[d].id = id
       THEN /\ leases' = [leases EXCEPT ![d] = NoLease]
            /\ free' = [free EXCEPT ![d] = @ + 1]
       ELSE UNCHANGED <<free, leases>>
    /\ UNCHANGED seq

\* renew_lease returns True.
Renewable(d, id, owner) == Leased(d) /\ leases[d].id = id /\ leases[d].owner = owner

\* renew_lease: exactly one lease gets a new deadline.
RenewLease(d) ==
    /\ leases' = [leases EXCEPT ![d].expired = FALSE]
    /\ UNCHANGED <<free, seq>>

\* renew: every lease of the owner gets a new deadline.
Renew(owner) ==
    /\ leases' = [d \in Devices |->
                    IF leases[d].owner = owner
                    THEN [leases[d] EXCEPT !.expired = FALSE] ELSE leases[d]]
    /\ UNCHANGED <<free, seq>>

\* The deadline of a lease passes.
Lapse(d) ==
    /\ Leased(d) /\ ~leases[d].expired
    /\ leases' = [leases EXCEPT ![d].expired = TRUE]
    /\ UNCHANGED <<free, seq>>

\* One scan of _reap_loop: every expired lease is dropped, its device queued.
Reap ==
    /\ \E d \in Devices : leases[d].expired
    /\ leases' = [d \in Devices |-> IF leases[d].expired THEN NoLease ELSE leases[d]]
    /\ free' = [d \in Devices |-> IF leases[d].expired THEN free[d] + 1 ELSE free[d]]
    /\ UNCHANGED seq
=============================================================================
