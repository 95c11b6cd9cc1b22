--------------------------- MODULE DeviceLeases ----------------------------
(***************************************************************************)
(* The worker daemon (worker/server.py) and the clients that lease its     *)
(* devices over HTTP (core/worker/remote_worker.py).  A client acquires a  *)
(* device, sends requests whose scripts run on it, and releases it.  It    *)
(* may be killed at any point, connections break, and the daemon may be    *)
(* restarted; the handlers of the daemon run on after their client left.   *)
(***************************************************************************)
EXTENDS DevicePool

CONSTANTS
    Clients,         \* client coroutines
    Handlers,        \* bound: work requests the daemon handles at a time
    Modes,           \* how work requests name their lease, see Mode
    MaxLeases,       \* bound: leases a daemon hands out
    MaxDisconnects,  \* bound: work requests that lose their connection
    MaxRestarts      \* bound: restarts of the daemon

\* "exact": the request carries the token of its lease.  "owner": the request
\* of an older client, which only names the owner.  "other": the task id of
\* the request is derived from the owner's by a suffix (_profile_single,
\* _gen_ref), so that the client attaches no token and the daemon renews
\* the leases of an owner nobody is.
Mode == {"exact", "owner", "other"}

ASSUME LeasesAssumption ==
    /\ Modes \subseteq Mode
    /\ MaxLeases \in Nat
    /\ MaxDisconnects \in Nat
    /\ MaxRestarts \in Nat

NoDevice == -1
NoToken == [dev |-> NoDevice, id |-> 0, owner |-> NoTask]
NoAcquire == [step |-> "none", dev |-> NoDevice, id |-> 0, owner |-> NoTask]
NoWork == [mode |-> "none", client |-> "nobody", dev |-> NoDevice, id |-> 0,
           owner |-> NoTask, attached |-> FALSE]

VARIABLES
    at,           \* what a client is doing
    tok,          \* _active_lease of a client
    acq,          \* the acquire_device handler of a client, on the daemon
    work,         \* the work handlers of the daemon
    releases,     \* release_device requests under way
    disconnects,  \* work requests that lost their connection
    restarts      \* restarts of the daemon

faults == <<disconnects, restarts>>
vars == <<pool, at, tok, acq, work, releases, faults>>

Token == [dev : Devices \cup {NoDevice}, id : Nat, owner : TaskIds \cup {NoTask}]
AcquireHandler == [step : {"none", "waiting", "dequeued", "granted"},
                   dev : Devices \cup {NoDevice}, id : Nat,
                   owner : TaskIds \cup {NoTask}]
WorkHandler == [mode : Mode \cup {"none"}, client : Clients \cup {"nobody"},
                dev : Devices \cup {NoDevice}, id : Nat,
                owner : TaskIds \cup {NoTask}, attached : BOOLEAN]

TypeOK ==
    /\ PoolTypeOK
    /\ at \in [Clients -> {"idle", "acquiring", "holding", "working", "dead"}]
    /\ tok \in [Clients -> Token]
    /\ acq \in [Clients -> AcquireHandler]
    /\ work \in [Handlers -> WorkHandler]
    /\ releases \subseteq Token
    /\ disconnects \in Nat
    /\ restarts \in Nat

Init ==
    /\ PoolInit
    /\ at = [c \in Clients |-> "idle"]
    /\ tok = [c \in Clients |-> NoToken]
    /\ acq = [c \in Clients |-> NoAcquire]
    /\ work = [h \in Handlers |-> NoWork]
    /\ releases = {}
    /\ disconnects = 0 /\ restarts = 0

-----------------------------------------------------------------------------
(* Acquiring a device *)

\* RemoteWorker.acquire_device.  A client acquires again once the daemon is
\* done with the request it may have abandoned before.
RequestDevice(c, t) ==
    /\ at[c] = "idle" /\ acq[c].step = "none"
    /\ at' = [at EXCEPT ![c] = "acquiring"]
    /\ acq' = [acq EXCEPT ![c] = [NoAcquire EXCEPT !.step = "waiting", !.owner = t]]
    /\ UNCHANGED <<pool, tok, work, releases, faults>>

\* The queue serves a waiting handler.
HandOut(c, d) ==
    /\ acq[c].step = "waiting"
    /\ seq < MaxLeases
    /\ Dequeue(d)
    /\ acq' = [acq EXCEPT ![c] = [@ EXCEPT !.step = "dequeued", !.dev = d]]
    /\ UNCHANGED <<at, tok, work, releases, faults>>

\* The handler resumes and stamps the lease.
GrantLease(c) ==
    /\ acq[c].step = "dequeued"
    /\ Stamp(acq[c].dev, acq[c].owner)
    /\ acq' = [acq EXCEPT ![c] = [@ EXCEPT !.step = "granted", !.id = leases'[acq[c].dev].id]]
    /\ UNCHANGED <<at, tok, work, releases, faults>>

\* The handler is cancelled before it has stamped the lease.
CancelAcquire(c) ==
    /\ acq[c].step = "dequeued"
    /\ PutBack(acq[c].dev)
    /\ acq' = [acq EXCEPT ![c] = NoAcquire]
    /\ at' = [at EXCEPT ![c] = IF @ = "acquiring" THEN "idle" ELSE @]
    /\ UNCHANGED <<tok, work, releases, faults>>

\* No device within the client's budget: 503, and the client's job fails.
AcquireTimeout(c) ==
    /\ acq[c].step = "waiting"
    /\ acq' = [acq EXCEPT ![c] = NoAcquire]
    /\ at' = [at EXCEPT ![c] = IF @ = "acquiring" THEN "idle" ELSE @]
    /\ UNCHANGED <<pool, tok, work, releases, faults>>

\* The response of acquire_device arrives.
ReceiveLease(c) ==
    /\ acq[c].step = "granted" /\ at[c] = "acquiring"
    /\ at' = [at EXCEPT ![c] = "holding"]
    /\ tok' = [tok EXCEPT ![c] = [dev |-> acq[c].dev, id |-> acq[c].id,
                                  owner |-> acq[c].owner]]
    /\ acq' = [acq EXCEPT ![c] = NoAcquire]
    /\ UNCHANGED <<pool, work, releases, faults>>

\* The connection breaks while the client waits; the handler runs on.
AbandonAcquire(c) ==
    /\ at[c] = "acquiring"
    /\ at' = [at EXCEPT ![c] = "idle"]
    /\ UNCHANGED <<pool, tok, acq, work, releases, faults>>

\* The response of acquire_device has nobody to go to.
DropLease(c) ==
    /\ acq[c].step = "granted" /\ at[c] # "acquiring"
    /\ acq' = [acq EXCEPT ![c] = NoAcquire]
    /\ UNCHANGED <<pool, at, tok, work, releases, faults>>

-----------------------------------------------------------------------------
(* Work requests: verify, profile, profile_single_task, generate_reference *)

\* Mutant of EnterKeepalive: the first renewal waits for the first beat.
EnterKeepaliveLate(mode, t) ==
    /\ mode = "exact" => Renewable(t.dev, t.id, t.owner)
    /\ UNCHANGED pool

\* Mutant of EnterKeepalive: a stale token is let through.
EnterKeepaliveUnchecked(mode, t) ==
    CASE mode = "exact" -> IF Renewable(t.dev, t.id, t.owner) THEN RenewLease(t.dev)
                           ELSE UNCHANGED pool
      [] mode = "owner" -> Renew(t.owner)
      [] OTHER -> UNCHANGED pool

\* The renewal on entry to DevicePool.keepalive.  A stale token is answered
\* with 409 before the script starts, which changes nothing.
EnterKeepalive(mode, t) ==
    CASE mode = "exact" -> Renewable(t.dev, t.id, t.owner) /\ RenewLease(t.dev)
      [] mode = "owner" -> Renew(t.owner)
      [] OTHER -> UNCHANGED pool

\* A work request arrives and its script starts on the device of the lease
\* the client holds, which is written into the script.
StartWork(c, h, mode) ==
    /\ at[c] = "holding" /\ work[h].mode = "none"
    /\ EnterKeepalive(mode, tok[c])
    /\ work' = [work EXCEPT ![h] =
                  [mode |-> mode, client |-> c, dev |-> tok[c].dev, id |-> tok[c].id,
                   owner |-> tok[c].owner, attached |-> TRUE]]
    /\ at' = [at EXCEPT ![c] = "working"]
    /\ UNCHANGED <<tok, acq, releases, faults>>

\* The script ends, by itself or at its wall clock cap.
FinishWork(h) ==
    /\ work[h].mode # "none"
    /\ at' = [c \in Clients |->
                IF c = work[h].client /\ work[h].attached /\ at[c] = "working"
                THEN "holding" ELSE at[c]]
    /\ work' = [work EXCEPT ![h] = NoWork]
    /\ UNCHANGED <<pool, tok, acq, releases, faults>>

\* A network error or read timeout ends the request for the client; the
\* handler and its script run on.
Disconnect(h) ==
    /\ work[h].mode # "none" /\ work[h].attached
    /\ at[work[h].client] = "working"
    /\ disconnects < MaxDisconnects
    /\ disconnects' = disconnects + 1
    /\ work' = [work EXCEPT ![h].attached = FALSE]
    /\ at' = [at EXCEPT ![work[h].client] = "holding"]
    /\ UNCHANGED <<pool, tok, acq, releases, restarts>>

\* Mutant of Covered: any request of the owner keeps all of its leases alive.
CoveredByOwner(d) ==
    \E h \in Handlers : work[h].mode # "none" /\ work[h].owner = leases[d].owner

\* Some running handler beats for the lease of d: every third of the TTL.
Covered(d) ==
    \E h \in Handlers :
        \/ /\ work[h].mode = "exact"
           /\ work[h].dev = d /\ Renewable(d, work[h].id, work[h].owner)
        \/ work[h].mode = "owner" /\ work[h].owner = leases[d].owner

\* A lease expires once a TTL has passed without a renewal.
Expire(d) ==
    /\ ~Covered(d)
    /\ Lapse(d)
    /\ UNCHANGED <<at, tok, acq, work, releases, faults>>

ReapScan ==
    /\ Reap
    /\ UNCHANGED <<at, tok, acq, work, releases, faults>>

-----------------------------------------------------------------------------
(* Releasing a device, crashes and restarts *)

\* device_lease's finally: the client asks for the release and goes on,
\* whether or not an answer comes within the release timeout.
RequestRelease(c) ==
    /\ at[c] = "holding"
    /\ releases' = releases \cup {tok[c]}
    /\ tok' = [tok EXCEPT ![c] = NoToken]
    /\ at' = [at EXCEPT ![c] = "idle"]
    /\ UNCHANGED <<pool, acq, work, faults>>

DeliverRelease(t) ==
    /\ t \in releases
    /\ ReleaseDevice(t.dev, t.id)
    /\ releases' = releases \ {t}
    /\ UNCHANGED <<at, tok, acq, work, faults>>

\* The request never reaches the daemon; the client only logs that.
LoseRelease(t) ==
    /\ t \in releases
    /\ releases' = releases \ {t}
    /\ UNCHANGED <<pool, at, tok, acq, work, faults>>

\* The client process is killed; nothing is released.
Die(c) ==
    /\ at[c] # "dead"
    /\ at' = [at EXCEPT ![c] = "dead"]
    /\ tok' = [tok EXCEPT ![c] = NoToken]
    /\ UNCHANGED <<pool, acq, work, releases, faults>>

\* The daemon is restarted: a new pool whose tokens start at 1 again, the
\* scripts of its predecessor are killed, the clients see broken connections.
Restart ==
    /\ restarts < MaxRestarts
    /\ restarts' = restarts + 1
    /\ free' = [d \in Devices |-> 1]
    /\ leases' = [d \in Devices |-> NoLease]
    /\ seq' = 0
    /\ acq' = [c \in Clients |-> NoAcquire]
    /\ work' = [h \in Handlers |-> NoWork]
    /\ at' = [c \in Clients |-> CASE at[c] = "acquiring" -> "idle"
                                  [] at[c] = "working"   -> "holding"
                                  [] OTHER               -> at[c]]
    /\ UNCHANGED <<tok, releases, disconnects>>

-----------------------------------------------------------------------------

Acquiring(c) ==
    \/ \E t \in TaskIds : RequestDevice(c, t)
    \/ \E d \in Devices : HandOut(c, d)
    \/ GrantLease(c) \/ CancelAcquire(c) \/ AcquireTimeout(c)
    \/ ReceiveLease(c) \/ AbandonAcquire(c) \/ DropLease(c)

Working ==
    \/ \E c \in Clients, h \in Handlers, m \in Modes : StartWork(c, h, m)
    \/ \E h \in Handlers : FinishWork(h) \/ Disconnect(h)

Next ==
    \/ \E c \in Clients : Acquiring(c) \/ RequestRelease(c) \/ Die(c)
    \/ Working
    \/ \E d \in Devices : Expire(d)
    \/ ReapScan
    \/ \E t \in releases : DeliverRelease(t) \/ LoseRelease(t)
    \/ Restart

Spec == Init /\ [][Next]_vars

\* Time passes, the reaper scans, and every handler of the daemon comes to its
\* end: waits and scripts have wall clock caps.  Nothing is assumed of the
\* clients or of the network.
Fairness ==
    /\ \A d \in Devices : WF_vars(Expire(d))
    /\ WF_vars(ReapScan)
    /\ \A h \in Handlers : WF_vars(FinishWork(h))
    /\ \A c \in Clients : WF_vars(GrantLease(c)) /\ WF_vars(DropLease(c))

FairSpec == Spec /\ Fairness

-----------------------------------------------------------------------------
(* Properties *)

InHand(c, d) == acq[c].step = "dequeued" /\ acq[c].dev = d

\* A device is queued once, leased, or in the hand of one acquire handler, and
\* always exactly one of these: no order of releases, reaper scans, lost
\* answers and restarts queues it twice or loses it.
DevicesConserved ==
    \A d \in Devices :
        /\ free[d] \in {0, 1}
        /\ free[d] = 1 => ~Leased(d)
        /\ free[d] = 1 \/ Leased(d) => \A c \in Clients : ~InHand(c, d)
        /\ free[d] = 0 /\ ~Leased(d) => \E c \in Clients : InHand(c, d)
        /\ \A c1, c2 \in Clients : InHand(c1, d) /\ InHand(c2, d) => c1 = c2

Keeps(h) ==
    /\ leases[work[h].dev].id = work[h].id
    /\ leases[work[h].dev].owner = work[h].owner

\* While a request that carries its token runs, its device is not taken away:
\* not by the reaper, not by a late release, not when the client is killed.
TokenKeepsLease ==
    \A h \in Handlers : work[h].mode = "exact" /\ work[h].attached => Keeps(h)

\* A late release of a superseded lease cannot free the device that its
\* successor holds: no release under way matches the lease a client still has.
LateReleaseFreesNothing ==
    \A t \in releases, c \in Clients :
        /\ t.id = leases[t.dev].id
        /\ tok[c].dev = t.dev
        => tok[c].id # t.id

\* A lease ends by a release that names it, or by the reaper once it expired.
LeaseEndsRightly ==
    [][\A d \in Devices :
         Leased(d) /\ leases'[d].id # leases[d].id =>
            \/ leases[d].expired
            \/ \E t \in releases : t.dev = d /\ t.id = leases[d].id]_vars

\* Two scripts never run on one device at the same time.
OneScriptPerDevice ==
    \A g, h \in Handlers :
        /\ g # h
        /\ work[g].mode # "none" /\ work[h].mode # "none"
        => work[g].dev # work[h].dev

\* The device of a client that was killed comes back, even while a sibling
\* under the same task id keeps working.
DeadClientReclaimed ==
    \A d \in Devices : \A i \in 1 .. MaxLeases :
        /\ leases[d].id = i
        /\ \A c \in Clients : at[c] # "dead" => tok[c].id # i /\ acq[c].id # i
        ~> leases[d].id # i

(* Statements of the documentation that the code does not keep *)

\* device_pool.py: a work request's holder is never reaped mid-flight.
WorkKeepsLease == \A h \in Handlers : work[h].attached => Keeps(h)

=============================================================================
