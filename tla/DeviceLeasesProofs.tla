------------------------- MODULE DeviceLeasesProofs -------------------------
(***************************************************************************)
(* Proofs about DeviceLeases, for any set of devices, clients, handlers    *)
(* and task ids, and for any bounds.                                       *)
(***************************************************************************)
EXTENDS DeviceLeases, TLAPS

\* What the types leave open: where a device number is known to be one, and
\* that a device without a lease has no trace of an old one.
ShapeInv ==
    /\ \A d \in Devices : leases[d].id = 0 => ~leases[d].expired
    /\ \A c \in Clients : acq[c].step \in {"dequeued", "granted"} => acq[c].dev \in Devices
    /\ \A c \in Clients : at[c] \in {"holding", "working"} => tok[c].dev \in Devices
    /\ \A t \in releases : t.dev \in Devices

PoolInv == TypeOK /\ ShapeInv /\ DevicesConserved

-----------------------------------------------------------------------------
(* While the daemon is not restarted, tokens are unique.                   *)

\* No token is ahead of the counter, so the next one is new.
Counted ==
    /\ \A c \in Clients : tok[c].id <= seq /\ acq[c].id <= seq
    /\ \A t \in releases : t.id <= seq
    /\ \A h \in Handlers : work[h].id <= seq

\* A token is with one client, with one handler of acquire_device, or under
\* way in a release, and never with two of them.
TokenOnce ==
    /\ \A c \in Clients : at[c] \in {"holding", "working"} => tok[c].id # 0
    /\ \A c \in Clients : (acq[c].step = "granted") <=> acq[c].id # 0
    /\ \A t \in releases : t.id # 0
    /\ \A b, c \in Clients : tok[b].id # 0 /\ tok[b].id = tok[c].id => b = c
    /\ \A b, c \in Clients : acq[b].id # 0 /\ acq[b].id = acq[c].id => b = c
    /\ \A b, c \in Clients : acq[b].id # 0 => acq[b].id # tok[c].id
    /\ \A t \in releases, c \in Clients : t.id # tok[c].id /\ t.id # acq[c].id

\* The token of a request that is attached to its client is with that client,
\* or with nobody if the client was killed.
AttachedInv ==
    \A h \in Handlers : work[h].attached =>
        /\ work[h].mode # "none" /\ work[h].client \in Clients
        /\ work[h].id # 0 /\ work[h].dev \in Devices
        /\ at[work[h].client] \in {"working", "dead"}
        /\ at[work[h].client] = "working" => tok[work[h].client].id = work[h].id
        /\ \A c \in Clients : tok[c].id = work[h].id => c = work[h].client
        /\ \A c \in Clients : acq[c].id # work[h].id
        /\ \A t \in releases : t.id # work[h].id
        /\ \A g \in Handlers :
              work[g].attached /\ work[g].client = work[h].client => g = h

\* A request that carries its token has a lease, and a fresh one.
KeptFresh ==
    \A h \in Handlers : work[h].mode = "exact" /\ work[h].attached =>
        Keeps(h) /\ ~leases[work[h].dev].expired

TokenInv == restarts = 0 /\ Counted /\ TokenOnce /\ AttachedInv /\ KeptFresh

-----------------------------------------------------------------------------

\* The values that stand for no lease, no token and no handler have the types.
LEMMA NoneTypes ==
    /\ NoLease \in Lease
    /\ NoToken \in Token
    /\ NoAcquire \in AcquireHandler
    /\ NoWork \in WorkHandler
  BY DEF NoLease, NoToken, NoAcquire, NoWork, NoDevice, NoTask, Lease, Token,
         AcquireHandler, WorkHandler

\* The initial state satisfies both invariants.
LEMMA InitInv == Init => PoolInv /\ TokenInv
<1> SUFFICES ASSUME Init PROVE PoolInv /\ TokenInv
    OBVIOUS
<1>1. TypeOK
  BY NoneTypes DEF Init, PoolInit, TypeOK, PoolTypeOK
<1>2. ShapeInv
  BY DEF Init, PoolInit, ShapeInv, NoLease, NoAcquire
<1>3. DevicesConserved
  <2>1. \A d \in Devices : free[d] = 1 /\ ~Leased(d)
    BY DEF Init, PoolInit, Leased, NoLease
  <2>2. \A c \in Clients, d \in Devices : ~InHand(c, d)
    BY DEF Init, InHand, NoAcquire
  <2> QED
    <3> SUFFICES ASSUME NEW d \in Devices
                 PROVE  /\ free[d] \in {0, 1}
                        /\ free[d] = 1 => ~Leased(d)
                        /\ free[d] = 1 \/ Leased(d) => \A c \in Clients : ~InHand(c, d)
                        /\ free[d] = 0 /\ ~Leased(d) => \E c \in Clients : InHand(c, d)
                        /\ \A c1, c2 \in Clients : InHand(c1, d) /\ InHand(c2, d) => c1 = c2
      BY DEF DevicesConserved
    <3>1. free[d] = 1 /\ ~Leased(d)
      BY <2>1
    <3>2. \A c \in Clients : ~InHand(c, d)
      BY <2>2
    <3> QED
      BY <3>1, <3>2
<1>4. restarts = 0 /\ Counted /\ TokenOnce
  BY DEF Init, PoolInit, Counted, TokenOnce, NoToken, NoAcquire, NoWork
<1>5. AttachedInv /\ KeptFresh
  BY DEF Init, AttachedInv, KeptFresh, NoWork
<1> QED
  BY <1>1, <1>2, <1>3, <1>4, <1>5 DEF PoolInv, TokenInv

\* Every step preserves the types.
LEMMA TypeStep == PoolInv /\ [Next]_vars => TypeOK'
<1> SUFFICES ASSUME PoolInv, [Next]_vars PROVE TypeOK'
    OBVIOUS
<1>1. ASSUME NEW c \in Clients, NEW t \in TaskIds, RequestDevice(c, t) PROVE TypeOK'
  <2>1. [NoAcquire EXCEPT !.step = "waiting", !.owner = t] \in AcquireHandler
    BY DEF NoAcquire, NoDevice, NoTask, AcquireHandler
  <2> QED
    BY <1>1, <2>1 DEF RequestDevice, PoolInv, TypeOK, PoolTypeOK, pool, faults
<1>2. ASSUME NEW c \in Clients, NEW d \in Devices, HandOut(c, d) PROVE TypeOK'
  <2>1. free' \in [Devices -> Nat]
    BY <1>2 DEF HandOut, Dequeue, PoolInv, TypeOK, PoolTypeOK
  <2>2. acq' \in [Clients -> AcquireHandler]
    BY <1>2 DEF HandOut, PoolInv, TypeOK, AcquireHandler
  <2> QED
    BY <1>2, <2>1, <2>2 DEF HandOut, Dequeue, PoolInv, TypeOK, PoolTypeOK, faults
<1>3. ASSUME NEW c \in Clients, GrantLease(c) PROVE TypeOK'
  <2>1. acq[c].dev \in Devices /\ acq[c].owner \in TaskIds \cup {NoTask} /\ seq + 1 \in Nat
    BY <1>3 DEF GrantLease, PoolInv, ShapeInv, TypeOK, PoolTypeOK, AcquireHandler
  <2>2. leases' = [leases EXCEPT ![acq[c].dev] =
                      [owner |-> acq[c].owner, id |-> seq + 1, expired |-> FALSE]]
    BY <1>3 DEF GrantLease, Stamp
  <2>3. leases' \in [Devices -> Lease] /\ leases'[acq[c].dev].id = seq + 1
    BY <2>1, <2>2 DEF PoolInv, TypeOK, PoolTypeOK, Lease
  <2>4. acq' \in [Clients -> AcquireHandler]
    <3>1. acq' = [acq EXCEPT ![c] = [acq[c] EXCEPT !.step = "granted", !.id = seq + 1]]
      BY <1>3, <2>3 DEF GrantLease, PoolInv, TypeOK
    <3>2. [acq[c] EXCEPT !.step = "granted", !.id = seq + 1] \in AcquireHandler
      BY <2>1 DEF PoolInv, TypeOK, AcquireHandler
    <3> QED
      BY <3>1, <3>2 DEF PoolInv, TypeOK
  <2> QED
    BY <1>3, <2>1, <2>3, <2>4 DEF GrantLease, Stamp, PoolInv, TypeOK, PoolTypeOK, faults
<1>4. ASSUME NEW c \in Clients, CancelAcquire(c) PROVE TypeOK'
  <2>1. acq[c].dev \in Devices
    BY <1>4 DEF CancelAcquire, PoolInv, ShapeInv
  <2>2. free' \in [Devices -> Nat]
    BY <1>4, <2>1 DEF CancelAcquire, PutBack, PoolInv, TypeOK, PoolTypeOK
  <2> QED
    BY <1>4, <2>2, NoneTypes DEF CancelAcquire, PutBack, PoolInv, TypeOK, PoolTypeOK, faults
<1>5. ASSUME NEW c \in Clients, AcquireTimeout(c) PROVE TypeOK'
  BY <1>5, NoneTypes DEF AcquireTimeout, PoolInv, TypeOK, PoolTypeOK, pool, faults
<1>6. ASSUME NEW c \in Clients, ReceiveLease(c) PROVE TypeOK'
  <2>1. [dev |-> acq[c].dev, id |-> acq[c].id, owner |-> acq[c].owner] \in Token
    BY DEF PoolInv, TypeOK, AcquireHandler, Token
  <2> QED
    BY <1>6, <2>1, NoneTypes DEF ReceiveLease, PoolInv, TypeOK, PoolTypeOK, pool, faults
<1>7. ASSUME NEW c \in Clients, AbandonAcquire(c) PROVE TypeOK'
  BY <1>7 DEF AbandonAcquire, PoolInv, TypeOK, PoolTypeOK, pool, faults
<1>8. ASSUME NEW c \in Clients, DropLease(c) PROVE TypeOK'
  BY <1>8, NoneTypes DEF DropLease, PoolInv, TypeOK, PoolTypeOK, pool, faults
<1>9. ASSUME NEW c \in Clients, RequestRelease(c) PROVE TypeOK'
  BY <1>9, NoneTypes DEF RequestRelease, PoolInv, TypeOK, PoolTypeOK, pool, faults
<1>10. ASSUME NEW c \in Clients, Die(c) PROVE TypeOK'
  BY <1>10, NoneTypes DEF Die, PoolInv, TypeOK, PoolTypeOK, pool, faults
<1>11. ASSUME NEW c \in Clients, NEW h \in Handlers, NEW m \in Modes, StartWork(c, h, m)
      PROVE  TypeOK'
  <2>1. tok[c] \in Token /\ tok[c].dev \in Devices
    BY <1>11 DEF StartWork, PoolInv, ShapeInv, TypeOK
  <2>2. PoolTypeOK'
    <3>1. CASE m = "exact"
      <4>1. free' = free /\ seq' = seq
            /\ leases' = [leases EXCEPT ![tok[c].dev].expired = FALSE]
        BY <1>11, <3>1 DEF StartWork, EnterKeepalive, RenewLease
      <4>2. leases' \in [Devices -> Lease]
        BY <2>1, <4>1 DEF PoolInv, TypeOK, PoolTypeOK, Lease
      <4> QED
        BY <4>1, <4>2 DEF PoolInv, TypeOK, PoolTypeOK
    <3>2. CASE m = "owner"
      <4>1. \A d \in Devices : [leases[d] EXCEPT !.expired = FALSE] \in Lease
        BY DEF PoolInv, TypeOK, PoolTypeOK, Lease
      <4>2. free' = free /\ seq' = seq
            /\ leases' = [d \in Devices |-> IF leases[d].owner = tok[c].owner
                            THEN [leases[d] EXCEPT !.expired = FALSE] ELSE leases[d]]
        BY <1>11, <3>2 DEF StartWork, EnterKeepalive, Renew
      <4> QED
        BY <4>1, <4>2 DEF PoolInv, TypeOK, PoolTypeOK
    <3>3. CASE m # "exact" /\ m # "owner"
      BY <1>11, <3>3 DEF StartWork, EnterKeepalive, pool, PoolInv, TypeOK, PoolTypeOK
    <3> QED
      BY <3>1, <3>2, <3>3
  <2>3. [mode |-> m, client |-> c, dev |-> tok[c].dev, id |-> tok[c].id,
         owner |-> tok[c].owner, attached |-> TRUE] \in WorkHandler
    BY <1>11, <2>1, LeasesAssumption DEF WorkHandler, Token
  <2> QED
    BY <1>11, <2>2, <2>3 DEF StartWork, PoolInv, TypeOK, faults
<1>12. ASSUME NEW h \in Handlers, FinishWork(h) PROVE TypeOK'
  BY <1>12, NoneTypes DEF FinishWork, PoolInv, TypeOK, PoolTypeOK, pool, faults
<1>13. ASSUME NEW h \in Handlers, Disconnect(h) PROVE TypeOK'
  <2>1. work' \in [Handlers -> WorkHandler]
    <3>1. work' = [work EXCEPT ![h] = [work[h] EXCEPT !.attached = FALSE]]
      BY <1>13 DEF Disconnect, PoolInv, TypeOK
    <3>2. [work[h] EXCEPT !.attached = FALSE] \in WorkHandler
      BY DEF PoolInv, TypeOK, WorkHandler
    <3> QED
      BY <3>1, <3>2 DEF PoolInv, TypeOK
  <2>2. at' \in [Clients -> {"idle", "acquiring", "holding", "working", "dead"}]
    BY <1>13 DEF Disconnect, PoolInv, TypeOK
  <2>3. disconnects' \in Nat
    BY <1>13 DEF Disconnect, PoolInv, TypeOK
  <2> QED
    BY <1>13, <2>1, <2>2, <2>3 DEF Disconnect, PoolInv, TypeOK, PoolTypeOK, pool
<1>14. ASSUME NEW d \in Devices, Expire(d) PROVE TypeOK'
  <2>1. leases' \in [Devices -> Lease]
    BY <1>14 DEF Expire, Lapse, PoolInv, TypeOK, PoolTypeOK, Lease
  <2> QED
    BY <1>14, <2>1 DEF Expire, Lapse, PoolInv, TypeOK, PoolTypeOK, faults
<1>15. ASSUME ReapScan PROVE TypeOK'
  <2>1. PoolTypeOK'
    BY <1>15, NoneTypes DEF ReapScan, Reap, PoolInv, TypeOK, PoolTypeOK
  <2> QED
    BY <1>15, <2>1 DEF ReapScan, PoolInv, TypeOK, faults
<1>16. ASSUME NEW t \in releases, DeliverRelease(t) PROVE TypeOK'
  <2>1. t.dev \in Devices
    BY <1>16 DEF PoolInv, ShapeInv
  <2>2. PoolTypeOK'
    BY <1>16, <2>1, NoneTypes DEF DeliverRelease, ReleaseDevice, PoolInv, TypeOK, PoolTypeOK
  <2> QED
    BY <1>16, <2>2 DEF DeliverRelease, PoolInv, TypeOK, faults
<1>17. ASSUME NEW t \in releases, LoseRelease(t) PROVE TypeOK'
  BY <1>17 DEF LoseRelease, PoolInv, TypeOK, PoolTypeOK, pool, faults
<1>18. ASSUME Restart PROVE TypeOK'
  BY <1>18, NoneTypes DEF Restart, PoolInv, TypeOK, PoolTypeOK, pool, faults
<1>19. CASE UNCHANGED vars
  BY <1>19 DEF vars, pool, faults, PoolInv, TypeOK, PoolTypeOK
<1> QED
  BY <1>1, <1>2, <1>3, <1>4, <1>5, <1>6, <1>7, <1>8, <1>9, <1>10, <1>11, <1>12, <1>13,
      <1>14, <1>15, <1>16, <1>17, <1>18, <1>19 DEF Next, Acquiring, Working

\* Every step keeps device numbers where they are used.
LEMMA ShapeStep == PoolInv /\ [Next]_vars => ShapeInv'
<1> SUFFICES ASSUME PoolInv, [Next]_vars PROVE ShapeInv'
    OBVIOUS
<1>1. ASSUME NEW c \in Clients, NEW t \in TaskIds, RequestDevice(c, t) PROVE ShapeInv'
  BY <1>1 DEF RequestDevice, PoolInv, ShapeInv, TypeOK, PoolTypeOK, Token, Lease,
      AcquireHandler, pool, faults, NoAcquire, NoDevice, NoTask
<1>2. ASSUME NEW c \in Clients, NEW d \in Devices, HandOut(c, d) PROVE ShapeInv'
  BY <1>2 DEF HandOut, PoolInv, ShapeInv, TypeOK, PoolTypeOK, Token, Lease, AcquireHandler,
      pool, faults, Dequeue
<1>3. ASSUME NEW c \in Clients, GrantLease(c) PROVE ShapeInv'
  BY <1>3 DEF GrantLease, PoolInv, ShapeInv, TypeOK, PoolTypeOK, Token, Lease,
      AcquireHandler, pool, faults, Stamp
<1>4. ASSUME NEW c \in Clients, CancelAcquire(c) PROVE ShapeInv'
  BY <1>4 DEF CancelAcquire, PoolInv, ShapeInv, TypeOK, PoolTypeOK, Token, Lease,
      AcquireHandler, pool, faults, PutBack, NoAcquire, NoDevice, NoTask
<1>5. ASSUME NEW c \in Clients, AcquireTimeout(c) PROVE ShapeInv'
  BY <1>5 DEF AcquireTimeout, PoolInv, ShapeInv, TypeOK, PoolTypeOK, Token, Lease,
      AcquireHandler, pool, faults, NoAcquire, NoDevice, NoTask
<1>6. ASSUME NEW c \in Clients, ReceiveLease(c) PROVE ShapeInv'
  BY <1>6 DEF ReceiveLease, PoolInv, ShapeInv, TypeOK, PoolTypeOK, Token, Lease,
      AcquireHandler, pool, faults, NoAcquire, NoDevice, NoTask
<1>7. ASSUME NEW c \in Clients, AbandonAcquire(c) PROVE ShapeInv'
  BY <1>7 DEF AbandonAcquire, PoolInv, ShapeInv, TypeOK, PoolTypeOK, Token, Lease,
      AcquireHandler, pool, faults
<1>8. ASSUME NEW c \in Clients, DropLease(c) PROVE ShapeInv'
  BY <1>8 DEF DropLease, PoolInv, ShapeInv, TypeOK, PoolTypeOK, Token, Lease,
      AcquireHandler, pool, faults, NoAcquire, NoDevice, NoTask
<1>9. ASSUME NEW c \in Clients, RequestRelease(c) PROVE ShapeInv'
  BY <1>9 DEF RequestRelease, PoolInv, ShapeInv, TypeOK, PoolTypeOK, Token, Lease,
      AcquireHandler, pool, faults, NoToken, NoDevice, NoTask
<1>10. ASSUME NEW c \in Clients, Die(c) PROVE ShapeInv'
  BY <1>10 DEF Die, PoolInv, ShapeInv, TypeOK, PoolTypeOK, Token, Lease, AcquireHandler,
      pool, faults, NoToken, NoDevice, NoTask
<1>11. ASSUME NEW c \in Clients, NEW h \in Handlers, NEW m \in Modes, StartWork(c, h, m)
      PROVE  ShapeInv'
  BY <1>11 DEF StartWork, PoolInv, ShapeInv, TypeOK, PoolTypeOK, Token, Lease,
      AcquireHandler, pool, faults, EnterKeepalive, RenewLease, Renew, Renewable
<1>12. ASSUME NEW h \in Handlers, FinishWork(h) PROVE ShapeInv'
  BY <1>12 DEF FinishWork, PoolInv, ShapeInv, TypeOK, PoolTypeOK, Token, Lease,
      AcquireHandler, pool, faults, NoWork, NoDevice, NoTask
<1>13. ASSUME NEW h \in Handlers, Disconnect(h) PROVE ShapeInv'
  BY <1>13 DEF Disconnect, PoolInv, ShapeInv, TypeOK, PoolTypeOK, Token, Lease,
      AcquireHandler, pool, faults
<1>14. ASSUME NEW d \in Devices, Expire(d) PROVE ShapeInv'
  <2>1. /\ acq' = acq /\ at' = at /\ tok' = tok /\ releases' = releases
        /\ \A e \in Devices : leases'[e].id = leases[e].id
        /\ \A e \in Devices : e # d => leases'[e] = leases[e]
        /\ leases[d].id # 0
    BY <1>14 DEF Expire, Lapse, Leased, PoolInv, TypeOK, PoolTypeOK, Lease
  <2> QED
    BY <2>1 DEF PoolInv, ShapeInv
<1>15. ASSUME ReapScan PROVE ShapeInv'
  BY <1>15 DEF ReapScan, PoolInv, ShapeInv, TypeOK, PoolTypeOK, Token, Lease,
      AcquireHandler, pool, faults, Reap, NoLease, NoTask
<1>16. ASSUME NEW t \in releases, DeliverRelease(t) PROVE ShapeInv'
  BY <1>16 DEF DeliverRelease, PoolInv, ShapeInv, TypeOK, PoolTypeOK, Token, Lease,
      AcquireHandler, pool, faults, ReleaseDevice, NoLease, NoTask
<1>17. ASSUME NEW t \in releases, LoseRelease(t) PROVE ShapeInv'
  BY <1>17 DEF LoseRelease, PoolInv, ShapeInv, TypeOK, PoolTypeOK, Token, Lease,
      AcquireHandler, pool, faults
<1>18. ASSUME Restart PROVE ShapeInv'
  BY <1>18 DEF Restart, PoolInv, ShapeInv, TypeOK, PoolTypeOK, Token, Lease, AcquireHandler,
      pool, faults, NoLease, NoAcquire, NoWork, NoDevice, NoTask
<1>19. CASE UNCHANGED vars
  BY <1>19 DEF vars, pool, faults, PoolInv, ShapeInv
<1> QED
  BY <1>1, <1>2, <1>3, <1>4, <1>5, <1>6, <1>7, <1>8, <1>9, <1>10, <1>11, <1>12, <1>13,
      <1>14, <1>15, <1>16, <1>17, <1>18, <1>19 DEF Next, Acquiring, Working

\* What the renewal on entry to a work request does to the pool: it changes no
\* token, lets no lease expire, and a token that passes has a fresh lease.
LEMMA Keepalive ==
    ASSUME PoolInv, NEW c \in Clients, NEW h \in Handlers, NEW m \in Modes,
           StartWork(c, h, m)
    PROVE  /\ free' = free /\ seq' = seq
           /\ \A d \in Devices : /\ leases'[d].id = leases[d].id
                                 /\ leases'[d].owner = leases[d].owner
                                 /\ leases'[d].expired => leases[d].expired
           /\ m = "exact" => /\ leases'[tok[c].dev].id = tok[c].id
                             /\ leases'[tok[c].dev].owner = tok[c].owner
                             /\ ~leases'[tok[c].dev].expired
<1>1. tok[c].dev \in Devices
  BY DEF StartWork, PoolInv, ShapeInv
<1>2. CASE m = "exact"
  BY <1>1, <1>2 DEF StartWork, EnterKeepalive, Renewable, RenewLease, PoolInv, TypeOK,
      PoolTypeOK, Lease
<1>3. CASE m = "owner"
  <2>1. /\ free' = free /\ seq' = seq
        /\ leases' = [d \in Devices |-> IF leases[d].owner = tok[c].owner
                        THEN [leases[d] EXCEPT !.expired = FALSE] ELSE leases[d]]
    BY <1>3 DEF StartWork, EnterKeepalive, Renew
  <2>2. \A d \in Devices : leases[d] \in Lease
    BY DEF PoolInv, TypeOK, PoolTypeOK
  <2> QED
    BY <1>3, <2>1, <2>2 DEF Lease
<1>4. CASE m # "exact" /\ m # "owner"
  BY <1>4 DEF StartWork, EnterKeepalive, pool
<1> QED
  BY <1>2, <1>3, <1>4

\* Every step keeps each device in exactly one place.
LEMMA ConservedStep == PoolInv /\ [Next]_vars => DevicesConserved'
<1> SUFFICES ASSUME PoolInv, [Next]_vars PROVE DevicesConserved'
    OBVIOUS
<1>1. ASSUME NEW c \in Clients, NEW t \in TaskIds, RequestDevice(c, t) PROVE DevicesConserved'
  BY <1>1 DEF RequestDevice, PoolInv, TypeOK, PoolTypeOK, ShapeInv, Lease, AcquireHandler,
      DevicesConserved, Leased, InHand, pool, faults, NoAcquire, NoDevice, NoTask
<1>2. ASSUME NEW c \in Clients, NEW d \in Devices, HandOut(c, d) PROVE DevicesConserved'
  BY <1>2 DEF HandOut, PoolInv, TypeOK, PoolTypeOK, ShapeInv, Lease, AcquireHandler,
      DevicesConserved, Leased, InHand, pool, faults, Dequeue
<1>3. ASSUME NEW c \in Clients, GrantLease(c) PROVE DevicesConserved'
  <2>1. PICK e \in Devices : e = acq[c].dev /\ InHand(c, e)
    BY <1>3 DEF GrantLease, PoolInv, ShapeInv, InHand
  <2>2. free' = free
    BY <1>3 DEF GrantLease, Stamp
  <2>3. Leased(e)' /\ \A d \in Devices : d # e => (Leased(d)' <=> Leased(d))
    BY <1>3, <2>1 DEF GrantLease, Stamp, Leased, PoolInv, TypeOK, PoolTypeOK, Lease
  <2>4. \A b \in Clients, d \in Devices : InHand(b, d)' <=> (InHand(b, d) /\ b # c)
    BY <1>3 DEF GrantLease, InHand, PoolInv, TypeOK, AcquireHandler
  <2>5. \A d \in Devices : d # e => ~InHand(c, d)
    BY <2>1 DEF InHand
  <2>6. free[e] = 0 /\ \A b \in Clients : ~InHand(b, e)'
    BY <2>1, <2>4 DEF PoolInv, DevicesConserved
  <2>7. ASSUME NEW d \in Devices, d # e
        PROVE  (Leased(d)' <=> Leased(d)) /\ \A b \in Clients : InHand(b, d)' <=> InHand(b, d)
    BY <2>3, <2>4, <2>5, <2>7
  <2> QED
    BY <2>1, <2>2, <2>3, <2>6, <2>7 DEF PoolInv, DevicesConserved
<1>4. ASSUME NEW c \in Clients, CancelAcquire(c) PROVE DevicesConserved'
  BY <1>4 DEF CancelAcquire, PoolInv, TypeOK, PoolTypeOK, ShapeInv, Lease, AcquireHandler,
      DevicesConserved, Leased, InHand, pool, faults, PutBack, NoAcquire, NoDevice, NoTask
<1>5. ASSUME NEW c \in Clients, AcquireTimeout(c) PROVE DevicesConserved'
  BY <1>5 DEF AcquireTimeout, PoolInv, TypeOK, PoolTypeOK, ShapeInv, Lease, AcquireHandler,
      DevicesConserved, Leased, InHand, pool, faults, NoAcquire, NoDevice, NoTask
<1>6. ASSUME NEW c \in Clients, ReceiveLease(c) PROVE DevicesConserved'
  BY <1>6 DEF ReceiveLease, PoolInv, TypeOK, PoolTypeOK, ShapeInv, Lease, AcquireHandler,
      DevicesConserved, Leased, InHand, pool, faults, NoAcquire, NoDevice, NoTask
<1>7. ASSUME NEW c \in Clients, AbandonAcquire(c) PROVE DevicesConserved'
  BY <1>7 DEF AbandonAcquire, PoolInv, TypeOK, PoolTypeOK, ShapeInv, Lease, AcquireHandler,
      DevicesConserved, Leased, InHand, pool, faults
<1>8. ASSUME NEW c \in Clients, DropLease(c) PROVE DevicesConserved'
  BY <1>8 DEF DropLease, PoolInv, TypeOK, PoolTypeOK, ShapeInv, Lease, AcquireHandler,
      DevicesConserved, Leased, InHand, pool, faults, NoAcquire, NoDevice, NoTask
<1>9. ASSUME NEW c \in Clients, RequestRelease(c) PROVE DevicesConserved'
  BY <1>9 DEF RequestRelease, PoolInv, TypeOK, PoolTypeOK, ShapeInv, Lease, AcquireHandler,
      DevicesConserved, Leased, InHand, pool, faults, NoToken, NoDevice, NoTask
<1>10. ASSUME NEW c \in Clients, Die(c) PROVE DevicesConserved'
  BY <1>10 DEF Die, PoolInv, TypeOK, PoolTypeOK, ShapeInv, Lease, AcquireHandler,
      DevicesConserved, Leased, InHand, pool, faults, NoToken, NoDevice, NoTask
<1>11. ASSUME NEW c \in Clients, NEW h \in Handlers, NEW m \in Modes, StartWork(c, h, m)
      PROVE  DevicesConserved'
  <2>1. acq' = acq
    BY <1>11 DEF StartWork
  <2>2. free' = free /\ \A d \in Devices : leases'[d].id = leases[d].id
    BY <1>11, Keepalive
  <2> QED
    BY <2>1, <2>2 DEF PoolInv, DevicesConserved, Leased, InHand
<1>12. ASSUME NEW h \in Handlers, FinishWork(h) PROVE DevicesConserved'
  BY <1>12 DEF FinishWork, PoolInv, TypeOK, PoolTypeOK, ShapeInv, Lease, AcquireHandler,
      DevicesConserved, Leased, InHand, pool, faults, NoWork, NoDevice, NoTask
<1>13. ASSUME NEW h \in Handlers, Disconnect(h) PROVE DevicesConserved'
  BY <1>13 DEF Disconnect, PoolInv, TypeOK, PoolTypeOK, ShapeInv, Lease, AcquireHandler,
      DevicesConserved, Leased, InHand, pool, faults
<1>14. ASSUME NEW d \in Devices, Expire(d) PROVE DevicesConserved'
  BY <1>14 DEF Expire, PoolInv, TypeOK, PoolTypeOK, ShapeInv, Lease, AcquireHandler,
      DevicesConserved, Leased, InHand, pool, faults, Lapse
<1>15. ASSUME ReapScan PROVE DevicesConserved'
  BY <1>15 DEF ReapScan, PoolInv, TypeOK, PoolTypeOK, ShapeInv, Lease, AcquireHandler,
      DevicesConserved, Leased, InHand, pool, faults, Reap, NoLease, NoTask
<1>16. ASSUME NEW t \in releases, DeliverRelease(t) PROVE DevicesConserved'
  BY <1>16 DEF DeliverRelease, PoolInv, TypeOK, PoolTypeOK, ShapeInv, Lease, AcquireHandler,
      DevicesConserved, Leased, InHand, pool, faults, ReleaseDevice, NoLease, NoTask
<1>17. ASSUME NEW t \in releases, LoseRelease(t) PROVE DevicesConserved'
  BY <1>17 DEF LoseRelease, PoolInv, TypeOK, PoolTypeOK, ShapeInv, Lease, AcquireHandler,
      DevicesConserved, Leased, InHand, pool, faults
<1>18. ASSUME Restart PROVE DevicesConserved'
  BY <1>18 DEF Restart, PoolInv, TypeOK, PoolTypeOK, ShapeInv, Lease, AcquireHandler,
      DevicesConserved, Leased, InHand, pool, faults, NoLease, NoAcquire, NoWork, NoDevice,
      NoTask
<1>19. CASE UNCHANGED vars
  BY <1>19 DEF vars, pool, faults, PoolInv, DevicesConserved, Leased, InHand
<1> QED
  BY <1>1, <1>2, <1>3, <1>4, <1>5, <1>6, <1>7, <1>8, <1>9, <1>10, <1>11, <1>12, <1>13,
      <1>14, <1>15, <1>16, <1>17, <1>18, <1>19 DEF Next, Acquiring, Working

-----------------------------------------------------------------------------
(* The token invariant *)

\* The daemon runs without a restart.
NoRestarts == MaxRestarts = 0

\* No step uses a token that the counter has not reached.
LEMMA CountedStep == NoRestarts /\ PoolInv /\ TokenInv /\ [Next]_vars => Counted'
<1> SUFFICES ASSUME NoRestarts, PoolInv, TokenInv, [Next]_vars PROVE Counted'
    OBVIOUS
<1>1. ASSUME NEW c \in Clients, NEW t \in TaskIds, RequestDevice(c, t) PROVE Counted'
  BY <1>1 DEF RequestDevice, TokenInv, Counted, PoolInv, ShapeInv, TypeOK, PoolTypeOK,
      Token, AcquireHandler, WorkHandler, pool, faults, NoAcquire, NoDevice, NoTask
<1>2. ASSUME NEW c \in Clients, NEW d \in Devices, HandOut(c, d) PROVE Counted'
  BY <1>2 DEF HandOut, TokenInv, Counted, PoolInv, ShapeInv, TypeOK, PoolTypeOK, Token,
      AcquireHandler, WorkHandler, pool, faults, Dequeue
<1>3. ASSUME NEW c \in Clients, GrantLease(c) PROVE Counted'
  BY <1>3 DEF GrantLease, TokenInv, Counted, PoolInv, ShapeInv, TypeOK, PoolTypeOK, Token,
      AcquireHandler, WorkHandler, pool, faults, Stamp
<1>4. ASSUME NEW c \in Clients, CancelAcquire(c) PROVE Counted'
  BY <1>4 DEF CancelAcquire, TokenInv, Counted, PoolInv, ShapeInv, TypeOK, PoolTypeOK,
      Token, AcquireHandler, WorkHandler, pool, faults, PutBack, NoAcquire, NoDevice, NoTask
<1>5. ASSUME NEW c \in Clients, AcquireTimeout(c) PROVE Counted'
  BY <1>5 DEF AcquireTimeout, TokenInv, Counted, PoolInv, ShapeInv, TypeOK, PoolTypeOK,
      Token, AcquireHandler, WorkHandler, pool, faults, NoAcquire, NoDevice, NoTask
<1>6. ASSUME NEW c \in Clients, ReceiveLease(c) PROVE Counted'
  BY <1>6 DEF ReceiveLease, TokenInv, Counted, PoolInv, ShapeInv, TypeOK, PoolTypeOK, Token,
      AcquireHandler, WorkHandler, pool, faults, NoAcquire, NoDevice, NoTask
<1>7. ASSUME NEW c \in Clients, AbandonAcquire(c) PROVE Counted'
  BY <1>7 DEF AbandonAcquire, TokenInv, Counted, PoolInv, ShapeInv, TypeOK, PoolTypeOK,
      Token, AcquireHandler, WorkHandler, pool, faults
<1>8. ASSUME NEW c \in Clients, DropLease(c) PROVE Counted'
  BY <1>8 DEF DropLease, TokenInv, Counted, PoolInv, ShapeInv, TypeOK, PoolTypeOK, Token,
      AcquireHandler, WorkHandler, pool, faults, NoAcquire, NoDevice, NoTask
<1>9. ASSUME NEW c \in Clients, RequestRelease(c) PROVE Counted'
  BY <1>9 DEF RequestRelease, TokenInv, Counted, PoolInv, ShapeInv, TypeOK, PoolTypeOK,
      Token, AcquireHandler, WorkHandler, pool, faults, NoToken, NoDevice, NoTask
<1>10. ASSUME NEW c \in Clients, Die(c) PROVE Counted'
  BY <1>10 DEF Die, TokenInv, Counted, PoolInv, ShapeInv, TypeOK, PoolTypeOK, Token,
      AcquireHandler, WorkHandler, pool, faults, NoToken, NoDevice, NoTask
<1>11. ASSUME NEW c \in Clients, NEW h \in Handlers, NEW m \in Modes, StartWork(c, h, m)
      PROVE  Counted'
  BY <1>11 DEF StartWork, TokenInv, Counted, PoolInv, ShapeInv, TypeOK, PoolTypeOK, Token,
      AcquireHandler, WorkHandler, pool, faults, EnterKeepalive, RenewLease, Renew,
      Renewable
<1>12. ASSUME NEW h \in Handlers, FinishWork(h) PROVE Counted'
  BY <1>12 DEF FinishWork, TokenInv, Counted, PoolInv, ShapeInv, TypeOK, PoolTypeOK, Token,
      AcquireHandler, WorkHandler, pool, faults, NoWork, NoDevice, NoTask
<1>13. ASSUME NEW h \in Handlers, Disconnect(h) PROVE Counted'
  BY <1>13 DEF Disconnect, TokenInv, Counted, PoolInv, ShapeInv, TypeOK, PoolTypeOK, Token,
      AcquireHandler, WorkHandler, pool, faults
<1>14. ASSUME NEW d \in Devices, Expire(d) PROVE Counted'
  BY <1>14 DEF Expire, TokenInv, Counted, PoolInv, ShapeInv, TypeOK, PoolTypeOK, Token,
      AcquireHandler, WorkHandler, pool, faults, Lapse
<1>15. ASSUME ReapScan PROVE Counted'
  BY <1>15 DEF ReapScan, TokenInv, Counted, PoolInv, ShapeInv, TypeOK, PoolTypeOK, Token,
      AcquireHandler, WorkHandler, pool, faults, Reap, NoLease, NoTask
<1>16. ASSUME NEW t \in releases, DeliverRelease(t) PROVE Counted'
  BY <1>16 DEF DeliverRelease, TokenInv, Counted, PoolInv, ShapeInv, TypeOK, PoolTypeOK,
      Token, AcquireHandler, WorkHandler, pool, faults, ReleaseDevice, NoLease, NoTask
<1>17. ASSUME NEW t \in releases, LoseRelease(t) PROVE Counted'
  BY <1>17 DEF LoseRelease, TokenInv, Counted, PoolInv, ShapeInv, TypeOK, PoolTypeOK, Token,
      AcquireHandler, WorkHandler, pool, faults
<1>18. ASSUME Restart PROVE Counted'
  BY <1>18 DEF Restart, TokenInv, NoRestarts
<1>19. CASE UNCHANGED vars
  BY <1>19 DEF vars, pool, faults, TokenInv, Counted
<1> QED
  BY <1>1, <1>2, <1>3, <1>4, <1>5, <1>6, <1>7, <1>8, <1>9, <1>10, <1>11, <1>12, <1>13,
      <1>14, <1>15, <1>16, <1>17, <1>18, <1>19 DEF Next, Acquiring, Working

\* No step leaves a token in two places.
LEMMA OnceStep == NoRestarts /\ PoolInv /\ TokenInv /\ [Next]_vars => TokenOnce'
<1> SUFFICES ASSUME NoRestarts, PoolInv, TokenInv, [Next]_vars PROVE TokenOnce'
    OBVIOUS
<1>1. ASSUME NEW c \in Clients, NEW t \in TaskIds, RequestDevice(c, t) PROVE TokenOnce'
  BY <1>1 DEF RequestDevice, TokenInv, TokenOnce, Counted, PoolInv, ShapeInv, TypeOK,
      PoolTypeOK, Token, AcquireHandler, WorkHandler, pool, faults, NoAcquire, NoDevice,
      NoTask
<1>2. ASSUME NEW c \in Clients, NEW d \in Devices, HandOut(c, d) PROVE TokenOnce'
  BY <1>2 DEF HandOut, TokenInv, TokenOnce, Counted, PoolInv, ShapeInv, TypeOK, PoolTypeOK,
      Token, AcquireHandler, WorkHandler, pool, faults, Dequeue
<1>3. ASSUME NEW c \in Clients, GrantLease(c) PROVE TokenOnce'
  BY <1>3 DEF GrantLease, TokenInv, TokenOnce, Counted, PoolInv, ShapeInv, TypeOK,
      PoolTypeOK, Token, AcquireHandler, WorkHandler, pool, faults, Stamp
<1>4. ASSUME NEW c \in Clients, CancelAcquire(c) PROVE TokenOnce'
  BY <1>4 DEF CancelAcquire, TokenInv, TokenOnce, Counted, PoolInv, ShapeInv, TypeOK,
      PoolTypeOK, Token, AcquireHandler, WorkHandler, pool, faults, PutBack, NoAcquire,
      NoDevice, NoTask
<1>5. ASSUME NEW c \in Clients, AcquireTimeout(c) PROVE TokenOnce'
  BY <1>5 DEF AcquireTimeout, TokenInv, TokenOnce, Counted, PoolInv, ShapeInv, TypeOK,
      PoolTypeOK, Token, AcquireHandler, WorkHandler, pool, faults, NoAcquire, NoDevice,
      NoTask
<1>6. ASSUME NEW c \in Clients, ReceiveLease(c) PROVE TokenOnce'
  BY <1>6 DEF ReceiveLease, TokenInv, TokenOnce, Counted, PoolInv, ShapeInv, TypeOK,
      PoolTypeOK, Token, AcquireHandler, WorkHandler, pool, faults, NoAcquire, NoDevice,
      NoTask
<1>7. ASSUME NEW c \in Clients, AbandonAcquire(c) PROVE TokenOnce'
  BY <1>7 DEF AbandonAcquire, TokenInv, TokenOnce, Counted, PoolInv, ShapeInv, TypeOK,
      PoolTypeOK, Token, AcquireHandler, WorkHandler, pool, faults
<1>8. ASSUME NEW c \in Clients, DropLease(c) PROVE TokenOnce'
  BY <1>8 DEF DropLease, TokenInv, TokenOnce, Counted, PoolInv, ShapeInv, TypeOK,
      PoolTypeOK, Token, AcquireHandler, WorkHandler, pool, faults, NoAcquire, NoDevice,
      NoTask
<1>9. ASSUME NEW c \in Clients, RequestRelease(c) PROVE TokenOnce'
  BY <1>9 DEF RequestRelease, TokenInv, TokenOnce, Counted, PoolInv, ShapeInv, TypeOK,
      PoolTypeOK, Token, AcquireHandler, WorkHandler, pool, faults, NoToken, NoDevice,
      NoTask
<1>10. ASSUME NEW c \in Clients, Die(c) PROVE TokenOnce'
  BY <1>10 DEF Die, TokenInv, TokenOnce, Counted, PoolInv, ShapeInv, TypeOK, PoolTypeOK,
      Token, AcquireHandler, WorkHandler, pool, faults, NoToken, NoDevice, NoTask
<1>11. ASSUME NEW c \in Clients, NEW h \in Handlers, NEW m \in Modes, StartWork(c, h, m)
      PROVE  TokenOnce'
  BY <1>11 DEF StartWork, TokenInv, TokenOnce, Counted, PoolInv, ShapeInv, TypeOK,
      PoolTypeOK, Token, AcquireHandler, WorkHandler, pool, faults, EnterKeepalive,
      RenewLease, Renew, Renewable
<1>12. ASSUME NEW h \in Handlers, FinishWork(h) PROVE TokenOnce'
  BY <1>12 DEF FinishWork, TokenInv, TokenOnce, Counted, PoolInv, ShapeInv, TypeOK,
      PoolTypeOK, Token, AcquireHandler, WorkHandler, pool, faults, NoWork, NoDevice, NoTask
<1>13. ASSUME NEW h \in Handlers, Disconnect(h) PROVE TokenOnce'
  BY <1>13 DEF Disconnect, TokenInv, TokenOnce, Counted, PoolInv, ShapeInv, TypeOK,
      PoolTypeOK, Token, AcquireHandler, WorkHandler, pool, faults
<1>14. ASSUME NEW d \in Devices, Expire(d) PROVE TokenOnce'
  BY <1>14 DEF Expire, TokenInv, TokenOnce, Counted, PoolInv, ShapeInv, TypeOK, PoolTypeOK,
      Token, AcquireHandler, WorkHandler, pool, faults, Lapse
<1>15. ASSUME ReapScan PROVE TokenOnce'
  BY <1>15 DEF ReapScan, TokenInv, TokenOnce, Counted, PoolInv, ShapeInv, TypeOK,
      PoolTypeOK, Token, AcquireHandler, WorkHandler, pool, faults, Reap, NoLease, NoTask
<1>16. ASSUME NEW t \in releases, DeliverRelease(t) PROVE TokenOnce'
  BY <1>16 DEF DeliverRelease, TokenInv, TokenOnce, Counted, PoolInv, ShapeInv, TypeOK,
      PoolTypeOK, Token, AcquireHandler, WorkHandler, pool, faults, ReleaseDevice, NoLease,
      NoTask
<1>17. ASSUME NEW t \in releases, LoseRelease(t) PROVE TokenOnce'
  BY <1>17 DEF LoseRelease, TokenInv, TokenOnce, Counted, PoolInv, ShapeInv, TypeOK,
      PoolTypeOK, Token, AcquireHandler, WorkHandler, pool, faults
<1>18. ASSUME Restart PROVE TokenOnce'
  BY <1>18 DEF Restart, TokenInv, NoRestarts
<1>19. CASE UNCHANGED vars
  BY <1>19 DEF vars, pool, faults, TokenInv, TokenOnce
<1> QED
  BY <1>1, <1>2, <1>3, <1>4, <1>5, <1>6, <1>7, <1>8, <1>9, <1>10, <1>11, <1>12, <1>13,
      <1>14, <1>15, <1>16, <1>17, <1>18, <1>19 DEF Next, Acquiring, Working

\* No step takes the token of a running request from its client.
LEMMA AttachedStep == NoRestarts /\ PoolInv /\ TokenInv /\ [Next]_vars => AttachedInv'
<1> SUFFICES ASSUME NoRestarts, PoolInv, TokenInv, [Next]_vars PROVE AttachedInv'
    OBVIOUS
<1>1. ASSUME NEW c \in Clients, NEW t \in TaskIds, RequestDevice(c, t) PROVE AttachedInv'
  BY <1>1 DEF RequestDevice, TokenInv, AttachedInv, Counted, TokenOnce, PoolInv, ShapeInv,
      TypeOK, PoolTypeOK, Token, AcquireHandler, WorkHandler, pool, faults, NoAcquire,
      NoDevice, NoTask
<1>2. ASSUME NEW c \in Clients, NEW d \in Devices, HandOut(c, d) PROVE AttachedInv'
  BY <1>2 DEF HandOut, TokenInv, AttachedInv, Counted, TokenOnce, PoolInv, ShapeInv, TypeOK,
      PoolTypeOK, Token, AcquireHandler, WorkHandler, pool, faults, Dequeue
<1>3. ASSUME NEW c \in Clients, GrantLease(c) PROVE AttachedInv'
  BY <1>3 DEF GrantLease, TokenInv, AttachedInv, Counted, TokenOnce, PoolInv, ShapeInv,
      TypeOK, PoolTypeOK, Token, AcquireHandler, WorkHandler, pool, faults, Stamp
<1>4. ASSUME NEW c \in Clients, CancelAcquire(c) PROVE AttachedInv'
  BY <1>4 DEF CancelAcquire, TokenInv, AttachedInv, Counted, TokenOnce, PoolInv, ShapeInv,
      TypeOK, PoolTypeOK, Token, AcquireHandler, WorkHandler, pool, faults, PutBack,
      NoAcquire, NoDevice, NoTask
<1>5. ASSUME NEW c \in Clients, AcquireTimeout(c) PROVE AttachedInv'
  BY <1>5 DEF AcquireTimeout, TokenInv, AttachedInv, Counted, TokenOnce, PoolInv, ShapeInv,
      TypeOK, PoolTypeOK, Token, AcquireHandler, WorkHandler, pool, faults, NoAcquire,
      NoDevice, NoTask
<1>6. ASSUME NEW c \in Clients, ReceiveLease(c) PROVE AttachedInv'
  BY <1>6 DEF ReceiveLease, TokenInv, AttachedInv, Counted, TokenOnce, PoolInv, ShapeInv,
      TypeOK, PoolTypeOK, Token, AcquireHandler, WorkHandler, pool, faults, NoAcquire,
      NoDevice, NoTask
<1>7. ASSUME NEW c \in Clients, AbandonAcquire(c) PROVE AttachedInv'
  BY <1>7 DEF AbandonAcquire, TokenInv, AttachedInv, Counted, TokenOnce, PoolInv, ShapeInv,
      TypeOK, PoolTypeOK, Token, AcquireHandler, WorkHandler, pool, faults
<1>8. ASSUME NEW c \in Clients, DropLease(c) PROVE AttachedInv'
  BY <1>8 DEF DropLease, TokenInv, AttachedInv, Counted, TokenOnce, PoolInv, ShapeInv,
      TypeOK, PoolTypeOK, Token, AcquireHandler, WorkHandler, pool, faults, NoAcquire,
      NoDevice, NoTask
<1>9. ASSUME NEW c \in Clients, RequestRelease(c) PROVE AttachedInv'
  BY <1>9 DEF RequestRelease, TokenInv, AttachedInv, Counted, TokenOnce, PoolInv, ShapeInv,
      TypeOK, PoolTypeOK, Token, AcquireHandler, WorkHandler, pool, faults, NoToken,
      NoDevice, NoTask
<1>10. ASSUME NEW c \in Clients, Die(c) PROVE AttachedInv'
  BY <1>10 DEF Die, TokenInv, AttachedInv, Counted, TokenOnce, PoolInv, ShapeInv, TypeOK,
      PoolTypeOK, Token, AcquireHandler, WorkHandler, pool, faults, NoToken, NoDevice,
      NoTask
<1>11. ASSUME NEW c \in Clients, NEW h \in Handlers, NEW m \in Modes, StartWork(c, h, m)
      PROVE  AttachedInv'
  <2>1. /\ tok[c].dev \in Devices /\ tok[c].id # 0
        /\ \A g \in Handlers : work[g].attached => work[g].client # c
    BY <1>11 DEF StartWork, PoolInv, ShapeInv, TokenInv, TokenOnce, AttachedInv
  <2>2. tok' = tok /\ acq' = acq /\ releases' = releases
    BY <1>11 DEF StartWork
  <2>3. /\ work'[h] = [mode |-> m, client |-> c, dev |-> tok[c].dev, id |-> tok[c].id,
                       owner |-> tok[c].owner, attached |-> TRUE]
        /\ \A g \in Handlers : g # h => work'[g] = work[g]
    BY <1>11 DEF StartWork, PoolInv, TypeOK
  <2>4. at'[c] = "working" /\ \A b \in Clients : b # c => at'[b] = at[b]
    BY <1>11 DEF StartWork, PoolInv, TypeOK
  <2>5. m # "none"
    BY LeasesAssumption DEF Mode
  <2>6. /\ \A b \in Clients : tok[b].id = tok[c].id => b = c
        /\ \A b \in Clients : acq[b].id # tok[c].id
        /\ \A t \in releases : t.id # tok[c].id
    BY <2>1 DEF TokenInv, TokenOnce
  <2>7. ASSUME NEW g \in Handlers, g # h, work[g].attached
        PROVE  /\ work[g].mode # "none" /\ work[g].client \in Clients
               /\ work[g].id # 0 /\ work[g].dev \in Devices
               /\ at'[work[g].client] \in {"working", "dead"}
               /\ at'[work[g].client] = "working" => tok[work[g].client].id = work[g].id
               /\ \A b \in Clients : tok[b].id = work[g].id => b = work[g].client
               /\ \A b \in Clients : acq[b].id # work[g].id
               /\ \A t \in releases : t.id # work[g].id
               /\ \A k \in Handlers :
                     work[k].attached /\ work[k].client = work[g].client => k = g
    BY <2>1, <2>4, <2>7 DEF TokenInv, AttachedInv
  <2> QED
    BY <2>1, <2>2, <2>3, <2>4, <2>5, <2>6, <2>7 DEF AttachedInv
<1>12. ASSUME NEW h \in Handlers, FinishWork(h) PROVE AttachedInv'
  BY <1>12 DEF FinishWork, TokenInv, AttachedInv, Counted, TokenOnce, PoolInv, ShapeInv,
      TypeOK, PoolTypeOK, Token, AcquireHandler, WorkHandler, pool, faults, NoWork,
      NoDevice, NoTask
<1>13. ASSUME NEW h \in Handlers, Disconnect(h) PROVE AttachedInv'
  BY <1>13 DEF Disconnect, TokenInv, AttachedInv, Counted, TokenOnce, PoolInv, ShapeInv,
      TypeOK, PoolTypeOK, Token, AcquireHandler, WorkHandler, pool, faults
<1>14. ASSUME NEW d \in Devices, Expire(d) PROVE AttachedInv'
  BY <1>14 DEF Expire, TokenInv, AttachedInv, Counted, TokenOnce, PoolInv, ShapeInv, TypeOK,
      PoolTypeOK, Token, AcquireHandler, WorkHandler, pool, faults, Lapse
<1>15. ASSUME ReapScan PROVE AttachedInv'
  BY <1>15 DEF ReapScan, TokenInv, AttachedInv, Counted, TokenOnce, PoolInv, ShapeInv,
      TypeOK, PoolTypeOK, Token, AcquireHandler, WorkHandler, pool, faults, Reap, NoLease,
      NoTask
<1>16. ASSUME NEW t \in releases, DeliverRelease(t) PROVE AttachedInv'
  BY <1>16 DEF DeliverRelease, TokenInv, AttachedInv, Counted, TokenOnce, PoolInv, ShapeInv,
      TypeOK, PoolTypeOK, Token, AcquireHandler, WorkHandler, pool, faults, ReleaseDevice,
      NoLease, NoTask
<1>17. ASSUME NEW t \in releases, LoseRelease(t) PROVE AttachedInv'
  BY <1>17 DEF LoseRelease, TokenInv, AttachedInv, Counted, TokenOnce, PoolInv, ShapeInv,
      TypeOK, PoolTypeOK, Token, AcquireHandler, WorkHandler, pool, faults
<1>18. ASSUME Restart PROVE AttachedInv'
  BY <1>18 DEF Restart, TokenInv, NoRestarts
<1>19. CASE UNCHANGED vars
  BY <1>19 DEF vars, pool, faults, TokenInv, AttachedInv
<1> QED
  BY <1>1, <1>2, <1>3, <1>4, <1>5, <1>6, <1>7, <1>8, <1>9, <1>10, <1>11, <1>12, <1>13,
      <1>14, <1>15, <1>16, <1>17, <1>18, <1>19 DEF Next, Acquiring, Working

\* No step takes the lease from a request that carries its token.
LEMMA KeptStep == NoRestarts /\ PoolInv /\ TokenInv /\ [Next]_vars => KeptFresh'
<1> SUFFICES ASSUME NoRestarts, PoolInv, TokenInv, [Next]_vars PROVE KeptFresh'
    OBVIOUS
<1>1. ASSUME NEW c \in Clients, NEW t \in TaskIds, RequestDevice(c, t) PROVE KeptFresh'
  BY <1>1 DEF RequestDevice, TokenInv, KeptFresh, AttachedInv, TokenOnce, Keeps, PoolInv,
      ShapeInv, TypeOK, PoolTypeOK, Token, AcquireHandler, WorkHandler, pool, faults,
      NoAcquire, NoDevice, NoTask
<1>2. ASSUME NEW c \in Clients, NEW d \in Devices, HandOut(c, d) PROVE KeptFresh'
  BY <1>2 DEF HandOut, TokenInv, KeptFresh, AttachedInv, TokenOnce, Keeps, PoolInv,
      ShapeInv, TypeOK, PoolTypeOK, Token, AcquireHandler, WorkHandler, pool, faults,
      Dequeue
<1>3. ASSUME NEW c \in Clients, GrantLease(c) PROVE KeptFresh'
  <2>1. PICK e \in Devices : e = acq[c].dev /\ InHand(c, e)
    BY <1>3 DEF GrantLease, PoolInv, ShapeInv, InHand
  <2>2. ~Leased(e)
    BY <2>1 DEF PoolInv, DevicesConserved
  <2>3. work' = work /\ \A d \in Devices : d # e => leases'[d] = leases[d]
    BY <1>3, <2>1 DEF GrantLease, Stamp, PoolInv, TypeOK, PoolTypeOK
  <2>4. ASSUME NEW h \in Handlers, work[h].mode = "exact", work[h].attached
        PROVE  work[h].dev \in Devices \ {e}
    BY <2>2, <2>4 DEF TokenInv, AttachedInv, KeptFresh, Keeps, Leased
  <2> QED
    BY <2>3, <2>4 DEF TokenInv, KeptFresh, Keeps
<1>4. ASSUME NEW c \in Clients, CancelAcquire(c) PROVE KeptFresh'
  BY <1>4 DEF CancelAcquire, TokenInv, KeptFresh, AttachedInv, TokenOnce, Keeps, PoolInv,
      ShapeInv, TypeOK, PoolTypeOK, Token, AcquireHandler, WorkHandler, pool, faults,
      PutBack, NoAcquire, NoDevice, NoTask
<1>5. ASSUME NEW c \in Clients, AcquireTimeout(c) PROVE KeptFresh'
  BY <1>5 DEF AcquireTimeout, TokenInv, KeptFresh, AttachedInv, TokenOnce, Keeps, PoolInv,
      ShapeInv, TypeOK, PoolTypeOK, Token, AcquireHandler, WorkHandler, pool, faults,
      NoAcquire, NoDevice, NoTask
<1>6. ASSUME NEW c \in Clients, ReceiveLease(c) PROVE KeptFresh'
  BY <1>6 DEF ReceiveLease, TokenInv, KeptFresh, AttachedInv, TokenOnce, Keeps, PoolInv,
      ShapeInv, TypeOK, PoolTypeOK, Token, AcquireHandler, WorkHandler, pool, faults,
      NoAcquire, NoDevice, NoTask
<1>7. ASSUME NEW c \in Clients, AbandonAcquire(c) PROVE KeptFresh'
  BY <1>7 DEF AbandonAcquire, TokenInv, KeptFresh, AttachedInv, TokenOnce, Keeps, PoolInv,
      ShapeInv, TypeOK, PoolTypeOK, Token, AcquireHandler, WorkHandler, pool, faults
<1>8. ASSUME NEW c \in Clients, DropLease(c) PROVE KeptFresh'
  BY <1>8 DEF DropLease, TokenInv, KeptFresh, AttachedInv, TokenOnce, Keeps, PoolInv,
      ShapeInv, TypeOK, PoolTypeOK, Token, AcquireHandler, WorkHandler, pool, faults,
      NoAcquire, NoDevice, NoTask
<1>9. ASSUME NEW c \in Clients, RequestRelease(c) PROVE KeptFresh'
  BY <1>9 DEF RequestRelease, TokenInv, KeptFresh, AttachedInv, TokenOnce, Keeps, PoolInv,
      ShapeInv, TypeOK, PoolTypeOK, Token, AcquireHandler, WorkHandler, pool, faults,
      NoToken, NoDevice, NoTask
<1>10. ASSUME NEW c \in Clients, Die(c) PROVE KeptFresh'
  BY <1>10 DEF Die, TokenInv, KeptFresh, AttachedInv, TokenOnce, Keeps, PoolInv, ShapeInv,
      TypeOK, PoolTypeOK, Token, AcquireHandler, WorkHandler, pool, faults, NoToken,
      NoDevice, NoTask
<1>11. ASSUME NEW c \in Clients, NEW h \in Handlers, NEW m \in Modes, StartWork(c, h, m)
      PROVE  KeptFresh'
  <2>1. /\ work'[h] = [mode |-> m, client |-> c, dev |-> tok[c].dev, id |-> tok[c].id,
                       owner |-> tok[c].owner, attached |-> TRUE]
        /\ \A g \in Handlers : g # h => work'[g] = work[g]
    BY <1>11 DEF StartWork, PoolInv, TypeOK
  <2>2. ASSUME NEW g \in Handlers, work'[g].mode = "exact", work'[g].attached
        PROVE  /\ leases'[work'[g].dev].id = work'[g].id
               /\ leases'[work'[g].dev].owner = work'[g].owner
               /\ ~leases'[work'[g].dev].expired
    <3>1. CASE g = h
      BY <1>11, <2>1, <2>2, <3>1, Keepalive
    <3>2. CASE g # h
      <4>1. work'[g] = work[g] /\ work[g].mode = "exact" /\ work[g].attached
        BY <2>1, <2>2, <3>2
      <4>2. /\ work[g].dev \in Devices
            /\ leases[work[g].dev].id = work[g].id
            /\ leases[work[g].dev].owner = work[g].owner
            /\ ~leases[work[g].dev].expired
        BY <4>1 DEF TokenInv, AttachedInv, KeptFresh, Keeps
      <4> QED
        BY <1>11, <4>1, <4>2, Keepalive
    <3> QED
      BY <3>1, <3>2
  <2> QED
    BY <2>2 DEF KeptFresh, Keeps
<1>12. ASSUME NEW h \in Handlers, FinishWork(h) PROVE KeptFresh'
  BY <1>12 DEF FinishWork, TokenInv, KeptFresh, AttachedInv, TokenOnce, Keeps, PoolInv,
      ShapeInv, TypeOK, PoolTypeOK, Token, AcquireHandler, WorkHandler, pool, faults,
      NoWork, NoDevice, NoTask
<1>13. ASSUME NEW h \in Handlers, Disconnect(h) PROVE KeptFresh'
  BY <1>13 DEF Disconnect, TokenInv, KeptFresh, AttachedInv, TokenOnce, Keeps, PoolInv,
      ShapeInv, TypeOK, PoolTypeOK, Token, AcquireHandler, WorkHandler, pool, faults
<1>14. ASSUME NEW d \in Devices, Expire(d) PROVE KeptFresh'
  <2>1. work' = work /\ \A e \in Devices : e # d => leases'[e] = leases[e]
    BY <1>14 DEF Expire, Lapse, PoolInv, TypeOK, PoolTypeOK
  <2>2. ASSUME NEW h \in Handlers, work[h].mode = "exact", work[h].attached
        PROVE  work[h].dev \in Devices \ {d}
    BY <1>14, <2>2 DEF Expire, Lapse, Covered, Renewable, TokenInv, AttachedInv, KeptFresh, Keeps
  <2> QED
    BY <2>1, <2>2 DEF TokenInv, KeptFresh, Keeps
<1>15. ASSUME ReapScan PROVE KeptFresh'
  BY <1>15 DEF ReapScan, TokenInv, KeptFresh, AttachedInv, TokenOnce, Keeps, PoolInv,
      ShapeInv, TypeOK, PoolTypeOK, Token, AcquireHandler, WorkHandler, pool, faults, Reap,
      NoLease, NoTask
<1>16. ASSUME NEW t \in releases, DeliverRelease(t) PROVE KeptFresh'
  <2>1. t.dev \in Devices
    BY <1>16 DEF PoolInv, ShapeInv
  <2>2. work' = work /\ \A d \in Devices :
            d # t.dev \/ leases[d].id # t.id => leases'[d] = leases[d]
    BY <1>16, <2>1 DEF DeliverRelease, ReleaseDevice, Leased, PoolInv, TypeOK, PoolTypeOK
  <2>3. ASSUME NEW h \in Handlers, work[h].mode = "exact", work[h].attached
        PROVE  work[h].dev \in Devices /\ leases[work[h].dev].id # t.id
    BY <1>16, <2>3 DEF TokenInv, AttachedInv, KeptFresh, Keeps
  <2> QED
    BY <2>2, <2>3 DEF TokenInv, KeptFresh, Keeps
<1>17. ASSUME NEW t \in releases, LoseRelease(t) PROVE KeptFresh'
  BY <1>17 DEF LoseRelease, TokenInv, KeptFresh, AttachedInv, TokenOnce, Keeps, PoolInv,
      ShapeInv, TypeOK, PoolTypeOK, Token, AcquireHandler, WorkHandler, pool, faults
<1>18. ASSUME Restart PROVE KeptFresh'
  BY <1>18 DEF Restart, TokenInv, NoRestarts
<1>19. CASE UNCHANGED vars
  BY <1>19 DEF vars, pool, faults, TokenInv, KeptFresh, Keeps
<1> QED
  BY <1>1, <1>2, <1>3, <1>4, <1>5, <1>6, <1>7, <1>8, <1>9, <1>10, <1>11, <1>12, <1>13,
      <1>14, <1>15, <1>16, <1>17, <1>18, <1>19 DEF Next, Acquiring, Working

-----------------------------------------------------------------------------
(* Scripts on one device *)

\* A token serves one attached request at a time: its client waits for the
\* answer before it sends the next one.
WorkOnce ==
    \A g, h \in Handlers :
        work[g].attached /\ work[h].attached /\ work[g].id = work[h].id => g = h

\* No connection breaks, and every client sends its token.
NoneLeft == MaxDisconnects = 0 /\ Modes \subseteq {"exact"}

\* Then every script that runs has a request that waits for it and renews its
\* lease by the token.
AllAttached ==
    /\ disconnects = 0
    /\ \A h \in Handlers :
          work[h].mode # "none" => work[h].mode = "exact" /\ work[h].attached

\* What a step does to the work handlers: a request starts, one ends or is left
\* by its client, all of them are gone, or nothing happens.
LEMMA WorkSteps ==
    ASSUME PoolInv, [Next]_vars
    PROVE  \/ \E c \in Clients, h \in Handlers, m \in Modes :
                 StartWork(c, h, m) /\ disconnects' = disconnects
           \/ \E h \in Handlers :
                 /\ work' = [work EXCEPT ![h] = NoWork]
                 /\ disconnects' = disconnects
           \/ \E h \in Handlers : Disconnect(h)
           \/ work' = [h \in Handlers |-> NoWork] /\ disconnects' = disconnects
           \/ UNCHANGED <<work, disconnects>>
  BY DEF Next, vars, faults, Acquiring, Working, RequestDevice, HandOut, GrantLease,
      CancelAcquire, AcquireTimeout, ReceiveLease, AbandonAcquire, DropLease,
      RequestRelease, Die, StartWork, FinishWork, Expire, ReapScan, DeliverRelease,
      LoseRelease, Restart

\* No step gives a token to a second request.
LEMMA WorkOnceStep ==
    ASSUME PoolInv, TokenInv, WorkOnce, [Next]_vars
    PROVE  WorkOnce'
<1>1. ASSUME NEW c \in Clients, NEW h \in Handlers, NEW m \in Modes, StartWork(c, h, m)
      PROVE  WorkOnce'
  <2>1. /\ work'[h].id = tok[c].id
        /\ \A g \in Handlers : g # h => work'[g] = work[g]
        /\ at[c] = "holding"
    BY <1>1 DEF StartWork, PoolInv, TypeOK
  <2>2. \A g \in Handlers : work[g].attached => work[g].id # tok[c].id
    BY <2>1 DEF TokenInv, AttachedInv
  <2> QED BY <2>1, <2>2 DEF WorkOnce
<1>2. ASSUME NEW h \in Handlers, work' = [work EXCEPT ![h] = NoWork]
      PROVE  WorkOnce'
  <2>1. ~work'[h].attached /\ \A g \in Handlers : g # h => work'[g] = work[g]
    BY <1>2 DEF NoWork, PoolInv, TypeOK
  <2> QED BY <2>1 DEF WorkOnce
<1>3. ASSUME NEW h \in Handlers, Disconnect(h)
      PROVE  WorkOnce'
  <2>1. ~work'[h].attached /\ \A g \in Handlers : g # h => work'[g] = work[g]
    BY <1>3 DEF Disconnect, PoolInv, TypeOK, WorkHandler
  <2> QED BY <2>1 DEF WorkOnce
<1>4. CASE work' = [h \in Handlers |-> NoWork]
  BY <1>4 DEF WorkOnce, NoWork
<1>5. CASE UNCHANGED work
  BY <1>5 DEF WorkOnce
<1> QED BY <1>1, <1>2, <1>3, <1>4, <1>5, WorkSteps

\* Without broken connections every script keeps its request.
LEMMA AllAttachedStep ==
    ASSUME NoneLeft, PoolInv, AllAttached, [Next]_vars
    PROVE  AllAttached'
<1>1. ASSUME NEW c \in Clients, NEW h \in Handlers, NEW m \in Modes, StartWork(c, h, m),
             disconnects' = disconnects
      PROVE  AllAttached'
  <2>1. /\ work'[h].mode = m /\ work'[h].attached
        /\ \A g \in Handlers : g # h => work'[g] = work[g]
    BY <1>1 DEF StartWork, PoolInv, TypeOK
  <2>2. m = "exact"
    BY DEF NoneLeft
  <2> QED BY <1>1, <2>1, <2>2 DEF AllAttached
<1>2. ASSUME NEW h \in Handlers, work' = [work EXCEPT ![h] = NoWork],
             disconnects' = disconnects
      PROVE  AllAttached'
  <2>1. work'[h].mode = "none" /\ \A g \in Handlers : g # h => work'[g] = work[g]
    BY <1>2 DEF NoWork, PoolInv, TypeOK
  <2> QED BY <1>2, <2>1 DEF AllAttached
<1>3. \A h \in Handlers : ~Disconnect(h)
  BY DEF Disconnect, AllAttached, NoneLeft
<1>4. CASE work' = [h \in Handlers |-> NoWork] /\ disconnects' = disconnects
  BY <1>4 DEF AllAttached, NoWork
<1>5. CASE UNCHANGED <<work, disconnects>>
  BY <1>5 DEF AllAttached
<1> QED BY <1>1, <1>2, <1>3, <1>4, <1>5, WorkSteps

\* A lease changes hands only as the pool's operations allow it to.
LEMMA LeaseSteps ==
    ASSUME PoolInv, [Next]_vars, ~Restart, NEW d \in Devices,
           Leased(d), leases'[d].id # leases[d].id
    PROVE  \/ leases[d].expired
           \/ \E t \in releases : t.dev = d /\ t.id = leases[d].id
<1>1. ASSUME NEW c \in Clients, Acquiring(c) PROVE FALSE
  <2>1. CASE GrantLease(c)
    <3>1. InHand(c, acq[c].dev) /\ acq[c].dev \in Devices
      BY <2>1 DEF GrantLease, InHand, PoolInv, ShapeInv
    <3>2. acq[c].dev # d
      BY <3>1 DEF PoolInv, DevicesConserved
    <3> QED BY <2>1, <3>1, <3>2 DEF GrantLease, Stamp, PoolInv, TypeOK, PoolTypeOK
  <2>2. CASE ~GrantLease(c)
    <3>1. leases' = leases
      BY <1>1, <2>2 DEF Acquiring, RequestDevice, HandOut, Dequeue, CancelAcquire, PutBack,
          AcquireTimeout, ReceiveLease, AbandonAcquire, DropLease, pool
    <3> QED BY <3>1
  <2> QED BY <2>1, <2>2
<1>2. ASSUME NEW c \in Clients, NEW h \in Handlers, NEW m \in Modes, StartWork(c, h, m)
      PROVE  FALSE
  BY <1>2, Keepalive
<1>3. ASSUME NEW e \in Devices, Expire(e) PROVE FALSE
  BY <1>3 DEF Expire, Lapse, PoolInv, TypeOK, PoolTypeOK, Lease
<1>4. ASSUME ReapScan PROVE leases[d].expired
  BY <1>4 DEF ReapScan, Reap
<1>5. ASSUME NEW t \in releases, DeliverRelease(t) PROVE t.dev = d /\ t.id = leases[d].id
  <2>1. t.dev \in Devices
    BY DEF PoolInv, ShapeInv
  <2> QED BY <1>5, <2>1 DEF DeliverRelease, ReleaseDevice, PoolInv, TypeOK, PoolTypeOK
<1>6. leases' # leases
  OBVIOUS
<1> QED
  BY <1>1, <1>2, <1>3, <1>4, <1>5, <1>6 DEF Next, Working, vars, pool, RequestRelease, Die,
      FinishWork, Disconnect, LoseRelease

-----------------------------------------------------------------------------
(* The theorems *)

\* The types, the shape and the place of every device are invariant, whatever
\* the bounds on faults and restarts.
THEOREM PoolInvariant == Spec => []PoolInv
<1>1. Init => PoolInv
  BY InitInv
<1>2. PoolInv /\ [Next]_vars => PoolInv'
  BY TypeStep, ShapeStep, ConservedStep DEF PoolInv
<1> QED
  BY <1>1, <1>2, PTL DEF Spec

\* Every state of the daemon and its clients is of the declared types.
THEOREM TypeCorrect == Spec => []TypeOK
<1>1. PoolInv => TypeOK
  BY DEF PoolInv
<1> QED
  BY <1>1, PoolInvariant, PTL

\* DevicePool never queues a device twice and never loses one, for any number
\* of devices, clients, releases, reaper scans and restarts of the daemon.
THEOREM PoolConserves == Spec => []DevicesConserved
<1>1. PoolInv => DevicesConserved
  BY DEF PoolInv
<1> QED
  BY <1>1, PoolInvariant, PTL

\* While the daemon is not restarted, the token invariant holds.
THEOREM TokenInvariant == ASSUME NoRestarts PROVE Spec => []TokenInv
<1>1. Init => TokenInv
  BY InitInv
<1>2. PoolInv /\ TokenInv /\ [Next]_vars => TokenInv'
  <2> SUFFICES ASSUME PoolInv, TokenInv, [Next]_vars PROVE TokenInv'
    OBVIOUS
  <2>1. restarts' = 0
    <3>1. ~Restart
      BY NoRestarts DEF Restart, TokenInv, NoRestarts
    <3>2. restarts' = restarts
      BY <3>1 DEF Next, vars, faults, Acquiring, Working, RequestDevice, HandOut, GrantLease,
          CancelAcquire, AcquireTimeout, ReceiveLease, AbandonAcquire, DropLease,
          RequestRelease, Die, StartWork, FinishWork, Disconnect, Expire, ReapScan,
          DeliverRelease, LoseRelease
    <3> QED
      BY <3>2 DEF TokenInv
  <2> QED
    BY <2>1, NoRestarts, CountedStep, OnceStep, AttachedStep, KeptStep DEF TokenInv
<1> QED
  BY <1>1, <1>2, PoolInvariant, PTL DEF Spec

\* While the daemon is not restarted, keepalive with a token protects the
\* request: neither the reaper nor any release takes the device away.
THEOREM RequestsKeepLeases == ASSUME NoRestarts PROVE Spec => []TokenKeepsLease
<1>1. TokenInv => TokenKeepsLease
  BY DEF TokenInv, KeptFresh, TokenKeepsLease
<1> QED
  BY <1>1, TokenInvariant, PTL

\* While the daemon is not restarted, release_device with an old token never
\* matches the lease that another client holds.
THEOREM LateReleases == ASSUME NoRestarts PROVE Spec => []LateReleaseFreesNothing
<1>1. TokenInv => LateReleaseFreesNothing
  BY DEF TokenInv, TokenOnce, LateReleaseFreesNothing
<1> QED
  BY <1>1, TokenInvariant, PTL

\* While the daemon is not restarted, release_device and the reaper are the only
\* ends of a lease: nobody loses one that is fresh and that no release names.
THEOREM LeasesEndRightly == ASSUME NoRestarts PROVE Spec => LeaseEndsRightly
<1>1. PoolInv /\ TokenInv /\ [Next]_vars =>
        [\A d \in Devices :
            Leased(d) /\ leases'[d].id # leases[d].id =>
                \/ leases[d].expired
                \/ \E t \in releases : t.dev = d /\ t.id = leases[d].id]_vars
  <2>1. TokenInv => ~Restart
    BY NoRestarts DEF Restart, TokenInv, NoRestarts
  <2> QED BY <2>1, LeaseSteps
<1> QED
  BY <1>1, PoolInvariant, TokenInvariant, PTL DEF Spec, LeaseEndsRightly

\* While the daemon is not restarted, a token serves one request at a time.
THEOREM TokensServeOne == ASSUME NoRestarts PROVE Spec => []WorkOnce
<1>1. Init => WorkOnce
  BY DEF Init, WorkOnce, NoWork
<1>2. PoolInv /\ TokenInv /\ WorkOnce /\ [Next]_vars => WorkOnce'
  BY WorkOnceStep
<1> QED
  BY <1>1, <1>2, PoolInvariant, TokenInvariant, PTL DEF Spec

\* While the daemon is not restarted, no connection breaks and every client
\* sends its token, two scripts never run on one device.  Each hypothesis is
\* needed: a client that lost its connection starts a second script next to the
\* first, and a request without its token loses its lease while it runs.
THEOREM ScriptsKeptApart ==
    ASSUME NoRestarts, NoneLeft
    PROVE  Spec => []OneScriptPerDevice
<1>1. Init => AllAttached
  BY DEF Init, AllAttached, NoWork
<1>2. PoolInv /\ AllAttached /\ [Next]_vars => AllAttached'
  BY NoneLeft, AllAttachedStep
<1>3. Spec => []AllAttached
  BY <1>1, <1>2, PoolInvariant, PTL DEF Spec
<1>4. TokenInv /\ WorkOnce /\ AllAttached => OneScriptPerDevice
  BY DEF TokenInv, KeptFresh, Keeps, WorkOnce, AllAttached, OneScriptPerDevice
<1> QED
  BY <1>3, <1>4, TokenInvariant, TokensServeOne, PTL

=============================================================================
