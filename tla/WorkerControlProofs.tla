------------------------- MODULE WorkerControlProofs -------------------------
(***************************************************************************)
(* Proofs about WorkerControl, for any set of PIDs and any bounds, when    *)
(* one shell at a time runs worker commands, as nothing orders two of      *)
(* them, and as long as every daemon that was started was entered.         *)
(***************************************************************************)
EXTENDS WorkerControl, FiniteSetTheorems, TLAPS

Kinds == {"none", "script", "other"} \cup DaemonKinds
ReqRec == [owner : Pids \cup {0}, at : {"none", "spawned", "unrecorded", "running", "killing"}]
RegRec == [tick : Nat, owner : Pids \cup {0}, otick : Nat]
Places == {"none", "rprobe", "rtunnel", "rcheck", "probe", "spawn", "record", "poll",
           "look", "term", "grace", "reap", "sweep"}
CliRec == [op : {"none", "start", "rstart", "stop", "rstop"}, pid : Pids \cup {0},
           pc : Places]

HostTypes ==
  /\ proc \in [Pids -> Kinds]
  /\ tick \in [Pids -> Nat]
  /\ kids \in [Pids -> {"none", "script", "other", "wedged"}]
  /\ req \in [Pids -> ReqRec]
  /\ registry \in [Pids -> RegRec]
CliTypes ==
  /\ entry \in Pids \cup {0}
  /\ cli \in [Clis -> CliRec]
  /\ \A c \in Clis : cli[c].pc = "term" => cli[c].pid \in Pids
ReapTypes ==
  /\ groups \in [Reapers -> [Pids -> RegRec]]
  /\ survivors \in [Reapers -> [Pids -> RegRec]]

\* A request has a serving daemon and a script, and a process has a generation.
ReqOk(p) ==
  /\ req[p].owner = 0 <=> req[p].at = "none"
  /\ req[p].owner # 0 => proc[req[p].owner] \in {"ready", "shutting"}
                         /\ proc[p] \in {"script", "none"}
HostOk(p) ==
  /\ proc[p] # "none" => tick[p] # 0
  /\ kids[p] = "wedged" => proc[p] = "none"

\* A record names a generation of its group and one of its daemon; the PIDs may
\* have gone to later processes since.
RegOk(p) ==
  registry[p] # NoRec =>
    /\ registry[p].owner # 0 /\ registry[p].otick # 0
    /\ registry[p].tick <= tick[p]
    /\ registry[p].otick <= tick[registry[p].owner]
    /\ registry[p].tick = tick[p] => proc[p] \in {"script", "none"}
    /\ registry[p].otick = tick[registry[p].owner]
         => proc[registry[p].owner] \in {"ready", "shutting", "none"}

\* RunningIsRecorded, of one group.
Recorded(p) ==
  req[p].at \in {"running", "killing"} =>
    registry[p] = [tick |-> tick[p], owner |-> req[p].owner, otick |-> tick[req[p].owner]]

HostInv == HostTypes /\ \A p \in Pids : ReqOk(p) /\ HostOk(p) /\ RegOk(p) /\ Recorded(p)

\* The entry names the only daemon, except while a start has yet to enter it, and
\* a stop knows it.
SoleInv ==
  /\ \A c \in Clis :
       /\ cli[c].pc \in {"record", "term", "grace"}
            => \A p \in Pids : proc[p] \in DaemonKinds => p = cli[c].pid
       /\ cli[c].pc \in {"reap", "sweep", "spawn"} => \A p \in Pids : proc[p] \notin DaemonKinds
  /\ (\A c \in Clis : cli[c].pc # "record") => \A p \in Pids : proc[p] \in DaemonKinds => p = entry

\* What the registry names of a group is no orphan, or one that no signal ends.
Left(p) == Orphan(p, registry[p]) /\ registry[p].tick = tick[p] => kids[p] = "wedged"

Reaping(r) == (r \in Pids /\ proc[r] = "reaping") \/ (r \in Clis /\ cli[r].pc = "sweep")

\* What a reaper holds is still what the registry says, and a daemon that starts has
\* dealt with what it keeps.
KeptInv ==
  \A r \in Reapers : Reaping(r) => \A p \in Pids :
    /\ groups[r][p] \in {NoRec, registry[p]}
    /\ survivors[r][p] \in {NoRec, registry[p]}
    /\ r \in Pids /\ survivors[r][p] # NoRec => Left(p)

Swept == Listening # {} => \A p \in Pids : Left(p)

SoundInv == HostInv /\ CliTypes /\ ReapTypes /\ SoleInv /\ KeptInv /\ Swept
ControlInv == ~lost => SoundInv

OneShell == \A b, c \in Clis : b = c

-----------------------------------------------------------------------------
(* Records and the host's state.                                           *)

\* Zero is no PID.
LEMMA ZeroNoPid == 0 \notin Pids
BY ControlAssumption

\* The parts of a request have their types.
LEMMA ReqParts ==
  ASSUME NEW r \in ReqRec
  PROVE  /\ r.owner \in Pids \cup {0}
         /\ r.at \in {"none", "spawned", "unrecorded", "running", "killing"}
BY DEF ReqRec

\* The same for a record of the registry.
LEMMA RegParts ==
  ASSUME NEW r \in RegRec
  PROVE  r.tick \in Nat /\ r.owner \in Pids \cup {0} /\ r.otick \in Nat
BY DEF RegRec

\* The empty request and the empty record.
LEMMA NoRecs ==
  /\ NoReq \in ReqRec /\ NoReq.owner = 0 /\ NoReq.at = "none"
  /\ NoRec \in RegRec /\ NoRec.owner = 0
BY DEF NoReq, NoRec, ReqRec, RegRec

\* A PID that is handed out has no process, no group and no open request.
LEMMA UnusedIsFree ==
  ASSUME NEW p, p \in Unused
  PROVE  p \in Pids /\ proc[p] = "none" /\ kids[p] = "none" /\ req[p] = NoReq
<1>1. p \in Pids /\ ~GroupAlive(p) /\ req[p] = NoReq
  BY DEF Unused
<1> QED
  BY <1>1 DEF GroupAlive

\* How a process of the host may change in one step: its PID goes to a new one, it
\* stays, it ends, or a daemon moves on.
Ages ==
  \A q \in Pids :
    \/ tick'[q] > tick[q] /\ proc[q] = "none"
    \/ /\ tick'[q] = tick[q]
       /\ \/ proc'[q] = proc[q] \/ proc'[q] = "none"
          \/ proc[q] \in DaemonKinds /\ proc'[q] \in {"ready", "shutting"}
          \/ proc[q] = "boot" /\ proc'[q] = "reaping"

\* An open request that a step leaves open.
Held(p) ==
  /\ req'[p].owner = req[p].owner
  /\ req'[p].at = req[p].at \/ (req[p].at = "running" /\ req'[p].at = "killing")
  /\ req[p].owner # 0 => /\ tick'[p] = tick[p] /\ tick'[req[p].owner] = tick[req[p].owner]
                         /\ proc'[req[p].owner] # "none"
  /\ req'[p].at \in {"running", "killing"} => registry'[p] = registry[p]

HostStep ==
  /\ HostTypes'
  /\ Ages
  /\ \A p \in Pids : HostOk(p)'
  /\ \A p \in Pids : registry'[p] = registry[p] \/ registry'[p] = NoRec \/ RegOk(p)'
  /\ \A p \in Pids : req'[p] = NoReq \/ Held(p) \/ (ReqOk(p)' /\ Recorded(p)')

\* A record stays true while processes end and PIDs are handed out again.
LEMMA RegKept ==
  ASSUME HostInv, HostTypes', Ages, NEW p \in Pids,
         registry'[p] = registry[p] \/ registry'[p] = NoRec
  PROVE  RegOk(p)'
<1> SUFFICES ASSUME registry'[p] # NoRec
             PROVE  RegOk(p)'
  BY DEF RegOk
<1> DEFINE r == registry[p]
           o == registry[p].owner
<1>1. registry'[p] = r /\ r # NoRec
  OBVIOUS
<1>2. r \in RegRec
  BY DEF HostInv, HostTypes
<1>3. RegOk(p)
  BY DEF HostInv
<1>4. r.tick \in Nat /\ r.otick \in Nat /\ o \in Pids
  BY <1>1, <1>2, <1>3, RegParts DEF RegOk
<1>5. /\ tick[p] \in Nat /\ tick[o] \in Nat /\ tick'[p] \in Nat /\ tick'[o] \in Nat
  BY <1>4 DEF HostInv, HostTypes
<1> HIDE DEF r, o
<1>6. /\ o # 0 /\ r.otick # 0 /\ r.tick <= tick[p] /\ r.otick <= tick[o]
      /\ r.tick = tick[p] => proc[p] \in {"script", "none"}
      /\ r.otick = tick[o] => proc[o] \in {"ready", "shutting", "none"}
  BY <1>1, <1>3 DEF RegOk, r, o
<1>7. tick'[p] > tick[p] \/ (tick'[p] = tick[p] /\ (proc'[p] \in {proc[p], "none"}
                                                    \/ proc[p] \in DaemonKinds))
  BY DEF Ages, DaemonKinds
<1>8. tick'[o] > tick[o] \/ (tick'[o] = tick[o] /\ (proc'[o] \in {proc[o], "none", "ready", "shutting"}
                                                    \/ proc[o] = "boot"))
  BY <1>4 DEF Ages
<1>9. r.tick <= tick'[p] /\ r.otick <= tick'[o]
  BY <1>4, <1>5, <1>6, <1>7, <1>8
<1>10. r.tick = tick'[p] => proc'[p] \in {"script", "none"}
  <2> SUFFICES ASSUME r.tick = tick'[p]
               PROVE  proc'[p] \in {"script", "none"}
    OBVIOUS
  <2>1. tick'[p] = tick[p]
    BY <1>4, <1>5, <1>6, <1>7
  <2>2. proc[p] \in {"script", "none"}
    BY <1>6, <2>1
  <2> QED
    BY <1>5, <1>7, <2>1, <2>2 DEF DaemonKinds
<1>11. r.otick = tick'[o] => proc'[o] \in {"ready", "shutting", "none"}
  BY <1>4, <1>5, <1>6, <1>8
<1> QED
  BY <1>1, <1>6, <1>9, <1>10, <1>11 DEF RegOk, r, o

\* A host step keeps the registry and the requests in agreement.
LEMMA HostStepKeeps ==
  ASSUME HostInv, HostStep
  PROVE  HostInv'
<1>1. ASSUME NEW p \in Pids
      PROVE  RegOk(p)'
  BY <1>1, RegKept DEF HostStep
<1>2. ASSUME NEW p \in Pids
      PROVE  ReqOk(p)' /\ Recorded(p)'
  <2>1. CASE req'[p] = NoReq
    BY <2>1, NoRecs DEF ReqOk, Recorded
  <2>2. CASE Held(p)
    <3>1. ReqOk(p) /\ Recorded(p) /\ req[p] \in ReqRec
      BY DEF HostInv, HostTypes
    <3>2. req[p].owner \in Pids \cup {0}
      BY <3>1, ReqParts
    <3>3. req[p].owner # 0 => proc'[req[p].owner] \in {"ready", "shutting"}
      BY <2>2, <3>1, <3>2 DEF Held, ReqOk, HostStep, Ages, HostInv, HostTypes
    <3>4. req[p].owner # 0 => proc'[p] \in {"script", "none"}
      BY <2>2, <3>1 DEF Held, ReqOk, HostStep, Ages, DaemonKinds, HostInv, HostTypes
    <3>5. ReqOk(p)'
      BY <2>2, <3>1, <3>3, <3>4 DEF ReqOk, Held
    <3>6. Recorded(p)'
      BY <2>2, <3>1 DEF Recorded, Held, ReqOk
    <3> QED
      BY <3>5, <3>6
  <2> QED
    BY <2>1, <2>2 DEF HostStep
<1> QED
  BY <1>1, <1>2 DEF HostInv, HostStep

-----------------------------------------------------------------------------
(* The steps of the host.                                                  *)

KidsStep ==
  \A p \in Pids : /\ kids'[p] # "none" => GroupAlive(p)
                  /\ kids[p] = "wedged" => kids'[p] \in {"wedged", "none"}

\* A step that makes no daemon ready and no group an orphan of a living daemon.
Calm ==
  /\ HostStep /\ KidsStep
  /\ \A p \in Pids : proc'[p] = "ready" => proc[p] = "ready"
  /\ \A p \in Pids : registry'[p] = registry[p] \/ registry'[p] = NoRec \/ OwnerAlive(registry[p])'

\* A step that makes no daemon, and no daemon reap.
NoNewDaemon ==
  \A p \in Pids : /\ proc'[p] \in DaemonKinds => proc[p] \in DaemonKinds
                  /\ proc'[p] = "reaping" => proc[p] = "reaping"

\* What is known of a PID.
LEMMA PidKnown ==
  ASSUME HostInv, NEW p \in Pids
  PROVE  /\ proc[p] \in Kinds /\ tick[p] \in Nat
         /\ kids[p] \in {"none", "script", "other", "wedged"}
         /\ req[p] \in ReqRec /\ registry[p] \in RegRec
         /\ req[p].owner \in Pids \cup {0}
         /\ req[p].at \in {"none", "spawned", "unrecorded", "running", "killing"}
         /\ ReqOk(p) /\ HostOk(p) /\ RegOk(p) /\ Recorded(p)
         /\ req[p].owner # 0 => req[p].owner # p
BY ReqParts DEF HostInv, HostTypes, ReqOk

\* The host does not move.
LEMMA StillCalm ==
  ASSUME HostInv, UNCHANGED <<proc, tick, kids, req, registry>>
  PROVE  Calm /\ HostInv'
<1>1. HostTypes'
  BY DEF HostInv, HostTypes
<1>2. Ages
  BY DEF Ages
<1>3. KidsStep
  BY DEF KidsStep, GroupAlive
<1>4. \A p \in Pids : HostOk(p)' /\ Held(p)
  BY PidKnown DEF HostInv, HostOk, Held, ReqOk
<1>5. HostStep
  BY <1>1, <1>2, <1>4 DEF HostStep
<1> QED
  BY <1>3, <1>5, HostStepKeeps DEF Calm

\* A leader that is no daemon exits.
LEMMA LeaderExitsCalm ==
  ASSUME HostInv, NEW p \in Pids, LeaderExits(p)
  PROVE  Calm
<1>1. proc' = [proc EXCEPT ![p] = "none"] /\ proc[p] \in {"script", "other"}
      /\ UNCHANGED <<tick, kids, req, registry>>
  BY DEF LeaderExits
<1>2. HostTypes'
  BY <1>1 DEF HostInv, HostTypes, Kinds
<1>3. \A q \in Pids : proc'[q] = IF q = p THEN "none" ELSE proc[q]
  BY <1>1 DEF HostInv, HostTypes
<1>4. Ages
  BY <1>1, <1>3 DEF Ages
<1>5. KidsStep
  BY <1>1 DEF KidsStep, GroupAlive
<1>6. ASSUME NEW q \in Pids
      PROVE  HostOk(q)' /\ Held(q)
  <2>1. HostOk(q)'
    BY <1>1, <1>3, PidKnown DEF HostOk
  <2>2. req[q].owner # 0 => req[q].owner \in Pids /\ proc[req[q].owner] \in {"ready", "shutting"}
    BY PidKnown DEF ReqOk
  <2>3. req[q].owner # 0 => proc'[req[q].owner] # "none"
    BY <1>1, <1>3, <2>2
  <2> QED
    BY <1>1, <2>1, <2>3 DEF Held
<1>7. HostStep
  BY <1>1, <1>2, <1>4, <1>6 DEF HostStep
<1> QED
  BY <1>1, <1>3, <1>5, <1>7 DEF Calm

\* Helpers start and end.
LEMMA HelpersCalm ==
  ASSUME HostInv, NEW p \in Pids, Forks(p) \/ HelpersExit(p)
  PROVE  Calm
<1>1. UNCHANGED <<proc, tick, req, registry>>
  BY DEF Forks, HelpersExit
<1>2. \/ kids' = [kids EXCEPT ![p] = "none"]
      \/ kids' = [kids EXCEPT ![p] = proc[p]] /\ proc[p] \in {"script", "other"} /\ kids[p] = "none"
  BY DEF Forks, HelpersExit
<1>3. HostTypes'
  BY <1>1, <1>2 DEF HostInv, HostTypes
<1>4. \A q \in Pids : \/ kids'[q] = kids[q] \/ kids'[q] = "none"
                      \/ kids'[q] # "wedged" /\ kids[q] = "none" /\ proc[q] # "none"
  BY <1>2 DEF HostInv, HostTypes
<1>5. KidsStep
  BY <1>4 DEF KidsStep, GroupAlive
<1>6. Ages
  BY <1>1 DEF Ages
<1>7. \A q \in Pids : HostOk(q)' /\ Held(q)
  BY <1>1, <1>4, PidKnown DEF HostOk, Held, ReqOk
<1>8. HostStep
  BY <1>1, <1>3, <1>6, <1>7 DEF HostStep
<1> QED
  BY <1>1, <1>5, <1>8 DEF Calm

\* A process ends, and with it what it served; its group may go with it.
LEMMA EndsCalm ==
  ASSUME HostInv, NEW p \in Pids, proc' = [proc EXCEPT ![p] = "none"], req' = Dropped(p),
         kids' = kids \/ kids' = [kids EXCEPT ![p] = "none"],
         UNCHANGED <<tick, registry>>
  PROVE  Calm
<1>1. \A q \in Pids : proc'[q] = IF q = p THEN "none" ELSE proc[q]
  BY DEF HostInv, HostTypes
<1>2. \A q \in Pids : req'[q] = IF req[q].owner = p THEN NoReq ELSE req[q]
  BY DEF Dropped
<1>3. req' \in [Pids -> ReqRec]
  BY NoRecs DEF HostInv, HostTypes, Dropped
<1>4. HostTypes'
  BY <1>3 DEF HostInv, HostTypes, Kinds
<1>5. \A q \in Pids : kids'[q] = kids[q] \/ kids'[q] = "none"
  BY DEF HostInv, HostTypes
<1>6. KidsStep
  BY <1>5 DEF KidsStep, GroupAlive
<1>7. Ages
  BY <1>1 DEF Ages
<1>8. ASSUME NEW q \in Pids
      PROVE  HostOk(q)' /\ (req'[q] = NoReq \/ Held(q))
  <2>1. HostOk(q)'
    BY <1>1, <1>5, PidKnown DEF HostOk
  <2>2. CASE req[q].owner # p
    <3>1. req[q].owner # 0 => req[q].owner \in Pids /\ proc[req[q].owner] \in {"ready", "shutting"}
      BY PidKnown DEF ReqOk
    <3>2. req[q].owner # 0 => proc'[req[q].owner] # "none"
      BY <1>1, <2>2, <3>1
    <3> QED
      BY <1>2, <2>1, <2>2, <3>2 DEF Held
  <2> QED
    BY <1>2, <2>1, <2>2
<1>9. HostStep
  BY <1>4, <1>7, <1>8 DEF HostStep
<1> QED
  BY <1>1, <1>6, <1>9 DEF Calm

\* A PID goes to a new process, which serves nothing yet and, unless it is a
\* script, is served by nobody.
LEMMA BornCalm ==
  ASSUME HostInv, NEW p \in Pids, NEW kind \in Kinds \ {"none", "ready", "reaping"}, Born(p, kind),
         UNCHANGED <<kids, registry>>,
         \/ req' = req
         \/ \E d \in Pids : /\ kind = "script" /\ proc[d] \in {"ready", "shutting"}
                            /\ req' = [req EXCEPT ![p] = [owner |-> d, at |-> "spawned"]]
  PROVE  Calm
<1>1. proc[p] = "none" /\ kids[p] = "none" /\ req[p] = NoReq
  BY UnusedIsFree DEF Born
<1>2. proc' = [proc EXCEPT ![p] = kind] /\ tick' = [tick EXCEPT ![p] = @ + 1]
  BY DEF Born
<1>3. \A q \in Pids : /\ proc'[q] = IF q = p THEN kind ELSE proc[q]
                      /\ tick'[q] = IF q = p THEN tick[q] + 1 ELSE tick[q]
  BY <1>2 DEF HostInv, HostTypes
<1>4. req' \in [Pids -> ReqRec]
  <2>1. \A d \in Pids : [owner |-> d, at |-> "spawned"] \in ReqRec
    BY DEF ReqRec
  <2> QED
    BY <2>1 DEF HostInv, HostTypes
<1>a. tick' \in [Pids -> Nat] /\ proc' \in [Pids -> Kinds]
  <2>1. tick \in [Pids -> Nat] /\ tick[p] + 1 \in Nat /\ proc \in [Pids -> Kinds]
    BY DEF HostInv, HostTypes
  <2> QED
    BY <1>2, <2>1
<1>5. HostTypes'
  BY <1>4, <1>a DEF HostInv, HostTypes
<1>6. Ages
  BY <1>1, <1>3 DEF Ages, HostInv, HostTypes
<1>7. KidsStep
  BY DEF KidsStep, GroupAlive
<1>8. ASSUME NEW q \in Pids
      PROVE  HostOk(q)'
  BY <1>1, <1>3, PidKnown DEF HostOk
<1>9. ASSUME NEW q \in Pids, req'[q] = req[q]
      PROVE  req'[q] = NoReq \/ Held(q)
  <2>1. CASE q = p
    BY <1>1, <1>9, <2>1
  <2>2. CASE q # p
    <3>1. req[q].owner # 0 => req[q].owner \in Pids /\ proc[req[q].owner] \in {"ready", "shutting"}
      BY PidKnown DEF ReqOk
    <3>2. req[q].owner # 0 => req[q].owner # p
      BY <1>1, <3>1
    <3> QED
      BY <1>3, <1>9, <2>2, <3>1, <3>2 DEF Held
  <2> QED
    BY <2>1, <2>2
<1>10. ASSUME NEW q \in Pids, req'[q] # req[q]
       PROVE  ReqOk(q)' /\ Recorded(q)'
  <2>1. PICK d \in Pids : /\ kind = "script" /\ proc[d] \in {"ready", "shutting"}
                          /\ req' = [req EXCEPT ![p] = [owner |-> d, at |-> "spawned"]]
    BY <1>10
  <2>2. q = p /\ req'[p] = [owner |-> d, at |-> "spawned"]
    BY <1>10, <2>1 DEF HostInv, HostTypes
  <2>3. req'[p].owner = d /\ req'[p].at = "spawned"
    BY <2>2
  <2>4. d # p /\ d # 0
    BY <1>1, <2>1, ZeroNoPid
  <2>5. proc'[d] \in {"ready", "shutting"} /\ proc'[p] = "script"
    BY <1>3, <2>1, <2>4
  <2> QED
    BY <2>2, <2>3, <2>4, <2>5 DEF ReqOk, Recorded
<1>11. HostStep
  BY <1>5, <1>6, <1>8, <1>9, <1>10 DEF HostStep
<1> QED
  BY <1>3, <1>7, <1>11 DEF Calm

\* The group's record is written while its daemon serves it.
LEMMA RegisterCalm ==
  ASSUME HostInv, NEW p \in Pids, Register(p)
  PROVE  Calm
<1> DEFINE o == req[p].owner
           rec == [tick |-> tick[p], owner |-> o, otick |-> tick[o]]
           at1 == IF Token(p) = 0 THEN "unrecorded" ELSE "running"
<1>1. req[p].at = "spawned" /\ UNCHANGED <<proc, tick, kids>>
  BY DEF Register
<1>2. o \in Pids /\ o # 0 /\ proc[o] \in {"ready", "shutting"} /\ proc[p] \in {"script", "none"}
  BY <1>1, PidKnown, ZeroNoPid DEF ReqOk
<1>3. tick[p] \in Nat /\ tick[o] \in Nat /\ tick[o] # 0
  BY <1>2, PidKnown DEF HostOk
<1>4. req' = [req EXCEPT ![p].at = at1]
  BY DEF Register
<1>5. /\ req' \in [Pids -> ReqRec] /\ req'[p].owner = o /\ req'[p].at = at1
      /\ \A q \in Pids \ {p} : req'[q] = req[q]
  BY <1>4 DEF HostInv, HostTypes, ReqRec
<1>6. rec \in RegRec
  BY <1>2, <1>3 DEF RegRec
<1>7. registry' = registry \/ registry' = [registry EXCEPT ![p] = rec]
  BY DEF Register
<1>8. Token(p) # 0 => registry'[p] = rec
  BY DEF Register, HostInv, HostTypes
<1>9. HostTypes'
  BY <1>1, <1>5, <1>6, <1>7 DEF HostInv, HostTypes
<1>10. Ages /\ KidsStep
  BY <1>1 DEF Ages, KidsStep, GroupAlive
<1>11. \A q \in Pids : HostOk(q)'
  BY <1>1, PidKnown DEF HostOk
<1>12. rec.tick = tick[p] /\ rec.owner = o /\ rec.otick = tick[o]
  OBVIOUS
<1> HIDE DEF rec
<1>13. registry'[p] = rec => RegOk(p)' /\ OwnerAlive(registry[p])'
  BY <1>1, <1>2, <1>3, <1>12 DEF RegOk, OwnerAlive, Token
<1>14. \A q \in Pids : registry'[q] = registry[q] \/ (q = p /\ registry'[q] = rec)
  BY <1>7 DEF HostInv, HostTypes
<1>15. ReqOk(p)'
  BY <1>1, <1>2, <1>5 DEF ReqOk
<1>16. Recorded(p)'
  BY <1>1, <1>5, <1>8 DEF Recorded, rec
<1>17. \A q \in Pids \ {p} : Held(q)
  <2> SUFFICES ASSUME NEW q \in Pids \ {p}
               PROVE  Held(q)
    OBVIOUS
  <2>1. req[q].owner # 0 => proc[req[q].owner] # "none"
    BY PidKnown DEF ReqOk
  <2> QED
    BY <1>1, <1>5, <1>14, <2>1 DEF Held
<1>18. HostStep
  BY <1>9, <1>10, <1>11, <1>13, <1>14, <1>15, <1>16, <1>17 DEF HostStep
<1> QED
  BY <1>1, <1>10, <1>13, <1>14, <1>18 DEF Calm

\* A request ends, its record with it.
LEMMA RequestEndsCalm ==
  ASSUME HostInv, NEW p \in Pids, RequestEnds(p)
  PROVE  Calm
<1>1. UNCHANGED <<proc, tick, kids>> /\ req' = [req EXCEPT ![p] = NoReq]
  BY DEF RequestEnds
<1>2. registry' = registry \/ registry' = [registry EXCEPT ![p] = NoRec]
  BY DEF RequestEnds, Unregistered
<1>3. HostTypes'
  BY <1>1, <1>2, NoRecs DEF HostInv, HostTypes
<1>4. Ages /\ KidsStep
  BY <1>1 DEF Ages, KidsStep, GroupAlive
<1>5. ASSUME NEW q \in Pids
      PROVE  HostOk(q)' /\ (req'[q] = NoReq \/ Held(q))
  <2>1. q # p => req'[q] = req[q] /\ registry'[q] = registry[q]
    BY <1>1, <1>2 DEF HostInv, HostTypes
  <2>2. req'[p] = NoReq
    BY <1>1 DEF HostInv, HostTypes
  <2>3. req[q].owner # 0 => proc[req[q].owner] # "none"
    BY PidKnown DEF ReqOk
  <2> QED
    BY <1>1, <2>1, <2>2, <2>3, PidKnown DEF HostOk, Held
<1>6. \A q \in Pids : registry'[q] = registry[q] \/ registry'[q] = NoRec
  BY <1>2 DEF HostInv, HostTypes
<1>7. HostStep
  BY <1>3, <1>4, <1>5, <1>6 DEF HostStep
<1> QED
  BY <1>1, <1>4, <1>6, <1>7 DEF Calm

\* A timeout begins the kill with the record in place.
LEMMA RequestTimeoutCalm ==
  ASSUME HostInv, NEW p \in Pids, RequestTimeout(p)
  PROVE  Calm
<1>1. UNCHANGED <<proc, tick, kids, registry>> /\ req' = [req EXCEPT ![p].at = "killing"]
      /\ req[p].at = "running"
  BY DEF RequestTimeout
<1>2. /\ req' \in [Pids -> ReqRec] /\ req'[p].owner = req[p].owner /\ req'[p].at = "killing"
      /\ \A q \in Pids \ {p} : req'[q] = req[q]
  BY <1>1 DEF HostInv, HostTypes, ReqRec
<1>3. HostTypes'
  BY <1>1, <1>2 DEF HostInv, HostTypes
<1>4. Ages /\ KidsStep
  BY <1>1 DEF Ages, KidsStep, GroupAlive
<1>5. ASSUME NEW q \in Pids
      PROVE  HostOk(q)' /\ Held(q)
  <2>1. req[q].owner # 0 => proc[req[q].owner] # "none"
    BY PidKnown DEF ReqOk
  <2>2. req'[q].owner = req[q].owner
        /\ (req'[q].at = req[q].at \/ (req[q].at = "running" /\ req'[q].at = "killing"))
    BY <1>1, <1>2
  <2> QED
    BY <1>1, <2>1, <2>2, PidKnown DEF HostOk, Held
<1>6. HostStep
  BY <1>1, <1>3, <1>4, <1>5 DEF HostStep
<1> QED
  BY <1>1, <1>4, <1>6 DEF Calm

\* The kill ends the request; what survives it is wedged.
LEMMA RequestKilledCalm ==
  ASSUME HostInv, NEW p \in Pids, RequestKilled(p)
  PROVE  Calm
<1>1. PICK rest \in {"none", "wedged"} :
        /\ rest = "wedged" => GroupAlive(p)
        /\ proc' = [proc EXCEPT ![p] = "none"]
        /\ kids' = [kids EXCEPT ![p] = rest]
  BY DEF RequestKilled
<1>2. /\ tick' = tick /\ registry' = [registry EXCEPT ![p] = NoRec]
      /\ req' = [req EXCEPT ![p] = NoReq] /\ req[p].at \in {"killing", "unrecorded"}
  BY DEF RequestKilled
<1>3. HostTypes'
  BY <1>1, <1>2, NoRecs DEF HostInv, HostTypes, Kinds
<1>4. \A q \in Pids : /\ proc'[q] = IF q = p THEN "none" ELSE proc[q]
                      /\ kids'[q] = IF q = p THEN rest ELSE kids[q]
                      /\ registry'[q] = IF q = p THEN NoRec ELSE registry[q]
                      /\ req'[q] = IF q = p THEN NoReq ELSE req[q]
  BY <1>1, <1>2 DEF HostInv, HostTypes
<1>5. Ages
  BY <1>2, <1>4 DEF Ages
<1>6. KidsStep
  BY <1>1, <1>4 DEF KidsStep, GroupAlive
<1>7. proc[p] \in {"script", "none"}
  BY <1>2, PidKnown DEF ReqOk
<1>8. ASSUME NEW q \in Pids
      PROVE  HostOk(q)' /\ (req'[q] = NoReq \/ Held(q))
  <2>1. HostOk(q)'
    BY <1>2, <1>4, PidKnown DEF HostOk
  <2>2. req[q].owner # 0 => req[q].owner \in Pids /\ proc[req[q].owner] \in {"ready", "shutting"}
    BY PidKnown DEF ReqOk
  <2>3. req[q].owner # 0 => proc'[req[q].owner] # "none"
    BY <1>4, <1>7, <2>2
  <2> QED
    BY <1>2, <1>4, <2>1, <2>3 DEF Held
<1>9. HostStep
  BY <1>3, <1>4, <1>5, <1>8 DEF HostStep
<1> QED
  BY <1>4, <1>6, <1>9 DEF Calm

\* A signal makes a server drain.
LEMMA DrainCalm ==
  ASSUME HostInv, NEW p \in Pids, proc[p] \in {"ready", "shutting"},
         proc' = [proc EXCEPT ![p] = "shutting"], UNCHANGED <<tick, kids, req, registry>>
  PROVE  Calm
<1>1. HostTypes'
  BY DEF HostInv, HostTypes, Kinds, DaemonKinds
<1>2. \A q \in Pids : proc'[q] = IF q = p THEN "shutting" ELSE proc[q]
  BY DEF HostInv, HostTypes
<1>3. Ages /\ KidsStep
  BY <1>2 DEF Ages, DaemonKinds, KidsStep, GroupAlive
<1>4. ASSUME NEW q \in Pids
      PROVE  HostOk(q)' /\ Held(q)
  <2>1. HostOk(q)'
    BY <1>2, PidKnown DEF HostOk
  <2>2. req[q].owner # 0 => req[q].owner \in Pids /\ proc[req[q].owner] \in {"ready", "shutting"}
    BY PidKnown DEF ReqOk
  <2>3. req[q].owner # 0 => proc'[req[q].owner] # "none"
    BY <1>2, <2>2
  <2> QED
    BY <2>1, <2>3 DEF Held
<1>5. HostStep
  BY <1>1, <1>3, <1>4 DEF HostStep
<1> QED
  BY <1>2, <1>3, <1>5 DEF Calm

\* A reaper's records of one group are records.
LEMMA NoGroupsType == NoGroups \in [Pids -> RegRec]
BY NoRecs DEF NoGroups

\* What other reapers hold stays when one of them ends.
LEMMA ForgetsElse ==
  ASSUME ReapTypes, NEW r \in Reapers, Forgets(r)
  PROVE  /\ ReapTypes'
         /\ \A q \in Reapers \ {r} : groups'[q] = groups[q] /\ survivors'[q] = survivors[q]
BY NoGroupsType DEF ReapTypes, Forgets

\* The same when one of them loads the registry.
LEMMA LoadElse ==
  ASSUME HostInv, ReapTypes, NEW r \in Reapers, ReapLoad(r)
  PROVE  /\ ReapTypes' /\ groups'[r] = registry /\ survivors'[r] = NoGroups
         /\ \A q \in Reapers \ {r} : groups'[q] = groups[q] /\ survivors'[q] = survivors[q]
BY NoGroupsType DEF ReapTypes, ReapLoad, HostInv, HostTypes

\* The same when one of them has dealt with a group.
LEMMA GroupElse ==
  ASSUME ReapTypes, NEW r \in Reapers, NEW p \in Pids, ReapGroup(r, p)
  PROVE  /\ ReapTypes'
         /\ \A q \in Reapers \ {r} : groups'[q] = groups[q] /\ survivors'[q] = survivors[q]
         /\ \A q \in Pids : groups'[r][q] \in {NoRec, groups[r][q]}
         /\ \A q \in Pids \ {p} : survivors'[r][q] = survivors[r][q]
         /\ survivors'[r][p] \in {survivors[r][p], groups[r][p]}
<1> DEFINE rec == groups[r][p]
           g == [groups[r] EXCEPT ![p] = NoRec]
           v == [survivors[r] EXCEPT ![p] = rec]
<1>1. groups[r] \in [Pids -> RegRec] /\ survivors[r] \in [Pids -> RegRec] /\ rec \in RegRec
  BY DEF ReapTypes
<1>2. g \in [Pids -> RegRec] /\ \A q \in Pids : g[q] = IF q = p THEN NoRec ELSE groups[r][q]
  BY <1>1, NoRecs
<1>3. v \in [Pids -> RegRec] /\ \A q \in Pids : v[q] = IF q = p THEN rec ELSE survivors[r][q]
  BY <1>1
<1>4. groups' = [groups EXCEPT ![r] = g]
  BY DEF ReapGroup
<1>5. survivors' = survivors \/ survivors' = [survivors EXCEPT ![r] = v]
  BY DEF ReapGroup
<1> HIDE DEF g, v, rec
<1>6. ReapTypes'
  BY <1>2, <1>3, <1>4, <1>5 DEF ReapTypes
<1>7. groups'[r] = g /\ survivors'[r] \in {survivors[r], v}
  BY <1>4, <1>5 DEF ReapTypes
<1>8. \A q \in Reapers \ {r} : groups'[q] = groups[q] /\ survivors'[q] = survivors[q]
  BY <1>4, <1>5 DEF ReapTypes
<1> QED
  BY <1>2, <1>3, <1>6, <1>7, <1>8 DEF rec

\* A record that is kept has a living owner or a group that survived.
LEMMA KeptWhy ==
  ASSUME HostInv, ReapTypes, NEW r \in Reapers, NEW p \in Pids, ReapGroup(r, p),
         survivors'[r][p] # survivors[r][p]
  PROVE  OwnerAlive(groups[r][p]) \/ kids'[p] = "wedged"
<1> DEFINE rec == groups[r][p]
<1>1. PICK wedged \in {Orphan(p, rec), FALSE} :
        /\ kids' = IF Orphan(p, rec) THEN [kids EXCEPT ![p] = IF wedged THEN "wedged" ELSE "none"]
                   ELSE kids
        /\ survivors' = IF (~Reused(p, rec) /\ OwnerAlive(rec)) \/ wedged
                          THEN [survivors EXCEPT ![r][p] = rec] ELSE survivors
  BY DEF ReapGroup
<1> HIDE DEF rec
<1>2. OwnerAlive(rec) \/ wedged
  BY <1>1
<1>3. wedged => Orphan(p, rec)
  BY <1>1
<1>4. wedged => kids'[p] = "wedged"
  BY <1>1, <1>3 DEF HostInv, HostTypes
<1> QED
  BY <1>2, <1>4 DEF rec

\* Dealing with a group ends or wedges it, or leaves it alone.
LEMMA ReapGroupCalm ==
  ASSUME HostInv, NEW r \in Reapers, NEW p \in Pids, ReapGroup(r, p),
         \A q \in Pids : req[q].owner = 0
  PROVE  Calm /\ NoNewDaemon
<1> DEFINE rec == groups[r][p]
<1>1. /\ UNCHANGED <<tick, req, registry>>
      /\ \/ proc' = proc /\ kids' = kids
         \/ /\ GroupAlive(p) /\ proc' = [proc EXCEPT ![p] = "none"]
            /\ \E rest \in {"none", "wedged"} : kids' = [kids EXCEPT ![p] = rest]
  <2>1. Orphan(p, rec) => GroupAlive(p)
    BY DEF Orphan
  <2>2. /\ proc' = IF Orphan(p, rec) THEN [proc EXCEPT ![p] = "none"] ELSE proc
        /\ \E wedged \in {Orphan(p, rec), FALSE} :
             kids' = IF Orphan(p, rec) THEN [kids EXCEPT ![p] = IF wedged THEN "wedged" ELSE "none"]
                     ELSE kids
    BY DEF ReapGroup
  <2>3. UNCHANGED <<tick, req, registry>>
    BY DEF ReapGroup
  <2> HIDE DEF rec
  <2> QED
    BY <2>1, <2>2, <2>3
<1>2. CASE proc' = proc /\ kids' = kids
  BY <1>1, <1>2, StillCalm DEF NoNewDaemon
<1>3. CASE /\ GroupAlive(p) /\ proc' = [proc EXCEPT ![p] = "none"]
           /\ \E rest \in {"none", "wedged"} : kids' = [kids EXCEPT ![p] = rest]
  <2>1. PICK rest \in {"none", "wedged"} : kids' = [kids EXCEPT ![p] = rest]
    BY <1>3
  <2>2. HostTypes'
    BY <1>1, <1>3, <2>1 DEF HostInv, HostTypes, Kinds
  <2>3. \A q \in Pids : /\ proc'[q] = IF q = p THEN "none" ELSE proc[q]
                        /\ kids'[q] = IF q = p THEN rest ELSE kids[q]
    BY <1>3, <2>1 DEF HostInv, HostTypes
  <2>4. Ages /\ KidsStep
    BY <1>1, <1>3, <2>3 DEF Ages, KidsStep, GroupAlive
  <2>5. ASSUME NEW q \in Pids
        PROVE  HostOk(q)' /\ Held(q)
    <3>1. req[q].at = "none"
      BY PidKnown DEF ReqOk
    <3> QED
      BY <1>1, <2>3, <3>1, PidKnown DEF HostOk, Held
  <2>6. HostStep
    BY <1>1, <2>2, <2>4, <2>5 DEF HostStep
  <2> QED
    BY <1>1, <2>3, <2>4, <2>6 DEF Calm, NoNewDaemon, DaemonKinds
<1> QED
  BY <1>1, <1>2, <1>3

\* Writing back what the registry said, or less, when no request is open.
LEMMA SaveStep ==
  ASSUME HostInv, registry' \in [Pids -> RegRec],
         \A q \in Pids : req[q].owner = 0 /\ registry'[q] \in {NoRec, registry[q]},
         UNCHANGED <<proc, tick, kids, req>>
  PROVE  Calm
<1>1. HostTypes'
  BY DEF HostInv, HostTypes
<1>2. Ages /\ KidsStep
  BY DEF Ages, KidsStep, GroupAlive
<1>3. ASSUME NEW q \in Pids
      PROVE  HostOk(q)' /\ Held(q)
  <2>1. req[q].at = "none"
    BY PidKnown DEF ReqOk
  <2> QED
    BY <2>1, PidKnown DEF HostOk, Held
<1>4. HostStep
  BY <1>1, <1>2, <1>3 DEF HostStep
<1> QED
  BY <1>2, <1>4 DEF Calm

-----------------------------------------------------------------------------
(* The steps of a shell.                                                   *)

\* Only shell c moves, and to this command and place.
Became(c, op, pc, pid) ==
  /\ cli' \in [Clis -> CliRec]
  /\ \A b \in Clis \ {c} : cli'[b] = cli[b]
  /\ cli'[c].op = op /\ cli'[c].pc = pc /\ cli'[c].pid = pid

\* The parts of a shell have their types.
LEMMA CliParts ==
  ASSUME CliTypes, NEW c \in Clis
  PROVE  /\ cli[c] \in CliRec /\ cli[c].pid \in Pids \cup {0}
         /\ cli[c].op \in {"none", "start", "rstart", "stop", "rstop"}
         /\ cli[c].pc \in Places
BY DEF CliTypes, CliRec

\* Goto moves the place.
LEMMA GotoBecame ==
  ASSUME CliTypes, NEW c \in Clis,
         NEW pc \in Places, Goto(c, pc)
  PROVE  Became(c, cli[c].op, pc, cli[c].pid)
<1> DEFINE r == [cli[c] EXCEPT !.pc = pc]
<1>1. cli[c] \in CliRec
  BY CliParts
<1>2. r \in CliRec /\ r.op = cli[c].op /\ r.pc = pc /\ r.pid = cli[c].pid
  BY <1>1 DEF CliRec
<1>3. cli' = [cli EXCEPT ![c] = r]
  BY DEF Goto
<1> HIDE DEF r
<1> QED
  BY <1>2, <1>3 DEF Became, CliTypes

\* Done ends the command.
LEMMA DoneBecame ==
  ASSUME CliTypes, NEW c \in Clis, Done(c)
  PROVE  Became(c, "none", "none", 0)
<1>1. Idle \in CliRec /\ Idle.op = "none" /\ Idle.pc = "none" /\ Idle.pid = 0
  BY DEF Idle, CliRec, Places
<1> QED
  BY <1>1 DEF Became, Done, CliTypes

\* A command or a place given in full.
LEMMA PlaceBecame ==
  ASSUME CliTypes, NEW c \in Clis, NEW r \in CliRec, cli' = [cli EXCEPT ![c] = r]
  PROVE  Became(c, r.op, r.pc, r.pid)
BY DEF Became, CliTypes

\* The targets of a stop are PIDs.
LEMMA TargetKnown ==
  ASSUME CliTypes, NEW c \in Clis
  PROVE  Target(c) \in Pids \cup {0} /\ LiveWorkerPid \in {0, entry}
<1>1. LiveWorkerPid \in {0, entry}
  BY DEF LiveWorkerPid
<1>2. LocalTarget \in Pids \cup {0}
  BY <1>1 DEF LocalTarget, CliTypes
<1>3. RemoteTarget \in Pids \cup {0}
  <2>1. CASE Listening = {}
    BY <1>1, <2>1 DEF RemoteTarget, CliTypes
  <2>2. CASE Listening # {}
    <3>1. (CHOOSE p \in Listening : TRUE) \in Listening
      BY <2>2
    <3> QED
      BY <2>2, <3>1 DEF RemoteTarget, Listening
  <2> QED
    BY <2>1, <2>2
<1> QED
  BY <1>1, <1>2, <1>3 DEF Target

\* A step that leaves the host and the entry alone, and what daemons hold.
Rests ==
  /\ UNCHANGED <<proc, tick, kids, req, registry, entry>>
  /\ ReapTypes'
  /\ \A d \in Pids : groups'[d] = groups[d] /\ survivors'[d] = survivors[d]

\* A shell that only looks rests.
LEMMA LookRests ==
  ASSUME ReapTypes, UNCHANGED <<host, registry, entry>>
  PROVE  Rests
BY DEF ReapTypes, Rests, host, reaps

\* What the steps of a shell that leave the host alone do to the shell.
Talks(c) ==
  /\ Rests /\ cli[c].pc # "record"
  /\ \E op, pc, pid :
       /\ Became(c, op, pc, pid)
       /\ \/ pc \notin {"record", "term", "grace", "reap", "sweep", "spawn"}
          \/ cli[c].pc = "probe" /\ pc = "spawn" /\ LiveWorkerPid = 0
          \/ cli[c].pc = "look" /\ pid = Target(c) /\ pc = IF pid = 0 THEN "reap" ELSE "term"

\* The look of a stop takes its target.
LEMMA StopLookTalks ==
  ASSUME CliTypes, ReapTypes, NEW c \in Clis, StopLook(c)
  PROVE  Talks(c)
<1> DEFINE pc1 == IF Target(c) = 0 THEN "reap" ELSE "term"
           r == [cli[c] EXCEPT !.pid = Target(c), !.pc = pc1]
<1>1. Target(c) \in Pids \cup {0} /\ cli[c] \in CliRec
  BY TargetKnown, CliParts
<1>2. r \in CliRec /\ r.op = cli[c].op /\ r.pc = pc1 /\ r.pid = Target(c)
  BY <1>1 DEF CliRec, Places
<1>3. cli' = [cli EXCEPT ![c] = r]
  BY DEF StopLook
<1> HIDE DEF r
<1>4. Became(c, cli[c].op, pc1, Target(c))
  BY <1>2, <1>3, PlaceBecame
<1>5. Rests /\ cli[c].pc = "look"
  BY LookRests DEF StopLook, At
<1> QED
  BY <1>4, <1>5 DEF Talks

\* The probes of a start.
LEMMA StartTalks ==
  ASSUME CliTypes, ReapTypes, NEW c \in Clis, StartProbe(c) \/ SpawnFails(c) \/ StartPoll(c)
  PROVE  Talks(c)
<1>a. Rests /\ cli[c].pc \in {"probe", "spawn", "poll"}
  BY LookRests DEF StartProbe, SpawnFails, StartPoll, At
<1>1. CASE StartProbe(c)
  <2>1. Done(c) \/ Goto(c, IF LiveWorkerPid # 0 THEN "look" ELSE "spawn")
    BY <1>1 DEF StartProbe
  <2>2. CASE Done(c)
    BY <1>a, <2>2, DoneBecame DEF Talks
  <2>3. CASE Goto(c, "look")
    BY <1>a, <2>3, GotoBecame DEF Talks, Places
  <2>4. CASE LiveWorkerPid = 0 /\ Goto(c, "spawn")
    BY <1>1, <1>a, <2>4, GotoBecame DEF Talks, StartProbe, At, Places
  <2> QED
    BY <2>1, <2>2, <2>3, <2>4
<1>2. CASE SpawnFails(c)
  BY <1>2, <1>a, DoneBecame DEF Talks, SpawnFails
<1>3. CASE StartPoll(c)
  <2>1. CASE Done(c)
    BY <1>a, <2>1, DoneBecame DEF Talks
  <2>2. CASE cli' = [cli EXCEPT ![c] = [@ EXCEPT !.pc = "look", !.op = "stop"]]
    <3> DEFINE r == [cli[c] EXCEPT !.pc = "look", !.op = "stop"]
    <3>1. cli[c] \in CliRec
      BY CliParts
    <3>2. r \in CliRec /\ r.pc = "look"
      BY <3>1 DEF CliRec, Places
    <3>3. cli' = [cli EXCEPT ![c] = r]
      BY <2>2
    <3> HIDE DEF r
    <3>4. Became(c, r.op, "look", r.pid)
      BY <3>2, <3>3, PlaceBecame
    <3> QED
      BY <1>a, <3>4 DEF Talks
  <2> QED
    BY <1>3, <2>1, <2>2 DEF StartPoll
<1> QED
  BY <1>1, <1>2, <1>3

\* The steps of a remote start before the host's own.
LEMMA RemoteTalks ==
  ASSUME CliTypes, ReapTypes, NEW c \in Clis, Remote(c)
  PROVE  Talks(c)
<1>1. Rests /\ cli[c].pc # "record"
  BY LookRests DEF Remote, RemoteProbe, RemoteTunnel, RemoteDiagnose, At
<1>2. Done(c) \/ Goto(c, "rtunnel") \/ Goto(c, "rcheck") \/ RemoteStart(c)
  BY DEF Remote, RemoteProbe, RemoteTunnel, RemoteDiagnose
<1>3. CASE Done(c)
  BY <1>1, <1>3, DoneBecame DEF Talks
<1>4. CASE Goto(c, "rtunnel") \/ Goto(c, "rcheck")
  BY <1>1, <1>4, GotoBecame DEF Talks, Places
<1>5. CASE RemoteStart(c)
  <2> DEFINE r == [cli[c] EXCEPT !.pc = "probe", !.op = "start"]
  <2>1. cli[c] \in CliRec
    BY CliParts
  <2>2. r \in CliRec /\ r.pc = "probe"
    BY <2>1 DEF CliRec, Places
  <2>3. cli' = [cli EXCEPT ![c] = r]
    BY <1>5 DEF RemoteStart
  <2> HIDE DEF r
  <2>4. Became(c, r.op, "probe", r.pid)
    BY <2>2, <2>3, PlaceBecame
  <2> QED
    BY <1>1, <2>4 DEF Talks
<1> QED
  BY <1>2, <1>3, <1>4, <1>5

\* An interrupted command forgets what it held.
LEMMA InterruptedRests ==
  ASSUME ReapTypes, NEW c \in Clis, Interrupted(c)
  PROVE  Rests
<1>1. Forgets(c) /\ UNCHANGED <<proc, tick, kids, req, registry, entry>>
  BY DEF Interrupted
<1>2. c \in Reapers /\ Pids \subseteq Reapers \ {c}
  BY ControlAssumption DEF Reapers
<1> QED
  BY <1>1, <1>2, ForgetsElse DEF Rests

\* A command begins at its first place, or is interrupted.
LEMMA CommandTalks ==
  ASSUME CliTypes, ReapTypes, NEW c \in Clis,
         Command(c) \/ (Interrupted(c) /\ cli[c].pc # "record")
  PROVE  Talks(c)
<1>1. CASE Interrupted(c) /\ cli[c].pc # "record"
  <2>1. Done(c)
    BY <1>1 DEF Interrupted
  <2> QED
    BY <1>1, <2>1, DoneBecame, InterruptedRests DEF Talks
<1>2. CASE Command(c)
  <2>1. PICK op \in DOMAIN FirstStep :
          cli' = [cli EXCEPT ![c] = [op |-> op, pc |-> FirstStep[op], pid |-> 0]]
    BY <1>2 DEF Command
  <2>2. op \in {"start", "rstart", "stop", "rstop"} /\ FirstStep[op] \in {"probe", "rprobe", "look"}
    BY DEF FirstStep
  <2> DEFINE r == [op |-> op, pc |-> FirstStep[op], pid |-> 0]
  <2>3. r \in CliRec /\ r.pc \in {"probe", "rprobe", "look"}
    BY <2>2 DEF CliRec, Places
  <2>4. cli' = [cli EXCEPT ![c] = r]
    BY <2>1
  <2> HIDE DEF r
  <2>5. Became(c, r.op, r.pc, r.pid)
    BY <2>3, <2>4, PlaceBecame
  <2>6. Rests /\ cli[c].pc # "record"
    BY <1>2, LookRests DEF Command, Idle
  <2> QED
    BY <2>3, <2>5, <2>6 DEF Talks
<1> QED
  BY <1>1, <1>2

-----------------------------------------------------------------------------
(* What reapers hold.                                                      *)

\* Who still reaps after a step did before it, and holds the same.
Undisturbed ==
  \A r \in Reapers :
    Reaping(r)' => Reaping(r) /\ groups'[r] = groups[r] /\ survivors'[r] = survivors[r]

\* There is at most one daemon.
LEMMA OneDaemon ==
  ASSUME SoleInv, NEW p \in Pids, NEW q \in Pids,
         proc[p] \in DaemonKinds, proc[q] \in DaemonKinds
  PROVE  p = q
<1>1. CASE \E c \in Clis : cli[c].pc = "record"
  BY <1>1 DEF SoleInv
<1>2. CASE \A c \in Clis : cli[c].pc # "record"
  BY <1>2 DEF SoleInv
<1> QED
  BY <1>1, <1>2

\* While somebody reaps, nobody serves: there are no requests, and nobody who owns
\* a group lives.
LEMMA ReapingAlone ==
  ASSUME HostInv, SoleInv, NEW r \in Reapers, Reaping(r), NEW p \in Pids
  PROVE  /\ req[p].owner = 0 /\ req[p].at = "none"
         /\ registry[p] # NoRec => ~OwnerAlive(registry[p])
         /\ proc[p] \notin {"boot", "ready", "shutting"}
<1>1. ASSUME NEW q \in Pids
      PROVE  proc[q] \notin {"boot", "ready", "shutting"}
  <2>1. CASE r \in Clis /\ cli[r].pc = "sweep"
    BY <2>1 DEF SoleInv, DaemonKinds
  <2>2. CASE r \in Pids /\ proc[r] = "reaping"
    BY <2>2, OneDaemon DEF DaemonKinds
  <2> QED
    BY <2>1, <2>2 DEF Reaping
<1>2. req[p].owner = 0 /\ req[p].at = "none"
  BY <1>1, PidKnown DEF ReqOk
<1>3. ASSUME registry[p] # NoRec, OwnerAlive(registry[p])
      PROVE  FALSE
  <2> DEFINE o == registry[p].owner
  <2>1. RegOk(p) /\ registry[p] \in RegRec
    BY PidKnown
  <2>2. o \in Pids /\ registry[p].otick # 0 /\ Token(o) = registry[p].otick
    BY <1>3, <2>1, RegParts DEF OwnerAlive, RegOk
  <2>3. proc[o] # "none" /\ tick[o] = registry[p].otick
    BY <2>2 DEF Token
  <2>4. proc[o] \in {"ready", "shutting"}
    BY <1>3, <2>1, <2>3 DEF RegOk
  <2> QED
    BY <1>1, <2>2, <2>4
<1> QED
  BY <1>1, <1>2, <1>3

\* Nobody else reaps meanwhile.
LEMMA OneReaper ==
  ASSUME OneShell, SoleInv, NEW r \in Reapers, NEW s \in Reapers, Reaping(r), Reaping(s)
  PROVE  r = s
<1>1. CASE r \in Clis /\ cli[r].pc = "sweep"
  <2>1. \A q \in Pids : proc[q] # "reaping"
    BY <1>1 DEF SoleInv, DaemonKinds
  <2> QED
    BY <1>1, <2>1 DEF Reaping, OneShell
<1>2. CASE s \in Clis /\ cli[s].pc = "sweep"
  <2>1. \A q \in Pids : proc[q] # "reaping"
    BY <1>2 DEF SoleInv, DaemonKinds
  <2> QED
    BY <1>2, <2>1 DEF Reaping, OneShell
<1>3. CASE r \in Pids /\ proc[r] = "reaping" /\ s \in Pids /\ proc[s] = "reaping"
  BY <1>3, OneDaemon DEF DaemonKinds
<1> QED
  BY <1>1, <1>2, <1>3 DEF Reaping

\* A calm step makes no new orphan of a group whose owner it does not end.
LEMMA CalmLeft ==
  ASSUME HostInv, Calm, NEW p \in Pids, Left(p),
         OwnerAlive(registry[p]) => OwnerAlive(registry[p])' \/ registry'[p] = NoRec
  PROVE  Left(p)'
<1> SUFFICES ASSUME Orphan(p, registry[p])', registry'[p].tick = tick'[p]
             PROVE  kids'[p] = "wedged"
  BY DEF Left
<1>1. HostStep
  BY DEF Calm
<1>2. /\ registry'[p] # NoRec /\ ~OwnerAlive(registry[p])'
      /\ (proc'[p] # "none" \/ kids'[p] # "none")
  BY DEF Orphan, GroupAlive
<1>3. registry'[p] = registry[p]
  BY <1>2 DEF Calm
<1>6. RegOk(p) /\ HostOk(p) /\ registry[p] \in RegRec /\ tick[p] \in Nat
  BY PidKnown
<1>7. registry[p].tick \in Nat /\ registry[p].tick <= tick[p] /\ tick'[p] \in Nat
  BY <1>1, <1>2, <1>3, <1>6, RegParts DEF RegOk, HostStep, HostTypes
<1>8. tick'[p] = tick[p] /\ registry[p].tick = tick[p]
      /\ (proc'[p] = proc[p] \/ proc'[p] = "none" \/ proc[p] \in DaemonKinds)
  BY <1>1, <1>2, <1>3, <1>6, <1>7 DEF HostStep, Ages, DaemonKinds
<1>9. ~Reused(p, registry[p])
  BY <1>8 DEF Reused, Token
<1>a. proc[p] \in {"script", "none"}
  BY <1>2, <1>3, <1>6, <1>8 DEF RegOk
<1>10. GroupAlive(p)
  BY <1>2, <1>8, <1>a DEF Calm, KidsStep, GroupAlive, DaemonKinds
<1>11. ~OwnerAlive(registry[p])
  BY <1>2
<1>12. Orphan(p, registry[p])
  BY <1>2, <1>3, <1>9, <1>10, <1>11 DEF Orphan
<1>13. kids[p] = "wedged" /\ proc[p] = "none"
  BY <1>6, <1>8, <1>12 DEF Left, HostOk
<1>14. kids'[p] \in {"wedged", "none"} /\ proc'[p] = "none"
  BY <1>8, <1>13 DEF Calm, KidsStep, DaemonKinds
<1> QED
  BY <1>2, <1>14

\* A calm step that leaves reapers and the registry alone keeps what they hold.
LEMMA KeptStays ==
  ASSUME SoundInv, Calm, Undisturbed, (\E r \in Reapers : Reaping(r)) => registry' = registry
  PROVE  KeptInv'
<1> SUFFICES ASSUME NEW r \in Reapers, Reaping(r)', NEW p \in Pids
             PROVE  /\ groups'[r][p] \in {NoRec, registry'[p]}
                    /\ survivors'[r][p] \in {NoRec, registry'[p]}
                    /\ r \in Pids /\ survivors'[r][p] # NoRec => Left(p)'
  BY DEF KeptInv
<1>1. Reaping(r) /\ groups'[r] = groups[r] /\ survivors'[r] = survivors[r]
  BY DEF Undisturbed
<1>2. registry' = registry
  BY <1>1
<1>3. HostInv /\ SoleInv /\ KeptInv
  BY DEF SoundInv
<1>4. ASSUME r \in Pids, survivors'[r][p] # NoRec
      PROVE  Left(p)'
  <2>1. Left(p) /\ registry[p] # NoRec
    BY <1>1, <1>3, <1>4 DEF KeptInv
  <2>2. ~OwnerAlive(registry[p])
    BY <1>1, <1>3, <2>1, ReapingAlone
  <2> QED
    BY <1>3, <2>1, <2>2, CalmLeft
<1> QED
  BY <1>1, <1>2, <1>3, <1>4 DEF KeptInv

\* A calm step leaves a ready daemon without new orphans: only the sole daemon's
\* groups could become orphans, and it would have to leave.
LEMMA SweptStays ==
  ASSUME SoundInv, Calm
  PROVE  Swept'
<1> SUFFICES ASSUME Listening' # {}, NEW p \in Pids
             PROVE  Left(p)'
  BY DEF Swept
<1>1. HostInv /\ HostStep /\ SoleInv
  BY DEF SoundInv, Calm
<1>2. PICK d \in Pids : proc'[d] = "ready" /\ proc[d] = "ready"
  BY DEF Listening, Calm
<1>3. Left(p)
  BY <1>2 DEF SoundInv, Swept, Listening
<1>4. ASSUME OwnerAlive(registry[p]), registry'[p] # NoRec
      PROVE  OwnerAlive(registry[p])'
  <2> DEFINE o == registry[p].owner
  <2>0. registry'[p] = registry[p] \/ OwnerAlive(registry[p])'
    BY <1>4 DEF Calm
  <2>a. SUFFICES ASSUME registry'[p] = registry[p]
                 PROVE  OwnerAlive(registry[p])'
    BY <2>0
  <2>1. RegOk(p) /\ registry[p] \in RegRec /\ registry[p] # NoRec
    BY <1>1, <1>4, <2>a, PidKnown
  <2>2. o \in Pids /\ registry[p].otick # 0 /\ Token(o) = registry[p].otick
    BY <1>4, <2>1, RegParts DEF OwnerAlive, RegOk
  <2>3. proc[o] # "none" /\ tick[o] = registry[p].otick
    BY <2>2 DEF Token
  <2>4. proc[o] \in {"ready", "shutting"}
    BY <2>1, <2>3 DEF RegOk
  <2>5. o = d
    BY <1>1, <1>2, <2>2, <2>4, OneDaemon DEF DaemonKinds
  <2>6. tick'[d] = tick[d]
    BY <1>1, <1>2 DEF HostStep, Ages
  <2> QED
    BY <1>2, <2>a, <2>2, <2>3, <2>5, <2>6, ZeroNoPid DEF OwnerAlive, Token
<1> QED
  BY <1>1, <1>3, <1>4, CalmLeft DEF SoundInv

\* The part of the invariant about the host survives calm steps.
LEMMA CalmSound ==
  ASSUME SoundInv, Calm, Undisturbed, CliTypes', ReapTypes', SoleInv',
         (\E r \in Reapers : Reaping(r)) => registry' = registry
  PROVE  SoundInv'
BY KeptStays, SweptStays, HostStepKeeps DEF SoundInv, Calm

\* Nobody starts to reap and nothing is forgotten.
LEMMA SameUndisturbed ==
  ASSUME NoNewDaemon, UNCHANGED <<groups, survivors>>,
         \A c \in Clis : cli'[c].pc = "sweep" => cli[c].pc = "sweep"
  PROVE  Undisturbed
BY DEF Undisturbed, Reaping, NoNewDaemon

\* A process that ends forgets only what it held itself.
LEMMA EndUndisturbed ==
  ASSUME ReapTypes, NoNewDaemon, NEW p \in Pids, Forgets(p), proc'[p] = "none",
         \A c \in Clis : cli'[c].pc = "sweep" => cli[c].pc = "sweep"
  PROVE  Undisturbed /\ ReapTypes'
<1>1. p \in Reapers /\ p \notin Clis
  BY ControlAssumption DEF Reapers
<1>2. ReapTypes' /\ \A q \in Reapers \ {p} : groups'[q] = groups[q] /\ survivors'[q] = survivors[q]
  BY <1>1, ForgetsElse
<1>3. ~Reaping(p)'
  BY <1>1 DEF Reaping
<1> QED
  BY <1>2, <1>3 DEF Undisturbed, Reaping, NoNewDaemon

-----------------------------------------------------------------------------
(* The steps of the host and of a shell.                                   *)

\* The steps of the host but those of a reaping daemon.
Ordinary(p) ==
  \/ Forks(p) \/ LeaderExits(p) \/ HelpersExit(p) \/ OtherStarts(p)
  \/ DaemonFails(p) \/ DaemonExits(p) \/ DaemonKilled(p)
  \/ Register(p) \/ RequestEnds(p) \/ RequestTimeout(p) \/ RequestKilled(p)
  \/ \E d \in Pids : SpawnScript(d, p)

\* They are calm.
LEMMA OrdinaryCalm ==
  ASSUME HostInv, NEW p \in Pids, Ordinary(p)
  PROVE  Calm /\ NoNewDaemon /\ entry' = entry /\ cli' = cli
<1>1. entry' = entry /\ cli' = cli
  BY DEF Ordinary, Forks, LeaderExits, HelpersExit, OtherStarts, DaemonFails, DaemonExits,
     DaemonKilled, Register, RequestEnds, RequestTimeout, RequestKilled, SpawnScript
<1>2. CASE Forks(p) \/ HelpersExit(p)
  BY <1>1, <1>2, HelpersCalm DEF NoNewDaemon, Forks, HelpersExit
<1>3. CASE LeaderExits(p)
  <2>1. NoNewDaemon
    BY <1>3 DEF NoNewDaemon, LeaderExits, HostInv, HostTypes, DaemonKinds
  <2> QED
    BY <1>1, <1>3, <2>1, LeaderExitsCalm
<1>4. CASE OtherStarts(p)
  <2>1. "other" \in Kinds \ {"none", "ready", "reaping"}
    BY DEF Kinds
  <2>2. Calm
    BY <1>4, <2>1, BornCalm DEF OtherStarts
  <2>3. NoNewDaemon
    BY <1>4 DEF NoNewDaemon, OtherStarts, Born, HostInv, HostTypes, DaemonKinds
  <2> QED
    BY <1>1, <2>2, <2>3
<1>5. CASE DaemonFails(p) \/ DaemonExits(p) \/ DaemonKilled(p)
  <2>1. Dies(p) /\ registry' = registry
    BY <1>5 DEF DaemonFails, DaemonExits, DaemonKilled
  <2>2. Calm
    BY <2>1, EndsCalm DEF Dies
  <2>3. NoNewDaemon
    BY <2>1 DEF NoNewDaemon, Dies, HostInv, HostTypes, DaemonKinds
  <2> QED
    BY <1>1, <2>2, <2>3
<1>6. CASE Register(p) \/ RequestEnds(p) \/ RequestTimeout(p)
  <2>1. NoNewDaemon
    BY <1>6 DEF NoNewDaemon, Register, RequestEnds, RequestTimeout
  <2> QED
    BY <1>1, <1>6, <2>1, RegisterCalm, RequestEndsCalm, RequestTimeoutCalm
<1>7. CASE RequestKilled(p)
  <2>1. NoNewDaemon
    BY <1>7 DEF NoNewDaemon, RequestKilled, HostInv, HostTypes, DaemonKinds
  <2> QED
    BY <1>1, <1>7, <2>1, RequestKilledCalm
<1>8. ASSUME NEW d \in Pids, SpawnScript(d, p)
      PROVE  Calm /\ NoNewDaemon
  <2>1. "script" \in Kinds \ {"none", "ready", "reaping"}
    BY DEF Kinds
  <2>2. Calm
    BY <1>8, <2>1, BornCalm DEF SpawnScript
  <2>3. NoNewDaemon
    BY <1>8 DEF NoNewDaemon, SpawnScript, Born, HostInv, HostTypes, DaemonKinds
  <2> QED
    BY <2>2, <2>3
<1> QED
  BY <1>1, <1>2, <1>3, <1>4, <1>5, <1>6, <1>7, <1>8 DEF Ordinary

\* They disturb no reaper, and change the registry only for an open request.
LEMMA OrdinaryReaps ==
  ASSUME SoundInv, NEW p \in Pids, Ordinary(p)
  PROVE  /\ Undisturbed /\ ReapTypes'
         /\ (\E r \in Reapers : Reaping(r)) => registry' = registry
<1>1. HostInv /\ ReapTypes /\ SoleInv
  BY DEF SoundInv
<1>2. NoNewDaemon /\ cli' = cli
  BY <1>1, OrdinaryCalm
<1>3. CASE DaemonFails(p) \/ DaemonExits(p) \/ DaemonKilled(p)
  <2>1. Dies(p) /\ registry' = registry
    BY <1>3 DEF DaemonFails, DaemonExits, DaemonKilled
  <2>2. Forgets(p) /\ proc'[p] = "none"
    BY <1>1, <2>1 DEF Dies, HostInv, HostTypes
  <2> QED
    BY <1>1, <1>2, <2>1, <2>2, EndUndisturbed
<1>4. CASE UNCHANGED reaps
  <2>1. UNCHANGED <<groups, survivors>>
    BY <1>4 DEF reaps
  <2>2. Undisturbed /\ ReapTypes'
    BY <1>1, <1>2, <2>1, SameUndisturbed DEF ReapTypes
  <2>3. registry' = registry \/ req[p].at # "none"
    BY DEF Ordinary, Forks, LeaderExits, HelpersExit, OtherStarts, DaemonFails, DaemonExits,
       DaemonKilled, Register, RequestEnds, RequestTimeout, RequestKilled, SpawnScript
  <2> QED
    BY <1>1, <2>2, <2>3, ReapingAlone
<1> QED
  BY <1>3, <1>4 DEF Ordinary, Forks, LeaderExits, HelpersExit, OtherStarts,
     Register, RequestEnds, RequestTimeout, RequestKilled, SpawnScript

\* The entry goes on naming the only daemon when no daemon is made.
LEMMA SoleStays ==
  ASSUME SoleInv, NoNewDaemon, entry' = entry, cli' = cli
  PROVE  SoleInv'
BY DEF SoleInv, NoNewDaemon

\* An ordinary step keeps the invariant.
LEMMA OrdinarySound ==
  ASSUME SoundInv, NEW p \in Pids, Ordinary(p)
  PROVE  SoundInv'
<1>1. HostInv /\ CliTypes /\ SoleInv
  BY DEF SoundInv
<1>2. Calm /\ NoNewDaemon /\ entry' = entry /\ cli' = cli
  BY <1>1, OrdinaryCalm
<1>3. CliTypes' /\ SoleInv'
  BY <1>1, <1>2, SoleStays DEF CliTypes
<1> QED
  BY <1>2, <1>3, OrdinaryReaps, CalmSound

\* A daemon that starts loads the registry.
LEMMA DaemonReapSound ==
  ASSUME SoundInv, NEW d \in Pids, DaemonReap(d)
  PROVE  SoundInv'
<1>1. HostInv /\ CliTypes /\ ReapTypes /\ SoleInv /\ KeptInv
  BY DEF SoundInv
<1>2. /\ proc[d] = "boot" /\ ReapLoad(d) /\ proc' = [proc EXCEPT ![d] = "reaping"]
      /\ UNCHANGED <<tick, kids, req, registry, entry, cli>>
  BY DEF DaemonReap
<1>3. d \in Reapers
  BY DEF Reapers
<1>4. ReapTypes' /\ groups'[d] = registry /\ survivors'[d] = NoGroups
  BY <1>1, <1>2, <1>3, LoadElse
<1>5. \A q \in Pids : proc'[q] = IF q = d THEN "reaping" ELSE proc[q]
  BY <1>1, <1>2 DEF HostInv, HostTypes
<1>6. HostTypes'
  BY <1>1, <1>2 DEF HostInv, HostTypes, Kinds, DaemonKinds
<1>7. Ages /\ KidsStep
  BY <1>2, <1>5 DEF Ages, KidsStep, GroupAlive
<1>8. ASSUME NEW q \in Pids
      PROVE  HostOk(q)' /\ Held(q)
  <2>1. req[q].owner # 0 => req[q].owner \in Pids /\ proc[req[q].owner] \in {"ready", "shutting"}
    BY <1>1, PidKnown DEF ReqOk
  <2>2. req[q].owner # 0 => proc'[req[q].owner] # "none"
    BY <1>5, <2>1
  <2> QED
    BY <1>1, <1>2, <1>5, <2>2, PidKnown DEF HostOk, Held
<1>9. HostStep
  BY <1>2, <1>6, <1>7, <1>8 DEF HostStep
<1>10. Calm
  BY <1>2, <1>5, <1>7, <1>9 DEF Calm
<1>11. SoleInv' /\ CliTypes'
  BY <1>1, <1>2, <1>5 DEF SoleInv, CliTypes, DaemonKinds
<1>12. ASSUME NEW r \in Reapers, Reaping(r)'
       PROVE  r = d
  <2>1. CASE Reaping(r)
    BY <1>1, <1>2, <2>1, ReapingAlone
  <2>2. CASE ~Reaping(r)
    BY <1>2, <1>5, <1>12, <2>2 DEF Reaping
  <2> QED
    BY <2>1, <2>2
<1>13. KeptInv'
  BY <1>2, <1>4, <1>12 DEF KeptInv, NoGroups
<1> QED
  BY <1>1, <1>4, <1>9, <1>10, <1>11, <1>13, HostStepKeeps, SweptStays DEF SoundInv

\* Somebody who reaps deals with a group.
LEMMA GroupSound ==
  ASSUME OneShell, SoundInv, NEW r \in Reapers, NEW p \in Pids, Reaping(r), ReapGroup(r, p),
         entry' = entry, cli' = cli
  PROVE  SoundInv'
<1>1. HostInv /\ CliTypes /\ ReapTypes /\ SoleInv /\ KeptInv
  BY DEF SoundInv
<1>2. \A q \in Pids : req[q].owner = 0
  BY <1>1, ReapingAlone
<1>3. Calm /\ NoNewDaemon /\ registry' = registry
  BY <1>1, <1>2, ReapGroupCalm DEF ReapGroup
<1>4. ReapTypes'
  BY <1>1, GroupElse
<1>5. SoleInv' /\ CliTypes'
  BY <1>1, <1>3, SoleStays DEF CliTypes
<1>6. ASSUME NEW s \in Reapers, Reaping(s)'
      PROVE  s = r
  <2>1. Reaping(s)
    BY <1>3, <1>6 DEF Reaping, NoNewDaemon
  <2> QED
    BY <1>1, <2>1, OneReaper
<1>7. ASSUME NEW q \in Pids
      PROVE  /\ groups'[r][q] \in {NoRec, registry[q]}
             /\ survivors'[r][q] \in {NoRec, registry[q]}
             /\ r \in Pids /\ survivors'[r][q] # NoRec => Left(q)'
  <2>1. groups[r][q] \in {NoRec, registry[q]} /\ survivors[r][q] \in {NoRec, registry[q]}
        /\ (r \in Pids /\ survivors[r][q] # NoRec => Left(q))
    BY <1>1 DEF KeptInv
  <2>2. groups'[r][q] \in {NoRec, groups[r][q]} /\ survivors'[r][q] \in {survivors[r][q], groups[r][q]}
        /\ (q # p => survivors'[r][q] = survivors[r][q])
    BY <1>1, GroupElse
  <2>3. ASSUME r \in Pids, survivors'[r][q] # NoRec
        PROVE  Left(q)'
    <3>1. registry[q] # NoRec
      BY <2>1, <2>2, <2>3
    <3>2. ~OwnerAlive(registry[q])
      BY <1>1, <3>1, ReapingAlone
    <3>3. CASE survivors'[r][q] = survivors[r][q]
      BY <1>1, <1>3, <2>1, <2>3, <3>2, <3>3, CalmLeft
    <3>4. CASE survivors'[r][q] # survivors[r][q]
      <4>1. q = p /\ groups[r][q] # NoRec
        BY <2>2, <3>4 DEF ReapGroup
      <4>2. OwnerAlive(groups[r][q]) \/ kids'[q] = "wedged"
        BY <1>1, <3>4, <4>1, KeptWhy
      <4> QED
        BY <2>1, <3>2, <4>1, <4>2 DEF Left
    <3> QED
      BY <3>3, <3>4
  <2> QED
    BY <2>1, <2>2, <2>3
<1>8. KeptInv'
  BY <1>3, <1>6, <1>7 DEF KeptInv
<1> QED
  BY <1>1, <1>3, <1>4, <1>5, <1>8, HostStepKeeps, SweptStays DEF SoundInv, Calm

\* A daemon that becomes ready has reaped: what it writes back is what no signal
\* ends.
LEMMA DaemonReadySound ==
  ASSUME OneShell, SoundInv, NEW d \in Pids, DaemonReady(d)
  PROVE  SoundInv'
<1> DEFINE kind == IF Listening = {} THEN "ready" ELSE "none"
<1>1. HostInv /\ CliTypes /\ ReapTypes /\ SoleInv /\ KeptInv
  BY DEF SoundInv
<1>2. /\ proc[d] = "reaping" /\ registry' = survivors[d] /\ Forgets(d)
      /\ proc' = [proc EXCEPT ![d] = kind]
      /\ UNCHANGED <<tick, kids, req, entry, cli>>
  BY DEF DaemonReady, ReapSave
<1>3. d \in Reapers /\ Reaping(d)
  BY <1>2 DEF Reapers, Reaping
<1>4. ReapTypes' /\ registry' \in [Pids -> RegRec]
  BY <1>1, <1>2, <1>3, ForgetsElse DEF ReapTypes
<1>5. \A q \in Pids : /\ proc'[q] = IF q = d THEN kind ELSE proc[q]
                      /\ registry'[q] \in {NoRec, registry[q]}
                      /\ registry'[q] # NoRec => Left(q)
  BY <1>1, <1>2, <1>3 DEF HostInv, HostTypes, KeptInv
<1>6. HostTypes'
  BY <1>1, <1>2, <1>4 DEF HostInv, HostTypes, Kinds, DaemonKinds
<1>7. Ages
  BY <1>2, <1>5 DEF Ages, DaemonKinds
<1>8. ASSUME NEW q \in Pids
      PROVE  HostOk(q)' /\ Held(q)
  <2>1. req[q].owner = 0 /\ req[q].at = "none"
    BY <1>1, <1>3, ReapingAlone
  <2> QED
    BY <1>1, <1>2, <1>5, <2>1, PidKnown DEF HostOk, Held
<1>9. HostStep
  BY <1>5, <1>6, <1>7, <1>8 DEF HostStep
<1>10. SoleInv' /\ CliTypes'
  BY <1>1, <1>2, <1>5 DEF SoleInv, CliTypes, DaemonKinds
<1>11. KeptInv'
  <2>1. ASSUME NEW r \in Reapers, Reaping(r)'
        PROVE  FALSE
    <3>1. Reaping(r)
      BY <1>2, <1>5, <2>1 DEF Reaping
    <3>2. r = d
      BY <1>1, <1>3, <3>1, OneReaper
    <3> QED
      BY <1>5, <2>1, <3>2, ControlAssumption DEF Reaping
  <2> QED
    BY <2>1 DEF KeptInv
<1>12. Swept'
  <2> SUFFICES ASSUME NEW p \in Pids, Orphan(p, registry[p])', registry'[p].tick = tick'[p]
               PROVE  kids'[p] = "wedged"
    BY DEF Swept, Left
  <2>1. registry'[p] # NoRec /\ registry'[p] = registry[p] /\ Left(p)
    BY <1>5 DEF Orphan
  <2>2. registry[p].tick = tick[p] /\ RegOk(p)
    BY <1>1, <1>2, <2>1, PidKnown
  <2>3. p # d
    BY <1>2, <2>1, <2>2 DEF RegOk
  <2>4. GroupAlive(p) /\ ~Reused(p, registry[p])
    BY <1>2, <1>5, <2>1, <2>2, <2>3 DEF Orphan, GroupAlive, Reused, Token
  <2>5. ~OwnerAlive(registry[p])
    BY <1>1, <1>3, <2>1, ReapingAlone
  <2> QED
    BY <1>2, <2>1, <2>2, <2>4, <2>5 DEF Left, Orphan
<1> QED
  BY <1>1, <1>4, <1>9, <1>10, <1>11, <1>12, HostStepKeeps DEF SoundInv

-----------------------------------------------------------------------------
(* The steps of the shell.                                                 *)

\* A shell that moves keeps its types.
LEMMA CliTypesKept ==
  ASSUME CliTypes, NEW c \in Clis, NEW op, NEW pc, NEW pid, Became(c, op, pc, pid),
         pc = "term" => pid \in Pids, entry' \in Pids \cup {0}
  PROVE  CliTypes'
BY DEF CliTypes, Became

\* A step that only moves the shell, and not to the reaping, keeps the host's part.
LEMMA RestsSound ==
  ASSUME SoundInv, NEW c \in Clis, NEW op, NEW pc, NEW pid, Became(c, op, pc, pid),
         pc = "term" => pid \in Pids, pc # "sweep", entry' \in Pids \cup {0},
         ReapTypes', \A d \in Pids : groups'[d] = groups[d] /\ survivors'[d] = survivors[d],
         UNCHANGED <<proc, tick, kids, req, registry>>, OneShell, SoleInv'
  PROVE  SoundInv'
<1>1. HostInv /\ CliTypes
  BY DEF SoundInv
<1>2. Calm
  BY <1>1, StillCalm
<1>3. Undisturbed
  BY DEF Undisturbed, Reaping, Became, OneShell
<1>4. CliTypes'
  BY <1>1, CliTypesKept
<1> QED
  BY <1>2, <1>3, <1>4, CalmSound

\* A stop's target is the only daemon there is.
LEMMA TalksSole ==
  ASSUME OneShell, SoundInv, NEW c \in Clis, Talks(c)
  PROVE  SoundInv'
<1>0. SoleInv /\ CliTypes
  BY DEF SoundInv
<1>1. PICK op, pc, pid :
       /\ Became(c, op, pc, pid)
       /\ \/ pc \notin {"record", "term", "grace", "reap", "sweep", "spawn"}
          \/ cli[c].pc = "probe" /\ pc = "spawn" /\ LiveWorkerPid = 0
          \/ cli[c].pc = "look" /\ pid = Target(c) /\ pc = IF pid = 0 THEN "reap" ELSE "term"
  BY DEF Talks
<1>2. proc' = proc /\ entry' = entry /\ cli[c].pc # "record" /\ Rests
  BY DEF Talks, Rests
<1>3. cli'[c].pc = pc /\ cli'[c].pid = pid /\ \A b \in Clis : b = c
  BY <1>1 DEF Became, OneShell
<1>4. \A p \in Pids : proc[p] \in DaemonKinds => p = entry /\ LiveWorkerPid = entry /\ entry # 0
  BY <1>0, <1>2, <1>3, ZeroNoPid DEF SoleInv, LiveWorkerPid, Daemon
<1>5. \A p \in Pids : proc[p] \in DaemonKinds => Target(c) = p
  <2> SUFFICES ASSUME NEW p \in Pids, proc[p] \in DaemonKinds
               PROVE  Target(c) = p
    OBVIOUS
  <2>1. p = entry /\ LiveWorkerPid = p /\ p # 0
    BY <1>4
  <2>2. LocalTarget = p
    BY <2>1 DEF LocalTarget
  <2>3. RemoteTarget = p
    <3>1. CASE Listening = {}
      BY <2>1, <3>1 DEF RemoteTarget
    <3>2. CASE Listening # {}
      <4>1. (CHOOSE q \in Listening : TRUE) \in Listening
        BY <3>2
      <4>2. \A q \in Listening : q = p
        BY <1>4, <2>1 DEF Listening, DaemonKinds
      <4> QED
        BY <3>2, <4>1, <4>2 DEF RemoteTarget
    <3> QED
      BY <3>1, <3>2
  <2> QED
    BY <2>2, <2>3 DEF Target
<1>6. pc \in {"record", "term", "grace"} => \A p \in Pids : proc[p] \in DaemonKinds => p = pid
  BY <1>1, <1>5
<1>7. pc \in {"reap", "sweep", "spawn"} => \A p \in Pids : proc[p] \notin DaemonKinds
  BY <1>1, <1>4, <1>5, ZeroNoPid
<1>8. SoleInv'
  BY <1>2, <1>3, <1>4, <1>6, <1>7 DEF SoleInv
<1>9. (pc = "term" => pid \in Pids) /\ pc # "sweep" /\ entry' \in Pids \cup {0}
  BY <1>0, <1>1, <1>2, TargetKnown DEF CliTypes
<1> QED
  BY <1>1, <1>2, <1>8, <1>9, RestsSound DEF Rests

\* A start enters its daemon, or it is interrupted, or its save fails when the daemon
\* is gone already.
LEMMA RecordSound ==
  ASSUME OneShell, SoundInv, ~lost', NEW c \in Clis, cli[c].pc = "record",
         StartSave(c) \/ Interrupted(c)
  PROVE  SoundInv'
<1>1. HostInv /\ CliTypes /\ ReapTypes /\ SoleInv
  BY DEF SoundInv
<1>2. \A p \in Pids : proc[p] \in DaemonKinds => p = cli[c].pid
  BY <1>1 DEF SoleInv
<1>3. cli[c].pid \in Pids \cup {0}
  BY <1>1, CliParts
<1>4. CASE StartSave(c)
  <2>2. /\ UNCHANGED <<proc, tick, kids, req, registry, groups, survivors>>
        /\ Became(c, cli[c].op, "poll", cli[c].pid)
    BY <1>1, <1>4, GotoBecame DEF StartSave, host, reaps, Places
  <2>3. \/ entry' = cli[c].pid
        \/ entry' \in {entry, 0} /\ ~Daemon(cli[c].pid)
    BY <1>4 DEF StartSave
  <2>4. \A p \in Pids : proc[p] \in DaemonKinds => p = entry'
    BY <1>2, <2>3 DEF Daemon
  <2>5. SoleInv'
    BY <2>2, <2>4 DEF SoleInv, Became, OneShell
  <2>6. entry' \in Pids \cup {0}
    BY <1>1, <1>3, <2>3 DEF CliTypes
  <2>7. ReapTypes'
    BY <1>1, <2>2 DEF ReapTypes
  <2> QED
    BY <2>2, <2>5, <2>6, <2>7, RestsSound
<1>5. CASE Interrupted(c)
  <2>1. Rests /\ Became(c, "none", "none", 0)
    BY <1>1, <1>5, InterruptedRests, DoneBecame DEF Interrupted
  <2>2. ~Daemon(cli[c].pid)
    BY <1>5 DEF Interrupted, At
  <2>3. \A p \in Pids : proc[p] \notin DaemonKinds
    BY <1>2, <2>2 DEF Daemon
  <2>4. SoleInv'
    BY <2>1, <2>3 DEF SoleInv, Rests
  <2>5. entry' \in Pids \cup {0}
    BY <1>1, <2>1 DEF Rests, CliTypes
  <2> QED
    BY <2>1, <2>4, <2>5, RestsSound DEF Rests
<1> QED
  BY <1>4, <1>5

\* The signals of a stop end a process and disturb no other reaper.
LEMMA StruckCalm ==
  ASSUME SoundInv, NEW c \in Clis, NEW p \in Pids, Struck(c, p), registry' = registry,
         \A b \in Clis : cli'[b].pc = "sweep" => cli[b].pc = "sweep"
  PROVE  Calm /\ NoNewDaemon /\ proc'[p] = "none" /\ Undisturbed /\ ReapTypes'
<1>1. HostInv /\ ReapTypes
  BY DEF SoundInv
<1>2. /\ proc' = [proc EXCEPT ![p] = "none"] /\ req' = Dropped(p) /\ tick' = tick
      /\ kids' = kids \/ kids' = [kids EXCEPT ![p] = "none"]
      /\ Forgets(p)
  BY DEF Struck
<1>3. Calm
  BY <1>1, <1>2, EndsCalm
<1>4. NoNewDaemon /\ proc'[p] = "none"
  BY <1>1, <1>2 DEF NoNewDaemon, HostInv, HostTypes, DaemonKinds
<1> QED
  BY <1>1, <1>2, <1>3, <1>4, EndUndisturbed

\* A step that leaves the host alone.
LEMMA HostRests ==
  ASSUME SoundInv, UNCHANGED host, registry' = registry,
         \A b \in Clis : cli'[b].pc = "sweep" => cli[b].pc = "sweep"
  PROVE  Calm /\ NoNewDaemon /\ Undisturbed /\ ReapTypes'
<1>1. HostInv /\ ReapTypes
  BY DEF SoundInv
<1>2. UNCHANGED <<proc, tick, kids, req, groups, survivors>>
  BY DEF host, reaps
<1>3. Calm /\ NoNewDaemon
  BY <1>1, <1>2, StillCalm DEF NoNewDaemon
<1> QED
  BY <1>1, <1>2, <1>3, SameUndisturbed DEF ReapTypes

\* SIGTERM.
LEMMA StopTermSound ==
  ASSUME OneShell, SoundInv, NEW c \in Clis, StopTerm(c)
  PROVE  SoundInv'
<1> DEFINE p == cli[c].pid
<1>1. cli[c].pc = "term" /\ p \in Pids /\ HostInv /\ CliTypes /\ ReapTypes /\ SoleInv
  BY DEF StopTerm, At, SoundInv, CliTypes
<1>2. entry' = entry /\ registry' = registry /\ Became(c, cli[c].op, "grace", p)
  BY <1>1, GotoBecame DEF StopTerm, Places
<1>3. \A b \in Clis : cli'[b].pc = "sweep" => cli[b].pc = "sweep"
  BY <1>2 DEF Became, OneShell
<1>4. Calm /\ NoNewDaemon /\ Undisturbed /\ ReapTypes'
  <2>1. CASE proc[p] \in {"ready", "shutting"}
    <3>1. proc' = [proc EXCEPT ![p] = "shutting"] /\ UNCHANGED <<tick, kids, req, groups, survivors>>
      BY <2>1 DEF StopTerm, reaps
    <3>2. Calm
      BY <1>1, <1>2, <2>1, <3>1, DrainCalm
    <3>3. NoNewDaemon
      BY <1>1, <2>1, <3>1 DEF NoNewDaemon, HostInv, HostTypes, DaemonKinds
    <3> QED
      BY <1>1, <1>3, <3>1, <3>2, <3>3, SameUndisturbed DEF ReapTypes
  <2>2. CASE Struck(c, p)
    BY <1>1, <1>2, <1>3, <2>2, StruckCalm
  <2>3. CASE UNCHANGED host
    BY <1>2, <1>3, <2>3, HostRests
  <2> QED
    BY <2>1, <2>2, <2>3 DEF StopTerm
<1>5. SoleInv'
  BY <1>1, <1>2, <1>4 DEF SoleInv, NoNewDaemon, OneShell, Became
<1>6. CliTypes'
  BY <1>1, <1>2, CliTypesKept DEF CliTypes
<1> QED
  BY <1>2, <1>4, <1>5, <1>6, CalmSound

\* SIGKILL after the grace: nobody has the target's PID then.
LEMMA StopKillSound ==
  ASSUME OneShell, SoundInv, NEW c \in Clis, StopKill(c)
  PROVE  SoundInv'
<1> DEFINE p == cli[c].pid
<1>1. cli[c].pc = "grace" /\ HostInv /\ CliTypes /\ SoleInv
  BY DEF StopKill, At, SoundInv
<1>2. entry' = entry /\ registry' = registry /\ Became(c, cli[c].op, "reap", p)
  BY <1>1, GotoBecame DEF StopKill, Places
<1>3. \A b \in Clis : cli'[b].pc = "sweep" => cli[b].pc = "sweep"
  BY <1>2 DEF Became, OneShell
<1>4. Calm /\ NoNewDaemon /\ Undisturbed /\ ReapTypes' /\ (p \in Pids => proc'[p] = "none")
  <2>1. CASE Alive(p)
    <3>1. p \in Pids /\ Struck(c, p)
      BY <2>1 DEF StopKill, Alive
    <3> QED
      BY <1>2, <1>3, <3>1, StruckCalm
  <2>2. CASE ~Alive(p)
    <3>1. UNCHANGED host
      BY <2>2 DEF StopKill
    <3>2. p \in Pids => proc'[p] = "none"
      BY <2>2, <3>1 DEF Alive, host
    <3> QED
      BY <1>2, <1>3, <3>1, <3>2, HostRests
  <2> QED
    BY <2>1, <2>2
<1>5. \A q \in Pids : proc'[q] \notin DaemonKinds
  BY <1>1, <1>4 DEF SoleInv, NoNewDaemon, DaemonKinds
<1>6. SoleInv'
  BY <1>5 DEF SoleInv
<1>7. CliTypes'
  BY <1>1, <1>2, CliTypesKept DEF CliTypes
<1> QED
  BY <1>2, <1>4, <1>6, <1>7, CalmSound

\* The stop loads the registry.
LEMMA StopReapSound ==
  ASSUME OneShell, SoundInv, NEW c \in Clis, StopReap(c)
  PROVE  SoundInv'
<1>1. HostInv /\ CliTypes /\ ReapTypes /\ SoleInv /\ cli[c].pc = "reap" /\ c \in Reapers
  BY DEF SoundInv, StopReap, At, Reapers
<1>2. /\ ReapLoad(c) /\ Goto(c, "sweep")
      /\ UNCHANGED <<proc, tick, kids, req, registry, entry>>
  BY DEF StopReap
<1>3. Became(c, cli[c].op, "sweep", cli[c].pid)
  BY <1>1, <1>2, GotoBecame DEF Places
<1>4. ReapTypes' /\ groups'[c] = registry /\ survivors'[c] = NoGroups
  BY <1>1, <1>2, LoadElse
<1>5. \A q \in Pids : proc[q] \notin DaemonKinds
  BY <1>1 DEF SoleInv
<1>6. SoleInv'
  BY <1>2, <1>5 DEF SoleInv
<1>7. CliTypes'
  BY <1>1, <1>2, <1>3, CliTypesKept DEF CliTypes
<1>8. ASSUME NEW r \in Reapers, Reaping(r)'
      PROVE  r = c
  BY <1>2, <1>5, <1>8 DEF Reaping, OneShell, DaemonKinds
<1>9. c \notin Pids
  BY ControlAssumption
<1>10. KeptInv'
  BY <1>2, <1>4, <1>8, <1>9 DEF KeptInv, NoGroups
<1>11. Calm
  BY <1>1, <1>2, StillCalm
<1> QED
  BY <1>1, <1>4, <1>6, <1>7, <1>10, <1>11, HostStepKeeps, SweptStays DEF SoundInv, Calm

\* The stop writes the registry back and removes the entry.
LEMMA StopSaveSound ==
  ASSUME OneShell, SoundInv, NEW c \in Clis, StopSave(c)
  PROVE  SoundInv'
<1>1. HostInv /\ CliTypes /\ ReapTypes /\ SoleInv /\ KeptInv /\ cli[c].pc = "sweep"
      /\ c \in Reapers
  BY DEF SoundInv, StopSave, At, Reapers
<1>2. /\ registry' = survivors[c] /\ Forgets(c) /\ entry' \in {0, entry}
      /\ UNCHANGED <<proc, tick, kids, req>>
  BY DEF StopSave, ReapSave
<1>3. Reaping(c)
  BY <1>1 DEF Reaping
<1>4. ReapTypes' /\ registry' \in [Pids -> RegRec]
  BY <1>1, <1>2, ForgetsElse DEF ReapTypes
<1>5. \A q \in Pids : req[q].owner = 0 /\ registry'[q] \in {NoRec, registry[q]}
  BY <1>1, <1>2, <1>3, ReapingAlone DEF KeptInv
<1>6. Calm
  BY <1>1, <1>2, <1>4, <1>5, SaveStep
<1>7. \E op, pc, pid : Became(c, op, pc, pid) /\ pc \in {"spawn", "none"}
  BY <1>1, GotoBecame, DoneBecame DEF StopSave, Places
<1>8. \A q \in Pids : proc[q] \notin DaemonKinds
  BY <1>1 DEF SoleInv
<1>9. SoleInv'
  BY <1>2, <1>8 DEF SoleInv
<1>10. CliTypes'
  BY <1>1, <1>2, <1>7, CliTypesKept DEF CliTypes
<1>11. KeptInv'
  BY <1>2, <1>7, <1>8 DEF KeptInv, Reaping, Became, OneShell, DaemonKinds
<1> QED
  BY <1>1, <1>4, <1>6, <1>9, <1>10, <1>11, HostStepKeeps, SweptStays DEF SoundInv, Calm

\* The spawn of a start: the only daemon, known to the shell alone.
LEMMA StartSpawnSound ==
  ASSUME OneShell, SoundInv, NEW c \in Clis, StartSpawn(c)
  PROVE  SoundInv'
<1>1. HostInv /\ CliTypes /\ ReapTypes /\ SoleInv /\ cli[c].pc = "spawn"
      /\ UNCHANGED <<kids, req, registry, entry, groups, survivors>>
  BY DEF SoundInv, StartSpawn, At, reaps
<1>2. PICK p \in Pids : /\ Born(p, "boot")
                        /\ cli' = [cli EXCEPT ![c] = [@ EXCEPT !.pc = "record", !.pid = p]]
  BY DEF StartSpawn
<1>3. "boot" \in Kinds \ {"none", "ready", "reaping"}
  BY DEF Kinds, DaemonKinds
<1>4. Calm
  BY <1>1, <1>2, <1>3, BornCalm
<1>5. \A q \in Pids : proc'[q] = IF q = p THEN "boot" ELSE proc[q]
  BY <1>1, <1>2 DEF Born, HostInv, HostTypes
<1> DEFINE r == [cli[c] EXCEPT !.pc = "record", !.pid = p]
<1>6. cli[c] \in CliRec
  BY <1>1, CliParts
<1>7. r \in CliRec /\ r.pc = "record" /\ r.pid = p
  BY <1>6 DEF CliRec, Places
<1>8. cli' = [cli EXCEPT ![c] = r]
  BY <1>2
<1> HIDE DEF r
<1>9. Became(c, r.op, "record", p)
  BY <1>1, <1>7, <1>8, PlaceBecame
<1>10. \A q \in Pids : proc'[q] \in DaemonKinds => q = p
  BY <1>1, <1>5 DEF SoleInv
<1>11. SoleInv'
  BY <1>9, <1>10 DEF SoleInv, Became, OneShell
<1>12. CliTypes'
  BY <1>1, <1>9, CliTypesKept DEF CliTypes
<1>13. Undisturbed
  BY <1>1, <1>5, <1>9 DEF Undisturbed, Reaping, Became, OneShell
<1>14. ReapTypes'
  BY <1>1 DEF ReapTypes
<1> QED
  BY <1>1, <1>4, <1>11, <1>12, <1>13, <1>14, CalmSound

-----------------------------------------------------------------------------
(* The theorems.                                                           *)

\* Every step of Next is one of these.
LEMMA NextCases ==
  ASSUME Next, CliTypes, ReapTypes
  PROVE  \/ \E p \in Pids : Ordinary(p) \/ DaemonReap(p) \/ DaemonReady(p)
         \/ \E d, p \in Pids : DaemonReapGroup(d, p)
         \/ \E c \in Clis : Talks(c)
         \/ \E c \in Clis : cli[c].pc = "record" /\ (StartSave(c) \/ Interrupted(c))
         \/ \E c \in Clis : \/ StopTerm(c) \/ StopKill(c) \/ StopReap(c) \/ StopReapGroup(c)
                            \/ StopSave(c) \/ StartSpawn(c)
         \/ UNCHANGED <<proc, tick, kids, req, registry, entry, cli, groups, survivors>>
<1>1. CASE \E p \in Pids : Processes(p)
  BY <1>1 DEF Processes, Ordinary
<1>2. ASSUME NEW c \in Clis, Command(c) \/ Run(c) \/ Interrupted(c)
      PROVE  \/ Talks(c)
             \/ cli[c].pc = "record" /\ (StartSave(c) \/ Interrupted(c))
             \/ StopTerm(c) \/ StopKill(c) \/ StopReap(c) \/ StopReapGroup(c)
             \/ StopSave(c) \/ StartSpawn(c)
  <2>1. StartSave(c) => cli[c].pc = "record"
    BY DEF StartSave, At
  <2> QED
    BY <1>2, <2>1, CommandTalks, RemoteTalks, StartTalks, StopLookTalks DEF Run, Start, Stop
<1>3. CASE TunnelDies \/ ReconnectTunnel
  BY <1>3 DEF TunnelDies, ReconnectTunnel, host, reaps
<1> QED
  BY <1>1, <1>2, <1>3 DEF Next

\* A daemon that is lost stays lost in the history.
LEMMA LostStays ==
  ASSUME [Next]_vars, ~lost'
  PROVE  ~lost
BY DEF Next, Processes, Forks, LeaderExits, HelpersExit, OtherStarts, DaemonReap, DaemonReady,
   DaemonFails, DaemonExits, DaemonKilled, Register, RequestEnds, RequestTimeout, RequestKilled,
   SpawnScript, DaemonReapGroup, Command, Interrupted, Run, Start, StartProbe, StartSpawn,
   SpawnFails, StartSave, StartPoll, Stop, StopLook, StopTerm, StopKill, StopReap, StopReapGroup,
   StopSave, Remote, RemoteProbe, RemoteTunnel, RemoteDiagnose, TunnelDies, ReconnectTunnel, vars

\* The invariant survives every step.
LEMMA NextControl ==
  ASSUME OneShell, ControlInv, [Next]_vars
  PROVE  ControlInv'
<1> SUFFICES ASSUME ~lost'
             PROVE  SoundInv'
  BY DEF ControlInv
<1>1. SoundInv
  BY LostStays DEF ControlInv
<1>2. CliTypes /\ ReapTypes
  BY <1>1 DEF SoundInv
<1>3. ASSUME UNCHANGED <<proc, tick, kids, req, registry, entry, cli, groups, survivors>>
      PROVE  SoundInv'
  <2>1. HostInv /\ SoleInv
    BY <1>1 DEF SoundInv
  <2>2. Calm /\ NoNewDaemon
    BY <1>3, <2>1, StillCalm DEF NoNewDaemon
  <2>3. Undisturbed /\ SoleInv' /\ CliTypes' /\ ReapTypes'
    BY <1>2, <1>3, <2>1, <2>2, SameUndisturbed, SoleStays DEF CliTypes, ReapTypes
  <2> QED
    BY <1>1, <1>3, <2>2, <2>3, CalmSound
<1>4. ASSUME NEW p \in Pids, Ordinary(p) \/ DaemonReap(p) \/ DaemonReady(p)
      PROVE  SoundInv'
  BY <1>1, <1>4, OrdinarySound, DaemonReapSound, DaemonReadySound
<1>5. ASSUME NEW d \in Pids, NEW p \in Pids, DaemonReapGroup(d, p)
      PROVE  SoundInv'
  <2>1. d \in Reapers /\ Reaping(d) /\ ReapGroup(d, p) /\ entry' = entry /\ cli' = cli
    BY <1>5 DEF DaemonReapGroup, Reapers, Reaping
  <2> QED
    BY <1>1, <2>1, GroupSound
<1>6. ASSUME NEW c \in Clis, Talks(c)
      PROVE  SoundInv'
  BY <1>1, <1>6, TalksSole
<1>7. ASSUME NEW c \in Clis, cli[c].pc = "record", StartSave(c) \/ Interrupted(c)
      PROVE  SoundInv'
  BY <1>1, <1>7, RecordSound
<1>8. ASSUME NEW c \in Clis, StopReapGroup(c)
      PROVE  SoundInv'
  <2>1. c \in Reapers /\ Reaping(c) /\ entry' = entry /\ cli' = cli
    BY <1>8 DEF StopReapGroup, Reapers, Reaping, At
  <2>2. PICK p \in Pids : ReapGroup(c, p)
    BY <1>8 DEF StopReapGroup
  <2> QED
    BY <1>1, <2>1, <2>2, GroupSound
<1>9. ASSUME NEW c \in Clis, StopTerm(c) \/ StopKill(c) \/ StopReap(c) \/ StopSave(c) \/ StartSpawn(c)
      PROVE  SoundInv'
  BY <1>1, <1>9, StopTermSound, StopKillSound, StopReapSound, StopSaveSound, StartSpawnSound
<1>10. CASE UNCHANGED vars
  BY <1>3, <1>10 DEF vars
<1> QED
  BY <1>2, <1>3, <1>4, <1>5, <1>6, <1>7, <1>8, <1>9, <1>10, NextCases

\* The host starts without processes.
LEMMA InitControl ==
  ASSUME Init
  PROVE  ControlInv
<1>1. HostTypes
  BY NoRecs DEF Init, HostTypes, Kinds
<1>2. Idle \in CliRec /\ Idle.pc = "none"
  BY DEF Idle, CliRec, Places
<1>3. CliTypes /\ ReapTypes
  BY <1>2, NoGroupsType DEF Init, CliTypes, ReapTypes
<1>4. \A p \in Pids : ReqOk(p) /\ HostOk(p) /\ RegOk(p) /\ Recorded(p)
  BY NoRecs DEF Init, ReqOk, HostOk, RegOk, Recorded
<1>5. \A p \in Pids : proc[p] = "none"
  BY DEF Init
<1>6. \A c \in Clis : cli[c].pc = "none"
  BY <1>2 DEF Init
<1>7. SoleInv /\ KeptInv /\ Swept
  BY <1>5, <1>6 DEF SoleInv, DaemonKinds, KeptInv, Reaping, Swept, Listening
<1> QED
  BY <1>1, <1>3, <1>4, <1>7 DEF ControlInv, SoundInv, HostInv

\* The inductive invariant of the worker's host when one shell at a time runs worker
\* commands, as long as every daemon was entered: one daemon at most, which the
\* state file names or the start that spawned it knows; requests have living
\* daemons and records name generations; a reaper holds what the registry says
\* until it writes it back; and a ready daemon has reaped.
THEOREM ControlInvariant == OneShell => (Spec => []ControlInv)
<1> SUFFICES ASSUME OneShell
             PROVE  Spec => []ControlInv
  OBVIOUS
<1>1. Init => ControlInv
  BY InitControl
<1>2. ControlInv /\ [Next]_vars => ControlInv'
  BY NextControl
<1> QED
  BY <1>1, <1>2, PTL DEF Spec

\* A running script is in the registry, with its generation and its daemon's, from
\* register_process_group to the end of its request: whatever daemons, stops and
\* PID reuse come between, and however long a reaping waits before it saves.
THEOREM RunningStaysRecorded == OneShell => (Spec => []RunningIsRecorded)
<1> SUFFICES ASSUME OneShell
             PROVE  Spec => []RunningIsRecorded
  OBVIOUS
<1>1. ControlInv => RunningIsRecorded
  BY DEF ControlInv, SoundInv, HostInv, Recorded, RunningIsRecorded
<1>2. Spec => []ControlInv
  BY ControlInvariant
<1> QED
  BY <1>1, <1>2, PTL

\* When a stop, or the restart inside a start, reaches the reaping, no daemon is
\* left, one that was draining included; whatever was killed or interrupted before,
\* as long as no daemon ran that its start had not entered.
THEOREM StopsLeaveNoWorker == OneShell => (Spec => []StopLeavesNoWorker)
<1> SUFFICES ASSUME OneShell
             PROVE  Spec => []StopLeavesNoWorker
  OBVIOUS
<1>1. ControlInv => StopLeavesNoWorker
  BY DEF ControlInv, SoundInv, SoleInv, StopLeavesNoWorker, Daemon
<1>2. Spec => []ControlInv
  BY ControlInvariant
<1> QED
  BY <1>1, <1>2, PTL

\* A daemon that answers has no predecessor's registered script beside it, except
\* one that no signal ends, for any number of PIDs, restarts and kills.
THEOREM ReadyFindsNoOrphan == OneShell => (Spec => []ReadyMeansReaped)
<1> SUFFICES ASSUME OneShell
             PROVE  Spec => []ReadyMeansReaped
  OBVIOUS
<1>1. ControlInv => ReadyMeansReaped
  BY DEF ControlInv, SoundInv, Swept, Left, Orphans, ReadyMeansReaped
<1>2. Spec => []ControlInv
  BY ControlInvariant
<1> QED
  BY <1>1, <1>2, PTL
=============================================================================
