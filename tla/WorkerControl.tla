---------------------------- MODULE WorkerControl ----------------------------
(***************************************************************************)
(* The worker command line against the processes of the worker's host: the *)
(* daemon of one port, the process groups its requests run scripts in, the *)
(* registry that names those groups for a successor, the entry of the      *)
(* port in worker_state.json, and the tunnel of a remote host.             *)
(*                                                                         *)
(* A group has the PID of its leader.  A leader may exit before the rest   *)
(* of its group; its PID is free again when the whole group is gone, and   *)
(* another process may then get it.  Start ticks tell the two apart.       *)
(***************************************************************************)
EXTENDS Integers, FiniteSets, FiniteSetsExt

CONSTANTS
  Clis,        \* operators' shells
  Pids,        \* PIDs, from 1
  MaxStarts,   \* bound: processes started
  MaxKills     \* bound: daemons killed from outside

ASSUME ControlAssumption ==
  /\ IsFiniteSet(Clis) /\ IsFiniteSet(Pids) /\ Pids \subseteq Nat \ {0}
  /\ Clis \cap Pids = {}
  /\ MaxStarts \in Nat \ {0} /\ MaxKills \in Nat

VARIABLES
  proc,      \* PID -> what the process is, "none" when there is none
  tick,      \* PID -> start tick of the latest process
  kids,      \* PID -> what the rest of the group is
  req,       \* PID -> the request that runs the group: daemon and progress
  registry,  \* PID -> the group's record on disk
  entry,     \* PID of worker_state.json's entry, 0 without one
  cli,       \* shell -> the command it runs
  groups,    \* reaper -> the records it loaded and has not come to
  survivors, \* reaper -> the records it will write back
  tunnel,    \* whether the client's ssh -L runs
  kills,     \* daemons killed so far
  lost       \* history: a daemon ran that no start had entered

reaps == <<groups, survivors>>
host == <<proc, tick, kids, req, reaps>>
vars == <<proc, tick, kids, req, registry, entry, cli, groups, survivors, tunnel, kills, lost>>

NoRec == [tick |-> 0, owner |-> 0, otick |-> 0]
NoReq == [owner |-> 0, at |-> "none"]
Idle == [op |-> "none", pc |-> "none", pid |-> 0]
NoGroups == [p \in Pids |-> NoRec]

\* A registry is reaped by a daemon that starts or by a shell that stops one.
Reapers == Pids \cup Clis

Init ==
  /\ proc = [p \in Pids |-> "none"]
  /\ tick = [p \in Pids |-> 0]
  /\ kids = [p \in Pids |-> "none"]
  /\ req = [p \in Pids |-> NoReq]
  /\ registry = [p \in Pids |-> NoRec]
  /\ entry = 0
  /\ cli = [c \in Clis |-> Idle]
  /\ groups = [r \in Reapers |-> NoGroups]
  /\ survivors = [r \in Reapers |-> NoGroups]
  /\ tunnel = FALSE
  /\ kills = 0
  /\ lost = FALSE

-----------------------------------------------------------------------------
(***************************************************************************)
(* Processes.                                                              *)
(***************************************************************************)

DaemonKinds == {"boot", "reaping", "ready", "shutting"}
Daemon(p) == p \in Pids /\ proc[p] \in DaemonKinds
Listening == {p \in Pids : proc[p] = "ready"}

Alive(p) == p \in Pids /\ proc[p] # "none"

\* _group_alive, _process_tree_alive: any member, the leader or not.
GroupAlive(p) == proc[p] # "none" \/ kids[p] # "none"

\* _process_start_token: 0 without a process.
Token(p) == IF proc[p] = "none" THEN 0 ELSE tick[p]

\* PIDs the kernel may hand out; not one whose request is still being closed.
Unused == {p \in Pids : ~GroupAlive(p) /\ req[p] = NoReq
                          /\ MapThenSumSet(LAMBDA q : tick[q], Pids) < MaxStarts}

\* Popen with start_new_session: a new group.
Born(p, kind) ==
  /\ p \in Unused
  /\ proc' = [proc EXCEPT ![p] = kind]
  /\ tick' = [tick EXCEPT ![p] = @ + 1]

\* The requests a daemon was serving end with it; the scripts go on.
Dropped(d) == [q \in Pids |-> IF req[q].owner = d THEN NoReq ELSE req[q]]

\* What a reaper had in mind goes with it.
Forgets(r) ==
  /\ groups' = [groups EXCEPT ![r] = NoGroups]
  /\ survivors' = [survivors EXCEPT ![r] = NoGroups]

\* A process ends; when it is a daemon so do its requests.
Dies(p) ==
  /\ proc' = [proc EXCEPT ![p] = "none"]
  /\ req' = Dropped(p)
  /\ Forgets(p)
  /\ UNCHANGED <<tick, kids>>

\* Any process but a daemon may start helpers in its own group.
Forks(p) ==
  /\ proc[p] \in {"script", "other"} /\ kids[p] = "none"
  /\ kids' = [kids EXCEPT ![p] = proc[p]]
  /\ UNCHANGED <<proc, tick, req, registry, entry, cli, tunnel, kills, reaps, lost>>

LeaderExits(p) ==
  /\ proc[p] \in {"script", "other"}
  /\ proc' = [proc EXCEPT ![p] = "none"]
  /\ UNCHANGED <<tick, kids, req, registry, entry, cli, tunnel, kills, reaps, lost>>

HelpersExit(p) ==
  /\ kids[p] # "none"
  /\ kids' = [kids EXCEPT ![p] = "none"]
  /\ UNCHANGED <<proc, tick, req, registry, entry, cli, tunnel, kills, reaps, lost>>

\* A process of somebody else.
OtherStarts(p) ==
  /\ Born(p, "other")
  /\ UNCHANGED <<kids, req, registry, entry, cli, tunnel, kills, reaps, lost>>

-----------------------------------------------------------------------------
(***************************************************************************)
(* The registry of process groups.                                         *)
(***************************************************************************)

\* unregister_process_group: the record of this generation, or of no process.
Unregistered(p) ==
  IF Token(p) \in {0, registry[p].tick} THEN [registry EXCEPT ![p] = NoRec]
                                        ELSE registry

\* The leader's PID went to another process than the recorded one.
Reused(p, rec) == Token(p) \notin {0, rec.tick}

OwnerAlive(rec) == rec.owner # 0 /\ Token(rec.owner) = rec.otick

\* What a record makes of a group: one to signal.
Orphan(p, rec) == rec # NoRec /\ ~Reused(p, rec) /\ ~OwnerAlive(rec) /\ GroupAlive(p)

Orphans == {p \in Pids : Orphan(p, registry[p])}

\* reap_orphaned_process_groups is a load, one kill after the other and a save of
\* what was kept.  Its lock is of one process: other processes may write the
\* registry in between, and the save overwrites that.
ReapLoad(r) ==
  /\ groups' = [groups EXCEPT ![r] = registry]
  /\ survivors' = [survivors EXCEPT ![r] = NoGroups]

\* One record: TERM, the grace, KILL.  A group may survive even that (a script in
\* the driver); its record is kept, like that of a living owner.
ReapGroup(r, p) ==
  LET rec == groups[r][p]
      orphan == Orphan(p, rec)
      kept == ~Reused(p, rec) /\ OwnerAlive(rec) IN
  /\ rec # NoRec
  /\ groups' = [groups EXCEPT ![r][p] = NoRec]
  /\ \E wedged \in {orphan, FALSE} :
       /\ proc' = IF orphan THEN [proc EXCEPT ![p] = "none"] ELSE proc
       /\ kids' = IF orphan THEN [kids EXCEPT ![p] = IF wedged THEN "wedged" ELSE "none"]
                  ELSE kids
       /\ survivors' = IF kept \/ wedged THEN [survivors EXCEPT ![r][p] = rec] ELSE survivors
  /\ UNCHANGED <<tick, req, registry>>

ReapSave(r) ==
  /\ groups[r] = NoGroups
  /\ registry' = survivors[r]
  /\ Forgets(r)

-----------------------------------------------------------------------------
(***************************************************************************)
(* The daemon and its requests.                                            *)
(***************************************************************************)

\* lifespan reaps what a predecessor left.
DaemonReap(d) ==
  /\ proc[d] = "boot"
  /\ ReapLoad(d)
  /\ proc' = [proc EXCEPT ![d] = "reaping"]
  /\ UNCHANGED <<tick, kids, req, registry, entry, cli, tunnel, kills, lost>>

\* Mutant of DaemonReapGroup: the record is kept and nobody signalled.
DaemonReapGroupSkips(d, p) ==
  /\ proc[d] = "reaping" /\ groups[d][p] # NoRec
  /\ groups' = [groups EXCEPT ![d][p] = NoRec]
  /\ survivors' = [survivors EXCEPT ![d][p] = groups[d][p]]
  /\ UNCHANGED <<proc, tick, kids, req, registry, entry, cli, tunnel, kills, lost>>

DaemonReapGroup(d, p) ==
  /\ proc[d] = "reaping"
  /\ ReapGroup(d, p)
  /\ UNCHANGED <<entry, cli, tunnel, kills, lost>>

\* Then the server binds the port; one that finds it taken exits.
DaemonReady(d) ==
  /\ proc[d] = "reaping"
  /\ ReapSave(d)
  /\ proc' = [proc EXCEPT ![d] = IF Listening = {} THEN "ready" ELSE "none"]
  /\ UNCHANGED <<tick, kids, req, entry, cli, tunnel, kills, lost>>

\* A configuration the daemon rejects, or a registry it cannot write.
DaemonFails(d) ==
  /\ proc[d] \in {"boot", "reaping"}
  /\ Dies(d)
  /\ UNCHANGED <<registry, entry, cli, tunnel, kills, lost>>

\* _run_script, run_command_capture: the script in a group of its own.  A draining
\* daemon may start the next script of a request that is under way.
SpawnScript(d, p) ==
  /\ proc[d] \in {"ready", "shutting"}
  /\ Born(p, "script")
  /\ req' = [req EXCEPT ![p] = [owner |-> d, at |-> "spawned"]]
  /\ UNCHANGED <<kids, registry, entry, cli, tunnel, kills, reaps, lost>>

\* register_process_group: nothing is recorded when the leader is gone already.
Register(p) ==
  /\ req[p].at = "spawned"
  /\ registry' = IF Token(p) = 0 THEN registry
                 ELSE [registry EXCEPT ![p] = [tick |-> tick[p], owner |-> req[p].owner,
                                               otick |-> tick[req[p].owner]]]
  /\ req' = [req EXCEPT ![p].at = IF Token(p) = 0 THEN "unrecorded" ELSE "running"]
  /\ UNCHANGED <<proc, tick, kids, entry, cli, tunnel, kills, reaps, lost>>

\* communicate returns: the leader has exited, helpers may go on.
RequestEnds(p) ==
  /\ req[p].at \in {"running", "unrecorded"} /\ proc[p] = "none"
  /\ registry' = Unregistered(p)
  /\ req' = [req EXCEPT ![p] = NoReq]
  /\ UNCHANGED <<proc, tick, kids, entry, cli, tunnel, kills, reaps, lost>>

\* Mutant of RequestTimeout: the record goes before the group is gone.
RequestTimeoutForgets(p) ==
  /\ req[p].at = "running"
  /\ req' = [req EXCEPT ![p].at = "killing"]
  /\ registry' = [registry EXCEPT ![p] = NoRec]
  /\ UNCHANGED <<proc, tick, kids, entry, cli, tunnel, kills, reaps, lost>>

\* kill_process_tree on a timeout or a cancelled request: TERM first.
RequestTimeout(p) ==
  /\ req[p].at = "running"
  /\ req' = [req EXCEPT ![p].at = "killing"]
  /\ UNCHANGED <<proc, tick, kids, registry, entry, cli, tunnel, kills, reaps, lost>>

\* terminate_process_tree, communicate_or_kill: the group is gone after TERM or
\* KILL, or has survived both; the record goes in either case.
RequestKilled(p) ==
  /\ req[p].at \in {"killing", "unrecorded"}
  /\ \E rest \in {"none", "wedged"} :
       /\ rest = "wedged" => GroupAlive(p)
       /\ proc' = [proc EXCEPT ![p] = "none"]
       /\ kids' = [kids EXCEPT ![p] = rest]
  /\ registry' = [registry EXCEPT ![p] = NoRec]
  /\ req' = [req EXCEPT ![p] = NoReq]
  /\ UNCHANGED <<tick, entry, cli, tunnel, kills, reaps, lost>>

\* A daemon told to stop leaves when its requests are over.
DaemonExits(d) ==
  /\ proc[d] = "shutting" /\ \A p \in Pids : req[p].owner # d
  /\ Dies(d)
  /\ UNCHANGED <<registry, entry, cli, tunnel, kills, lost>>

\* SIGKILL from outside: an OOM kill, a crash.
DaemonKilled(d) ==
  /\ Daemon(d) /\ kills < MaxKills
  /\ Dies(d)
  /\ kills' = kills + 1
  /\ UNCHANGED <<registry, entry, cli, tunnel, lost>>

-----------------------------------------------------------------------------
(***************************************************************************)
(* Stopping a worker.                                                      *)
(***************************************************************************)

At(c, pc) == cli[c].pc = pc
Goto(c, pc) == cli' = [cli EXCEPT ![c].pc = pc]
Done(c) == cli' = [cli EXCEPT ![c] = Idle]

\* live_worker_pid: the entry's process, when its command line is the daemon's.
LiveWorkerPid == IF Daemon(entry) THEN entry ELSE 0

\* _stop_local takes the entry's PID from any process that has it.
LocalTarget == IF LiveWorkerPid = 0 /\ Alive(entry) THEN entry ELSE LiveWorkerPid

\* Mutant of RemoteTarget: lsof alone.
RemoteTargetListener == IF Listening # {} THEN CHOOSE p \in Listening : TRUE ELSE 0

\* _build_remote_stop_cmd: who listens, or the validated entry.
RemoteTarget == IF Listening # {} THEN CHOOSE p \in Listening : TRUE ELSE LiveWorkerPid

Target(c) == IF cli[c].op = "rstop" THEN RemoteTarget ELSE LocalTarget

StopLook(c) ==
  /\ At(c, "look")
  /\ cli' = [cli EXCEPT ![c] = [@ EXCEPT !.pid = Target(c),
                                         !.pc = IF Target(c) = 0 THEN "reap" ELSE "term"]]
  /\ UNCHANGED <<host, registry, entry, tunnel, kills, lost>>

\* terminate_pid signals the whole group, the remote script the process.
Struck(c, p) ==
  /\ proc' = [proc EXCEPT ![p] = "none"]
  /\ kids' = IF cli[c].op = "rstop" THEN kids ELSE [kids EXCEPT ![p] = "none"]
  /\ req' = Dropped(p)
  /\ Forgets(p)
  /\ UNCHANGED tick

\* SIGTERM: a server drains its requests, anything else ends or ignores it.
StopTerm(c) ==
  LET p == cli[c].pid IN
  /\ At(c, "term")
  /\ IF proc[p] \in {"ready", "shutting"}
       THEN proc' = [proc EXCEPT ![p] = "shutting"] /\ UNCHANGED <<tick, kids, req, reaps>>
       ELSE Struck(c, p) \/ UNCHANGED host
  /\ Goto(c, "grace")
  /\ UNCHANGED <<registry, entry, tunnel, kills, lost>>

\* Mutant of StopKill: the stop waits for the daemon to leave by itself.
StopKillWaits(c) ==
  /\ At(c, "grace")
  /\ ~Alive(cli[c].pid)
  /\ Goto(c, "reap")
  /\ UNCHANGED <<host, registry, entry, tunnel, kills, lost>>

\* terminate_pid after the grace: SIGKILL whoever still has the PID.
StopKill(c) ==
  /\ At(c, "grace")
  /\ IF Alive(cli[c].pid) THEN Struck(c, cli[c].pid) ELSE UNCHANGED host
  /\ Goto(c, "reap")
  /\ UNCHANGED <<registry, entry, tunnel, kills, lost>>

\* The registry's orphans go, as at a daemon's start.
StopReap(c) ==
  /\ At(c, "reap")
  /\ ReapLoad(c)
  /\ Goto(c, "sweep")
  /\ UNCHANGED <<proc, tick, kids, req, registry, entry, tunnel, kills, lost>>

StopReapGroup(c) ==
  /\ At(c, "sweep")
  /\ \E p \in Pids : ReapGroup(c, p)
  /\ UNCHANGED <<entry, cli, tunnel, kills, lost>>

\* Then the entry is removed, unless its save fails, which nobody hears of; a start
\* goes on to spawn.
StopSave(c) ==
  /\ At(c, "sweep")
  /\ ReapSave(c)
  /\ entry' \in {0, entry}
  /\ IF cli[c].op = "start" THEN Goto(c, "spawn") ELSE Done(c)
  /\ UNCHANGED <<proc, tick, kids, req, tunnel, kills, lost>>

-----------------------------------------------------------------------------
(***************************************************************************)
(* Starting a worker.                                                      *)
(***************************************************************************)

\* The answers of _status: ready only from a listening daemon, none when it is
\* too slow.
Answers == {FALSE} \cup {Listening # {}}

\* _start_local: a ready daemon is kept, one that does not answer is stopped.
StartProbe(c) ==
  /\ At(c, "probe")
  /\ \E ready \in Answers :
       IF ready THEN Done(c)
       ELSE Goto(c, IF LiveWorkerPid # 0 THEN "look" ELSE "spawn")
  /\ UNCHANGED <<host, registry, entry, tunnel, kills, lost>>

\* Popen; without a PID left the command fails.
StartSpawn(c) ==
  /\ At(c, "spawn")
  /\ \E p \in Pids :
       /\ Born(p, "boot")
       /\ cli' = [cli EXCEPT ![c] = [@ EXCEPT !.pc = "record", !.pid = p]]
  /\ UNCHANGED <<kids, req, reaps, registry, entry, tunnel, kills, lost>>

\* save_worker_state: the daemon's PID is entered, or the write fails unheard of and
\* leaves the old file or a torn one, which reads as no entry at all.
StartSave(c) ==
  /\ At(c, "record")
  /\ \/ entry' = cli[c].pid /\ lost' = lost
     \/ entry' \in {entry, 0} /\ lost' = (lost \/ Daemon(cli[c].pid))
  /\ Goto(c, "poll")
  /\ UNCHANGED <<host, registry, tunnel, kills>>

SpawnFails(c) ==
  /\ At(c, "spawn") /\ Unused = {}
  /\ Done(c)
  /\ UNCHANGED <<host, registry, entry, tunnel, kills, lost>>

\* The wait for ready: in time, or the worker is stopped again.
StartPoll(c) ==
  /\ At(c, "poll")
  /\ \E ready \in Answers :
       IF ready THEN Done(c)
       ELSE cli' = [cli EXCEPT ![c] = [@ EXCEPT !.pc = "look", !.op = "stop"]]
  /\ UNCHANGED <<host, registry, entry, tunnel, kills, lost>>

-----------------------------------------------------------------------------
(***************************************************************************)
(* Remote hosts: the same commands behind a tunnel.                        *)
(***************************************************************************)

\* tunnel_stop_silent and tunnel_start: the old ssh is found by its pid file or a
\* scan and ended; the port may be taken, ssh may fail, and the caller hears of a
\* new tunnel only when the scan finds it.
TunnelStart == {[up |-> FALSE, pid |-> FALSE], [up |-> TRUE, pid |-> FALSE], [up |-> TRUE, pid |-> TRUE]}

TunnelDies ==
  /\ tunnel
  /\ tunnel' = FALSE
  /\ UNCHANGED <<host, registry, entry, cli, kills, lost>>

\* dispatch_reconnect_tunnel: the tunnel only.
ReconnectTunnel ==
  /\ \E t \in TunnelStart : tunnel' = t.up
  /\ UNCHANGED <<host, registry, entry, cli, kills, lost>>

\* dispatch_start: done when /status answers through the tunnel.
RemoteProbe(c) ==
  /\ At(c, "rprobe")
  /\ \E ready \in {FALSE, tunnel /\ Listening # {}} :
       IF ready THEN Done(c) ELSE Goto(c, "rtunnel")
  /\ UNCHANGED <<host, registry, entry, tunnel, kills, lost>>

\* The tunnel is rebuilt and /status asked again.
RemoteTunnel(c) ==
  /\ At(c, "rtunnel")
  /\ \E t \in TunnelStart, ready \in Answers :
       /\ tunnel' = t.up
       /\ IF ~t.pid \/ ready THEN Done(c) ELSE Goto(c, "rcheck")
  /\ UNCHANGED <<host, registry, entry, kills, lost>>

\* probe_remote: one ssh round trip.  "held" is lsof's answer about the port, which
\* is empty where there is no lsof.
ProbeRemote == [reached : BOOLEAN, usable : BOOLEAN, held : {FALSE, Listening # {}}]

\* classify, for a start: an unreachable or unfit host and a held port are fatal.
Fatal(facts) == ~facts.reached \/ ~facts.usable \/ facts.held

\* The host runs its own --start, over ssh.
RemoteStart(c) == cli' = [cli EXCEPT ![c] = [@ EXCEPT !.pc = "probe", !.op = "start"]]

RemoteDiagnose(c) ==
  /\ At(c, "rcheck")
  /\ \E facts \in ProbeRemote : IF Fatal(facts) THEN Done(c) ELSE RemoteStart(c)
  /\ UNCHANGED <<host, registry, entry, tunnel, kills, lost>>

-----------------------------------------------------------------------------

\* Where each command of _worker begins.
FirstStep == [start |-> "probe", rstart |-> "rprobe", stop |-> "look", rstop |-> "look"]

\* _worker: dispatch_stop tears the tunnel down first.
Command(c) ==
  /\ cli[c] = Idle
  /\ \E op \in DOMAIN FirstStep :
       /\ cli' = [cli EXCEPT ![c] = [op |-> op, pc |-> FirstStep[op], pid |-> 0]]
       /\ tunnel' = (tunnel /\ op # "rstop")
  /\ UNCHANGED <<host, registry, entry, kills, lost>>

\* Ctrl-C, or a crash: the command stops where it is, and what it had in mind is
\* gone.  One that a remote host goes on with after its ssh ended is another shell.
Interrupted(c) ==
  /\ cli[c] # Idle
  /\ Done(c) /\ Forgets(c)
  /\ lost' = (lost \/ (At(c, "record") /\ Daemon(cli[c].pid)))
  /\ UNCHANGED <<proc, tick, kids, req, registry, entry, tunnel, kills>>

Start(c) == StartProbe(c) \/ StartSpawn(c) \/ SpawnFails(c) \/ StartSave(c) \/ StartPoll(c)
Stop(c) ==
  \/ StopLook(c) \/ StopTerm(c) \/ StopKill(c)
  \/ StopReap(c) \/ StopReapGroup(c) \/ StopSave(c)
Remote(c) == RemoteProbe(c) \/ RemoteTunnel(c) \/ RemoteDiagnose(c)
Run(c) == Start(c) \/ Stop(c) \/ Remote(c)

Processes(p) ==
  \/ Forks(p) \/ LeaderExits(p) \/ HelpersExit(p) \/ OtherStarts(p)
  \/ DaemonReap(p) \/ DaemonReady(p) \/ DaemonFails(p) \/ DaemonExits(p) \/ DaemonKilled(p)
  \/ Register(p) \/ RequestEnds(p) \/ RequestTimeout(p) \/ RequestKilled(p)
  \/ \E d \in Pids : SpawnScript(d, p) \/ DaemonReapGroup(d, p)

Next ==
  \/ \E p \in Pids : Processes(p)
  \/ \E c \in Clis : Command(c) \/ Run(c) \/ Interrupted(c)
  \/ TunnelDies \/ ReconnectTunnel

Spec == Init /\ [][Next]_vars

\* A command in progress takes its next step; nothing is assumed of the daemon,
\* its scripts or anybody else's processes.
Fairness == \A c \in Clis : WF_vars(Run(c))

FairSpec == Spec /\ Fairness

-----------------------------------------------------------------------------
(***************************************************************************)
(* Properties.                                                             *)
(***************************************************************************)

\* The types, and a request has a daemon as long as it is open.
TypeOK ==
  /\ proc \in [Pids -> {"none", "script", "other"} \cup DaemonKinds]
  /\ tick \in [Pids -> 0..MaxStarts]
  /\ kids \in [Pids -> {"none", "script", "other", "wedged"}]
  /\ req \in [Pids -> [owner : Pids \cup {0},
                       at : {"none", "spawned", "unrecorded", "running", "killing"}]]
  /\ registry \in [Pids -> [tick : 0..MaxStarts, owner : Pids \cup {0},
                            otick : 0..MaxStarts]]
  /\ \A r \in Reapers : /\ groups[r] \in [Pids -> [tick : 0..MaxStarts, owner : Pids \cup {0},
                                                    otick : 0..MaxStarts]]
                        /\ survivors[r] \in [Pids -> [tick : 0..MaxStarts, owner : Pids \cup {0},
                                                       otick : 0..MaxStarts]]
  /\ \A p \in Pids : req[p].owner = 0 <=> req[p].at = "none"
  /\ entry \in Pids \cup {0}
  /\ cli \in [Clis -> [op : {"none"} \cup DOMAIN FirstStep, pid : Pids \cup {0},
                       pc : {"none", "rprobe", "rtunnel", "rcheck", "probe", "spawn",
                             "record", "poll", "look", "term", "grace", "reap", "sweep"}]]
  /\ tunnel \in BOOLEAN
  /\ kills \in 0..MaxKills
  /\ lost \in BOOLEAN

\* From register_process_group until the request is over, through the grace of a
\* kill and whatever commands run meanwhile, the registry names the group, its
\* generation and its daemon: a SIGKILL of the daemon at any of these moments
\* leaves its successor something to find.  No reaping that takes its time may
\* write an older registry over the record, as long as no second daemon runs
\* beside the one entered.
RunningIsRecorded ==
  ~lost => \A p \in Pids : req[p].at \in {"running", "killing"} =>
    registry[p] = [tick |-> tick[p], owner |-> req[p].owner, otick |-> tick[req[p].owner]]

\* A daemon that answers requests has no predecessor's registered script running
\* beside it on the devices, except one that no signal ends; PIDs may be handed
\* out again while it reaps.
ReadyMeansReaped ==
  ~lost /\ Listening # {} =>
    \A p \in Orphans : registry[p].tick = tick[p] => kids[p] = "wedged"

\* When --stop, or a restart inside --start, has come to the reaping, no daemon of
\* the port is left, the one that closed its listener and waits for an eval
\* included, whatever commands were interrupted before: except when a start was
\* interrupted, or failed to write, between its Popen and its save_worker_state.  No
\* entry names that daemon, and a local stop goes by the entry.
StopLeavesNoWorker ==
  ~lost => \A c \in Clis : cli[c].pc \in {"reap", "sweep"} => \A p \in Pids : ~Daemon(p)

\* Every command ends, though a daemon may drain a request for as long as it likes.
CommandEnds == \A c \in Clis : cli[c].op # "none" ~> cli[c].op = "none"

\* live_worker_pid: "command line validation prevent a stale/reused PID from
\* targeting an unrelated process".  The signals of a stop reach no process that
\* is not the worker's.
StopSparesOthers ==
  [][\A c \in Clis, p \in Pids :
       At(c, "term") /\ At(c, "grace")' /\ proc[p] = "other" => proc'[p] = "other"]_vars
=============================================================================
