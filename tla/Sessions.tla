------------------------------ MODULE Sessions ------------------------------
(***************************************************************************)
(* Which session drives which task: state.owner and last_touched in every  *)
(* task's state.json, one index file per session, and the processes of a   *)
(* session (hooks, entry scripts, resume) that read and write them.        *)
(* scripts/phase_machine/state_store.py, "Ownership", with its callers in  *)
(* task_handle.py, decide.py and resume.py.                                *)
(*                                                                         *)
(* A claim and a release run under the session's file lock and under the   *)
(* state locks of the tasks they write.  A lookup takes no lock at all.    *)
(***************************************************************************)
EXTENDS Integers, FiniteSets

CONSTANTS
    SessionIds,     \* the agent sessions (AR_SESSION_ID)
    Tasks,          \* the task directories, as numbers: their path order
    Listed,         \* the tasks under <repo>/ar_tasks, the only ones a scan sees
    Procs,          \* the processes, pairs <<session, number>>
    Window,         \* heartbeat_fresh_seconds, in ticks
    MaxKills,       \* bound: processes and sessions killed
    MaxClaims,      \* bound: claims, resumes and edits begun
    None

ASSUME SessionsAssumption ==
    /\ Tasks \subseteq Nat /\ Listed \subseteq Tasks
    /\ Procs \subseteq SessionIds \X Nat
    /\ Window \in Nat \ {0} /\ MaxKills \in Nat /\ MaxClaims \in Nat
    /\ None \notin SessionIds \cup Tasks

VARIABLES
    owner,      \* task -> the session state.owner names
    age,        \* task -> ticks since last_touched, Window once it is stale
    index,      \* session -> the task its index file names
    proc,       \* process -> where it is and the task it is about
    alive,      \* the sessions whose agent still runs
    kills,
    claims,     \* what was begun so far, against MaxClaims
    lost        \* history: sessions whose good index entry was dropped or never written

vars == <<owner, age, index, proc, alive, kills, claims, lost>>

Idle == [at |-> "idle", task |-> None, prior |-> None, role |-> "none"]

ClaimStates == {"claim", "second", "locked", "own", "index"}
ClearStates == {"clear", "dropindex"}

TypeOK ==
    /\ owner \in [Tasks -> SessionIds \cup {None}]
    /\ age \in [Tasks -> 0..Window]
    /\ index \in [SessionIds -> Tasks \cup {None}]
    /\ proc \in [Procs -> [at : {"idle", "look", "stale", "scan", "pick", "rewrite",
                                 "open", "touch", "body"} \cup ClaimStates \cup ClearStates,
                           task : Tasks \cup {None}, prior : Tasks \cup {None},
                           role : {"none", "hook", "task", "force", "resume"}]]
    /\ alive \subseteq SessionIds
    /\ kills \in 0..MaxKills
    /\ claims \in 0..MaxClaims
    /\ lost \subseteq SessionIds

\* Sessions may have claimed a task each, longer or shorter ago.
Init ==
    /\ index \in [SessionIds -> Tasks \cup {None}]
    /\ \A r, s \in SessionIds : r # s => index[r] = None \/ index[r] # index[s]
    /\ owner = [t \in Tasks |-> IF \E s \in SessionIds : index[s] = t
                                THEN CHOOSE s \in SessionIds : index[s] = t ELSE None]
    /\ age \in [Tasks -> {0, Window}]
    /\ proc = [p \in Procs |-> Idle]
    /\ alive = SessionIds
    /\ kills = 0
    /\ claims = 0
    /\ lost = {}

Owned(s) == {t \in Tasks : owner[t] = s}

\* _heartbeat_fresh.
HeartbeatFresh(t) == age[t] < Window

-----------------------------------------------------------------------------
(* Locks.  They are held exactly while a process is at certain points, so  *)
(* they need no variable of their own.                                     *)

\* The locks one state_transaction asks for, in the sorted order of the paths.
LockSet(pr) == {pr.task} \cup (IF pr.prior = None THEN {} ELSE {pr.prior})
Least(S) == CHOOSE t \in S : \A u \in S : t <= u

\* Mutant of FirstLock: the target's lock first, the prior task's second.
FirstLockTarget(pr) == pr.task

FirstLock(pr) == Least(LockSet(pr))

StateLocks(q) ==
    CASE proc[q].at = "second" -> {FirstLock(proc[q])}
      [] proc[q].at \in {"locked", "own", "index"} -> LockSet(proc[q])
      [] proc[q].at = "dropindex" -> {proc[q].task}
      [] OTHER -> {}

Free(p, t) == \A q \in Procs \ {p} : t \notin StateLocks(q)

SessionLockFree(s) ==
    \A q \in Procs : q[1] = s => proc[q].at \notin ClaimStates \cup ClearStates

-----------------------------------------------------------------------------
(* current_session_task_dir / get_task_dir, and what its callers do next.  *)

Goto(p, at, t) == proc' = [proc EXCEPT ![p] = [@ EXCEPT !.at = at, !.task = t]]

Begun(counted) ==
    IF counted THEN claims < MaxClaims /\ claims' = claims + 1 ELSE UNCHANGED claims

\* Every pre/post hook, and resume.py without an argument, starts here.
BeginLookup(p, role) ==
    /\ proc[p] = Idle /\ p[1] \in alive
    /\ Begun(role # "hook")
    /\ proc' = [proc EXCEPT ![p] = [@ EXCEPT !.at = "look", !.task = index[p[1]],
                                             !.role = role]]
    /\ UNCHANGED <<owner, age, index, alive, kills, lost>>

\* A hook touches the task it found; resume.py opens it.
Found(p, t) == Goto(p, IF proc[p].role = "resume" THEN "open" ELSE "touch", t)

LookupPointed(p) ==
    /\ proc[p].at = "look"
    /\ \/ proc[p].task # None /\ owner[proc[p].task] = p[1] /\ Found(p, proc[p].task)
       \/ proc[p].task # None /\ owner[proc[p].task] # p[1] /\ Goto(p, "stale", proc[p].task)
       \/ proc[p].task = None /\ Goto(p, "scan", None)
    /\ UNCHANGED <<owner, age, index, alive, kills, claims, lost>>

\* A session loses its task when a step other than a claim overwrites an index
\* entry that was right.
Lose(s) == IF index[s] # None /\ owner[index[s]] = s /\ index'[s] # index[s]
           THEN lost \cup {s} ELSE lost

LookupClearStale(p) ==
    /\ proc[p].at = "stale"
    /\ index' = [index EXCEPT ![p[1]] = None]
    /\ lost' = Lose(p[1])
    /\ Goto(p, "scan", None)
    /\ UNCHANGED <<owner, age, alive, kills, claims>>

\* The most recently touched of a set of tasks.
Freshest(S) == {t \in S : \A u \in S : age[t] <= age[u]}

LookupScan(p) ==
    /\ proc[p].at = "scan"
    /\ LET matches == Owned(p[1]) \cap Listed IN
       \/ \E t \in Freshest(matches) : Goto(p, "rewrite", t)
       \/ matches = {} /\ proc[p].role = "resume" /\ Goto(p, "pick", None)
       \/ matches = {} /\ proc[p].role = "hook" /\ proc' = [proc EXCEPT ![p] = Idle]
    /\ UNCHANGED <<owner, age, index, alive, kills, claims, lost>>

\* Mutant of LookupRewrite: the scan's answer is not written back.
LookupRewriteSkipped(p) ==
    /\ proc[p].at = "rewrite"
    /\ Found(p, proc[p].task)
    /\ UNCHANGED <<owner, age, index, alive, kills, claims, lost>>

LookupRewrite(p) ==
    /\ proc[p].at = "rewrite"
    /\ index' = [index EXCEPT ![p[1]] = proc[p].task]
    /\ lost' = Lose(p[1])
    /\ Found(p, proc[p].task)
    /\ UNCHANGED <<owner, age, alive, kills, claims>>

\* find_active_task_dir: the freshest task somebody owns, else the freshest.
FindActive ==
    LET owned == {t \in Listed : owner[t] # None} IN
    Freshest(IF owned # {} THEN owned ELSE Listed)

FindActiveTaskDir(p) ==
    /\ proc[p].at = "pick"
    /\ \/ \E t \in FindActive : Found(p, t)
       \/ Listed = {} /\ proc' = [proc EXCEPT ![p] = Idle]
    /\ UNCHANGED <<owner, age, index, alive, kills, claims, lost>>

\* touch_heartbeat asks nobody who owns the task.
TouchHeartbeat(p) ==
    /\ proc[p].at = "touch" /\ Free(p, proc[p].task)
    /\ age' = [age EXCEPT ![proc[p].task] = 0]
    /\ IF proc[p].role \in {"task", "force"}
       THEN proc' = [proc EXCEPT ![p] = [@ EXCEPT !.at = "body", !.prior = None]]
       ELSE proc' = [proc EXCEPT ![p] = Idle]
    /\ UNCHANGED <<owner, index, alive, kills, claims, lost>>

\* The pre-edit hook touches the task that holds the file, whoever owns it.
PreEditTouch(p, t) ==
    /\ proc[p] = Idle /\ p[1] \in alive
    /\ Begun(TRUE)
    /\ proc' = [proc EXCEPT ![p] = [@ EXCEPT !.at = "touch", !.task = t, !.role = "hook"]]
    /\ UNCHANGED <<owner, age, index, alive, kills, lost>>

-----------------------------------------------------------------------------
(* set_task_dir: the claim.                                                *)

\* Where a claim starts: under the session lock, the index names the prior task.
StartClaim(p, t, role) ==
    /\ SessionLockFree(p[1])
    /\ proc' = [proc EXCEPT ![p] = [at |-> "claim", task |-> t,
                                    prior |-> index[p[1]], role |-> role]]

\* role: "hook" is the post-shell hook, which ignores a refusal; "task" is
\* Task.__enter__; "force" is resume --force.
BeginClaim(p, t, role) ==
    /\ proc[p] = Idle /\ p[1] \in alive
    /\ Begun(TRUE)
    /\ StartClaim(p, t, role)
    /\ UNCHANGED <<owner, age, index, alive, kills, lost>>

\* resume.py opens the task its lookup found.
ResumeFound(p) ==
    /\ proc[p].at = "open"
    /\ StartClaim(p, proc[p].task, "task")
    /\ UNCHANGED <<owner, age, index, alive, kills, claims, lost>>

LockFirst(p) ==
    /\ proc[p].at = "claim"
    /\ Free(p, FirstLock(proc[p]))
    /\ Goto(p, IF Cardinality(LockSet(proc[p])) = 1 THEN "locked" ELSE "second", proc[p].task)
    /\ UNCHANGED <<owner, age, index, alive, kills, claims, lost>>

LockSecond(p) ==
    /\ proc[p].at = "second"
    /\ \A t \in LockSet(proc[p]) : Free(p, t)
    /\ Goto(p, "locked", proc[p].task)
    /\ UNCHANGED <<owner, age, index, alive, kills, claims, lost>>

\* Mutant of Refused: the heartbeat test is the wrong way round.
RefusedStale(p) ==
    /\ proc[p].role # "force"
    /\ owner[proc[p].task] \notin {None, p[1]}
    /\ ~HeartbeatFresh(proc[p].task)

\* Another session owns the target and its heartbeat is fresh.
Refused(p) ==
    /\ proc[p].role # "force"
    /\ owner[proc[p].task] \notin {None, p[1]}
    /\ HeartbeatFresh(proc[p].task)

ClaimRefused(p) ==
    /\ proc[p].at = "locked" /\ Refused(p)
    /\ IF proc[p].role = "hook" THEN Goto(p, "touch", proc[p].task)
                                ELSE proc' = [proc EXCEPT ![p] = Idle]
    /\ UNCHANGED <<owner, age, index, alive, kills, claims, lost>>

\* Mutant of ReleasePrior: the prior task keeps its owner.
ReleasePriorNot(p) ==
    /\ proc[p].at = "locked" /\ ~Refused(p)
    /\ Goto(p, "own", proc[p].task)
    /\ UNCHANGED <<owner, age, index, alive, kills, claims, lost>>

\* The prior task is given up first; each save bumps last_touched.
ReleasePrior(p) ==
    /\ proc[p].at = "locked" /\ ~Refused(p)
    /\ LET q == proc[p].prior IN
       IF q \notin {None, proc[p].task} /\ owner[q] = p[1]
       THEN owner' = [owner EXCEPT ![q] = None] /\ age' = [age EXCEPT ![q] = 0]
       ELSE UNCHANGED <<owner, age>>
    /\ Goto(p, "own", proc[p].task)
    /\ UNCHANGED <<index, alive, kills, claims, lost>>

SaveOwner(p) ==
    /\ proc[p].at = "own"
    /\ owner' = [owner EXCEPT ![proc[p].task] = p[1]]
    /\ age' = [age EXCEPT ![proc[p].task] = 0]
    /\ Goto(p, "index", proc[p].task)
    /\ UNCHANGED <<index, alive, kills, claims, lost>>

WriteIndex(p) ==
    /\ proc[p].at = "index"
    /\ index' = [index EXCEPT ![p[1]] = proc[p].task]
    /\ Goto(p, "touch", proc[p].task)
    /\ UNCHANGED <<owner, age, alive, kills, claims, lost>>

-----------------------------------------------------------------------------
(* The body of an open task, and how it ends.                              *)

\* A transaction of the body (record_baseline, record_round, commit_plan ...)
\* saves the state under its lock and checks no owner.
Transact(p) ==
    /\ proc[p].at = "body" /\ Free(p, proc[p].task) /\ age[proc[p].task] # 0
    /\ age' = [age EXCEPT ![proc[p].task] = 0]
    /\ UNCHANGED <<owner, index, proc, alive, kills, claims, lost>>

\* A clean exit keeps the claim.
CloseTask(p) ==
    /\ proc[p].at = "body"
    /\ proc' = [proc EXCEPT ![p] = Idle]
    /\ UNCHANGED <<owner, age, index, alive, kills, claims, lost>>

\* Task.__exit__ on an exception: clear_active_task(expected_task_dir = task).
Raise(p) ==
    /\ proc[p].at = "body" /\ SessionLockFree(p[1])
    /\ Goto(p, "clear", proc[p].task)
    /\ UNCHANGED <<owner, age, index, alive, kills, claims, lost>>

\* With an expected task the release is granted whoever owns the task.
ClearOwner(p) ==
    LET t == proc[p].task IN
    /\ proc[p].at = "clear" /\ Free(p, t)
    /\ IF owner[t] = None
       THEN /\ index' = [index EXCEPT ![p[1]] = None]
            /\ lost' = Lose(p[1])
            /\ proc' = [proc EXCEPT ![p] = Idle]
            /\ UNCHANGED <<owner, age>>
       ELSE /\ owner' = [owner EXCEPT ![t] = None]
            /\ age' = [age EXCEPT ![t] = 0]
            /\ IF owner[t] = p[1] THEN Goto(p, "dropindex", t)
                                  ELSE proc' = [proc EXCEPT ![p] = Idle]
            /\ UNCHANGED <<index, lost>>
    /\ UNCHANGED <<alive, kills, claims>>

DropIndex(p) ==
    /\ proc[p].at = "dropindex"
    /\ index' = [index EXCEPT ![p[1]] = None]
    /\ lost' = Lose(p[1])
    /\ proc' = [proc EXCEPT ![p] = Idle]
    /\ UNCHANGED <<owner, age, alive, kills, claims>>

-----------------------------------------------------------------------------
(* The environment.                                                        *)

\* A process is killed: the operating system drops its locks.
KillProc(p) ==
    /\ proc[p] # Idle /\ kills < MaxKills
    /\ kills' = kills + 1
    /\ proc' = [proc EXCEPT ![p] = Idle]
    /\ lost' = IF proc[p].at = "index" THEN lost \cup {p[1]} ELSE lost
    /\ UNCHANGED <<owner, age, index, alive, claims>>

\* The agent and every process it started are gone.
SessionDies(s) ==
    /\ s \in alive /\ kills < MaxKills
    /\ kills' = kills + 1
    /\ alive' = alive \ {s}
    /\ proc' = [p \in Procs |-> IF p[1] = s THEN Idle ELSE proc[p]]
    /\ lost' = IF \E p \in Procs : p[1] = s /\ proc[p].at = "index"
               THEN lost \cup {s} ELSE lost
    /\ UNCHANGED <<owner, age, index, claims>>

Tick ==
    /\ \E t \in Tasks : HeartbeatFresh(t)
    /\ age' = [t \in Tasks |-> IF HeartbeatFresh(t) THEN age[t] + 1 ELSE age[t]]
    /\ UNCHANGED <<owner, index, proc, alive, kills, claims, lost>>

LookupStep(p) == LookupPointed(p) \/ LookupClearStale(p) \/ LookupScan(p)
                 \/ LookupRewrite(p) \/ FindActiveTaskDir(p) \/ ResumeFound(p)
ClaimStep(p) == ClaimRefused(p) \/ ReleasePrior(p) \/ SaveOwner(p) \/ WriteIndex(p)
LockStep(p) == LockFirst(p) \/ LockSecond(p) \/ TouchHeartbeat(p)

Next ==
    \/ \E p \in Procs :
         \/ \E role \in {"hook", "resume"} : BeginLookup(p, role)
         \/ \E t \in Tasks : PreEditTouch(p, t)
         \/ \E t \in Tasks, role \in {"hook", "task", "force"} : BeginClaim(p, t, role)
         \/ LookupStep(p) \/ ClaimStep(p) \/ LockStep(p)
         \/ Transact(p) \/ CloseTask(p) \/ Raise(p) \/ ClearOwner(p) \/ DropIndex(p)
         \/ KillProc(p)
    \/ \E s \in SessionIds : SessionDies(s)
    \/ Tick

Spec == Init /\ [][Next]_vars

-----------------------------------------------------------------------------
(* Properties.                                                             *)

\* set_task_dir's "the session is never simultaneously listed as owner of two
\* tasks": true of every session whose index was not dropped by an unlocked
\* lookup or a late release, and whose claims were not killed between the save
\* of the owner and the index.  Then the index also names the task it owns.
OneTaskPerSession ==
    \A s \in SessionIds \ lost :
        /\ Cardinality(Owned(s)) <= 1
        /\ (SessionLockFree(s) /\ Owned(s) # {}) => index[s] \in Owned(s)

\* A claim whose heartbeat is fresh is ended only by its own session, by a
\* forced claim, or by a process that opened the task itself and raised: a
\* refusal decided under the lock cannot be overtaken.
FreshClaimKept ==
    [][\A t \in Tasks :
         (owner[t] # None /\ HeartbeatFresh(t) /\ owner'[t] # owner[t])
           => \E p \in Procs :
                /\ t \in {proc[p].task, proc[p].prior}
                /\ \/ p[1] = owner[t] /\ proc[p].at \in {"locked", "clear"}
                   \/ proc[p].task = t /\ proc[p].at = "clear"
                   \/ proc[p].task = t /\ proc[p].at = "own" /\ proc[p].role = "force"]_vars

\* run_loop.py: "a live foreign session is never taken over accidentally".  A
\* session that is inside an open task keeps it unless somebody forces.
LiveSessionKept ==
    [][\A p, q \in Procs :
         ( /\ proc[p].at = "body" /\ owner[proc[p].task] = p[1]
           /\ q[1] # p[1] /\ proc[q].role = "task"
           /\ proc[q].at = "own" /\ proc'[q].at = "index" )
           => proc[q].task # proc[p].task]_vars

\* Every claim ends: two sessions that swap their tasks take the two state
\* locks in the same order.
ClaimEnds ==
    \A p \in Procs : proc[p].at \in ClaimStates ~> proc[p].at \notin ClaimStates

\* A living session that owns a listed task gets back to an index that names a
\* task it owns, whatever dropped the entry, as long as its hooks keep firing.
OwnedTaskFound ==
    \A s \in SessionIds :
        (s \in alive /\ Owned(s) \cap Listed # {})
           ~> (\/ s \notin alive \/ Owned(s) \cap Listed = {}
               \/ index[s] # None /\ owner[index[s]] = s)

\* A process that runs goes on (it can wait for a lock, never for ever: claims
\* are rare), and the harness keeps firing hooks while the agent lives.
Continue(p) == LookupStep(p) \/ ClaimStep(p) \/ LockStep(p)
               \/ CloseTask(p) \/ ClearOwner(p) \/ DropIndex(p)

Fairness ==
    \A p \in Procs : WF_vars(BeginLookup(p, "hook")) /\ WF_vars(Continue(p))

FairSpec == Spec /\ Fairness

=============================================================================
