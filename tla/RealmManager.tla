---------------------------- MODULE RealmManager ----------------------------
(***************************************************************************)
(* CRealmManager (src/realm/RealmManager.cpp): the host's table of realms, *)
(* the table of supervised processes behind them, and the operating-system *)
(* side of each realm: its process group, its supervisor, its status pipe. *)
(*                                                                         *)
(* Every handler of the manager runs on the host event loop, so it is one  *)
(* action; the actions of the operating system interleave between them.    *)
(* A steady-clock deadline is "pending" until the environment lets it      *)
(* pass.  A realm ID is drawn once from RealmIDs and never reissued.       *)
(***************************************************************************)
EXTENDS Realm

CONSTANTS RealmIDs,       \* the IDs the counter m_nextID can still hand out
          Applications    \* the processes openApplication can create

VARIABLES
    realms,     \* m_realms: IDs of the existing realms
    issued,     \* the IDs m_nextID has gone past
    realm,      \* [RealmIDs -> RealmRecord]
    process,    \* m_processes: [RealmIDs -> ProcessRecord]
    group,      \* the operating system's view: [RealmIDs -> GroupRecord]
    shutdown    \* how far shutdownAll has got

vars == <<realms, issued, realm, process, group, shutdown>>

(***************************************************************************)
(* SRealmProcess; `present' says that m_processes has an entry.            *)
(***************************************************************************)
ProcessRecord ==
    [present       : BOOLEAN,
     startup       : {"pending", "passed"},
     termination   : {"none", "pending", "passed"},
     exitReceived  : BOOLEAN,
     forceKillSent : BOOLEAN,
     failOnExit    : BOOLEAN,
     applications  : SUBSET Applications]   \* applicationPIDs, not yet reaped

NoProcess ==
    [present |-> FALSE, startup |-> "pending", termination |-> "none",
     exitReceived |-> FALSE, forceKillSent |-> FALSE, failOnExit |-> FALSE,
     applications |-> {}]

(***************************************************************************)
(* The processes behind a realm.  `published' says that the lock file, the *)
(* Wayland socket and the X display sidecar are all in the runtime         *)
(* directory; `applications' are the applications still executing;         *)
(* `signals' are the group signals in effect.  The supervisor watches the  *)
(* compositor, reports its exit over the pipe and is then gone; it may     *)
(* also crash, which the host sees as an end of file without a report.     *)
(* `stray' says that a compositor executes which an earlier start forked   *)
(* and of which the manager was never told: it is no member of the group.  *)
(***************************************************************************)
GroupRecord ==
    [compositor   : {"none", "alive", "exited"},
     published    : BOOLEAN,
     applications : SUBSET Applications,
     signals      : SUBSET {"STOP", "TERM", "KILL"},
     supervisor   : {"none", "watching", "reported", "gone", "crashed"},
     stray        : BOOLEAN]

NoGroup ==
    [compositor |-> "none", published |-> FALSE, applications |-> {},
     signals |-> {}, supervisor |-> "none", stray |-> FALSE]

Phases == {"no", "terminating", "killing", "done"}

TypeOK ==
    /\ realms \subseteq RealmIDs
    /\ issued \subseteq RealmIDs
    /\ realm \in [RealmIDs -> RealmRecord]
    /\ process \in [RealmIDs -> ProcessRecord]
    /\ group \in [RealmIDs -> GroupRecord]
    /\ shutdown \in Phases

Init ==
    /\ realms = {}
    /\ issued = {}
    /\ realm = [i \in RealmIDs |-> FreshRealm]
    /\ process = [i \in RealmIDs |-> NoProcess]
    /\ group = [i \in RealmIDs |-> NoGroup]
    /\ shutdown = "no"

-----------------------------------------------------------------------------
(* Process groups and signals. *)

\* Something of the group is executing.
Executing(g) == g.compositor = "alive" \/ g.applications # {}

\* kill(-pgid, ...) finds a member: an executing one, the compositor while the
\* supervisor has not waited for it, or an application the host has not reaped.
GroupExists(p, g) ==
    \/ Executing(g)
    \/ g.compositor = "exited" /\ g.supervisor = "watching"
    \/ p.applications # {}

Signal(g, signal) == [g EXCEPT !.signals = @ \cup {signal}]
Continue(g)       == [g EXCEPT !.signals = @ \ {"STOP"}]

\* A paused group is continued before it is told to terminate.
FaultyTerminate(r, g) == Signal(g, "TERM")   \* fault: it stays stopped

Terminate(r, g) == Signal(IF r.state = "PAUSED" THEN Continue(g) ELSE g, "TERM")

\* The group has until the deadline to be gone.
Deadline(p) == [p EXCEPT !.termination = "pending"]

\* signalProcessGroup succeeds for an entry of m_processes.
Signallable(i) == process[i].present /\ GroupExists(process[i], group[i])

\* The event loop serves requests: shutdownAll has not begun.  Some methods test
\* m_shuttingDown; the others cannot be called, as it blocks the loop and the
\* manager is destroyed after it.
Serving == shutdown = "no"

-----------------------------------------------------------------------------
(* Requests of the administrator, the operator and the control socket.     *)

CreateRealm(i) ==
    /\ Serving
    /\ i \notin issued
    /\ issued' = issued \cup {i}
    /\ realms' = realms \cup {i}
    /\ realm' = [realm EXCEPT ![i] = FreshRealm]
    /\ UNCHANGED <<process, group, shutdown>>

\* startRealm up to prepareRuntime: nothing of the previous run remains.
Starting(r) ==
    [Revoked(TransitionTo(r, "CREATING")) EXCEPT !.exitCode = -1]

MayStart(i) ==
    /\ Serving
    /\ i \in realms
    /\ ~process[i].present
    /\ CanMove(realm[i], "CREATING")

\* prepareRuntime fails: either the old directory cannot be removed, or a step
\* after it fails and the new directory is removed in turn (if it can be).
StartUnprepared(i) ==
    /\ MayStart(i)
    /\ \E left \in BOOLEAN :
          realm' = [realm EXCEPT ![i] =
                      [MoveAndEmit(Starting(@), "FAILED", "FAILED")
                         EXCEPT !.runtime = left]]
    /\ UNCHANGED <<realms, issued, process, group, shutdown>>

(***************************************************************************)
(* launchRealmProcess fails.  It sends SIGTERM to the supervisor and waits *)
(* for it, which ends the compositor with it.  But a supervisor that died  *)
(* between the fork of the compositor and its handshake ends nothing, and  *)
(* the host does not know the process group: the compositor runs on.       *)
(***************************************************************************)
StartUnlaunched(i) ==
    /\ MayStart(i)
    /\ realm' = [realm EXCEPT ![i] =
                    [MoveAndEmit(Starting(@), "FAILED", "FAILED")
                       EXCEPT !.runtime = TRUE]]
    /\ \E stray \in BOOLEAN :
          group' = [group EXCEPT ![i].stray = @ \/ stray]
    /\ UNCHANGED <<realms, issued, process, shutdown>>

\* The process group of a new compositor; a stray one is not affected.
NewGroup(g, compositor) ==
    [NoGroup EXCEPT !.compositor = compositor, !.supervisor = "watching", !.stray = g.stray]

\* The supervisor runs but could not execute the compositor (START_FAILED).
StartUnexecuted(i) ==
    /\ MayStart(i)
    /\ realm' = [realm EXCEPT ![i] =
                    [MoveAndEmit(Starting(@), "FAILED", "FAILED")
                       EXCEPT !.runtime = TRUE, !.exitCode = 127,
                              !.compositorPID = FALSE]]
    /\ process' = [process EXCEPT ![i] =
                     [NoProcess EXCEPT !.present = TRUE, !.failOnExit = TRUE]]
    /\ group' = [group EXCEPT ![i] = NewGroup(@, "exited")]
    /\ UNCHANGED <<realms, issued, shutdown>>

StartLaunched(i) ==
    /\ MayStart(i)
    /\ realm' = [realm EXCEPT ![i] =
                    [Starting(@) EXCEPT !.runtime = TRUE, !.compositorPID = TRUE]]
    /\ process' = [process EXCEPT ![i] = [NoProcess EXCEPT !.present = TRUE]]
    /\ group' = [group EXCEPT ![i] = NewGroup(@, "alive")]
    /\ UNCHANGED <<realms, issued, shutdown>>

StartRealm(i) ==
    StartUnprepared(i) \/ StartUnlaunched(i) \/ StartUnexecuted(i) \/ StartLaunched(i)

\* openApplication; a failure before or at exec leaves no trace.
OpenApplication(i, a) ==
    /\ Serving
    /\ i \in realms
    /\ realm[i].state = "RUNNING"
    /\ Signallable(i)                 \* setpgid joins an existing group
    /\ group[i].published             \* the X display sidecar is read again
    /\ a \notin process[i].applications \cup group[i].applications
    /\ process' = [process EXCEPT ![i].applications = @ \cup {a}]
    /\ group' = [group EXCEPT ![i].applications = @ \cup {a}]
    /\ UNCHANGED <<realms, issued, realm, shutdown>>

CanPause(i) == realm[i].state = "RUNNING" /\ Signallable(i)

FaultyPaused(r) == Emit(TransitionTo(r, "PAUSED"), "PAUSED")   \* fault: the lease is kept

Paused(r) ==
    Emit(SetInputOwner(TransitionTo(r, "PAUSED"), "NONE"), "PAUSED")

\* pauseRealm for one realm, pauseAllRealms for all: a realm that cannot be
\* paused is skipped and the others are paused all the same.
PauseRealms(requested) ==
    LET paused == {i \in requested \cap realms : CanPause(i)}
    IN  /\ Serving
        /\ paused # {}
        /\ realm' = [i \in RealmIDs |->
                        IF i \in paused THEN Paused(realm[i]) ELSE realm[i]]
        /\ group' = [i \in RealmIDs |->
                        IF i \in paused THEN Signal(group[i], "STOP") ELSE group[i]]
        /\ UNCHANGED <<realms, issued, process, shutdown>>

PauseRealm(i)  == PauseRealms({i})
PauseAllRealms == PauseRealms(RealmIDs)

ResumeRealm(i) ==
    /\ Serving
    /\ i \in realms
    /\ realm[i].state = "PAUSED"
    /\ Signallable(i)
    /\ realm' = [realm EXCEPT ![i] =
                    Emit(SetInputOwner(TransitionTo(@, "RUNNING"), "AGENT"), "RESUMED")]
    /\ group' = [group EXCEPT ![i] = Continue(@)]
    /\ UNCHANGED <<realms, issued, process, shutdown>>

StopRealm(i) ==
    /\ Serving
    /\ i \in realms
    /\ realm[i].state \in {"CREATING", "RUNNING", "PAUSED"}
    /\ Signallable(i)
    /\ realm' = [realm EXCEPT ![i] = Revoked(TransitionTo(@, "STOPPING"))]
    /\ process' = [process EXCEPT ![i] = Deadline(@)]
    /\ group' = [group EXCEPT ![i] = Terminate(realm[i], @)]
    /\ UNCHANGED <<realms, issued, shutdown>>

KillRealm(i) ==
    /\ Serving
    /\ i \in realms
    /\ Signallable(i)
    /\ realm' = [realm EXCEPT ![i] =
                    Revoked(IF @.state \in {"CREATING", "RUNNING", "PAUSED"}
                            THEN TransitionTo(@, "STOPPING") ELSE @)]
    /\ process' = [process EXCEPT ![i] = [Deadline(@) EXCEPT !.forceKillSent = TRUE]]
    /\ group' = [group EXCEPT ![i] = Signal(@, "KILL")]
    /\ UNCHANGED <<realms, issued, shutdown>>

\* An operation that changes nothing but the realm's own record.
UpdateRealm(i, r) ==
    /\ Serving
    /\ i \in realms
    /\ realm' = [realm EXCEPT ![i] = r]
    /\ UNCHANGED <<realms, issued, process, group, shutdown>>

TakeoverRealm(i) ==
    /\ realm[i].state = "RUNNING"
    /\ realm[i].inputOwner = "AGENT"
    /\ UpdateRealm(i, Emit(SetInputOwner(realm[i], "HUMAN"), "TAKEN_OVER"))

ReleaseRealm(i) ==
    /\ realm[i].state = "RUNNING"
    /\ realm[i].inputOwner = "HUMAN"
    /\ UpdateRealm(i, Emit(SetInputOwner(realm[i], "AGENT"), "RELEASED"))

AllowObservation(i) ==
    /\ Allows(realm[i], "observe")
    /\ realm[i].state = "RUNNING"
    /\ realm[i].observation = "DENIED"
    /\ UpdateRealm(i, SetObservation(realm[i], "ALLOWED"))

DenyObservation(i) ==
    /\ realm[i].observation = "ALLOWED"
    /\ UpdateRealm(i, SetObservation(realm[i], "DENIED"))

GrantCapability(i, c) ==
    /\ ~Allows(realm[i], c)
    /\ UpdateRealm(i, [realm[i] EXCEPT !.capabilities = @ \cup {c}])

RevokeCapability(i, c) ==
    /\ Allows(realm[i], c)
    /\ UpdateRealm(i, Without(realm[i], c))

\* destroyRealm; when the directory cannot be removed the realm stays.
FaultyDestroyRealm(i) ==   \* fault: the process may still be cleaning up
    /\ Serving
    /\ i \in realms
    /\ realm[i].state \in {"STOPPED", "FAILED"}
    /\ realms' = realms \ {i}
    /\ realm' = [realm EXCEPT ![i] = FreshRealm]
    /\ UNCHANGED <<issued, process, group, shutdown>>

DestroyRealm(i) ==
    /\ Serving
    /\ i \in realms
    /\ ~process[i].present
    /\ realm[i].state \in {"STOPPED", "FAILED"}
    /\ realms' = realms \ {i}
    /\ realm' = [realm EXCEPT ![i] = FreshRealm]
    /\ UNCHANGED <<issued, process, group, shutdown>>

-----------------------------------------------------------------------------
(* dispatchPendingEvents: the 50 ms poll over every supervised process.    *)

\* reapApplicationProcesses
FaultyReaped(p, g) == p   \* fault: the zombies keep the group in existence

Reaped(p, g) == [p EXCEPT !.applications = @ \cap g.applications]

(***************************************************************************)
(* What one pass finds: a reported exit or an end of file, then readiness  *)
(* or the startup deadline of a realm that is still being created.  An     *)
(* exit fails the realm before readiness is looked at.                     *)
(***************************************************************************)
AwaitsReadiness(r) == r.state = "CREATING" /\ r.compositorPID

FaultyFinding(r, p, g) ==   \* fault: no startup timeout
    IF ~p.exitReceived /\ g.supervisor \in {"reported", "gone", "crashed"} THEN "exit"
    ELSE IF AwaitsReadiness(r) /\ g.published THEN "ready"
    ELSE "nothing"

Finding(r, p, g) ==
    IF ~p.exitReceived /\ g.supervisor \in {"reported", "gone", "crashed"} THEN "exit"
    ELSE IF AwaitsReadiness(r) /\ g.published THEN "ready"
    ELSE IF AwaitsReadiness(r) /\ p.startup = "passed" THEN "overdue"
    ELSE "nothing"

ReportedCode(g) == IF g.supervisor = "crashed" THEN -1 ELSE 0

\* A failed realm keeps the exit code of its failure.
FaultyExitCode(r, code) == code   \* fault: the later exit hides the cause

ExitCode(r, code) == IF r.state = "FAILED" THEN r.exitCode ELSE code

ForgetPID(r) == [r EXCEPT !.compositorPID = FALSE]

\* handleProcessExit: a requested stop ends STOPPED, any other exit FAILED.
ExitHandled(r, p, code) ==
    LET ended == [Revoked(ForgetPID(r)) EXCEPT !.exitCode = ExitCode(r, code)]
    IN  IF r.state = "STOPPING" /\ ~p.failOnExit
        THEN MoveAndEmit(ended, "STOPPED", "STOPPED")
        ELSE MoveAndEmit(ended, "FAILED", "FAILED")

DispatchedRealm(r, p, g) ==
    CASE Finding(r, p, g) = "exit"    -> ExitHandled(r, p, ReportedCode(g))
      [] Finding(r, p, g) = "ready"   ->
            MoveAndEmit(SetInputOwner(r, "AGENT"), "RUNNING", "STARTED")
      [] Finding(r, p, g) = "overdue" ->
            [MoveAndEmit(SetInputOwner(r, "NONE"), "FAILED", "FAILED")
               EXCEPT !.exitCode = -1]
      [] Finding(r, p, g) = "nothing" -> r

\* The entry after the finding, before deadlines and cleanup are looked at.
Noticed(r, p, g) ==
    CASE Finding(r, p, g) = "exit" ->
            [Deadline(Reaped(p, g)) EXCEPT !.exitReceived = TRUE]
      [] Finding(r, p, g) = "overdue" ->
            [Deadline(Reaped(p, g)) EXCEPT !.failOnExit = TRUE]
      [] OTHER -> Reaped(p, g)

FaultyForceKillDue(p, g) ==   \* fault: the group is given no time
    ~p.forceKillSent /\ p.exitReceived /\ GroupExists(p, g)

UnforcedStop(p, g) ==         \* fault: only leftovers of a dead compositor
    /\ p.termination = "passed"
    /\ ~p.forceKillSent
    /\ p.exitReceived /\ GroupExists(p, g)

ForceKillDue(p, g) ==
    /\ p.termination = "passed"
    /\ ~p.forceKillSent
    /\ p.exitReceived => GroupExists(p, g)

\* finishProcessCleanup erases the entry: the group is empty and the
\* supervisor can be waited for.
FaultyCleanedUp(p, g) ==   \* fault: leftovers of the group are forgotten
    p.exitReceived /\ g.supervisor \in {"gone", "crashed"}

CleanedUp(p, g) ==
    /\ p.exitReceived
    /\ ~GroupExists(p, g)
    /\ g.supervisor \in {"gone", "crashed"}

DispatchedProcess(r, p, g) ==
    LET q == Noticed(r, p, g)
    IN  IF CleanedUp(q, g) THEN NoProcess
        ELSE IF ForceKillDue(q, g)
        THEN [Deadline(q) EXCEPT !.forceKillSent = TRUE]
        ELSE q

DispatchedGroup(r, p, g) ==
    LET q      == Noticed(r, p, g)
        warned == IF Finding(r, p, g) \in {"exit", "overdue"} THEN {"TERM"} ELSE {}
        forced == IF ForceKillDue(q, g) THEN {"KILL"} ELSE {}
    IN  [g EXCEPT !.signals = @ \cup warned \cup forced,
                  !.supervisor = IF CleanedUp(q, g) THEN "none" ELSE @]

DispatchPendingEvents ==
    /\ shutdown # "done"
    /\ \E i \in RealmIDs : process[i].present
    /\ realm' = [i \in RealmIDs |->
                    IF process[i].present
                    THEN DispatchedRealm(realm[i], process[i], group[i]) ELSE realm[i]]
    /\ process' = [i \in RealmIDs |->
                    IF process[i].present
                    THEN DispatchedProcess(realm[i], process[i], group[i]) ELSE process[i]]
    /\ group' = [i \in RealmIDs |->
                    IF process[i].present
                    THEN DispatchedGroup(realm[i], process[i], group[i]) ELSE group[i]]
    /\ UNCHANGED <<realms, issued, shutdown>>

-----------------------------------------------------------------------------
(* shutdownAll blocks the event loop: it asks every group to terminate,    *)
(* polls, kills what is left, polls again and then gives up waiting.       *)

ShutdownBegin ==
    /\ shutdown = "no"
    /\ shutdown' = "terminating"
    /\ realm' = [i \in RealmIDs |->
                    IF process[i].present /\ realm[i].state \in {"CREATING", "RUNNING", "PAUSED"}
                    THEN Revoked(TransitionTo(realm[i], "STOPPING")) ELSE realm[i]]
    /\ process' = [i \in RealmIDs |->
                    IF process[i].present THEN Deadline(process[i]) ELSE process[i]]
    /\ group' = [i \in RealmIDs |->
                    IF process[i].present
                    THEN Terminate(realm[i], group[i]) ELSE group[i]]
    /\ UNCHANGED <<realms, issued>>

ShutdownKill ==
    /\ shutdown = "terminating"
    /\ shutdown' = "killing"
    /\ group' = [i \in RealmIDs |->
                    IF process[i].present THEN Signal(group[i], "KILL") ELSE group[i]]
    /\ UNCHANGED <<realms, issued, realm, process>>

\* The last loop kills the groups and the supervisors that are left; then the
\* runtime directories are removed, except those whose removal fails.
ShutdownFinish ==
    /\ shutdown = "killing"
    /\ shutdown' = "done"
    /\ \E kept \in SUBSET realms :
          realm' = [i \in RealmIDs |->
             LET r == IF ~process[i].present THEN realm[i]
                      ELSE IF realm[i].state = "STOPPING"
                      THEN MoveAndEmit(ForgetPID(realm[i]), "STOPPED", "STOPPED")
                      ELSE ForgetPID(realm[i])
             IN  [r EXCEPT !.runtime = @ /\ i \in kept]]
    /\ process' = [i \in RealmIDs |-> NoProcess]
    /\ group' = [i \in RealmIDs |->
                    IF process[i].present
                    THEN [Signal(group[i], "KILL") EXCEPT !.supervisor = "none"]
                    ELSE group[i]]
    /\ UNCHANGED <<realms, issued>>

-----------------------------------------------------------------------------
(* The operating system and the nested compositor.                         *)

UpdateGroup(i, g) ==
    /\ group' = [group EXCEPT ![i] = g]
    /\ UNCHANGED <<realms, issued, realm, process, shutdown>>

\* The nested compositor publishes its sockets, or its XWayland goes away and
\* comes back; a stopped compositor does neither.
PublishDisplay(i) ==
    /\ group[i].compositor = "alive"
    /\ group[i].signals = {}
    /\ UpdateGroup(i, [group[i] EXCEPT !.published = ~@])

CompositorExits(i) ==
    /\ group[i].compositor = "alive"
    /\ UpdateGroup(i, [group[i] EXCEPT !.compositor = "exited"])

ApplicationExits(i, a) ==
    /\ a \in group[i].applications
    /\ UpdateGroup(i, [group[i] EXCEPT !.applications = @ \ {a}])

\* runSupervisor: waitpid returns and the exit is written to the pipe.
SupervisorReports(i) ==
    /\ group[i].supervisor = "watching"
    /\ group[i].compositor = "exited"
    /\ UpdateGroup(i, [group[i] EXCEPT !.supervisor = "reported"])

SupervisorExits(i) ==
    /\ group[i].supervisor = "reported"
    /\ UpdateGroup(i, [group[i] EXCEPT !.supervisor = "gone"])

SupervisorCrashes(i) ==
    /\ group[i].supervisor = "watching"
    /\ UpdateGroup(i, [group[i] EXCEPT !.supervisor = "crashed"])

\* Nobody signals a stray compositor, so it ends when it likes.
StrayExits(i) ==
    /\ group[i].stray
    /\ UpdateGroup(i, [group[i] EXCEPT !.stray = FALSE])

UpdateProcess(i, p) ==
    /\ process' = [process EXCEPT ![i] = p]
    /\ UNCHANGED <<realms, issued, realm, group, shutdown>>

\* Only a realm that awaits readiness looks at its startup deadline.
StartupDeadlinePasses(i) ==
    /\ process[i].present
    /\ AwaitsReadiness(realm[i])
    /\ process[i].startup = "pending"
    /\ UpdateProcess(i, [process[i] EXCEPT !.startup = "passed"])

TerminationDeadlinePasses(i) ==
    /\ process[i].present
    /\ process[i].termination = "pending"
    /\ UpdateProcess(i, [process[i] EXCEPT !.termination = "passed"])

-----------------------------------------------------------------------------
Request(i) ==
    \/ CreateRealm(i)
    \/ StartRealm(i)
    \/ \E a \in Applications : OpenApplication(i, a)
    \/ PauseRealm(i)
    \/ ResumeRealm(i)
    \/ StopRealm(i)
    \/ KillRealm(i)
    \/ TakeoverRealm(i)
    \/ ReleaseRealm(i)
    \/ AllowObservation(i)
    \/ DenyObservation(i)
    \/ \E c \in Capabilities : GrantCapability(i, c) \/ RevokeCapability(i, c)
    \/ DestroyRealm(i)

HostLoop ==
    \/ PauseAllRealms
    \/ DispatchPendingEvents
    \/ ShutdownBegin
    \/ ShutdownKill
    \/ ShutdownFinish

OperatingSystem(i) ==
    \/ PublishDisplay(i)
    \/ CompositorExits(i)
    \/ \E a \in Applications : ApplicationExits(i, a)
    \/ SupervisorReports(i)
    \/ SupervisorExits(i)
    \/ SupervisorCrashes(i)
    \/ StrayExits(i)
    \/ StartupDeadlinePasses(i)
    \/ TerminationDeadlinePasses(i)

Next ==
    \/ \E i \in RealmIDs : Request(i)
    \/ HostLoop
    \/ \E i \in RealmIDs : OperatingSystem(i)

Spec == Init /\ [][Next]_vars

(***************************************************************************)
(* Fairness.  The poll timer rearms itself while a process is supervised,  *)
(* clocks advance, a process sent SIGKILL dies, a supervisor whose         *)
(* compositor is gone reports and exits, and shutdownAll is one call that  *)
(* runs to its end.  No request is fair, and neither is obeying SIGTERM.   *)
(***************************************************************************)
KilledCompositorDies(i) == "KILL" \in group[i].signals /\ CompositorExits(i)
KilledApplicationDies(i, a) == "KILL" \in group[i].signals /\ ApplicationExits(i, a)

FairRealm(i) ==
    /\ WF_vars(KilledCompositorDies(i))
    /\ \A a \in Applications : WF_vars(KilledApplicationDies(i, a))
    /\ WF_vars(SupervisorReports(i))
    /\ WF_vars(SupervisorExits(i))
    /\ WF_vars(StartupDeadlinePasses(i))
    /\ WF_vars(TerminationDeadlinePasses(i))

FairLoop ==
    /\ WF_vars(DispatchPendingEvents)
    /\ WF_vars(ShutdownKill)
    /\ WF_vars(ShutdownFinish)

Fairness == FairLoop /\ \A i \in RealmIDs : FairRealm(i)

FairSpec == Spec /\ Fairness

-----------------------------------------------------------------------------
(* Properties. *)

(***************************************************************************)
(* Input has an owner exactly while the realm runs: every way out of       *)
(* RUNNING (pause, stop, kill, crash, startup failure, shutdown) takes the *)
(* lease away, and every way in gives it to somebody.                      *)
(***************************************************************************)
OwnedIffRunning ==
    \A i \in RealmIDs : realm[i].inputOwner # "NONE" <=> realm[i].state = "RUNNING"

(***************************************************************************)
(* An observation permission in force always has the observe capability    *)
(* behind it and a realm that runs or is paused; it never survives a stop, *)
(* a kill, a failure, a restart or the revocation of the capability.       *)
(***************************************************************************)
ObservationIsBacked ==
    \A i \in RealmIDs : realm[i].observation = "ALLOWED" =>
        /\ Allows(realm[i], "observe")
        /\ realm[i].state \in {"RUNNING", "PAUSED"}

(***************************************************************************)
(* A realm in an active state is supervised by an entry whose exit has not *)
(* been handled, and a stopping one has a deadline armed: nothing waits    *)
(* for an exit that can no longer be reported.                             *)
(***************************************************************************)
ActiveIsSupervised ==
    \A i \in RealmIDs :
        /\ realm[i].state \in Active => process[i].present /\ ~process[i].exitReceived
        /\ realm[i].state = "STOPPING" => process[i].termination # "none"

(***************************************************************************)
(* A recorded compositor PID, which is what associates a host window with  *)
(* a realm, belongs to a supervised process whose exit was not handled.    *)
(***************************************************************************)
PIDIsCurrent ==
    \A i \in RealmIDs : realm[i].compositorPID =>
        process[i].present /\ ~process[i].exitReceived

(***************************************************************************)
(* No process group is left behind: whatever executes in the group of a    *)
(* compositor that was launched has an entry in m_processes and an         *)
(* existing realm, or has been sent SIGKILL by the shutdown - whichever of *)
(* compositor, applications and supervisor ends or crashes first.  A stray *)
(* compositor (StartUnlaunched) is in no such group and nobody's: nothing  *)
(* is promised of it.                                                      *)
(***************************************************************************)
GroupsAreSupervised ==
    \A i \in RealmIDs : Executing(group[i]) =>
        \/ process[i].present /\ i \in realms
        \/ shutdown = "done" /\ "KILL" \in group[i].signals

(* The runtime directory of a supervised realm is there until its entry is
   erased.  (That of a stray compositor may be removed.) *)
RuntimeOutlivesProcess ==
    \A i \in RealmIDs : process[i].present => realm[i].runtime

(***************************************************************************)
(* A group is not left stopped when the pause of its realm ends.  Every    *)
(* request that ends a pause continues the group or kills it.  Where an    *)
(* exit of the compositor or of its supervisor ends the pause,             *)
(* handleProcessExit sends SIGTERM without SIGCONT, on which members that  *)
(* are stopped do not act; the SIGKILL they need is then still to come,    *)
(* at a deadline that is set.                                              *)
(***************************************************************************)
NoneStaysStopped ==
    \A i \in RealmIDs : process[i].present /\ "STOP" \in group[i].signals =>
        \/ realm[i].state = "PAUSED"
        \/ "KILL" \in group[i].signals
        \/ /\ group[i].compositor = "exited" \/ group[i].supervisor = "crashed"
           /\ process[i].exitReceived
           /\ process[i].termination # "none" /\ ~process[i].forceKillSent

(* Listeners that follow the lifecycle events alone know how a realm ended
   and whether it runs: the last event agrees with the settled state. *)
EventsTellTheState ==
    \A i \in RealmIDs :
        CASE realm[i].state = "RUNNING" ->
                realm[i].announced \in {"STARTED", "RESUMED", "TAKEN_OVER", "RELEASED"}
          [] realm[i].state = "PAUSED"  -> realm[i].announced = "PAUSED"
          [] realm[i].state = "FAILED"  -> realm[i].announced = "FAILED"
          [] realm[i].state = "STOPPED" -> realm[i].announced \in {"CREATED", "STOPPED"}
          [] OTHER -> TRUE

(***************************************************************************)
(* The verdict of a run follows the request, however late the exit is      *)
(* noticed: an exit nobody asked for fails the realm, a requested one      *)
(* stops it, and a failed realm keeps the exit code of its failure.  That  *)
(* is so if the pass that takes the exit erases the entry at once, and if  *)
(* the end of the shutdown erases it without having seen an exit.          *)
(***************************************************************************)
VerdictFollowsRequest ==
    [][\A i \in RealmIDs :
          process[i].present =>
             /\ ~process[i].exitReceived /\ (process'[i].exitReceived \/ ~process'[i].present) =>
                   realm'[i].state = (IF realm[i].state = "STOPPING" THEN "STOPPED" ELSE "FAILED")
             /\ realm[i].state = "FAILED" =>
                   realm'[i].state = "FAILED" /\ realm'[i].exitCode = realm[i].exitCode]_vars

(***************************************************************************)
(* The poll sends SIGKILL only to a group that was sent SIGTERM before and *)
(* was given its deadline to obey.                                         *)
(***************************************************************************)
TermBeforeKill ==
    [][DispatchPendingEvents =>
          \A i \in RealmIDs :
             "KILL" \in group'[i].signals \ group[i].signals =>
                "TERM" \in group[i].signals /\ process[i].termination = "passed"]_vars

(* A stop that was accepted is carried out even if SIGTERM is ignored. *)
StopCompletes ==
    \A i \in RealmIDs :
        realm[i].state = "STOPPING" ~> realm[i].state \in {"STOPPED", "FAILED"}

(* A realm does not stay in CREATING: it runs, fails or is stopped. *)
StartResolves ==
    \A i \in RealmIDs : realm[i].state = "CREATING" ~> realm[i].state # "CREATING"

(***************************************************************************)
(* Once the compositor's exit is handled the entry is erased and with it   *)
(* every process of the group, so that the realm can start again or be     *)
(* destroyed.                                                              *)
(***************************************************************************)
CleanupCompletes ==
    \A i \in RealmIDs :
        process[i].exitReceived ~> ~process[i].present /\ ~Executing(group[i])

-----------------------------------------------------------------------------
(***************************************************************************)
(* The inductive invariant, realm by realm: r, p and g are the realm's     *)
(* three records, `exists' says that it is in m_realms and `over' that the *)
(* shutdown is done.  A process entry has an existing realm and its        *)
(* directory; failOnExit belongs to a realm that failed already, which is  *)
(* why a stopping realm always ends STOPPED.                               *)
(***************************************************************************)
Sound(r, p, g, exists, over) ==
    /\ r.inputOwner # "NONE" <=> r.state = "RUNNING"
    /\ r.observation = "ALLOWED" =>
          Allows(r, "observe") /\ r.state \in {"RUNNING", "PAUSED"}
    /\ r.state \in Active => p.present /\ ~p.exitReceived
    /\ r.state = "STOPPING" => p.termination # "none"
    /\ r.compositorPID => p.present /\ ~p.exitReceived
    /\ p.present => exists /\ r.runtime
    /\ p.present /\ p.failOnExit => r.state = "FAILED"
    /\ Executing(g) => p.present \/ (over /\ "KILL" \in g.signals)
    /\ p.present /\ "STOP" \in g.signals =>
          r.state = "PAUSED" \/ p.exitReceived \/ "KILL" \in g.signals

AllSound ==
    /\ TypeOK
    /\ realms \subseteq issued
    /\ \A i \in RealmIDs :
          Sound(realm[i], process[i], group[i], i \in realms, shutdown = "done")

(* Once the shutdown has begun no realm is live any more, and none can be
   started: what is still supervised is being stopped or cleaned up. *)
Live == {"CREATING", "RUNNING", "PAUSED"}

Quiet == shutdown # "no" => \A i \in RealmIDs : realm[i].state \notin Live

(* The whole inductive invariant: sound records, and a quiet shutdown. *)
IInv == AllSound /\ Quiet
=============================================================================
