---------------------------- MODULE SessionLock ----------------------------
(***************************************************************************)
(* The session lock of the compositor: CSessionLockManager                 *)
(* (src/managers/SessionLockManager.cpp) with the protocol objects of      *)
(* src/protocols/SessionLock.cpp, as far as they decide whether the        *)
(* session is locked, which lock holds it and what its client is told.     *)
(*                                                                         *)
(* A lock is answered "locked" by whichever comes first: every lit monitor *)
(* has rendered its lock surface, five seconds have passed, or no monitor  *)
(* is lit; or "finished" when it is denied or the session is unlocked by   *)
(* force.  Clients keep to the protocol - one lock surface per monitor, no *)
(* unlock before "locked" - but may crash at any moment.  Where the        *)
(* keyboard focus goes is not modelled.                                    *)
(***************************************************************************)
EXTENDS Naturals, Sequences

CONSTANTS Locks,        \* ext_session_lock_v1 objects, numbered as they are requested
          Monitors

NoLock == 0

ASSUME LockAssumption == Locks \subseteq Nat \ {NoLock}

VARIABLES
    locked,     \* CSessionLockProtocol::m_locked
    phase,      \* of each lock: "none", "live", "inert" or "gone"
    told,       \* the events each lock has been sent, in order
    session,    \* m_sessionLock: the lock that holds the session, or NoLock
    answered,   \* its hasSentLocked
    timer,      \* its sendLockedTimer is armed
    shown,      \* its lockedMonitors
    mapped,     \* the monitors on which it has a mapped surface
    lit,        \* the monitors that are enabled and not in DPMS
    notified,   \* CLockNotifyProtocol::m_isLocked
    started,    \* CCompositor::m_startLocked
    command,    \* m_startLockedCommand is not empty
    pipe        \* what has been written to the watchdog and not yet read

holder   == <<session, answered, timer, shown, mapped>>
objects  == <<phase, told>>
start    == <<started, command>>
lockVars == <<locked, notified, pipe, lit, holder, objects, start>>

Message == {"lock", "unlock", "vax", "end"}
Event == {"locked", "finished"}

LockTypeOK ==
    /\ locked \in BOOLEAN /\ notified \in BOOLEAN
    /\ phase \in [Locks -> {"none", "live", "inert", "gone"}]
    /\ told \in [Locks -> Seq(Event)]
    /\ session \in Locks \cup {NoLock}
    /\ answered \in BOOLEAN /\ timer \in BOOLEAN
    /\ shown \in SUBSET Monitors /\ mapped \in SUBSET Monitors
    /\ lit \in SUBSET Monitors
    /\ started \in BOOLEAN /\ command \in BOOLEAN
    /\ pipe \in Seq(Message)

\* A compositor that has parsed its arguments, perhaps a --locked-cmd.
LockInit ==
    /\ locked = FALSE /\ notified = FALSE
    /\ phase = [l \in Locks |-> "none"] /\ told = [l \in Locks |-> <<>>]
    /\ session = NoLock /\ answered = FALSE /\ timer = FALSE
    /\ shown = {} /\ mapped = {} /\ lit = Monitors
    /\ command \in BOOLEAN /\ started = command
    /\ pipe = <<>>

-----------------------------------------------------------------------------
(* The parts of the handlers. *)

Existing == {l \in Locks : phase[l] \in {"live", "inert"}}

\* clientLocked() and clientDenied(); nothing ever sets hasSentDenied.
ClientLocked == session # NoLock /\ answered

\* m_sessionLock.reset(), or a new one for lock l.
Hold(l, sent, armed) ==
    /\ session' = l /\ answered' = sent /\ timer' = armed
    /\ shown' = {} /\ mapped' = {}
Release == Hold(NoLock, FALSE, FALSE)

\* CSessionLock::sendLocked: it also tells the lock notifiers.
SendLocked(l) ==
    /\ told' = [told EXCEPT ![l] = Append(@, "locked")]
    /\ notified' = TRUE

\* The listeners of the compositor to the lock and the unlock event.  The first
\* lock event of a session that starts locked is its own forceLock (see Start
\* of the watchdog); any later one means that a lock manager has taken over.
LockEvent ==
    /\ pipe' = Append(pipe, "lock")
    /\ started' = FALSE
    /\ command' = (command /\ ~started)
FaultyUnlockEvent ==    \* fault: the watchdog is not told
    /\ started' = FALSE
    /\ UNCHANGED <<pipe, command>>
UnlockEvent ==
    /\ pipe' = Append(pipe, "unlock")
    /\ started' = FALSE
    /\ UNCHANGED command

-----------------------------------------------------------------------------
(* Locks come and go. *)

\* onNewSessionLock refuses a second lock, for which `allow' says whether
\* misc:allow_session_lock_restore is set, or ignores it while the lock that
\* holds the session has not been answered; else it holds the session from now.
Denied(allow) == locked /\ ~allow /\ ~command
Ignored == session # NoLock /\ ~ClientLocked

Deny(l) ==
    /\ phase' = [phase EXCEPT ![l] = "inert"]
    /\ told' = [told EXCEPT ![l] = Append(@, "finished")]
    /\ UNCHANGED <<holder, pipe, start, notified>>

Ignore(l) ==
    /\ phase' = [phase EXCEPT ![l] = "live"]
    /\ UNCHANGED <<holder, pipe, start, notified, told>>

TakeOver(l) ==
    /\ phase' = [phase EXCEPT ![l] = "live"]
    /\ LockEvent
    /\ Hold(l, lit = {}, lit # {})
    /\ IF lit = {} THEN SendLocked(l) ELSE UNCHANGED <<told, notified>>

\* A client locks the session: onLock, with the listener of the manager.
RequestLock(l) ==
    /\ phase[l] = "none" /\ \A k \in Locks : k < l => phase[k] # "none"
    /\ \E allow \in BOOLEAN :
           \/ Denied(allow) /\ Deny(l)
           \/ ~Denied(allow) /\ Ignored /\ Ignore(l)
           \/ ~Denied(allow) /\ ~Ignored /\ TakeOver(l)
    /\ locked' = TRUE
    /\ UNCHANGED lit

\* unlock_and_destroy.  Only the lock that holds the session has a listener
\* that tells the manager.
Unlock(l) ==
    /\ phase[l] = "live" /\ told[l] = <<"locked">>
    /\ locked' = FALSE /\ notified' = FALSE
    /\ IF session = l THEN UnlockEvent /\ Release ELSE UNCHANGED <<pipe, start, holder>>
    /\ phase' = [phase EXCEPT ![l] = "gone"]
    /\ UNCHANGED <<told, lit>>

\* The object is destroyed, by its client or because the client is gone.
DestroyLock(l) ==
    /\ l \in Existing
    /\ phase' = [phase EXCEPT ![l] = "gone"]
    /\ IF session = l THEN Release ELSE UNCHANGED holder
    /\ UNCHANGED <<locked, notified, pipe, lit, told, start>>

\* hl.clear_crashed_lockscreen: forceUnlock, which finishes every lock.
ForceUnlock ==
    /\ locked /\ ~ClientLocked
    /\ locked' = FALSE /\ notified' = FALSE
    /\ phase' = [l \in Locks |-> IF l \in Existing THEN "inert" ELSE phase[l]]
    /\ told' = [l \in Locks |-> IF l \in Existing THEN Append(told[l], "finished") ELSE told[l]]
    /\ UnlockEvent /\ Release
    /\ UNCHANGED lit

-----------------------------------------------------------------------------
(* Surfaces, frames and the timer. *)

\* A surface of the lock that holds the session is mapped, by its first commit,
\* or destroyed; those of another lock reach nobody.
ChangeSurface(m) ==
    /\ session # NoLock
    /\ mapped' = IF m \in mapped THEN mapped \ {m} ELSE mapped \cup {m}
    /\ UNCHANGED <<locked, notified, pipe, lit, session, answered, timer, shown, objects, start>>

\* onLockscreenRenderedOnMonitor.
FaultyRendered(m) ==    \* fault: a lock that the timer has answered is not left alone
    /\ shown' = shown \cup {m}
    /\ IF lit \subseteq shown'
       THEN SendLocked(session) /\ answered' = TRUE /\ timer' = FALSE
       ELSE UNCHANGED <<told, notified, answered, timer>>
FaultyTimer(m) ==       \* fault: the first monitor already removes the timer
    /\ shown' = shown \cup {m} /\ timer' = FALSE
    /\ IF lit \subseteq shown' /\ ~answered
       THEN SendLocked(session) /\ answered' = TRUE
       ELSE UNCHANGED <<told, notified, answered>>
Rendered(m) ==
    IF answered
    THEN UNCHANGED <<shown, told, notified, answered, timer>>
    ELSE /\ shown' = shown \cup {m}
         /\ IF lit \subseteq shown'
            THEN SendLocked(session) /\ answered' = TRUE /\ timer' = FALSE
            ELSE UNCHANGED <<told, notified, answered, timer>>

\* renderLockscreen: a frame of monitor m that shows the lock surface.
RenderLockscreen(m) ==
    /\ m \in lit /\ locked
    /\ session # NoLock /\ m \in mapped
    /\ Rendered(m)
    /\ UNCHANGED <<locked, pipe, lit, session, mapped, phase, start>>

\* The five seconds have passed.
TimerFires ==
    /\ timer /\ session # NoLock /\ ~answered
    /\ SendLocked(session)
    /\ answered' = TRUE /\ timer' = FALSE
    /\ UNCHANGED <<locked, pipe, lit, session, shown, mapped, phase, start>>

\* A monitor is switched on, off or unplugged.
SwitchMonitor(m) ==
    /\ lit' = IF m \in lit THEN lit \ {m} ELSE lit \cup {m}
    /\ UNCHANGED <<locked, notified, pipe, holder, objects, start>>

LockStep ==
    \/ \E l \in Locks : RequestLock(l) \/ Unlock(l) \/ DestroyLock(l)
    \/ ForceUnlock
    \/ \E m \in Monitors : ChangeSurface(m) \/ RenderLockscreen(m) \/ SwitchMonitor(m)
    \/ TimerFires
=============================================================================
