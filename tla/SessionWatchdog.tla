-------------------------- MODULE SessionWatchdog --------------------------
(***************************************************************************)
(* start-hyprland (start/src/core/Instance.cpp, start/src/main.cpp): the   *)
(* process that runs the compositor, hears over a pipe whether it is       *)
(* initialised, locked and exiting, and starts it again after a crash,     *)
(* locked if it was locked.  The compositor is the session lock of module  *)
(* SessionLock and may crash between any two of its steps.                 *)
(***************************************************************************)
EXTENDS SessionLock

CONSTANTS MaxRestarts   \* bound: how often the compositor is started again

ASSUME WatchdogAssumption == MaxRestarts \in Nat

VARIABLES
    proc,       \* the compositor: "starting", "up", "ending", "dead", or
                \* "reaped": waitpid has returned and the wakeup is written
    died,       \* the stage it died in
    watch,      \* the watchdog: "polling", "quitting" (in forceQuit) or "done"
    initialized,\* m_hyprlandInitialized
    exiting,    \* m_hyprlandExiting
    wasLocked,  \* m_hyprlandLocked
    arg,        \* the compositor was started with --locked
    option,     \* the user has it started with --locked-cmd
    restarts,   \* how often it was started again
    unheard     \* history: a lock that another one has replaced unlocked the
                \* session; its unlock reaches neither manager nor watchdog

process == <<proc, died>>
flags   == <<initialized, exiting, wasLocked>>
vars    == <<lockVars, process, watch, flags, arg, option, restarts, unheard>>

TypeOK ==
    /\ LockTypeOK
    /\ proc \in {"starting", "up", "ending", "dead", "reaped"}
    /\ died \in {"no", "starting", "up", "ending"}
    /\ watch \in {"polling", "quitting", "done"}
    /\ initialized \in BOOLEAN /\ exiting \in BOOLEAN /\ wasLocked \in BOOLEAN
    /\ arg \in BOOLEAN /\ option \in BOOLEAN /\ unheard \in BOOLEAN
    /\ restarts \in 0 .. MaxRestarts

Init ==
    /\ LockInit /\ option = command
    /\ proc = "starting" /\ died = "no"
    /\ watch = "polling"
    /\ initialized = FALSE /\ exiting = FALSE
    /\ wasLocked = FALSE /\ arg = FALSE
    /\ restarts = 0 /\ unheard = FALSE

-----------------------------------------------------------------------------
(* The compositor. *)

\* It is initialised and enters its event loop, after a forceLock if it was to
\* start locked.
Start ==
    /\ proc = "starting"
    /\ proc' = "up"
    /\ started' = (started \/ arg)
    /\ locked' = started' /\ notified' = started'
    /\ pipe' = pipe \o (IF started' THEN <<"lock", "vax">> ELSE <<"vax">>)
    /\ UNCHANGED <<command, lit, holder, objects, died, watch, flags, arg, option, restarts, unheard>>

\* A lock that does not hold the session goes and unlocks it.
UnlockUnheard ==
    \E l \in Locks \ {session} : locked /\ ~locked' /\ phase[l] = "live" /\ phase'[l] = "gone"

\* A step of the session lock, in the event loop.
Served ==
    /\ proc = "up"
    /\ unheard' = (~locked' /\ (UnlockUnheard \/ (unheard /\ pipe' = pipe)))
    /\ UNCHANGED <<process, watch, flags, arg, option, restarts>>
Serve == LockStep /\ Served

\* cleanup.
End ==
    /\ proc = "up"
    /\ proc' = "ending"
    /\ pipe' = Append(pipe, "end")
    /\ UNCHANGED <<locked, notified, lit, holder, objects, start, died, watch, flags, arg, option,
                   restarts, unheard>>

\* It crashes, or ends after its cleanup.
Die ==
    /\ proc \in {"starting", "up", "ending"}
    /\ proc' = "dead" /\ died' = proc
    /\ UNCHANGED <<lockVars, watch, flags, arg, option, restarts, unheard>>

-----------------------------------------------------------------------------
(* The watchdog. *)

\* The thread of the watchdog has waited for the compositor.
Reap ==
    /\ proc = "dead"
    /\ proc' = "reaped"
    /\ UNCHANGED <<lockVars, died, watch, flags, arg, option, restarts, unheard>>

\* What a reader that was told `was' takes the session for after messages p.
Says(p, was) ==
    \/ \E i \in DOMAIN p : p[i] = "lock" /\ \A j \in DOMAIN p : j > i => p[j] # "unlock"
    \/ was /\ \A j \in DOMAIN p : p[j] # "unlock"
Heard(p, word) == \E i \in DOMAIN p : p[i] = word

\* dispatchHyprlandEvent: it reads all there is.
Read ==
    /\ watch = "polling" /\ pipe # <<>>
    /\ pipe' = <<>>
    /\ initialized' = (initialized \/ Heard(pipe, "vax"))
    /\ exiting' = (exiting \/ Heard(pipe, "end"))
    /\ wasLocked' = Says(pipe, wasLocked)
    /\ UNCHANGED <<locked, notified, lit, holder, objects, start, process, watch, arg, option, restarts,
                   unheard>>

\* The end of run and the loop of main: the wakeup counts only when there is
\* nothing to read.
FaultyWakes == watch = "polling" /\ proc = "reaped"    \* fault: it is looked at first
Wakes == watch = "polling" /\ proc = "reaped" /\ pipe = <<>>

FaultyRunIsOver == ~initialized     \* fault: "end" is forgotten
RunIsOver == ~initialized \/ exiting

\* The locks of the compositor go with it, and --locked-cmd is there again.
Restarted ==
    /\ phase' = [l \in Locks |-> "none"] /\ told' = [l \in Locks |-> <<>>]
    /\ locked' = FALSE /\ notified' = FALSE
    /\ Release
    /\ started' = option /\ command' = option
    /\ pipe' = <<>>
    /\ UNCHANGED lit

\* The compositor is started again.
Restart ==
    /\ Wakes /\ ~RunIsOver /\ restarts < MaxRestarts
    /\ restarts' = restarts + 1
    /\ proc' = "starting" /\ died' = "no"
    /\ arg' = wasLocked /\ UNCHANGED wasLocked
    /\ initialized' = FALSE /\ exiting' = FALSE
    /\ Restarted /\ unheard' = FALSE
    /\ UNCHANGED <<watch, option>>

Stop ==
    /\ Wakes /\ RunIsOver
    /\ watch' = "done"
    /\ UNCHANGED <<lockVars, process, flags, arg, option, restarts, unheard>>

\* forceQuit, in the handler of SIGTERM and SIGINT: the compositor is asked to
\* end, and the watchdog exits when it has.
Quit ==
    /\ watch = "polling"
    /\ watch' = "quitting" /\ exiting' = TRUE
    /\ UNCHANGED <<lockVars, process, initialized, wasLocked, arg, option, restarts, unheard>>

QuitDone ==
    /\ watch = "quitting" /\ proc = "reaped"
    /\ watch' = "done"
    /\ UNCHANGED <<lockVars, process, flags, arg, option, restarts, unheard>>

Next ==
    \/ Start \/ Serve \/ End \/ Die
    \/ Reap \/ Read \/ Restart \/ Stop \/ Quit \/ QuitDone

\* The event loop of a compositor that is up dispatches its timers.
Fairness == WF_vars(TimerFires /\ Served)
Spec == Init /\ [][Next]_vars /\ Fairness

-----------------------------------------------------------------------------
(***************************************************************************)
(* What the session's notifiers and the watchdog know agrees with what the *)
(* session is: a lock that was told "locked" holds a locked session whose  *)
(* notifiers know it, notifiers are never told of a lock that is not       *)
(* there, and with what is still in the pipe the watchdog knows whether    *)
(* the session is locked - whatever order locks are requested, answered,   *)
(* replaced, unlocked, crashed and forced in, as long as no replaced lock  *)
(* has unlocked the session.                                               *)
(***************************************************************************)
EveryoneAgrees ==
    proc \in {"up", "ending"} /\ ~unheard =>
        /\ session # NoLock => locked
        /\ ClientLocked => notified
        /\ notified => locked
        /\ (Says(pipe, wasLocked) <=> locked)

(***************************************************************************)
(* A client is told "locked" at most once, and not after "finished":       *)
(* rendering, the timer and the case of no lit monitor race to answer it.  *)
(***************************************************************************)
LockedOnce == \A l \in Locks : \A i \in DOMAIN told[l] : told[l][i] = "locked" => i = 1

(***************************************************************************)
(* A session that was locked when the compositor crashed is locked when it *)
(* comes back, and only such a session, however late its last message was  *)
(* read: m_hyprlandLocked is looked at only after the pipe was emptied.    *)
(***************************************************************************)
RestartsAsItWas ==
    [][proc = "reaped" /\ proc' = "starting" /\ ~unheard => arg' = locked]_vars

(***************************************************************************)
(* Only a compositor that crashed after its initialisation is started      *)
(* again, never one that was exiting, and the watchdog gives up no other.  *)
(***************************************************************************)
OnlyCrashesRestart ==
    [][/\ proc = "reaped" /\ proc' = "starting" => died = "up"
       /\ watch = "polling" /\ watch' = "done" => died # "up"]_vars

(***************************************************************************)
(* The client whose lock holds the session is answered, even if a monitor  *)
(* never shows its surface: the timer is there until it is.                *)
(***************************************************************************)
HolderIsAnswered == \A l \in Locks :
    session = l /\ proc = "up" ~> told[l] # <<>> \/ phase[l] = "gone" \/ proc # "up"
=============================================================================
