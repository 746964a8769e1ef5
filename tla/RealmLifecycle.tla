--------------------------- MODULE RealmLifecycle ---------------------------
(***************************************************************************)
(* A realm as the clients of the host can tell it: `state' is "NONE" while *)
(* there is no such realm, and `process' says whether the manager has an   *)
(* entry for it in m_processes and whether a signal still finds any of its *)
(* processes.  The operators give what a record x becomes, or the set of   *)
(* what it may become; other fields of x stay as they are.                 *)
(*                                                                         *)
(* This is all that RealmMCPServer assumes of the realms of its host, and  *)
(* RealmManagerContract that the manager keeps to it.                      *)
(***************************************************************************)

Active == {"CREATING", "RUNNING", "PAUSED"}
Over == {"STOPPED", "FAILED"}

-----------------------------------------------------------------------------
(* What requests make of a realm.                                          *)

MayCreate(x) == x.state = "NONE"
Created(x) == [x EXCEPT !.state = "STOPPED"]

MayStart(x) == x.state \in Over /\ x.process = "none"
Started(x) == [x EXCEPT !.state = "CREATING", !.process = "live"]
\* It could not be prepared or launched, or the supervisor that was forked could
\* not execute the compositor.
BadStarts(x) == {[x EXCEPT !.state = "FAILED", !.process = process] : process \in {"none", "live"}}

MayPause(x) == x.state = "RUNNING" /\ x.process = "live"
Paused(x) == [x EXCEPT !.state = "PAUSED"]

MayResume(x) == x.state = "PAUSED" /\ x.process = "live"
Resumed(x) == [x EXCEPT !.state = "RUNNING"]

MayStop(x) == x.state \in Active /\ x.process = "live"
Stopped(x) == [x EXCEPT !.state = "STOPPING"]

MayDestroy(x) == x.state \in Over /\ x.process = "none"
Removed(x) == [x EXCEPT !.state = "NONE"]

When(may, records) == IF may THEN records ELSE {}

Requested(x) ==
    When(MayCreate(x), {Created(x)})
    \cup When(MayStart(x), {Started(x)} \cup BadStarts(x))
    \cup When(MayPause(x), {Paused(x)})
    \cup When(MayResume(x), {Resumed(x)})
    \cup When(MayStop(x), {Stopped(x)})
    \cup When(MayDestroy(x), {Removed(x)})

-----------------------------------------------------------------------------
(* What becomes of a realm without a request.                              *)

MayBecomeReady(x) == x.state = "CREATING" /\ x.process = "live"
Ready(x) == [x EXCEPT !.state = "RUNNING"]

\* The last of its processes is gone.
Deserted(x) == When(x.process = "live", {[x EXCEPT !.process = "gone"]})

\* The exit of the compositor is noticed, or that it is overdue to be ready.
\* Others of its processes may be left or be reaped in the same pass, and then
\* the entry may be erased as well.
Outcome(x) == IF x.state = "STOPPING" THEN "STOPPED" ELSE "FAILED"
Ended(x) ==
    When(x.state \in Active \cup {"STOPPING"} /\ x.process # "none",
         {[x EXCEPT !.state = Outcome(x), !.process = process] : process \in {x.process, "gone", "none"}})

\* The entry is erased.
Erased(x) == When(x.state \in Over /\ x.process # "none", {[x EXCEPT !.process = "none"]})

\* The shutdown of the host stops a realm though no signal finds a process of it;
\* of one that is live it is a stop like any other.
ShutDown(x) == When(x.state \in Active /\ x.process = "gone", {Stopped(x)})

Happened(x) == Deserted(x) \cup Ended(x) \cup Erased(x) \cup ShutDown(x)

\* Every step of a realm.
MayBecome(x) == {x} \cup Requested(x) \cup When(MayBecomeReady(x), {Ready(x)}) \cup Happened(x)
=============================================================================
