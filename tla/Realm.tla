------------------------------- MODULE Realm -------------------------------
(***************************************************************************)
(* One agent realm as the host compositor records it: its lifecycle state, *)
(* who owns its input, whether it may be observed and which capabilities   *)
(* it has been granted (src/realm/Realm.hpp, Realm.cpp).  The operators    *)
(* are functions from a realm record to the record after the operation;    *)
(* RealmManager composes them into its handlers.                           *)
(***************************************************************************)
EXTENDS Integers

CONSTANT Capabilities   \* the capabilities this instance distinguishes

ASSUME CapabilitiesAssumption == "observe" \in Capabilities

States == {"CREATING", "RUNNING", "PAUSED", "STOPPING", "STOPPED", "FAILED"}
Owners == {"AGENT", "HUMAN", "NONE"}

\* The states in which the realm is supposed to have a live compositor.
Active == {"CREATING", "RUNNING", "PAUSED", "STOPPING"}

(***************************************************************************)
(* Exit codes: -1 while none is known, 127 when the compositor could not   *)
(* be executed, 0 standing for whatever status the supervisor reported.    *)
(***************************************************************************)
ExitCodes == {-1, 0, 127}

(***************************************************************************)
(* Lifecycle events told to the listeners (RealmManager.hpp).  `announced' *)
(* is a history field: the last event emitted for the realm.               *)
(***************************************************************************)
Events == {"CREATED", "STARTED", "PAUSED", "RESUMED", "STOPPED", "FAILED",
           "TAKEN_OVER", "RELEASED"}

RealmRecord ==
    [state         : States,
     inputOwner    : Owners,
     observation   : {"ALLOWED", "DENIED"},
     capabilities  : SUBSET Capabilities,
     exitCode      : ExitCodes,
     compositorPID : BOOLEAN,     \* a compositor PID is recorded
     runtime       : BOOLEAN,     \* a runtime directory is recorded and owned
     announced     : Events]

FreshRealm ==
    [state |-> "STOPPED", inputOwner |-> "NONE", observation |-> "DENIED",
     capabilities |-> {}, exitCode |-> -1, compositorPID |-> FALSE,
     runtime |-> FALSE, announced |-> "CREATED"]

(***************************************************************************)
(* CRealm::transitionTo: the edges of the lifecycle.                       *)
(***************************************************************************)
Transitions ==
    ({"STOPPED", "FAILED"} \X {"CREATING"})
      \cup ({"CREATING"} \X {"RUNNING", "STOPPING", "FAILED"})
      \cup ({"RUNNING"}  \X {"PAUSED", "STOPPING", "FAILED"})
      \cup ({"PAUSED"}   \X {"RUNNING", "STOPPING", "FAILED"})
      \cup ({"STOPPING"} \X {"STOPPED", "FAILED"})

CanMove(r, to) == <<r.state, to>> \in Transitions

TransitionTo(r, to) == IF CanMove(r, to) THEN [r EXCEPT !.state = to] ELSE r

(* A transition whose success alone is announced to the listeners. *)
FaultyMoveAndEmit(r, to, event) == TransitionTo(r, to)   \* fault: the event is lost

MoveAndEmit(r, to, event) ==
    IF CanMove(r, to) THEN [r EXCEPT !.state = to, !.announced = event] ELSE r

Emit(r, event)                == [r EXCEPT !.announced = event]
SetInputOwner(r, owner)       == [r EXCEPT !.inputOwner = owner]
SetObservation(r, permission) == [r EXCEPT !.observation = permission]
Allows(r, capability)         == capability \in r.capabilities

(* Nobody may feed input to the realm and nobody may look at it. *)
FaultyRevoked(r) == SetInputOwner(r, "NONE")   \* fault: observation is kept

Revoked(r) == SetObservation(SetInputOwner(r, "NONE"), "DENIED")

(* revokeCapability ends the observation permission with its capability. *)
FaultyWithout(r, capability) ==   \* fault: the permission outlives it
    [r EXCEPT !.capabilities = @ \ {capability}]

Without(r, capability) ==
    [(IF capability = "observe" THEN SetObservation(r, "DENIED") ELSE r)
       EXCEPT !.capabilities = @ \ {capability}]
=============================================================================
