--------------------------- MODULE RealmContract ---------------------------
(***************************************************************************)
(* What a realm promises to the agent and to the human, with the processes *)
(* behind it left out: in which phase it is, who owns its input, whether   *)
(* it may be observed and whether the capability to observe it was granted.*)
(* One machine per realm; RealmManager implements it.                      *)
(***************************************************************************)

VARIABLES
    phase,        \* "idle", "starting", "running", "paused" or "stopping"
    owner,        \* who owns the input: "AGENT", "HUMAN" or "NONE"
    observable,   \* observation is permitted
    granted       \* the observe capability is granted

contract == <<phase, owner, observable, granted>>

Init ==
    /\ phase = "idle"
    /\ owner = "NONE"
    /\ observable = FALSE
    /\ granted = FALSE

Start ==
    /\ phase = "idle"
    /\ phase' = "starting"
    /\ UNCHANGED <<owner, observable, granted>>

\* A realm that becomes ready belongs to the agent and cannot be observed yet.
BecomeReady ==
    /\ phase = "starting"
    /\ phase' = "running"
    /\ owner' = "AGENT"
    /\ UNCHANGED <<observable, granted>>

\* Only the agent's lease can be taken over, only the human's can be released.
HandOver ==
    /\ phase = "running"
    /\ \/ owner = "AGENT" /\ owner' = "HUMAN"
       \/ owner = "HUMAN" /\ owner' = "AGENT"
    /\ UNCHANGED <<phase, observable, granted>>

\* Pausing takes the lease away and leaves the permission to observe.
Pause ==
    /\ phase = "running"
    /\ phase' = "paused"
    /\ owner' = "NONE"
    /\ UNCHANGED <<observable, granted>>

\* Whoever owned the input before the pause, the agent owns it after.
Resume ==
    /\ phase = "paused"
    /\ phase' = "running"
    /\ owner' = "AGENT"
    /\ UNCHANGED <<observable, granted>>

\* A stop, a kill, a failure or the shutdown revokes lease and permission.
End ==
    /\ phase # "idle"
    /\ phase' \in {"stopping", "idle"}
    /\ owner' = "NONE"
    /\ observable' = FALSE
    /\ UNCHANGED granted

Observe ==
    /\ phase = "running"
    /\ granted
    /\ observable' = TRUE
    /\ UNCHANGED <<phase, owner, granted>>

Unobserve ==
    /\ observable' = FALSE
    /\ UNCHANGED <<phase, owner, granted>>

Grant ==
    /\ granted' = TRUE
    /\ UNCHANGED <<phase, owner, observable>>

\* Revoking the capability ends the permission in the same step.
Revoke ==
    /\ granted' = FALSE
    /\ observable' = FALSE
    /\ UNCHANGED <<phase, owner>>

Next ==
    \/ Start \/ BecomeReady \/ HandOver \/ Pause \/ Resume \/ End
    \/ Observe \/ Unobserve \/ Grant \/ Revoke

Spec == Init /\ [][Next]_contract
=============================================================================
