------------------------ MODULE RealmManagerContract ------------------------
(***************************************************************************)
(* RealmManager implements RealmContract and keeps to RealmLifecycle,      *)
(* realm by realm.  Forgotten in the first mapping: the process table,     *)
(* signals and timers, the difference between STOPPED and FAILED, and      *)
(* capabilities other than observe; in the second one: leases, permissions *)
(* and which processes of a group are left.                                *)
(***************************************************************************)
EXTENDS RealmManager

Phase(r) ==
    CASE r.state = "CREATING" -> "starting"
      [] r.state = "RUNNING"  -> "running"
      [] r.state = "PAUSED"   -> "paused"
      [] r.state = "STOPPING" -> "stopping"
      [] OTHER                -> "idle"

Contract(i) == INSTANCE RealmContract WITH
    phase      <- Phase(realm[i]),
    owner      <- realm[i].inputOwner,
    observable <- realm[i].observation = "ALLOWED",
    granted    <- Allows(realm[i], "observe")

(***************************************************************************)
(* Every step of the manager is, for each realm, a step of the contract or *)
(* none: human and agent never share the input, a lease does not survive a *)
(* pause, a permission does not survive the end of the run.                *)
(***************************************************************************)
StepsByContract(i) == [Contract(i)!Next]_(Contract(i)!contract)

ImplementsContract ==
    /\ \A i \in RealmIDs : Contract(i)!Init
    /\ [][\A i \in RealmIDs : StepsByContract(i)]_vars

-----------------------------------------------------------------------------
Lifecycle == INSTANCE RealmLifecycle

\* What a client can tell of a realm.
Shown(i) ==
    [state   |-> IF i \in realms THEN realm[i].state ELSE "NONE",
     process |-> IF ~process[i].present THEN "none"
                 ELSE IF GroupExists(process[i], group[i]) THEN "live" ELSE "gone"]

(***************************************************************************)
(* What the tools of the MCP server assume of the realms of their host,    *)
(* the manager keeps: for those who see no more of a realm than its state  *)
(* and whether its processes live, each of its steps is one that a request *)
(* makes, an exit or a deadline.                                           *)
(***************************************************************************)
KeepsLifecycle ==
    /\ \A i \in RealmIDs : Lifecycle!MayCreate(Shown(i)) /\ Shown(i).process = "none"
    /\ [][\A i \in RealmIDs : Shown(i)' \in Lifecycle!MayBecome(Shown(i))]_vars
=============================================================================
