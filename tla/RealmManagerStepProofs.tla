----------------------- MODULE RealmManagerStepProofs -----------------------
(***************************************************************************)
(* What a step of RealmManager may do to a realm: the refinement of        *)
(* RealmContract, the events that tell the state, the verdict of a run,    *)
(* and SIGTERM before SIGKILL.  Changed lists the ways in which a realm's  *)
(* record changes; every action is shown to be one of them for every       *)
(* realm, and the four properties follow from the list.  Then that starts  *)
(* and stops end, and that the manager keeps to RealmLifecycle: Life is    *)
(* the list of what a client can tell of a step.                           *)
(***************************************************************************)
EXTENDS RealmManagerContract, RealmManagerProofs

Idle == {"STOPPED", "FAILED"}

SameObservation(r, s) ==
    /\ s.observation = r.observation
    /\ Allows(s, "observe") <=> Allows(r, "observe")

\* Nothing that the contract or the listeners know of has changed.
Stays(r, s) ==
    /\ s.state = r.state /\ s.inputOwner = r.inputOwner
    /\ s.announced = r.announced
    /\ SameObservation(r, s)

\* allowObservation, denyObservation, grantCapability, revokeCapability.
Permits(r, s) ==
    /\ s.state = r.state /\ s.inputOwner = r.inputOwner
    /\ s.announced = r.announced
    /\ \/ s.observation = "ALLOWED" /\ r.state = "RUNNING"
            /\ Allows(r, "observe") /\ Allows(s, "observe")
       \/ s.observation = "DENIED" /\ (Allows(s, "observe") <=> Allows(r, "observe"))
       \/ s.observation = r.observation /\ Allows(s, "observe")
       \/ s.observation = "DENIED" /\ ~Allows(s, "observe")

Starts(r, s) ==
    /\ r.state \in Idle /\ s.state = "CREATING"
    /\ s.inputOwner = "NONE" /\ SameObservation(r, s)

FailsToStart(r, s) ==
    /\ r.state \in Idle /\ s.state = "FAILED" /\ s.announced = "FAILED"
    /\ s.inputOwner = "NONE" /\ SameObservation(r, s)

Readies(r, s) ==
    /\ r.state = "CREATING" /\ s.state = "RUNNING" /\ s.announced = "STARTED"
    /\ s.inputOwner = "AGENT" /\ SameObservation(r, s)

Hands(r, s) ==
    /\ r.state = "RUNNING" /\ s.state = "RUNNING"
    /\ s.announced \in {"TAKEN_OVER", "RELEASED"}
    /\ \/ r.inputOwner = "AGENT" /\ s.inputOwner = "HUMAN"
       \/ r.inputOwner = "HUMAN" /\ s.inputOwner = "AGENT"
    /\ SameObservation(r, s)

Pauses(r, s) ==
    /\ r.state = "RUNNING" /\ s.state = "PAUSED" /\ s.announced = "PAUSED"
    /\ s.inputOwner = "NONE" /\ SameObservation(r, s)

Resumes(r, s) ==
    /\ r.state = "PAUSED" /\ s.state = "RUNNING" /\ s.announced = "RESUMED"
    /\ s.inputOwner = "AGENT" /\ SameObservation(r, s)

Ends(r, s) ==
    /\ r.state \in Active
    /\ s.state \in {"STOPPING", "STOPPED", "FAILED"}
    /\ s.state \in Idle => s.announced = s.state
    /\ s.inputOwner = "NONE" /\ s.observation = "DENIED"
    /\ Allows(s, "observe") <=> Allows(r, "observe")

\* A realm that is created or destroyed.
Renews(r, s) == r.state \in Idle /\ s = FreshRealm

Changed(r, s) ==
    \/ Stays(r, s) \/ Permits(r, s) \/ Starts(r, s) \/ FailsToStart(r, s)
    \/ Readies(r, s) \/ Hands(r, s) \/ Pauses(r, s) \/ Resumes(r, s)
    \/ Ends(r, s) \/ Renews(r, s)

(***************************************************************************)
(* What Sound does not say and these properties need: the events told so   *)
(* far; that a realm is not STOPPED while the exit of its process is still *)
(* to come; that a group with a deadline has been told to end.             *)
(***************************************************************************)
Told(r) ==
    /\ r.state = "RUNNING" => r.announced \in {"STARTED", "RESUMED", "TAKEN_OVER", "RELEASED"}
    /\ r.state = "PAUSED"  => r.announced = "PAUSED"
    /\ r.state = "FAILED"  => r.announced = "FAILED"
    /\ r.state = "STOPPED" => r.announced \in {"CREATED", "STOPPED"}

ExitIsOpen(r, p) == p.present /\ ~p.exitReceived => r.state # "STOPPED"

Warned(p, g) ==
    p.present /\ p.termination # "none" => "TERM" \in g.signals \/ "KILL" \in g.signals

StepInv ==
    \A i \in RealmIDs :
        Told(realm[i]) /\ ExitIsOpen(realm[i], process[i]) /\ Warned(process[i], group[i])

\* VerdictFollowsRequest for one realm.
Judged(r, p, s, q) ==
    p.present =>
       /\ ~p.exitReceived /\ (q.exitReceived \/ ~q.present) =>
             s.state = (IF r.state = "STOPPING" THEN "STOPPED" ELSE "FAILED")
       /\ r.state = "FAILED" => s.state = "FAILED" /\ s.exitCode = r.exitCode

\* A step from the records r, p, g of a realm to s, q, h.
Step(r, p, g, s, q, h) ==
    Changed(r, s) /\ ExitIsOpen(s, q) /\ Warned(q, h) /\ Judged(r, p, s, q)

EveryStep ==
    \A i \in RealmIDs :
        Step(realm[i], process[i], group[i], realm'[i], process'[i], group'[i])

-----------------------------------------------------------------------------
(* The four properties, from the list. *)

\* A change on the list is a step of the contract, or none.
LEMMA ChangedByContract ==
    ASSUME AllSound, NEW i \in RealmIDs, Changed(realm[i], realm'[i])
    PROVE  StepsByContract(i)
<1> DEFINE r == realm[i]
           s == realm'[i]
<1>1. /\ r.inputOwner # "NONE" <=> r.state = "RUNNING"
      /\ r.observation = "ALLOWED" => Allows(r, "observe") /\ r.state \in {"RUNNING", "PAUSED"}
      /\ r.observation \in {"ALLOWED", "DENIED"} /\ r.state \in States
  BY DEF AllSound, Sound, TypeOK, RealmRecord
<1>2. /\ FreshRealm.state = "STOPPED" /\ FreshRealm.inputOwner = "NONE"
      /\ FreshRealm.observation = "DENIED" /\ ~Allows(FreshRealm, "observe")
  BY DEF FreshRealm, Allows
<1>3. /\ Phase(r)' = Phase(s)
      /\ (r.inputOwner)' = s.inputOwner
      /\ (r.observation = "ALLOWED")' = (s.observation = "ALLOWED")
      /\ (Allows(r, "observe"))' = Allows(s, "observe")
  BY DEF Phase, Allows
<1>4. ASSUME Phase(s) = Phase(r), s.inputOwner = r.inputOwner,
             (s.observation = "ALLOWED") = (r.observation = "ALLOWED"),
             Allows(s, "observe") = Allows(r, "observe")
      PROVE  StepsByContract(i)
  BY <1>3, <1>4, Zenon DEF StepsByContract, Contract!contract
<1>5. ASSUME SameObservation(r, s)
      PROVE  /\ (s.observation = "ALLOWED") = (r.observation = "ALLOWED")
             /\ Allows(s, "observe") = Allows(r, "observe")
  BY <1>5 DEF SameObservation, Allows
<1>6. CASE Stays(r, s)
  <2>1. Phase(s) = Phase(r) /\ s.inputOwner = r.inputOwner
    BY <1>6 DEF Stays, Phase
  <2> QED
    BY <1>4, <1>5, <1>6, <2>1 DEF Stays
<1>7. CASE Permits(r, s)
  <2>1. Phase(s) = Phase(r) /\ s.inputOwner = r.inputOwner
    BY <1>7 DEF Permits, Phase
  <2>2. CASE s.observation = "ALLOWED" /\ r.state = "RUNNING"
               /\ Allows(r, "observe") /\ Allows(s, "observe")
    <3>1. /\ Phase(r) = "running" /\ (s.observation = "ALLOWED") = TRUE
          /\ Allows(s, "observe") = Allows(r, "observe")
      BY <2>2 DEF Phase, Allows
    <3>2. Contract(i)!Observe
      BY <1>3, <2>1, <2>2, <3>1, Zenon DEF Contract!Observe
    <3> QED
      BY <3>2 DEF StepsByContract, Contract!Next
  <2>3. CASE s.observation = "DENIED" /\ (Allows(s, "observe") <=> Allows(r, "observe"))
    <3>1. /\ (s.observation = "ALLOWED") = FALSE
          /\ Allows(s, "observe") = Allows(r, "observe")
      BY <2>3 DEF Allows
    <3>2. Contract(i)!Unobserve
      BY <1>3, <2>1, <3>1, Zenon DEF Contract!Unobserve
    <3> QED
      BY <3>2 DEF StepsByContract, Contract!Next
  <2>4. CASE s.observation = r.observation /\ Allows(s, "observe")
    <3>1. /\ (s.observation = "ALLOWED") = (r.observation = "ALLOWED")
          /\ Allows(s, "observe") = TRUE
      BY <2>4 DEF Allows
    <3>2. Contract(i)!Grant
      BY <1>3, <2>1, <3>1, Zenon DEF Contract!Grant
    <3> QED
      BY <3>2 DEF StepsByContract, Contract!Next
  <2>5. CASE s.observation = "DENIED" /\ ~Allows(s, "observe")
    <3>1. (s.observation = "ALLOWED") = FALSE /\ Allows(s, "observe") = FALSE
      BY <2>5 DEF Allows
    <3>2. Contract(i)!Revoke
      BY <1>3, <2>1, <3>1, Zenon DEF Contract!Revoke
    <3> QED
      BY <3>2 DEF StepsByContract, Contract!Next
  <2> QED
    BY <1>7, <2>2, <2>3, <2>4, <2>5 DEF Permits
<1>8. CASE Starts(r, s)
  <2>1. Phase(r) = "idle" /\ Phase(s) = "starting" /\ s.inputOwner = r.inputOwner
    BY <1>1, <1>8 DEF Starts, Phase, Idle, States
  <2>2. Contract(i)!Start
    BY <1>3, <1>5, <1>8, <2>1, Zenon DEF Starts, Contract!Start
  <2> QED
    BY <2>2 DEF StepsByContract, Contract!Next
<1>9. CASE FailsToStart(r, s)
  <2>1. Phase(s) = Phase(r) /\ s.inputOwner = r.inputOwner
    BY <1>1, <1>9 DEF FailsToStart, Phase, Idle
  <2> QED
    BY <1>4, <1>5, <1>9, <2>1 DEF FailsToStart
<1>10. CASE Readies(r, s)
  <2>1. Phase(r) = "starting" /\ Phase(s) = "running" /\ s.inputOwner = "AGENT"
    BY <1>1, <1>10 DEF Readies, Phase, Idle, States
  <2>2. Contract(i)!BecomeReady
    BY <1>3, <1>5, <1>10, <2>1, Zenon DEF Readies, Contract!BecomeReady
  <2> QED
    BY <2>2 DEF StepsByContract, Contract!Next
<1>11. CASE Hands(r, s)
  <2>1. Phase(r) = "running" /\ Phase(s) = Phase(r)
    BY <1>11 DEF Hands, Phase
  <2>2. Contract(i)!HandOver
    BY <1>3, <1>5, <1>11, <2>1, Zenon DEF Hands, Contract!HandOver
  <2> QED
    BY <2>2 DEF StepsByContract, Contract!Next
<1>12. CASE Pauses(r, s)
  <2>1. Phase(r) = "running" /\ Phase(s) = "paused" /\ s.inputOwner = "NONE"
    BY <1>1, <1>12 DEF Pauses, Phase, Idle, States
  <2>2. Contract(i)!Pause
    BY <1>3, <1>5, <1>12, <2>1, Zenon DEF Pauses, Contract!Pause
  <2> QED
    BY <2>2 DEF StepsByContract, Contract!Next
<1>13. CASE Resumes(r, s)
  <2>1. Phase(r) = "paused" /\ Phase(s) = "running" /\ s.inputOwner = "AGENT"
    BY <1>1, <1>13 DEF Resumes, Phase, Idle, States
  <2>2. Contract(i)!Resume
    BY <1>3, <1>5, <1>13, <2>1, Zenon DEF Resumes, Contract!Resume
  <2> QED
    BY <2>2 DEF StepsByContract, Contract!Next
<1>14. CASE Ends(r, s)
  <2>1. Phase(r) # "idle" /\ Phase(s) \in {"stopping", "idle"}
    BY <1>14 DEF Ends, Phase, Active
  <2>2. /\ (s.observation = "ALLOWED") = FALSE /\ s.inputOwner = "NONE"
        /\ Allows(s, "observe") = Allows(r, "observe")
    BY <1>14 DEF Ends, Allows
  <2>3. Contract(i)!End
    BY <1>3, <2>1, <2>2, Zenon DEF Contract!End
  <2> QED
    BY <2>3 DEF StepsByContract, Contract!Next
<1>15. CASE Renews(r, s)
  <2>1. Phase(s) = Phase(r) /\ s.inputOwner = r.inputOwner
    BY <1>1, <1>2, <1>15 DEF Renews, Phase, Idle
  <2>2. (s.observation = "ALLOWED") = FALSE /\ Allows(s, "observe") = FALSE
    BY <1>2, <1>15 DEF Renews, Allows
  <2>3. Contract(i)!Revoke
    BY <1>3, <2>1, <2>2, Zenon DEF Contract!Revoke
  <2> QED
    BY <2>3 DEF StepsByContract, Contract!Next
<1> QED
  BY <1>6, <1>7, <1>8, <1>9, <1>10, <1>11, <1>12, <1>13, <1>14, <1>15 DEF Changed

\* No change on the list makes the last event disagree with the state.
LEMMA ChangedTells ==
    ASSUME NEW r, NEW s, Told(r), Changed(r, s)
    PROVE  Told(s)
<1>1. CASE Renews(r, s)
  BY <1>1 DEF Renews, FreshRealm, Told
<1>2. CASE Ends(r, s)
  BY <1>2 DEF Ends, Idle, Told
<1>3. CASE ~Renews(r, s) /\ ~Ends(r, s)
  BY <1>3 DEF Changed, Told, Stays, Permits, Starts, FailsToStart, Readies, Hands, Pauses, Resumes
<1> QED
  BY <1>1, <1>2, <1>3

-----------------------------------------------------------------------------
(* Lifting a step of one realm. *)

\* A realm that the action does not touch has made no step.
LEMMA SelfStep ==
    ASSUME NEW r, NEW p, NEW g, Told(r), ExitIsOpen(r, p), Warned(p, g)
    PROVE  Step(r, p, g, r, p, g)
BY DEF Step, Changed, Stays, SameObservation, Judged

\* An action on one realm is a step of every realm.
LEMMA OneStep ==
    ASSUME AllSound, StepInv, NEW i \in RealmIDs, NEW r, NEW p, NEW g,
           realm' = [realm EXCEPT ![i] = r],
           process' = [process EXCEPT ![i] = p],
           group' = [group EXCEPT ![i] = g],
           Step(realm[i], process[i], group[i], r, p, g)
    PROVE  EveryStep
<1> SUFFICES ASSUME NEW j \in RealmIDs
             PROVE  Step(realm[j], process[j], group[j], realm'[j], process'[j], group'[j])
  BY DEF EveryStep
<1>1. CASE j = i
  <2>1. realm'[j] = r /\ process'[j] = p /\ group'[j] = g
    BY <1>1 DEF AllSound, TypeOK
  <2> QED
    BY <1>1, <2>1
<1>2. CASE j # i
  <2>1. realm'[j] = realm[j] /\ process'[j] = process[j] /\ group'[j] = group[j]
    BY <1>2 DEF AllSound, TypeOK
  <2> QED
    BY <2>1, SelfStep DEF StepInv
<1> QED
  BY <1>1, <1>2

\* The records of a realm, their types and what is known of them.
LEMMA Known ==
    ASSUME AllSound, StepInv, NEW i \in RealmIDs
    PROVE  /\ realm[i] \in RealmRecord /\ process[i] \in ProcessRecord
           /\ group[i] \in GroupRecord
           /\ Sound(realm[i], process[i], group[i], i \in realms, shutdown = "done")
           /\ Told(realm[i]) /\ ExitIsOpen(realm[i], process[i])
           /\ Warned(process[i], group[i])
BY DEF AllSound, StepInv, TypeOK

-----------------------------------------------------------------------------
(* Requests. *)

\* createRealm and destroyRealm: there is no process.
LEMMA RenewSteps ==
    ASSUME AllSound, StepInv, NEW i \in RealmIDs, CreateRealm(i) \/ DestroyRealm(i)
    PROVE  EveryStep
<1>1. /\ realm' = [realm EXCEPT ![i] = FreshRealm]
      /\ process' = [process EXCEPT ![i] = process[i]]
      /\ group' = [group EXCEPT ![i] = group[i]]
  BY Untouched DEF CreateRealm, DestroyRealm
<1>2. ~process[i].present
  BY Known DEF CreateRealm, DestroyRealm, Sound, AllSound
<1>3. realm[i].state \in Idle
  BY <1>2, Known DEF Sound, Active, Idle, RealmRecord, States
<1>4. Step(realm[i], process[i], group[i], FreshRealm, process[i], group[i])
  BY <1>2, <1>3 DEF Step, Changed, Renews, ExitIsOpen, Warned, Judged
<1> QED
  BY <1>1, <1>4, OneStep

\* A start that failed tells so and keeps the capabilities.
LEMMA FailedStartTells ==
    ASSUME NEW r \in RealmRecord, CanMove(r, "CREATING"), NEW left \in BOOLEAN
    PROVE  LET f == [MoveAndEmit(Starting(r), "FAILED", "FAILED") EXCEPT !.runtime = left]
           IN  f.announced = "FAILED" /\ f.capabilities = r.capabilities
<1> DEFINE m == MoveAndEmit(Starting(r), "FAILED", "FAILED")
<1>1. Starting(r) \in RealmRecord /\ Starting(r).state = "CREATING"
  BY StartingRealm
<1>2. Starting(r).capabilities = r.capabilities
  <2>1. TransitionTo(r, "CREATING") = [r EXCEPT !.state = "CREATING"]
    BY Moves DEF States, Events
  <2> QED
    BY <2>1 DEF Starting, Revoked, SetObservation, SetInputOwner, RealmRecord
<1>3. m = [Starting(r) EXCEPT !.state = "FAILED", !.announced = "FAILED"]
  <2>1. CanMove(Starting(r), "FAILED")
    BY <1>1 DEF CanMove, Transitions
  <2> QED
    BY <1>1, <2>1, Moves DEF States, Events
<1>4. m \in RealmRecord /\ m.announced = "FAILED" /\ m.capabilities = r.capabilities
  <2>1. m \in RealmRecord
    BY <1>1, RealmOperations DEF States, Events
  <2> QED
    BY <1>1, <1>2, <1>3, <2>1 DEF RealmRecord
<1> HIDE DEF m
<1>5. LET f == [m EXCEPT !.runtime = left]
      IN  f.announced = m.announced /\ f.capabilities = m.capabilities
  BY <1>4 DEF RealmRecord
<1> QED
  BY <1>4, <1>5 DEF m

\* What is known of a realm that may be started.
LEMMA MayStartIs ==
    ASSUME AllSound, StepInv, NEW i \in RealmIDs, MayStart(i)
    PROVE  /\ ~process[i].present /\ realm[i].state \in Idle
           /\ CanMove(realm[i], "CREATING")
           /\ realm[i].inputOwner = "NONE" /\ realm[i].observation = "DENIED"
<1>1. ~process[i].present /\ CanMove(realm[i], "CREATING")
  BY DEF MayStart
<1>2. realm[i].state \in Idle
  BY <1>1 DEF CanMove, Transitions, Idle
<1> QED
  BY <1>1, <1>2, Known DEF Sound, Idle, RealmRecord

\* startRealm, however it ends.
LEMMA StartSteps ==
    ASSUME AllSound, StepInv, NEW i \in RealmIDs, StartRealm(i)
    PROVE  EveryStep
<1>1. MayStart(i)
  BY DEF StartRealm, StartUnprepared, StartUnlaunched, StartUnexecuted, StartLaunched
<1>2. /\ ~process[i].present /\ realm[i].state \in Idle
      /\ CanMove(realm[i], "CREATING")
      /\ realm[i].inputOwner = "NONE" /\ realm[i].observation = "DENIED"
  BY <1>1, MayStartIs
<1>3. realm[i] \in RealmRecord /\ process[i] \in ProcessRecord /\ group[i] \in GroupRecord
  BY Known
<1>4. CASE StartUnprepared(i) \/ StartUnlaunched(i)
  <2>1. PICK left \in BOOLEAN :
           realm' = [realm EXCEPT ![i] =
                       [MoveAndEmit(Starting(realm[i]), "FAILED", "FAILED") EXCEPT !.runtime = left]]
    BY <1>4, FailedStarts
  <2>2. PICK stray \in BOOLEAN :
           group' = [group EXCEPT ![i] = [group[i] EXCEPT !.stray = stray]]
    BY <1>4, FailedStarts
  <2> DEFINE f == [MoveAndEmit(Starting(realm[i]), "FAILED", "FAILED") EXCEPT !.runtime = left]
             g == [group[i] EXCEPT !.stray = stray]
  <2>3. /\ f.state = "FAILED" /\ f.inputOwner = "NONE" /\ f.observation = "DENIED"
        /\ f.announced = "FAILED" /\ f.capabilities = realm[i].capabilities
    BY <1>2, <1>3, FailedStart, FailedStartTells
  <2>4. /\ realm' = [realm EXCEPT ![i] = f]
        /\ process' = [process EXCEPT ![i] = process[i]]
        /\ group' = [group EXCEPT ![i] = g]
    BY <1>4, <2>1, <2>2, FailedStarts
  <2> HIDE DEF f, g
  <2>5. Step(realm[i], process[i], group[i], f, process[i], g)
    BY <1>2, <2>3 DEF Step, Changed, FailsToStart, SameObservation, Allows,
                      ExitIsOpen, Warned, Judged
  <2> QED
    BY <2>4, <2>5, OneStep
<1>5. CASE StartUnexecuted(i)
  <2> DEFINE m == [MoveAndEmit(Starting(realm[i]), "FAILED", "FAILED") EXCEPT !.runtime = TRUE]
             e == MoveAndEmit(Starting(realm[i]), "FAILED", "FAILED")
             f == [e EXCEPT !.runtime = TRUE, !.exitCode = 127, !.compositorPID = FALSE]
             p == [NoProcess EXCEPT !.present = TRUE, !.failOnExit = TRUE]
             g == NewGroup(group[i], "exited")
  <2>1. /\ m.state = "FAILED" /\ m.inputOwner = "NONE" /\ m.observation = "DENIED"
        /\ m.announced = "FAILED" /\ m.capabilities = realm[i].capabilities
    BY <1>2, <1>3, FailedStart, FailedStartTells
  <2>2. e \in RealmRecord
    <3>1. Starting(realm[i]) \in RealmRecord
      BY <1>2, <1>3, StartingRealm
    <3> QED
      BY <3>1, RealmOperations DEF States, Events
  <2>3. /\ realm' = [realm EXCEPT ![i] = f]
        /\ process' = [process EXCEPT ![i] = p]
        /\ group' = [group EXCEPT ![i] = g]
    BY <1>5 DEF StartUnexecuted
  <2> HIDE DEF e
  <2>4. /\ f.state = m.state /\ f.inputOwner = m.inputOwner
        /\ f.observation = m.observation /\ f.announced = m.announced
        /\ f.capabilities = m.capabilities
    BY <2>2 DEF RealmRecord, e
  <2>5. p.present /\ ~p.exitReceived /\ p.termination = "none"
    BY DEF NoProcess
  <2> HIDE DEF m, f, p, g
  <2>6. Step(realm[i], process[i], group[i], f, p, g)
    BY <1>2, <2>1, <2>4, <2>5 DEF Step, Changed, FailsToStart, SameObservation, Allows,
                      ExitIsOpen, Warned, Judged
  <2> QED
    BY <2>3, <2>6, OneStep
<1>6. CASE StartLaunched(i)
  <2> DEFINE e == Starting(realm[i])
             f == [e EXCEPT !.runtime = TRUE, !.compositorPID = TRUE]
             p == [NoProcess EXCEPT !.present = TRUE]
             g == NewGroup(group[i], "alive")
  <2>1. /\ e \in RealmRecord /\ e.state = "CREATING" /\ e.inputOwner = "NONE"
        /\ e.observation = "DENIED"
    BY <1>2, <1>3, StartingRealm
  <2>2. e.capabilities = realm[i].capabilities
    <3>1. TransitionTo(realm[i], "CREATING") = [realm[i] EXCEPT !.state = "CREATING"]
      BY <1>2, <1>3, Moves DEF States, Events
    <3> QED
      BY <1>3, <3>1 DEF Starting, Revoked, SetObservation, SetInputOwner, RealmRecord
  <2>3. /\ realm' = [realm EXCEPT ![i] = f]
        /\ process' = [process EXCEPT ![i] = p]
        /\ group' = [group EXCEPT ![i] = g]
    BY <1>6 DEF StartLaunched
  <2> HIDE DEF e
  <2>4. /\ f.state = e.state /\ f.inputOwner = e.inputOwner
        /\ f.observation = e.observation /\ f.capabilities = e.capabilities
    BY <2>1 DEF RealmRecord
  <2>5. p.present /\ ~p.exitReceived /\ p.termination = "none"
    BY DEF NoProcess
  <2> HIDE DEF f, p, g
  <2>6. Step(realm[i], process[i], group[i], f, p, g)
    BY <1>2, <2>1, <2>2, <2>4, <2>5 DEF Step, Changed, Starts, SameObservation, Allows,
                      ExitIsOpen, Warned, Judged
  <2> QED
    BY <2>3, <2>6, OneStep
<1> QED
  BY <1>4, <1>5, <1>6 DEF StartRealm

\* openApplication changes nothing that is listed.
LEMMA OpenSteps ==
    ASSUME AllSound, StepInv, NEW i \in RealmIDs, NEW a, OpenApplication(i, a)
    PROVE  EveryStep
<1> DEFINE p == [process[i] EXCEPT !.applications = @ \cup {a}]
           g == [group[i] EXCEPT !.applications = @ \cup {a}]
<1>1. /\ realm' = [realm EXCEPT ![i] = realm[i]]
      /\ process' = [process EXCEPT ![i] = p]
      /\ group' = [group EXCEPT ![i] = g]
  BY Untouched DEF OpenApplication
<1>2. /\ p.present = process[i].present /\ p.exitReceived = process[i].exitReceived
      /\ p.termination = process[i].termination /\ g.signals = group[i].signals
  BY Known DEF ProcessRecord, GroupRecord
<1> HIDE DEF p, g
<1>3. Step(realm[i], process[i], group[i], realm[i], p, g)
  BY <1>2, Known DEF Step, Changed, Stays, SameObservation, ExitIsOpen, Warned, Judged
<1> QED
  BY <1>1, <1>3, OneStep

\* pauseRealm and pauseAllRealms.
LEMMA PauseSteps ==
    ASSUME AllSound, StepInv, NEW requested, PauseRealms(requested)
    PROVE  EveryStep
<1> DEFINE paused == {i \in requested \cap realms : CanPause(i)}
<1>1. /\ realm' = [i \in RealmIDs |->
                     IF i \in paused THEN Paused(realm[i]) ELSE realm[i]]
      /\ group' = [i \in RealmIDs |->
                     IF i \in paused THEN Signal(group[i], "STOP") ELSE group[i]]
      /\ process' = process
  BY DEF PauseRealms
<1>2. \A i \in paused : realm[i].state = "RUNNING"
  BY DEF CanPause
<1> HIDE DEF paused
<1> SUFFICES ASSUME NEW i \in RealmIDs
             PROVE  Step(realm[i], process[i], group[i], realm'[i], process'[i], group'[i])
  BY DEF EveryStep
<1>3. CASE i \in paused
  <2> DEFINE r == Paused(realm[i])
             g == Signal(group[i], "STOP")
  <2>1. realm'[i] = r /\ process'[i] = process[i] /\ group'[i] = g
    BY <1>1, <1>3
  <2>2. TransitionTo(realm[i], "PAUSED") = [realm[i] EXCEPT !.state = "PAUSED"]
    BY <1>2, <1>3, Known, Moves DEF CanMove, Transitions, States, Events
  <2>3. /\ r.state = "PAUSED" /\ r.inputOwner = "NONE" /\ r.announced = "PAUSED"
        /\ r.observation = realm[i].observation /\ r.capabilities = realm[i].capabilities
    BY <2>2, Known DEF Paused, Emit, SetInputOwner, RealmRecord
  <2>4. group[i].signals \subseteq g.signals
    BY Known DEF Signal, GroupRecord
  <2> HIDE DEF r, g
  <2>5. Step(realm[i], process[i], group[i], r, process[i], g)
    BY <1>2, <1>3, <2>3, <2>4, Known
    DEF Step, Changed, Pauses, SameObservation, Allows, ExitIsOpen, Warned, Judged
  <2> QED
    BY <2>1, <2>5
<1>4. CASE i \notin paused
  <2>1. realm'[i] = realm[i] /\ process'[i] = process[i] /\ group'[i] = group[i]
    BY <1>1, <1>4
  <2> QED
    BY <2>1, Known, SelfStep
<1> QED
  BY <1>3, <1>4

\* resumeRealm.
LEMMA ResumeSteps ==
    ASSUME AllSound, StepInv, NEW i \in RealmIDs, ResumeRealm(i)
    PROVE  EveryStep
<1> DEFINE r == Emit(SetInputOwner(TransitionTo(realm[i], "RUNNING"), "AGENT"), "RESUMED")
           g == Continue(group[i])
<1>1. /\ realm' = [realm EXCEPT ![i] = r]
      /\ process' = [process EXCEPT ![i] = process[i]]
      /\ group' = [group EXCEPT ![i] = g]
      /\ realm[i].state = "PAUSED"
  BY Untouched DEF ResumeRealm
<1>2. TransitionTo(realm[i], "RUNNING") = [realm[i] EXCEPT !.state = "RUNNING"]
  BY <1>1, Known, Moves DEF CanMove, Transitions, States, Events
<1>3. /\ r.state = "RUNNING" /\ r.inputOwner = "AGENT" /\ r.announced = "RESUMED"
      /\ r.observation = realm[i].observation /\ r.capabilities = realm[i].capabilities
  BY <1>2, Known DEF Emit, SetInputOwner, RealmRecord
<1>4. g.signals = group[i].signals \ {"STOP"}
  BY Known DEF Continue, GroupRecord
<1> HIDE DEF r, g
<1>5. Step(realm[i], process[i], group[i], r, process[i], g)
  BY <1>1, <1>3, <1>4, Known
  DEF Step, Changed, Resumes, SameObservation, Allows, ExitIsOpen, Warned, Judged
<1> QED
  BY <1>1, <1>5, OneStep

\* What stopRealm, killRealm and shutdownAll make of a live realm.
LEMMA StoppingRealm ==
    ASSUME NEW r \in RealmRecord, r.state \in Live
    PROVE  LET s == Revoked(TransitionTo(r, "STOPPING"))
           IN  /\ s.state = "STOPPING" /\ s.inputOwner = "NONE" /\ s.observation = "DENIED"
               /\ s.capabilities = r.capabilities
               /\ Changed(r, s)
<1> DEFINE s == Revoked(TransitionTo(r, "STOPPING"))
<1>1. TransitionTo(r, "STOPPING") = [r EXCEPT !.state = "STOPPING"]
  BY Moves DEF CanMove, Transitions, States, Events, Live
<1>2. /\ s.state = "STOPPING" /\ s.inputOwner = "NONE" /\ s.observation = "DENIED"
      /\ s.capabilities = r.capabilities
  BY <1>1 DEF Revoked, SetObservation, SetInputOwner, RealmRecord
<1> HIDE DEF s
<1>3. Changed(r, s)
  BY <1>2 DEF Changed, Ends, Active, Live, Idle, Allows
<1> QED
  BY <1>2, <1>3 DEF s

\* A deadline is set and nothing else of the entry changes.
LEMMA DeadlineIs ==
    ASSUME NEW p \in ProcessRecord
    PROVE  /\ Deadline(p).present = p.present /\ Deadline(p).exitReceived = p.exitReceived
           /\ Deadline(p).termination = "pending"
BY DEF Deadline, ProcessRecord

\* stopRealm.
LEMMA StopSteps ==
    ASSUME AllSound, StepInv, NEW i \in RealmIDs, StopRealm(i)
    PROVE  EveryStep
<1> DEFINE r == Revoked(TransitionTo(realm[i], "STOPPING"))
           p == Deadline(process[i])
           g == Terminate(realm[i], group[i])
<1>1. /\ realm' = [realm EXCEPT ![i] = r]
      /\ process' = [process EXCEPT ![i] = p]
      /\ group' = [group EXCEPT ![i] = g]
      /\ realm[i].state \in Live
  BY DEF StopRealm, Live
<1>2. r.state = "STOPPING" /\ Changed(realm[i], r)
  BY <1>1, Known, StoppingRealm
<1>3. p.present = process[i].present /\ p.exitReceived = process[i].exitReceived
  BY Known, DeadlineIs
<1>4. "TERM" \in g.signals
  BY Known DEF Terminate, Signal, Continue, GroupRecord
<1> HIDE DEF r, p, g
<1>5. Step(realm[i], process[i], group[i], r, p, g)
  BY <1>1, <1>2, <1>3, <1>4, Known DEF Step, ExitIsOpen, Warned, Judged, Live
<1> QED
  BY <1>1, <1>5, OneStep

\* killRealm, of a live realm and of one that has ended.
LEMMA KillSteps ==
    ASSUME AllSound, StepInv, NEW i \in RealmIDs, KillRealm(i)
    PROVE  EveryStep
<1> DEFINE m == IF realm[i].state \in Live THEN TransitionTo(realm[i], "STOPPING") ELSE realm[i]
           r == Revoked(m)
           d == Deadline(process[i])
           p == [d EXCEPT !.forceKillSent = TRUE]
           g == Signal(group[i], "KILL")
<1>1. /\ realm' = [realm EXCEPT ![i] = r]
      /\ process' = [process EXCEPT ![i] = p]
      /\ group' = [group EXCEPT ![i] = g]
  BY DEF KillRealm, Live
<1>2. p.present = process[i].present /\ p.exitReceived = process[i].exitReceived
  <2>1. /\ d \in ProcessRecord
        /\ d.present = process[i].present /\ d.exitReceived = process[i].exitReceived
    BY Known, DeadlineIs, DeadlineType
  <2> HIDE DEF d
  <2> QED
    BY <2>1 DEF ProcessRecord
<1>3. "KILL" \in g.signals
  BY Known DEF Signal, GroupRecord
<1> HIDE DEF p, g
<1>4. CASE realm[i].state \in Live
  <2>1. r.state = "STOPPING" /\ Changed(realm[i], r)
    BY <1>4, Known, StoppingRealm
  <2>2. Step(realm[i], process[i], group[i], r, p, g)
    BY <1>2, <1>3, <1>4, <2>1 DEF Step, ExitIsOpen, Warned, Judged, Live
  <2> QED
    BY <1>1, <2>2, OneStep
<1>5. CASE realm[i].state \notin Live
  <2>1. /\ r.state = realm[i].state /\ r.inputOwner = "NONE" /\ r.observation = "DENIED"
        /\ r.announced = realm[i].announced /\ r.capabilities = realm[i].capabilities
        /\ r.exitCode = realm[i].exitCode
    BY <1>5, Known DEF Revoked, SetObservation, SetInputOwner, RealmRecord
  <2>2. realm[i].inputOwner = "NONE" /\ realm[i].observation = "DENIED"
    BY <1>5, Known DEF Sound, Live, RealmRecord
  <2> HIDE DEF r
  <2>3. Step(realm[i], process[i], group[i], r, p, g)
    BY <1>2, <1>3, <2>1, <2>2, Known
    DEF Step, Changed, Stays, SameObservation, Allows, ExitIsOpen, Warned, Judged
  <2> QED
    BY <1>1, <2>3, OneStep
<1> QED
  BY <1>4, <1>5

\* A handler that changes only the realm's record.
LEMMA UpdateSteps ==
    ASSUME AllSound, StepInv, NEW i \in RealmIDs, NEW r, UpdateRealm(i, r),
           Changed(realm[i], r), r.state = realm[i].state, r.exitCode = realm[i].exitCode
    PROVE  EveryStep
<1>1. /\ realm' = [realm EXCEPT ![i] = r]
      /\ process' = [process EXCEPT ![i] = process[i]]
      /\ group' = [group EXCEPT ![i] = group[i]]
  BY Untouched DEF UpdateRealm
<1>2. Step(realm[i], process[i], group[i], r, process[i], group[i])
  BY Known DEF Step, ExitIsOpen, Warned, Judged
<1> QED
  BY <1>1, <1>2, OneStep

\* takeoverRealm and releaseRealm.
LEMMA LeaseSteps ==
    ASSUME AllSound, StepInv, NEW i \in RealmIDs, TakeoverRealm(i) \/ ReleaseRealm(i)
    PROVE  EveryStep
<1>1. PICK owner \in {"AGENT", "HUMAN"}, event \in {"TAKEN_OVER", "RELEASED"} :
         /\ UpdateRealm(i, Emit(SetInputOwner(realm[i], owner), event))
         /\ realm[i].state = "RUNNING" /\ realm[i].inputOwner \in {"AGENT", "HUMAN"} \ {owner}
  BY DEF TakeoverRealm, ReleaseRealm
<1> DEFINE r == Emit(SetInputOwner(realm[i], owner), event)
<1>2. /\ r.state = realm[i].state /\ r.inputOwner = owner /\ r.announced = event
      /\ r.observation = realm[i].observation /\ r.capabilities = realm[i].capabilities
      /\ r.exitCode = realm[i].exitCode
  BY Known DEF Emit, SetInputOwner, RealmRecord
<1> HIDE DEF r
<1>3. Changed(realm[i], r)
  BY <1>1, <1>2 DEF Changed, Hands, SameObservation, Allows
<1> QED
  BY <1>1, <1>2, <1>3, UpdateSteps DEF r

\* allowObservation and denyObservation.
LEMMA ObservationSteps ==
    ASSUME AllSound, StepInv, NEW i \in RealmIDs, AllowObservation(i) \/ DenyObservation(i)
    PROVE  EveryStep
<1>1. PICK permission \in {"ALLOWED", "DENIED"} :
         /\ UpdateRealm(i, SetObservation(realm[i], permission))
         /\ permission = "ALLOWED" =>
               Allows(realm[i], "observe") /\ realm[i].state = "RUNNING"
  BY DEF AllowObservation, DenyObservation
<1> DEFINE r == SetObservation(realm[i], permission)
<1>2. /\ r.state = realm[i].state /\ r.inputOwner = realm[i].inputOwner
      /\ r.announced = realm[i].announced /\ r.observation = permission
      /\ r.capabilities = realm[i].capabilities /\ r.exitCode = realm[i].exitCode
  BY Known DEF SetObservation, RealmRecord
<1> HIDE DEF r
<1>3. Changed(realm[i], r)
  BY <1>1, <1>2 DEF Changed, Permits, Allows
<1> QED
  BY <1>1, <1>2, <1>3, UpdateSteps DEF r

\* grantCapability and revokeCapability.
LEMMA CapabilitySteps ==
    ASSUME AllSound, StepInv, NEW i \in RealmIDs, NEW c,
           GrantCapability(i, c) \/ RevokeCapability(i, c)
    PROVE  EveryStep
<1>1. realm[i] \in RealmRecord
  BY Known
<1>2. CASE GrantCapability(i, c)
  <2> DEFINE r == [realm[i] EXCEPT !.capabilities = @ \cup {c}]
  <2>1. UpdateRealm(i, r)
    BY <1>2 DEF GrantCapability
  <2>2. /\ r.state = realm[i].state /\ r.inputOwner = realm[i].inputOwner
        /\ r.announced = realm[i].announced /\ r.observation = realm[i].observation
        /\ r.capabilities = realm[i].capabilities \cup {c}
        /\ r.exitCode = realm[i].exitCode
    BY <1>1 DEF RealmRecord
  <2> HIDE DEF r
  <2>3. Changed(realm[i], r)
    BY <2>2 DEF Changed, Permits, Stays, SameObservation, Allows
  <2> QED
    BY <2>1, <2>2, <2>3, UpdateSteps
<1>3. CASE RevokeCapability(i, c)
  <2> DEFINE o == IF c = "observe" THEN SetObservation(realm[i], "DENIED") ELSE realm[i]
             r == [o EXCEPT !.capabilities = @ \ {c}]
  <2>1. UpdateRealm(i, r)
    BY <1>3 DEF RevokeCapability, Without
  <2>2. /\ o \in RealmRecord
        /\ o.state = realm[i].state /\ o.inputOwner = realm[i].inputOwner
        /\ o.announced = realm[i].announced
        /\ o.observation = (IF c = "observe" THEN "DENIED" ELSE realm[i].observation)
        /\ o.capabilities = realm[i].capabilities /\ o.exitCode = realm[i].exitCode
    BY <1>1 DEF SetObservation, RealmRecord
  <2> HIDE DEF o
  <2>3. /\ r.state = o.state /\ r.inputOwner = o.inputOwner /\ r.announced = o.announced
        /\ r.observation = o.observation /\ r.capabilities = o.capabilities \ {c}
        /\ r.exitCode = o.exitCode
    BY <2>2 DEF RealmRecord
  <2> HIDE DEF r
  <2>4. Changed(realm[i], r)
    BY <2>2, <2>3 DEF Changed, Permits, Stays, SameObservation, Allows
  <2> QED
    BY <2>1, <2>2, <2>3, <2>4, UpdateSteps
<1> QED
  BY <1>2, <1>3

\* Every request.
LEMMA RequestSteps ==
    ASSUME AllSound, StepInv, NEW i \in RealmIDs, Request(i)
    PROVE  EveryStep
<1>1. CASE PauseRealm(i)
  BY <1>1, PauseSteps DEF PauseRealm
<1> QED
  BY <1>1, RenewSteps, StartSteps, OpenSteps, ResumeSteps, StopSteps, KillSteps,
     LeaseSteps, ObservationSteps, CapabilitySteps
  DEF Request

-----------------------------------------------------------------------------
(* The poll. *)

\* handleProcessExit: the verdict, its event and the exit code.
LEMMA ExitJudges ==
    ASSUME NEW r \in RealmRecord, NEW p, NEW code \in ExitCodes,
           p.failOnExit => r.state = "FAILED"
    PROVE  LET x == ExitHandled(r, p, code)
           IN  /\ x.inputOwner = "NONE" /\ x.observation = "DENIED"
               /\ x.capabilities = r.capabilities
               /\ r.state = "STOPPING" => x.state = "STOPPED" /\ x.announced = "STOPPED"
               /\ r.state \in Live => x.state = "FAILED" /\ x.announced = "FAILED"
               /\ r.state \in Idle => x.state = r.state /\ x.announced = r.announced
               /\ r.state = "FAILED" => x.exitCode = r.exitCode
<1> DEFINE v == Revoked(ForgetPID(r))
           ended == [v EXCEPT !.exitCode = ExitCode(r, code)]
           x == ExitHandled(r, p, code)
<1>1. v \in RealmRecord /\ ForgetPID(r) \in RealmRecord
  BY RealmOperations DEF States, Events
<1>2. /\ v.state = r.state /\ v.inputOwner = "NONE" /\ v.observation = "DENIED"
      /\ v.capabilities = r.capabilities /\ v.announced = r.announced
  BY DEF Revoked, SetObservation, SetInputOwner, ForgetPID, RealmRecord
<1>3. ExitCode(r, code) \in ExitCodes /\ (r.state = "FAILED" => ExitCode(r, code) = r.exitCode)
  BY DEF ExitCode, RealmRecord
<1> HIDE DEF v
<1>4. /\ ended \in RealmRecord
      /\ ended.state = r.state /\ ended.inputOwner = "NONE" /\ ended.observation = "DENIED"
      /\ ended.capabilities = r.capabilities /\ ended.announced = r.announced
      /\ r.state = "FAILED" => ended.exitCode = r.exitCode
  BY <1>1, <1>2, <1>3 DEF RealmRecord
<1>5. x = IF r.state = "STOPPING" /\ ~p.failOnExit
          THEN MoveAndEmit(ended, "STOPPED", "STOPPED")
          ELSE MoveAndEmit(ended, "FAILED", "FAILED")
  BY DEF ExitHandled, v
<1> HIDE DEF ended, x
<1> SUFFICES /\ x.inputOwner = "NONE" /\ x.observation = "DENIED"
             /\ x.capabilities = r.capabilities
             /\ r.state = "STOPPING" => x.state = "STOPPED" /\ x.announced = "STOPPED"
             /\ r.state \in Live => x.state = "FAILED" /\ x.announced = "FAILED"
             /\ r.state \in Idle => x.state = r.state /\ x.announced = r.announced
             /\ r.state = "FAILED" => x.exitCode = r.exitCode
  BY DEF x
<1>6. CASE r.state = "STOPPING"
  <2>1. x = [ended EXCEPT !.state = "STOPPED", !.announced = "STOPPED"]
    <3>1. CanMove(ended, "STOPPED")
      BY <1>4, <1>6 DEF CanMove, Transitions
    <3> QED
      BY <1>4, <1>5, <1>6, <3>1, Moves DEF States, Events
  <2> QED
    BY <1>4, <1>6, <2>1 DEF RealmRecord, Live, Idle
<1>7. CASE r.state \in Live
  <2>1. x = [ended EXCEPT !.state = "FAILED", !.announced = "FAILED"]
    <3>1. CanMove(ended, "FAILED") /\ r.state # "STOPPING"
      BY <1>4, <1>7 DEF CanMove, Transitions, Live
    <3> QED
      BY <1>4, <1>5, <3>1, Moves DEF States, Events
  <2> QED
    BY <1>4, <1>7, <2>1 DEF RealmRecord, Live, Idle
<1>8. CASE r.state \in Idle
  <2>1. x = ended
    <3>1. ~CanMove(ended, "FAILED") /\ r.state # "STOPPING"
      BY <1>4, <1>8 DEF CanMove, Transitions, Idle
    <3> QED
      BY <1>5, <3>1 DEF MoveAndEmit
  <2> QED
    BY <1>4, <1>8, <2>1 DEF Live, Idle
<1> QED
  BY <1>6, <1>7, <1>8 DEF RealmRecord, States, Live, Idle

\* A startup deadline that has passed fails the realm, readiness starts it.
LEMMA StartupTells ==
    ASSUME NEW r \in RealmRecord, r.state = "CREATING"
    PROVE  /\ LET y == MoveAndEmit(SetInputOwner(r, "AGENT"), "RUNNING", "STARTED")
              IN  Readies(r, y)
           /\ LET z == [MoveAndEmit(SetInputOwner(r, "NONE"), "FAILED", "FAILED")
                          EXCEPT !.exitCode = -1]
              IN  /\ z.state = "FAILED" /\ z.announced = "FAILED" /\ z.inputOwner = "NONE"
                  /\ SameObservation(r, z)
<1> DEFINE a == SetInputOwner(r, "AGENT")
           n == SetInputOwner(r, "NONE")
<1>1. a \in RealmRecord /\ n \in RealmRecord
  BY RealmFields DEF Owners
<1>2. /\ a.state = "CREATING" /\ a.inputOwner = "AGENT"
      /\ a.observation = r.observation /\ a.capabilities = r.capabilities
  BY DEF SetInputOwner, RealmRecord
<1>3. /\ n.state = "CREATING" /\ n.inputOwner = "NONE"
      /\ n.observation = r.observation /\ n.capabilities = r.capabilities
  BY DEF SetInputOwner, RealmRecord
<1> HIDE DEF a, n
<1> DEFINE y == MoveAndEmit(a, "RUNNING", "STARTED")
           w == MoveAndEmit(n, "FAILED", "FAILED")
<1>4. CanMove(a, "RUNNING") /\ CanMove(n, "FAILED")
  BY <1>2, <1>3 DEF CanMove, Transitions
<1>5. /\ y = [a EXCEPT !.state = "RUNNING", !.announced = "STARTED"]
      /\ w = [n EXCEPT !.state = "FAILED", !.announced = "FAILED"]
      /\ w \in RealmRecord
  BY <1>1, <1>4, Moves, RealmOperations DEF States, Events
<1> HIDE DEF y, w
<1>6. /\ y.state = "RUNNING" /\ y.announced = "STARTED" /\ y.inputOwner = a.inputOwner
      /\ y.observation = a.observation /\ y.capabilities = a.capabilities
  BY <1>1, <1>5 DEF RealmRecord
<1>7. /\ w.state = "FAILED" /\ w.announced = "FAILED" /\ w.inputOwner = n.inputOwner
      /\ w.observation = n.observation /\ w.capabilities = n.capabilities
  BY <1>1, <1>5 DEF RealmRecord
<1> DEFINE z == [w EXCEPT !.exitCode = -1]
<1>8. /\ z.state = w.state /\ z.announced = w.announced /\ z.inputOwner = w.inputOwner
      /\ z.observation = w.observation /\ z.capabilities = w.capabilities
  BY <1>5 DEF RealmRecord
<1> HIDE DEF z
<1>9. Readies(r, y)
  BY <1>2, <1>6 DEF Readies, SameObservation, Allows
<1>10. z.state = "FAILED" /\ z.announced = "FAILED" /\ z.inputOwner = "NONE" /\ SameObservation(r, z)
  BY <1>3, <1>7, <1>8 DEF SameObservation, Allows
<1> QED
  BY <1>9, <1>10 DEF y, w, z, a, n

\* The poll warns a group when it sets its deadline, and kills it when the
\* deadline that was set before has passed.
LEMMA DispatchedSignals ==
    ASSUME NEW r, NEW p \in ProcessRecord, NEW g \in GroupRecord
    PROVE  LET q == Noticed(r, p, g)
               d == DispatchedProcess(r, p, g)
               h == DispatchedGroup(r, p, g)
           IN  /\ g.signals \subseteq h.signals
               /\ Finding(r, p, g) \in {"exit", "overdue"} => "TERM" \in h.signals
               /\ d.present => d.termination = q.termination \/ "KILL" \in h.signals
               /\ "KILL" \in h.signals \ g.signals => q.termination = "passed"
<1> DEFINE q == Noticed(r, p, g)
           warned == IF Finding(r, p, g) \in {"exit", "overdue"} THEN {"TERM"} ELSE {}
           forced == IF ForceKillDue(q, g) THEN {"KILL"} ELSE {}
           left == IF CleanedUp(q, g) THEN "none" ELSE g.supervisor
           sent == g.signals \cup warned \cup forced
           d == DispatchedProcess(r, p, g)
           h == DispatchedGroup(r, p, g)
<1>1. h = [g EXCEPT !.signals = sent, !.supervisor = left]
  BY DEF DispatchedGroup
<1>2. h.signals = sent
  <2> HIDE DEF sent, left
  <2> QED
    BY <1>1 DEF GroupRecord
<1>3. forced # {} => q.termination = "passed"
  BY DEF ForceKillDue
<1>4. d.present => d.termination = q.termination \/ ForceKillDue(q, g)
  BY DEF DispatchedProcess, NoProcess
<1> HIDE DEF q, d, h
<1>5. "KILL" \in sent \ g.signals => forced # {}
  OBVIOUS
<1>6. ForceKillDue(q, g) => "KILL" \in sent
  OBVIOUS
<1>7. Finding(r, p, g) \in {"exit", "overdue"} => "TERM" \in sent
  OBVIOUS
<1>8. g.signals \subseteq sent
  OBVIOUS
<1> HIDE DEF sent, forced
<1> QED
  BY <1>2, <1>3, <1>4, <1>5, <1>6, <1>7, <1>8 DEF q, d, h

\* One pass of the poll over one supervised realm.
LEMMA DispatchStep ==
    ASSUME NEW r \in RealmRecord, NEW p \in ProcessRecord, NEW g \in GroupRecord,
           NEW exists, NEW over, Sound(r, p, g, exists, over), p.present,
           Told(r), ExitIsOpen(r, p), Warned(p, g)
    PROVE  Step(r, p, g, DispatchedRealm(r, p, g), DispatchedProcess(r, p, g),
                DispatchedGroup(r, p, g))
<1> DEFINE f == Finding(r, p, g)
           n == Noticed(r, p, g)
           s == DispatchedRealm(r, p, g)
           q == DispatchedProcess(r, p, g)
           h == DispatchedGroup(r, p, g)
<1>1. /\ f \in {"exit", "ready", "overdue", "nothing"}
      /\ f = "exit" => ~p.exitReceived
      /\ f \in {"ready", "overdue"} => r.state = "CREATING"
  BY Findings
<1>2. /\ n.present /\ n.exitReceived = (p.exitReceived \/ f = "exit")
      /\ n.termination = (IF f \in {"exit", "overdue"} THEN "pending" ELSE p.termination)
  BY NoticedProcess
<1>3. /\ CleanedUp(n, g) => q = NoProcess
      /\ ~CleanedUp(n, g) => q.present = n.present /\ q.exitReceived = n.exitReceived
  BY DispatchedProcessIs
<1>4. /\ ~p.exitReceived /\ (q.exitReceived \/ ~q.present) => f = "exit"
      /\ q.present /\ ~q.exitReceived => ~p.exitReceived /\ f # "exit"
  <2>1. CASE CleanedUp(n, g)
    <3>1. ~q.present /\ ~q.exitReceived
      BY <1>3, <2>1 DEF NoProcess
    <3>2. n.exitReceived
      BY <2>1 DEF CleanedUp
    <3> QED
      BY <1>2, <3>1, <3>2
  <2>2. CASE ~CleanedUp(n, g)
    BY <1>2, <1>3, <2>2
  <2> QED
    BY <2>1, <2>2
<1>5. /\ g.signals \subseteq h.signals
      /\ f \in {"exit", "overdue"} => "TERM" \in h.signals
      /\ q.present => q.termination = n.termination \/ "KILL" \in h.signals
  BY DispatchedSignals
<1> HIDE DEF n, s, q, h
<1> SUFFICES Step(r, p, g, s, q, h)
  BY DEF s, q, h
<1>6. Warned(q, h)
  BY <1>1, <1>2, <1>5 DEF Warned
<1>7. p.failOnExit => r.state = "FAILED"
  BY DEF Sound
<1>8. r.state \in States
  BY DEF RealmRecord
<1>9. CASE f = "exit"
  <2>1. s = ExitHandled(r, p, ReportedCode(g)) /\ ReportedCode(g) \in ExitCodes
    BY <1>9 DEF s, DispatchedRealm, ReportedCode, ExitCodes
  <2>2. /\ s.inputOwner = "NONE" /\ s.observation = "DENIED"
        /\ s.capabilities = r.capabilities
        /\ r.state = "STOPPING" => s.state = "STOPPED" /\ s.announced = "STOPPED"
        /\ r.state \in Live => s.state = "FAILED" /\ s.announced = "FAILED"
        /\ r.state \in Idle => s.state = r.state /\ s.announced = r.announced
        /\ r.state = "FAILED" => s.exitCode = r.exitCode
    BY <1>7, <2>1, ExitJudges
  <2>3. r.state # "STOPPED"
    BY <1>1, <1>9 DEF ExitIsOpen
  <2>4. CASE r.state \in Active
    <3>1. Changed(r, s)
      BY <2>2, <2>4 DEF Changed, Ends, Active, Live, Idle, Allows
    <3> QED
      BY <1>4, <1>6, <1>9, <2>2, <2>4, <3>1 DEF Step, ExitIsOpen, Judged, Active, Live
  <2>5. CASE r.state = "FAILED"
    <3>1. r.inputOwner = "NONE" /\ r.observation = "DENIED"
      BY <2>5 DEF Sound, RealmRecord
    <3>2. Changed(r, s)
      BY <2>2, <2>5, <3>1 DEF Changed, Stays, SameObservation, Idle, Allows
    <3> QED
      BY <1>4, <1>6, <1>9, <2>2, <2>5, <3>2 DEF Step, ExitIsOpen, Judged, Idle
  <2> QED
    BY <1>8, <2>3, <2>4, <2>5 DEF States, Active
<1>10. CASE f = "ready"
  <2>1. s = MoveAndEmit(SetInputOwner(r, "AGENT"), "RUNNING", "STARTED")
    BY <1>10 DEF s, DispatchedRealm
  <2>2. Readies(r, s)
    BY <1>1, <1>10, <2>1, StartupTells
  <2> QED
    BY <1>1, <1>4, <1>6, <1>10, <2>2 DEF Step, Changed, Readies, ExitIsOpen, Judged
<1>11. CASE f = "overdue"
  <2>1. s = [MoveAndEmit(SetInputOwner(r, "NONE"), "FAILED", "FAILED") EXCEPT !.exitCode = -1]
    BY <1>11 DEF s, DispatchedRealm
  <2>2. /\ s.state = "FAILED" /\ s.announced = "FAILED" /\ s.inputOwner = "NONE"
        /\ SameObservation(r, s)
    BY <1>1, <1>11, <2>1, StartupTells
  <2>3. r.observation = "DENIED"
    BY <1>1, <1>11 DEF Sound, RealmRecord
  <2>4. Changed(r, s)
    BY <1>1, <1>11, <2>2, <2>3 DEF Changed, Ends, Active, Idle, SameObservation
  <2> QED
    BY <1>1, <1>4, <1>6, <1>11, <2>2, <2>4 DEF Step, ExitIsOpen, Judged
<1>12. CASE f = "nothing"
  <2>1. s = r
    BY <1>12 DEF s, DispatchedRealm
  <2> QED
    BY <1>4, <1>6, <1>12, <2>1
    DEF Step, Changed, Stays, SameObservation, ExitIsOpen, Judged
<1> QED
  BY <1>1, <1>9, <1>10, <1>11, <1>12

\* dispatchPendingEvents.
LEMMA DispatchSteps ==
    ASSUME AllSound, StepInv, DispatchPendingEvents
    PROVE  EveryStep
<1> SUFFICES ASSUME NEW i \in RealmIDs
             PROVE  Step(realm[i], process[i], group[i], realm'[i], process'[i], group'[i])
  BY DEF EveryStep
<1>1. CASE process[i].present
  <2>1. /\ realm'[i] = DispatchedRealm(realm[i], process[i], group[i])
        /\ process'[i] = DispatchedProcess(realm[i], process[i], group[i])
        /\ group'[i] = DispatchedGroup(realm[i], process[i], group[i])
    BY <1>1 DEF DispatchPendingEvents
  <2> QED
    BY <1>1, <2>1, Known, DispatchStep
<1>2. CASE ~process[i].present
  <2>1. realm'[i] = realm[i] /\ process'[i] = process[i] /\ group'[i] = group[i]
    BY <1>2 DEF DispatchPendingEvents
  <2> QED
    BY <2>1, Known, SelfStep
<1> QED
  BY <1>1, <1>2

-----------------------------------------------------------------------------
(* The shutdown. *)

\* shutdownAll tells every supervised group to end and revokes what is live.
LEMMA ShutdownBeginSteps ==
    ASSUME AllSound, StepInv, ShutdownBegin
    PROVE  EveryStep
<1> SUFFICES ASSUME NEW i \in RealmIDs
             PROVE  Step(realm[i], process[i], group[i], realm'[i], process'[i], group'[i])
  BY DEF EveryStep
<1>1. CASE ~process[i].present
  <2>1. realm'[i] = realm[i] /\ process'[i] = process[i] /\ group'[i] = group[i]
    BY <1>1 DEF ShutdownBegin
  <2> QED
    BY <2>1, Known, SelfStep
<1>2. CASE process[i].present
  <2> DEFINE p == Deadline(process[i])
             g == Terminate(realm[i], group[i])
  <2>1. process'[i] = p /\ group'[i] = g
    BY <1>2 DEF ShutdownBegin
  <2>2. p.present = process[i].present /\ p.exitReceived = process[i].exitReceived
    BY Known, DeadlineIs
  <2>3. "TERM" \in g.signals
    BY Known DEF Terminate, Signal, Continue, GroupRecord
  <2> HIDE DEF p, g
  <2>4. CASE realm[i].state \in Live
    <3> DEFINE r == Revoked(TransitionTo(realm[i], "STOPPING"))
    <3>1. realm'[i] = r
      BY <1>2, <2>4 DEF ShutdownBegin, Live
    <3>2. r.state = "STOPPING" /\ Changed(realm[i], r)
      BY <2>4, Known, StoppingRealm
    <3> HIDE DEF r
    <3>3. Step(realm[i], process[i], group[i], r, p, g)
      BY <2>2, <2>3, <2>4, <3>2 DEF Step, ExitIsOpen, Warned, Judged, Live
    <3> QED
      BY <2>1, <3>1, <3>3
  <2>5. CASE realm[i].state \notin Live
    <3>1. realm'[i] = realm[i]
      BY <2>5 DEF ShutdownBegin, Live
    <3>2. Step(realm[i], process[i], group[i], realm[i], p, g)
      BY <2>2, <2>3, Known
      DEF Step, Changed, Stays, SameObservation, ExitIsOpen, Warned, Judged
    <3> QED
      BY <2>1, <3>1, <3>2
  <2> QED
    BY <2>4, <2>5
<1> QED
  BY <1>1, <1>2

\* The round that kills what is left.
LEMMA ShutdownKillSteps ==
    ASSUME AllSound, StepInv, ShutdownKill
    PROVE  EveryStep
<1> SUFFICES ASSUME NEW i \in RealmIDs
             PROVE  Step(realm[i], process[i], group[i], realm'[i], process'[i], group'[i])
  BY DEF EveryStep
<1>1. /\ realm'[i] = realm[i] /\ process'[i] = process[i]
      /\ group'[i] \in {group[i], Signal(group[i], "KILL")}
  BY DEF ShutdownKill
<1>2. group[i].signals \subseteq group'[i].signals
  <2>1. group[i].signals \subseteq Signal(group[i], "KILL").signals
    BY Known DEF Signal, GroupRecord
  <2> QED
    BY <1>1, <2>1
<1>3. Step(realm[i], process[i], group[i], realm[i], process[i], group'[i])
  BY <1>2, Known DEF Step, Changed, Stays, SameObservation, ExitIsOpen, Warned, Judged
<1> QED
  BY <1>1, <1>3

\* What the last round makes of a realm.
LEMMA FinishTells ==
    ASSUME NEW r \in RealmRecord, NEW kept \in BOOLEAN
    PROVE  LET m == MoveAndEmit(ForgetPID(r), "STOPPED", "STOPPED")
               f == IF r.state = "STOPPING" THEN m ELSE ForgetPID(r)
               x == [f EXCEPT !.runtime = @ /\ kept]
               y == [r EXCEPT !.runtime = @ /\ kept]
           IN  /\ x.announced = (IF r.state = "STOPPING" THEN "STOPPED" ELSE r.announced)
               /\ x.exitCode = r.exitCode
               /\ Stays(r, y)
<1> DEFINE v == ForgetPID(r)
           f == IF r.state = "STOPPING" THEN MoveAndEmit(v, "STOPPED", "STOPPED") ELSE v
           y == [r EXCEPT !.runtime = @ /\ kept]
<1>1. v \in RealmRecord
  BY RealmOperations DEF States, Events
<1>2. v.state = r.state /\ v.announced = r.announced /\ v.exitCode = r.exitCode
  BY DEF ForgetPID, RealmRecord
<1> HIDE DEF v
<1>3. /\ f \in RealmRecord /\ f.exitCode = r.exitCode
      /\ f.announced = (IF r.state = "STOPPING" THEN "STOPPED" ELSE r.announced)
  <2>1. CASE r.state = "STOPPING"
    <3>1. CanMove(v, "STOPPED")
      BY <1>2, <2>1 DEF CanMove, Transitions
    <3>2. /\ MoveAndEmit(v, "STOPPED", "STOPPED") \in RealmRecord
          /\ MoveAndEmit(v, "STOPPED", "STOPPED")
                = [v EXCEPT !.state = "STOPPED", !.announced = "STOPPED"]
      BY <1>1, <3>1, Moves, RealmOperations DEF States, Events
    <3> QED
      BY <1>1, <1>2, <2>1, <3>2 DEF RealmRecord
  <2>2. CASE r.state # "STOPPING"
    BY <1>1, <1>2, <2>2
  <2> QED
    BY <2>1, <2>2
<1> HIDE DEF f
<1>4. LET x == [f EXCEPT !.runtime = @ /\ kept]
      IN  x.announced = f.announced /\ x.exitCode = f.exitCode
  BY <1>3 DEF RealmRecord
<1>5. Stays(r, y)
  <2>1. /\ y.state = r.state /\ y.inputOwner = r.inputOwner /\ y.announced = r.announced
        /\ y.observation = r.observation /\ y.capabilities = r.capabilities
    BY DEF RealmRecord
  <2> HIDE DEF y
  <2> QED
    BY <2>1 DEF Stays, SameObservation, Allows
<1> QED
  BY <1>3, <1>4, <1>5 DEF f, v

\* The last round of shutdownAll.
LEMMA ShutdownFinishSteps ==
    ASSUME IInv, StepInv, ShutdownFinish
    PROVE  EveryStep
<1> SUFFICES ASSUME NEW i \in RealmIDs
             PROVE  Step(realm[i], process[i], group[i], realm'[i], process'[i], group'[i])
  BY DEF EveryStep
<1>1. ~process'[i].present
  BY DEF ShutdownFinish, NoProcess
<1> SUFFICES Changed(realm[i], realm'[i]) /\ Judged(realm[i], process[i], realm'[i], process'[i])
  BY <1>1 DEF Step, ExitIsOpen, Warned
<1>2. PICK keeping \in SUBSET realms :
         realm' = [j \in RealmIDs |->
            LET r == IF ~process[j].present THEN realm[j]
                     ELSE IF realm[j].state = "STOPPING"
                     THEN MoveAndEmit(ForgetPID(realm[j]), "STOPPED", "STOPPED")
                     ELSE ForgetPID(realm[j])
            IN  [r EXCEPT !.runtime = @ /\ j \in keeping]]
  BY DEF ShutdownFinish
<1> DEFINE r == realm[i]
           kept == i \in keeping
           m == MoveAndEmit(ForgetPID(r), "STOPPED", "STOPPED")
           f == IF r.state = "STOPPING" THEN m ELSE ForgetPID(r)
           x == [f EXCEPT !.runtime = @ /\ kept]
           y == [r EXCEPT !.runtime = @ /\ kept]
<1>0. r \in RealmRecord /\ kept \in BOOLEAN
  BY Known DEF IInv
<1> HIDE DEF r, kept
<1>3. /\ x.state = (IF r.state = "STOPPING" THEN "STOPPED" ELSE r.state)
      /\ x.inputOwner = r.inputOwner /\ x.observation = r.observation
      /\ x.capabilities = r.capabilities
  BY <1>0, FinishedRealm, Zenon
<1>4. /\ x.announced = (IF r.state = "STOPPING" THEN "STOPPED" ELSE r.announced)
      /\ x.exitCode = r.exitCode
      /\ Stays(r, y)
  BY <1>0, FinishTells, Zenon
<1>5. CASE ~process[i].present
  <2>1. realm'[i] = y
    BY <1>2, <1>5 DEF r, kept
  <2> QED
    BY <1>4, <1>5, <2>1 DEF Changed, Judged, r
<1>6. CASE process[i].present
  <2>1. realm'[i] = x
    BY <1>2, <1>6 DEF r, kept
  <2>2. r.state = "STOPPING" => r.inputOwner = "NONE" /\ r.observation = "DENIED"
    BY Known DEF IInv, Sound, RealmRecord, r
  <2>3. ~process[i].exitReceived => r.state \in {"STOPPING", "FAILED"}
    <3>1. r.state \notin Live
      BY DEF IInv, Quiet, ShutdownFinish, r
    <3>2. ~process[i].exitReceived => r.state # "STOPPED"
      BY <1>6, Known DEF IInv, ExitIsOpen, r
    <3> QED
      BY <1>0, <3>1, <3>2 DEF RealmRecord, States, Live
  <2> HIDE DEF x
  <2>4. Judged(r, process[i], x, process'[i])
    BY <1>3, <1>4, <2>3 DEF Judged
  <2>5. CASE r.state = "STOPPING"
    BY <1>3, <1>4, <2>1, <2>2, <2>4, <2>5 DEF Changed, Ends, Active, Idle, Allows, r
  <2>6. CASE r.state # "STOPPING"
    BY <1>3, <1>4, <2>1, <2>4, <2>6 DEF Changed, Stays, SameObservation, Allows, r
  <2> QED
    BY <2>5, <2>6
<1> QED
  BY <1>5, <1>6

-----------------------------------------------------------------------------
(* The operating system, and the next-state relation. *)

\* Processes and clocks change no realm's record.
LEMMA SystemSteps ==
    ASSUME AllSound, StepInv, NEW i \in RealmIDs, OperatingSystem(i)
    PROVE  EveryStep
<1>1. /\ realm[i] \in RealmRecord /\ process[i] \in ProcessRecord /\ group[i] \in GroupRecord
  BY Known
<1>2. ASSUME NEW g, UpdateGroup(i, g), g.signals = group[i].signals
      PROVE  EveryStep
  <2>1. /\ realm' = [realm EXCEPT ![i] = realm[i]]
        /\ process' = [process EXCEPT ![i] = process[i]]
        /\ group' = [group EXCEPT ![i] = g]
    BY <1>2, Untouched DEF UpdateGroup
  <2>2. Step(realm[i], process[i], group[i], realm[i], process[i], g)
    BY <1>2, Known DEF Step, Changed, Stays, SameObservation, ExitIsOpen, Warned, Judged
  <2> QED
    BY <2>1, <2>2, OneStep
<1>3. ASSUME NEW p, UpdateProcess(i, p),
             p.present = process[i].present, p.exitReceived = process[i].exitReceived,
             p.termination # "none" => process[i].termination # "none"
      PROVE  EveryStep
  <2>1. /\ realm' = [realm EXCEPT ![i] = realm[i]]
        /\ process' = [process EXCEPT ![i] = p]
        /\ group' = [group EXCEPT ![i] = group[i]]
    BY <1>3, Untouched DEF UpdateProcess
  <2>2. Step(realm[i], process[i], group[i], realm[i], p, group[i])
    BY <1>3, Known DEF Step, Changed, Stays, SameObservation, ExitIsOpen, Warned, Judged
  <2> QED
    BY <2>1, <2>2, OneStep
<1>4. CASE PublishDisplay(i)
  BY <1>1, <1>2, <1>4 DEF PublishDisplay, GroupRecord
<1>5. CASE CompositorExits(i)
  BY <1>1, <1>2, <1>5 DEF CompositorExits, GroupRecord
<1>6. CASE \E a \in Applications : ApplicationExits(i, a)
  BY <1>1, <1>2, <1>6 DEF ApplicationExits, GroupRecord
<1>7. CASE SupervisorReports(i)
  BY <1>1, <1>2, <1>7 DEF SupervisorReports, GroupRecord
<1>8. CASE SupervisorExits(i)
  BY <1>1, <1>2, <1>8 DEF SupervisorExits, GroupRecord
<1>9. CASE SupervisorCrashes(i)
  BY <1>1, <1>2, <1>9 DEF SupervisorCrashes, GroupRecord
<1>10. CASE StartupDeadlinePasses(i)
  BY <1>1, <1>3, <1>10 DEF StartupDeadlinePasses, ProcessRecord
<1>11. CASE TerminationDeadlinePasses(i)
  BY <1>1, <1>3, <1>11 DEF TerminationDeadlinePasses, ProcessRecord
<1>12. CASE StrayExits(i)
  BY <1>1, <1>2, <1>12 DEF StrayExits, GroupRecord
<1> QED
  BY <1>4, <1>5, <1>6, <1>7, <1>8, <1>9, <1>10, <1>11, <1>12 DEF OperatingSystem

\* Such steps keep StepInv.
LEMMA EveryStepKeeps ==
    ASSUME StepInv, EveryStep
    PROVE  StepInv'
BY ChangedTells DEF StepInv, EveryStep, Step

\* Every step of the manager is a listed one for every realm.
LEMMA NextSteps ==
    ASSUME IInv, StepInv, [Next]_vars
    PROVE  EveryStep
<1>1. AllSound
  BY DEF IInv
<1>2. CASE UNCHANGED vars
  BY <1>1, <1>2, Known, SelfStep DEF vars, EveryStep
<1>3. CASE PauseAllRealms
  BY <1>1, <1>3, PauseSteps DEF PauseAllRealms
<1> QED
  BY <1>1, <1>2, <1>3, RequestSteps, DispatchSteps, ShutdownBeginSteps, ShutdownKillSteps,
     ShutdownFinishSteps, SystemSteps
  DEF Next, HostLoop

-----------------------------------------------------------------------------
(* The theorems. *)

\* StepInv holds beside the inductive invariant of RealmManagerProofs.
THEOREM StepInvariance == Spec => [](IInv /\ StepInv)
<1>1. Init => StepInv
  BY DEF Init, StepInv, FreshRealm, NoProcess, NoGroup, Told, ExitIsOpen, Warned
<1>2. IInv /\ StepInv /\ [Next]_vars => (IInv /\ StepInv)'
  BY Inductive, NextSteps, EveryStepKeeps
<1> QED
  BY <1>1, <1>2, Initially, PTL DEF Spec

(* The last lifecycle event agrees with the state: no path through the
   manager changes a settled state without telling the listeners. *)
THEOREM EventsTell == Spec => []EventsTellTheState
<1>1. StepInv => EventsTellTheState
  BY DEF StepInv, Told, EventsTellTheState
<1> QED
  BY <1>1, StepInvariance, PTL

(* The manager implements one contract per realm, which is what the other
   components are composed with: every handler is a step of it, or none. *)
THEOREM Refinement == Spec => ImplementsContract
<1>1. Init => \A i \in RealmIDs : Contract(i)!Init
  <2> SUFFICES ASSUME Init, NEW i \in RealmIDs
               PROVE  Contract(i)!Init
    OBVIOUS
  <2>1. realm[i] = FreshRealm
    BY DEF Init
  <2>2. /\ Phase(realm[i]) = "idle" /\ realm[i].inputOwner = "NONE"
        /\ (realm[i].observation = "ALLOWED") = FALSE
        /\ Allows(realm[i], "observe") = FALSE
    BY <2>1 DEF FreshRealm, Phase, Allows
  <2> QED
    BY <2>2, Zenon DEF Contract!Init
<1>2. IInv /\ StepInv /\ [Next]_vars => [\A i \in RealmIDs : StepsByContract(i)]_vars
  <2> SUFFICES ASSUME IInv, StepInv, [Next]_vars, NEW i \in RealmIDs
               PROVE  StepsByContract(i)
    OBVIOUS
  <2>1. Changed(realm[i], realm'[i])
    BY NextSteps DEF EveryStep, Step
  <2> QED
    BY <2>1, ChangedByContract DEF IInv
<1> QED
  BY <1>1, <1>2, StepInvariance, PTL DEF Spec, ImplementsContract

(* A run is judged by what was requested, also in the pass that takes the
   exit and erases the entry and at the end of the shutdown; and a failed
   realm keeps its verdict and its exit code until it is started again. *)
THEOREM Verdicts == Spec => VerdictFollowsRequest
<1> DEFINE Verdict ==
      \A i \in RealmIDs :
          process[i].present =>
             /\ ~process[i].exitReceived /\ (process'[i].exitReceived \/ ~process'[i].present) =>
                   realm'[i].state = (IF realm[i].state = "STOPPING" THEN "STOPPED" ELSE "FAILED")
             /\ realm[i].state = "FAILED" =>
                   realm'[i].state = "FAILED" /\ realm'[i].exitCode = realm[i].exitCode
<1>1. IInv /\ StepInv /\ [Next]_vars => [Verdict]_vars
  <2> SUFFICES ASSUME IInv, StepInv, [Next]_vars
               PROVE  Verdict
    OBVIOUS
  <2> QED
    BY NextSteps DEF EveryStep, Step, Judged
<1> QED
  BY <1>1, StepInvariance, PTL DEF Spec, VerdictFollowsRequest

(* The poll kills only what it, stopRealm or shutdownAll asked to end before,
   and only after the time that was granted. *)
THEOREM WarnedBeforeKilled == Spec => TermBeforeKill
<1> DEFINE Fair ==
      DispatchPendingEvents =>
          \A i \in RealmIDs :
             "KILL" \in group'[i].signals \ group[i].signals =>
                "TERM" \in group[i].signals /\ process[i].termination = "passed"
<1>1. IInv /\ StepInv /\ [Next]_vars => [Fair]_vars
  <2> SUFFICES ASSUME IInv, StepInv, DispatchPendingEvents, NEW i \in RealmIDs,
                      "KILL" \in group'[i].signals \ group[i].signals
               PROVE  "TERM" \in group[i].signals /\ process[i].termination = "passed"
    OBVIOUS
  <2>1. /\ process[i] \in ProcessRecord /\ group[i] \in GroupRecord
        /\ Warned(process[i], group[i])
    BY Known DEF IInv
  <2>2. process[i].present /\ group'[i] = DispatchedGroup(realm[i], process[i], group[i])
    BY DEF DispatchPendingEvents
  <2>3. Noticed(realm[i], process[i], group[i]).termination = "passed"
    BY <2>1, <2>2, DispatchedSignals
  <2>4. process[i].termination = "passed"
    BY <2>1, <2>3, NoticedProcess
  <2> QED
    BY <2>1, <2>2, <2>4 DEF Warned
<1> QED
  BY <1>1, StepInvariance, PTL DEF Spec, TermBeforeKill

-----------------------------------------------------------------------------
(***************************************************************************)
(* Liveness.  A run that is supervised only goes on: its compositor does   *)
(* not come back, its supervisor does not watch again, a SIGKILL is not    *)
(* taken back, and of the deadlines that have passed only shutdownAll and  *)
(* killRealm set the one of a stopping realm again.  A supervisor reports  *)
(* an exit that has happened, and an exit that was taken has its deadline. *)
(***************************************************************************)
Lasting(p, g) ==
    p.present =>
       /\ g.supervisor # "none" /\ g.compositor # "none"
       /\ p.forceKillSent => "KILL" \in g.signals
       /\ g.supervisor \in {"reported", "gone"} => g.compositor = "exited"
       /\ p.exitReceived =>
             p.termination # "none" /\ g.supervisor \in {"reported", "gone", "crashed"}

AwaitedByPID(r) == r.state = "CREATING" => r.compositorPID

LivenessInv ==
    /\ \A i \in RealmIDs : Lasting(process[i], group[i]) /\ AwaitedByPID(realm[i])
    /\ shutdown = "done" => \A i \in RealmIDs : ~process[i].present

\* The step from r, p, g to q, h; `again' says that shutdownAll begins.
GoesOn(r, p, g, q, h, again) ==
    p.present /\ q.present =>
       /\ h.compositor = "alive" => g.compositor = "alive"
       /\ h.supervisor = "watching" => g.supervisor = "watching"
       /\ "KILL" \in g.signals => "KILL" \in h.signals
       /\ p.startup = "passed" => q.startup = "passed"
       /\ r.state = "STOPPING" /\ p.termination = "passed" =>
             q.termination = "passed" \/ q.exitReceived \/ "KILL" \in h.signals \/ again

Onward(r, p, g, s, q, h, again) ==
    Lasting(q, h) /\ AwaitedByPID(s) /\ GoesOn(r, p, g, q, h, again)

EveryRunGoesOn ==
    \A i \in RealmIDs :
        Onward(realm[i], process[i], group[i], realm'[i], process'[i], group'[i],
               shutdown = "no" /\ shutdown' # "no")

\* A realm that the action does not touch goes on.
LEMMA SelfOnward ==
    ASSUME NEW r, NEW p, NEW g, NEW again, Lasting(p, g), AwaitedByPID(r)
    PROVE  Onward(r, p, g, r, p, g, again)
BY DEF Onward, GoesOn

LEMMA OneOnward ==
    ASSUME AllSound, LivenessInv, NEW i \in RealmIDs, NEW r, NEW p, NEW g,
           realm' = [realm EXCEPT ![i] = r],
           process' = [process EXCEPT ![i] = p],
           group' = [group EXCEPT ![i] = g],
           \A again \in BOOLEAN : Onward(realm[i], process[i], group[i], r, p, g, again)
    PROVE  EveryRunGoesOn
<1> DEFINE b == shutdown = "no" /\ shutdown' # "no"
<1> SUFFICES ASSUME NEW j \in RealmIDs
             PROVE  Onward(realm[j], process[j], group[j], realm'[j], process'[j], group'[j], b)
  BY DEF EveryRunGoesOn
<1>0. b \in BOOLEAN
  OBVIOUS
<1> HIDE DEF b
<1>1. CASE j = i
  <2>1. realm'[j] = r /\ process'[j] = p /\ group'[j] = g
    BY <1>1 DEF AllSound, TypeOK
  <2> QED
    BY <1>0, <1>1, <2>1
<1>2. CASE j # i
  <2>1. realm'[j] = realm[j] /\ process'[j] = process[j] /\ group'[j] = group[j]
    BY <1>2 DEF AllSound, TypeOK
  <2> QED
    BY <2>1, SelfOnward DEF LivenessInv
<1> QED
  BY <1>1, <1>2

LEMMA KnownToLast ==
    ASSUME AllSound, LivenessInv, NEW i \in RealmIDs
    PROVE  /\ realm[i] \in RealmRecord /\ process[i] \in ProcessRecord
           /\ group[i] \in GroupRecord
           /\ Sound(realm[i], process[i], group[i], i \in realms, shutdown = "done")
           /\ Lasting(process[i], group[i]) /\ AwaitedByPID(realm[i])
BY DEF AllSound, LivenessInv, TypeOK

\* A request that changes a realm's record alone, and not from or to CREATING
\* or its process ID.
LEMMA RecordOnward ==
    ASSUME AllSound, LivenessInv, NEW i \in RealmIDs, NEW r,
           realm' = [realm EXCEPT ![i] = r], UNCHANGED <<process, group>>,
           AwaitedByPID(r)
    PROVE  EveryRunGoesOn
<1>1. /\ process' = [process EXCEPT ![i] = process[i]]
      /\ group' = [group EXCEPT ![i] = group[i]]
  BY Untouched
<1>2. ASSUME NEW again \in BOOLEAN
      PROVE  Onward(realm[i], process[i], group[i], r, process[i], group[i], again)
  BY KnownToLast DEF Onward, GoesOn
<1> QED
  BY <1>1, <1>2, OneOnward

\* Permissions, leases, a new or a destroyed realm.
LEMMA RecordsOnward ==
    ASSUME AllSound, LivenessInv, NEW i \in RealmIDs,
           \/ CreateRealm(i) \/ DestroyRealm(i) \/ TakeoverRealm(i) \/ ReleaseRealm(i)
           \/ AllowObservation(i) \/ DenyObservation(i)
           \/ \E c \in Capabilities : GrantCapability(i, c) \/ RevokeCapability(i, c)
    PROVE  EveryRunGoesOn
<1>1. realm[i] \in RealmRecord /\ AwaitedByPID(realm[i])
  BY KnownToLast
<1>2. ASSUME NEW r, UpdateRealm(i, r), AwaitedByPID(r) PROVE EveryRunGoesOn
  BY <1>2, RecordOnward DEF UpdateRealm
<1>3. CASE CreateRealm(i) \/ DestroyRealm(i)
  <2>1. realm' = [realm EXCEPT ![i] = FreshRealm] /\ UNCHANGED <<process, group>>
    BY <1>3 DEF CreateRealm, DestroyRealm
  <2>2. AwaitedByPID(FreshRealm)
    BY DEF AwaitedByPID, FreshRealm
  <2> QED
    BY <2>1, <2>2, RecordOnward
<1>4. CASE TakeoverRealm(i) \/ ReleaseRealm(i)
  <2>1. \A owner \in Owners, event \in Events :
           AwaitedByPID(Emit(SetInputOwner(realm[i], owner), event))
    BY <1>1 DEF AwaitedByPID, Emit, SetInputOwner, RealmRecord
  <2> QED
    BY <1>2, <1>4, <2>1 DEF TakeoverRealm, ReleaseRealm, Owners, Events
<1>5. CASE AllowObservation(i) \/ DenyObservation(i)
  <2>1. \A permission \in {"ALLOWED", "DENIED"} : AwaitedByPID(SetObservation(realm[i], permission))
    BY <1>1 DEF AwaitedByPID, SetObservation, RealmRecord
  <2> QED
    BY <1>2, <1>5, <2>1 DEF AllowObservation, DenyObservation
<1>6. ASSUME NEW c \in Capabilities, GrantCapability(i, c) PROVE EveryRunGoesOn
  <2>1. AwaitedByPID([realm[i] EXCEPT !.capabilities = @ \cup {c}])
    BY <1>1 DEF AwaitedByPID, RealmRecord
  <2> QED
    BY <1>2, <1>6, <2>1 DEF GrantCapability
<1>7. ASSUME NEW c \in Capabilities, RevokeCapability(i, c) PROVE EveryRunGoesOn
  <2>1. AwaitedByPID(Without(realm[i], c))
    BY <1>1 DEF AwaitedByPID, Without, SetObservation, RealmRecord
  <2> QED
    BY <1>2, <1>7, <2>1 DEF RevokeCapability
<1> QED
  BY <1>3, <1>4, <1>5, <1>6, <1>7

\* startRealm: the run begins here.
LEMMA StartOnward ==
    ASSUME AllSound, LivenessInv, NEW i \in RealmIDs, StartRealm(i)
    PROVE  EveryRunGoesOn
<1>1. ~process[i].present /\ CanMove(realm[i], "CREATING") /\ realm[i] \in RealmRecord
  BY KnownToLast DEF StartRealm, StartUnprepared, StartUnlaunched, StartUnexecuted, StartLaunched,
                     MayStart
<1>2. CASE StartUnprepared(i) \/ StartUnlaunched(i)
  <2>1. PICK left \in BOOLEAN :
           realm' = [realm EXCEPT ![i] =
                       [MoveAndEmit(Starting(realm[i]), "FAILED", "FAILED") EXCEPT !.runtime = left]]
    BY <1>2, FailedStarts
  <2>2. PICK stray \in BOOLEAN :
           group' = [group EXCEPT ![i] = [group[i] EXCEPT !.stray = stray]]
    BY <1>2, FailedStarts
  <2> DEFINE f == [MoveAndEmit(Starting(realm[i]), "FAILED", "FAILED") EXCEPT !.runtime = left]
             g == [group[i] EXCEPT !.stray = stray]
  <2>3. f.state = "FAILED"
    BY <1>1, FailedStart
  <2>4. /\ realm' = [realm EXCEPT ![i] = f]
        /\ process' = [process EXCEPT ![i] = process[i]]
        /\ group' = [group EXCEPT ![i] = g]
    BY <1>2, <2>1, <2>2, FailedStarts
  <2> HIDE DEF f, g
  <2>5. ASSUME NEW again \in BOOLEAN
        PROVE  Onward(realm[i], process[i], group[i], f, process[i], g, again)
    BY <1>1, <2>3 DEF Onward, GoesOn, Lasting, AwaitedByPID
  <2> QED
    BY <2>4, <2>5, OneOnward
<1>3. CASE StartUnexecuted(i)
  <2> DEFINE m == [MoveAndEmit(Starting(realm[i]), "FAILED", "FAILED") EXCEPT !.runtime = TRUE]
             e == MoveAndEmit(Starting(realm[i]), "FAILED", "FAILED")
             f == [e EXCEPT !.runtime = TRUE, !.exitCode = 127, !.compositorPID = FALSE]
             p == [NoProcess EXCEPT !.present = TRUE, !.failOnExit = TRUE]
             g == NewGroup(group[i], "exited")
  <2>1. /\ realm' = [realm EXCEPT ![i] = f]
        /\ process' = [process EXCEPT ![i] = p]
        /\ group' = [group EXCEPT ![i] = g]
    BY <1>3 DEF StartUnexecuted
  <2>2. m.state = "FAILED"
    BY <1>1, FailedStart
  <2>3. e \in RealmRecord
    <3>1. Starting(realm[i]) \in RealmRecord
      BY <1>1, StartingRealm
    <3> QED
      BY <3>1, RealmOperations DEF States, Events
  <2> HIDE DEF e
  <2>4. f.state = "FAILED"
    BY <2>2, <2>3 DEF RealmRecord, e
  <2>5. Lasting(p, g)
    BY KnownToLast, NewGroups DEF Lasting, NoProcess
  <2> HIDE DEF f, p, g, m
  <2>6. ASSUME NEW again \in BOOLEAN
        PROVE  Onward(realm[i], process[i], group[i], f, p, g, again)
    BY <1>1, <2>4, <2>5 DEF Onward, GoesOn, AwaitedByPID
  <2> QED
    BY <2>1, <2>6, OneOnward
<1>4. CASE StartLaunched(i)
  <2> DEFINE e == Starting(realm[i])
             f == [e EXCEPT !.runtime = TRUE, !.compositorPID = TRUE]
             p == [NoProcess EXCEPT !.present = TRUE]
             g == NewGroup(group[i], "alive")
  <2>1. /\ realm' = [realm EXCEPT ![i] = f]
        /\ process' = [process EXCEPT ![i] = p]
        /\ group' = [group EXCEPT ![i] = g]
    BY <1>4 DEF StartLaunched
  <2>2. e \in RealmRecord
    BY <1>1, StartingRealm
  <2> HIDE DEF e
  <2>3. f.compositorPID
    BY <2>2 DEF RealmRecord
  <2>4. Lasting(p, g)
    BY KnownToLast, NewGroups DEF Lasting, NoProcess
  <2> HIDE DEF f, p, g
  <2>5. ASSUME NEW again \in BOOLEAN
        PROVE  Onward(realm[i], process[i], group[i], f, p, g, again)
    BY <1>1, <2>3, <2>4 DEF Onward, GoesOn, AwaitedByPID
  <2> QED
    BY <2>1, <2>5, OneOnward
<1> QED
  BY <1>2, <1>3, <1>4 DEF StartRealm

\* openApplication, pauseRealm and pauseAllRealms, resumeRealm.
LEMMA OpenOnward ==
    ASSUME AllSound, LivenessInv, NEW i \in RealmIDs, NEW a, OpenApplication(i, a)
    PROVE  EveryRunGoesOn
<1> DEFINE p == [process[i] EXCEPT !.applications = @ \cup {a}]
           g == [group[i] EXCEPT !.applications = @ \cup {a}]
<1>1. /\ realm' = [realm EXCEPT ![i] = realm[i]]
      /\ process' = [process EXCEPT ![i] = p]
      /\ group' = [group EXCEPT ![i] = g]
  BY Untouched DEF OpenApplication
<1>2. /\ p.present = process[i].present /\ p.startup = process[i].startup
      /\ p.termination = process[i].termination /\ p.forceKillSent = process[i].forceKillSent
      /\ p.exitReceived = process[i].exitReceived
      /\ g.signals = group[i].signals /\ g.compositor = group[i].compositor
      /\ g.supervisor = group[i].supervisor
  BY KnownToLast DEF ProcessRecord, GroupRecord
<1> HIDE DEF p, g
<1>3. ASSUME NEW again \in BOOLEAN
      PROVE  Onward(realm[i], process[i], group[i], realm[i], p, g, again)
  BY <1>2, KnownToLast DEF Onward, GoesOn, Lasting
<1> QED
  BY <1>1, <1>3, OneOnward

LEMMA SignalIs ==
    ASSUME NEW g \in GroupRecord, NEW signal
    PROVE  LET h == Signal(g, signal)  c == Continue(g)
           IN  /\ h.compositor = g.compositor /\ h.supervisor = g.supervisor
               /\ h.signals = g.signals \cup {signal}
               /\ c.compositor = g.compositor /\ c.supervisor = g.supervisor
               /\ c.signals = g.signals \ {"STOP"}
BY DEF Signal, Continue, GroupRecord

LEMMA PauseOnward ==
    ASSUME AllSound, LivenessInv, NEW requested, PauseRealms(requested)
    PROVE  EveryRunGoesOn
<1> DEFINE paused == {i \in requested \cap realms : CanPause(i)}
<1>1. /\ realm' = [i \in RealmIDs |->
                     IF i \in paused THEN Paused(realm[i]) ELSE realm[i]]
      /\ group' = [i \in RealmIDs |->
                     IF i \in paused THEN Signal(group[i], "STOP") ELSE group[i]]
      /\ process' = process
  BY DEF PauseRealms
<1>2. \A i \in paused : realm[i].state = "RUNNING"
  BY DEF CanPause
<1> HIDE DEF paused
<1> SUFFICES ASSUME NEW i \in RealmIDs
             PROVE  Onward(realm[i], process[i], group[i], realm'[i], process'[i], group'[i],
                           shutdown = "no" /\ shutdown' # "no")
  BY DEF EveryRunGoesOn
<1>3. CASE i \in paused
  <2>1. /\ realm'[i] = Paused(realm[i]) /\ process'[i] = process[i]
        /\ group'[i] = Signal(group[i], "STOP")
    BY <1>1, <1>3
  <2>2. TransitionTo(realm[i], "PAUSED") = [realm[i] EXCEPT !.state = "PAUSED"]
    BY <1>2, <1>3, KnownToLast, Moves DEF CanMove, Transitions, States, Events
  <2>3. Paused(realm[i]).state = "PAUSED"
    BY <2>2, KnownToLast DEF Paused, Emit, SetInputOwner, RealmRecord
  <2> QED
    BY <2>1, <2>3, KnownToLast, SignalIs DEF Onward, GoesOn, Lasting, AwaitedByPID
<1>4. CASE i \notin paused
  <2>1. realm'[i] = realm[i] /\ process'[i] = process[i] /\ group'[i] = group[i]
    BY <1>1, <1>4
  <2> QED
    BY <2>1, KnownToLast, SelfOnward
<1> QED
  BY <1>3, <1>4

LEMMA ResumeOnward ==
    ASSUME AllSound, LivenessInv, NEW i \in RealmIDs, ResumeRealm(i)
    PROVE  EveryRunGoesOn
<1> DEFINE r == Emit(SetInputOwner(TransitionTo(realm[i], "RUNNING"), "AGENT"), "RESUMED")
           g == Continue(group[i])
<1>1. /\ realm' = [realm EXCEPT ![i] = r]
      /\ process' = [process EXCEPT ![i] = process[i]]
      /\ group' = [group EXCEPT ![i] = g]
      /\ realm[i].state = "PAUSED"
  BY Untouched DEF ResumeRealm
<1>2. TransitionTo(realm[i], "RUNNING") = [realm[i] EXCEPT !.state = "RUNNING"]
  BY <1>1, KnownToLast, Moves DEF CanMove, Transitions, States, Events
<1>3. r.state = "RUNNING"
  BY <1>2, KnownToLast DEF Emit, SetInputOwner, RealmRecord
<1> HIDE DEF r
<1>4. ASSUME NEW again \in BOOLEAN
      PROVE  Onward(realm[i], process[i], group[i], r, process[i], g, again)
  BY <1>3, KnownToLast, SignalIs DEF Onward, GoesOn, Lasting, AwaitedByPID
<1> HIDE DEF g
<1> QED
  BY <1>1, <1>4, OneOnward

\* stopRealm and killRealm.
LEMMA StopOnward ==
    ASSUME AllSound, LivenessInv, NEW i \in RealmIDs, StopRealm(i) \/ KillRealm(i)
    PROVE  EveryRunGoesOn
<1> DEFINE d == Deadline(process[i])
           k == [d EXCEPT !.forceKillSent = TRUE]
<1>1. realm[i] \in RealmRecord /\ process[i] \in ProcessRecord /\ group[i] \in GroupRecord
  BY KnownToLast
<1>2. /\ d \in ProcessRecord /\ d.present = process[i].present
      /\ d.startup = process[i].startup /\ d.forceKillSent = process[i].forceKillSent
      /\ d.exitReceived = process[i].exitReceived /\ d.termination = "pending"
  BY <1>1 DEF Deadline, ProcessRecord
<1> HIDE DEF d
<1>3. /\ k.present = process[i].present /\ k.startup = process[i].startup
      /\ k.exitReceived = process[i].exitReceived /\ k.termination = "pending"
  BY <1>2 DEF ProcessRecord
<1> HIDE DEF k
<1>4. CASE StopRealm(i)
  <2> DEFINE r == Revoked(TransitionTo(realm[i], "STOPPING"))
             g == Terminate(realm[i], group[i])
  <2>1. /\ realm' = [realm EXCEPT ![i] = r]
        /\ process' = [process EXCEPT ![i] = d]
        /\ group' = [group EXCEPT ![i] = g]
        /\ realm[i].state \in Live
    BY <1>4 DEF StopRealm, Live, d
  <2>2. r.state = "STOPPING"
    BY <1>1, <2>1, StoppingRealm
  <2>3. /\ g.compositor = group[i].compositor /\ g.supervisor = group[i].supervisor
        /\ "KILL" \in group[i].signals => "KILL" \in g.signals
    BY <1>1 DEF Terminate, Signal, Continue, GroupRecord
  <2> HIDE DEF r, g
  <2>4. ASSUME NEW again \in BOOLEAN
        PROVE  Onward(realm[i], process[i], group[i], r, d, g, again)
    BY <1>2, <2>1, <2>2, <2>3, KnownToLast DEF Onward, GoesOn, Lasting, AwaitedByPID, Live
  <2> QED
    BY <2>1, <2>4, OneOnward
<1>5. CASE KillRealm(i)
  <2> DEFINE m == IF realm[i].state \in Live THEN TransitionTo(realm[i], "STOPPING") ELSE realm[i]
             r == Revoked(m)
             g == Signal(group[i], "KILL")
  <2>1. /\ realm' = [realm EXCEPT ![i] = r]
        /\ process' = [process EXCEPT ![i] = k]
        /\ group' = [group EXCEPT ![i] = g]
    BY <1>5 DEF KillRealm, Live, d, k
  <2>2. AwaitedByPID(r)
    <3>1. CASE realm[i].state \in Live
      BY <1>1, <3>1, StoppingRealm DEF AwaitedByPID
    <3>2. CASE realm[i].state \notin Live
      BY <1>1, <3>2 DEF AwaitedByPID, Live, Revoked, SetObservation, SetInputOwner, RealmRecord
    <3> QED
      BY <3>1, <3>2
  <2> HIDE DEF r
  <2>3. ASSUME NEW again \in BOOLEAN
        PROVE  Onward(realm[i], process[i], group[i], r, k, g, again)
    BY <1>1, <1>3, <2>2, KnownToLast, SignalIs DEF Onward, GoesOn, Lasting
  <2> HIDE DEF g
  <2> QED
    BY <2>1, <2>3, OneOnward
<1> QED
  BY <1>4, <1>5

\* What one pass of the poll does to the entry and to the group of a run.
LEMMA NoticedMore ==
    ASSUME NEW r, NEW p \in ProcessRecord, NEW g \in GroupRecord
    PROVE  /\ Noticed(r, p, g).startup = p.startup
           /\ Noticed(r, p, g).forceKillSent = p.forceKillSent
<1> DEFINE a == Reaped(p, g)
           d == Deadline(a)
<1>1. a \in ProcessRecord /\ a.startup = p.startup /\ a.forceKillSent = p.forceKillSent
  BY DEF Reaped, ProcessRecord, GroupRecord
<1> HIDE DEF a
<1>2. d \in ProcessRecord /\ d.startup = p.startup /\ d.forceKillSent = p.forceKillSent
  BY <1>1 DEF Deadline, ProcessRecord
<1> HIDE DEF d
<1>3. CASE Finding(r, p, g) = "exit"
  <2>1. Noticed(r, p, g) = [d EXCEPT !.exitReceived = TRUE]
    BY <1>3 DEF Noticed, d, a
  <2> QED
    BY <1>2, <2>1 DEF ProcessRecord
<1>4. CASE Finding(r, p, g) = "overdue"
  <2>1. Noticed(r, p, g) = [d EXCEPT !.failOnExit = TRUE]
    BY <1>4 DEF Noticed, d, a
  <2> QED
    BY <1>2, <2>1 DEF ProcessRecord
<1>5. CASE Finding(r, p, g) \notin {"exit", "overdue"}
  <2>1. Noticed(r, p, g) = a
    BY <1>5 DEF Noticed, a
  <2> QED
    BY <1>1, <2>1
<1> QED
  BY <1>3, <1>4, <1>5

LEMMA DispatchedMore ==
    ASSUME NEW r, NEW p \in ProcessRecord, NEW g \in GroupRecord
    PROVE  LET n == Noticed(r, p, g)
               q == DispatchedProcess(r, p, g)
               h == DispatchedGroup(r, p, g)
           IN  /\ q.present =>
                     /\ h.supervisor = g.supervisor /\ q.startup = p.startup
                     /\ q.forceKillSent => p.forceKillSent \/ "KILL" \in h.signals
                     /\ ForceKillDue(n, g) => "KILL" \in h.signals
               /\ h.compositor = g.compositor
<1> DEFINE n == Noticed(r, p, g)
           e == Deadline(n)
           k == [e EXCEPT !.forceKillSent = TRUE]
           warned == IF Finding(r, p, g) \in {"exit", "overdue"} THEN {"TERM"} ELSE {}
           forced == IF ForceKillDue(n, g) THEN {"KILL"} ELSE {}
           sent == g.signals \cup warned \cup forced
           left == IF CleanedUp(n, g) THEN "none" ELSE g.supervisor
           q == DispatchedProcess(r, p, g)
           h == DispatchedGroup(r, p, g)
<1>1. n \in ProcessRecord /\ n.startup = p.startup /\ n.forceKillSent = p.forceKillSent
  BY NoticedProcess, NoticedMore
<1>2. q = IF CleanedUp(n, g) THEN NoProcess ELSE IF ForceKillDue(n, g) THEN k ELSE n
  BY DEF DispatchedProcess
<1>3. h = [g EXCEPT !.signals = sent, !.supervisor = left]
  BY DEF DispatchedGroup
<1>4. h.signals = sent /\ h.supervisor = left /\ h.compositor = g.compositor
  <2> HIDE DEF sent, left, h
  <2> QED
    BY <1>3 DEF GroupRecord
<1>5. ForceKillDue(n, g) => "KILL" \in sent
  OBVIOUS
<1> HIDE DEF n, sent, h, q
<1>6. e \in ProcessRecord /\ e.startup = p.startup
  BY <1>1 DEF Deadline, ProcessRecord
<1> HIDE DEF e
<1>7. k.startup = p.startup
  BY <1>6 DEF ProcessRecord
<1> HIDE DEF k
<1>8. q.present => ~CleanedUp(n, g)
  BY <1>2 DEF NoProcess
<1>9. q.present => h.supervisor = g.supervisor /\ q.startup = p.startup
  BY <1>1, <1>2, <1>4, <1>7, <1>8
<1>10. q.present /\ q.forceKillSent => p.forceKillSent \/ "KILL" \in h.signals
  BY <1>1, <1>2, <1>4, <1>5, <1>8
<1> QED
  BY <1>4, <1>5, <1>9, <1>10 DEF n, q, h

LEMMA PollOnward ==
    ASSUME NEW r \in RealmRecord, NEW p \in ProcessRecord, NEW g \in GroupRecord,
           NEW exists, NEW over, Sound(r, p, g, exists, over), p.present,
           Lasting(p, g), AwaitedByPID(r), NEW again
    PROVE  Onward(r, p, g, DispatchedRealm(r, p, g), DispatchedProcess(r, p, g),
                  DispatchedGroup(r, p, g), again)
<1> DEFINE f == Finding(r, p, g)
           n == Noticed(r, p, g)
           s == DispatchedRealm(r, p, g)
           q == DispatchedProcess(r, p, g)
           h == DispatchedGroup(r, p, g)
<1>1. /\ f \in {"exit", "ready", "overdue", "nothing"}
      /\ f \in {"ready", "overdue"} => r.state = "CREATING"
  BY Findings
<1>2. /\ n.exitReceived = (p.exitReceived \/ f = "exit")
      /\ n.termination = (IF f \in {"exit", "overdue"} THEN "pending" ELSE p.termination)
  BY NoticedProcess
<1>3. /\ CleanedUp(n, g) => q = NoProcess
      /\ ~CleanedUp(n, g) =>
            q.exitReceived = n.exitReceived /\ q.termination \in {n.termination, "pending"}
  BY DispatchedProcessIs
<1>4. /\ g.signals \subseteq h.signals
      /\ q.present => q.termination = n.termination \/ "KILL" \in h.signals
  BY DispatchedSignals
<1>5. /\ q.present => /\ h.supervisor = g.supervisor /\ q.startup = p.startup
                      /\ q.forceKillSent => p.forceKillSent \/ "KILL" \in h.signals
      /\ h.compositor = g.compositor
  BY DispatchedMore
<1>6. AwaitedByPID(s)
  <2>1. p.failOnExit => r.state = "FAILED"
    BY DEF Sound
  <2> QED
    BY <1>1, <2>1, DispatchedRealmIs DEF AwaitedByPID
<1> HIDE DEF f, n, s, q, h
<1>7. Lasting(q, h)
  <2>1. f = "exit" => g.supervisor \in {"reported", "gone", "crashed"}
    BY DEF Finding, f
  <2>2. q.present /\ q.exitReceived =>
           n.exitReceived /\ q.termination \in {n.termination, "pending"}
    <3>1. q.present => ~CleanedUp(n, g)
      BY <1>3 DEF NoProcess
    <3> QED
      BY <1>3, <3>1, Zenon
  <2>3. n.exitReceived /\ f # "exit" => p.exitReceived /\ n.termination \in {p.termination, "pending"}
    BY <1>2
  <2>4. f = "exit" => n.termination = "pending"
    BY <1>2
  <2>5. q.present /\ q.exitReceived =>
           q.termination # "none" /\ g.supervisor \in {"reported", "gone", "crashed"}
    BY <2>1, <2>2, <2>3, <2>4 DEF Lasting
  <2> QED
    BY <1>4, <1>5, <2>5 DEF Lasting
<1>8. GoesOn(r, p, g, q, h, again)
  <2>1. q.present => ~CleanedUp(n, g)
    BY <1>3 DEF NoProcess
  <2>2. f = "exit" /\ q.present => q.exitReceived
    <3>1. f = "exit" => n.exitReceived
      BY <1>2
    <3> QED
      BY <1>3, <2>1, <3>1
  <2>3. f \notin {"exit", "overdue"} => n.termination = p.termination
    BY <1>2
  <2> QED
    BY <1>1, <1>4, <1>5, <2>2, <2>3 DEF GoesOn
<1> QED
  BY <1>6, <1>7, <1>8 DEF Onward, s, q, h

LEMMA DispatchOnward ==
    ASSUME AllSound, LivenessInv, DispatchPendingEvents
    PROVE  EveryRunGoesOn
<1> DEFINE again == shutdown = "no" /\ shutdown' # "no"
<1> SUFFICES ASSUME NEW i \in RealmIDs
             PROVE  Onward(realm[i], process[i], group[i], realm'[i], process'[i], group'[i], again)
  BY DEF EveryRunGoesOn
<1> HIDE DEF again
<1>1. CASE process[i].present
  <2>1. /\ realm'[i] = DispatchedRealm(realm[i], process[i], group[i])
        /\ process'[i] = DispatchedProcess(realm[i], process[i], group[i])
        /\ group'[i] = DispatchedGroup(realm[i], process[i], group[i])
    BY <1>1 DEF DispatchPendingEvents
  <2> QED
    BY <1>1, <2>1, KnownToLast, PollOnward
<1>2. CASE ~process[i].present
  <2>1. realm'[i] = realm[i] /\ process'[i] = process[i] /\ group'[i] = group[i]
    BY <1>2 DEF DispatchPendingEvents
  <2> QED
    BY <2>1, KnownToLast, SelfOnward
<1> QED
  BY <1>1, <1>2

\* The three rounds of shutdownAll.
LEMMA ShutdownOnward ==
    ASSUME AllSound, Quiet, LivenessInv, ShutdownBegin \/ ShutdownKill \/ ShutdownFinish
    PROVE  EveryRunGoesOn
<1> DEFINE again == shutdown = "no" /\ shutdown' # "no"
<1> SUFFICES ASSUME NEW i \in RealmIDs
             PROVE  Onward(realm[i], process[i], group[i], realm'[i], process'[i], group'[i], again)
  BY DEF EveryRunGoesOn
<1>1. /\ realm[i] \in RealmRecord /\ process[i] \in ProcessRecord /\ group[i] \in GroupRecord
      /\ Lasting(process[i], group[i]) /\ AwaitedByPID(realm[i])
  BY KnownToLast
<1>2. CASE ShutdownBegin
  <2>1. again
    BY <1>2 DEF ShutdownBegin
  <2> HIDE DEF again
  <2>2. CASE ~process[i].present
    <3>1. realm'[i] = realm[i] /\ process'[i] = process[i] /\ group'[i] = group[i]
      BY <1>2, <2>2 DEF ShutdownBegin
    <3> QED
      BY <1>1, <3>1, SelfOnward
  <2>3. CASE process[i].present
    <3> DEFINE p == Deadline(process[i])
               g == Terminate(realm[i], group[i])
    <3>1. process'[i] = p /\ group'[i] = g
      BY <1>2, <2>3 DEF ShutdownBegin
    <3>2. /\ p.startup = process[i].startup /\ p.forceKillSent = process[i].forceKillSent
          /\ p.exitReceived = process[i].exitReceived /\ p.termination = "pending"
      BY <1>1 DEF Deadline, ProcessRecord
    <3>3. /\ g.compositor = group[i].compositor /\ g.supervisor = group[i].supervisor
          /\ "KILL" \in group[i].signals => "KILL" \in g.signals
      BY <1>1 DEF Terminate, Signal, Continue, GroupRecord
    <3> HIDE DEF p, g
    <3>4. AwaitedByPID(realm'[i])
      <4>1. CASE realm[i].state \in Live
        <5>1. realm'[i] = Revoked(TransitionTo(realm[i], "STOPPING"))
          BY <1>2, <2>3, <4>1 DEF ShutdownBegin, Live
        <5> QED
          BY <1>1, <4>1, <5>1, StoppingRealm DEF AwaitedByPID
      <4>2. CASE realm[i].state \notin Live
        BY <1>1, <1>2, <4>2 DEF ShutdownBegin, Live
      <4> QED
        BY <4>1, <4>2
    <3> QED
      BY <1>1, <2>1, <2>3, <3>1, <3>2, <3>3, <3>4 DEF Onward, GoesOn, Lasting
  <2> QED
    BY <2>2, <2>3
<1>3. CASE ShutdownKill
  <2>1. /\ realm'[i] = realm[i] /\ process'[i] = process[i]
        /\ group'[i] \in {group[i], Signal(group[i], "KILL")}
    BY <1>3 DEF ShutdownKill
  <2>2. CASE group'[i] = group[i]
    BY <1>1, <2>1, <2>2, SelfOnward
  <2>3. CASE group'[i] = Signal(group[i], "KILL")
    BY <1>1, <2>1, <2>3, SignalIs DEF Onward, GoesOn, Lasting
  <2> QED
    BY <2>1, <2>2, <2>3
<1>4. CASE ShutdownFinish
  <2>1. ~process'[i].present
    BY <1>4 DEF ShutdownFinish, NoProcess
  <2>2. realm'[i].state # "CREATING"
    <3> DEFINE r == realm[i]
    <3>1. PICK keeping \in SUBSET realms :
             realm' = [j \in RealmIDs |->
                LET o == IF ~process[j].present THEN realm[j]
                         ELSE IF realm[j].state = "STOPPING"
                         THEN MoveAndEmit(ForgetPID(realm[j]), "STOPPED", "STOPPED")
                         ELSE ForgetPID(realm[j])
                IN  [o EXCEPT !.runtime = @ /\ j \in keeping]]
      BY <1>4 DEF ShutdownFinish
    <3> DEFINE kept == i \in keeping
               m == MoveAndEmit(ForgetPID(r), "STOPPED", "STOPPED")
               f == IF r.state = "STOPPING" THEN m ELSE ForgetPID(r)
               x == [f EXCEPT !.runtime = @ /\ kept]
               y == [r EXCEPT !.runtime = @ /\ kept]
    <3>2. r.state # "CREATING"
      BY <1>4 DEF Quiet, Live, ShutdownFinish
    <3>3. r \in RealmRecord /\ kept \in BOOLEAN
      BY <1>1
    <3>4. realm'[i] \in {x, y}
      BY <3>1
    <3> HIDE DEF r, kept
    <3>5. x.state = (IF r.state = "STOPPING" THEN "STOPPED" ELSE r.state)
      BY <3>3, FinishedRealm, Zenon
    <3>6. y.state = r.state
      BY <3>3 DEF RealmRecord
    <3> HIDE DEF x, y
    <3> QED
      BY <3>2, <3>4, <3>5, <3>6
  <2> QED
    BY <2>1, <2>2 DEF Onward, GoesOn, Lasting, AwaitedByPID
<1> QED
  BY <1>2, <1>3, <1>4

\* Processes die and report, clocks advance.
LEMMA SystemOnward ==
    ASSUME AllSound, LivenessInv, NEW i \in RealmIDs, OperatingSystem(i)
    PROVE  EveryRunGoesOn
<1>1. /\ realm[i] \in RealmRecord /\ process[i] \in ProcessRecord /\ group[i] \in GroupRecord
  BY KnownToLast
<1>2. ASSUME NEW g, UpdateGroup(i, g), g.signals = group[i].signals,
             g.compositor \in {group[i].compositor, "exited"},
             g.supervisor # "none" \/ g.supervisor = group[i].supervisor,
             g.supervisor = "watching" => group[i].supervisor = "watching",
             g.supervisor \in {"reported", "gone"} =>
                g.compositor = "exited" \/ group[i].supervisor \in {"reported", "gone"},
             group[i].supervisor \in {"reported", "gone", "crashed"} => g.supervisor \in {"reported", "gone", "crashed"}
      PROVE  EveryRunGoesOn
  <2>1. /\ realm' = [realm EXCEPT ![i] = realm[i]]
        /\ process' = [process EXCEPT ![i] = process[i]]
        /\ group' = [group EXCEPT ![i] = g]
    BY <1>2, Untouched DEF UpdateGroup
  <2>2. ASSUME NEW again \in BOOLEAN
        PROVE  Onward(realm[i], process[i], group[i], realm[i], process[i], g, again)
    BY <1>2, KnownToLast DEF Onward, GoesOn, Lasting
  <2> QED
    BY <2>1, <2>2, OneOnward
<1>3. ASSUME NEW p, UpdateProcess(i, p), p.present = process[i].present,
             p.forceKillSent = process[i].forceKillSent,
             p.exitReceived = process[i].exitReceived,
             p.startup \in {process[i].startup, "passed"},
             p.termination \in {process[i].termination, "passed"}
      PROVE  EveryRunGoesOn
  <2>1. /\ realm' = [realm EXCEPT ![i] = realm[i]]
        /\ process' = [process EXCEPT ![i] = p]
        /\ group' = [group EXCEPT ![i] = group[i]]
    BY <1>3, Untouched DEF UpdateProcess
  <2>2. ASSUME NEW again \in BOOLEAN
        PROVE  Onward(realm[i], process[i], group[i], realm[i], p, group[i], again)
    BY <1>3, KnownToLast DEF Onward, GoesOn, Lasting
  <2> QED
    BY <2>1, <2>2, OneOnward
<1>4. CASE PublishDisplay(i)
  BY <1>1, <1>2, <1>4 DEF PublishDisplay, GroupRecord
<1>5. CASE CompositorExits(i)
  BY <1>1, <1>2, <1>5 DEF CompositorExits, GroupRecord
<1>6. CASE \E a \in Applications : ApplicationExits(i, a)
  BY <1>1, <1>2, <1>6 DEF ApplicationExits, GroupRecord
<1>7. CASE SupervisorReports(i)
  BY <1>1, <1>2, <1>7 DEF SupervisorReports, GroupRecord
<1>8. CASE SupervisorExits(i)
  BY <1>1, <1>2, <1>8 DEF SupervisorExits, GroupRecord
<1>9. CASE SupervisorCrashes(i)
  BY <1>1, <1>2, <1>9 DEF SupervisorCrashes, GroupRecord
<1>10. CASE StartupDeadlinePasses(i)
  BY <1>1, <1>3, <1>10 DEF StartupDeadlinePasses, ProcessRecord
<1>11. CASE TerminationDeadlinePasses(i)
  BY <1>1, <1>3, <1>11 DEF TerminationDeadlinePasses, ProcessRecord
<1>12. CASE StrayExits(i)
  BY <1>1, <1>2, <1>12 DEF StrayExits, GroupRecord
<1> QED
  BY <1>4, <1>5, <1>6, <1>7, <1>8, <1>9, <1>10, <1>11, <1>12 DEF OperatingSystem

LEMMA NextOnward ==
    ASSUME IInv, LivenessInv, [Next]_vars
    PROVE  EveryRunGoesOn
<1>1. AllSound /\ Quiet
  BY DEF IInv
<1>2. CASE UNCHANGED vars
  BY <1>1, <1>2, KnownToLast, SelfOnward DEF vars, EveryRunGoesOn
<1>3. ASSUME NEW i \in RealmIDs, Request(i) PROVE EveryRunGoesOn
  <2>1. CASE PauseRealm(i)
    BY <1>1, <2>1, PauseOnward DEF PauseRealm
  <2>2. CASE \E a \in Applications : OpenApplication(i, a)
    BY <1>1, <2>2, OpenOnward
  <2> QED
    BY <1>1, <1>3, <2>1, <2>2, RecordsOnward, StartOnward, ResumeOnward, StopOnward DEF Request
<1>4. CASE HostLoop
  BY <1>1, <1>4, PauseOnward, DispatchOnward, ShutdownOnward DEF HostLoop, PauseAllRealms
<1> QED
  BY <1>1, <1>2, <1>3, <1>4, SystemOnward DEF Next

\* Once the shutdown is done nothing is supervised, and nothing begins to be.
LEMMA DoneStays ==
    ASSUME IInv, LivenessInv, [Next]_vars, shutdown' = "done"
    PROVE  \A i \in RealmIDs : ~process'[i].present
<1>1. CASE ShutdownFinish
  BY <1>1 DEF ShutdownFinish, NoProcess
<1>2. CASE UNCHANGED vars
  BY <1>2 DEF vars, LivenessInv
<1>3. ASSUME NEW i \in RealmIDs, Request(i) PROVE FALSE
  BY <1>3 DEF Request, CreateRealm, StartRealm, StartUnprepared, StartUnlaunched, StartUnexecuted,
        StartLaunched, MayStart, OpenApplication, PauseRealm, PauseRealms, ResumeRealm, StopRealm,
        KillRealm, TakeoverRealm, ReleaseRealm, AllowObservation, DenyObservation,
        GrantCapability, RevokeCapability, UpdateRealm, DestroyRealm, Serving
<1>4. CASE PauseAllRealms \/ DispatchPendingEvents \/ ShutdownBegin \/ ShutdownKill
  BY <1>4 DEF PauseAllRealms, PauseRealms, DispatchPendingEvents, ShutdownBegin, ShutdownKill, Serving
<1>5. ASSUME NEW i \in RealmIDs, OperatingSystem(i) PROVE UNCHANGED process /\ UNCHANGED shutdown
  <2>1. CASE StartupDeadlinePasses(i) \/ TerminationDeadlinePasses(i)
    BY <2>1 DEF StartupDeadlinePasses, TerminationDeadlinePasses, UpdateProcess, LivenessInv
  <2> QED
    BY <1>5, <2>1 DEF OperatingSystem, PublishDisplay, CompositorExits, ApplicationExits,
          SupervisorReports, SupervisorExits, SupervisorCrashes, StrayExits, UpdateGroup
<1>6. ASSUME NEW i \in RealmIDs, OperatingSystem(i)
      PROVE  \A j \in RealmIDs : ~process'[j].present
  BY <1>5, <1>6 DEF LivenessInv
<1> QED
  BY <1>1, <1>2, <1>3, <1>4, <1>6 DEF Next, HostLoop

LEMMA LivenessInvariance == Spec => [](IInv /\ StepInv /\ LivenessInv)
<1>1. Init => LivenessInv
  BY DEF Init, LivenessInv, FreshRealm, NoProcess, NoGroup, Lasting, AwaitedByPID
<1>2. IInv /\ LivenessInv /\ [Next]_vars => LivenessInv'
  BY NextOnward, DoneStays DEF EveryRunGoesOn, Onward, LivenessInv
<1> QED
  BY <1>1, <1>2, StepInvariance, PTL DEF Spec

(* A group that is still stopped after the pause of its realm is the one of a
   compositor or a supervisor that has ended, with a SIGKILL to come: the
   exit was taken, which set the deadline, and Lasting says who had ended. *)
THEOREM StopsEndWithPauses == Spec => []NoneStaysStopped
<1>1. IInv /\ LivenessInv => NoneStaysStopped
  <2> SUFFICES ASSUME AllSound, LivenessInv, NEW i \in RealmIDs, process[i].present,
                      "STOP" \in group[i].signals, realm[i].state # "PAUSED",
                      "KILL" \notin group[i].signals
               PROVE  /\ group[i].compositor = "exited" \/ group[i].supervisor = "crashed"
                      /\ process[i].exitReceived
                      /\ process[i].termination # "none" /\ ~process[i].forceKillSent
    BY DEF IInv, NoneStaysStopped
  <2>1. process[i].exitReceived /\ process[i].forceKillSent \in BOOLEAN
    BY KnownToLast DEF Sound, ProcessRecord
  <2> QED
    BY <2>1, KnownToLast DEF Lasting
<1> QED
  BY <1>1, LivenessInvariance, PTL

(***************************************************************************)
(* FairSpec speaks of ENABLED through WF.  What of the fair actions' being *)
(* enabled the two proofs need is this predicate: an action whose own      *)
(* conditions hold can happen and changes something.  It is a hypothesis   *)
(* here; TLC finds no counterexample in the states of "manager_one".       *)
(***************************************************************************)
PollIsDue(i) ==
    /\ process[i].present /\ shutdown # "done"
    /\ \/ Finding(realm[i], process[i], group[i]) # "nothing"
       \/ ForceKillDue(process[i], group[i])

DueStepsHappen(i) ==
    /\ PollIsDue(i) => ENABLED <<DispatchPendingEvents>>_vars
    /\ "KILL" \in group[i].signals /\ group[i].compositor = "alive"
          => ENABLED <<KilledCompositorDies(i)>>_vars
    /\ group[i].supervisor = "watching" /\ group[i].compositor = "exited"
          => ENABLED <<SupervisorReports(i)>>_vars
    /\ process[i].present /\ AwaitsReadiness(realm[i]) /\ process[i].startup = "pending"
          => ENABLED <<StartupDeadlinePasses(i)>>_vars
    /\ process[i].present /\ process[i].termination = "pending"
          => ENABLED <<TerminationDeadlinePasses(i)>>_vars

AllDueStepsHappen == \A i \in RealmIDs : DueStepsHappen(i)

\* How far the stop of realm i has got.
Stopping(i) == realm[i].state = "STOPPING"
Ended(i)    == realm[i].state \in {"STOPPED", "FAILED"}
Watched(i)  == group[i].supervisor = "watching"
Alive(i)    == group[i].compositor = "alive"
Killed(i)   == "KILL" \in group[i].signals
Late(i)     == process[i].termination = "passed"
Begun       == shutdown # "no"

Ordered == IInv /\ StepInv /\ LivenessInv

LEMMA StoppingIs ==
    ASSUME Ordered, NEW i \in RealmIDs, Stopping(i)
    PROVE  /\ realm[i] \in RealmRecord /\ process[i] \in ProcessRecord /\ group[i] \in GroupRecord
           /\ process[i].present /\ ~process[i].exitReceived /\ ~process[i].failOnExit
           /\ process[i].termination \in {"pending", "passed"} /\ shutdown # "done"
           /\ group[i].supervisor # "none" /\ group[i].compositor # "none"
           /\ process[i].forceKillSent => Killed(i)
<1>1. AllSound
  BY DEF Ordered, IInv
<1>2. /\ realm[i] \in RealmRecord /\ process[i] \in ProcessRecord /\ group[i] \in GroupRecord
      /\ Sound(realm[i], process[i], group[i], i \in realms, shutdown = "done")
      /\ Lasting(process[i], group[i])
  BY <1>1, KnownToLast DEF Ordered
<1>3. process[i].present /\ ~process[i].exitReceived
  BY <1>2 DEF Stopping, Sound, Active
<1>4. ~process[i].failOnExit
  BY <1>2, <1>3 DEF Stopping, Sound
<1>5. process[i].termination \in {"pending", "passed"}
  BY <1>2 DEF Stopping, Sound, ProcessRecord
<1>6. shutdown # "done"
  BY <1>3 DEF Ordered, LivenessInv
<1> QED
  BY <1>2, <1>3, <1>4, <1>5, <1>6 DEF Lasting, Killed

\* A stop goes on until the realm has ended.
LEMMA StopGoesOn ==
    ASSUME Ordered, Ordered', NEW i \in RealmIDs, Stopping(i), [Next]_vars
    PROVE  \/ Ended(i)'
           \/ /\ Stopping(i)'
              /\ Watched(i)' => Watched(i)
              /\ Alive(i)' => Alive(i)
              /\ Killed(i) => Killed(i)'
              /\ Late(i) => Late(i)' \/ Killed(i)' \/ (~Begun /\ Begun')
              /\ Begun => Begun'
<1>1. Changed(realm[i], realm'[i])
  BY NextSteps DEF Ordered, EveryStep, Step
<1>2. Stopping(i)' \/ Ended(i)'
  BY <1>1 DEF Changed, Stays, Permits, Starts, FailsToStart, Readies, Hands, Pauses, Resumes,
        Ends, Renews, Stopping, Ended, Idle, FreshRealm
<1>3. process[i].present
  BY StoppingIs
<1>4. Begun => Begun'
  BY DEF Begun, Next, Request, CreateRealm, StartRealm, StartUnprepared, StartUnlaunched,
        StartUnexecuted, StartLaunched, MayStart, OpenApplication, PauseRealm, PauseRealms,
        ResumeRealm, StopRealm, KillRealm, TakeoverRealm, ReleaseRealm, AllowObservation,
        DenyObservation, GrantCapability, RevokeCapability, UpdateRealm, DestroyRealm,
        HostLoop, PauseAllRealms, DispatchPendingEvents, ShutdownBegin, ShutdownKill,
        ShutdownFinish, OperatingSystem, PublishDisplay, CompositorExits, ApplicationExits,
        SupervisorReports, SupervisorExits, SupervisorCrashes, StrayExits, UpdateGroup, UpdateProcess,
        StartupDeadlinePasses, TerminationDeadlinePasses, vars
<1>5. CASE Stopping(i)'
  <2>1. process'[i].present /\ ~process'[i].exitReceived
    <3>1. AllSound'
      BY DEF Ordered, IInv
    <3> QED
      BY <1>5, <3>1 DEF AllSound, Sound, Stopping, Active
  <2>2. GoesOn(realm[i], process[i], group[i], process'[i], group'[i],
               shutdown = "no" /\ shutdown' # "no")
    BY NextOnward DEF Ordered, EveryRunGoesOn, Onward
  <2> QED
    BY <1>3, <1>4, <1>5, <2>1, <2>2 DEF GoesOn, Stopping, Watched, Alive, Killed, Late, Begun
<1> QED
  BY <1>2, <1>5

\* What the fair steps do to a stop: an exit that was reported ends it, ...
LEMMA PollEndsStop ==
    ASSUME Ordered, NEW i \in RealmIDs, Stopping(i), ~Watched(i)
    PROVE  PollIsDue(i) /\ (DispatchPendingEvents => Ended(i)')
<1>1. /\ realm[i] \in RealmRecord /\ process[i] \in ProcessRecord /\ group[i] \in GroupRecord
      /\ process[i].present /\ ~process[i].exitReceived /\ ~process[i].failOnExit
      /\ shutdown # "done" /\ group[i].supervisor # "none"
  BY StoppingIs
<1>2. Finding(realm[i], process[i], group[i]) = "exit"
  BY <1>1 DEF Watched, Finding, GroupRecord
<1>3. DispatchedRealm(realm[i], process[i], group[i]).state \in {"STOPPED", "FAILED"}
  BY <1>1, <1>2, DispatchedRealmIs
<1> QED
  BY <1>1, <1>2, <1>3 DEF PollIsDue, DispatchPendingEvents, Ended

\* ... and a deadline that has passed makes the poll kill the group.
LEMMA PollKillsLate ==
    ASSUME Ordered, NEW i \in RealmIDs, Stopping(i), Watched(i), Late(i), ~Killed(i)
    PROVE  PollIsDue(i) /\ (DispatchPendingEvents => Killed(i)')
<1>1. /\ realm[i] \in RealmRecord /\ process[i] \in ProcessRecord /\ group[i] \in GroupRecord
      /\ process[i].present /\ ~process[i].exitReceived /\ ~process[i].forceKillSent
      /\ shutdown # "done"
  BY StoppingIs
<1> DEFINE n == Noticed(realm[i], process[i], group[i])
           h == DispatchedGroup(realm[i], process[i], group[i])
<1>2. Finding(realm[i], process[i], group[i]) = "nothing"
  BY <1>1 DEF Watched, Stopping, Finding, AwaitsReadiness
<1>3. ForceKillDue(process[i], group[i])
  BY <1>1 DEF ForceKillDue, Late
<1>4. /\ n \in ProcessRecord /\ ~n.exitReceived /\ n.termination = "passed" /\ ~n.forceKillSent
  <2>1. ~n.exitReceived
    <3>1. n.exitReceived = (process[i].exitReceived
                              \/ Finding(realm[i], process[i], group[i]) = "exit")
      BY <1>1, NoticedProcess
    <3>2. Finding(realm[i], process[i], group[i]) # "exit"
      BY <1>2
    <3> HIDE DEF n
    <3> QED
      BY <1>1, <3>1, <3>2, Zenon
  <2>2. n \in ProcessRecord /\ n.termination = "passed"
    BY <1>1, <1>2, NoticedProcess DEF Late
  <2>3. n.forceKillSent = process[i].forceKillSent
    BY <1>1, NoticedMore
  <2> QED
    BY <1>1, <2>1, <2>2, <2>3
<1>5. n = Reaped(process[i], group[i])
  BY <1>2 DEF Noticed
<1>6. ForceKillDue(n, group[i]) /\ ~CleanedUp(n, group[i])
  BY <1>4 DEF ForceKillDue, CleanedUp
<1>7. DispatchedProcess(realm[i], process[i], group[i]).present
  BY <1>1, <1>6, DispatchedProcessIs, NoticedProcess
<1>8. "KILL" \in h.signals
  BY <1>1, <1>6, <1>7, DispatchedMore
<1> QED
  BY <1>1, <1>3, <1>8 DEF PollIsDue, DispatchPendingEvents, Killed

LEMMA OtherFairSteps ==
    ASSUME Ordered, NEW i \in RealmIDs, Stopping(i)
    PROVE  /\ SupervisorReports(i) => ~Watched(i)'
           /\ KilledCompositorDies(i) => ~Alive(i)'
           /\ TerminationDeadlinePasses(i) => Late(i)'
           /\ Alive(i) \/ group[i].compositor = "exited"
           /\ Late(i) \/ process[i].termination = "pending"
           /\ process[i].present
<1>1. /\ process[i] \in ProcessRecord /\ group[i] \in GroupRecord /\ process[i].present
      /\ process[i].termination \in {"pending", "passed"} /\ group[i].compositor # "none"
      /\ process \in [RealmIDs -> ProcessRecord] /\ group \in [RealmIDs -> GroupRecord]
  BY StoppingIs DEF Ordered, IInv, AllSound, TypeOK
<1>2. SupervisorReports(i) => ~Watched(i)'
  BY <1>1 DEF SupervisorReports, UpdateGroup, Watched, GroupRecord
<1>3. KilledCompositorDies(i) => ~Alive(i)'
  BY <1>1 DEF KilledCompositorDies, CompositorExits, UpdateGroup, Alive, GroupRecord
<1>4. TerminationDeadlinePasses(i) => Late(i)'
  BY <1>1 DEF TerminationDeadlinePasses, UpdateProcess, Late, ProcessRecord
<1> QED
  BY <1>1, <1>2, <1>3, <1>4 DEF Alive, Late, GroupRecord

\* The escalation: SIGTERM, the deadline, SIGKILL, the exit, its report.
LEMMA OneStopCompletes ==
    ASSUME NEW i \in RealmIDs
    PROVE  Spec /\ FairLoop /\ FairRealm(i) /\ []DueStepsHappen(i)
             => (Stopping(i) ~> Ended(i))
<1> DEFINE Fair == Spec /\ FairLoop /\ FairRealm(i) /\ []DueStepsHappen(i)
<1>1. Ordered /\ Ordered' /\ Stopping(i) /\ [Next]_vars
        => \/ Ended(i)'
           \/ /\ Stopping(i)'
              /\ Watched(i)' => Watched(i)
              /\ Alive(i)' => Alive(i)
              /\ Killed(i) => Killed(i)'
              /\ Late(i) => Late(i)' \/ Killed(i)' \/ (~Begun /\ Begun')
              /\ Begun => Begun'
  BY StopGoesOn
<1>2. Fair => []Ordered /\ [][Next]_vars /\ []DueStepsHappen(i)
  BY LivenessInvariance, PTL DEF Spec, Ordered
<1>3. Fair => ([]<>~PollIsDue(i) \/ []<><<DispatchPendingEvents>>_vars)
  <2>1. DueStepsHappen(i) => (PollIsDue(i) => ENABLED <<DispatchPendingEvents>>_vars)
    BY DEF DueStepsHappen
  <2> QED
    BY <2>1, PTL DEF FairLoop
<1>4. Fair => ([]<>~(Killed(i) /\ Alive(i)) \/ []<><<KilledCompositorDies(i)>>_vars)
  <2>1. DueStepsHappen(i) => (Killed(i) /\ Alive(i) => ENABLED <<KilledCompositorDies(i)>>_vars)
    BY DEF DueStepsHappen, Killed, Alive
  <2> QED
    BY <2>1, PTL DEF FairRealm
<1>5. Fair => ([]<>~(Watched(i) /\ group[i].compositor = "exited") \/ []<><<SupervisorReports(i)>>_vars)
  <2>1. DueStepsHappen(i)
          => (Watched(i) /\ group[i].compositor = "exited" => ENABLED <<SupervisorReports(i)>>_vars)
    BY DEF DueStepsHappen, Watched
  <2> QED
    BY <2>1, PTL DEF FairRealm
<1>6. Fair => ([]<>~(process[i].present /\ process[i].termination = "pending")
                 \/ []<><<TerminationDeadlinePasses(i)>>_vars)
  <2>1. DueStepsHappen(i)
          => (process[i].present /\ process[i].termination = "pending"
                => ENABLED <<TerminationDeadlinePasses(i)>>_vars)
    BY DEF DueStepsHappen
  <2> QED
    BY <2>1, PTL DEF FairRealm
<1> DEFINE Reported == Stopping(i) /\ ~Watched(i)
           Dead     == Stopping(i) /\ Watched(i) /\ ~Alive(i)
           Doomed   == Stopping(i) /\ Watched(i) /\ Alive(i) /\ Killed(i)
           Overdue  == Stopping(i) /\ Watched(i) /\ Alive(i) /\ ~Killed(i) /\ Late(i)
           Waiting  == Stopping(i) /\ Watched(i) /\ Alive(i) /\ ~Killed(i) /\ ~Late(i)
<1>7. Fair => (Reported ~> Ended(i))
  <2>1. Ordered /\ Reported => PollIsDue(i)
    BY PollEndsStop
  <2>2. Ordered /\ Reported /\ <<DispatchPendingEvents>>_vars => Ended(i)'
    BY PollEndsStop
  <2> QED
    BY <1>1, <1>2, <1>3, <2>1, <2>2, PTL
<1>8. Fair => (Dead ~> Ended(i))
  <2>1. Ordered /\ Dead => Watched(i) /\ group[i].compositor = "exited"
    BY OtherFairSteps
  <2>2. Ordered /\ Dead /\ <<SupervisorReports(i)>>_vars => ~Watched(i)'
    BY OtherFairSteps
  <2> QED
    BY <1>1, <1>2, <1>5, <1>7, <2>1, <2>2, PTL
<1>9. Fair => (Doomed ~> Ended(i))
  <2>1. Ordered /\ Doomed /\ <<KilledCompositorDies(i)>>_vars => ~Alive(i)'
    BY OtherFairSteps
  <2> QED
    BY <1>1, <1>2, <1>4, <1>7, <1>8, <2>1, PTL
<1>10. Fair => (Overdue /\ Begun ~> Ended(i))
  <2>1. Ordered /\ Overdue => PollIsDue(i)
    BY PollKillsLate
  <2>2. Ordered /\ Overdue /\ <<DispatchPendingEvents>>_vars => Killed(i)'
    BY PollKillsLate
  <2> QED
    BY <1>1, <1>2, <1>3, <1>7, <1>8, <1>9, <2>1, <2>2, PTL
<1>11. Ordered /\ Waiting => process[i].present /\ process[i].termination = "pending"
  BY OtherFairSteps
<1>12. Ordered /\ Waiting /\ <<TerminationDeadlinePasses(i)>>_vars => Late(i)'
  BY OtherFairSteps
<1>13. Fair => (Waiting /\ Begun ~> Ended(i))
  BY <1>1, <1>2, <1>6, <1>7, <1>8, <1>9, <1>10, <1>11, <1>12, PTL
<1>14. Fair => (Overdue /\ ~Begun ~> Ended(i))
  <2>1. Ordered /\ Overdue => PollIsDue(i)
    BY PollKillsLate
  <2>2. Ordered /\ Overdue /\ <<DispatchPendingEvents>>_vars => Killed(i)'
    BY PollKillsLate
  <2> QED
    BY <1>1, <1>2, <1>3, <1>7, <1>8, <1>9, <1>10, <1>13, <2>1, <2>2, PTL
<1>15. Fair => (Waiting /\ ~Begun ~> Ended(i))
  BY <1>1, <1>2, <1>6, <1>7, <1>8, <1>9, <1>10, <1>11, <1>12, <1>13, <1>14, PTL
<1> QED
  BY <1>7, <1>8, <1>9, <1>10, <1>13, <1>14, <1>15, PTL

\* A stop that was accepted ends, even if SIGTERM is ignored and if shutdownAll
\* begins in the middle of it: the poll kills the group when its time is up.
THEOREM StopsComplete == FairSpec /\ []AllDueStepsHappen => StopCompletes
<1>1. ASSUME NEW i \in RealmIDs
      PROVE  Spec /\ FairLoop /\ FairRealm(i) /\ []DueStepsHappen(i)
               => (realm[i].state = "STOPPING" ~> realm[i].state \in {"STOPPED", "FAILED"})
  BY OneStopCompletes DEF Stopping, Ended
<1>2. ASSUME NEW i \in RealmIDs
      PROVE  []AllDueStepsHappen => []DueStepsHappen(i)
  <2>1. AllDueStepsHappen => DueStepsHappen(i)
    BY DEF AllDueStepsHappen
  <2> QED
    BY <2>1, PTL
<1> QED
  BY <1>1, <1>2 DEF FairSpec, Fairness, StopCompletes

\* A realm that is being created awaits its readiness or its deadline.
Creating(i) == realm[i].state = "CREATING"
Resolved(i) == realm[i].state # "CREATING"
Passed(i)   == process[i].startup = "passed"

LEMMA CreatingIs ==
    ASSUME Ordered, NEW i \in RealmIDs, Creating(i)
    PROVE  /\ realm[i] \in RealmRecord /\ process[i] \in ProcessRecord /\ group[i] \in GroupRecord
           /\ process[i].present /\ ~process[i].failOnExit
           /\ AwaitsReadiness(realm[i]) /\ shutdown # "done"
<1>1. AllSound /\ LivenessInv
  BY DEF Ordered, IInv
<1>2. /\ realm[i] \in RealmRecord /\ process[i] \in ProcessRecord /\ group[i] \in GroupRecord
      /\ Sound(realm[i], process[i], group[i], i \in realms, shutdown = "done")
      /\ AwaitedByPID(realm[i])
  BY <1>1, KnownToLast
<1>3. process[i].present
  BY <1>2 DEF Creating, Sound, Active
<1>4. ~process[i].failOnExit
  BY <1>2, <1>3 DEF Creating, Sound
<1>5. shutdown # "done"
  BY <1>1, <1>3 DEF LivenessInv
<1> QED
  BY <1>2, <1>3, <1>4, <1>5 DEF AwaitedByPID, AwaitsReadiness, Creating

LEMMA StartGoesOn ==
    ASSUME Ordered, Ordered', NEW i \in RealmIDs, Creating(i), Passed(i), [Next]_vars, Creating(i)'
    PROVE  Passed(i)'
<1>1. process[i].present
  BY CreatingIs
<1>2. process'[i].present
  <2>1. AllSound'
    BY DEF Ordered, IInv
  <2> QED
    BY <2>1 DEF AllSound, Sound, Creating, Active
<1>3. GoesOn(realm[i], process[i], group[i], process'[i], group'[i],
             shutdown = "no" /\ shutdown' # "no")
  BY NextOnward DEF Ordered, EveryRunGoesOn, Onward
<1> QED
  BY <1>1, <1>2, <1>3 DEF GoesOn, Passed

\* The poll finds it ready, exited or overdue.
LEMMA PollResolves ==
    ASSUME Ordered, NEW i \in RealmIDs, Creating(i), Passed(i)
    PROVE  PollIsDue(i) /\ (DispatchPendingEvents => ~Creating(i)')
<1>1. /\ realm[i] \in RealmRecord /\ process[i] \in ProcessRecord /\ group[i] \in GroupRecord
      /\ process[i].present /\ ~process[i].failOnExit
      /\ AwaitsReadiness(realm[i]) /\ shutdown # "done"
  BY CreatingIs
<1>2. Finding(realm[i], process[i], group[i]) \in {"exit", "ready", "overdue"}
  BY <1>1 DEF Finding, Passed
<1>3. DispatchedRealm(realm[i], process[i], group[i]).state # "CREATING"
  BY <1>1, <1>2, DispatchedRealmIs
<1> QED
  BY <1>1, <1>2, <1>3 DEF PollIsDue, DispatchPendingEvents, Creating

LEMMA OneStartResolves ==
    ASSUME NEW i \in RealmIDs
    PROVE  Spec /\ FairLoop /\ FairRealm(i) /\ []DueStepsHappen(i)
             => (Creating(i) ~> Resolved(i))
<1> DEFINE Fair == Spec /\ FairLoop /\ FairRealm(i) /\ []DueStepsHappen(i)
           Open == process[i].present /\ AwaitsReadiness(realm[i])
                     /\ process[i].startup = "pending"
<1>1. Ordered /\ Ordered' /\ Creating(i) /\ Passed(i) /\ [Next]_vars
        => ~Creating(i)' \/ Passed(i)'
  BY StartGoesOn
<1>2. Ordered /\ Creating(i) /\ Passed(i) => PollIsDue(i)
  BY PollResolves
<1>3. Ordered /\ Creating(i) /\ Passed(i) /\ <<DispatchPendingEvents>>_vars => ~Creating(i)'
  BY PollResolves
<1>4. Ordered /\ Creating(i) /\ ~Passed(i) => Open
  BY CreatingIs DEF Passed, ProcessRecord
<1>5. Ordered /\ Creating(i) /\ <<StartupDeadlinePasses(i)>>_vars => Passed(i)'
  <2>1. Ordered => process \in [RealmIDs -> ProcessRecord]
    BY DEF Ordered, IInv, AllSound, TypeOK
  <2> QED
    BY <2>1 DEF StartupDeadlinePasses, UpdateProcess, Passed, ProcessRecord
<1>6. DueStepsHappen(i) => /\ PollIsDue(i) => ENABLED <<DispatchPendingEvents>>_vars
                           /\ Open => ENABLED <<StartupDeadlinePasses(i)>>_vars
  BY DEF DueStepsHappen
<1>7. Fair => []Ordered /\ [][Next]_vars
  BY LivenessInvariance, PTL DEF Spec, Ordered
<1>8. Fair => ([]<>~PollIsDue(i) \/ []<><<DispatchPendingEvents>>_vars)
  BY <1>6, PTL DEF FairLoop
<1>9. Fair => ([]<>~Open \/ []<><<StartupDeadlinePasses(i)>>_vars)
  BY <1>6, PTL DEF FairRealm
<1>10. Fair => (Creating(i) /\ Passed(i) ~> ~Creating(i))
  BY <1>1, <1>2, <1>3, <1>7, <1>8, PTL
<1>11. ~Creating(i) => Resolved(i)
  BY DEF Creating, Resolved
<1> QED
  BY <1>4, <1>5, <1>7, <1>9, <1>10, <1>11, PTL

\* A start runs, fails or is stopped: the startup deadline passes and the poll
\* looks at it, or found something else before.
THEOREM StartsResolve == FairSpec /\ []AllDueStepsHappen => StartResolves
<1>1. ASSUME NEW i \in RealmIDs
      PROVE  Spec /\ FairLoop /\ FairRealm(i) /\ []DueStepsHappen(i)
               => (realm[i].state = "CREATING" ~> realm[i].state # "CREATING")
  BY OneStartResolves DEF Creating, Resolved
<1>2. ASSUME NEW i \in RealmIDs
      PROVE  []AllDueStepsHappen => []DueStepsHappen(i)
  <2>1. AllDueStepsHappen => DueStepsHappen(i)
    BY DEF AllDueStepsHappen
  <2> QED
    BY <2>1, PTL
<1> QED
  BY <1>1, <1>2 DEF FairSpec, Fairness, StartResolves

-----------------------------------------------------------------------------
(***************************************************************************)
(* The lifecycle that a client can tell.  Fate is what has become of the   *)
(* processes of a realm; Life lists how the state and the fate of a realm  *)
(* change together, and every action is one of these for every realm.      *)
(***************************************************************************)
Fate(p, g) == IF ~p.present THEN "none" ELSE IF GroupExists(p, g) THEN "live" ELSE "gone"
StateOf(i) == IF i \in realms THEN realm[i].state ELSE "NONE"

Verdict(s) == IF s = "STOPPING" THEN "STOPPED" ELSE "FAILED"

Life(s, u, t, v) ==
    \/ t = s /\ v = u
    \/ t = s /\ u = "live" /\ v = "gone"
    \/ s = "NONE" /\ t = "STOPPED" /\ v = u
    \/ s \in Idle /\ u = "none" /\ t = "CREATING" /\ v = "live"
    \/ s \in Idle /\ u = "none" /\ t = "FAILED" /\ v \in {"none", "live"}
    \/ s \in Idle /\ u = "none" /\ t = "NONE" /\ v = "none"
    \/ /\ <<s, t>> \in {<<"RUNNING", "PAUSED">>, <<"PAUSED", "RUNNING">>, <<"CREATING", "RUNNING">>}
       /\ u = "live" /\ v = "live"
    \/ s \in Live /\ u \in {"live", "gone"} /\ t = "STOPPING" /\ v = u
    \/ s \in Active /\ u \in {"live", "gone"} /\ t = Verdict(s) /\ v \in {u, "gone", "none"}
    \/ s \in Idle /\ u \in {"live", "gone"} /\ t = s /\ v = "none"

EveryLife ==
    \A i \in RealmIDs :
        Life(StateOf(i), Fate(process[i], group[i]), StateOf(i)', Fate(process[i], group[i])')

\* The list is of what RealmLifecycle has for a realm.
LEMMA LifeIsLifecycle ==
    ASSUME NEW s, NEW u, NEW t, NEW v, Life(s, u, t, v)
    PROVE  [state |-> t, process |-> v] \in Lifecycle!MayBecome([state |-> s, process |-> u])
<1> DEFINE x == [state |-> s, process |-> u]
           y == [state |-> t, process |-> v]
<1>1. /\ x.state = s /\ x.process = u
      /\ \A state : [x EXCEPT !.state = state] = [state |-> state, process |-> u]
      /\ \A fate : [x EXCEPT !.process = fate] = [state |-> s, process |-> fate]
      /\ \A state, fate : [x EXCEPT !.state = state, !.process = fate] = [state |-> state, process |-> fate]
  <2>1. x.state = s /\ x.process = u
      OBVIOUS
  <2>2. ASSUME NEW state PROVE [x EXCEPT !.state = state] = [state |-> state, process |-> u]
      OBVIOUS
  <2>3. ASSUME NEW state, NEW fate
        PROVE  [[state |-> state, process |-> u] EXCEPT !.process = fate] = [state |-> state, process |-> fate]
      OBVIOUS
  <2>4. ASSUME NEW fate PROVE [x EXCEPT !.process = fate] = [state |-> s, process |-> fate]
      OBVIOUS
  <2> HIDE DEF x
  <2> QED BY <2>1, <2>2, <2>3, <2>4
<1>2. CASE t = s /\ v = u
    BY <1>2 DEF Lifecycle!MayBecome
<1> HIDE DEF x, y
<1> USE DEF Lifecycle!When, Lifecycle!Active, Lifecycle!Over, Idle, Active, Live
<1>3. CASE t = s /\ u = "live" /\ v = "gone"
  <2>1. y \in Lifecycle!Deserted(x)
      BY <1>1, <1>3 DEF Lifecycle!Deserted, y
  <2> QED BY <2>1 DEF Lifecycle!MayBecome, Lifecycle!Happened, x, y
<1>4. CASE s = "NONE" /\ t = "STOPPED" /\ v = u
  <2>1. Lifecycle!MayCreate(x) /\ y = Lifecycle!Created(x)
      BY <1>1, <1>4 DEF Lifecycle!MayCreate, Lifecycle!Created, y
  <2> QED BY <2>1 DEF Lifecycle!MayBecome, Lifecycle!Requested, x, y
<1>5. CASE s \in Idle /\ u = "none" /\ t = "CREATING" /\ v = "live"
  <2>1. Lifecycle!MayStart(x) /\ y = Lifecycle!Started(x)
      BY <1>1, <1>5 DEF Lifecycle!MayStart, Lifecycle!Started, y
  <2> QED BY <2>1 DEF Lifecycle!MayBecome, Lifecycle!Requested, x, y
<1>6. CASE s \in Idle /\ u = "none" /\ t = "FAILED" /\ v \in {"none", "live"}
  <2>1. Lifecycle!MayStart(x) /\ y \in Lifecycle!BadStarts(x)
      BY <1>1, <1>6 DEF Lifecycle!MayStart, Lifecycle!BadStarts, y
  <2> QED BY <2>1 DEF Lifecycle!MayBecome, Lifecycle!Requested, x, y
<1>7. CASE s \in Idle /\ u = "none" /\ t = "NONE" /\ v = "none"
  <2>1. Lifecycle!MayDestroy(x) /\ y = Lifecycle!Removed(x)
      BY <1>1, <1>7 DEF Lifecycle!MayDestroy, Lifecycle!Removed, y
  <2> QED BY <2>1 DEF Lifecycle!MayBecome, Lifecycle!Requested, x, y
<1>8. CASE /\ <<s, t>> \in {<<"RUNNING", "PAUSED">>, <<"PAUSED", "RUNNING">>, <<"CREATING", "RUNNING">>}
           /\ u = "live" /\ v = "live"
  <2>1. \/ Lifecycle!MayPause(x) /\ y = Lifecycle!Paused(x)
        \/ Lifecycle!MayResume(x) /\ y = Lifecycle!Resumed(x)
        \/ Lifecycle!MayBecomeReady(x) /\ y = Lifecycle!Ready(x)
      BY <1>1, <1>8 DEF Lifecycle!MayPause, Lifecycle!Paused, Lifecycle!MayResume, Lifecycle!Resumed,
                        Lifecycle!MayBecomeReady, Lifecycle!Ready, y
  <2> QED BY <2>1 DEF Lifecycle!MayBecome, Lifecycle!Requested, x, y
<1>9. CASE s \in Live /\ u \in {"live", "gone"} /\ t = "STOPPING" /\ v = u
  <2>1. y = Lifecycle!Stopped(x)
      BY <1>1, <1>9 DEF Lifecycle!Stopped, y
  <2>2. Lifecycle!MayStop(x) \/ y \in Lifecycle!ShutDown(x)
      BY <1>1, <1>9, <2>1 DEF Lifecycle!MayStop, Lifecycle!ShutDown
  <2> QED BY <2>1, <2>2 DEF Lifecycle!MayBecome, Lifecycle!Requested, Lifecycle!Happened, x, y
<1>10. CASE s \in Active /\ u \in {"live", "gone"} /\ t = Verdict(s) /\ v \in {u, "gone", "none"}
  <2>1. y = [x EXCEPT !.state = Lifecycle!Outcome(x), !.process = v]
    <3>1. y = [x EXCEPT !.state = Verdict(s), !.process = v]
        BY <1>1, <1>10 DEF y
    <3>2. Lifecycle!Outcome(x) = Verdict(s)
        BY <1>1 DEF Lifecycle!Outcome, Verdict
    <3> QED BY <3>1, <3>2
  <2>2. y \in Lifecycle!Ended(x)
      BY <1>1, <1>10, <2>1 DEF Lifecycle!Ended
  <2> QED BY <2>2 DEF Lifecycle!MayBecome, Lifecycle!Happened, x, y
<1>11. CASE s \in Idle /\ u \in {"live", "gone"} /\ t = s /\ v = "none"
  <2>1. y \in Lifecycle!Erased(x)
      BY <1>1, <1>11 DEF Lifecycle!Erased, y
  <2> QED BY <2>1 DEF Lifecycle!MayBecome, Lifecycle!Happened, x, y
<1> QED
  BY <1>2, <1>3, <1>4, <1>5, <1>6, <1>7, <1>8, <1>9, <1>10, <1>11 DEF Life, x, y

\* What the fate of a realm depends on.
LEMMA SameFate ==
    ASSUME NEW p, NEW g, NEW q, NEW h,
           q.present = p.present, q.applications = p.applications,
           h.compositor = g.compositor, h.supervisor = g.supervisor,
           h.applications = g.applications
    PROVE  Fate(q, h) = Fate(p, g)
BY DEF Fate, GroupExists, Executing

\* An action on one realm.
LEMMA OneLife ==
    ASSUME AllSound, NEW i \in RealmIDs, NEW r, NEW p, NEW g,
           realm' = [realm EXCEPT ![i] = r],
           process' = [process EXCEPT ![i] = p],
           group' = [group EXCEPT ![i] = g],
           UNCHANGED realms,
           Life(StateOf(i), Fate(process[i], group[i]), IF i \in realms THEN r.state ELSE "NONE", Fate(p, g))
    PROVE  EveryLife
<1> SUFFICES ASSUME NEW j \in RealmIDs
             PROVE  Life(StateOf(j), Fate(process[j], group[j]), StateOf(j)', Fate(process[j], group[j])')
  BY DEF EveryLife
<1>1. CASE j = i
  <2>1. realm'[j] = r /\ process'[j] = p /\ group'[j] = g
    BY <1>1 DEF AllSound, TypeOK
  <2>2. StateOf(j)' = (IF i \in realms THEN r.state ELSE "NONE") /\ Fate(process[j], group[j])' = Fate(p, g)
    BY <1>1, <2>1 DEF StateOf, Fate, GroupExists, Executing
  <2> QED
    BY <1>1, <2>2
<1>2. CASE j # i
  <2>1. realm'[j] = realm[j] /\ process'[j] = process[j] /\ group'[j] = group[j]
    BY <1>2 DEF AllSound, TypeOK
  <2>2. StateOf(j)' = StateOf(j) /\ Fate(process[j], group[j])' = Fate(process[j], group[j])
    BY <2>1 DEF StateOf, Fate, GroupExists, Executing
  <2> QED
    BY <2>2 DEF Life
<1> QED
  BY <1>1, <1>2

\* createRealm and destroyRealm: there is no process.
LEMMA RenewLife ==
    ASSUME AllSound, NEW i \in RealmIDs, CreateRealm(i) \/ DestroyRealm(i)
    PROVE  EveryLife
<1> SUFFICES ASSUME NEW j \in RealmIDs
             PROVE  Life(StateOf(j), Fate(process[j], group[j]), StateOf(j)', Fate(process[j], group[j])')
  BY DEF EveryLife
<1>1. Fate(process[j], group[j])' = Fate(process[j], group[j])
  BY DEF CreateRealm, DestroyRealm, Fate, GroupExists, Executing
<1>2. realm' = [realm EXCEPT ![i] = FreshRealm]
  BY DEF CreateRealm, DestroyRealm
<1>3. CASE j # i
  <2>1. StateOf(j)' = StateOf(j)
    BY <1>2, <1>3 DEF CreateRealm, DestroyRealm, StateOf, AllSound, TypeOK
  <2> QED
    BY <1>1, <2>1 DEF Life
<1>4. CASE j = i /\ CreateRealm(i)
  <2>1. i \notin realms /\ i \in realms' /\ realm'[i].state = "STOPPED"
    BY <1>2, <1>4 DEF CreateRealm, AllSound, TypeOK, FreshRealm
  <2>2. StateOf(i) = "NONE" /\ StateOf(i)' = "STOPPED"
    BY <2>1 DEF StateOf
  <2> QED
    BY <1>1, <1>4, <2>2 DEF Life
<1>5. CASE j = i /\ DestroyRealm(i)
  <2>1. i \in realms /\ i \notin realms' /\ realm[i].state \in Idle /\ ~process[i].present
    BY <1>5 DEF DestroyRealm, Idle
  <2>2. StateOf(i) \in Idle /\ StateOf(i)' = "NONE" /\ Fate(process[i], group[i]) = "none"
    BY <2>1 DEF StateOf, Fate
  <2> QED
    BY <1>1, <1>5, <2>2 DEF Life
<1> QED
  BY <1>3, <1>4, <1>5

\* Permissions and leases.
LEMMA RecordLife ==
    ASSUME AllSound, NEW i \in RealmIDs,
           \/ TakeoverRealm(i) \/ ReleaseRealm(i) \/ AllowObservation(i) \/ DenyObservation(i)
           \/ \E c \in Capabilities : GrantCapability(i, c) \/ RevokeCapability(i, c)
    PROVE  EveryLife
<1>1. realm[i] \in RealmRecord
  BY Untouched
<1>2. ASSUME NEW r, UpdateRealm(i, r), r.state = realm[i].state PROVE EveryLife
  <2>1. /\ realm' = [realm EXCEPT ![i] = r] /\ UNCHANGED realms
        /\ process' = [process EXCEPT ![i] = process[i]]
        /\ group' = [group EXCEPT ![i] = group[i]]
    BY <1>2, Untouched DEF UpdateRealm
  <2> QED
    BY <1>2, <2>1, OneLife DEF Life, StateOf
<1>3. CASE TakeoverRealm(i) \/ ReleaseRealm(i)
  <2>1. \A owner, event : Emit(SetInputOwner(realm[i], owner), event).state = realm[i].state
    BY <1>1 DEF Emit, SetInputOwner, RealmRecord
  <2> QED
    BY <1>2, <1>3, <2>1 DEF TakeoverRealm, ReleaseRealm
<1>4. CASE AllowObservation(i) \/ DenyObservation(i)
  <2>1. \A permission : SetObservation(realm[i], permission).state = realm[i].state
    BY <1>1 DEF SetObservation, RealmRecord
  <2> QED
    BY <1>2, <1>4, <2>1 DEF AllowObservation, DenyObservation
<1>5. ASSUME NEW c \in Capabilities, GrantCapability(i, c) PROVE EveryLife
  <2>1. [realm[i] EXCEPT !.capabilities = @ \cup {c}].state = realm[i].state
    BY <1>1 DEF RealmRecord
  <2> QED
    BY <1>2, <1>5, <2>1 DEF GrantCapability
<1>6. ASSUME NEW c \in Capabilities, RevokeCapability(i, c) PROVE EveryLife
  <2>1. Without(realm[i], c).state = realm[i].state
    BY <1>1 DEF Without, SetObservation, RealmRecord
  <2> QED
    BY <1>2, <1>6, <2>1 DEF RevokeCapability
<1> QED
  BY <1>3, <1>4, <1>5, <1>6

\* startRealm, however it ends.
LEMMA StartLife ==
    ASSUME AllSound, NEW i \in RealmIDs, StartRealm(i)
    PROVE  EveryLife
<1>1. /\ ~process[i].present /\ CanMove(realm[i], "CREATING") /\ i \in realms
      /\ realm[i] \in RealmRecord /\ UNCHANGED realms
  BY Untouched DEF StartRealm, StartUnprepared, StartUnlaunched, StartUnexecuted, StartLaunched, MayStart
<1>2. StateOf(i) \in Idle /\ Fate(process[i], group[i]) = "none"
  BY <1>1 DEF CanMove, Transitions, Idle, StateOf, Fate
<1>3. CASE StartUnprepared(i) \/ StartUnlaunched(i)
  <2>1. PICK left \in BOOLEAN :
           realm' = [realm EXCEPT ![i] =
                       [MoveAndEmit(Starting(realm[i]), "FAILED", "FAILED") EXCEPT !.runtime = left]]
    BY <1>3, FailedStarts
  <2>2. PICK stray \in BOOLEAN :
           group' = [group EXCEPT ![i] = [group[i] EXCEPT !.stray = stray]]
    BY <1>3, FailedStarts
  <2> DEFINE f == [MoveAndEmit(Starting(realm[i]), "FAILED", "FAILED") EXCEPT !.runtime = left]
             g == [group[i] EXCEPT !.stray = stray]
  <2>3. f.state = "FAILED"
    BY <1>1, FailedStart
  <2>4. /\ realm' = [realm EXCEPT ![i] = f]
        /\ process' = [process EXCEPT ![i] = process[i]]
        /\ group' = [group EXCEPT ![i] = g]
    BY <1>3, <2>1, <2>2, FailedStarts
  <2> HIDE DEF f, g
  <2>5. Fate(process[i], g) = "none"
    BY <1>1 DEF Fate
  <2> QED
    BY <1>1, <1>2, <2>3, <2>4, <2>5, OneLife DEF Life
<1>4. CASE StartUnexecuted(i)
  <2> DEFINE m == [MoveAndEmit(Starting(realm[i]), "FAILED", "FAILED") EXCEPT !.runtime = TRUE]
             e == MoveAndEmit(Starting(realm[i]), "FAILED", "FAILED")
             f == [e EXCEPT !.runtime = TRUE, !.exitCode = 127, !.compositorPID = FALSE]
             p == [NoProcess EXCEPT !.present = TRUE, !.failOnExit = TRUE]
             g == NewGroup(group[i], "exited")
  <2>1. /\ realm' = [realm EXCEPT ![i] = f]
        /\ process' = [process EXCEPT ![i] = p]
        /\ group' = [group EXCEPT ![i] = g]
    BY <1>4 DEF StartUnexecuted
  <2>2. m.state = "FAILED"
    BY <1>1, FailedStart
  <2>3. e \in RealmRecord
    <3>1. Starting(realm[i]) \in RealmRecord
      BY <1>1, StartingRealm
    <3> QED
      BY <3>1, RealmOperations DEF States, Events
  <2> HIDE DEF e
  <2>4. f.state = "FAILED"
    BY <2>2, <2>3 DEF RealmRecord, e
  <2>5. Fate(p, g) = "live"
    BY Untouched, NewGroups DEF Fate, GroupExists, NoProcess
  <2> HIDE DEF f, p, g, m
  <2> QED
    BY <1>1, <1>2, <2>1, <2>4, <2>5, OneLife DEF Life
<1>5. CASE StartLaunched(i)
  <2> DEFINE e == Starting(realm[i])
             f == [e EXCEPT !.runtime = TRUE, !.compositorPID = TRUE]
             p == [NoProcess EXCEPT !.present = TRUE]
             g == NewGroup(group[i], "alive")
  <2>1. /\ realm' = [realm EXCEPT ![i] = f]
        /\ process' = [process EXCEPT ![i] = p]
        /\ group' = [group EXCEPT ![i] = g]
    BY <1>5 DEF StartLaunched
  <2>2. e \in RealmRecord /\ e.state = "CREATING"
    BY <1>1, StartingRealm
  <2> HIDE DEF e
  <2>3. f.state = "CREATING"
    BY <2>2 DEF RealmRecord
  <2>4. Fate(p, g) = "live"
    BY Untouched, NewGroups DEF Fate, GroupExists, NoProcess
  <2> HIDE DEF f, p, g
  <2> QED
    BY <1>1, <1>2, <2>1, <2>3, <2>4, OneLife DEF Life
<1> QED
  BY <1>3, <1>4, <1>5 DEF StartRealm

\* openApplication: the group that a new process joins exists.
LEMMA OpenLife ==
    ASSUME AllSound, NEW i \in RealmIDs, NEW a, OpenApplication(i, a)
    PROVE  EveryLife
<1> DEFINE p == [process[i] EXCEPT !.applications = @ \cup {a}]
           g == [group[i] EXCEPT !.applications = @ \cup {a}]
<1>1. /\ realm' = [realm EXCEPT ![i] = realm[i]] /\ UNCHANGED realms
      /\ process' = [process EXCEPT ![i] = p]
      /\ group' = [group EXCEPT ![i] = g]
  BY Untouched DEF OpenApplication
<1>2. process[i].present /\ GroupExists(process[i], group[i])
  BY DEF OpenApplication, Signallable
<1>3. p.present /\ p.applications # {}
  BY <1>2, Untouched DEF ProcessRecord
<1> HIDE DEF p, g
<1>4. Fate(process[i], group[i]) = "live" /\ Fate(p, g) = "live"
  BY <1>2, <1>3 DEF Fate, GroupExists
<1> QED
  BY <1>1, <1>4, OneLife DEF Life, StateOf

\* What a signal does not change.
LEMMA SignalsKeepFates ==
    ASSUME NEW r, NEW p \in ProcessRecord, NEW g \in GroupRecord, NEW signal
    PROVE  /\ Fate(p, Signal(g, signal)) = Fate(p, g)
           /\ Fate(p, Continue(g)) = Fate(p, g)
           /\ Fate(Deadline(p), Terminate(r, g)) = Fate(p, g)
           /\ Fate([Deadline(p) EXCEPT !.forceKillSent = TRUE], Signal(g, signal)) = Fate(p, g)
<1>1. ASSUME NEW h \in GroupRecord, NEW s
      PROVE  /\ Signal(h, s).compositor = h.compositor /\ Signal(h, s).supervisor = h.supervisor
             /\ Signal(h, s).applications = h.applications
  BY DEF Signal, GroupRecord
<1>2. /\ Continue(g) \in GroupRecord /\ Continue(g).compositor = g.compositor
      /\ Continue(g).supervisor = g.supervisor /\ Continue(g).applications = g.applications
  BY DEF Continue, GroupRecord
<1>3. /\ Terminate(r, g).compositor = g.compositor /\ Terminate(r, g).supervisor = g.supervisor
      /\ Terminate(r, g).applications = g.applications
  BY <1>1, <1>2 DEF Terminate
<1> DEFINE d == Deadline(p)
           k == [d EXCEPT !.forceKillSent = TRUE]
<1>4. d \in ProcessRecord /\ d.present = p.present /\ d.applications = p.applications
  BY DEF Deadline, ProcessRecord
<1> HIDE DEF d
<1>5. k.present = p.present /\ k.applications = p.applications
  BY <1>4 DEF ProcessRecord
<1> HIDE DEF k
<1>6. Fate(p, Signal(g, signal)) = Fate(p, g) /\ Fate(k, Signal(g, signal)) = Fate(p, g)
  BY <1>1, <1>5, SameFate
<1>7. Fate(p, Continue(g)) = Fate(p, g) /\ Fate(d, Terminate(r, g)) = Fate(p, g)
  BY <1>2, <1>3, <1>4, SameFate
<1> QED
  BY <1>6, <1>7 DEF d, k

\* A realm that an action leaves in m_realms, or does not touch.
LEMMA LifeAt ==
    ASSUME NEW i \in RealmIDs, UNCHANGED realms, NEW r, NEW p, NEW g,
           realm'[i] = r, process'[i] = p, group'[i] = g,
           \/ i \in realms /\ Life(realm[i].state, Fate(process[i], group[i]), r.state, Fate(p, g))
           \/ r.state = realm[i].state /\ Fate(p, g) = Fate(process[i], group[i])
    PROVE  Life(StateOf(i), Fate(process[i], group[i]), StateOf(i)', Fate(process[i], group[i])')
<1>1. Fate(process[i], group[i])' = Fate(p, g)
  BY DEF Fate, GroupExists, Executing
<1>2. StateOf(i)' = (IF i \in realms THEN r.state ELSE "NONE")
  BY DEF StateOf
<1>3. CASE i \in realms /\ Life(realm[i].state, Fate(process[i], group[i]), r.state, Fate(p, g))
  BY <1>1, <1>2, <1>3 DEF StateOf
<1>4. CASE r.state = realm[i].state /\ Fate(p, g) = Fate(process[i], group[i])
  BY <1>1, <1>2, <1>4 DEF StateOf, Life
<1> QED
  BY <1>3, <1>4

\* A realm that can be signalled is live.
LEMMA SignallableIsLive ==
    ASSUME NEW i \in RealmIDs, Signallable(i)
    PROVE  Fate(process[i], group[i]) = "live"
BY DEF Signallable, Fate

LEMMA PauseLife ==
    ASSUME AllSound, NEW requested, PauseRealms(requested)
    PROVE  EveryLife
<1> DEFINE paused == {i \in requested \cap realms : CanPause(i)}
<1>1. /\ realm' = [i \in RealmIDs |->
                     IF i \in paused THEN Paused(realm[i]) ELSE realm[i]]
      /\ group' = [i \in RealmIDs |->
                     IF i \in paused THEN Signal(group[i], "STOP") ELSE group[i]]
      /\ process' = process /\ UNCHANGED realms
  BY DEF PauseRealms
<1>2. \A i \in paused : realm[i].state = "RUNNING" /\ Signallable(i) /\ i \in realms
  BY DEF CanPause
<1> HIDE DEF paused
<1> SUFFICES ASSUME NEW i \in RealmIDs
             PROVE  Life(StateOf(i), Fate(process[i], group[i]), StateOf(i)', Fate(process[i], group[i])')
  BY DEF EveryLife
<1>3. CASE i \in paused
  <2>1. /\ realm'[i] = Paused(realm[i]) /\ process'[i] = process[i]
        /\ group'[i] = Signal(group[i], "STOP")
    BY <1>1, <1>3
  <2>2. TransitionTo(realm[i], "PAUSED") = [realm[i] EXCEPT !.state = "PAUSED"]
    BY <1>2, <1>3, Untouched, Moves DEF CanMove, Transitions, States, Events
  <2>3. Paused(realm[i]).state = "PAUSED"
    BY <2>2, Untouched DEF Paused, Emit, SetInputOwner, RealmRecord
  <2>4. /\ Fate(process[i], group[i]) = "live"
        /\ Fate(process[i], Signal(group[i], "STOP")) = "live"
    <3>1. process[i] \in ProcessRecord /\ group[i] \in GroupRecord
      BY Untouched
    <3>2. Fate(process[i], Signal(group[i], "STOP")) = Fate(process[i], group[i])
      BY <3>1, SignalsKeepFates
    <3>3. Fate(process[i], group[i]) = "live"
      BY <1>2, <1>3, SignallableIsLive
    <3> QED
      BY <3>2, <3>3
  <2>5. Life(realm[i].state, Fate(process[i], group[i]),
             Paused(realm[i]).state, Fate(process[i], Signal(group[i], "STOP")))
    BY <1>2, <1>3, <2>3, <2>4 DEF Life
  <2> QED
    BY <1>1, <1>2, <1>3, <2>1, <2>5, LifeAt
<1>4. CASE i \notin paused
  <2>1. realm'[i] = realm[i] /\ process'[i] = process[i] /\ group'[i] = group[i]
    BY <1>1, <1>4
  <2> QED
    BY <1>1, <2>1, LifeAt
<1> QED
  BY <1>3, <1>4

LEMMA ResumeLife ==
    ASSUME AllSound, NEW i \in RealmIDs, ResumeRealm(i)
    PROVE  EveryLife
<1> DEFINE r == Emit(SetInputOwner(TransitionTo(realm[i], "RUNNING"), "AGENT"), "RESUMED")
           g == Continue(group[i])
<1>1. /\ realm' = [realm EXCEPT ![i] = r] /\ UNCHANGED realms
      /\ process' = [process EXCEPT ![i] = process[i]]
      /\ group' = [group EXCEPT ![i] = g]
      /\ i \in realms /\ realm[i].state = "PAUSED" /\ Signallable(i)
  BY Untouched DEF ResumeRealm
<1>2. TransitionTo(realm[i], "RUNNING") = [realm[i] EXCEPT !.state = "RUNNING"]
  BY <1>1, Untouched, Moves DEF CanMove, Transitions, States, Events
<1>3. r.state = "RUNNING"
  BY <1>2, Untouched DEF Emit, SetInputOwner, RealmRecord
<1>4. Fate(process[i], group[i]) = "live" /\ Fate(process[i], g) = "live"
  BY <1>1, Untouched, SignallableIsLive, SignalsKeepFates
<1> HIDE DEF r, g
<1>5. Life(StateOf(i), Fate(process[i], group[i]), IF i \in realms THEN r.state ELSE "NONE",
           Fate(process[i], g))
  BY <1>1, <1>3, <1>4 DEF Life, StateOf
<1> QED
  BY <1>1, <1>5, OneLife

\* stopRealm and killRealm.
LEMMA StopLife ==
    ASSUME AllSound, NEW i \in RealmIDs, StopRealm(i) \/ KillRealm(i)
    PROVE  EveryLife
<1> DEFINE d == Deadline(process[i])
           k == [d EXCEPT !.forceKillSent = TRUE]
           kill == Signal(group[i], "KILL")
           term == Terminate(realm[i], group[i])
           stop == Revoked(TransitionTo(realm[i], "STOPPING"))
           keep == Revoked(realm[i])
<1>1. i \in realms /\ UNCHANGED realms /\ Fate(process[i], group[i]) = "live"
  BY SignallableIsLive DEF StopRealm, KillRealm
<1>2. Fate(d, term) = "live" /\ Fate(k, kill) = "live"
  <2>1. process[i] \in ProcessRecord /\ group[i] \in GroupRecord
    BY Untouched
  <2>2. Fate(d, term) = Fate(process[i], group[i])
    BY <2>1, SignalsKeepFates
  <2>3. Fate(k, kill) = Fate(process[i], group[i])
    BY <2>1, SignalsKeepFates
  <2> QED
    BY <1>1, <2>2, <2>3
<1>3. realm[i].state \in Live => stop.state = "STOPPING"
  BY Untouched, StoppingRealm
<1>4. keep.state = realm[i].state
  BY Untouched DEF Revoked, SetObservation, SetInputOwner, RealmRecord
<1>5. CASE StopRealm(i)
  <2>1. /\ realm' = [realm EXCEPT ![i] = stop]
        /\ process' = [process EXCEPT ![i] = d]
        /\ group' = [group EXCEPT ![i] = term]
        /\ realm[i].state \in Live
    BY <1>5 DEF StopRealm, Live
  <2> HIDE DEF d, k, kill, term, stop, keep
  <2>2. Life(StateOf(i), Fate(process[i], group[i]), IF i \in realms THEN stop.state ELSE "NONE",
             Fate(d, term))
    BY <1>1, <1>2, <1>3, <2>1 DEF Life, StateOf
  <2> QED
    BY <1>1, <2>1, <2>2, OneLife
<1>6. CASE KillRealm(i) /\ realm[i].state \in Live
  <2>1. /\ realm' = [realm EXCEPT ![i] = stop]
        /\ process' = [process EXCEPT ![i] = k]
        /\ group' = [group EXCEPT ![i] = kill]
    BY <1>6 DEF KillRealm, Live
  <2> HIDE DEF d, k, kill, term, stop, keep
  <2>2. Life(StateOf(i), Fate(process[i], group[i]), IF i \in realms THEN stop.state ELSE "NONE",
             Fate(k, kill))
    BY <1>1, <1>2, <1>3, <1>6 DEF Life, StateOf
  <2> QED
    BY <1>1, <2>1, <2>2, OneLife
<1>7. CASE KillRealm(i) /\ realm[i].state \notin Live
  <2>1. /\ realm' = [realm EXCEPT ![i] = keep]
        /\ process' = [process EXCEPT ![i] = k]
        /\ group' = [group EXCEPT ![i] = kill]
    BY <1>7 DEF KillRealm, Live
  <2> HIDE DEF d, k, kill, term, stop, keep
  <2>2. Life(StateOf(i), Fate(process[i], group[i]), IF i \in realms THEN keep.state ELSE "NONE",
             Fate(k, kill))
    BY <1>1, <1>2, <1>4 DEF Life, StateOf
  <2> QED
    BY <1>1, <2>1, <2>2, OneLife
<1> QED
  BY <1>5, <1>6, <1>7

\* The poll adds no application to an entry and brings none of a group back.
LEMMA PollTakesAway ==
    ASSUME NEW r, NEW p \in ProcessRecord, NEW g \in GroupRecord
    PROVE  LET q == DispatchedProcess(r, p, g)
               h == DispatchedGroup(r, p, g)
           IN  /\ q.applications \subseteq p.applications
               /\ q.present => h.supervisor = g.supervisor
               /\ GroupExists(q, h) => GroupExists(p, g)
<1> DEFINE a == Reaped(p, g)
           d == Deadline(a)
           n == Noticed(r, p, g)
           e == Deadline(n)
           k == [e EXCEPT !.forceKillSent = TRUE]
           q == DispatchedProcess(r, p, g)
           h == DispatchedGroup(r, p, g)
           left == IF CleanedUp(n, g) THEN "none" ELSE g.supervisor
           sent == h.signals
<1>1. a \in ProcessRecord /\ a.applications \subseteq p.applications
  BY DEF Reaped, ProcessRecord, GroupRecord
<1> HIDE DEF a
<1>2. d \in ProcessRecord /\ d.applications = a.applications
  BY <1>1 DEF Deadline, ProcessRecord
<1> HIDE DEF d
<1>3. n \in ProcessRecord
  BY NoticedProcess
<1>4. n.applications = a.applications
  <2>1. CASE Finding(r, p, g) = "exit"
    <3>1. n = [d EXCEPT !.exitReceived = TRUE]
      BY <2>1 DEF Noticed, d, a
    <3> QED
      BY <1>2, <3>1 DEF ProcessRecord
  <2>2. CASE Finding(r, p, g) = "overdue"
    <3>1. n = [d EXCEPT !.failOnExit = TRUE]
      BY <2>2 DEF Noticed, d, a
    <3> QED
      BY <1>2, <3>1 DEF ProcessRecord
  <2>3. CASE Finding(r, p, g) \notin {"exit", "overdue"}
    BY <2>3 DEF Noticed, a
  <2> QED
    BY <2>1, <2>2, <2>3
<1>5. q = IF CleanedUp(n, g) THEN NoProcess ELSE IF ForceKillDue(n, g) THEN k ELSE n
  BY DEF DispatchedProcess
<1>6. h.compositor = g.compositor /\ h.applications = g.applications
  BY DispatchedGroupIs
<1>7. h.supervisor \in {"none", g.supervisor}
  <2>1. h.supervisor = left
    BY DEF DispatchedGroup, GroupRecord
  <2> QED
    BY <2>1
<1>8. q.present => h.supervisor = g.supervisor
  BY DispatchedMore
<1> HIDE DEF n, q, h
<1>9. e \in ProcessRecord /\ e.applications = n.applications
  BY <1>3 DEF Deadline, ProcessRecord
<1> HIDE DEF e
<1>10. k.applications = n.applications
  BY <1>9 DEF ProcessRecord
<1> HIDE DEF k
<1>11. q.applications \subseteq p.applications
  BY <1>1, <1>4, <1>5, <1>10 DEF NoProcess
<1>12. GroupExists(q, h) => GroupExists(p, g)
  BY <1>6, <1>7, <1>11 DEF GroupExists, Executing
<1> QED
  BY <1>8, <1>11, <1>12 DEF q, h

\* One pass of the poll over one supervised realm.
LEMMA PollLives ==
    ASSUME NEW r \in RealmRecord, NEW p \in ProcessRecord, NEW g \in GroupRecord,
           NEW exists, NEW over, Sound(r, p, g, exists, over), p.present,
           ExitIsOpen(r, p), Lasting(p, g)
    PROVE  Life(r.state, Fate(p, g), DispatchedRealm(r, p, g).state,
                Fate(DispatchedProcess(r, p, g), DispatchedGroup(r, p, g)))
<1> DEFINE f == Finding(r, p, g)
           n == Noticed(r, p, g)
           s == DispatchedRealm(r, p, g)
           q == DispatchedProcess(r, p, g)
           h == DispatchedGroup(r, p, g)
<1>1. /\ f \in {"exit", "ready", "overdue", "nothing"}
      /\ f = "exit" => ~p.exitReceived
      /\ f \in {"ready", "overdue"} => r.state = "CREATING"
  BY Findings
<1>2. n.exitReceived = (p.exitReceived \/ f = "exit") /\ n.present = p.present
  BY NoticedProcess
<1>3. /\ q \in ProcessRecord
      /\ CleanedUp(n, g) => q = NoProcess
      /\ ~CleanedUp(n, g) => q.present
  BY <1>2, DispatchedProcessIs
<1>4. q.present => h.supervisor = g.supervisor
  BY PollTakesAway
<1>5. GroupExists(q, h) => GroupExists(p, g)
  BY PollTakesAway
<1>6. h.compositor = g.compositor /\ h.applications = g.applications
  BY DispatchedGroupIs
<1>7. p.failOnExit => r.state = "FAILED"
  BY DEF Sound
<1>8. s.state = (IF f = "exit" THEN DispatchedRealm(r, p, g).state
                 ELSE IF f = "ready" THEN "RUNNING" ELSE IF f = "overdue" THEN "FAILED" ELSE r.state)
  BY <1>1, <1>7, DispatchedRealmIs
<1>9. f = "exit" => (r.state \in Active => s.state = Verdict(r.state))
                    /\ (r.state \in Idle => s.state = r.state)
  <2>1. SUFFICES ASSUME f = "exit"
                 PROVE  (r.state \in Active => s.state = Verdict(r.state))
                        /\ (r.state \in Idle => s.state = r.state)
    OBVIOUS
  <2>2. s = ExitHandled(r, p, ReportedCode(g)) /\ ReportedCode(g) \in ExitCodes
    BY <2>1 DEF DispatchedRealm, ReportedCode, ExitCodes
  <2> HIDE DEF s
  <2>3. /\ r.state = "STOPPING" => s.state = "STOPPED"
        /\ r.state \in Live => s.state = "FAILED"
        /\ r.state \in Idle => s.state = r.state
    BY <1>7, <2>2, ExitJudges
  <2> QED
    BY <2>3 DEF Active, Live, Verdict
<1>10. f = "nothing" => s = r
  BY <1>1 DEF DispatchedRealm
<1>11. r.state \in States
  BY DEF RealmRecord
<1>12. CleanedUp(n, g) => n.exitReceived
  BY DEF CleanedUp
<1>13. r.state \in Active => ~p.exitReceived
  BY DEF Sound
<1>14. f # "exit" /\ ~p.exitReceived => g.supervisor = "watching"
  BY DEF Finding, Lasting, GroupRecord
<1>15. g.compositor \in {"alive", "exited"}
  BY DEF Lasting, GroupRecord
<1> HIDE DEF f, n, s, q, h
<1> SUFFICES Life(r.state, Fate(p, g), s.state, Fate(q, h))
  BY DEF s, q, h
<1>16. /\ Fate(p, g) \in {"live", "gone"}
       /\ Fate(q, h) \in {Fate(p, g), "gone", "none"}
       /\ q.present => Fate(q, h) = Fate(p, g) \/ (Fate(p, g) = "live" /\ Fate(q, h) = "gone")
  BY <1>3, <1>5 DEF Fate
<1>17. ~q.present => Fate(q, h) = "none"
  BY DEF Fate
<1>18. ~q.present => n.exitReceived
  BY <1>3, <1>12
<1>19. CASE f = "exit"
  <2>1. r.state # "STOPPED"
    BY <1>1, <1>19 DEF ExitIsOpen
  <2>2. CASE r.state \in Active
    BY <1>9, <1>16, <1>19, <2>2 DEF Life
  <2>3. CASE r.state = "FAILED"
    BY <1>9, <1>16, <1>17, <1>19, <2>3 DEF Life, Idle
  <2> QED
    BY <1>11, <2>1, <2>2, <2>3 DEF States, Active
<1>20. CASE f = "ready"
  <2>1. r.state = "CREATING" /\ ~p.exitReceived
    BY <1>1, <1>13, <1>20 DEF Active
  <2>2. q.present /\ h.supervisor = "watching"
    BY <1>2, <1>4, <1>14, <1>18, <1>20, <2>1
  <2>3. Fate(p, g) = "live" /\ Fate(q, h) = "live"
    BY <1>6, <1>14, <1>15, <1>20, <2>1, <2>2 DEF Fate, GroupExists, Executing
  <2> QED
    BY <1>8, <1>20, <2>1, <2>3 DEF Life
<1>21. CASE f = "overdue"
  BY <1>1, <1>8, <1>16, <1>21 DEF Life, Active, Verdict
<1>22. CASE f = "nothing"
  <2>1. CASE q.present
    BY <1>10, <1>16, <1>22, <2>1 DEF Life
  <2>2. CASE ~q.present
    <3>1. r.state \in Idle
      BY <1>2, <1>11, <1>13, <1>18, <1>22, <2>2 DEF States, Active, Idle
    <3> QED
      BY <1>10, <1>16, <1>17, <1>22, <2>2, <3>1 DEF Life
  <2> QED
    BY <2>1, <2>2
<1> QED
  BY <1>1, <1>19, <1>20, <1>21, <1>22

LEMMA DispatchLife ==
    ASSUME AllSound, StepInv, LivenessInv, DispatchPendingEvents
    PROVE  EveryLife
<1> SUFFICES ASSUME NEW i \in RealmIDs
             PROVE  Life(StateOf(i), Fate(process[i], group[i]), StateOf(i)', Fate(process[i], group[i])')
  BY DEF EveryLife
<1>1. UNCHANGED realms
  BY DEF DispatchPendingEvents
<1>2. CASE process[i].present
  <2> DEFINE r == DispatchedRealm(realm[i], process[i], group[i])
             p == DispatchedProcess(realm[i], process[i], group[i])
             g == DispatchedGroup(realm[i], process[i], group[i])
  <2>1. realm'[i] = r /\ process'[i] = p /\ group'[i] = g
    BY <1>2 DEF DispatchPendingEvents
  <2>2. Life(realm[i].state, Fate(process[i], group[i]), r.state, Fate(p, g))
    <3>1. ExitIsOpen(realm[i], process[i])
      BY DEF StepInv
    <3> QED
      BY <1>2, <3>1, KnownToLast, PollLives
  <2>3. i \in realms
    BY <1>2, KnownToLast DEF Sound
  <2> HIDE DEF r, p, g
  <2> QED
    BY <1>1, <2>1, <2>2, <2>3, LifeAt
<1>3. CASE ~process[i].present
  <2>1. realm'[i] = realm[i] /\ process'[i] = process[i] /\ group'[i] = group[i]
    BY <1>3 DEF DispatchPendingEvents
  <2> QED
    BY <1>1, <2>1, LifeAt
<1> QED
  BY <1>2, <1>3

\* The three rounds of shutdownAll.
LEMMA ShutdownLife ==
    ASSUME AllSound, Quiet, ShutdownBegin \/ ShutdownKill \/ ShutdownFinish
    PROVE  EveryLife
<1> SUFFICES ASSUME NEW i \in RealmIDs
             PROVE  Life(StateOf(i), Fate(process[i], group[i]), StateOf(i)', Fate(process[i], group[i])')
  BY DEF EveryLife
<1>1. /\ realm[i] \in RealmRecord /\ process[i] \in ProcessRecord /\ group[i] \in GroupRecord
      /\ Sound(realm[i], process[i], group[i], i \in realms, shutdown = "done")
      /\ UNCHANGED realms
  BY Untouched DEF ShutdownBegin, ShutdownKill, ShutdownFinish
<1>2. process[i].present => i \in realms
  BY <1>1 DEF Sound
<1>3. CASE ShutdownBegin
  <2>1. CASE ~process[i].present
    <3>1. realm'[i] = realm[i] /\ process'[i] = process[i] /\ group'[i] = group[i]
      BY <1>3, <2>1 DEF ShutdownBegin
    <3> QED
      BY <1>1, <3>1, LifeAt
  <2>2. CASE process[i].present
    <3> DEFINE stop == Revoked(TransitionTo(realm[i], "STOPPING"))
               p == Deadline(process[i])
               g == Terminate(realm[i], group[i])
    <3>1. process'[i] = p /\ group'[i] = g
      BY <1>3, <2>2 DEF ShutdownBegin
    <3>2. Fate(p, g) = Fate(process[i], group[i])
      BY <1>1, SignalsKeepFates
    <3> HIDE DEF p, g
    <3>3. CASE realm[i].state \in Live
      <4>1. realm'[i] = stop
        BY <1>3, <2>2, <3>3 DEF ShutdownBegin, Live
      <4>2. stop.state = "STOPPING"
        BY <1>1, <3>3, StoppingRealm
      <4>3. Fate(process[i], group[i]) \in {"live", "gone"}
        BY <2>2 DEF Fate
      <4> HIDE DEF stop
      <4>4. Life(realm[i].state, Fate(process[i], group[i]), stop.state, Fate(p, g))
        BY <3>2, <3>3, <4>2, <4>3 DEF Life
      <4> QED
        BY <1>1, <1>2, <2>2, <3>1, <4>1, <4>4, LifeAt
    <3>4. CASE realm[i].state \notin Live
      <4>1. realm'[i] = realm[i]
        BY <1>3, <3>4 DEF ShutdownBegin, Live
      <4> QED
        BY <1>1, <3>1, <3>2, <4>1, LifeAt
    <3> QED
      BY <3>3, <3>4
  <2> QED
    BY <2>1, <2>2
<1>4. CASE ShutdownKill
  <2>1. /\ realm'[i] = realm[i] /\ process'[i] = process[i]
        /\ group'[i] \in {group[i], Signal(group[i], "KILL")}
    BY <1>4 DEF ShutdownKill
  <2>2. Fate(process[i], Signal(group[i], "KILL")) = Fate(process[i], group[i])
    BY <1>1, SignalsKeepFates
  <2> QED
    BY <1>1, <2>1, <2>2, LifeAt
<1>5. CASE ShutdownFinish
  <2>1. process'[i] = NoProcess
    BY <1>5 DEF ShutdownFinish
  <2>2. \A g : Fate(NoProcess, g) = "none"
    BY DEF Fate, NoProcess
  <2>3. PICK keeping \in SUBSET realms :
           realm' = [j \in RealmIDs |->
              LET o == IF ~process[j].present THEN realm[j]
                       ELSE IF realm[j].state = "STOPPING"
                       THEN MoveAndEmit(ForgetPID(realm[j]), "STOPPED", "STOPPED")
                       ELSE ForgetPID(realm[j])
              IN  [o EXCEPT !.runtime = @ /\ j \in keeping]]
    BY <1>5 DEF ShutdownFinish
  <2> DEFINE r == realm[i]
             kept == i \in keeping
             m == MoveAndEmit(ForgetPID(r), "STOPPED", "STOPPED")
             f == IF r.state = "STOPPING" THEN m ELSE ForgetPID(r)
             x == [f EXCEPT !.runtime = @ /\ kept]
             y == [r EXCEPT !.runtime = @ /\ kept]
  <2>4. r.state \notin Live
    BY <1>5 DEF Quiet, ShutdownFinish
  <2>5. r \in RealmRecord /\ kept \in BOOLEAN
    BY <1>1
  <2>6. realm'[i] = IF process[i].present THEN x ELSE y
    BY <2>3
  <2> HIDE DEF r, kept
  <2>7. x.state = (IF r.state = "STOPPING" THEN "STOPPED" ELSE r.state)
    BY <2>5, FinishedRealm, Zenon
  <2>8. y.state = r.state
    BY <2>5 DEF RealmRecord
  <2> HIDE DEF x, y
  <2>9. CASE ~process[i].present
    <3>1. Fate(process[i], group[i]) = "none"
      BY <2>9 DEF Fate
    <3>2. y.state = realm[i].state /\ realm'[i] = y
      BY <2>6, <2>8, <2>9 DEF r
    <3> QED
      BY <1>1, <2>1, <2>2, <3>1, <3>2, LifeAt
  <2>10. CASE process[i].present
    <3>1. Fate(process[i], group[i]) \in {"live", "gone"}
      BY <2>10 DEF Fate
    <3>2. r.state \in States
      BY <2>5 DEF RealmRecord
    <3>3. Life(r.state, Fate(process[i], group[i]), x.state, "none")
      BY <2>4, <2>7, <3>1, <3>2 DEF Life, States, Live, Idle, Active, Verdict
    <3>4. /\ realm'[i] = x /\ Fate(process'[i], group'[i]) = "none"
          /\ Life(realm[i].state, Fate(process[i], group[i]), x.state, Fate(process'[i], group'[i]))
      BY <2>1, <2>2, <2>6, <2>10, <3>3 DEF r
    <3> QED
      BY <1>1, <1>2, <2>10, <3>4, LifeAt
  <2> QED
    BY <2>9, <2>10
<1> QED
  BY <1>3, <1>4, <1>5

\* Processes die and report, clocks advance.
LEMMA SystemLife ==
    ASSUME AllSound, NEW i \in RealmIDs, OperatingSystem(i)
    PROVE  EveryLife
<1>1. realm[i] \in RealmRecord /\ process[i] \in ProcessRecord /\ group[i] \in GroupRecord
  BY Untouched
<1>2. ASSUME NEW s, NEW v, v = Fate(process[i], group[i]) \/ (Fate(process[i], group[i]) = "live" /\ v = "gone")
      PROVE  Life(s, Fate(process[i], group[i]), s, v)
  BY <1>2 DEF Life
<1>3. ASSUME NEW g, UpdateGroup(i, g),
             \/ g.compositor = group[i].compositor
             \/ /\ group[i].compositor = "alive" /\ g.compositor = "exited"
                /\ g.supervisor = group[i].supervisor,
             g.applications \subseteq group[i].applications,
             g.supervisor = "watching" => group[i].supervisor = "watching"
      PROVE  EveryLife
  <2>1. /\ realm' = [realm EXCEPT ![i] = realm[i]] /\ UNCHANGED realms
        /\ process' = [process EXCEPT ![i] = process[i]]
        /\ group' = [group EXCEPT ![i] = g]
    BY <1>3, Untouched DEF UpdateGroup
  <2>2. GroupExists(process[i], g) => GroupExists(process[i], group[i])
    BY <1>3 DEF GroupExists, Executing
  <2>3. \/ Fate(process[i], g) = Fate(process[i], group[i])
        \/ Fate(process[i], group[i]) = "live" /\ Fate(process[i], g) = "gone"
    BY <2>2 DEF Fate
  <2>4. Life(StateOf(i), Fate(process[i], group[i]), IF i \in realms THEN realm[i].state ELSE "NONE",
             Fate(process[i], g))
    BY <1>2, <2>3 DEF StateOf
  <2> QED
    BY <2>1, <2>4, OneLife
<1>4. ASSUME NEW p, UpdateProcess(i, p), p.present = process[i].present,
             p.applications = process[i].applications
      PROVE  EveryLife
  <2>1. /\ realm' = [realm EXCEPT ![i] = realm[i]] /\ UNCHANGED realms
        /\ process' = [process EXCEPT ![i] = p]
        /\ group' = [group EXCEPT ![i] = group[i]]
    BY <1>4, Untouched DEF UpdateProcess
  <2>2. Fate(p, group[i]) = Fate(process[i], group[i])
    BY <1>4, SameFate
  <2>3. Life(StateOf(i), Fate(process[i], group[i]), IF i \in realms THEN realm[i].state ELSE "NONE",
             Fate(p, group[i]))
    BY <1>2, <2>2 DEF StateOf
  <2> QED
    BY <2>1, <2>3, OneLife
<1>5. CASE PublishDisplay(i)
  BY <1>1, <1>3, <1>5 DEF PublishDisplay, GroupRecord
<1>6. CASE CompositorExits(i)
  BY <1>1, <1>3, <1>6 DEF CompositorExits, GroupRecord
<1>7. CASE \E a \in Applications : ApplicationExits(i, a)
  BY <1>1, <1>3, <1>7 DEF ApplicationExits, GroupRecord
<1>8. CASE SupervisorReports(i)
  BY <1>1, <1>3, <1>8 DEF SupervisorReports, GroupRecord
<1>9. CASE SupervisorExits(i)
  BY <1>1, <1>3, <1>9 DEF SupervisorExits, GroupRecord
<1>10. CASE SupervisorCrashes(i)
  BY <1>1, <1>3, <1>10 DEF SupervisorCrashes, GroupRecord
<1>11. CASE StartupDeadlinePasses(i)
  BY <1>1, <1>4, <1>11 DEF StartupDeadlinePasses, ProcessRecord
<1>12. CASE TerminationDeadlinePasses(i)
  BY <1>1, <1>4, <1>12 DEF TerminationDeadlinePasses, ProcessRecord
<1>13. CASE StrayExits(i)
  BY <1>1, <1>3, <1>13 DEF StrayExits, GroupRecord
<1> QED
  BY <1>5, <1>6, <1>7, <1>8, <1>9, <1>10, <1>11, <1>12, <1>13 DEF OperatingSystem

LEMMA NextLife ==
    ASSUME IInv, StepInv, LivenessInv, [Next]_vars
    PROVE  EveryLife
<1>1. AllSound /\ Quiet
  BY DEF IInv
<1>2. CASE UNCHANGED vars
  BY <1>2, LifeAt DEF vars, EveryLife
<1>3. ASSUME NEW i \in RealmIDs, Request(i) PROVE EveryLife
  <2>1. CASE PauseRealm(i)
    BY <1>1, <2>1, PauseLife DEF PauseRealm
  <2>2. CASE \E a \in Applications : OpenApplication(i, a)
    BY <1>1, <2>2, OpenLife
  <2>3. CASE CreateRealm(i) \/ DestroyRealm(i)
    BY <1>1, <2>3, RenewLife
  <2>4. CASE StartRealm(i) \/ ResumeRealm(i) \/ StopRealm(i) \/ KillRealm(i)
    BY <1>1, <2>4, StartLife, ResumeLife, StopLife
  <2>5. CASE \/ TakeoverRealm(i) \/ ReleaseRealm(i) \/ AllowObservation(i) \/ DenyObservation(i)
             \/ \E c \in Capabilities : GrantCapability(i, c) \/ RevokeCapability(i, c)
    BY <1>1, <2>5, RecordLife
  <2> QED
    BY <1>3, <2>1, <2>2, <2>3, <2>4, <2>5 DEF Request
<1>4. CASE HostLoop
  BY <1>1, <1>4, PauseLife, DispatchLife, ShutdownLife DEF HostLoop, PauseAllRealms
<1> QED
  BY <1>1, <1>2, <1>3, <1>4, SystemLife DEF Next

(***************************************************************************)
(* What the tools of the MCP server assume of the realms of their host the *)
(* manager keeps, whatever the host does, however processes end and at any *)
(* moment: a realm changes its state and gains or loses its processes only *)
(* as RealmLifecycle has it.  In particular only a realm that is over can  *)
(* have its entry erased, a stop is asked of a live group or by shutdown,  *)
(* and a realm that is STOPPING ends STOPPED.                              *)
(***************************************************************************)
THEOREM LifecycleIsKept == Spec => KeepsLifecycle
<1> DEFINE keeps == \A i \in RealmIDs : Shown(i)' \in Lifecycle!MayBecome(Shown(i))
<1>1. Init => \A i \in RealmIDs : Lifecycle!MayCreate(Shown(i)) /\ Shown(i).process = "none"
  BY DEF Init, Shown, NoProcess, Lifecycle!MayCreate
<1>2. IInv /\ StepInv /\ LivenessInv /\ [Next]_vars => keeps
  <2> SUFFICES ASSUME IInv, StepInv, LivenessInv, [Next]_vars, NEW i \in RealmIDs
               PROVE  Shown(i)' \in Lifecycle!MayBecome(Shown(i))
    OBVIOUS
  <2>1. Shown(i) = [state |-> StateOf(i), process |-> Fate(process[i], group[i])]
    BY DEF Shown, StateOf, Fate
  <2>2. Shown(i)' = [state |-> StateOf(i)', process |-> Fate(process[i], group[i])']
    BY DEF Shown, StateOf, Fate
  <2>3. Life(StateOf(i), Fate(process[i], group[i]), StateOf(i)', Fate(process[i], group[i])')
    BY NextLife DEF EveryLife
  <2> QED
    BY <2>1, <2>2, <2>3, LifeIsLifecycle
<1>3. IInv /\ StepInv /\ LivenessInv /\ [Next]_vars => [keeps]_vars
  BY <1>2
<1> QED
  BY <1>1, <1>3, LivenessInvariance, PTL DEF Spec, KeepsLifecycle
=============================================================================
