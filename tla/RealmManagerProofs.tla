------------------------- MODULE RealmManagerProofs -------------------------
(***************************************************************************)
(* The safety invariants of RealmManager hold for every set of realms,     *)
(* applications and capabilities.  The inductive invariant IInv speaks of  *)
(* one realm at a time, so the proof has three layers: what an operation   *)
(* does to the three records of a realm, what an action does to the        *)
(* tables, and the temporal theorems.                                      *)
(***************************************************************************)
EXTENDS RealmManager, TLAPS

-----------------------------------------------------------------------------
(* The operations on records return records. *)

\* Transitions, events, revocation and a cleared process ID keep a realm's record.
LEMMA RealmOperations ==
    ASSUME NEW r \in RealmRecord, NEW to \in States, NEW event \in Events
    PROVE  /\ TransitionTo(r, to) \in RealmRecord
           /\ MoveAndEmit(r, to, event) \in RealmRecord
           /\ Emit(r, event) \in RealmRecord
           /\ Revoked(r) \in RealmRecord
           /\ ForgetPID(r) \in RealmRecord
<1>1. /\ TransitionTo(r, to) \in RealmRecord
      /\ MoveAndEmit(r, to, event) \in RealmRecord
      /\ Emit(r, event) \in RealmRecord
  BY DEF RealmRecord, TransitionTo, MoveAndEmit, Emit
<1>2. Revoked(r) \in RealmRecord
  BY DEF RealmRecord, Revoked, SetObservation, SetInputOwner, Owners
<1>3. ForgetPID(r) \in RealmRecord
  BY DEF RealmRecord, ForgetPID
<1> QED BY <1>1, <1>2, <1>3

\* setInputOwner and setObservation keep a realm's record.
LEMMA RealmFields ==
    ASSUME NEW r \in RealmRecord,
           NEW owner \in Owners, NEW permission \in {"ALLOWED", "DENIED"}
    PROVE  /\ SetInputOwner(r, owner) \in RealmRecord
           /\ SetObservation(r, permission) \in RealmRecord
BY DEF RealmRecord, SetInputOwner, SetObservation

\* Signals change nothing of a process group but what it was sent.
LEMMA GroupOperations ==
    ASSUME NEW r \in RealmRecord, NEW g \in GroupRecord,
           NEW signal \in {"STOP", "TERM", "KILL"}
    PROVE  /\ Signal(g, signal) \in GroupRecord
           /\ Continue(g) \in GroupRecord
           /\ Terminate(r, g) \in GroupRecord
BY DEF Signal, Continue, Terminate, GroupRecord

\* A deadline that is set leaves a record of a process.
LEMMA DeadlineType ==
    ASSUME NEW p \in ProcessRecord
    PROVE  Deadline(p) \in ProcessRecord
BY DEF Deadline, ProcessRecord

\* A new realm and the absence of a process are records of their kinds.
LEMMA FreshRecords ==
    /\ FreshRealm \in RealmRecord
    /\ NoProcess \in ProcessRecord
    /\ NoGroup \in GroupRecord
BY DEF FreshRealm, RealmRecord, States, Owners, ExitCodes, Events,
       NoProcess, ProcessRecord, NoGroup, GroupRecord

(* A permitted transition does what it says. *)
LEMMA Moves ==
    ASSUME NEW r \in RealmRecord, NEW to \in States, NEW event \in Events,
           CanMove(r, to)
    PROVE  /\ TransitionTo(r, to) = [r EXCEPT !.state = to]
           /\ MoveAndEmit(r, to, event)
                = [r EXCEPT !.state = to, !.announced = event]
BY DEF RealmRecord, TransitionTo, MoveAndEmit

-----------------------------------------------------------------------------
(* Tables: an action that leaves every realm's records sound. *)

\* What is sound in every realm is sound in the manager.
LEMMA Pointwise ==
    ASSUME AllSound,
           realm' \in [RealmIDs -> RealmRecord],
           process' \in [RealmIDs -> ProcessRecord],
           group' \in [RealmIDs -> GroupRecord],
           shutdown' \in Phases,
           UNCHANGED <<realms, issued>>,
           \A i \in RealmIDs :
              Sound(realm'[i], process'[i], group'[i], i \in realms, shutdown' = "done")
    PROVE  AllSound'
BY DEF AllSound, TypeOK

\* A step of one realm leaves the others sound.
LEMMA OneRealm ==
    ASSUME AllSound, NEW i \in RealmIDs,
           NEW r \in RealmRecord, NEW p \in ProcessRecord, NEW g \in GroupRecord,
           realm' = [realm EXCEPT ![i] = r],
           process' = [process EXCEPT ![i] = p],
           group' = [group EXCEPT ![i] = g],
           UNCHANGED <<realms, issued, shutdown>>,
           Sound(r, p, g, i \in realms, shutdown = "done")
    PROVE  AllSound'
<1>1. /\ realm' \in [RealmIDs -> RealmRecord]
      /\ process' \in [RealmIDs -> ProcessRecord]
      /\ group' \in [RealmIDs -> GroupRecord]
      /\ shutdown' \in Phases
  BY DEF AllSound, TypeOK
<1>2. ASSUME NEW j \in RealmIDs
      PROVE  Sound(realm'[j], process'[j], group'[j], j \in realms, shutdown' = "done")
  <2>1. CASE j = i
    <3>1. realm'[j] = r /\ process'[j] = p /\ group'[j] = g
      BY <2>1 DEF AllSound, TypeOK
    <3> QED BY <2>1, <3>1
  <2>2. CASE j # i
    <3>1. realm'[j] = realm[j] /\ process'[j] = process[j] /\ group'[j] = group[j]
      BY <2>2 DEF AllSound, TypeOK
    <3> QED BY <3>1 DEF AllSound
  <2> QED BY <2>1, <2>2
<1> QED BY <1>1, <1>2, Pointwise

\* A realm that is sound has records of the right kinds.
LEMMA Untouched ==
    ASSUME AllSound, NEW i \in RealmIDs
    PROVE  /\ realm = [realm EXCEPT ![i] = realm[i]]
           /\ process = [process EXCEPT ![i] = process[i]]
           /\ group = [group EXCEPT ![i] = group[i]]
           /\ realm[i] \in RealmRecord
           /\ process[i] \in ProcessRecord
           /\ group[i] \in GroupRecord
           /\ Sound(realm[i], process[i], group[i], i \in realms, shutdown = "done")
BY DEF AllSound, TypeOK

-----------------------------------------------------------------------------
(* Requests. *)

\* createRealm leaves a realm without a process.
LEMMA CreateSound ==
    ASSUME AllSound, NEW i \in RealmIDs, CreateRealm(i)
    PROVE  AllSound'
<1>1. TypeOK'
  BY FreshRecords DEF AllSound, CreateRealm, TypeOK
<1>2. ASSUME NEW j \in RealmIDs
      PROVE Sound(realm'[j], process'[j], group'[j], j \in realms', shutdown' = "done")
  <2>1. process'[j] = process[j] /\ group'[j] = group[j] /\ shutdown' = shutdown
    BY DEF CreateRealm
  <2>2. CASE j = i
    <3>1. realm'[j] = FreshRealm /\ j \in realms'
      BY <2>2 DEF CreateRealm, AllSound, TypeOK
    <3>2. ~(j \in realms)
      BY <2>2 DEF CreateRealm, AllSound
    <3>3. Sound(realm[j], process[j], group[j], j \in realms, shutdown = "done")
      BY Untouched
    <3>4. ~process[j].present
      BY <3>2, <3>3 DEF Sound
    <3> QED BY <2>1, <3>1, <3>3, <3>4 DEF Sound, FreshRealm, Active
  <2>3. CASE j # i
    <3>1. realm'[j] = realm[j] /\ (j \in realms' <=> j \in realms)
      BY <2>3 DEF CreateRealm, AllSound, TypeOK
    <3> QED BY <2>1, <3>1 DEF AllSound, Sound
  <2> QED BY <2>2, <2>3
<1> QED BY <1>1, <1>2 DEF AllSound, CreateRealm

\* destroyRealm removes only what has no process.
LEMMA DestroySound ==
    ASSUME AllSound, NEW i \in RealmIDs, DestroyRealm(i)
    PROVE  AllSound'
<1>1. TypeOK'
  BY FreshRecords DEF AllSound, DestroyRealm, TypeOK
<1>2. ASSUME NEW j \in RealmIDs
      PROVE Sound(realm'[j], process'[j], group'[j], j \in realms', shutdown' = "done")
  <2>1. process'[j] = process[j] /\ group'[j] = group[j] /\ shutdown' = shutdown
    BY DEF DestroyRealm
  <2>2. CASE j = i
    <3>1. realm'[j] = FreshRealm /\ ~process[j].present
      BY <2>2 DEF DestroyRealm, AllSound, TypeOK
    <3> QED BY <2>1, <3>1 DEF AllSound, Sound, FreshRealm, Active
  <2>3. CASE j # i
    <3>1. realm'[j] = realm[j] /\ (j \in realms' <=> j \in realms)
      BY <2>3 DEF DestroyRealm, AllSound, TypeOK
    <3> QED BY <2>1, <3>1 DEF AllSound, Sound
  <2> QED BY <2>2, <2>3
<1> QED BY <1>1, <1>2 DEF AllSound, DestroyRealm

(* A realm being created has no lease, no permission and no exit code. *)
LEMMA StartingRealm ==
    ASSUME NEW r \in RealmRecord, CanMove(r, "CREATING")
    PROVE  /\ Starting(r) \in RealmRecord
           /\ Starting(r).state = "CREATING"
           /\ Starting(r).inputOwner = "NONE"
           /\ Starting(r).observation = "DENIED"
           /\ Starting(r).compositorPID = r.compositorPID
           /\ r.state \in {"STOPPED", "FAILED"}
<1>1. TransitionTo(r, "CREATING") \in RealmRecord
  BY RealmOperations DEF States, Events
<1>2. TransitionTo(r, "CREATING") = [r EXCEPT !.state = "CREATING"]
  BY Moves DEF States, Events
<1>3. Starting(r) \in RealmRecord
  <2>1. Revoked(TransitionTo(r, "CREATING")) \in RealmRecord
    BY <1>1, RealmOperations DEF States, Events
  <2> QED BY <2>1 DEF Starting, RealmRecord, ExitCodes
<1>4. r.state \in {"STOPPED", "FAILED"}
  BY DEF CanMove, Transitions
<1> QED
  BY <1>2, <1>3, <1>4
  DEF Starting, Revoked, SetObservation, SetInputOwner, RealmRecord

(* A start that failed before the compositor ran. *)
LEMMA FailedStart ==
    ASSUME NEW r \in RealmRecord, CanMove(r, "CREATING"),
           NEW left \in BOOLEAN
    PROVE  LET f == [MoveAndEmit(Starting(r), "FAILED", "FAILED") EXCEPT !.runtime = left]
           IN  /\ f \in RealmRecord
               /\ f.state = "FAILED" /\ f.inputOwner = "NONE" /\ f.observation = "DENIED"
               /\ f.compositorPID = r.compositorPID
               /\ f.runtime = left
<1> DEFINE m == MoveAndEmit(Starting(r), "FAILED", "FAILED")
<1>1. Starting(r) \in RealmRecord /\ Starting(r).state = "CREATING"
  BY StartingRealm
<1>2. CanMove(Starting(r), "FAILED")
  BY <1>1 DEF CanMove, Transitions
<1>3. m = [Starting(r) EXCEPT !.state = "FAILED", !.announced = "FAILED"]
  BY <1>1, <1>2, Moves DEF States, Events
<1>4. m \in RealmRecord
  BY <1>1, RealmOperations DEF States, Events
<1>5. /\ m.state = "FAILED" /\ m.inputOwner = "NONE" /\ m.observation = "DENIED"
      /\ m.compositorPID = r.compositorPID
  BY <1>1, <1>3, StartingRealm DEF RealmRecord
<1> HIDE DEF m
<1>6. [m EXCEPT !.runtime = left] \in RealmRecord
  BY <1>4 DEF RealmRecord
<1>7. LET f == [m EXCEPT !.runtime = left]
      IN  /\ f.state = m.state /\ f.inputOwner = m.inputOwner
          /\ f.observation = m.observation /\ f.compositorPID = m.compositorPID
          /\ f.runtime = left
  BY <1>4 DEF RealmRecord
<1> QED BY <1>5, <1>6, <1>7 DEF m

\* What failed starts make of a group: none, or one more stray compositor beside it.
LEMMA StrayGroup ==
    ASSUME NEW g \in GroupRecord, NEW stray \in BOOLEAN
    PROVE  LET h == [g EXCEPT !.stray = stray]
           IN  /\ h \in GroupRecord
               /\ h.compositor = g.compositor /\ h.published = g.published
               /\ h.applications = g.applications /\ h.signals = g.signals
               /\ h.supervisor = g.supervisor
               /\ Executing(h) <=> Executing(g)
BY DEF GroupRecord, Executing

\* The group of a new compositor.
LEMMA NewGroups ==
    ASSUME NEW g \in GroupRecord, NEW compositor \in {"alive", "exited"}
    PROVE  LET h == NewGroup(g, compositor)
           IN  /\ h \in GroupRecord
               /\ h.compositor = compositor /\ h.supervisor = "watching"
               /\ h.applications = {} /\ h.signals = {}
               /\ Executing(h) <=> compositor = "alive"
BY DEF NewGroup, NoGroup, GroupRecord, Executing

\* What StartUnprepared and StartUnlaunched have in common.
LEMMA FailedStarts ==
    ASSUME AllSound, NEW i \in RealmIDs, StartUnprepared(i) \/ StartUnlaunched(i)
    PROVE  /\ MayStart(i) /\ UNCHANGED <<realms, issued, process, shutdown>>
           /\ process' = [process EXCEPT ![i] = process[i]]
           /\ \E left \in BOOLEAN :
                 realm' = [realm EXCEPT ![i] =
                     [MoveAndEmit(Starting(realm[i]), "FAILED", "FAILED") EXCEPT !.runtime = left]]
           /\ \E stray \in BOOLEAN :
                 group' = [group EXCEPT ![i] = [group[i] EXCEPT !.stray = stray]]
<1>1. group[i] \in GroupRecord /\ group = [group EXCEPT ![i] = group[i]]
      /\ process = [process EXCEPT ![i] = process[i]]
  BY Untouched
<1>2. CASE StartUnprepared(i)
  <2>1. group[i].stray \in BOOLEAN /\ group[i] = [group[i] EXCEPT !.stray = group[i].stray]
    BY <1>1 DEF GroupRecord
  <2>2. group' = [group EXCEPT ![i] = [group[i] EXCEPT !.stray = group[i].stray]]
    BY <1>1, <1>2, <2>1 DEF StartUnprepared
  <2> QED BY <1>1, <1>2, <2>1, <2>2 DEF StartUnprepared
<1>3. CASE StartUnlaunched(i)
  <2>1. PICK stray \in BOOLEAN :
           group' = [group EXCEPT ![i].stray = group[i].stray \/ stray]
    BY <1>3 DEF StartUnlaunched
  <2>2. (group[i].stray \/ stray) \in BOOLEAN
    OBVIOUS
  <2>3. group' = [group EXCEPT ![i] = [group[i] EXCEPT !.stray = group[i].stray \/ stray]]
    BY <2>1
  <2> QED BY <1>1, <1>3, <2>2, <2>3 DEF StartUnlaunched
<1> QED BY <1>2, <1>3

\* A start that fails before the launch leaves no process that is the realm's.
LEMMA UnpreparedSound ==
    ASSUME AllSound, NEW i \in RealmIDs, StartUnprepared(i) \/ StartUnlaunched(i)
    PROVE  AllSound'
<1>1. PICK left \in BOOLEAN :
         realm' = [realm EXCEPT ![i] =
                     [MoveAndEmit(Starting(realm[i]), "FAILED", "FAILED") EXCEPT !.runtime = left]]
  BY FailedStarts
<1>2. PICK stray \in BOOLEAN :
         group' = [group EXCEPT ![i] = [group[i] EXCEPT !.stray = stray]]
  BY FailedStarts
<1> DEFINE f == [MoveAndEmit(Starting(realm[i]), "FAILED", "FAILED") EXCEPT !.runtime = left]
           g == [group[i] EXCEPT !.stray = stray]
<1>3. /\ MayStart(i) /\ UNCHANGED <<realms, issued, process, shutdown>>
      /\ process' = [process EXCEPT ![i] = process[i]]
  BY FailedStarts
<1>4. g \in GroupRecord /\ g.signals = group[i].signals /\ (Executing(g) <=> Executing(group[i]))
  BY Untouched, StrayGroup
<1>5. /\ f \in RealmRecord
      /\ f.state = "FAILED" /\ f.inputOwner = "NONE" /\ f.observation = "DENIED"
      /\ f.compositorPID = realm[i].compositorPID
  BY <1>3, Untouched, FailedStart DEF MayStart
<1>6. realm' = [realm EXCEPT ![i] = f] /\ group' = [group EXCEPT ![i] = g]
  BY <1>1, <1>2
<1> HIDE DEF f, g
<1>7. Sound(f, process[i], g, i \in realms, shutdown = "done")
  BY <1>3, <1>4, <1>5, Untouched DEF Sound, MayStart, Active
<1> QED BY <1>3, <1>4, <1>5, <1>6, <1>7, Untouched, OneRealm

(* The supervisor runs but the compositor could not be executed. *)
LEMMA UnexecutedSound ==
    ASSUME AllSound, NEW i \in RealmIDs, StartUnexecuted(i)
    PROVE  AllSound'
<1> DEFINE m == MoveAndEmit(Starting(realm[i]), "FAILED", "FAILED")
           f == [m EXCEPT !.runtime = TRUE, !.exitCode = 127, !.compositorPID = FALSE]
           p == [NoProcess EXCEPT !.present = TRUE, !.failOnExit = TRUE]
           g == NewGroup(group[i], "exited")
<1>1. MayStart(i)
  BY DEF StartUnexecuted
<1>2. /\ realm' = [realm EXCEPT ![i] = f]
      /\ process' = [process EXCEPT ![i] = p]
      /\ group' = [group EXCEPT ![i] = g]
      /\ UNCHANGED <<realms, issued, shutdown>>
  BY DEF StartUnexecuted
<1>3. [m EXCEPT !.runtime = TRUE] \in RealmRecord
  BY <1>1, Untouched, FailedStart DEF MayStart
<1>4. /\ f \in RealmRecord
      /\ f.state = "FAILED" /\ f.inputOwner = "NONE" /\ f.observation = "DENIED"
      /\ f.runtime /\ ~f.compositorPID
  <2>1. LET h == [m EXCEPT !.runtime = TRUE]
        IN  h.state = "FAILED" /\ h.inputOwner = "NONE" /\ h.observation = "DENIED"
    BY <1>1, Untouched, FailedStart DEF MayStart
  <2>2. m \in RealmRecord
    BY <1>1, Untouched, StartingRealm, RealmOperations DEF MayStart, States, Events
  <2> HIDE DEF m
  <2> QED BY <2>1, <2>2 DEF RealmRecord, ExitCodes
<1>5. p \in ProcessRecord /\ g \in GroupRecord
  BY Untouched, NewGroups DEF NoProcess, ProcessRecord
<1>6. /\ p.present /\ ~p.exitReceived /\ p.failOnExit
      /\ ~Executing(g) /\ g.signals = {}
  BY Untouched, NewGroups DEF NoProcess
<1> HIDE DEF m, f, p, g
<1>7. Sound(f, p, g, i \in realms, shutdown = "done")
  BY <1>1, <1>4, <1>6 DEF Sound, MayStart, Active
<1> QED BY <1>2, <1>4, <1>5, <1>7, OneRealm

\* A launch leaves a realm that is being created, with its process.
LEMMA LaunchedSound ==
    ASSUME AllSound, NEW i \in RealmIDs, StartLaunched(i)
    PROVE  AllSound'
<1> DEFINE f == [Starting(realm[i]) EXCEPT !.runtime = TRUE, !.compositorPID = TRUE]
           p == [NoProcess EXCEPT !.present = TRUE]
           g == NewGroup(group[i], "alive")
<1>1. MayStart(i)
  BY DEF StartLaunched
<1>2. /\ realm' = [realm EXCEPT ![i] = f]
      /\ process' = [process EXCEPT ![i] = p]
      /\ group' = [group EXCEPT ![i] = g]
      /\ UNCHANGED <<realms, issued, shutdown>>
  BY DEF StartLaunched
<1>3. /\ f \in RealmRecord
      /\ f.state = "CREATING" /\ f.inputOwner = "NONE" /\ f.observation = "DENIED"
      /\ f.runtime /\ f.compositorPID
  <2> DEFINE s == Starting(realm[i])
  <2>1. /\ s \in RealmRecord
        /\ s.state = "CREATING" /\ s.inputOwner = "NONE" /\ s.observation = "DENIED"
    BY <1>1, Untouched, StartingRealm DEF MayStart
  <2> HIDE DEF s
  <2>2. LET h == [s EXCEPT !.runtime = TRUE, !.compositorPID = TRUE]
        IN  /\ h \in RealmRecord
            /\ h.state = "CREATING" /\ h.inputOwner = "NONE" /\ h.observation = "DENIED"
            /\ h.runtime /\ h.compositorPID
    BY <2>1 DEF RealmRecord
  <2> QED BY <2>2 DEF s
<1>4. p \in ProcessRecord /\ g \in GroupRecord
  BY Untouched, NewGroups DEF NoProcess, ProcessRecord
<1>5. p.present /\ ~p.exitReceived /\ ~p.failOnExit /\ g.signals = {}
  BY Untouched, NewGroups DEF NoProcess
<1> HIDE DEF f, p, g
<1>6. Sound(f, p, g, i \in realms, shutdown = "done")
  BY <1>1, <1>3, <1>5 DEF Sound, MayStart
<1> QED BY <1>2, <1>3, <1>4, <1>6, OneRealm

\* openApplication adds an application to the realm's group and records it.
LEMMA OpenSound ==
    ASSUME AllSound, NEW i \in RealmIDs, NEW a \in Applications, OpenApplication(i, a)
    PROVE  AllSound'
<1> DEFINE p == [process[i] EXCEPT !.applications = @ \cup {a}]
           g == [group[i] EXCEPT !.applications = @ \cup {a}]
<1>1. /\ process' = [process EXCEPT ![i] = p]
      /\ group' = [group EXCEPT ![i] = g]
  BY DEF OpenApplication, AllSound, TypeOK, ProcessRecord, GroupRecord
<1>2. p \in ProcessRecord /\ g \in GroupRecord
  BY Untouched DEF ProcessRecord, GroupRecord
<1>3. process[i].present
  BY DEF OpenApplication, Signallable
<1>4. /\ p.present /\ p.exitReceived = process[i].exitReceived
      /\ p.termination = process[i].termination /\ p.failOnExit = process[i].failOnExit
      /\ g.signals = group[i].signals
  BY <1>3, Untouched DEF ProcessRecord, GroupRecord
<1> HIDE DEF p, g
<1>5. Sound(realm[i], p, g, i \in realms, shutdown = "done")
  BY <1>3, <1>4, Untouched DEF Sound
<1>6. /\ realm' = [realm EXCEPT ![i] = realm[i]]
      /\ UNCHANGED <<realms, issued, shutdown>>
  BY Untouched DEF OpenApplication
<1>7. realm[i] \in RealmRecord
  BY Untouched
<1> QED BY <1>1, <1>2, <1>5, <1>6, <1>7, OneRealm

(* The lease of a paused realm is gone and its group may be stopped. *)
LEMMA PausedRealm ==
    ASSUME NEW r \in RealmRecord, NEW p \in ProcessRecord, NEW g \in GroupRecord,
           NEW exists, NEW over,
           Sound(r, p, g, exists, over), r.state = "RUNNING", p.present
    PROVE  /\ Paused(r) \in RealmRecord
           /\ Signal(g, "STOP") \in GroupRecord
           /\ Sound(Paused(r), p, Signal(g, "STOP"), exists, over)
<1>1. TransitionTo(r, "PAUSED") = [r EXCEPT !.state = "PAUSED"]
  BY Moves DEF CanMove, Transitions, States, Events
<1>2. Paused(r) \in RealmRecord
  <2>1. TransitionTo(r, "PAUSED") \in RealmRecord
    BY RealmOperations DEF States, Events
  <2>2. SetInputOwner(TransitionTo(r, "PAUSED"), "NONE") \in RealmRecord
    BY <2>1, RealmFields DEF Owners
  <2> QED BY <2>2, RealmOperations DEF Paused, States, Events
<1>3. Signal(g, "STOP") \in GroupRecord
  BY GroupOperations
<1>4. /\ Paused(r).state = "PAUSED" /\ Paused(r).inputOwner = "NONE"
      /\ Paused(r).observation = r.observation
      /\ Paused(r).capabilities = r.capabilities
      /\ Paused(r).compositorPID = r.compositorPID /\ Paused(r).runtime = r.runtime
  BY <1>1 DEF Paused, Emit, SetInputOwner, RealmRecord
<1> QED BY <1>2, <1>3, <1>4 DEF Sound, Allows, Active

\* Pausing one or all realms signals just those that it pauses.
LEMMA PauseSound ==
    ASSUME AllSound, NEW requested, PauseRealms(requested)
    PROVE  AllSound'
<1> DEFINE paused == {i \in requested \cap realms : CanPause(i)}
<1>1. /\ realm' = [i \in RealmIDs |->
                     IF i \in paused THEN Paused(realm[i]) ELSE realm[i]]
      /\ group' = [i \in RealmIDs |->
                     IF i \in paused THEN Signal(group[i], "STOP") ELSE group[i]]
      /\ UNCHANGED <<realms, issued, process, shutdown>>
  BY DEF PauseRealms
<1>2. ASSUME NEW i \in RealmIDs
      PROVE  /\ realm'[i] \in RealmRecord
             /\ group'[i] \in GroupRecord
             /\ Sound(realm'[i], process'[i], group'[i], i \in realms, shutdown' = "done")
  <2>1. CASE i \in paused
    <3>1. /\ realm'[i] = Paused(realm[i]) /\ group'[i] = Signal(group[i], "STOP")
          /\ process'[i] = process[i] /\ shutdown' = shutdown
      BY <1>1, <2>1
    <3>2. realm[i].state = "RUNNING" /\ process[i].present
      BY <2>1 DEF CanPause, Signallable
    <3> DEFINE exists == i \in realms
               over == shutdown = "done"
    <3>3. Sound(realm[i], process[i], group[i], exists, over)
      BY Untouched
    <3> HIDE DEF exists, over
    <3>4. /\ Paused(realm[i]) \in RealmRecord
          /\ Signal(group[i], "STOP") \in GroupRecord
          /\ Sound(Paused(realm[i]), process[i], Signal(group[i], "STOP"), exists, over)
      BY <3>2, <3>3, Untouched, PausedRealm
    <3> QED BY <3>1, <3>4 DEF exists, over
  <2>2. CASE ~(i \in paused)
    <3>1. /\ realm'[i] = realm[i] /\ group'[i] = group[i]
          /\ process'[i] = process[i] /\ shutdown' = shutdown
      BY <1>1, <2>2
    <3> QED BY <3>1, Untouched
  <2> QED BY <2>1, <2>2
<1>3. /\ realm' \in [RealmIDs -> RealmRecord]
      /\ group' \in [RealmIDs -> GroupRecord]
      /\ process' \in [RealmIDs -> ProcessRecord]
      /\ shutdown' \in Phases
  BY <1>1, <1>2 DEF AllSound, TypeOK
<1> QED BY <1>1, <1>2, <1>3, Pointwise

\* resumeRealm continues the group and gives the lease to the agent.
LEMMA ResumeSound ==
    ASSUME AllSound, NEW i \in RealmIDs, ResumeRealm(i)
    PROVE  AllSound'
<1> DEFINE m == TransitionTo(realm[i], "RUNNING")
           r == Emit(SetInputOwner(m, "AGENT"), "RESUMED")
<1>1. /\ realm' = [realm EXCEPT ![i] = r]
      /\ process' = [process EXCEPT ![i] = process[i]]
      /\ group' = [group EXCEPT ![i] = Continue(group[i])]
      /\ UNCHANGED <<realms, issued, shutdown>>
      /\ realm[i].state = "PAUSED" /\ process[i].present
  BY Untouched DEF ResumeRealm, Signallable
<1>2. m = [realm[i] EXCEPT !.state = "RUNNING"] /\ m \in RealmRecord
  BY <1>1, Untouched, Moves, RealmOperations DEF CanMove, Transitions, States, Events
<1>3. /\ r \in RealmRecord
      /\ r.state = "RUNNING" /\ r.inputOwner = "AGENT"
      /\ r.observation = realm[i].observation /\ r.capabilities = realm[i].capabilities
      /\ r.compositorPID = realm[i].compositorPID /\ r.runtime = realm[i].runtime
  <2>1. r \in RealmRecord
    <3>1. SetInputOwner(m, "AGENT") \in RealmRecord
      BY <1>2, RealmFields DEF Owners
    <3> QED BY <3>1, RealmOperations DEF States, Events
  <2> QED BY <1>2, <2>1, Untouched DEF Emit, SetInputOwner, RealmRecord
<1>4. Continue(group[i]) \in GroupRecord
  BY Untouched, GroupOperations
<1>5. /\ Continue(group[i]).signals = group[i].signals \ {"STOP"}
      /\ Continue(group[i]).compositor = group[i].compositor
      /\ Continue(group[i]).applications = group[i].applications
  BY Untouched DEF Continue, GroupRecord
<1> HIDE DEF m, r
<1>6. Sound(r, process[i], Continue(group[i]), i \in realms, shutdown = "done")
  BY <1>1, <1>3, <1>5, Untouched DEF Sound, Allows, Active, Executing
<1> QED BY <1>1, <1>3, <1>4, <1>6, Untouched, OneRealm

(* Ending a run: lease and permission are revoked, a deadline is armed and
   the group is not left stopped without a SIGKILL. *)
LEMMA EndedRealm ==
    ASSUME NEW r \in RealmRecord, NEW p \in ProcessRecord, NEW g \in GroupRecord,
           NEW exists, NEW over,
           Sound(r, p, g, exists, over), p.present,
           r.state \in {"CREATING", "RUNNING", "PAUSED"}
    PROVE  /\ Revoked(TransitionTo(r, "STOPPING")) \in RealmRecord
           /\ Deadline(p) \in ProcessRecord
           /\ Terminate(r, g) \in GroupRecord
           /\ Sound(Revoked(TransitionTo(r, "STOPPING")), Deadline(p), Terminate(r, g), exists, over)
<1> DEFINE e == Revoked(TransitionTo(r, "STOPPING"))
<1>1. TransitionTo(r, "STOPPING") = [r EXCEPT !.state = "STOPPING"]
  BY Moves DEF CanMove, Transitions, States, Events
<1>2. e \in RealmRecord
  BY RealmOperations DEF States, Events
<1>3. Deadline(p) \in ProcessRecord /\ Terminate(r, g) \in GroupRecord
  BY DeadlineType, GroupOperations
<1>4. /\ e.state = "STOPPING" /\ e.inputOwner = "NONE" /\ e.observation = "DENIED"
      /\ e.compositorPID = r.compositorPID /\ e.runtime = r.runtime
  BY <1>1 DEF Revoked, SetObservation, SetInputOwner, RealmRecord
<1>5. /\ Deadline(p).present = p.present /\ Deadline(p).exitReceived = p.exitReceived
      /\ Deadline(p).failOnExit = p.failOnExit /\ Deadline(p).termination = "pending"
  BY DEF Deadline, ProcessRecord
<1>6. /\ Terminate(r, g).signals
            = (IF r.state = "PAUSED" THEN g.signals \ {"STOP"} ELSE g.signals) \cup {"TERM"}
      /\ Terminate(r, g).compositor = g.compositor
      /\ Terminate(r, g).applications = g.applications
  BY DEF Terminate, Signal, Continue, GroupRecord
<1> HIDE DEF e
<1>7. Sound(e, Deadline(p), Terminate(r, g), exists, over)
  BY <1>4, <1>5, <1>6 DEF Sound, Active, Executing
<1> QED BY <1>2, <1>3, <1>7 DEF e

\* stopRealm revokes, asks the group to end and sets a deadline.
LEMMA StopSound ==
    ASSUME AllSound, NEW i \in RealmIDs, StopRealm(i)
    PROVE  AllSound'
<1>1. /\ realm[i].state \in {"CREATING", "RUNNING", "PAUSED"}
      /\ process[i].present
  BY DEF StopRealm, Signallable
<1> DEFINE exists == i \in realms
           over == shutdown = "done"
<1>2. Sound(realm[i], process[i], group[i], exists, over)
  BY Untouched
<1> HIDE DEF exists, over
<1>3. /\ Revoked(TransitionTo(realm[i], "STOPPING")) \in RealmRecord
      /\ Deadline(process[i]) \in ProcessRecord
      /\ Terminate(realm[i], group[i]) \in GroupRecord
      /\ Sound(Revoked(TransitionTo(realm[i], "STOPPING")), Deadline(process[i]),
               Terminate(realm[i], group[i]), exists, over)
  BY <1>1, <1>2, Untouched, EndedRealm
<1> QED BY <1>3, OneRealm DEF StopRealm, exists, over

\* killRealm does so by force.
LEMMA KillSound ==
    ASSUME AllSound, NEW i \in RealmIDs, KillRealm(i)
    PROVE  AllSound'
<1> DEFINE ending == realm[i].state \in {"CREATING", "RUNNING", "PAUSED"}
           m == IF ending THEN TransitionTo(realm[i], "STOPPING") ELSE realm[i]
           r == Revoked(m)
           d == Deadline(process[i])
           p == [d EXCEPT !.forceKillSent = TRUE]
           g == Signal(group[i], "KILL")
<1>1. /\ realm' = [realm EXCEPT ![i] = r]
      /\ process' = [process EXCEPT ![i] = p]
      /\ group' = [group EXCEPT ![i] = g]
      /\ UNCHANGED <<realms, issued, shutdown>>
      /\ process[i].present
  BY Untouched DEF KillRealm, Signallable
<1>2. ending => m = [realm[i] EXCEPT !.state = "STOPPING"]
  BY Untouched, Moves DEF CanMove, Transitions, States, Events
<1>3. m \in RealmRecord
  BY Untouched, RealmOperations DEF States, Events
<1>4. r \in RealmRecord
  BY <1>3, RealmOperations DEF States, Events
<1>5. /\ m.compositorPID = realm[i].compositorPID /\ m.runtime = realm[i].runtime
      /\ m.state = (IF ending THEN "STOPPING" ELSE realm[i].state)
  BY <1>2, Untouched DEF RealmRecord
<1>6. /\ r.compositorPID = realm[i].compositorPID /\ r.runtime = realm[i].runtime
      /\ r.state = (IF ending THEN "STOPPING" ELSE realm[i].state)
      /\ r.inputOwner = "NONE" /\ r.observation = "DENIED"
  <2> HIDE DEF m
  <2> QED BY <1>3, <1>5 DEF Revoked, SetObservation, SetInputOwner, RealmRecord
<1>7. d \in ProcessRecord
  BY Untouched, DeadlineType
<1>8. /\ p \in ProcessRecord
      /\ p.present = process[i].present /\ p.exitReceived = process[i].exitReceived
      /\ p.failOnExit = process[i].failOnExit /\ p.termination = "pending"
  BY <1>7, Untouched DEF Deadline, ProcessRecord
<1>9. /\ g \in GroupRecord
      /\ g.signals = group[i].signals \cup {"KILL"}
      /\ g.compositor = group[i].compositor /\ g.applications = group[i].applications
  BY Untouched DEF Signal, GroupRecord
<1> HIDE DEF m, r, d, p, g
<1>10. Sound(r, p, g, i \in realms, shutdown = "done")
  BY <1>1, <1>6, <1>8, <1>9, Untouched DEF Sound, Active, Executing, RealmRecord, States
<1> QED BY <1>1, <1>4, <1>8, <1>9, <1>10, OneRealm

(* A request that changes lease, permission or capabilities only. *)
LEMMA UpdateSound ==
    ASSUME AllSound, NEW i \in RealmIDs, NEW r \in RealmRecord, UpdateRealm(i, r),
           r.state = realm[i].state,
           r.compositorPID = realm[i].compositorPID,
           r.runtime = realm[i].runtime,
           r.inputOwner # "NONE" <=> r.state = "RUNNING",
           r.observation = "ALLOWED" =>
              Allows(r, "observe") /\ r.state \in {"RUNNING", "PAUSED"}
    PROVE  AllSound'
<1>1. /\ realm' = [realm EXCEPT ![i] = r]
      /\ process' = [process EXCEPT ![i] = process[i]]
      /\ group' = [group EXCEPT ![i] = group[i]]
      /\ UNCHANGED <<realms, issued, shutdown>>
  BY Untouched DEF UpdateRealm
<1>2. Sound(r, process[i], group[i], i \in realms, shutdown = "done")
  BY Untouched DEF Sound
<1> QED BY <1>1, <1>2, Untouched, OneRealm

\* takeoverRealm and releaseRealm move the lease of a running realm only.
LEMMA LeaseSound ==
    ASSUME AllSound, NEW i \in RealmIDs, TakeoverRealm(i) \/ ReleaseRealm(i)
    PROVE  AllSound'
<1>1. PICK owner \in {"AGENT", "HUMAN"}, event \in Events :
         UpdateRealm(i, Emit(SetInputOwner(realm[i], owner), event))
  BY DEF TakeoverRealm, ReleaseRealm, Events
<1> DEFINE r == Emit(SetInputOwner(realm[i], owner), event)
<1>2. realm[i].state = "RUNNING"
  BY DEF TakeoverRealm, ReleaseRealm
<1>3. r \in RealmRecord
  <2>1. SetInputOwner(realm[i], owner) \in RealmRecord
    BY Untouched, RealmFields DEF Owners
  <2> QED BY <2>1, RealmOperations DEF States
<1>4. /\ r.state = realm[i].state /\ r.inputOwner = owner
      /\ r.compositorPID = realm[i].compositorPID /\ r.runtime = realm[i].runtime
      /\ r.observation = realm[i].observation /\ r.capabilities = realm[i].capabilities
  BY Untouched DEF Emit, SetInputOwner, RealmRecord
<1> HIDE DEF r
<1>5. r.observation = "ALLOWED" =>
         Allows(r, "observe") /\ r.state \in {"RUNNING", "PAUSED"}
  BY <1>4, Untouched DEF Sound, Allows
<1> QED BY <1>1, <1>2, <1>3, <1>4, <1>5, UpdateSound DEF r

\* Observation is allowed only as far as the capability reaches.
LEMMA ObservationSound ==
    ASSUME AllSound, NEW i \in RealmIDs, AllowObservation(i) \/ DenyObservation(i)
    PROVE  AllSound'
<1>1. PICK permission \in {"ALLOWED", "DENIED"} :
         /\ UpdateRealm(i, SetObservation(realm[i], permission))
         /\ permission = "ALLOWED" =>
               Allows(realm[i], "observe") /\ realm[i].state = "RUNNING"
  BY DEF AllowObservation, DenyObservation
<1> DEFINE r == SetObservation(realm[i], permission)
<1>2. r \in RealmRecord
  BY Untouched, RealmFields DEF Owners
<1>3. /\ r.state = realm[i].state /\ r.inputOwner = realm[i].inputOwner
      /\ r.compositorPID = realm[i].compositorPID /\ r.runtime = realm[i].runtime
      /\ r.observation = permission /\ r.capabilities = realm[i].capabilities
  BY Untouched DEF SetObservation, RealmRecord
<1> HIDE DEF r
<1>4. /\ r.inputOwner # "NONE" <=> r.state = "RUNNING"
      /\ r.observation = "ALLOWED" =>
            Allows(r, "observe") /\ r.state \in {"RUNNING", "PAUSED"}
  BY <1>1, <1>3, Untouched DEF Sound, Allows
<1> QED BY <1>1, <1>2, <1>3, <1>4, UpdateSound DEF r

\* Losing the observe capability ends the observation.
LEMMA CapabilitySound ==
    ASSUME AllSound, NEW i \in RealmIDs, NEW c \in Capabilities,
           GrantCapability(i, c) \/ RevokeCapability(i, c)
    PROVE  AllSound'
<1>1. PICK r :
         /\ UpdateRealm(i, r)
         /\ r \in {[realm[i] EXCEPT !.capabilities = @ \cup {c}], Without(realm[i], c)}
  BY DEF GrantCapability, RevokeCapability
<1>2. CASE r = [realm[i] EXCEPT !.capabilities = @ \cup {c}]
  <2>1. /\ r \in RealmRecord
        /\ r.state = realm[i].state /\ r.inputOwner = realm[i].inputOwner
        /\ r.compositorPID = realm[i].compositorPID /\ r.runtime = realm[i].runtime
        /\ r.observation = realm[i].observation
        /\ r.capabilities = realm[i].capabilities \cup {c}
    BY <1>2, Untouched DEF RealmRecord
  <2>2. /\ r.inputOwner # "NONE" <=> r.state = "RUNNING"
        /\ r.observation = "ALLOWED" =>
              Allows(r, "observe") /\ r.state \in {"RUNNING", "PAUSED"}
    BY <2>1, Untouched DEF Sound, Allows
  <2> QED BY <1>1, <2>1, <2>2, UpdateSound
<1>3. CASE r = Without(realm[i], c)
  <2>1. /\ r \in RealmRecord
        /\ r.state = realm[i].state /\ r.inputOwner = realm[i].inputOwner
        /\ r.compositorPID = realm[i].compositorPID /\ r.runtime = realm[i].runtime
        /\ r.observation = (IF c = "observe" THEN "DENIED" ELSE realm[i].observation)
        /\ r.capabilities = realm[i].capabilities \ {c}
    BY <1>3, Untouched DEF Without, SetObservation, RealmRecord
  <2>2. /\ r.inputOwner # "NONE" <=> r.state = "RUNNING"
        /\ r.observation = "ALLOWED" =>
              Allows(r, "observe") /\ r.state \in {"RUNNING", "PAUSED"}
    BY <2>1, Untouched DEF Sound, Allows
  <2> QED BY <1>1, <2>1, <2>2, UpdateSound
<1> QED BY <1>1, <1>2, <1>3

-----------------------------------------------------------------------------
(* The poll. *)

\* What a dispatch finds out about a process is one thing of four.
LEMMA Findings ==
    ASSUME NEW r, NEW p, NEW g
    PROVE  /\ Finding(r, p, g) \in {"exit", "ready", "overdue", "nothing"}
           /\ Finding(r, p, g) = "exit" => ~p.exitReceived
           /\ Finding(r, p, g) \in {"ready", "overdue"} =>
                 r.state = "CREATING" /\ r.compositorPID
BY DEF Finding, AwaitsReadiness

(* What handling an exit leaves of the realm. *)
LEMMA ExitedRealm ==
    ASSUME NEW r \in RealmRecord, NEW p \in ProcessRecord, NEW code \in ExitCodes,
           p.failOnExit => r.state = "FAILED"
    PROVE  LET x == ExitHandled(r, p, code)
           IN  /\ x \in RealmRecord
               /\ x.inputOwner = "NONE" /\ x.observation = "DENIED"
               /\ ~x.compositorPID /\ x.runtime = r.runtime
               /\ x.state \in {"STOPPED", "FAILED"}
               /\ r.state = "FAILED" => x.state = "FAILED"
<1> DEFINE v == Revoked(ForgetPID(r))
           ended == [v EXCEPT !.exitCode = ExitCode(r, code)]
<1>1. v \in RealmRecord /\ ForgetPID(r) \in RealmRecord
  BY RealmOperations DEF States, Events
<1>2. /\ v.state = r.state /\ v.inputOwner = "NONE" /\ v.observation = "DENIED"
      /\ v.compositorPID = FALSE /\ v.runtime = r.runtime
  BY DEF Revoked, SetObservation, SetInputOwner, ForgetPID, RealmRecord
<1>3. ExitCode(r, code) \in ExitCodes
  BY DEF ExitCode, RealmRecord
<1> HIDE DEF v
<1>4. /\ ended \in RealmRecord
      /\ ended.state = r.state /\ ended.inputOwner = "NONE" /\ ended.observation = "DENIED"
      /\ ended.compositorPID = FALSE /\ ended.runtime = r.runtime
  BY <1>1, <1>2, <1>3 DEF RealmRecord
<1>5. ExitHandled(r, p, code)
        = IF r.state = "STOPPING" /\ ~p.failOnExit
          THEN MoveAndEmit(ended, "STOPPED", "STOPPED")
          ELSE MoveAndEmit(ended, "FAILED", "FAILED")
  BY DEF ExitHandled, v
<1> HIDE DEF ended
<1>6. CASE r.state = "STOPPING"
  <2>1. ~p.failOnExit
    BY <1>6
  <2>2. CanMove(ended, "STOPPED")
    BY <1>4, <1>6 DEF CanMove, Transitions
  <2>3. /\ MoveAndEmit(ended, "STOPPED", "STOPPED") \in RealmRecord
        /\ MoveAndEmit(ended, "STOPPED", "STOPPED")
              = [ended EXCEPT !.state = "STOPPED", !.announced = "STOPPED"]
    BY <1>4, <2>2, Moves, RealmOperations DEF States, Events
  <2> QED BY <1>4, <1>5, <1>6, <2>1, <2>3 DEF RealmRecord
<1>7. CASE r.state \in {"CREATING", "RUNNING", "PAUSED"}
  <2>1. CanMove(ended, "FAILED")
    BY <1>4, <1>7 DEF CanMove, Transitions
  <2>2. /\ MoveAndEmit(ended, "FAILED", "FAILED") \in RealmRecord
        /\ MoveAndEmit(ended, "FAILED", "FAILED")
              = [ended EXCEPT !.state = "FAILED", !.announced = "FAILED"]
    BY <1>4, <2>1, Moves, RealmOperations DEF States, Events
  <2> QED BY <1>4, <1>5, <1>7, <2>2 DEF RealmRecord
<1>8. CASE r.state \in {"STOPPED", "FAILED"}
  <2>1. ~CanMove(ended, "FAILED")
    BY <1>4, <1>8 DEF CanMove, Transitions
  <2>2. MoveAndEmit(ended, "FAILED", "FAILED") = ended
    BY <2>1 DEF MoveAndEmit
  <2> QED BY <1>4, <1>5, <1>8, <2>2
<1> QED BY <1>6, <1>7, <1>8 DEF RealmRecord, States

(* What one pass of the poll leaves of a supervised realm. *)
LEMMA DispatchedRealmIs ==
    ASSUME NEW r \in RealmRecord, NEW p \in ProcessRecord, NEW g \in GroupRecord,
           p.failOnExit => r.state = "FAILED"
    PROVE  LET x == DispatchedRealm(r, p, g)
               f == Finding(r, p, g)
           IN  /\ x \in RealmRecord
               /\ f = "exit" =>
                     /\ x.inputOwner = "NONE" /\ x.observation = "DENIED"
                     /\ ~x.compositorPID /\ x.runtime = r.runtime
                     /\ x.state \in {"STOPPED", "FAILED"}
                     /\ r.state = "FAILED" => x.state = "FAILED"
               /\ f = "ready" =>
                     /\ x.inputOwner = "AGENT" /\ x.observation = r.observation
                     /\ x.compositorPID = r.compositorPID /\ x.runtime = r.runtime
                     /\ x.state = "RUNNING" /\ x.capabilities = r.capabilities
               /\ f = "overdue" =>
                     /\ x.inputOwner = "NONE" /\ x.observation = r.observation
                     /\ x.compositorPID = r.compositorPID /\ x.runtime = r.runtime
                     /\ x.state = "FAILED" /\ x.capabilities = r.capabilities
               /\ f = "nothing" => x = r
<1>1. CASE Finding(r, p, g) = "exit"
  <2>1. ReportedCode(g) \in ExitCodes
    BY DEF ReportedCode, ExitCodes
  <2>2. DispatchedRealm(r, p, g) = ExitHandled(r, p, ReportedCode(g))
    BY <1>1 DEF DispatchedRealm
  <2> QED BY <1>1, <2>1, <2>2, ExitedRealm
<1>2. CASE Finding(r, p, g) = "ready"
  <2> DEFINE o == SetInputOwner(r, "AGENT")
  <2>1. o \in RealmRecord
    BY RealmFields DEF Owners
  <2>2. /\ o.state = "CREATING" /\ o.inputOwner = "AGENT" /\ o.observation = r.observation
        /\ o.compositorPID = r.compositorPID /\ o.runtime = r.runtime
        /\ o.capabilities = r.capabilities
    BY <1>2, Findings DEF SetInputOwner, RealmRecord
  <2>3. DispatchedRealm(r, p, g) = MoveAndEmit(o, "RUNNING", "STARTED")
    BY <1>2 DEF DispatchedRealm
  <2> HIDE DEF o
  <2>4. CanMove(o, "RUNNING")
    BY <2>2 DEF CanMove, Transitions
  <2>5. /\ MoveAndEmit(o, "RUNNING", "STARTED") \in RealmRecord
        /\ MoveAndEmit(o, "RUNNING", "STARTED")
              = [o EXCEPT !.state = "RUNNING", !.announced = "STARTED"]
    BY <2>1, <2>4, Moves, RealmOperations DEF States, Events
  <2> DEFINE x == MoveAndEmit(o, "RUNNING", "STARTED")
  <2>6. /\ x \in RealmRecord
        /\ x.inputOwner = "AGENT" /\ x.observation = r.observation
        /\ x.compositorPID = r.compositorPID /\ x.runtime = r.runtime
        /\ x.state = "RUNNING" /\ x.capabilities = r.capabilities
    BY <2>1, <2>2, <2>5 DEF RealmRecord
  <2> HIDE DEF x
  <2> QED BY <1>2, <2>3, <2>6 DEF x
<1>3. CASE Finding(r, p, g) = "overdue"
  <2> DEFINE o == SetInputOwner(r, "NONE")
             m == MoveAndEmit(o, "FAILED", "FAILED")
  <2>1. o \in RealmRecord
    BY RealmFields DEF Owners
  <2>2. /\ o.state = "CREATING" /\ o.inputOwner = "NONE" /\ o.observation = r.observation
        /\ o.compositorPID = r.compositorPID /\ o.runtime = r.runtime
        /\ o.capabilities = r.capabilities
    BY <1>3, Findings DEF SetInputOwner, RealmRecord
  <2>3. DispatchedRealm(r, p, g) = [m EXCEPT !.exitCode = -1]
    BY <1>3 DEF DispatchedRealm
  <2> HIDE DEF o
  <2>4. CanMove(o, "FAILED")
    BY <2>2 DEF CanMove, Transitions
  <2>5. m \in RealmRecord /\ m = [o EXCEPT !.state = "FAILED", !.announced = "FAILED"]
    BY <2>1, <2>4, Moves, RealmOperations DEF States, Events
  <2>6. /\ m.state = "FAILED" /\ m.inputOwner = "NONE" /\ m.observation = r.observation
        /\ m.compositorPID = r.compositorPID /\ m.runtime = r.runtime
        /\ m.capabilities = r.capabilities
    BY <2>1, <2>2, <2>5 DEF RealmRecord
  <2> DEFINE x == [m EXCEPT !.exitCode = -1]
  <2> HIDE DEF m
  <2>7. /\ x \in RealmRecord
        /\ x.inputOwner = "NONE" /\ x.observation = r.observation
        /\ x.compositorPID = r.compositorPID /\ x.runtime = r.runtime
        /\ x.state = "FAILED" /\ x.capabilities = r.capabilities
    BY <2>5, <2>6 DEF RealmRecord, ExitCodes
  <2>8. DispatchedRealm(r, p, g) = x
    BY <2>3 DEF m
  <2> HIDE DEF x
  <2> QED BY <1>3, <2>7, <2>8
<1>4. CASE Finding(r, p, g) = "nothing"
  BY <1>4 DEF DispatchedRealm
<1> QED BY <1>1, <1>2, <1>3, <1>4, Findings

\* What a dispatch notices is recorded with the process.
LEMMA NoticedProcess ==
    ASSUME NEW r, NEW p \in ProcessRecord, NEW g \in GroupRecord
    PROVE  LET q == Noticed(r, p, g)
               f == Finding(r, p, g)
           IN  /\ q \in ProcessRecord
               /\ q.present = p.present
               /\ q.exitReceived = (p.exitReceived \/ f = "exit")
               /\ q.failOnExit = (p.failOnExit \/ f = "overdue")
               /\ q.termination = (IF f \in {"exit", "overdue"} THEN "pending" ELSE p.termination)
<1> DEFINE a == Reaped(p, g)
           d == Deadline(a)
<1>1. /\ a \in ProcessRecord
      /\ a.present = p.present /\ a.exitReceived = p.exitReceived
      /\ a.failOnExit = p.failOnExit /\ a.termination = p.termination
  BY DEF Reaped, ProcessRecord, GroupRecord
<1> HIDE DEF a
<1>2. /\ d \in ProcessRecord
      /\ d.present = p.present /\ d.exitReceived = p.exitReceived
      /\ d.failOnExit = p.failOnExit /\ d.termination = "pending"
  BY <1>1 DEF Deadline, ProcessRecord
<1> HIDE DEF d
<1>3. CASE Finding(r, p, g) = "exit"
  <2>1. Noticed(r, p, g) = [d EXCEPT !.exitReceived = TRUE]
    BY <1>3 DEF Noticed, d, a
  <2> QED BY <1>2, <1>3, <2>1 DEF ProcessRecord
<1>4. CASE Finding(r, p, g) = "overdue"
  <2>1. Noticed(r, p, g) = [d EXCEPT !.failOnExit = TRUE]
    BY <1>4 DEF Noticed, d, a
  <2> QED BY <1>2, <1>4, <2>1 DEF ProcessRecord
<1>5. CASE Finding(r, p, g) \notin {"exit", "overdue"}
  <2>1. Noticed(r, p, g) = a
    BY <1>5 DEF Noticed, a
  <2> QED BY <1>1, <1>5, <2>1 DEF ProcessRecord
<1> QED BY <1>3, <1>4, <1>5

\* A process is forgotten just when it is cleaned up.
LEMMA DispatchedProcessIs ==
    ASSUME NEW r, NEW p \in ProcessRecord, NEW g \in GroupRecord
    PROVE  LET q == Noticed(r, p, g)
               d == DispatchedProcess(r, p, g)
           IN  /\ d \in ProcessRecord
               /\ CleanedUp(q, g) => d = NoProcess
               /\ ~CleanedUp(q, g) =>
                     /\ d.present = q.present /\ d.exitReceived = q.exitReceived
                     /\ d.failOnExit = q.failOnExit
                     /\ d.termination \in {q.termination, "pending"}
<1> DEFINE q == Noticed(r, p, g)
           e == Deadline(q)
<1>1. q \in ProcessRecord
  BY NoticedProcess
<1>2. DispatchedProcess(r, p, g)
        = IF CleanedUp(q, g) THEN NoProcess
          ELSE IF ForceKillDue(q, g) THEN [e EXCEPT !.forceKillSent = TRUE] ELSE q
  BY DEF DispatchedProcess
<1> HIDE DEF q
<1>3. /\ e \in ProcessRecord
      /\ e.present = q.present /\ e.exitReceived = q.exitReceived
      /\ e.failOnExit = q.failOnExit /\ e.termination = "pending"
  BY <1>1 DEF Deadline, ProcessRecord
<1> HIDE DEF e
<1>4. LET k == [e EXCEPT !.forceKillSent = TRUE]
      IN  /\ k \in ProcessRecord
          /\ k.present = q.present /\ k.exitReceived = q.exitReceived
          /\ k.failOnExit = q.failOnExit /\ k.termination = "pending"
  BY <1>3 DEF ProcessRecord
<1> QED BY <1>1, <1>2, <1>4, FreshRecords DEF q

\* A dispatch sends signals to the group and starts none of its processes.
LEMMA DispatchedGroupIs ==
    ASSUME NEW r, NEW p \in ProcessRecord, NEW g \in GroupRecord
    PROVE  LET h == DispatchedGroup(r, p, g)
           IN  /\ h \in GroupRecord
               /\ h.compositor = g.compositor /\ h.applications = g.applications
               /\ g.signals \subseteq h.signals
               /\ "STOP" \in h.signals => "STOP" \in g.signals
<1> DEFINE warned == IF Finding(r, p, g) \in {"exit", "overdue"} THEN {"TERM"} ELSE {}
           forced == IF ForceKillDue(Noticed(r, p, g), g) THEN {"KILL"} ELSE {}
           left == IF CleanedUp(Noticed(r, p, g), g) THEN "none" ELSE g.supervisor
<1>1. DispatchedGroup(r, p, g)
        = [g EXCEPT !.signals = g.signals \cup warned \cup forced, !.supervisor = left]
  BY DEF DispatchedGroup
<1>2. /\ warned \subseteq {"TERM"} /\ forced \subseteq {"KILL"}
      /\ left \in {"none", "watching", "reported", "gone", "crashed"}
  BY DEF GroupRecord
<1> DEFINE s == g.signals \cup warned \cup forced
           h == [g EXCEPT !.signals = s, !.supervisor = left]
<1>3. /\ s \in SUBSET {"STOP", "TERM", "KILL"}
      /\ g.signals \subseteq s
      /\ "STOP" \in s => "STOP" \in g.signals
  BY <1>2 DEF GroupRecord
<1> HIDE DEF warned, forced, left, s
<1>4. /\ h \in GroupRecord
      /\ h.compositor = g.compositor /\ h.applications = g.applications
      /\ h.signals = s
  BY <1>2, <1>3 DEF GroupRecord
<1>5. DispatchedGroup(r, p, g) = h
  BY <1>1 DEF s
<1> HIDE DEF h
<1> QED BY <1>3, <1>4, <1>5

\* dispatchPendingEvents leaves each realm it visits sound.
LEMMA DispatchedSound ==
    ASSUME NEW r \in RealmRecord, NEW p \in ProcessRecord, NEW g \in GroupRecord,
           NEW exists, NEW over, ~over, Sound(r, p, g, exists, over), p.present
    PROVE  Sound(DispatchedRealm(r, p, g), DispatchedProcess(r, p, g),
                 DispatchedGroup(r, p, g), exists, over)
<1> DEFINE f == Finding(r, p, g)
           q == Noticed(r, p, g)
           x == DispatchedRealm(r, p, g)
           d == DispatchedProcess(r, p, g)
           h == DispatchedGroup(r, p, g)
<1>1. /\ f \in {"exit", "ready", "overdue", "nothing"}
      /\ f = "exit" => ~p.exitReceived
      /\ f \in {"ready", "overdue"} => r.state = "CREATING" /\ r.compositorPID
  BY Findings
<1>2. /\ q.present /\ q.exitReceived = (p.exitReceived \/ f = "exit")
      /\ q.failOnExit = (p.failOnExit \/ f = "overdue")
      /\ q.termination = (IF f \in {"exit", "overdue"} THEN "pending" ELSE p.termination)
  BY NoticedProcess
<1>3. /\ CleanedUp(q, g) => d = NoProcess
      /\ ~CleanedUp(q, g) =>
            /\ d.present = q.present /\ d.exitReceived = q.exitReceived
            /\ d.failOnExit = q.failOnExit
            /\ d.termination \in {q.termination, "pending"}
  BY DispatchedProcessIs
<1>4. CleanedUp(q, g) => q.exitReceived /\ ~Executing(g)
  BY DEF CleanedUp, GroupExists
<1>5. /\ h.compositor = g.compositor /\ h.applications = g.applications
      /\ g.signals \subseteq h.signals
      /\ "STOP" \in h.signals => "STOP" \in g.signals
  BY DispatchedGroupIs
<1>6. p.failOnExit => r.state = "FAILED"
  BY DEF Sound
<1>7. /\ f = "exit" =>
            /\ x.inputOwner = "NONE" /\ x.observation = "DENIED"
            /\ ~x.compositorPID /\ x.runtime = r.runtime
            /\ x.state \in {"STOPPED", "FAILED"}
            /\ r.state = "FAILED" => x.state = "FAILED"
      /\ f = "ready" =>
            /\ x.inputOwner = "AGENT" /\ x.observation = r.observation
            /\ x.compositorPID = r.compositorPID /\ x.runtime = r.runtime
            /\ x.state = "RUNNING" /\ x.capabilities = r.capabilities
      /\ f = "overdue" =>
            /\ x.inputOwner = "NONE" /\ x.observation = r.observation
            /\ x.compositorPID = r.compositorPID /\ x.runtime = r.runtime
            /\ x.state = "FAILED" /\ x.capabilities = r.capabilities
      /\ f = "nothing" => x = r
  BY <1>6, DispatchedRealmIs
<1> HIDE DEF f, q, x, d, h
<1> SUFFICES Sound(x, d, h, exists, over)
  BY DEF x, d, h
<1>8. ~NoProcess.present
  BY DEF NoProcess
<1>9. CASE CleanedUp(q, g)
  <2>1. ~d.present /\ q.exitReceived /\ ~Executing(h)
    BY <1>3, <1>4, <1>5, <1>8, <1>9 DEF Executing
  <2>2. f \in {"exit", "nothing"}
    BY <1>1, <1>2, <2>1 DEF Sound, Active
  <2>3. CASE f = "exit"
    BY <1>7, <2>1, <2>3 DEF Sound, Active
  <2>4. CASE f = "nothing"
    BY <1>2, <1>7, <2>1, <2>4 DEF Sound, Active
  <2> QED BY <2>2, <2>3, <2>4
<1>10. CASE ~CleanedUp(q, g)
  <2>1. /\ d.present /\ d.exitReceived = (p.exitReceived \/ f = "exit")
        /\ d.failOnExit = (p.failOnExit \/ f = "overdue")
        /\ d.termination \in {p.termination, "pending"}
    BY <1>2, <1>3, <1>10
  <2>2. CASE f = "exit"
    BY <1>5, <1>7, <2>1, <2>2 DEF Sound, Active
  <2>3. CASE f = "ready"
    BY <1>1, <1>5, <1>7, <2>1, <2>3 DEF Sound, Active, Allows
  <2>4. CASE f = "overdue"
    BY <1>1, <1>5, <1>7, <2>1, <2>4 DEF Sound, Active, Allows
  <2>5. CASE f = "nothing"
    BY <1>1, <1>5, <1>7, <2>1, <2>5 DEF Sound, Active
  <2> QED BY <1>1, <2>2, <2>3, <2>4, <2>5
<1> QED BY <1>9, <1>10

\* dispatchPendingEvents leaves the manager sound.
LEMMA DispatchSound ==
    ASSUME AllSound, DispatchPendingEvents
    PROVE  AllSound'
<1>1. shutdown' = shutdown /\ shutdown # "done" /\ UNCHANGED <<realms, issued>>
  BY DEF DispatchPendingEvents
<1>2. ASSUME NEW i \in RealmIDs
      PROVE  /\ realm'[i] \in RealmRecord
             /\ process'[i] \in ProcessRecord
             /\ group'[i] \in GroupRecord
             /\ Sound(realm'[i], process'[i], group'[i], i \in realms, shutdown' = "done")
  <2> DEFINE exists == i \in realms
             over == shutdown = "done"
  <2>1. CASE process[i].present
    <3>1. /\ realm'[i] = DispatchedRealm(realm[i], process[i], group[i])
          /\ process'[i] = DispatchedProcess(realm[i], process[i], group[i])
          /\ group'[i] = DispatchedGroup(realm[i], process[i], group[i])
      BY <2>1 DEF DispatchPendingEvents
    <3>2. Sound(realm[i], process[i], group[i], exists, over) /\ ~over
      BY <1>1, Untouched
    <3> HIDE DEF exists, over
    <3>3. Sound(realm'[i], process'[i], group'[i], exists, over)
      BY <2>1, <3>1, <3>2, Untouched, DispatchedSound
    <3>4. process[i].failOnExit => realm[i].state = "FAILED"
      BY <2>1, Untouched DEF Sound
    <3>5. realm'[i] \in RealmRecord
      BY <3>1, <3>4, Untouched, DispatchedRealmIs
    <3>6. process'[i] \in ProcessRecord
      BY <3>1, Untouched, DispatchedProcessIs
    <3>7. group'[i] \in GroupRecord
      <4>1. process[i] \in ProcessRecord /\ group[i] \in GroupRecord
        BY Untouched
      <4> QED BY <3>1, <4>1, DispatchedGroupIs
    <3> QED BY <1>1, <3>3, <3>5, <3>6, <3>7 DEF exists, over
  <2>2. CASE ~process[i].present
    <3>1. realm'[i] = realm[i] /\ process'[i] = process[i] /\ group'[i] = group[i]
      BY <2>2 DEF DispatchPendingEvents
    <3> QED BY <1>1, <3>1, Untouched
  <2> QED BY <2>1, <2>2
<1>3. /\ realm' \in [RealmIDs -> RealmRecord]
      /\ process' \in [RealmIDs -> ProcessRecord]
      /\ group' \in [RealmIDs -> GroupRecord]
      /\ shutdown' \in Phases
  BY <1>1, <1>2 DEF AllSound, TypeOK, DispatchPendingEvents
<1> QED BY <1>1, <1>2, <1>3, Pointwise

-----------------------------------------------------------------------------
(* The shutdown. *)

\* The first round of shutdown asks every group to end.
LEMMA ShutdownBeginSound ==
    ASSUME AllSound, ShutdownBegin
    PROVE  AllSound'
<1>1. /\ shutdown = "no" /\ shutdown' = "terminating" /\ UNCHANGED <<realms, issued>>
  BY DEF ShutdownBegin
<1>2. ASSUME NEW i \in RealmIDs
      PROVE  /\ realm'[i] \in RealmRecord
             /\ process'[i] \in ProcessRecord
             /\ group'[i] \in GroupRecord
             /\ Sound(realm'[i], process'[i], group'[i], i \in realms, shutdown' = "done")
  <2> DEFINE exists == i \in realms
             over == shutdown = "done"
             ending == realm[i].state \in {"CREATING", "RUNNING", "PAUSED"}
  <2>1. /\ realm[i] \in RealmRecord /\ process[i] \in ProcessRecord /\ group[i] \in GroupRecord
        /\ Sound(realm[i], process[i], group[i], exists, over)
        /\ over <=> shutdown' = "done"
    BY <1>1, Untouched
  <2> HIDE DEF exists, over
  <2>2. CASE process[i].present /\ ending
    <3>1. /\ realm'[i] = Revoked(TransitionTo(realm[i], "STOPPING"))
          /\ process'[i] = Deadline(process[i])
          /\ group'[i] = Terminate(realm[i], group[i])
      BY <2>2 DEF ShutdownBegin
    <3>2. /\ realm'[i] \in RealmRecord /\ process'[i] \in ProcessRecord
          /\ group'[i] \in GroupRecord
          /\ Sound(realm'[i], process'[i], group'[i], exists, over)
      BY <2>1, <2>2, <3>1, EndedRealm
    <3> QED BY <1>1, <3>2 DEF exists, over
  <2>3. CASE process[i].present /\ ~ending
    <3>1. /\ realm'[i] = realm[i] /\ process'[i] = Deadline(process[i])
          /\ group'[i] = Terminate(realm[i], group[i])
      BY <2>3 DEF ShutdownBegin
    <3>2. Terminate(realm[i], group[i]) = Signal(group[i], "TERM")
      BY <2>3 DEF Terminate
    <3>3. /\ process'[i] \in ProcessRecord /\ group'[i] \in GroupRecord
          /\ process'[i].present /\ process'[i].exitReceived = process[i].exitReceived
          /\ process'[i].failOnExit = process[i].failOnExit
          /\ process'[i].termination = "pending"
          /\ group'[i].signals = group[i].signals \cup {"TERM"}
          /\ group'[i].compositor = group[i].compositor
          /\ group'[i].applications = group[i].applications
      BY <2>1, <2>3, <3>1, <3>2 DEF Deadline, Signal, ProcessRecord, GroupRecord
    <3>4. Sound(realm'[i], process'[i], group'[i], exists, over)
      BY <2>1, <2>3, <3>1, <3>3 DEF Sound, Active, Executing
    <3> QED BY <1>1, <2>1, <3>1, <3>3, <3>4 DEF exists, over
  <2>4. CASE ~process[i].present
    <3>1. realm'[i] = realm[i] /\ process'[i] = process[i] /\ group'[i] = group[i]
      BY <2>4 DEF ShutdownBegin
    <3> QED BY <1>1, <2>1, <3>1 DEF exists, over
  <2> QED BY <2>2, <2>3, <2>4
<1>3. /\ realm' \in [RealmIDs -> RealmRecord]
      /\ process' \in [RealmIDs -> ProcessRecord]
      /\ group' \in [RealmIDs -> GroupRecord]
      /\ shutdown' \in Phases
  BY <1>1, <1>2 DEF AllSound, TypeOK, ShutdownBegin, Phases
<1> QED BY <1>1, <1>2, <1>3, Pointwise

\* The second round kills those that remain.
LEMMA ShutdownKillSound ==
    ASSUME AllSound, ShutdownKill
    PROVE  AllSound'
<1>1. /\ shutdown = "terminating" /\ shutdown' = "killing"
      /\ UNCHANGED <<realms, issued, realm, process>>
  BY DEF ShutdownKill
<1>2. ASSUME NEW i \in RealmIDs
      PROVE  /\ group'[i] \in GroupRecord
             /\ Sound(realm'[i], process'[i], group'[i], i \in realms, shutdown' = "done")
  <2>1. CASE process[i].present
    <3>1. group'[i] = Signal(group[i], "KILL")
      BY <2>1 DEF ShutdownKill
    <3>2. /\ group'[i] \in GroupRecord
          /\ group'[i].signals = group[i].signals \cup {"KILL"}
          /\ group'[i].compositor = group[i].compositor
          /\ group'[i].applications = group[i].applications
      BY <3>1, Untouched DEF Signal, GroupRecord
    <3> QED BY <1>1, <2>1, <3>2, Untouched DEF Sound, Executing
  <2>2. CASE ~process[i].present
    <3>1. group'[i] = group[i]
      BY <2>2 DEF ShutdownKill
    <3> QED BY <1>1, <3>1, Untouched
  <2> QED BY <2>1, <2>2
<1>3. /\ realm' \in [RealmIDs -> RealmRecord]
      /\ process' \in [RealmIDs -> ProcessRecord]
      /\ group' \in [RealmIDs -> GroupRecord]
      /\ shutdown' \in Phases
  BY <1>1, <1>2 DEF AllSound, TypeOK, ShutdownKill, Phases
<1> QED BY <1>1, <1>2, <1>3, Pointwise

(* What the end of the shutdown leaves of a realm, before directories go. *)
LEMMA FinishedRealm ==
    ASSUME NEW r \in RealmRecord, NEW kept \in BOOLEAN
    PROVE  LET m == MoveAndEmit(ForgetPID(r), "STOPPED", "STOPPED")
               f == IF r.state = "STOPPING" THEN m ELSE ForgetPID(r)
               x == [f EXCEPT !.runtime = @ /\ kept]
           IN  /\ x \in RealmRecord
               /\ x.state = (IF r.state = "STOPPING" THEN "STOPPED" ELSE r.state)
               /\ x.inputOwner = r.inputOwner /\ x.observation = r.observation
               /\ x.capabilities = r.capabilities /\ ~x.compositorPID
<1> DEFINE v == ForgetPID(r)
           f == IF r.state = "STOPPING" THEN MoveAndEmit(v, "STOPPED", "STOPPED") ELSE v
<1>1. v \in RealmRecord
  BY RealmOperations DEF States, Events
<1>2. /\ v.state = r.state /\ v.inputOwner = r.inputOwner /\ v.observation = r.observation
      /\ v.capabilities = r.capabilities /\ v.compositorPID = FALSE
  BY DEF ForgetPID, RealmRecord
<1> HIDE DEF v
<1>3. /\ f \in RealmRecord
      /\ f.state = (IF r.state = "STOPPING" THEN "STOPPED" ELSE r.state)
      /\ f.inputOwner = r.inputOwner /\ f.observation = r.observation
      /\ f.capabilities = r.capabilities /\ f.compositorPID = FALSE
  <2>1. CASE r.state = "STOPPING"
    <3>1. CanMove(v, "STOPPED")
      BY <1>2, <2>1 DEF CanMove, Transitions
    <3>2. /\ MoveAndEmit(v, "STOPPED", "STOPPED") \in RealmRecord
          /\ MoveAndEmit(v, "STOPPED", "STOPPED")
                = [v EXCEPT !.state = "STOPPED", !.announced = "STOPPED"]
      BY <1>1, <3>1, Moves, RealmOperations DEF States, Events
    <3> QED BY <1>1, <1>2, <2>1, <3>2 DEF RealmRecord
  <2>2. CASE r.state # "STOPPING"
    BY <1>1, <1>2, <2>2
  <2> QED BY <2>1, <2>2
<1> HIDE DEF f
<1>4. LET x == [f EXCEPT !.runtime = @ /\ kept]
      IN  /\ x \in RealmRecord
          /\ x.state = f.state /\ x.inputOwner = f.inputOwner
          /\ x.observation = f.observation /\ x.capabilities = f.capabilities
          /\ x.compositorPID = f.compositorPID
  BY <1>3 DEF RealmRecord
<1> QED BY <1>3, <1>4 DEF f, v

\* The last round leaves no process and no realm that runs.
LEMMA ShutdownFinishSound ==
    ASSUME AllSound, Quiet, ShutdownFinish
    PROVE  AllSound'
<1>1. /\ shutdown = "killing" /\ shutdown' = "done" /\ UNCHANGED <<realms, issued>>
      /\ process' = [i \in RealmIDs |-> NoProcess]
  BY DEF ShutdownFinish
<1>2. PICK keeping \in SUBSET realms :
         realm' = [i \in RealmIDs |->
             LET r == IF ~process[i].present THEN realm[i]
                      ELSE IF realm[i].state = "STOPPING"
                      THEN MoveAndEmit(ForgetPID(realm[i]), "STOPPED", "STOPPED")
                      ELSE ForgetPID(realm[i])
             IN  [r EXCEPT !.runtime = @ /\ i \in keeping]]
  BY DEF ShutdownFinish
<1>3. ASSUME NEW i \in RealmIDs
      PROVE  /\ realm'[i] \in RealmRecord
             /\ group'[i] \in GroupRecord
             /\ Sound(realm'[i], process'[i], group'[i], i \in realms, shutdown' = "done")
  <2>1. realm[i].state \notin Live
    BY <1>1 DEF Quiet
  <2>2. process'[i] = NoProcess /\ ~NoProcess.present
    BY <1>1 DEF NoProcess
  <2> DEFINE kept == i \in keeping
  <2>3. kept \in BOOLEAN
    OBVIOUS
  <2>4. CASE process[i].present
    <3> DEFINE m == MoveAndEmit(ForgetPID(realm[i]), "STOPPED", "STOPPED")
               f == IF realm[i].state = "STOPPING" THEN m ELSE ForgetPID(realm[i])
    <3>1. realm'[i] = [f EXCEPT !.runtime = @ /\ kept]
      BY <1>2, <2>4
    <3>2. group'[i] = [Signal(group[i], "KILL") EXCEPT !.supervisor = "none"]
      BY <2>4 DEF ShutdownFinish
    <3> HIDE DEF kept
    <3>3. /\ realm'[i] \in RealmRecord
          /\ realm'[i].state
                = (IF realm[i].state = "STOPPING" THEN "STOPPED" ELSE realm[i].state)
          /\ realm'[i].inputOwner = realm[i].inputOwner
          /\ realm'[i].observation = realm[i].observation
          /\ realm'[i].capabilities = realm[i].capabilities
          /\ ~realm'[i].compositorPID
      BY <2>3, <3>1, Untouched, FinishedRealm
    <3>4. /\ group'[i] \in GroupRecord
          /\ group'[i].signals = group[i].signals \cup {"KILL"}
          /\ group'[i].compositor = group[i].compositor
          /\ group'[i].applications = group[i].applications
      <4> DEFINE g == Signal(group[i], "KILL")
      <4>1. /\ g \in GroupRecord
            /\ g.signals = group[i].signals \cup {"KILL"}
            /\ g.compositor = group[i].compositor /\ g.applications = group[i].applications
        BY Untouched DEF Signal, GroupRecord
      <4>2. group'[i] = [g EXCEPT !.supervisor = "none"]
        BY <3>2
      <4> HIDE DEF g
      <4> QED BY <4>1, <4>2 DEF GroupRecord
    <3> QED
      BY <1>1, <2>1, <2>2, <3>3, <3>4, Untouched
      DEF Sound, Active, Allows, Executing, Live, RealmRecord, States
  <2>5. CASE ~process[i].present
    <3>1. realm'[i] = [realm[i] EXCEPT !.runtime = @ /\ kept]
      BY <1>2, <2>5
    <3>2. group'[i] = group[i]
      BY <2>5 DEF ShutdownFinish
    <3> HIDE DEF kept
    <3>3. /\ realm'[i] \in RealmRecord
          /\ realm'[i].state = realm[i].state
          /\ realm'[i].inputOwner = realm[i].inputOwner
          /\ realm'[i].observation = realm[i].observation
          /\ realm'[i].capabilities = realm[i].capabilities
          /\ realm'[i].compositorPID = realm[i].compositorPID
      BY <2>3, <3>1, Untouched DEF RealmRecord
    <3> QED
      BY <1>1, <2>2, <2>5, <3>2, <3>3, Untouched DEF Sound, Active, Allows
  <2> QED BY <2>4, <2>5
<1>4. /\ realm' \in [RealmIDs -> RealmRecord]
      /\ process' \in [RealmIDs -> ProcessRecord]
      /\ group' \in [RealmIDs -> GroupRecord]
      /\ shutdown' \in Phases
  <2>1. realm' \in [RealmIDs -> RealmRecord]
    BY <1>2, <1>3
  <2>2. group' \in [RealmIDs -> GroupRecord]
    BY <1>3 DEF ShutdownFinish
  <2>3. process' \in [RealmIDs -> ProcessRecord]
    BY <1>1, FreshRecords
  <2> QED BY <1>1, <2>1, <2>2, <2>3 DEF Phases
<1> QED BY <1>1, <1>3, <1>4, Pointwise

-----------------------------------------------------------------------------
(* The operating system. *)

(* A group to which nothing is added but a signal-free change. *)
LEMMA GroupSound ==
    ASSUME AllSound, NEW i \in RealmIDs, NEW g \in GroupRecord, UpdateGroup(i, g),
           g.signals = group[i].signals, Executing(g) => Executing(group[i])
    PROVE  AllSound'
<1>1. /\ group' = [group EXCEPT ![i] = g]
      /\ realm' = [realm EXCEPT ![i] = realm[i]]
      /\ process' = [process EXCEPT ![i] = process[i]]
      /\ UNCHANGED <<realms, issued, shutdown>>
  BY Untouched DEF UpdateGroup
<1>2. Sound(realm[i], process[i], g, i \in realms, shutdown = "done")
  BY Untouched DEF Sound
<1> QED BY <1>1, <1>2, Untouched, OneRealm

(* A deadline that passes leaves the entry otherwise as it was. *)
LEMMA ClockSound ==
    ASSUME AllSound, NEW i \in RealmIDs, NEW p \in ProcessRecord, UpdateProcess(i, p),
           p.present = process[i].present, p.exitReceived = process[i].exitReceived,
           p.failOnExit = process[i].failOnExit,
           p.termination = "none" => process[i].termination = "none"
    PROVE  AllSound'
<1>1. /\ process' = [process EXCEPT ![i] = p]
      /\ realm' = [realm EXCEPT ![i] = realm[i]]
      /\ group' = [group EXCEPT ![i] = group[i]]
      /\ UNCHANGED <<realms, issued, shutdown>>
  BY Untouched DEF UpdateProcess
<1>2. Sound(realm[i], p, group[i], i \in realms, shutdown = "done")
  BY Untouched DEF Sound
<1> QED BY <1>1, <1>2, Untouched, OneRealm

\* What the operating system does to a process leaves its realm sound.
LEMMA SystemSound ==
    ASSUME AllSound, NEW i \in RealmIDs, OperatingSystem(i)
    PROVE  AllSound'
<1>0. process[i] \in ProcessRecord /\ group[i] \in GroupRecord
  BY Untouched
<1>1. CASE PublishDisplay(i)
  <2> DEFINE g == [group[i] EXCEPT !.published = ~@]
  <2>1. UpdateGroup(i, g)
    BY <1>1 DEF PublishDisplay
  <2>2. /\ g \in GroupRecord /\ g.signals = group[i].signals
        /\ Executing(g) => Executing(group[i])
    BY <1>0 DEF GroupRecord, Executing
  <2> QED BY <2>1, <2>2, GroupSound
<1>2. CASE CompositorExits(i)
  <2> DEFINE g == [group[i] EXCEPT !.compositor = "exited"]
  <2>1. UpdateGroup(i, g)
    BY <1>2 DEF CompositorExits
  <2>2. /\ g \in GroupRecord /\ g.signals = group[i].signals
        /\ Executing(g) => Executing(group[i])
    BY <1>0 DEF GroupRecord, Executing
  <2> QED BY <2>1, <2>2, GroupSound
<1>3. ASSUME NEW a \in Applications, ApplicationExits(i, a)
      PROVE  AllSound'
  <2> DEFINE g == [group[i] EXCEPT !.applications = @ \ {a}]
  <2>1. UpdateGroup(i, g)
    BY <1>3 DEF ApplicationExits
  <2>2. /\ g \in GroupRecord /\ g.signals = group[i].signals
        /\ Executing(g) => Executing(group[i])
    BY <1>0 DEF GroupRecord, Executing
  <2> QED BY <2>1, <2>2, GroupSound
<1>4. CASE SupervisorReports(i) \/ SupervisorExits(i) \/ SupervisorCrashes(i)
  <2>1. PICK s \in {"reported", "gone", "crashed"} :
           UpdateGroup(i, [group[i] EXCEPT !.supervisor = s])
    BY <1>4 DEF SupervisorReports, SupervisorExits, SupervisorCrashes
  <2> DEFINE g == [group[i] EXCEPT !.supervisor = s]
  <2>2. /\ g \in GroupRecord /\ g.signals = group[i].signals
        /\ Executing(g) => Executing(group[i])
    BY <1>0 DEF GroupRecord, Executing
  <2> QED BY <2>1, <2>2, GroupSound
<1>5. CASE StartupDeadlinePasses(i)
  <2> DEFINE p == [process[i] EXCEPT !.startup = "passed"]
  <2>1. UpdateProcess(i, p)
    BY <1>5 DEF StartupDeadlinePasses
  <2>2. /\ p \in ProcessRecord
        /\ p.present = process[i].present /\ p.exitReceived = process[i].exitReceived
        /\ p.failOnExit = process[i].failOnExit /\ p.termination = process[i].termination
    BY <1>0 DEF ProcessRecord
  <2> QED BY <2>1, <2>2, ClockSound
<1>6. CASE TerminationDeadlinePasses(i)
  <2> DEFINE p == [process[i] EXCEPT !.termination = "passed"]
  <2>1. UpdateProcess(i, p)
    BY <1>6 DEF TerminationDeadlinePasses
  <2>2. /\ p \in ProcessRecord
        /\ p.present = process[i].present /\ p.exitReceived = process[i].exitReceived
        /\ p.failOnExit = process[i].failOnExit /\ p.termination = "passed"
    BY <1>0 DEF ProcessRecord
  <2> QED BY <2>1, <2>2, ClockSound
<1>7. CASE StrayExits(i)
  <2> DEFINE g == [group[i] EXCEPT !.stray = FALSE]
  <2>1. UpdateGroup(i, g)
    BY <1>7 DEF StrayExits
  <2>2. /\ g \in GroupRecord /\ g.signals = group[i].signals
        /\ Executing(g) => Executing(group[i])
    BY <1>0, StrayGroup
  <2> QED BY <2>1, <2>2, GroupSound
<1> QED BY <1>1, <1>2, <1>3, <1>4, <1>5, <1>6, <1>7 DEF OperatingSystem

-----------------------------------------------------------------------------
(* No realm is live once the shutdown has begun. *)

\* Every request leaves the manager sound, and none is served at shutdown.
LEMMA RequestSound ==
    ASSUME AllSound, NEW i \in RealmIDs, Request(i)
    PROVE  AllSound' /\ shutdown = "no" /\ shutdown' = "no"
<1>1. CASE CreateRealm(i)
  BY <1>1, CreateSound DEF CreateRealm, Serving
<1>2. CASE StartRealm(i)
  BY <1>2, UnpreparedSound, UnexecutedSound, LaunchedSound
  DEF StartRealm, StartUnprepared, StartUnlaunched, StartUnexecuted, StartLaunched,
      MayStart, Serving
<1>3. ASSUME NEW a \in Applications, OpenApplication(i, a)
      PROVE  AllSound' /\ shutdown = "no" /\ shutdown' = "no"
  BY <1>3, OpenSound DEF OpenApplication, Serving
<1>4. CASE PauseRealm(i)
  BY <1>4, PauseSound DEF PauseRealm, PauseRealms, Serving
<1>5. CASE ResumeRealm(i)
  BY <1>5, ResumeSound DEF ResumeRealm, Serving
<1>6. CASE StopRealm(i)
  BY <1>6, StopSound DEF StopRealm, Serving
<1>7. CASE KillRealm(i)
  BY <1>7, KillSound DEF KillRealm, Serving
<1>8. CASE TakeoverRealm(i) \/ ReleaseRealm(i)
  BY <1>8, LeaseSound DEF TakeoverRealm, ReleaseRealm, UpdateRealm, Serving
<1>9. CASE AllowObservation(i) \/ DenyObservation(i)
  BY <1>9, ObservationSound DEF AllowObservation, DenyObservation, UpdateRealm, Serving
<1>10. ASSUME NEW c \in Capabilities, GrantCapability(i, c) \/ RevokeCapability(i, c)
       PROVE  AllSound' /\ shutdown = "no" /\ shutdown' = "no"
  BY <1>10, CapabilitySound DEF GrantCapability, RevokeCapability, UpdateRealm, Serving
<1>11. CASE DestroyRealm(i)
  BY <1>11, DestroySound DEF DestroyRealm, Serving
<1> QED
  BY <1>1, <1>2, <1>3, <1>4, <1>5, <1>6, <1>7, <1>8, <1>9, <1>10, <1>11 DEF Request

\* A dispatch revives no realm once shutdown has begun.
LEMMA QuietDispatch ==
    ASSUME AllSound, Quiet, DispatchPendingEvents
    PROVE  Quiet'
<1>1. SUFFICES ASSUME shutdown # "no", NEW i \in RealmIDs
               PROVE  realm'[i].state \notin Live
  BY DEF Quiet, DispatchPendingEvents
<1>2. realm[i].state \notin Live
  BY <1>1 DEF Quiet
<1>3. CASE process[i].present
  <2> DEFINE x == DispatchedRealm(realm[i], process[i], group[i])
             f == Finding(realm[i], process[i], group[i])
  <2>1. realm'[i] = x
    BY <1>3 DEF DispatchPendingEvents
  <2>2. f \in {"exit", "nothing"}
    BY <1>2, Findings DEF Live
  <2>3. process[i].failOnExit => realm[i].state = "FAILED"
    BY <1>3, Untouched DEF Sound
  <2>4. /\ f = "exit" => x.state \in {"STOPPED", "FAILED"}
        /\ f = "nothing" => x = realm[i]
    BY <2>3, Untouched, DispatchedRealmIs
  <2> HIDE DEF x, f
  <2> QED BY <1>2, <2>1, <2>2, <2>4 DEF Live
<1>4. CASE ~process[i].present
  BY <1>2, <1>4 DEF DispatchPendingEvents
<1> QED BY <1>3, <1>4

\* No round of shutdown revives a realm.
LEMMA QuietShutdown ==
    ASSUME AllSound, Quiet, ShutdownBegin \/ ShutdownKill \/ ShutdownFinish
    PROVE  Quiet'
<1>1. CASE ShutdownBegin
  <2>1. SUFFICES ASSUME NEW i \in RealmIDs
                 PROVE  realm'[i].state \notin Live
    BY DEF Quiet
  <2>2. CASE process[i].present /\ realm[i].state \in Live
    <3>1. realm'[i] = Revoked(TransitionTo(realm[i], "STOPPING"))
      BY <1>1, <2>2 DEF ShutdownBegin, Live
    <3>2. TransitionTo(realm[i], "STOPPING") = [realm[i] EXCEPT !.state = "STOPPING"]
      BY <2>2, Untouched, Moves DEF CanMove, Transitions, Live, States, Events
    <3>3. realm'[i].state = "STOPPING"
      BY <3>1, <3>2, Untouched DEF Revoked, SetObservation, SetInputOwner, RealmRecord
    <3> QED BY <3>3 DEF Live
  <2>3. CASE ~(process[i].present /\ realm[i].state \in Live)
    <3>1. realm'[i] = realm[i]
      BY <1>1, <2>3 DEF ShutdownBegin, Live
    <3>2. realm[i].state \in Live => process[i].present
      BY Untouched DEF Sound, Active, Live
    <3> QED BY <2>3, <3>1, <3>2
  <2> QED BY <2>2, <2>3
<1>2. CASE ShutdownKill
  BY <1>2 DEF ShutdownKill, Quiet
<1>3. CASE ShutdownFinish
  <2>1. SUFFICES ASSUME NEW i \in RealmIDs
                 PROVE  realm'[i].state \notin Live
    BY DEF Quiet
  <2>2. realm[i].state \notin Live
    BY <1>3 DEF Quiet, ShutdownFinish
  <2>3. PICK kept \in BOOLEAN :
           realm'[i] = [(IF ~process[i].present THEN realm[i]
                         ELSE IF realm[i].state = "STOPPING"
                         THEN MoveAndEmit(ForgetPID(realm[i]), "STOPPED", "STOPPED")
                         ELSE ForgetPID(realm[i])) EXCEPT !.runtime = @ /\ kept]
    BY <1>3 DEF ShutdownFinish
  <2>4. CASE process[i].present
    <3>1. realm'[i].state = (IF realm[i].state = "STOPPING" THEN "STOPPED" ELSE realm[i].state)
      BY <2>3, <2>4, Untouched, FinishedRealm
    <3> QED BY <2>2, <3>1 DEF Live
  <2>5. CASE ~process[i].present
    <3>1. realm'[i] = [realm[i] EXCEPT !.runtime = @ /\ kept]
      BY <2>3, <2>5
    <3> QED BY <2>2, <3>1, Untouched DEF RealmRecord
  <2> QED BY <2>4, <2>5
<1> QED BY <1>1, <1>2, <1>3

-----------------------------------------------------------------------------
(* The inductive invariant. *)

\* The manager starts sound: it has no realms.
LEMMA Initially == Init => IInv
<1> SUFFICES ASSUME Init PROVE IInv
  OBVIOUS
<1>1. TypeOK
  BY FreshRecords DEF Init, TypeOK, Phases
<1>2. ASSUME NEW i \in RealmIDs
      PROVE  Sound(realm[i], process[i], group[i], i \in realms, shutdown = "done")
  BY DEF Init, Sound, FreshRealm, NoProcess, NoGroup, Active, Executing
<1> QED BY <1>1, <1>2 DEF IInv, AllSound, Quiet, Init

\* Every step of the manager or of the system keeps it sound.
LEMMA Inductive == IInv /\ [Next]_vars => IInv'
<1> SUFFICES ASSUME IInv, [Next]_vars PROVE IInv'
  OBVIOUS
<1> USE DEF IInv
<1>1. ASSUME NEW i \in RealmIDs, Request(i)
      PROVE  IInv'
  BY <1>1, RequestSound DEF Quiet
<1>2. CASE PauseAllRealms
  BY <1>2, PauseSound DEF PauseAllRealms, PauseRealms, Serving, Quiet
<1>3. CASE DispatchPendingEvents
  BY <1>3, DispatchSound, QuietDispatch
<1>4. CASE ShutdownBegin \/ ShutdownKill \/ ShutdownFinish
  BY <1>4, ShutdownBeginSound, ShutdownKillSound, ShutdownFinishSound, QuietShutdown
<1>5. ASSUME NEW i \in RealmIDs, OperatingSystem(i)
      PROVE  IInv'
  <2>1. UNCHANGED <<realm, shutdown>>
    BY <1>5
    DEF OperatingSystem, PublishDisplay, CompositorExits, ApplicationExits, SupervisorReports,
        SupervisorExits, SupervisorCrashes, StrayExits, StartupDeadlinePasses,
        TerminationDeadlinePasses, UpdateGroup, UpdateProcess
  <2> QED BY <1>5, <2>1, SystemSound DEF Quiet
<1>6. CASE UNCHANGED vars
  BY <1>6 DEF vars, AllSound, TypeOK, Quiet
<1> QED BY <1>1, <1>2, <1>3, <1>4, <1>5, <1>6 DEF Next, HostLoop

-----------------------------------------------------------------------------
(* The theorems. *)

(* The inductive invariant holds in every reachable state: the records of
   each realm agree with one another, whatever the other realms do. *)
THEOREM Invariance == Spec => []IInv
BY Initially, Inductive, PTL DEF Spec

(* Every variable keeps its type: no handler writes an unknown state. *)
THEOREM TypeCorrect == Spec => []TypeOK
<1>1. IInv => TypeOK
  BY DEF IInv, AllSound
<1> QED BY <1>1, Invariance, PTL

(* Input has an owner exactly while a realm runs: pauseRealm, stopRealm,
   killRealm, handleProcessExit and shutdownAll all take the lease away. *)
THEOREM Ownership == Spec => []OwnedIffRunning
<1>1. IInv => OwnedIffRunning
  BY DEF IInv, AllSound, Sound, OwnedIffRunning
<1> QED BY <1>1, Invariance, PTL

(* An observation permission in force is backed by the observe capability
   and by a realm that runs or is paused. *)
THEOREM Observation == Spec => []ObservationIsBacked
<1>1. IInv => ObservationIsBacked
  BY DEF IInv, AllSound, Sound, ObservationIsBacked
<1> QED BY <1>1, Invariance, PTL

(* An active realm is supervised, a stopping one has a deadline armed. *)
THEOREM Supervision == Spec => []ActiveIsSupervised
<1>1. IInv => ActiveIsSupervised
  BY DEF IInv, AllSound, Sound, ActiveIsSupervised
<1> QED BY <1>1, Invariance, PTL

(* A recorded compositor PID belongs to a supervised compositor, so that
   realmByPID never associates a window with a realm that has ended. *)
THEOREM CurrentPIDs == Spec => []PIDIsCurrent
<1>1. IInv => PIDIsCurrent
  BY DEF IInv, AllSound, Sound, PIDIsCurrent
<1> QED BY <1>1, Invariance, PTL

(* Whatever executes in the group of a launched compositor has an entry and
   a realm, or was sent SIGKILL by shutdownAll.  (A stray compositor, of
   which the manager was never told, is in no such group.) *)
THEOREM GroupSupervision == Spec => []GroupsAreSupervised
<1>1. IInv => GroupsAreSupervised
  BY DEF IInv, AllSound, Sound, GroupsAreSupervised
<1> QED BY <1>1, Invariance, PTL

(* The runtime directory of a supervised realm outlives its entry. *)
THEOREM RuntimeIsKept == Spec => []RuntimeOutlivesProcess
<1>1. IInv => RuntimeOutlivesProcess
  BY DEF IInv, AllSound, Sound, RuntimeOutlivesProcess
<1> QED BY <1>1, Invariance, PTL
=============================================================================
