----------------------- MODULE SessionWatchdogProofs -----------------------
(***************************************************************************)
(* Proofs about the session lock and its watchdog, for any number of       *)
(* locks, monitors and restarts.                                           *)
(***************************************************************************)
EXTENDS SessionWatchdog, SequenceTheorems, TLAPS

Running == proc \in {"starting", "up", "ending"}
Ended   == proc = "ending" \/ died = "ending"
Up      == proc \in {"up", "ending"} \/ died \in {"up", "ending"}

\* The lock that holds the session exists, and is not told twice.
HolderInv ==
    /\ session # NoLock => phase[session] = "live"
    /\ answered => session # NoLock
    /\ \A l \in Locks : phase[l] = "none" => told[l] = <<>>
    /\ session # NoLock /\ ~answered => told[session] = <<>>
    /\ LockedOnce

\* With what is in the pipe, the watchdog knows how far the compositor got.
StageInv ==
    /\ died = "no" <=> Running
    /\ proc = "starting" => pipe = <<>> /\ session = NoLock /\ ~unheard /\ (arg <=> wasLocked)
    /\ watch = "polling" => (exiting \/ Heard(pipe, "end") <=> Ended)
    /\ initialized \/ Heard(pipe, "vax") <=> Up

\* EveryoneAgrees, of a compositor that is dead too; a replaced lock that
\* unlocks the session leaves the watchdog with a locked one.
AgreeInv ==
    Up => /\ unheard => ~locked /\ Says(pipe, wasLocked)
          /\ ~unheard => /\ session # NoLock => locked
                         /\ ClientLocked => notified
                         /\ notified => locked
                         /\ Says(pipe, wasLocked) <=> locked

IInv == TypeOK /\ HolderInv /\ StageInv /\ AgreeInv

-----------------------------------------------------------------------------
(* What a reader of the pipe makes of one more message. *)

LEMMA AppendedAt ==
    ASSUME NEW S, NEW p \in Seq(S), NEW e \in S
    PROVE  /\ DOMAIN Append(p, e) = DOMAIN p \cup {Len(p) + 1}
           /\ \A i \in DOMAIN p : Append(p, e)[i] = p[i] /\ i < Len(p) + 1
           /\ Append(p, e)[Len(p) + 1] = e
           /\ DOMAIN p \subseteq Nat /\ Len(p) \in Nat
  OBVIOUS

LEMMA SaysAppend ==
    ASSUME NEW p \in Seq(Message), NEW e \in Message, NEW w \in BOOLEAN
    PROVE  /\ e = "lock" => Says(Append(p, e), w)
           /\ e = "unlock" => ~Says(Append(p, e), w)
           /\ e \notin {"lock", "unlock"} => (Says(Append(p, e), w) <=> Says(p, w))
<1> DEFINE q == Append(p, e)  n == Len(p) + 1
<1>1. /\ DOMAIN q = DOMAIN p \cup {n}
      /\ \A i \in DOMAIN p : q[i] = p[i] /\ i < n
      /\ q[n] = e
      /\ DOMAIN p \subseteq Nat /\ n \in Nat
  BY AppendedAt
<1> HIDE DEF q, n
<1>2. e = "lock" => Says(q, w)
  <2> SUFFICES ASSUME e = "lock" PROVE Says(q, w)
    OBVIOUS
  <2>1. n \in DOMAIN q /\ q[n] = "lock"
    BY <1>1
  <2>2. \A j \in DOMAIN q : ~(j > n)
    BY <1>1
  <2>3. QED
    BY <2>1, <2>2 DEF Says
<1>3. e = "unlock" => ~Says(q, w)
  <2> SUFFICES ASSUME e = "unlock" PROVE ~Says(q, w)
    OBVIOUS
  <2>1. n \in DOMAIN q /\ q[n] = "unlock"
    BY <1>1
  <2>2. \A i \in DOMAIN q : i = n \/ n > i
    BY <1>1
  <2>3. QED
    BY <2>1, <2>2 DEF Says
<1>4. e \notin {"lock", "unlock"} => (Says(q, w) <=> Says(p, w))
  <2> SUFFICES ASSUME e \notin {"lock", "unlock"} PROVE Says(q, w) <=> Says(p, w)
    OBVIOUS
  <2>1. (\A j \in DOMAIN q : q[j] # "unlock") <=> (\A j \in DOMAIN p : p[j] # "unlock")
    BY <1>1
  <2>2. ASSUME NEW i \in DOMAIN p
        PROVE  (\A j \in DOMAIN q : j > i => q[j] # "unlock")
                   <=> (\A j \in DOMAIN p : j > i => p[j] # "unlock")
    BY <1>1
  <2>3. QED
    BY <1>1, <2>1, <2>2 DEF Says
<1>5. QED
  BY <1>2, <1>3, <1>4 DEF q

LEMMA HeardAppend ==
    ASSUME NEW p \in Seq(Message), NEW e \in Message, NEW word
    PROVE  Heard(Append(p, e), word) <=> Heard(p, word) \/ e = word
<1> DEFINE q == Append(p, e)  n == Len(p) + 1
<1>1. /\ DOMAIN q = DOMAIN p \cup {n}
      /\ \A i \in DOMAIN p : q[i] = p[i]
      /\ q[n] = e
  BY AppendedAt
<1> HIDE DEF q, n
<1>2. QED
  BY <1>1 DEF Heard, q

LEMMA EmptyPipe ==
    ASSUME NEW w \in BOOLEAN, NEW word
    PROVE  (Says(<<>>, w) <=> w) /\ ~Heard(<<>>, word)
  BY DEF Says, Heard

\* The client is told one more event: "locked" only if it was told nothing.
LEMMA ToldOnce ==
    ASSUME NEW p \in Seq(Event), NEW e \in Event, p = <<>> \/ e # "locked",
           \A i \in DOMAIN p : p[i] = "locked" => i = 1
    PROVE  /\ Append(p, e) \in Seq(Event)
           /\ \A i \in DOMAIN Append(p, e) : Append(p, e)[i] = "locked" => i = 1
<1> DEFINE q == Append(p, e)  n == Len(p) + 1
<1>1. /\ DOMAIN q = DOMAIN p \cup {n}
      /\ \A i \in DOMAIN p : q[i] = p[i]
      /\ q[n] = e
  BY AppendedAt
<1>2. q \in Seq(Event)
  OBVIOUS
<1>3. p = <<>> => n = 1
  OBVIOUS
<1> HIDE DEF q, n
<1>4. \A i \in DOMAIN q : q[i] = "locked" => i = 1
  BY <1>1, <1>3
<1>5. QED
  BY <1>2, <1>4 DEF q

-----------------------------------------------------------------------------
(* The parts of the invariant that every step of the session lock shares. *)

\* What is written to the pipe by a step of the session lock.
Written == pipe' \in {pipe, Append(pipe, "lock"), Append(pipe, "unlock")}

LEMMA ServedStage ==
    ASSUME TypeOK, StageInv, Served, Written
    PROVE  StageInv' /\ (Up /\ Up')
<1>1. ASSUME NEW word \in {"vax", "end"} PROVE Heard(pipe', word) <=> Heard(pipe, word)
  <2>1. pipe \in Seq(Message) /\ "lock" \in Message /\ "unlock" \in Message
    BY DEF TypeOK, LockTypeOK, Message
  <2>2. /\ Heard(Append(pipe, "lock"), word) <=> Heard(pipe, word)
        /\ Heard(Append(pipe, "unlock"), word) <=> Heard(pipe, word)
    BY <2>1, HeardAppend
  <2>3. QED
    BY <2>2 DEF Written
<1>2. UNCHANGED <<process, watch, flags, arg>> /\ proc = "up"
  BY DEF Served
<1>3. /\ (died = "no" <=> Running)'
      /\ (proc = "starting" => pipe = <<>> /\ session = NoLock /\ ~unheard /\ (arg <=> wasLocked))'
  BY <1>2 DEF StageInv, process, Running
<1>4. (watch = "polling" => (exiting \/ Heard(pipe, "end") <=> Ended))'
  BY <1>1, <1>2 DEF StageInv, process, flags, Ended
<1>5. (initialized \/ Heard(pipe, "vax") <=> Up)'
  BY <1>1, <1>2 DEF StageInv, process, flags, Up
<1>6. Up /\ Up'
  BY <1>2 DEF Up, process
<1>7. QED
  BY <1>3, <1>4, <1>5, <1>6 DEF StageInv

LEMMA ServedType ==
    ASSUME TypeOK, Served, LockTypeOK'
    PROVE  TypeOK'
  BY DEF TypeOK, Served, process, flags

\* What a message does to what the watchdog takes the session for.
LEMMA ServedSays ==
    ASSUME TypeOK, Served
    PROVE  /\ pipe' = pipe => (Says(pipe, wasLocked)' <=> Says(pipe, wasLocked))
           /\ pipe' = Append(pipe, "lock") => Says(pipe, wasLocked)'
           /\ pipe' = Append(pipe, "unlock") => ~Says(pipe, wasLocked)'
<1>1. wasLocked' = wasLocked /\ pipe \in Seq(Message) /\ wasLocked \in BOOLEAN
  BY DEF Served, flags, TypeOK, LockTypeOK
<1>2. "lock" \in Message /\ "unlock" \in Message
  BY DEF Message
<1>3. /\ Says(Append(pipe, "lock"), wasLocked)
      /\ ~Says(Append(pipe, "unlock"), wasLocked)
  BY <1>1, <1>2, SaysAppend
<1>4. QED
  BY <1>1, <1>3

\* A message is never the pipe it is appended to.
LEMMA Longer ==
    ASSUME NEW e \in Message, pipe \in Seq(Message), pipe' = Append(pipe, e)
    PROVE  pipe' # pipe
  OBVIOUS

-----------------------------------------------------------------------------
(* The steps of the session lock. *)

LEMMA TakeOverKeeps ==
    ASSUME LockAssumption, IInv, Served, NEW l \in Locks, phase[l] = "none",
           TakeOver(l), locked' = TRUE, UNCHANGED lit
    PROVE  IInv'
<1>1. told[l] = <<>> /\ pipe \in Seq(Message) /\ told \in [Locks -> Seq(Event)]
  BY DEF IInv, TypeOK, LockTypeOK, HolderInv
<1>2. pipe' = Append(pipe, "lock") /\ pipe' \in Seq(Message)
  BY <1>1 DEF TakeOver, LockEvent, Message
<1>3. /\ session' = l /\ l # NoLock
      /\ phase' = [phase EXCEPT ![l] = "live"]
      /\ answered' = (lit = {}) /\ timer' = (lit # {}) /\ shown' = {} /\ mapped' = {}
  BY DEF TakeOver, Hold, LockAssumption
<1>4. Append(<<>>, "locked") \in Seq(Event) /\ \A i \in DOMAIN Append(<<>>, "locked") : i = 1
  BY DEF Event
<1>5. /\ told' \in [Locks -> Seq(Event)]
      /\ \A k \in Locks \ {l} : told'[k] = told[k]
      /\ answered' => notified' = TRUE /\ told'[l] = Append(<<>>, "locked")
      /\ ~answered' => notified' = notified /\ told'[l] = <<>>
  <2>1. CASE lit = {}
    <3>1. told' = [told EXCEPT ![l] = Append(<<>>, "locked")] /\ notified' = TRUE
      BY <1>1, <2>1 DEF TakeOver, SendLocked
    <3>2. QED
      BY <1>1, <1>3, <1>4, <2>1, <3>1
  <2>2. CASE lit # {}
    BY <1>1, <1>3, <2>2 DEF TakeOver
  <2>3. QED
    BY <2>1, <2>2
<1>6. LockTypeOK'
  BY <1>2, <1>3, <1>5 DEF IInv, TypeOK, LockTypeOK, TakeOver, LockEvent
<1>7. HolderInv'
  <2>1. (session # NoLock => phase[session] = "live")' /\ (answered => session # NoLock)'
    BY <1>3 DEF IInv, TypeOK, LockTypeOK
  <2>2. \A k \in Locks : phase'[k] = "none" => told'[k] = <<>>
    BY <1>3, <1>5 DEF IInv, TypeOK, LockTypeOK, HolderInv
  <2>3. (session # NoLock /\ ~answered => told[session] = <<>>)'
    BY <1>3, <1>5
  <2>4. LockedOnce'
    BY <1>4, <1>5 DEF IInv, HolderInv, LockedOnce
  <2>5. QED
    BY <2>1, <2>2, <2>3, <2>4 DEF HolderInv
<1>8. StageInv' /\ Up /\ Up'
  BY <1>2, ServedStage DEF IInv, Written
<1>9. AgreeInv'
  <2>1. ~unheard'
    BY <1>2 DEF Served
  <2>2. Says(pipe, wasLocked)'
    BY <1>2, ServedSays DEF IInv
  <2>3. ClientLocked' => notified'
    BY <1>5 DEF ClientLocked
  <2>4. QED
    BY <2>1, <2>2, <2>3 DEF AgreeInv
<1>10. QED
  BY <1>6, <1>7, <1>8, <1>9, ServedType DEF IInv

LEMMA DenyKeeps ==
    ASSUME LockAssumption, IInv, Served, NEW l \in Locks, phase[l] = "none",
           Deny(l), locked, locked' = TRUE, UNCHANGED lit
    PROVE  IInv'
<1>1. told[l] = <<>> /\ told \in [Locks -> Seq(Event)] /\ phase[l] # "live" /\ l # NoLock
  BY DEF IInv, TypeOK, LockTypeOK, HolderInv, LockAssumption
<1>2. UNCHANGED <<holder, pipe, start, notified>> /\ session # l
  BY <1>1 DEF Deny, IInv, HolderInv
<1>3. Append(<<>>, "finished") \in Seq(Event)
      /\ \A i \in DOMAIN Append(<<>>, "finished") : i = 1
  BY DEF Event
<1>4. /\ told' \in [Locks -> Seq(Event)]
      /\ \A k \in Locks \ {l} : told'[k] = told[k]
      /\ told'[l] = Append(<<>>, "finished")
  BY <1>1, <1>3 DEF Deny
<1>5. phase' = [phase EXCEPT ![l] = "inert"]
  BY DEF Deny
<1>6. LockTypeOK'
  BY <1>2, <1>4, <1>5 DEF IInv, TypeOK, LockTypeOK, holder, start
<1>7. HolderInv'
  <2>1. (session # NoLock => phase[session] = "live")' /\ (answered => session # NoLock)'
    BY <1>2, <1>5 DEF IInv, TypeOK, LockTypeOK, HolderInv, holder
  <2>2. \A k \in Locks : phase'[k] = "none" => told'[k] = <<>>
    BY <1>4, <1>5 DEF IInv, TypeOK, LockTypeOK, HolderInv
  <2>3. (session # NoLock /\ ~answered => told[session] = <<>>)'
    BY <1>2, <1>4 DEF IInv, TypeOK, LockTypeOK, HolderInv, holder
  <2>4. LockedOnce'
    BY <1>3, <1>4 DEF IInv, HolderInv, LockedOnce
  <2>5. QED
    BY <2>1, <2>2, <2>3, <2>4 DEF HolderInv
<1>8. StageInv' /\ Up /\ Up'
  BY <1>2, ServedStage DEF IInv, Written
<1>9. AgreeInv'
  <2>1. ~unheard' /\ ~unheard
    BY <1>8 DEF Served, IInv, AgreeInv
  <2>2. Says(pipe, wasLocked)' <=> Says(pipe, wasLocked)
    BY <1>2, ServedSays DEF IInv
  <2>3. QED
    BY <1>2, <1>8, <2>1, <2>2 DEF IInv, AgreeInv, ClientLocked, holder
<1>10. QED
  BY <1>6, <1>7, <1>8, <1>9, ServedType DEF IInv

LEMMA IgnoreKeeps ==
    ASSUME LockAssumption, IInv, Served, NEW l \in Locks, phase[l] = "none",
           Ignored, Ignore(l), locked' = TRUE, UNCHANGED lit
    PROVE  IInv'
<1>1. told[l] = <<>> /\ told' = told /\ l # NoLock
  BY DEF IInv, HolderInv, LockAssumption, Ignore
<1>2. UNCHANGED <<holder, pipe, start, notified>> /\ session # l
  BY <1>1 DEF Ignore, IInv, HolderInv
<1>3. phase' = [phase EXCEPT ![l] = "live"]
  BY DEF Ignore
<1>4. LockTypeOK'
  BY <1>1, <1>2, <1>3 DEF IInv, TypeOK, LockTypeOK, holder, start
<1>5. HolderInv'
  BY <1>1, <1>2, <1>3 DEF IInv, TypeOK, LockTypeOK, HolderInv, LockedOnce, holder
<1>6. StageInv' /\ Up /\ Up'
  BY <1>2, ServedStage DEF IInv, Written
<1>7. AgreeInv'
  <2>1. ~unheard' /\ ~ClientLocked'
    BY <1>2 DEF Served, Ignored, ClientLocked, holder
  <2>2. Says(pipe, wasLocked)' <=> Says(pipe, wasLocked)
    BY <1>2, ServedSays DEF IInv
  <2>3. Says(pipe, wasLocked)'
    <3>1. CASE unheard
      BY <1>6, <2>2, <3>1 DEF IInv, AgreeInv
    <3>2. CASE ~unheard
      BY <1>6, <2>2, <3>2 DEF IInv, AgreeInv, Ignored
    <3>3. QED
      BY <3>1, <3>2
  <2>4. QED
    BY <2>1, <2>3 DEF AgreeInv
<1>8. QED
  BY <1>4, <1>5, <1>6, <1>7, ServedType DEF IInv

\* A request of a lock: TakeOver, Deny or Ignore.
LEMMA RequestKeeps ==
    ASSUME LockAssumption, IInv, Served, NEW l \in Locks, RequestLock(l)
    PROVE  IInv'
<1>1. /\ phase[l] = "none" /\ locked' = TRUE /\ UNCHANGED lit
      /\ \/ locked /\ Deny(l)
         \/ Ignored /\ Ignore(l)
         \/ TakeOver(l)
  BY DEF RequestLock, Denied
<1>2. QED
  BY <1>1, TakeOverKeeps, DenyKeeps, IgnoreKeeps

LEMMA UnlockKeeps ==
    ASSUME LockAssumption, IInv, Served, NEW l \in Locks, Unlock(l)
    PROVE  IInv'
<1>1. /\ locked' = FALSE /\ notified' = FALSE /\ UNCHANGED <<told, lit>>
      /\ phase[l] = "live" /\ phase' = [phase EXCEPT ![l] = "gone"]
      /\ pipe \in Seq(Message) /\ l # NoLock
  BY DEF Unlock, IInv, TypeOK, LockTypeOK, LockAssumption
<1>2. CASE session = l
  <2>1. pipe' = Append(pipe, "unlock") /\ UnlockEvent /\ Release
    BY <1>2 DEF Unlock, UnlockEvent
  <2>2. pipe' \in Seq(Message) /\ pipe' # pipe
    BY <1>1, <2>1, Longer DEF Message
  <2>3. session' = NoLock /\ answered' = FALSE /\ timer' = FALSE /\ shown' = {} /\ mapped' = {}
    BY <2>1 DEF Release, Hold
  <2>4. LockTypeOK'
    BY <1>1, <2>1, <2>2, <2>3 DEF UnlockEvent, IInv, TypeOK, LockTypeOK
  <2>5. HolderInv'
    BY <1>1, <2>3 DEF IInv, TypeOK, LockTypeOK, HolderInv, LockedOnce
  <2>6. StageInv' /\ Up /\ Up'
    BY <2>1, ServedStage DEF IInv, Written
  <2>7. AgreeInv'
    <3>1. ~UnlockUnheard
      BY <1>1, <1>2 DEF UnlockUnheard, IInv, TypeOK, LockTypeOK
    <3>2. ~unheard'
      BY <2>2, <3>1 DEF Served
    <3>3. ~Says(pipe, wasLocked)'
      BY <2>1, ServedSays DEF IInv
    <3>4. QED
      BY <1>1, <2>3, <3>2, <3>3 DEF AgreeInv, ClientLocked
  <2>8. QED
    BY <2>4, <2>5, <2>6, <2>7, ServedType DEF IInv
<1>3. CASE session # l
  <2>1. UNCHANGED <<pipe, start, holder>>
    BY <1>3 DEF Unlock
  <2>2. LockTypeOK'
    BY <1>1, <2>1 DEF IInv, TypeOK, LockTypeOK, holder, start
  <2>3. HolderInv'
    BY <1>1, <1>3, <2>1 DEF IInv, TypeOK, LockTypeOK, HolderInv, LockedOnce, holder
  <2>4. StageInv' /\ Up /\ Up'
    BY <2>1, ServedStage DEF IInv, Written
  <2>5. Says(pipe, wasLocked)' <=> Says(pipe, wasLocked)
    BY <2>1, ServedSays DEF IInv
  <2>6. locked => unheard'
    BY <1>1, <1>3 DEF Served, UnlockUnheard, IInv, TypeOK, LockTypeOK
  <2>7. ~locked => (unheard' <=> unheard)
    BY <1>1, <2>1 DEF Served, UnlockUnheard, IInv, TypeOK
  <2>8. AgreeInv'
    <3>1. CASE locked
      BY <1>1, <2>4, <2>5, <2>6, <3>1 DEF IInv, AgreeInv
    <3>2. CASE ~locked
      BY <1>1, <2>1, <2>4, <2>5, <2>7, <3>2 DEF IInv, AgreeInv, ClientLocked, holder
    <3>3. QED
      BY <3>1, <3>2
  <2>9. QED
    BY <2>2, <2>3, <2>4, <2>8, ServedType DEF IInv
<1>4. QED
  BY <1>2, <1>3

LEMMA DestroyLockKeeps ==
    ASSUME LockAssumption, IInv, Served, NEW l \in Locks, DestroyLock(l)
    PROVE  IInv'
<1>1. /\ UNCHANGED <<locked, notified, pipe, lit, told, start>>
      /\ phase' = [phase EXCEPT ![l] = "gone"] /\ l # NoLock
  BY DEF DestroyLock, LockAssumption
<1>2. \/ session # l /\ UNCHANGED holder
      \/ /\ session' = NoLock /\ answered' = FALSE /\ timer' = FALSE
         /\ shown' = {} /\ mapped' = {}
  BY DEF DestroyLock, Release, Hold
<1>3. LockTypeOK'
  BY <1>1, <1>2 DEF IInv, TypeOK, LockTypeOK, holder, start
<1>4. HolderInv'
  BY <1>1, <1>2 DEF IInv, TypeOK, LockTypeOK, HolderInv, LockedOnce, holder
<1>5. StageInv' /\ Up /\ Up'
  BY <1>1, ServedStage DEF IInv, Written
<1>6. AgreeInv'
  <2>1. Says(pipe, wasLocked)' <=> Says(pipe, wasLocked)
    BY <1>1, ServedSays DEF IInv
  <2>2. ~UnlockUnheard
    BY <1>1 DEF UnlockUnheard
  <2>3. unheard' <=> (~locked /\ unheard)
    BY <1>1, <2>2 DEF Served
  <2>4. ClientLocked' => ClientLocked
    BY <1>2 DEF ClientLocked, holder
  <2>5. session' # NoLock => session # NoLock
    BY <1>2 DEF holder
  <2>6. QED
    BY <1>1, <1>5, <2>1, <2>3, <2>4, <2>5 DEF IInv, AgreeInv
<1>7. QED
  BY <1>3, <1>4, <1>5, <1>6, ServedType DEF IInv

LEMMA ForceUnlockKeeps ==
    ASSUME LockAssumption, IInv, Served, ForceUnlock
    PROVE  IInv'
<1>1. /\ locked' = FALSE /\ notified' = FALSE /\ UNCHANGED lit
      /\ pipe' = Append(pipe, "unlock") /\ pipe \in Seq(Message)
      /\ UnlockEvent /\ Release
  BY DEF ForceUnlock, UnlockEvent, IInv, TypeOK, LockTypeOK
<1>2. pipe' \in Seq(Message) /\ pipe' # pipe
  BY <1>1, Longer DEF Message
<1>3. session' = NoLock /\ answered' = FALSE /\ timer' = FALSE /\ shown' = {} /\ mapped' = {}
  BY <1>1 DEF Release, Hold
<1>4. ASSUME NEW l \in Locks
      PROVE  /\ told'[l] \in Seq(Event)
             /\ \A i \in DOMAIN told'[l] : told'[l][i] = "locked" => i = 1
             /\ phase'[l] = "none" => told'[l] = <<>>
  <2>1. told[l] \in Seq(Event) /\ \A i \in DOMAIN told[l] : told[l][i] = "locked" => i = 1
    BY DEF IInv, TypeOK, LockTypeOK, HolderInv, LockedOnce
  <2>2. CASE l \in Existing
    <3>1. told'[l] = Append(told[l], "finished") /\ phase'[l] = "inert"
      BY <2>2 DEF ForceUnlock
    <3>2. "finished" \in Event /\ "finished" # "locked"
      BY DEF Event
    <3>3. QED
      BY <2>1, <3>1, <3>2, ToldOnce
  <2>3. CASE l \notin Existing
    BY <2>1, <2>3 DEF ForceUnlock, IInv, HolderInv
  <2>4. QED
    BY <2>2, <2>3
<1>5. told' \in [Locks -> Seq(Event)]
  <2>1. told' = [l \in Locks |-> told'[l]]
    BY DEF ForceUnlock
  <2>2. QED
    BY <1>4, <2>1
<1>6. phase' \in [Locks -> {"none", "live", "inert", "gone"}]
  BY DEF ForceUnlock, IInv, TypeOK, LockTypeOK
<1>7. LockTypeOK'
  BY <1>1, <1>2, <1>3, <1>5, <1>6 DEF UnlockEvent, IInv, TypeOK, LockTypeOK
<1>8. HolderInv'
  BY <1>3, <1>4 DEF HolderInv, LockedOnce
<1>9. StageInv' /\ Up /\ Up'
  BY <1>1, ServedStage DEF IInv, Written
<1>10. AgreeInv'
  <2>1. ~UnlockUnheard
    BY DEF UnlockUnheard, ForceUnlock, Existing, IInv, TypeOK, LockTypeOK
  <2>2. ~unheard'
    BY <1>2, <2>1 DEF Served
  <2>3. ~Says(pipe, wasLocked)'
    BY <1>1, ServedSays DEF IInv
  <2>4. QED
    BY <1>1, <1>3, <2>2, <2>3 DEF AgreeInv, ClientLocked
<1>11. QED
  BY <1>7, <1>8, <1>9, <1>10, ServedType DEF IInv

\* Neither a surface nor a monitor that comes or goes tells anyone anything.
LEMMA SurfaceKeeps ==
    ASSUME LockAssumption, IInv, Served, NEW m \in Monitors, ChangeSurface(m) \/ SwitchMonitor(m)
    PROVE  IInv'
<1>1. UNCHANGED <<locked, notified, pipe, session, answered, timer, shown, objects, start>>
  BY DEF ChangeSurface, SwitchMonitor, holder
<1>2. lit' \in SUBSET Monitors /\ mapped' \in SUBSET Monitors
  BY DEF ChangeSurface, SwitchMonitor, holder, IInv, TypeOK, LockTypeOK
<1>3. LockTypeOK'
  BY <1>1, <1>2 DEF IInv, TypeOK, LockTypeOK, objects, start
<1>4. HolderInv'
  BY <1>1 DEF IInv, HolderInv, LockedOnce, objects
<1>5. StageInv' /\ Up /\ Up'
  BY <1>1, ServedStage DEF IInv, Written
<1>6. AgreeInv'
  <2>1. Says(pipe, wasLocked)' <=> Says(pipe, wasLocked)
    BY <1>1, ServedSays DEF IInv
  <2>2. ~UnlockUnheard
    BY <1>1 DEF UnlockUnheard
  <2>3. unheard' <=> (~locked /\ unheard)
    BY <1>1, <2>2 DEF Served
  <2>4. QED
    BY <1>1, <1>5, <2>1, <2>3 DEF IInv, AgreeInv, ClientLocked
<1>7. QED
  BY <1>3, <1>4, <1>5, <1>6, ServedType DEF IInv

\* The lock that holds the session is answered, by a frame or by the timer.
LEMMA AnswerKeeps ==
    ASSUME LockAssumption, IInv, Served, session # NoLock, ~answered,
           SendLocked(session), answered' = TRUE, timer' = FALSE, shown' \in SUBSET Monitors,
           UNCHANGED <<locked, pipe, lit, session, mapped, phase, start>>
    PROVE  IInv'
<1>1. session \in Locks /\ told[session] = <<>> /\ told \in [Locks -> Seq(Event)]
  BY DEF IInv, TypeOK, LockTypeOK, HolderInv
<1>2. Append(<<>>, "locked") \in Seq(Event) /\ \A i \in DOMAIN Append(<<>>, "locked") : i = 1
  BY DEF Event
<1>3. /\ told' \in [Locks -> Seq(Event)] /\ notified' = TRUE
      /\ told'[session] = Append(<<>>, "locked")
      /\ \A l \in Locks \ {session} : told'[l] = told[l]
  BY <1>1, <1>2 DEF SendLocked
<1>4. LockTypeOK'
  BY <1>3 DEF IInv, TypeOK, LockTypeOK, start
<1>5. HolderInv'
  <2>1. phase[session] = "live"
    BY DEF IInv, HolderInv
  <2>2. \A l \in Locks : phase'[l] = "none" => told'[l] = <<>>
    BY <1>3, <2>1 DEF IInv, HolderInv
  <2>3. LockedOnce'
    BY <1>2, <1>3 DEF IInv, HolderInv, LockedOnce
  <2>4. QED
    BY <2>1, <2>2, <2>3 DEF HolderInv
<1>6. StageInv' /\ Up /\ Up'
  BY ServedStage DEF IInv, Written
<1>7. AgreeInv'
  <2>1. Says(pipe, wasLocked)' <=> Says(pipe, wasLocked)
    BY ServedSays DEF IInv
  <2>2. ~UnlockUnheard
    BY DEF UnlockUnheard
  <2>3. unheard' <=> (~locked /\ unheard)
    BY <2>2 DEF Served
  <2>4. QED
    BY <1>3, <1>6, <2>1, <2>3 DEF IInv, AgreeInv
<1>8. QED
  BY <1>4, <1>5, <1>6, <1>7, ServedType DEF IInv

LEMMA RenderKeeps ==
    ASSUME LockAssumption, IInv, Served, NEW m \in Monitors, RenderLockscreen(m)
    PROVE  IInv'
<1>1. UNCHANGED <<locked, pipe, lit, session, mapped, phase, start>> /\ session # NoLock
  BY DEF RenderLockscreen
<1>2. CASE ~answered /\ lit \subseteq shown'
  <2>1. /\ SendLocked(session) /\ answered' = TRUE /\ timer' = FALSE
        /\ shown' \in SUBSET Monitors
    BY <1>2 DEF RenderLockscreen, Rendered, IInv, TypeOK, LockTypeOK
  <2>2. QED
    BY <1>1, <1>2, <2>1, AnswerKeeps
<1>3. CASE answered \/ ~(lit \subseteq shown')
  <2>1. UNCHANGED <<told, notified, answered, timer>> /\ shown' \in SUBSET Monitors
    BY <1>3 DEF RenderLockscreen, Rendered, IInv, TypeOK, LockTypeOK
  <2>2. LockTypeOK'
    BY <1>1, <2>1 DEF IInv, TypeOK, LockTypeOK, start
  <2>3. HolderInv'
    BY <1>1, <2>1 DEF IInv, HolderInv, LockedOnce
  <2>4. StageInv' /\ Up /\ Up'
    BY <1>1, ServedStage DEF IInv, Written
  <2>5. AgreeInv'
    <3>1. Says(pipe, wasLocked)' <=> Says(pipe, wasLocked)
      BY <1>1, ServedSays DEF IInv
    <3>2. ~UnlockUnheard
      BY <1>1 DEF UnlockUnheard
    <3>3. unheard' <=> (~locked /\ unheard)
      BY <1>1, <3>2 DEF Served
    <3>4. QED
      BY <1>1, <2>1, <2>4, <3>1, <3>3 DEF IInv, AgreeInv, ClientLocked
  <2>6. QED
    BY <2>2, <2>3, <2>4, <2>5, ServedType DEF IInv
<1>4. QED
  BY <1>2, <1>3

LEMMA ServeKeeps ==
    ASSUME LockAssumption, IInv, Serve
    PROVE  IInv'
<1> USE DEF Serve
<1>1. ASSUME NEW l \in Locks, RequestLock(l) \/ Unlock(l) \/ DestroyLock(l) PROVE IInv'
  BY <1>1, RequestKeeps, UnlockKeeps, DestroyLockKeeps
<1>2. CASE ForceUnlock
  BY <1>2, ForceUnlockKeeps
<1>3. ASSUME NEW m \in Monitors, ChangeSurface(m) \/ RenderLockscreen(m) \/ SwitchMonitor(m)
      PROVE  IInv'
  BY <1>3, SurfaceKeeps, RenderKeeps
<1>4. CASE TimerFires
  BY <1>4, AnswerKeeps DEF TimerFires, IInv, TypeOK, LockTypeOK
<1>5. QED
  BY <1>1, <1>2, <1>3, <1>4 DEF LockStep

-----------------------------------------------------------------------------
(* The steps of the compositor as a process and of the watchdog. *)

LEMMA StartKeeps ==
    ASSUME IInv, Start
    PROVE  IInv'
<1>1. /\ proc = "starting" /\ proc' = "up" /\ pipe = <<>> /\ session = NoLock
      /\ ~unheard /\ (arg <=> wasLocked) /\ died = "no"
  BY DEF Start, IInv, StageInv, Running
<1>2. /\ UNCHANGED <<command, lit, holder, objects, died, watch, flags, arg, option, restarts, unheard>>
      /\ started' = (started \/ arg) /\ locked' = started' /\ notified' = started'
  BY DEF Start
<1>3. pipe' = IF started' THEN <<"lock", "vax">> ELSE <<"vax">>
  BY <1>1 DEF Start
<1>4. pipe' \in Seq(Message)
  <2>1. "lock" \in Message /\ "vax" \in Message
    BY DEF Message
  <2>2. <<"lock", "vax">> \in Seq(Message) /\ <<"vax">> \in Seq(Message)
    BY <2>1
  <2>3. QED
    BY <1>3, <2>2
<1>5. TypeOK'
  BY <1>1, <1>2, <1>4 DEF IInv, TypeOK, LockTypeOK, holder, objects, flags
<1>6. HolderInv'
  BY <1>2 DEF IInv, HolderInv, LockedOnce, holder, objects
<1>7. ~Heard(pipe', "end") /\ Heard(pipe', "vax")
  BY <1>3 DEF Heard
<1>8. ~Heard(pipe, "end") /\ ~Heard(pipe, "vax") /\ ~Up /\ ~Ended
  BY <1>1 DEF Heard, Up, Ended
<1>9. StageInv'
  BY <1>1, <1>2, <1>7, <1>8 DEF IInv, StageInv, Running, Up, Ended, flags
<1>10. Says(pipe', wasLocked) <=> locked'
  <2>1. CASE started'
    BY <1>2, <1>3, <2>1 DEF Says
  <2>2. CASE ~started'
    <3>1. ~wasLocked
      BY <1>1, <1>2, <2>2
    <3>2. QED
      BY <1>2, <1>3, <2>2, <3>1 DEF Says
  <2>3. QED
    BY <2>1, <2>2
<1>11. AgreeInv'
  BY <1>1, <1>2, <1>10 DEF AgreeInv, ClientLocked, holder, flags
<1>12. QED
  BY <1>5, <1>6, <1>9, <1>11 DEF IInv

LEMMA EndKeeps ==
    ASSUME IInv, End
    PROVE  IInv'
<1>1. /\ proc = "up" /\ proc' = "ending" /\ pipe' = Append(pipe, "end") /\ died = "no"
      /\ pipe \in Seq(Message) /\ "end" \in Message /\ wasLocked \in BOOLEAN
      /\ UNCHANGED <<locked, notified, lit, holder, objects, start, died, watch, flags, arg,
                     option, restarts, unheard>>
  BY DEF End, IInv, TypeOK, LockTypeOK, StageInv, Running, Message
<1>2. TypeOK'
  BY <1>1 DEF IInv, TypeOK, LockTypeOK, holder, objects, start, flags
<1>3. HolderInv'
  BY <1>1 DEF IInv, HolderInv, LockedOnce, holder, objects
<1>4. Heard(pipe', "end") /\ (Heard(pipe', "vax") <=> Heard(pipe, "vax"))
  BY <1>1, HeardAppend
<1>5. StageInv'
  BY <1>1, <1>4 DEF IInv, StageInv, Running, Up, Ended, flags
<1>6. Says(pipe', wasLocked') <=> Says(pipe, wasLocked)
  BY <1>1, SaysAppend DEF flags
<1>7. AgreeInv'
  BY <1>1, <1>6 DEF IInv, AgreeInv, ClientLocked, Up, holder
<1>8. QED
  BY <1>2, <1>3, <1>5, <1>7 DEF IInv

LEMMA DieKeeps ==
    ASSUME IInv, Die
    PROVE  IInv'
<1>1. /\ Running /\ proc' = "dead" /\ died' = proc /\ died = "no"
      /\ UNCHANGED <<lockVars, watch, flags, arg, option, restarts, unheard>>
  BY DEF Die, IInv, StageInv, Running
<1>2. TypeOK'
  BY <1>1 DEF IInv, TypeOK, LockTypeOK, lockVars, holder, objects, start, flags, Running
<1>3. HolderInv'
  BY <1>1 DEF IInv, HolderInv, LockedOnce, lockVars, holder, objects
<1>4. Up' <=> Up
  BY <1>1 DEF Up, Running
<1>5. Ended' <=> Ended
  BY <1>1 DEF Ended, Running
<1>6. StageInv'
  BY <1>1, <1>4, <1>5 DEF IInv, StageInv, Running, lockVars, flags
<1>7. AgreeInv'
  BY <1>1, <1>4 DEF IInv, AgreeInv, ClientLocked, lockVars, holder, flags
<1>8. QED
  BY <1>2, <1>3, <1>6, <1>7 DEF IInv

LEMMA ReapKeeps ==
    ASSUME IInv, Reap
    PROVE  IInv'
<1>1. /\ proc = "dead" /\ proc' = "reaped"
      /\ UNCHANGED <<lockVars, died, watch, flags, arg, option, restarts, unheard>>
  BY DEF Reap
<1>2. TypeOK'
  BY <1>1 DEF IInv, TypeOK, LockTypeOK, lockVars, holder, objects, start, flags
<1>3. HolderInv'
  BY <1>1 DEF IInv, HolderInv, LockedOnce, lockVars, holder, objects
<1>4. (Up' <=> Up) /\ (Ended' <=> Ended)
  BY <1>1 DEF Up, Ended
<1>5. StageInv'
  BY <1>1, <1>4 DEF IInv, StageInv, Running, lockVars, flags
<1>6. AgreeInv'
  BY <1>1, <1>4 DEF IInv, AgreeInv, ClientLocked, lockVars, holder, flags
<1>7. QED
  BY <1>2, <1>3, <1>5, <1>6 DEF IInv

LEMMA ReadKeeps ==
    ASSUME IInv, Read
    PROVE  IInv'
<1>1. /\ watch = "polling" /\ pipe # <<>> /\ pipe' = <<>>
      /\ initialized' = (initialized \/ Heard(pipe, "vax"))
      /\ exiting' = (exiting \/ Heard(pipe, "end"))
      /\ wasLocked' = Says(pipe, wasLocked)
      /\ UNCHANGED <<locked, notified, lit, holder, objects, start, process, watch, arg, option,
                     restarts, unheard>>
  BY DEF Read
<1>2. Says(pipe, wasLocked) \in BOOLEAN /\ Heard(pipe, "vax") \in BOOLEAN
      /\ Heard(pipe, "end") \in BOOLEAN
  BY DEF Says, Heard, IInv, TypeOK
<1>3. TypeOK'
  BY <1>1, <1>2 DEF IInv, TypeOK, LockTypeOK, holder, objects, start, process
<1>4. HolderInv'
  BY <1>1 DEF IInv, HolderInv, LockedOnce, holder, objects
<1>5. ~Heard(pipe', "end") /\ ~Heard(pipe', "vax")
  BY <1>1 DEF Heard
<1>6. (Up' <=> Up) /\ (Ended' <=> Ended)
  BY <1>1 DEF Up, Ended, process
<1>7. proc' # "starting"
  BY <1>1 DEF IInv, StageInv, process
<1>8. (died = "no" <=> Running)'
  BY <1>1 DEF IInv, StageInv, Running, process
<1>9. StageInv'
  BY <1>1, <1>5, <1>6, <1>7, <1>8 DEF IInv, StageInv
<1>10. Says(pipe', wasLocked') <=> Says(pipe, wasLocked)
  BY <1>1 DEF Says
<1>11. AgreeInv'
  BY <1>1, <1>6, <1>10 DEF IInv, AgreeInv, ClientLocked, holder
<1>12. QED
  BY <1>3, <1>4, <1>9, <1>11 DEF IInv

LEMMA RestartKeeps ==
    ASSUME WatchdogAssumption, IInv, Restart
    PROVE  IInv'
<1>1. /\ proc' = "starting" /\ died' = "no" /\ arg' = wasLocked /\ wasLocked' = wasLocked
      /\ initialized' = FALSE /\ exiting' = FALSE /\ unheard' = FALSE
      /\ restarts' = restarts + 1 /\ restarts < MaxRestarts
      /\ UNCHANGED <<watch, option>> /\ Restarted
  BY DEF Restart
<1>2. /\ phase' = [l \in Locks |-> "none"] /\ told' = [l \in Locks |-> <<>>]
      /\ locked' = FALSE /\ notified' = FALSE /\ session' = NoLock /\ answered' = FALSE
      /\ timer' = FALSE /\ shown' = {} /\ mapped' = {} /\ lit' = lit
      /\ started' = option /\ command' = option /\ pipe' = <<>>
  BY <1>1 DEF Restarted, Release, Hold
<1>3. told' \in [Locks -> Seq(Event)] /\ pipe' \in Seq(Message)
  BY <1>2
<1>4. restarts' \in 0 .. MaxRestarts
  BY <1>1 DEF IInv, TypeOK, WatchdogAssumption
<1>5. LockTypeOK'
  BY <1>2, <1>3 DEF IInv, TypeOK, LockTypeOK
<1>6. TypeOK'
  BY <1>1, <1>4, <1>5 DEF IInv, TypeOK
<1>7. HolderInv'
  BY <1>2 DEF HolderInv, LockedOnce
<1>8. ~Heard(pipe', "end") /\ ~Heard(pipe', "vax") /\ ~Up' /\ ~Ended'
  BY <1>1, <1>2 DEF Heard, Up, Ended
<1>9. StageInv'
  BY <1>1, <1>2, <1>8 DEF StageInv, Running
<1>10. AgreeInv'
  BY <1>8 DEF AgreeInv
<1>11. QED
  BY <1>6, <1>7, <1>9, <1>10 DEF IInv

\* The watchdog is told to quit, or is done.
LEMMA WatchKeeps ==
    ASSUME IInv, watch' \in {"quitting", "done"}, exiting' \in BOOLEAN,
           UNCHANGED <<lockVars, process, initialized, wasLocked, arg, option, restarts, unheard>>
    PROVE  IInv'
<1>1. TypeOK'
  BY DEF IInv, TypeOK, LockTypeOK, lockVars, holder, objects, start, process
<1>2. HolderInv'
  BY DEF IInv, HolderInv, LockedOnce, lockVars, holder, objects
<1>3. StageInv'
  BY DEF IInv, StageInv, Running, Up, Ended, lockVars, holder, process
<1>4. AgreeInv'
  BY DEF IInv, AgreeInv, ClientLocked, Up, lockVars, holder, process
<1>5. QED
  BY <1>1, <1>2, <1>3, <1>4 DEF IInv

LEMMA Initially ==
    ASSUME WatchdogAssumption, Init
    PROVE  IInv
<1>1. told \in [Locks -> Seq(Event)] /\ pipe \in Seq(Message)
  BY DEF Init, LockInit
<1>2. LockTypeOK
  BY <1>1 DEF Init, LockInit, LockTypeOK
<1>3. TypeOK
  <2>1. 0 \in 0 .. MaxRestarts
    BY DEF WatchdogAssumption
  <2>2. option \in BOOLEAN
    BY <1>2 DEF Init, LockTypeOK
  <2>3. QED
    BY <1>2, <2>1, <2>2 DEF Init, TypeOK
<1>4. HolderInv
  BY DEF Init, LockInit, HolderInv, LockedOnce
<1>5. ~Heard(pipe, "end") /\ ~Heard(pipe, "vax") /\ ~Up /\ ~Ended
  BY DEF Init, LockInit, Heard, Up, Ended
<1>6. StageInv /\ AgreeInv
  BY <1>5 DEF Init, LockInit, StageInv, Running, AgreeInv
<1>7. QED
  BY <1>3, <1>4, <1>6 DEF IInv

LEMMA Inductive ==
    ASSUME LockAssumption, WatchdogAssumption, IInv, [Next]_vars
    PROVE  IInv'
<1>1. CASE Start
  BY <1>1, StartKeeps
<1>2. CASE Serve
  BY <1>2, ServeKeeps
<1>3. CASE End
  BY <1>3, EndKeeps
<1>4. CASE Die
  BY <1>4, DieKeeps
<1>5. CASE Reap
  BY <1>5, ReapKeeps
<1>6. CASE Read
  BY <1>6, ReadKeeps
<1>7. CASE Restart
  BY <1>7, RestartKeeps
<1>8. CASE Stop \/ QuitDone
  BY <1>8, WatchKeeps DEF Stop, QuitDone, flags, IInv, TypeOK
<1>9. CASE Quit
  BY <1>9, WatchKeeps DEF Quit
<1>10. CASE UNCHANGED vars
  BY <1>10 DEF vars, lockVars, holder, objects, start, process, flags, IInv, TypeOK, LockTypeOK,
               HolderInv, LockedOnce, StageInv, AgreeInv, ClientLocked, Running, Up, Ended
<1>11. QED
  BY <1>1, <1>2, <1>3, <1>4, <1>5, <1>6, <1>7, <1>8, <1>9, <1>10 DEF Next

LEMMA Invariant == Spec => []IInv
<1>1. Init => IInv
  BY Initially, WatchdogAssumption
<1>2. IInv /\ [Next]_vars => IInv'
  BY Inductive, LockAssumption, WatchdogAssumption
<1>3. QED
  BY <1>1, <1>2, PTL DEF Spec

-----------------------------------------------------------------------------
\* Every variable of the session lock and of the watchdog keeps its type.
THEOREM TypeCorrect == Spec => []TypeOK
<1>1. IInv => TypeOK
  BY DEF IInv
<1>2. QED
  BY <1>1, Invariant, PTL

\* No order of frames, timers and monitors tells a client twice that it has
\* locked the session (sendLocked), nor after it was told "finished".
THEOREM ToldLockedOnce == Spec => []LockedOnce
<1>1. IInv => LockedOnce
  BY DEF IInv, HolderInv
<1>2. QED
  BY <1>1, Invariant, PTL

\* The notifiers and, with what it has not read yet, the watchdog know the lock.
THEOREM Agreement == Spec => []EveryoneAgrees
<1>1. IInv => EveryoneAgrees
  BY DEF IInv, AgreeInv, EveryoneAgrees, Up
<1>2. QED
  BY <1>1, Invariant, PTL

\* A crash and the restart after it keep the session as locked as it was.
THEOREM CrashKeepsLock == Spec => RestartsAsItWas
<1>1. IInv /\ [Next]_vars =>
        [proc = "reaped" /\ proc' = "starting" /\ ~unheard => arg' = locked]_vars
  <2> SUFFICES ASSUME IInv, [Next]_vars, proc = "reaped", proc' = "starting", ~unheard
               PROVE  arg' = locked
    OBVIOUS
  <2>1. Restart
    BY DEF Next, Start, Serve, Served, End, Die, Reap, Read, Stop, Quit, QuitDone, vars, process
  <2>2. arg' = wasLocked /\ pipe = <<>> /\ initialized
    BY <2>1 DEF Restart, Wakes, RunIsOver
  <2>3. Up
    BY <2>2 DEF IInv, StageInv
  <2>4. Says(pipe, wasLocked) <=> locked
    BY <2>3 DEF IInv, AgreeInv
  <2>5. wasLocked <=> locked
    BY <2>2, <2>4, EmptyPipe DEF IInv, TypeOK
  <2>6. QED
    BY <2>2, <2>5 DEF IInv, TypeOK, LockTypeOK
<1>2. QED
  BY <1>1, Invariant, PTL DEF Spec, RestartsAsItWas

\* Only a compositor that crashed while it was up is started again.
THEOREM RestartsCrashes == Spec => OnlyCrashesRestart
<1>1. IInv /\ [Next]_vars =>
        [/\ proc = "reaped" /\ proc' = "starting" => died = "up"
         /\ watch = "polling" /\ watch' = "done" => died # "up"]_vars
  <2> SUFFICES ASSUME IInv, [Next]_vars
               PROVE  /\ proc = "reaped" /\ proc' = "starting" => died = "up"
                      /\ watch = "polling" /\ watch' = "done" => died # "up"
    OBVIOUS
  <2>1. ASSUME proc = "reaped", proc' = "starting" PROVE died = "up"
    <3>1. Restart
      BY <2>1 DEF Next, Start, Serve, Served, End, Die, Reap, Read, Stop, Quit, QuitDone, vars,
                  process
    <3>2. watch = "polling" /\ pipe = <<>> /\ initialized /\ ~exiting
      BY <3>1 DEF Restart, Wakes, RunIsOver
    <3>3. ~Heard(pipe, "end")
      BY <3>2 DEF Heard
    <3>4. Up /\ ~Ended
      BY <3>2, <3>3 DEF IInv, StageInv
    <3>5. QED
      BY <2>1, <3>4 DEF Up, Ended
  <2>2. ASSUME watch = "polling", watch' = "done" PROVE died # "up"
    <3>1. Stop
      BY <2>2 DEF Next, Start, Serve, Served, End, Die, Reap, Read, Restart, Quit, QuitDone, vars
    <3>2. pipe = <<>> /\ (~initialized \/ exiting) /\ proc = "reaped"
      BY <3>1 DEF Stop, Wakes, RunIsOver
    <3>3. ~Heard(pipe, "end") /\ ~Heard(pipe, "vax")
      BY <3>2 DEF Heard
    <3>4. ~Up \/ Ended
      BY <2>2, <3>2, <3>3 DEF IInv, StageInv
    <3>5. QED
      BY <3>2, <3>4 DEF Up, Ended
  <2>3. QED
    BY <2>1, <2>2
<1>2. QED
  BY <1>1, Invariant, PTL DEF Spec, OnlyCrashesRestart

-----------------------------------------------------------------------------
(***************************************************************************)
(* The client that holds the session is answered.  Spec is fair to the     *)
(* timer by WF, which speaks of ENABLED; that a timer that is due can fire *)
(* (DueTimerFires) is a hypothesis here, of which TLC finds no             *)
(* counterexample in the states of the run "lock".                         *)
(***************************************************************************)
TimerDue == proc = "up" /\ timer /\ session # NoLock /\ ~answered
DueTimerFires == TimerDue => ENABLED <<TimerFires /\ Served>>_vars

\* A lock that holds the session has its timer until it is answered.
TimerInv ==
    /\ session # NoLock /\ ~answered => timer
    /\ session # NoLock /\ answered => told[session] # <<>>

LEMMA AppendIsSome ==
    ASSUME NEW S, NEW s \in Seq(S), NEW e \in S
    PROVE  Append(s, e) # <<>>
<1>1. Len(Append(s, e)) = Len(s) + 1 /\ Len(s) \in Nat /\ Len(<<>>) = 0
  OBVIOUS
<1>2. QED
  BY <1>1

LEMMA ToldIsSome ==
    ASSUME IInv, NEW l \in Locks, SendLocked(l)
    PROVE  told'[l] # <<>>
  BY AppendIsSome DEF IInv, TypeOK, LockTypeOK, SendLocked, Event

\* A step of the session lock arms the timer, answers, or lets go.
LEMMA LockStepTimer ==
    ASSUME LockAssumption, IInv, TimerInv, LockStep
    PROVE  TimerInv'
<1>1. session \in Locks \cup {NoLock} /\ NoLock \notin Locks /\ told \in [Locks -> Seq(Event)]
  BY DEF IInv, TypeOK, LockTypeOK, LockAssumption
<1>2. ASSUME UNCHANGED holder, UNCHANGED told PROVE TimerInv'
  BY <1>2 DEF TimerInv, holder
<1>3. ASSUME Release PROVE TimerInv'
  BY <1>3 DEF TimerInv, Release, Hold
<1>4. ASSUME NEW l \in Locks, RequestLock(l) PROVE TimerInv'
  <2>1. CASE Deny(l)
    <3>1. session # l
      BY <1>4, <1>1 DEF RequestLock, IInv, HolderInv
    <3>2. session # NoLock => told'[session] = told[session]
      BY <1>1, <2>1, <3>1 DEF Deny
    <3>3. QED
      BY <2>1, <3>2 DEF Deny, TimerInv, holder
  <2>2. CASE Ignore(l)
    BY <2>2, <1>2 DEF Ignore
  <2>3. CASE TakeOver(l)
    <3>1. CASE lit = {}
      BY <2>3, <3>1, ToldIsSome DEF TakeOver, Hold, TimerInv
    <3>2. CASE lit # {}
      BY <2>3, <3>2 DEF TakeOver, Hold, TimerInv
    <3>3. QED
      BY <3>1, <3>2
  <2>4. QED
    BY <1>4, <2>1, <2>2, <2>3 DEF RequestLock
<1>5. ASSUME NEW l \in Locks, Unlock(l) \/ DestroyLock(l) PROVE TimerInv'
  <2>1. UNCHANGED told /\ (Release \/ UNCHANGED holder)
    BY <1>5 DEF Unlock, DestroyLock
  <2>2. QED
    BY <2>1, <1>2, <1>3
<1>6. CASE ForceUnlock
  BY <1>6, <1>3 DEF ForceUnlock
<1>7. ASSUME NEW m \in Monitors, ChangeSurface(m) \/ RenderLockscreen(m) \/ SwitchMonitor(m)
      PROVE  TimerInv'
  <2>1. CASE ChangeSurface(m)
    BY <2>1 DEF ChangeSurface, TimerInv, objects
  <2>2. CASE SwitchMonitor(m)
    BY <2>2, <1>2 DEF SwitchMonitor, objects
  <2>3. CASE RenderLockscreen(m)
    <3>1. session' = session /\ session \in Locks /\ Rendered(m)
      BY <1>1, <2>3 DEF RenderLockscreen
    <3>2. CASE UNCHANGED <<told, answered, timer>>
      BY <3>1, <3>2 DEF TimerInv
    <3>3. CASE SendLocked(session) /\ answered' = TRUE
      BY <3>1, <3>3, ToldIsSome DEF TimerInv
    <3>4. QED
      BY <3>1, <3>2, <3>3 DEF Rendered
  <2>4. QED
    BY <1>7, <2>1, <2>2, <2>3
<1>8. CASE TimerFires
  BY <1>1, <1>8, ToldIsSome DEF TimerFires, TimerInv
<1>9. QED
  BY <1>4, <1>5, <1>6, <1>7, <1>8 DEF LockStep

LEMMA TimerKeeps ==
    ASSUME LockAssumption, IInv, TimerInv, [Next]_vars
    PROVE  TimerInv'
<1>1. CASE UNCHANGED holder /\ UNCHANGED told
  BY <1>1 DEF TimerInv, holder
<1>2. CASE Serve
  BY <1>2, LockStepTimer DEF Serve
<1>3. CASE Restart
  BY <1>3 DEF Restart, Restarted, Release, Hold, TimerInv
<1>4. QED
  BY <1>1, <1>2, <1>3 DEF Next, Start, End, Die, Reap, Read, Stop, Quit, QuitDone, vars, lockVars, objects

LEMMA TimerInvariant == Spec => []TimerInv
<1>1. Init => TimerInv
  BY DEF Init, LockInit, TimerInv
<1>2. IInv /\ TimerInv /\ [Next]_vars => TimerInv'
  BY TimerKeeps, LockAssumption
<1>3. QED
  BY <1>1, <1>2, Invariant, PTL DEF Spec

Waits(l)    == session = l /\ proc = "up" /\ told[l] = <<>>
Answered(l) == told[l] # <<>> \/ phase[l] = "gone" \/ proc # "up"

\* It goes on holding the session until it is answered or goes.
LEMMA GoesOnWaiting ==
    ASSUME LockAssumption, NEW l \in Locks, IInv, TimerInv, Waits(l), [Next]_vars
    PROVE  Waits(l)' \/ Answered(l)'
<1>1. /\ session = l /\ proc = "up" /\ told[l] = <<>> /\ l # NoLock
      /\ ~answered /\ phase[l] = "live"
      /\ told \in [Locks -> Seq(Event)] /\ phase \in [Locks -> {"none", "live", "inert", "gone"}]
  BY DEF Waits, TimerInv, IInv, HolderInv, TypeOK, LockTypeOK, LockAssumption
<1>2. CASE proc' # "up"
  BY <1>2 DEF Answered
<1>3. CASE session' = l
  BY <1>1, <1>2, <1>3 DEF Waits, Answered
<1>4. ASSUME Serve, session' # l PROVE Answered(l)'
  <2>1. ASSUME NEW k \in Locks, RequestLock(k) PROVE FALSE
    BY <1>1, <1>4, <2>1 DEF RequestLock, Deny, Ignore, Ignored, ClientLocked, holder
  <2>2. ASSUME NEW k \in Locks, Unlock(k) \/ DestroyLock(k) PROVE Answered(l)'
    <3>1. k = l
      BY <1>1, <1>4, <2>2 DEF Unlock, DestroyLock, holder
    <3>2. QED
      BY <1>1, <2>2, <3>1 DEF Unlock, DestroyLock, Answered
  <2>3. CASE ForceUnlock
    <3>1. told'[l] = Append(told[l], "finished")
      BY <1>1, <2>3 DEF ForceUnlock, Existing
    <3>2. QED
      BY <1>1, <3>1, AppendIsSome DEF Answered, Event
  <2>4. ASSUME NEW m \in Monitors, ChangeSurface(m) \/ RenderLockscreen(m) \/ SwitchMonitor(m)
        PROVE  FALSE
    BY <1>1, <1>4, <2>4 DEF ChangeSurface, RenderLockscreen, SwitchMonitor, holder
  <2>5. CASE TimerFires
    BY <1>1, <1>4, <2>5 DEF TimerFires
  <2>6. QED
    BY <1>4, <2>1, <2>2, <2>3, <2>4, <2>5 DEF Serve, LockStep
<1>5. QED
  BY <1>1, <1>2, <1>3, <1>4 DEF Next, Start, End, Die, Reap, Read, Restart, Stop, Quit, QuitDone,
        vars, lockVars, holder, process

LEMMA TimerAnswers ==
    ASSUME LockAssumption, NEW l \in Locks, IInv, Waits(l), TimerFires
    PROVE  Answered(l)'
  BY ToldIsSome DEF Waits, TimerFires, Answered

LEMMA OneIsAnswered ==
    ASSUME NEW l \in Locks
    PROVE  Spec /\ []DueTimerFires => (session = l /\ proc = "up" ~> Answered(l))
<1>1. IInv /\ TimerInv /\ Waits(l) /\ [Next]_vars => Waits(l)' \/ Answered(l)'
  BY GoesOnWaiting, LockAssumption
<1>2. IInv /\ Waits(l) /\ <<TimerFires /\ Served>>_vars => Answered(l)'
  BY TimerAnswers, LockAssumption
<1>3. TimerInv /\ Waits(l) => TimerDue
  BY LockAssumption DEF Waits, TimerInv, TimerDue, LockAssumption
<1>4. session = l /\ proc = "up" => Waits(l) \/ Answered(l)
  BY DEF Waits, Answered
<1>5. QED
  BY <1>1, <1>2, <1>3, <1>4, Invariant, TimerInvariant, PTL DEF Spec, Fairness, DueTimerFires

\* If a timer that is due can fire, the client whose lock holds the session is
\* answered, in whatever order frames, monitors, unlocks and crashes come.
THEOREM HoldersAreAnswered == Spec /\ []DueTimerFires => HolderIsAnswered
<1>1. ASSUME NEW l \in Locks
      PROVE  Spec /\ []DueTimerFires
                 => (session = l /\ proc = "up" ~> told[l] # <<>> \/ phase[l] = "gone" \/ proc # "up")
  BY OneIsAnswered DEF Answered
<1>2. QED
  BY <1>1 DEF HolderIsAnswered
=============================================================================
