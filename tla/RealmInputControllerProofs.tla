--------------------- MODULE RealmInputControllerProofs ---------------------
(***************************************************************************)
(* Theorems about RealmInputController, for any set of process IDs,        *)
(* sequence numbers, capabilities and outcomes and any socket.             *)
(***************************************************************************)
EXTENDS RealmInputController, SequenceTheorems, TLAPS

-----------------------------------------------------------------------------
(* The helper's record.  Whatever is sent to it or done by it, it stays a  *)
(* helper's record; the host's end of the socket only changes with the     *)
(* host.                                                                   *)

\* No helper, a fresh helper, no controller and no capture are records of their kinds.
LEMMA NullsTyped ==
    /\ NoHelper \in HelperRecord
    /\ NoHelper.status = "none"
    /\ Launched \in HelperRecord
    /\ Launched.connected
    /\ NoController \in ControllerRecord
    /\ NoCapture \in CaptureRecord
PROOF
<1>1. << >> \in Seq(Commands) /\ << >> \in Seq(Answers) /\ << >> \in Seq(Numbers)
  BY EmptySeq
<1>2. NoHelper \in HelperRecord /\ NoHelper.status = "none"
  BY <1>1 DEF NoHelper, HelperRecord
<1>3. Launched \in HelperRecord /\ Launched.connected
  BY <1>2 DEF NoHelper, HelperRecord, Launched
<1>4. NoCapture \in CaptureRecord
  BY DEF NoCapture, CaptureRecord
<1>5. NoController \in ControllerRecord
  BY <1>4 DEF NoController, ControllerRecord
<1> QED
  BY <1>2, <1>3, <1>4, <1>5

\* What a capture in progress knows of its number.
LEMMA CaptureTyped ==
    ASSUME NEW c \in ControllerRecord, c.capture # NoCapture
    PROVE  /\ c.capture \in [sequence : Numbers, attempts : 1..2, overdue : BOOLEAN]
           /\ c.capture.sequence \in Numbers
PROOF
  BY DEF ControllerRecord, CaptureRecord

\* A send changes nothing of a helper but its inbox.
LEMMA SentTyped ==
    ASSUME NEW h \in HelperRecord, NEW m \in Commands
    PROVE  /\ Sent(h, m) \in HelperRecord
           /\ Sent(h, m).status = h.status
           /\ Sent(h, m).connected = h.connected
PROOF
<1>1. Append(h.inbox, m) \in Seq(Commands)
  BY AppendProperties DEF HelperRecord
<1> QED
  BY <1>1 DEF Sent, HelperRecord

\* A CAPTURE_CANCEL, or none when no capture is pending, changes the inbox only.
LEMMA CancelSentTyped ==
    ASSUME NEW h \in HelperRecord, NEW c \in ControllerRecord
    PROVE  /\ CancelSent(h, c) \in HelperRecord
           /\ CancelSent(h, c).status = h.status
           /\ CancelSent(h, c).connected = h.connected
PROOF
<1>1. CASE c.capture = NoCapture
  BY <1>1 DEF CancelSent
<1>2. CASE c.capture # NoCapture
  <2>1. Message("CAPTURE_CANCEL", c.capture.sequence) \in Commands
    BY <1>2, CaptureTyped DEF Message, Commands
  <2> QED
    BY <1>2, <2>1, SentTyped DEF CancelSent
<1> QED
  BY <1>1, <1>2

\* RELEASE_ALL is a command, though it has no number.
LEMMA ReleaseAllTyped == ReleaseAll \in Commands
PROOF
  BY DEF ReleaseAll, Message, Commands

\* stopController leaves a helper whose socket the host has closed.
LEMMA StoppedTyped ==
    ASSUME NEW h \in HelperRecord, controller \in ControllerRecord
    PROVE  /\ Stopped(h) \in HelperRecord
           /\ Stopped(h).status = h.status
           /\ Stopped(h).connected = FALSE
PROOF
<1> DEFINE s == Sent(h, ReleaseAll)
           k == CancelSent(s, controller)
<1>1. s \in HelperRecord /\ s.status = h.status
  BY SentTyped, ReleaseAllTyped
<1>2. k \in HelperRecord /\ k.status = h.status
  BY <1>1, CancelSentTyped
<1>3. Stopped(h) = [k EXCEPT !.connected = FALSE]
  BY DEF Stopped
<1> QED
  <2> HIDE DEF k
  <2> QED
    BY <1>2, <1>3 DEF HelperRecord

\* A result that a helper reports changes nothing but its outbox.
LEMMA ReportedTyped ==
    ASSUME NEW h \in HelperRecord, NEW type, NEW s, Message(type, s) \in Answers
    PROVE  /\ Reported(h, type, s) \in HelperRecord
           /\ Reported(h, type, s).status = h.status
           /\ Reported(h, type, s).connected = h.connected
PROOF
<1>1. Append(h.outbox, Message(type, s)) \in Seq(Answers)
  BY AppendProperties DEF HelperRecord
<1> QED
  BY <1>1 DEF Reported, HelperRecord

\* Every answer to a request bears the number of a request.
LEMMA AnswerTyped ==
    ASSUME NEW type \in {"ERROR", "INPUT_APPLIED", "CAPTURE_READY"}, NEW s \in Numbers
    PROVE  Message(type, s) \in Answers
PROOF
  BY DEF Message, Answers

\* A helper that exits keeps the part of its results that it had sent.
LEMMA ExitedTyped ==
    ASSUME NEW h \in HelperRecord, NEW sent \in 0..Len(h.outbox)
    PROVE  /\ Exited(h, sent) \in HelperRecord
           /\ Exited(h, sent).status = "exited"
           /\ Exited(h, sent).connected = h.connected
PROOF
<1>1. SubSeq(h.outbox, 1, sent) \in Seq(Answers)
  <2>1. h.outbox \in Seq(Answers)
    BY DEF HelperRecord
  <2>2. \A n \in 1..sent : h.outbox[n] \in Answers
    BY <2>1, ElementOfSeq
  <2> QED
    BY <2>1, <2>2, SubSeqProperties
<1> QED
  BY <1>1, NullsTyped DEF Exited, HelperRecord, NoHelper

\* A helper that becomes ready says so and serves.
LEMMA ReadyTyped ==
    ASSUME NEW h \in HelperRecord
    PROVE  /\ Ready(h) \in HelperRecord
           /\ Ready(h).status = "serving"
           /\ Ready(h).connected = h.connected
PROOF
<1> DEFINE served == [h EXCEPT !.status = "serving"]
<1>1. served \in HelperRecord /\ served.status = "serving" /\ served.connected = h.connected
  BY DEF HelperRecord
<1>2. Message("READY", 0) \in Answers
  BY DEF Answers
<1>3. Ready(h) = Reported(served, "READY", 0)
  BY DEF Ready
<1> HIDE DEF served
<1> QED
  BY <1>1, <1>2, <1>3, ReportedTyped

\* The answer to the oldest input leaves a record of a helper.
LEMMA AcknowledgedTyped ==
    ASSUME NEW h \in HelperRecord, h.acknowledgements # <<>>
    PROVE  /\ Acknowledged(h) \in HelperRecord
           /\ Acknowledged(h).status = h.status
           /\ Acknowledged(h).connected = h.connected
PROOF
<1> DEFINE rest == [h EXCEPT !.acknowledgements = Tail(@)]
           s    == Head(h.acknowledgements)
<1>1. h.acknowledgements \in Seq(Numbers)
  BY DEF HelperRecord
<1>2. s \in Numbers /\ Tail(h.acknowledgements) \in Seq(Numbers)
  BY <1>1, HeadTailProperties
<1>3. rest \in HelperRecord /\ rest.status = h.status /\ rest.connected = h.connected
  BY <1>2 DEF HelperRecord
<1>4. Acknowledged(h) = Reported(rest, "INPUT_APPLIED", s)
  BY DEF Acknowledged
<1>5. Message("INPUT_APPLIED", s) \in Answers
  BY <1>2, AnswerTyped
<1> HIDE DEF rest, s
<1> QED
  BY <1>3, <1>4, <1>5, ReportedTyped

\* The end of a capture, with or without a frame, leaves a record of a helper.
LEMMA FrameTyped ==
    ASSUME NEW h \in HelperRecord, h.capture # 0, NEW type \in {"ERROR", "CAPTURE_READY"}
    PROVE  LET k == Reported([h EXCEPT !.capture = 0], type, h.capture)
           IN  k \in HelperRecord /\ k.status = h.status /\ k.connected = h.connected
PROOF
<1> DEFINE rest == [h EXCEPT !.capture = 0]
<1>1. rest \in HelperRecord /\ rest.status = h.status /\ rest.connected = h.connected
  BY DEF HelperRecord
<1>2. h.capture \in Numbers
  BY DEF HelperRecord
<1>3. Message(type, h.capture) \in Answers
  BY <1>2, AnswerTyped
<1> HIDE DEF rest
<1>4. LET k == Reported(rest, type, h.capture)
      IN  k \in HelperRecord /\ k.status = h.status /\ k.connected = h.connected
  BY <1>1, <1>3, ReportedTyped
<1> QED
  BY <1>4 DEF rest

\* The part of Handled that the message itself asks for.
LEMMA DoneTyped ==
    ASSUME NEW h \in HelperRecord, NEW m \in Commands
    PROVE  /\ m.type \in InputTypes => /\ Applied(h, m) \in HelperRecord
                                       /\ Applied(h, m).status = h.status
                                       /\ Applied(h, m).connected = h.connected
                                       /\ Applied(h, m).inbox = h.inbox
           /\ m.type = "CAPTURE" => /\ Captured(h, m) \in HelperRecord
                                    /\ Captured(h, m).status = h.status
                                    /\ Captured(h, m).connected = h.connected
                                    /\ Captured(h, m).inbox = h.inbox
PROOF
<1>1. ASSUME m.type \in InputTypes
      PROVE  /\ Applied(h, m) \in HelperRecord
             /\ Applied(h, m).status = h.status
             /\ Applied(h, m).connected = h.connected
             /\ Applied(h, m).inbox = h.inbox
  <2>1. m.sequence \in Numbers
    BY <1>1 DEF Commands, InputTypes, ReleaseAll, Message
  <2>2. Append(h.acknowledgements, m.sequence) \in Seq(Numbers)
    BY <2>1, AppendProperties DEF HelperRecord
  <2>3. Held(h, m.type) \in BOOLEAN
    BY DEF Held, HelperRecord
  <2> QED
    BY <2>2, <2>3 DEF Applied, HelperRecord
<1>2. ASSUME m.type = "CAPTURE"
      PROVE  /\ Captured(h, m) \in HelperRecord
             /\ Captured(h, m).status = h.status
             /\ Captured(h, m).connected = h.connected
             /\ Captured(h, m).inbox = h.inbox
  <2>1. m.sequence \in Numbers
    BY <1>2 DEF Commands, InputTypes, ReleaseAll, Message
  <2> QED
    BY <2>1 DEF Captured, HelperRecord
<1> QED
  BY <1>1, <1>2

\* A turn of the helper's loop leaves a record of a helper with the same socket.
LEMMA HandledTyped ==
    ASSUME NEW h \in HelperRecord, h.inbox # <<>>, NEW outcome
    PROVE  LET k == Handled(h, Head(h.inbox), outcome)
           IN  k \in HelperRecord /\ k.status = h.status /\ k.connected = h.connected
PROOF
<1> DEFINE m    == Head(h.inbox)
           done ==
               IF outcome = "refused" THEN h
               ELSE CASE m.type \in InputTypes  -> Applied(h, m)
                      [] m.type = "RELEASE_ALL" -> Released(h)
                      [] m.type = "CAPTURE"     -> Captured(h, m)
                      [] m.type = "CAPTURE_CANCEL" ->
                            IF h.capture = m.sequence THEN [h EXCEPT !.capture = 0] ELSE h
           told == IF outcome = "flushed" \/ m.sequence \notin Numbers THEN done
                   ELSE Reported(done, "ERROR", m.sequence)
<1>1. h.inbox \in Seq(Commands) /\ m \in Commands
  BY HeadTailProperties DEF HelperRecord
<1>2. done \in HelperRecord /\ done.status = h.status
        /\ done.connected = h.connected /\ done.inbox = h.inbox
  <2>1. CASE outcome = "refused"
    BY <2>1 DEF HelperRecord
  <2>2. CASE outcome # "refused" /\ m.type \in InputTypes
    <3>1. done = Applied(h, m)
      BY <2>2 DEF InputTypes
    <3> HIDE DEF done, m
    <3> QED
      BY <1>1, <2>2, <3>1, DoneTyped
  <2>3. CASE outcome # "refused" /\ m.type = "RELEASE_ALL"
    <3>1. done = Released(h)
      BY <2>3 DEF InputTypes
    <3> HIDE DEF done, m
    <3> QED
      BY <3>1 DEF Released, HelperRecord
  <2>4. CASE outcome # "refused" /\ m.type = "CAPTURE"
    <3>1. done = Captured(h, m)
      BY <2>4 DEF InputTypes
    <3> HIDE DEF done, m
    <3> QED
      BY <1>1, <2>4, <3>1, DoneTyped
  <2>5. CASE outcome # "refused" /\ m.type = "CAPTURE_CANCEL"
    <3>1. done = IF h.capture = m.sequence THEN [h EXCEPT !.capture = 0] ELSE h
      BY <2>5 DEF InputTypes
    <3> HIDE DEF done, m
    <3> QED
      BY <3>1 DEF HelperRecord
  <2>6. m.type \in InputTypes \cup {"RELEASE_ALL", "CAPTURE", "CAPTURE_CANCEL"}
    BY <1>1 DEF Commands, ReleaseAll, Message
  <2> HIDE DEF done, m
  <2> QED
    BY <2>1, <2>2, <2>3, <2>4, <2>5, <2>6
<1>3. told \in HelperRecord /\ told.status = h.status
        /\ told.connected = h.connected /\ told.inbox = h.inbox
  <2> HIDE DEF done, m
  <2>1. CASE outcome = "flushed" \/ m.sequence \notin Numbers
    BY <1>2, <2>1
  <2>2. CASE ~(outcome = "flushed" \/ m.sequence \notin Numbers)
    <3>1. Message("ERROR", m.sequence) \in Answers
      BY <2>2, AnswerTyped
    <3>2. Reported(done, "ERROR", m.sequence).inbox = done.inbox
      BY <1>2 DEF Reported, HelperRecord
    <3> QED
      BY <1>2, <2>2, <3>1, <3>2, ReportedTyped
  <2> QED
    BY <2>1, <2>2
<1>4. Handled(h, m, outcome) = [told EXCEPT !.inbox = Tail(@)]
  BY DEF Handled
<1>5. Tail(h.inbox) \in Seq(Commands)
  BY <1>1, HeadTailProperties
<1> HIDE DEF told
<1>6. Handled(h, m, outcome) = [told EXCEPT !.inbox = Tail(h.inbox)]
  BY <1>3, <1>4
<1> HIDE DEF m
<1>7. LET k == Handled(h, m, outcome)
      IN  k \in HelperRecord /\ k.status = h.status /\ k.connected = h.connected
  BY <1>3, <1>5, <1>6 DEF HelperRecord
<1> QED
  BY <1>7 DEF m

-----------------------------------------------------------------------------
(* The controller's record. *)

\* cancelInputs and the end of the late inputs take away inputs only.
LEMMA ReducedTyped ==
    ASSUME NEW c \in ControllerRecord
    PROVE  /\ WithoutInputs(c) \in ControllerRecord
           /\ WithoutInputs(c).inputs = {}
           /\ WithoutInputs(c).capture = c.capture
           /\ WithoutInputs(c).pid = c.pid
           /\ WithoutInputs(c).ready = c.ready
           /\ WithoutLate(c) \in ControllerRecord
           /\ WithoutLate(c).inputs = c.inputs \ c.late
           /\ WithoutLate(c).capture = c.capture
           /\ WithoutLate(c).pid = c.pid
           /\ WithoutLate(c).ready = c.ready
PROOF
<1>1. WithoutInputs(c) = [c EXCEPT !.inputs = {}, !.late = {}]
  BY DEF WithoutInputs
<1>2. WithoutLate(c) = [c EXCEPT !.inputs = c.inputs \ c.late, !.late = {}]
  BY DEF WithoutLate, ControllerRecord
<1> QED
  BY <1>1, <1>2 DEF ControllerRecord

\* cancelCapture takes away the capture and remembers its number.
LEMMA WithoutCaptureTyped ==
    ASSUME NEW c \in ControllerRecord
    PROVE  /\ WithoutCapture(c) \in ControllerRecord
           /\ WithoutCapture(c).capture = NoCapture
           /\ WithoutCapture(c).pid = c.pid
           /\ WithoutCapture(c).ready = c.ready
           /\ WithoutCapture(c).inputs = c.inputs
PROOF
<1>1. CASE c.capture = NoCapture
  BY <1>1 DEF WithoutCapture
<1>2. CASE c.capture # NoCapture
  <2>1. c.capture.sequence \in Numbers
    BY <1>2, CaptureTyped
  <2>2. c.ignored \cup {c.capture.sequence} \in SUBSET Numbers
    BY <2>1 DEF ControllerRecord
  <2> QED
    BY <1>2, <2>2, NullsTyped DEF WithoutCapture, ControllerRecord
<1> QED
  BY <1>1, <1>2

\* A retry remembers the old number and is the second attempt.
LEMMA RetriedTyped ==
    ASSUME controller \in ControllerRecord, Capturing, NEW s \in Numbers
    PROVE  /\ Retried(s) \in ControllerRecord
           /\ Retried(s).capture # NoCapture
           /\ Retried(s).pid = controller.pid
           /\ Retried(s).ready = controller.ready
           /\ Retried(s).inputs = controller.inputs
           /\ Retried(s).late = controller.late
PROOF
<1> DEFINE again == [sequence |-> s, attempts |-> 2, overdue |-> FALSE]
           known == controller.ignored \cup {controller.capture.sequence}
<1>1. controller.capture.sequence \in Numbers
  BY CaptureTyped DEF Capturing
<1>2. known \in SUBSET Numbers
  BY <1>1 DEF ControllerRecord
<1>3. again \in CaptureRecord /\ again # NoCapture
  BY DEF CaptureRecord, NoCapture
<1>4. Retried(s) = [controller EXCEPT !.ignored = known, !.capture = again]
  BY DEF Retried, ControllerRecord
<1> HIDE DEF again, known
<1> QED
  BY <1>2, <1>3, <1>4 DEF ControllerRecord

-----------------------------------------------------------------------------
(***************************************************************************)
(* The inductive invariant: the invariants that the runs check and, so     *)
(* that a listener that finds no controller has nothing to cancel, that an *)
(* absent controller has nothing pending.                                  *)
(***************************************************************************)
NoneIsNone == Present \/ controller = NoController

IInv ==
    /\ TypeOK
    /\ NoneIsNone
    /\ PendingIsPermitted
    /\ AnswersAreOwed
    /\ ControlledOrFailed
    /\ HelpersAreKept
    /\ MaintenanceIsSet

\* HelpersAreKept of given helpers, of those to be reaped and of a controller.
Kept(states, reaps, pid) ==
    \A p \in Pids : states[p].status # "none" =>
        IF states[p].connected THEN pid = p ELSE reaps[p] # "no"

Helpers == [Pids -> HelperRecord]
Reaps   == [Pids -> {"no", "pending", "passed"}]

\* The realm has a controller just when that has a process.
LEMMA PresentPid ==
    ASSUME TypeOK
    PROVE  Present <=> controller.pid \in Pids
PROOF
  BY InputAssumption DEF TypeOK, ControllerRecord, Present

\* Something happens to one helper, but not to the host's end of its socket.
LEMMA HelperStays ==
    ASSUME NEW states \in Helpers, NEW reaps, NEW pid, Kept(states, reaps, pid),
           NEW p \in Pids, NEW h \in HelperRecord,
           states[p].status # "none" \/ h.status = "none",
           h.connected = states[p].connected
    PROVE  LET after == [states EXCEPT ![p] = h]
           IN  after \in Helpers /\ Kept(after, reaps, pid)
PROOF
  BY DEF Helpers, Kept

\* The host hangs up on its helper and has it reaped.
LEMMA HelperDropped ==
    ASSUME NEW states \in Helpers, NEW reaps \in Reaps, NEW p \in Pids,
           Kept(states, reaps, p), NEW h \in HelperRecord, h.connected = FALSE
    PROVE  LET after == [states EXCEPT ![p] = h]
               reaped == [reaps EXCEPT ![p] = "pending"]
           IN  /\ after \in Helpers
               /\ reaped \in Reaps
               /\ \A pid : Kept(after, reaped, pid)
PROOF
<1> DEFINE after  == [states EXCEPT ![p] = h]
           reaped == [reaps EXCEPT ![p] = "pending"]
<1>1. after \in Helpers /\ reaped \in Reaps
  BY DEF Helpers, Reaps
<1>2. \A q \in Pids : q # p =>
         after[q] = states[q] /\ reaped[q] = reaps[q]
  BY DEF Helpers, Reaps
<1>3. after[p] = h /\ reaped[p] = "pending"
  BY DEF Helpers, Reaps
<1>4. ASSUME NEW pid, NEW q \in Pids, after[q].status # "none"
      PROVE  IF after[q].connected THEN pid = q ELSE reaped[q] # "no"
  <2>1. CASE q = p
    BY <1>3, <2>1
  <2>2. CASE q # p
    <3>1. states[q].status # "none" /\ ~states[q].connected
      BY <1>2, <1>4, <2>2 DEF Kept, Helpers, HelperRecord
    <3> QED
      BY <1>2, <2>2, <3>1 DEF Kept
  <2> QED
    BY <2>1, <2>2
<1> HIDE DEF after, reaped
<1>5. \A pid : Kept(after, reaped, pid)
  BY <1>4 DEF Kept
<1> QED
  BY <1>1, <1>5 DEF after, reaped

\* Reaping forgets a process and its record together.
LEMMA ReapKeeps ==
    ASSUME NEW states \in Helpers, NEW reaps \in Reaps, NEW pid,
           Kept(states, reaps, pid), Reap(states, reaps)
    PROVE  helper' \in Helpers /\ reaping' \in Reaps /\ Kept(helper', reaping', pid)
PROOF
<1> DEFINE R == Reapable(states, reaps)
<1>1. helper' = [p \in Pids |-> IF p \in R THEN NoHelper ELSE states[p]]
  BY DEF Reap
<1>2. reaping' = [p \in Pids |-> IF p \in R THEN "no" ELSE reaps[p]]
  BY DEF Reap
<1> HIDE DEF R
<1>3. helper' \in Helpers /\ reaping' \in Reaps
  BY <1>1, <1>2, NullsTyped DEF Helpers, Reaps
<1>4. Kept(helper', reaping', pid)
  BY <1>1, <1>2, NullsTyped DEF Kept
<1> QED
  BY <1>3, <1>4

Waiting == [inputs : SUBSET Numbers, capture : BOOLEAN]

-----------------------------------------------------------------------------
(* What cancelling does, whoever cancels. *)

\* What the listeners of lease, permission and capability do to everything.
LEMMA RevokeEffect ==
    ASSUME IInv, NEW released \in BOOLEAN, NEW cancelled \in BOOLEAN,
           Revoke(released, cancelled)
    PROVE  /\ controller' \in ControllerRecord
           /\ helper' \in Helpers
           /\ awaited' \in Waiting
           /\ lost' \in BOOLEAN
           /\ UNCHANGED <<failure, reaping, timer>>
           /\ controller'.pid = controller.pid
           /\ controller'.ready = controller.ready
           /\ controller'.inputs = IF released THEN {} ELSE controller.inputs
           /\ controller'.capture = IF cancelled THEN NoCapture ELSE controller.capture
           /\ NoneIsNone'
           /\ AnswersAreOwed'
           /\ HelpersAreKept'
PROOF
<1> USE DEF IInv
<1>1. controller \in ControllerRecord /\ helper \in Helpers /\ awaited \in Waiting
        /\ lost \in BOOLEAN
  BY DEF TypeOK, Helpers, Waiting
<1>2. CASE ~Present
  <2>1. UNCHANGED hostVars
    BY <1>2 DEF Revoke
  <2>2. controller = NoController
    BY <1>2 DEF NoneIsNone
  <2>3. controller.inputs = {} /\ controller.capture = NoCapture
    BY <2>2 DEF NoController
  <2> QED
    BY <1>1, <2>1, <2>3 DEF hostVars, NoneIsNone, Present, AnswersAreOwed, Capturing, HelpersAreKept
<1>3. CASE Present
  <2> DEFINE c == IF released THEN WithoutInputs(controller) ELSE controller
             d == IF cancelled THEN WithoutCapture(c) ELSE c
             h == IF released THEN Sent(Channel, ReleaseAll) ELSE Channel
             k == IF cancelled THEN CancelSent(h, controller) ELSE h
  <2>1. controller.pid \in Pids
    BY <1>3, PresentPid
  <2>2. Channel \in HelperRecord
    BY <1>1, <2>1 DEF Channel, Helpers
  <2>3. controller' = d
    BY <1>3 DEF Revoke
  <2>4. helper' = [helper EXCEPT ![controller.pid] = k]
    BY <1>3 DEF Revoke, Channel
  <2>5. /\ c \in ControllerRecord
        /\ c.inputs = IF released THEN {} ELSE controller.inputs
        /\ c.capture = controller.capture
        /\ c.pid = controller.pid
        /\ c.ready = controller.ready
    BY <1>1, ReducedTyped
  <2>6. /\ d \in ControllerRecord
        /\ d.inputs = IF released THEN {} ELSE controller.inputs
        /\ d.capture = IF cancelled THEN NoCapture ELSE controller.capture
        /\ d.pid = controller.pid
        /\ d.ready = controller.ready
    <3> HIDE DEF c
    <3> QED
      BY <2>5, WithoutCaptureTyped
  <2>7. h \in HelperRecord /\ h.status = Channel.status /\ h.connected = Channel.connected
    BY <2>2, SentTyped, ReleaseAllTyped
  <2>8. k \in HelperRecord /\ k.status = Channel.status /\ k.connected = Channel.connected
    <3> HIDE DEF h
    <3> QED
      BY <1>1, <2>7, CancelSentTyped
  <2> HIDE DEF c, d, h, k
  <2>9. helper' \in Helpers /\ Kept(helper', reaping, controller.pid)
    <3>1. Kept(helper, reaping, controller.pid)
      BY DEF HelpersAreKept, Kept
    <3>2. helper[controller.pid] = Channel
      BY DEF Channel
    <3> QED
      BY <1>1, <2>1, <2>4, <2>8, <3>1, <3>2, HelperStays
  <2>10. UNCHANGED <<failure, reaping, timer>>
    BY <1>3 DEF Revoke
  <2>11. /\ awaited'.inputs = IF released THEN AnswerInputs ELSE awaited.inputs
         /\ awaited'.capture = IF cancelled THEN AnswerCapture ELSE awaited.capture
         /\ awaited' \in Waiting
    <3> DEFINE x == IF released THEN AnswerInputs ELSE awaited.inputs
               y == IF cancelled THEN AnswerCapture ELSE awaited.capture
    <3>1. awaited' = [inputs |-> x, capture |-> y]
      BY <1>3 DEF Revoke
    <3>2. x \in SUBSET Numbers
      BY <1>1 DEF AnswerInputs, Waiting
    <3>3. y \in BOOLEAN
      BY <1>1 DEF AnswerCapture, Waiting
    <3> HIDE DEF x, y
    <3>4. awaited'.inputs = x /\ awaited'.capture = y /\ awaited' \in Waiting
      BY <3>1, <3>2, <3>3 DEF Waiting
    <3> QED
      BY <3>4 DEF x, y
  <2>12. lost' \in BOOLEAN
    BY <1>1, <1>3 DEF Revoke, Accepts
  <2>13. AnswersAreOwed'
    BY <2>3, <2>6, <2>11 DEF AnswersAreOwed, AnswerInputs, AnswerCapture, Capturing
  <2>14. HelpersAreKept'
    BY <2>3, <2>6, <2>9, <2>10 DEF HelpersAreKept, Kept
  <2>15. NoneIsNone'
    BY <1>3, <2>3, <2>6 DEF NoneIsNone, Present
  <2> QED
    BY <2>3, <2>6, <2>9, <2>10, <2>11, <2>12, <2>13, <2>14, <2>15
<1> QED
  BY <1>2, <1>3

\* The answers of a controller that is dropped.
LEMMA AllAnswered ==
    ASSUME IInv, awaited' = [inputs |-> AnswerInputs, capture |-> AnswerCapture],
           controller' = NoController
    PROVE  awaited' \in Waiting /\ AnswersAreOwed' /\ NoneIsNone' /\ PendingIsPermitted'
PROOF
<1>1. AnswerInputs = {} /\ AnswerCapture = FALSE
  BY DEF IInv, AnswersAreOwed, AnswerInputs, AnswerCapture
<1>2. controller'.inputs = {} /\ controller'.capture = NoCapture /\ controller'.pid = 0
  BY DEF NoController
<1> QED
  BY <1>1, <1>2 DEF Waiting, AnswersAreOwed, Capturing, NoneIsNone, Present, PendingIsPermitted

\* stopController drops the controller, answers everyone and has the helper reaped.
LEMMA StopEffect ==
    ASSUME IInv, StopController
    PROVE  /\ controller' = NoController
           /\ helper' \in Helpers
           /\ reaping' \in Reaps
           /\ awaited' \in Waiting
           /\ UNCHANGED <<failure, lost>>
           /\ timer' = "armed" \/ (UNCHANGED <<timer, reaping>> /\ ~Present)
           /\ NoneIsNone'
           /\ PendingIsPermitted'
           /\ AnswersAreOwed'
           /\ HelpersAreKept'
PROOF
<1>1. controller \in ControllerRecord /\ helper \in Helpers /\ awaited \in Waiting
        /\ reaping \in Reaps
  BY DEF IInv, TypeOK, Helpers, Waiting, Reaps
<1>2. CASE ~Present
  <2>1. UNCHANGED hostVars
    BY <1>2 DEF StopController
  <2>2. controller = NoController
    BY <1>2 DEF IInv, NoneIsNone
  <2>3. controller.inputs = {} /\ controller.capture = NoCapture
    BY <2>2 DEF NoController
  <2> QED
    BY <1>1, <1>2, <2>1, <2>2, <2>3
       DEF IInv, hostVars, NoneIsNone, AnswersAreOwed, Capturing, HelpersAreKept, PendingIsPermitted
<1>3. CASE Present
  <2>1. controller.pid \in Pids
    BY <1>3, PresentPid DEF IInv
  <2>2. Channel \in HelperRecord
    BY <1>1, <2>1 DEF Channel, Helpers
  <2>3. Stopped(Channel) \in HelperRecord /\ Stopped(Channel).connected = FALSE
    BY <1>1, <2>2, StoppedTyped
  <2>4. Kept(helper, reaping, controller.pid)
    BY DEF IInv, HelpersAreKept, Kept
  <2>5. /\ controller' = NoController
        /\ helper' = [helper EXCEPT ![controller.pid] = Stopped(Channel)]
        /\ reaping' = [reaping EXCEPT ![controller.pid] = "pending"]
        /\ timer' = "armed"
        /\ awaited' = [inputs |-> AnswerInputs, capture |-> AnswerCapture]
        /\ UNCHANGED <<failure, lost>>
    BY <1>3 DEF StopController, Channel
  <2>6. helper' \in Helpers /\ reaping' \in Reaps /\ Kept(helper', reaping', controller'.pid)
    BY <1>1, <2>1, <2>3, <2>4, <2>5, HelperDropped
  <2>7. HelpersAreKept'
    BY <2>6 DEF HelpersAreKept, Kept
  <2> QED
    BY <2>5, <2>6, <2>7, AllAnswered
<1> QED
  BY <1>2, <1>3

\* A helper that fails is dropped: the failure is recorded, everyone is answered.
LEMMA DetachKeeps ==
    ASSUME IInv, Present, Detach
    PROVE  IInv'
PROOF
<1>1. controller \in ControllerRecord /\ helper \in Helpers /\ reaping \in Reaps
  BY DEF IInv, TypeOK, Helpers, Reaps
<1>2. controller.pid \in Pids
  BY PresentPid DEF IInv
<1> DEFINE k == CancelSent(Channel, controller)
           h == [k EXCEPT !.connected = FALSE]
<1>3. k \in HelperRecord
  <2>1. Channel \in HelperRecord
    BY <1>1, <1>2 DEF Channel, Helpers
  <2> QED
    BY <1>1, <2>1, CancelSentTyped
<1>4. h \in HelperRecord /\ h.connected = FALSE
  <2> HIDE DEF k
  <2> QED
    BY <1>3 DEF HelperRecord
<1>5. /\ controller' = NoController
      /\ failure' = TRUE
      /\ helper' = [helper EXCEPT ![controller.pid] = h]
      /\ reaping' = [reaping EXCEPT ![controller.pid] = "pending"]
      /\ timer' = "armed"
      /\ awaited' = [inputs |-> AnswerInputs, capture |-> AnswerCapture]
      /\ UNCHANGED <<realmVars, open, lost>>
  BY DEF Detach, Channel, Alive
<1> HIDE DEF h
<1>6. Kept(helper, reaping, controller.pid)
  BY DEF IInv, HelpersAreKept, Kept
<1>7. helper' \in Helpers /\ reaping' \in Reaps /\ Kept(helper', reaping', controller'.pid)
  BY <1>1, <1>2, <1>4, <1>5, <1>6, HelperDropped
<1>8. HelpersAreKept'
  BY <1>7 DEF HelpersAreKept, Kept
<1>9. awaited' \in Waiting /\ AnswersAreOwed' /\ NoneIsNone' /\ PendingIsPermitted'
  BY <1>5, AllAnswered
<1>10. TypeOK'
  BY <1>5, <1>7, <1>9, NullsTyped DEF IInv, TypeOK, Helpers, Reaps, Waiting, realmVars
<1>11. ControlledOrFailed'
  BY <1>5 DEF ControlledOrFailed, Present, NoController
<1>12. MaintenanceIsSet'
  BY <1>5 DEF MaintenanceIsSet
<1> QED
  BY <1>8, <1>9, <1>10, <1>11, <1>12 DEF IInv

-----------------------------------------------------------------------------
(* The realm's steps. *)

\* Whatever the realm does, its phase, lease and permissions keep their types.
LEMMA RealmTyped ==
    ASSUME TypeOK, Contract!Next
    PROVE  /\ phase' \in {"idle", "starting", "running", "paused", "stopping"}
           /\ owner' \in {"AGENT", "HUMAN", "NONE"}
           /\ {observable', granted'} \subseteq BOOLEAN
PROOF
  BY DEF TypeOK, Contract!Next, Contract!Start, Contract!BecomeReady, Contract!HandOver,
         Contract!Pause, Contract!Resume, Contract!End, Contract!Observe,
         Contract!Unobserve, Contract!Grant, Contract!Revoke

\* A step that only revokes keeps what does not depend on the realm.
LEMMA RevokeKeeps ==
    ASSUME IInv, NEW released \in BOOLEAN, NEW cancelled \in BOOLEAN,
           Revoke(released, cancelled), Contract!Next \/ UNCHANGED <<phase, owner, observable, granted>>,
           pointer' \in BOOLEAN, UNCHANGED open
    PROVE  TypeOK' /\ NoneIsNone' /\ AnswersAreOwed' /\ HelpersAreKept' /\ MaintenanceIsSet'
PROOF
<1>1. /\ controller' \in ControllerRecord
      /\ helper' \in Helpers
      /\ awaited' \in Waiting
      /\ lost' \in BOOLEAN
      /\ UNCHANGED <<failure, reaping, timer>>
      /\ controller'.pid = controller.pid
      /\ controller'.ready = controller.ready
      /\ controller'.inputs = IF released THEN {} ELSE controller.inputs
      /\ controller'.capture = IF cancelled THEN NoCapture ELSE controller.capture
      /\ NoneIsNone' /\ AnswersAreOwed' /\ HelpersAreKept'
  BY RevokeEffect
<1>2. /\ phase' \in {"idle", "starting", "running", "paused", "stopping"}
      /\ owner' \in {"AGENT", "HUMAN", "NONE"}
      /\ {observable', granted'} \subseteq BOOLEAN
  BY RealmTyped DEF IInv, TypeOK
<1>3. TypeOK'
  BY <1>1, <1>2 DEF IInv, TypeOK, Helpers, Waiting
<1>4. MaintenanceIsSet'
  BY <1>1 DEF IInv, MaintenanceIsSet, Work
<1> QED
  BY <1>1, <1>3, <1>4

\* The listeners that cancel do so for all that the realm now refuses.
LEMMA RevokingKeeps ==
    ASSUME IInv, HandOver \/ Pause \/ RealmStops \/ Unobserve \/ RevokeObserve \/ RevokeInput
    PROVE  IInv'
PROOF
<1> USE DEF Alive
<1>0. IInv /\ TypeOK /\ PendingIsPermitted /\ ControlledOrFailed
  BY DEF IInv
<1>1. CASE HandOver
  <2>1. Contract!HandOver /\ Revoke(owner' # "AGENT", FALSE) /\ UNCHANGED <<pointer, open>>
    BY <1>1 DEF HandOver
  <2>2. Contract!Next /\ pointer' \in BOOLEAN
    BY <1>0, <2>1 DEF Contract!Next, TypeOK
  <2>3. TypeOK' /\ NoneIsNone' /\ AnswersAreOwed' /\ HelpersAreKept' /\ MaintenanceIsSet'
    BY <2>1, <2>2, RevokeKeeps
  <2>4. /\ controller'.pid = controller.pid
        /\ controller'.ready = controller.ready
        /\ controller'.inputs = IF owner' # "AGENT" THEN {} ELSE controller.inputs
        /\ controller'.capture = controller.capture
        /\ failure' = failure
    BY <2>1, RevokeEffect
  <2>5. PendingIsPermitted'
    BY <1>0, <2>1, <2>4
       DEF PendingIsPermitted, MayInput, Capturing, Present, Contract!HandOver
  <2>6. ControlledOrFailed'
    BY <1>0, <2>1, <2>4 DEF ControlledOrFailed, Present, Contract!HandOver
  <2> QED
    BY <2>3, <2>5, <2>6 DEF IInv
<1>2. CASE Pause
  <2>1. Contract!Pause /\ Revoke(TRUE, TRUE) /\ UNCHANGED <<pointer, open>>
    BY <1>2 DEF Pause
  <2>2. Contract!Next /\ pointer' \in BOOLEAN
    BY <1>0, <2>1 DEF Contract!Next, TypeOK
  <2>3. TypeOK' /\ NoneIsNone' /\ AnswersAreOwed' /\ HelpersAreKept' /\ MaintenanceIsSet'
    BY <2>1, <2>2, RevokeKeeps
  <2>4. /\ controller'.pid = controller.pid
        /\ controller'.inputs = {}
        /\ controller'.capture = NoCapture
        /\ failure' = failure
    BY <2>1, RevokeEffect
  <2>5. PendingIsPermitted'
    BY <2>4 DEF PendingIsPermitted, Capturing
  <2>6. ControlledOrFailed'
    BY <1>0, <2>1, <2>4 DEF ControlledOrFailed, Present, Contract!Pause
  <2> QED
    BY <2>3, <2>5, <2>6 DEF IInv
<1>3. CASE RealmStops
  <2> DEFINE r == owner # "NONE"
  <2>1. /\ Contract!End /\ phase' = "stopping" /\ UNCHANGED <<pointer, open>>
        /\ Revoke(r, observable) /\ r \in BOOLEAN /\ observable \in BOOLEAN
    BY <1>0, <1>3 DEF RealmStops, TypeOK
  <2>2. Contract!Next /\ pointer' \in BOOLEAN
    BY <1>0, <2>1 DEF Contract!Next, TypeOK
  <2> HIDE DEF r
  <2>3. TypeOK' /\ NoneIsNone' /\ AnswersAreOwed' /\ HelpersAreKept' /\ MaintenanceIsSet'
    BY <2>1, <2>2, RevokeKeeps
  <2>4. /\ controller'.pid = controller.pid
        /\ controller'.inputs = IF r THEN {} ELSE controller.inputs
        /\ controller'.capture = IF observable THEN NoCapture ELSE controller.capture
        /\ failure' = failure
    BY <2>1, RevokeEffect
  <2>5. controller'.inputs = {} /\ controller'.capture = NoCapture
    BY <1>0, <2>4 DEF PendingIsPermitted, MayInput, Capturing, r
  <2>6. PendingIsPermitted'
    BY <2>5 DEF PendingIsPermitted, Capturing
  <2>7. ControlledOrFailed'
    BY <1>0, <2>1, <2>4 DEF ControlledOrFailed, Present, Contract!End
  <2> QED
    BY <2>3, <2>6, <2>7 DEF IInv
<1>4. CASE Unobserve
  <2>1. Contract!Unobserve /\ Revoke(FALSE, observable) /\ UNCHANGED <<pointer, open>>
          /\ observable \in BOOLEAN
    BY <1>0, <1>4 DEF Unobserve, TypeOK
  <2>2. Contract!Next /\ pointer' \in BOOLEAN
    BY <1>0, <2>1 DEF Contract!Next, TypeOK
  <2>3. TypeOK' /\ NoneIsNone' /\ AnswersAreOwed' /\ HelpersAreKept' /\ MaintenanceIsSet'
    BY <2>1, <2>2, RevokeKeeps
  <2>4. /\ controller'.pid = controller.pid
        /\ controller'.ready = controller.ready
        /\ controller'.inputs = controller.inputs
        /\ controller'.capture = IF observable THEN NoCapture ELSE controller.capture
        /\ failure' = failure
    BY <2>1, RevokeEffect
  <2>5. PendingIsPermitted'
    BY <1>0, <2>1, <2>4
       DEF PendingIsPermitted, MayInput, Capturing, Present, Contract!Unobserve
  <2>6. ControlledOrFailed'
    BY <1>0, <2>1, <2>4 DEF ControlledOrFailed, Present, Contract!Unobserve
  <2> QED
    BY <2>3, <2>5, <2>6 DEF IInv
<1>5. CASE RevokeObserve
  <2>1. Contract!Revoke /\ Revoke(FALSE, TRUE) /\ UNCHANGED <<pointer, open>>
    BY <1>5 DEF RevokeObserve
  <2>2. Contract!Next /\ pointer' \in BOOLEAN
    BY <1>0, <2>1 DEF Contract!Next, TypeOK
  <2>3. TypeOK' /\ NoneIsNone' /\ AnswersAreOwed' /\ HelpersAreKept' /\ MaintenanceIsSet'
    BY <2>1, <2>2, RevokeKeeps
  <2>4. /\ controller'.pid = controller.pid
        /\ controller'.ready = controller.ready
        /\ controller'.inputs = controller.inputs
        /\ controller'.capture = NoCapture
        /\ failure' = failure
    BY <2>1, RevokeEffect
  <2>5. PendingIsPermitted'
    BY <1>0, <2>1, <2>4
       DEF PendingIsPermitted, MayInput, Capturing, Present, Contract!Revoke
  <2>6. ControlledOrFailed'
    BY <1>0, <2>1, <2>4 DEF ControlledOrFailed, Present, Contract!Revoke
  <2> QED
    BY <2>3, <2>5, <2>6 DEF IInv
<1>6. CASE RevokeInput
  <2>1. /\ Revoke(TRUE, FALSE) /\ UNCHANGED open /\ pointer' \in BOOLEAN
        /\ UNCHANGED <<phase, owner, observable, granted>>
    BY <1>0, <1>6 DEF RevokeInput, TypeOK
  <2>2. TypeOK' /\ NoneIsNone' /\ AnswersAreOwed' /\ HelpersAreKept' /\ MaintenanceIsSet'
    BY <2>1, RevokeKeeps
  <2>3. /\ controller'.pid = controller.pid
        /\ controller'.ready = controller.ready
        /\ controller'.inputs = {}
        /\ controller'.capture = controller.capture
        /\ failure' = failure
    BY <2>1, RevokeEffect
  <2>4. PendingIsPermitted'
    BY <1>0, <2>1, <2>3 DEF PendingIsPermitted, Capturing
  <2>5. ControlledOrFailed'
    BY <1>0, <2>1, <2>3 DEF ControlledOrFailed, Present
  <2> QED
    BY <2>2, <2>4, <2>5 DEF IInv
<1> QED
  BY <1>1, <1>2, <1>3, <1>4, <1>5, <1>6

\* Steps of the realm at which no listener changes anything.
LEMMA SilentKeeps ==
    ASSUME IInv, RealmStarts \/ Resume \/ RealmDestroyed \/ Observe \/ Grant \/ GrantPointer
    PROVE  IInv'
PROOF
<1>0. TypeOK /\ PendingIsPermitted /\ ControlledOrFailed
  BY DEF IInv
<1>1. UNCHANGED <<open, controller, helper, reaping, timer, awaited, lost>>
  BY DEF RealmStarts, Resume, RealmDestroyed, Observe, Grant, GrantPointer, hostVars, Alive
<1>2. /\ phase' \in {"idle", "starting", "running", "paused", "stopping"}
      /\ owner' \in {"AGENT", "HUMAN", "NONE"}
      /\ {observable', granted'} \subseteq BOOLEAN
  <2>1. CASE RealmStarts \/ Resume \/ Observe \/ Grant
    <3>1. Contract!Next
      BY <2>1 DEF RealmStarts, Resume, Observe, Grant, Contract!Next
    <3> QED
      BY <1>0, <3>1, RealmTyped
  <2>2. CASE RealmDestroyed \/ GrantPointer
    BY <1>0, <2>2 DEF RealmDestroyed, GrantPointer, realmVars, TypeOK
  <2> QED
    BY <2>1, <2>2
<1>3. pointer' \in BOOLEAN /\ failure' \in BOOLEAN
  BY <1>0 DEF TypeOK, RealmStarts, Resume, RealmDestroyed, Observe, Grant, GrantPointer,
              hostVars, realmVars
<1>4. TypeOK'
  BY <1>0, <1>1, <1>2, <1>3 DEF TypeOK
<1>5. NoneIsNone' /\ AnswersAreOwed' /\ HelpersAreKept' /\ MaintenanceIsSet'
  BY <1>1 DEF IInv, NoneIsNone, Present, AnswersAreOwed, Capturing, HelpersAreKept,
              MaintenanceIsSet, Work
<1>6. PendingIsPermitted'
  BY <1>0, <1>1 DEF PendingIsPermitted, MayInput, Capturing, Present, realmVars,
     RealmStarts, Resume, RealmDestroyed, Observe, Grant, GrantPointer,
     Contract!Start, Contract!Resume, Contract!Observe, Contract!Grant
<1>7. ControlledOrFailed'
  BY <1>0, <1>1 DEF ControlledOrFailed, Present, realmVars, hostVars,
     RealmStarts, Resume, RealmDestroyed, Observe, Grant, GrantPointer,
     Contract!Start, Contract!Resume, Contract!Observe, Contract!Grant
<1> QED
  BY <1>4, <1>5, <1>6, <1>7 DEF IInv

\* STOPPED and FAILED take the controller away.
LEMMA EndKeeps ==
    ASSUME IInv, RealmEnds
    PROVE  IInv'
PROOF
<1>1. /\ Contract!End /\ phase' = "idle" /\ StopController
      /\ UNCHANGED <<pointer, open>>
  BY DEF RealmEnds, Alive
<1>2. /\ controller' = NoController
      /\ helper' \in Helpers
      /\ reaping' \in Reaps
      /\ awaited' \in Waiting
      /\ UNCHANGED <<failure, lost>>
      /\ timer' = "armed" \/ (UNCHANGED <<timer, reaping>> /\ ~Present)
      /\ NoneIsNone' /\ PendingIsPermitted' /\ AnswersAreOwed' /\ HelpersAreKept'
  BY <1>1, StopEffect
<1>3. TypeOK'
  <2>1. Contract!Next
    BY <1>1 DEF Contract!Next
  <2> QED
    BY <1>1, <1>2, <2>1, RealmTyped, NullsTyped DEF IInv, TypeOK, Helpers, Reaps, Waiting
<1>4. ControlledOrFailed'
  BY <1>1, <1>2 DEF ControlledOrFailed, Present, NoController
<1>5. MaintenanceIsSet'
  BY <1>1, <1>2 DEF IInv, MaintenanceIsSet, Work, NoController
<1> QED
  BY <1>2, <1>3, <1>4, <1>5 DEF IInv

\* STARTED leaves a controller or a failure, however far the start came.
LEMMA StartKeeps ==
    ASSUME IInv, StartFails \/ \E p \in Pids : StartFailsLate(p) \/ StartController(p)
    PROVE  IInv'
PROOF
<1>0. /\ TypeOK /\ helper \in Helpers /\ reaping \in Reaps
      /\ Kept(helper, reaping, controller.pid)
  BY DEF IInv, TypeOK, Helpers, Reaps, HelpersAreKept, Kept
<1>1. Contract!BecomeReady /\ UNCHANGED <<pointer, open>> /\ open
  BY DEF StartFails, StartFailsLate, StartController, RealmRuns, Alive
<1>2. ~Present /\ controller = NoController
  BY <1>1 DEF IInv, ControlledOrFailed, NoneIsNone, Contract!BecomeReady
<1>3. controller.pid = 0 /\ 0 \notin Pids
  BY <1>2, InputAssumption DEF NoController
<1>4. \A q \in Pids : helper[q].status # "none" => ~helper[q].connected /\ reaping[q] # "no"
  BY <1>0, <1>3 DEF Kept, Helpers, HelperRecord
<1>5. /\ phase' = "running" /\ owner' \in {"AGENT", "HUMAN", "NONE"}
      /\ {observable', granted'} \subseteq BOOLEAN
  BY <1>0, <1>1 DEF Contract!BecomeReady, TypeOK
<1>6. controller.inputs = {} /\ controller.capture = NoCapture
  BY <1>2 DEF NoController
<1>7. awaited.inputs = {} /\ awaited.capture = FALSE
  BY <1>0, <1>6 DEF IInv, AnswersAreOwed, Capturing, TypeOK
<1>8. CASE StartFails
  <2>1. failure' = TRUE /\ UNCHANGED <<controller, helper, reaping, timer, awaited, lost>>
    BY <1>8 DEF StartFails
  <2>2. TypeOK'
    BY <1>0, <1>1, <1>5, <2>1 DEF TypeOK
  <2>3. PendingIsPermitted' /\ AnswersAreOwed' /\ NoneIsNone'
    BY <1>2, <1>6, <1>7, <2>1 DEF PendingIsPermitted, AnswersAreOwed, Capturing, NoneIsNone
  <2>4. HelpersAreKept' /\ MaintenanceIsSet'
    BY <1>1, <2>1 DEF IInv, HelpersAreKept, MaintenanceIsSet, Work
  <2>5. ControlledOrFailed'
    BY <1>2, <1>5, <2>1 DEF ControlledOrFailed, Present
  <2> QED
    BY <2>2, <2>3, <2>4, <2>5 DEF IInv
<1>9. ASSUME NEW p \in Pids, StartFailsLate(p)
      PROVE  IInv'
  <2> DEFINE h == [Launched EXCEPT !.connected = FALSE]
  <2>1. /\ failure' = TRUE /\ timer' = "armed"
        /\ helper' = [helper EXCEPT ![p] = h]
        /\ reaping' = [reaping EXCEPT ![p] = "pending"]
        /\ UNCHANGED <<controller, awaited, lost>>
    BY <1>9 DEF StartFailsLate
  <2>2. h \in HelperRecord /\ h.connected = FALSE
    BY NullsTyped DEF HelperRecord
  <2> HIDE DEF h
  <2>3. Kept(helper, reaping, p)
    BY <1>4 DEF Kept
  <2>4. helper' \in Helpers /\ reaping' \in Reaps /\ Kept(helper', reaping', controller.pid)
    BY <1>0, <2>1, <2>2, <2>3, HelperDropped
  <2>5. TypeOK'
    BY <1>0, <1>1, <1>5, <2>1, <2>4 DEF TypeOK, Helpers, Reaps
  <2>6. PendingIsPermitted' /\ AnswersAreOwed' /\ NoneIsNone'
    BY <1>2, <1>6, <1>7, <2>1 DEF PendingIsPermitted, AnswersAreOwed, Capturing, NoneIsNone
  <2>7. HelpersAreKept' /\ MaintenanceIsSet'
    BY <2>1, <2>4 DEF HelpersAreKept, Kept, MaintenanceIsSet
  <2>8. ControlledOrFailed'
    BY <1>2, <1>5, <2>1 DEF ControlledOrFailed, Present
  <2> QED
    BY <2>5, <2>6, <2>7, <2>8 DEF IInv
<1>10. ASSUME NEW p \in Pids, StartController(p)
       PROVE  IInv'
  <2> DEFINE c == [NoController EXCEPT !.pid = p]
  <2>1. /\ failure' = FALSE /\ timer' = "armed" /\ lost' = FALSE
        /\ controller' = c
        /\ helper' = [helper EXCEPT ![p] = Launched]
        /\ UNCHANGED <<reaping, awaited>>
    BY <1>10 DEF StartController
  <2>2. /\ c \in ControllerRecord /\ c.pid = p /\ c.inputs = {} /\ c.capture = NoCapture
    BY NullsTyped DEF ControllerRecord, NoController
  <2> HIDE DEF c
  <2>3. p # 0
    BY <1>3
  <2>4. helper' \in Helpers /\ HelpersAreKept'
    BY <1>0, <1>4, <2>1, <2>2, NullsTyped DEF Helpers, HelpersAreKept
  <2>5. TypeOK'
    BY <1>0, <1>1, <1>5, <2>1, <2>2, <2>4 DEF TypeOK, Helpers
  <2>6. PendingIsPermitted' /\ AnswersAreOwed' /\ NoneIsNone'
    BY <1>7, <2>1, <2>2, <2>3
       DEF PendingIsPermitted, AnswersAreOwed, Capturing, NoneIsNone, Present
  <2>7. MaintenanceIsSet'
    BY <2>1 DEF MaintenanceIsSet
  <2>8. ControlledOrFailed'
    BY <1>5, <2>1, <2>2, <2>3 DEF ControlledOrFailed, Present
  <2> QED
    BY <2>4, <2>5, <2>6, <2>7, <2>8 DEF IInv
<1> QED
  BY <1>8, <1>9, <1>10

-----------------------------------------------------------------------------
(* Requests. *)

\* A message reaches the controller's helper: nothing else of it changes.
LEMMA ChannelSent ==
    ASSUME IInv, Present, NEW m \in Commands,
           helper' = [helper EXCEPT ![controller.pid] = Sent(@, m)]
    PROVE  helper' \in Helpers /\ Kept(helper', reaping, controller.pid)
PROOF
<1>1. helper \in Helpers /\ Kept(helper, reaping, controller.pid)
  BY DEF IInv, TypeOK, Helpers, HelpersAreKept, Kept
<1>2. controller.pid \in Pids
  BY PresentPid DEF IInv
<1>3. Channel \in HelperRecord /\ Channel = helper[controller.pid]
  BY <1>1, <1>2 DEF Channel, Helpers
<1>4. /\ Sent(Channel, m) \in HelperRecord
      /\ Sent(Channel, m).status = Channel.status
      /\ Sent(Channel, m).connected = Channel.connected
  BY <1>3, SentTyped
<1> DEFINE k == Sent(Channel, m)
<1>5. helper' = [helper EXCEPT ![controller.pid] = k]
  BY <1>3
<1> HIDE DEF k
<1>6. k.status = helper[controller.pid].status /\ k.connected = helper[controller.pid].connected
  BY <1>3, <1>4 DEF k
<1>7. k \in HelperRecord
  BY <1>4 DEF k
<1>8. LET after == [helper EXCEPT ![controller.pid] = k]
      IN  after \in Helpers /\ Kept(after, reaping, controller.pid)
  <2>1. helper[controller.pid].status # "none" \/ k.status = "none"
    BY <1>6
  <2> HIDE DEF k
  <2> QED
    BY <1>1, <1>2, <1>6, <1>7, <2>1, HelperStays
<1> QED
  BY ONLY <1>5, <1>8

\* An input or a capture that is sent is permitted, owed and watched.
LEMMA RequestKeeps ==
    ASSUME IInv, RequestInput \/ RequestCapture
    PROVE  IInv'
PROOF
<1>0. /\ TypeOK /\ controller \in ControllerRecord /\ awaited \in Waiting
      /\ PendingIsPermitted /\ AnswersAreOwed /\ ControlledOrFailed
  BY DEF IInv, TypeOK, Waiting
<1>1. CASE RequestInput
  <2>1. PICK type \in Inputs : SendInput(type)
    BY <1>1 DEF RequestInput
  <2>2. PICK s \in Free :
           /\ controller' = [controller EXCEPT !.inputs = @ \cup {s}]
           /\ helper' = [helper EXCEPT ![controller.pid] = Sent(@, Message(type, s))]
           /\ awaited' = [awaited EXCEPT !.inputs = @ \cup {s}]
    BY <2>1 DEF SendInput
  <2>3. /\ MayInput /\ timer' = "armed"
        /\ UNCHANGED <<realmVars, open, failure, reaping, lost>>
    BY <2>1 DEF SendInput, Alive
  <2>4. s \in Numbers
    BY DEF Free
  <2>5. Message(type, s) \in Commands
    BY <2>4, InputAssumption DEF Message, Commands
  <2>6. helper' \in Helpers /\ Kept(helper', reaping, controller.pid)
    BY <2>2, <2>3, <2>5, ChannelSent DEF MayInput
  <2>7. /\ controller' \in ControllerRecord
        /\ controller'.pid = controller.pid
        /\ controller'.ready = controller.ready
        /\ controller'.inputs = controller.inputs \cup {s}
        /\ controller'.capture = controller.capture
    BY <1>0, <2>2, <2>4 DEF ControllerRecord
  <2>8. /\ awaited' \in Waiting
        /\ awaited'.inputs = awaited.inputs \cup {s}
        /\ awaited'.capture = awaited.capture
    BY <1>0, <2>2, <2>4 DEF Waiting
  <2>9. TypeOK'
    BY <1>0, <2>3, <2>6, <2>7, <2>8 DEF TypeOK, Helpers, Waiting, realmVars
  <2>10. PendingIsPermitted'
    BY <1>0, <2>3, <2>7 DEF PendingIsPermitted, MayInput, Capturing, Present, realmVars
  <2>11. AnswersAreOwed' /\ NoneIsNone'
    BY <1>0, <2>3, <2>7, <2>8 DEF AnswersAreOwed, Capturing, NoneIsNone, Present, MayInput
  <2>12. ControlledOrFailed'
    BY <1>0, <2>3, <2>7 DEF ControlledOrFailed, Present, realmVars
  <2>13. HelpersAreKept' /\ MaintenanceIsSet'
    BY <2>3, <2>6, <2>7 DEF HelpersAreKept, Kept, MaintenanceIsSet
  <2> QED
    BY <2>9, <2>10, <2>11, <2>12, <2>13 DEF IInv
<1>2. CASE RequestCapture
  <2>1. PICK s \in Free :
           /\ controller' = [controller EXCEPT !.capture =
                               [sequence |-> s, attempts |-> 1, overdue |-> FALSE]]
           /\ helper' = [helper EXCEPT ![controller.pid] = Sent(@, Message("CAPTURE", s))]
    BY <1>2 DEF RequestCapture
  <2>2. /\ MayCapture /\ timer' = "armed"
        /\ awaited' = [awaited EXCEPT !.capture = TRUE]
        /\ UNCHANGED <<realmVars, open, failure, reaping, lost>>
    BY <1>2 DEF RequestCapture, Alive
  <2> DEFINE started == [sequence |-> s, attempts |-> 1, overdue |-> FALSE]
  <2>3. s \in Numbers
    BY DEF Free
  <2>4. Message("CAPTURE", s) \in Commands
    BY <2>3 DEF Message, Commands
  <2>5. helper' \in Helpers /\ Kept(helper', reaping, controller.pid)
    BY <2>1, <2>2, <2>4, ChannelSent DEF MayCapture
  <2>6. started \in CaptureRecord /\ started # NoCapture
    BY <2>3 DEF CaptureRecord, NoCapture
  <2>7. controller' = [controller EXCEPT !.capture = started]
    BY <2>1
  <2> HIDE DEF started
  <2>8. /\ controller' \in ControllerRecord
        /\ controller'.pid = controller.pid
        /\ controller'.ready = controller.ready
        /\ controller'.inputs = controller.inputs
        /\ controller'.capture # NoCapture
    BY <1>0, <2>6, <2>7 DEF ControllerRecord
  <2>9. /\ awaited' \in Waiting
        /\ awaited'.inputs = awaited.inputs
        /\ awaited'.capture = TRUE
    BY <1>0, <2>2 DEF Waiting
  <2>10. TypeOK'
    BY <1>0, <2>2, <2>5, <2>8, <2>9 DEF TypeOK, Helpers, Waiting, realmVars
  <2>11. PendingIsPermitted'
    BY <1>0, <2>2, <2>8 DEF PendingIsPermitted, MayInput, MayCapture, Present, realmVars
  <2>12. AnswersAreOwed' /\ NoneIsNone'
    BY <1>0, <2>2, <2>8, <2>9 DEF AnswersAreOwed, Capturing, NoneIsNone, Present, MayCapture
  <2>13. ControlledOrFailed'
    BY <1>0, <2>2, <2>8 DEF ControlledOrFailed, Present, realmVars
  <2>14. HelpersAreKept' /\ MaintenanceIsSet'
    BY <2>2, <2>5, <2>8 DEF HelpersAreKept, Kept, MaintenanceIsSet
  <2> QED
    BY <2>10, <2>11, <2>12, <2>13, <2>14 DEF IInv
<1> QED
  BY <1>1, <1>2

-----------------------------------------------------------------------------
(* Reading. *)

\* A message is taken off the socket and ends at most what was pending.
LEMMA TookKeeps ==
    ASSUME IInv, NEW type, NEW s, Reads(type, s),
           NEW c \in ControllerRecord,
           c.pid = controller.pid,
           controller.ready => c.ready,
           c.inputs \subseteq controller.inputs,
           c.capture \in {controller.capture, NoCapture},
           NEW waiting \in Waiting,
           waiting.inputs = c.inputs,
           waiting.capture <=> c.capture # NoCapture,
           Took(c, waiting)
    PROVE  IInv'
PROOF
<1>0. /\ TypeOK /\ helper \in Helpers /\ PendingIsPermitted /\ ControlledOrFailed
      /\ MaintenanceIsSet /\ Kept(helper, reaping, controller.pid)
  BY DEF IInv, TypeOK, Helpers, HelpersAreKept, Kept
<1>1. Present /\ Channel.outbox # <<>>
  BY DEF Reads
<1>2. controller.pid \in Pids
  BY <1>0, <1>1, PresentPid
<1>3. Channel \in HelperRecord /\ Channel = helper[controller.pid]
  BY <1>0, <1>2 DEF Channel, Helpers
<1> DEFINE k == [Channel EXCEPT !.outbox = Tail(@)]
<1>4. k \in HelperRecord /\ k.status = Channel.status /\ k.connected = Channel.connected
  <2>1. Channel.outbox \in Seq(Answers)
    BY <1>3 DEF HelperRecord
  <2>2. Tail(Channel.outbox) \in Seq(Answers)
    BY <1>1, <2>1, HeadTailProperties
  <2> QED
    BY <1>3, <2>2 DEF HelperRecord
<1>5. /\ controller' = c /\ awaited' = waiting
      /\ helper' = [helper EXCEPT ![controller.pid] = k]
      /\ UNCHANGED <<realmVars, open, failure, reaping, timer, lost>>
  BY <1>3 DEF Took, Alive
<1> HIDE DEF k
<1>6. helper' \in Helpers /\ Kept(helper', reaping, controller.pid)
  BY <1>0, <1>2, <1>3, <1>4, <1>5, HelperStays
<1>7. TypeOK'
  BY <1>0, <1>5, <1>6 DEF TypeOK, Helpers, Waiting, realmVars
<1>8. NoneIsNone' /\ AnswersAreOwed'
  BY <1>1, <1>5 DEF NoneIsNone, Present, AnswersAreOwed, Capturing
<1>9. PendingIsPermitted'
  BY <1>0, <1>5 DEF PendingIsPermitted, MayInput, Capturing, Present, realmVars
<1>10. ControlledOrFailed'
  BY <1>0, <1>5 DEF ControlledOrFailed, Present, realmVars
<1>11. HelpersAreKept'
  BY <1>5, <1>6 DEF HelpersAreKept, Kept
<1>12. MaintenanceIsSet'
  BY <1>0, <1>5 DEF MaintenanceIsSet, Work, realmVars
<1> QED
  BY <1>7, <1>8, <1>9, <1>10, <1>11, <1>12 DEF IInv

\* readController and handleControllerEvent keep the invariant.
LEMMA ReadKeeps ==
    ASSUME IInv, Read
    PROVE  IInv'
PROOF
<1>0. /\ controller \in ControllerRecord /\ awaited \in Waiting
      /\ awaited.inputs = controller.inputs
      /\ awaited.capture <=> controller.capture # NoCapture
  BY DEF IInv, TypeOK, Waiting, AnswersAreOwed, Capturing
<1>1. CASE ReadReady
  <2> DEFINE c == [controller EXCEPT !.ready = TRUE]
  <2>1. /\ c \in ControllerRecord /\ c.pid = controller.pid /\ c.ready
        /\ c.inputs = controller.inputs /\ c.capture = controller.capture
    BY <1>0 DEF ControllerRecord
  <2>2. Reads("READY", 0) /\ Took(c, awaited)
    BY <1>1 DEF ReadReady
  <2> HIDE DEF c
  <2> QED
    BY <1>0, <2>1, <2>2, TookKeeps
<1>2. CASE ReadEndOfFile
  BY <1>2, DetachKeeps DEF ReadEndOfFile
<1>3. ASSUME NEW s \in Numbers, NEW type, ReadInputAnswer(type, s)
      PROVE  IInv'
  <2> DEFINE c == [controller EXCEPT !.inputs = @ \ {s}, !.late = @ \ {s}]
             w == [awaited EXCEPT !.inputs = @ \ {s}]
  <2>1. /\ c \in ControllerRecord /\ c.pid = controller.pid /\ c.ready = controller.ready
        /\ c.inputs = controller.inputs \ {s} /\ c.capture = controller.capture
    BY <1>0 DEF ControllerRecord
  <2>2. /\ w \in Waiting /\ w.inputs = awaited.inputs \ {s} /\ w.capture = awaited.capture
    BY <1>0 DEF Waiting
  <2>3. Reads(type, s) /\ Took(c, w)
    BY <1>3 DEF ReadInputAnswer
  <2> HIDE DEF c, w
  <2> QED
    BY <1>0, <2>1, <2>2, <2>3, TookKeeps
<1>4. ASSUME NEW s \in Numbers, NEW type, ReadCaptureAnswer(type, s)
      PROVE  IInv'
  <2> DEFINE c == [controller EXCEPT !.capture = NoCapture]
             w == [awaited EXCEPT !.capture = FALSE]
  <2>1. /\ c \in ControllerRecord /\ c.pid = controller.pid /\ c.ready = controller.ready
        /\ c.inputs = controller.inputs /\ c.capture = NoCapture
    BY <1>0, NullsTyped DEF ControllerRecord
  <2>2. /\ w \in Waiting /\ w.inputs = awaited.inputs /\ w.capture = FALSE
    BY <1>0 DEF Waiting
  <2>3. Reads(type, s) /\ Took(c, w)
    BY <1>4 DEF ReadCaptureAnswer
  <2> HIDE DEF c, w
  <2> QED
    BY <1>0, <2>1, <2>2, <2>3, TookKeeps
<1>5. ASSUME NEW s \in Numbers, NEW type, ReadStale(type, s)
      PROVE  IInv'
  <2> DEFINE d == [controller EXCEPT !.ignored = @ \ {s}]
             c == IF type = "INPUT_APPLIED" THEN controller ELSE d
  <2>1. /\ d \in ControllerRecord /\ d.pid = controller.pid /\ d.ready = controller.ready
        /\ d.inputs = controller.inputs /\ d.capture = controller.capture
    BY <1>0 DEF ControllerRecord
  <2>2. Reads(type, s) /\ Took(c, awaited)
    BY <1>5 DEF ReadStale
  <2> HIDE DEF d
  <2>3. /\ c \in ControllerRecord /\ c.pid = controller.pid /\ c.ready = controller.ready
        /\ c.inputs = controller.inputs /\ c.capture = controller.capture
    BY <1>0, <2>1
  <2> HIDE DEF c
  <2> QED
    BY <1>0, <2>2, <2>3, TookKeeps
<1>6. ASSUME NEW s \in Numbers, ReadUnexpected(s)
      PROVE  IInv'
  BY <1>6, DetachKeeps DEF ReadUnexpected, Unexpected, Reads
<1> QED
  BY <1>1, <1>2, <1>3, <1>4, <1>5, <1>6 DEF Read

-----------------------------------------------------------------------------
(* Maintenance. *)

\* A round of maintenance that ends the late inputs and, maybe, the capture.
LEMMA MaintainedKeeps ==
    ASSUME IInv, NEW c \in ControllerRecord, NEW states \in Helpers,
           Kept(states, reaping, controller.pid),
           c.pid = controller.pid,
           c.ready = controller.ready,
           c.inputs = controller.inputs \ controller.late,
           c.capture # NoCapture => Capturing,
           NoneIsNone',
           Maintained(c, states)
    PROVE  IInv'
PROOF
<1>0. /\ TypeOK /\ reaping \in Reaps /\ PendingIsPermitted /\ ControlledOrFailed
      /\ awaited.inputs = controller.inputs
      /\ awaited.capture <=> Capturing
      /\ awaited \in Waiting
  BY DEF IInv, TypeOK, Reaps, AnswersAreOwed, Waiting
<1>1. /\ controller' = c
      /\ Reap(states, reaping)
      /\ timer' = Rearmed(c, reaping')
      /\ UNCHANGED <<realmVars, open, failure, lost>>
  BY DEF Maintained, Alive
<1>2. /\ awaited' \in Waiting
      /\ awaited'.inputs = c.inputs
      /\ awaited'.capture <=> c.capture # NoCapture
  <2> DEFINE x == awaited.inputs \ controller.late
             y == awaited.capture /\ (Capturing => c.capture # NoCapture)
  <2>1. awaited' = [inputs |-> x, capture |-> y]
    BY DEF Maintained
  <2>2. x \in SUBSET Numbers /\ x = c.inputs
    BY <1>0 DEF Waiting
  <2>3. y \in BOOLEAN /\ (y <=> c.capture # NoCapture)
    BY <1>0
  <2> HIDE DEF x, y
  <2> QED
    BY <2>1, <2>2, <2>3 DEF Waiting
<1>3. helper' \in Helpers /\ reaping' \in Reaps /\ Kept(helper', reaping', controller.pid)
  BY <1>0, <1>1, ReapKeeps
<1>4. timer' \in {"armed", "off"} /\ (Work(c, reaping') => timer' = "armed")
  BY <1>1 DEF Rearmed
<1>5. TypeOK'
  BY <1>0, <1>1, <1>2, <1>3, <1>4 DEF TypeOK, Helpers, Reaps, Waiting, realmVars
<1>6. AnswersAreOwed'
  BY <1>1, <1>2 DEF AnswersAreOwed, Capturing
<1>7. PendingIsPermitted'
  BY <1>0, <1>1 DEF PendingIsPermitted, MayInput, Capturing, Present, realmVars
<1>8. ControlledOrFailed'
  BY <1>0, <1>1 DEF ControlledOrFailed, Present, realmVars
<1>9. HelpersAreKept'
  BY <1>1, <1>3 DEF HelpersAreKept, Kept
<1>10. MaintenanceIsSet'
  BY <1>1, <1>4 DEF MaintenanceIsSet
<1> QED
  BY <1>5, <1>6, <1>7, <1>8, <1>9, <1>10 DEF IInv

\* A capture is pending only in a controller that is there.
LEMMA CapturingPresent ==
    ASSUME IInv, Capturing
    PROVE  Present
PROOF
  BY DEF IInv, NoneIsNone, Capturing, NoController

\* What the host still says to its helper leaves every helper kept.
LEMMA ChannelKept ==
    ASSUME IInv, Present, NEW h \in HelperRecord,
           h.status = Channel.status, h.connected = Channel.connected
    PROVE  LET after == [helper EXCEPT ![controller.pid] = h]
           IN  after \in Helpers /\ Kept(after, reaping, controller.pid)
PROOF
<1>1. helper \in Helpers /\ Kept(helper, reaping, controller.pid)
  BY DEF IInv, TypeOK, Helpers, HelpersAreKept, Kept
<1>2. controller.pid \in Pids
  BY PresentPid DEF IInv
<1>3. /\ helper[controller.pid].status # "none" \/ h.status = "none"
      /\ h.connected = helper[controller.pid].connected
  BY DEF Channel
<1> QED
  BY <1>1, <1>2, <1>3, HelperStays

\* Late inputs and a capture that is late for the second time are given up.
LEMMA ExpireKeeps ==
    ASSUME IInv, Expire
    PROVE  IInv'
PROOF
<1>0. /\ controller \in ControllerRecord /\ helper \in Helpers /\ NoneIsNone
      /\ Kept(helper, reaping, controller.pid)
  BY DEF IInv, TypeOK, Helpers, HelpersAreKept, Kept
<1> DEFINE l == WithoutLate(controller)
<1>1. /\ l \in ControllerRecord
      /\ l.inputs = controller.inputs \ controller.late
      /\ l.capture = controller.capture
      /\ l.pid = controller.pid
      /\ l.ready = controller.ready
  BY <1>0, ReducedTyped
<1>2. CASE controller.capture.overdue
  <2> DEFINE c == WithoutCapture(l)
             h == CancelSent(Channel, controller)
  <2>1. /\ c \in ControllerRecord /\ c.inputs = l.inputs /\ c.capture = NoCapture
        /\ c.pid = controller.pid /\ c.ready = controller.ready
    <3> HIDE DEF l
    <3> QED
      BY <1>1, WithoutCaptureTyped
  <2>2. Capturing /\ Present
    BY <1>2, CapturingPresent DEF Capturing, NoCapture
  <2>3. Channel \in HelperRecord
    BY <1>0, <2>2, PresentPid DEF IInv, Channel, Helpers
  <2>4. h \in HelperRecord /\ h.status = Channel.status /\ h.connected = Channel.connected
    BY <1>0, <2>3, CancelSentTyped
  <2> DEFINE states == [helper EXCEPT ![controller.pid] = h]
  <2>5. Maintained(c, states)
    BY <1>2 DEF Expire, Channel
  <2>6. states \in Helpers /\ Kept(states, reaping, controller.pid)
    <3> HIDE DEF h
    <3> QED
      BY <2>2, <2>4, ChannelKept
  <2> HIDE DEF states, c, l
  <2>7. NoneIsNone'
    BY <2>1, <2>2, <2>5 DEF Maintained, NoneIsNone, Present
  <2> QED
    BY <1>1, <2>1, <2>5, <2>6, <2>7, MaintainedKeeps
<1>3. CASE ~controller.capture.overdue
  <2>1. Maintained(l, helper)
    BY <1>3 DEF Expire
  <2>2. NoneIsNone'
    <3>1. CASE Present
      <4> HIDE DEF l
      <4> QED
        BY <1>1, <2>1, <3>1 DEF Maintained, NoneIsNone, Present
    <3>2. CASE ~Present
      <4>1. controller = NoController
        BY <1>0, <3>2 DEF NoneIsNone
      <4>2. l = NoController
        <5>1. controller.inputs = {} /\ controller.late = {}
          BY <4>1 DEF NoController
        <5>2. l = [controller EXCEPT !.inputs = controller.inputs, !.late = controller.late]
          BY <5>1 DEF WithoutLate
        <5> HIDE DEF l
        <5>3. l = controller
          BY <1>0, <5>2 DEF ControllerRecord
        <5> QED
          BY <4>1, <5>3
      <4> QED
        BY <2>1, <4>2 DEF Maintained, NoneIsNone
    <3> QED
      BY <3>1, <3>2
  <2>3. l.capture # NoCapture => Capturing
    BY <1>1 DEF Capturing
  <2> HIDE DEF l
  <2> QED
    BY <1>0, <1>1, <2>1, <2>2, <2>3, MaintainedKeeps
<1> QED
  BY <1>2, <1>3

\* A capture that is late for the first time is requested once more.
LEMMA RetryKeeps ==
    ASSUME IInv, RetryCapture
    PROVE  IInv'
PROOF
<1>0. controller \in ControllerRecord /\ helper \in Helpers
  BY DEF IInv, TypeOK, Helpers
<1>1. Capturing /\ Present
  <2>1. Capturing
    BY DEF RetryCapture, Capturing, NoCapture
  <2> QED
    BY <2>1, CapturingPresent
<1>2. Channel \in HelperRecord
  BY <1>0, <1>1, PresentPid DEF IInv, Channel, Helpers
<1> DEFINE cancelled == CancelSent(Channel, controller)
<1>3. PICK s \in Free :
         Maintained(IF Accepts(cancelled) THEN WithoutLate(Retried(s))
                    ELSE WithoutCapture(WithoutLate(Retried(s))),
                    [helper EXCEPT ![controller.pid] = Sent(cancelled, Message("CAPTURE", s))])
  BY DEF RetryCapture
<1>4. s \in Numbers
  BY DEF Free
<1> DEFINE r == Retried(s)
           a == WithoutLate(r)
           b == WithoutCapture(a)
           c == IF Accepts(cancelled) THEN a ELSE b
           h == Sent(cancelled, Message("CAPTURE", s))
           states == [helper EXCEPT ![controller.pid] = h]
<1>5. Maintained(c, states)
  BY <1>3
<1>6. /\ r \in ControllerRecord /\ r.pid = controller.pid /\ r.ready = controller.ready
      /\ r.inputs = controller.inputs /\ r.late = controller.late
  BY <1>0, <1>1, <1>4, RetriedTyped
<1>7. /\ a \in ControllerRecord /\ a.pid = controller.pid /\ a.ready = controller.ready
      /\ a.inputs = controller.inputs \ controller.late
  <2> HIDE DEF r
  <2> QED
    BY <1>6, ReducedTyped
<1>8. /\ b \in ControllerRecord /\ b.pid = controller.pid /\ b.ready = controller.ready
      /\ b.inputs = controller.inputs \ controller.late
  <2> HIDE DEF a
  <2> QED
    BY <1>7, WithoutCaptureTyped
<1>9. /\ c \in ControllerRecord /\ c.pid = controller.pid /\ c.ready = controller.ready
      /\ c.inputs = controller.inputs \ controller.late
  <2> HIDE DEF a, b, cancelled
  <2> QED
    BY <1>7, <1>8
<1>10. /\ cancelled \in HelperRecord /\ cancelled.status = Channel.status
       /\ cancelled.connected = Channel.connected
  BY <1>0, <1>2, CancelSentTyped
<1>11. Message("CAPTURE", s) \in Commands
  BY <1>4 DEF Message, Commands
<1>12. h \in HelperRecord /\ h.status = Channel.status /\ h.connected = Channel.connected
  <2> HIDE DEF cancelled
  <2> QED
    BY <1>10, <1>11, SentTyped
<1>13. states \in Helpers /\ Kept(states, reaping, controller.pid)
  <2> HIDE DEF h
  <2> QED
    BY <1>1, <1>12, ChannelKept
<1> HIDE DEF c, states
<1>14. NoneIsNone'
  BY <1>1, <1>5, <1>9 DEF Maintained, NoneIsNone, Present
<1> QED
  BY <1>1, <1>5, <1>9, <1>13, <1>14, MaintainedKeeps

\* A helper that never was ready is stopped; nothing was asked of it.
LEMMA ExpireStartupKeeps ==
    ASSUME IInv, ExpireStartup
    PROVE  IInv'
PROOF
<1>0. /\ TypeOK /\ controller \in ControllerRecord /\ helper \in Helpers /\ reaping \in Reaps
      /\ Kept(helper, reaping, controller.pid) /\ PendingIsPermitted /\ AnswersAreOwed
  BY DEF IInv, TypeOK, Helpers, Reaps, HelpersAreKept, Kept
<1>1. Present /\ ~controller.ready
  BY DEF ExpireStartup, StartupExpired
<1>2. controller.pid \in Pids
  BY <1>0, <1>1, PresentPid
<1>3. Channel \in HelperRecord
  BY <1>0, <1>2 DEF Channel, Helpers
<1> DEFINE h == Stopped(Channel)
           states == [helper EXCEPT ![controller.pid] = h]
           reaps == [reaping EXCEPT ![controller.pid] = "pending"]
<1>4. h \in HelperRecord /\ h.connected = FALSE
  BY <1>0, <1>3, StoppedTyped
<1>5. /\ controller' = NoController /\ failure' = TRUE /\ timer' = "armed"
      /\ UNCHANGED <<realmVars, open, awaited, lost>>
      /\ Reap(states, reaps)
  BY DEF ExpireStartup, Alive, Channel
<1>6. states \in Helpers /\ reaps \in Reaps /\ Kept(states, reaps, 0)
  <2> HIDE DEF h
  <2> QED
    BY <1>0, <1>2, <1>4, HelperDropped
<1> HIDE DEF states, reaps
<1>7. helper' \in Helpers /\ reaping' \in Reaps /\ Kept(helper', reaping', 0)
  BY <1>5, <1>6, ReapKeeps
<1>8. controller'.pid = 0 /\ controller'.inputs = {} /\ controller'.capture = NoCapture
  BY <1>5 DEF NoController
<1>9. controller.inputs = {} /\ controller.capture = NoCapture
  BY <1>0, <1>1 DEF PendingIsPermitted, MayInput, Capturing
<1>10. TypeOK'
  BY <1>0, <1>5, <1>7, NullsTyped DEF TypeOK, Helpers, Reaps, realmVars
<1>11. NoneIsNone' /\ PendingIsPermitted' /\ AnswersAreOwed'
  BY <1>0, <1>5, <1>8, <1>9 DEF NoneIsNone, PendingIsPermitted, AnswersAreOwed, Capturing
<1>12. ControlledOrFailed' /\ MaintenanceIsSet'
  BY <1>5, <1>8 DEF ControlledOrFailed, MaintenanceIsSet, Present
<1>13. HelpersAreKept'
  BY <1>7, <1>8 DEF HelpersAreKept, Kept
<1> QED
  BY <1>10, <1>11, <1>12, <1>13 DEF IInv

-----------------------------------------------------------------------------
(* The destructor, the clocks and the helper. *)

\* The destructor leaves no controller, no helper and nobody waiting.
LEMMA DestroyKeeps ==
    ASSUME IInv, Destroy
    PROVE  IInv'
PROOF
<1>1. /\ open' = FALSE /\ controller' = NoController /\ timer' = "off"
      /\ helper' = [p \in Pids |-> NoHelper]
      /\ reaping' = [p \in Pids |-> "no"]
      /\ awaited' = [inputs |-> AnswerInputs, capture |-> AnswerCapture]
      /\ UNCHANGED <<realmVars, failure, lost>>
  BY DEF Destroy
<1>2. awaited' \in Waiting /\ AnswersAreOwed' /\ NoneIsNone' /\ PendingIsPermitted'
  BY <1>1, AllAnswered
<1>3. TypeOK'
  BY <1>1, <1>2, NullsTyped DEF IInv, TypeOK, Waiting, realmVars
<1>4. ControlledOrFailed' /\ MaintenanceIsSet'
  BY <1>1 DEF ControlledOrFailed, MaintenanceIsSet
<1>5. HelpersAreKept'
  BY <1>1, NullsTyped DEF HelpersAreKept
<1> QED
  BY <1>2, <1>3, <1>4, <1>5 DEF IInv

\* A deadline of the controller that passes ends nothing by itself.
LEMMA DeadlineKeeps ==
    ASSUME IInv, Present, NEW c \in ControllerRecord, UpdateController(c),
           c.pid = controller.pid,
           c.ready = controller.ready,
           c.inputs = controller.inputs,
           c.capture # NoCapture <=> controller.capture # NoCapture
    PROVE  IInv'
PROOF
<1>1. /\ controller' = c
      /\ UNCHANGED <<realmVars, open, failure, helper, reaping, timer, awaited, lost>>
  BY DEF UpdateController, Alive
<1>2. TypeOK'
  BY <1>1 DEF IInv, TypeOK, realmVars
<1>3. NoneIsNone' /\ AnswersAreOwed'
  BY <1>1 DEF IInv, NoneIsNone, Present, AnswersAreOwed, Capturing
<1>4. PendingIsPermitted'
  BY <1>1 DEF IInv, PendingIsPermitted, MayInput, Capturing, Present, realmVars
<1>5. ControlledOrFailed'
  BY <1>1 DEF IInv, ControlledOrFailed, Present, realmVars
<1>6. HelpersAreKept' /\ MaintenanceIsSet'
  BY <1>1 DEF IInv, HelpersAreKept, MaintenanceIsSet, Work
<1> QED
  BY <1>2, <1>3, <1>4, <1>5, <1>6 DEF IInv

\* No clock that advances takes anything away.
LEMMA ClockKeeps ==
    ASSUME IInv, Clock
    PROVE  IInv'
PROOF
<1>0. TypeOK /\ controller \in ControllerRecord /\ NoneIsNone
  BY DEF IInv, TypeOK
<1>1. CASE StartupDeadlinePasses
  <2> DEFINE c == [controller EXCEPT !.overdue = TRUE]
  <2>1. /\ c \in ControllerRecord /\ c.pid = controller.pid /\ c.ready = controller.ready
        /\ c.inputs = controller.inputs /\ c.capture = controller.capture
    BY <1>0 DEF ControllerRecord
  <2>2. Present /\ UpdateController(c)
    BY <1>1 DEF StartupDeadlinePasses
  <2> HIDE DEF c
  <2> QED
    BY <2>1, <2>2, DeadlineKeeps
<1>2. ASSUME NEW s \in Numbers, InputDeadlinePasses(s)
      PROVE  IInv'
  <2> DEFINE c == [controller EXCEPT !.late = @ \cup {s}]
  <2>1. /\ c \in ControllerRecord /\ c.pid = controller.pid /\ c.ready = controller.ready
        /\ c.inputs = controller.inputs /\ c.capture = controller.capture
    BY <1>0 DEF ControllerRecord
  <2>2. s \in controller.inputs /\ UpdateController(c)
    BY <1>2 DEF InputDeadlinePasses
  <2>3. Present
    BY <1>0, <2>2 DEF NoneIsNone, NoController
  <2> HIDE DEF c
  <2> QED
    BY <2>1, <2>2, <2>3, DeadlineKeeps
<1>3. CASE CaptureDeadlinePasses
  <2> DEFINE f == [controller.capture EXCEPT !.overdue = TRUE]
             c == [controller EXCEPT !.capture = f]
  <2>1. Capturing /\ UpdateController(c)
    BY <1>3 DEF CaptureDeadlinePasses
  <2>2. f \in CaptureRecord /\ f # NoCapture
    <3>1. controller.capture \in [sequence : Numbers, attempts : 1..2, overdue : BOOLEAN]
      BY <1>0, <2>1, CaptureTyped DEF Capturing
    <3> QED
      BY <3>1 DEF CaptureRecord, NoCapture
  <2> HIDE DEF f
  <2>3. /\ c \in ControllerRecord /\ c.pid = controller.pid /\ c.ready = controller.ready
        /\ c.inputs = controller.inputs /\ c.capture = f
    BY <1>0, <2>2 DEF ControllerRecord
  <2> HIDE DEF c
  <2> QED
    BY <2>1, <2>2, <2>3, CapturingPresent, DeadlineKeeps DEF Capturing
<1>4. ASSUME NEW p \in Pids, ReapDeadlinePasses(p)
      PROVE  IInv'
  <2>1. /\ reaping[p] = "pending"
        /\ reaping' = [reaping EXCEPT ![p] = "passed"]
        /\ UNCHANGED <<realmVars, open, controller, failure, helper, timer, awaited, lost>>
    BY <1>4 DEF ReapDeadlinePasses, Alive
  <2>2. reaping' \in Reaps /\ \A q \in Pids : reaping'[q] # "no" <=> reaping[q] # "no"
    BY <1>0, <2>1 DEF TypeOK, Reaps
  <2>3. TypeOK'
    BY <1>0, <2>1, <2>2 DEF TypeOK, Reaps, realmVars
  <2>4. NoneIsNone' /\ AnswersAreOwed'
    BY <2>1 DEF IInv, NoneIsNone, Present, AnswersAreOwed, Capturing
  <2>5. PendingIsPermitted'
    BY <2>1 DEF IInv, PendingIsPermitted, MayInput, Capturing, Present, realmVars
  <2>6. ControlledOrFailed'
    BY <2>1 DEF IInv, ControlledOrFailed, Present, realmVars
  <2>7. HelpersAreKept' /\ MaintenanceIsSet'
    BY <2>1, <2>2 DEF IInv, HelpersAreKept, MaintenanceIsSet, Work
  <2> QED
    BY <2>3, <2>4, <2>5, <2>6, <2>7 DEF IInv
<1>5. CASE TimerElapses
  <2>1. /\ timer' = "due"
        /\ UNCHANGED <<realmVars, open, controller, failure, helper, reaping, awaited, lost>>
    BY <1>5 DEF TimerElapses, Alive
  <2>2. TypeOK' /\ NoneIsNone' /\ AnswersAreOwed'
    BY <1>0, <2>1 DEF IInv, TypeOK, realmVars, NoneIsNone, Present, AnswersAreOwed, Capturing
  <2>3. PendingIsPermitted'
    BY <2>1 DEF IInv, PendingIsPermitted, MayInput, Capturing, Present, realmVars
  <2>4. ControlledOrFailed' /\ HelpersAreKept' /\ MaintenanceIsSet'
    BY <2>1 DEF IInv, ControlledOrFailed, Present, realmVars, HelpersAreKept, MaintenanceIsSet
  <2> QED
    BY <2>2, <2>3, <2>4 DEF IInv
<1> QED
  BY <1>1, <1>2, <1>3, <1>4, <1>5 DEF Clock

\* The helper and its compositor touch nothing but the helper's record.
LEMMA UpdateHelperKeeps ==
    ASSUME IInv, NEW p \in Pids, NEW h \in HelperRecord, UpdateHelper(p, h),
           helper[p].status # "none",
           h.connected = helper[p].connected
    PROVE  IInv'
PROOF
<1>0. TypeOK /\ helper \in Helpers /\ Kept(helper, reaping, controller.pid)
  BY DEF IInv, TypeOK, Helpers, HelpersAreKept, Kept
<1>1. /\ helper' = [helper EXCEPT ![p] = h]
      /\ UNCHANGED <<realmVars, open, controller, failure, reaping, timer, awaited, lost>>
  BY DEF UpdateHelper
<1>2. helper' \in Helpers /\ Kept(helper', reaping, controller.pid)
  BY <1>0, <1>1, HelperStays
<1>3. TypeOK'
  BY <1>0, <1>1, <1>2 DEF TypeOK, Helpers, realmVars
<1>4. NoneIsNone' /\ AnswersAreOwed'
  BY <1>1 DEF IInv, NoneIsNone, Present, AnswersAreOwed, Capturing
<1>5. PendingIsPermitted'
  BY <1>1 DEF IInv, PendingIsPermitted, MayInput, Capturing, Present, realmVars
<1>6. ControlledOrFailed' /\ MaintenanceIsSet'
  BY <1>1 DEF IInv, ControlledOrFailed, Present, realmVars, MaintenanceIsSet, Work
<1>7. HelpersAreKept'
  BY <1>1, <1>2 DEF HelpersAreKept, Kept
<1> QED
  BY <1>3, <1>4, <1>5, <1>6, <1>7 DEF IInv

\* A turn of the helper's loop, its end, and what its compositor answers.
LEMMA HelperStepKeeps ==
    ASSUME IInv, NEW p \in Pids, HelperStep(p)
    PROVE  IInv'
PROOF
<1>0. helper[p] \in HelperRecord
  BY DEF IInv, TypeOK
<1>1. CASE HelperReady(p)
  <2>1. helper[p].status # "none" /\ UpdateHelper(p, Ready(helper[p]))
    BY <1>1 DEF HelperReady
  <2> QED
    BY <1>0, <2>1, ReadyTyped, UpdateHelperKeeps
<1>2. ASSUME NEW outcome, HelperReceives(p, outcome)
      PROVE  IInv'
  <2> DEFINE h == helper[p]
             k == Handled(h, Head(h.inbox), outcome)
             e == Exited(h, 0)
             n == IF h.connected THEN k ELSE e
  <2>1. h.status # "none" /\ h.inbox # <<>> /\ UpdateHelper(p, n)
    BY <1>2 DEF HelperReceives
  <2>2. k \in HelperRecord /\ k.connected = h.connected
    <3> HIDE DEF h
    <3> QED
      BY <1>0, <2>1, HandledTyped DEF h
  <2>3. e \in HelperRecord /\ e.connected = h.connected
    <3>1. 0 \in 0..Len(h.outbox)
      <4>1. h.outbox \in Seq(Answers)
        BY <1>0 DEF HelperRecord
      <4> QED
        BY <4>1, LenProperties
    <3> QED
      BY <1>0, <3>1, ExitedTyped
  <2> HIDE DEF k, e
  <2>4. n \in HelperRecord /\ n.connected = h.connected
    BY <2>2, <2>3
  <2> HIDE DEF n
  <2> QED
    BY <2>1, <2>4, UpdateHelperKeeps
<1>3. CASE HelperExits(p)
  <2>1. helper[p].status # "none"
    BY <1>3 DEF HelperExits
  <2>2. PICK sent \in 0..Len(helper[p].outbox) : UpdateHelper(p, Exited(helper[p], sent))
    BY <1>3 DEF HelperExits
  <2> QED
    BY <1>0, <2>1, <2>2, ExitedTyped, UpdateHelperKeeps
<1>4. CASE Acknowledge(p)
  <2>1. /\ helper[p].status # "none" /\ helper[p].acknowledgements # <<>>
        /\ UpdateHelper(p, Acknowledged(helper[p]))
    BY <1>4 DEF Acknowledge, CompositorActs
  <2> QED
    BY <1>0, <2>1, AcknowledgedTyped, UpdateHelperKeeps
<1>5. CASE CompleteFrame(p)
  <2> DEFINE Frame(type) == Reported([helper[p] EXCEPT !.capture = 0], type, helper[p].capture)
  <2>1. /\ helper[p].status # "none" /\ helper[p].capture # 0
        /\ UpdateHelper(p, Frame("CAPTURE_READY")) \/ UpdateHelper(p, Frame("ERROR"))
    BY <1>5 DEF CompleteFrame, CompositorActs, FrameDone, FrameFailed
  <2>2. ASSUME NEW type \in {"ERROR", "CAPTURE_READY"}
        PROVE  Frame(type) \in HelperRecord /\ Frame(type).connected = helper[p].connected
    BY <1>0, <2>1, FrameTyped
  <2> HIDE DEF Frame
  <2> QED
    BY <2>1, <2>2, UpdateHelperKeeps
<1> QED
  BY <1>1, <1>2, <1>3, <1>4, <1>5 DEF HelperStep

-----------------------------------------------------------------------------
(* The theorems. *)

\* At the start there is no controller and nothing is pending.
LEMMA InitKeeps == Init => IInv
PROOF
<1> SUFFICES ASSUME Init PROVE IInv
  OBVIOUS
<1>1. controller = NoController /\ controller.inputs = {} /\ controller.capture = NoCapture
        /\ controller.pid = 0
  BY DEF Init, NoController
<1>2. TypeOK
  BY NullsTyped DEF Init, Contract!Init, TypeOK, Nobody
<1>3. NoneIsNone /\ PendingIsPermitted /\ AnswersAreOwed
  BY <1>1 DEF Init, NoneIsNone, PendingIsPermitted, AnswersAreOwed, Capturing, Nobody
<1>4. ControlledOrFailed
  BY <1>1 DEF Init, Contract!Init, ControlledOrFailed, Present
<1>5. HelpersAreKept /\ MaintenanceIsSet
  BY <1>1, NullsTyped DEF Init, HelpersAreKept, MaintenanceIsSet, Work
<1> QED
  BY <1>2, <1>3, <1>4, <1>5 DEF IInv

\* Every handler, every step of a helper and every clock keeps the invariant.
LEMMA NextKeeps == IInv /\ [Next]_vars => IInv'
PROOF
<1> SUFFICES ASSUME IInv, [Next]_vars PROVE IInv'
  OBVIOUS
<1>1. CASE RealmStep
  <2>1. CASE RealmStarts \/ Resume \/ RealmDestroyed \/ Observe \/ Grant \/ GrantPointer
    BY <2>1, SilentKeeps
  <2>2. CASE HandOver \/ Pause \/ RealmStops \/ Unobserve \/ RevokeObserve \/ RevokeInput
    BY <2>2, RevokingKeeps
  <2>3. CASE StartFails \/ \E p \in Pids : StartFailsLate(p) \/ StartController(p)
    BY <2>3, StartKeeps
  <2>4. CASE RealmEnds
    BY <2>4, EndKeeps
  <2> QED
    BY <1>1, <2>1, <2>2, <2>3, <2>4 DEF RealmStep
<1>2. CASE RequestInput \/ RequestCapture
  BY <1>2, RequestKeeps
<1>3. CASE Read
  BY <1>3, ReadKeeps
<1>4. CASE Maintain
  BY <1>4, ExpireKeeps, RetryKeeps, ExpireStartupKeeps DEF Maintain
<1>5. CASE Destroy
  BY <1>5, DestroyKeeps
<1>6. CASE Clock
  BY <1>6, ClockKeeps
<1>7. ASSUME NEW p \in Pids, HelperStep(p)
      PROVE  IInv'
  BY <1>7, HelperStepKeeps
<1>8. CASE UNCHANGED vars
  <2>1. UNCHANGED <<phase, owner, observable, granted, pointer, open, controller,
                    failure, helper, reaping, timer, awaited, lost>>
    BY <1>8 DEF vars, realmVars, hostVars
  <2>2. TypeOK' /\ NoneIsNone' /\ AnswersAreOwed'
    BY <2>1 DEF IInv, TypeOK, NoneIsNone, Present, AnswersAreOwed, Capturing
  <2>3. PendingIsPermitted' /\ ControlledOrFailed'
    BY <2>1 DEF IInv, PendingIsPermitted, MayInput, Capturing, Present, ControlledOrFailed
  <2>4. HelpersAreKept' /\ MaintenanceIsSet'
    BY <2>1 DEF IInv, HelpersAreKept, MaintenanceIsSet, Work
  <2> QED
    BY <2>2, <2>3, <2>4 DEF IInv
<1> QED
  BY <1>1, <1>2, <1>3, <1>4, <1>5, <1>6, <1>7, <1>8 DEF Next

\* The inductive invariant holds, whatever the helpers, the realm and the
\* requesters do and in whatever order.
THEOREM Inductive == Spec => []IInv
PROOF
  BY InitKeeps, NextKeeps, PTL DEF Spec

\* Every variable keeps its type: among others, a capture in progress is at
\* its first or second attempt.
THEOREM TypeCorrect == Spec => []TypeOK
PROOF
<1>1. IInv => TypeOK
  BY DEF IInv
<1> QED
  BY <1>1, Inductive, PTL

\* The listeners of lease, permission, capability and phase between them
\* cancel everything that the realm would refuse now.
THEOREM PendingPermitted == Spec => []PendingIsPermitted
PROOF
<1>1. IInv => PendingIsPermitted
  BY DEF IInv
<1> QED
  BY <1>1, Inductive, PTL

\* No path through cancelInputs, cancelCapture, stopController, the reading of
\* the socket, a timeout or the destructor forgets a requester.
THEOREM AnswersOwed == Spec => []AnswersAreOwed
PROOF
<1>1. IInv => AnswersAreOwed
  BY DEF IInv
<1> QED
  BY <1>1, Inductive, PTL

\* A realm that runs or is paused has a controller or a recorded failure.
THEOREM Controlled == Spec => []ControlledOrFailed
PROOF
<1>1. IInv => ControlledOrFailed
  BY DEF IInv
<1> QED
  BY <1>1, Inductive, PTL

\* No helper process is forgotten by the host, whichever way it was dropped.
THEOREM HelpersKept == Spec => []HelpersAreKept
PROOF
<1>1. IInv => HelpersAreKept
  BY DEF IInv
<1> QED
  BY <1>1, Inductive, PTL

\* The maintenance timer is set while there is a deadline to watch.
THEOREM MaintenanceSet == Spec => []MaintenanceIsSet
PROOF
<1>1. IInv => MaintenanceIsSet
  BY DEF IInv
<1> QED
  BY <1>1, Inductive, PTL

-----------------------------------------------------------------------------
(***************************************************************************)
(* What is pending goes on from c to d.  Nothing is added to it but by a   *)
(* request; an input that is late stays late; and a capture stays, becomes *)
(* overdue, ends or is requested again, which happens once.                *)
(***************************************************************************)
Again(c, d) ==
    /\ c.capture.attempts = 1 /\ c.capture.overdue
    /\ d.capture.attempts = 2 /\ ~d.capture.overdue
    /\ d.capture.sequence # c.capture.sequence
    /\ c.capture.sequence \in d.ignored

CaptureGoesOn(c, d) ==
    \/ d.capture \in {c.capture, NoCapture}
    \/ c.capture # NoCapture /\ d.capture = [c.capture EXCEPT !.overdue = TRUE]
    \/ Again(c, d)

GoesOn(c, d) ==
    /\ d.inputs \subseteq c.inputs
    /\ c.late \cap d.inputs \subseteq d.late
    /\ CaptureGoesOn(c, d)

\* While something is pending the timer runs on, but for the maintenance.
TimerGoesOn ==
    controller'.inputs # {} \/ controller'.capture # NoCapture =>
        \/ timer' = timer
        \/ timer = "armed" /\ timer' = "due"
        \/ Maintain

\* A controller that is dropped, or that is new, has nothing pending.
LEMMA NothingGoesOn ==
    ASSUME NEW c, controller'.inputs = {}, controller'.capture = NoCapture
    PROVE  GoesOn(c, controller') /\ TimerGoesOn
PROOF
  BY DEF GoesOn, CaptureGoesOn, TimerGoesOn

\* So does what a step does not touch, whose timer at most elapses.
LEMMA SameGoesOn ==
    ASSUME controller' = controller, timer' = timer \/ (timer = "armed" /\ timer' = "due")
    PROVE  GoesOn(controller, controller') /\ TimerGoesOn
PROOF
  BY DEF GoesOn, CaptureGoesOn, TimerGoesOn

\* What the listeners cancel ends; the rest stays as it is.
LEMMA RevokeGoesOn ==
    ASSUME IInv, NEW released \in BOOLEAN, NEW cancelled \in BOOLEAN, Revoke(released, cancelled)
    PROVE  GoesOn(controller, controller') /\ TimerGoesOn
PROOF
<1>1. /\ controller'.inputs = IF released THEN {} ELSE controller.inputs
      /\ controller'.capture = IF cancelled THEN NoCapture ELSE controller.capture
      /\ timer' = timer
  BY RevokeEffect
<1>2. ~released => controller'.late = controller.late
  <2>1. controller \in ControllerRecord
    BY DEF IInv, TypeOK
  <2> QED
    BY <2>1 DEF Revoke, hostVars, WithoutCapture, ControllerRecord
<1> QED
  BY <1>1, <1>2 DEF GoesOn, CaptureGoesOn, TimerGoesOn

\* No step of the realm adds to what is pending or sets the timer for it anew.
LEMMA RealmStepGoesOn ==
    ASSUME IInv, RealmStep
    PROVE  GoesOn(controller, controller') /\ TimerGoesOn
PROOF
<1>1. CASE RealmStarts \/ StartFails \/ Resume \/ RealmDestroyed \/ Observe \/ Grant \/ GrantPointer
  BY <1>1, SameGoesOn
     DEF RealmStarts, StartFails, Resume, RealmDestroyed, Observe, Grant, GrantPointer, hostVars
<1>2. ASSUME NEW p \in Pids, StartFailsLate(p)
      PROVE  GoesOn(controller, controller') /\ TimerGoesOn
  <2>1. phase = "starting" /\ controller' = controller
    BY <1>2 DEF StartFailsLate, RealmRuns, Contract!BecomeReady
  <2>2. controller.inputs = {} /\ controller.capture = NoCapture
    BY <2>1 DEF IInv, PendingIsPermitted, MayInput, Capturing
  <2> QED
    BY <2>1, <2>2, NothingGoesOn
<1>3. ASSUME NEW p \in Pids, StartController(p)
      PROVE  GoesOn(controller, controller') /\ TimerGoesOn
  BY <1>3, NothingGoesOn DEF StartController, NoController
<1>4. CASE HandOver \/ Pause \/ RealmStops \/ Unobserve \/ RevokeObserve \/ RevokeInput
  <2>1. observable \in BOOLEAN
    BY DEF IInv, TypeOK
  <2>2. PICK released \in BOOLEAN, cancelled \in BOOLEAN : Revoke(released, cancelled)
    BY <1>4, <2>1 DEF HandOver, Pause, RealmStops, Unobserve, RevokeObserve, RevokeInput
  <2> QED
    BY <2>2, RevokeGoesOn
<1>5. CASE RealmEnds
  <2>1. controller' = NoController
    BY <1>5, StopEffect DEF RealmEnds
  <2> QED
    BY <2>1, NothingGoesOn DEF NoController
<1> QED
  BY <1>1, <1>2, <1>3, <1>4, <1>5 DEF RealmStep

\* A message that is read ends what it answers.
LEMMA ReadGoesOn ==
    ASSUME IInv, Read
    PROVE  GoesOn(controller, controller') /\ TimerGoesOn
PROOF
<1>0. controller \in ControllerRecord
  BY DEF IInv, TypeOK
<1>1. CASE ReadReady
  BY <1>0, <1>1 DEF ReadReady, Took, GoesOn, CaptureGoesOn, TimerGoesOn, ControllerRecord
<1>2. CASE ReadEndOfFile \/ \E s \in Numbers : ReadUnexpected(s)
  BY <1>2, NothingGoesOn DEF ReadEndOfFile, ReadUnexpected, Detach, NoController
<1>3. ASSUME NEW s \in Numbers, NEW type, ReadInputAnswer(type, s)
      PROVE  GoesOn(controller, controller') /\ TimerGoesOn
  BY <1>0, <1>3 DEF ReadInputAnswer, Took, GoesOn, CaptureGoesOn, TimerGoesOn, ControllerRecord
<1>4. ASSUME NEW s \in Numbers, NEW type, ReadCaptureAnswer(type, s)
      PROVE  GoesOn(controller, controller') /\ TimerGoesOn
  BY <1>0, <1>4 DEF ReadCaptureAnswer, Took, GoesOn, CaptureGoesOn, TimerGoesOn, ControllerRecord
<1>5. ASSUME NEW s \in Numbers, NEW type, ReadStale(type, s)
      PROVE  GoesOn(controller, controller') /\ TimerGoesOn
  <2>1. controller' \in {controller, [controller EXCEPT !.ignored = @ \ {s}]} /\ timer' = timer
    BY <1>5 DEF ReadStale, Took
  <2> QED
    BY <1>0, <2>1 DEF GoesOn, CaptureGoesOn, TimerGoesOn, ControllerRecord
<1> QED
  BY <1>1, <1>2, <1>3, <1>4, <1>5 DEF Read

\* A round of maintenance ends what is late and gives up or renews a capture.
LEMMA MaintainEnds ==
    ASSUME IInv, Maintain
    PROVE  /\ GoesOn(controller, controller')
           /\ controller.late \cap controller'.inputs = {}
           /\ controller.capture.overdue =>
                 controller'.capture = NoCapture \/ Again(controller, controller')
PROOF
<1>0. controller \in ControllerRecord
  BY DEF IInv, TypeOK
<1>1. CASE ExpireStartup
  <2>1. controller'.inputs = {} /\ controller'.capture = NoCapture
    BY <1>1 DEF ExpireStartup, NoController
  <2> QED
    BY <2>1 DEF GoesOn, CaptureGoesOn
<1>2. CASE Expire
  <2> DEFINE l == WithoutLate(controller)
  <2>1. /\ l \in ControllerRecord
        /\ l.inputs = controller.inputs \ controller.late
        /\ l.capture = controller.capture
    BY <1>0, ReducedTyped
  <2>2. WithoutCapture(l).inputs = l.inputs /\ WithoutCapture(l).capture = NoCapture
    <3> HIDE DEF l
    <3> QED
      BY <2>1, WithoutCaptureTyped
  <2>3. controller' = IF controller.capture.overdue THEN WithoutCapture(l) ELSE l
    BY <1>2 DEF Expire, Maintained
  <2> HIDE DEF l
  <2> QED
    BY <2>1, <2>2, <2>3 DEF GoesOn, CaptureGoesOn
<1>3. CASE RetryCapture
  <2>1. PICK s \in Free :
           controller' \in {WithoutLate(Retried(s)), WithoutCapture(WithoutLate(Retried(s)))}
    BY <1>3 DEF RetryCapture, Maintained
  <2>2. s \in Numbers /\ s # controller.capture.sequence
    BY DEF Free
  <2>3. controller.capture.overdue /\ controller.capture.attempts = 1 /\ Capturing
    BY <1>3 DEF RetryCapture, Capturing, NoCapture
  <2> DEFINE r == Retried(s)
             a == WithoutLate(r)
  <2>4. /\ r \in ControllerRecord
        /\ r.inputs = controller.inputs /\ r.late = controller.late
    BY <1>0, <2>2, <2>3, RetriedTyped
  <2>5. /\ r.capture = [sequence |-> s, attempts |-> 2, overdue |-> FALSE]
        /\ controller.capture.sequence \in r.ignored
    BY <1>0 DEF Retried, ControllerRecord
  <2>6. /\ a \in ControllerRecord
        /\ a.inputs = controller.inputs \ controller.late
        /\ a.capture = r.capture
        /\ a.ignored = r.ignored
    <3> HIDE DEF r
    <3>1. a \in ControllerRecord /\ a.inputs = r.inputs \ r.late /\ a.capture = r.capture
      BY <2>4, ReducedTyped
    <3>2. a.ignored = r.ignored
      BY <2>4 DEF WithoutLate, ControllerRecord
    <3> QED
      BY <2>4, <3>1, <3>2
  <2>7. WithoutCapture(a).inputs = a.inputs /\ WithoutCapture(a).capture = NoCapture
    <3> HIDE DEF a
    <3> QED
      BY <2>6, WithoutCaptureTyped
  <2>8. controller' \in {a, WithoutCapture(a)}
    BY <2>1
  <2>9. a.capture.attempts = 2 /\ ~a.capture.overdue /\ a.capture.sequence = s
    BY <2>5, <2>6
  <2> HIDE DEF a, r
  <2>10. Again(controller, a)
    BY <2>2, <2>3, <2>5, <2>6, <2>9 DEF Again
  <2>11. CASE controller' = a
    BY <2>6, <2>10, <2>11 DEF GoesOn, CaptureGoesOn
  <2>12. CASE controller' = WithoutCapture(a)
    BY <2>6, <2>7, <2>12 DEF GoesOn, CaptureGoesOn
  <2> QED
    BY <2>8, <2>11, <2>12
<1> QED
  BY <1>1, <1>2, <1>3 DEF Maintain

\* A deadline that passes makes an input late or the capture overdue.
LEMMA ClockGoesOn ==
    ASSUME IInv, Clock
    PROVE  GoesOn(controller, controller') /\ TimerGoesOn
PROOF
<1>0. controller \in ControllerRecord
  BY DEF IInv, TypeOK
<1>1. CASE StartupDeadlinePasses
  BY <1>0, <1>1
     DEF StartupDeadlinePasses, UpdateController, GoesOn, CaptureGoesOn, TimerGoesOn, ControllerRecord
<1>2. ASSUME NEW s \in Numbers, InputDeadlinePasses(s)
      PROVE  GoesOn(controller, controller') /\ TimerGoesOn
  BY <1>0, <1>2
     DEF InputDeadlinePasses, UpdateController, GoesOn, CaptureGoesOn, TimerGoesOn, ControllerRecord
<1>3. CASE CaptureDeadlinePasses
  BY <1>0, <1>3
     DEF CaptureDeadlinePasses, Capturing, UpdateController, GoesOn, CaptureGoesOn, TimerGoesOn,
         ControllerRecord
<1>4. CASE TimerElapses \/ \E p \in Pids : ReapDeadlinePasses(p)
  BY <1>4, SameGoesOn DEF TimerElapses, ReapDeadlinePasses
<1> QED
  BY <1>1, <1>2, <1>3, <1>4 DEF Clock

NewRequests == RequestInput \/ RequestCapture

\* Every step but a request lets what is pending go on, and the timer with it.
LEMMA PendingGoesOn ==
    ASSUME IInv, [Next]_vars, ~NewRequests
    PROVE  GoesOn(controller, controller') /\ TimerGoesOn
PROOF
<1>1. CASE Maintain
  BY <1>1, MaintainEnds DEF TimerGoesOn
<1>2. CASE Destroy
  BY <1>2, NothingGoesOn DEF Destroy, NoController
<1>3. ASSUME NEW p \in Pids, HelperStep(p)
      PROVE  controller' = controller /\ timer' = timer
  BY <1>3 DEF HelperStep, HelperReady, HelperReceives, HelperExits, Acknowledge, CompleteFrame,
              UpdateHelper
<1>4. CASE UNCHANGED vars
  BY <1>4, SameGoesOn DEF vars, hostVars
<1> QED
  BY <1>1, <1>2, <1>3, <1>4, SameGoesOn, RealmStepGoesOn, ReadGoesOn, ClockGoesOn DEF Next, NewRequests

-----------------------------------------------------------------------------
(***************************************************************************)
(* The place of a process ID: it is unused, or its helper is the one that  *)
(* the controller talks to, or the host has hung up on it and it is to be  *)
(* reaped.                                                                 *)
(***************************************************************************)
Placed(states, reaps, pid) ==
    \A p \in Pids :
       /\ states[p].connected <=> pid = p
       /\ states[p].status = "none" <=> pid # p /\ reaps[p] = "no"
       /\ pid = p => reaps[p] = "no"

OnePlace == Placed(helper, reaping, controller.pid)

(***************************************************************************)
(* A helper is given the time to end by itself: the host kills one that    *)
(* still executes only when its deadline for that has passed, or at the    *)
(* host's own end; and never one that it still talks to.                   *)
(***************************************************************************)
GivenTime ==
    \A p \in Pids :
       helper[p].status # "none" /\ helper'[p].status = "none" /\ open' =>
          /\ helper[p].status = "exited" \/ reaping[p] = "passed"
          /\ controller'.pid # p

PlacedStep == OnePlace' /\ GivenTime

\* Something happens to the helper of p, but it goes on in its place.
LEMMA PlacedStays ==
    ASSUME IInv, OnePlace, NEW p \in Pids, NEW h \in HelperRecord,
           h.connected = helper[p].connected,
           h.status # "none", helper[p].status # "none",
           helper' = [helper EXCEPT ![p] = h],
           reaping' = reaping, controller'.pid = controller.pid
    PROVE  PlacedStep
PROOF
<1>1. helper \in Helpers
  BY DEF IInv, TypeOK, Helpers
<1>2. helper'[p] = h /\ \A q \in Pids : q # p => helper'[q] = helper[q]
  BY <1>1 DEF Helpers
<1>3. OnePlace'
  BY <1>2 DEF OnePlace, Placed
<1>4. GivenTime
  BY <1>2 DEF GivenTime
<1> QED
  BY <1>3, <1>4 DEF PlacedStep

\* Nor does a step that starts, tells and reaps nobody move any.
LEMMA PlacedSame ==
    ASSUME OnePlace, helper' = helper,
           \A p \in Pids : reaping'[p] = "no" <=> reaping[p] = "no",
           controller'.pid = controller.pid
    PROVE  PlacedStep
PROOF
  BY DEF PlacedStep, OnePlace, Placed, GivenTime

\* What the controller talks to is a process that was not reaped.
LEMMA ChannelPlaced ==
    ASSUME IInv, OnePlace, Present
    PROVE  /\ controller.pid \in Pids
           /\ Channel \in HelperRecord
           /\ Channel = helper[controller.pid]
           /\ Channel.connected
           /\ Channel.status # "none"
PROOF
<1>1. controller.pid \in Pids
  BY PresentPid DEF IInv
<1>2. Channel \in HelperRecord
  BY <1>1 DEF IInv, TypeOK, Channel
<1> QED
  BY <1>1, <1>2 DEF OnePlace, Placed, Channel

\* The host hangs up: the helper that it talked to is to be reaped.
LEMMA HangUpPlaced ==
    ASSUME IInv, OnePlace, Present, NEW h \in HelperRecord, ~h.connected, h.status # "none"
    PROVE  Placed([helper EXCEPT ![controller.pid] = h],
                  [reaping EXCEPT ![controller.pid] = "pending"], 0)
PROOF
<1>1. helper \in Helpers /\ reaping \in Reaps
  BY DEF IInv, TypeOK, Helpers, Reaps
<1>2. controller.pid \in Pids /\ 0 \notin Pids
  BY ChannelPlaced, InputAssumption
<1> DEFINE after  == [helper EXCEPT ![controller.pid] = h]
           reaped == [reaping EXCEPT ![controller.pid] = "pending"]
<1>3. /\ after[controller.pid] = h /\ reaped[controller.pid] = "pending"
      /\ \A q \in Pids : q # controller.pid =>
            after[q] = helper[q] /\ reaped[q] = reaping[q]
  BY <1>1, <1>2 DEF Helpers, Reaps
<1> HIDE DEF after, reaped
<1>4. Placed(after, reaped, 0)
  BY <1>2, <1>3 DEF OnePlace, Placed
<1> QED
  BY <1>4 DEF after, reaped

\* So it is, in one step, when the controller is stopped or dropped.
LEMMA DroppedPlaced ==
    ASSUME IInv, OnePlace, Present, NEW h \in HelperRecord, ~h.connected, h.status # "none",
           helper' = [helper EXCEPT ![controller.pid] = h],
           reaping' = [reaping EXCEPT ![controller.pid] = "pending"],
           controller' = NoController
    PROVE  PlacedStep
PROOF
<1>1. OnePlace'
  BY HangUpPlaced DEF OnePlace, NoController
<1>2. \A p \in Pids : helper'[p].status = "none" => helper[p].status = "none"
  BY DEF IInv, TypeOK
<1> QED
  BY <1>1, <1>2 DEF PlacedStep, GivenTime

\* Reaping makes the IDs of processes that ended, or had their time, unused.
LEMMA ReapPlaced ==
    ASSUME NEW states \in Helpers, NEW reaps \in Reaps, NEW pid,
           Placed(states, reaps, pid), Reap(states, reaps)
    PROVE  /\ Placed(helper', reaping', pid)
           /\ \A p \in Pids : helper'[p].status = "none" =>
                 \/ states[p].status \in {"none", "exited"} /\ pid # p
                 \/ reaps[p] = "passed" /\ pid # p
PROOF
<1> DEFINE R == Reapable(states, reaps)
<1>1. \A p \in Pids : /\ helper'[p] = IF p \in R THEN NoHelper ELSE states[p]
                      /\ reaping'[p] = IF p \in R THEN "no" ELSE reaps[p]
  BY DEF Reap
<1>2. \A p \in R : /\ reaps[p] # "no"
                   /\ states[p].status = "exited" \/ reaps[p] = "passed"
  BY DEF Reapable
<1>3. ~NoHelper.connected /\ NoHelper.status = "none"
  BY DEF NoHelper
<1> HIDE DEF R
<1> QED
  BY <1>1, <1>2, <1>3 DEF Placed

-----------------------------------------------------------------------------
\* The listeners only send.
LEMMA RevokePlaced ==
    ASSUME IInv, OnePlace, NEW released \in BOOLEAN, NEW cancelled \in BOOLEAN,
           Revoke(released, cancelled)
    PROVE  PlacedStep
PROOF
<1>1. reaping' = reaping /\ controller'.pid = controller.pid
  BY RevokeEffect
<1>2. CASE ~Present
  BY <1>1, <1>2, PlacedSame DEF Revoke, hostVars
<1>3. CASE Present
  <2> DEFINE h == IF released THEN Sent(Channel, ReleaseAll) ELSE Channel
             k == IF cancelled THEN CancelSent(h, controller) ELSE h
  <2>1. /\ controller.pid \in Pids /\ Channel \in HelperRecord
        /\ Channel = helper[controller.pid] /\ Channel.status # "none"
    BY <1>3, ChannelPlaced
  <2>2. helper' = [helper EXCEPT ![controller.pid] = k]
    BY <1>3 DEF Revoke, Channel
  <2>3. h \in HelperRecord /\ h.status = Channel.status /\ h.connected = Channel.connected
    BY <2>1, SentTyped, ReleaseAllTyped
  <2>4. k \in HelperRecord /\ k.status = Channel.status /\ k.connected = Channel.connected
    <3>1. controller \in ControllerRecord
      BY DEF IInv, TypeOK
    <3> HIDE DEF h
    <3> QED
      BY <2>3, <3>1, CancelSentTyped
  <2> HIDE DEF k
  <2> QED
    BY <1>1, <2>1, <2>2, <2>4, PlacedStays
<1> QED
  BY <1>2, <1>3

\* A start takes an unused ID, a stop has the helper reaped.
LEMMA RealmStepPlaced ==
    ASSUME IInv, OnePlace, RealmStep
    PROVE  PlacedStep
PROOF
<1>0. helper \in Helpers /\ reaping \in Reaps /\ controller \in ControllerRecord
  BY DEF IInv, TypeOK, Helpers, Reaps
<1>1. CASE RealmStarts \/ StartFails \/ Resume \/ RealmDestroyed \/ Observe \/ Grant \/ GrantPointer
  BY <1>1, PlacedSame
     DEF RealmStarts, StartFails, Resume, RealmDestroyed, Observe, Grant, GrantPointer, hostVars
<1>2. ASSUME NEW p \in Pids, StartFailsLate(p) PROVE PlacedStep
  <2> DEFINE h == [Launched EXCEPT !.connected = FALSE]
  <2>1. h.status = "starting" /\ ~h.connected
    BY DEF Launched, NoHelper
  <2>2. /\ helper' = [helper EXCEPT ![p] = h]
        /\ reaping' = [reaping EXCEPT ![p] = "pending"]
        /\ controller' = controller /\ helper[p].status = "none"
    BY <1>2 DEF StartFailsLate, Fork
  <2> HIDE DEF h
  <2>3. /\ helper'[p] = h /\ reaping'[p] = "pending"
        /\ \A q \in Pids : q # p => helper'[q] = helper[q] /\ reaping'[q] = reaping[q]
    BY <1>0, <2>2 DEF Helpers, Reaps
  <2> QED
    BY <2>1, <2>2, <2>3 DEF PlacedStep, OnePlace, Placed, GivenTime
<1>3. ASSUME NEW p \in Pids, StartController(p) PROVE PlacedStep
  <2>1. Launched.status = "starting" /\ Launched.connected
    BY DEF Launched, NoHelper
  <2>2. /\ helper' = [helper EXCEPT ![p] = Launched]
        /\ reaping' = reaping /\ reaping[p] = "no"
        /\ controller'.pid = p /\ helper[p].status = "none"
    BY <1>3 DEF StartController, Fork, NoController
  <2>3. ~Present
    BY <1>3 DEF StartController, RealmRuns, Contract!BecomeReady, Alive, IInv, ControlledOrFailed
  <2>4. \A q \in Pids : controller.pid # q
    BY <2>3, InputAssumption DEF Present
  <2>5. /\ helper'[p] = Launched
        /\ \A q \in Pids : q # p => helper'[q] = helper[q]
    BY <1>0, <2>2 DEF Helpers
  <2> QED
    BY <2>1, <2>2, <2>4, <2>5 DEF PlacedStep, OnePlace, Placed, GivenTime
<1>4. CASE HandOver \/ Pause \/ RealmStops \/ Unobserve \/ RevokeObserve \/ RevokeInput
  <2>1. observable \in BOOLEAN
    BY DEF IInv, TypeOK
  <2>2. PICK released \in BOOLEAN, cancelled \in BOOLEAN : Revoke(released, cancelled)
    BY <1>4, <2>1 DEF HandOver, Pause, RealmStops, Unobserve, RevokeObserve, RevokeInput
  <2> QED
    BY <2>2, RevokePlaced
<1>5. CASE RealmEnds
  <2>1. CASE ~Present
    BY <1>5, <2>1, PlacedSame DEF RealmEnds, StopController, hostVars
  <2>2. CASE Present
    <3>1. Channel \in HelperRecord /\ Channel = helper[controller.pid] /\ Channel.status # "none"
      BY <2>2, ChannelPlaced
    <3>2. /\ Stopped(Channel) \in HelperRecord
          /\ Stopped(Channel).status # "none" /\ ~Stopped(Channel).connected
      BY <1>0, <3>1, StoppedTyped
    <3>3. /\ controller' = NoController
          /\ helper' = [helper EXCEPT ![controller.pid] = Stopped(Channel)]
          /\ reaping' = [reaping EXCEPT ![controller.pid] = "pending"]
      BY <1>5, <2>2 DEF RealmEnds, StopController, Channel
    <3> QED
      BY <2>2, <3>2, <3>3, DroppedPlaced
  <2> QED
    BY <2>1, <2>2
<1> QED
  BY <1>1, <1>2, <1>3, <1>4, <1>5 DEF RealmStep

\* A request is sent to the controller's helper.
LEMMA RequestsPlaced ==
    ASSUME IInv, OnePlace, NewRequests
    PROVE  PlacedStep
PROOF
<1>0. controller \in ControllerRecord /\ Present
  BY DEF IInv, TypeOK, NewRequests, RequestInput, SendInput, RequestCapture, MayInput, MayCapture
<1>1. PICK m \in Commands :
         /\ helper' = [helper EXCEPT ![controller.pid] = Sent(@, m)]
         /\ reaping' = reaping /\ controller'.pid = controller.pid
  <2>1. CASE RequestInput
    <3>1. PICK type \in Inputs, s \in Free :
             /\ helper' = [helper EXCEPT ![controller.pid] = Sent(@, Message(type, s))]
             /\ controller' = [controller EXCEPT !.inputs = @ \cup {s}]
             /\ reaping' = reaping
      BY <2>1 DEF RequestInput, SendInput
    <3>2. Message(type, s) \in Commands
      BY InputAssumption DEF Free, Message, Commands
    <3> QED
      BY <1>0, <3>1, <3>2 DEF ControllerRecord
  <2>2. CASE RequestCapture
    <3>1. PICK s \in Free :
             /\ helper' = [helper EXCEPT ![controller.pid] = Sent(@, Message("CAPTURE", s))]
             /\ controller'.pid = controller.pid
             /\ reaping' = reaping
      BY <1>0, <2>2 DEF RequestCapture, ControllerRecord
    <3>2. Message("CAPTURE", s) \in Commands
      BY DEF Free, Message, Commands
    <3> QED
      BY <3>1, <3>2
  <2> QED
    BY <2>1, <2>2 DEF NewRequests
<1>2. /\ controller.pid \in Pids /\ Channel \in HelperRecord
      /\ Channel = helper[controller.pid] /\ Channel.status # "none"
  BY <1>0, ChannelPlaced
<1>3. /\ Sent(Channel, m) \in HelperRecord
      /\ Sent(Channel, m).status = Channel.status
      /\ Sent(Channel, m).connected = Channel.connected
  BY <1>2, SentTyped
<1> DEFINE k == Sent(Channel, m)
<1>4. helper' = [helper EXCEPT ![controller.pid] = k]
  BY <1>1, <1>2
<1> HIDE DEF k
<1>5. k \in HelperRecord /\ k.status = Channel.status /\ k.connected = Channel.connected
  BY <1>3 DEF k
<1> QED
  BY <1>1, <1>2, <1>4, <1>5, PlacedStays

\* What is read leaves the helper in its place, or has it reaped.
LEMMA ReadPlaced ==
    ASSUME IInv, OnePlace, Read
    PROVE  PlacedStep
PROOF
<1>0. controller \in ControllerRecord
  BY DEF IInv, TypeOK
<1>1. CASE ReadEndOfFile \/ \E s \in Numbers : ReadUnexpected(s)
  <2>1. Present /\ Detach
    BY <1>1 DEF ReadEndOfFile, ReadUnexpected, Unexpected, Reads
  <2>2. Channel \in HelperRecord /\ Channel = helper[controller.pid] /\ Channel.status # "none"
    BY <2>1, ChannelPlaced
  <2> DEFINE k == CancelSent(Channel, controller)
             h == [k EXCEPT !.connected = FALSE]
  <2>3. k \in HelperRecord /\ k.status # "none"
    BY <1>0, <2>2, CancelSentTyped
  <2>4. h \in HelperRecord /\ h.status # "none" /\ ~h.connected
    <3> HIDE DEF k
    <3> QED
      BY <2>3 DEF HelperRecord
  <2>5. /\ controller' = NoController
        /\ helper' = [helper EXCEPT ![controller.pid] = h]
        /\ reaping' = [reaping EXCEPT ![controller.pid] = "pending"]
    BY <2>1 DEF Detach, Channel
  <2> HIDE DEF h
  <2> QED
    BY <2>1, <2>4, <2>5, DroppedPlaced
<1>2. CASE ~(ReadEndOfFile \/ \E s \in Numbers : ReadUnexpected(s))
  <2>1. /\ Present /\ Channel.outbox # <<>>
        /\ \E c, w : Took(c, w) /\ c.pid = controller.pid
    <3>1. CASE ReadReady
      <4>1. [controller EXCEPT !.ready = TRUE].pid = controller.pid
        BY <1>0 DEF ControllerRecord
      <4> QED
        BY <3>1, <4>1 DEF ReadReady, Reads
    <3>2. ASSUME NEW s \in Numbers, NEW type, ReadInputAnswer(type, s)
          PROVE  Present /\ Channel.outbox # <<>> /\ \E c, w : Took(c, w) /\ c.pid = controller.pid
      <4>1. [controller EXCEPT !.inputs = @ \ {s}, !.late = @ \ {s}].pid = controller.pid
        BY <1>0 DEF ControllerRecord
      <4> QED
        BY <3>2, <4>1 DEF ReadInputAnswer, Reads
    <3>3. ASSUME NEW s \in Numbers, NEW type, ReadCaptureAnswer(type, s)
          PROVE  Present /\ Channel.outbox # <<>> /\ \E c, w : Took(c, w) /\ c.pid = controller.pid
      <4>1. [controller EXCEPT !.capture = NoCapture].pid = controller.pid
        BY <1>0 DEF ControllerRecord
      <4> QED
        BY <3>3, <4>1 DEF ReadCaptureAnswer, Reads
    <3>4. ASSUME NEW s \in Numbers, NEW type, ReadStale(type, s)
          PROVE  Present /\ Channel.outbox # <<>> /\ \E c, w : Took(c, w) /\ c.pid = controller.pid
      <4>1. [controller EXCEPT !.ignored = @ \ {s}].pid = controller.pid
        BY <1>0 DEF ControllerRecord
      <4> QED
        BY <3>4, <4>1 DEF ReadStale, Reads
    <3> QED
      BY <1>2, <3>1, <3>2, <3>3, <3>4 DEF Read
  <2>2. /\ controller.pid \in Pids /\ Channel \in HelperRecord
        /\ Channel = helper[controller.pid] /\ Channel.status # "none"
    BY <2>1, ChannelPlaced
  <2> DEFINE k == [Channel EXCEPT !.outbox = Tail(@)]
  <2>3. /\ helper' = [helper EXCEPT ![controller.pid] = k]
        /\ reaping' = reaping /\ controller'.pid = controller.pid
    BY <2>1, <2>2 DEF Took
  <2>4. k \in HelperRecord /\ k.status = Channel.status /\ k.connected = Channel.connected
    <3>1. Tail(Channel.outbox) \in Seq(Answers)
      BY <2>1, <2>2, HeadTailProperties DEF HelperRecord
    <3> QED
      BY <2>2, <3>1 DEF HelperRecord
  <2> HIDE DEF k
  <2> QED
    BY <2>2, <2>3, <2>4, PlacedStays
<1> QED
  BY <1>1, <1>2

\* A round of maintenance drops only what has ended or had its time.
LEMMA MaintainPlaced ==
    ASSUME IInv, OnePlace, Maintain
    PROVE  PlacedStep
PROOF
<1>0. /\ helper \in Helpers /\ reaping \in Reaps /\ controller \in ControllerRecord
      /\ Placed(helper, reaping, controller.pid)
  BY DEF IInv, TypeOK, Helpers, Reaps, OnePlace
<1>1. CASE ExpireStartup
  <2>1. Present
    BY <1>1 DEF ExpireStartup, StartupExpired
  <2>2. Channel \in HelperRecord /\ Channel = helper[controller.pid] /\ Channel.status # "none"
    BY <2>1, ChannelPlaced
  <2> DEFINE h == Stopped(Channel)
             states == [helper EXCEPT ![controller.pid] = h]
             reaps == [reaping EXCEPT ![controller.pid] = "pending"]
  <2>3. h \in HelperRecord /\ h.status = Channel.status /\ ~h.connected
    BY <1>0, <2>2, StoppedTyped
  <2>4. Placed(states, reaps, 0)
    <3> HIDE DEF h
    <3> QED
      BY <2>1, <2>2, <2>3, HangUpPlaced
  <2>5. states \in Helpers /\ reaps \in Reaps
    <3> HIDE DEF h
    <3> QED
      BY <1>0, <2>3 DEF Helpers, Reaps
  <2>6. \A p \in Pids : /\ states[p].status = helper[p].status
                        /\ reaps[p] = "passed" => reaping[p] = "passed"
    <3> HIDE DEF h
    <3> QED
      BY <1>0, <2>2, <2>3 DEF Helpers, Reaps
  <2>7. Reap(states, reaps) /\ controller' = NoController
    BY <1>1 DEF ExpireStartup, Channel
  <2> HIDE DEF states, reaps
  <2>8. /\ Placed(helper', reaping', 0)
        /\ \A p \in Pids : helper'[p].status = "none" =>
              \/ states[p].status \in {"none", "exited"} /\ 0 # p
              \/ reaps[p] = "passed" /\ 0 # p
    BY <2>4, <2>5, <2>7, ReapPlaced
  <2>9. controller'.pid = 0
    BY <2>7 DEF NoController
  <2> QED
    BY <2>6, <2>8, <2>9 DEF PlacedStep, OnePlace, GivenTime
<1>2. CASE Expire \/ RetryCapture
  <2>1. PICK states \in Helpers :
           /\ Placed(states, reaping, controller.pid)
           /\ \A p \in Pids : states[p].status = helper[p].status
           /\ Reap(states, reaping)
    <3>1. CASE Expire /\ ~controller.capture.overdue
      BY <1>0, <3>1 DEF Expire, Maintained
    <3>2. ASSUME NEW h \in HelperRecord, Present,
                 h.status = Channel.status, h.connected = Channel.connected,
                 Reap([helper EXCEPT ![controller.pid] = h], reaping)
          PROVE  \E states \in Helpers :
                    /\ Placed(states, reaping, controller.pid)
                    /\ \A p \in Pids : states[p].status = helper[p].status
                    /\ Reap(states, reaping)
      <4> DEFINE states == [helper EXCEPT ![controller.pid] = h]
      <4>1. controller.pid \in Pids /\ Channel = helper[controller.pid]
        BY <3>2, ChannelPlaced
      <4>2. states \in Helpers
        BY <1>0, <3>2 DEF Helpers
      <4>3. \A p \in Pids : /\ states[p].status = helper[p].status
                            /\ states[p].connected = helper[p].connected
        BY <1>0, <3>2, <4>1 DEF Helpers
      <4>4. Reap(states, reaping)
        BY <3>2
      <4> HIDE DEF states
      <4>5. Placed(states, reaping, controller.pid)
        BY <1>0, <4>3 DEF Placed
      <4> QED
        BY <4>2, <4>3, <4>4, <4>5
    <3>3. CASE Expire /\ controller.capture.overdue
      <4>1. Present
        BY <3>3, CapturingPresent DEF Capturing, NoCapture
      <4>2. Channel \in HelperRecord /\ Channel = helper[controller.pid]
        BY <4>1, ChannelPlaced
      <4> DEFINE h == CancelSent(Channel, controller)
      <4>3. h \in HelperRecord /\ h.status = Channel.status /\ h.connected = Channel.connected
        BY <1>0, <4>2, CancelSentTyped
      <4>4. Reap([helper EXCEPT ![controller.pid] = h], reaping)
        BY <3>3, <4>2 DEF Expire, Maintained
      <4> HIDE DEF h
      <4> QED
        BY <3>2, <4>1, <4>3, <4>4
    <3>4. CASE RetryCapture
      <4>1. Present
        BY <3>4, CapturingPresent DEF RetryCapture, Capturing, NoCapture
      <4>2. Channel \in HelperRecord /\ Channel = helper[controller.pid]
        BY <4>1, ChannelPlaced
      <4> DEFINE cancelled == CancelSent(Channel, controller)
      <4>3. PICK s \in Free :
               Reap([helper EXCEPT ![controller.pid] = Sent(cancelled, Message("CAPTURE", s))],
                    reaping)
        BY <3>4 DEF RetryCapture, Maintained
      <4>4. /\ cancelled \in HelperRecord /\ cancelled.status = Channel.status
            /\ cancelled.connected = Channel.connected
        BY <1>0, <4>2, CancelSentTyped
      <4>5. Message("CAPTURE", s) \in Commands
        BY DEF Free, Message, Commands
      <4> DEFINE h == Sent(cancelled, Message("CAPTURE", s))
      <4>6. h \in HelperRecord /\ h.status = Channel.status /\ h.connected = Channel.connected
        <5> HIDE DEF cancelled
        <5> QED
          BY <4>4, <4>5, SentTyped
      <4>7. Reap([helper EXCEPT ![controller.pid] = h], reaping)
        BY <4>3
      <4> HIDE DEF h
      <4> QED
        BY <3>2, <4>1, <4>6, <4>7
    <3> QED
      BY <1>2, <3>1, <3>3, <3>4
  <2>2. controller'.pid = controller.pid
    <3>1. CASE Expire
      <4> DEFINE l == WithoutLate(controller)
      <4>1. l \in ControllerRecord /\ l.pid = controller.pid
        BY <1>0, ReducedTyped
      <4>2. controller' \in {l, WithoutCapture(l)}
        BY <3>1 DEF Expire, Maintained
      <4> HIDE DEF l
      <4> QED
        BY <4>1, <4>2, WithoutCaptureTyped
    <3>2. CASE RetryCapture
      <4>1. PICK s \in Free :
               controller' \in {WithoutLate(Retried(s)), WithoutCapture(WithoutLate(Retried(s)))}
        BY <3>2 DEF RetryCapture, Maintained
      <4>2. Capturing /\ s \in Numbers
        BY <3>2 DEF RetryCapture, Capturing, NoCapture, Free
      <4> DEFINE r == Retried(s)
                 a == WithoutLate(r)
      <4>3. r \in ControllerRecord /\ r.pid = controller.pid
        BY <1>0, <4>2, RetriedTyped
      <4>4. a \in ControllerRecord /\ a.pid = controller.pid
        <5> HIDE DEF r
        <5> QED
          BY <4>3, ReducedTyped
      <4>5. controller' \in {a, WithoutCapture(a)}
        BY <4>1
      <4> HIDE DEF a
      <4> QED
        BY <4>4, <4>5, WithoutCaptureTyped
    <3> QED
      BY <1>2, <3>1, <3>2
  <2>3. /\ Placed(helper', reaping', controller.pid)
        /\ \A p \in Pids : helper'[p].status = "none" =>
              \/ states[p].status \in {"none", "exited"} /\ controller.pid # p
              \/ reaping[p] = "passed" /\ controller.pid # p
    BY <1>0, <2>1, ReapPlaced
  <2> QED
    BY <2>1, <2>2, <2>3 DEF PlacedStep, OnePlace, GivenTime
<1> QED
  BY <1>1, <1>2 DEF Maintain

\* A helper's own steps do not move it.
LEMMA HelperStepPlaced ==
    ASSUME IInv, OnePlace, NEW p \in Pids, HelperStep(p)
    PROVE  PlacedStep
PROOF
<1>0. helper[p] \in HelperRecord
  BY DEF IInv, TypeOK
<1>1. ASSUME NEW h \in HelperRecord, UpdateHelper(p, h), helper[p].status # "none",
             h.status # "none", h.connected = helper[p].connected
      PROVE  PlacedStep
  BY <1>1, PlacedStays DEF UpdateHelper
<1>2. CASE HelperReady(p)
  BY <1>0, <1>1, <1>2, ReadyTyped DEF HelperReady
<1>3. ASSUME NEW outcome, HelperReceives(p, outcome)
      PROVE  PlacedStep
  <2> DEFINE h == helper[p]
             k == Handled(h, Head(h.inbox), outcome)
             e == Exited(h, 0)
             n == IF h.connected THEN k ELSE e
  <2>1. h.status = "serving" /\ h.inbox # <<>> /\ UpdateHelper(p, n)
    BY <1>3 DEF HelperReceives
  <2>2. k \in HelperRecord /\ k.status = "serving" /\ k.connected = h.connected
    <3> HIDE DEF h
    <3> QED
      BY <1>0, <2>1, HandledTyped DEF h
  <2>3. e \in HelperRecord /\ e.status = "exited" /\ e.connected = h.connected
    <3>1. h.outbox \in Seq(Answers)
      BY <1>0 DEF HelperRecord
    <3>2. 0 \in 0..Len(h.outbox)
      BY <3>1, LenProperties
    <3> QED
      BY <1>0, <3>2, ExitedTyped
  <2> HIDE DEF k, e
  <2>4. n \in HelperRecord /\ n.status # "none" /\ n.connected = h.connected
    BY <2>2, <2>3
  <2> HIDE DEF n
  <2> QED
    BY <1>1, <2>1, <2>4
<1>4. CASE HelperExits(p)
  <2>1. PICK sent \in 0..Len(helper[p].outbox) : UpdateHelper(p, Exited(helper[p], sent))
    BY <1>4 DEF HelperExits
  <2>2. helper[p].status # "none"
    BY <1>4 DEF HelperExits
  <2> QED
    BY <1>0, <1>1, <2>1, <2>2, ExitedTyped
<1>5. CASE Acknowledge(p)
  BY <1>0, <1>1, <1>5, AcknowledgedTyped DEF Acknowledge, CompositorActs
<1>6. CASE CompleteFrame(p)
  <2> DEFINE Frame(type) == Reported([helper[p] EXCEPT !.capture = 0], type, helper[p].capture)
  <2>1. /\ helper[p].status = "serving" /\ helper[p].capture # 0
        /\ UpdateHelper(p, Frame("CAPTURE_READY")) \/ UpdateHelper(p, Frame("ERROR"))
    BY <1>6 DEF CompleteFrame, CompositorActs, FrameDone, FrameFailed
  <2>2. ASSUME NEW type \in {"ERROR", "CAPTURE_READY"}
        PROVE  /\ Frame(type) \in HelperRecord /\ Frame(type).status = "serving"
               /\ Frame(type).connected = helper[p].connected
    BY <1>0, <2>1, FrameTyped
  <2> HIDE DEF Frame
  <2> QED
    BY <1>1, <2>1, <2>2
<1> QED
  BY <1>2, <1>3, <1>4, <1>5, <1>6 DEF HelperStep

\* No step puts a process ID into two places.
LEMMA NextPlaced ==
    ASSUME IInv, OnePlace, [Next]_vars
    PROVE  PlacedStep
PROOF
<1>1. CASE Destroy
  <2>1. /\ controller'.pid = 0 /\ ~open'
        /\ helper' = [p \in Pids |-> NoHelper] /\ reaping' = [p \in Pids |-> "no"]
    BY <1>1 DEF Destroy, NoController
  <2>2. NoHelper.status = "none" /\ ~NoHelper.connected /\ 0 \notin Pids
    BY InputAssumption DEF NoHelper
  <2> QED
    BY <2>1, <2>2 DEF PlacedStep, OnePlace, Placed, GivenTime
<1>2. CASE Clock
  <2>1. controller \in ControllerRecord /\ reaping \in Reaps
    BY DEF IInv, TypeOK, Reaps
  <2>2. helper' = helper /\ controller'.pid = controller.pid
    BY <1>2, <2>1
       DEF Clock, StartupDeadlinePasses, InputDeadlinePasses, CaptureDeadlinePasses,
           ReapDeadlinePasses, TimerElapses, UpdateController, ControllerRecord
  <2>3. \A p \in Pids : reaping'[p] = "no" <=> reaping[p] = "no"
    BY <1>2, <2>1
       DEF Clock, StartupDeadlinePasses, InputDeadlinePasses, CaptureDeadlinePasses,
           ReapDeadlinePasses, TimerElapses, UpdateController, Reaps
  <2> QED
    BY <2>2, <2>3, PlacedSame
<1>3. CASE UNCHANGED vars
  BY <1>3, PlacedSame DEF vars, hostVars
<1> QED
  BY <1>1, <1>2, <1>3, RealmStepPlaced, RequestsPlaced, ReadPlaced, MaintainPlaced,
     HelperStepPlaced DEF Next, NewRequests

(***************************************************************************)
(* A process ID is never in two places, however starts, crashes, stops and *)
(* reaping interleave: the host talks to one helper, hangs up before it    *)
(* reaps, and gives no ID to a new helper that an old one still has.       *)
(***************************************************************************)
THEOREM HelpersHaveOnePlace == Spec => []OnePlace
PROOF
<1>1. Init => OnePlace
  <2> SUFFICES ASSUME Init PROVE OnePlace
    OBVIOUS
  <2>1. controller.pid = 0 /\ 0 \notin Pids /\ NoHelper.status = "none" /\ ~NoHelper.connected
    BY InputAssumption DEF Init, NoController, NoHelper
  <2> QED
    BY <2>1 DEF Init, OnePlace, Placed
<1>2. IInv /\ OnePlace /\ [Next]_vars => OnePlace'
  BY NextPlaced DEF PlacedStep
<1> QED
  BY <1>1, <1>2, Inductive, PTL DEF Spec

\* A helper is killed only after its time to end by itself, and only when the
\* host no longer talks to it.
THEOREM HelpersAreGivenTime == Spec => [][GivenTime]_vars
PROOF
<1>1. IInv /\ OnePlace /\ [Next]_vars => [GivenTime]_vars
  BY NextPlaced DEF PlacedStep
<1> QED
  BY <1>1, Inductive, HelpersHaveOnePlace, PTL DEF Spec

-----------------------------------------------------------------------------
(* Why what is pending ends. *)

(***************************************************************************)
(* A capture is requested at most twice: again only when its deadline has  *)
(* passed for the first time, under another number, and with the old one   *)
(* among those that are ignored from then on.  Otherwise its number stays. *)
(***************************************************************************)
AskedAgainOnce ==
    Capturing /\ Capturing' =>
       \/ controller'.capture.sequence = controller.capture.sequence
            /\ controller'.capture.attempts = controller.capture.attempts
       \/ Again(controller, controller')

\* The retry of a capture that is late, and no request of another agent, gives
\* a pending capture another number.
THEOREM CapturesAreAskedTwice == Spec => [][AskedAgainOnce]_vars
PROOF
<1>1. IInv /\ [Next]_vars => [AskedAgainOnce]_vars
  <2> SUFFICES ASSUME IInv, [Next]_vars, Capturing, Capturing' PROVE AskedAgainOnce
    BY DEF AskedAgainOnce
  <2>1. controller \in ControllerRecord
    BY DEF IInv, TypeOK
  <2>2. CASE NewRequests
    <3>1. RequestInput
      BY <2>2 DEF NewRequests, RequestCapture, MayCapture
    <3>2. controller'.capture = controller.capture
      BY <2>1, <3>1 DEF RequestInput, SendInput, ControllerRecord
    <3> QED
      BY <3>2 DEF AskedAgainOnce
  <2>3. CASE ~NewRequests
    <3>1. CaptureGoesOn(controller, controller')
      BY <2>3, PendingGoesOn DEF GoesOn
    <3>2. controller.capture \in [sequence : Numbers, attempts : 1..2, overdue : BOOLEAN]
      BY <2>1, CaptureTyped DEF Capturing
    <3> QED
      BY <3>1, <3>2 DEF CaptureGoesOn, Capturing, AskedAgainOnce
  <2> QED
    BY <2>2, <2>3
<1> QED
  BY <1>1, Inductive, PTL DEF Spec

(***************************************************************************)
(* A requester hears of an input because the helper answered this very     *)
(* input, because its time is up, because the controller is gone, or       *)
(* because the agent lost the lease or a capability that input needs; of a *)
(* capture for the same reasons, with the permission to observe.  Nothing  *)
(* that happens to one request ends another one.                           *)
(***************************************************************************)
EndsInput(s) ==
    \/ Reads("ERROR", s) \/ Reads("INPUT_APPLIED", s)
    \/ timer = "due" /\ s \in controller.late
    \/ ~Present'
    \/ ~Leased' \/ RevokeInput

EndsCapture ==
    \/ Reads("ERROR", controller.capture.sequence)
    \/ Reads("CAPTURE_READY", controller.capture.sequence)
    \/ timer = "due" /\ controller.capture.overdue
    \/ ~Present'
    \/ ~(phase' = "running" /\ granted' /\ observable')

EndsForACause ==
    /\ \A s \in controller.inputs \ controller'.inputs : EndsInput(s)
    /\ Capturing /\ ~Capturing' => EndsCapture

AnsweredForACause ==
    /\ \A s \in awaited.inputs \ awaited'.inputs : EndsInput(s)
    /\ awaited.capture /\ ~awaited'.capture => EndsCapture

\* Nothing ends without its number being taken off what is pending.
LEMMA SameEnds ==
    ASSUME controller'.inputs = controller.inputs, controller'.capture = controller.capture
    PROVE  EndsForACause
PROOF
  BY DEF EndsForACause, Capturing

\* The listeners cancel what is no longer permitted.
LEMMA RevokeEnds ==
    ASSUME IInv, HandOver \/ Pause \/ RealmStops \/ Unobserve \/ RevokeObserve \/ RevokeInput
    PROVE  EndsForACause
PROOF
<1>1. ASSUME NEW released \in BOOLEAN, NEW cancelled \in BOOLEAN, Revoke(released, cancelled)
      PROVE  /\ ~released => controller'.inputs = controller.inputs
             /\ ~cancelled => controller'.capture = controller.capture
  BY <1>1, RevokeEffect
<1>2. observable \in BOOLEAN
  BY DEF IInv, TypeOK
<1>3. CASE HandOver
  <2>1. Revoke(owner' # "AGENT", FALSE)
    BY <1>3 DEF HandOver
  <2>2. controller'.capture = controller.capture
    BY <1>1, <2>1
  <2>3. owner' = "AGENT" => controller'.inputs = controller.inputs
    BY <1>1, <2>1
  <2> QED
    BY <2>2, <2>3 DEF EndsForACause, EndsInput, Leased, Capturing
<1>4. CASE Pause
  BY <1>4 DEF Pause, Contract!Pause, EndsForACause, EndsInput, EndsCapture, Leased
<1>5. CASE RealmStops
  BY <1>5 DEF RealmStops, EndsForACause, EndsInput, EndsCapture, Leased
<1>6. CASE Unobserve
  <2>1. controller'.inputs = controller.inputs
    BY <1>1, <1>2, <1>6 DEF Unobserve
  <2>2. ~observable'
    BY <1>6 DEF Unobserve, Contract!Unobserve
  <2> QED
    BY <2>1, <2>2 DEF EndsForACause, EndsCapture
<1>7. CASE RevokeObserve
  <2>1. controller'.inputs = controller.inputs
    BY <1>1, <1>7 DEF RevokeObserve
  <2>2. ~observable'
    BY <1>7 DEF RevokeObserve, Contract!Revoke
  <2> QED
    BY <2>1, <2>2 DEF EndsForACause, EndsCapture
<1>8. CASE RevokeInput
  <2>1. controller'.capture = controller.capture
    BY <1>1, <1>8 DEF RevokeInput
  <2> QED
    BY <1>8, <2>1 DEF EndsForACause, EndsInput, Capturing
<1> QED
  BY <1>3, <1>4, <1>5, <1>6, <1>7, <1>8

\* A controller that is dropped is the cause of all that ends with it.
LEMMA DropEnds ==
    ASSUME controller' = NoController
    PROVE  EndsForACause
PROOF
  BY DEF EndsForACause, EndsInput, EndsCapture, Present, NoController

\* A message that is read ends the request that it answers.
LEMMA ReadEnds ==
    ASSUME IInv, Read
    PROVE  EndsForACause
PROOF
<1>0. controller \in ControllerRecord
  BY DEF IInv, TypeOK
<1>1. CASE ReadReady
  BY <1>0, <1>1, SameEnds DEF ReadReady, Took, ControllerRecord
<1>2. CASE ReadEndOfFile \/ \E s \in Numbers : ReadUnexpected(s)
  BY <1>2, DropEnds DEF ReadEndOfFile, ReadUnexpected, Detach
<1>3. ASSUME NEW s \in Numbers, NEW type \in {"ERROR", "INPUT_APPLIED"}, ReadInputAnswer(type, s)
      PROVE  EndsForACause
  <2>1. /\ controller'.inputs = controller.inputs \ {s}
        /\ controller'.capture = controller.capture
        /\ Reads(type, s)
    BY <1>0, <1>3 DEF ReadInputAnswer, Took, ControllerRecord
  <2> QED
    BY <2>1 DEF EndsForACause, EndsInput, Capturing
<1>4. ASSUME NEW s \in Numbers, NEW type \in {"ERROR", "CAPTURE_READY"}, ReadCaptureAnswer(type, s)
      PROVE  EndsForACause
  <2>1. /\ controller'.inputs = controller.inputs
        /\ controller.capture.sequence = s
        /\ Reads(type, s)
    BY <1>0, <1>4 DEF ReadCaptureAnswer, Took, ControllerRecord
  <2> QED
    BY <2>1 DEF EndsForACause, EndsCapture
<1>5. ASSUME NEW s \in Numbers, NEW type, ReadStale(type, s)
      PROVE  EndsForACause
  <2>1. controller' \in {controller, [controller EXCEPT !.ignored = @ \ {s}]}
    BY <1>5 DEF ReadStale, Took
  <2> QED
    BY <1>0, <2>1, SameEnds DEF ControllerRecord
<1> QED
  BY <1>1, <1>2, <1>3, <1>4, <1>5 DEF Read

\* Maintenance gives up what is late.
LEMMA MaintainedEnds ==
    ASSUME IInv, Maintain
    PROVE  EndsForACause
PROOF
<1>0. controller \in ControllerRecord /\ timer = "due"
  BY DEF IInv, TypeOK, Maintain, Expire, RetryCapture, ExpireStartup, Due
<1>1. CASE ExpireStartup
  BY <1>1, DropEnds DEF ExpireStartup
<1>2. CASE Expire
  <2> DEFINE l == WithoutLate(controller)
  <2>1. /\ l \in ControllerRecord /\ l.capture = controller.capture
        /\ l.inputs = controller.inputs \ controller.late
    BY <1>0, ReducedTyped
  <2>2. controller' = IF controller.capture.overdue THEN WithoutCapture(l) ELSE l
    BY <1>2 DEF Expire, Maintained
  <2> HIDE DEF l
  <2>3. controller'.inputs = controller.inputs \ controller.late
    BY <2>1, <2>2, WithoutCaptureTyped
  <2>4. ~controller.capture.overdue => controller'.capture = controller.capture
    BY <2>1, <2>2
  <2> QED
    BY <1>0, <2>3, <2>4 DEF EndsForACause, EndsInput, EndsCapture, Capturing
<1>3. CASE RetryCapture
  <2>1. PICK s \in Free :
           controller' \in {WithoutLate(Retried(s)), WithoutCapture(WithoutLate(Retried(s)))}
    BY <1>3 DEF RetryCapture, Maintained
  <2>2. controller.capture.overdue /\ Capturing /\ s \in Numbers
    BY <1>3 DEF RetryCapture, Capturing, NoCapture, Free
  <2> DEFINE r == Retried(s)
             a == WithoutLate(r)
  <2>3. r \in ControllerRecord /\ r.inputs = controller.inputs /\ r.late = controller.late
    BY <1>0, <2>2, RetriedTyped
  <2>4. a \in ControllerRecord /\ a.inputs = controller.inputs \ controller.late
    <3> HIDE DEF r
    <3> QED
      BY <2>3, ReducedTyped
  <2>5. controller' \in {a, WithoutCapture(a)}
    BY <2>1
  <2> HIDE DEF a
  <2>6. controller'.inputs = controller.inputs \ controller.late
    BY <2>4, <2>5, WithoutCaptureTyped
  <2> QED
    BY <1>0, <2>2, <2>6 DEF EndsForACause, EndsInput, EndsCapture
<1> QED
  BY <1>1, <1>2, <1>3 DEF Maintain

\* So every step ends only what it has a cause to end.
LEMMA StepEnds ==
    ASSUME IInv, [Next]_vars
    PROVE  EndsForACause
PROOF
<1>0. controller \in ControllerRecord
  BY DEF IInv, TypeOK
<1>1. CASE RealmStep
  <2>1. CASE RealmStarts \/ StartFails \/ Resume \/ RealmDestroyed \/ Observe \/ Grant \/ GrantPointer
    BY <2>1, SameEnds
       DEF RealmStarts, StartFails, Resume, RealmDestroyed, Observe, Grant, GrantPointer, hostVars
  <2>2. CASE \E p \in Pids : StartFailsLate(p) \/ StartController(p)
    <3>1. phase = "starting"
      BY <2>2 DEF StartFailsLate, StartController, RealmRuns, Contract!BecomeReady
    <3>2. controller.inputs = {} /\ ~Capturing
      BY <3>1 DEF IInv, PendingIsPermitted, MayInput
    <3> QED
      BY <3>2 DEF EndsForACause
  <2>3. CASE RealmEnds
    BY <2>3, StopEffect, DropEnds DEF RealmEnds
  <2> QED
    BY <1>1, <2>1, <2>2, <2>3, RevokeEnds DEF RealmStep
<1>2. CASE RequestInput
  BY <1>0, <1>2 DEF RequestInput, SendInput, EndsForACause, Capturing, ControllerRecord
<1>3. CASE RequestCapture
  BY <1>0, <1>3 DEF RequestCapture, MayCapture, EndsForACause, Capturing, ControllerRecord
<1>4. CASE Destroy
  BY <1>4, DropEnds DEF Destroy
<1>5. CASE Clock
  <2>1. CASE StartupDeadlinePasses \/ \E s \in Numbers : InputDeadlinePasses(s)
    BY <1>0, <2>1, SameEnds
       DEF StartupDeadlinePasses, InputDeadlinePasses, UpdateController, ControllerRecord
  <2>2. CASE CaptureDeadlinePasses
    <3>1. controller'.inputs = controller.inputs /\ controller'.capture.overdue
      <4>1. controller.capture \in [sequence : Numbers, attempts : 1..2, overdue : BOOLEAN]
        BY <1>0, <2>2, CaptureTyped DEF CaptureDeadlinePasses, Capturing
      <4> QED
        BY <1>0, <2>2, <4>1 DEF CaptureDeadlinePasses, UpdateController, ControllerRecord
    <3> QED
      BY <3>1 DEF EndsForACause, Capturing, NoCapture
  <2>3. CASE TimerElapses \/ \E p \in Pids : ReapDeadlinePasses(p)
    BY <2>3, SameEnds DEF TimerElapses, ReapDeadlinePasses
  <2> QED
    BY <1>5, <2>1, <2>2, <2>3 DEF Clock
<1>6. ASSUME NEW p \in Pids, HelperStep(p)
      PROVE  EndsForACause
  BY <1>6, SameEnds DEF HelperStep, HelperReady, HelperReceives, HelperExits, Acknowledge,
                        CompleteFrame, UpdateHelper
<1>7. CASE UNCHANGED vars
  BY <1>7, SameEnds DEF vars, hostVars
<1> QED
  BY <1>1, <1>2, <1>3, <1>4, <1>5, <1>6, <1>7, ReadEnds, MaintainedEnds DEF Next

\* No requester is answered for a reason that is not its own.
THEOREM AnswersHaveACause == Spec => [][AnsweredForACause]_vars
PROOF
<1>1. IInv /\ IInv' /\ [Next]_vars => [AnsweredForACause]_vars
  <2> SUFFICES ASSUME IInv, IInv', [Next]_vars PROVE AnsweredForACause
    OBVIOUS
  <2>1. /\ awaited.inputs = controller.inputs /\ awaited'.inputs = controller'.inputs
        /\ awaited.capture <=> Capturing
        /\ awaited'.capture <=> Capturing'
    BY DEF IInv, AnswersAreOwed
  <2> QED
    BY <2>1, StepEnds DEF EndsForACause, AnsweredForACause
<1> QED
  BY <1>1, Inductive, PTL DEF Spec

-----------------------------------------------------------------------------
(* The realm that the controller manager listens to keeps its contract. *)

\* A step of the realm is one of its contract or none of its business.
LEMMA StepByContract ==
    ASSUME [Next]_vars
    PROVE  Contract!Next \/ UNCHANGED <<phase, owner, observable, granted>>
PROOF
<1>1. CASE RealmStep
  <2>1. CASE RealmStarts \/ StartFails \/ \E p \in Pids : StartFailsLate(p) \/ StartController(p)
    BY <2>1 DEF RealmStarts, StartFails, StartFailsLate, StartController, RealmRuns, Contract!Next
  <2>2. CASE HandOver \/ Pause \/ Resume \/ RealmStops \/ RealmEnds
    BY <2>2 DEF HandOver, Pause, Resume, RealmStops, RealmEnds, Contract!Next
  <2>3. CASE Observe \/ Unobserve \/ Grant \/ RevokeObserve
    BY <2>3 DEF Observe, Unobserve, Grant, RevokeObserve, Contract!Next
  <2>4. CASE RealmDestroyed \/ GrantPointer \/ RevokeInput
    BY <2>4 DEF RealmDestroyed, GrantPointer, RevokeInput, realmVars
  <2> QED
    BY <1>1, <2>1, <2>2, <2>3, <2>4 DEF RealmStep
<1>2. CASE RequestInput \/ RequestCapture
  BY <1>2 DEF RequestInput, SendInput, RequestCapture, realmVars
<1>3. CASE Read
  BY <1>3 DEF Read, ReadReady, ReadEndOfFile, ReadInputAnswer, ReadCaptureAnswer, ReadStale,
              ReadUnexpected, Took, Detach, realmVars
<1>4. CASE Maintain \/ Destroy
  BY <1>4 DEF Maintain, Expire, RetryCapture, ExpireStartup, Maintained, Destroy, realmVars
<1>5. CASE Clock
  BY <1>5 DEF Clock, StartupDeadlinePasses, InputDeadlinePasses, CaptureDeadlinePasses,
              ReapDeadlinePasses, TimerElapses, UpdateController, realmVars
<1>6. ASSUME NEW p \in Pids, HelperStep(p)
      PROVE  UNCHANGED <<phase, owner, observable, granted>>
  BY <1>6 DEF HelperStep, HelperReady, HelperReceives, HelperExits, Acknowledge, CompleteFrame,
              UpdateHelper, realmVars
<1>7. CASE UNCHANGED vars
  BY <1>7 DEF vars, realmVars
<1> QED
  BY <1>1, <1>2, <1>3, <1>4, <1>5, <1>6, <1>7 DEF Next

\* Whatever helpers, requesters, clocks and the controller manager do between
\* them, the realm that they see keeps the promises of RealmContract, which is
\* all that RealmManager is known to keep.
THEOREM RealmKeepsContract == Spec => Contract!Spec
PROOF
<1>1. Init => Contract!Init
  BY DEF Init
<1>2. [Next]_vars => [Contract!Next]_(Contract!contract)
  BY StepByContract DEF Contract!contract
<1> QED
  BY <1>1, <1>2, PTL DEF Spec, Contract!Spec

-----------------------------------------------------------------------------
(***************************************************************************)
(* Liveness.  ENABLED is out of the prover's reach: that a fair action can *)
(* happen when its own conditions hold is a hypothesis, DueStepsHappen,    *)
(* which TLC checks as an invariant.                                       *)
(***************************************************************************)
Pending(s) == s \in controller.inputs
Late(s)    == s \in controller.inputs /\ s \in controller.late
Overdue    == Capturing /\ controller.capture.overdue
SecondTime == Capturing /\ controller.capture.attempts = 2
Armed      == open /\ timer = "armed"
Falls      == open /\ timer = "due"

InputWaits(s)   == Pending(s) /\ ~Late(s)
CaptureWaits    == Capturing /\ ~controller.capture.overdue
HelperWaits(p)  == reaping[p] = "pending"

DueStepsHappen ==
    /\ Falls => ENABLED <<Maintain>>_vars
    /\ Armed => ENABLED <<TimerElapses>>_vars
    /\ \A s \in Numbers : InputWaits(s) => ENABLED <<InputDeadlinePasses(s)>>_vars
    /\ CaptureWaits => ENABLED <<CaptureDeadlinePasses>>_vars
    /\ \A p \in Pids : HelperWaits(p) => ENABLED <<ReapDeadlinePasses(p)>>_vars

\* Once the controller manager is gone nobody can wait for it, and nobody is
\* left to be reaped.
ClosedIsEmpty == open \/ (controller = NoController /\ \A p \in Pids : reaping[p] = "no")

Settling == IInv /\ ClosedIsEmpty

\* The destructor leaves nothing, and nothing is added after it.
LEMMA ClosedStays ==
    ASSUME ClosedIsEmpty, [Next]_vars
    PROVE  ClosedIsEmpty'
PROOF
<1>1. CASE Destroy
  BY <1>1 DEF Destroy, ClosedIsEmpty
<1>2. CASE Alive
  BY <1>2 DEF Alive, ClosedIsEmpty
<1>3. CASE UNCHANGED <<open, controller, reaping>>
  BY <1>3 DEF ClosedIsEmpty
<1>4. ASSUME NEW p \in Pids, HelperStep(p)
      PROVE  UNCHANGED <<open, controller, reaping>>
  BY <1>4 DEF HelperStep, HelperReady, HelperReceives, HelperExits, Acknowledge, CompleteFrame,
              UpdateHelper
<1>5. RealmStep => Alive
  BY DEF RealmStep, RealmStarts, StartFails, StartFailsLate, StartController, RealmRuns, HandOver,
         Pause, Resume, RealmStops, RealmEnds, RealmDestroyed, Observe, Unobserve, Grant,
         RevokeObserve, GrantPointer, RevokeInput
<1>6. NewRequests \/ Read => Alive
  BY DEF NewRequests, RequestInput, SendInput, RequestCapture, Read, ReadReady, ReadEndOfFile,
         ReadInputAnswer, ReadCaptureAnswer, ReadStale, ReadUnexpected, Took, Detach
<1>7. Maintain \/ Clock => Alive
  BY DEF Maintain, Expire, RetryCapture, ExpireStartup, Maintained, Clock, StartupDeadlinePasses,
         InputDeadlinePasses, CaptureDeadlinePasses, ReapDeadlinePasses, TimerElapses,
         UpdateController
<1> QED
  BY <1>1, <1>2, <1>3, <1>4, <1>5, <1>6, <1>7 DEF Next, NewRequests, vars, hostVars

\* Both hold throughout.
LEMMA SettlingInvariance == Spec => []Settling
PROOF
<1>1. Init => ClosedIsEmpty
  BY DEF Init, ClosedIsEmpty
<1>2. ClosedIsEmpty /\ [Next]_vars => ClosedIsEmpty'
  BY ClosedStays
<1> QED
  BY <1>1, <1>2, Inductive, PTL DEF Spec, Settling

\* While something is pending, the timer is armed or due.
LEMMA PendingIsTimed ==
    ASSUME Settling, controller.inputs # {} \/ Capturing
    PROVE  (Armed \/ Falls) /\ ~(Armed /\ Falls)
PROOF
<1>1. open /\ Present
  BY DEF Settling, IInv, NoneIsNone, ClosedIsEmpty, NoController, Capturing
<1>2. Work(controller, reaping)
  BY <1>1 DEF Work, Present, Capturing
<1> QED
  BY <1>1, <1>2 DEF Settling, IInv, MaintenanceIsSet, TypeOK, Armed, Falls

\* Once the requests pause, an input that ends stays ended, one that is late
\* stays late, and a timer that is due stays due until maintenance runs.
LEMMA InputGoesOn ==
    ASSUME Settling, Settling', [Next]_vars, [~NewRequests]_vars, NEW s \in Numbers
    PROVE  /\ Pending(s)' => Pending(s)
           /\ Pending(s)' /\ Late(s) => Late(s)'
           /\ Pending(s)' /\ Falls => Falls' \/ <<Maintain>>_vars
PROOF
<1>1. GoesOn(controller, controller') /\ TimerGoesOn
  <2>1. CASE UNCHANGED vars
    BY <2>1, SameGoesOn DEF vars, hostVars
  <2> QED
    BY <2>1, PendingGoesOn DEF Settling
<1>2. Pending(s)' => open'
  BY PendingIsTimed DEF Settling, ClosedIsEmpty, NoController, Pending
<1>3. Pending(s)' /\ Falls => Falls' \/ <<Maintain>>_vars
  BY <1>1, <1>2 DEF TimerGoesOn, Pending, Falls, vars, hostVars
<1> QED
  BY <1>1, <1>3 DEF GoesOn, Pending, Late

\* A capture ends, or it goes on; if it is requested again, it is for the last time.
LEMMA CaptureGoesOnToo ==
    ASSUME Settling, Settling', [Next]_vars, [~NewRequests]_vars
    PROVE  /\ Capturing' => Capturing
           /\ Capturing' /\ SecondTime => SecondTime'
           /\ Capturing' /\ Overdue => Overdue' \/ (~SecondTime /\ SecondTime')
           /\ Capturing' /\ Falls => Falls' \/ <<Maintain>>_vars
PROOF
<1>1. CaptureGoesOn(controller, controller') /\ TimerGoesOn
  <2>1. CASE UNCHANGED vars
    BY <2>1, SameGoesOn DEF vars, hostVars, GoesOn
  <2> QED
    BY <2>1, PendingGoesOn DEF Settling, GoesOn
<1>2. Capturing' => open'
  BY DEF Settling, ClosedIsEmpty, NoController, Capturing
<1>3. Capturing => controller.capture \in [sequence : Numbers, attempts : 1..2, overdue : BOOLEAN]
  BY CaptureTyped DEF Settling, IInv, TypeOK, Capturing
<1>4. Again(controller, controller') => Capturing
  BY DEF Again, Capturing, NoCapture
<1>5. Capturing' => Capturing
  BY <1>1, <1>4 DEF CaptureGoesOn, Capturing
<1>6. Capturing' /\ SecondTime => SecondTime'
  BY <1>1, <1>3 DEF CaptureGoesOn, Again, Capturing, SecondTime
<1>7. Capturing' /\ Overdue => Overdue' \/ (~SecondTime /\ SecondTime')
  BY <1>1, <1>3 DEF CaptureGoesOn, Again, Capturing, SecondTime, Overdue
<1>8. Capturing' /\ Falls => Falls' \/ <<Maintain>>_vars
  BY <1>1, <1>2 DEF TimerGoesOn, Falls, Capturing, vars, hostVars
<1> QED
  BY <1>5, <1>6, <1>7, <1>8

\* What the fair steps do: the deadlines make late, the timer makes due, and
\* maintenance ends what is late or asks for it for the last time.
LEMMA FairStepsEnd ==
    /\ \A s \in Numbers :
          /\ Settling /\ Pending(s) => Late(s) \/ InputWaits(s)
          /\ Settling /\ <<InputDeadlinePasses(s)>>_vars => Late(s)'
          /\ Settling /\ Late(s) /\ <<Maintain>>_vars => ~Pending(s)'
    /\ Settling /\ Capturing => Overdue \/ CaptureWaits
    /\ Settling /\ <<CaptureDeadlinePasses>>_vars => Overdue'
    /\ Settling /\ Overdue /\ <<Maintain>>_vars => ~Capturing' \/ (~SecondTime /\ SecondTime')
    /\ Settling /\ <<TimerElapses>>_vars => Falls'
PROOF
<1>1. ASSUME NEW s \in Numbers
      PROVE  /\ Settling /\ Pending(s) => Late(s) \/ InputWaits(s)
             /\ Settling /\ <<InputDeadlinePasses(s)>>_vars => Late(s)'
             /\ Settling /\ Late(s) /\ <<Maintain>>_vars => ~Pending(s)'
  <2>1. Settling /\ Pending(s) => Late(s) \/ InputWaits(s)
    BY DEF Pending, Late, InputWaits
  <2>2. Settling /\ <<InputDeadlinePasses(s)>>_vars => Late(s)'
    BY DEF Settling, IInv, TypeOK, ControllerRecord, InputDeadlinePasses, UpdateController, Late
  <2>3. Settling /\ Late(s) /\ <<Maintain>>_vars => ~Pending(s)'
    BY MaintainEnds DEF Settling, Late, Pending
  <2> QED
    BY <2>1, <2>2, <2>3
<1>2. Settling /\ Capturing => Overdue \/ CaptureWaits
  BY DEF Overdue, CaptureWaits
<1>3. Settling /\ <<CaptureDeadlinePasses>>_vars => Overdue'
  <2> SUFFICES ASSUME Settling, CaptureDeadlinePasses PROVE Overdue'
    OBVIOUS
  <2>1. controller \in ControllerRecord /\ controller.capture # NoCapture
    BY DEF Settling, IInv, TypeOK, CaptureDeadlinePasses, Capturing
  <2>2. controller.capture \in [sequence : Numbers, attempts : 1..2, overdue : BOOLEAN]
    BY <2>1, CaptureTyped
  <2>3. controller'.capture = [controller.capture EXCEPT !.overdue = TRUE]
    BY <2>1 DEF CaptureDeadlinePasses, UpdateController, ControllerRecord
  <2> QED
    BY <2>2, <2>3 DEF Overdue, Capturing, NoCapture
<1>4. Settling /\ Overdue /\ <<Maintain>>_vars => ~Capturing' \/ (~SecondTime /\ SecondTime')
  <2> SUFFICES ASSUME Settling, Overdue, Maintain
               PROVE  ~Capturing' \/ (~SecondTime /\ SecondTime')
    OBVIOUS
  <2>1. controller'.capture = NoCapture \/ Again(controller, controller')
    BY MaintainEnds DEF Settling, Overdue
  <2> QED
    BY <2>1 DEF Again, Capturing, SecondTime, NoCapture
<1>5. Settling /\ <<TimerElapses>>_vars => Falls'
  BY DEF TimerElapses, Alive, Falls
<1> QED
  BY <1>1, <1>2, <1>3, <1>4, <1>5

\* An input that is still pending once the requests pause ends for good: its
\* deadline passes, the timer elapses, and maintenance gives it up.
LEMMA OneInputEnds ==
    ASSUME NEW s \in Numbers
    PROVE  Spec /\ FairLoop /\ FairInput(s) /\ []DueStepsHappen /\ Quiet => <>[]~Pending(s)
PROOF
<1> DEFINE Fair == Spec /\ FairLoop /\ FairInput(s) /\ []DueStepsHappen /\ Quiet
<1>1. Settling /\ Settling' /\ [Next]_vars /\ [~NewRequests]_vars
        => /\ Pending(s)' => Pending(s)
           /\ Pending(s)' /\ Late(s) => Late(s)'
           /\ Pending(s)' /\ Falls => Falls' \/ <<Maintain>>_vars
  BY InputGoesOn
<1>2. Fair => []Settling /\ [][Next]_vars /\ []DueStepsHappen /\ <>[][~NewRequests]_vars
  <2>1. Quiet => <>[][~NewRequests]_vars
    BY PTL DEF Quiet, NewRequests
  <2> QED
    BY <2>1, SettlingInvariance, PTL DEF Spec
<1>3. Fair => ([]<>~Falls \/ []<><<Maintain>>_vars)
  <2>1. DueStepsHappen => (Falls => ENABLED <<Maintain>>_vars)
    BY DEF DueStepsHappen
  <2> QED
    BY <2>1, PTL DEF FairLoop
<1>4. Fair => ([]<>~Armed \/ []<><<TimerElapses>>_vars)
  <2>1. DueStepsHappen => (Armed => ENABLED <<TimerElapses>>_vars)
    BY DEF DueStepsHappen
  <2> QED
    BY <2>1, PTL DEF FairLoop
<1>5. Fair => ([]<>~InputWaits(s) \/ []<><<InputDeadlinePasses(s)>>_vars)
  <2>1. DueStepsHappen => (InputWaits(s) => ENABLED <<InputDeadlinePasses(s)>>_vars)
    BY DEF DueStepsHappen
  <2> QED
    BY <2>1, PTL DEF FairInput
<1>6. Settling /\ Pending(s) => Late(s) \/ InputWaits(s)
  BY FairStepsEnd
<1>7. Settling /\ <<InputDeadlinePasses(s)>>_vars => Late(s)'
  BY FairStepsEnd
<1>8. Settling /\ Late(s) /\ <<Maintain>>_vars => ~Pending(s)'
  BY FairStepsEnd
<1>9. Settling /\ <<TimerElapses>>_vars => Falls'
  BY FairStepsEnd
<1>10. Settling /\ Pending(s) => Armed \/ Falls
  BY PendingIsTimed DEF Pending
<1> HIDE DEF Fair
<1>11. Fair => <>[]~Pending(s) \/ <>[]Pending(s)
  BY <1>1, <1>2, PTL
<1>12. Fair /\ <>[]Pending(s) => <>[]Late(s)
  BY <1>1, <1>2, <1>5, <1>6, <1>7, PTL
<1>13. Fair /\ <>[]Pending(s) /\ <>[]Late(s) => FALSE
  BY <1>1, <1>2, <1>3, <1>4, <1>8, <1>9, <1>10, PTL
<1> QED
  BY <1>11, <1>12, <1>13, PTL DEF Fair

\* So does a capture: maintenance asks once more for it, and then gives it up.
LEMMA CapturesEnd ==
    Spec /\ FairLoop /\ []DueStepsHappen /\ Quiet => <>[]~Capturing
PROOF
<1> DEFINE Fair == Spec /\ FairLoop /\ []DueStepsHappen /\ Quiet
<1>1. Settling /\ Settling' /\ [Next]_vars /\ [~NewRequests]_vars
        => /\ Capturing' => Capturing
           /\ Capturing' /\ SecondTime => SecondTime'
           /\ Capturing' /\ Overdue => Overdue' \/ (~SecondTime /\ SecondTime')
           /\ Capturing' /\ Falls => Falls' \/ <<Maintain>>_vars
  BY CaptureGoesOnToo
<1>2. Fair => []Settling /\ [][Next]_vars /\ []DueStepsHappen /\ <>[][~NewRequests]_vars
  <2>1. Quiet => <>[][~NewRequests]_vars
    BY PTL DEF Quiet, NewRequests
  <2> QED
    BY <2>1, SettlingInvariance, PTL DEF Spec
<1>3. Fair => ([]<>~Falls \/ []<><<Maintain>>_vars)
  <2>1. DueStepsHappen => (Falls => ENABLED <<Maintain>>_vars)
    BY DEF DueStepsHappen
  <2> QED
    BY <2>1, PTL DEF FairLoop
<1>4. Fair => ([]<>~Armed \/ []<><<TimerElapses>>_vars)
  <2>1. DueStepsHappen => (Armed => ENABLED <<TimerElapses>>_vars)
    BY DEF DueStepsHappen
  <2> QED
    BY <2>1, PTL DEF FairLoop
<1>5. Fair => ([]<>~CaptureWaits \/ []<><<CaptureDeadlinePasses>>_vars)
  <2>1. DueStepsHappen => (CaptureWaits => ENABLED <<CaptureDeadlinePasses>>_vars)
    BY DEF DueStepsHappen
  <2> QED
    BY <2>1, PTL DEF FairLoop
<1>6. Settling /\ Capturing => Overdue \/ CaptureWaits
  BY FairStepsEnd
<1>7. Settling /\ <<CaptureDeadlinePasses>>_vars => Overdue'
  BY FairStepsEnd
<1>8. Settling /\ Overdue /\ <<Maintain>>_vars => ~Capturing' \/ (~SecondTime /\ SecondTime')
  BY FairStepsEnd
<1>9. Settling /\ <<TimerElapses>>_vars => Falls'
  BY FairStepsEnd
<1>10. Settling /\ Capturing => Armed \/ Falls
  BY PendingIsTimed
<1> HIDE DEF Fair
<1>11. Fair => <>[]~Capturing \/ <>[]Capturing
  BY <1>1, <1>2, PTL
<1>12. Fair /\ <>[]Capturing => <>[]SecondTime \/ <>[]~SecondTime
  BY <1>1, <1>2, PTL
<1>13. Fair /\ <>[]Capturing => <>[]Overdue
  BY <1>1, <1>2, <1>5, <1>6, <1>7, <1>12, PTL
<1>14. Fair /\ <>[]Capturing /\ <>[]Overdue => FALSE
  BY <1>1, <1>2, <1>3, <1>4, <1>8, <1>9, <1>10, <1>12, PTL
<1> QED
  BY <1>11, <1>13, <1>14, PTL DEF Fair

(***************************************************************************)
(* Once the requests pause, every requester is answered and nobody waits   *)
(* for it any more: whether or not the helper hangs, and whatever the realm*)
(* does.  That there is then a moment from which on nobody waits at all,   *)
(* as AnsweredWhenQuiet says, takes an induction over the finite set of    *)
(* those who wait, which TLC does on the instance.                         *)
(***************************************************************************)
THEOREM EachIsAnsweredWhenQuiet ==
    FairSpec /\ []DueStepsHappen /\ Quiet
      => /\ \A s \in Numbers : <>[](s \notin awaited.inputs)
         /\ <>[](~awaited.capture)
PROOF
<1>1. IInv => /\ \A s \in Numbers : ~Pending(s) => s \notin awaited.inputs
              /\ ~Capturing => ~awaited.capture
  BY DEF IInv, AnswersAreOwed, Pending
<1>2. ASSUME NEW s \in Numbers
      PROVE  Spec /\ FairLoop /\ FairInput(s) /\ []DueStepsHappen /\ Quiet
               => <>[](s \notin awaited.inputs)
  <2>1. IInv => (~Pending(s) => s \notin awaited.inputs)
    BY <1>1
  <2> QED
    BY <2>1, OneInputEnds, Inductive, PTL
<1>3. Spec /\ FairLoop /\ []DueStepsHappen /\ Quiet => <>[](~awaited.capture)
  <2>1. IInv => (~Capturing => ~awaited.capture)
    BY <1>1
  <2> QED
    BY <2>1, CapturesEnd, Inductive, PTL
<1> QED
  BY <1>2, <1>3 DEF FairSpec, Fairness

-----------------------------------------------------------------------------
(* Helpers that are to be reaped. *)

Owed(p)   == reaping[p] # "no"
TimeUp(p) == reaping[p] = "passed"

Launches == \E p \in Pids : StartFailsLate(p) \/ StartController(p)

\* The controller is dropped.
Drops == Present /\ ~Present'

\* What becomes of the helpers to be reaped when nobody starts or asks anything.
ReapingGoesOn ==
    /\ Present' => Present
    /\ \/ Drops
       \/ \A p \in Pids : /\ Owed(p)' => Owed(p)
                          /\ Owed(p)' /\ TimeUp(p) => TimeUp(p)'
                          /\ Owed(p)' /\ Falls => Falls' \/ <<Maintain>>_vars

\* So does what a step does not touch.
LEMMA ReapingSame ==
    ASSUME controller'.pid = controller.pid, reaping' = reaping, open' = open,
           timer' = timer \/ (timer = "armed" /\ timer' = "due")
    PROVE  ReapingGoesOn
PROOF
  BY DEF ReapingGoesOn, Present, Owed, TimeUp, Falls

\* A step of the realm that launches no helper at most drops the controller.
LEMMA RealmReapingGoesOn ==
    ASSUME IInv, RealmStep, ~Launches
    PROVE  ReapingGoesOn
PROOF
<1>0. open' = open
  BY DEF RealmStep, Launches, RealmStarts, StartFails, RealmRuns, HandOver, Pause, Resume,
         RealmStops, RealmEnds, RealmDestroyed, Observe, Unobserve, Grant, RevokeObserve,
         GrantPointer, RevokeInput, Alive
<1>1. CASE RealmStarts \/ StartFails \/ Resume \/ RealmDestroyed \/ Observe \/ Grant \/ GrantPointer
  BY <1>0, <1>1, ReapingSame
     DEF RealmStarts, StartFails, Resume, RealmDestroyed, Observe, Grant, GrantPointer, hostVars
<1>2. CASE HandOver \/ Pause \/ RealmStops \/ Unobserve \/ RevokeObserve \/ RevokeInput
  <2>1. observable \in BOOLEAN
    BY DEF IInv, TypeOK
  <2>2. PICK released \in BOOLEAN, cancelled \in BOOLEAN : Revoke(released, cancelled)
    BY <1>2, <2>1 DEF HandOver, Pause, RealmStops, Unobserve, RevokeObserve, RevokeInput
  <2> QED
    BY <1>0, <2>2, RevokeEffect, ReapingSame
<1>3. CASE RealmEnds
  <2>1. CASE Present
    <3>1. ~Present'
      BY <1>3, <2>1 DEF RealmEnds, StopController, Present, NoController
    <3> QED
      BY <2>1, <3>1 DEF ReapingGoesOn, Drops
  <2>2. CASE ~Present
    BY <1>0, <1>3, <2>2, ReapingSame DEF RealmEnds, StopController, hostVars
  <2> QED
    BY <2>1, <2>2
<1> QED
  BY <1>1, <1>2, <1>3 DEF RealmStep, Launches

\* Maintenance reaps whose time is up.
LEMMA MaintainReaps ==
    ASSUME Settling, Maintain
    PROVE  /\ Present' => Present
           /\ \/ Drops
              \/ \A p \in Pids : /\ Owed(p)' => Owed(p)
                                 /\ TimeUp(p) => ~Owed(p)'
PROOF
<1>0. reaping \in Reaps /\ controller \in ControllerRecord
  BY DEF Settling, IInv, TypeOK, Reaps
<1>1. CASE ExpireStartup
  BY <1>1 DEF ExpireStartup, StartupExpired, Drops, Present, NoController
<1>2. CASE Expire \/ RetryCapture
  <2>1. PICK states : Reap(states, reaping)
    BY <1>2 DEF Expire, RetryCapture, Maintained
  <2>2. \A p \in Pids : /\ Owed(p)' => Owed(p)
                        /\ TimeUp(p) => ~Owed(p)'
    BY <2>1 DEF Reap, Reapable, Owed, TimeUp
  <2>3. Present' => Present
    <3>1. CASE ~Present
      <4>1. controller = NoController
        BY <3>1 DEF Settling, IInv, NoneIsNone
      <4>2. ~controller.capture.overdue
        BY <4>1 DEF NoController, NoCapture
      <4>3. controller' = WithoutLate(controller)
        BY <1>2, <4>2 DEF Expire, RetryCapture, Maintained
      <4>4. WithoutLate(controller).pid = controller.pid
        BY <1>0, ReducedTyped
      <4> QED
        BY <3>1, <4>3, <4>4 DEF Present
    <3> QED
      BY <3>1
  <2> QED
    BY <2>2, <2>3
<1> QED
  BY <1>1, <1>2 DEF Maintain

\* While there is somebody to be reaped, the timer is armed or due.
LEMMA OwedIsTimed ==
    ASSUME Settling, NEW p \in Pids, Owed(p)
    PROVE  open /\ (Armed \/ Falls)
PROOF
<1>1. open
  BY DEF Settling, ClosedIsEmpty, Owed
<1>2. Work(controller, reaping)
  BY DEF Work, Owed
<1> QED
  BY <1>1, <1>2 DEF Settling, IInv, MaintenanceIsSet, TypeOK, Armed, Falls

\* Once nobody starts or asks, only a controller that is dropped adds to them.
LEMMA StepReapingGoesOn ==
    ASSUME Settling, Settling', [Next]_vars, [~NewRequests]_vars, [~Launches]_vars
    PROVE  ReapingGoesOn
PROOF
<1>0. IInv /\ controller \in ControllerRecord /\ reaping \in Reaps
  BY DEF Settling, IInv, TypeOK, Reaps
<1>1. CASE UNCHANGED vars
  BY <1>1, ReapingSame DEF vars, hostVars
<1>2. CASE RealmStep /\ ~Launches
  BY <1>0, <1>2, RealmReapingGoesOn
<1>3. CASE Read
  <2>1. CASE ReadEndOfFile \/ \E s \in Numbers : ReadUnexpected(s)
    BY <2>1 DEF ReadEndOfFile, ReadUnexpected, Unexpected, Reads, Detach, Drops, ReapingGoesOn,
                Present, NoController
  <2>2. ASSUME NEW c, NEW w, Took(c, w), c.pid = controller.pid
        PROVE  ReapingGoesOn
    BY <2>2, ReapingSame DEF Took, Alive
  <2>3. CASE ReadReady
    <3>1. [controller EXCEPT !.ready = TRUE].pid = controller.pid
      BY <1>0 DEF ControllerRecord
    <3> QED
      BY <2>2, <2>3, <3>1 DEF ReadReady
  <2>4. ASSUME NEW s \in Numbers, NEW type, ReadInputAnswer(type, s)
        PROVE  ReapingGoesOn
    <3>1. [controller EXCEPT !.inputs = @ \ {s}, !.late = @ \ {s}].pid = controller.pid
      BY <1>0 DEF ControllerRecord
    <3> QED
      BY <2>2, <2>4, <3>1 DEF ReadInputAnswer
  <2>5. ASSUME NEW s \in Numbers, NEW type, ReadCaptureAnswer(type, s)
        PROVE  ReapingGoesOn
    <3>1. [controller EXCEPT !.capture = NoCapture].pid = controller.pid
      BY <1>0 DEF ControllerRecord
    <3> QED
      BY <2>2, <2>5, <3>1 DEF ReadCaptureAnswer
  <2>6. ASSUME NEW s \in Numbers, NEW type, ReadStale(type, s)
        PROVE  ReapingGoesOn
    <3>1. [controller EXCEPT !.ignored = @ \ {s}].pid = controller.pid
      BY <1>0 DEF ControllerRecord
    <3> QED
      BY <2>2, <2>6, <3>1 DEF ReadStale
  <2> QED
    BY <1>3, <2>1, <2>3, <2>4, <2>5, <2>6 DEF Read
<1>4. CASE Maintain
  <2>1. /\ Present' => Present
        /\ \/ Drops
           \/ \A p \in Pids : /\ Owed(p)' => Owed(p)
                              /\ TimeUp(p) => ~Owed(p)'
    BY <1>4, MaintainReaps
  <2>2. \A p \in Pids : Owed(p)' => open'
    BY OwedIsTimed DEF Settling, ClosedIsEmpty, Owed
  <2>3. \A p \in Pids : Owed(p)' /\ Falls => Falls' \/ <<Maintain>>_vars
    BY <1>4, <2>2 DEF Falls, vars, hostVars
  <2> QED
    BY <2>1, <2>3 DEF ReapingGoesOn
<1>5. CASE Destroy
  BY <1>5 DEF Destroy, ReapingGoesOn, Present, NoController, Owed
<1>6. CASE Clock
  <2>1. CASE ~\E p \in Pids : ReapDeadlinePasses(p)
    BY <1>0, <1>6, <2>1, ReapingSame
       DEF Clock, StartupDeadlinePasses, InputDeadlinePasses, CaptureDeadlinePasses, TimerElapses,
           UpdateController, ControllerRecord, Alive
  <2>2. ASSUME NEW p \in Pids, ReapDeadlinePasses(p)
        PROVE  ReapingGoesOn
    BY <1>0, <2>2 DEF ReapDeadlinePasses, Alive, ReapingGoesOn, Present, Owed, TimeUp, Falls, Reaps
  <2> QED
    BY <2>1, <2>2
<1>7. ASSUME NEW p \in Pids, HelperStep(p)
      PROVE  ReapingGoesOn
  BY <1>7, ReapingSame DEF HelperStep, HelperReady, HelperReceives, HelperExits, Acknowledge,
                           CompleteFrame, UpdateHelper
<1> QED
  BY <1>1, <1>2, <1>3, <1>4, <1>5, <1>6, <1>7 DEF Next, NewRequests

\* Its deadline passes, the timer elapses, and maintenance reaps it.
LEMMA OneHelperIsReaped ==
    ASSUME NEW p \in Pids
    PROVE  Spec /\ FairLoop /\ FairReaping(p) /\ []DueStepsHappen /\ Quiet /\ <>[][~Launches]_vars
             => <>[](reaping[p] = "no")
PROOF
<1> DEFINE Fair == /\ Spec /\ FairLoop /\ FairReaping(p) /\ []DueStepsHappen /\ Quiet
                   /\ <>[][~Launches]_vars
<1>1. Settling /\ Settling' /\ [Next]_vars /\ [~NewRequests]_vars /\ [~Launches]_vars
        => /\ Present' => Present
           /\ \/ Present /\ ~Present'
              \/ /\ Owed(p)' => Owed(p)
                 /\ Owed(p)' /\ TimeUp(p) => TimeUp(p)'
                 /\ Owed(p)' /\ Falls => Falls' \/ <<Maintain>>_vars
  BY StepReapingGoesOn DEF ReapingGoesOn, Drops
<1>2. Fair => /\ []Settling /\ [][Next]_vars /\ []DueStepsHappen
              /\ <>[][~NewRequests]_vars /\ <>[][~Launches]_vars
  <2>1. Quiet => <>[][~NewRequests]_vars
    BY PTL DEF Quiet, NewRequests
  <2> QED
    BY <2>1, SettlingInvariance, PTL DEF Spec
<1>3. Fair => ([]<>~Falls \/ []<><<Maintain>>_vars)
  <2>1. DueStepsHappen => (Falls => ENABLED <<Maintain>>_vars)
    BY DEF DueStepsHappen
  <2> QED
    BY <2>1, PTL DEF FairLoop
<1>4. Fair => ([]<>~Armed \/ []<><<TimerElapses>>_vars)
  <2>1. DueStepsHappen => (Armed => ENABLED <<TimerElapses>>_vars)
    BY DEF DueStepsHappen
  <2> QED
    BY <2>1, PTL DEF FairLoop
<1>5. Fair => ([]<>~HelperWaits(p) \/ []<><<ReapDeadlinePasses(p)>>_vars)
  <2>1. DueStepsHappen => (HelperWaits(p) => ENABLED <<ReapDeadlinePasses(p)>>_vars)
    BY DEF DueStepsHappen
  <2> QED
    BY <2>1, PTL DEF FairReaping
<1>6. Settling /\ Owed(p) => TimeUp(p) \/ HelperWaits(p)
  BY DEF Settling, IInv, TypeOK, Owed, TimeUp, HelperWaits
<1>7. Settling /\ <<ReapDeadlinePasses(p)>>_vars => TimeUp(p)'
  BY DEF Settling, IInv, TypeOK, ReapDeadlinePasses, TimeUp
<1>8. Settling /\ TimeUp(p) /\ <<Maintain>>_vars => ~Owed(p)' \/ (Present /\ ~Present')
  BY MaintainReaps DEF Drops
<1>9. Settling /\ <<TimerElapses>>_vars => Falls'
  BY FairStepsEnd
<1>10. Settling /\ Owed(p) => Armed \/ Falls
  BY OwedIsTimed
<1>11. ~Owed(p) => reaping[p] = "no"
  BY DEF Owed
<1> HIDE DEF Fair
<1>12. Fair => <>[]Present \/ <>[]~Present
  BY <1>1, <1>2, PTL
<1>13. Fair => <>[]~Owed(p) \/ <>[]Owed(p)
  BY <1>1, <1>2, <1>12, PTL
<1>14. Fair /\ <>[]Owed(p) => <>[]TimeUp(p)
  BY <1>1, <1>2, <1>5, <1>6, <1>7, <1>12, PTL
<1>15. Fair /\ <>[]Owed(p) => []<>Falls
  BY <1>2, <1>4, <1>9, <1>10, PTL
<1>16. Fair /\ <>[]Owed(p) /\ []<>Falls => []<><<Maintain>>_vars
  BY <1>1, <1>2, <1>3, <1>12, PTL
<1>17. Fair /\ <>[]Owed(p) /\ <>[]TimeUp(p) /\ []<><<Maintain>>_vars => FALSE
  BY <1>2, <1>8, <1>12, PTL
<1> QED
  BY <1>11, <1>13, <1>14, <1>15, <1>16, <1>17, PTL DEF Fair

(***************************************************************************)
(* Once nobody asks for anything and no helper is launched any more, every *)
(* helper that the host hung up on is reaped, even one that hangs.         *)
(* ReapedWhenQuiet promises it also while realms go on starting: a launch  *)
(* sets the timer anew, but needs a process ID that is unused, and there   *)
(* are finitely many of them.                                              *)
(***************************************************************************)
THEOREM EachIsReapedWhenQuiet ==
    FairSpec /\ []DueStepsHappen /\ Quiet /\ <>[][~Launches]_vars
      => \A p \in Pids : <>[](reaping[p] = "no")
PROOF
  BY OneHelperIsReaped DEF FairSpec, Fairness
=============================================================================
