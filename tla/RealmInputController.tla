------------------------ MODULE RealmInputController ------------------------
(***************************************************************************)
(* CRealmInputControllerManager (src/realm/RealmInputController.cpp) for   *)
(* one realm: the helper process it starts when the realm runs, the input  *)
(* and the captures it passes on, and the answers it owes for them.        *)
(*                                                                         *)
(* The realm itself is RealmContract, which RealmManager implements; the   *)
(* manager calls the listeners inside its handlers, so what they do is     *)
(* part of the contract's step.  Helper, compositor and clocks interleave. *)
(*                                                                         *)
(* A sequence number is the smallest one that nothing refers to any more:  *)
(* the code counts to 2^32 before it reuses one.  Rate limits are left     *)
(* out: a request that is refused changes nothing.                         *)
(***************************************************************************)
EXTENDS RealmAgentHelper

CONSTANTS Pids,        \* process IDs the kernel can give to helpers
          Capacity,    \* messages that fit into the socket to the helper
          Inputs,      \* the types of input the agent sends
          Grantable,   \* the capabilities that are ever granted
          Handling     \* the outcomes of handling a message, see Outcomes

ASSUME InputAssumption ==
    /\ Pids \subseteq Nat \ {0}
    /\ Capacity \in Nat \ {0}
    /\ Inputs \subseteq InputTypes
    /\ Grantable \subseteq {"observe", "pointer"}
    /\ Handling \subseteq Outcomes

VARIABLES
    phase, owner, observable, granted,   \* the realm: see RealmContract
    pointer,      \* the capability that the agent's input needs is granted
    open,         \* the controller manager exists
    controller,   \* the realm's entry in `controllers'
    failure,      \* the realm has an entry in `failures'
    helper,       \* [Pids -> HelperRecord]: the helper processes
    reaping,      \* `reaping': [Pids -> "no", "pending" or "passed"]
    timer,        \* the maintenance timer: "off", "armed" or "due"
    awaited,      \* history: the answers that requesters still wait for
    lost          \* history: the last RELEASE_ALL did not fit into the socket

realmVars == <<phase, owner, observable, granted, pointer>>
hostVars  == <<controller, failure, helper, reaping, timer, awaited, lost>>
vars      == <<realmVars, open, hostVars>>

Contract == INSTANCE RealmContract

-----------------------------------------------------------------------------
(* SController.  An input is `overdue' when its deadline has passed.       *)

NoCapture == [sequence |-> 0, attempts |-> 0, overdue |-> FALSE]

CaptureRecord ==
    [sequence : Numbers, attempts : 1..2, overdue : BOOLEAN] \cup {NoCapture}

ControllerRecord ==
    [pid     : Pids \cup {0},
     ready   : BOOLEAN,
     overdue : BOOLEAN,            \* startupDeadline
     inputs  : SUBSET Numbers,     \* pendingInputs
     late    : SUBSET Numbers,     \* those of them past their deadline
     capture : CaptureRecord,      \* pendingCapture
     ignored : SUBSET Numbers]     \* ignoredCaptureSequences

NoController ==
    [pid |-> 0, ready |-> FALSE, overdue |-> FALSE, inputs |-> {}, late |-> {},
     capture |-> NoCapture, ignored |-> {}]

Nobody == [inputs |-> {}, capture |-> FALSE]

TypeOK ==
    /\ phase \in {"idle", "starting", "running", "paused", "stopping"}
    /\ owner \in {"AGENT", "HUMAN", "NONE"}
    /\ {observable, granted, pointer, open, failure, lost} \subseteq BOOLEAN
    /\ controller \in ControllerRecord
    /\ helper \in [Pids -> HelperRecord]
    /\ reaping \in [Pids -> {"no", "pending", "passed"}]
    /\ timer \in {"off", "armed", "due"}
    /\ awaited \in [inputs : SUBSET Numbers, capture : BOOLEAN]

Init ==
    /\ Contract!Init
    /\ pointer = FALSE
    /\ open = TRUE
    /\ controller = NoController
    /\ failure = FALSE
    /\ helper = [p \in Pids |-> NoHelper]
    /\ reaping = [p \in Pids |-> "no"]
    /\ timer = "off"
    /\ awaited = Nobody
    /\ lost = FALSE

\* A step that the controller manager takes part in.
Alive == open /\ UNCHANGED open

Present   == controller.pid # 0
Capturing == controller.capture # NoCapture
Channel   == helper[controller.pid]

-----------------------------------------------------------------------------
(* The socket to the helper.  A send never blocks: it fails when the queue *)
(* is full or the helper is gone.                                          *)

Accepts(h) ==
    h.connected /\ h.status # "exited" /\ Len(h.inbox) < Capacity

Sent(h, m) == IF Accepts(h) THEN [h EXCEPT !.inbox = Append(@, m)] ELSE h

InFlight(h) ==
    {h.inbox[n].sequence : n \in DOMAIN h.inbox}
      \cup {h.outbox[n].sequence : n \in DOMAIN h.outbox}
      \cup {h.acknowledgements[n] : n \in DOMAIN h.acknowledgements}
      \cup {h.capture}

Free ==
    Numbers \ (controller.inputs \cup controller.ignored
                 \cup {controller.capture.sequence} \cup InFlight(Channel))

TakesSequence(s) == s \in Free /\ \A other \in Free : s <= other

\* Bound: a request leaves a number for the retry of a capture.
NumbersLeft == \E s, other \in Free : s # other

-----------------------------------------------------------------------------
(* cancelInputs, cancelCapture, releaseAll, stopController.                *)

WithoutInputs(c) == [c EXCEPT !.inputs = {}, !.late = {}]

WithoutCapture(c) ==
    IF c.capture = NoCapture THEN c
    ELSE [c EXCEPT !.capture = NoCapture, !.ignored = @ \cup {c.capture.sequence}]

CancelSent(h, c) ==
    IF c.capture = NoCapture THEN h
    ELSE Sent(h, Message("CAPTURE_CANCEL", c.capture.sequence))

\* The requesters of all that the controller has pending are answered.
AnswerInputs  == awaited.inputs \ controller.inputs
AnswerCapture == awaited.capture /\ ~Capturing

\* The listeners of a lease, a permission or a capability that ends.
Revoke(released, cancelled) ==
    IF Present
    THEN /\ controller' =
               LET c == IF released THEN WithoutInputs(controller) ELSE controller
               IN  IF cancelled THEN WithoutCapture(c) ELSE c
         /\ helper' = [helper EXCEPT ![controller.pid] =
               LET h == IF released THEN Sent(@, ReleaseAll) ELSE @
               IN  IF cancelled THEN CancelSent(h, controller) ELSE h]
         /\ awaited' =
               [inputs  |-> IF released THEN AnswerInputs ELSE awaited.inputs,
                capture |-> IF cancelled THEN AnswerCapture ELSE awaited.capture]
         /\ lost' = IF released THEN ~Accepts(Channel) ELSE lost
         /\ UNCHANGED <<failure, reaping, timer>>
    ELSE UNCHANGED hostVars

\* stopController: the last words, SIGTERM, and the helper is to be reaped.
Stopped(h) == [CancelSent(Sent(h, ReleaseAll), controller) EXCEPT !.connected = FALSE]

FaultyStopController ==   \* fault: the helper is not queued for reaping
    IF Present
    THEN /\ controller' = NoController
         /\ helper' = [helper EXCEPT ![controller.pid] = Stopped(@)]
         /\ awaited' = [inputs |-> AnswerInputs, capture |-> AnswerCapture]
         /\ UNCHANGED <<failure, reaping, timer, lost>>
    ELSE UNCHANGED hostVars

StopController ==
    IF Present
    THEN /\ controller' = NoController
         /\ helper' = [helper EXCEPT ![controller.pid] = Stopped(@)]
         /\ reaping' = [reaping EXCEPT ![controller.pid] = "pending"]
         /\ timer' = "armed"
         /\ awaited' = [inputs |-> AnswerInputs, capture |-> AnswerCapture]
         /\ UNCHANGED <<failure, lost>>
    ELSE UNCHANGED hostVars

-----------------------------------------------------------------------------
(* The realm's steps, each with what the listeners make of it.             *)

RealmStarts == Contract!Start /\ Alive /\ UNCHANGED <<pointer, hostVars>>

(***************************************************************************)
(* handleLifecycle(STARTED), startController.  The realm had no controller *)
(* before.  A start may fail before the fork, after it, or succeed.        *)
(***************************************************************************)
RealmRuns == Contract!BecomeReady /\ Alive /\ UNCHANGED pointer

StartFails ==
    /\ RealmRuns
    /\ failure' = TRUE
    /\ UNCHANGED <<controller, helper, reaping, timer, awaited, lost>>

Fork(p) == helper[p].status = "none" /\ reaping[p] = "no"

StartFailsLate(p) ==
    /\ RealmRuns
    /\ Fork(p)
    /\ failure' = TRUE
    /\ helper' = [helper EXCEPT ![p] = [Launched EXCEPT !.connected = FALSE]]
    /\ reaping' = [reaping EXCEPT ![p] = "pending"]
    /\ timer' = "armed"
    /\ UNCHANGED <<controller, awaited, lost>>

StartController(p) ==
    /\ RealmRuns
    /\ Fork(p)
    /\ failure' = FALSE
    /\ controller' = [NoController EXCEPT !.pid = p]
    /\ helper' = [helper EXCEPT ![p] = Launched]
    /\ timer' = "armed"
    /\ lost' = FALSE
    /\ UNCHANGED <<reaping, awaited>>

FaultyHandOver ==   \* fault: the pending inputs are not cancelled
    /\ Contract!HandOver
    /\ Alive
    /\ UNCHANGED <<pointer, hostVars>>

HandOver ==
    /\ Contract!HandOver
    /\ Revoke(owner' # "AGENT", FALSE)
    /\ Alive
    /\ UNCHANGED pointer

Pause ==
    /\ Contract!Pause
    /\ Revoke(TRUE, TRUE)
    /\ Alive
    /\ UNCHANGED pointer

Resume == Contract!Resume /\ Alive /\ UNCHANGED <<pointer, hostVars>>

\* Stopping emits no lifecycle event, only the end of lease and permission.
RealmStops ==
    /\ Contract!End
    /\ phase' = "stopping"
    /\ Revoke(owner # "NONE", observable)
    /\ Alive
    /\ UNCHANGED pointer

\* STOPPED or FAILED.  What lease and permission sent before the controller
\* is stopped changes nothing any more: the helper is told to exit.
RealmEnds ==
    /\ Contract!End
    /\ phase' = "idle"
    /\ StopController
    /\ Alive
    /\ UNCHANGED pointer

\* DESTROYED, of a realm that has no controller; another realm takes its place.
RealmDestroyed ==
    /\ phase = "idle"
    /\ failure' = FALSE
    /\ Alive
    /\ UNCHANGED <<realmVars, controller, helper, reaping, timer, awaited, lost>>

Observe == Contract!Observe /\ Alive /\ UNCHANGED <<pointer, hostVars>>

Unobserve ==
    /\ Contract!Unobserve
    /\ Revoke(FALSE, observable)
    /\ Alive
    /\ UNCHANGED pointer

Grant ==
    /\ "observe" \in Grantable
    /\ Contract!Grant
    /\ Alive
    /\ UNCHANGED <<pointer, hostVars>>

RevokeObserve ==
    /\ granted
    /\ Contract!Revoke
    /\ Revoke(FALSE, TRUE)
    /\ Alive
    /\ UNCHANGED pointer

GrantPointer ==
    /\ "pointer" \in Grantable
    /\ pointer' = TRUE
    /\ Alive
    /\ UNCHANGED <<phase, owner, observable, granted, hostVars>>

\* Any capability but observe: the one that the input needs or another one.
RevokeInput ==
    /\ pointer' \in {FALSE, pointer}
    /\ Revoke(TRUE, FALSE)
    /\ Alive
    /\ UNCHANGED <<phase, owner, observable, granted>>

RealmStep ==
    \/ RealmStarts \/ StartFails
    \/ \E p \in Pids : StartFailsLate(p) \/ StartController(p)
    \/ HandOver \/ Pause \/ Resume
    \/ RealmStops \/ RealmEnds \/ RealmDestroyed
    \/ Observe \/ Unobserve \/ Grant \/ RevokeObserve \/ GrantPointer \/ RevokeInput

-----------------------------------------------------------------------------
(* sendInput and requestCapture; a request that is refused is no step.     *)

MayInput ==
    /\ phase = "running"
    /\ owner = "AGENT"
    /\ pointer
    /\ Present
    /\ controller.ready

SendInput(type) ==
    /\ MayInput
    /\ Accepts(Channel)
    /\ NumbersLeft
    /\ \E s \in Free :
          /\ TakesSequence(s)
          /\ controller' = [controller EXCEPT !.inputs = @ \cup {s}]
          /\ helper' = [helper EXCEPT ![controller.pid] = Sent(@, Message(type, s))]
          /\ awaited' = [awaited EXCEPT !.inputs = @ \cup {s}]
    /\ timer' = "armed"
    /\ Alive
    /\ UNCHANGED <<realmVars, failure, reaping, lost>>

MayCapture ==
    /\ phase = "running"
    /\ granted
    /\ observable
    /\ Present
    /\ controller.ready
    /\ ~Capturing

RequestCapture ==
    /\ MayCapture
    /\ Accepts(Channel)
    /\ NumbersLeft
    /\ \E s \in Free :
          /\ TakesSequence(s)
          /\ controller' = [controller EXCEPT !.capture =
                               [sequence |-> s, attempts |-> 1, overdue |-> FALSE]]
          /\ helper' = [helper EXCEPT ![controller.pid] = Sent(@, Message("CAPTURE", s))]
    /\ awaited' = [awaited EXCEPT !.capture = TRUE]
    /\ timer' = "armed"
    /\ Alive
    /\ UNCHANGED <<realmVars, failure, reaping, lost>>

-----------------------------------------------------------------------------
(* readController, one message at a time, and handleControllerEvent.       *)

FaultyDetach ==   \* fault: neither the requesters nor the failure are served
    /\ controller' = NoController
    /\ helper' = [helper EXCEPT ![controller.pid].connected = FALSE]
    /\ reaping' = [reaping EXCEPT ![controller.pid] = "pending"]
    /\ timer' = "armed"
    /\ Alive
    /\ UNCHANGED <<realmVars, failure, awaited, lost>>

Detach ==
    /\ controller' = NoController
    /\ failure' = TRUE
    /\ helper' = [helper EXCEPT ![controller.pid] =
                    [CancelSent(@, controller) EXCEPT !.connected = FALSE]]
    /\ reaping' = [reaping EXCEPT ![controller.pid] = "pending"]
    /\ timer' = "armed"
    /\ awaited' = [inputs |-> AnswerInputs, capture |-> AnswerCapture]
    /\ Alive
    /\ UNCHANGED <<realmVars, lost>>

Reads(type, s) ==
    /\ Present
    /\ Channel.outbox # <<>>
    /\ Head(Channel.outbox) = Message(type, s)

\* The message is taken off the socket; the controller and the requesters
\* change as given, nothing else does.
Took(c, waiting) ==
    /\ controller' = c
    /\ awaited' = waiting
    /\ helper' = [helper EXCEPT ![controller.pid].outbox = Tail(@)]
    /\ Alive
    /\ UNCHANGED <<realmVars, failure, reaping, timer, lost>>

ReadReady ==
    /\ Reads("READY", 0)
    /\ Took([controller EXCEPT !.ready = TRUE], awaited)

\* A status whose number nobody waits for; an ignored number is forgotten.
ReadStale(type, s) ==
    /\ Reads(type, s)
    /\ IF type = "INPUT_APPLIED" THEN s \notin controller.inputs
       ELSE \/ s \in controller.ignored
            \/ type = "ERROR" /\ s \notin controller.inputs \cup {controller.capture.sequence}
    /\ Took(IF type = "INPUT_APPLIED" THEN controller
            ELSE [controller EXCEPT !.ignored = @ \ {s}], awaited)

ReadInputAnswer(type, s) ==
    /\ Reads(type, s)
    /\ type = "ERROR" => s \notin controller.ignored
    /\ s \in controller.inputs
    /\ Took([controller EXCEPT !.inputs = @ \ {s}, !.late = @ \ {s}],
            [awaited EXCEPT !.inputs = @ \ {s}])

ReadCaptureAnswer(type, s) ==
    /\ Reads(type, s)
    /\ s \notin controller.ignored
    /\ Capturing /\ controller.capture.sequence = s
    /\ Took([controller EXCEPT !.capture = NoCapture], [awaited EXCEPT !.capture = FALSE])

\* A frame that is neither awaited nor to be ignored.
Unexpected(s) ==
    /\ Reads("CAPTURE_READY", s)
    /\ s \notin controller.ignored
    /\ s # controller.capture.sequence

ReadUnexpected(s) == Unexpected(s) /\ Detach

\* The helper closed its end.  What it sent is read first, but only 16 messages
\* of it, and none if it left some of the host's messages unread.
ReadEndOfFile ==
    /\ Present
    /\ Channel.status = "exited"
    /\ Detach

Read ==
    \/ ReadReady
    \/ ReadEndOfFile
    \/ \E s \in Numbers :
          \/ \E type \in {"ERROR", "INPUT_APPLIED"} : ReadInputAnswer(type, s)
          \/ \E type \in {"ERROR", "CAPTURE_READY"} : ReadCaptureAnswer(type, s)
          \/ \E type \in {"ERROR", "INPUT_APPLIED", "CAPTURE_READY"} : ReadStale(type, s)
          \/ ReadUnexpected(s)

-----------------------------------------------------------------------------
(* dispatchMaintenance, the callback of the maintenance timer.  A clock    *)
(* that has run out is `overdue', `late' or "passed".                      *)

\* reapProcesses: waitpid reports an exit; a helper past its deadline is killed.
FaultyReapable(states, reaps) ==   \* fault: a helper that hangs is waited for
    {p \in Pids : reaps[p] # "no" /\ states[p].status = "exited"}

Reapable(states, reaps) ==
    {p \in Pids : reaps[p] # "no" /\ (states[p].status = "exited" \/ reaps[p] = "passed")}

Reap(states, reaps) ==
    /\ helper' = [p \in Pids |->
                     IF p \in Reapable(states, reaps) THEN NoHelper ELSE states[p]]
    /\ reaping' = [p \in Pids |->
                      IF p \in Reapable(states, reaps) THEN "no" ELSE reaps[p]]

WithoutLate(c) == [c EXCEPT !.inputs = @ \ c.late, !.late = {}]

\* The timer goes on while there is something to watch.
Work(c, reaps) ==
    \/ \E p \in Pids : reaps[p] # "no"
    \/ c.pid # 0 /\ (~c.ready \/ c.inputs # {} \/ c.capture # NoCapture)

\* The controller is c, the helpers are `states'; now the dead are reaped.
FaultyRearmed(c, reaps) ==   \* fault: only a startup is watched
    IF c.pid # 0 /\ ~c.ready THEN "armed" ELSE "off"

Rearmed(c, reaps) == IF Work(c, reaps) THEN "armed" ELSE "off"

Maintained(c, states) ==
    /\ controller' = c
    /\ Reap(states, reaping)
    /\ timer' = Rearmed(c, reaping')
    /\ awaited' = [inputs  |-> awaited.inputs \ controller.late,
                   capture |-> awaited.capture /\ (Capturing => c.capture # NoCapture)]
    /\ Alive
    /\ UNCHANGED <<realmVars, failure, lost>>

Due == timer = "due"

StartupExpired == Present /\ ~controller.ready /\ controller.overdue

\* A capture that is overdue for the second time is given up.
Expire ==
    /\ Due /\ ~StartupExpired
    /\ controller.capture.overdue => controller.capture.attempts = 2
    /\ IF controller.capture.overdue
       THEN Maintained(WithoutCapture(WithoutLate(controller)),
                       [helper EXCEPT ![controller.pid] = CancelSent(@, controller)])
       ELSE Maintained(WithoutLate(controller), helper)

\* The first time it is cancelled and requested again with a new number.
FaultyRetried(s) ==   \* fault: the old number is not ignored
    [controller EXCEPT !.capture = [sequence |-> s, attempts |-> 2, overdue |-> FALSE]]

Retried(s) ==
    [controller EXCEPT
        !.ignored = @ \cup {controller.capture.sequence},
        !.capture = [sequence |-> s, attempts |-> 2, overdue |-> FALSE]]

RetryCapture ==
    /\ Due /\ ~StartupExpired
    /\ controller.capture.overdue
    /\ controller.capture.attempts = 1
    /\ \E s \in Free :
          LET cancelled == CancelSent(Channel, controller)
              again     == WithoutLate(Retried(s))
          IN  /\ TakesSequence(s)
              /\ Maintained(IF Accepts(cancelled) THEN again ELSE WithoutCapture(again),
                            [helper EXCEPT ![controller.pid] =
                               Sent(cancelled, Message("CAPTURE", s))])

\* A helper that is not ready at its deadline is stopped.
ExpireStartup ==
    /\ Due /\ StartupExpired
    /\ failure' = TRUE
    /\ controller' = NoController
    /\ Reap([helper EXCEPT ![controller.pid] = Stopped(@)],
            [reaping EXCEPT ![controller.pid] = "pending"])
    /\ timer' = "armed"
    /\ Alive
    /\ UNCHANGED <<realmVars, awaited, lost>>

Maintain == Expire \/ RetryCapture \/ ExpireStartup

\* The destructor: the controller is stopped and every helper is reaped.
Destroy ==
    /\ open
    /\ open' = FALSE
    /\ controller' = NoController
    /\ helper' = [p \in Pids |-> NoHelper]
    /\ reaping' = [p \in Pids |-> "no"]
    /\ timer' = "off"
    /\ awaited' = [inputs |-> AnswerInputs, capture |-> AnswerCapture]
    /\ UNCHANGED <<realmVars, failure, lost>>

-----------------------------------------------------------------------------
(* Clocks. *)

UpdateController(c) ==
    /\ controller' = c
    /\ Alive
    /\ UNCHANGED <<realmVars, failure, helper, reaping, timer, awaited, lost>>

StartupDeadlinePasses ==
    /\ Present /\ ~controller.ready /\ ~controller.overdue
    /\ UpdateController([controller EXCEPT !.overdue = TRUE])

InputDeadlinePasses(s) ==
    /\ s \in controller.inputs \ controller.late
    /\ UpdateController([controller EXCEPT !.late = @ \cup {s}])

CaptureDeadlinePasses ==
    /\ Capturing /\ ~controller.capture.overdue
    /\ UpdateController([controller EXCEPT !.capture.overdue = TRUE])

ReapDeadlinePasses(p) ==
    /\ reaping[p] = "pending"
    /\ reaping' = [reaping EXCEPT ![p] = "passed"]
    /\ Alive
    /\ UNCHANGED <<realmVars, controller, failure, helper, timer, awaited, lost>>

\* 50 ms after the timer was last set; setting it again starts them anew.
TimerElapses ==
    /\ timer = "armed"
    /\ timer' = "due"
    /\ Alive
    /\ UNCHANGED <<realmVars, controller, failure, helper, reaping, awaited, lost>>

Clock ==
    \/ StartupDeadlinePasses
    \/ \E s \in Numbers : InputDeadlinePasses(s)
    \/ CaptureDeadlinePasses
    \/ \E p \in Pids : ReapDeadlinePasses(p)
    \/ TimerElapses

-----------------------------------------------------------------------------
(* The helper and the compositor of the realm. *)

UpdateHelper(p, h) ==
    /\ helper' = [helper EXCEPT ![p] = h]
    /\ UNCHANGED <<realmVars, open, controller, failure, reaping, timer, awaited, lost>>

HelperReady(p) ==
    /\ helper[p].status = "starting"
    /\ helper[p].connected
    /\ UpdateHelper(p, Ready(helper[p]))

\* One turn of the helper's loop; it is the last one when the host hung up.
HelperReceives(p, outcome) ==
    LET h == helper[p]
    IN  /\ h.status = "serving"
        /\ h.inbox # <<>>
        /\ Possible(h, Head(h.inbox), outcome)
        /\ UpdateHelper(p, IF h.connected THEN Handled(h, Head(h.inbox), outcome)
                           ELSE Exited(h, 0))

\* It exits at SIGTERM, at the end of a connection, or by crashing.
HelperExits(p) ==
    /\ helper[p].status \in {"starting", "serving"}
    /\ \E sent \in 0..Len(helper[p].outbox) : UpdateHelper(p, Exited(helper[p], sent))

\* A paused realm's compositor is stopped; its helper is not.
CompositorActs(p) ==
    /\ phase # "paused"
    /\ helper[p].status = "serving"

Acknowledge(p) ==
    /\ CompositorActs(p)
    /\ helper[p].acknowledgements # <<>>
    /\ UpdateHelper(p, Acknowledged(helper[p]))

CompleteFrame(p) ==
    /\ CompositorActs(p)
    /\ helper[p].capture # 0
    /\ \/ UpdateHelper(p, FrameDone(helper[p]))
       \/ UpdateHelper(p, FrameFailed(helper[p]))

HelperStep(p) ==
    \/ HelperReady(p)
    \/ \E outcome \in Handling : HelperReceives(p, outcome)
    \/ HelperExits(p)
    \/ Acknowledge(p)
    \/ CompleteFrame(p)

-----------------------------------------------------------------------------
RequestInput == \E type \in Inputs : SendInput(type)

Next ==
    \/ RealmStep
    \/ RequestInput \/ RequestCapture
    \/ Read
    \/ Maintain \/ Destroy
    \/ Clock
    \/ \E p \in Pids : HelperStep(p)

Spec == Init /\ [][Next]_vars

(***************************************************************************)
(* Fairness: the event loop reads the socket and runs a timer that is due, *)
(* and clocks advance.  The helper may hang, and requests need not come;   *)
(* but requests that keep coming keep setting the timer anew.              *)
(***************************************************************************)
FairLoop ==
    /\ WF_vars(Read)
    /\ WF_vars(Maintain)
    /\ WF_vars(TimerElapses)
    /\ WF_vars(StartupDeadlinePasses)
    /\ WF_vars(CaptureDeadlinePasses)

FairInput(s)  == WF_vars(InputDeadlinePasses(s))
FairReaping(p) == WF_vars(ReapDeadlinePasses(p))

Fairness ==
    FairLoop /\ (\A s \in Numbers : FairInput(s)) /\ (\A p \in Pids : FairReaping(p))

FairSpec == Spec /\ Fairness

-----------------------------------------------------------------------------
(* Properties. *)

(***************************************************************************)
(* Nothing is pending that the realm would refuse now: an input only while *)
(* the agent owns the input of a running realm and has the capability, a   *)
(* capture only while a running realm may be observed.  Lease, permission, *)
(* capability and phase end in different handlers; each has to cancel.     *)
(***************************************************************************)
PendingIsPermitted ==
    /\ controller.inputs # {} => MayInput
    /\ Capturing => phase = "running" /\ granted /\ observable /\ controller.ready

(***************************************************************************)
(* Nobody waits in vain: the answers that requesters wait for are those    *)
(* that the controller still has pending, whatever has happened to the     *)
(* helper, the realm or the controller since the request.                  *)
(***************************************************************************)
AnswersAreOwed ==
    /\ awaited.inputs = controller.inputs
    /\ awaited.capture <=> Capturing

(***************************************************************************)
(* A realm that runs or is paused either has a controller or a recorded    *)
(* failure to tell to those who ask, never both and never neither; no      *)
(* other realm that is settled has a controller.                           *)
(***************************************************************************)
ControlledOrFailed ==
    open =>
      /\ phase \in {"running", "paused"} => (Present <=> ~failure)
      /\ Present => phase \in {"running", "paused", "stopping"}

(***************************************************************************)
(* No helper is forgotten: a process that exists is the controller's, or   *)
(* it is to be reaped and then nobody listens to it any more.              *)
(***************************************************************************)
HelpersAreKept ==
    \A p \in Pids : helper[p].status # "none" =>
        IF helper[p].connected THEN controller.pid = p ELSE reaping[p] # "no"

(***************************************************************************)
(* While something waits for a deadline the maintenance timer is set.      *)
(***************************************************************************)
MaintenanceIsSet == open /\ Work(controller, reaping) => timer # "off"

(***************************************************************************)
(* A key or button that is held, or will be once the helper has worked off *)
(* its inbox, is held under the agent's lease: unless the RELEASE_ALL that *)
(* should have let it go did not fit into the socket.                      *)
(***************************************************************************)
Leased == phase = "running" /\ owner = "AGENT" /\ pointer

HeldUnderLease ==
    Present /\ HeldInTheEnd(Channel) => Leased \/ lost

\* What docs/agent-realms-milestone-7.md says: without the exception.
ReleasedAtTakeover ==
    Present /\ HeldInTheEnd(Channel) => Leased

\* The captures whose frame the helper may still send.
Underway ==
    {Channel.capture} \cup
       {Channel.outbox[n].sequence : n \in
          {k \in DOMAIN Channel.outbox : Channel.outbox[k].type = "CAPTURE_READY"}}

(***************************************************************************)
(* A frame that is under way is awaited or known to be ignored, so that it *)
(* is never taken for a fault of the helper: as long as the connection of  *)
(* the helper to the realm's compositor takes all that is written to it.   *)
(***************************************************************************)
FramesAreExpected ==
    Present => Underway \subseteq {0, controller.capture.sequence} \cup controller.ignored

\* What docs/agent-realms-milestone-8.md says of late descriptors: a capture
\* that was cancelled is remembered until no frame of it can come any more.
LateFramesAreIgnored ==
    [][\A s \in controller.ignored \ controller'.ignored :
          controller'.pid = controller.pid => s \notin Underway']_vars

(***************************************************************************)
(* Whoever asked is answered once the requests pause for long enough: the  *)
(* maintenance timer ends what neither the helper nor the realm ended, so  *)
(* that in the end nobody waits.                                           *)
(***************************************************************************)
Quiet == <>[][~(RequestInput \/ RequestCapture)]_vars

AnsweredWhenQuiet == Quiet => <>[](awaited = Nobody)

(***************************************************************************)
(* A helper that was stopped or dropped is reaped, even if it hangs: of no *)
(* process ID is it true for ever that its helper is to be reaped.         *)
(***************************************************************************)
ReapedWhenQuiet == Quiet => \A p \in Pids : []<>(reaping[p] = "no")

\* What docs/agent-realms-milestone-8.md says: once the realm itself changes no
\* more a capture completes or times out, whatever else is requested.
Settled == <>[][~RealmStep]_vars

CapturesComplete == Settled => (awaited.capture ~> ~awaited.capture)
=============================================================================
