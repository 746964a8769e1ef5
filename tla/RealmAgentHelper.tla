-------------------------- MODULE RealmAgentHelper --------------------------
(***************************************************************************)
(* hyprland-realm-agent-controller (tools/realm-agent-controller): the     *)
(* helper process that turns messages of the host into virtual input and   *)
(* screen captures inside one realm.  The operators are functions from the *)
(* helper's record to the record after one turn of its loop;               *)
(* RealmInputController composes them with the host.                       *)
(*                                                                         *)
(* The control socket is the two queues `inbox' and `outbox'.  A result    *)
(* that does not fit into the socket waits in the helper, in order, so     *)
(* `outbox' holds both.  All keys and buttons are one: it is held or not.  *)
(***************************************************************************)
EXTENDS Integers, Sequences

CONSTANT Numbers      \* the sequence numbers that a request can carry

ASSUME NumbersAssumption == Numbers \subseteq Nat \ {0}

(***************************************************************************)
(* PRESS stands for the messages that leave a key or a button held, LIFT   *)
(* for those that let it go, TYPE for those that leave everything as it    *)
(* was.  CAPTURE is CAPTURE_REGION too.                                    *)
(***************************************************************************)
InputTypes == {"PRESS", "LIFT", "TYPE"}

Message(type, sequence) == [type |-> type, sequence |-> sequence]

\* The host only logs an error about a RELEASE_ALL, so it bears no number.
ReleaseAll == Message("RELEASE_ALL", 0)

Commands ==
    [type : InputTypes \cup {"CAPTURE", "CAPTURE_CANCEL"}, sequence : Numbers]
      \cup {ReleaseAll}

Answers ==
    [type : {"ERROR", "INPUT_APPLIED", "CAPTURE_READY"}, sequence : Numbers]
      \cup {Message("READY", 0)}

HelperRecord ==
    [status           : {"none", "starting", "serving", "exited"},
     connected        : BOOLEAN,        \* the host holds its end of the socket
     inbox            : Seq(Commands),
     outbox           : Seq(Answers),
     acknowledgements : Seq(Numbers),   \* wl_display_sync callbacks, in order
     capture          : Numbers \cup {0},
     held             : BOOLEAN]

NoHelper ==
    [status |-> "none", connected |-> FALSE, inbox |-> <<>>, outbox |-> <<>>,
     acknowledgements |-> <<>>, capture |-> 0, held |-> FALSE]

Launched == [NoHelper EXCEPT !.status = "starting", !.connected = TRUE]

Reported(h, type, sequence) ==
    [h EXCEPT !.outbox = Append(@, Message(type, sequence))]

(***************************************************************************)
(* The process ends: its devices are gone and with them what they held;    *)
(* results that were not sent yet are lost, those in the socket are not.   *)
(***************************************************************************)
Exited(h, sent) ==
    [NoHelper EXCEPT !.status = "exited", !.connected = h.connected,
                     !.outbox = SubSeq(h.outbox, 1, sent)]

Ready(h) == Reported([h EXCEPT !.status = "serving"], "READY", 0)

(***************************************************************************)
(* Input is put on the Wayland connection and acknowledged by a sync       *)
(* callback.  `flushed' says whether the connection took everything; if it *)
(* did not, an error is reported but the callback is still awaited.        *)
(***************************************************************************)
Held(h, type) ==
    CASE type = "PRESS" -> TRUE
      [] type \in {"LIFT", "RELEASE_ALL"} -> FALSE
      [] OTHER -> h.held

Applied(h, m) ==
    [h EXCEPT !.held = Held(h, m.type),
              !.acknowledgements = Append(@, m.sequence)]

\* startCapture refuses a second capture while one is in progress.
Captured(h, m) == [h EXCEPT !.capture = m.sequence]

Outcomes == {"flushed", "unflushed", "refused"}

\* What CWaylandInput::handle can come to for a message in this state.
Possible(h, m, outcome) ==
    CASE m.type = "TYPE"    -> TRUE
      [] m.type = "CAPTURE" -> (h.capture # 0) => (outcome = "refused")
      [] m.type = "CAPTURE_CANCEL" -> outcome = "flushed"   \* it flushes nothing
      [] OTHER              -> outcome # "refused"

FaultyReleased(h) == h   \* fault: what is held stays held

Released(h) == [h EXCEPT !.held = FALSE]

Handled(h, m, outcome) ==
    LET done ==
            IF outcome = "refused" THEN h
            ELSE CASE m.type \in InputTypes  -> Applied(h, m)
                   [] m.type = "RELEASE_ALL" -> Released(h)
                   [] m.type = "CAPTURE"     -> Captured(h, m)
                   [] m.type = "CAPTURE_CANCEL" ->
                         IF h.capture = m.sequence THEN [h EXCEPT !.capture = 0] ELSE h
        told == IF outcome = "flushed" \/ m.sequence \notin Numbers THEN done
                ELSE Reported(done, "ERROR", m.sequence)
    IN  [told EXCEPT !.inbox = Tail(@)]

\* The realm's compositor answers: the oldest callback, or the frame.
Acknowledged(h) ==
    Reported([h EXCEPT !.acknowledgements = Tail(@)],
             "INPUT_APPLIED", Head(h.acknowledgements))

FrameDone(h)   == Reported([h EXCEPT !.capture = 0], "CAPTURE_READY", h.capture)
FrameFailed(h) == Reported([h EXCEPT !.capture = 0], "ERROR", h.capture)

(***************************************************************************)
(* What is held once the helper has worked off its inbox: the last message *)
(* that presses or releases decides.                                       *)
(***************************************************************************)
HeldInTheEnd(h) ==
    LET decides == {n \in DOMAIN h.inbox :
                      h.inbox[n].type \in {"PRESS", "LIFT", "RELEASE_ALL"}}
    IN  IF decides = {} THEN h.held
        ELSE \E n \in decides :
                /\ \A k \in decides : k <= n
                /\ h.inbox[n].type = "PRESS"
=============================================================================
