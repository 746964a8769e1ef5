------------------------- MODULE RealmControlClient -------------------------
(***************************************************************************)
(* The client of the realm control socket in the MCP server:               *)
(* CRealmControlClient (tools/realm-mcp-server/RealmControlClient.cpp).    *)
(*                                                                         *)
(* It makes one call at a time: it writes a request, reads one packet,     *)
(* which must be the response, and for input and captures goes on to read  *)
(* until the event that completes them.  Every read has a deadline of ten  *)
(* seconds, and the socket stays in use whatever happens: what a call that *)
(* gave up has not read is what the next ones read.                        *)
(*                                                                         *)
(* Request IDs and capture IDs are never given twice; instead of the       *)
(* number, a packet says whether it belongs to the call in hand.  Input is *)
(* numbered per realm, and these numbers are kept.  Packets and requests   *)
(* are read and written whole.                                             *)
(***************************************************************************)
EXTENDS Naturals, Sequences

CONSTANTS Names,        \* the names of realms
          MaxIgnored,   \* packets that a call skips when it gives up, 64 in the code
          MaxSent,      \* requests that find room on their way to the server
          MaxQueued     \* packets that find room on their way to the client

ASSUME ClientAssumption ==
    MaxIgnored \in Nat \ {0} /\ MaxSent \in Nat \ {0} /\ MaxQueued \in Nat \ {0}

VARIABLES
    socket,     \* "open", or "closed" by the server
    call,       \* the call in hand, see CallRecord
    sent,       \* requests the server has not read, in order
    received,   \* packets the client has not read, in order
    pending,    \* input and captures that the server has accepted
    late        \* history: some call has given up on an answer that still came

clientVars == <<socket, call, sent, received, pending, late>>

RealmStates == {"NONE", "CREATING", "RUNNING", "PAUSED", "STOPPING", "STOPPED", "FAILED"}
Methods == {"create", "place", "grant", "start", "info", "observe", "open", "stop", "destroy",
            "pause", "resume", "input", "capture"}

\* A response or an event; `state' is in the response to info, `sequence' in
\* those that are about input.
Packet == [is : {"response", "input", "capture"}, mine : BOOLEAN, ok : BOOLEAN,
           state : RealmStates, sequence : Nat]
Request == [method : Methods, realm : Names, mine : BOOLEAN]
Accepted == [is : {"input", "capture"}, realm : Names, sequence : Nat, mine : BOOLEAN]

\* A call waits for its response or for its event, or is done.
CallRecord == [stage : {"response", "event", "done"}, method : Methods, ok : BOOLEAN,
               state : RealmStates, sequence : Nat, ignored : 0 .. MaxIgnored - 1]

ClientTypeOK ==
    /\ socket \in {"open", "closed"}
    /\ call \in CallRecord
    /\ sent \in Seq(Request) /\ received \in Seq(Packet) /\ pending \in SUBSET Accepted
    /\ late \in BOOLEAN

Done(ok) == [stage |-> "done", method |-> "info", ok |-> ok, state |-> "NONE",
             sequence |-> 0, ignored |-> 0]

ClientInit ==
    /\ socket = "open" /\ call = Done(TRUE)
    /\ sent = <<>> /\ received = <<>> /\ pending = {}
    /\ late = FALSE

-----------------------------------------------------------------------------
(* Whatever is under way belongs to an earlier call once a new one begins. *)

Disowned(s) == [i \in DOMAIN s |-> [s[i] EXCEPT !.mine = FALSE]]
DisownedAll(S) == {[x EXCEPT !.mine = FALSE] : x \in S}

\* Nobody looks into an earlier call's response, which is to be recognised first.
Stale(p) == IF p.is = "response" THEN [p EXCEPT !.mine = FALSE, !.state = "NONE", !.sequence = 0]
            ELSE [p EXCEPT !.mine = FALSE]

\* request: the write fails at its deadline if there is no room, or at once if
\* the server has closed the connection; nothing is read from it any more.
Begin(method, realm) ==
    /\ call.stage = "done"
    /\ pending' = DisownedAll(pending)
    /\ IF socket = "open" /\ Len(sent) < MaxSent
       THEN /\ sent' = Append(Disowned(sent), [method |-> method, realm |-> realm, mine |-> TRUE])
            /\ call' = [Done(FALSE) EXCEPT !.stage = "response", !.method = method]
       ELSE sent' = Disowned(sent) /\ call' = Done(FALSE)
    /\ received' = IF socket = "open" THEN [i \in DOMAIN received |-> Stale(received[i])]
                    ELSE <<>>
    /\ UNCHANGED <<socket, late>>

-----------------------------------------------------------------------------
(* Reading. *)

\* The one packet that is read after a request is its successful response.
FaultyAnswered(p) == p.is = "response" /\ p.ok    \* fault: request_id is not compared
Answered(p) == p.is = "response" /\ p.mine /\ p.ok

\* A captured frame comes with a file descriptor.
HasDescriptor(p) == p.is = "capture" /\ p.ok

\* Input is found by its sequence alone.
Completes(p) ==
    \/ call.method = "input" /\ p.is = "input" /\ p.sequence = call.sequence
    \/ call.method = "capture" /\ p.is = "capture" /\ p.mine

\* The call after its response p.
FaultyAfterResponse(p) ==   \* fault: acceptance is taken for completion
    IF Answered(p) THEN [Done(TRUE) EXCEPT !.state = p.state] ELSE Done(FALSE)
AfterResponse(p) ==
    IF ~Answered(p) THEN Done(FALSE)
    ELSE IF call.method \in {"input", "capture"}
    THEN [call EXCEPT !.stage = "event", !.sequence = p.sequence]
    ELSE [Done(TRUE) EXCEPT !.state = p.state]

\* The call after packet p, while it waits for its event.
AfterEvent(p) ==
    IF Completes(p) THEN Done(p.ok)
    ELSE IF HasDescriptor(p) \/ call.ignored + 1 = MaxIgnored THEN Done(FALSE)
    ELSE [call EXCEPT !.ignored = @ + 1]

ReadPacket ==
    /\ call.stage # "done" /\ received # <<>>
    /\ call' = IF call.stage = "response" THEN AfterResponse(Head(received))
               ELSE AfterEvent(Head(received))
    /\ received' = Tail(received)
    /\ UNCHANGED <<socket, sent, pending, late>>

\* What the server still has to do for the call in hand, and what is on its way.
Coming == \/ \E i \in DOMAIN sent : sent[i].mine
          \/ \E i \in DOMAIN received : received[i].mine
          \/ \E x \in pending : x.mine

\* The deadline of a read passes - also with a packet there to read, when the
\* process itself was not run.
TimeOut ==
    /\ call.stage # "done"
    /\ call' = Done(FALSE)
    /\ late' = (late \/ Coming)
    /\ UNCHANGED <<socket, sent, received, pending>>

\* The connection is closed while the client waits.
HangUp ==
    /\ call.stage # "done" /\ socket = "closed" /\ received = <<>>
    /\ call' = Done(FALSE)
    /\ UNCHANGED <<socket, sent, received, pending, late>>

-----------------------------------------------------------------------------
(* The server, as far as its client sees it: see RealmControlServer.       *)

HasRoom == Len(received) < MaxQueued

\* It closes the connection, of a client that does not read for one; between
\* two calls the client would not see it.  An error that it sends first answers
\* no request and is left out.
Close ==
    /\ socket = "open" /\ call.stage # "done"
    /\ socket' = "closed" /\ sent' = <<>> /\ pending' = {}
    /\ UNCHANGED <<call, received, late>>

\* It answers the request that it read.
Respond(ok, state, sequence) ==
    /\ HasRoom
    /\ sent' = Tail(sent)
    /\ LET p == [is |-> "response", mine |-> Head(sent).mine, ok |-> ok,
                 state |-> state, sequence |-> sequence]
       IN received' = Append(received, IF p.mine THEN p ELSE Stale(p))
    /\ UNCHANGED <<socket, call, late>>

\* Accepted input or a capture ends; the event of a capture that failed is
\* dropped when there is no room.
Finish(x, ok) ==
    /\ x \in pending
    /\ pending' = pending \ {x}
    /\ \/ /\ HasRoom
          /\ received' = Append(received, [is |-> x.is, mine |-> x.mine, ok |-> ok,
                                           state |-> "NONE", sequence |-> x.sequence])
       \/ ~HasRoom /\ x.is = "capture" /\ ~ok /\ UNCHANGED received
    /\ UNCHANGED <<socket, call, sent, late>>

-----------------------------------------------------------------------------
(***************************************************************************)
(* A client that never gave up on an answer that still came is in step     *)
(* with the server: between two calls nothing is under way, and during one *)
(* only what belongs to it.                                                *)
(***************************************************************************)
InStep ==
    socket = "open" /\ ~late =>
        /\ call.stage = "done" => ~Coming /\ sent = <<>> /\ received = <<>> /\ pending = {}
        /\ \A i \in DOMAIN sent : sent[i].mine
        /\ \A i \in DOMAIN received : received[i].mine
        /\ \A x \in pending : x.mine
=============================================================================
