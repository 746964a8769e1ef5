------------------------- MODULE RealmControlServer -------------------------
(***************************************************************************)
(* CRealmControlServer (src/realm/RealmControlServer.cpp): the connections *)
(* of the clients that control realms over a Unix socket, the frames they  *)
(* send and are sent, the limits of both directions, and the delayed       *)
(* results of input and capture requests.                                  *)
(*                                                                         *)
(* The host runs one handler at a time, and `turn' is the one that runs    *)
(* for a client; the peers, other processes, act at any moment, also       *)
(* between two system calls of a handler.  What a frame says is decided    *)
(* when it is looked at, so that frames that wait need only be counted. A  *)
(* size is counted in units of which an error and the smallest response    *)
(* and event take one.                                                     *)
(***************************************************************************)
EXTENDS Integers, FiniteSets, Sequences

CONSTANTS Clients,      \* the connections; each is a new one with a new ID
          Inputs,       \* what an accepted input is known by: realm, sequence
          Captures,     \* the IDs of captures
          MaxClients,   \* options.maxClients
          MaxFrame,     \* options.maxMessageSize and the header of a frame
          MaxQueued,    \* options.maxQueuedOutput
          MaxRequests,  \* MAX_REQUESTS_PER_TICK
          SocketBound   \* bound: the frames a peer sends ahead of the server

NoClient == 0
Requests == Inputs \cup Captures

ASSUME ControlAssumption ==
    /\ NoClient \notin Clients
    /\ Inputs \cap Captures = {} /\ IsFiniteSet(Requests)
    /\ MaxClients \in Nat \ {0} /\ MaxRequests \in Nat \ {0}
    /\ MaxFrame \in Nat \ {0} /\ MaxQueued \in Nat /\ MaxFrame =< MaxQueued
    /\ SocketBound \in Nat \ {0}

VARIABLES
    status,     \* "none" (not connected yet), "open", "closing"
                \* (closeAfterWrite) or "gone"
    ended,      \* the peer has shut down its side or closed the connection
    socket,     \* how many frames the server has not received completely
    input,      \* how many complete frames are in SClient::input
    partial,    \* the first bytes of the next frame are in SClient::input too
    output,     \* what is left to send of each frame of SClient::output
    queued,     \* queuedOutput
    watched,    \* the events the event loop watches the connection for
    turn,       \* the handler that runs: see Idle and Dispatch
    owed,       \* the requests the input controller has accepted and not
                \* answered, and who asked; else NoClient
    pending,    \* pendingInputs and pendingCaptures: a client or NoClient
    listening   \* the server has not been shut down

connection == <<status, ended, watched>>
incoming   == <<socket, input, partial>>
outgoing   == <<output, queued>>
results    == <<owed, pending>>
vars       == <<connection, incoming, outgoing, results, turn, listening>>

-----------------------------------------------------------------------------
Connected == {c \in Clients : status[c] \in {"open", "closing"}}

\* The turn of a client: `write' says whether its event is also "writable" and
\* `hangup' whether the connection has hung up; `processed' counts requests,
\* `last' says that the reads are used up, and `victims' are the requests that
\* the request in progress still has to cancel.
NoTurn == [client |-> NoClient, stage |-> "idle", write |-> FALSE, hangup |-> FALSE,
           processed |-> 0, last |-> FALSE, victims |-> {}]
Idle == turn = NoTurn
Stage == {"idle", "frames", "cancel", "read", "write", "finish"}
Turn == [client : Clients \cup {NoClient}, stage : Stage, write : BOOLEAN, hangup : BOOLEAN,
         processed : 0 .. MaxRequests, last : BOOLEAN, victims : SUBSET Requests]

TypeOK ==
    /\ status \in [Clients -> {"none", "open", "closing", "gone"}]
    /\ ended \in [Clients -> BOOLEAN]
    /\ socket \in [Clients -> 0 .. SocketBound] /\ input \in [Clients -> Nat]
    /\ partial \in [Clients -> BOOLEAN]
    /\ output \in [Clients -> Seq(1 .. MaxFrame)]
    /\ queued \in [Clients -> Int]
    /\ watched \in [Clients -> SUBSET {"in", "out"}]
    /\ turn \in Turn
    /\ owed \in [Requests -> Clients \cup {NoClient}]
    /\ pending \in [Requests -> Clients \cup {NoClient}]
    /\ listening \in BOOLEAN

Init ==
    /\ status = [c \in Clients |-> "none"] /\ ended = [c \in Clients |-> FALSE]
    /\ socket = [c \in Clients |-> 0] /\ input = [c \in Clients |-> 0]
    /\ partial = [c \in Clients |-> FALSE]
    /\ output = [c \in Clients |-> <<>>] /\ queued = [c \in Clients |-> 0]
    /\ watched = [c \in Clients |-> {}]
    /\ turn = NoTurn
    /\ owed = [r \in Requests |-> NoClient] /\ pending = [r \in Requests |-> NoClient]
    /\ listening = TRUE

-----------------------------------------------------------------------------
(* The parts of the handlers. *)

\* updateClientEvents, of a client whose status and output may be new.
Watch(c) == watched' = [watched EXCEPT ![c] =
    (IF status'[c] = "open" THEN {"in"} ELSE {}) \cup (IF output'[c] # <<>> THEN {"out"} ELSE {})]

\* queueResponse: it takes a frame of `size' or refuses it.
Fits(c, size) == size =< MaxFrame /\ size =< MaxQueued - queued[c]
Queue(c, size) ==
    /\ output' = [output EXCEPT ![c] = Append(@, size)]
    /\ queued' = [queued EXCEPT ![c] = @ + size]

\* queueTerminalError: the error is sent if there is room for it.
FaultyTerminal(c) ==    \* fault: it is queued past the limit
    /\ Queue(c, 1)
    /\ status' = [status EXCEPT ![c] = "closing"]
    /\ input' = [input EXCEPT ![c] = 0]
    /\ partial' = [partial EXCEPT ![c] = FALSE]
Terminal(c) ==
    /\ IF Fits(c, 1) THEN Queue(c, 1) ELSE UNCHANGED outgoing
    /\ status' = [status EXCEPT ![c] = "closing"]
    /\ input' = [input EXCEPT ![c] = 0]
    /\ partial' = [partial EXCEPT ![c] = FALSE]

\* handleInputResult and handleCaptureResult of request r, an event of `size'.
Deliver(r, failed, size) ==
    LET c == pending[r]
    IN  /\ owed' = [owed EXCEPT ![r] = NoClient]
        /\ pending' = [pending EXCEPT ![r] = NoClient]
        /\ IF c = NoClient
           THEN UNCHANGED <<status, input, partial, outgoing, watched>>
           ELSE /\ CASE Fits(c, size) -> Queue(c, size) /\ UNCHANGED <<status, input, partial>>
                     [] ~Fits(c, size) /\ r \in Captures /\ failed ->
                            UNCHANGED <<outgoing, status, input, partial>>
                     [] OTHER -> Terminal(c)
                /\ Watch(c)
        /\ UNCHANGED <<ended, socket>>

FaultyForgotten(c) == pending    \* fault: the requests of a client outlive it
Forgotten(c) == [r \in Requests |-> IF pending[r] = c THEN NoClient ELSE pending[r]]

\* removeClient, and the end of the turn.  What the peer does with a
\* connection that is gone is not looked at.
RemoveClient(c) ==
    /\ status' = [status EXCEPT ![c] = "gone"]
    /\ ended' = [ended EXCEPT ![c] = FALSE]
    /\ watched' = [watched EXCEPT ![c] = {}]
    /\ socket' = [socket EXCEPT ![c] = 0]
    /\ input' = [input EXCEPT ![c] = 0]
    /\ partial' = [partial EXCEPT ![c] = FALSE]
    /\ output' = [output EXCEPT ![c] = <<>>]
    /\ queued' = [queued EXCEPT ![c] = 0]
    /\ pending' = Forgotten(c)
    /\ turn' = NoTurn
    /\ UNCHANGED <<owed, listening>>

\* Where readClient returns to: handleClientEvent goes on to write.
AfterRead == [turn EXCEPT !.stage = IF turn.write THEN "write" ELSE "finish",
                          !.processed = 0, !.last = FALSE]

-----------------------------------------------------------------------------
(* handleListenEvent *)

\* One connection.  It is rejected at the limit, or if its peer is not the
\* user that runs the host.
Accept(c) ==
    /\ Idle /\ listening /\ status[c] = "none"
    /\ \E s \in IF Cardinality(Connected) < MaxClients THEN {"open", "gone"} ELSE {"gone"} :
           /\ status' = [status EXCEPT ![c] = s]
           /\ watched' = [watched EXCEPT ![c] = IF s = "open" THEN {"in"} ELSE {}]
    /\ UNCHANGED <<ended, incoming, outgoing, results, turn, listening>>

\* shutdown, also after an error of the listening socket.
Shutdown ==
    /\ Idle /\ listening /\ listening' = FALSE
    /\ status' = [c \in Clients |-> "gone"] /\ ended' = [c \in Clients |-> FALSE]
    /\ watched' = [c \in Clients |-> {}]
    /\ socket' = [c \in Clients |-> 0] /\ input' = [c \in Clients |-> 0]
    /\ partial' = [c \in Clients |-> FALSE]
    /\ output' = [c \in Clients |-> <<>>] /\ queued' = [c \in Clients |-> 0]
    /\ pending' = [r \in Requests |-> NoClient]
    /\ UNCHANGED <<owed, turn>>

(* handleClientEvent *)

\* A connection that closes is not read, though its event may say "readable".
FaultyReads(c, read) == read    \* fault: closeAfterWrite is not looked at
Reads(c, read) == read /\ status[c] = "open"

\* The event loop reports the events of a batch, which may be those the
\* connection was watched for before another client's turn made it close.
Dispatch(c, read, write, hangup) ==
    /\ Idle /\ c \in Connected
    /\ read => socket[c] > 0 \/ ended[c]
    /\ write => "out" \in watched[c]
    /\ hangup => ended[c]
    /\ read \/ write \/ hangup
    /\ turn' = [NoTurn EXCEPT !.client = c, !.write = write, !.hangup = hangup,
                              !.stage = IF Reads(c, read) THEN "frames"
                                        ELSE IF write THEN "write" ELSE "finish"]
    /\ UNCHANGED <<connection, incoming, outgoing, results, listening>>

\* An error event, which only a connection closed by its peer has.
DispatchError(c) == Idle /\ c \in Connected /\ ended[c] /\ RemoveClient(c)

\* The end of the handler: the connection is removed if it has hung up and
\* has nothing to send, else the event loop learns what to watch it for.
Finish(c) ==
    /\ turn.client = c /\ turn.stage = "finish"
    /\ IF turn.hangup /\ output[c] = <<>>
       THEN RemoveClient(c)
       ELSE /\ turn' = NoTurn
            /\ UNCHANGED <<status, ended, incoming, outgoing, results, listening>>
            /\ Watch(c)

-----------------------------------------------------------------------------
(* processFrames *)

InFrames(c) == turn.client = c /\ turn.stage = "frames"
HasFrame(c) == InFrames(c) /\ turn.processed < MaxRequests /\ input[c] > 0

\* The turn ends with a terminal error, whatever is still in the buffer.
TerminalTurn(c) ==
    /\ Terminal(c) /\ turn' = AfterRead
    /\ UNCHANGED <<ended, socket, watched, results, listening>>

\* The header, which may have come alone, announces more than maxMessageSize.
TooLarge(c) ==
    /\ InFrames(c) /\ turn.processed < MaxRequests
    /\ input[c] > 0 \/ partial[c]
    /\ TerminalTurn(c)

Overloaded(c) == HasFrame(c) /\ queued[c] > MaxQueued - MaxFrame /\ TerminalTurn(c)

Executes(c) == HasFrame(c) /\ queued[c] =< MaxQueued - MaxFrame

\* What follows a request: its response, of `size', is queued, or is too large
\* and turned into a terminal error.
Respond(c, size) ==
    IF Fits(c, size)
    THEN /\ Queue(c, size)
         /\ input' = [input EXCEPT ![c] = @ - 1]
         /\ turn' = [turn EXCEPT !.stage = "frames", !.processed = @ + 1]
         /\ UNCHANGED <<status, partial>>
    ELSE Terminal(c) /\ turn' = AfterRead

\* A request that is answered at once, a refused one for example.
Answer(c, size) ==
    /\ Executes(c) /\ Respond(c, size)
    /\ UNCHANGED <<ended, socket, watched, results, listening>>

\* handleInputRequest and handleCaptureRequest: the input controller accepts
\* the request r and will answer later; its response is queued first.
AcceptRequest(c, r, size) ==
    /\ Executes(c) /\ owed[r] = NoClient
    /\ owed' = [owed EXCEPT ![r] = c]
    /\ Respond(c, size)
    /\ pending' = IF Fits(c, size) THEN [pending EXCEPT ![r] = c] ELSE pending
    /\ UNCHANGED <<ended, socket, watched, listening>>

\* A request that changes a realm, for which the input controller cancels
\* accepted requests of any client, one by one, before it returns.
Change(c, victims) ==
    /\ Executes(c)
    /\ turn' = [turn EXCEPT !.stage = "cancel", !.victims = victims]
    /\ UNCHANGED <<connection, incoming, outgoing, results, listening>>

\* Its event is no longer than the response of the request that causes it.
Cancel(r) ==
    /\ turn.stage = "cancel" /\ r \in turn.victims
    /\ Deliver(r, TRUE, 1)
    /\ turn' = [turn EXCEPT !.victims = @ \ {r}]
    /\ UNCHANGED listening

\* By now the client may be closing, with nothing left in its buffer; then
\* no room is left for the response either.
AnswerChange(c, size) ==
    /\ turn.client = c /\ turn.stage = "cancel" /\ turn.victims = {}
    /\ Respond(c, size)
    /\ UNCHANGED <<ended, socket, watched, results, listening>>

\* More than the requests of one turn have been received.
Overrun(c) ==
    /\ InFrames(c) /\ turn.processed = MaxRequests
    /\ input[c] > 0 \/ partial[c]
    /\ TerminalTurn(c)

FaultyFramesDone(c) ==    \* fault: the rest is left for the next event
    /\ InFrames(c) /\ (input[c] = 0 \/ turn.processed = MaxRequests)
    /\ turn' = IF turn.last THEN AfterRead ELSE [turn EXCEPT !.stage = "read"]
    /\ UNCHANGED <<connection, incoming, outgoing, results, listening>>
FramesDone(c) ==
    /\ InFrames(c) /\ input[c] = 0
    /\ ~(turn.processed = MaxRequests /\ partial[c])
    /\ turn' = IF turn.last THEN AfterRead ELSE [turn EXCEPT !.stage = "read"]
    /\ UNCHANGED <<connection, incoming, outgoing, results, listening>>

-----------------------------------------------------------------------------
(* readClient *)

\* A call of recv, which returns n complete frames, the rest of a partial one
\* included, and maybe the beginning of another.  A frame is long enough for
\* several calls, which the model takes together unless they are the `last'.
Receive(c, n, more, last) ==
    /\ turn.client = c /\ turn.stage = "read"
    /\ more => n < socket[c]
    /\ n > 0 \/ (more /\ (partial[c] => last))
    /\ socket' = [socket EXCEPT ![c] = @ - n]
    /\ IF turn.processed >= MaxRequests
       THEN Terminal(c) /\ turn' = AfterRead
       ELSE /\ input' = [input EXCEPT ![c] = @ + n]
            /\ partial' = [partial EXCEPT ![c] = more]
            /\ turn' = [turn EXCEPT !.stage = "frames", !.last = last]
            /\ UNCHANGED <<status, outgoing>>
    /\ UNCHANGED <<ended, watched, results, listening>>

\* There is nothing to receive: the rest of a partial frame has not been sent.
Drained(c) ==
    /\ turn.client = c /\ turn.stage = "read"
    /\ socket[c] = 0 \/ (partial[c] /\ socket[c] = 1)

NothingMore(c) ==
    /\ Drained(c) /\ ~ended[c] /\ turn' = AfterRead
    /\ UNCHANGED <<connection, incoming, outgoing, results, listening>>

EndOfFile(c) == Drained(c) /\ ended[c] /\ RemoveClient(c)

-----------------------------------------------------------------------------
(* flushClient *)

Writing(c) == turn.client = c /\ turn.stage = "write" /\ output[c] # <<>>

\* A call of send takes n units of the first frame.
Write(c, n) ==
    /\ Writing(c)
    /\ output' = [output EXCEPT ![c] =
           IF n = Head(@) THEN Tail(@) ELSE <<Head(@) - n>> \o Tail(@)]
    /\ queued' = [queued EXCEPT ![c] = @ - n]
    /\ UNCHANGED <<connection, incoming, results, turn, listening>>

\* The socket takes no more, or the writes of this turn are used up.
Blocked(c) ==
    /\ Writing(c)
    /\ turn' = [turn EXCEPT !.stage = "finish"]
    /\ UNCHANGED <<connection, incoming, outgoing, results, listening>>

WriteFails(c) == Writing(c) /\ ended[c] /\ RemoveClient(c)

Flushed(c) ==
    /\ turn.client = c /\ turn.stage = "write" /\ output[c] = <<>>
    /\ IF status[c] = "closing"
       THEN RemoveClient(c)
       ELSE /\ turn' = [turn EXCEPT !.stage = "finish"]
            /\ UNCHANGED <<connection, incoming, outgoing, results, listening>>

-----------------------------------------------------------------------------
(* The input controller and the peers. *)

\* A result from the helper, who words its errors, or a timeout.
Result(r, failed, size) ==
    /\ Idle /\ owed[r] # NoClient
    /\ Deliver(r, failed, size)
    /\ UNCHANGED <<turn, listening>>

\* What a peer sends once the server is closing the connection is never read.
PeerSends(c) ==
    /\ status[c] = "open" /\ ~ended[c] /\ socket[c] < SocketBound
    /\ socket' = [socket EXCEPT ![c] = @ + 1]
    /\ UNCHANGED <<connection, input, partial, outgoing, results, turn, listening>>

PeerEnds(c) ==
    /\ c \in Connected /\ ~ended[c] /\ ended' = [ended EXCEPT ![c] = TRUE]
    /\ UNCHANGED <<status, watched, incoming, outgoing, results, turn, listening>>

-----------------------------------------------------------------------------
Reading(c) ==
    \/ TooLarge(c) \/ Overloaded(c) \/ Overrun(c) \/ FramesDone(c)
    \/ NothingMore(c) \/ EndOfFile(c)
    \/ \E size \in 1 .. MaxFrame + 1 : Answer(c, size) \/ AnswerChange(c, size)
    \/ \E r \in Requests, size \in 1 .. MaxFrame : AcceptRequest(c, r, size)
    \/ \E victims \in SUBSET {r \in Requests : owed[r] # NoClient} : Change(c, victims)
    \/ \E n \in 0 .. socket[c], more, last \in BOOLEAN : Receive(c, n, more, last)

Sending(c) == \E n \in 1 .. MaxFrame : Writing(c) /\ n =< Head(output[c]) /\ Write(c, n)

\* A step of the handler that runs.
TurnStep ==
    \/ \E c \in Clients : Reading(c) \/ Sending(c) \/ Blocked(c) \/ WriteFails(c) \/ Flushed(c) \/ Finish(c)
    \/ \E r \in Requests : Cancel(r)

\* A handler meets its peer only in its system calls: what a peer does between
\* two of them might as well happen at the next.
PeerStep ==
    /\ turn.stage \in {"idle", "read", "write"}
    /\ \E c \in Clients : PeerSends(c) \/ PeerEnds(c)

Next ==
    \/ TurnStep \/ PeerStep \/ Shutdown
    \/ \E c \in Clients : Accept(c) \/ DispatchError(c)
    \/ \E c \in Clients, read, write, hangup \in BOOLEAN : Dispatch(c, read, write, hangup)
    \/ \E r \in Requests, failed \in BOOLEAN, size \in 1 .. MaxFrame : Result(r, failed, size)

Spec == Init /\ [][Next]_vars

-----------------------------------------------------------------------------
(* Properties. *)

(***************************************************************************)
(* queuedOutput counts exactly what is left to send, through partial       *)
(* writes, refused frames and errors, and never exceeds its limit, so that *)
(* the room for a response that is promised when a request is begun is     *)
(* there: `end' says where in the stream of the connection a frame ends.   *)
(***************************************************************************)
Counts(end, c) ==
    /\ end[0] = 0 /\ end[Len(output[c])] = queued[c]
    /\ \A i \in 1 .. Len(output[c]) : end[i] = end[i - 1] + output[c][i]
QueueIsCounted ==
    \A c \in Clients : \E end \in [0 .. Len(output[c]) -> 0 .. MaxQueued] : Counts(end, c)

(***************************************************************************)
(* The result of each accepted request goes to the connection that asked,  *)
(* if it is still there, and to no other: whatever was cancelled, refused  *)
(* or closed in between, also inside the handler of another client.        *)
(***************************************************************************)
RequesterIsKnown ==
    \A r \in Requests :
        /\ pending[r] # NoClient => pending[r] = owed[r] /\ pending[r] \in Connected
        /\ owed[r] \in Connected => pending[r] = owed[r]

(***************************************************************************)
(* Whenever the event loop waits, everything that is left to do is         *)
(* something it watches for: no complete request is left in a buffer, an   *)
(* open connection is read, queued output is written, and a connection     *)
(* that closes has an error or a response to send that will close it.      *)
(***************************************************************************)
NoLostWakeup ==
    Idle => \A c \in Connected :
        /\ input[c] = 0
        /\ "out" \in watched[c] <=> output[c] # <<>>
        /\ status[c] = "open" => "in" \in watched[c]
        /\ status[c] = "closing" => watched[c] = {"out"}

(***************************************************************************)
(* After a terminal error no further request of the connection is carried  *)
(* out, also if the event loop had already seen more of them, and what the *)
(* peer has to read before the connection is closed never grows: results   *)
(* that still arrive only take the place of the requests they answer.      *)
(***************************************************************************)
ToSend(c) == Len(output[c]) + Cardinality({r \in Requests : pending[r] = c})
ClosingIsFinal ==
    [][\A c \in Clients : status[c] = "closing" =>
           /\ status'[c] \in {"closing", "gone"}
           /\ input'[c] = 0
           /\ \A r \in Requests : owed'[r] = c => owed[r] = c
           /\ ToSend(c)' =< ToSend(c)]_vars
=============================================================================
