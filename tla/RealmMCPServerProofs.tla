------------------------ MODULE RealmMCPServerProofs ------------------------
(***************************************************************************)
(* Proofs about RealmMCPServer and its client, for any realms and limits:  *)
(* what a tool reports was done for it, the client stays in step until it  *)
(* gives up on an answer, and a launch that fails stops what it created.   *)
(***************************************************************************)
EXTENDS RealmMCPServer, SequenceTheorems, TLAPS

-----------------------------------------------------------------------------
(* The inductive invariant. *)

Events == {"input", "capture"}
Only(s) == s # <<>> /\ Tail(s) = <<>>

\* y, of a capture or of input with that number, is for the call in hand.
Awaited(y, sequence) == y.mine /\ y.is = call.method /\ (y.is = "input" => y.sequence = sequence)

\* The one that the server is working on.
Working(sequence) == \E x \in pending : pending = {x} /\ Awaited(x, sequence)

\* Of a call that is in step there is the request, its response, and then what
\* it accepted or the event of that.
Idle == sent = <<>> /\ received = <<>> /\ pending = {}
Asking ==
    /\ received = <<>> /\ pending = {}
    /\ \/ sent = <<>> /\ socket = "closed"
       \/ Only(sent) /\ Head(sent).mine /\ Head(sent).method = call.method
Responded ==
    /\ sent = <<>> /\ received # <<>>
    /\ Head(received).is = "response" /\ Head(received).mine
    /\ \/ Only(received) /\ pending = {}
       \/ Only(received) /\ Head(received).ok /\ Working(Head(received).sequence)
       \/ /\ Only(Tail(received)) /\ pending = {} /\ Head(received).ok
          /\ Awaited(Head(Tail(received)), Head(received).sequence)
Expecting ==
    /\ sent = <<>>
    /\ \/ received = <<>> /\ (pending = {} \/ Working(call.sequence))
       \/ Only(received) /\ pending = {} /\ Awaited(Head(received), call.sequence)

InPlace ==
    /\ socket = "closed" => sent = <<>> /\ pending = {}
    /\ ~late => \/ call.stage = "done" /\ Idle
                \/ call.stage = "response" /\ (Asking \/ Responded)
                \/ call.stage = "event" /\ Expecting

\* The call is of the step that the tool is at, and its success that of the step.
StepsOf == [launch |-> LaunchSteps \cup FinishSteps, finish |-> FinishSteps, input |-> {"input"},
            capture |-> {"capture"}, other |-> {"pause", "resume"}]
Shows(p) == p.mine /\ p.ok /\ (p.is = "response" => Method(tool.at) \notin Events)
InHand ==
    tool.name # "none" =>
        /\ tool.at \in StepsOf[tool.name]
        /\ call.stage # "done" => call.method = Method(tool.at)
        /\ \A q \in Range(sent) : q.mine => q.method = Method(tool.at) /\ q.realm = tool.realm
        /\ \A p \in Range(received) : Shows(p) => tool.at \in done
        /\ call.stage = "done" /\ call.ok /\ (tool.name = "input" => ~late) => tool.at \in done

\* A launch has done the steps before the one it is at, and cleans up only
\* after the first.
Earlier == [create |-> {}, place |-> {"create"}, grantObserve |-> {"create", "place"},
            grantPointer |-> {"create", "place", "grantObserve"},
            grantKeyboard |-> {"create", "place", "grantObserve", "grantPointer"},
            start |-> LaunchSteps \ {"start", "await", "observe", "open"},
            await |-> LaunchSteps \ {"await", "observe", "open"},
            observe |-> LaunchSteps \ {"observe", "open"},
            open |-> LaunchSteps \ {"open"}]
StepByStep ==
    tool.name = "launch" =>
        /\ tool.at \in LaunchSteps => Earlier[tool.at] \subseteq done
        /\ tool.at # "create" => "create" \in done

-----------------------------------------------------------------------------
(* Sequences of one or two, and what is in a queue. *)

LEMMA NoneDisowned ==
    /\ Disowned(<<>>) = <<>>
    /\ [i \in DOMAIN <<>> |-> Stale(<<>>[i])] = <<>>
    /\ DisownedAll({}) = {}
BY DEF Disowned, DisownedAll

LEMMA AppendToEmpty ==
    ASSUME NEW p
    PROVE  Append(<<>>, p) # <<>> /\ Head(Append(<<>>, p)) = p /\ Tail(Append(<<>>, p)) = <<>>
OBVIOUS

LEMMA AppendToOne ==
    ASSUME NEW S, NEW s \in Seq(S), NEW p \in S, Only(s)
    PROVE  /\ Append(s, p) # <<>> /\ Head(Append(s, p)) = Head(s)
           /\ Only(Tail(Append(s, p))) /\ Head(Tail(Append(s, p))) = p
<1>1. Len(s) = 1
  <2>1. Len(s) \in Nat \ {0} /\ s # <<>> /\ Tail(s) = <<>>
      BY EmptySeq DEF Only
  <2>2. Len(Tail(s)) = Len(s) - 1
      BY <2>1, HeadTailProperties
  <2>3. Len(Tail(s)) = 0
      BY <2>1, EmptySeq
  <2> QED BY <2>1, <2>2, <2>3
<1>2. Append(s, p) \in Seq(S) /\ Len(Append(s, p)) = 2 /\ Append(s, p)[1] = s[1] /\ Append(s, p)[2] = p
  <2>1. /\ Append(s, p) \in Seq(S) /\ Len(Append(s, p)) = Len(s) + 1
        /\ \A i \in 1 .. Len(s) : Append(s, p)[i] = s[i]
        /\ Append(s, p)[Len(s) + 1] = p
      BY AppendProperties
  <2> QED BY <1>1, <2>1
<1> DEFINE t == Append(s, p)
<1>3. t # <<>> /\ Head(t) = Head(s) /\ Tail(t) \in Seq(S) /\ Len(Tail(t)) = 1 /\ Tail(t)[1] = p
    BY <1>1, <1>2
<1> DEFINE u == Tail(t)
<1>4. u \in Seq(S) /\ Len(u) = 1 /\ u[1] = p
    BY <1>3
<1> HIDE DEF u
<1>5. u # <<>> /\ Head(u) = p
    BY <1>4
<1>6. Tail(u) \in Seq(S) /\ Len(Tail(u)) = 0
    BY <1>4, <1>5, HeadTailProperties
<1>7. Tail(u) = <<>>
    BY <1>6, EmptySeq
<1> QED BY <1>3, <1>5, <1>7 DEF u, Only

LEMMA QueueRanges ==
    ASSUME NEW S, NEW s \in Seq(S)
    PROVE  /\ Range(s) \subseteq S
           /\ s # <<>> => Head(s) \in Range(s) /\ Range(Tail(s)) \subseteq Range(s)
           /\ \A p \in S : Range(Append(s, p)) \subseteq Range(s) \cup {p}
<1>1. Range(s) \subseteq S /\ \A i \in 1 .. Len(s) : s[i] \in Range(s)
    BY LenProperties DEF Range
<1>2. ASSUME s # <<>> PROVE Head(s) \in Range(s) /\ Range(Tail(s)) \subseteq Range(s)
  <2>1. Len(s) \in Nat \ {0}
      BY <1>2, EmptySeq
  <2>2. /\ Tail(s) \in Seq(S) /\ Len(Tail(s)) = Len(s) - 1
        /\ \A i \in 1 .. Len(Tail(s)) : Tail(s)[i] = s[i+1]
      BY <1>2, HeadTailProperties
  <2>3. DOMAIN Tail(s) = 1 .. Len(s) - 1
      BY <2>2, LenProperties
  <2>4. \A i \in 1 .. Len(s) - 1 : Tail(s)[i] = s[i+1] /\ i + 1 \in 1 .. Len(s)
      BY <2>1, <2>2
  <2> QED BY <1>1, <2>1, <2>3, <2>4 DEF Range
<1>3. ASSUME NEW p \in S PROVE Range(Append(s, p)) \subseteq Range(s) \cup {p}
  <2>1. /\ Append(s, p) \in Seq(S) /\ Len(Append(s, p)) = Len(s) + 1
        /\ \A i \in 1 .. Len(s) : Append(s, p)[i] = s[i]
        /\ Append(s, p)[Len(s) + 1] = p
      BY AppendProperties
  <2>2. DOMAIN Append(s, p) = 1 .. Len(s) + 1 /\ Len(s) \in Nat
      BY <2>1, LenProperties
  <2>3. \A i \in 1 .. Len(s) + 1 : i \in 1 .. Len(s) \/ i = Len(s) + 1
      BY <2>2
  <2> QED BY <1>1, <2>1, <2>2, <2>3 DEF Range
<1> QED BY <1>1, <1>2, <1>3

\* Nothing of an earlier call is mistaken for the next one's.
LEMMA NoneMine ==
    ASSUME ClientTypeOK
    PROVE  /\ Disowned(sent) \in Seq(Request)
           /\ [i \in DOMAIN received |-> Stale(received[i])] \in Seq(Packet)
           /\ DisownedAll(pending) \subseteq Accepted
           /\ \A q \in Range(Disowned(sent)) : ~q.mine
           /\ \A p \in Range([i \in DOMAIN received |-> Stale(received[i])]) : ~p.mine
<1>1. DOMAIN sent = 1 .. Len(sent) /\ DOMAIN received = 1 .. Len(received)
      /\ Len(sent) \in Nat /\ Len(received) \in Nat
    BY LenProperties DEF ClientTypeOK
<1>2. \A i \in 1 .. Len(sent) : sent[i] \in Request
    BY ElementOfSeq DEF ClientTypeOK
<1>3. \A i \in 1 .. Len(received) : received[i] \in Packet
    BY ElementOfSeq DEF ClientTypeOK
<1>4. \A q \in Request : [q EXCEPT !.mine = FALSE] \in Request /\ ~[q EXCEPT !.mine = FALSE].mine
    BY DEF Request
<1>5. \A p \in Packet : Stale(p) \in Packet /\ ~Stale(p).mine
    BY DEF Packet, Stale, RealmStates
<1>6. \A x \in Accepted : [x EXCEPT !.mine = FALSE] \in Accepted
    BY DEF Accepted
<1>7. Disowned(sent) \in Seq(Request) /\ \A q \in Range(Disowned(sent)) : ~q.mine
  <2> DEFINE t == [i \in 1 .. Len(sent) |-> [sent[i] EXCEPT !.mine = FALSE]]
  <2>1. t \in Seq(Request)
      BY <1>1, <1>2, <1>4, IsASeq
  <2>2. \A q \in Range(t) : ~q.mine
      BY <1>2, <1>4 DEF Range
  <2> QED BY <2>1, <2>2, <1>1 DEF Disowned
<1>8. LET t == [i \in DOMAIN received |-> Stale(received[i])]
      IN t \in Seq(Packet) /\ \A p \in Range(t) : ~p.mine
  <2> DEFINE t == [i \in 1 .. Len(received) |-> Stale(received[i])]
  <2>1. t \in Seq(Packet)
      BY <1>1, <1>3, <1>5, IsASeq
  <2>2. \A p \in Range(t) : ~p.mine
      BY <1>3, <1>5 DEF Range
  <2> QED BY <2>1, <2>2, <1>1
<1> QED BY <1>6, <1>7, <1>8 DEF DisownedAll, ClientTypeOK
-----------------------------------------------------------------------------
(* What the steps are, for the tool and for the client. *)

LEMMA Advances ==
    ASSUME TypeOK, Proceed
    PROVE  /\ call.stage = "done" /\ tool.name # "none"
           /\ \/ \E step \in Steps : Go(step)
              \/ \E result \in {"success", "failure"} : Report(result)
<1> USE DEF Fail
<1>1. tool.at \in LaunchSteps \ {"open", "await"} => Following[tool.at] \in Steps
    BY DEF LaunchSteps, Following, Steps
<1>2. {"look", "stop", "watch", "destroy", "await", "observe", "capture"} \subseteq Steps
    BY DEF Steps, LaunchSteps, FinishSteps, Methods
<1>3. CASE Launch
    BY <1>1, <1>2, <1>3 DEF Launch, LaunchFails, Await, Proceed
<1>4. CASE Finishing
    BY <1>2, <1>4 DEF Finishing, Look, Again, Destroyed, Proceed
<1>5. CASE Other
    BY <1>5 DEF Other, Proceed
<1>6. CASE Capture
    BY <1>2, <1>6 DEF Capture, Proceed
<1> QED BY <1>3, <1>4, <1>5, <1>6 DEF Proceed

\* What requests and other steps make of a realm: its record stays one, and if
\* it is not active, or deserted, only a start changes that.
Inactive(x) == x.state \notin Active \/ x.process = "gone"
Backed(x) == x.state \in Active => x.process # "none"

LEMMA RequestsMove ==
    ASSUME NEW x \in RealmRecord, NEW y \in Requested(x)
    PROVE  /\ y \in RealmRecord /\ y.made = x.made
           /\ Backed(y)
           /\ Inactive(x) => Inactive(y) \/ y.state = "CREATING"
<1> USE DEF RealmRecord, RealmStates, Backed, Inactive, Active, Over
<1>1. CASE MayCreate(x) /\ y = Created(x)
    BY <1>1 DEF Created
<1>2. CASE MayStart(x) /\ y = Started(x)
    BY <1>2 DEF Started
<1>3. CASE MayStart(x) /\ y \in BadStarts(x)
  <2>1. PICK process \in {"none", "live"} : y = [x EXCEPT !.state = "FAILED", !.process = process]
      BY <1>3 DEF BadStarts
  <2> QED BY <2>1
<1>4. CASE MayPause(x) /\ y = Paused(x)
    BY <1>4 DEF MayPause, Paused
<1>5. CASE MayResume(x) /\ y = Resumed(x)
    BY <1>5 DEF MayResume, Resumed
<1>6. CASE MayStop(x) /\ y = Stopped(x)
    BY <1>6 DEF Stopped
<1>7. CASE MayDestroy(x) /\ y = Removed(x)
    BY <1>7 DEF Removed
<1> QED BY <1>1, <1>2, <1>3, <1>4, <1>5, <1>6, <1>7, Zenon DEF Requested, When

LEMMA OthersMove ==
    ASSUME NEW x \in RealmRecord, NEW y,
           y \in Happened(x) \/ (MayBecomeReady(x) /\ y = Ready(x))
    PROVE  /\ y \in RealmRecord /\ y.made = x.made
           /\ Backed(x) => Backed(y)
           /\ Inactive(x) => Inactive(y)
<1> USE DEF RealmRecord, RealmStates, Backed, Inactive, Active, Over
<1>1. CASE y \in Deserted(x)
  <2>1. y = [x EXCEPT !.process = "gone"]
      BY <1>1 DEF Deserted, When
  <2> QED BY <2>1
<1>2. CASE y \in Ended(x)
  <2>1. PICK process \in {x.process, "gone", "none"} :
            y = [x EXCEPT !.state = Outcome(x), !.process = process]
      BY <1>2 DEF Ended, When
  <2>2. Outcome(x) \in {"STOPPED", "FAILED"}
      BY DEF Outcome
  <2>3. process \in {"none", "live", "gone"}
      BY <2>1
  <2> QED BY <2>1, <2>2, <2>3
<1>3. CASE y \in Erased(x)
  <2>1. x.state \in Over /\ y = [x EXCEPT !.process = "none"]
      BY <1>3 DEF Erased, When
  <2> QED BY <2>1
<1>4. CASE y \in ShutDown(x)
  <2>1. y = Stopped(x)
      BY <1>4 DEF ShutDown, When
  <2> QED BY <2>1 DEF Stopped
<1>5. CASE MayBecomeReady(x) /\ y = Ready(x)
    BY <1>5 DEF MayBecomeReady, Ready
<1> QED BY <1>1, <1>2, <1>3, <1>4, <1>5 DEF Happened

\* Those that a request of the tools is answered with, one by one.
LEMMA RealmTypes ==
    ASSUME NEW x \in RealmRecord
    PROVE  /\ NoRealm \in RealmRecord
           /\ Started(x) \in RealmRecord /\ Paused(x) \in RealmRecord /\ Resumed(x) \in RealmRecord
           /\ Stopped(x) \in RealmRecord /\ BadStarts(x) \subseteq RealmRecord
           /\ \A made \in {"launch", "other"} :
                  [x EXCEPT !.made = made] \in RealmRecord /\ [Created(x) EXCEPT !.made = made] \in RealmRecord
BY DEF RealmRecord, RealmStates, NoRealm, Created, Started, BadStarts, Paused, Resumed, Stopped

LEMMA FirstRequest ==
    ASSUME TypeOK, sent # <<>>
    PROVE  Head(sent) \in Request /\ Wanted \in RealmRecord
<1>1. Head(sent) \in Request
    BY HeadTailProperties DEF TypeOK, ClientTypeOK
<1>2. Head(sent).realm \in Names
    BY <1>1 DEF Request
<1> QED BY <1>1, <1>2 DEF Wanted, TypeOK

LEMMA Serves ==
    ASSUME TypeOK, ServerStep
    PROVE  /\ sent # <<>>
           /\ \/ \E ok \in BOOLEAN, x \in RealmRecord : Answer(ok, x)
              \/ \E is \in Events : Accept(is)
<1>1. CASE ServeLifecycle
  <2>1. sent # <<>>
      BY <1>1 DEF ServeLifecycle, ServeCreate, ServeBadStart, Serve, Refuse, Asked
  <2>2. Wanted \in RealmRecord
      BY <2>1, FirstRequest
  <2> QED BY <1>1, <2>1, <2>2, RealmTypes DEF ServeLifecycle, ServeCreate, ServeBadStart, Serve, Refuse
<1>2. CASE ServeUse
  <2>1. sent # <<>>
      BY <1>2 DEF ServeUse, Serve, Refuse, Asked, Accept
  <2>2. Wanted \in RealmRecord
      BY <2>1, FirstRequest
  <2> QED BY <1>2, <2>1, <2>2 DEF ServeUse, Serve, Refuse, Events
<1> QED BY <1>1, <1>2 DEF ServerStep

Ends == /\ call.stage = "done" /\ call' = Done(TRUE)
        /\ UNCHANGED <<socket, sent, received, pending, late>>
Responds ==
    /\ sent # <<>>
    /\ \/ /\ \E ok \in BOOLEAN, state \in RealmStates : Respond(ok, state, 0)
          /\ UNCHANGED pending
       \/ /\ Head(sent).method \in Events
          /\ \E n \in Nat :
                /\ Respond(TRUE, "NONE", IF Head(sent).method = "input" THEN n ELSE 0)
                /\ pending' = pending \cup
                       {[is |-> Head(sent).method, realm |-> Head(sent).realm,
                         sequence |-> IF Head(sent).method = "input" THEN n ELSE 0,
                         mine |-> Head(sent).mine]}
Finishes == \E x \in pending, ok \in BOOLEAN : Finish(x, ok)
Begins == \E method \in Methods, realm \in Names : Begin(method, realm)

\* Every step is one of these for the client.
LEMMA ClientMoves ==
    ASSUME TypeOK, [Next]_vars
    PROVE  \/ UNCHANGED clientVars
           \/ Begins \/ Ends \/ ReadPacket \/ TimeOut \/ HangUp \/ Close \/ Responds \/ Finishes
<1>0. \A step \in Steps : Method(step) \in Methods
    BY DEF Steps, LaunchSteps, FinishSteps, Methods, Method
<1>1. CASE UNCHANGED vars
    BY <1>1 DEF vars
<1>2. ASSUME NEW r \in Names, StartTool(r) PROVE Begins
    BY <1>2, <1>0 DEF StartTool, CallTool, Begins, Steps, LaunchSteps, FinishSteps, Methods
<1>3. ASSUME NEW r \in Names, Environment(r) PROVE UNCHANGED clientVars
    BY <1>3 DEF Environment, Elsewhere, BecomeReady, Happen, Unused
<1>4. CASE Proceed
  <2>1. tool.realm \in Names
      BY DEF TypeOK
  <2>2. ASSUME NEW step \in Steps, Go(step) PROVE Begins
      BY <2>1, <2>2, <1>0 DEF Go, Begins
  <2>3. ASSUME NEW result, Report(result) PROVE Ends
      BY <2>3, <1>4, Advances DEF Report, Ends
  <2> QED BY <1>4, <2>2, <2>3, Advances
<1>5. CASE Expire
    BY <1>5 DEF Expire
<1>6. CASE ClientStep
    BY <1>6 DEF ClientStep
<1>7. CASE ServerStep
  <2>1. sent # <<>> /\ Head(sent).realm \in Names
      BY <1>7, Serves, FirstRequest DEF Request
  <2>2. ASSUME NEW ok \in BOOLEAN, NEW x \in RealmRecord, Answer(ok, x) PROVE Responds
      BY <2>1, <2>2 DEF Answer, Responds, RealmRecord
  <2>3. ASSUME NEW is \in Events, Accept(is) PROVE Responds
    <3>1. Head(sent).method = is
        BY <2>3 DEF Accept, Asked
    <3>2. next[Head(sent).realm] \in Nat
        BY <2>1, SequenceAssumption DEF TypeOK
    <3> QED BY <2>1, <2>3, <3>1, <3>2 DEF Accept, Responds
  <2> QED BY <1>7, <2>2, <2>3, Serves
<1>8. CASE Complete
    BY <1>8 DEF Complete, Finishes
<1>9. CASE Closes
    BY <1>9 DEF Closes
<1> QED BY <1>1, <1>2, <1>3, <1>4, <1>5, <1>6, <1>7, <1>8, <1>9 DEF Next

-----------------------------------------------------------------------------
(* Types. *)

LEMMA DoneType ==
    ASSUME NEW ok \in BOOLEAN
    PROVE  Done(ok) \in CallRecord
BY ClientAssumption DEF Done, CallRecord, Methods, RealmStates

LEMMA ClientType ==
    ASSUME TypeOK, [Next]_vars
    PROVE  ClientTypeOK'
<1> USE DEF ClientTypeOK
<1> ClientTypeOK
    BY DEF TypeOK
<1>1. CASE UNCHANGED clientVars
    BY <1>1 DEF clientVars
<1>2. ASSUME NEW method \in Methods, NEW realm \in Names, Begin(method, realm) PROVE ClientTypeOK'
  <2>1. [method |-> method, realm |-> realm, mine |-> TRUE] \in Request
      BY DEF Request
  <2>2. Append(Disowned(sent), [method |-> method, realm |-> realm, mine |-> TRUE]) \in Seq(Request)
      BY <2>1, NoneMine, AppendProperties
  <2>3. [Done(FALSE) EXCEPT !.stage = "response", !.method = method] \in CallRecord
      BY DoneType DEF CallRecord
  <2>4. sent' \in Seq(Request) /\ call' \in CallRecord
      BY <1>2, <2>2, <2>3, NoneMine, DoneType DEF Begin
  <2>5. received' \in Seq(Packet)
      BY <1>2, NoneMine DEF Begin
  <2> QED BY <1>2, <2>4, <2>5, NoneMine DEF Begin
<1>3. CASE Ends
    BY <1>3, DoneType DEF Ends
<1>4. CASE ReadPacket
  <2>1. Head(received) \in Packet /\ Tail(received) \in Seq(Packet)
      BY <1>4, HeadTailProperties DEF ReadPacket
  <2>2. \A p \in Packet : p.ok \in BOOLEAN /\ p.state \in RealmStates /\ p.sequence \in Nat
      BY DEF Packet
  <2>3. \A p \in Packet : AfterResponse(p) \in CallRecord
    <3> SUFFICES ASSUME NEW p \in Packet PROVE AfterResponse(p) \in CallRecord
        OBVIOUS
    <3>1. [Done(TRUE) EXCEPT !.state = p.state] \in CallRecord
        BY <2>2, DoneType DEF CallRecord
    <3>2. [call EXCEPT !.stage = "event", !.sequence = p.sequence] \in CallRecord
        BY <2>2 DEF CallRecord
    <3> QED BY <3>1, <3>2, DoneType DEF AfterResponse
  <2>4. \A p \in Packet : AfterEvent(p) \in CallRecord
    <3> SUFFICES ASSUME NEW p \in Packet PROVE AfterEvent(p) \in CallRecord
        OBVIOUS
    <3>1. call.ignored + 1 # MaxIgnored => [call EXCEPT !.ignored = @ + 1] \in CallRecord
        BY ClientAssumption DEF CallRecord
    <3> QED BY <3>1, <2>2, DoneType DEF AfterEvent
  <2> QED BY <1>4, <2>1, <2>3, <2>4 DEF ReadPacket
<1>5. CASE TimeOut
  <2>1. Coming \in BOOLEAN
      BY DEF Coming
  <2>2. late' \in BOOLEAN
      BY <1>5, <2>1 DEF TimeOut
  <2> QED BY <1>5, <2>2, DoneType DEF TimeOut
<1>6. CASE HangUp
    BY <1>6, DoneType DEF HangUp
<1>7. CASE Close
    BY <1>7, EmptySeq DEF Close
<1>8. CASE Responds
  <2>1. Head(sent) \in Request /\ Tail(sent) \in Seq(Request)
      BY <1>8, HeadTailProperties DEF Responds
  <2>2. Head(sent).realm \in Names /\ Head(sent).mine \in BOOLEAN
      BY <2>1 DEF Request
  <2>3. ASSUME NEW ok \in BOOLEAN, NEW state \in RealmStates, NEW n \in Nat, Respond(ok, state, n)
        PROVE  sent' \in Seq(Request) /\ received' \in Seq(Packet)
               /\ UNCHANGED <<socket, call, late>>
    <3> DEFINE p == [is |-> "response", mine |-> Head(sent).mine, ok |-> ok,
                     state |-> state, sequence |-> n]
    <3>1. p \in Packet /\ Stale(p) \in Packet
        BY <2>2 DEF Packet, Stale, RealmStates
    <3>2. Append(received, p) \in Seq(Packet) /\ Append(received, Stale(p)) \in Seq(Packet)
        BY <3>1, AppendProperties
    <3> QED BY <2>1, <2>3, <3>2 DEF Respond
  <2>4. "NONE" \in RealmStates
      BY DEF RealmStates
  <2>5. \A n \in Nat : Head(sent).method \in Events =>
            [is |-> Head(sent).method, realm |-> Head(sent).realm,
             sequence |-> IF Head(sent).method = "input" THEN n ELSE 0, mine |-> Head(sent).mine]
            \in Accepted
      BY <2>2 DEF Accepted, Events
  <2> QED BY <1>8, <2>3, <2>4, <2>5 DEF Responds
<1>9. ASSUME NEW x \in pending, NEW ok \in BOOLEAN, Finish(x, ok) PROVE ClientTypeOK'
  <2>1. x.is \in Events /\ x.mine \in BOOLEAN /\ x.sequence \in Nat
      BY DEF Accepted, Events
  <2>2. [is |-> x.is, mine |-> x.mine, ok |-> ok, state |-> "NONE", sequence |-> x.sequence] \in Packet
      BY <2>1 DEF Packet, RealmStates, Events
  <2>3. received' \in Seq(Packet)
      BY <1>9, <2>2, AppendProperties DEF Finish
  <2> QED BY <1>9, <2>3 DEF Finish
<1> QED BY <1>1, <1>2, <1>3, <1>4, <1>5, <1>6, <1>7, <1>8, <1>9, ClientMoves DEF Begins, Finishes
LEMMA Becoming ==
    ASSUME TypeOK, NEW r \in Names, NEW x \in RealmRecord, Becomes(r, x)
    PROVE  realms' \in [Names -> RealmRecord]
BY DEF TypeOK, Becomes

\* The changes of one realm that others make.
LEMMA EnvironmentMoves ==
    ASSUME TypeOK, NEW r \in Names, Environment(r)
    PROVE  /\ \E x \in RealmRecord : Becomes(r, x)
           /\ next' \in [Names -> 1 .. MaxSequence + 1]
           /\ Unused
<1> DEFINE y == realms[r]
<1>1. y \in RealmRecord /\ next \in [Names -> 1 .. MaxSequence + 1]
    BY DEF TypeOK
<1> HIDE DEF y
<1>2. CASE Elsewhere(r)
  <2>1. PICK x \in Requested(y) :
            Becomes(r, [x EXCEPT !.made = IF x.state \in {"STOPPED", "CREATING", "NONE"} THEN "other" ELSE @])
      BY <1>2 DEF Elsewhere, y
  <2>2. x \in RealmRecord /\ x.made \in {"launch", "other"}
      BY <1>1, RequestsMove DEF RealmRecord
  <2>3. [x EXCEPT !.made = IF x.state \in {"STOPPED", "CREATING", "NONE"} THEN "other" ELSE @] \in RealmRecord
      BY <2>2, RealmTypes
  <2> QED BY <1>1, <1>2, <2>1, <2>3 DEF Elsewhere
<1>3. CASE BecomeReady(r)
  <2>1. next' \in [Names -> 1 .. MaxSequence + 1]
      BY <1>1, <1>3, SequenceAssumption DEF BecomeReady
  <2>2. Ready(y) \in RealmRecord /\ Becomes(r, Ready(y))
      BY <1>1, <1>3, OthersMove DEF BecomeReady, y
  <2> QED BY <1>3, <2>1, <2>2 DEF BecomeReady
<1>4. CASE Happen(r)
  <2>1. \E x \in RealmRecord : Becomes(r, x)
      BY <1>1, <1>4, OthersMove DEF Happen, y
  <2> QED BY <1>1, <1>4, <2>1 DEF Happen
<1> QED BY <1>2, <1>3, <1>4 DEF Environment

ToolTypeOK ==
    /\ realms \in [Names -> RealmRecord] /\ next \in [Names -> 1 .. MaxSequence + 1]
    /\ tool \in [name : Tools, realm : Names, at : Steps]
    /\ expired \in BOOLEAN /\ done \in SUBSET Steps
    /\ verdict \in {"none", "success", "failure"}

LEMMA ToolType ==
    ASSUME TypeOK, [Next]_vars
    PROVE  ToolTypeOK'
<1>0. /\ realms \in [Names -> RealmRecord] /\ next \in [Names -> 1 .. MaxSequence + 1]
      /\ tool \in [name : Tools, realm : Names, at : Steps]
      /\ expired \in BOOLEAN /\ done \in SUBSET Steps
      /\ verdict \in {"none", "success", "failure"}
    BY DEF TypeOK
<1>1. CASE UNCHANGED vars
    BY <1>0, <1>1 DEF vars, host, ToolTypeOK
<1>2. ASSUME NEW r \in Names, StartTool(r) PROVE ToolTypeOK'
  <2>1. {"create", "look", "input", "capture", "pause", "resume"} \subseteq Steps
      BY DEF Steps, LaunchSteps, FinishSteps, Methods
  <2>2. {"launch", "finish", "input", "capture", "other"} \subseteq Tools
      BY DEF Tools
  <2>3. ASSUME NEW name \in Tools, NEW step \in Steps, CallTool(name, r, step) PROVE ToolTypeOK'
      BY <1>0, <2>3 DEF CallTool, host, ToolTypeOK
  <2> QED BY <1>2, <2>1, <2>2, <2>3 DEF StartTool
<1>3. ASSUME NEW r \in Names, Environment(r) PROVE ToolTypeOK'
    BY <1>0, <1>3, EnvironmentMoves, Becoming DEF Unused, ToolTypeOK
<1>4. CASE Proceed
  <2>1. ASSUME NEW step \in Steps, Go(step) PROVE ToolTypeOK'
    <3>1. tool' \in [name : Tools, realm : Names, at : Steps]
        BY <1>0, <2>1 DEF Go
    <3>2. expired' \in BOOLEAN
        BY <2>1 DEF Go
    <3> QED BY <1>0, <2>1, <3>1, <3>2 DEF Go, host, ToolTypeOK
  <2>2. ASSUME NEW result \in {"success", "failure"}, Report(result) PROVE ToolTypeOK'
    <3>1. tool' \in [name : Tools, realm : Names, at : Steps]
        BY <1>0, <2>2 DEF Report, Tools, Steps, Methods
    <3>2. realms' \in [Names -> RealmRecord]
        BY <1>0, <2>2, RealmTypes DEF Report
    <3> QED BY <1>0, <2>2, <3>1, <3>2 DEF Report, ToolTypeOK
  <2> QED BY <1>4, <2>1, <2>2, Advances
<1>5. CASE Expire
    BY <1>0, <1>5 DEF Expire, host, ToolTypeOK
<1>6. CASE ClientStep
    BY <1>0, <1>6 DEF ClientStep, host, ToolTypeOK
<1>7. CASE ServerStep
  <2>0. sent # <<>> /\ Head(sent).realm \in Names
      BY <1>7, Serves, FirstRequest DEF Request
  <2>1. ASSUME NEW ok \in BOOLEAN, NEW x \in RealmRecord, Answer(ok, x) PROVE ToolTypeOK'
    <3>1. realms' \in [Names -> RealmRecord]
        BY <2>0, <2>1, Becoming DEF Answer
    <3>2. done' \in SUBSET Steps
        BY <1>0, <2>1 DEF Answer
    <3> QED BY <1>0, <2>1, <3>1, <3>2 DEF Answer, ToolTypeOK
  <2>2. ASSUME NEW is \in Events, Accept(is) PROVE ToolTypeOK'
    <3>1. next[Head(sent).realm] \in 1 .. MaxSequence
        BY <1>0, <2>0, <2>2, SequenceAssumption DEF Accept
    <3>2. next' \in [Names -> 1 .. MaxSequence + 1]
        BY <1>0, <2>0, <2>2, <3>1, SequenceAssumption DEF Accept
    <3> QED BY <1>0, <2>2, <3>2 DEF Accept, ToolTypeOK
  <2> QED BY <1>7, <2>1, <2>2, Serves
<1>8. CASE Complete
  <2>1. done' \in SUBSET Steps
      BY <1>0, <1>8 DEF Complete
  <2> QED BY <1>0, <1>8, <2>1 DEF Complete, host, ToolTypeOK
<1>9. CASE Closes
    BY <1>0, <1>9 DEF Closes, host, ToolTypeOK
<1> QED BY <1>1, <1>2, <1>3, <1>4, <1>5, <1>6, <1>7, <1>8, <1>9 DEF Next

LEMMA TypeKept == TypeOK /\ [Next]_vars => TypeOK'
BY ClientType, ToolType DEF TypeOK, ToolTypeOK

\* Everything keeps its type: the calls, the queues, and the realms.
THEOREM TypeCorrect == Spec => []TypeOK
<1>1. Init => TypeOK
  <2> SUFFICES ASSUME Init PROVE TypeOK
      OBVIOUS
  <2>1. ClientTypeOK
      BY DoneType, EmptySeq DEF Init, ClientInit, ClientTypeOK
  <2>2. NoRealm \in RealmRecord
      BY DEF NoRealm, RealmRecord, RealmStates
  <2>3. tool \in [name : Tools, realm : Names, at : Steps]
      BY DEF Init, Tools, Steps, Methods
  <2>4. next \in [Names -> 1 .. MaxSequence + 1]
      BY SequenceAssumption DEF Init
  <2> QED BY <2>1, <2>2, <2>3, <2>4 DEF Init, TypeOK
<1> QED BY <1>1, TypeKept, PTL DEF Spec

-----------------------------------------------------------------------------
(* The client in step with the server. *)

LEMMA InPlaceKept ==
    ASSUME TypeOK, InPlace, [Next]_vars
    PROVE  InPlace'
<1> DEFINE Shut == socket = "closed" => sent = <<>> /\ pending = {}
           Placed == \/ call.stage = "done" /\ Idle
                     \/ call.stage = "response" /\ (Asking \/ Responded)
                     \/ call.stage = "event" /\ Expecting
<1>0. Shut /\ (~late => Placed) /\ ClientTypeOK
    BY DEF InPlace, TypeOK
<1>00. \A ok \in BOOLEAN : Done(ok).stage = "done"
    BY DEF Done
<1>1. CASE UNCHANGED clientVars
    BY <1>1 DEF clientVars, InPlace, Idle, Asking, Responded, Expecting, Working, Awaited, Only
<1>2. ASSUME NEW method \in Methods, NEW realm \in Names, Begin(method, realm) PROVE InPlace'
  <2>1. Shut'
      BY <1>0, <1>2, NoneDisowned DEF Begin
  <2>2. ASSUME ~late PROVE Placed'
    <3>1. Idle
        BY <1>0, <1>2, <2>2 DEF Begin
    <3>2. received' = <<>> /\ pending' = {} /\ UNCHANGED socket
        BY <1>2, <3>1, NoneDisowned DEF Begin, Idle
    <3>3. CASE socket = "open" /\ Len(sent) < MaxSent
      <4> DEFINE q == [method |-> method, realm |-> realm, mine |-> TRUE]
      <4>1. sent' = Append(<<>>, q)
          BY <1>2, <3>1, <3>3, NoneDisowned DEF Begin, Idle
      <4>2. call'.stage = "response" /\ call'.method = method
          BY <1>2, <3>3 DEF Begin, Done
      <4>3. Only(sent') /\ Head(sent') = q
          BY <4>1, AppendToEmpty DEF Only
      <4>4. Head(sent').mine /\ Head(sent').method = call'.method
          BY <4>2, <4>3
      <4> QED BY <3>2, <4>2, <4>3, <4>4 DEF Asking
    <3>4. CASE ~(socket = "open" /\ Len(sent) < MaxSent)
        BY <1>2, <3>1, <3>2, <3>4, <1>00, NoneDisowned DEF Begin, Idle
    <3> QED BY <3>3, <3>4
  <2> QED BY <1>2, <2>1, <2>2 DEF InPlace, Begin
<1>3. CASE Ends
  <2>1. Done(TRUE).stage = "done"
      BY <1>00
  <2> QED BY <1>0, <1>3, <2>1 DEF Ends, InPlace, Idle
<1>4. CASE ReadPacket
  <2> DEFINE p == Head(received)
  <2>1. /\ received # <<>> /\ received' = Tail(received) /\ p \in Packet
        /\ call' = IF call.stage = "response" THEN AfterResponse(p) ELSE AfterEvent(p)
        /\ UNCHANGED <<socket, sent, pending, late>>
      BY <1>0, <1>4, HeadTailProperties DEF ReadPacket, ClientTypeOK
  <2>2. ASSUME ~late, call.stage = "response" PROVE Placed'
    <3>1. Responded
        BY <1>0, <2>1, <2>2 DEF Asking
    <3>2. CASE ~p.ok
      <4>1. call'.stage = "done"
          BY <1>00, <2>1, <2>2, <3>2 DEF AfterResponse, Answered
      <4> QED BY <2>1, <3>1, <3>2, <4>1 DEF Responded, Only, Idle
    <3>3. CASE p.ok /\ call.method \in Events
      <4>1. call'.stage = "event" /\ call'.sequence = p.sequence /\ call'.method = call.method
          BY <1>0, <2>1, <2>2, <3>1, <3>3 DEF AfterResponse, Answered, Responded, Events, ClientTypeOK, CallRecord
      <4> QED BY <2>1, <3>1, <3>3, <4>1 DEF Responded, Expecting, Only, Working, Awaited
    <3>4. CASE p.ok /\ call.method \notin Events
      <4>1. call'.stage = "done"
          BY <2>1, <2>2, <3>1, <3>4 DEF AfterResponse, Answered, Responded, Done, Events
      <4>2. ~Working(p.sequence)
          BY <1>0, <3>4 DEF Working, Awaited, ClientTypeOK, Accepted, Events
      <4>3. Only(received) /\ pending = {}
        <5>1. ASSUME Only(Tail(received)), Awaited(Head(Tail(received)), p.sequence) PROVE FALSE
          <6>1. Head(Tail(received)) \in Packet
              BY <1>0, <2>1, <5>1, HeadTailProperties DEF Only, ClientTypeOK
          <6>2. call.method \in Methods
              BY <1>0 DEF ClientTypeOK, CallRecord
          <6> QED BY <3>4, <5>1, <6>1, <6>2 DEF Awaited, Events, Packet, Methods
        <5> QED BY <3>1, <4>2, <5>1 DEF Responded
      <4> QED BY <2>1, <3>1, <4>1, <4>3 DEF Responded, Only, Idle
    <3> QED BY <3>2, <3>3, <3>4, <2>1 DEF Packet
  <2>3. ASSUME ~late, call.stage = "event" PROVE Placed'
    <3>1. Only(received) /\ pending = {} /\ sent = <<>> /\ Awaited(p, call.sequence)
        BY <1>0, <2>1, <2>3 DEF Expecting
    <3>2. p.is \in Events /\ p.is = call.method
        BY <1>0, <2>1, <3>1 DEF Awaited, ClientTypeOK, CallRecord, Packet, Methods, Events
    <3>3. Completes(p)
        BY <3>1, <3>2 DEF Completes, Awaited, Events
    <3>4. call'.stage = "done"
        BY <2>1, <2>3, <3>3, <1>00 DEF AfterEvent, Packet
    <3> QED BY <2>1, <3>1, <3>4 DEF Only, Idle
  <2>4. Shut'
      BY <1>0, <2>1
  <2>5. call.stage \in {"response", "event"}
      BY <1>0, <1>4 DEF ReadPacket, ClientTypeOK, CallRecord
  <2>6. ~late' => Placed'
      BY <2>1, <2>2, <2>3, <2>5
  <2> QED BY <2>4, <2>6 DEF InPlace
<1>5. CASE TimeOut
  <2>1. ASSUME ~late, ~Coming, call.stage # "done" PROVE Idle
    <3>1. \A q \in Range(sent) : ~q.mine
        BY <2>1 DEF Coming, Range
    <3>2. \A q \in Range(received) : ~q.mine
        BY <2>1 DEF Coming, Range
    <3>3. ~Asking \/ Idle
        BY <1>0, <3>1, QueueRanges DEF Asking, Only, Idle, ClientTypeOK
    <3>4. ~Responded
        BY <1>0, <3>2, QueueRanges DEF Responded, ClientTypeOK
    <3>5. ~Working(call.sequence)
        BY <2>1 DEF Working, Awaited, Coming
    <3>6. ~Expecting \/ Idle
        BY <1>0, <3>2, <3>5, QueueRanges DEF Expecting, Only, Awaited, Idle, ClientTypeOK
    <3> QED BY <1>0, <2>1, <3>3, <3>4, <3>6
  <2>2. call'.stage = "done" /\ UNCHANGED <<socket, sent, received, pending>>
      BY <1>5, <1>00 DEF TimeOut
  <2>3. ~late' => ~late /\ ~Coming /\ call.stage # "done"
      BY <1>0, <1>5 DEF TimeOut
  <2> QED BY <1>0, <2>1, <2>2, <2>3 DEF InPlace, Idle
<1>6. CASE HangUp
  <2>1. call'.stage = "done" /\ UNCHANGED <<socket, sent, received, pending, late>>
      BY <1>6, <1>00 DEF HangUp
  <2> QED BY <1>0, <1>6, <2>1 DEF HangUp, InPlace, Idle
<1>7. CASE Close
  <2>1. /\ socket' = "closed" /\ sent' = <<>> /\ pending' = {}
        /\ UNCHANGED <<call, received, late>>
      BY <1>7 DEF Close
  <2>2. Asking => Asking'
      BY <2>1 DEF Asking
  <2>3. Responded => Responded'
      BY <2>1 DEF Responded, Only, Awaited
  <2>4. Expecting => Expecting'
      BY <2>1 DEF Expecting, Only, Awaited
  <2> QED BY <1>0, <1>7, <2>1, <2>2, <2>3, <2>4 DEF InPlace, Close
<1>8. CASE Responds
  <2>1. sent # <<>> /\ sent' = Tail(sent) /\ UNCHANGED <<socket, call, late>>
      BY <1>8 DEF Responds, Respond
  <2>2. socket # "closed"
      BY <1>0, <2>1
  <2>3. ASSUME ~late PROVE Placed'
    <3>1. call.stage = "response" /\ Asking /\ Only(sent) /\ Head(sent).mine
          /\ Head(sent).method = call.method /\ received = <<>> /\ pending = {}
        BY <1>0, <2>1, <2>3 DEF Asking, Responded, Expecting, Idle
    <3>2. ASSUME NEW ok, NEW state, NEW n, Respond(ok, state, n)
          PROVE  /\ Only(received') /\ Head(received').is = "response" /\ Head(received').mine
                 /\ Head(received').ok = ok /\ Head(received').sequence = n
      <4> DEFINE p == [is |-> "response", mine |-> Head(sent).mine, ok |-> ok,
                       state |-> state, sequence |-> n]
      <4>1. received' = Append(<<>>, p)
          BY <3>1, <3>2 DEF Respond
      <4> QED BY <3>1, <4>1, AppendToEmpty DEF Only
    <3>3. CASE UNCHANGED pending
      <4>1. Only(received') /\ Head(received').is = "response" /\ Head(received').mine
          BY <1>8, <3>2 DEF Responds
      <4> QED BY <2>1, <3>1, <3>3, <4>1 DEF Responded, Only
    <3>4. CASE pending' # pending
      <4> DEFINE m == Head(sent).method
      <4>1. PICK n \in Nat :
                /\ m \in Events /\ Respond(TRUE, "NONE", IF m = "input" THEN n ELSE 0)
                /\ pending' = pending \cup {[is |-> m, realm |-> Head(sent).realm,
                       sequence |-> IF m = "input" THEN n ELSE 0, mine |-> Head(sent).mine]}
          BY <1>8, <3>4 DEF Responds
      <4> DEFINE number == IF m = "input" THEN n ELSE 0
                 x == [is |-> m, realm |-> Head(sent).realm, sequence |-> number,
                       mine |-> Head(sent).mine]
      <4>2. pending' = {x} /\ x.mine /\ x.is = call'.method /\ x.sequence = number
          BY <2>1, <3>1, <4>1
      <4>3. /\ Only(received') /\ Head(received').is = "response" /\ Head(received').mine
            /\ Head(received').ok /\ Head(received').sequence = number
          BY <4>1, <3>2
      <4> HIDE DEF x, number
      <4>4. sent' = <<>> /\ received' # <<>>
          BY <2>1, <3>1, <4>3 DEF Only
      <4>5. PICK y \in pending' :
                /\ pending' = {y} /\ y.mine /\ y.is = call'.method
                /\ y.sequence = Head(received').sequence
          BY <4>2, <4>3
      <4>6. Awaited(y, Head(received).sequence)'
          BY <4>5 DEF Awaited
      <4>7. Working(Head(received).sequence)'
          BY <4>5, <4>6 DEF Working
      <4>8. Responded'
          BY <4>3, <4>4, <4>7 DEF Responded, Only
      <4> QED BY <2>1, <3>1, <4>8
    <3> QED BY <3>3, <3>4
  <2> QED BY <2>1, <2>2, <2>3 DEF InPlace
<1>9. ASSUME NEW x \in pending, NEW ok \in BOOLEAN, Finish(x, ok) PROVE InPlace'
  <2> DEFINE e == [is |-> x.is, mine |-> x.mine, ok |-> ok, state |-> "NONE", sequence |-> x.sequence]
  <2>1. /\ pending' = pending \ {x} /\ UNCHANGED <<socket, call, sent, late>>
        /\ received' = Append(received, e) \/ UNCHANGED received
      BY <1>9 DEF Finish
  <2>2. e \in Packet
      BY <1>0 DEF ClientTypeOK, Accepted, Packet, RealmStates
  <2>4. ASSUME ~late, Responded, call.stage = "response" PROVE Responded'
    <3>1. /\ Only(received) /\ Head(received).ok /\ pending = {x}
          /\ Awaited(x, Head(received).sequence)
        BY <2>4 DEF Responded, Working
    <3>2. pending' = {}
        BY <2>1, <3>1
    <3>3. CASE received' = Append(received, e)
      <4>0. received \in Seq(Packet)
          BY <1>0 DEF ClientTypeOK
      <4> HIDE DEF e
      <4>1. /\ received' # <<>> /\ Head(received') = Head(received)
            /\ Only(Tail(received')) /\ Head(Tail(received')) = e
          BY <2>2, <3>1, <3>3, <4>0, AppendToOne
      <4> USE DEF e
      <4>2. Awaited(e, Head(received).sequence)'
          BY <2>1, <3>1 DEF Awaited
      <4> QED BY <2>1, <2>4, <3>1, <3>2, <4>1, <4>2 DEF Responded, Awaited
    <3>4. CASE UNCHANGED received
        BY <2>1, <2>4, <3>1, <3>2, <3>4 DEF Responded, Only
    <3> QED BY <2>1, <3>3, <3>4
  <2>5. ASSUME ~late, Expecting, call.stage = "event" PROVE Expecting'
    <3>1. received = <<>> /\ pending = {x} /\ Awaited(x, call.sequence)
        BY <2>5 DEF Expecting, Working
    <3>2. pending' = {}
        BY <2>1, <3>1
    <3>3. CASE received' = Append(<<>>, e)
      <4>1. Only(received') /\ Head(received') = e
          BY <3>3, AppendToEmpty DEF Only
      <4>2. Awaited(e, call.sequence)'
          BY <2>1, <3>1 DEF Awaited
      <4> QED BY <2>1, <2>5, <3>2, <4>1, <4>2 DEF Expecting, Awaited
    <3>4. CASE UNCHANGED received
        BY <2>1, <2>5, <3>1, <3>2, <3>4 DEF Expecting
    <3> QED BY <2>1, <3>1, <3>3, <3>4
  <2>6. Shut'
      BY <1>0, <1>9, <2>1
  <2>7. ~late => Placed'
      BY <1>0, <2>1, <2>4, <2>5 DEF Idle, Asking
  <2> QED BY <2>1, <2>6, <2>7 DEF InPlace
<1> QED BY <1>1, <1>2, <1>3, <1>4, <1>5, <1>6, <1>7, <1>8, <1>9, ClientMoves DEF Begins, Finishes
LEMMA InPlaceIsInStep ==
    ASSUME TypeOK, InPlace
    PROVE  InStep
<1> SUFFICES ASSUME socket = "open", ~late PROVE InStep
    BY DEF InStep
<1> ClientTypeOK
    BY DEF TypeOK
<1>1. CASE call.stage = "done" /\ Idle
    BY <1>1 DEF Idle, InStep, Coming
<1>2. ASSUME NEW S, NEW s \in Seq(S), Only(s), Head(s).mine PROVE \A i \in DOMAIN s : s[i].mine
  <2>1. Len(s) \in Nat \ {0} /\ s # <<>> /\ Tail(s) = <<>>
      BY <1>2, EmptySeq DEF Only
  <2>2. Len(Tail(s)) = Len(s) - 1 /\ Len(Tail(s)) = 0
      BY <2>1, HeadTailProperties, EmptySeq
  <2>3. Len(s) = 1 /\ DOMAIN s = 1 .. Len(s) /\ Head(s) = s[1]
      BY <2>1, <2>2, LenProperties
  <2> QED BY <1>2, <2>3
<1>3. CASE call.stage = "response" /\ Asking
    BY <1>2, <1>3 DEF Asking, InStep, ClientTypeOK
<1>4. CASE call.stage = "response" /\ Responded
  <2>1. \A x \in pending : x.mine
      BY <1>4 DEF Responded, Working, Awaited
  <2>2. \A i \in DOMAIN received : received[i].mine
    <3>1. CASE Only(received)
        BY <1>2, <1>4, <3>1 DEF Responded, ClientTypeOK
    <3>2. CASE Only(Tail(received)) /\ Head(Tail(received)).mine
      <4>1. received # <<>> /\ Len(received) \in Nat /\ DOMAIN received = 1 .. Len(received)
            /\ received[1].mine
          BY <1>4, EmptySeq, LenProperties DEF Responded, ClientTypeOK
      <4>2. /\ Tail(received) \in Seq(Packet) /\ Len(Tail(received)) = Len(received) - 1
            /\ \A i \in 1 .. Len(Tail(received)) : Tail(received)[i] = received[i+1]
          BY <4>1, HeadTailProperties DEF ClientTypeOK
      <4>3. \A i \in 1 .. Len(received) - 1 : received[i+1].mine
          BY <1>2, <3>2, <4>2, LenProperties
      <4>4. ASSUME NEW i \in 1 .. Len(received) PROVE received[i].mine
        <5>1. CASE i = 1
            BY <4>1, <5>1
        <5>2. CASE i # 1
          <6>1. i - 1 \in 1 .. Len(received) - 1 /\ (i - 1) + 1 = i
              BY <4>1, <5>2
          <6> QED BY <4>3, <6>1
        <5> QED BY <5>1, <5>2
      <4> QED BY <4>1, <4>4
    <3> QED BY <1>4, <3>1, <3>2 DEF Responded, Awaited
  <2> QED BY <1>4, <2>1, <2>2 DEF Responded, InStep
<1>5. CASE call.stage = "event" /\ Expecting
  <2>1. \A x \in pending : x.mine
      BY <1>5 DEF Expecting, Working, Awaited
  <2>2. \A i \in DOMAIN received : received[i].mine
      BY <1>2, <1>5 DEF Expecting, Awaited, ClientTypeOK
  <2> QED BY <1>5, <2>1, <2>2 DEF Expecting, InStep
<1> QED BY <1>1, <1>3, <1>4, <1>5 DEF InPlace

\* A client that never gave up on an answer that still came has nothing under
\* way between two calls, and only what belongs to the call during one.
THEOREM StaysInStep == Spec => []InStep
<1>1. Init => InPlace
    BY DEF Init, ClientInit, InPlace, Idle, Done
<1>2. TypeOK /\ InPlace /\ [Next]_vars => InPlace'
    BY InPlaceKept
<1>3. TypeOK /\ InPlace => InStep
    BY InPlaceIsInStep
<1> QED BY <1>1, <1>2, <1>3, TypeCorrect, PTL DEF Spec

-----------------------------------------------------------------------------
(* The steps of a tool. *)

\* A launch that takes a step has done the ones before it.
LEMMA GoesOn ==
    ASSUME TypeOK, InHand, StepByStep, Proceed
    PROVE  \/ \E step \in StepsOf[tool.name] :
                  /\ Go(step)
                  /\ tool.name = "launch" =>
                         /\ step # "create" /\ "create" \in done
                         /\ step \in LaunchSteps => Earlier[step] \subseteq done
           \/ \E result : Report(result)
<1> USE DEF Fail
<1> DEFINE Goal ==
           \/ \E step \in StepsOf[tool.name] :
                  /\ Go(step)
                  /\ tool.name = "launch" =>
                         /\ step # "create" /\ "create" \in done
                         /\ step \in LaunchSteps => Earlier[step] \subseteq done
           \/ \E result : Report(result)
<1>0. call.stage = "done"
    BY DEF Proceed
<1>1. CASE Launch
  <2>1. tool.name = "launch" /\ tool.at \in LaunchSteps /\ Earlier[tool.at] \subseteq done
        /\ LaunchSteps \cup FinishSteps \subseteq StepsOf[tool.name]
      BY <1>1 DEF Launch, StepByStep, StepsOf
  <2>2. call.ok => tool.at \in done
      BY <1>0, <2>1 DEF InHand
  <2>3. tool.at # "create" => "create" \in done
      BY <2>1 DEF StepByStep
  <2>4. CASE ~call.ok
      BY <1>1, <2>1, <2>3, <2>4 DEF Launch, LaunchFails, FinishSteps, LaunchSteps
  <2>5. CASE call.ok /\ tool.at = "await"
    <3>1. {"observe", "await", "look"} \subseteq StepsOf[tool.name]
        BY <2>1 DEF LaunchSteps, FinishSteps
    <3>2. Earlier["observe"] \subseteq done /\ Earlier["await"] \subseteq done
        BY <2>1, <2>2, <2>5 DEF Earlier, LaunchSteps
    <3>3. "look" \notin LaunchSteps
        BY DEF LaunchSteps
    <3>4. Await
        BY <1>1, <2>5 DEF Launch
    <3> QED BY <2>1, <2>3, <2>5, <3>1, <3>2, <3>3, <3>4 DEF Await, LaunchFails
  <2>6. CASE call.ok /\ tool.at # "await"
    <3>1. CASE tool.at = "open"
        BY <1>1, <2>6, <3>1 DEF Launch
    <3>2. CASE tool.at # "open"
      <4>1. Go(Following[tool.at])
          BY <1>1, <2>6, <3>2 DEF Launch
      <4>2. Following[tool.at] \in LaunchSteps \ {"create"}
          BY <2>1, <2>6, <3>2 DEF Following, LaunchSteps
      <4>3. Earlier[Following[tool.at]] \subseteq done
          BY <2>1, <2>2, <2>6, <3>2 DEF Following, Earlier, LaunchSteps
      <4>4. "create" \in done
          BY <2>2, <2>3, <2>6
      <4> QED BY <2>1, <4>1, <4>2, <4>3, <4>4
    <3> QED BY <3>1, <3>2
  <2> QED BY <2>4, <2>5, <2>6
<1>2. CASE Finishing
  <2>1. FinishSteps \subseteq StepsOf[tool.name] /\ tool.at \in FinishSteps
      BY <1>2 DEF Finishing, StepsOf
  <2>2. tool.name = "launch" => "create" \in done
      BY <2>1 DEF StepByStep, FinishSteps
  <2>3. ASSUME NEW step \in FinishSteps, Go(step) PROVE Goal
      BY <2>1, <2>2, <2>3 DEF FinishSteps, LaunchSteps
  <2>4. ASSUME NEW result, Report(result) PROVE Goal
      BY <2>4
  <2> HIDE DEF Goal
  <2>5. Goal
      BY <1>2, <2>3, <2>4 DEF Finishing, Look, Again, Destroyed, FinishSteps
  <2> QED BY <2>5 DEF Goal
<1>3. CASE Other
    BY <1>3 DEF Other
<1>4. CASE Capture
  <2>1. tool.name = "capture" /\ "capture" \in StepsOf[tool.name]
      BY <1>4 DEF Capture, StepsOf
  <2> QED BY <1>4, <2>1 DEF Capture
<1> QED BY <1>1, <1>2, <1>3, <1>4 DEF Proceed

LEMMA Begun ==
    ASSUME NEW method, NEW realm, Begin(method, realm)
    PROVE  ~call'.ok /\ (call'.stage # "done" => call'.method = method)
<1>1. Done(FALSE).stage = "done" /\ Done(FALSE).ok = FALSE
    BY DEF Done
<1> DEFINE c == [Done(FALSE) EXCEPT !.stage = "response", !.method = method]
<1>2. c.ok = FALSE /\ c.method = method
    BY DEF Done
<1>3. call' = c \/ call' = Done(FALSE)
    BY DEF Begin
<1> HIDE DEF c
<1> QED BY <1>1, <1>2, <1>3

\* A call of a step that begins: nothing under way shows its success.
LEMMA BegunInHand ==
    ASSUME TypeOK, NEW step \in Steps, Begin(Method(step), tool'.realm), tool'.at = step,
           tool'.name # "none" => step \in StepsOf[tool'.name]
    PROVE  InHand'
<1> DEFINE q == [method |-> Method(step), realm |-> tool'.realm, mine |-> TRUE]
<1>1. call'.stage # "done" => call'.method = Method(step)
    BY Begun
<1>2. ~call'.ok
    BY Begun
<1>3. \A r \in Range(sent') : r.mine => r.method = Method(step) /\ r.realm = tool'.realm
  <2>1. CASE sent' = Disowned(sent)
      BY <2>1, NoneMine DEF TypeOK
  <2>2. CASE sent' = Append(Disowned(sent), q)
    <3>1. Disowned(sent) \in Seq(Request) /\ Disowned(sent) \in Seq(Request \cup {q})
        BY NoneMine, SeqMonotonic DEF TypeOK
    <3>2. Range(sent') \subseteq Range(Disowned(sent)) \cup {q}
        BY <2>2, <3>1, QueueRanges
    <3> QED BY <3>2, NoneMine DEF TypeOK
  <2> QED BY <2>1, <2>2 DEF Begin
<1>4. \A p \in Range(received') : ~p.mine
    BY NoneMine, EmptySeq DEF Begin, TypeOK, Range
<1>5. Method(tool'.at) = Method(step)
    OBVIOUS
<1> HIDE DEF q
<1> QED BY <1>1, <1>2, <1>3, <1>4 DEF InHand, Shows, Method
LEMMA InHandKept ==
    ASSUME TypeOK, InPlace, InHand, StepByStep, [Next]_vars
    PROVE  InHand'
<1>0. ClientTypeOK /\ done \subseteq Steps /\ tool.realm \in Names
    BY DEF TypeOK
<1>1. CASE UNCHANGED vars
    BY <1>1 DEF vars, clientVars, InHand, Shows, Method
<1>2. ASSUME NEW r \in Names, StartTool(r) PROVE InHand'
  <2>1. ASSUME NEW name \in Tools, NEW step \in Steps, CallTool(name, r, step),
               step \in StepsOf[name]
        PROVE  InHand'
      BY <2>1, BegunInHand DEF CallTool
  <2>2. {"create", "look", "input", "capture", "pause", "resume"} \subseteq Steps
      BY DEF Steps, LaunchSteps, FinishSteps, Methods
  <2>3. {"launch", "finish", "input", "capture", "other"} \subseteq Tools
      BY DEF Tools
  <2>4. /\ "create" \in StepsOf["launch"] /\ "look" \in StepsOf["finish"]
        /\ "input" \in StepsOf["input"] /\ "capture" \in StepsOf["capture"]
        /\ \A method \in {"pause", "resume"} : method \in StepsOf["other"]
      BY DEF StepsOf, LaunchSteps, FinishSteps
  <2> QED BY <1>2, <2>1, <2>2, <2>3, <2>4 DEF StartTool
<1>3. ASSUME NEW r \in Names, Environment(r) PROVE InHand'
  <2>1. UNCHANGED <<clientVars, tool, done>>
      BY <1>3, EnvironmentMoves DEF Unused
  <2> QED BY <2>1 DEF clientVars, InHand, Shows, Method
<1>4. CASE Proceed
  <2>1. ASSUME NEW step \in StepsOf[tool.name], Go(step), tool.name # "none" PROVE InHand'
    <3>1. tool' = [tool EXCEPT !.at = step] /\ Begin(Method(step), tool.realm)
        BY <2>1 DEF Go
    <3>2. tool'.at = step /\ tool'.name = tool.name /\ tool'.realm = tool.realm
        BY <3>1 DEF TypeOK
    <3>3. step \in Steps
        BY <2>1 DEF StepsOf, TypeOK, Tools, Steps, Methods
    <3> QED BY <2>1, <3>1, <3>2, <3>3, BegunInHand
  <2>2. ASSUME NEW result, Report(result) PROVE InHand'
    <3>1. tool'.name = "none"
        BY <2>2 DEF Report, TypeOK
    <3> QED BY <3>1 DEF InHand
  <2>3. tool.name # "none"
      BY <1>4, Advances
  <2> QED BY <1>4, <2>1, <2>2, <2>3, GoesOn
<1>5. CASE Expire
    BY <1>5 DEF Expire, clientVars, InHand, Shows, Method
<1>6. CASE ClientStep
  <2> SUFFICES ASSUME tool.name # "none" PROVE InHand'
      BY <1>6 DEF ClientStep, InHand
  <2>1. UNCHANGED <<tool, done, sent>> /\ (late => late')
      BY <1>6, <1>0 DEF ClientStep, ReadPacket, TimeOut, HangUp, ClientTypeOK
  <2>2. ASSUME call'.stage = "done", ~call'.ok, Range(received') \subseteq Range(received) PROVE InHand'
      BY <2>1, <2>2 DEF InHand, Shows, Method
  <2>3. CASE TimeOut \/ HangUp
      BY <2>2, <2>3 DEF TimeOut, HangUp, Done
  <2>4. CASE ReadPacket
    <3> DEFINE p == Head(received)
    <3>1. /\ call.stage # "done" /\ received # <<>> /\ received' = Tail(received)
          /\ call' = IF call.stage = "response" THEN AfterResponse(p) ELSE AfterEvent(p)
          /\ UNCHANGED late
        BY <2>4 DEF ReadPacket
    <3>2. Range(received') \subseteq Range(received) /\ p \in Range(received) /\ p \in Packet
        BY <1>0, <3>1, QueueRanges DEF ClientTypeOK
    <3>3. call.method = Method(tool.at) /\ (Shows(p) => tool.at \in done)
        BY <3>1, <3>2 DEF InHand
    <3>4. \A ok \in BOOLEAN : Done(ok).stage = "done" /\ Done(ok).ok = ok
        BY DEF Done
    <3>5. CASE call.stage = "response"
      <4>1. CASE ~Answered(p)
          BY <2>2, <3>1, <3>2, <3>4, <3>5, <4>1 DEF AfterResponse
      <4>2. CASE Answered(p) /\ call.method \in Events
        <5>1. call'.stage = "event" /\ call'.method = call.method
            BY <1>0, <3>1, <3>5, <4>2 DEF AfterResponse, Events, ClientTypeOK, CallRecord
        <5> QED BY <2>1, <3>1, <3>2, <3>3, <5>1 DEF InHand, Shows, Method
      <4>3. CASE Answered(p) /\ call.method \notin Events
        <5>1. call'.stage = "done"
            BY <3>1, <3>5, <4>3 DEF AfterResponse, Events, Done
        <5>2. tool.at \in done
            BY <3>3, <4>3 DEF Answered, Shows
        <5> QED BY <2>1, <3>1, <3>2, <5>1, <5>2 DEF InHand, Shows, Method
      <4> QED BY <4>1, <4>2, <4>3
    <3>6. CASE call.stage = "event"
      <4>1. CASE Completes(p)
        <5>1. call'.stage = "done" /\ call'.ok = p.ok
            BY <3>1, <3>2, <3>4, <3>6, <4>1 DEF AfterEvent, Packet
        <5>2. p.ok /\ (tool.name = "input" => ~late) => tool.at \in done
          <6> SUFFICES ASSUME p.ok, tool.name = "input" => ~late PROVE tool.at \in done
              OBVIOUS
          <6>1. p.is \in Events
              BY <4>1 DEF Completes, Events
          <6>2. CASE p.mine
              BY <3>3, <6>1, <6>2 DEF Shows, Events
          <6>3. CASE ~p.mine
            <7>1. call.method = "input"
                BY <4>1, <6>3 DEF Completes
            <7>2. tool.name = "input"
                BY <3>3, <7>1 DEF InHand, StepsOf, Method, LaunchSteps, FinishSteps, TypeOK, Tools
            <7>3. ~late /\ InPlace
                BY <7>2
            <7>4. Expecting
                BY <3>6, <7>3 DEF InPlace
            <7> QED BY <3>1, <6>3, <7>4 DEF Expecting, Awaited
          <6> QED BY <6>2, <6>3
        <5> QED BY <2>1, <3>1, <3>2, <5>1, <5>2 DEF InHand, Shows, Method
      <4>2. CASE ~Completes(p) /\ (HasDescriptor(p) \/ call.ignored + 1 = MaxIgnored)
          BY <2>2, <3>1, <3>2, <3>4, <3>6, <4>2 DEF AfterEvent
      <4>3. CASE ~Completes(p) /\ ~(HasDescriptor(p) \/ call.ignored + 1 = MaxIgnored)
        <5>1. call'.stage = "event" /\ call'.method = call.method
            BY <1>0, <3>1, <3>6, <4>3 DEF AfterEvent, ClientTypeOK, CallRecord
        <5> QED BY <2>1, <3>1, <3>2, <3>3, <5>1 DEF InHand, Shows, Method
      <4> QED BY <4>1, <4>2, <4>3
    <3> QED BY <1>0, <3>1, <3>5, <3>6 DEF ClientTypeOK, CallRecord
  <2> QED BY <1>6, <2>3, <2>4 DEF ClientStep
<1>7. CASE ServerStep
  <2>0. sent # <<>> /\ Head(sent) \in Range(sent) /\ Range(Tail(sent)) \subseteq Range(sent)
        /\ Head(sent) \in Request
      BY <1>0, <1>7, Serves, QueueRanges, FirstRequest DEF ClientTypeOK
  <2>1. ASSUME NEW ok \in BOOLEAN, NEW state \in RealmStates, NEW n \in Nat, Respond(ok, state, n)
        PROVE  /\ sent' = Tail(sent) /\ UNCHANGED <<call, late>>
               /\ \A p \in Range(received') :
                      p \in Range(received) \/ (p.mine => Head(sent).mine /\ p.ok = ok /\ p.is = "response")
    <3> DEFINE p == [is |-> "response", mine |-> Head(sent).mine, ok |-> ok,
                     state |-> state, sequence |-> n]
    <3>1. p \in Packet /\ Stale(p) \in Packet /\ ~Stale(p).mine
        BY <2>0 DEF Packet, Stale, RealmStates, Request
    <3>2. p.mine = Head(sent).mine /\ p.ok = ok /\ p.is = "response"
        OBVIOUS
    <3>3. received' = Append(received, p) \/ received' = Append(received, Stale(p))
        BY <2>1 DEF Respond
    <3> HIDE DEF p
    <3>4. received \in Seq(Packet)
        BY <1>0 DEF ClientTypeOK
    <3>5. Range(received') \subseteq Range(received) \cup {p} \/ Range(received') \subseteq Range(received) \cup {Stale(p)}
        BY <3>1, <3>3, <3>4, QueueRanges
    <3> QED BY <2>1, <3>1, <3>2, <3>5 DEF Respond
  <2>2. ASSUME NEW ok \in BOOLEAN, NEW x \in RealmRecord, Answer(ok, x) PROVE InHand'
    <3>1. /\ Respond(ok, x.state, 0) /\ UNCHANGED tool
          /\ done \subseteq done'
          /\ ok /\ Head(sent).mine => tool.at \in done'
        BY <2>2 DEF Answer
    <3>2. x.state \in RealmStates
        BY DEF RealmRecord
    <3>3. /\ sent' = Tail(sent) /\ UNCHANGED <<call, late>>
          /\ \A p \in Range(received') :
                 p \in Range(received) \/ (p.mine => Head(sent).mine /\ p.ok = ok /\ p.is = "response")
        BY <2>1, <3>1, <3>2
    <3> QED BY <2>0, <3>1, <3>3 DEF InHand, Shows, Method
  <2>3. ASSUME NEW is \in Events, Accept(is) PROVE InHand'
    <3>1. /\ Head(sent).method = is /\ UNCHANGED <<tool, done>>
          /\ \E n : Respond(TRUE, "NONE", n) /\ n = IF is = "input" THEN next[Head(sent).realm] ELSE 0
        BY <2>3 DEF Accept, Asked
    <3>2. next[Head(sent).realm] \in Nat /\ "NONE" \in RealmStates
        BY <2>0, SequenceAssumption DEF TypeOK, Request, RealmStates
    <3>3. PICK n \in Nat : Respond(TRUE, "NONE", n)
        BY <3>1, <3>2
    <3>4. /\ sent' = Tail(sent) /\ UNCHANGED <<call, late>>
          /\ \A p \in Range(received') :
                 p \in Range(received) \/ (p.mine => Head(sent).mine /\ p.ok = TRUE /\ p.is = "response")
        BY <2>1, <3>2, <3>3
    <3>5. tool.name # "none" /\ Head(sent).mine => Method(tool.at) \in Events
        BY <2>0, <3>1 DEF InHand
    <3> QED BY <2>0, <3>1, <3>4, <3>5 DEF InHand, Shows, Method
  <2> QED BY <1>7, <2>2, <2>3, Serves
<1>8. CASE Complete
  <2>1. PICK x \in pending, ok \in BOOLEAN :
            /\ Finish(x, ok) /\ done' = (IF ok /\ x.mine THEN done \cup {tool.at} ELSE done)
            /\ UNCHANGED tool
      BY <1>8 DEF Complete
  <2> DEFINE e == [is |-> x.is, mine |-> x.mine, ok |-> ok, state |-> "NONE", sequence |-> x.sequence]
  <2>2. e \in Packet /\ e.mine = x.mine /\ e.ok = ok
      BY <1>0 DEF ClientTypeOK, Accepted, Packet, RealmStates
  <2>3. /\ received' = Append(received, e) \/ UNCHANGED received
        /\ UNCHANGED <<call, sent, late>>
      BY <2>1 DEF Finish
  <2> HIDE DEF e
  <2>4. received \in Seq(Packet)
      BY <1>0 DEF ClientTypeOK
  <2>5. Range(received') \subseteq Range(received) \cup {e}
      BY <2>2, <2>3, <2>4, QueueRanges
  <2> QED BY <2>1, <2>2, <2>3, <2>5 DEF InHand, Shows, Method
<1>9. CASE Closes
  <2>1. sent' = <<>> /\ UNCHANGED <<call, received, late, tool, done>>
      BY <1>9 DEF Closes, Close
  <2>2. Range(sent') = {}
      BY <2>1 DEF Range
  <2> QED BY <2>1, <2>2 DEF InHand, Shows, Method
<1> QED BY <1>1, <1>2, <1>3, <1>4, <1>5, <1>6, <1>7, <1>8, <1>9 DEF Next
LEMMA StepByStepKept ==
    ASSUME TypeOK, InHand, StepByStep, [Next]_vars
    PROVE  StepByStep'
<1>1. ASSUME UNCHANGED tool, done \subseteq done' PROVE StepByStep'
    BY <1>1 DEF StepByStep
<1>2. ASSUME NEW r \in Names, StartTool(r) PROVE StepByStep'
  <2>1. tool'.name = "launch" => tool'.at = "create"
      BY <1>2 DEF StartTool, CallTool
  <2> QED BY <2>1 DEF StepByStep, Earlier
<1>3. CASE Proceed
  <2>1. ASSUME NEW step \in StepsOf[tool.name], Go(step),
               tool.name = "launch" =>
                   /\ step # "create" /\ "create" \in done
                   /\ step \in LaunchSteps => Earlier[step] \subseteq done
        PROVE  StepByStep'
    <3>1. tool'.name = tool.name /\ tool'.at = step /\ done' = done \ {step}
        BY <2>1 DEF Go, TypeOK
    <3>2. step \in LaunchSteps => step \notin Earlier[step]
        BY DEF LaunchSteps, Earlier
    <3> QED BY <2>1, <3>1, <3>2 DEF StepByStep
  <2>2. ASSUME NEW result, Report(result) PROVE StepByStep'
    <3>1. tool'.name = "none"
        BY <2>2 DEF Report, TypeOK
    <3> QED BY <3>1 DEF StepByStep
  <2> QED BY <1>3, <2>1, <2>2, GoesOn
<1>4. CASE UNCHANGED vars
    BY <1>1, <1>4 DEF vars
<1>5. ASSUME NEW r \in Names, Environment(r) PROVE StepByStep'
    BY <1>1, <1>5, EnvironmentMoves DEF Unused
<1>6. CASE Expire \/ ClientStep \/ Closes
    BY <1>1, <1>6 DEF Expire, ClientStep, Closes
<1>7. CASE ServerStep
    BY <1>1, <1>7, Serves DEF Answer, Accept
<1>8. CASE Complete
    BY <1>1, <1>8 DEF Complete
<1> QED BY <1>2, <1>3, <1>4, <1>5, <1>6, <1>7, <1>8 DEF Next

\* What the steps of a tool rest on.
IInv == TypeOK /\ InPlace /\ InHand /\ StepByStep

THEOREM Invariance == Spec => []IInv
<1>1. Init => InPlace
    BY DEF Init, ClientInit, InPlace, Idle, Done
<1>2. Init => InHand /\ StepByStep
  <2> SUFFICES ASSUME Init PROVE tool.name = "none"
      BY DEF InHand, StepByStep
  <2> QED BY DEF Init
<1>3. IInv /\ [Next]_vars => InPlace' /\ InHand' /\ StepByStep'
    BY InPlaceKept, InHandKept, StepByStepKept DEF IInv
<1>4. Init => InPlace /\ InHand /\ StepByStep
    BY <1>1, <1>2
<1>5. TypeOK /\ (InPlace /\ InHand /\ StepByStep) /\ [Next]_vars => (InPlace /\ InHand /\ StepByStep)'
    BY <1>3 DEF IInv
<1>6. TypeOK /\ (InPlace /\ InHand /\ StepByStep) => IInv
    BY DEF IInv
<1> QED BY <1>4, <1>5, <1>6, TypeCorrect, PTL DEF Spec

\* A launch leaves a realm alone that was there before: it stops and destroys
\* only after it has created one.
THEOREM CleanupIsOwn == Spec => []CleansUpItsOwn
<1>1. IInv => CleansUpItsOwn
    BY DEF IInv, StepByStep, CleansUpItsOwn
<1> QED BY <1>1, Invariance, PTL

LEMMA SuccessfulReport ==
    ASSUME IInv, Proceed, Report("success")
    PROVE  call.ok /\ tool.at \notin {"look", "watch", "stop"} /\ (tool.name = "launch" => tool.at = "open")
<1>0. ~Report("failure")
    BY DEF Report
<1>1. ASSUME NEW step PROVE ~Go(step)
  <2>1. tool.name # "none"
      BY Advances DEF IInv
  <2>2. Go(step) => tool'.name # "none"
      BY <2>1 DEF Go, IInv, TypeOK
  <2>3. tool'.name = "none"
      BY DEF Report, IInv, TypeOK
  <2> QED BY <2>2, <2>3
<1> USE DEF Fail
<1>2. CASE Launch
    BY <1>0, <1>1, <1>2 DEF Launch, LaunchFails, Await
<1>3. CASE Finishing
  <2>1. tool.at = "destroy" /\ call.ok /\ Destroyed
      BY <1>0, <1>1, <1>3 DEF Finishing, Look, Again
  <2> QED BY <1>0, <2>1 DEF Destroyed
<1>4. CASE Other
  <2>1. call.ok
      BY <1>0, <1>4 DEF Other
  <2>2. tool.at \in StepsOf[tool.name]
      BY <1>4 DEF Other, IInv, InHand
  <2> QED BY <1>4, <2>1, <2>2 DEF Other, StepsOf
<1>5. CASE Capture
  <2>1. call.ok
      BY <1>0, <1>5 DEF Capture
  <2>2. tool.at \in StepsOf[tool.name]
      BY <1>5 DEF Capture, IInv, InHand
  <2> QED BY <1>5, <2>1, <2>2 DEF Capture, StepsOf
<1> QED BY <1>2, <1>3, <1>4, <1>5 DEF Proceed

\* What a tool reports as done was done for it by the host: every step of a
\* launch, and the last one of the others; of input unless the client is out of
\* step.
THEOREM RealSuccess == Spec => SuccessIsReal
<1> DEFINE A == tool.name # "none" /\ tool'.name = "none" /\ verdict' = "success" =>
                    /\ tool.name = "launch" => LaunchSteps \subseteq done
                    /\ tool.name \in {"finish", "capture", "other"} => tool.at \in done
                    /\ tool.name = "input" /\ ~late => tool.at \in done
<1>1. ASSUME IInv, [Next]_vars, tool.name # "none", tool'.name = "none", verdict' = "success"
      PROVE  Proceed /\ Report("success")
  <2>1. Proceed
    <3>1. ~UNCHANGED tool
        BY <1>1
    <3>2. ASSUME NEW r \in Names PROVE ~StartTool(r) /\ ~Environment(r)
        BY <1>1, <3>1, EnvironmentMoves DEF StartTool, CallTool, Unused, IInv
    <3>3. ~(Expire \/ ClientStep \/ Complete \/ Closes) /\ ~UNCHANGED vars
        BY <3>1 DEF Expire, ClientStep, Complete, Closes, vars
    <3>4. ~ServerStep
        BY <1>1, <3>1, Serves DEF Answer, Accept, IInv
    <3> QED BY <1>1, <3>2, <3>3, <3>4 DEF Next
  <2>2. ASSUME NEW step PROVE ~Go(step)
      BY <1>1 DEF Go, IInv, TypeOK
  <2> QED BY <1>1, <2>1, <2>2, Advances DEF Report, IInv
<1>2. ASSUME IInv, [Next]_vars PROVE A
  <2> SUFFICES ASSUME tool.name # "none", tool'.name = "none", verdict' = "success"
               PROVE  /\ tool.name = "launch" => LaunchSteps \subseteq done
                      /\ tool.name \in {"finish", "capture", "other"} => tool.at \in done
                      /\ tool.name = "input" /\ ~late => tool.at \in done
      OBVIOUS
  <2>1. call.stage = "done" /\ call.ok /\ (tool.name = "launch" => tool.at = "open")
      BY <1>1, <1>2, SuccessfulReport DEF Proceed
  <2>2. (tool.name = "input" => ~late) => tool.at \in done
      BY <1>2, <2>1 DEF IInv, InHand
  <2>3. tool.name = "launch" => Earlier["open"] \subseteq done
      BY <1>2, <2>1 DEF IInv, StepByStep, LaunchSteps
  <2>4. LaunchSteps \subseteq Earlier["open"] \cup {"open"}
      BY DEF Earlier
  <2> QED BY <2>1, <2>2, <2>3, <2>4
<1>3. IInv /\ [Next]_vars => [A]_vars
    BY <1>2
<1> QED BY <1>3, Invariance, PTL DEF Spec, SuccessIsReal
-----------------------------------------------------------------------------
(* A launch that fails. *)

\* No call without a tool, no event without a method that has one, and nothing
\* runs without processes.
Plain ==
    /\ tool.name = "none" => call.stage = "done"
    /\ call.stage = "event" => call.method \in Events
    /\ \A r \in Names : realms[r].state \in Active => realms[r].process # "none"

\* What was made by a launch is the realm of the one in hand.
Owned == ~late => \A r \in Names : realms[r].made = "launch" => tool.name = "launch" /\ r = tool.realm

\* Once it is halted a realm stays so, unless someone else starts it.
Halted(r) == realms[r].made = "launch" => realms[r].state \notin Active \/ realms[r].process = "gone"

\* What the answer to the call in hand says, read or not.
Granted == (\E p \in Range(received) : p.ok) \/ (call.stage = "done" /\ call.ok)
Quiet == \/ \E p \in Range(received) : ~p.ok \/ p.state \notin Active
         \/ call.stage = "done" /\ (~call.ok \/ call.state \notin Active)
Told == received # <<>> \/ call.stage = "done"

Stops ==
    tool.name = "launch" /\ ~late /\ socket = "open" =>
        /\ tool.at = "create" /\ ~Granted => realms[tool.realm].made = "other"
        /\ tool.at = "look" /\ Quiet => Halted(tool.realm)
        /\ tool.at = "stop" /\ Told => Halted(tool.realm)
        /\ tool.at \in {"watch", "destroy"} => Halted(tool.realm)

\* What the environment makes of a realm.
LEMMA EnvironmentHalts ==
    ASSUME TypeOK, Plain, NEW r \in Names, Environment(r)
    PROVE  \A s \in Names :
               /\ realms[s].made = "other" => realms'[s].made = "other"
               /\ Halted(s) => Halted(s)'
               /\ realms'[s].state \in Active => realms'[s].process # "none"
<1> DEFINE y == realms[r]
<1>0. /\ realms \in [Names -> RealmRecord] /\ y \in RealmRecord
      /\ y.state \in Active => y.process # "none"
    BY DEF TypeOK, Plain
<1>1. PICK x \in RealmRecord : Becomes(r, x)
    BY EnvironmentMoves
<1>2. /\ realms'[r] = x
      /\ \A s \in Names \ {r} : realms'[s] = realms[s]
    BY <1>0, <1>1 DEF Becomes
<1>3. ASSUME NEW z, Becomes(r, z) PROVE z = x
    BY <1>0, <1>1, <1>3 DEF Becomes
<1>4. /\ y.made = "other" => x.made = "other"
      /\ (y.made = "launch" => Inactive(y)) => (x.made = "launch" => Inactive(x))
      /\ Backed(x)
  <2>0. Backed(y)
      BY <1>0 DEF Backed
  <2>1. CASE Elsewhere(r)
    <3>1. PICK z \in Requested(y) :
              x = [z EXCEPT !.made = IF z.state \in {"STOPPED", "CREATING", "NONE"} THEN "other" ELSE @]
        BY <1>3, <2>1 DEF Elsewhere
    <3> HIDE DEF y
    <3>2. /\ z \in RealmRecord /\ z.made = y.made /\ Backed(z)
          /\ Inactive(y) => Inactive(z) \/ z.state = "CREATING"
        BY <1>0, RequestsMove
    <3>3. /\ x.state = z.state /\ x.process = z.process
          /\ x.made = "other" \/ x.made = z.made
          /\ z.state = "CREATING" => x.made = "other"
        BY <3>1, <3>2 DEF RealmRecord
    <3> QED BY <3>2, <3>3 DEF Backed, Inactive
  <2>2. CASE BecomeReady(r)
    <3>1. MayBecomeReady(y) /\ x = Ready(y)
        BY <1>3, <2>2 DEF BecomeReady
    <3> HIDE DEF y
    <3> QED BY <1>0, <2>0, <3>1, OthersMove
  <2>3. CASE Happen(r)
    <3>1. x \in Happened(y)
        BY <1>3, <2>3 DEF Happen
    <3> HIDE DEF y
    <3> QED BY <1>0, <2>0, <3>1, OthersMove
  <2> QED BY <2>1, <2>2, <2>3 DEF Environment
<1> QED BY <1>0, <1>2, <1>4 DEF Halted, Plain, Inactive, Backed

\* What the server makes of one; only create makes it a launch's.
LEMMA ServerMakes ==
    ASSUME TypeOK, Plain, ServerStep, ~UNCHANGED realms
    PROVE  /\ Head(sent).realm \in Names /\ sent # <<>>
           /\ \E x \in RealmRecord :
                 /\ realms' = [realms EXCEPT ![Head(sent).realm] = x]
                 /\ x.state \in Active => x.process # "none"
                 /\ x.made = "launch" =>
                        Wanted.made = "launch" \/ (Head(sent).mine /\ Head(sent).method = "create")
<1>0. sent # <<>> /\ Head(sent) \in Request /\ Wanted \in RealmRecord
    BY Serves, FirstRequest
<1>1. Head(sent).realm \in Names /\ (Wanted.state \in Active => Wanted.process # "none")
    BY <1>0 DEF Request, Plain, Wanted
<1> DEFINE Good(x) == /\ x \in RealmRecord
                      /\ x.state \in Active => x.process # "none"
                      /\ x.made = "launch" =>
                             Wanted.made = "launch" \/ (Head(sent).mine /\ Head(sent).method = "create")
<1>2. Good(Wanted)
    BY <1>0, <1>1
<1>3. ASSUME NEW ok, NEW x, Answer(ok, x), Good(x)
      PROVE  realms' = [realms EXCEPT ![Head(sent).realm] = x]
    BY <1>3 DEF Answer, Becomes
<1>4. CASE ServeUse
  <2>1. ASSUME NEW is, Accept(is) PROVE FALSE
      BY <2>1 DEF Accept
  <2> HIDE DEF Good
  <2>2. \E x : Good(x) /\ realms' = [realms EXCEPT ![Head(sent).realm] = x]
      BY <1>2, <1>3, <1>4, <2>1 DEF ServeUse, Serve, Refuse
  <2> QED BY <1>0, <1>1, <2>2 DEF Good
<1>5. CASE ServeLifecycle
  <2>1. ServeCreate => Good([Created(Wanted) EXCEPT !.made = IF Head(sent).mine THEN "launch" ELSE "other"])
    <3>1. LET x == [Created(Wanted) EXCEPT !.made = IF Head(sent).mine THEN "launch" ELSE "other"]
          IN  /\ x \in RealmRecord /\ x.state = "STOPPED"
              /\ x.made = "launch" => Head(sent).mine
        BY RealmTypes, <1>0 DEF Created, RealmRecord
    <3> QED BY <3>1 DEF ServeCreate, Asked, Active
  <2>2. Good(NoRealm)
      BY RealmTypes, <1>0 DEF NoRealm, Active
  <2>0. ASSUME NEW y \in RealmRecord
        PROVE  /\ Started(y).made = y.made /\ Started(y).process = "live"
               /\ Stopped(y).made = y.made /\ Stopped(y).state = "STOPPING"
               /\ Paused(y).made = y.made /\ Paused(y).process = y.process
               /\ Resumed(y).made = y.made /\ Resumed(y).process = y.process
      BY DEF Started, Stopped, Paused, Resumed, RealmRecord
  <2>3. Good(Started(Wanted))
      BY RealmTypes, <1>0, <2>0
  <2>4. Good(Stopped(Wanted))
      BY RealmTypes, <1>0, <2>0 DEF Active
  <2>5. MayPause(Wanted) => Good(Paused(Wanted))
      BY RealmTypes, <1>0, <2>0 DEF MayPause
  <2>6. MayResume(Wanted) => Good(Resumed(Wanted))
      BY RealmTypes, <1>0, <2>0 DEF MayResume
  <2>7. \A x \in BadStarts(Wanted) : Good(x)
      BY <1>0 DEF BadStarts, RealmRecord, RealmStates, Active
  <2> HIDE DEF Good
  <2>8. \E x : Good(x) /\ realms' = [realms EXCEPT ![Head(sent).realm] = x]
      BY <1>2, <1>3, <1>5, <2>1, <2>2, <2>3, <2>4, <2>5, <2>6, <2>7
         DEF ServeLifecycle, ServeCreate, ServeBadStart, Serve, Refuse
  <2> QED BY <1>0, <1>1, <2>8 DEF Good
<1> QED BY <1>4, <1>5 DEF ServerStep
LEMMA PlainKept ==
    ASSUME TypeOK, InHand, Plain, [Next]_vars
    PROVE  Plain'
<1> DEFINE Live == \A r \in Names : realms[r].state \in Active => realms[r].process # "none"
<1>1. tool'.name = "none" => call'.stage = "done"
  <2> SUFFICES ASSUME tool'.name = "none" PROVE call'.stage = "done"
      OBVIOUS
  <2>1. ASSUME NEW r \in Names, StartTool(r) PROVE tool'.name # "none"
      BY <2>1 DEF StartTool, CallTool
  <2>2. CASE Proceed
    <3>1. ASSUME NEW step, Go(step) PROVE tool'.name # "none"
        BY <2>2, <3>1, Advances DEF Go, TypeOK
    <3>2. ASSUME NEW result, Report(result) PROVE call'.stage = "done"
        BY <3>2 DEF Report, Done
    <3> QED BY <2>2, <3>1, <3>2, Advances
  <2>3. CASE UNCHANGED <<tool, call>>
      BY <2>3 DEF Plain
  <2>4. CASE ClientStep
      BY <2>4 DEF ClientStep, ReadPacket, TimeOut, HangUp, Plain
  <2>5. ASSUME NEW r \in Names, Environment(r) PROVE UNCHANGED <<tool, call>>
      BY <2>5, EnvironmentMoves DEF Unused, clientVars
  <2>6. ServerStep => UNCHANGED <<tool, call>>
      BY Serves DEF Answer, Accept, Respond
  <2>7. Expire \/ Complete \/ Closes \/ UNCHANGED vars => UNCHANGED <<tool, call>>
      BY DEF Expire, Complete, Finish, Closes, Close, vars, clientVars
  <2> QED BY <2>1, <2>2, <2>3, <2>4, <2>5, <2>6, <2>7 DEF Next
<1>2. call'.stage = "event" => call'.method \in Events
  <2>1. CASE UNCHANGED call
      BY <2>1 DEF Plain
  <2>2. \A ok \in BOOLEAN : Done(ok).stage = "done"
      BY DEF Done
  <2>3. CASE Begins
    <3>1. PICK method \in Methods, realm \in Names : Begin(method, realm)
        BY <2>3 DEF Begins
    <3>2. [Done(FALSE) EXCEPT !.stage = "response", !.method = method].stage = "response"
        BY DEF Done
    <3> QED BY <2>2, <3>1, <3>2 DEF Begin
  <2>4. CASE Ends \/ TimeOut \/ HangUp
      BY <2>2, <2>4 DEF Ends, TimeOut, HangUp
  <2>5. CASE ReadPacket
    <3>1. call \in CallRecord /\ Head(received) \in Packet
        BY <2>5, HeadTailProperties DEF ReadPacket, TypeOK, ClientTypeOK
    <3>2. ASSUME NEW p \in Packet, call.stage = "event" PROVE AfterEvent(p).stage = "event" => call.method \in Events
        BY <3>2 DEF Plain
    <3>3. ASSUME NEW p \in Packet, AfterResponse(p).stage = "event" PROVE AfterResponse(p).method \in Events
      <4>1. [Done(TRUE) EXCEPT !.state = p.state].stage = "done"
          BY DEF Done
      <4>2. call.method \in Events /\ AfterResponse(p) = [call EXCEPT !.stage = "event", !.sequence = p.sequence]
          BY <2>2, <3>3, <4>1 DEF AfterResponse, Events
      <4> QED BY <3>1, <4>2 DEF CallRecord
    <3>4. ASSUME NEW p \in Packet, AfterEvent(p).stage = "event" PROVE AfterEvent(p).method = call.method
        BY <2>2, <3>1, <3>4 DEF AfterEvent, CallRecord, Packet
    <3>5. CASE call.stage = "response"
        BY <2>5, <3>1, <3>3, <3>5 DEF ReadPacket
    <3>6. CASE call.stage = "event"
        BY <2>5, <3>1, <3>2, <3>4, <3>6 DEF ReadPacket
    <3> QED BY <2>5, <3>1, <3>5, <3>6 DEF ReadPacket, CallRecord
  <2>6. UNCHANGED clientVars \/ Close \/ Responds \/ Finishes => UNCHANGED call
      BY DEF clientVars, Close, Responds, Respond, Finishes, Finish
  <2> QED BY <2>1, <2>3, <2>4, <2>5, <2>6, ClientMoves
<1>3. Live'
  <2>1. CASE UNCHANGED realms
      BY <2>1 DEF Plain
  <2>2. ASSUME NEW r \in Names, Environment(r) PROVE Live'
      BY <2>2, EnvironmentHalts
  <2>3. CASE Proceed
    <3>1. ASSUME NEW step, Go(step) PROVE UNCHANGED realms
        BY <3>1 DEF Go, host
    <3>2. ASSUME NEW result, Report(result) PROVE Live'
        BY <3>2 DEF Report, Plain, TypeOK, RealmRecord
    <3> QED BY <2>1, <2>3, <3>1, <3>2, Advances
  <2>4. CASE ServerStep
      BY <2>1, <2>4, ServerMakes DEF Plain, TypeOK
  <2>5. ASSUME NEW r \in Names, StartTool(r) PROVE UNCHANGED realms
      BY <2>5 DEF StartTool, CallTool, host
  <2>6. Expire \/ ClientStep \/ Complete \/ Closes \/ UNCHANGED vars => UNCHANGED realms
      BY DEF Expire, ClientStep, Complete, Closes, vars, host
  <2> QED BY <2>1, <2>2, <2>3, <2>4, <2>5, <2>6 DEF Next
<1> QED BY <1>1, <1>2, <1>3 DEF Plain

\* A server that carries out a request of a client in step answers the call in
\* hand.
LEMMA ServesTheCall ==
    ASSUME TypeOK, InPlace, InHand, Plain, ServerStep, ~late
    PROVE  /\ tool.name # "none" /\ call.stage = "response" /\ received = <<>>
           /\ Head(sent).mine /\ Head(sent).realm = tool.realm
           /\ Head(sent).method = Method(tool.at) /\ tool.at \in StepsOf[tool.name]
<1>1. sent # <<>> /\ Head(sent) \in Range(sent)
    BY Serves, QueueRanges DEF TypeOK, ClientTypeOK
<1>2. call.stage = "response" /\ Asking
    BY <1>1 DEF InPlace, Idle, Responded, Expecting
<1> QED BY <1>1, <1>2 DEF Asking, InHand, Plain

LEMMA OwnedKept ==
    ASSUME TypeOK, InPlace, InHand, Plain, Owned, [Next]_vars
    PROVE  Owned'
<1>0. late => late'
  <2>1. CASE UNCHANGED late
      BY <2>1
  <2>2. CASE TimeOut
      BY <2>2 DEF TimeOut, TypeOK, ClientTypeOK
  <2> QED BY <2>1, <2>2, ClientMoves
       DEF Begins, Begin, Ends, ReadPacket, HangUp, Close, Responds, Respond, Finishes, Finish, clientVars
<1> SUFFICES ASSUME ~late PROVE Owned'
    BY <1>0 DEF Owned
<1>1. CASE UNCHANGED <<realms, tool>>
    BY <1>1 DEF Owned
<1>2. ASSUME NEW r \in Names, StartTool(r) PROVE Owned'
    BY <1>2 DEF StartTool, CallTool, host, Owned
<1>3. ASSUME NEW r \in Names, Environment(r) PROVE Owned'
  <2>1. UNCHANGED tool
      BY <1>3, EnvironmentMoves DEF Unused
  <2>2. \A s \in Names : realms[s].made = "other" => realms'[s].made = "other"
      BY <1>3, EnvironmentHalts
  <2>3. \A s \in Names : realms[s].made \in {"launch", "other"}
      BY DEF TypeOK, RealmRecord
  <2> QED BY <2>1, <2>2, <2>3 DEF Owned
<1>4. CASE Proceed
  <2>1. ASSUME NEW step, Go(step) PROVE Owned'
      BY <2>1 DEF Go, host, Owned, TypeOK
  <2>2. ASSUME NEW result, Report(result) PROVE Owned'
    <3>1. \A s \in Names : realms'[s].made = "other"
        BY <2>2 DEF Report, TypeOK, RealmRecord
    <3> QED BY <3>1 DEF Owned
  <2> QED BY <1>4, <2>1, <2>2, Advances
<1>5. CASE ServerStep
  <2>1. UNCHANGED tool
      BY <1>5, Serves DEF Answer, Accept
  <2>2. CASE UNCHANGED realms
      BY <1>1, <2>1, <2>2
  <2>3. CASE ~UNCHANGED realms
    <3> DEFINE h == Head(sent).realm
    <3>1. PICK x \in RealmRecord :
              /\ realms' = [realms EXCEPT ![h] = x]
              /\ x.made = "launch" =>
                     Wanted.made = "launch" \/ (Head(sent).mine /\ Head(sent).method = "create")
        BY <1>5, <2>3, ServerMakes
    <3>2. h = tool.realm /\ Head(sent).method = Method(tool.at) /\ tool.at \in StepsOf[tool.name]
          /\ tool.name # "none"
        BY <1>5, ServesTheCall
    <3>3. Method(tool.at) = "create" => tool.name = "launch"
        BY <3>2 DEF Method, StepsOf, LaunchSteps, FinishSteps, TypeOK, Tools
    <3>4. Wanted.made = "launch" => tool.name = "launch"
        BY <3>2 DEF Wanted, Owned, TypeOK
    <3>5. \A s \in Names \ {h} : realms'[s] = realms[s]
        BY <3>1 DEF TypeOK
    <3>6. realms'[h].made = "launch" => tool.name = "launch"
        BY <3>1, <3>2, <3>3, <3>4 DEF TypeOK
    <3> QED BY <2>1, <3>2, <3>5, <3>6 DEF Owned
  <2> QED BY <2>2, <2>3
<1>6. Expire \/ ClientStep \/ Complete \/ Closes \/ UNCHANGED vars => UNCHANGED <<realms, tool>>
    BY DEF Expire, ClientStep, Complete, Closes, vars, host
<1> QED BY <1>1, <1>2, <1>3, <1>4, <1>5, <1>6 DEF Next
LEMMA StopsKept ==
    ASSUME TypeOK, InPlace, InHand, StepByStep, Plain, Owned, Stops, [Next]_vars
    PROVE  Stops'
<1> DEFINE t == tool.realm
<1>0. t \in Names /\ ClientTypeOK /\ realms[t] \in RealmRecord
    BY DEF TypeOK
<1>1. ASSUME UNCHANGED <<call, received, tool>>, late => late', socket' = "open" => socket = "open",
             realms[t].made = "other" => realms'[t].made = "other", Halted(t) => Halted(t)'
      PROVE  Stops'
    BY <1>1 DEF Stops, Granted, Quiet, Told, Halted
<1>2. CASE UNCHANGED vars
    BY <1>1, <1>2 DEF vars, clientVars, host, Halted
<1>3. ASSUME NEW r \in Names, StartTool(r) PROVE Stops'
  <2> SUFFICES ASSUME ~late', tool'.name = "launch" PROVE Stops'
      BY DEF Stops
  <2>1. /\ tool.name = "none" /\ tool' = [name |-> "launch", realm |-> r, at |-> "create"]
        /\ UNCHANGED <<realms, late>>
    <3>1. ASSUME NEW name, NEW step, CallTool(name, r, step)
          PROVE  /\ tool.name = "none" /\ tool' = [name |-> name, realm |-> r, at |-> step]
                 /\ UNCHANGED <<realms, late>>
        BY <3>1 DEF CallTool, Begin, host
    <3>2. PICK name, step : CallTool(name, r, step) /\ (name = "launch" => step = "create")
        BY <1>3 DEF StartTool
    <3> QED BY <3>1, <3>2
  <2>2. realms'[r].made = "other"
      BY <2>1 DEF Owned, TypeOK, RealmRecord
  <2> QED BY <2>1, <2>2 DEF Stops
<1>4. ASSUME NEW r \in Names, Environment(r) PROVE Stops'
  <2>1. UNCHANGED clientVars /\ UNCHANGED tool
      BY <1>4, EnvironmentMoves DEF Unused
  <2>2. realms[t].made = "other" => realms'[t].made = "other"
      BY <1>0, <1>4, EnvironmentHalts
  <2>3. Halted(t) => Halted(t)'
    <3>1. \A s \in Names : Halted(s) => Halted(s)'
        BY <1>4, EnvironmentHalts
    <3> QED BY <1>0, <2>1, <3>1 DEF Halted
  <2> QED BY <1>1, <2>1, <2>2, <2>3 DEF clientVars
<1>5. CASE Proceed
  <2>1. ASSUME NEW result, Report(result) PROVE Stops'
    <3>1. tool'.name = "none"
        BY <2>1 DEF Report, TypeOK
    <3> QED BY <3>1 DEF Stops
  <2>2. ASSUME NEW step, Go(step) PROVE Stops'
    <3> SUFFICES ASSUME tool'.name = "launch", ~late', socket' = "open" PROVE Stops'
        BY DEF Stops
    <3>1. /\ tool' = [tool EXCEPT !.at = step] /\ Begin(Method(step), t) /\ UNCHANGED realms
          /\ UNCHANGED <<late, socket>>
        BY <2>2 DEF Go, host, Begin
    <3>2. tool'.at = step /\ tool.name = "launch" /\ tool'.realm = t /\ ~late /\ socket = "open"
        BY <3>1 DEF TypeOK
    <3>3. Idle /\ call.stage = "done"
        BY <3>1, <3>2 DEF Begin, InPlace
    <3>4. received' = <<>>
        BY <3>1, <3>2, <3>3, NoneDisowned DEF Begin, Idle
    <3>5. call'.stage = "response"
      <4>1. Len(sent) < MaxSent
          BY <3>3, ClientAssumption, EmptySeq DEF Idle
      <4> QED BY <3>1, <3>2, <4>1 DEF Begin, Done
    <3>6. ~Quiet' /\ ~Told'
        BY <3>4, <3>5 DEF Quiet, Told, Range
    <3>7. step # "create"
      <4>1. ASSUME NEW other, Go(other) PROVE other = step
          BY <3>2, <4>1 DEF Go, TypeOK
      <4>2. ASSUME NEW result PROVE ~Report(result)
          BY <3>2 DEF Report, TypeOK
      <4> QED BY <1>5, <3>2, <4>1, <4>2, GoesOn
    <3>8. step \in {"watch", "destroy"} => Halted(t)
      <4> SUFFICES ASSUME step \in {"watch", "destroy"} PROVE Halted(t)
          OBVIOUS
      <4>0. ASSUME NEW other, Go(other) PROVE other = step
          BY <3>2, <4>0 DEF Go, TypeOK
      <4>1. ~Report("success") /\ ~Report("failure")
          BY <3>2 DEF Report, TypeOK
      <4>2. ~Launch
        <5>1. ~Go("look") /\ ~Go("observe") /\ ~Go("await")
            BY <4>0
        <5>2. tool.at \in LaunchSteps \ {"open", "await"} => ~Go(Following[tool.at])
            BY <4>0 DEF Following, LaunchSteps
        <5> QED BY <4>1, <5>1, <5>2 DEF Launch, LaunchFails, Await, Fail
      <4>3. Finishing
          BY <1>5, <3>2, <4>2 DEF Proceed, Other, Capture
      <4>4. ~Go("stop")
          BY <4>0
      <4>5. CASE tool.at = "look"
        <5>1. call.ok /\ Look
            BY <4>1, <4>3, <4>5 DEF Finishing, Fail
        <5>2. call.state \notin Active
            BY <4>4, <5>1 DEF Look
        <5> QED BY <3>2, <3>3, <4>5, <5>2 DEF Stops, Quiet
      <4>6. CASE tool.at = "stop"
          BY <3>2, <3>3, <4>6 DEF Stops, Told
      <4>7. CASE tool.at \in {"watch", "destroy"}
          BY <3>2, <4>7 DEF Stops
      <4> QED BY <4>3, <4>5, <4>6, <4>7 DEF Finishing
    <3>9. Halted(t) => Halted(t)'
        BY <3>1, <3>2 DEF Halted
    <3> QED BY <3>2, <3>6, <3>7, <3>8, <3>9 DEF Stops
  <2> QED BY <1>5, <2>1, <2>2, Advances
<1>6. CASE ClientStep
  <2> SUFFICES ASSUME tool'.name = "launch", ~late', socket' = "open" PROVE Stops'
      BY DEF Stops
  <2>1. UNCHANGED <<realms, tool, socket>> /\ ~late /\ call.stage # "done"
      BY <1>0, <1>6 DEF ClientStep, ReadPacket, TimeOut, HangUp, host, ClientTypeOK
  <2>2. call.method = Method(tool.at) /\ Method(tool.at) \notin Events
    <3>1. tool.at \in LaunchSteps \cup FinishSteps
        BY <2>1 DEF InHand, StepsOf
    <3> QED BY <2>1, <3>1 DEF InHand, Method, LaunchSteps, FinishSteps, Events
  <2>3. call.stage = "response" /\ (Asking \/ Responded)
      BY <1>0, <2>1, <2>2 DEF InPlace, Plain
  <2>4. ReadPacket
    <3>1. Asking => Coming
      <4>1. Asking => Head(sent).mine /\ sent # <<>>
          BY <2>1 DEF Asking, Only
      <4>2. Asking => \E q \in Range(sent) : q.mine
          BY <1>0, <4>1, QueueRanges DEF ClientTypeOK
      <4> QED BY <4>2 DEF Coming, Range
    <3>2. Responded => Coming
      <4>1. Responded => \E p \in Range(received) : p.mine
          BY <1>0, QueueRanges DEF ClientTypeOK, Responded
      <4> QED BY <4>1 DEF Coming, Range
    <3> QED BY <1>6, <2>1, <2>3, <3>1, <3>2 DEF ClientStep, TimeOut, HangUp
  <2> DEFINE p == Head(received)
  <2>5. received # <<>> /\ received' = Tail(received) /\ call' = AfterResponse(p) /\ p \in Packet
        /\ p \in Range(received)
      BY <1>0, <2>3, <2>4, HeadTailProperties, QueueRanges DEF ReadPacket, ClientTypeOK
  <2>6. p.is = "response" /\ p.mine
      BY <2>3, <2>5 DEF Asking, Responded
  <2>7. received' = <<>>
    <3>1. Only(Tail(received)) /\ Awaited(Head(Tail(received)), p.sequence) => FALSE
      <4> SUFFICES ASSUME Only(Tail(received)), Awaited(Head(Tail(received)), p.sequence) PROVE FALSE
          OBVIOUS
      <4>1. Head(Tail(received)) \in Packet
          BY <1>0, <2>5, HeadTailProperties DEF Only, ClientTypeOK
      <4>2. call.method \in Methods
          BY <1>0 DEF ClientTypeOK, CallRecord
      <4> QED BY <2>2, <4>1, <4>2 DEF Awaited, Events, Packet, Methods
    <3> QED BY <2>3, <2>5, <3>1 DEF Asking, Responded, Only
  <2>8. /\ ~p.ok => call'.ok = FALSE /\ call'.stage = "done"
        /\ p.ok => call'.ok = TRUE /\ call'.state = p.state /\ call'.stage = "done"
    <3>1. Done(FALSE).ok = FALSE /\ Done(FALSE).stage = "done"
        BY DEF Done
    <3>2. LET c == [Done(TRUE) EXCEPT !.state = p.state]
          IN c.ok = TRUE /\ c.state = p.state /\ c.stage = "done"
        BY DEF Done
    <3> QED BY <2>2, <2>5, <2>6, <3>1, <3>2 DEF AfterResponse, Answered, Events
  <2>9. Range(received') = {}
      BY <2>7 DEF Range
  <2>10. (Quiet' => Quiet) /\ Told /\ (Granted => Granted')
    <3>1. Quiet' => Quiet
        BY <2>5, <2>8, <2>9 DEF Quiet, Packet
    <3>2. Granted => Granted'
      <4>1. CASE p.ok
          BY <2>8, <4>1 DEF Granted
      <4>2. CASE ~p.ok
        <5>1. Only(received)
            BY <2>3, <2>5, <2>7 DEF Only
        <5>2. \A z \in Range(received) : z = p
          <6>1. Len(received) \in Nat \ {0} /\ Len(Tail(received)) = Len(received) - 1
                /\ Len(Tail(received)) = 0 /\ DOMAIN received = 1 .. Len(received)
              BY <1>0, <5>1, EmptySeq, HeadTailProperties, LenProperties DEF Only, ClientTypeOK
          <6> QED BY <6>1 DEF Range
        <5> QED BY <2>1, <4>2, <5>2 DEF Granted
      <4> QED BY <4>1, <4>2
    <3> QED BY <2>5, <3>1, <3>2 DEF Told
  <2>11. Halted(t) => Halted(t)'
      BY <2>1 DEF Halted
  <2> QED BY <2>1, <2>10, <2>11 DEF Stops
<1>7. CASE Expire \/ Closes
  <2>1. UNCHANGED <<realms, tool, call, received, late>> /\ (socket' = "open" => socket = "open")
      BY <1>7 DEF Expire, Closes, Close, clientVars, host
  <2> QED BY <1>1, <2>1 DEF Halted
<1>8. CASE Complete
  <2> SUFFICES ASSUME tool.name = "launch", ~late, call.stage # "done" PROVE FALSE
    <3>1. UNCHANGED <<tool, socket, call, late>>
        BY <1>8 DEF Complete, Finish
    <3>2. ~late => call.stage # "done"
        BY <1>8 DEF Complete, Finish, InPlace, Idle
    <3> QED BY <3>1, <3>2 DEF Stops
  <2>1. pending # {} /\ pending \subseteq Accepted
      BY <1>0, <1>8 DEF Complete, ClientTypeOK
  <2>2. tool.at \in LaunchSteps \cup FinishSteps /\ call.method = Method(tool.at)
      BY DEF InHand, StepsOf
  <2>3. call.method \notin Events
      BY <2>2 DEF Method, LaunchSteps, FinishSteps, Events
  <2>4. call.stage = "response" /\ (Asking \/ Responded)
      BY <1>0, <2>3 DEF InPlace, Plain
  <2>5. \E x \in pending : x.is = call.method
      BY <2>1, <2>4 DEF Asking, Responded, Working, Awaited
  <2> QED BY <2>1, <2>3, <2>5 DEF Accepted, Events
<1>9. CASE ServerStep
  <2>0. UNCHANGED <<tool, socket, call, late>>
      BY <1>9, Serves DEF Answer, Accept, Respond
  <2> SUFFICES ASSUME tool.name = "launch", ~late, socket = "open" PROVE Stops'
      BY <2>0 DEF Stops
  <2>1. /\ call.stage = "response" /\ received = <<>>
        /\ Head(sent).mine /\ Head(sent).realm = t
        /\ Head(sent).method = Method(tool.at) /\ tool.at \in LaunchSteps \cup FinishSteps
      BY <1>9, ServesTheCall DEF StepsOf
  <2>2. Wanted = realms[t] /\ Wanted \in RealmRecord
      BY <1>0, <2>1 DEF Wanted
  <2>3. ~Granted
      BY <2>1 DEF Granted, Range
  <2>4. ASSUME NEW ok \in BOOLEAN, NEW x \in RealmRecord, Answer(ok, x)
        PROVE  /\ realms'[t] = x
               /\ Granted' <=> ok
               /\ Quiet' <=> ~ok \/ x.state \notin Active
    <3> DEFINE p == [is |-> "response", mine |-> Head(sent).mine, ok |-> ok,
                     state |-> x.state, sequence |-> 0]
    <3>1. realms'[t] = x
        BY <1>0, <2>1, <2>4 DEF Answer, Becomes, TypeOK
    <3>2. received' = Append(<<>>, p)
        BY <2>1, <2>4 DEF Answer, Respond
    <3>3. p.ok = ok /\ p.state = x.state
        OBVIOUS
    <3> HIDE DEF p
    <3>4. Range(received') = {p}
        BY <3>2 DEF Range
    <3>5. call'.stage # "done"
        BY <2>0, <2>1
    <3> QED BY <3>1, <3>3, <3>4, <3>5 DEF Granted, Quiet
  <2>5. CASE tool.at = "create"
    <3>1. Head(sent).method = "create"
        BY <2>1, <2>5 DEF Method
    <3>2. realms[t].made = "other"
        BY <2>3, <2>5 DEF Stops
    <3>3. ServeCreate \/ Answer(FALSE, Wanted)
        BY <1>9, <3>1 DEF ServerStep, ServeLifecycle, ServeUse, Serve, Refuse, Asked, ServeBadStart, Accept
    <3>4. ~Granted' => realms'[t].made = "other"
      <4>1. ServeCreate => Answer(TRUE, [Created(Wanted) EXCEPT !.made = "launch"])
          BY <2>1 DEF ServeCreate
      <4>2. [Created(Wanted) EXCEPT !.made = "launch"] \in RealmRecord
          BY <2>2, RealmTypes
      <4> QED BY <2>2, <2>4, <3>2, <3>3, <4>1, <4>2
    <3> QED BY <2>0, <2>5, <3>4 DEF Stops
  <2>6. CASE tool.at \in {"look", "watch"}
    <3>1. Head(sent).method = "info"
        BY <2>1, <2>6 DEF Method
    <3>2. \/ Answer(TRUE, Wanted)
          \/ Wanted.state = "NONE" /\ Answer(FALSE, Wanted)
        BY <1>9, <3>1 DEF ServerStep, ServeLifecycle, ServeUse, Serve, Refuse, Asked, ServeBadStart, ServeCreate, Accept
    <3>3. realms'[t] = realms[t] /\ (Quiet' => realms[t].state \notin Active)
        BY <2>2, <2>4, <3>2 DEF Active
    <3>4. tool.at = "watch" => Halted(t)
        BY DEF Stops
    <3> QED BY <2>0, <2>6, <3>3, <3>4 DEF Stops, Halted
  <2>7. CASE tool.at = "stop"
    <3>1. Head(sent).method = "stop"
        BY <2>1, <2>7 DEF Method
    <3>2. \/ Answer(TRUE, Stopped(Wanted))
          \/ ~MayStop(Wanted) /\ Answer(FALSE, Wanted)
        BY <1>9, <3>1 DEF ServerStep, ServeLifecycle, ServeUse, Serve, Refuse, Asked, ServeBadStart, ServeCreate, Accept
    <3>3. Stopped(Wanted) \in RealmRecord /\ Stopped(Wanted).state \notin Active
      <4>1. Stopped(Wanted) \in RealmRecord
          BY <2>2, RealmTypes
      <4>2. Stopped(Wanted).state = "STOPPING"
          BY <2>2 DEF Stopped, RealmRecord
      <4> QED BY <4>1, <4>2 DEF Active
    <3>4. ~MayStop(Wanted) => Wanted.state \notin Active \/ Wanted.process = "gone"
        BY <1>0, <2>2 DEF MayStop, Plain, RealmRecord
    <3>5. realms'[t].state \notin Active \/ realms'[t].process = "gone"
        BY <2>2, <2>4, <3>2, <3>3, <3>4
    <3> QED BY <2>0, <2>7, <3>5 DEF Stops, Halted
  <2>8. CASE tool.at = "destroy"
    <3>1. Head(sent).method = "destroy"
        BY <2>1, <2>8 DEF Method
    <3>2. Answer(TRUE, NoRealm) \/ Answer(FALSE, Wanted)
        BY <1>9, <3>1 DEF ServerStep, ServeLifecycle, ServeUse, Serve, Refuse, Asked, ServeBadStart, ServeCreate, Accept
    <3>3. NoRealm \in RealmRecord /\ NoRealm.made = "other"
        BY DEF NoRealm, RealmRecord, RealmStates
    <3>4. Halted(t)
        BY <2>8 DEF Stops
    <3>5. Halted(t)'
        BY <2>0, <2>2, <2>4, <3>2, <3>3, <3>4 DEF Halted
    <3> QED BY <2>0, <2>8, <3>5 DEF Stops
  <2>9. CASE tool.at \notin {"create", "look", "watch", "stop", "destroy"}
      BY <2>0, <2>9 DEF Stops
  <2> QED BY <2>5, <2>6, <2>7, <2>8, <2>9
<1> QED BY <1>2, <1>3, <1>4, <1>5, <1>6, <1>7, <1>8, <1>9 DEF Next

\* A launch that fails leaves the realm it created running only if a call gave up
\* on an answer that still came or the connection is closed: cleanupRealm stops it
\* after a refused step, a failed realm and a passed deadline.
THEOREM OnlyLostLaunchesLeave == Spec => LeavesRealmOnlyIfLost
<1> DEFINE J == Plain /\ Owned /\ Stops
           A == /\ tool.name = "launch" /\ tool'.name = "none" /\ verdict' = "failure"
                /\ realms[tool.realm].made = "launch"
                /\ realms[tool.realm].state \in Active /\ realms[tool.realm].process # "gone"
                => late \/ socket # "open"
<1>1. Init => J
  <2> SUFFICES ASSUME Init PROVE J
      OBVIOUS
  <2>1. tool.name = "none" /\ call = Done(TRUE) /\ realms = [r \in Names |-> NoRealm]
      BY DEF Init, ClientInit
  <2>2. Plain
      BY <2>1 DEF Plain, Done, NoRealm, Active
  <2>3. Owned
      BY <2>1 DEF Owned, NoRealm
  <2>4. Stops
      BY <2>1 DEF Stops
  <2> QED BY <2>2, <2>3, <2>4
<1>2. IInv /\ J /\ [Next]_vars => J'
    BY PlainKept, OwnedKept, StopsKept DEF IInv
<1>3. ASSUME IInv, J, [Next]_vars PROVE A
  <2> SUFFICES ASSUME tool.name = "launch", tool'.name = "none", verdict' = "failure",
                      ~late, socket = "open", realms[tool.realm].made = "launch"
               PROVE  Halted(tool.realm)
      BY DEF Halted
  <2>1. Proceed
    <3>1. ~UNCHANGED tool
        OBVIOUS
    <3>2. ASSUME NEW r \in Names PROVE ~StartTool(r) /\ ~Environment(r)
        BY <1>3, <3>1, EnvironmentMoves DEF StartTool, CallTool, Unused, IInv
    <3>3. ~(Expire \/ ClientStep \/ Complete \/ Closes) /\ ~UNCHANGED vars
        BY <3>1 DEF Expire, ClientStep, Complete, Closes, vars
    <3>4. ~ServerStep
        BY <1>3, <3>1, Serves DEF Answer, Accept, IInv
    <3> QED BY <1>3, <3>2, <3>3, <3>4 DEF Next
  <2>2. ASSUME NEW step PROVE ~Go(step)
      BY <1>3 DEF Go, IInv, TypeOK
  <2>3. Idle /\ call.stage = "done" /\ Stops
      BY <1>3, <2>1 DEF Proceed, IInv, InPlace
  <2>4. Range(received) = {}
      BY <2>3 DEF Idle, Range
  <2> USE DEF Fail
  <2>5. CASE Launch
    <3>1. ~Report("success")
        BY DEF Report
    <3>2. tool.at = "create" /\ ~call.ok
        BY <2>2, <2>5, <3>1 DEF Launch, LaunchFails, Await
    <3>3. ~Granted
        BY <2>4, <3>2 DEF Granted
    <3> QED BY <2>3, <3>2, <3>3 DEF Stops, Halted
  <2>6. CASE Finishing
    <3>1. \/ tool.at = "look" /\ ~call.ok
          \/ tool.at \in {"watch", "destroy"}
        BY <2>2, <2>6 DEF Finishing, Look
    <3> QED BY <2>3, <3>1 DEF Stops, Quiet
  <2> QED BY <2>1, <2>5, <2>6 DEF Proceed, Other, Capture
<1>4. IInv /\ J /\ [Next]_vars => [A]_vars
    BY <1>3
<1> QED BY <1>1, <1>2, <1>4, Invariance, PTL DEF Spec, LeavesRealmOnlyIfLost
-----------------------------------------------------------------------------
(***************************************************************************)
(* Every tool returns.  Fairness is weak fairness, which speaks of ENABLED;*)
(* that the MCP server can go on while a tool is in hand, and that the     *)
(* deadline of a loop can pass (DueStepsHappen), is a hypothesis here, of  *)
(* which TLC finds no counterexample in the states of the run "tools".     *)
(***************************************************************************)
Running == tool.name # "none"
Steadily == Proceed \/ ClientStep
DueStepsHappen ==
    /\ Running => ENABLED <<Steadily>>_vars
    /\ tool.at \in UNION Loops /\ ~expired => ENABLED <<Expire>>_vars

\* A call skips a packet that is not the event it waits for.
Skips == call.stage = "event" /\ call'.stage = "event"

(***************************************************************************)
(* How far a tool got.  It only goes forward, except in a polling loop     *)
(* whose deadline has not passed.                                          *)
(***************************************************************************)
Places == [create |-> 0, place |-> 1, grantObserve |-> 2, grantPointer |-> 3, grantKeyboard |-> 4,
           start |-> 5, observe |-> 8, open |-> 9, look |-> 10, stop |-> 11,
           input |-> 13, pause |-> 13, resume |-> 13]
Polls == tool.at \in UNION Loops /\ ~expired
Place ==
    IF tool.at = "await" THEN IF expired THEN 7 ELSE 6
    ELSE IF tool.at \in {"watch", "capture"} THEN IF expired THEN 13 ELSE 12
    ELSE IF tool.at = "destroy" THEN IF expired THEN 14 ELSE 12
    ELSE Places[tool.at]

LEMMA PlaceIs ==
    ASSUME IInv, Running
    PROVE  /\ Place \in 0 .. 14
           /\ Polls <=> Place \in {6, 12}
<1>1. /\ tool.name \in {"launch", "finish", "input", "capture", "other"}
      /\ tool.at \in StepsOf[tool.name] /\ expired \in BOOLEAN
  BY DEF IInv, TypeOK, InHand, Tools, Running
<1>2. tool.at \in LaunchSteps \cup FinishSteps \cup {"input", "capture", "pause", "resume"}
  BY <1>1 DEF StepsOf
<1>3. UNION Loops = {"await", "watch", "destroy", "capture"}
  BY DEF Loops
<1> QED
  BY <1>2, <1>3 DEF LaunchSteps, FinishSteps, Place, Places, Polls

\* Where the tool may go from a step.
LEMMA GoesForward ==
    ASSUME IInv, Running, Running', Proceed
    PROVE  IF Polls THEN Place' >= Place ELSE Place' > Place
<1>1. /\ tool \in [name : Tools, realm : Names, at : Steps] /\ expired \in BOOLEAN
      /\ tool.at \in StepsOf[tool.name]
  BY DEF IInv, TypeOK, InHand, Running
<1>2. \A result : ~Report(result)
  BY <1>1 DEF Report, Running
<1>3. \A step : Go(step) => /\ tool'.at = step
                            /\ expired' = (expired /\ \E loop \in Loops : {tool.at, step} \subseteq loop)
  BY <1>1 DEF Go
<1>4. UNION Loops = {"await", "watch", "destroy", "capture"}
  BY DEF Loops
<1>5. CASE Launch
  <2>1. CASE tool.at # "await"
    <3>1. Go("look") \/ (tool.at \in DOMAIN Following /\ Go(Following[tool.at]))
      BY <1>2, <1>5, <2>1 DEF Launch, LaunchFails, Fail, LaunchSteps, Following
    <3>2. tool'.at = "look" \/ (tool.at \in DOMAIN Following /\ tool'.at = Following[tool.at])
      BY <1>3, <3>1
    <3>3. tool.at \in LaunchSteps
      BY <1>5 DEF Launch
    <3>4. expired' \in BOOLEAN
      BY <1>3, <3>1
    <3> QED
      BY <1>4, <2>1, <3>2, <3>3, <3>4 DEF Following, Place, Places, Polls, LaunchSteps
  <2>2. CASE tool.at = "await"
    <3>1. Go("look") \/ Go("observe") \/ (~expired /\ Go("await"))
      BY <1>2, <1>5, <2>2 DEF Launch, LaunchFails, Fail, Await
    <3>2. tool'.at \in {"look", "observe"} \/ (~expired /\ tool'.at = "await" /\ ~expired')
      BY <1>3, <3>1
    <3> QED
      BY <1>1, <1>4, <2>2, <3>2 DEF Place, Places, Polls
  <2> QED
    BY <2>1, <2>2
<1>6. CASE Finishing
  <2>1. \/ tool.at = "look" /\ (Go("stop") \/ Go("watch"))
        \/ tool.at = "stop" /\ Go("watch")
        \/ tool.at = "watch" /\ (Go("destroy") \/ (~expired /\ Go("watch")))
        \/ tool.at = "destroy" /\ ~expired /\ Go("watch")
    BY <1>2, <1>6 DEF Finishing, Look, Again, Destroyed, Fail
  <2>2. {"watch", "destroy"} \in Loops
    BY DEF Loops
  <2>3. \/ tool.at = "look" /\ tool'.at \in {"stop", "watch"}
        \/ tool.at = "stop" /\ tool'.at = "watch"
        \/ tool.at = "watch" /\ tool'.at = "destroy" /\ expired' = expired
        \/ tool.at \in {"watch", "destroy"} /\ ~expired /\ tool'.at = "watch" /\ ~expired'
    BY <1>1, <1>3, <2>1, <2>2
  <2> QED
    BY <1>1, <1>4, <2>3 DEF Place, Places, Polls
<1>7. ~Other
  BY <1>2 DEF Other
<1>8. CASE Capture
  <2>1. ~expired /\ Go("capture")
    BY <1>2, <1>8 DEF Capture, Fail
  <2>2. tool.at = "capture"
    BY <1>1, <1>8 DEF Capture, StepsOf
  <2>3. ~expired' /\ tool'.at = "capture"
    BY <1>3, <2>1
  <2> QED
    BY <1>4, <2>1, <2>2, <2>3 DEF Place, Polls
<1> QED
  BY <1>5, <1>6, <1>7, <1>8 DEF Proceed

\* Nothing else moves the tool on: it stays where it is, but for its deadline.
LEMMA StaysThere ==
    ASSUME IInv, Running, [Next]_vars, ~Proceed
    PROVE  /\ tool' = tool
           /\ expired' = expired \/ Expire
           /\ call' = call \/ ClientStep
<1>1. ASSUME NEW r \in Names
      PROVE  ~StartTool(r)
  BY DEF StartTool, CallTool, Running
<1>2. ASSUME NEW r \in Names, Environment(r)
      PROVE  UNCHANGED <<tool, expired, call>>
  BY <1>2, EnvironmentMoves DEF IInv, Unused, clientVars
<1>3. CASE Expire
  BY <1>3 DEF Expire, clientVars
<1>4. CASE ClientStep
  BY <1>4 DEF ClientStep
<1>5. CASE ServerStep
  BY <1>5, Serves DEF IInv, Answer, Accept, Respond
<1>6. CASE Complete
  BY <1>6 DEF Complete, Finish
<1>7. CASE Closes
  BY <1>7 DEF Closes, Close
<1>8. CASE UNCHANGED vars
  BY <1>8 DEF vars, clientVars
<1> QED
  BY <1>1, <1>2, <1>3, <1>4, <1>5, <1>6, <1>7, <1>8 DEF Next

LEMMA PlaceTyped == IInv /\ Running => Place \in 0 .. 14
  BY PlaceIs

LEMMA NextPlaceTyped == (IInv /\ Running => Place \in 0 .. 14)'
  BY PlaceTyped, PTL

LEMMA PollsIs == IInv /\ Running => (Polls <=> Place \in {6, 12})
  BY PlaceIs

LEMMA NextPolls == (IInv /\ Running => (Polls <=> Place \in {6, 12}))'
  BY PollsIs, PTL

LEMMA PlaceKept ==
    ASSUME IInv, IInv', Running, Running', [Next]_vars
    PROVE  /\ Place' >= Place
           /\ Proceed /\ ~Polls => Place' > Place
           /\ Expire => Place' > Place
<1>1. Place \in 0 .. 14 /\ Place' \in 0 .. 14
  BY PlaceTyped, NextPlaceTyped
<1>2. CASE Expire
  <2>1. tool.at \in {"await", "watch", "destroy", "capture"} /\ ~expired /\ expired' /\ tool' = tool
    BY <1>2 DEF Expire, Loops
  <2> QED
    BY <2>1 DEF Place
<1>3. CASE Proceed /\ ~Expire
  BY <1>1, <1>3, GoesForward
<1>4. CASE ~Proceed /\ ~Expire
  <2>1. tool' = tool /\ expired' = expired
    BY <1>4, StaysThere
  <2>2. Place' = Place
    BY <2>1 DEF Place
  <2> QED
    BY <1>1, <1>4, <2>2
<1> QED
  BY <1>2, <1>3, <1>4

\* What a call may do while a tool is in hand: it is done once, or it skips.
LEMMA CallMoves ==
    ASSUME IInv, Running, [Next]_vars
    PROVE  /\ call.stage = "done" => call' = call \/ Proceed
           /\ call.stage # "done" => call' = call \/ Steadily
           /\ call.stage # "done" /\ Steadily => \/ call'.stage = "done"
                                                 \/ call'.stage = "event"
           /\ call.stage = "done" /\ Steadily => Proceed
<1>1. Proceed => call.stage = "done"
  BY DEF Proceed
<1>2. ~Proceed => call' = call \/ ClientStep
  BY StaysThere
<1>3. ASSUME ClientStep
      PROVE  call.stage # "done" /\ call'.stage \in {"done", "event"}
  <2>1. call \in CallRecord
    BY DEF IInv, TypeOK, ClientTypeOK
  <2>2. \A ok : Done(ok).stage = "done"
    BY DEF Done
  <2>3. CASE ReadPacket
    <3> DEFINE p == Head(received)
    <3>1. [Done(TRUE) EXCEPT !.state = p.state].stage = "done"
      BY DEF Done
    <3>2. [call EXCEPT !.stage = "event", !.sequence = p.sequence].stage = "event"
      BY <2>1 DEF CallRecord
    <3>3. [call EXCEPT !.ignored = @ + 1].stage = call.stage
      BY <2>1 DEF CallRecord
    <3> HIDE DEF p
    <3>4. call.stage = "response" => AfterResponse(p).stage \in {"done", "event"}
      BY <2>2, <3>1, <3>2 DEF AfterResponse
    <3>5. call.stage = "event" => AfterEvent(p).stage \in {"done", "event"}
      BY <2>2, <3>3 DEF AfterEvent
    <3>6. call.stage \in {"response", "event"}
      BY <2>1, <2>3 DEF ReadPacket, CallRecord
    <3> QED
      BY <2>3, <3>4, <3>5, <3>6 DEF ReadPacket, p
  <2>4. CASE TimeOut
    BY <2>2, <2>4 DEF TimeOut
  <2>5. CASE HangUp
    BY <2>2, <2>5 DEF HangUp
  <2> QED
    BY <1>3, <2>3, <2>4, <2>5 DEF ClientStep
<1> QED
  BY <1>1, <1>2, <1>3 DEF Steadily

-----------------------------------------------------------------------------
(* In time. *)

AtLeast(n) == Place >= n
InEvent == call.stage = "event"
AtRest == call.stage = "done"

\* No call skips packets for ever.  It gives up after MaxIgnored of them, but a
\* counter is beyond the prover: this is the other hypothesis.
SkippingEnds == ~(<>[]InEvent /\ []<><<Skips>>_vars)

\* From then on the tool in hand never ends.
Hangs == FairSpec /\ []DueStepsHappen /\ SkippingEnds /\ <>[]Running

LEMMA CallsEnd == Hangs => []<><<Proceed>>_vars
<1>1. IInv /\ Running /\ [Next]_vars =>
        /\ AtRest => AtRest' \/ <<Proceed>>_vars
        /\ InEvent /\ ~AtRest' => InEvent'
        /\ ~AtRest /\ <<Steadily>>_vars => AtRest' \/ InEvent'
        /\ AtRest /\ <<Steadily>>_vars => <<Proceed>>_vars
        /\ InEvent /\ InEvent' /\ <<Steadily>>_vars => <<Skips>>_vars
  BY CallMoves DEF AtRest, InEvent, Skips, vars, clientVars
<1>2. Hangs => []IInv /\ [][Next]_vars
  BY Invariance, PTL DEF Hangs, FairSpec, Spec
<1>3. Hangs => []<><<Steadily>>_vars
  <2>1. DueStepsHappen => (Running => ENABLED <<Steadily>>_vars)
    BY DEF DueStepsHappen
  <2> QED
    BY <2>1, PTL DEF Hangs, FairSpec, Fairness, Steadily
<1>4. Hangs => <>[]Running /\ SkippingEnds
  BY PTL DEF Hangs
<1> HIDE DEF Hangs
<1>5. Hangs => []<>AtRest
  BY <1>1, <1>2, <1>3, <1>4, PTL DEF SkippingEnds
<1> QED
  BY <1>1, <1>2, <1>3, <1>4, <1>5, PTL

\* From one place a tool gets to the next, or further.
Leaves(n, m) ==
    /\ AtLeast(m) => AtLeast(m)'
    /\ AtLeast(n) /\ Polls /\ <<Expire>>_vars => AtLeast(m)'
    /\ AtLeast(n) /\ ~Polls /\ <<Proceed>>_vars => AtLeast(m)'
    /\ AtLeast(n) /\ AtLeast(n)' => AtLeast(m)' \/ (Polls <=> Polls')

LEMMA LeavesForNext ==
    ASSUME NEW n \in 0 .. 14, NEW m \in 1 .. 15, m = n + 1
    PROVE  IInv /\ IInv' /\ Running /\ Running' /\ [Next]_vars => Leaves(n, m)
<1> SUFFICES ASSUME IInv, IInv', Running, Running', [Next]_vars
             PROVE  Leaves(n, m)
  OBVIOUS
<1>1. Place \in 0 .. 14 /\ Place' \in 0 .. 14
  BY PlaceTyped, NextPlaceTyped
<1>2. (Polls <=> Place \in {6, 12}) /\ (Polls' <=> Place' \in {6, 12})
  BY PlaceIs, NextPolls
<1> QED
  BY <1>1, <1>2, PlaceKept DEF Leaves, AtLeast

\* Nothing hangs: the last place is passed as well.
LEMMA NothingHangs == Hangs => FALSE
<1> DEFINE Moves == IInv /\ IInv' /\ Running /\ Running' /\ [Next]_vars
<1>1. Moves => Leaves(0, 1)
  BY LeavesForNext
<1>2. Moves => Leaves(1, 2)
  BY LeavesForNext
<1>3. Moves => Leaves(2, 3)
  BY LeavesForNext
<1>4. Moves => Leaves(3, 4)
  BY LeavesForNext
<1>5. Moves => Leaves(4, 5)
  BY LeavesForNext
<1>6. Moves => Leaves(5, 6)
  BY LeavesForNext
<1>7. Moves => Leaves(6, 7)
  BY LeavesForNext
<1>8. Moves => Leaves(7, 8)
  BY LeavesForNext
<1>9. Moves => Leaves(8, 9)
  BY LeavesForNext
<1>10. Moves => Leaves(9, 10)
  BY LeavesForNext
<1>11. Moves => Leaves(10, 11)
  BY LeavesForNext
<1>12. Moves => Leaves(11, 12)
  BY LeavesForNext
<1>13. Moves => Leaves(12, 13)
  BY LeavesForNext
<1>14. Moves => Leaves(13, 14)
  BY LeavesForNext
<1>15. Moves => Leaves(14, 15)
  BY LeavesForNext
<1>16. IInv /\ Running => AtLeast(0) /\ ~AtLeast(15)
  BY PlaceTyped DEF AtLeast
<1>17. Hangs => []IInv /\ [][Next]_vars /\ <>[]Running
  BY Invariance, PTL DEF Hangs, FairSpec, Spec
<1>18. Hangs => ([]<>~Polls \/ []<><<Expire>>_vars)
  <2>1. DueStepsHappen => (Polls => ENABLED <<Expire>>_vars)
    BY DEF DueStepsHappen, Polls
  <2> QED
    BY <2>1, PTL DEF Hangs, FairSpec, Fairness
<1> HIDE DEF Hangs
<1> QED
  BY <1>1, <1>2, <1>3, <1>4, <1>5, <1>6, <1>7, <1>8, <1>9, <1>10, <1>11,
     <1>12, <1>13, <1>14, <1>15, <1>16, <1>17, <1>18, CallsEnd, PTL DEF Leaves

(***************************************************************************)
(* Every tool returns, whatever the host does, and whether it answers: if  *)
(* the steps of the MCP server that are due can be taken, and no call skips*)
(* packets for ever.                                                       *)
(***************************************************************************)
THEOREM AllToolsReturn == FairSpec /\ []DueStepsHappen /\ SkippingEnds => ToolsReturn
<1>1. FairSpec /\ []DueStepsHappen /\ SkippingEnds => (Running ~> ~Running)
  BY NothingHangs, PTL DEF Hangs
<1>2. (Running ~> ~Running) => ToolsReturn
  <2>1. ~Running <=> tool.name = "none"
    BY DEF Running
  <2>2. Running <=> tool.name # "none"
    BY DEF Running
  <2> QED
    BY <2>1, <2>2, PTL DEF ToolsReturn
<1> QED
  BY <1>1, <1>2, PTL
=============================================================================
