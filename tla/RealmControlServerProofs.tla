---------------------- MODULE RealmControlServerProofs ----------------------
(***************************************************************************)
(* Proofs about RealmControlServer, for any number of connections and of   *)
(* requests and for all limits: the queues are counted, each result finds  *)
(* the client that asked, nothing waits for an event that is not watched   *)
(* for, and a connection that closes does nothing else.                    *)
(***************************************************************************)
EXTENDS RealmControlServer, FiniteSetTheorems, SequenceTheorems, TLAPS

-----------------------------------------------------------------------------
(* The inductive invariant. *)

\* QueueIsCounted, with what a partial write needs: the ends are in order.
Counted(c) ==
    \E end \in [0 .. Len(output[c]) -> 0 .. MaxQueued] :
        /\ Counts(end, c)
        /\ \A i, j \in 0 .. Len(output[c]) : i < j => end[i] < end[j]

OutgoingOK ==
    /\ output \in [Clients -> Seq(1 .. MaxFrame)]
    /\ queued \in [Clients -> Int]
    /\ \A c \in Clients : Counted(c)

\* Before it is accepted a connection has asked for nothing.
FreshOK ==
    \A c \in Clients : status[c] = "none" =>
        input[c] = 0 /\ output[c] = <<>> /\ \A r \in Requests : owed[r] # c

\* A turn is of a client that is there, and reads only if it is open.  While
\* requests are cancelled the one in progress is in the buffer, unless an
\* event found no room for it: then the queue is full.
TurnOK ==
    /\ turn # NoTurn => turn.stage # "idle" /\ turn.client \in Connected
    /\ turn.stage \in {"frames", "read"} => status[turn.client] = "open"
    /\ turn.stage = "cancel" =>
           /\ turn.processed < MaxRequests
           /\ \/ status[turn.client] = "open" /\ input[turn.client] > 0
              \/ status[turn.client] = "closing" /\ queued[turn.client] >= MaxQueued

\* What NoLostWakeup says of one connection, and what holds of the one whose
\* turn it is.
Waits(c) ==
    /\ input[c] = 0
    /\ "out" \in watched[c] <=> output[c] # <<>>
    /\ status[c] = "open" => "in" \in watched[c]
    /\ status[c] = "closing" => watched[c] = {"out"}
WaitsOK ==
    \A c \in Connected :
        /\ c # turn.client => Waits(c)
        /\ turn.stage \in {"read", "write", "finish"} => input[c] = 0
        /\ status[c] = "closing" =>
               input[c] = 0 /\ (output[c] # <<>> \/ (c = turn.client /\ turn.stage = "write"))

IInv == TypeOK /\ OutgoingOK /\ RequesterIsKnown /\ FreshOK /\ TurnOK /\ WaitsOK

-----------------------------------------------------------------------------
(* The queue of a connection. *)

\* A counted queue holds between nothing and its limit; an empty one nothing,
\* and of another one the first frame is a part.
LEMMA QueueBounds ==
    ASSUME OutgoingOK, NEW c \in Clients
    PROVE  /\ queued[c] \in 0 .. MaxQueued
           /\ output[c] = <<>> => queued[c] = 0
           /\ output[c] # <<>> => Head(output[c]) \in 1 .. MaxFrame /\ Head(output[c]) =< queued[c]
<1> DEFINE s == output[c]
<1>1. s \in Seq(1 .. MaxFrame) /\ Len(s) \in Nat /\ queued[c] \in Int
    BY DEF OutgoingOK
<1>2. PICK end \in [0 .. Len(s) -> 0 .. MaxQueued] :
            Counts(end, c) /\ \A i, j \in 0 .. Len(s) : i < j => end[i] < end[j]
    BY DEF OutgoingOK, Counted
<1>3. end[0] = 0 /\ end[Len(s)] = queued[c]
    BY <1>2 DEF Counts
<1>4. queued[c] \in 0 .. MaxQueued
    BY <1>1, <1>2, <1>3
<1>5. s = <<>> => queued[c] = 0
    BY <1>3
<1>6. ASSUME s # <<>>
      PROVE  Head(s) \in 1 .. MaxFrame /\ Head(s) =< queued[c]
  <2>1. Len(s) >= 1 /\ Head(s) = s[1] /\ s[1] \in 1 .. MaxFrame
    <3> HIDE DEF s
    <3>1. Len(s) >= 1
        BY <1>1, <1>6, EmptySeq
    <3> QED BY <3>1, <1>1, HeadTailProperties, ElementOfSeq, <1>6
  <2>2. end[1] = end[0] + s[1]
      BY <2>1, <1>1, <1>2 DEF Counts
  <2>3. end[1] =< end[Len(s)]
    <3>1. CASE Len(s) = 1
        BY <3>1, <1>2, <2>1
    <3>2. CASE Len(s) # 1
        BY <3>2, <1>1, <1>2, <2>1
    <3> QED BY <3>1, <3>2
  <2> QED BY <2>1, <2>2, <2>3, <1>3, ControlAssumption DEF ControlAssumption
<1> QED BY <1>4, <1>5, <1>6

LEMMA OutgoingKept ==
    ASSUME OutgoingOK, UNCHANGED outgoing
    PROVE  OutgoingOK'
BY DEF OutgoingOK, Counted, Counts, outgoing

\* What is left of the other queues when one of them changes.
LEMMA OtherQueues ==
    ASSUME OutgoingOK, NEW c \in Clients, NEW s \in Seq(1 .. MaxFrame), NEW q \in Int,
           output' = [output EXCEPT ![c] = s], queued' = [queued EXCEPT ![c] = q],
           Counted(c)'
    PROVE  OutgoingOK'
<1>1. output' \in [Clients -> Seq(1 .. MaxFrame)] /\ queued' \in [Clients -> Int]
    BY DEF OutgoingOK
<1>2. ASSUME NEW d \in Clients PROVE Counted(d)'
  <2>1. CASE d = c
      BY <2>1
  <2>2. CASE d # c
    <3>1. output'[d] = output[d] /\ queued'[d] = queued[d]
        BY <2>2 DEF OutgoingOK
    <3>2. PICK end \in [0 .. Len(output[d]) -> 0 .. MaxQueued] :
              Counts(end, d) /\ \A i, j \in 0 .. Len(output[d]) : i < j => end[i] < end[j]
        BY DEF OutgoingOK, Counted
    <3>3. Counts(end, d)'
        BY <3>1, <3>2 DEF Counts
    <3> QED BY <3>1, <3>2, <3>3 DEF Counted
  <2> QED BY <2>1, <2>2
<1> QED BY <1>1, <1>2 DEF OutgoingOK

\* queueResponse, when it takes the frame.
LEMMA QueueStep ==
    ASSUME OutgoingOK, NEW c \in Clients, NEW size \in 1 .. MaxFrame, Fits(c, size), Queue(c, size)
    PROVE  /\ OutgoingOK'
           /\ output'[c] # <<>> /\ Len(output'[c]) = Len(output[c]) + 1
           /\ \A d \in Clients : d # c => output'[d] = output[d] /\ queued'[d] = queued[d]
<1> DEFINE s == output[c]
<1> DEFINE n == Len(s)
<1> DEFINE t == Append(s, size)
<1> DEFINE q == queued[c] + size
<1>1. s \in Seq(1 .. MaxFrame) /\ n \in Nat /\ queued[c] \in Int
    BY DEF OutgoingOK
<1>2. /\ t \in Seq(1 .. MaxFrame) /\ Len(t) = n + 1
      /\ \A i \in 1 .. n : t[i] = s[i]
      /\ t[n + 1] = size
    BY <1>1
<1>3. /\ output' = [output EXCEPT ![c] = t] /\ queued' = [queued EXCEPT ![c] = q]
      /\ output'[c] = t /\ queued'[c] = q
    BY DEF Queue, OutgoingOK
<1>4. q \in 0 .. MaxQueued
  <2>1. queued[c] \in 0 .. MaxQueued
      BY QueueBounds
  <2> QED BY <2>1, <1>1, ControlAssumption DEF Fits, ControlAssumption
<1>5. PICK end \in [0 .. n -> 0 .. MaxQueued] :
            Counts(end, c) /\ \A i, j \in 0 .. n : i < j => end[i] < end[j]
    BY DEF OutgoingOK, Counted
<1> DEFINE new == [i \in 0 .. n + 1 |-> IF i = n + 1 THEN q ELSE end[i]]
<1>6. new \in [0 .. Len(t) -> 0 .. MaxQueued]
    BY <1>1, <1>2, <1>4, <1>5
<1>7. /\ \A i \in 0 .. n : new[i] = end[i]
      /\ new[n + 1] = q
    BY <1>1
<1>8. end[0] = 0 /\ end[n] = queued[c] /\ \A i \in 1 .. n : end[i] = end[i - 1] + s[i]
    BY <1>5 DEF Counts
<1>9. ASSUME NEW i \in 1 .. n + 1
      PROVE  new[i] = new[i - 1] + t[i]
  <2>1. CASE i = n + 1
    <3>1. new[i] = q /\ new[i - 1] = queued[c] /\ t[i] = size
        BY <2>1, <1>1, <1>2, <1>7, <1>8
    <3> QED BY <3>1
  <2>2. CASE i # n + 1
    <3>1. i \in 1 .. n /\ i - 1 \in 0 .. n /\ i \in 0 .. n
        BY <2>2, <1>1
    <3> QED BY <3>1, <1>2, <1>7, <1>8
  <2> QED BY <2>1, <2>2
<1>10. ASSUME NEW i \in 0 .. n + 1, NEW j \in 0 .. n + 1, i < j
       PROVE  new[i] < new[j]
  <2>1. i \in 0 .. n /\ end[i] \in 0 .. MaxQueued
      BY <1>10, <1>1, <1>5
  <2>2. end[i] =< queued[c]
    <3>1. CASE i = n
        BY <3>1, <1>8, <1>1
    <3>2. CASE i # n
        BY <3>2, <2>1, <1>1, <1>5, <1>8
    <3> QED BY <3>1, <3>2
  <2>3. CASE j = n + 1
      BY <2>1, <2>2, <2>3, <1>1, <1>7, ControlAssumption DEF ControlAssumption
  <2>4. CASE j # n + 1
    <3>1. j \in 0 .. n
        BY <2>4, <1>1
    <3> QED BY <3>1, <2>1, <1>10, <1>5, <1>7
  <2> QED BY <2>3, <2>4
<1>11. Counted(c)'
  <2>1. new[0] = 0 /\ new[Len(t)] = q
      BY <1>1, <1>2, <1>7, <1>8
  <2> HIDE DEF new, t, q
  <2>2. Len(t) = n + 1 => \A i \in 1 .. Len(t) : new[i] = new[i - 1] + t[i]
      BY <1>9
  <2>3. \A i, j \in 0 .. Len(t) : i < j => new[i] < new[j]
      BY <1>10, <1>2
  <2> QED BY <2>1, <2>2, <2>3, <1>2, <1>3, <1>6 DEF Counted, Counts
<1>12. OutgoingOK'
  <2>1. q \in Int
      BY <1>1, ControlAssumption DEF ControlAssumption
  <2> HIDE DEF t, q
  <2> QED BY <2>1, <1>2, <1>3, <1>11, OtherQueues
<1> QED BY <1>1, <1>2, <1>3, <1>12 DEF OutgoingOK

\* What a sequence of a first element and a rest is.
LEMMA FirstAndRest ==
    ASSUME NEW S, NEW x \in S, NEW rest \in Seq(S)
    PROVE  /\ <<x>> \o rest \in Seq(S)
           /\ Len(<<x>> \o rest) = Len(rest) + 1
           /\ (<<x>> \o rest)[1] = x
           /\ \A i \in 1 .. Len(rest) : (<<x>> \o rest)[i + 1] = rest[i]
<1> DEFINE first == <<x>>  t == first \o rest
<1>1. first \in Seq(S) /\ Len(first) = 1 /\ first[1] = x
    OBVIOUS
<1>2. Len(rest) \in Nat
    BY LenProperties
<1> HIDE DEF first
<1>3. t \in Seq(S) /\ Len(t) = Len(first) + Len(rest)
    BY <1>1, ConcatProperties
<1>4. \A i \in 1 .. Len(first) + Len(rest) :
          t[i] = IF i =< Len(first) THEN first[i] ELSE rest[i - Len(first)]
    BY <1>1, ConcatProperties
<1> HIDE DEF t
<1>5. t[1] = x
  <2>1. 1 \in 1 .. Len(first) + Len(rest)
      BY <1>1, <1>2
  <2> QED BY <2>1, <1>1, <1>4
<1>6. ASSUME NEW i \in 1 .. Len(rest) PROVE t[i + 1] = rest[i]
  <2>1. i + 1 \in 1 .. Len(first) + Len(rest) /\ ~(i + 1 =< Len(first)) /\ i + 1 - Len(first) = i
      BY <1>1, <1>2
  <2> QED BY <2>1, <1>4
<1> QED
  <2>1. t \in Seq(S) /\ Len(t) = Len(rest) + 1
      BY <1>1, <1>2, <1>3
  <2> QED BY <2>1, <1>5, <1>6 DEF t, first

\* flushClient: n units of the first frame are sent, or all of it.
LEMMA WriteStep ==
    ASSUME OutgoingOK, NEW c \in Clients, output[c] # <<>>,
           NEW n \in 1 .. MaxFrame, n =< Head(output[c]),
           output' = [output EXCEPT ![c] = IF n = Head(@) THEN Tail(@) ELSE <<Head(@) - n>> \o Tail(@)],
           queued' = [queued EXCEPT ![c] = @ - n]
    PROVE  /\ OutgoingOK'
           /\ Len(output'[c]) =< Len(output[c])
           /\ \A d \in Clients : d # c => output'[d] = output[d] /\ queued'[d] = queued[d]
<1> DEFINE s == output[c]
<1> DEFINE l == Len(s)
<1> DEFINE t == IF n = Head(s) THEN Tail(s) ELSE <<Head(s) - n>> \o Tail(s)
<1> DEFINE q == queued[c] - n
<1>1. s \in Seq(1 .. MaxFrame) /\ l \in Nat \ {0} /\ queued[c] \in Int
  <2>1. s \in Seq(1 .. MaxFrame) /\ queued[c] \in Int
      BY DEF OutgoingOK
  <2> HIDE DEF s
  <2>2. s # <<>>
      BY DEF s
  <2>3. l \in Nat \ {0}
      BY <2>1, <2>2, EmptySeq
  <2> QED BY <2>1, <2>3
<1>2. Head(s) = s[1] /\ s[1] \in 1 .. MaxFrame /\ n =< s[1]
  <2>1. n =< Head(s)
      OBVIOUS
  <2> HIDE DEF s
  <2>2. 1 \in 1 .. Len(s)
      BY <1>1
  <2>3. s[1] \in 1 .. MaxFrame
      BY <1>1, <2>2, ElementOfSeq
  <2>4. Head(s) = s[1]
      BY <1>1
  <2> QED BY <2>1, <2>3, <2>4
<1>3. /\ Tail(s) \in Seq(1 .. MaxFrame) /\ Len(Tail(s)) = l - 1
      /\ \A i \in 1 .. l - 1 : Tail(s)[i] = s[i + 1]
    BY <1>1, HeadTailProperties
<1>4. /\ output' = [output EXCEPT ![c] = t] /\ queued' = [queued EXCEPT ![c] = q]
      /\ output'[c] = t /\ queued'[c] = q
    BY DEF OutgoingOK
<1>5. PICK end \in [0 .. l -> 0 .. MaxQueued] :
            Counts(end, c) /\ \A i, j \in 0 .. l : i < j => end[i] < end[j]
    BY DEF OutgoingOK, Counted
<1>6. end[0] = 0 /\ end[l] = queued[c] /\ \A i \in 1 .. l : end[i] = end[i - 1] + s[i]
    BY <1>5 DEF Counts
<1>7. end[1] = s[1]
    BY <1>1, <1>2, <1>6
<1>8. ASSUME NEW i \in 1 .. l
      PROVE  end[i] \in 0 .. MaxQueued /\ end[i] >= s[1]
  <2>1. CASE i = 1
      BY <2>1, <1>2, <1>5, <1>7, <1>8
  <2>2. CASE i # 1
      BY <2>2, <1>1, <1>2, <1>5, <1>7, <1>8
  <2> QED BY <2>1, <2>2
<1>9. q \in Int
    BY <1>1
<1> HIDE DEF s
<1>10. CASE n = Head(s)
  <2> DEFINE new == [i \in 0 .. l - 1 |-> end[i + 1] - n]
  <2>1. t = Tail(s) /\ n = s[1]
      BY <1>10, <1>2
  <2>2. new \in [0 .. l - 1 -> 0 .. MaxQueued]
    <3>1. ASSUME NEW i \in 0 .. l - 1 PROVE end[i + 1] - n \in 0 .. MaxQueued
      <4>1. i + 1 \in 1 .. l
          BY <1>1
      <4> QED BY <4>1, <2>1, <1>2, <1>8, ControlAssumption DEF ControlAssumption
    <3> QED BY <3>1
  <2>3. \A i \in 0 .. l - 1 : new[i] = end[i + 1] - n
      OBVIOUS
  <2> HIDE DEF new
  <2>4. new[0] = 0 /\ new[l - 1] = q
    <3>1. new[0] = end[0 + 1] - n /\ new[l - 1] = end[(l - 1) + 1] - n
      <4>1. 0 \in 0 .. l - 1 /\ l - 1 \in 0 .. l - 1
          BY <1>1
      <4> QED BY <4>1, <2>3
    <3>2. 0 + 1 = 1 /\ (l - 1) + 1 = l
        BY <1>1
    <3>3. new[0] = s[1] - n /\ new[l - 1] = queued[c] - n
        BY <3>1, <3>2, <1>6, <1>7
    <3> QED BY <3>3, <2>1, <1>2
  <2>5. ASSUME NEW i \in 1 .. l - 1 PROVE new[i] = new[i - 1] + Tail(s)[i]
    <3>1. end[i + 1] = end[i] + s[i + 1] /\ end[i] \in Int /\ s[i + 1] \in Int
      <4>1. i + 1 \in 1 .. l /\ (i + 1) - 1 = i /\ i \in 1 .. l
          BY <1>1
      <4>2. s[i + 1] \in 1 .. MaxFrame
          BY <4>1, <1>1, ElementOfSeq
      <4> QED BY <4>1, <4>2, <1>6, <1>8
    <3>2. new[i] = end[i + 1] - n /\ new[i - 1] = end[i] - n /\ Tail(s)[i] = s[i + 1]
        BY <2>3, <1>1, <1>3
    <3> QED BY <3>1, <3>2
  <2>6. ASSUME NEW i \in 0 .. l - 1, NEW j \in 0 .. l - 1, i < j PROVE new[i] < new[j]
    <3>1. i + 1 \in 1 .. l /\ j + 1 \in 1 .. l /\ i + 1 < j + 1
        BY <2>6, <1>1
    <3>2. end[i + 1] < end[j + 1] /\ end[i + 1] \in Int /\ end[j + 1] \in Int
        BY <3>1, <1>1, <1>5, <1>8
    <3> QED BY <3>2, <2>3
  <2>7. Counted(c)'
    <3> HIDE DEF t, q
    <3>1. Len(t) = l - 1
        BY <2>1, <1>3
    <3>2. \A i \in 1 .. Len(t) : new[i] = new[i - 1] + t[i]
        BY <3>1, <2>1, <2>5
    <3>3. \A i, j \in 0 .. Len(t) : i < j => new[i] < new[j]
        BY <3>1, <2>6
    <3> QED BY <3>1, <3>2, <3>3, <2>2, <2>4, <1>4 DEF Counted, Counts
  <2>8. t \in Seq(1 .. MaxFrame) /\ Len(t) =< l
      BY <2>1, <1>1, <1>3
  <2> HIDE DEF t, q
  <2>9. OutgoingOK'
      BY <2>7, <2>8, <1>4, <1>9, OtherQueues
  <2> QED BY <2>8, <2>9, <1>4 DEF OutgoingOK
<1>11. CASE n # Head(s)
  <2> DEFINE new == [i \in 0 .. l |-> IF i = 0 THEN 0 ELSE end[i] - n]
  <2>1. t = <<s[1] - n>> \o Tail(s) /\ n < s[1] /\ s[1] - n \in 1 .. MaxFrame
    <3>1. n # s[1] /\ n < s[1] /\ s[1] - n \in 1 .. MaxFrame
        BY <1>11, <1>2, ControlAssumption DEF ControlAssumption
    <3>2. t = <<s[1] - n>> \o Tail(s)
        BY <1>11, <1>2
    <3> QED BY <3>1, <3>2
  <2>2. /\ t \in Seq(1 .. MaxFrame) /\ Len(t) = l
        /\ t[1] = s[1] - n /\ \A i \in 2 .. l : t[i] = s[i]
    <3> DEFINE x == s[1] - n
               rest == Tail(s)
    <3>1. t = <<x>> \o rest /\ x \in 1 .. MaxFrame /\ rest \in Seq(1 .. MaxFrame)
          /\ Len(rest) = l - 1 /\ \A i \in 1 .. Len(rest) : rest[i] = s[i + 1]
        BY <2>1, <1>1, <1>3
    <3> HIDE DEF x, rest, t
    <3>5. /\ t \in Seq(1 .. MaxFrame) /\ Len(t) = Len(rest) + 1 /\ t[1] = x
          /\ \A i \in 1 .. Len(rest) : t[i + 1] = rest[i]
        BY <3>1, FirstAndRest
    <3>2. t \in Seq(1 .. MaxFrame) /\ Len(t) = l
        BY <3>1, <3>5, <1>1
    <3>3. t[1] = s[1] - n
        BY <3>5 DEF x
    <3>4. ASSUME NEW i \in 2 .. l PROVE t[i] = s[i]
      <4>1. i - 1 \in 1 .. Len(rest) /\ (i - 1) + 1 = i
          BY <1>1, <3>1
      <4> QED BY <4>1, <3>5, <3>1
    <3> QED BY <3>2, <3>3, <3>4
  <2>3. new \in [0 .. l -> 0 .. MaxQueued]
    <3>1. ASSUME NEW i \in 0 .. l PROVE (IF i = 0 THEN 0 ELSE end[i] - n) \in 0 .. MaxQueued
      <4>1. CASE i = 0
          BY <4>1, ControlAssumption DEF ControlAssumption
      <4>2. CASE i # 0
        <5>1. i \in 1 .. l
            BY <4>2, <1>1
        <5>2. end[i] \in 0 .. MaxQueued /\ end[i] >= s[1]
            BY <5>1, <1>8
        <5> QED BY <4>2, <5>2, <2>1, <1>2, ControlAssumption DEF ControlAssumption
      <4> QED BY <4>1, <4>2
    <3> QED BY <3>1
  <2>4. new[0] = 0 /\ \A i \in 1 .. l : new[i] = end[i] - n
      BY <1>1
  <2> HIDE DEF new
  <2>5. new[l] = q
      BY <2>4, <1>1, <1>6
  <2>6. ASSUME NEW i \in 1 .. l PROVE new[i] = new[i - 1] + t[i]
    <3>1. CASE i = 1
        BY <3>1, <2>2, <2>4, <1>1, <1>2, <1>7
    <3>2. CASE i # 1
      <4>1. i \in 2 .. l /\ i - 1 \in 1 .. l
          BY <3>2, <1>1
      <4>2. s[i] \in 1 .. MaxFrame
          BY <1>1, ElementOfSeq
      <4>3. new[i] = end[i] - n /\ new[i - 1] = end[i - 1] - n /\ t[i] = s[i]
          BY <4>1, <2>2, <2>4
      <4>4. end[i] = end[i - 1] + s[i] /\ end[i] \in Int /\ end[i - 1] \in Int
          BY <4>1, <1>6, <1>8
      <4>5. new[i] = (end[i - 1] + s[i]) - n /\ new[i - 1] + t[i] = (end[i - 1] - n) + s[i]
          BY <4>3, <4>4
      <4> HIDE DEF t
      <4> QED BY <4>2, <4>4, <4>5
    <3> QED BY <3>1, <3>2
  <2>7. ASSUME NEW i \in 0 .. l, NEW j \in 0 .. l, i < j PROVE new[i] < new[j]
    <3>1. j \in 1 .. l /\ new[j] = end[j] - n /\ end[j] \in Int /\ end[j] > n
        BY <2>7, <2>1, <2>4, <1>1, <1>2, <1>8
    <3>2. CASE i = 0
        BY <3>1, <3>2, <2>4
    <3>3. CASE i # 0
      <4>1. i \in 1 .. l /\ new[i] = end[i] - n /\ end[i] \in Int /\ end[i] < end[j]
          BY <3>3, <2>7, <2>4, <1>1, <1>5, <1>8
      <4> QED BY <3>1, <4>1
    <3> QED BY <3>2, <3>3
  <2>8. Counted(c)'
    <3> HIDE DEF t, q
    <3>1. \A i \in 1 .. Len(t) : new[i] = new[i - 1] + t[i]
        BY <2>2, <2>6
    <3>2. \A i, j \in 0 .. Len(t) : i < j => new[i] < new[j]
        BY <2>2, <2>7
    <3> QED BY <3>1, <3>2, <2>2, <2>3, <2>4, <2>5, <1>4 DEF Counted, Counts
  <2> HIDE DEF t, q
  <2>9. OutgoingOK'
      BY <2>8, <2>2, <1>4, <1>9, OtherQueues
  <2> QED BY <2>2, <2>9, <1>1, <1>4 DEF OutgoingOK
<1> QED BY <1>10, <1>11

-----------------------------------------------------------------------------
(* The parts of the handlers. *)

\* The turns the handlers make of a turn.
LEMMA TurnTypes ==
    ASSUME turn \in Turn
    PROVE  /\ NoTurn \in Turn /\ NoTurn.client = NoClient /\ NoTurn.stage = "idle"
           /\ AfterRead \in Turn /\ AfterRead.client = turn.client
           /\ AfterRead.stage \in {"write", "finish"}
           /\ \A s \in Stage : [turn EXCEPT !.stage = s] \in Turn
<1>1. NoTurn \in Turn /\ NoTurn.client = NoClient /\ NoTurn.stage = "idle"
    BY ControlAssumption DEF NoTurn, Turn, Stage, ControlAssumption
<1>2. \A s \in Stage : [turn EXCEPT !.stage = s] \in Turn
    BY DEF Turn
<1>3. (IF turn.write THEN "write" ELSE "finish") \in Stage /\ 0 \in 0 .. MaxRequests
    BY ControlAssumption DEF ControlAssumption, Stage
<1>4. AfterRead \in Turn
    BY <1>3 DEF AfterRead, Turn
<1>5. AfterRead.client = turn.client /\ AfterRead.stage \in {"write", "finish"}
    BY DEF AfterRead, Turn
<1> QED BY <1>1, <1>2, <1>4, <1>5

\* queueTerminalError leaves something to send, and only one frame more.
LEMMA TerminalStep ==
    ASSUME TypeOK, OutgoingOK, NEW c \in Clients, Terminal(c)
    PROVE  /\ OutgoingOK'
           /\ output'[c] # <<>> /\ Len(output'[c]) =< Len(output[c]) + 1
           /\ ~Fits(c, 1) => UNCHANGED outgoing
           /\ \A d \in Clients : d # c => output'[d] = output[d] /\ queued'[d] = queued[d]
           /\ status' = [status EXCEPT ![c] = "closing"]
           /\ input' = [input EXCEPT ![c] = 0]
           /\ partial' = [partial EXCEPT ![c] = FALSE]
<1>1. CASE Fits(c, 1)
  <2>1. 1 \in 1 .. MaxFrame /\ Queue(c, 1)
      BY <1>1, ControlAssumption DEF Terminal, ControlAssumption
  <2>2. Len(output[c]) \in Nat
      BY DEF OutgoingOK
  <2> QED BY <1>1, <2>1, <2>2, QueueStep DEF Terminal
<1>2. CASE ~Fits(c, 1)
  <2>1. UNCHANGED outgoing
      BY <1>2 DEF Terminal
  <2>2. UNCHANGED <<output, queued>>
      BY <2>1 DEF outgoing
  <2>3. OutgoingOK'
      BY <2>1, OutgoingKept
  <2>4. output[c] # <<>>
    <3>1. queued[c] \in 0 .. MaxQueued /\ (output[c] = <<>> => queued[c] = 0)
        BY QueueBounds
    <3>2. queued[c] = MaxQueued
        BY <1>2, <3>1, ControlAssumption DEF Fits, ControlAssumption
    <3> QED BY <3>1, <3>2, ControlAssumption DEF ControlAssumption
  <2>5. Len(output[c]) \in Nat
      BY DEF OutgoingOK
  <2> QED BY <2>1, <2>2, <2>3, <2>4, <2>5 DEF Terminal
<1> QED BY <1>1, <1>2

\* TypeOK of what the peers and the handlers do to one connection.
LocalOK ==
    /\ status \in [Clients -> {"none", "open", "closing", "gone"}]
    /\ input \in [Clients -> Nat]
    /\ partial \in [Clients -> BOOLEAN]
    /\ watched \in [Clients -> SUBSET {"in", "out"}]

\* What updateClientEvents sets is what the connection needs.
LEMMA WatchStep ==
    ASSUME LocalOK, NEW c \in Clients, Watch(c)
    PROVE  /\ watched' \in [Clients -> SUBSET {"in", "out"}]
           /\ \A d \in Clients : d # c => watched'[d] = watched[d]
           /\ "out" \in watched'[c] <=> output'[c] # <<>>
           /\ status'[c] = "open" => "in" \in watched'[c]
           /\ status'[c] = "closing" /\ output'[c] # <<>> => watched'[c] = {"out"}
BY DEF LocalOK, Watch

\* An event for client c: it is queued, or dropped, or it closes the connection,
\* whose queue is full then.
LEMMA DeliverStep ==
    ASSUME TypeOK, OutgoingOK, NEW r \in Requests, NEW failed \in BOOLEAN, NEW size \in 1 .. MaxFrame,
           Deliver(r, failed, size),
           NEW c \in Clients, pending[r] = c
    PROVE  /\ OutgoingOK' /\ LocalOK' /\ Watch(c)
           /\ Len(output'[c]) =< Len(output[c]) + 1
           /\ \A d \in Clients : d # c =>
                  /\ output'[d] = output[d] /\ queued'[d] = queued[d]
                  /\ status'[d] = status[d] /\ input'[d] = input[d] /\ watched'[d] = watched[d]
           /\ \/ /\ status'[c] = status[c] /\ input'[c] = input[c]
                 /\ \/ output' = output /\ queued' = queued
                    \/ output'[c] # <<>> /\ Fits(c, size)
              \/ /\ status'[c] = "closing" /\ input'[c] = 0 /\ output'[c] # <<>>
                 /\ ~Fits(c, size) /\ (size = 1 => output' = output /\ queued' = queued)
<1>1. Watch(c) /\ LocalOK /\ Len(output[c]) \in Nat
    BY ControlAssumption DEF Deliver, ControlAssumption, TypeOK, OutgoingOK, LocalOK
<1>2. /\ watched' \in [Clients -> SUBSET {"in", "out"}]
      /\ \A d \in Clients : d # c => watched'[d] = watched[d]
    BY <1>1, WatchStep
<1>3. \/ Fits(c, size) /\ Queue(c, size) /\ UNCHANGED <<status, input, partial>>
      \/ UNCHANGED <<outgoing, status, input, partial>>
      \/ ~Fits(c, size) /\ Terminal(c)
    BY ControlAssumption DEF Deliver, ControlAssumption
<1>4. CASE Fits(c, size) /\ Queue(c, size) /\ UNCHANGED <<status, input, partial>>
  <2>2. /\ OutgoingOK' /\ output'[c] # <<>> /\ Len(output'[c]) = Len(output[c]) + 1
        /\ \A d \in Clients : d # c => output'[d] = output[d] /\ queued'[d] = queued[d]
      BY <1>4, QueueStep
  <2>3. LocalOK'
      BY <1>1, <1>2, <1>4 DEF LocalOK
  <2> QED BY <1>1, <1>2, <1>4, <2>2, <2>3
<1>5. CASE UNCHANGED <<outgoing, status, input, partial>>
  <2>1. UNCHANGED <<output, queued, status, input, partial>>
      BY <1>5 DEF outgoing
  <2>2. OutgoingOK'
      BY <1>5, OutgoingKept
  <2>3. LocalOK'
      BY <1>1, <1>2, <2>1 DEF LocalOK
  <2> QED BY <1>1, <1>2, <2>1, <2>2, <2>3
<1>6. CASE ~Fits(c, size) /\ Terminal(c)
  <2>0. ~Fits(c, 1) => UNCHANGED <<output, queued>>
      BY <1>6, TerminalStep DEF outgoing
  <2>1. /\ OutgoingOK' /\ output'[c] # <<>> /\ Len(output'[c]) =< Len(output[c]) + 1
        /\ \A d \in Clients : d # c => output'[d] = output[d] /\ queued'[d] = queued[d]
        /\ status' = [status EXCEPT ![c] = "closing"] /\ input' = [input EXCEPT ![c] = 0]
        /\ partial' = [partial EXCEPT ![c] = FALSE]
      BY <1>6, TerminalStep
  <2>2. LocalOK' /\ status'[c] = "closing" /\ input'[c] = 0
      BY <1>1, <1>2, <2>1 DEF LocalOK
  <2>3. \A d \in Clients : d # c => status'[d] = status[d] /\ input'[d] = input[d]
      BY <1>1, <2>1 DEF LocalOK
  <2> QED BY <1>1, <1>2, <1>6, <2>0, <2>1, <2>2, <2>3
<1> QED BY <1>3, <1>4, <1>5, <1>6

-----------------------------------------------------------------------------
(* The steps keep the invariant. *)

\* A result, by itself or while a request cancels others.
LEMMA DeliverKeeps ==
    ASSUME IInv, NEW r \in Requests, NEW failed \in BOOLEAN, NEW size \in 1 .. MaxFrame,
           Deliver(r, failed, size),
           turn' \in Turn, turn'.client = turn.client, turn'.stage = turn.stage,
           turn'.processed = turn.processed, turn = NoTurn => turn' = NoTurn,
           turn.stage \in {"idle", "cancel"}, turn.stage = "cancel" => size = 1, listening' = listening
    PROVE  IInv'
<1>1. TypeOK /\ OutgoingOK /\ RequesterIsKnown /\ FreshOK /\ TurnOK /\ WaitsOK
    BY DEF IInv
<1>2. /\ owed' = [owed EXCEPT ![r] = NoClient] /\ pending' = [pending EXCEPT ![r] = NoClient]
      /\ ended' = ended /\ socket' = socket
    BY DEF Deliver
<1>3. owed' \in [Requests -> Clients \cup {NoClient}] /\ pending' \in [Requests -> Clients \cup {NoClient}]
    BY <1>1, <1>2 DEF TypeOK
<1>4. LocalOK
    BY <1>1 DEF TypeOK, LocalOK
<1>5. NoClient \notin Clients /\ Connected \subseteq Clients
    BY ControlAssumption DEF ControlAssumption, Connected
<1>6. CASE pending[r] = NoClient
  <2>1. UNCHANGED <<status, input, partial, outgoing, watched>>
      BY <1>6 DEF Deliver
  <2>2. UNCHANGED <<status, input, partial, output, queued, watched>>
      BY <2>1 DEF outgoing
  <2>3. Connected' = Connected
      BY <2>2 DEF Connected
  <2>5. OutgoingOK'
      BY <1>1, <2>1, OutgoingKept
  <2>10. LocalOK'
      BY <1>4, <2>2 DEF LocalOK
  <2>4. TypeOK'
      BY <1>1, <1>2, <1>3, <2>5, <2>10 DEF TypeOK, LocalOK, OutgoingOK
  <2>6. RequesterIsKnown'
      BY <1>1, <1>2, <1>5, <2>3 DEF RequesterIsKnown, TypeOK
  <2>7. FreshOK'
      BY <1>1, <1>2, <1>5, <2>2 DEF FreshOK, TypeOK
  <2>8. TurnOK'
      BY <1>1, <2>2, <2>3 DEF TurnOK
  <2>9. WaitsOK'
      BY <1>1, <2>2, <2>3 DEF WaitsOK, Waits
  <2> QED BY <2>4, <2>5, <2>6, <2>7, <2>8, <2>9 DEF IInv
<1>7. ASSUME NEW c \in Clients, pending[r] = c
      PROVE  IInv'
  <2>1. /\ OutgoingOK' /\ LocalOK' /\ Watch(c)
        /\ \A d \in Clients : d # c =>
               /\ output'[d] = output[d] /\ queued'[d] = queued[d]
               /\ status'[d] = status[d] /\ input'[d] = input[d] /\ watched'[d] = watched[d]
        /\ \/ /\ status'[c] = status[c] /\ input'[c] = input[c]
              /\ \/ output' = output /\ queued' = queued
                 \/ output'[c] # <<>> /\ Fits(c, size)
           \/ /\ status'[c] = "closing" /\ input'[c] = 0 /\ output'[c] # <<>>
              /\ ~Fits(c, size) /\ (size = 1 => output' = output /\ queued' = queued)
      BY <1>1, <1>7, DeliverStep
  <2>2. c \in Connected
      BY <1>1, <1>5, <1>7 DEF RequesterIsKnown
  <2>3. Connected' = Connected
      BY <2>1, <2>2 DEF Connected
  <2>4. TypeOK'
      BY <1>1, <1>2, <1>3, <2>1 DEF TypeOK, LocalOK, OutgoingOK
  <2>5. RequesterIsKnown'
      BY <1>1, <1>2, <1>5, <2>3 DEF RequesterIsKnown, TypeOK
  <2>6. FreshOK'
    <3>1. ASSUME NEW d \in Clients, status'[d] = "none"
          PROVE  status[d] = "none" /\ input'[d] = input[d] /\ output'[d] = output[d]
        BY <3>1, <2>1, <2>2 DEF Connected
    <3> QED BY <3>1, <1>1, <1>2, <1>5 DEF FreshOK, TypeOK
  <2>7. TurnOK'
    <3>1. turn' # NoTurn => turn'.stage # "idle" /\ turn'.client \in Connected'
        BY <1>1, <2>3 DEF TurnOK
    <3>2. turn'.stage \notin {"frames", "read"}
        OBVIOUS
    <3>3. ASSUME turn'.stage = "cancel"
          PROVE  /\ turn'.processed < MaxRequests
                 /\ \/ status'[turn'.client] = "open" /\ input'[turn'.client] > 0
                    \/ status'[turn'.client] = "closing" /\ queued'[turn'.client] >= MaxQueued
      <4> DEFINE e == turn.client
      <4>1. /\ turn.processed < MaxRequests /\ e \in Clients
            /\ \/ status[e] = "open" /\ input[e] > 0
               \/ status[e] = "closing" /\ queued[e] >= MaxQueued
        <5>1. turn # NoTurn
            BY <3>3 DEF NoTurn
        <5> QED BY <3>3, <5>1, <1>1, <1>5 DEF TurnOK
      <4>2. CASE e # c
          BY <4>1, <4>2, <2>1
      <4>3. CASE e = c
        <5>1. queued[c] \in 0 .. MaxQueued /\ MaxFrame \in Nat \ {0} /\ MaxQueued \in Nat
            BY <1>1, QueueBounds, ControlAssumption DEF ControlAssumption
        <5>2. Fits(c, 1) <=> queued[c] < MaxQueued
            BY <5>1 DEF Fits
        <5>3. status[c] = "closing" => ~Fits(c, 1)
            BY <4>1, <4>3, <5>1, <5>2
        <5> QED BY <4>1, <4>3, <5>1, <5>2, <5>3, <2>1, <3>3
      <4> QED BY <4>1, <4>2, <4>3
    <3> QED BY <3>1, <3>2, <3>3 DEF TurnOK
  <2>8. WaitsOK'
    <3>1. ASSUME NEW d \in Connected', d # c
          PROVE  /\ d # turn'.client => Waits(d)'
                 /\ status'[d] = "closing" => input'[d] = 0 /\ output'[d] # <<>>
      <4>1. d \in Connected /\ d \in Clients
          BY <1>5, <2>3, <3>1
      <4>2. /\ output'[d] = output[d] /\ status'[d] = status[d] /\ input'[d] = input[d]
            /\ watched'[d] = watched[d]
          BY <2>1, <3>1, <4>1
      <4> QED BY <1>1, <4>1, <4>2 DEF WaitsOK, Waits
    <3>2. /\ status'[c] = "closing" => input'[c] = 0 /\ output'[c] # <<>>
          /\ c # turn.client => input'[c] = 0
        BY <1>1, <2>1, <2>2 DEF WaitsOK, Waits
    <3>3. c # turn'.client => Waits(c)'
      <4>1. /\ "out" \in watched'[c] <=> output'[c] # <<>>
            /\ status'[c] = "open" => "in" \in watched'[c]
            /\ status'[c] = "closing" /\ output'[c] # <<>> => watched'[c] = {"out"}
          BY <2>1, <1>4, WatchStep
      <4> QED BY <3>2, <4>1 DEF Waits
    <3> QED BY <3>1, <3>2, <3>3 DEF WaitsOK
  <2> QED BY <2>1, <2>4, <2>5, <2>6, <2>7, <2>8 DEF IInv
<1> QED BY <1>1, <1>6, <1>7 DEF TypeOK

\* What no step disturbs that leaves the connections, the queues and the
\* requests as they are.
LEMMA StillKeeps ==
    ASSUME IInv, UNCHANGED <<status, outgoing, results>>, TypeOK', TurnOK', WaitsOK',
           \A c \in Clients : status[c] = "none" => input'[c] = input[c]
    PROVE  IInv'
<1>1. UNCHANGED <<owed, pending, output>> /\ Connected' = Connected
    BY DEF results, outgoing, Connected
<1>2. OutgoingOK'
    BY OutgoingKept DEF IInv
<1>3. RequesterIsKnown' /\ FreshOK'
    BY <1>1 DEF IInv, RequesterIsKnown, FreshOK
<1> QED BY <1>2, <1>3 DEF IInv

\* The handler of a client goes on to another stage.
LEMMA MoveKeeps ==
    ASSUME IInv, UNCHANGED <<connection, incoming, outgoing, results, listening>>,
           NEW c \in Connected, turn.client = c, turn' \in Turn, turn'.client = c, turn'.stage # "idle",
           turn'.stage \in {"frames", "read"} => status[c] = "open",
           turn'.stage = "cancel" => turn'.processed < MaxRequests /\ status[c] = "open" /\ input[c] > 0,
           turn'.stage \in {"read", "write", "finish"} => input[c] = 0,
           status[c] = "closing" => output[c] # <<>> \/ turn'.stage = "write"
    PROVE  IInv'
<1>1. UNCHANGED <<status, ended, watched, socket, input, partial, output, queued, owed, pending>>
    BY DEF connection, incoming, outgoing, results
<1>2. UNCHANGED <<status, outgoing, results>> /\ Connected' = Connected
    BY <1>1 DEF Connected
<1>3. TypeOK /\ WaitsOK
    BY DEF IInv
<1>4. TypeOK'
    BY <1>1, <1>3 DEF TypeOK
<1>5. TurnOK'
    BY <1>1, <1>2 DEF TurnOK
<1>6. WaitsOK'
    BY <1>1, <1>2, <1>3 DEF WaitsOK, Waits
<1> QED BY <1>1, <1>2, <1>4, <1>5, <1>6, StillKeeps

\* Who has the turn is connected, and it is not a moment when nobody has it.
LEMMA TurnFacts ==
    ASSUME IInv, NEW c \in Clients, turn.client = c
    PROVE  /\ c \in Connected /\ turn.stage # "idle" /\ turn \in Turn /\ ~Idle
           /\ turn.stage \in {"frames", "read"} => status[c] = "open"
           /\ turn.stage \in {"read", "write", "finish"} => input[c] = 0
           /\ status[c] = "closing" => input[c] = 0 /\ (output[c] # <<>> \/ turn.stage = "write")
<1>1. turn # NoTurn
    BY ControlAssumption DEF ControlAssumption, NoTurn
<1> QED BY <1>1 DEF IInv, TypeOK, TurnOK, WaitsOK, Idle

\* handleClientEvent begins.
LEMMA DispatchKeeps ==
    ASSUME IInv, NEW c \in Clients, NEW read \in BOOLEAN, NEW write \in BOOLEAN, NEW hangup \in BOOLEAN,
           Dispatch(c, read, write, hangup)
    PROVE  IInv'
<1>1. UNCHANGED <<status, ended, watched, socket, input, partial, output, queued, owed, pending, listening>>
    BY DEF Dispatch, connection, incoming, outgoing, results
<1>2. UNCHANGED <<status, outgoing, results>> /\ Connected' = Connected
    BY <1>1 DEF Connected, outgoing, results
<1>3. TypeOK /\ WaitsOK /\ turn = NoTurn /\ c \in Connected
    BY DEF IInv, Dispatch, Idle
<1> DEFINE first == IF Reads(c, read) THEN "frames" ELSE IF write THEN "write" ELSE "finish"
<1>4. /\ first \in Stage /\ first \in {"frames", "write", "finish"}
      /\ first = "frames" => status[c] = "open"
    BY DEF Stage, Reads
<1>5. turn' = [NoTurn EXCEPT !.client = c, !.write = write, !.hangup = hangup, !.stage = first]
    BY DEF Dispatch
<1> HIDE DEF first
<1>6. turn' \in Turn /\ turn'.client = c /\ turn'.stage = first
  <2>1. NoTurn \in Turn
      BY <1>3 DEF TypeOK
  <2> QED BY <1>4, <1>5, <2>1 DEF Turn
<1>7. TypeOK'
    BY <1>1, <1>3, <1>6 DEF TypeOK
<1>8. TurnOK'
    BY <1>1, <1>2, <1>3, <1>4, <1>6 DEF TurnOK
<1>9. \A d \in Connected : Waits(d)
    BY <1>3, ControlAssumption DEF WaitsOK, NoTurn, Connected, ControlAssumption
<1>10. WaitsOK'
  <2>1. \A d \in Connected' : Waits(d)'
      BY <1>1, <1>2, <1>9 DEF Waits
  <2> QED BY <2>1 DEF WaitsOK, Waits
<1> QED BY <1>1, <1>2, <1>7, <1>8, <1>10, StillKeeps

\* The stages that change nothing but the turn.
LEMMA ChangeKeeps ==
    ASSUME IInv, NEW c \in Clients, NEW victims \in SUBSET Requests, Change(c, victims)
    PROVE  IInv'
<1>1. /\ turn.client = c /\ turn.stage = "frames" /\ turn.processed < MaxRequests /\ input[c] > 0
      /\ turn' = [turn EXCEPT !.stage = "cancel", !.victims = victims]
      /\ UNCHANGED <<connection, incoming, outgoing, results, listening>>
    BY DEF Change, Executes, HasFrame, InFrames
<1>2. c \in Connected /\ turn \in Turn /\ status[c] = "open"
    BY <1>1, TurnFacts
<1>3. /\ turn' \in Turn /\ turn'.client = c /\ turn'.stage = "cancel"
      /\ turn'.processed = turn.processed
  <2>1. "cancel" \in Stage
      BY DEF Stage
  <2> QED BY <1>1, <1>2, <2>1 DEF Turn
<1> QED BY <1>1, <1>2, <1>3, MoveKeeps

LEMMA FramesDoneKeeps ==
    ASSUME IInv, NEW c \in Clients, FramesDone(c)
    PROVE  IInv'
<1>1. /\ turn.client = c /\ turn.stage = "frames" /\ input[c] = 0
      /\ turn' = AfterRead \/ turn' = [turn EXCEPT !.stage = "read"]
      /\ UNCHANGED <<connection, incoming, outgoing, results, listening>>
    BY DEF FramesDone, InFrames
<1>2. c \in Connected /\ turn \in Turn /\ status[c] = "open"
    BY <1>1, TurnFacts
<1>3. turn' \in Turn /\ turn'.client = c /\ turn'.stage \in {"read", "write", "finish"}
  <2>1. CASE turn' = AfterRead
      BY <2>1, <1>1, <1>2, TurnTypes
  <2>2. CASE turn' = [turn EXCEPT !.stage = "read"]
    <3>1. "read" \in Stage
        BY DEF Stage
    <3> QED BY <3>1, <2>2, <1>1, <1>2 DEF Turn
  <2> QED BY <1>1, <2>1, <2>2
<1> QED BY <1>1, <1>2, <1>3, MoveKeeps

LEMMA NothingMoreKeeps ==
    ASSUME IInv, NEW c \in Clients, NothingMore(c)
    PROVE  IInv'
<1>1. /\ turn.client = c /\ turn.stage = "read" /\ turn' = AfterRead
      /\ UNCHANGED <<connection, incoming, outgoing, results, listening>>
    BY DEF NothingMore, Drained
<1>2. c \in Connected /\ turn \in Turn /\ status[c] = "open" /\ input[c] = 0
    BY <1>1, TurnFacts
<1>3. turn' \in Turn /\ turn'.client = c /\ turn'.stage \in {"write", "finish"}
    BY <1>1, <1>2, TurnTypes
<1> QED BY <1>1, <1>2, <1>3, MoveKeeps

\* flushClient ends: it was blocked, or everything is sent and it stays open.
LEMMA FlushEndKeeps ==
    ASSUME IInv, NEW c \in Clients, turn.client = c, turn.stage = "write",
           status[c] = "closing" => output[c] # <<>>,
           turn' = [turn EXCEPT !.stage = "finish"],
           UNCHANGED <<connection, incoming, outgoing, results, listening>>
    PROVE  IInv'
<1>1. c \in Connected /\ turn \in Turn /\ input[c] = 0
    BY TurnFacts
<1>2. turn' \in Turn /\ turn'.client = c /\ turn'.stage = "finish"
  <2>1. "finish" \in Stage
      BY DEF Stage
  <2> QED BY <1>1, <2>1 DEF Turn
<1> QED BY <1>1, <1>2, MoveKeeps

\* The frames and the pending requests of a connection go with it.
LEMMA RemoveKeeps ==
    ASSUME IInv, NEW c \in Clients, RemoveClient(c), turn = NoTurn \/ turn.client = c
    PROVE  IInv'
<1>1. TypeOK /\ OutgoingOK /\ RequesterIsKnown /\ FreshOK /\ WaitsOK /\ NoClient \notin Clients
    BY ControlAssumption DEF IInv, ControlAssumption
<1>2. /\ status' = [status EXCEPT ![c] = "gone"] /\ watched' = [watched EXCEPT ![c] = {}]
      /\ input' = [input EXCEPT ![c] = 0] /\ output' = [output EXCEPT ![c] = <<>>]
      /\ queued' = [queued EXCEPT ![c] = 0]
      /\ pending' = [r \in Requests |-> IF pending[r] = c THEN NoClient ELSE pending[r]]
      /\ turn' = NoTurn /\ owed' = owed
    BY DEF RemoveClient, Forgotten
<1>3. Connected' = Connected \ {c}
    BY <1>1, <1>2 DEF Connected, TypeOK
<1>4. OutgoingOK'
  <2>1. output'[c] = <<>> /\ queued'[c] = 0
      BY <1>1, <1>2 DEF OutgoingOK
  <2>2. Counted(c)'
    <3> DEFINE end == [i \in 0 .. 0 |-> 0]
    <3>1. end \in [0 .. Len(output'[c]) -> 0 .. MaxQueued] /\ Counts(end, c)'
        BY <2>1, ControlAssumption DEF ControlAssumption, Counts
    <3>2. \A i, j \in 0 .. Len(output'[c]) : i < j => end[i] < end[j]
        BY <2>1
    <3> QED BY <3>1, <3>2 DEF Counted
  <2>3. <<>> \in Seq(1 .. MaxFrame) /\ 0 \in Int
      OBVIOUS
  <2> QED BY <1>1, <1>2, <2>2, <2>3, OtherQueues
<1>5. TypeOK'
  <2>1. turn' \in Turn
      BY <1>1, <1>2, TurnTypes DEF TypeOK
  <2>2. socket' \in [Clients -> 0 .. SocketBound] /\ ended' \in [Clients -> BOOLEAN] /\ partial' \in [Clients -> BOOLEAN]
      BY <1>1, ControlAssumption DEF TypeOK, RemoveClient, ControlAssumption
  <2>3. pending' \in [Requests -> Clients \cup {NoClient}] /\ listening' = listening
      BY <1>1, <1>2 DEF TypeOK, RemoveClient
  <2>4. /\ status' \in [Clients -> {"none", "open", "closing", "gone"}]
        /\ input' \in [Clients -> Nat] /\ watched' \in [Clients -> SUBSET {"in", "out"}]
      BY <1>1, <1>2 DEF TypeOK
  <2> QED BY <1>1, <1>2, <1>4, <2>1, <2>2, <2>3, <2>4 DEF TypeOK, OutgoingOK
<1>6. RequesterIsKnown'
    BY <1>1, <1>2, <1>3 DEF RequesterIsKnown, TypeOK
<1>7. FreshOK'
    BY <1>1, <1>2 DEF FreshOK, TypeOK
<1>8. TurnOK'
    BY <1>2 DEF TurnOK, NoTurn
<1>9. WaitsOK'
  <2>1. ASSUME NEW d \in Connected'
        PROVE  Waits(d)' /\ (status'[d] = "closing" => input'[d] = 0 /\ output'[d] # <<>>)
    <3>1. d \in Connected /\ d # c /\ d \in Clients
        BY <2>1, <1>3 DEF Connected
    <3>2. /\ status'[d] = status[d] /\ watched'[d] = watched[d] /\ input'[d] = input[d]
          /\ output'[d] = output[d]
        BY <3>1, <1>1, <1>2 DEF TypeOK
    <3>3. d # turn.client
        BY <3>1, <1>1 DEF NoTurn
    <3> QED BY <3>1, <3>2, <3>3, <1>1 DEF WaitsOK, Waits
  <2> QED BY <2>1 DEF WaitsOK, Waits
<1> QED BY <1>4, <1>5, <1>6, <1>7, <1>8, <1>9 DEF IInv

\* handleListenEvent.
LEMMA AcceptKeeps ==
    ASSUME IInv, NEW c \in Clients, Accept(c)
    PROVE  IInv'
<1>1. TypeOK /\ OutgoingOK /\ RequesterIsKnown /\ FreshOK /\ WaitsOK /\ NoClient \notin Clients
    BY ControlAssumption DEF IInv, ControlAssumption
<1>2. PICK s \in {"open", "gone"} :
            /\ status' = [status EXCEPT ![c] = s]
            /\ watched' = [watched EXCEPT ![c] = IF s = "open" THEN {"in"} ELSE {}]
    BY DEF Accept
<1>3. /\ turn = NoTurn /\ status[c] = "none"
      /\ UNCHANGED <<ended, socket, input, partial, output, queued, owed, pending, turn, listening>>
    BY DEF Accept, Idle, incoming, outgoing, results
<1>4. OutgoingOK'
    BY <1>1, <1>3, OutgoingKept DEF outgoing
<1>5. TypeOK'
  <2>1. /\ status' \in [Clients -> {"none", "open", "closing", "gone"}]
        /\ watched' \in [Clients -> SUBSET {"in", "out"}]
      BY <1>1, <1>2 DEF TypeOK
  <2> QED BY <1>1, <1>3, <2>1 DEF TypeOK
<1>6. /\ \A d \in Clients : d # c => status'[d] = status[d] /\ watched'[d] = watched[d]
      /\ status'[c] \in {"open", "gone"}
      /\ status'[c] = "open" => watched'[c] = {"in"}
    BY <1>1, <1>2 DEF TypeOK
<1>7. \A r \in Requests : owed[r] # c
    BY <1>1, <1>3 DEF FreshOK
<1>8. RequesterIsKnown'
    BY <1>1, <1>3, <1>6, <1>7 DEF RequesterIsKnown, Connected, TypeOK
<1>9. FreshOK'
    BY <1>1, <1>3, <1>6 DEF FreshOK
<1>10. TurnOK'
    BY <1>3 DEF TurnOK, NoTurn
<1>11. WaitsOK'
  <2>1. ASSUME NEW d \in Connected'
        PROVE  Waits(d)' /\ (status'[d] = "closing" => input'[d] = 0 /\ output'[d] # <<>>)
    <3>1. CASE d = c
      <4>1. status'[c] = "open" /\ watched'[c] = {"in"} /\ input'[c] = input[c] /\ output'[c] = output[c]
          BY <2>1, <3>1, <1>3, <1>6 DEF Connected
      <4>2. input[c] = 0 /\ output[c] = <<>>
          BY <1>1, <1>3 DEF FreshOK
      <4> QED BY <3>1, <4>1, <4>2 DEF Waits
    <3>2. CASE d # c
      <4>1. d \in Connected /\ d \in Clients /\ d # turn.client
          BY <2>1, <3>2, <1>1, <1>3, <1>6 DEF Connected, NoTurn
      <4> QED BY <4>1, <3>2, <1>1, <1>3, <1>6 DEF WaitsOK, Waits
    <3> QED BY <3>1, <3>2
  <2> QED BY <2>1 DEF WaitsOK, Waits
<1> QED BY <1>4, <1>5, <1>8, <1>9, <1>10, <1>11 DEF IInv

LEMMA ShutdownKeeps ==
    ASSUME IInv, Shutdown
    PROVE  IInv'
<1>1. TypeOK /\ turn = NoTurn /\ NoClient \notin Clients
    BY ControlAssumption DEF IInv, ControlAssumption, Shutdown, Idle
<1>2. /\ status' = [c \in Clients |-> "gone"] /\ watched' = [c \in Clients |-> {}]
      /\ input' = [c \in Clients |-> 0] /\ output' = [c \in Clients |-> <<>>]
      /\ queued' = [c \in Clients |-> 0] /\ pending' = [r \in Requests |-> NoClient]
      /\ UNCHANGED <<owed, turn>>
    BY DEF Shutdown
<1>3. Connected' = {}
    BY <1>2 DEF Connected
<1>4. OutgoingOK'
  <2>1. ASSUME NEW c \in Clients PROVE Counted(c)'
    <3> DEFINE end == [i \in 0 .. 0 |-> 0]
    <3>1. output'[c] = <<>> /\ queued'[c] = 0
        BY <1>2
    <3>2. end \in [0 .. Len(output'[c]) -> 0 .. MaxQueued] /\ Counts(end, c)'
        BY <3>1, ControlAssumption DEF ControlAssumption, Counts
    <3>3. \A i, j \in 0 .. Len(output'[c]) : i < j => end[i] < end[j]
        BY <3>1
    <3> QED BY <3>2, <3>3 DEF Counted
  <2>2. <<>> \in Seq(1 .. MaxFrame)
      OBVIOUS
  <2> QED BY <1>2, <2>1, <2>2 DEF OutgoingOK
<1>5. TypeOK'
  <2>1. socket' \in [Clients -> 0 .. SocketBound] /\ ended' \in [Clients -> BOOLEAN] /\ partial' \in [Clients -> BOOLEAN]
      BY ControlAssumption DEF Shutdown, ControlAssumption
  <2>2. pending' \in [Requests -> Clients \cup {NoClient}] /\ listening' \in BOOLEAN
      BY <1>2 DEF Shutdown
  <2>3. /\ status' \in [Clients -> {"none", "open", "closing", "gone"}]
        /\ input' \in [Clients -> Nat] /\ watched' \in [Clients -> SUBSET {"in", "out"}]
      BY <1>2
  <2> QED BY <1>1, <1>2, <1>4, <2>1, <2>2, <2>3 DEF TypeOK, OutgoingOK
<1>6. RequesterIsKnown'
    BY <1>2, <1>3 DEF RequesterIsKnown
<1>7. FreshOK'
    BY <1>2 DEF FreshOK
<1>8. TurnOK'
    BY <1>1, <1>2 DEF TurnOK, NoTurn
<1>9. WaitsOK'
    BY <1>3 DEF WaitsOK
<1> QED BY <1>4, <1>5, <1>6, <1>7, <1>8, <1>9 DEF IInv

\* The peers act on their side of the connection only.
LEMMA PeerKeeps ==
    ASSUME IInv, PeerStep
    PROVE  IInv'
<1>1. TypeOK
    BY DEF IInv
<1>2. /\ UNCHANGED <<status, watched, input, partial, output, queued, owed, pending, turn, listening>>
      /\ socket' \in [Clients -> 0 .. SocketBound] /\ ended' \in [Clients -> BOOLEAN]
  <2>1. PICK c \in Clients : PeerSends(c) \/ PeerEnds(c)
      BY DEF PeerStep
  <2>2. CASE PeerSends(c)
    <3>1. socket' = [socket EXCEPT ![c] = @ + 1] /\ socket[c] < SocketBound /\ ended' = ended
        BY <2>2 DEF PeerSends, connection
    <3>2. socket[c] + 1 \in 0 .. SocketBound
        BY <3>1, <1>1, ControlAssumption DEF TypeOK, ControlAssumption
    <3>3. socket' \in [Clients -> 0 .. SocketBound] /\ ended' \in [Clients -> BOOLEAN]
        BY <3>1, <3>2, <1>1 DEF TypeOK
    <3> QED BY <3>3, <2>2 DEF PeerSends, connection, outgoing, results
  <2>3. CASE PeerEnds(c)
    <3>1. socket' \in [Clients -> 0 .. SocketBound] /\ ended' \in [Clients -> BOOLEAN]
        BY <2>3, <1>1 DEF PeerEnds, incoming, TypeOK
    <3> QED BY <3>1, <2>3 DEF PeerEnds, incoming, outgoing, results
  <2> QED BY <2>1, <2>2, <2>3
<1>3. UNCHANGED <<status, outgoing, results>> /\ Connected' = Connected
    BY <1>2 DEF outgoing, results, Connected
<1>4. TypeOK'
    BY <1>1, <1>2 DEF TypeOK
<1>5. TurnOK'
    BY <1>2, <1>3 DEF IInv, TurnOK
<1>6. WaitsOK'
    BY <1>2, <1>3 DEF IInv, WaitsOK, Waits
<1> QED BY <1>2, <1>3, <1>4, <1>5, <1>6, StillKeeps

\* handleClientEvent ends.
LEMMA FinishKeeps ==
    ASSUME IInv, NEW c \in Clients, Finish(c)
    PROVE  IInv'
<1>1. turn.client = c /\ turn.stage = "finish"
    BY DEF Finish
<1>2. CASE RemoveClient(c)
    BY <1>1, <1>2, RemoveKeeps
<1>3. CASE turn' = NoTurn /\ UNCHANGED <<status, ended, incoming, outgoing, results, listening>> /\ Watch(c)
  <2>1. /\ UNCHANGED <<status, ended, socket, input, partial, output, queued, owed, pending, listening>>
        /\ turn' = NoTurn /\ Watch(c)
      BY <1>3 DEF incoming, outgoing, results
  <2>2. UNCHANGED <<status, outgoing, results>> /\ Connected' = Connected
      BY <2>1 DEF outgoing, results, Connected
  <2>3. TypeOK /\ WaitsOK /\ LocalOK
      BY DEF IInv, TypeOK, LocalOK
  <2>4. /\ c \in Connected /\ input[c] = 0 /\ NoTurn \in Turn
        /\ status[c] = "closing" => output[c] # <<>>
      BY <1>1, TurnFacts, TurnTypes
  <2>5. /\ watched' \in [Clients -> SUBSET {"in", "out"}]
        /\ \A d \in Clients : d # c => watched'[d] = watched[d]
        /\ "out" \in watched'[c] <=> output'[c] # <<>>
        /\ status'[c] = "open" => "in" \in watched'[c]
        /\ status'[c] = "closing" /\ output'[c] # <<>> => watched'[c] = {"out"}
      BY <2>1, <2>3, WatchStep
  <2>6. TypeOK'
      BY <2>1, <2>3, <2>4, <2>5 DEF TypeOK
  <2>7. TurnOK'
      BY <2>1 DEF TurnOK, NoTurn
  <2>8. WaitsOK'
    <3>1. Waits(c)'
        BY <2>1, <2>4, <2>5 DEF Waits
    <3>2. ASSUME NEW d \in Connected, d # c
          PROVE  Waits(d)' /\ (status'[d] = "closing" => input'[d] = 0 /\ output'[d] # <<>>)
      <4>1. d \in Clients /\ watched'[d] = watched[d]
          BY <3>2, <2>5 DEF Connected
      <4>2. Waits(d) /\ (status[d] = "closing" => input[d] = 0 /\ output[d] # <<>>)
          BY <3>2, <1>1, <2>3 DEF WaitsOK
      <4>3. status'[d] = status[d] /\ input'[d] = input[d] /\ output'[d] = output[d]
          BY <2>1
      <4> QED BY <4>1, <4>2, <4>3 DEF Waits
    <3>3. status'[c] = "closing" => input'[c] = 0 /\ output'[c] # <<>>
        BY <2>1, <2>4
    <3>4. \A d \in Connected' : Waits(d)' /\ (status'[d] = "closing" => input'[d] = 0 /\ output'[d] # <<>>)
        BY <3>1, <3>2, <3>3, <2>2
    <3> QED BY <3>4 DEF WaitsOK, Waits
  <2> QED BY <2>1, <2>2, <2>6, <2>7, <2>8, StillKeeps
<1> QED BY <1>2, <1>3 DEF Finish

\* A client is sent a terminal error in its own turn.
LEMMA TerminalKeeps ==
    ASSUME IInv, NEW c \in Clients, turn.client = c, Terminal(c), turn' = AfterRead,
           socket' \in [Clients -> 0 .. SocketBound], ended' = ended, watched' = watched,
           UNCHANGED <<results, listening>>
    PROVE  IInv'
<1>1. TypeOK /\ OutgoingOK /\ RequesterIsKnown /\ FreshOK /\ WaitsOK /\ LocalOK
    BY DEF IInv, TypeOK, LocalOK
<1>2. c \in Connected /\ turn \in Turn
    BY TurnFacts
<1>3. turn' \in Turn /\ turn'.client = c /\ turn'.stage \in {"write", "finish"}
    BY <1>2, TurnTypes
<1>4. /\ OutgoingOK' /\ output'[c] # <<>>
      /\ \A d \in Clients : d # c => output'[d] = output[d]
      /\ status' = [status EXCEPT ![c] = "closing"] /\ input' = [input EXCEPT ![c] = 0]
      /\ partial' = [partial EXCEPT ![c] = FALSE]
    BY <1>1, TerminalStep
<1>5. /\ LocalOK' /\ status'[c] = "closing" /\ input'[c] = 0
      /\ \A d \in Clients : d # c => status'[d] = status[d] /\ input'[d] = input[d]
    BY <1>1, <1>4 DEF LocalOK
<1>6. Connected' = Connected
    BY <1>2, <1>5 DEF Connected
<1>7. UNCHANGED <<owed, pending>>
    BY DEF results
<1>8. TypeOK'
    BY <1>1, <1>3, <1>4, <1>5, <1>7 DEF TypeOK, OutgoingOK, LocalOK
<1>9. RequesterIsKnown'
    BY <1>1, <1>6, <1>7 DEF RequesterIsKnown
<1>10. FreshOK'
    BY <1>1, <1>4, <1>5, <1>7 DEF FreshOK
<1>11. TurnOK'
    BY <1>2, <1>3, <1>6 DEF TurnOK
<1>12. WaitsOK'
  <2>1. ASSUME NEW d \in Connected, d # c
        PROVE  Waits(d)' /\ (status'[d] = "closing" => input'[d] = 0 /\ output'[d] # <<>>)
    <3>1. /\ Waits(d) /\ d \in Clients
          /\ status[d] = "closing" => input[d] = 0 /\ output[d] # <<>>
        BY <2>1, <1>1 DEF WaitsOK, Connected
    <3> QED BY <3>1, <2>1, <1>4, <1>5 DEF Waits
  <2> QED BY <2>1, <1>3, <1>4, <1>5, <1>6 DEF WaitsOK, Waits
<1> QED BY <1>4, <1>8, <1>9, <1>10, <1>11, <1>12 DEF IInv

\* A client's request is answered, and the next one is looked at.
LEMMA ResponseKeeps ==
    ASSUME IInv, NEW c \in Clients, turn.client = c, NEW size \in 1 .. MaxFrame + 1, Fits(c, size), Queue(c, size),
           status[c] = "open", input[c] > 0, turn.processed < MaxRequests,
           input' = [input EXCEPT ![c] = @ - 1],
           turn' = [turn EXCEPT !.stage = "frames", !.processed = @ + 1],
           UNCHANGED <<status, partial, ended, socket, watched, listening>>,
           owed' \in [Requests -> Clients \cup {NoClient}], pending' \in [Requests -> Clients \cup {NoClient}],
           \A r \in Requests : \/ owed'[r] = owed[r] /\ pending'[r] = pending[r]
                               \/ owed'[r] = c /\ pending'[r] = c
    PROVE  IInv'
<1>1. TypeOK /\ OutgoingOK /\ RequesterIsKnown /\ FreshOK /\ WaitsOK
    BY DEF IInv
<1>2. c \in Connected /\ turn \in Turn /\ Connected' = Connected /\ NoClient \notin Clients
    BY TurnFacts, ControlAssumption DEF Connected, ControlAssumption
<1>3. turn' \in Turn /\ turn'.client = c /\ turn'.stage = "frames"
  <2>1. "frames" \in Stage /\ turn.processed + 1 \in 0 .. MaxRequests
      BY <1>2, ControlAssumption DEF Stage, Turn, ControlAssumption
  <2> QED BY <1>2, <2>1 DEF Turn
<1>4. size \in 1 .. MaxFrame
    BY ControlAssumption DEF Fits, ControlAssumption
<1>5. /\ OutgoingOK' /\ output'[c] # <<>>
      /\ \A d \in Clients : d # c => output'[d] = output[d]
    BY <1>1, <1>4, QueueStep
<1>6. /\ input' \in [Clients -> Nat]
      /\ \A d \in Clients : d # c => input'[d] = input[d]
    BY <1>1 DEF TypeOK
<1>7. TypeOK'
    BY <1>1, <1>3, <1>5, <1>6 DEF TypeOK, OutgoingOK
<1>8. RequesterIsKnown'
    BY <1>1, <1>2 DEF RequesterIsKnown
<1>9. FreshOK'
  <2>1. ASSUME NEW d \in Clients, status'[d] = "none"
        PROVE  input'[d] = 0 /\ output'[d] = <<>> /\ \A r \in Requests : owed'[r] # d
    <3>1. d # c /\ status[d] = "none"
        BY <2>1
    <3> QED BY <3>1, <1>1, <1>5, <1>6 DEF FreshOK
  <2> QED BY <2>1 DEF FreshOK
<1>10. TurnOK'
    BY <1>2, <1>3 DEF TurnOK
<1>11. WaitsOK'
  <2>1. ASSUME NEW d \in Connected, d # c
        PROVE  Waits(d)' /\ (status'[d] = "closing" => input'[d] = 0 /\ output'[d] # <<>>)
    <3>1. /\ Waits(d) /\ d \in Clients
          /\ status[d] = "closing" => input[d] = 0 /\ output[d] # <<>>
        BY <2>1, <1>1 DEF WaitsOK, Connected
    <3> QED BY <3>1, <2>1, <1>5, <1>6 DEF Waits
  <2> QED BY <2>1, <1>2, <1>3 DEF WaitsOK
<1> QED BY <1>5, <1>7, <1>8, <1>9, <1>10, <1>11 DEF IInv

\* processFrames: the ways to end it with an error.
LEMMA TerminalTurnKeeps ==
    ASSUME IInv, NEW c \in Clients, turn.client = c, TerminalTurn(c)
    PROVE  IInv'
<1>1. socket' \in [Clients -> 0 .. SocketBound]
    BY DEF TerminalTurn, IInv, TypeOK
<1> QED BY <1>1, TerminalKeeps DEF TerminalTurn

\* The response to a request that is carried out has room.
LEMMA RoomForResponse ==
    ASSUME IInv, NEW c \in Clients, Executes(c), NEW size \in 1 .. MaxFrame
    PROVE  Fits(c, size)
<1>1. queued[c] \in Int /\ queued[c] =< MaxQueued - MaxFrame
    BY DEF Executes, IInv, TypeOK
<1> QED BY <1>1, ControlAssumption DEF Fits, ControlAssumption

LEMMA AnswerKeeps ==
    ASSUME IInv, NEW c \in Clients, NEW size \in 1 .. MaxFrame + 1, Answer(c, size)
    PROVE  IInv'
<1>1. /\ turn.client = c /\ turn.stage = "frames" /\ turn.processed < MaxRequests /\ input[c] > 0
      /\ Respond(c, size) /\ UNCHANGED <<ended, socket, watched, results, listening>>
    BY DEF Answer, Executes, HasFrame, InFrames
<1>2. TypeOK /\ status[c] = "open" /\ UNCHANGED <<owed, pending>>
    BY <1>1, TurnFacts DEF IInv, results
<1>3. CASE Fits(c, size)
    BY <1>1, <1>2, <1>3, ResponseKeeps DEF Respond, TypeOK
<1>4. CASE ~Fits(c, size)
    BY <1>1, <1>2, <1>4, TerminalKeeps DEF Respond, TypeOK
<1> QED BY <1>3, <1>4

LEMMA AcceptRequestKeeps ==
    ASSUME IInv, NEW c \in Clients, NEW r \in Requests, NEW size \in 1 .. MaxFrame, AcceptRequest(c, r, size)
    PROVE  IInv'
<1>1. /\ turn.client = c /\ turn.stage = "frames" /\ turn.processed < MaxRequests /\ input[c] > 0
      /\ Executes(c) /\ Respond(c, size) /\ UNCHANGED <<ended, socket, watched, listening>>
      /\ owed' = [owed EXCEPT ![r] = c]
    BY DEF AcceptRequest, Executes, HasFrame, InFrames
<1>2. Fits(c, size) /\ size \in 1 .. MaxFrame + 1
    BY <1>1, RoomForResponse, ControlAssumption DEF ControlAssumption
<1>3. TypeOK /\ status[c] = "open" /\ pending' = [pending EXCEPT ![r] = c]
    BY <1>1, <1>2, TurnFacts DEF IInv, AcceptRequest
<1>4. /\ owed' \in [Requests -> Clients \cup {NoClient}] /\ pending' \in [Requests -> Clients \cup {NoClient}]
      /\ \A q \in Requests : \/ owed'[q] = owed[q] /\ pending'[q] = pending[q]
                             \/ owed'[q] = c /\ pending'[q] = c
    BY <1>1, <1>3 DEF TypeOK
<1> QED BY <1>1, <1>2, <1>3, <1>4, ResponseKeeps DEF Respond

LEMMA AnswerChangeKeeps ==
    ASSUME IInv, NEW c \in Clients, NEW size \in 1 .. MaxFrame + 1, AnswerChange(c, size)
    PROVE  IInv'
<1>1. /\ turn.client = c /\ turn.stage = "cancel" /\ Respond(c, size)
      /\ UNCHANGED <<ended, socket, watched, results, listening>>
    BY DEF AnswerChange
<1>2. TypeOK /\ UNCHANGED <<owed, pending>> /\ c \in Connected /\ turn # NoTurn
    BY <1>1, TurnFacts DEF IInv, results, Idle
<1>3. /\ turn.processed < MaxRequests
      /\ \/ status[c] = "open" /\ input[c] > 0
         \/ status[c] = "closing" /\ queued[c] >= MaxQueued
    BY <1>1, <1>2 DEF IInv, TurnOK
<1>4. CASE Fits(c, size)
  <2>1. queued[c] < MaxQueued
    <3>1. queued[c] \in 0 .. MaxQueued
        BY QueueBounds DEF IInv
    <3> QED BY <3>1, <1>4, ControlAssumption DEF Fits, ControlAssumption
  <2>2. status[c] = "open" /\ input[c] > 0
    <3>1. queued[c] \in Int /\ MaxQueued \in Int
        BY <1>2, ControlAssumption DEF TypeOK, ControlAssumption
    <3> QED BY <3>1, <2>1, <1>3
  <2> QED BY <2>2, <1>1, <1>2, <1>3, <1>4, ResponseKeeps DEF Respond, TypeOK
<1>5. CASE ~Fits(c, size)
    BY <1>1, <1>2, <1>5, TerminalKeeps DEF Respond, TypeOK
<1> QED BY <1>4, <1>5

\* readClient receives something.
LEMMA ReceiveKeeps ==
    ASSUME IInv, NEW c \in Clients, NEW n \in 0 .. socket[c], NEW more \in BOOLEAN, NEW last \in BOOLEAN,
           Receive(c, n, more, last)
    PROVE  IInv'
<1>1. /\ turn.client = c /\ turn.stage = "read" /\ socket' = [socket EXCEPT ![c] = @ - n]
      /\ UNCHANGED <<ended, watched, results, listening>>
    BY DEF Receive
<1>2. TypeOK /\ WaitsOK /\ c \in Connected /\ turn \in Turn /\ status[c] = "open"
    BY <1>1, TurnFacts DEF IInv
<1>3. socket' \in [Clients -> 0 .. SocketBound] /\ n \in Nat
  <2>1. socket[c] \in 0 .. SocketBound /\ SocketBound \in Nat
      BY <1>2, ControlAssumption DEF TypeOK, ControlAssumption
  <2>2. socket[c] - n \in 0 .. SocketBound /\ n \in Nat
      BY <2>1
  <2> QED BY <2>2, <1>1, <1>2 DEF TypeOK
<1>4. CASE Terminal(c) /\ turn' = AfterRead
    BY <1>1, <1>3, <1>4, TerminalKeeps
<1>5. CASE /\ input' = [input EXCEPT ![c] = @ + n] /\ partial' = [partial EXCEPT ![c] = more]
           /\ turn' = [turn EXCEPT !.stage = "frames", !.last = last]
           /\ UNCHANGED <<status, outgoing>>
  <2>1. turn' \in Turn /\ turn'.client = c /\ turn'.stage = "frames"
    <3>1. "frames" \in Stage
        BY DEF Stage
    <3> QED BY <3>1, <1>1, <1>2, <1>5 DEF Turn
  <2>2. UNCHANGED <<status, outgoing, results>> /\ Connected' = Connected
      BY <1>1, <1>5 DEF Connected
  <2>3. UNCHANGED <<status, ended, watched, output, queued, owed, pending, listening>>
      BY <1>1, <1>5 DEF outgoing, results
  <2>4. /\ input' \in [Clients -> Nat] /\ partial' \in [Clients -> BOOLEAN]
        /\ \A d \in Clients : d # c => input'[d] = input[d]
      BY <1>2, <1>3, <1>5 DEF TypeOK
  <2>5. TypeOK'
      BY <2>1, <2>3, <2>4, <1>2, <1>3 DEF TypeOK
  <2>6. TurnOK'
      BY <2>1, <2>2, <2>3, <1>2 DEF TurnOK
  <2>7. WaitsOK'
    <3>1. ASSUME NEW d \in Connected, d # c
          PROVE  Waits(d)' /\ (status'[d] = "closing" => input'[d] = 0 /\ output'[d] # <<>>)
      <4>1. /\ Waits(d) /\ d \in Clients
            /\ status[d] = "closing" => input[d] = 0 /\ output[d] # <<>>
          BY <3>1, <1>1, <1>2 DEF WaitsOK, Connected
      <4>2. /\ status'[d] = status[d] /\ watched'[d] = watched[d] /\ input'[d] = input[d]
            /\ output'[d] = output[d]
          BY <4>1, <3>1, <2>3, <2>4
      <4> QED BY <4>1, <4>2 DEF Waits
    <3> QED BY <3>1, <2>1, <2>2, <1>2 DEF WaitsOK
  <2>8. \A d \in Clients : status[d] = "none" => input'[d] = input[d]
      BY <2>4, <1>2
  <2> QED BY <2>2, <2>5, <2>6, <2>7, <2>8, StillKeeps
<1> QED BY <1>4, <1>5 DEF Receive

\* flushClient sends something.
LEMMA WriteKeeps ==
    ASSUME IInv, NEW c \in Clients, Sending(c)
    PROVE  IInv'
<1>1. PICK n \in 1 .. MaxFrame : Writing(c) /\ n =< Head(output[c]) /\ Write(c, n)
    BY DEF Sending
<1>2. /\ turn.client = c /\ turn.stage = "write" /\ output[c] # <<>>
      /\ UNCHANGED <<status, ended, watched, socket, input, partial, owed, pending, turn, listening>>
    BY <1>1 DEF Writing, Write, connection, incoming, results
<1>3. TypeOK /\ OutgoingOK /\ RequesterIsKnown /\ FreshOK /\ TurnOK /\ WaitsOK /\ c \in Connected
    BY <1>2, TurnFacts DEF IInv
<1>4. /\ OutgoingOK'
      /\ \A d \in Clients : d # c => output'[d] = output[d]
    BY <1>1, <1>2, <1>3, WriteStep DEF Write
<1>5. Connected' = Connected
    BY <1>2 DEF Connected
<1>6. TypeOK'
    BY <1>2, <1>3, <1>4 DEF TypeOK, OutgoingOK
<1>7. RequesterIsKnown'
    BY <1>2, <1>3, <1>5 DEF RequesterIsKnown
<1>8. FreshOK'
    BY <1>2, <1>3, <1>4 DEF FreshOK, Connected
<1>9. TurnOK'
    BY <1>2, <1>3, <1>5 DEF TurnOK
<1>10. WaitsOK'
  <2>1. ASSUME NEW d \in Connected, d # c
        PROVE  Waits(d)' /\ (status'[d] = "closing" => input'[d] = 0 /\ output'[d] # <<>>)
    <3>1. /\ Waits(d) /\ d \in Clients
          /\ status[d] = "closing" => input[d] = 0 /\ output[d] # <<>>
        BY <2>1, <1>2, <1>3 DEF WaitsOK, Connected
    <3>2. /\ status'[d] = status[d] /\ watched'[d] = watched[d] /\ input'[d] = input[d]
          /\ output'[d] = output[d]
        BY <3>1, <2>1, <1>2, <1>4
    <3> QED BY <3>1, <3>2 DEF Waits
  <2>2. input'[c] = 0 /\ turn'.client = c /\ turn'.stage = "write"
      BY <1>2, <1>3 DEF WaitsOK
  <2> QED BY <2>1, <2>2, <1>2, <1>3, <1>5 DEF WaitsOK, Waits
<1> QED BY <1>4, <1>6, <1>7, <1>8, <1>9, <1>10 DEF IInv

LEMMA CancelKeeps ==
    ASSUME IInv, NEW r \in Requests, Cancel(r)
    PROVE  IInv'
<1>1. /\ turn.stage = "cancel" /\ Deliver(r, TRUE, 1) /\ listening' = listening
      /\ turn' = [turn EXCEPT !.victims = @ \ {r}]
    BY DEF Cancel
<1>2. turn \in Turn /\ turn # NoTurn
    BY <1>1 DEF IInv, TypeOK, NoTurn
<1>3. /\ turn' \in Turn /\ turn'.client = turn.client /\ turn'.stage = turn.stage
      /\ turn'.processed = turn.processed
    BY <1>1, <1>2 DEF Turn
<1>4. 1 \in 1 .. MaxFrame
    BY ControlAssumption DEF ControlAssumption
<1> QED BY <1>1, <1>2, <1>3, <1>4, DeliverKeeps

LEMMA ResultKeeps ==
    ASSUME IInv, NEW r \in Requests, NEW failed \in BOOLEAN, NEW size \in 1 .. MaxFrame, Result(r, failed, size)
    PROVE  IInv'
<1>1. turn = NoTurn /\ Deliver(r, failed, size) /\ turn' = turn /\ listening' = listening
    BY DEF Result, Idle
<1>2. turn' \in Turn /\ turn.stage = "idle"
    BY <1>1 DEF IInv, TypeOK, NoTurn
<1> QED BY <1>1, <1>2, DeliverKeeps

LEMMA InitHolds == Init => IInv
<1> SUFFICES ASSUME Init PROVE IInv
    OBVIOUS
<1> USE DEF Init
<1>1. TypeOK
  <2>1. turn \in Turn
      BY ControlAssumption DEF NoTurn, Turn, Stage, ControlAssumption
  <2>2. <<>> \in Seq(1 .. MaxFrame) /\ 0 \in 0 .. SocketBound
      BY ControlAssumption DEF ControlAssumption
  <2> QED BY <2>1, <2>2 DEF TypeOK
<1>2. OutgoingOK
  <2>1. ASSUME NEW c \in Clients PROVE Counted(c)
    <3> DEFINE end == [i \in 0 .. 0 |-> 0]
    <3>1. output[c] = <<>> /\ queued[c] = 0
        OBVIOUS
    <3>2. end \in [0 .. Len(output[c]) -> 0 .. MaxQueued] /\ Counts(end, c)
        BY <3>1, ControlAssumption DEF ControlAssumption, Counts
    <3>3. \A i, j \in 0 .. Len(output[c]) : i < j => end[i] < end[j]
        BY <3>1
    <3> QED BY <3>2, <3>3 DEF Counted
  <2> QED BY <1>1, <2>1 DEF OutgoingOK, TypeOK
<1>3. Connected = {}
    BY DEF Connected
<1>4. NoClient \notin Clients
    BY ControlAssumption DEF ControlAssumption
<1>5. RequesterIsKnown /\ FreshOK
    BY <1>3, <1>4 DEF RequesterIsKnown, FreshOK
<1>6. TurnOK /\ WaitsOK
    BY <1>3 DEF TurnOK, WaitsOK, NoTurn
<1> QED BY <1>1, <1>2, <1>5, <1>6 DEF IInv

\* Every step of the handlers, one action at a time.
LEMMA TurnStepKeeps ==
    ASSUME IInv, TurnStep
    PROVE  IInv'
<1>1. ASSUME NEW c \in Clients, Reading(c)
      PROVE  IInv'
  <2>1. ASSUME TooLarge(c) \/ Overloaded(c) \/ Overrun(c) PROVE IInv'
      BY <2>1, TerminalTurnKeeps DEF TooLarge, Overloaded, Overrun, HasFrame, InFrames
  <2>2. ASSUME FramesDone(c) PROVE IInv'
      BY <2>2, FramesDoneKeeps
  <2>3. ASSUME NothingMore(c) PROVE IInv'
      BY <2>3, NothingMoreKeeps
  <2>4. ASSUME EndOfFile(c) PROVE IInv'
      BY <2>4, RemoveKeeps DEF EndOfFile, Drained
  <2>5. ASSUME NEW size \in 1 .. MaxFrame + 1, Answer(c, size) PROVE IInv'
      BY <2>5, AnswerKeeps
  <2>6. ASSUME NEW size \in 1 .. MaxFrame + 1, AnswerChange(c, size) PROVE IInv'
      BY <2>6, AnswerChangeKeeps
  <2>7. ASSUME NEW r \in Requests, NEW size \in 1 .. MaxFrame, AcceptRequest(c, r, size) PROVE IInv'
      BY <2>7, AcceptRequestKeeps
  <2>8. ASSUME NEW victims \in SUBSET {r \in Requests : owed[r] # NoClient}, Change(c, victims) PROVE IInv'
    <3>1. victims \in SUBSET Requests
        BY <2>8
    <3> QED BY <3>1, <2>8, ChangeKeeps
  <2>9. ASSUME NEW n \in 0 .. socket[c], NEW more \in BOOLEAN, NEW last \in BOOLEAN, Receive(c, n, more, last)
        PROVE  IInv'
      BY <2>9, ReceiveKeeps
  <2> QED BY <1>1, <2>1, <2>2, <2>3, <2>4, <2>5, <2>6, <2>7, <2>8, <2>9 DEF Reading
<1>2. ASSUME NEW c \in Clients, Sending(c) PROVE IInv'
    BY <1>2, WriteKeeps
<1>3. ASSUME NEW c \in Clients, Blocked(c) PROVE IInv'
    BY <1>3, FlushEndKeeps DEF Blocked, Writing
<1>4. ASSUME NEW c \in Clients, WriteFails(c) PROVE IInv'
    BY <1>4, RemoveKeeps DEF WriteFails, Writing
<1>5. ASSUME NEW c \in Clients, Flushed(c) PROVE IInv'
  <2>1. CASE status[c] = "closing"
      BY <1>5, <2>1, RemoveKeeps DEF Flushed
  <2>2. CASE status[c] # "closing"
      BY <1>5, <2>2, FlushEndKeeps DEF Flushed
  <2> QED BY <2>1, <2>2
<1>6. ASSUME NEW c \in Clients, Finish(c) PROVE IInv'
    BY <1>6, FinishKeeps
<1>7. ASSUME NEW r \in Requests, Cancel(r) PROVE IInv'
    BY <1>7, CancelKeeps
<1> QED BY <1>1, <1>2, <1>3, <1>4, <1>5, <1>6, <1>7 DEF TurnStep

LEMMA StepKeeps == IInv /\ [Next]_vars => IInv'
<1> SUFFICES ASSUME IInv, [Next]_vars PROVE IInv'
    OBVIOUS
<1>1. ASSUME TurnStep PROVE IInv'
    BY <1>1, TurnStepKeeps
<1>2. ASSUME PeerStep PROVE IInv'
    BY <1>2, PeerKeeps
<1>3. ASSUME Shutdown PROVE IInv'
    BY <1>3, ShutdownKeeps
<1>4. ASSUME NEW c \in Clients, Accept(c) PROVE IInv'
    BY <1>4, AcceptKeeps
<1>5. ASSUME NEW c \in Clients, DispatchError(c) PROVE IInv'
    BY <1>5, RemoveKeeps DEF DispatchError, Idle
<1>6. ASSUME NEW c \in Clients, NEW read \in BOOLEAN, NEW write \in BOOLEAN, NEW hangup \in BOOLEAN,
             Dispatch(c, read, write, hangup)
      PROVE  IInv'
    BY <1>6, DispatchKeeps
<1>7. ASSUME NEW r \in Requests, NEW failed \in BOOLEAN, NEW size \in 1 .. MaxFrame, Result(r, failed, size) PROVE IInv'
    BY <1>7, ResultKeeps
<1>8. ASSUME UNCHANGED vars PROVE IInv'
  <2>1. UNCHANGED <<status, ended, watched, socket, input, partial, outgoing, results, turn, listening>>
      BY <1>8 DEF vars, connection, incoming
  <2>2. UNCHANGED <<output, queued, owed, pending>> /\ Connected' = Connected
      BY <2>1 DEF outgoing, results, Connected
  <2>3. TypeOK'
      BY <2>1, <2>2 DEF IInv, TypeOK
  <2>4. TurnOK'
      BY <2>1, <2>2 DEF IInv, TurnOK
  <2>5. WaitsOK'
      BY <2>1, <2>2 DEF IInv, WaitsOK, Waits
  <2> QED BY <2>1, <2>3, <2>4, <2>5, StillKeeps
<1> QED BY <1>1, <1>2, <1>3, <1>4, <1>5, <1>6, <1>7, <1>8 DEF Next

-----------------------------------------------------------------------------
(* A connection that closes. *)

\* What ClosingIsFinal says of a step and a connection that closes.
Final(c) ==
    /\ status'[c] \in {"closing", "gone"}
    /\ input'[c] = 0
    /\ \A r \in Requests : owed'[r] = c => owed[r] = c
    /\ ToSend(c)' =< ToSend(c)

\* What is pending for a client is finite, and gets less with its set.
LEMMA PendingCounts ==
    ASSUME NEW S, NEW T, T \subseteq S, S \subseteq Requests
    PROVE  Cardinality(S) \in Nat /\ Cardinality(T) \in Nat /\ Cardinality(T) =< Cardinality(S)
<1>1. IsFiniteSet(S)
    BY FS_Subset, ControlAssumption DEF ControlAssumption
<1>2. IsFiniteSet(T)
    BY <1>1, FS_Subset
<1> QED BY <1>1, <1>2, FS_Subset, FS_CardinalityType

\* The step is about something else, or makes what is to be sent less.
LEMMA NoMoreToSend ==
    ASSUME IInv, IInv', NEW c \in Clients,
           \/ status'[c] = "closing"
           \/ status'[c] = "gone" /\ input'[c] = 0,
           Len(output'[c]) =< Len(output[c]),
           \A r \in Requests : pending'[r] = c => pending[r] = c,
           \A r \in Requests : owed'[r] = c => owed[r] = c
    PROVE  Final(c)
<1> DEFINE S == {r \in Requests : pending[r] = c}
<1> DEFINE T == {r \in Requests : pending'[r] = c}
<1>1. Cardinality(S) \in Nat /\ Cardinality(T) \in Nat /\ Cardinality(T) =< Cardinality(S)
  <2>1. T \subseteq S /\ S \subseteq Requests
      OBVIOUS
  <2> HIDE DEF S, T
  <2> QED BY <2>1, PendingCounts
<1>2. Len(output[c]) \in Nat /\ Len(output'[c]) \in Nat
    BY DEF IInv, OutgoingOK
<1>3. ToSend(c) = Len(output[c]) + Cardinality(S) /\ ToSend(c)' = Len(output'[c]) + Cardinality(T)
    BY DEF ToSend
<1>4. ToSend(c)' =< ToSend(c)
    BY <1>1, <1>2, <1>3
<1>5. input'[c] = 0
    BY DEF IInv, WaitsOK, Connected
<1> QED BY <1>4, <1>5 DEF Final

\* An event takes the place of the request it answers.
LEMMA EventForRequest ==
    ASSUME IInv, IInv', NEW c \in Clients, NEW r \in Requests, pending[r] = c,
           pending' = [pending EXCEPT ![r] = NoClient], owed' = [owed EXCEPT ![r] = NoClient],
           status'[c] = "closing", Len(output'[c]) =< Len(output[c]) + 1
    PROVE  Final(c)
<1> DEFINE S == {q \in Requests : pending[q] = c}
<1> DEFINE T == {q \in Requests : pending'[q] = c}
<1>1. T = S \ {r} /\ r \in S /\ S \subseteq Requests
    BY ControlAssumption DEF IInv, TypeOK, ControlAssumption
<1>2. Cardinality(S) \in Nat /\ Cardinality(T) = Cardinality(S) - 1
  <2> HIDE DEF S, T
  <2>1. IsFiniteSet(S)
      BY <1>1, FS_Subset, ControlAssumption DEF ControlAssumption
  <2> QED BY <1>1, <2>1, FS_RemoveElement, FS_CardinalityType
<1>3. Len(output[c]) \in Nat /\ Len(output'[c]) \in Nat
    BY DEF IInv, OutgoingOK
<1>4. ToSend(c) = Len(output[c]) + Cardinality(S) /\ ToSend(c)' = Len(output'[c]) + Cardinality(T)
    BY DEF ToSend
<1>5. ToSend(c)' =< ToSend(c)
    BY <1>2, <1>3, <1>4
<1>6. input'[c] = 0
    BY DEF IInv, WaitsOK, Connected
<1>7. \A q \in Requests : owed'[q] = c => owed[q] = c
    BY ControlAssumption DEF IInv, TypeOK, ControlAssumption
<1> QED BY <1>5, <1>6, <1>7 DEF Final

LEMMA DeliverFinal ==
    ASSUME IInv, IInv', NEW c \in Clients, status[c] = "closing",
           NEW r \in Requests, NEW failed \in BOOLEAN, NEW size \in 1 .. MaxFrame,
           Deliver(r, failed, size)
    PROVE  Final(c)
<1>1. /\ owed' = [owed EXCEPT ![r] = NoClient] /\ pending' = [pending EXCEPT ![r] = NoClient]
      /\ TypeOK /\ OutgoingOK /\ NoClient \notin Clients
    BY ControlAssumption DEF Deliver, IInv, ControlAssumption
<1>2. /\ \A q \in Requests : owed'[q] = c => owed[q] = c
      /\ \A q \in Requests : pending'[q] = c => pending[q] = c
    BY <1>1 DEF TypeOK
<1>3. Len(output[c]) \in Nat
    BY <1>1 DEF OutgoingOK
<1>4. CASE pending[r] = NoClient
  <2>1. status' = status /\ output' = output
      BY <1>4 DEF Deliver, outgoing
  <2> QED BY <2>1, <1>2, <1>3, NoMoreToSend
<1>5. ASSUME NEW d \in Clients, pending[r] = d, d # c
      PROVE  Final(c)
  <2>1. status'[c] = status[c] /\ output'[c] = output[c]
      BY <1>1, <1>5, DeliverStep
  <2> QED BY <2>1, <1>2, <1>3, NoMoreToSend
<1>6. CASE pending[r] = c
  <2>1. Len(output'[c]) =< Len(output[c]) + 1 /\ status'[c] = "closing"
      BY <1>1, <1>6, DeliverStep
  <2> QED BY <2>1, <1>1, <1>6, EventForRequest
<1> QED BY <1>1, <1>4, <1>5, <1>6 DEF TypeOK

LEMMA RemoveFinal ==
    ASSUME IInv, IInv', NEW c \in Clients, status[c] = "closing", NEW d \in Clients, RemoveClient(d)
    PROVE  Final(c)
<1>1. /\ status' = [status EXCEPT ![d] = "gone"] /\ input' = [input EXCEPT ![d] = 0]
      /\ output' = [output EXCEPT ![d] = <<>>] /\ owed' = owed
      /\ pending' = [r \in Requests |-> IF pending[r] = d THEN NoClient ELSE pending[r]]
      /\ TypeOK /\ Len(output[c]) \in Nat /\ NoClient \notin Clients
    BY ControlAssumption DEF RemoveClient, Forgotten, IInv, OutgoingOK, ControlAssumption
<1>2. \A r \in Requests : pending'[r] = c => pending[r] = c
    BY <1>1
<1>3. CASE d = c
  <2>1. status'[c] = "gone" /\ input'[c] = 0 /\ output'[c] = <<>>
      BY <1>1, <1>3 DEF TypeOK
  <2>2. Len(output'[c]) =< Len(output[c])
      BY <2>1, <1>1
  <2> QED BY <2>1, <2>2, <1>1, <1>2, NoMoreToSend
<1>4. CASE d # c
  <2>1. status'[c] = "closing" /\ output'[c] = output[c]
      BY <1>1, <1>4 DEF TypeOK
  <2> QED BY <2>1, <1>1, <1>2, NoMoreToSend
<1> QED BY <1>3, <1>4

\* The turn of a client that is open, or whose queue is full, does not add to
\* the queue of one that closes.
LEMMA ResponseFinal ==
    ASSUME IInv, IInv', NEW c \in Clients, status[c] = "closing", NEW d \in Clients, turn.client = d,
           \/ status[d] = "open"
           \/ status[d] = "closing" /\ queued[d] >= MaxQueued,
           \/ Terminal(d)
           \/ \E size \in 1 .. MaxFrame : Fits(d, size) /\ Queue(d, size) /\ UNCHANGED status,
           \A r \in Requests : pending'[r] = c => pending[r] = c \/ (c = d /\ status[d] = "open"),
           \A r \in Requests : owed'[r] = c => owed[r] = c \/ (c = d /\ status[d] = "open")
    PROVE  Final(c)
<1>1. TypeOK /\ OutgoingOK /\ Len(output[c]) \in Nat /\ queued[d] \in Int
    BY DEF IInv, OutgoingOK
<1>2. CASE d = c
  <2>1. status[d] = "closing" /\ \A size \in 1 .. MaxFrame : ~Fits(d, size)
      BY <1>1, <1>2, ControlAssumption DEF Fits, ControlAssumption
  <2>2. Terminal(d) /\ ~Fits(d, 1)
      BY <2>1, ControlAssumption DEF ControlAssumption
  <2>3. status' = [status EXCEPT ![d] = "closing"] /\ output' = output
      BY <2>2, <1>1, TerminalStep DEF outgoing
  <2>4. status'[c] = "closing" /\ Len(output'[c]) =< Len(output[c])
      BY <2>3, <1>1, <1>2 DEF TypeOK
  <2> QED BY <2>1, <2>4, <1>2, NoMoreToSend
<1>3. CASE d # c
  <2>1. output'[c] = output[c] /\ status'[c] = "closing"
    <3>1. CASE Terminal(d)
      <4>1. output'[c] = output[c] /\ status' = [status EXCEPT ![d] = "closing"]
          BY <3>1, <1>1, <1>3, TerminalStep
      <4> QED BY <4>1, <1>1, <1>3 DEF TypeOK
    <3>2. ASSUME NEW size \in 1 .. MaxFrame, Fits(d, size), Queue(d, size), UNCHANGED status
          PROVE  output'[c] = output[c] /\ status'[c] = "closing"
        BY <3>2, <1>1, <1>3, QueueStep
    <3> QED BY <3>1, <3>2
  <2> QED BY <2>1, <1>1, <1>3, NoMoreToSend
<1> QED BY <1>2, <1>3

\* A step that leaves the output, the requests and who closes alone.
LEMMA StillFinal ==
    ASSUME IInv, IInv', NEW c \in Clients, status[c] = "closing",
           UNCHANGED <<status, output, results>>
    PROVE  Final(c)
<1>1. /\ status'[c] = "closing" /\ output' = output /\ owed' = owed /\ pending' = pending
      /\ Len(output[c]) \in Nat
    BY DEF results, IInv, OutgoingOK
<1> QED BY <1>1, NoMoreToSend

\* The handlers, for the connection whose turn it is and for the others.
LEMMA ReadingFinal ==
    ASSUME IInv, IInv', NEW c \in Clients, status[c] = "closing", NEW d \in Clients, Reading(d)
    PROVE  Final(c)
<1>1. ASSUME turn.client = d, turn.stage \in {"frames", "read"}
      PROVE  status[d] = "open" /\ d # c
    BY <1>1, TurnFacts
<1>2. ASSUME turn.client = d, turn.stage \in {"frames", "read"}, Terminal(d), UNCHANGED results
      PROVE  Final(c)
  <2>1. UNCHANGED <<owed, pending>>
      BY <1>2 DEF results
  <2> QED BY <2>1, <1>1, <1>2, ResponseFinal
<1>3. ASSUME TooLarge(d) \/ Overloaded(d) \/ Overrun(d) PROVE Final(c)
    BY <1>2, <1>3 DEF TooLarge, Overloaded, Overrun, HasFrame, InFrames, TerminalTurn
<1>4. ASSUME FramesDone(d) \/ NothingMore(d) PROVE Final(c)
  <2>1. UNCHANGED <<status, output, results>>
      BY <1>4 DEF FramesDone, NothingMore, connection, outgoing
  <2> QED BY <2>1, StillFinal
<1>5. ASSUME EndOfFile(d) PROVE Final(c)
    BY <1>5, RemoveFinal DEF EndOfFile
<1>6. ASSUME NEW size \in 1 .. MaxFrame + 1, Respond(d, size)
      PROVE  \/ Terminal(d)
             \/ \E n \in 1 .. MaxFrame : Fits(d, n) /\ Queue(d, n) /\ UNCHANGED status
  <2>1. CASE Fits(d, size)
    <3>1. size \in 1 .. MaxFrame
        BY <2>1, ControlAssumption DEF Fits, ControlAssumption
    <3> QED BY <3>1, <2>1, <1>6 DEF Respond
  <2>2. CASE ~Fits(d, size)
      BY <2>2, <1>6 DEF Respond
  <2> QED BY <2>1, <2>2
<1>7. ASSUME NEW size \in 1 .. MaxFrame + 1, Answer(d, size) PROVE Final(c)
  <2>1. /\ turn.client = d /\ turn.stage = "frames" /\ Respond(d, size)
        /\ UNCHANGED <<owed, pending>>
      BY <1>7 DEF Answer, Executes, HasFrame, InFrames, results
  <2> QED BY <2>1, <1>1, <1>6, ResponseFinal
<1>8. ASSUME NEW size \in 1 .. MaxFrame + 1, AnswerChange(d, size) PROVE Final(c)
  <2>1. /\ turn.client = d /\ turn.stage = "cancel" /\ Respond(d, size)
        /\ UNCHANGED <<owed, pending>>
      BY <1>8 DEF AnswerChange, results
  <2>2. \/ status[d] = "open"
        \/ status[d] = "closing" /\ queued[d] >= MaxQueued
      BY <2>1 DEF IInv, TurnOK
  <2>3. \/ Terminal(d)
        \/ \E n \in 1 .. MaxFrame : Fits(d, n) /\ Queue(d, n) /\ UNCHANGED status
      BY <2>1, <1>6
  <2>4. /\ \A r \in Requests : pending'[r] = c => pending[r] = c \/ (c = d /\ status[d] = "open")
        /\ \A r \in Requests : owed'[r] = c => owed[r] = c \/ (c = d /\ status[d] = "open")
      BY <2>1
  <2>5. turn.client = d
      BY <2>1
  <2> QED BY <2>2, <2>3, <2>4, <2>5, ResponseFinal
<1>9. ASSUME NEW r \in Requests, NEW size \in 1 .. MaxFrame, AcceptRequest(d, r, size) PROVE Final(c)
  <2>1. /\ turn.client = d /\ turn.stage = "frames" /\ Respond(d, size) /\ Executes(d)
        /\ owed' = [owed EXCEPT ![r] = d]
      BY <1>9 DEF AcceptRequest, Executes, HasFrame, InFrames
  <2>2. Fits(d, size) /\ pending' = [pending EXCEPT ![r] = d]
      BY <2>1, <1>9, RoomForResponse DEF AcceptRequest
  <2>3. d # c
      BY <2>1, <1>1
  <2>4. \A q \in Requests : /\ pending'[q] = c => pending[q] = c
                            /\ owed'[q] = c => owed[q] = c
      BY <2>1, <2>2, <2>3 DEF IInv, TypeOK
  <2>5. size \in 1 .. MaxFrame + 1
      BY ControlAssumption DEF ControlAssumption
  <2> QED BY <2>1, <2>4, <2>5, <1>1, <1>6, ResponseFinal
<1>10. ASSUME NEW victims \in SUBSET {r \in Requests : owed[r] # NoClient}, Change(d, victims) PROVE Final(c)
  <2>1. UNCHANGED <<status, output, results>>
      BY <1>10 DEF Change, connection, outgoing
  <2> QED BY <2>1, StillFinal
<1>11. ASSUME NEW n \in 0 .. socket[d], NEW more \in BOOLEAN, NEW last \in BOOLEAN, Receive(d, n, more, last)
       PROVE  Final(c)
  <2>1. /\ turn.client = d /\ turn.stage = "read" /\ UNCHANGED results
        /\ Terminal(d) \/ UNCHANGED <<status, outgoing>>
      BY <1>11 DEF Receive
  <2>2. CASE Terminal(d)
      BY <2>1, <2>2, <1>2
  <2>3. CASE UNCHANGED <<status, outgoing>>
      BY <2>1, <2>3, StillFinal DEF outgoing
  <2> QED BY <2>1, <2>2, <2>3
<1> QED BY <1>3, <1>4, <1>5, <1>7, <1>8, <1>9, <1>10, <1>11 DEF Reading

LEMMA TurnStepFinal ==
    ASSUME IInv, IInv', NEW c \in Clients, status[c] = "closing", TurnStep
    PROVE  Final(c)
<1>1. ASSUME NEW d \in Clients, Sending(d) PROVE Final(c)
  <2>1. PICK n \in 1 .. MaxFrame : Writing(d) /\ n =< Head(output[d]) /\ Write(d, n)
      BY <1>1 DEF Sending
  <2>2. /\ Len(output'[d]) =< Len(output[d])
        /\ \A e \in Clients : e # d => output'[e] = output[e]
      BY <2>1, WriteStep DEF IInv, Writing, Write
  <2>3. Len(output'[c]) =< Len(output[c])
    <3>1. Len(output[c]) \in Nat
        BY DEF IInv, OutgoingOK
    <3> QED BY <3>1, <2>2
  <2>4. status'[c] = "closing" /\ owed' = owed /\ pending' = pending
      BY <2>1 DEF Write, connection, results
  <2> QED BY <2>3, <2>4, NoMoreToSend
<1>2. ASSUME NEW d \in Clients, Blocked(d) PROVE Final(c)
  <2>1. UNCHANGED <<status, output, results>>
      BY <1>2 DEF Blocked, connection, outgoing
  <2> QED BY <2>1, StillFinal
<1>3. ASSUME NEW d \in Clients, WriteFails(d) PROVE Final(c)
    BY <1>3, RemoveFinal DEF WriteFails
<1>4. ASSUME NEW d \in Clients, Flushed(d) PROVE Final(c)
  <2>1. RemoveClient(d) \/ UNCHANGED <<status, output, results>>
      BY <1>4 DEF Flushed, connection, outgoing
  <2> QED BY <2>1, StillFinal, RemoveFinal
<1>5. ASSUME NEW d \in Clients, Finish(d) PROVE Final(c)
  <2>1. RemoveClient(d) \/ UNCHANGED <<status, output, results>>
      BY <1>5 DEF Finish, outgoing
  <2> QED BY <2>1, StillFinal, RemoveFinal
<1>6. ASSUME NEW r \in Requests, Cancel(r) PROVE Final(c)
  <2>1. 1 \in 1 .. MaxFrame
      BY ControlAssumption DEF ControlAssumption
  <2> QED BY <1>6, <2>1, DeliverFinal DEF Cancel
<1>7. ASSUME NEW d \in Clients, Reading(d) PROVE Final(c)
    BY <1>7, ReadingFinal
<1> QED BY <1>1, <1>2, <1>3, <1>4, <1>5, <1>6, <1>7 DEF TurnStep

LEMMA StepFinal ==
    ASSUME IInv, IInv', NEW c \in Clients, status[c] = "closing", [Next]_vars
    PROVE  Final(c)
<1>1. ASSUME PeerStep PROVE Final(c)
  <2>1. UNCHANGED <<status, output, results>>
      BY <1>1 DEF PeerStep, PeerSends, PeerEnds, connection, outgoing
  <2> QED BY <2>1, StillFinal
<1>2. ASSUME Shutdown PROVE Final(c)
  <2>1. /\ status'[c] = "gone" /\ input'[c] = 0 /\ output'[c] = <<>> /\ owed' = owed
        /\ \A r \in Requests : pending'[r] # c
      BY <1>2, ControlAssumption DEF Shutdown, ControlAssumption
  <2>2. Len(output'[c]) =< Len(output[c])
      BY <2>1 DEF IInv, OutgoingOK
  <2> QED BY <2>1, <2>2, NoMoreToSend
<1>3. ASSUME NEW d \in Clients, Accept(d) PROVE Final(c)
  <2>1. /\ d # c /\ UNCHANGED <<output, owed, pending>> /\ status'[c] = status[c]
      BY <1>3 DEF Accept, outgoing, results, IInv, TypeOK
  <2>2. Len(output'[c]) =< Len(output[c])
      BY <2>1 DEF IInv, OutgoingOK
  <2> QED BY <2>1, <2>2, NoMoreToSend
<1>4. ASSUME NEW d \in Clients, DispatchError(d) PROVE Final(c)
    BY <1>4, RemoveFinal DEF DispatchError
<1>5. ASSUME NEW d \in Clients, NEW read \in BOOLEAN, NEW write \in BOOLEAN, NEW hangup \in BOOLEAN,
             Dispatch(d, read, write, hangup)
      PROVE  Final(c)
  <2>1. UNCHANGED <<status, output, results>>
      BY <1>5 DEF Dispatch, connection, outgoing
  <2> QED BY <2>1, StillFinal
<1>6. ASSUME NEW r \in Requests, NEW failed \in BOOLEAN, NEW size \in 1 .. MaxFrame, Result(r, failed, size) PROVE Final(c)
    BY <1>6, DeliverFinal DEF Result
<1>7. ASSUME UNCHANGED vars PROVE Final(c)
  <2>1. UNCHANGED <<status, output, results>>
      BY <1>7 DEF vars, connection, outgoing
  <2> QED BY <2>1, StillFinal
<1> QED BY <1>1, <1>2, <1>3, <1>4, <1>5, <1>6, <1>7, TurnStepFinal DEF Next

-----------------------------------------------------------------------------
(* The theorems. *)

\* The inductive invariant holds, whatever handlers and peers do.
THEOREM Invariance == Spec => []IInv
BY InitHolds, StepKeeps, PTL DEF Spec

\* Every variable has its type: a buffer has no negative number of frames and
\* a frame that is being sent is never empty.
THEOREM TypeCorrect == Spec => []TypeOK
<1>1. IInv => TypeOK
    BY DEF IInv
<1> QED BY <1>1, Invariance, PTL

\* queuedOutput is the size of what is queued and stays within its limit.
THEOREM QueueCounted == Spec => []QueueIsCounted
<1>1. IInv => QueueIsCounted
    BY DEF IInv, OutgoingOK, Counted, QueueIsCounted
<1> QED BY <1>1, Invariance, PTL

\* pendingInputs and pendingCaptures name who asked, as long as it is there.
THEOREM RequesterFound == Spec => []RequesterIsKnown
<1>1. IInv => RequesterIsKnown
    BY DEF IInv
<1> QED BY <1>1, Invariance, PTL

\* Whatever is left to do between two handlers has an event that is watched for.
THEOREM NoWakeupLost == Spec => []NoLostWakeup
<1>1. IInv => NoLostWakeup
  <2> SUFFICES ASSUME IInv, Idle, NEW c \in Connected
               PROVE  Waits(c)
      BY DEF NoLostWakeup, Waits
  <2>1. c # turn.client
      BY ControlAssumption DEF Idle, NoTurn, Connected, ControlAssumption
  <2> QED BY <2>1 DEF IInv, WaitsOK
<1> QED BY <1>1, Invariance, PTL

\* closeAfterWrite ends what a connection can do but for sending what it owes.
THEOREM ClosingDoesNothingElse == Spec => ClosingIsFinal
<1> DEFINE A == \A c \in Clients : status[c] = "closing" => Final(c)
<1>1. ASSUME IInv, [Next]_vars PROVE A
  <2>1. IInv'
      BY <1>1, StepKeeps
  <2> QED BY <1>1, <2>1, StepFinal
<1>2. IInv /\ [Next]_vars => [A]_vars
    BY <1>1
<1> HIDE DEF A
<1>3. Spec => [][A]_vars
    BY <1>2, Invariance, PTL DEF Spec
<1> QED BY <1>3 DEF A, Final, ClosingIsFinal
=============================================================================
