----------------------- MODULE RealmInputSocketProofs -----------------------
(***************************************************************************)
(* Theorems about RealmInputController that speak of the order of what is  *)
(* in the socket between the host and its helper, for any process IDs,     *)
(* sequence numbers, inputs and capabilities and any size of the socket.   *)
(***************************************************************************)
EXTENDS RealmInputControllerProofs

-----------------------------------------------------------------------------
(* The socket.  The number of a request is at one place at most until the  *)
(* host has read what became of the request: in the inbox, with the        *)
(* capture in progress, or in an error or a frame that is on its way.      *)
(* Acknowledgements do not count, because the host forgets nothing at one. *)

Requests(inbox) ==
    {n \in DOMAIN inbox : inbox[n].type \notin {"CAPTURE_CANCEL", "RELEASE_ALL"}}
Verdicts(outbox) ==
    {n \in DOMAIN outbox : outbox[n].type \in {"ERROR", "CAPTURE_READY"}}

Once(inbox, outbox, capture) ==
    /\ \A i, j \in Requests(inbox) : inbox[i].sequence = inbox[j].sequence => i = j
    /\ \A i, j \in Verdicts(outbox) : outbox[i].sequence = outbox[j].sequence => i = j
    /\ \A i \in Requests(inbox), j \in Verdicts(outbox) :
          inbox[i].sequence # outbox[j].sequence
    /\ \A i \in Requests(inbox) : inbox[i].sequence # capture
    /\ \A j \in Verdicts(outbox) : outbox[j].sequence # capture

\* The captures that may still lead to a frame are among E.
Among(inbox, outbox, capture, E) ==
    /\ capture \in {0} \cup E
    /\ \A i \in DOMAIN inbox : inbox[i].type = "CAPTURE" => inbox[i].sequence \in E
    /\ \A j \in DOMAIN outbox : outbox[j].type = "CAPTURE_READY" => outbox[j].sequence \in E

Orderly(inbox, outbox, capture, E) ==
    Once(inbox, outbox, capture) /\ Among(inbox, outbox, capture, E)

\* Nothing bears the number s.
Fresh(inbox, outbox, capture, s) ==
    /\ \A i \in Requests(inbox) : inbox[i].sequence # s
    /\ \A j \in Verdicts(outbox) : outbox[j].sequence # s
    /\ capture # s

Tidy(h, E) == Orderly(h.inbox, h.outbox, h.capture, E)

-----------------------------------------------------------------------------
(* What becomes of that when messages come and go. *)

\* What a sequence is with one more element at its end.
LEMMA Appended ==
    ASSUME NEW S, NEW q \in Seq(S), NEW m \in S
    PROVE  /\ Append(q, m) \in Seq(S)
           /\ DOMAIN Append(q, m) = DOMAIN q \cup {Len(q) + 1}
           /\ Len(q) + 1 \notin DOMAIN q
           /\ \A i \in DOMAIN q : Append(q, m)[i] = q[i] /\ i < Len(q) + 1
           /\ Append(q, m)[Len(q) + 1] = m
           /\ DOMAIN q \subseteq Nat /\ Len(q) \in Nat
PROOF
  OBVIOUS

\* What a sequence is without its first element.
LEMMA Behind ==
    ASSUME NEW S, NEW q \in Seq(S), q # << >>
    PROVE  /\ Tail(q) \in Seq(S)
           /\ 1 \in DOMAIN q /\ q[1] = Head(q) /\ Head(q) \in S
           /\ \A i \in DOMAIN Tail(q) : i + 1 \in DOMAIN q /\ Tail(q)[i] = q[i + 1]
           /\ \A i \in DOMAIN q : i = 1 \/ i - 1 \in DOMAIN Tail(q)
           /\ DOMAIN q \subseteq Nat \ {0} /\ DOMAIN Tail(q) \subseteq Nat \ {0}
PROOF
<1> DEFINE t == Tail(q)  l == Len(q)
<1>1. l \in Nat \ {0} /\ DOMAIN q = 1 .. l
  BY EmptySeq, LenProperties
<1>2. /\ t \in Seq(S) /\ Len(t) = l - 1
      /\ \A i \in 1 .. l - 1 : t[i] = q[i + 1]
  BY HeadTailProperties
<1>3. Head(q) = q[1] /\ q[1] \in S
  BY <1>1, ElementOfSeq
<1>4. DOMAIN t = 1 .. l - 1
  BY <1>2, LenProperties
<1> HIDE DEF t, l
<1>5. \A i \in DOMAIN t : i + 1 \in DOMAIN q /\ t[i] = q[i + 1]
  BY <1>1, <1>2, <1>4
<1>6. \A i \in DOMAIN q : i = 1 \/ i - 1 \in DOMAIN t
  BY <1>1, <1>4
<1>7. 1 \in DOMAIN q /\ DOMAIN q \subseteq Nat \ {0} /\ DOMAIN t \subseteq Nat \ {0}
  BY <1>1, <1>4
<1> QED
  BY <1>2, <1>3, <1>5, <1>6, <1>7 DEF t

\* The first message leaves the inbox: its number is then nowhere else.
LEMMA InboxTaken ==
    ASSUME NEW inbox \in Seq(Commands), NEW outbox, NEW capture, NEW E,
           inbox # << >>, Orderly(inbox, outbox, capture, E)
    PROVE  /\ Orderly(Tail(inbox), outbox, capture, E)
           /\ Head(inbox).type \notin {"CAPTURE_CANCEL", "RELEASE_ALL"} =>
                 Fresh(Tail(inbox), outbox, capture, Head(inbox).sequence)
PROOF
<1> DEFINE t == Tail(inbox)
<1>1. /\ 1 \in DOMAIN inbox /\ inbox[1] = Head(inbox)
      /\ \A i \in DOMAIN t : i + 1 \in DOMAIN inbox /\ t[i] = inbox[i + 1]
      /\ DOMAIN t \subseteq Nat \ {0}
  BY Behind
<1> HIDE DEF t
<1>2. \A i \in Requests(t) : /\ i \in Nat \ {0} /\ i + 1 \in Requests(inbox)
                             /\ t[i].sequence = inbox[i + 1].sequence
  BY <1>1 DEF Requests
<1>3. Once(t, outbox, capture)
  <2>1. ASSUME NEW i \in Requests(t), NEW j \in Requests(t), t[i].sequence = t[j].sequence
        PROVE  i = j
    <3>1. i + 1 = j + 1
      BY <1>2, <2>1 DEF Orderly, Once
    <3> QED
      BY <1>2, <3>1
  <2> QED
    BY <1>2, <2>1 DEF Orderly, Once
<1>4. Among(t, outbox, capture, E)
  BY <1>1 DEF Orderly, Among
<1>5. ASSUME Head(inbox).type \notin {"CAPTURE_CANCEL", "RELEASE_ALL"}
      PROVE  Fresh(t, outbox, capture, Head(inbox).sequence)
  <2>1. 1 \in Requests(inbox) /\ inbox[1].sequence = Head(inbox).sequence
    BY <1>1, <1>5 DEF Requests
  <2>2. ASSUME NEW i \in Requests(t) PROVE t[i].sequence # Head(inbox).sequence
    <3>1. i + 1 # 1
      BY <1>2
    <3> QED
      BY <1>2, <2>1, <3>1 DEF Orderly, Once
  <2> QED
    BY <2>1, <2>2 DEF Fresh, Orderly, Once
<1> QED
  BY <1>3, <1>4, <1>5 DEF Orderly, t

\* The host reads a message: if that was an error or a frame, its number is free.
LEMMA OutboxTaken ==
    ASSUME NEW inbox, NEW outbox \in Seq(Answers), NEW capture, NEW E,
           outbox # << >>, Orderly(inbox, outbox, capture, E)
    PROVE  /\ Orderly(inbox, Tail(outbox), capture, E)
           /\ Head(outbox).type \in {"ERROR", "CAPTURE_READY"} =>
                 Fresh(inbox, Tail(outbox), capture, Head(outbox).sequence)
PROOF
<1> DEFINE t == Tail(outbox)
<1>1. /\ 1 \in DOMAIN outbox /\ outbox[1] = Head(outbox)
      /\ \A i \in DOMAIN t : i + 1 \in DOMAIN outbox /\ t[i] = outbox[i + 1]
      /\ DOMAIN t \subseteq Nat \ {0}
  BY Behind
<1> HIDE DEF t
<1>2. \A i \in Verdicts(t) : /\ i \in Nat \ {0} /\ i + 1 \in Verdicts(outbox)
                             /\ t[i].sequence = outbox[i + 1].sequence
  BY <1>1 DEF Verdicts
<1>3. Once(inbox, t, capture)
  <2>1. ASSUME NEW i \in Verdicts(t), NEW j \in Verdicts(t), t[i].sequence = t[j].sequence
        PROVE  i = j
    <3>1. i + 1 = j + 1
      BY <1>2, <2>1 DEF Orderly, Once
    <3> QED
      BY <1>2, <3>1
  <2> QED
    BY <1>2, <2>1 DEF Orderly, Once
<1>4. Among(inbox, t, capture, E)
  BY <1>1 DEF Orderly, Among
<1>5. ASSUME Head(outbox).type \in {"ERROR", "CAPTURE_READY"}
      PROVE  Fresh(inbox, t, capture, Head(outbox).sequence)
  <2>1. 1 \in Verdicts(outbox) /\ outbox[1].sequence = Head(outbox).sequence
    BY <1>1, <1>5 DEF Verdicts
  <2>2. ASSUME NEW i \in Verdicts(t) PROVE t[i].sequence # Head(outbox).sequence
    <3>1. i + 1 # 1
      BY <1>2
    <3> QED
      BY <1>2, <2>1, <3>1 DEF Orderly, Once
  <2> QED
    BY <2>1, <2>2 DEF Fresh, Orderly, Once
<1> QED
  BY <1>3, <1>4, <1>5 DEF Orderly, t

\* A request with a fresh number, or a message without one, enters the inbox.
LEMMA InboxGrows ==
    ASSUME NEW inbox \in Seq(Commands), NEW outbox, NEW capture, NEW E,
           NEW m \in Commands, Orderly(inbox, outbox, capture, E),
           \/ m.type \in {"CAPTURE_CANCEL", "RELEASE_ALL"}
           \/ /\ Fresh(inbox, outbox, capture, m.sequence)
              /\ m.type = "CAPTURE" => m.sequence \in E
    PROVE  Orderly(Append(inbox, m), outbox, capture, E)
PROOF
<1> DEFINE t == Append(inbox, m)  l == Len(inbox) + 1
<1>1. /\ DOMAIN t = DOMAIN inbox \cup {l} /\ l \notin DOMAIN inbox
      /\ \A i \in DOMAIN inbox : t[i] = inbox[i]
      /\ t[l] = m
  BY Appended
<1> HIDE DEF t, l
<1>2. Once(t, outbox, capture)
  <2>1. CASE m.type \in {"CAPTURE_CANCEL", "RELEASE_ALL"}
    <3>1. Requests(t) = Requests(inbox) /\ \A i \in Requests(t) : t[i] = inbox[i]
      BY <1>1, <2>1 DEF Requests
    <3> QED
      BY <3>1 DEF Orderly, Once
  <2>2. CASE m.type \notin {"CAPTURE_CANCEL", "RELEASE_ALL"}
    <3>1. /\ Requests(t) = Requests(inbox) \cup {l}
          /\ \A i \in Requests(inbox) : t[i] = inbox[i]
      BY <1>1, <2>2 DEF Requests
    <3>2. Fresh(inbox, outbox, capture, m.sequence)
      BY <2>2
    <3> QED
      BY <1>1, <3>1, <3>2 DEF Orderly, Once, Fresh
  <2> QED
    BY <2>1, <2>2
<1>3. Among(t, outbox, capture, E)
  BY <1>1 DEF Orderly, Among
<1> QED
  BY <1>2, <1>3 DEF Orderly, t

\* An answer enters the outbox: an error or a frame with a fresh number, or
\* one that does not count.
LEMMA OutboxGrows ==
    ASSUME NEW inbox, NEW outbox \in Seq(Answers), NEW capture, NEW E,
           NEW m \in Answers, Orderly(inbox, outbox, capture, E),
           \/ m.type \notin {"ERROR", "CAPTURE_READY"}
           \/ /\ Fresh(inbox, outbox, capture, m.sequence)
              /\ m.type = "CAPTURE_READY" => m.sequence \in E
    PROVE  Orderly(inbox, Append(outbox, m), capture, E)
PROOF
<1> DEFINE t == Append(outbox, m)  l == Len(outbox) + 1
<1>1. /\ DOMAIN t = DOMAIN outbox \cup {l} /\ l \notin DOMAIN outbox
      /\ \A i \in DOMAIN outbox : t[i] = outbox[i]
      /\ t[l] = m
  BY Appended
<1> HIDE DEF t, l
<1>2. Once(inbox, t, capture)
  <2>1. CASE m.type \notin {"ERROR", "CAPTURE_READY"}
    <3>1. Verdicts(t) = Verdicts(outbox) /\ \A i \in Verdicts(t) : t[i] = outbox[i]
      BY <1>1, <2>1 DEF Verdicts
    <3> QED
      BY <3>1 DEF Orderly, Once
  <2>2. CASE m.type \in {"ERROR", "CAPTURE_READY"}
    <3>1. /\ Verdicts(t) = Verdicts(outbox) \cup {l}
          /\ \A i \in Verdicts(outbox) : t[i] = outbox[i]
      BY <1>1, <2>2 DEF Verdicts
    <3>2. Fresh(inbox, outbox, capture, m.sequence)
      BY <2>2
    <3> QED
      BY <1>1, <3>1, <3>2 DEF Orderly, Once, Fresh
  <2> QED
    BY <2>1, <2>2
<1>3. Among(inbox, t, capture, E)
  BY <1>1 DEF Orderly, Among
<1> QED
  BY <1>2, <1>3 DEF Orderly, t

\* A capture with a fresh number begins.
LEMMA CaptureBegins ==
    ASSUME NEW inbox, NEW outbox, NEW capture, NEW E, NEW s \in E,
           Orderly(inbox, outbox, capture, E), Fresh(inbox, outbox, capture, s)
    PROVE  Orderly(inbox, outbox, s, E)
PROOF
  BY DEF Orderly, Once, Among, Fresh

\* A capture ends: its number is free; other requests and answers bear none of 0.
LEMMA CaptureEnds ==
    ASSUME NEW inbox \in Seq(Commands), NEW outbox \in Seq(Answers), NEW capture, NEW E,
           Orderly(inbox, outbox, capture, E)
    PROVE  /\ Orderly(inbox, outbox, 0, E)
           /\ capture # 0 => Fresh(inbox, outbox, 0, capture)
PROOF
<1>1. \A i \in Requests(inbox) : inbox[i].sequence \in Numbers
  <2>1. ASSUME NEW i \in DOMAIN inbox PROVE inbox[i] \in Commands
    BY ElementOfSeq, LenProperties
  <2> QED
    BY <2>1 DEF Requests, Commands, ReleaseAll, Message
<1>2. \A j \in Verdicts(outbox) : outbox[j].sequence \in Numbers
  <2>1. ASSUME NEW j \in DOMAIN outbox PROVE outbox[j] \in Answers
    BY ElementOfSeq, LenProperties
  <2> QED
    BY <2>1 DEF Verdicts, Answers, Message
<1>3. 0 \notin Numbers
  BY NumbersAssumption DEF NumbersAssumption
<1> QED
  BY <1>1, <1>2, <1>3 DEF Orderly, Once, Among, Fresh

\* More captures are expected, or those whose number is fresh are no longer.
LEMMA AmongOthers ==
    ASSUME NEW inbox, NEW outbox, NEW capture, NEW E, NEW F, NEW s,
           Orderly(inbox, outbox, capture, E),
           E \subseteq F \/ (Fresh(inbox, outbox, capture, s) /\ E \ {s} \subseteq F)
    PROVE  Orderly(inbox, outbox, capture, F)
PROOF
<1>1. CASE E \subseteq F
  BY <1>1 DEF Orderly, Among
<1>2. CASE Fresh(inbox, outbox, capture, s) /\ E \ {s} \subseteq F
  <2>1. \A i \in DOMAIN inbox : inbox[i].type = "CAPTURE" => i \in Requests(inbox)
    BY DEF Requests
  <2>2. \A j \in DOMAIN outbox : outbox[j].type = "CAPTURE_READY" => j \in Verdicts(outbox)
    BY DEF Verdicts
  <2> QED
    BY <1>2, <2>1, <2>2 DEF Orderly, Among, Fresh
<1> QED
  BY <1>1, <1>2

-----------------------------------------------------------------------------
(* What is held once the inbox is worked off. *)

Deciding == {"PRESS", "LIFT", "RELEASE_ALL"}
Decides(inbox) == {n \in DOMAIN inbox : inbox[n].type \in Deciding}

\* A message at the end of the inbox decides, if it is about keys at all.
LEMMA HeldAfter ==
    ASSUME NEW h \in HelperRecord, NEW k, NEW m \in Commands,
           k.inbox = Append(h.inbox, m), k.held = h.held
    PROVE  /\ m.type \in {"LIFT", "RELEASE_ALL"} => ~HeldInTheEnd(k)
           /\ m.type \notin Deciding /\ HeldInTheEnd(k) => HeldInTheEnd(h)
PROOF
<1> DEFINE q == h.inbox  t == Append(q, m)  l == Len(q) + 1
<1>1. /\ DOMAIN t = DOMAIN q \cup {l} /\ l \notin DOMAIN q
      /\ \A i \in DOMAIN q : t[i] = q[i] /\ i < l
      /\ t[l] = m
      /\ DOMAIN q \subseteq Nat /\ l \in Nat
  BY Appended DEF HelperRecord
<1>2. k.inbox = t /\ h.inbox = q
  OBVIOUS
<1> HIDE DEF t, l, q
<1>3. ASSUME m.type \in {"LIFT", "RELEASE_ALL"} PROVE ~HeldInTheEnd(k)
  <2>1. l \in Decides(t)
    BY <1>1, <1>3 DEF Decides, Deciding
  <2>2. ASSUME NEW n \in Decides(t), \A j \in Decides(t) : j <= n PROVE n = l
    BY <1>1, <2>1, <2>2 DEF Decides
  <2>3. t[l].type # "PRESS"
    BY <1>1, <1>3
  <2> QED
    BY <1>2, <2>1, <2>2, <2>3 DEF HeldInTheEnd, Decides, Deciding
<1>4. ASSUME m.type \notin Deciding, HeldInTheEnd(k) PROVE HeldInTheEnd(h)
  <2>1. Decides(t) = Decides(q) /\ \A n \in Decides(q) : t[n] = q[n]
    BY <1>1, <1>4 DEF Decides
  <2>2. CASE Decides(t) = {}
    BY <1>2, <1>4, <2>1, <2>2 DEF HeldInTheEnd, Decides, Deciding
  <2>3. CASE Decides(t) # {}
    <3>1. PICK n \in Decides(t) : (\A j \in Decides(t) : j <= n) /\ t[n].type = "PRESS"
      BY <1>2, <1>4, <2>3 DEF HeldInTheEnd, Decides, Deciding
    <3> QED
      BY <1>2, <2>1, <3>1 DEF HeldInTheEnd, Decides, Deciding
  <2> QED
    BY <2>2, <2>3
<1> QED
  BY <1>3, <1>4

\* The first message leaves the inbox and has its effect.
LEMMA HeldBefore ==
    ASSUME NEW h \in HelperRecord, NEW k, h.inbox # << >>,
           k.inbox = Tail(h.inbox),
           Head(h.inbox).type \in {"LIFT", "RELEASE_ALL"} => ~k.held,
           Head(h.inbox).type \notin Deciding => k.held = h.held,
           HeldInTheEnd(k)
    PROVE  HeldInTheEnd(h)
PROOF
<1> DEFINE q == h.inbox  t == Tail(q)
<1>1. /\ 1 \in DOMAIN q /\ q[1] = Head(q)
      /\ \A i \in DOMAIN t : i + 1 \in DOMAIN q /\ t[i] = q[i + 1]
      /\ \A i \in DOMAIN q : i = 1 \/ i - 1 \in DOMAIN t
      /\ DOMAIN q \subseteq Nat \ {0} /\ DOMAIN t \subseteq Nat \ {0}
  BY Behind DEF HelperRecord
<1>2. k.inbox = t /\ h.inbox = q
  OBVIOUS
<1> HIDE DEF t, q
<1>3. \A n \in Decides(t) : n \in Nat \ {0} /\ n + 1 \in Decides(q) /\ t[n] = q[n + 1]
  BY <1>1 DEF Decides
<1>4. \A n \in Decides(q) : n \in Nat \ {0} /\ (n = 1 \/ n - 1 \in Decides(t))
  <2>1. ASSUME NEW n \in Decides(q), n # 1 PROVE n - 1 \in Decides(t)
    <3>1. n - 1 \in DOMAIN t /\ n \in Nat \ {0} /\ (n - 1) + 1 = n
      BY <1>1, <2>1 DEF Decides
    <3>2. t[n - 1] = q[n]
      BY <1>1, <3>1
    <3> QED
      BY <2>1, <3>1, <3>2 DEF Decides
  <2> QED
    BY <1>1, <2>1 DEF Decides
<1>5. CASE Decides(t) = {}
  <2>1. k.held
    BY <1>2, <1>5 DEF HeldInTheEnd, Decides, Deciding
  <2>2. CASE 1 \in Decides(q)
    <3>1. q[1].type = "PRESS"
      BY <1>1, <1>2, <2>1, <2>2 DEF Decides, Deciding
    <3>2. \A n \in Decides(q) : n <= 1
      BY <1>4, <1>5
    <3> QED
      BY <1>2, <2>2, <3>1, <3>2 DEF HeldInTheEnd, Decides, Deciding
  <2>3. CASE 1 \notin Decides(q)
    <3>1. Decides(q) = {}
      BY <1>4, <1>5, <2>3
    <3>2. h.held
      BY <1>1, <1>2, <2>1, <2>3 DEF Decides
    <3> QED
      BY <1>2, <3>1, <3>2 DEF HeldInTheEnd, Decides, Deciding
  <2> QED
    BY <2>2, <2>3
<1>6. CASE Decides(t) # {}
  <2>1. PICK n \in Decides(t) : (\A j \in Decides(t) : j <= n) /\ t[n].type = "PRESS"
    BY <1>2, <1>6 DEF HeldInTheEnd, Decides, Deciding
  <2>2. n + 1 \in Decides(q) /\ q[n + 1].type = "PRESS" /\ n \in Nat \ {0}
    BY <1>3, <2>1
  <2>3. ASSUME NEW j \in Decides(q) PROVE j <= n + 1
    <3>1. j = 1 \/ j - 1 <= n
      BY <1>4, <2>1
    <3> QED
      BY <1>4, <2>2, <3>1
  <2> QED
    BY <1>2, <2>2, <2>3 DEF HeldInTheEnd, Decides, Deciding
<1> QED
  BY <1>5, <1>6

\* What is held depends on nothing but the inbox and what is held now.
LEMMA HeldSame ==
    ASSUME NEW h, NEW k, k.inbox = h.inbox, k.held = h.held, HeldInTheEnd(k)
    PROVE  HeldInTheEnd(h)
PROOF
  BY DEF HeldInTheEnd

-----------------------------------------------------------------------------
(* The helper's side.  A helper k that h passes on to holds no more than h *)
(* and is as orderly, if the helper's connection takes what is written.    *)

AllFlushed == "unflushed" \notin Handling

Passes(h, E, k, F) ==
    /\ HeldInTheEnd(k) => HeldInTheEnd(h)
    /\ AllFlushed /\ Tidy(h, E) => Tidy(k, F)

\* Every message in a socket is one that is sent through it.
LEMMA HeadsTyped ==
    ASSUME NEW h \in HelperRecord
    PROVE  /\ h.inbox \in Seq(Commands) /\ h.outbox \in Seq(Answers)
           /\ h.inbox # << >> => Head(h.inbox) \in Commands
           /\ h.outbox # << >> => Head(h.outbox) \in Answers
           /\ h.acknowledgements # << >> => Head(h.acknowledgements) \in Numbers
PROOF
  BY Behind DEF HelperRecord

\* A turn of the helper's loop.
LEMMA HandledPasses ==
    ASSUME NEW h \in HelperRecord, h.inbox # << >>, NEW outcome \in Handling,
           NEW E, Possible(h, Head(h.inbox), outcome)
    PROVE  Passes(h, E, Handled(h, Head(h.inbox), outcome), E)
PROOF
<1> DEFINE m == Head(h.inbox)
           k == Handled(h, m, outcome)
           rest == Tail(h.inbox)
<1>1. /\ h.inbox \in Seq(Commands) /\ h.outbox \in Seq(Answers) /\ m \in Commands
      /\ rest \in Seq(Commands)
  BY HeadsTyped, Behind
<1>2. m.type \in InputTypes \cup {"CAPTURE", "CAPTURE_CANCEL", "RELEASE_ALL"}
  BY <1>1 DEF Commands, ReleaseAll, Message
<1>3. outcome \in Outcomes
  BY InputAssumption DEF InputAssumption
<1> HIDE DEF m
<1>4. /\ k.inbox = rest
      /\ m.type \in {"LIFT", "RELEASE_ALL"} => ~k.held
      /\ m.type \notin Deciding => k.held = h.held
  <2> USE DEF Handled, Reported, HelperRecord
  <2>1. CASE outcome = "refused"
    BY <1>2, <2>1 DEF Possible, InputTypes, Deciding, m
  <2>2. CASE outcome # "refused" /\ m.type \in InputTypes
    BY <2>2 DEF Applied, InputTypes, Deciding, Held
  <2>3. CASE outcome # "refused" /\ m.type = "RELEASE_ALL"
    BY <2>3 DEF Released, InputTypes, Deciding
  <2>4. CASE outcome # "refused" /\ m.type = "CAPTURE"
    BY <2>4 DEF Captured, InputTypes, Deciding
  <2>5. CASE outcome # "refused" /\ m.type = "CAPTURE_CANCEL"
    BY <2>5 DEF InputTypes, Deciding
  <2> QED
    BY <1>2, <2>1, <2>2, <2>3, <2>4, <2>5
<1>5. HeldInTheEnd(k) => HeldInTheEnd(h)
  <2> HIDE DEF k
  <2> QED
    BY <1>4, HeldBefore DEF m
<1>6. ASSUME AllFlushed, Tidy(h, E) PROVE Tidy(k, E)
  <2>1. outcome \in {"flushed", "refused"}
    BY <1>3, <1>6 DEF AllFlushed, Outcomes
  <2>2. /\ Orderly(rest, h.outbox, h.capture, E)
        /\ m.type \notin {"CAPTURE_CANCEL", "RELEASE_ALL"} =>
              Fresh(rest, h.outbox, h.capture, m.sequence)
    BY <1>1, <1>6, InboxTaken DEF Tidy, m
  <2>3. CASE outcome = "flushed"
    <3>1. /\ k.inbox = rest /\ k.outbox = h.outbox
          /\ \/ k.capture = h.capture
             \/ k.capture = 0
             \/ m.type = "CAPTURE" /\ k.capture = m.sequence
      BY <1>2, <2>3 DEF Handled, Applied, Released, Captured, HelperRecord, InputTypes
    <3>2. ASSUME m.type = "CAPTURE" PROVE m.sequence \in E
      <4>1. 1 \in DOMAIN h.inbox /\ h.inbox[1] = m
        BY <1>1, Behind DEF m
      <4> QED
        BY <1>6, <3>2, <4>1 DEF Tidy, Orderly, Among
    <3> HIDE DEF k, rest
    <3>3. CASE k.capture = h.capture
      BY <2>2, <3>1, <3>3 DEF Tidy
    <3>4. CASE k.capture = 0
      BY <1>1, <2>2, <3>1, <3>4, CaptureEnds DEF Tidy
    <3>5. CASE m.type = "CAPTURE" /\ k.capture = m.sequence
      BY <2>2, <3>1, <3>2, <3>5, CaptureBegins DEF Tidy
    <3> QED
      BY <3>1, <3>3, <3>4, <3>5
  <2>4. CASE outcome = "refused"
    <3>1. m.type \in {"TYPE", "CAPTURE"}
      BY <1>2, <2>4 DEF Possible, InputTypes, m
    <3>2. m.sequence \in Numbers
      BY <1>1, <3>1 DEF Commands, ReleaseAll, Message
    <3>3. k.inbox = rest /\ k.outbox = Append(h.outbox, Message("ERROR", m.sequence))
            /\ k.capture = h.capture
      BY <2>4, <3>2 DEF Handled, Reported, HelperRecord
    <3>4. /\ Message("ERROR", m.sequence) \in Answers
          /\ Message("ERROR", m.sequence).type = "ERROR"
          /\ Message("ERROR", m.sequence).sequence = m.sequence
      BY <3>2 DEF Answers, Message
    <3>5. Fresh(rest, h.outbox, h.capture, m.sequence)
      BY <2>2, <3>1
    <3> HIDE DEF k, rest
    <3> QED
      BY <1>1, <2>2, <3>3, <3>4, <3>5, OutboxGrows DEF Tidy
  <2> QED
    BY <2>1, <2>3, <2>4
<1> QED
  BY <1>5, <1>6 DEF Passes, m

\* The helper becomes ready, or an input is acknowledged.
LEMMA AnsweredPasses ==
    ASSUME NEW h \in HelperRecord, NEW E
    PROVE  /\ Passes(h, E, Ready(h), E)
           /\ h.acknowledgements # << >> => Passes(h, E, Acknowledged(h), E)
PROOF
<1>1. h.outbox \in Seq(Answers)
  BY DEF HelperRecord
<1>2. Passes(h, E, Ready(h), E)
  <2> DEFINE k == Ready(h)  m == Message("READY", 0)
  <2>1. k.inbox = h.inbox /\ k.held = h.held /\ k.capture = h.capture /\ k.outbox = Append(h.outbox, m)
    BY DEF Ready, Reported, HelperRecord
  <2>2. m \in Answers /\ m.type = "READY"
    BY DEF Answers, Message
  <2> HIDE DEF k, m
  <2>3. Tidy(h, E) => Tidy(k, E)
    BY <1>1, <2>1, <2>2, OutboxGrows DEF Tidy
  <2> QED
    BY <2>1, <2>3, HeldSame DEF Passes, k
<1>3. ASSUME h.acknowledgements # << >> PROVE Passes(h, E, Acknowledged(h), E)
  <2> DEFINE k == Acknowledged(h)  m == Message("INPUT_APPLIED", Head(h.acknowledgements))
  <2>1. k.inbox = h.inbox /\ k.held = h.held /\ k.capture = h.capture /\ k.outbox = Append(h.outbox, m)
    BY DEF Acknowledged, Reported, HelperRecord
  <2>2. m \in Answers /\ m.type = "INPUT_APPLIED"
    BY <1>3, HeadsTyped DEF Answers, Message
  <2> HIDE DEF k, m
  <2>3. Tidy(h, E) => Tidy(k, E)
    BY <1>1, <2>1, <2>2, OutboxGrows DEF Tidy
  <2> QED
    BY <2>1, <2>3, HeldSame DEF Passes, k
<1> QED
  BY <1>2, <1>3

\* The capture in progress ends with a frame or an error.
LEMMA FramePasses ==
    ASSUME NEW h \in HelperRecord, NEW E, h.capture # 0
    PROVE  Passes(h, E, FrameDone(h), E) /\ Passes(h, E, FrameFailed(h), E)
PROOF
<1>1. h.inbox \in Seq(Commands) /\ h.outbox \in Seq(Answers) /\ h.capture \in Numbers
  BY DEF HelperRecord
<1>2. ASSUME NEW k, NEW type \in {"ERROR", "CAPTURE_READY"},
             k.inbox = h.inbox, k.held = h.held, k.capture = 0,
             k.outbox = Append(h.outbox, Message(type, h.capture))
      PROVE  Passes(h, E, k, E)
  <2> DEFINE m == Message(type, h.capture)
  <2>1. m \in Answers /\ m.sequence = h.capture
    BY <1>1 DEF Answers, Message
  <2> HIDE DEF m
  <2>2. ASSUME Tidy(h, E) PROVE Tidy(k, E)
    <3>1. Orderly(h.inbox, h.outbox, 0, E) /\ Fresh(h.inbox, h.outbox, 0, h.capture)
      BY <1>1, <2>2, CaptureEnds DEF Tidy
    <3>2. h.capture \in E
      BY <2>2 DEF Tidy, Orderly, Among
    <3> QED
      BY <1>1, <1>2, <2>1, <3>1, <3>2, OutboxGrows DEF Tidy, m
  <2> QED
    BY <1>2, <2>2, HeldSame DEF Passes
<1>3. Passes(h, E, FrameDone(h), E)
  <2> DEFINE k == FrameDone(h)
  <2>1. /\ k.inbox = h.inbox /\ k.held = h.held /\ k.capture = 0
        /\ k.outbox = Append(h.outbox, Message("CAPTURE_READY", h.capture))
    BY DEF FrameDone, Reported, HelperRecord
  <2> HIDE DEF k
  <2> QED
    BY <1>2, <2>1 DEF k
<1>4. Passes(h, E, FrameFailed(h), E)
  <2> DEFINE k == FrameFailed(h)
  <2>1. /\ k.inbox = h.inbox /\ k.held = h.held /\ k.capture = 0
        /\ k.outbox = Append(h.outbox, Message("ERROR", h.capture))
    BY DEF FrameFailed, Reported, HelperRecord
  <2> HIDE DEF k
  <2> QED
    BY <1>2, <2>1 DEF k
<1> QED
  BY <1>3, <1>4

\* The process ends: nothing is held any more, and part of its answers is lost.
LEMMA ExitedPasses ==
    ASSUME NEW h \in HelperRecord, NEW E, NEW sent \in 0..Len(h.outbox)
    PROVE  Passes(h, E, Exited(h, sent), E) /\ ~HeldInTheEnd(Exited(h, sent))
PROOF
<1> DEFINE k == Exited(h, sent)  q == h.outbox  t == SubSeq(q, 1, sent)
<1>1. k.inbox = << >> /\ k.outbox = t /\ k.capture = 0 /\ k.held = FALSE
  BY DEF Exited, NoHelper
<1>2. DOMAIN t \subseteq DOMAIN q /\ \A i \in DOMAIN t : t[i] = q[i]
  <2>1. q \in Seq(Answers) /\ Len(q) \in Nat /\ DOMAIN q = 1 .. Len(q)
    BY LenProperties DEF HelperRecord
  <2> HIDE DEF q
  <2>2. \A i \in 1 .. sent : q[i] \in Answers
    BY <2>1, ElementOfSeq DEF q
  <2>3. t \in Seq(Answers) /\ Len(t) = sent /\ \A i \in 1 .. sent : t[i] = q[i]
    BY <2>1, <2>2, SubSeqProperties DEF q
  <2> HIDE DEF t
  <2>4. DOMAIN t = 1 .. sent
    BY <2>3, LenProperties
  <2> QED
    BY <2>1, <2>3, <2>4 DEF q
<1> HIDE DEF k, t
<1>3. ~HeldInTheEnd(k)
  BY <1>1 DEF HeldInTheEnd
<1>4. ASSUME Tidy(h, E) PROVE Tidy(k, E)
  <2>1. Orderly(h.inbox, q, 0, E)
    BY <1>4, CaptureEnds DEF Tidy, HelperRecord
  <2>2. Verdicts(t) \subseteq Verdicts(q) /\ \A i \in Verdicts(t) : t[i] = q[i]
    BY <1>2 DEF Verdicts
  <2>3. DOMAIN << >> = {}
    OBVIOUS
  <2> HIDE DEF q
  <2>4. Once(<< >>, t, 0)
    BY <2>1, <2>2, <2>3 DEF Orderly, Once, Requests
  <2>5. Among(<< >>, t, 0, E)
    BY <1>2, <2>1, <2>3 DEF Orderly, Among
  <2> QED
    BY <1>1, <2>4, <2>5 DEF Tidy, Orderly
<1> QED
  BY <1>3, <1>4 DEF Passes, k

\* Whatever a helper and its compositor do.
LEMMA HelperStepPasses ==
    ASSUME TypeOK, NEW p \in Pids, HelperStep(p), NEW E
    PROVE  /\ Passes(helper[p], E, helper'[p], E)
           /\ \A q \in Pids \ {p} : helper'[q] = helper[q]
           /\ UNCHANGED <<realmVars, open, controller, failure, reaping, timer, awaited, lost>>
PROOF
<1> DEFINE h == helper[p]
<1>1. h \in HelperRecord
  BY DEF TypeOK
<1>2. ASSUME NEW k, UpdateHelper(p, k)
      PROVE  /\ helper'[p] = k
             /\ \A q \in Pids \ {p} : helper'[q] = helper[q]
             /\ UNCHANGED <<realmVars, open, controller, failure, reaping, timer, awaited, lost>>
  BY <1>2 DEF UpdateHelper, TypeOK
<1>3. PICK k : UpdateHelper(p, k) /\ Passes(h, E, k, E)
  <2>1. CASE HelperReady(p)
    BY <1>1, <2>1, AnsweredPasses DEF HelperReady
  <2>2. ASSUME NEW outcome \in Handling, HelperReceives(p, outcome)
        PROVE  \E k : UpdateHelper(p, k) /\ Passes(h, E, k, E)
    <3>1. 0 \in 0 .. Len(h.outbox)
      BY <1>1, LenProperties DEF HelperRecord
    <3>2. /\ Passes(h, E, Exited(h, 0), E)
          /\ h.inbox # << >> /\ Passes(h, E, Handled(h, Head(h.inbox), outcome), E)
      BY <1>1, <2>2, <3>1, ExitedPasses, HandledPasses DEF HelperReceives
    <3> QED
      BY <2>2, <3>2 DEF HelperReceives
  <2>3. CASE HelperExits(p)
    BY <1>1, <2>3, ExitedPasses DEF HelperExits
  <2>4. CASE Acknowledge(p)
    BY <1>1, <2>4, AnsweredPasses DEF Acknowledge
  <2>5. CASE CompleteFrame(p)
    BY <1>1, <2>5, FramePasses DEF CompleteFrame
  <2> QED
    BY <2>1, <2>2, <2>3, <2>4, <2>5 DEF HelperStep
<1> QED
  BY <1>2, <1>3

-----------------------------------------------------------------------------
(* The host's side. *)

\* The captures whose frame the host expects.
Expected == {controller.capture.sequence} \cup controller.ignored

SocketInv ==
    /\ HeldUnderLease
    /\ AllFlushed /\ Present => Tidy(Channel, Expected)

\* A step after which there is nothing new in the socket of the same helper.
LEMMA PassesKeep ==
    ASSUME SocketInv,
           Present' => Present /\ Passes(Channel, Expected, Channel', Expected'),
           Leased => Leased', lost' = lost
    PROVE  SocketInv'
PROOF
  BY DEF SocketInv, HeldUnderLease, Passes, AllFlushed

\* A helper that does nothing passes.
LEMMA SelfPasses ==
    ASSUME NEW h, NEW E, NEW F, E \subseteq F
    PROVE  Passes(h, E, h, F)
PROOF
  BY AmongOthers DEF Passes, Tidy

\* One step after another, each of them passing.
LEMMA PassesOn ==
    ASSUME NEW h, NEW k, NEW l, NEW E, NEW F, NEW G,
           Passes(h, E, k, F), Passes(k, F, l, G)
    PROVE  Passes(h, E, l, G)
PROOF
  BY DEF Passes

\* A message about no key, and if it is a request with a number that is not in use.
LEMMA SentPasses ==
    ASSUME NEW h \in HelperRecord, NEW m \in Commands, NEW E, m.type \notin Deciding,
           \/ m.type = "CAPTURE_CANCEL"
           \/ m.sequence \notin InFlight(h) /\ (m.type = "CAPTURE" => m.sequence \in E)
    PROVE  Passes(h, E, Sent(h, m), E)
PROOF
<1> DEFINE k == Sent(h, m)
<1>1. h.inbox \in Seq(Commands)
  BY DEF HelperRecord
<1>2. CASE ~Accepts(h)
  BY <1>2, SelfPasses DEF Sent
<1>3. CASE Accepts(h)
  <2>1. /\ k.inbox = Append(h.inbox, m) /\ k.held = h.held
        /\ k.outbox = h.outbox /\ k.capture = h.capture
    BY <1>3 DEF Sent, HelperRecord
  <2> HIDE DEF k
  <2>2. HeldInTheEnd(k) => HeldInTheEnd(h)
    BY <2>1, HeldAfter
  <2>3. ASSUME Tidy(h, E) PROVE Tidy(k, E)
    <3>1. m.sequence \notin InFlight(h) => Fresh(h.inbox, h.outbox, h.capture, m.sequence)
      BY DEF InFlight, Fresh, Requests, Verdicts
    <3> QED
      BY <1>1, <2>1, <2>3, <3>1, InboxGrows DEF Tidy
  <2> QED
    BY <2>2, <2>3 DEF Passes, k
<1> QED
  BY <1>2, <1>3

\* RELEASE_ALL lets go of everything, unless it finds no room.
LEMMA ReleasePasses ==
    ASSUME NEW h \in HelperRecord, NEW E
    PROVE  /\ Passes(h, E, Sent(h, ReleaseAll), E)
           /\ Accepts(h) => ~HeldInTheEnd(Sent(h, ReleaseAll))
PROOF
<1> DEFINE k == Sent(h, ReleaseAll)
<1>1. h.inbox \in Seq(Commands) /\ ReleaseAll \in Commands /\ ReleaseAll.type = "RELEASE_ALL"
  BY ReleaseAllTyped DEF HelperRecord, ReleaseAll, Message
<1>2. CASE ~Accepts(h)
  BY <1>2, SelfPasses DEF Sent
<1>3. CASE Accepts(h)
  <2>1. /\ k.inbox = Append(h.inbox, ReleaseAll) /\ k.held = h.held
        /\ k.outbox = h.outbox /\ k.capture = h.capture
    BY <1>3 DEF Sent, HelperRecord
  <2> HIDE DEF k
  <2>2. ~HeldInTheEnd(k)
    BY <1>1, <2>1, HeldAfter
  <2>3. Tidy(h, E) => Tidy(k, E)
    BY <1>1, <2>1, InboxGrows DEF Tidy
  <2> QED
    BY <2>2, <2>3 DEF Passes, k
<1> QED
  BY <1>2, <1>3

\* Cancelling a capture, if there is one.
LEMMA CancelPasses ==
    ASSUME NEW h \in HelperRecord, NEW c \in ControllerRecord, NEW E
    PROVE  Passes(h, E, CancelSent(h, c), E)
PROOF
<1>1. CASE c.capture = NoCapture
  BY <1>1, SelfPasses DEF CancelSent
<1>2. CASE c.capture # NoCapture
  <2> DEFINE m == Message("CAPTURE_CANCEL", c.capture.sequence)
  <2>1. m \in Commands /\ m.type = "CAPTURE_CANCEL"
    BY <1>2, CaptureTyped DEF Message, Commands
  <2>2. CancelSent(h, c) = Sent(h, m)
    BY <1>2 DEF CancelSent
  <2> HIDE DEF m
  <2> QED
    BY <2>1, <2>2, SentPasses DEF Deciding
<1> QED
  BY <1>1, <1>2

\* What a listener says to the helper: what is held was lost or is let go.
LEMMA RevokePasses ==
    ASSUME IInv, SocketInv, NEW released \in BOOLEAN, NEW cancelled \in BOOLEAN,
           Revoke(released, cancelled),
           released \/ (Leased => Leased')
    PROVE  SocketInv'
PROOF
<1>1. CASE ~Present
  <2>1. UNCHANGED <<controller, helper, lost>>
    BY <1>1 DEF Revoke, hostVars
  <2>2. ~Present'
    BY <1>1, <2>1 DEF Present
  <2> QED
    BY <2>2 DEF SocketInv, HeldUnderLease
<1>2. CASE Present
  <2> DEFINE h == Channel
             r == IF released THEN Sent(h, ReleaseAll) ELSE h
             k == IF cancelled THEN CancelSent(r, controller) ELSE r
  <2>1. controller.pid \in Pids /\ h \in HelperRecord /\ controller \in ControllerRecord
    BY <1>2, PresentPid DEF IInv, TypeOK, Channel
  <2>2. /\ controller'.pid = controller.pid
        /\ helper' = [helper EXCEPT ![controller.pid] = k]
        /\ lost' = IF released THEN ~Accepts(h) ELSE lost
    <3>1. helper' = [helper EXCEPT ![controller.pid] = k]
      BY <1>2 DEF Revoke, Channel
    <3> QED
      BY <1>2, <3>1, RevokeEffect DEF Revoke
  <2>3. Channel' = k
    <3> HIDE DEF k
    <3> QED
      BY <2>1, <2>2 DEF Channel, IInv, TypeOK
  <2>4. Expected \subseteq Expected'
    <3>1. /\ controller' = (LET c == IF released THEN WithoutInputs(controller) ELSE controller
                            IN  IF cancelled THEN WithoutCapture(c) ELSE c)
      BY <1>2 DEF Revoke
    <3>2. \A c \in {controller, WithoutInputs(controller)} :
              c.capture = controller.capture /\ c.ignored = controller.ignored
      BY <2>1 DEF WithoutInputs, ControllerRecord
    <3>3. PICK c \in {controller, WithoutInputs(controller)} :
              controller' = IF cancelled THEN WithoutCapture(c) ELSE c
      BY <3>1
    <3>4. c \in ControllerRecord
      BY <2>1 DEF WithoutInputs, ControllerRecord
    <3>5. CASE controller' = c
      BY <3>2, <3>5 DEF Expected
    <3>6. CASE controller' = WithoutCapture(c) /\ c.capture # NoCapture
      <4>1. controller'.ignored = c.ignored \cup {c.capture.sequence}
        BY <3>4, <3>6 DEF WithoutCapture, ControllerRecord
      <4> QED
        BY <3>2, <4>1 DEF Expected
    <3> QED
      BY <3>3, <3>5, <3>6 DEF WithoutCapture
  <2>5. r \in HelperRecord /\ Passes(h, Expected, r, Expected)
          /\ (released /\ Accepts(h) => ~HeldInTheEnd(r))
    BY <2>1, ReleaseAllTyped, SentTyped, ReleasePasses, SelfPasses
  <2>6. Passes(r, Expected, k, Expected)
    <3> HIDE DEF r
    <3> QED
      BY <2>1, <2>5, CancelPasses, SelfPasses
  <2>7. Passes(k, Expected, k, Expected')
    BY <2>4, SelfPasses
  <2> HIDE DEF r, k
  <2>8. Passes(h, Expected, k, Expected') /\ (released /\ Accepts(h) => ~HeldInTheEnd(k))
    BY <2>5, <2>6, <2>7 DEF Passes
  <2>9. CASE released
    BY <1>2, <2>2, <2>3, <2>8, <2>9 DEF SocketInv, HeldUnderLease, Passes, AllFlushed
  <2>10. CASE ~released
    BY <1>2, <2>2, <2>3, <2>8, <2>10, PassesKeep
  <2> QED
    BY <2>9, <2>10
<1> QED
  BY <1>1, <1>2

\* Without a controller nothing is promised.
LEMMA AbsentKeeps == ~Present' => SocketInv'
PROOF
  BY DEF SocketInv, HeldUnderLease

\* The realm's steps.
LEMMA RealmStepKeeps ==
    ASSUME IInv, SocketInv, RealmStep
    PROVE  SocketInv'
PROOF
<1>1. CASE RealmStarts \/ Resume \/ RealmDestroyed \/ Observe \/ Grant \/ GrantPointer
  <2>1. UNCHANGED <<controller, helper, lost>>
    BY <1>1 DEF RealmStarts, Resume, RealmDestroyed, Observe, Grant, GrantPointer, hostVars
  <2>2. Leased => Leased'
    BY <1>1 DEF RealmStarts, Resume, RealmDestroyed, Observe, Grant, GrantPointer, Leased, realmVars,
                Contract!Start, Contract!Resume, Contract!Observe, Contract!Grant
  <2>3. Present' => Present /\ Passes(Channel, Expected, Channel', Expected')
    <3>1. Present' <=> Present
      BY <2>1 DEF Present
    <3>2. Channel' = Channel /\ Expected' = Expected
      BY <2>1 DEF Channel, Expected
    <3> QED
      BY <3>1, <3>2, SelfPasses
  <2> QED
    BY <2>1, <2>2, <2>3, PassesKeep
<1>2. CASE HandOver
  <2>1. (owner' # "AGENT") \in BOOLEAN /\ Revoke(owner' # "AGENT", FALSE)
    BY <1>2 DEF HandOver
  <2>2. owner' = "AGENT" => (Leased => Leased')
    BY <1>2 DEF HandOver, Contract!HandOver, Leased
  <2> QED
    BY <2>1, <2>2, RevokePasses
<1>3. CASE Pause \/ RevokeInput
  <2>1. Revoke(TRUE, TRUE) \/ Revoke(TRUE, FALSE)
    BY <1>3 DEF Pause, RevokeInput
  <2> QED
    BY <2>1, RevokePasses
<1>4. CASE RealmStops
  <2>1. Revoke(owner # "NONE", observable) /\ observable \in BOOLEAN /\ (owner # "NONE") \in BOOLEAN
    BY <1>4 DEF RealmStops, IInv, TypeOK
  <2>2. owner = "NONE" => ~Leased
    BY DEF Leased
  <2> QED
    BY <2>1, <2>2, RevokePasses
<1>5. CASE Unobserve \/ RevokeObserve
  <2>1. Revoke(FALSE, observable) \/ Revoke(FALSE, TRUE)
    BY <1>5 DEF Unobserve, RevokeObserve
  <2>2. Leased => Leased'
    BY <1>5 DEF Unobserve, RevokeObserve, Contract!Unobserve, Contract!Revoke, Leased
  <2>3. observable \in BOOLEAN
    BY DEF IInv, TypeOK
  <2> QED
    BY <2>1, <2>2, <2>3, RevokePasses
<1>6. CASE RealmEnds
  <2>1. ~Present'
    BY <1>6, StopEffect DEF RealmEnds, Present, NoController
  <2> QED
    BY <2>1, AbsentKeeps
<1>7. CASE StartFails \/ \E p \in Pids : StartFailsLate(p)
  <2>1. ~Present /\ controller' = controller
    BY <1>7 DEF StartFails, StartFailsLate, RealmRuns, Contract!BecomeReady, Alive, IInv, ControlledOrFailed
  <2> QED
    BY <2>1, AbsentKeeps DEF Present
<1>8. ASSUME NEW p \in Pids, StartController(p)
      PROVE  SocketInv'
  <2>1. controller'.pid = p /\ helper' = [helper EXCEPT ![p] = Launched]
    BY <1>8, NullsTyped DEF StartController, ControllerRecord
  <2>2. Channel' = Launched
    BY <2>1 DEF Channel, IInv, TypeOK
  <2>3. Launched.inbox = << >> /\ Launched.outbox = << >> /\ Launched.capture = 0 /\ Launched.held = FALSE
    BY DEF Launched, NoHelper
  <2>4. DOMAIN << >> = {}
    OBVIOUS
  <2>5. ~HeldInTheEnd(Launched)
    BY <2>3, <2>4 DEF HeldInTheEnd
  <2>6. \A E : Tidy(Launched, E)
    BY <2>3, <2>4 DEF Tidy, Orderly, Once, Among, Requests, Verdicts
  <2> QED
    BY <2>2, <2>5, <2>6 DEF SocketInv, HeldUnderLease
<1> QED
  BY <1>1, <1>2, <1>3, <1>4, <1>5, <1>6, <1>7, <1>8 DEF RealmStep

\* A request: an input under the lease, or a capture with a number of its own.
LEMMA RequestPasses ==
    ASSUME IInv, SocketInv, RequestInput \/ RequestCapture
    PROVE  SocketInv'
PROOF
<1>1. Present /\ controller.pid \in Pids /\ Channel \in HelperRecord /\ controller \in ControllerRecord
  <2>1. Present
    BY DEF RequestInput, SendInput, MayInput, RequestCapture, MayCapture
  <2> QED
    BY <2>1, PresentPid DEF IInv, TypeOK, Channel
<1>2. CASE RequestInput
  <2>1. PICK type \in Inputs, s \in Free :
            /\ controller' = [controller EXCEPT !.inputs = @ \cup {s}]
            /\ helper' = [helper EXCEPT ![controller.pid] = Sent(@, Message(type, s))]
            /\ MayInput /\ UNCHANGED realmVars
    BY <1>2 DEF RequestInput, SendInput
  <2> DEFINE m == Message(type, s)
             k == Sent(Channel, m)
  <2>2. /\ m \in Commands /\ m.type \notin {"CAPTURE_CANCEL", "CAPTURE", "RELEASE_ALL"}
        /\ m.sequence = s
    BY <2>1, InputAssumption DEF InputAssumption, InputTypes, Commands, Message, Free
  <2>3. Channel' = k /\ Expected' = Expected /\ Leased' /\ controller'.pid = controller.pid
    <3>1. controller'.pid = controller.pid /\ Expected' = Expected
      BY <1>1, <2>1 DEF ControllerRecord, Expected
    <3>2. Channel' = k
      BY <1>1, <2>1, <3>1 DEF Channel, IInv, TypeOK
    <3>3. Leased'
      BY <2>1 DEF MayInput, Leased, realmVars
    <3> QED
      BY <3>1, <3>2, <3>3
  <2>4. ASSUME Tidy(Channel, Expected) PROVE Tidy(k, Expected)
    <3>1. CASE ~Accepts(Channel)
      BY <2>4, <3>1 DEF Sent
    <3>2. CASE Accepts(Channel)
      <4>1. /\ k.inbox = Append(Channel.inbox, m)
            /\ k.outbox = Channel.outbox /\ k.capture = Channel.capture
        BY <1>1, <3>2 DEF Sent, HelperRecord
      <4>2. Fresh(Channel.inbox, Channel.outbox, Channel.capture, s)
        BY <2>1 DEF Free, InFlight, Fresh, Requests, Verdicts
      <4>3. Channel.inbox \in Seq(Commands)
        BY <1>1 DEF HelperRecord
      <4> HIDE DEF k, m
      <4> QED
        BY <2>2, <2>4, <4>1, <4>2, <4>3, InboxGrows DEF Tidy
    <3> QED
      BY <3>1, <3>2
  <2> HIDE DEF k
  <2> QED
    BY <1>1, <2>3, <2>4 DEF SocketInv, HeldUnderLease
<1>3. CASE RequestCapture
  <2>1. PICK s \in Free :
            /\ controller' = [controller EXCEPT !.capture =
                                 [sequence |-> s, attempts |-> 1, overdue |-> FALSE]]
            /\ helper' = [helper EXCEPT ![controller.pid] = Sent(@, Message("CAPTURE", s))]
            /\ MayCapture /\ UNCHANGED realmVars /\ lost' = lost
    BY <1>3 DEF RequestCapture
  <2> DEFINE m == Message("CAPTURE", s)
             k == Sent(Channel, m)
  <2>2. m \in Commands /\ m.type = "CAPTURE" /\ m.sequence = s /\ s \notin InFlight(Channel)
    BY <2>1 DEF Commands, Message, Free
  <2>3. /\ controller'.pid = controller.pid
        /\ Expected' = {s} \cup controller.ignored
        /\ Expected \subseteq Expected' \cup {0}
    BY <1>1, <2>1 DEF ControllerRecord, Expected, MayCapture, Capturing, NoCapture
  <2>4. Channel' = k
    BY <1>1, <2>1, <2>3 DEF Channel, IInv, TypeOK
  <2>5. Passes(Channel, Expected, Channel, Expected')
    <3>1. ASSUME Tidy(Channel, Expected) PROVE Tidy(Channel, Expected')
      <4>1. \A i \in DOMAIN Channel.inbox : Channel.inbox[i].type = "CAPTURE" =>
                Channel.inbox[i].sequence # 0
        <5>1. \A i \in DOMAIN Channel.inbox : Channel.inbox[i] \in Commands
          BY <1>1, ElementOfSeq, LenProperties DEF HelperRecord
        <5> QED
          BY <5>1, NumbersAssumption DEF NumbersAssumption, Commands, ReleaseAll, Message
      <4>2. \A i \in DOMAIN Channel.outbox : Channel.outbox[i].type = "CAPTURE_READY" =>
                Channel.outbox[i].sequence # 0
        <5>1. \A i \in DOMAIN Channel.outbox : Channel.outbox[i] \in Answers
          BY <1>1, ElementOfSeq, LenProperties DEF HelperRecord
        <5> QED
          BY <5>1, NumbersAssumption DEF NumbersAssumption, Answers, Message
      <4> QED
        BY <2>3, <3>1, <4>1, <4>2 DEF Tidy, Orderly, Among
    <3> QED
      BY <3>1 DEF Passes
  <2>6. Passes(Channel, Expected', k, Expected')
    BY <1>1, <2>2, <2>3, SentPasses DEF Deciding
  <2>7. Leased => Leased'
    BY <2>1 DEF Leased, realmVars
  <2> HIDE DEF k
  <2>8. Passes(Channel, Expected, Channel', Expected')
    BY <2>4, <2>5, <2>6, PassesOn
  <2> QED
    BY <1>1, <2>1, <2>7, <2>8, PassesKeep
<1> QED
  BY <1>2, <1>3

\* A message is read: the numbers that are no longer expected are free.
LEMMA TookPasses ==
    ASSUME IInv, SocketInv, NEW type, NEW s, Reads(type, s), NEW c, NEW waiting, Took(c, waiting),
           c.pid = controller.pid,
           LET E == {c.capture.sequence} \cup c.ignored
           IN  \/ Expected \subseteq E
               \/ type \in {"ERROR", "CAPTURE_READY"} /\ Expected \ {s} \subseteq E
    PROVE  SocketInv'
PROOF
<1>1. Present /\ controller.pid \in Pids /\ Channel \in HelperRecord /\ Channel.outbox # << >>
  BY PresentPid DEF IInv, TypeOK, Channel, Reads
<1> DEFINE k == [Channel EXCEPT !.outbox = Tail(@)]
<1>2. Channel' = k /\ controller' = c /\ UNCHANGED <<realmVars, lost>>
  BY <1>1 DEF Took, Channel, IInv, TypeOK
<1>3. /\ k.inbox = Channel.inbox /\ k.held = Channel.held /\ k.capture = Channel.capture
      /\ k.outbox = Tail(Channel.outbox)
  BY <1>1 DEF HelperRecord
<1> HIDE DEF k
<1>4. ASSUME Tidy(Channel, Expected) PROVE Tidy(k, Expected')
  <2>1. Channel.outbox \in Seq(Answers)
    BY <1>1 DEF HelperRecord
  <2>2. Head(Channel.outbox).type = type /\ Head(Channel.outbox).sequence = s
    BY DEF Reads, Message
  <2>3. /\ Orderly(k.inbox, k.outbox, k.capture, Expected)
        /\ type \in {"ERROR", "CAPTURE_READY"} => Fresh(k.inbox, k.outbox, k.capture, s)
    BY <1>1, <1>3, <1>4, <2>1, <2>2, OutboxTaken DEF Tidy
  <2>4. Expected' = {c.capture.sequence} \cup c.ignored
    BY <1>2 DEF Expected
  <2> QED
    BY <2>3, <2>4, AmongOthers DEF Tidy
<1>5. Passes(Channel, Expected, Channel', Expected')
  BY <1>2, <1>3, <1>4, HeldSame DEF Passes
<1>6. Leased => Leased'
  BY <1>2 DEF Leased, realmVars
<1> QED
  BY <1>1, <1>2, <1>5, <1>6, PassesKeep

\* readController and handleControllerEvent.
LEMMA ReadPasses ==
    ASSUME IInv, SocketInv, Read
    PROVE  SocketInv'
PROOF
<1>0. controller \in ControllerRecord
  BY DEF IInv, TypeOK
<1>1. CASE ReadReady
  <2>1. \A c : c = [controller EXCEPT !.ready = TRUE] =>
            c.pid = controller.pid /\ c.capture = controller.capture /\ c.ignored = controller.ignored
    BY <1>0 DEF ControllerRecord
  <2> QED
    BY <1>1, <2>1, TookPasses DEF ReadReady, Expected
<1>2. CASE ReadEndOfFile \/ \E s \in Numbers : ReadUnexpected(s)
  <2>1. ~Present'
    BY <1>2 DEF ReadEndOfFile, ReadUnexpected, Detach, Present, NoController
  <2> QED
    BY <2>1, AbsentKeeps
<1>3. ASSUME NEW s \in Numbers, NEW type \in {"ERROR", "INPUT_APPLIED"}, ReadInputAnswer(type, s)
      PROVE  SocketInv'
  <2>1. \A c : c = [controller EXCEPT !.inputs = @ \ {s}, !.late = @ \ {s}] =>
            c.pid = controller.pid /\ c.capture = controller.capture /\ c.ignored = controller.ignored
    BY <1>0 DEF ControllerRecord
  <2> QED
    BY <1>3, <2>1, TookPasses DEF ReadInputAnswer, Expected
<1>4. ASSUME NEW s \in Numbers, NEW type \in {"ERROR", "CAPTURE_READY"}, ReadCaptureAnswer(type, s)
      PROVE  SocketInv'
  <2> DEFINE c == [controller EXCEPT !.capture = NoCapture]
  <2>1. c.pid = controller.pid /\ c.ignored = controller.ignored
    BY <1>0 DEF ControllerRecord
  <2>2. Expected \ {s} \subseteq {c.capture.sequence} \cup c.ignored
    BY <1>4, <2>1 DEF ReadCaptureAnswer, Expected
  <2>3. Reads(type, s) /\ \E waiting : Took(c, waiting)
    BY <1>4 DEF ReadCaptureAnswer
  <2> HIDE DEF c
  <2> QED
    BY <2>1, <2>2, <2>3, TookPasses
<1>5. ASSUME NEW s \in Numbers, NEW type \in {"ERROR", "INPUT_APPLIED", "CAPTURE_READY"},
             ReadStale(type, s)
      PROVE  SocketInv'
  <2>1. CASE type = "INPUT_APPLIED"
    BY <1>5, <2>1, TookPasses DEF ReadStale, Expected
  <2>2. CASE type # "INPUT_APPLIED"
    <3> DEFINE c == [controller EXCEPT !.ignored = @ \ {s}]
    <3>1. c.pid = controller.pid /\ c.capture = controller.capture /\ c.ignored = controller.ignored \ {s}
      BY <1>0 DEF ControllerRecord
    <3>2. Reads(type, s) /\ Took(c, awaited)
      BY <1>5, <2>2 DEF ReadStale
    <3>3. Expected \ {s} \subseteq {c.capture.sequence} \cup c.ignored
      BY <3>1 DEF Expected
    <3> HIDE DEF c
    <3> QED
      BY <2>2, <3>1, <3>2, <3>3, TookPasses
  <2> QED
    BY <2>1, <2>2
<1> QED
  BY <1>1, <1>2, <1>3, <1>4, <1>5 DEF Read

\* The end of dispatchMaintenance: at most the helper is reaped.
LEMMA MaintainedPasses ==
    ASSUME IInv, SocketInv, NEW c \in ControllerRecord, NEW h \in HelperRecord,
           c.pid = controller.pid,
           \/ Maintained(c, helper) /\ h = Channel
           \/ Maintained(c, [helper EXCEPT ![controller.pid] = h]),
           Present => Passes(Channel, Expected, h, {c.capture.sequence} \cup c.ignored)
    PROVE  SocketInv'
PROOF
<1>1. CASE ~Present
  BY <1>1, AbsentKeeps DEF Maintained, Present
<1>2. CASE Present
  <2>1. controller.pid \in Pids /\ helper \in Helpers
    BY <1>2, PresentPid DEF IInv, TypeOK, Helpers
  <2>2. PICK states \in Helpers : Maintained(c, states) /\ states[controller.pid] = h
    <3>1. CASE Maintained(c, helper) /\ h = Channel
      BY <2>1, <3>1 DEF Channel
    <3>2. CASE Maintained(c, [helper EXCEPT ![controller.pid] = h])
      <4> DEFINE states == [helper EXCEPT ![controller.pid] = h]
      <4>1. states \in Helpers /\ states[controller.pid] = h
        BY <2>1 DEF Helpers
      <4>2. Maintained(c, states)
        BY <3>2
      <4> HIDE DEF states
      <4> QED
        BY <4>1, <4>2
    <3> QED
      BY <3>1, <3>2
  <2>3. controller' = c /\ Reap(states, reaping) /\ UNCHANGED <<realmVars, lost>>
    BY <2>2 DEF Maintained
  <2>4. Channel' = h \/ Channel' = NoHelper
    BY <2>1, <2>2, <2>3 DEF Reap, Channel
  <2>5. Expected' = {c.capture.sequence} \cup c.ignored
    BY <2>3 DEF Expected
  <2>6. Passes(Channel, Expected, NoHelper, Expected')
    <3>1. NoHelper.inbox = << >> /\ NoHelper.outbox = << >> /\ NoHelper.capture = 0 /\ ~NoHelper.held
      BY DEF NoHelper
    <3>2. DOMAIN << >> = {}
      OBVIOUS
    <3>3. ~HeldInTheEnd(NoHelper)
      BY <3>1, <3>2 DEF HeldInTheEnd
    <3>4. Tidy(NoHelper, Expected')
      BY <3>1, <3>2 DEF Tidy, Orderly, Once, Among, Requests, Verdicts
    <3> QED
      BY <3>3, <3>4 DEF Passes
  <2>7. Leased => Leased'
    BY <2>3 DEF Leased, realmVars
  <2> QED
    BY <1>2, <2>3, <2>4, <2>5, <2>6, <2>7, PassesKeep
<1> QED
  BY <1>1, <1>2

\* One run of the maintenance timer.
LEMMA MaintainPasses ==
    ASSUME IInv, SocketInv, Maintain
    PROVE  SocketInv'
PROOF
<1> DEFINE c == controller  w == WithoutLate(c)
<1>0. c \in ControllerRecord /\ (Present => controller.pid \in Pids /\ Channel \in HelperRecord)
  BY PresentPid DEF IInv, TypeOK, Channel
<1>1. /\ w \in ControllerRecord /\ w.pid = c.pid
      /\ w.capture = c.capture /\ w.ignored = c.ignored
  BY <1>0 DEF WithoutLate, ControllerRecord
<1> HIDE DEF w
<1>2. CASE Expire
  <2>1. CASE ~controller.capture.overdue
    <3>1. Maintained(w, helper)
      BY <1>2, <2>1 DEF Expire, w
    <3>2. \A h : Passes(h, Expected, h, {w.capture.sequence} \cup w.ignored)
      BY <1>1, SelfPasses DEF Expected
    <3>3. CASE Present
      BY <1>0, <1>1, <3>1, <3>2, <3>3, MaintainedPasses
    <3>4. CASE ~Present
      BY <1>1, <3>1, <3>4, AbsentKeeps DEF Maintained, Present
    <3> QED
      BY <3>3, <3>4
  <2>2. CASE controller.capture.overdue
    <3>1. c.capture # NoCapture /\ Present
      BY <2>2, CapturingPresent DEF NoCapture, Capturing
    <3> DEFINE v == WithoutCapture(w)
               k == CancelSent(Channel, c)
    <3>2. /\ v \in ControllerRecord /\ v.pid = c.pid /\ v.capture = NoCapture
          /\ v.ignored = c.ignored \cup {c.capture.sequence}
      <4>1. v = [w EXCEPT !.capture = NoCapture, !.ignored = @ \cup {w.capture.sequence}]
        BY <1>1, <3>1 DEF WithoutCapture
      <4>2. w.capture.sequence \in Numbers
        BY <1>1, <3>1, CaptureTyped
      <4> HIDE DEF v
      <4> QED
        BY <1>1, <4>1, <4>2, NullsTyped DEF ControllerRecord
    <3>3. Maintained(v, [helper EXCEPT ![controller.pid] = k])
      BY <1>2, <2>2 DEF Expire, Channel, w
    <3>4. k \in HelperRecord /\ Passes(Channel, Expected, k, Expected)
      BY <1>0, <3>1, CancelSentTyped, CancelPasses
    <3>5. Passes(k, Expected, k, {v.capture.sequence} \cup v.ignored)
      BY <3>2, SelfPasses DEF Expected
    <3> HIDE DEF v, k
    <3>6. Passes(Channel, Expected, k, {v.capture.sequence} \cup v.ignored)
      BY <3>4, <3>5, PassesOn
    <3> QED
      BY <3>2, <3>3, <3>4, <3>6, MaintainedPasses
  <2> QED
    BY <2>1, <2>2
<1>3. CASE RetryCapture
  <2>1. c.capture # NoCapture /\ Present /\ Channel \in HelperRecord
    BY <1>0, <1>3, CapturingPresent DEF RetryCapture, NoCapture, Capturing
  <2> DEFINE sent == CancelSent(Channel, c)
  <2>2. PICK s \in Free :
            LET again == WithoutLate(Retried(s))
            IN  Maintained(IF Accepts(sent) THEN again ELSE WithoutCapture(again),
                           [helper EXCEPT ![controller.pid] = Sent(sent, Message("CAPTURE", s))])
    BY <1>3 DEF RetryCapture, Channel
  <2> DEFINE again == WithoutLate(Retried(s))
             m == Message("CAPTURE", s)
             v == IF Accepts(sent) THEN again ELSE WithoutCapture(again)
             k == Sent(sent, m)
             F == {v.capture.sequence} \cup v.ignored
  <2>3. s \in Numbers /\ s \notin InFlight(Channel) /\ m \in Commands /\ m.type = "CAPTURE" /\ m.sequence = s
    BY DEF Free, Commands, Message
  <2>4. /\ again \in ControllerRecord /\ again.pid = c.pid /\ again.capture.sequence = s
        /\ again.ignored = c.ignored \cup {c.capture.sequence} /\ again.capture # NoCapture
    <3>1. Retried(s) \in ControllerRecord
      BY <1>0, <2>1, <2>3, RetriedTyped DEF Capturing
    <3>2. /\ Retried(s).pid = c.pid /\ Retried(s).capture.sequence = s
          /\ Retried(s).ignored = c.ignored \cup {c.capture.sequence}
      BY <1>0 DEF Retried, ControllerRecord
    <3>3. \A r \in ControllerRecord : /\ WithoutLate(r) \in ControllerRecord
                                      /\ WithoutLate(r).pid = r.pid
                                      /\ WithoutLate(r).capture = r.capture
                                      /\ WithoutLate(r).ignored = r.ignored
      BY DEF WithoutLate, ControllerRecord
    <3>4. s # 0
      BY <2>3, NumbersAssumption DEF NumbersAssumption
    <3> QED
      BY <3>1, <3>2, <3>3, <3>4 DEF NoCapture
  <2> HIDE DEF again, sent
  <2>5. /\ v \in ControllerRecord /\ v.pid = c.pid
        /\ Expected \subseteq F /\ s \in F
    <3>1. CASE v = again
      BY <2>4, <3>1 DEF Expected
    <3>2. CASE v = WithoutCapture(again)
      <4>1. v = [again EXCEPT !.capture = NoCapture, !.ignored = @ \cup {s}]
        BY <2>4, <3>2 DEF WithoutCapture
      <4>2. v \in ControllerRecord /\ v.pid = c.pid /\ v.ignored = again.ignored \cup {s}
        <5> HIDE DEF v
        <5> QED
          BY <2>3, <2>4, <4>1, NullsTyped DEF ControllerRecord
      <4> QED
        BY <2>4, <4>2 DEF Expected
    <3> QED
      BY <3>1, <3>2
  <2>6. sent \in HelperRecord /\ Passes(Channel, Expected, sent, Expected)
    BY <1>0, <2>1, CancelSentTyped, CancelPasses DEF sent
  <2>7. s \notin InFlight(sent)
    <3>1. CASE sent = Channel
      BY <2>3, <3>1
    <3>2. CASE sent # Channel
      <4>1. sent = [Channel EXCEPT !.inbox = Append(@, Message("CAPTURE_CANCEL", c.capture.sequence))]
        BY <2>1, <3>2 DEF sent, CancelSent, Sent
      <4> DEFINE q == Channel.inbox  n == Message("CAPTURE_CANCEL", c.capture.sequence)
                 t == Append(q, n)
      <4>2. q \in Seq(Commands) /\ n \in Commands /\ n.sequence = c.capture.sequence
        BY <1>0, <2>1, CaptureTyped DEF HelperRecord, Commands, Message
      <4>3. /\ sent.inbox = t /\ sent.outbox = Channel.outbox /\ sent.capture = Channel.capture
            /\ sent.acknowledgements = Channel.acknowledgements
        BY <2>1, <4>1 DEF HelperRecord
      <4>4. s # n.sequence
        BY <4>2 DEF Free
      <4> HIDE DEF q, n
      <4>5. \A i \in DOMAIN t : t[i] = n \/ (i \in DOMAIN q /\ t[i] = q[i])
        BY <4>2, Appended
      <4> HIDE DEF t
      <4> QED
        BY <2>3, <4>3, <4>4, <4>5 DEF InFlight, q
    <3> QED
      BY <3>1, <3>2
  <2> HIDE DEF m, v, F
  <2>8. k \in HelperRecord /\ Passes(sent, F, k, F)
    BY <2>3, <2>5, <2>6, <2>7, SentTyped, SentPasses DEF Deciding
  <2>9. Passes(sent, Expected, sent, F)
    BY <2>5, SelfPasses
  <2>10. Maintained(v, [helper EXCEPT ![controller.pid] = k])
    BY <2>2 DEF v, again, m
  <2> HIDE DEF k
  <2>11. Passes(Channel, Expected, k, F)
    BY <2>6, <2>8, <2>9, PassesOn
  <2> QED
    BY <2>5, <2>8, <2>10, <2>11, MaintainedPasses DEF F
<1>4. CASE ExpireStartup
  BY <1>4, AbsentKeeps DEF ExpireStartup, Present, NoController
<1> QED
  BY <1>2, <1>3, <1>4 DEF Maintain

\* A deadline that passes changes nothing of the socket.
LEMMA ClockPasses ==
    ASSUME IInv, SocketInv, Clock
    PROVE  SocketInv'
PROOF
<1>0. controller \in ControllerRecord
  BY DEF IInv, TypeOK
<1> DEFINE Same == /\ controller'.pid = controller.pid
                   /\ controller'.ignored = controller.ignored
                   /\ controller'.capture.sequence = controller.capture.sequence
                   /\ UNCHANGED <<realmVars, helper, lost>>
<1>1. Same
  <2> USE DEF UpdateController
  <2>1. CASE StartupDeadlinePasses
    BY <1>0, <2>1 DEF StartupDeadlinePasses, ControllerRecord
  <2>2. ASSUME NEW s \in Numbers, InputDeadlinePasses(s)
        PROVE  Same
    BY <1>0, <2>2 DEF InputDeadlinePasses, ControllerRecord
  <2>3. CASE CaptureDeadlinePasses
    BY <1>0, <2>3, CaptureTyped DEF CaptureDeadlinePasses, Capturing, ControllerRecord
  <2>4. CASE TimerElapses \/ \E p \in Pids : ReapDeadlinePasses(p)
    BY <2>4 DEF TimerElapses, ReapDeadlinePasses
  <2> QED
    BY <2>1, <2>2, <2>3, <2>4 DEF Clock
<1>2. Channel' = Channel /\ Expected' = Expected /\ (Present' <=> Present)
  BY <1>1 DEF Channel, Expected, Present
<1>3. Leased => Leased'
  BY <1>1 DEF Leased, realmVars
<1> QED
  BY <1>1, <1>2, <1>3, SelfPasses, PassesKeep

\* What a helper does, be it the controller's or not.
LEMMA HelperPasses ==
    ASSUME IInv, SocketInv, NEW p \in Pids, HelperStep(p)
    PROVE  SocketInv'
PROOF
<1>1. /\ Passes(helper[p], Expected, helper'[p], Expected)
      /\ \A q \in Pids \ {p} : helper'[q] = helper[q]
      /\ UNCHANGED <<realmVars, controller, lost>>
  BY HelperStepPasses DEF IInv
<1>2. Expected' = Expected /\ (Present' <=> Present) /\ (Leased => Leased')
  BY <1>1 DEF Expected, Present, Leased, realmVars
<1>3. Present => Passes(Channel, Expected, Channel', Expected)
  <2>1. Present => controller.pid \in Pids
    BY PresentPid DEF IInv
  <2> QED
    BY <1>1, <2>1, SelfPasses DEF Channel
<1> QED
  BY <1>1, <1>2, <1>3, PassesKeep

\* Every step keeps the order in the socket.
LEMMA SocketKept == IInv /\ SocketInv /\ [Next]_vars => SocketInv'
PROOF
<1> SUFFICES ASSUME IInv, SocketInv, [Next]_vars PROVE SocketInv'
  OBVIOUS
<1>1. CASE Destroy
  BY <1>1, AbsentKeeps DEF Destroy, Present, NoController
<1>2. CASE UNCHANGED vars
  <2>1. Channel' = Channel /\ Expected' = Expected /\ (Present' <=> Present) /\ (Leased => Leased')
          /\ lost' = lost
    BY <1>2 DEF vars, realmVars, hostVars, Channel, Expected, Present, Leased
  <2> QED
    BY <2>1, SelfPasses, PassesKeep
<1> QED
  BY <1>1, <1>2, RealmStepKeeps, RequestPasses, ReadPasses, MaintainPasses, ClockPasses, HelperPasses
  DEF Next

\* SocketInv holds beside the inductive invariant of RealmInputControllerProofs:
\* nothing is held without the human's lease and, where the helper flushes every answer,
\* the frames and errors in the socket are those of captures that the host expects.
THEOREM SocketInvariance == Spec => [](IInv /\ SocketInv)
PROOF
<1>1. Init => SocketInv
  BY DEF Init, NoController, SocketInv, HeldUnderLease, Present
<1>2. IInv /\ SocketInv /\ [Next]_vars => (IInv /\ SocketInv)'
  BY NextKeeps, SocketKept
<1> QED
  BY <1>1, <1>2, InitKeeps, PTL DEF Spec

\* However lease, capability and phase end, no key or button stays held beyond
\* the lease, except where the RELEASE_ALL found the socket full.
THEOREM HeldUnderTheLease == Spec => []HeldUnderLease
PROOF
<1>1. SocketInv => HeldUnderLease
  BY DEF SocketInv
<1> QED
  BY <1>1, SocketInvariance, PTL

\* No order of cancellations, retries, errors and late frames makes the host
\* take a frame for a fault of the helper, as long as the helper's connection
\* takes everything that is written to it.
THEOREM FramesExpected ==
    ASSUME AllFlushed
    PROVE  Spec => []FramesAreExpected
PROOF
<1>1. IInv /\ SocketInv => FramesAreExpected
  <2> SUFFICES ASSUME IInv, SocketInv, Present
               PROVE  Underway \subseteq {0, controller.capture.sequence} \cup controller.ignored
    BY DEF FramesAreExpected
  <2> QED
    BY DEF SocketInv, Tidy, Orderly, Among, Expected, Underway
<1> QED
  BY <1>1, SocketInvariance, PTL
=============================================================================
