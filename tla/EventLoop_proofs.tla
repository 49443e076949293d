-------------------------- MODULE EventLoop_proofs --------------------------
(***************************************************************************)
(* Proofs about EventLoop, for every value of its constants.               *)
(***************************************************************************)
EXTENDS EventLoop, SequenceTheorems, TLAPS

-----------------------------------------------------------------------------
(* Type correctness.  TypeOK is inductive.                                  *)

LEMMA ConcatType ==
  ASSUME NEW S, NEW s \in Seq(S), NEW t \in Seq(S)
  PROVE  s \o t \in Seq(S)
OBVIOUS

LEMMA TailType ==
  ASSUME NEW S, NEW s \in Seq(S), s # <<>>
  PROVE  Head(s) \in S /\ Tail(s) \in Seq(S)
OBVIOUS

LEMMA ShortType ==
  ASSUME NEW S, NEW x \in S, NEW y \in S
  PROVE  <<x>> \in Seq(S) /\ <<x, y>> \in Seq(S)
OBVIOUS

LEMMA FramesType ==
  ASSUME NEW m \in Message, NEW split \in BOOLEAN, NEW long \in BOOLEAN
  PROVE  Frames(m, split, long) \in Seq(FrameSet)
<1>1. <<m, 1>> \in Half /\ <<m, 2>> \in Half
  BY DEF Half
<1>2. <<<<m, 1>>>> \in Seq(Half) /\ <<<<m, 2>>>> \in Seq(Half) /\ Body(m) \in Seq(Half)
  BY <1>1 DEF Body
<1>3. /\ Frame(FALSE, long, <<<<m, 1>>>>) \in FrameSet
      /\ Frame(TRUE, long, <<<<m, 2>>>>) \in FrameSet
      /\ Frame(TRUE, long, Body(m)) \in FrameSet
  BY <1>2 DEF Frame, FrameSet
<1>4. CASE split
  BY <1>3, <1>4, ShortType, Zenon DEF Frames
<1>5. CASE ~split
  BY <1>3, <1>5, ShortType, Zenon DEF Frames
<1> QED
  BY <1>4, <1>5

LEMMA TypeInit == Init => TypeOK
<1> SUFFICES ASSUME Init PROVE TypeOK
  OBVIOUS
<1>1. NoHeader \in Message
  BY DEF NoHeader, Message
<1>2. 0 \in 0 .. MaxSend
  BY EventLoopAssumption DEF EventLoopAssumption
<1>3. <<>> \in Seq(FrameSet) /\ <<>> \in Seq(Half) /\ <<>> \in Seq(Nat)
  OBVIOUS
<1> QED
  BY <1>1, <1>2, <1>3 DEF Init, TypeOK, Labels

\* The environment adds well-formed frames or takes some away.
LEMMA EnvironmentType ==
  ASSUME TypeOK, Environment
  PROVE  TypeOK'
<1> USE EventLoopAssumption DEF EventLoopAssumption
<1>1. ASSUME NEW f \in SplitText, SendText(f) PROVE TypeOK'
  <2> DEFINE m == [what |-> "text", op |-> "none", n |-> sent']
  <2>1. sent' \in 0 .. MaxSend
    BY <1>1 DEF SendText, TypeOK
  <2>2. m \in Message
    BY <2>1 DEF Message
  <2>3. Frames(m, f, FALSE) \in Seq(FrameSet)
    BY <2>2, FramesType
  <2>4. link' \in Seq(FrameSet)
    <3>1. link' = link \o Frames(m, f, FALSE) /\ link \in Seq(FrameSet)
      BY <1>1, Zenon DEF SendText, TypeOK
    <3> QED
      BY <2>3, <3>1, ConcatType
  <2> QED
    BY <1>1, <2>1, <2>4 DEF SendText, TypeOK, session, reader
<1>2. ASSUME NEW op \in Operations, NEW fh \in SplitText, NEW fp \in SplitPayload,
             NEW l \in Long, SendEvent(op, fh, fp, l)
      PROVE  TypeOK'
  <2> DEFINE h == [what |-> "header", op |-> op, n |-> sent']
             p == [what |-> "payload", op |-> op, n |-> sent']
  <2>1. sent' \in 0 .. MaxSend
    BY <1>2 DEF SendEvent, TypeOK
  <2>2. h \in Message /\ p \in Message
    BY <2>1 DEF Message
  <2>3. Frames(h, fh, FALSE) \in Seq(FrameSet) /\ Frames(p, fp, l) \in Seq(FrameSet)
    BY <2>2, FramesType
  <2>4. link' \in Seq(FrameSet)
    <3>1. /\ link' = link \o Frames(h, fh, FALSE) \o Frames(p, fp, l)
          /\ link \in Seq(FrameSet)
      BY <1>2, Zenon DEF SendEvent, TypeOK
    <3>2. link \o Frames(h, fh, FALSE) \in Seq(FrameSet)
      BY <2>3, <3>1, ConcatType
    <3> QED
      BY <2>3, <3>1, <3>2, ConcatType
  <2>5. events' \in Seq(Nat)
    BY <1>2, <2>1 DEF SendEvent, TypeOK
  <2> QED
    BY <1>2, <2>1, <2>4, <2>5 DEF SendEvent, TypeOK, session, reader
<1>3. ASSUME NEW kind \in CloseKinds, SendClose(kind) PROVE TypeOK'
  <2>1. CloseFrame(kind) \in FrameSet
    BY DEF CloseFrame, FrameSet
  <2> QED
    BY <1>3, <2>1 DEF SendClose, TypeOK, session, reader
<1>4. ASSUME Arrive PROVE TypeOK'
  <2>1. /\ Tail(link) \in Seq(FrameSet)
        /\ Append(inbox, Head(link)) \in Seq(FrameSet)
    BY <1>4, TailType DEF Arrive, TypeOK
  <2> QED
    BY <1>4, <2>1 DEF Arrive, TypeOK, session, reader
<1>5. ASSUME Lose PROVE TypeOK'
  BY <1>5 DEF Lose, TypeOK, session, reader
<1>6. ASSUME OthersSwitch PROVE TypeOK'
  BY <1>6 DEF OthersSwitch, TypeOK, environment, reader
<1> QED
  BY <1>1, <1>2, <1>3, <1>4, <1>5, <1>6 DEF Environment

LEMMA DeliversType ==
  ASSUME TypeOK, NEW payload, Delivers(payload)
  PROVE  pc' \in {"head", "dead"} /\ pc' \in Labels /\ delivered' \in Seq(Nat)
<1>1. /\ pc' \in {"head", "dead"}
      /\ delivered' = delivered \/ delivered' = Append(delivered, header.n)
  BY Zenon DEF Delivers
<1>2. header.n \in Nat /\ delivered \in Seq(Nat)
  BY DEF TypeOK, Message
<1> QED
  BY <1>1, <1>2 DEF Labels

LEMMA ReturnsType ==
  ASSUME TypeOK, NEW payload \in Seq(Half), Returns(payload)
  PROVE  pc' \in Labels /\ header' \in Message /\ delivered' \in Seq(Nat)
<1>1. payload # <<>> => payload[1][1] \in Message
  BY DEF Half
<1>2. header \in Message /\ delivered \in Seq(Nat)
  BY DEF TypeOK
<1>3. CASE pc = "read"
  <2>1. /\ pc' \in {"payload", "head"} /\ delivered' = delivered
        /\ header' = header \/ (payload # <<>> /\ header' = payload[1][1])
    BY <1>3 DEF Returns
  <2> QED
    BY <1>1, <1>2, <2>1 DEF Labels
<1>4. CASE pc = "payload"
  <2>1. header' = header /\ Delivers(payload)
    BY <1>4 DEF Returns
  <2> QED
    BY <1>2, <2>1, DeliversType
<1> QED
  BY <1>3, <1>4 DEF Returns

\* The reader takes frames off and keeps pieces of them.
LEMMA LoopType ==
  ASSUME TypeOK, Loop
  PROVE  TypeOK'
<1> USE DEF environment, session
<1>1. CASE LoopHead
  BY <1>1 DEF LoopHead, TypeOK, Labels
<1>2. CASE ReceivePart
  <2>1. Head(inbox) \in FrameSet /\ Tail(inbox) \in Seq(FrameSet)
    BY <1>2, TailType DEF ReceivePart, Arrived, TypeOK
  <2>2. huge \o Head(inbox).body \in Seq(Half)
    BY <2>1, ConcatType DEF FrameSet, TypeOK
  <2>3. pc' \in Labels /\ header' \in Message /\ delivered' \in Seq(Nat)
    BY <1>2, DeliversType DEF ReceivePart, TypeOK
  <2> QED
    BY <1>2, <2>1, <2>2, <2>3 DEF ReceivePart, TypeOK
<1>3. CASE ReceiveWhole
  <2>1. Head(inbox) \in FrameSet /\ Tail(inbox) \in Seq(FrameSet)
    BY <1>3, TailType DEF ReceiveWhole, Arrived, TypeOK
  <2>2. huge \o Head(inbox).body \in Seq(Half)
    BY <2>1, ConcatType DEF FrameSet, TypeOK
  <2>3. pc' \in Labels /\ header' \in Message /\ delivered' \in Seq(Nat)
    BY <1>3, <2>2, ReturnsType DEF ReceiveWhole
  <2> QED
    BY <1>3, <2>1, <2>3 DEF ReceiveWhole, TypeOK
<1>4. CASE ReceiveLong
  <2>1. Tail(inbox) \in Seq(FrameSet)
    BY <1>4 DEF ReceiveLong, Arrived, TypeOK
  <2> QED
    BY <1>4, <2>1 DEF ReceiveLong, TypeOK, Labels
<1>5. CASE ReceiveClose
  <2>1. Tail(inbox) \in Seq(FrameSet)
    BY <1>5 DEF ReceiveClose, Arrived, TypeOK
  <2>2. pc' \in Labels /\ header' \in Message /\ delivered' \in Seq(Nat)
    <3>1. CASE Returns(huge)
      BY <3>1, ReturnsType DEF TypeOK
    <3>2. CASE ~Returns(huge)
      <4>1. pc' = "error" /\ UNCHANGED <<header, delivered>>
        BY <1>5, <3>2, Zenon DEF ReceiveClose
      <4> QED
        BY <4>1 DEF TypeOK, Labels
    <3> QED
      BY <3>1, <3>2
  <2> QED
    <3>1. /\ inbox' = Tail(inbox)
          /\ stream' = "null" \/ stream' = "closed" \/ stream' = stream
          /\ huge' = <<>> \/ huge' = huge
          /\ UNCHANGED <<link, server, sent, events, stopped, connected, resume, disconnects>>
      BY <1>5, Zenon DEF ReceiveClose
    <3>2. stream' \in {"open", "closed", "null"}
      BY <3>1, Zenon DEF TypeOK
    <3>3. <<>> \in Seq(Half) /\ huge \in Seq(Half)
      BY DEF TypeOK
    <3>4. huge' \in Seq(Half)
      BY <3>1, <3>3, Zenon
    <3> QED
      BY <2>1, <2>2, <3>1, <3>2, <3>4, Zenon DEF TypeOK
<1>6. CASE ReceiveNothing
  BY <1>6 DEF ReceiveNothing, TypeOK, Labels
<1>7. ASSUME NEW label \in Labels, NEW next \in {"head", "ended"}, Notify(label, next)
      PROVE  TypeOK'
  <2>1. CASE stopped
    BY <1>7, <2>1 DEF Notify, TypeOK, Labels
  <2>2. CASE ~stopped
    BY <1>7, <2>2 DEF Notify, TypeOK, Labels
  <2> QED
    BY <2>1, <2>2
<1>8. CASE OnError \/ OnCompleted
  BY <1>7, <1>8 DEF OnError, OnCompleted, Labels
<1>9. CASE Disconnect
  BY <1>9 DEF Disconnect, TypeOK, Labels
<1>10. CASE Unset
  BY <1>10 DEF Unset, TypeOK, Labels
<1>11. CASE Close
  BY <1>11 DEF Close, TypeOK, Labels
<1>12. CASE CallBack
  BY <1>12 DEF CallBack, TypeOK, Labels
<1> QED
  BY <1>1, <1>2, <1>3, <1>4, <1>5, <1>6, <1>8, <1>9, <1>10, <1>11, <1>12
  DEF Loop

\* Every variable of the event loop stays in its domain.
THEOREM LoopTypeCorrect == Spec => []TypeOK
<1>1. TypeOK /\ [Next]_vars => TypeOK'
  <2>1. TypeOK /\ UNCHANGED vars => TypeOK'
    BY DEF TypeOK, vars
  <2> QED
    BY <2>1, LoopType, EnvironmentType DEF Next
<1> QED
  BY <1>1, TypeInit, PTL DEF Spec

-----------------------------------------------------------------------------
(* The observer.  It is stopped exactly when disconnect() was called, and   *)
(* neither disconnect() nor the end of the loop is reached otherwise.       *)

Stopping == {"disconnect", "unset", "close", "callback", "ended"}

ObserverInv ==
  /\ disconnects = IF stopped THEN 1 ELSE 0
  /\ pc \in Stopping => stopped

LEMMA ObserverStep ==
  ASSUME TypeOK, ObserverInv, [Next]_vars
  PROVE  ObserverInv'
<1> USE DEF ObserverInv, Stopping
<1>1. CASE Environment
  <2>1. UNCHANGED <<pc, stopped, disconnects>>
    BY <1>1, Zenon DEF Environment, SendText, SendEvent, SendClose, Arrive, Lose,
       OthersSwitch, session, reader
  <2> QED
    BY <2>1
<1>2. CASE ReceivePart \/ ReceiveWhole \/ ReceiveClose
  <2>1. /\ UNCHANGED <<stopped, disconnects>>
        /\ pc' \in {"read", "payload", "head", "error", "dead"}
    BY <1>2 DEF ReceivePart, ReceiveWhole, ReceiveClose, Returns, Delivers, session
  <2> QED
    BY <2>1
<1>3. CASE LoopHead \/ ReceiveLong \/ ReceiveNothing
  BY <1>3 DEF LoopHead, ReceiveLong, ReceiveNothing, session
<1>4. CASE OnError \/ OnCompleted
  BY <1>4 DEF OnError, OnCompleted, Notify, TypeOK
<1>5. CASE Disconnect \/ Unset \/ Close \/ CallBack
  <2>1. stopped
    BY <1>5 DEF Disconnect, Unset, Close, CallBack
  <2> QED
    BY <1>5, <2>1 DEF Disconnect, Unset, Close, CallBack, session
<1>6. CASE UNCHANGED vars
  BY <1>6 DEF vars
<1> QED
  BY <1>1, <1>2, <1>3, <1>4, <1>5, <1>6 DEF Next, Loop

LEMMA ObserverInvariant == Spec => [](TypeOK /\ ObserverInv)
<1>1. Init => ObserverInv
  BY DEF Init, ObserverInv, Stopping
<1> QED
  BY <1>1, ObserverStep, LoopTypeCorrect, PTL DEF Spec

\* Whatever fails, the fork calls disconnect() at most once.
THEOREM DisconnectsOnce == Spec => []OneDisconnect
<1>1. ObserverInv => OneDisconnect
  BY DEF ObserverInv, OneDisconnect
<1> QED
  BY <1>1, ObserverInvariant, PTL

\* The loop does not end before the fork has called disconnect().
THEOREM EndIsReported == Spec => []EndReported
<1>1. ObserverInv => EndReported
  BY DEF ObserverInv, EndReported, Stopping
<1> QED
  BY <1>1, ObserverInvariant, PTL

\* After disconnect() no event reaches the application from this fork.
THEOREM SilentOnceDisconnected == Spec => SilentAfterDisconnect
<1>1. ASSUME ObserverInv, disconnects > 0, [Next]_vars
      PROVE  delivered' = delivered
  <2>1. stopped
    BY <1>1 DEF ObserverInv
  <2>2. CASE Environment
    BY <2>2, Zenon DEF Environment, SendText, SendEvent, SendClose, Arrive, Lose,
       OthersSwitch, reader
  <2>3. CASE Loop
    BY <2>1, <2>3 DEF Loop, LoopHead, ReceivePart, ReceiveWhole, ReceiveLong,
       ReceiveClose, ReceiveNothing, OnError, OnCompleted, Notify, Disconnect, Unset,
       Close, CallBack, Returns, Delivers
  <2> QED
    BY <1>1, <2>2, <2>3 DEF Next, vars
<1>2. ObserverInv /\ [Next]_vars => (disconnects > 0 => delivered' = delivered)
  BY <1>1
<1> QED
  BY <1>2, ObserverInvariant, PTL DEF Spec, SilentAfterDisconnect

-----------------------------------------------------------------------------
(* The frames under way.  What the reader has not read yet is the inbox and *)
(* the link behind it.  A place is where a reader may be between two frames *)
(* of the server: before the first frame of message or event n, between the *)
(* halves of a message, or between a header and its payload.                *)

Unread == inbox \o link

Place == [at : {"start", "half", "payload", "closed"}, m : Message]

Start(n) == [at |-> "start", m |-> [NoHeader EXCEPT !.n = n]]

PayloadOf(h) == [h EXCEPT !.what = "payload"]

\* The message a frame carries a piece of, and its first piece.
Carried(f) == f.body[1][1]

BodyIn(f, m) == IF f.final THEN Body(m) ELSE <<<<m, 1>>>>

\* The frames that may come at a place.
Comes(p, f) ==
  LET m == Carried(f) IN
  \/ p.at = "start" /\ f.close # "no"
  \/ /\ p.at = "start" /\ f.close = "no"
     /\ m \in Message /\ m.what \in {"text", "header"} /\ m.n = p.m.n
     /\ m.what = "text" => m.op = "none"
     /\ f.body = BodyIn(f, m)
  \/ p.at = "half" /\ f.close = "no" /\ f.final /\ f.body = <<<<p.m, 2>>>>
  \/ p.at = "payload" /\ f.close = "no" /\ f.body = BodyIn(f, PayloadOf(p.m))

\* The place behind a frame.
Behind(f) ==
  LET m == Carried(f) IN
  IF f.close # "no" THEN [Start(0) EXCEPT !.at = "closed"]
  ELSE IF ~f.final THEN [at |-> "half", m |-> m]
  ELSE IF m.what = "header" THEN [at |-> "payload", m |-> m]
  ELSE Start(m.n + 1)

\* The place behind the first i frames of s, when the first comes at p.
PlaceAt(p, s, i) == IF i = 0 THEN p ELSE Behind(s[i])
Reached(p, s) == PlaceAt(p, s, Len(s))

\* Each frame comes at the place behind the one before it.
Chain(p, s) == \A i \in 1 .. Len(s) : Comes(PlaceAt(p, s, i - 1), s[i])

LEMMA ArriveKeepsOrder ==
  ASSUME NEW S, NEW s \in Seq(S), NEW t \in Seq(S), t # <<>>
  PROVE  Append(s, Head(t)) \o Tail(t) = s \o t
<1>1. /\ Tail(t) \in Seq(S) /\ Head(t) \in S /\ Len(Tail(t)) = Len(t) - 1
      /\ \A i \in 1 .. Len(Tail(t)) : Tail(t)[i] = t[i + 1]
  BY HeadTailProperties
<1>2. Append(s, Head(t)) \in Seq(S) /\ Len(Append(s, Head(t))) = Len(s) + 1
  BY <1>1, AppendProperties
<1> DEFINE u == Append(s, Head(t)) \o Tail(t)
           v == s \o t
<1>3. /\ u \in Seq(S) /\ v \in Seq(S) /\ Len(u) = Len(s) + Len(t) /\ Len(v) = Len(s) + Len(t)
  BY <1>1, <1>2, ConcatProperties
<1>4. ASSUME NEW i \in 1 .. Len(u) PROVE u[i] = v[i]
  <2>1. v[i] = IF i <= Len(s) THEN s[i] ELSE t[i - Len(s)]
    BY <1>3, <1>4, ConcatProperties
  <2>2. u[i] = IF i <= Len(s) + 1 THEN Append(s, Head(t))[i] ELSE Tail(t)[i - (Len(s) + 1)]
    BY <1>1, <1>2, <1>3, <1>4, ConcatProperties
  <2>3. CASE i <= Len(s)
    BY <2>1, <2>2, <2>3
  <2>4. CASE i = Len(s) + 1
    BY <2>1, <2>2, <2>4
  <2>5. CASE i > Len(s) + 1
    <3>1. i - (Len(s) + 1) \in 1 .. Len(Tail(t)) /\ i - (Len(s) + 1) + 1 = i - Len(s)
      BY <1>1, <1>3, <2>5
    <3> QED
      BY <1>1, <2>1, <2>2, <2>5, <3>1
  <2> QED
    BY <2>3, <2>4, <2>5
<1> HIDE DEF u, v
<1> QED
  <2>1. u = v
    BY <1>3, <1>4, SeqEqual
  <2> QED
    BY <2>1 DEF u, v

LEMMA TailOfBoth ==
  ASSUME NEW S, NEW s \in Seq(S), NEW t \in Seq(S), s # <<>>
  PROVE  /\ s \o t # <<>> /\ Head(s \o t) = Head(s)
         /\ Tail(s) \o t = Tail(s \o t)
<1>1. /\ Tail(s) \in Seq(S) /\ Len(Tail(s)) = Len(s) - 1 /\ Len(s) > 0
      /\ \A i \in 1 .. Len(Tail(s)) : Tail(s)[i] = s[i + 1]
  BY HeadTailProperties
<1> DEFINE u == Tail(s) \o t
           v == s \o t
<1>2. v \in Seq(S) /\ Len(v) = Len(s) + Len(t) /\ v # <<>> /\ Head(v) = Head(s)
  BY <1>1, ConcatProperties
<1>3. /\ Tail(v) \in Seq(S) /\ Len(Tail(v)) = Len(v) - 1
      /\ \A i \in 1 .. Len(Tail(v)) : Tail(v)[i] = v[i + 1]
  BY <1>2, HeadTailProperties
<1>4. u \in Seq(S) /\ Len(u) = Len(Tail(v))
  BY <1>1, <1>2, <1>3, ConcatProperties
<1>5. ASSUME NEW i \in 1 .. Len(u) PROVE u[i] = Tail(v)[i]
  <2>1. u[i] = IF i <= Len(s) - 1 THEN Tail(s)[i] ELSE t[i - (Len(s) - 1)]
    BY <1>1, <1>2, <1>3, <1>4, ConcatProperties
  <2>2. Tail(v)[i] = v[i + 1] /\ i + 1 \in 1 .. Len(v)
    BY <1>2, <1>3, <1>4
  <2>3. v[i + 1] = IF i + 1 <= Len(s) THEN s[i + 1] ELSE t[i + 1 - Len(s)]
    BY <1>2, <2>2, ConcatProperties
  <2> QED
    BY <1>1, <2>1, <2>2, <2>3
<1> HIDE DEF u, v
<1>6. u = Tail(v)
  BY <1>3, <1>4, <1>5, SeqEqual
<1> QED
  BY <1>2, <1>6 DEF u, v

LEMMA ChainTail ==
  ASSUME NEW p, NEW s \in Seq(FrameSet), s # <<>>, Chain(p, s)
  PROVE  /\ Comes(p, Head(s))
         /\ Chain(Behind(Head(s)), Tail(s))
         /\ Reached(Behind(Head(s)), Tail(s)) = Reached(p, s)
<1>1. /\ Tail(s) \in Seq(FrameSet) /\ Len(Tail(s)) = Len(s) - 1 /\ Len(s) > 0
      /\ \A i \in 1 .. Len(Tail(s)) : Tail(s)[i] = s[i + 1]
  BY HeadTailProperties
<1>2. Head(s) = s[1]
  OBVIOUS
<1>3. \A i \in 0 .. Len(Tail(s)) : PlaceAt(Behind(Head(s)), Tail(s), i) = PlaceAt(p, s, i + 1)
  BY <1>1, <1>2 DEF PlaceAt
<1>4. Comes(PlaceAt(p, s, 0), s[1])
  BY <1>1 DEF Chain
<1>5. ASSUME NEW i \in 1 .. Len(Tail(s)) PROVE Comes(PlaceAt(Behind(Head(s)), Tail(s), i - 1), Tail(s)[i])
  <2>1. i + 1 \in 1 .. Len(s) /\ i - 1 \in 0 .. Len(Tail(s)) /\ (i + 1) - 1 = (i - 1) + 1
    BY <1>1
  <2>2. Comes(PlaceAt(p, s, (i + 1) - 1), s[i + 1])
    BY <2>1 DEF Chain
  <2> QED
    BY <1>1, <1>3, <2>1, <2>2
<1> QED
  BY <1>1, <1>2, <1>3, <1>4, <1>5 DEF Chain, PlaceAt, Reached

LEMMA ChainBoth ==
  ASSUME NEW p, NEW s \in Seq(FrameSet), NEW t \in Seq(FrameSet)
  PROVE  /\ Chain(p, s \o t) => Chain(p, s)
         /\ Chain(p, s) /\ Chain(Reached(p, s), t) =>
              Chain(p, s \o t) /\ Reached(p, s \o t) = Reached(Reached(p, s), t)
<1> DEFINE u == s \o t
<1>1. /\ u \in Seq(FrameSet) /\ Len(u) = Len(s) + Len(t) /\ Len(s) \in Nat /\ Len(t) \in Nat
      /\ \A i \in 1 .. Len(u) : u[i] = IF i <= Len(s) THEN s[i] ELSE t[i - Len(s)]
  BY ConcatProperties
<1> HIDE DEF u
<1>2. \A i \in 0 .. Len(s) : PlaceAt(p, u, i) = PlaceAt(p, s, i)
  BY <1>1 DEF PlaceAt
<1>3. \A j \in 0 .. Len(t) : PlaceAt(p, u, Len(s) + j) = PlaceAt(Reached(p, s), t, j)
  <2> TAKE j \in 0 .. Len(t)
  <2>1. CASE j = 0
    BY <1>1, <1>2, <2>1 DEF PlaceAt, Reached
  <2>2. CASE j > 0
    <3>1. Len(s) + j \in 1 .. Len(u) /\ ~(Len(s) + j <= Len(s)) /\ (Len(s) + j) - Len(s) = j
      BY <1>1, <2>2
    <3>2. u[Len(s) + j] = t[j]
      BY <1>1, <3>1
    <3> QED
      BY <1>1, <2>2, <3>1, <3>2 DEF PlaceAt
  <2> QED
    BY <2>1, <2>2
<1>4. ASSUME Chain(p, u) PROVE Chain(p, s)
  <2> SUFFICES ASSUME NEW i \in 1 .. Len(s) PROVE Comes(PlaceAt(p, s, i - 1), s[i])
    BY DEF Chain
  <2>1. i \in 1 .. Len(u) /\ i - 1 \in 0 .. Len(s)
    BY <1>1
  <2> QED
    BY <1>1, <1>2, <1>4, <2>1 DEF Chain
<1>5. ASSUME Chain(p, s), Chain(Reached(p, s), t) PROVE Chain(p, u)
  <2> SUFFICES ASSUME NEW i \in 1 .. Len(u) PROVE Comes(PlaceAt(p, u, i - 1), u[i])
    BY DEF Chain
  <2>1. CASE i <= Len(s)
    <3>1. i \in 1 .. Len(s) /\ i - 1 \in 0 .. Len(s)
      BY <1>1, <2>1
    <3> QED
      BY <1>1, <1>2, <1>5, <2>1, <3>1 DEF Chain
  <2>2. CASE i > Len(s)
    <3> DEFINE j == i - Len(s)
    <3>1. j \in 1 .. Len(t) /\ j - 1 \in 0 .. Len(t) /\ i - 1 = Len(s) + (j - 1)
      BY <1>1, <2>2
    <3>2. Comes(PlaceAt(Reached(p, s), t, j - 1), t[j])
      BY <1>5, <3>1 DEF Chain
    <3>3. u[i] = t[j]
      BY <1>1, <2>2
    <3> QED
      BY <1>3, <3>1, <3>2, <3>3
  <2> QED
    BY <1>1, <2>1, <2>2
<1>6. Reached(p, u) = Reached(Reached(p, s), t)
  <2>1. Reached(p, u) = PlaceAt(p, u, Len(s) + Len(t))
    BY <1>1 DEF Reached
  <2>2. Len(t) \in 0 .. Len(t)
    BY <1>1
  <2>3. Reached(p, u) = PlaceAt(Reached(p, s), t, Len(t))
    BY <1>3, <2>1, <2>2
  <2> QED
    BY <2>3 DEF Reached
<1> QED
  BY <1>4, <1>5, <1>6 DEF u

-----------------------------------------------------------------------------
(* What has been handed over.  PrefixInv says which events a reader at a    *)
(* place has delivered: those numbered below the message it is at.  It is   *)
(* kept as long as frames are read and events passed on, and no longer.     *)

\* A message knows whether it is one of the events.
TrueOf(m, count, list) ==
  /\ m.n \in 1 .. count
  /\ m.op = "event" <=> \E j \in 1 .. Len(list) : list[j] = m.n
True(m) == TrueOf(m, sent, events)

Done(n) == \A j \in 1 .. Len(events) : j <= Len(delivered) <=> events[j] < n

\* Between two messages, or before the rest of a payload nobody waits for.
AtMessage == pc = "head" \/ (pc = "read" /\ huge = <<>>)

ReaderAt(p) ==
  /\ p.m.n \in 1 .. sent + 1 /\ Done(p.m.n)
  /\ \/ p.at = "start" /\ AtMessage
     \/ /\ p.at = "half" /\ True(p.m)
        /\ \/ /\ p.m.what # "payload" /\ pc = "read" /\ huge = <<<<p.m, 1>>>>
              /\ p.m.what = "text" => p.m.op # "event"
           \/ p.m.what = "payload" /\ p.m.op # "event" /\ AtMessage
     \/ /\ p.at = "payload" /\ True(p.m) /\ p.m.what = "header"
        /\ pc = "payload" /\ header = p.m /\ huge = <<>>

Passing == Registered /\ ~stopped /\ stream = "open" /\ pc \in {"head", "read", "payload"}

DeliveredInv ==
  /\ Len(delivered) <= Len(events)
  /\ \A j \in 1 .. Len(delivered) : delivered[j] = events[j]

EventsInv ==
  /\ \A j \in 1 .. Len(events) : events[j] \in 1 .. sent
  /\ \A i, j \in 1 .. Len(events) : i < j => events[i] < events[j]

FramesTrue ==
  \A i \in 1 .. Len(Unread) : Unread[i].close = "no" => True(Carried(Unread[i]))

Behaves(p) ==
  /\ ReaderAt(p) /\ Chain(p, Unread)
  /\ server = "open" => Reached(p, Unread) = Start(sent + 1)

ReaderInv == Passing => \E p \in Place : Behaves(p)

PrefixInv == DeliveredInv /\ EventsInv /\ FramesTrue /\ ReaderInv

LEMMA StartPlace ==
  ASSUME NEW n \in Nat
  PROVE  Start(n) \in Place /\ Start(n).at = "start" /\ Start(n).m.n = n
BY DEF Start, Place, Message, NoHeader

LEMMA FrameConcat ==
  \A s, t, u \in Seq(FrameSet) : (s \o t) \o u = s \o (t \o u)
BY ConcatAssociative

LEMMA OneMore ==
  ASSUME NEW S, NEW s \in Seq(S), NEW t \in Seq(S), Len(t) = 1
  PROVE  /\ Len(s) \in Nat /\ Len(s \o t) = Len(s) + 1
         /\ \A i \in 1 .. Len(s) + 1 :
              (s \o t)[i] = IF i <= Len(s) THEN s[i] ELSE t[i - Len(s)]
<1>1. Len(s) \in Nat
  OBVIOUS
<1>2. /\ Len(s \o t) = Len(s) + Len(t)
      /\ \A i \in 1 .. Len(s) + Len(t) :
           (s \o t)[i] = IF i <= Len(s) THEN s[i] ELSE t[i - Len(s)]
  BY ConcatProperties, Zenon
<1> QED
  BY <1>1, <1>2, Zenon

LEMMA UnreadType == TypeOK => Unread \in Seq(FrameSet)
BY ConcatType DEF TypeOK, Unread

\* The server goes on with a message: it comes where the last one ended.
LEMMA FramesChain ==
  ASSUME NEW p \in Place, NEW m \in Message, NEW split \in BOOLEAN, NEW long \in BOOLEAN,
         m.what = "text" => m.op = "none",
         \/ p.at = "start" /\ m.n = p.m.n /\ m.what \in {"text", "header"}
         \/ p.at = "payload" /\ m = PayloadOf(p.m)
  PROVE  /\ Chain(p, Frames(m, split, long))
         /\ m.what = "header" => Reached(p, Frames(m, split, long)) = [at |-> "payload", m |-> m]
         /\ m.what # "header" => Reached(p, Frames(m, split, long)) = Start(m.n + 1)
         /\ \A i \in 1 .. Len(Frames(m, split, long)) :
              Frames(m, split, long)[i].close = "no" /\ Carried(Frames(m, split, long)[i]) = m
<1> DEFINE f == Frame(FALSE, long, <<<<m, 1>>>>)
           g == Frame(TRUE, long, <<<<m, 2>>>>)
           w == Frame(TRUE, long, Body(m))
<1>1. /\ f.close = "no" /\ ~f.final /\ f.body = <<<<m, 1>>>> /\ Carried(f) = m
      /\ g.close = "no" /\ g.final /\ g.body = <<<<m, 2>>>> /\ Carried(g) = m
      /\ w.close = "no" /\ w.final /\ w.body = Body(m) /\ Carried(w) = m
  BY DEF Frame, Carried, Body
<1> DEFINE after == IF m.what = "header" THEN [at |-> "payload", m |-> m] ELSE Start(m.n + 1)
           half == [at |-> "half", m |-> m]
<1> HIDE DEF f, g, w
<1>2. Behind(w) = after /\ Behind(g) = after /\ Behind(f) = half
  BY <1>1 DEF Behind
<1>3. Comes(p, w) /\ Comes(p, f)
  BY <1>1 DEF Comes, BodyIn
<1>4. Comes(half, g)
  BY <1>1 DEF Comes
<1>5. CASE split
  <2>1. Frames(m, split, long) = <<f, g>>
    BY <1>5 DEF Frames, f, g
  <2>2. Chain(p, <<f, g>>) /\ Reached(p, <<f, g>>) = after
    BY <1>2, <1>3, <1>4 DEF Chain, PlaceAt, Reached
  <2> QED
    BY <1>1, <2>1, <2>2
<1>6. CASE ~split
  <2>1. Frames(m, split, long) = <<w>>
    BY <1>6 DEF Frames, w
  <2>2. Chain(p, <<w>>) /\ Reached(p, <<w>>) = after
    BY <1>2, <1>3 DEF Chain, PlaceAt, Reached
  <2> QED
    BY <1>1, <2>1, <2>2
<1> QED
  BY <1>5, <1>6

\* The server sends the frames t of the next message or event.
LEMMA SendKeeps ==
  ASSUME TypeOK, PrefixInv, server = "open", UNCHANGED <<inbox, server, reader>>,
         sent' = sent + 1, NEW t \in Seq(FrameSet), link' = link \o t,
         NEW isEvent \in BOOLEAN, events' = IF isEvent THEN Append(events, sent + 1) ELSE events,
         Chain(Start(sent + 1), t), Reached(Start(sent + 1), t) = Start(sent + 2),
         \A i \in 1 .. Len(t) : /\ t[i].close = "no" /\ Carried(t[i]).n = sent + 1
                                /\ (Carried(t[i]).op = "event") <=> isEvent
  PROVE  PrefixInv'
<1> DEFINE n == sent + 1
<1>0. sent \in Nat /\ n \in Nat /\ events \in Seq(Nat) /\ delivered \in Seq(Nat)
  BY EventLoopAssumption DEF TypeOK, EventLoopAssumption
<1>u. /\ Unread' = Unread \o t /\ Unread \in Seq(FrameSet)
      /\ Len(Unread') = Len(Unread) + Len(t)
      /\ \A i \in 1 .. Len(Unread) + Len(t) :
           Unread'[i] = IF i <= Len(Unread) THEN Unread[i] ELSE t[i - Len(Unread)]
  <2>1. Unread' = Unread \o t /\ Unread \in Seq(FrameSet)
    BY UnreadType, FrameConcat DEF Unread, TypeOK
  <2> QED
    BY <2>1, ConcatProperties
<1>1. /\ Len(events') = IF isEvent THEN Len(events) + 1 ELSE Len(events)
      /\ \A j \in 1 .. Len(events) : events'[j] = events[j]
      /\ isEvent => events'[Len(events) + 1] = n
  BY <1>0
<1>2. DeliveredInv'
  BY <1>0, <1>1 DEF PrefixInv, DeliveredInv, reader
<1> DEFINE k == Len(events)
           e == events'
<1>k. /\ k \in Nat /\ sent' = n /\ \A j \in 1 .. k : e[j] = events[j] /\ e[j] < n /\ e[j] \in 1 .. n
      /\ Len(e) = k \/ (isEvent /\ Len(e) = k + 1 /\ e[k + 1] = n)
      /\ \A j \in 1 .. Len(e) : j \in 1 .. k \/ (j = k + 1 /\ e[j] = n)
  <2>1. \A j \in 1 .. k : events[j] \in 1 .. sent
    BY DEF PrefixInv, EventsInv
  <2>2. k \in Nat /\ sent' = n
    BY <1>0
  <2>3. Len(e) = k \/ (isEvent /\ Len(e) = k + 1 /\ e[k + 1] = n)
    BY <1>1
  <2> QED
    BY <1>0, <1>1, <2>1, <2>2, <2>3
<1>3. EventsInv'
  <2>1. \A j \in 1 .. Len(e) : e[j] \in 1 .. n
    <3>1. n \in 1 .. n
      BY <1>0
    <3> HIDE DEF k, e, n
    <3> QED
      BY <1>k, <3>1
  <2>2. ASSUME NEW i \in 1 .. Len(e), NEW j \in 1 .. Len(e), i < j PROVE e[i] < e[j]
    <3>1. i \in 1 .. k
      BY <1>k, <2>2
    <3>2. CASE j \in 1 .. k
      BY <1>k, <2>2, <3>1, <3>2 DEF PrefixInv, EventsInv
    <3>3. CASE j = k + 1 /\ e[j] = n
      BY <1>k, <3>1, <3>3
    <3> QED
      BY <1>k, <3>2, <3>3
  <2>3. \A i, j \in 1 .. Len(e) : i < j => e[i] < e[j]
    BY <2>2
  <2> HIDE DEF k
  <2> QED
    BY <1>k, <2>1, <2>3 DEF EventsInv
<1>4. ASSUME NEW m, TrueOf(m, sent, events) PROVE TrueOf(m, sent', events')
  <2>1. m.n \in 1 .. sent /\ m.n # n /\ m.n \in 1 .. sent'
    BY <1>0, <1>4, <1>k DEF TrueOf
  <2>2. (\E j \in 1 .. k : events[j] = m.n) <=> \E j \in 1 .. Len(e) : e[j] = m.n
    <3>1. ASSUME NEW j \in 1 .. k, events[j] = m.n PROVE j \in 1 .. Len(e) /\ e[j] = m.n
      BY <1>k, <3>1
    <3>2. ASSUME NEW j \in 1 .. Len(e), e[j] = m.n PROVE j \in 1 .. k /\ events[j] = m.n
      BY <1>k, <2>1, <3>2
    <3> QED
      BY <3>1, <3>2
  <2> QED
    BY <1>4, <2>1, <2>2 DEF TrueOf
<1>5. ASSUME NEW m, m.n = n, (m.op = "event") <=> isEvent PROVE TrueOf(m, sent', events')
  <2>1. \A j \in 1 .. Len(events) : events'[j] # n
    BY <1>0, <1>1 DEF PrefixInv, EventsInv
  <2>2. (\E j \in 1 .. Len(events') : events'[j] = n) <=> isEvent
    BY <1>0, <1>1, <2>1
  <2>3. n \in 1 .. sent'
    BY <1>0
  <2> QED
    BY <1>5, <2>2, <2>3 DEF TrueOf
<1>6. FramesTrue'
  <2> SUFFICES ASSUME NEW i \in 1 .. Len(Unread'), Unread'[i].close = "no"
               PROVE  TrueOf(Carried(Unread'[i]), sent', events')
    BY DEF FramesTrue, True
  <2>1. CASE i <= Len(Unread)
    <3>1. i \in 1 .. Len(Unread) /\ Unread'[i] = Unread[i]
      BY <1>u, <2>1
    <3> QED
      BY <1>4, <3>1 DEF PrefixInv, FramesTrue, True
  <2>2. CASE i > Len(Unread)
    <3>1. i - Len(Unread) \in 1 .. Len(t) /\ Unread'[i] = t[i - Len(Unread)]
      BY <1>u, <2>2
    <3> QED
      BY <1>5, <3>1
  <2> QED
    BY <1>u, <2>1, <2>2
<1>7. ASSUME Passing' PROVE \E p \in Place : Behaves(p)'
  <2>1. PICK p \in Place : Behaves(p)
    BY <1>7 DEF PrefixInv, ReaderInv, Passing, reader
  <2>2. ReaderAt(p)'
    <3>1. Done(p.m.n)'
      <4>1. p.m.n \in 1 .. n /\ Len(delivered) <= Len(events)
        BY <2>1 DEF Behaves, ReaderAt, PrefixInv, DeliveredInv
      <4>2. \A j \in 1 .. k : j <= Len(delivered) <=> events[j] < p.m.n
        BY <2>1 DEF Behaves, ReaderAt, Done
      <4>3. delivered' = delivered /\ Len(delivered) \in Nat
        BY <1>0 DEF reader
      <4>4. ASSUME NEW j \in 1 .. Len(e) PROVE j <= Len(delivered) <=> e[j] < p.m.n
        <5>1. CASE j \in 1 .. k
          BY <1>k, <4>2, <5>1
        <5>2. CASE j = k + 1 /\ e[j] = n
          BY <1>0, <4>1, <4>3, <5>2
        <5> QED
          BY <1>k, <4>4, <5>1, <5>2
      <4> QED
        BY <4>3, <4>4 DEF Done
    <3>2. p.m.n \in 1 .. sent' + 1
      BY <1>0, <2>1 DEF Behaves, ReaderAt
    <3> QED
      BY <1>4, <2>1, <3>1, <3>2 DEF Behaves, ReaderAt, AtMessage, reader, True
  <2>3. Chain(p, Unread') /\ Reached(p, Unread') = Start(sent' + 1)
    <3>1. Chain(p, Unread) /\ Reached(p, Unread) = Start(n)
      BY <2>1 DEF Behaves
    <3>2. sent' + 1 = sent + 2
      BY <1>0
    <3> QED
      BY <1>u, <3>1, <3>2, ChainBoth
  <2> QED
    BY <2>2, <2>3 DEF Behaves
<1> QED
  BY <1>2, <1>3, <1>6, <1>7 DEF PrefixInv, ReaderInv

LEMMA EnvironmentKeeps ==
  ASSUME TypeOK, PrefixInv, Environment
  PROVE  PrefixInv'
<1> USE EventLoopAssumption DEF EventLoopAssumption
<1>0. sent \in Nat /\ sent + 1 \in Nat /\ inbox \in Seq(FrameSet) /\ link \in Seq(FrameSet)
  BY DEF TypeOK
<1>s. Start(sent + 1) \in Place /\ Start(sent + 1).at = "start" /\ Start(sent + 1).m.n = sent + 1
  BY <1>0, StartPlace
<1>1. ASSUME NEW f \in SplitText, SendText(f) PROVE PrefixInv'
  <2> DEFINE m == [what |-> "text", op |-> "none", n |-> sent + 1]
             short == FALSE
             t == Frames(m, f, short)
  <2>1. m \in Message /\ m.what = "text" /\ m.op = "none" /\ m.n = sent + 1
    BY <1>0 DEF Message
  <2>2. link' = link \o t /\ sent' = sent + 1
    BY <1>1 DEF SendText
  <2>s. short \in BOOLEAN
    OBVIOUS
  <2> HIDE DEF m, short
  <2>3. f \in BOOLEAN /\ t \in Seq(FrameSet)
    BY <2>1, <2>s, FramesType
  <2>4. /\ Chain(Start(sent + 1), t) /\ Reached(Start(sent + 1), t) = Start(m.n + 1)
        /\ \A i \in 1 .. Len(t) : t[i].close = "no" /\ Carried(t[i]) = m
    <3>1. m.what # "header" /\ m.what \in {"text", "header"} /\ m.n = Start(sent + 1).m.n
      BY <1>s, <2>1
    <3> DEFINE s0 == Start(sent + 1)
    <3>2. s0 \in Place /\ s0.at = "start" /\ m.n = s0.m.n
      BY <1>s, <3>1
    <3> HIDE DEF s0
    <3>3. /\ s0 \in Place /\ m \in Message /\ f \in BOOLEAN /\ short \in BOOLEAN
          /\ m.what = "text" => m.op = "none"
          /\ s0.at = "start" /\ m.n = s0.m.n /\ m.what \in {"text", "header"}
      BY <2>1, <2>s, <2>3, <3>1, <3>2
    <3>4. Chain(s0, t)
      BY <3>3, FramesChain
    <3>5. m.what # "header" => Reached(s0, t) = Start(m.n + 1)
      BY <3>3, FramesChain
    <3>6. \A i \in 1 .. Len(t) : t[i].close = "no" /\ Carried(t[i]) = m
      BY <3>3, FramesChain
    <3> QED
      BY <2>1, <3>4, <3>5, <3>6 DEF s0
  <2>5. m.n + 1 = sent + 2 /\ m.op # "event"
    BY <1>0, <2>1
  <2> HIDE DEF t
  <2>6. events' = IF FALSE THEN Append(events, sent + 1) ELSE events
    BY <1>1 DEF SendText
  <2> QED
    BY <1>1, <2>1, <2>2, <2>3, <2>4, <2>5, <2>6, SendKeeps DEF SendText
<1>2. ASSUME NEW op \in Operations, NEW fh \in SplitText, NEW fp \in SplitPayload,
             NEW l \in Long, SendEvent(op, fh, fp, l)
      PROVE  PrefixInv'
  <2> DEFINE h == [what |-> "header", op |-> op, n |-> sent + 1]
             p == [what |-> "payload", op |-> op, n |-> sent + 1]
             short == FALSE
             th == Frames(h, fh, short)
             tp == Frames(p, fp, l)
             t == th \o tp
             q == [at |-> "payload", m |-> h]
  <2>1. /\ h \in Message /\ h.what = "header" /\ h.op = op /\ h.n = sent + 1
        /\ p \in Message /\ p.what = "payload" /\ p.op = op /\ p.n = sent + 1
        /\ p = PayloadOf(h)
    BY <1>0 DEF Message, PayloadOf
  <2>2. /\ link' = link \o th \o tp /\ sent' = sent + 1
        /\ events' = IF op = "event" THEN Append(events, sent + 1) ELSE events
    BY <1>2 DEF SendEvent
  <2>s. short \in BOOLEAN
    OBVIOUS
  <2> HIDE DEF h, p, short
  <2>3. /\ fh \in BOOLEAN /\ fp \in BOOLEAN /\ l \in BOOLEAN
        /\ th \in Seq(FrameSet) /\ tp \in Seq(FrameSet)
    BY <2>1, <2>s, FramesType
  <2>4. /\ Chain(Start(sent + 1), th) /\ Reached(Start(sent + 1), th) = q
        /\ \A i \in 1 .. Len(th) : th[i].close = "no" /\ Carried(th[i]) = h
    <3>1. h.what # "text" /\ h.what \in {"text", "header"} /\ h.n = Start(sent + 1).m.n
      BY <1>s, <2>1
    <3> DEFINE s0 == Start(sent + 1)
    <3>2. s0 \in Place /\ s0.at = "start" /\ h.n = s0.m.n
      BY <1>s, <3>1
    <3> HIDE DEF s0
    <3>3. /\ s0 \in Place /\ h \in Message /\ fh \in BOOLEAN /\ short \in BOOLEAN
          /\ h.what = "text" => h.op = "none"
          /\ s0.at = "start" /\ h.n = s0.m.n /\ h.what \in {"text", "header"}
      BY <2>1, <2>s, <2>3, <3>1, <3>2
    <3>4. Chain(s0, th)
      BY <3>3, FramesChain
    <3>5. h.what = "header" => Reached(s0, th) = [at |-> "payload", m |-> h]
      BY <3>3, FramesChain
    <3>6. \A i \in 1 .. Len(th) : th[i].close = "no" /\ Carried(th[i]) = h
      BY <3>3, FramesChain
    <3> QED
      BY <2>1, <3>4, <3>5, <3>6 DEF s0
  <2>5. q \in Place /\ q.at = "payload" /\ q.m = h
    BY <2>1 DEF Place
  <2> HIDE DEF q
  <2>6. /\ Chain(q, tp) /\ Reached(q, tp) = Start(p.n + 1)
        /\ \A i \in 1 .. Len(tp) : tp[i].close = "no" /\ Carried(tp[i]) = p
    BY <2>1, <2>3, <2>5, FramesChain
  <2> HIDE DEF th, tp
  <2>7. t \in Seq(FrameSet) /\ link' = link \o t
    BY <1>0, <2>2, <2>3, ConcatType, FrameConcat
  <2>8. Chain(Start(sent + 1), t) /\ Reached(Start(sent + 1), t) = Start(sent + 2)
    <3>1. p.n + 1 = sent + 2
      BY <1>0, <2>1
    <3> QED
      BY <2>3, <2>4, <2>6, <3>1, ChainBoth
  <2>9. ASSUME NEW i \in 1 .. Len(t)
        PROVE  /\ t[i].close = "no" /\ Carried(t[i]).n = sent + 1
               /\ (Carried(t[i]).op = "event") <=> (op = "event")
    <3>1. t[i] = IF i <= Len(th) THEN th[i] ELSE tp[i - Len(th)]
      BY <2>3, <2>9, ConcatProperties
    <3>2. Len(t) = Len(th) + Len(tp) /\ Len(th) \in Nat /\ Len(tp) \in Nat
      BY <2>3, ConcatProperties
    <3>3. i <= Len(th) \/ i - Len(th) \in 1 .. Len(tp)
      BY <2>9, <3>2
    <3> QED
      BY <2>1, <2>4, <2>6, <3>1, <3>2, <3>3
  <2> HIDE DEF t
  <2>10. /\ server = "open" /\ UNCHANGED <<inbox, server, reader>> /\ (op = "event") \in BOOLEAN
    BY <1>2 DEF SendEvent
  <2> QED
    BY <2>2, <2>7, <2>8, <2>9, <2>10, SendKeeps
<1>3. ASSUME UNCHANGED <<sent, events, reader>>, Unread' = Unread, server' = server
      PROVE  PrefixInv'
  BY <1>3 DEF PrefixInv, DeliveredInv, EventsInv, FramesTrue, ReaderInv, Passing, Behaves,
              ReaderAt, AtMessage, Done, True, reader
<1>4. ASSUME NEW kind \in CloseKinds, SendClose(kind) PROVE PrefixInv'
  <2> DEFINE f == CloseFrame(kind)
             t == <<f>>
  <2>1. f \in FrameSet /\ t \in Seq(FrameSet) /\ Len(t) = 1 /\ t[1] = f /\ f.close # "no"
    BY DEF CloseFrame, FrameSet
  <2> HIDE DEF f, t
  <2>2. Unread' = Unread \o t
    <3>1. link' = link \o t
      BY <1>0, <1>4, <2>1, AppendIsConcat DEF SendClose, f, t
    <3>2. inbox' = inbox
      BY <1>4 DEF SendClose
    <3> QED
      BY <1>0, <2>1, <3>1, <3>2, FrameConcat DEF Unread
  <2>3. UNCHANGED <<sent, events, reader>> /\ server = "open" /\ server' = "closing"
    BY <1>4 DEF SendClose
  <2>4. FramesTrue'
    <3>1. /\ Len(Unread') = Len(Unread) + 1 /\ Len(Unread) \in Nat
          /\ \A i \in 1 .. Len(Unread) + 1 :
               Unread'[i] = IF i <= Len(Unread) THEN Unread[i] ELSE t[i - Len(Unread)]
      <4>1. Unread \in Seq(FrameSet)
        BY <1>0, UnreadType
      <4> QED
        BY <2>1, <2>2, <4>1, OneMore, Zenon
    <3>2. ASSUME NEW i \in 1 .. Len(Unread'), Unread'[i].close = "no" PROVE i <= Len(Unread)
      <4>1. i = Len(Unread) + 1 => Unread'[i] = t[1]
        BY <3>1
      <4> QED
        BY <2>1, <3>1, <3>2, <4>1
    <3> QED
      BY <2>3, <3>1, <3>2 DEF PrefixInv, FramesTrue, True
  <2>5. ASSUME Passing', NEW p \in Place, Behaves(p) PROVE Behaves(p)'
    <3>1. Comes(Start(sent + 1), f)
      BY <1>s, <2>1 DEF Comes
    <3>2. Chain(Start(sent + 1), t)
      BY <2>1, <3>1 DEF Chain, PlaceAt
    <3>3. Chain(p, Unread')
      BY <2>1, <2>2, <2>3, <2>5, <3>2, UnreadType, ChainBoth DEF Behaves
    <3> QED
      BY <2>3, <2>5, <3>3 DEF Behaves, ReaderAt, AtMessage, Done, True, reader
  <2> QED
    BY <2>3, <2>4, <2>5 DEF PrefixInv, DeliveredInv, EventsInv, ReaderInv, Passing, reader
<1>5. ASSUME Arrive PROVE PrefixInv'
  <2>1. Unread' = Unread
    BY <1>0, <1>5, ArriveKeepsOrder DEF Arrive, Unread
  <2> QED
    BY <1>3, <1>5, <2>1 DEF Arrive
<1>6. ASSUME Lose PROVE PrefixInv'
  <2>1. /\ Unread' = inbox /\ UNCHANGED <<sent, events, reader>> /\ server' = "gone"
    BY <1>0, <1>6, ConcatEmptySeq DEF Lose, Unread
  <2>2. FramesTrue'
    <3>1. /\ Len(Unread) = Len(inbox) + Len(link) /\ Len(inbox) \in Nat /\ Len(link) \in Nat
          /\ \A i \in 1 .. Len(inbox) : Unread[i] = inbox[i]
      BY <1>0, ConcatProperties DEF Unread
    <3> QED
      BY <2>1, <3>1 DEF PrefixInv, FramesTrue, True
  <2>3. ASSUME NEW p \in Place, Behaves(p) PROVE Behaves(p)'
    <3>1. Chain(p, inbox)
      BY <1>0, <2>3, ChainBoth DEF Behaves, Unread
    <3> QED
      BY <2>1, <2>3, <3>1 DEF Behaves, ReaderAt, AtMessage, Done, True, reader
  <2> QED
    BY <2>1, <2>2, <2>3 DEF PrefixInv, DeliveredInv, EventsInv, ReaderInv, Passing, reader
<1>7. ASSUME OthersSwitch PROVE PrefixInv'
  <2>1. Unread' = Unread
    BY <1>7 DEF OthersSwitch, Unread, environment
  <2> QED
    BY <1>3, <1>7, <2>1 DEF OthersSwitch, environment
<1> QED
  BY <1>1, <1>2, <1>4, <1>5, <1>6, <1>7 DEF Environment

\* A step that leaves what was sent alone, and takes one frame off at most.
LEMMA QuietStep ==
  ASSUME TypeOK, PrefixInv, UNCHANGED <<link, server, sent, events>>,
         inbox' = inbox \/ (inbox # <<>> /\ inbox' = Tail(inbox))
  PROVE  EventsInv' /\ FramesTrue' /\ (delivered' = delivered => DeliveredInv')
<1>1. EventsInv' /\ (delivered' = delivered => DeliveredInv')
  BY DEF PrefixInv, DeliveredInv, EventsInv
<1>2. CASE inbox' = inbox
  <2>1. Unread' = Unread
    BY <1>2 DEF Unread
  <2> QED
    BY <1>1, <2>1 DEF PrefixInv, FramesTrue, True
<1>3. CASE inbox # <<>> /\ inbox' = Tail(inbox)
  <2>1. Unread # <<>> /\ Unread' = Tail(Unread)
    BY <1>3, TailOfBoth DEF Unread, TypeOK
  <2>2. /\ Len(Unread') = Len(Unread) - 1 /\ Len(Unread) \in Nat
        /\ \A i \in 1 .. Len(Unread') : Unread'[i] = Unread[i + 1]
    BY <2>1, UnreadType, HeadTailProperties
  <2>3. ASSUME NEW i \in 1 .. Len(Unread'), Unread'[i].close = "no"
        PROVE  TrueOf(Carried(Unread'[i]), sent', events')
    <3>1. i + 1 \in 1 .. Len(Unread) /\ Unread'[i] = Unread[i + 1]
      BY <2>2
    <3> QED
      BY <2>3, <3>1 DEF PrefixInv, FramesTrue, True
  <2> QED
    BY <1>1, <2>3 DEF FramesTrue, True
<1> QED
  BY <1>2, <1>3

\* The next event that is due is the first that was not handed over.
LEMMA NextDue ==
  ASSUME TypeOK, DeliveredInv, EventsInv, NEW n \in Nat, Done(n),
         NEW j \in 1 .. Len(events), events[j] = n
  PROVE  j = Len(delivered) + 1
<1> DEFINE d == Len(delivered)
<1>1. /\ d \in Nat /\ d <= Len(events) /\ Len(events) \in Nat
      /\ \A i \in 1 .. Len(events) : events[i] \in Nat /\ (i <= d <=> events[i] < n)
      /\ \A i \in 1 .. Len(events) : i < j => events[i] < n
  BY DEF TypeOK, DeliveredInv, EventsInv, Done
<1>2. ~(j <= d)
  BY <1>1
<1> HIDE DEF d
<1>3. CASE d + 1 < j
  <2>1. d + 1 \in 1 .. Len(events) /\ ~(d + 1 <= d)
    BY <1>1, <1>3
  <2> QED
    BY <1>1, <1>3, <2>1
<1>4. CASE ~(d + 1 < j)
  BY <1>1, <1>2, <1>4 DEF d
<1> QED
  BY <1>3, <1>4

\* What has no event's number changes nothing about what is done.
LEMMA NotAnEvent ==
  ASSUME TypeOK, EventsInv, NEW m, True(m), m.op # "event", Done(m.n)
  PROVE  Done(m.n + 1)
<1>1. m.n \in Nat
  BY EventLoopAssumption DEF True, TrueOf, TypeOK, EventLoopAssumption
<1>2. \A j \in 1 .. Len(events) : events[j] \in Nat /\ events[j] # m.n
  BY DEF True, TrueOf, EventsInv, TypeOK
<1> QED
  BY <1>1, <1>2 DEF Done

\* onReceiveEvent is handed the event it waits for, or the fork dies.
LEMMA DeliversNext ==
  ASSUME TypeOK, DeliveredInv, EventsInv, Registered, ~stopped, NEW h, header = h,
         h.what = "header", True(h), Done(h.n), UNCHANGED <<events, sent>>,
         NEW payload, Delivers(payload)
  PROVE  /\ DeliveredInv'
         /\ pc' \in {"head", "dead"}
         /\ pc' = "head" => Done(h.n + 1)'
         /\ pc' = "head" /\ h.op = "event" => payload = Body(PayloadOf(h))
<1>0. /\ h \in Message /\ h.n \in Nat
      /\ delivered \in Seq(Nat) /\ Len(delivered) \in Nat /\ Len(events) \in Nat
  BY DEF TypeOK, Message
<1>1. CASE h.op # "event"
  <2>1. pc' = "head" /\ delivered' = delivered
    BY <1>1 DEF Delivers
  <2>2. Done(h.n + 1)
    BY <1>1, NotAnEvent
  <2>3. DeliveredInv' /\ Done(h.n + 1)'
    BY <2>1, <2>2 DEF DeliveredInv, Done
  <2> QED
    BY <1>1, <2>1, <2>3
<1>2. CASE h.op = "event" /\ pc' = "dead"
  <2>1. delivered' = delivered
    BY <1>2, Zenon DEF Delivers
  <2> QED
    BY <1>2, <2>1 DEF DeliveredInv
<1>3. CASE h.op = "event" /\ pc' # "dead"
  <2>1. /\ payload = Body(PayloadOf(h)) /\ pc' = "head"
        /\ delivered' = Append(delivered, h.n)
    BY <1>3, Zenon DEF Delivers, PayloadOf
  <2>2. PICK j \in 1 .. Len(events) : events[j] = h.n
    BY <1>3 DEF True, TrueOf
  <2>3. j = Len(delivered) + 1
    BY <1>0, <2>2, NextDue
  <2>4. /\ Len(delivered') = Len(delivered) + 1 /\ delivered'[Len(delivered) + 1] = h.n
        /\ \A i \in 1 .. Len(delivered) : delivered'[i] = delivered[i]
    BY <1>0, <2>1, AppendProperties
  <2>5. DeliveredInv'
    BY <1>0, <2>2, <2>3, <2>4 DEF DeliveredInv
  <2>6. ASSUME NEW i \in 1 .. Len(events) PROVE i <= Len(delivered) + 1 <=> events[i] < h.n + 1
    <3>1. events[i] \in Nat /\ (i <= Len(delivered) <=> events[i] < h.n)
      BY DEF TypeOK, Done
    <3>2. events[i] = h.n => i = Len(delivered) + 1
      BY <1>0, NextDue
    <3>3. i = Len(delivered) + 1 => events[i] = h.n
      BY <2>2, <2>3
    <3> QED
      BY <1>0, <3>1, <3>2, <3>3
  <2>7. Done(h.n + 1)'
    BY <2>4, <2>6 DEF Done
  <2> QED
    BY <1>3, <2>1, <2>5, <2>7
<1>4. pc' \in {"head", "dead"}
  BY DEF Delivers
<1> QED
  BY <1>1, <1>2, <1>3, <1>4

LEMMA BodyFacts ==
  ASSUME NEW q \in Message
  PROVE  /\ <<<<q, 1>>>> \o <<<<q, 2>>>> = Body(q)
         /\ Body(q)[1][1] = q /\ Body(q) # <<>>
         /\ <<<<q, 1>>>>[1][1] = q /\ <<<<q, 2>>>>[1][1] = q /\ <<<<q, 2>>>> # <<>>
<1>1. /\ Body(q)[1][1] = q /\ Body(q) # <<>>
      /\ <<<<q, 1>>>>[1][1] = q /\ <<<<q, 2>>>>[1][1] = q /\ <<<<q, 2>>>> # <<>>
  BY DEF Body
<1> DEFINE s == <<<<q, 1>>>>
           t == <<<<q, 2>>>>
           w == <<<<q, 1>>, <<q, 2>>>>
<1>2. /\ s \in Seq(Half) /\ t \in Seq(Half) /\ Len(s) = 1 /\ Len(t) = 1
      /\ w \in Seq(Half) /\ Len(w) = 2 /\ w[1] = s[1] /\ w[2] = t[1]
  BY DEF Half
<1> HIDE DEF s, t, w
<1>3. /\ s \o t \in Seq(Half) /\ Len(s \o t) = 2
      /\ (s \o t)[1] = s[1] /\ (s \o t)[2] = t[1]
  BY <1>2, ConcatProperties
<1>4. s \o t = w
  BY <1>2, <1>3, SeqEqual
<1> QED
  BY <1>1, <1>4 DEF s, t, w, Body

\* A frame taken off the stream by a reader that passes events on.
LEMMA ReceiveKeeps ==
  ASSUME TypeOK, PrefixInv, Passing, ReceivePart \/ ReceiveWhole
  PROVE  DeliveredInv' /\ ReaderInv'
<1>0. PICK f : f = Head(inbox)
  OBVIOUS
<1> DEFINE m == Carried(f)
<1>1. PICK p \in Place : Behaves(p)
  BY DEF PrefixInv, ReaderInv
<1>2. /\ inbox # <<>> /\ pc \in {"read", "payload"} /\ f.close = "no" /\ inbox' = Tail(inbox)
      /\ UNCHANGED <<link, server, sent, events, stream, stopped>>
  BY <1>0 DEF ReceivePart, ReceiveWhole, Arrived, Receiving, environment
<1>3. /\ Unread \in Seq(FrameSet) /\ Unread # <<>> /\ Head(Unread) = f /\ Unread' = Tail(Unread)
      /\ f \in FrameSet
  BY <1>0, <1>2, UnreadType, TailOfBoth, TailType DEF Unread, TypeOK
<1>4. /\ Comes(p, f) /\ Chain(Behind(f), Unread')
      /\ server' = "open" => Reached(Behind(f), Unread') = Start(sent' + 1)
  BY <1>1, <1>2, <1>3, ChainTail DEF Behaves
<1>5. True(m)
  <2>1. Unread[1] = f /\ 1 \in 1 .. Len(Unread)
    BY <1>3
  <2> QED
    BY <1>2, <2>1 DEF PrefixInv, FramesTrue
<1>6. sent \in Nat
  BY EventLoopAssumption DEF EventLoopAssumption, TypeOK
\* Once the reader is known to be behind the frame, the rest follows.
<1>7. ASSUME Behind(f) \in Place, Passing' => ReaderAt(Behind(f))' PROVE ReaderInv'
  BY <1>4, <1>7 DEF ReaderInv, Behaves
<1>8. /\ p.m \in Message /\ p.m.n \in 1 .. sent + 1 /\ Done(p.m.n)
      /\ p.at \in {"start", "half", "payload"}
  BY <1>1 DEF Behaves, ReaderAt, Place
<1>9. delivered' = delivered => DeliveredInv' /\ \A n : Done(n) => Done(n)'
  BY <1>2 DEF PrefixInv, DeliveredInv, Done
<1>10. ASSUME NEW q \in Message, True(q) PROVE /\ q.n \in 1 .. sent' + 1 /\ True(q)'
                                              /\ q.n + 1 \in 1 .. sent' + 1 /\ q.n + 1 \in Nat
  BY <1>2, <1>6, <1>10 DEF True, TrueOf
<1>e. \A b \in Seq(Half) : <<>> \o b = b
  OBVIOUS
<1>f. f.body \in Seq(Half) /\ f.final \in BOOLEAN
  BY <1>3 DEF FrameSet
\* Where ReceiveWhole finds the start of a message, or its second half.
<1>11. ASSUME ReceiveWhole, huge \o f.body = Body(m), f.final, pc = "read", m \in Message,
              m.what \in {"text", "header"}, m.what = "text" => m.op # "event", m.n = p.m.n
       PROVE  DeliveredInv' /\ ReaderInv'
  <2>1. Returns(Body(m)) /\ huge' = <<>>
    BY <1>0, <1>11 DEF ReceiveWhole
  <2>2. /\ delivered' = delivered
        /\ m.what = "header" => pc' = "payload" /\ header' = m
        /\ m.what # "header" => pc' = "head"
    BY <1>11, BodyFacts, <2>1 DEF Returns
  <2>3. CASE m.what = "header"
    <3>1. Behind(f) = [at |-> "payload", m |-> m]
      BY <1>2, <1>11, <2>3 DEF Behind
    <3> HIDE DEF m
    <3>2. Behind(f) \in Place /\ Behind(f).at = "payload" /\ Behind(f).m = m
      BY <1>11, <3>1 DEF Place
    <3>3. Done(m.n)' /\ True(m)' /\ m.n \in 1 .. sent' + 1
      BY <1>5, <1>8, <1>9, <1>10, <1>11, <2>2
    <3>4. ReaderAt(Behind(f))'
      BY <2>1, <2>2, <2>3, <3>2, <3>3 DEF ReaderAt
    <3> QED
      BY <1>7, <1>9, <2>2, <3>2, <3>4
  <2>4. CASE m.what = "text"
    <3>1. Behind(f) = Start(m.n + 1)
      BY <1>2, <1>11, <2>4 DEF Behind
    <3> HIDE DEF m
    <3>2. Done(m.n + 1)
      BY <1>5, <1>8, <1>11, <2>4, NotAnEvent DEF PrefixInv
    <3>3. Done(m.n + 1)' /\ m.n + 1 \in 1 .. sent' + 1 /\ m.n + 1 \in Nat
      BY <1>5, <1>9, <1>10, <1>11, <2>2, <3>2
    <3>4. Behind(f) \in Place /\ Behind(f).at = "start" /\ Behind(f).m.n = m.n + 1
      BY <3>1, <3>3, StartPlace
    <3>5. ReaderAt(Behind(f))'
      BY <2>1, <2>2, <2>4, <3>3, <3>4 DEF ReaderAt, AtMessage
    <3> QED
      BY <1>7, <1>9, <2>2, <3>4, <3>5
  <2> QED
    BY <1>11, <2>3, <2>4
<1>12. CASE p.at = "start"
  <2>1. /\ m \in Message /\ m.what \in {"text", "header"} /\ m.n = p.m.n
        /\ m.what = "text" => m.op # "event"
        /\ f.body = IF f.final THEN Body(m) ELSE <<<<m, 1>>>>
        /\ pc = "read" /\ huge = <<>>
    BY <1>1, <1>2, <1>4, <1>12 DEF Comes, BodyIn, Behaves, ReaderAt, AtMessage
  <2>2. CASE ReceiveWhole
    <3>1. f.final /\ huge \o f.body = Body(m)
      BY <1>0, <1>e, <1>f, <2>1, <2>2 DEF ReceiveWhole
    <3> QED
      BY <1>11, <2>1, <2>2, <3>1
  <2>3. CASE ReceivePart
    <3>1. /\ ~f.final /\ huge' = <<<<m, 1>>>>
          /\ pc' = "read" /\ delivered' = delivered
      BY <1>0, <1>e, <1>f, <2>1, <2>3 DEF ReceivePart
    <3>2. Behind(f) = [at |-> "half", m |-> m]
      BY <1>2, <3>1 DEF Behind
    <3> HIDE DEF m
    <3>3. Behind(f) \in Place /\ Behind(f).at = "half" /\ Behind(f).m = m
      BY <2>1, <3>2 DEF Place
    <3>4. Done(m.n)' /\ True(m)' /\ m.n \in 1 .. sent' + 1
      BY <1>5, <1>8, <1>9, <1>10, <2>1, <3>1
    <3>5. ReaderAt(Behind(f))'
      BY <2>1, <3>1, <3>3, <3>4 DEF ReaderAt
    <3> QED
      BY <1>7, <1>9, <3>1, <3>3, <3>5
  <2> QED
    BY <2>2, <2>3
<1>13. CASE p.at = "half"
  <2>1. /\ f.final /\ f.body = <<<<p.m, 2>>>> /\ m = p.m /\ m \in Message /\ pc = "read"
        /\ \/ m.what # "payload" /\ huge = <<<<m, 1>>>>
           \/ m.what = "payload" /\ m.op # "event" /\ huge = <<>>
    BY <1>1, <1>2, <1>4, <1>8, <1>13, BodyFacts DEF Comes, Behaves, ReaderAt, AtMessage, Carried
  <2>2. ReceiveWhole
    BY <1>0, <2>1 DEF ReceivePart
  <2>3. CASE m.what # "payload"
    <3>1. huge \o f.body = Body(m) /\ m.what \in {"text", "header"}
      <4>1. /\ m \in Message /\ huge = <<<<m, 1>>>> /\ f.body = <<<<m, 2>>>>
            /\ m.what # "payload"
        BY <2>1, <2>3
      <4> HIDE DEF m
      <4>2. <<<<m, 1>>>> \o <<<<m, 2>>>> = Body(m)
        BY <4>1, BodyFacts
      <4>3. m.what \in {"text", "header"}
        BY <4>1 DEF Message
      <4> QED
        BY <4>1, <4>2, <4>3
    <3>2. m.what = "header" \/ m.what = "text"
      BY <3>1
    <3>3. /\ Returns(Body(m)) /\ huge' = <<>>
      BY <1>0, <2>2, <3>1 DEF ReceiveWhole
    <3>4. /\ delivered' = delivered
          /\ m.what = "header" => pc' = "payload" /\ header' = m
          /\ m.what # "header" => pc' = "head"
      BY BodyFacts, <2>1, <3>3 DEF Returns
    <3>5. m.what = "text" => m.op # "event"
      BY <1>1, <1>13, <2>1 DEF Behaves, ReaderAt
    <3> QED
      BY <1>11, <2>1, <2>2, <3>1, <3>5
  <2>4. CASE m.what = "payload"
    <3>1. Returns(<<<<m, 2>>>>) /\ huge' = <<>>
      BY <1>0, <1>e, <1>f, <2>1, <2>2, <2>4 DEF ReceiveWhole
    <3>2. pc' = "head" /\ delivered' = delivered
      BY BodyFacts, <2>1, <2>4, <3>1 DEF Returns
    <3>3. Behind(f) = Start(m.n + 1)
      BY <1>2, <2>1, <2>4 DEF Behind
    <3> HIDE DEF m
    <3>4. Done(m.n + 1)
      BY <1>5, <1>8, <2>1, <2>4, NotAnEvent DEF PrefixInv
    <3>5. Done(m.n + 1)' /\ m.n + 1 \in 1 .. sent' + 1 /\ m.n + 1 \in Nat
      BY <1>5, <1>9, <1>10, <2>1, <3>2, <3>4
    <3>6. Behind(f) \in Place /\ Behind(f).at = "start" /\ Behind(f).m.n = m.n + 1
      BY <3>3, <3>5, StartPlace
    <3>7. ReaderAt(Behind(f))'
      BY <3>2, <3>5, <3>6 DEF ReaderAt, AtMessage
    <3> QED
      BY <1>7, <1>9, <3>2, <3>6, <3>7
  <2> QED
    BY <2>3, <2>4
<1>14. CASE p.at = "payload"
  <2> DEFINE hd == p.m
             h == PayloadOf(hd)
  <2>1. /\ header = hd /\ hd \in Message /\ hd.what = "header" /\ True(hd)
        /\ pc = "payload" /\ huge = <<>> /\ Done(hd.n)
        /\ f.body = IF f.final THEN Body(h) ELSE <<<<h, 1>>>>
    BY <1>1, <1>2, <1>4, <1>8, <1>14 DEF Comes, BodyIn, Behaves, ReaderAt
  <2>2. /\ h \in Message /\ h.what = "payload" /\ h.n = hd.n /\ h.op = hd.op
    BY <2>1 DEF PayloadOf, Message
  <2>3. m = h
    <3>1. Body(h)[1][1] = h /\ <<<<h, 1>>>>[1][1] = h
      BY <2>2, BodyFacts
    <3> QED
      BY <2>1, <3>1 DEF Carried
  <2> HIDE DEF h, hd
  <2>4. PICK payload : Delivers(payload) /\ (ReceivePart => payload = <<>>)
    <3>1. ReceivePart => Delivers(<<>>)
      BY <1>0, <2>1 DEF ReceivePart
    <3>2. ReceiveWhole => Delivers(huge \o f.body)
      BY <1>0, <2>1 DEF ReceiveWhole, Returns
    <3>3. ReceiveWhole => ~ReceivePart
      BY DEF ReceiveWhole, ReceivePart
    <3> QED
      BY <3>1, <3>2, <3>3
  <2>5. /\ DeliveredInv' /\ pc' \in {"head", "dead"}
        /\ pc' = "head" => Done(hd.n + 1)'
        /\ pc' = "head" /\ hd.op = "event" => payload = Body(h)
    BY <1>2, <2>1, <2>4, DeliversNext DEF PrefixInv, Passing, h
  <2>6. hd.n + 1 \in 1 .. sent' + 1 /\ hd.n + 1 \in Nat /\ True(h)' /\ h.n \in 1 .. sent' + 1
    BY <1>5, <1>10, <2>2, <2>3
  <2>7. CASE pc' = "dead"
    BY <2>5, <2>7 DEF ReaderInv, Passing
  <2>8. CASE pc' = "head" /\ ReceiveWhole
    <3>1. Behind(f) = Start(hd.n + 1)
      BY <1>0, <1>2, <2>2, <2>3, <2>8 DEF Behind, ReceiveWhole
    <3>2. Behind(f) \in Place /\ Behind(f).at = "start" /\ Behind(f).m.n = hd.n + 1
      BY <2>6, <3>1, StartPlace
    <3>3. Done(hd.n + 1)'
      BY <2>5, <2>8
    <3> HIDE DEF m
    <3>4. ReaderAt(Behind(f))'
      BY <2>6, <2>8, <3>2, <3>3 DEF ReaderAt, AtMessage
    <3> QED
      BY <1>7, <2>5, <3>2, <3>4
  <2>9. CASE pc' = "head" /\ ReceivePart
    <3>1. payload = <<>> /\ <<>> # Body(h)
      <4>1. <<>> # Body(h)
        BY <2>2, BodyFacts
      <4> QED
        BY <2>4, <2>9, <4>1
    <3>2. hd.op # "event" /\ delivered' = delivered
      <4>1. hd.op # "event"
        BY <2>5, <2>9, <3>1
      <4> QED
        BY <2>1, <2>4, <4>1 DEF Delivers
    <3>3. Behind(f) = [at |-> "half", m |-> h]
      BY <1>0, <1>2, <2>3, <2>9 DEF Behind, ReceivePart
    <3>4. Behind(f) \in Place /\ Behind(f).at = "half" /\ Behind(f).m = h
      BY <2>2, <3>3 DEF Place
    <3>5. Done(h.n)'
      BY <1>9, <2>1, <2>2, <3>2
    <3> HIDE DEF m
    <3>6. ReaderAt(Behind(f))'
      BY <2>2, <2>6, <2>9, <3>2, <3>4, <3>5 DEF ReaderAt, AtMessage
    <3> QED
      BY <1>7, <2>5, <3>4, <3>6
  <2> QED
    BY <2>5, <2>7, <2>8, <2>9
<1> QED
  BY <1>8, <1>12, <1>13, <1>14

\* Every step of the loop keeps the invariant.
LEMMA LoopKeeps ==
  ASSUME TypeOK, ObserverInv, PrefixInv, Loop
  PROVE  PrefixInv'
<1> USE DEF environment, session
\* A reader that reaches a close frame is between two messages.
<1>1. ASSUME Passing, ReceiveClose PROVE pc = "read"
  <2>1. PICK p \in Place : Behaves(p)
    BY <1>1 DEF PrefixInv, ReaderInv
  <2>2. inbox # <<>> /\ Head(inbox).close # "no" /\ pc \in {"read", "payload"}
    BY <1>1 DEF ReceiveClose, Arrived, Receiving
  <2>3. Comes(p, Head(inbox))
    BY <2>1, <2>2, UnreadType, TailOfBoth, ChainTail DEF Unread, TypeOK, Behaves
  <2> QED
    BY <2>1, <2>2, <2>3 DEF Comes, Behaves, ReaderAt, AtMessage
\* One that does not pass events on takes frames off and hands nothing over.
<1>2. ASSUME ReceivePart \/ ReceiveWhole \/ ReceiveClose, ~Passing \/ pc = "read"
      PROVE  delivered' = delivered
  <2>1. pc = "read" \/ stopped \/ ~Registered
    BY <1>2 DEF ReceivePart, ReceiveWhole, ReceiveClose, Arrived, Receiving, Passing
  <2>2. ASSUME NEW payload, Returns(payload) PROVE delivered' = delivered
    BY <2>1, <2>2 DEF Returns, Delivers
  <2>3. ASSUME NEW payload, pc = "payload", Delivers(payload) PROVE delivered' = delivered
    BY <2>1, <2>3 DEF Delivers
  <2> QED
    BY <1>2, <2>2, <2>3 DEF ReceivePart, ReceiveWhole, ReceiveClose
<1>3. UNCHANGED <<link, server, sent, events>>
  BY DEF Loop, LoopHead, ReceivePart, ReceiveWhole, ReceiveLong, ReceiveClose, ReceiveNothing,
     OnError, OnCompleted, Notify, Disconnect, Unset, Close, CallBack
<1>4. inbox' = inbox \/ (inbox # <<>> /\ inbox' = Tail(inbox))
  BY DEF Loop, LoopHead, ReceivePart, ReceiveWhole, ReceiveLong, ReceiveClose, ReceiveNothing,
     OnError, OnCompleted, Notify, Disconnect, Unset, Close, CallBack, Arrived
<1>5. EventsInv' /\ FramesTrue' /\ (delivered' = delivered => DeliveredInv')
  BY <1>3, <1>4, QuietStep
<1>6. ASSUME ~Passing', delivered' = delivered PROVE PrefixInv'
  BY <1>5, <1>6 DEF PrefixInv, ReaderInv
<1>7. CASE LoopHead
  <2>1. UNCHANGED <<inbox, stream, header, stopped, delivered>> /\ Unread' = Unread
    BY <1>3, <1>7 DEF LoopHead, Unread
  <2>2. ASSUME Passing' PROVE ReaderInv'
    <3>1. pc = "head" /\ pc' = "read" /\ huge' = <<>> /\ Passing
      BY <1>7, <2>1, <2>2 DEF LoopHead, Passing
    <3>2. PICK p \in Place : Behaves(p)
      BY <3>1 DEF PrefixInv, ReaderInv
    <3>3. ReaderAt(p)'
      BY <1>3, <2>1, <3>1, <3>2 DEF Behaves, ReaderAt, AtMessage, Done, True
    <3>4. Behaves(p)'
      BY <1>3, <2>1, <3>2, <3>3 DEF Behaves
    <3> QED
      BY <3>4 DEF ReaderInv
  <2> QED
    BY <1>5, <1>6, <2>1, <2>2 DEF PrefixInv
<1>8. CASE ReceivePart \/ ReceiveWhole
  <2>1. CASE Passing
    BY <1>5, <1>8, <2>1, ReceiveKeeps DEF PrefixInv
  <2>2. CASE ~Passing
    <3>1. delivered' = delivered
      BY <1>2, <1>8, <2>2
    <3>2. ~Passing'
      BY <1>8, <2>2 DEF ReceivePart, ReceiveWhole, Arrived, Receiving, Passing
    <3> QED
      BY <1>6, <3>1, <3>2
  <2> QED
    BY <2>1, <2>2
<1>9. CASE ReceiveClose
  <2>1. delivered' = delivered
    BY <1>1, <1>2, <1>9
  <2>2. ~Passing'
    BY <1>9 DEF ReceiveClose, Passing
  <2> QED
    BY <1>6, <2>1, <2>2
<1>10. CASE ReceiveLong \/ ReceiveNothing
  BY <1>6, <1>10 DEF ReceiveLong, ReceiveNothing, Passing
<1>11. CASE OnError \/ OnCompleted
  BY <1>6, <1>11 DEF OnError, OnCompleted, Notify, Passing
<1>12. CASE Disconnect \/ Unset \/ Close \/ CallBack
  <2>1. stopped /\ stopped' = stopped /\ delivered' = delivered
    BY <1>12 DEF Disconnect, Unset, Close, CallBack, ObserverInv, Stopping
  <2> QED
    BY <1>6, <2>1 DEF Passing
<1> QED
  BY <1>7, <1>8, <1>9, <1>10, <1>11, <1>12 DEF Loop

LEMMA PrefixInit == Init => PrefixInv
<1> SUFFICES ASSUME Init PROVE PrefixInv
  OBVIOUS
<1>1. /\ Unread = <<>> /\ Len(Unread) = 0 /\ Len(events) = 0 /\ Len(delivered) = 0
      /\ sent = 0 /\ pc = "head"
  BY DEF Init, Unread
<1>2. DeliveredInv /\ EventsInv /\ FramesTrue
  BY <1>1 DEF DeliveredInv, EventsInv, FramesTrue
<1>3. Start(1) \in Place /\ Start(1).at = "start" /\ Start(1).m.n = 1
  BY StartPlace
<1>4. ReaderAt(Start(1))
  BY <1>1, <1>3 DEF ReaderAt, Done, AtMessage
<1>5. Chain(Start(1), Unread) /\ Reached(Start(1), Unread) = Start(sent + 1)
  BY <1>1 DEF Chain, Reached, PlaceAt
<1> QED
  BY <1>2, <1>3, <1>4, <1>5 DEF PrefixInv, ReaderInv, Behaves

LEMMA PrefixInvariant == Spec => [](TypeOK /\ PrefixInv)
<1>1. TypeOK /\ ObserverInv /\ PrefixInv /\ [Next]_vars => PrefixInv'
  <2>1. TypeOK /\ PrefixInv /\ UNCHANGED vars => PrefixInv'
    BY DEF vars, PrefixInv, DeliveredInv, EventsInv, FramesTrue, ReaderInv, Passing, Behaves,
           ReaderAt, AtMessage, Done, True, Unread
  <2> QED
    BY <2>1, LoopKeeps, EnvironmentKeeps DEF Next
<1> QED
  BY <1>1, PrefixInit, ObserverInvariant, PTL DEF Spec

\* A loop that was not stopped and has read all there was is behind the last
\* message, so that it has handed over every event there is.
LEMMA NonePassedOver ==
  ASSUME TypeOK, PrefixInv, CaughtUp
  PROVE  Len(delivered) = Len(events)
<1>1. /\ delivered \in Seq(Nat) /\ events \in Seq(Nat) /\ sent \in Nat
      /\ Len(delivered) \in Nat /\ Len(events) \in Nat
  BY EventLoopAssumption DEF TypeOK, EventLoopAssumption
<1>2. Unread = <<>> /\ Len(Unread) = 0
  BY DEF CaughtUp, Unread
<1>3. Passing /\ server = "open"
  BY DEF CaughtUp, Passing
<1>4. PICK p \in Place : Behaves(p)
  BY <1>3 DEF PrefixInv, ReaderInv
<1>5. p = Start(sent + 1)
  BY <1>2, <1>3, <1>4 DEF Behaves, Reached, PlaceAt
<1>6. p.m.n = sent + 1
  BY <1>1, <1>5, StartPlace
<1>7. Done(sent + 1)
  BY <1>4, <1>6 DEF Behaves, ReaderAt
<1>8. /\ Len(delivered) <= Len(events)
      /\ \A j \in 1 .. Len(events) : events[j] \in 1 .. sent
  BY DEF PrefixInv, DeliveredInv, EventsInv
<1>9. \A j \in 1 .. Len(events) : j <= Len(delivered)
  <2> TAKE j \in 1 .. Len(events)
  <2>1. events[j] < sent + 1
    BY <1>1, <1>8
  <2> QED
    BY <1>7, <2>1 DEF Done
<1>10. CASE Len(events) = 0
  BY <1>1, <1>8, <1>10
<1>11. CASE Len(events) # 0
  <2>1. Len(events) \in 1 .. Len(events)
    BY <1>1, <1>11
  <2> QED
    BY <1>1, <1>8, <1>9, <2>1
<1> QED
  BY <1>10, <1>11

\* The events handed to onReceiveEvent are the first ones the server sent,
\* in order, whatever was fragmented, lost or timed out on the way, and all of
\* them when the loop, not stopped, has read everything.
THEOREM EventsInOrder == Spec => []DeliveredPrefix
<1>1. TypeOK /\ PrefixInv => DeliveredPrefix
  <2> SUFFICES ASSUME TypeOK, PrefixInv PROVE DeliveredPrefix
    OBVIOUS
  <2>1. /\ delivered \in Seq(Nat) /\ events \in Seq(Nat) /\ Len(delivered) <= Len(events)
        /\ Len(delivered) \in Nat /\ Len(events) \in Nat
    BY DEF TypeOK, PrefixInv, DeliveredInv
  <2>2. \A j \in 1 .. Len(delivered) : delivered[j] = events[j]
    BY DEF PrefixInv, DeliveredInv
  <2>3. SubSeq(delivered, 1, Len(delivered)) = SubSeq(events, 1, Len(delivered))
    BY <2>1, <2>2
  <2>4. IsPrefix(delivered, events)
    BY <2>1, <2>3 DEF IsPrefix
  <2>5. CaughtUp => delivered = events
    BY <2>1, <2>2, NonePassedOver
  <2> QED
    BY <2>4, <2>5 DEF DeliveredPrefix
<1> QED
  BY <1>1, PrefixInvariant, PTL
=============================================================================
