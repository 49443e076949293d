--------------------------- MODULE Session_proofs ---------------------------
(***************************************************************************)
(* Proofs about Session, for every value of its constants.                 *)
(***************************************************************************)
EXTENDS Session, TLAPS

ProcState == [pc : Label, sock : 0 .. MaxConn, open : BOOLEAN]

\* Where a process is connected, and has not disconnected yet.
Setup == {"empty1", "write1", "heartbeat", "onConnect", "loop"}

LEMMA Parameters ==
  /\ MainApp \in App /\ App \subseteq Process /\ Fork \subseteq Process /\ MainApp \in Process
  /\ \A a \in App, f \in Fork : a # f
  /\ MaxConn \in Nat
  /\ \A f \in Fork : f[1] \in Conn
  /\ \A c \in Conn : /\ c \in 1..MaxConn
                     /\ <<c, "heartbeat">> \in Fork /\ <<c, "loop">> \in Fork
                     /\ <<c, "heartbeat">>[1] = c /\ <<c, "loop">>[1] = c
BY SessionAssumption DEF SessionAssumption, Process, Fork, Conn

LEMMA StateType ==
  /\ Dead \in ProcState /\ Dead.pc = "dead"
  /\ \A r \in ProcState, l \in Label :
       /\ [r EXCEPT !.pc = l] \in ProcState
       /\ [r EXCEPT !.pc = l].pc = l
       /\ [r EXCEPT !.pc = l].sock = r.sock
       /\ [r EXCEPT !.pc = l].open = r.open
<1>1. Dead \in ProcState /\ Dead.pc = "dead"
  BY Parameters DEF ProcState, Dead, Label
<1>2. ASSUME NEW r \in ProcState, NEW l \in Label
      PROVE  /\ [r EXCEPT !.pc = l] \in ProcState
             /\ [r EXCEPT !.pc = l].pc = l
             /\ [r EXCEPT !.pc = l].sock = r.sock
             /\ [r EXCEPT !.pc = l].open = r.open
  BY DEF ProcState
<1> QED
  BY <1>1, <1>2

-----------------------------------------------------------------------------
(* Type correctness.  SessionTypeOK is inductive.                           *)

\* The part of SessionTypeOK about one process.
Fits(p, r) ==
  /\ r \in ProcState
  /\ p \in App /\ r.pc \in Setup => r.sock # 0 /\ r.open
  /\ p \in Fork /\ r.pc # "dead" => r.sock = p[1]

Typed == proc \in [Process -> ProcState] /\ \A q \in Process : Fits(q, proc[q])

LEMMA TypeByProcess ==
  SessionTypeOK <=>
    /\ flag \in {"", "0", "1"}
    /\ conn \in [Conn -> ConnStatus] /\ latest \in 0 .. MaxConn
    /\ registered \in BOOLEAN /\ unsent \in BOOLEAN
    /\ Typed
BY Parameters DEF Typed, SessionTypeOK, Fits, ProcState, Setup, Alive, At, Process

LEMMA OneProcess ==
  ASSUME SessionTypeOK, NEW p \in Process
  PROVE  Fits(p, proc[p]) /\ proc[p] \in ProcState /\ proc[p].sock \in 0..MaxConn
<1>1. Fits(p, proc[p])
  BY TypeByProcess DEF Typed
<1> QED
  BY <1>1 DEF Fits, ProcState

\* What a process may become leaves the others as they are.
LEMMA Becomes ==
  ASSUME Typed,
         NEW p \in Process, NEW r, Fits(p, r), proc' = [proc EXCEPT ![p] = r]
  PROVE  Typed'
BY DEF Typed, Fits

LEMMA BecomeBoth ==
  ASSUME Typed,
         NEW p \in Process, NEW r, Fits(p, r), NEW o \in Process, NEW s, Fits(o, s),
         proc' = [proc EXCEPT ![o] = s, ![p] = r]
  PROVE  Typed'
BY DEF Typed, Fits

\* A process that goes on keeps its socket.
LEMMA StaysFit ==
  ASSUME SessionTypeOK, NEW p \in Process, NEW l \in Label, Alive(p),
         p \in App /\ l \in Setup => proc[p].sock # 0 /\ proc[p].open
  PROVE  Fits(p, [proc[p] EXCEPT !.pc = l])
<1> DEFINE r == proc[p]
<1>1. r \in ProcState /\ Fits(p, r)
  BY OneProcess
<1>2. [r EXCEPT !.pc = l] \in ProcState /\ [r EXCEPT !.pc = l].pc = l
  BY <1>1, StateType
<1>3. [r EXCEPT !.pc = l].sock = r.sock /\ [r EXCEPT !.pc = l].open = r.open
  BY <1>1, StateType
<1> QED
  BY <1>1, <1>2, <1>3 DEF Fits, Alive, At

LEMMA GotoType ==
  ASSUME SessionTypeOK, NEW p \in Process, NEW l \in Label, Alive(p), Goto(p, l),
         p \in App /\ l \in Setup => proc[p].sock # 0 /\ proc[p].open
  PROVE  Typed'
<1>1. Fits(p, [proc[p] EXCEPT !.pc = l])
  BY StaysFit
<1>2. proc' = [proc EXCEPT ![p] = [proc[p] EXCEPT !.pc = l]]
  BY DEF Goto
<1> QED
  BY <1>1, <1>2, TypeByProcess, Becomes

LEMMA DeadFits == \A p \in Process : Fits(p, Dead)
BY StateType DEF Fits, Setup

LEMMA ReturnedFits ==
  ASSUME SessionTypeOK, NEW p \in Process
  PROVE  Fits(p, Returned(p))
<1>1. "idle" \in Label /\ "idle" \notin Setup
  BY DEF Label, Setup
<1>2. CASE p = MainApp
  <2> DEFINE r == proc[p]
  <2>1. r \in ProcState /\ Returned(p) = [r EXCEPT !.pc = "idle"] /\ p \notin Fork
    BY <1>2, OneProcess, Parameters DEF Returned
  <2>2. [r EXCEPT !.pc = "idle"] \in ProcState /\ [r EXCEPT !.pc = "idle"].pc = "idle"
    BY <1>1, <2>1, StateType
  <2> QED
    BY <1>1, <2>1, <2>2 DEF Fits
<1>3. CASE p # MainApp
  BY <1>3, DeadFits DEF Returned
<1> QED
  BY <1>2, <1>3

LEMMA CallbackType ==
  ASSUME SessionTypeOK, NEW p \in Process, NEW r, Fits(p, r), StartCallback(p, r)
  PROVE  Typed'
<1>1. CASE proc' = [proc EXCEPT ![p] = r]
  BY <1>1, TypeByProcess, Becomes
<1>2. CASE proc' = [proc EXCEPT ![p] = Dead]
  BY <1>2, DeadFits, TypeByProcess, Becomes
<1>3. ASSUME NEW a \in FreeSlots,
             proc' = [proc EXCEPT ![a] = [proc[p] EXCEPT !.pc = "idle"], ![p] = r]
      PROVE  Typed'
  <2>1. a \in App /\ a \in Process /\ a \notin Fork
    BY Parameters DEF FreeSlots
  <2>2. Fits(a, [proc[p] EXCEPT !.pc = "idle"])
    <3> DEFINE r0 == proc[p]
    <3>1. r0 \in ProcState /\ "idle" \in Label /\ "idle" \notin Setup
      BY OneProcess DEF Label, Setup
    <3>2. [r0 EXCEPT !.pc = "idle"] \in ProcState /\ [r0 EXCEPT !.pc = "idle"].pc = "idle"
      BY <3>1, StateType
    <3> QED
      BY <2>1, <3>1, <3>2 DEF Fits
  <2> QED
    BY <1>3, <2>1, <2>2, TypeByProcess, BecomeBoth
<1> QED
  BY <1>1, <1>2, <1>3 DEF StartCallback

LEMMA ForkType ==
  ASSUME SessionTypeOK, NEW p \in Process, NEW r, Fits(p, r),
         NEW kind \in {"heartbeat", "loop"}, NEW first \in Label,
         proc[p].sock # 0, StartFork(p, kind, first, r)
  PROVE  Typed'
<1>1. CASE proc' = [proc EXCEPT ![p] = Dead]
  BY <1>1, DeadFits, TypeByProcess, Becomes
<1>2. CASE proc' = [proc EXCEPT ![<<proc[p].sock, kind>>] = [proc[p] EXCEPT !.pc = first],
                                ![p] = r]
  <2> DEFINE f == <<proc[p].sock, kind>>
  <2>1. proc[p] \in ProcState /\ proc[p].sock \in Conn
    BY OneProcess, Parameters DEF Conn
  <2>2. f \in Fork /\ f \in Process /\ f \notin App /\ f[1] = proc[p].sock
    BY <2>1, Parameters
  <2>3. Fits(f, [proc[p] EXCEPT !.pc = first])
    BY <2>1, <2>2, StateType DEF Fits
  <2> HIDE DEF f
  <2> QED
    BY <1>2, <2>2, <2>3, TypeByProcess, BecomeBoth DEF f
<1> QED
  BY <1>1, <1>2 DEF StartFork

LEMMA SessionTypeInit == SessionInit => SessionTypeOK
<1> SUFFICES ASSUME SessionInit PROVE SessionTypeOK
  OBVIOUS
<1> DEFINE made == [Dead EXCEPT !.pc = "idle"]
<1>1. Dead \in ProcState /\ made \in ProcState /\ made.pc = "idle"
  <2>1. "idle" \in Label
    BY DEF Label
  <2> QED
    BY <2>1, StateType
<1>2. \A p \in Process : Fits(p, Dead) /\ (p \in App => Fits(p, made))
  BY <1>1, DeadFits, Parameters DEF Fits, Setup
<1>3. proc = [p \in Process |-> IF p = MainApp THEN made ELSE Dead]
  BY DEF SessionInit
<1> HIDE DEF made
<1>4. Typed
  BY <1>1, <1>2, <1>3, Parameters DEF Typed
<1>5. conn \in [Conn -> ConnStatus] /\ latest \in 0..MaxConn
  BY Parameters DEF SessionInit, ConnStatus
<1> QED
  BY <1>4, <1>5, TypeByProcess DEF SessionInit

\* A step that makes a process, and those it forks, what fits them.
LEMMA TypedStep ==
  ASSUME Typed', conn' \in [Conn -> ConnStatus], latest' \in 0..MaxConn,
         flag' \in {"", "0", "1"}, unsent' \in BOOLEAN, registered' \in BOOLEAN
  PROVE  SessionTypeOK'
BY Parameters DEF Typed, SessionTypeOK, Fits, ProcState, Setup, Alive, At, Process

LEMMA SessionTypeFlat ==
  ASSUME SessionTypeOK
  PROVE  /\ flag \in {"", "0", "1"}
         /\ conn \in [Conn -> ConnStatus] /\ latest \in 0 .. MaxConn
         /\ registered \in BOOLEAN /\ unsent \in BOOLEAN
BY DEF SessionTypeOK

\* A step that only moves one process, and leaves the flag one of its contents.
LEMMA MoveType ==
  ASSUME SessionTypeOK, NEW p \in Process, NEW l \in Label, Alive(p), Goto(p, l),
         p \in App /\ l \in Setup => proc[p].sock # 0 /\ proc[p].open,
         flag' \in {"", "0", "1"}, UNCHANGED <<conn, latest, registered, unsent>>
  PROVE  SessionTypeOK'
<1>1. Typed'
  BY GotoType
<1> QED
  BY <1>1, TypedStep, SessionTypeFlat

LEMMA AskType ==
  ASSUME SessionTypeOK, NEW p \in Process, Alive(p), AskConnected(p)
  PROVE  Typed'
<1>1. CASE IsConnected
  <2>1. Goto(p, "clear")
    BY <1>1 DEF AskConnected, Goto
  <2> QED
    BY <2>1, GotoType DEF Label, Setup
<1>2. CASE ~IsConnected
  <2>1. proc' = [proc EXCEPT ![p] = Returned(p)]
    BY <1>2 DEF AskConnected
  <2> QED
    BY <2>1, ReturnedFits, TypeByProcess, Becomes
<1> QED
  BY <1>1, <1>2

\* What connect() has done so far, in whichever process calls it.
LEMMA AppType ==
  ASSUME SessionTypeOK, NEW a \in App, a \in Process,
         \/ Connect(a) \/ Dial(a) \/ EmptyFlag(a) \/ SetConnected(a) \/ StartHeartBeat(a)
         \/ OnConnect(a) \/ RunLoop(a) \/ ClearAfterError(a) \/ OnConnectError(a)
  PROVE  SessionTypeOK'
<1> USE SessionTypeFlat
<1>0. /\ proc[a] \in ProcState /\ a \notin Fork
      /\ proc[a].pc \in Setup => proc[a].sock # 0 /\ proc[a].open
  BY OneProcess, Parameters DEF Fits
<1>1. CASE Connect(a)
  BY <1>1, MoveType DEF Connect, Alive, At, Label, Setup
<1>2. CASE Dial(a)
  <2>1. CASE Goto(a, "empty0") /\ UNCHANGED <<conn, latest>>
    BY <1>2, <2>1, MoveType DEF Dial, Alive, At, Label, Setup
  <2>2. CASE /\ latest' = latest + 1
             /\ conn' = [conn EXCEPT ![latest'] = "up"]
             /\ proc' = [proc EXCEPT ![a] = [pc |-> "empty1", sock |-> latest', open |-> TRUE]]
    <3>1. latest' \in 0..MaxConn /\ latest' # 0
      <4>1. latest < MaxConn /\ latest \in 0..MaxConn /\ MaxConn \in Nat
        BY <1>2, Parameters DEF Dial
      <4>2. latest' = latest + 1
        BY <2>2
      <4> HIDE SessionTypeFlat
      <4> QED
        BY <4>1, <4>2
    <3> DEFINE n == latest'
               r == [pc |-> "empty1", sock |-> n, open |-> TRUE]
    <3>2. Fits(a, r)
      <4>1. "empty1" \in Label /\ r.pc = "empty1" /\ r.sock = n /\ r.open
        BY DEF Label
      <4> HIDE DEF n
      <4>2. r \in ProcState
        BY <3>1, <4>1 DEF ProcState, n
      <4> HIDE DEF r
      <4> QED
        BY <1>0, <3>1, <4>1, <4>2 DEF Fits, n
    <3>3. Typed'
      BY <2>2, <3>2, TypeByProcess, Becomes
    <3>4. conn' \in [Conn -> ConnStatus]
      BY <2>2 DEF ConnStatus
    <3> QED
      BY <1>2, <3>1, <3>3, <3>4, TypedStep DEF Dial
  <2>3. CASE proc' = [proc EXCEPT ![a] = Dead] /\ UNCHANGED <<conn, latest>>
    <3>1. Typed'
      BY <2>3, DeadFits, TypeByProcess, Becomes
    <3> QED
      BY <1>2, <2>3, <3>1, TypedStep DEF Dial
  <2> QED
    BY <1>2, <2>1, <2>2, <2>3 DEF Dial
<1>3. CASE EmptyFlag(a)
  <2>1. CASE At(a, "empty1")
    BY <1>0, <1>3, <2>1, MoveType DEF EmptyFlag, Alive, At, Label, Setup
  <2>2. CASE At(a, "empty0")
    BY <1>3, <2>2, MoveType DEF EmptyFlag, Alive, At, Label, Setup
  <2> QED
    BY <1>3, <2>1, <2>2 DEF EmptyFlag, At
<1>4. CASE SetConnected(a)
  BY <1>0, <1>4, MoveType DEF SetConnected, Alive, At, Label, Setup
<1>5. CASE StartHeartBeat(a)
  <2>1. Fits(a, [proc[a] EXCEPT !.pc = "onConnect"]) /\ proc[a].sock # 0
    BY <1>0, <1>5, StaysFit DEF StartHeartBeat, Alive, At, Label, Setup
  <2>2. Typed'
    BY <1>5, <2>1, ForkType DEF StartHeartBeat, Label
  <2> QED
    BY <1>5, <2>2, TypedStep DEF StartHeartBeat
<1>6. CASE OnConnect(a)
  <2>1. Fits(a, [proc[a] EXCEPT !.pc = "loop"])
    BY <1>0, <1>6, StaysFit DEF OnConnect, Alive, At, Label, Setup
  <2>2. Typed'
    BY <1>6, <2>1, CallbackType DEF OnConnect
  <2> QED
    BY <1>6, <2>2, TypedStep DEF OnConnect
<1>7. CASE RunLoop(a)
  <2>1. proc[a].sock # 0 /\ Fits(a, Returned(a))
    BY <1>0, <1>7, ReturnedFits DEF RunLoop, At, Setup
  <2>2. CASE StartFork(a, "loop", "read", Returned(a))
    <3>1. Typed'
      BY <2>1, <2>2, ForkType DEF Label
    <3> QED
      BY <1>7, <3>1, TypedStep DEF RunLoop
  <2>3. CASE proc' = [proc EXCEPT ![a] = Returned(a)]
    <3>1. Typed'
      BY <2>1, <2>3, TypeByProcess, Becomes
    <3> QED
      BY <1>7, <3>1, TypedStep DEF RunLoop
  <2> QED
    BY <1>7, <2>2, <2>3 DEF RunLoop
<1>8. CASE ClearAfterError(a)
  BY <1>8, MoveType DEF ClearAfterError, Alive, At, Label, Setup
<1>9. CASE OnConnectError(a)
  <2>1. Typed'
    BY <1>9, ReturnedFits, CallbackType DEF OnConnectError
  <2> QED
    BY <1>9, <2>1, TypedStep DEF OnConnectError
<1> QED
  BY <1>1, <1>2, <1>3, <1>4, <1>5, <1>6, <1>7, <1>8, <1>9

\* disconnect(), in any process.
LEMMA DisconnectType ==
  ASSUME SessionTypeOK, NEW p \in Process,
         Clear(p) \/ ClearWrite(p) \/ CloseSocket(p) \/ OnDisconnect(p)
  PROVE  SessionTypeOK'
<1> USE SessionTypeFlat
<1>1. CASE Clear(p)
  BY <1>1, MoveType DEF Clear, Alive, At, Label, Setup
<1>2. CASE ClearWrite(p)
  BY <1>2, MoveType DEF ClearWrite, Alive, At, Label, Setup
<1>3. CASE CloseSocket(p)
  <2> DEFINE r0 == proc[p]
             c == r0.sock
  <2>1. CASE Goto(p, "onDisconnect") /\ UNCHANGED conn
    BY <1>3, <2>1, MoveType DEF CloseSocket, Alive, At, Label, Setup
  <2>2. CASE /\ proc' = [proc EXCEPT ![p].pc = "onDisconnect", ![p].open = (conn[c] = "reset")]
             /\ conn' = [conn EXCEPT ![c] = IF conn[c] = "up" THEN "gone" ELSE "reset"]
    <3> DEFINE b == conn[c] = "reset"
               r == [r0 EXCEPT !.pc = "onDisconnect", !.open = b]
    <3>1. r0 \in ProcState /\ Fits(p, r0) /\ r0.pc = "close"
      BY <1>3, OneProcess DEF CloseSocket, At
    <3>2. r \in ProcState /\ r.pc = "onDisconnect" /\ r.sock = r0.sock
      <4>1. "onDisconnect" \in Label /\ b \in BOOLEAN
        BY DEF Label
      <4> HIDE SessionTypeFlat DEF b, c, r0
      <4> QED
        BY <3>1, <4>1 DEF ProcState
    <3>3. Fits(p, r)
      BY <3>1, <3>2 DEF Fits, Setup
    <3>4. proc' = [proc EXCEPT ![p] = r]
      BY <2>2, TypeByProcess DEF Typed
    <3>5. Typed'
      BY <3>3, <3>4, TypeByProcess, Becomes
    <3>6. conn' \in [Conn -> ConnStatus]
      BY <2>2 DEF ConnStatus
    <3> QED
      BY <1>3, <3>5, <3>6, TypedStep DEF CloseSocket
  <2> QED
    BY <1>3, <2>1, <2>2 DEF CloseSocket
<1>4. CASE OnDisconnect(p)
  <2>1. Typed'
    BY <1>4, ReturnedFits, CallbackType DEF OnDisconnect
  <2> QED
    BY <1>4, <2>1, TypedStep DEF OnDisconnect
<1> QED
  BY <1>1, <1>2, <1>3, <1>4

\* The forks, the calls that only ask or emit, and the environment.
LEMMA OtherType ==
  ASSUME SessionTypeOK, NEW p \in Process,
         \/ HeartBeat(p) \/ ReadEnds(p) \/ Kill(p)
         \/ CallDisconnect(p) \/ EmitEvent(p) \/ CallbackEnds(p)
  PROVE  SessionTypeOK'
<1> USE SessionTypeFlat
<1>1. CASE HeartBeat(p)
  <2>1. conn' \in [Conn -> ConnStatus]
    BY <1>1 DEF HeartBeat, ConnStatus
  <2>2. CASE AskConnected(p)
    BY <1>1, <2>1, <2>2, AskType, TypedStep DEF HeartBeat, Alive, At
  <2>3. CASE UNCHANGED proc
    <3>1. Typed'
      BY <2>3, TypeByProcess DEF Typed
    <3> QED
      BY <1>1, <2>1, <3>1, TypedStep DEF HeartBeat
  <2>4. CASE proc' = [proc EXCEPT ![p] = Dead]
    <3>1. Typed'
      BY <2>4, DeadFits, TypeByProcess, Becomes
    <3> QED
      BY <1>1, <2>1, <3>1, TypedStep DEF HeartBeat
  <2> QED
    BY <1>1, <2>2, <2>3, <2>4 DEF HeartBeat
<1>2. CASE ReadEnds(p)
  BY <1>2, AskType, TypedStep DEF ReadEnds, Alive, At
<1>3. CASE CallDisconnect(p)
  BY <1>3, AskType, TypedStep DEF CallDisconnect, Alive, At
<1>4. CASE EmitEvent(p)
  <2>1. conn' \in [Conn -> ConnStatus] /\ unsent' \in BOOLEAN
    BY <1>4 DEF EmitEvent, ConnStatus
  <2>2. PICK r \in {Dead, Returned(p)} : proc' = [proc EXCEPT ![p] = r]
    BY <1>4 DEF EmitEvent
  <2>3. Typed'
    BY <2>2, DeadFits, ReturnedFits, TypeByProcess, Becomes
  <2> QED
    BY <1>4, <2>1, <2>3, TypedStep DEF EmitEvent
<1>5. CASE Kill(p) \/ CallbackEnds(p)
  <2>1. Typed'
    BY <1>5, DeadFits, TypeByProcess, Becomes DEF Kill, CallbackEnds
  <2> QED
    BY <1>5, <2>1, TypedStep DEF Kill, CallbackEnds
<1> QED
  BY <1>1, <1>2, <1>3, <1>4, <1>5

LEMMA SessionTypeStep == SessionTypeOK /\ [SessionNext]_sessionVars => SessionTypeOK'
<1> SUFFICES ASSUME SessionTypeOK, [SessionNext]_sessionVars PROVE SessionTypeOK'
  OBVIOUS
<1> USE SessionTypeFlat
<1>1. ASSUME NEW p \in Process, Working(p) \/ Kill(p) PROVE SessionTypeOK'
  BY <1>1, AppType, DisconnectType, OtherType DEF Working
<1>2. ASSUME NEW a \in App, Connect(a) \/ CallDisconnect(a) \/ EmitEvent(a) \/ CallbackEnds(a)
      PROVE  SessionTypeOK'
  BY <1>2, AppType, OtherType, Parameters
<1>3. ASSUME NEW c \in Conn, Lost(c) PROVE SessionTypeOK'
  <2>1. Typed' /\ conn' \in [Conn -> ConnStatus]
    BY <1>3, TypeByProcess DEF Lost, ConnStatus, Typed
  <2> QED
    BY <1>3, <2>1, TypedStep DEF Lost
<1>4. CASE UNCHANGED sessionVars
  <2>1. Typed'
    BY <1>4, TypeByProcess DEF Typed, sessionVars
  <2> QED
    BY <1>4, <2>1, TypedStep DEF sessionVars
<1> QED
  BY <1>1, <1>2, <1>3, <1>4 DEF SessionNext

(* DeviceClient.php's connect(), disconnect() and forks keep the state well  *)
(* typed, whatever fails: a process that is setting a session up has an open *)
(* socket, and a live fork has the socket of the connection it is for.       *)
THEOREM SessionTypeCorrect == SessionSpec => []SessionTypeOK
BY SessionTypeInit, SessionTypeStep, PTL DEF SessionSpec

-----------------------------------------------------------------------------
(* Somebody watches.  Between the places Watched speaks of, a process may   *)
(* only go to another of them or clear the flag: WatchInv says which they   *)
(* are for a fork, which Watched leaves open.                               *)

Watches(p, r) ==
  \/ p \in Fork /\ r.pc \in {"check", "read", "clear", "write0d"}
  \/ p \in App /\ r.pc \in {"heartbeat", "clear", "write0d"}

WatchInv == IsConnected => \E q \in Process : Watches(q, proc[q])

LEMMA WatchedFollows == WatchInv => Watched
BY Parameters DEF WatchInv, Watched, Watches, Alive, At, Process

\* A step of one process that clears the flag, or goes on watching if it did.
LEMMA WatchOne ==
  ASSUME SessionTypeOK, WatchInv, NEW p \in Process, NEW r, proc' = [proc EXCEPT ![p] = r],
         flag' = "1" => flag = "1" /\ (Watches(p, proc[p]) => Watches(p, r))
  PROVE  WatchInv'
<1> SUFFICES ASSUME flag' = "1" PROVE \E q \in Process : Watches(q, proc'[q])
  BY DEF WatchInv, IsConnected, Watches
<1>1. PICK q \in Process : Watches(q, proc[q])
  BY DEF WatchInv, IsConnected
<1>2. proc'[q] = IF q = p THEN r ELSE proc[q]
  BY TypeByProcess DEF Typed
<1> QED
  BY <1>1, <1>2

LEMMA WatchMove ==
  ASSUME SessionTypeOK, WatchInv, NEW p \in Process, NEW l \in Label, Goto(p, l),
         flag' = "1" => flag = "1" /\ ~Watches(p, proc[p])
  PROVE  WatchInv'
<1>1. proc' = [proc EXCEPT ![p] = [proc[p] EXCEPT !.pc = l]]
  BY DEF Goto
<1> QED
  BY <1>1, WatchOne

\* A slot for a callback was dead before, so nobody who watched is replaced.
LEMMA WatchCallback ==
  ASSUME SessionTypeOK, WatchInv, NEW p \in Process, NEW r, StartCallback(p, r),
         UNCHANGED flag, ~Watches(p, proc[p])
  PROVE  WatchInv'
<1>1. CASE proc' = [proc EXCEPT ![p] = r]
  BY <1>1, WatchOne
<1>2. CASE proc' = [proc EXCEPT ![p] = Dead]
  BY <1>2, WatchOne
<1>3. ASSUME NEW a \in FreeSlots,
             proc' = [proc EXCEPT ![a] = [proc[p] EXCEPT !.pc = "idle"], ![p] = r]
      PROVE  WatchInv'
  <2>1. a \in Process /\ ~Watches(a, proc[a])
    BY Parameters DEF FreeSlots, Alive, At, Watches
  <2> SUFFICES ASSUME flag = "1" PROVE \E q \in Process : Watches(q, proc'[q])
    BY DEF WatchInv, IsConnected, Watches
  <2>2. PICK q \in Process : Watches(q, proc[q])
    BY DEF WatchInv, IsConnected
  <2>3. q # a /\ q # p
    BY <2>1, <2>2
  <2>4. proc'[q] = proc[q]
    BY <1>3, <2>1, <2>3, TypeByProcess DEF Typed
  <2> QED
    BY <2>2, <2>4
<1> QED
  BY <1>1, <1>2, <1>3 DEF StartCallback

\* Nor is one by a fork, which watches from its first step on.
LEMMA WatchFork ==
  ASSUME SessionTypeOK, SessionFaults = {}, NEW p \in App, NEW r,
         NEW kind \in {"heartbeat", "loop"}, NEW first \in {"check", "read"},
         proc[p].sock # 0, StartFork(p, kind, first, r)
  PROVE  WatchInv'
<1> DEFINE f == <<proc[p].sock, kind>>
           s == [proc[p] EXCEPT !.pc = first]
<1>1. proc' = [proc EXCEPT ![f] = s, ![p] = r]
  BY DEF StartFork
<1>2. proc[p] \in ProcState /\ proc[p].sock \in Conn
  BY OneProcess, Parameters DEF Conn
<1>3. f \in Fork /\ f \in Process /\ f # p /\ p \in Process
  BY <1>2, Parameters
<1>4. s.pc = first
  BY <1>2 DEF ProcState
<1> HIDE DEF f, s
<1>5. proc'[f] = s
  BY <1>1, <1>3, TypeByProcess DEF Typed
<1>6. Watches(f, s)
  BY <1>3, <1>4 DEF Watches
<1> QED
  BY <1>3, <1>5, <1>6 DEF WatchInv, Watches

\* One who asks whether there is a session goes on to clear the flag if it says so.
LEMMA WatchAsk ==
  ASSUME SessionTypeOK, WatchInv, NEW p \in Process, AskConnected(p), UNCHANGED flag
  PROVE  WatchInv'
<1>1. CASE IsConnected
  <2>1. proc' = [proc EXCEPT ![p] = [proc[p] EXCEPT !.pc = "clear"]]
    BY <1>1 DEF AskConnected
  <2>2. [proc[p] EXCEPT !.pc = "clear"].pc = "clear"
    BY OneProcess DEF ProcState
  <2>3. Watches(p, [proc[p] EXCEPT !.pc = "clear"])
    BY <2>2 DEF Watches, Process
  <2> QED
    BY <2>1, <2>3, WatchOne
<1>2. CASE ~IsConnected
  BY <1>2 DEF WatchInv, IsConnected
<1> QED
  BY <1>1, <1>2

LEMMA WatchStep ==
  ASSUME SessionFaults = {}, SessionTypeOK, WatchInv, [SessionNext]_sessionVars
  PROVE  WatchInv'
<1>1. ASSUME NEW a \in App,
             \/ Connect(a) \/ Dial(a) \/ EmptyFlag(a) \/ ClearAfterError(a)
             \/ OnConnect(a) \/ OnConnectError(a) \/ EmitEvent(a) \/ CallbackEnds(a)
      PROVE  WatchInv'
  <2>0. a \in Process /\ a \notin Fork
    BY Parameters
  <2>1. ~Watches(a, proc[a])
    BY <1>1, <2>0 DEF Watches, At, Connect, Dial, EmptyFlag, ClearAfterError, OnConnect,
                      OnConnectError, EmitEvent, CallbackEnds
  <2>2. CASE Connect(a) \/ EmptyFlag(a) \/ ClearAfterError(a)
    BY <2>0, <2>1, <2>2, WatchMove DEF Connect, EmptyFlag, ClearAfterError, Label
  <2>3. CASE Dial(a) \/ EmitEvent(a) \/ CallbackEnds(a)
    <3>1. \E r : proc' = [proc EXCEPT ![a] = r]
      BY <2>3 DEF Dial, Goto, EmitEvent, CallbackEnds
    <3> QED
      BY <2>0, <2>1, <2>3, <3>1, WatchOne DEF Dial, EmitEvent, CallbackEnds
  <2>4. CASE OnConnect(a) \/ OnConnectError(a)
    BY <2>0, <2>1, <2>4, WatchCallback DEF OnConnect, OnConnectError
  <2> QED
    BY <1>1, <2>2, <2>3, <2>4
<1>2. ASSUME NEW a \in App, SetConnected(a) PROVE WatchInv'
  <2>1. a \in Process /\ proc[a] \in ProcState
    BY OneProcess, Parameters
  <2>2. proc'[a].pc = "heartbeat"
    BY <1>2, <2>1, TypeByProcess DEF SetConnected, Goto, Typed, ProcState
  <2> QED
    BY <2>1, <2>2 DEF WatchInv, Watches
<1>3. ASSUME NEW a \in App, StartHeartBeat(a) \/ RunLoop(a) PROVE WatchInv'
  <2>1. a \in Process /\ a \notin Fork /\ proc[a].sock # 0
    BY <1>3, OneProcess, Parameters DEF Fits, Setup, StartHeartBeat, RunLoop, At
  <2>2. CASE StartHeartBeat(a)
    BY <2>1, <2>2, WatchFork DEF StartHeartBeat
  <2>3. CASE RunLoop(a) /\ IsConnected
    BY <2>1, <2>3, WatchFork DEF RunLoop
  <2>4. CASE RunLoop(a) /\ ~IsConnected
    BY <2>4 DEF RunLoop, WatchInv, IsConnected
  <2> QED
    BY <1>3, <2>2, <2>3, <2>4
<1>4. ASSUME NEW p \in Process, Clear(p) \/ ClearWrite(p) PROVE WatchInv'
  BY <1>4 DEF Clear, ClearWrite, WatchInv, IsConnected
<1>5. ASSUME NEW p \in Process, CloseSocket(p) \/ OnDisconnect(p) PROVE WatchInv'
  <2>1. ~Watches(p, proc[p])
    BY <1>5 DEF Watches, CloseSocket, OnDisconnect, At
  <2>2. CASE CloseSocket(p)
    <3>1. \E r : proc' = [proc EXCEPT ![p] = r]
      <4>1. CASE Goto(p, "onDisconnect")
        BY <4>1 DEF Goto
      <4>2. CASE proc' = [proc EXCEPT ![p].pc = "onDisconnect",
                                      ![p].open = (conn[proc[p].sock] = "reset")]
        <5>1. proc' = [proc EXCEPT ![p] = [proc[p] EXCEPT !.pc = "onDisconnect",
                                                   !.open = (conn[proc[p].sock] = "reset")]]
          BY <4>2, TypeByProcess DEF Typed
        <5> QED
          BY <5>1
      <4> QED
        BY <2>2, <4>1, <4>2 DEF CloseSocket
    <3> QED
      BY <2>1, <2>2, <3>1, WatchOne DEF CloseSocket
  <2>3. CASE OnDisconnect(p)
    BY <2>1, <2>3, WatchCallback DEF OnDisconnect
  <2> QED
    BY <1>5, <2>2, <2>3
<1>6. ASSUME NEW f \in Fork, HeartBeat(f) \/ ReadEnds(f) PROVE WatchInv'
  <2>1. f \in Process
    BY Parameters
  <2>2. CASE ~IsConnected
    BY <1>6, <2>2 DEF HeartBeat, ReadEnds, WatchInv, IsConnected
  <2>3. CASE AskConnected(f)
    BY <1>6, <2>1, <2>3, WatchAsk DEF HeartBeat, ReadEnds
  <2>4. CASE UNCHANGED proc
    BY <1>6, <2>4 DEF HeartBeat, ReadEnds, WatchInv, IsConnected, Watches
  <2> QED
    BY <1>6, <2>2, <2>3, <2>4 DEF HeartBeat, ReadEnds
<1>7. ASSUME NEW a \in App, CallDisconnect(a) PROVE WatchInv'
  BY <1>7, WatchAsk, Parameters DEF CallDisconnect
<1>8. CASE \/ UNCHANGED sessionVars
           \/ \E c \in Conn : Lost(c)
  BY <1>8 DEF sessionVars, Lost, WatchInv, IsConnected, Watches
<1>9. \A p \in Process : ~Kill(p)
  BY DEF Kill
<1> QED
  BY <1>1, <1>2, <1>3, <1>4, <1>5, <1>6, <1>7, <1>8, <1>9 DEF SessionNext, Working

(* While albia.connected says '1', a fork or the process about to start one *)
(* will find out when the connection is lost, whatever applications,        *)
(* callbacks and forks do, as long as pcntl_fork() succeeds and no process  *)
(* is killed.                                                               *)
THEOREM SomebodyWatches == SessionFaults = {} => (SessionSpec => []Watched)
<1> SUFFICES ASSUME SessionFaults = {} PROVE SessionSpec => []Watched
  OBVIOUS
<1>1. SessionInit => WatchInv
  BY DEF SessionInit, WatchInv, IsConnected
<1>2. SessionTypeOK /\ WatchInv /\ [SessionNext]_sessionVars => WatchInv'
  BY WatchStep
<1> QED
  BY <1>1, <1>2, SessionTypeCorrect, WatchedFollows, PTL DEF SessionSpec

-----------------------------------------------------------------------------
(* emitEvent() is honest.  Without callbacks no second process runs the     *)
(* application's code, so the flag the main process goes by says '1' only   *)
(* between its own connect() and the first close(): forks clear it.         *)

Usable == {"idle", "heartbeat", "onConnect", "loop", "clear"}

HonestInv ==
  ~registered =>
    /\ \A a \in App : a # MainApp => ~Alive(a)
    /\ ~unsent
    /\ IsConnected /\ Alive(MainApp) => proc[MainApp].open /\ proc[MainApp].pc \in Usable

\* A step that may end processes of the application, and sets no flag.
LEMMA HonestElse ==
  ASSUME HonestInv, \A a \in App : proc'[a] = proc[a] \/ proc'[a].pc = "dead",
         flag' = "1" => flag = "1", UNCHANGED <<registered, unsent>>
  PROVE  HonestInv'
BY Parameters DEF HonestInv, Alive, At, IsConnected

\* A step of the main process that leaves it fit to emit, or without a flag.
LEMMA HonestMain ==
  ASSUME HonestInv, SessionTypeOK, NEW r, proc' = [proc EXCEPT ![MainApp] = r],
         flag' = "1" => r.pc = "dead" \/ (r.open /\ r.pc \in Usable),
         UNCHANGED <<registered, unsent>>
  PROVE  HonestInv'
<1>1. MainApp \in Process /\ proc \in [Process -> ProcState]
  BY TypeByProcess, Parameters DEF Typed
<1>2. proc'[MainApp] = r /\ \A a \in App : a # MainApp => proc'[a] = proc[a]
  BY <1>1, Parameters
<1> QED
  BY <1>2 DEF HonestInv, Alive, At, IsConnected

LEMMA HonestStep ==
  ASSUME SessionTypeOK, HonestInv, [SessionNext]_sessionVars
  PROVE  HonestInv'
<1> SUFFICES ASSUME ~registered, UNCHANGED registered PROVE HonestInv'
  <2>1. registered' = registered
    BY DEF SessionNext, Working, sessionVars, Connect, Dial, EmptyFlag, SetConnected,
           StartHeartBeat, OnConnect, RunLoop, ClearAfterError, OnConnectError, CallDisconnect,
           Clear, ClearWrite, CloseSocket, OnDisconnect, HeartBeat, ReadEnds, EmitEvent,
           Lost, CallbackEnds, Kill
  <2> QED
    BY <2>1 DEF HonestInv
<1>0. /\ FreeSlots = {}
      /\ \A a \in App : Alive(a) => a = MainApp
      /\ proc \in [Process -> ProcState]
  BY TypeByProcess DEF FreeSlots, HonestInv, Typed
<1> DEFINE main == proc[MainApp]
<1>m. main \in ProcState /\ MainApp \in Process /\ MainApp \notin Fork
  BY <1>0, Parameters
\* Whatever a fork becomes, or forks.
<1>1. ASSUME NEW f \in Fork, NEW r, proc' = [proc EXCEPT ![f] = r],
             flag' = "1" => flag = "1", UNCHANGED unsent
      PROVE  HonestInv'
  <2>1. \A a \in App : proc'[a] = proc[a]
    BY <1>0, <1>1, Parameters
  <2> QED
    BY <1>1, <2>1, HonestElse
<1>2. ASSUME NEW f \in Fork, Working(f) \/ Kill(f) PROVE HonestInv'
  <2>0. f \in Process /\ f \notin App
    BY Parameters
  <2>1. (flag' = "1" => flag = "1") /\ UNCHANGED unsent
    BY <1>2, <2>0 DEF Working, Kill, Clear, ClearWrite, CloseSocket, OnDisconnect, HeartBeat, ReadEnds
  <2>2. \E r : proc' = [proc EXCEPT ![f] = r]
    <3>1. CASE Clear(f) \/ ClearWrite(f) \/ Kill(f)
      BY <3>1 DEF Clear, ClearWrite, Kill, Goto
    <3>2. CASE CloseSocket(f)
      <4>1. CASE Goto(f, "onDisconnect")
        BY <4>1 DEF Goto
      <4>2. CASE proc' = [proc EXCEPT ![f].pc = "onDisconnect",
                                      ![f].open = (conn[proc[f].sock] = "reset")]
        <5>1. proc' = [proc EXCEPT ![f] = [proc[f] EXCEPT !.pc = "onDisconnect",
                                                   !.open = (conn[proc[f].sock] = "reset")]]
          BY <1>0, <2>0, <4>2
        <5> QED
          BY <5>1
      <4> QED
        BY <3>2, <4>1, <4>2 DEF CloseSocket
    <3>3. CASE OnDisconnect(f)
      BY <1>0, <3>3 DEF OnDisconnect, StartCallback
    <3>4. CASE HeartBeat(f) \/ ReadEnds(f)
      <4>1. CASE AskConnected(f)
        BY <4>1 DEF AskConnected
      <4>2. CASE UNCHANGED proc
        <5>1. proc' = [proc EXCEPT ![f] = proc[f]]
          BY <1>0, <2>0, <4>2
        <5> QED
          BY <5>1
      <4> QED
        BY <3>4, <4>1, <4>2 DEF HeartBeat, ReadEnds
    <3> QED
      BY <1>2, <2>0, <3>1, <3>2, <3>3, <3>4 DEF Working
  <2> QED
    BY <1>1, <2>1, <2>2
\* The main process: the flag is its own.
<1>3. ASSUME Connect(MainApp) \/ EmptyFlag(MainApp) \/ ClearAfterError(MainApp)
             \/ Clear(MainApp) \/ ClearWrite(MainApp)
      PROVE  HonestInv'
  <2>1. flag' # "1" /\ UNCHANGED unsent
    BY <1>3 DEF Connect, EmptyFlag, ClearAfterError, Clear, ClearWrite, IsConnected
  <2>2. \E r : proc' = [proc EXCEPT ![MainApp] = r]
    BY <1>3 DEF Connect, EmptyFlag, ClearAfterError, Clear, ClearWrite, Goto
  <2> QED
    BY <2>1, <2>2, HonestMain
<1>4. ASSUME Dial(MainApp) \/ OnConnectError(MainApp) \/ CloseSocket(MainApp) \/ OnDisconnect(MainApp)
      PROVE  HonestInv'
  <2>1. flag' # "1" /\ UNCHANGED unsent
    BY <1>0, <1>4 DEF HonestInv, Alive, At, IsConnected, Usable, Dial, OnConnectError, CloseSocket, OnDisconnect
  <2>2. \E r : proc' = [proc EXCEPT ![MainApp] = r]
    <3>1. CASE Dial(MainApp)
      BY <3>1 DEF Dial, Goto
    <3>2. CASE OnConnectError(MainApp) \/ OnDisconnect(MainApp)
      BY <1>0, <3>2 DEF OnConnectError, OnDisconnect, StartCallback
    <3>3. CASE CloseSocket(MainApp)
      <4>1. CASE Goto(MainApp, "onDisconnect")
        BY <4>1 DEF Goto
      <4>2. CASE proc' = [proc EXCEPT ![MainApp].pc = "onDisconnect",
                                      ![MainApp].open = (conn[main.sock] = "reset")]
        <5>1. proc' = [proc EXCEPT ![MainApp] = [main EXCEPT !.pc = "onDisconnect",
                                                   !.open = (conn[main.sock] = "reset")]]
          BY <1>0, <1>m, <4>2
        <5> QED
          BY <5>1
      <4> QED
        BY <3>3, <4>1, <4>2 DEF CloseSocket
    <3> QED
      BY <1>4, <3>1, <3>2, <3>3
  <2> QED
    BY <2>1, <2>2, HonestMain
<1>5. ASSUME SetConnected(MainApp) PROVE HonestInv'
  <2> DEFINE r == [main EXCEPT !.pc = "heartbeat"]
  <2>1. main.open
    BY <1>5, <1>m, OneProcess, Parameters DEF SetConnected, At, Fits, Setup
  <2>2. r.pc = "heartbeat" /\ r.open = main.open
    BY <1>m DEF ProcState
  <2>3. proc' = [proc EXCEPT ![MainApp] = r]
    BY <1>5 DEF SetConnected, Goto
  <2> HIDE DEF r
  <2> QED
    BY <1>5, <2>1, <2>2, <2>3, HonestMain DEF SetConnected, Usable
<1>6. ASSUME StartHeartBeat(MainApp) \/ OnConnect(MainApp) \/ RunLoop(MainApp) PROVE HonestInv'
  <2>1. main.open /\ main.pc \in {"heartbeat", "onConnect", "loop"}
    BY <1>6, <1>m, OneProcess, Parameters DEF StartHeartBeat, OnConnect, RunLoop, At, Fits, Setup
  <2>2. PICK r : /\ r.open = main.open /\ r.pc \in {"onConnect", "loop", "idle"}
                 /\ \/ proc' = [proc EXCEPT ![MainApp] = Dead]
                    \/ proc' = [proc EXCEPT ![MainApp] = r]
                    \/ \E f \in Fork : \E s : proc' = [proc EXCEPT ![f] = s, ![MainApp] = r]
    <3>0. \A l \in {"onConnect", "loop", "idle"} :
            [main EXCEPT !.pc = l].open = main.open /\ [main EXCEPT !.pc = l].pc = l
      BY <1>m DEF ProcState
    <3>1. main.sock \in Conn
      BY <1>6, <1>m, OneProcess, Parameters DEF StartHeartBeat, OnConnect, RunLoop, At, Fits, Setup, Conn
    <3>2. \A k \in {"heartbeat", "loop"} : <<main.sock, k>> \in Fork
      BY <3>1, Parameters
    <3>6. ASSUME NEW kind \in {"heartbeat", "loop"}, NEW first, NEW r, StartFork(MainApp, kind, first, r)
          PROVE  \/ proc' = [proc EXCEPT ![MainApp] = Dead]
                 \/ \E f \in Fork : \E s : proc' = [proc EXCEPT ![f] = s, ![MainApp] = r]
      <4>1. <<main.sock, kind>> \in Fork
        BY <3>2
      <4> QED
        BY <3>6, <4>1 DEF StartFork
    <3>3. CASE StartHeartBeat(MainApp)
      <4> DEFINE r == [main EXCEPT !.pc = "onConnect"]
      <4>1. r.open = main.open /\ r.pc = "onConnect"
        BY <3>0
      <4>2. StartFork(MainApp, "heartbeat", "check", r)
        BY <3>3 DEF StartHeartBeat
      <4> HIDE DEF r
      <4>3. \/ proc' = [proc EXCEPT ![MainApp] = Dead]
            \/ \E f \in Fork : \E s : proc' = [proc EXCEPT ![f] = s, ![MainApp] = r]
        BY <3>6, <4>2
      <4> QED
        BY <4>1, <4>3
    <3>4. CASE OnConnect(MainApp)
      BY <1>0, <3>0, <3>4 DEF OnConnect, StartCallback
    <3>5. CASE RunLoop(MainApp)
      <4> DEFINE r == [main EXCEPT !.pc = "idle"]
      <4>1. r.open = main.open /\ r.pc = "idle"
        BY <3>0
      <4>2. StartFork(MainApp, "loop", "read", r) \/ proc' = [proc EXCEPT ![MainApp] = r]
        BY <3>5 DEF RunLoop, Returned
      <4> HIDE DEF r
      <4>3. \/ proc' = [proc EXCEPT ![MainApp] = Dead]
            \/ proc' = [proc EXCEPT ![MainApp] = r]
            \/ \E f \in Fork : \E s : proc' = [proc EXCEPT ![f] = s, ![MainApp] = r]
        BY <3>6, <4>2
      <4> QED
        BY <4>1, <4>3
    <3> QED
      BY <1>6, <3>3, <3>4, <3>5
  <2>3. UNCHANGED <<registered, unsent>>
    BY <1>6 DEF StartHeartBeat, OnConnect, RunLoop
  <2>4. CASE proc' = [proc EXCEPT ![MainApp] = Dead]
    BY <2>3, <2>4, HonestMain, StateType
  <2>5. CASE proc' = [proc EXCEPT ![MainApp] = r]
    BY <2>1, <2>2, <2>3, <2>5, HonestMain DEF Usable
  <2>6. ASSUME NEW f \in Fork, NEW s, proc' = [proc EXCEPT ![f] = s, ![MainApp] = r]
        PROVE  HonestInv'
    <3>1. proc'[MainApp] = r /\ \A a \in App : a # MainApp => proc'[a] = proc[a]
      BY <1>0, <1>m, <2>6, Parameters
    <3> QED
      BY <2>1, <2>2, <2>3, <3>1 DEF HonestInv, Alive, At, IsConnected, Usable
  <2> QED
    BY <2>2, <2>4, <2>5, <2>6
<1>7. ASSUME CallDisconnect(MainApp) PROVE HonestInv'
  <2>1. UNCHANGED <<flag, unsent>>
    BY <1>7 DEF CallDisconnect
  <2>2. CASE IsConnected
    <3> DEFINE r == [main EXCEPT !.pc = "clear"]
    <3>1. r.pc = "clear" /\ r.open = main.open
      BY <1>m DEF ProcState
    <3>2. main.open
      BY <1>7, <2>2 DEF HonestInv, CallDisconnect, Alive, At
    <3>3. proc' = [proc EXCEPT ![MainApp] = r]
      BY <1>7, <2>2 DEF CallDisconnect, AskConnected
    <3> HIDE DEF r
    <3> QED
      BY <2>1, <3>1, <3>2, <3>3, HonestMain DEF Usable
  <2>3. CASE ~IsConnected
    <3>1. \E r : proc' = [proc EXCEPT ![MainApp] = r]
      BY <1>7 DEF CallDisconnect, AskConnected
    <3> QED
      BY <2>1, <2>3, <3>1, HonestMain DEF IsConnected
  <2> QED
    BY <2>2, <2>3
<1>8. ASSUME EmitEvent(MainApp) PROVE HonestInv'
  <2>1. main.open /\ main.pc = "idle"
    BY <1>8 DEF HonestInv, EmitEvent, Alive, At
  <2>2. UNCHANGED unsent
    BY <1>8, <2>1, SessionTypeFlat DEF EmitEvent, HonestInv
  <2>3. [main EXCEPT !.pc = "idle"].pc = "idle" /\ [main EXCEPT !.pc = "idle"].open = main.open
    BY <1>m DEF ProcState
  <2>4. PICK r : /\ proc' = [proc EXCEPT ![MainApp] = r]
                 /\ r = Dead \/ (r.open = main.open /\ r.pc = "idle")
    BY <1>8, <2>3 DEF EmitEvent, Returned
  <2> QED
    BY <1>8, <2>1, <2>2, <2>4, HonestMain, StateType DEF EmitEvent, Usable
\* The environment.
<1>9. ASSUME NEW a \in App, Kill(a) \/ CallbackEnds(a) PROVE HonestInv'
  <2>1. \A b \in App : proc'[b] = proc[b] \/ proc'[b].pc = "dead"
    BY <1>0, <1>9, Parameters, StateType DEF Kill, CallbackEnds
  <2> QED
    BY <1>9, <2>1, HonestElse DEF Kill, CallbackEnds
<1>10. CASE UNCHANGED sessionVars \/ \E c \in Conn : Lost(c)
  BY <1>10, HonestElse DEF sessionVars, Lost
<1>11. ASSUME NEW a \in App,
              Working(a) \/ Connect(a) \/ CallDisconnect(a) \/ EmitEvent(a)
       PROVE  a = MainApp
  BY <1>0, <1>11, Parameters
     DEF Working, Connect, Dial, EmptyFlag, SetConnected, StartHeartBeat, OnConnect, RunLoop,
         ClearAfterError, OnConnectError, CallDisconnect, Clear, ClearWrite, CloseSocket,
         OnDisconnect, EmitEvent, Alive, At
<1> QED
  BY <1>2, <1>3, <1>4, <1>5, <1>6, <1>7, <1>8, <1>9, <1>10, <1>11, <1>m, Parameters
     DEF SessionNext, Working, Process

(* Without registered callbacks, emitEvent() returns TRUE only of events it *)
(* has written to a socket it has open: whatever forks fail and processes   *)
(* die, for any number of connections.                                      *)
THEOREM EmitsHonestly == SessionSpec => []EmitHonest
<1>1. SessionInit => HonestInv
  <2> SUFFICES ASSUME SessionInit PROVE HonestInv
    OBVIOUS
  <2>1. \A a \in App : a # MainApp => ~Alive(a)
    BY Parameters, StateType DEF SessionInit, Alive, At
  <2> QED
    BY <2>1 DEF SessionInit, HonestInv, IsConnected
<1>2. SessionTypeOK /\ HonestInv /\ [SessionNext]_sessionVars => HonestInv'
  BY HonestStep
<1>3. HonestInv => EmitHonest
  BY DEF HonestInv, EmitHonest
<1> QED
  BY <1>1, <1>2, <1>3, SessionTypeCorrect, PTL DEF SessionSpec
=============================================================================
