------------------------------- MODULE Session -------------------------------
(***************************************************************************)
(* The session of DeviceClient.php: connect(), disconnect() and the forks  *)
(* that connect() leaves behind, one that pings (startHeartBeatTimer) and  *)
(* one that reads (runLoop).  Each works on its own copy of the client and *)
(* so on the socket of the connection it was forked for, but all ask the   *)
(* same file, albia.connected, whether there still is a session.           *)
(*                                                                         *)
(* Connections have numbers, so that a fork of an old one can be told from *)
(* one of the new.  The record queue and its writer are in WriteQueue, the *)
(* frames the reading fork takes off its socket in EventLoop.              *)
(***************************************************************************)
EXTENDS Naturals, FiniteSets

CONSTANTS
  App,            \* processes that run application code
  MainApp,        \* the one that made the client; the others are slots for callbacks
  MaxConn,        \* bound: connections made
  SessionFaults   \* SUBSET {"fork", "kill"}: pcntl_fork() fails, a process dies

VARIABLES
  flag,    \* contents of albia.connected: "1", "0" or ""
  conn,    \* each connection, as the network sees it
  latest,  \* the number of the newest one
  proc,    \* the processes
  registered, \* whether the application has set its callbacks
  unsent   \* history: whether some emitEvent() returned TRUE without sending anything

sessionVars == <<flag, conn, latest, proc, registered, unsent>>

Conn == 1 .. MaxConn
Fork == Conn \X {"heartbeat", "loop"}
Process == App \cup Fork

ASSUME SessionAssumption ==
  /\ MainApp \in App /\ App \cap Fork = {}
  /\ MaxConn \in Nat
  /\ SessionFaults \subseteq {"fork", "kill"}

(* "gone": the peer closed it or the network lost it, which a writer learns *)
(* only from its second write on.                                           *)
ConnStatus == {"none", "up", "gone", "reset"}

Label == {"dead", "idle", "dial", "empty1", "write1", "heartbeat", "onConnect", "loop",
          "empty0", "write0", "onConnectError",
          "check", "read", "clear", "write0d", "close", "onDisconnect"}

Dead == [pc |-> "dead", sock |-> 0, open |-> FALSE]

(* The constructor has set the flag to '0'.                                 *)
SessionInit ==
  /\ flag = "0"
  /\ conn = [c \in Conn |-> "none"] /\ latest = 0
  /\ proc = [p \in Process |-> IF p = MainApp THEN [Dead EXCEPT !.pc = "idle"] ELSE Dead]
  /\ registered \in BOOLEAN /\ unsent = FALSE

At(p, label) == proc[p].pc = label
Goto(p, label) == proc' = [proc EXCEPT ![p].pc = label]
Alive(p) == ~At(p, "dead")
IsConnected == flag = "1"

(* Where a public method, or disconnect() in a fork, returns to.  The bound *)
(* on a callback is that it makes one call; a fork has nothing left to do.  *)
Returned(p) == IF p = MainApp THEN [proc[p] EXCEPT !.pc = "idle"] ELSE Dead

-----------------------------------------------------------------------------
(* Forks. *)

FreeSlots == {a \in App \ {MainApp} : registered /\ ~Alive(a)}

(* p starts a callback, a copy of itself, and is next afterwards.  Without  *)
(* a registered callback, or with every slot in use, none is started.  A    *)
(* failed fork is an exception that ends p.                                 *)
StartCallback(p, next) ==
  \/ FreeSlots = {} /\ proc' = [proc EXCEPT ![p] = next]
  \/ \E a \in FreeSlots :
       proc' = [proc EXCEPT ![a] = [proc[p] EXCEPT !.pc = "idle"], ![p] = next]
  \/ "fork" \in SessionFaults /\ proc' = [proc EXCEPT ![p] = Dead]

StartFork(p, kind, first, next) ==
  \/ proc' = [proc EXCEPT ![<<proc[p].sock, kind>>] = [proc[p] EXCEPT !.pc = first],
                          ![p] = next]
  \/ "fork" \in SessionFaults /\ proc' = [proc EXCEPT ![p] = Dead]

-----------------------------------------------------------------------------
(* connect(). *)

Connect(a) ==
  /\ At(a, "idle") /\ ~IsConnected /\ latest < MaxConn
  /\ Goto(a, "dial")
  /\ UNCHANGED <<flag, conn, latest, registered, unsent>>

\* Mutant of Dial: the client keeps the old client object.
DialKeepsSocket(a) ==
  /\ At(a, "dial") /\ latest < MaxConn
  /\ latest' = latest + 1
  /\ conn' = [conn EXCEPT ![latest'] = "up"]
  /\ Goto(a, "empty1")
  /\ UNCHANGED <<flag, registered, unsent>>

(* The HTTP requests, whose Requests_Exception is handed to the observer,   *)
(* then the new socket.  The old client object goes, and its copy of the    *)
(* old socket with it.  No one catches what a refused connection throws.    *)
Dial(a) ==
  /\ At(a, "dial") /\ latest < MaxConn
  /\ \/ Goto(a, "empty0") /\ UNCHANGED <<conn, latest>>
     \/ /\ latest' = latest + 1
        /\ conn' = [conn EXCEPT ![latest'] = "up"]
        /\ proc' = [proc EXCEPT ![a] = [pc |-> "empty1", sock |-> latest', open |-> TRUE]]
     \/ proc' = [proc EXCEPT ![a] = Dead] /\ UNCHANGED <<conn, latest>>
  /\ UNCHANGED <<flag, registered, unsent>>

(* file_put_contents() empties the file before it writes.                   *)
EmptyFlag(p) ==
  /\ proc[p].pc \in {"empty1", "empty0"}
  /\ flag' = ""
  /\ Goto(p, IF At(p, "empty1") THEN "write1" ELSE "write0")
  /\ UNCHANGED <<conn, latest, registered, unsent>>

SetConnected(a) ==
  /\ At(a, "write1")
  /\ flag' = "1"
  /\ Goto(a, "heartbeat")
  /\ UNCHANGED <<conn, latest, registered, unsent>>

StartHeartBeat(a) ==
  /\ At(a, "heartbeat")
  /\ StartFork(a, "heartbeat", "check", [proc[a] EXCEPT !.pc = "onConnect"])
  /\ UNCHANGED <<flag, conn, latest, registered, unsent>>

OnConnect(a) ==
  /\ At(a, "onConnect")
  /\ StartCallback(a, [proc[a] EXCEPT !.pc = "loop"])
  /\ UNCHANGED <<flag, conn, latest, registered, unsent>>

RunLoop(a) ==
  /\ At(a, "loop")
  /\ IF IsConnected THEN StartFork(a, "loop", "read", Returned(a))
     ELSE proc' = [proc EXCEPT ![a] = Returned(a)]
  /\ UNCHANGED <<flag, conn, latest, registered, unsent>>

(* The observer's error handler.                                            *)
ClearAfterError(a) ==
  /\ At(a, "write0")
  /\ flag' = "0"
  /\ Goto(a, "onConnectError")
  /\ UNCHANGED <<conn, latest, registered, unsent>>

OnConnectError(a) ==
  /\ At(a, "onConnectError")
  /\ StartCallback(a, Returned(a))
  /\ UNCHANGED <<flag, conn, latest, registered, unsent>>

-----------------------------------------------------------------------------
(* disconnect(), by the application or by a fork, which ends afterwards. *)

(* The flag is read, and cleared later.                                     *)
AskConnected(p) ==
  proc' = [proc EXCEPT ![p] = IF IsConnected THEN [@ EXCEPT !.pc = "clear"] ELSE Returned(p)]

CallDisconnect(a) ==
  /\ At(a, "idle")
  /\ AskConnected(a)
  /\ UNCHANGED <<flag, conn, latest, registered, unsent>>

\* Mutant of Clear: disconnect() does not call setConnected(false).
ClearForgets(p) ==
  /\ At(p, "clear")
  /\ Goto(p, "close")
  /\ UNCHANGED <<flag, conn, latest, registered, unsent>>

Clear(p) ==
  /\ At(p, "clear")
  /\ flag' = "" /\ Goto(p, "write0d")
  /\ UNCHANGED <<conn, latest, registered, unsent>>

ClearWrite(p) ==
  /\ At(p, "write0d")
  /\ flag' = "0" /\ Goto(p, "close")
  /\ UNCHANGED <<conn, latest, registered, unsent>>

(* close(): the CLOSE packet makes the server close the connection; if it   *)
(* cannot be written, the exception is dropped and the socket stays.        *)
CloseSocket(p) ==
  LET c == proc[p].sock IN
  /\ At(p, "close")
  /\ IF ~proc[p].open
     THEN Goto(p, "onDisconnect") /\ UNCHANGED conn
     ELSE /\ proc' = [proc EXCEPT ![p].pc = "onDisconnect", ![p].open = (conn[c] = "reset")]
          /\ conn' = [conn EXCEPT ![c] = IF conn[c] = "up" THEN "gone" ELSE "reset"]
  /\ UNCHANGED <<flag, latest, registered, unsent>>

OnDisconnect(p) ==
  /\ At(p, "onDisconnect")
  /\ StartCallback(p, Returned(p))
  /\ UNCHANGED <<flag, conn, latest, registered, unsent>>

-----------------------------------------------------------------------------
(* The forks. *)

\* Mutant of HeartBeat: a failed ping is tried again.
HeartBeatForever(f) ==
  LET c == proc[f].sock IN
  /\ At(f, "check")
  /\ proc' = IF IsConnected THEN proc ELSE [proc EXCEPT ![f] = Dead]
  /\ conn' = [conn EXCEPT ![c] = IF IsConnected /\ @ = "gone" THEN "reset" ELSE @]
  /\ UNCHANGED <<flag, latest, registered, unsent>>

(* The loop condition and sendPing() read the flag; sleep(25) is between    *)
(* two rounds.  A write to a connection the peer has closed succeeds once,  *)
(* the next one throws and disconnect() is called.                          *)
HeartBeat(f) ==
  LET c == proc[f].sock IN
  /\ At(f, "check")
  /\ IF IsConnected /\ proc[f].open /\ conn[c] = "reset" THEN AskConnected(f)
     ELSE proc' = IF IsConnected THEN proc ELSE [proc EXCEPT ![f] = Dead]
  /\ conn' = [conn EXCEPT ![c] = IF IsConnected /\ @ = "gone" THEN "reset" ELSE @]
  /\ UNCHANGED <<flag, latest, registered, unsent>>

(* An empty read or feof(): the observer calls disconnect().                *)
ReadEnds(f) ==
  /\ At(f, "read") /\ conn[proc[f].sock] # "up"
  /\ AskConnected(f)
  /\ UNCHANGED <<flag, conn, latest, registered, unsent>>

-----------------------------------------------------------------------------
(* emitEvent(). *)

\* Mutant of EmitEvent: the flag is not asked.
EmitEventBlindly(a) ==
  LET c == proc[a].sock IN
  /\ At(a, "idle") /\ c # 0
  /\ unsent' = (unsent \/ ~proc[a].open)
  /\ UNCHANGED <<flag, conn, latest, registered, proc>>

(* A null socket is an Error, a failed write a SocketException; both leave  *)
(* emitEvent().  A socket this process has closed swallows the event.       *)
EmitEvent(a) ==
  LET c == proc[a].sock
      fails == c = 0 \/ (proc[a].open /\ conn[c] = "reset")
  IN /\ At(a, "idle") /\ IsConnected
     /\ proc' = IF fails THEN [proc EXCEPT ![a] = Dead] ELSE [proc EXCEPT ![a] = Returned(a)]
     /\ conn' = IF c # 0 /\ proc[a].open /\ conn[c] = "gone"
                THEN [conn EXCEPT ![c] = "reset"] ELSE conn
     /\ unsent' = (unsent \/ (~fails /\ ~proc[a].open))
     /\ UNCHANGED <<flag, latest, registered>>

-----------------------------------------------------------------------------
(* The environment. *)

Lost(c) ==
  /\ conn[c] = "up"
  /\ conn' = [conn EXCEPT ![c] = "gone"]
  /\ UNCHANGED <<flag, latest, proc, registered, unsent>>

CallbackEnds(a) ==
  /\ a # MainApp /\ At(a, "idle")
  /\ proc' = [proc EXCEPT ![a] = Dead]
  /\ UNCHANGED <<flag, conn, latest, registered, unsent>>

Kill(p) ==
  /\ "kill" \in SessionFaults /\ Alive(p)
  /\ proc' = [proc EXCEPT ![p] = Dead]
  /\ UNCHANGED <<flag, conn, latest, registered, unsent>>

(* What a process does once it has begun, as the scheduler lets it.         *)
Working(p) ==
  \/ p \in App /\ (\/ Dial(p) \/ EmptyFlag(p) \/ SetConnected(p)
                   \/ StartHeartBeat(p) \/ OnConnect(p) \/ RunLoop(p)
                   \/ ClearAfterError(p) \/ OnConnectError(p))
  \/ Clear(p) \/ ClearWrite(p) \/ CloseSocket(p) \/ OnDisconnect(p)
  \/ p \in Fork /\ (HeartBeat(p) \/ ReadEnds(p))

SessionNext ==
  \/ \E p \in Process : Working(p) \/ Kill(p)
  \/ \E a \in App : Connect(a) \/ CallDisconnect(a) \/ EmitEvent(a) \/ CallbackEnds(a)
  \/ \E c \in Conn : Lost(c)

SessionSpec == SessionInit /\ [][SessionNext]_sessionVars

(* Every process gets its turn; nobody has to call anything.                *)
SessionFairSpec == SessionSpec /\ \A p \in Process : WF_sessionVars(Working(p))

-----------------------------------------------------------------------------
(* Properties. *)

SessionTypeOK ==
  /\ flag \in {"", "0", "1"}
  /\ conn \in [Conn -> ConnStatus] /\ latest \in 0 .. MaxConn
  /\ proc \in [Process -> [pc : Label, sock : 0 .. MaxConn, open : BOOLEAN]]
  /\ registered \in BOOLEAN /\ unsent \in BOOLEAN
  /\ \A a \in App : proc[a].pc \in {"empty1", "write1", "heartbeat", "onConnect", "loop"}
                    => proc[a].sock # 0 /\ proc[a].open
  /\ \A f \in Fork : Alive(f) => proc[f].sock = f[1]

(* While albia.connected says '1', somebody is there who will find out when *)
(* the connection is lost: a fork, or the process that is about to start    *)
(* it.  Otherwise connect() would return false ever after.                  *)
Watched ==
  IsConnected => \/ \E f \in Fork : Alive(f)
                 \/ \E a \in App : proc[a].pc \in {"heartbeat", "clear", "write0d"}

(* When every connection is lost, the flag does not go on saying '1'.       *)
LossNoticed == []<>(~IsConnected \/ \E c \in Conn : conn[c] = "up")

(* The forks of a connection that is gone end, whatever connections there   *)
(* are besides.                                                             *)
ForksEnd == []<>(\A f \in Fork : conn[f[1]] \in {"gone", "reset"} => ~Alive(f))

(* When no callback, which might reconnect in a process of its own, is      *)
(* registered, emitEvent() returns true only of an event that it has handed *)
(* to an open socket.                                                       *)
EmitHonest == ~registered => ~unsent

(* example.php:20-25: onDisconnect reports "Disconnected" and reconnects.   *)
(* A fork tears the session down only when the newest connection is lost.   *)
TeardownJustified ==
  \A f \in Fork : At(f, "clear") => conn[latest] # "up"
=============================================================================
