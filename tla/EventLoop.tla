----------------------------- MODULE EventLoop -----------------------------
(***************************************************************************)
(* The fork that reads the WebSocket: runLoop() of DeviceClient.php        *)
(* subscribes to loop() of elephant.io's Version1X.php, which takes frames *)
(* off the stream with receiveFragment() until the stream is closed.  An   *)
(* event is two messages, a text header "451-[operation, ...]" and a       *)
(* binary payload; a message is one frame or several fragments.  The first *)
(* exception, or the end of the loop, makes the fork call disconnect().    *)
(*                                                                         *)
(* One instance is one connection.  The server, the link and the other     *)
(* processes of the client are the environment.                            *)
(***************************************************************************)
EXTENDS Naturals, Sequences, SequencesExt

CONSTANTS
  MaxSend,      \* bound: how many messages or events the server sends
  SplitText,    \* SUBSET BOOLEAN: may a text message come in fragments?
  SplitPayload, \* SUBSET BOOLEAN: may a payload come in fragments?
  Long,         \* SUBSET BOOLEAN: may a payload exceed 125 bytes?
  CloseKinds,   \* SUBSET {"status", "bare"}: what a close frame may carry
  Operations,   \* the operations of event headers: "event" and others
  Registered,   \* BOOLEAN: is there an onReceiveEvent callback?
  ForkFails     \* BOOLEAN: may pcntl_fork() fail?

ASSUME EventLoopAssumption ==
  /\ MaxSend \in Nat
  /\ SplitText \subseteq BOOLEAN
  /\ SplitPayload \subseteq BOOLEAN
  /\ Long \subseteq BOOLEAN
  /\ CloseKinds \subseteq {"status", "bare"}
  /\ Registered \in BOOLEAN
  /\ ForkFails \in BOOLEAN

VARIABLES
  link,        \* the frames under way
  inbox,       \* the frames that arrived and were not read
  server,      \* "open"; "closing" after a close frame; "gone"
  sent,        \* how many messages and events the server sent
  events,      \* history: the events among them, in order
  connected,   \* albia.connected, shared with the other processes
  stream,      \* this fork's $stream: "open", a "closed" resource, or "null"
  huge,        \* $huge_payload: the fragments received so far
  header,      \* the header whose payload is expected
  pc,          \* where the fork is
  stopped,     \* isStopped of the Rx observer
  resume,      \* where disconnect() returns to
  disconnects, \* history: how often this fork called disconnect()
  delivered    \* history: the events handed to onReceiveEvent, in order

environment == <<link, server, sent, events>>
session == <<connected, resume, disconnects>>
reader == <<stream, huge, header, pc, stopped, delivered>>
vars == <<link, inbox, server, sent, events, connected, stream, huge, header, pc,
          stopped, resume, disconnects, delivered>>

-----------------------------------------------------------------------------
(* Messages and frames.  What a message says is cut in two halves, so that  *)
(* a fragment is part of one.                                               *)

Message == [what : {"text", "header", "payload"}, op : Operations \cup {"none"}, n : Nat]

NoHeader == [what |-> "header", op |-> "none", n |-> 0]

Body(m) == <<<<m, 1>>, <<m, 2>>>>

Frame(final, long, body) ==
  [close |-> "no", final |-> final, long |-> long, body |-> body]

Frames(m, fragmented, long) ==
  IF fragmented
  THEN <<Frame(FALSE, long, <<<<m, 1>>>>), Frame(TRUE, long, <<<<m, 2>>>>)>>
  ELSE <<Frame(TRUE, long, Body(m))>>

CloseFrame(kind) ==
  [close |-> kind, final |-> TRUE, long |-> FALSE, body |-> <<>>]

Labels == {"head", "read", "payload", "error", "complete", "disconnect",
           "unset", "close", "callback", "ended", "dead"}

Init ==
  /\ link = <<>> /\ inbox = <<>> /\ server = "open" /\ sent = 0 /\ events = <<>>
  /\ connected = TRUE
  /\ stream = "open" /\ huge = <<>> /\ header = NoHeader
  /\ pc = "head" /\ stopped = FALSE /\ resume = "head"
  /\ disconnects = 0 /\ delivered = <<>>

-----------------------------------------------------------------------------
(* The environment. *)

(* A pong, the answer to of(), or another message the loop ignores.         *)
SendText(fragmented) ==
  /\ server = "open" /\ sent < MaxSend
  /\ sent' = sent + 1
  /\ link' = link \o Frames([what |-> "text", op |-> "none", n |-> sent'],
                            fragmented, FALSE)
  /\ UNCHANGED <<inbox, server, events, reader, session>>

(* An event: its header and, right behind it, its payload.                  *)
SendEvent(op, fh, fp, long) ==
  /\ server = "open" /\ sent < MaxSend
  /\ sent' = sent + 1
  /\ link' = link
       \o Frames([what |-> "header", op |-> op, n |-> sent'], fh, FALSE)
       \o Frames([what |-> "payload", op |-> op, n |-> sent'], fp, long)
  /\ events' = IF op = "event" THEN Append(events, sent') ELSE events
  /\ UNCHANGED <<inbox, server, reader, session>>

SendClose(kind) ==
  /\ server = "open"
  /\ server' = "closing"
  /\ link' = Append(link, CloseFrame(kind))
  /\ UNCHANGED <<inbox, sent, events, reader, session>>

Arrive ==
  /\ link # <<>>
  /\ link' = Tail(link)
  /\ inbox' = Append(inbox, Head(link))
  /\ UNCHANGED <<server, sent, events, reader, session>>

(* The server closes the TCP connection, or the link breaks: what is still   *)
(* under way, be it the second half of an event, never arrives.             *)
Lose ==
  /\ server # "gone"
  /\ server' = "gone"
  /\ link' = <<>>
  /\ UNCHANGED <<inbox, sent, events, reader, session>>

(* Another process of the client disconnects, or connects again.            *)
OthersSwitch ==
  /\ connected' = ~connected
  /\ UNCHANGED <<inbox, environment, reader, resume, disconnects>>

-----------------------------------------------------------------------------
(* The loop. *)

\* Mutant of AtEnd: a loop that does not ask feof().
AtEndNull == stream = "null"

(* feof() is true when everything was read and the peer has closed, and     *)
(* false of a closed resource.                                              *)
AtEnd == stream = "null" \/ (stream = "open" /\ inbox = <<>> /\ server = "gone")

LoopHead ==
  /\ pc = "head"
  /\ pc' = IF AtEnd THEN "complete" ELSE "read"
  /\ huge' = IF AtEnd THEN huge ELSE <<>>
  /\ UNCHANGED <<inbox, environment, stream, header, stopped, delivered, session>>

\* Mutant of Delivers: an event whose payload is not whole is passed over.
DeliversLeniently(payload) ==
  LET whole == payload = Body([header EXCEPT !.what = "payload"]) IN
  /\ pc' = "head"
  /\ delivered' = IF whole /\ ~stopped /\ header.op = "event" /\ Registered
                  THEN Append(delivered, header.n) ELSE delivered

\* Mutant of Delivers: an event is handed over only while the flag is set.
DeliversConnected(payload) ==
  /\ payload = Body([header EXCEPT !.what = "payload"])
  /\ pc' = "head"
  /\ delivered' = IF connected /\ ~stopped /\ header.op = "event" /\ Registered
                  THEN Append(delivered, header.n) ELSE delivered

\* Mutant of Delivers: the observer goes on after it was stopped.
DeliversStopped(payload) ==
  /\ payload = Body([header EXCEPT !.what = "payload"])
  /\ pc' = "head"
  /\ delivered' = IF header.op = "event" THEN Append(delivered, header.n)
                  ELSE delivered

(* OnNext: the payload goes to processOperation().  Of an event without     *)
(* all its fields DeviceEvent cannot be built: the Error ends the fork.     *)
Delivers(payload) ==
  LET m == header IN
  IF stopped \/ m.op # "event" \/ ~Registered
  THEN pc' = "head" /\ delivered' = delivered
  ELSE \/ /\ payload = Body([m EXCEPT !.what = "payload"])
          /\ pc' = "head"
          /\ delivered' = Append(delivered, m.n)
       \/ /\ payload # Body([m EXCEPT !.what = "payload"]) \/ ForkFails
          /\ pc' = "dead" /\ delivered' = delivered

(* What loop() does with what receiveFragment() returned.                   *)
Returns(payload) ==
  \/ /\ pc = "read"
     /\ delivered' = delivered
     /\ IF payload # <<>> /\ payload[1][1].what = "header"
        THEN pc' = "payload" /\ header' = payload[1][1]
        ELSE pc' = "head" /\ header' = header
  \/ pc = "payload" /\ header' = header /\ Delivers(payload)

Receiving == pc \in {"read", "payload"}

Arrived == Receiving /\ stream = "open" /\ inbox # <<>>

(* A fragment that is not the last one is kept; null is returned, which     *)
(* makes the inner loop read on, but is the payload when one was expected.  *)
ReceivePart ==
  LET frame == Head(inbox) IN
  /\ Arrived /\ frame.close = "no" /\ ~frame.long /\ ~frame.final
  /\ inbox' = Tail(inbox)
  /\ huge' = huge \o frame.body
  /\ \/ pc = "read" /\ UNCHANGED <<pc, header, delivered>>
     \/ pc = "payload" /\ header' = header /\ Delivers(<<>>)
  /\ UNCHANGED <<environment, stream, stopped, session>>

ReceiveWhole ==
  LET frame == Head(inbox) IN
  /\ Arrived /\ frame.close = "no" /\ ~frame.long /\ frame.final
  /\ inbox' = Tail(inbox)
  /\ huge' = <<>>
  /\ Returns(huge \o frame.body)
  /\ UNCHANGED <<environment, stream, stopped, session>>

(* The extended length of a longer frame is decoded by sprintB(), which no  *)
(* class defines: the Error ends the fork.                                  *)
ReceiveLong ==
  /\ Arrived /\ Head(inbox).long
  /\ inbox' = Tail(inbox)
  /\ pc' = "dead"
  /\ UNCHANGED <<environment, stream, huge, header, stopped, delivered, session>>

(* A close frame with a status is answered by close(), which leaves null,   *)
(* or throws when the write fails; one without only closes the resource.    *)
ReceiveClose ==
  LET answered == Head(inbox).close = "status" IN
  /\ Arrived /\ Head(inbox).close # "no"
  /\ inbox' = Tail(inbox)
  /\ \/ /\ stream' = IF answered THEN "null" ELSE "closed"
        /\ huge' = <<>>
        /\ Returns(huge)
     \/ /\ answered /\ server = "gone"
        /\ pc' = "error"
        /\ UNCHANGED <<stream, huge, header, delivered>>
  /\ UNCHANGED <<environment, stopped, session>>

(* readLength() throws on a closed resource, at the end of the connection,  *)
(* and when nothing comes before the stream's timeout.                      *)
ReceiveNothing ==
  /\ Receiving
  /\ stream = "closed" \/ (stream = "open" /\ inbox = <<>>)
  /\ pc' = "error"
  /\ UNCHANGED <<inbox, environment, stream, huge, header, stopped, delivered,
                 session>>

-----------------------------------------------------------------------------
(* The observer and disconnect().                                           *)

\* Mutant of Notify: the observer is never stopped.
NotifyAgain(label, next) ==
  /\ pc = label
  /\ pc' = "disconnect" /\ resume' = next
  /\ disconnects' = disconnects + 1
  /\ UNCHANGED <<inbox, environment, connected, stream, huge, header, stopped,
                 delivered>>

(* onError() in the loop, onCompleted() after it: the first of them stops   *)
(* the observer and calls disconnect(), any later one does nothing.         *)
Notify(label, next) ==
  /\ pc = label
  /\ IF stopped
     THEN pc' = next /\ UNCHANGED <<stopped, resume, disconnects>>
     ELSE /\ pc' = "disconnect" /\ resume' = next
          /\ stopped' = TRUE /\ disconnects' = disconnects + 1
  /\ UNCHANGED <<inbox, environment, connected, stream, huge, header, delivered>>

OnError == Notify("error", "head")

\* Mutant of OnCompleted: the end of the stream is not reported.
OnCompletedSilent ==
  /\ pc = "complete" /\ pc' = "ended"
  /\ UNCHANGED <<inbox, environment, stream, huge, header, stopped, delivered,
                 session>>

OnCompleted == Notify("complete", "ended")

Disconnect ==
  /\ pc = "disconnect"
  /\ pc' = IF connected THEN "unset" ELSE resume
  /\ UNCHANGED <<inbox, environment, stream, huge, header, stopped, delivered,
                 session>>

Unset ==
  /\ pc = "unset"
  /\ connected' = FALSE
  /\ pc' = "close"
  /\ UNCHANGED <<inbox, environment, stream, huge, header, stopped, resume,
                 disconnects, delivered>>

(* close() returns at once unless the stream is open; when its write fails  *)
(* the exception is swallowed and the stream stays open.                    *)
Close ==
  /\ pc = "close"
  /\ pc' = "callback"
  /\ \/ stream = "open" /\ stream' = "null"
     \/ (stream # "open" \/ server = "gone") /\ stream' = stream
  /\ UNCHANGED <<inbox, environment, huge, header, stopped, delivered, session>>

(* The fork of onDisconnect; when it fails the exception ends this fork.    *)
CallBack ==
  /\ pc = "callback"
  /\ pc' = resume \/ (ForkFails /\ pc' = "dead")
  /\ UNCHANGED <<inbox, environment, stream, huge, header, stopped, delivered,
                 session>>

-----------------------------------------------------------------------------
Loop ==
  \/ LoopHead \/ ReceivePart \/ ReceiveWhole \/ ReceiveLong \/ ReceiveClose
  \/ ReceiveNothing \/ OnError \/ OnCompleted \/ Disconnect \/ Unset \/ Close
  \/ CallBack

Environment ==
  \/ \E f \in SplitText : SendText(f)
  \/ \E op \in Operations, fh \in SplitText, fp \in SplitPayload, l \in Long :
        SendEvent(op, fh, fp, l)
  \/ \E kind \in CloseKinds : SendClose(kind)
  \/ Arrive \/ Lose \/ OthersSwitch

Next == Loop \/ Environment

Spec == Init /\ [][Next]_vars

(* A read on a connection that is alive: it times out unless a frame comes. *)
Waiting == Receiving /\ stream = "open" /\ inbox = <<>> /\ server # "gone"

(* The scheduler runs the fork, and what is under way arrives unless the    *)
(* connection breaks.  A read that waits need not time out: pongs may come  *)
(* in time for ever, beyond the MaxSend messages there are here.            *)
FairSpec == Spec /\ WF_vars(~Waiting /\ Loop) /\ WF_vars(Arrive)

-----------------------------------------------------------------------------
(* Properties. *)

Half == Message \X {1, 2}

FrameSet == [close : {"no", "status", "bare"}, final : BOOLEAN, long : BOOLEAN,
             body : Seq(Half)]

(* Every variable stays in its domain: frames carry pieces of messages,     *)
(* disconnect() returns to the loop or to its end.                          *)
TypeOK ==
  /\ link \in Seq(FrameSet)
  /\ inbox \in Seq(FrameSet)
  /\ server \in {"open", "closing", "gone"}
  /\ sent \in 0 .. MaxSend
  /\ events \in Seq(Nat)
  /\ connected \in BOOLEAN
  /\ stream \in {"open", "closed", "null"}
  /\ huge \in Seq(Half)
  /\ header \in Message
  /\ pc \in Labels
  /\ stopped \in BOOLEAN
  /\ resume \in {"head", "ended"}
  /\ disconnects \in Nat
  /\ delivered \in Seq(Nat)

(* However many reads fail, and whichever of onError() and onCompleted()    *)
(* come, the fork calls disconnect() once at most: a second call could take *)
(* down a connection made in the meantime.                                  *)
OneDisconnect == disconnects <= 1

(* The loop never ends without a call of disconnect(): the application      *)
(* learns that the connection it reads from is over.                        *)
EndReported == pc = "ended" => disconnects = 1

(* The events handed to the application are the first ones the server sent, *)
(* in order: no event is skipped, mixed with another or handed over twice,  *)
(* whatever was lost, fragmented or timed out between header and payload.   *)
(* When a loop that was not stopped has read all there was they are all the *)
(* events: none is passed over behind the last one handed over either.      *)
CaughtUp ==
  /\ Registered /\ ~stopped /\ stream = "open" /\ pc = "head"
  /\ server = "open" /\ inbox = <<>> /\ link = <<>>

DeliveredPrefix ==
  /\ IsPrefix(delivered, events)
  /\ CaughtUp => delivered = events

(* Once the fork has called disconnect() it hands over no further event,    *)
(* also when the stream stayed open and frames keep coming.                 *)
SilentAfterDisconnect == [][disconnects > 0 => delivered' = delivered]_vars

(* While no read fails and no connection breaks every event the server sent *)
(* is handed to onReceiveEvent in the end: the loop goes on reading until   *)
(* it has, or calls disconnect().  Nothing forces it to do the latter, for  *)
(* a read that waits need not time out, so that an event that is passed     *)
(* over in silence leaves a loop that waits for ever with an event missing. *)
EventDelivered == []<>(delivered = events \/ disconnects > 0)

(* When the connection is gone the loop ends, and with it the fork.         *)
LoopEnds == []<>(server = "gone" => pc \in {"ended", "dead"})
=============================================================================
