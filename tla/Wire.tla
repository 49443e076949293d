--------------------------------- MODULE Wire ---------------------------------
(* The frames on the socket: write(), writeBinary(), emitBinary() and       *)
(* emitPing() of Version1X.php with the lengths of Payload/Encoder.php.     *)
(* The forks of a client share one socket and none locks it, so that what   *)
(* they write alternates: frame by frame, and within a frame chunk by chunk,*)
(* for fwrite() hands a long string to the kernel in pieces.  The server    *)
(* reads frames by their length (RFC 6455) and joins the text frame of a    *)
(* binary message with the binary frame after it (Socket.IO).               *)
EXTENDS Naturals, Sequences, FiniteSets

CONSTANTS
  Emitter,    \* the processes that call emitBinary()
  Pinger,     \* the processes that call emitPing()
  BlobLength, \* the lengths of the serialised messages
  TextLength, \* the length of a text frame's payload
  ChunkSize,  \* what fwrite() writes at once
  MaxSent     \* the messages and pings each process sends

ASSUME WireAssumption ==
  /\ BlobLength \subseteq Nat
  /\ TextLength \in Nat
  /\ ChunkSize \in Nat \ {0}

VARIABLES
  begun,      \* per process, how many messages it has begun
  output,    \* per process, the chunks of the current message not yet written
  wire,      \* the chunks the server has not read
  need,      \* the bytes of the current frame the server has not read
  inFrame,   \* the frame the server is in
  head,      \* the message whose binary frame it expects, or <<>>
  joined,    \* the messages it has put together, as <<of the text, of the binary>>
  garbled    \* it has read bytes it cannot make sense of

wireVars == <<begun, output, wire, need, inFrame, head, joined, garbled>>

(***************************************************************************)
(* Lengths.                                                                *)

\* Mutant of EncodeLength: the boundary of the short form is off by one.
EncodeLengthVariant(n) ==
  IF n > 65535 THEN <<127, (n \div 65536) \div 65536, n>>
  ELSE IF n > 126 THEN <<126, n % 65536>>
  ELSE <<n>>

\* Encoder::encode(): the seven bits of the length and the words after them.
\* The pair of 32-bit words keeps n whole, the 16-bit word what fits in it.
EncodeLength(n) ==
  IF n > 65535 THEN <<127, 0, n>>
  ELSE IF n > 125 THEN <<126, n % 65536>>
  ELSE <<n>>

\* The length a reader of RFC 6455 takes from it, and the bytes of the header:
\* two, those of the length, and the four of the mask, which is always there.
PeerLength(code) == IF code[1] = 127 THEN code[3]
                    ELSE IF code[1] = 126 THEN IF Len(code) = 2 THEN code[2] ELSE 0
                    ELSE code[1]
HeaderLength(code) == 6 + (IF code[1] = 127 THEN 8 ELSE IF code[1] = 126 THEN 2 ELSE 0)

(***************************************************************************)
(* Writers.                                                                *)

Proc == Emitter \cup Pinger

\* fwrite(): the pieces of a frame of kind k with a payload of n bytes.
Pieces(msg, k, n) ==
  LET code == EncodeLength(n)
      total == n + 6 + (IF Len(code) = 3 THEN 8 ELSE IF Len(code) = 2 THEN 2 ELSE 0)
      count == (total + ChunkSize - 1) \div ChunkSize
  IN [i \in 1..count |->
        [msg |-> msg, kind |-> k, code |-> IF i = 1 THEN code ELSE <<>>,
         bytes |-> IF i < count THEN ChunkSize ELSE total - (count - 1) * ChunkSize]]

WireInit ==
  /\ begun = [p \in Proc |-> 0]
  /\ output = [p \in Proc |-> <<>>]
  /\ wire = <<>> /\ need = 0 /\ inFrame = "none" /\ head = <<>>
  /\ joined = <<>> /\ garbled = FALSE

\* A process begins its next message when the last one is written.
Begin(p) ==
  /\ output[p] = <<>> /\ begun[p] < MaxSent
  /\ begun' = [begun EXCEPT ![p] = @ + 1]

\* emitBinary(): a text frame that announces one binary attachment, then the
\* attachment, behind the byte that says message.
EmitBinary(p) ==
  /\ p \in Emitter /\ Begin(p)
  /\ \E n \in BlobLength :
       LET msg == <<p, begun[p] + 1>> IN
       output' = [output EXCEPT ![p] = Pieces(msg, "head", TextLength) \o Pieces(msg, "blob", n + 1)]
  /\ UNCHANGED <<wire, need, inFrame, head, joined, garbled>>

\* emitPing(): one text frame, of Engine.IO.
EmitPing(p) ==
  /\ p \in Pinger /\ Begin(p)
  /\ output' = [output EXCEPT ![p] = Pieces(<<p, begun[p] + 1>>, "ping", TextLength)]
  /\ UNCHANGED <<wire, need, inFrame, head, joined, garbled>>

\* The kernel takes the next piece of what a process writes.
WritePiece(p) ==
  /\ output[p] # <<>>
  /\ wire' = Append(wire, Head(output[p]))
  /\ output' = [output EXCEPT ![p] = Tail(@)]
  /\ UNCHANGED <<begun, need, inFrame, head, joined, garbled>>

(***************************************************************************)
(* The server.                                                             *)

\* A frame is complete: Engine.IO answers a ping itself; Socket.IO wants a
\* binary frame after a text frame that announced one, and nowhere else.
FrameRead(kind, msg) ==
  CASE kind = "ping" -> UNCHANGED <<head, joined, garbled>>
    [] kind = "head" /\ head = <<>> -> head' = msg /\ UNCHANGED <<joined, garbled>>
    [] kind = "blob" /\ head # <<>> -> /\ joined' = Append(joined, <<head, msg>>)
                                       /\ head' = <<>>
                                       /\ UNCHANGED garbled
    [] OTHER -> garbled' = TRUE /\ UNCHANGED <<head, joined>>

ServerReads ==
  /\ wire # <<>> /\ ~garbled
  /\ wire' = Tail(wire)
  /\ LET c == Head(wire)
         begins == need = 0
         kind == IF begins THEN c.kind ELSE inFrame
         wanted == IF ~begins THEN need
                   ELSE IF c.code = <<>> THEN 0
                   ELSE PeerLength(c.code) + HeaderLength(c.code)
     IN IF wanted < c.bytes
        THEN garbled' = TRUE /\ UNCHANGED <<need, inFrame, head, joined>>
        ELSE /\ need' = wanted - c.bytes
             /\ IF need' = 0 THEN inFrame' = "none" /\ FrameRead(kind, c.msg)
                ELSE inFrame' = kind /\ UNCHANGED <<head, joined, garbled>>
  /\ UNCHANGED <<begun, output>>

WireNext ==
  \/ \E p \in Proc : EmitBinary(p) \/ EmitPing(p) \/ WritePiece(p)
  \/ ServerReads

WireSpec == WireInit /\ [][WireNext]_wireVars

(***************************************************************************)

\* The server makes sense of every byte, and what it puts together is what one
\* process sent: a ping of the heartbeat fork between the two frames of a record
\* does no harm, and the lengths are those it reads at every boundary of the
\* encoding.  It takes a single process that calls emitBinary(), and frames that
\* fwrite() writes at once: two such processes, or a ping within a long frame,
\* and it fails.
MessagesWhole == ~garbled /\ \A i \in 1..Len(joined) : joined[i][1] = joined[i][2]
=============================================================================
