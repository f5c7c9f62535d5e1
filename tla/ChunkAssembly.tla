---------------------------- MODULE ChunkAssembly ----------------------------
(***************************************************************************)
(* How open62541 makes messages of what a socket returns. TCP cuts and     *)
(* joins chunks anywhere; the connection keeps an incomplete chunk for the *)
(* next packet (UA_Connection_processChunks), the SecureChannel keeps the  *)
(* chunks of an incomplete message (UA_SecureChannel_processChunk).        *)
(*                                                                         *)
(* A chunk is three units on the stream. One unit is shorter than the 8    *)
(* bytes of a header, two hold it, the third has the sequence header and   *)
(* the body, and is no shorter than a header. Bytes that do not start with *)
(* a header are taken for none.                                            *)
(*                                                                         *)
(* The sender is open62541's, and external where it does what open62541    *)
(* does not: it may interleave messages and abort one. Renewals, whose OPN *)
(* sets the sequence number anew, are left out.                            *)
(*                                                                         *)
(* History (log and the place nth of a chunk in it, sent, delivered, lost, *)
(* blind) is only recorded: no guard looks at it, nor does what is not     *)
(* history.                                                                *)
(***************************************************************************)
EXTENDS Naturals, Sequences

CONSTANTS
  Modulus,      \* sequence numbers are 0 .. Modulus-1 (2^32)
  RollFrom,     \* above it a sender may roll over (4294966271)
  RollTo,       \* and goes on below it (1024)
  First,        \* the numbers a connection may start from
  maxChunkCount,\* remoteConf.maxChunkCount
  MaxIds,       \* bound of the model: request ids
  MaxSends,     \* bound of the model: chunks sent in all
  MaxFails,     \* bound of the model: allocations that fail
  MaxConnects   \* bound of the model: connections

ASSUME NumbersAssumption ==
  /\ Modulus \in Nat /\ RollFrom \in Nat /\ RollTo \in Nat \ {0}
  /\ RollTo <= RollFrom /\ RollFrom < Modulus
  /\ First \subseteq 0 .. Modulus - 1
ASSUME BoundsAssumption ==
  /\ maxChunkCount \in Nat \ {0}
  /\ MaxIds \in Nat /\ MaxSends \in Nat /\ MaxFails \in Nat /\ MaxConnects \in Nat
(* Too few chunks for a number to come round again on one connection.      *)
ASSUME OnceAssumption == MaxSends <= RollFrom - RollTo + 2

VARIABLES
  up,          \* open, broken (by the peer or the network), closed
  stream,      \* units on their way to the client
  incomplete,  \* connection->incompleteMessage
  message,     \* what processChunks has in hand, from pos to end
  stage,       \* recv, or chunks inside processChunks
  called,      \* data.called, FALSE outside processChunks
  chunks,      \* channel->chunks: the body parts of each incomplete message
  recvSeq,     \* channel->receiveSequenceNumber
  sendSeq,     \* the sender's channel->sendSequenceNumber
  writing,     \* parts sent of each message under way
  requestId,   \* client->requestId: the last id used
  log,         \* history: the OPN and the chunks sent on this connection, with
               \* sent and what should be in channel->chunks after each
  sent,        \* history: messages sent in full on this connection
  delivered,   \* history: messages given to processServiceResponse on it
  lost,        \* history: bytes were thrown away on this connection
  blind,       \* history: and that where the numbers roll over
  bounds       \* counts of what is bounded

buffers == <<incomplete, message, stage, called>>
sender == <<sendSeq, writing, requestId, log, sent>>
history == <<delivered, lost, blind>>
chunkVars == <<up, stream, buffers, chunks, recvSeq, sender, history, bounds>>

-----------------------------------------------------------------------------
Ids == 1 .. MaxIds
Parts == [id : Ids, part : 1 .. maxChunkCount]
Chunks == [body : Parts, kind : {"C", "F", "A"}, seq : 0 .. Modulus - 1, nth : Nat]
Units == [chunk : Chunks, at : 1 .. 3]
Messages == [id : Ids, body : Seq(Parts)]
Marks == [seq : 0 .. Modulus - 1, sent : Seq(Messages), held : [Ids -> Seq(Parts)]]

(* An incomplete chunk is shorter than a chunk.                            *)
ChunkTypeOK ==
  /\ up \in {"open", "broken", "closed"}
  /\ stream \in Seq(Units)
  /\ incomplete \in Seq(Units) /\ Len(incomplete) < 3
  /\ message \in Seq(Units)
  /\ stage \in {"recv", "chunks"}
  /\ called \in BOOLEAN
  /\ chunks \in [Ids -> Seq(Parts)]
  /\ recvSeq \in 0 .. Modulus - 1
  /\ sendSeq \in 0 .. Modulus - 1
  /\ writing \in [Ids -> 0 .. maxChunkCount]
  /\ requestId \in 0 .. MaxIds
  /\ log \in Seq(Marks)
  /\ sent \in Seq(Messages)
  /\ delivered \in Seq(Messages)
  /\ lost \in BOOLEAN /\ blind \in BOOLEAN
  /\ bounds \in [sends : 0 .. MaxSends, fails : 0 .. MaxFails,
                 connects : 0 .. MaxConnects]

None == [id \in Ids |-> <<>>]

ChunkInit ==
  /\ up = "closed"
  /\ stream = <<>> /\ incomplete = <<>> /\ message = <<>>
  /\ stage = "recv" /\ called = FALSE
  /\ chunks = None
  /\ recvSeq = 0 /\ sendSeq = 0
  /\ writing = [id \in Ids |-> 0]
  /\ requestId = 0
  /\ log = <<>> /\ sent = <<>> /\ delivered = <<>>
  /\ lost = FALSE /\ blind = FALSE
  /\ bounds = [sends |-> 0, fails |-> 0, connects |-> 0]

-----------------------------------------------------------------------------
(* A new connection: connectInternal overwrites the connection, and with   *)
(* it incompleteMessage; the OPN sets the sequence number; request ids go  *)
(* on, and so do the chunks a lost connection has left with the channel.   *)
ConnectAnew(s) ==
  /\ up = "closed" /\ bounds.connects < MaxConnects
  /\ up' = "open"
  /\ stream' = <<>> /\ incomplete' = <<>>
  /\ recvSeq' = s /\ sendSeq' = s
  /\ writing' = [id \in Ids |-> 0]
  /\ log' = <<[seq |-> s, sent |-> <<>>, held |-> chunks]>>
  /\ sent' = <<>> /\ delivered' = <<>>
  /\ lost' = FALSE /\ blind' = FALSE
  /\ bounds' = [bounds EXCEPT !.connects = @ + 1]
  /\ UNCHANGED <<message, stage, called, chunks, requestId>>

-----------------------------------------------------------------------------
(* The sender.                                                             *)

(* Numbers count up, in 32 bits; other senders roll over early.            *)
NextSeq == {(sendSeq + 1) % Modulus}
           \cup IF RollFrom < sendSeq /\ sendSeq < Modulus - 1 THEN 0 .. RollTo - 1 ELSE {}

Fresh(id) == id = requestId + 1
Begun(id) == writing[id] > 0

Whole(id, n) == [id |-> id, body |-> [k \in 1 .. n |-> [id |-> id, part |-> k]]]

(* What a chunk makes of messages delivered and of channel->chunks, by the *)
(* protocol.                                                               *)
After(mark, c) ==
  LET id == c.body.id
      whole == Append(mark.held[id], c.body)
  IN  [seq |-> c.seq,
       sent |-> IF c.kind = "F" THEN Append(mark.sent, [id |-> id, body |-> whole])
                ELSE mark.sent,
       held |-> [mark.held EXCEPT ![id] = IF c.kind = "C" THEN whole ELSE <<>>]]

(* The three units of the next chunk.                                      *)
Send(id, part, kind, seq) ==
  LET c == [body |-> [id |-> id, part |-> part], kind |-> kind, seq |-> seq,
            nth |-> Len(log) + 1]
  IN  /\ up = "open" /\ bounds.sends < MaxSends
      /\ seq \in NextSeq
      /\ stream' = stream \o [i \in 1 .. 3 |-> [chunk |-> c, at |-> i]]
      /\ sendSeq' = seq
      /\ log' = Append(log, After(log[Len(log)], c))
      /\ bounds' = [bounds EXCEPT !.sends = @ + 1]
      /\ UNCHANGED <<up, buffers, chunks, recvSeq, history>>

(* sendSymmetricChunk, for an intermediate or a final chunk.               *)
SendChunk(id, kind, seq) ==
  LET part == writing[id] + 1
  IN  /\ Fresh(id) \/ Begun(id)
      /\ part <= maxChunkCount
      /\ Send(id, part, kind, seq)
      /\ requestId' = IF Fresh(id) THEN id ELSE requestId
      /\ writing' = [writing EXCEPT ![id] = IF kind = "C" THEN part ELSE 0]
      /\ sent' = IF kind = "F" THEN Append(sent, Whole(id, part)) ELSE sent

(* The abort chunk of other senders.                                       *)
SendAbort(id, seq) ==
  /\ Begun(id)
  /\ Send(id, 1, "A", seq)
  /\ writing' = [writing EXCEPT ![id] = 0]
  /\ UNCHANGED <<requestId, sent>>

(* A message too long for the receiver is given up with its first chunks   *)
(* sent; no number is used, and nothing tells the receiver.                *)
GiveUp(id) ==
  /\ up = "open" /\ writing[id] = maxChunkCount
  /\ writing' = [writing EXCEPT ![id] = 0]
  /\ UNCHANGED <<up, stream, buffers, chunks, recvSeq, sendSeq, requestId, log, sent,
                 history, bounds>>

(* The connection breaks; what has arrived can still be read.              *)
Break(n) ==
  /\ up = "open"
  /\ up' = "broken"
  /\ stream' = SubSeq(stream, 1, n)
  /\ UNCHANGED <<buffers, chunks, recvSeq, sender, history, bounds>>

-----------------------------------------------------------------------------
(* Closing.                                                                *)

(* UA_Client_close of an open channel, which frees its chunks.             *)
Close ==
  /\ up' = "closed"
  /\ stream' = <<>>
  /\ message' = <<>> /\ stage' = "recv" /\ called' = FALSE
  /\ chunks' = None
  /\ UNCHANGED <<incomplete, recvSeq, sender, history>>

(* After BADCONNECTIONCLOSED the state is DISCONNECTED when UA_Client_close*)
(* is called, which then leaves the channel as it is.                      *)
CloseLost ==
  /\ up = "broken" /\ stage = "recv" /\ stream = <<>>
  /\ up' = "closed"
  /\ UNCHANGED <<stream, buffers, chunks, recvSeq, sender, history, bounds>>

(* A synchronous call times out, or the application disconnects.           *)
TimesOut ==
  /\ up # "closed" /\ stage = "recv"
  /\ Close
  /\ UNCHANGED bounds

-----------------------------------------------------------------------------
(* Receiving.                                                              *)
MayFail == bounds.fails < MaxFails
Fails == MayFail /\ bounds' = [bounds EXCEPT !.fails = @ + 1]

(* The bytes from here on are gone; a gap in the numbers will show it, but *)
(* not one that begins where they may roll over.                           *)
Lose ==
  /\ lost' = TRUE
  /\ blind' = (blind \/ recvSeq >= RollFrom)
  /\ UNCHANGED delivered

Reads(n) ==
  /\ up # "closed" /\ stage = "recv"
  /\ n <= Len(stream)
  /\ stream' = SubSeq(stream, n + 1, Len(stream))

Receive(n) ==
  /\ Reads(n)
  /\ message' = incomplete \o SubSeq(stream, 1, n)
  /\ incomplete' = <<>>
  /\ stage' = "chunks"
  /\ UNCHANGED <<up, called, chunks, recvSeq, sender, history, bounds>>

(* prependIncompleteChunk fails: both are freed. No chunk was processed,   *)
(* so receiveChunksBlocking does not look at the error and goes on.        *)
PrependFails(n) ==
  /\ Reads(n)
  /\ incomplete # <<>>
  /\ incomplete' = <<>>
  /\ Lose /\ Fails
  /\ UNCHANGED <<up, message, stage, called, chunks, recvSeq, sender>>

(* connection_recv has no buffer: an error, and receiveServiceResponse     *)
(* closes.                                                                 *)
RecvFails ==
  /\ up # "closed" /\ stage = "recv" /\ stream # <<>>
  /\ Close /\ Fails

(* processChunk finds less than a header, or less than a chunk.            *)
AtHeader == message # <<>> /\ message[1].at = 1
NeedsMore == IF message = <<>> \/ AtHeader THEN Len(message) < 3
             ELSE Len(message) = 1 /\ message[1].at = 2

(* bufferIncompleteChunk, if anything is left.                             *)
Buffer ==
  /\ stage = "chunks" /\ NeedsMore
  /\ incomplete' = message
  /\ message' = <<>> /\ stage' = "recv" /\ called' = FALSE
  /\ UNCHANGED <<up, stream, chunks, recvSeq, sender, history, bounds>>

(* Its failure is ignored.                                                 *)
BufferFails ==
  /\ stage = "chunks" /\ NeedsMore
  /\ message # <<>>
  /\ message' = <<>> /\ stage' = "recv" /\ called' = FALSE
  /\ Lose /\ Fails
  /\ UNCHANGED <<up, stream, incomplete, chunks, recvSeq, sender>>

(* What follows is no chunk: the rest of the packet is thrown away. The    *)
(* error closes the connection only if a chunk came before.                *)
BadHeader ==
  /\ stage = "chunks" /\ ~NeedsMore /\ ~AtHeader
  /\ UNCHANGED bounds
  /\ IF called THEN Close
     ELSE /\ message' = <<>> /\ stage' = "recv"
          /\ UNCHANGED <<up, stream, incomplete, called, chunks, recvSeq, sender, history>>

-----------------------------------------------------------------------------
(* UA_SecureChannel_processChunk.                                          *)
Accepts_anyLater(seq) ==
  \/ seq > recvSeq
  \/ (recvSeq + 1) % Modulus > RollFrom /\ seq < RollTo

(* processSequenceNumberSym; additions are in 32 bits.                     *)
Accepts(seq) ==
  \/ seq = (recvSeq + 1) % Modulus
  \/ (recvSeq + 1) % Modulus > RollFrom /\ seq < RollTo

Kind == message[1].chunk.kind
EndUnit == message[3]

Complete == stage = "chunks" /\ ~NeedsMore /\ AtHeader
Accepted == Complete /\ EndUnit.at = 3 /\ Accepts(EndUnit.chunk.seq)

Rest_drops == <<>>

Rest == SubSeq(message, 4, Len(message))

Done ==
  /\ called' = TRUE
  /\ message' = Rest
  /\ recvSeq' = EndUnit.chunk.seq
  /\ UNCHANGED <<up, stream, incomplete, stage, sender, lost, blind, bounds>>

(* UA_SecureChannel_appendChunk.                                           *)
Intermediate ==
  /\ Accepted /\ Kind = "C"
  /\ chunks' = [chunks EXCEPT ![EndUnit.chunk.body.id] = Append(@, EndUnit.chunk.body)]
  /\ UNCHANGED delivered
  /\ Done

(* UA_SecureChannel_finalizeChunk.                                         *)
Final ==
  LET id == EndUnit.chunk.body.id
  IN  /\ Accepted /\ Kind = "F"
      /\ delivered' = Append(delivered,
                        [id |-> id, body |-> Append(chunks[id], EndUnit.chunk.body)])
      /\ chunks' = [chunks EXCEPT ![id] = <<>>]
      /\ Done

(* UA_SecureChannel_removeChunks.                                          *)
Aborted ==
  /\ Accepted /\ Kind = "A"
  /\ chunks' = [chunks EXCEPT ![EndUnit.chunk.body.id] = <<>>]
  /\ UNCHANGED delivered
  /\ Done

(* A number out of order is an error after called was set, so the client   *)
(* closes.                                                                 *)
OutOfOrder ==
  /\ Complete /\ ~Accepted
  /\ Close
  /\ UNCHANGED bounds

(* So is an allocation that fails in the channel.                          *)
AppendFails ==
  /\ Accepted
  /\ \/ Kind = "C"
     \/ Kind = "F" /\ chunks[EndUnit.chunk.body.id] # <<>>
  /\ Close /\ Fails

-----------------------------------------------------------------------------
Sender ==
  \/ \E id \in Ids, seq \in 0 .. Modulus - 1 :
       \/ \E kind \in {"C", "F"} : SendChunk(id, kind, seq)
       \/ SendAbort(id, seq)
  \/ \E id \in Ids : GiveUp(id)

ProcessChunk ==
  \/ Buffer
  \/ BufferFails
  \/ BadHeader
  \/ Intermediate
  \/ Final
  \/ Aborted
  \/ OutOfOrder
  \/ AppendFails

Receiver ==
  \/ \E n \in 1 .. Len(stream) : Receive(n) \/ PrependFails(n)
  \/ ProcessChunk
  \/ RecvFails

ChunkNext ==
  \/ \E s \in First : ConnectAnew(s)
  \/ Sender
  \/ \E n \in 0 .. Len(stream) : Break(n)
  \/ Receiver
  \/ CloseLost
  \/ TimesOut

(* The client is in a call, and reads what there is.                       *)
ChunkSpec == ChunkInit /\ [][ChunkNext]_chunkVars /\ WF_chunkVars(Receiver)

-----------------------------------------------------------------------------
(* What is delivered on a connection is what was sent, in order and whole, *)
(* however it was cut, interleaved, aborted or given up, whichever         *)
(* allocations failed, and whatever an earlier connection left behind.     *)
Fifo == INSTANCE MessageFifo
ImplementsFifo == Fifo!Spec

(* A message sent in full is delivered, unless the connection ends or the  *)
(* memory did.                                                             *)
Arrives ==
  \A n \in 1 .. MaxIds :
    Len(sent) >= n ~> (Len(delivered) >= n \/ up # "open" \/ lost)
=============================================================================
