---------------------------- MODULE PacketFrames ----------------------------
(***************************************************************************)
(* The framing of the MySQL wire protocol: how PacketWriter::end_packet    *)
(* cuts a payload into frames and how packet() joins frames into one       *)
(* payload again.  A frame is a header of HeaderLen bytes (length and      *)
(* sequence number) and at most MaxPayload bytes.                          *)
(*                                                                         *)
(* A byte of a payload is the pair of the message it belongs to and its    *)
(* place in the message: what the proxy can tell about a message from its  *)
(* bytes are the fields of the message, and a byte that is lost, doubled   *)
(* or moved can be told apart.                                             *)
(***************************************************************************)
EXTENDS Naturals, Sequences

CONSTANTS
  HeaderLen,    \* PACKET_HEADER_LEN
  MaxPayload,   \* MAX_PAYLOAD_LEN
  NumMod        \* sequence numbers are u8

ASSUME FramesAssumption ==
  /\ HeaderLen \in Nat \ {0}
  /\ MaxPayload \in Nat \ {0}
  /\ NumMod \in Nat \ {0}

Frame(num, data) == [num |-> num, data |-> data]

Size(f) == HeaderLen + Len(f.data)
IsFull(f) == Len(f.data) = MaxPayload

(* The bytes of a message.                                                 *)
Payload(m) == [i \in 1..m.len |-> <<m, i>>]

(* The bytes of the frames w, without their headers, and their number on   *)
(* the wire.                                                               *)
Data(w) ==
  LET data[k \in 0..Len(w)] == IF k = 0 THEN <<>> ELSE data[k - 1] \o w[k].data
  IN  data[Len(w)]

WireLen(w) ==
  LET len[k \in 0..Len(w)] == IF k = 0 THEN 0 ELSE len[k - 1] + Size(w[k])
  IN  len[Len(w)]

----------------------------------------------------------------------------
(* PacketWriter.                                                           *)

ChunkCount(p) == (Len(p) + MaxPayload - 1) \div MaxPayload

Chunk(p, k) ==
  SubSeq(p, (k - 1) * MaxPayload + 1,
         IF k * MaxPayload < Len(p) THEN k * MaxPayload ELSE Len(p))

(* Mutant: the chunks overlap by a byte.                                   *)
EndPacketOverlaps(p, seq) ==
  IF p = <<>> THEN <<Frame(seq, <<>>)>>
  ELSE [k \in 1..ChunkCount(p) |->
          Frame((seq + k - 1) % NumMod,
                IF k = 1 THEN Chunk(p, k) ELSE <<p[1]>> \o Chunk(p, k))]

(* The frames end_packet writes when the writer's number is seq: one for   *)
(* each chunk, an empty one for an empty payload only.                     *)
EndPacket(p, seq) ==
  IF p = <<>> THEN <<Frame(seq, <<>>)>>
  ELSE [k \in 1..ChunkCount(p) |-> Frame((seq + k - 1) % NumMod, Chunk(p, k))]

(* The writer's number afterwards; an empty payload does not count.        *)
SeqAfter(p, seq) == (seq + ChunkCount(p)) % NumMod

(* How the client and the server cut a payload: a last frame shorter than  *)
(* MaxPayload marks its end, an empty one if there is none.                *)
Cut(p, seq) ==
  EndPacket(p, seq) \o
    (IF p # <<>> /\ Len(p) % MaxPayload = 0
       THEN <<Frame(SeqAfter(p, seq), <<>>)>> ELSE <<>>)

----------------------------------------------------------------------------
(* packet().                                                               *)

(* Mutant: a full frame is a packet of its own.                            *)
ParsedOne(w, n) == {k \in 1..Len(w) : k = 1 /\ Size(w[1]) <= n}

(* When n bytes of w have arrived, packet() succeeds if they hold all of   *)
(* the full frames at the front and the first one that is not full.  This  *)
(* is the set with the number of those frames, or empty.                   *)
Parsed(w, n) ==
  {k \in 1..Len(w) :
     /\ ~IsFull(w[k])
     /\ \A i \in 1..(k - 1) : IsFull(w[i])
     /\ WireLen(SubSeq(w, 1, k)) \in 0..n}

(* assert_eq!(seq, prev_seq + 1) looks at the full frames only; u8         *)
(* addition wraps in a release build.                                      *)
Consecutive(w, k) ==
  \A i \in 2..(k - 1) : w[i].num = (w[i - 1].num + 1) % NumMod

----------------------------------------------------------------------------
(* What the first byte of a payload tells (Packet::is_..._packet).         *)

Starts(p, head) == p # <<>> /\ p[1][1].head = head
==============================================================================
