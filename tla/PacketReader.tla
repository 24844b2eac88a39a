---------------------------- MODULE PacketReader ----------------------------
(***************************************************************************)
(* PacketReader::next_async: a buffer between a byte stream and packet().  *)
(* TCP delivers any number of bytes at a time.  A reader is a record:      *)
(* `wire' the frames sent and not consumed, `rem' the bytes of them that   *)
(* are in the buffer (remaining), `cap' the buffer's length (bytes.len()), *)
(* `size' the buffer_size of the call.                                     *)
(***************************************************************************)
EXTENDS PacketFrames

CONSTANTS
  SmallBuf, LargeBuf   \* PACKET_BUFFER_SIZE, PACKET_LARGE_BUFFER_SIZE

ASSUME ReaderAssumption == SmallBuf \in Nat \ {0} /\ LargeBuf \in Nat \ {0}

NewReader == [wire |-> <<>>, rem |-> 0, cap |-> 0, size |-> SmallBuf]

Ready(r) == Parsed(r.wire, r.rem) # {}
Joined(r) == CHOOSE k \in Parsed(r.wire, r.rem) : TRUE

(* The reader returns a packet; packet() panics if its full frames are not *)
(* numbered one after the other, and the session would stop here.          *)
Takes(r) == Ready(r) /\ Consecutive(r.wire, Joined(r))

(* The payload of the next packet and its number, the last frame's.        *)
NextData(r) == Data(SubSeq(r.wire, 1, Joined(r)))
NextNum(r) == r.wire[Joined(r)].num

(* What is left of the buffer is moved to its front; the next call starts  *)
(* with the small buffer_size.                                             *)
Consume(r) ==
  LET rest == SubSeq(r.wire, Joined(r) + 1, Len(r.wire))
      rem  == r.rem - WireLen(SubSeq(r.wire, 1, Joined(r)))
  IN  [wire |-> rest, rem |-> rem, cap |-> rem, size |-> SmallBuf]

(* The buffer's length before the next read.                               *)
Grown(r) ==
  IF r.cap - r.rem < r.size
    THEN (IF r.size > r.rem * 2 THEN r.size ELSE r.rem * 2) ELSE r.cap

Room(r) == Grown(r) - r.rem

(* n more bytes are read into the buffer.                                  *)
Filled(r, n) ==
  [wire |-> r.wire, rem |-> r.rem + n, cap |-> Grown(r), size |-> LargeBuf]

InFlight(r) == WireLen(r.wire) - r.rem
==============================================================================
