----------------------------- MODULE FrameStream -----------------------------
(***************************************************************************)
(* From bytes to frames: append_packet_chunk, next_frame_action and        *)
(* PartialFrameTimeout of frame_stream.rs in the loop that drain_frames    *)
(* and cdc_receive_task run, for one session (Sessions has their ends).    *)
(*                                                                         *)
(* A frame is scaled to two bytes of magic, a length, the payload and a    *)
(* check byte: version, flags, sequence and type, which the framing passes *)
(* over, are left out.                                                     *)
(***************************************************************************)
EXTENDS Integers, Sequences

CONSTANTS
  Byte,         \* naturals, with the two of MAGIC
  Magic,        \* MAGIC, a pair
  MaxPayload,   \* MAX_PAYLOAD_SIZE, 240 in the code
  PacketSize,   \* largest CDC packet, 64 bytes
  Timeout,      \* PARTIAL_FRAME_TIMEOUT_MS, in ticks
  Noise,        \* byte sequences without MAGIC that may be sent between frames
  Garbage,      \* any other byte sequences that may be sent
  Crc(_),       \* crc16_ccitt_false, for which any function of the bytes will do
  UnitLimit     \* bound: how many of these, and of frames, are sent

HeaderLength == 3
Overhead == 4
MaxFrame == Overhead + MaxPayload

\* What the check byte of a frame is computed from: its length and payload.
Body == UNION {[1 .. n -> Byte] : n \in 1 .. MaxPayload + 1}

IsMagic(bytes, i) == i < Len(bytes) /\ bytes[i] = Magic[1] /\ bytes[i + 1] = Magic[2]

ASSUME StreamAssumption ==
  /\ Byte \subseteq Nat /\ Magic \in Byte \X Byte /\ Magic[1] # Magic[2]
  /\ MaxPayload \in Nat /\ 0 .. MaxPayload \subseteq Byte
  /\ {PacketSize, Timeout} \subseteq Nat \ {0} /\ UnitLimit \in Nat
  /\ \A body \in Body : Crc(body) \in Byte
  /\ Noise \cup Garbage \subseteq Seq(Byte)
  /\ \A bytes \in Noise : /\ bytes # <<>> /\ bytes[1] # Magic[2]
                          /\ \A i \in DOMAIN bytes : ~IsMagic(bytes, i)

VARIABLES
  line,      \* bytes sent and not yet read
  packet,    \* read, and not yet appended
  buffer,    \* frame_buf up to frame_len
  draining,  \* within drain_frames
  deadline,  \* ticks until the partial frame expires, or -1
  units,     \* how many noises, frames and pieces of garbage were sent
  clean,     \* history: only noise and whole frames are under way
  due,       \* history: the frames under way, while clean
  wrong      \* history: a frame was delivered that was not the one due

streamVars == <<line, packet, buffer, draining, deadline, units, clean, due, wrong>>

\* encode_frame
Encode(payload) ==
  LET body == <<Len(payload)>> \o payload IN Magic \o body \o <<Crc(body)>>

Frame == {Encode(payload) : payload \in UNION {[1 .. n -> Byte] : n \in 0 .. MaxPayload}}

StreamTypeOK ==
  /\ {line, packet, buffer} \subseteq Seq(Byte)
  /\ Len(packet) <= PacketSize /\ Len(buffer) <= MaxFrame
  /\ deadline \in -1 .. Timeout
  /\ units \in 0 .. UnitLimit
  /\ {draining, clean, wrong} \subseteq BOOLEAN
  /\ due \in Seq(Frame)

-----------------------------------------------------------------------------
(* frame_stream.rs                                                         *)

\* Mutant: what has no magic is dropped to the last byte.
NoiseLengthToEnd(bytes) ==
  LET starts == {i \in 2 .. Len(bytes) : IsMagic(bytes, i)}
  IN  IF starts = {} THEN Len(bytes) ELSE (CHOOSE i \in starts : \A j \in starts : i <= j) - 1

\* How much to drop before the first magic; a last byte may be half of one.
NoiseLength(bytes) ==
  LET starts == {i \in 2 .. Len(bytes) : IsMagic(bytes, i)}
  IN  IF starts = {} THEN Len(bytes) - 1
      ELSE (CHOOSE i \in starts : \A j \in starts : i <= j) - 1

PayloadLength(bytes) == bytes[HeaderLength]

\* decode_frame on a frame of the right length.
IsIntact(frame) ==
  frame[Len(frame)] = Crc(SubSeq(frame, HeaderLength, Len(frame) - 1))

\* next_frame_action
NextAction(bytes) ==
  IF bytes = <<>> THEN [do |-> "None"]
  ELSE IF Len(bytes) < 2 THEN [do |-> "NeedMore"]
  ELSE IF ~IsMagic(bytes, 1) THEN [do |-> "DropPrefix", length |-> NoiseLength(bytes)]
  ELSE IF Len(bytes) < HeaderLength THEN [do |-> "NeedMore"]
  ELSE IF PayloadLength(bytes) > MaxPayload
       THEN [do |-> "Reject", length |-> IF Len(bytes) < Overhead THEN Len(bytes) ELSE Overhead]
  ELSE IF Len(bytes) < Overhead + PayloadLength(bytes) THEN [do |-> "NeedMore"]
  ELSE [do |-> "Process", length |-> Overhead + PayloadLength(bytes)]

ShiftLeft(n) == buffer' = SubSeq(buffer, n + 1, Len(buffer))

-----------------------------------------------------------------------------
StreamInit ==
  /\ line = <<>> /\ packet = <<>> /\ buffer = <<>>
  /\ draining = FALSE /\ deadline = -1
  /\ units = 0 /\ clean = TRUE /\ due = <<>> /\ wrong = FALSE

\* Nothing under way that a frame sent now could become part of.
AtBoundary == line = <<>> /\ packet = <<>> /\ ~draining /\ Len(buffer) <= 1

Put(bytes) ==
  /\ units < UnitLimit
  /\ units' = units + 1
  /\ line' = line \o bytes
  /\ UNCHANGED <<packet, buffer, draining, deadline, wrong>>

SendFrame(frame) ==
  /\ Put(frame)
  /\ clean' = (clean \/ AtBoundary)
  /\ due' = IF clean' THEN Append(due, frame) ELSE due

SendNoise(bytes) ==
  /\ Put(bytes)
  /\ UNCHANGED <<clean, due>>

SendGarbage(bytes) ==
  /\ Put(bytes)
  /\ clean' = FALSE /\ due' = <<>>

\* The host's packets have nothing to do with frames.
TakePacket(n) ==
  /\ ~draining /\ packet = <<>> /\ n <= Len(line)
  /\ packet' = SubSeq(line, 1, n)
  /\ line' = SubSeq(line, n + 1, Len(line))
  /\ UNCHANGED <<buffer, draining, deadline, units, clean, due, wrong>>

Room == MaxFrame - Len(buffer)

\* append_packet_chunk: as much as there is room for.
AppendChunk ==
  /\ ~draining /\ packet # <<>>
  /\ LET copied == IF Room < Len(packet) THEN Room ELSE Len(packet)
     IN  /\ buffer' = buffer \o SubSeq(packet, 1, copied)
         /\ packet' = SubSeq(packet, copied + 1, Len(packet))
  /\ draining' = TRUE
  /\ UNCHANGED <<line, deadline, units, clean, due, wrong>>

DropPrefix ==
  /\ draining /\ NextAction(buffer).do = "DropPrefix"
  /\ ShiftLeft(NextAction(buffer).length)
  /\ UNCHANGED <<line, packet, draining, deadline, units, clean, due, wrong>>

\* A NACK, and as much dropped as is surely no frame of its own.
Reject ==
  /\ draining /\ NextAction(buffer).do = "Reject"
  /\ ShiftLeft(NextAction(buffer).length)
  /\ UNCHANGED <<line, packet, draining, deadline, units, clean, due, wrong>>

\* A whole frame: handed on, or a NACK if it is not intact.
Process ==
  /\ draining /\ NextAction(buffer).do = "Process"
  /\ LET length == NextAction(buffer).length
         frame == SubSeq(buffer, 1, length)
         isDue == due # <<>> /\ Head(due) = frame
     IN  /\ ShiftLeft(length)
         /\ due' = IF IsIntact(frame) /\ isDue THEN Tail(due) ELSE due
         /\ wrong' = (wrong \/ (clean /\ ~(IsIntact(frame) /\ isDue)))
  /\ UNCHANGED <<line, packet, draining, deadline, units, clean>>

\* Mutant: a partial frame of one byte is not timed.
NoteProgressFromMagic == IF Len(buffer) <= 1 THEN -1 ELSE Timeout

\* note_progress: every packet starts the timer again.
NoteProgress == IF buffer = <<>> THEN -1 ELSE Timeout

\* drain_frames is done.
NeedMore ==
  /\ draining /\ NextAction(buffer).do \in {"NeedMore", "None"}
  /\ draining' = FALSE
  /\ deadline' = NoteProgress
  /\ UNCHANGED <<line, packet, buffer, units, clean, due, wrong>>

IsWaiting == ~draining /\ packet = <<>> /\ line = <<>>

\* Time passes while the line is quiet.
Tick ==
  /\ IsWaiting /\ deadline > 0
  /\ deadline' = deadline - 1
  /\ UNCHANGED <<line, packet, buffer, draining, units, clean, due, wrong>>

\* expire: what the host has begun and not finished is no frame any more.
Expire ==
  /\ IsWaiting /\ deadline = 0
  /\ buffer' = <<>> /\ deadline' = -1
  /\ clean' = TRUE /\ due' = <<>>
  /\ UNCHANGED <<line, packet, draining, units, wrong>>

Receive ==
  \/ \E n \in 1 .. PacketSize : TakePacket(n)
  \/ AppendChunk \/ DropPrefix \/ Reject \/ Process \/ NeedMore

StreamNext ==
  \/ \E frame \in Frame : SendFrame(frame)
  \/ \E bytes \in Noise : SendNoise(bytes)
  \/ \E bytes \in Garbage : SendGarbage(bytes)
  \/ Receive \/ Tick \/ Expire

StreamSpec == StreamInit /\ [][StreamNext]_streamVars

\* The receiver runs and time passes; the host need not send.
FairStreamSpec ==
  StreamSpec /\ WF_streamVars(Receive) /\ WF_streamVars(Tick) /\ WF_streamVars(Expire)

-----------------------------------------------------------------------------
\* The debug_assert of cdc_receive_task: drained, the buffer has room for more, so
\* that the loop over a packet goes on.
AppendMakesProgress == ~draining => Len(buffer) < MaxFrame

\* Whole frames come through, each once and in order, however they are cut into
\* packets and whatever noise is between them.  After garbage that is so again as
\* soon as the receiver waits for nothing.
FramesComeThrough ==
  /\ ~wrong
  /\ clean /\ AtBoundary => due = <<>>

\* The buffer never overflows or jams, and loses no frame it should have found.
StreamInv == StreamTypeOK /\ AppendMakesProgress /\ FramesComeThrough

\* Neither noise nor a length that is never made good stalls the receiver: what it
\* waits for comes or expires.
NothingStaysBuffered == []<>(buffer = <<>> \/ line # <<>>)
=============================================================================
