------------------------------ MODULE Protocol ------------------------------
(***************************************************************************)
(* Requests as frames (protocol.rs) and as commands: validate_request,     *)
(* decode_command of commands.rs, OwnedCommand of owned_command.rs, the    *)
(* class that decides who handles a request (coordinator.rs), and the      *)
(* payload that the executor builds of an OwnedCommand again (runtime.rs). *)
(*                                                                         *)
(* A byte of a payload is what it is read as: the set of the bits of a     *)
(* mask, a key code, a character, or a number.  The byte of a CommandType  *)
(* is its name, one to one.  Errors differ in their code only and are one. *)
(***************************************************************************)
EXTENDS InputState, Typing, Integers

CONSTANTS
  MaxPayload,  \* MAX_PAYLOAD_SIZE and MAX_ASCII_STROKES, 240 in the code
  MaxWait      \* MAX_WAIT_MS, 60000 in the code

\* A wait has 32 bits.
ASSUME ProtocolAssumption ==
  MaxPayload \in Nat /\ MaxWait \in Nat /\ MaxWait \div 65536 < 65536

Empty == {"Ping", "GetInfo", "GetCaps", "Heartbeat", "StopAll", "BatchBegin", "BatchEnd"}
OfKey == {"KeyDown", "KeyUp", "KeyTap"}
OfButton == {"MouseButtonDown", "MouseButtonUp", "MouseClick"}

\* Types without a command: the responses', and Unknown.
CommandType ==
  Empty \cup OfKey \cup OfButton
    \cup {"TypeAscii", "MouseMoveRel", "MouseWheel", "WaitMs"}
    \cup {"Ack", "Nack", "Status", "Busy", "Unknown"}

Byte == 0 .. 255
SignedInt(size) == {n \in Int : -size <= 2 * n /\ 2 * n < size}
Text == {t \in Seq(Char) : Len(t) <= MaxPayload}

\* OwnedCommand, with the two batch markers.
OwnedCommand ==
  [type: Empty]
    \cup [type: OfKey, stroke: Stroke]
    \cup [type: OfButton, button: Button]
    \cup [type: {"TypeAscii"}, text: Text]
    \cup [type: {"MouseMoveRel"}, dx: SignedInt(65536), dy: SignedInt(65536)]
    \cup [type: {"MouseWheel"}, wheel: SignedInt(256)]
    \cup [type: {"WaitMs"}, wait: 0 .. MaxWait]

-----------------------------------------------------------------------------
(* Numbers in bytes: to_be_bytes and from_be_bytes.                        *)

Signed(n, size) == IF 2 * n < size THEN n ELSE n - size

Unsigned16(high, low) == 256 * high + low
Signed16(high, low) == Signed(Unsigned16(high, low), 65536)
Unsigned32(payload) ==
  65536 * Unsigned16(payload[1], payload[2]) + Unsigned16(payload[3], payload[4])

High(n) == (n % 65536) \div 256
Low(n) == n % 256

MovePayload(c) == <<High(c.dx), Low(c.dx), High(c.dy), Low(c.dy)>>

WaitPayload(c) ==
  LET upper == c.wait \div 65536 IN <<High(upper), Low(upper), High(c.wait), Low(c.wait)>>

-----------------------------------------------------------------------------
(* Frames.                                                                 *)

\* The bytes of a payload are read as they are meant.
HasBytes(f) ==
  /\ f.type \in OfKey /\ Len(f.payload) = 2 =>
       f.payload[1] \in SUBSET Modifier /\ f.payload[2] \in Key \cup {None}
  /\ f.type = "TypeAscii" => f.payload \in Seq(Char)
  /\ f.type \in {"MouseMoveRel", "MouseWheel", "WaitMs"} => f.payload \in Seq(Byte)

\* A heartbeat that wants no response: RequestKind::NoResponseHeartbeat.
IsSilent(f) ==
  f.version = 2 /\ f.type = "Heartbeat" /\ f.flags = 1 /\ f.sequence = 0

\* validate_request
IsRequest(f) ==
  /\ f.version \in {1, 2}
  /\ IsSilent(f) \/ (f.flags = 0 /\ f.sequence # 0)

\* from_mask: a button is one bit alone.
ButtonsOf(mask) == {b \in Button : mask = {b}}

\* decode_command and from_frame, without an error.
Decodes(f) ==
  \/ f.type \in Empty /\ f.payload = <<>>
  \/ f.type \in OfKey /\ Len(f.payload) = 2
  \/ f.type \in OfButton /\ Len(f.payload) = 1 /\ ButtonsOf(f.payload[1]) # {}
  \/ f.type = "TypeAscii" /\ Len(f.payload) <= MaxPayload
  \/ f.type = "MouseMoveRel" /\ Len(f.payload) = 4
  \/ f.type = "MouseWheel" /\ Len(f.payload) = 1
  \/ f.type = "WaitMs" /\ Len(f.payload) = 4 /\ Unsigned32(f.payload) <= MaxWait

\* The command of a frame that Decodes.
Decode(f) ==
  LET p == f.payload
  IN  CASE f.type \in Empty -> [type |-> f.type]
        [] f.type \in OfKey ->
             [type |-> f.type, stroke |-> [modifiers |-> p[1], key |-> p[2]]]
        [] f.type \in OfButton ->
             [type |-> f.type, button |-> CHOOSE b \in Button : p[1] = {b}]
        [] f.type = "TypeAscii" -> [type |-> f.type, text |-> p]
        [] f.type = "MouseMoveRel" ->
             [type |-> f.type, dx |-> Signed16(p[1], p[2]), dy |-> Signed16(p[3], p[4])]
        [] f.type = "MouseWheel" -> [type |-> f.type, wheel |-> Signed(p[1], 256)]
        [] f.type = "WaitMs" -> [type |-> f.type, wait |-> Unsigned32(p)]

\* classify_request
Class(c) ==
  CASE c.type \in {"BatchBegin", "BatchEnd", "StopAll"} -> c.type
    [] c.type \in {"Ping", "GetInfo", "GetCaps", "Heartbeat"} -> "Bypass"
    [] OTHER -> "Mutating"

\* payload_len
PayloadLength(c) ==
  CASE c.type \in Empty -> 0
    [] c.type \in OfKey -> 2
    [] c.type = "TypeAscii" -> Len(c.text)
    [] c.type \in {"WaitMs", "MouseMoveRel"} -> 4
    [] OTHER -> 1

\* encode_owned_command
Payload(c) ==
  CASE c.type \in Empty -> <<>>
    [] c.type \in OfKey -> <<c.stroke.modifiers, c.stroke.key>>
    [] c.type \in OfButton -> <<{c.button}>>
    [] c.type = "TypeAscii" -> c.text
    [] c.type = "MouseMoveRel" -> MovePayload(c)
    [] c.type = "MouseWheel" -> <<Low(c.wheel)>>
    [] c.type = "WaitMs" -> WaitPayload(c)

Encode(c) == [type |-> c.type, payload |-> Payload(c)]
=============================================================================
