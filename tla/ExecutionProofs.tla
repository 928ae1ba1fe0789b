--------------------------- MODULE ExecutionProofs ---------------------------
(***************************************************************************)
(* Theorems about Execution and what it is built from: Protocol's decoding *)
(* and encoding, Movement's steps, and the executor, for every keyboard,   *)
(* every set of requests and all limits.                                   *)
(***************************************************************************)
EXTENDS Execution, SequenceTheorems, FiniteSetTheorems, TLAPS

-----------------------------------------------------------------------------
(* Protocol: what the executor decodes of the payload it has built is the  *)
(* command it was given, whatever the command.                             *)

\* A residue is a byte, and the low one is that of the number.
LEMMA LowIsByte == \A n \in Int : n % 256 \in Byte
BY SMT DEF Byte

\* The low byte of 16 bits is the low byte of the number.
LEMMA LowOfResidue == \A n \in Int : (n % 65536) % 256 = n % 256
BY SMT

\* Two bytes give the number back, to 16 bits.
LEMMA HighAndLow ==
  \A n \in Int : High(n) \in Byte /\ Low(n) \in Byte
                 /\ Unsigned16(High(n), Low(n)) = n % 65536
<1> SUFFICES ASSUME NEW n \in Int
             PROVE  High(n) \in Byte /\ Low(n) \in Byte
                    /\ Unsigned16(High(n), Low(n)) = n % 65536
  OBVIOUS
<1> DEFINE m == n % 65536
<1>1. m \in Int /\ 0 <= m /\ m < 65536
  BY SMT
<1>2. m % 256 = n % 256
  BY LowOfResidue
<1> HIDE DEF m
<1>3. m \div 256 \in 0 .. 255 /\ 256 * (m \div 256) + (m % 256) = m
  BY <1>1, SMT
<1> QED BY <1>2, <1>3, LowIsByte, SMT DEF m, High, Low, Unsigned16, Byte

\* The residue of a number that is near zero.
LEMMA ResidueBelow ==
  \A size \in Nat, n \in Int :
    /\ 0 <= n /\ n < size => n % size = n
    /\ n < 0 /\ -size <= n => n % size = n + size
<1>1. ASSUME NEW size \in Nat, NEW n \in Int, 0 <= n, n < size PROVE n % size = n
  BY <1>1, SMT
<1>2. ASSUME NEW size \in Nat, NEW n \in Int, n < 0, -size <= n PROVE n % size = n + size
  BY <1>2, SMT
<1> QED BY <1>1, <1>2

\* Two's complement: from_be_bytes takes to_be_bytes back.
LEMMA SignedIsInverse ==
  ASSUME NEW size \in Nat, NEW n \in SignedInt(size)
  PROVE  n \in Int /\ Signed(n % size, size) = n
<1>1. n \in Int /\ -size <= 2 * n /\ 2 * n < size
  BY DEF SignedInt
<1>2. CASE n < 0
  BY <1>1, <1>2, ResidueBelow, SMT DEF Signed
<1>3. CASE n >= 0
  BY <1>1, <1>3, ResidueBelow, SMT DEF Signed
<1> QED BY <1>1, <1>2, <1>3, SMT

\* What is read as signed has its width.
LEMMA SignedRange ==
  ASSUME NEW size \in Nat, NEW n \in Nat, n < size
  PROVE  Signed(n, size) \in SignedInt(size)
BY SMT DEF Signed, SignedInt

\* Two bytes hold 16 bits.
LEMMA UnsignedRange ==
  \A a, b \in Byte : Unsigned16(a, b) \in Nat /\ Unsigned16(a, b) < 65536
BY SMT DEF Unsigned16, Byte

\* The four bytes of a wait give it back.
LEMMA LongWord ==
  ASSUME NEW c, c.wait \in 0 .. MaxWait
  PROVE  /\ WaitPayload(c) \in Seq(Byte) /\ Len(WaitPayload(c)) = 4
         /\ Unsigned32(WaitPayload(c)) = c.wait
<1> DEFINE n == c.wait
           upper == n \div 65536
<1>1. n \in Nat /\ upper \in Nat /\ upper < 65536
  <2>1. MaxWait \in Nat /\ MaxWait \div 65536 < 65536 /\ n \in Nat /\ n <= MaxWait
    BY ProtocolAssumption, SMT
  <2>2. \A a, b \in Nat : a <= b => a \div 65536 <= b \div 65536 /\ a \div 65536 \in Nat
                                    /\ b \div 65536 \in Nat
    BY SMT
  <2> HIDE DEF n
  <2> QED BY <2>1, <2>2, SMT
<1>2. 65536 * upper + (n % 65536) = n
  <2> HIDE DEF n
  <2> QED BY <1>1, SMT
<1>3. upper % 65536 = upper
  <2> HIDE DEF upper
  <2> QED BY <1>1, SMT
<1> HIDE DEF upper
<1>4. /\ High(upper) \in Byte /\ Low(upper) \in Byte
      /\ High(n) \in Byte /\ Low(n) \in Byte
      /\ Unsigned16(High(upper), Low(upper)) = upper
      /\ Unsigned16(High(n), Low(n)) = n % 65536
  BY <1>1, <1>3, HighAndLow, SMT
<1>5. WaitPayload(c) = <<High(upper), Low(upper), High(n), Low(n)>>
  BY DEF WaitPayload, upper
<1>6. WaitPayload(c) \in Seq(Byte) /\ Len(WaitPayload(c)) = 4
  BY <1>4, <1>5, SMT
<1>7. Unsigned32(WaitPayload(c)) = 65536 * upper + (n % 65536)
  <2> HIDE DEF n
  <2> QED BY <1>4, <1>5, SMT DEF Unsigned32
<1> QED BY <1>2, <1>6, <1>7

-----------------------------------------------------------------------------
\* The payload that encode_owned_command builds decodes to the command, field by field,
\* and is as long as payload_len says: execute_owned_command runs what was admitted.
THEOREM EncodingIsInvertible ==
  ASSUME NEW c \in OwnedCommand
  PROVE  /\ Decodes(Encode(c)) /\ Decode(Encode(c)) = c
         /\ Len(Encode(c).payload) = PayloadLength(c)
<1> DEFINE f == Encode(c)
<1>1. f.type = c.type /\ f.payload = Payload(c)
  BY DEF Encode
<1> HIDE DEF f
<1> SUFFICES Decodes(f) /\ Decode(f) = c /\ Len(f.payload) = PayloadLength(c)
  BY DEF f
<1> USE DEF Empty, OfKey, OfButton
<1>2. CASE c \in [type: Empty]
  <2>1. Payload(c) = <<>> /\ PayloadLength(c) = 0
    BY <1>2, SMT DEF Payload, PayloadLength
  <2>2. Decodes(f)
    BY <1>1, <1>2, <2>1 DEF Decodes
  <2>3. Decode(f) = c
    BY <1>1, <1>2, SMT DEF Decode
  <2> QED BY <1>1, <2>1, <2>2, <2>3
<1>3. CASE c \in [type: OfKey, stroke: Stroke]
  <2>1. Payload(c) = <<c.stroke.modifiers, c.stroke.key>> /\ PayloadLength(c) = 2
    BY <1>3, SMT DEF Payload, PayloadLength
  <2>2. Decodes(f)
    BY <1>1, <1>3, <2>1, SMT DEF Decodes
  <2>3. c = [type |-> c.type, stroke |-> c.stroke]
        /\ c.stroke = [modifiers |-> c.stroke.modifiers, key |-> c.stroke.key]
    BY <1>3, SMT DEF Stroke
  <2>4. Decode(f) = c
    BY <1>1, <1>3, <2>1, <2>3, SMT DEF Decode
  <2> QED BY <1>1, <2>1, <2>2, <2>4, SMT
<1>4. CASE c \in [type: OfButton, button: Button]
  <2>1. Payload(c) = <<{c.button}>> /\ PayloadLength(c) = 1 /\ c.button \in Button
        /\ c = [type |-> c.type, button |-> c.button]
    BY <1>4, SMT DEF Payload, PayloadLength
  <2>2. c.button \in ButtonsOf({c.button})
    BY <2>1 DEF ButtonsOf
  <2>3. Decodes(f)
    BY <1>1, <1>4, <2>1, <2>2, SMT DEF Decodes
  <2>4. \A b \in Button : {c.button} = {b} <=> b = c.button
    OBVIOUS
  <2>5. (CHOOSE b \in Button : {c.button} = {b}) = c.button
    BY <2>1, <2>4
  <2>6. Decode(f) = [type |-> c.type, button |-> CHOOSE b \in Button : {c.button} = {b}]
    BY <1>1, <1>4, <2>1, SMT DEF Decode
  <2> QED BY <1>1, <2>1, <2>3, <2>5, <2>6, SMT
<1>5. CASE c \in [type: {"TypeAscii"}, text: Text]
  <2>1. Payload(c) = c.text /\ PayloadLength(c) = Len(c.text) /\ Len(c.text) <= MaxPayload
        /\ c = [type |-> c.type, text |-> c.text]
    BY <1>5, SMT DEF Payload, PayloadLength, Text
  <2>2. Decodes(f)
    BY <1>1, <1>5, <2>1, SMT DEF Decodes
  <2>3. Decode(f) = c
    BY <1>1, <1>5, <2>1, SMT DEF Decode
  <2> QED BY <1>1, <2>1, <2>2, <2>3
<1>6. CASE c \in [type: {"MouseMoveRel"}, dx: SignedInt(65536), dy: SignedInt(65536)]
  <2>1. Payload(c) = MovePayload(c) /\ PayloadLength(c) = 4
        /\ c.dx \in SignedInt(65536) /\ c.dy \in SignedInt(65536)
        /\ c = [type |-> c.type, dx |-> c.dx, dy |-> c.dy]
    BY <1>6, SMT DEF Payload, PayloadLength
  <2>2. f.payload = <<High(c.dx), Low(c.dx), High(c.dy), Low(c.dy)>>
    BY <1>1, <2>1 DEF MovePayload
  <2>3. Signed16(High(c.dx), Low(c.dx)) = c.dx /\ Signed16(High(c.dy), Low(c.dy)) = c.dy
    <3>1. 65536 \in Nat
      BY SMT
    <3> QED BY <2>1, <3>1, SignedIsInverse, HighAndLow DEF Signed16
  <2>4. Decodes(f) /\ Len(f.payload) = 4
    BY <1>1, <1>6, <2>2, SMT DEF Decodes
  <2>5. Decode(f) = c
    BY <1>1, <1>6, <2>1, <2>2, <2>3, SMT DEF Decode
  <2> QED BY <2>1, <2>4, <2>5
<1>7. CASE c \in [type: {"MouseWheel"}, wheel: SignedInt(256)]
  <2>1. Payload(c) = <<Low(c.wheel)>> /\ PayloadLength(c) = 1 /\ c.wheel \in SignedInt(256)
        /\ c = [type |-> c.type, wheel |-> c.wheel]
    BY <1>7, SMT DEF Payload, PayloadLength
  <2>2. Signed(Low(c.wheel), 256) = c.wheel
    <3>1. 256 \in Nat
      BY SMT
    <3> QED BY <2>1, <3>1, SignedIsInverse DEF Low
  <2>3. Decodes(f) /\ Len(f.payload) = 1
    BY <1>1, <1>7, <2>1, SMT DEF Decodes
  <2>4. Decode(f) = c
    BY <1>1, <1>7, <2>1, <2>2, SMT DEF Decode
  <2> QED BY <2>1, <2>3, <2>4
<1>8. CASE c \in [type: {"WaitMs"}, wait: 0 .. MaxWait]
  <2>1. Payload(c) = WaitPayload(c) /\ PayloadLength(c) = 4 /\ c.wait \in 0 .. MaxWait
        /\ c = [type |-> c.type, wait |-> c.wait]
    BY <1>8, SMT DEF Payload, PayloadLength
  <2>2. Len(f.payload) = 4 /\ Unsigned32(f.payload) = c.wait
    BY <1>1, <2>1, LongWord
  <2>3. c.wait <= MaxWait
    BY <2>1, ProtocolAssumption, SMT
  <2>4. Decodes(f)
    BY <1>1, <1>8, <2>2, <2>3, SMT DEF Decodes
  <2>5. Decode(f) = c
    BY <1>1, <1>8, <2>1, <2>2, SMT DEF Decode
  <2> QED BY <2>1, <2>2, <2>4, <2>5
<1> QED BY <1>2, <1>3, <1>4, <1>5, <1>6, <1>7, <1>8 DEF OwnedCommand

\* What from_frame makes of a frame is in the range of its fields, and counts for the
\* batch as many bytes as its payload has.
THEOREM DecodedIsOwned ==
  ASSUME NEW f, HasBytes(f), Decodes(f)
  PROVE  Decode(f) \in OwnedCommand /\ PayloadLength(Decode(f)) = Len(f.payload)
<1> DEFINE p == f.payload
<1> USE DEF Empty, OfKey, OfButton
<1>1. CASE f.type \in Empty
  <2>1. Decode(f) = [type |-> f.type]
    BY <1>1, SMT DEF Decode
  <2>2. PayloadLength(Decode(f)) = 0 /\ Len(p) = 0
    BY <1>1, <2>1, SMT DEF PayloadLength, Decodes
  <2> QED BY <1>1, <2>1, <2>2 DEF OwnedCommand
<1>2. CASE f.type \in OfKey
  <2>1. Len(p) = 2
    BY <1>2, SMT DEF Decodes
  <2>2. [modifiers |-> p[1], key |-> p[2]] \in Stroke
    BY <1>2, <2>1, SMT DEF HasBytes, Stroke
  <2>3. Decode(f) = [type |-> f.type, stroke |-> [modifiers |-> p[1], key |-> p[2]]]
    BY <1>2, SMT DEF Decode
  <2>4. Decode(f) \in [type: OfKey, stroke: Stroke]
    BY <1>2, <2>2, <2>3
  <2>5. PayloadLength(Decode(f)) = 2
    BY <1>2, <2>3, SMT DEF PayloadLength
  <2> QED BY <2>1, <2>4, <2>5 DEF OwnedCommand
<1>3. CASE f.type \in OfButton
  <2>1. ButtonsOf(p[1]) # {}
    BY <1>3, SMT DEF Decodes
  <2>2. (CHOOSE b \in Button : p[1] = {b}) \in Button
    BY <2>1 DEF ButtonsOf
  <2>3. Decode(f) = [type |-> f.type, button |-> CHOOSE b \in Button : p[1] = {b}]
    BY <1>3, SMT DEF Decode
  <2>4. Decode(f) \in [type: OfButton, button: Button]
    BY <1>3, <2>2, <2>3
  <2>5. PayloadLength(Decode(f)) = 1 /\ Len(p) = 1
    BY <1>3, <2>3, SMT DEF PayloadLength, Decodes
  <2> QED BY <2>4, <2>5 DEF OwnedCommand
<1>4. CASE f.type = "TypeAscii"
  <2>1. p \in Text
    BY <1>4, SMT DEF Decodes, HasBytes, Text
  <2>2. Decode(f) = [type |-> f.type, text |-> p]
    BY <1>4, SMT DEF Decode
  <2>3. PayloadLength(Decode(f)) = Len(p)
    BY <1>4, <2>2, SMT DEF PayloadLength
  <2> HIDE DEF p
  <2>4. Decode(f) \in OwnedCommand
    BY <1>4, <2>1, <2>2 DEF OwnedCommand
  <2> QED BY <2>3, <2>4 DEF p
<1>5. CASE f.type = "MouseMoveRel"
  <2>1. Len(p) = 4 /\ p \in Seq(Byte)
    BY <1>5, SMT DEF Decodes, HasBytes
  <2>2. p[1] \in Byte /\ p[2] \in Byte /\ p[3] \in Byte /\ p[4] \in Byte
    BY <2>1, SMT
  <2>3. \A a, b \in Byte : Signed16(a, b) \in SignedInt(65536)
    <3>1. 65536 \in Nat
      BY SMT
    <3> QED BY <3>1, UnsignedRange, SignedRange DEF Signed16
  <2>4. Signed16(p[1], p[2]) \in SignedInt(65536) /\ Signed16(p[3], p[4]) \in SignedInt(65536)
    BY <2>2, <2>3
  <2>5. Decode(f) = [type |-> f.type, dx |-> Signed16(p[1], p[2]), dy |-> Signed16(p[3], p[4])]
    BY <1>5, SMT DEF Decode
  <2>6. Decode(f) \in [type: {"MouseMoveRel"}, dx: SignedInt(65536), dy: SignedInt(65536)]
    BY <1>5, <2>4, <2>5
  <2>7. PayloadLength(Decode(f)) = 4
    BY <1>5, <2>5, SMT DEF PayloadLength
  <2> QED BY <2>1, <2>6, <2>7 DEF OwnedCommand
<1>6. CASE f.type = "MouseWheel"
  <2>1. Len(p) = 1 /\ p \in Seq(Byte)
    BY <1>6, SMT DEF Decodes, HasBytes
  <2>2. p[1] \in Byte
    BY <2>1, SMT
  <2>3. Signed(p[1], 256) \in SignedInt(256)
    <3>1. 256 \in Nat /\ p[1] \in Nat /\ p[1] < 256
      BY <2>2, SMT DEF Byte
    <3> QED BY <3>1, SignedRange
  <2>4. Decode(f) = [type |-> f.type, wheel |-> Signed(p[1], 256)]
    BY <1>6, SMT DEF Decode
  <2>5. Decode(f) \in [type: {"MouseWheel"}, wheel: SignedInt(256)]
    BY <1>6, <2>3, <2>4
  <2>6. PayloadLength(Decode(f)) = 1
    BY <1>6, <2>4, SMT DEF PayloadLength
  <2> QED BY <2>1, <2>5, <2>6 DEF OwnedCommand
<1>7. CASE f.type = "WaitMs"
  <2>1. Len(p) = 4 /\ p \in Seq(Byte) /\ Unsigned32(p) <= MaxWait
    BY <1>7, SMT DEF Decodes, HasBytes
  <2>2. p[1] \in Byte /\ p[2] \in Byte /\ p[3] \in Byte /\ p[4] \in Byte
    BY <2>1, SMT
  <2>3. Unsigned32(p) \in Nat
    <3>1. Unsigned16(p[1], p[2]) \in Nat /\ Unsigned16(p[3], p[4]) \in Nat
      BY <2>2, UnsignedRange
    <3> QED BY <3>1, SMT DEF Unsigned32
  <2>4. Unsigned32(p) \in 0 .. MaxWait
    BY <2>1, <2>3, ProtocolAssumption, SMT
  <2>5. Decode(f) = [type |-> f.type, wait |-> Unsigned32(p)]
    BY <1>7, SMT DEF Decode
  <2>6. Decode(f) \in [type: {"WaitMs"}, wait: 0 .. MaxWait]
    BY <1>7, <2>4, <2>5
  <2>7. PayloadLength(Decode(f)) = 4
    BY <1>7, <2>5, SMT DEF PayloadLength
  <2> QED BY <2>1, <2>6, <2>7 DEF OwnedCommand
<1> QED BY <1>1, <1>2, <1>3, <1>4, <1>5, <1>6, <1>7, SMT DEF Decodes

-----------------------------------------------------------------------------
(* Movement, for every step size and every displacement.                   *)

\* What is left is on the near side of the target, and together with what the host
\* has seen it makes the displacement, but for the report that is owed.
Inductive ==
  /\ MoveTypeOK
  /\ Between(0, remainingX, dx)
  /\ Between(0, remainingY, dy)
  /\ pointerY + remainingY = dy
  /\ \/ movePhase # "Nudged" /\ pointerX + remainingX = dx
     \/ movePhase \in {"Nudged", "Failed"} /\ remainingX = 0 /\ pointerX = dx + 1
  /\ movePhase = "Done" => IsOver

\* A step is on the way to zero, not empty and at most MaxStep long.
LEMMA ClampShortens ==
  ASSUME NEW d \in Int
  PROVE  /\ Clamp(d) \in -MaxStep .. MaxStep
         /\ Between(0, d - Clamp(d), d)
         /\ d # 0 => Clamp(d) # 0
  BY MovementAssumption DEF Clamp, Between

\* Splitting starts in a state of the invariant.
LEMMA InductiveInit == MoveInit => Inductive
  BY MovementAssumption DEF MoveInit, Inductive, MoveTypeOK, Between, MovePhase, IsOver

\* Each action keeps the balance of what is sent and what is left.
LEMMA InductiveNext == Inductive /\ [MoveNext]_moveVars => Inductive'
<1> SUFFICES ASSUME Inductive, [MoveNext]_moveVars PROVE Inductive'
  OBVIOUS
<1> USE MovementAssumption DEF Inductive, MoveTypeOK, MovePhase
<1>0. dx \in Int /\ dy \in Int
  <2>1. Coordinate \cup {0} \subseteq Int
    OBVIOUS
  <2> QED
    BY <2>1
<1>a. /\ Between(0, remainingX - Clamp(remainingX), remainingX)
      /\ Between(0, remainingY - Clamp(remainingY), remainingY)
      /\ {Clamp(remainingX), Clamp(remainingY)} \subseteq Int
  BY ClampShortens
<1>1. CASE Step
  BY <1>0, <1>a, <1>1 DEF Step, Advance, Report, Between, IsOver
<1>2. CASE Nudge
  <2>1. Clamp(remainingX) = 0
    BY <1>2 DEF Nudge, StraightDown, Clamp
  <2> QED
    BY <1>0, <1>a, <1>2, <2>1 DEF Nudge, StraightDown, Advance, Report, Between, IsOver
<1>3. CASE NudgeBack
  BY <1>0, <1>3 DEF NudgeBack, Report, Between, IsOver
<1>4. CASE EndMove
  BY <1>0, <1>4 DEF EndMove, Between, IsOver
<1>5. CASE AbandonMove
  BY <1>0, <1>5 DEF AbandonMove, IsMoving, Between, IsOver
<1>6. CASE UNCHANGED moveVars
  BY <1>6 DEF moveVars, Between, IsOver
<1>7. ASSUME NEW x \in Coordinate, NEW y \in Coordinate, BeginMove(x, y)
      PROVE  Inductive'
  <2>1. /\ dx' = x /\ remainingX' = x /\ dy' = y /\ remainingY' = y
        /\ pointerX' = 0 /\ pointerY' = 0 /\ reports' = 0 /\ movePhase' = "Moving"
    BY <1>7 DEF BeginMove
  <2>2. x \in Int /\ y \in Int
    OBVIOUS
  <2>3. MoveTypeOK'
    BY <2>1, <2>2
  <2>4. Between(0, x, x) /\ Between(0, y, y)
    BY <2>2 DEF Between
  <2> HIDE DEF MoveTypeOK
  <2> QED
    BY <2>1, <2>2, <2>3, <2>4 DEF IsOver
<1>8. CASE ForgetMove
  BY <1>8 DEF ForgetMove, Between, IsOver
<1> QED
  BY <1>1, <1>2, <1>3, <1>4, <1>5, <1>6, <1>7, <1>8 DEF MoveNext

\* The invariant holds at every report of a split displacement.
THEOREM InductiveHolds == MoveSpec => []Inductive
  BY InductiveInit, InductiveNext, PTL DEF MoveSpec

\* An acknowledged movement is exact, and one that is cancelled or fails stops on
\* the way to its target, whatever the displacement and the largest step.
THEOREM MovementIsSound == MoveSpec => []MoveInv
<1>1. Inductive => MoveTypeOK
  BY DEF Inductive
<1>2. Inductive => OnTarget
  BY MovementAssumption DEF Inductive, MoveTypeOK, OnTarget, IsOver
<1>3. Inductive => OnTheWay
  BY MovementAssumption DEF Inductive, MoveTypeOK, OnTheWay, Between, MovePhase
<1>4. Inductive => MoveInv
  BY <1>1, <1>2, <1>3 DEF MoveInv
<1> QED
  BY <1>4, InductiveHolds, PTL

\* Every report is a step a signed byte can hold, and moves the pointer.
THEOREM MovementReportsAreSteps == MoveSpec => ReportsAreSteps
<1> DEFINE A == reports' = reports + 1 =>
                  /\ pointerX' - pointerX \in -MaxStep .. MaxStep
                  /\ pointerY' - pointerY \in -MaxStep .. MaxStep
                  /\ <<pointerX', pointerY'>> # <<pointerX, pointerY>>
<1>1. Inductive /\ [MoveNext]_moveVars => [A]_moveVars
  <2> SUFFICES ASSUME Inductive, MoveNext PROVE A
    BY DEF moveVars
  <2> USE MovementAssumption DEF Inductive, MoveTypeOK
  <2>a. \A d \in {remainingX, remainingY} :
          Clamp(d) \in -MaxStep .. MaxStep /\ (d # 0 => Clamp(d) # 0)
    BY ClampShortens
  <2>1. CASE Step
    BY <2>a, <2>1 DEF Step, Report, IsOver
  <2>2. CASE Nudge
    BY <2>a, <2>2 DEF Nudge, Report
  <2>3. CASE NudgeBack
    BY <2>3 DEF NudgeBack, Report
  <2>4. CASE EndMove \/ AbandonMove
    BY <2>4 DEF EndMove, AbandonMove
  <2>5. CASE ForgetMove \/ \E x, y \in Coordinate : BeginMove(x, y)
    BY <2>5 DEF ForgetMove, BeginMove
  <2> QED
    BY <2>1, <2>2, <2>3, <2>4, <2>5 DEF MoveNext
<1> QED
  BY <1>1, InductiveHolds, PTL DEF MoveSpec, ReportsAreSteps

-----------------------------------------------------------------------------
(* The executor.                                                           *)

\* What is left of two.
LEMMA TailOfTwo ==
  ASSUME NEW S, NEW s \in Seq(S), Len(s) = 2
  PROVE  Tail(s) = <<s[2]>>
<1> DEFINE t == Tail(s)
           u == <<s[2]>>
<1>1. s # <<>> /\ s[2] \in S
  OBVIOUS
<1>2. t \in Seq(S) /\ Len(t) = Len(s) - 1 /\ \A i \in 1 .. Len(t) : t[i] = s[i + 1]
  BY <1>1, HeadTailProperties
<1>3. u \in Seq(S) /\ Len(u) = 1 /\ u[1] = s[2]
  BY <1>1
<1> HIDE DEF t, u
<1>4. Len(t) = 1
  BY <1>2
<1>5. \A i \in 1 .. Len(t) : t[i] = u[i]
  BY <1>2, <1>3, <1>4
<1> QED
  BY <1>2, <1>3, <1>4, <1>5, SeqEqual DEF t, u

\* Three, one and one make five.
LEMMA FiveInARow ==
  ASSUME NEW S, NEW p \in Seq(S), Len(p) = 3, NEW d \in S, NEW e \in S
  PROVE  LET s == p \o <<d>> \o <<e>>
         IN  /\ s \in Seq(S) /\ Len(s) = 5 /\ s # <<>>
             /\ s[1] = p[1] /\ s[2] = p[2] /\ s[3] = p[3] /\ s[4] = d /\ s[5] = e
<1> DEFINE v == <<d>>
           w == <<e>>
           q == p \o v
           s == q \o w
<1>1. /\ v \in Seq(S) /\ Len(v) = 1 /\ v[1] = d
      /\ w \in Seq(S) /\ Len(w) = 1 /\ w[1] = e
  OBVIOUS
<1> HIDE DEF v, w
<1>2. /\ q \in Seq(S) /\ Len(q) = Len(p) + Len(v)
      /\ \A i \in 1 .. Len(p) + Len(v) : q[i] = IF i <= Len(p) THEN p[i] ELSE v[i - Len(p)]
  BY <1>1, ConcatProperties
<1>q. q \in Seq(S) /\ w \in Seq(S)
  BY <1>1, <1>2
<1> HIDE DEF q
<1>3. Len(q) = 4
  BY <1>1, <1>2
<1>4. q[1] = p[1] /\ q[2] = p[2] /\ q[3] = p[3] /\ q[4] = d
  BY <1>1, <1>2
<1>5. /\ s \in Seq(S) /\ Len(s) = Len(q) + Len(w)
      /\ \A i \in 1 .. Len(q) + Len(w) : s[i] = IF i <= Len(q) THEN q[i] ELSE w[i - Len(q)]
  BY <1>q, ConcatProperties
<1> HIDE DEF s
<1>6. Len(s) = 5 /\ s # <<>>
  BY <1>1, <1>3, <1>5, EmptySeq
<1>7. s[1] = q[1] /\ s[2] = q[2] /\ s[3] = q[3] /\ s[4] = q[4] /\ s[5] = e
  BY <1>1, <1>3, <1>5
<1> QED
  BY <1>4, <1>5, <1>6, <1>7 DEF q, s, v, w

-----------------------------------------------------------------------------
(* Commands.                                                               *)

\* What the executor may be given has the fields of its type.
LEMMA CommandShape ==
  ASSUME NEW c \in Command
  PROVE  /\ c \in OwnedCommand
         /\ c.type \in OfKey \cup OfButton
                         \cup {"TypeAscii", "MouseMoveRel", "MouseWheel", "WaitMs"}
         /\ c.type \in OfKey => c.stroke \in Stroke
         /\ c.type \in OfButton => c.button \in Button
         /\ c.type = "TypeAscii" => c.text \in Text
         /\ c.type = "MouseWheel" => c.wheel \in SignedInt(256)
<1>1. PICK f \in Frame : IsAccepted(f, "Mutating") /\ c = Decode(f)
  BY DEF Command
<1>2. c \in OwnedCommand /\ Class(c) = "Mutating"
  BY <1>1, FrameAssumption, DecodedIsOwned DEF IsAccepted
<1>3. c.type \notin Empty
  BY <1>2 DEF Class, Empty
<1> QED
  BY <1>2, <1>3, SMT DEF OwnedCommand, Empty, OfKey, OfButton

\* What execute_owned_command decodes is the command that was encoded.
LEMMA CurrentIsHead ==
  ASSUME TypeOK, Running
  PROVE  Current = Head(job.commands) /\ Current \in Command
<1>1. Head(job.commands) \in Command
  BY DEF TypeOK, Job
<1>2. Head(job.commands) \in OwnedCommand
  BY <1>1, CommandShape
<1> QED
  BY <1>1, <1>2, EncodingIsInvertible DEF Current

-----------------------------------------------------------------------------
(* Held keys.                                                              *)

\* A keyboard state has both fields, and every code is one of a key.
LEMMA KeyboardShape ==
  ASSUME NEW k \in KeyboardState
  PROVE  /\ k = [modifiers |-> k.modifiers, keycodes |-> k.keycodes]
         /\ k.modifiers \in SUBSET Modifier /\ k.keycodes \in Seq(Key)
         /\ Len(k.keycodes) \in Nat /\ Len(k.keycodes) <= MaxHeldKeys
         /\ View(k) \in SUBSET (Modifier \cup Key)
<1>1. k \in [modifiers: SUBSET Modifier, keycodes: Seq(Key)]
  BY DEF KeyboardState
<1>2. \A i \in DOMAIN k.keycodes : k.keycodes[i] \in Key
  BY <1>1
<1> QED
  BY <1>1, <1>2 DEF KeyboardState, View

\* Modifiers and a sequence of few enough and different keys make a keyboard state.
LEMMA KeyboardIsMade ==
  ASSUME NEW m \in SUBSET Modifier, NEW s \in Seq(Key), Len(s) <= MaxHeldKeys,
         \A i, j \in 1 .. Len(s) : s[i] = s[j] => i = j
  PROVE  [modifiers |-> m, keycodes |-> s] \in KeyboardState
BY DEF KeyboardState

\* Nothing held is a state.
LEMMA IdleIsKeyboard == Idle \in KeyboardState /\ View(Idle) = {}
<1>1. <<>> \in Seq(Key) /\ Len(<<>>) <= MaxHeldKeys
  BY InputAssumption
<1>2. Idle \in KeyboardState
  BY <1>1 DEF Idle, KeyboardState
<1>3. View(Idle) = {}
  BY DEF View, Idle
<1> QED
  BY <1>2, <1>3

\* key_down leads to a state when it is not refused.
LEMMA KeyDownIsKeyboard ==
  ASSUME NEW k \in KeyboardState, NEW s \in Stroke, CanKeyDown(k, s)
  PROVE  KeyDown(k, s) \in KeyboardState
<1> DEFINE old == k.keycodes
           new == IF TakesPlace(k, s) THEN Append(old, s.key) ELSE old
<1>1. /\ k.modifiers \in SUBSET Modifier /\ old \in Seq(Key)
      /\ Len(old) \in Nat /\ Len(old) <= MaxHeldKeys
      /\ \A i, j \in 1 .. Len(old) : old[i] = old[j] => i = j
  BY DEF KeyboardState
<1>2. s.modifiers \in SUBSET Modifier /\ s.key \in Key \cup {None}
  BY DEF Stroke
<1>3. new \in Seq(Key) /\ Len(new) <= MaxHeldKeys
      /\ \A i, j \in 1 .. Len(new) : new[i] = new[j] => i = j
  <2>1. CASE ~TakesPlace(k, s)
    BY <1>1, <2>1
  <2>2. CASE TakesPlace(k, s)
    <3>1. s.key \in Key /\ Len(old) < MaxHeldKeys
          /\ \A i \in 1 .. Len(old) : old[i] # s.key
      BY <1>1, <1>2, <2>2 DEF TakesPlace, CanKeyDown, HoldsKey
    <3>2. new = Append(old, s.key)
      BY <2>2
    <3> HIDE DEF new
    <3>3. /\ new \in Seq(Key) /\ Len(new) = Len(old) + 1
          /\ \A i \in 1 .. Len(old) : new[i] = old[i]
          /\ new[Len(old) + 1] = s.key
      BY <1>1, <3>1, <3>2
    <3>4. MaxHeldKeys \in Nat
      BY InputAssumption
    <3>5. \A i, j \in 1 .. Len(new) : new[i] = new[j] => i = j
      BY <1>1, <3>1, <3>3
    <3> QED
      BY <1>1, <3>1, <3>3, <3>4, <3>5
  <2> QED
    BY <2>1, <2>2
<1> HIDE DEF new
<1>4. [modifiers |-> k.modifiers \cup s.modifiers, keycodes |-> new] \in KeyboardState
  BY <1>1, <1>2, <1>3, KeyboardIsMade
<1> QED
  BY <1>4 DEF KeyDown, new

\* key_up leads to a state, with one key fewer when it was held.
LEMMA KeyUpIsKeyboard ==
  ASSUME NEW k \in KeyboardState, NEW s
  PROVE  /\ KeyUp(k, s) \in KeyboardState
         /\ HoldsKey(k, s.key) => Len(KeyUp(k, s).keycodes) < MaxHeldKeys
<1> DEFINE old == k.keycodes
           p == Position(k, s.key)
           new == IF HoldsKey(k, s.key) THEN Without(old, p) ELSE old
<1>1. /\ k.modifiers \in SUBSET Modifier /\ old \in Seq(Key)
      /\ Len(old) \in Nat /\ Len(old) <= MaxHeldKeys
      /\ \A i, j \in 1 .. Len(old) : old[i] = old[j] => i = j
  BY DEF KeyboardState
<1>0. MaxHeldKeys \in Nat
  BY InputAssumption
<1>2. HoldsKey(k, s.key) =>
        /\ new \in Seq(Key) /\ Len(new) = Len(old) - 1
        /\ \A i, j \in 1 .. Len(new) : new[i] = new[j] => i = j
  <2> SUFFICES ASSUME HoldsKey(k, s.key)
               PROVE  /\ new \in Seq(Key) /\ Len(new) = Len(old) - 1
                      /\ \A i, j \in 1 .. Len(new) : new[i] = new[j] => i = j
    OBVIOUS
  <2>1. p \in 1 .. Len(old)
    BY <1>1 DEF HoldsKey, Position
  <2>2. new = [i \in 1 .. Len(old) - 1 |-> IF i < p THEN old[i] ELSE old[i + 1]]
    BY DEF Without
  <2> HIDE DEF new, p
  <2>3. /\ Len(old) - 1 \in Nat
        /\ \A i \in 1 .. Len(old) - 1 : i \in 1 .. Len(old) /\ i + 1 \in 1 .. Len(old)
    BY <1>1, <2>1
  <2>4. \A i \in 1 .. Len(old) - 1 : new[i] \in Key
    BY <1>1, <2>2, <2>3
  <2>5. new \in Seq(Key) /\ Len(new) = Len(old) - 1
    <3> DEFINE n == Len(old) - 1
    <3>1. n \in Nat /\ new \in [1 .. n -> Key]
      BY <2>2, <2>3, <2>4
    <3> HIDE DEF n
    <3>2. new \in Seq(Key) /\ Len(new) = n
      BY <3>1
    <3> QED
      BY <3>2 DEF n
  <2>6. ASSUME NEW i \in 1 .. Len(old) - 1, NEW j \in 1 .. Len(old) - 1,
               new[i] = new[j]
        PROVE  i = j
    <3> DEFINE at(n) == IF n < p THEN n ELSE n + 1
    <3>1. \A n \in 1 .. Len(old) - 1 : new[n] = old[at(n)] /\ at(n) \in 1 .. Len(old)
      BY <2>1, <2>2, <2>3
    <3>2. at(i) = at(j)
      BY <1>1, <2>6, <3>1
    <3> QED
      BY <2>1, <3>2
  <2> QED
    BY <2>5, <2>6
<1>3. /\ new \in Seq(Key) /\ Len(new) <= MaxHeldKeys
      /\ \A i, j \in 1 .. Len(new) : new[i] = new[j] => i = j
      /\ HoldsKey(k, s.key) => Len(new) < MaxHeldKeys
  BY <1>0, <1>1, <1>2
<1> HIDE DEF new
<1>4. [modifiers |-> k.modifiers \ s.modifiers, keycodes |-> new] \in KeyboardState
  <2>1. k.modifiers \ s.modifiers \in SUBSET Modifier
    BY <1>1
  <2> QED
    BY <1>3, <2>1, KeyboardIsMade
<1>5. KeyUp(k, s) = [modifiers |-> k.modifiers \ s.modifiers, keycodes |-> new]
  BY DEF KeyUp, new
<1> QED
  BY <1>3, <1>4, <1>5

\* A tap ends with what was held, after one or two states that may be sent.
LEMMA TapPlanIsPlan ==
  ASSUME NEW k \in KeyboardState, NEW s \in Stroke, CanTap(k, s)
  PROVE  \/ \E a \in KeyboardState : TapPlan(k, s) = <<a, k>>
         \/ \E a, b \in KeyboardState : TapPlan(k, s) = <<a, b, k>>
<1> DEFINE let == [s EXCEPT !.modifiers = IF s.key = None THEN @ ELSE {}]
           released == KeyUp(k, let)
<1>1. CASE ~StrikesHeld(k, s)
  <2>1. CanKeyDown(k, s) /\ TapPlan(k, s) = <<KeyDown(k, s), k>>
    BY <1>1 DEF CanTap, TapPlan
  <2> QED
    BY <2>1, KeyDownIsKeyboard
<1>2. CASE StrikesHeld(k, s)
  <2>1. TapPlan(k, s) = <<released, KeyDown(released, s), k>>
    BY <1>2 DEF TapPlan
  <2>2. let.key = s.key
    BY DEF Stroke
  <2>3. released \in KeyboardState
    BY KeyUpIsKeyboard
  <2>4. CanKeyDown(released, s)
    <3>1. CASE s.key = None
      BY <3>1 DEF CanKeyDown, TakesPlace
    <3>2. CASE s.key # None
      BY <1>2, <2>2, <3>2, KeyUpIsKeyboard DEF CanKeyDown, StrikesHeld
    <3> QED
      BY <3>1, <3>2
  <2>5. KeyDown(released, s) \in KeyboardState
    BY <2>3, <2>4, KeyDownIsKeyboard
  <2> QED
    BY <2>1, <2>3, <2>5
<1> QED
  BY <1>1, <1>2

\* A key of a text can be tapped when nothing is held, and is not held then.
LEMMA TypedTap ==
  ASSUME NEW char \in Supported, NEW caps
  PROVE  \E a \in KeyboardState : TapPlan(Idle, Keystroke(char, caps)) = <<a, Idle>>
<1> DEFINE s == Keystroke(char, caps)
<1>1. s.modifiers \in SUBSET Modifier /\ s.key \in Characters
      /\ s = [modifiers |-> s.modifiers, key |-> s.key]
  BY ExecutionAssumption DEF Keystroke, StrokeOf, KeyOf, Supported, Char, Letter, Characters
<1>2. s.key \in Key /\ s.key # None
  BY <1>1, ExecutionAssumption, InputAssumption
<1> HIDE DEF s
<1>3. s \in Stroke
  BY <1>1, <1>2 DEF Stroke
<1>4. ~HoldsKey(Idle, s.key) /\ ~StrikesHeld(Idle, s)
  BY <1>2 DEF HoldsKey, Idle, StrikesHeld
<1>5. CanKeyDown(Idle, s)
  BY InputAssumption DEF CanKeyDown, Idle
<1>6. TapPlan(Idle, s) = <<KeyDown(Idle, s), Idle>>
  BY <1>4 DEF TapPlan
<1>7. KeyDown(Idle, s) \in KeyboardState
  BY <1>3, <1>5, IdleIsKeyboard, KeyDownIsKeyboard
<1> QED
  BY <1>6, <1>7 DEF s

-----------------------------------------------------------------------------
(* The steps of a command.                                                 *)

\* Two or three reports have a delay after each but the last.
LEMMA PulseOfTwo ==
  ASSUME NEW a, NEW b
  PROVE  Pulse(<<a, b>>) = <<a, Delay, b>>
BY SMT DEF Pulse

LEMMA PulseOfThree ==
  ASSUME NEW a, NEW b, NEW c
  PROVE  Pulse(<<a, b, c>>) = <<a, Delay, b, Delay, c>>
BY SMT DEF Pulse

\* What is said of the body of a command: kinds of its steps, the last one apart.
IsBody(body, kinds, last) ==
  /\ body \in Seq(CommandStep) /\ body # <<>>
  /\ last = body[Len(body)]
  /\ \A i \in 1 .. Len(body) - 1 : body[i].do \in kinds

\* Three or five steps of a pulse.
LEMMA PulseIsBody ==
  ASSUME NEW a \in CommandStep, NEW b \in CommandStep, NEW c \in CommandStep,
         NEW kinds, "delay" \in kinds, a.do \in kinds, b.do \in kinds
  PROVE  /\ IsBody(Pulse(<<a, b>>), kinds, b)
         /\ IsBody(Pulse(<<a, b, c>>), kinds, c)
<1>1. Delay \in CommandStep /\ Delay.do \in kinds
  BY DEF CommandStep, Delay
<1>2. IsBody(<<a, Delay, b>>, kinds, b)
  BY <1>1 DEF IsBody
<1>3. IsBody(<<a, Delay, b, Delay, c>>, kinds, c)
  BY <1>1 DEF IsBody
<1> QED
  BY <1>2, <1>3, PulseOfTwo, PulseOfThree

\* Between two checks.
LEMMA CheckedBody ==
  ASSUME NEW body, NEW kinds, NEW last, IsBody(body, kinds, last), "check" \in kinds
  PROVE  LET s == <<Check>> \o body \o <<Check>>
         IN  /\ s \in Seq(CommandStep) /\ s # <<>>
             /\ Len(s) > 1 /\ s[Len(s)] = Check /\ s[Len(s) - 1] = last
             /\ Len(s) = Len(body) + 2 /\ s[1] = Check
             /\ AllOf(s, kinds)
<1> DEFINE m == Len(body)
           s == <<Check>> \o body \o <<Check>>
<1>1. Check \in CommandStep /\ Check.do = "check"
  BY DEF CommandStep, Check
<1>2. body \in Seq(CommandStep) /\ m \in Nat /\ m >= 1
  BY DEF IsBody
<1>3. /\ s \in Seq(CommandStep) /\ Len(s) = m + 2
      /\ s[1] = Check /\ s[m + 2] = Check
      /\ \A i \in 1 .. m : s[i + 1] = body[i]
  BY <1>1, <1>2
<1> HIDE DEF s
<1>4. s[m + 1] = last
  BY <1>2, <1>3 DEF IsBody
<1>5. ASSUME NEW i \in 1 .. m PROVE s[i].do \in kinds
  <2>1. CASE i = 1
    BY <1>1, <1>3, <2>1
  <2>2. CASE i # 1
    <3>1. i - 1 \in 1 .. m - 1 /\ i - 1 \in 1 .. m /\ i = (i - 1) + 1
      BY <1>2, <2>2
    <3>2. s[i] = body[i - 1] /\ body[i - 1].do \in kinds
      BY <1>3, <3>1 DEF IsBody
    <3> QED
      BY <3>2
  <2> QED
    BY <2>1, <2>2
<1>6. Len(s) - 2 = m /\ Len(s) - 1 = m + 1 /\ Len(s) > 1 /\ s # <<>>
  BY <1>2, <1>3
<1>7. AllOf(s, kinds)
  BY <1>5, <1>6 DEF AllOf
<1> QED
  BY <1>3, <1>4, <1>6, <1>7 DEF s

\* What a command that is not refused puts before the executor fits together, and
\* leaves behind what BatchCollector foresees for it.
LEMMA BodyFits ==
  ASSUME NEW c \in Command, NEW state \in InputValue, ~Refuses(c, state),
         capsLock \in BOOLEAN
  PROVE  LET s == <<Check>> \o Body(c, state) \o <<Check>>
         IN  /\ s \in Seq(CommandStep) /\ s # <<>>
             /\ FitTogether(s, c, state.keyboard)
             /\ Outcome(s, state) = ShadowAfter(c, state)
<1> DEFINE body == Body(c, state)
           s == <<Check>> \o body \o <<Check>>
           byKey == {"check", "delay", "keyboard"}
           byButton == {"check", "delay", "mouse"}
<1>0. /\ state.keyboard \in KeyboardState /\ state.mouse \in SUBSET Button
      /\ state = [keyboard |-> state.keyboard, mouse |-> state.mouse]
  BY DEF InputValue
<1>k. ASSUME NEW k \in KeyboardState
      PROVE  KeyboardReport(k) \in CommandStep /\ KeyboardReport(k).do = "keyboard"
             /\ KeyboardReport(k).state = k
  BY DEF CommandStep, KeyboardReport
<1>m. ASSUME NEW m \in SUBSET Button
      PROVE  MouseReport(m) \in CommandStep /\ MouseReport(m).do = "mouse"
             /\ MouseReport(m).state = m
  BY DEF CommandStep, MouseReport
\* A body that ends with a report of the keyboard, of the mouse, or with neither.
<1>K. ASSUME NEW k \in KeyboardState, IsBody(body, byKey, KeyboardReport(k))
      PROVE  /\ s \in Seq(CommandStep) /\ s # <<>>
             /\ FitTogether(s, c, state.keyboard)
             /\ Outcome(s, state) = [state EXCEPT !.keyboard = k]
  BY <1>K, <1>k, CheckedBody DEF FitTogether, Outcome, Effect
<1>M. ASSUME NEW m \in SUBSET Button, IsBody(body, byButton, MouseReport(m))
      PROVE  /\ s \in Seq(CommandStep) /\ s # <<>>
             /\ FitTogether(s, c, state.keyboard)
             /\ Outcome(s, state) = [state EXCEPT !.mouse = m]
  BY <1>M, <1>m, CheckedBody DEF FitTogether, Outcome, Effect
<1>N. ASSUME NEW last, IsBody(body, {"check"}, last),
             \/ last.do \in {"delay", "wheel"}
             \/ last.do = "move" /\ c.type = "MouseMoveRel"
      PROVE  /\ s \in Seq(CommandStep) /\ s # <<>>
             /\ FitTogether(s, c, state.keyboard)
             /\ Outcome(s, state) = state
  BY <1>N, CheckedBody DEF FitTogether, Outcome, Effect
<1>1. ASSUME NEW step \in CommandStep, NEW kinds
      PROVE  IsBody(<<step>>, kinds, step)
  BY DEF IsBody
<1>2. CASE c.type = "KeyDown"
  <2>1. c.stroke \in Stroke /\ CanKeyDown(state.keyboard, c.stroke)
    BY <1>2, CommandShape DEF OfKey, Refuses
  <2> DEFINE k == KeyDown(state.keyboard, c.stroke)
  <2>2. k \in KeyboardState
    BY <1>0, <2>1, KeyDownIsKeyboard
  <2>3. body = <<KeyboardReport(k)>> /\ ShadowAfter(c, state) = [state EXCEPT !.keyboard = k]
    BY <1>2 DEF Body, ShadowAfter
  <2> HIDE DEF body, k
  <2> QED
    BY <1>1, <1>k, <1>K, <2>2, <2>3 DEF body
<1>3. CASE c.type = "KeyUp"
  <2> DEFINE k == KeyUp(state.keyboard, c.stroke)
  <2>2. k \in KeyboardState
    BY <1>0, KeyUpIsKeyboard
  <2>3. body = <<KeyboardReport(k)>> /\ ShadowAfter(c, state) = [state EXCEPT !.keyboard = k]
    BY <1>3 DEF Body, ShadowAfter
  <2> HIDE DEF body, k
  <2> QED
    BY <1>1, <1>k, <1>K, <2>2, <2>3 DEF body
<1>4. CASE c.type = "KeyTap"
  <2>1. c.stroke \in Stroke /\ CanTap(state.keyboard, c.stroke)
    BY <1>4, CommandShape DEF OfKey, Refuses
  <2> DEFINE plan == TapPlan(state.keyboard, c.stroke)
  <2>2. body = KeyboardPulse(plan) /\ ShadowAfter(c, state) = state
    BY <1>4 DEF Body, ShadowAfter
  <2>3. \/ \E a \in KeyboardState : plan = <<a, state.keyboard>>
        \/ \E a, b \in KeyboardState : plan = <<a, b, state.keyboard>>
    BY <1>0, <2>1, TapPlanIsPlan
  <2> HIDE DEF body, plan
  <2>4. IsBody(body, byKey, KeyboardReport(state.keyboard))
    <3>1. ASSUME NEW a \in KeyboardState, plan = <<a, state.keyboard>>
          PROVE  IsBody(body, byKey, KeyboardReport(state.keyboard))
      <4>1. [i \in DOMAIN plan |-> KeyboardReport(plan[i])]
              = <<KeyboardReport(a), KeyboardReport(state.keyboard)>>
        BY <3>1
      <4> QED
        BY <1>0, <1>k, <2>2, <4>1, PulseIsBody DEF KeyboardPulse
    <3>2. ASSUME NEW a \in KeyboardState, NEW b \in KeyboardState,
                 plan = <<a, b, state.keyboard>>
          PROVE  IsBody(body, byKey, KeyboardReport(state.keyboard))
      <4>1. [i \in DOMAIN plan |-> KeyboardReport(plan[i])]
              = <<KeyboardReport(a), KeyboardReport(b), KeyboardReport(state.keyboard)>>
        BY <3>2
      <4> QED
        BY <1>0, <1>k, <2>2, <4>1, PulseIsBody DEF KeyboardPulse
    <3> QED
      BY <2>3, <3>1, <3>2
  <2>5. [state EXCEPT !.keyboard = state.keyboard] = state
    BY <1>0
  <2> QED
    BY <1>0, <1>K, <2>2, <2>4, <2>5 DEF body
<1>5. CASE c.type = "TypeAscii"
  <2>1. IsIdle(state.keyboard) /\ IsTyped(c.text)
    BY <1>5 DEF Refuses
  <2> DEFINE last == Strokes(1, capsLock)
  <2>2. body = <<last>> /\ ShadowAfter(c, state) = state
    BY <1>5 DEF Body, ShadowAfter
  <2>3. last \in CommandStep /\ last.do = "strokes"
    BY DEF CommandStep, Strokes
  <2> HIDE DEF body, last
  <2>4. /\ s \in Seq(CommandStep) /\ s # <<>> /\ AllOf(s, byKey) /\ Len(s) = 3
        /\ s[1] = Check /\ s[2] = last /\ s[3] = Check
    <3>1. IsBody(body, byKey, last) /\ Len(body) = 1
      BY <1>1, <2>2, <2>3
    <3>2. "check" \in byKey
      OBVIOUS
    <3> HIDE DEF byKey
    <3>3. /\ s \in Seq(CommandStep) /\ s # <<>> /\ AllOf(s, byKey)
          /\ s[Len(s)] = Check /\ s[Len(s) - 1] = last
          /\ Len(s) = Len(body) + 2 /\ s[1] = Check
      BY <3>1, <3>2, CheckedBody
    <3>4. Len(s) = 3
      BY <3>1, <3>3
    <3>5. Len(s) - 1 = 2
      BY <3>4
    <3> QED
      BY <3>3, <3>4, <3>5
  <2> HIDE DEF s
  <2>5. FitTogether(s, c, state.keyboard)
    <3>1. Head(s).do # "keyboard"
      BY <2>4 DEF Check
    <3> QED
      BY <1>5, <2>1, <2>3, <2>4, <3>1 DEF FitTogether
  <2>6. Outcome(s, state) = [state EXCEPT !.keyboard = Idle]
    BY <2>3, <2>4 DEF Outcome, Effect
  <2>7. [state EXCEPT !.keyboard = Idle] = state
    BY <1>0, <2>1 DEF IsIdle
  <2> QED
    BY <2>2, <2>4, <2>5, <2>6, <2>7 DEF s, body
<1>6. CASE c.type = "MouseButtonDown"
  <2> DEFINE m == state.mouse \cup {c.button}
  <2>1. m \in SUBSET Button
    BY <1>0, <1>6, CommandShape DEF OfButton
  <2>2. body = <<MouseReport(m)>> /\ ShadowAfter(c, state) = [state EXCEPT !.mouse = m]
    BY <1>6 DEF Body, ShadowAfter
  <2> HIDE DEF body, m
  <2> QED
    BY <1>1, <1>m, <1>M, <2>1, <2>2 DEF body
<1>7. CASE c.type = "MouseButtonUp"
  <2> DEFINE m == state.mouse \ {c.button}
  <2>1. m \in SUBSET Button
    BY <1>0
  <2>2. body = <<MouseReport(m)>> /\ ShadowAfter(c, state) = [state EXCEPT !.mouse = m]
    BY <1>7 DEF Body, ShadowAfter
  <2> HIDE DEF body, m
  <2> QED
    BY <1>1, <1>m, <1>M, <2>1, <2>2 DEF body
<1>8. CASE c.type = "MouseClick"
  <2> DEFINE plan == ClickPlan(state.mouse, c.button)
             m == state.mouse
  <2>1. c.button \in Button
    BY <1>8, CommandShape DEF OfButton
  <2>2. body = MousePulse(plan) /\ ShadowAfter(c, state) = state
    BY <1>8 DEF Body, ShadowAfter
  <2>3. \/ plan = <<m \cup {c.button}, m>>
        \/ plan = <<m \ {c.button}, m, m>>
    BY DEF ClickPlan
  <2>4. {m, m \cup {c.button}, m \ {c.button}} \subseteq SUBSET Button
    BY <1>0, <2>1
  <2> HIDE DEF body, plan
  <2>5. IsBody(body, byButton, MouseReport(m))
    <3>1. ASSUME NEW a \in SUBSET Button, plan = <<a, m>>
          PROVE  IsBody(body, byButton, MouseReport(m))
      <4>1. [i \in DOMAIN plan |-> MouseReport(plan[i])] = <<MouseReport(a), MouseReport(m)>>
        BY <3>1
      <4> QED
        BY <1>m, <2>2, <2>4, <4>1, PulseIsBody DEF MousePulse
    <3>2. ASSUME NEW a \in SUBSET Button, plan = <<a, m, m>>
          PROVE  IsBody(body, byButton, MouseReport(m))
      <4>1. [i \in DOMAIN plan |-> MouseReport(plan[i])]
              = <<MouseReport(a), MouseReport(m), MouseReport(m)>>
        BY <3>2
      <4> QED
        BY <1>m, <2>2, <2>4, <4>1, PulseIsBody DEF MousePulse
    <3> QED
      BY <2>3, <2>4, <3>1, <3>2
  <2>6. [state EXCEPT !.mouse = m] = state
    BY <1>0
  <2> QED
    BY <1>M, <2>2, <2>4, <2>5, <2>6 DEF body
<1>9. CASE c.type = "MouseMoveRel"
  <2>1. Move \in CommandStep /\ Move.do = "move"
    BY DEF CommandStep, Move
  <2>2. body = <<Move>> /\ ShadowAfter(c, state) = state
    BY <1>9 DEF Body, ShadowAfter
  <2> HIDE DEF body
  <2> QED
    BY <1>1, <1>9, <1>N, <2>1, <2>2 DEF body
<1>10. CASE c.type = "MouseWheel"
  <2> DEFINE last == WheelReport(c.wheel)
  <2>1. last \in CommandStep /\ last.do = "wheel"
    BY <1>10, CommandShape DEF CommandStep, WheelReport
  <2>2. body = <<last>> /\ ShadowAfter(c, state) = state
    BY <1>10 DEF Body, ShadowAfter
  <2> HIDE DEF body, last
  <2> QED
    BY <1>1, <1>N, <2>1, <2>2 DEF body
<1>11. CASE c.type = "WaitMs"
  <2>1. Delay \in CommandStep /\ Delay.do = "delay"
    BY DEF CommandStep, Delay
  <2>2. body = <<Delay>> /\ ShadowAfter(c, state) = state
    BY <1>11 DEF Body, ShadowAfter
  <2> HIDE DEF body
  <2> QED
    BY <1>1, <1>N, <2>1, <2>2 DEF body
<1> QED
  BY CommandShape, <1>2, <1>3, <1>4, <1>5, <1>6, <1>7, <1>8, <1>9, <1>10, <1>11
     DEF OfKey, OfButton

\* When a step is taken, those that follow fit together and lead to the same state.
LEMMA TailFits ==
  ASSUME NEW s \in Seq(CommandStep), Len(s) > 1, NEW c, NEW state \in InputValue,
         FitTogether(s, c, state.keyboard), Head(s).do # "strokes"
  PROVE  LET next == Effect(Head(s), state)
         IN  /\ FitTogether(Tail(s), c, next.keyboard)
             /\ Outcome(Tail(s), next) = Outcome(s, state)
<1> DEFINE t == Tail(s)
           n == Len(s)
           last == s[n - 1]
           next == Effect(Head(s), state)
<1>0. state = [keyboard |-> state.keyboard, mouse |-> state.mouse]
  BY DEF InputValue
<1>1. n \in Nat /\ n > 1 /\ Len(t) = n - 1 /\ t[n - 1] = s[n] /\ Head(s) = s[1]
  OBVIOUS
<1>2. \A i \in 1 .. n - 1 : t[i] = s[i + 1]
  OBVIOUS
<1>3. s[n] = Check
  BY DEF FitTogether
<1> HIDE DEF t, n
<1>4. CASE n = 2
  <2>1. Len(t) = 1 /\ t[1] = Check /\ last = Head(s)
    BY <1>1, <1>3, <1>4
  <2>2. FitTogether(t, c, next.keyboard)
    BY <2>1 DEF FitTogether
  <2>3. Outcome(t, next) = next
    BY <2>1 DEF Outcome
  <2>4. Outcome(s, state) = next
    BY <1>1, <1>4, <2>1 DEF Outcome, n
  <2> QED
    BY <2>2, <2>3, <2>4 DEF t
<1>5. CASE n > 2
  <2>1. /\ Len(t) > 1 /\ Len(t) - 1 = n - 2 /\ t[n - 2] = last /\ t[n - 1] = Check
        /\ n - 2 \in 1 .. n - 2 /\ 1 \in 1 .. n - 2
    BY <1>1, <1>2, <1>3, <1>5
  <2>o. Outcome(t, next) = Effect(last, next) /\ Outcome(s, state) = Effect(last, state)
    BY <1>1, <2>1 DEF Outcome, n
  <2>2. ASSUME NEW kinds, AllOf(s, kinds)
        PROVE  AllOf(t, kinds) /\ Head(s).do \in kinds
    <3>1. \A i \in 1 .. n - 2 : s[i].do \in kinds
      BY <2>2 DEF AllOf, n
    <3>2. \A i \in 1 .. n - 3 : t[i] = s[i + 1] /\ i + 1 \in 1 .. n - 2
      BY <1>1, <1>2
    <3>3. Len(t) - 2 = n - 3
      BY <1>1
    <3> QED
      BY <1>1, <2>1, <3>1, <3>2, <3>3 DEF AllOf
  <2>3. CASE last.do = "keyboard" /\ AllOf(s, {"check", "delay", "keyboard"})
    <3>1. AllOf(t, {"check", "delay", "keyboard"})
          /\ Head(s).do \in {"check", "delay", "keyboard"}
      BY <2>2, <2>3
    <3>2. FitTogether(t, c, next.keyboard)
      BY <1>1, <2>1, <2>3, <3>1 DEF FitTogether
    <3> QED
      BY <1>0, <2>o, <2>3, <3>1, <3>2 DEF Effect, t
  <2>4. CASE last.do = "mouse" /\ AllOf(s, {"check", "delay", "mouse"})
    <3>1. AllOf(t, {"check", "delay", "mouse"})
          /\ Head(s).do \in {"check", "delay", "mouse"}
      BY <2>2, <2>4
    <3>2. FitTogether(t, c, next.keyboard)
      BY <1>1, <2>1, <2>4, <3>1 DEF FitTogether
    <3> QED
      BY <1>0, <2>o, <2>4, <3>1, <3>2 DEF Effect, t
  <2>5. CASE /\ last.do = "strokes" /\ AllOf(s, {"check", "delay", "keyboard"})
             /\ c.type = "TypeAscii" /\ IsTyped(c.text)
             /\ \/ s[n - 2] = KeyboardReport(Idle)
                \/ n <= 3 /\ Head(s).do # "keyboard" /\ IsIdle(state.keyboard)
    <3>1. AllOf(t, {"check", "delay", "keyboard"})
          /\ Head(s).do \in {"check", "delay", "keyboard"}
      BY <2>2, <2>5
    <3>2. \/ Len(t) > 2 /\ t[Len(t) - 2] = KeyboardReport(Idle)
          \/ Len(t) <= 3 /\ Head(t).do # "keyboard" /\ IsIdle(next.keyboard)
      <4>1. CASE n > 3
        <5>1. s[n - 2] = KeyboardReport(Idle)
          BY <1>1, <2>5, <4>1
        <5>2. Len(t) > 2 /\ t[n - 3] = s[n - 2] /\ Len(t) - 2 = n - 3
          <6>1. n - 3 \in 1 .. n - 1 /\ (n - 3) + 1 = n - 2
            BY <1>1, <4>1
          <6> QED
            BY <1>1, <1>2, <4>1, <6>1
        <5> QED
          BY <5>1, <5>2
      <4>2. CASE n = 3
        <5>1. Len(t) = 2 /\ Head(t) = last
          BY <1>1, <2>1, <4>2
        <5>2. s[n - 2] = Head(s)
          BY <1>1, <4>2
        <5>3. IsIdle(next.keyboard)
          <6>1. CASE Head(s) = KeyboardReport(Idle)
            BY <1>0, <6>1 DEF Effect, IsIdle, KeyboardReport
          <6>2. CASE Head(s).do # "keyboard" /\ IsIdle(state.keyboard)
            BY <3>1, <6>2 DEF Effect
          <6> QED
            BY <2>5, <5>2, <6>1, <6>2
        <5> QED
          BY <2>5, <5>1, <5>3
      <4> QED
        BY <1>1, <1>5, <4>1, <4>2
    <3>3. FitTogether(t, c, next.keyboard)
      BY <1>1, <2>1, <2>5, <3>1, <3>2 DEF FitTogether
    <3> QED
      BY <1>0, <2>o, <2>5, <3>1, <3>3 DEF Effect, t
  <2>6. CASE /\ AllOf(s, {"check"})
             /\ \/ last.do = "move" /\ c.type = "MouseMoveRel"
                \/ last.do \in {"check", "delay", "wheel"}
    <3>1. AllOf(t, {"check"}) /\ Head(s).do = "check"
      BY <2>2, <2>6
    <3>2. FitTogether(t, c, next.keyboard)
      BY <1>1, <2>1, <2>6, <3>1 DEF FitTogether
    <3> QED
      BY <1>0, <2>o, <2>6, <3>1, <3>2 DEF Effect, t
  <2> QED
    BY <1>1, <2>3, <2>4, <2>5, <2>6 DEF FitTogether, n
<1> QED
  BY <1>1, <1>4, <1>5

\* A loop over strokes, or over the steps of a movement, is all there is but the check.
LEMMA LoopFits ==
  ASSUME NEW s \in Seq(CommandStep), s # <<>>, NEW c, NEW keyboard,
         FitTogether(s, c, keyboard)
  PROVE  /\ Head(s) # Check => Len(s) > 1
         /\ Head(s).do = "move" => c.type = "MouseMoveRel"
         /\ Head(s).do = "strokes" =>
              /\ Tail(s) = <<Check>> /\ Len(s) = 2
              /\ c.type = "TypeAscii" /\ IsTyped(c.text) /\ IsIdle(keyboard)
<1> DEFINE n == Len(s)
<1>1. n \in Nat /\ n >= 1 /\ Head(s) = s[1] /\ s[n] = Check
  BY DEF FitTogether
<1>2. Head(s) # Check => n > 1
  BY <1>1
<1>3. ASSUME n > 2 PROVE Head(s).do \in {"check", "delay", "keyboard", "mouse"}
  <2>1. 1 \in 1 .. n - 2
    BY <1>1, <1>3
  <2>2. ASSUME NEW kinds, AllOf(s, kinds) PROVE Head(s).do \in kinds
    BY <1>1, <2>1, <2>2 DEF AllOf
  <2> QED
    BY <1>1, <1>3, <2>2 DEF FitTogether
<1>4. ASSUME Head(s).do \in {"move", "strokes"} PROVE n = 2 /\ s[n - 1] = Head(s)
  <2>1. Head(s) # Check
    BY <1>4 DEF Check
  <2>2. ~(n > 2)
    BY <1>3, <1>4
  <2>3. n = 2
    <3> HIDE DEF n
    <3>1. n \in Nat /\ n > 1
      BY <1>1, <1>2, <2>1
    <3> QED
      BY <2>2, <3>1
  <2> QED
    BY <1>1, <2>3
<1>5. Head(s).do = "move" => c.type = "MouseMoveRel"
  <2> SUFFICES ASSUME Head(s).do = "move" PROVE c.type = "MouseMoveRel"
    OBVIOUS
  <2> HIDE DEF n
  <2> QED
    BY <1>4 DEF FitTogether, n
<1>6. ASSUME Head(s).do = "strokes"
      PROVE  /\ Tail(s) = <<Check>>
             /\ c.type = "TypeAscii" /\ IsTyped(c.text) /\ IsIdle(keyboard)
  <2>1. n = 2 /\ s[1].do = "strokes" /\ s[2] = Check /\ s[n - 1] = s[1]
    BY <1>1, <1>4, <1>6
  <2>2. Tail(s) = <<Check>>
    BY <2>1, TailOfTwo
  <2> QED
    BY <2>1, <2>2 DEF FitTogether
<1> QED
  BY <1>2, <1>4, <1>5, <1>6

\* A stroke is tapped, and the text goes on after it.
LEMMA StrokeFits ==
  ASSUME NEW c, c.type = "TypeAscii", IsTyped(c.text), NEW char \in Supported, NEW caps,
         NEW rest \in CommandStep, rest.do = "strokes", NEW keyboard,
         NEW state \in InputValue, IsIdle(state.keyboard)
  PROVE  LET s == KeyboardPulse(TapPlan(Idle, Keystroke(char, caps)))
                    \o <<rest>> \o <<Check>>
         IN  /\ s \in Seq(CommandStep) /\ s # <<>>
             /\ FitTogether(s, c, keyboard) /\ Outcome(s, state) = state
<1> DEFINE plan == TapPlan(Idle, Keystroke(char, caps))
           s == KeyboardPulse(plan) \o <<rest>> \o <<Check>>
           last == KeyboardReport(Idle)
<1>1. PICK a \in KeyboardState : plan = <<a, Idle>>
  BY TypedTap
<1> DEFINE first == KeyboardReport(a)
<1>2. KeyboardPulse(plan) = <<first, Delay, last>>
  <2>1. [i \in DOMAIN plan |-> KeyboardReport(plan[i])] = <<first, last>>
    BY <1>1
  <2> QED
    BY <2>1, PulseOfTwo DEF KeyboardPulse
<1>3. {first, last, Delay, Check} \subseteq CommandStep
  BY IdleIsKeyboard DEF CommandStep, KeyboardReport, Delay, Check
<1>4. first.do = "keyboard" /\ last.do = "keyboard" /\ Delay.do = "delay"
  BY DEF KeyboardReport, Delay
<1>5. /\ s \in Seq(CommandStep) /\ Len(s) = 5 /\ s # <<>>
      /\ s[1] = first /\ s[2] = Delay /\ s[3] = last /\ s[4] = rest /\ s[5] = Check
  <2> DEFINE pulse == KeyboardPulse(plan)
  <2>1. pulse \in Seq(CommandStep) /\ Len(pulse) = 3
        /\ pulse[1] = first /\ pulse[2] = Delay /\ pulse[3] = last
    BY <1>2, <1>3
  <2> HIDE DEF pulse, first, last
  <2> QED
    BY <1>3, <2>1, FiveInARow DEF pulse
<1> HIDE DEF first, s
<1>7. AllOf(s, {"check", "delay", "keyboard"})
  <2> HIDE DEF last
  <2> QED
    BY <1>4, <1>5 DEF AllOf
<1>8. FitTogether(s, c, keyboard)
  <2> HIDE DEF last
  <2>1. s[Len(s) - 2] = last /\ s[Len(s) - 1] = rest /\ Len(s) > 2
    BY <1>5
  <2> QED
    BY <1>5, <1>7, <2>1 DEF FitTogether, last
<1>9. Outcome(s, state) = state
  BY <1>5 DEF Outcome, Effect, IsIdle, InputValue
<1> QED
  BY <1>5, <1>8, <1>9 DEF s

-----------------------------------------------------------------------------
(* What BatchCollector foresees.                                           *)

\* What is valid for the collector, the executor does not refuse.
LEMMA ValidIsNotRefused ==
  ASSUME NEW c \in Command, NEW state
  PROVE  IsValid(c, state) <=> ~Refuses(c, state)
BY DEF IsValid, Refuses

\* A valid command leads to a state.
LEMMA ShadowIsInput ==
  ASSUME NEW c \in Command, NEW state \in InputValue, IsValid(c, state)
  PROVE  ShadowAfter(c, state) \in InputValue
<1>0. /\ state.keyboard \in KeyboardState /\ state.mouse \in SUBSET Button
      /\ state = [keyboard |-> state.keyboard, mouse |-> state.mouse]
  BY DEF InputValue
<1>1. CASE c.type = "KeyDown"
  <2>1. KeyDown(state.keyboard, c.stroke) \in KeyboardState
    BY <1>0, <1>1, CommandShape, KeyDownIsKeyboard DEF OfKey, IsValid
  <2> QED
    BY <1>0, <1>1, <2>1 DEF ShadowAfter, InputValue
<1>2. CASE c.type = "KeyUp"
  <2>1. KeyUp(state.keyboard, c.stroke) \in KeyboardState
    BY <1>0, KeyUpIsKeyboard
  <2> QED
    BY <1>0, <1>2, <2>1 DEF ShadowAfter, InputValue
<1>3. CASE c.type = "MouseButtonDown"
  <2>1. state.mouse \cup {c.button} \in SUBSET Button
    BY <1>0, <1>3, CommandShape DEF OfButton
  <2> QED
    BY <1>0, <1>3, <2>1 DEF ShadowAfter, InputValue
<1>4. CASE c.type = "MouseButtonUp"
  <2>1. state.mouse \ {c.button} \in SUBSET Button
    BY <1>0
  <2> QED
    BY <1>0, <1>4, <2>1 DEF ShadowAfter, InputValue
<1> QED
  BY <1>1, <1>2, <1>3, <1>4 DEF ShadowAfter

\* push keeps what is foreseen.
LEMMA PushIsForeseen ==
  ASSUME NEW commands \in Seq(Command), NEW shadows \in Seq(InputValue),
         IsForeseen(commands, shadows), NEW c \in Command,
         IsValid(c, shadows[Len(shadows)])
  PROVE  LET after == ShadowAfter(c, shadows[Len(shadows)])
         IN  /\ after \in InputValue
             /\ IsForeseen(Append(commands, c), Append(shadows, after))
<1> DEFINE n == Len(commands)
           last == shadows[Len(shadows)]
           after == ShadowAfter(c, last)
           cs == Append(commands, c)
           sh == Append(shadows, after)
<1>1. /\ n \in Nat /\ Len(shadows) = n + 1
      /\ \A i \in 1 .. n : /\ IsValid(commands[i], shadows[i])
                          /\ shadows[i + 1] = ShadowAfter(commands[i], shadows[i])
  BY DEF IsForeseen
<1>2. last \in InputValue
  BY <1>1
<1>3. after \in InputValue
  BY <1>2, ShadowIsInput
<1> HIDE DEF n, last, after
<1>4. /\ Len(cs) = n + 1 /\ DOMAIN cs = 1 .. n + 1 /\ cs[n + 1] = c
      /\ \A i \in 1 .. n : cs[i] = commands[i]
  BY DEF n
<1>5. /\ Len(sh) = n + 2 /\ sh[n + 2] = after
      /\ \A i \in 1 .. n + 1 : sh[i] = shadows[i]
  BY <1>1, <1>3
<1> HIDE DEF cs, sh
<1>6. last = shadows[n + 1]
  BY <1>1 DEF last
<1>7. ASSUME NEW i \in 1 .. n + 1
      PROVE  IsValid(cs[i], sh[i]) /\ sh[i + 1] = ShadowAfter(cs[i], sh[i])
  <2>1. CASE i \in 1 .. n
    <3>1. i \in 1 .. n + 1 /\ i + 1 \in 1 .. n + 1
      BY <1>1, <2>1
    <3>2. cs[i] = commands[i] /\ sh[i] = shadows[i] /\ sh[i + 1] = shadows[i + 1]
      BY <1>4, <1>5, <2>1, <3>1
    <3> QED
      BY <1>1, <2>1, <3>2
  <2>2. CASE i = n + 1
    <3>1. cs[i] = c /\ sh[i] = last
      BY <1>4, <1>5, <1>6, <2>2
    <3>2. sh[i + 1] = after
      <4>1. i + 1 = n + 2
        BY <1>1, <2>2
      <4> QED
        BY <1>5, <4>1
    <3> QED
      BY <3>1, <3>2 DEF after, last
  <2> QED
    BY <1>1, <2>1, <2>2
<1>8. Len(sh) = Len(cs) + 1
  BY <1>1, <1>4, <1>5
<1>9. IsForeseen(cs, sh)
  BY <1>4, <1>7, <1>8 DEF IsForeseen
<1> QED
  BY <1>3, <1>9 DEF cs, sh, after, last

\* When a command is done, what is foreseen for the others stands.
LEMMA TailIsForeseen ==
  ASSUME NEW commands \in Seq(Command), NEW shadows \in Seq(InputValue),
         IsForeseen(commands, shadows), Len(commands) > 1
  PROVE  /\ Tail(commands) \in Seq(Command) /\ Tail(commands) # <<>>
         /\ Tail(shadows) \in Seq(InputValue) /\ Tail(shadows)[1] = shadows[2]
         /\ IsForeseen(Tail(commands), Tail(shadows))
<1> DEFINE n == Len(commands)
           cs == Tail(commands)
           sh == Tail(shadows)
<1>1. /\ n \in Nat /\ n > 1 /\ Len(shadows) = n + 1
      /\ \A i \in 1 .. n : /\ IsValid(commands[i], shadows[i])
                          /\ shadows[i + 1] = ShadowAfter(commands[i], shadows[i])
  BY DEF IsForeseen
<1>2. commands # <<>> /\ shadows # <<>>
  BY <1>1
<1>3. /\ cs \in Seq(Command) /\ Len(cs) = n - 1
      /\ \A i \in 1 .. n - 1 : cs[i] = commands[i + 1]
  BY <1>2, HeadTailProperties
<1>4. /\ sh \in Seq(InputValue) /\ Len(sh) = Len(shadows) - 1
      /\ \A i \in 1 .. Len(shadows) - 1 : sh[i] = shadows[i + 1]
  BY <1>2, HeadTailProperties
<1> HIDE DEF n, cs, sh
<1>5. Len(sh) = n /\ \A i \in 1 .. n : sh[i] = shadows[i + 1]
  BY <1>1, <1>4
<1>6. ASSUME NEW i \in 1 .. n - 1
      PROVE  IsValid(cs[i], sh[i]) /\ sh[i + 1] = ShadowAfter(cs[i], sh[i])
  <2>1. i \in 1 .. n /\ i + 1 \in 1 .. n
    BY <1>1
  <2>2. cs[i] = commands[i + 1] /\ sh[i] = shadows[i + 1]
        /\ sh[i + 1] = shadows[(i + 1) + 1]
    BY <1>3, <1>5, <2>1
  <2> QED
    BY <1>1, <2>1, <2>2
<1>7. DOMAIN cs = 1 .. n - 1 /\ Len(sh) = Len(cs) + 1
  BY <1>1, <1>3, <1>5
<1>8. IsForeseen(cs, sh)
  BY <1>6, <1>7 DEF IsForeseen
<1>9. sh[1] = shadows[2] /\ cs # <<>>
  <2>1. 1 \in 1 .. n /\ Len(cs) > 0
    BY <1>1, <1>3
  <2> QED
    BY <1>5, <2>1
<1> QED
  BY <1>3, <1>4, <1>8, <1>9 DEF cs, sh

-----------------------------------------------------------------------------
(* Movement.                                                               *)

\* The steps of a movement are whole numbers.
LEMMA MoveTypeKept ==
  ASSUME MoveTypeOK, [MoveNext]_moveVars
  PROVE  MoveTypeOK'
<1> USE DEF MoveTypeOK, MovePhase
<1>1. ASSUME NEW d \in Int PROVE Clamp(d) \in Int
  BY MovementAssumption DEF Clamp
<1>2. Clamp(remainingX) \in Int /\ Clamp(remainingY) \in Int
  BY <1>1
<1>3. CASE Step
  BY <1>2, <1>3 DEF Step, Advance, Report
<1>4. CASE Nudge
  BY <1>2, <1>4 DEF Nudge, Advance, Report
<1>5. CASE NudgeBack
  BY <1>5 DEF NudgeBack, Report
<1>6. CASE EndMove
  BY <1>6 DEF EndMove
<1>7. CASE AbandonMove
  BY <1>7 DEF AbandonMove
<1>8. CASE ForgetMove
  BY <1>8 DEF ForgetMove
<1>9. ASSUME NEW x \in Coordinate, NEW y \in Coordinate, BeginMove(x, y)
      PROVE  MoveTypeOK'
  BY <1>9, MovementAssumption DEF BeginMove
<1>10. CASE UNCHANGED moveVars
  BY <1>10 DEF moveVars
<1> QED
  BY <1>3, <1>4, <1>5, <1>6, <1>7, <1>8, <1>9, <1>10 DEF MoveNext

-----------------------------------------------------------------------------
(* Steps of the executor.                                                  *)

HostValue == [keyboard: SUBSET (Modifier \cup Key), mouse: SUBSET Button]

\* The parts of the invariant that most steps need.
LEMMA RunningFacts ==
  ASSUME ExecutionInv, Running
  PROVE  /\ collector = None
         /\ job \in Job /\ job.commands # <<>> /\ steps \in Seq(CommandStep)
         /\ Current = Head(job.commands) /\ Current \in Command
         /\ input \in InputValue /\ host \in HostValue
         /\ host.keyboard = View(input.keyboard) /\ host.mouse = input.mouse
         /\ steps # <<>> => FitTogether(steps, Current, input.keyboard)
         /\ job.batch => IsForeseen(job.commands, job.shadows)
BY CurrentIsHead DEF ExecutionInv, TypeOK, HostHoldsInput, IsReleasing, BatchIsForeseen,
                     StepsFit, HostValue

\* Only a movement that is first of the steps is under way.
LEMMA NotMoving ==
  ASSUME ExecutionInv, ~Running \/ steps = <<>> \/ Head(steps).do # "move"
  PROVE  ~IsMoving
BY DEF ExecutionInv, TypeOK, Move

\* A step of a job that goes on.
LEMMA JobGoesOn ==
  ASSUME ExecutionInv, Running, UNCHANGED <<job, collector, capsVars>>,
         input' \in InputValue, host' \in HostValue,
         host'.keyboard = View(input'.keyboard), host'.mouse = input'.mouse,
         steps' \in Seq(CommandStep), steps' # <<>>,
         FitTogether(steps', Current, input'.keyboard),
         job.batch => Outcome(steps', input') = job.shadows[2],
         turned' \in Int, done'.command \in Command \cup {None}, done'.held \in Held,
         MoveTypeOK', IsMoving' => Head(steps') = Move
  PROVE  ExecutionInv'
<1>1. /\ job' = job /\ collector' = collector /\ hostCaps' = hostCaps
      /\ capsLock' = capsLock /\ collector = None /\ Running' /\ Current' = Current
  BY RunningFacts DEF capsVars, Running, Current
<1>2. TypeOK'
  BY <1>1, RunningFacts DEF ExecutionInv, TypeOK, HostValue
<1>3. HostHoldsInput' /\ ReleaseIsWhole'
  BY <1>1 DEF HostHoldsInput, ReleaseIsWhole, IsReleasing
<1>4. BatchIsForeseen'
  BY <1>1, RunningFacts DEF BatchIsForeseen
<1>5. StepsFit' /\ StepsLeadOn'
  BY <1>1 DEF StepsFit, StepsLeadOn
<1> QED
  BY <1>2, <1>3, <1>4, <1>5 DEF ExecutionInv

\* The first step is done, and the rest goes on.
LEMMA StepIsDone ==
  ASSUME ExecutionInv, Running, steps # <<>>, Head(steps).do # "strokes",
         Len(steps) > 1, steps' = Tail(steps), input' = Effect(Head(steps), input),
         UNCHANGED <<job, collector, done, capsVars>>,
         host' \in HostValue,
         host'.keyboard = View(input'.keyboard), host'.mouse = input'.mouse,
         turned' \in Int, MoveTypeOK', ~IsMoving'
  PROVE  ExecutionInv'
<1>1. /\ steps \in Seq(CommandStep) /\ input \in InputValue
      /\ FitTogether(steps, Current, input.keyboard)
  BY RunningFacts
<1>2. /\ FitTogether(steps', Current, input'.keyboard)
      /\ Outcome(steps', input') = Outcome(steps, input)
  BY <1>1, TailFits
<1>3. Head(steps) \in CommandStep /\ steps' \in Seq(CommandStep) /\ steps' # <<>>
  <2>1. /\ Head(steps) \in CommandStep /\ Tail(steps) \in Seq(CommandStep)
        /\ Len(Tail(steps)) = Len(steps) - 1
    BY <1>1, HeadTailProperties
  <2>2. Len(steps') > 0
    <3> DEFINE n == Len(steps)
    <3>1. n \in Nat /\ n > 1 /\ Len(steps') = n - 1
      BY <1>1, <2>1
    <3> HIDE DEF n
    <3> QED
      BY <3>1
  <2>3. steps' # <<>>
    <3> DEFINE t == steps'
    <3>1. Len(t) > 0
      BY <2>2
    <3> HIDE DEF t
    <3>2. t # <<>>
      BY <3>1
    <3> QED
      BY <3>2 DEF t
  <2> QED
    BY <2>1, <2>3
<1>4. input' \in InputValue
  <2>1. CASE Head(steps).do = "keyboard"
    BY <1>1, <1>3, <2>1 DEF Effect, InputValue, CommandStep
  <2>2. CASE Head(steps).do = "mouse"
    BY <1>1, <1>3, <2>2 DEF Effect, InputValue, CommandStep
  <2> QED
    BY <1>1, <2>1, <2>2 DEF Effect
<1>5. job.batch => Outcome(steps, input) = job.shadows[2]
  BY DEF ExecutionInv, StepsLeadOn
<1>6. done'.command \in Command \cup {None} /\ done'.held \in Held
  BY DEF ExecutionInv, TypeOK
<1> QED
  BY <1>2, <1>3, <1>4, <1>5, <1>6, JobGoesOn

\* A release starts.
LEMMA ReleaseStarts ==
  ASSUME ExecutionInv, StartRelease, collector' = None,
         host' \in HostValue, UNCHANGED <<done, turned, capsVars>>, MoveTypeOK', ~IsMoving'
  PROVE  ExecutionInv'
<1>1. job' = None /\ input' = NoInput /\ steps' = Release
  BY DEF StartRelease
<1>2. NoInput \in InputValue
  BY IdleIsKeyboard DEF NoInput, InputValue
<1>3. TypeOK'
  BY <1>1, <1>2 DEF ExecutionInv, TypeOK, HostValue, capsVars, Running
<1>4. IsReleasing'
  BY <1>1 DEF IsReleasing, Running, Release
<1>5. HostHoldsInput' /\ ReleaseIsWhole'
  BY <1>1, <1>4 DEF HostHoldsInput, ReleaseIsWhole
<1>6. BatchIsForeseen' /\ StepsFit' /\ StepsLeadOn'
  BY <1>1 DEF BatchIsForeseen, StepsFit, StepsLeadOn, Running
<1> QED
  BY <1>3, <1>5, <1>6 DEF ExecutionInv

\* No job, no steps: what remains of the invariant.
LEMMA AtRest ==
  ASSUME ExecutionInv, job' = None, steps' = <<>>, collector' = None,
         input' \in InputValue, host' \in HostValue,
         host'.keyboard = View(input'.keyboard), host'.mouse = input'.mouse,
         turned' \in Int, done'.command \in Command \cup {None}, done'.held \in Held,
         hostCaps' \in BOOLEAN, capsLock' \in BOOLEAN, MoveTypeOK', ~IsMoving'
  PROVE  ExecutionInv'
<1>1. ~Running'
  BY DEF Running
<1>2. {hostCaps', capsLock'} \subseteq BOOLEAN
  OBVIOUS
<1>3. TypeOK'
  BY <1>1, <1>2 DEF TypeOK, HostValue
<1>4. HostHoldsInput' /\ ReleaseIsWhole' /\ BatchIsForeseen'
  BY <1>1 DEF HostHoldsInput, ReleaseIsWhole, IsReleasing, BatchIsForeseen
<1>5. StepsFit' /\ StepsLeadOn'
  BY <1>1 DEF StepsFit, StepsLeadOn
<1> QED
  BY <1>3, <1>4, <1>5 DEF ExecutionInv

-----------------------------------------------------------------------------
(* The actions.                                                            *)

\* An accepted request.
LEMMA RequestKeeps ==
  ASSUME ExecutionInv, NEW f \in Frame,
         ExecuteSingle(f) \/ BatchBegin(f) \/ Push(f) \/ BatchEnd(f)
  PROVE  ExecutionInv'
<1>1. /\ UNCHANGED <<input, host, steps, log, turned, capsVars, moveVars>>
      /\ ~Running /\ steps = <<>>
  BY DEF ExecuteSingle, BatchBegin, Push, BatchEnd, TakeUp, ExecutionInv, BatchIsForeseen
<1>2. /\ input' \in InputValue /\ host' \in HostValue
      /\ host'.keyboard = View(input'.keyboard) /\ host'.mouse = input'.mouse
      /\ turned' \in Int /\ {hostCaps', capsLock'} \subseteq BOOLEAN
      /\ MoveTypeOK' /\ ~IsMoving'
  BY <1>1 DEF ExecutionInv, TypeOK, HostHoldsInput, IsReleasing, HostValue, capsVars,
              moveVars, MoveTypeOK, IsMoving
<1>3. done'.command \in Command \cup {None} /\ done'.held \in Held
  BY DEF ExecuteSingle, BatchBegin, Push, BatchEnd, TakeUp, Nothing, ExecutionInv, TypeOK
<1>4. HostHoldsInput' /\ ReleaseIsWhole' /\ StepsFit'
  BY <1>1, <1>2 DEF HostHoldsInput, ReleaseIsWhole, IsReleasing, StepsFit
<1>c. IsAccepted(f, "Mutating") => Decode(f) \in Command
  BY DEF Command
<1>5. CASE ExecuteSingle(f)
  <2> DEFINE c == Decode(f)
  <2>1. c \in Command /\ collector = None /\ collector' = None
        /\ job' = [commands |-> <<c>>, batch |-> FALSE, shadows |-> <<>>]
    BY <1>5, <1>c DEF ExecuteSingle, TakeUp
  <2> HIDE DEF c
  <2>2. job' \in Job /\ job'.commands # <<>> /\ ~job'.batch
    BY <2>1 DEF Job
  <2>3. TypeOK'
    BY <1>1, <1>2, <1>3, <2>1, <2>2 DEF TypeOK, HostValue
  <2>4. BatchIsForeseen' /\ StepsLeadOn'
    BY <2>1, <2>2 DEF BatchIsForeseen, StepsLeadOn
  <2> QED
    BY <1>4, <2>3, <2>4 DEF ExecutionInv
<1>6. CASE BatchBegin(f)
  <2>1. /\ job' = job
        /\ collector' = [commands |-> <<>>, payload |-> 0, shadows |-> <<input>>]
    BY <1>6 DEF BatchBegin
  <2>2. ~Running'
    BY <1>1, <2>1 DEF Running
  <2>3. /\ collector'.commands \in Seq(Command) /\ Len(collector'.commands) = 0
        /\ collector'.payload = 0
        /\ collector'.shadows \in Seq(InputValue) /\ collector'.shadows = <<input>>
    BY <2>1, <1>1, <1>2
  <2>4. BatchLimit \in Nat /\ BatchPayload \in Nat
    BY ExecutionAssumption
  <2>5. Len(collector'.commands) <= BatchLimit /\ collector'.payload \in 0 .. BatchPayload
    BY <2>3, <2>4
  <2>6. TypeOK'
    BY <1>1, <1>2, <1>3, <2>2, <2>3, <2>5 DEF TypeOK, HostValue
  <2>7. IsForeseen(collector'.commands, collector'.shadows)
    BY <2>1 DEF IsForeseen
  <2>8. BatchIsForeseen' /\ StepsLeadOn'
    BY <1>1, <2>2, <2>3, <2>7 DEF BatchIsForeseen, StepsLeadOn
  <2> QED
    BY <1>4, <2>6, <2>8 DEF ExecutionInv
<1>7. CASE Push(f)
  <2> DEFINE c == Decode(f)
             commands == collector.commands
             shadows == collector.shadows
             after == ShadowAfter(c, shadows[Len(shadows)])
  <2>1. /\ c \in Command /\ collector # None /\ IsValid(c, shadows[Len(shadows)])
        /\ Fits(c) /\ job' = job
        /\ collector' = [commands |-> Append(commands, c),
                         payload |-> collector.payload + PayloadLength(c),
                         shadows |-> Append(shadows, after)]
    BY <1>7, <1>c DEF Push, Shadow
  <2>2. /\ commands \in Seq(Command) /\ shadows \in Seq(InputValue)
        /\ IsForeseen(commands, shadows) /\ shadows # <<>> /\ shadows[1] = input
        /\ collector.payload \in Nat
    BY <2>1 DEF ExecutionInv, TypeOK, BatchIsForeseen
  <2>3. PayloadLength(c) \in Nat
    <3>1. c.type = "TypeAscii" => Len(c.text) \in Nat
      BY <2>1, CommandShape DEF Text
    <3> QED
      BY <3>1 DEF PayloadLength
  <2>4. /\ Len(commands) < BatchLimit
        /\ collector.payload + PayloadLength(c) <= BatchPayload
    BY <2>1 DEF Fits
  <2> HIDE DEF c, commands, shadows
  <2>5. after \in InputValue /\ IsForeseen(Append(commands, c), Append(shadows, after))
    BY <2>1, <2>2, PushIsForeseen
  <2> HIDE DEF after
  <2>6. /\ Append(commands, c) \in Seq(Command) /\ Len(Append(commands, c)) <= BatchLimit
        /\ Append(shadows, after) \in Seq(InputValue) /\ Append(shadows, after) # <<>>
        /\ Append(shadows, after)[1] = input
    <3>1. BatchLimit \in Nat
      BY ExecutionAssumption
    <3>2. Append(commands, c) \in Seq(Command) /\ Len(Append(commands, c)) <= BatchLimit
      BY <2>1, <2>2, <2>4, <3>1
    <3>3. Append(shadows, after) \in Seq(InputValue) /\ Append(shadows, after) # <<>>
          /\ Append(shadows, after)[1] = input
      BY <2>2, <2>5
    <3> QED
      BY <3>2, <3>3
  <2>7. collector.payload + PayloadLength(c) \in 0 .. BatchPayload
    <3>1. BatchPayload \in Nat
      BY ExecutionAssumption
    <3> QED
      BY <2>2, <2>3, <2>4, <3>1
  <2>8. ~Running'
    BY <1>1, <2>1 DEF Running
  <2>9. TypeOK'
    BY <1>1, <1>2, <1>3, <2>1, <2>6, <2>7, <2>8 DEF TypeOK, HostValue
  <2>10. BatchIsForeseen' /\ StepsLeadOn'
    BY <1>1, <2>1, <2>5, <2>6, <2>8 DEF BatchIsForeseen, StepsLeadOn
  <2> QED
    BY <1>4, <2>9, <2>10 DEF ExecutionInv
<1>8. CASE BatchEnd(f)
  <2>1. collector # None /\ collector' = None
    BY <1>8 DEF BatchEnd
  <2>2. CASE collector.commands = <<>>
    <3>1. job' = None
      BY <1>1, <1>8, <2>2 DEF BatchEnd, Running
    <3> QED
      BY <1>1, <1>2, <1>3, <2>1, <3>1, AtRest
  <2>3. CASE collector.commands # <<>>
    <3>1. job' = [commands |-> collector.commands, batch |-> TRUE,
                  shadows |-> collector.shadows]
      BY <1>8, <2>3 DEF BatchEnd
    <3>2. /\ collector.commands \in Seq(Command) /\ collector.shadows \in Seq(InputValue)
          /\ IsForeseen(collector.commands, collector.shadows)
          /\ collector.shadows[1] = input
      BY <2>1 DEF ExecutionInv, TypeOK, BatchIsForeseen
    <3>3. job' \in Job /\ job'.commands # <<>>
      BY <2>3, <3>1, <3>2 DEF Job
    <3>4. TypeOK'
      BY <1>1, <1>2, <1>3, <2>1, <3>3 DEF TypeOK, HostValue
    <3>5. BatchIsForeseen' /\ StepsLeadOn'
      BY <1>1, <2>1, <3>1, <3>2 DEF BatchIsForeseen, StepsLeadOn
    <3> QED
      BY <1>4, <3>4, <3>5 DEF ExecutionInv
  <2> QED
    BY <2>2, <2>3
<1> QED
  BY <1>5, <1>6, <1>7, <1>8

\* A command begins, with the steps it needs.
LEMMA BeginKeeps ==
  ASSUME ExecutionInv, Begin
  PROVE  ExecutionInv'
<1>1. /\ Running /\ steps = <<>> /\ ~Refuses(Current, input)
      /\ UNCHANGED <<input, host, job, collector, capsVars, moveVars>>
      /\ turned' = 0 /\ done' = Nothing(done.held)
      /\ steps' = <<Check>> \o Body(Current, input) \o <<Check>>
  BY DEF Begin, AtCommand
<1>2. /\ Current \in Command /\ input \in InputValue /\ capsLock \in BOOLEAN
      /\ Current = Head(job.commands)
  BY <1>1, RunningFacts DEF ExecutionInv, TypeOK
<1>3. /\ steps' \in Seq(CommandStep) /\ steps' # <<>>
      /\ FitTogether(steps', Current, input.keyboard)
      /\ Outcome(steps', input) = ShadowAfter(Current, input)
  BY <1>1, <1>2, BodyFits
<1>4. job.batch => ShadowAfter(Current, input) = job.shadows[2]
  <2> SUFFICES ASSUME job.batch PROVE ShadowAfter(Current, input) = job.shadows[2]
    OBVIOUS
  <2>1. /\ IsForeseen(job.commands, job.shadows) /\ input = job.shadows[1]
        /\ job.commands \in Seq(Command) /\ job.commands # <<>>
    BY <1>1, RunningFacts DEF ExecutionInv, StepsLeadOn, Job
  <2>2. 1 \in DOMAIN job.commands /\ Head(job.commands) = job.commands[1]
    BY <2>1
  <2>3. job.shadows[1 + 1] = ShadowAfter(job.commands[1], job.shadows[1])
    BY <2>1, <2>2 DEF IsForeseen
  <2>4. job.shadows[2] = ShadowAfter(job.commands[1], job.shadows[1])
    BY <2>3
  <2> QED
    BY <1>2, <2>1, <2>2, <2>4
<1>5. done'.command \in Command \cup {None} /\ done'.held \in Held
  BY <1>1 DEF Nothing, ExecutionInv, TypeOK
<1>6. /\ host' \in HostValue /\ input' = input /\ host' = host
      /\ host.keyboard = View(input.keyboard) /\ host.mouse = input.mouse
  BY <1>1, RunningFacts
<1>7. MoveTypeOK' /\ ~IsMoving'
  BY <1>1, NotMoving DEF ExecutionInv, TypeOK, MoveTypeOK, moveVars, IsMoving
<1> QED
  BY <1>1, <1>2, <1>3, <1>4, <1>5, <1>6, <1>7, JobGoesOn

\* Another stroke of a text.
LEMMA NextStrokeKeeps ==
  ASSUME ExecutionInv, NextStroke
  PROVE  ExecutionInv'
<1> DEFINE text == Current.text
           i == Head(steps).place
           caps == Head(steps).caps
           rest == Strokes(i + Width(text, i), caps)
<1>1. /\ Running /\ steps # <<>> /\ Head(steps).do = "strokes"
      /\ UNCHANGED <<input, host, job, collector, turned, done, capsVars, moveVars>>
      /\ steps' = IF i > Len(text) THEN Tail(steps)
                  ELSE KeyboardPulse(TapPlan(input.keyboard, Keystroke(text[i], caps)))
                         \o <<rest>> \o Tail(steps)
  BY DEF NextStroke, IsAt
<1>2. /\ steps \in Seq(CommandStep) /\ input \in InputValue /\ Current \in Command
      /\ FitTogether(steps, Current, input.keyboard)
  BY <1>1, RunningFacts
<1>3. /\ Tail(steps) = <<Check>> /\ Current.type = "TypeAscii" /\ IsTyped(text)
      /\ IsIdle(input.keyboard) /\ Len(steps) = 2
  BY <1>1, <1>2, LoopFits
<1>4. Outcome(steps, input) = input
  <2>1. steps[1].do = "strokes" /\ steps[Len(steps) - 1] = steps[1]
    BY <1>1, <1>2, <1>3
  <2>2. Outcome(steps, input) = [input EXCEPT !.keyboard = Idle]
    BY <1>3, <2>1 DEF Outcome, Effect
  <2> QED
    BY <1>2, <1>3, <2>2 DEF IsIdle, InputValue
<1>5. /\ steps' \in Seq(CommandStep) /\ steps' # <<>>
      /\ FitTogether(steps', Current, input.keyboard) /\ Outcome(steps', input) = input
  <2>1. CASE i > Len(text)
    <3>1. steps' = <<Check>>
      BY <1>1, <1>3, <2>1
    <3>2. <<Check>> \in Seq(CommandStep) /\ <<Check>> # <<>> /\ Len(<<Check>>) = 1
          /\ <<Check>>[1] = Check
      BY DEF CommandStep, Check
    <3> QED
      BY <3>1, <3>2 DEF FitTogether, Outcome
  <2>2. CASE ~(i > Len(text))
    <3>1. Head(steps) \in CommandStep /\ Head(steps).do = "strokes"
      <4>1. steps \in Seq(CommandStep) /\ steps # <<>>
        BY <1>1, <1>2
      <4>2. Head(steps) \in CommandStep
        BY <4>1
      <4> QED
        BY <1>1, <4>2
    <3>2. i \in Nat \ {0} /\ caps \in BOOLEAN
      BY <3>1 DEF CommandStep
    <3>3. text \in Seq(Char)
      BY <1>2, <1>3, CommandShape DEF Text
    <3>4. i \in DOMAIN text
      BY <2>2, <3>2, <3>3
    <3>5. text[i] \in Supported
      BY <1>3, <3>4 DEF IsTyped
    <3>6. rest \in CommandStep /\ rest.do = "strokes"
      <4>1. i + Width(text, i) \in Nat \ {0}
        BY <3>2 DEF Width
      <4> QED
        BY <3>2, <4>1 DEF Strokes, CommandStep
    <3>7. steps' = KeyboardPulse(TapPlan(Idle, Keystroke(text[i], caps))) \o <<rest>> \o <<Check>>
      BY <1>1, <1>3, <2>2 DEF IsIdle
    <3> HIDE DEF text, i, caps, rest
    <3> QED
      BY <1>2, <1>3, <3>5, <3>6, <3>7, StrokeFits DEF text
  <2> QED
    BY <2>1, <2>2
<1>6. job.batch => Outcome(steps', input) = job.shadows[2]
  BY <1>1, <1>4, <1>5 DEF ExecutionInv, StepsLeadOn
<1>7. MoveTypeOK' /\ ~IsMoving'
  BY <1>1, NotMoving DEF ExecutionInv, TypeOK, MoveTypeOK, moveVars, IsMoving
<1>8. /\ done'.command \in Command \cup {None} /\ done'.held \in Held /\ turned' \in Int
      /\ host' \in HostValue /\ input' = input /\ host' = host
      /\ host.keyboard = View(input.keyboard) /\ host.mouse = input.mouse
  BY <1>1, RunningFacts DEF ExecutionInv, TypeOK
<1> QED
  BY <1>1, <1>2, <1>5, <1>6, <1>7, <1>8, JobGoesOn

\* A report goes out, or a check or a delay is over.
LEMMA WriteKeeps ==
  ASSUME ExecutionInv, WriteKeyboard \/ WriteMouse \/ WriteWheel \/ GoOn
  PROVE  ExecutionInv'
<1>1. /\ Running /\ steps # <<>> /\ steps' = Tail(steps)
      /\ Head(steps).do \in {"keyboard", "mouse", "wheel", "check", "delay"}
      /\ UNCHANGED <<job, collector, done, capsVars, moveVars>>
  BY DEF WriteKeyboard, WriteMouse, WriteWheel, GoOn, IsAt
<1>2. /\ steps \in Seq(CommandStep) /\ input \in InputValue /\ host \in HostValue
      /\ FitTogether(steps, Current, input.keyboard)
      /\ host.keyboard = View(input.keyboard) /\ host.mouse = input.mouse
  BY <1>1, RunningFacts
<1>3. Head(steps) \in CommandStep
  BY <1>1, <1>2
<1>4. MoveTypeOK' /\ ~IsMoving'
  BY <1>1, NotMoving DEF ExecutionInv, TypeOK, MoveTypeOK, moveVars, IsMoving
<1>5. turned \in Int
  BY DEF ExecutionInv, TypeOK
<1>6. Head(steps).do # "check" => Len(steps) > 1
  BY <1>1, <1>2, LoopFits DEF Check
<1>7. CASE WriteKeyboard
  <2> DEFINE next == Head(steps).state
  <2>1. /\ Head(steps).do = "keyboard" /\ turned' = turned
        /\ host' = [host EXCEPT !.keyboard = View(next)]
        /\ input' = [input EXCEPT !.keyboard = next]
    BY <1>7 DEF WriteKeyboard, IsAt
  <2>2. next \in KeyboardState
    BY <1>3, <2>1 DEF CommandStep
  <2>3. View(next) \in SUBSET (Modifier \cup Key)
    BY <2>2, KeyboardShape
  <2>4. input' = Effect(Head(steps), input)
    BY <2>1 DEF Effect
  <2> HIDE DEF next
  <2>5. /\ host' \in HostValue /\ host'.keyboard = View(input'.keyboard)
        /\ host'.mouse = input'.mouse
    BY <1>2, <2>1, <2>3 DEF HostValue, InputValue
  <2> QED
    BY <1>1, <1>4, <1>5, <1>6, <2>1, <2>4, <2>5, StepIsDone
<1>8. CASE WriteMouse
  <2> DEFINE next == Head(steps).state
  <2>1. /\ Head(steps).do = "mouse" /\ turned' = turned
        /\ host' = [host EXCEPT !.mouse = next]
        /\ input' = [input EXCEPT !.mouse = next]
    BY <1>8 DEF WriteMouse, IsAt
  <2>2. next \in SUBSET Button
    BY <1>3, <2>1 DEF CommandStep
  <2>3. input' = Effect(Head(steps), input)
    BY <2>1 DEF Effect
  <2> HIDE DEF next
  <2>4. /\ host' \in HostValue /\ host'.keyboard = View(input'.keyboard)
        /\ host'.mouse = input'.mouse
    BY <1>2, <2>1, <2>2 DEF HostValue, InputValue
  <2> QED
    BY <1>1, <1>4, <1>5, <1>6, <2>1, <2>3, <2>4, StepIsDone
<1>9. CASE WriteWheel
  <2>1. /\ Head(steps).do = "wheel" /\ turned' = turned + Head(steps).by
        /\ host' = [host EXCEPT !.mouse = input.mouse] /\ input' = input
    BY <1>9 DEF WriteWheel, IsAt
  <2>2. Head(steps).by \in Int
    BY <1>3, <2>1 DEF CommandStep, SignedInt
  <2>3. turned' \in Int
    BY <1>5, <2>1, <2>2
  <2>4. input' = Effect(Head(steps), input)
    BY <2>1 DEF Effect
  <2>5. /\ host' \in HostValue /\ host'.keyboard = View(input'.keyboard)
        /\ host'.mouse = input'.mouse
    BY <1>2, <2>1 DEF HostValue, InputValue
  <2> QED
    BY <1>1, <1>4, <1>6, <2>1, <2>3, <2>4, <2>5, StepIsDone
<1>10. CASE GoOn
  <2>1. /\ Head(steps).do \in {"check", "delay"} /\ Len(steps) > 1
        /\ UNCHANGED <<input, host, turned>>
    BY <1>10 DEF GoOn, IsAt
  <2>2. input' = Effect(Head(steps), input)
    BY <2>1 DEF Effect
  <2> QED
    BY <1>1, <1>2, <1>4, <1>5, <2>1, <2>2, StepIsDone
<1> QED
  BY <1>7, <1>8, <1>9, <1>10

\* A movement goes on or is over.
LEMMA MovePointerKeeps ==
  ASSUME ExecutionInv, MovePointer \/ MoveDone
  PROVE  ExecutionInv'
<1>1. /\ Running /\ steps # <<>> /\ Head(steps).do = "move"
      /\ UNCHANGED <<input, host, job, collector, turned, done, capsVars>>
  BY DEF MovePointer, MoveDone, IsAt
<1>2. /\ steps \in Seq(CommandStep) /\ input \in InputValue /\ host \in HostValue
      /\ Current \in Command /\ FitTogether(steps, Current, input.keyboard)
      /\ host.keyboard = View(input.keyboard) /\ host.mouse = input.mouse
  BY <1>1, RunningFacts
<1>3. Head(steps) \in CommandStep /\ Head(steps) = Move /\ Len(steps) > 1
      /\ Current.type = "MouseMoveRel"
  <2>1. Head(steps) \in CommandStep
    BY <1>1, <1>2
  <2>2. Head(steps) = Move
    BY <1>1, <2>1 DEF CommandStep, Move
  <2> QED
    BY <1>1, <1>2, <2>1, <2>2, LoopFits DEF Check
<1>4. Current.dx \in Coordinate /\ Current.dy \in Coordinate
  BY <1>2, <1>3, FrameAssumption
<1>5. MoveTypeOK'
  <2>1. MoveNext
    BY <1>4 DEF MovePointer, MoveDone, MoveNext
  <2> QED
    BY <2>1, MoveTypeKept DEF ExecutionInv, TypeOK
<1>6. /\ done'.command \in Command \cup {None} /\ done'.held \in Held /\ turned' \in Int
      /\ job.batch => Outcome(steps, input) = job.shadows[2]
  BY <1>1 DEF ExecutionInv, TypeOK, StepsLeadOn
<1>7. CASE MovePointer
  <2>1. steps' = steps
    BY <1>7 DEF MovePointer
  <2> QED
    BY <1>1, <1>2, <1>3, <1>5, <1>6, <2>1, JobGoesOn
<1>8. CASE MoveDone
  <2>1. steps' = Tail(steps) /\ ~IsMoving'
    BY <1>8 DEF MoveDone, EndMove, IsMoving
  <2>2. input' = Effect(Head(steps), input)
    BY <1>1 DEF Effect
  <2> QED
    BY <1>1, <1>2, <1>3, <1>5, <1>6, <2>1, <2>2, StepIsDone
<1> QED
  BY <1>7, <1>8

\* A failure, a cancellation or an emergency starts a release; a single command that is
\* refused ends.
LEMMA FailureKeeps ==
  ASSUME ExecutionInv, Refuse \/ WriteFails \/ Cancel \/ Emergency
  PROVE  ExecutionInv'
<1>1. Running => collector = None
  BY RunningFacts
<1>2. host \in HostValue /\ MoveTypeOK
  BY DEF ExecutionInv, TypeOK, HostValue
<1>3. CASE Refuse
  <2>1. /\ Running /\ steps = <<>>
        /\ UNCHANGED <<host, collector, log, turned, done, capsVars, moveVars>>
    BY <1>3 DEF Refuse, AtCommand
  <2>2. MoveTypeOK' /\ ~IsMoving'
    BY <2>1, NotMoving DEF ExecutionInv, TypeOK, MoveTypeOK, moveVars, IsMoving
  <2>3. CASE job.batch
    <3>1. StartRelease
      BY <1>3, <2>3 DEF Refuse
    <3> QED
      BY <1>1, <1>2, <2>1, <2>2, <3>1, ReleaseStarts
  <2>4. CASE ~job.batch
    <3>1. job' = None /\ input' = input /\ steps' = steps
      BY <1>3, <2>4 DEF Refuse
    <3>2. /\ input \in InputValue /\ host.keyboard = View(input.keyboard)
          /\ host.mouse = input.mouse
      BY <2>1, RunningFacts
    <3>3. /\ turned' \in Int /\ done'.command \in Command \cup {None} /\ done'.held \in Held
          /\ hostCaps' \in BOOLEAN /\ capsLock' \in BOOLEAN
      BY <2>1 DEF ExecutionInv, TypeOK, capsVars
    <3> QED
      BY <1>1, <1>2, <2>1, <2>2, <3>1, <3>2, <3>3, AtRest
  <2> QED
    BY <2>3, <2>4
<1>4. CASE WriteFails
  <2>1. /\ Running /\ StartRelease /\ UNCHANGED <<collector, log, turned, done, capsVars>>
    BY <1>4 DEF WriteFails, IsAt, AbandonMove, ExecutionInv, TypeOK
  <2>2. host' \in HostValue
    BY <1>2, <1>4 DEF WriteFails, HostValue
  <2>3. MoveTypeOK' /\ ~IsMoving'
    <3>1. CASE AbandonMove
      <4>1. MoveTypeOK'
        BY <1>2, <3>1, MoveTypeKept DEF MoveNext
      <4> QED
        BY <3>1, <4>1 DEF AbandonMove, IsMoving
    <3>2. CASE /\ Head(steps).do \in {"keyboard", "mouse", "wheel"}
               /\ UNCHANGED moveVars
      BY <1>2, <3>2, NotMoving DEF MoveTypeOK, moveVars, IsMoving
    <3> QED
      BY <1>4, <3>1, <3>2 DEF WriteFails, IsAt
  <2> QED
    BY <1>1, <2>1, <2>2, <2>3, ReleaseStarts
<1>5. CASE Cancel
  <2>1. /\ Running /\ StartRelease
        /\ UNCHANGED <<host, collector, log, turned, done, capsVars>>
    BY <1>5 DEF Cancel, AtCommand, IsAt, ExecutionInv, TypeOK, IsMoving
  <2>2. MoveTypeOK' /\ ~IsMoving'
    <3>1. CASE AbandonMove
      <4>1. MoveTypeOK'
        BY <1>2, <3>1, MoveTypeKept DEF MoveNext
      <4> QED
        BY <3>1, <4>1 DEF AbandonMove, IsMoving
    <3>2. CASE /\ steps = <<>> \/ Head(steps).do \in {"check", "delay", "strokes"}
               /\ UNCHANGED moveVars
      BY <1>2, <3>2, NotMoving DEF MoveTypeOK, moveVars, IsMoving
    <3> QED
      BY <1>5, <3>1, <3>2 DEF Cancel, AtCommand, IsAt
  <2> QED
    BY <1>1, <1>2, <2>1, <2>2, ReleaseStarts
<1>6. CASE Emergency
  <2>1. /\ ~Running /\ StartRelease /\ collector' = None
        /\ UNCHANGED <<host, log, turned, done, capsVars, moveVars>>
    BY <1>6 DEF Emergency
  <2>2. MoveTypeOK' /\ ~IsMoving'
    BY <1>2, <2>1, NotMoving DEF MoveTypeOK, moveVars, IsMoving
  <2> QED
    BY <1>2, <2>1, <2>2, ReleaseStarts
<1> QED
  BY <1>3, <1>4, <1>5, <1>6

\* A command is complete, and perhaps the job.
LEMMA CompleteKeeps ==
  ASSUME ExecutionInv, Complete
  PROVE  ExecutionInv'
<1>1. /\ Running /\ steps = <<Check>> /\ steps' = <<>> /\ turned' = 0 /\ ForgetMove
      /\ UNCHANGED <<input, host, collector, capsVars>>
      /\ done'.command = Head(job.commands) /\ done'.held = host.keyboard \cup host.mouse
      /\ job' = IF Len(job.commands) = 1 THEN None
                ELSE [job EXCEPT !.commands = Tail(@),
                                 !.shadows = IF job.batch THEN Tail(@) ELSE @]
  BY DEF Complete
<1>2. /\ collector = None /\ job \in Job /\ job.commands # <<>>
      /\ input \in InputValue /\ host \in HostValue
      /\ host.keyboard = View(input.keyboard) /\ host.mouse = input.mouse
      /\ Head(job.commands) \in Command
      /\ job.batch => IsForeseen(job.commands, job.shadows)
  BY <1>1, RunningFacts
<1>3. /\ done'.command \in Command \cup {None} /\ done'.held \in Held
      /\ hostCaps' \in BOOLEAN /\ capsLock' \in BOOLEAN /\ turned' \in Int
  BY <1>1, <1>2 DEF ExecutionInv, TypeOK, HostValue, Held, capsVars
<1>4. MoveTypeOK' /\ ~IsMoving'
  <2>1. MoveTypeOK'
    BY <1>1, MoveTypeKept DEF ExecutionInv, TypeOK, MoveNext
  <2> QED
    BY <1>1, <2>1 DEF ForgetMove, IsMoving
<1>5. CASE Len(job.commands) = 1
  BY <1>1, <1>2, <1>3, <1>4, <1>5, AtRest
<1>6. CASE Len(job.commands) # 1
  <2> DEFINE commands == job.commands
             shadows == job.shadows
  <2>1. commands \in Seq(Command) /\ shadows \in Seq(InputValue) /\ Len(commands) > 1
    <3>1. commands \in Seq(Command) /\ shadows \in Seq(InputValue) /\ commands # <<>>
      BY <1>2 DEF Job
    <3> HIDE DEF commands
    <3>2. Len(commands) \in Nat /\ Len(commands) # 0 /\ Len(commands) # 1
      BY <1>6, <3>1 DEF commands
    <3>3. Len(commands) > 1
      <4> DEFINE n == Len(commands)
      <4>1. n \in Nat /\ n # 0 /\ n # 1
        BY <3>2
      <4> HIDE DEF n
      <4>2. n > 1
        BY <4>1
      <4> QED
        BY <4>2 DEF n
    <3> QED
      BY <3>1, <3>3
  <2>2. Tail(commands) \in Seq(Command) /\ Tail(commands) # <<>>
    <3> HIDE DEF commands
    <3>1. commands # <<>>
      BY <2>1
    <3>2. Tail(commands) \in Seq(Command) /\ Len(Tail(commands)) = Len(commands) - 1
      BY <2>1, <3>1, HeadTailProperties
    <3> DEFINE t == Tail(commands)
    <3>3. Len(t) > 0
      BY <2>1, <3>2
    <3> HIDE DEF t
    <3>4. t # <<>>
      BY <3>3
    <3> QED
      BY <3>2, <3>4 DEF t
  <2>3. /\ job'.commands = Tail(commands) /\ job'.batch = job.batch
        /\ job'.shadows = IF job.batch THEN Tail(shadows) ELSE shadows
        /\ job' = [commands |-> job'.commands, batch |-> job'.batch, shadows |-> job'.shadows]
    BY <1>1, <1>2, <1>6 DEF Job
  <2>4. job.batch => /\ Tail(shadows) \in Seq(InputValue) /\ Tail(shadows)[1] = shadows[2]
                     /\ IsForeseen(Tail(commands), Tail(shadows))
    BY <1>2, <2>1, TailIsForeseen
  <2>5. job.batch => input = shadows[2]
    <3>1. Outcome(steps, input) = input
      BY <1>1 DEF Outcome
    <3>2. steps # <<>>
      BY <1>1
    <3> QED
      BY <1>1, <3>1, <3>2 DEF ExecutionInv, StepsLeadOn
  <2> HIDE DEF commands, shadows
  <2>6. job' \in Job /\ job'.commands # <<>>
    <3>1. job'.shadows \in Seq(InputValue) /\ job'.batch \in BOOLEAN
      BY <1>2, <2>1, <2>3, <2>4 DEF Job
    <3> QED
      BY <2>2, <2>3, <3>1 DEF Job
  <2>7. <<>> \in Seq(CommandStep)
    OBVIOUS
  <2>8. TypeOK'
    BY <1>1, <1>2, <1>3, <1>4, <2>6, <2>7 DEF TypeOK, HostValue
  <2>9. HostHoldsInput' /\ ReleaseIsWhole' /\ StepsFit'
    BY <1>1, <1>2 DEF HostHoldsInput, ReleaseIsWhole, IsReleasing, StepsFit
  <2>10. BatchIsForeseen' /\ StepsLeadOn'
    BY <1>1, <1>2, <2>3, <2>4, <2>5 DEF BatchIsForeseen, StepsLeadOn
  <2> QED
    BY <2>8, <2>9, <2>10 DEF ExecutionInv
<1> QED
  BY <1>5, <1>6

\* What is left of a release after its first report.
LEMMA ReleaseSteps ==
  /\ Tail(Release) = <<[do |-> "releaseMouse"]>> /\ Tail(Release) # <<>>
  /\ Head(Release).do = "releaseKeyboard" /\ Head(Tail(Release)).do = "releaseMouse"
<1> DEFINE S == {[do |-> "releaseKeyboard"], [do |-> "releaseMouse"]}
<1>1. Release \in Seq(S) /\ Len(Release) = 2 /\ Release[2] = [do |-> "releaseMouse"]
  BY DEF Release
<1>2. Tail(Release) = <<[do |-> "releaseMouse"]>>
  BY <1>1, TailOfTwo
<1>3. <<[do |-> "releaseMouse"]>> # <<>>
  OBVIOUS
<1> QED
  BY <1>2, <1>3 DEF Release

\* A release: the keyboard first, then the mouse.
LEMMA ReleaseKeeps ==
  ASSUME ExecutionInv, ReleaseKeyboard \/ ReleaseMouse
  PROVE  ExecutionInv'
<1>1. /\ ~Running /\ steps # <<>> /\ job' = job /\ collector' = collector /\ input' = input
      /\ IsReleasing /\ UNCHANGED capsVars
  BY DEF ReleaseKeyboard, ReleaseMouse, IsReleasing
<1>2. /\ input = NoInput /\ collector = None /\ job = None /\ host \in HostValue
      /\ steps = Release \/ (steps = Tail(Release) /\ host.keyboard = {})
  BY <1>1 DEF ExecutionInv, ReleaseIsWhole, BatchIsForeseen, TypeOK, HostValue, Running
<1>3. MoveTypeOK /\ ~IsMoving
  BY <1>1, NotMoving DEF ExecutionInv, TypeOK
<1>4. NoInput \in InputValue /\ View(NoInput.keyboard) = {} /\ NoInput.mouse = {}
  BY IdleIsKeyboard DEF NoInput, InputValue
<1>5. /\ hostCaps' \in BOOLEAN /\ capsLock' \in BOOLEAN /\ turned \in Int
      /\ done.command \in Command \cup {None} /\ done.held \in Held
  BY <1>1 DEF ExecutionInv, TypeOK, capsVars
<1>6. CASE ReleaseKeyboard
  <2>1. /\ Head(steps).do = "releaseKeyboard" /\ steps' = Tail(steps)
        /\ host' = [host EXCEPT !.keyboard = {}] /\ UNCHANGED <<turned, done, moveVars>>
    BY <1>6 DEF ReleaseKeyboard
  <2>2. steps' = Tail(Release) /\ steps' # <<>>
    BY <1>2, <2>1, ReleaseSteps
  <2>3. host' \in HostValue /\ host'.keyboard = {}
    BY <1>2, <2>1 DEF HostValue
  <2>4. MoveTypeOK' /\ ~IsMoving'
    BY <1>3, <2>1 DEF MoveTypeOK, moveVars, IsMoving
  <2>5. ~Running' /\ IsReleasing'
    BY <1>1, <2>2 DEF Running, IsReleasing
  <2>6. {hostCaps', capsLock'} \subseteq BOOLEAN
    BY <1>5
  <2>7. TypeOK'
    BY <1>1, <1>2, <1>4, <1>5, <2>1, <2>3, <2>4, <2>5, <2>6 DEF TypeOK, HostValue
  <2>8. HostHoldsInput' /\ ReleaseIsWhole'
    BY <1>1, <1>2, <2>2, <2>3, <2>5 DEF HostHoldsInput, ReleaseIsWhole
  <2>9. BatchIsForeseen' /\ StepsFit' /\ StepsLeadOn'
    BY <1>1, <1>2, <2>5 DEF BatchIsForeseen, StepsFit, StepsLeadOn
  <2> QED
    BY <2>7, <2>8, <2>9 DEF ExecutionInv
<1>7. CASE ReleaseMouse
  <2>1. /\ Head(steps).do = "releaseMouse" /\ steps' = <<>>
        /\ host' = [host EXCEPT !.mouse = {}] /\ turned' = 0
        /\ done' = Nothing(host.keyboard) /\ ForgetMove
    BY <1>7 DEF ReleaseMouse
  <2>2. host.keyboard = {}
    BY <1>2, <2>1, ReleaseSteps
  <2>3. host' \in HostValue /\ host'.keyboard = {} /\ host'.mouse = {}
    BY <1>2, <2>1, <2>2 DEF HostValue
  <2>4. MoveTypeOK' /\ ~IsMoving'
    <3>1. MoveTypeOK'
      BY <1>3, <2>1, MoveTypeKept DEF MoveNext
    <3> QED
      BY <2>1, <3>1 DEF ForgetMove, IsMoving
  <2>5. done'.command \in Command \cup {None} /\ done'.held \in Held
    BY <2>1, <2>2 DEF Nothing, Held
  <2> QED
    BY <1>1, <1>2, <1>4, <1>5, <2>1, <2>3, <2>4, <2>5, AtRest
<1> QED
  BY <1>6, <1>7

\* Caps Lock, and what the firmware hears of it, is no part of the rest.
LEMMA CapsKeeps ==
  ASSUME ExecutionInv, ToggleCaps \/ LedReport \/ UNCHANGED vars
  PROVE  ExecutionInv'
<1>1. UNCHANGED <<input, host, job, steps, collector, turned, done, moveVars>>
  BY DEF ToggleCaps, LedReport, vars
<1>2. {hostCaps', capsLock'} \subseteq BOOLEAN
  BY DEF ToggleCaps, LedReport, vars, capsVars, ExecutionInv, TypeOK
<1>3. MoveTypeOK' /\ IsMoving' = IsMoving
  BY <1>1 DEF ExecutionInv, TypeOK, MoveTypeOK, moveVars, IsMoving
<1>4. TypeOK'
  BY <1>1, <1>2, <1>3 DEF ExecutionInv, TypeOK, Running
<1>5. HostHoldsInput' /\ ReleaseIsWhole' /\ BatchIsForeseen'
  BY <1>1 DEF ExecutionInv, HostHoldsInput, ReleaseIsWhole, BatchIsForeseen, IsReleasing,
              Running
<1>6. StepsFit' /\ StepsLeadOn'
  BY <1>1 DEF ExecutionInv, StepsFit, StepsLeadOn, Running, Current
<1> QED
  BY <1>4, <1>5, <1>6 DEF ExecutionInv

-----------------------------------------------------------------------------
(* Theorems.                                                               *)

\* At the start nothing is held and nothing is to be done.
LEMMA ExecutionInit == Init => ExecutionInv
<1> SUFFICES ASSUME Init PROVE ExecutionInv
  OBVIOUS
<1>1. /\ input = NoInput /\ host = [keyboard |-> {}, mouse |-> {}] /\ ~Running
      /\ steps = <<>> /\ collector = None /\ turned = 0 /\ done = Nothing({})
      /\ hostCaps = FALSE /\ capsLock = FALSE /\ MoveInit
  BY DEF Init, Running
<1>2. NoInput \in InputValue /\ View(NoInput.keyboard) = {} /\ NoInput.mouse = {}
  BY IdleIsKeyboard DEF NoInput, InputValue
<1>3. MoveTypeOK /\ ~IsMoving
  BY <1>1 DEF MoveInit, MoveTypeOK, MovePhase, IsMoving
<1>4. {hostCaps, capsLock} \subseteq BOOLEAN
  BY <1>1
<1>5. TypeOK
  BY <1>1, <1>2, <1>3, <1>4 DEF TypeOK, Nothing, Held
<1> QED
  BY <1>1, <1>2, <1>5 DEF ExecutionInv, HostHoldsInput, ReleaseIsWhole, IsReleasing,
                          BatchIsForeseen, StepsFit, StepsLeadOn

\* Every action keeps the invariant.
LEMMA ExecutionNext == ExecutionInv /\ [Next]_vars => ExecutionInv'
<1> SUFFICES ASSUME ExecutionInv, [Next]_vars PROVE ExecutionInv'
  OBVIOUS
<1> QED
  BY RequestKeeps, BeginKeeps, NextStrokeKeeps, WriteKeeps, MovePointerKeeps, FailureKeeps,
     CompleteKeeps, ReleaseKeeps, CapsKeeps DEF Next

\* For any keyboard, any requests and any limits: what the executor has committed is
\* what the host holds but during a release, a release goes to the end on both
\* interfaces, every batch is foreseen command by command, and the steps of the
\* command at hand lead to what was foreseen.
THEOREM ExecutionInvariant == Spec => []ExecutionInv
  BY ExecutionInit, ExecutionNext, PTL DEF Spec

\* What BatchCollector has accepted, the executor never refuses half way through, and
\* every command of it ends in the state that was foreseen.
THEOREM ValidatedBatchIsExecuted == Spec => []BatchIsAsValidated
<1>1. ASSUME ExecutionInv PROVE BatchIsAsValidated
  <2> SUFFICES ASSUME Running, job.batch
               PROVE  /\ AtCommand => ~Refuses(Current, input) /\ input = job.shadows[1]
                      /\ steps = <<Check>> => input = job.shadows[2]
    BY DEF BatchIsAsValidated
  <2>1. /\ IsForeseen(job.commands, job.shadows) /\ job.commands \in Seq(Command)
        /\ job.commands # <<>> /\ Current = Head(job.commands) /\ Current \in Command
    BY <1>1, RunningFacts DEF Job
  <2>2. 1 \in DOMAIN job.commands /\ Head(job.commands) = job.commands[1]
    BY <2>1
  <2>3. IsValid(Current, job.shadows[1])
    BY <2>1, <2>2 DEF IsForeseen
  <2>4. AtCommand => ~Refuses(Current, input) /\ input = job.shadows[1]
    BY <1>1, <2>1, <2>3, ValidIsNotRefused DEF AtCommand, ExecutionInv, StepsLeadOn
  <2>5. steps = <<Check>> => input = job.shadows[2]
    <3> SUFFICES ASSUME steps = <<Check>> PROVE input = job.shadows[2]
      OBVIOUS
    <3>1. steps # <<>> /\ Outcome(steps, input) = input
      BY DEF Outcome
    <3> QED
      BY <1>1, <3>1 DEF ExecutionInv, StepsLeadOn
  <2> QED
    BY <2>4, <2>5
<1> QED
  BY <1>1, ExecutionInvariant, PTL

\* Of a movement, the executor takes the steps of Movement and no others.
LEMMA StepMoves == ExecutionInv /\ [Next]_vars => [MoveNext]_moveVars
<1> SUFFICES ASSUME ExecutionInv, [Next]_vars PROVE [MoveNext]_moveVars
  OBVIOUS
<1>1. CASE MovePointer
  <2>1. Running /\ steps # <<>> /\ Head(steps).do = "move"
    BY <1>1 DEF MovePointer, IsAt
  <2>2. Current \in Command /\ Current.type = "MouseMoveRel"
    BY <2>1, RunningFacts, LoopFits
  <2>3. Current.dx \in Coordinate /\ Current.dy \in Coordinate
    BY <2>2, FrameAssumption
  <2> QED
    BY <1>1, <2>3 DEF MovePointer, MoveNext
<1>2. CASE MoveDone
  BY <1>2 DEF MoveDone, MoveNext
<1>3. CASE WriteFails
  BY <1>3 DEF WriteFails, MoveNext
<1>4. CASE Cancel
  BY <1>4 DEF Cancel, MoveNext
<1>5. CASE Complete \/ ReleaseMouse
  BY <1>5 DEF Complete, ReleaseMouse, MoveNext
<1>6. CASE \/ Begin \/ Refuse \/ NextStroke \/ WriteKeyboard \/ WriteMouse \/ WriteWheel
           \/ GoOn \/ Emergency \/ ReleaseKeyboard \/ ToggleCaps \/ LedReport
  BY <1>6 DEF Begin, Refuse, NextStroke, WriteKeyboard, WriteMouse, WriteWheel, GoOn,
              Emergency, ReleaseKeyboard, ToggleCaps, LedReport
<1>7. ASSUME NEW f \in Frame,
             ExecuteSingle(f) \/ BatchBegin(f) \/ Push(f) \/ BatchEnd(f)
      PROVE  UNCHANGED moveVars
  BY <1>7 DEF ExecuteSingle, BatchBegin, Push, BatchEnd
<1>8. CASE UNCHANGED vars
  BY <1>8 DEF vars
<1> QED
  BY <1>1, <1>2, <1>3, <1>4, <1>5, <1>6, <1>7, <1>8 DEF Next

\* Whatever else the executor does, its movements are those of Movement ...
THEOREM ExecutorMoves == Spec => MoveSpec
<1>1. Init => MoveInit
  BY DEF Init
<1> QED
  BY <1>1, StepMoves, ExecutionInvariant, PTL DEF Spec, MoveSpec

\* ... so that every movement that is done is exact, and one that a failure or a
\* cancellation breaks off has stopped on the way.
THEOREM ExecutedMovementIsSound == Spec => []MoveInv
  BY ExecutorMoves, MovementIsSound, PTL

-----------------------------------------------------------------------------
(* Refinement: the command at hand, from its first step to its last.       *)

\* Parts, Pressed and Struck of HeldInput, and HasPlace for what is held.
PartsOf(stroke) == stroke.modifiers \cup ({stroke.key} \ {None})

PressedOf(set) == IF set = {} THEN <<>> ELSE <<set>>

StruckOf(held, stroke) ==
  IF stroke.key = None THEN stroke.modifiers
  ELSE {stroke.key} \cup (stroke.modifiers \ held)

HasPlaceFor(held, stroke) ==
  Cardinality((held \cap Key) \cup (PartsOf(stroke) \cap Key)) <= MaxHeldKeys

\* What a command promises: Apply of HeldInput, from what is held to what is held after
\* it, with its strokes, and how far it moves and turns.
Promised(held, c, after, strokes, way) ==
  \/ /\ c.type = "KeyDown" /\ HasPlaceFor(held, c.stroke)
     /\ after = held \cup PartsOf(c.stroke)
     /\ strokes = PressedOf(PartsOf(c.stroke) \ held)
     /\ way = <<0, 0, 0>>
  \/ /\ c.type = "KeyUp"
     /\ after = held \ PartsOf(c.stroke)
     /\ strokes = <<>>
     /\ way = <<0, 0, 0>>
  \/ /\ c.type = "KeyTap" /\ HasPlaceFor(held, c.stroke)
     /\ after = held
     /\ strokes = PressedOf(StruckOf(held, c.stroke))
     /\ way = <<0, 0, 0>>
  \/ /\ c.type = "TypeAscii" /\ held \cap (Key \cup Modifier) = {} /\ IsTyped(c.text)
     /\ after = held
     /\ strokes = [k \in DOMAIN Normalised(c.text) |-> {Normalised(c.text)[k]}]
     /\ way = <<0, 0, 0>>
  \/ /\ c.type = "MouseButtonDown"
     /\ after = held \cup {c.button}
     /\ strokes = PressedOf({c.button} \ held)
     /\ way = <<0, 0, 0>>
  \/ /\ c.type = "MouseButtonUp"
     /\ after = held \ {c.button}
     /\ strokes = <<>>
     /\ way = <<0, 0, 0>>
  \/ /\ c.type = "MouseClick"
     /\ after = held
     /\ strokes = <<{c.button}>>
     /\ way = <<0, 0, 0>>
  \/ /\ c.type = "MouseMoveRel"
     /\ after = held
     /\ strokes = <<>>
     /\ way = <<c.dx, c.dy, 0>>
  \/ /\ c.type = "MouseWheel"
     /\ after = held
     /\ strokes = <<>>
     /\ way = <<0, 0, c.wheel>>
  \/ /\ c.type = "WaitMs"
     /\ after = held
     /\ strokes = <<>>
     /\ way = <<0, 0, 0>>

HostHolds == host.keyboard \cup host.mouse

\* The step at this distance from the last look at cancellation: no other step that is
\* done changes it.
FromEnd(ahead, k) == ahead[Len(ahead) - k]

\* What the host is shown by a report.
Shown(step) == IF step.do = "keyboard" THEN View(step.state) ELSE step.state

\* The strokes after a report, when this was shown before it.
Struck(strokes, seen, shown) ==
  IF shown \ seen = {} THEN strokes ELSE Append(strokes, shown \ seen)

\* What reports ahead, of which every second step is one, leave shown, and struck.
FinallyShown(ahead, seen) ==
  IF Len(ahead) = 1 THEN seen ELSE Shown(FromEnd(ahead, 1))

FinallyStruck(ahead, seen, strokes) ==
  LET a == Shown(FromEnd(ahead, 5))
      b == Shown(FromEnd(ahead, 3))
      c == Shown(FromEnd(ahead, 1))
  IN  CASE Len(ahead) = 1 -> strokes
        [] Len(ahead) \in {2, 3} -> Struck(strokes, seen, c)
        [] Len(ahead) \in {4, 5} -> Struck(Struck(strokes, seen, b), b, c)
        [] Len(ahead) \in {6, 7} -> Struck(Struck(Struck(strokes, seen, a), a, b), b, c)

\* Every second step from the end is a report of this interface.
IsPulse(ahead, interface) ==
  /\ Len(ahead) <= 7
  /\ \A k \in 0 .. Len(ahead) - 1 :
       FromEnd(ahead, k).do \in IF k \in {1, 3, 5} THEN {interface} ELSE {"check", "delay"}

\* The reports of a key or a button go to one interface and keep the promise together.
KeysOnTrack ==
  /\ IsPulse(steps, "keyboard")
  /\ Promised(done.held, Current, FinallyShown(steps, host.keyboard) \cup host.mouse,
              FinallyStruck(steps, host.keyboard, log), <<0, 0, 0>>)

ButtonsOnTrack ==
  /\ IsPulse(steps, "mouse")
  /\ Promised(done.held, Current, host.keyboard \cup FinallyShown(steps, host.mouse),
              FinallyStruck(steps, host.mouse, log), <<0, 0, 0>>)

\* The host has read a text up to this place.
HasRead(read, text, place) ==
  /\ read \in Seq(SUBSET Char)
  /\ Len(read) = Cardinality(KeptBefore(text, place))
  /\ \A k \in DOMAIN read : read[k] = {Normalised(text)[k]}

\* A place at which a stroke begins, or the end.
IsPlace(text, place) == place \in Kept(text) \/ place = Len(text) + 1

\* A text is read up to the strokes to come but for the one that is pressed next.
ReadingOn(ahead, text, read, keyboard, caps) ==
  LET n == Len(ahead)
      rest == FromEnd(ahead, 1)
  IN  /\ n <= 5
      /\ FromEnd(ahead, 0) = Check
      /\ n = 1 => HasRead(read, text, Len(text) + 1) /\ keyboard = {}
      /\ n > 1 => rest.do = "strokes" /\ rest.caps = caps /\ IsPlace(text, rest.place)
      /\ n \in {2, 3, 4} => HasRead(read, text, rest.place)
      /\ n = 2 => keyboard = {}
      /\ n = 3 => \/ ahead[1] = Check /\ keyboard = {}
                  \/ ahead[1] = KeyboardReport(Idle)
      /\ n > 3 => FromEnd(ahead, 2) = KeyboardReport(Idle) /\ FromEnd(ahead, 3) = Delay
      /\ n = 5 => \E i \in Kept(text) :
                    /\ rest.place = i + Width(text, i)
                    /\ ahead[1] = KeyboardReport(KeyDown(Idle, Keystroke(text[i], caps)))
                    /\ HasRead(read, text, i) /\ keyboard = {}

TextOnTrack ==
  /\ done.held = host.mouse /\ IsTyped(Current.text)
  /\ ReadingOn(steps, Current.text, log, host.keyboard, hostCaps)

\* One step between two looks at cancellation does it all.
MoveOnTrack ==
  /\ HostHolds = done.held /\ log = <<>> /\ Len(steps) <= 3
  /\ FromEnd(steps, 0) = Check
  /\ Len(steps) > 1 => FromEnd(steps, 1) = Move
  /\ Len(steps) = 3 => steps[1] = Check
  /\ IsMoving => dx = Current.dx /\ dy = Current.dy
  /\ Len(steps) = 1 => dx = Current.dx /\ dy = Current.dy /\ movePhase = "Done"

WheelOnTrack ==
  /\ HostHolds = done.held /\ log = <<>> /\ Len(steps) <= 3
  /\ FromEnd(steps, 0) = Check
  /\ Len(steps) > 1 => FromEnd(steps, 1) = WheelReport(Current.wheel)
  /\ Len(steps) = 3 => steps[1] = Check
  /\ turned = IF Len(steps) = 1 THEN Current.wheel ELSE 0

WaitOnTrack ==
  /\ HostHolds = done.held /\ log = <<>>
  /\ \A k \in DOMAIN steps : steps[k] \in {Check, Delay}

\* Between commands there is nothing left of the last; a command is on the way to what
\* it promises.
OnTrack ==
  /\ ~IsReleasing /\ steps = <<>> =>
       HostHolds = done.held /\ log = <<>> /\ turned = 0 /\ pointerX = 0 /\ pointerY = 0
  /\ Running /\ steps # <<>> =>
       /\ Current.type \in OfKey => KeysOnTrack
       /\ Current.type \in OfButton => ButtonsOnTrack
       /\ Current.type = "TypeAscii" => TextOnTrack
       /\ Current.type = "MouseMoveRel" => MoveOnTrack
       /\ Current.type = "MouseWheel" => WheelOnTrack
       /\ Current.type = "WaitMs" => WaitOnTrack
       /\ Current.type # "MouseMoveRel" => pointerX = 0 /\ pointerY = 0
       /\ Current.type # "MouseWheel" => turned = 0

\* Without late reports, the firmware knows of Caps Lock during jobs and batches.
CapsAgree == Running \/ collector # None => capsLock = hostCaps

\* The steps that are left keep their distance from the end.
LEMMA TailFromEnd ==
  ASSUME NEW S, NEW s \in Seq(S), Len(s) > 1
  PROVE  /\ Tail(s) \in Seq(S) /\ Len(Tail(s)) = Len(s) - 1 /\ Tail(s) # <<>> /\ s # <<>>
         /\ \A k \in 0 .. Len(s) - 2 : FromEnd(Tail(s), k) = FromEnd(s, k)
         /\ Head(s) = FromEnd(s, Len(s) - 1) /\ Head(s) = s[1]
<1> DEFINE n == Len(s)
           t == Tail(s)
<1>1. n \in Nat /\ n > 1
  OBVIOUS
<1>2. s # <<>>
  BY <1>1
<1>3. t \in Seq(S) /\ Len(t) = n - 1 /\ Head(s) = s[1] /\ \A i \in 1 .. n - 1 : t[i] = s[i + 1]
  BY <1>2, HeadTailProperties
<1> HIDE DEF n, t
<1>4. ASSUME NEW k \in 0 .. n - 2
      PROVE  FromEnd(t, k) = FromEnd(s, k)
  <2> DEFINE i == n - 1 - k
             j == n - k
  <2>1. i \in 1 .. n - 1 /\ j = i + 1
    BY <1>1
  <2>2. FromEnd(t, k) = t[i] /\ FromEnd(s, k) = s[j]
    BY <1>3 DEF FromEnd, n
  <2> HIDE DEF i, j
  <2> QED BY <1>3, <2>1, <2>2
<1>5. FromEnd(s, n - 1) = s[1]
  <2>1. n - (n - 1) = 1
    BY <1>1
  <2> QED BY <2>1 DEF FromEnd, n
<1>6. Len(t) > 0
  BY <1>1, <1>3
<1>7. t # <<>>
  BY <1>3, <1>6
<1> QED BY <1>2, <1>3, <1>4, <1>5, <1>7 DEF n, t

\* What is left of a pulse is one, and leads to the same: after a step that shows nothing
\* from what is shown, after a report from what that has shown and struck.
LEMMA PulseGoesOn ==
  ASSUME NEW s \in Seq(CommandStep), Len(s) > 1, NEW interface \in {"keyboard", "mouse"},
         IsPulse(s, interface), NEW seen, NEW strokes
  PROVE  /\ IsPulse(Tail(s), interface)
         /\ Head(s).do \in {"check", "delay"} =>
              /\ FinallyShown(Tail(s), seen) = FinallyShown(s, seen)
              /\ FinallyStruck(Tail(s), seen, strokes) = FinallyStruck(s, seen, strokes)
         /\ Head(s).do \in {interface, "check", "delay"}
         /\ Head(s).do = interface =>
              LET shown == Shown(Head(s))
              IN  /\ FinallyShown(Tail(s), shown) = FinallyShown(s, seen)
                  /\ FinallyStruck(Tail(s), shown, Struck(strokes, seen, shown))
                       = FinallyStruck(s, seen, strokes)
<1> DEFINE n == Len(s)
           m == Len(Tail(s))
           t == Tail(s)
           x == Head(s)
<1>1. /\ n \in Nat /\ n > 1 /\ m = n - 1 /\ x = FromEnd(s, n - 1)
      /\ \A k \in 0 .. n - 2 : FromEnd(t, k) = FromEnd(s, k)
  BY TailFromEnd
<1>2. /\ n <= 7
      /\ \A k \in 0 .. n - 1 :
           FromEnd(s, k).do \in IF k \in {1, 3, 5} THEN {interface} ELSE {"check", "delay"}
  BY DEF IsPulse
<1>3. /\ FinallyShown(t, seen) = IF m = 1 THEN seen ELSE Shown(FromEnd(t, 1))
      /\ FinallyShown(s, seen) = IF n = 1 THEN seen ELSE Shown(FromEnd(s, 1))
      /\ FinallyShown(t, Shown(x)) = IF m = 1 THEN Shown(x) ELSE Shown(FromEnd(t, 1))
  BY DEF FinallyShown
<1>4. IsPulse(t, interface)
  <2>1. /\ m <= 7
        /\ \A k \in 0 .. m - 1 :
             FromEnd(t, k).do \in IF k \in {1, 3, 5} THEN {interface} ELSE {"check", "delay"}
    <3> HIDE DEF n, m, t, x
    <3> QED BY <1>1, <1>2
  <2> QED BY <2>1 DEF IsPulse
<1> DEFINE a == Shown(FromEnd(s, 5))
           b == Shown(FromEnd(s, 3))
           c == Shown(FromEnd(s, 1))
<1>6. /\ n > 6 => Shown(FromEnd(t, 5)) = a
      /\ n > 4 => Shown(FromEnd(t, 3)) = b
      /\ n > 2 => Shown(FromEnd(t, 1)) = c
  <2> HIDE DEF n, m, t, x
  <2> QED BY <1>1
<1>7. t \in Seq(CommandStep)
  BY TailFromEnd
<1>8. \A v, w : FinallyStruck(s, v, w) =
               CASE n = 1 -> w
                 [] n \in {2, 3} -> Struck(w, v, c)
                 [] n \in {4, 5} -> Struck(Struck(w, v, b), b, c)
                 [] n \in {6, 7} -> Struck(Struck(Struck(w, v, a), a, b), b, c)
  BY DEF FinallyStruck
<1>9. \A v, w : FinallyStruck(t, v, w) =
               CASE m = 1 -> w
                 [] m \in {2, 3} -> Struck(w, v, Shown(FromEnd(t, 1)))
                 [] m \in {4, 5} -> Struck(Struck(w, v, Shown(FromEnd(t, 3))),
                                           Shown(FromEnd(t, 3)), Shown(FromEnd(t, 1)))
                 [] m \in {6, 7} -> Struck(Struck(Struck(w, v, Shown(FromEnd(t, 5))),
                                                  Shown(FromEnd(t, 5)), Shown(FromEnd(t, 3))),
                                           Shown(FromEnd(t, 3)), Shown(FromEnd(t, 1)))
  BY DEF FinallyStruck
<1>10. /\ n = 2 => Shown(x) = c
       /\ n = 4 => Shown(x) = b
       /\ n = 6 => Shown(x) = a
  <2> HIDE DEF n, x
  <2>1. n = 2 => n - 1 = 1
    OBVIOUS
  <2>2. n = 4 => n - 1 = 3
    OBVIOUS
  <2>3. n = 6 => n - 1 = 5
    OBVIOUS
  <2> QED BY <1>1, <2>1, <2>2, <2>3
<1>11. x.do \in IF n \in {2, 4, 6} THEN {interface} ELSE {"check", "delay"}
  <2> HIDE DEF n, x
  <2>1. n - 1 \in 0 .. n - 1 /\ (n - 1 \in {1, 3, 5} <=> n \in {2, 4, 6})
    BY <1>1
  <2> QED BY <1>1, <1>2, <2>1
<1>12. n \in 2 .. 7
  <2> HIDE DEF n
  <2> QED BY <1>1, <1>2
<1> HIDE DEF n, m, t, x, a, b, c
<1>13. CASE x.do \in {"check", "delay"}
  <2>1. n \in {3, 5, 7}
    BY <1>11, <1>12, <1>13
  <2>2. FinallyShown(t, seen) = FinallyShown(s, seen)
    BY <1>1, <1>3, <1>6, <2>1 DEF c
  <2>3. FinallyStruck(t, seen, strokes) = FinallyStruck(s, seen, strokes)
    <3>1. CASE n = 3
      <4>1. m = 2
        BY <1>1, <3>1
      <4> QED BY <1>6, <1>8, <1>9, <3>1, <4>1
    <3>2. CASE n = 5
      <4>1. m = 4
        BY <1>1, <3>2
      <4> QED BY <1>6, <1>8, <1>9, <3>2, <4>1
    <3>3. CASE n = 7
      <4>1. m = 6
        BY <1>1, <3>3
      <4> QED BY <1>6, <1>8, <1>9, <3>3, <4>1
    <3> QED BY <2>1, <3>1, <3>2, <3>3
  <2> QED BY <1>4, <1>11, <1>13, <2>2, <2>3 DEF t, x
<1>14. CASE x.do = interface
  <2>1. n \in {2, 4, 6}
    BY <1>11, <1>14
  <2>2. FinallyShown(t, Shown(x)) = FinallyShown(s, seen)
    BY <1>1, <1>3, <1>6, <1>10, <2>1 DEF c
  <2>3. FinallyStruck(t, Shown(x), Struck(strokes, seen, Shown(x)))
          = FinallyStruck(s, seen, strokes)
    <3>1. CASE n = 2
      <4>1. m = 1
        BY <1>1, <3>1
      <4> QED BY <1>8, <1>9, <1>10, <3>1, <4>1
    <3>2. CASE n = 4
      <4>1. m = 3
        BY <1>1, <3>2
      <4> QED BY <1>6, <1>8, <1>9, <1>10, <3>2, <4>1
    <3>3. CASE n = 6
      <4>1. m = 5
        BY <1>1, <3>3
      <4> QED BY <1>6, <1>8, <1>9, <1>10, <3>3, <4>1
    <3> QED BY <2>1, <3>1, <3>2, <3>3
  <2> QED BY <1>4, <1>14, <2>2, <2>3 DEF t, x
<1> QED BY <1>11, <1>13, <1>14

-----------------------------------------------------------------------------
(* What the host sees of held input.                                       *)

\* The keys of a state are all that is neither a modifier nor a button.
LEMMA ViewOfKeyboard ==
  ASSUME NEW k \in KeyboardState
  PROVE  /\ k.modifiers \subseteq Modifier
         /\ \A i \in DOMAIN k.keycodes : k.keycodes[i] \in Key
         /\ View(k) \cap Key = {k.keycodes[i] : i \in DOMAIN k.keycodes}
         /\ View(k) \cap Modifier = k.modifiers
         /\ View(k) \subseteq Modifier \cup Key
         /\ \A key \in Key : HoldsKey(k, key) <=> key \in View(k)
         /\ ~HoldsKey(k, None)
<1>1. k.modifiers \in SUBSET Modifier /\ k.keycodes \in Seq(Key)
  BY KeyboardShape
<1>2. \A i \in DOMAIN k.keycodes : k.keycodes[i] \in Key
  BY <1>1
<1> DEFINE codes == {k.keycodes[i] : i \in DOMAIN k.keycodes}
<1>3. codes \subseteq Key /\ View(k) = k.modifiers \cup codes
  BY <1>2 DEF View
<1>4. \A key : HoldsKey(k, key) <=> key \in codes
  BY DEF HoldsKey
<1> HIDE DEF codes
<1> QED BY <1>1, <1>2, <1>3, <1>4, KindsAssumption, InputAssumption DEF codes

\* KEY_DOWN adds what it names, and nothing else ...
LEMMA ViewOfKeyDown ==
  ASSUME NEW k \in KeyboardState, NEW s \in Stroke
  PROVE  View(KeyDown(k, s)) = View(k) \cup PartsOf(s)
<1>1. k.keycodes \in Seq(Key) /\ s.key \in Key \cup {None}
  BY KeyboardShape DEF Stroke
<1> DEFINE codes == k.keycodes
           next == KeyDown(k, s).keycodes
<1>2. KeyDown(k, s).modifiers = k.modifiers \cup s.modifiers
  BY DEF KeyDown
<1>3. next = IF TakesPlace(k, s) THEN Append(codes, s.key) ELSE codes
  BY DEF KeyDown
<1>4. {next[i] : i \in DOMAIN next} = {codes[i] : i \in DOMAIN codes} \cup ({s.key} \ {None})
  <2>1. CASE TakesPlace(k, s)
    <3>1. s.key # None
      BY <2>1 DEF TakesPlace
    <3> HIDE DEF codes, next
    <3>2. codes \in Seq(Key) /\ next = Append(codes, s.key)
      BY <1>1, <1>3, <2>1 DEF codes
    <3>3. /\ DOMAIN codes = 1 .. Len(codes) /\ Len(codes) \in Nat
          /\ DOMAIN next = 1 .. Len(codes) + 1
          /\ \A i \in 1 .. Len(codes) : next[i] = codes[i]
          /\ next[Len(codes) + 1] = s.key
      BY <3>2, AppendProperties, LenProperties
    <3>4. DOMAIN next = DOMAIN codes \cup {Len(codes) + 1}
      BY <3>3
    <3> QED BY <3>1, <3>3, <3>4
  <2>2. CASE ~TakesPlace(k, s)
    <3>1. s.key = None \/ \E i \in DOMAIN codes : codes[i] = s.key
      BY <2>2 DEF TakesPlace, HoldsKey
    <3> QED BY <1>3, <2>2, <3>1
  <2> QED BY <2>1, <2>2
<1> HIDE DEF codes, next
<1> QED BY <1>2, <1>4 DEF View, PartsOf, codes, next

\* ... and KEY_UP takes away what it names, and nothing else.
LEMMA ViewOfKeyUp ==
  ASSUME NEW k \in KeyboardState, NEW s \in Stroke
  PROVE  View(KeyUp(k, s)) = View(k) \ PartsOf(s)
<1>1. /\ k.keycodes \in Seq(Key) /\ s.key \in Key \cup {None}
      /\ s.modifiers \subseteq Modifier /\ k.modifiers \subseteq Modifier
  BY KeyboardShape DEF Stroke
<1> DEFINE codes == k.keycodes
           next == KeyUp(k, s).keycodes
           place == Position(k, s.key)
<1>2. KeyUp(k, s).modifiers = k.modifiers \ s.modifiers
  BY DEF KeyUp
<1>3. next = IF HoldsKey(k, s.key) THEN Without(codes, place) ELSE codes
  BY DEF KeyUp
<1>4. {next[i] : i \in DOMAIN next} = {codes[i] : i \in DOMAIN codes} \ {s.key}
  <2>1. CASE HoldsKey(k, s.key)
    <3>1. place \in DOMAIN codes /\ codes[place] = s.key
      BY <2>1 DEF HoldsKey, Position
    <3>2. \A i, j \in DOMAIN codes : codes[i] = codes[j] => i = j
      BY DEF KeyboardState
    <3> DEFINE n == Len(codes)
    <3>3. n \in Nat /\ DOMAIN codes = 1 .. n
      BY <1>1, LenProperties
    <3>4. next = [i \in 1 .. n - 1 |-> IF i < place THEN codes[i] ELSE codes[i + 1]]
      BY <1>3, <2>1 DEF Without
    <3> HIDE DEF codes, next, place, n
    <3>5. DOMAIN next = 1 .. n - 1
      BY <3>4
    <3>6. ASSUME NEW i \in DOMAIN next
          PROVE  next[i] \in {codes[j] : j \in DOMAIN codes} \ {s.key}
      <4>1. CASE i < place
        <5>1. next[i] = codes[i] /\ i \in DOMAIN codes /\ i # place
          BY <3>1, <3>3, <3>4, <3>5, <4>1
        <5> QED BY <3>1, <3>2, <5>1
      <4>2. CASE ~(i < place)
        <5>1. next[i] = codes[i + 1] /\ i + 1 \in DOMAIN codes /\ i + 1 # place
          BY <3>1, <3>3, <3>4, <3>5, <4>2
        <5> QED BY <3>1, <3>2, <5>1
      <4> QED BY <4>1, <4>2
    <3>7. ASSUME NEW j \in DOMAIN codes, codes[j] # s.key
          PROVE  \E i \in DOMAIN next : next[i] = codes[j]
      <4>1. j # place
        BY <3>1, <3>7
      <4>2. CASE j < place
        <5>1. j \in DOMAIN next /\ next[j] = codes[j]
          BY <3>1, <3>3, <3>4, <3>5, <4>2
        <5> QED BY <5>1
      <4>3. CASE place < j
        <5> DEFINE i == j - 1
        <5>1. i \in 1 .. n - 1 /\ ~(i < place) /\ i + 1 = j
          BY <3>1, <3>3, <4>3
        <5> HIDE DEF i
        <5>2. i \in DOMAIN next /\ next[i] = codes[j]
          BY <3>4, <3>5, <5>1
        <5> QED BY <5>2
      <4> QED BY <3>1, <3>3, <4>1, <4>2, <4>3
    <3> QED BY <3>6, <3>7
  <2>2. CASE ~HoldsKey(k, s.key)
    BY <1>3, <2>2 DEF HoldsKey
  <2> QED BY <2>1, <2>2
<1> DEFINE held == {codes[i] : i \in DOMAIN codes}
<1>5. held \subseteq Key
  BY <1>1
<1>6. View(KeyUp(k, s)) = (k.modifiers \ s.modifiers) \cup (held \ {s.key})
  BY <1>2, <1>4 DEF View
<1>7. View(k) = k.modifiers \cup held
  BY DEF View
<1> HIDE DEF held
<1>8. /\ s.key \notin k.modifiers \/ s.key = None
      /\ held \cap s.modifiers = {} /\ None \notin held
  BY <1>1, <1>5, KindsAssumption, InputAssumption
<1> QED BY <1>5, <1>6, <1>7, <1>8 DEF PartsOf

\* A keyboard that has place for a stroke is within the limit after it.
LEMMA PlaceIsThere ==
  ASSUME NEW k \in KeyboardState, NEW s \in Stroke, CanKeyDown(k, s), NEW held,
         held \cap Key = View(k) \cap Key
  PROVE  HasPlaceFor(held, s)
<1> DEFINE next == KeyDown(k, s)
           codes == next.keycodes
           n == Len(codes)
<1>1. next \in KeyboardState
  BY KeyDownIsKeyboard
<1>2. n \in Nat /\ n <= MaxHeldKeys /\ codes \in Seq(Key)
  BY <1>1, KeyboardShape
<1>3. DOMAIN codes = 1 .. n
  BY <1>2, LenProperties
<1>4. View(next) \cap Key = {codes[i] : i \in 1 .. n}
  BY <1>1, <1>3, ViewOfKeyboard
<1>5. View(next) \cap Key = (held \cap Key) \cup (PartsOf(s) \cap Key)
  BY ViewOfKeyDown
<1> HIDE DEF next, codes, n
<1>6. IsFiniteSet(1 .. n) /\ Cardinality(1 .. n) = n
  <2>1. 1 \in Int /\ n \in Int
    BY <1>2
  <2>2. /\ IsFiniteSet(1 .. n)
        /\ Cardinality(1 .. n) = IF 1 > n THEN 0 ELSE n - 1 + 1
    BY <2>1, FS_Interval
  <2> QED BY <1>2, <2>2
<1> DEFINE keys == {codes[i] : i \in 1 .. n}
           f == [i \in 1 .. n |-> codes[i]]
<1>7. f \in Surjection(1 .. n, keys)
  BY DEF Surjection
<1> HIDE DEF keys, f
<1>8. Cardinality(keys) <= n
  BY <1>6, <1>7, FS_Surjection
<1>9. IsFiniteSet(keys)
  BY <1>6, <1>7, FS_Surjection
<1>10. Cardinality(keys) \in Nat
  BY <1>9, FS_CardinalityType
<1>11. Cardinality(keys) <= MaxHeldKeys
  BY <1>2, <1>8, <1>10, InputAssumption
<1>12. keys = (held \cap Key) \cup (PartsOf(s) \cap Key)
  BY <1>4, <1>5 DEF keys
<1> QED BY <1>11, <1>12 DEF HasPlaceFor

\* HeldInput counts as we do.
LEMMA CountsAlike == \A S : Abstract!Cardinality(S) = Cardinality(S)
  BY DEF Abstract!Cardinality, Cardinality

\* The same for what a text reads as.
LEMMA ReadsAlike == \A text : Abstract!Normalised(text) = Normalised(text)
<1> SUFFICES ASSUME NEW text PROVE Abstract!Normalised(text) = Normalised(text)
  OBVIOUS
<1>1. Abstract!Kept(text) = Kept(text)
  BY DEF Abstract!Kept, Kept
<1>2. \A i : Abstract!KeptBefore(text, i) = KeptBefore(text, i)
  BY <1>1 DEF Abstract!KeptBefore, KeptBefore
<1>3. \A k : Abstract!Place(text, k) = Place(text, k)
  <2> SUFFICES ASSUME NEW k PROVE Abstract!Place(text, k) = Place(text, k)
    OBVIOUS
  <2>1. \A i : Abstract!Cardinality(Abstract!KeptBefore(text, i)) = k - 1
                <=> Cardinality(KeptBefore(text, i)) = k - 1
    BY <1>2, CountsAlike
  <2>2. \A i : (/\ i \in Abstract!Kept(text)
                /\ Abstract!Cardinality(Abstract!KeptBefore(text, i)) = k - 1)
                <=> (/\ i \in Kept(text)
                     /\ Cardinality(KeptBefore(text, i)) = k - 1)
    BY <1>1, <2>1
  <2>3. (CHOOSE i \in Abstract!Kept(text) :
           Abstract!Cardinality(Abstract!KeptBefore(text, i)) = k - 1)
        = CHOOSE i \in Kept(text) : Cardinality(KeptBefore(text, i)) = k - 1
    BY <2>2, Zenon
  <2> QED BY <2>3, Zenon DEF Abstract!Place, Place
<1>4. Abstract!Cardinality(Abstract!Kept(text)) = Cardinality(Kept(text))
  BY <1>1, CountsAlike
<1> QED BY <1>3, <1>4 DEF Abstract!Normalised, Normalised

-----------------------------------------------------------------------------
(* Texts, place by place.                                                  *)

\* How many places are read before one, and which is the next.
LEMMA PlacesInOrder ==
  ASSUME NEW text \in Seq(Char), NEW i \in Kept(text)
  PROVE  /\ Cardinality(KeptBefore(text, i)) \in Nat
         /\ Cardinality(KeptBefore(text, i)) + 1 <= Cardinality(Kept(text))
         /\ Cardinality(Kept(text)) \in Nat
         /\ Place(text, Cardinality(KeptBefore(text, i)) + 1) = i
         /\ Cardinality(KeptBefore(text, i) \cup {i}) = Cardinality(KeptBefore(text, i)) + 1
<1> DEFINE n == Len(text)
           before(j) == KeptBefore(text, j)
<1>1. n \in Nat /\ DOMAIN text = 1 .. n
  BY LenProperties
<1>2. Kept(text) \subseteq 1 .. n
  BY <1>1 DEF Kept
<1>3. IsFiniteSet(Kept(text))
  <2>1. IsFiniteSet(1 .. n)
    BY <1>1, FS_Interval
  <2> QED BY <1>2, <2>1, FS_Subset
<1>4. \A j : /\ before(j) \subseteq Kept(text)
             /\ \A k : k \in before(j) <=> k \in Kept(text) /\ k < j
  BY DEF KeptBefore
<1>5. \A j : IsFiniteSet(before(j))
  BY <1>3, <1>4, FS_Subset
<1> HIDE DEF n, before
<1>6. ASSUME NEW j \in Kept(text)
      PROVE  /\ Cardinality(before(j)) \in Nat
             /\ Cardinality(before(j) \cup {j}) = Cardinality(before(j)) + 1
             /\ IsFiniteSet(before(j) \cup {j})
  <2>1. j \notin before(j)
    BY <1>1, <1>2, <1>4
  <2> QED BY <1>5, <2>1, FS_AddElement, FS_CardinalityType
<1>7. ASSUME NEW S, IsFiniteSet(S), NEW j \in Kept(text), before(j) \cup {j} \subseteq S
      PROVE  Cardinality(before(j)) + 1 <= Cardinality(S)
  <2>1. Cardinality(before(j) \cup {j}) <= Cardinality(S)
    BY <1>7, FS_Subset
  <2> QED BY <1>6, <2>1
<1>8. ASSUME NEW j \in Kept(text), NEW k \in Kept(text), j < k
      PROVE  Cardinality(before(j)) # Cardinality(before(k))
  <2>1. before(j) \cup {j} \subseteq before(k)
    BY <1>1, <1>2, <1>4, <1>8
  <2>2. Cardinality(before(j)) + 1 <= Cardinality(before(k))
    BY <1>5, <1>7, <2>1
  <2>3. Cardinality(before(j)) \in Nat /\ Cardinality(before(k)) \in Nat
    BY <1>6
  <2> DEFINE a == Cardinality(before(j))
             b == Cardinality(before(k))
  <2> HIDE DEF a, b
  <2>4. a # b
    BY <2>2, <2>3 DEF a, b
  <2> QED BY <2>4 DEF a, b
<1>9. \A j \in Kept(text) : Cardinality(before(j)) = Cardinality(before(i)) => j = i
  <2> SUFFICES ASSUME NEW j \in Kept(text), j # i
               PROVE  Cardinality(before(j)) # Cardinality(before(i))
    OBVIOUS
  <2>1. j < i \/ i < j
    BY <1>1, <1>2
  <2> QED BY <1>8, <2>1
<1> DEFINE c == Cardinality(before(i))
<1>10. c \in Nat /\ c + 1 <= Cardinality(Kept(text)) /\ Cardinality(before(i) \cup {i}) = c + 1
  BY <1>3, <1>4, <1>6, <1>7
<1>11. Cardinality(Kept(text)) \in Nat
  BY <1>3, FS_CardinalityType
<1> DEFINE m == c + 1
<1>12. m - 1 = c
  <2>1. c \in Nat
    BY <1>10
  <2> HIDE DEF c
  <2> QED BY <2>1
<1>13. \A j \in Kept(text) : Cardinality(KeptBefore(text, j)) = m - 1 <=> j = i
  <2> HIDE DEF m
  <2> QED BY <1>9, <1>12 DEF before
<1> HIDE DEF m
<1>14. Place(text, m) = i
  BY <1>13 DEF Place
<1> QED BY <1>10, <1>11, <1>14 DEF before, m

\* The loop over a text goes from place to place, reading each; the first is one, if any.
LEMMA LoopGoesByPlaces ==
  ASSUME NEW text \in Seq(Char)
  PROVE  /\ IsPlace(text, 1)
         /\ \A i : IsPlace(text, i) => i \in Nat \ {0}
         /\ \A i : IsPlace(text, i) /\ ~(i > Len(text)) => i \in Kept(text)
         /\ \A i : IsPlace(text, i) /\ i > Len(text) => i = Len(text) + 1
         /\ \A i \in Kept(text) :
              /\ i \in DOMAIN text
              /\ IsPlace(text, i + Width(text, i))
              /\ KeptBefore(text, i + Width(text, i)) = KeptBefore(text, i) \cup {i}
         /\ KeptBefore(text, 1) = {}
         /\ KeptBefore(text, Len(text) + 1) = Kept(text)
<1> DEFINE n == Len(text)
<1>1. n \in Nat /\ DOMAIN text = 1 .. n
  BY LenProperties
<1>2. Kept(text) = {i \in 1 .. n : ~(text[i] = "LF" /\ i > 1 /\ text[i - 1] = "CR")}
  BY <1>1 DEF Kept
<1> HIDE DEF n
<1>3. IsPlace(text, 1)
  <2>1. CASE n = 0
    BY <2>1 DEF IsPlace, n
  <2>2. CASE n # 0
    <3>1. 1 \in 1 .. n /\ ~(1 > 1)
      BY <1>1, <2>2
    <3> QED BY <1>2, <3>1 DEF IsPlace
  <2> QED BY <2>1, <2>2
<1>4. \A i \in Kept(text) : i \in 1 .. n
  BY <1>2
<1>5. \A i : IsPlace(text, i) => i \in Nat \ {0}
  BY <1>1, <1>4 DEF IsPlace, n
<1>6. /\ \A i : IsPlace(text, i) /\ ~(i > n) => i \in Kept(text)
      /\ \A i : IsPlace(text, i) /\ i > n => i = n + 1
  BY <1>1, <1>4 DEF IsPlace, n
<1>7. ASSUME NEW i \in Kept(text)
      PROVE  /\ IsPlace(text, i + Width(text, i))
             /\ KeptBefore(text, i + Width(text, i)) = KeptBefore(text, i) \cup {i}
  <2>1. i \in 1 .. n
    BY <1>4
  <2>2. CASE text[i] = "CR" /\ i < n /\ text[i + 1] = "LF"
    <3>1. Width(text, i) = 2
      BY <2>2 DEF Width, n
    <3> DEFINE j == i + 1
               k == i + 2
    <3>2. j \in 1 .. n /\ j > 1 /\ j - 1 = i /\ k - 1 = j /\ k \in 1 .. n + 1
      BY <1>1, <2>1, <2>2
    <3>3. j \notin Kept(text)
      <4> HIDE DEF j
      <4>1. text[j] = "LF" /\ text[j - 1] = "CR"
        BY <2>2, <3>2 DEF j
      <4> QED BY <1>2, <3>2, <4>1
    <3>4. text[k - 1] # "CR"
      <4>1. text[j] = "LF"
        BY <2>2
      <4> HIDE DEF j, k
      <4>2. text[k - 1] = "LF"
        BY <3>2, <4>1
      <4> QED BY <4>2
    <3>5. IsPlace(text, k)
      <4> HIDE DEF j, k
      <4> QED BY <1>1, <1>2, <3>2, <3>4 DEF IsPlace, n
    <3>6. KeptBefore(text, k) = KeptBefore(text, i) \cup {i}
      <4>1. \A l \in 1 .. n : l < k <=> (l < i \/ l = i \/ l = j)
        BY <1>1, <2>1
      <4> HIDE DEF j, k
      <4> QED BY <1>4, <3>3, <4>1 DEF KeptBefore
    <3> QED BY <3>1, <3>5, <3>6
  <2>3. CASE ~(text[i] = "CR" /\ i < n /\ text[i + 1] = "LF")
    <3>1. Width(text, i) = 1
      BY <2>3 DEF Width, n
    <3> DEFINE j == i + 1
    <3>2. j \in 1 .. n + 1 /\ j - 1 = i /\ (j # n + 1 => i < n /\ j \in 1 .. n)
      BY <1>1, <2>1
    <3>3. IsPlace(text, j)
      <4>1. CASE j = n + 1
        BY <4>1 DEF IsPlace, n
      <4>2. CASE j # n + 1
        <5>1. ~(text[j] = "LF" /\ text[i] = "CR")
          BY <2>3, <3>2, <4>2
        <5> HIDE DEF j
        <5>2. j \in Kept(text)
          BY <1>2, <3>2, <4>2, <5>1
        <5> QED BY <5>2 DEF IsPlace
      <4> QED BY <4>1, <4>2
    <3>4. KeptBefore(text, j) = KeptBefore(text, i) \cup {i}
      <4>1. \A l \in 1 .. n : l < j <=> (l < i \/ l = i)
        BY <1>1, <2>1
      <4> HIDE DEF j
      <4> QED BY <1>4, <4>1 DEF KeptBefore
    <3> QED BY <3>1, <3>3, <3>4
  <2> QED BY <2>2, <2>3
<1>8. KeptBefore(text, 1) = {} /\ KeptBefore(text, n + 1) = Kept(text)
  <2>1. \A l \in 1 .. n : ~(l < 1) /\ l < n + 1
    BY <1>1
  <2> QED BY <1>4, <2>1 DEF KeptBefore
<1>9. \A i \in Kept(text) : i \in DOMAIN text
  BY <1>1, <1>4
<1> QED BY <1>3, <1>5, <1>6, <1>7, <1>8, <1>9 DEF n

\* What the host reads of the stroke for a character is the character, when it has the
\* Caps Lock state that the stroke was made for.
LEMMA ReadAsMeant ==
  ASSUME NEW char \in Supported, NEW caps \in BOOLEAN
  PROVE  LET view == View(KeyDown(Idle, Keystroke(char, caps)))
         IN  /\ view # {}
             /\ Read(view, caps) = IF char = "CR" THEN "LF" ELSE char
<1> DEFINE shift == IsShifted(char) # (caps /\ char \in Letter)
           stroke == Keystroke(char, caps)
           view == View(KeyDown(Idle, stroke))
           key == KeyOf(char)
<1>1. char \in {"a", "A", "1", "!", "CR", "LF"}
  BY DEF Supported, Char
<1>2. stroke = [modifiers |-> IF shift THEN {"LeftShift"} ELSE {}, key |-> key]
  BY DEF Keystroke, StrokeOf
<1>3. /\ key = IF char \in {"a", "A"} THEN "KeyA"
               ELSE IF char \in {"1", "!"} THEN "Key1" ELSE "Enter"
      /\ key \in Key /\ key # None /\ key # "LeftShift"
  BY <1>1, ExecutionAssumption, InputAssumption, KindsAssumption DEF KeyOf, Letter, Characters
<1>4. stroke \in Stroke
  BY <1>2, <1>3, ExecutionAssumption DEF Stroke
<1>5. view = {} \cup PartsOf(stroke)
  BY <1>4, IdleIsKeyboard, ViewOfKeyDown
<1>6. view = (IF shift THEN {"LeftShift"} ELSE {}) \cup {key}
  BY <1>2, <1>3, <1>5 DEF PartsOf
<1>7. "LeftShift" \in view <=> shift
  BY <1>3, <1>6
<1>8. /\ "KeyA" \in view <=> char \in {"a", "A"}
      /\ "Key1" \in view <=> char \in {"1", "!"}
      /\ "Enter" \in view <=> char \in {"CR", "LF"}
  BY <1>1, <1>3, <1>6
<1> HIDE DEF view
<1>9. Read(view, caps) = IF char = "CR" THEN "LF" ELSE char
  <2>1. CASE char \in {"a", "A"}
    <3>1. shift <=> ((char = "A") # caps)
      BY <2>1 DEF IsShifted, Letter
    <3>2. Read(view, caps) = IF shift # caps THEN "A" ELSE "a"
      BY <1>7, <1>8, <2>1 DEF Read
    <3>3. CASE char = "A"
      BY <3>1, <3>2, <3>3
    <3>4. CASE char = "a"
      BY <3>1, <3>2, <3>4
    <3> QED BY <2>1, <3>3, <3>4
  <2>2. CASE char \in {"1", "!"}
    <3>1. shift <=> char = "!"
      BY <2>2 DEF IsShifted, Letter
    <3>2. Read(view, caps) = IF shift THEN "!" ELSE "1"
      BY <1>7, <1>8, <2>2 DEF Read
    <3> QED BY <2>2, <3>1, <3>2
  <2>3. CASE char \in {"CR", "LF"}
    BY <1>8, <2>3 DEF Read
  <2> QED BY <1>1, <2>1, <2>2, <2>3
<1> QED BY <1>6, <1>9 DEF view

\* At the first place nothing is read, and at the end everything.
LEMMA ReadAtEnds ==
  ASSUME NEW text \in Seq(Char)
  PROVE  /\ HasRead(<<>>, text, 1)
         /\ \A read : HasRead(read, text, Len(text) + 1) =>
              read = [k \in DOMAIN Normalised(text) |-> {Normalised(text)[k]}]
<1>1. KeptBefore(text, 1) = {} /\ KeptBefore(text, Len(text) + 1) = Kept(text)
  BY LoopGoesByPlaces
<1>2. HasRead(<<>>, text, 1)
  <2>1. Cardinality(KeptBefore(text, 1)) = 0
    BY <1>1, FS_EmptySet
  <2>2. <<>> \in Seq(SUBSET Char) /\ Len(<<>>) = 0 /\ DOMAIN <<>> = {}
    OBVIOUS
  <2> QED BY <2>1, <2>2 DEF HasRead
<1>3. ASSUME NEW read, HasRead(read, text, Len(text) + 1)
      PROVE  read = [k \in DOMAIN Normalised(text) |-> {Normalised(text)[k]}]
  <2> DEFINE sent == Normalised(text)
  <2>1. DOMAIN sent = 1 .. Cardinality(Kept(text))
    BY DEF Normalised
  <2>2. /\ read \in Seq(SUBSET Char) /\ Len(read) = Cardinality(Kept(text))
        /\ \A k \in DOMAIN read : read[k] = {sent[k]}
    BY <1>1, <1>3 DEF HasRead
  <2> HIDE DEF sent
  <2>3. DOMAIN read = DOMAIN sent /\ read = [k \in DOMAIN read |-> read[k]]
    BY <2>1, <2>2, LenProperties
  <2> QED BY <2>2, <2>3 DEF sent
<1> QED BY <1>2, <1>3

\* One more stroke is one more character.
LEMMA ReadsOn ==
  ASSUME NEW text \in Seq(Char), NEW i \in Kept(text), NEW read, HasRead(read, text, i)
  PROVE  HasRead(Append(read, {IF text[i] = "CR" THEN "LF" ELSE text[i]}),
                 text, i + Width(text, i))
<1> DEFINE n == Len(read)
           m == n + 1
           x == IF text[i] = "CR" THEN "LF" ELSE text[i]
           next == Append(read, {x})
           c == Cardinality(KeptBefore(text, i))
           place == i + Width(text, i)
           sent == Normalised(text)
<1>1. /\ read \in Seq(SUBSET Char) /\ n = c
      /\ \A k \in DOMAIN read : read[k] = {sent[k]}
  BY DEF HasRead
<1>2. /\ c \in Nat /\ c + 1 <= Cardinality(Kept(text)) /\ Cardinality(Kept(text)) \in Nat
      /\ Place(text, c + 1) = i /\ Cardinality(KeptBefore(text, i) \cup {i}) = c + 1
  BY PlacesInOrder
<1>3. KeptBefore(text, place) = KeptBefore(text, i) \cup {i} /\ i \in DOMAIN text
  BY LoopGoesByPlaces
<1>4. x \in Char
  <2>1. text[i] \in Char /\ "LF" \in Char
    BY <1>3 DEF Char
  <2> QED BY <2>1
<1>5. sent[m] = x
  <2>1. m \in 1 .. Cardinality(Kept(text))
    <3> HIDE DEF c, n
    <3> QED BY <1>1, <1>2
  <2>2. Place(text, m) = i
    BY <1>1, <1>2
  <2> HIDE DEF m
  <2> QED BY <2>1, <2>2 DEF Normalised
<1>6. /\ next \in Seq(SUBSET Char) /\ Len(next) = m /\ DOMAIN next = 1 .. m
      /\ \A k \in 1 .. n : next[k] = read[k]
      /\ next[m] = {x} /\ DOMAIN read = 1 .. n /\ n \in Nat
  <2>1. {x} \in SUBSET Char
    BY <1>4
  <2> HIDE DEF x
  <2> QED BY <1>1, <2>1, AppendProperties, LenProperties
<1>7. Len(next) = Cardinality(KeptBefore(text, place))
  BY <1>1, <1>2, <1>3, <1>6
<1> HIDE DEF n, m, x, next, c, place, sent
<1>8. \A k \in DOMAIN next : next[k] = {sent[k]}
  <2> SUFFICES ASSUME NEW k \in 1 .. m PROVE next[k] = {sent[k]}
    BY <1>6
  <2>1. k \in 1 .. n \/ k = m
    BY <1>6 DEF m
  <2> QED BY <1>1, <1>5, <1>6, <2>1
<1>9. HasRead(next, text, place)
  BY <1>6, <1>7, <1>8 DEF HasRead, sent
<1> QED BY <1>9 DEF next, x, place

\* Wherever the loop is, the host has read a beginning.
LEMMA ReadIsBeginning ==
  ASSUME NEW text \in Seq(Char), NEW i, IsPlace(text, i), NEW read, HasRead(read, text, i)
  PROVE  /\ Len(read) <= Len(Normalised(text))
         /\ \A k \in DOMAIN read : read[k] = {Normalised(text)[k]}
<1> DEFINE c == Cardinality(Kept(text))
<1>1. c \in Nat
  <2>1. Len(text) \in Nat /\ DOMAIN text = 1 .. Len(text)
    BY LenProperties
  <2>2. IsFiniteSet(1 .. Len(text))
    BY <2>1, FS_Interval
  <2>3. Kept(text) \in SUBSET (1 .. Len(text))
    BY <2>1 DEF Kept
  <2> QED BY <2>2, <2>3, FS_Subset, FS_CardinalityType
<1>2. Len(Normalised(text)) = c
  <2>1. Normalised(text) = [k \in 1 .. c |-> Normalised(text)[k]]
    BY DEF Normalised
  <2> HIDE DEF c
  <2> QED BY <1>1, <2>1
<1>3. Len(read) <= c
  <2>1. CASE i \in Kept(text)
    <3>1. Cardinality(KeptBefore(text, i)) \in Nat
          /\ Cardinality(KeptBefore(text, i)) + 1 <= c
      BY <2>1, PlacesInOrder
    <3>2. Len(read) = Cardinality(KeptBefore(text, i))
      BY DEF HasRead
    <3> HIDE DEF c
    <3> QED BY <1>1, <3>1, <3>2
  <2>2. CASE i = Len(text) + 1
    <3>1. Len(read) = c
      BY <2>2, LoopGoesByPlaces DEF HasRead
    <3> HIDE DEF c
    <3> QED BY <1>1, <3>1
  <2> QED BY <2>1, <2>2 DEF IsPlace
<1> QED BY <1>2, <1>3 DEF HasRead

-----------------------------------------------------------------------------
(* The begin of a command.                                                 *)

\* A command's steps stand between two looks at cancellation.
LEMMA BodyFromEnd ==
  ASSUME NEW S, NEW body \in Seq(S)
  PROVE  LET s == <<Check>> \o body \o <<Check>>
             n == Len(body)
         IN  /\ Len(s) = n + 2 /\ FromEnd(s, 0) = Check /\ FromEnd(s, n + 1) = Check
             /\ \A k \in 1 .. n : FromEnd(s, k) = body[n + 1 - k]
<1> DEFINE T == S \cup {Check}
           n == Len(body)
           s == <<Check>> \o body \o <<Check>>
<1>1. Check \in T /\ body \in Seq(T) /\ n \in Nat
  OBVIOUS
<1> HIDE DEF T
<1>2. /\ Len(s) = n + 2 /\ s[1] = Check /\ s[n + 2] = Check
      /\ \A i \in 1 .. n : s[i + 1] = body[i]
  BY <1>1
<1> HIDE DEF s
<1>3. ASSUME NEW k \in 0 .. n + 1
      PROVE  FromEnd(s, k) = IF k \in {0, n + 1} THEN Check ELSE body[n + 1 - k]
  <2> DEFINE i == n + 2 - k
             j == n + 1 - k
  <2> HIDE DEF n
  <2>1. /\ j + 1 = i /\ (k = 0 => i = n + 2) /\ (k = n + 1 => i = 1)
        /\ (k \notin {0, n + 1} => j \in 1 .. n)
    BY <1>1
  <2>2. FromEnd(s, k) = s[i]
    BY <1>1, <1>2 DEF FromEnd
  <2> HIDE DEF i, j
  <2> QED BY <1>2, <2>1, <2>2 DEF j
<1>4. 0 \in 0 .. n + 1 /\ n + 1 \in 0 .. n + 1
  <2> HIDE DEF n
  <2> QED BY <1>1
<1>5. \A k \in 1 .. n : k \in 0 .. n + 1 /\ k \notin {0, n + 1}
  <2> HIDE DEF n
  <2> QED BY <1>1
<1> QED BY <1>2, <1>3, <1>4, <1>5 DEF s

\* A command looks at cancellation first and last.
BetweenLooks(s, t) == s = <<Check>> \o t \o <<Check>>

\* A command of one report, of two, and of three.
LEMMA ShortFromEnd ==
  ASSUME NEW S, NEW t \in Seq(S), NEW s, BetweenLooks(s, t)
  PROVE  /\ Len(t) = 1 => /\ Len(s) = 3 /\ FromEnd(s, 0) = Check
                          /\ FromEnd(s, 1) = t[1] /\ FromEnd(s, 2) = Check
         /\ Len(t) = 3 => /\ Len(s) = 5 /\ FromEnd(s, 0) = Check
                          /\ FromEnd(s, 1) = t[3] /\ FromEnd(s, 2) = t[2]
                          /\ FromEnd(s, 3) = t[1] /\ FromEnd(s, 4) = Check
         /\ Len(t) = 5 => /\ Len(s) = 7 /\ FromEnd(s, 0) = Check
                          /\ FromEnd(s, 1) = t[5] /\ FromEnd(s, 2) = t[4]
                          /\ FromEnd(s, 3) = t[3] /\ FromEnd(s, 4) = t[2]
                          /\ FromEnd(s, 5) = t[1] /\ FromEnd(s, 6) = Check
<1>1. /\ Len(s) = Len(t) + 2 /\ FromEnd(s, 0) = Check /\ FromEnd(s, Len(t) + 1) = Check
      /\ \A k \in 1 .. Len(t) : FromEnd(s, k) = t[Len(t) + 1 - k]
  BY BodyFromEnd DEF BetweenLooks
<1>2. CASE Len(t) = 1
  <2>1. 1 \in 1 .. 1 /\ 1 + 1 - 1 = 1 /\ 1 + 1 = 2 /\ 1 + 2 = 3
    OBVIOUS
  <2> QED BY <1>1, <1>2, <2>1
<1>3. CASE Len(t) = 3
  <2>1. /\ 1 \in 1 .. 3 /\ 2 \in 1 .. 3 /\ 3 \in 1 .. 3
        /\ 3 + 1 - 1 = 3 /\ 3 + 1 - 2 = 2 /\ 3 + 1 - 3 = 1 /\ 3 + 1 = 4 /\ 3 + 2 = 5
    OBVIOUS
  <2> QED BY <1>1, <1>3, <2>1
<1>4. CASE Len(t) = 5
  <2>1. /\ 1 \in 1 .. 5 /\ 2 \in 1 .. 5 /\ 3 \in 1 .. 5 /\ 4 \in 1 .. 5 /\ 5 \in 1 .. 5
        /\ 5 + 1 - 1 = 5 /\ 5 + 1 - 2 = 4 /\ 5 + 1 - 3 = 3 /\ 5 + 1 - 4 = 2
        /\ 5 + 1 - 5 = 1 /\ 5 + 1 = 6 /\ 5 + 2 = 7
    OBVIOUS
  <2> QED BY <1>1, <1>4, <2>1
<1> QED BY <1>2, <1>3, <1>4

\* A function on so many numbers is a sequence.
LEMMA SequenceOfLength ==
  ASSUME NEW S, NEW n \in Nat, NEW t \in [1 .. n -> S]
  PROVE  t \in Seq(S) /\ Len(t) = n
OBVIOUS

\* What the steps of one report lead to, of two, and of three.
LEMMA OneReportLeads ==
  ASSUME NEW interface \in {"keyboard", "mouse"}, NEW a,
         a.do = interface, NEW seen
  PROVE  \A s : s = <<Check>> \o <<a>> \o <<Check>> =>
           /\ IsPulse(s, interface) /\ FinallyShown(s, seen) = Shown(a)
           /\ FinallyStruck(s, seen, <<>>)
                = Struck(<<>>, seen, Shown(a))
<1> DEFINE t == <<a>>
           s == <<Check>> \o t \o <<Check>>
<1>1. /\ Len(s) = 3 /\ FromEnd(s, 0) = Check
      /\ FromEnd(s, 1) = a
      /\ FromEnd(s, 2) = Check
  <2>1. t = <<a>>
    OBVIOUS
  <2>2. BetweenLooks(s, t)
    BY DEF BetweenLooks
  <2> HIDE DEF t, s
  <2>3. /\ t \in Seq({a}) /\ Len(t) = 1
        /\ t[1] = a
    BY <2>1
  <2> QED BY <2>2, <2>3, ShortFromEnd
<1> HIDE DEF s
<1>2. Check.do = "check" /\ Delay.do = "delay"
  BY DEF Check, Delay
<1>3. IsPulse(s, interface)
  <2>1. \A k \in 0 .. 3 - 1 : k \in {0, 1, 2}
    OBVIOUS
  <2> QED BY <1>1, <1>2, <2>1 DEF IsPulse
<1>4. /\ FinallyShown(s, seen) = Shown(a)
      /\ FinallyStruck(s, seen, <<>>)
           = Struck(<<>>, seen, Shown(a))
  BY <1>1 DEF FinallyShown, FinallyStruck
<1> QED BY <1>3, <1>4 DEF s

LEMMA TwoReportsLead ==
  ASSUME NEW interface \in {"keyboard", "mouse"}, NEW S, NEW sent \in Seq(S), Len(sent) = 2,
         sent[1].do = interface, sent[2].do = interface, NEW seen
  PROVE  \A s : s = <<Check>> \o Pulse(sent) \o <<Check>> =>
           /\ IsPulse(s, interface) /\ FinallyShown(s, seen) = Shown(sent[2])
           /\ FinallyStruck(s, seen, <<>>)
                = Struck(Struck(<<>>, seen, Shown(sent[1])), Shown(sent[1]), Shown(sent[2]))
<1> DEFINE t == Pulse(sent)
           s == <<Check>> \o t \o <<Check>>
<1>1. /\ Len(s) = 5 /\ FromEnd(s, 0) = Check
      /\ FromEnd(s, 1) = sent[2] /\ FromEnd(s, 2) = Delay /\ FromEnd(s, 3) = sent[1]
      /\ FromEnd(s, 4) = Check
  <2>1. t = [i \in 1 .. 3 |-> IF i % 2 = 0 THEN Delay ELSE sent[(i + 1) \div 2]]
    <3>1. 2 * Len(sent) - 1 = 3
      OBVIOUS
    <3> QED BY <3>1 DEF Pulse
  <2>2. BetweenLooks(s, t)
    BY DEF BetweenLooks
  <2> HIDE DEF t, s
  <2>3. /\ t[1] = sent[1] /\ t[2] = Delay /\ t[3] = sent[2]
    <3>1. /\ 1 % 2 = 1 /\ (1 + 1) \div 2 = 1 /\ 2 % 2 = 0 /\ 3 % 2 = 1 /\ (3 + 1) \div 2 = 2
          /\ 1 \in 1 .. 3 /\ 2 \in 1 .. 3 /\ 3 \in 1 .. 3
      OBVIOUS
    <3> QED BY <2>1, <3>1
  <2>4. t \in Seq(S \cup {Delay}) /\ Len(t) = 3
    <3>1. \A i \in 1 .. 3 : t[i] \in S \cup {Delay}
      <4>1. \A i \in 1 .. 3 : i \in {1, 2, 3}
        OBVIOUS
      <4>2. sent[1] \in S /\ sent[2] \in S
        <5>1. 1 \in 1 .. Len(sent) /\ 2 \in 1 .. Len(sent)
          OBVIOUS
        <5> QED BY <5>1, ElementOfSeq
      <4> QED BY <2>3, <4>1, <4>2
    <3> DEFINE T == S \cup {Delay}
    <3>2. t = [i \in 1 .. 3 |-> t[i]] /\ \A i \in 1 .. 3 : t[i] \in T
      BY <2>1, <3>1
    <3> HIDE DEF T
    <3> DEFINE n == 3
    <3>3. n \in Nat /\ t = [i \in 1 .. n |-> t[i]] /\ \A i \in 1 .. n : t[i] \in T
      BY <3>2
    <3> HIDE DEF n
    <3>4. t \in Seq(T) /\ Len(t) = n
      <4>1. t \in [1 .. n -> T]
        BY <3>3
      <4> QED BY <3>3, <4>1, SequenceOfLength
    <3> QED BY <3>4 DEF T, n
  <2> DEFINE T == S \cup {Delay}
  <2>5. t \in Seq(T)
    BY <2>4
  <2> HIDE DEF T
  <2>6. Len(t) = 3
    BY <2>4
  <2>7. /\ Len(s) = 5 /\ FromEnd(s, 0) = Check
        /\ FromEnd(s, 1) = t[3] /\ FromEnd(s, 2) = t[2] /\ FromEnd(s, 3) = t[1]
        /\ FromEnd(s, 4) = Check
    <3>1. Len(t) = 3 => /\ Len(s) = 5 /\ FromEnd(s, 0) = Check
                        /\ FromEnd(s, 1) = t[3] /\ FromEnd(s, 2) = t[2]
                        /\ FromEnd(s, 3) = t[1] /\ FromEnd(s, 4) = Check
      BY <2>2, <2>5, ShortFromEnd
    <3> QED BY <2>6, <3>1
  <2> QED BY <2>3, <2>7
<1> HIDE DEF s
<1>2. Check.do = "check" /\ Delay.do = "delay"
  BY DEF Check, Delay
<1>3. IsPulse(s, interface)
  <2>1. \A k \in 0 .. 5 - 1 : k \in {0, 1, 2, 3, 4}
    OBVIOUS
  <2> QED BY <1>1, <1>2, <2>1 DEF IsPulse
<1>4. /\ FinallyShown(s, seen) = Shown(sent[2])
      /\ FinallyStruck(s, seen, <<>>)
           = Struck(Struck(<<>>, seen, Shown(sent[1])), Shown(sent[1]), Shown(sent[2]))
  BY <1>1 DEF FinallyShown, FinallyStruck
<1> QED BY <1>3, <1>4 DEF s

LEMMA ThreeReportsLead ==
  ASSUME NEW interface \in {"keyboard", "mouse"}, NEW S, NEW sent \in Seq(S), Len(sent) = 3,
         sent[1].do = interface, sent[2].do = interface, sent[3].do = interface, NEW seen
  PROVE  \A s : s = <<Check>> \o Pulse(sent) \o <<Check>> =>
           /\ IsPulse(s, interface) /\ FinallyShown(s, seen) = Shown(sent[3])
           /\ FinallyStruck(s, seen, <<>>)
                = Struck(Struck(Struck(<<>>, seen, Shown(sent[1])), Shown(sent[1]), Shown(sent[2])),
                         Shown(sent[2]), Shown(sent[3]))
<1> DEFINE t == Pulse(sent)
           s == <<Check>> \o t \o <<Check>>
<1>1. /\ Len(s) = 7 /\ FromEnd(s, 0) = Check
      /\ FromEnd(s, 1) = sent[3] /\ FromEnd(s, 2) = Delay /\ FromEnd(s, 3) = sent[2]
      /\ FromEnd(s, 4) = Delay /\ FromEnd(s, 5) = sent[1]
      /\ FromEnd(s, 6) = Check
  <2>1. t = [i \in 1 .. 5 |-> IF i % 2 = 0 THEN Delay ELSE sent[(i + 1) \div 2]]
    <3>1. 2 * Len(sent) - 1 = 5
      OBVIOUS
    <3> QED BY <3>1 DEF Pulse
  <2>2. BetweenLooks(s, t)
    BY DEF BetweenLooks
  <2> HIDE DEF t, s
  <2>3. /\ t[1] = sent[1] /\ t[2] = Delay /\ t[3] = sent[2] /\ t[4] = Delay /\ t[5] = sent[3]
    <3>1. /\ 1 % 2 = 1 /\ (1 + 1) \div 2 = 1 /\ 2 % 2 = 0
          /\ 3 % 2 = 1 /\ (3 + 1) \div 2 = 2 /\ 4 % 2 = 0
          /\ 5 % 2 = 1 /\ (5 + 1) \div 2 = 3
          /\ 1 \in 1 .. 5 /\ 2 \in 1 .. 5 /\ 3 \in 1 .. 5 /\ 4 \in 1 .. 5 /\ 5 \in 1 .. 5
      OBVIOUS
    <3> QED BY <2>1, <3>1
  <2>4. t \in Seq(S \cup {Delay}) /\ Len(t) = 5
    <3>1. \A i \in 1 .. 5 : t[i] \in S \cup {Delay}
      <4>1. \A i \in 1 .. 5 : i \in {1, 2, 3, 4, 5}
        OBVIOUS
      <4>2. sent[1] \in S /\ sent[2] \in S /\ sent[3] \in S
        <5>1. 1 \in 1 .. Len(sent) /\ 2 \in 1 .. Len(sent) /\ 3 \in 1 .. Len(sent)
          OBVIOUS
        <5> QED BY <5>1, ElementOfSeq
      <4> QED BY <2>3, <4>1, <4>2
    <3> DEFINE T == S \cup {Delay}
    <3>2. t = [i \in 1 .. 5 |-> t[i]] /\ \A i \in 1 .. 5 : t[i] \in T
      BY <2>1, <3>1
    <3> HIDE DEF T
    <3> DEFINE n == 5
    <3>3. n \in Nat /\ t = [i \in 1 .. n |-> t[i]] /\ \A i \in 1 .. n : t[i] \in T
      BY <3>2
    <3> HIDE DEF n
    <3>4. t \in Seq(T) /\ Len(t) = n
      <4>1. t \in [1 .. n -> T]
        BY <3>3
      <4> QED BY <3>3, <4>1, SequenceOfLength
    <3> QED BY <3>4 DEF T, n
  <2> DEFINE T == S \cup {Delay}
  <2>5. t \in Seq(T)
    BY <2>4
  <2> HIDE DEF T
  <2>6. Len(t) = 5
    BY <2>4
  <2>7. /\ Len(s) = 7 /\ FromEnd(s, 0) = Check
        /\ FromEnd(s, 1) = t[5] /\ FromEnd(s, 2) = t[4] /\ FromEnd(s, 3) = t[3]
        /\ FromEnd(s, 4) = t[2] /\ FromEnd(s, 5) = t[1] /\ FromEnd(s, 6) = Check
    <3>1. Len(t) = 5 => /\ Len(s) = 7 /\ FromEnd(s, 0) = Check
                        /\ FromEnd(s, 1) = t[5] /\ FromEnd(s, 2) = t[4]
                        /\ FromEnd(s, 3) = t[3] /\ FromEnd(s, 4) = t[2]
                        /\ FromEnd(s, 5) = t[1] /\ FromEnd(s, 6) = Check
      BY <2>2, <2>5, ShortFromEnd
    <3> QED BY <2>6, <3>1
  <2> QED BY <2>3, <2>7
<1> HIDE DEF s
<1>2. Check.do = "check" /\ Delay.do = "delay"
  BY DEF Check, Delay
<1>3. IsPulse(s, interface)
  <2>1. \A k \in 0 .. 7 - 1 : k \in {0, 1, 2, 3, 4, 5, 6}
    OBVIOUS
  <2> QED BY <1>1, <1>2, <2>1 DEF IsPulse
<1>4. /\ FinallyShown(s, seen) = Shown(sent[3])
      /\ FinallyStruck(s, seen, <<>>)
           = Struck(Struck(Struck(<<>>, seen, Shown(sent[1])), Shown(sent[1]), Shown(sent[2])),
                         Shown(sent[2]), Shown(sent[3]))
  BY <1>1 DEF FinallyShown, FinallyStruck
<1> QED BY <1>3, <1>4 DEF s

\* Strokes from none.
LEMMA StruckFirst ==
  ASSUME NEW seen, NEW shown
  PROVE  Struck(<<>>, seen, shown) = PressedOf(shown \ seen)
<1>1. \A x : Append(<<>>, x) = <<x>>
  BY SMT
<1> QED BY <1>1 DEF Struck, PressedOf

\* What shows nothing new strikes nothing.
LEMMA StruckNothing ==
  ASSUME NEW seen, NEW shown, shown \subseteq seen, NEW strokes
  PROVE  Struck(strokes, seen, shown) = strokes
BY DEF Struck

\* What a tap strikes, in sets: when nothing of it is held, and when it is let go first.
LEMMA TapStrikes ==
  ASSUME NEW k \in KeyboardState, NEW s \in Stroke, NEW mouse \in SUBSET Button
  PROVE  LET seen == View(k)
             other == [s EXCEPT !.modifiers = IF s.key = None THEN @ ELSE {}]
             up == seen \ PartsOf(other)
         IN  /\ other \in Stroke
             /\ ~StrikesHeld(k, s) =>
                  PartsOf(s) \ seen = StruckOf(seen \cup mouse, s)
             /\ StrikesHeld(k, s) =>
                  /\ (up \cup PartsOf(s)) \ up = StruckOf(seen \cup mouse, s)
                  /\ seen \subseteq up \cup PartsOf(s)
<1> DEFINE seen == View(k)
           other == [s EXCEPT !.modifiers = IF s.key = None THEN @ ELSE {}]
           up == seen \ PartsOf(other)
           mods == s.modifiers
           key == s.key
<1>1. mods \subseteq Modifier /\ key \in Key \cup {None}
  BY DEF Stroke
<1>2. other \in Stroke /\ other.key = key /\ other.modifiers = IF key = None THEN mods ELSE {}
  BY DEF Stroke
<1>3. /\ seen \cap Modifier = k.modifiers
      /\ key # None => (HoldsKey(k, key) <=> key \in seen)
      /\ seen \subseteq Modifier \cup Key
  BY <1>1, ViewOfKeyboard
<1>4. PartsOf(s) = mods \cup ({key} \ {None})
  BY DEF PartsOf
<1>5. PartsOf(other) = IF key = None THEN mods ELSE {key}
  BY <1>2 DEF PartsOf
<1>6. StruckOf(seen \cup mouse, s)
        = IF key = None THEN mods ELSE {key} \cup (mods \ (seen \cup mouse))
  BY DEF StruckOf
<1>7. StrikesHeld(k, s) <=> IF key = None THEN k.modifiers \cap mods # {} ELSE HoldsKey(k, key)
  BY DEF StrikesHeld
<1> HIDE DEF seen, other, mods, key
<1>8. key # None => key \notin mods
  BY <1>1, KindsAssumption
<1>9. mods \cap mouse = {}
  BY <1>1, KindsAssumption
<1>10. CASE key = None
  BY <1>1, <1>2, <1>3, <1>4, <1>5, <1>6, <1>7, <1>10 DEF seen, other
<1>11. CASE key # None
  <2>1. PartsOf(s) = mods \cup {key} /\ PartsOf(other) = {key} /\ up = seen \ {key}
    BY <1>4, <1>5, <1>11
  <2>2. StruckOf(seen \cup mouse, s) = {key} \cup (mods \ seen)
    BY <1>6, <1>9, <1>11
  <2>3. StrikesHeld(k, s) <=> key \in seen
    BY <1>3, <1>7, <1>11
  <2> HIDE DEF up
  <2>4. ~StrikesHeld(k, s) => PartsOf(s) \ seen = StruckOf(seen \cup mouse, s)
    BY <2>1, <2>2, <2>3
  <2>5. (up \cup PartsOf(s)) \ up = StruckOf(seen \cup mouse, s)
    BY <2>1, <2>2, <1>8, <1>11
  <2>6. seen \subseteq up \cup PartsOf(s)
    BY <2>1
  <2> QED BY <1>2, <2>4, <2>5, <2>6 DEF seen, other, up
<1> QED BY <1>10, <1>11

\* The reports of a key, begun, keep its promise.
LEMMA KeysPromise ==
  ASSUME NEW c \in Command, c.type \in OfKey, NEW state \in InputValue, ~Refuses(c, state)
  PROVE  LET s == <<Check>> \o Body(c, state) \o <<Check>>
             seen == View(state.keyboard)
         IN  /\ IsPulse(s, "keyboard")
             /\ Promised(seen \cup state.mouse, c, FinallyShown(s, seen) \cup state.mouse,
                         FinallyStruck(s, seen, <<>>), <<0, 0, 0>>)
<1> DEFINE body == Body(c, state)
           s == <<Check>> \o body \o <<Check>>
           k == state.keyboard
           mouse == state.mouse
           seen == View(k)
           stroke == c.stroke
<1>1. k \in KeyboardState /\ mouse \in SUBSET Button /\ stroke \in Stroke
  BY CommandShape DEF InputValue
<1>2. seen \subseteq Modifier \cup Key
  BY <1>1, ViewOfKeyboard
<1>3. (seen \cup mouse) \cap Key = seen \cap Key
  <2> HIDE DEF seen, mouse
  <2> QED BY <1>1, KindsAssumption
<1>4. PartsOf(stroke) \cap mouse = {}
  <2>1. PartsOf(stroke) \subseteq Modifier \cup Key
    BY <1>1 DEF PartsOf, Stroke
  <2> HIDE DEF mouse, stroke
  <2> QED BY <1>1, <2>1, KindsAssumption
<1>r. ASSUME NEW r
      PROVE  KeyboardReport(r).do = "keyboard" /\ Shown(KeyboardReport(r)) = View(r)
  BY DEF KeyboardReport, Shown
<1>5. ASSUME NEW strokes, NEW after, after = View(k) \cup PartsOf(stroke)
      PROVE  /\ after \cup mouse = (seen \cup mouse) \cup PartsOf(stroke)
             /\ after \ seen = PartsOf(stroke) \ (seen \cup mouse)
  <2>1. after = seen \cup PartsOf(stroke)
    BY <1>5
  <2> HIDE DEF seen, mouse
  <2> QED BY <2>1, <1>4
<1>6. CASE c.type = "KeyDown"
  <2> DEFINE r == KeyDown(k, stroke)
             a == KeyboardReport(r)
  <2>1. CanKeyDown(k, stroke) /\ body = <<a>>
    BY <1>6 DEF Refuses, Body
  <2>2. HasPlaceFor(seen \cup mouse, stroke)
    BY <1>1, <1>3, <2>1, PlaceIsThere
  <2>3. View(r) = seen \cup PartsOf(stroke) /\ a.do = "keyboard" /\ Shown(a) = View(r)
    BY <1>1, <1>r, ViewOfKeyDown
  <2>s. s = <<Check>> \o <<a>> \o <<Check>>
    BY <2>1
  <2> HIDE DEF a, body, s
  <2>4. /\ IsPulse(s, "keyboard") /\ FinallyShown(s, seen) = Shown(a)
        /\ FinallyStruck(s, seen, <<>>) = Struck(<<>>, seen, Shown(a))
    BY <2>s, <2>3, OneReportLeads
  <2>5. FinallyStruck(s, seen, <<>>) = PressedOf(PartsOf(stroke) \ (seen \cup mouse))
    BY <2>3, <2>4, <1>5, StruckFirst
  <2>6. FinallyShown(s, seen) \cup mouse = (seen \cup mouse) \cup PartsOf(stroke)
    BY <2>3, <2>4, <1>5
  <2> HIDE DEF s, seen, mouse
  <2>7. Promised(seen \cup mouse, c, FinallyShown(s, seen) \cup mouse,
                 FinallyStruck(s, seen, <<>>), <<0, 0, 0>>)
    BY <1>6, <2>2, <2>5, <2>6 DEF Promised
  <2> QED BY <2>4, <2>7 DEF s, seen, mouse, body
<1>7. CASE c.type = "KeyUp"
  <2> DEFINE r == KeyUp(k, stroke)
             a == KeyboardReport(r)
  <2>1. body = <<a>>
    BY <1>7 DEF Body
  <2>3. View(r) = seen \ PartsOf(stroke) /\ a.do = "keyboard" /\ Shown(a) = View(r)
    BY <1>1, <1>r, ViewOfKeyUp
  <2>s. s = <<Check>> \o <<a>> \o <<Check>>
    BY <2>1
  <2> HIDE DEF a, body, s
  <2>4. /\ IsPulse(s, "keyboard") /\ FinallyShown(s, seen) = Shown(a)
        /\ FinallyStruck(s, seen, <<>>) = Struck(<<>>, seen, Shown(a))
    BY <2>s, <2>3, OneReportLeads
  <2> HIDE DEF s, seen, mouse
  <2>5. FinallyStruck(s, seen, <<>>) = <<>>
    BY <2>3, <2>4, StruckNothing
  <2>6. FinallyShown(s, seen) \cup mouse = (seen \cup mouse) \ PartsOf(stroke)
    BY <2>3, <2>4, <1>4
  <2>7. Promised(seen \cup mouse, c, FinallyShown(s, seen) \cup mouse,
                 FinallyStruck(s, seen, <<>>), <<0, 0, 0>>)
    BY <1>7, <2>5, <2>6 DEF Promised
  <2> QED BY <2>4, <2>7 DEF s, seen, mouse, body
<1>8. CASE c.type = "KeyTap"
  <2> DEFINE plan == TapPlan(k, stroke)
             other == [stroke EXCEPT !.modifiers = IF stroke.key = None THEN @ ELSE {}]
             released == KeyUp(k, other)
  <2>1. CanTap(k, stroke) /\ body = KeyboardPulse(plan)
    BY <1>8 DEF Refuses, Body
  <2>2. CanKeyDown(k, stroke)
    BY <2>1 DEF CanTap, CanKeyDown, StrikesHeld, TakesPlace
  <2>3. HasPlaceFor(seen \cup mouse, stroke)
    BY <1>1, <1>3, <2>2, PlaceIsThere
  <2>4. other \in Stroke
    BY <1>1, TapStrikes
  <2>5. /\ IsPulse(s, "keyboard")
        /\ FinallyShown(s, seen) = seen
        /\ FinallyStruck(s, seen, <<>>) = PressedOf(StruckOf(seen \cup mouse, stroke))
    <3>1. CASE ~StrikesHeld(k, stroke)
      <4> DEFINE r == KeyDown(k, stroke)
                 a == KeyboardReport(r)
                 b == KeyboardReport(k)
      <4>1. plan = <<r, k>>
        BY <3>1 DEF TapPlan
      <4>2. [i \in DOMAIN plan |-> KeyboardReport(plan[i])] = <<a, b>>
        <5> HIDE DEF plan, r, k
        <5> QED BY <4>1
      <4> DEFINE sent == <<a, b>>
      <4>3. body = Pulse(sent)
        BY <2>1, <4>2 DEF KeyboardPulse
      <4>4. /\ a.do = "keyboard" /\ Shown(a) = seen \cup PartsOf(stroke)
            /\ b.do = "keyboard" /\ Shown(b) = seen
        BY <1>1, <1>r, ViewOfKeyDown
      <4>s. s = <<Check>> \o Pulse(sent) \o <<Check>>
        BY <4>3
      <4> HIDE DEF a, b
      <4>t. sent \in Seq({a, b}) /\ Len(sent) = 2
            /\ sent[1] = a /\ sent[2] = b
        OBVIOUS
      <4> HIDE DEF sent, body, s
      <4>5. /\ IsPulse(s, "keyboard") /\ FinallyShown(s, seen) = Shown(b)
            /\ FinallyStruck(s, seen, <<>>)
                 = Struck(Struck(<<>>, seen, Shown(a)), Shown(a), Shown(b))
        BY <4>s, <4>t, <4>4, TwoReportsLead
      <4>6. Struck(Struck(<<>>, seen, Shown(a)), Shown(a), Shown(b))
              = Struck(<<>>, seen, Shown(a))
        BY <4>4, StruckNothing
      <4>7. Shown(a) \ seen = StruckOf(seen \cup mouse, stroke)
        <5>1. PartsOf(stroke) \ seen = StruckOf(seen \cup mouse, stroke)
          BY <1>1, <3>1, TapStrikes
        <5> HIDE DEF seen
        <5> QED BY <4>4, <5>1
      <4> QED BY <4>4, <4>5, <4>6, <4>7, StruckFirst
    <3>2. CASE StrikesHeld(k, stroke)
      <4> DEFINE r == KeyDown(released, stroke)
                 a == KeyboardReport(released)
                 b == KeyboardReport(r)
                 e == KeyboardReport(k)
                 up == seen \ PartsOf(other)
      <4>1. plan = <<released, r, k>>
        BY <3>2 DEF TapPlan
      <4>2. [i \in DOMAIN plan |-> KeyboardReport(plan[i])] = <<a, b, e>>
        <5> HIDE DEF plan, r, k, released
        <5> QED BY <4>1
      <4> DEFINE sent == <<a, b, e>>
      <4>3. body = Pulse(sent)
        BY <2>1, <4>2 DEF KeyboardPulse
      <4>4. released \in KeyboardState
        BY <1>1, KeyUpIsKeyboard
      <4>5. View(released) = up /\ View(r) = up \cup PartsOf(stroke)
        <5>1. View(released) = up
          BY <1>1, <2>4, ViewOfKeyUp
        <5>2. View(r) = View(released) \cup PartsOf(stroke)
          BY <1>1, <4>4, ViewOfKeyDown
        <5> QED BY <5>1, <5>2
      <4>6. /\ a.do = "keyboard" /\ Shown(a) = up
            /\ b.do = "keyboard" /\ Shown(b) = up \cup PartsOf(stroke)
            /\ e.do = "keyboard" /\ Shown(e) = seen
        BY <1>r, <4>5
      <4>7. /\ (up \cup PartsOf(stroke)) \ up = StruckOf(seen \cup mouse, stroke)
            /\ seen \subseteq up \cup PartsOf(stroke)
        BY <1>1, <3>2, TapStrikes
      <4>8. up \subseteq seen
        OBVIOUS
      <4>s. s = <<Check>> \o Pulse(sent) \o <<Check>>
        BY <4>3
      <4> HIDE DEF a, b, e
      <4>t. sent \in Seq({a, b, e}) /\ Len(sent) = 3
            /\ sent[1] = a /\ sent[2] = b /\ sent[3] = e
        OBVIOUS
      <4> HIDE DEF sent, body, up, s
      <4>9. /\ IsPulse(s, "keyboard") /\ FinallyShown(s, seen) = Shown(e)
            /\ FinallyStruck(s, seen, <<>>)
                 = Struck(Struck(Struck(<<>>, seen, Shown(a)), Shown(a), Shown(b)),
                          Shown(b), Shown(e))
        BY <4>s, <4>t, <4>6, ThreeReportsLead
      <4>10. Struck(<<>>, seen, Shown(a)) = <<>>
        BY <4>6, <4>8, StruckNothing
      <4>11. Struck(<<>>, Shown(a), Shown(b)) = PressedOf(StruckOf(seen \cup mouse, stroke))
        BY <4>6, <4>7, StruckFirst
      <4>12. \A strokes : Struck(strokes, Shown(b), Shown(e)) = strokes
        BY <4>6, <4>7, StruckNothing
      <4> QED BY <4>6, <4>9, <4>10, <4>11, <4>12
    <3> QED BY <3>1, <3>2
  <2> HIDE DEF s, seen, mouse
  <2>6. Promised(seen \cup mouse, c, FinallyShown(s, seen) \cup mouse,
                 FinallyStruck(s, seen, <<>>), <<0, 0, 0>>)
    BY <1>8, <2>3, <2>5 DEF Promised
  <2> QED BY <2>5, <2>6 DEF s, seen, mouse
<1> QED BY <1>6, <1>7, <1>8 DEF OfKey

\* The reports of a button, begun, keep its promise.
LEMMA ButtonsPromise ==
  ASSUME NEW c \in Command, c.type \in OfButton, NEW state \in InputValue
  PROVE  LET s == <<Check>> \o Body(c, state) \o <<Check>>
             seen == View(state.keyboard)
         IN  /\ IsPulse(s, "mouse")
             /\ Promised(seen \cup state.mouse, c, seen \cup FinallyShown(s, state.mouse),
                         FinallyStruck(s, state.mouse, <<>>), <<0, 0, 0>>)
<1> DEFINE body == Body(c, state)
           s == <<Check>> \o body \o <<Check>>
           k == state.keyboard
           mouse == state.mouse
           seen == View(k)
           button == c.button
<1>1. k \in KeyboardState /\ mouse \in SUBSET Button /\ button \in Button
  BY CommandShape DEF InputValue
<1>2. seen \subseteq Modifier \cup Key
  BY <1>1, ViewOfKeyboard
<1>3. button \notin seen
  <2> HIDE DEF seen, button
  <2> QED BY <1>1, <1>2, KindsAssumption
<1>r. ASSUME NEW r
      PROVE  MouseReport(r).do = "mouse" /\ Shown(MouseReport(r)) = r
  BY DEF MouseReport, Shown
<1>6. CASE c.type = "MouseButtonDown"
  <2> DEFINE r == mouse \cup {button}
             a == MouseReport(r)
  <2>1. body = <<a>>
    BY <1>6 DEF Body
  <2>3. a.do = "mouse" /\ Shown(a) = r
    BY <1>r
  <2>s. s = <<Check>> \o <<a>> \o <<Check>>
    BY <2>1
  <2> HIDE DEF a, body, s
  <2>4. /\ IsPulse(s, "mouse") /\ FinallyShown(s, mouse) = Shown(a)
        /\ FinallyStruck(s, mouse, <<>>) = Struck(<<>>, mouse, Shown(a))
    BY <2>s, <2>3, OneReportLeads
  <2> HIDE DEF s, seen, mouse, button
  <2>5. Shown(a) \ mouse = {button} \ (seen \cup mouse)
    BY <2>3, <1>3
  <2>6. FinallyStruck(s, mouse, <<>>) = PressedOf({button} \ (seen \cup mouse))
    BY <2>4, <2>5, StruckFirst
  <2>7. seen \cup FinallyShown(s, mouse) = (seen \cup mouse) \cup {button}
    BY <2>3, <2>4
  <2>8. Promised(seen \cup mouse, c, seen \cup FinallyShown(s, mouse),
                 FinallyStruck(s, mouse, <<>>), <<0, 0, 0>>)
    BY <1>6, <2>6, <2>7 DEF Promised, button
  <2> QED BY <2>4, <2>8 DEF s, seen, mouse, body
<1>7. CASE c.type = "MouseButtonUp"
  <2> DEFINE r == mouse \ {button}
             a == MouseReport(r)
  <2>1. body = <<a>>
    BY <1>7 DEF Body
  <2>3. a.do = "mouse" /\ Shown(a) = r
    BY <1>r
  <2>s. s = <<Check>> \o <<a>> \o <<Check>>
    BY <2>1
  <2> HIDE DEF a, body, s
  <2>4. /\ IsPulse(s, "mouse") /\ FinallyShown(s, mouse) = Shown(a)
        /\ FinallyStruck(s, mouse, <<>>) = Struck(<<>>, mouse, Shown(a))
    BY <2>s, <2>3, OneReportLeads
  <2> HIDE DEF s, seen, mouse, button
  <2>6. FinallyStruck(s, mouse, <<>>) = <<>>
    BY <2>3, <2>4, StruckNothing
  <2>7. seen \cup FinallyShown(s, mouse) = (seen \cup mouse) \ {button}
    BY <2>3, <2>4, <1>3
  <2>8. Promised(seen \cup mouse, c, seen \cup FinallyShown(s, mouse),
                 FinallyStruck(s, mouse, <<>>), <<0, 0, 0>>)
    BY <1>7, <2>6, <2>7 DEF Promised, button
  <2> QED BY <2>4, <2>8 DEF s, seen, mouse, body
<1>8. CASE c.type = "MouseClick"
  <2> DEFINE plan == ClickPlan(mouse, button)
             e == MouseReport(mouse)
  <2>1. body = MousePulse(plan)
    BY <1>8 DEF Body
  <2>e. e.do = "mouse" /\ Shown(e) = mouse
    BY <1>r
  <2>n. PressedOf({button}) = <<{button}>>
    BY DEF PressedOf
  <2>5. /\ IsPulse(s, "mouse")
        /\ FinallyShown(s, mouse) = mouse
        /\ FinallyStruck(s, mouse, <<>>) = <<{button}>>
    <3>1. CASE button \notin mouse
      <4> DEFINE r == mouse \cup {button}
                 a == MouseReport(r)
      <4>1. plan = <<r, mouse>>
        BY <3>1 DEF ClickPlan
      <4>2. [i \in DOMAIN plan |-> MouseReport(plan[i])] = <<a, e>>
        <5> HIDE DEF plan, r, mouse
        <5> QED BY <4>1
      <4> DEFINE sent == <<a, e>>
      <4>3. body = Pulse(sent)
        BY <2>1, <4>2 DEF MousePulse
      <4>4. a.do = "mouse" /\ Shown(a) = r
        BY <1>r
      <4>s. s = <<Check>> \o Pulse(sent) \o <<Check>>
        BY <4>3
      <4> HIDE DEF a, e
      <4>t. sent \in Seq({a, e}) /\ Len(sent) = 2
            /\ sent[1] = a /\ sent[2] = e
        OBVIOUS
      <4> HIDE DEF sent, body, s
      <4>5. /\ IsPulse(s, "mouse") /\ FinallyShown(s, mouse) = Shown(e)
            /\ FinallyStruck(s, mouse, <<>>)
                 = Struck(Struck(<<>>, mouse, Shown(a)), Shown(a), Shown(e))
        BY <4>s, <4>t, <4>4, <2>e, TwoReportsLead
      <4>6. Struck(Struck(<<>>, mouse, Shown(a)), Shown(a), Shown(e))
              = Struck(<<>>, mouse, Shown(a))
        BY <4>4, <2>e, StruckNothing
      <4>7. Shown(a) \ mouse = {button}
        <5> HIDE DEF mouse, button
        <5> QED BY <3>1, <4>4
      <4> QED BY <2>e, <2>n, <4>5, <4>6, <4>7, StruckFirst
    <3>2. CASE button \in mouse
      <4> DEFINE r == mouse \ {button}
                 a == MouseReport(r)
      <4>1. plan = <<r, mouse, mouse>>
        BY <3>2 DEF ClickPlan
      <4>2. [i \in DOMAIN plan |-> MouseReport(plan[i])] = <<a, e, e>>
        <5> HIDE DEF plan, r, mouse
        <5> QED BY <4>1
      <4> DEFINE sent == <<a, e, e>>
      <4>3. body = Pulse(sent)
        BY <2>1, <4>2 DEF MousePulse
      <4>4. a.do = "mouse" /\ Shown(a) = r
        BY <1>r
      <4>s. s = <<Check>> \o Pulse(sent) \o <<Check>>
        BY <4>3
      <4> HIDE DEF a, e
      <4>t. sent \in Seq({a, e}) /\ Len(sent) = 3
            /\ sent[1] = a /\ sent[2] = e /\ sent[3] = e
        OBVIOUS
      <4> HIDE DEF sent, body, s
      <4>5. /\ IsPulse(s, "mouse") /\ FinallyShown(s, mouse) = Shown(e)
            /\ FinallyStruck(s, mouse, <<>>)
                 = Struck(Struck(Struck(<<>>, mouse, Shown(a)), Shown(a), Shown(e)),
                          Shown(e), Shown(e))
        <5>1. sent[1].do = "mouse" /\ sent[2].do = "mouse" /\ sent[3].do = "mouse"
          BY <4>t, <4>4, <2>e
        <5> HIDE DEF r, mouse
        <5>2. /\ IsPulse(s, "mouse") /\ FinallyShown(s, mouse) = Shown(sent[3])
              /\ FinallyStruck(s, mouse, <<>>)
                   = Struck(Struck(Struck(<<>>, mouse, Shown(sent[1])),
                                   Shown(sent[1]), Shown(sent[2])),
                            Shown(sent[2]), Shown(sent[3]))
          BY <4>s, <4>t, <5>1, ThreeReportsLead
        <5> QED BY <4>t, <5>2
      <4>6. Struck(<<>>, mouse, Shown(a)) = <<>>
        BY <4>4, StruckNothing
      <4>7. \A strokes : Struck(strokes, Shown(e), Shown(e)) = strokes
        BY StruckNothing
      <4>8. Shown(e) \ Shown(a) = {button}
        <5> HIDE DEF mouse, button
        <5> QED BY <3>2, <4>4, <2>e
      <4>9. Struck(<<>>, Shown(a), Shown(e)) = <<{button}>>
        BY <2>n, <4>8, StruckFirst
      <4> QED BY <2>e, <4>5, <4>6, <4>7, <4>9
    <3> QED BY <3>1, <3>2
  <2> HIDE DEF s, seen, mouse, button
  <2>6. Promised(seen \cup mouse, c, seen \cup FinallyShown(s, mouse),
                 FinallyStruck(s, mouse, <<>>), <<0, 0, 0>>)
    BY <1>8, <2>5 DEF Promised, button
  <2> QED BY <2>5, <2>6 DEF s, seen, mouse
<1> QED BY <1>6, <1>7, <1>8 DEF OfButton

-----------------------------------------------------------------------------
(* Every step of the executor keeps the command on its way.                *)

\* Between commands, during a release, and at a command.
LEMMA RestKept ==
  ASSUME steps' = <<>>, HostHolds' = done'.held, log' = <<>>, turned' = 0,
         pointerX' = 0, pointerY' = 0
  PROVE  OnTrack'
BY DEF OnTrack

LEMMA ReleasingKept ==
  ASSUME job' = None, steps' # <<>>
  PROVE  OnTrack'
BY DEF OnTrack, IsReleasing, Running

LEMMA AheadKept ==
  ASSUME Running, job' = job, steps' # <<>>,
         Current.type \in OfKey => KeysOnTrack',
         Current.type \in OfButton => ButtonsOnTrack',
         Current.type = "TypeAscii" => TextOnTrack',
         Current.type = "MouseMoveRel" => MoveOnTrack',
         Current.type = "MouseWheel" => WheelOnTrack',
         Current.type = "WaitMs" => WaitOnTrack',
         Current.type # "MouseMoveRel" => pointerX' = 0 /\ pointerY' = 0,
         Current.type # "MouseWheel" => turned' = 0
  PROVE  OnTrack'
<1>1. Current' = Current
  BY DEF Current
<1>2. OnTrack' <=>
       /\ ~IsReleasing' /\ steps' = <<>> =>
            HostHolds' = done'.held /\ log' = <<>> /\ turned' = 0 /\ pointerX' = 0 /\ pointerY' = 0
       /\ Running' /\ steps' # <<>> =>
            /\ Current'.type \in OfKey => KeysOnTrack'
            /\ Current'.type \in OfButton => ButtonsOnTrack'
            /\ Current'.type = "TypeAscii" => TextOnTrack'
            /\ Current'.type = "MouseMoveRel" => MoveOnTrack'
            /\ Current'.type = "MouseWheel" => WheelOnTrack'
            /\ Current'.type = "WaitMs" => WaitOnTrack'
            /\ Current'.type # "MouseMoveRel" => pointerX' = 0 /\ pointerY' = 0
            /\ Current'.type # "MouseWheel" => turned' = 0
  BY DEF OnTrack
<1> QED BY <1>1, <1>2, Zenon

\* What is on its way, by the type of the command.
LEMMA AtHand ==
  ASSUME OnTrack, Running, steps # <<>>
  PROVE  /\ Current.type \in OfKey => KeysOnTrack
         /\ Current.type \in OfButton => ButtonsOnTrack
         /\ Current.type = "TypeAscii" => TextOnTrack
         /\ Current.type = "MouseMoveRel" => MoveOnTrack
         /\ Current.type = "MouseWheel" => WheelOnTrack
         /\ Current.type = "WaitMs" => WaitOnTrack
         /\ Current.type # "MouseMoveRel" => pointerX = 0 /\ pointerY = 0
         /\ Current.type # "MouseWheel" => turned = 0
BY DEF OnTrack

\* A text has at most a report, a delay, the idle report and the loop ahead.
LEMMA TextAhead ==
  ASSUME NEW s \in Seq(CommandStep), s # <<>>, NEW text, NEW read, NEW keyboard, NEW caps,
         ReadingOn(s, text, read, keyboard, caps)
  PROVE  /\ Len(s) \in {1, 2, 3, 4, 5}
         /\ Len(s) = 1 => Head(s) = Check
         /\ Len(s) = 2 => Head(s).do = "strokes" /\ Head(s) = FromEnd(s, 1)
         /\ Len(s) = 3 => Head(s) \in {Check, KeyboardReport(Idle)}
         /\ Len(s) = 4 => Head(s) = Delay
         /\ Len(s) = 5 => Head(s).do = "keyboard"
<1> DEFINE n == Len(s)
<1>1. n \in Nat /\ n # 0 /\ Head(s) = s[1]
  OBVIOUS
<1>2. n <= 5
  BY DEF ReadingOn
<1> HIDE DEF n
<1>3. n \in {1, 2, 3, 4, 5}
  BY <1>1, <1>2
<1>4. /\ n = 1 => n - 0 = 1
      /\ n = 2 => n - 1 = 1
      /\ n = 4 => n - 3 = 1
  OBVIOUS
<1>5. \A k : FromEnd(s, k) = s[n - k]
  BY DEF FromEnd, n
<1>6. CASE n = 1
  <2>1. FromEnd(s, 0) = Check
    BY DEF ReadingOn
  <2> QED BY <1>1, <1>4, <1>5, <1>6, <2>1 DEF n
<1>7. CASE n = 2
  <2>1. FromEnd(s, 1).do = "strokes"
    BY <1>7 DEF ReadingOn, n
  <2>2. FromEnd(s, 1) = s[1]
    BY <1>4, <1>5, <1>7
  <2> QED BY <1>1, <1>7, <2>1, <2>2 DEF n
<1>8. CASE n = 3
  BY <1>1, <1>8 DEF ReadingOn, n
<1>9. CASE n = 4
  <2>1. FromEnd(s, 3) = Delay
    BY <1>9 DEF ReadingOn, n
  <2>2. FromEnd(s, 3) = s[1]
    BY <1>4, <1>5, <1>9
  <2> QED BY <1>1, <1>9, <2>1, <2>2 DEF n
<1>10. CASE n = 5
  <2>1. \A k : KeyboardReport(k).do = "keyboard"
    BY DEF KeyboardReport
  <2> QED BY <1>1, <1>10, <2>1 DEF ReadingOn, n
<1> QED BY <1>3, <1>6, <1>7, <1>8, <1>9, <1>10 DEF n

\* A movement, and a turn of the wheel, have one step between the looks.
LEMMA ShortAhead ==
  ASSUME NEW s \in Seq(CommandStep), s # <<>>, NEW step,
         Len(s) <= 3, FromEnd(s, 0) = Check, Len(s) > 1 => FromEnd(s, 1) = step,
         Len(s) = 3 => s[1] = Check
  PROVE  /\ Len(s) \in 1 .. 3
         /\ Len(s) = 1 => Head(s) = Check
         /\ Len(s) = 2 => Head(s) = step
         /\ Len(s) = 3 => Head(s) = Check
<1> DEFINE n == Len(s)
<1>1. n \in Nat /\ n # 0 /\ n <= 3 /\ Head(s) = s[1]
  OBVIOUS
<1>2. /\ FromEnd(s, 0) = s[n - 0] /\ FromEnd(s, 1) = s[n - 1]
      /\ n = Len(s)
  BY DEF FromEnd
<1> HIDE DEF n
<1>3. /\ n = 1 => FromEnd(s, 0) = s[1]
      /\ n = 2 => FromEnd(s, 1) = s[1]
  <2>1. CASE n = 1
    <3>1. n - 0 = 1
      BY <2>1
    <3> QED BY <1>2, <2>1, <3>1
  <2>2. CASE n = 2
    <3>1. n - 1 = 1
      BY <2>2
    <3> QED BY <1>2, <2>2, <3>1
  <2> QED BY <2>1, <2>2
<1>4. n \in 1 .. 3
  BY <1>1
<1> QED BY <1>1, <1>2, <1>3, <1>4

\* A step ahead says of which type the command is.
LEMMA HeadKind ==
  ASSUME ExecutionInv, OnTrack, Running, steps # <<>>
  PROVE  /\ Head(steps).do = "keyboard" => Current.type \in OfKey \cup {"TypeAscii"}
         /\ Head(steps).do = "mouse" => Current.type \in OfButton
         /\ Head(steps).do = "wheel" => Current.type = "MouseWheel"
         /\ Head(steps).do = "strokes" => Current.type = "TypeAscii"
         /\ Head(steps).do = "move" => Current.type = "MouseMoveRel"
<1> DEFINE do == Head(steps).do
<1>1. steps \in Seq(CommandStep) /\ Current \in Command
  BY RunningFacts
<1>2. Current.type \in OfKey \cup OfButton
                       \cup {"TypeAscii", "MouseMoveRel", "MouseWheel", "WaitMs"}
  BY <1>1, CommandShape
<1>3. /\ Check.do = "check" /\ Delay.do = "delay" /\ Move.do = "move"
      /\ \A k : KeyboardReport(k).do = "keyboard"
      /\ \A w : WheelReport(w).do = "wheel"
  BY DEF Check, Delay, Move, KeyboardReport, WheelReport
<1>4. Len(steps) \in Nat /\ Len(steps) # 0
  BY <1>1
<1>p. ASSUME NEW interface \in {"keyboard", "mouse"}, IsPulse(steps, interface)
      PROVE  do \in {interface, "check", "delay"}
  <2>1. Head(steps) = FromEnd(steps, Len(steps) - 1)
    <3>1. Len(steps) - (Len(steps) - 1) = 1 /\ Head(steps) = steps[1]
      BY <1>1, <1>4
    <3> QED BY <3>1 DEF FromEnd
  <2>2. Len(steps) - 1 \in 0 .. Len(steps) - 1
    BY <1>4
  <2>3. FromEnd(steps, Len(steps) - 1).do
          \in IF Len(steps) - 1 \in {1, 3, 5} THEN {interface} ELSE {"check", "delay"}
    BY <1>p, <2>2 DEF IsPulse
  <2> QED BY <2>1, <2>3
<1>5. CASE Current.type \in OfKey
  <2>1. IsPulse(steps, "keyboard")
    BY <1>5, AtHand DEF KeysOnTrack
  <2>2. do \in {"keyboard", "check", "delay"}
    BY <2>1, <1>p
  <2> QED BY <1>5, <2>2
<1>6. CASE Current.type \in OfButton
  <2>1. IsPulse(steps, "mouse")
    BY <1>6, AtHand DEF ButtonsOnTrack
  <2>2. do \in {"mouse", "check", "delay"}
    BY <2>1, <1>p
  <2> QED BY <1>6, <2>2
<1>7. CASE Current.type = "TypeAscii"
  <2>1. ReadingOn(steps, Current.text, log, host.keyboard, hostCaps)
    BY <1>7, AtHand DEF TextOnTrack
  <2>2. Len(steps) \in {1, 2, 3, 4, 5}
    BY <1>1, <2>1, TextAhead
  <2>3. do \in {"check", "strokes", "delay", "keyboard"}
    BY <1>1, <1>3, <2>1, <2>2, TextAhead
  <2> QED BY <1>7, <2>3
<1>8. CASE Current.type = "MouseMoveRel"
  <2>1. MoveOnTrack
    BY <1>8, AtHand
  <2>2. Len(steps) \in 1 .. 3 /\ Head(steps) \in {Check, Move}
    <3>1. \A n \in 1 .. 3 : n \in {1, 2, 3}
      OBVIOUS
    <3> QED BY <1>1, <2>1, <3>1, ShortAhead DEF MoveOnTrack
  <2> QED BY <1>3, <1>8, <2>2
<1>9. CASE Current.type = "MouseWheel"
  <2>1. WheelOnTrack
    BY <1>9, AtHand
  <2>2. Len(steps) \in 1 .. 3 /\ Head(steps) \in {Check, WheelReport(Current.wheel)}
    <3>1. \A n \in 1 .. 3 : n \in {1, 2, 3}
      OBVIOUS
    <3> QED BY <1>1, <2>1, <3>1, ShortAhead DEF WheelOnTrack
  <2> QED BY <1>3, <1>9, <2>2
<1>10. CASE Current.type = "WaitMs"
  <2>1. \A k \in DOMAIN steps : steps[k] \in {Check, Delay}
    BY <1>10, AtHand DEF WaitOnTrack
  <2>2. Head(steps) \in {Check, Delay}
    <3>1. 1 \in DOMAIN steps /\ Head(steps) = steps[1]
      BY <1>1
    <3> QED BY <2>1, <3>1
  <2> QED BY <1>3, <1>10, <2>2
<1> QED BY <1>2, <1>5, <1>6, <1>7, <1>8, <1>9, <1>10

\* Requests come between commands.
LEMMA RequestOnTrack ==
  ASSUME ExecutionInv, OnTrack, NEW f \in Frame,
         ExecuteSingle(f) \/ BatchBegin(f) \/ Push(f) \/ BatchEnd(f)
  PROVE  OnTrack'
<1>1. steps = <<>> /\ ~IsReleasing
  <2>1. CASE ExecuteSingle(f) \/ BatchBegin(f)
    BY <2>1 DEF ExecuteSingle, BatchBegin, TakeUp, IsReleasing
  <2>2. CASE Push(f) \/ BatchEnd(f)
    BY <2>2 DEF Push, BatchEnd, ExecutionInv, BatchIsForeseen, IsReleasing
  <2> QED BY <2>1, <2>2
<1>2. UNCHANGED <<host, steps, log, turned, pointerX, pointerY>> /\ done'.held = done.held
  <2>1. CASE ExecuteSingle(f) \/ BatchBegin(f)
    BY <2>1 DEF ExecuteSingle, BatchBegin, TakeUp, Nothing, moveVars
  <2>2. CASE Push(f) \/ BatchEnd(f)
    BY <2>2 DEF Push, BatchEnd, moveVars
  <2> QED BY <2>1, <2>2
<1>3. HostHolds = done.held /\ log = <<>> /\ turned = 0 /\ pointerX = 0 /\ pointerY = 0
  BY <1>1 DEF OnTrack
<1>4. HostHolds' = HostHolds
  BY <1>2 DEF HostHolds
<1> QED BY <1>1, <1>2, <1>3, <1>4, RestKept

\* A release, an end, and what ends without one.
LEMMA EndOnTrack ==
  ASSUME ExecutionInv, OnTrack,
         \/ Refuse \/ WriteFails \/ Cancel \/ Emergency \/ Complete
         \/ ReleaseKeyboard \/ ReleaseMouse
  PROVE  OnTrack'
<1>1. ASSUME StartRelease
      PROVE  OnTrack'
  <2>1. Release # <<>>
    BY DEF Release
  <2> QED BY <1>1, <2>1, ReleasingKept DEF StartRelease
<1>2. CASE WriteFails \/ Cancel \/ Emergency
  BY <1>1, <1>2 DEF WriteFails, Cancel, Emergency
<1>3. CASE Refuse
  <2>1. CASE job.batch
    BY <1>1, <1>3, <2>1 DEF Refuse
  <2>2. CASE ~job.batch
    <3>1. /\ steps = <<>> /\ ~IsReleasing /\ steps' = steps
          /\ UNCHANGED <<host, done, log, turned, pointerX, pointerY>>
      BY <1>3, <2>2 DEF Refuse, AtCommand, moveVars, IsReleasing
    <3>2. HostHolds = done.held /\ log = <<>> /\ turned = 0 /\ pointerX = 0 /\ pointerY = 0
      BY <3>1 DEF OnTrack
    <3>3. HostHolds' = HostHolds
      BY <3>1 DEF HostHolds
    <3> QED BY <3>1, <3>2, <3>3, RestKept
  <2> QED BY <2>1, <2>2
<1>4. CASE Complete
  <2>1. /\ steps' = <<>> /\ log' = <<>> /\ turned' = 0 /\ host' = host
        /\ done'.held = host.keyboard \cup host.mouse
    BY <1>4 DEF Complete
  <2>2. pointerX' = 0 /\ pointerY' = 0
    BY <1>4 DEF Complete, ForgetMove
  <2>3. HostHolds' = done'.held
    BY <2>1 DEF HostHolds
  <2> QED BY <2>1, <2>2, <2>3, RestKept
<1>5. CASE ReleaseKeyboard
  <2>1. steps' = Tail(steps) /\ job' = None /\ IsReleasing /\ Head(steps).do = "releaseKeyboard"
    BY <1>5 DEF ReleaseKeyboard, IsReleasing, Running
  <2>2. steps = Release \/ steps = Tail(Release)
    BY <2>1 DEF ExecutionInv, ReleaseIsWhole
  <2>3. steps = Release
    BY <2>1, <2>2, ReleaseSteps
  <2> QED BY <2>1, <2>3, ReleaseSteps, ReleasingKept
<1>6. CASE ReleaseMouse
  <2>1. steps = Release \/ (steps = Tail(Release) /\ host.keyboard = {})
    BY <1>6 DEF ReleaseMouse, ExecutionInv, ReleaseIsWhole
  <2>2. Head(steps).do = "releaseMouse"
    BY <1>6 DEF ReleaseMouse
  <2>3. host.keyboard = {}
    BY <2>1, <2>2, ReleaseSteps
  <2>4. host' = [host EXCEPT !.mouse = {}] /\ host \in HostValue
    BY <1>6 DEF ReleaseMouse, ExecutionInv, TypeOK, HostValue
  <2>5. host'.keyboard = {} /\ host'.mouse = {}
    BY <2>3, <2>4 DEF HostValue
  <2>6. /\ steps' = <<>> /\ log' = <<>> /\ turned' = 0 /\ done'.held = host.keyboard
    BY <1>6 DEF ReleaseMouse, Nothing
  <2>7. pointerX' = 0 /\ pointerY' = 0
    BY <1>6 DEF ReleaseMouse, ForgetMove
  <2>8. HostHolds' = done'.held
    BY <2>3, <2>5, <2>6 DEF HostHolds
  <2> QED BY <2>6, <2>7, <2>8, RestKept
<1> QED BY <1>2, <1>3, <1>4, <1>5, <1>6

\* A command is begun between commands.
LEMMA BeginOnTrack ==
  ASSUME ExecutionInv, OnTrack, CapsAgree, Begin
  PROVE  OnTrack'
<1> DEFINE c == Current
           body == Body(c, input)
           s == <<Check>> \o body \o <<Check>>
<1>1. Running /\ steps = <<>> /\ ~IsReleasing
  BY DEF Begin, AtCommand, IsReleasing
<1>2. /\ c \in Command /\ input \in InputValue /\ host \in HostValue /\ ~Refuses(c, input)
      /\ host.keyboard = View(input.keyboard) /\ host.mouse = input.mouse
  BY <1>1, RunningFacts DEF Begin
<1>3. HostHolds = done.held /\ log = <<>> /\ turned = 0 /\ pointerX = 0 /\ pointerY = 0
  BY <1>1 DEF OnTrack
<1>4. /\ steps' = s /\ log' = <<>> /\ turned' = 0 /\ done'.held = done.held
      /\ UNCHANGED <<host, job, hostCaps>> /\ moveVars' = moveVars
  BY DEF Begin, Nothing, capsVars
<1>5. HostHolds' = HostHolds /\ Current' = Current /\ IsMoving' = IsMoving
      /\ pointerX' = 0 /\ pointerY' = 0
  BY <1>3, <1>4 DEF HostHolds, Current, IsMoving, moveVars
<1>6. ~IsMoving /\ capsLock = hostCaps
  BY <1>1, NotMoving DEF CapsAgree
<1>7. capsLock \in BOOLEAN
  BY DEF ExecutionInv, TypeOK
<1>8. s \in Seq(CommandStep) /\ s # <<>>
  BY <1>2, <1>7, BodyFits
<1>9. c.type \in OfKey => KeysOnTrack'
  <2> SUFFICES ASSUME c.type \in OfKey PROVE KeysOnTrack'
    OBVIOUS
  <2> DEFINE seen == View(input.keyboard)
  <2>1. /\ IsPulse(s, "keyboard")
        /\ Promised(seen \cup input.mouse, c, FinallyShown(s, seen) \cup input.mouse,
                    FinallyStruck(s, seen, <<>>), <<0, 0, 0>>)
    BY <1>2, KeysPromise
  <2>2. seen \cup input.mouse = done'.held /\ seen = host'.keyboard /\ input.mouse = host'.mouse
    BY <1>2, <1>3, <1>4 DEF HostHolds
  <2> HIDE DEF s, c, seen
  <2> QED BY <1>4, <1>5, <2>1, <2>2 DEF KeysOnTrack, c
<1>10. c.type \in OfButton => ButtonsOnTrack'
  <2> SUFFICES ASSUME c.type \in OfButton PROVE ButtonsOnTrack'
    OBVIOUS
  <2> DEFINE seen == View(input.keyboard)
  <2>1. /\ IsPulse(s, "mouse")
        /\ Promised(seen \cup input.mouse, c, seen \cup FinallyShown(s, input.mouse),
                    FinallyStruck(s, input.mouse, <<>>), <<0, 0, 0>>)
    BY <1>2, ButtonsPromise
  <2>2. seen \cup input.mouse = done'.held /\ seen = host'.keyboard /\ input.mouse = host'.mouse
    BY <1>2, <1>3, <1>4 DEF HostHolds
  <2> HIDE DEF s, c, seen
  <2> QED BY <1>4, <1>5, <2>1, <2>2 DEF ButtonsOnTrack, c
<1>o. ASSUME NEW step, body = <<step>>
      PROVE  /\ Len(s) = 3 /\ FromEnd(s, 0) = Check /\ FromEnd(s, 1) = step
             /\ FromEnd(s, 2) = Check /\ s[1] = Check
  <2> DEFINE t == <<step>>
  <2>1. t \in Seq({step}) /\ Len(t) = 1 /\ t[1] = step /\ BetweenLooks(s, t)
    BY <1>o DEF BetweenLooks
  <2> HIDE DEF t, s
  <2>2. /\ Len(s) = 3 /\ FromEnd(s, 0) = Check /\ FromEnd(s, 1) = step /\ FromEnd(s, 2) = Check
    BY <2>1, ShortFromEnd
  <2>3. FromEnd(s, 2) = s[1]
    BY <2>2 DEF FromEnd
  <2> QED BY <2>2, <2>3
<1>11. c.type = "TypeAscii" => TextOnTrack'
  <2> SUFFICES ASSUME c.type = "TypeAscii" PROVE TextOnTrack'
    OBVIOUS
  <2>1. IsIdle(input.keyboard) /\ IsTyped(c.text) /\ c.text \in Seq(Char)
    BY <1>2, CommandShape DEF Refuses, Text
  <2>2. body = <<Strokes(1, capsLock)>>
    BY DEF Body
  <2> DEFINE last == Strokes(1, hostCaps)
  <2>3. last.do = "strokes" /\ last.caps = hostCaps /\ last.place = 1
    BY DEF Strokes
  <2>4. /\ Len(s) = 3 /\ FromEnd(s, 0) = Check /\ FromEnd(s, 1) = last /\ s[1] = Check
    BY <2>2, <1>6, <1>o
  <2>5. host.keyboard = {} /\ done.held = host.mouse
    <3>1. host.keyboard = {}
      BY <1>2, <2>1, IdleIsKeyboard DEF IsIdle
    <3> QED BY <1>3, <3>1 DEF HostHolds
  <2>6. HasRead(<<>>, c.text, 1) /\ IsPlace(c.text, 1)
    BY <2>1, ReadAtEnds, LoopGoesByPlaces
  <2> DEFINE text == c.text
  <2> HIDE DEF s, last, text
  <2>7. ReadingOn(s, text, <<>>, {}, hostCaps)
    BY <2>3, <2>4, <2>6 DEF ReadingOn, text
  <2>8. /\ Current'.text = text /\ steps' = s /\ host'.keyboard = {}
        /\ done'.held = host'.mouse /\ log' = <<>> /\ hostCaps' = hostCaps
    BY <1>4, <1>5, <2>5 DEF text
  <2> QED BY <2>1, <2>7, <2>8 DEF TextOnTrack, text
<1>12. c.type = "MouseMoveRel" => MoveOnTrack'
  <2> SUFFICES ASSUME c.type = "MouseMoveRel" PROVE MoveOnTrack'
    OBVIOUS
  <2>1. body = <<Move>>
    BY DEF Body
  <2>2. /\ Len(s) = 3 /\ FromEnd(s, 0) = Check /\ FromEnd(s, 1) = Move /\ s[1] = Check
    BY <2>1, <1>o
  <2> HIDE DEF s
  <2> QED BY <1>3, <1>4, <1>5, <1>6, <2>2 DEF MoveOnTrack
<1>13. c.type = "MouseWheel" => WheelOnTrack'
  <2> SUFFICES ASSUME c.type = "MouseWheel" PROVE WheelOnTrack'
    OBVIOUS
  <2>1. body = <<WheelReport(c.wheel)>>
    BY DEF Body
  <2>2. /\ Len(s) = 3 /\ FromEnd(s, 0) = Check /\ FromEnd(s, 1) = WheelReport(c.wheel)
        /\ s[1] = Check
    BY <2>1, <1>o
  <2> HIDE DEF s
  <2> QED BY <1>3, <1>4, <1>5, <2>2 DEF WheelOnTrack
<1>14. c.type = "WaitMs" => WaitOnTrack'
  <2> SUFFICES ASSUME c.type = "WaitMs" PROVE WaitOnTrack'
    OBVIOUS
  <2>1. body = <<Delay>>
    BY DEF Body
  <2>2. \A k \in DOMAIN s : s[k] \in {Check, Delay}
    BY <2>1
  <2> HIDE DEF s
  <2> QED BY <1>3, <1>4, <1>5, <2>2 DEF WaitOnTrack
<1> HIDE DEF s
<1> QED BY <1>1, <1>4, <1>5, <1>8, <1>9, <1>10, <1>11, <1>12, <1>13, <1>14, AheadKept

\* The plan of a key of a text, when nothing is held.
LEMMA TypedPlan ==
  ASSUME NEW char \in Supported, NEW caps
  PROVE  TapPlan(Idle, Keystroke(char, caps))
           = <<KeyDown(Idle, Keystroke(char, caps)), Idle>>
<1> DEFINE s == Keystroke(char, caps)
<1>1. s.key \in Characters
  BY DEF Keystroke, StrokeOf, KeyOf, Supported, Char, Letter, Characters
<1>2. s.key # None
  BY <1>1, ExecutionAssumption, InputAssumption
<1> HIDE DEF s
<1>3. ~StrikesHeld(Idle, s)
  BY <1>2 DEF HoldsKey, Idle, StrikesHeld
<1>4. TapPlan(Idle, s) = <<KeyDown(Idle, s), Idle>>
  BY <1>3 DEF TapPlan
<1> QED BY <1>4 DEF s

\* More than one step.
LEMMA MoreThanOne ==
  ASSUME NEW s \in Seq(CommandStep), Len(s) > 1
  PROVE  Len(s) # 1
<1> DEFINE n == Len(s)
<1>1. n \in Nat /\ n > 1
  OBVIOUS
<1> HIDE DEF n
<1>2. n # 1
  BY <1>1
<1> QED BY <1>2 DEF n

\* Of a text, a look or a delay ...
LEMMA TextLooks ==
  ASSUME NEW s \in Seq(CommandStep), Len(s) > 1, Head(s).do \in {"check", "delay"},
         NEW text, NEW read, NEW keyboard, NEW caps,
         ReadingOn(s, text, read, keyboard, caps)
  PROVE  ReadingOn(Tail(s), text, read, keyboard, caps)
<1> DEFINE t == Tail(s)
           n == Len(s)
           rest == FromEnd(s, 1)
<1>1. /\ Len(t) = n - 1
      /\ \A k \in 0 .. n - 2 : FromEnd(t, k) = FromEnd(s, k)
      /\ s # <<>> /\ n \in Nat
  BY TailFromEnd
<1>2. /\ \A k : KeyboardReport(k).do = "keyboard"
      /\ Check.do = "check"
  BY DEF KeyboardReport, Check
<1>3. n \in {3, 4}
  <2>1. /\ n \in {1, 2, 3, 4, 5}
        /\ n = 2 => Head(s).do = "strokes"
        /\ n = 5 => Head(s).do = "keyboard"
    BY <1>1, TextAhead
  <2>2. n # 1
    BY MoreThanOne
  <2>3. Head(s).do # "strokes" /\ Head(s).do # "keyboard"
    OBVIOUS
  <2> HIDE DEF n
  <2> QED BY <2>1, <2>2, <2>3
<1>4. /\ FromEnd(s, 0) = Check /\ HasRead(read, text, rest.place)
      /\ rest.do = "strokes" /\ rest.caps = caps /\ IsPlace(text, rest.place)
  BY <1>3 DEF ReadingOn
<1>5. CASE n = 3
  <2>1. keyboard = {}
    <3>1. Head(s) = s[1]
      BY <1>1
    <3> QED BY <1>2, <1>5, <3>1 DEF ReadingOn
  <2> HIDE DEF t, n
  <2>2. 3 - 1 = 2 /\ 0 \in 0 .. 3 - 2 /\ 1 \in 0 .. 3 - 2
    OBVIOUS
  <2>3. Len(t) = 2 /\ FromEnd(t, 0) = Check /\ FromEnd(t, 1) = rest
    BY <1>1, <1>4, <1>5, <2>2
  <2> HIDE DEF rest
  <2>4. ReadingOn(t, text, read, keyboard, caps)
    BY <1>4, <2>1, <2>3 DEF ReadingOn
  <2> QED BY <2>4 DEF t
<1>6. CASE n = 4
  <2>1. FromEnd(s, 2) = KeyboardReport(Idle)
    BY <1>6 DEF ReadingOn
  <2> HIDE DEF t, n
  <2>2. 4 - 1 = 3 /\ 0 \in 0 .. 4 - 2 /\ 1 \in 0 .. 4 - 2 /\ 2 \in 0 .. 4 - 2 /\ 3 - 2 = 1
    OBVIOUS
  <2>3. /\ Len(t) = 3 /\ FromEnd(t, 0) = Check /\ FromEnd(t, 1) = rest
        /\ FromEnd(t, 2) = KeyboardReport(Idle)
    BY <1>1, <1>4, <1>6, <2>1, <2>2
  <2>4. FromEnd(t, 2) = t[1]
    BY <2>2, <2>3 DEF FromEnd
  <2> HIDE DEF rest
  <2>5. ReadingOn(t, text, read, keyboard, caps)
    BY <1>4, <2>3, <2>4 DEF ReadingOn
  <2> QED BY <2>5 DEF t
<1> QED BY <1>3, <1>5, <1>6

\* ... and a report, after which the host has read one character more, or nothing new.
LEMMA TextReports ==
  ASSUME NEW s \in Seq(CommandStep), Head(s).do = "keyboard",
         NEW text \in Seq(Char), IsTyped(text), NEW read, NEW keyboard, NEW caps \in BOOLEAN,
         s # <<>>, ReadingOn(s, text, read, keyboard, caps)
  PROVE  LET view == View(Head(s).state)
         IN  ReadingOn(Tail(s), text,
                       IF view \ keyboard = {} THEN read ELSE Append(read, {Read(view, caps)}),
                       view, caps)
<1> DEFINE t == Tail(s)
           n == Len(s)
           rest == FromEnd(s, 1)
           view == View(Head(s).state)
           next == IF view \ keyboard = {} THEN read ELSE Append(read, {Read(view, caps)})
<1>2. /\ \A k : KeyboardReport(k).do = "keyboard" /\ KeyboardReport(k).state = k
      /\ Check.do = "check" /\ Delay.do = "delay"
  BY DEF KeyboardReport, Check, Delay
<1>3. n \in {3, 5}
  <2>1. /\ n \in {1, 2, 3, 4, 5}
        /\ n = 1 => Head(s) = Check
        /\ n = 2 => Head(s).do = "strokes"
        /\ n = 4 => Head(s) = Delay
    BY TextAhead
  <2> QED BY <1>2, <2>1
<1>g. n \in Nat /\ n > 1
  <2>1. n \in Nat
    OBVIOUS
  <2> HIDE DEF n
  <2> QED BY <1>3, <2>1
<1>1. /\ Len(t) = n - 1
      /\ \A k \in 0 .. n - 2 : FromEnd(t, k) = FromEnd(s, k)
      /\ s # <<>> /\ n \in Nat /\ Head(s) = s[1]
  <2>3. Len(s) > 1
    BY <1>g
  <2>4. /\ Len(t) = n - 1
        /\ \A k \in 0 .. n - 2 : FromEnd(t, k) = FromEnd(s, k)
        /\ Head(s) = s[1]
    BY <2>3, TailFromEnd
  <2> QED BY <1>g, <2>4
<1>4. /\ FromEnd(s, 0) = Check
      /\ rest.do = "strokes" /\ rest.caps = caps /\ IsPlace(text, rest.place)
  <2>1. Len(s) > 1
    BY <1>g
  <2> QED BY <2>1 DEF ReadingOn
<1>5. CASE n = 3
  <2>1. Head(s) = KeyboardReport(Idle) /\ HasRead(read, text, rest.place)
    BY <1>1, <1>2, <1>5 DEF ReadingOn
  <2>2. view = {} /\ next = read
    BY <1>2, <2>1, IdleIsKeyboard
  <2> HIDE DEF t, n
  <2>3. 3 - 1 = 2 /\ 0 \in 0 .. 3 - 2 /\ 1 \in 0 .. 3 - 2
    OBVIOUS
  <2>4. Len(t) = 2 /\ FromEnd(t, 0) = Check /\ FromEnd(t, 1) = rest
    BY <1>1, <1>4, <1>5, <2>3
  <2> HIDE DEF rest, next, view
  <2>5. ReadingOn(t, text, next, view, caps)
    BY <1>4, <2>1, <2>2, <2>4 DEF ReadingOn
  <2> QED BY <2>5 DEF t, next, view
<1>6. CASE n = 5
  <2>1. PICK i \in Kept(text) :
          /\ rest.place = i + Width(text, i)
          /\ s[1] = KeyboardReport(KeyDown(Idle, Keystroke(text[i], caps)))
          /\ HasRead(read, text, i) /\ keyboard = {}
    BY <1>6 DEF ReadingOn
  <2>2. text[i] \in Supported
    BY <2>1, LoopGoesByPlaces DEF IsTyped
  <2>3. view # {} /\ Read(view, caps) = IF text[i] = "CR" THEN "LF" ELSE text[i]
    <3>1. view = View(KeyDown(Idle, Keystroke(text[i], caps)))
      BY <1>1, <1>2, <2>1
    <3> HIDE DEF view
    <3> QED BY <2>2, <3>1, ReadAsMeant
  <2>4. next = Append(read, {IF text[i] = "CR" THEN "LF" ELSE text[i]})
    <3> HIDE DEF view
    <3> QED BY <2>1, <2>3
  <2>5. HasRead(next, text, rest.place)
    <3> HIDE DEF next
    <3> QED BY <2>1, <2>4, ReadsOn
  <2>6. FromEnd(s, 2) = KeyboardReport(Idle) /\ FromEnd(s, 3) = Delay
    BY <1>6 DEF ReadingOn
  <2> HIDE DEF t, n, rest, next, view
  <2>7. /\ 5 - 1 = 4 /\ 0 \in 0 .. 5 - 2 /\ 1 \in 0 .. 5 - 2 /\ 2 \in 0 .. 5 - 2
        /\ 3 \in 0 .. 5 - 2
    OBVIOUS
  <2>8. /\ Len(t) = 4 /\ FromEnd(t, 0) = Check /\ FromEnd(t, 1) = rest
        /\ FromEnd(t, 2) = KeyboardReport(Idle) /\ FromEnd(t, 3) = Delay
    BY <1>1, <1>4, <1>6, <2>6, <2>7 DEF rest
  <2>9. ReadingOn(t, text, next, view, caps)
    BY <1>4, <2>5, <2>8 DEF ReadingOn
  <2> QED BY <2>9 DEF t, next, view
<1> QED BY <1>3, <1>5, <1>6

\* ... and the loop, which ends behind the last place, or presses what stands at this.
LEMMA TextLoops ==
  ASSUME NEW s \in Seq(CommandStep), Len(s) = 2, NEW text \in Seq(Char), IsTyped(text),
         NEW read, NEW keyboard, NEW caps,
         ReadingOn(s, text, read, keyboard, caps)
  PROVE  LET i == Head(s).place
             next == KeyboardPulse(TapPlan(Idle, Keystroke(text[i], caps)))
                       \o <<Strokes(i + Width(text, i), caps)>> \o <<Check>>
         IN  /\ Head(s).caps = caps
             /\ i > Len(text) => ReadingOn(<<Check>>, text, read, keyboard, caps)
             /\ ~(i > Len(text)) =>
                  next # <<>> /\ ReadingOn(next, text, read, keyboard, caps)
<1> DEFINE i == Head(s).place
           rest == Strokes(i + Width(text, i), caps)
           pulse == KeyboardPulse(TapPlan(Idle, Keystroke(text[i], caps)))
           t == pulse \o <<rest>> \o <<Check>>
<1>1. Head(s) = FromEnd(s, 1)
  BY TextAhead
<1>2. Head(s).caps = caps /\ IsPlace(text, i) /\ HasRead(read, text, i) /\ keyboard = {}
  BY <1>1 DEF ReadingOn
<1>3. ASSUME i > Len(text)
      PROVE  ReadingOn(<<Check>>, text, read, keyboard, caps)
  <2>1. i = Len(text) + 1
    BY <1>2, <1>3, LoopGoesByPlaces
  <2> DEFINE one == <<Check>>
  <2>2. Len(one) = 1 /\ one[1] = Check /\ 1 - 0 = 1
    OBVIOUS
  <2> HIDE DEF one
  <2>3. FromEnd(one, 0) = Check
    BY <2>2 DEF FromEnd
  <2>4. HasRead(read, text, Len(text) + 1)
    BY <1>2, <2>1
  <2>5. ReadingOn(one, text, read, keyboard, caps)
    BY <1>2, <2>2, <2>3, <2>4 DEF ReadingOn
  <2> QED BY <2>5 DEF one
<1>4. ASSUME ~(i > Len(text))
      PROVE  t # <<>> /\ ReadingOn(t, text, read, keyboard, caps)
  <2>1. i \in Kept(text) /\ i \in DOMAIN text /\ IsPlace(text, i + Width(text, i))
    BY <1>2, <1>4, LoopGoesByPlaces
  <2>2. text[i] \in Supported
    BY <2>1 DEF IsTyped
  <2> DEFINE a == KeyDown(Idle, Keystroke(text[i], caps))
             plan == TapPlan(Idle, Keystroke(text[i], caps))
  <2>3. plan = <<a, Idle>>
    BY <2>2, TypedPlan
  <2>4. pulse = <<KeyboardReport(a), Delay, KeyboardReport(Idle)>>
    <3> HIDE DEF plan, a
    <3>1. [k \in DOMAIN plan |-> KeyboardReport(plan[k])]
            = <<KeyboardReport(a), KeyboardReport(Idle)>>
      BY <2>3
    <3> QED BY <3>1, PulseOfTwo DEF KeyboardPulse, plan
  <2> DEFINE S == {KeyboardReport(a), Delay, KeyboardReport(Idle), rest, Check}
  <2>5. t = pulse \o <<rest>> \o <<Check>>
    OBVIOUS
  <2>6. rest.do = "strokes" /\ rest.caps = caps /\ rest.place = i + Width(text, i)
    BY DEF Strokes
  <2> HIDE DEF t, pulse, rest, i
  <2>7. /\ pulse \in Seq(S) /\ Len(pulse) = 3 /\ rest \in S /\ Check \in S
        /\ pulse[1] = KeyboardReport(a) /\ pulse[2] = Delay /\ pulse[3] = KeyboardReport(Idle)
    <3> DEFINE first == KeyboardReport(a)
               second == KeyboardReport(Idle)
    <3> HIDE DEF first, second
    <3>1. pulse = <<first, Delay, second>>
      BY <2>4 DEF first, second
    <3>2. /\ pulse \in Seq({first, Delay, second, rest, Check}) /\ Len(pulse) = 3
          /\ pulse[1] = first /\ pulse[2] = Delay /\ pulse[3] = second
      BY <3>1
    <3> QED BY <3>2 DEF first, second
  <2> HIDE DEF S
  <2>8. /\ Len(t) = 5 /\ t # <<>>
        /\ t[1] = pulse[1] /\ t[2] = pulse[2] /\ t[3] = pulse[3] /\ t[4] = rest /\ t[5] = Check
    BY <2>5, <2>7, FiveInARow
  <2>9. 5 - 0 = 5 /\ 5 - 1 = 4 /\ 5 - 2 = 3 /\ 5 - 3 = 2
    OBVIOUS
  <2>10. /\ FromEnd(t, 0) = Check /\ FromEnd(t, 1) = rest
         /\ FromEnd(t, 2) = KeyboardReport(Idle) /\ FromEnd(t, 3) = Delay
    BY <2>7, <2>8, <2>9 DEF FromEnd
  <2>11. t[1] = KeyboardReport(a)
    BY <2>7, <2>8
  <2>12. ReadingOn(t, text, read, keyboard, caps)
    BY <1>2, <2>1, <2>6, <2>8, <2>10, <2>11 DEF ReadingOn
  <2> QED BY <2>8, <2>12
<1> QED BY <1>2, <1>3, <1>4

\* A look or a delay is gone on from.
LEMMA GoOnOnTrack ==
  ASSUME ExecutionInv, OnTrack, GoOn
  PROVE  OnTrack'
<1> DEFINE s == steps
           c == Current
<1>1. Running /\ s # <<>> /\ Len(s) > 1 /\ Head(s).do \in {"check", "delay"}
  BY DEF GoOn, IsAt
<1>2. s \in Seq(CommandStep) /\ c \in Command
  BY <1>1, RunningFacts
<1>3. /\ steps' = Tail(s) /\ UNCHANGED <<host, job, log, turned, done, hostCaps>>
      /\ moveVars' = moveVars
  BY DEF GoOn, capsVars
<1>4. /\ HostHolds' = HostHolds /\ Current' = c /\ IsMoving' = IsMoving
      /\ UNCHANGED <<dx, dy, pointerX, pointerY, movePhase>>
  BY <1>3 DEF HostHolds, Current, IsMoving, moveVars
<1>5. /\ Tail(s) \in Seq(CommandStep) /\ Len(Tail(s)) = Len(s) - 1 /\ Tail(s) # <<>>
      /\ \A k \in 0 .. Len(s) - 2 : FromEnd(Tail(s), k) = FromEnd(s, k)
      /\ Head(s) = FromEnd(s, Len(s) - 1) /\ Head(s) = s[1]
  BY <1>1, <1>2, TailFromEnd
<1>6. /\ Check.do = "check" /\ Delay.do = "delay" /\ Move.do = "move"
      /\ \A k : KeyboardReport(k).do = "keyboard"
      /\ \A w : WheelReport(w).do = "wheel"
  BY DEF Check, Delay, Move, KeyboardReport, WheelReport
<1>7. c.type \in OfKey => KeysOnTrack'
  <2> SUFFICES ASSUME c.type \in OfKey PROVE KeysOnTrack'
    OBVIOUS
  <2>1. KeysOnTrack
    BY <1>1, AtHand
  <2>2. IsPulse(s, "keyboard")
    BY <2>1 DEF KeysOnTrack
  <2>3. /\ IsPulse(Tail(s), "keyboard")
        /\ FinallyShown(Tail(s), host.keyboard) = FinallyShown(s, host.keyboard)
        /\ FinallyStruck(Tail(s), host.keyboard, log) = FinallyStruck(s, host.keyboard, log)
    BY <1>1, <1>2, <2>2, PulseGoesOn
  <2> QED BY <1>3, <1>4, <2>1, <2>3 DEF KeysOnTrack
<1>8. c.type \in OfButton => ButtonsOnTrack'
  <2> SUFFICES ASSUME c.type \in OfButton PROVE ButtonsOnTrack'
    OBVIOUS
  <2>1. ButtonsOnTrack
    BY <1>1, AtHand
  <2>2. IsPulse(s, "mouse")
    BY <2>1 DEF ButtonsOnTrack
  <2>3. /\ IsPulse(Tail(s), "mouse")
        /\ FinallyShown(Tail(s), host.mouse) = FinallyShown(s, host.mouse)
        /\ FinallyStruck(Tail(s), host.mouse, log) = FinallyStruck(s, host.mouse, log)
    BY <1>1, <1>2, <2>2, PulseGoesOn
  <2> QED BY <1>3, <1>4, <2>1, <2>3 DEF ButtonsOnTrack
<1>9. c.type = "TypeAscii" => TextOnTrack'
  <2> SUFFICES ASSUME c.type = "TypeAscii" PROVE TextOnTrack'
    OBVIOUS
  <2>1. TextOnTrack
    BY <1>1, AtHand
  <2>2. ReadingOn(s, c.text, log, host.keyboard, hostCaps)
    BY <2>1 DEF TextOnTrack
  <2>3. ReadingOn(Tail(s), c.text, log, host.keyboard, hostCaps)
    BY <1>1, <1>2, <2>2, TextLooks
  <2> QED BY <1>3, <1>4, <2>1, <2>3 DEF TextOnTrack
<1>l. ASSUME NEW step, step.do \notin {"check", "delay"},
             Len(s) <= 3, FromEnd(s, 0) = Check, Len(s) > 1 => FromEnd(s, 1) = step,
             Len(s) = 3 => s[1] = Check
      PROVE  Len(Tail(s)) = 2 /\ FromEnd(Tail(s), 0) = Check /\ FromEnd(Tail(s), 1) = step
  <2>1. Len(s) = 3
    <3>1. \A n \in 1 .. 3 : n \in {1, 2, 3}
      OBVIOUS
    <3>2. Len(s) \in {1, 2, 3} /\ (Len(s) = 2 => Head(s) = step)
      BY <1>1, <1>2, <1>l, <3>1, ShortAhead
    <3>3. Len(s) # 1 /\ Len(s) # 2
      <4>1. Len(s) # 1
        BY <1>1, <1>2, MoreThanOne
      <4> QED BY <1>1, <1>l, <3>2, <4>1
    <3> QED BY <3>2, <3>3
  <2> HIDE DEF s
  <2>2. 0 \in 0 .. Len(s) - 2 /\ 1 \in 0 .. Len(s) - 2 /\ Len(s) - 1 = 2 /\ Len(s) > 1
    BY <2>1
  <2> QED BY <1>5, <1>l, <2>2
<1>10. c.type = "MouseMoveRel" => MoveOnTrack'
  <2> SUFFICES ASSUME c.type = "MouseMoveRel" PROVE MoveOnTrack'
    OBVIOUS
  <2>1. MoveOnTrack
    BY <1>1, AtHand
  <2>2. Len(Tail(s)) = 2 /\ FromEnd(Tail(s), 0) = Check /\ FromEnd(Tail(s), 1) = Move
    BY <1>6, <1>l, <2>1 DEF MoveOnTrack
  <2> DEFINE t == Tail(s)
  <2> HIDE DEF t
  <2>3. steps' = t /\ Len(t) = 2 /\ FromEnd(t, 0) = Check /\ FromEnd(t, 1) = Move
    BY <1>3, <2>2 DEF t
  <2>4. Len(s) # 1
    BY <1>1, <1>2, MoreThanOne
  <2>5. HostHolds = done.held /\ log = <<>> /\ (IsMoving => dx = Current.dx /\ dy = Current.dy)
    BY <2>1 DEF MoveOnTrack
  <2>6. done' = done /\ log' = log
    BY <1>3
  <2> HIDE DEF s
  <2> QED BY <1>4, <2>3, <2>5, <2>6 DEF MoveOnTrack
<1>11. c.type = "MouseWheel" => WheelOnTrack'
  <2> SUFFICES ASSUME c.type = "MouseWheel" PROVE WheelOnTrack'
    OBVIOUS
  <2>1. WheelOnTrack
    BY <1>1, AtHand
  <2>2. /\ Len(Tail(s)) = 2 /\ FromEnd(Tail(s), 0) = Check
        /\ FromEnd(Tail(s), 1) = WheelReport(c.wheel)
    BY <1>6, <1>l, <2>1 DEF WheelOnTrack
  <2> DEFINE t == Tail(s)
  <2> HIDE DEF t
  <2>3. /\ steps' = t /\ Len(t) = 2 /\ FromEnd(t, 0) = Check
        /\ FromEnd(t, 1) = WheelReport(c.wheel)
    BY <1>3, <2>2 DEF t
  <2>4. Len(s) # 1
    BY <1>1, <1>2, MoreThanOne
  <2>5. HostHolds = done.held /\ log = <<>> /\ turned = 0
    BY <2>1, <2>4 DEF WheelOnTrack
  <2>6. done' = done /\ log' = log /\ turned' = turned
    BY <1>3
  <2> HIDE DEF s
  <2> QED BY <1>4, <2>3, <2>5, <2>6 DEF WheelOnTrack
<1>12. c.type = "WaitMs" => WaitOnTrack'
  <2> SUFFICES ASSUME c.type = "WaitMs" PROVE WaitOnTrack'
    OBVIOUS
  <2>1. WaitOnTrack
    BY <1>1, AtHand
  <2>2. \A k \in DOMAIN s : s[k] \in {Check, Delay}
    BY <2>1 DEF WaitOnTrack
  <2>3. \A k \in DOMAIN Tail(s) : Tail(s)[k] \in {Check, Delay}
    BY <1>1, <1>2, <2>2
  <2> QED BY <1>3, <1>4, <2>1, <2>3 DEF WaitOnTrack
<1>13. /\ c.type # "MouseMoveRel" => pointerX' = 0 /\ pointerY' = 0
       /\ c.type # "MouseWheel" => turned' = 0
  BY <1>1, <1>3, <1>4, AtHand
<1> QED BY <1>1, <1>3, <1>5, <1>7, <1>8, <1>9, <1>10, <1>11, <1>12, <1>13, AheadKept

\* A report to the keyboard: of a key, or of a text.
LEMMA WriteKeyboardOnTrack ==
  ASSUME ExecutionInv, OnTrack, WriteKeyboard
  PROVE  OnTrack'
<1> DEFINE s == steps
           c == Current
           next == Head(s).state
           view == View(next)
           pressed == view \ host.keyboard
<1>1. Running /\ s # <<>> /\ Head(s).do = "keyboard"
  BY DEF WriteKeyboard, IsAt
<1>2. /\ s \in Seq(CommandStep) /\ c \in Command /\ host \in HostValue
      /\ FitTogether(s, c, input.keyboard)
  BY <1>1, RunningFacts
<1>3. /\ steps' = Tail(s) /\ UNCHANGED <<job, turned, done, hostCaps>> /\ moveVars' = moveVars
      /\ host' = [host EXCEPT !.keyboard = view]
      /\ log' = IF pressed = {} THEN log
                ELSE Append(log, IF c.type = "TypeAscii" THEN {Read(view, hostCaps)}
                                 ELSE pressed)
  BY DEF WriteKeyboard, Logged, capsVars
<1>4. host'.keyboard = view /\ host'.mouse = host.mouse /\ Current' = c
      /\ UNCHANGED <<pointerX, pointerY>>
  BY <1>2, <1>3 DEF HostValue, Current, moveVars
<1>5. Len(s) > 1
  <2>1. Head(s) # Check
    BY <1>1 DEF Check
  <2> QED BY <1>1, <1>2, <2>1, LoopFits
<1>6. Tail(s) # <<>>
  BY <1>2, <1>5, TailFromEnd
<1>7. c.type \in OfKey \cup {"TypeAscii"}
  BY <1>1, HeadKind
<1>8. c.type \in OfKey => KeysOnTrack'
  <2> SUFFICES ASSUME c.type \in OfKey PROVE KeysOnTrack'
    OBVIOUS
  <2>1. KeysOnTrack
    BY <1>1, AtHand
  <2>2. IsPulse(s, "keyboard")
    BY <2>1 DEF KeysOnTrack
  <2>3. Shown(Head(s)) = view
    BY <1>1 DEF Shown
  <2>4. /\ IsPulse(Tail(s), "keyboard")
        /\ FinallyShown(Tail(s), Shown(Head(s))) = FinallyShown(s, host.keyboard)
        /\ FinallyStruck(Tail(s), Shown(Head(s)), Struck(log, host.keyboard, Shown(Head(s))))
             = FinallyStruck(s, host.keyboard, log)
    BY <1>1, <1>2, <1>5, <2>2, PulseGoesOn
  <2>5. log' = Struck(log, host.keyboard, view)
    BY <1>3 DEF OfKey, Struck
  <2> HIDE DEF s, view
  <2> QED BY <1>3, <1>4, <2>1, <2>3, <2>4, <2>5 DEF KeysOnTrack, s
<1>9. c.type = "TypeAscii" => TextOnTrack'
  <2> SUFFICES ASSUME c.type = "TypeAscii" PROVE TextOnTrack'
    OBVIOUS
  <2>1. TextOnTrack
    BY <1>1, AtHand
  <2>2. c.text \in Seq(Char) /\ hostCaps \in BOOLEAN
    <3>1. c.text \in Seq(Char)
      BY <1>2, CommandShape DEF Text
    <3>2. hostCaps \in BOOLEAN
      BY DEF ExecutionInv, TypeOK
    <3> QED BY <3>1, <3>2
  <2>3. ReadingOn(s, c.text, log, host.keyboard, hostCaps) /\ IsTyped(c.text)
    BY <2>1 DEF TextOnTrack
  <2>4. log' = IF pressed = {} THEN log ELSE Append(log, {Read(view, hostCaps)})
    BY <1>3
  <2>5. ReadingOn(Tail(s), c.text,
                  IF pressed = {} THEN log ELSE Append(log, {Read(view, hostCaps)}),
                  view, hostCaps)
    <3>1. s \in Seq(CommandStep) /\ s # <<>> /\ Head(s).do = "keyboard"
      BY <1>1, <1>2
    <3>2. c.text \in Seq(Char) /\ IsTyped(c.text) /\ hostCaps \in BOOLEAN
          /\ ReadingOn(s, c.text, log, host.keyboard, hostCaps)
      BY <2>2, <2>3
    <3> HIDE DEF s, c
    <3> QED BY <3>1, <3>2, TextReports
  <2> HIDE DEF s, view, pressed
  <2> QED BY <1>3, <1>4, <2>1, <2>4, <2>5 DEF TextOnTrack, s
<1>10. /\ c.type # "MouseMoveRel" => pointerX' = 0 /\ pointerY' = 0
       /\ c.type # "MouseWheel" => turned' = 0
  BY <1>1, <1>3, <1>4, AtHand
<1>11. c.type \notin OfButton \cup {"MouseMoveRel", "MouseWheel", "WaitMs"}
  BY <1>7 DEF OfKey, OfButton
<1> HIDE DEF s
<1> QED BY <1>1, <1>3, <1>6, <1>8, <1>9, <1>10, <1>11, AheadKept DEF s

\* A report to the mouse, of a button.
LEMMA WriteMouseOnTrack ==
  ASSUME ExecutionInv, OnTrack, WriteMouse
  PROVE  OnTrack'
<1> DEFINE s == steps
           c == Current
           next == Head(s).state
<1>1. Running /\ s # <<>> /\ Head(s).do = "mouse"
  BY DEF WriteMouse, IsAt
<1>2. /\ s \in Seq(CommandStep) /\ c \in Command /\ host \in HostValue
      /\ FitTogether(s, c, input.keyboard)
  BY <1>1, RunningFacts
<1>3. c.type \in OfButton
  BY <1>1, HeadKind
<1>4. /\ steps' = Tail(s) /\ UNCHANGED <<job, turned, done>> /\ moveVars' = moveVars
      /\ host' = [host EXCEPT !.mouse = next]
      /\ log' = Struck(log, host.mouse, next)
  BY <1>3 DEF WriteMouse, Logged, OfButton, Struck
<1>5. host'.mouse = next /\ host'.keyboard = host.keyboard /\ Current' = c
      /\ UNCHANGED <<pointerX, pointerY>>
  BY <1>2, <1>4 DEF HostValue, Current, moveVars
<1>6. Len(s) > 1
  <2>1. Head(s) # Check
    BY <1>1 DEF Check
  <2> QED BY <1>1, <1>2, <2>1, LoopFits
<1>7. Tail(s) # <<>>
  BY <1>2, <1>6, TailFromEnd
<1>8. ButtonsOnTrack'
  <2>1. ButtonsOnTrack
    BY <1>1, <1>3, AtHand
  <2>2. IsPulse(s, "mouse")
    BY <2>1 DEF ButtonsOnTrack
  <2>3. Shown(Head(s)) = next
    BY <1>1 DEF Shown
  <2>4. /\ IsPulse(Tail(s), "mouse")
        /\ FinallyShown(Tail(s), Shown(Head(s))) = FinallyShown(s, host.mouse)
        /\ FinallyStruck(Tail(s), Shown(Head(s)), Struck(log, host.mouse, Shown(Head(s))))
             = FinallyStruck(s, host.mouse, log)
    BY <1>1, <1>2, <1>6, <2>2, PulseGoesOn
  <2> HIDE DEF s, next
  <2> QED BY <1>4, <1>5, <2>1, <2>3, <2>4 DEF ButtonsOnTrack, s
<1>9. c.type \notin OfKey \cup {"TypeAscii", "MouseMoveRel", "MouseWheel", "WaitMs"}
  BY <1>3 DEF OfKey, OfButton
<1>10. pointerX' = 0 /\ pointerY' = 0 /\ turned' = 0
  BY <1>1, <1>4, <1>5, <1>9, AtHand
<1> HIDE DEF s
<1> QED BY <1>1, <1>4, <1>7, <1>8, <1>9, <1>10, AheadKept DEF s

\* The report of the wheel turns it, once.
LEMMA WriteWheelOnTrack ==
  ASSUME ExecutionInv, OnTrack, WriteWheel
  PROVE  OnTrack'
<1> DEFINE s == steps
           c == Current
<1>1. Running /\ s # <<>> /\ Head(s).do = "wheel"
  BY DEF WriteWheel, IsAt
<1>2. /\ s \in Seq(CommandStep) /\ c \in Command /\ host \in HostValue
      /\ host.mouse = input.mouse
  BY <1>1, RunningFacts
<1>3. c.type = "MouseWheel" /\ WheelOnTrack
  BY <1>1, HeadKind, AtHand
<1>4. /\ steps' = Tail(s) /\ UNCHANGED <<job, log, done>> /\ moveVars' = moveVars
      /\ host' = [host EXCEPT !.mouse = input.mouse]
      /\ turned' = turned + Head(s).by
  BY DEF WriteWheel
<1>5. host' = host
  BY <1>2, <1>4 DEF HostValue
<1>6. HostHolds' = HostHolds /\ Current' = c /\ UNCHANGED <<pointerX, pointerY>>
  BY <1>4, <1>5 DEF HostHolds, Current, moveVars
<1>7. Len(s) = 2 /\ Head(s) = WheelReport(c.wheel)
  <2>1. \A n \in 1 .. 3 : n \in {1, 2, 3}
    OBVIOUS
  <2>2. /\ Len(s) \in 1 .. 3
        /\ Len(s) = 1 => Head(s) = Check
        /\ Len(s) = 2 => Head(s) = WheelReport(c.wheel)
        /\ Len(s) = 3 => Head(s) = Check
    BY <1>1, <1>2, <1>3, ShortAhead DEF WheelOnTrack
  <2>3. Head(s) # Check
    BY <1>1 DEF Check
  <2> QED BY <2>1, <2>2, <2>3
<1>8. Len(Tail(s)) = 1 /\ FromEnd(Tail(s), 0) = Check /\ Tail(s) # <<>>
  <2>1. Tail(s) = <<s[2]>>
    BY <1>2, <1>7, TailOfTwo
  <2>2. FromEnd(s, 0) = s[2]
    BY <1>7 DEF FromEnd
  <2>3. FromEnd(s, 0) = Check
    BY <1>3 DEF WheelOnTrack
  <2> DEFINE t == <<Check>>
  <2>4. Tail(s) = t
    BY <2>1, <2>2, <2>3
  <2>5. Len(t) = 1 /\ t[1] = Check /\ t # <<>> /\ 1 - 0 = 1
    OBVIOUS
  <2> HIDE DEF t
  <2>6. FromEnd(t, 0) = Check
    BY <2>5 DEF FromEnd
  <2> QED BY <2>4, <2>5, <2>6
<1>9. turned' = c.wheel
  <2>1. Head(s).by = c.wheel
    BY <1>7 DEF WheelReport
  <2>2. turned = 0
    BY <1>3, <1>7 DEF WheelOnTrack
  <2>3. c.wheel \in Int
    BY <1>2, <1>3, CommandShape DEF SignedInt
  <2> QED BY <1>4, <2>1, <2>2, <2>3
<1>10. WheelOnTrack'
  <2> DEFINE t == Tail(s)
  <2>1. Len(t) = 1 /\ FromEnd(t, 0) = Check /\ steps' = t
    BY <1>4, <1>8
  <2>2. HostHolds = done.held /\ log = <<>> /\ log' = log /\ done' = done
    BY <1>3, <1>4 DEF WheelOnTrack
  <2>3. /\ HostHolds' = done'.held /\ log' = <<>> /\ turned' = Current'.wheel
        /\ Len(steps') = 1 /\ FromEnd(steps', 0) = Check
    BY <1>6, <1>9, <2>1, <2>2
  <2>4. 1 <= 3 /\ ~(1 > 1) /\ 1 # 3
    OBVIOUS
  <2> QED BY <2>3, <2>4 DEF WheelOnTrack
<1>11. c.type \notin OfKey \cup OfButton \cup {"TypeAscii", "MouseMoveRel", "WaitMs"}
  BY <1>3 DEF OfKey, OfButton
<1>12. pointerX' = 0 /\ pointerY' = 0
  BY <1>1, <1>6, <1>11, AtHand
<1> HIDE DEF s
<1> QED BY <1>1, <1>3, <1>4, <1>8, <1>10, <1>11, <1>12, AheadKept DEF s

\* The loop over a text.
LEMMA NextStrokeOnTrack ==
  ASSUME ExecutionInv, OnTrack, NextStroke
  PROVE  OnTrack'
<1> DEFINE s == steps
           c == Current
           text == c.text
           i == Head(s).place
           caps == Head(s).caps
<1>1. Running /\ s # <<>> /\ Head(s).do = "strokes"
  BY DEF NextStroke, IsAt
<1>2. /\ s \in Seq(CommandStep) /\ c \in Command /\ FitTogether(s, c, input.keyboard)
  BY <1>1, RunningFacts
<1>3. /\ Tail(s) = <<Check>> /\ Len(s) = 2
      /\ c.type = "TypeAscii" /\ IsTyped(text) /\ IsIdle(input.keyboard)
  BY <1>1, <1>2, LoopFits
<1>4. UNCHANGED <<job, host, log, turned, done, hostCaps>> /\ moveVars' = moveVars
  BY DEF NextStroke, capsVars
<1>5. steps' = IF i > Len(text) THEN <<Check>>
               ELSE KeyboardPulse(TapPlan(Idle, Keystroke(text[i], caps)))
                      \o <<Strokes(i + Width(text, i), caps)>> \o <<Check>>
  <2>1. input.keyboard = Idle
    BY <1>3 DEF IsIdle
  <2>2. steps' = IF i > Len(text) THEN Tail(s)
                 ELSE KeyboardPulse(TapPlan(input.keyboard, Keystroke(text[i], caps)))
                        \o <<Strokes(i + Width(text, i), caps)>> \o Tail(s)
    BY DEF NextStroke
  <2> QED BY <1>3, <2>1, <2>2
<1>6. TextOnTrack
  BY <1>1, <1>3, AtHand
<1>7. text \in Seq(Char)
  BY <1>2, <1>3, CommandShape DEF Text
<1>8. ReadingOn(s, text, log, host.keyboard, hostCaps)
  BY <1>6 DEF TextOnTrack
<1> DEFINE next == KeyboardPulse(TapPlan(Idle, Keystroke(text[i], hostCaps)))
                     \o <<Strokes(i + Width(text, i), hostCaps)>> \o <<Check>>
<1>9. /\ caps = hostCaps
      /\ i > Len(text) => ReadingOn(<<Check>>, text, log, host.keyboard, hostCaps)
      /\ ~(i > Len(text)) =>
           next # <<>> /\ ReadingOn(next, text, log, host.keyboard, hostCaps)
  BY <1>2, <1>3, <1>7, <1>8, TextLoops
<1>10. steps' # <<>> /\ ReadingOn(steps', text, log, host.keyboard, hostCaps)
  <2>1. steps' = IF i > Len(text) THEN <<Check>> ELSE next
    BY <1>5, <1>9
  <2>2. <<Check>> # <<>>
    OBVIOUS
  <2> HIDE DEF next
  <2> QED BY <1>9, <2>1, <2>2
<1> HIDE DEF next
<1>11. Current' = c /\ UNCHANGED <<pointerX, pointerY>>
  BY <1>4 DEF Current, moveVars
<1>12. TextOnTrack'
  BY <1>4, <1>6, <1>10, <1>11 DEF TextOnTrack
<1>13. c.type \notin OfKey \cup OfButton \cup {"MouseMoveRel", "MouseWheel", "WaitMs"}
  BY <1>3 DEF OfKey, OfButton
<1>14. pointerX' = 0 /\ pointerY' = 0 /\ turned' = 0
  BY <1>1, <1>4, <1>11, <1>13, AtHand
<1> HIDE DEF s
<1> QED BY <1>1, <1>3, <1>4, <1>12, <1>13, <1>14, <1>10, AheadKept DEF s

\* The loop over a movement.
LEMMA MoveOnTrackKept ==
  ASSUME ExecutionInv, OnTrack, MovePointer \/ MoveDone
  PROVE  OnTrack'
<1> DEFINE s == steps
           c == Current
<1>1. Running /\ s # <<>> /\ Head(s).do = "move"
  BY DEF MovePointer, MoveDone, IsAt
<1>2. s \in Seq(CommandStep) /\ c \in Command
  BY <1>1, RunningFacts
<1>3. c.type = "MouseMoveRel" /\ MoveOnTrack
  BY <1>1, HeadKind, AtHand
<1>4. UNCHANGED <<job, host, log, turned, done>>
  BY DEF MovePointer, MoveDone
<1>5. HostHolds' = HostHolds /\ Current' = c
  BY <1>4 DEF HostHolds, Current
<1>6. HostHolds = done.held /\ log = <<>> /\ (IsMoving => dx = c.dx /\ dy = c.dy)
  BY <1>3 DEF MoveOnTrack
<1>7. Len(s) = 2 /\ FromEnd(s, 0) = Check /\ FromEnd(s, 1) = Move
  <2>1. \A n \in 1 .. 3 : n \in {1, 2, 3}
    OBVIOUS
  <2>2. /\ Len(s) \in 1 .. 3
        /\ Len(s) = 1 => Head(s) = Check
        /\ Len(s) = 2 => Head(s) = Move
        /\ Len(s) = 3 => Head(s) = Check
    BY <1>1, <1>2, <1>3, ShortAhead DEF MoveOnTrack
  <2>3. Head(s) # Check
    BY <1>1 DEF Check
  <2>4. Len(s) = 2
    BY <2>1, <2>2, <2>3
  <2> QED BY <1>3, <2>4 DEF MoveOnTrack
<1>8. c.type \notin OfKey \cup OfButton \cup {"TypeAscii", "MouseWheel", "WaitMs"}
  BY <1>3 DEF OfKey, OfButton
<1>9. turned' = 0
  BY <1>1, <1>4, <1>8, AtHand
<1>10. CASE MovePointer
  <2>1. steps' = steps
    BY <1>10 DEF MovePointer
  <2>2. IsMoving' => dx' = c.dx /\ dy' = c.dy
    <3>1. CASE BeginMove(Current.dx, Current.dy)
      BY <3>1 DEF BeginMove
    <3>2. CASE Step \/ Nudge \/ NudgeBack
      <4>1. IsMoving /\ dx' = dx /\ dy' = dy
        BY <3>2 DEF Step, Nudge, NudgeBack, IsMoving
      <4> QED BY <1>6, <4>1
    <3> QED BY <1>10, <3>1, <3>2 DEF MovePointer
  <2>3. MoveOnTrack'
    <3>1. /\ HostHolds' = done'.held /\ log' = <<>> /\ Len(steps') = 2
          /\ FromEnd(steps', 0) = Check /\ FromEnd(steps', 1) = Move
          /\ IsMoving' => dx' = Current'.dx /\ dy' = Current'.dy
      BY <1>4, <1>5, <1>6, <1>7, <2>1, <2>2
    <3>2. 2 <= 3 /\ 2 # 3 /\ 2 # 1
      OBVIOUS
    <3> QED BY <3>1, <3>2 DEF MoveOnTrack
  <2> QED BY <1>1, <1>3, <1>4, <1>8, <1>9, <2>1, <2>3, AheadKept
<1>11. CASE MoveDone
  <2>1. /\ steps' = Tail(s) /\ movePhase = "Moving" /\ movePhase' = "Done"
        /\ dx' = dx /\ dy' = dy
    BY <1>11 DEF MoveDone, EndMove
  <2>2. dx' = c.dx /\ dy' = c.dy
    BY <1>6, <2>1 DEF IsMoving
  <2>3. Len(Tail(s)) = 1 /\ FromEnd(Tail(s), 0) = Check /\ Tail(s) # <<>>
    <3>1. Tail(s) = <<s[2]>>
      BY <1>2, <1>7, TailOfTwo
    <3>2. FromEnd(s, 0) = s[2]
      BY <1>7 DEF FromEnd
    <3> DEFINE t == <<Check>>
    <3>3. Tail(s) = t
      BY <1>7, <3>1, <3>2
    <3>4. Len(t) = 1 /\ t[1] = Check /\ t # <<>> /\ 1 - 0 = 1
      OBVIOUS
    <3> HIDE DEF t
    <3>5. FromEnd(t, 0) = Check
      BY <3>4 DEF FromEnd
    <3> QED BY <3>3, <3>4, <3>5
  <2>4. MoveOnTrack'
    <3> DEFINE t == Tail(s)
    <3>1. /\ HostHolds' = done'.held /\ log' = <<>> /\ Len(steps') = 1
          /\ FromEnd(steps', 0) = Check
          /\ dx' = Current'.dx /\ dy' = Current'.dy /\ movePhase' = "Done"
      BY <1>4, <1>5, <1>6, <2>1, <2>2, <2>3
    <3>2. 1 <= 3 /\ 1 # 3 /\ ~(1 > 1)
      OBVIOUS
    <3> QED BY <3>1, <3>2 DEF MoveOnTrack
  <2> QED BY <1>1, <1>3, <1>4, <1>8, <1>9, <2>1, <2>3, <2>4, AheadKept
<1> QED BY <1>10, <1>11

\* Caps Lock changes between jobs, and the firmware is told of it at any time.
LEMMA CapsOnTrack ==
  ASSUME OnTrack, ~LateReports, ToggleCaps \/ LedReport \/ UNCHANGED vars
  PROVE  OnTrack'
<1>1. UNCHANGED <<host, job, steps, log, turned, done>> /\ moveVars' = moveVars
  BY DEF ToggleCaps, LedReport, vars
<1>2. /\ HostHolds' = HostHolds /\ Current' = Current /\ IsMoving' = IsMoving
      /\ UNCHANGED <<dx, dy, pointerX, pointerY, movePhase>>
  BY <1>1 DEF HostHolds, Current, IsMoving, moveVars
<1>3. Running => hostCaps' = hostCaps
  BY DEF ToggleCaps, LedReport, vars, capsVars
<1>4. CASE steps = <<>>
  <2>1. ~IsReleasing
    BY <1>4 DEF IsReleasing
  <2> QED BY <1>1, <1>2, <1>4, <2>1, RestKept DEF OnTrack
<1>5. CASE steps # <<>> /\ ~Running
  BY <1>1, <1>5, ReleasingKept DEF Running
<1>6. CASE steps # <<>> /\ Running
  <2>1. KeysOnTrack' = KeysOnTrack
    BY <1>1, <1>2 DEF KeysOnTrack
  <2>2. ButtonsOnTrack' = ButtonsOnTrack
    BY <1>1, <1>2 DEF ButtonsOnTrack
  <2>3. TextOnTrack' = TextOnTrack
    BY <1>1, <1>2, <1>3, <1>6 DEF TextOnTrack
  <2>4. MoveOnTrack' = MoveOnTrack
    BY <1>1, <1>2 DEF MoveOnTrack
  <2>5. WheelOnTrack' = WheelOnTrack
    BY <1>1, <1>2 DEF WheelOnTrack
  <2>6. WaitOnTrack' = WaitOnTrack
    BY <1>1, <1>2 DEF WaitOnTrack
  <2> QED
    BY <1>1, <1>2, <1>6, <2>1, <2>2, <2>3, <2>4, <2>5, <2>6, AtHand, AheadKept
<1> QED BY <1>4, <1>5, <1>6

\* Without late reports, every step keeps the two in agreement.
LEMMA CapsAgreeKept ==
  ASSUME ExecutionInv, CapsAgree, ~LateReports, [Next]_vars
  PROVE  CapsAgree'
<1>1. ASSUME capsVars' = capsVars, Running' \/ collector' # None => Running \/ collector # None
      PROVE  CapsAgree'
  BY <1>1 DEF CapsAgree, capsVars
<1>2. ASSUME NEW f \in Frame, ExecuteSingle(f) \/ BatchBegin(f) \/ Push(f) \/ BatchEnd(f)
      PROVE  CapsAgree'
  <2>1. CASE ExecuteSingle(f) \/ BatchBegin(f)
    <3>1. capsLock = hostCaps /\ capsVars' = capsVars
      BY <2>1 DEF ExecuteSingle, BatchBegin, TakeUp
    <3> QED BY <3>1 DEF CapsAgree, capsVars
  <2>2. CASE Push(f) \/ BatchEnd(f)
    BY <1>1, <2>2 DEF Push, BatchEnd
  <2> QED BY <1>2, <2>1, <2>2
<1>3. CASE Begin \/ NextStroke \/ WriteKeyboard \/ WriteMouse \/ WriteWheel \/ MovePointer
           \/ MoveDone \/ GoOn
  <2>1. Running /\ capsVars' = capsVars
    BY <1>3 DEF Begin, NextStroke, WriteKeyboard, WriteMouse, WriteWheel, MovePointer, MoveDone,
                GoOn, AtCommand, IsAt
  <2> QED BY <1>1, <2>1
<1>4. CASE Refuse \/ WriteFails \/ Cancel \/ Complete
  <2>1. capsVars' = capsVars /\ collector' = collector /\ Running
    <3>1. CASE Refuse
      BY <3>1 DEF Refuse, AtCommand
    <3>2. CASE WriteFails
      <4>1. ~(movePhase = "Nudged" \/ ~IsOver) \/ IsMoving \/ Running
        BY <3>2 DEF WriteFails, AbandonMove, IsAt
      <4>2. Running
        BY <3>2 DEF WriteFails, AbandonMove, IsAt, ExecutionInv, TypeOK
      <4> QED BY <3>2, <4>2 DEF WriteFails
    <3>3. CASE Cancel
      <4>1. Running
        BY <3>3 DEF Cancel, AbandonMove, IsAt, AtCommand, ExecutionInv, TypeOK
      <4> QED BY <3>3, <4>1 DEF Cancel
    <3>4. CASE Complete
      BY <3>4 DEF Complete
    <3> QED BY <1>4, <3>1, <3>2, <3>3, <3>4
  <2> QED BY <1>1, <2>1
<1>5. CASE Emergency \/ ReleaseKeyboard \/ ReleaseMouse
  BY <1>1, <1>5 DEF Emergency, StartRelease, ReleaseKeyboard, ReleaseMouse, Running
<1>6. CASE ToggleCaps
  BY <1>6 DEF ToggleCaps, CapsAgree, Running
<1>7. CASE LedReport
  BY <1>7 DEF LedReport, CapsAgree
<1>8. CASE UNCHANGED vars
  BY <1>1, <1>8 DEF vars, Running
<1> QED BY <1>2, <1>3, <1>4, <1>5, <1>6, <1>7, <1>8 DEF Next

\* All the steps together.
LEMMA OnTrackInit == Init => OnTrack /\ CapsAgree
BY DEF Init, MoveInit, OnTrack, CapsAgree, HostHolds, Nothing, Running

LEMMA OnTrackNext ==
  ASSUME ExecutionInv, OnTrack, CapsAgree, ~LateReports, [Next]_vars
  PROVE  OnTrack' /\ CapsAgree'
<1>1. CapsAgree'
  BY CapsAgreeKept
<1>2. ASSUME NEW f \in Frame, ExecuteSingle(f) \/ BatchBegin(f) \/ Push(f) \/ BatchEnd(f)
      PROVE  OnTrack'
  BY <1>2, RequestOnTrack
<1>3. Begin => OnTrack'
  BY BeginOnTrack
<1>4. NextStroke => OnTrack'
  BY NextStrokeOnTrack
<1>5. WriteKeyboard => OnTrack'
  BY WriteKeyboardOnTrack
<1>6. WriteMouse => OnTrack'
  BY WriteMouseOnTrack
<1>7. WriteWheel => OnTrack'
  BY WriteWheelOnTrack
<1>8. GoOn => OnTrack'
  BY GoOnOnTrack
<1>9. MovePointer \/ MoveDone => OnTrack'
  BY MoveOnTrackKept
<1>10. Refuse \/ WriteFails \/ Cancel \/ Emergency \/ Complete \/ ReleaseKeyboard \/ ReleaseMouse
         => OnTrack'
  BY EndOnTrack
<1>11. ToggleCaps \/ LedReport \/ UNCHANGED vars => OnTrack'
  BY CapsOnTrack
<1> QED
  BY <1>1, <1>2, <1>3, <1>4, <1>5, <1>6, <1>7, <1>8, <1>9, <1>10, <1>11 DEF Next

\* On the way, every command stays on the track to what it promises.
LEMMA OnTrackHolds == ~LateReports => (Spec => [](ExecutionInv /\ OnTrack /\ CapsAgree))
<1> SUFFICES ASSUME ~LateReports PROVE Spec => [](ExecutionInv /\ OnTrack /\ CapsAgree)
  OBVIOUS
<1>1. Init => ExecutionInv /\ OnTrack /\ CapsAgree
  BY ExecutionInit, OnTrackInit
<1>2. ExecutionInv /\ OnTrack /\ CapsAgree /\ [Next]_vars
        => ExecutionInv' /\ OnTrack' /\ CapsAgree'
  BY ExecutionNext, OnTrackNext
<1> QED BY <1>1, <1>2, PTL DEF Spec

\* However far a text is typed, what the host has read of it is its beginning.
LEMMA ReadIsSound == ExecutionInv /\ OnTrack => ReadsABeginning
<1> SUFFICES ASSUME ExecutionInv, OnTrack, Running, steps # <<>>, Current.type = "TypeAscii"
             PROVE  /\ Len(log) <= Len(Normalised(Current.text))
                    /\ \A k \in DOMAIN log : log[k] = {Normalised(Current.text)[k]}
  BY DEF ReadsABeginning
<1> DEFINE s == steps
           text == Current.text
           rest == FromEnd(s, 1)
<1>1. s \in Seq(CommandStep) /\ Current \in Command /\ text \in Seq(Char)
  BY RunningFacts, CommandShape DEF Text
<1>2. ReadingOn(s, text, log, host.keyboard, hostCaps)
  BY AtHand DEF TextOnTrack
<1>3. Len(s) \in {1, 2, 3, 4, 5}
  BY <1>1, <1>2, TextAhead
<1> HIDE DEF s, text
<1>4. \E i : IsPlace(text, i) /\ HasRead(log, text, i)
  <2>1. CASE Len(s) = 1
    <3>1. HasRead(log, text, Len(text) + 1)
      BY <1>2, <2>1 DEF ReadingOn
    <3> QED BY <3>1 DEF IsPlace
  <2>2. CASE Len(s) \in {2, 3, 4}
    <3>1. /\ Len(s) > 1 => IsPlace(text, rest.place)
          /\ Len(s) \in {2, 3, 4} => HasRead(log, text, rest.place)
      BY <1>2 DEF ReadingOn
    <3>2. Len(s) > 1
      BY <2>2
    <3> QED BY <2>2, <3>1, <3>2
  <2>3. CASE Len(s) = 5
    <3>1. \E i \in Kept(text) : HasRead(log, text, i)
      BY <1>2, <2>3 DEF ReadingOn
    <3> QED BY <3>1 DEF IsPlace
  <2> QED BY <1>3, <2>1, <2>2, <2>3
<1>5. /\ Len(log) <= Len(Normalised(text))
      /\ \A k \in DOMAIN log : log[k] = {Normalised(text)[k]}
  BY <1>1, <1>4, ReadIsBeginning
<1> QED BY <1>5 DEF text

\* A text that is cut short has no character wrong.
THEOREM TextIsReadInOrder == ~LateReports => (Spec => []ReadsABeginning)
<1> SUFFICES ASSUME ~LateReports PROVE Spec => []ReadsABeginning
  OBVIOUS
<1>1. Spec => [](ExecutionInv /\ OnTrack /\ CapsAgree)
  BY OnTrackHolds
<1> QED BY <1>1, ReadIsSound, PTL

\* A command that keeps its promise is a step of HeldInput.
LEMMA PromiseIsStep ==
  ASSUME NEW c, Promised(done.held, c, done'.held, done'.strokes, done'.moved),
         done'.command = c
  PROVE  Abstract!Apply(c)
<1> DEFINE held == done.held
           after == done'.held
           strokes == done'.strokes
           way == done'.moved
<1>1. \A stroke : Abstract!Parts(stroke) = PartsOf(stroke)
  BY DEF Abstract!Parts, PartsOf
<1>2. \A set : Abstract!Pressed(set) = PressedOf(set)
  BY DEF Abstract!Pressed, PressedOf
<1>3. \A stroke : Abstract!Struck(stroke) = StruckOf(held, stroke)
  BY DEF Abstract!Struck, StruckOf
<1>4. \A stroke : Abstract!HasPlace(stroke) <=> HasPlaceFor(held, stroke)
  BY <1>1, CountsAlike DEF Abstract!HasPlace, HasPlaceFor, Abstract!KeysOf
<1>5. \A text : Abstract!IsTyped(text) <=> IsTyped(text)
  BY DEF Abstract!IsTyped, IsTyped, Abstract!Supported, Supported, Abstract!Char, Char
<1>6. \A d : Abstract!Text(d) = [k \in DOMAIN Normalised(d.text) |-> {Normalised(d.text)[k]}]
  BY ReadsAlike DEF Abstract!Text
<1>7. Abstract!Stays <=> way = <<0, 0, 0>>
  BY DEF Abstract!Stays
<1>8. Promised(held, c, after, strokes, way)
  OBVIOUS
<1>9. CASE c.type = "KeyDown"
  <2>1. /\ HasPlaceFor(held, c.stroke) /\ after = held \cup PartsOf(c.stroke)
        /\ strokes = PressedOf(PartsOf(c.stroke) \ held) /\ way = <<0, 0, 0>>
    BY <1>8, <1>9 DEF Promised
  <2> QED BY <1>1, <1>2, <1>4, <1>7, <1>9, <2>1 DEF Abstract!Apply
<1>10. CASE c.type = "KeyUp"
  <2>1. after = held \ PartsOf(c.stroke) /\ strokes = <<>> /\ way = <<0, 0, 0>>
    BY <1>8, <1>10 DEF Promised
  <2> QED BY <1>1, <1>7, <1>10, <2>1 DEF Abstract!Apply
<1>11. CASE c.type = "KeyTap"
  <2>1. /\ HasPlaceFor(held, c.stroke) /\ after = held
        /\ strokes = PressedOf(StruckOf(held, c.stroke)) /\ way = <<0, 0, 0>>
    BY <1>8, <1>11 DEF Promised
  <2> QED BY <1>2, <1>3, <1>4, <1>7, <1>11, <2>1 DEF Abstract!Apply
<1>12. CASE c.type = "TypeAscii"
  <2>1. /\ held \cap (Key \cup Modifier) = {} /\ IsTyped(c.text) /\ after = held
        /\ strokes = [k \in DOMAIN Normalised(c.text) |-> {Normalised(c.text)[k]}]
        /\ way = <<0, 0, 0>>
    BY <1>8, <1>12 DEF Promised
  <2>2. Abstract!Text(c) = strokes /\ Abstract!IsTyped(c.text) /\ Abstract!Stays
    BY <1>5, <1>6, <1>7, <2>1
  <2> QED BY <1>12, <2>1, <2>2 DEF Abstract!Apply
<1>13. CASE c.type \in {"MouseButtonDown", "MouseButtonUp", "MouseClick"}
  BY <1>2, <1>7, <1>8, <1>13 DEF Promised, Abstract!Apply
<1>14. CASE c.type \in {"MouseMoveRel", "MouseWheel", "WaitMs"}
  BY <1>7, <1>8, <1>14 DEF Promised, Abstract!Apply
<1> QED BY <1>8, <1>9, <1>10, <1>11, <1>12, <1>13, <1>14 DEF Promised

\* With only the last look at cancellation ahead, the promise is kept.
LEMMA CompleteKeepsPromise ==
  ASSUME ExecutionInv, OnTrack, MoveInv, Complete
  PROVE  Promised(done.held, Current, done'.held, done'.strokes, done'.moved)
<1> DEFINE c == Current
           t == <<Check>>
           way == <<pointerX, pointerY, turned>>
<1>1. Running /\ steps = t /\ steps # <<>>
  BY DEF Complete
<1>2. Len(t) = 1 /\ t \in Seq(CommandStep) /\ ~(1 > 1)
  <2>1. Check \in CommandStep
    BY DEF Check, CommandStep
  <2> QED BY <2>1
<1>3. /\ c \in Command /\ c = Head(job.commands)
      /\ c.type \in OfKey \cup OfButton
                      \cup {"TypeAscii", "MouseMoveRel", "MouseWheel", "WaitMs"}
  BY <1>1, RunningFacts, CommandShape
<1>4. /\ done'.held = HostHolds /\ done'.strokes = log /\ done'.moved = way
  BY DEF Complete, HostHolds
<1>5. /\ c.type # "MouseMoveRel" => pointerX = 0 /\ pointerY = 0
      /\ c.type # "MouseWheel" => turned = 0
  BY <1>1, AtHand
<1> HIDE DEF t
<1>6. CASE c.type \in OfKey
  <2>1. KeysOnTrack
    BY <1>1, <1>6, AtHand
  <2>2. /\ FinallyShown(steps, host.keyboard) = host.keyboard
        /\ FinallyStruck(steps, host.keyboard, log) = log
    BY <1>1, <1>2 DEF FinallyShown, FinallyStruck
  <2>3. way = <<0, 0, 0>>
    BY <1>5, <1>6 DEF OfKey
  <2> QED BY <1>4, <2>1, <2>2, <2>3 DEF KeysOnTrack, HostHolds
<1>7. CASE c.type \in OfButton
  <2>1. ButtonsOnTrack
    BY <1>1, <1>7, AtHand
  <2>2. /\ FinallyShown(steps, host.mouse) = host.mouse
        /\ FinallyStruck(steps, host.mouse, log) = log
    BY <1>1, <1>2 DEF FinallyShown, FinallyStruck
  <2>3. way = <<0, 0, 0>>
    BY <1>5, <1>7 DEF OfButton
  <2> QED BY <1>4, <2>1, <2>2, <2>3 DEF ButtonsOnTrack, HostHolds
<1>8. CASE c.type = "TypeAscii"
  <2>1. TextOnTrack /\ c.text \in Seq(Char)
    BY <1>1, <1>3, <1>8, AtHand, CommandShape DEF Text
  <2>2. HasRead(log, c.text, Len(c.text) + 1) /\ host.keyboard = {}
    BY <1>1, <1>2, <2>1 DEF TextOnTrack, ReadingOn
  <2>3. log = [k \in DOMAIN Normalised(c.text) |-> {Normalised(c.text)[k]}]
    BY <2>1, <2>2, ReadAtEnds
  <2>4. done.held = host.mouse /\ IsTyped(c.text) /\ HostHolds = done.held
    BY <2>1, <2>2 DEF TextOnTrack, HostHolds
  <2>5. done.held \cap (Key \cup Modifier) = {}
    <3>1. host.mouse \in SUBSET Button
      BY DEF ExecutionInv, TypeOK
    <3> QED BY <2>4, <3>1, KindsAssumption
  <2>6. way = <<0, 0, 0>>
    BY <1>5, <1>8
  <2> QED BY <1>4, <1>8, <2>3, <2>4, <2>5, <2>6 DEF Promised
<1>9. CASE c.type = "MouseMoveRel"
  <2>1. MoveOnTrack
    BY <1>1, <1>9, AtHand
  <2>2. HostHolds = done.held /\ log = <<>> /\ dx = c.dx /\ dy = c.dy /\ movePhase = "Done"
    BY <1>1, <1>2, <2>1 DEF MoveOnTrack
  <2>3. pointerX = dx /\ pointerY = dy
    BY <2>2 DEF MoveInv, OnTarget
  <2>4. way = <<c.dx, c.dy, 0>>
    BY <1>5, <1>9, <2>2, <2>3
  <2> QED BY <1>4, <1>9, <2>2, <2>4 DEF Promised
<1>10. CASE c.type = "MouseWheel"
  <2>1. WheelOnTrack
    BY <1>1, <1>10, AtHand
  <2>2. HostHolds = done.held /\ log = <<>> /\ turned = c.wheel
    BY <1>1, <1>2, <2>1 DEF WheelOnTrack
  <2>3. way = <<0, 0, c.wheel>>
    BY <1>5, <1>10, <2>2
  <2> QED BY <1>4, <1>10, <2>2, <2>3 DEF Promised
<1>11. CASE c.type = "WaitMs"
  <2>1. HostHolds = done.held /\ log = <<>>
    BY <1>1, <1>11, AtHand DEF WaitOnTrack
  <2>2. way = <<0, 0, 0>>
    BY <1>5, <1>11
  <2> QED BY <1>4, <1>11, <2>1, <2>2 DEF Promised
<1> QED BY <1>3, <1>6, <1>7, <1>8, <1>9, <1>10, <1>11

\* What HeldInput sees of the executor.
promise == <<done.command, done.held, done.strokes, done.moved>>

\* Every step of the executor is one of HeldInput, or changes nothing there.
LEMMA StepIsPromised ==
  ASSUME ExecutionInv, OnTrack, MoveInv, [Next]_vars
  PROVE  [Abstract!Next]_promise
<1>1. ASSUME done' = done
      PROVE  UNCHANGED promise
  BY <1>1 DEF promise
<1>2. ASSUME done' = Nothing(done.held)
      PROVE  Abstract!Next
  <2>1. Abstract!TakeUp
    BY <1>2 DEF Nothing, Abstract!TakeUp, Abstract!Stays
  <2> QED BY <2>1 DEF Abstract!Next
<1>3. ASSUME NEW f \in Frame, ExecuteSingle(f) \/ BatchBegin(f)
      PROVE  Abstract!Next
  BY <1>2, <1>3 DEF ExecuteSingle, BatchBegin, TakeUp
<1>4. CASE Begin
  BY <1>2, <1>4 DEF Begin
<1>5. CASE Complete
  <2>1. Promised(done.held, Current, done'.held, done'.strokes, done'.moved)
    BY <1>5, CompleteKeepsPromise
  <2>2. Running
    BY <1>5 DEF Complete
  <2>3. Current \in Command /\ done'.command = Current
    BY <1>5, <2>2, RunningFacts DEF Complete
  <2>4. Abstract!Apply(Current)
    BY <2>1, <2>3, PromiseIsStep
  <2> QED BY <2>3, <2>4 DEF Abstract!Next
<1>6. CASE ReleaseMouse
  <2>1. steps = Release \/ (steps = Tail(Release) /\ host.keyboard = {})
    BY <1>6 DEF ReleaseMouse, ExecutionInv, ReleaseIsWhole
  <2>2. Head(steps).do = "releaseMouse"
    BY <1>6 DEF ReleaseMouse
  <2>3. host.keyboard = {}
    BY <2>1, <2>2, ReleaseSteps
  <2>4. done' = Nothing({})
    BY <1>6, <2>3 DEF ReleaseMouse
  <2>5. Abstract!ReleaseAll
    BY <2>4 DEF Nothing, Abstract!ReleaseAll, Abstract!Stays
  <2> QED BY <2>5 DEF Abstract!Next
<1>7. ASSUME NEW f \in Frame, Push(f) \/ BatchEnd(f)
      PROVE  UNCHANGED promise
  BY <1>1, <1>7 DEF Push, BatchEnd
<1>8. CASE \/ Refuse \/ NextStroke \/ WriteKeyboard \/ WriteMouse \/ WriteWheel \/ MovePointer
           \/ MoveDone \/ WriteFails \/ Cancel \/ GoOn \/ Emergency \/ ReleaseKeyboard
           \/ ToggleCaps \/ LedReport \/ UNCHANGED vars
  <2>1. done' = done
    BY <1>8 DEF Refuse, NextStroke, WriteKeyboard, WriteMouse, WriteWheel, MovePointer, MoveDone,
                WriteFails, Cancel, GoOn, Emergency, ReleaseKeyboard, ToggleCaps, LedReport, vars
  <2> QED BY <1>1, <2>1
<1> QED BY <1>3, <1>4, <1>5, <1>6, <1>7, <1>8 DEF Next

\* Whatever fails or is cancelled, the executor implements HeldInput: every command
\* that is done happened to the host as one step, with exactly the strokes it asks
\* for, and otherwise everything was released.
THEOREM CommandsHappenAsOneStep == ~LateReports => (Spec => ImplementsHeldInput)
<1> SUFFICES ASSUME ~LateReports PROVE Spec => Abstract!Spec
  BY DEF ImplementsHeldInput
<1>1. Init => Abstract!Init
  BY DEF Init, Nothing, Abstract!Init
<1>2. ExecutionInv /\ OnTrack /\ MoveInv /\ [Next]_vars => [Abstract!Next]_promise
  BY StepIsPromised
<1>3. Spec => [](ExecutionInv /\ OnTrack /\ CapsAgree)
  BY OnTrackHolds
<1>4. Spec => []MoveInv
  BY ExecutedMovementIsSound
<1> QED BY <1>1, <1>2, <1>3, <1>4, PTL DEF Spec, promise, Abstract!Spec
=============================================================================
