---------------------------- MODULE MCExecution ----------------------------
(* Small instances of Execution for TLC.                                   *)
EXTENDS Execution

\* With two places, a third key is one too many.
KeyPayload == {<<{}, "KeyA">>, <<{"LeftShift"}, "Key1">>, <<{"LeftShift"}, None>>}

\* Every text of one or two characters, and some longer ones with line ends.
Texts == [1 .. 1 -> Char] \cup [1 .. 2 -> Char]
           \cup {<<"CR", "LF", "LF">>, <<"CR", "CR", "LF">>, <<"A", "a", "1">>}

\* A step is 2 at the most: one, two and none of them on each axis, both ways.
Near == {-3, 0, 1, 3}
Word == {<<255, 253>>, <<0, 0>>, <<0, 1>>, <<0, 3>>}

Request(type, payload) ==
  [version |-> 2, flags |-> 0, sequence |-> 1, type |-> type, payload |-> payload]

Accepted ==
  {Request(type, payload) : type \in OfKey, payload \in KeyPayload}
    \cup {Request("KeyDown", <<{}, "Enter">>)}
    \cup {Request("TypeAscii", text) : text \in Texts}
    \cup {Request(type, <<{button}>>) : type \in OfButton, button \in Button}
    \cup {Request("MouseMoveRel", x \o y) : x, y \in Word}
    \cup {Request("MouseWheel", <<254>>), Request("WaitMs", <<0, 0, 1, 4>>)}
    \cup {Request(type, <<>>) : type \in {"BatchBegin", "BatchEnd"}}

\* Lengths, masks and waits that do not decode, and headers that are not a request's.
Refused ==
  {Request("KeyDown", <<{}>>), Request("MouseClick", <<{}>>),
   Request("MouseMoveRel", <<0, 1, 0>>), Request("WaitMs", <<0, 1, 0, 0>>),
   Request("BatchEnd", <<0>>), Request("Unknown", <<>>), Request("Ping", <<>>),
   [Request("BatchBegin", <<>>) EXCEPT !.version = 3],
   [Request("BatchBegin", <<>>) EXCEPT !.sequence = 0],
   [Request("BatchBegin", <<>>) EXCEPT !.flags = 1]}

SmallFrames == Accepted \cup Refused
=============================================================================
