------------------------------- MODULE Typing -------------------------------
(***************************************************************************)
(* From characters to strokes and back: ascii_to_keystroke of commands.rs  *)
(* and ascii_strokes of input_state.rs, with the Caps Lock state that the  *)
(* firmware has been told of, and what a host reads from a stroke with the *)
(* Caps Lock state it has.                                                 *)
(***************************************************************************)
EXTENDS Naturals, FiniteSets, Sequences

\* Characters that stand for their kind: letters, others on a key of two, the line
\* ends, and one outside the US layout.
Char == {"a", "A", "1", "!", "CR", "LF", "Umlaut"}
Letter == {"a", "A"}

Supported == Char \ {"Umlaut"}

\* ascii_to_keystroke
KeyOf(char) ==
  CASE char \in Letter -> "KeyA"
    [] char \in {"1", "!"} -> "Key1"
    [] char \in {"CR", "LF"} -> "Enter"

IsShifted(char) == char \in {"A", "!"}

StrokeOf(char, shift) ==
  [modifiers |-> IF shift THEN {"LeftShift"} ELSE {}, key |-> KeyOf(char)]

\* Mutant: Caps Lock makes every letter a shifted one.
KeystrokeOr(char, caps) == StrokeOf(char, IsShifted(char) \/ (caps /\ char \in Letter))

\* ascii_to_keystroke_with_caps_lock
Keystroke(char, caps) == StrokeOf(char, IsShifted(char) # (caps /\ char \in Letter))

\* How far ascii_strokes moves on from index i.
Width(chars, i) ==
  IF chars[i] = "CR" /\ i < Len(chars) /\ chars[i + 1] = "LF" THEN 2 ELSE 1

\* External: what a host with a US layout reads when these go down together.
Read(pressed, caps) ==
  LET shift == "LeftShift" \in pressed
  IN  CASE "KeyA" \in pressed -> IF shift # caps THEN "A" ELSE "a"
        [] "Key1" \in pressed -> IF shift THEN "!" ELSE "1"
        [] "Enter" \in pressed -> "LF"

\* The places of a text that are read: a LF after a CR belongs to it.
Kept(chars) ==
  {i \in DOMAIN chars : ~(chars[i] = "LF" /\ i > 1 /\ chars[i - 1] = "CR")}

KeptBefore(chars, i) == {j \in Kept(chars) : j < i}

\* The k-th of them.
Place(chars, k) ==
  CHOOSE i \in Kept(chars) : Cardinality(KeptBefore(chars, i)) = k - 1

\* A text as it is to be read.
Normalised(chars) ==
  [k \in 1 .. Cardinality(Kept(chars)) |->
     LET char == chars[Place(chars, k)] IN IF char = "CR" THEN "LF" ELSE char]
=============================================================================
