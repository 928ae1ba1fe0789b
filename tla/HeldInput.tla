----------------------------- MODULE HeldInput -----------------------------
(***************************************************************************)
(* What the executor promises: every command happens to the host as one    *)
(* step, with the key strokes it asks for and no others, or else all input *)
(* is released.  Held input is a set, a text is what is read of it, and a  *)
(* move is where it leads; there are no reports, delays or arrays of key   *)
(* codes.                                                                  *)
(***************************************************************************)
EXTENDS Typing

CONSTANTS
  Modifier, Key, Button,
  MaxHeldKeys,  \* MAX_HELD_KEYS, 6 in the code
  Command,      \* what may be executed, as records with a type
  None

VARIABLES
  last,     \* the command that was done last, or None
  held,     \* keys, modifiers and buttons that are down
  strokes,  \* what the last command pressed, one set for each moment; of a text,
            \* the characters
  moved     \* how far it moved the pointer on both axes, and turned the wheel

\* A stroke has modifiers, and a key or None.
Parts(stroke) == stroke.modifiers \cup ({stroke.key} \ {None})

KeysOf(stroke) == Parts(stroke) \cap Key

Pressed(set) == IF set = {} THEN <<>> ELSE <<set>>

\* A further key is refused when all places are taken.
HasPlace(stroke) == Cardinality((held \cap Key) \cup KeysOf(stroke)) <= MaxHeldKeys

\* A tap strikes its key, or its modifiers if there is no key, even if that is held
\* already, and leaves everything as it was.
Struck(stroke) ==
  IF stroke.key = None THEN stroke.modifiers
  ELSE {stroke.key} \cup (stroke.modifiers \ held)

IsTyped(text) == \A k \in DOMAIN text : text[k] \in Supported

Text(c) == LET chars == Normalised(c.text) IN [k \in DOMAIN chars |-> {chars[k]}]

Stays == moved' = <<0, 0, 0>>

Apply(c) ==
  /\ last' = c
  /\ \/ /\ c.type = "KeyDown" /\ HasPlace(c.stroke)
        /\ held' = held \cup Parts(c.stroke)
        /\ strokes' = Pressed(Parts(c.stroke) \ held)
        /\ Stays
     \/ /\ c.type = "KeyUp"
        /\ held' = held \ Parts(c.stroke)
        /\ strokes' = <<>>
        /\ Stays
     \/ /\ c.type = "KeyTap" /\ HasPlace(c.stroke)
        /\ held' = held
        /\ strokes' = Pressed(Struck(c.stroke))
        /\ Stays
     \/ /\ c.type = "TypeAscii" /\ held \cap (Key \cup Modifier) = {} /\ IsTyped(c.text)
        /\ held' = held
        /\ strokes' = Text(c)
        /\ Stays
     \/ /\ c.type = "MouseButtonDown"
        /\ held' = held \cup {c.button}
        /\ strokes' = Pressed({c.button} \ held)
        /\ Stays
     \/ /\ c.type = "MouseButtonUp"
        /\ held' = held \ {c.button}
        /\ strokes' = <<>>
        /\ Stays
     \/ /\ c.type = "MouseClick"
        /\ held' = held
        /\ strokes' = <<{c.button}>>
        /\ Stays
     \/ /\ c.type = "MouseMoveRel"
        /\ held' = held
        /\ strokes' = <<>>
        /\ moved' = <<c.dx, c.dy, 0>>
     \/ /\ c.type = "MouseWheel"
        /\ held' = held
        /\ strokes' = <<>>
        /\ moved' = <<0, 0, c.wheel>>
     \/ /\ c.type = "WaitMs"
        /\ held' = held
        /\ strokes' = <<>>
        /\ Stays

\* Nothing happens to the host until the next command is done.
TakeUp == last' = None /\ held' = held /\ strokes' = <<>> /\ Stays

ReleaseAll == last' = None /\ held' = {} /\ strokes' = <<>> /\ Stays

Init == last = None /\ held = {} /\ strokes = <<>> /\ moved = <<0, 0, 0>>

Next == TakeUp \/ ReleaseAll \/ \E c \in Command : Apply(c)

Spec == Init /\ [][Next]_<<last, held, strokes, moved>>
=============================================================================
