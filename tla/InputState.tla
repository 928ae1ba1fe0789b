----------------------------- MODULE InputState -----------------------------
(***************************************************************************)
(* KeyboardState and MouseState of src/src/input_state.rs: the operations  *)
(* on held input and the plans of taps and clicks.  Modifiers and buttons  *)
(* are sets for their bit masks; key codes are the active part of the      *)
(* array, in order.                                                        *)
(***************************************************************************)
EXTENDS Naturals, FiniteSets, Sequences

CONSTANTS
  Modifier, Key, Button,
  MaxHeldKeys, \* MAX_HELD_KEYS
  None         \* key code zero

ASSUME InputAssumption == MaxHeldKeys \in Nat \ {0} /\ None \notin Key

Stroke == [modifiers: SUBSET Modifier, key: Key \cup {None}]

KeyboardState ==
  {k \in [modifiers: SUBSET Modifier, keycodes: Seq(Key)] :
     /\ Len(k.keycodes) <= MaxHeldKeys
     /\ \A i, j \in DOMAIN k.keycodes : k.keycodes[i] = k.keycodes[j] => i = j}

Idle == [modifiers |-> {}, keycodes |-> <<>>]

IsIdle(keyboard) == keyboard = Idle

\* The report the host is sent, in which order means nothing.
View(keyboard) ==
  keyboard.modifiers \cup {keyboard.keycodes[i] : i \in DOMAIN keyboard.keycodes}

HoldsKey(keyboard, key) == \E i \in DOMAIN keyboard.keycodes : keyboard.keycodes[i] = key

TakesPlace(keyboard, stroke) == stroke.key # None /\ ~HoldsKey(keyboard, stroke.key)

\* key_down: TooManyKeys leaves the state alone.
CanKeyDown(keyboard, stroke) ==
  TakesPlace(keyboard, stroke) => Len(keyboard.keycodes) < MaxHeldKeys

KeyDown(keyboard, stroke) ==
  [modifiers |-> keyboard.modifiers \cup stroke.modifiers,
   keycodes |-> IF TakesPlace(keyboard, stroke) THEN Append(keyboard.keycodes, stroke.key)
                ELSE keyboard.keycodes]

\* The codes behind a place move up into it.
Without(keycodes, place) ==
  [i \in 1 .. Len(keycodes) - 1 |-> IF i < place THEN keycodes[i] ELSE keycodes[i + 1]]

\* key_position, of a key that is held
Position(keyboard, key) ==
  CHOOSE i \in DOMAIN keyboard.keycodes : keyboard.keycodes[i] = key

KeyUp(keyboard, stroke) ==
  [modifiers |-> keyboard.modifiers \ stroke.modifiers,
   keycodes |-> IF HoldsKey(keyboard, stroke.key)
                THEN Without(keyboard.keycodes, Position(keyboard, stroke.key))
                ELSE keyboard.keycodes]

\* Mutant: a key that is held is pressed where it is.
StrikesNothingHeld(keyboard, stroke) == FALSE

\* tap_plan: whether what is to be struck is down already.
StrikesHeld(keyboard, stroke) ==
  IF stroke.key = None THEN keyboard.modifiers \cap stroke.modifiers # {}
  ELSE HoldsKey(keyboard, stroke.key)

\* The states a tap goes through: released first if need be, pressed, restored.
\* With a key, the modifiers held stay down.
TapPlan(keyboard, stroke) ==
  LET released == KeyUp(keyboard, [stroke EXCEPT !.modifiers =
                                     IF stroke.key = None THEN @ ELSE {}])
  IN  IF StrikesHeld(keyboard, stroke)
      THEN <<released, KeyDown(released, stroke), keyboard>>
      ELSE <<KeyDown(keyboard, stroke), keyboard>>

CanTap(keyboard, stroke) ==
  StrikesHeld(keyboard, stroke) \/ CanKeyDown(keyboard, stroke)

\* click_plan
ClickPlan(buttons, button) ==
  IF button \in buttons
  THEN <<buttons \ {button}, buttons, buttons>>
  ELSE <<buttons \cup {button}, buttons>>
=============================================================================
