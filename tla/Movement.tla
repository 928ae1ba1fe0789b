------------------------------ MODULE Movement ------------------------------
(***************************************************************************)
(* MOUSE_MOVE_REL: RelativeMovementSteps of input_state.rs cuts a 16-bit   *)
(* displacement into steps of a signed byte, and send_relative_mouse_step  *)
(* of execution_core.rs sends each as one HID report, or as two when it    *)
(* goes straight down.  A report may fail and a cancellation may be seen.  *)
(*                                                                         *)
(* Execution composes this with the other commands; MoveSpec is one        *)
(* movement after another, alone.                                          *)
(***************************************************************************)
EXTENDS Integers

CONSTANTS
  MaxStep,    \* i8::MAX
  Coordinate  \* displacements a command asks for; i16 in the code

ASSUME MovementAssumption == MaxStep \in Nat \ {0} /\ Coordinate \subseteq Int

VARIABLES
  dx, dy,                   \* what MOUSE_MOVE_REL asks for
  remainingX, remainingY,   \* RelativeMovementSteps
  pointerX, pointerY,       \* how far the reports have moved the pointer
  reports,                  \* how many were sent
  movePhase

moveVars == <<dx, dy, remainingX, remainingY, pointerX, pointerY, reports, movePhase>>

\* Between the two reports of a step straight down the phase is "Nudged".
MovePhase == {"Moving", "Nudged", "Done", "Failed"}

MoveTypeOK ==
  /\ dx \in Coordinate \cup {0} /\ dy \in Coordinate \cup {0}
  /\ {remainingX, remainingY, pointerX, pointerY} \subseteq Int
  /\ reports \in Nat
  /\ movePhase \in MovePhase

\* clamp(-i8::MAX, i8::MAX): -128 is never a step.
Clamp(d) == IF d > MaxStep THEN MaxStep ELSE IF d < -MaxStep THEN -MaxStep ELSE d

MoveInit ==
  /\ dx = 0 /\ dy = 0 /\ remainingX = 0 /\ remainingY = 0
  /\ pointerX = 0 /\ pointerY = 0 /\ reports = 0
  /\ movePhase = "Done"

IsMoving == movePhase \in {"Moving", "Nudged"}

\* RelativeMovementSteps::new; the pointer is where it is.
BeginMove(x, y) ==
  /\ ~IsMoving
  /\ dx' = x /\ dy' = y /\ remainingX' = x /\ remainingY' = y
  /\ pointerX' = 0 /\ pointerY' = 0 /\ reports' = 0
  /\ movePhase' = "Moving"

IsOver == remainingX = 0 /\ remainingY = 0

\* The iterator's next(): both axes at once.
Advance ==
  /\ remainingX' = remainingX - Clamp(remainingX)
  /\ remainingY' = remainingY - Clamp(remainingY)

\* A step goes straight down when the x axis is done and y still grows.
StraightDown == remainingX = 0 /\ remainingY > 0

\* The host applies a report as it is.
Report(x, y) ==
  /\ pointerX' = pointerX + x
  /\ pointerY' = pointerY + y
  /\ reports' = reports + 1

Step ==
  /\ movePhase = "Moving" /\ ~IsOver /\ ~StraightDown
  /\ Advance
  /\ Report(Clamp(remainingX), Clamp(remainingY))
  /\ UNCHANGED <<dx, dy, movePhase>>

\* Mutant: the second report is left out.
NudgeForGood ==
  /\ movePhase = "Moving" /\ StraightDown
  /\ Advance
  /\ Report(1, Clamp(remainingY))
  /\ UNCHANGED <<dx, dy, movePhase>>

\* A step straight down moves one to the right as well ...
Nudge ==
  /\ movePhase = "Moving" /\ StraightDown
  /\ Advance
  /\ Report(1, Clamp(remainingY))
  /\ movePhase' = "Nudged"
  /\ UNCHANGED <<dx, dy>>

\* ... and back.  Cancellation is not looked at in between.
NudgeBack ==
  /\ movePhase = "Nudged"
  /\ Report(-1, 0)
  /\ movePhase' = "Moving"
  /\ UNCHANGED <<dx, dy, remainingX, remainingY>>

EndMove ==
  /\ movePhase = "Moving" /\ IsOver
  /\ movePhase' = "Done"
  /\ UNCHANGED <<dx, dy, remainingX, remainingY, pointerX, pointerY, reports>>

\* A report is not accepted, or a cancellation is seen between two steps.
AbandonMove ==
  /\ IsMoving
  /\ movePhase' = "Failed"
  /\ UNCHANGED <<dx, dy, remainingX, remainingY, pointerX, pointerY, reports>>

\* The movement is history.
ForgetMove ==
  /\ ~IsMoving
  /\ dx' = 0 /\ dy' = 0 /\ remainingX' = 0 /\ remainingY' = 0
  /\ pointerX' = 0 /\ pointerY' = 0 /\ reports' = 0
  /\ movePhase' = "Done"

MoveNext ==
  \/ \E x, y \in Coordinate : BeginMove(x, y)
  \/ Step \/ Nudge \/ NudgeBack \/ EndMove \/ AbandonMove \/ ForgetMove

MoveSpec == MoveInit /\ [][MoveNext]_moveVars

-----------------------------------------------------------------------------
\* An acknowledged movement moves the pointer exactly as far as it says.
OnTarget == movePhase = "Done" => pointerX = dx /\ pointerY = dy

\* b is between a and c, whichever is larger.
Between(a, b, c) == (a <= b /\ b <= c) \/ (c <= b /\ b <= a)

\* Wherever it is broken off, the pointer is on the way: never past the target, and
\* at most one to the right of the way while a step straight down is half sent.
OnTheWay ==
  /\ Between(0, pointerY, dy)
  /\ \/ Between(0, pointerX, dx)
     \/ movePhase \in {"Nudged", "Failed"} /\ pointerX = dx + 1

\* Where the pointer is agrees with what was asked for, at every moment.
MoveInv == MoveTypeOK /\ OnTarget /\ OnTheWay

\* A report never carries -128, and no step is empty.
ReportsAreSteps ==
  [][reports' = reports + 1 =>
       /\ pointerX' - pointerX \in -MaxStep .. MaxStep
       /\ pointerY' - pointerY \in -MaxStep .. MaxStep
       /\ <<pointerX', pointerY'>> # <<pointerX, pointerY>>]_moveVars
=============================================================================
