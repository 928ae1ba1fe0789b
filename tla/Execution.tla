------------------------------ MODULE Execution ------------------------------
(***************************************************************************)
(* Commands and batches as the executor runs them (execution_core.rs) and  *)
(* as BatchCollector validates them beforehand (batch.rs), with the host   *)
(* that sees the reports.  Requests come as frames.  Keyboard and mouse    *)
(* are two interfaces, each of which can fail.  Protocol, InputState,      *)
(* Typing and Movement have the parts.                                     *)
(*                                                                         *)
(* A write fails when the host has disabled the interface, and then the    *)
(* host has let go of what was held there.                                 *)
(***************************************************************************)
EXTENDS Protocol, Movement

CONSTANTS
  Frame,         \* the requests the client may send
  BatchLimit,    \* BATCH_MAX_COMMANDS, 32 in the code
  BatchPayload,  \* BATCH_MAX_PAYLOAD_BYTES, 8192 in the code
  LateReports    \* Caps Lock may change, or its report be late, during a job

\* The request of frame f is accepted, with a command of this class.
IsAccepted(f, class) == IsRequest(f) /\ Decodes(f) /\ Class(Decode(f)) = class

\* Commands that the executor may be given.
Command == {Decode(f) : f \in {g \in Frame : IsAccepted(g, "Mutating")}}

Characters == {"KeyA", "Key1", "Enter"}

ASSUME ExecutionAssumption ==
  /\ {BatchLimit, BatchPayload} \subseteq Nat
  /\ LateReports \in BOOLEAN
  /\ Characters \subseteq Key /\ "LeftShift" \in Modifier

\* A key code is no modifier's bit, and neither is a button's.
ASSUME KindsAssumption ==
  /\ Modifier \cap Key = {}
  /\ Button \cap (Modifier \cup Key) = {}

ASSUME FrameAssumption ==
  /\ \A f \in Frame : HasBytes(f)
  /\ None \notin Command
  /\ \A c \in Command : c.type = "MouseMoveRel" => c.dx \in Coordinate /\ c.dy \in Coordinate

Held == SUBSET (Modifier \cup Key \cup Button)

VARIABLES
  input,     \* InputState: what the executor has committed
  host,      \* what the host takes to be held, by interface
  job,       \* commands yet to finish, whether they are a batch, its shadows
  steps,     \* of the command at hand: checks, reports and delays
  collector, \* BatchCollector, or None
  log,       \* history: strokes the host has seen of the command at hand
  turned,    \* history: how far the command at hand has turned the wheel
  done,      \* history: the last command, and what it has done to the host
  hostCaps,  \* Caps Lock at the host
  capsLock   \* CAPS_LOCK_ENABLED

capsVars == <<hostCaps, capsLock>>
vars == <<input, host, job, steps, collector, log, turned, done, capsVars, moveVars>>

InputValue == [keyboard: KeyboardState, mouse: SUBSET Button]
NoInput == [keyboard |-> Idle, mouse |-> {}]
Running == job # None

Check == [do |-> "check"]
Delay == [do |-> "delay"]
KeyboardReport(keyboard) == [do |-> "keyboard", state |-> keyboard]
MouseReport(buttons) == [do |-> "mouse", state |-> buttons]
WheelReport(wheel) == [do |-> "wheel", by |-> wheel]
Move == [do |-> "move"]

\* The strokes of a text from this place on, with the Caps Lock state of its begin.
Strokes(place, caps) == [do |-> "strokes", place |-> place, caps |-> caps]

CommandStep ==
  [do: {"check", "delay", "move"}]
    \cup [do: {"keyboard"}, state: KeyboardState]
    \cup [do: {"mouse"}, state: SUBSET Button]
    \cup [do: {"wheel"}, by: SignedInt(256)]
    \cup [do: {"strokes"}, place: Nat \ {0}, caps: BOOLEAN]

Job == [commands: Seq(Command), batch: BOOLEAN, shadows: Seq(InputValue)]

Release == <<[do |-> "releaseKeyboard"], [do |-> "releaseMouse"]>>
IsReleasing == ~Running /\ steps # <<>>

TypeOK ==
  /\ input \in InputValue
  /\ host \in [keyboard: SUBSET (Modifier \cup Key), mouse: SUBSET Button]
  /\ Running => job \in Job /\ job.commands # <<>> /\ steps \in Seq(CommandStep)
  /\ collector # None =>
       /\ collector.commands \in Seq(Command) /\ Len(collector.commands) <= BatchLimit
       /\ collector.payload \in 0 .. BatchPayload
       /\ collector.shadows \in Seq(InputValue)
  /\ done.command \in Command \cup {None} /\ done.held \in Held
  /\ turned \in Int
  /\ {hostCaps, capsLock} \subseteq BOOLEAN
  /\ MoveTypeOK /\ (IsMoving => Running /\ steps # <<>> /\ Head(steps) = Move)

-----------------------------------------------------------------------------
(* What a command does.                                                    *)

\* execute_keyboard_pulse, execute_mouse_pulse: a delay after every report but the last.
Pulse(sent) ==
  [i \in 1 .. 2 * Len(sent) - 1 |-> IF i % 2 = 0 THEN Delay ELSE sent[(i + 1) \div 2]]

KeyboardPulse(plan) == Pulse([k \in DOMAIN plan |-> KeyboardReport(plan[k])])
MousePulse(plan) == Pulse([k \in DOMAIN plan |-> MouseReport(plan[k])])

IsTyped(text) == \A k \in DOMAIN text : text[k] \in Supported

\* TooManyKeys, KeyboardBusy and UnsupportedAscii, before any report.
Refuses(c, state) ==
  \/ c.type = "KeyDown" /\ ~CanKeyDown(state.keyboard, c.stroke)
  \/ c.type = "KeyTap" /\ ~CanTap(state.keyboard, c.stroke)
  \/ c.type = "TypeAscii"
       /\ ~(IsIdle(state.keyboard) /\ IsTyped(c.text))

\* execute_command_once between its first and its last look at cancellation.
Body(c, state) ==
  CASE c.type = "KeyDown" -> <<KeyboardReport(KeyDown(state.keyboard, c.stroke))>>
    [] c.type = "KeyUp" -> <<KeyboardReport(KeyUp(state.keyboard, c.stroke))>>
    [] c.type = "KeyTap" -> KeyboardPulse(TapPlan(state.keyboard, c.stroke))
    [] c.type = "TypeAscii" -> <<Strokes(1, capsLock)>>
    [] c.type = "MouseButtonDown" -> <<MouseReport(state.mouse \cup {c.button})>>
    [] c.type = "MouseButtonUp" -> <<MouseReport(state.mouse \ {c.button})>>
    [] c.type = "MouseClick" -> MousePulse(ClickPlan(state.mouse, c.button))
    [] c.type = "MouseMoveRel" -> <<Move>>
    [] c.type = "MouseWheel" -> <<WheelReport(c.wheel)>>
    [] c.type = "WaitMs" -> <<Delay>>

-----------------------------------------------------------------------------
(* What BatchCollector makes of a command.                                 *)

\* validate_command refuses what execution would refuse.
IsValid(c, shadow) ==
  /\ c.type = "KeyDown" => CanKeyDown(shadow.keyboard, c.stroke)
  /\ c.type = "KeyTap" => CanTap(shadow.keyboard, c.stroke)
  /\ c.type = "TypeAscii" => IsIdle(shadow.keyboard) /\ IsTyped(c.text)

\* Mutant: KEY_UP is forgotten.
ShadowWithoutKeyUp(c, shadow) ==
  CASE c.type = "KeyDown" -> [shadow EXCEPT !.keyboard = KeyDown(@, c.stroke)]
    [] c.type = "MouseButtonDown" -> [shadow EXCEPT !.mouse = @ \cup {c.button}]
    [] c.type = "MouseButtonUp" -> [shadow EXCEPT !.mouse = @ \ {c.button}]
    [] OTHER -> shadow

\* validate_command: what will be held after the command.
ShadowAfter(c, shadow) ==
  CASE c.type = "KeyDown" -> [shadow EXCEPT !.keyboard = KeyDown(@, c.stroke)]
    [] c.type = "KeyUp" -> [shadow EXCEPT !.keyboard = KeyUp(@, c.stroke)]
    [] c.type = "MouseButtonDown" -> [shadow EXCEPT !.mouse = @ \cup {c.button}]
    [] c.type = "MouseButtonUp" -> [shadow EXCEPT !.mouse = @ \ {c.button}]
    [] OTHER -> shadow

-----------------------------------------------------------------------------
Nothing(held) ==
  [command |-> None, held |-> held, strokes |-> <<>>, moved |-> <<0, 0, 0>>]

Init ==
  /\ input = NoInput
  /\ host = [keyboard |-> {}, mouse |-> {}]
  /\ job = None /\ steps = <<>> /\ collector = None
  /\ log = <<>> /\ turned = 0 /\ done = Nothing({})
  /\ hostCaps = FALSE /\ capsLock = FALSE
  /\ MoveInit

\* With LateReports FALSE a job finds the firmware told of Caps Lock.
TakeUp ==
  /\ ~Running /\ steps = <<>> /\ collector = None
  /\ LateReports \/ capsLock = hostCaps
  /\ done' = Nothing(done.held)

\* The dispatcher gives the executor one command ...
ExecuteSingle(f) ==
  /\ TakeUp /\ IsAccepted(f, "Mutating")
  /\ job' = [commands |-> <<Decode(f)>>, batch |-> FALSE, shadows |-> <<>>]
  /\ UNCHANGED <<input, host, steps, collector, log, turned, capsVars, moveVars>>

\* ... or collects a batch, beginning with what is held now.  Only the last shadow is
\* in the code; those before it are history.
BatchBegin(f) ==
  /\ TakeUp /\ IsAccepted(f, "BatchBegin")
  /\ collector' = [commands |-> <<>>, payload |-> 0, shadows |-> <<input>>]
  /\ UNCHANGED <<input, host, job, steps, log, turned, capsVars, moveVars>>

\* The two limits of push.
Fits(c) ==
  /\ Len(collector.commands) < BatchLimit
  /\ collector.payload + PayloadLength(c) <= BatchPayload

Shadow == collector.shadows[Len(collector.shadows)]

\* push; a refused command changes nothing.
Push(f) ==
  /\ collector # None /\ IsAccepted(f, "Mutating")
  /\ LET c == Decode(f)
     IN  /\ IsValid(c, Shadow) /\ Fits(c)
         /\ collector' = [commands |-> Append(collector.commands, c),
                          payload |-> collector.payload + PayloadLength(c),
                          shadows |-> Append(collector.shadows, ShadowAfter(c, Shadow))]
  /\ UNCHANGED <<input, host, job, steps, log, turned, done, capsVars, moveVars>>

\* BATCH_END; an empty batch is done at once.
BatchEnd(f) ==
  /\ collector # None /\ IsAccepted(f, "BatchEnd")
  /\ collector' = None
  /\ IF collector.commands = <<>>
     THEN UNCHANGED job
     ELSE job' = [commands |-> collector.commands, batch |-> TRUE,
                  shadows |-> collector.shadows]
  /\ UNCHANGED <<input, host, steps, log, turned, done, capsVars, moveVars>>

AtCommand == Running /\ steps = <<>>

\* execute_owned_command: the command is encoded and decoded once more.
Current == Decode(Encode(Head(job.commands)))

IsAt(do) == Running /\ steps # <<>> /\ Head(steps).do = do

\* execute_command_once, up to its first report.
Begin ==
  /\ AtCommand /\ ~Refuses(Current, input)
  /\ steps' = <<Check>> \o Body(Current, input) \o <<Check>>
  /\ log' = <<>> /\ turned' = 0 /\ done' = Nothing(done.held)
  /\ UNCHANGED <<input, host, job, collector, capsVars, moveVars>>

\* The loop over the strokes of a text, which are computed before it.
NextStroke ==
  /\ IsAt("strokes")
  /\ LET text == Current.text
         i == Head(steps).place
         caps == Head(steps).caps
     IN  steps' = IF i > Len(text) THEN Tail(steps)
                  ELSE KeyboardPulse(TapPlan(input.keyboard, Keystroke(text[i], caps)))
                         \o <<Strokes(i + Width(text, i), caps)>> \o Tail(steps)
  /\ UNCHANGED <<input, host, job, collector, log, turned, done, capsVars, moveVars>>

\* reset_inputs: the logical state first, then both interfaces.
StartRelease ==
  /\ input' = NoInput
  /\ job' = None
  /\ steps' = Release

\* An error that is no failure: a single command has had no effect and needs no
\* release; execute_batch releases after any error.
Refuse ==
  /\ AtCommand /\ Refuses(Current, input)
  /\ IF job.batch
     THEN StartRelease
     ELSE job' = None /\ UNCHANGED <<input, steps>>
  /\ UNCHANGED <<host, collector, log, turned, done, capsVars, moveVars>>

\* What the host sees go down; of a text, what it reads.
Logged(pressed, down) ==
  log' = IF pressed = {} THEN log
         ELSE Append(log, IF Current.type = "TypeAscii" THEN {Read(down, hostCaps)}
                          ELSE pressed)

\* commit_keyboard_state: the state is taken over when the report is out.
WriteKeyboard ==
  /\ IsAt("keyboard")
  /\ LET next == Head(steps).state
     IN  /\ host' = [host EXCEPT !.keyboard = View(next)]
         /\ input' = [input EXCEPT !.keyboard = next]
         /\ Logged(View(next) \ host.keyboard, View(next))
  /\ steps' = Tail(steps)
  /\ UNCHANGED <<job, collector, turned, done, capsVars, moveVars>>

\* commit_mouse_state
WriteMouse ==
  /\ IsAt("mouse")
  /\ LET next == Head(steps).state
     IN  /\ host' = [host EXCEPT !.mouse = next]
         /\ input' = [input EXCEPT !.mouse = next]
         /\ Logged(next \ host.mouse, next)
  /\ steps' = Tail(steps)
  /\ UNCHANGED <<job, collector, turned, done, capsVars, moveVars>>

\* The report of the wheel repeats the buttons.
WriteWheel ==
  /\ IsAt("wheel")
  /\ host' = [host EXCEPT !.mouse = input.mouse]
  /\ turned' = turned + Head(steps).by
  /\ steps' = Tail(steps)
  /\ UNCHANGED <<input, job, collector, log, done, capsVars, moveVars>>

\* The loop over the steps of a movement, whose reports repeat the buttons.
MovePointer ==
  /\ IsAt("move")
  /\ BeginMove(Current.dx, Current.dy) \/ Step \/ Nudge \/ NudgeBack
  /\ UNCHANGED <<input, host, job, steps, collector, log, turned, done, capsVars>>

MoveDone ==
  /\ IsAt("move") /\ EndMove
  /\ steps' = Tail(steps)
  /\ UNCHANGED <<input, host, job, collector, log, turned, done, capsVars>>

\* A report is not accepted: HidWrite.
WriteFails ==
  /\ \/ /\ IsAt("keyboard")
        /\ host' = [host EXCEPT !.keyboard = {}]
        /\ UNCHANGED moveVars
     \/ /\ IsAt("mouse") \/ IsAt("wheel")
        /\ host' = [host EXCEPT !.mouse = {}]
        /\ UNCHANGED moveVars
     \/ /\ movePhase = "Nudged" \/ ~IsOver
        /\ host' = [host EXCEPT !.mouse = {}]
        /\ AbandonMove
  /\ StartRelease
  /\ UNCHANGED <<collector, log, turned, done, capsVars>>

\* A cancellation is seen: before a command, at a check or in a delay, and before or
\* after each step of a movement.
Cancel ==
  /\ \/ /\ AtCommand \/ IsAt("check") \/ IsAt("delay") \/ IsAt("strokes")
        /\ UNCHANGED moveVars
     \/ /\ movePhase = "Moving"
        /\ AbandonMove
  /\ StartRelease
  /\ UNCHANGED <<host, collector, log, turned, done, capsVars>>

\* No cancellation is seen, or the delay is over.
GoOn ==
  /\ (IsAt("check") \/ IsAt("delay")) /\ Len(steps) > 1
  /\ steps' = Tail(steps)
  /\ UNCHANGED <<input, host, job, collector, log, turned, done, capsVars, moveVars>>

\* The last look at cancellation ends the command; the last command, the job.
Complete ==
  /\ Running /\ steps = <<Check>>
  /\ steps' = <<>>
  /\ done' = [command |-> Head(job.commands), held |-> host.keyboard \cup host.mouse,
              strokes |-> log, moved |-> <<pointerX, pointerY, turned>>]
  /\ log' = <<>> /\ turned' = 0 /\ ForgetMove
  /\ IF Len(job.commands) = 1
     THEN job' = None
     ELSE job' = [job EXCEPT !.commands = Tail(@),
                             !.shadows = IF job.batch THEN Tail(@) ELSE @]
  /\ UNCHANGED <<input, host, collector, capsVars>>

\* STOP_ALL or a safety event: ExecutionJob::Emergency; the dispatcher drops the batch.
Emergency ==
  /\ ~Running /\ steps = <<>>
  /\ StartRelease
  /\ collector' = None
  /\ UNCHANGED <<host, log, turned, done, capsVars, moveVars>>

\* Mutant: the mouse is not tried when the keyboard has failed.
ReleaseKeyboardFirst ==
  /\ IsReleasing /\ Head(steps).do = "releaseKeyboard"
  /\ steps' \in {Tail(steps), <<>>}
  /\ host' = [host EXCEPT !.keyboard = {}]
  /\ UNCHANGED <<input, job, collector, log, turned, done, capsVars, moveVars>>

\* The zero report, sent or failed: the host holds nothing here either way, and the
\* other interface has its turn.
ReleaseKeyboard ==
  /\ IsReleasing /\ Head(steps).do = "releaseKeyboard"
  /\ steps' = Tail(steps)
  /\ host' = [host EXCEPT !.keyboard = {}]
  /\ UNCHANGED <<input, job, collector, log, turned, done, capsVars, moveVars>>

ReleaseMouse ==
  /\ IsReleasing /\ Head(steps).do = "releaseMouse"
  /\ steps' = <<>>
  /\ host' = [host EXCEPT !.mouse = {}]
  /\ done' = Nothing(host.keyboard)
  /\ log' = <<>> /\ turned' = 0 /\ ForgetMove
  /\ UNCHANGED <<input, job, collector, capsVars>>

\* Somebody strikes Caps Lock: on another keyboard, or with a KEY_TAP.
ToggleCaps ==
  /\ LateReports \/ (~Running /\ collector = None)
  /\ hostCaps' = ~hostCaps
  /\ UNCHANGED <<input, host, job, steps, collector, log, turned, done, capsLock,
                 moveVars>>

\* KeyboardLedHandler or keyboard_led_task: a report has the state, not the change.
LedReport ==
  /\ capsLock' = hostCaps
  /\ UNCHANGED <<input, host, job, steps, collector, log, turned, done, hostCaps,
                 moveVars>>

Next ==
  \/ \E f \in Frame : ExecuteSingle(f) \/ BatchBegin(f) \/ Push(f) \/ BatchEnd(f)
  \/ Begin \/ Refuse \/ NextStroke \/ WriteKeyboard \/ WriteMouse \/ WriteWheel
  \/ MovePointer \/ MoveDone
  \/ WriteFails \/ Cancel \/ GoOn \/ Complete
  \/ Emergency \/ ReleaseKeyboard \/ ReleaseMouse
  \/ ToggleCaps \/ LedReport

Spec == Init /\ [][Next]_vars

-----------------------------------------------------------------------------
\* But for a release that is under way, the host holds what the executor has
\* committed: no failure, on either interface, leaves the host with a key or a
\* button that nobody will release.
HostHoldsInput ==
  ~IsReleasing => host.keyboard = View(input.keyboard) /\ host.mouse = input.mouse

\* A release goes to the end: both interfaces, with nothing held in the state.
ReleaseIsWhole ==
  IsReleasing =>
    /\ input = NoInput
    /\ steps = Release \/ (steps = Tail(Release) /\ host.keyboard = {})

\* A batch is collected from what is held until it ends, and each of its commands is
\* valid where it stands.
IsForeseen(commands, shadows) ==
  /\ Len(shadows) = Len(commands) + 1
  /\ \A i \in DOMAIN commands :
       /\ IsValid(commands[i], shadows[i])
       /\ shadows[i + 1] = ShadowAfter(commands[i], shadows[i])

BatchIsForeseen ==
  /\ collector # None => /\ ~Running /\ steps = <<>>
                         /\ collector.shadows # <<>> /\ collector.shadows[1] = input
                         /\ IsForeseen(collector.commands, collector.shadows)
  /\ Running /\ job.batch => IsForeseen(job.commands, job.shadows)

\* All the steps but the last two are of these kinds.
AllOf(ahead, kinds) == \A i \in 1 .. Len(ahead) - 2 : ahead[i].do \in kinds

\* The steps ahead are of one kind, with the last report, or the strokes to come, in
\* the place before the last check; a text is begun, and gone on with, when no key is
\* held.
FitTogether(ahead, c, keyboard) ==
  LET n == Len(ahead)
      last == ahead[n - 1]
  IN  /\ ahead[n] = Check
      /\ n > 1 =>
           \/ last.do = "keyboard" /\ AllOf(ahead, {"check", "delay", "keyboard"})
           \/ last.do = "mouse" /\ AllOf(ahead, {"check", "delay", "mouse"})
           \/ /\ last.do = "strokes" /\ AllOf(ahead, {"check", "delay", "keyboard"})
              /\ c.type = "TypeAscii" /\ IsTyped(c.text)
              /\ \/ n > 2 /\ ahead[n - 2] = KeyboardReport(Idle)
                 \/ n <= 3 /\ Head(ahead).do # "keyboard" /\ IsIdle(keyboard)
           \/ last.do = "move" /\ AllOf(ahead, {"check"}) /\ c.type = "MouseMoveRel"
           \/ last.do \in {"check", "delay", "wheel"} /\ AllOf(ahead, {"check"})

\* What a step, when it is done, makes of the committed state; a text leaves no key held.
Effect(step, state) ==
  CASE step.do = "keyboard" -> [state EXCEPT !.keyboard = step.state]
    [] step.do = "mouse" -> [state EXCEPT !.mouse = step.state]
    [] step.do = "strokes" -> [state EXCEPT !.keyboard = Idle]
    [] OTHER -> state

\* What the steps ahead leave behind of this state: the last before the check counts.
Outcome(ahead, state) ==
  IF Len(ahead) = 1 THEN state ELSE Effect(ahead[Len(ahead) - 1], state)

StepsFit == Running /\ steps # <<>> => FitTogether(steps, Current, input.keyboard)

\* A command of a batch leaves behind what was foreseen for it.
StepsLeadOn ==
  Running /\ job.batch =>
    IF steps = <<>> THEN input = job.shadows[1]
    ELSE Outcome(steps, input) = job.shadows[2]

\* Committed state, what the host holds, what was foreseen and the steps to come fit
\* each other: the parts of an inductive invariant.
ExecutionInv ==
  /\ TypeOK
  /\ HostHoldsInput
  /\ ReleaseIsWhole
  /\ BatchIsForeseen
  /\ StepsFit
  /\ StepsLeadOn

\* What BatchCollector has accepted, the executor does not refuse half way through,
\* and each of its commands ends with what the collector foresaw.
BatchIsAsValidated ==
  Running /\ job.batch =>
    /\ AtCommand => ~Refuses(Current, input) /\ input = job.shadows[1]
    /\ steps = <<Check>> => input = job.shadows[2]

\* All along, what the host has read of a text is the beginning of it: a text that
\* is cut short by STOP_ALL has no character wrong, whatever Caps Lock.
ReadsABeginning ==
  Running /\ steps # <<>> /\ Current.type = "TypeAscii" =>
    LET sent == Normalised(Current.text)
    IN  /\ Len(log) <= Len(sent)
        /\ \A k \in DOMAIN log : log[k] = {sent[k]}

Abstract ==
  INSTANCE HeldInput WITH last <- done.command, held <- done.held,
                          strokes <- done.strokes, moved <- done.moved

\* Every command that is acknowledged happened to the host as one step: exactly the
\* strokes it asks for, the text as it was sent, the pointer moved as far as it says;
\* any other has released everything or done nothing.
ImplementsHeldInput == Abstract!Spec
=============================================================================
