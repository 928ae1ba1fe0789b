# A TLA+ model of the RP2350 keyboard/mouse bridge firmware

The firmware receives framed commands on a USB CDC serial port and plays them
as HID keyboard and mouse reports. It must do so once per command although
clients retry, stop at once when told to, and let go of every key when its
controller disappears. These modules model the parts of `src/src/` that keep
those promises and the two clients that rely on them (`hidctl` and the Web UI),
check them with TLC on small instances, and prove what is claimed of their
safety with TLAPS for every size.

## The system

All tasks run on one cooperative Embassy executor: what a task does between
two `await`s is atomic, and everything interesting happens between tasks.

| Component | State it keeps | Operations | Talks to |
|---|---|---|---|
| Coordinator (`coordinator.rs`) | response cache with eviction cursor, executor owner, batch state, admission ids | admit, complete, abort batch, clear session | called by the dispatcher |
| Dispatcher (`runtime.rs`, `stop_core.rs`) | batch collector, copy of the input state, pending STOP_ALLs, cancellation generation | requests, results, safety events, in that reverse priority | REQUESTS, RESULTS, SAFETY_EVENTS in; JOBS, CANCEL, RESPONSES out |
| Executor (`runtime.rs`, `execution_core.rs`, `command_executor.rs`) | the input state | jobs as sequences of HID reports and delays, release | JOBS, CANCEL in; RESULTS out |
| Input state, batches (`input_state.rs`, `batch.rs`) | held keys and buttons; collected commands and shadow state | key down/up/tap, push | executor, dispatcher |
| Sessions and transport (`runtime.rs`, `static_resources.rs`) | session generation, applied session, DTR, queues, reset signals | receive, control, USB handler, respond | all channels |
| Lease (`runtime_safety.rs`, `safety.rs`) | armed deadline and session | refresh, expire | LEASE_REFRESH in; SAFETY_EVENTS out |
| Frame stream (`frame_stream.rs`, `safety.rs`) | partial frame and its deadline | append, resynchronise, expire | receiver |
| hidctl client (`tools/hidctl/src/client.rs`) | sequence, receive buffer, write lock, heartbeat thread | open, send with retries, drop | serial port |
| Scripts (`script.rs`, `script.js`) | what is left of the plan | plan, run, stop on error | client |
| Web UI client (`tools/webui/app.js`) | port, reader, write queue, pending calls, heartbeat timer | connect, send, retry, disconnect, cleanup | Web Serial |
| LED, USB descriptors, start-up | - | - | - |

What is hard here: the dispatcher admits while the executor executes, and a
release must get past work that is under way; results come back after the
session that asked for them ended; the cache forgets; cancellation and session
resets travel through one-value signals that may be overwritten, consumed early
or consumed late; queues are bounded, and some senders drop, others wait;
disconnects announce themselves up to four times; reports fail one interface at
a time, in the middle of a tap or of a split pointer step; and clients time out,
retry, hang in a write or are killed between two bytes. `PROJECT.json` lists
these hazards line by line with the properties that watch them.

## Modules

| Module | Models | Notes |
|---|---|---|
| `Coordinator` | the six fields of `Coordinator`; an action per outcome of an operation | no `Next`: two systems use it |
| `CoordinatorSystem` | the coordinator under a caller that sends anything and answers anything, late, twice, wrongly | the system the proofs are about |
| `RetryMap` | what the coordinator promises a retrying client: a map from sequences to single admissions | abstract; implemented by `CoordinatorSystem` |
| `CoordinatorLemmas`, `CoordinatorProofs` | what an admission and a completion do to the cache; theorems | the lemmas serve `Dispatcher` and `HidClient` too |
| `Dispatcher` | dispatcher, JOBS, RESULTS, CANCEL, executor | extends `Coordinator` |
| `DispatcherProofs` | theorems | |
| `Sessions` | receiver, control task, USB handler, dispatcher's session handling, response task | |
| `SessionsProofs` | theorems | on `FrameStream` too |
| `Lease` | lease task on a wrapping clock | |
| `LeaseProofs` | theorems | |
| `InputState` | `KeyboardState`, `MouseState`, the plans of taps and clicks | operators |
| `Typing` | characters to strokes with Caps Lock, and what a host reads | operators |
| `Protocol` | `CommandType`, `validate_request`, `decode_command`, `OwnedCommand`, `classify_request`, `encode_owned_command` | operators |
| `Movement` | `RelativeMovementSteps` and the reports of its steps | alone as `MoveSpec`; composed by `Execution` |
| `Execution` | `execute_command`, `execute_batch`, `reset_inputs`, `BatchCollector`, and the host behind two interfaces that can fail | composes the four above |
| `ExecutionProofs` | theorems | on `Protocol`, `Movement` and the executor |
| `HeldInput` | what a command means to the host: one step, exactly its strokes, its text, its displacement | abstract; extends `Typing`; implemented by `Execution` |
| `FrameStream` | `next_frame_action`, `append_packet_chunk`, `PartialFrameState` and the receiver's loop | bytes |
| `HidClient` | hidctl's main and heartbeat threads over a serial line to the coordinator | extends `Coordinator` |
| `HidClientProofs` | theorems | |
| `Script` | script planning and the runner, against the firmware's batch and executor | the plan is a successor of packets |
| `WebClient` | `SerialClient` and the page's connect and disconnect handlers | |
| `WebClientProofs` | theorems | on `Script` too |
| `MC*` | instances for TLC | |

How the code maps to state and actions:

* **Requests** are what handling depends on: sequence, version, command. A
  command of type `Mutation` stands for one type with one payload, so two
  members are two contents. A request that passes the header checks and cannot
  be decoded is `"Malformed"`. The 64-bit fingerprint is the content itself:
  hash collisions are not modelled.
* **Insertion** is one operator, `Insert`, used by every admission as
  `insert_active` is. The scan for a slot to evict is stated as "the completed
  slot nearest to the cursor"; the proofs never need more.
* **Admission and completion in one step.** Some requests are admitted and
  answered before the dispatcher awaits (BATCH_BEGIN, bypass, collected
  commands). There the response is a parameter of the admission. In
  `CoordinatorSystem` it is `None` and the caller completes whenever it likes,
  which covers the former.
* **Awaits of the dispatcher.** `sending` holds the job for which the
  dispatcher awaits room in JOBS; while it is set nothing else of the
  dispatcher runs. Guards on `safetyPending` and `results` give `select3` its
  priorities.
* **The executor** is at the await of the head of `plan`. `Continue` is what
  follows an await: look at CANCEL, then the rest of the plan, the next command,
  or the result. A pointer step that moves straight down is two reports with no
  look at CANCEL between them, hence `Chained`.
* **Sessions** replace the contents of a frame by the session it is stamped
  with and, as ghosts, the sessions its bytes were read in; a response by its
  stamp and the session of its request.
* **Signals** (CANCEL, REQUEST_RESET, RESPONSE_RESET, LEASE_REFRESH) are a
  value or `None`; a write replaces, a read consumes.
* **The lease** keeps `timer`, the ticks left to sleep, next to the deadline, so
  that a wrong sleep is visible; `lag` bounds how late the task may run.

* **Frames** of `Protocol` have version, flags, sequence, type and payload. A
  byte is what it is read as (a mask is the set of its bits, a character
  itself), and a number is big-endian bytes, in the width of its type. The
  executor gets no decoded command: as in `execute_owned_command_with_recovery`,
  it encodes the `OwnedCommand` and decodes the payload again.

* **Execution** keeps in `steps` what `execute_command_once` has still to await:
  reports, delays and looks at cancellation (`Check`). A report changes the
  host, and the committed state with it; failing, it is assumed that the host
  has disabled that interface and let go of what was held there, the only way a
  write of an embassy HID endpoint fails. `BatchCollector` validates with its
  own operators (`IsValid`, `ShadowAfter`), as in the code, so that they may
  disagree with execution. The collector keeps one shadow state, the last; the
  model keeps those before it too, as history, so that each command's end can be
  held against what was foreseen for it. The strokes of a text are taken one by
  one from `Strokes`, which carries the place in the text and the Caps Lock
  state of the command's begin. `done`, `log` and `turned` are history: the last
  command and what the host saw of it, which is what `HeldInput` speaks about.
* **A movement** is the loop of `execute_command_once` over
  `RelativeMovementSteps`; the pointer is measured from where the command found
  it.
* **Characters** stand for their kind: letters of both cases, both signs of
  another key, CR, LF, and one outside the layout.
* **hidctl** is a main thread and a heartbeat thread with one write lock. A
  frame is written in two pieces, between which the process may be killed or the
  other thread run; responses arrive whole. The device behind the line is
  `Coordinator` with one job and one release at a time (what
  `PipelineIsOwnerThenRelease` shows of `Dispatcher`), and a session that ends
  in one step (what `AdmissionIsCurrent` and `ResponseIsCurrent` show of
  `Sessions`), when DTR is seen to fall or, with `MayStall`, when the lease
  expires under a process that is held up. The lease may expire after any work
  (`LeaseExpires`), which is more often than `GUARDED_WORK` lets it; the receiver
  then resets with whatever it has taken off the line, the middle of a frame
  included, and `Discard` is how it gets rid of the rest. Time is not modelled:
  a timeout may fire whenever one is set. `forgotten` is history: what was
  admitted before the last expiry.
* **A script** is run against the firmware's batch, its executing job and one
  key. The plan is not kept as a list: `Following` is the packet that
  `plan_script_commands` puts after a packet, which its place in the script
  determines. What `send` makes of a packet is what `HidClient` shows of
  `send_command`: it may fail before the packet is handled (`SendFails`), its
  answer may be lost for good or until a retry (`Unanswered`, `Retried`), and a
  retry is handled once more only if the lease has expired in between. The
  STOP_ALL behind an error is sent without a look at its result
  (`script.rs:69`): when it fails, what is held, collected or executing goes on
  (`StopAfterError`) until hidctl ends its session (`SessionEnds`).
* **The Web UI's client** is single-threaded; each action is what runs between
  two awaits. Writes settle in order or never, and a queued write is begun when
  the one before it settles: that is when `allowStop` is looked at. Cleanup waits
  for each step of its list or for the timeout of that step.

`Sessions` and `Dispatcher` both model `dispatcher_task`, each without the
other's half: `Dispatcher` sees only requests of its session, `Sessions` does
not look at what requests do. A safety event is the step they share. In the same
way `Dispatcher` has a coarse executor (a key, a delay, a split pointer step)
with exact cancellation, and `Execution` an exact executor with a cancellation
that may be seen at any look.

## Runs

| Run | Instance | Shows |
|---|---|---|
| `coordinator` | 3 slots, 4 sequences, 5 admissions, a session end | no owner is evicted; execution has one owner; STOP_ALL finds a slot; no wrong or changing replay; the inductive invariant; the refinement of `RetryMap` |
| `dispatcher` | 4 slots, 1 held key of 2, batches of 2, taps and pointer steps, 2 session ends | at most one job, then at most one release; batch bookkeeping agrees; STOP_ALL is acknowledged after the release; a validated batch is not refused; cancellation is neither lost nor misdirected |
| `dispatcher_live` | a tap, a pointer step and a delay; batches of 1 | a release does not wait for the work it cancels; with timers that fire, the owner gives execution back |
| `sessions` | queues of 1, 2 safety events, packets of 2 frames, 3 session ends | no request or response crosses sessions; late events do not clear a live session; sessions are applied; the receiver is woken |
| `lease` | clock of 14, lease of 4, lag of 2 | the lease is enforced, and not early, across clock wraps |
| `hidclient` | 2 processes with heartbeats and 2 commands between them, 1 retry, sequence wrapping at 4, 1 response queued; kills, and stalls in which the first session's lease expires | at-most-once execution between expiries; OK means done; frames whole or lost; no heartbeat after the last STOP_ALL; calls and drop return |
| `frame_stream` | 4 byte values, payloads of 0 or 1, 3 units of frame, noise or garbage | the buffer makes progress and is emptied; good frames come through |
| `execution` | frames of every mutating type, 2 held keys of 3, texts of 1 to 3 characters, displacements of up to two steps on both axes, batches of 2 | host and firmware agree on what is held; batches run as validated; texts are read as sent; pointers arrive; the refinement of `HeldInput` |
| `script` | all scripts of up to 4 commands, batches of 2, every fault, the lease expiring twice | OK means played; what was executed is a beginning of the script; a part is accepted whole |
| `webclient` | 2 sessions, 2 commands, 1 retry, 2 uses of the buttons | STOP_ALL is last and never begun too late; attempts are bounded; no port leaks; disconnect returns and calls settle |
| `dispatcher_capacity`, `lease_in_time` | | disagreements, below |

Where several invariants speak of one component, a run checks their conjunction,
whose parts have names of their own: `Inv` (among others `OwnersAreActive`,
`ExclusiveOwner`, `OneEntryPerSequence`, `AnsweredByOwnAdmission`),
`DispatcherInv` (`CollectorMatchesMode`, `PendingStopsAreActive`), `LeaseInv`
(`LeaseIsEnforced`), `ClientInv` (`FramesAreWhole`, `NoSequenceConflict`),
`StreamInv` (`AppendMakesProgress`, `FramesComeThrough`), `WebClientInv`
(`AttemptsAreBounded`, `NothingLeaks`), `ScriptInv` (`PlayedInOrder`),
`AnnouncedInv` (`LaggingSessionHasEvent`), `ExecutionInv` (`HostHoldsInput`, `ReleaseIsWhole`, `BatchIsForeseen`,
`StepsFit`, `StepsLeadOn`) and `MoveInv` (`OnTarget`, `OnTheWay`), each
with the type invariant of its module. `SessionInv` is only proved.

Every property has a mutant in `PROJECT.json`: a change of one operator that a
plausible bug would make, and that TLC must find to violate it. The mutated
operators stand before the ones they replace, marked `Mutant:`.

### Bounds

`AdmissionIdLimit` and `SessionLimit` are `u64::MAX` in the code, where
admission ids run out with BUSY and sessions with a panic; in the models they
bound the runs. Five admissions are enough for a sequence to be admitted,
evicted, admitted again and answered late; for a batch, a STOP_ALL that cancels
it and a successor. A cache of two or three slots makes every admission compete
for one. Capacity 1 makes every send wait or drop. A lease clock of 14 with
times up to 8 in use wraps within every lease. With two places for keys a third
is refused; with a largest step of 2, displacements of 1 and 3 are one step and
two; batches of two have a command before and a command after the one that
fails or is refused. Two processes are one that leaves something behind and one
that could find it; a sequence that starts at its maximum wraps in every run.
Two
commands, each attempted twice, leave an attempt before an expiry and attempts of
both after it, and `hidclient` does reach states in which a command was worked on
again (`ExpiryLimit` allows one expiry, in the first session). Its processes send
KEY_DOWN besides Drop's STOP_ALL; with queries and STOP_ALLs of their own
(`ClientCommand`) the safety properties hold as well, in three million states,
but liveness takes too long. In `script`, two expiries are one that drops a
script's batch and one that meets what was handled once more.
`CHECK_DEADLOCK FALSE` is set where a bound ends all activity;
`CoordinatorSystem` and `Execution` never stop.

Sequence numbers are only compared by the firmware, so `coordinator` and
`dispatcher` use symmetry; runs that check liveness, and `hidclient`, which
counts sequences, do not.

### Fairness

The executor is cooperative and wakes every ready task, so each task's own
steps are weakly fair. Nothing is assumed of the host, of requests, of USB, or
of when the lease expires. Two assumptions are physical: a HID write ends, with
success or an error (a write that never completes blocks even the release,
since `reset_inputs` awaits it), and timers fire, which is not part of the
specification but the antecedent of `OwnerIsReleased`: `ReleaseIsCarriedOut`
does without it. `Sessions` makes the same assumption with `JobTaken`.

`FrameStream` assumes that the receiver runs and the clock goes on, `HidClient`
that both threads are scheduled, that the main thread gets the lock at last if it
tries for it (strong fairness; the heartbeat takes it twice a second), that `read` keeps to its
timeout, and that the firmware's tasks run, hence that what was written is
taken off the line: `flush` waits for that without a timeout, and `CallsReturn`
would be false of a device that stops reading. That a job ends, that the lease
expires or that a heartbeat is due is not assumed. `WebClient` assumes that promise
callbacks run and timers fire (`TimersFire`) and nothing of the serial port;
only `CallsSettle` needs writes to settle (`WritesSettle`, its antecedent),
since a call whose write hangs has no timer yet and is settled by disconnecting.

## Disagreements found

* **`CapacityFailureKeepsInput`** (run `dispatcher_capacity`). The design
  document says that capacity failures leave input state unchanged
  (`docs/superpowers/specs/2026-07-23-rp2350-reliable-hid-control-design.md:437`).
  A batch command over capacity aborts the batch and schedules a release of all
  input (`runtime.rs:336`).
* **`RefreshInTimeWins`** (run `lease_in_time`). A refresh observed before the
  old deadline should win however late the lease task runs
  (`runtime_safety.rs:173`). LEASE_REFRESH keeps one value: a second request
  at or after the deadline overwrites the first and the lease expires.

Seven limits are assumptions of the runs or of a property, each a constant that
can be changed to see what happens, or a number to be reckoned:

* **DTR that falls and rises before the control task runs** (`CoalescedDtr`)
  goes unnoticed (`runtime.rs:747`). In `Sessions` the receiver may then stay
  at its gate until DTR changes again. In `HidClient` `OkMeansDone` fails: no
  session ends, and a second hidctl process, which starts at the same sequence,
  is answered OK from the first one's cache for a command nobody executed. The
  design document has every falling edge end the session (line 135).
* **A packet that waits in the endpoint when DTR falls** (`LeftoverPacket`). The
  receiver drops what it reads while DTR is low, but once it has seen the reset
  it waits for DTR (`runtime.rs:101`) and reads nothing; a packet it had not
  come to, because it was waiting at the gate or for room in REQUESTS, is read
  in the next session. Then `WorkedOnOnce` fails: a command of a killed process
  that was executed before DTR fell is executed again from its retransmission.
* **A process that is held up beyond the lease** (`MayStall`). An expired lease
  ends the session (`runtime.rs:391`) and clears the retry cache while DTR stays
  up and the process lives. When it goes on and sends the frame again, the device
  works on the command a second time; the design document has expiry do the same
  as a disconnect (line 143). `WorkedOnOnce` therefore speaks of the work since
  the last expiry, and `OnceForGood` of the case without one. OK still means done
  (`OkMeansDone`). The heartbeats, four to a lease, are what keeps this rare.
* **Caps Lock struck while text is typed**, or reported late (`LateReports`).
  Strokes are computed once per command (`execution_core.rs:103`) from the last
  LED report, so `ReadsABeginning` fails: letters come out in the other case.
  The same happens when a KEY_TAP of Caps Lock is followed by text before the
  host's report.
* **A user who clicks Connect while a connect is under way** (`PatientUser`).
  Arming the switch updates the buttons (`app.js:809`) and enables Connect
  again; of two overlapping connects, one that fails clears `this.port`
  (`app.js:133`) although it is the other's, and `NothingLeaks` fails: the
  port stays open and nobody holds it.
* **The time allowed for BATCH_END** (`client.rs:326`) counts 8 ms for a
  character and no time for its two reports, which an interface polled once per
  millisecond takes in turn. The constant margin covers single commands; five
  texts of 240 characters in one batch need at least
  1200 * 9 - 5 = 10795 ms, and hidctl waits 1200 * 8 + 1000 = 10600 ms. Time is
  not part of `HidClient` or `Script`, where any call may time out: that nothing
  is executed twice or out of order because of it is checked, that the estimate
  covers the work is not. The same goes for the steps of a displacement
  (`client.rs:458`), which the client counts without the second report of a step
  straight down.

The seventh is a task that waits for room in SAFETY_EVENTS: it may
deliver its event sessions later, when it clears a session in use: the property
`AdmissionsEndWithSession` promises nothing once `delayed` records such a wait.

USB goes away in two ways: power is lost and the USB handler is called
(`UsbDisabled`), or the bus is reset and only the endpoints fail (`UsbReset`).
embassy-usb is not part of the repository; that a reset drops DTR and that
`control_changed` reports it is assumed of it.

## Proofs

The proof modules hold for every value of the constants, under the named
assumptions of the modules they extend, all of which the code's values meet: at
least two cache slots, disjoint command sets, a `None` that is nothing else,
positive capacities and bounds, an effect for each mutation, a largest sequence
and a largest step of at least one, keys that are neither modifiers nor buttons,
payload lengths and checks that are bytes, noise that contains no magic,
and a lease that with its lag is shorter than half a turn of the clock
(`assert_valid_duration`). TLC evaluates the assumptions in each run.

| Module | Theorem | States |
|---|---|---|
| `CoordinatorProofs` | `Safety`, `TypeCorrect`, `OwnershipIsSound`, `ReplayIsSound` | `Inv` and its parts |
| | `StableResponses`, `StopIsAdmissible` | `ResponsesAreStable`, `StopAlwaysHasASlot` |
| | `Refinement` | `ImplementsRetryMap` |
| `DispatcherProofs` | `DispatcherInvariant`, `OwnerThenRelease`, `CancellationIsCurrent` | `DispatcherInv`, `PipelineIsOwnerThenRelease`, `CancelIsCurrent` |
| | `ValidatedBatchExecutes` | `BatchIsNeverRefused` |
| | `StopAcknowledgesRelease`, `CancellationStopsReports` | `StopAckMeansReleased`, `CancelledWorkStartsNoReport` |
| `SessionsProofs` | `SessionsAreKept`, `OnlyCurrentAdmissions`, `LaggingSessionsAreAnnounced` | `SessionInv`, `AdmissionIsCurrent`, `LaggingSessionHasEvent` |
| | `SessionTypes`, `OnlyCurrentResponses` | `TypeOK`, `ResponseIsCurrent` |
| | `SessionsAreAnnounced` | `AnnouncedInv` |
| | `LateEventsAreHarmless` | `AdmissionsEndWithSession` |
| | `StreamIsRead` | `StreamInv` of `FrameStream` |
| `LeaseProofs` | `LeaseInvariant`, `LeaseIsNeverCutShort` | `LeaseInv`, `LeaseRunsItsCourse` |
| `ExecutionProofs` | `EncodingIsInvertible`, `DecodedIsOwned` | the round trip of every command |
| | `MovementIsSound`, `MovementReportsAreSteps` | `MoveInv`, `ReportsAreSteps` |
| | `ExecutionInvariant`, `ValidatedBatchIsExecuted` | `ExecutionInv`, `BatchIsAsValidated` |
| | `ExecutorMoves`, `ExecutedMovementIsSound` | `MoveSpec`, `MoveInv` of `Execution` |
| | `TextIsReadInOrder` | `ReadsABeginning`, without `LateReports` |
| | `CommandsHappenAsOneStep` | `ImplementsHeldInput`, without `LateReports` |
| `HidClientProofs` | `ClientTypeCorrect`, `StopIsLastFrame` | `TypeOK`, `NothingFollowsStop` |
| | `AtMostOnce` | `WorkedOnOnce`: between two expiries of the lease, without `LeftoverPacket` |
| | `OnceForGood` | at most once ever, without `LeftoverPacket` and `MayStall` |
| | `FramesStayWhole` | `FramesAreWhole`, without `LeftoverPacket` and `CoalescedDtr` |
| | `OkIsHonest`, `ClientIsSound` | `OkMeansDone`, `ClientInv`, without these two and within one round of sequences |
| | `ShortRunsGoRoundOnce` | that condition holds of a process with fewer commands than sequences |
| `WebClientProofs` | `WebClientTypes`, `AttemptsStayBounded`, `StopEndsTheSession` | `TypeOK`, `AttemptsAreBounded`, `StopIsLast` |
| | `NothingIsForgotten`, `StopIsInTime` | `WebClientInv`, `StopInTime`, with `PatientUser` |
| | `SuccessIsComplete`, `OrderIsKept`, `PartsAreWhole` | `OkMeansPlayed`, `ScriptInv`, `AcceptedWhole` of `Script` |

**Coordinator.** `Safety` proves the invariant `Inv`. Its parts need each other.
A completion releases the owner only if the token it compares names one
admission for ever, so ids must be unique in the *history* of handed-out tokens
(`TokensAreUnique`) and entries must come from it (`EntriesAreIssued`); this is
also why `clear_session` must not reset the id counter. From `Inv` follow
`TypeCorrect`, `OwnershipIsSound`, `ReplayIsSound` and, as an action property,
`StableResponses`. `StopIsAdmissible` has a counting argument of its own:
`SlotIsReserved`, at most CacheSize - 1 active entries that are not STOP_ALLs,
is what the `urgent` test maintains. Steps are reduced to lemmas on what
`Insert` and `Store` do to the slots. `Refinement` shows each step to be a step
of `RetryMap`, or a stutter: the abstract map of a sequence is read off the one
slot that holds it (`SlotOfSequence`, from `OneEntryPerSequence`), an insertion
is `Admit` whatever it evicts, a completion `AnswerPending`, and a cleared
session `Forget`.

**Dispatcher.** The invariant is `IInv == DispatcherInv /\
PipelineIsOwnerThenRelease /\ CancelIsCurrent`: each of the three leans on the
others. That there is at most one ordinary job anywhere between `sending`, JOBS,
the executor and RESULTS rests on the admission test `is_executor_occupied`, so
on the coordinator's owner (`OwnersAreActive`, `ExclusiveOwner`); that the owner
is released rests on its job being in exactly one of these places. These places
in a row are one sequence, `Pipeline`: a step takes its head, appends to it, or
moves a token on within it and leaves it as it is. A release overtakes nothing
because it is always last; a running job is cancelled because CANCEL holds the
current generation until its look (`CancelReachesWork`), which needs that
nothing else consumes it. For `BatchIsForeseen` the invariant says that the
commands left to the executor can all run from where the current plan ends
(`ExecutorKeepsToItsPlan`, `IsRunnable`). `StopAcknowledgesRelease` and
`CancellationStopsReports` follow as action properties.

**Lease.** The clock wraps, so the difficulty is arithmetic: `Residue` turns the
residue of a number one turn out of range into an addition, `Shift` adds two
advances, and `ReachedWithin` says that `deadline_reached` is exact while the
deadline is less than half a turn away on either side. `LeaseInv` keeps it
there: the deadline is a `Duration` after the refresh the lease stands on, which
is at most `Duration` + `lag` old (`LeaseStandsOnARefresh`), a pending refresh
is no older than the task is late (`RefreshIsRecent`), and guarded work under v2
is covered by one or the other (`LeasedWorkIsCovered`).

**Protocol.** `EncodingIsInvertible` is the round trip of each command through
bytes. For signed and 32-bit numbers it rests on `HighAndLow` and
`SignedIsInverse`.

**Sessions.** `OnlyCurrentAdmissions` rests on `SessionInv`: what is queued was
read in the session it is stamped with; what the receiver has in hand, in the
one it captured; and a receiver that may take a packet (`IsReading`: no reset is
pending) captured the current one. The last is the reason why
`begin_session_reset` must advance the generation and raise REQUEST_RESET in one
atomic stretch. `LaggingSessionsAreAnnounced` shows why the USB handler's lossy
`try_send` is safe: it fails only when an event is already there. For
`OnlyCurrentResponses` the other direction is followed (`AnswerInv`): what the
dispatcher still owes an answer was admitted in the session it has applied, so
what it queues is stamped with the session of its request; the response task
takes only what is stamped with the current session, and RESPONSE_RESET, raised
together with the new generation, makes it drop what it holds before it writes
the next packet.

`LateEventsAreHarmless` is about events that announce what is over. USB handler,
control task, lease task, receiver and response task each send an event of their
own, so several come for one cause, and each makes the dispatcher clear the
session it finds. `EventsAreDue` says why none of them hits a session in use.
The first three send theirs together with a new session, to which nothing has
been admitted yet. The last two send theirs when an endpoint fails, which is
without USB: if DTR is still up, the USB handler was called and began a session
in which the host has sent nothing (`NothingIsCurrent`), also not by the packet
that the receiver has in hand, which carries the older stamp; if DTR is down,
the bus was reset, which takes the host's admissions with it (`interrupted`).
All this ends when a task has to wait for room in SAFETY_EVENTS, hence
`delayed`.

**Frame stream.** `StreamIsRead` says that whole frames come through, each once
and in order, for every payload and packet size and every function in the place
of the CRC. `StreamOnTrack` follows the bytes rather than the receiver: while
nothing but frames and noise was sent, what is under way (`UnderWay`: buffer,
packet and line in a row) *carries* just the frames due, which is that they lie
in it one behind the other and that no magic begins outside them (`Carries`,
`LiesAt`). Moving bytes from packet to buffer changes nothing of this. What is
dropped is either before the first frame or is the first frame, so
`next_frame_action` is right to skip to the first magic, to keep a last byte
that may be half a magic, and to wait for the rest of a frame: the magic it
looks at is that of the first frame due, whose length byte and check are in
their places. The other half of the invariant, that drained the buffer has room
(`AppendMakesProgress`, the `debug_assert` of `cdc_receive_task`), rests on a
frame under way being shorter than `MaxFrame` as long as it waits for bytes.

**Movement.** `InductiveHolds` is about `MoveSpec`, one movement after another.
The invariant says of a movement under way that what remains and what the
pointer has covered add up to the displacement (one more to the right after the
first half of a step straight down), and that what remains has the sign of the
displacement and is no larger. From it follow `MovementIsSound` (the pointer
arrives and never leaves the way there) and `MovementReportsAreSteps` (no report
exceeds what a signed byte holds), for every displacement and every largest
step.

**Execution.** `ExecutionInv` is inductive. Host and committed state agree
except during a release (`HostHoldsInput`), because every failure and
cancellation starts one in the same step, and a release goes through both
interfaces whatever the first answers (`ReleaseIsWhole`). That a validated batch
is executed is an argument over two pieces of code that never meet: the
collector's shadows are what `ShadowAfter` makes of each other
(`BatchIsForeseen`, kept by every push), the steps of a command are of one kind
and end in one that decides its outcome (`StepsFit`), and this outcome is the
next shadow (`StepsLeadOn`). At the last look at cancellation the outcome is the
committed state, so the next command begins where it was foreseen to and is not
refused. A text needs most care: it is begun with no key held, each of its taps
restores that, and its strokes are still to come; the clause on texts with at
most three steps was found because without it a report of another keyboard state
could precede the next stroke. `ExecutorMoves` shows each step of the executor
to be a step of `Movement` or to leave it alone, so that `MoveInv` carries over.

`CommandsHappenAsOneStep` is the refinement of `HeldInput`: the reports of a
command are stutters, and the look at cancellation after the last of them is the
step. For this `OnTrack` says what each kind of command has still to do and what
the host has seen of it: a key or a click is a report or a pulse whose steps to
come lead to what is promised (`KeysOnTrack`, `ButtonsOnTrack`), a text has been
read up to a place at which a stroke begins, or at the last report of one
(`TextOnTrack`, `ReadingOn`), a movement is as far as `Movement` says. What is
typed is what `Strokes` makes of the firmware's Caps Lock and what is read
depends on the host's; that both agree while a command runs (`CapsAgree`) is
`~LateReports`, without which `ReadsABeginning` fails (above). That the host
reads `Normalised` of the text needs to know what a selection from a sequence
holds at each place, which `Typing` has by counting (`Kept`, `KeptBefore`), not
by recursion. `TextIsReadInOrder` is then the statement for each moment: a text
that a failure or a STOP_ALL cuts short has no character wrong.

**hidctl.** `AtMostOnce` follows commands on their way from the main thread over
the line and REQUESTS to the coordinator (`Flight`, `FlightInv`). They arrive in
the order of sending. So when the device admits a command that its cache does
not know, every earlier one has left the line for good, and it does not matter
which of their entries makes room: what is still under way is what the cache
remembers. When the lease expires the cache is cleared with the client's frames
still under way; nothing is remembered then, the frames that are left are still
in the order of sending, and the argument begins anew (`SessionEndMemory`). This
holds for every cache size, any number of retries, processes and expiries,
wrapping sequences and an unnoticed DTR pulse; only `~LeftoverPacket` is needed,
which the run also assumes and without which `WorkedOnOnce` fails (above). Where
the lease does not expire nothing is ever `forgotten`, which is `OnceForGood`.
`FramesStayWhole` needs `~CoalescedDtr` too, since half a frame of a killed
process is only dropped when its session ends; within a process it rests on
write_mutex. A stall may take the beginning of a frame off the line, while a
thread still has to write the end of it (`HalfOrLost`): that end is the first
thing on the line, is not a frame, and is discarded. `StopIsLastFrame` needs neither: the flag is set before Drop writes
STOP_ALL, and the heartbeat looks at it with the mutex in its hands
(`ThreadInv`).

`OkIsHonest` goes the other way, from the coordinator back to the caller
(`SequenceInv`): everything under way, every token and every cached answer is of
the process at hand and has the sequence of its command; an Ack or a Status is
of a command that is finished. `send_command` compares sequences only, so the
answer is to this very command if no other has its sequence. That is the
condition `WithinOneRound`, which the theorem names since the code does not
ensure it: after 65535 commands of one process a sequence comes again, and an
answer that is a whole round late, or still cached, passes for a new one. With
two sequences and three commands TLC shows that `OkMeansDone` fails. With 64
slots, which go round in order, the cache has long forgotten by then; what is
left is an answer that waits in the serial line for a round.

**Web UI.** The timers of a command are only numbers, and one that was
overwritten runs on. `Sound` and `Counted` say why there are never too many
attempts: a response timer that runs and a write that waits each belong to an
attempt that has been counted, and an attempt that a retry timer may still make
has been taken from `remaining`. `StopEndsTheSession` needs that no session
comes to its STOP_ALL twice (`Sessions`, `Shape`): `disconnectTask` lets one
disconnect into lifecycleQueue at a time, and it captures the session that it
takes from the client; the session being opened is a new one. Both hold however
the user clicks. `StopIsInTime` says where STOP_ALL is begun: what makes it
come next is `allowStop`, which is set only while cleanup is at that step, and
cleanup is the head of lifecycleQueue and its session's port is open
(`SignalInv`); a timeout takes `allowStop` back before DTR is lowered, and the
STOP_ALL that then waits behind a hanging write is passed over. `NothingIsForgotten` assumes `PatientUser`, without which it is
false (above): then lifecycleQueue holds one disconnect at most and one connect
behind it (`PortInv`), so that no other session's failure clears a port in use.

**Scripts.** `ScriptOnTrack` relates the runner's place in the plan to the
firmware: what was executed is everything before it that is not STOP (`Played`),
what is collected is the part between the last STOP and here (`Collects`), and a
job has the end of its part before it. A fault breaks one of these, and the
invariant says in which way only: a batch that is gone stays gone until the next
BATCH_BEGIN, so that BATCH_END is refused and the run does not end well. Hence
`SuccessIsComplete`, without an assumption on faults or answers. `OrderIsKept`
follows a job beyond its run, since the STOP_ALL behind an error may be lost:
what is left of it continues what was executed. It holds while the lease lasts,
as does `PartsAreWhole`: an expired one lets later commands of the part run by
themselves, and a packet whose answer was lost be handled once more. That input
is released after an error is not claimed: the code does not look whether its
STOP_ALL arrived, and hidctl's Drop or the lease has to see to it.

Only checked by TLC:

* all liveness: TLAPS proves nothing about fairness or ENABLED. These are
  `ReleaseIsCarriedOut`, `OwnerIsReleased` and the other properties of the runs
  that say that something happens in the end;
* `RefreshInTimeWins` and `CapacityFailureKeepsInput`, which fail.

Every other property of the runs is stated by a theorem. The conditions of
theorems (`~LeftoverPacket`, `~CoalescedDtr`, `~LateReports`, `PatientUser`) are
those of the runs, and what fails without them is said under "Disagreements
found"; only `OnceForGood` has one more, `~MayStall`. `hidclient` meets
`WithinOneRound` by its two commands and four sequences.

Nothing that is proved about is computed by recursion: what was a fold is a
choice or a count (`Place`, `KeptBefore`, `NoiseLength`, `Following`), whose
least elements and sizes come from `WFMin` and the theorems on finite sets.

## Not modelled

* **Bytes.** `FrameStream` has magic, length, payload and check, with four byte
  values, and `Protocol` the bytes of each payload; the CRC's polynomial is left
  out, as are error codes and a response cut over two reads at the client.
* **Time** beyond the lease and the partial-frame deadline: delays, polling
  intervals and the timeouts of the clients have an order and no length.
* **Failing ports**: hidctl's `write_all`, `flush` and `read` may return an error
  (`client.rs:282`, `client.rs:417`), after which the call fails at once and half
  a frame may stay on the line of a process that goes on; in `HidClient` they
  succeed. `Script` has the failing call (`SendFails`), not the half frame.
* **What a host makes of a failed write**: `Execution` assumes that an interface
  whose write fails is gone and that the host lets go of what was held there. The
  code ignores failed writes of a release and acknowledges it; should a host keep
  a key down, nothing here would show it.
* **Host-test projections**: `RuntimeModel` in `coordinator.rs` and the mock
  backends.
* **Status LED**: it shows state and has no effect on anything else.
* **USB descriptors, identity, configuration, start-up**: constants and wiring.
* **Text handling of the tools**: parsing of scripts, key names and command
  lines, the page's widgets and its recorder.

## Left to do

1. The order of eviction in the proofs, so that `OkIsHonest` needs of a round
   only that no answer waits in the line so long.
2. `FrameStream` in front of `Sessions`: bytes of two sessions in one buffer.
3. `HidClient` over `Sessions` instead of its session that ends in one step.
