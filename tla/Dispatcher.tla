----------------------------- MODULE Dispatcher -----------------------------
(***************************************************************************)
(* The execution pipeline of src/src/runtime.rs: dispatcher_task with its  *)
(* Coordinator, StopCore and BatchCollector, the JOBS and RESULTS channels,*)
(* the CANCEL signal, and executor_task running commands as sequences of   *)
(* HID reports and delays.                                                 *)
(*                                                                         *)
(* The tasks run on one cooperative executor: what a task does between two *)
(* awaits is one action.  A safety event stands for any of USB disabled,   *)
(* DTR lost, lease expired.  Requests of an ended session are discarded    *)
(* before they get here; responses leave through a queue that nothing here *)
(* waits for.  A Replay, Busy or Reject admission and a sequence-zero      *)
(* heartbeat change none of this state.                                    *)
(***************************************************************************)
EXTENDS Coordinator

CONSTANTS
  Key,            \* keys that can be held
  MaxHeld,        \* MAX_HELD_KEYS, 6 in the code
  BatchCapacity,  \* BATCH_MAX_COMMANDS, 32 in the code
  ResultCapacity, \* capacity of RESULTS, 2 in the code
  Effect          \* what each mutation does: [Mutation -> [op, key]]

InputState == SUBSET Key

Batch == [commands: Seq(Mutation), shadow: InputState]

\* Admissions that the executor works for.
WorkToken == {t \in Token : t.command \in Mutation \cup {"BatchEnd"}}

\* ExecutionJob; baseline is the cancellation generation at dispatch.
WorkJob == [kind: {"Single", "Batch"}, token: WorkToken, commands: Seq(Mutation),
            baseline: Nat]

EmergencyJob ==
  [kind |-> "Emergency", token |-> None, commands |-> <<>>, baseline |-> 0]

Job == WorkJob \cup {EmergencyJob}

ASSUME PipelineAssumption ==
  /\ None \notin Nat \cup Batch \cup Job
  /\ MaxHeld \in Nat \ {0} /\ BatchCapacity \in Nat /\ ResultCapacity \in Nat \ {0}
  /\ Effect \in [Mutation -> [op: {"Down", "Up", "Tap", "Move", "Wait"}, key: Key]]

-----------------------------------------------------------------------------
(* Commands: execution_core.rs over the states of input_state.rs.          *)

\* key_down refuses one more distinct key than a report can carry; a tap
\* presses before it restores, so it is refused likewise.
Refused(command, held) ==
  /\ Effect[command].op \in {"Down", "Tap"}
  /\ Effect[command].key \notin held
  /\ Cardinality(held) >= MaxHeld

After(command, held) ==
  CASE Effect[command].op = "Down" -> held \cup {Effect[command].key}
    [] Effect[command].op = "Up"   -> held \ {Effect[command].key}
    [] OTHER                       -> held

Report(held) == [kind |-> "Report", held |-> held]
Chained(held) == [kind |-> "Chained", held |-> held]
Delay == [kind |-> "Delay", held |-> {}]
Step == [kind: {"Report", "Chained", "Delay"}, held: InputState]

\* The reports and delays of a command that starts from `held`: a tap of a
\* held key releases and presses it again, any other tap presses and restores.
\* A downward pointer step is two reports with no cancellation point between.
Plan(command, held) ==
  LET key == Effect[command].key
  IN  CASE Effect[command].op = "Wait" -> <<Delay>>
        [] Effect[command].op = "Move" -> <<Report(held), Chained(held)>>
        [] Effect[command].op \in {"Down", "Up"} -> <<Report(After(command, held))>>
        [] Effect[command].op = "Tap" /\ key \in held ->
             <<Report(held \ {key}), Delay, Report(held), Delay, Report(held)>>
        [] Effect[command].op = "Tap" /\ key \notin held ->
             <<Report(held \cup {key}), Delay, Report(held)>>

-----------------------------------------------------------------------------
\* What has been done for an admission; a release is done for none and always
\* ends with nothing held.
Result ==
  [kind: {"Command"}, token: WorkToken, answer: {"Ack", "Nack"}, inputState: InputState]
    \cup [kind: {"Emergency"}, token: {None}, answer: {"Ack", "Nack"}, inputState: {{}}]

\* executor_task: waiting for a job; at the await of the head of `plan`; in
\* reset_inputs; or about to send its result.  `todo` holds the commands of
\* the job after the current one.
Executor == [phase: {"Idle", "Running", "Releasing", "Reporting"},
             job: Job, todo: Seq(Mutation), plan: Seq(Step),
             answer: {"Ack", "Nack"}]

IdleExecutor == [phase |-> "Idle", job |-> EmergencyJob, todo |-> <<>>,
                 plan |-> <<>>, answer |-> "Ack"]

VARIABLES
  batch,              \* dispatcher's Option<BatchCollector>: commands and shadow state
  dispatcherInput,    \* dispatcher's copy of the input state
  pendingStops,       \* StopCore: STOP_ALL tokens waiting for the release
  emergencyInFlight,  \* StopCore: a release is queued or executing
  cancelGeneration,   \* StopCore: CancellationGeneration
  sending,            \* job the dispatcher awaits to send on JOBS, or None
  jobs,               \* JOBS, capacity 1
  cancel,             \* CANCEL, the latest unconsumed generation, or None
  executor,           \* executor_task
  inputState,         \* executor's input state
  results,            \* RESULTS
  safetyPending,      \* number of queued SAFETY_EVENTS
  releaseCauses       \* history: why the release in flight was asked for

stopVars == <<pendingStops, emergencyInFlight, cancelGeneration>>
dispatcherVars == <<batch, dispatcherInput, stopVars, sending, releaseCauses>>
executorVars == <<executor, inputState>>
vars == <<coordVars, dispatcherVars, executorVars, jobs, cancel, results, safetyPending>>

TypeOK ==
  /\ CoordinatorTypeOK
  /\ batch \in Batch \cup {None}
  /\ dispatcherInput \in InputState
  /\ pendingStops \subseteq Token
  /\ emergencyInFlight \in BOOLEAN
  /\ cancelGeneration \in Nat
  /\ sending \in Job \cup {None}
  /\ jobs \in Seq(Job) /\ Len(jobs) <= 1
  /\ cancel \in Nat \cup {None}
  /\ executor \in Executor
  /\ inputState \in InputState
  /\ results \in Seq(Result) /\ Len(results) <= ResultCapacity
  /\ safetyPending \in Nat
  /\ releaseCauses \subseteq {"Stop", "Safety", "BatchError"}

Init ==
  /\ CoordinatorInit
  /\ batch = None
  /\ dispatcherInput = {}
  /\ pendingStops = {}
  /\ emergencyInFlight = FALSE
  /\ cancelGeneration = 1
  /\ sending = None
  /\ jobs = <<>>
  /\ cancel = None
  /\ executor = IdleExecutor
  /\ inputState = {}
  /\ results = <<>>
  /\ safetyPending = 0
  /\ releaseCauses = {}

-----------------------------------------------------------------------------
(* dispatcher_task.  It serves safety events before results before         *)
(* requests, and nothing while it awaits JOBS.send.                        *)

ReadyForResult == sending = None /\ safetyPending = 0
ReadyForRequest == ReadyForResult /\ results = <<>>

\* Mutant: every emergency queues a release of its own.
ScheduleEveryEmergency(cause) ==
  /\ cancelGeneration' = cancelGeneration + 1
  /\ cancel' = cancelGeneration + 1
  /\ emergencyInFlight' = TRUE
  /\ sending' = EmergencyJob
  /\ releaseCauses' = releaseCauses \cup {cause}

\* Mutant: the generation is published before it advances.
ScheduleStaleEmergency(cause) ==
  /\ cancelGeneration' = cancelGeneration + 1
  /\ cancel' = cancelGeneration
  /\ emergencyInFlight' = TRUE
  /\ sending' = IF emergencyInFlight THEN None ELSE EmergencyJob
  /\ releaseCauses' = releaseCauses \cup {cause}

\* schedule_emergency followed by apply_emergency_action: publish a new
\* cancellation generation, queue the release unless one is in flight.
ScheduleEmergency(cause) ==
  /\ cancelGeneration' = cancelGeneration + 1
  /\ cancel' = cancelGeneration + 1
  /\ emergencyInFlight' = TRUE
  /\ sending' = IF emergencyInFlight THEN None ELSE EmergencyJob
  /\ releaseCauses' = releaseCauses \cup {cause}

\* Admission::Execute of an ordinary mutation.
HandleExecute(r) ==
  /\ ReadyForRequest
  /\ AdmitExecute(r, emergencyInFlight)
  /\ sending' = [kind |-> "Single", token |-> NewToken(r),
                 commands |-> <<r.command>>, baseline |-> cancelGeneration]
  /\ UNCHANGED <<batch, dispatcherInput, stopVars, releaseCauses, executorVars,
                 jobs, cancel, results, safetyPending>>

\* Admission::Execute of BATCH_END.  The branch for a missing collector is
\* unreachable (CollectorMatchesMode).
HandleBatchEnd(r) ==
  /\ ReadyForRequest
  /\ batch # None
  /\ AdmitBatchEnd(r, emergencyInFlight)
  /\ sending' = [kind |-> "Batch", token |-> NewToken(r),
                 commands |-> batch.commands, baseline |-> cancelGeneration]
  /\ batch' = None
  /\ UNCHANGED <<dispatcherInput, stopVars, releaseCauses, executorVars,
                 jobs, cancel, results, safetyPending>>

\* Mutant: the shadow state starts from no input held.
HandleBatchBeginAfresh(r) ==
  /\ ReadyForRequest
  /\ AdmitBatchBegin(r, emergencyInFlight)
  /\ batch' = [commands |-> <<>>, shadow |-> {}]
  /\ UNCHANGED <<dispatcherInput, stopVars, sending, releaseCauses, executorVars,
                 jobs, cancel, results, safetyPending>>

HandleBatchBegin(r) ==
  /\ ReadyForRequest
  /\ AdmitBatchBegin(r, emergencyInFlight)
  /\ batch' = [commands |-> <<>>, shadow |-> dispatcherInput]
  /\ UNCHANGED <<dispatcherInput, stopVars, sending, releaseCauses, executorVars,
                 jobs, cancel, results, safetyPending>>

\* BatchCollector::push succeeds.
CanCollect(command) ==
  /\ ~Refused(command, batch.shadow)
  /\ Len(batch.commands) < BatchCapacity

HandleCollect(r) ==
  /\ ReadyForRequest
  /\ batch # None /\ r.command \in Mutation
  /\ CanCollect(r.command)
  /\ AdmitCollect(r, emergencyInFlight, Answer(NewToken(r), "Ack"), FALSE)
  /\ batch' = [commands |-> Append(batch.commands, r.command),
               shadow |-> After(r.command, batch.shadow)]
  /\ UNCHANGED <<dispatcherInput, stopVars, sending, releaseCauses, executorVars,
                 jobs, cancel, results, safetyPending>>

\* A command that cannot be collected aborts the batch, is answered NACK, and
\* releases all input.
HandleCollectError(r) ==
  /\ ReadyForRequest
  /\ batch # None /\ r.command \in Mutation
  /\ ~CanCollect(r.command)
  /\ AdmitCollect(r, emergencyInFlight, Answer(NewToken(r), "Nack"), TRUE)
  /\ batch' = None
  /\ ScheduleEmergency("BatchError")
  /\ UNCHANGED <<dispatcherInput, pendingStops, executorVars, jobs, results,
                 safetyPending>>

HandleBypass(r) ==
  /\ ReadyForRequest
  /\ AdmitBypass(r, emergencyInFlight, Answer(NewToken(r), ExpectedResponse(r.command)))
  /\ UNCHANGED <<dispatcherVars, executorVars, jobs, cancel, results, safetyPending>>

HandleStop(r) ==
  /\ ReadyForRequest
  /\ AdmitStop(r, emergencyInFlight)
  /\ batch' = None
  /\ pendingStops' = pendingStops \cup {NewToken(r)}
  /\ ScheduleEmergency("Stop")
  /\ UNCHANGED <<dispatcherInput, executorVars, jobs, results, safetyPending>>

HandleCommandResult ==
  /\ ReadyForResult
  /\ results # <<>>
  /\ LET result == Head(results)
         response == Answer(result.token, result.answer)
     IN  /\ result.kind = "Command"
         /\ dispatcherInput' = result.inputState
         /\ Complete(result.token, response) \/ CompleteFails(result.token, response)
  /\ results' = Tail(results)
  /\ UNCHANGED <<batch, stopVars, sending, releaseCauses, executorVars, jobs,
                 cancel, safetyPending>>

\* The release is done: every pending STOP_ALL that is still an active
\* admission is completed with ACK.
HandleEmergencyResult ==
  /\ ReadyForResult
  /\ results # <<>>
  /\ Head(results).kind = "Emergency"
  /\ dispatcherInput' = Head(results).inputState
  /\ emergencyInFlight' = FALSE
  /\ pendingStops' = {}
  /\ releaseCauses' = {}
  /\ cache' = [i \in Slot |->
                 IF \E token \in pendingStops : AwaitsAnswer(i, token)
                 THEN [cache[i] EXCEPT !.response = Answer(cache[i].token, "Ack")]
                 ELSE cache[i]]
  /\ results' = Tail(results)
  /\ UNCHANGED <<nextEvict, sessionGeneration, nextAdmissionId, executorOwner,
                 batchState, batch, cancelGeneration, sending, executorVars,
                 jobs, cancel, safetyPending>>

\* Mutant: pending STOP_ALLs outlive the session.
HandleSafetyKeepingStops ==
  /\ sending = None
  /\ safetyPending > 0
  /\ safetyPending' = safetyPending - 1
  /\ ClearSession
  /\ batch' = None
  /\ ScheduleEmergency("Safety")
  /\ UNCHANGED <<pendingStops, dispatcherInput, executorVars, jobs, results>>

\* A safety event ends the session and releases all input.
HandleSafetyEvent ==
  /\ sending = None
  /\ safetyPending > 0
  /\ safetyPending' = safetyPending - 1
  /\ ClearSession
  /\ batch' = None
  /\ pendingStops' = {}
  /\ ScheduleEmergency("Safety")
  /\ UNCHANGED <<dispatcherInput, executorVars, jobs, results>>

SendJob ==
  /\ sending # None
  /\ jobs = <<>>
  /\ jobs' = <<sending>>
  /\ sending' = None
  /\ UNCHANGED <<coordVars, batch, dispatcherInput, stopVars, releaseCauses,
                 executorVars, cancel, results, safetyPending>>

-----------------------------------------------------------------------------
(* executor_task.                                                          *)

\* Mutant: the reports are zeroed and the state is not.
ReleaseReportsOnly(job) ==
  /\ executor' = [phase |-> "Releasing", job |-> job, todo |-> <<>>,
                  plan |-> <<>>, answer |-> "Nack"]
  /\ UNCHANGED inputState

\* reset_inputs clears the state before it awaits the two zero reports.
Release(job) ==
  /\ executor' = [phase |-> "Releasing", job |-> job, todo |-> <<>>,
                  plan |-> <<>>, answer |-> "Nack"]
  /\ inputState' = {}

Conclude(job, answer, held) ==
  /\ executor' = [phase |-> "Reporting", job |-> job, todo |-> <<>>,
                  plan |-> <<>>, answer |-> answer]
  /\ inputState' = held

\* Mutant: only an older generation cancels.
IsCancelledByOlder(job) == cancel # None /\ cancel < job.baseline

\* A published generation that differs from the job's baseline.
IsCancelled(job) == cancel \notin {None, job.baseline}

\* The executor passes check_cancelled, which consumes CANCEL, and goes on to
\* its next await: the rest of the current plan, or the plan of the next
\* command.  A refused command of a batch releases, a refused single one only
\* answers.
Continue(job, todo, plan, held) ==
  /\ cancel' = None
  /\ \/ IsCancelled(job) /\ Release(job)
     \/ /\ ~IsCancelled(job)
        /\ \/ /\ plan # <<>>
              /\ executor' = [phase |-> "Running", job |-> job, todo |-> todo,
                              plan |-> plan, answer |-> "Ack"]
              /\ inputState' = held
           \/ /\ plan = <<>> /\ todo # <<>>
              /\ ~Refused(Head(todo), held)
              /\ executor' = [phase |-> "Running", job |-> job, todo |-> Tail(todo),
                              plan |-> Plan(Head(todo), held), answer |-> "Ack"]
              /\ inputState' = held
           \/ /\ plan = <<>> /\ todo # <<>>
              /\ Refused(Head(todo), held)
              /\ \/ job.kind = "Batch" /\ Release(job)
                 \/ job.kind = "Single" /\ Conclude(job, "Nack", held)
           \/ /\ plan = <<>> /\ todo = <<>>
              /\ Conclude(job, "Ack", held)

\* An empty batch concludes without looking at CANCEL.
TakeJob ==
  /\ executor.phase = "Idle"
  /\ jobs # <<>>
  /\ jobs' = <<>>
  /\ LET job == Head(jobs)
     IN  \/ /\ job.kind = "Emergency"
            /\ Release(job)
            /\ UNCHANGED cancel
         \/ /\ job.kind # "Emergency" /\ job.commands # <<>>
            /\ Continue(job, job.commands, <<>>, inputState)
         \/ /\ job.kind # "Emergency" /\ job.commands = <<>>
            /\ Conclude(job, "Ack", inputState)
            /\ UNCHANGED cancel
  /\ UNCHANGED <<coordVars, dispatcherVars, results, safetyPending>>

Awaits(kind) == executor.phase = "Running" /\ Head(executor.plan).kind = kind

AwaitsReport == Awaits("Report") \/ Awaits("Chained")

NextIsChained == Len(executor.plan) > 1 /\ executor.plan[2].kind = "Chained"

\* A HID report is delivered, and committed to the input state.
ReportSent ==
  /\ AwaitsReport /\ ~NextIsChained
  /\ Continue(executor.job, executor.todo, Tail(executor.plan), Head(executor.plan).held)
  /\ UNCHANGED <<coordVars, dispatcherVars, jobs, results, safetyPending>>

\* The other report of a pointer step follows without a look at CANCEL.
ReportChains ==
  /\ AwaitsReport /\ NextIsChained
  /\ executor' = [executor EXCEPT !.plan = Tail(executor.plan)]
  /\ inputState' = Head(executor.plan).held
  /\ UNCHANGED <<coordVars, dispatcherVars, jobs, cancel, results, safetyPending>>

\* ErrorCode::HidWrite.
ReportFails ==
  /\ AwaitsReport
  /\ Release(executor.job)
  /\ UNCHANGED <<coordVars, dispatcherVars, jobs, cancel, results, safetyPending>>

TimerFires ==
  /\ Awaits("Delay")
  /\ Continue(executor.job, executor.todo, Tail(executor.plan), inputState)
  /\ UNCHANGED <<coordVars, dispatcherVars, jobs, results, safetyPending>>

\* Mutant: a delay is not raced against CANCEL.
DelayRunsOut == FALSE

\* wait_for_generation_change wins the race against the timer.
DelayCancelled ==
  /\ Awaits("Delay")
  /\ IsCancelled(executor.job)
  /\ cancel' = None
  /\ Release(executor.job)
  /\ UNCHANGED <<coordVars, dispatcherVars, jobs, results, safetyPending>>

\* Both zero reports have been attempted; their failure is ignored.
ReleaseDone ==
  /\ executor.phase = "Releasing"
  /\ Conclude(executor.job, executor.answer, inputState)
  /\ UNCHANGED <<coordVars, dispatcherVars, jobs, cancel, results, safetyPending>>

PublishResult ==
  /\ executor.phase = "Reporting"
  /\ Len(results) < ResultCapacity
  /\ results' = Append(results,
       [kind |-> IF executor.job.kind = "Emergency" THEN "Emergency" ELSE "Command",
        token |-> executor.job.token, answer |-> executor.answer,
        inputState |-> inputState])
  /\ executor' = IdleExecutor
  /\ UNCHANGED <<coordVars, dispatcherVars, inputState, jobs, cancel, safetyPending>>

-----------------------------------------------------------------------------
\* Another task queues a safety event; SessionLimit bounds them.
RaiseSafetyEvent ==
  /\ sessionGeneration + safetyPending < SessionLimit
  /\ safetyPending' = safetyPending + 1
  /\ UNCHANGED <<coordVars, dispatcherVars, executorVars, jobs, cancel, results>>

HandleRequest(r) ==
  \/ HandleExecute(r)
  \/ HandleBatchEnd(r)
  \/ HandleBatchBegin(r)
  \/ HandleCollect(r)
  \/ HandleCollectError(r)
  \/ HandleBypass(r)
  \/ HandleStop(r)

HandleResult == HandleCommandResult \/ HandleEmergencyResult

ExecutorStep ==
  \/ TakeJob
  \/ ReportSent \/ ReportChains \/ ReportFails \/ DelayCancelled
  \/ ReleaseDone \/ PublishResult

Next ==
  \/ \E r \in Request : HandleRequest(r)
  \/ HandleResult
  \/ HandleSafetyEvent
  \/ SendJob
  \/ ExecutorStep
  \/ TimerFires
  \/ RaiseSafetyEvent

Spec == Init /\ [][Next]_vars

\* The cooperative executor runs every ready task, and every HID write ends.
\* A delay may outlast everything else: no fairness for timers.
Fairness ==
  WF_vars(HandleResult) /\ WF_vars(HandleSafetyEvent) /\ WF_vars(SendJob)
    /\ WF_vars(ExecutorStep)

FairSpec == Spec /\ Fairness

\* Assumed where it is named: a delay ends.
TimersFire == WF_vars(TimerFires)
-----------------------------------------------------------------------------
(* What the pipeline guarantees.                                           *)

\* The work between the dispatcher and its results, oldest first: the token of
\* an ordinary job, None for a release.
TokensOf(queue) == [i \in DOMAIN queue |-> queue[i].token]

TokenInExecutor == IF executor.phase = "Idle" THEN <<>> ELSE <<executor.job.token>>

TokenBeingSent == IF sending = None THEN <<>> ELSE <<sending.token>>

Pipeline == TokensOf(results) \o TokenInExecutor \o TokensOf(jobs) \o TokenBeingSent

Owner == IF executorOwner # None THEN executorOwner ELSE batchState.owner

\* At most one ordinary job and one release exist, the release last.  Without a
\* release the job is the coordinator's owner's and exists exactly as long as
\* there is an owner: two commands never execute together, and no owner waits
\* for a result that will not come.  An old session's job can only be in front
\* of the release that its end asked for.
PipelineIsOwnerThenRelease ==
  IF emergencyInFlight
  THEN /\ Len(Pipeline) \in {1, 2}
       /\ Pipeline[Len(Pipeline)] = None
       /\ Len(Pipeline) = 2 => Pipeline[1] # None
       /\ Owner # None => Pipeline = <<Owner, None>>
  ELSE Pipeline = IF Owner = None THEN <<>> ELSE <<Owner>>

\* The dispatcher's collector exists exactly while the coordinator collects, and
\* never beside a release, so BATCH_END always finds its batch and nothing is
\* collected twice.
CollectorMatchesMode ==
  /\ (batch # None) <=> (batchState.mode = "Collecting")
  /\ batch # None => ~emergencyInFlight

\* Every STOP_ALL that waits for the release is an active admission of this
\* session: its ACK cannot come too late for the cache to take.
PendingStopsAreActive ==
  /\ \A t \in pendingStops : /\ t.command = "StopAll"
                             /\ \E i \in ActiveSlot : cache[i].token = t
  /\ pendingStops # {} => emergencyInFlight

\* A release runs no command and leaves nothing held; a running job is at an await.
\* A delay is either the whole plan of its command or not at its end.
ExecutorKeepsToItsPlan ==
  /\ executor.phase = "Running" =>
       /\ executor.job \in WorkJob /\ executor.plan # <<>>
       /\ executor.plan[Len(executor.plan)].kind = "Delay" => Len(executor.plan) = 1
  /\ executor.phase = "Releasing" => inputState = {}
  /\ executor.phase = "Reporting" /\ executor.job = EmergencyJob => inputState = {}

\* Between jobs the input state is what the latest result says, and then what
\* the dispatcher's copy says.
InputIsReported ==
  executor.phase = "Idle" =>
    inputState = IF results = <<>> THEN dispatcherInput
                 ELSE results[Len(results)].inputState

\* A job is dispatched under the generation of the time; the cancellation of one
\* that has not been taken up is still to be read.
CancelReachesWork ==
  /\ sending \in WorkJob => sending.baseline = cancelGeneration
  /\ \A i \in DOMAIN jobs :
       jobs[i] \in WorkJob /\ jobs[i].baseline # cancelGeneration
         => cancel = cancelGeneration

\* From `from` each command is accepted where the one before it leads, up to `to`.
Leads(commands, from, to) ==
  \E path \in [1 .. Len(commands) + 1 -> InputState] :
    /\ path[1] = from /\ path[Len(commands) + 1] = to
    /\ \A k \in 1 .. Len(commands) :
         /\ ~Refused(commands[k], path[k])
         /\ path[k + 1] = After(commands[k], path[k])

IsRunnable(commands, from) == \E to \in InputState : Leads(commands, from, to)

\* The state in which a plan ends that is carried out from `held` on.
PlanEnd(plan, held) ==
  IF plan[Len(plan)].kind # "Delay" THEN plan[Len(plan)].held ELSE held

\* What the collector foresees from the dispatcher's copy, the executor does from
\* the state it is really in, from the first command to the last.
BatchIsForeseen ==
  /\ batch # None => Leads(batch.commands, dispatcherInput, batch.shadow)
  /\ \A job \in {sending} \cup {jobs[i] : i \in DOMAIN jobs} :
       job \in WorkJob /\ job.kind = "Batch" => IsRunnable(job.commands, inputState)
  /\ executor.phase = "Running" /\ executor.job.kind = "Batch"
       => IsRunnable(executor.todo, PlanEnd(executor.plan, inputState))

\* What several tasks and records say of one fact agrees, in every order of
\* requests, results and safety events.
DispatcherInv ==
  /\ TypeOK
  /\ OwnersAreActive
  /\ ExclusiveOwner
  /\ CollectorMatchesMode
  /\ PendingStopsAreActive
  /\ ExecutorKeepsToItsPlan
  /\ InputIsReported
  /\ CancelReachesWork
  /\ BatchIsForeseen

\* STOP_ALL is answered only when input is released and no work is left
\* anywhere between the dispatcher and the executor.
StopAckMeansReleased ==
  [][\A i \in ActiveSlot :
       /\ cache[i].token.command = "StopAll"
       /\ i \in DOMAIN cache' /\ cache'[i].token = cache[i].token
       /\ cache'[i].response # None
       => inputState = {} /\ Pipeline = <<None>>]_vars

\* Once a job's cancellation has been published it may see the report in
\* flight through, and the one that completes its pointer step, but starts no
\* other, wherever the job was at the time.
CancelledWorkStartsNoReport ==
  [][executor' # executor /\ executor'.phase = "Running"
       /\ Head(executor'.plan).kind = "Report"
     => executor'.job.baseline = cancelGeneration]_vars

\* CANCEL never holds a generation older than the current one: a job dispatched
\* after a STOP_ALL is not cancelled by it.
CancelIsCurrent ==
  /\ cancel \in {None, cancelGeneration}
  /\ executor.phase = "Running" /\ executor.job.baseline # cancelGeneration
       => cancel = cancelGeneration

\* A command that was validated on the collector's shadow state is never
\* refused when the batch executes: what the shadow state predicted from the
\* dispatcher's copy is the state the executor really reaches.
BatchIsNeverRefused ==
  /\ executor.phase = "Running" /\ executor.job.kind = "Batch" /\ executor.todo # <<>>
       => ~Refused(Head(executor.todo), PlanEnd(executor.plan, inputState))
  /\ executor.phase = "Idle" /\ jobs # <<>>
       => (Head(jobs).kind = "Batch" /\ Head(jobs).commands # <<>>
             /\ Head(jobs).baseline = cancelGeneration
           => ~Refused(Head(Head(jobs).commands), inputState))

\* Whatever command or delay is under way, a release that has been asked for
\* (STOP_ALL, safety event, batch error) is carried out: it does not wait for
\* the timers of the work it cancels.
ReleaseIsCarriedOut == emergencyInFlight ~> ~emergencyInFlight

\* If timers fire, the exclusive owner gives execution back: clients are not told
\* BUSY for ever.
OwnerIsReleased == TimersFire => (IsExecutorOccupied ~> ~IsExecutorOccupied)

\* docs/superpowers/specs/2026-07-23-rp2350-reliable-hid-control-design.md:437
\* "Capacity failures return explicit errors and leave input state unchanged."
\* A release that only a rejected batch command asked for changes no input.
CapacityFailureKeepsInput ==
  [][releaseCauses = {"BatchError"} => inputState' = inputState]_vars
=============================================================================
