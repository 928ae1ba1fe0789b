------------------------------ MODULE HidClient ------------------------------
(***************************************************************************)
(* `struct HidClient` of src/tools/hidctl/src/client.rs against the        *)
(* firmware: hidctl processes, one after another, each with a main thread  *)
(* that sends one command at a time and a heartbeat thread that shares its *)
(* serial port.                                                            *)
(*                                                                         *)
(* The device is Coordinator with a coarse pipeline behind it: one job and *)
(* one release at a time, which is what Dispatcher guarantees; its session *)
(* ends in one step, when cdc_control_task sees DTR fall or the lease      *)
(* expires, which is what Sessions guarantees.  The serial line delivers   *)
(* in order and loses nothing; responses are lost when RESPONSES is full.  *)
(* Timeouts may fire at any time.                                          *)
(***************************************************************************)
EXTENDS Coordinator

CONSTANTS
  RunLimit,         \* bound: hidctl processes
  CommandLimit,     \* bound: commands of all processes, not counting Drop's
  ClientCommand,    \* what a process may send
  Retries,          \* ClientOptions::retries, 2 by default
  FirstSequence,    \* 1 in the code; larger, to reach the wrap
  MaxSequence,      \* u16::MAX
  RequestCapacity,  \* REQUESTS, 8 in the code
  ResponseCapacity, \* RESPONSES, 8 in the code
  CoalescedDtr,     \* DTR may fall and rise before cdc_control_task runs
  LeftoverPacket,   \* a packet may wait in the endpoint while DTR falls
  MayBeKilled,      \* a process may end without running Drop
  MayStall,         \* a process may be held up beyond the firmware's deadlines
  ExpiryLimit       \* bound: sessions that may have ended when the lease expires

ASSUME ClientAssumption ==
  /\ {RunLimit, CommandLimit, MaxSequence, RequestCapacity, ResponseCapacity}
       \subseteq Nat \ {0}
  /\ ClientCommand \subseteq Mutation \cup Bypass \cup {"StopAll"}
  /\ Retries \in Nat
  /\ FirstSequence \in 1 .. MaxSequence
  /\ SequenceNumber = 1 .. MaxSequence
  /\ Version = {2}
  /\ {CoalescedDtr, LeftoverPacket, MayBeKilled, MayStall} \subseteq BOOLEAN
  /\ ExpiryLimit \in Nat
  /\ None \notin {"Client", "Heartbeat"}

\* Ghost: the n-th command of a process; Drop's STOP_ALL is one, too.
Origin == (1 .. RunLimit) \X (1 .. CommandLimit + 1)

\* A frame is written in two pieces, as write_all may.  A heartbeat frame has
\* sequence 0 and no origin.
Frame == [command: Command \cup {"Heartbeat"}, sequence: 0 .. MaxSequence,
          from: Origin \cup {None}]
Piece == [frame: Frame, part: {1, 2}]
Reply == [kind: ResponseKind, sequence: SequenceNumber]

HeartbeatFrame == [command |-> "Heartbeat", sequence |-> 0, from |-> None]

VARIABLES
  client,     \* main thread: phase, run, command, sequence, attempt; what was sent
  heartbeat,  \* phase of the heartbeat thread
  stopped,    \* HeartbeatWorker::stop
  writeMutex, \* who holds write_mutex, or None
  dtr,        \* the line, as the process drives it
  line,       \* bytes written and not yet taken by cdc_receive_task
  inbox,      \* responses received and not yet decoded
  results,    \* history: how send_command returned
  previousDtr, requests, job, stops, releasing, responses, \* the device
  origin,     \* history: whose request each admission id is
  started, finished, \* history: admissions whose work began, and was done
  forgotten         \* history: admissions made before the lease expired last

clientVars == <<client, results>>
threadVars == <<heartbeat, stopped, writeMutex>>
deviceVars == <<previousDtr, requests, job, stops, releasing, responses,
                origin, started, finished, forgotten>>
vars == <<coordVars, clientVars, threadVars, dtr, line, inbox, deviceVars>>

\* Idle; waiting for write_mutex; between the pieces of a write; in flush; in
\* read_response; in retry_sleep; joining the heartbeat thread.
ClientPhase == {"Closed", "Idle", "Locking", "Writing", "Flushing", "Reading",
                "Sleeping", "Joining"}

HeartbeatPhase == {"None", "Waiting", "Locking", "Checking", "Writing", "Flushing",
                   "Exited"}

TypeOK ==
  /\ CoordinatorTypeOK
  /\ client \in [phase: ClientPhase, run: 0 .. RunLimit, number: 0 .. CommandLimit + 1,
                 command: Command, sequence: SequenceNumber, next: 0 .. MaxSequence,
                 attempt: 0 .. Retries, closing: BOOLEAN,
                 sent: 0 .. CommandLimit]
  /\ heartbeat \in HeartbeatPhase
  /\ {stopped, dtr, previousDtr, releasing} \subseteq BOOLEAN
  /\ writeMutex \in {"Client", "Heartbeat", None}
  /\ line \in Seq(Piece)
  /\ inbox \in Seq(Reply)
  /\ results \in [Origin -> {"None", "Ok", "Error"}]
  /\ requests \in Seq(Frame) /\ Len(requests) <= RequestCapacity
  /\ job \in Token \cup {None}
  /\ stops \in Seq(Token)
  /\ responses \in Seq(Reply) /\ Len(responses) <= ResponseCapacity
  /\ origin \in Seq(Origin) /\ Len(origin) = nextAdmissionId - 1
  /\ started \cup finished \cup forgotten \subseteq DOMAIN origin

Init ==
  /\ CoordinatorInit
  /\ client = [phase |-> "Closed", run |-> 0, number |-> 0, command |-> "StopAll",
               sequence |-> 1, next |-> FirstSequence, attempt |-> 0,
               closing |-> FALSE, sent |-> 0]
  /\ heartbeat = "None" /\ stopped = FALSE /\ writeMutex = None
  /\ dtr = FALSE /\ line = <<>> /\ inbox = <<>>
  /\ results = [f \in Origin |-> "None"]
  /\ previousDtr = FALSE /\ requests = <<>> /\ job = None /\ stops = <<>>
  /\ releasing = FALSE /\ responses = <<>>
  /\ origin = <<>> /\ started = {} /\ finished = {} /\ forgotten = {}

-----------------------------------------------------------------------------
(* The main thread.                                                        *)

CurrentFrame == [command |-> client.command, sequence |-> client.sequence,
                 from |-> <<client.run, client.number>>]

\* next_sequence: zero, which is the heartbeat's, is skipped.
NextSequence(s) == IF s = MaxSequence THEN 1 ELSE s + 1

\* open: assert DTR and start the heartbeat.  Whether the device has seen the
\* last process lower the line is CoalescedDtr; the operating system hands a new
\* process an empty receive buffer.
Open ==
  /\ client.phase = "Closed" /\ client.run < RunLimit
  /\ CoalescedDtr \/ ~previousDtr
  /\ client' = [client EXCEPT !.phase = "Idle", !.run = @ + 1, !.number = 0,
                              !.next = FirstSequence, !.closing = FALSE]
  /\ dtr' = TRUE
  /\ heartbeat' = "Waiting" /\ stopped' = FALSE
  /\ inbox' = <<>>
  /\ UNCHANGED <<coordVars, results, writeMutex, line, deviceVars>>

\* send_command takes a sequence and builds the frame all its attempts send.
Send(command) ==
  /\ client.phase = "Idle" /\ client.sent < CommandLimit
  /\ client' = [client EXCEPT !.phase = "Locking", !.number = @ + 1, !.sent = @ + 1,
                              !.command = command, !.sequence = client.next,
                              !.next = NextSequence(@), !.attempt = 0]
  /\ UNCHANGED <<coordVars, results, threadVars, dtr, line, inbox, deviceVars>>

\* Mutant: Drop does not tell the heartbeat thread.
DropQuietly ==
  /\ client.phase = "Idle"
  /\ client' = [client EXCEPT !.phase = "Locking", !.number = @ + 1,
                              !.command = "StopAll", !.sequence = client.next,
                              !.next = NextSequence(@), !.attempt = 0,
                              !.closing = TRUE]
  /\ UNCHANGED <<coordVars, results, threadVars, dtr, line, inbox, deviceVars>>

\* drop: stop the heartbeat, then STOP_ALL.  It may be the first command of the
\* process: the keys or the script were found unusable when the port was open.
Drop ==
  /\ client.phase = "Idle"
  /\ stopped' = TRUE
  /\ client' = [client EXCEPT !.phase = "Locking", !.number = @ + 1,
                              !.command = "StopAll", !.sequence = client.next,
                              !.next = NextSequence(@), !.attempt = 0,
                              !.closing = TRUE]
  /\ UNCHANGED <<coordVars, results, heartbeat, writeMutex, dtr, line, inbox, deviceVars>>

\* write_frame: lock, write_all, flush.
ClientLocks ==
  /\ client.phase = "Locking" /\ writeMutex = None
  /\ writeMutex' = "Client"
  /\ client' = [client EXCEPT !.phase = "Writing"]
  /\ line' = Append(line, [frame |-> CurrentFrame, part |-> 1])
  /\ UNCHANGED <<coordVars, results, heartbeat, stopped, dtr, inbox, deviceVars>>

ClientWrites ==
  /\ client.phase = "Writing"
  /\ client' = [client EXCEPT !.phase = "Flushing"]
  /\ line' = Append(line, [frame |-> CurrentFrame, part |-> 2])
  /\ UNCHANGED <<coordVars, results, threadVars, dtr, inbox, deviceVars>>

ClientFlushes ==
  /\ client.phase = "Flushing" /\ line = <<>>
  /\ writeMutex' = None
  /\ client' = [client EXCEPT !.phase = IF client.closing THEN "Joining" ELSE "Reading"]
  /\ UNCHANGED <<coordVars, results, heartbeat, stopped, dtr, line, inbox, deviceVars>>

Return(result) ==
  /\ client' = [client EXCEPT !.phase = "Idle"]
  /\ results' = [results EXCEPT ![<<client.run, client.number>>] = result]

\* read_response skips the responses to earlier commands.
SkipStale ==
  /\ client.phase = "Reading" /\ inbox # <<>>
  /\ Head(inbox).sequence # client.sequence
  /\ inbox' = Tail(inbox)
  /\ UNCHANGED <<coordVars, clientVars, threadVars, dtr, line, deviceVars>>

\* A final response: ACK or STATUS as expected; NACK or the wrong one.
Conclude ==
  /\ client.phase = "Reading" /\ inbox # <<>>
  /\ Head(inbox).sequence = client.sequence /\ Head(inbox).kind # "Busy"
  /\ inbox' = Tail(inbox)
  /\ Return(IF Head(inbox).kind = ExpectedResponse(client.command) THEN "Ok" ELSE "Error")
  /\ UNCHANGED <<coordVars, threadVars, dtr, line, deviceVars>>

\* BUSY: sleep as long as it says, or give up after the last attempt.
ReadBusy ==
  /\ client.phase = "Reading" /\ inbox # <<>>
  /\ Head(inbox).sequence = client.sequence /\ Head(inbox).kind = "Busy"
  /\ inbox' = Tail(inbox)
  /\ \/ client.attempt >= Retries /\ Return("Error")
     \/ /\ client.attempt < Retries
        /\ client' = [client EXCEPT !.phase = "Sleeping"]
        /\ UNCHANGED results
  /\ UNCHANGED <<coordVars, threadVars, dtr, line, deviceVars>>

\* Mutant: a retry is a command of its own.
RetryAfresh ==
  client' = [client EXCEPT !.phase = "Locking", !.attempt = @ + 1,
                           !.sequence = client.next, !.next = NextSequence(@)]

\* The same frame once more.
Retry == client' = [client EXCEPT !.phase = "Locking", !.attempt = @ + 1]

Wake ==
  /\ client.phase = "Sleeping"
  /\ Retry
  /\ UNCHANGED <<coordVars, results, threadVars, dtr, line, inbox, deviceVars>>

\* The deadline passes; a late answer may be on its way, or already here.
Timeout ==
  /\ client.phase = "Reading"
  /\ \/ client.attempt >= Retries /\ Return("Error")
     \/ client.attempt < Retries /\ Retry /\ UNCHANGED results
  /\ UNCHANGED <<coordVars, threadVars, dtr, line, inbox, deviceVars>>

\* The end of drop: join the thread, then lower DTR.
Join ==
  /\ client.phase = "Joining" /\ heartbeat = "Exited"
  /\ client' = [client EXCEPT !.phase = "Closed"]
  /\ heartbeat' = "None"
  /\ dtr' = FALSE
  /\ UNCHANGED <<coordVars, results, stopped, writeMutex, line, inbox, deviceVars>>

\* The process is killed, in the middle of a frame perhaps; the operating system
\* closes its port.
Killed ==
  /\ MayBeKilled /\ client.phase # "Closed"
  /\ CoalescedDtr \/ previousDtr
  /\ client' = [client EXCEPT !.phase = "Closed"]
  /\ heartbeat' = "None" /\ writeMutex' = None
  /\ dtr' = FALSE
  /\ UNCHANGED <<coordVars, results, stopped, line, inbox, deviceVars>>

-----------------------------------------------------------------------------
(* The heartbeat thread.                                                   *)

HeartbeatGoesTo(phase) ==
  /\ heartbeat' = phase
  /\ UNCHANGED <<coordVars, clientVars, stopped, dtr, inbox, deviceVars>>

\* wait_for_heartbeat_tick: the interval ends, or the thread is told to stop.
Tick ==
  /\ heartbeat = "Waiting" /\ ~stopped
  /\ HeartbeatGoesTo("Locking")
  /\ UNCHANGED <<writeMutex, line>>

HeartbeatToldToStop ==
  /\ heartbeat = "Waiting" /\ stopped
  /\ HeartbeatGoesTo("Exited")
  /\ UNCHANGED <<writeMutex, line>>

\* Mutant: the flag is looked at before the mutex is locked.
HeartbeatLocksUnchecked ==
  /\ heartbeat = "Locking" /\ writeMutex = None
  /\ writeMutex' = "Heartbeat"
  /\ HeartbeatGoesTo("Writing")
  /\ line' = Append(line, [frame |-> HeartbeatFrame, part |-> 1])

HeartbeatLocks ==
  /\ heartbeat = "Locking" /\ writeMutex = None
  /\ writeMutex' = "Heartbeat"
  /\ HeartbeatGoesTo("Checking")
  /\ UNCHANGED line

\* write_heartbeat_if_running looks at the flag with the mutex held.
HeartbeatChecks ==
  /\ heartbeat = "Checking"
  /\ \/ /\ stopped
        /\ writeMutex' = None
        /\ HeartbeatGoesTo("Exited")
        /\ UNCHANGED line
     \/ /\ ~stopped
        /\ HeartbeatGoesTo("Writing")
        /\ line' = Append(line, [frame |-> HeartbeatFrame, part |-> 1])
        /\ UNCHANGED writeMutex

HeartbeatWrites ==
  /\ heartbeat = "Writing"
  /\ HeartbeatGoesTo("Flushing")
  /\ line' = Append(line, [frame |-> HeartbeatFrame, part |-> 2])
  /\ UNCHANGED writeMutex

HeartbeatFlushes ==
  /\ heartbeat = "Flushing" /\ line = <<>>
  /\ writeMutex' = None
  /\ HeartbeatGoesTo("Waiting")
  /\ UNCHANGED line

-----------------------------------------------------------------------------
(* The device.                                                             *)

\* try_send on RESPONSES: what does not fit is lost.
QueueReplies(replies) ==
  LET all == responses \o replies
  IN  responses' = IF Len(all) <= ResponseCapacity THEN all
                   ELSE SubSeq(all, 1, ResponseCapacity)

ReplyOf(token, kind) == [kind |-> kind, sequence |-> token.sequence]

RequestOf(frame) == [sequence |-> frame.sequence, version |-> 2, command |-> frame.command]

\* cdc_receive_task: a complete frame, or none while it is gated.  A heartbeat
\* only refreshes the lease; a command with sequence zero is refused.
Receive ==
  /\ previousDtr /\ dtr
  /\ Len(line) >= 2 /\ line[1].part = 1 /\ line[2].frame = line[1].frame
  /\ Len(requests) < RequestCapacity
  /\ line' = SubSeq(line, 3, Len(line))
  /\ LET frame == line[1].frame
     IN  requests' = IF frame.sequence = 0 THEN requests ELSE Append(requests, frame)
  /\ UNCHANGED <<coordVars, clientVars, threadVars, dtr, inbox, previousDtr, job, stops,
                 releasing, responses, origin, started, finished, forgotten>>

\* next_frame_action drops the end of a frame whose beginning is lost, as noise; the
\* partial-frame timeout drops a beginning whose end does not come.
Discard ==
  /\ previousDtr /\ dtr /\ line # <<>>
  /\ line[1].part = 2 \/ (MayStall /\ Len(line) = 1)
  /\ line' = Tail(line)
  /\ UNCHANGED <<coordVars, clientVars, threadVars, dtr, inbox, previousDtr, requests, job,
                 stops, releasing, responses, origin, started, finished, forgotten>>

\* cdc_control_task sees the line rise.
SeeDtrRise ==
  /\ ~previousDtr /\ dtr
  /\ previousDtr' = TRUE
  /\ UNCHANGED <<coordVars, clientVars, threadVars, dtr, line, inbox, requests, job,
                 stops, releasing, responses, origin, started, finished, forgotten>>

\* Mutant: the retry cache survives the session.
SeeDtrFallKeepingCache ==
  /\ previousDtr /\ ~dtr
  /\ previousDtr' = FALSE
  /\ UNCHANGED coordVars
  /\ line' = <<>> /\ requests' = <<>> /\ responses' = <<>> /\ stops' = <<>>
  /\ releasing' = TRUE
  /\ UNCHANGED <<clientVars, threadVars, dtr, inbox, job, origin, started, finished, forgotten>>

\* Mutant: the partial frame survives the session.
SeeDtrFallKeepingBytes ==
  /\ previousDtr /\ ~dtr
  /\ previousDtr' = FALSE
  /\ ClearSession
  /\ requests' = <<>> /\ responses' = <<>> /\ stops' = <<>>
  /\ releasing' = TRUE
  /\ UNCHANGED <<clientVars, threadVars, dtr, line, inbox, job, origin, started, finished, forgotten>>

\* The dispatcher's safety event: the session ends with all it holds, the job is
\* cancelled and input released.
EndSession ==
  /\ ClearSession
  /\ requests' = <<>> /\ responses' = <<>> /\ stops' = <<>>
  /\ releasing' = TRUE

\* cdc_control_task sees the line low after it was high.  The receiver drops what it
\* reads while DTR is low; what it did not come to read stays in the endpoint, since
\* the next thing it does is to wait for DTR.
SeeDtrFall ==
  /\ previousDtr /\ ~dtr
  /\ previousDtr' = FALSE
  /\ EndSession
  /\ line' \in {<<>>} \cup IF LeftoverPacket THEN {line} ELSE {}
  /\ UNCHANGED <<clientVars, threadVars, dtr, inbox, job, origin, started, finished, forgotten>>

\* Ghost: the work since the lease expired last.
Remembered == started \ forgotten

\* lease_task: the process with all its threads was held up while a job of its ran or
\* input was held for it.  What is guarded is not kept here: the lease may expire after
\* any work, which is more often than the code lets it.  The session ends, though the
\* process lives and DTR is high.  The receiver resets with what it has taken off the
\* line, to the middle of a frame perhaps, and reads on.
LeaseExpires ==
  /\ MayStall /\ previousDtr /\ Remembered # {}
  /\ sessionGeneration < ExpiryLimit
  /\ EndSession
  /\ \E taken \in 0 .. Len(line) : line' = SubSeq(line, taken + 1, Len(line))
  /\ forgotten' = DOMAIN origin
  /\ UNCHANGED <<clientVars, threadVars, dtr, inbox, previousDtr, job, origin, started,
                 finished>>

\* The head of REQUESTS is admitted as fresh.
AdmitNew ==
  /\ requests # <<>>
  /\ requests' = Tail(requests)
  /\ LET r == RequestOf(Head(requests))
         answer == Answer(NewToken(r), ExpectedResponse(r.command))
     IN  /\ \/ /\ AdmitExecute(r, releasing)
               /\ job' = NewToken(r)
               /\ started' = started \cup {nextAdmissionId}
               /\ UNCHANGED <<stops, releasing, responses, finished>>
            \/ /\ AdmitBypass(r, releasing, answer)
               /\ QueueReplies(<<ReplyOf(r, answer.kind)>>)
               /\ started' = started \cup {nextAdmissionId}
               /\ finished' = finished \cup {nextAdmissionId}
               /\ UNCHANGED <<job, stops, releasing>>
            \/ /\ AdmitStop(r, releasing)
               /\ stops' = Append(stops, NewToken(r))
               /\ releasing' = TRUE
               /\ started' = started \cup {nextAdmissionId}
               /\ UNCHANGED <<job, responses, finished>>
  /\ origin' = Append(origin, Head(requests).from)
  /\ UNCHANGED <<clientVars, threadVars, dtr, line, inbox, previousDtr, forgotten>>

\* The head of REQUESTS is answered without work: replayed, BUSY or refused.
AnswerAtOnce ==
  /\ requests # <<>>
  /\ requests' = Tail(requests)
  /\ LET r == RequestOf(Head(requests))
     IN  \/ \E i \in Slot : /\ AdmitReplay(r, i)
                            /\ QueueReplies(<<ReplyOf(r, cache[i].response.kind)>>)
         \/ AdmitBusy(r, releasing) /\ QueueReplies(<<ReplyOf(r, "Busy")>>)
         \/ AdmitReject(r, releasing) /\ QueueReplies(<<ReplyOf(r, "Nack")>>)
  /\ UNCHANGED <<clientVars, threadVars, dtr, line, inbox, previousDtr, job, stops,
                 releasing, origin, started, finished, forgotten>>

\* The executor is done with the job: it ran to its end, or failed, or was
\* cancelled by the release that waits behind it.
FinishJob ==
  /\ job # None
  /\ job' = None
  /\ \E kind \in {"Ack", "Nack"} :
       /\ finished' = IF kind = "Ack" THEN finished \cup {job.id} ELSE finished
       /\ \/ Complete(job, Answer(job, kind)) /\ QueueReplies(<<ReplyOf(job, kind)>>)
          \/ CompleteFails(job, Answer(job, kind)) /\ UNCHANGED responses
  /\ UNCHANGED <<clientVars, threadVars, dtr, line, inbox, previousDtr, requests, stops,
                 releasing, origin, started, forgotten>>

\* The release is done: every waiting STOP_ALL is answered.
FinishRelease ==
  /\ releasing /\ job = None
  /\ releasing' = FALSE
  /\ stops' = <<>>
  /\ cache' = [i \in Slot |->
                 IF \E k \in DOMAIN stops : AwaitsAnswer(i, stops[k])
                 THEN [cache[i] EXCEPT !.response = Answer(cache[i].token, "Ack")]
                 ELSE cache[i]]
  /\ QueueReplies([k \in DOMAIN stops |-> ReplyOf(stops[k], "Ack")])
  /\ finished' = finished \cup {stops[k].id : k \in DOMAIN stops}
  /\ UNCHANGED <<nextEvict, sessionGeneration, nextAdmissionId, executorOwner, batchState,
                 clientVars, threadVars, dtr, line, inbox, previousDtr, requests, job,
                 origin, started, forgotten>>

\* response_task.
Respond ==
  /\ responses # <<>>
  /\ responses' = Tail(responses)
  /\ inbox' = IF dtr THEN Append(inbox, Head(responses)) ELSE inbox
  /\ UNCHANGED <<coordVars, clientVars, threadVars, dtr, line, previousDtr, requests, job,
                 stops, releasing, origin, started, finished, forgotten>>

-----------------------------------------------------------------------------
ClientStep == ClientWrites \/ ClientFlushes \/ SkipStale \/ Conclude \/ ReadBusy
                \/ Wake \/ Timeout \/ Join

HeartbeatStep == HeartbeatToldToStop \/ HeartbeatChecks \/ HeartbeatWrites
                   \/ HeartbeatFlushes

DeviceStep == Receive \/ Discard \/ Respond \/ SeeDtrRise \/ SeeDtrFall
                \/ AdmitNew \/ AnswerAtOnce \/ FinishRelease

\* All processes have come and gone.
Over == client.phase = "Closed" /\ client.run = RunLimit /\ UNCHANGED vars

Next ==
  \/ Open
  \/ \E command \in ClientCommand : Send(command)
  \/ Drop
  \/ ClientLocks
  \/ ClientStep
  \/ Killed
  \/ Tick
  \/ HeartbeatLocks
  \/ HeartbeatStep
  \/ DeviceStep
  \/ LeaseExpires
  \/ FinishJob
  \/ Over

Spec == Init /\ [][Next]_vars

\* The threads run, the main thread gets the lock at last if it tries for it (the
\* heartbeat does twice a second), and the firmware's tasks run.  Nothing is assumed
\* of the user, of a job's end, nor of the heartbeat's timer.
Fairness ==
  /\ WF_vars(ClientStep) /\ WF_vars(HeartbeatStep \/ HeartbeatLocks)
  /\ WF_vars(DeviceStep) /\ SF_vars(ClientLocks)

FairSpec == Spec /\ Fairness

-----------------------------------------------------------------------------
(* What a caller of send_command may rely on.                              *)

\* However often a command is retransmitted, and however late its answers, the
\* device works on it at most once, until the lease expires under the living process:
\* that makes it forget, and another attempt may be worked on again, once.
WorkedOnOnce ==
  \A i, j \in Remembered : origin[i] = origin[j] => i = j

\* send_command returns Ok only when the device has done this very command:
\* never on the answer to an earlier command, to an earlier attempt that was
\* refused, or to the same sequence of an earlier process.
OkMeansDone ==
  \A f \in Origin : results[f] = "Ok" => \E i \in finished : origin[i] = f

\* The two threads' frames never mix on the line, whatever write_all splits, and
\* half a frame left by a killed process is not completed by the next one.  Only a
\* stall leaves the end of a frame at the head, whose beginning the receiver dropped.
FramesAreWhole ==
  \A k \in DOMAIN line :
    /\ line[k].part = 2 => \/ MayStall /\ k = 1
                           \/ k > 1 /\ line[k - 1] = [line[k] EXCEPT !.part = 1]
    /\ line[k].part = 1 /\ k < Len(line) =>
         line[k + 1].frame = line[k].frame

\* Drop's STOP_ALL is the last frame of its process: the heartbeat that was
\* about to write finds out.
NothingFollowsStop ==
  [][client.closing /\ client.phase \in {"Writing", "Flushing", "Joining"}
       /\ Len(line') > Len(line)
     => line'[Len(line')].frame.command = "StopAll"]_vars

\* A client alone on the port never uses a sequence that the cache holds for
\* another command.
NoSequenceConflict ==
  \A k \in DOMAIN requests : \A i \in Slot :
    Holds(i, RequestOf(requests[k])) =>
      origin[cache[i].token.id] = requests[k].from

\* Sequences, bytes on the line and the threads' records stay sound through kills,
\* retries and the wrap of the sequence.
ClientInv == TypeOK /\ FramesAreWhole /\ NoSequenceConflict

\* send_command and drop return: no lock, flag or retry keeps them for ever.
CallsReturn ==
  client.phase \notin {"Idle", "Closed"} ~> client.phase \in {"Idle", "Closed"}
=============================================================================
