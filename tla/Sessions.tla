------------------------------ MODULE Sessions ------------------------------
(***************************************************************************)
(* Runtime sessions: how the tasks of src/src/runtime.rs keep the requests *)
(* and responses of a controller that went away from reaching the next one.*)
(*                                                                         *)
(* SESSION_GENERATION advances at once when DTR is lost, USB is disabled or*)
(* the lease expires; APPLIED_SESSION follows when the dispatcher has      *)
(* cleared its state.  In between nothing may be received, admitted or     *)
(* sent.  REQUEST_RESET and RESPONSE_RESET are Embassy Signals: they hold  *)
(* the latest value until their one consumer takes it.                     *)
(*                                                                         *)
(* A frame is what the tasks see of it: the session it is stamped with and *)
(* (ghost) the sessions its bytes were read in.  What is inside a request, *)
(* and how it is executed, is the subject of Dispatcher.                   *)
(***************************************************************************)
EXTENDS Integers, Sequences, FiniteSets

CONSTANTS
  SessionLimit,      \* bound: no new session begins from here on
  RequestCapacity,   \* REQUESTS, 8 in the code
  ResponseCapacity,  \* RESPONSES, 8 in the code
  SafetyCapacity,    \* SAFETY_EVENTS, 4 in the code
  PacketFrames,      \* bound: frames that one packet completes
  CoalescedDtr,      \* DTR may change again before cdc_control_task runs
  None

ASSUME SessionAssumption ==
  /\ {SessionLimit, RequestCapacity, ResponseCapacity, SafetyCapacity, PacketFrames}
       \subseteq Nat \ {0}
  /\ CoalescedDtr \in BOOLEAN
  /\ None \notin Nat

Session == Nat

\* An OwnedRequest with its runtime_session; `read` is a ghost.
Request == [session: Session, read: SUBSET Session]

\* A CachedResponse with its runtime_session; `request` is a ghost, the session
\* of the request it answers.
Response == [session: Session, request: Session]

VARIABLES
  session,       \* SESSION_GENERATION
  applied,       \* APPLIED_SESSION
  usb,           \* the USB device is configured and its endpoints enabled
  interrupted,   \* history: the bus was reset since the last safety event
  dtr,           \* the DTR line as the host drives it
  dtrChanged,    \* a wake-up of control_changed is pending
  dtrAsserted,   \* DTR_ASSERTED
  control,       \* cdc_control_task: its previous_dtr; awaiting SAFETY_EVENTS.send?
  leaseRaising,  \* lease_task awaits SAFETY_EVENTS.send
  safetyEvents,  \* number of events in SAFETY_EVENTS
  delayed,       \* history: a task had to wait for room in SAFETY_EVENTS
  requestReset,  \* REQUEST_RESET, or None
  responseReset, \* RESPONSE_RESET, or None
  receiver,      \* cdc_receive_task
  requests,      \* REQUESTS
  blocked,       \* dispatcher_task awaits JOBS.send
  unanswered,    \* sessions of the admissions active in the coordinator
  responses,     \* RESPONSES
  sender         \* response_task

signalVars == <<requestReset, responseReset>>
eventVars == <<safetyEvents, delayed>>
lineVars == <<usb, interrupted, dtr, dtrChanged>>
controlVars == <<dtrAsserted, control>>
dispatcherVars == <<applied, blocked, unanswered>>
vars == <<session, lineVars, controlVars, leaseRaising, eventVars, signalVars,
          receiver, requests, dispatcherVars, responses, sender>>

\* The receiver waits for a connection; for REQUEST_RESET; for a packet; for
\* room in REQUESTS with `left` frames of the packet to send, the first of
\* which was read in `bytes`; or for room in SAFETY_EVENTS.  `buffer`: sessions
\* in which the bytes of the partial frame were read, {} if there is none.
Receiver == [phase: {"Disconnected", "Gated", "Reading", "Sending", "Raising"},
             runtime: Session, buffered: Session, buffer: SUBSET Session,
             left: 0 .. PacketFrames, bytes: SUBSET Session]

Sender == [phase: {"Disconnected", "Idle", "Writing", "Raising"},
           response: Response \cup {None}]

TypeOK ==
  /\ {session, applied} \subseteq Session
  /\ {usb, interrupted, dtr, dtrChanged, dtrAsserted, leaseRaising, delayed, blocked}
       \subseteq BOOLEAN
  /\ control \in [previous: BOOLEAN, raising: BOOLEAN]
  /\ safetyEvents \in 0 .. SafetyCapacity
  /\ {requestReset, responseReset} \subseteq Session \cup {None}
  /\ receiver \in Receiver
  /\ requests \in Seq(Request) /\ Len(requests) <= RequestCapacity
  /\ unanswered \subseteq Session
  /\ responses \in Seq(Response) /\ Len(responses) <= ResponseCapacity
  /\ sender \in Sender

Init ==
  /\ session = 1 /\ applied = 1
  /\ usb = FALSE /\ interrupted = FALSE /\ dtr = FALSE /\ dtrChanged = FALSE
  /\ dtrAsserted = FALSE
  /\ control = [previous |-> FALSE, raising |-> FALSE]
  /\ leaseRaising = FALSE
  /\ safetyEvents = 0 /\ delayed = FALSE
  /\ requestReset = None /\ responseReset = None
  /\ receiver = [phase |-> "Disconnected", runtime |-> 1, buffered |-> 1,
                 buffer |-> {}, left |-> 0, bytes |-> {}]
  /\ requests = <<>>
  /\ blocked = FALSE
  /\ unanswered = {}
  /\ responses = <<>>
  /\ sender = [phase |-> "Disconnected", response |-> None]

-----------------------------------------------------------------------------
(* Helpers shared by the tasks.                                            *)

\* Mutant: the response task is not told.
ResetRequestsOnly ==
  /\ session' = session + 1
  /\ requestReset' = session + 1
  /\ UNCHANGED responseReset

\* begin_session_reset.
BeginSessionReset ==
  /\ session' = session + 1
  /\ requestReset' = session + 1
  /\ responseReset' = session + 1

\* queue_response_for_session: try_send, dropped when RESPONSES is full.
QueueResponse(response) ==
  responses' = IF Len(responses) < ResponseCapacity
               THEN Append(responses, response) ELSE responses

HasRoomForEvent == safetyEvents < SafetyCapacity

\* SAFETY_EVENTS.send: done at once, or awaited as `raising` records.
SendEvent(raising) ==
  /\ raising = ~HasRoomForEvent
  /\ safetyEvents' = IF HasRoomForEvent THEN safetyEvents + 1 ELSE safetyEvents
  /\ delayed' = (delayed \/ raising)

-----------------------------------------------------------------------------
(* The host and the USB stack.                                             *)

HostSetsDtr ==
  /\ usb
  /\ CoalescedDtr \/ ~dtrChanged
  /\ dtr => session < SessionLimit
  /\ dtr' = ~dtr
  /\ dtrChanged' = TRUE
  /\ UNCHANGED <<session, usb, interrupted, controlVars, leaseRaising, eventVars,
                 signalVars, receiver, requests, dispatcherVars, responses, sender>>

\* Mutant: the session advances without an event.
UsbDisabledSilently ==
  /\ usb /\ session < SessionLimit
  /\ usb' = FALSE
  /\ BeginSessionReset
  /\ UNCHANGED <<interrupted, dtr, dtrChanged, controlVars, leaseRaising, eventVars,
                 receiver, requests, dispatcherVars, responses, sender>>

\* Mutant: an event without a new session.
UsbDisabledWithinSession ==
  /\ usb
  /\ usb' = FALSE
  /\ safetyEvents' = IF HasRoomForEvent THEN safetyEvents + 1 ELSE safetyEvents
  /\ UNCHANGED <<session, signalVars, interrupted, dtr, dtrChanged, delayed, controlVars,
                 leaseRaising, receiver, requests, dispatcherVars, responses, sender>>

\* RuntimeUsbHandler::enabled(false), whose event is lost when the queue is full.
UsbDisabled ==
  /\ usb /\ session < SessionLimit
  /\ usb' = FALSE
  /\ BeginSessionReset
  /\ safetyEvents' = IF HasRoomForEvent THEN safetyEvents + 1 ELSE safetyEvents
  /\ UNCHANGED <<interrupted, dtr, dtrChanged, delayed, controlVars, leaseRaising,
                 receiver, requests, dispatcherVars, responses, sender>>

\* A bus reset disables the endpoints and drops DTR without a call of the USB
\* handler: the tasks have to notice.
UsbReset ==
  /\ usb /\ session < SessionLimit
  /\ usb' = FALSE /\ interrupted' = TRUE
  /\ dtr' = FALSE /\ dtrChanged' = TRUE
  /\ UNCHANGED <<session, controlVars, leaseRaising, eventVars, signalVars,
                 receiver, requests, dispatcherVars, responses, sender>>

\* Enumeration resets the bus and with it the line state.
UsbEnabled ==
  /\ ~usb
  /\ usb' = TRUE
  /\ dtr' = FALSE
  /\ dtrChanged' = TRUE
  /\ UNCHANGED <<session, interrupted, controlVars, leaseRaising, eventVars, signalVars,
                 receiver, requests, dispatcherVars, responses, sender>>

-----------------------------------------------------------------------------
(* cdc_control_task and lease_task.                                        *)

ControlChanges ==
  /\ dtrChanged /\ ~control.raising
  /\ dtrChanged' = FALSE
  /\ dtrAsserted' = dtr
  /\ \/ /\ control.previous /\ ~dtr
        /\ BeginSessionReset
        /\ \E raising \in BOOLEAN :
             /\ SendEvent(raising)
             /\ control' = [previous |-> dtr, raising |-> raising]
     \/ /\ ~(control.previous /\ ~dtr)
        /\ requestReset' = IF ~control.previous /\ dtr /\ applied = session
                           THEN session ELSE requestReset
        /\ control' = [control EXCEPT !.previous = dtr]
        /\ UNCHANGED <<session, responseReset, eventVars>>
  /\ UNCHANGED <<usb, interrupted, dtr, leaseRaising, receiver, requests, dispatcherVars,
                 responses, sender>>

ControlRaises ==
  /\ control.raising
  /\ SendEvent(FALSE)
  /\ control' = [control EXCEPT !.raising = FALSE]
  /\ UNCHANGED <<session, lineVars, dtrAsserted, leaseRaising, signalVars, receiver,
                 requests, dispatcherVars, responses, sender>>

\* apply_runtime_safety_action(LeaseExpired); the clock decides when.
LeaseExpires ==
  /\ ~leaseRaising /\ session < SessionLimit
  /\ BeginSessionReset
  /\ SendEvent(leaseRaising')
  /\ UNCHANGED <<lineVars, controlVars, receiver, requests, dispatcherVars,
                 responses, sender>>

LeaseRaises ==
  /\ leaseRaising
  /\ SendEvent(FALSE)
  /\ leaseRaising' = FALSE
  /\ UNCHANGED <<session, lineVars, controlVars, signalVars, receiver, requests,
                 dispatcherVars, responses, sender>>

-----------------------------------------------------------------------------
(* cdc_receive_task.                                                       *)

\* From the top of the loop to the next await, with `buffer` of session
\* `buffered` in frame_buf: gated unless DTR is up and the session applied.
Listen(buffer, buffered) ==
  receiver' =
    [phase    |-> IF dtr /\ applied = session THEN "Reading" ELSE "Gated",
     runtime  |-> session,
     buffered |-> session,
     buffer   |-> IF dtr /\ applied = session /\ buffered = session THEN buffer ELSE {},
     left     |-> 0,
     bytes    |-> {}]

ReceiverConnects ==
  /\ receiver.phase = "Disconnected" /\ usb
  /\ Listen({}, session)
  /\ UNCHANGED <<session, lineVars, controlVars, leaseRaising, eventVars, signalVars,
                 requests, dispatcherVars, responses, sender>>

\* Mutant: the partial frame survives the reset.
ReceiverResetsKeepingBuffer ==
  /\ receiver.phase \in {"Gated", "Reading"}
  /\ requestReset # None
  /\ requestReset' = None
  /\ Listen(receiver.buffer, session)
  /\ UNCHANGED <<session, lineVars, controlVars, leaseRaising, eventVars,
                 responseReset, requests, dispatcherVars, responses, sender>>

\* REQUEST_RESET wakes the gate, or wins against the read it interrupts.
ReceiverResets ==
  /\ receiver.phase \in {"Gated", "Reading"}
  /\ requestReset # None
  /\ requestReset' = None
  /\ Listen({}, session)
  /\ UNCHANGED <<session, lineVars, controlVars, leaseRaising, eventVars,
                 responseReset, requests, dispatcherVars, responses, sender>>

IsReading == receiver.phase = "Reading" /\ requestReset = None

\* Sends to REQUESTS as many of n complete frames as there is room for: the
\* first was read in `bytes`, the others in the packet's session.  With frames
\* left it awaits room; otherwise `buffer` is kept if the session still stands.
SendFrames(n, bytes, buffer) ==
  LET stamp == receiver.runtime
      room == RequestCapacity - Len(requests)
      sent == IF n <= room THEN n ELSE room
      frame(i) == [session |-> stamp, read |-> IF i = 1 THEN bytes ELSE {stamp}]
  IN  /\ requests' = requests \o [i \in 1 .. sent |-> frame(i)]
      /\ \/ /\ sent < n
            /\ receiver' = [receiver EXCEPT
                 !.phase = "Sending", !.left = n - sent, !.buffer = buffer,
                 !.bytes = IF sent = 0 THEN bytes ELSE {stamp}]
         \/ /\ sent = n
            /\ IF session = stamp /\ dtr
               THEN Listen(buffer, receiver.buffered) ELSE Listen({}, session)

\* A packet arrives that completes n frames and may begin another.  A packet
\* that arrives without DTR is discarded.
ReadPacket ==
  /\ IsReading /\ usb
  /\ \/ /\ ~dtr
        /\ Listen({}, session)
        /\ UNCHANGED requests
     \/ /\ dtr
        /\ \E n \in 0 .. PacketFrames, partial \in BOOLEAN :
             LET bytes == receiver.buffer \cup {session}
             IN  SendFrames(n, bytes, IF n = 0 THEN bytes
                                      ELSE IF partial THEN {session} ELSE {})
  /\ UNCHANGED <<session, lineVars, controlVars, leaseRaising, eventVars, signalVars,
                 dispatcherVars, responses, sender>>

SendMore ==
  /\ receiver.phase = "Sending"
  /\ Len(requests) < RequestCapacity
  /\ SendFrames(receiver.left, receiver.bytes, receiver.buffer)
  /\ UNCHANGED <<session, lineVars, controlVars, leaseRaising, eventVars, signalVars,
                 dispatcherVars, responses, sender>>

\* A frame that cannot be decoded, or a packet that overflows, is answered NACK.
RejectInput ==
  /\ IsReading /\ usb
  /\ \/ dtr /\ QueueResponse([session |-> receiver.runtime, request |-> session])
     \/ ~dtr /\ UNCHANGED responses
  /\ Listen({}, session)
  /\ UNCHANGED <<session, lineVars, controlVars, leaseRaising, eventVars, signalVars,
                 requests, dispatcherVars, sender>>

PartialFrameExpires ==
  /\ IsReading /\ receiver.buffer # {}
  /\ Listen({}, session)
  /\ UNCHANGED <<session, lineVars, controlVars, leaseRaising, eventVars, signalVars,
                 requests, dispatcherVars, responses, sender>>

\* EndpointError::Disabled; no new session begins here.
ReadFails ==
  /\ IsReading /\ ~usb
  /\ \E raising \in BOOLEAN :
       /\ SendEvent(raising)
       /\ receiver' = [receiver EXCEPT
            !.phase = IF raising THEN "Raising" ELSE "Disconnected"]
  /\ UNCHANGED <<session, lineVars, controlVars, leaseRaising, signalVars,
                 requests, dispatcherVars, responses, sender>>

ReceiverRaises ==
  /\ receiver.phase = "Raising"
  /\ SendEvent(FALSE)
  /\ receiver' = [receiver EXCEPT !.phase = "Disconnected"]
  /\ UNCHANGED <<session, lineVars, controlVars, leaseRaising, signalVars,
                 requests, dispatcherVars, responses, sender>>

-----------------------------------------------------------------------------
(* dispatcher_task: safety events first, results before requests.          *)

\* Mutant: the session is cleared and not applied.
DispatchWithoutApplying ==
  /\ ~blocked /\ safetyEvents > 0
  /\ safetyEvents' = safetyEvents - 1
  /\ responseReset' = session
  /\ requests' = <<>>
  /\ responses' = <<>>
  /\ unanswered' = {}
  /\ interrupted' = FALSE
  /\ requestReset' = IF dtrAsserted THEN session ELSE requestReset
  /\ blocked' \in BOOLEAN
  /\ UNCHANGED <<session, applied, usb, dtr, dtrChanged, delayed, controlVars,
                 leaseRaising, receiver, sender>>

\* Mutant: the receiver is not told that the session is applied.
DispatchWithoutWaking ==
  /\ ~blocked /\ safetyEvents > 0
  /\ safetyEvents' = safetyEvents - 1
  /\ responseReset' = session
  /\ requests' = <<>>
  /\ responses' = <<>>
  /\ unanswered' = {}
  /\ interrupted' = FALSE
  /\ applied' = session
  /\ blocked' \in BOOLEAN
  /\ UNCHANGED <<session, requestReset, usb, dtr, dtrChanged, delayed, controlVars,
                 leaseRaising, receiver, sender>>

\* The release is awaited when a job is still in the channel.
DispatchSafetyEvent ==
  /\ ~blocked /\ safetyEvents > 0
  /\ safetyEvents' = safetyEvents - 1
  /\ responseReset' = session
  /\ requests' = <<>>
  /\ responses' = <<>>
  /\ unanswered' = {}
  /\ interrupted' = FALSE
  /\ applied' = session
  /\ requestReset' = IF dtrAsserted THEN session ELSE requestReset
  /\ blocked' \in BOOLEAN
  /\ UNCHANGED <<session, usb, dtr, dtrChanged, delayed, controlVars, leaseRaising,
                 receiver, sender>>

JobTaken ==
  /\ blocked
  /\ blocked' = FALSE
  /\ UNCHANGED <<session, lineVars, controlVars, leaseRaising, eventVars, signalVars,
                 receiver, requests, applied, unanswered, responses, sender>>

\* A result answers an active admission; a stale one answers nothing.
DispatchResult ==
  /\ ~blocked /\ safetyEvents = 0
  /\ \E request \in unanswered :
       /\ QueueResponse([session |-> applied, request |-> request])
       /\ unanswered' \in {unanswered, unanswered \ {request}}
  /\ UNCHANGED <<session, lineVars, controlVars, leaseRaising, eventVars, signalVars,
                 receiver, requests, applied, blocked, sender>>

\* A request of another session is discarded; one of this session is answered
\* at once or later, and may leave the dispatcher awaiting JOBS.send.
DispatchRequest ==
  /\ ~blocked /\ safetyEvents = 0
  /\ requests # <<>>
  /\ requests' = Tail(requests)
  /\ LET request == Head(requests)
     IN  \/ /\ request.session # session
            /\ UNCHANGED <<unanswered, responses, blocked>>
         \/ /\ request.session = session
            /\ blocked' \in BOOLEAN
            /\ \/ /\ QueueResponse([session |-> applied, request |-> request.session])
                  /\ UNCHANGED unanswered
               \/ /\ unanswered' = unanswered \cup {request.session}
                  /\ UNCHANGED responses
  /\ UNCHANGED <<session, lineVars, controlVars, leaseRaising, eventVars, signalVars,
                 receiver, applied, sender>>

-----------------------------------------------------------------------------
(* response_task.                                                          *)

IdleSender == [phase |-> "Idle", response |-> None]

SenderConnects ==
  /\ sender.phase = "Disconnected" /\ usb
  /\ sender' = IdleSender
  /\ UNCHANGED <<session, lineVars, controlVars, leaseRaising, eventVars, signalVars,
                 receiver, requests, dispatcherVars, responses>>

\* RESPONSE_RESET wins against the receive or the write it interrupts.
SenderResets ==
  /\ sender.phase \in {"Idle", "Writing"}
  /\ responseReset # None
  /\ responseReset' = None
  /\ sender' = IdleSender
  /\ UNCHANGED <<session, lineVars, controlVars, leaseRaising, eventVars, requestReset,
                 receiver, requests, dispatcherVars, responses>>

SenderTakes ==
  /\ sender.phase = "Idle" /\ responseReset = None
  /\ responses # <<>>
  /\ responses' = Tail(responses)
  /\ sender' = IF Head(responses).session = session /\ dtr
               THEN [phase |-> "Writing", response |-> Head(responses)]
               ELSE IdleSender
  /\ UNCHANGED <<session, lineVars, controlVars, leaseRaising, eventVars, signalVars,
                 receiver, requests, dispatcherVars>>

IsWriting == sender.phase = "Writing" /\ responseReset = None

\* The last packet of the response is written.
SenderWrites ==
  /\ IsWriting /\ usb
  /\ sender' = IdleSender
  /\ UNCHANGED <<session, lineVars, controlVars, leaseRaising, eventVars, signalVars,
                 receiver, requests, dispatcherVars, responses>>

WriteFails ==
  /\ IsWriting /\ ~usb
  /\ \E raising \in BOOLEAN :
       /\ SendEvent(raising)
       /\ sender' = [phase |-> IF raising THEN "Raising" ELSE "Disconnected",
                     response |-> None]
  /\ UNCHANGED <<session, lineVars, controlVars, leaseRaising, signalVars,
                 receiver, requests, dispatcherVars, responses>>

SenderRaises ==
  /\ sender.phase = "Raising"
  /\ SendEvent(FALSE)
  /\ sender' = [sender EXCEPT !.phase = "Disconnected"]
  /\ UNCHANGED <<session, lineVars, controlVars, leaseRaising, signalVars,
                 receiver, requests, dispatcherVars, responses>>

-----------------------------------------------------------------------------
Environment == HostSetsDtr \/ UsbDisabled \/ UsbReset \/ UsbEnabled \/ LeaseExpires
Control == ControlChanges \/ ControlRaises
ReceiverInput == ReadPacket \/ RejectInput \/ PartialFrameExpires
ReceiverStep == ReceiverConnects \/ ReceiverResets \/ SendMore \/ ReadFails \/ ReceiverRaises
DispatcherStep == DispatchSafetyEvent \/ JobTaken \/ DispatchResult \/ DispatchRequest
SenderStep == SenderConnects \/ SenderResets \/ SenderTakes \/ WriteFails \/ SenderRaises

Next ==
  \/ Environment
  \/ Control
  \/ LeaseRaises
  \/ ReceiverInput
  \/ ReceiverStep
  \/ DispatcherStep
  \/ SenderStep
  \/ SenderWrites

Spec == Init /\ [][Next]_vars

\* Tasks that are ready run.  Nothing is assumed of the host, the clock or the
\* transmission; that JobTaken is fair assumes that HID writes end.  Results,
\* one per admission, cannot keep the dispatcher from its requests for ever.
Fairness ==
  /\ WF_vars(Control) /\ WF_vars(LeaseRaises) /\ WF_vars(ReceiverStep)
  /\ WF_vars(DispatchSafetyEvent) /\ WF_vars(JobTaken)
  /\ WF_vars(DispatchResult) /\ WF_vars(DispatchRequest)
  /\ WF_vars(SenderStep)

FairSpec == Spec /\ Fairness

-----------------------------------------------------------------------------
(* What sessions guarantee.                                                *)

\* A request that the dispatcher would admit was read, to its last byte, in the
\* session that the dispatcher has applied: no frame is pieced together across
\* a reset, and none that waited for room in REQUESTS outlives its session.
AdmissionIsCurrent ==
  \A i \in DOMAIN requests :
    requests[i].session = session => requests[i].read = {session} /\ applied = session

\* Why AdmissionIsCurrent holds, inductively: what is queued was read in the
\* session it is stamped with; what the receiver has in hand, in the session it
\* captured; and a receiver that may take a packet captured the current one.
QueueIsOfItsSession ==
  \A i \in DOMAIN requests :
    /\ requests[i].session <= session
    /\ requests[i].read = {requests[i].session}
    /\ requests[i].session = session => applied = session

ReceiverIsOfItsSession ==
  receiver.phase \in {"Reading", "Sending"} =>
    /\ receiver.runtime <= session
    /\ receiver.runtime = session => applied = session
    /\ receiver.buffered = receiver.runtime
    /\ receiver.buffer \subseteq {receiver.runtime}
    /\ receiver.phase = "Sending" => receiver.bytes = {receiver.runtime}
    /\ IsReading => receiver.runtime = session

SessionInv ==
  /\ session \in Session
  /\ requests \in Seq(Request) /\ Len(requests) <= RequestCapacity
  /\ receiver \in Receiver
  /\ QueueIsOfItsSession
  /\ ReceiverIsOfItsSession

\* A response on its way to the host answers a request of the session that the
\* host is in: from the moment a session ends, none of its answers is written.
ResponseIsCurrent ==
  IsWriting => sender.response.session = session /\ sender.response.request = session

\* An admission is forgotten unanswered only when its session has ended or the
\* bus has been reset under it: late
\* events of one cause (USB handler, receiver, response task; DTR and lease) do
\* not clear the session that a reconnected host has already begun to use.
\* Not guaranteed once a task had to wait for room in SAFETY_EVENTS.
AdmissionsEndWithSession ==
  [][DispatchSafetyEvent /\ unanswered # {} /\ ~delayed
       => session # applied \/ interrupted]_vars

\* A session that has begun is going to be applied: an event is queued or
\* awaits room, even when the USB handler's own event was lost.
LaggingSessionHasEvent ==
  applied # session => safetyEvents > 0 \/ control.raising \/ leaseRaising

\* Queues and stamps keep to their bounds, and no session stays unannounced.
AnnouncedInv == TypeOK /\ LaggingSessionHasEvent

\* ... and it is applied: the runtime does not stay gated by a session that
\* nobody clears.
SessionIsApplied == applied # session ~> applied = session

\* While DTR is up, the receiver comes to listen: no wake-up of the gate is lost
\* between the control task, the dispatcher and the receiver.
ReceiverListens == usb /\ dtr ~> ~usb \/ ~dtr \/ receiver.phase = "Reading"
=============================================================================
