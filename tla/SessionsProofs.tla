--------------------------- MODULE SessionsProofs ---------------------------
(***************************************************************************)
(* What Sessions guarantees for every capacity of its queues and every     *)
(* number of sessions, by induction on SessionInv, EventInv, AnswerInv and *)
(* EventsAreDue, and what FrameStream guarantees for every packet size and *)
(* every noise, by induction on StreamOnTrack.                             *)
(***************************************************************************)
EXTENDS Sessions, FrameStream, SequenceTheorems, WellFoundedInduction, TLAPS

\* The events of a lagging session, with what bounds their number.
EventInv ==
  /\ safetyEvents \in 0 .. SafetyCapacity
  /\ LaggingSessionHasEvent

\* No session number is None.
LEMMA NoneIsNoSession == None \notin Nat /\ \A s \in Nat : s # None
BY SessionAssumption DEF SessionAssumption

-----------------------------------------------------------------------------
(* The receiver.                                                           *)

\* The receiver comes back to the top of its loop with, at most, bytes of the
\* session in hand.
LEMMA ListenEffect ==
  ASSUME session \in Session,
         NEW kept \in SUBSET Session, NEW buffered \in Session,
         buffered = session => kept \subseteq {session},
         Listen(kept, buffered),
         UNCHANGED <<session, applied>>
  PROVE  receiver' \in Receiver /\ ReceiverIsOfItsSession'
<1>1. 0 \in 0 .. PacketFrames
  BY SessionAssumption DEF SessionAssumption
<1>2. receiver' \in Receiver
  BY <1>1 DEF Listen, Receiver, Session
<1>3. ReceiverIsOfItsSession'
  BY DEF Listen, ReceiverIsOfItsSession, Session
<1> QED BY <1>2, <1>3

\* Frames of the packet in hand are queued with its session.
LEMMA SendFramesEffect ==
  ASSUME SessionInv,
         NEW n \in 0 .. PacketFrames,
         NEW kept \in SUBSET Session, kept \subseteq {receiver.runtime},
         NEW bytes, bytes = {receiver.runtime},
         receiver.runtime <= session,
         receiver.runtime = session => applied = session,
         receiver.buffered = receiver.runtime,
         SendFrames(n, bytes, kept),
         UNCHANGED <<session, applied>>
  PROVE  /\ requests' \in Seq(Request) /\ Len(requests') <= RequestCapacity
         /\ QueueIsOfItsSession'
         /\ receiver' \in Receiver
         /\ ReceiverIsOfItsSession'
<1> DEFINE stamp == receiver.runtime
           room == RequestCapacity - Len(requests)
           sent == IF n <= room THEN n ELSE room
           frame(i) == [session |-> stamp, read |-> IF i = 1 THEN bytes ELSE {stamp}]
           new == [i \in 1 .. sent |-> frame(i)]
<1>1. /\ session \in Nat /\ stamp \in Nat /\ receiver.buffered \in Nat
      /\ requests \in Seq(Request) /\ Len(requests) <= RequestCapacity
      /\ receiver \in Receiver
      /\ PacketFrames \in Nat /\ RequestCapacity \in Nat /\ Len(requests) \in Nat
  BY SessionAssumption, LenProperties
  DEF SessionInv, SessionAssumption, Receiver, Session
<1>2. sent \in 0 .. n /\ sent <= room /\ n - sent \in 0 .. PacketFrames
  BY <1>1
<1>3. \A i \in 1 .. sent : frame(i) = [session |-> stamp, read |-> {stamp}]
  OBVIOUS
<1>4. [session |-> stamp, read |-> {stamp}] \in Request
  BY <1>1 DEF Request, Session
<1>5. new \in Seq(Request) /\ Len(new) = sent
  <2>1. new = [i \in 1 .. sent |-> [session |-> stamp, read |-> {stamp}]]
    BY <1>3
  <2>2. new \in [1 .. sent -> Request]
    BY <1>4, <2>1
  <2>3. sent \in Nat
    BY <1>2
  <2> HIDE DEF new, sent
  <2> QED BY <2>2, <2>3
<1>6. requests' = requests \o new
  BY DEF SendFrames
<1>7. requests' \in Seq(Request) /\ Len(requests') <= RequestCapacity
  BY <1>1, <1>2, <1>5, <1>6, ConcatProperties
<1>8. QueueIsOfItsSession'
  <2> SUFFICES ASSUME NEW i \in DOMAIN requests'
               PROVE  /\ requests'[i].session <= session
                      /\ requests'[i].read = {requests'[i].session}
                      /\ requests'[i].session = session => applied = session
    BY DEF QueueIsOfItsSession
  <2>1. CASE i \in DOMAIN requests
    <3>1. requests'[i] = requests[i]
      BY <1>1, <1>5, <1>6, <2>1, ConcatProperties, LenProperties
    <3> QED BY <2>1, <3>1 DEF SessionInv, QueueIsOfItsSession
  <2>2. CASE i \notin DOMAIN requests
    <3> HIDE DEF new
    <3>1. Len(requests') = Len(requests) + sent
      BY <1>1, <1>5, <1>6, ConcatProperties
    <3>2. /\ DOMAIN requests' = 1 .. Len(requests')
          /\ DOMAIN requests = 1 .. Len(requests)
      BY <1>1, <1>7, LenProperties
    <3>3. sent \in Nat
      BY <1>2
    <3>4. i - Len(requests) \in 1 .. sent /\ i \in 1 .. Len(requests) + Len(new)
      <4> HIDE DEF sent
      <4> QED BY <1>1, <1>5, <2>2, <3>1, <3>2, <3>3
    <3>5. requests'[i] = new[i - Len(requests)]
      BY <1>1, <1>5, <1>6, <3>4, ConcatProperties
    <3>6. requests'[i] = [session |-> stamp, read |-> {stamp}]
      BY <1>3, <3>4, <3>5 DEF new
    <3> QED BY <3>6
  <2> QED BY <2>1, <2>2
<1>9. CASE sent < n
  <2>1. receiver' = [receiver EXCEPT
          !.phase = "Sending", !.left = n - sent, !.buffer = kept,
          !.bytes = IF sent = 0 THEN bytes ELSE {stamp}]
    BY <1>1, <1>2, <1>9 DEF SendFrames
  <2>2. receiver' \in Receiver
    BY <1>1, <1>2, <2>1 DEF Receiver, Session
  <2>3. ReceiverIsOfItsSession'
    BY <1>1, <2>1 DEF Receiver, ReceiverIsOfItsSession, IsReading
  <2> QED BY <1>7, <1>8, <2>2, <2>3
<1>10. CASE sent = n
  <2>1. CASE session = stamp /\ dtr
    <3>1. Listen(kept, receiver.buffered)
      BY <1>1, <1>2, <1>10, <2>1 DEF SendFrames
    <3> QED BY <1>1, <1>7, <1>8, <2>1, <3>1, ListenEffect DEF Session
  <2>2. CASE ~(session = stamp /\ dtr)
    <3>1. Listen({}, session)
      BY <1>1, <1>2, <1>10, <2>2 DEF SendFrames
    <3> QED BY <1>1, <1>7, <1>8, <3>1, ListenEffect DEF Session
  <2> QED BY <2>1, <2>2
<1> QED BY <1>2, <1>9, <1>10

-----------------------------------------------------------------------------
(* SessionInv is inductive.                                                *)

\* The session invariant holds at start-up.
LEMMA InitSession == Init => SessionInv
<1> SUFFICES ASSUME Init PROVE SessionInv
  OBVIOUS
<1>1. 0 \in 0 .. PacketFrames /\ RequestCapacity \in Nat
  BY SessionAssumption DEF SessionAssumption
<1>2. receiver \in Receiver
  BY <1>1 DEF Init, Receiver, Session
<1>3. requests \in Seq(Request) /\ Len(requests) <= RequestCapacity
  BY <1>1, EmptySeq DEF Init
<1> QED BY <1>2, <1>3 DEF Init, SessionInv, Session, QueueIsOfItsSession,
                           ReceiverIsOfItsSession

\* A new session leaves every stamp behind and tells the receiver to reset.
LEMMA ResetKeepsSession ==
  ASSUME SessionInv, BeginSessionReset, UNCHANGED <<receiver, requests>>
  PROVE  SessionInv'
<1>1. /\ session \in Nat /\ session' = session + 1 /\ session' \in Nat
      /\ requestReset' # None
  BY NoneIsNoSession DEF SessionInv, Session, BeginSessionReset
<1>2. receiver.runtime \in Nat
  BY DEF SessionInv, Receiver, Session
<1>3. \A i \in DOMAIN requests : requests[i].session \in Nat
  <2>1. requests \in [1 .. Len(requests) -> Request]
    BY LenProperties DEF SessionInv
  <2> QED BY <2>1 DEF Request, Session
<1>4. QueueIsOfItsSession'
  BY <1>1, <1>3 DEF SessionInv, QueueIsOfItsSession
<1>5. ReceiverIsOfItsSession'
  BY <1>1, <1>2 DEF SessionInv, ReceiverIsOfItsSession, IsReading
<1> QED BY <1>1, <1>4, <1>5 DEF SessionInv, Session

\* Steps of the other tasks, which take nothing from REQUEST_RESET.
LEMMA OthersKeepSession ==
  ASSUME SessionInv, UNCHANGED <<session, receiver, requests, applied>>,
         requestReset' = None => requestReset = None
  PROVE  SessionInv'
BY DEF SessionInv, QueueIsOfItsSession, ReceiverIsOfItsSession, IsReading

\* Steps of the receiver that leave the queue alone.
LEMMA ReceiverKeepsSession ==
  ASSUME SessionInv, UNCHANGED <<session, requests, applied>>,
         receiver' \in Receiver, ReceiverIsOfItsSession'
  PROVE  SessionInv'
BY DEF SessionInv, QueueIsOfItsSession

\* A byte, a frame or a line change at the receiver keeps it.
LEMMA ReceiverInputKeepsSession ==
  ASSUME SessionInv, ReceiverInput PROVE SessionInv'
<1>1. /\ session \in Session /\ receiver \in Receiver /\ receiver.buffer \in SUBSET Session
      /\ receiver.runtime \in Nat /\ session \in Nat
      /\ {} \in SUBSET Session /\ {session} \in SUBSET Session
  BY DEF SessionInv, Receiver, Session
<1>2. CASE ReadPacket
  <2> USE DEF ReadPacket
  <2>1. UNCHANGED <<session, applied>>
    BY <1>2 DEF dispatcherVars
  <2>2. CASE ~dtr
    BY <1>1, <1>2, <2>1, <2>2, ListenEffect, ReceiverKeepsSession
  <2>3. CASE dtr
    <3>1. PICK n \in 0 .. PacketFrames, partial \in BOOLEAN :
            SendFrames(n, receiver.buffer \cup {session},
                       IF n = 0 THEN receiver.buffer \cup {session}
                       ELSE IF partial THEN {session} ELSE {})
      BY <1>2, <2>3
    <3>2. /\ receiver.runtime = session /\ receiver.buffered = session
          /\ applied = session
          /\ receiver.buffer \cup {session} = {session}
      BY <1>1, <1>2 DEF SessionInv, ReceiverIsOfItsSession, IsReading
    <3>3. /\ requests' \in Seq(Request) /\ Len(requests') <= RequestCapacity
          /\ QueueIsOfItsSession' /\ receiver' \in Receiver /\ ReceiverIsOfItsSession'
      <4> DEFINE kept == IF n = 0 THEN receiver.buffer \cup {session}
                           ELSE IF partial THEN {session} ELSE {}
                 bytes == receiver.buffer \cup {session}
      <4>1. kept \in SUBSET Session /\ kept \subseteq {receiver.runtime}
        BY <1>1, <3>2
      <4>2. bytes = {receiver.runtime}
        BY <3>2
      <4>3. SendFrames(n, bytes, kept)
        BY <3>1
      <4> HIDE DEF kept, bytes
      <4> QED BY <1>1, <2>1, <3>2, <4>1, <4>2, <4>3, SendFramesEffect
    <3> QED BY <1>1, <2>1, <3>3 DEF SessionInv
  <2> QED BY <2>2, <2>3
<1>3. CASE RejectInput
  BY <1>1, <1>3, ListenEffect, ReceiverKeepsSession DEF RejectInput, dispatcherVars
<1>4. CASE PartialFrameExpires
  BY <1>1, <1>4, ListenEffect, ReceiverKeepsSession DEF PartialFrameExpires, dispatcherVars
<1> QED BY <1>2, <1>3, <1>4 DEF ReceiverInput

\* So does what the receiver does on its own.
LEMMA ReceiverStepKeepsSession ==
  ASSUME SessionInv, ReceiverStep PROVE SessionInv'
<1>1. /\ session \in Session /\ receiver \in Receiver /\ {} \in SUBSET Session
  BY DEF SessionInv
<1>2. CASE ReceiverConnects
  BY <1>1, <1>2, ListenEffect, ReceiverKeepsSession DEF ReceiverConnects, dispatcherVars
<1>3. CASE ReceiverResets
  BY <1>1, <1>3, ListenEffect, ReceiverKeepsSession DEF ReceiverResets, dispatcherVars
<1>4. CASE SendMore
  <2>1. /\ SendFrames(receiver.left, receiver.bytes, receiver.buffer)
        /\ UNCHANGED <<session, applied>>
    BY <1>4 DEF SendMore, dispatcherVars
  <2>2. /\ receiver.left \in 0 .. PacketFrames
        /\ receiver.buffer \in SUBSET Session
        /\ receiver.bytes = {receiver.runtime}
        /\ receiver.buffer \subseteq {receiver.runtime}
        /\ receiver.runtime <= session
        /\ receiver.runtime = session => applied = session
        /\ receiver.buffered = receiver.runtime
    BY <1>1, <1>4 DEF SendMore, SessionInv, ReceiverIsOfItsSession, Receiver
  <2>3. /\ requests' \in Seq(Request) /\ Len(requests') <= RequestCapacity
        /\ QueueIsOfItsSession' /\ receiver' \in Receiver /\ ReceiverIsOfItsSession'
    BY <2>1, <2>2, SendFramesEffect
  <2> QED BY <1>1, <2>1, <2>3 DEF SessionInv
<1>5. CASE ReadFails
  <2>1. PICK raising \in BOOLEAN : receiver' = [receiver EXCEPT
          !.phase = IF raising THEN "Raising" ELSE "Disconnected"]
    BY <1>5 DEF ReadFails
  <2>2. receiver' \in Receiver /\ ReceiverIsOfItsSession'
    BY <1>1, <2>1 DEF Receiver, ReceiverIsOfItsSession
  <2> QED BY <1>5, <2>2, ReceiverKeepsSession DEF ReadFails, dispatcherVars
<1>6. CASE ReceiverRaises
  <2>1. receiver' \in Receiver /\ ReceiverIsOfItsSession'
    BY <1>1, <1>6 DEF ReceiverRaises, Receiver, ReceiverIsOfItsSession
  <2> QED BY <1>6, <2>1, ReceiverKeepsSession DEF ReceiverRaises, dispatcherVars
<1> QED BY <1>2, <1>3, <1>4, <1>5, <1>6 DEF ReceiverStep

\* So does the dispatcher.
LEMMA DispatcherKeepsSession ==
  ASSUME SessionInv, DispatcherStep PROVE SessionInv'
<1>1. /\ session \in Nat
      /\ RequestCapacity \in Nat
      /\ requests \in Seq(Request) /\ Len(requests) <= RequestCapacity
  BY SessionAssumption DEF SessionInv, Session, SessionAssumption
<1>2. CASE DispatchSafetyEvent
  <2>1. /\ requests' = <<>> /\ applied' = session
        /\ UNCHANGED <<session, receiver>>
        /\ requestReset' = None => requestReset = None
    BY <1>1, <1>2, NoneIsNoSession DEF DispatchSafetyEvent
  <2>2. requests' \in Seq(Request) /\ Len(requests') <= RequestCapacity
    BY <1>1, <2>1, EmptySeq
  <2>3. QueueIsOfItsSession'
    BY <2>1 DEF QueueIsOfItsSession
  <2>4. ReceiverIsOfItsSession'
    BY <2>1 DEF SessionInv, ReceiverIsOfItsSession, IsReading
  <2> QED BY <2>1, <2>2, <2>3, <2>4 DEF SessionInv
<1>3. CASE JobTaken
  BY <1>3, OthersKeepSession DEF JobTaken, signalVars
<1>4. CASE DispatchResult
  BY <1>4, OthersKeepSession DEF DispatchResult, signalVars
<1>5. CASE DispatchRequest
  <2>1. /\ requests # <<>> /\ requests' = Tail(requests)
        /\ UNCHANGED <<session, receiver, applied, requestReset>>
    BY <1>5 DEF DispatchRequest, signalVars
  <2>2. /\ requests' \in Seq(Request) /\ Len(requests') = Len(requests) - 1
        /\ \A i \in 1 .. Len(requests') : requests'[i] = requests[i + 1]
        /\ \A i \in DOMAIN requests' : i + 1 \in DOMAIN requests
    BY <1>1, <2>1, HeadTailProperties, LenProperties
  <2>3. QueueIsOfItsSession'
    BY <1>1, <2>1, <2>2, LenProperties DEF SessionInv, QueueIsOfItsSession
  <2>4. ReceiverIsOfItsSession'
    BY <2>1 DEF SessionInv, ReceiverIsOfItsSession, IsReading
  <2> QED BY <1>1, <2>1, <2>2, <2>3, <2>4, LenProperties DEF SessionInv
<1> QED BY <1>2, <1>3, <1>4, <1>5 DEF DispatcherStep

\* So does every step.
LEMMA NextKeepsSession ==
  ASSUME SessionInv, [Next]_vars PROVE SessionInv'
<1>1. CASE HostSetsDtr \/ UsbReset \/ UsbEnabled \/ ControlRaises \/ LeaseRaises
  BY <1>1, OthersKeepSession
  DEF HostSetsDtr, UsbReset, UsbEnabled, ControlRaises, LeaseRaises, signalVars, dispatcherVars
<1>2. CASE UsbDisabled
  BY <1>2, ResetKeepsSession DEF UsbDisabled
<1>3. CASE LeaseExpires
  BY <1>3, ResetKeepsSession DEF LeaseExpires
<1>4. CASE ControlChanges
  <2>1. CASE control.previous /\ ~dtr
    BY <1>4, <2>1, ResetKeepsSession DEF ControlChanges
  <2>2. CASE ~(control.previous /\ ~dtr)
    <3>1. session # None
      BY NoneIsNoSession DEF SessionInv, Session
    <3> QED BY <1>4, <2>2, <3>1, OthersKeepSession DEF ControlChanges, dispatcherVars
  <2> QED BY <2>1, <2>2
<1>5. CASE ReceiverInput
  BY <1>5, ReceiverInputKeepsSession
<1>6. CASE ReceiverStep
  BY <1>6, ReceiverStepKeepsSession
<1>7. CASE DispatcherStep
  BY <1>7, DispatcherKeepsSession
<1>8. CASE SenderStep \/ SenderWrites
  BY <1>8, OthersKeepSession
  DEF SenderStep, SenderConnects, SenderResets, SenderTakes, SenderWrites, WriteFails,
      SenderRaises, signalVars, dispatcherVars
<1>9. CASE UNCHANGED vars
  BY <1>9, OthersKeepSession DEF vars, signalVars, dispatcherVars
<1> QED
  BY <1>1, <1>2, <1>3, <1>4, <1>5, <1>6, <1>7, <1>8, <1>9
  DEF Next, Environment, Control

\* The induction behind AdmissionIsCurrent: queued requests and the receiver's
\* frames belong to the sessions they are stamped with.
THEOREM SessionsAreKept == Spec => []SessionInv
<1>1. SessionInv /\ [Next]_vars => SessionInv'
  BY NextKeepsSession
<1> QED BY InitSession, <1>1, PTL DEF Spec

\* No frame is pieced together across a session reset and none outlives it in
\* REQUESTS: what cdc_receive_task and dispatcher_task check before admission
\* suffices, whatever the capacities and however the tasks interleave.
THEOREM OnlyCurrentAdmissions == Spec => []AdmissionIsCurrent
<1>1. SessionInv => AdmissionIsCurrent
  BY DEF SessionInv, QueueIsOfItsSession, AdmissionIsCurrent
<1> QED BY SessionsAreKept, <1>1, PTL

-----------------------------------------------------------------------------
(* Safety events.                                                          *)

\* The invariant of the safety events holds at start-up ...
LEMMA InitEvent == Init => EventInv
BY SessionAssumption
DEF SessionAssumption, Init, EventInv, LaggingSessionHasEvent

\* ... and every step keeps it.
LEMMA NextKeepsEvent ==
  ASSUME EventInv, [Next]_vars PROVE EventInv'
<1>1. SafetyCapacity \in Nat \ {0} /\ safetyEvents \in 0 .. SafetyCapacity
  BY SessionAssumption DEF SessionAssumption, EventInv
<1> USE DEF EventInv, LaggingSessionHasEvent, HasRoomForEvent, eventVars
<1>2. CASE HostSetsDtr \/ UsbReset \/ UsbEnabled
  BY <1>2 DEF HostSetsDtr, UsbReset, UsbEnabled, controlVars, dispatcherVars
<1>3. CASE UsbDisabled
  BY <1>1, <1>3 DEF UsbDisabled, controlVars
<1>4. CASE ControlRaises \/ LeaseRaises
  BY <1>1, <1>4 DEF ControlRaises, LeaseRaises, SendEvent
<1>5. CASE LeaseExpires
  BY <1>1, <1>5 DEF LeaseExpires, SendEvent
<1>6. CASE ControlChanges
  BY <1>1, <1>6 DEF ControlChanges, SendEvent, dispatcherVars
<1>7. CASE ReceiverInput
  BY <1>7 DEF ReceiverInput, ReadPacket, RejectInput, PartialFrameExpires,
              controlVars, dispatcherVars
<1>8. CASE ReceiverConnects \/ ReceiverResets \/ SendMore
  BY <1>8 DEF ReceiverConnects, ReceiverResets, SendMore, controlVars, dispatcherVars
<1>9. CASE ReadFails \/ ReceiverRaises
  BY <1>1, <1>9 DEF ReadFails, ReceiverRaises, SendEvent, controlVars, dispatcherVars
<1>10. CASE DispatchSafetyEvent
  BY <1>1, <1>10 DEF DispatchSafetyEvent
<1>11. CASE JobTaken \/ DispatchResult \/ DispatchRequest
  BY <1>11 DEF JobTaken, DispatchResult, DispatchRequest, controlVars
<1>12. CASE SenderConnects \/ SenderResets \/ SenderTakes \/ SenderWrites
  BY <1>12 DEF SenderConnects, SenderResets, SenderTakes, SenderWrites, controlVars,
               dispatcherVars
<1>13. CASE WriteFails \/ SenderRaises
  BY <1>1, <1>13 DEF WriteFails, SenderRaises, SendEvent, controlVars, dispatcherVars
<1>14. CASE UNCHANGED vars
  BY <1>14 DEF vars, controlVars, dispatcherVars
<1> QED
  BY <1>2, <1>3, <1>4, <1>5, <1>6, <1>7, <1>8, <1>9, <1>10, <1>11, <1>12, <1>13, <1>14
  DEF Next, Environment, Control, ReceiverStep, DispatcherStep, SenderStep

\* A session that has begun has an event on its way to the dispatcher, even
\* when the USB handler's try_send met a full SAFETY_EVENTS.
THEOREM LaggingSessionsAreAnnounced == Spec => []LaggingSessionHasEvent
<1>1. EventInv /\ [Next]_vars => EventInv'
  BY NextKeepsEvent
<1>2. EventInv => LaggingSessionHasEvent
  BY DEF EventInv
<1> QED BY InitEvent, <1>1, <1>2, PTL DEF Spec

-----------------------------------------------------------------------------
(* Admissions and responses.                                               *)

\* A response was made in the session of the request that it answers.
Answers(response) ==
  response \in Response /\ response.session = response.request

\* What is admitted belongs to the applied session; what is queued or being
\* written, to the session of its request; and what is being written, unless
\* RESPONSE_RESET is about to stop it, to the session of the host.
AnswerInv ==
  /\ applied \in Session
  /\ unanswered \subseteq {applied}
  /\ responseReset \in Session \cup {None}
  /\ responses \in Seq(Response) /\ Len(responses) <= ResponseCapacity
  /\ \A i \in DOMAIN responses : Answers(responses[i])
  /\ sender \in Sender
  /\ sender.phase = "Writing" => Answers(sender.response)
  /\ IsWriting => sender.response.session = session

\* The answer invariant holds at start-up.
LEMMA InitAnswer == Init => AnswerInv
<1> SUFFICES ASSUME Init PROVE AnswerInv
  OBVIOUS
<1>1. responses \in Seq(Response) /\ Len(responses) <= ResponseCapacity
  BY SessionAssumption, EmptySeq DEF Init, SessionAssumption
<1>2. sender \in Sender
  BY DEF Init, Sender
<1> QED BY <1>1, <1>2 DEF Init, AnswerInv, Session, IsWriting

\* A response queued for the session of its request keeps the queue right.
LEMMA QueueResponseEffect ==
  ASSUME AnswerInv, NEW response, Answers(response), QueueResponse(response)
  PROVE  /\ responses' \in Seq(Response) /\ Len(responses') <= ResponseCapacity
         /\ \A i \in DOMAIN responses' : Answers(responses'[i])
<1>1. /\ ResponseCapacity \in Nat
      /\ responses \in Seq(Response) /\ Len(responses) \in Nat
      /\ Len(responses) <= ResponseCapacity
      /\ \A i \in 1 .. Len(responses) : Answers(responses[i])
      /\ response \in Response
  BY SessionAssumption, LenProperties DEF SessionAssumption, AnswerInv, Answers
<1>2. CASE Len(responses) < ResponseCapacity
  <2>1. responses' = Append(responses, response)
    BY <1>2 DEF QueueResponse
  <2>2. /\ responses' \in Seq(Response) /\ Len(responses') = Len(responses) + 1
        /\ \A i \in 1 .. Len(responses) : responses'[i] = responses[i]
        /\ responses'[Len(responses) + 1] = response
        /\ DOMAIN responses' = 1 .. Len(responses) + 1
    BY <1>1, <2>1, AppendProperties, LenProperties
  <2>3. \A i \in DOMAIN responses' : i \in 1 .. Len(responses) \/ i = Len(responses) + 1
    BY <1>1, <2>2
  <2> QED BY <1>1, <1>2, <2>2, <2>3
<1>3. CASE ~(Len(responses) < ResponseCapacity)
  BY <1>1, <1>3 DEF QueueResponse, AnswerInv
<1> QED BY <1>2, <1>3

\* Steps that neither answer nor take an answer keep it.
LEMMA OthersKeepAnswer ==
  ASSUME AnswerInv, UNCHANGED <<session, applied, unanswered, responses, responseReset, sender>>
  PROVE  AnswerInv'
BY DEF AnswerInv, Answers, IsWriting

\* A new session tells the response task to stop.
LEMMA ResetKeepsAnswer ==
  ASSUME SessionInv, AnswerInv, BeginSessionReset,
         UNCHANGED <<applied, unanswered, responses, sender>>
  PROVE  AnswerInv'
<1>1. responseReset' \in Session /\ responseReset' # None
  BY NoneIsNoSession DEF SessionInv, BeginSessionReset, Session
<1> QED BY <1>1 DEF AnswerInv, Answers, IsWriting

\* What is queued keeps the rest.
LEMMA QueueKeepsAnswer ==
  ASSUME AnswerInv, UNCHANGED <<session, applied, responseReset, sender>>,
         unanswered' \subseteq {applied},
         responses' \in Seq(Response), Len(responses') <= ResponseCapacity,
         \A i \in DOMAIN responses' : Answers(responses'[i])
  PROVE  AnswerInv'
BY DEF AnswerInv, Answers, IsWriting

\* The receiver answers NACK only in the session it reads in.
LEMMA RejectKeepsAnswer ==
  ASSUME SessionInv, AnswerInv, RejectInput PROVE AnswerInv'
<1>1. UNCHANGED <<session, applied, unanswered, responseReset, sender>>
  BY DEF RejectInput, signalVars, dispatcherVars
<1>2. CASE ~dtr
  BY <1>1, <1>2, OthersKeepAnswer DEF RejectInput
<1>3. CASE dtr
  <2> DEFINE response == [session |-> receiver.runtime, request |-> session]
  <2>1. receiver.runtime = session
    BY DEF RejectInput, SessionInv, ReceiverIsOfItsSession, IsReading
  <2>2. Answers(response)
    BY <2>1 DEF SessionInv, Answers, Response
  <2>3. QueueResponse(response)
    BY <1>3 DEF RejectInput
  <2> HIDE DEF response
  <2>4. /\ responses' \in Seq(Response) /\ Len(responses') <= ResponseCapacity
        /\ \A i \in DOMAIN responses' : Answers(responses'[i])
    BY <2>2, <2>3, QueueResponseEffect
  <2> QED BY <1>1, <2>4, QueueKeepsAnswer DEF AnswerInv
<1> QED BY <1>2, <1>3

\* The dispatcher answers what it admitted in the session that it applied.
LEMMA DispatcherKeepsAnswer ==
  ASSUME SessionInv, AnswerInv, DispatcherStep PROVE AnswerInv'
<1>1. session \in Session /\ applied \in Session /\ unanswered \subseteq {applied}
  BY DEF SessionInv, AnswerInv
<1>2. CASE DispatchSafetyEvent
  <2>1. /\ responses' = <<>> /\ unanswered' = {} /\ applied' = session
        /\ responseReset' = session /\ UNCHANGED <<session, sender>>
    BY <1>2 DEF DispatchSafetyEvent
  <2>2. responses' \in Seq(Response) /\ Len(responses') <= ResponseCapacity
    BY <2>1, SessionAssumption, EmptySeq DEF SessionAssumption
  <2>3. responseReset' # None
    BY <1>1, <2>1, NoneIsNoSession DEF Session
  <2> QED BY <1>1, <2>1, <2>2, <2>3 DEF AnswerInv, Answers, IsWriting
<1>3. CASE JobTaken
  BY <1>3, OthersKeepAnswer DEF JobTaken, signalVars
<1>4. CASE DispatchResult
  <2>1. PICK request \in unanswered :
          /\ QueueResponse([session |-> applied, request |-> request])
          /\ unanswered' \in {unanswered, unanswered \ {request}}
    BY <1>4 DEF DispatchResult
  <2> DEFINE response == [session |-> applied, request |-> request]
  <2>2. Answers(response)
    BY <1>1, <2>1 DEF Answers, Response
  <2>3. QueueResponse(response)
    BY <2>1
  <2> HIDE DEF response
  <2>4. /\ responses' \in Seq(Response) /\ Len(responses') <= ResponseCapacity
        /\ \A i \in DOMAIN responses' : Answers(responses'[i])
    BY <2>2, <2>3, QueueResponseEffect
  <2>5. unanswered' \subseteq {applied}
    BY <1>1, <2>1
  <2>6. UNCHANGED <<session, applied, responseReset, sender>>
    BY <1>4 DEF DispatchResult, signalVars
  <2> QED BY <2>4, <2>5, <2>6, QueueKeepsAnswer
<1>5. CASE DispatchRequest
  <2>1. UNCHANGED <<session, applied, responseReset, sender>>
    BY <1>5 DEF DispatchRequest, signalVars
  <2>2. CASE UNCHANGED <<unanswered, responses>>
    BY <2>1, <2>2, OthersKeepAnswer
  <2>3. CASE ~UNCHANGED <<unanswered, responses>>
    <3> DEFINE request == Head(requests)
               response == [session |-> applied, request |-> request.session]
    <3>1. /\ request.session = session
          /\ \/ QueueResponse(response) /\ UNCHANGED unanswered
             \/ unanswered' = unanswered \cup {request.session} /\ UNCHANGED responses
      BY <1>5, <2>3 DEF DispatchRequest
    <3>2. 1 \in DOMAIN requests /\ request = requests[1]
      BY <1>5, HeadTailProperties, LenProperties, EmptySeq DEF DispatchRequest, SessionInv
    <3>3. applied = session
      BY <3>1, <3>2 DEF SessionInv, QueueIsOfItsSession
    <3>4. Answers(response)
      BY <1>1, <3>1, <3>3 DEF Answers, Response
    <3>5. CASE QueueResponse(response) /\ UNCHANGED unanswered
      <4> HIDE DEF response
      <4>1. /\ responses' \in Seq(Response) /\ Len(responses') <= ResponseCapacity
            /\ \A i \in DOMAIN responses' : Answers(responses'[i])
        BY <3>4, <3>5, QueueResponseEffect
      <4> QED BY <1>1, <2>1, <3>5, <4>1, QueueKeepsAnswer
    <3>6. CASE unanswered' = unanswered \cup {request.session} /\ UNCHANGED responses
      <4>1. unanswered' \subseteq {applied}
        BY <1>1, <3>1, <3>3, <3>6
      <4> HIDE DEF request
      <4> QED BY <2>1, <3>6, <4>1 DEF AnswerInv, IsWriting
    <3> QED BY <3>1, <3>5, <3>6
  <2> QED BY <2>2, <2>3
<1> QED BY <1>2, <1>3, <1>4, <1>5 DEF DispatcherStep

\* The response task begins a write only for the session of the host.
LEMMA SenderKeepsAnswer ==
  ASSUME AnswerInv, SenderStep \/ SenderWrites PROVE AnswerInv'
<1>1. CASE SenderTakes
  <2>1. /\ responses # <<>> /\ responses' = Tail(responses)
        /\ UNCHANGED <<session, applied, unanswered, responseReset>>
        /\ sender' = IF Head(responses).session = session /\ dtr
                     THEN [phase |-> "Writing", response |-> Head(responses)]
                     ELSE IdleSender
    BY <1>1 DEF SenderTakes, signalVars, dispatcherVars
  <2>2. responses \in Seq(Response) /\ Len(responses) <= ResponseCapacity
    BY DEF AnswerInv
  <2>3. /\ responses' \in Seq(Response) /\ Len(responses') = Len(responses) - 1
        /\ \A i \in 1 .. Len(responses') : responses'[i] = responses[i + 1]
        /\ \A i \in DOMAIN responses' : i + 1 \in DOMAIN responses
        /\ 1 \in DOMAIN responses /\ Head(responses) = responses[1]
    BY <2>1, <2>2, HeadTailProperties, LenProperties
  <2>4. Answers(Head(responses))
    BY <2>3 DEF AnswerInv
  <2>5. \A i \in DOMAIN responses' : Answers(responses'[i])
    BY <2>3, LenProperties DEF AnswerInv
  <2>6. Len(responses') <= ResponseCapacity
    <3>1. Len(responses) \in Nat /\ ResponseCapacity \in Nat
      BY <2>2, LenProperties, SessionAssumption DEF SessionAssumption
    <3> QED BY <2>2, <2>3, <3>1
  <2>7. /\ sender' \in Sender
        /\ sender'.phase = "Writing" => Answers(sender'.response)
        /\ IsWriting' => sender'.response.session = session
    BY <2>1, <2>4 DEF IdleSender, IsWriting, Sender, Answers
  <2> QED BY <2>1, <2>3, <2>5, <2>6, <2>7 DEF AnswerInv, Answers
<1>2. CASE SenderRaises
  <2>1. /\ sender' = [sender EXCEPT !.phase = "Disconnected"]
        /\ UNCHANGED <<session, applied, unanswered, responses, responseReset>>
    BY <1>2 DEF SenderRaises, signalVars, dispatcherVars
  <2>2. sender' \in Sender /\ sender'.phase = "Disconnected"
    BY <2>1 DEF AnswerInv, Sender
  <2> QED BY <2>1, <2>2 DEF AnswerInv, Answers, IsWriting
<1>3. CASE SenderConnects \/ SenderResets \/ SenderWrites \/ WriteFails
  <2>1. /\ sender' \in Sender /\ sender'.phase # "Writing"
        /\ UNCHANGED <<session, applied, unanswered, responses>>
        /\ responseReset' \in {responseReset, None}
    BY <1>3 DEF SenderConnects, SenderResets, SenderWrites, WriteFails, IdleSender,
                Sender, signalVars, dispatcherVars
  <2> QED BY <2>1 DEF AnswerInv, Answers, IsWriting
<1> QED BY <1>1, <1>2, <1>3 DEF SenderStep

\* So does every step.
LEMMA NextKeepsAnswer ==
  ASSUME SessionInv, AnswerInv, [Next]_vars PROVE AnswerInv'
<1>1. CASE HostSetsDtr \/ UsbReset \/ UsbEnabled \/ ControlRaises \/ LeaseRaises
  BY <1>1, OthersKeepAnswer
  DEF HostSetsDtr, UsbReset, UsbEnabled, ControlRaises, LeaseRaises, signalVars, dispatcherVars
<1>2. CASE UsbDisabled \/ LeaseExpires
  BY <1>2, ResetKeepsAnswer DEF UsbDisabled, LeaseExpires, dispatcherVars
<1>3. CASE ControlChanges
  <2>1. CASE control.previous /\ ~dtr
    BY <1>3, <2>1, ResetKeepsAnswer DEF ControlChanges, dispatcherVars
  <2>2. CASE ~(control.previous /\ ~dtr)
    BY <1>3, <2>2, OthersKeepAnswer DEF ControlChanges, dispatcherVars
  <2> QED BY <2>1, <2>2
<1>4. CASE RejectInput
  BY <1>4, RejectKeepsAnswer
<1>5. CASE ReadPacket \/ PartialFrameExpires \/ ReceiverStep
  BY <1>5, OthersKeepAnswer
  DEF ReadPacket, PartialFrameExpires, ReceiverStep, ReceiverConnects, ReceiverResets,
      SendMore, ReadFails, ReceiverRaises, signalVars, dispatcherVars
<1>6. CASE DispatcherStep
  BY <1>6, DispatcherKeepsAnswer
<1>7. CASE SenderStep \/ SenderWrites
  BY <1>7, SenderKeepsAnswer
<1>8. CASE UNCHANGED vars
  BY <1>8, OthersKeepAnswer DEF vars, signalVars, dispatcherVars
<1> QED
  BY <1>1, <1>2, <1>3, <1>4, <1>5, <1>6, <1>7, <1>8
  DEF Next, Environment, Control, ReceiverInput

\* Every admission, queued response and write belongs to the session of its
\* request.
THEOREM AnswersAreKept == Spec => []AnswerInv
<1>1. SessionInv /\ AnswerInv /\ [Next]_vars => AnswerInv'
  BY NextKeepsAnswer
<1> QED BY InitAnswer, SessionsAreKept, <1>1, PTL DEF Spec

\* From the moment a session ends, none of its answers is written to the host:
\* the stamp that response_task looks at and RESPONSE_RESET together suffice,
\* whatever the capacities and however the tasks interleave.
THEOREM OnlyCurrentResponses == Spec => []ResponseIsCurrent
<1>1. AnswerInv => ResponseIsCurrent
  BY DEF AnswerInv, Answers, IsWriting, ResponseIsCurrent
<1> QED BY AnswersAreKept, <1>1, PTL

-----------------------------------------------------------------------------
(* Types.                                                                  *)

\* The types that the invariants above leave open.
LineTypes ==
  /\ {usb, interrupted, dtr, dtrChanged, dtrAsserted, leaseRaising, delayed, blocked}
       \subseteq BOOLEAN
  /\ control \in [previous: BOOLEAN, raising: BOOLEAN]
  /\ requestReset \in Session \cup {None}

\* The line types hold at start-up.
LEMMA InitTypes == Init => LineTypes
<1> SUFFICES ASSUME Init PROVE LineTypes
  OBVIOUS
<1>1. control \in [previous: BOOLEAN, raising: BOOLEAN]
  BY DEF Init
<1>2. {usb, interrupted, dtr, dtrChanged, dtrAsserted, leaseRaising, delayed, blocked}
        \subseteq BOOLEAN
  BY DEF Init
<1>3. requestReset \in Session \cup {None}
  BY DEF Init
<1> QED BY <1>1, <1>2, <1>3 DEF LineTypes

\* Waiting for room in SAFETY_EVENTS keeps the flags Boolean.
LEMMA SendEventTypes ==
  ASSUME delayed \in BOOLEAN, NEW raising, SendEvent(raising)
  PROVE  raising \in BOOLEAN /\ delayed' \in BOOLEAN
<1>1. raising \in BOOLEAN
  BY DEF SendEvent
<1>2. (delayed \/ raising) \in BOOLEAN
  OBVIOUS
<1> QED BY <1>1, <1>2 DEF SendEvent

\* Every step keeps the line types.
LEMMA NextKeepsTypes ==
  ASSUME SessionInv, LineTypes, [Next]_vars PROVE LineTypes'
<1>1. /\ session \in Session /\ session + 1 \in Session
      /\ delayed \in BOOLEAN
  BY DEF SessionInv, Session, LineTypes
<1> USE DEF lineVars, controlVars, eventVars, signalVars, dispatcherVars
<1>2. CASE HostSetsDtr \/ UsbReset \/ UsbEnabled
  BY <1>2 DEF LineTypes, HostSetsDtr, UsbReset, UsbEnabled
<1>3. CASE UsbDisabled
  BY <1>1, <1>3 DEF LineTypes, UsbDisabled, BeginSessionReset
<1>4. CASE LeaseExpires
  <2>1. leaseRaising' \in BOOLEAN /\ delayed' \in BOOLEAN
    <3>1. SendEvent(leaseRaising')
      BY <1>4 DEF LeaseExpires
    <3> QED BY <1>1, <3>1, SendEventTypes
  <2> QED BY <1>1, <1>4, <2>1 DEF LineTypes, LeaseExpires, BeginSessionReset
<1>5. CASE ControlRaises
  <2>1. SendEvent(FALSE)
    BY <1>5 DEF ControlRaises
  <2>2. delayed' \in BOOLEAN
    BY <1>1, <2>1, SendEventTypes
  <2> QED BY <1>5, <2>2 DEF LineTypes, ControlRaises
<1>6. CASE LeaseRaises
  <2>1. SendEvent(FALSE)
    BY <1>6 DEF LeaseRaises
  <2>2. delayed' \in BOOLEAN
    BY <1>1, <2>1, SendEventTypes
  <2> QED BY <1>6, <2>2 DEF LineTypes, LeaseRaises
<1>7. CASE ControlChanges
  <2>1. CASE control.previous /\ ~dtr
    <3>1. PICK raising \in BOOLEAN :
            /\ SendEvent(raising)
            /\ control' = [previous |-> dtr, raising |-> raising]
      BY <1>7, <2>1 DEF ControlChanges
    <3>2. delayed' \in BOOLEAN
      BY <1>1, <3>1, SendEventTypes
    <3>3. requestReset' = session + 1
      BY <1>7, <2>1 DEF ControlChanges, BeginSessionReset
    <3> QED BY <1>1, <1>7, <3>1, <3>2, <3>3 DEF LineTypes, ControlChanges
  <2>2. CASE ~(control.previous /\ ~dtr)
    BY <1>1, <1>7, <2>2 DEF LineTypes, ControlChanges
  <2> QED BY <2>1, <2>2
<1>8. CASE ReceiverInput
  BY <1>8 DEF LineTypes, ReceiverInput, ReadPacket, RejectInput, PartialFrameExpires
<1>9. CASE ReceiverConnects \/ ReceiverResets \/ SendMore
  BY <1>9 DEF LineTypes, ReceiverConnects, ReceiverResets, SendMore
<1>10. CASE ReadFails \/ ReceiverRaises \/ WriteFails \/ SenderRaises
  <2>1. PICK raising \in BOOLEAN : SendEvent(raising)
    BY <1>10 DEF ReadFails, ReceiverRaises, WriteFails, SenderRaises
  <2>2. delayed' \in BOOLEAN
    BY <1>1, <2>1, SendEventTypes
  <2> QED BY <1>10, <2>2 DEF LineTypes, ReadFails, ReceiverRaises, WriteFails, SenderRaises
<1>11. CASE DispatcherStep
  BY <1>1, <1>11
  DEF LineTypes, DispatcherStep, DispatchSafetyEvent, JobTaken, DispatchResult, DispatchRequest
<1>12. CASE SenderConnects \/ SenderResets \/ SenderTakes \/ SenderWrites
  BY <1>12 DEF LineTypes, SenderConnects, SenderResets, SenderTakes, SenderWrites
<1>13. CASE UNCHANGED vars
  BY <1>13 DEF LineTypes, vars
<1> QED
  BY <1>2, <1>3, <1>4, <1>5, <1>6, <1>7, <1>8, <1>9, <1>10, <1>11, <1>12, <1>13
  DEF Next, Environment, Control, ReceiverStep, SenderStep

\* Every variable has its type: in particular, none of the three queues ever
\* holds more than its Embassy channel does.
THEOREM SessionTypes == Spec => []TypeOK
<1>1. SessionInv /\ LineTypes /\ [Next]_vars => LineTypes'
  BY NextKeepsTypes
<1>2. EventInv /\ [Next]_vars => EventInv'
  BY NextKeepsEvent
<1>3. SessionInv /\ EventInv /\ AnswerInv /\ LineTypes => TypeOK
  BY DEF SessionInv, EventInv, AnswerInv, LineTypes, TypeOK
<1> QED
  BY InitTypes, InitEvent, SessionsAreKept, AnswersAreKept, <1>1, <1>2, <1>3, PTL DEF Spec

\* Both: however many sessions begin while SAFETY_EVENTS is full, no queue outgrows its
\* channel and no session stays unannounced.
THEOREM SessionsAreAnnounced == Spec => []AnnouncedInv
<1>1. TypeOK /\ LaggingSessionHasEvent => AnnouncedInv
  BY DEF AnnouncedInv
<1> QED BY SessionTypes, LaggingSessionsAreAnnounced, <1>1, PTL

-----------------------------------------------------------------------------
(* Late events.                                                            *)

\* A task awaits room in SAFETY_EVENTS.
TaskRaises ==
  \/ control.raising \/ leaseRaising
  \/ receiver.phase = "Raising" \/ sender.phase = "Raising"

\* Neither a request nor an admission of the session that the host is in.
NothingIsCurrent ==
  /\ \A i \in DOMAIN requests : requests[i].session # session
  /\ session = applied => unanswered = {}

\* Why an event in the queue is never late: a task that finds the endpoints disabled
\* does so before anything of a next session is admitted, and the other events come
\* with a new session.  Without USB, DTR is still up only if the USB handler was
\* called, which began a new session; otherwise the bus was reset.
EventsAreDue ==
  /\ applied \in Nat /\ applied <= session
  /\ TaskRaises => delayed
  /\ ~usb /\ dtr /\ receiver.phase = "Sending" => receiver.runtime # session
  /\ ~usb /\ (dtr \/ (receiver.phase = "Reading" /\ ~interrupted)) => NothingIsCurrent
  /\ ~usb /\ ~dtr /\ IsWriting => interrupted
  /\ ~delayed /\ safetyEvents > 0 /\ session = applied /\ ~interrupted => unanswered = {}

\* Nothing is late at start-up.
LEMMA InitEventsAreDue == Init => EventsAreDue
<1> SUFFICES ASSUME Init PROVE EventsAreDue
  OBVIOUS
<1>1. /\ applied = 1 /\ session = 1 /\ unanswered = {} /\ dtr = FALSE
      /\ receiver.phase = "Disconnected" /\ sender.phase = "Disconnected"
      /\ control.raising = FALSE /\ leaseRaising = FALSE
  BY DEF Init
<1>2. ~TaskRaises /\ ~IsWriting
  BY <1>1 DEF TaskRaises, IsWriting
<1> QED BY <1>1, <1>2 DEF EventsAreDue

\* A new session: its event is not late, and what is under way belongs to others.
LEMMA ResetKeepsEventsDue ==
  ASSUME SessionInv, EventsAreDue, BeginSessionReset, TaskRaises' => delayed',
         UNCHANGED <<receiver, requests, applied, unanswered, sender, interrupted, dtr>>
  PROVE  EventsAreDue'
<1>1. /\ session \in Nat /\ session' = session + 1 /\ applied \in Nat /\ applied <= session
      /\ responseReset' # None
  BY NoneIsNoSession DEF SessionInv, Session, BeginSessionReset, EventsAreDue
<1>2. session' # applied' /\ applied' \in Nat /\ applied' <= session'
  BY <1>1
<1>3. receiver.phase = "Sending" => receiver.runtime # session'
  BY <1>1 DEF SessionInv, ReceiverIsOfItsSession, Receiver, Session
<1>4. \A i \in DOMAIN requests : requests[i].session # session'
  <2> SUFFICES ASSUME NEW i \in DOMAIN requests PROVE requests[i].session # session'
    OBVIOUS
  <2>1. requests[i].session <= session
    BY DEF SessionInv, QueueIsOfItsSession
  <2>2. requests[i] \in Request
    BY DEF SessionInv
  <2>3. requests[i].session \in Nat
    BY <2>2 DEF Request, Session
  <2> QED BY <1>1, <2>1, <2>3
<1>5. ~IsWriting'
  BY <1>1 DEF IsWriting
<1> QED BY <1>2, <1>3, <1>4, <1>5 DEF EventsAreDue, NothingIsCurrent

\* What the control and lease tasks do besides.
LEMMA RaisingKeepsEventsDue ==
  ASSUME EventsAreDue, TaskRaises' => delayed',
         delayed' \/ (delayed' = delayed /\ safetyEvents' = safetyEvents),
         UNCHANGED <<session, applied, usb, interrupted, dtr, requests, unanswered,
                     receiver, sender, responseReset>>
  PROVE  EventsAreDue'
<1>1. NothingIsCurrent' = NothingIsCurrent
  BY DEF NothingIsCurrent
<1>2. IsWriting' = IsWriting
  BY DEF IsWriting
<1> QED BY <1>1, <1>2 DEF EventsAreDue

\* DTR falls with the bus; it comes back only with USB, when nothing is promised.
LEMMA LineKeepsEventsDue ==
  ASSUME EventsAreDue, HostSetsDtr \/ UsbReset \/ UsbEnabled
  PROVE  EventsAreDue'
<1>1. /\ UNCHANGED <<session, applied, requests, unanswered, receiver, sender,
                     safetyEvents, delayed, responseReset>>
      /\ TaskRaises' = TaskRaises
      /\ usb' \/ (interrupted' /\ ~dtr')
      /\ interrupted' \/ interrupted' = interrupted
  BY DEF HostSetsDtr, UsbReset, UsbEnabled, TaskRaises, controlVars, eventVars, signalVars,
         dispatcherVars
<1> QED BY <1>1 DEF EventsAreDue

-----------------------------------------------------------------------------
(* The receiver.                                                           *)

\* Back at the top of its loop, the receiver reads only with DTR up.
LEMMA ListenReads ==
  ASSUME NEW kept, NEW buffered, Listen(kept, buffered)
  PROVE  receiver'.phase = "Gated" \/ (receiver'.phase = "Reading" /\ dtr)
BY DEF Listen

\* What the receiver sends carries the stamp of what it has in hand.
LEMMA SendFramesStamps ==
  ASSUME SessionInv, NEW n \in 0 .. PacketFrames, NEW bytes, NEW kept,
         SendFrames(n, bytes, kept)
  PROVE  /\ \A i \in DOMAIN requests' :
              \/ i \in DOMAIN requests /\ requests'[i] = requests[i]
              \/ requests'[i].session = receiver.runtime
         /\ \/ receiver'.phase = "Sending" /\ receiver'.runtime = receiver.runtime
            \/ receiver'.phase = "Gated"
            \/ receiver'.phase = "Reading" /\ dtr
<1> DEFINE stamp == receiver.runtime
           room == RequestCapacity - Len(requests)
           sent == IF n <= room THEN n ELSE room
           frame(i) == [session |-> stamp, read |-> IF i = 1 THEN bytes ELSE {stamp}]
           new == [i \in 1 .. sent |-> frame(i)]
           m == Len(requests)
<1>1. /\ requests \in Seq(Request) /\ m \in Nat /\ m <= RequestCapacity /\ m = Len(requests)
      /\ PacketFrames \in Nat /\ RequestCapacity \in Nat /\ DOMAIN requests = 1 .. m
      /\ receiver \in Receiver
  BY SessionAssumption, LenProperties DEF SessionInv, SessionAssumption
<1>2. sent \in Nat
  BY <1>1
<1>3. requests' = requests \o new
  BY DEF SendFrames
<1>4. /\ sent < n /\ receiver' = [receiver EXCEPT
            !.phase = "Sending", !.left = n - sent, !.buffer = kept,
            !.bytes = IF sent = 0 THEN bytes ELSE {stamp}]
      \/ Listen(kept, receiver.buffered) \/ Listen({}, session)
  BY DEF SendFrames
<1> HIDE DEF sent, m
<1>5. new \in Seq([session : {stamp}, read : {bytes, {stamp}}]) /\ Len(new) = sent
  BY <1>2
<1>6. \A i \in 1 .. sent : new[i].session = stamp
  OBVIOUS
<1>7. ASSUME NEW i \in DOMAIN requests'
      PROVE  \/ i \in DOMAIN requests /\ requests'[i] = requests[i]
             \/ requests'[i].session = stamp
  <2> DEFINE T == Request \cup [session : {stamp}, read : {bytes, {stamp}}]
  <2>1. requests \in Seq(T) /\ new \in Seq(T)
    <3>1. Request \subseteq T /\ [session : {stamp}, read : {bytes, {stamp}}] \subseteq T
      OBVIOUS
    <3> HIDE DEF T, new
    <3>2. Seq(Request) \subseteq Seq(T)
      BY <3>1, SeqMonotonic
    <3>3. Seq([session : {stamp}, read : {bytes, {stamp}}]) \subseteq Seq(T)
      BY <3>1, SeqMonotonic
    <3> QED BY <1>1, <1>5, <3>2, <3>3
  <2> HIDE DEF T, new
  <2>2. /\ Len(requests') = Len(requests) + Len(new) /\ requests' \in Seq(T)
        /\ \A j \in 1 .. Len(requests) + Len(new) :
             requests'[j] = IF j <= Len(requests) THEN requests[j] ELSE new[j - Len(requests)]
    BY <1>3, <2>1, ConcatProperties
  <2>3. /\ Len(requests') = m + sent
        /\ \A j \in 1 .. m + sent :
             requests'[j] = IF j <= m THEN requests[j] ELSE new[j - m]
    BY <1>1, <1>5, <2>2
  <2>4. i \in 1 .. m + sent
    BY <2>2, <2>3, LenProperties
  <2>5. CASE i <= m
    BY <1>1, <2>3, <2>4, <2>5
  <2>6. CASE ~(i <= m)
    <3>1. i - m \in 1 .. sent
      BY <1>1, <1>2, <2>4, <2>6
    <3>2. requests'[i] = new[i - m]
      BY <2>3, <2>4, <2>6
    <3> QED BY <3>1, <3>2, <1>6 DEF new
  <2> QED BY <2>5, <2>6
<1>8. \/ receiver'.phase = "Sending" /\ receiver'.runtime = receiver.runtime
      \/ receiver'.phase = "Gated"
      \/ receiver'.phase = "Reading" /\ dtr
  <2>1. CASE receiver' = [receiver EXCEPT
               !.phase = "Sending", !.left = n - sent, !.buffer = kept,
               !.bytes = IF sent = 0 THEN bytes ELSE {stamp}]
    BY <1>1, <2>1 DEF Receiver
  <2>2. CASE Listen(kept, receiver.buffered) \/ Listen({}, session)
    BY <2>2, ListenReads
  <2> QED BY <1>4, <2>1, <2>2
<1> QED BY <1>7, <1>8

\* The receiver reads on, or waits, with the same requests behind it.
LEMMA ListenKeepsEventsDue ==
  ASSUME EventsAreDue,
         usb \/ receiver'.phase \in {"Gated", "Disconnected"}
             \/ (receiver'.phase = "Reading" /\ dtr),
         receiver'.phase \notin {"Sending", "Raising"},
         UNCHANGED <<session, applied, usb, interrupted, dtr, requests, unanswered, delayed,
                     safetyEvents, control, leaseRaising, sender, responseReset>>
  PROVE  EventsAreDue'
<1>1. TaskRaises' => TaskRaises
  BY DEF TaskRaises
<1>2. NothingIsCurrent' = NothingIsCurrent /\ IsWriting' = IsWriting
  BY DEF NothingIsCurrent, IsWriting
<1> QED BY <1>1, <1>2 DEF EventsAreDue

\* What the receiver reads while USB is there disturbs nothing.
LEMMA ReadKeepsEventsDue ==
  ASSUME EventsAreDue, usb,
         receiver'.phase # "Raising",
         UNCHANGED <<session, applied, usb, interrupted, dtr, unanswered, delayed,
                     safetyEvents, control, leaseRaising, sender, responseReset>>
  PROVE  EventsAreDue'
<1>1. TaskRaises' => TaskRaises
  BY DEF TaskRaises
<1> QED BY <1>1 DEF EventsAreDue

\* A read that fails does so with USB gone, when no admission of the session is left.
LEMMA ReceiverKeepsEventsDue ==
  ASSUME SessionInv, EventsAreDue, ReceiverInput \/ ReceiverStep
  PROVE  EventsAreDue'
<1> USE DEF lineVars, controlVars, eventVars, signalVars, dispatcherVars
<1>1. CASE ReadPacket
  <2>1. /\ usb
        /\ UNCHANGED <<session, applied, usb, interrupted, dtr, unanswered, delayed,
                       safetyEvents, control, leaseRaising, sender, responseReset>>
    BY <1>1 DEF ReadPacket
  <2>2. receiver'.phase # "Raising"
    <3>1. CASE ~dtr
      <4>1. Listen({}, session)
        BY <1>1, <3>1 DEF ReadPacket
      <4> QED BY <4>1, ListenReads
    <3>2. CASE dtr
      <4>1. PICK n \in 0 .. PacketFrames : \E bytes, kept : SendFrames(n, bytes, kept)
        BY <1>1, <3>2 DEF ReadPacket
      <4> QED BY <4>1, SendFramesStamps
    <3> QED BY <3>1, <3>2
  <2> QED BY <2>1, <2>2, ReadKeepsEventsDue
<1>2. CASE RejectInput
  <2>1. Listen({}, session)
    BY <1>2 DEF RejectInput
  <2>2. receiver'.phase # "Raising"
    BY <2>1, ListenReads
  <2> QED BY <1>2, <2>2, ReadKeepsEventsDue DEF RejectInput
<1>3. CASE PartialFrameExpires \/ ReceiverResets
  <2>1. Listen({}, session)
    BY <1>3 DEF PartialFrameExpires, ReceiverResets
  <2>2. receiver'.phase = "Gated" \/ (receiver'.phase = "Reading" /\ dtr)
    BY <2>1, ListenReads
  <2>3. UNCHANGED <<session, applied, usb, interrupted, dtr, requests, unanswered, delayed,
                    safetyEvents, control, leaseRaising, sender, responseReset>>
    BY <1>3 DEF PartialFrameExpires, ReceiverResets
  <2> QED BY <2>2, <2>3, ListenKeepsEventsDue
<1>4. CASE ReceiverConnects
  <2>1. Listen({}, session) /\ usb
    BY <1>4 DEF ReceiverConnects
  <2>2. receiver'.phase # "Raising"
    BY <2>1, ListenReads
  <2> QED BY <1>4, <2>1, <2>2, ReadKeepsEventsDue DEF ReceiverConnects
<1>5. CASE SendMore
  <2>1. /\ receiver.phase = "Sending"
        /\ UNCHANGED <<session, applied, usb, interrupted, dtr, unanswered, delayed,
                       safetyEvents, control, leaseRaising, sender, responseReset>>
    BY <1>5 DEF SendMore
  <2>2. /\ \A i \in DOMAIN requests' :
             \/ i \in DOMAIN requests /\ requests'[i] = requests[i]
             \/ requests'[i].session = receiver.runtime
        /\ \/ receiver'.phase = "Sending" /\ receiver'.runtime = receiver.runtime
           \/ receiver'.phase = "Gated"
           \/ receiver'.phase = "Reading" /\ dtr
    <3>1. receiver.left \in 0 .. PacketFrames
      BY DEF SessionInv, Receiver
    <3>2. SendFrames(receiver.left, receiver.bytes, receiver.buffer)
      BY <1>5 DEF SendMore
    <3> QED BY <3>1, <3>2, SendFramesStamps
  <2>3. TaskRaises' => TaskRaises
    BY <2>1, <2>2 DEF TaskRaises
  <2>4. ASSUME ~usb, dtr
        PROVE  NothingIsCurrent' /\ receiver.runtime # session
    <3>1. NothingIsCurrent /\ receiver.runtime # session
      BY <2>1, <2>4 DEF EventsAreDue
    <3>2. \A i \in DOMAIN requests' : requests'[i].session # session
      BY <2>2, <3>1 DEF NothingIsCurrent
    <3> QED BY <2>1, <3>1, <3>2 DEF NothingIsCurrent
  <2>5. IsWriting' = IsWriting
    BY <2>1 DEF IsWriting
  <2> QED BY <2>1, <2>2, <2>3, <2>4, <2>5 DEF EventsAreDue
<1>6. CASE ReadFails
  <2>1. PICK raising \in BOOLEAN :
          /\ SendEvent(raising)
          /\ receiver' = [receiver EXCEPT
               !.phase = IF raising THEN "Raising" ELSE "Disconnected"]
    BY <1>6 DEF ReadFails
  <2>2. /\ ~usb /\ receiver.phase = "Reading"
        /\ UNCHANGED <<session, applied, usb, interrupted, dtr, requests, unanswered,
                       control, leaseRaising, sender, responseReset>>
    BY <1>6 DEF ReadFails, IsReading
  <2>3. /\ receiver'.phase = IF raising THEN "Raising" ELSE "Disconnected"
        /\ receiver'.runtime = receiver.runtime
    BY <2>1 DEF SessionInv, Receiver
  <2>4. TaskRaises' => delayed'
    <3>1. (delayed => delayed') /\ (raising => delayed')
      BY <2>1 DEF SendEvent
    <3>2. CASE raising
      BY <3>1, <3>2
    <3>3. CASE ~raising
      <4>1. receiver'.phase # "Raising"
        BY <2>3, <3>3
      <4>2. TaskRaises' => TaskRaises
        BY <2>2, <4>1 DEF TaskRaises
      <4> QED BY <3>1, <4>2 DEF EventsAreDue
    <3> QED BY <3>2, <3>3
  <2>5. NothingIsCurrent' = NothingIsCurrent /\ IsWriting' = IsWriting
    BY <2>2 DEF NothingIsCurrent, IsWriting
  <2>6. session = applied /\ ~interrupted => unanswered = {}
    BY <2>2 DEF EventsAreDue, NothingIsCurrent
  <2>7. receiver'.phase # "Sending" /\ receiver'.phase # "Reading"
    BY <2>3
  <2> QED BY <2>2, <2>4, <2>5, <2>6, <2>7 DEF EventsAreDue
<1>7. CASE ReceiverRaises
  <2>1. /\ receiver.phase = "Raising" /\ receiver'.phase = "Disconnected"
        /\ SendEvent(FALSE)
        /\ UNCHANGED <<session, applied, usb, interrupted, dtr, requests, unanswered,
                       control, leaseRaising, sender, responseReset>>
    BY <1>7 DEF ReceiverRaises, SessionInv, Receiver
  <2>2. delayed'
    BY <2>1 DEF SendEvent, EventsAreDue, TaskRaises
  <2>3. NothingIsCurrent' = NothingIsCurrent /\ IsWriting' = IsWriting
    BY <2>1 DEF NothingIsCurrent, IsWriting
  <2> QED BY <2>1, <2>2, <2>3 DEF EventsAreDue
<1> QED BY <1>1, <1>2, <1>3, <1>4, <1>5, <1>6, <1>7 DEF ReceiverInput, ReceiverStep

-----------------------------------------------------------------------------
(* The dispatcher and the response task.                                   *)

\* Applying an event leaves nothing of the session behind, and a request of another
\* session is not admitted.
LEMMA DispatcherKeepsEventsDue ==
  ASSUME SessionInv, EventInv, EventsAreDue, DispatcherStep
  PROVE  EventsAreDue'
<1> USE DEF lineVars, controlVars, eventVars, signalVars, dispatcherVars
<1>1. session \in Nat /\ session # None /\ safetyEvents \in Nat
  BY SessionAssumption, NoneIsNoSession
  DEF SessionInv, Session, EventInv, SessionAssumption
<1>2. UNCHANGED <<session, usb, dtr, delayed, receiver, sender>> /\ TaskRaises' = TaskRaises
  BY DEF DispatcherStep, DispatchSafetyEvent, JobTaken, DispatchResult, DispatchRequest,
         TaskRaises
<1>3. CASE DispatchSafetyEvent
  <2>1. /\ requests' = <<>> /\ unanswered' = {} /\ applied' = session
        /\ responseReset' = session
    BY <1>3 DEF DispatchSafetyEvent
  <2>2. NothingIsCurrent'
    BY <2>1 DEF NothingIsCurrent
  <2>3. ~IsWriting'
    BY <1>1, <2>1 DEF IsWriting
  <2> QED BY <1>1, <1>2, <2>1, <2>2, <2>3 DEF EventsAreDue
<1>4. CASE JobTaken
  <2>1. UNCHANGED <<applied, requests, unanswered, safetyEvents, interrupted, responseReset>>
    BY <1>4 DEF JobTaken
  <2>2. NothingIsCurrent' = NothingIsCurrent /\ IsWriting' = IsWriting
    BY <1>2, <2>1 DEF NothingIsCurrent, IsWriting
  <2> QED BY <1>2, <2>1, <2>2 DEF EventsAreDue
<1>5. CASE DispatchResult
  <2>1. /\ UNCHANGED <<applied, requests, safetyEvents, interrupted, responseReset>>
        /\ unanswered' \subseteq unanswered
    BY <1>5 DEF DispatchResult
  <2>2. NothingIsCurrent => NothingIsCurrent'
    BY <1>2, <2>1 DEF NothingIsCurrent
  <2>3. IsWriting' = IsWriting
    BY <1>2, <2>1 DEF IsWriting
  <2> QED BY <1>2, <2>1, <2>2, <2>3 DEF EventsAreDue
<1>6. CASE DispatchRequest
  <2>1. /\ safetyEvents = 0 /\ requests # <<>> /\ requests' = Tail(requests)
        /\ UNCHANGED <<applied, safetyEvents, interrupted, responseReset>>
        /\ Head(requests).session # session => unanswered' = unanswered
    BY <1>6 DEF DispatchRequest
  <2>2. requests \in Seq(Request)
    BY DEF SessionInv
  <2>3. /\ 1 \in DOMAIN requests /\ Head(requests) = requests[1]
        /\ \A i \in DOMAIN requests' : \E j \in DOMAIN requests : requests'[i] = requests[j]
    <3>1. /\ Len(requests') = Len(requests) - 1 /\ requests' \in Seq(Request)
          /\ \A i \in 1 .. Len(requests') : requests'[i] = requests[i + 1]
          /\ \A i \in DOMAIN requests' : i + 1 \in DOMAIN requests
          /\ 1 \in DOMAIN requests /\ Head(requests) = requests[1]
      BY <2>1, <2>2, HeadTailProperties, LenProperties
    <3>2. DOMAIN requests' = 1 .. Len(requests')
      BY <3>1, LenProperties
    <3> QED BY <3>1, <3>2
  <2>4. NothingIsCurrent => NothingIsCurrent'
    BY <1>2, <2>1, <2>3 DEF NothingIsCurrent
  <2>5. IsWriting' = IsWriting
    BY <1>2, <2>1 DEF IsWriting
  <2> QED BY <1>2, <2>1, <2>4, <2>5 DEF EventsAreDue
<1> QED BY <1>3, <1>4, <1>5, <1>6 DEF DispatcherStep

\* The response task writes only with DTR up, so a write fails only when no admission of
\* the session is left.
LEMMA SenderKeepsEventsDue ==
  ASSUME SessionInv, AnswerInv, EventsAreDue, SenderStep \/ SenderWrites
  PROVE  EventsAreDue'
<1> USE DEF lineVars, controlVars, eventVars, signalVars, dispatcherVars
<1>1. /\ UNCHANGED <<session, applied, usb, interrupted, dtr, requests, unanswered, receiver,
                     control, leaseRaising>>
      /\ NothingIsCurrent' = NothingIsCurrent
  BY DEF SenderStep, SenderConnects, SenderResets, SenderTakes, SenderWrites, WriteFails,
         SenderRaises, NothingIsCurrent
<1>2. CASE SenderConnects \/ SenderResets \/ SenderTakes \/ SenderWrites
  <2>1. UNCHANGED <<delayed, safetyEvents>> /\ sender'.phase # "Raising"
    BY <1>2
    DEF SenderConnects, SenderResets, SenderTakes, SenderWrites, IdleSender
  <2>2. IsWriting' => dtr
    BY <1>2
    DEF SenderConnects, SenderResets, SenderTakes, SenderWrites, IdleSender, IsWriting
  <2>3. TaskRaises' => TaskRaises
    BY <1>1, <2>1 DEF TaskRaises
  <2> QED BY <1>1, <2>1, <2>2, <2>3 DEF EventsAreDue
<1>3. CASE WriteFails
  <2>1. PICK raising \in BOOLEAN :
          /\ SendEvent(raising)
          /\ sender' = [phase |-> IF raising THEN "Raising" ELSE "Disconnected",
                        response |-> None]
    BY <1>3 DEF WriteFails
  <2>2. ~usb /\ IsWriting
    BY <1>3 DEF WriteFails
  <2>3. TaskRaises' => delayed'
    BY <1>1, <2>1 DEF TaskRaises, EventsAreDue, SendEvent
  <2>4. session = applied /\ ~interrupted => unanswered = {}
    BY <2>2 DEF EventsAreDue, NothingIsCurrent
  <2>5. ~IsWriting'
    BY <2>1 DEF IsWriting
  <2> QED BY <1>1, <2>3, <2>4, <2>5 DEF EventsAreDue
<1>4. CASE SenderRaises
  <2>1. sender.phase = "Raising" /\ sender'.phase = "Disconnected" /\ SendEvent(FALSE)
    BY <1>4 DEF SenderRaises, AnswerInv, Sender
  <2>2. delayed'
    BY <2>1 DEF SendEvent, EventsAreDue, TaskRaises
  <2>3. ~IsWriting'
    BY <2>1 DEF IsWriting
  <2> QED BY <1>1, <2>2, <2>3 DEF EventsAreDue
<1> QED BY <1>2, <1>3, <1>4 DEF SenderStep

\* Every step keeps the events due.
LEMMA NextKeepsEventsDue ==
  ASSUME SessionInv, EventInv, AnswerInv, EventsAreDue, LineTypes, [Next]_vars
  PROVE  EventsAreDue'
<1> USE DEF lineVars, controlVars, eventVars, signalVars, dispatcherVars
<1>1. CASE HostSetsDtr \/ UsbReset \/ UsbEnabled
  BY <1>1, LineKeepsEventsDue
<1>2. CASE UsbDisabled
  <2>1. TaskRaises' => delayed'
    BY <1>2 DEF UsbDisabled, TaskRaises, EventsAreDue
  <2> QED BY <1>2, <2>1, ResetKeepsEventsDue DEF UsbDisabled
<1>3. CASE LeaseExpires
  <2>1. TaskRaises' => delayed'
    BY <1>3 DEF LeaseExpires, TaskRaises, EventsAreDue, SendEvent
  <2> QED BY <1>3, <2>1, ResetKeepsEventsDue DEF LeaseExpires
<1>4. CASE ControlChanges
  <2>1. CASE control.previous /\ ~dtr
    <3>1. PICK raising \in BOOLEAN :
            /\ SendEvent(raising)
            /\ control' = [previous |-> dtr, raising |-> raising]
      BY <1>4, <2>1 DEF ControlChanges
    <3>2. TaskRaises' => delayed'
      BY <1>4, <3>1 DEF ControlChanges, TaskRaises, EventsAreDue, SendEvent
    <3> QED BY <1>4, <2>1, <3>2, ResetKeepsEventsDue DEF ControlChanges
  <2>2. CASE ~(control.previous /\ ~dtr)
    <3>1. control'.raising = control.raising
      BY <1>4, <2>2 DEF ControlChanges, LineTypes
    <3>2. TaskRaises' => delayed'
      BY <1>4, <2>2, <3>1 DEF ControlChanges, TaskRaises, EventsAreDue
    <3> QED BY <1>4, <2>2, <3>2, RaisingKeepsEventsDue DEF ControlChanges
  <2> QED BY <2>1, <2>2
<1>5. CASE ControlRaises \/ LeaseRaises
  <2>1. delayed'
    BY <1>5 DEF ControlRaises, LeaseRaises, SendEvent, TaskRaises, EventsAreDue
  <2> QED BY <1>5, <2>1, RaisingKeepsEventsDue DEF ControlRaises, LeaseRaises
<1>6. CASE ReceiverInput \/ ReceiverStep
  BY <1>6, ReceiverKeepsEventsDue
<1>7. CASE DispatcherStep
  BY <1>7, DispatcherKeepsEventsDue
<1>8. CASE SenderStep \/ SenderWrites
  BY <1>8, SenderKeepsEventsDue
<1>9. CASE UNCHANGED vars
  <2>1. TaskRaises' => delayed'
    BY <1>9 DEF vars, TaskRaises, EventsAreDue
  <2> QED BY <1>9, <2>1, RaisingKeepsEventsDue DEF vars
<1> QED
  BY <1>1, <1>2, <1>3, <1>4, <1>5, <1>6, <1>7, <1>8, <1>9 DEF Next, Environment, Control

\* As long as SAFETY_EVENTS has room, no admission is lost to a late event: the USB
\* handler, the control task, the lease task and the two endpoint tasks may announce
\* one cause several times, in any order, and still the dispatcher never clears a
\* session that a reconnected host has begun to use.
THEOREM LateEventsAreHarmless == Spec => AdmissionsEndWithSession
<1>1. /\ SessionInv /\ AnswerInv /\ EventInv /\ LineTypes /\ EventsAreDue /\ [Next]_vars
           => EventsAreDue'
      /\ SessionInv /\ LineTypes /\ [Next]_vars => LineTypes'
      /\ EventInv /\ [Next]_vars => EventInv'
  BY NextKeepsEventsDue, NextKeepsTypes, NextKeepsEvent
<1>2. Spec => []EventsAreDue
  BY <1>1, InitEventsAreDue, InitTypes, InitEvent, SessionsAreKept, AnswersAreKept, PTL
  DEF Spec
<1>3. /\ EventsAreDue
      /\ [Next]_vars
      => [DispatchSafetyEvent /\ unanswered # {} /\ ~delayed
            => session # applied \/ interrupted]_vars
  <2>1. EventsAreDue /\ DispatchSafetyEvent /\ unanswered # {} /\ ~delayed
          => session # applied \/ interrupted
    BY DEF EventsAreDue, DispatchSafetyEvent
  <2> QED BY <2>1
<1> QED BY <1>2, <1>3, PTL DEF Spec, AdmissionsEndWithSession

-----------------------------------------------------------------------------
(* The frame stream: frames come through whatever cuts them into packets.  *)

\* A set of naturals has a least one.
LEMMA LeastNatural ==
  ASSUME NEW T \in SUBSET Nat, T # {}
  PROVE  \E x \in T : \A y \in T : x <= y
<1> DEFINE R == {ss \in Nat \X Nat : ss[1] < ss[2]}
<1>1. IsWellFoundedOn(R, Nat)
  BY NatLessThanWellFounded DEF OpToRel
<1> HIDE DEF R
<1>2. \E x \in T : \A y \in T : ~(<<y, x>> \in R)
  BY <1>1, WFMin
<1>3. \A x, y \in T : ~(<<y, x>> \in R) => x <= y
  BY DEF R
<1> QED BY <1>2, <1>3

\* The frames lie in the bytes one after the other, at[k] bytes before the k-th,
\* and no magic begins outside them.
LiesAt(bytes, frames, at) ==
  /\ \A k \in DOMAIN frames :
       /\ at[k] + Len(frames[k]) <= Len(bytes)
       /\ \A j \in DOMAIN frames[k] : bytes[at[k] + j] = frames[k][j]
  /\ \A k, l \in DOMAIN frames : k < l => at[k] + Len(frames[k]) <= at[l]
  /\ \A i \in DOMAIN bytes : IsMagic(bytes, i) =>
       \E k \in DOMAIN frames : at[k] < i /\ i < at[k] + Len(frames[k])

\* A byte sequence is made of just these frames and noise.
Carries(bytes, frames) == \E at \in [DOMAIN frames -> Nat] : LiesAt(bytes, frames, at)

\* The bytes under way, from the receiver's buffer to the line.
UnderWay == buffer \o packet \o line

\* StreamInv with what makes it inductive: while the stream is clean, the frames
\* under way are the ones due.
StreamOnTrack ==
  /\ StreamTypeOK
  /\ AppendMakesProgress
  /\ ~wrong
  /\ ~clean => due = <<>>
  /\ clean => Carries(UnderWay, due)

\* A concatenation is the one sequence and then the other.
LEMMA ConcatFacts ==
  ASSUME NEW T, NEW s \in Seq(T), NEW t \in Seq(T)
  PROVE  /\ s \o t \in Seq(T) /\ Len(s \o t) = Len(s) + Len(t)
         /\ \A i \in 1 .. Len(s) : (s \o t)[i] = s[i]
         /\ \A i \in 1 .. Len(t) : (s \o t)[Len(s) + i] = t[i]
OBVIOUS

\* The constants, and that the bytes are numbers.
LEMMA StreamConstants ==
  /\ Byte \subseteq Nat /\ Magic[1] \in Byte /\ Magic[2] \in Byte /\ Magic[1] # Magic[2]
  /\ Magic \in Seq(Byte) /\ Len(Magic) = 2
  /\ MaxPayload \in Nat /\ 0 .. MaxPayload \subseteq Byte
  /\ PacketSize \in Nat \ {0} /\ Timeout \in Nat \ {0} /\ UnitLimit \in Nat
  /\ MaxFrame \in Nat /\ MaxFrame = 4 + MaxPayload
  /\ Noise \subseteq Seq(Byte) /\ Garbage \subseteq Seq(Byte)
<1>1. Magic \in Byte \X Byte
  BY StreamAssumption DEF StreamAssumption
<1>2. Magic[1] \in Byte /\ Magic[2] \in Byte /\ Magic \in Seq(Byte) /\ Len(Magic) = 2
  <2>1. PICK a \in Byte, b \in Byte : Magic = <<a, b>>
    BY <1>1
  <2>2. <<a, b>> \in Seq(Byte) /\ Len(<<a, b>>) = 2 /\ <<a, b>>[1] = a /\ <<a, b>>[2] = b
    OBVIOUS
  <2> QED BY <2>1, <2>2
<1>3. MaxPayload \in Nat
  BY StreamAssumption DEF StreamAssumption
<1>4. MaxFrame = 4 + MaxPayload
  BY DEF MaxFrame, Overhead
<1> QED BY <1>2, <1>3, <1>4, StreamAssumption DEF StreamAssumption

\* What encode_frame makes: the magic, a good length, and a check byte that fits.
LEMMA FrameShape ==
  ASSUME NEW frame \in Frame
  PROVE  /\ frame \in Seq(Byte)
         /\ Len(frame) \in 4 .. MaxFrame
         /\ frame[1] = Magic[1] /\ frame[2] = Magic[2]
         /\ frame[3] \in 0 .. MaxPayload /\ Len(frame) = 4 + frame[3]
         /\ IsIntact(frame)
<1>0. PICK n \in 0 .. MaxPayload : \E payload \in [1 .. n -> Byte] : frame = Encode(payload)
  BY DEF Frame
<1>1. PICK payload \in [1 .. n -> Byte] : frame = Encode(payload)
  BY <1>0
<1> DEFINE body == <<Len(payload)>> \o payload
           check == Crc(body)
<1>2. n \in Nat /\ n <= MaxPayload /\ n \in Byte /\ MaxPayload \in Nat
  BY StreamConstants
<1>3. payload \in Seq(Byte) /\ Len(payload) = n
  BY <1>2
<1>4. /\ body \in Seq(Byte) /\ Len(body) = n + 1
      /\ body[1] = n
      /\ \A i \in 1 .. n : body[i + 1] = payload[i]
  BY <1>2, <1>3
<1>5. body \in Body
  <2> HIDE DEF body
  <2>1. body \in [1 .. n + 1 -> Byte]
    BY <1>2, <1>4
  <2>2. n + 1 \in 1 .. MaxPayload + 1
    BY <1>2
  <2> QED BY <2>1, <2>2 DEF Body
<1>6. check \in Byte
  BY <1>5, StreamAssumption DEF StreamAssumption
<1>7. frame = Magic \o body \o <<check>>
  BY <1>1 DEF Encode
<1> HIDE DEF check, body
<1> DEFINE front == Magic \o body
<1>8. /\ front \in Seq(Byte) /\ Len(front) = n + 3
      /\ front[1] = Magic[1] /\ front[2] = Magic[2] /\ front[3] = n
      /\ \A i \in 1 .. n + 1 : front[i + 2] = body[i]
  <2>1. Magic \in Seq(Byte) /\ Len(Magic) = 2
    BY StreamConstants
  <2>2. /\ front \in Seq(Byte) /\ Len(front) = Len(Magic) + Len(body)
        /\ \A i \in 1 .. Len(Magic) : front[i] = Magic[i]
        /\ \A i \in 1 .. Len(body) : front[Len(Magic) + i] = body[i]
    <3>1. body \in Seq(Byte) /\ Magic \in Seq(Byte)
      BY <1>4, <2>1
    <3>2. \A s, t \in Seq(Byte) :
            /\ s \o t \in Seq(Byte) /\ Len(s \o t) = Len(s) + Len(t)
            /\ \A i \in 1 .. Len(s) : (s \o t)[i] = s[i]
            /\ \A i \in 1 .. Len(t) : (s \o t)[Len(s) + i] = t[i]
      BY ConcatFacts
    <3> QED BY <3>1, <3>2, Zenon
  <2> HIDE DEF front
  <2>3. /\ Len(front) = 2 + (n + 1)
        /\ \A i \in 1 .. 2 : front[i] = Magic[i]
        /\ \A i \in 1 .. n + 1 : front[2 + i] = body[i]
    BY <2>1, <2>2, <1>4
  <2>4. 1 \in 1 .. n + 1 /\ 2 + 1 = 3 /\ 2 + (n + 1) = n + 3
    BY <1>2
  <2>5. front[1] = Magic[1] /\ front[2] = Magic[2] /\ front[2 + 1] = body[1]
    BY <2>3, <2>4
  <2>6. front[3] = n
    BY <2>4, <2>5, <1>4
  <2>7. \A i \in 1 .. n + 1 : front[i + 2] = body[i]
    BY <2>3, <1>2
  <2> QED BY <2>2, <2>3, <2>4, <2>5, <2>6, <2>7
<1> HIDE DEF front
<1>9. /\ frame \in Seq(Byte) /\ Len(frame) = n + 4
      /\ \A i \in 1 .. n + 3 : frame[i] = front[i]
      /\ frame[n + 4] = check
  <2>1. frame = front \o <<check>>
    BY <1>7 DEF front
  <2> QED BY <2>1, <1>6, <1>8, <1>2
<1>10. frame[1] = Magic[1] /\ frame[2] = Magic[2] /\ frame[3] = n
  BY <1>8, <1>9, <1>2
<1>11. IsIntact(frame)
  <2>1. SubSeq(frame, 3, n + 3) = body
    <3> DEFINE part == SubSeq(frame, 3, n + 3)
    <3>1. part \in Seq(Byte) /\ Len(part) = n + 1
      BY <1>9, <1>2
    <3>2. ASSUME NEW i \in 1 .. n + 1
          PROVE  part[i] = body[i]
      <4>1. part[i] = frame[i + 2]
        BY <1>9, <1>2
      <4>2. i + 2 \in 1 .. n + 3
        BY <1>2
      <4> QED BY <4>1, <4>2, <1>8, <1>9
    <3> HIDE DEF part
    <3>3. part = body
      BY <3>1, <3>2, <1>4, <1>2
    <3> QED BY <3>3 DEF part
  <2>2. Len(frame) - 1 = n + 3 /\ Len(frame) = n + 4
    BY <1>9, <1>2
  <2> QED BY <2>1, <2>2, <1>9 DEF IsIntact, HeaderLength, check
<1> QED BY <1>9, <1>10, <1>11, <1>2, StreamConstants
-----------------------------------------------------------------------------
(* What bytes carry, as they are sent and dropped.                         *)

\* Only where two sequences meet could a magic begin in one and end in the other,
\* and not if the second starts with something else than its second half.
LEMMA MagicIsInOnePart ==
  ASSUME NEW bytes \in Seq(Byte), NEW more \in Seq(Byte),
         Len(more) > 0, more[1] # Magic[2],
         NEW i \in DOMAIN (bytes \o more), IsMagic(bytes \o more, i)
  PROVE  \/ i \in DOMAIN bytes /\ IsMagic(bytes, i)
         \/ i > Len(bytes) /\ i - Len(bytes) \in DOMAIN more /\ IsMagic(more, i - Len(bytes))
<1> DEFINE all == bytes \o more
           m == Len(bytes)
           l == Len(more)
<1>1. /\ all \in Seq(Byte) /\ Len(all) = m + l
      /\ \A j \in 1 .. m : all[j] = bytes[j]
      /\ \A j \in 1 .. l : all[m + j] = more[j]
  BY ConcatFacts
<1>2. m \in Nat /\ l \in Nat /\ l > 0
  OBVIOUS
<1>3. i \in DOMAIN all /\ IsMagic(all, i)
  OBVIOUS
<1>4. DOMAIN bytes = 1 .. m /\ DOMAIN more = 1 .. l
  OBVIOUS
<1>5. m = Len(bytes) /\ l = Len(more)
  OBVIOUS
<1> HIDE DEF all, m, l
<1>6. i \in 1 .. m + l /\ i < m + l /\ all[i] = Magic[1] /\ all[i + 1] = Magic[2]
  BY <1>1, <1>3 DEF IsMagic
<1>7. CASE i < m
  <2>1. i \in 1 .. m /\ i + 1 \in 1 .. m
    BY <1>2, <1>6, <1>7
  <2>2. bytes[i] = Magic[1] /\ bytes[i + 1] = Magic[2]
    BY <2>1, <1>1, <1>6
  <2> QED BY <2>1, <2>2, <1>4, <1>5, <1>7 DEF IsMagic
<1>8. CASE i = m
  <2>1. all[m + 1] = more[1]
    BY <1>1, <1>2
  <2> QED BY <2>1, <1>6, <1>8
<1>9. CASE i > m
  <2>1. PICK j \in 1 .. l : i = m + j
    <3>1. i - m \in 1 .. l /\ i = m + (i - m)
      BY <1>2, <1>6, <1>9
    <3> QED BY <3>1
  <2>2. j + 1 \in 1 .. l /\ j < l /\ i + 1 = m + (j + 1) /\ i - m = j
    BY <1>2, <1>6, <2>1
  <2>3. more[j] = Magic[1] /\ more[j + 1] = Magic[2]
    BY <2>1, <2>2, <1>1, <1>6
  <2>4. IsMagic(more, j)
    BY <2>2, <2>3, <1>5 DEF IsMagic
  <2>5. i > m /\ i - m \in DOMAIN more /\ IsMagic(more, i - m)
    BY <2>1, <2>2, <2>4, <1>4, <1>9
  <2> QED BY <2>5, <1>5
<1> QED BY <1>2, <1>6, <1>7, <1>8, <1>9

\* No frame lies in fewer than two bytes, and no magic.
LEMMA NothingLiesInAByte ==
  ASSUME NEW bytes \in Seq(Byte), Len(bytes) <= 1
  PROVE  /\ Carries(bytes, << >>)
         /\ \A frames \in Seq(Frame) : Carries(bytes, frames) => frames = << >>
<1>1. \A i \in DOMAIN bytes : ~IsMagic(bytes, i)
  BY DEF IsMagic
<1>2. Carries(bytes, << >>)
  <2> DEFINE at == [k \in DOMAIN << >> |-> 0]
  <2>1. at \in [DOMAIN << >> -> Nat]
    OBVIOUS
  <2>2. DOMAIN << >> = {}
    OBVIOUS
  <2>3. LiesAt(bytes, << >>, at)
    BY <1>1, <2>2 DEF LiesAt
  <2> HIDE DEF at
  <2> QED BY <2>1, <2>3 DEF Carries
<1>3. ASSUME NEW frames \in Seq(Frame), Carries(bytes, frames), frames # << >>
      PROVE  FALSE
  <2>1. PICK at \in [DOMAIN frames -> Nat] : LiesAt(bytes, frames, at)
    BY <1>3 DEF Carries
  <2>2. 1 \in DOMAIN frames /\ frames[1] \in Frame
    BY <1>3
  <2>3. at[1] \in Nat /\ at[1] + Len(frames[1]) <= Len(bytes)
    BY <2>1, <2>2 DEF LiesAt
  <2>4. Len(frames[1]) \in 4 .. MaxFrame
    BY <2>2, FrameShape
  <2>5. Len(bytes) \in Nat /\ MaxFrame \in Nat
    BY StreamConstants
  <2> QED BY <2>3, <2>4, <2>5
<1> QED BY <1>2, <1>3

\* With noise after them, the bytes carry the same frames.
LEMMA CarriesNoise ==
  ASSUME NEW bytes \in Seq(Byte), NEW frames \in Seq(Frame), NEW noise \in Noise,
         Carries(bytes, frames)
  PROVE  Carries(bytes \o noise, frames)
<1>1. PICK at \in [DOMAIN frames -> Nat] : LiesAt(bytes, frames, at)
  BY DEF Carries
<1>2. noise \in Seq(Byte) /\ Len(noise) > 0 /\ noise[1] # Magic[2]
  <2>1. noise \in Seq(Byte)
    BY StreamConstants
  <2>2. noise # << >> /\ noise[1] # Magic[2]
    BY StreamAssumption DEF StreamAssumption
  <2> QED BY <2>1, <2>2
<1>3. \A i \in DOMAIN noise : ~IsMagic(noise, i)
  BY StreamAssumption DEF StreamAssumption
<1> DEFINE all == bytes \o noise
<1>4. /\ all \in Seq(Byte) /\ Len(all) = Len(bytes) + Len(noise)
      /\ \A j \in 1 .. Len(bytes) : all[j] = bytes[j]
  BY <1>2, ConcatFacts
<1>5. ASSUME NEW i \in DOMAIN all, IsMagic(all, i)
      PROVE  i \in DOMAIN bytes /\ IsMagic(bytes, i)
  BY <1>2, <1>3, <1>5, MagicIsInOnePart
<1> HIDE DEF all
<1>6. ASSUME NEW k \in DOMAIN frames
      PROVE  /\ at[k] + Len(frames[k]) <= Len(all)
             /\ \A j \in DOMAIN frames[k] : all[at[k] + j] = frames[k][j]
  <2>1. frames[k] \in Frame /\ at[k] \in Nat
    OBVIOUS
  <2>2. frames[k] \in Seq(Byte)
    BY <2>1, FrameShape
  <2>3. /\ at[k] + Len(frames[k]) <= Len(bytes)
        /\ \A j \in DOMAIN frames[k] : bytes[at[k] + j] = frames[k][j]
    BY <1>1 DEF LiesAt
  <2> DEFINE a == at[k]
             n == Len(frames[k])
             f == frames[k]
             l == Len(bytes)
  <2>4. /\ a \in Nat /\ n \in Nat /\ l \in Nat /\ a + n <= l
        /\ Len(all) = l + Len(noise) /\ Len(noise) \in Nat /\ DOMAIN f = 1 .. n
    BY <2>1, <2>2, <2>3, <1>2, <1>4
  <2> HIDE DEF a, n, l
  <2>5. a + n <= Len(all)
    BY <2>4
  <2>6. ASSUME NEW j \in DOMAIN f
        PROVE  all[a + j] = f[j]
    <3>1. a + j \in 1 .. l
      BY <2>4
    <3>2. all[a + j] = bytes[a + j]
      BY <3>1, <1>4 DEF l
    <3> QED BY <3>2, <2>3 DEF a
  <2> QED BY <2>5, <2>6 DEF a, n
<1>7. LiesAt(all, frames, at)
  BY <1>1, <1>5, <1>6 DEF LiesAt
<1> QED BY <1>7 DEF Carries, all

\* With a frame after them, the bytes carry that one too.
LEMMA CarriesFrame ==
  ASSUME NEW bytes \in Seq(Byte), NEW frames \in Seq(Frame), NEW frame \in Frame,
         Carries(bytes, frames)
  PROVE  Carries(bytes \o frame, Append(frames, frame))
<1>1. PICK at \in [DOMAIN frames -> Nat] : LiesAt(bytes, frames, at)
  BY DEF Carries
<1> DEFINE l == Len(bytes)
           size == Len(frame)
           q == Len(frames)
           all == bytes \o frame
           more == Append(frames, frame)
           next == [k \in 1 .. q + 1 |-> IF k <= q THEN at[k] ELSE l]
<1>2. /\ frame \in Seq(Byte) /\ size \in Nat /\ size > 3 /\ frame[1] # Magic[2]
      /\ DOMAIN frame = 1 .. size
  BY FrameShape, StreamConstants
<1>3. l \in Nat /\ q \in Nat /\ DOMAIN frames = 1 .. q /\ DOMAIN bytes = 1 .. l
  OBVIOUS
<1>4. /\ all \in Seq(Byte) /\ Len(all) = l + size
      /\ \A j \in 1 .. l : all[j] = bytes[j]
      /\ \A j \in 1 .. size : all[l + j] = frame[j]
  BY <1>2, ConcatFacts
<1>5. /\ more \in Seq(Frame) /\ DOMAIN more = 1 .. q + 1
      /\ \A k \in 1 .. q : more[k] = frames[k]
      /\ more[q + 1] = frame
  OBVIOUS
<1>6. ASSUME NEW i \in DOMAIN all, IsMagic(all, i)
      PROVE  (i \in DOMAIN bytes /\ IsMagic(bytes, i)) \/ (l < i /\ i < l + size)
  <2>1. i < l + size
    BY <1>6, <1>4 DEF IsMagic
  <2>0. frame \in Seq(Byte) /\ Len(frame) > 0 /\ frame[1] # Magic[2]
    BY <1>2
  <2>2. (i \in DOMAIN bytes /\ IsMagic(bytes, i)) \/ i > l
    BY <2>0, <1>6, MagicIsInOnePart
  <2>3. i \in Nat
    BY <1>4
  <2> HIDE DEF l, size, all
  <2> QED BY <2>1, <2>2, <2>3, <1>3
<1>7. /\ \A k \in 1 .. q : at[k] \in Nat
      /\ \A k \in 1 .. q : Len(frames[k]) \in Nat /\ DOMAIN frames[k] = 1 .. Len(frames[k])
      /\ \A k \in 1 .. q : at[k] + Len(frames[k]) <= l
      /\ \A k \in 1 .. q : \A j \in DOMAIN frames[k] : bytes[at[k] + j] = frames[k][j]
      /\ \A k, m \in 1 .. q : k < m => at[k] + Len(frames[k]) <= at[m]
      /\ \A i \in DOMAIN bytes : IsMagic(bytes, i) =>
           \E k \in 1 .. q : at[k] < i /\ i < at[k] + Len(frames[k])
  <2>1. \A k \in 1 .. q : frames[k] \in Frame
    BY <1>3
  <2>2. \A k \in 1 .. q : Len(frames[k]) \in Nat /\ DOMAIN frames[k] = 1 .. Len(frames[k])
    BY <2>1, FrameShape
  <2> QED BY <1>1, <1>3, <2>2 DEF LiesAt
<1>8. /\ next \in [1 .. q + 1 -> Nat] /\ next[q + 1] = l
      /\ \A k \in 1 .. q : next[k] = at[k]
  BY <1>3, <1>7
<1> HIDE DEF l, size, q, all, more, next
<1>9. size = Len(frame)
  BY DEF size
<1>10. ASSUME NEW k \in 1 .. q + 1
       PROVE  /\ next[k] + Len(more[k]) <= Len(all)
              /\ \A j \in DOMAIN more[k] : all[next[k] + j] = more[k][j]
  <2>1. CASE k = q + 1
    BY <2>1, <1>2, <1>3, <1>4, <1>5, <1>8, <1>9
  <2>2. CASE k # q + 1
    <3>1. k \in 1 .. q
      BY <2>2, <1>3
    <3> DEFINE a == at[k]
               n == Len(frames[k])
               f == frames[k]
    <3>2. next[k] = a /\ more[k] = f /\ Len(more[k]) = n
      BY <3>1, <1>5, <1>8
    <3>3. a \in Nat /\ n \in Nat /\ a + n <= l /\ DOMAIN f = 1 .. n
      BY <3>1, <1>7
    <3>4. \A j \in DOMAIN f : bytes[a + j] = f[j]
      BY <3>1, <1>7
    <3> HIDE DEF a, n, f
    <3>5. a + n <= Len(all)
      BY <3>3, <1>2, <1>3, <1>4
    <3>6. \A j \in DOMAIN f : a + j \in 1 .. l
      BY <3>3, <1>3
    <3>7. \A j \in DOMAIN f : all[a + j] = f[j]
      BY <3>4, <3>6, <1>4
    <3> QED BY <3>2, <3>5, <3>7
  <2> QED BY <2>1, <2>2
<1>11. ASSUME NEW k \in 1 .. q + 1, NEW m \in 1 .. q + 1, k < m
       PROVE  next[k] + Len(more[k]) <= next[m]
  <2>1. k \in 1 .. q
    BY <1>3, <1>11
  <2>2. CASE m = q + 1
    BY <2>1, <2>2, <1>5, <1>7, <1>8
  <2>3. CASE m # q + 1
    <3>1. m \in 1 .. q
      BY <2>3, <1>3
    <3> QED BY <2>1, <3>1, <1>5, <1>7, <1>8, <1>11
  <2> QED BY <2>2, <2>3
<1>12. ASSUME NEW i \in DOMAIN all, IsMagic(all, i)
       PROVE  \E k \in 1 .. q + 1 : next[k] < i /\ i < next[k] + Len(more[k])
  <2>1. CASE i \in DOMAIN bytes /\ IsMagic(bytes, i)
    <3>1. PICK k \in 1 .. q : at[k] < i /\ i < at[k] + Len(frames[k])
      BY <2>1, <1>7
    <3>2. next[k] = at[k] /\ more[k] = frames[k]
      BY <1>5, <1>8
    <3>3. k \in 1 .. q + 1
      BY <1>3
    <3> QED BY <3>1, <3>2, <3>3
  <2>2. CASE l < i /\ i < l + size
    <3>1. q + 1 \in 1 .. q + 1
      BY <1>3
    <3> QED BY <2>2, <3>1, <1>5, <1>8, <1>9
  <2> QED BY <2>1, <2>2, <1>6, <1>12
<1>13. LiesAt(all, more, next)
  BY <1>5, <1>10, <1>11, <1>12 DEF LiesAt
<1>14. next \in [DOMAIN more -> Nat]
  BY <1>5, <1>8
<1> QED BY <1>13, <1>14 DEF Carries, all, more
\* What is left of a sequence when its first n are dropped.
LEMMA DropFacts ==
  ASSUME NEW T, NEW s \in Seq(T), NEW n \in 0 .. Len(s)
  PROVE  /\ SubSeq(s, n + 1, Len(s)) \in Seq(T)
         /\ Len(SubSeq(s, n + 1, Len(s))) = Len(s) - n
         /\ \A i \in 1 .. Len(s) - n : SubSeq(s, n + 1, Len(s))[i] = s[n + i]
<1> DEFINE m == Len(s)
           rest == SubSeq(s, n + 1, m)
<1>1. m \in Nat /\ n \in 0 .. m /\ n \in Nat /\ m = Len(s)
  OBVIOUS
<1>2. rest \in Seq(T)
  BY <1>1
<1>3. Len(rest) = m - n
  BY <1>1
<1>4. \A i \in 1 .. m - n : rest[i] = s[n + i]
  BY <1>1
<1> QED BY <1>2, <1>3, <1>4

\* A sequence in two parts is the sequence.
LEMMA PartsRejoin ==
  ASSUME NEW T, NEW s \in Seq(T), NEW n \in 0 .. Len(s)
  PROVE  SubSeq(s, 1, n) \o SubSeq(s, n + 1, Len(s)) = s
<1>1. SubSeq(s, 1, n) \o SubSeq(s, n + 1, Len(s)) = SubSeq(s, 1, Len(s))
  <2>1. 1 \in 1 .. Len(s) + 1 /\ n \in 1 - 1 .. Len(s) /\ Len(s) \in n .. Len(s)
    OBVIOUS
  <2> QED BY <2>1, ConcatAdjacentSubSeq
<1>2. SubSeq(s, 1, Len(s)) = s
  OBVIOUS
<1> QED BY <1>1, <1>2

\* To drop from the first of two sequences is to drop from both together.
LEMMA DropFromFront ==
  ASSUME NEW T, NEW s \in Seq(T), NEW t \in Seq(T), NEW n \in 0 .. Len(s)
  PROVE  SubSeq(s, n + 1, Len(s)) \o t = SubSeq(s \o t, n + 1, Len(s \o t))
<1> DEFINE rest == SubSeq(s, n + 1, Len(s))
           m == Len(s)
           l == Len(t)
           both == s \o t
           left == SubSeq(both, n + 1, Len(both))
           all == rest \o t
<1>1. m \in Nat /\ n \in Nat /\ n <= m /\ l \in Nat /\ l = Len(t)
  OBVIOUS
<1>2. rest \in Seq(T) /\ Len(rest) = m - n /\ \A i \in 1 .. m - n : rest[i] = s[n + i]
  BY DropFacts
<1>3. /\ both \in Seq(T) /\ Len(both) = m + l
      /\ \A i \in 1 .. m : both[i] = s[i]
      /\ \A i \in 1 .. l : both[m + i] = t[i]
  BY ConcatFacts
<1> HIDE DEF both
<1>4. n \in 0 .. Len(both)
  <2> HIDE DEF m, l
  <2> QED BY <1>1, <1>3
<1>5. /\ left \in Seq(T) /\ Len(left) = Len(both) - n
      /\ \A i \in 1 .. Len(both) - n : left[i] = both[n + i]
  BY <1>3, <1>4, DropFacts
<1> HIDE DEF rest, left
<1>6. /\ all \in Seq(T) /\ Len(all) = Len(rest) + Len(t)
      /\ \A i \in 1 .. Len(rest) : all[i] = rest[i]
      /\ \A i \in 1 .. Len(t) : all[Len(rest) + i] = t[i]
  <2>1. rest \in Seq(T)
    BY <1>2
  <2> QED BY <2>1, ConcatFacts
<1> HIDE DEF all, m, l
<1>7. /\ Len(all) = (m - n) + l /\ Len(left) = (m - n) + l
      /\ \A i \in 1 .. m - n : all[i] = rest[i]
      /\ \A i \in 1 .. l : all[(m - n) + i] = t[i]
      /\ \A i \in 1 .. (m - n) + l : left[i] = both[n + i]
  <2>1. Len(both) - n = (m - n) + l
    BY <1>1, <1>3
  <2>2. Len(rest) = m - n /\ Len(t) = l
    BY <1>1, <1>2
  <2> QED BY <2>1, <2>2, <1>5, <1>6
<1>8. ASSUME NEW i \in 1 .. (m - n) + l
      PROVE  all[i] = left[i]
  <2>1. left[i] = both[n + i]
    BY <1>7
  <2>2. CASE i <= m - n
    <3>1. i \in 1 .. m - n /\ n + i \in 1 .. m
      BY <2>2, <1>1
    <3> QED BY <2>1, <3>1, <1>2, <1>3, <1>7
  <2>3. CASE ~(i <= m - n)
    <3>1. PICK j \in 1 .. l : i = (m - n) + j
      <4>1. i - (m - n) \in 1 .. l /\ i = (m - n) + (i - (m - n))
        BY <2>3, <1>1
      <4> QED BY <4>1
    <3>2. n + i = m + j
      BY <3>1, <1>1
    <3>3. all[i] = t[j] /\ both[m + j] = t[j]
      BY <3>1, <1>3, <1>7
    <3> QED BY <2>1, <3>2, <3>3
  <2> QED BY <2>2, <2>3
<1>9. all = left
  BY <1>5, <1>6, <1>7, <1>8
<1> QED BY <1>9 DEF all, left, rest, both

\* Without what is before every frame, the bytes carry the same frames.
LEMMA CarriesLess ==
  ASSUME NEW bytes \in Seq(Byte), NEW frames \in Seq(Frame), NEW n \in 0 .. Len(bytes),
         NEW at \in [DOMAIN frames -> Nat], LiesAt(bytes, frames, at),
         \A k \in DOMAIN frames : n <= at[k]
  PROVE  Carries(SubSeq(bytes, n + 1, Len(bytes)), frames)
<1> DEFINE l == Len(bytes)
           rest == SubSeq(bytes, n + 1, Len(bytes))
           next == [k \in DOMAIN frames |-> at[k] - n]
<1>1. l \in Nat /\ n \in Nat /\ n <= l
  OBVIOUS
<1>2. rest \in Seq(Byte) /\ Len(rest) = l - n /\ \A i \in 1 .. l - n : rest[i] = bytes[n + i]
  BY DropFacts
<1>3. DOMAIN rest = 1 .. l - n
  BY <1>2
<1>4. DOMAIN bytes = 1 .. l /\ l = Len(bytes)
  OBVIOUS
<1>5. /\ next \in [DOMAIN frames -> Nat]
      /\ \A k \in DOMAIN frames : next[k] = at[k] - n /\ at[k] \in Nat /\ n <= at[k]
  OBVIOUS
<1>6. \A k \in DOMAIN frames : Len(frames[k]) \in Nat /\ DOMAIN frames[k] = 1 .. Len(frames[k])
  <2>1. \A k \in DOMAIN frames : frames[k] \in Frame
    OBVIOUS
  <2> QED BY <2>1, FrameShape
<1> HIDE DEF l, rest, next
<1>7. ASSUME NEW k \in DOMAIN frames
      PROVE  /\ next[k] + Len(frames[k]) <= Len(rest)
             /\ \A j \in DOMAIN frames[k] : rest[next[k] + j] = frames[k][j]
  <2> DEFINE a == at[k]
             m == Len(frames[k])
             f == frames[k]
  <2>1. /\ a + m <= l
        /\ \A j \in DOMAIN f : bytes[a + j] = f[j]
    BY <1>4 DEF LiesAt
  <2>2. next[k] = a - n /\ a \in Nat /\ n <= a /\ m \in Nat /\ DOMAIN f = 1 .. m
    BY <1>5, <1>6
  <2> HIDE DEF a, m, f
  <2>3. (a - n) + m <= Len(rest)
    BY <1>1, <1>2, <2>1, <2>2
  <2>4. ASSUME NEW j \in DOMAIN f
        PROVE  rest[(a - n) + j] = f[j]
    <3>1. (a - n) + j \in 1 .. l - n /\ n + ((a - n) + j) = a + j
      BY <1>1, <2>1, <2>2
    <3>2. rest[(a - n) + j] = bytes[n + ((a - n) + j)]
      BY <3>1, <1>2
    <3> QED BY <3>1, <3>2, <2>1
  <2> QED BY <2>2, <2>3, <2>4 DEF m, f
<1>8. ASSUME NEW k \in DOMAIN frames, NEW m \in DOMAIN frames, k < m
      PROVE  next[k] + Len(frames[k]) <= next[m]
  <2>1. at[k] + Len(frames[k]) <= at[m]
    BY <1>8 DEF LiesAt
  <2> QED BY <2>1, <1>1, <1>5, <1>6
<1>9. ASSUME NEW i \in DOMAIN rest, IsMagic(rest, i)
      PROVE  \E k \in DOMAIN frames : next[k] < i /\ i < next[k] + Len(frames[k])
  <2>1. /\ i \in 1 .. l - n /\ i < l - n
        /\ rest[i] = Magic[1] /\ rest[i + 1] = Magic[2]
    BY <1>2, <1>3, <1>9 DEF IsMagic
  <2>0. i \in 1 .. l - n /\ i < l - n /\ l \in Nat /\ n \in Nat
    BY <2>1, <1>1
  <2>2. /\ i + 1 \in 1 .. l - n /\ n + i \in 1 .. l /\ n + i < l
        /\ n + (i + 1) = (n + i) + 1
    BY <2>0
  <2>3. bytes[n + i] = Magic[1] /\ bytes[(n + i) + 1] = Magic[2]
    BY <2>1, <2>2, <1>2
  <2>4. IsMagic(bytes, n + i)
    BY <2>2, <2>3, <1>4 DEF IsMagic
  <2>5. PICK k \in DOMAIN frames : at[k] < n + i /\ n + i < at[k] + Len(frames[k])
    BY <2>2, <2>4, <1>4 DEF LiesAt
  <2>6. next[k] < i /\ i < next[k] + Len(frames[k])
    BY <2>1, <2>5, <1>1, <1>5, <1>6
  <2> QED BY <2>6
<1>10. LiesAt(rest, frames, next)
  BY <1>7, <1>8, <1>9 DEF LiesAt
<1> QED BY <1>5, <1>10 DEF Carries, rest

\* Without their first frame, the bytes carry the others.
LEMMA CarriesTheOthers ==
  ASSUME NEW bytes \in Seq(Byte), NEW frames \in Seq(Frame), frames # << >>,
         NEW at \in [DOMAIN frames -> Nat], LiesAt(bytes, frames, at), at[1] = 0
  PROVE  Carries(SubSeq(bytes, Len(frames[1]) + 1, Len(bytes)), Tail(frames))
<1> DEFINE l == Len(bytes)
           n == Len(frames[1])
           q == Len(frames)
           rest == SubSeq(bytes, n + 1, Len(bytes))
           others == Tail(frames)
           next == [k \in 1 .. q - 1 |-> at[k + 1] - n]
<1>1. l \in Nat /\ q \in Nat /\ q > 0 /\ DOMAIN frames = 1 .. q
  OBVIOUS
<1>2. n \in Nat /\ n <= l
  <2>1. 1 \in DOMAIN frames /\ frames[1] \in Frame
    OBVIOUS
  <2>2. at[1] + Len(frames[1]) <= Len(bytes)
    BY <2>1 DEF LiesAt
  <2>3. Len(frames[1]) \in Nat /\ Len(bytes) \in Nat
    BY <2>1, FrameShape
  <2> QED BY <2>2, <2>3
<1> HIDE DEF n
<1>3. rest \in Seq(Byte) /\ Len(rest) = l - n /\ \A i \in 1 .. l - n : rest[i] = bytes[n + i]
  <2>1. n \in 0 .. Len(bytes)
    BY <1>1, <1>2
  <2> QED BY <2>1, DropFacts
<1>4. DOMAIN rest = 1 .. l - n
  BY <1>3
<1>5. DOMAIN bytes = 1 .. l /\ l = Len(bytes)
  OBVIOUS
<1>6. /\ others \in Seq(Frame) /\ DOMAIN others = 1 .. q - 1
      /\ \A k \in 1 .. q - 1 : others[k] = frames[k + 1]
  OBVIOUS
<1>7. \A k \in 1 .. q : Len(frames[k]) \in Nat /\ DOMAIN frames[k] = 1 .. Len(frames[k])
  <2>1. \A k \in 1 .. q : frames[k] \in Frame
    OBVIOUS
  <2> QED BY <2>1, FrameShape
<1> HIDE DEF q
<1>8. \A k \in 1 .. q : at[k] \in Nat /\ (k > 1 => n <= at[k])
  <2>1. \A k \in 1 .. q : at[k] \in Nat
    BY <1>1
  <2>2. ASSUME NEW k \in 1 .. q, k > 1
        PROVE  n <= at[k]
    <3>1. 1 \in 1 .. q /\ 1 < k
      BY <1>1, <2>2
    <3>2. at[1] + n <= at[k]
      BY <3>1, <1>1 DEF LiesAt, n
    <3>3. at[1] + n = n
      BY <1>2
    <3> QED BY <3>2, <3>3
  <2> QED BY <2>1, <2>2
<1>9. /\ next \in [1 .. q - 1 -> Nat]
      /\ \A k \in 1 .. q - 1 : /\ next[k] = at[k + 1] - n
                               /\ at[k + 1] \in Nat /\ n <= at[k + 1]
                               /\ k + 1 \in 1 .. q /\ k + 1 # 1
  <2>1. \A k \in 1 .. q - 1 : k + 1 \in 1 .. q /\ k + 1 > 1 /\ k + 1 # 1
    BY <1>1
  <2>2. \A k \in 1 .. q - 1 : at[k + 1] \in Nat /\ n <= at[k + 1]
    BY <2>1, <1>8
  <2> QED BY <2>1, <2>2, <1>2
<1> HIDE DEF l, rest, next, others
<1>10. ASSUME NEW k \in 1 .. q - 1
       PROVE  /\ next[k] + Len(others[k]) <= Len(rest)
              /\ \A j \in DOMAIN others[k] : rest[next[k] + j] = others[k][j]
  <2> DEFINE a == at[k + 1]
             m == Len(others[k])
             f == others[k]
  <2>1. k + 1 \in 1 .. q /\ f = frames[k + 1]
    BY <1>6, <1>9
  <2>2. /\ a + m <= l
        /\ \A j \in DOMAIN f : bytes[a + j] = f[j]
    <3>1. \A i \in DOMAIN frames :
            /\ at[i] + Len(frames[i]) <= Len(bytes)
            /\ \A j \in DOMAIN frames[i] : bytes[at[i] + j] = frames[i][j]
      BY DEF LiesAt
    <3>2. k + 1 \in DOMAIN frames
      BY <2>1, <1>1
    <3>3. /\ at[k + 1] + Len(frames[k + 1]) <= Len(bytes)
          /\ \A j \in DOMAIN frames[k + 1] : bytes[at[k + 1] + j] = frames[k + 1][j]
      BY <3>1, <3>2
    <3> QED BY <3>3, <2>1, <1>5
  <2>3. next[k] = a - n /\ a \in Nat /\ n <= a /\ m \in Nat /\ DOMAIN f = 1 .. m
    BY <2>1, <1>7, <1>9
  <2> HIDE DEF a, m, f
  <2>4. (a - n) + m <= Len(rest)
    BY <1>1, <1>2, <1>3, <2>2, <2>3
  <2>5. ASSUME NEW j \in DOMAIN f
        PROVE  rest[(a - n) + j] = f[j]
    <3>0. a \in Nat /\ n <= a /\ m \in Nat /\ j \in 1 .. m /\ l \in Nat /\ n \in Nat /\ a + m <= l
      BY <1>1, <1>2, <2>2, <2>3
    <3>1. (a - n) + j \in 1 .. l - n /\ n + ((a - n) + j) = a + j
      BY <3>0
    <3>2. rest[(a - n) + j] = bytes[n + ((a - n) + j)]
      BY <3>1, <1>3
    <3> QED BY <3>1, <3>2, <2>2
  <2> QED BY <2>3, <2>4, <2>5 DEF m, f
<1>11. ASSUME NEW k \in 1 .. q - 1, NEW m \in 1 .. q - 1, k < m
       PROVE  next[k] + Len(others[k]) <= next[m]
  <2>1. k + 1 \in 1 .. q /\ m + 1 \in 1 .. q /\ k + 1 < m + 1
    BY <1>9, <1>11
  <2>2. at[k + 1] + Len(frames[k + 1]) <= at[m + 1]
    BY <2>1, <1>1 DEF LiesAt
  <2>3. Len(others[k]) = Len(frames[k + 1]) /\ Len(frames[k + 1]) \in Nat
    BY <2>1, <1>6, <1>7
  <2> DEFINE a == at[k + 1]
             b == at[m + 1]
             size == Len(others[k])
  <2>4. a \in Nat /\ b \in Nat /\ next[k] = a - n /\ next[m] = b - n
    BY <1>9
  <2>5. size \in Nat /\ a + size <= b
    BY <2>2, <2>3
  <2>6. n \in Nat
    BY <1>2
  <2>7. next[k] + size <= next[m]
    <3> HIDE DEF a, b, size
    <3>1. (a - n) + size <= b - n
      BY <2>4, <2>5, <2>6
    <3> QED BY <2>4, <3>1
  <2> QED BY <2>7
<1>12. ASSUME NEW i \in DOMAIN rest, IsMagic(rest, i)
       PROVE  \E k \in 1 .. q - 1 : next[k] < i /\ i < next[k] + Len(others[k])
  <2>1. /\ i \in 1 .. l - n /\ i < l - n
        /\ rest[i] = Magic[1] /\ rest[i + 1] = Magic[2]
    BY <1>3, <1>4, <1>12 DEF IsMagic
  <2>0. i \in 1 .. l - n /\ i < l - n /\ l \in Nat /\ n \in Nat
    BY <2>1, <1>1, <1>2
  <2>2. /\ i + 1 \in 1 .. l - n /\ n + i \in 1 .. l /\ n + i < l
        /\ n + (i + 1) = (n + i) + 1
    BY <2>0
  <2>3. bytes[n + i] = Magic[1] /\ bytes[(n + i) + 1] = Magic[2]
    BY <2>1, <2>2, <1>3
  <2>4. IsMagic(bytes, n + i)
    BY <2>2, <2>3, <1>5 DEF IsMagic
  <2>5. PICK k \in 1 .. q : at[k] < n + i /\ n + i < at[k] + Len(frames[k])
    BY <2>2, <2>4, <1>1, <1>5 DEF LiesAt
  <2>6. k # 1
    <3>1. n + i \in Nat /\ ~(n + i < 0 + n)
      BY <2>1, <1>2
    <3> QED BY <3>1, <2>5 DEF n
  <2>7. k - 1 \in 1 .. q - 1 /\ (k - 1) + 1 = k
    BY <2>6, <1>1
  <2>8. next[k - 1] = at[k] - n /\ others[k - 1] = frames[k]
    BY <2>7, <1>6, <1>9
  <2>9. next[k - 1] < i /\ i < next[k - 1] + Len(others[k - 1])
    BY <2>1, <2>5, <2>6, <2>8, <1>2, <1>7, <1>8
  <2> QED BY <2>7, <2>9
<1>13. LiesAt(rest, others, next)
  BY <1>6, <1>10, <1>11, <1>12 DEF LiesAt
<1> QED BY <1>6, <1>9, <1>13 DEF Carries, rest, others, n
-----------------------------------------------------------------------------
(* What next_frame_action says of the buffer.                              *)

\* Noise is dropped up to the first magic, or to the last byte, which may be half
\* of one.
LEMMA NoiseLengthFacts ==
  ASSUME NEW bytes \in Seq(Byte), Len(bytes) > 1, ~IsMagic(bytes, 1)
  PROVE  /\ NoiseLength(bytes) \in 0 .. Len(bytes) - 1
         /\ \A i \in DOMAIN bytes : IsMagic(bytes, i) => NoiseLength(bytes) < i
<1> DEFINE starts == {i \in 2 .. Len(bytes) : IsMagic(bytes, i)}
           m == Len(bytes)
<1>1. m \in Nat /\ m > 1 /\ DOMAIN bytes = 1 .. m /\ starts \in SUBSET Nat
  OBVIOUS
<1>2. \A i \in DOMAIN bytes : IsMagic(bytes, i) => i \in starts
  <2> SUFFICES ASSUME NEW i \in 1 .. m, IsMagic(bytes, i)
               PROVE  i \in 2 .. m
    BY <1>1
  <2>1. i # 1
    OBVIOUS
  <2> HIDE DEF m
  <2> QED BY <2>1, <1>1
<1>3. \A i \in starts : i \in 2 .. m
  OBVIOUS
<1>4. CASE starts = {}
  <2>1. NoiseLength(bytes) = m - 1
    BY <1>4 DEF NoiseLength
  <2> HIDE DEF m, starts
  <2> QED BY <2>1, <1>1, <1>2, <1>4 DEF m
<1>5. CASE starts # {}
  <2> DEFINE first == CHOOSE i \in starts : \A j \in starts : i <= j
  <2>1. NoiseLength(bytes) = first - 1
    BY <1>5 DEF NoiseLength
  <2> HIDE DEF starts
  <2>2. \E i \in starts : \A j \in starts : i <= j
    BY <1>1, <1>5, LeastNatural
  <2>3. first \in starts /\ \A j \in starts : first <= j
    BY <2>2
  <2> HIDE DEF first, m
  <2>4. first \in 2 .. m
    BY <1>3, <2>3
  <2>5. first - 1 \in 0 .. m - 1
    BY <1>1, <2>4
  <2>6. ASSUME NEW i \in DOMAIN bytes, IsMagic(bytes, i)
        PROVE  first - 1 < i
    <3>1. first <= i /\ i \in Nat
      BY <2>6, <1>1, <1>2, <2>3
    <3> QED BY <3>1, <2>4
  <2> QED BY <2>1, <2>5, <2>6 DEF m
<1> QED BY <1>4, <1>5

\* What each answer of next_frame_action means.
LEMMA NextActionFacts ==
  ASSUME NEW bytes \in Seq(Byte), Len(bytes) <= MaxFrame
  PROVE  LET next == NextAction(bytes)
         IN  /\ next.do = "DropPrefix" =>
                  Len(bytes) > 1 /\ ~IsMagic(bytes, 1) /\ next.length = NoiseLength(bytes)
             /\ next.do = "Reject" =>
                  /\ Len(bytes) > 2 /\ IsMagic(bytes, 1) /\ bytes[3] > MaxPayload
                  /\ next.length \in 0 .. Len(bytes)
             /\ next.do = "Process" =>
                  /\ Len(bytes) > 2 /\ IsMagic(bytes, 1)
                  /\ next.length = 4 + bytes[3] /\ next.length \in 4 .. Len(bytes)
             /\ next.do \in {"NeedMore", "None"} => Len(bytes) < MaxFrame
<1> DEFINE m == Len(bytes)
           p == bytes[3]
<1>1. m \in Nat /\ m <= MaxFrame /\ (bytes = << >> <=> m = 0) /\ m = Len(bytes)
  OBVIOUS
<1>2. MaxPayload \in Nat /\ MaxFrame = 4 + MaxPayload
  BY StreamConstants
<1>3. m > 2 => p \in Nat
  <2>1. m > 2 => p \in Byte
    OBVIOUS
  <2> QED BY <2>1, StreamConstants
<1>4. NextAction(bytes) =
        IF bytes = << >> THEN [do |-> "None"]
        ELSE IF m < 2 THEN [do |-> "NeedMore"]
        ELSE IF ~IsMagic(bytes, 1) THEN [do |-> "DropPrefix", length |-> NoiseLength(bytes)]
        ELSE IF m < 3 THEN [do |-> "NeedMore"]
        ELSE IF p > MaxPayload
             THEN [do |-> "Reject", length |-> IF m < 4 THEN m ELSE 4]
        ELSE IF m < 4 + p THEN [do |-> "NeedMore"]
        ELSE [do |-> "Process", length |-> 4 + p]
  BY DEF NextAction, HeaderLength, Overhead, PayloadLength
<1> DEFINE next == NextAction(bytes)
<1> HIDE DEF m, p
<1>5. CASE bytes = << >>
  <2>1. next.do = "None"
    BY <1>4, <1>5
  <2>2. m < MaxFrame
    BY <1>1, <1>2, <1>5
  <2> QED BY <2>1, <2>2, <1>1
<1>6. CASE bytes # << >> /\ m < 2
  <2>1. next.do = "NeedMore"
    BY <1>4, <1>6
  <2>2. m < MaxFrame
    BY <1>1, <1>2, <1>6
  <2> QED BY <2>1, <2>2, <1>1
<1>7. CASE bytes # << >> /\ ~(m < 2) /\ ~IsMagic(bytes, 1)
  <2>1. next.do = "DropPrefix" /\ next.length = NoiseLength(bytes)
    BY <1>4, <1>7
  <2>2. m > 1
    BY <1>1, <1>7
  <2> QED BY <2>1, <2>2, <1>1, <1>7
<1>8. CASE bytes # << >> /\ ~(m < 2) /\ IsMagic(bytes, 1) /\ m < 3
  <2>1. next.do = "NeedMore"
    BY <1>4, <1>8
  <2>2. m < MaxFrame
    BY <1>1, <1>2, <1>8
  <2> QED BY <2>1, <2>2, <1>1
<1>9. CASE bytes # << >> /\ ~(m < 2) /\ IsMagic(bytes, 1) /\ ~(m < 3) /\ p > MaxPayload
  <2>1. next.do = "Reject" /\ next.length = IF m < 4 THEN m ELSE 4
    BY <1>4, <1>9
  <2>2. m > 2 /\ next.length \in 0 .. m
    BY <2>1, <1>1, <1>9
  <2> QED BY <2>1, <2>2, <1>1, <1>9 DEF p
<1>10. CASE /\ bytes # << >> /\ ~(m < 2) /\ IsMagic(bytes, 1) /\ ~(m < 3)
            /\ ~(p > MaxPayload) /\ m < 4 + p
  <2>1. next.do = "NeedMore"
    BY <1>4, <1>10
  <2>2. m < MaxFrame
    BY <1>1, <1>2, <1>3, <1>10
  <2> QED BY <2>1, <2>2, <1>1
<1>11. CASE /\ bytes # << >> /\ ~(m < 2) /\ IsMagic(bytes, 1) /\ ~(m < 3)
            /\ ~(p > MaxPayload) /\ ~(m < 4 + p)
  <2>1. next.do = "Process" /\ next.length = 4 + p
    BY <1>4, <1>11
  <2>2. m > 2 /\ 4 + p \in 4 .. m
    BY <1>1, <1>3, <1>11
  <2> QED BY <2>1, <2>2, <1>1, <1>11 DEF p
<1> QED BY <1>5, <1>6, <1>7, <1>8, <1>9, <1>10, <1>11

-----------------------------------------------------------------------------
(* The bytes under way.                                                    *)

\* The buffer is the beginning of what is under way.
LEMMA BufferComesFirst ==
  ASSUME StreamTypeOK
  PROVE  /\ UnderWay \in Seq(Byte)
         /\ UnderWay = buffer \o (packet \o line)
         /\ packet \o line \in Seq(Byte)
         /\ Len(buffer) \in Nat /\ Len(UnderWay) \in Nat /\ Len(buffer) <= Len(UnderWay)
         /\ \A i \in DOMAIN buffer : i \in DOMAIN UnderWay /\ UnderWay[i] = buffer[i]
<1>1. line \in Seq(Byte) /\ packet \in Seq(Byte) /\ buffer \in Seq(Byte)
  BY DEF StreamTypeOK
<1>2. UnderWay = buffer \o (packet \o line)
  BY <1>1, ConcatAssociative DEF UnderWay
<1> DEFINE rest == packet \o line
<1>3. rest \in Seq(Byte)
  BY <1>1
<1> HIDE DEF rest
<1> DEFINE all == buffer \o rest
<1>4. /\ all \in Seq(Byte) /\ Len(all) = Len(buffer) + Len(rest)
      /\ \A i \in 1 .. Len(buffer) : all[i] = buffer[i]
  BY <1>1, <1>3, ConcatFacts
<1>5. Len(buffer) \in Nat /\ Len(rest) \in Nat /\ DOMAIN buffer = 1 .. Len(buffer)
  BY <1>1, <1>3
<1> HIDE DEF all
<1>6. all = UnderWay
  BY <1>2 DEF all, rest
<1>7. Len(all) \in Nat /\ Len(buffer) <= Len(all) /\ DOMAIN all = 1 .. Len(all)
  BY <1>4, <1>5
<1>8. \A i \in DOMAIN buffer : i \in DOMAIN all /\ all[i] = buffer[i]
  BY <1>4, <1>5, <1>7
<1> QED BY <1>2, <1>3, <1>4, <1>5, <1>6, <1>7, <1>8 DEF rest

\* A magic in the buffer is one under way, and the other way round before its last
\* byte.
LEMMA BufferMagic ==
  ASSUME StreamTypeOK
  PROVE  /\ \A i \in DOMAIN buffer : IsMagic(buffer, i) => IsMagic(UnderWay, i)
         /\ \A i \in DOMAIN buffer :
              i < Len(buffer) /\ IsMagic(UnderWay, i) => IsMagic(buffer, i)
<1> DEFINE all == UnderWay
           m == Len(buffer)
           l == Len(all)
<1>1. /\ m \in Nat /\ l \in Nat /\ m <= l
      /\ \A i \in DOMAIN buffer : all[i] = buffer[i]
  BY BufferComesFirst
<1>2. DOMAIN buffer = 1 .. m
  BY DEF StreamTypeOK
<1> HIDE DEF all, m, l
<1>3. ASSUME NEW i \in 1 .. m, i < m
      PROVE  all[i] = buffer[i] /\ all[i + 1] = buffer[i + 1] /\ i < l
  <2>1. i + 1 \in 1 .. m /\ i < l
    BY <1>1, <1>3
  <2> QED BY <2>1, <1>1, <1>2
<1>4. ASSUME NEW i \in DOMAIN buffer, IsMagic(buffer, i)
      PROVE  IsMagic(UnderWay, i)
  <2>1. i \in 1 .. m /\ i < m
    BY <1>2, <1>4 DEF IsMagic, m
  <2>2. all[i] = Magic[1] /\ all[i + 1] = Magic[2] /\ i < l
    BY <2>1, <1>3, <1>4 DEF IsMagic
  <2> QED BY <2>2 DEF IsMagic, all, l
<1>5. ASSUME NEW i \in DOMAIN buffer, i < Len(buffer), IsMagic(UnderWay, i)
      PROVE  IsMagic(buffer, i)
  <2>1. i \in 1 .. m /\ i < m
    BY <1>2, <1>5 DEF m
  <2>2. all[i] = Magic[1] /\ all[i + 1] = Magic[2]
    BY <1>5 DEF IsMagic, all
  <2>3. buffer[i] = Magic[1] /\ buffer[i + 1] = Magic[2]
    BY <2>1, <2>2, <1>3
  <2> QED BY <2>1, <2>3 DEF IsMagic, m
<1> QED BY <1>4, <1>5

\* What ShiftLeft leaves under way.
LEMMA ShiftLeftEffect ==
  ASSUME StreamTypeOK, NEW n \in 0 .. Len(buffer), ShiftLeft(n), UNCHANGED <<packet, line>>
  PROVE  /\ n \in 0 .. Len(UnderWay)
         /\ UnderWay' = SubSeq(UnderWay, n + 1, Len(UnderWay))
         /\ buffer' \in Seq(Byte) /\ Len(buffer') <= MaxFrame
<1> DEFINE rest == packet \o line
           left == SubSeq(buffer, n + 1, Len(buffer))
           m == Len(buffer)
<1>1. /\ line \in Seq(Byte) /\ packet \in Seq(Byte) /\ buffer \in Seq(Byte)
      /\ m <= MaxFrame /\ m \in Nat
  BY DEF StreamTypeOK
<1>2. /\ UnderWay = buffer \o rest /\ rest \in Seq(Byte)
      /\ Len(UnderWay) \in Nat /\ m <= Len(UnderWay)
  BY BufferComesFirst
<1>3. left \in Seq(Byte) /\ Len(left) = m - n
  BY <1>1, DropFacts
<1>4. buffer' = left
  BY DEF ShiftLeft
<1>5. UnderWay' = left \o rest
  <2>1. UnderWay' = (left \o packet) \o line
    BY <1>4 DEF UnderWay
  <2>2. left \in Seq(Byte)
    BY <1>3
  <2> HIDE DEF left
  <2>3. (left \o packet) \o line = left \o (packet \o line)
    BY <2>2, <1>1, ConcatAssociative
  <2> QED BY <2>1, <2>3
<1> HIDE DEF rest
<1>6. left \o rest = SubSeq(buffer \o rest, n + 1, Len(buffer \o rest))
  BY <1>1, <1>2, DropFromFront
<1>7. UnderWay' = SubSeq(UnderWay, n + 1, Len(UnderWay))
  BY <1>2, <1>5, <1>6
<1>8. n \in 0 .. Len(UnderWay)
  <2> HIDE DEF left
  <2> QED BY <1>1, <1>2
<1>9. Len(left) <= MaxFrame
  <2> HIDE DEF left, m
  <2>1. MaxFrame \in Nat /\ n \in Nat
    BY StreamConstants
  <2> QED BY <2>1, <1>1, <1>3
<1> QED BY <1>3, <1>4, <1>7, <1>8, <1>9

\* Where a frame lies, a magic begins.
LEMMA FrameBeginsWithMagic ==
  ASSUME NEW bytes \in Seq(Byte), NEW frames \in Seq(Frame),
         NEW at \in [DOMAIN frames -> Nat], LiesAt(bytes, frames, at),
         NEW k \in DOMAIN frames
  PROVE  at[k] + 1 \in DOMAIN bytes /\ IsMagic(bytes, at[k] + 1)
<1> DEFINE a == at[k]
           f == frames[k]
           l == Len(bytes)
           m == Len(f)
<1>1. a \in Nat /\ l \in Nat /\ DOMAIN bytes = 1 .. l /\ f \in Frame /\ l = Len(bytes)
  OBVIOUS
<1>2. a + m <= l /\ \A j \in DOMAIN f : bytes[a + j] = f[j]
  BY DEF LiesAt
<1> HIDE DEF a, f, l
<1>3. m \in Nat /\ m > 3 /\ f[1] = Magic[1] /\ f[2] = Magic[2] /\ DOMAIN f = 1 .. m
  BY <1>1, FrameShape, StreamConstants
<1> HIDE DEF m
<1>4. 1 \in DOMAIN f /\ 2 \in DOMAIN f
  BY <1>3
<1>5. bytes[a + 1] = Magic[1] /\ bytes[a + 2] = Magic[2]
  BY <1>2, <1>3, <1>4
<1>6. a + 1 \in 1 .. l /\ a + 1 < l /\ a + 2 = (a + 1) + 1
  BY <1>1, <1>2, <1>3
<1>7. IsMagic(bytes, a + 1)
  BY <1>1, <1>5, <1>6 DEF IsMagic
<1> QED BY <1>1, <1>6, <1>7 DEF a
-----------------------------------------------------------------------------
(* The host sends.                                                         *)

\* What is sent comes after what is under way.
LEMMA PutEffect ==
  ASSUME StreamTypeOK, NEW bytes \in Seq(Byte), Put(bytes)
  PROVE  /\ UnderWay' = UnderWay \o bytes
         /\ line' \in Seq(Byte) /\ units' \in 0 .. UnitLimit
<1>1. /\ line \in Seq(Byte) /\ packet \in Seq(Byte) /\ buffer \in Seq(Byte)
      /\ units \in 0 .. UnitLimit
  BY DEF StreamTypeOK
<1>2. /\ line' = line \o bytes /\ packet' = packet /\ buffer' = buffer
      /\ units < UnitLimit /\ units' = units + 1
  BY DEF Put
<1> DEFINE front == buffer \o packet
<1>3. front \in Seq(Byte)
  BY <1>1
<1>4. UnderWay = front \o line
  BY DEF UnderWay
<1>5. UnderWay' = front \o (line \o bytes)
  BY <1>2 DEF UnderWay
<1> HIDE DEF front
<1>6. (front \o line) \o bytes = front \o (line \o bytes)
  <2>1. front \in Seq(Byte) /\ line \in Seq(Byte) /\ bytes \in Seq(Byte)
    BY <1>1, <1>3
  <2> QED BY <2>1, ConcatAssociative
<1>7. line \o bytes \in Seq(Byte)
  BY <1>1
<1>8. units + 1 \in 0 .. UnitLimit
  BY <1>1, <1>2, StreamConstants
<1> QED BY <1>2, <1>4, <1>5, <1>6, <1>7, <1>8

\* A frame sent while the stream is clean, or with nothing under way that it could
\* become part of, is due after the others.
LEMMA SendFrameKeepsOnTrack ==
  ASSUME StreamOnTrack, NEW frame \in Frame, SendFrame(frame)
  PROVE  StreamOnTrack'
<1>1. StreamTypeOK /\ AppendMakesProgress /\ ~wrong /\ (~clean => due = << >>)
  BY DEF StreamOnTrack
<1>2. frame \in Seq(Byte)
  BY FrameShape
<1>3. Put(frame)
  BY DEF SendFrame
<1>4. /\ UnderWay' = UnderWay \o frame
      /\ line' \in Seq(Byte) /\ units' \in 0 .. UnitLimit
  BY <1>1, <1>2, <1>3, PutEffect
<1>5. UNCHANGED <<packet, buffer, draining, deadline, wrong>>
  BY <1>3 DEF Put
<1>6. /\ clean' = (clean \/ AtBoundary)
      /\ due' = IF clean' THEN Append(due, frame) ELSE due
  BY DEF SendFrame
<1>7. clean' \in BOOLEAN
  BY <1>1, <1>6 DEF StreamTypeOK
<1>8. due' \in Seq(Frame)
  <2>1. due \in Seq(Frame)
    BY <1>1 DEF StreamTypeOK
  <2>2. Append(due, frame) \in Seq(Frame)
    BY <2>1
  <2> QED BY <2>1, <2>2, <1>6
<1>9. StreamTypeOK'
  BY <1>1, <1>4, <1>5, <1>7, <1>8 DEF StreamTypeOK
<1>10. AppendMakesProgress'
  BY <1>1, <1>5 DEF AppendMakesProgress
<1>11. ~clean' => due' = << >>
  BY <1>1, <1>6
<1>12. ASSUME clean'
       PROVE  Carries(UnderWay, due)
  <2>1. CASE clean
    BY <2>1 DEF StreamOnTrack
  <2>2. CASE ~clean
    <3>1. due = << >> /\ AtBoundary
      BY <2>2, <1>1, <1>6, <1>12
    <3>2. UnderWay = buffer /\ Len(buffer) <= 1 /\ buffer \in Seq(Byte)
      <4>1. buffer \in Seq(Byte) /\ packet = << >> /\ line = << >> /\ Len(buffer) <= 1
        BY <3>1, <1>1 DEF StreamTypeOK, AtBoundary
      <4>2. buffer \o << >> = buffer
        BY <4>1, ConcatEmptySeq
      <4> QED BY <4>1, <4>2 DEF UnderWay
    <3> QED BY <3>1, <3>2, NothingLiesInAByte
  <2> QED BY <2>1, <2>2
<1>13. ASSUME clean'
       PROVE  Carries(UnderWay, due)'
  <2>1. UnderWay \in Seq(Byte) /\ due \in Seq(Frame)
    BY <1>1, BufferComesFirst DEF StreamTypeOK
  <2>2. Carries(UnderWay \o frame, Append(due, frame))
    BY <2>1, <1>12, <1>13, CarriesFrame
  <2>3. due' = Append(due, frame)
    BY <1>6, <1>13
  <2> QED BY <2>2, <2>3, <1>4
<1> QED BY <1>1, <1>5, <1>9, <1>10, <1>11, <1>13 DEF StreamOnTrack

\* Noise changes nothing for the frames under way.
LEMMA SendNoiseKeepsOnTrack ==
  ASSUME StreamOnTrack, NEW bytes \in Noise, SendNoise(bytes)
  PROVE  StreamOnTrack'
<1>1. StreamTypeOK /\ AppendMakesProgress /\ ~wrong /\ (~clean => due = << >>)
  BY DEF StreamOnTrack
<1>2. bytes \in Seq(Byte) /\ Put(bytes)
  BY StreamConstants DEF SendNoise
<1>3. /\ UnderWay' = UnderWay \o bytes
      /\ line' \in Seq(Byte) /\ units' \in 0 .. UnitLimit
  BY <1>1, <1>2, PutEffect
<1>4. UNCHANGED <<packet, buffer, draining, deadline, wrong, clean, due>>
  BY <1>2 DEF Put, SendNoise
<1>5. StreamTypeOK'
  BY <1>1, <1>3, <1>4 DEF StreamTypeOK
<1>6. AppendMakesProgress'
  BY <1>1, <1>4 DEF AppendMakesProgress
<1>7. ASSUME clean'
      PROVE  Carries(UnderWay, due)'
  <2>1. UnderWay \in Seq(Byte) /\ due \in Seq(Frame) /\ clean
    BY <1>1, <1>4, <1>7, BufferComesFirst DEF StreamTypeOK
  <2>2. Carries(UnderWay, due)
    BY <2>1 DEF StreamOnTrack
  <2>3. Carries(UnderWay \o bytes, due)
    BY <2>1, <2>2, CarriesNoise
  <2> QED BY <2>3, <1>3, <1>4
<1> QED BY <1>1, <1>4, <1>5, <1>6, <1>7 DEF StreamOnTrack

\* After garbage nothing is due.
LEMMA SendGarbageKeepsOnTrack ==
  ASSUME StreamOnTrack, NEW bytes \in Garbage, SendGarbage(bytes)
  PROVE  StreamOnTrack'
<1>1. StreamTypeOK /\ AppendMakesProgress /\ ~wrong
  BY DEF StreamOnTrack
<1>2. bytes \in Seq(Byte) /\ Put(bytes)
  BY StreamConstants DEF SendGarbage
<1>3. line' \in Seq(Byte) /\ units' \in 0 .. UnitLimit
  BY <1>1, <1>2, PutEffect
<1>4. /\ UNCHANGED <<packet, buffer, draining, deadline, wrong>>
      /\ clean' = FALSE /\ due' = << >>
  BY <1>2 DEF Put, SendGarbage
<1>5. << >> \in Seq(Frame)
  OBVIOUS
<1>6. StreamTypeOK'
  BY <1>1, <1>3, <1>4, <1>5 DEF StreamTypeOK
<1>7. AppendMakesProgress'
  BY <1>1, <1>4 DEF AppendMakesProgress
<1> QED BY <1>1, <1>4, <1>6, <1>7 DEF StreamOnTrack

-----------------------------------------------------------------------------
(* The device reads.                                                       *)

\* What leaves the same bytes under way, and the same frames due, keeps StreamOnTrack.
LEMMA SameUnderWay ==
  ASSUME StreamOnTrack, StreamTypeOK', AppendMakesProgress', UnderWay' = UnderWay,
         UNCHANGED <<clean, due, wrong>>
  PROVE  StreamOnTrack'
<1>1. ASSUME clean'
      PROVE  Carries(UnderWay, due)'
  <2>1. clean
    BY <1>1
  <2>2. Carries(UnderWay, due)
    BY <2>1 DEF StreamOnTrack
  <2> QED BY <2>2
<1> QED BY <1>1 DEF StreamOnTrack

\* Taking a packet off the line keeps the bytes under way.
LEMMA TakePacketKeepsOnTrack ==
  ASSUME StreamOnTrack, NEW n \in 1 .. PacketSize, TakePacket(n)
  PROVE  StreamOnTrack'
<1>1. StreamTypeOK /\ AppendMakesProgress
  BY DEF StreamOnTrack
<1>2. /\ line \in Seq(Byte) /\ buffer \in Seq(Byte) /\ packet = << >>
      /\ n \in 0 .. Len(line) /\ n \in Nat /\ n <= PacketSize
  BY <1>1, StreamConstants DEF StreamTypeOK, TakePacket
<1> DEFINE front == SubSeq(line, 1, n)
           rest == SubSeq(line, n + 1, Len(line))
<1>3. /\ packet' = front /\ line' = rest
      /\ UNCHANGED <<buffer, draining, deadline, units, clean, due, wrong>>
  BY DEF TakePacket
<1>4. front \in Seq(Byte) /\ Len(front) = n
  BY <1>2
<1>5. rest \in Seq(Byte)
  BY <1>2, DropFacts
<1>6. front \o rest = line
  BY <1>2, PartsRejoin
<1> HIDE DEF front, rest
<1>7. UnderWay = buffer \o line
  <2>1. buffer \o << >> = buffer
    BY <1>2, ConcatEmptySeq
  <2> QED BY <2>1, <1>2 DEF UnderWay
<1>8. UnderWay' = UnderWay
  <2>1. UnderWay' = (buffer \o front) \o rest
    BY <1>3 DEF UnderWay
  <2>2. (buffer \o front) \o rest = buffer \o (front \o rest)
    <3>1. buffer \in Seq(Byte) /\ front \in Seq(Byte) /\ rest \in Seq(Byte)
      BY <1>2, <1>4, <1>5
    <3> QED BY <3>1, ConcatAssociative
  <2> QED BY <2>1, <2>2, <1>6, <1>7
<1>9. StreamTypeOK'
  <2>1. packet' \in Seq(Byte) /\ line' \in Seq(Byte) /\ Len(packet') <= PacketSize
    BY <1>2, <1>3, <1>4, <1>5
  <2> QED BY <2>1, <1>1, <1>3 DEF StreamTypeOK
<1>10. AppendMakesProgress'
  BY <1>1, <1>3 DEF AppendMakesProgress
<1> QED BY <1>3, <1>8, <1>9, <1>10, SameUnderWay

\* So does moving as much of it to the buffer as there is room for, which does not
\* overflow.
LEMMA AppendChunkKeepsOnTrack ==
  ASSUME StreamOnTrack, AppendChunk
  PROVE  StreamOnTrack'
<1>1. StreamTypeOK
  BY DEF StreamOnTrack
<1> DEFINE size == Len(packet)
           m == Len(buffer)
           copied == IF Room < size THEN Room ELSE size
           front == SubSeq(packet, 1, copied)
           rest == SubSeq(packet, copied + 1, Len(packet))
<1>2. /\ line \in Seq(Byte) /\ packet \in Seq(Byte) /\ buffer \in Seq(Byte)
      /\ size \in Nat /\ size <= PacketSize /\ m \in Nat /\ m <= MaxFrame
  BY <1>1 DEF StreamTypeOK
<1>3. /\ buffer' = buffer \o front /\ packet' = rest /\ draining' = TRUE
      /\ UNCHANGED <<line, deadline, units, clean, due, wrong>>
  BY DEF AppendChunk
<1>4. copied \in 0 .. size /\ m + copied <= MaxFrame /\ copied \in Nat
  <2>1. Room = MaxFrame - m
    BY DEF Room
  <2> HIDE DEF size, m
  <2>2. CASE Room < size
    BY <2>1, <2>2, <1>2, StreamConstants
  <2>3. CASE ~(Room < size)
    BY <2>1, <2>3, <1>2, StreamConstants
  <2> QED BY <2>2, <2>3
<1> HIDE DEF copied
<1>5. front \in Seq(Byte) /\ Len(front) = copied
  BY <1>2, <1>4
<1>6. rest \in Seq(Byte) /\ Len(rest) = size - copied
  BY <1>2, <1>4, DropFacts
<1>7. front \o rest = packet
  BY <1>2, <1>4, PartsRejoin
<1> HIDE DEF front, rest
<1>8. buffer \o front \in Seq(Byte) /\ Len(buffer \o front) = Len(buffer) + Len(front)
  BY <1>2, <1>5, ConcatFacts
<1>9. UnderWay' = UnderWay
  <2>1. UnderWay' = ((buffer \o front) \o rest) \o line
    BY <1>3 DEF UnderWay
  <2>2. buffer \in Seq(Byte) /\ front \in Seq(Byte) /\ rest \in Seq(Byte)
    BY <1>2, <1>5, <1>6
  <2>3. (buffer \o front) \o rest = buffer \o (front \o rest)
    BY <2>2, ConcatAssociative
  <2> QED BY <2>1, <2>3, <1>7 DEF UnderWay
<1>10. Len(buffer') <= MaxFrame
  <2>1. Len(buffer') = m + copied
    BY <1>3, <1>5, <1>8
  <2> QED BY <2>1, <1>4
<1>11. Len(packet') <= PacketSize
  <2>1. Len(packet') = size - copied
    BY <1>3, <1>6
  <2> HIDE DEF size
  <2> QED BY <2>1, <1>2, <1>4, StreamConstants
<1>12. StreamTypeOK'
  BY <1>1, <1>3, <1>6, <1>8, <1>10, <1>11 DEF StreamTypeOK
<1>13. AppendMakesProgress'
  BY <1>3 DEF AppendMakesProgress
<1> QED BY <1>3, <1>9, <1>12, <1>13, SameUnderWay

\* No frame due begins in the noise that is dropped.
LEMMA DropPrefixKeepsOnTrack ==
  ASSUME StreamOnTrack, DropPrefix
  PROVE  StreamOnTrack'
<1>1. StreamTypeOK
  BY DEF StreamOnTrack
<1> DEFINE n == NoiseLength(buffer)
<1>2. buffer \in Seq(Byte) /\ Len(buffer) <= MaxFrame
  BY <1>1 DEF StreamTypeOK
<1>3. Len(buffer) > 1 /\ ~IsMagic(buffer, 1) /\ ShiftLeft(n)
  BY <1>2, NextActionFacts DEF DropPrefix
<1>4. /\ draining
      /\ UNCHANGED <<line, packet, draining, deadline, units, clean, due, wrong>>
  BY DEF DropPrefix
<1>5. /\ n \in 0 .. Len(buffer) - 1
      /\ \A i \in DOMAIN buffer : IsMagic(buffer, i) => n < i
  BY <1>2, <1>3, NoiseLengthFacts
<1> HIDE DEF n
<1>6. n \in 0 .. Len(buffer)
  BY <1>2, <1>5
<1>7. /\ n \in 0 .. Len(UnderWay)
      /\ UnderWay' = SubSeq(UnderWay, n + 1, Len(UnderWay))
      /\ buffer' \in Seq(Byte) /\ Len(buffer') <= MaxFrame
  BY <1>1, <1>3, <1>4, <1>6, ShiftLeftEffect
<1>8. StreamTypeOK' /\ AppendMakesProgress'
  BY <1>1, <1>4, <1>7 DEF StreamTypeOK, AppendMakesProgress
<1>9. ASSUME clean
      PROVE  Carries(SubSeq(UnderWay, n + 1, Len(UnderWay)), due)
  <2>1. PICK at \in [DOMAIN due -> Nat] : LiesAt(UnderWay, due, at)
    BY <1>9 DEF StreamOnTrack, Carries
  <2>2. UnderWay \in Seq(Byte) /\ due \in Seq(Frame)
    BY <1>1, BufferComesFirst DEF StreamTypeOK
  <2>3. ASSUME NEW k \in DOMAIN due
        PROVE  n <= at[k]
    <3>1. IsMagic(UnderWay, at[k] + 1) /\ at[k] \in Nat
      BY <2>1, <2>2, FrameBeginsWithMagic
    <3>2. CASE at[k] + 1 < Len(buffer)
      <4>1. at[k] + 1 \in DOMAIN buffer
        BY <3>1, <3>2, <1>2
      <4>2. IsMagic(buffer, at[k] + 1)
        BY <4>1, <3>1, <3>2, <1>1, BufferMagic
      <4>3. n < at[k] + 1
        BY <4>1, <4>2, <1>5
      <4> QED BY <4>3, <3>1, <1>5
    <3>3. CASE ~(at[k] + 1 < Len(buffer))
      <4>1. Len(buffer) \in Nat
        BY <1>2
      <4> QED BY <4>1, <3>1, <3>3, <1>5
    <3> QED BY <3>2, <3>3
  <2> QED BY <2>1, <2>2, <2>3, <1>7, CarriesLess
<1>10. ASSUME clean'
       PROVE  Carries(UnderWay, due)'
  BY <1>4, <1>7, <1>9, <1>10
<1> QED BY <1>4, <1>8, <1>10 DEF StreamOnTrack

\* A magic at the beginning of the buffer, while the stream is clean, is that of the
\* frame due next.
LEMMA MagicIsOfTheFrameDue ==
  ASSUME StreamTypeOK, NEW at \in [DOMAIN due -> Nat], LiesAt(UnderWay, due, at),
         IsMagic(buffer, 1), Len(buffer) > 2
  PROVE  /\ due # << >> /\ due[1] \in Frame /\ at[1] = 0
         /\ Len(due[1]) = 4 + buffer[3] /\ buffer[3] \in 0 .. MaxPayload
         /\ Len(due[1]) <= Len(buffer) => SubSeq(buffer, 1, Len(due[1])) = due[1]
<1>1. /\ buffer \in Seq(Byte) /\ due \in Seq(Frame) /\ Len(buffer) \in Nat
      /\ DOMAIN buffer = 1 .. Len(buffer)
  BY DEF StreamTypeOK
<1>2. \A k \in DOMAIN due : /\ due[k] \in Frame
                            /\ Len(due[k]) \in Nat /\ Len(due[k]) > 3
                            /\ DOMAIN due[k] = 1 .. Len(due[k])
  BY <1>1, FrameShape, StreamConstants
<1>3. /\ 1 \in DOMAIN UnderWay /\ IsMagic(UnderWay, 1)
      /\ \A i \in DOMAIN buffer : UnderWay[i] = buffer[i]
  <2>1. 1 \in DOMAIN buffer
    BY <1>1
  <2> QED BY <2>1, BufferMagic, BufferComesFirst
<1>4. PICK k \in DOMAIN due : at[k] < 1 /\ 1 < at[k] + Len(due[k])
  BY <1>3 DEF LiesAt
<1>5. at[k] = 0 /\ k \in Nat /\ k > 0 /\ 1 \in DOMAIN due /\ due # << >>
  BY <1>1, <1>4
<1>6. k = 1
  <2> SUFFICES ASSUME 1 < k PROVE FALSE
    BY <1>5
  <2>1. at[1] + Len(due[1]) <= at[k]
    BY <1>5 DEF LiesAt
  <2>2. at[1] \in Nat /\ Len(due[1]) \in Nat /\ Len(due[1]) > 3
    BY <1>2, <1>5
  <2> QED BY <2>1, <2>2, <1>5
<1> DEFINE f == due[1]
           size == Len(due[1])
           m == Len(buffer)
<1>7. f \in Frame /\ size \in Nat /\ size > 3 /\ DOMAIN f = 1 .. size /\ at[1] = 0
  BY <1>2, <1>5, <1>6
<1>8. f \in Seq(Byte) /\ f[3] \in 0 .. MaxPayload /\ size = 4 + f[3] /\ size = Len(f)
  BY <1>7, FrameShape
<1>9. \A j \in DOMAIN f : UnderWay[at[1] + j] = f[j]
  BY <1>5 DEF LiesAt
<1> HIDE DEF f, size, m
<1>10. \A j \in 1 .. size : UnderWay[j] = f[j]
  <2> SUFFICES ASSUME NEW j \in 1 .. size PROVE UnderWay[j] = f[j]
    OBVIOUS
  <2>1. at[1] + j = j
    BY <1>7
  <2> QED BY <2>1, <1>7, <1>9
<1>11. m \in Nat /\ m > 2 /\ DOMAIN buffer = 1 .. m /\ m = Len(buffer)
  BY <1>1 DEF m
<1>12. buffer[3] = f[3]
  <2>1. 3 \in 1 .. m /\ 3 \in 1 .. size
    BY <1>7, <1>11
  <2> QED BY <2>1, <1>3, <1>10, <1>11
<1>13. ASSUME size <= m
       PROVE  SubSeq(buffer, 1, size) = f
  <2> DEFINE front == SubSeq(buffer, 1, size)
  <2>1. front \in Seq(Byte) /\ Len(front) = size /\ \A j \in 1 .. size : front[j] = buffer[j]
    BY <1>1, <1>7, <1>11, <1>13
  <2>2. \A j \in 1 .. size : j \in 1 .. m
    BY <1>7, <1>11, <1>13
  <2>3. \A j \in 1 .. size : front[j] = f[j]
    BY <2>1, <2>2, <1>3, <1>10, <1>11
  <2> HIDE DEF front
  <2>4. front = f
    BY <2>1, <2>3, <1>8
  <2> QED BY <2>4 DEF front
<1> QED BY <1>5, <1>7, <1>8, <1>12, <1>13 DEF f, size, m

\* While the stream is clean, nothing is rejected.
LEMMA RejectKeepsOnTrack ==
  ASSUME StreamOnTrack, Reject
  PROVE  StreamOnTrack'
<1>1. StreamTypeOK
  BY DEF StreamOnTrack
<1> DEFINE n == NextAction(buffer).length
<1>2. buffer \in Seq(Byte) /\ Len(buffer) <= MaxFrame
  BY <1>1 DEF StreamTypeOK
<1>3. /\ Len(buffer) > 2 /\ IsMagic(buffer, 1) /\ buffer[3] > MaxPayload
      /\ n \in 0 .. Len(buffer)
  BY <1>2, NextActionFacts DEF Reject
<1>4. /\ draining /\ ShiftLeft(n)
      /\ UNCHANGED <<line, packet, draining, deadline, units, clean, due, wrong>>
  BY DEF Reject
<1> HIDE DEF n
<1>5. /\ buffer' \in Seq(Byte) /\ Len(buffer') <= MaxFrame
  BY <1>1, <1>3, <1>4, ShiftLeftEffect
<1>6. StreamTypeOK' /\ AppendMakesProgress'
  BY <1>1, <1>4, <1>5 DEF StreamTypeOK, AppendMakesProgress
<1>7. ~clean
  <2> SUFFICES ASSUME clean PROVE FALSE
    OBVIOUS
  <2>1. PICK at \in [DOMAIN due -> Nat] : LiesAt(UnderWay, due, at)
    BY DEF StreamOnTrack, Carries
  <2>2. buffer[3] \in 0 .. MaxPayload
    BY <2>1, <1>1, <1>3, MagicIsOfTheFrameDue
  <2> QED BY <2>2, <1>3, StreamConstants
<1> QED BY <1>4, <1>6, <1>7 DEF StreamOnTrack

\* While the stream is clean, the frame that is handed on is the one due.
LEMMA ProcessKeepsOnTrack ==
  ASSUME StreamOnTrack, Process
  PROVE  StreamOnTrack'
<1>1. StreamTypeOK /\ ~wrong
  BY DEF StreamOnTrack
<1> DEFINE n == NextAction(buffer).length
           frame == SubSeq(buffer, 1, n)
           isDue == due # << >> /\ Head(due) = frame
<1>2. buffer \in Seq(Byte) /\ Len(buffer) <= MaxFrame /\ due \in Seq(Frame)
  BY <1>1 DEF StreamTypeOK
<1>3. /\ Len(buffer) > 2 /\ IsMagic(buffer, 1)
      /\ n = 4 + buffer[3] /\ n \in 4 .. Len(buffer)
  BY <1>2, NextActionFacts DEF Process
<1>4. /\ draining /\ ShiftLeft(n)
      /\ due' = IF IsIntact(frame) /\ isDue THEN Tail(due) ELSE due
      /\ wrong' = (wrong \/ (clean /\ ~(IsIntact(frame) /\ isDue)))
      /\ UNCHANGED <<line, packet, draining, deadline, units, clean>>
  BY DEF Process
<1> HIDE DEF n
<1>5. n \in 0 .. Len(buffer)
  BY <1>2, <1>3
<1>6. /\ n \in 0 .. Len(UnderWay)
      /\ UnderWay' = SubSeq(UnderWay, n + 1, Len(UnderWay))
      /\ buffer' \in Seq(Byte) /\ Len(buffer') <= MaxFrame
  BY <1>1, <1>4, <1>5, ShiftLeftEffect
<1>7. due' \in Seq(Frame)
  <2>1. due # << >> => Tail(due) \in Seq(Frame)
    BY <1>2
  <2> QED BY <2>1, <1>2, <1>4
<1>8. CASE clean
  <2>1. PICK at \in [DOMAIN due -> Nat] : LiesAt(UnderWay, due, at)
    BY <1>8 DEF StreamOnTrack, Carries
  <2>2. /\ due # << >> /\ due[1] \in Frame /\ at[1] = 0
        /\ Len(due[1]) = 4 + buffer[3]
        /\ Len(due[1]) <= Len(buffer) => SubSeq(buffer, 1, Len(due[1])) = due[1]
    BY <2>1, <1>1, <1>3, MagicIsOfTheFrameDue
  <2>3. Len(due[1]) = n
    BY <2>2, <1>3
  <2>4. Head(due) = due[1]
    BY <2>2, <1>2
  <2>5. frame = due[1]
    BY <2>2, <2>3, <1>2, <1>3
  <2>6. IsIntact(frame) /\ isDue
    BY <2>2, <2>4, <2>5, FrameShape
  <2> HIDE DEF frame, isDue
  <2>7. due' = Tail(due) /\ ~wrong' /\ wrong' \in BOOLEAN /\ clean'
    BY <2>6, <1>1, <1>4, <1>8
  <2>8. UnderWay \in Seq(Byte)
    BY <1>1, BufferComesFirst
  <2>9. Carries(SubSeq(UnderWay, Len(due[1]) + 1, Len(UnderWay)), Tail(due))
    BY <2>1, <2>2, <2>8, <1>2, CarriesTheOthers
  <2>10. Carries(UnderWay, due)'
    BY <2>3, <2>7, <2>9, <1>6
  <2>11. StreamTypeOK' /\ AppendMakesProgress'
    BY <2>7, <1>1, <1>4, <1>6, <1>7 DEF StreamTypeOK, AppendMakesProgress
  <2> QED BY <2>7, <2>10, <2>11 DEF StreamOnTrack
<1>9. CASE ~clean
  <2>1. due = << >>
    BY <1>9 DEF StreamOnTrack
  <2>2. ~isDue
    BY <2>1
  <2> HIDE DEF frame, isDue
  <2>3. due' = << >> /\ ~wrong' /\ wrong' \in BOOLEAN /\ ~clean'
    BY <2>1, <2>2, <1>1, <1>4, <1>9
  <2>4. StreamTypeOK' /\ AppendMakesProgress'
    BY <2>3, <1>1, <1>4, <1>6, <1>7 DEF StreamTypeOK, AppendMakesProgress
  <2> QED BY <2>3, <2>4 DEF StreamOnTrack
<1> QED BY <1>8, <1>9

\* Drained, the buffer has room for more.
LEMMA NeedMoreKeepsOnTrack ==
  ASSUME StreamOnTrack, NeedMore
  PROVE  StreamOnTrack'
<1>1. StreamTypeOK
  BY DEF StreamOnTrack
<1>2. /\ NextAction(buffer).do \in {"NeedMore", "None"}
      /\ draining' = FALSE /\ deadline' = NoteProgress
      /\ UNCHANGED <<line, packet, buffer, units, clean, due, wrong>>
  BY DEF NeedMore
<1>3. buffer \in Seq(Byte) /\ Len(buffer) <= MaxFrame
  BY <1>1 DEF StreamTypeOK
<1>4. Len(buffer) < MaxFrame
  BY <1>2, <1>3, NextActionFacts
<1>5. deadline' \in -1 .. Timeout
  BY <1>2, StreamConstants DEF NoteProgress
<1>6. StreamTypeOK' /\ AppendMakesProgress'
  BY <1>1, <1>2, <1>4, <1>5 DEF StreamTypeOK, AppendMakesProgress
<1>7. UnderWay' = UnderWay
  BY <1>2 DEF UnderWay
<1> QED BY <1>2, <1>6, <1>7, SameUnderWay

-----------------------------------------------------------------------------
(* Time passes.                                                            *)

LEMMA TickKeepsOnTrack ==
  ASSUME StreamOnTrack, Tick
  PROVE  StreamOnTrack'
<1>1. StreamTypeOK /\ AppendMakesProgress
  BY DEF StreamOnTrack
<1>2. /\ deadline > 0 /\ deadline' = deadline - 1
      /\ UNCHANGED <<line, packet, buffer, draining, units, clean, due, wrong>>
  BY DEF Tick
<1>3. deadline' \in -1 .. Timeout
  <2>1. deadline \in -1 .. Timeout
    BY <1>1 DEF StreamTypeOK
  <2> QED BY <2>1, <1>2, StreamConstants
<1>4. StreamTypeOK' /\ AppendMakesProgress'
  BY <1>1, <1>2, <1>3 DEF StreamTypeOK, AppendMakesProgress
<1>5. UnderWay' = UnderWay
  BY <1>2 DEF UnderWay
<1> QED BY <1>2, <1>4, <1>5, SameUnderWay

\* With the partial frame gone, nothing is under way.
LEMMA ExpireKeepsOnTrack ==
  ASSUME StreamOnTrack, Expire
  PROVE  StreamOnTrack'
<1>1. StreamTypeOK /\ ~wrong
  BY DEF StreamOnTrack
<1>2. /\ ~draining /\ packet = << >> /\ line = << >>
      /\ buffer' = << >> /\ deadline' = -1 /\ clean' = TRUE /\ due' = << >>
      /\ UNCHANGED <<line, packet, draining, units, wrong>>
  BY DEF Expire, IsWaiting
<1>3. << >> \in Seq(Byte) /\ << >> \in Seq(Frame) /\ Len(<< >>) = 0
  OBVIOUS
<1>4. MaxFrame \in Nat /\ 0 < MaxFrame /\ -1 \in -1 .. Timeout
  BY StreamConstants
<1>5. StreamTypeOK' /\ AppendMakesProgress'
  <2>1. buffer' \in Seq(Byte) /\ Len(buffer') = 0 /\ due' \in Seq(Frame)
    BY <1>2, <1>3
  <2> QED BY <2>1, <1>1, <1>2, <1>4 DEF StreamTypeOK, AppendMakesProgress
<1>6. UnderWay' = << >>
  <2>1. << >> \o << >> = << >>
    BY <1>3, ConcatEmptySeq
  <2> QED BY <2>1, <1>2 DEF UnderWay
<1>7. Carries(UnderWay, due)'
  <2>1. Carries(<< >>, << >>)
    <3>1. Len(<< >>) <= 1
      BY <1>3
    <3> QED BY <3>1, <1>3, NothingLiesInAByte
  <2> QED BY <2>1, <1>2, <1>6
<1> QED BY <1>1, <1>2, <1>5, <1>7 DEF StreamOnTrack

-----------------------------------------------------------------------------
\* At first nothing is under way and nothing is due.
LEMMA StreamStartsOnTrack == StreamInit => StreamOnTrack
<1> SUFFICES ASSUME StreamInit PROVE StreamOnTrack
  OBVIOUS
<1>1. << >> \in Seq(Byte) /\ << >> \in Seq(Frame) /\ Len(<< >>) = 0
  OBVIOUS
<1>2. /\ MaxFrame \in Nat /\ 0 < MaxFrame /\ -1 \in -1 .. Timeout
      /\ 0 \in 0 .. UnitLimit /\ PacketSize \in Nat
  BY StreamConstants
<1>3. StreamTypeOK /\ AppendMakesProgress
  <2>1. /\ line = << >> /\ packet = << >> /\ buffer = << >> /\ due = << >>
        /\ deadline = -1 /\ units = 0
    BY DEF StreamInit
  <2>2. /\ {line, packet, buffer} \subseteq Seq(Byte) /\ due \in Seq(Frame)
        /\ Len(packet) = 0 /\ Len(buffer) = 0
    BY <2>1, <1>1
  <2>3. {draining, clean, wrong} \subseteq BOOLEAN
    BY DEF StreamInit
  <2>4. Len(packet) <= PacketSize /\ Len(buffer) <= MaxFrame /\ Len(buffer) < MaxFrame
    BY <2>2, <1>2
  <2> QED BY <2>1, <2>2, <2>3, <2>4, <1>2 DEF StreamTypeOK, AppendMakesProgress
<1>4. UnderWay = << >>
  <2>1. << >> \o << >> = << >>
    BY <1>1, ConcatEmptySeq
  <2> QED BY <2>1 DEF StreamInit, UnderWay
<1>5. Carries(<< >>, << >>)
  <2>1. Len(<< >>) <= 1
    BY <1>1
  <2> QED BY <2>1, <1>1, NothingLiesInAByte
<1> QED BY <1>3, <1>4, <1>5 DEF StreamInit, StreamOnTrack

\* Every step keeps the stream on track.
LEMMA StreamStaysOnTrack ==
  ASSUME StreamOnTrack, [StreamNext]_streamVars
  PROVE  StreamOnTrack'
<1>1. CASE \E frame \in Frame : SendFrame(frame)
  BY <1>1, SendFrameKeepsOnTrack
<1>2. CASE \E bytes \in Noise : SendNoise(bytes)
  BY <1>2, SendNoiseKeepsOnTrack
<1>3. CASE \E bytes \in Garbage : SendGarbage(bytes)
  BY <1>3, SendGarbageKeepsOnTrack
<1>4. CASE \E n \in 1 .. PacketSize : TakePacket(n)
  BY <1>4, TakePacketKeepsOnTrack
<1>5. CASE AppendChunk
  BY <1>5, AppendChunkKeepsOnTrack
<1>6. CASE DropPrefix
  BY <1>6, DropPrefixKeepsOnTrack
<1>7. CASE Reject
  BY <1>7, RejectKeepsOnTrack
<1>8. CASE Process
  BY <1>8, ProcessKeepsOnTrack
<1>9. CASE NeedMore
  BY <1>9, NeedMoreKeepsOnTrack
<1>10. CASE Tick
  BY <1>10, TickKeepsOnTrack
<1>11. CASE Expire
  BY <1>11, ExpireKeepsOnTrack
<1>12. CASE UNCHANGED streamVars
  <2>1. UNCHANGED <<line, packet, buffer, draining, deadline, units, clean, due, wrong>>
    BY <1>12 DEF streamVars
  <2>2. StreamTypeOK' /\ AppendMakesProgress'
    BY <2>1 DEF StreamOnTrack, StreamTypeOK, AppendMakesProgress
  <2>3. UnderWay' = UnderWay
    BY <2>1 DEF UnderWay
  <2> QED BY <2>1, <2>2, <2>3, SameUnderWay
<1> QED BY <1>1, <1>2, <1>3, <1>4, <1>5, <1>6, <1>7, <1>8, <1>9, <1>10, <1>11, <1>12
        DEF StreamNext, Receive

\* With nothing under way that a frame could be part of, no frame is due.
LEMMA OnTrackIsStreamInv == StreamOnTrack => StreamInv
<1> SUFFICES ASSUME StreamOnTrack PROVE StreamInv
  OBVIOUS
<1>1. StreamTypeOK /\ AppendMakesProgress /\ ~wrong
  BY DEF StreamOnTrack
<1>2. ASSUME clean, AtBoundary
      PROVE  due = << >>
  <2>1. buffer \in Seq(Byte) /\ packet = << >> /\ line = << >> /\ Len(buffer) <= 1
    BY <1>1, <1>2 DEF StreamTypeOK, AtBoundary
  <2>2. UnderWay = buffer
    <3>1. buffer \o << >> = buffer
      BY <2>1, ConcatEmptySeq
    <3> QED BY <3>1, <2>1 DEF UnderWay
  <2>3. Carries(UnderWay, due) /\ due \in Seq(Frame)
    BY <1>1, <1>2 DEF StreamOnTrack, StreamTypeOK
  <2> QED BY <2>1, <2>2, <2>3, NothingLiesInAByte
<1> QED BY <1>1, <1>2 DEF StreamInv, FramesComeThrough

\* However the host's bytes are cut into packets, and whatever noise is between the
\* frames, the buffer of cdc_receive_task neither overflows nor jams, and
\* next_frame_action finds each frame once and in order; after garbage it does so
\* again as soon as the receiver waits for nothing.  For every payload size, packet
\* size, check function and any noise without a magic.
THEOREM StreamIsRead == StreamSpec => []StreamInv
<1>1. StreamInit => StreamOnTrack
  BY StreamStartsOnTrack
<1>2. StreamOnTrack /\ [StreamNext]_streamVars => StreamOnTrack'
  BY StreamStaysOnTrack
<1>3. StreamOnTrack => StreamInv
  BY OnTrackIsStreamInv
<1> QED BY <1>1, <1>2, <1>3, PTL DEF StreamSpec
=============================================================================
