------------------------------ MODULE WebClient ------------------------------
(***************************************************************************)
(* `class SerialHidClient` of src/tools/webui/app.js, with the buttons and *)
(* browser events that call it.                                            *)
(*                                                                         *)
(* A step is one event of the browser with the promise callbacks that run  *)
(* before the next: a click, a timer, a promise of the serial port that is *)
(* settled.  Each of the latter may take for ever.  One SerialPort is      *)
(* there to choose; `generation` tells its sessions apart, which are       *)
(* numbered here as they open it.  Firmware and heartbeat interval are     *)
(* arbitrary.                                                              *)
(***************************************************************************)
EXTENDS Naturals, Sequences, SequencesExt

CONSTANTS
  SessionLimit,   \* bound: times the port is opened
  CommandLimit,   \* bound: commands the user sends
  LifecycleLimit, \* bound: connects and disconnects that wait
  Retries,        \* retries, 2 by default
  PatientUser     \* Connect is not clicked while a connect is under way

ASSUME WebClientAssumption ==
  /\ {SessionLimit, CommandLimit, LifecycleLimit} \subseteq Nat \ {0}
  /\ Retries \in Nat
  /\ PatientUser \in BOOLEAN

Session == 1 .. SessionLimit
Call == 1 .. CommandLimit

\* What may wait in a writeQueue: the frames of commands by their number, and
HeartbeatFrame == 0
StopFrame == CommandLimit + 1
Item == HeartbeatFrame .. StopFrame

VARIABLES
  current,       \* the session of port, writer and generation, or 0
  connected,     \* SerialHidClient::connected
  lifecycle,     \* lifecycleQueue: connects, and disconnects with what they captured
  phase,         \* how far the head of lifecycle has come
  disconnecting, \* disconnectTask
  opened,        \* how often the port was opened
  port,          \* the session that has the port open, or 0
  dtr,           \* the port's DTR
  cleaned,       \* sessions whose cleanupSession has ended
  queue,         \* writeQueue of each session; its head is being written
  allowStop,     \* sessions whose STOP_ALL may still be written
  stopped,       \* history: sessions that have begun to write STOP_ALL
  calls,         \* the commands: state, session, retriesRemaining and timers
  buttons        \* which of Connect and Disconnect are enabled

vars == <<current, connected, lifecycle, phase, disconnecting, opened, port, dtr, cleaned,
          queue, allowStop, stopped, calls, buttons>>
portVars == <<opened, port, dtr>>
writeVars == <<queue, allowStop, stopped>>
lifeVars == <<lifecycle, phase, disconnecting, cleaned>>

Operation == [kind: {"Connect"}, session: {0}] \cup [kind: {"Disconnect"}, session: Session]

Phase == {"Waiting", "Choosing", "Opening", "Signalling",
          "Stop", "Cancel", "Read", "Lower", "Close"}

CallState == {"Unsent", "Queued", "Pending", "Resolved", "Rejected"}

TypeOK ==
  /\ current \in {0} \cup Session
  /\ {connected, disconnecting, dtr} \subseteq BOOLEAN
  /\ lifecycle \in Seq(Operation) /\ phase \in Phase
  /\ opened \in {0} \cup Session /\ port \in 0 .. opened
  /\ cleaned \cup allowStop \cup stopped \subseteq 1 .. opened
  /\ queue \in [Session -> Seq(Item)]
  /\ calls \in [Call -> [state: CallState, session: {0} \cup Session,
                         attempts: 0 .. Retries + 1, remaining: 0 .. Retries,
                         response: 0 .. Retries + 1, retry: 0 .. Retries + 1,
                         timer: {"None", "Response", "Retry"}]]
  /\ buttons \in SUBSET {"Connect", "Disconnect"}

Init ==
  /\ current = 0 /\ connected = FALSE
  /\ lifecycle = <<>> /\ phase = "Waiting" /\ disconnecting = FALSE
  /\ opened = 0 /\ port = 0 /\ dtr = FALSE /\ cleaned = {}
  /\ queue = [s \in Session |-> <<>>] /\ allowStop = {} /\ stopped = {}
  /\ calls = [c \in Call |-> [state |-> "Unsent", session |-> 0, attempts |-> 0,
                              remaining |-> Retries, response |-> 0, retry |-> 0,
                              timer |-> "None"]]
  /\ buttons = {"Connect"}

IsSessionActive(s) == connected /\ current = s

-----------------------------------------------------------------------------
(* The buttons.                                                            *)

\* updateControlState(false).
Enabled(isConnected) == {IF isConnected THEN "Disconnect" ELSE "Connect"}

ClickConnect ==
  /\ "Connect" \in buttons /\ Len(lifecycle) < LifecycleLimit
  /\ PatientUser => \A k \in DOMAIN lifecycle : lifecycle[k].kind # "Connect"
  /\ buttons' = {}
  /\ lifecycle' = Append(lifecycle, [kind |-> "Connect", session |-> 0])
  /\ UNCHANGED <<current, connected, phase, disconnecting, cleaned, portVars, writeVars,
                 calls>>

\* The arm switch is not part of what is busy.
ToggleArm ==
  /\ buttons' = Enabled(connected)
  /\ UNCHANGED <<current, connected, lifeVars, portVars, writeVars, calls>>

-----------------------------------------------------------------------------
(* connectTransition.                                                      *)

IsAt(kind, p) == lifecycle # <<>> /\ lifecycle[1].kind = kind /\ phase = p

EndTransition == lifecycle' = Tail(lifecycle) /\ phase' = "Waiting"

GoesTo(p) == phase' = p /\ UNCHANGED lifecycle

ConnectStarts ==
  /\ IsAt("Connect", "Waiting")
  /\ GoesTo("Choosing")
  /\ UNCHANGED <<current, connected, disconnecting, cleaned, portVars, writeVars, calls,
                 buttons>>

PortChosen ==
  /\ IsAt("Connect", "Choosing")
  /\ GoesTo("Opening")
  /\ UNCHANGED <<current, connected, disconnecting, cleaned, portVars, writeVars, calls,
                 buttons>>

\* open fails when the port is open already.
PortOpens ==
  /\ IsAt("Connect", "Opening") /\ port = 0 /\ opened < SessionLimit
  /\ opened' = opened + 1 /\ port' = opened + 1
  /\ GoesTo("Signalling")
  /\ UNCHANGED <<current, connected, disconnecting, cleaned, dtr, writeVars, calls, buttons>>

\* DTR is high: the session is set up, and the click goes on to setConnected(true).
Connected ==
  /\ IsAt("Connect", "Signalling")
  /\ current' = opened /\ connected' = TRUE /\ dtr' = TRUE
  /\ buttons' = Enabled(TRUE)
  /\ EndTransition
  /\ UNCHANGED <<disconnecting, cleaned, opened, port, writeVars, calls>>

\* Mutant: a port whose DTR cannot be set is left open.
ConnectFailsOnly ==
  /\ lifecycle # <<>> /\ lifecycle[1].kind = "Connect"
  /\ phase \in {"Choosing", "Opening", "Signalling"}
  /\ current' = 0 /\ connected' = FALSE
  /\ buttons' = Enabled(FALSE)
  /\ EndTransition
  /\ UNCHANGED <<disconnecting, opened, port, dtr, cleaned, writeVars, calls>>

\* requestPort, open or setSignals is rejected: whatever was opened is closed.
ConnectFails ==
  /\ lifecycle # <<>> /\ lifecycle[1].kind = "Connect"
  /\ phase \in {"Choosing", "Opening", "Signalling"}
  /\ current' = 0 /\ connected' = FALSE
  /\ IF phase = "Signalling" THEN port' = 0 /\ dtr' = FALSE ELSE UNCHANGED <<port, dtr>>
  /\ cleaned' = IF phase = "Signalling" THEN cleaned \cup {opened} ELSE cleaned
  /\ buttons' = Enabled(FALSE)
  /\ EndTransition
  /\ UNCHANGED <<disconnecting, opened, writeVars, calls>>

-----------------------------------------------------------------------------
(* disconnect, detachSession and cleanupSession.                           *)

\* clearTimeout(pending.timer); a timer that was overwritten goes on.
Cleared(call) ==
  [call EXCEPT !.response = IF call.timer = "Response" THEN @ - 1 ELSE @,
               !.retry = IF call.timer = "Retry" THEN @ - 1 ELSE @,
               !.timer = "None"]

Settled(call, state) == [Cleared(call) EXCEPT !.state = state]

PendingCalls == {c \in Call : calls[c].state = "Pending" /\ calls[c].session = current}

RejectPending ==
  calls' = [c \in Call |-> IF c \in PendingCalls THEN Settled(calls[c], "Rejected")
                           ELSE calls[c]]

\* Mutant: what is pending is left to its timer.
DetachKeepingCalls == current' = 0 /\ connected' = FALSE /\ UNCHANGED calls

\* Mutant: the session stays active until it has been cleaned up.
DetachLater == UNCHANGED <<current, connected>> /\ RejectPending

\* detachSession.
Detach == current' = 0 /\ connected' = FALSE /\ RejectPending

\* disconnect: a second caller shares the first one's task.  (With these buttons
\* there is always a session to capture.)
Disconnect ==
  IF disconnecting
    THEN UNCHANGED <<current, connected, lifecycle, disconnecting, calls>>
    ELSE /\ Len(lifecycle) < LifecycleLimit
         /\ disconnecting' = TRUE
         /\ lifecycle' = Append(lifecycle, [kind |-> "Disconnect", session |-> current])
         /\ Detach

\* A command that is rejected ends its own click: setBusy(false).
ClickDisconnect ==
  /\ "Disconnect" \in buttons
  /\ Disconnect
  /\ buttons' = IF disconnecting \/ PendingCalls = {} THEN {} ELSE Enabled(FALSE)
  /\ UNCHANGED <<phase, cleaned, portVars, writeVars>>

\* The browser reports that the device is gone; sessionSnapshot looks for its session.
PhysicalDisconnect ==
  /\ connected /\ port = current
  /\ Disconnect
  /\ buttons' = IF disconnecting \/ PendingCalls = {} THEN buttons ELSE Enabled(FALSE)
  /\ UNCHANGED <<phase, cleaned, portVars, writeVars>>

\* Its turn comes: STOP_ALL goes behind what the session was writing, or is begun at once.
CleanupStarts ==
  /\ IsAt("Disconnect", "Waiting")
  /\ GoesTo("Stop")
  /\ LET s == lifecycle[1].session
     IN  /\ queue' = [queue EXCEPT ![s] = Append(@, StopFrame)]
         /\ allowStop' = allowStop \cup {s}
         /\ stopped' = IF queue[s] = <<>> THEN stopped \cup {s} ELSE stopped
  /\ UNCHANGED <<current, connected, disconnecting, cleaned, portVars, calls, buttons>>

\* setConnected(false) for whoever waited.
DisconnectEnds ==
  /\ EndTransition
  /\ disconnecting' = FALSE
  /\ connected' = FALSE
  /\ buttons' = Enabled(FALSE)

CleanupOrder == <<"Stop", "Cancel", "Read", "Lower", "Close">>

\* Mutant: allowStop is not taken back.
NextCleanupAllowingStop ==
  LET s == lifecycle[1].session
      k == CHOOSE i \in DOMAIN CleanupOrder : CleanupOrder[i] = phase
  IN  /\ IF phase = "Close"
           THEN DisconnectEnds /\ cleaned' = cleaned \cup {s}
           ELSE /\ GoesTo(CleanupOrder[k + 1])
                /\ UNCHANGED <<disconnecting, connected, buttons, cleaned>>
      /\ UNCHANGED <<current, opened, writeVars, calls>>

\* What awaitCleanup waited for is done, or was given up; then the next step.
NextCleanup ==
  LET s == lifecycle[1].session
      k == CHOOSE i \in DOMAIN CleanupOrder : CleanupOrder[i] = phase
  IN  /\ allowStop' = IF phase = "Stop" THEN allowStop \ {s} ELSE allowStop
      /\ IF phase = "Close"
           THEN DisconnectEnds /\ cleaned' = cleaned \cup {s}
           ELSE /\ GoesTo(CleanupOrder[k + 1])
                /\ UNCHANGED <<disconnecting, connected, buttons, cleaned>>
      /\ UNCHANGED <<current, opened, queue, stopped, calls>>

IsCleaning == lifecycle # <<>> /\ phase \in ToSet(CleanupOrder)

\* The step's promise is settled: STOP_ALL written, reader cancelled, readTask ended,
\* DTR low, port closed.
CleanupStep ==
  /\ IsCleaning
  /\ phase = "Stop" => ~Contains(queue[lifecycle[1].session], StopFrame)
  /\ dtr' = (dtr /\ phase # "Lower")
  /\ port' = IF phase = "Close" THEN 0 ELSE port
  /\ NextCleanup

\* Mutant: awaitCleanup awaits its operation alone.
CleanupNeverTimesOut == FALSE /\ UNCHANGED vars

\* cleanupTimeoutMs have passed.  (A port that does not close stays open.)
CleanupTimesOut == IsCleaning /\ UNCHANGED <<dtr, port>> /\ NextCleanup

-----------------------------------------------------------------------------
(* send, queueWrite and the timers.                                        *)

\* Busy until the command is settled.  Send's own check finds the session active.
Send(c) ==
  /\ "Disconnect" \in buttons /\ connected /\ current # 0
  /\ calls[c].state = "Unsent" /\ \A d \in 1 .. c - 1 : calls[d].state # "Unsent"
  /\ calls' = [calls EXCEPT ![c].state = "Queued", ![c].session = current]
  /\ buttons' = {}
  /\ UNCHANGED <<current, connected, lifeVars, portVars, writeVars>>

IsOver(c) == calls[c].state \in {"Resolved", "Rejected"}

\* queueWrite, for a session that is active.
WritePending(c, call) ==
  /\ calls' = [calls EXCEPT ![c] = [call EXCEPT !.attempts = @ + 1]]
  /\ queue' = [queue EXCEPT ![call.session] = Append(@, c)]

\* commandQueue comes to c: sendOnce.
SendOnce(c) ==
  /\ calls[c].state = "Queued"
  /\ \A d \in 1 .. c - 1 : calls[d].session = calls[c].session => IsOver(d)
  /\ IF IsSessionActive(calls[c].session)
       THEN /\ WritePending(c, [calls[c] EXCEPT !.state = "Pending"])
            /\ UNCHANGED buttons
       ELSE /\ calls' = [calls EXCEPT ![c].state = "Rejected"]
            /\ buttons' = Enabled(connected)
            /\ UNCHANGED queue
  /\ UNCHANGED <<current, connected, lifeVars, portVars, allowStop, stopped>>

\* setInterval; a heartbeat that waits already stands for all.
Heartbeat ==
  /\ current # 0 /\ IsSessionActive(current)
  /\ ~Contains(queue[current], HeartbeatFrame)
  /\ queue' = [queue EXCEPT ![current] = Append(@, HeartbeatFrame)]
  /\ UNCHANGED <<current, connected, lifeVars, portVars, allowStop, stopped, calls, buttons>>

PendingIsActive(c) == calls[c].state = "Pending" /\ IsSessionActive(calls[c].session)

\* armResponseTimeout; it may overwrite the timer of a retry.
Armed(c) ==
  IF PendingIsActive(c)
    THEN [calls[c] EXCEPT !.response = @ + 1, !.timer = "Response"]
    ELSE calls[c]

\* STOP_ALL is what comes next.
IsStopNext(s) == Len(queue[s]) > 1 /\ queue[s][2] = StopFrame

\* The head of a writeQueue is settled: written, or rejected.  The next frame is begun; a
\* STOP_ALL that is not allowed any more is not.
WriteSettles(s) ==
  /\ queue[s] # <<>>
  /\ IF IsStopNext(s) /\ s \notin allowStop
       THEN queue' = [queue EXCEPT ![s] = Tail(Tail(@))] /\ UNCHANGED stopped
       ELSE /\ queue' = [queue EXCEPT ![s] = Tail(@)]
            /\ stopped' = IF IsStopNext(s) THEN stopped \cup {s} ELSE stopped
  /\ LET item == queue[s][1]
     IN  \/ /\ calls' = IF item \in Call THEN [calls EXCEPT ![item] = Armed(item)] ELSE calls
            /\ UNCHANGED buttons
         \/ IF item \in Call /\ calls[item].state = "Pending"
              THEN /\ calls' = [calls EXCEPT ![item] = Settled(@, "Rejected")]
                   /\ buttons' = Enabled(connected)
              ELSE UNCHANGED <<calls, buttons>>
  /\ UNCHANGED <<current, connected, lifeVars, portVars, allowStop>>

\* retryPending, without delay.
RetryNow(c, call) ==
  IF call.remaining = 0
    THEN /\ calls' = [calls EXCEPT ![c] = Settled(call, "Rejected")]
         /\ buttons' = Enabled(connected)
         /\ UNCHANGED queue
    ELSE /\ WritePending(c, [call EXCEPT !.remaining = @ - 1])
         /\ UNCHANGED buttons

\* A response timer ends.  Whichever it was, pending.timer forgets the last one.
ResponseTimeout(c) ==
  /\ calls[c].response > 0
  /\ LET call == [calls[c] EXCEPT !.response = @ - 1, !.timer = "None"]
     IN  IF PendingIsActive(c)
           THEN RetryNow(c, call)
           ELSE calls' = [calls EXCEPT ![c] = call] /\ UNCHANGED <<queue, buttons>>
  /\ UNCHANGED <<current, connected, lifeVars, portVars, allowStop, stopped>>

\* The delay BUSY asked for is over.
RetryTimeout(c) ==
  /\ calls[c].retry > 0
  /\ LET call == [calls[c] EXCEPT !.retry = @ - 1, !.timer = "None"]
     IN  IF PendingIsActive(c)
           THEN WritePending(c, call)
           ELSE calls' = [calls EXCEPT ![c] = call] /\ UNCHANGED queue
  /\ UNCHANGED <<current, connected, lifeVars, portVars, allowStop, stopped, buttons>>

\* retryPending, with the delay of a BUSY.
RetryLater(call) ==
  IF call.remaining = 0 THEN Settled(call, "Rejected")
  ELSE [call EXCEPT !.remaining = @ - 1, !.retry = @ + 1, !.timer = "Retry"]

\* acceptFrame: a response to c, which may come before its write is settled.
AcceptFrame(c) ==
  /\ PendingIsActive(c)
  /\ Contains(queue[current], c) => calls[c].attempts > 1 \/ queue[current][1] = c
  /\ \E call \in {Settled(calls[c], "Resolved"), Settled(calls[c], "Rejected"),
                  RetryLater(Cleared(calls[c]))} :
       /\ calls' = [calls EXCEPT ![c] = call]
       /\ buttons' = IF call.state = "Pending" THEN buttons ELSE Enabled(connected)
  /\ UNCHANGED <<current, connected, lifeVars, portVars, writeVars>>

-----------------------------------------------------------------------------
ConnectStep == ConnectStarts \/ PortChosen \/ PortOpens \/ Connected \/ ConnectFails

Timer(c) == ResponseTimeout(c) \/ RetryTimeout(c)

Next ==
  \/ ClickConnect \/ ClickDisconnect \/ ToggleArm
  \/ ConnectStep
  \/ PhysicalDisconnect
  \/ CleanupStarts \/ CleanupStep \/ CleanupTimesOut
  \/ \E c \in Call : Send(c) \/ SendOnce(c) \/ Timer(c) \/ AcceptFrame(c)
  \/ Heartbeat
  \/ \E s \in Session : WriteSettles(s)

Spec == Init /\ [][Next]_vars

\* Promise callbacks run and timers fire.  Nothing is assumed of the serial port.
TimersFire ==
  /\ WF_vars(CleanupStarts) /\ WF_vars(CleanupTimesOut)
  /\ \A c \in Call : WF_vars(SendOnce(c)) /\ WF_vars(Timer(c))

\* ... but that a write is settled at last.
WritesSettle == \A s \in Session : WF_vars(WriteSettles(s))

TimersSpec == Spec /\ TimersFire

-----------------------------------------------------------------------------
\* STOP_ALL is the last frame a session writes, and the only STOP_ALL of its
\* cleanup, however writes hang and whoever disconnects meanwhile: once it is begun,
\* nothing waits behind it.
StopIsLast == \A s \in stopped : queue[s] \in {<<>>, <<StopFrame>>}

\* STOP_ALL is begun only while its disconnect() waits for it, on a port that is open for
\* its session with DTR up.  When that gave it up, because a write before it hung, it is
\* never begun: not after DTR was lowered, nor on the port's next session.
StopInTime ==
  [][\A s \in stopped' \ stopped :
       phase' = "Stop" /\ lifecycle'[1].session = s /\ port = s /\ dtr]_vars

\* A command is written once and then at most `retries` times, although a BUSY that
\* comes before its write is settled leaves two timers running.
AttemptsAreBounded == \A c \in Call : calls[c].attempts <= Retries + 1

\* The port is open for the session in use, for the connect under way, or until its
\* cleanup has run: a session is not forgotten with DTR high.
NothingLeaks ==
  port # 0 =>
    \/ port = current /\ connected
    \/ phase = "Signalling" /\ port = opened
    \/ port \in cleaned
    \/ \E k \in DOMAIN lifecycle : lifecycle[k] = [kind |-> "Disconnect", session |-> port]

\* Nothing is left behind or used beyond its limit, whatever hangs or overlaps.
WebClientInv == TypeOK /\ AttemptsAreBounded /\ NothingLeaks

\* disconnect() is settled, even if no promise of the port ever is.
DisconnectReturns == disconnecting ~> ~disconnecting

\* A command that was sent is settled: answered, given up, or rejected with its
\* session.
CallsSettle ==
  WritesSettle => \A c \in Call : calls[c].state = "Queued" ~> IsOver(c)
=============================================================================
