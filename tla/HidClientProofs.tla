--------------------------- MODULE HidClientProofs ---------------------------
(***************************************************************************)
(* What a caller of send_command may rely on, for every cache, number of   *)
(* processes, commands and retries, and wherever the sequence wraps.       *)
(***************************************************************************)
EXTENDS HidClient, CoordinatorLemmas

\* Where a command stands in the order in which they are sent: by process, and by
\* number within it.
Number == Nat \X Nat
Before(f, g) == f[1] < g[1] \/ (f[1] = g[1] /\ f[2] <= g[2])
Here == <<client.run, client.number>>

\* A frame that is not a heartbeat.
CommandFrame == [command: Command, sequence: SequenceNumber, from: Number]

\* The frames from which the device may yet get a request: in REQUESTS, on the line,
\* and the one that the main thread may send, or send again.
OnLine == {k \in DOMAIN line : line[k].frame.sequence # 0}
Flight == {requests[k] : k \in DOMAIN requests}
            \cup {line[k].frame : k \in OnLine}
            \cup {x \in {CurrentFrame} : client.phase # "Closed"}

ClientTypes ==
  /\ client \in [phase: ClientPhase, run: Nat, number: Nat, command: Command,
                 sequence: SequenceNumber, next: SequenceNumber, attempt: Nat,
                 closing: BOOLEAN, sent: Nat]
  /\ client.phase # "Closed" => dtr
  /\ line \in Seq([frame: CommandFrame \cup {HeartbeatFrame}, part: {1, 2}])
  /\ requests \in Seq(CommandFrame)

DeviceTypes ==
  /\ CoordinatorTypeOK /\ batchState = BatchIdle
  /\ job \in Token \cup {None}
  /\ origin \in Seq(Number) /\ Len(origin) = nextAdmissionId - 1
  /\ started \cup forgotten \subseteq DOMAIN origin

\* Frames keep the order in which they are sent.
InOrder ==
  /\ \A i, j \in DOMAIN requests : i <= j => Before(requests[i].from, requests[j].from)
  /\ \A i \in DOMAIN requests, j \in OnLine : Before(requests[i].from, line[j].frame.from)
  /\ \A i, j \in OnLine : i <= j => Before(line[i].frame.from, line[j].frame.from)
  /\ \A x \in Flight : Before(x.from, Here)

\* Work never runs ahead of what is still under way.
StartedFirst ==
  \A k \in Remembered : /\ Before(origin[k], Here)
                        /\ \A x \in Flight : Before(origin[k], x.from)

\* All attempts of a command send the same frame.
AttemptsAreAlike == \A x, y \in Flight : x.from = y.from => x = y

\* As long as another attempt of it may arrive, the cache remembers a command.
StartedIsKnown ==
  \A k \in Remembered, x \in Flight : origin[k] = x.from => Known(x)

FlightInv ==
  InOrder /\ StartedFirst /\ AttemptsAreAlike /\ StartedIsKnown /\ WorkedOnOnce

\* Sequence numbers are those of a u16 but zero.
LEMMA SequenceFacts ==
  /\ MaxSequence \in Nat \ {0}
  /\ SequenceNumber = 1 .. MaxSequence
  /\ FirstSequence \in SequenceNumber
  /\ \A s \in SequenceNumber : s # 0 /\ NextSequence(s) \in SequenceNumber
BY ClientAssumption DEF ClientAssumption, NextSequence

\* Every command a process sends is one of the protocol's.
LEMMA ClientCommandFacts ==
  ClientCommand \subseteq Command /\ "StopAll" \in Command
BY ClientAssumption DEF ClientAssumption, Command, ControlCommand

\* The order of commands is an order.
LEMMA BeforeIsAnOrder ==
  ASSUME NEW f \in Number, NEW g \in Number, NEW h \in Number
  PROVE  /\ Before(f, f)
         /\ Before(f, g) /\ Before(g, h) => Before(f, h)
         /\ Before(f, g) /\ Before(g, f) => f = g
BY DEF Before, Number

\* What is under way are commands of the client.
LEMMA FlightTypes ==
  ASSUME ClientTypes
  PROVE  /\ Here \in Number
         /\ CurrentFrame \in CommandFrame /\ CurrentFrame.from = Here
         /\ \A k \in DOMAIN requests : requests[k] \in CommandFrame
         /\ \A k \in DOMAIN line : line[k].frame \in CommandFrame \cup {HeartbeatFrame}
         /\ \A k \in OnLine : line[k].frame \in CommandFrame
         /\ Flight \subseteq CommandFrame
         /\ \A x \in Flight : x.from \in Number /\ x.sequence # 0
<1>1. client.run \in Nat /\ client.number \in Nat /\ client.command \in Command
      /\ client.sequence \in SequenceNumber
  BY DEF ClientTypes
<1>2. Here \in Number
  BY <1>1 DEF Here, Number
<1>3. CurrentFrame \in CommandFrame /\ CurrentFrame.from = Here
  BY <1>1, <1>2 DEF CurrentFrame, CommandFrame, Here
<1>4. \A k \in DOMAIN requests : requests[k] \in CommandFrame
  <2>1. requests \in Seq(CommandFrame)
    BY DEF ClientTypes
  <2> QED BY <2>1
<1>5. \A k \in DOMAIN line : line[k].frame \in CommandFrame \cup {HeartbeatFrame}
  <2> DEFINE P == [frame: CommandFrame \cup {HeartbeatFrame}, part: {1, 2}]
  <2>1. line \in Seq(P)
    BY DEF ClientTypes
  <2>2. \A p \in P : p.frame \in CommandFrame \cup {HeartbeatFrame}
    OBVIOUS
  <2> HIDE DEF P
  <2>3. \A k \in DOMAIN line : line[k] \in P
    BY <2>1
  <2> QED BY <2>2, <2>3
<1>6. \A k \in OnLine : line[k].frame \in CommandFrame
  BY <1>5 DEF OnLine, HeartbeatFrame
<1>7. Flight \subseteq CommandFrame
  <2> HIDE DEF Flight
  <2> SUFFICES ASSUME NEW x \in Flight PROVE x \in CommandFrame
    OBVIOUS
  <2> QED BY <1>3, <1>4, <1>6 DEF Flight
<1>8. \A x \in CommandFrame : x.from \in Number /\ x.sequence # 0
  BY SequenceFacts DEF CommandFrame
<1> QED BY <1>2, <1>3, <1>4, <1>5, <1>6, <1>7, <1>8

-----------------------------------------------------------------------------
(* Types.                                                                  *)

\* Nothing has been sent at start-up.
LEMMA InitTypes == Init => ClientTypes /\ DeviceTypes
<1> SUFFICES ASSUME Init PROVE ClientTypes /\ DeviceTypes
  OBVIOUS
<1>1. client \in [phase: ClientPhase, run: Nat, number: Nat, command: Command,
                  sequence: SequenceNumber, next: SequenceNumber, attempt: Nat,
                  closing: BOOLEAN, sent: Nat]
  <2>1. 1 \in SequenceNumber
    BY SequenceFacts
  <2>2. "Closed" \in ClientPhase
    BY DEF ClientPhase
  <2> QED BY <2>1, <2>2, SequenceFacts, ClientCommandFacts DEF Init
<1>2. /\ line \in Seq([frame: CommandFrame \cup {HeartbeatFrame}, part: {1, 2}])
      /\ requests \in Seq(CommandFrame)
  BY EmptySeq DEF Init
<1>3. ClientTypes
  BY <1>1, <1>2 DEF Init, ClientTypes
<1>4. CoordinatorTypeOK
  <2>1. cache \in Seq(Entry) /\ Len(cache) <= CacheSize
    BY EmptySeq, CacheSizeAssumption DEF Init, CoordinatorInit
  <2>2. nextEvict \in 0 .. CacheSize - 1
    BY CacheSizeAssumption DEF Init, CoordinatorInit
  <2> QED BY <2>1, <2>2 DEF Init, CoordinatorInit, CoordinatorTypeOK, BatchIdle
<1>5. origin \in Seq(Number) /\ Len(origin) = nextAdmissionId - 1
  BY EmptySeq DEF Init, CoordinatorInit
<1>6. DeviceTypes
  BY <1>4, <1>5 DEF Init, CoordinatorInit, DeviceTypes
<1> QED BY <1>3, <1>6

\* What is written is a frame of the client's or a heartbeat.
LEMMA WritingKeepsTypes ==
  ASSUME ClientTypes,
         NEW frame \in CommandFrame \cup {HeartbeatFrame}, NEW part \in {1, 2},
         line' = Append(line, [frame |-> frame, part |-> part])
  PROVE  line' \in Seq([frame: CommandFrame \cup {HeartbeatFrame}, part: {1, 2}])
<1> DEFINE P == [frame: CommandFrame \cup {HeartbeatFrame}, part: {1, 2}]
           piece == [frame |-> frame, part |-> part]
<1>1. piece \in P
  OBVIOUS
<1>2. line \in Seq(P)
  BY DEF ClientTypes
<1>3. line' = Append(line, piece)
  OBVIOUS
<1> HIDE DEF P, piece
<1>4. line' \in Seq(P)
  BY <1>1, <1>2, <1>3, AppendProperties
<1> QED BY <1>4 DEF P

\* What is left of a sequence when its first t elements are gone.
LEMMA SuffixFacts ==
  ASSUME NEW P, NEW s \in Seq(P), NEW t \in 0 .. Len(s), NEW r,
         r = SubSeq(s, t + 1, Len(s))
  PROVE  /\ r \in Seq(P) /\ Len(r) = Len(s) - t
         /\ DOMAIN r = 1 .. Len(s) - t
         /\ \A k \in DOMAIN r : k \in Nat /\ k + t \in DOMAIN s /\ r[k] = s[k + t]
<1>1. Len(s) \in Nat /\ DOMAIN s = 1 .. Len(s)
  BY LenProperties
<1>2. t \in Nat /\ t <= Len(s) /\ t + 1 \in 1 .. Len(s) + 1
  BY <1>1
<1>3. \A i \in t + 1 .. Len(s) : s[i] \in P
  BY <1>1, <1>2
<1>4. /\ r \in Seq(P)
      /\ Len(r) = IF t + 1 <= Len(s) THEN Len(s) - (t + 1) + 1 ELSE 0
      /\ \A i \in 1 .. Len(s) - (t + 1) + 1 : r[i] = s[t + 1 + i - 1]
  BY <1>1, <1>2, <1>3, SubSeqProperties
<1>5. Len(r) = Len(s) - t
  <2>1. \A n, m \in Nat : m <= n => (IF m + 1 <= n THEN n - (m + 1) + 1 ELSE 0) = n - m
    OBVIOUS
  <2> QED BY <1>1, <1>2, <1>4, <2>1
<1>6. DOMAIN r = 1 .. Len(s) - t
  BY <1>4, <1>5, LenProperties
<1>7. \A k \in 1 .. Len(s) - t :
        /\ k \in Nat /\ k + t \in 1 .. Len(s)
        /\ k \in 1 .. Len(s) - (t + 1) + 1 /\ t + 1 + k - 1 = k + t
  BY <1>1, <1>2
<1>8. \A k \in 1 .. Len(s) - t : r[k] = s[k + t]
  BY <1>4, <1>7
<1> QED BY <1>1, <1>4, <1>5, <1>6, <1>7, <1>8

\* What the receiver leaves on the line is the end of it.
Shortened(t) == t \in 0 .. Len(line) /\ line' = SubSeq(line, t + 1, Len(line))

\* A frame, or the piece that is no use, goes from the head of the line.
LEMMA LineIsShortened ==
  ASSUME ClientTypes
  PROVE  /\ Receive => Shortened(2)
         /\ Discard => Shortened(1)
         /\ LeaseExpires => \E t \in 0 .. Len(line) : Shortened(t)
<1> DEFINE P == [frame: CommandFrame \cup {HeartbeatFrame}, part: {1, 2}]
<1>1. line \in Seq(P) /\ Len(line) \in Nat
  BY DEF ClientTypes
<1>2. Receive => Shortened(2)
  BY <1>1 DEF Receive, Shortened
<1>3. ASSUME Discard PROVE Shortened(1)
  <2>1. line # <<>> /\ line' = Tail(line)
    BY <1>3 DEF Discard
  <2> HIDE DEF P
  <2>2. Len(line) >= 1
    BY <1>1, <2>1, EmptySeq
  <2>3. Tail(line) = SubSeq(line, 2, Len(line))
    BY <1>1, <2>1, TailIsSubSeq
  <2> QED BY <1>1, <2>1, <2>2, <2>3 DEF Shortened
<1>4. LeaseExpires => \E t \in 0 .. Len(line) : Shortened(t)
  BY DEF LeaseExpires, Shortened
<1> QED BY <1>2, <1>3, <1>4

\* What the client keeps in its variables, whatever it does.
LEMMA NextKeepsClientTypes ==
  ASSUME ClientTypes, [Next]_vars
  PROVE  /\ client' \in [phase: ClientPhase, run: Nat, number: Nat, command: Command,
                         sequence: SequenceNumber, next: SequenceNumber, attempt: Nat,
                         closing: BOOLEAN, sent: Nat]
         /\ client'.phase # "Closed" => dtr'
<1> DEFINE C == [phase: ClientPhase, run: Nat, number: Nat, command: Command,
                 sequence: SequenceNumber, next: SequenceNumber, attempt: Nat,
                 closing: BOOLEAN, sent: Nat]
<1>1. client \in C /\ (client.phase # "Closed" => dtr)
  BY DEF ClientTypes
<1>2. {"Closed", "Idle", "Locking", "Writing", "Flushing", "Reading", "Sleeping", "Joining"}
        \subseteq ClientPhase
  BY DEF ClientPhase
<1> DEFINE G == client' \in C /\ (client'.phase # "Closed" => dtr')
<1>3. CASE Open
  <2>1. client' = [client EXCEPT !.phase = "Idle", !.run = @ + 1, !.number = 0,
                                 !.next = FirstSequence, !.closing = FALSE]
    BY <1>3 DEF Open
  <2>2. client.run + 1 \in Nat
    BY <1>1
  <2>3. client' \in C
    BY <1>1, <1>2, <2>1, <2>2, SequenceFacts
  <2>4. dtr'
    BY <1>3 DEF Open
  <2> QED BY <2>3, <2>4
<1>4. ASSUME NEW command \in ClientCommand, Send(command) PROVE G
  <2>1. /\ client' = [client EXCEPT !.phase = "Locking", !.number = @ + 1, !.sent = @ + 1,
                              !.command = command, !.sequence = client.next,
                              !.next = NextSequence(@), !.attempt = 0]
    BY <1>4 DEF Send
  <2>2. command \in Command
    BY ClientCommandFacts
  <2>3. NextSequence(client.next) \in SequenceNumber
    BY <1>1, SequenceFacts
  <2>4. client.number + 1 \in Nat /\ client.sent + 1 \in Nat
    BY <1>1
  <2>5. client' \in C
    BY <1>1, <1>2, <2>1, <2>2, <2>3, <2>4
  <2>6. dtr'
    BY <1>1, <1>4 DEF Send
  <2> QED BY <2>5, <2>6
<1>5. CASE Drop
  <2>1. /\ client' = [client EXCEPT !.phase = "Locking", !.number = @ + 1,
                              !.command = "StopAll", !.sequence = client.next,
                              !.next = NextSequence(@), !.attempt = 0,
                              !.closing = TRUE]
    BY <1>5 DEF Drop
  <2>2. NextSequence(client.next) \in SequenceNumber
    BY <1>1, SequenceFacts
  <2>3. client.number + 1 \in Nat
    BY <1>1
  <2>4. client' \in C
    BY <1>1, <1>2, <2>1, <2>2, <2>3, ClientCommandFacts
  <2>5. dtr'
    BY <1>1, <1>5 DEF Drop
  <2> QED BY <2>4, <2>5
<1>6. CASE ClientLocks \/ ClientWrites \/ ClientFlushes \/ Conclude \/ ReadBusy \/ Wake
             \/ Timeout
  <2>1. \/ \E ph \in ClientPhase : client' = [client EXCEPT !.phase = ph]
        \/ client' = [client EXCEPT !.phase = "Locking", !.attempt = @ + 1]
    BY <1>2, <1>6 DEF ClientLocks, ClientWrites, ClientFlushes, Conclude, ReadBusy, Wake,
                      Timeout, Return, Retry
  <2>2. client.attempt + 1 \in Nat
    BY <1>1
  <2>3. client' \in C
    BY <1>1, <1>2, <2>1, <2>2
  <2>4. dtr'
    BY <1>1, <1>6 DEF ClientLocks, ClientWrites, ClientFlushes, Conclude, ReadBusy, Wake,
                      Timeout
  <2> QED BY <2>3, <2>4
<1>7. CASE Join \/ Killed
  <2>1. client' = [client EXCEPT !.phase = "Closed"]
    BY <1>7 DEF Join, Killed
  <2> QED BY <1>1, <1>2, <2>1
<1>8. CASE Tick \/ HeartbeatLocks \/ HeartbeatStep
  BY <1>1, <1>8 DEF Tick, HeartbeatLocks, HeartbeatStep, HeartbeatToldToStop, HeartbeatChecks,
                    HeartbeatWrites, HeartbeatFlushes, HeartbeatGoesTo, clientVars
<1>9. CASE SkipStale \/ DeviceStep \/ LeaseExpires \/ FinishJob
  BY <1>1, <1>9 DEF SkipStale, DeviceStep, Receive, Discard, SeeDtrRise, SeeDtrFall,
                     EndSession, LeaseExpires, AdmitNew, AnswerAtOnce, FinishRelease,
                     Respond, FinishJob, clientVars
<1>10. CASE Over \/ UNCHANGED vars
  BY <1>1, <1>10 DEF Over, vars, clientVars
<1> QED
  BY <1>3, <1>4, <1>5, <1>6, <1>7, <1>8, <1>9, <1>10 DEF Next, ClientStep

\* REQUESTS and the line hold frames of the client's.
LEMMA NextKeepsTypes ==
  ASSUME ClientTypes, [Next]_vars PROVE ClientTypes'
<1> DEFINE P == [frame: CommandFrame \cup {HeartbeatFrame}, part: {1, 2}]
<1> SUFFICES line' \in Seq(P) /\ requests' \in Seq(CommandFrame)
  BY NextKeepsClientTypes DEF ClientTypes
<1>1. /\ line \in Seq(P) /\ requests \in Seq(CommandFrame)
      /\ CurrentFrame \in CommandFrame
  BY FlightTypes DEF ClientTypes
<1>2. CASE UNCHANGED <<line, requests>>
  BY <1>1, <1>2
<1>3. CASE ClientLocks \/ ClientWrites
  <2>1. /\ \E part \in {1, 2} : line' = Append(line, [frame |-> CurrentFrame, part |-> part])
        /\ UNCHANGED requests
    BY <1>3 DEF ClientLocks, ClientWrites, deviceVars
  <2> QED BY <1>1, <2>1, WritingKeepsTypes
<1>4. CASE HeartbeatWrites \/ (HeartbeatChecks /\ ~stopped)
  <2>1. /\ \E part \in {1, 2} : line' = Append(line, [frame |-> HeartbeatFrame, part |-> part])
        /\ UNCHANGED requests
    BY <1>4 DEF HeartbeatWrites, HeartbeatChecks, HeartbeatGoesTo, deviceVars
  <2> QED BY <1>1, <2>1, WritingKeepsTypes
<1>5. CASE Receive
  <2> DEFINE frame == line[1].frame
  <2>1. /\ Len(line) >= 2
        /\ requests' = IF frame.sequence = 0 THEN requests ELSE Append(requests, frame)
    BY <1>5 DEF Receive
  <2>2. 1 \in DOMAIN line /\ Len(line) \in Nat /\ DOMAIN line = 1 .. Len(line)
    BY <1>1, <2>1, LenProperties
  <2>3. frame.sequence # 0 => frame \in CommandFrame
    BY <2>2, FlightTypes DEF OnLine
  <2> HIDE DEF P, frame
  <2>4. line' \in Seq(P)
    BY <1>1, <1>5, LineIsShortened, SuffixFacts DEF Shortened
  <2>5. requests' \in Seq(CommandFrame)
    BY <1>1, <2>1, <2>3, AppendProperties
  <2> QED BY <2>4, <2>5
<1>6. CASE SeeDtrFall
  <2>1. line' \in {<<>>, line} /\ requests' = <<>>
    BY <1>6 DEF SeeDtrFall, EndSession
  <2> HIDE DEF P
  <2> QED BY <1>1, <2>1, EmptySeq
<1>7. CASE AdmitNew \/ AnswerAtOnce
  <2>1. requests # <<>> /\ requests' = Tail(requests) /\ UNCHANGED line
    BY <1>7 DEF AdmitNew, AnswerAtOnce
  <2> QED BY <1>1, <2>1, HeadTailProperties
<1>8. CASE \/ Open \/ (\E command \in ClientCommand : Send(command)) \/ Drop
           \/ ClientFlushes \/ SkipStale \/ Conclude \/ ReadBusy \/ Wake \/ Timeout \/ Join
           \/ Killed \/ Tick \/ HeartbeatLocks \/ HeartbeatToldToStop \/ HeartbeatFlushes
           \/ (HeartbeatChecks /\ stopped)
           \/ SeeDtrRise \/ FinishRelease \/ Respond \/ FinishJob \/ Over \/ UNCHANGED vars
  <2>1. UNCHANGED <<line, requests>>
    BY <1>8 DEF Open, Send, Drop, ClientFlushes, SkipStale, Conclude, ReadBusy, Wake, Timeout,
       Join, Killed, Tick, HeartbeatLocks, HeartbeatToldToStop, HeartbeatFlushes,
       HeartbeatChecks, HeartbeatGoesTo, SeeDtrRise, FinishRelease, Respond, FinishJob, Over,
       deviceVars, vars
  <2> QED BY <1>2, <2>1
<1>9. CASE Discard \/ LeaseExpires
  <2>1. requests' \in {requests, <<>>}
    BY <1>9 DEF Discard, LeaseExpires, EndSession
  <2>2. \E t \in 0 .. Len(line) : Shortened(t)
    BY <1>9, LineIsShortened DEF Shortened
  <2> HIDE DEF P
  <2>3. line' \in Seq(P)
    BY <1>1, <2>2, SuffixFacts DEF Shortened
  <2> QED BY <1>1, <2>1, <2>3, EmptySeq
<1> QED
  BY <1>3, <1>4, <1>5, <1>6, <1>7, <1>8, <1>9
  DEF Next, ClientStep, HeartbeatStep, DeviceStep

\* Answers change a response and nothing else of an entry.
KeepsEntries ==
  /\ DOMAIN cache' = Slot
  /\ \A i \in Slot : cache'[i].token = cache[i].token

\* A job's completion stores its answer, or is stale.
LEMMA FinishJobEffect ==
  ASSUME DeviceTypes, FinishJob
  PROVE  /\ CoordinatorTypeOK' /\ batchState' = BatchIdle /\ KeepsEntries
         /\ UNCHANGED nextAdmissionId /\ job' = None
<1>1. job \in Token /\ CoordinatorTypeOK /\ batchState = BatchIdle
  BY DEF DeviceTypes, FinishJob
<1>2. PICK kind \in {"Ack", "Nack"} :
        Complete(job, Answer(job, kind)) \/ CompleteFails(job, Answer(job, kind))
  BY DEF FinishJob
<1>3. Answer(job, kind) \in Response
  BY <1>1, AnswerType DEF ResponseKind
<1>4. CASE Complete(job, Answer(job, kind))
  <2>1. /\ Store(job, Answer(job, kind))
        /\ executorOwner' = (IF executorOwner = job THEN None ELSE executorOwner)
        /\ batchState' = BatchIdle
        /\ UNCHANGED <<nextEvict, sessionGeneration, nextAdmissionId>>
    BY <1>1, <1>4 DEF Complete
  <2>2. /\ cache' \in Seq(Entry) /\ Len(cache') = Len(cache) /\ DOMAIN cache' = Slot
        /\ \A i \in Slot : cache'[i].token = cache[i].token
    BY <1>1, <1>3, <2>1, StoreEffect
  <2>3. CoordinatorTypeOK'
    BY <1>1, <2>1, <2>2 DEF CoordinatorTypeOK, BatchIdle
  <2> QED BY <2>1, <2>2, <2>3 DEF FinishJob, KeepsEntries
<1>5. CASE CompleteFails(job, Answer(job, kind))
  <2>1. UNCHANGED coordVars
    BY <1>5 DEF CompleteFails
  <2> QED BY <1>1, <2>1 DEF FinishJob, KeepsEntries, Slot, coordVars, CoordinatorTypeOK
<1> QED BY <1>2, <1>4, <1>5

\* A release answers the STOP_ALLs that wait for it.
LEMMA FinishReleaseEffect ==
  ASSUME DeviceTypes, FinishRelease
  PROVE  /\ CoordinatorTypeOK' /\ batchState' = BatchIdle /\ KeepsEntries
         /\ UNCHANGED <<nextAdmissionId, job>>
<1>1. CoordinatorTypeOK /\ batchState = BatchIdle
  BY DEF DeviceTypes
<1>2. /\ UNCHANGED <<nextEvict, sessionGeneration, nextAdmissionId, executorOwner, batchState>>
      /\ UNCHANGED job
  BY DEF FinishRelease
<1> DEFINE done(i) == \E k \in DOMAIN stops : AwaitsAnswer(i, stops[k])
<1>3. cache' = [i \in Slot |-> IF done(i)
                  THEN [cache[i] EXCEPT !.response = Answer(cache[i].token, "Ack")]
                  ELSE cache[i]]
  BY DEF FinishRelease
<1> HIDE DEF done
<1>4. /\ Slot = 1 .. Len(cache) /\ Len(cache) \in Nat
      /\ \A i \in Slot : /\ cache[i] \in Entry /\ cache[i].token \in Token
                         /\ Answer(cache[i].token, "Ack") \in Response
  BY <1>1, SlotFacts, AnswerType DEF ResponseKind
<1>5. \A i \in Slot : cache'[i] \in Entry /\ cache'[i].token = cache[i].token
  BY <1>3, <1>4 DEF Entry
<1>6. cache' \in [1 .. Len(cache) -> Entry]
  BY <1>3, <1>4, <1>5
<1>7. cache' \in Seq(Entry) /\ Len(cache') = Len(cache) /\ DOMAIN cache' = Slot
  BY <1>4, <1>6, LenProperties, SeqDef
<1>8. CoordinatorTypeOK'
  BY <1>1, <1>2, <1>7 DEF CoordinatorTypeOK
<1> QED BY <1>1, <1>2, <1>5, <1>7, <1>8 DEF KeepsEntries

\* An admission takes the head of REQUESTS, which the cache did not know, a slot and
\* the next id.
LEMMA AdmitNewEffect ==
  ASSUME ClientTypes, DeviceTypes, AdmitNew
  PROVE  /\ requests # <<>> /\ ~Known(Head(requests))
         /\ CoordinatorTypeOK' /\ batchState' = BatchIdle
         /\ nextAdmissionId' = nextAdmissionId + 1
         /\ started' = started \cup {nextAdmissionId} /\ forgotten' = forgotten
         /\ origin' = Append(origin, Head(requests).from)
         /\ job' \in Token \cup {None}
         /\ \E n \in DOMAIN cache' : cache'[n].token.sequence = Head(requests).sequence
<1> DEFINE h == Head(requests)
           r == RequestOf(h)
           answer == Answer(NewToken(r), ExpectedResponse(r.command))
<1>1. /\ requests # <<>> /\ origin' = Append(origin, h.from)
  BY DEF AdmitNew
<1>2. h \in CommandFrame
  BY <1>1, HeadTailProperties DEF ClientTypes
<1>3. r \in Request /\ r.sequence = h.sequence
  <2>1. 2 \in Version
    BY ClientAssumption DEF ClientAssumption
  <2> QED BY <1>2, <2>1 DEF CommandFrame, RequestOf, Request
<1>4. CoordinatorTypeOK /\ batchState = BatchIdle /\ job \in Token \cup {None}
  BY DEF DeviceTypes
<1>5. NewToken(r) \in Token
  BY <1>3, <1>4, NewTokenType
<1>6. answer \in Response
  <2>1. ExpectedResponse(r.command) \in ResponseKind
    BY DEF ExpectedResponse, ResponseKind
  <2> QED BY <1>5, <2>1, AnswerType
<1>7. \/ AdmitExecute(r, releasing) /\ job' = NewToken(r)
      \/ AdmitBypass(r, releasing, answer) /\ UNCHANGED job
      \/ AdmitStop(r, releasing) /\ UNCHANGED job
  BY DEF AdmitNew
<1>8. started' = started \cup {nextAdmissionId} /\ forgotten' = forgotten
  BY DEF AdmitNew
<1> HIDE DEF answer
<1>9. PICK stored \in Response \cup {None} : Insert(r, stored)
  BY <1>6, <1>7 DEF AdmitExecute, AdmitBypass, AdmitStop
<1>10. /\ sessionGeneration' = sessionGeneration
       /\ executorOwner' \in {executorOwner, NewToken(r)}
       /\ batchState' = BatchIdle
       /\ ~Known(r)
  BY <1>4, <1>7 DEF AdmitExecute, AdmitBypass, AdmitStop, Fresh, BatchIdle
<1>11. ~Known(h)
  BY <1>3, <1>10 DEF Known, Holds
<1> HIDE DEF r, h
<1>12. /\ cache' \in Seq(Entry) /\ Len(cache') <= CacheSize
       /\ nextEvict' \in 0 .. CacheSize - 1
       /\ nextAdmissionId' = nextAdmissionId + 1
       /\ \E n \in DOMAIN cache' : cache'[n] = [token |-> NewToken(r), response |-> stored]
  BY <1>3, <1>4, <1>9, InsertEffect
<1>13. CoordinatorTypeOK'
  BY <1>4, <1>5, <1>10, <1>12 DEF CoordinatorTypeOK, BatchIdle
<1>14. \E n \in DOMAIN cache' : cache'[n].token.sequence = h.sequence
  BY <1>3, <1>12 DEF NewToken
<1>15. job' \in Token \cup {None}
  BY <1>4, <1>5, <1>7
<1> QED BY <1>1, <1>8, <1>10, <1>11, <1>12, <1>13, <1>14, <1>15 DEF h

\* Every step keeps the device's types.
LEMMA NextKeepsDeviceTypes ==
  ASSUME ClientTypes, DeviceTypes, [Next]_vars PROVE DeviceTypes'
<1>1. CASE UNCHANGED <<coordVars, job, origin, started, forgotten>>
  BY <1>1 DEF DeviceTypes, CoordinatorTypeOK, coordVars
<1>2. CASE FinishJob
  <2>1. UNCHANGED <<origin, started, forgotten>>
    BY <1>2 DEF FinishJob
  <2> QED BY <1>2, <2>1, FinishJobEffect DEF DeviceTypes
<1>3. CASE FinishRelease
  <2>1. UNCHANGED <<origin, started, forgotten>>
    BY <1>3 DEF FinishRelease
  <2> QED BY <1>3, <2>1, FinishReleaseEffect DEF DeviceTypes
<1>4. CASE SeeDtrFall \/ LeaseExpires
  <2>1. /\ ClearSession /\ UNCHANGED <<job, origin, started>>
        /\ forgotten' \in {forgotten, DOMAIN origin}
    BY <1>4 DEF SeeDtrFall, LeaseExpires, EndSession
  <2>2. CoordinatorTypeOK' /\ batchState' = BatchIdle /\ UNCHANGED nextAdmissionId
    BY <2>1, ClearSessionEffect DEF DeviceTypes, ClearSession
  <2> QED BY <2>1, <2>2 DEF DeviceTypes
<1>5. CASE AdmitNew
  <2> DEFINE f == Head(requests).from
  <2>1. f \in Number
    <3>1. requests \in Seq(CommandFrame) /\ requests # <<>>
      BY <1>5 DEF ClientTypes, AdmitNew
    <3>2. Head(requests) \in CommandFrame
      BY <3>1, HeadTailProperties
    <3> QED BY <3>2 DEF CommandFrame
  <2>2. /\ origin' = Append(origin, f) /\ started' = started \cup {nextAdmissionId}
        /\ forgotten' = forgotten
        /\ nextAdmissionId' = nextAdmissionId + 1
        /\ CoordinatorTypeOK' /\ batchState' = BatchIdle /\ job' \in Token \cup {None}
    BY <1>5, AdmitNewEffect
  <2> HIDE DEF f
  <2>3. /\ origin \in Seq(Number) /\ Len(origin) = nextAdmissionId - 1
        /\ started \cup forgotten \subseteq DOMAIN origin
        /\ nextAdmissionId \in Nat \ {0}
    BY DEF DeviceTypes, CoordinatorTypeOK
  <2>4. origin' \in Seq(Number) /\ Len(origin') = Len(origin) + 1
    BY <2>1, <2>2, <2>3, AppendProperties
  <2>5. DOMAIN origin = 1 .. Len(origin) /\ DOMAIN origin' = 1 .. Len(origin')
    BY <2>3, <2>4, LenProperties
  <2>6. started' \cup forgotten' \subseteq DOMAIN origin' /\ Len(origin') = nextAdmissionId' - 1
    BY <2>2, <2>3, <2>4, <2>5
  <2> QED BY <2>2, <2>4, <2>6 DEF DeviceTypes
<1>6. CASE Open \/ (\E command \in ClientCommand : Send(command)) \/ Drop \/ ClientLocks
             \/ ClientStep \/ Killed \/ Tick \/ HeartbeatLocks \/ HeartbeatStep \/ Over
             \/ UNCHANGED vars
  <2>1. UNCHANGED <<coordVars, deviceVars>>
    BY <1>6 DEF Open, Send, Drop, ClientLocks, ClientStep, ClientWrites, ClientFlushes,
       SkipStale, Conclude, ReadBusy, Wake, Timeout, Join, Killed, Tick, HeartbeatLocks,
       HeartbeatStep, HeartbeatToldToStop, HeartbeatChecks, HeartbeatWrites, HeartbeatFlushes,
       HeartbeatGoesTo, Over, vars
  <2> QED BY <1>1, <2>1 DEF deviceVars
<1>7. CASE Receive \/ Discard \/ SeeDtrRise \/ AnswerAtOnce \/ Respond
  <2>1. UNCHANGED <<job, origin, started, forgotten>>
    BY <1>7 DEF Receive, Discard, SeeDtrRise, AnswerAtOnce, Respond
  <2>2. UNCHANGED coordVars
    BY <1>7 DEF Receive, Discard, SeeDtrRise, AnswerAtOnce, Respond, AdmitReplay, AdmitBusy,
                 AdmitReject
  <2> QED BY <1>1, <2>1, <2>2
<1> QED BY <1>2, <1>3, <1>4, <1>5, <1>6, <1>7 DEF Next, DeviceStep

-----------------------------------------------------------------------------
(* What is under way.                                                      *)

\* The order of REQUESTS and the line, without the main thread.
QueuesInOrder ==
  /\ \A i, j \in DOMAIN requests : i <= j => Before(requests[i].from, requests[j].from)
  /\ \A i \in DOMAIN requests, j \in OnLine : Before(requests[i].from, line[j].frame.from)
  /\ \A i, j \in OnLine : i <= j => Before(line[i].frame.from, line[j].frame.from)

\* Nothing is under way at start-up.
LEMMA InitFlight == Init => FlightInv
<1> SUFFICES ASSUME Init PROVE FlightInv
  OBVIOUS
<1>1. DOMAIN requests = {} /\ DOMAIN line = {} /\ Remembered = {} /\ client.phase = "Closed"
  BY EmptySeq, LenProperties DEF Init, Remembered
<1>2. Flight = {} /\ OnLine = {}
  BY <1>1 DEF Flight, OnLine
<1> QED BY <1>1, <1>2 DEF FlightInv, InOrder, StartedFirst, AttemptsAreAlike, StartedIsKnown,
                          WorkedOnOnce

\* A step that only takes away from what is under way.
LEMMA FlightShrinks ==
  ASSUME FlightInv, QueuesInOrder', Flight' \subseteq Flight, Here' = Here,
         UNCHANGED <<origin, Remembered>>,
         \A x \in Flight' : Known(x) => Known(x)'
  PROVE  FlightInv'
<1>1. InOrder'
  BY DEF FlightInv, InOrder, QueuesInOrder
<1>2. StartedFirst'
  BY DEF FlightInv, StartedFirst
<1>3. AttemptsAreAlike'
  BY DEF FlightInv, AttemptsAreAlike
<1>4. StartedIsKnown'
  <2> SUFFICES ASSUME NEW k \in Remembered, NEW x \in Flight', origin[k] = x.from
               PROVE  Known(x)'
    BY DEF StartedIsKnown
  <2> QED BY DEF FlightInv, StartedIsKnown
<1>5. WorkedOnOnce'
  BY DEF FlightInv, WorkedOnOnce
<1> QED BY <1>1, <1>2, <1>3, <1>4, <1>5 DEF FlightInv

\* The main thread goes on to a new command.
LEMMA FlightTurns ==
  ASSUME ClientTypes, ClientTypes', FlightInv,
         UNCHANGED <<requests, line, cache, origin, Remembered>>,
         Before(Here, Here'), Here' # Here, DOMAIN origin \subseteq Nat,
         \A k \in Remembered : origin[k] \in Number
  PROVE  FlightInv'
<1>1. /\ Here \in Number /\ Here' \in Number
      /\ CurrentFrame.from = Here /\ CurrentFrame'.from = Here'
  BY DEF ClientTypes, Here, Number, CurrentFrame
<1>2. OnLine' = OnLine
  BY DEF OnLine
<1>3. \A x \in Flight' : x \in Flight \/ x = CurrentFrame'
  BY <1>2 DEF Flight
<1>4. \A x \in Flight : x.from \in Number /\ Before(x.from, Here)
  BY FlightTypes DEF FlightInv, InOrder
<1>5. \A k \in Remembered : origin[k] \in Number /\ Before(origin[k], Here)
  BY DEF FlightInv, StartedFirst
<1>6. \A f \in Number : Before(f, Here) => Before(f, Here') /\ f # Here'
  BY <1>1, BeforeIsAnOrder
<1>7. InOrder'
  BY <1>1, <1>2, <1>3, <1>4, <1>6, BeforeIsAnOrder DEF FlightInv, InOrder
<1>8. StartedFirst'
  BY <1>1, <1>3, <1>5, <1>6 DEF FlightInv, StartedFirst
<1>9. AttemptsAreAlike'
  BY <1>1, <1>3, <1>4, <1>6 DEF FlightInv, AttemptsAreAlike
<1>10. StartedIsKnown'
  <2> SUFFICES ASSUME NEW k \in Remembered, NEW x \in Flight', origin[k] = x.from
               PROVE  Known(x)'
    BY DEF StartedIsKnown
  <2>1. x \in Flight
    BY <1>1, <1>3, <1>5, <1>6
  <2>2. Known(x)
    BY <2>1 DEF FlightInv, StartedIsKnown
  <2> QED BY <2>2 DEF Known, Slot, Holds
<1>11. WorkedOnOnce'
  BY DEF FlightInv, WorkedOnOnce
<1> QED BY <1>7, <1>8, <1>9, <1>10, <1>11 DEF FlightInv

\* A piece of the current frame, or of a heartbeat, goes to the end of the line.
LEMMA WritingKeepsFlight ==
  ASSUME ClientTypes, FlightInv, UNCHANGED <<requests, cache, origin, Remembered>>,
         NEW frame \in {CurrentFrame, HeartbeatFrame}, NEW part \in {1, 2},
         frame = CurrentFrame => client.phase # "Closed",
         line' = Append(line, [frame |-> frame, part |-> part]),
         CurrentFrame' = CurrentFrame, Here' = Here,
         client'.phase # "Closed" => client.phase # "Closed"
  PROVE  FlightInv'
<1> DEFINE P == [frame: CommandFrame \cup {HeartbeatFrame}, part: {1, 2}]
           piece == [frame |-> frame, part |-> part]
<1>1. /\ CurrentFrame \in CommandFrame /\ CurrentFrame.from = Here /\ Here \in Number
      /\ \A k \in OnLine : line[k].frame \in Flight
      /\ \A k \in DOMAIN requests : requests[k] \in Flight
  BY FlightTypes DEF Flight
<1>2. piece \in P /\ piece.frame = frame
  BY <1>1
<1>3. line \in Seq(P)
  BY DEF ClientTypes
<1>4. line' = Append(line, piece)
  OBVIOUS
<1> HIDE DEF P, piece
<1>5. /\ Len(line) \in Nat /\ DOMAIN line = 1 .. Len(line)
      /\ DOMAIN line' = 1 .. Len(line) + 1
      /\ \A k \in 1 .. Len(line) : line'[k] = line[k]
      /\ line'[Len(line) + 1] = piece
  BY <1>2, <1>3, <1>4, AppendProperties, LenProperties
<1>6. \A k \in OnLine' : \/ k \in OnLine /\ line'[k] = line[k]
                         \/ k = Len(line) + 1 /\ line'[k].frame = frame /\ frame = CurrentFrame
  <2> SUFFICES ASSUME NEW k \in OnLine'
               PROVE  \/ k \in OnLine /\ line'[k] = line[k]
                      \/ k = Len(line) + 1 /\ line'[k].frame = frame /\ frame = CurrentFrame
    OBVIOUS
  <2>1. k \in DOMAIN line' /\ line'[k].frame.sequence # 0
    BY DEF OnLine
  <2>2. k \in 1 .. Len(line) \/ k = Len(line) + 1
    BY <1>5, <2>1
  <2>3. CASE k \in 1 .. Len(line)
    BY <1>5, <2>1, <2>3 DEF OnLine
  <2>4. CASE k = Len(line) + 1
    BY <1>2, <1>5, <2>1, <2>4 DEF HeartbeatFrame
  <2> QED BY <2>2, <2>3, <2>4
<1>7. \A x \in Flight' : x \in Flight
  <2> SUFFICES ASSUME NEW x \in Flight' PROVE x \in Flight
    OBVIOUS
  <2>1. CurrentFrame \in Flight \/ client.phase = "Closed"
    BY DEF Flight
  <2>2. CASE \E k \in DOMAIN requests : x = requests[k]
    BY <1>1, <2>2
  <2>3. CASE \E k \in OnLine' : x = line'[k].frame
    BY <1>1, <1>6, <2>1, <2>3
  <2>4. CASE x = CurrentFrame /\ client'.phase # "Closed"
    BY <2>1, <2>4
  <2> QED BY <2>2, <2>3, <2>4 DEF Flight
<1>8. QueuesInOrder'
  <2>1. \A x \in Flight : Before(x.from, Here)
    BY DEF FlightInv, InOrder
  <2>2. \A i, j \in DOMAIN requests : i <= j => Before(requests[i].from, requests[j].from)
    BY DEF FlightInv, InOrder
  <2>3. \A i \in DOMAIN requests, j \in OnLine' : Before(requests[i].from, line'[j].frame.from)
    BY <1>1, <1>6, <2>1 DEF FlightInv, InOrder
  <2>4. ASSUME NEW i \in OnLine', NEW j \in OnLine', i <= j
        PROVE  Before(line'[i].frame.from, line'[j].frame.from)
    <3>1. CASE j \in OnLine /\ line'[j] = line[j]
      <4>1. i \in OnLine /\ line'[i] = line[i]
        <5>1. i # Len(line) + 1
          BY <1>5, <2>4, <3>1 DEF OnLine
        <5> QED BY <1>6, <5>1
      <4> QED BY <2>4, <3>1, <4>1 DEF FlightInv, InOrder
    <3>2. CASE line'[j].frame = CurrentFrame
      <4>1. CASE i \in OnLine /\ line'[i] = line[i]
        BY <1>1, <2>1, <3>2, <4>1
      <4>2. CASE line'[i].frame = CurrentFrame
        BY <1>1, <3>2, <4>2, BeforeIsAnOrder
      <4> QED BY <1>6, <4>1, <4>2
    <3> QED BY <1>6, <3>1, <3>2
  <2> QED BY <2>2, <2>3, <2>4 DEF QueuesInOrder
<1>9. \A x : Known(x) => Known(x)'
  BY DEF Known, Slot, Holds
<1> QED BY <1>7, <1>8, <1>9, FlightShrinks

\* A frame goes from the line to REQUESTS.
LEMMA ReceiveKeepsFlight ==
  ASSUME ClientTypes, FlightInv, Receive
  PROVE  FlightInv'
<1> DEFINE P == [frame: CommandFrame \cup {HeartbeatFrame}, part: {1, 2}]
           frame == line[1].frame
<1>1. /\ Len(line) >= 2 /\ line' = SubSeq(line, 3, Len(line))
      /\ requests' = IF frame.sequence = 0 THEN requests ELSE Append(requests, frame)
      /\ UNCHANGED <<cache, client, dtr, origin, Remembered>>
  BY DEF Receive, Remembered, coordVars, clientVars
<1>2. /\ line \in Seq(P) /\ Len(line) \in Nat /\ DOMAIN line = 1 .. Len(line)
      /\ requests \in Seq(CommandFrame) /\ Len(requests) \in Nat
      /\ DOMAIN requests = 1 .. Len(requests)
  BY LenProperties DEF ClientTypes
<1>3. 1 \in DOMAIN line /\ frame \in CommandFrame \cup {HeartbeatFrame}
  <2>1. 1 \in DOMAIN line
    BY <1>1, <1>2
  <2> QED BY <2>1, FlightTypes
<1> HIDE DEF P
<1>4. /\ line' \in Seq(P)
      /\ DOMAIN line' = 1 .. Len(line) - 2
      /\ \A k \in 1 .. Len(line) - 2 : line'[k] = line[k + 2]
  <2>1. \A i \in 3 .. Len(line) : line[i] \in P
    BY <1>2
  <2> DEFINE rest == SubSeq(line, 3, Len(line))
  <2>2. /\ rest \in Seq(P)
        /\ Len(rest) = IF 3 <= Len(line) THEN Len(line) - 3 + 1 ELSE 0
        /\ \A i \in 1 .. Len(line) - 3 + 1 : rest[i] = line[3 + i - 1]
    BY <1>2, <2>1, SubSeqProperties
  <2> HIDE DEF rest
  <2>3. Len(rest) = Len(line) - 2
    <3>1. \A n \in Nat : n >= 2 => (IF 3 <= n THEN n - 3 + 1 ELSE 0) = n - 2
      OBVIOUS
    <3>2. (IF 3 <= Len(line) THEN Len(line) - 3 + 1 ELSE 0) = Len(line) - 2
      BY <1>1, <1>2, <3>1
    <3> QED BY <2>2, <3>2
  <2>4. DOMAIN rest = 1 .. Len(line) - 2
    BY <2>2, <2>3, LenProperties
  <2>5. \A k \in 1 .. Len(line) - 2 : rest[k] = line[k + 2]
    <3> SUFFICES ASSUME NEW k \in 1 .. Len(line) - 2 PROVE rest[k] = line[k + 2]
      OBVIOUS
    <3>1. k \in 1 .. Len(line) - 3 + 1 /\ 3 + k - 1 = k + 2
      BY <1>2
    <3>2. rest[k] = line[3 + k - 1]
      BY <2>2, <3>1
    <3> QED BY <3>1, <3>2
  <2> QED BY <1>1, <2>2, <2>4, <2>5 DEF rest
<1>5. \A k \in OnLine' : /\ k \in Nat /\ k + 2 \in OnLine /\ line'[k] = line[k + 2]
  BY <1>1, <1>2, <1>4 DEF OnLine
<1> HIDE DEF frame
<1>6. CASE frame.sequence = 0
  <2>1. requests' = requests
    BY <1>1, <1>6
  <2>2. \A x \in Flight' : x \in Flight
    <3> SUFFICES ASSUME NEW x \in Flight' PROVE x \in Flight
      OBVIOUS
    <3>1. CASE \E k \in DOMAIN requests' : x = requests'[k]
      BY <2>1, <3>1 DEF Flight
    <3>2. CASE \E k \in OnLine' : x = line'[k].frame
      BY <1>5, <3>2 DEF Flight
    <3>3. CASE x = CurrentFrame' /\ client'.phase # "Closed"
      BY <1>1, <3>3 DEF Flight, CurrentFrame
    <3> QED BY <3>1, <3>2, <3>3 DEF Flight
  <2>3. QueuesInOrder'
    BY <1>5, <2>1 DEF QueuesInOrder, FlightInv, InOrder
  <2>4. Here' = Here /\ \A x : Known(x) => Known(x)'
    BY <1>1 DEF Here, Known, Slot, Holds
  <2> QED BY <1>1, <2>2, <2>3, <2>4, FlightShrinks
<1>7. CASE frame.sequence # 0
  <2>1. /\ requests' = Append(requests, frame) /\ 1 \in OnLine /\ frame \in CommandFrame
        /\ frame = line[1].frame
    BY <1>1, <1>3, <1>7, FlightTypes DEF OnLine, frame
  <2>2. /\ requests' \in Seq(CommandFrame)
        /\ DOMAIN requests' = 1 .. Len(requests) + 1
        /\ \A k \in 1 .. Len(requests) : requests'[k] = requests[k]
        /\ requests'[Len(requests) + 1] = frame
    BY <1>2, <2>1, AppendProperties, LenProperties
  <2>3. \A k \in DOMAIN requests' : \/ k \in DOMAIN requests /\ requests'[k] = requests[k]
                                    \/ k = Len(requests) + 1 /\ requests'[k] = frame
    BY <1>2, <2>2
  <2>4. \A x \in Flight' : x \in Flight
    <3> SUFFICES ASSUME NEW x \in Flight' PROVE x \in Flight
      OBVIOUS
    <3>1. CASE \E k \in DOMAIN requests' : x = requests'[k]
      BY <2>1, <2>3, <3>1 DEF Flight
    <3>2. CASE \E k \in OnLine' : x = line'[k].frame
      BY <1>5, <3>2 DEF Flight
    <3>3. CASE x = CurrentFrame' /\ client'.phase # "Closed"
      BY <1>1, <3>3 DEF Flight, CurrentFrame
    <3> QED BY <3>1, <3>2, <3>3 DEF Flight
  <2>5. QueuesInOrder'
    <3>1. ASSUME NEW i \in DOMAIN requests', NEW j \in DOMAIN requests', i <= j
          PROVE  Before(requests'[i].from, requests'[j].from)
      <4>1. CASE j \in DOMAIN requests
        <5>1. i \in DOMAIN requests
          BY <1>2, <2>2, <3>1, <4>1
        <5> QED BY <1>2, <2>2, <3>1, <4>1, <5>1 DEF FlightInv, InOrder
      <4>2. CASE requests'[j] = frame
        <5>1. CASE i \in DOMAIN requests /\ requests'[i] = requests[i]
          BY <2>1, <4>2, <5>1 DEF FlightInv, InOrder
        <5>2. CASE requests'[i] = frame
          BY <2>1, <4>2, <5>2, BeforeIsAnOrder DEF CommandFrame
        <5> QED BY <2>3, <5>1, <5>2
      <4> QED BY <2>3, <4>1, <4>2
    <3>2. ASSUME NEW i \in DOMAIN requests', NEW j \in OnLine'
          PROVE  Before(requests'[i].from, line'[j].frame.from)
      <4>1. j + 2 \in OnLine /\ line'[j] = line[j + 2] /\ 1 <= j + 2
        BY <1>5
      <4>2. CASE i \in DOMAIN requests /\ requests'[i] = requests[i]
        BY <4>1, <4>2 DEF FlightInv, InOrder
      <4>3. CASE requests'[i] = frame
        BY <2>1, <4>1, <4>3 DEF FlightInv, InOrder
      <4> QED BY <2>3, <4>2, <4>3
    <3>3. ASSUME NEW i \in OnLine', NEW j \in OnLine', i <= j
          PROVE  Before(line'[i].frame.from, line'[j].frame.from)
      BY <1>5, <3>3 DEF FlightInv, InOrder
    <3> QED BY <3>1, <3>2, <3>3 DEF QueuesInOrder
  <2>6. Here' = Here /\ \A x : Known(x) => Known(x)'
    BY <1>1 DEF Here, Known, Slot, Holds
  <2> QED BY <1>1, <2>4, <2>5, <2>6, FlightShrinks
<1> QED BY <1>6, <1>7

\* What is left of REQUESTS when its head is taken.
LEMMA TakingKeepsOrder ==
  ASSUME ClientTypes, FlightInv, requests # <<>>, requests' = Tail(requests),
         UNCHANGED <<line, client>>
  PROVE  /\ Head(requests) \in Flight
         /\ \A x \in Flight' : x \in Flight /\ Before(Head(requests).from, x.from)
         /\ QueuesInOrder'
         /\ Here' = Here
<1>1. /\ requests \in Seq(CommandFrame) /\ Len(requests) \in Nat
      /\ DOMAIN requests = 1 .. Len(requests) /\ 1 \in DOMAIN requests
      /\ Head(requests) = requests[1]
  BY EmptySeq, LenProperties DEF ClientTypes
<1>2. /\ requests' \in Seq(CommandFrame) /\ Len(requests') = Len(requests) - 1
      /\ \A k \in 1 .. Len(requests') : requests'[k] = requests[k + 1]
      /\ DOMAIN requests' = 1 .. Len(requests')
  BY <1>1, HeadTailProperties, LenProperties
<1>3. \A k \in DOMAIN requests' :
        k \in Nat /\ k + 1 \in DOMAIN requests /\ requests'[k] = requests[k + 1]
  BY <1>1, <1>2
<1>4. OnLine' = OnLine /\ Here' = Here /\ CurrentFrame' = CurrentFrame
  BY DEF OnLine, Here, CurrentFrame
<1>5. Head(requests) \in Flight
  BY <1>1 DEF Flight
<1>6. CurrentFrame.from = Here
  BY FlightTypes
<1>7. \A x \in Flight' : x \in Flight /\ Before(Head(requests).from, x.from)
  <2> SUFFICES ASSUME NEW x \in Flight'
               PROVE  x \in Flight /\ Before(Head(requests).from, x.from)
    OBVIOUS
  <2>1. CASE \E k \in DOMAIN requests' : x = requests'[k]
    <3>1. PICK k \in DOMAIN requests' : x = requests'[k]
      BY <2>1
    <3>2. k + 1 \in DOMAIN requests /\ x = requests[k + 1] /\ 1 <= k + 1
      BY <1>3, <3>1
    <3> QED BY <1>1, <3>2 DEF Flight, FlightInv, InOrder
  <2>2. CASE \E k \in OnLine : x = line[k].frame
    BY <1>1, <2>2 DEF Flight, FlightInv, InOrder
  <2>3. CASE x = CurrentFrame /\ client.phase # "Closed"
    BY <1>5, <1>6, <2>3 DEF Flight, FlightInv, InOrder
  <2> QED BY <1>4, <2>1, <2>2, <2>3 DEF Flight
<1>8. QueuesInOrder'
  <2>1. ASSUME NEW i \in DOMAIN requests', NEW j \in DOMAIN requests', i <= j
        PROVE  Before(requests'[i].from, requests'[j].from)
    BY <1>3, <2>1 DEF FlightInv, InOrder
  <2>2. ASSUME NEW i \in DOMAIN requests', NEW j \in OnLine'
        PROVE  Before(requests'[i].from, line'[j].frame.from)
    BY <1>3, <1>4, <2>2 DEF FlightInv, InOrder
  <2>3. ASSUME NEW i \in OnLine', NEW j \in OnLine', i <= j
        PROVE  Before(line'[i].frame.from, line'[j].frame.from)
    BY <1>4, <2>3 DEF FlightInv, InOrder
  <2> QED BY <2>1, <2>2, <2>3 DEF QueuesInOrder
<1> QED BY <1>4, <1>5, <1>7, <1>8

\* An answer that needs no work changes nothing that is remembered.
LEMMA AnswerAtOnceKeepsFlight ==
  ASSUME ClientTypes, FlightInv, AnswerAtOnce
  PROVE  FlightInv'
<1>1. /\ requests # <<>> /\ requests' = Tail(requests)
      /\ UNCHANGED <<line, client, dtr, origin, Remembered>>
  BY DEF AnswerAtOnce, Remembered, clientVars
<1>2. UNCHANGED cache
  BY DEF AnswerAtOnce, AdmitReplay, AdmitBusy, AdmitReject, coordVars
<1>3. \A x : Known(x) => Known(x)'
  BY <1>2 DEF Known, Slot, Holds
<1> QED BY <1>1, <1>3, TakingKeepsOrder, FlightShrinks

\* An admission begins work of which nothing was begun before: had it been, the
\* cache would know the sequence.  Earlier commands are no longer under way, so it
\* matters to none of them which entry makes room.
LEMMA AdmitNewKeepsFlight ==
  ASSUME ClientTypes, DeviceTypes, FlightInv, AdmitNew
  PROVE  FlightInv'
<1> DEFINE h == Head(requests)
           new == nextAdmissionId
<1>1. /\ requests # <<>> /\ requests' = Tail(requests)
      /\ UNCHANGED <<line, client, dtr>>
  BY DEF AdmitNew, clientVars
<1>2. /\ ~Known(h)
      /\ started' = started \cup {new} /\ forgotten' = forgotten
      /\ origin' = Append(origin, h.from)
      /\ \E n \in DOMAIN cache' : cache'[n].token.sequence = h.sequence
  BY AdmitNewEffect
<1>3. /\ h \in Flight /\ QueuesInOrder' /\ Here' = Here
      /\ \A x \in Flight' : x \in Flight /\ Before(h.from, x.from)
  BY <1>1, TakingKeepsOrder
<1> HIDE DEF h
<1>4. h.from \in Number /\ \A x \in Flight : x.from \in Number
  BY <1>3, FlightTypes
<1>5. /\ \A k \in Remembered : k # new /\ origin'[k] = origin[k] /\ origin[k] \in Number
      /\ origin'[new] = h.from
      /\ Remembered' = Remembered \cup {new}
  <2>1. /\ origin \in Seq(Number) /\ Len(origin) = new - 1
        /\ started \cup forgotten \subseteq DOMAIN origin
        /\ new \in Nat \ {0}
    BY DEF DeviceTypes, CoordinatorTypeOK
  <2>2. DOMAIN origin = 1 .. Len(origin) /\ Len(origin) \in Nat
    BY <2>1, LenProperties
  <2>3. /\ \A k \in 1 .. Len(origin) : origin'[k] = origin[k]
        /\ origin'[Len(origin) + 1] = h.from
    BY <1>2, <1>4, <2>1, AppendProperties
  <2>4. Len(origin) + 1 = new /\ \A k \in 1 .. Len(origin) : k # new
    BY <2>1, <2>2
  <2>5. \A k \in 1 .. Len(origin) : origin[k] \in Number
    BY <2>1, <2>2
  <2> HIDE DEF new
  <2>6. \A k \in started \cup forgotten : k \in 1 .. Len(origin)
    BY <2>1, <2>2
  <2>7. new \notin forgotten
    BY <2>4, <2>6
  <2>8. Remembered' = Remembered \cup {new}
    BY <1>2, <2>7 DEF Remembered
  <2>9. \A k \in Remembered : k \in 1 .. Len(origin)
    BY <2>6 DEF Remembered
  <2> QED BY <2>3, <2>4, <2>5, <2>8, <2>9
<1> HIDE DEF new
<1>6. \A k \in Remembered : origin[k] # h.from
  BY <1>2, <1>3 DEF FlightInv, StartedIsKnown
<1>7. \A k \in Remembered : Before(origin[k], h.from)
  BY <1>3 DEF FlightInv, StartedFirst
<1>8. InOrder'
  BY <1>3 DEF FlightInv, InOrder, QueuesInOrder
<1>9. StartedFirst'
  <2> SUFFICES ASSUME NEW k \in Remembered'
               PROVE  /\ Before(origin'[k], Here)
                      /\ \A x \in Flight' : Before(origin'[k], x.from)
    BY <1>3 DEF StartedFirst
  <2>1. CASE k \in Remembered
    BY <1>3, <1>5, <2>1 DEF FlightInv, StartedFirst
  <2>2. CASE k = new
    BY <1>3, <1>5, <2>2 DEF FlightInv, InOrder
  <2> QED BY <1>5, <2>1, <2>2
<1>10. AttemptsAreAlike'
  BY <1>3 DEF FlightInv, AttemptsAreAlike
<1>11. StartedIsKnown'
  <2> SUFFICES ASSUME NEW k \in Remembered', NEW x \in Flight', origin'[k] = x.from
               PROVE  Known(x)'
    BY DEF StartedIsKnown
  <2>1. CASE k \in Remembered
    <3>1. Before(origin[k], h.from) /\ Before(h.from, origin[k])
      BY <1>3, <1>5, <1>7, <2>1
    <3>2. origin[k] = h.from
      BY <1>4, <1>5, <2>1, <3>1, BeforeIsAnOrder
    <3> QED BY <1>6, <2>1, <3>2
  <2>2. CASE k = new
    <3>1. x = h
      BY <1>3, <1>5, <2>2 DEF FlightInv, AttemptsAreAlike
    <3> QED BY <1>2, <3>1 DEF Known, Slot, Holds
  <2> QED BY <1>5, <2>1, <2>2
<1>12. WorkedOnOnce'
  <2> SUFFICES ASSUME NEW i \in Remembered', NEW j \in Remembered', origin'[i] = origin'[j]
               PROVE  i = j
    BY DEF WorkedOnOnce
  <2>1. CASE i \in Remembered /\ j \in Remembered
    BY <1>5, <2>1 DEF FlightInv, WorkedOnOnce
  <2>2. CASE i \in Remembered /\ j = new
    BY <1>5, <1>6, <2>2
  <2>3. CASE i = new /\ j \in Remembered
    BY <1>5, <1>6, <2>3
  <2> QED BY <1>5, <2>1, <2>2, <2>3
<1> QED BY <1>8, <1>9, <1>10, <1>11, <1>12 DEF FlightInv

\* A session ends when its process is gone: with no packet left in the endpoint,
\* nothing of it is under way that the emptied cache would not know.
LEMMA SeeDtrFallKeepsFlight ==
  ASSUME ClientTypes, FlightInv, ~LeftoverPacket, SeeDtrFall
  PROVE  FlightInv'
<1>1. /\ ~dtr /\ line' = <<>> /\ requests' = <<>>
      /\ UNCHANGED <<client, dtr, origin, Remembered>>
  BY DEF SeeDtrFall, EndSession, Remembered, clientVars
<1>2. client.phase = "Closed"
  BY <1>1 DEF ClientTypes
<1>3. DOMAIN line' = {} /\ DOMAIN requests' = {}
  BY <1>1, EmptySeq, LenProperties
<1>4. OnLine' = {} /\ Flight' = {} /\ Here' = Here
  BY <1>1, <1>2, <1>3 DEF OnLine, Flight, Here
<1> QED BY <1>1, <1>3, <1>4 DEF FlightInv, InOrder, StartedFirst, AttemptsAreAlike,
                                StartedIsKnown, WorkedOnOnce

\* What remains under way when the receiver takes bytes off the line.
LEMMA ShorteningKeepsOrder ==
  ASSUME ClientTypes, FlightInv, \E t \in 0 .. Len(line) : Shortened(t),
         requests' \in {requests, <<>>}, UNCHANGED client
  PROVE  Flight' \subseteq Flight /\ QueuesInOrder' /\ Here' = Here
<1> DEFINE P == [frame: CommandFrame \cup {HeartbeatFrame}, part: {1, 2}]
<1>1. PICK t \in 0 .. Len(line) : Shortened(t)
  OBVIOUS
<1>2. line \in Seq(P) /\ Len(line) \in Nat
  BY DEF ClientTypes
<1> HIDE DEF P
<1>3. \A k \in DOMAIN line' : k \in Nat /\ k + t \in DOMAIN line /\ line'[k] = line[k + t]
  BY <1>1, <1>2, SuffixFacts DEF Shortened
<1>4. \A k \in OnLine' : k \in Nat /\ k + t \in OnLine /\ line'[k] = line[k + t]
  BY <1>3 DEF OnLine
<1>5. \A k \in DOMAIN requests' : k \in DOMAIN requests /\ requests'[k] = requests[k]
  BY EmptySeq, LenProperties
<1>6. Flight' \subseteq Flight
  <2> SUFFICES ASSUME NEW x \in Flight' PROVE x \in Flight
    OBVIOUS
  <2>1. CASE \E k \in DOMAIN requests' : x = requests'[k]
    BY <1>5, <2>1 DEF Flight
  <2>2. CASE \E k \in OnLine' : x = line'[k].frame
    BY <1>4, <2>2 DEF Flight
  <2>3. CASE x = CurrentFrame' /\ client'.phase # "Closed"
    BY <2>3 DEF Flight, CurrentFrame
  <2> QED BY <2>1, <2>2, <2>3 DEF Flight
<1>7. QueuesInOrder'
  <2>1. ASSUME NEW i \in OnLine', NEW j \in OnLine', i <= j
        PROVE  Before(line'[i].frame.from, line'[j].frame.from)
    <3>1. i + t <= j + t
      BY <1>2, <1>4, <2>1
    <3> QED BY <1>4, <3>1 DEF FlightInv, InOrder
  <2>2. \A i \in DOMAIN requests', j \in OnLine' : Before(requests'[i].from, line'[j].frame.from)
    BY <1>4, <1>5 DEF FlightInv, InOrder
  <2>3. \A i, j \in DOMAIN requests' : i <= j => Before(requests'[i].from, requests'[j].from)
    BY <1>5 DEF FlightInv, InOrder
  <2> QED BY <2>1, <2>2, <2>3 DEF QueuesInOrder
<1> QED BY <1>6, <1>7 DEF Here

\* Noise on the line is nobody's command.
LEMMA DiscardKeepsFlight ==
  ASSUME ClientTypes, FlightInv, Discard
  PROVE  FlightInv'
<1>1. UNCHANGED <<requests, cache, client, origin, Remembered>>
  BY DEF Discard, Remembered, coordVars, clientVars
<1>2. \E t \in 0 .. Len(line) : Shortened(t)
  BY LineIsShortened DEF Shortened
<1>3. Flight' \subseteq Flight /\ QueuesInOrder' /\ Here' = Here
  BY <1>1, <1>2, ShorteningKeepsOrder
<1>4. \A x : Known(x) => Known(x)'
  BY <1>1 DEF Known, Slot, Holds
<1> QED BY <1>1, <1>3, <1>4, FlightShrinks

\* The lease expires with attempts under way: nothing is remembered of them, in the
\* cache as in the books.
LEMMA LeaseExpiresKeepsFlight ==
  ASSUME ClientTypes, DeviceTypes, FlightInv, LeaseExpires
  PROVE  FlightInv'
<1>1. requests' = <<>> /\ UNCHANGED <<client, origin, started>> /\ forgotten' = DOMAIN origin
  BY DEF LeaseExpires, EndSession, clientVars
<1>2. Remembered' = {}
  BY <1>1 DEF Remembered, DeviceTypes
<1>3. Flight' \subseteq Flight /\ QueuesInOrder' /\ Here' = Here
  BY <1>1, LineIsShortened, ShorteningKeepsOrder
<1>4. InOrder' /\ AttemptsAreAlike'
  BY <1>3 DEF FlightInv, InOrder, QueuesInOrder, AttemptsAreAlike
<1> QED BY <1>2, <1>4 DEF FlightInv, StartedFirst, StartedIsKnown, WorkedOnOnce

\* Every step keeps what is known of commands under way.
LEMMA NextKeepsFlight ==
  ASSUME ~LeftoverPacket, ClientTypes, DeviceTypes, FlightInv, [Next]_vars
  PROVE  FlightInv'
<1>1. ClientTypes'
  BY NextKeepsTypes
<1>2. /\ DOMAIN origin \subseteq Nat
      /\ \A k \in Remembered : origin[k] \in Number
  <2>1. origin \in Seq(Number) /\ Remembered \subseteq DOMAIN origin
    BY DEF DeviceTypes, Remembered
  <2>2. DOMAIN origin = 1 .. Len(origin) /\ Len(origin) \in Nat
    BY <2>1, LenProperties
  <2> QED BY <2>1, <2>2
<1>3. client.run \in Nat /\ client.number \in Nat
  BY DEF ClientTypes
<1>4. CASE Open \/ (\E command \in ClientCommand : Send(command)) \/ Drop
  <2>1. /\ UNCHANGED <<requests, line, cache, origin, Remembered>>
        /\ Here' \in {<<client.run + 1, 0>>, <<client.run, client.number + 1>>}
    <3>1. CASE Open
      <4>1. client' = [client EXCEPT !.phase = "Idle", !.run = @ + 1, !.number = 0,
                                     !.next = FirstSequence, !.closing = FALSE]
        BY <3>1 DEF Open
      <4>2. client'.run = client.run + 1 /\ client'.number = 0
        BY <4>1 DEF ClientTypes
      <4> QED BY <3>1, <4>2 DEF Open, Here, Remembered, deviceVars, coordVars
    <3>2. CASE (\E command \in ClientCommand : Send(command)) \/ Drop
      <4>1. client'.run = client.run /\ client'.number = client.number + 1
        BY <3>2 DEF Send, Drop, ClientTypes
      <4> QED BY <3>2, <4>1 DEF Send, Drop, Here, Remembered, deviceVars, coordVars
    <3> QED BY <1>4, <3>1, <3>2
  <2>2. Before(Here, Here') /\ Here' # Here
    BY <1>3, <2>1 DEF Before, Here
  <2> QED BY <1>1, <1>2, <2>1, <2>2, FlightTurns
<1>5. CASE ClientLocks \/ ClientWrites
  <2>1. /\ UNCHANGED <<requests, cache, origin, Remembered>>
        /\ client.phase # "Closed"
        /\ \E part \in {1, 2} : line' = Append(line, [frame |-> CurrentFrame, part |-> part])
        /\ \E ph \in ClientPhase : client' = [client EXCEPT !.phase = ph]
    BY <1>5 DEF ClientLocks, ClientWrites, ClientPhase, Remembered, deviceVars, coordVars
  <2>2. CurrentFrame' = CurrentFrame /\ Here' = Here
    BY <2>1 DEF CurrentFrame, Here, ClientTypes
  <2> QED BY <2>1, <2>2, WritingKeepsFlight
<1>6. CASE HeartbeatWrites \/ (HeartbeatChecks /\ ~stopped)
  <2>1. /\ UNCHANGED <<requests, cache, origin, Remembered, client>>
        /\ \E part \in {1, 2} : line' = Append(line, [frame |-> HeartbeatFrame, part |-> part])
    BY <1>6 DEF HeartbeatWrites, HeartbeatChecks, HeartbeatGoesTo, Remembered, deviceVars,
                clientVars, coordVars
  <2>2. /\ CurrentFrame' = CurrentFrame /\ Here' = Here
        /\ HeartbeatFrame # CurrentFrame
    <3>1. CurrentFrame.sequence # 0
      BY FlightTypes, SequenceFacts DEF CommandFrame
    <3> QED BY <2>1, <3>1 DEF CurrentFrame, Here, HeartbeatFrame
  <2> QED BY <2>1, <2>2, WritingKeepsFlight
<1>7. CASE Receive
  BY <1>7, ReceiveKeepsFlight
<1>8. CASE SeeDtrFall
  BY <1>8, SeeDtrFallKeepsFlight
<1>9. CASE AdmitNew
  BY <1>9, AdmitNewKeepsFlight
<1>10. CASE AnswerAtOnce
  BY <1>10, AnswerAtOnceKeepsFlight
<1>11. ASSUME UNCHANGED <<requests, line, origin, Remembered>>,
              CurrentFrame' = CurrentFrame, Here' = Here,
              client'.phase # "Closed" => client.phase # "Closed",
              \A x : Known(x) => Known(x)'
       PROVE  FlightInv'
  <2>1. OnLine' = OnLine
    BY <1>11 DEF OnLine
  <2>2. Flight' \subseteq Flight
    BY <1>11, <2>1 DEF Flight
  <2>3. QueuesInOrder'
    BY <1>11, <2>1 DEF QueuesInOrder, FlightInv, InOrder
  <2> QED BY <1>11, <2>2, <2>3, FlightShrinks
<1>12. CASE \/ ClientFlushes \/ SkipStale \/ Conclude \/ ReadBusy \/ Wake \/ Timeout \/ Join
            \/ Killed \/ Tick \/ HeartbeatLocks \/ HeartbeatToldToStop \/ HeartbeatFlushes
            \/ (HeartbeatChecks /\ stopped) \/ SeeDtrRise \/ Respond \/ Over \/ UNCHANGED vars
  <2>1. UNCHANGED <<requests, line, cache, origin, Remembered>>
    BY <1>12 DEF ClientFlushes, SkipStale, Conclude, ReadBusy, Wake, Timeout,
       Join, Killed, Tick, HeartbeatLocks, HeartbeatToldToStop, HeartbeatFlushes,
       HeartbeatChecks, HeartbeatGoesTo, SeeDtrRise, Respond, Over, Remembered, coordVars,
       deviceVars, vars
  <2>2. \/ UNCHANGED client
        \/ \E ph \in ClientPhase : client' = [client EXCEPT !.phase = ph]
        \/ client' = [client EXCEPT !.phase = "Locking", !.attempt = @ + 1]
    BY <1>12 DEF ClientPhase, ClientFlushes, SkipStale, Conclude, ReadBusy, Wake, Timeout,
       Join, Killed, Tick, HeartbeatLocks, HeartbeatToldToStop, HeartbeatFlushes,
       HeartbeatChecks, HeartbeatGoesTo, SeeDtrRise, Respond, Over, Return, Retry, clientVars,
       vars
  <2>3. CurrentFrame' = CurrentFrame /\ Here' = Here
    BY <2>2 DEF CurrentFrame, Here, ClientTypes
  <2>4. client'.phase # "Closed" => client.phase # "Closed"
    BY <1>12 DEF ClientFlushes, SkipStale, Conclude, ReadBusy, Wake, Timeout,
       Join, Killed, Tick, HeartbeatLocks, HeartbeatToldToStop, HeartbeatFlushes,
       HeartbeatChecks, HeartbeatGoesTo, SeeDtrRise, Respond, Over, clientVars, vars
  <2>5. \A x : Known(x) => Known(x)'
    BY <2>1 DEF Known, Slot, Holds
  <2> QED BY <1>11, <2>1, <2>3, <2>4, <2>5
<1>13. CASE FinishJob \/ FinishRelease
  <2>1. KeepsEntries /\ UNCHANGED <<requests, line, origin, Remembered, client>>
    BY <1>13, FinishJobEffect, FinishReleaseEffect DEF FinishJob, FinishRelease,
       Remembered, clientVars
  <2>2. \A x : Known(x) => Known(x)'
    BY <2>1 DEF KeepsEntries, Known, Slot, Holds
  <2>3. CurrentFrame' = CurrentFrame /\ Here' = Here
    BY <2>1 DEF CurrentFrame, Here
  <2> QED BY <1>11, <2>1, <2>2, <2>3
<1>14. CASE Discard
  BY <1>14, DiscardKeepsFlight
<1>15. CASE LeaseExpires
  BY <1>15, LeaseExpiresKeepsFlight
<1> QED
  BY <1>4, <1>5, <1>6, <1>7, <1>8, <1>9, <1>10, <1>12, <1>13, <1>14, <1>15
  DEF Next, ClientStep, HeartbeatStep, DeviceStep

\* Types hold whatever is left in the endpoint.
THEOREM ClientTypesHold == Spec => [](ClientTypes /\ DeviceTypes)
<1>1. ClientTypes /\ DeviceTypes /\ [Next]_vars => (ClientTypes /\ DeviceTypes)'
  BY NextKeepsTypes, NextKeepsDeviceTypes
<1> QED BY InitTypes, <1>1, PTL DEF Spec

\* However often a command is retransmitted, however late its answers and whatever
\* the cache evicts meanwhile, the device works on it at most once between two ends of
\* the lease: an attempt made after the lease expired may be worked on again, since
\* clear_session forgot the first, and once more only.  That no packet of a session
\* waits in the endpoint for the next one is assumed, and needed.
THEOREM AtMostOnce == ~LeftoverPacket => (Spec => []WorkedOnOnce)
<1> SUFFICES ASSUME ~LeftoverPacket PROVE Spec => []WorkedOnOnce
  OBVIOUS
<1>1. ClientTypes /\ DeviceTypes /\ FlightInv /\ [Next]_vars => FlightInv'
  BY NextKeepsFlight
<1>2. FlightInv => WorkedOnOnce
  BY DEF FlightInv
<1> QED BY InitFlight, ClientTypesHold, <1>1, <1>2, PTL DEF Spec

\* Nothing is forgotten where no process is held up beyond the lease.
LEMMA NextKeepsAll ==
  ASSUME ~MayStall, forgotten = {}, [Next]_vars PROVE forgotten' = {}
<1>1. UNCHANGED forgotten
  BY DEF Next, Open, Send, Drop, ClientLocks, ClientStep, ClientWrites, ClientFlushes, SkipStale,
     Conclude, ReadBusy, Wake, Timeout, Join, Killed, Tick, HeartbeatLocks, HeartbeatStep,
     HeartbeatToldToStop, HeartbeatChecks, HeartbeatWrites, HeartbeatFlushes, HeartbeatGoesTo,
     DeviceStep, Receive, Discard, SeeDtrRise, SeeDtrFall, AdmitNew, AnswerAtOnce,
     FinishRelease, Respond, FinishJob, LeaseExpires, Over, deviceVars, vars
<1> QED BY <1>1

\* No two admissions that were worked on, ever, are of the same command.
WorkedOnOnceEver == \A i, j \in started : origin[i] = origin[j] => i = j

\* Where no process is held up beyond the lease, the device works on a command at most
\* once, in whatever sessions its attempts are admitted.
THEOREM OnceForGood ==
  ~LeftoverPacket /\ ~MayStall => (Spec => []WorkedOnOnceEver)
<1> SUFFICES ASSUME ~LeftoverPacket, ~MayStall PROVE Spec => []WorkedOnOnceEver
  OBVIOUS
<1>1. Init => forgotten = {}
  BY DEF Init
<1>2. forgotten = {} /\ [Next]_vars => (forgotten = {})'
  BY NextKeepsAll
<1>3. forgotten = {} /\ WorkedOnOnce => WorkedOnOnceEver
  BY DEF WorkedOnOnce, WorkedOnOnceEver, Remembered
<1> QED BY AtMostOnce, <1>1, <1>2, <1>3, PTL DEF Spec

-----------------------------------------------------------------------------
(* The two threads.                                                        *)

\* Who holds write_mutex, and what the flag says to a thread that does.
ThreadInv ==
  /\ client.phase \in {"Writing", "Flushing"} => writeMutex = "Client"
  /\ heartbeat \in {"Checking", "Writing", "Flushing"} => writeMutex = "Heartbeat"
  /\ client.phase = "Closed" => heartbeat = "None"
  /\ client.phase = "Joining" => client.closing
  /\ client.closing =>
       /\ stopped /\ client.command = "StopAll"
       /\ client.phase \in {"Closed", "Locking", "Writing", "Flushing", "Joining"}
       /\ client.phase \in {"Writing", "Flushing", "Joining"} =>
            heartbeat \notin {"Writing", "Flushing"}

\* Main thread, heartbeat thread and nobody are three.
LEMMA HoldersDiffer == None # "Client" /\ None # "Heartbeat" /\ "Client" # "Heartbeat"
BY ClientAssumption DEF ClientAssumption

\* Every step keeps the mutex and the flag honest.
LEMMA NextKeepsThreads ==
  ASSUME ClientTypes, ThreadInv, [Next]_vars PROVE ThreadInv'
<1>1. client \in [phase: ClientPhase, run: Nat, number: Nat, command: Command,
                  sequence: SequenceNumber, next: SequenceNumber, attempt: Nat,
                  closing: BOOLEAN, sent: Nat]
  BY DEF ClientTypes
<1>2. CASE Open
  <2>1. client'.phase = "Idle" /\ client'.closing = FALSE
    BY <1>1, <1>2 DEF Open
  <2> QED BY <1>2, <2>1 DEF Open, ThreadInv
<1>3. ASSUME NEW command \in ClientCommand, Send(command) PROVE ThreadInv'
  <2>1. client'.phase = "Locking" /\ client'.closing = client.closing
    BY <1>1, <1>3 DEF Send
  <2> QED BY <1>3, <2>1 DEF Send, ThreadInv, threadVars
<1>4. CASE Drop
  <2>1. client'.phase = "Locking" /\ client'.closing = TRUE /\ client'.command = "StopAll"
    BY <1>1, <1>4 DEF Drop
  <2> QED BY <1>4, <2>1 DEF Drop, ThreadInv
<1>5. CASE ClientLocks
  <2>1. /\ client'.phase = "Writing" /\ client'.closing = client.closing
        /\ client'.command = client.command
    BY <1>1, <1>5 DEF ClientLocks
  <2> QED BY <1>5, <2>1, HoldersDiffer DEF ClientLocks, ThreadInv
<1>6. CASE ClientWrites
  <2>1. /\ client'.phase = "Flushing" /\ client'.closing = client.closing
        /\ client'.command = client.command
    BY <1>1, <1>6 DEF ClientWrites
  <2> QED BY <1>6, <2>1 DEF ClientWrites, ThreadInv, threadVars
<1>7. CASE ClientFlushes
  <2>1. /\ client'.phase = IF client.closing THEN "Joining" ELSE "Reading"
        /\ client'.closing = client.closing /\ client'.command = client.command
    BY <1>1, <1>7 DEF ClientFlushes
  <2> QED BY <1>7, <2>1, HoldersDiffer DEF ClientFlushes, ThreadInv
<1>8. CASE Conclude \/ ReadBusy \/ Wake \/ Timeout
  <2>1. /\ client.phase \in {"Reading", "Sleeping"}
        /\ client'.phase \in {"Idle", "Sleeping", "Locking"}
        /\ client'.closing = client.closing
    BY <1>1, <1>8 DEF Conclude, ReadBusy, Wake, Timeout, Return, Retry
  <2>2. UNCHANGED threadVars
    BY <1>8 DEF Conclude, ReadBusy, Wake, Timeout
  <2> QED BY <2>1, <2>2 DEF ThreadInv, threadVars
<1>9. CASE Join \/ Killed
  <2>1. /\ client'.phase = "Closed" /\ client'.closing = client.closing
        /\ client'.command = client.command
    BY <1>1, <1>9 DEF Join, Killed
  <2> QED BY <1>9, <2>1 DEF Join, Killed, ThreadInv
<1>10. CASE Tick \/ HeartbeatLocks \/ HeartbeatStep
  <2>1. UNCHANGED <<client, stopped>>
    BY <1>10 DEF Tick, HeartbeatLocks, HeartbeatStep, HeartbeatToldToStop, HeartbeatChecks,
                 HeartbeatWrites, HeartbeatFlushes, HeartbeatGoesTo, clientVars
  <2>2. CASE Tick \/ HeartbeatToldToStop
    BY <2>1, <2>2 DEF Tick, HeartbeatToldToStop, HeartbeatGoesTo, ThreadInv
  <2>3. CASE HeartbeatLocks
    BY <2>1, <2>3, HoldersDiffer DEF HeartbeatLocks, HeartbeatGoesTo, ThreadInv
  <2>4. CASE HeartbeatChecks
    BY <2>1, <2>4, HoldersDiffer DEF HeartbeatChecks, HeartbeatGoesTo, ThreadInv
  <2>5. CASE HeartbeatWrites
    BY <2>1, <2>5 DEF HeartbeatWrites, HeartbeatGoesTo, ThreadInv
  <2>6. CASE HeartbeatFlushes
    BY <2>1, <2>6, HoldersDiffer DEF HeartbeatFlushes, HeartbeatGoesTo, ThreadInv
  <2> QED BY <1>10, <2>2, <2>3, <2>4, <2>5, <2>6 DEF HeartbeatStep
<1>11. CASE SkipStale \/ DeviceStep \/ LeaseExpires \/ FinishJob \/ Over \/ UNCHANGED vars
  <2>1. UNCHANGED <<client, threadVars>>
    BY <1>11 DEF SkipStale, DeviceStep, Receive, Discard, SeeDtrRise, SeeDtrFall, LeaseExpires,
       AdmitNew,
       AnswerAtOnce, FinishRelease, Respond, FinishJob, Over, vars, clientVars
  <2> QED BY <2>1 DEF ThreadInv, threadVars
<1> QED
  BY <1>2, <1>3, <1>4, <1>5, <1>6, <1>7, <1>8, <1>9, <1>10, <1>11 DEF Next, ClientStep

\* Once Drop's STOP_ALL is being written, only it makes the line longer.
LEMMA NextWritesNothingAfterStop ==
  ASSUME ClientTypes, ThreadInv, [Next]_vars,
         client.closing, client.phase \in {"Writing", "Flushing", "Joining"},
         Len(line') > Len(line)
  PROVE  line'[Len(line')].frame.command = "StopAll"
<1> DEFINE P == [frame: CommandFrame \cup {HeartbeatFrame}, part: {1, 2}]
<1>1. line \in Seq(P) /\ Len(line) \in Nat
  BY LenProperties DEF ClientTypes
<1>2. /\ stopped /\ client.command = "StopAll"
      /\ heartbeat \notin {"Writing", "Flushing"}
  BY DEF ThreadInv
<1>3. ~(Len(line) > Len(line))
  BY <1>1
<1>4. CASE UNCHANGED line
  BY <1>3, <1>4
<1>5. CASE ClientWrites
  <2> DEFINE piece == [frame |-> CurrentFrame, part |-> 2]
  <2>1. line' = Append(line, piece)
    BY <1>5 DEF ClientWrites
  <2>2. piece \in P
    BY FlightTypes
  <2>3. piece.frame.command = "StopAll"
    BY <1>2 DEF CurrentFrame
  <2> HIDE DEF piece, P
  <2>4. Len(line') = Len(line) + 1 /\ line'[Len(line) + 1] = piece
    BY <1>1, <2>1, <2>2, AppendProperties
  <2> QED BY <2>3, <2>4
<1>6. CASE Receive \/ Discard \/ LeaseExpires
  <2>1. \E t \in 0 .. Len(line) : Shortened(t)
    BY <1>6, LineIsShortened DEF Shortened
  <2>2. PICK t \in 0 .. Len(line) : Shortened(t)
    BY <2>1
  <2> HIDE DEF P
  <2>3. Len(line') = Len(line) - t
    BY <1>1, <2>2, SuffixFacts DEF Shortened
  <2> QED BY <1>1, <2>3
<1>7. CASE SeeDtrFall
  <2>1. line' = <<>> \/ line' = line
    BY <1>7 DEF SeeDtrFall
  <2>2. Len(<<>>) = 0
    OBVIOUS
  <2>3. ~(0 > Len(line))
    BY <1>1
  <2> QED BY <1>3, <2>1, <2>2, <2>3
<1>8. CASE ClientLocks \/ HeartbeatWrites \/ (HeartbeatChecks /\ ~stopped)
  BY <1>2, <1>8 DEF ClientLocks, HeartbeatWrites
<1>9. CASE \/ Open \/ (\E command \in ClientCommand : Send(command)) \/ Drop
           \/ ClientFlushes \/ SkipStale \/ Conclude \/ ReadBusy \/ Wake \/ Timeout \/ Join
           \/ Killed \/ Tick \/ HeartbeatLocks \/ HeartbeatToldToStop \/ HeartbeatFlushes
           \/ (HeartbeatChecks /\ stopped) \/ SeeDtrRise \/ AdmitNew \/ AnswerAtOnce
           \/ FinishRelease \/ Respond \/ FinishJob \/ Over \/ UNCHANGED vars
  <2>1. UNCHANGED line
    BY <1>9 DEF Open, Send, Drop, ClientFlushes, SkipStale, Conclude, ReadBusy, Wake, Timeout,
       Join, Killed, Tick, HeartbeatLocks, HeartbeatToldToStop, HeartbeatFlushes,
       HeartbeatChecks, HeartbeatGoesTo, SeeDtrRise, AdmitNew, AnswerAtOnce, FinishRelease,
       Respond, FinishJob, Over, vars
  <2> QED BY <1>4, <2>1
<1> QED
  BY <1>5, <1>6, <1>7, <1>8, <1>9 DEF Next, ClientStep, HeartbeatStep, DeviceStep

\* The mutex and the flag are honest at all times.
LEMMA ThreadsAgree == Spec => []ThreadInv
<1>1. Init => ThreadInv
  BY DEF Init, ThreadInv
<1>2. ClientTypes /\ ThreadInv /\ [Next]_vars => ThreadInv'
  BY NextKeepsThreads
<1> QED BY ClientTypesHold, <1>1, <1>2, PTL DEF Spec

\* The heartbeat that waited for the mutex while STOP_ALL was written finds the flag
\* and writes nothing: STOP_ALL is the last frame of its process.
THEOREM StopIsLastFrame == Spec => NothingFollowsStop
<1> DEFINE A == client.closing /\ client.phase \in {"Writing", "Flushing", "Joining"}
                  /\ Len(line') > Len(line)
                => line'[Len(line')].frame.command = "StopAll"
<1>1. ClientTypes /\ ThreadInv /\ [Next]_vars => [A]_vars
  BY NextWritesNothingAfterStop
<1> QED BY ClientTypesHold, ThreadsAgree, <1>1, PTL DEF Spec, NothingFollowsStop

-----------------------------------------------------------------------------
(* The bytes on the line.                                                  *)

\* A piece begins a frame, or completes the one before it, unless that was lost.
Pieces ==
  \A k \in DOMAIN line :
    IF k = 1 THEN MayStall \/ line[k].part = 1
    ELSE IF line[k - 1].part = 2 THEN line[k].part = 1
    ELSE line[k] = [line[k - 1] EXCEPT !.part = 2]

\* The line ends with whole frames only; or with the first half of a frame.
AtBoundary == line = <<>> \/ line[Len(line)].part = 2
Half(frame) == line # <<>> /\ line[Len(line)] = [frame |-> frame, part |-> 1]
HalfOrLost(frame) == Half(frame) \/ (MayStall /\ line = <<>>)

\* Half a frame is that of the thread which is writing, or of a process whose end the
\* device has yet to see.
LineInv ==
  /\ Pieces
  /\ client.phase = "Writing" => HalfOrLost(CurrentFrame)
  /\ heartbeat = "Writing" => HalfOrLost(HeartbeatFrame)
  /\ client.phase \notin {"Closed", "Writing"} /\ heartbeat # "Writing" => AtBoundary
  /\ client.phase = "Joining" => line = <<>>
  /\ client.phase = "Closed" /\ ~previousDtr => line = <<>>

LinePiece == [frame: CommandFrame \cup {HeartbeatFrame}, part: {1, 2}]

\* A line is a sequence of pieces.
LEMMA LineFacts ==
  ASSUME ClientTypes
  PROVE  /\ line \in Seq(LinePiece) /\ Len(line) \in Nat /\ DOMAIN line = 1 .. Len(line)
         /\ line # <<>> <=> Len(line) \in DOMAIN line
         /\ \A k \in DOMAIN line : line[k] \in LinePiece
         /\ CurrentFrame \in CommandFrame
<1>1. line \in Seq(LinePiece) /\ CurrentFrame \in CommandFrame
  BY FlightTypes DEF ClientTypes, LinePiece
<1>2. /\ Len(line) \in Nat /\ DOMAIN line = 1 .. Len(line)
      /\ line # <<>> => Len(line) # 0
      /\ line = <<>> => Len(line) = 0
  BY <1>1, EmptySeq, LenProperties
<1>3. line # <<>> <=> Len(line) \in DOMAIN line
  BY <1>2
<1>4. \A k \in DOMAIN line : line[k] \in LinePiece
  BY <1>1
<1> QED BY <1>1, <1>2, <1>3, <1>4

\* Frames are whole where pieces begin or complete them.
LEMMA PiecesAreWhole ==
  ASSUME ClientTypes, Pieces PROVE FramesAreWhole
<1>1. /\ Len(line) \in Nat /\ DOMAIN line = 1 .. Len(line)
      /\ \A k \in DOMAIN line : line[k] \in LinePiece
  BY LineFacts
<1> SUFFICES ASSUME NEW k \in DOMAIN line
             PROVE  /\ line[k].part = 2 => \/ MayStall /\ k = 1
                                           \/ k > 1 /\ line[k - 1] = [line[k] EXCEPT !.part = 1]
                    /\ line[k].part = 1 /\ k < Len(line) =>
                         line[k + 1].frame = line[k].frame
  BY DEF FramesAreWhole
<1>2. ASSUME line[k].part = 2, ~(MayStall /\ k = 1)
      PROVE  k > 1 /\ line[k - 1] = [line[k] EXCEPT !.part = 1]
  <2>1. k # 1 /\ line[k - 1].part # 2 /\ line[k] = [line[k - 1] EXCEPT !.part = 2]
    BY <1>2 DEF Pieces
  <2>2. k > 1 /\ k - 1 \in DOMAIN line
    BY <1>1, <2>1
  <2>3. line[k - 1] \in LinePiece
    BY <1>1, <2>2
  <2> DEFINE p == line[k - 1]
  <2>4. p \in LinePiece /\ p.part # 2 /\ line[k] = [p EXCEPT !.part = 2]
    BY <2>1, <2>3
  <2> HIDE DEF p
  <2>5. p.part = 1
    BY <2>4 DEF LinePiece
  <2>6. p = [[p EXCEPT !.part = 2] EXCEPT !.part = 1]
    BY <2>4, <2>5 DEF LinePiece
  <2> QED BY <2>2, <2>4, <2>6 DEF p
<1>3. ASSUME line[k].part = 1, k < Len(line)
      PROVE  line[k + 1].frame = line[k].frame
  <2> DEFINE m == k + 1
  <2>1. m \in DOMAIN line /\ m # 1 /\ m - 1 = k
    BY <1>1, <1>3
  <2> HIDE DEF m
  <2>2. line[m - 1].part # 2
    BY <1>3, <2>1
  <2>3. line[m] = [line[m - 1] EXCEPT !.part = 2]
    BY <2>1, <2>2 DEF Pieces
  <2>4. line[m] = [line[k] EXCEPT !.part = 2]
    BY <2>1, <2>3
  <2>5. line[k] \in LinePiece
    BY <1>1
  <2>6. line[m].frame = line[k].frame
    BY <2>4, <2>5 DEF LinePiece
  <2> QED BY <2>6 DEF m
<1> QED BY <1>2, <1>3

\* A frame is begun where the last one is complete.
LEMMA BeginningKeepsPieces ==
  ASSUME ClientTypes, Pieces, AtBoundary,
         NEW frame \in CommandFrame \cup {HeartbeatFrame},
         line' = Append(line, [frame |-> frame, part |-> 1])
  PROVE  Pieces' /\ line' # <<>> /\ line'[Len(line')] = [frame |-> frame, part |-> 1]
<1> DEFINE piece == [frame |-> frame, part |-> 1]
           n == Len(line)
<1>1. piece \in LinePiece /\ piece.part = 1
  BY DEF LinePiece
<1>2. line' = Append(line, piece)
  OBVIOUS
<1>3. /\ line \in Seq(LinePiece) /\ n \in Nat /\ DOMAIN line = 1 .. n
      /\ line # <<>> <=> n \in DOMAIN line
  BY LineFacts
<1> HIDE DEF piece
<1>4. /\ line' \in Seq(LinePiece) /\ Len(line') = n + 1 /\ line' # <<>>
      /\ \A k \in 1 .. n : line'[k] = line[k]
      /\ line'[n + 1] = piece
  BY <1>1, <1>2, <1>3, AppendProperties
<1>5. DOMAIN line' = 1 .. n + 1
  BY <1>4, LenProperties
<1>6. n # 0 => line[n].part = 2
  BY <1>3 DEF AtBoundary
<1> HIDE DEF n
<1>7. Pieces'
  <2> SUFFICES ASSUME NEW k \in DOMAIN line'
               PROVE  IF k = 1 THEN MayStall \/ line'[k].part = 1
                      ELSE IF line'[k - 1].part = 2 THEN line'[k].part = 1
                      ELSE line'[k] = [line'[k - 1] EXCEPT !.part = 2]
    BY DEF Pieces
  <2>1. CASE k = n + 1
    <3>1. k = 1 \/ (n \in 1 .. n /\ k - 1 = n)
      BY <1>3, <1>5, <2>1
    <3>2. k = 1 \/ line'[k - 1].part = 2
      BY <1>3, <1>4, <1>6, <3>1
    <3> QED BY <1>1, <1>4, <2>1, <3>2
  <2>2. CASE k \in 1 .. n
    <3>1. k = 1 \/ k - 1 \in 1 .. n
      BY <1>3, <2>2
    <3>2. line'[k] = line[k] /\ (k # 1 => line'[k - 1] = line[k - 1])
      BY <1>4, <2>2, <3>1
    <3> QED BY <1>3, <2>2, <3>2 DEF Pieces
  <2> QED BY <1>3, <1>5, <2>1, <2>2
<1> QED BY <1>4, <1>7 DEF piece

\* What was begun is completed.
LEMMA CompletingKeepsPieces ==
  ASSUME ClientTypes, Pieces,
         NEW frame \in CommandFrame \cup {HeartbeatFrame}, HalfOrLost(frame),
         line' = Append(line, [frame |-> frame, part |-> 2])
  PROVE  Pieces' /\ line' # <<>> /\ line'[Len(line')].part = 2
<1> DEFINE piece == [frame |-> frame, part |-> 2]
           half == [frame |-> frame, part |-> 1]
           n == Len(line)
<1>1. piece \in LinePiece /\ piece.part = 2
  BY DEF LinePiece
<1>2. line' = Append(line, piece)
  OBVIOUS
<1>3. /\ line \in Seq(LinePiece) /\ n \in Nat /\ DOMAIN line = 1 .. n
      /\ line # <<>> <=> n \in DOMAIN line
  BY LineFacts
<1>4. \/ n \in 1 .. n /\ line[n] = half
      \/ MayStall /\ n = 0
  BY <1>3, EmptySeq DEF Half, HalfOrLost
<1>5. half.part = 1 /\ piece = [half EXCEPT !.part = 2]
  OBVIOUS
<1> HIDE DEF piece, half
<1>6. /\ line' \in Seq(LinePiece) /\ Len(line') = n + 1 /\ line' # <<>>
      /\ \A k \in 1 .. n : line'[k] = line[k]
      /\ line'[n + 1] = piece
  BY <1>1, <1>2, <1>3, AppendProperties
<1>7. DOMAIN line' = 1 .. n + 1
  BY <1>6, LenProperties
<1> HIDE DEF n
<1>8. Pieces'
  <2> SUFFICES ASSUME NEW k \in DOMAIN line'
               PROVE  IF k = 1 THEN MayStall \/ line'[k].part = 1
                      ELSE IF line'[k - 1].part = 2 THEN line'[k].part = 1
                      ELSE line'[k] = [line'[k - 1] EXCEPT !.part = 2]
    BY DEF Pieces
  <2>1. CASE k = n + 1
    <3>1. CASE n \in 1 .. n /\ line[n] = half
      <4>1. k # 1 /\ k - 1 = n
        BY <1>3, <2>1, <3>1
      <4>2. line'[k - 1] = half /\ line'[k] = piece
        BY <1>6, <2>1, <3>1, <4>1
      <4> QED BY <1>5, <4>1, <4>2
    <3>2. CASE MayStall /\ n = 0
      BY <2>1, <3>2
    <3> QED BY <1>4, <3>1, <3>2
  <2>2. CASE k \in 1 .. n
    <3>1. k = 1 \/ k - 1 \in 1 .. n
      BY <1>3, <2>2
    <3>2. line'[k] = line[k] /\ (k # 1 => line'[k - 1] = line[k - 1])
      BY <1>6, <2>2, <3>1
    <3> QED BY <1>3, <2>2, <3>2 DEF Pieces
  <2> QED BY <1>3, <1>7, <2>1, <2>2
<1> QED BY <1>1, <1>6, <1>8

\* The device takes what is at the head: up to the end of a frame, unless it drops
\* the beginning of one after a stall.
LEMMA SuffixKeepsPieces ==
  ASSUME ClientTypes, Pieces, NEW t \in 0 .. Len(line), Shortened(t),
         MayStall \/ t = 0 \/ line[t].part = 2
  PROVE  /\ Pieces' /\ (AtBoundary => AtBoundary')
         /\ \A f : Half(f) => Half(f)' \/ (MayStall /\ line' = <<>>)
         /\ line = <<>> => line' = <<>>
<1> DEFINE n == Len(line)
<1>1. /\ line \in Seq(LinePiece) /\ n \in Nat /\ DOMAIN line = 1 .. n
      /\ t \in Nat /\ t <= n
      /\ line = <<>> <=> n = 0
  BY LineFacts, EmptySeq
<1>2. /\ line' \in Seq(LinePiece) /\ Len(line') = n - t
      /\ DOMAIN line' = 1 .. n - t
      /\ \A k \in DOMAIN line' : k \in Nat /\ k + t \in DOMAIN line /\ line'[k] = line[k + t]
  <2>1. line' = SubSeq(line, t + 1, Len(line))
    BY DEF Shortened
  <2>2. line \in Seq(LinePiece)
    BY <1>1
  <2>3. /\ line' \in Seq(LinePiece) /\ Len(line') = Len(line) - t
        /\ DOMAIN line' = 1 .. Len(line) - t
    BY <2>1, <2>2, SuffixFacts
  <2>4. \A k \in DOMAIN line' : k \in Nat /\ k + t \in DOMAIN line /\ line'[k] = line[k + t]
    BY <2>1, <2>2, SuffixFacts
  <2> QED BY <2>3, <2>4
<1> HIDE DEF n
<1>3. line' = <<>> <=> n = t
  <2>1. line' = <<>> <=> Len(line') = 0
    BY <1>2, EmptySeq
  <2> QED BY <1>1, <1>2, <2>1
<1>4. Pieces'
  <2> SUFFICES ASSUME NEW k \in DOMAIN line'
               PROVE  IF k = 1 THEN MayStall \/ line'[k].part = 1
                      ELSE IF line'[k - 1].part = 2 THEN line'[k].part = 1
                      ELSE line'[k] = [line'[k - 1] EXCEPT !.part = 2]
    BY DEF Pieces
  <2> DEFINE m == k + t
  <2>1. k \in Nat \ {0} /\ m \in DOMAIN line /\ line'[k] = line[m] /\ (m = 1 => k = 1 /\ t = 0)
    BY <1>1, <1>2
  <2>2. IF m = 1 THEN MayStall \/ line[m].part = 1
        ELSE IF line[m - 1].part = 2 THEN line[m].part = 1
        ELSE line[m] = [line[m - 1] EXCEPT !.part = 2]
    BY <2>1 DEF Pieces
  <2>3. CASE k = 1
    <3>1. m - 1 = t /\ (m = 1 <=> t = 0)
      BY <1>1, <2>3
    <3>2. MayStall \/ line[m].part = 1
      BY <2>2, <3>1
    <3> QED BY <2>1, <2>3, <3>2
  <2>4. CASE k # 1
    <3>1. k - 1 \in DOMAIN line' /\ m # 1
      <4>1. k \in 1 .. n - t
        BY <1>2
      <4>2. k - 1 \in 1 .. n - t
        BY <1>1, <2>1, <2>4, <4>1
      <4> QED BY <1>2, <2>1, <2>4, <4>2
    <3>2. (k - 1) + t = m - 1
      BY <1>1, <2>1
    <3>3. line'[k - 1] = line[m - 1]
      BY <1>2, <3>1, <3>2
    <3> QED BY <2>1, <2>2, <2>4, <3>1, <3>3
  <2> QED BY <2>3, <2>4
<1>5. line' # <<>> => line # <<>> /\ line'[Len(line')] = line[n]
  <2> SUFFICES ASSUME line' # <<>> PROVE line # <<>> /\ line'[n - t] = line[n]
    BY <1>2
  <2>1. n - t \in DOMAIN line' /\ (n - t) + t = n /\ n # 0
    BY <1>1, <1>2, <1>3
  <2> QED BY <1>1, <1>2, <2>1
<1>6. AtBoundary => AtBoundary'
  BY <1>5 DEF AtBoundary, n
<1>7. ASSUME NEW f, Half(f) PROVE Half(f)' \/ (MayStall /\ line' = <<>>)
  <2>1. line # <<>> /\ line[n] = [frame |-> f, part |-> 1]
    BY <1>7 DEF Half, n
  <2>2. line[n].part = 1 /\ n # 0
    BY <1>1, <2>1
  <2>3. line' = <<>> => MayStall
    BY <1>3, <2>2
  <2> QED BY <1>5, <2>1, <2>3 DEF Half
<1> QED BY <1>4, <1>5, <1>6, <1>7

\* The receiver, and what makes it give up, leave the rest of the line in order.
LEMMA TakingKeepsPieces ==
  ASSUME ClientTypes, Pieces, Receive \/ Discard \/ LeaseExpires
  PROVE  /\ Pieces' /\ (AtBoundary => AtBoundary')
         /\ \A f : Half(f) => Half(f)' \/ (MayStall /\ line' = <<>>)
         /\ line = <<>> => line' = <<>>
<1>1. \E t \in 0 .. Len(line) : Shortened(t) /\ (MayStall \/ t = 0 \/ line[t].part = 2)
  <2>1. Len(line) \in Nat /\ DOMAIN line = 1 .. Len(line)
        /\ \A k \in DOMAIN line : line[k] \in LinePiece
    BY LineFacts
  <2>2. CASE Receive
    <3>1. 1 \in DOMAIN line /\ 2 \in DOMAIN line /\ line[1].part = 1 /\ Shortened(2)
      BY <2>1, <2>2, LineIsShortened DEF Receive
    <3>2. 2 # 1 /\ 2 - 1 = 1
      OBVIOUS
    <3>3. line[2] = [line[1] EXCEPT !.part = 2]
      BY <3>1, <3>2 DEF Pieces
    <3>4. line[2].part = 2
      BY <2>1, <3>1, <3>3 DEF LinePiece
    <3> QED BY <3>1, <3>4 DEF Shortened
  <2>3. CASE Discard
    BY <2>3, LineIsShortened DEF Discard, Shortened
  <2>4. CASE LeaseExpires
    BY <2>4, LineIsShortened DEF LeaseExpires
  <2> QED BY <2>2, <2>3, <2>4
<1> QED BY <1>1, SuffixKeepsPieces

\* Every step keeps the frames on the line apart.
LEMMA NextKeepsLine ==
  ASSUME ~LeftoverPacket, ~CoalescedDtr, ClientTypes, ThreadInv, LineInv, [Next]_vars
  PROVE  LineInv'
<1>1. client \in [phase: ClientPhase, run: Nat, number: Nat, command: Command,
                  sequence: SequenceNumber, next: SequenceNumber, attempt: Nat,
                  closing: BOOLEAN, sent: Nat]
  BY DEF ClientTypes
<1>2. CurrentFrame \in CommandFrame
  BY FlightTypes
<1>3. CASE Open
  <2>1. client'.phase = "Idle" /\ line = <<>> /\ line' = <<>> /\ heartbeat' = "Waiting"
    BY <1>1, <1>3 DEF Open, LineInv
  <2> QED BY <2>1 DEF LineInv, Pieces, AtBoundary
<1>4. CASE (\E command \in ClientCommand : Send(command)) \/ Drop
  <2>1. client.phase = "Idle" /\ client'.phase = "Locking" /\ UNCHANGED <<line, heartbeat>>
    BY <1>1, <1>4 DEF Send, Drop, threadVars
  <2> QED BY <2>1 DEF LineInv, Pieces, AtBoundary, Half, HalfOrLost,
           HeartbeatFrame
<1>5. CASE ClientLocks
  <2>1. /\ client.phase = "Locking" /\ writeMutex = None /\ client'.phase = "Writing"
        /\ UNCHANGED heartbeat /\ CurrentFrame' = CurrentFrame
        /\ line' = Append(line, [frame |-> CurrentFrame, part |-> 1])
    BY <1>1, <1>5 DEF ClientLocks, CurrentFrame
  <2>2. heartbeat # "Writing"
    BY <2>1, HoldersDiffer DEF ThreadInv
  <2>3. AtBoundary /\ Pieces
    BY <2>1, <2>2 DEF LineInv
  <2>4. Pieces' /\ line' # <<>> /\ line'[Len(line')] = [frame |-> CurrentFrame, part |-> 1]
    BY <1>2, <2>1, <2>3, BeginningKeepsPieces
  <2>5. HalfOrLost(CurrentFrame)'
    BY <2>1, <2>4 DEF Half, HalfOrLost
  <2> QED BY <2>1, <2>2, <2>4, <2>5 DEF LineInv
<1>6. CASE ClientWrites
  <2>1. /\ client.phase = "Writing" /\ client'.phase = "Flushing" /\ UNCHANGED heartbeat
        /\ line' = Append(line, [frame |-> CurrentFrame, part |-> 2])
    BY <1>1, <1>6 DEF ClientWrites, threadVars
  <2>2. heartbeat # "Writing"
    BY <2>1, HoldersDiffer DEF ThreadInv
  <2>3. HalfOrLost(CurrentFrame) /\ Pieces
    BY <2>1 DEF LineInv
  <2>4. Pieces' /\ AtBoundary'
    BY <1>2, <2>1, <2>3, CompletingKeepsPieces DEF AtBoundary
  <2> QED BY <2>1, <2>2, <2>4 DEF LineInv
<1>7. CASE ClientFlushes
  <2>1. /\ line = <<>> /\ line' = <<>> /\ UNCHANGED heartbeat
        /\ client.phase = "Flushing" /\ client'.phase \in {"Joining", "Reading"}
    BY <1>1, <1>7 DEF ClientFlushes
  <2>2. heartbeat # "Writing"
    BY <2>1, HoldersDiffer DEF ThreadInv
  <2> QED BY <2>1, <2>2 DEF LineInv, Pieces, AtBoundary
<1>8. CASE Conclude \/ ReadBusy \/ Wake \/ Timeout
  <2>1. /\ client.phase \in {"Reading", "Sleeping"}
        /\ client'.phase \in {"Idle", "Sleeping", "Locking"}
    BY <1>1, <1>8 DEF Conclude, ReadBusy, Wake, Timeout, Return, Retry
  <2>2. UNCHANGED <<line, heartbeat>>
    BY <1>8 DEF Conclude, ReadBusy, Wake, Timeout, threadVars
  <2> QED BY <2>1, <2>2 DEF LineInv, Pieces, AtBoundary, Half, HalfOrLost,
           HeartbeatFrame
<1>9. CASE Join
  <2>1. line = <<>> /\ line' = <<>> /\ client'.phase = "Closed" /\ heartbeat' = "None"
    BY <1>1, <1>9 DEF Join, LineInv
  <2> QED BY <2>1 DEF LineInv, Pieces
<1>10. CASE Killed
  <2>1. /\ client'.phase = "Closed" /\ heartbeat' = "None" /\ UNCHANGED line
        /\ previousDtr /\ previousDtr' = previousDtr
    BY <1>1, <1>10 DEF Killed, deviceVars
  <2>2. Pieces'
    BY <2>1 DEF LineInv, Pieces
  <2>3. previousDtr'
    BY <2>1
  <2> QED BY <2>1, <2>2, <2>3 DEF LineInv
<1>11. CASE Tick \/ HeartbeatLocks \/ HeartbeatToldToStop \/ (HeartbeatChecks /\ stopped)
            \/ HeartbeatFlushes
  <2>1. /\ heartbeat # "Writing" /\ heartbeat' # "Writing"
        /\ UNCHANGED <<client, line, previousDtr>>
    BY <1>11 DEF Tick, HeartbeatLocks, HeartbeatToldToStop, HeartbeatChecks, HeartbeatFlushes,
                 HeartbeatGoesTo, clientVars, deviceVars
  <2> QED BY <2>1 DEF LineInv, Pieces, AtBoundary, Half, HalfOrLost, CurrentFrame
<1>12. CASE HeartbeatChecks /\ ~stopped
  <2>1. /\ heartbeat = "Checking" /\ heartbeat' = "Writing"
        /\ UNCHANGED client
        /\ line' = Append(line, [frame |-> HeartbeatFrame, part |-> 1])
    BY <1>12 DEF HeartbeatChecks, HeartbeatGoesTo, clientVars
  <2>2. client.phase \notin {"Closed", "Writing", "Joining"}
    BY <1>12, <2>1, HoldersDiffer DEF ThreadInv
  <2>3. AtBoundary /\ Pieces
    BY <2>1, <2>2 DEF LineInv
  <2>4. /\ Pieces' /\ line' # <<>>
        /\ line'[Len(line')] = [frame |-> HeartbeatFrame, part |-> 1]
    BY <2>1, <2>3, BeginningKeepsPieces
  <2>5. HalfOrLost(HeartbeatFrame)'
    BY <2>4 DEF Half, HalfOrLost, HeartbeatFrame
  <2> QED BY <2>1, <2>2, <2>4, <2>5 DEF LineInv
<1>13. CASE HeartbeatWrites
  <2>1. /\ heartbeat = "Writing" /\ heartbeat' = "Flushing"
        /\ UNCHANGED client
        /\ line' = Append(line, [frame |-> HeartbeatFrame, part |-> 2])
    BY <1>13 DEF HeartbeatWrites, HeartbeatGoesTo, clientVars
  <2>2. client.phase \notin {"Closed", "Writing", "Joining"}
    BY <2>1, HoldersDiffer DEF ThreadInv
  <2>3. HalfOrLost(HeartbeatFrame) /\ Pieces
    BY <2>1 DEF LineInv
  <2>4. Pieces' /\ AtBoundary'
    BY <2>1, <2>3, CompletingKeepsPieces DEF AtBoundary
  <2> QED BY <2>1, <2>2, <2>4 DEF LineInv
<1>14. CASE Receive \/ Discard \/ LeaseExpires
  <2>1. UNCHANGED <<client, heartbeat>> /\ previousDtr' /\ CurrentFrame' = CurrentFrame
    <3>1. CASE Receive
      BY <3>1 DEF Receive, clientVars, threadVars, CurrentFrame
    <3>2. CASE Discard
      BY <3>2 DEF Discard, clientVars, threadVars, CurrentFrame
    <3>3. CASE LeaseExpires
      BY <3>3 DEF LeaseExpires, clientVars, threadVars, CurrentFrame
    <3> QED BY <1>14, <3>1, <3>2, <3>3
  <2>2. /\ Pieces' /\ (AtBoundary => AtBoundary')
        /\ \A f : Half(f) => Half(f)' \/ (MayStall /\ line' = <<>>)
        /\ line = <<>> => line' = <<>>
    BY <1>14, TakingKeepsPieces DEF LineInv
  <2>3. \A f : HalfOrLost(f) => Half(f)' \/ (MayStall /\ line' = <<>>)
    BY <2>2 DEF HalfOrLost
  <2>4. HeartbeatFrame' = HeartbeatFrame
    BY DEF HeartbeatFrame
  <2>5. /\ HalfOrLost(CurrentFrame) => HalfOrLost(CurrentFrame)'
        /\ HalfOrLost(HeartbeatFrame) => HalfOrLost(HeartbeatFrame)'
    BY <2>1, <2>3, <2>4 DEF Half, HalfOrLost
  <2> QED BY <2>1, <2>2, <2>5 DEF LineInv
<1>15. CASE SeeDtrFall
  <2>1. ~dtr /\ line' = <<>> /\ UNCHANGED <<client, heartbeat>>
    BY <1>15 DEF SeeDtrFall, clientVars, threadVars
  <2>2. client.phase = "Closed"
    BY <2>1 DEF ClientTypes
  <2>3. heartbeat = "None"
    BY <2>2 DEF ThreadInv
  <2> QED BY <2>1, <2>2, <2>3 DEF LineInv, Pieces
<1>16. CASE SeeDtrRise
  <2>1. UNCHANGED <<client, heartbeat, line>>
    BY <1>16 DEF SeeDtrRise, clientVars, threadVars
  <2>2. previousDtr'
    BY <1>16 DEF SeeDtrRise
  <2> QED BY <2>1, <2>2 DEF LineInv, Pieces, AtBoundary, Half, HalfOrLost,
           CurrentFrame, HeartbeatFrame
<1>17. CASE \/ SkipStale \/ AdmitNew \/ AnswerAtOnce \/ FinishRelease \/ Respond \/ FinishJob
            \/ Over \/ UNCHANGED vars
  <2>1. UNCHANGED <<client, heartbeat, line, previousDtr>>
    BY <1>17 DEF SkipStale, AdmitNew, AnswerAtOnce, FinishRelease, Respond, FinishJob, Over,
                 clientVars, threadVars, deviceVars, vars
  <2> QED BY <2>1 DEF LineInv, Pieces, AtBoundary, Half, HalfOrLost,
           CurrentFrame, HeartbeatFrame
<1> QED
  BY <1>3, <1>4, <1>5, <1>6, <1>7, <1>8, <1>9, <1>10, <1>11, <1>12, <1>13, <1>14, <1>15,
     <1>16, <1>17
  DEF Next, ClientStep, HeartbeatStep, DeviceStep

\* The two threads' frames never mix, and half a frame of a killed process is not
\* completed by the next one, as long as the device sees the line fall between them
\* and finds no packet of the first left in the endpoint.
THEOREM FramesStayWhole ==
  ~LeftoverPacket /\ ~CoalescedDtr => (Spec => []FramesAreWhole)
<1> SUFFICES ASSUME ~LeftoverPacket, ~CoalescedDtr PROVE Spec => []FramesAreWhole
  OBVIOUS
<1>1. Init => LineInv
  BY EmptySeq DEF Init, LineInv, Pieces, AtBoundary
<1>2. ClientTypes /\ ThreadInv /\ LineInv /\ [Next]_vars => LineInv'
  BY NextKeepsLine
<1>3. ClientTypes /\ LineInv => FramesAreWhole
  BY PiecesAreWhole DEF LineInv
<1> QED BY ClientTypesHold, ThreadsAgree, <1>1, <1>2, <1>3, PTL DEF Spec
-----------------------------------------------------------------------------
(* Types, in full.                                                         *)

\* How many processes, commands and attempts there have been.
Counts ==
  /\ client.run <= RunLimit /\ client.sent <= CommandLimit /\ client.attempt <= Retries
  /\ client.number <= client.sent + (IF client.closing THEN 1 ELSE 0)
  /\ client.phase = "Sleeping" => client.attempt < Retries
  /\ client.phase # "Closed" => client.run >= 1
  /\ client.phase \notin {"Closed", "Idle"} => client.number >= 1

\* The frames that the main thread has sent and the device has not admitted; the
\* answers on their way; the admissions that the device remembers.
Waiting == {requests[k] : k \in DOMAIN requests} \cup {line[k].frame : k \in OnLine}
Replies == {responses[k] : k \in DOMAIN responses} \cup {inbox[k] : k \in DOMAIN inbox}
Tokens == {cache[i].token : i \in Slot} \cup {stops[k] : k \in DOMAIN stops}

\* The variables that ClientTypes and DeviceTypes leave out.
OtherTypes ==
  /\ heartbeat \in HeartbeatPhase
  /\ stopped \in BOOLEAN /\ dtr \in BOOLEAN
  /\ previousDtr \in BOOLEAN /\ releasing \in BOOLEAN
  /\ writeMutex \in {"Client", "Heartbeat", None}
  /\ results \in [Origin -> {"None", "Ok", "Error"}]

\* The queues behind REQUESTS.
QueueTypes ==
  /\ inbox \in Seq(Reply)
  /\ responses \in Seq(Reply) /\ Len(responses) <= ResponseCapacity
  /\ Len(requests) <= RequestCapacity
  /\ stops \in Seq(Token)

\* Every command under way was sent, and every admission remembered took place.
Records ==
  /\ \A x \in Waiting : x.from \in Origin
  /\ \A k \in DOMAIN origin : origin[k] \in Origin
  /\ \A t \in Tokens : t.id \in DOMAIN origin
  /\ job # None => job.id \in DOMAIN origin
  /\ finished \subseteq DOMAIN origin

\* A final answer that says yes is cached only for what has been done.
CachedIsDone ==
  \A i \in Slot : ~IsActive(i) /\ cache[i].response.kind \in {"Ack", "Status"} =>
    cache[i].token.id \in finished

\* A sequence of members of B is a sequence over B.
LEMMA SeqOfMembers ==
  ASSUME NEW A, NEW s \in Seq(A), NEW B, \A k \in DOMAIN s : s[k] \in B
  PROVE  s \in Seq(B)
<1>1. Len(s) \in Nat /\ s \in [1 .. Len(s) -> A] /\ DOMAIN s = 1 .. Len(s)
  BY LenProperties
<1>2. s \in [1 .. Len(s) -> B]
  BY <1>1
<1> QED BY <1>1, <1>2, SeqDef

\* Bounds are natural numbers.
LEMMA BoundFacts ==
  /\ RunLimit \in Nat /\ CommandLimit \in Nat /\ Retries \in Nat
  /\ RequestCapacity \in Nat \ {0} /\ ResponseCapacity \in Nat \ {0}
BY ClientAssumption DEF ClientAssumption

\* A command that is being sent was counted.
LEMMA HereIsCounted ==
  ASSUME ClientTypes, Counts, client.phase \notin {"Closed", "Idle"}
  PROVE  Here \in Origin /\ Here[1] = client.run /\ Here[2] = client.number
<1>1. client.run \in Nat /\ client.number \in Nat /\ client.sent \in Nat
  BY DEF ClientTypes
<1>2. client.run \in 1 .. RunLimit
  BY <1>1, BoundFacts DEF Counts
<1>3. client.number \in 1 .. CommandLimit + 1
  <2>1. (IF client.closing THEN 1 ELSE 0) \in 0 .. 1
    OBVIOUS
  <2> DEFINE d == IF client.closing THEN 1 ELSE 0
  <2>2. d \in 0 .. 1 /\ client.number <= client.sent + d /\ client.number >= 1
        /\ client.sent <= CommandLimit
    BY <2>1 DEF Counts
  <2> HIDE DEF d
  <2> QED BY <1>1, <2>2, BoundFacts
<1> QED BY <1>2, <1>3 DEF Here, Origin

\* Every step counts.
LEMMA NextKeepsCounts ==
  ASSUME ClientTypes, ThreadInv, Counts, [Next]_vars PROVE Counts'
<1>1. /\ client \in [phase: ClientPhase, run: Nat, number: Nat, command: Command,
                     sequence: SequenceNumber, next: SequenceNumber, attempt: Nat,
                     closing: BOOLEAN, sent: Nat]
  BY DEF ClientTypes
<1>2. /\ client.run <= RunLimit /\ client.sent <= CommandLimit /\ client.attempt <= Retries
      /\ client.number <= client.sent + (IF client.closing THEN 1 ELSE 0)
  BY DEF Counts
<1>3. CASE Open
  <2>1. /\ client.run < RunLimit
        /\ client' = [client EXCEPT !.phase = "Idle", !.run = @ + 1, !.number = 0,
                                    !.next = FirstSequence, !.closing = FALSE]
    BY <1>3 DEF Open
  <2>2. /\ client'.phase = "Idle" /\ client'.run = client.run + 1 /\ client'.number = 0
        /\ client'.closing = FALSE /\ client'.sent = client.sent
        /\ client'.attempt = client.attempt
    BY <1>1, <2>1
  <2>3. client.run \in Nat /\ client.sent \in Nat
    BY <1>1
  <2>4. client'.run <= RunLimit /\ client'.run >= 1 /\ client'.number <= client'.sent + 0
    BY <2>1, <2>2, <2>3, BoundFacts
  <2> QED BY <1>2, <2>2, <2>4 DEF Counts
<1>4. ASSUME NEW command \in ClientCommand, Send(command) PROVE Counts'
  <2>1. /\ client.phase = "Idle" /\ client.sent < CommandLimit
        /\ client' = [client EXCEPT !.phase = "Locking", !.number = @ + 1, !.sent = @ + 1,
                              !.command = command, !.sequence = client.next,
                              !.next = NextSequence(@), !.attempt = 0]
    BY <1>4 DEF Send
  <2>2. /\ client'.phase = "Locking" /\ client'.run = client.run
        /\ client'.number = client.number + 1
        /\ client'.closing = client.closing /\ client'.sent = client.sent + 1
        /\ client'.attempt = 0
    BY <1>1, <2>1
  <2>3. client.closing = FALSE /\ client.run >= 1
    BY <1>1, <2>1 DEF ThreadInv, Counts
  <2>4. client.run \in Nat /\ client.sent \in Nat /\ client.number \in Nat
    BY <1>1
  <2>5. client.number <= client.sent + 0
    BY <1>2, <2>3
  <2>6. /\ client'.number <= client'.sent + 0 /\ client'.sent <= CommandLimit
        /\ client'.number >= 1 /\ client'.attempt <= Retries
    BY <2>1, <2>2, <2>4, <2>5, BoundFacts
  <2> QED BY <1>2, <2>2, <2>3, <2>6 DEF Counts
<1>5. CASE Drop
  <2>1. /\ client.phase = "Idle"
        /\ client' = [client EXCEPT !.phase = "Locking", !.number = @ + 1,
                              !.command = "StopAll", !.sequence = client.next,
                              !.next = NextSequence(@), !.attempt = 0,
                              !.closing = TRUE]
    BY <1>5 DEF Drop
  <2>2. /\ client'.phase = "Locking" /\ client'.run = client.run
        /\ client'.number = client.number + 1
        /\ client'.closing = TRUE /\ client'.sent = client.sent
        /\ client'.attempt = 0
    BY <1>1, <2>1
  <2>3. client.closing = FALSE /\ client.run >= 1
    BY <1>1, <2>1 DEF ThreadInv, Counts
  <2>4. client.run \in Nat /\ client.sent \in Nat /\ client.number \in Nat
    BY <1>1
  <2>5. client.number <= client.sent + 0
    BY <1>2, <2>3
  <2>6. /\ client'.number <= client'.sent + 1
        /\ client'.number >= 1 /\ client'.attempt <= Retries
    BY <2>2, <2>4, <2>5, BoundFacts
  <2> QED BY <1>2, <2>2, <2>3, <2>6 DEF Counts
<1>6. CASE \/ ClientLocks \/ ClientWrites \/ ClientFlushes \/ Conclude \/ ReadBusy \/ Wake
           \/ Timeout \/ Join \/ Killed
  <2>1. \/ \E ph \in {"Writing", "Flushing", "Reading", "Idle", "Joining", "Closed"} :
             client' = [client EXCEPT !.phase = ph]
        \/ client.attempt < Retries /\ client' = [client EXCEPT !.phase = "Sleeping"]
        \/ client.attempt < Retries
             /\ client' = [client EXCEPT !.phase = "Locking", !.attempt = @ + 1]
    BY <1>1, <1>6 DEF ClientLocks, ClientWrites, ClientFlushes, Conclude, ReadBusy, Wake,
       Timeout, Join, Killed, Return, Retry, Counts
  <2>2. client.phase \notin {"Closed", "Idle"} \/ client'.phase = "Closed"
    BY <1>1, <1>6 DEF ClientLocks, ClientWrites, ClientFlushes, Conclude, ReadBusy, Wake,
       Timeout, Join, Killed
  <2>3. /\ client'.run = client.run /\ client'.number = client.number
        /\ client'.sent = client.sent /\ client'.closing = client.closing
        /\ client'.attempt <= Retries
        /\ client'.phase = "Sleeping" => client'.attempt < Retries
    <3>1. client.attempt \in Nat
      BY <1>1
    <3>2. client.attempt < Retries => client.attempt + 1 <= Retries
      BY <3>1, BoundFacts
    <3> DEFINE a == client.attempt + 1
    <3>3. client.attempt < Retries => a <= Retries
      BY <3>2
    <3>4. \/ \E ph \in {"Writing", "Flushing", "Reading", "Idle", "Joining", "Closed"} :
             client' = [client EXCEPT !.phase = ph]
          \/ client.attempt < Retries /\ client' = [client EXCEPT !.phase = "Sleeping"]
          \/ client.attempt < Retries
             /\ client' = [client EXCEPT !.phase = "Locking", !.attempt = a]
      BY <2>1
    <3> HIDE DEF a
    <3> QED BY <1>1, <1>2, <3>3, <3>4
  <2> QED BY <1>2, <2>2, <2>3 DEF Counts
<1>7. CASE \/ Tick \/ HeartbeatLocks \/ HeartbeatStep \/ SkipStale \/ DeviceStep \/ LeaseExpires
           \/ FinishJob \/ Over \/ UNCHANGED vars
  <2>1. UNCHANGED client
    BY <1>7 DEF Tick, HeartbeatLocks, HeartbeatStep, HeartbeatToldToStop, HeartbeatChecks,
       HeartbeatWrites, HeartbeatFlushes, HeartbeatGoesTo, SkipStale, DeviceStep, Receive,
       Discard, SeeDtrRise, SeeDtrFall, EndSession, LeaseExpires, AdmitNew, AnswerAtOnce,
       FinishRelease, Respond, FinishJob, Over,
       vars, clientVars
  <2> QED BY <2>1 DEF Counts
<1> QED BY <1>3, <1>4, <1>5, <1>6, <1>7 DEF Next, ClientStep

\* Every step keeps the simple variables simple.
LEMMA NextKeepsOtherTypes ==
  ASSUME ClientTypes, Counts, OtherTypes, [Next]_vars PROVE OtherTypes'
<1>1. /\ {"None", "Waiting", "Locking", "Checking", "Writing", "Flushing", "Exited"}
           = HeartbeatPhase
      /\ {"None", "Ok", "Error"} = {"None", "Ok", "Error"}
  BY DEF HeartbeatPhase
<1>2. heartbeat' \in HeartbeatPhase
  <2>1. \/ heartbeat' \in {"None", "Waiting", "Locking", "Checking", "Writing", "Flushing",
                           "Exited"}
        \/ UNCHANGED heartbeat
    BY DEF Next, Open, Send, Drop, ClientLocks, ClientStep, ClientWrites, ClientFlushes,
       SkipStale, Conclude, ReadBusy, Wake, Timeout, Join, Killed, Tick, HeartbeatLocks,
       HeartbeatStep, HeartbeatToldToStop, HeartbeatChecks, HeartbeatWrites, HeartbeatFlushes,
       HeartbeatGoesTo, DeviceStep, Receive, Discard, SeeDtrRise, SeeDtrFall,
       EndSession, LeaseExpires, AdmitNew, AnswerAtOnce,
       FinishRelease, Respond, FinishJob, Over, vars, threadVars
  <2> QED BY <1>1, <2>1 DEF OtherTypes
<1>3. stopped' \in BOOLEAN /\ dtr' \in BOOLEAN
  <2>1. (stopped' \in BOOLEAN \/ UNCHANGED stopped) /\ (dtr' \in BOOLEAN \/ UNCHANGED dtr)
    BY DEF Next, Open, Send, Drop, ClientLocks, ClientStep, ClientWrites, ClientFlushes,
       SkipStale, Conclude, ReadBusy, Wake, Timeout, Join, Killed, Tick, HeartbeatLocks,
       HeartbeatStep, HeartbeatToldToStop, HeartbeatChecks, HeartbeatWrites, HeartbeatFlushes,
       HeartbeatGoesTo, DeviceStep, Receive, Discard, SeeDtrRise, SeeDtrFall,
       EndSession, LeaseExpires, AdmitNew, AnswerAtOnce,
       FinishRelease, Respond, FinishJob, Over, vars, threadVars
  <2> QED BY <2>1 DEF OtherTypes
<1>4. previousDtr' \in BOOLEAN /\ releasing' \in BOOLEAN
  <2>1. /\ previousDtr' \in BOOLEAN \/ UNCHANGED previousDtr
        /\ releasing' \in BOOLEAN \/ UNCHANGED releasing
    BY DEF Next, Open, Send, Drop, ClientLocks, ClientStep, ClientWrites, ClientFlushes,
       SkipStale, Conclude, ReadBusy, Wake, Timeout, Join, Killed, Tick, HeartbeatLocks,
       HeartbeatStep, HeartbeatToldToStop, HeartbeatChecks, HeartbeatWrites, HeartbeatFlushes,
       HeartbeatGoesTo, DeviceStep, Receive, Discard, SeeDtrRise, SeeDtrFall,
       EndSession, LeaseExpires, AdmitNew, AnswerAtOnce,
       FinishRelease, Respond, FinishJob, Over, vars, deviceVars
  <2> QED BY <2>1 DEF OtherTypes
<1>5. writeMutex' \in {"Client", "Heartbeat", None}
  <2>1. writeMutex' \in {"Client", "Heartbeat", None} \/ UNCHANGED writeMutex
    BY DEF Next, Open, Send, Drop, ClientLocks, ClientStep, ClientWrites, ClientFlushes,
       SkipStale, Conclude, ReadBusy, Wake, Timeout, Join, Killed, Tick, HeartbeatLocks,
       HeartbeatStep, HeartbeatToldToStop, HeartbeatChecks, HeartbeatWrites, HeartbeatFlushes,
       HeartbeatGoesTo, DeviceStep, Receive, Discard, SeeDtrRise, SeeDtrFall,
       EndSession, LeaseExpires, AdmitNew, AnswerAtOnce,
       FinishRelease, Respond, FinishJob, Over, vars, threadVars
  <2> QED BY <2>1 DEF OtherTypes
<1>6. results' \in [Origin -> {"None", "Ok", "Error"}]
  <2>1. \/ UNCHANGED results
        \/ \E result \in {"Ok", "Error"} :
             results' = [results EXCEPT ![<<client.run, client.number>>] = result]
    BY DEF Next, Open, Send, Drop, ClientLocks, ClientStep, ClientWrites, ClientFlushes,
       SkipStale, Conclude, ReadBusy, Wake, Timeout, Join, Killed, Tick, HeartbeatLocks,
       HeartbeatStep, HeartbeatToldToStop, HeartbeatChecks, HeartbeatWrites, HeartbeatFlushes,
       HeartbeatGoesTo, DeviceStep, Receive, Discard, SeeDtrRise, SeeDtrFall,
       EndSession, LeaseExpires, AdmitNew, AnswerAtOnce,
       FinishRelease, Respond, FinishJob, Over, vars, clientVars, Return
  <2> QED BY <2>1 DEF OtherTypes
<1> QED BY <1>2, <1>3, <1>4, <1>5, <1>6 DEF OtherTypes

\* What is answered joins RESPONSES, as far as there is room.
LEMMA QueueRepliesEffect ==
  ASSUME QueueTypes, NEW replies \in Seq(Reply), QueueReplies(replies)
  PROVE  /\ responses' \in Seq(Reply) /\ Len(responses') <= ResponseCapacity
         /\ \A k \in DOMAIN responses' :
              \/ \E j \in DOMAIN responses : responses'[k] = responses[j]
              \/ \E j \in DOMAIN replies : responses'[k] = replies[j]
<1> DEFINE all == responses \o replies
           m == Len(responses)
           n == Len(replies)
<1>1. responses \in Seq(Reply) /\ m \in Nat /\ DOMAIN responses = 1 .. m
  BY LenProperties DEF QueueTypes
<1>2. n \in Nat /\ DOMAIN replies = 1 .. n
  BY LenProperties
<1>3. /\ all \in Seq(Reply) /\ Len(all) = m + n
      /\ \A i \in 1 .. m + n : all[i] = IF i <= m THEN responses[i] ELSE replies[i - m]
  BY <1>1, ConcatProperties
<1>4. responses' = IF Len(all) <= ResponseCapacity THEN all
                   ELSE SubSeq(all, 1, ResponseCapacity)
  BY DEF QueueReplies
<1> HIDE DEF all, m, n
<1>5. DOMAIN all = 1 .. m + n /\ Len(all) \in Nat
  BY <1>3, LenProperties
<1>6. \A i \in 1 .. m + n : \/ \E j \in DOMAIN responses : all[i] = responses[j]
                            \/ \E j \in DOMAIN replies : all[i] = replies[j]
  <2> SUFFICES ASSUME NEW i \in 1 .. m + n
               PROVE  \/ \E j \in DOMAIN responses : all[i] = responses[j]
                      \/ \E j \in DOMAIN replies : all[i] = replies[j]
    OBVIOUS
  <2>1. CASE i <= m
    <3>1. i \in 1 .. m /\ all[i] = responses[i]
      BY <1>1, <1>2, <1>3, <2>1
    <3> QED BY <1>1, <3>1
  <2>2. CASE ~(i <= m)
    <3>1. i - m \in 1 .. n /\ all[i] = replies[i - m]
      BY <1>1, <1>2, <1>3, <2>2
    <3> QED BY <1>2, <3>1
  <2> QED BY <2>1, <2>2
<1>7. CASE Len(all) <= ResponseCapacity
  BY <1>3, <1>4, <1>5, <1>6, <1>7
<1>8. CASE ~(Len(all) <= ResponseCapacity)
  <2>1. ResponseCapacity \in Nat \ {0} /\ ResponseCapacity < Len(all)
    BY <1>5, <1>8, BoundFacts
  <2> DEFINE c == ResponseCapacity
             part == SubSeq(all, 1, c)
  <2>2. c \in Nat \ {0} /\ c < Len(all) /\ responses' = part
    BY <1>4, <1>8, <2>1
  <2>3. 1 .. c \subseteq 1 .. m + n
    BY <1>1, <1>2, <1>3, <2>2
  <2>4. \A i \in 1 .. c : all[i] \in Reply
    BY <1>3, <1>5, <2>3
  <2> HIDE DEF c
  <2>5. /\ part \in Seq(Reply) /\ Len(part) = IF 1 <= c THEN c - 1 + 1 ELSE 0
        /\ \A i \in 1 .. c - 1 + 1 : part[i] = all[1 + i - 1]
    BY <2>2, <2>4, SubSeqProperties
  <2> HIDE DEF part
  <2>6. Len(part) = c /\ DOMAIN part = 1 .. c
    <3>1. Len(part) = c
      BY <2>2, <2>5
    <3> QED BY <2>5, <3>1, LenProperties
  <2>7. \A i \in 1 .. c : part[i] = all[i]
    <3> SUFFICES ASSUME NEW i \in 1 .. c PROVE part[i] = all[i]
      OBVIOUS
    <3>1. i \in 1 .. c - 1 + 1 /\ 1 + i - 1 = i
      BY <2>2
    <3>2. part[i] = all[1 + i - 1]
      BY <2>5, <3>1
    <3> QED BY <3>1, <3>2
  <2>8. Len(responses') <= ResponseCapacity
    BY <2>2, <2>6 DEF c
  <2> QED BY <1>6, <2>2, <2>3, <2>5, <2>6, <2>7, <2>8
<1> QED BY <1>7, <1>8

\* One reply.
LEMMA QueueOneReply ==
  ASSUME QueueTypes, NEW reply \in Reply, QueueReplies(<<reply>>)
  PROVE  /\ responses' \in Seq(Reply) /\ Len(responses') <= ResponseCapacity
         /\ \A k \in DOMAIN responses' :
              (\E j \in DOMAIN responses : responses'[k] = responses[j]) \/ responses'[k] = reply
<1> DEFINE replies == <<reply>>
<1>1. replies \in Seq(Reply) /\ DOMAIN replies = 1 .. 1 /\ replies[1] = reply
  OBVIOUS
<1>2. QueueReplies(replies)
  OBVIOUS
<1> HIDE DEF replies
<1>3. /\ responses' \in Seq(Reply) /\ Len(responses') <= ResponseCapacity
      /\ \A k \in DOMAIN responses' :
           \/ \E j \in DOMAIN responses : responses'[k] = responses[j]
           \/ \E j \in DOMAIN replies : responses'[k] = replies[j]
  BY <1>1, <1>2, QueueRepliesEffect
<1> QED BY <1>1, <1>3

\* A reply to a token.
LEMMA ReplyOfType ==
  ASSUME NEW t, t.sequence \in SequenceNumber, NEW kind \in ResponseKind
  PROVE  ReplyOf(t, kind) \in Reply /\ ReplyOf(t, kind).kind = kind
         /\ ReplyOf(t, kind).sequence = t.sequence
BY DEF ReplyOf, Reply

\* A step adds to what waits at most the frame that the main thread is writing.
LEMMA NextWaiting ==
  ASSUME ClientTypes, [Next]_vars
  PROVE  \A x \in Waiting' :
           x \in Waiting \/ (x = CurrentFrame /\ client.phase \in {"Locking", "Writing"})
<1> DEFINE Old(x) == x \in Waiting \/ (x = CurrentFrame /\ client.phase \in {"Locking", "Writing"})
<1>1. /\ line \in Seq(LinePiece) /\ Len(line) \in Nat /\ DOMAIN line = 1 .. Len(line)
      /\ CurrentFrame \in CommandFrame
      /\ requests \in Seq(CommandFrame) /\ DOMAIN requests = 1 .. Len(requests)
      /\ Len(requests) \in Nat
  BY LineFacts, LenProperties DEF ClientTypes
<1>2. ASSUME UNCHANGED <<line, requests>> PROVE \A x \in Waiting' : Old(x)
  BY <1>2 DEF Waiting, OnLine
<1>3. ASSUME NEW frame \in CommandFrame \cup {HeartbeatFrame}, NEW part \in {1, 2},
             line' = Append(line, [frame |-> frame, part |-> part]), UNCHANGED requests
      PROVE  \A x \in Waiting' : x \in Waiting \/ (x = frame /\ frame # HeartbeatFrame)
  <2> DEFINE piece == [frame |-> frame, part |-> part]
  <2>1. piece \in LinePiece /\ piece.frame = frame /\ line' = Append(line, piece)
    BY <1>3 DEF LinePiece
  <2> HIDE DEF piece
  <2>2. /\ line' \in Seq(LinePiece) /\ Len(line') = Len(line) + 1
        /\ \A k \in 1 .. Len(line) : line'[k] = line[k]
        /\ line'[Len(line) + 1] = piece
    BY <1>1, <2>1, AppendProperties
  <2>3. DOMAIN line' = 1 .. Len(line) + 1
    BY <2>2, LenProperties
  <2>4. \A k \in OnLine' : (k \in OnLine /\ line'[k] = line[k]) \/ line'[k] = piece
    BY <1>1, <2>2, <2>3 DEF OnLine
  <2>5. \A k \in OnLine' : line'[k].frame # HeartbeatFrame
    BY DEF OnLine, HeartbeatFrame
  <2> QED BY <1>3, <2>1, <2>4, <2>5 DEF Waiting
<1>4. CASE ClientLocks \/ ClientWrites
  <2>1. /\ \E part \in {1, 2} : line' = Append(line, [frame |-> CurrentFrame, part |-> part])
        /\ UNCHANGED requests /\ client.phase \in {"Locking", "Writing"}
    BY <1>4 DEF ClientLocks, ClientWrites, deviceVars
  <2> QED BY <1>1, <1>3, <2>1
<1>5. CASE HeartbeatWrites \/ (HeartbeatChecks /\ ~stopped)
  <2>1. /\ \E part \in {1, 2} : line' = Append(line, [frame |-> HeartbeatFrame, part |-> part])
        /\ UNCHANGED requests
    BY <1>5 DEF HeartbeatWrites, HeartbeatChecks, HeartbeatGoesTo, deviceVars
  <2> QED BY <1>3, <2>1
<1>6. CASE Receive
  <2> DEFINE frame == line[1].frame
  <2>1. /\ Len(line) >= 2
        /\ requests' = IF frame.sequence = 0 THEN requests ELSE Append(requests, frame)
    BY <1>6 DEF Receive
  <2>2. frame.sequence # 0 => 1 \in OnLine /\ frame \in CommandFrame
    <3>1. 1 \in DOMAIN line
      BY <1>1, <2>1
    <3> QED BY <3>1, FlightTypes DEF OnLine
  <2>3. \A k \in OnLine' : k + 2 \in OnLine /\ line'[k] = line[k + 2]
    <3>1. 2 \in 0 .. Len(line) /\ line' = SubSeq(line, 2 + 1, Len(line))
      BY <1>6, LineIsShortened DEF Shortened
    <3>2. \A k \in DOMAIN line' : k + 2 \in DOMAIN line /\ line'[k] = line[k + 2]
      BY <1>1, <3>1, SuffixFacts
    <3> QED BY <3>2 DEF OnLine
  <2>4. \A k \in DOMAIN requests' :
           requests'[k] \in Waiting
    <3>1. CASE frame.sequence = 0
      BY <2>1, <3>1 DEF Waiting
    <3>2. CASE frame.sequence # 0
      <4>1. requests' = Append(requests, frame) /\ frame \in CommandFrame /\ 1 \in OnLine
        BY <2>1, <2>2, <3>2
      <4>2. frame \in Waiting
        BY <4>1 DEF Waiting
      <4> HIDE DEF frame
      <4>3. /\ requests' \in Seq(CommandFrame) /\ Len(requests') = Len(requests) + 1
            /\ \A k \in 1 .. Len(requests) : requests'[k] = requests[k]
            /\ requests'[Len(requests) + 1] = frame
        BY <1>1, <4>1, AppendProperties
      <4>4. DOMAIN requests' = 1 .. Len(requests) + 1
        BY <4>3, LenProperties
      <4>5. \A k \in DOMAIN requests' : k \in DOMAIN requests \/ k = Len(requests) + 1
        BY <1>1, <4>4
      <4>6. \A k \in DOMAIN requests : requests'[k] = requests[k] /\ requests[k] \in Waiting
        BY <1>1, <4>3 DEF Waiting
      <4> QED BY <4>2, <4>3, <4>5, <4>6
    <3> QED BY <3>1, <3>2
  <2> QED BY <2>3, <2>4 DEF Waiting
<1>7. CASE SeeDtrFall
  <2>1. line' \in {<<>>, line} /\ requests' = <<>>
    BY <1>7 DEF SeeDtrFall, EndSession
  <2>2. DOMAIN requests' = {} /\ OnLine' \subseteq OnLine
        /\ \A k \in OnLine' : line'[k] = line[k]
    BY <2>1 DEF OnLine
  <2> QED BY <2>2 DEF Waiting
<1>8. CASE AdmitNew \/ AnswerAtOnce
  <2>1. requests # <<>> /\ requests' = Tail(requests) /\ UNCHANGED line
    BY <1>8 DEF AdmitNew, AnswerAtOnce
  <2>2. /\ requests' \in Seq(CommandFrame) /\ Len(requests') = Len(requests) - 1
        /\ \A k \in 1 .. Len(requests') : requests'[k] = requests[k + 1]
        /\ DOMAIN requests' = 1 .. Len(requests')
    BY <1>1, <2>1, HeadTailProperties, LenProperties
  <2>3. \A k \in DOMAIN requests' : k + 1 \in DOMAIN requests /\ requests'[k] = requests[k + 1]
    BY <1>1, <2>2
  <2>4. OnLine' = OnLine
    BY <2>1 DEF OnLine
  <2> QED BY <2>1, <2>3, <2>4 DEF Waiting
<1>9. CASE \/ Open \/ (\E command \in ClientCommand : Send(command)) \/ Drop
           \/ ClientFlushes \/ SkipStale \/ Conclude \/ ReadBusy \/ Wake \/ Timeout \/ Join
           \/ Killed \/ Tick \/ HeartbeatLocks \/ HeartbeatToldToStop \/ HeartbeatFlushes
           \/ (HeartbeatChecks /\ stopped)
           \/ SeeDtrRise \/ FinishRelease \/ Respond \/ FinishJob \/ Over \/ UNCHANGED vars
  <2>1. UNCHANGED <<line, requests>>
    BY <1>9 DEF Open, Send, Drop, ClientFlushes, SkipStale, Conclude, ReadBusy, Wake, Timeout,
       Join, Killed, Tick, HeartbeatLocks, HeartbeatToldToStop, HeartbeatFlushes,
       HeartbeatChecks, HeartbeatGoesTo, SeeDtrRise, FinishRelease, Respond, FinishJob, Over,
       deviceVars, vars
  <2> QED BY <1>2, <2>1
<1>10. CASE Discard \/ LeaseExpires
  <2>1. requests' \in {requests, <<>>}
    BY <1>10 DEF Discard, LeaseExpires, EndSession
  <2>2. PICK t \in 0 .. Len(line) : Shortened(t)
    BY <1>10, LineIsShortened DEF Shortened
  <2>3. \A k \in OnLine' : k + t \in OnLine /\ line'[k] = line[k + t]
    BY <1>1, <2>2, SuffixFacts DEF Shortened, OnLine
  <2>4. \A k \in DOMAIN requests' : requests'[k] \in Waiting
    BY <2>1, EmptySeq, LenProperties DEF Waiting
  <2> QED BY <2>3, <2>4 DEF Waiting
<1> QED
  BY <1>4, <1>5, <1>6, <1>7, <1>8, <1>9, <1>10
  DEF Next, ClientStep, HeartbeatStep, DeviceStep


\* What an admission adds to the device's memory: its token, wherever its work goes, and
\* for a query its answer.
LEMMA AdmitNewDetail ==
  ASSUME ClientTypes, DeviceTypes, QueueTypes, AdmitNew
  PROVE  \E new \in Token :
           /\ new.id = nextAdmissionId /\ new.sequence = Head(requests).sequence
           /\ \A t \in Tokens' : t \in Tokens \/ t = new
           /\ job' \in {job, new}
           /\ finished \subseteq finished' /\ finished' \subseteq finished \cup {nextAdmissionId}
           /\ stops' \in Seq(Token)
           /\ responses' \in Seq(Reply) /\ Len(responses') <= ResponseCapacity
           /\ \A k \in DOMAIN responses' :
                \/ \E j \in DOMAIN responses : responses'[k] = responses[j]
                \/ responses'[k].sequence = new.sequence /\ nextAdmissionId \in finished'
           /\ \A i \in DOMAIN cache' :
                \/ i \in Slot /\ cache'[i] = cache[i]
                \/ cache'[i].token = new
                     /\ (cache'[i].response = None \/ nextAdmissionId \in finished')
<1> DEFINE h == Head(requests)
           r == RequestOf(h)
           answer == Answer(NewToken(r), ExpectedResponse(r.command))
           new == NewToken(r)
<1>1. h \in CommandFrame
  <2>1. requests # <<>>
    BY DEF AdmitNew
  <2> QED BY <2>1, HeadTailProperties DEF ClientTypes
<1>2. r \in Request /\ r.sequence = h.sequence
  <2>1. 2 \in Version
    BY ClientAssumption DEF ClientAssumption
  <2> QED BY <1>1, <2>1 DEF CommandFrame, RequestOf, Request
<1>3. CoordinatorTypeOK /\ job \in Token \cup {None} /\ stops \in Seq(Token)
  BY DEF DeviceTypes, QueueTypes
<1>4. /\ new \in Token /\ new.id = nextAdmissionId /\ new.sequence = h.sequence
      /\ r.sequence = new.sequence
  BY <1>2, <1>3, NewTokenType DEF NewToken
<1>5. answer \in Response /\ answer.kind \in ResponseKind /\ answer # None
  <2>1. ExpectedResponse(r.command) \in ResponseKind
    BY DEF ExpectedResponse, ResponseKind
  <2> QED BY <1>4, <2>1, AnswerType
<1>6. \/ AdmitExecute(r, releasing) /\ job' = new /\ UNCHANGED <<stops, responses, finished>>
      \/ /\ AdmitBypass(r, releasing, answer) /\ QueueReplies(<<ReplyOf(r, answer.kind)>>)
         /\ finished' = finished \cup {nextAdmissionId} /\ UNCHANGED <<job, stops>>
      \/ /\ AdmitStop(r, releasing) /\ stops' = Append(stops, new)
         /\ UNCHANGED <<job, responses, finished>>
  BY DEF AdmitNew
<1>7. ReplyOf(r, answer.kind) \in Reply /\ ReplyOf(r, answer.kind).sequence = new.sequence
  <2>1. r.sequence \in SequenceNumber
    BY <1>2 DEF Request
  <2> QED BY <1>4, <1>5, <2>1, ReplyOfType
<1> DEFINE reply == ReplyOf(r, answer.kind)
<1> HIDE DEF answer
<1>8. \E stored \in Response \cup {None} :
        Insert(r, stored) /\ (stored = None \/ nextAdmissionId \in finished')
  BY <1>5, <1>6 DEF AdmitExecute, AdmitBypass, AdmitStop
<1>9. PICK stored \in Response \cup {None} :
        Insert(r, stored) /\ (stored = None \/ nextAdmissionId \in finished')
  BY <1>8
<1>10. \E n \in DOMAIN cache' :
         /\ cache'[n] = [token |-> NewToken(r), response |-> stored]
         /\ \A j \in DOMAIN cache' \ {n} : j \in Slot /\ cache'[j] = cache[j]
  BY <1>2, <1>3, <1>9, InsertEffect
<1>11. /\ responses' \in Seq(Reply) /\ Len(responses') <= ResponseCapacity
       /\ \A k \in DOMAIN responses' :
            \/ \E j \in DOMAIN responses : responses'[k] = responses[j]
            \/ responses'[k].sequence = new.sequence /\ nextAdmissionId \in finished'
  <2>1. CASE UNCHANGED responses
    BY <2>1 DEF QueueTypes
  <2>2. CASE QueueReplies(<<reply>>) /\ nextAdmissionId \in finished'
    <3>1. reply \in Reply /\ reply.sequence = new.sequence
      BY <1>7
    <3> HIDE DEF reply
    <3>2. /\ responses' \in Seq(Reply) /\ Len(responses') <= ResponseCapacity
          /\ \A k \in DOMAIN responses' :
             (\E j \in DOMAIN responses : responses'[k] = responses[j]) \/ responses'[k] = reply
      BY <2>2, <3>1, QueueOneReply
    <3> HIDE DEF new
    <3> QED BY <2>2, <3>1, <3>2
  <2> QED BY <1>6, <2>1, <2>2
<1>12. finished \subseteq finished' /\ finished' \subseteq finished \cup {nextAdmissionId}
       /\ job' \in {job, new}
  BY <1>6
<1> HIDE DEF new
<1>13. /\ stops' \in Seq(Token)
       /\ \A k \in DOMAIN stops' : (\E j \in DOMAIN stops : stops'[k] = stops[j]) \/ stops'[k] = new
  <2>1. CASE UNCHANGED stops
    BY <1>3, <2>1
  <2>2. CASE stops' = Append(stops, new)
    <3>1. /\ stops' \in Seq(Token) /\ Len(stops') = Len(stops) + 1
          /\ \A j \in 1 .. Len(stops) : stops'[j] = stops[j]
          /\ stops'[Len(stops) + 1] = new
      BY <1>3, <1>4, <2>2, AppendProperties
    <3>2. /\ DOMAIN stops = 1 .. Len(stops) /\ Len(stops) \in Nat
          /\ DOMAIN stops' = 1 .. Len(stops) + 1
      BY <1>3, <3>1, LenProperties
    <3>3. \A k \in DOMAIN stops' : k \in DOMAIN stops \/ k = Len(stops) + 1
      BY <3>2
    <3> QED BY <3>1, <3>2, <3>3
  <2> QED BY <1>6, <2>1, <2>2
<1>14. \A i \in DOMAIN cache' :
         \/ i \in Slot /\ cache'[i] = cache[i]
         \/ cache'[i].token = new /\ (cache'[i].response = None \/ nextAdmissionId \in finished')
  BY <1>9, <1>10 DEF new
<1>15. \A t \in Tokens' : t \in Tokens \/ t = new
  <2> SUFFICES ASSUME NEW t \in Tokens' PROVE t \in Tokens \/ t = new
    OBVIOUS
  <2>1. CASE \E i \in DOMAIN cache' : t = cache'[i].token
    BY <1>14, <2>1 DEF Tokens
  <2>2. CASE \E k \in DOMAIN stops' : t = stops'[k]
    BY <1>13, <2>2 DEF Tokens
  <2> QED BY <2>1, <2>2 DEF Tokens, Slot
<1> QED BY <1>4, <1>11, <1>12, <1>13, <1>14, <1>15

\* What a step other than an admission makes of the device's memory.  A reply that
\* says yes is for an admission which the device remembers and has done.
KeepsMemory ==
  /\ \A t \in Tokens' : t \in Tokens
  /\ job' \in {job, None}
  /\ finished \subseteq finished'
  /\ \A n \in finished' : \/ n \in finished
                          \/ job # None /\ n = job.id
                          \/ \E t \in Tokens : n = t.id
  /\ stops' \in Seq(Token)
  /\ responses' \in Seq(Reply) /\ Len(responses') <= ResponseCapacity
  /\ \A k \in DOMAIN responses' :
       \/ responses'[k] \in Replies
       \/ responses'[k].kind \notin {"Ack", "Status"}
       \/ \E t \in Tokens : responses'[k].sequence = t.sequence /\ t.id \in finished'
  /\ UNCHANGED origin
  /\ CachedIsDone'

\* Requests that need no work are answered from the cache, or with BUSY or NACK.
LEMMA AnswerAtOnceMemory ==
  ASSUME ClientTypes, DeviceTypes, QueueTypes, CachedIsDone, AnswerAtOnce
  PROVE  KeepsMemory
<1> DEFINE r == RequestOf(Head(requests))
<1>1. /\ \/ \E i \in Slot : /\ AdmitReplay(r, i)
                            /\ QueueReplies(<<ReplyOf(r, cache[i].response.kind)>>)
         \/ AdmitBusy(r, releasing) /\ QueueReplies(<<ReplyOf(r, "Busy")>>)
         \/ AdmitReject(r, releasing) /\ QueueReplies(<<ReplyOf(r, "Nack")>>)
      /\ UNCHANGED <<job, stops, origin, finished>>
  BY DEF AnswerAtOnce
<1>2. r.sequence \in SequenceNumber
  <2>1. Head(requests) \in CommandFrame
    <3>1. requests # <<>>
      BY DEF AnswerAtOnce
    <3> QED BY <3>1, HeadTailProperties DEF ClientTypes
  <2> QED BY <2>1 DEF CommandFrame, RequestOf
<1> HIDE DEF r
<1>3. UNCHANGED cache
  BY <1>1 DEF AdmitReplay, AdmitBusy, AdmitReject, coordVars
<1>4. \E reply \in Reply :
        /\ QueueReplies(<<reply>>)
        /\ reply.kind \notin {"Ack", "Status"}
             \/ \E t \in Tokens : reply.sequence = t.sequence /\ t.id \in finished
  <2>1. CASE \E i \in Slot : /\ AdmitReplay(r, i)
                             /\ QueueReplies(<<ReplyOf(r, cache[i].response.kind)>>)
    <3>1. PICK i \in Slot : /\ AdmitReplay(r, i)
                            /\ QueueReplies(<<ReplyOf(r, cache[i].response.kind)>>)
      BY <2>1
    <3>2. cache[i].token.sequence = r.sequence /\ ~IsActive(i)
      BY <3>1 DEF AdmitReplay, Holds
    <3>3. cache[i].response \in Response
      BY <3>2, SlotFacts DEF DeviceTypes, IsActive
    <3> DEFINE kind == cache[i].response.kind
    <3>4. kind \in ResponseKind
      BY <3>3 DEF Response
    <3>5. kind \in {"Ack", "Status"} => cache[i].token.id \in finished
      BY <3>2 DEF CachedIsDone
    <3>6. cache[i].token \in Tokens
      BY DEF Tokens
    <3>7. QueueReplies(<<ReplyOf(r, kind)>>)
      BY <3>1
    <3> HIDE DEF kind
    <3>8. /\ ReplyOf(r, kind) \in Reply /\ ReplyOf(r, kind).kind = kind
          /\ ReplyOf(r, kind).sequence = r.sequence
      BY <1>2, <3>4, ReplyOfType
    <3> QED BY <3>2, <3>5, <3>6, <3>7, <3>8
  <2>2. ASSUME NEW kind \in {"Busy", "Nack"}, QueueReplies(<<ReplyOf(r, kind)>>)
        PROVE  \E reply \in Reply : QueueReplies(<<reply>>) /\ reply.kind \notin {"Ack", "Status"}
    <3>1. kind \in ResponseKind
      BY DEF ResponseKind
    <3>2. ReplyOf(r, kind) \in Reply /\ ReplyOf(r, kind).kind = kind
      BY <1>2, <3>1, ReplyOfType
    <3> QED BY <2>2, <3>2
  <2> QED BY <1>1, <2>1, <2>2
<1>5. PICK reply \in Reply :
        /\ QueueReplies(<<reply>>)
        /\ reply.kind \notin {"Ack", "Status"}
             \/ \E t \in Tokens : reply.sequence = t.sequence /\ t.id \in finished
  BY <1>4
<1>6. /\ responses' \in Seq(Reply) /\ Len(responses') <= ResponseCapacity
      /\ \A k \in DOMAIN responses' :
           (\E j \in DOMAIN responses : responses'[k] = responses[j]) \/ responses'[k] = reply
  BY <1>5, QueueOneReply
<1>7. \A k \in DOMAIN responses' :
        \/ responses'[k] \in Replies
        \/ responses'[k].kind \notin {"Ack", "Status"}
        \/ \E t \in Tokens : responses'[k].sequence = t.sequence /\ t.id \in finished'
  BY <1>1, <1>5, <1>6 DEF Replies
<1>8. Tokens' = Tokens /\ CachedIsDone'
  BY <1>1, <1>3 DEF Tokens, Slot, CachedIsDone, IsActive
<1> QED BY <1>1, <1>6, <1>7, <1>8 DEF KeepsMemory, QueueTypes

\* A job's end is answered if its session still waits for it.
LEMMA FinishJobMemory ==
  ASSUME DeviceTypes, QueueTypes, CachedIsDone, FinishJob
  PROVE  KeepsMemory
<1>1. job \in Token /\ job # None /\ CoordinatorTypeOK
  BY DEF DeviceTypes, FinishJob
<1>2. PICK kind \in {"Ack", "Nack"} :
        /\ finished' = IF kind = "Ack" THEN finished \cup {job.id} ELSE finished
        /\ \/ Complete(job, Answer(job, kind)) /\ QueueReplies(<<ReplyOf(job, kind)>>)
           \/ CompleteFails(job, Answer(job, kind)) /\ UNCHANGED responses
  BY DEF FinishJob
<1>3. job' = None /\ UNCHANGED <<stops, origin>>
  BY DEF FinishJob
<1>4. finished \subseteq finished' /\ finished' \subseteq finished \cup {job.id}
      /\ (kind = "Ack" => job.id \in finished')
  BY <1>2
<1>5. kind \in ResponseKind /\ job.sequence \in SequenceNumber
  BY <1>1 DEF ResponseKind, Token
<1>6. CASE Complete(job, Answer(job, kind)) /\ QueueReplies(<<ReplyOf(job, kind)>>)
  <2> DEFINE answer == Answer(job, kind)
             reply == ReplyOf(job, kind)
  <2>1. answer \in Response /\ answer.kind = kind
    BY <1>1, <1>5, AnswerType
  <2>2. reply \in Reply /\ reply.kind = kind /\ reply.sequence = job.sequence
    BY <1>1, <1>5, ReplyOfType
  <2>3. Store(job, answer) /\ (\E i \in Slot : AwaitsAnswer(i, job)) /\ QueueReplies(<<reply>>)
    BY <1>6 DEF Complete, CanComplete
  <2> HIDE DEF answer, reply
  <2>4. job \in Tokens
    BY <2>3 DEF Tokens, AwaitsAnswer
  <2>5. /\ DOMAIN cache' = Slot
        /\ \A i \in Slot :
              /\ cache'[i].token = cache[i].token
              /\ cache[i].token = job /\ IsActive(i) => cache'[i].response = answer
              /\ ~(cache[i].token = job /\ IsActive(i)) => cache'[i] = cache[i]
    BY <1>1, <2>1, <2>3, StoreEffect
  <2>6. \A t \in Tokens' : t \in Tokens
    BY <1>3, <2>5 DEF Tokens, Slot
  <2>7. CachedIsDone'
    <3> SUFFICES ASSUME NEW i \in Slot, cache'[i].response # None,
                        cache'[i].response.kind \in {"Ack", "Status"}
                 PROVE  cache'[i].token.id \in finished'
      BY <2>5 DEF CachedIsDone, Slot, IsActive
    <3>1. CASE cache[i].token = job /\ IsActive(i)
      <4>1. kind = "Ack" /\ cache'[i].token = job
        BY <1>5, <2>1, <2>5, <3>1
      <4> QED BY <1>4, <4>1
    <3>2. CASE ~(cache[i].token = job /\ IsActive(i))
      BY <1>4, <2>5, <3>2 DEF CachedIsDone, IsActive
    <3> QED BY <3>1, <3>2
  <2>8. /\ responses' \in Seq(Reply) /\ Len(responses') <= ResponseCapacity
        /\ \A k \in DOMAIN responses' :
             (\E j \in DOMAIN responses : responses'[k] = responses[j]) \/ responses'[k] = reply
    BY <2>2, <2>3, QueueOneReply
  <2>9. \A k \in DOMAIN responses' :
          \/ responses'[k] \in Replies
          \/ responses'[k].kind \notin {"Ack", "Status"}
          \/ \E t \in Tokens : responses'[k].sequence = t.sequence /\ t.id \in finished'
    BY <1>4, <1>5, <2>2, <2>4, <2>8 DEF Replies
  <2> QED BY <1>1, <1>3, <1>4, <2>6, <2>7, <2>8, <2>9 DEF KeepsMemory, QueueTypes
<1>7. CASE CompleteFails(job, Answer(job, kind)) /\ UNCHANGED responses
  <2>1. UNCHANGED <<cache, responses>>
    BY <1>7 DEF CompleteFails, coordVars
  <2>2. Tokens' = Tokens
    BY <1>3, <2>1 DEF Tokens, Slot
  <2>3. CachedIsDone'
    BY <1>4, <2>1 DEF CachedIsDone, Slot, IsActive
  <2>4. /\ responses' \in Seq(Reply) /\ Len(responses') <= ResponseCapacity
        /\ \A k \in DOMAIN responses' : responses'[k] \in Replies
    BY <2>1 DEF QueueTypes, Replies
  <2> QED BY <1>1, <1>3, <1>4, <2>2, <2>3, <2>4 DEF KeepsMemory, QueueTypes
<1> QED BY <1>2, <1>6, <1>7

\* A release's end sends every STOP_ALL that waits for it an ACK.
LEMMA FinishReleaseReplies ==
  ASSUME QueueTypes, FinishRelease
  PROVE  /\ responses' \in Seq(Reply) /\ Len(responses') <= ResponseCapacity
         /\ \A k \in DOMAIN stops : stops[k] \in Tokens
         /\ \A k \in DOMAIN responses' :
              \/ \E j \in DOMAIN responses : responses'[k] = responses[j]
              \/ \E j \in DOMAIN stops : responses'[k].sequence = stops[j].sequence
<1> DEFINE replies == [k \in DOMAIN stops |-> ReplyOf(stops[k], "Ack")]
<1>1. QueueReplies(replies)
  BY DEF FinishRelease
<1>2. /\ stops \in Seq(Token) /\ Len(stops) \in Nat /\ DOMAIN stops = 1 .. Len(stops)
  BY LenProperties DEF QueueTypes
<1>3. \A k \in DOMAIN stops : stops[k] \in Token
  BY <1>2
<1>4. \A t \in Token : t.sequence \in SequenceNumber
  BY DEF Token
<1>5. "Ack" \in ResponseKind
  BY DEF ResponseKind
<1>6. \A k \in DOMAIN stops : ReplyOf(stops[k], "Ack") \in Reply
                              /\ ReplyOf(stops[k], "Ack").sequence = stops[k].sequence
  BY <1>3, <1>4, <1>5, ReplyOfType
<1>7. \A k \in DOMAIN stops : replies[k] \in Reply /\ replies[k].sequence = stops[k].sequence
  BY <1>6
<1>8. replies \in Seq(Reply) /\ DOMAIN replies = DOMAIN stops
  <2>1. replies \in [1 .. Len(stops) -> Reply]
    BY <1>2, <1>7
  <2> QED BY <1>2, <2>1, SeqDef
<1> HIDE DEF replies
<1>9. /\ responses' \in Seq(Reply) /\ Len(responses') <= ResponseCapacity
      /\ \A k \in DOMAIN responses' :
           \/ \E j \in DOMAIN responses : responses'[k] = responses[j]
           \/ \E j \in DOMAIN replies : responses'[k] = replies[j]
  BY <1>1, <1>8, QueueRepliesEffect
<1> QED BY <1>7, <1>8, <1>9 DEF Tokens

\* A release's end answers the STOP_ALLs that wait for it.
LEMMA FinishReleaseMemory ==
  ASSUME DeviceTypes, QueueTypes, CachedIsDone, FinishRelease
  PROVE  KeepsMemory
<1> DEFINE done(i) == \E k \in DOMAIN stops : AwaitsAnswer(i, stops[k])
           ids == {stops[k].id : k \in DOMAIN stops}
<1>1. /\ stops' = <<>> /\ finished' = finished \cup ids
      /\ UNCHANGED <<job, origin>>
      /\ cache' = [i \in Slot |-> IF done(i)
                     THEN [cache[i] EXCEPT !.response = Answer(cache[i].token, "Ack")]
                     ELSE cache[i]]
  BY DEF FinishRelease
<1>2. \A k \in DOMAIN stops : stops[k] \in Tokens
  BY DEF Tokens
<1>6. /\ responses' \in Seq(Reply) /\ Len(responses') <= ResponseCapacity
      /\ \A k \in DOMAIN responses' :
           \/ \E j \in DOMAIN responses : responses'[k] = responses[j]
           \/ \E j \in DOMAIN stops : responses'[k].sequence = stops[j].sequence
  BY FinishReleaseReplies
<1>7. \A k \in DOMAIN responses' :
        \/ responses'[k] \in Replies
        \/ \E t \in Tokens : responses'[k].sequence = t.sequence /\ t.id \in finished'
  BY <1>1, <1>2, <1>6 DEF Replies
<1>8. CoordinatorTypeOK
  BY DEF DeviceTypes
<1>9. \A i \in Slot : cache[i] = [token |-> cache[i].token, response |-> cache[i].response]
  BY <1>8, SlotFacts
<1>10. /\ DOMAIN cache' = Slot
       /\ \A i \in Slot : /\ cache'[i].token = cache[i].token
                          /\ ~done(i) => cache'[i] = cache[i]
  <2> HIDE DEF done
  <2> QED BY <1>1, <1>9
<1>11. \A i \in Slot : done(i) => cache[i].token.id \in finished'
  BY <1>1 DEF AwaitsAnswer
<1>12. CachedIsDone'
  <2> SUFFICES ASSUME NEW i \in Slot, cache'[i].response # None,
                      cache'[i].response.kind \in {"Ack", "Status"}
               PROVE  cache'[i].token.id \in finished'
    BY <1>10 DEF CachedIsDone, Slot, IsActive
  <2>1. CASE done(i)
    BY <1>10, <1>11, <2>1
  <2>2. CASE ~done(i)
    BY <1>1, <1>10, <2>2 DEF CachedIsDone, IsActive
  <2> QED BY <2>1, <2>2
<1>13. \A t \in Tokens' : t \in Tokens
  <2>1. DOMAIN stops' = {}
    BY <1>1
  <2> QED BY <1>10, <2>1 DEF Tokens, Slot
<1>14. \A n \in finished' : n \in finished \/ \E t \in Tokens : n = t.id
  BY <1>1, <1>2
<1>15. stops' \in Seq(Token) /\ finished \subseteq finished'
  BY <1>1
<1> QED BY <1>1, <1>6, <1>7, <1>12, <1>13, <1>14, <1>15 DEF KeepsMemory

\* The end of a session forgets.
LEMMA SessionEndMemory ==
  ASSUME DeviceTypes, QueueTypes, CachedIsDone, SeeDtrFall \/ LeaseExpires
  PROVE  KeepsMemory
<1>1. /\ cache' = <<>> /\ stops' = <<>> /\ responses' = <<>>
      /\ UNCHANGED <<job, origin, finished>>
  BY DEF SeeDtrFall, LeaseExpires, EndSession, ClearSession
<1>2. DOMAIN cache' = {} /\ DOMAIN stops' = {} /\ DOMAIN responses' = {} /\ Len(responses') = 0
  BY <1>1
<1>3. Tokens' = {} /\ CachedIsDone'
  BY <1>2 DEF Tokens, CachedIsDone, Slot
<1>4. stops' \in Seq(Token) /\ responses' \in Seq(Reply) /\ Len(responses') <= ResponseCapacity
  BY <1>1, <1>2, BoundFacts
<1> QED BY <1>1, <1>2, <1>3, <1>4 DEF KeepsMemory

\* A response leaves.
LEMMA RespondMemory ==
  ASSUME DeviceTypes, QueueTypes, CachedIsDone, Respond
  PROVE  KeepsMemory
<1>1. responses # <<>> /\ responses' = Tail(responses)
      /\ UNCHANGED <<cache, job, stops, origin, finished>>
  BY DEF Respond, coordVars
<1>2. responses \in Seq(Reply) /\ Len(responses) <= ResponseCapacity /\ Len(responses) \in Nat
      /\ DOMAIN responses = 1 .. Len(responses)
  BY LenProperties DEF QueueTypes
<1>3. /\ responses' \in Seq(Reply) /\ Len(responses') = Len(responses) - 1
      /\ \A k \in 1 .. Len(responses') : responses'[k] = responses[k + 1]
      /\ DOMAIN responses' = 1 .. Len(responses')
  BY <1>1, <1>2, HeadTailProperties, LenProperties
<1>4. \A k \in DOMAIN responses' : responses'[k] \in Replies
  <2> SUFFICES ASSUME NEW k \in DOMAIN responses' PROVE responses'[k] \in Replies
    OBVIOUS
  <2>1. k + 1 \in DOMAIN responses /\ responses'[k] = responses[k + 1]
    BY <1>2, <1>3
  <2> QED BY <2>1 DEF Replies
<1>5. Tokens' = Tokens /\ CachedIsDone'
  BY <1>1 DEF Tokens, Slot, CachedIsDone, IsActive
<1>6. Len(responses') <= ResponseCapacity
  BY <1>2, <1>3, BoundFacts
<1> QED BY <1>1, <1>3, <1>4, <1>5, <1>6 DEF KeepsMemory, QueueTypes

\* Every step but an admission.
LEMMA NextKeepsMemory ==
  ASSUME ClientTypes, DeviceTypes, QueueTypes, CachedIsDone, [Next]_vars
  PROVE  AdmitNew \/ KeepsMemory
<1>1. CASE UNCHANGED <<cache, job, stops, responses, origin, finished>>
  <2>1. Tokens' = Tokens /\ CachedIsDone'
    BY <1>1 DEF Tokens, Slot, CachedIsDone, IsActive
  <2>2. \A k \in DOMAIN responses' : responses'[k] \in Replies
    BY <1>1 DEF Replies
  <2> QED BY <1>1, <2>1, <2>2 DEF KeepsMemory, QueueTypes
<1>2. CASE Open \/ (\E command \in ClientCommand : Send(command)) \/ Drop \/ ClientLocks
             \/ ClientStep \/ Killed \/ Tick \/ HeartbeatLocks \/ HeartbeatStep \/ Over
             \/ UNCHANGED vars
  <2>1. UNCHANGED <<coordVars, deviceVars>>
    BY <1>2 DEF Open, Send, Drop, ClientLocks, ClientStep, ClientWrites, ClientFlushes,
       SkipStale, Conclude, ReadBusy, Wake, Timeout, Join, Killed, Tick, HeartbeatLocks,
       HeartbeatStep, HeartbeatToldToStop, HeartbeatChecks, HeartbeatWrites, HeartbeatFlushes,
       HeartbeatGoesTo, Over, vars
  <2> QED BY <1>1, <2>1 DEF deviceVars, coordVars
<1>3. CASE Receive \/ Discard \/ SeeDtrRise
  <2>1. UNCHANGED <<cache, job, stops, responses, origin, finished>>
    BY <1>3 DEF Receive, Discard, SeeDtrRise, coordVars
  <2> QED BY <1>1, <2>1
<1> QED
  BY <1>2, <1>3, AnswerAtOnceMemory, FinishJobMemory, FinishReleaseMemory, SessionEndMemory,
     RespondMemory DEF Next, DeviceStep

\* What the client has received it was sent; a new process begins with nothing.
LEMMA NextInbox ==
  ASSUME QueueTypes, [Next]_vars
  PROVE  /\ inbox' \in Seq(Reply)
         /\ \A k \in DOMAIN inbox' : inbox'[k] \in Replies
         /\ Open => inbox' = <<>>
<1>1. /\ inbox \in Seq(Reply) /\ Len(inbox) \in Nat /\ DOMAIN inbox = 1 .. Len(inbox)
      /\ \A k \in DOMAIN inbox : inbox[k] \in Replies
  <2>1. inbox \in Seq(Reply)
    BY DEF QueueTypes
  <2>2. \A k \in DOMAIN inbox : inbox[k] \in Replies
    BY DEF Replies
  <2> QED BY <2>1, <2>2, LenProperties
<1> SUFFICES inbox' \in Seq(Reply) /\ \A k \in DOMAIN inbox' : inbox'[k] \in Replies
  BY DEF Open
<1>2. CASE UNCHANGED inbox
  BY <1>1, <1>2
<1>3. CASE Open
  <2>1. inbox' = <<>> /\ DOMAIN inbox' = {}
    BY <1>3 DEF Open
  <2> QED BY <2>1
<1>4. CASE SkipStale \/ Conclude \/ ReadBusy
  <2>1. inbox # <<>> /\ inbox' = Tail(inbox)
    BY <1>4 DEF SkipStale, Conclude, ReadBusy
  <2>2. /\ inbox' \in Seq(Reply) /\ Len(inbox') = Len(inbox) - 1
        /\ \A k \in 1 .. Len(inbox') : inbox'[k] = inbox[k + 1]
        /\ DOMAIN inbox' = 1 .. Len(inbox')
    BY <1>1, <2>1, HeadTailProperties, LenProperties
  <2>3. \A k \in DOMAIN inbox' : k + 1 \in DOMAIN inbox /\ inbox'[k] = inbox[k + 1]
    BY <1>1, <2>2
  <2> QED BY <1>1, <2>2, <2>3
<1>5. CASE Respond
  <2> DEFINE reply == Head(responses)
  <2>1. responses # <<>> /\ inbox' = IF dtr THEN Append(inbox, reply) ELSE inbox
    BY <1>5 DEF Respond
  <2>2. reply \in Reply /\ reply \in Replies
    <3>1. responses \in Seq(Reply) /\ Len(responses) \in Nat /\ DOMAIN responses = 1 .. Len(responses)
      BY LenProperties DEF QueueTypes
    <3>2. 1 \in DOMAIN responses /\ reply = responses[1]
      BY <2>1, <3>1, EmptySeq
    <3> QED BY <3>1, <3>2 DEF Replies
  <2> HIDE DEF reply
  <2>3. CASE inbox' = Append(inbox, reply)
    <3>1. /\ inbox' \in Seq(Reply) /\ Len(inbox') = Len(inbox) + 1
          /\ \A k \in 1 .. Len(inbox) : inbox'[k] = inbox[k]
          /\ inbox'[Len(inbox) + 1] = reply
      BY <1>1, <2>2, <2>3, AppendProperties
    <3>2. DOMAIN inbox' = 1 .. Len(inbox) + 1
      BY <3>1, LenProperties
    <3>3. \A k \in DOMAIN inbox' : k \in DOMAIN inbox \/ k = Len(inbox) + 1
      BY <1>1, <3>2
    <3> QED BY <1>1, <2>2, <3>1, <3>3
  <2> QED BY <1>2, <2>1, <2>3
<1>6. CASE \/ (\E command \in ClientCommand : Send(command)) \/ Drop \/ ClientLocks
           \/ ClientWrites \/ ClientFlushes \/ Wake \/ Timeout \/ Join \/ Killed \/ Tick
           \/ HeartbeatLocks \/ HeartbeatStep \/ Receive \/ Discard \/ SeeDtrRise
           \/ SeeDtrFall \/ LeaseExpires \/ AdmitNew \/ AnswerAtOnce \/ FinishRelease
           \/ FinishJob \/ Over \/ UNCHANGED vars
  <2>1. UNCHANGED inbox
    BY <1>6 DEF Send, Drop, ClientLocks, ClientWrites, ClientFlushes, Wake, Timeout, Join,
       Killed, Tick, HeartbeatLocks, HeartbeatStep, HeartbeatToldToStop, HeartbeatChecks,
       HeartbeatWrites, HeartbeatFlushes, HeartbeatGoesTo, Receive, Discard, SeeDtrRise,
       SeeDtrFall, LeaseExpires,
       AdmitNew, AnswerAtOnce, FinishRelease, FinishJob, Over, vars
  <2> QED BY <1>2, <2>1
<1> QED BY <1>3, <1>4, <1>5, <1>6 DEF Next, ClientStep, DeviceStep

\* REQUESTS never holds more than it has room for.
LEMMA NextKeepsRequestCapacity ==
  ASSUME ClientTypes, QueueTypes, [Next]_vars
  PROVE  Len(requests') <= RequestCapacity
<1>1. /\ requests \in Seq(CommandFrame) /\ Len(requests) \in Nat
      /\ Len(requests) <= RequestCapacity
  BY LenProperties DEF ClientTypes, QueueTypes
<1>2. CASE Receive
  <2> DEFINE frame == line[1].frame
  <2>1. /\ Len(requests) < RequestCapacity /\ Len(line) >= 2
        /\ requests' = IF frame.sequence = 0 THEN requests ELSE Append(requests, frame)
    BY <1>2 DEF Receive
  <2>2. frame.sequence # 0 => frame \in CommandFrame
    <3>1. 1 \in DOMAIN line
      BY <2>1, LineFacts
    <3> QED BY <3>1, FlightTypes DEF OnLine
  <2> HIDE DEF frame
  <2>3. Len(requests') \in {Len(requests), Len(requests) + 1}
    BY <1>1, <2>1, <2>2, AppendProperties
  <2> QED BY <1>1, <2>1, <2>3, BoundFacts
<1>3. CASE SeeDtrFall \/ LeaseExpires
  <2>1. requests' = <<>>
    BY <1>3 DEF SeeDtrFall, LeaseExpires, EndSession
  <2>2. Len(requests') = 0
    BY <2>1
  <2> QED BY <2>2, BoundFacts
<1>4. CASE AdmitNew \/ AnswerAtOnce
  <2>1. requests # <<>> /\ requests' = Tail(requests)
    BY <1>4 DEF AdmitNew, AnswerAtOnce
  <2>2. Len(requests') = Len(requests) - 1
    BY <1>1, <2>1, HeadTailProperties
  <2> QED BY <1>1, <2>2, BoundFacts
<1>5. CASE \/ Open \/ (\E command \in ClientCommand : Send(command)) \/ Drop \/ ClientLocks
           \/ ClientStep \/ Killed \/ Tick \/ HeartbeatLocks \/ HeartbeatStep \/ Discard
           \/ SeeDtrRise \/ FinishRelease \/ Respond \/ FinishJob \/ Over \/ UNCHANGED vars
  <2>1. UNCHANGED requests
    BY <1>5 DEF Open, Send, Drop, ClientLocks, ClientStep, ClientWrites, ClientFlushes,
       SkipStale, Conclude, ReadBusy, Wake, Timeout, Join, Killed, Tick, HeartbeatLocks,
       HeartbeatStep, HeartbeatToldToStop, HeartbeatChecks, HeartbeatWrites, HeartbeatFlushes,
       HeartbeatGoesTo, Discard, SeeDtrRise, FinishRelease, Respond, FinishJob, Over, vars, deviceVars
  <2> QED BY <1>1, <2>1
<1> QED BY <1>2, <1>3, <1>4, <1>5 DEF Next, DeviceStep

\* Every step keeps the queues.
LEMMA NextKeepsQueueTypes ==
  ASSUME ClientTypes, DeviceTypes, QueueTypes, CachedIsDone, [Next]_vars
  PROVE  QueueTypes' /\ CachedIsDone'
<1>1. /\ stops' \in Seq(Token) /\ responses' \in Seq(Reply)
      /\ Len(responses') <= ResponseCapacity
  BY NextKeepsMemory, AdmitNewDetail DEF KeepsMemory
<1>2. QueueTypes'
  BY <1>1, NextInbox, NextKeepsRequestCapacity DEF QueueTypes
<1>3. CASE AdmitNew
  <2>1. PICK new \in Token :
          /\ new.id = nextAdmissionId
          /\ finished \subseteq finished'
          /\ \A i \in DOMAIN cache' :
               \/ i \in Slot /\ cache'[i] = cache[i]
               \/ cache'[i].token = new
                    /\ (cache'[i].response = None \/ nextAdmissionId \in finished')
    BY <1>3, AdmitNewDetail
  <2>2. CachedIsDone'
    BY <2>1 DEF CachedIsDone, Slot, IsActive
  <2> QED BY <1>2, <2>2
<1> QED BY <1>2, <1>3, NextKeepsMemory DEF KeepsMemory

\* An admission records whose request it is.
LEMMA AdmitNewOrigin ==
  ASSUME ClientTypes, DeviceTypes, AdmitNew
  PROVE  /\ Head(requests) \in Waiting
         /\ nextAdmissionId \in DOMAIN origin'
         /\ origin'[nextAdmissionId] = Head(requests).from
         /\ \A k \in DOMAIN origin : k \in DOMAIN origin' /\ origin'[k] = origin[k]
         /\ \A k \in DOMAIN origin' : k \in DOMAIN origin \/ k = nextAdmissionId
<1> DEFINE h == Head(requests)
           n == nextAdmissionId
<1>1. h \in Waiting /\ h \in Flight
  <2>1. requests # <<>>
    BY DEF AdmitNew
  <2>2. requests \in Seq(CommandFrame) /\ DOMAIN requests = 1 .. Len(requests)
        /\ Len(requests) \in Nat
    BY LenProperties DEF ClientTypes
  <2>3. 1 \in DOMAIN requests /\ h = requests[1]
    BY <2>1, <2>2, EmptySeq
  <2> QED BY <2>1, <2>3 DEF Waiting, Flight
<1>2. origin' = Append(origin, h.from)
  BY AdmitNewEffect
<1>3. origin \in Seq(Number) /\ Len(origin) = n - 1 /\ n \in Nat \ {0}
  BY DEF DeviceTypes, CoordinatorTypeOK
<1>4. h.from \in Number
  BY <1>1, FlightTypes
<1> HIDE DEF h, n
<1>5. /\ origin' \in Seq(Number) /\ Len(origin') = Len(origin) + 1
      /\ \A k \in 1 .. Len(origin) : origin'[k] = origin[k]
      /\ origin'[Len(origin) + 1] = h.from
  BY <1>2, <1>3, <1>4, AppendProperties
<1>6. DOMAIN origin = 1 .. Len(origin) /\ DOMAIN origin' = 1 .. Len(origin) + 1
      /\ Len(origin) \in Nat
  BY <1>3, <1>5, LenProperties
<1>7. Len(origin) + 1 = n
  BY <1>3
<1>8. \A k \in DOMAIN origin' : k \in DOMAIN origin \/ k = n
  BY <1>6, <1>7
<1>9. DOMAIN origin \subseteq DOMAIN origin' /\ n \in DOMAIN origin'
  BY <1>3, <1>6, <1>7
<1> QED BY <1>1, <1>5, <1>6, <1>7, <1>8, <1>9 DEF h, n

\* Every step keeps the records straight.
LEMMA NextKeepsRecords ==
  ASSUME ClientTypes, Counts, DeviceTypes, QueueTypes, CachedIsDone, Records, [Next]_vars
  PROVE  Records'
<1>1. \A x \in Waiting' : x.from \in Origin
  <2> SUFFICES ASSUME NEW x \in Waiting' PROVE x.from \in Origin
    OBVIOUS
  <2>1. CASE x \in Waiting
    BY <2>1 DEF Records
  <2>2. CASE x = CurrentFrame /\ client.phase \in {"Locking", "Writing"}
    <3>1. Here \in Origin
      BY <2>2, HereIsCounted
    <3> QED BY <2>2, <3>1, FlightTypes
  <2> QED BY <2>1, <2>2, NextWaiting
<1>2. CASE KeepsMemory
  BY <1>1, <1>2 DEF Records, KeepsMemory
<1>3. CASE AdmitNew
  <2> DEFINE n == nextAdmissionId
  <2>1. /\ Head(requests).from \in Origin
        /\ n \in DOMAIN origin' /\ origin'[n] = Head(requests).from
        /\ \A k \in DOMAIN origin : k \in DOMAIN origin' /\ origin'[k] = origin[k]
        /\ \A k \in DOMAIN origin' : k \in DOMAIN origin \/ k = n
    BY <1>3, AdmitNewOrigin DEF Records
  <2>2. PICK new \in Token :
          /\ new.id = n
          /\ \A t \in Tokens' : t \in Tokens \/ t = new
          /\ job' \in {job, new}
          /\ finished' \subseteq finished \cup {n}
    BY <1>3, AdmitNewDetail
  <2> HIDE DEF n
  <2>3. \A k \in DOMAIN origin' : origin'[k] \in Origin
    BY <2>1 DEF Records
  <2>4. \A t \in Tokens' : t.id \in DOMAIN origin'
    BY <2>1, <2>2 DEF Records
  <2>5. job' # None => job'.id \in DOMAIN origin'
    BY <2>1, <2>2 DEF Records
  <2>6. finished' \subseteq DOMAIN origin'
    BY <2>1, <2>2 DEF Records
  <2> QED BY <1>1, <2>3, <2>4, <2>5, <2>6 DEF Records
<1> QED BY <1>2, <1>3, NextKeepsMemory

\* All of the above, at start-up and always.
FullTypes == Counts /\ OtherTypes /\ QueueTypes /\ CachedIsDone /\ Records

LEMMA FullTypesHold == Spec => []FullTypes
<1>1. Init => FullTypes
  <2> SUFFICES ASSUME Init PROVE FullTypes
    OBVIOUS
  <2>1. Counts
    <3>1. /\ client.phase = "Closed" /\ client.run = 0 /\ client.number = 0
          /\ client.attempt = 0 /\ client.sent = 0 /\ client.closing = FALSE
      BY DEF Init
    <3> QED BY <3>1, BoundFacts DEF Counts
  <2>2. OtherTypes
    BY DEF Init, OtherTypes, HeartbeatPhase
  <2>3. QueueTypes
    <3>1. Len(requests) = 0 /\ Len(responses) = 0
      BY DEF Init
    <3> QED BY <3>1, BoundFacts DEF Init, QueueTypes
  <2>4. /\ DOMAIN cache = {} /\ DOMAIN line = {} /\ DOMAIN requests = {} /\ DOMAIN stops = {}
        /\ DOMAIN origin = {} /\ finished = {} /\ job = None
    BY DEF Init, CoordinatorInit
  <2>5. CachedIsDone /\ Records
    BY <2>4 DEF CachedIsDone, Records, Slot, Waiting, Tokens, OnLine
  <2> QED BY <2>1, <2>2, <2>3, <2>5 DEF FullTypes
<1>2. ClientTypes /\ DeviceTypes /\ ThreadInv /\ FullTypes /\ [Next]_vars => FullTypes'
  BY NextKeepsCounts, NextKeepsOtherTypes, NextKeepsQueueTypes, NextKeepsRecords DEF FullTypes
<1> QED BY ClientTypesHold, ThreadsAgree, <1>1, <1>2, PTL DEF Spec

\* The client's variables, the bytes on the line, the device's queues and the histories
\* keep their types, and the counters their bounds, for every cache, number of processes,
\* commands and retries, whatever the endpoint keeps and however DTR changes.
THEOREM ClientTypeCorrect == Spec => []TypeOK
<1>1. ClientTypes /\ DeviceTypes /\ FullTypes => TypeOK
  <2> SUFFICES ASSUME ClientTypes, DeviceTypes, FullTypes PROVE TypeOK
    OBVIOUS
  <2>1. CoordinatorTypeOK /\ job \in Token \cup {None} /\ Len(origin) = nextAdmissionId - 1
        /\ started \cup forgotten \subseteq DOMAIN origin
    BY DEF DeviceTypes
  <2>2. client \in [phase: ClientPhase, run: 0 .. RunLimit, number: 0 .. CommandLimit + 1,
                    command: Command, sequence: SequenceNumber, next: 0 .. MaxSequence,
                    attempt: 0 .. Retries, closing: BOOLEAN, sent: 0 .. CommandLimit]
    <3>1. client \in [phase: ClientPhase, run: Nat, number: Nat, command: Command,
                      sequence: SequenceNumber, next: SequenceNumber, attempt: Nat,
                      closing: BOOLEAN, sent: Nat]
      BY DEF ClientTypes
    <3>2. client.run \in 0 .. RunLimit
      <4>1. client.run \in Nat
        BY <3>1
      <4> QED BY <4>1, BoundFacts DEF FullTypes, Counts
    <3>3. client.attempt \in 0 .. Retries
      <4>1. client.attempt \in Nat
        BY <3>1
      <4> QED BY <4>1, BoundFacts DEF FullTypes, Counts
    <3>4. client.sent \in 0 .. CommandLimit
      <4>1. client.sent \in Nat
        BY <3>1
      <4> QED BY <4>1, BoundFacts DEF FullTypes, Counts
    <3>5. client.number \in 0 .. CommandLimit + 1
      <4>1. client.number \in Nat
        BY <3>1
      <4> DEFINE d == IF client.closing THEN 1 ELSE 0
      <4>2. d \in 0 .. 1 /\ client.number <= client.sent + d
        BY DEF FullTypes, Counts
      <4> HIDE DEF d
      <4> QED BY <3>4, <4>1, <4>2, BoundFacts
    <3>6. client.next \in 0 .. MaxSequence
      <4>1. client.next \in SequenceNumber
        BY <3>1
      <4> QED BY <4>1, SequenceFacts
    <3> QED BY <3>1, <3>2, <3>3, <3>4, <3>5, <3>6
  <2>3. HeartbeatFrame \in Frame
    <3>1. 0 \in 0 .. MaxSequence
      BY SequenceFacts
    <3> QED BY <3>1 DEF HeartbeatFrame, Frame
  <2>4. \A x \in CommandFrame : x.from \in Origin => x \in Frame
    <3>1. SequenceNumber \subseteq 0 .. MaxSequence
      BY SequenceFacts
    <3> QED BY <3>1 DEF CommandFrame, Frame
  <2>5. line \in Seq(Piece)
    <3>1. \A k \in DOMAIN line : line[k].frame \in Frame
      <4> SUFFICES ASSUME NEW k \in DOMAIN line PROVE line[k].frame \in Frame
        OBVIOUS
      <4>1. CASE k \in OnLine
        <5>1. line[k].frame \in Waiting /\ line[k].frame \in CommandFrame
          BY <4>1, FlightTypes DEF Waiting
        <5> QED BY <2>4, <5>1 DEF FullTypes, Records
      <4>2. CASE k \notin OnLine
        <5>1. line[k].frame \in CommandFrame \cup {HeartbeatFrame} /\ line[k].frame.sequence = 0
          BY <4>2, FlightTypes DEF OnLine
        <5>2. line[k].frame = HeartbeatFrame
          BY <5>1, SequenceFacts DEF CommandFrame
        <5> QED BY <2>3, <5>2
      <4> QED BY <4>1, <4>2
    <3>2. line \in Seq(LinePiece) /\ \A k \in DOMAIN line : line[k] \in LinePiece
      BY LineFacts
    <3>3. \A p \in LinePiece : p.frame \in Frame => p \in Piece
      BY DEF LinePiece, Piece
    <3>4. \A k \in DOMAIN line : line[k] \in Piece
      BY <3>1, <3>2, <3>3
    <3> QED BY <3>2, <3>4, SeqOfMembers
  <2>6. requests \in Seq(Frame)
    <3>1. \A k \in DOMAIN requests : requests[k] \in Frame
      BY <2>4, FlightTypes DEF FullTypes, Records, Waiting
    <3> QED BY <3>1, SeqOfMembers DEF ClientTypes
  <2>7. origin \in Seq(Origin)
    BY SeqOfMembers DEF DeviceTypes, FullTypes, Records
  <2>8. started \cup finished \cup forgotten \subseteq DOMAIN origin
    BY <2>1 DEF FullTypes, Records
  <2> QED BY <2>1, <2>2, <2>5, <2>6, <2>7, <2>8 DEF TypeOK, FullTypes, OtherTypes, QueueTypes
<1> QED BY ClientTypesHold, FullTypesHold, <1>1, PTL

-----------------------------------------------------------------------------
(* What Ok means.                                                          *)

\* The sequence of the n-th command of a process, in the first round of sequences.
SequenceOf(n) ==
  LET s == FirstSequence - 1 + n IN IF s <= MaxSequence THEN s ELSE s - MaxSequence

\* A process that goes round once gives no two commands the same sequence.
WithinOneRound == client.number <= MaxSequence

\* f is a command of the process at hand, and s its sequence.
OfThisProcess(s, f) ==
  /\ f[1] = client.run /\ f[2] \in 1 .. client.number /\ s = SequenceOf(f[2])

\* Without a session the device holds nothing of any.
SessionEmpty ==
  ~previousDtr => /\ Slot = {} /\ DOMAIN stops = {}
                  /\ DOMAIN requests = {} /\ DOMAIN responses = {}

\* All that is under way is of one process, and a reply that says yes has its work done.
SequenceInv ==
  /\ client.phase # "Closed" => client.next = SequenceOf(client.number + 1)
  /\ client.phase # "Closed" /\ client.number > 0 =>
       client.sequence = SequenceOf(client.number)
  /\ \A x \in Waiting : OfThisProcess(x.sequence, x.from)
  /\ \A t \in Tokens : OfThisProcess(t.sequence, origin[t.id])
  /\ \A p \in Replies : p.kind \in {"Ack", "Status"} =>
       \E i \in finished : OfThisProcess(p.sequence, origin[i])
  /\ OkMeansDone

\* Within a round sequences tell commands apart.
LEMMA SequenceOfFacts ==
  /\ SequenceOf(1) = FirstSequence
  /\ \A n \in 1 .. MaxSequence : NextSequence(SequenceOf(n)) = SequenceOf(n + 1)
  /\ \A m, n \in 1 .. MaxSequence : SequenceOf(m) = SequenceOf(n) => m = n
<1>1. MaxSequence \in Nat \ {0} /\ FirstSequence \in 1 .. MaxSequence
  BY SequenceFacts
<1>2. SequenceOf(1) = FirstSequence
  BY <1>1 DEF SequenceOf
<1>3. ASSUME NEW n \in 1 .. MaxSequence
      PROVE  NextSequence(SequenceOf(n)) = SequenceOf(n + 1)
  <2> DEFINE s == FirstSequence - 1 + n
             m == n + 1
             t == FirstSequence - 1 + m
  <2>1. s \in Nat /\ t = s + 1 /\ s <= MaxSequence + MaxSequence - 1 /\ s >= 1
    BY <1>1
  <2>2. /\ SequenceOf(n) = IF s <= MaxSequence THEN s ELSE s - MaxSequence
        /\ SequenceOf(m) = IF t <= MaxSequence THEN t ELSE t - MaxSequence
    BY DEF SequenceOf
  <2> HIDE DEF s, t
  <2>3. NextSequence(SequenceOf(n)) = SequenceOf(m)
    <3>1. CASE s <= MaxSequence
      BY <1>1, <2>1, <2>2, <3>1 DEF NextSequence
    <3>2. CASE ~(s <= MaxSequence)
      <4>1. SequenceOf(n) = s - MaxSequence /\ s - MaxSequence # MaxSequence
        BY <1>1, <2>1, <2>2, <3>2
      <4>2. SequenceOf(m) = s + 1 - MaxSequence
        BY <1>1, <2>1, <2>2, <3>2
      <4> QED BY <1>1, <2>1, <4>1, <4>2 DEF NextSequence
    <3> QED BY <3>1, <3>2
  <2> QED BY <2>3
<1>4. ASSUME NEW m \in 1 .. MaxSequence, NEW n \in 1 .. MaxSequence,
             SequenceOf(m) = SequenceOf(n)
      PROVE  m = n
  BY <1>1, <1>4 DEF SequenceOf
<1> QED BY <1>2, <1>3, <1>4

\* A sequence without places is empty.
LEMMA NoneIsEmpty ==
  ASSUME NEW S, NEW s \in Seq(S), DOMAIN s = {}
  PROVE  s = <<>>
<1>1. Len(s) \in Nat /\ DOMAIN s = 1 .. Len(s)
  BY LenProperties
<1>2. Len(s) = 0
  BY <1>1
<1> QED BY <1>2, EmptySeq

\* A session's end leaves nothing, and without one nothing comes.
LEMMA NextKeepsSessionEmpty ==
  ASSUME ClientTypes, DeviceTypes, QueueTypes, SessionEmpty, [Next]_vars
  PROVE  SessionEmpty'
<1>1. CASE SeeDtrFall
  <2>1. cache' = <<>> /\ stops' = <<>> /\ requests' = <<>> /\ responses' = <<>>
    BY <1>1 DEF SeeDtrFall, EndSession, ClearSession
  <2> QED BY <2>1 DEF SessionEmpty, Slot
<1>2. CASE SeeDtrRise
  BY <1>2 DEF SeeDtrRise, SessionEmpty
<1> SUFFICES ASSUME ~previousDtr, ~previousDtr', ~SeeDtrFall, ~SeeDtrRise
             PROVE  Slot' = {} /\ DOMAIN stops' = {} /\ DOMAIN requests' = {}
                    /\ DOMAIN responses' = {}
  <2>1. SeeDtrFall \/ SeeDtrRise \/ UNCHANGED previousDtr
    BY DEF Next, Open, Send, Drop, ClientLocks, ClientStep, ClientWrites, ClientFlushes,
       SkipStale, Conclude, ReadBusy, Wake, Timeout, Join, Killed, Tick, HeartbeatLocks,
       HeartbeatStep, HeartbeatToldToStop, HeartbeatChecks, HeartbeatWrites, HeartbeatFlushes,
       HeartbeatGoesTo, DeviceStep, Receive, Discard, LeaseExpires, AdmitNew, AnswerAtOnce,
       FinishRelease, Respond, FinishJob, Over, vars, deviceVars
  <2> QED BY <1>1, <1>2, <2>1 DEF SessionEmpty
<1>3. Slot = {} /\ DOMAIN stops = {} /\ DOMAIN requests = {} /\ DOMAIN responses = {}
  BY DEF SessionEmpty
<1>4. requests = <<>> /\ responses = <<>>
  BY <1>3, NoneIsEmpty DEF ClientTypes, QueueTypes
<1>5. CASE UNCHANGED <<cache, stops, requests, responses>>
  BY <1>3, <1>5 DEF Slot
<1>6. CASE FinishJob
  <2>1. UNCHANGED <<stops, requests>>
    BY <1>6 DEF FinishJob
  <2>2. ~\E kind : Complete(job, Answer(job, kind))
    BY <1>3 DEF Complete, CanComplete
  <2>3. UNCHANGED <<cache, responses>>
    BY <1>6, <2>2 DEF FinishJob, CompleteFails, coordVars
  <2> QED BY <1>5, <2>1, <2>3
<1>7. CASE FinishRelease
  <2>1. stops' = <<>> /\ UNCHANGED requests
    BY <1>7 DEF FinishRelease
  <2>2. Slot' = Slot
    BY <1>7, FinishReleaseEffect DEF KeepsEntries, Slot
  <2>3. DOMAIN responses' = {}
    BY <1>3, <1>7, FinishReleaseReplies
  <2> QED BY <1>3, <2>1, <2>2, <2>3
<1>8. CASE \/ Open \/ (\E command \in ClientCommand : Send(command)) \/ Drop \/ ClientLocks
           \/ ClientStep \/ Killed \/ Tick \/ HeartbeatLocks \/ HeartbeatStep
           \/ Over \/ UNCHANGED vars
  <2>1. UNCHANGED <<cache, stops, requests, responses>>
    BY <1>8 DEF Open, Send, Drop, ClientLocks, ClientStep, ClientWrites, ClientFlushes,
       SkipStale, Conclude, ReadBusy, Wake, Timeout, Join, Killed, Tick, HeartbeatLocks,
       HeartbeatStep, HeartbeatToldToStop, HeartbeatChecks, HeartbeatWrites, HeartbeatFlushes,
       HeartbeatGoesTo, Over, vars, deviceVars, coordVars
  <2> QED BY <1>5, <2>1
<1>9. CASE Receive \/ Discard \/ LeaseExpires \/ AdmitNew \/ AnswerAtOnce \/ Respond
  BY <1>4, <1>9 DEF Receive, Discard, LeaseExpires, AdmitNew, AnswerAtOnce, Respond
<1> QED BY <1>6, <1>7, <1>8, <1>9 DEF Next, DeviceStep

\* A process numbers its commands one after another.
LEMMA NextNumbers ==
  ASSUME ClientTypes, SequenceInv, WithinOneRound, WithinOneRound', [Next]_vars, ~Open
  PROVE  /\ client'.run = client.run
         /\ client.number \in Nat /\ client'.number \in Nat /\ client.number <= client'.number
         /\ client'.phase # "Closed" => client'.next = SequenceOf(client'.number + 1)
         /\ client'.phase # "Closed" /\ client'.number > 0 =>
              client'.sequence = SequenceOf(client'.number)
<1>1. /\ client \in [phase: ClientPhase, run: Nat, number: Nat, command: Command,
                     sequence: SequenceNumber, next: SequenceNumber, attempt: Nat,
                     closing: BOOLEAN, sent: Nat]
  BY DEF ClientTypes
<1>2. client.number \in Nat /\ client.number <= client.number
  BY <1>1
<1>3. CASE (\E command \in ClientCommand : Send(command)) \/ Drop
  <2>1. /\ client.phase = "Idle"
        /\ client'.run = client.run /\ client'.number = client.number + 1
        /\ client'.sequence = client.next /\ client'.next = NextSequence(client.next)
    BY <1>1, <1>3 DEF Send, Drop
  <2> DEFINE n == client.number + 1
  <2>2. client.next = SequenceOf(n)
    BY <2>1 DEF SequenceInv
  <2>3. client'.number = n /\ n \in 1 .. MaxSequence /\ client.number <= n /\ n \in Nat
    BY <1>2, <2>1, SequenceFacts DEF WithinOneRound
  <2> HIDE DEF n
  <2>4. NextSequence(SequenceOf(n)) = SequenceOf(n + 1)
    BY <2>3, SequenceOfFacts
  <2> QED BY <1>2, <2>1, <2>2, <2>3, <2>4
<1>4. CASE /\ ~Open /\ ~\E command \in ClientCommand : Send(command)
           /\ ~Drop
  <2>1. \/ \E ph \in ClientPhase : client' = [client EXCEPT !.phase = ph]
        \/ client' = [client EXCEPT !.phase = "Locking", !.attempt = @ + 1]
        \/ UNCHANGED client
    BY <1>4 DEF Next, ClientPhase, ClientLocks, ClientStep, ClientWrites, ClientFlushes,
       SkipStale, Conclude, ReadBusy, Wake, Timeout, Return, Retry, Join, Killed, Tick,
       HeartbeatLocks, HeartbeatStep, HeartbeatToldToStop, HeartbeatChecks, HeartbeatWrites,
       HeartbeatFlushes, HeartbeatGoesTo, DeviceStep, Receive, Discard, SeeDtrRise, SeeDtrFall,
       EndSession, LeaseExpires,
       AdmitNew, AnswerAtOnce, FinishRelease, Respond, FinishJob, Over, vars, clientVars
  <2>2. /\ client'.run = client.run /\ client'.number = client.number
        /\ client'.sequence = client.sequence /\ client'.next = client.next
    BY <1>1, <2>1
  <2>3. client'.phase # "Closed" => client.phase # "Closed"
    BY <1>4 DEF Next, ClientLocks, ClientStep, ClientWrites, ClientFlushes,
       SkipStale, Conclude, ReadBusy, Wake, Timeout, Join, Killed, Tick,
       HeartbeatLocks, HeartbeatStep, HeartbeatToldToStop, HeartbeatChecks, HeartbeatWrites,
       HeartbeatFlushes, HeartbeatGoesTo, DeviceStep, Receive, Discard, SeeDtrRise, SeeDtrFall,
       EndSession, LeaseExpires,
       AdmitNew, AnswerAtOnce, FinishRelease, Respond, FinishJob, Over, vars, clientVars
  <2> QED BY <1>2, <2>2, <2>3 DEF SequenceInv
<1> QED BY <1>3, <1>4

\* What a step makes of the history: done stays done, and whose it was stays known.
LEMMA NextKeepsHistory ==
  ASSUME ClientTypes, DeviceTypes, QueueTypes, CachedIsDone, Records, [Next]_vars
  PROVE  /\ finished \subseteq finished'
         /\ \A k \in DOMAIN origin : origin'[k] = origin[k]
<1>1. CASE AdmitNew
  BY <1>1, AdmitNewDetail, AdmitNewOrigin
<1>2. CASE KeepsMemory
  BY <1>2 DEF KeepsMemory
<1> QED BY <1>1, <1>2, NextKeepsMemory

\* A new process finds nothing of the last: the device saw DTR fall between them.
LEMMA OpenKeepsSequences ==
  ASSUME ~CoalescedDtr, ClientTypes, LineInv, SessionEmpty, QueueTypes, SequenceInv, Open
  PROVE  SequenceInv'
<1>1. client.phase = "Closed" /\ ~previousDtr
  BY DEF Open
<1>2. /\ inbox' = <<>> /\ UNCHANGED <<cache, line, requests, responses, stops, finished, origin>>
      /\ UNCHANGED results
  BY DEF Open, coordVars, deviceVars
<1>3. line = <<>> /\ Slot = {} /\ DOMAIN stops = {} /\ DOMAIN requests = {}
      /\ DOMAIN responses = {}
  BY <1>1 DEF LineInv, SessionEmpty
<1>4. DOMAIN inbox' = {} /\ DOMAIN line = {}
  BY <1>2, <1>3
<1>5. Waiting' = {} /\ Tokens' = {} /\ Replies' = {}
  BY <1>2, <1>3, <1>4 DEF Waiting, Tokens, Replies, Slot, OnLine
<1>6. client'.number = 0 /\ client'.next = FirstSequence
  BY DEF Open, ClientTypes
<1>7. client'.next = SequenceOf(client'.number + 1) /\ ~(client'.number > 0)
  <2>1. 0 + 1 = 1 /\ ~(0 > 0)
    OBVIOUS
  <2> QED BY <1>6, <2>1, SequenceOfFacts
<1>8. OkMeansDone'
  BY <1>2 DEF SequenceInv, OkMeansDone
<1> QED BY <1>5, <1>7, <1>8 DEF SequenceInv

\* The reply that send_command accepts is that of its own command.
LEMMA ConcludeIsDone ==
  ASSUME ClientTypes, Counts, QueueTypes, Records, SequenceInv, WithinOneRound, Conclude,
         Head(inbox).kind = ExpectedResponse(client.command)
  PROVE  \E i \in finished : origin[i] = Here
<1> DEFINE p == Head(inbox)
<1>1. inbox # <<>> /\ p.sequence = client.sequence /\ client.phase = "Reading"
  BY DEF Conclude
<1>2. p \in Replies
  <2>1. inbox \in Seq(Reply) /\ Len(inbox) \in Nat /\ DOMAIN inbox = 1 .. Len(inbox)
    BY LenProperties DEF QueueTypes
  <2>2. 1 \in DOMAIN inbox /\ p = inbox[1]
    BY <1>1, <2>1, EmptySeq
  <2> QED BY <2>2 DEF Replies
<1>3. p.kind \in {"Ack", "Status"}
  BY DEF ExpectedResponse
<1> HIDE DEF p
<1>4. PICK i \in finished : OfThisProcess(client.sequence, origin[i])
  BY <1>1, <1>2, <1>3 DEF SequenceInv
<1>5. client.number \in Nat /\ client.number >= 1 /\ client.number <= MaxSequence
  BY <1>1 DEF ClientTypes, Counts, WithinOneRound
<1>6. client.sequence = SequenceOf(client.number)
  <2>1. client.number > 0
    BY <1>5
  <2> QED BY <1>1, <2>1 DEF SequenceInv
<1>7. origin[i] \in Origin
  BY DEF Records
<1> DEFINE f == origin[i]
<1>8. /\ f \in Origin /\ f[1] = client.run /\ f[2] \in 1 .. client.number
      /\ SequenceOf(client.number) = SequenceOf(f[2])
  BY <1>4, <1>6, <1>7 DEF OfThisProcess
<1> HIDE DEF f
<1>9. client.number \in 1 .. MaxSequence /\ f[2] \in 1 .. MaxSequence
  BY <1>5, <1>8, SequenceFacts
<1>10. f[2] = client.number
  BY <1>8, <1>9, SequenceOfFacts
<1>11. f = Here
  BY <1>8, <1>10 DEF Here, Origin
<1> QED BY <1>11 DEF f

\* Every step keeps sequences and answers true to their commands.
LEMMA NextKeepsSequences ==
  ASSUME ~CoalescedDtr, ClientTypes, DeviceTypes, LineInv, FullTypes, SessionEmpty,
         SequenceInv, WithinOneRound, WithinOneRound', [Next]_vars
  PROVE  SequenceInv'
<1>1. CASE Open
  BY <1>1, OpenKeepsSequences DEF FullTypes
<1> SUFFICES ASSUME ~Open PROVE SequenceInv'
  BY <1>1
<1>2. /\ client'.run = client.run
      /\ client.number \in Nat /\ client'.number \in Nat /\ client.number <= client'.number
      /\ client'.phase # "Closed" => client'.next = SequenceOf(client'.number + 1)
      /\ client'.phase # "Closed" /\ client'.number > 0 =>
           client'.sequence = SequenceOf(client'.number)
  BY NextNumbers
<1>3. \A s, f : OfThisProcess(s, f) => OfThisProcess(s, f)'
  BY <1>2 DEF OfThisProcess
<1>4. Counts /\ QueueTypes /\ CachedIsDone /\ Records
  BY DEF FullTypes
<1>5. finished \subseteq finished' /\ \A k \in DOMAIN origin : origin'[k] = origin[k]
  BY <1>4, NextKeepsHistory
<1>6. \A x \in Waiting' : OfThisProcess(x.sequence, x.from)'
  <2> SUFFICES ASSUME NEW x \in Waiting' PROVE OfThisProcess(x.sequence, x.from)
    BY <1>3
  <2>1. CASE x \in Waiting
    BY <2>1 DEF SequenceInv
  <2>2. CASE x = CurrentFrame /\ client.phase \in {"Locking", "Writing"}
    <3>1. client.number >= 1 /\ client.sequence = SequenceOf(client.number)
      <4>1. client.number >= 1
        BY <1>4, <2>2 DEF Counts
      <4>2. client.number > 0
        BY <1>2, <4>1
      <4> QED BY <2>2, <4>1, <4>2 DEF SequenceInv
    <3>2. x.sequence = client.sequence /\ x.from = <<client.run, client.number>>
      BY <2>2 DEF CurrentFrame
    <3>3. client.number \in 1 .. client.number
      BY <1>2, <3>1
    <3> QED BY <3>1, <3>2, <3>3 DEF OfThisProcess
  <2> QED BY <2>1, <2>2, NextWaiting
<1>7. \A t \in Tokens : t.id \in DOMAIN origin
  BY <1>4 DEF Records
<1>8. \A t \in Tokens : OfThisProcess(t.sequence, origin'[t.id])
  BY <1>5, <1>7 DEF SequenceInv
<1>9. \A i \in finished : origin'[i] = origin[i]
  BY <1>4, <1>5 DEF Records
<1>10. \A p \in Replies : p.kind \in {"Ack", "Status"} =>
         \E i \in finished' : OfThisProcess(p.sequence, origin'[i])
  BY <1>5, <1>9 DEF SequenceInv
<1>11. /\ \A t \in Tokens' : OfThisProcess(t.sequence, origin'[t.id])
       /\ \A k \in DOMAIN responses' : responses'[k].kind \in {"Ack", "Status"} =>
            \E i \in finished' : OfThisProcess(responses'[k].sequence, origin'[i])
  <2>1. CASE AdmitNew
    <3>1. PICK new \in Token :
            /\ new.id = nextAdmissionId /\ new.sequence = Head(requests).sequence
            /\ \A t \in Tokens' : t \in Tokens \/ t = new
            /\ \A k \in DOMAIN responses' :
                 \/ \E j \in DOMAIN responses : responses'[k] = responses[j]
                 \/ responses'[k].sequence = new.sequence /\ nextAdmissionId \in finished'
      BY <1>4, <2>1, AdmitNewDetail
    <3>2. Head(requests) \in Waiting /\ origin'[nextAdmissionId] = Head(requests).from
      BY <2>1, AdmitNewOrigin
    <3>3. OfThisProcess(new.sequence, origin'[nextAdmissionId])
      BY <3>1, <3>2 DEF SequenceInv
    <3>4. \A t \in Tokens' : OfThisProcess(t.sequence, origin'[t.id])
      BY <1>8, <3>1, <3>3
    <3>5. \A k \in DOMAIN responses' : responses'[k].kind \in {"Ack", "Status"} =>
            \E i \in finished' : OfThisProcess(responses'[k].sequence, origin'[i])
      BY <1>10, <3>1, <3>3 DEF Replies
    <3> QED BY <3>4, <3>5
  <2>2. CASE KeepsMemory
    <3>1. \A t \in Tokens' : OfThisProcess(t.sequence, origin'[t.id])
      BY <1>8, <2>2 DEF KeepsMemory
    <3>2. \A k \in DOMAIN responses' : responses'[k].kind \in {"Ack", "Status"} =>
            \E i \in finished' : OfThisProcess(responses'[k].sequence, origin'[i])
      <4> SUFFICES ASSUME NEW k \in DOMAIN responses', responses'[k].kind \in {"Ack", "Status"}
                   PROVE  \E i \in finished' : OfThisProcess(responses'[k].sequence, origin'[i])
        OBVIOUS
      <4>1. \/ responses'[k] \in Replies
            \/ \E t \in Tokens : responses'[k].sequence = t.sequence /\ t.id \in finished'
        BY <2>2 DEF KeepsMemory
      <4>2. CASE responses'[k] \in Replies
        BY <1>10, <4>2
      <4>3. CASE \E t \in Tokens : responses'[k].sequence = t.sequence /\ t.id \in finished'
        BY <1>8, <4>3
      <4> QED BY <4>1, <4>2, <4>3
    <3> QED BY <3>1, <3>2
  <2> QED BY <1>4, <2>1, <2>2, NextKeepsMemory
<1>12. \A p \in Replies' : p.kind \in {"Ack", "Status"} =>
         \E i \in finished' : OfThisProcess(p.sequence, origin'[i])
  <2> SUFFICES ASSUME NEW p \in Replies', p.kind \in {"Ack", "Status"}
               PROVE  \E i \in finished' : OfThisProcess(p.sequence, origin'[i])
    OBVIOUS
  <2>1. CASE \E k \in DOMAIN responses' : p = responses'[k]
    BY <1>11, <2>1
  <2>2. CASE \E k \in DOMAIN inbox' : p = inbox'[k]
    <3>1. p \in Replies
      BY <1>4, <2>2, NextInbox
    <3> QED BY <1>10, <3>1
  <2> QED BY <2>1, <2>2 DEF Replies
<1>13. OkMeansDone'
  <2> SUFFICES ASSUME NEW f \in Origin, results'[f] = "Ok" PROVE \E i \in finished' : origin'[i] = f
    BY DEF OkMeansDone
  <2>1. CASE results[f] = "Ok"
    <3>1. \E i \in finished : origin[i] = f
      BY <2>1 DEF SequenceInv, OkMeansDone
    <3> QED BY <1>5, <1>9, <3>1
  <2>2. CASE results[f] # "Ok"
    <3>1. /\ Conclude /\ Head(inbox).kind = ExpectedResponse(client.command)
          /\ f = Here
      <4>1. results \in [Origin -> {"None", "Ok", "Error"}]
        BY DEF FullTypes, OtherTypes
      <4>2. \/ UNCHANGED results
            \/ results' = [results EXCEPT ![<<client.run, client.number>>] = "Error"]
            \/ /\ Conclude /\ Head(inbox).kind = ExpectedResponse(client.command)
               /\ results' = [results EXCEPT ![<<client.run, client.number>>] = "Ok"]
        BY DEF Next, Open, Send, Drop, ClientLocks, ClientStep, ClientWrites, ClientFlushes,
           SkipStale, Conclude, ReadBusy, Wake, Timeout, Join, Killed, Tick, HeartbeatLocks,
           HeartbeatStep, HeartbeatToldToStop, HeartbeatChecks, HeartbeatWrites,
           HeartbeatFlushes, HeartbeatGoesTo, DeviceStep, Receive, Discard, SeeDtrRise, SeeDtrFall,
       EndSession, LeaseExpires,
           AdmitNew, AnswerAtOnce, FinishRelease, Respond, FinishJob, Over, vars, clientVars,
           Return
      <4>3. ~UNCHANGED results
        BY <2>2
      <4>4. ~(results' = [results EXCEPT ![<<client.run, client.number>>] = "Error"])
        BY <2>2, <4>1
      <4>5. results' = [results EXCEPT ![<<client.run, client.number>>] = "Ok"] => f = Here
        BY <2>2, <4>1 DEF Here
      <4> QED BY <4>2, <4>3, <4>4, <4>5
    <3>2. \E i \in finished : origin[i] = f
      BY <1>4, <3>1, ConcludeIsDone
    <3> QED BY <1>5, <1>9, <3>2
  <2> QED BY <2>1, <2>2
<1>14. \A s, g : /\ g[1] = client'.run
                 /\ g[2] \in 1 .. client'.number
                 /\ s = SequenceOf(g[2])
                 => OfThisProcess(s, g)'
  BY DEF OfThisProcess
<1>15. \A s, g : OfThisProcess(s, g) => /\ g[1] = client'.run
                                        /\ g[2] \in 1 .. client'.number
                                        /\ s = SequenceOf(g[2])
  BY <1>2 DEF OfThisProcess
<1>16. \A t \in Tokens' : /\ origin'[t.id][1] = client'.run
                          /\ origin'[t.id][2] \in 1 .. client'.number
                          /\ t.sequence = SequenceOf(origin'[t.id][2])
  BY <1>11, <1>15
<1>17. \A p \in Replies' : p.kind \in {"Ack", "Status"} =>
         \E i \in finished' : /\ origin'[i][1] = client'.run
                              /\ origin'[i][2] \in 1 .. client'.number
                              /\ p.sequence = SequenceOf(origin'[i][2])
  BY <1>12, <1>15
<1> QED BY <1>2, <1>6, <1>13, <1>16, <1>17 DEF SequenceInv, OfThisProcess

\* Sequences tell the requests of a process apart.
LEMMA SequencesDiffer ==
  ASSUME ClientTypes, Records, SequenceInv, WithinOneRound
  PROVE  NoSequenceConflict
<1> SUFFICES ASSUME NEW k \in DOMAIN requests, NEW i \in Slot,
                    Holds(i, RequestOf(requests[k]))
             PROVE  origin[cache[i].token.id] = requests[k].from
  BY DEF NoSequenceConflict
<1> DEFINE f == origin[cache[i].token.id]
           g == requests[k].from
<1>1. cache[i].token \in Tokens /\ requests[k] \in Waiting
  BY DEF Tokens, Waiting
<1>2. cache[i].token.sequence = requests[k].sequence
  BY DEF Holds, RequestOf
<1>3. f \in Origin /\ g \in Origin
  BY <1>1 DEF Records
<1>4. /\ f[1] = client.run /\ f[2] \in 1 .. client.number /\ g[1] = client.run
      /\ g[2] \in 1 .. client.number /\ SequenceOf(f[2]) = SequenceOf(g[2])
  BY <1>1, <1>2 DEF SequenceInv, OfThisProcess
<1> HIDE DEF f, g
<1>5. f[2] \in 1 .. MaxSequence /\ g[2] \in 1 .. MaxSequence
  <2>1. client.number \in Nat /\ client.number <= MaxSequence
    BY DEF ClientTypes, WithinOneRound
  <2>2. 1 .. client.number \subseteq 1 .. MaxSequence
    BY <2>1, SequenceFacts
  <2> QED BY <1>4, <2>2
<1>6. f[2] = g[2]
  BY <1>4, <1>5, SequenceOfFacts
<1>7. f = g
  BY <1>3, <1>4, <1>6 DEF Origin
<1> QED BY <1>7 DEF f, g

\* Start-up, and the inductive step, of all that the two theorems below rest on.
LEMMA SequencesHold ==
  ASSUME ~LeftoverPacket, ~CoalescedDtr
  PROVE  Spec /\ []WithinOneRound => [](SequenceInv /\ ClientTypes /\ FullTypes)
<1>1. Init => LineInv
  BY EmptySeq DEF Init, LineInv, Pieces, AtBoundary
<1>2. ClientTypes /\ ThreadInv /\ LineInv /\ [Next]_vars => LineInv'
  BY NextKeepsLine
<1>3. Init => SessionEmpty /\ SequenceInv
  <2> SUFFICES ASSUME Init PROVE SessionEmpty /\ SequenceInv
    OBVIOUS
  <2>1. /\ DOMAIN cache = {} /\ DOMAIN line = {} /\ DOMAIN requests = {} /\ DOMAIN stops = {}
        /\ DOMAIN responses = {} /\ DOMAIN inbox = {} /\ client.phase = "Closed"
        /\ \A f \in Origin : results[f] = "None"
    BY DEF Init, CoordinatorInit
  <2> QED BY <2>1 DEF SessionEmpty, SequenceInv, Slot, Waiting, Tokens, Replies, OnLine,
                      OkMeansDone
<1>4. ClientTypes /\ DeviceTypes /\ FullTypes /\ SessionEmpty /\ [Next]_vars => SessionEmpty'
  BY NextKeepsSessionEmpty DEF FullTypes
<1>5. /\ ClientTypes /\ DeviceTypes /\ LineInv /\ FullTypes /\ SessionEmpty /\ SequenceInv
      /\ WithinOneRound /\ WithinOneRound' /\ [Next]_vars
      => SequenceInv'
  BY NextKeepsSequences
<1> QED BY ClientTypesHold, ThreadsAgree, FullTypesHold, <1>1, <1>2, <1>3, <1>4, <1>5, PTL
        DEF Spec

\* send_command returns Ok only when the device has done this very command, however
\* often it was sent, however late its answers, and whatever earlier processes left
\* behind.  The device must see DTR fall between processes and find no packet of the
\* first in the endpoint, and a process must not go round its sequences: the answer to
\* a command that is 65535 commands old would pass for its own.
THEOREM OkIsHonest ==
  ~LeftoverPacket /\ ~CoalescedDtr => (Spec /\ []WithinOneRound => []OkMeansDone)
<1> SUFFICES ASSUME ~LeftoverPacket, ~CoalescedDtr
             PROVE  Spec /\ []WithinOneRound => []OkMeansDone
  OBVIOUS
<1>1. SequenceInv => OkMeansDone
  BY DEF SequenceInv
<1> QED BY SequencesHold, <1>1, PTL

\* Under the same conditions the records stay sound, frames stay whole and no request
\* meets an entry that the cache holds for another command.
THEOREM ClientIsSound ==
  ~LeftoverPacket /\ ~CoalescedDtr => (Spec /\ []WithinOneRound => []ClientInv)
<1> SUFFICES ASSUME ~LeftoverPacket, ~CoalescedDtr
             PROVE  Spec /\ []WithinOneRound => []ClientInv
  OBVIOUS
<1>1. Spec => []FramesAreWhole
  BY FramesStayWhole
<1>2. /\ SequenceInv /\ ClientTypes /\ FullTypes /\ WithinOneRound /\ TypeOK /\ FramesAreWhole
      => ClientInv
  BY SequencesDiffer DEF FullTypes, ClientInv
<1> QED BY SequencesHold, ClientTypeCorrect, <1>1, <1>2, PTL

\* A process that sends fewer commands than there are sequences stays within a round.
THEOREM ShortRunsGoRoundOnce ==
  CommandLimit < MaxSequence => (Spec => []WithinOneRound)
<1> SUFFICES ASSUME CommandLimit < MaxSequence PROVE Spec => []WithinOneRound
  OBVIOUS
<1>1. TypeOK => WithinOneRound
  <2> SUFFICES ASSUME TypeOK PROVE client.number <= MaxSequence
    BY DEF WithinOneRound
  <2>1. client.number \in 0 .. CommandLimit + 1
    BY DEF TypeOK
  <2> QED BY <2>1, BoundFacts, SequenceFacts
<1> QED BY ClientTypeCorrect, <1>1, PTL
=============================================================================
