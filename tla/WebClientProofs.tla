--------------------------- MODULE WebClientProofs ---------------------------
(***************************************************************************)
(* What the page may rely on, for every number of sessions, commands,      *)
(* waiting connects and retries, and whatever the serial port does; and    *)
(* what the run of a script promises, in the page and in hidctl, for every *)
(* script and batch size.                                                  *)
(***************************************************************************)
EXTENDS WebClient, Script, SequenceTheorems, FiniteSetTheorems, TLAPS

\* Where an item waits in a queue.
At(q, item) == {k \in DOMAIN q : q[k] = item}
Places(s, item) == At(queue[s], item)

\* A command's record, without the bounds on its timers.
CallRecord == [state: CallState, session: {0} \cup Session, attempts: Nat,
               remaining: 0 .. Retries, response: Nat, retry: Nat,
               timer: {"None", "Response", "Retry"}]

\* The timer that may be cleared is running; an attempt that may still follow is
\* counted already.
Sound(call) ==
  /\ call \in CallRecord
  /\ call.attempts <= Retries + 1
  /\ call.retry <= Retries + 1
  /\ call.state \in {"Unsent", "Queued"} =>
       /\ call.attempts = 0 /\ call.response = 0 /\ call.retry = 0
       /\ call.remaining = Retries /\ call.timer = "None"
  /\ call.state = "Pending" => call.attempts + call.remaining + call.retry <= Retries + 1
  /\ call.timer = "Response" => call.response > 0
  /\ call.timer = "Retry" => call.retry > 0
  /\ call.state # "Unsent" => call.session # 0

\* Each response timer and each write that waits is that of an attempt.
Counted(c, s) ==
  /\ calls[c].response + Cardinality(Places(s, c)) <= calls[c].attempts
  /\ Places(s, c) # {} => s = calls[c].session

CallInv ==
  /\ calls \in [Call -> CallRecord]
  /\ \A c \in Call : Sound(calls[c]) /\ \A s \in Session : Counted(c, s)

QueueType == queue \in [Session -> Seq(Item)]

-----------------------------------------------------------------------------
(* Queues.                                                                 *)

\* What waits can be counted.
LEMMA AtIsFinite ==
  ASSUME NEW q \in Seq(Item), NEW item
  PROVE  /\ At(q, item) \subseteq 1 .. Len(q)
         /\ IsFiniteSet(At(q, item)) /\ Cardinality(At(q, item)) \in Nat
         /\ Cardinality(At(q, item)) = 0 <=> At(q, item) = {}
<1>1. DOMAIN q = 1 .. Len(q) /\ Len(q) \in Nat
  BY LenProperties
<1>2. At(q, item) \subseteq 1 .. Len(q)
  BY <1>1 DEF At
<1>3. IsFiniteSet(1 .. Len(q))
  BY <1>1, FS_Interval
<1>4. IsFiniteSet(At(q, item))
  BY <1>2, <1>3, FS_Subset
<1> QED BY <1>2, <1>4, FS_CardinalityType, FS_EmptySet

\* What is put behind the others.
LEMMA AtAppend ==
  ASSUME NEW q \in Seq(Item), NEW x \in Item, NEW item
  PROVE  /\ item # x => At(Append(q, x), item) = At(q, item)
         /\ item = x => /\ At(Append(q, x), item) = At(q, item) \cup {Len(q) + 1}
                        /\ Cardinality(At(Append(q, x), item)) = Cardinality(At(q, item)) + 1
<1> DEFINE r == Append(q, x)
<1>1. /\ r \in Seq(Item) /\ Len(r) = Len(q) + 1 /\ r[Len(q) + 1] = x
      /\ \A k \in 1 .. Len(q) : r[k] = q[k]
  BY AppendProperties
<1>2. DOMAIN q = 1 .. Len(q) /\ Len(q) \in Nat
  BY LenProperties
<1> HIDE DEF r
<1>3. DOMAIN r = 1 .. Len(q) + 1
  BY <1>1, LenProperties
<1>4. item # x => At(r, item) = At(q, item)
  BY <1>1, <1>2, <1>3 DEF At
<1>5. ASSUME item = x
      PROVE  /\ At(r, item) = At(q, item) \cup {Len(q) + 1}
             /\ Cardinality(At(r, item)) = Cardinality(At(q, item)) + 1
  <2>1. At(r, item) = At(q, item) \cup {Len(q) + 1}
    BY <1>1, <1>2, <1>3, <1>5 DEF At
  <2>2. IsFiniteSet(At(q, item)) /\ Len(q) + 1 \notin At(q, item)
    BY <1>2, AtIsFinite
  <2> QED BY <2>1, <2>2, FS_AddElement
<1> QED BY <1>4, <1>5 DEF r

\* What is left when the head is done.
LEMMA AtTail ==
  ASSUME NEW q \in Seq(Item), q # <<>>, NEW item
  PROVE  /\ \A k \in At(Tail(q), item) : k + 1 \in At(q, item)
         /\ Cardinality(At(Tail(q), item)) <= Cardinality(At(q, item))
         /\ q[1] = item => /\ At(q, item) # {}
                           /\ Cardinality(At(Tail(q), item)) + 1 <= Cardinality(At(q, item))
<1> DEFINE r == Tail(q)
           A == At(q, item)
           B == At(r, item)
           f == [k \in B |-> k + 1]
<1>1. /\ r \in Seq(Item) /\ Len(r) = Len(q) - 1
      /\ \A k \in 1 .. Len(r) : r[k] = q[k + 1]
  BY HeadTailProperties
<1>2. DOMAIN q = 1 .. Len(q) /\ Len(q) \in Nat /\ Len(q) # 0
  BY EmptySeq, LenProperties
<1> HIDE DEF r
<1>3. DOMAIN r = 1 .. Len(r) /\ Len(r) \in Nat
  BY <1>1, LenProperties
<1>4. \A k \in B : k \in Nat /\ k >= 1 /\ k + 1 \in A
  BY <1>1, <1>2, <1>3 DEF At
<1>5. /\ IsFiniteSet(A) /\ Cardinality(A) \in Nat
      /\ IsFiniteSet(B) /\ Cardinality(B) \in Nat
  BY <1>1, AtIsFinite
<1>6. q[1] = item => 1 \in A
  BY <1>2 DEF At
<1> HIDE DEF A, B
<1>7. f \in Injection(B, A \ {1})
  <2>1. f \in [B -> A \ {1}]
    BY <1>4
  <2>2. IsInjective(f)
    BY <1>4 DEF IsInjective
  <2> QED BY <2>1, <2>2 DEF Injection
<1>8. IsFiniteSet(A \ {1})
      /\ Cardinality(A \ {1}) = IF 1 \in A THEN Cardinality(A) - 1 ELSE Cardinality(A)
  BY <1>5, FS_RemoveElement
<1>9. Cardinality(B) <= Cardinality(A \ {1})
  BY <1>7, <1>8, FS_Injection
<1>10. Cardinality(B) <= Cardinality(A)
  BY <1>5, <1>8, <1>9
<1>11. q[1] = item => A # {} /\ Cardinality(B) + 1 <= Cardinality(A)
  BY <1>5, <1>6, <1>8, <1>9
<1> QED BY <1>4, <1>10, <1>11 DEF A, B, r

\* A queue when its head is done, and a frame that is not begun behind it.
Rests(q) == {Tail(q)} \cup {rest \in {Tail(Tail(q))} : Len(q) > 1}

LEMMA AtRest ==
  ASSUME NEW q \in Seq(Item), q # <<>>, NEW rest \in Rests(q), NEW item
  PROVE  /\ rest \in Seq(Item)
         /\ At(rest, item) # {} => At(q, item) # {}
         /\ Cardinality(At(rest, item)) <= Cardinality(At(q, item))
         /\ q[1] = item => /\ At(q, item) # {}
                           /\ Cardinality(At(rest, item)) + 1 <= Cardinality(At(q, item))
<1> DEFINE r == Tail(q)
<1>1. /\ r \in Seq(Item) /\ Len(r) = Len(q) - 1 /\ Len(q) \in Nat
      /\ (Len(q) > 1 => r # <<>>)
  <2>1. r \in Seq(Item) /\ Len(r) = Len(q) - 1
    BY HeadTailProperties
  <2>2. Len(q) \in Nat
    BY LenProperties
  <2> DEFINE n == Len(q)
             m == Len(r)
  <2>3. n \in Nat /\ m = n - 1
    BY <2>1, <2>2
  <2> HIDE DEF n, m
  <2>4. n > 1 => m # 0
    BY <2>3
  <2> QED BY <2>1, <2>2, <2>4, EmptySeq DEF n, m
<1>2. /\ Cardinality(At(r, item)) <= Cardinality(At(q, item))
      /\ q[1] = item => /\ At(q, item) # {}
                        /\ Cardinality(At(r, item)) + 1 <= Cardinality(At(q, item))
      /\ At(r, item) # {} => At(q, item) # {}
  BY AtTail
<1>3. Cardinality(At(q, item)) \in Nat /\ Cardinality(At(r, item)) \in Nat
  BY <1>1, AtIsFinite
<1>4. CASE rest = r
  BY <1>1, <1>2, <1>4
<1>5. CASE Len(q) > 1 /\ rest = Tail(r)
  <2> HIDE DEF r
  <2>1. rest \in Seq(Item)
    BY <1>1, <1>5, HeadTailProperties
  <2>2. /\ Cardinality(At(rest, item)) <= Cardinality(At(r, item))
        /\ At(rest, item) # {} => At(r, item) # {}
    BY <1>1, <1>5, AtTail
  <2>3. Cardinality(At(rest, item)) \in Nat
    BY <2>1, AtIsFinite
  <2> QED BY <1>2, <1>3, <2>1, <2>2, <2>3
<1> QED BY <1>4, <1>5 DEF Rests

\* A queue of one frame.
LEMMA OneFrame ==
  ASSUME NEW q \in Seq(Item), Len(q) = 1
  PROVE  q = <<q[1]>>
OBVIOUS

-----------------------------------------------------------------------------
(* Commands.                                                               *)

\* Retries are a number.
LEMMA RetryFacts == Retries \in Nat /\ CommandLimit \in Nat \ {0} /\ SessionLimit \in Nat \ {0}
BY WebClientAssumption DEF WebClientAssumption

\* Commands are neither heartbeats nor STOP_ALL.
LEMMA ItemFacts ==
  /\ Call \subseteq Item /\ HeartbeatFrame \in Item /\ StopFrame \in Item
  /\ HeartbeatFrame \notin Call /\ StopFrame \notin Call /\ HeartbeatFrame # StopFrame
BY RetryFacts DEF Item, Call, HeartbeatFrame, StopFrame

\* A timer that is cleared was running.
LEMMA ClearedIsSound ==
  ASSUME NEW call, Sound(call), call.state = "Pending"
  PROVE  /\ Sound(Cleared(call))
         /\ Cleared(call).state = "Pending" /\ Cleared(call).timer = "None"
         /\ Cleared(call).attempts = call.attempts /\ Cleared(call).session = call.session
         /\ Cleared(call).remaining = call.remaining
         /\ Cleared(call).response <= call.response
<1> DEFINE p == IF call.timer = "Response" THEN call.response - 1 ELSE call.response
           r == IF call.timer = "Retry" THEN call.retry - 1 ELSE call.retry
<1>1. /\ call \in CallRecord /\ call.attempts \in Nat /\ call.remaining \in 0 .. Retries
      /\ call.response \in Nat /\ call.retry \in Nat /\ call.session \in {0} \cup Session
  BY DEF Sound, CallRecord
<1>2. p \in Nat /\ p <= call.response
  BY <1>1 DEF Sound
<1>3. r \in Nat /\ r <= call.retry
  BY <1>1 DEF Sound
<1>4. Cleared(call) = [call EXCEPT !.response = p, !.retry = r, !.timer = "None"]
  BY DEF Cleared
<1> HIDE DEF p, r
<1>5. /\ Cleared(call) \in CallRecord
      /\ Cleared(call).response = p /\ Cleared(call).retry = r
      /\ Cleared(call).timer = "None" /\ Cleared(call).state = "Pending"
      /\ Cleared(call).attempts = call.attempts /\ Cleared(call).session = call.session
      /\ Cleared(call).remaining = call.remaining
  BY <1>1, <1>2, <1>3, <1>4 DEF CallRecord
<1>6. call.attempts + call.remaining + r <= Retries + 1 /\ r <= Retries + 1
  BY <1>1, <1>3, RetryFacts DEF Sound
<1>7. Sound(Cleared(call))
  BY <1>5, <1>6 DEF Sound
<1> QED BY <1>2, <1>5, <1>7

\* So is the timer of a command that is settled.
LEMMA SettledIsSound ==
  ASSUME NEW call, Sound(call), call.state = "Pending", NEW st \in {"Resolved", "Rejected"}
  PROVE  /\ Sound(Settled(call, st)) /\ Settled(call, st).state = st
         /\ Settled(call, st).attempts = call.attempts
         /\ Settled(call, st).session = call.session
         /\ Settled(call, st).response <= call.response
<1> DEFINE d == Cleared(call)
<1>1. /\ Sound(d) /\ d.timer = "None" /\ d.attempts = call.attempts
      /\ d.session = call.session /\ d.response <= call.response
      /\ d.state = "Pending"
  BY ClearedIsSound
<1>2. Settled(call, st) = [d EXCEPT !.state = st]
  BY DEF Settled
<1> HIDE DEF d
<1>3. d \in CallRecord /\ st \in CallState
  BY <1>1 DEF Sound, CallState
<1>4. /\ [d EXCEPT !.state = st] \in CallRecord
      /\ Sound([d EXCEPT !.state = st])
  BY <1>1, <1>3 DEF Sound, CallRecord
<1> QED BY <1>1, <1>2, <1>3, <1>4 DEF CallRecord

\* BUSY takes one of the remaining retries.
LEMMA RetryLaterIsSound ==
  ASSUME NEW call, Sound(call), call.state = "Pending"
  PROVE  LET after == RetryLater(Cleared(call))
         IN  /\ Sound(after) /\ after.attempts = call.attempts
             /\ after.session = call.session /\ after.response <= call.response
<1> DEFINE d == Cleared(call)
<1>1. /\ Sound(d) /\ d.timer = "None" /\ d.attempts = call.attempts
      /\ d.session = call.session /\ d.response <= call.response
      /\ d.state = "Pending"
  BY ClearedIsSound
<1> HIDE DEF d
<1>2. d \in CallRecord /\ d.remaining \in 0 .. Retries /\ d.retry \in Nat /\ d.attempts \in Nat
      /\ d.response \in Nat /\ call.response \in Nat
  BY <1>1 DEF Sound, CallRecord
<1>3. CASE d.remaining = 0
  <2>1. RetryLater(d) = Settled(d, "Rejected")
    BY <1>3 DEF RetryLater
  <2>2. /\ Sound(Settled(d, "Rejected"))
        /\ Settled(d, "Rejected").attempts = d.attempts
        /\ Settled(d, "Rejected").session = d.session
        /\ Settled(d, "Rejected").response <= d.response
    BY <1>1, SettledIsSound
  <2>3. Settled(d, "Rejected").response \in Nat
    BY <2>2 DEF Sound, CallRecord
  <2>4. Settled(d, "Rejected").response <= call.response
    BY <1>1, <1>2, <2>2, <2>3
  <2> QED BY <1>1, <2>1, <2>2, <2>4 DEF d
<1>4. CASE d.remaining # 0
  <2> DEFINE m == d.remaining - 1
             r == d.retry + 1
  <2>1. /\ m \in 0 .. Retries /\ r \in Nat /\ r > 0 /\ r <= Retries + 1
        /\ d.attempts + m + r <= Retries + 1
    BY <1>1, <1>2, <1>4, RetryFacts DEF Sound
  <2>2. RetryLater(d) = [d EXCEPT !.remaining = m, !.retry = r, !.timer = "Retry"]
    BY <1>4 DEF RetryLater
  <2> HIDE DEF m, r
  <2> DEFINE a == [d EXCEPT !.remaining = m, !.retry = r, !.timer = "Retry"]
  <2>3. /\ a \in CallRecord /\ a.remaining = m /\ a.retry = r /\ a.timer = "Retry"
        /\ a.state = "Pending" /\ a.attempts = d.attempts /\ a.session = d.session
        /\ a.response = d.response
    BY <1>1, <1>2, <2>1 DEF CallRecord
  <2> HIDE DEF a
  <2>4. Sound(a)
    BY <1>1, <2>1, <2>3 DEF Sound
  <2> QED BY <1>1, <2>2, <2>3, <2>4 DEF a, d
<1> QED BY <1>3, <1>4

\* A response timer that ends.
LEMMA EndedResponseIsSound ==
  ASSUME NEW call, Sound(call), call.response > 0
  PROVE  LET after == [call EXCEPT !.response = @ - 1, !.timer = "None"]
         IN  /\ Sound(after) /\ after.attempts = call.attempts /\ after.state = call.state
             /\ after.session = call.session /\ after.response <= call.response
<1> DEFINE p == call.response - 1
<1>1. call \in CallRecord /\ call.response \in Nat
  BY DEF Sound, CallRecord
<1>2. p \in Nat /\ p <= call.response
  BY <1>1
<1> HIDE DEF p
<1> DEFINE a == [call EXCEPT !.response = p, !.timer = "None"]
<1>3. /\ a \in CallRecord /\ a.remaining = call.remaining /\ a.retry = call.retry
      /\ a.timer = "None" /\ a.state = call.state /\ a.attempts = call.attempts
      /\ a.session = call.session /\ a.response = p
  BY <1>1, <1>2 DEF CallRecord
<1>4. call.state \notin {"Unsent", "Queued"}
  BY <1>1 DEF Sound
<1> HIDE DEF a
<1>5. Sound(a)
  BY <1>3, <1>4 DEF Sound
<1> QED BY <1>2, <1>3, <1>5 DEF a, p

\* A retry timer that ends leaves room for the attempt it was for.
LEMMA EndedRetryIsSound ==
  ASSUME NEW call, Sound(call), call.retry > 0
  PROVE  LET after == [call EXCEPT !.retry = @ - 1, !.timer = "None"]
         IN  /\ Sound(after) /\ after.attempts = call.attempts /\ after.state = call.state
             /\ after.session = call.session /\ after.response = call.response
             /\ after.state = "Pending" =>
                  after.attempts + after.remaining + after.retry <= Retries
<1> DEFINE r == call.retry - 1
<1>1. /\ call \in CallRecord /\ call.retry \in Nat /\ call.attempts \in Nat
      /\ call.remaining \in 0 .. Retries
  BY DEF Sound, CallRecord
<1>2. r \in Nat /\ r <= call.retry
  BY <1>1
<1>3. r <= Retries + 1
  BY <1>1, RetryFacts DEF Sound
<1>4. call.state = "Pending" => call.attempts + call.remaining + r <= Retries
  BY <1>1, RetryFacts DEF Sound
<1> HIDE DEF r
<1> DEFINE a == [call EXCEPT !.retry = r, !.timer = "None"]
<1>5. /\ a \in CallRecord /\ a.remaining = call.remaining /\ a.retry = r
      /\ a.timer = "None" /\ a.state = call.state /\ a.attempts = call.attempts
      /\ a.session = call.session /\ a.response = call.response
  BY <1>1, <1>2 DEF CallRecord
<1>6. call.state \notin {"Unsent", "Queued"}
  BY <1>1 DEF Sound
<1> HIDE DEF a
<1>7. a.state = "Pending" => a.attempts + a.remaining + a.retry <= Retries
  BY <1>4, <1>5
<1>8. a.state = "Pending" => a.attempts + a.remaining + a.retry <= Retries + 1
  BY <1>1, <1>2, <1>4, <1>5, RetryFacts
<1>9. Sound(a)
  BY <1>3, <1>5, <1>6, <1>8 DEF Sound
<1> QED BY <1>5, <1>7, <1>9 DEF a, r

\* What is put at the end of a queue.
LEMMA QueueAppends ==
  ASSUME QueueType, NEW s, NEW x \in Item, queue' = [queue EXCEPT ![s] = Append(@, x)]
  PROVE  /\ QueueType'
         /\ \A t \in Session : queue'[t] = IF t = s THEN Append(queue[t], x) ELSE queue[t]
         /\ \A t \in Session : \A item : item # x => Places(t, item)' = Places(t, item)
<1>1. queue \in [Session -> Seq(Item)]
  BY DEF QueueType
<1>2. \A t \in Session : queue'[t] = IF t = s THEN Append(queue[t], x) ELSE queue[t]
  BY <1>1
<1>3. \A t \in Session : queue[t] \in Seq(Item) /\ Append(queue[t], x) \in Seq(Item)
  BY <1>1, AppendProperties
<1>4. QueueType'
  <2>1. queue' = [t \in Session |-> IF t = s THEN Append(queue[t], x) ELSE queue[t]]
    BY <1>1
  <2> QED BY <1>3, <2>1 DEF QueueType
<1>5. ASSUME NEW t \in Session, NEW item, item # x
      PROVE  Places(t, item)' = Places(t, item)
  <2>1. At(queue'[t], item) = At(queue[t], item)
    BY <1>2, <1>3, <1>5, AtAppend
  <2> QED BY <2>1 DEF Places, At
<1> QED BY <1>2, <1>4, <1>5

\* Places are finite sets.
LEMMA PlacesAreFinite ==
  ASSUME QueueType, NEW s \in Session, NEW item
  PROVE  /\ Cardinality(Places(s, item)) \in Nat
         /\ Cardinality(Places(s, item)) = 0 <=> Places(s, item) = {}
BY AtIsFinite DEF QueueType, Places

\* Commands that only get on, or are settled.
LEMMA CallsShrink ==
  ASSUME QueueType, QueueType', CallInv, calls' \in [Call -> CallRecord],
         \A c \in Call :
           /\ Sound(calls'[c])
           /\ calls'[c].attempts = calls[c].attempts
           /\ calls'[c].response <= calls[c].response
           /\ calls'[c].session = calls[c].session \/ calls[c].attempts = 0,
         \A c \in Call, s \in Session :
           Cardinality(Places(s, c)') <= Cardinality(Places(s, c))
  PROVE  CallInv'
<1> SUFFICES ASSUME NEW c \in Call, NEW s \in Session
             PROVE  /\ calls'[c].response + Cardinality(Places(s, c)') <= calls'[c].attempts
                    /\ Places(s, c)' # {} => s = calls'[c].session
  BY DEF CallInv, Counted
<1> DEFINE new == Cardinality(Places(s, c)')
           old == Cardinality(Places(s, c))
<1>1. new \in Nat /\ (new = 0 <=> Places(s, c)' = {})
  <2>1. queue'[s] \in Seq(Item)
    BY DEF QueueType
  <2>2. Places(s, c)' = At(queue'[s], c)
    BY DEF Places, At
  <2> QED BY <2>1, <2>2, AtIsFinite
<1>2. old \in Nat /\ (old = 0 <=> Places(s, c) = {})
  BY PlacesAreFinite
<1>3. new <= old
  OBVIOUS
<1>4. /\ calls[c].response \in Nat /\ calls[c].attempts \in Nat
      /\ calls'[c].response \in Nat
  BY DEF CallInv, CallRecord
<1>5. /\ calls[c].response + old <= calls[c].attempts
      /\ Places(s, c) # {} => s = calls[c].session
  BY DEF CallInv, Counted
<1> HIDE DEF new, old
<1>6. calls'[c].response + new <= calls'[c].attempts
  BY <1>1, <1>2, <1>3, <1>4, <1>5
<1>7. ASSUME new # 0 PROVE s = calls'[c].session
  <2>1. old # 0 /\ calls[c].attempts # 0
    BY <1>1, <1>2, <1>3, <1>4, <1>5, <1>7
  <2> QED BY <1>2, <1>5, <2>1
<1> QED BY <1>1, <1>6, <1>7 DEF new

\* A write that is queued is that of a new attempt.
LEMMA WritingIsCounted ==
  ASSUME QueueType, CallInv, NEW c \in Call, NEW call, WritePending(c, call),
         Sound([call EXCEPT !.attempts = @ + 1]), call \in CallRecord,
         call.session = calls[c].session, call.attempts = calls[c].attempts,
         call.response <= calls[c].response
  PROVE  QueueType' /\ CallInv'
<1> DEFINE a == [call EXCEPT !.attempts = @ + 1]
           z == call.session
<1>1. /\ call.attempts \in Nat /\ call.response \in Nat
      /\ calls \in [Call -> CallRecord] /\ c \in Item
  BY ItemFacts DEF CallRecord, CallInv
<1>2. call.attempts + 1 \in Nat
  BY <1>1
<1>3. /\ a \in CallRecord /\ a.attempts = call.attempts + 1 /\ a.session = z
      /\ a.response = call.response
  BY <1>1, <1>2 DEF CallRecord
<1>4. calls' = [calls EXCEPT ![c] = a] /\ queue' = [queue EXCEPT ![z] = Append(@, c)]
      /\ Sound(a)
  BY DEF WritePending
<1> HIDE DEF a, z
<1>5. /\ QueueType'
      /\ \A t \in Session : queue'[t] = IF t = z THEN Append(queue[t], c) ELSE queue[t]
      /\ \A t \in Session : \A item : item # c => Places(t, item)' = Places(t, item)
  BY <1>1, <1>4, QueueAppends
<1>6. calls' \in [Call -> CallRecord] /\ calls'[c] = a
      /\ \A d \in Call \ {c} : calls'[d] = calls[d]
  BY <1>1, <1>3, <1>4
<1>7. \A d \in Call : Sound(calls'[d])
  BY <1>4, <1>6 DEF CallInv
<1>8. ASSUME NEW d \in Call, NEW t \in Session
      PROVE  /\ calls'[d].response + Cardinality(Places(t, d)') <= calls'[d].attempts
             /\ Places(t, d)' # {} => t = calls'[d].session
  <2>1. /\ calls[d].response + Cardinality(Places(t, d)) <= calls[d].attempts
        /\ Places(t, d) # {} => t = calls[d].session
    BY DEF CallInv, Counted
  <2>2. CASE d # c
    BY <1>5, <1>6, <2>1, <2>2
  <2>3. CASE d = c
    <3> DEFINE old == Cardinality(Places(t, c))
               new == Cardinality(Places(t, c)')
    <3>1. old \in Nat
      BY PlacesAreFinite
    <3>2. Places(t, c)' = At(queue'[t], c) /\ Places(t, c) = At(queue[t], c)
      BY DEF Places, At
    <3>3. new <= old + 1 /\ new \in Nat /\ (t # z => Places(t, c)' = Places(t, c))
      <4>1. CASE t = z
        <5>1. queue[t] \in Seq(Item) /\ queue'[t] = Append(queue[t], c)
          BY <1>5, <4>1 DEF QueueType
        <5>2. new = old + 1
          BY <1>1, <3>2, <5>1, AtAppend
        <5> QED BY <3>1, <4>1, <5>2
      <4>2. CASE t # z
        <5>1. Places(t, c)' = Places(t, c)
          BY <1>5, <3>2, <4>2
        <5>2. new = old
          BY <5>1
        <5> QED BY <3>1, <5>1, <5>2
      <4> QED BY <4>1, <4>2
    <3>4. calls[c].response \in Nat /\ calls[c].attempts \in Nat
      BY <1>1 DEF CallRecord
    <3>5. calls[c].response + old <= calls[c].attempts
      BY <2>1, <2>3
    <3> HIDE DEF old, new
    <3>6. a.response + new <= a.attempts
      BY <1>1, <1>3, <3>1, <3>3, <3>4, <3>5
    <3>7. Places(t, c)' # {} => t = z
      BY <2>1, <2>3, <3>3 DEF z
    <3> QED BY <1>3, <1>6, <2>3, <3>6, <3>7 DEF new
  <2> QED BY <2>2, <2>3
<1>9. CallInv'
  BY <1>6, <1>7, <1>8 DEF CallInv, Counted
<1> QED BY <1>5, <1>9

\* A session that ends rejects what is pending.
LEMMA RejectingIsSound ==
  ASSUME QueueType, CallInv, RejectPending, UNCHANGED queue
  PROVE  QueueType' /\ CallInv'
<1>1. QueueType' /\ \A c \in Call, s \in Session : Places(s, c)' = Places(s, c)
  BY DEF QueueType, Places, At
<1>2. calls' = [c \in Call |-> IF c \in PendingCalls THEN Settled(calls[c], "Rejected")
                               ELSE calls[c]]
  BY DEF RejectPending
<1>3. ASSUME NEW c \in Call
      PROVE  /\ calls'[c] \in CallRecord /\ Sound(calls'[c])
             /\ calls'[c].attempts = calls[c].attempts
             /\ calls'[c].response <= calls[c].response
             /\ calls'[c].session = calls[c].session
  <2>1. Sound(calls[c]) /\ calls[c].response \in Nat
    BY DEF CallInv, CallRecord
  <2>2. CASE c \in PendingCalls
    <3>1. calls[c].state = "Pending" /\ calls'[c] = Settled(calls[c], "Rejected")
      BY <1>2, <2>2 DEF PendingCalls
    <3> QED BY <2>1, <3>1, SettledIsSound DEF Sound
  <2>3. CASE c \notin PendingCalls
    <3>1. calls'[c] = calls[c]
      BY <1>2, <2>3
    <3>2. calls[c].response <= calls[c].response
      BY <2>1
    <3> QED BY <2>1, <3>1, <3>2 DEF Sound
  <2> QED BY <2>2, <2>3
<1>4. calls' \in [Call -> CallRecord]
  BY <1>2, <1>3
<1>5. \A c \in Call, s \in Session : Cardinality(Places(s, c)') <= Cardinality(Places(s, c))
  <2> SUFFICES ASSUME NEW c \in Call, NEW s \in Session
               PROVE  Cardinality(Places(s, c)') <= Cardinality(Places(s, c))
    OBVIOUS
  <2>1. Cardinality(Places(s, c)') = Cardinality(Places(s, c))
    BY <1>1
  <2>2. Cardinality(Places(s, c)) \in Nat
    BY PlacesAreFinite
  <2> QED BY <2>1, <2>2
<1> QED BY <1>1, <1>3, <1>4, <1>5, CallsShrink

\* One command changes, and gains neither attempt nor timer of a response.
LEMMA ChangingIsSound ==
  ASSUME QueueType, CallInv, UNCHANGED queue, NEW c \in Call, NEW call,
         calls' = [calls EXCEPT ![c] = call], Sound(call),
         call.attempts = calls[c].attempts, call.response <= calls[c].response,
         call.session = calls[c].session \/ calls[c].attempts = 0
  PROVE  QueueType' /\ CallInv'
<1>1. QueueType' /\ \A d \in Call, s \in Session : Places(s, d)' = Places(s, d)
  BY DEF QueueType, Places, At
<1>2. calls \in [Call -> CallRecord] /\ call \in CallRecord
  BY DEF CallInv, Sound
<1>3. calls' \in [Call -> CallRecord] /\ calls'[c] = call
      /\ \A d \in Call \ {c} : calls'[d] = calls[d]
  BY <1>2
<1>4. \A d \in Call : Sound(calls[d]) /\ calls[d].response \in Nat
  BY <1>2 DEF CallInv, CallRecord
<1>5. ASSUME NEW d \in Call
      PROVE  /\ Sound(calls'[d])
             /\ calls'[d].attempts = calls[d].attempts
             /\ calls'[d].response <= calls[d].response
             /\ calls'[d].session = calls[d].session \/ calls[d].attempts = 0
  <2>1. CASE d = c
    BY <1>3, <2>1
  <2>2. CASE d # c
    <3>1. calls'[d] = calls[d]
      BY <1>3, <2>2
    <3>2. calls[d].response <= calls[d].response
      BY <1>4
    <3> QED BY <1>4, <3>1, <3>2
  <2> QED BY <2>1, <2>2
<1>6. \A d \in Call, s \in Session : Cardinality(Places(s, d)') <= Cardinality(Places(s, d))
  <2> SUFFICES ASSUME NEW d \in Call, NEW s \in Session
               PROVE  Cardinality(Places(s, d)') <= Cardinality(Places(s, d))
    OBVIOUS
  <2>1. Cardinality(Places(s, d)') = Cardinality(Places(s, d))
    BY <1>1
  <2>2. Cardinality(Places(s, d)) \in Nat
    BY PlacesAreFinite
  <2> QED BY <2>1, <2>2
<1> QED BY <1>1, <1>3, <1>5, <1>6, CallsShrink

\* A heartbeat or STOP_ALL is queued.
LEMMA OtherWritesAreSound ==
  ASSUME QueueType, CallInv, UNCHANGED calls, NEW s, NEW x \in Item \ Call,
         queue' = [queue EXCEPT ![s] = Append(@, x)]
  PROVE  QueueType' /\ CallInv'
<1>1. /\ QueueType'
      /\ \A t \in Session : \A item : item # x => Places(t, item)' = Places(t, item)
  BY QueueAppends
<1>2. \A c \in Call : c # x
  OBVIOUS
<1>3. \A c \in Call, t \in Session : Cardinality(Places(t, c)') = Cardinality(Places(t, c))
  BY <1>1, <1>2
<1>4. \A c \in Call, t \in Session : Cardinality(Places(t, c)') <= Cardinality(Places(t, c))
  BY <1>3, PlacesAreFinite
<1>5. \A c \in Call : Sound(calls[c]) /\ calls[c].response \in Nat
  BY DEF CallInv, CallRecord
<1>6. \A c \in Call : calls[c].response <= calls[c].response
  BY <1>5
<1>7. calls' \in [Call -> CallRecord]
  BY DEF CallInv
<1> QED BY <1>1, <1>4, <1>5, <1>6, <1>7, CallsShrink

\* One more attempt of a command that has one left.
LEMMA AttemptIsSound ==
  ASSUME NEW call \in CallRecord, call.state = "Pending", call.session # 0,
         call.attempts + call.remaining + call.retry <= Retries,
         call.timer = "Response" => call.response > 0,
         call.timer = "Retry" => call.retry > 0
  PROVE  Sound([call EXCEPT !.attempts = @ + 1])
<1> DEFINE n == call.attempts + 1
<1>1. call.attempts \in Nat /\ call.remaining \in 0 .. Retries /\ call.retry \in Nat
  BY DEF CallRecord
<1>2. n \in Nat /\ n <= Retries + 1 /\ n + call.remaining + call.retry <= Retries + 1
      /\ call.retry <= Retries + 1
  BY <1>1, RetryFacts
<1> HIDE DEF n
<1> DEFINE a == [call EXCEPT !.attempts = n]
<1>3. /\ a \in CallRecord /\ a.attempts = n /\ a.remaining = call.remaining
      /\ a.retry = call.retry /\ a.response = call.response /\ a.timer = call.timer
      /\ a.state = "Pending" /\ a.session = call.session
  BY <1>1, <1>2 DEF CallRecord
<1> HIDE DEF a
<1>4. Sound(a)
  BY <1>2, <1>3 DEF Sound
<1> QED BY <1>4 DEF a, n

\* commandQueue sends a command, or finds its session gone.
LEMMA SendOnceIsSound ==
  ASSUME QueueType, CallInv, NEW c \in Call, SendOnce(c)
  PROVE  QueueType' /\ CallInv'
<1> DEFINE call == calls[c]
<1>1. call \in CallRecord /\ Sound(call) /\ call.state = "Queued"
  BY DEF CallInv, SendOnce
<1>2. /\ call.attempts = 0 /\ call.response = 0 /\ call.retry = 0 /\ call.timer = "None"
      /\ call.remaining = Retries /\ call.session # 0
  BY <1>1 DEF Sound
<1>3. CASE IsSessionActive(calls[c].session)
  <2> DEFINE b == [call EXCEPT !.state = "Pending"]
  <2>1. WritePending(c, b)
    BY <1>3 DEF SendOnce
  <2>2. /\ b \in CallRecord /\ b.state = "Pending" /\ b.session = call.session
        /\ b.attempts = 0 /\ b.remaining = Retries /\ b.retry = 0 /\ b.timer = "None"
        /\ b.response = 0
    BY <1>1, <1>2 DEF CallRecord, CallState
  <2> HIDE DEF b
  <2>3. b.attempts + b.remaining + b.retry <= Retries
    BY <2>2, RetryFacts
  <2>4. Sound([b EXCEPT !.attempts = @ + 1])
    BY <1>2, <2>2, <2>3, AttemptIsSound
  <2>5. b.response <= calls[c].response
    BY <1>2, <2>2
  <2> QED BY <1>2, <2>1, <2>2, <2>4, <2>5, WritingIsCounted
<1>4. CASE ~IsSessionActive(calls[c].session)
  <2> DEFINE b == [call EXCEPT !.state = "Rejected"]
  <2>1. calls' = [calls EXCEPT ![c] = b] /\ UNCHANGED queue
    BY <1>4 DEF SendOnce
  <2>2. /\ b \in CallRecord /\ b.state = "Rejected" /\ b.session = call.session
        /\ b.attempts = 0 /\ b.retry = 0 /\ b.timer = "None" /\ b.response = 0
    BY <1>1, <1>2 DEF CallRecord, CallState
  <2> HIDE DEF b
  <2>3. Sound(b)
    BY <1>2, <2>2, RetryFacts DEF Sound
  <2>4. b.response <= calls[c].response
    BY <1>2, <2>2
  <2> QED BY <1>2, <2>1, <2>2, <2>3, <2>4, ChangingIsSound
<1> QED BY <1>3, <1>4

\* A response timer that ends retries its command, or gives it up.
LEMMA ResponseTimeoutIsSound ==
  ASSUME QueueType, CallInv, NEW c \in Call, ResponseTimeout(c)
  PROVE  QueueType' /\ CallInv'
<1> DEFINE call == [calls[c] EXCEPT !.response = @ - 1, !.timer = "None"]
<1>1. Sound(calls[c]) /\ calls[c].response > 0
  BY DEF CallInv, ResponseTimeout
<1>2. /\ Sound(call) /\ call.attempts = calls[c].attempts /\ call.state = calls[c].state
      /\ call.session = calls[c].session /\ call.response <= calls[c].response
      /\ call.timer = "None"
  BY <1>1, EndedResponseIsSound DEF Sound, CallRecord
<1>3. IF PendingIsActive(c) THEN RetryNow(c, call)
      ELSE calls' = [calls EXCEPT ![c] = call] /\ UNCHANGED queue
  BY DEF ResponseTimeout
<1> HIDE DEF call
<1>4. CASE ~PendingIsActive(c)
  BY <1>2, <1>3, <1>4, ChangingIsSound
<1>5. CASE PendingIsActive(c) /\ call.remaining = 0
  <2>1. call.state = "Pending"
    BY <1>2, <1>5 DEF PendingIsActive
  <2> DEFINE b == Settled(call, "Rejected")
  <2>2. calls' = [calls EXCEPT ![c] = b] /\ UNCHANGED queue
    BY <1>3, <1>5 DEF RetryNow
  <2>3. /\ Sound(b) /\ b.attempts = call.attempts /\ b.session = call.session
        /\ b.response <= call.response
    BY <1>2, <2>1, SettledIsSound
  <2> HIDE DEF b
  <2>4. b.response \in Nat /\ call.response \in Nat /\ calls[c].response \in Nat
    BY <1>1, <1>2, <2>3 DEF Sound, CallRecord
  <2>5. b.response <= calls[c].response
    BY <1>2, <2>3, <2>4
  <2> QED BY <1>2, <2>2, <2>3, <2>5, ChangingIsSound
<1>6. CASE PendingIsActive(c) /\ call.remaining # 0
  <2> DEFINE m == call.remaining - 1
             b == [call EXCEPT !.remaining = m]
  <2>1. WritePending(c, b)
    BY <1>3, <1>6 DEF RetryNow
  <2>2. /\ call \in CallRecord /\ call.remaining \in 0 .. Retries /\ call.attempts \in Nat
        /\ call.retry \in Nat /\ call.state = "Pending" /\ call.session # 0
        /\ call.attempts + call.remaining + call.retry <= Retries + 1
    BY <1>2, <1>6 DEF Sound, CallRecord, PendingIsActive
  <2>3. m \in 0 .. Retries /\ call.attempts + m + call.retry <= Retries
    BY <1>6, <2>2, RetryFacts
  <2> HIDE DEF m
  <2>4. /\ b \in CallRecord /\ b.state = "Pending" /\ b.session = call.session
        /\ b.attempts = call.attempts /\ b.remaining = m /\ b.retry = call.retry
        /\ b.timer = "None" /\ b.response = call.response
    BY <1>2, <2>2, <2>3 DEF CallRecord
  <2> HIDE DEF b
  <2>5. Sound([b EXCEPT !.attempts = @ + 1])
    BY <2>2, <2>3, <2>4, AttemptIsSound
  <2> QED BY <1>2, <2>1, <2>4, <2>5, WritingIsCounted
<1> QED BY <1>4, <1>5, <1>6

\* A retry timer that ends writes the command again.
LEMMA RetryTimeoutIsSound ==
  ASSUME QueueType, CallInv, NEW c \in Call, RetryTimeout(c)
  PROVE  QueueType' /\ CallInv'
<1> DEFINE call == [calls[c] EXCEPT !.retry = @ - 1, !.timer = "None"]
<1>1. Sound(calls[c]) /\ calls[c].retry > 0 /\ calls[c].response \in Nat
  BY DEF CallInv, RetryTimeout, CallRecord
<1>2. /\ Sound(call) /\ call.attempts = calls[c].attempts /\ call.state = calls[c].state
      /\ call.session = calls[c].session /\ call.response = calls[c].response
      /\ call.state = "Pending" =>
           call.attempts + call.remaining + call.retry <= Retries
      /\ call.timer = "None"
  BY <1>1, EndedRetryIsSound DEF Sound, CallRecord
<1>3. IF PendingIsActive(c) THEN WritePending(c, call)
      ELSE calls' = [calls EXCEPT ![c] = call] /\ UNCHANGED queue
  BY DEF RetryTimeout
<1> HIDE DEF call
<1>4. call.response <= calls[c].response
  BY <1>1, <1>2
<1>5. CASE ~PendingIsActive(c)
  BY <1>2, <1>3, <1>4, <1>5, ChangingIsSound
<1>6. CASE PendingIsActive(c)
  <2>1. call.state = "Pending" /\ call \in CallRecord /\ call.session # 0
    BY <1>2, <1>6 DEF PendingIsActive, Sound
  <2>2. Sound([call EXCEPT !.attempts = @ + 1])
    BY <1>2, <2>1, AttemptIsSound
  <2> QED BY <1>2, <1>3, <1>4, <1>6, <2>1, <2>2, WritingIsCounted
<1> QED BY <1>5, <1>6

\* A write is settled: its attempt waits for the response now, or the command is
\* rejected.
LEMMA WriteSettlesIsSound ==
  ASSUME QueueType, CallInv, NEW s \in Session, WriteSettles(s)
  PROVE  QueueType' /\ CallInv'
<1> DEFINE q == queue[s]
           item == queue[s][1]
<1>0. PICK rest \in Rests(q) : queue' = [queue EXCEPT ![s] = rest]
  BY DEF WriteSettles, IsStopNext, Rests
<1>1. /\ queue \in [Session -> Seq(Item)] /\ q \in Seq(Item) /\ q # <<>>
      /\ calls \in [Call -> CallRecord]
  BY DEF QueueType, WriteSettles, CallInv
<1>2. queue'[s] = rest /\ \A t \in Session \ {s} : queue'[t] = queue[t]
  BY <1>0, <1>1
<1>3. QueueType'
  <2>1. rest \in Seq(Item)
    BY <1>1, AtRest
  <2> QED BY <1>0, <1>1, <2>1 DEF QueueType
<1>4. ASSUME NEW t \in Session, NEW x
      PROVE  Cardinality(Places(t, x)') <= Cardinality(Places(t, x))
  <2>1. Places(t, x)' = At(queue'[t], x) /\ Places(t, x) = At(queue[t], x)
    BY DEF Places, At
  <2>2. CASE t = s
    BY <1>1, <1>2, <2>1, <2>2, AtRest
  <2>3. CASE t # s
    <3>1. Cardinality(Places(t, x)') = Cardinality(Places(t, x))
      BY <1>2, <2>1, <2>3
    <3> QED BY <3>1, PlacesAreFinite
  <2> QED BY <2>2, <2>3
<1>5. CASE calls' = calls
  <2>1. \A c \in Call : Sound(calls[c]) /\ calls[c].response \in Nat
    BY <1>1 DEF CallInv, CallRecord
  <2>2. \A c \in Call : calls[c].response <= calls[c].response
    BY <2>1
  <2> QED BY <1>1, <1>3, <1>4, <1>5, <2>1, <2>2, CallsShrink
<1>6. CASE item \in Call /\ calls[item].state = "Pending"
             /\ calls' = [calls EXCEPT ![item] = Settled(@, "Rejected")]
  <2> DEFINE b == Settled(calls[item], "Rejected")
  <2>1. Sound(calls[item])
    BY <1>6 DEF CallInv
  <2>2. /\ Sound(b) /\ b.attempts = calls[item].attempts /\ b.session = calls[item].session
        /\ b.response <= calls[item].response
    BY <1>6, <2>1, SettledIsSound
  <2>3. calls' = [calls EXCEPT ![item] = b]
    BY <1>6
  <2> HIDE DEF b
  <2>4. b \in CallRecord
    BY <2>2 DEF Sound
  <2>5. ASSUME NEW c \in Call
        PROVE  /\ Sound(calls'[c]) /\ calls'[c].attempts = calls[c].attempts
               /\ calls'[c].response <= calls[c].response
               /\ calls'[c].session = calls[c].session
    <3>1. CASE c = item
      BY <1>1, <2>2, <2>3, <3>1
    <3>2. CASE c # item
      <4>1. calls'[c] = calls[c] /\ Sound(calls[c]) /\ calls[c].response \in Nat
        BY <1>1, <2>3, <3>2 DEF CallInv, CallRecord
      <4>2. calls[c].response <= calls[c].response
        BY <4>1
      <4> QED BY <4>1, <4>2
    <3> QED BY <3>1, <3>2
  <2>6. calls' \in [Call -> CallRecord]
    BY <1>1, <2>3, <2>4
  <2> QED BY <1>3, <1>4, <2>5, <2>6, CallsShrink
<1>7. CASE item \in Call /\ PendingIsActive(item)
             /\ calls' = [calls EXCEPT ![item] = Armed(item)]
  <2> DEFINE call == calls[item]
             p == call.response + 1
             b == [call EXCEPT !.response = p, !.timer = "Response"]
  <2>1. call \in CallRecord /\ Sound(call) /\ call.state = "Pending"
        /\ call.response \in Nat /\ call.attempts \in Nat
    BY <1>1, <1>7 DEF CallInv, CallRecord, PendingIsActive
  <2>2. p \in Nat /\ p > 0 /\ p = call.response + 1
    BY <2>1
  <2>3. calls' = [calls EXCEPT ![item] = b]
    BY <1>7 DEF Armed
  <2> HIDE DEF p
  <2>4. /\ b \in CallRecord /\ b.attempts = call.attempts /\ b.remaining = call.remaining
        /\ b.retry = call.retry /\ b.response = p /\ b.timer = "Response"
        /\ b.state = "Pending" /\ b.session = call.session
    BY <2>1, <2>2 DEF CallRecord
  <2> HIDE DEF b
  <2>5. Sound(b)
    BY <2>1, <2>2, <2>4 DEF Sound
  <2>6. calls' \in [Call -> CallRecord] /\ calls'[item] = b
        /\ \A c \in Call \ {item} : calls'[c] = calls[c]
    BY <1>1, <1>7, <2>3, <2>4
  <2>7. ASSUME NEW c \in Call, NEW t \in Session
        PROVE  /\ calls'[c].response + Cardinality(Places(t, c)') <= calls'[c].attempts
               /\ Places(t, c)' # {} => t = calls'[c].session
    <3> DEFINE old == Cardinality(Places(t, c))
               new == Cardinality(Places(t, c)')
    <3>1. /\ calls[c].response + old <= calls[c].attempts
          /\ Places(t, c) # {} => t = calls[c].session
      BY DEF CallInv, Counted
    <3>2. /\ old \in Nat /\ (old = 0 <=> Places(t, c) = {})
          /\ new \in Nat /\ (new = 0 <=> Places(t, c)' = {})
      <4>1. Places(t, c)' = At(queue'[t], c) /\ queue'[t] \in Seq(Item)
        BY <1>3 DEF Places, At, QueueType
      <4> QED BY <4>1, PlacesAreFinite, AtIsFinite
    <3>3. new <= old
      BY <1>4
    <3>4. calls[c].response \in Nat /\ calls[c].attempts \in Nat
      BY <1>1 DEF CallRecord
    <3>5. calls'[c].session = calls[c].session
      BY <2>4, <2>6
    <3>6. Places(t, c)' # {} => t = calls'[c].session
      <4> HIDE DEF old, new
      <4> QED BY <3>1, <3>2, <3>3, <3>5
    <3>7. CASE c # item
      <4>1. calls'[c] = calls[c]
        BY <2>6, <3>7
      <4> HIDE DEF old, new
      <4>2. calls[c].response + new <= calls[c].attempts
        BY <3>1, <3>2, <3>3, <3>4
      <4> QED BY <3>6, <4>1, <4>2 DEF new
    <3>8. CASE c = item
      <4>1. s = call.session
        <5>1. Places(s, item) # {}
          BY <1>1, AtRest DEF Places
        <5> QED BY <1>7, <5>1 DEF CallInv, Counted
      <4>2. CASE t = s
        <5>1. new + 1 <= old
          <6>1. Places(t, c)' = At(rest, item) /\ Places(t, c) = At(q, item)
            BY <1>2, <3>8, <4>2 DEF Places, At
          <6> QED BY <1>1, <6>1, AtRest
        <5> HIDE DEF old, new
        <5>2. p + new <= call.attempts
          BY <2>2, <3>1, <3>2, <3>4, <3>8, <5>1
        <5> QED BY <2>4, <2>6, <3>6, <3>8, <5>2 DEF new
      <4>3. CASE t # s
        <5>1. Places(t, c) = {}
          BY <3>1, <3>8, <4>1, <4>3
        <5>2. Places(s, item) # {} /\ Cardinality(Places(s, item)) \in Nat
              /\ Cardinality(Places(s, item)) # 0
          <6>1. Places(s, item) # {}
            BY <1>1, AtRest DEF Places
          <6> QED BY <6>1, PlacesAreFinite
        <5>3. call.response + Cardinality(Places(s, item)) <= call.attempts
          BY <1>7 DEF CallInv, Counted
        <5>4. old = 0 /\ new = 0
          <6>1. old = 0
            BY <3>2, <5>1
          <6> HIDE DEF old, new
          <6> QED BY <3>2, <3>3, <6>1
        <5> DEFINE n == Cardinality(Places(s, item))
        <5> HIDE DEF old, new, n
        <5>5. n \in Nat /\ n # 0 /\ call.response + n <= call.attempts
          BY <5>2, <5>3 DEF n
        <5>6. p + new <= call.attempts
          BY <2>1, <2>2, <5>4, <5>5
        <5> QED BY <2>4, <2>6, <3>6, <3>8, <5>6 DEF new
      <4> QED BY <4>2, <4>3
    <3> QED BY <3>7, <3>8
  <2>8. \A c \in Call : Sound(calls'[c])
    BY <2>5, <2>6 DEF CallInv
  <2> QED BY <1>3, <2>6, <2>7, <2>8 DEF CallInv, Counted
<1>8. \/ calls' = calls
      \/ /\ item \in Call /\ calls[item].state = "Pending"
         /\ calls' = [calls EXCEPT ![item] = Settled(@, "Rejected")]
      \/ /\ item \in Call /\ PendingIsActive(item)
         /\ calls' = [calls EXCEPT ![item] = Armed(item)]
  <2>1. ASSUME item \in Call, ~PendingIsActive(item),
               calls' = [calls EXCEPT ![item] = Armed(item)]
        PROVE  calls' = calls
    BY <1>1, <2>1 DEF Armed
  <2> QED BY <2>1 DEF WriteSettles
<1> QED BY <1>3, <1>5, <1>6, <1>7, <1>8

\* A response settles its command, or has it retried later.
LEMMA AcceptFrameIsSound ==
  ASSUME QueueType, CallInv, NEW c \in Call, AcceptFrame(c)
  PROVE  QueueType' /\ CallInv'
<1>1. calls[c].state = "Pending" /\ Sound(calls[c]) /\ UNCHANGED queue
  BY DEF AcceptFrame, PendingIsActive, CallInv, writeVars
<1>2. PICK call \in {Settled(calls[c], "Resolved"), Settled(calls[c], "Rejected"),
                     RetryLater(Cleared(calls[c]))} : calls' = [calls EXCEPT ![c] = call]
  BY DEF AcceptFrame
<1>3. /\ Sound(call) /\ call.attempts = calls[c].attempts
      /\ call.session = calls[c].session /\ call.response <= calls[c].response
  BY <1>1, SettledIsSound, RetryLaterIsSound
<1> QED BY <1>1, <1>2, <1>3, ChangingIsSound

\* Send gives a command its session.
LEMMA SendIsSound ==
  ASSUME QueueType, CallInv, NEW c \in Call, Send(c), current \in Session
  PROVE  QueueType' /\ CallInv'
<1> DEFINE call == calls[c]
           b == [call EXCEPT !.state = "Queued", !.session = current]
<1>1. call \in CallRecord /\ Sound(call) /\ call.state = "Unsent" /\ current # 0
  BY DEF CallInv, Send
<1>2. /\ call.attempts = 0 /\ call.response = 0 /\ call.retry = 0 /\ call.timer = "None"
      /\ call.remaining = Retries
  BY <1>1 DEF Sound
<1>3. calls' = [calls EXCEPT ![c] = b] /\ UNCHANGED queue
  <2>1. calls' = [calls EXCEPT ![c].state = "Queued", ![c].session = current]
    BY DEF Send
  <2>2. calls \in [Call -> CallRecord]
    BY DEF CallInv
  <2> QED BY <2>1, <2>2 DEF Send, writeVars
<1>4. /\ b \in CallRecord /\ b.state = "Queued" /\ b.session = current /\ b.attempts = 0
      /\ b.response = 0 /\ b.retry = 0 /\ b.remaining = Retries /\ b.timer = "None"
  BY <1>1, <1>2 DEF CallRecord, CallState
<1> HIDE DEF b
<1>5. Sound(b)
  BY <1>1, <1>4, RetryFacts DEF Sound
<1>6. b.response <= calls[c].response
  BY <1>2, <1>4
<1> QED BY <1>2, <1>3, <1>4, <1>5, <1>6, ChangingIsSound

\* What does not touch commands or queues keeps their accounts.
LEMMA CallsLeftAlone ==
  ASSUME QueueType, CallInv, queue' = queue, calls' = calls
  PROVE  QueueType' /\ CallInv'
<1>1. QueueType'
  BY DEF QueueType
<1>2. \A c \in Call, s \in Session : Counted(c, s)' = Counted(c, s)
  BY DEF Counted, Places
<1>3. CallInv'
  BY <1>2 DEF CallInv
<1> QED BY <1>1, <1>3

\* Disconnecting rejects what is pending, or changes no command.
LEMMA DisconnectIsSound ==
  ASSUME QueueType, CallInv, Disconnect, UNCHANGED queue
  PROVE  QueueType' /\ CallInv'
<1>1. CASE disconnecting
  <2>1. queue' = queue /\ calls' = calls
    BY <1>1 DEF Disconnect
  <2> QED BY <2>1, CallsLeftAlone
<1>2. CASE ~disconnecting
  <2>1. RejectPending
    BY <1>2 DEF Disconnect, Detach
  <2> QED BY <2>1, RejectingIsSound
<1> QED BY <1>1, <1>2

\* Every step accounts for the timers and writes of every command.
LEMMA NextKeepsCalls ==
  ASSUME QueueType, CallInv, current \in {0} \cup Session, [Next]_vars
  PROVE  QueueType' /\ CallInv'
<1>1. CASE UNCHANGED <<queue, calls>>
  BY <1>1, CallsLeftAlone
<1>2. CASE ClickDisconnect \/ PhysicalDisconnect
  <2>1. Disconnect /\ UNCHANGED queue
    BY <1>2 DEF ClickDisconnect, PhysicalDisconnect, writeVars
  <2> QED BY <2>1, DisconnectIsSound
<1>3. CASE CleanupStarts
  <2>1. /\ queue' = [queue EXCEPT ![lifecycle[1].session] = Append(@, StopFrame)]
        /\ UNCHANGED calls
    BY <1>3 DEF CleanupStarts
  <2> QED BY <2>1, ItemFacts, OtherWritesAreSound
<1>4. ASSUME NEW c \in Call, Send(c) \/ SendOnce(c) \/ Timer(c) \/ AcceptFrame(c)
      PROVE  QueueType' /\ CallInv'
  <2>1. CASE Send(c)
    <3>1. current \in Session
      BY <2>1 DEF Send
    <3> QED BY <2>1, <3>1, SendIsSound
  <2> QED BY <1>4, <2>1, SendOnceIsSound, ResponseTimeoutIsSound, RetryTimeoutIsSound,
             AcceptFrameIsSound DEF Timer
<1>5. CASE Heartbeat
  <2>1. queue' = [queue EXCEPT ![current] = Append(@, HeartbeatFrame)] /\ UNCHANGED calls
    BY <1>5 DEF Heartbeat
  <2> QED BY <2>1, ItemFacts, OtherWritesAreSound
<1>6. ASSUME NEW s \in Session, WriteSettles(s) PROVE QueueType' /\ CallInv'
  BY <1>6, WriteSettlesIsSound
<1>7. CASE \/ ClickConnect \/ ToggleArm \/ ConnectStep \/ CleanupStep \/ CleanupTimesOut
           \/ UNCHANGED vars
  <2>1. UNCHANGED <<queue, calls>>
    BY <1>7 DEF ClickConnect, ToggleArm, ConnectStep, ConnectStarts, PortChosen, PortOpens,
       Connected, ConnectFails, CleanupStep, CleanupTimesOut, NextCleanup, writeVars, vars
  <2> QED BY <1>1, <2>1
<1> QED BY <1>2, <1>3, <1>4, <1>5, <1>6, <1>7 DEF Next

-----------------------------------------------------------------------------
(* How sessions come and go.                                               *)

CleanupPhase == {"Stop", "Cancel", "Read", "Lower", "Close"}
ConnectPhase == {"Choosing", "Opening", "Signalling"}

\* A disconnect that waits in lifecycleQueue, or is under way.
Leaving(s) == \E k \in DOMAIN lifecycle :
                lifecycle[k].kind = "Disconnect" /\ lifecycle[k].session = s

\* The session has come to its STOP_ALL.
Stopping(s) == s \in stopped \cup allowStop \/ Places(s, StopFrame) # {}

LifeTypes ==
  /\ current \in {0} \cup Session /\ opened \in {0} \cup Session
  /\ lifecycle \in Seq(Operation) /\ phase \in Phase
  /\ cleaned \cup allowStop \cup stopped \subseteq 1 .. opened
  /\ buttons \in SUBSET {"Connect", "Disconnect"}

\* The head of lifecycleQueue is under way; there is one disconnect at most.
Shape ==
  /\ phase # "Waiting" => lifecycle # <<>>
  /\ phase \in ConnectPhase => lifecycle[1].kind = "Connect"
  /\ phase \in CleanupPhase => lifecycle[1].kind = "Disconnect"
  /\ \A j, k \in DOMAIN lifecycle :
       lifecycle[j].kind = "Disconnect" /\ lifecycle[k].kind = "Disconnect" => j = k
  /\ \A k \in DOMAIN lifecycle : lifecycle[k].kind = "Disconnect" => disconnecting

\* No session is used again once it has been left: neither the one in use nor the one
\* being opened has come to its STOP_ALL, and a session comes to it once.
Sessions ==
  /\ current <= opened
  /\ connected => current # 0
  /\ phase = "Signalling" =>
       opened # 0 /\ opened # current /\ ~Leaving(opened) /\ ~Stopping(opened)
  /\ \A s \in Session :
       /\ s > opened => ~Stopping(s)
       /\ Leaving(s) => s <= opened /\ s # current
       /\ Leaving(s) /\ phase \notin CleanupPhase => ~Stopping(s)
       /\ s = current => ~Stopping(s)

\* Disconnect can be clicked only with something to disconnect.
Buttons == "Disconnect" \in buttons => connected \/ disconnecting

\* STOP_ALL ends a session's queue.
StopInv ==
  \A s \in Session :
    /\ s \in stopped => queue[s] \in {<<>>, <<StopFrame>>}
    /\ \A k \in Places(s, StopFrame) : k = Len(queue[s])

LifeInv == LifeTypes /\ Shape /\ Sessions /\ Buttons /\ StopInv

\* The phases of a cleanup follow one another.
LEMMA CleanupFacts ==
  /\ ToSet(CleanupOrder) = CleanupPhase
  /\ CleanupPhase \subseteq Phase /\ ConnectPhase \subseteq Phase /\ "Waiting" \in Phase
  /\ CleanupPhase \cap (ConnectPhase \cup {"Waiting"}) = {}
  /\ \A k \in DOMAIN CleanupOrder :
       /\ CleanupOrder[k] # "Close" => CleanupOrder[k + 1] \in CleanupPhase
       /\ CleanupOrder[k] = "Lower" => CleanupOrder[k + 1] = "Close"
<1>1. DOMAIN CleanupOrder = 1 .. 5
  BY DEF CleanupOrder
<1>2. /\ CleanupOrder[1] = "Stop" /\ CleanupOrder[2] = "Cancel" /\ CleanupOrder[3] = "Read"
      /\ CleanupOrder[4] = "Lower" /\ CleanupOrder[5] = "Close"
  BY DEF CleanupOrder
<1>3. ToSet(CleanupOrder) = CleanupPhase
  <2>1. \A k \in 1 .. 5 : k \in {1, 2, 3, 4, 5}
    OBVIOUS
  <2>2. {1, 2, 3, 4, 5} \subseteq 1 .. 5
    OBVIOUS
  <2> QED BY <1>1, <1>2, <2>1, <2>2 DEF ToSet, CleanupPhase
<1>4. \A k \in 1 .. 5 :
        /\ CleanupOrder[k] # "Close" => CleanupOrder[k + 1] \in CleanupPhase
        /\ CleanupOrder[k] = "Lower" => CleanupOrder[k + 1] = "Close"
  <2> SUFFICES ASSUME NEW k \in 1 .. 5
               PROVE  /\ CleanupOrder[k] # "Close" => CleanupOrder[k + 1] \in CleanupPhase
                      /\ CleanupOrder[k] = "Lower" => CleanupOrder[k + 1] = "Close"
    OBVIOUS
  <2>1. k = 1 \/ k = 2 \/ k = 3 \/ k = 4 \/ k = 5
    OBVIOUS
  <2> QED BY <1>2, <2>1 DEF CleanupPhase
<1> QED BY <1>1, <1>3, <1>4 DEF CleanupPhase, ConnectPhase, Phase

\* What lifecycleQueue holds.
LEMMA LifecycleFacts ==
  ASSUME LifeTypes
  PROVE  /\ DOMAIN lifecycle = 1 .. Len(lifecycle) /\ Len(lifecycle) \in Nat
         /\ lifecycle # <<>> => 1 \in DOMAIN lifecycle
         /\ \A k \in DOMAIN lifecycle :
              /\ lifecycle[k] \in Operation
              /\ lifecycle[k].kind \in {"Connect", "Disconnect"}
              /\ lifecycle[k].kind = "Disconnect" => lifecycle[k].session \in Session
<1>1. lifecycle \in Seq(Operation)
  BY DEF LifeTypes
<1>2. /\ DOMAIN lifecycle = 1 .. Len(lifecycle) /\ Len(lifecycle) \in Nat
      /\ lifecycle # <<>> => Len(lifecycle) # 0
  BY <1>1, EmptySeq, LenProperties
<1>3. \A op \in Operation : /\ op.kind \in {"Connect", "Disconnect"}
                            /\ op.kind = "Disconnect" => op.session \in Session
  BY DEF Operation
<1>4. \A k \in DOMAIN lifecycle : lifecycle[k] \in Operation
  BY <1>1
<1> QED BY <1>2, <1>3, <1>4

\* What is put behind the others.
LEMMA OperationAppended ==
  ASSUME LifeTypes, NEW op \in Operation, lifecycle' = Append(lifecycle, op)
  PROVE  /\ lifecycle' \in Seq(Operation) /\ lifecycle' # <<>>
         /\ lifecycle # <<>> => lifecycle'[1] = lifecycle[1]
         /\ Len(lifecycle') = Len(lifecycle) + 1
         /\ lifecycle'[Len(lifecycle) + 1] = op
         /\ Len(lifecycle) + 1 \in DOMAIN lifecycle'
         /\ \A k \in DOMAIN lifecycle :
              k \in DOMAIN lifecycle' /\ lifecycle'[k] = lifecycle[k]
         /\ \A k \in DOMAIN lifecycle' :
              \/ k \in DOMAIN lifecycle /\ lifecycle'[k] = lifecycle[k]
              \/ k = Len(lifecycle) + 1 /\ lifecycle'[k] = op
<1>1. /\ lifecycle \in Seq(Operation) /\ DOMAIN lifecycle = 1 .. Len(lifecycle)
      /\ Len(lifecycle) \in Nat /\ (lifecycle # <<>> => 1 \in DOMAIN lifecycle)
  BY LifecycleFacts DEF LifeTypes
<1>2. /\ lifecycle' \in Seq(Operation) /\ Len(lifecycle') = Len(lifecycle) + 1
      /\ lifecycle' # <<>>
      /\ \A k \in 1 .. Len(lifecycle) : lifecycle'[k] = lifecycle[k]
      /\ lifecycle'[Len(lifecycle) + 1] = op
  BY <1>1, AppendProperties
<1>3. DOMAIN lifecycle' = 1 .. Len(lifecycle) + 1
  BY <1>2, LenProperties
<1> QED BY <1>1, <1>2, <1>3

\* What is left when the head is done.
LEMMA OperationEnded ==
  ASSUME LifeTypes, lifecycle # <<>>, lifecycle' = Tail(lifecycle)
  PROVE  /\ lifecycle' \in Seq(Operation)
         /\ Len(lifecycle') = Len(lifecycle) - 1
         /\ \A k \in DOMAIN lifecycle' :
              /\ k \in Nat /\ k >= 1 /\ k + 1 \in DOMAIN lifecycle
              /\ lifecycle'[k] = lifecycle[k + 1]
<1>1. /\ lifecycle \in Seq(Operation) /\ DOMAIN lifecycle = 1 .. Len(lifecycle)
      /\ Len(lifecycle) \in Nat
  BY LifecycleFacts DEF LifeTypes
<1>2. /\ lifecycle' \in Seq(Operation) /\ Len(lifecycle') = Len(lifecycle) - 1
      /\ \A k \in 1 .. Len(lifecycle') : lifecycle'[k] = lifecycle[k + 1]
  BY <1>1, HeadTailProperties
<1>3. DOMAIN lifecycle' = 1 .. Len(lifecycle')
  BY <1>2, LenProperties
<1> QED BY <1>1, <1>2, <1>3

\* A connect waits.
LEMMA ConnectWaits ==
  ASSUME LifeTypes, Shape, lifecycle' = Append(lifecycle, [kind |-> "Connect", session |-> 0]),
         UNCHANGED <<phase, disconnecting>>
  PROVE  /\ lifecycle' \in Seq(Operation) /\ Shape'
         /\ \A s : Leaving(s)' => Leaving(s)
<1> DEFINE op == [kind |-> "Connect", session |-> 0]
<1>1. op \in Operation /\ op.kind = "Connect"
  BY DEF Operation
<1>2. lifecycle' = Append(lifecycle, op)
  OBVIOUS
<1> HIDE DEF op
<1>3. \A k \in DOMAIN lifecycle' : lifecycle'[k].kind = "Disconnect" =>
        k \in DOMAIN lifecycle /\ lifecycle'[k] = lifecycle[k]
  BY <1>1, <1>2, OperationAppended
<1>4. lifecycle' # <<>> /\ (lifecycle # <<>> => lifecycle'[1] = lifecycle[1])
      /\ lifecycle' \in Seq(Operation)
  BY <1>1, <1>2, OperationAppended
<1>5. phase # "Waiting" => lifecycle # <<>>
  BY DEF Shape
<1>6. Shape'
  BY <1>3, <1>4, <1>5, CleanupFacts DEF Shape
<1>7. \A s : Leaving(s)' => Leaving(s)
  BY <1>3 DEF Leaving
<1> QED BY <1>4, <1>6, <1>7

\* A disconnect of the current session waits.
LEMMA DisconnectWaits ==
  ASSUME LifeTypes, Shape, ~disconnecting, current \in Session,
         lifecycle' = Append(lifecycle, [kind |-> "Disconnect", session |-> current]),
         UNCHANGED phase, disconnecting' = TRUE
  PROVE  /\ lifecycle' \in Seq(Operation) /\ Shape' /\ phase \notin CleanupPhase
         /\ \A s : Leaving(s)' => s = current
         /\ \A s : s = current => Leaving(s)'
<1> DEFINE op == [kind |-> "Disconnect", session |-> current]
           n == Len(lifecycle) + 1
<1>1. op \in Operation /\ op.kind = "Disconnect" /\ op.session = current
  BY DEF Operation
<1>2. lifecycle' = Append(lifecycle, op)
  OBVIOUS
<1> HIDE DEF op
<1>3. \A k \in DOMAIN lifecycle : lifecycle[k].kind # "Disconnect"
  BY DEF Shape
<1>4. \A k \in DOMAIN lifecycle' : lifecycle'[k].kind = "Disconnect" =>
        k = n /\ lifecycle'[k] = op
  BY <1>1, <1>2, <1>3, OperationAppended
<1>5. lifecycle' # <<>> /\ (lifecycle # <<>> => lifecycle'[1] = lifecycle[1])
      /\ lifecycle' \in Seq(Operation) /\ n \in DOMAIN lifecycle' /\ lifecycle'[n] = op
  BY <1>1, <1>2, OperationAppended
<1> HIDE DEF n
<1>6. phase # "Waiting" => lifecycle # <<>>
  BY DEF Shape
<1>7. phase \notin CleanupPhase
  BY <1>3, <1>6, LifecycleFacts, CleanupFacts DEF Shape
<1>8. Shape'
  <2>1. \A j, k \in DOMAIN lifecycle' :
          lifecycle'[j].kind = "Disconnect" /\ lifecycle'[k].kind = "Disconnect" => j = k
    BY <1>4
  <2>2. phase' \in ConnectPhase => lifecycle'[1].kind = "Connect"
    BY <1>5, <1>6, CleanupFacts DEF Shape, ConnectPhase
  <2>3. phase' \notin CleanupPhase
    BY <1>7
  <2>4. disconnecting' = TRUE
    OBVIOUS
  <2> QED BY <1>5, <2>1, <2>2, <2>3, <2>4 DEF Shape
<1>9. \A s : Leaving(s)' => s = current
  BY <1>1, <1>4 DEF Leaving
<1>10. \A s : s = current => Leaving(s)'
  BY <1>1, <1>5 DEF Leaving
<1> QED BY <1>5, <1>7, <1>8, <1>9, <1>10

\* A connect is over.
LEMMA ConnectIsOver ==
  ASSUME LifeTypes, Shape, lifecycle # <<>>, lifecycle[1].kind = "Connect",
         EndTransition, UNCHANGED disconnecting
  PROVE  /\ lifecycle' \in Seq(Operation) /\ Shape'
         /\ \A s : Leaving(s)' => Leaving(s)
<1>1. /\ lifecycle' = Tail(lifecycle) /\ phase' = "Waiting"
  BY DEF EndTransition
<1>2. /\ lifecycle' \in Seq(Operation)
      /\ \A k \in DOMAIN lifecycle' :
           k \in Nat /\ k + 1 \in DOMAIN lifecycle /\ lifecycle'[k] = lifecycle[k + 1]
  BY <1>1, OperationEnded
<1>3. ASSUME NEW j \in DOMAIN lifecycle', NEW k \in DOMAIN lifecycle',
             lifecycle'[j].kind = "Disconnect", lifecycle'[k].kind = "Disconnect"
      PROVE  j = k
  <2>1. j + 1 = k + 1
    BY <1>2, <1>3 DEF Shape
  <2> QED BY <1>2, <2>1
<1>4. \A k \in DOMAIN lifecycle' : lifecycle'[k].kind = "Disconnect" => disconnecting'
  BY <1>2 DEF Shape
<1>5. Shape'
  BY <1>1, <1>3, <1>4, CleanupFacts DEF Shape, ConnectPhase
<1>6. \A s : Leaving(s)' => Leaving(s)
  BY <1>2 DEF Leaving
<1> QED BY <1>2, <1>5, <1>6

\* The disconnect is over.
LEMMA DisconnectIsOver ==
  ASSUME LifeTypes, Shape, lifecycle # <<>>, lifecycle[1].kind = "Disconnect",
         EndTransition
  PROVE  /\ lifecycle' \in Seq(Operation) /\ Shape'
         /\ \A s : ~Leaving(s)'
<1>1. /\ lifecycle' = Tail(lifecycle) /\ phase' = "Waiting"
  BY DEF EndTransition
<1>2. /\ lifecycle' \in Seq(Operation)
      /\ \A k \in DOMAIN lifecycle' :
           k \in Nat /\ k >= 1 /\ k + 1 \in DOMAIN lifecycle /\ lifecycle'[k] = lifecycle[k + 1]
  BY <1>1, OperationEnded
<1>3. 1 \in DOMAIN lifecycle
  BY LifecycleFacts
<1>4. \A k \in DOMAIN lifecycle' : lifecycle'[k].kind # "Disconnect"
  <2> SUFFICES ASSUME NEW k \in DOMAIN lifecycle', lifecycle'[k].kind = "Disconnect"
               PROVE  FALSE
    OBVIOUS
  <2>1. k + 1 = 1
    BY <1>2, <1>3 DEF Shape
  <2> QED BY <1>2, <2>1
<1>5. Shape'
  BY <1>1, <1>4, CleanupFacts DEF Shape, ConnectPhase
<1> QED BY <1>2, <1>4, <1>5 DEF Leaving

\* Only the phase changes.
LEMMA PhaseChanges ==
  ASSUME LifeTypes, Shape, UNCHANGED <<lifecycle, disconnecting>>,
         \/ phase' = phase
         \/ lifecycle # <<>> /\ lifecycle[1].kind = "Connect" /\ phase' \in ConnectPhase
         \/ lifecycle # <<>> /\ lifecycle[1].kind = "Disconnect" /\ phase' \in CleanupPhase
  PROVE  lifecycle' \in Seq(Operation) /\ phase' \in Phase /\ Shape'
         /\ (\A s : Leaving(s)' <=> Leaving(s))
<1>1. lifecycle' \in Seq(Operation) /\ phase' \in Phase
  BY CleanupFacts DEF LifeTypes
<1>2. phase' # "Waiting" => lifecycle # <<>>
  BY CleanupFacts DEF Shape
<1>3. phase' \in ConnectPhase => lifecycle[1].kind = "Connect"
  BY CleanupFacts DEF Shape
<1>4. phase' \in CleanupPhase => lifecycle[1].kind = "Disconnect"
  BY CleanupFacts DEF Shape
<1>5. lifecycle' = lifecycle /\ disconnecting' = disconnecting
  OBVIOUS
<1>6. Shape'
  BY <1>2, <1>3, <1>4, <1>5 DEF Shape
<1> QED BY <1>1, <1>6 DEF Leaving

\* Nothing that a session must not have is new.
LEMMA SessionsAreKept ==
  ASSUME LifeTypes, Sessions, UNCHANGED opened,
         current' = 0 \/ current' = current,
         connected' => current' # 0,
         phase' = "Signalling" => phase = "Signalling",
         \A s : Leaving(s)' => Leaving(s),
         \A s : Stopping(s)' => Stopping(s),
         \/ phase' \in CleanupPhase
         \/ phase \notin CleanupPhase
         \/ \A s : ~Leaving(s)'
  PROVE  Sessions'
<1>1. current' <= opened'
  BY DEF LifeTypes, Sessions, Session
<1>2. ASSUME phase' = "Signalling"
      PROVE  opened' # 0 /\ opened' # current' /\ ~Leaving(opened)' /\ ~Stopping(opened)'
  BY <1>2 DEF Sessions
<1>4. ASSUME NEW s \in Session
      PROVE  /\ s > opened => ~Stopping(s)'
             /\ Leaving(s)' => s <= opened /\ s # current'
             /\ Leaving(s)' /\ phase' \notin CleanupPhase => ~Stopping(s)'
             /\ s = current' => ~Stopping(s)'
  <2>1. s # 0
    BY DEF Session
  <2> QED BY <2>1 DEF Sessions
<1>5. opened' = opened
  OBVIOUS
<1> QED BY <1>1, <1>2, <1>4, <1>5 DEF Sessions

\* What no step of a command touches.
Unmoved == UNCHANGED <<current, connected, opened, allowStop, cleaned, lifeVars>>

\* Sessions without what is written.
LEMMA UnmovedKeepsLife ==
  ASSUME LifeTypes, Shape, Sessions, Unmoved, buttons' \in SUBSET {"Connect", "Disconnect"},
         stopped' \subseteq 1 .. opened,
         \A s \in Session : Stopping(s)' => Stopping(s),
         \/ buttons' \subseteq buttons
         \/ buttons' = Enabled(connected),
         Buttons
  PROVE  LifeTypes' /\ Shape' /\ Sessions' /\ Buttons'
<1>1. /\ UNCHANGED <<current, connected, opened, allowStop, cleaned>>
      /\ UNCHANGED <<lifecycle, phase, disconnecting>>
  BY DEF Unmoved, lifeVars
<1>2. LifeTypes'
  BY <1>1 DEF LifeTypes
<1>3. Shape' /\ \A s : Leaving(s)' <=> Leaving(s)
  BY <1>1, PhaseChanges
<1>4. Buttons'
  BY <1>1 DEF Buttons, Enabled
<1>5. Sessions'
  <2>1. current' = current /\ phase' = phase /\ opened' = opened
    BY <1>1
  <2>2. (connected' => current' # 0) /\ current' <= opened'
    BY <1>1 DEF Sessions
  <2>3. ASSUME phase' = "Signalling"
        PROVE  opened' # 0 /\ opened' # current' /\ ~Leaving(opened)' /\ ~Stopping(opened)'
    BY <1>3, <2>1, <2>3 DEF Sessions, LifeTypes
  <2>4. ASSUME NEW s \in Session
        PROVE  /\ s > opened' => ~Stopping(s)'
               /\ Leaving(s)' => s <= opened' /\ s # current'
               /\ Leaving(s)' /\ phase' \notin CleanupPhase => ~Stopping(s)'
               /\ s = current' => ~Stopping(s)'
    BY <1>3, <2>1 DEF Sessions
  <2> QED BY <2>2, <2>3, <2>4 DEF Sessions
<1> QED BY <1>2, <1>3, <1>4, <1>5

\* A frame behind the others.
LEMMA FrameWaits ==
  ASSUME QueueType, NEW t \in Session, NEW x \in Item, x # StopFrame,
         queue' = [queue EXCEPT ![t] = Append(@, x)], ~Stopping(t), StopInv,
         UNCHANGED <<allowStop, stopped>>
  PROVE  /\ \A s \in Session : Stopping(s)' => Stopping(s)
         /\ StopInv'
<1>1. Places(t, StopFrame)' = Places(t, StopFrame)
  <2>1. At(Append(queue[t], x), StopFrame) = At(queue[t], StopFrame)
    BY AtAppend DEF QueueType
  <2>2. queue'[t] = Append(queue[t], x)
    BY DEF QueueType
  <2> QED BY <2>1, <2>2 DEF Places
<1>2. \A s \in Session : s # t => queue'[s] = queue[s]
  BY DEF QueueType
<1>3. \A s \in Session : Places(s, StopFrame)' = Places(s, StopFrame)
  BY <1>1, <1>2 DEF Places
<1>4. \A s \in Session : Stopping(s)' => Stopping(s)
  BY <1>3 DEF Stopping
<1>5. StopInv'
  <2> SUFFICES ASSUME NEW s \in Session
               PROVE  /\ s \in stopped => queue'[s] \in {<<>>, <<StopFrame>>}
                      /\ \A k \in Places(s, StopFrame)' : k = Len(queue'[s])
    BY DEF StopInv
  <2>1. CASE s = t
    BY <1>1, <2>1 DEF Stopping
  <2>2. CASE s # t
    BY <1>2, <1>3, <2>2 DEF StopInv
  <2> QED BY <2>1, <2>2
<1> QED BY <1>4, <1>5

\* What WriteSettles does to a queue.
Dequeues(t) ==
  /\ queue[t] # <<>> /\ UNCHANGED allowStop
  /\ IF IsStopNext(t) /\ t \notin allowStop
       THEN queue' = [queue EXCEPT ![t] = Tail(Tail(@))] /\ UNCHANGED stopped
       ELSE /\ queue' = [queue EXCEPT ![t] = Tail(@)]
            /\ stopped' = IF IsStopNext(t) THEN stopped \cup {t} ELSE stopped

\* A write is settled; STOP_ALL is the last of its session, whether it is begun or not.
LEMMA FrameIsDone ==
  ASSUME QueueType, LifeTypes, NEW t \in Session, Dequeues(t), StopInv, Sessions
  PROVE  /\ \A s \in Session : Stopping(s)' => Stopping(s)
         /\ stopped' \subseteq 1 .. opened
         /\ StopInv'
<1> DEFINE q == queue[t]
           r == Tail(q)
<1>1. q \in Seq(Item) /\ q # <<>>
  BY DEF QueueType, Dequeues
<1>2. \A s \in Session : s # t => queue'[s] = queue[s] /\ (s \in stopped' <=> s \in stopped)
  BY DEF QueueType, Dequeues
<1>3. Len(q) \in Nat /\ Len(q) # 0 /\ DOMAIN q = 1 .. Len(q)
  BY <1>1, EmptySeq, LenProperties
<1>4. /\ r \in Seq(Item) /\ Len(r) = Len(q) - 1 /\ (Len(r) = 0 => r = <<>>)
      /\ Len(q) > 1 => r[1] = q[2]
  <2> HIDE DEF q
  <2>1. /\ r \in Seq(Item) /\ Len(r) = Len(q) - 1
        /\ \A i \in 1 .. Len(r) : r[i] = q[i + 1]
    BY <1>1, HeadTailProperties
  <2> HIDE DEF r
  <2>2. Len(q) > 1 => 1 \in 1 .. Len(r)
    BY <1>3, <2>1
  <2>3. Len(q) > 1 => r[1] = q[2]
    BY <2>1, <2>2
  <2> QED BY <2>1, <2>3, EmptySeq
<1>5. q = queue[t]
  BY DEF q
<1> HIDE DEF q, r
<1>6. ASSUME IsStopNext(t)
      PROVE  2 \in At(q, StopFrame) /\ Len(q) = 2 /\ r = <<StopFrame>> /\ Stopping(t)
  <2>1. 2 \in At(q, StopFrame) /\ q[2] = StopFrame
    BY <1>3, <1>5, <1>6 DEF IsStopNext, At
  <2>2. 2 \in Places(t, StopFrame)
    BY <1>5, <2>1 DEF Places
  <2>3. Len(q) = 2
    BY <1>5, <2>2 DEF StopInv
  <2>4. Len(r) = 1 /\ r[1] = StopFrame
    BY <1>4, <2>1, <2>3
  <2> QED BY <1>4, <2>1, <2>2, <2>3, <2>4, OneFrame DEF Stopping
<1>7. t \in stopped => ~IsStopNext(t) /\ r = <<>>
  <2> SUFFICES ASSUME t \in stopped PROVE ~IsStopNext(t) /\ r = <<>>
    OBVIOUS
  <2>1. q = <<StopFrame>>
    BY <1>1, <1>5 DEF StopInv
  <2>2. Len(q) = 1
    BY <2>1
  <2> QED BY <1>4, <1>5, <2>2 DEF IsStopNext
<1>8. /\ queue'[t] = IF IsStopNext(t) /\ t \notin allowStop THEN <<>> ELSE r
      /\ t \in stopped' => \/ queue'[t] = r /\ r = <<StopFrame>>
                           \/ queue'[t] = <<>>
  <2>1. CASE IsStopNext(t) /\ t \notin allowStop
    <3>1. queue'[t] = Tail(r)
      BY <1>5, <2>1 DEF Dequeues, QueueType, r
    <3>2. r = <<StopFrame>>
      BY <1>6, <2>1
    <3>3. Tail(<<StopFrame>>) = <<>>
      OBVIOUS
    <3> QED BY <2>1, <3>1, <3>2, <3>3
  <2>2. CASE ~(IsStopNext(t) /\ t \notin allowStop)
    <3>1. /\ queue'[t] = r
          /\ stopped' = IF IsStopNext(t) THEN stopped \cup {t} ELSE stopped
      BY <1>5, <2>2 DEF Dequeues, QueueType, r
    <3> QED BY <1>6, <1>7, <2>2, <3>1
  <2> QED BY <2>1, <2>2
<1>9. \A k \in At(queue'[t], StopFrame) : k = Len(queue'[t]) /\ At(q, StopFrame) # {}
  <2>1. CASE queue'[t] = <<>>
    BY <2>1 DEF At
  <2>2. CASE queue'[t] = r
    <3> SUFFICES ASSUME NEW k \in At(r, StopFrame) PROVE k = Len(r) /\ At(q, StopFrame) # {}
      BY <2>2
    <3>1. k + 1 \in At(q, StopFrame)
      BY <1>1, AtTail DEF r
    <3>2. k + 1 = Len(q)
      BY <1>5, <3>1 DEF StopInv, Places
    <3>3. k \in Nat
      BY <1>4, LenProperties DEF At
    <3> DEFINE n == Len(q)
               m == Len(r)
    <3>4. n \in Nat /\ k + 1 = n /\ m = n - 1
      BY <1>3, <1>4, <3>2
    <3> HIDE DEF n, m
    <3>5. k = m
      BY <3>3, <3>4
    <3> QED BY <3>1, <3>5 DEF m
  <2> QED BY <1>8, <2>1, <2>2
<1>10. \A s \in Session : s # t => Places(s, StopFrame)' = Places(s, StopFrame)
  BY <1>2 DEF Places
<1>11. Places(t, StopFrame)' = At(queue'[t], StopFrame) /\ Places(t, StopFrame) = At(q, StopFrame)
  BY <1>5 DEF Places, At
<1>12. t \in stopped' => Stopping(t)
  BY <1>6 DEF Dequeues, Stopping
<1>13. \A s \in Session : Stopping(s)' => Stopping(s)
  <2> SUFFICES ASSUME NEW s \in Session, Stopping(s)' PROVE Stopping(s)
    OBVIOUS
  <2>1. allowStop' = allowStop
    BY DEF Dequeues
  <2>2. CASE s = t
    BY <1>9, <1>11, <1>12, <2>1, <2>2 DEF Stopping
  <2>3. CASE s # t
    BY <1>2, <1>10, <2>1, <2>3 DEF Stopping
  <2> QED BY <2>2, <2>3
<1>14. stopped' \subseteq 1 .. opened
  <2>1. CASE stopped' = stopped
    BY <2>1 DEF LifeTypes
  <2>2. CASE stopped' = stopped \cup {t}
    <3>1. t <= opened /\ t \in 1 .. opened
      BY <1>12, <2>2 DEF Sessions, LifeTypes, Session
    <3> QED BY <2>2, <3>1 DEF LifeTypes
  <2> QED BY <2>1, <2>2 DEF Dequeues
<1>15. StopInv'
  <2> SUFFICES ASSUME NEW s \in Session
               PROVE  /\ s \in stopped' => queue'[s] \in {<<>>, <<StopFrame>>}
                      /\ \A k \in Places(s, StopFrame)' : k = Len(queue'[s])
    BY DEF StopInv
  <2>1. CASE s = t
    BY <1>8, <1>9, <1>11, <2>1
  <2>2. CASE s # t
    BY <1>2, <1>10, <2>2 DEF StopInv
  <2> QED BY <2>1, <2>2
<1> QED BY <1>13, <1>14, <1>15

\* What a step of a command does to the queues.
WritesOfCommands ==
  \/ UNCHANGED writeVars
  \/ /\ current \in Session
     /\ \E x \in Item : x # StopFrame /\ queue' = [queue EXCEPT ![current] = Append(@, x)]
     /\ UNCHANGED <<allowStop, stopped>>
  \/ \E t \in Session : Dequeues(t)

\* Commands and heartbeats leave the sessions as they are.
LEMMA WritingKeepsLife ==
  ASSUME QueueType, LifeInv, Unmoved, WritesOfCommands,
         \/ buttons' \subseteq buttons
         \/ buttons' = Enabled(connected)
  PROVE  LifeInv'
<1>1. buttons' \in SUBSET {"Connect", "Disconnect"}
  BY DEF LifeInv, LifeTypes, Enabled
<1> DEFINE Kept == /\ \A s \in Session : Stopping(s)' => Stopping(s)
                   /\ stopped' \subseteq 1 .. opened
                   /\ StopInv'
<1>2. Kept
  <2>1. CASE UNCHANGED writeVars
    BY <2>1 DEF writeVars, LifeInv, LifeTypes, StopInv, Stopping, Places, At
  <2>2. ASSUME current \in Session, NEW x \in Item, x # StopFrame,
               queue' = [queue EXCEPT ![current] = Append(@, x)],
               UNCHANGED <<allowStop, stopped>>
        PROVE  Kept
    <3>1. ~Stopping(current)
      BY <2>2 DEF LifeInv, Sessions
    <3>2. stopped' \subseteq 1 .. opened
      BY <2>2 DEF LifeInv, LifeTypes
    <3> QED BY <2>2, <3>1, <3>2, FrameWaits DEF LifeInv
  <2>3. ASSUME NEW t \in Session, Dequeues(t) PROVE Kept
    BY <2>3, FrameIsDone DEF LifeInv
  <2> QED BY <2>1, <2>2, <2>3 DEF WritesOfCommands
<1> QED BY <1>1, <1>2, UnmovedKeepsLife DEF LifeInv

\* Each of them writes one frame at most.
LEMMA CommandsKeepLife ==
  ASSUME QueueType, CallInv, LifeInv, NEW c \in Call,
         Send(c) \/ SendOnce(c) \/ Timer(c) \/ AcceptFrame(c)
  PROVE  LifeInv'
<1>1. c \in Item /\ c # StopFrame
  BY ItemFacts
<1>2. ASSUME IsSessionActive(calls[c].session), NEW call, call.session = calls[c].session,
             WritePending(c, call), UNCHANGED <<allowStop, stopped>>, calls[c].session # 0
      PROVE  WritesOfCommands
  <2>1. current = calls[c].session /\ current \in Session
    BY <1>2 DEF IsSessionActive, LifeInv, LifeTypes
  <2>2. queue' = [queue EXCEPT ![current] = Append(@, c)]
    BY <1>2, <2>1 DEF WritePending
  <2> QED BY <1>1, <1>2, <2>1, <2>2 DEF WritesOfCommands
<1>3. calls[c] \in CallRecord /\ (calls[c].state # "Unsent" => calls[c].session # 0)
  BY DEF CallInv, Sound
<1>4. CASE Send(c)
  <2>1. Unmoved /\ UNCHANGED writeVars /\ buttons' \subseteq buttons
    BY <1>4 DEF Send, Unmoved, portVars, lifeVars, writeVars
  <2> QED BY <2>1, WritingKeepsLife DEF WritesOfCommands
<1>5. CASE SendOnce(c)
  <2>1. Unmoved /\ UNCHANGED <<allowStop, stopped>>
    BY <1>5 DEF SendOnce, Unmoved, portVars, lifeVars
  <2>2. CASE IsSessionActive(calls[c].session)
    <3> DEFINE call == [calls[c] EXCEPT !.state = "Pending"]
    <3>1. WritePending(c, call) /\ UNCHANGED buttons
      BY <1>5, <2>2 DEF SendOnce
    <3>2. call.session = calls[c].session /\ calls[c].session # 0
      BY <1>3, <1>5 DEF SendOnce, CallRecord
    <3> HIDE DEF call
    <3>3. WritesOfCommands
      BY <1>2, <2>1, <2>2, <3>1, <3>2
    <3> QED BY <2>1, <3>1, <3>3, WritingKeepsLife
  <2>3. CASE ~IsSessionActive(calls[c].session)
    <3>1. UNCHANGED queue /\ buttons' = Enabled(connected)
      BY <1>5, <2>3 DEF SendOnce
    <3> QED BY <2>1, <3>1, WritingKeepsLife DEF WritesOfCommands, writeVars
  <2> QED BY <2>2, <2>3
<1>6. CASE ResponseTimeout(c)
  <2>1. Unmoved /\ UNCHANGED <<allowStop, stopped>>
    BY <1>6 DEF ResponseTimeout, Unmoved, portVars, lifeVars
  <2> DEFINE call == [calls[c] EXCEPT !.response = @ - 1, !.timer = "None"]
  <2>2. call.session = calls[c].session /\ call.remaining = calls[c].remaining
    BY <1>3 DEF CallRecord
  <2>3. IF PendingIsActive(c) THEN RetryNow(c, call) ELSE UNCHANGED <<queue, buttons>>
    BY <1>6 DEF ResponseTimeout
  <2> DEFINE next == [call EXCEPT !.remaining = @ - 1]
  <2>4. next.session = calls[c].session
    BY <1>3 DEF CallRecord
  <2>5. \/ UNCHANGED queue /\ (buttons' = buttons \/ buttons' = Enabled(connected))
        \/ PendingIsActive(c) /\ WritePending(c, next) /\ UNCHANGED buttons
    BY <2>3 DEF RetryNow
  <2> HIDE DEF call, next
  <2>6. CASE UNCHANGED queue /\ (buttons' = buttons \/ buttons' = Enabled(connected))
    BY <2>1, <2>6, WritingKeepsLife DEF WritesOfCommands, writeVars
  <2>7. CASE PendingIsActive(c) /\ WritePending(c, next) /\ UNCHANGED buttons
    <3>1. IsSessionActive(calls[c].session) /\ calls[c].session # 0
      BY <1>3, <2>7 DEF PendingIsActive
    <3>2. WritesOfCommands
      BY <1>2, <2>1, <2>4, <2>7, <3>1
    <3> QED BY <2>1, <2>7, <3>2, WritingKeepsLife
  <2> QED BY <2>5, <2>6, <2>7
<1>7. CASE RetryTimeout(c)
  <2>1. Unmoved /\ UNCHANGED <<allowStop, stopped, buttons>>
    BY <1>7 DEF RetryTimeout, Unmoved, portVars, lifeVars
  <2> DEFINE call == [calls[c] EXCEPT !.retry = @ - 1, !.timer = "None"]
  <2>2. call.session = calls[c].session
    BY <1>3 DEF CallRecord
  <2>3. UNCHANGED queue \/ (PendingIsActive(c) /\ WritePending(c, call))
    BY <1>7 DEF RetryTimeout
  <2> HIDE DEF call
  <2>4. CASE UNCHANGED queue
    BY <2>1, <2>4, WritingKeepsLife DEF WritesOfCommands, writeVars
  <2>5. CASE PendingIsActive(c) /\ WritePending(c, call)
    <3>1. IsSessionActive(calls[c].session) /\ calls[c].session # 0
      BY <1>3, <2>5 DEF PendingIsActive
    <3>2. WritesOfCommands
      BY <1>2, <2>1, <2>2, <2>5, <3>1
    <3> QED BY <2>1, <3>2, WritingKeepsLife
  <2> QED BY <2>3, <2>4, <2>5
<1>8. CASE AcceptFrame(c)
  <2>1. /\ Unmoved /\ UNCHANGED writeVars
        /\ buttons' = buttons \/ buttons' = Enabled(connected)
    BY <1>8 DEF AcceptFrame, Unmoved, portVars, lifeVars, writeVars
  <2> QED BY <2>1, WritingKeepsLife DEF WritesOfCommands
<1> QED BY <1>4, <1>5, <1>6, <1>7, <1>8 DEF Timer

\* So do the other writers.
LEMMA OthersKeepLife ==
  ASSUME QueueType, LifeInv, Heartbeat \/ \E s \in Session : WriteSettles(s)
  PROVE  LifeInv'
<1>1. CASE Heartbeat
  <2>1. Unmoved /\ UNCHANGED <<allowStop, stopped, buttons>>
    BY <1>1 DEF Heartbeat, Unmoved, portVars, lifeVars
  <2>2. current \in Session
    BY <1>1 DEF Heartbeat, LifeInv, LifeTypes
  <2>3. queue' = [queue EXCEPT ![current] = Append(@, HeartbeatFrame)]
    BY <1>1 DEF Heartbeat
  <2>4. WritesOfCommands
    BY <2>1, <2>2, <2>3, ItemFacts DEF WritesOfCommands
  <2> QED BY <2>1, <2>4, WritingKeepsLife
<1>2. ASSUME NEW t \in Session, WriteSettles(t) PROVE LifeInv'
  <2>1. Unmoved
    BY <1>2 DEF WriteSettles, Unmoved, portVars, lifeVars
  <2>2. WritesOfCommands
    BY <1>2 DEF WriteSettles, WritesOfCommands, Dequeues
  <2>3. buttons' = buttons \/ buttons' = Enabled(connected)
    BY <1>2 DEF WriteSettles
  <2> QED BY <2>1, <2>2, <2>3, WritingKeepsLife
<1> QED BY <1>1, <1>2

\* STOP_ALL may still be written, or not any more.
LEMMA NothingIsWritten ==
  ASSUME StopInv, UNCHANGED <<queue, stopped>>, allowStop' \subseteq allowStop
  PROVE  StopInv' /\ \A s : Stopping(s)' => Stopping(s)
BY DEF StopInv, Stopping, Places, At

\* A click on Connect, and the switch.
LEMMA ClickConnectKeepsLife ==
  ASSUME LifeInv, ClickConnect
  PROVE  LifeInv'
<1>1. /\ UNCHANGED <<current, connected, opened, cleaned, queue, allowStop, stopped>>
      /\ UNCHANGED <<phase, disconnecting>> /\ buttons' = {}
      /\ lifecycle' = Append(lifecycle, [kind |-> "Connect", session |-> 0])
  BY DEF ClickConnect, portVars, writeVars
<1>2. lifecycle' \in Seq(Operation) /\ Shape' /\ \A s : Leaving(s)' => Leaving(s)
  BY <1>1, ConnectWaits DEF LifeInv
<1>3. StopInv' /\ \A s : Stopping(s)' => Stopping(s)
  BY <1>1, NothingIsWritten DEF LifeInv
<1>4. connected' => current' # 0
  BY <1>1 DEF LifeInv, Sessions
<1>5. Sessions'
  BY <1>1, <1>2, <1>3, <1>4, SessionsAreKept DEF LifeInv
<1> QED BY <1>1, <1>2, <1>3, <1>5 DEF LifeInv, LifeTypes, Buttons

\* A connect goes on.
LEMMA ConnectStartsKeepsLife ==
  ASSUME LifeInv, ConnectStarts \/ PortChosen
  PROVE  LifeInv'
<1>1. /\ UNCHANGED <<current, connected, opened, cleaned, queue, allowStop, stopped>>
      /\ UNCHANGED <<lifecycle, disconnecting, buttons>>
      /\ lifecycle # <<>> /\ lifecycle[1].kind = "Connect"
      /\ phase' \in {"Choosing", "Opening"} /\ phase \notin CleanupPhase
  BY DEF ConnectStarts, PortChosen, IsAt, GoesTo, portVars, writeVars, CleanupPhase
<1>2. lifecycle' \in Seq(Operation) /\ phase' \in Phase /\ Shape'
      /\ \A s : Leaving(s)' <=> Leaving(s)
  BY <1>1, PhaseChanges DEF LifeInv, ConnectPhase
<1>3. StopInv' /\ \A s : Stopping(s)' => Stopping(s)
  BY <1>1, NothingIsWritten DEF LifeInv
<1>4. (connected' => current' # 0) /\ phase' # "Signalling"
  BY <1>1 DEF LifeInv, Sessions
<1>5. Sessions'
  BY <1>1, <1>2, <1>3, <1>4, SessionsAreKept DEF LifeInv
<1> QED BY <1>1, <1>2, <1>3, <1>5 DEF LifeInv, LifeTypes, Buttons

\* A port that opens begins a session that nothing knows of.
LEMMA PortOpensKeepsLife ==
  ASSUME LifeInv, PortOpens
  PROVE  LifeInv'
<1>1. /\ UNCHANGED <<current, connected, cleaned, queue, allowStop, stopped>>
      /\ UNCHANGED <<lifecycle, disconnecting, buttons>>
      /\ lifecycle # <<>> /\ lifecycle[1].kind = "Connect"
      /\ phase' = "Signalling" /\ phase \notin CleanupPhase
  BY DEF PortOpens, IsAt, GoesTo, writeVars, CleanupPhase
<1>2. opened \in Nat /\ opened < SessionLimit /\ opened' = opened + 1
  BY DEF PortOpens, LifeInv, LifeTypes, Session
<1>3. opened' \in Session /\ opened' # 0 /\ opened < opened'
  BY <1>2, RetryFacts DEF Session
<1>4. lifecycle' \in Seq(Operation) /\ phase' \in Phase /\ Shape'
      /\ \A s : Leaving(s)' <=> Leaving(s)
  BY <1>1, PhaseChanges DEF LifeInv, ConnectPhase
<1>5. StopInv' /\ \A s : Stopping(s)' => Stopping(s)
  BY <1>1, NothingIsWritten DEF LifeInv
<1>6. current' = current /\ current \in Nat /\ current <= opened /\ (connected' => current' # 0)
  BY <1>1 DEF LifeInv, LifeTypes, Sessions, Session
<1>7. ~Leaving(opened') /\ ~Stopping(opened')
  BY <1>2, <1>3 DEF LifeInv, Sessions
<1>8. opened' # 0 /\ opened' # current' /\ ~Leaving(opened)' /\ ~Stopping(opened)'
  BY <1>2, <1>3, <1>4, <1>5, <1>6, <1>7
<1>9. ASSUME NEW s \in Session
      PROVE  /\ s > opened' => ~Stopping(s)'
             /\ Leaving(s)' => s <= opened' /\ s # current'
             /\ Leaving(s)' /\ phase' \notin CleanupPhase => ~Stopping(s)'
             /\ s = current' => ~Stopping(s)'
  <2>1. /\ s > opened => ~Stopping(s)
        /\ Leaving(s) => s <= opened /\ s # current
        /\ Leaving(s) => ~Stopping(s)
        /\ s = current => ~Stopping(s)
    BY <1>1 DEF LifeInv, Sessions
  <2>2. /\ s > opened' => s > opened
        /\ s <= opened => s <= opened'
    BY <1>2 DEF Session
  <2> QED BY <1>4, <1>5, <1>6, <2>1, <2>2
<1>10. Sessions'
  <2>1. current' <= opened'
    BY <1>2, <1>6
  <2> QED BY <1>6, <1>8, <1>9, <2>1 DEF Sessions
<1>11. LifeTypes'
  <2>1. 1 .. opened \subseteq 1 .. opened'
    BY <1>2
  <2> QED BY <1>1, <1>3, <1>4, <2>1 DEF LifeInv, LifeTypes
<1> QED BY <1>1, <1>4, <1>5, <1>10, <1>11 DEF LifeInv, Buttons

\* The session is the current one.
LEMMA ConnectedKeepsLife ==
  ASSUME LifeInv, Connected
  PROVE  LifeInv'
<1>1. /\ UNCHANGED <<opened, cleaned, queue, allowStop, stopped, disconnecting>>
      /\ lifecycle # <<>> /\ lifecycle[1].kind = "Connect" /\ phase = "Signalling"
      /\ EndTransition /\ current' = opened /\ connected' = TRUE /\ buttons' = {"Disconnect"}
  BY DEF Connected, IsAt, writeVars, Enabled
<1>2. lifecycle' \in Seq(Operation) /\ Shape' /\ \A s : Leaving(s)' => Leaving(s)
  BY <1>1, ConnectIsOver DEF LifeInv
<1>3. StopInv' /\ \A s : Stopping(s)' => Stopping(s)
  BY <1>1, NothingIsWritten DEF LifeInv
<1>4. /\ phase \notin CleanupPhase /\ phase' = "Waiting"
      /\ opened # 0 /\ ~Leaving(opened) /\ ~Stopping(opened)
      /\ opened \in Session /\ opened <= opened
  BY <1>1 DEF CleanupPhase, EndTransition, LifeInv, Sessions, LifeTypes, Session
<1>5. ASSUME NEW s \in Session
      PROVE  /\ s > opened' => ~Stopping(s)'
             /\ Leaving(s)' => s <= opened' /\ s # current'
             /\ Leaving(s)' /\ phase' \notin CleanupPhase => ~Stopping(s)'
             /\ s = current' => ~Stopping(s)'
  BY <1>1, <1>2, <1>3, <1>4 DEF LifeInv, Sessions
<1>6. Sessions'
  BY <1>1, <1>4, <1>5 DEF Sessions
<1>7. LifeTypes'
  BY <1>1, <1>2, <1>4 DEF LifeInv, LifeTypes, Phase
<1> QED BY <1>1, <1>2, <1>3, <1>6, <1>7 DEF LifeInv, Buttons

\* No session comes of it.
LEMMA ConnectFailsKeepsLife ==
  ASSUME LifeInv, ConnectFails
  PROVE  LifeInv'
<1>1. /\ UNCHANGED <<opened, queue, allowStop, stopped, disconnecting>>
      /\ lifecycle # <<>> /\ lifecycle[1].kind = "Connect" /\ phase \in ConnectPhase
      /\ EndTransition /\ current' = 0 /\ connected' = FALSE /\ buttons' = {"Connect"}
  BY DEF ConnectFails, writeVars, Enabled, ConnectPhase
<1>2. lifecycle' \in Seq(Operation) /\ Shape' /\ \A s : Leaving(s)' => Leaving(s)
  BY <1>1, ConnectIsOver DEF LifeInv
<1>3. StopInv' /\ \A s : Stopping(s)' => Stopping(s)
  BY <1>1, NothingIsWritten DEF LifeInv
<1>4. phase \notin CleanupPhase /\ phase' = "Waiting" /\ phase' \in Phase
  BY <1>1, CleanupFacts DEF EndTransition
<1>5. Sessions'
  BY <1>1, <1>2, <1>3, <1>4, SessionsAreKept DEF LifeInv
<1>6. cleaned' \subseteq 1 .. opened
  <2>1. phase = "Signalling" => opened \in 1 .. opened
    BY DEF LifeInv, Sessions, LifeTypes, Session
  <2> QED BY <2>1 DEF ConnectFails, LifeInv, LifeTypes
<1>7. LifeTypes'
  BY <1>1, <1>2, <1>4, <1>6 DEF LifeInv, LifeTypes
<1> QED BY <1>1, <1>2, <1>3, <1>5, <1>7 DEF LifeInv, Buttons

\* Whoever disconnects: the session leaves, or has left already.
LEMMA DisconnectKeepsLife ==
  ASSUME LifeInv, Disconnect, connected \/ disconnecting, buttons' \subseteq {"Connect", "Disconnect"},
         UNCHANGED <<phase, cleaned, opened, queue, allowStop, stopped>>
  PROVE  LifeInv'
<1>1. StopInv' /\ \A s : Stopping(s)' => Stopping(s)
  BY NothingIsWritten DEF LifeInv
<1>2. CASE disconnecting
  <2>1. UNCHANGED <<current, connected, lifecycle, disconnecting>>
    BY <1>2 DEF Disconnect
  <2>2. lifecycle' \in Seq(Operation) /\ phase' \in Phase /\ Shape'
        /\ \A s : Leaving(s)' <=> Leaving(s)
    BY <2>1, PhaseChanges DEF LifeInv
  <2>3. connected' => current' # 0
    BY <2>1 DEF LifeInv, Sessions
  <2>4. Sessions'
    BY <1>1, <2>1, <2>2, <2>3, SessionsAreKept DEF LifeInv
  <2>5. disconnecting'
    BY <1>2, <2>1
  <2> QED BY <1>1, <2>1, <2>2, <2>4, <2>5 DEF LifeInv, LifeTypes, Buttons
<1>3. CASE ~disconnecting
  <2>1. /\ lifecycle' = Append(lifecycle, [kind |-> "Disconnect", session |-> current])
        /\ disconnecting' = TRUE /\ current' = 0 /\ connected' = FALSE
    BY <1>3 DEF Disconnect, Detach
  <2>2. current \in Session /\ current # 0 /\ current <= opened
    BY <1>3 DEF LifeInv, LifeTypes, Sessions
  <2>3. /\ lifecycle' \in Seq(Operation) /\ Shape' /\ phase \notin CleanupPhase
        /\ \A s : Leaving(s)' => s = current
    BY <1>3, <2>1, <2>2, DisconnectWaits DEF LifeInv
  <2>4. \A s \in Session : s = current => ~Stopping(s)
    BY DEF LifeInv, Sessions
  <2>5. ASSUME phase' = "Signalling"
        PROVE  opened' # 0 /\ opened' # current' /\ ~Leaving(opened)' /\ ~Stopping(opened)'
    <3>1. opened # 0 /\ opened # current /\ ~Stopping(opened)
      BY <2>5 DEF LifeInv, Sessions
    <3> QED BY <1>1, <2>1, <2>3, <3>1
  <2>6. ASSUME NEW s \in Session
        PROVE  /\ s > opened' => ~Stopping(s)'
               /\ Leaving(s)' => s <= opened' /\ s # current'
               /\ Leaving(s)' /\ phase' \notin CleanupPhase => ~Stopping(s)'
               /\ s = current' => ~Stopping(s)'
    <3>1. s # 0
      BY DEF Session
    <3>2. s > opened => ~Stopping(s)
      BY DEF LifeInv, Sessions
    <3> QED BY <1>1, <2>1, <2>2, <2>3, <2>4, <3>1, <3>2
  <2>7. Sessions'
    <3>1. current' <= opened'
      BY <2>1 DEF LifeInv, LifeTypes, Session
    <3> QED BY <2>1, <2>5, <2>6, <3>1 DEF Sessions
  <2>8. LifeTypes'
    BY <2>1, <2>3 DEF LifeInv, LifeTypes
  <2> QED BY <1>1, <2>1, <2>3, <2>7, <2>8 DEF LifeInv, Buttons
<1> QED BY <1>2, <1>3

\* STOP_ALL waits in a session that has had none.
LEMMA CleanupStartsKeepsLife ==
  ASSUME QueueType, LifeInv, CleanupStarts
  PROVE  LifeInv'
<1>0. PICK t \in Session : t = lifecycle[1].session
  BY LifecycleFacts DEF CleanupStarts, IsAt, LifeInv
<1>1. /\ UNCHANGED <<current, connected, opened, cleaned>>
      /\ UNCHANGED <<lifecycle, disconnecting, buttons>>
      /\ stopped' = IF queue[t] = <<>> THEN stopped \cup {t} ELSE stopped
      /\ lifecycle # <<>> /\ lifecycle[1].kind = "Disconnect"
      /\ phase' = "Stop" /\ phase = "Waiting"
      /\ queue' = [queue EXCEPT ![t] = Append(@, StopFrame)]
      /\ allowStop' = allowStop \cup {t}
  BY <1>0 DEF CleanupStarts, IsAt, GoesTo, portVars
<1>2. phase \notin CleanupPhase /\ phase' \in CleanupPhase
  BY <1>1 DEF CleanupPhase
<1>3. Leaving(t)
  BY <1>0, <1>1, LifecycleFacts DEF LifeInv, Leaving
<1>4. t <= opened /\ t # current /\ ~Stopping(t)
  BY <1>2, <1>3 DEF LifeInv, Sessions
<1>5. lifecycle' \in Seq(Operation) /\ phase' \in Phase /\ Shape'
      /\ \A s : Leaving(s)' <=> Leaving(s)
  BY <1>1, <1>2, PhaseChanges DEF LifeInv
<1>6. /\ queue'[t] = Append(queue[t], StopFrame) /\ queue[t] \in Seq(Item)
      /\ \A s \in Session : s # t => queue'[s] = queue[s]
  BY <1>1, <1>3 DEF QueueType
<1>7. \A s \in Session : s # t =>
        /\ Places(s, StopFrame)' = Places(s, StopFrame)
        /\ Stopping(s)' => Stopping(s)
  BY <1>1, <1>6 DEF Places, Stopping
<1>8. Places(t, StopFrame)' = {Len(queue[t]) + 1}
  <2>1. At(queue[t], StopFrame) = {}
    BY <1>4 DEF Stopping, Places
  <2>2. At(Append(queue[t], StopFrame), StopFrame) = At(queue[t], StopFrame) \cup {Len(queue[t]) + 1}
    BY <1>6, ItemFacts, AtAppend
  <2>3. At(Append(queue[t], StopFrame), StopFrame) = {Len(queue[t]) + 1}
    BY <2>1, <2>2
  <2>4. Places(t, StopFrame)' = At(Append(queue[t], StopFrame), StopFrame)
    BY <1>6 DEF Places
  <2> QED BY <2>3, <2>4
<1>9. Len(queue'[t]) = Len(queue[t]) + 1
  BY <1>6, ItemFacts, AppendProperties
<1>10. StopInv'
  <2> SUFFICES ASSUME NEW s \in Session
               PROVE  /\ s \in stopped' => queue'[s] \in {<<>>, <<StopFrame>>}
                      /\ \A k \in Places(s, StopFrame)' : k = Len(queue'[s])
    BY DEF StopInv
  <2>1. CASE s = t
    <3>1. s \in stopped' => queue'[t] = <<StopFrame>>
      <4>1. s \notin stopped
        BY <1>4, <2>1 DEF Stopping
      <4>2. s \in stopped' => queue[t] = <<>>
        BY <1>1, <4>1
      <4>3. Append(<<>>, StopFrame) = <<StopFrame>>
        OBVIOUS
      <4> QED BY <1>6, <4>2, <4>3
    <3>2. \A k \in Places(t, StopFrame)' : k = Len(queue'[t])
      BY <1>8, <1>9
    <3> QED BY <2>1, <3>1, <3>2
  <2>2. CASE s # t
    <3>1. s \in stopped' => s \in stopped
      BY <1>1, <2>2
    <3> QED BY <1>6, <1>7, <2>2, <3>1 DEF LifeInv, StopInv
  <2> QED BY <2>1, <2>2
<1>11. ASSUME NEW s \in Session
       PROVE  /\ s > opened' => ~Stopping(s)'
              /\ Leaving(s)' => s <= opened' /\ s # current'
              /\ s = current' => ~Stopping(s)'
  <2>1. s > opened => s # t
    BY <1>4 DEF LifeInv, LifeTypes, Session
  <2> QED BY <1>1, <1>4, <1>5, <1>7, <2>1 DEF LifeInv, Sessions
<1>12. Sessions'
  <2>1. phase' # "Signalling"
    BY <1>1
  <2>2. current' <= opened' /\ (connected' => current' # 0)
    BY <1>1 DEF LifeInv, Sessions
  <2> QED BY <1>2, <1>11, <2>1, <2>2 DEF Sessions
<1>13. LifeTypes'
  <2>1. t \in 1 .. opened
    BY <1>3, <1>4 DEF LifeInv, LifeTypes, Session
  <2> QED BY <1>1, <1>5, <2>1 DEF LifeInv, LifeTypes
<1> QED BY <1>1, <1>5, <1>10, <1>12, <1>13 DEF LifeInv, Buttons

\* The cleanup goes on, or ends.
LEMMA NextCleanupKeepsLife ==
  ASSUME LifeInv, IsCleaning, NextCleanup
  PROVE  LifeInv'
<1>1. phase \in CleanupPhase /\ lifecycle # <<>> /\ lifecycle[1].kind = "Disconnect"
  BY CleanupFacts DEF IsCleaning, LifeInv, Shape
<1>2. UNCHANGED <<current, opened, queue, stopped>> /\ allowStop' \subseteq allowStop
  BY DEF NextCleanup
<1>3. StopInv' /\ \A s : Stopping(s)' => Stopping(s)
  BY <1>2, NothingIsWritten DEF LifeInv
<1>4. CASE phase = "Close"
  <2> DEFINE t == lifecycle[1].session
  <2>1. DisconnectEnds /\ cleaned' = cleaned \cup {t}
    BY <1>4 DEF NextCleanup
  <2>2. EndTransition /\ disconnecting' = FALSE /\ connected' = FALSE /\ buttons' = {"Connect"}
    BY <2>1 DEF DisconnectEnds, Enabled
  <2>3. t \in 1 .. opened
    <3>1. t \in Session /\ Leaving(t)
      BY <1>1, LifecycleFacts DEF LifeInv, Leaving
    <3> HIDE DEF t
    <3>2. t <= opened
      BY <3>1 DEF LifeInv, Sessions
    <3> QED BY <3>1, <3>2 DEF LifeInv, LifeTypes, Session
  <2> HIDE DEF t
  <2>4. lifecycle' \in Seq(Operation) /\ Shape' /\ \A s : ~Leaving(s)'
    BY <1>1, <2>2, DisconnectIsOver DEF LifeInv
  <2>5. phase' = "Waiting" /\ phase' \in Phase
    BY <2>2, CleanupFacts DEF EndTransition
  <2>6. Sessions'
    BY <1>2, <1>3, <2>2, <2>4, <2>5, SessionsAreKept DEF LifeInv
  <2>7. LifeTypes'
    BY <1>2, <2>1, <2>2, <2>3, <2>4, <2>5 DEF LifeInv, LifeTypes
  <2> QED BY <1>3, <2>2, <2>4, <2>6, <2>7 DEF LifeInv, Buttons
<1>5. CASE phase # "Close"
  <2> DEFINE k == CHOOSE i \in DOMAIN CleanupOrder : CleanupOrder[i] = phase
  <2>1. GoesTo(CleanupOrder[k + 1]) /\ UNCHANGED <<disconnecting, connected, buttons, cleaned>>
    BY <1>5 DEF NextCleanup
  <2>2. k \in DOMAIN CleanupOrder /\ CleanupOrder[k] = phase
    <3>1. \E i \in DOMAIN CleanupOrder : CleanupOrder[i] = phase
      BY DEF IsCleaning, ToSet
    <3> QED BY <3>1
  <2> HIDE DEF k
  <2>3. phase' \in CleanupPhase /\ UNCHANGED lifecycle
    BY <1>5, <2>1, <2>2, CleanupFacts DEF GoesTo
  <2>4. lifecycle' \in Seq(Operation) /\ phase' \in Phase /\ Shape'
        /\ \A s : Leaving(s)' <=> Leaving(s)
    BY <1>1, <2>1, <2>3, PhaseChanges DEF LifeInv
  <2>5. phase' # "Signalling" /\ (connected' => current' # 0)
    BY <1>2, <2>1, <2>3 DEF CleanupPhase, LifeInv, Sessions
  <2>6. Sessions'
    BY <1>2, <1>3, <2>3, <2>4, <2>5, SessionsAreKept DEF LifeInv
  <2>7. LifeTypes'
    BY <1>2, <2>1, <2>4 DEF LifeInv, LifeTypes
  <2> QED BY <1>3, <2>1, <2>4, <2>6, <2>7 DEF LifeInv, Buttons
<1> QED BY <1>4, <1>5

\* Every step keeps the sessions apart.
LEMMA NextKeepsLife ==
  ASSUME QueueType, CallInv, LifeInv, [Next]_vars
  PROVE  LifeInv'
<1>1. CASE ClickDisconnect \/ PhysicalDisconnect
  <2>1. /\ Disconnect /\ (connected \/ disconnecting)
        /\ UNCHANGED <<phase, cleaned, opened, queue, allowStop, stopped>>
    BY <1>1 DEF ClickDisconnect, PhysicalDisconnect, portVars, writeVars, LifeInv, Buttons
  <2>2. buttons' \subseteq {"Connect", "Disconnect"}
    BY <1>1 DEF ClickDisconnect, PhysicalDisconnect, LifeInv, LifeTypes, Enabled
  <2> QED BY <2>1, <2>2, DisconnectKeepsLife
<1>2. CASE ToggleArm
  <2>1. Unmoved /\ UNCHANGED writeVars /\ buttons' = Enabled(connected)
    BY <1>2 DEF ToggleArm, Unmoved, portVars, lifeVars, writeVars
  <2> QED BY <2>1, WritingKeepsLife DEF WritesOfCommands
<1>3. CASE UNCHANGED vars
  <2>1. Unmoved /\ UNCHANGED writeVars /\ buttons' \subseteq buttons
    BY <1>3 DEF vars, Unmoved, portVars, lifeVars, writeVars
  <2> QED BY <2>1, WritingKeepsLife DEF WritesOfCommands
<1>4. CASE CleanupStep \/ CleanupTimesOut
  BY <1>4, NextCleanupKeepsLife DEF CleanupStep, CleanupTimesOut
<1>5. CASE ClickConnect \/ ConnectStep \/ CleanupStarts
  BY <1>5, ClickConnectKeepsLife, ConnectStartsKeepsLife, PortOpensKeepsLife,
     ConnectedKeepsLife, ConnectFailsKeepsLife, CleanupStartsKeepsLife DEF ConnectStep
<1> QED BY <1>1, <1>2, <1>3, <1>4, <1>5, CommandsKeepLife, OthersKeepLife DEF Next

-----------------------------------------------------------------------------
(* The port.                                                               *)

PortTypes == port \in 0 .. opened /\ {connected, disconnecting, dtr} \subseteq BOOLEAN

\* With a patient user lifecycleQueue holds one disconnect at most, and a connect
\* behind it.
PortInv ==
  /\ Len(lifecycle) <= 2
  /\ Len(lifecycle) = 2 => lifecycle[1].kind = "Disconnect" /\ lifecycle[2].kind = "Connect"
  /\ connected => lifecycle = <<>>
  /\ connected <=> current # 0
  /\ "Connect" \in buttons => ~connected
  /\ phase = "Signalling" => port = opened
  /\ port # 0 => \/ port = current
                 \/ phase = "Signalling"
                 \/ port \in cleaned
                 \/ Leaving(port)

\* The port is one that was opened.
LEMMA NextKeepsPortTypes ==
  ASSUME LifeInv, PortTypes, [Next]_vars
  PROVE  PortTypes'
<1>1. opened \in Nat /\ port \in 0 .. opened
      /\ connected \in BOOLEAN /\ disconnecting \in BOOLEAN /\ dtr \in BOOLEAN
  BY DEF LifeInv, LifeTypes, Session, PortTypes
<1> DEFINE Opened == \/ UNCHANGED <<opened, port>>
                     \/ opened' = opened /\ port' = 0
                     \/ opened' = opened + 1 /\ port' = opened + 1
           Flags == /\ connected' \in BOOLEAN
                    /\ disconnecting' \in BOOLEAN
                    /\ dtr' \in BOOLEAN
<1>2. CASE PortOpens
  <2>1. Opened
    BY <1>2 DEF PortOpens
  <2>2. Flags
    BY <1>1, <1>2 DEF PortOpens
  <2> QED BY <1>1, <2>1, <2>2 DEF PortTypes
<1>3. CASE ConnectFails
  <2>1. Opened
    BY <1>3 DEF ConnectFails
  <2>2. Flags
    BY <1>1, <1>3 DEF ConnectFails
  <2> QED BY <1>1, <2>1, <2>2 DEF PortTypes
<1>4. CASE CleanupStep \/ CleanupTimesOut
  <2>1. Opened
    BY <1>4 DEF CleanupStep, CleanupTimesOut, NextCleanup
  <2>2. Flags
    <3>1. dtr' \in BOOLEAN
      BY <1>1, <1>4 DEF CleanupStep, CleanupTimesOut
    <3>2. connected' \in BOOLEAN /\ disconnecting' \in BOOLEAN
      BY <1>1, <1>4 DEF CleanupStep, CleanupTimesOut, NextCleanup, DisconnectEnds
    <3> QED BY <3>1, <3>2
  <2> QED BY <1>1, <2>1, <2>2 DEF PortTypes
<1>5. CASE Connected
  <2>1. Opened
    BY <1>5 DEF Connected
  <2>2. Flags
    BY <1>1, <1>5 DEF Connected
  <2> QED BY <1>1, <2>1, <2>2 DEF PortTypes
<1>6. CASE ClickDisconnect \/ PhysicalDisconnect
  <2>1. Opened
    BY <1>6 DEF ClickDisconnect, PhysicalDisconnect, portVars
  <2>2. Flags
    BY <1>1, <1>6 DEF ClickDisconnect, PhysicalDisconnect, Disconnect, Detach, portVars
  <2> QED BY <1>1, <2>1, <2>2 DEF PortTypes
<1>7. ASSUME UNCHANGED <<portVars, connected, disconnecting>> PROVE PortTypes'
  BY <1>7 DEF PortTypes, portVars
<1>8. CASE ClickConnect \/ ConnectStarts \/ PortChosen \/ ToggleArm \/ CleanupStarts \/ Heartbeat
           \/ UNCHANGED vars
  BY <1>7, <1>8 DEF ClickConnect, ConnectStarts, PortChosen, ToggleArm, CleanupStarts,
     Heartbeat, vars, portVars, lifeVars
<1>9. CASE \E c \in Call : Send(c) \/ SendOnce(c) \/ Timer(c) \/ AcceptFrame(c)
  BY <1>7, <1>9 DEF Send, SendOnce, Timer, ResponseTimeout, RetryTimeout, AcceptFrame, lifeVars
<1>10. CASE \E s \in Session : WriteSettles(s)
  BY <1>7, <1>10 DEF WriteSettles, lifeVars
<1> QED BY <1>2, <1>3, <1>4, <1>5, <1>6, <1>8, <1>9, <1>10 DEF Next, ConnectStep

\* Nothing happens to the port.
LEMMA PortIsKept ==
  ASSUME PortInv, UNCHANGED <<current, connected, lifecycle, opened, port>>,
         cleaned \subseteq cleaned',
         phase' = phase \/ (phase # "Signalling" /\ phase' # "Signalling"),
         buttons' \subseteq buttons \/ buttons' = Enabled(connected)
  PROVE  PortInv'
<1>1. \A s : Leaving(s)' <=> Leaving(s)
  BY DEF Leaving
<1>2. "Connect" \in buttons' => ~connected'
  BY DEF PortInv, Enabled
<1>3. /\ Len(lifecycle') <= 2
      /\ Len(lifecycle') = 2 => lifecycle'[1].kind = "Disconnect" /\ lifecycle'[2].kind = "Connect"
      /\ connected' => lifecycle' = <<>>
      /\ connected' <=> current' # 0
  BY DEF PortInv
<1>4. phase' = "Signalling" => port' = opened'
  BY DEF PortInv
<1>5. port' # 0 => \/ port' = current'
                   \/ phase' = "Signalling"
                   \/ port' \in cleaned'
                   \/ Leaving(port)'
  BY <1>1 DEF PortInv
<1> QED BY <1>2, <1>3, <1>4, <1>5 DEF PortInv

\* A patient user has one connect under way at most.
LEMMA ClickConnectKeepsPort ==
  ASSUME PatientUser, LifeInv, PortInv, ClickConnect
  PROVE  PortInv'
<1> DEFINE n == Len(lifecycle)
           op == [kind |-> "Connect", session |-> 0]
<1>1. /\ UNCHANGED <<current, connected, opened, port, cleaned, phase>> /\ buttons' = {}
      /\ lifecycle' = Append(lifecycle, op)
      /\ \A k \in DOMAIN lifecycle : lifecycle[k].kind # "Connect"
      /\ ~connected
  BY DEF ClickConnect, portVars, PortInv
<1>2. op \in Operation /\ op.kind = "Connect"
  BY DEF Operation
<1> HIDE DEF op
<1>3. /\ n \in Nat /\ DOMAIN lifecycle = 1 .. n
      /\ n <= 2 /\ (n = 2 => lifecycle[2].kind = "Connect")
  BY LifecycleFacts DEF LifeInv, PortInv
<1>4. /\ Len(lifecycle') = n + 1
      /\ lifecycle'[n + 1] = op
      /\ \A k \in DOMAIN lifecycle : k \in DOMAIN lifecycle' /\ lifecycle'[k] = lifecycle[k]
  BY <1>1, <1>2, OperationAppended DEF LifeInv
<1>5. \A k \in DOMAIN lifecycle : lifecycle[k].kind \in {"Connect", "Disconnect"}
  BY LifecycleFacts DEF LifeInv
<1> HIDE DEF n
<1>6. n = 0 \/ n = 1
  BY <1>1, <1>3
<1>7. n = 1 => lifecycle'[1].kind = "Disconnect" /\ lifecycle'[2].kind = "Connect"
  <2>1. n = 1 => 1 \in DOMAIN lifecycle
    BY <1>3
  <2> QED BY <1>1, <1>2, <1>4, <1>5, <2>1
<1>8. Len(lifecycle') <= 2 /\ (Len(lifecycle') = 2 => n = 1)
  BY <1>4, <1>6
<1>9. \A s : Leaving(s) => Leaving(s)'
  BY <1>4 DEF Leaving
<1>10. ~connected' /\ (connected' <=> current' # 0)
  BY <1>1 DEF PortInv
<1>11. port' # 0 => \/ port' = current'
                    \/ phase' = "Signalling"
                    \/ port' \in cleaned'
                    \/ Leaving(port)'
  BY <1>1, <1>9 DEF PortInv
<1>12. phase' = "Signalling" => port' = opened'
  BY <1>1 DEF PortInv
<1> QED BY <1>1, <1>7, <1>8, <1>10, <1>11, <1>12 DEF PortInv

\* What is left of lifecycleQueue when its head is done.
LEMMA OneIsLeft ==
  ASSUME LifeInv, PortInv, lifecycle # <<>>, EndTransition
  PROVE  /\ lifecycle' \in Seq(Operation) /\ Len(lifecycle') <= 1
         /\ lifecycle[1].kind = "Connect" => /\ lifecycle' = <<>>
                                             /\ \A s : ~Leaving(s)
         /\ ~connected /\ current = 0
<1> DEFINE n == Len(lifecycle)
<1>1. lifecycle' \in Seq(Operation) /\ Len(lifecycle') = n - 1
      /\ (Len(lifecycle') = 0 => lifecycle' = <<>>)
  BY OperationEnded, EmptySeq DEF EndTransition, LifeInv
<1>2. /\ n \in Nat /\ DOMAIN lifecycle = 1 .. n /\ 1 \in DOMAIN lifecycle
      /\ n <= 2 /\ (n = 2 => lifecycle[1].kind = "Disconnect")
  BY LifecycleFacts DEF LifeInv, PortInv
<1> HIDE DEF n
<1>3. n = 1 \/ n = 2
  BY <1>2
<1>4. Len(lifecycle') <= 1 /\ (n = 1 => lifecycle' = <<>>)
  BY <1>1, <1>3
<1>5. ~connected /\ current = 0
  BY DEF PortInv
<1>6. ASSUME lifecycle[1].kind = "Connect" PROVE lifecycle' = <<>> /\ \A s : ~Leaving(s)
  <2>1. n = 1
    BY <1>2, <1>3, <1>6
  <2>2. \A k \in DOMAIN lifecycle : k = 1
    BY <1>2, <2>1
  <2> QED BY <1>4, <1>6, <2>1, <2>2 DEF Leaving
<1> QED BY <1>1, <1>4, <1>5, <1>6

\* Connecting opens the port, makes its session the current one, or closes it again.
LEMMA ConnectStepKeepsPort ==
  ASSUME LifeInv, PortInv, ConnectStep
  PROVE  PortInv'
<1>1. CASE ConnectStarts \/ PortChosen
  <2>1. /\ UNCHANGED <<current, connected, lifecycle, opened, port, cleaned, buttons>>
        /\ phase # "Signalling" /\ phase' # "Signalling"
    BY <1>1 DEF ConnectStarts, PortChosen, IsAt, GoesTo, portVars
  <2> QED BY <2>1, PortIsKept
<1>2. CASE PortOpens
  <2>1. /\ UNCHANGED <<current, connected, lifecycle, cleaned, buttons>>
        /\ port' = opened' /\ phase' = "Signalling"
    BY <1>2 DEF PortOpens, IsAt, GoesTo
  <2> QED BY <2>1 DEF PortInv
<1>3. CASE Connected
  <2>1. /\ lifecycle # <<>> /\ lifecycle[1].kind = "Connect" /\ phase = "Signalling"
        /\ EndTransition /\ UNCHANGED <<opened, port>>
        /\ current' = opened /\ connected' = TRUE /\ buttons' = {"Disconnect"}
    BY <1>3 DEF Connected, IsAt, Enabled
  <2>2. lifecycle' = <<>> /\ phase' = "Waiting"
    BY <2>1, OneIsLeft DEF EndTransition
  <2>3. port' = current' /\ current' # 0
    BY <2>1 DEF PortInv, LifeInv, Sessions
  <2>4. Len(lifecycle') = 0
    BY <2>2
  <2> QED BY <2>1, <2>2, <2>3, <2>4 DEF PortInv
<1>4. CASE ConnectFails
  <2>1. /\ lifecycle # <<>> /\ lifecycle[1].kind = "Connect"
        /\ EndTransition /\ current' = 0 /\ connected' = FALSE /\ cleaned \subseteq cleaned'
        /\ IF phase = "Signalling" THEN port' = 0 ELSE port' = port
    BY <1>4 DEF ConnectFails
  <2>2. /\ lifecycle' = <<>> /\ phase' = "Waiting" /\ current = 0
        /\ \A s : ~Leaving(s)
    BY <2>1, OneIsLeft DEF EndTransition
  <2>3. port' = 0 \/ port' \in cleaned'
    BY <2>1, <2>2 DEF PortInv
  <2>4. Len(lifecycle') = 0
    BY <2>2
  <2> QED BY <2>1, <2>2, <2>3, <2>4 DEF PortInv
<1> QED BY <1>1, <1>2, <1>3, <1>4 DEF ConnectStep

\* What was captured waits, so the port is not forgotten.
LEMMA DisconnectKeepsPort ==
  ASSUME LifeInv, PortInv, ClickDisconnect \/ PhysicalDisconnect
  PROVE  PortInv'
<1>1. /\ Disconnect /\ UNCHANGED <<phase, opened, port, cleaned>>
      /\ connected \/ disconnecting
      /\ disconnecting => buttons' \subseteq buttons
  BY DEF ClickDisconnect, PhysicalDisconnect, portVars, LifeInv, Buttons
<1>2. CASE disconnecting
  <2>1. UNCHANGED <<current, connected, lifecycle>>
    BY <1>1, <1>2 DEF Disconnect
  <2> QED BY <1>1, <1>2, <2>1, PortIsKept
<1>3. CASE ~disconnecting
  <2>1. connected /\ lifecycle = <<>> /\ current \in Session /\ current # 0
    BY <1>1, <1>3 DEF PortInv, LifeInv, LifeTypes
  <2>2. /\ lifecycle' = Append(lifecycle, [kind |-> "Disconnect", session |-> current])
        /\ current' = 0 /\ connected' = FALSE /\ disconnecting' = TRUE
    BY <1>1, <1>3 DEF Disconnect, Detach
  <2>3. \A s : s = current => Leaving(s)'
    BY <1>1, <1>3, <2>1, <2>2, DisconnectWaits DEF LifeInv
  <2>4. Len(lifecycle') = 1
    BY <2>1, <2>2
  <2>5. \A k \in DOMAIN lifecycle : FALSE
    BY <2>1
  <2>6. port # 0 => port = current \/ phase = "Signalling" \/ port \in cleaned
    BY <2>5 DEF PortInv, Leaving
  <2>7. port' # 0 => \/ port' = current'
                     \/ phase' = "Signalling"
                     \/ port' \in cleaned'
                     \/ Leaving(port)'
    BY <1>1, <2>3, <2>6
  <2>8. phase' = "Signalling" => port' = opened'
    BY <1>1 DEF PortInv
  <2> QED BY <2>2, <2>4, <2>7, <2>8 DEF PortInv
<1> QED BY <1>2, <1>3

\* A cleanup that ends has cleaned up the session it captured.
LEMMA CleanupKeepsPort ==
  ASSUME LifeInv, PortInv, CleanupStarts \/ CleanupStep \/ CleanupTimesOut
  PROVE  PortInv'
<1>1. CASE CleanupStarts
  <2>1. /\ UNCHANGED <<current, connected, lifecycle, opened, port, cleaned, buttons>>
        /\ phase # "Signalling" /\ phase' # "Signalling"
    BY <1>1 DEF CleanupStarts, IsAt, GoesTo, portVars
  <2> QED BY <2>1, PortIsKept
<1>2. CASE CleanupStep \/ CleanupTimesOut
  <2>1. IsCleaning /\ NextCleanup /\ port' \in {port, 0}
        /\ (phase # "Close" => port' = port)
    BY <1>2 DEF CleanupStep, CleanupTimesOut
  <2>2. phase \in CleanupPhase /\ lifecycle # <<>> /\ lifecycle[1].kind = "Disconnect"
        /\ phase # "Signalling"
    BY <2>1, CleanupFacts DEF IsCleaning, LifeInv, Shape, CleanupPhase
  <2>3. CASE phase = "Close"
    <3>1. /\ EndTransition /\ connected' = FALSE /\ current' = current
          /\ cleaned' = cleaned \cup {lifecycle[1].session}
      BY <2>1, <2>3 DEF NextCleanup, DisconnectEnds
    <3>2. Len(lifecycle') <= 1 /\ current = 0 /\ phase' = "Waiting"
      BY <2>2, <3>1, OneIsLeft DEF EndTransition
    <3>3. 1 \in DOMAIN lifecycle
      BY <2>2, LifecycleFacts DEF LifeInv
    <3>4. ASSUME NEW s, Leaving(s) PROVE s = lifecycle[1].session
      BY <2>2, <3>3, <3>4 DEF Leaving, LifeInv, Shape
    <3>5. port' # 0 => port' \in cleaned'
      BY <2>1, <2>2, <3>1, <3>2, <3>4 DEF PortInv
    <3>6. Len(lifecycle') <= 2 /\ Len(lifecycle') # 2
      <4>1. lifecycle' \in Seq(Operation)
        BY <2>2, <3>1, OneIsLeft
      <4> DEFINE n == Len(lifecycle')
      <4>2. n \in Nat /\ n <= 1
        BY <3>2, <4>1, LenProperties
      <4> HIDE DEF n
      <4>3. n <= 2 /\ n # 2
        BY <4>2
      <4> QED BY <4>3 DEF n
    <3> QED BY <3>1, <3>2, <3>5, <3>6 DEF PortInv
  <2>4. CASE phase # "Close"
    <3> DEFINE k == CHOOSE i \in DOMAIN CleanupOrder : CleanupOrder[i] = phase
    <3>1. GoesTo(CleanupOrder[k + 1]) /\ UNCHANGED <<current, opened, connected, buttons, cleaned>>
      BY <2>1, <2>4 DEF NextCleanup
    <3>2. k \in DOMAIN CleanupOrder /\ CleanupOrder[k] = phase
      <4>1. \E i \in DOMAIN CleanupOrder : CleanupOrder[i] = phase
        BY <2>1 DEF IsCleaning, ToSet
      <4> QED BY <4>1
    <3> HIDE DEF k
    <3>3. phase' \in CleanupPhase /\ UNCHANGED lifecycle
      BY <2>4, <3>1, <3>2, CleanupFacts DEF GoesTo
    <3>4. phase' # "Signalling"
      BY <3>3 DEF CleanupPhase
    <3> QED BY <2>1, <2>2, <2>4, <3>1, <3>3, <3>4, PortIsKept
  <2> QED BY <2>3, <2>4
<1> QED BY <1>1, <1>2

\* Every step accounts for the port.
LEMMA NextKeepsPort ==
  ASSUME PatientUser, LifeInv, PortInv, [Next]_vars
  PROVE  PortInv'
<1> DEFINE Kept == /\ UNCHANGED <<current, connected, lifecycle, opened, port, cleaned, phase>>
                   /\ buttons' \subseteq buttons \/ buttons' = Enabled(connected)
<1>1. Kept => PortInv'
  BY PortIsKept
<1>2. CASE ToggleArm \/ Heartbeat \/ UNCHANGED vars
  <2>1. Kept
    BY <1>2 DEF ToggleArm, Heartbeat, vars, portVars, lifeVars
  <2> QED BY <1>1, <2>1
<1>3. ASSUME NEW c \in Call, Send(c) \/ SendOnce(c) \/ Timer(c) \/ AcceptFrame(c)
      PROVE  PortInv'
  <2>1. UNCHANGED <<current, connected, lifecycle, opened, port, cleaned, phase>>
    BY <1>3 DEF Send, SendOnce, Timer, ResponseTimeout, RetryTimeout, AcceptFrame, portVars, lifeVars
  <2>2. buttons' \subseteq buttons \/ buttons' = Enabled(connected)
    BY <1>3 DEF Send, SendOnce, Timer, ResponseTimeout, RetryTimeout, RetryNow, AcceptFrame
  <2> QED BY <1>1, <2>1, <2>2
<1>4. ASSUME NEW s \in Session, WriteSettles(s) PROVE PortInv'
  <2>1. UNCHANGED <<current, connected, lifecycle, opened, port, cleaned, phase>>
    BY <1>4 DEF WriteSettles, portVars, lifeVars
  <2>2. buttons' \subseteq buttons \/ buttons' = Enabled(connected)
    BY <1>4 DEF WriteSettles
  <2> QED BY <1>1, <2>1, <2>2
<1> QED BY <1>2, <1>3, <1>4, ClickConnectKeepsPort, ConnectStepKeepsPort, DisconnectKeepsPort,
           CleanupKeepsPort DEF Next

-----------------------------------------------------------------------------
(* STOP_ALL and the signals.                                               *)

\* A session is left with its port open and DTR up until its cleanup has lowered it; and
\* STOP_ALL is allowed to the session whose cleanup waits for it.
SignalInv ==
  /\ connected => port = current /\ dtr
  /\ phase # "Close" => \A s : Leaving(s) => port = s /\ dtr
  /\ \A s \in allowStop : phase = "Stop" /\ lifecycle[1].session = s

\* Nothing happens to the signals.
LEMMA SignalsAreKept ==
  ASSUME SignalInv, UNCHANGED <<current, connected, lifecycle, phase, port, dtr, allowStop>>
  PROVE  SignalInv'
<1>1. \A s : Leaving(s)' <=> Leaving(s)
  BY DEF Leaving
<1> QED BY <1>1 DEF SignalInv

\* Only a session with DTR up becomes the current one.
LEMMA ConnectStepKeepsSignals ==
  ASSUME LifeInv, PortInv, SignalInv, ConnectStep
  PROVE  SignalInv'
<1>1. lifecycle # <<>> /\ lifecycle[1].kind = "Connect" /\ phase \notin {"Stop", "Close"}
  BY DEF ConnectStep, ConnectStarts, PortChosen, PortOpens, Connected, ConnectFails, IsAt
<1>2. allowStop' = {}
  <2>1. allowStop' = allowStop
    BY DEF ConnectStep, ConnectStarts, PortChosen, PortOpens, Connected, ConnectFails, writeVars
  <2> QED BY <1>1, <2>1 DEF SignalInv
<1>3. \A s : ~Leaving(s)
  <2> DEFINE n == Len(lifecycle)
  <2>1. n \in Nat /\ DOMAIN lifecycle = 1 .. n /\ n <= 2 /\ n # 2
    BY <1>1, LifecycleFacts DEF LifeInv, PortInv
  <2> HIDE DEF n
  <2>2. \A k \in DOMAIN lifecycle : k = 1
    BY <2>1
  <2> QED BY <1>1, <2>2 DEF Leaving
<1>4. ~connected
  BY <1>1 DEF PortInv
<1>5. CASE ConnectStarts \/ PortChosen \/ PortOpens
  <2>1. UNCHANGED <<lifecycle, connected>>
    BY <1>5 DEF ConnectStarts, PortChosen, PortOpens, GoesTo
  <2>2. \A s : ~Leaving(s)'
    BY <1>3, <2>1 DEF Leaving
  <2> QED BY <1>2, <1>4, <2>1, <2>2 DEF SignalInv
<1>6. CASE Connected \/ ConnectFails
  <2>1. EndTransition
    BY <1>6 DEF Connected, ConnectFails
  <2>2. lifecycle' = <<>>
    BY <1>1, <2>1, OneIsLeft
  <2>3. \A s : ~Leaving(s)'
    BY <2>2 DEF Leaving
  <2>4. connected' => port' = current' /\ dtr'
    BY <1>6 DEF Connected, ConnectFails, IsAt, PortInv
  <2> QED BY <1>2, <2>3, <2>4 DEF SignalInv
<1> QED BY <1>5, <1>6 DEF ConnectStep

\* A click goes behind what is under way; a session is left with its DTR up.
LEMMA ClicksKeepSignals ==
  ASSUME LifeInv, PortInv, SignalInv, ClickConnect \/ ClickDisconnect \/ PhysicalDisconnect
  PROVE  SignalInv'
<1>1. UNCHANGED <<port, dtr, phase, allowStop>>
  BY DEF ClickConnect, ClickDisconnect, PhysicalDisconnect, portVars, writeVars
<1>2. CASE UNCHANGED <<current, connected, lifecycle>>
  BY <1>1, <1>2, SignalsAreKept
<1>3. ASSUME NEW op \in Operation, lifecycle' = Append(lifecycle, op)
      PROVE  /\ \A s : Leaving(s)' => \/ Leaving(s)
                                      \/ op.kind = "Disconnect" /\ op.session = s
             /\ \A s \in allowStop' : phase' = "Stop" /\ lifecycle'[1].session = s
  <2>1. \A s : Leaving(s)' => \/ Leaving(s)
                              \/ op.kind = "Disconnect" /\ op.session = s
    BY <1>3, OperationAppended DEF LifeInv, Leaving
  <2>2. ASSUME NEW s \in allowStop PROVE phase' = "Stop" /\ lifecycle'[1].session = s
    <3>1. phase = "Stop" /\ lifecycle[1].session = s
      BY DEF SignalInv
    <3>2. lifecycle # <<>>
      BY <3>1 DEF LifeInv, Shape
    <3> QED BY <1>1, <1>3, <3>1, <3>2, OperationAppended DEF LifeInv
  <2> QED BY <1>1, <2>1, <2>2
<1>4. CASE ClickConnect
  <2> DEFINE op == [kind |-> "Connect", session |-> 0]
  <2>1. /\ op \in Operation /\ op.kind = "Connect"
        /\ lifecycle' = Append(lifecycle, op) /\ UNCHANGED <<current, connected>>
    BY <1>4 DEF Operation, ClickConnect
  <2> HIDE DEF op
  <2> QED BY <1>1, <1>3, <2>1 DEF SignalInv
<1>5. CASE (ClickDisconnect \/ PhysicalDisconnect) /\ ~disconnecting
  <2> DEFINE op == [kind |-> "Disconnect", session |-> current]
  <2>1. connected
    BY <1>5 DEF ClickDisconnect, PhysicalDisconnect, LifeInv, Buttons
  <2>2. lifecycle' = Append(lifecycle, op) /\ connected' = FALSE
    BY <1>5 DEF ClickDisconnect, PhysicalDisconnect, Disconnect, Detach
  <2>3. op \in Operation /\ op.session = current
    BY <2>1 DEF LifeInv, LifeTypes, PortInv, Operation
  <2> HIDE DEF op
  <2>4. port = current /\ dtr
    BY <2>1 DEF SignalInv
  <2> QED BY <1>1, <1>3, <2>2, <2>3, <2>4 DEF SignalInv
<1>6. CASE (ClickDisconnect \/ PhysicalDisconnect) /\ disconnecting
  <2>1. UNCHANGED <<current, connected, lifecycle>>
    BY <1>6 DEF ClickDisconnect, PhysicalDisconnect, Disconnect
  <2> QED BY <1>2, <2>1
<1> QED BY <1>4, <1>5, <1>6

\* DTR is lowered before the port is closed, and STOP_ALL is given up before either.
LEMMA CleanupKeepsSignals ==
  ASSUME LifeInv, PortInv, SignalInv, CleanupStarts \/ CleanupStep \/ CleanupTimesOut
  PROVE  SignalInv'
<1>1. CASE CleanupStarts
  <2>1. /\ UNCHANGED <<current, connected, lifecycle, port, dtr>>
        /\ allowStop' = allowStop \cup {lifecycle[1].session}
        /\ phase = "Waiting" /\ phase' = "Stop"
    BY <1>1 DEF CleanupStarts, IsAt, GoesTo, portVars
  <2>2. \A s : Leaving(s)' <=> Leaving(s)
    BY <2>1 DEF Leaving
  <2>3. allowStop = {}
    BY <2>1 DEF SignalInv
  <2> QED BY <2>1, <2>2, <2>3 DEF SignalInv
<1>2. CASE CleanupStep \/ CleanupTimesOut
  <2>1. /\ IsCleaning /\ NextCleanup
        /\ phase \notin {"Close", "Lower"} => port' = port /\ (dtr => dtr')
    <3>1. CASE CleanupStep
      <4>1. /\ IsCleaning /\ NextCleanup
            /\ phase # "Close" => port' = port
        BY <3>1 DEF CleanupStep
      <4>2. phase # "Lower" => (dtr => dtr')
        BY <3>1, Zenon DEF CleanupStep
      <4> QED BY <4>1, <4>2
    <3>2. CASE CleanupTimesOut
      BY <3>2 DEF CleanupTimesOut
    <3> QED BY <1>2, <3>1, <3>2
  <2>2. phase \in CleanupPhase /\ lifecycle # <<>> /\ lifecycle[1].kind = "Disconnect"
    BY <2>1, CleanupFacts DEF IsCleaning, LifeInv, Shape
  <2>3. allowStop' = {}
    BY <2>1 DEF NextCleanup, SignalInv
  <2>4. CASE phase = "Close"
    <3>1. EndTransition /\ disconnecting' = FALSE /\ connected' = FALSE
      BY <2>1, <2>4 DEF NextCleanup, DisconnectEnds
    <3>2. \A s : ~Leaving(s)'
      BY <2>2, <2>4, <3>1, DisconnectIsOver DEF LifeInv
    <3> QED BY <2>3, <3>1, <3>2 DEF SignalInv
  <2>5. CASE phase # "Close"
    <3> DEFINE k == CHOOSE i \in DOMAIN CleanupOrder : CleanupOrder[i] = phase
    <3>1. GoesTo(CleanupOrder[k + 1]) /\ UNCHANGED <<current, connected>>
      BY <2>1, <2>5 DEF NextCleanup
    <3>2. k \in DOMAIN CleanupOrder /\ CleanupOrder[k] = phase
      <4>1. \E i \in DOMAIN CleanupOrder : CleanupOrder[i] = phase
        BY <2>1 DEF IsCleaning, ToSet
      <4> QED BY <4>1
    <3> HIDE DEF k
    <3>3. phase = "Lower" => phase' = "Close"
      BY <3>1, <3>2, CleanupFacts DEF GoesTo
    <3>4. \A s : Leaving(s)' <=> Leaving(s)
      BY <3>1 DEF GoesTo, Leaving
    <3>5. ~connected
      BY <2>2 DEF PortInv
    <3>6. ASSUME phase' # "Close", NEW s, Leaving(s)' PROVE port' = s /\ dtr'
      BY <2>1, <2>5, <3>3, <3>4, <3>6 DEF SignalInv
    <3> QED BY <2>3, <3>1, <3>5, <3>6 DEF SignalInv
  <2> QED BY <2>4, <2>5
<1> QED BY <1>1, <1>2

\* Every step keeps the signals up while a STOP_ALL may be written.
LEMMA NextKeepsSignals ==
  ASSUME LifeInv, PortInv, SignalInv, [Next]_vars
  PROVE  SignalInv'
<1> DEFINE Kept == UNCHANGED <<current, connected, lifecycle, phase, port, dtr, allowStop>>
<1>1. CASE ToggleArm \/ Heartbeat \/ UNCHANGED vars
  <2>1. Kept
    BY <1>1 DEF ToggleArm, Heartbeat, vars, portVars, lifeVars, writeVars
  <2> QED BY <2>1, SignalsAreKept
<1>2. CASE \E c \in Call : Send(c) \/ SendOnce(c) \/ Timer(c) \/ AcceptFrame(c)
  <2>1. Kept
    BY <1>2 DEF Send, SendOnce, Timer, ResponseTimeout, RetryTimeout, AcceptFrame, portVars,
       lifeVars, writeVars
  <2> QED BY <2>1, SignalsAreKept
<1>3. CASE \E s \in Session : WriteSettles(s)
  <2>1. Kept
    BY <1>3 DEF WriteSettles, portVars, lifeVars
  <2> QED BY <2>1, SignalsAreKept
<1> QED BY <1>1, <1>2, <1>3, ConnectStepKeepsSignals, ClicksKeepSignals, CleanupKeepsSignals
    DEF Next

\* A STOP_ALL that is begun has its disconnect waiting, and its port open with DTR up.
LEMMA StopBeginsInTime ==
  ASSUME LifeInv, SignalInv, [Next]_vars, NEW s \in stopped', s \notin stopped
  PROVE  phase' = "Stop" /\ lifecycle'[1].session = s /\ port = s /\ dtr
<1>1. CASE CleanupStarts
  <2>1. /\ s = lifecycle[1].session /\ lifecycle # <<>> /\ lifecycle[1].kind = "Disconnect"
        /\ phase = "Waiting" /\ phase' = "Stop" /\ lifecycle' = lifecycle
    BY <1>1 DEF CleanupStarts, IsAt, GoesTo
  <2>2. Leaving(s)
    BY <2>1, LifecycleFacts DEF LifeInv, Leaving
  <2> QED BY <2>1, <2>2 DEF SignalInv
<1>2. CASE \E t \in Session : WriteSettles(t)
  <2>1. s \in allowStop /\ UNCHANGED <<lifecycle, phase>>
    BY <1>2 DEF WriteSettles, lifeVars
  <2>2. phase = "Stop" /\ lifecycle[1].session = s
    BY <2>1 DEF SignalInv
  <2>3. lifecycle # <<>> /\ lifecycle[1].kind = "Disconnect"
    BY <2>2 DEF LifeInv, Shape, CleanupPhase
  <2>4. Leaving(s)
    BY <2>2, <2>3, LifecycleFacts DEF LifeInv, Leaving
  <2> QED BY <2>1, <2>2, <2>4 DEF SignalInv
<1>3. CASE ClickConnect \/ ClickDisconnect \/ PhysicalDisconnect \/ ToggleArm \/ ConnectStep
           \/ CleanupStep \/ CleanupTimesOut \/ Heartbeat \/ UNCHANGED vars
  <2>1. stopped' = stopped
    BY <1>3 DEF ClickConnect, ClickDisconnect, PhysicalDisconnect, ToggleArm, ConnectStep,
       ConnectStarts, PortChosen, PortOpens, Connected, ConnectFails, CleanupStep,
       CleanupTimesOut, NextCleanup, Heartbeat, vars, writeVars
  <2> QED BY <2>1
<1>4. CASE \E c \in Call : Send(c) \/ SendOnce(c) \/ Timer(c) \/ AcceptFrame(c)
  <2>1. stopped' = stopped
    BY <1>4 DEF Send, SendOnce, Timer, ResponseTimeout, RetryTimeout, AcceptFrame, writeVars
  <2> QED BY <2>1
<1> QED BY <1>1, <1>2, <1>3, <1>4 DEF Next

-----------------------------------------------------------------------------
(* The page.                                                               *)

WebInv == QueueType /\ CallInv /\ LifeInv /\ PortTypes

LEMMA WebInvHolds == Spec => []WebInv
<1>1. Init => WebInv
  <2> SUFFICES ASSUME Init PROVE WebInv
    OBVIOUS
  <2>1. QueueType /\ \A s \in Session : \A item : Places(s, item) = {}
    BY EmptySeq DEF Init, QueueType, Places, At
  <2>2. CallInv
    <3>1. ASSUME NEW c \in Call
          PROVE  calls[c] \in CallRecord /\ Sound(calls[c])
      BY RetryFacts DEF Init, CallRecord, CallState, Sound
    <3>2. ASSUME NEW c \in Call, NEW s \in Session PROVE Counted(c, s)
      <4>1. Places(s, c) = {} /\ Cardinality({}) = 0
        BY <2>1, FS_EmptySet
      <4>2. calls[c].response = 0 /\ calls[c].attempts = 0
        BY DEF Init
      <4> QED BY <4>1, <4>2 DEF Counted
    <3>3. calls \in [Call -> CallRecord]
      BY <3>1 DEF Init
    <3> QED BY <3>1, <3>2, <3>3 DEF CallInv
  <2>3. \A s : ~Leaving(s)
    BY DEF Init, Leaving
  <2>4. \A s \in Session : ~Stopping(s)
    BY <2>1 DEF Init, Stopping
  <2>5. LifeTypes
    BY EmptySeq DEF Init, LifeTypes, Phase
  <2>6. Shape
    BY DEF Init, Shape, ConnectPhase, CleanupPhase
  <2>7. Sessions
    BY <2>3, <2>4 DEF Init, Sessions
  <2>8. StopInv
    BY <2>1 DEF Init, StopInv
  <2>9. Buttons
    BY DEF Init, Buttons
  <2>10. PortTypes
    <3>1. connected \in BOOLEAN /\ disconnecting \in BOOLEAN /\ dtr \in BOOLEAN
      BY DEF Init
    <3>2. port \in 0 .. opened
      BY DEF Init
    <3> QED BY <3>1, <3>2 DEF PortTypes
  <2> QED BY <2>1, <2>2, <2>5, <2>6, <2>7, <2>8, <2>9, <2>10 DEF WebInv, LifeInv
<1>2. WebInv /\ [Next]_vars => WebInv'
  <2> SUFFICES ASSUME WebInv, [Next]_vars PROVE WebInv'
    OBVIOUS
  <2>1. current \in {0} \cup Session
    BY DEF WebInv, LifeInv, LifeTypes
  <2> QED BY <2>1, NextKeepsCalls, NextKeepsLife, NextKeepsPortTypes DEF WebInv
<1> QED BY <1>1, <1>2, PTL DEF Spec

\* No more attempts than retries allow, and no more timers than attempts.
LEMMA CallBounds ==
  ASSUME QueueType, CallInv
  PROVE  /\ AttemptsAreBounded
         /\ calls \in [Call -> [state: CallState, session: {0} \cup Session,
                                attempts: 0 .. Retries + 1, remaining: 0 .. Retries,
                                response: 0 .. Retries + 1, retry: 0 .. Retries + 1,
                                timer: {"None", "Response", "Retry"}]]
<1>1. ASSUME NEW c \in Call
      PROVE  /\ calls[c] \in CallRecord
             /\ calls[c].attempts <= Retries + 1
             /\ calls[c].response <= Retries + 1
             /\ calls[c].retry <= Retries + 1
  <2> DEFINE call == calls[c]
             w == Cardinality(Places(1, c))
  <2>1. 1 \in Session
    BY RetryFacts DEF Session
  <2>2. call \in CallRecord /\ call.attempts <= Retries + 1 /\ call.retry <= Retries + 1
        /\ call.response + w <= call.attempts
    BY <2>1 DEF CallInv, Sound, Counted
  <2>3. w \in Nat
    BY <2>1, PlacesAreFinite
  <2>4. call.response \in Nat /\ call.attempts \in Nat
    BY <2>2 DEF CallRecord
  <2> HIDE DEF call, w
  <2>5. call.response <= Retries + 1
    BY <2>2, <2>3, <2>4, RetryFacts
  <2> QED BY <2>2, <2>5 DEF call
<1>2. ASSUME NEW c \in Call
      PROVE  calls[c] \in [state: CallState, session: {0} \cup Session,
                           attempts: 0 .. Retries + 1, remaining: 0 .. Retries,
                           response: 0 .. Retries + 1, retry: 0 .. Retries + 1,
                           timer: {"None", "Response", "Retry"}]
  BY <1>1, RetryFacts DEF CallRecord
<1>3. calls \in [Call -> CallRecord]
  BY DEF CallInv
<1> QED BY <1>1, <1>2, <1>3 DEF AttemptsAreBounded

\* `TypeOK` holds, in particular: the timers that run are no more than the attempts,
\* and cleanups, STOP_ALLs and the port belong to sessions that were opened.
THEOREM WebClientTypes == Spec => []TypeOK
<1>1. WebInv => TypeOK
  BY CallBounds DEF WebInv, TypeOK, LifeInv, LifeTypes, PortTypes, QueueType
<1> QED BY <1>1, WebInvHolds, PTL

\* A command is written once and then at most `Retries` times, with timers that were
\* overwritten and go on, and whatever the user clicks.
THEOREM AttemptsStayBounded == Spec => []AttemptsAreBounded
<1>1. WebInv => AttemptsAreBounded
  BY CallBounds DEF WebInv
<1> QED BY <1>1, WebInvHolds, PTL

\* STOP_ALL is the last frame of its session, whatever the user and the port do.
THEOREM StopEndsTheSession == Spec => []StopIsLast
<1>1. WebInv => StopIsLast
  <2> SUFFICES ASSUME WebInv, NEW s \in stopped PROVE queue[s] \in {<<>>, <<StopFrame>>}
    BY DEF StopIsLast
  <2>1. s \in 1 .. opened /\ opened \in {0} \cup Session
    BY DEF WebInv, LifeInv, LifeTypes
  <2>2. s \in Session
    BY <2>1, RetryFacts DEF Session
  <2> QED BY <2>2 DEF WebInv, LifeInv, StopInv
<1> QED BY <1>1, WebInvHolds, PTL

\* With a patient user lifecycleQueue is short, and signals go with their session.
LEMMA PortInvHolds ==
  ASSUME PatientUser
  PROVE  Spec => [](PortInv /\ SignalInv)
<1>1. Init => PortInv /\ SignalInv
  <2> SUFFICES ASSUME Init PROVE PortInv /\ SignalInv
    OBVIOUS
  <2>1. Len(lifecycle) = 0 /\ \A s : ~Leaving(s)
    BY DEF Init, Leaving
  <2> QED BY <2>1 DEF Init, PortInv, SignalInv
<1>2. WebInv /\ PortInv /\ SignalInv /\ [Next]_vars => PortInv' /\ SignalInv'
  BY NextKeepsPort, NextKeepsSignals DEF WebInv
<1> QED BY <1>1, <1>2, WebInvHolds, PTL DEF Spec

\* With a patient user STOP_ALL is begun only while its disconnect waits for it, with the
\* port open for its session and DTR up: one that was given up behind a write that hung
\* is never begun.
THEOREM StopIsInTime ==
  ASSUME PatientUser
  PROVE  Spec => StopInTime
<1>1. WebInv /\ PortInv /\ SignalInv /\ [Next]_vars =>
        [\A s \in stopped' \ stopped :
           phase' = "Stop" /\ lifecycle'[1].session = s /\ port = s /\ dtr]_vars
  BY StopBeginsInTime DEF WebInv
<1> QED BY <1>1, WebInvHolds, PortInvHolds, PTL DEF Spec, StopInTime

\* With a patient user no port is left open and forgotten, and no command is written
\* more often than its retries allow.
THEOREM NothingIsForgotten ==
  ASSUME PatientUser
  PROVE  Spec => []WebClientInv
<1>1. WebInv /\ PortInv => WebClientInv
  <2> SUFFICES ASSUME WebInv, PortInv PROVE WebClientInv
    OBVIOUS
  <2>1. TypeOK /\ AttemptsAreBounded
    BY CallBounds DEF WebInv, TypeOK, LifeInv, LifeTypes, PortTypes, QueueType
  <2>2. NothingLeaks
    <3>1. ASSUME NEW k \in DOMAIN lifecycle, lifecycle[k].kind = "Disconnect",
                 lifecycle[k].session = port
          PROVE  lifecycle[k] = [kind |-> "Disconnect", session |-> port]
      <4>1. lifecycle[k] \in Operation
        BY <3>1, LifecycleFacts DEF WebInv, LifeInv
      <4> QED BY <3>1, <4>1 DEF Operation
    <3> QED BY <3>1 DEF PortInv, Leaving, NothingLeaks
  <2> QED BY <2>1, <2>2 DEF WebClientInv
<1> QED BY <1>1, WebInvHolds, PortInvHolds, PTL

-----------------------------------------------------------------------------
(* Script: a run of a script, from its first packet to its end.            *)

\* IsPlayed, of any text and execution.
Played(run, text, n) ==
  /\ \A k \in 1 .. Len(run) - 1 : run[k] < run[k + 1]
  /\ {run[k] : k \in DOMAIN run} = {i \in 1 .. n : text[i] # "StopAll"}

\* These packets are the commands from first to n, which begin one part of the text.
Collected(packets, text, first, n) ==
  /\ first \in 1 .. n + 1 /\ (first = 1 \/ text[first - 1] = "StopAll")
  /\ \A i \in first .. n : text[i] # "StopAll"
  /\ Len(packets) = n + 1 - first
  /\ \A k \in 1 .. Len(packets) : packets[k].place = first + k - 1

\* A batch has the commands of its part up to n, and all before it are played.
Collects(collected, text, run, n) ==
  /\ collected # None
  /\ \E first \in Nat : /\ Collected(collected.packets, text, first, n)
                        /\ Played(run, text, first - 1)

\* A packet of the plan.
IsPlanned(p, text) ==
  /\ p \in Packet /\ p.place <= Len(text)
  /\ p.type \in {"BatchBegin", "BatchEnd", text[p.place]}
  /\ p.type # "StopAll" => text[p.place] # "StopAll"
  /\ p.type = "BatchBegin" => p.place = 1 \/ text[p.place - 1] = "StopAll"
  /\ p.type = "BatchEnd" => p.place = Len(text) \/ text[p.place + 1] = "StopAll"

\* What is executed and collected when this packet is sent; or the batch was lost, and
\* with it the run, as BATCH_END will find none.
IsDue(p, text, collected, run, lost) ==
  /\ p = None => Played(run, text, Len(text))
  /\ p # None =>
       /\ p.type \in {"BatchBegin", "StopAll"} => Played(run, text, p.place - 1)
       /\ p.type \in Batched =>
            Collects(collected, text, run, p.place - 1) \/ (collected = None /\ lost)
       /\ p.type = "BatchEnd" =>
            Collects(collected, text, run, p.place) \/ (collected = None /\ lost)

SendingOnTrack == job = None /\ IsDue(packet, script, batch, executed, expiries > 0)

\* The packet is done: the next is due; or this one again, when the lease expires.
UnansweredOnTrack ==
  /\ packet # None /\ job = None
  /\ IsDue(Following(packet), script, batch, executed, expiries > 0)
  /\ IsDue(packet, script, None, executed, TRUE)

\* The job has the last commands of its part, and may outlive the run.
JobOnTrack ==
  /\ packet # None /\ packet.type = "BatchEnd"
  /\ Len(job) <= packet.place
  /\ Played(executed, script, packet.place - Len(job))
  /\ \A k \in 1 .. Len(job) : /\ job[k].place = packet.place - Len(job) + k
                              /\ script[packet.place - Len(job) + k] # "StopAll"

\* Command i is of a part that was handed over whole.
IsWhole(i, parts, text) ==
  \E b \in parts : /\ i \in b[1] .. b[2]
                   /\ \A j \in b[1] .. b[2] : text[j] # "StopAll"
                   /\ b[1] = 1 \/ text[b[1] - 1] = "StopAll"
                   /\ b[2] = Len(text) \/ text[b[2] + 1] = "StopAll"

WholeOnTrack ==
  /\ job # None => \A k \in 1 .. Len(job) : IsWhole(job[k].place, whole, script)
  /\ expiries = 0 => \A k \in 1 .. Len(executed) : IsWhole(executed[k], whole, script)

\* What is executed is a beginning of the script.
OrderOnTrack ==
  expiries = 0 => \E n \in 0 .. Len(script) : Played(executed, script, n)

\* Plan, batch, job and what was executed fit each other: wherever the runner is, what is
\* executed is what comes before it in the script, but for a run that cannot end well.
ScriptOnTrack ==
  /\ ScriptTypeOK
  /\ packet # None => IsPlanned(packet, script)
  /\ runner = "Sending" => SendingOnTrack
  /\ runner = "Unanswered" => UnansweredOnTrack
  /\ runner = "Awaiting" => job # None
  /\ job # None => JobOnTrack
  /\ runner = "Ok" => job = None /\ Played(executed, script, Len(script))
  /\ OrderOnTrack
  /\ WholeOnTrack

\* The next command is the next in the order of execution.
LEMMA PlayedOn ==
  ASSUME NEW run \in Seq(Nat), NEW text, NEW n \in Nat, Played(run, text, n)
  PROVE  /\ text[n + 1] # "StopAll" => Played(Append(run, n + 1), text, n + 1)
         /\ text[n + 1] = "StopAll" => Played(run, text, n + 1)
<1>1. \A k \in DOMAIN run : run[k] \in 1 .. n
  BY DEF Played
<1>2. 1 .. n + 1 = (1 .. n) \cup {n + 1}
  OBVIOUS
<1>3. ASSUME text[n + 1] = "StopAll" PROVE Played(run, text, n + 1)
  BY <1>2, <1>3 DEF Played
<1>4. ASSUME text[n + 1] # "StopAll" PROVE Played(Append(run, n + 1), text, n + 1)
  <2> DEFINE next == Append(run, n + 1)
             m == Len(run)
  <2>1. /\ m \in Nat /\ DOMAIN run = 1 .. m
        /\ Len(next) = m + 1 /\ DOMAIN next = 1 .. m + 1
        /\ \A k \in 1 .. m : next[k] = run[k]
        /\ next[m + 1] = n + 1
    OBVIOUS
  <2> HIDE DEF next, m
  <2>2. \A k \in 1 .. m : next[k] < next[k + 1]
    <3> SUFFICES ASSUME NEW k \in 1 .. m PROVE next[k] < next[k + 1]
      OBVIOUS
    <3>1. CASE k = m
      <4>1. next[k] \in 1 .. n /\ next[k + 1] = n + 1
        BY <1>1, <2>1, <3>1
      <4> QED BY <4>1
    <3>2. CASE k # m
      <4>1. k \in 1 .. m - 1 /\ k + 1 \in 1 .. m
        BY <2>1, <3>2
      <4>2. run[k] < run[k + 1]
        BY <4>1 DEF Played, m
      <4> QED BY <2>1, <4>1, <4>2
    <3> QED BY <3>1, <3>2
  <2>3. {next[k] : k \in DOMAIN next} = {run[k] : k \in DOMAIN run} \cup {n + 1}
    <3>1. \A k \in 1 .. m + 1 : k \in 1 .. m \/ k = m + 1
      BY <2>1
    <3>2. 1 .. m \subseteq 1 .. m + 1 /\ m + 1 \in 1 .. m + 1
      BY <2>1
    <3>3. ASSUME NEW x PROVE (\E k \in 1 .. m + 1 : x = next[k])
                             <=> (\E k \in 1 .. m : x = run[k]) \/ x = n + 1
      <4>1. (\E k \in 1 .. m : x = run[k]) => \E k \in 1 .. m + 1 : x = next[k]
        BY <2>1, <3>2
      <4> QED BY <2>1, <3>1, <3>2, <4>1
    <3> QED BY <2>1, <3>3
  <2>4. {i \in 1 .. n + 1 : text[i] # "StopAll"}
          = {i \in 1 .. n : text[i] # "StopAll"} \cup {n + 1}
    BY <1>2, <1>4
  <2>5. Len(next) - 1 = m
    BY <2>1
  <2>6. {run[k] : k \in DOMAIN run} = {i \in 1 .. n : text[i] # "StopAll"}
    BY DEF Played
  <2>7. Played(next, text, n + 1)
    BY <2>2, <2>3, <2>4, <2>5, <2>6 DEF Played
  <2> QED BY <2>7 DEF next
<1> QED BY <1>3, <1>4

\* The same seen from the place before.
LEMMA PlayedTo ==
  ASSUME NEW run \in Seq(Nat), NEW text, NEW n \in Nat \ {0}, Played(run, text, n - 1)
  PROVE  /\ text[n] # "StopAll" => Played(Append(run, n), text, n)
         /\ text[n] = "StopAll" => Played(run, text, n)
<1> DEFINE m == n - 1
<1>1. m \in Nat /\ m + 1 = n /\ Played(run, text, m)
  OBVIOUS
<1> HIDE DEF m
<1> QED BY <1>1, PlayedOn

\* The plan is a plan: what follows a packet.
LEMMA FollowingPacket ==
  ASSUME script \in Scripts, NEW p, IsPlanned(p, script)
  PROVE  LET q == Following(p)
         IN  /\ q # None => IsPlanned(q, script)
             /\ p.type = "BatchBegin" => /\ q # None /\ q.place = p.place
                                         /\ q.type \in Batched
             /\ p.type \in Batched =>
                  /\ q # None
                  /\ \/ q.type = "BatchEnd" /\ q.place = p.place
                     \/ q.type \in Batched /\ q.place = p.place + 1
             /\ p.type \in {"BatchEnd", "StopAll"} =>
                  \/ q = None /\ p.place = Len(script)
                  \/ /\ q # None /\ q.type \in {"BatchBegin", "StopAll"}
                     /\ q.place = p.place + 1
<1> DEFINE n == p.place
           q == Following(p)
<1>1. /\ script \in Seq(ScriptCommand) /\ Len(script) \in 0 .. ScriptLimit
      /\ \A i \in 1 .. Len(script) : script[i] \in ScriptCommand
  BY ScriptAssumption DEF Scripts
<1>2. /\ n \in Nat /\ n >= 1 /\ n <= Len(script) /\ Len(script) <= ScriptLimit
      /\ script[n] \in ScriptCommand
      /\ p = [type |-> p.type, place |-> n]
  BY <1>1, ScriptAssumption DEF IsPlanned, Packet
<1>3. /\ "BatchBegin" \notin ScriptCommand /\ "BatchEnd" \notin ScriptCommand
      /\ \A c : c \in Batched <=> c \in ScriptCommand /\ c # "StopAll"
  BY DEF ScriptCommand, Batched
<1>4. \A c \in ScriptCommand \cup {"BatchBegin", "BatchEnd"}, i \in 1 .. Len(script) :
        /\ [type |-> c, place |-> i] \in Packet
        /\ [type |-> c, place |-> i] # None
  BY <1>1, ScriptAssumption DEF Packet
<1>5. CASE p.type = "BatchBegin"
  <2>1. q = [type |-> script[n], place |-> n] /\ script[n] # "StopAll"
    BY <1>2, <1>5 DEF Following, IsPlanned
  <2>2. q.type = script[n] /\ q.place = n /\ q \in Packet /\ q # None
    BY <1>2, <1>4, <2>1
  <2> HIDE DEF q
  <2> QED BY <1>2, <1>3, <1>5, <2>1, <2>2 DEF IsPlanned, q
<1>6. CASE p.type \in Batched /\ EndsPart(n)
  <2>1. q = [type |-> "BatchEnd", place |-> n]
    BY <1>2, <1>3, <1>6 DEF Following
  <2>2. q.type = "BatchEnd" /\ q.place = n /\ q \in Packet /\ q # None
    BY <1>2, <1>4, <2>1
  <2>3. script[n] # "StopAll"
    BY <1>3, <1>6 DEF IsPlanned
  <2> HIDE DEF q
  <2>4. IsPlanned(q, script)
    BY <1>2, <1>6, <2>2, <2>3 DEF IsPlanned, EndsPart
  <2> QED BY <1>3, <1>6, <2>2, <2>4 DEF q
<1>7. CASE ~(p.type = "BatchBegin") /\ ~(p.type \in Batched /\ EndsPart(n))
  <2>1. q = PlannedAt(n + 1)
    BY <1>7 DEF Following
  <2> DEFINE m == n + 1
             begins == script[m] # "StopAll" /\ BeginsPart(m)
  <2>2. BeginsPart(m) <=> script[n] = "StopAll"
    BY <1>2 DEF BeginsPart
  <2>3. m \in Nat /\ m = n + 1 /\ m > 1 /\ (m > Len(script) => n = Len(script))
    BY <1>1, <1>2
  <2>4. p.type \in Batched \/ p.type \in {"BatchEnd", "StopAll"}
    BY <1>3, <1>7 DEF IsPlanned, Packet
  <2>5. CASE m > Len(script)
    <3>1. q = None
      BY <2>1, <2>5 DEF PlannedAt
    <3>2. EndsPart(n)
      BY <2>3, <2>5 DEF EndsPart
    <3> QED BY <1>3, <1>7, <2>3, <2>4, <2>5, <3>1, <3>2
  <2>6. CASE ~(m > Len(script))
    <3>1. q = [type |-> IF begins THEN "BatchBegin" ELSE script[m], place |-> m]
      BY <2>1, <2>6 DEF PlannedAt
    <3>2. m \in 1 .. Len(script) /\ script[m] \in ScriptCommand
      BY <1>1, <2>3, <2>6
    <3>3. /\ q.type = (IF begins THEN "BatchBegin" ELSE script[m]) /\ q.place = m
          /\ q \in Packet /\ q # None
      BY <1>4, <3>1, <3>2
    <3>4. IsPlanned(q, script)
      <4>1. m <= Len(script) /\ m - 1 = n
        BY <1>1, <1>2, <2>3, <2>6
      <4> HIDE DEF q, m
      <4>2. begins => script[m] # "StopAll" /\ script[m - 1] = "StopAll"
        BY <2>2, <4>1
      <4> QED BY <1>3, <3>2, <3>3, <4>1, <4>2 DEF IsPlanned
    <3>5. ~EndsPart(n) => script[m] # "StopAll" /\ n # Len(script)
      BY DEF EndsPart
    <3> HIDE DEF q
    <3>6. CASE p.type \in Batched
      <4>1. script[n] # "StopAll"
        BY <1>3, <3>6 DEF IsPlanned
      <4>2. q.type = script[m] /\ script[m] \in Batched
        BY <1>3, <1>7, <2>2, <3>2, <3>3, <3>5, <3>6, <4>1
      <4> QED BY <1>3, <3>3, <3>4, <3>6, <4>2 DEF q
    <3>7. CASE p.type = "BatchEnd"
      <4>1. script[m] = "StopAll"
        BY <2>3, <2>6, <3>7 DEF IsPlanned
      <4> QED BY <1>3, <3>3, <3>4, <3>7, <4>1 DEF q
    <3>8. CASE p.type = "StopAll"
      <4>1. script[n] = "StopAll"
        BY <3>8 DEF IsPlanned
      <4>2. q.type \in {"BatchBegin", "StopAll"}
        BY <2>2, <3>3, <4>1
      <4> QED BY <1>3, <3>3, <3>4, <3>8, <4>2 DEF q
    <3> QED BY <2>4, <3>6, <3>7, <3>8
  <2> QED BY <2>5, <2>6
<1> QED BY <1>5, <1>6, <1>7

\* One more command is in the batch.
LEMMA CollectedOn ==
  ASSUME NEW packets \in Seq(Packet), NEW text, NEW first \in Nat, NEW n \in Nat \ {0},
         Collected(packets, text, first, n - 1), NEW p \in Packet, p.place = n,
         text[n] # "StopAll"
  PROVE  Collected(Append(packets, p), text, first, n)
<1> DEFINE m == Len(packets)
           next == Append(packets, p)
           before == n - 1
<1>1. /\ m \in Nat /\ Len(next) = m + 1 /\ next[m + 1] = p
      /\ \A k \in 1 .. m : next[k] = packets[k]
  OBVIOUS
<1>2. before \in Nat /\ before + 1 = n
  OBVIOUS
<1>3. Collected(packets, text, first, before)
  OBVIOUS
<1> HIDE DEF m, next, before
<1>4. /\ first \in 1 .. before + 1 /\ (first = 1 \/ text[first - 1] = "StopAll")
      /\ \A i \in first .. before : text[i] # "StopAll"
      /\ m = before + 1 - first
      /\ \A k \in 1 .. m : packets[k].place = first + k - 1
  BY <1>3 DEF Collected, m
<1>5. m = n - first /\ first <= n /\ first \in 1 .. n + 1
  BY <1>2, <1>4
<1>6. m + 1 = n + 1 - first
  BY <1>5
<1>7. \A i \in first .. n : i \in first .. before \/ i = n
  BY <1>2
<1>8. \A k \in 1 .. m + 1 : next[k].place = first + k - 1
  <2> SUFFICES ASSUME NEW k \in 1 .. m + 1 PROVE next[k].place = first + k - 1
    OBVIOUS
  <2>1. CASE k \in 1 .. m
    BY <1>1, <1>4, <2>1
  <2>2. CASE k = m + 1
    <3>1. next[k].place = n
      BY <1>1, <2>2
    <3>2. first + k - 1 = n
      BY <1>5, <2>2
    <3> QED BY <3>1, <3>2
  <2> QED BY <1>1, <2>1, <2>2
<1>9. Collected(next, text, first, n)
  BY <1>1, <1>4, <1>5, <1>6, <1>7, <1>8 DEF Collected
<1> QED BY <1>9 DEF next

\* A packet is done, and its answer arrives or not.
LEMMA ProceedsOnPlan ==
  ASSUME ScriptOnTrack, packet # None, Proceed, script' = script, job' = None,
         expiries' = expiries,
         IsDue(Following(packet), script, batch', executed', expiries > 0),
         IsDue(packet, script, None, executed', TRUE)
  PROVE  /\ packet' \in Packet \cup {None}
         /\ packet' # None => IsPlanned(packet', script')
         /\ runner' \in {"Sending", "Unanswered"}
         /\ runner' = "Sending" => SendingOnTrack'
         /\ runner' = "Unanswered" => UnansweredOnTrack'
<1>1. IsPlanned(packet, script) /\ script \in Scripts /\ packet \in Packet
  BY DEF ScriptOnTrack, ScriptTypeOK
<1>2. Following(packet) # None => IsPlanned(Following(packet), script)
  BY <1>1, FollowingPacket
<1>3. CASE packet' = Following(packet) /\ runner' = "Sending"
  BY <1>2, <1>3 DEF IsPlanned, SendingOnTrack
<1>4. CASE packet' = packet /\ runner' = "Unanswered"
  <2>1. Following(packet)' = Following(packet)
    BY <1>4 DEF Following, PlannedAt, EndsPart, BeginsPart
  <2> QED BY <1>1, <1>4, <2>1 DEF UnansweredOnTrack
<1> QED BY <1>3, <1>4 DEF Proceed

\* What was handed over whole stays so.
LEMMA WholeKept ==
  ASSUME WholeOnTrack, UNCHANGED <<script, whole, executed>>, job' = job \/ job' = None,
         expiries' = 0 => expiries = 0
  PROVE  WholeOnTrack'
BY DEF WholeOnTrack

LEMMA OrderKept ==
  ASSUME OrderOnTrack, UNCHANGED <<script, executed>>, expiries' = 0 => expiries = 0
  PROVE  OrderOnTrack'
BY DEF OrderOnTrack

\* Where numbers come from.
LEMMA ScriptNumbers ==
  ASSUME ScriptOnTrack
  PROVE  /\ executed \in Seq(Nat) /\ script \in Scripts
         /\ packet # None => /\ packet \in Packet /\ packet.place \in Nat \ {0}
                             /\ packet.place \in 1 .. ScriptLimit
                             /\ IsPlanned(packet, script)
<1>1. executed \in Seq(1 .. ScriptLimit) /\ script \in Scripts
  BY DEF ScriptOnTrack, ScriptTypeOK
<1>2. executed \in Seq(Nat)
  <2> DEFINE S == 1 .. ScriptLimit
  <2>1. S \subseteq Nat /\ executed \in Seq(S)
    BY <1>1, ScriptAssumption
  <2> HIDE DEF S
  <2> QED BY <2>1, SeqMonotonic
<1>3. packet # None => IsPlanned(packet, script) /\ packet \in Packet
  BY DEF ScriptOnTrack, IsPlanned
<1>4. packet # None => packet.place \in 1 .. ScriptLimit
  BY <1>3 DEF Packet
<1> QED BY <1>1, <1>2, <1>3, <1>4, ScriptAssumption

\* The steps of the runner that send a packet.
LEMMA BatchBeginOnTrack == ASSUME ScriptOnTrack, BatchBegin PROVE ScriptOnTrack'
<1> DEFINE n == packet.place
           q == Following(packet)
<1>1. /\ runner = "Sending" /\ packet # None /\ packet.type = "BatchBegin" /\ job = None
      /\ batch' = [packets |-> <<>>, down |-> held] /\ Proceed
      /\ UNCHANGED <<script, job, held, executed, whole, expiries>>
  BY DEF BatchBegin, IsSending
<1>2. /\ n \in Nat /\ n > 0 /\ IsPlanned(packet, script) /\ script \in Scripts
  BY <1>1, ScriptNumbers
<1>3. q # None /\ q.place = n /\ q.type \in Batched
  BY <1>1, <1>2, FollowingPacket
<1> DEFINE none == <<>>
           open == [packets |-> none, down |-> held]
<1>5. open \in Batch /\ open # None /\ open.packets = none /\ batch' = open
  <2>1. held \in BOOLEAN /\ none \in Seq(Packet)
    BY DEF ScriptOnTrack, ScriptTypeOK
  <2>2. open \in Batch
    BY <2>1 DEF Batch
  <2> QED BY <1>1, <2>2, ScriptAssumption
<1>6. Len(none) = 0 /\ Len(none) <= BatchMaxCommands
  BY ScriptAssumption
<1>7. Played(executed, script, n - 1)
  BY <1>1 DEF ScriptOnTrack, SendingOnTrack, IsDue
<1> HIDE DEF none, n, q, open
<1>8. Collected(none, script, n, n - 1)
  <2>1. n = 1 \/ script[n - 1] = "StopAll"
    BY <1>1, <1>2 DEF IsPlanned, n
  <2>2. n \in 1 .. (n - 1) + 1 /\ 0 = (n - 1) + 1 - n
    BY <1>2
  <2>3. (\A i \in n .. (n - 1) : FALSE) /\ \A k \in 1 .. 0 : FALSE
    BY <1>2
  <2> QED BY <1>6, <2>1, <2>2, <2>3 DEF Collected
<1>9. Collects(open, script, executed, n - 1)
  BY <1>2, <1>5, <1>7, <1>8 DEF Collects
<1>10. IsDue(q, script, open, executed, expiries > 0)
  BY <1>3, <1>9 DEF IsDue, Batched
<1>4. IsDue(packet, script, None, executed, TRUE)
  BY <1>1, <1>7 DEF IsDue, Batched, n
<1>11. /\ packet' \in Packet \cup {None} /\ (packet' # None => IsPlanned(packet', script'))
       /\ runner' \in {"Sending", "Unanswered"}
       /\ runner' = "Sending" => SendingOnTrack'
       /\ runner' = "Unanswered" => UnansweredOnTrack'
  BY <1>1, <1>4, <1>5, <1>10, ProceedsOnPlan DEF q
<1>12. ScriptTypeOK'
  <2>1. /\ packet' \in Packet \cup {None} /\ runner' \in {"Sending", "Unanswered"}
        /\ batch' \in Batch /\ Len(batch'.packets) <= BatchMaxCommands /\ job' = None
        /\ UNCHANGED <<script, held, executed, whole, expiries>>
    BY <1>1, <1>5, <1>6, <1>11
  <2> QED BY <2>1 DEF ScriptOnTrack, ScriptTypeOK
<1>13. WholeOnTrack' /\ OrderOnTrack'
  BY <1>1, WholeKept, OrderKept DEF ScriptOnTrack
<1>14. job' = None /\ runner' # "Awaiting" /\ runner' # "Ok"
  BY <1>1, <1>11
<1> QED BY <1>11, <1>12, <1>13, <1>14 DEF ScriptOnTrack

LEMMA CollectOnTrack == ASSUME ScriptOnTrack, Collect PROVE ScriptOnTrack'
<1> DEFINE n == packet.place
           q == Following(packet)
           next == Append(batch.packets, packet)
           more == [packets |-> next, down |-> HeldAfter(packet, batch.down)]
<1>1. /\ runner = "Sending" /\ packet # None /\ packet.type \in Batched /\ job = None
      /\ batch # None /\ Len(batch.packets) < BatchMaxCommands
      /\ batch' = more /\ Proceed
      /\ UNCHANGED <<script, job, held, executed, whole, expiries>>
  BY DEF Collect, IsSending, IsAccepted, ScriptOnTrack, SendingOnTrack
<1>2. /\ n \in Nat \ {0} /\ IsPlanned(packet, script) /\ script \in Scripts
      /\ packet \in Packet
  BY <1>1, ScriptNumbers
<1>3. /\ q # None
      /\ \/ q.type = "BatchEnd" /\ q.place = n
         \/ q.type \in Batched /\ q.place = n + 1
  BY <1>1, <1>2, FollowingPacket
<1>5. batch.packets \in Seq(Packet) /\ batch.down \in BOOLEAN
  BY <1>1 DEF ScriptOnTrack, ScriptTypeOK, Batch
<1>6. next \in Seq(Packet) /\ Len(next) <= BatchMaxCommands
  <2>1. Len(next) = Len(batch.packets) + 1 /\ Len(batch.packets) \in Nat
    BY <1>2, <1>5
  <2> QED BY <1>1, <1>2, <1>5, <2>1, ScriptAssumption
<1>7. more \in Batch /\ more # None /\ more.packets = next
  <2>1. HeldAfter(packet, batch.down) \in BOOLEAN
    BY <1>5 DEF HeldAfter
  <2>2. more \in Batch
    BY <1>6, <2>1 DEF Batch
  <2> QED BY <2>2, ScriptAssumption
<1>8. PICK first \in Nat : /\ Collected(batch.packets, script, first, n - 1)
                           /\ Played(executed, script, first - 1)
  BY <1>1 DEF ScriptOnTrack, SendingOnTrack, IsDue, Collects
<1>9. script[n] # "StopAll"
  BY <1>1, <1>2 DEF IsPlanned, Batched
<1>10. Collected(next, script, first, n)
  BY <1>2, <1>5, <1>8, <1>9, CollectedOn
<1> HIDE DEF n, q, next, more
<1>11. Collects(more, script, executed, n)
  BY <1>7, <1>8, <1>10 DEF Collects
<1>12. IsDue(q, script, more, executed, expiries > 0)
  <2>1. CASE q.type = "BatchEnd" /\ q.place = n
    BY <1>3, <1>11, <2>1 DEF IsDue, Batched
  <2>2. CASE q.type \in Batched /\ q.place = n + 1
    <3>1. q.place - 1 = n
      BY <1>2, <2>2
    <3> QED BY <1>3, <1>11, <2>2, <3>1 DEF IsDue, Batched
  <2> QED BY <1>3, <2>1, <2>2
<1>4. IsDue(packet, script, None, executed, TRUE)
  BY <1>1 DEF IsDue, Batched
<1>13. /\ packet' \in Packet \cup {None} /\ (packet' # None => IsPlanned(packet', script'))
       /\ runner' \in {"Sending", "Unanswered"}
       /\ runner' = "Sending" => SendingOnTrack'
       /\ runner' = "Unanswered" => UnansweredOnTrack'
  BY <1>1, <1>4, <1>12, ProceedsOnPlan DEF q
<1>14. ScriptTypeOK'
  <2>1. /\ packet' \in Packet \cup {None} /\ runner' \in {"Sending", "Unanswered"}
        /\ batch' \in Batch /\ Len(batch'.packets) <= BatchMaxCommands /\ job' = None
        /\ UNCHANGED <<script, held, executed, whole, expiries>>
    BY <1>1, <1>6, <1>7, <1>13
  <2> QED BY <2>1 DEF ScriptOnTrack, ScriptTypeOK
<1>15. WholeOnTrack' /\ OrderOnTrack'
  BY <1>1, WholeKept, OrderKept DEF ScriptOnTrack
<1>16. job' = None /\ runner' # "Awaiting" /\ runner' # "Ok"
  BY <1>1, <1>13
<1> QED BY <1>13, <1>14, <1>15, <1>16 DEF ScriptOnTrack

LEMMA SingleOnTrack == ASSUME ScriptOnTrack, Single PROVE ScriptOnTrack'
<1> DEFINE n == packet.place
           q == Following(packet)
<1>1. /\ runner = "Sending" /\ packet # None /\ packet.type \in Batched /\ job = None
      /\ batch = None /\ UNCHANGED <<script, batch, job, whole, expiries>>
      /\ held' \in BOOLEAN
      /\ \/ GiveUp /\ executed' = executed
         \/ Proceed /\ executed' = Append(executed, n)
  BY DEF Single, IsSending, HeldAfter, ScriptOnTrack, ScriptTypeOK
<1>2. expiries > 0 /\ expiries # 0
  <2>1. expiries > 0
    BY <1>1 DEF ScriptOnTrack, SendingOnTrack, IsDue, Collects
  <2>2. expiries \in Nat
    BY ScriptAssumption DEF ScriptOnTrack, ScriptTypeOK
  <2> QED BY <2>1, <2>2
<1>3. /\ n \in 1 .. ScriptLimit /\ IsPlanned(packet, script) /\ script \in Scripts
      /\ packet \in Packet
  BY <1>1, ScriptNumbers
<1>4. /\ q # None /\ (q.type = "BatchEnd" \/ q.type \in Batched)
  BY <1>1, <1>3, FollowingPacket
<1>5. executed' \in Seq(1 .. ScriptLimit)
  <2> DEFINE S == 1 .. ScriptLimit
  <2>1. executed \in Seq(S) /\ n \in S
    BY <1>3 DEF ScriptOnTrack, ScriptTypeOK
  <2> HIDE DEF S, n
  <2>2. executed' \in Seq(S)
    BY <1>1, <2>1
  <2> QED BY <2>2 DEF S
<1>6. IsDue(q, script, batch', executed', expiries > 0) /\ IsDue(packet, script, None, executed', TRUE)
  <2> HIDE DEF n, q
  <2> QED BY <1>1, <1>2, <1>4 DEF IsDue, Batched
<1>7. /\ packet' \in Packet \cup {None} /\ (packet' # None => IsPlanned(packet', script'))
      /\ runner' \in {"Sending", "Unanswered", "Stopping"}
      /\ runner' = "Sending" => SendingOnTrack'
      /\ runner' = "Unanswered" => UnansweredOnTrack'
  <2>1. CASE Proceed
    BY <1>1, <1>6, <2>1, ProceedsOnPlan
  <2>2. CASE GiveUp
    BY <1>1, <1>3, <2>2 DEF GiveUp
  <2> QED BY <1>1, <2>1, <2>2
<1> HIDE DEF n, q
<1>8. ScriptTypeOK'
  BY <1>1, <1>5, <1>7 DEF ScriptOnTrack, ScriptTypeOK
<1>9. WholeOnTrack' /\ OrderOnTrack'
  BY <1>1, <1>2 DEF WholeOnTrack, OrderOnTrack
<1> QED BY <1>1, <1>7, <1>8, <1>9 DEF ScriptOnTrack

LEMMA BatchEndOnTrack == ASSUME ScriptOnTrack, BatchEnd PROVE ScriptOnTrack'
<1> DEFINE n == packet.place
           packets == batch.packets
           m == Len(packets)
<1>1. /\ runner = "Sending" /\ packet # None /\ packet.type = "BatchEnd" /\ job = None
      /\ UNCHANGED <<script, held, executed, expiries>>
  BY DEF BatchEnd, IsSending, ScriptOnTrack, SendingOnTrack
<1>2. /\ n \in Nat \ {0} /\ n \in 1 .. ScriptLimit /\ IsPlanned(packet, script)
      /\ packet \in Packet
  BY <1>1, ScriptNumbers
<1>3. CASE batch = None
  <2>1. GiveUp /\ UNCHANGED <<job, batch, whole>>
    BY <1>3 DEF BatchEnd
  <2>2. ScriptTypeOK'
    BY <1>1, <2>1 DEF ScriptOnTrack, ScriptTypeOK, GiveUp
  <2>3. WholeOnTrack' /\ OrderOnTrack'
    BY <1>1, <2>1, WholeKept, OrderKept DEF ScriptOnTrack
  <2> QED BY <1>1, <1>2, <2>1, <2>2, <2>3 DEF ScriptOnTrack, GiveUp
<1>4. CASE batch # None
  <2>1. /\ job' = packets /\ batch' = None /\ runner' = "Awaiting" /\ packet' = packet
        /\ whole' = whole \cup {<<packets[1].place, packets[m].place>>}
    BY <1>4 DEF BatchEnd
  <2>2. packets \in Seq(Packet) /\ m <= BatchMaxCommands /\ packets # None
    BY <1>4, ScriptAssumption DEF ScriptOnTrack, ScriptTypeOK, Batch
  <2>3. PICK first \in Nat : /\ Collected(packets, script, first, n)
                             /\ Played(executed, script, first - 1)
    BY <1>1, <1>4 DEF ScriptOnTrack, SendingOnTrack, IsDue, Collects
  <2>4. m \in Nat
    BY <2>2
  <2> HIDE DEF n, packets, m
  <2>5. /\ first \in 1 .. n + 1 /\ (first = 1 \/ script[first - 1] = "StopAll")
        /\ \A i \in first .. n : script[i] # "StopAll"
        /\ m = n + 1 - first
        /\ \A k \in 1 .. m : packets[k].place = first + k - 1
    BY <2>3 DEF Collected, m
  <2>6. first <= n
    <3>1. ASSUME first = n + 1 PROVE FALSE
      <4>1. first - 1 = n /\ first # 1
        BY <1>2, <3>1
      <4>2. script[n] # "StopAll"
        BY <1>1 DEF IsPlanned, n, ScriptOnTrack
      <4> QED BY <2>5, <4>1, <4>2
    <3> QED BY <1>2, <2>5, <3>1
  <2>7. m >= 1 /\ n - m = first - 1 /\ m <= n
    BY <1>2, <2>5, <2>6
  <2>8. packets[1].place = first /\ packets[m].place = n
    <3>1. packets[1].place = first + 1 - 1 /\ packets[m].place = first + m - 1
      BY <2>4, <2>5, <2>7
    <3> QED BY <1>2, <2>5, <3>1
  <2>9. whole' = whole \cup {<<first, n>>}
    BY <2>1, <2>8
  <2>10. JobOnTrack' /\ job' # None
    <3>1. ASSUME NEW k \in 1 .. m
          PROVE  packets[k].place = n - m + k /\ script[n - m + k] # "StopAll"
      <4>1. first + k - 1 = n - m + k /\ first + k - 1 \in first .. n
        BY <1>2, <2>4, <2>5, <2>7
      <4> QED BY <2>5, <4>1
    <3>2. Played(executed, script, n - m)
      BY <2>3, <2>7
    <3>3. Len(job') = m /\ packet'.place = n
      BY <2>1 DEF m, n
    <3> QED BY <1>1, <2>1, <2>2, <2>7, <3>1, <3>2, <3>3 DEF JobOnTrack
  <2>11. ASSUME NEW i \in first .. n PROVE IsWhole(i, whole', script)
    <3> DEFINE b == <<first, n>>
    <3>1. b[1] = first /\ b[2] = n /\ b \in whole'
      BY <2>9
    <3>2. n = Len(script) \/ script[n + 1] = "StopAll"
      BY <1>1, <1>2 DEF IsPlanned, n
    <3> HIDE DEF b
    <3> QED BY <2>5, <2>11, <3>1, <3>2 DEF IsWhole
  <2>12. WholeOnTrack'
    <3>1. \A k \in 1 .. m : packets[k].place \in first .. n
      <4> SUFFICES ASSUME NEW k \in 1 .. m PROVE first + k - 1 \in first .. n
        BY <2>5
      <4> QED BY <1>2, <2>5
    <3>2. \A k \in 1 .. m : IsWhole(packets[k].place, whole', script)
      BY <2>11, <3>1
    <3>3. \A i : IsWhole(i, whole, script) => IsWhole(i, whole', script)
      BY <2>1 DEF IsWhole
    <3>4. expiries = 0 => \A k \in 1 .. Len(executed) : IsWhole(executed[k], whole, script)
      BY DEF ScriptOnTrack, WholeOnTrack
    <3> QED BY <1>1, <2>1, <3>2, <3>3, <3>4 DEF WholeOnTrack, m
  <2>13. ScriptTypeOK'
    <3>1. <<first, n>> \in (1 .. ScriptLimit) \X (1 .. ScriptLimit)
      BY <1>2, <2>5, <2>6, ScriptAssumption DEF n
    <3>2. whole' \subseteq (1 .. ScriptLimit) \X (1 .. ScriptLimit)
      BY <2>9, <3>1 DEF ScriptOnTrack, ScriptTypeOK
    <3> QED BY <1>1, <2>1, <2>2, <3>2 DEF ScriptOnTrack, ScriptTypeOK, m
  <2>14. packet' # None => IsPlanned(packet', script')
    BY <1>1, <1>2, <2>1
  <2>15. OrderOnTrack'
    BY <1>1, OrderKept DEF ScriptOnTrack
  <2> QED BY <2>1, <2>10, <2>12, <2>13, <2>14, <2>15 DEF ScriptOnTrack
<1> QED BY <1>3, <1>4

LEMMA StopAllOnTrack == ASSUME ScriptOnTrack, StopAll PROVE ScriptOnTrack'
<1> DEFINE n == packet.place
           q == Following(packet)
<1>1. /\ runner = "Sending" /\ packet # None /\ packet.type = "StopAll"
      /\ batch' = None /\ job' = None /\ held' = FALSE /\ Proceed
      /\ UNCHANGED <<script, executed, whole, expiries>>
  BY DEF StopAll, ReleaseAll, IsSending
<1>2. /\ n \in Nat \ {0} /\ IsPlanned(packet, script) /\ script \in Scripts
      /\ executed \in Seq(Nat)
  BY <1>1, ScriptNumbers
<1>3. \/ q = None /\ n = Len(script)
      \/ q # None /\ q.type \in {"BatchBegin", "StopAll"} /\ q.place = n + 1
  BY <1>1, <1>2, FollowingPacket
<1>5. Played(executed, script, n) /\ Played(executed, script, n - 1)
  <2>1. Played(executed, script, n - 1)
    BY <1>1 DEF ScriptOnTrack, SendingOnTrack, IsDue
  <2>2. script[n] = "StopAll"
    BY <1>1, <1>2 DEF IsPlanned
  <2> QED BY <1>2, <2>1, <2>2, PlayedTo
<1> HIDE DEF n, q
<1>6. IsDue(q, script, None, executed, expiries > 0)
  <2>1. CASE q = None /\ n = Len(script)
    BY <1>5, <2>1 DEF IsDue
  <2>2. CASE q # None /\ q.type \in {"BatchBegin", "StopAll"} /\ q.place = n + 1
    <3>1. q.place - 1 = n
      BY <1>2, <2>2
    <3> QED BY <1>5, <2>2, <3>1 DEF IsDue, Batched
  <2> QED BY <1>3, <2>1, <2>2
<1>4. IsDue(packet, script, None, executed, TRUE)
  BY <1>1, <1>5 DEF IsDue, Batched, n
<1>7. /\ packet' \in Packet \cup {None} /\ (packet' # None => IsPlanned(packet', script'))
      /\ runner' \in {"Sending", "Unanswered"}
      /\ runner' = "Sending" => SendingOnTrack'
      /\ runner' = "Unanswered" => UnansweredOnTrack'
  BY <1>1, <1>4, <1>6, ProceedsOnPlan DEF q
<1>8. ScriptTypeOK'
  BY <1>1, <1>7 DEF ScriptOnTrack, ScriptTypeOK
<1>9. WholeOnTrack' /\ OrderOnTrack'
  BY <1>1, WholeKept, OrderKept DEF ScriptOnTrack
<1> QED BY <1>1, <1>7, <1>8, <1>9 DEF ScriptOnTrack

\* The steps of the executor.
LEMMA ExecuteNextOnTrack == ASSUME ScriptOnTrack, ExecuteNext PROVE ScriptOnTrack'
<1> DEFINE p == Head(job)
           rest == Tail(job)
           m == Len(job)
           more == Append(executed, p.place)
           c == Len(executed)
<1>1. /\ job # None /\ job # <<>> /\ job' = rest /\ executed' = more
      /\ held' = HeldAfter(p, held)
      /\ UNCHANGED <<script, packet, runner, batch, whole, expiries>>
  BY DEF ExecuteNext
<1>2. /\ job \in Seq(Packet) /\ m <= BatchMaxCommands /\ held \in BOOLEAN
      /\ executed \in Seq(1 .. ScriptLimit)
  BY <1>1 DEF ScriptOnTrack, ScriptTypeOK
<1>3. /\ rest \in Seq(Packet) /\ m \in Nat /\ m >= 1 /\ Len(rest) = m - 1
      /\ \A k \in 1 .. m - 1 : rest[k] = job[k + 1]
      /\ p = job[1] /\ p \in Packet /\ 1 \in 1 .. m
  BY <1>1, <1>2
<1>4. p.place \in 1 .. ScriptLimit /\ rest # None
  BY <1>3, ScriptAssumption DEF Packet
<1>5. held' \in BOOLEAN
  BY <1>1, <1>2 DEF HeldAfter
<1>6. /\ more \in Seq(1 .. ScriptLimit) /\ Len(more) = c + 1 /\ c \in Nat
      /\ more[c + 1] = p.place /\ \A k \in 1 .. c : more[k] = executed[k]
  <2> DEFINE S == 1 .. ScriptLimit
             i == p.place
  <2>1. executed \in Seq(S) /\ i \in S
    BY <1>2, <1>4
  <2> HIDE DEF S, i
  <2>2. /\ Append(executed, i) \in Seq(S) /\ Len(Append(executed, i)) = c + 1 /\ c \in Nat
        /\ Append(executed, i)[c + 1] = i
        /\ \A k \in 1 .. c : Append(executed, i)[k] = executed[k]
    BY <2>1, AppendProperties, LenProperties
  <2> QED BY <2>2 DEF S, i
<1> HIDE DEF p, rest, m, more, c
<1>7. ScriptTypeOK'
  <2>1. Len(rest) <= BatchMaxCommands
    BY <1>2, <1>3, ScriptAssumption
  <2> QED BY <1>1, <1>3, <1>5, <1>6, <2>1 DEF ScriptOnTrack, ScriptTypeOK
<1>8. WholeOnTrack'
  <2>1. \A k \in 1 .. m : IsWhole(job[k].place, whole, script)
    BY <1>1 DEF ScriptOnTrack, WholeOnTrack, m
  <2>2. \A k \in 1 .. m - 1 : IsWhole(rest[k].place, whole, script)
    <3> SUFFICES ASSUME NEW k \in 1 .. m - 1 PROVE IsWhole(rest[k].place, whole, script)
      OBVIOUS
    <3>1. k + 1 \in 1 .. m
      BY <1>3
    <3> QED BY <1>3, <2>1, <3>1
  <2>3. IsWhole(p.place, whole, script)
    BY <1>3, <2>1
  <2>4. expiries = 0 => \A k \in 1 .. c + 1 : IsWhole(more[k], whole, script)
    <3>1. expiries = 0 => \A k \in 1 .. c : IsWhole(executed[k], whole, script)
      BY DEF ScriptOnTrack, WholeOnTrack, c
    <3>2. \A k \in 1 .. c + 1 : k \in 1 .. c \/ k = c + 1
      BY <1>6
    <3> QED BY <1>6, <2>3, <3>1, <3>2
  <2> QED BY <1>1, <1>3, <1>6, <2>2, <2>4 DEF WholeOnTrack
<1>9. runner # "Sending" /\ runner # "Unanswered" /\ runner # "Ok"
  BY <1>1 DEF ScriptOnTrack, SendingOnTrack, UnansweredOnTrack
<1>10. JobOnTrack' /\ OrderOnTrack'
  <2> DEFINE n == packet.place
             d == n - m
  <2>1. /\ packet # None /\ packet.type = "BatchEnd" /\ m <= n /\ Played(executed, script, d)
        /\ \A k \in 1 .. m : job[k].place = d + k /\ script[d + k] # "StopAll"
    BY <1>1 DEF ScriptOnTrack, JobOnTrack, m
  <2>2. n \in Nat /\ executed \in Seq(Nat) /\ n <= Len(script) /\ Len(script) \in Nat
    BY <2>1, ScriptNumbers, ScriptAssumption DEF IsPlanned, Scripts
  <2>3. d \in Nat
    BY <1>3, <2>1, <2>2
  <2>4. p.place = d + 1 /\ script[d + 1] # "StopAll"
    BY <1>3, <2>1
  <2>5. n - (m - 1) = d + 1 /\ m - 1 <= n /\ d + 1 \in 0 .. Len(script)
    BY <1>3, <2>1, <2>2
  <2> HIDE DEF n, d
  <2>6. Played(more, script, d + 1)
    BY <2>1, <2>2, <2>3, <2>4, PlayedOn DEF more
  <2>7. \A k \in 1 .. m - 1 : rest[k].place = d + 1 + k /\ script[d + 1 + k] # "StopAll"
    <3> SUFFICES ASSUME NEW k \in 1 .. m - 1
                 PROVE  rest[k].place = d + 1 + k /\ script[d + 1 + k] # "StopAll"
      OBVIOUS
    <3>1. k + 1 \in 1 .. m /\ d + (k + 1) = d + 1 + k
      BY <1>3, <2>3
    <3>2. job[k + 1].place = d + (k + 1) /\ script[d + (k + 1)] # "StopAll"
      BY <2>1, <3>1
    <3> QED BY <1>3, <3>1, <3>2
  <2>8. Len(job') = m - 1 /\ packet'.place = n
    BY <1>1, <1>3 DEF n
  <2>9. JobOnTrack'
    BY <1>1, <2>1, <2>5, <2>6, <2>7, <2>8 DEF JobOnTrack
  <2>10. OrderOnTrack'
    BY <1>1, <2>5, <2>6 DEF OrderOnTrack
  <2> QED BY <2>9, <2>10
<1>11. packet' # None => IsPlanned(packet', script')
  BY <1>1 DEF ScriptOnTrack
<1> QED BY <1>1, <1>4, <1>7, <1>8, <1>9, <1>10, <1>11 DEF ScriptOnTrack

LEMMA BatchDoneOnTrack == ASSUME ScriptOnTrack, BatchDone PROVE ScriptOnTrack'
<1> DEFINE n == packet.place
           q == Following(packet)
           none == <<>>
<1>1. /\ job = none /\ job # None /\ job' = None
      /\ UNCHANGED <<script, batch, held, executed, whole, expiries>>
  <2>1. <<>> \in Seq(Packet)
    OBVIOUS
  <2> QED BY <2>1, ScriptAssumption DEF BatchDone
<1>2. runner \in {"Awaiting", "Stopping", "Error"}
  BY <1>1 DEF ScriptOnTrack, SendingOnTrack, UnansweredOnTrack, ScriptTypeOK
<1>3. WholeOnTrack' /\ OrderOnTrack'
  BY <1>1, WholeKept, OrderKept DEF ScriptOnTrack
<1>4. CASE runner # "Awaiting"
  <2>1. UNCHANGED <<packet, runner>>
    BY <1>4 DEF BatchDone
  <2>2. ScriptTypeOK'
    BY <1>1, <2>1 DEF ScriptOnTrack, ScriptTypeOK
  <2> QED BY <1>1, <1>2, <1>3, <1>4, <2>1, <2>2 DEF ScriptOnTrack
<1>5. CASE runner = "Awaiting"
  <2>1. JobOnTrack /\ Proceed
    BY <1>1, <1>5 DEF BatchDone, ScriptOnTrack
  <2>2. packet # None /\ packet.type = "BatchEnd"
    BY <2>1 DEF JobOnTrack
  <2>3. /\ n \in Nat \ {0} /\ IsPlanned(packet, script) /\ script \in Scripts
    BY <2>2, ScriptNumbers
  <2>4. \/ q = None /\ n = Len(script)
        \/ q # None /\ q.type \in {"BatchBegin", "StopAll"} /\ q.place = n + 1
    BY <2>2, <2>3, FollowingPacket
  <2>6. Played(executed, script, n)
    <3>1. Len(job) = 0 /\ n - 0 = n
      BY <1>1, <2>3
    <3> QED BY <2>1, <3>1 DEF JobOnTrack
  <2> HIDE DEF n, q
  <2>7. IsDue(q, script, batch, executed, expiries > 0)
    <3>1. CASE q = None /\ n = Len(script)
      BY <2>6, <3>1 DEF IsDue
    <3>2. CASE q # None /\ q.type \in {"BatchBegin", "StopAll"} /\ q.place = n + 1
      <4>1. q.place - 1 = n
        BY <2>3, <3>2
      <4> QED BY <2>6, <3>2, <4>1 DEF IsDue, Batched
    <3> QED BY <2>4, <3>1, <3>2
  <2>5. IsDue(packet, script, None, executed, TRUE)
    BY <2>2 DEF IsDue, Batched
  <2>8. /\ packet' \in Packet \cup {None} /\ (packet' # None => IsPlanned(packet', script'))
        /\ runner' \in {"Sending", "Unanswered"}
        /\ runner' = "Sending" => SendingOnTrack'
        /\ runner' = "Unanswered" => UnansweredOnTrack'
    BY <1>1, <2>1, <2>2, <2>5, <2>7, ProceedsOnPlan DEF q
  <2>9. ScriptTypeOK'
    BY <1>1, <2>8 DEF ScriptOnTrack, ScriptTypeOK
  <2> QED BY <1>1, <1>3, <2>8, <2>9 DEF ScriptOnTrack
<1> QED BY <1>2, <1>4, <1>5

\* A packet that is sent again is answered from the cache.
LEMMA RetriedOnTrack == ASSUME ScriptOnTrack, Retried PROVE ScriptOnTrack'
<1> DEFINE q == Following(packet)
<1>1. /\ runner = "Unanswered" /\ runner' = "Sending" /\ packet' = q
      /\ UNCHANGED <<script, batch, job, held, executed, whole, expiries>>
  BY DEF Retried
<1>2. /\ packet # None /\ job = None
      /\ IsDue(q, script, batch, executed, expiries > 0)
  BY <1>1 DEF ScriptOnTrack, UnansweredOnTrack
<1>3. q # None => IsPlanned(q, script)
  BY <1>2, FollowingPacket DEF ScriptOnTrack, ScriptTypeOK
<1> HIDE DEF q
<1>4. SendingOnTrack' /\ WholeOnTrack' /\ OrderOnTrack'
  BY <1>1, <1>2, WholeKept, OrderKept DEF ScriptOnTrack, SendingOnTrack
<1>5. ScriptTypeOK'
  BY <1>1, <1>3 DEF ScriptOnTrack, ScriptTypeOK, IsPlanned
<1> QED BY <1>1, <1>2, <1>3, <1>4, <1>5 DEF ScriptOnTrack

\* The steps that end a run, or break it off.
LEMMA EndingOnTrack ==
  ASSUME ScriptOnTrack,
         \/ Finish \/ SendFails \/ CollectError \/ HidFails \/ TimesOut
         \/ StopAfterError \/ SessionEnds
  PROVE  ScriptOnTrack'
<1>1. packet' = packet /\ UNCHANGED <<script, executed, whole, expiries>>
  BY DEF Finish, SendFails, CollectError, HidFails, TimesOut, StopAfterError, SessionEnds, GiveUp
<1>2. job' = job \/ job' = None
  BY DEF Finish, SendFails, CollectError, HidFails, TimesOut, StopAfterError, SessionEnds,
         ReleaseAll
<1>3. WholeOnTrack' /\ OrderOnTrack' /\ (packet' # None => IsPlanned(packet', script'))
  BY <1>1, <1>2, WholeKept, OrderKept DEF ScriptOnTrack
<1>4. job' # None => JobOnTrack'
  BY <1>1, <1>2 DEF ScriptOnTrack, JobOnTrack
<1>5. ScriptTypeOK'
  BY <1>1 DEF Finish, SendFails, CollectError, HidFails, TimesOut, StopAfterError, SessionEnds,
              GiveUp, ReleaseAll, ScriptOnTrack, ScriptTypeOK
<1>6. CASE Finish
  <2>1. /\ runner = "Sending" /\ packet = None /\ runner' = "Ok"
        /\ UNCHANGED <<batch, job, held>>
    BY <1>6 DEF Finish
  <2>2. job = None /\ Played(executed, script, Len(script))
    BY <2>1 DEF ScriptOnTrack, SendingOnTrack, IsDue
  <2> QED BY <1>1, <1>3, <1>4, <1>5, <2>1, <2>2 DEF ScriptOnTrack
<1>7. CASE HidFails
  <2>1. job # None /\ runner' = IF runner = "Awaiting" THEN "Stopping" ELSE runner
    BY <1>7 DEF HidFails, GiveUp
  <2>2. runner # "Sending" /\ runner # "Unanswered" /\ runner # "Ok"
    BY <2>1 DEF ScriptOnTrack, SendingOnTrack, UnansweredOnTrack
  <2>3. runner' \in {"Stopping", "Error"}
    BY <2>1, <2>2 DEF ScriptOnTrack, ScriptTypeOK
  <2> QED BY <1>3, <1>4, <1>5, <2>3 DEF ScriptOnTrack
<1>8. CASE SendFails \/ CollectError \/ TimesOut \/ StopAfterError
  <2>1. runner' \in {"Stopping", "Error"}
    BY <1>8 DEF SendFails, CollectError, TimesOut, StopAfterError, GiveUp
  <2> QED BY <1>3, <1>4, <1>5, <2>1 DEF ScriptOnTrack
<1>9. CASE SessionEnds
  <2>1. runner' = runner /\ runner \in {"Ok", "Error"} /\ job' = None
    BY <1>9 DEF SessionEnds, ReleaseAll
  <2>2. runner = "Ok" => Played(executed, script, Len(script))
    BY DEF ScriptOnTrack
  <2> QED BY <1>1, <1>3, <1>5, <2>1, <2>2 DEF ScriptOnTrack
<1> QED BY <1>6, <1>7, <1>8, <1>9

\* The lease may expire at any time; a batch that is lost is remembered.
LEMMA LeaseExpiresOnTrack == ASSUME ScriptOnTrack, LeaseExpires PROVE ScriptOnTrack'
<1>1. /\ batch' = None /\ job' = None /\ held' = FALSE /\ packet' = packet
      /\ expiries' = expiries + 1 /\ expiries < ExpiryLimit
      /\ UNCHANGED <<script, executed, whole>>
      /\ runner' = CASE runner = "Awaiting" -> "Stopping"
                     [] runner = "Unanswered" -> "Sending"
                     [] OTHER -> runner
  BY DEF LeaseExpires, GiveUp
<1>2. expiries' \in 0 .. ExpiryLimit /\ expiries' # 0 /\ expiries' > 0
  BY <1>1, ScriptAssumption DEF ScriptOnTrack, ScriptTypeOK
<1>3. /\ WholeOnTrack' /\ OrderOnTrack' /\ (packet' # None => IsPlanned(packet', script'))
  BY <1>1, <1>2 DEF WholeOnTrack, OrderOnTrack, ScriptOnTrack
<1>4. ScriptTypeOK'
  BY <1>1, <1>2 DEF ScriptOnTrack, ScriptTypeOK
<1>5. ASSUME runner' = "Sending" PROVE SendingOnTrack'
  <2>1. runner \in {"Sending", "Unanswered"}
    BY <1>1, <1>5 DEF ScriptOnTrack, ScriptTypeOK
  <2>2. \/ IsDue(packet, script, batch, executed, expiries > 0)
        \/ IsDue(packet, script, None, executed, TRUE)
    BY <2>1 DEF ScriptOnTrack, SendingOnTrack, UnansweredOnTrack
  <2>3. IsDue(packet, script, None, executed, TRUE)
    BY <2>2 DEF IsDue
  <2> QED BY <1>1, <1>2, <2>3 DEF SendingOnTrack
<1>6. runner' # "Awaiting" /\ runner' # "Unanswered" /\ (runner' = "Ok" => runner = "Ok")
  BY <1>1 DEF ScriptOnTrack, ScriptTypeOK
<1> QED BY <1>1, <1>3, <1>4, <1>5, <1>6 DEF ScriptOnTrack

LEMMA ScriptInitOnTrack == ScriptInit => ScriptOnTrack
<1> SUFFICES ASSUME ScriptInit PROVE ScriptOnTrack
  OBVIOUS
<1> DEFINE none == <<>>
<1>1. /\ script \in Scripts /\ packet = PlannedAt(1) /\ runner = "Sending"
      /\ batch = None /\ job = None /\ held = FALSE
      /\ executed = none /\ whole = {} /\ expiries = 0
  BY DEF ScriptInit
<1>2. /\ none \in Seq(1 .. ScriptLimit) /\ Len(none) = 0 /\ DOMAIN none = {}
      /\ \A k \in 1 .. 0 : FALSE
  OBVIOUS
<1>3. /\ script \in Seq(ScriptCommand) /\ Len(script) \in Nat /\ Len(script) <= ScriptLimit
      /\ \A i \in 1 .. Len(script) : script[i] \in ScriptCommand
      /\ 0 \in 0 .. Len(script) /\ 0 \in 0 .. ExpiryLimit
  BY <1>1, ScriptAssumption DEF Scripts
<1> HIDE DEF none
<1>4. Played(none, script, 0)
  <2>1. (\A k \in 1 .. 0 - 1 : FALSE) /\ {i \in 1 .. 0 : script[i] # "StopAll"} = {}
    OBVIOUS
  <2> QED BY <1>2, <2>1 DEF Played
<1>7. WholeOnTrack /\ OrderOnTrack
  BY <1>1, <1>2, <1>3, <1>4 DEF WholeOnTrack, OrderOnTrack
<1>5. CASE 1 > Len(script)
  <2>1. packet = None /\ Len(script) = 0
    BY <1>1, <1>3, <1>5 DEF PlannedAt
  <2>2. IsDue(packet, script, batch, executed, expiries > 0)
    BY <1>1, <1>4, <2>1 DEF IsDue
  <2>3. ScriptTypeOK
    BY <1>1, <1>2, <1>3, <2>1 DEF ScriptTypeOK
  <2> QED BY <1>1, <1>7, <2>1, <2>2, <2>3 DEF ScriptOnTrack, SendingOnTrack
<1>6. CASE ~(1 > Len(script))
  <2>1. packet = [type |-> IF script[1] # "StopAll" THEN "BatchBegin" ELSE script[1], place |-> 1]
    BY <1>1, <1>6 DEF PlannedAt, BeginsPart
  <2>2. 1 \in 1 .. Len(script) /\ 1 <= Len(script) /\ 1 \in 1 .. ScriptLimit
    BY <1>3, <1>6, ScriptAssumption
  <2>3. /\ packet.type = (IF script[1] # "StopAll" THEN "BatchBegin" ELSE script[1])
        /\ packet.place = 1 /\ packet \in Packet /\ packet # None
    BY <1>3, <2>1, <2>2, ScriptAssumption DEF Packet, ScriptCommand
  <2>4. IsPlanned(packet, script)
    BY <2>2, <2>3 DEF IsPlanned
  <2>5. packet.type \in {"BatchBegin", "StopAll"} /\ packet.place - 1 = 0
    BY <2>3
  <2>6. IsDue(packet, script, batch, executed, expiries > 0)
    BY <1>1, <1>4, <2>3, <2>5 DEF IsDue, Batched
  <2>7. ScriptTypeOK
    BY <1>1, <1>2, <1>3, <2>3 DEF ScriptTypeOK
  <2> QED BY <1>1, <1>7, <2>4, <2>6, <2>7 DEF ScriptOnTrack, SendingOnTrack
<1> QED BY <1>5, <1>6

LEMMA ScriptNextOnTrack == ScriptOnTrack /\ [ScriptNext]_scriptVars => ScriptOnTrack'
<1> SUFFICES ASSUME ScriptOnTrack, [ScriptNext]_scriptVars PROVE ScriptOnTrack'
  OBVIOUS
<1>1. CASE UNCHANGED scriptVars
  <2>1. Following(packet)' = Following(packet)
    BY <1>1 DEF scriptVars, Following, PlannedAt, EndsPart, BeginsPart
  <2> QED BY <1>1, <2>1 DEF scriptVars, ScriptOnTrack, ScriptTypeOK, SendingOnTrack,
                          UnansweredOnTrack, JobOnTrack, OrderOnTrack, WholeOnTrack
<1>2. CASE ScriptNext
  BY <1>2, BatchBeginOnTrack, CollectOnTrack, SingleOnTrack, BatchEndOnTrack, StopAllOnTrack,
     ExecuteNextOnTrack, BatchDoneOnTrack, RetriedOnTrack, EndingOnTrack, LeaseExpiresOnTrack
     DEF ScriptNext
<1> QED BY <1>1, <1>2

LEMMA ScriptStaysOnTrack == ScriptSpec => []ScriptOnTrack
BY ScriptInitOnTrack, ScriptNextOnTrack, PTL DEF ScriptSpec

\* Success means that every command but the STOPs was executed, once and in order: no
\* answer that was lost, no report that failed and no lease that expired is passed over.
THEOREM SuccessIsComplete == ScriptSpec => []OkMeansPlayed
<1>1. ScriptOnTrack => OkMeansPlayed
  BY DEF ScriptOnTrack, OkMeansPlayed, Played, IsPlayed
<1> QED BY <1>1, ScriptStaysOnTrack, PTL

\* However a run ends, what was executed is a beginning of the script: an answer that is
\* lost makes nothing happen twice, and nothing is left out before what was executed, not
\* even by a job that outlives its run because STOP_ALL was lost.
\* Batch, job and plan stay within their bounds.
THEOREM OrderIsKept == ScriptSpec => []ScriptInv
<1>1. ScriptOnTrack => ScriptInv
  BY DEF ScriptOnTrack, OrderOnTrack, ScriptInv, PlayedInOrder, Played, IsPlayed
<1> QED BY <1>1, ScriptStaysOnTrack, PTL

\* While the lease lasts, nothing is executed of a part of the script that was not
\* accepted whole, from one STOP to the next.
THEOREM PartsAreWhole == ScriptSpec => []AcceptedWhole
<1>1. ScriptOnTrack => AcceptedWhole
  <2> SUFFICES ASSUME ScriptOnTrack, expiries = 0, NEW k \in DOMAIN executed
               PROVE  IsWhole(executed[k], whole, script)
    BY DEF AcceptedWhole, IsWhole
  <2>1. DOMAIN executed = 1 .. Len(executed)
    BY DEF ScriptOnTrack, ScriptTypeOK
  <2> QED BY <2>1 DEF ScriptOnTrack, WholeOnTrack
<1> QED BY <1>1, ScriptStaysOnTrack, PTL
=============================================================================
