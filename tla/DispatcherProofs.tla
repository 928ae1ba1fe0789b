-------------------------- MODULE DispatcherProofs --------------------------
(***************************************************************************)
(* Proofs about Dispatcher, for every number of sequences, keys and        *)
(* commands, every capacity and every effect of the commands.              *)
(***************************************************************************)
EXTENDS Dispatcher, CoordinatorLemmas, TLAPS

-----------------------------------------------------------------------------
(* The pipeline as a sequence.                                             *)

Work == Token \cup {None}

\* The first element of a concatenation goes with its first part.
LEMMA ConcatFirst ==
  ASSUME NEW S, NEW s \in Seq(S), NEW t \in Seq(S), s # <<>>
  PROVE  /\ s \o t # <<>> /\ Head(s \o t) = Head(s)
         /\ Tail(s \o t) = Tail(s) \o t
<1>1. /\ s \o t \in Seq(S) /\ Len(s \o t) = Len(s) + Len(t)
      /\ \A i \in 1 .. Len(s) + Len(t) :
           (s \o t)[i] = IF i <= Len(s) THEN s[i] ELSE t[i - Len(s)]
  BY ConcatProperties
<1>2. Len(s) \in Nat /\ Len(t) \in Nat /\ Len(s) >= 1
  BY EmptySeq, LenProperties
<1>3. s \o t # <<>>
  BY <1>1, <1>2, EmptySeq
<1>4. /\ Tail(s \o t) \in Seq(S) /\ Len(Tail(s \o t)) = Len(s) + Len(t) - 1
      /\ \A i \in 1 .. Len(s) + Len(t) - 1 : Tail(s \o t)[i] = (s \o t)[i + 1]
  BY <1>1, <1>2, <1>3, HeadTailProperties
<1>5. /\ Tail(s) \in Seq(S) /\ Len(Tail(s)) = Len(s) - 1
      /\ \A i \in 1 .. Len(s) - 1 : Tail(s)[i] = s[i + 1]
  BY HeadTailProperties
<1>6. /\ Tail(s) \o t \in Seq(S) /\ Len(Tail(s) \o t) = Len(s) - 1 + Len(t)
      /\ \A i \in 1 .. Len(s) - 1 + Len(t) :
           (Tail(s) \o t)[i] = IF i <= Len(s) - 1 THEN Tail(s)[i] ELSE t[i - (Len(s) - 1)]
  BY <1>5, ConcatProperties
<1>7. \A i \in 1 .. Len(s) + Len(t) - 1 : Tail(s \o t)[i] = (Tail(s) \o t)[i]
  BY <1>1, <1>2, <1>4, <1>5, <1>6
<1>8. Tail(s \o t) = Tail(s) \o t
  BY <1>2, <1>4, <1>6, <1>7, SeqEqual
<1>9. Head(s \o t) = Head(s)
  BY <1>1, <1>2
<1>. QED BY <1>3, <1>8, <1>9

\* Taking the tokens commutes with the operations on a queue.
LEMMA TokensOfQueue ==
  ASSUME NEW S, \A x \in S : x.token \in Work, NEW queue \in Seq(S), NEW x \in S
  PROVE  /\ TokensOf(queue) \in Seq(Work) /\ Len(TokensOf(queue)) = Len(queue)
         /\ \A i \in 1 .. Len(queue) : TokensOf(queue)[i] = queue[i].token
         /\ TokensOf(Append(queue, x)) = Append(TokensOf(queue), x.token)
         /\ queue # <<>> => /\ TokensOf(queue) # <<>>
                            /\ TokensOf(Tail(queue)) = Tail(TokensOf(queue))
                            /\ Head(TokensOf(queue)) = Head(queue).token
<1>1. \A q \in Seq(S) :
        /\ TokensOf(q) \in Seq(Work) /\ Len(TokensOf(q)) = Len(q)
        /\ \A i \in 1 .. Len(q) : TokensOf(q)[i] = q[i].token
  <2>. SUFFICES ASSUME NEW q \in Seq(S)
                PROVE  /\ TokensOf(q) \in Seq(Work) /\ Len(TokensOf(q)) = Len(q)
                       /\ \A i \in 1 .. Len(q) : TokensOf(q)[i] = q[i].token
    OBVIOUS
  <2>1. DOMAIN q = 1 .. Len(q) /\ Len(q) \in Nat /\ \A i \in 1 .. Len(q) : q[i] \in S
    BY LenProperties, ElementOfSeq
  <2>2. TokensOf(q) \in [1 .. Len(q) -> Work]
    BY <2>1 DEF TokensOf
  <2>3. TokensOf(q) \in Seq(Work)
    BY <2>1, <2>2, SeqDef
  <2>. QED BY <2>1, <2>2, <2>3, LenProperties DEF TokensOf
<1>2. /\ Append(queue, x) \in Seq(S) /\ Len(Append(queue, x)) = Len(queue) + 1
      /\ \A i \in 1 .. Len(queue) : Append(queue, x)[i] = queue[i]
      /\ Append(queue, x)[Len(queue) + 1] = x
  BY AppendProperties
<1>3. TokensOf(Append(queue, x)) = Append(TokensOf(queue), x.token)
  <2>1. Len(queue) \in Nat
    BY LenProperties
  <2>2. /\ Append(TokensOf(queue), x.token) \in Seq(Work)
        /\ Len(Append(TokensOf(queue), x.token)) = Len(queue) + 1
        /\ \A i \in 1 .. Len(queue) : Append(TokensOf(queue), x.token)[i] = queue[i].token
        /\ Append(TokensOf(queue), x.token)[Len(queue) + 1] = x.token
    BY <1>1, <2>1, AppendProperties
  <2>3. /\ TokensOf(Append(queue, x)) \in Seq(Work)
        /\ Len(TokensOf(Append(queue, x))) = Len(queue) + 1
        /\ \A i \in 1 .. Len(queue) + 1 :
             TokensOf(Append(queue, x))[i] = Append(queue, x)[i].token
    BY <1>1, <1>2
  <2>4. ASSUME NEW i \in 1 .. Len(queue) + 1
        PROVE  TokensOf(Append(queue, x))[i] = Append(TokensOf(queue), x.token)[i]
    <3>1. CASE i \in 1 .. Len(queue)
      BY <1>2, <2>2, <2>3, <3>1
    <3>2. CASE i = Len(queue) + 1
      <4>1. TokensOf(Append(queue, x))[Len(queue) + 1] = Append(queue, x)[Len(queue) + 1].token
        BY <2>3, <3>2
      <4>2. Append(queue, x)[Len(queue) + 1] = x
        BY <1>2
      <4>3. Append(TokensOf(queue), x.token)[Len(queue) + 1] = x.token
        BY <2>2
      <4>. QED BY <3>2, <4>1, <4>2, <4>3
    <3>3. i \in 1 .. Len(queue) \/ i = Len(queue) + 1
      BY <2>1
    <3>. QED BY <3>1, <3>2, <3>3
  <2>. QED BY <2>2, <2>3, <2>4, SeqEqual
<1>4. ASSUME queue # <<>>
      PROVE  /\ TokensOf(queue) # <<>>
             /\ TokensOf(Tail(queue)) = Tail(TokensOf(queue))
             /\ Head(TokensOf(queue)) = Head(queue).token
  <2>1. /\ Tail(queue) \in Seq(S) /\ Len(Tail(queue)) = Len(queue) - 1
        /\ \A i \in 1 .. Len(queue) - 1 : Tail(queue)[i] = queue[i + 1]
        /\ Len(queue) \in Nat /\ Len(queue) >= 1
    BY <1>4, HeadTailProperties, EmptySeq, LenProperties
  <2>2. TokensOf(queue) # <<>>
    BY <1>1, <2>1, EmptySeq
  <2>3. /\ Tail(TokensOf(queue)) \in Seq(Work)
        /\ Len(Tail(TokensOf(queue))) = Len(queue) - 1
        /\ \A i \in 1 .. Len(queue) - 1 : Tail(TokensOf(queue))[i] = TokensOf(queue)[i + 1]
    BY <1>1, <2>2, HeadTailProperties
  <2>4. ASSUME NEW i \in 1 .. Len(queue) - 1
        PROVE  TokensOf(Tail(queue))[i] = Tail(TokensOf(queue))[i]
    <3>1. i + 1 \in 1 .. Len(queue)
      BY <2>1
    <3>2. TokensOf(queue)[i + 1] = queue[i + 1].token
      BY <1>1, <3>1
    <3>3. TokensOf(Tail(queue))[i] = Tail(queue)[i].token
      BY <1>1, <2>1
    <3>. QED BY <2>1, <2>3, <3>2, <3>3
  <2>5. TokensOf(Tail(queue)) = Tail(TokensOf(queue))
    BY <1>1, <2>1, <2>3, <2>4, SeqEqual
  <2>6. Head(TokensOf(queue)) = Head(queue).token
    BY <1>1, <2>1
  <2>. QED BY <2>2, <2>5, <2>6
<1>. QED BY <1>1, <1>3, <1>4

\* Jobs and results have the tokens they should have.
LEMMA WorkTokens ==
  /\ \A job \in Job : job.token \in Work
  /\ \A job \in Job : job \in WorkJob <=> job.token # None
  /\ \A result \in Result : result.token \in Work
  /\ \A result \in Result : (result.kind = "Command") <=> (result.token # None)
  /\ \A result \in Result : result.kind # "Command" =>
       result.kind = "Emergency" /\ result.inputState = {}
  /\ \A result \in Result : result.inputState \in InputState
  /\ WorkToken \subseteq Token /\ None \notin WorkToken
BY NoneAssumption DEF Job, WorkJob, EmergencyJob, Work, WorkToken, Result, InputState

\* What is in each stage of the pipeline.
LEMMA Stages ==
  ASSUME TypeOK
  PROVE  /\ TokensOf(results) \in Seq(Work) /\ TokenInExecutor \in Seq(Work)
         /\ TokensOf(jobs) \in Seq(Work) /\ TokenBeingSent \in Seq(Work)
         /\ Len(TokensOf(results)) = Len(results) /\ Len(results) \in Nat
         /\ \A i \in 1 .. Len(results) : TokensOf(results)[i] = results[i].token
         /\ Len(TokenInExecutor) = IF executor.phase = "Idle" THEN 0 ELSE 1
         /\ executor.phase # "Idle" => TokenInExecutor[1] = executor.job.token
         /\ Len(TokensOf(jobs)) = Len(jobs) /\ Len(jobs) \in Nat /\ Len(jobs) <= 1
         /\ \A i \in 1 .. Len(jobs) : TokensOf(jobs)[i] = jobs[i].token
         /\ Len(TokenBeingSent) = IF sending = None THEN 0 ELSE 1
         /\ sending # None => TokenBeingSent[1] = sending.token
         /\ Pipeline \in Seq(Work) /\ Owner \in Work
<1>1. results \in Seq(Result) /\ jobs \in Seq(Job) /\ Len(jobs) <= 1
      /\ executor.job \in Job /\ sending \in Job \cup {None} /\ CoordinatorTypeOK
  BY DEF TypeOK, Executor
<1>2. Len(results) \in Nat /\ Len(jobs) \in Nat /\ Len(jobs) <= 1
  BY <1>1, LenProperties
<1>3. EmergencyJob \in Job
  BY DEF Job
<1>4. /\ TokensOf(jobs) \in Seq(Work) /\ Len(TokensOf(jobs)) = Len(jobs)
      /\ \A i \in 1 .. Len(jobs) : TokensOf(jobs)[i] = jobs[i].token
  BY <1>1, <1>3, TokensOfQueue, WorkTokens
<1>5. /\ TokensOf(results) \in Seq(Work) /\ Len(TokensOf(results)) = Len(results)
      /\ \A i \in 1 .. Len(results) : TokensOf(results)[i] = results[i].token
  <2>1. [kind |-> "Emergency", token |-> None, answer |-> "Ack", inputState |-> {}] \in Result
    BY DEF Result
  <2>. QED BY <1>1, <2>1, TokensOfQueue, WorkTokens
<1>6. /\ TokenInExecutor \in Seq(Work)
      /\ Len(TokenInExecutor) = IF executor.phase = "Idle" THEN 0 ELSE 1
      /\ executor.phase # "Idle" => TokenInExecutor[1] = executor.job.token
  BY <1>1, WorkTokens, EmptySeq DEF TokenInExecutor
<1>7. /\ TokenBeingSent \in Seq(Work)
      /\ Len(TokenBeingSent) = IF sending = None THEN 0 ELSE 1
      /\ sending # None => TokenBeingSent[1] = sending.token
  BY <1>1, WorkTokens, EmptySeq DEF TokenBeingSent
<1>8. Pipeline \in Seq(Work)
  BY <1>4, <1>5, <1>6, <1>7, ConcatProperties DEF Pipeline
<1>9. Owner \in Work
  BY <1>1 DEF Owner, Work, CoordinatorTypeOK
<1>. QED BY <1>2, <1>4, <1>5, <1>6, <1>7, <1>8, <1>9

\* A sequence of at most two elements is what its elements say.
LEMMA ShortSequence ==
  ASSUME NEW S, NEW s \in Seq(S)
  PROVE  /\ Len(s) = 1 => s = <<s[1]>>
         /\ Len(s) = 2 => s = <<s[1], s[2]>>
<1>1. CASE Len(s) = 1
  <2>1. s[1] \in S
    BY <1>1, ElementOfSeq
  <2>2. <<s[1]>> \in Seq(S) /\ Len(<<s[1]>>) = 1
    BY <2>1
  <2>. QED BY <1>1, <2>2, SeqEqual
<1>2. CASE Len(s) = 2
  <2>1. s[1] \in S /\ s[2] \in S
    BY <1>2, ElementOfSeq
  <2>2. <<s[1], s[2]>> \in Seq(S) /\ Len(<<s[1], s[2]>>) = 2
    BY <2>1
  <2>. QED BY <1>2, <2>2, SeqEqual
<1>. QED BY <1>1, <1>2

\* Two elements in a row.
LEMMA PairAppended ==
  ASSUME NEW S, NEW x \in S, NEW y \in S
  PROVE  Append(<<x>>, y) = <<x, y>>
<1>1. <<x>> \in Seq(S) /\ Len(<<x>>) = 1 /\ <<x>>[1] = x
  OBVIOUS
<1>2. /\ Append(<<x>>, y) \in Seq(S) /\ Len(Append(<<x>>, y)) = 2
      /\ Append(<<x>>, y)[1] = x /\ Append(<<x>>, y)[2] = y
  BY <1>1, AppendProperties
<1>. QED BY <1>2, ShortSequence

\* A sequence of at most one element, that is not empty, is that element.
LEMMA SingleElement ==
  ASSUME NEW S, NEW s \in Seq(S), Len(s) <= 1, s # <<>>
  PROVE  s = <<Head(s)>> /\ Head(s) \in S
<1> DEFINE n == Len(s)
<1>1. n \in Nat \ {0} /\ n <= 1
  BY EmptySeq
<1>2. n = 1
  <2>. HIDE DEF n
  <2>. QED BY <1>1
<1>3. s = <<s[1]>> /\ s[1] \in S
  BY <1>2, ShortSequence, ElementOfSeq
<1>. QED BY <1>3

\* The four forms of the pipeline.
LEMMA PipelineForms ==
  ASSUME Pipeline \in Seq(Work), Owner \in Work
  PROVE  PipelineIsOwnerThenRelease <=>
           \/ ~emergencyInFlight /\ Owner = None /\ Pipeline = <<>>
           \/ ~emergencyInFlight /\ Owner # None /\ Pipeline = <<Owner>>
           \/ emergencyInFlight /\ Owner = None /\ Pipeline = <<None>>
           \/ /\ emergencyInFlight
              /\ \E t \in Token : Pipeline = <<t, None>> /\ Owner \in {None, t}
<1>1. ASSUME emergencyInFlight, Len(Pipeline) \in {1, 2}, Pipeline[Len(Pipeline)] = None,
             Len(Pipeline) = 2 => Pipeline[1] # None,
             Owner # None => Pipeline = <<Owner, None>>
      PROVE  \/ Owner = None /\ Pipeline = <<None>>
             \/ \E t \in Token : Pipeline = <<t, None>> /\ Owner \in {None, t}
  <2>1. CASE Len(Pipeline) = 1
    <3>1. Pipeline = <<None>>
      BY <1>1, <2>1, ShortSequence
    <3>2. Owner = None
      BY <1>1, <2>1, <3>1
    <3>. QED BY <3>1, <3>2
  <2>2. CASE Len(Pipeline) = 2
    <3>1. Pipeline[1] \in Token
      BY <1>1, <2>2, ElementOfSeq DEF Work
    <3>2. Pipeline = <<Pipeline[1], None>>
      BY <1>1, <2>2, ShortSequence
    <3>3. Owner \in {None, Pipeline[1]}
      BY <1>1
    <3>. QED BY <3>1, <3>2, <3>3
  <2>. QED BY <1>1, <2>1, <2>2
<1>2. ASSUME NEW t \in Token, Pipeline = <<t, None>>, Owner \in {None, t}
      PROVE  /\ Len(Pipeline) \in {1, 2} /\ Pipeline[Len(Pipeline)] = None
             /\ Len(Pipeline) = 2 => Pipeline[1] # None
             /\ Owner # None => Pipeline = <<Owner, None>>
  BY <1>2, NoneAssumption
<1>3. ASSUME Pipeline = <<None>>, Owner = None
      PROVE  /\ Len(Pipeline) \in {1, 2} /\ Pipeline[Len(Pipeline)] = None
             /\ Len(Pipeline) = 2 => Pipeline[1] # None
             /\ Owner # None => Pipeline = <<Owner, None>>
  BY <1>3
<1>. QED BY <1>1, <1>2, <1>3 DEF PipelineIsOwnerThenRelease

\* The tokens of no job and of one.
LEMMA TokensOfFew ==
  /\ TokensOf(<<>>) = <<>>
  /\ \A job \in Job : TokensOf(<<job>>) = <<job.token>>
<1>1. \A job \in Job : job.token \in Work
  BY WorkTokens
<1>2. TokensOf(<<>>) = <<>>
  BY DEF TokensOf
<1>3. ASSUME NEW job \in Job PROVE TokensOf(<<job>>) = <<job.token>>
  BY DEF TokensOf
<1>. QED BY <1>2, <1>3

\* SendJob, TakeJob and PublishResult hand work on.
LEMMA WorkIsHandedOn ==
  ASSUME TypeOK,
         \/ /\ sending # None /\ jobs = <<>> /\ jobs' = <<sending>> /\ sending' = None
            /\ UNCHANGED <<results, executor>>
         \/ /\ executor.phase = "Idle" /\ jobs # <<>> /\ jobs' = <<>>
            /\ executor'.phase # "Idle" /\ executor'.job = Head(jobs)
            /\ UNCHANGED <<results, sending>>
         \/ /\ executor.phase # "Idle" /\ executor'.phase = "Idle"
            /\ \E result \in Result : /\ result.token = executor.job.token
                                     /\ results' = Append(results, result)
            /\ UNCHANGED <<jobs, sending>>
         \/ /\ executor.phase # "Idle" /\ executor'.phase # "Idle"
            /\ executor'.job = executor.job
            /\ UNCHANGED <<results, jobs, sending>>
  PROVE  Pipeline' = Pipeline
<1> DEFINE R == TokensOf(results)
           E == TokenInExecutor
           J == TokensOf(jobs)
           S == TokenBeingSent
<1>1. R \in Seq(Work) /\ E \in Seq(Work) /\ J \in Seq(Work) /\ S \in Seq(Work)
      /\ results \in Seq(Result) /\ jobs \in Seq(Job)
      /\ sending \in Job \cup {None} /\ executor.job \in Job
  BY Stages DEF TypeOK, Executor
<1>0. Len(jobs) \in Nat
  BY Stages
<1>2. Pipeline = ((R \o E) \o J) \o S /\ Pipeline' = ((R' \o E') \o J') \o S'
  BY DEF Pipeline
<1>3. /\ R \o E \in Seq(Work) /\ (R \o E) \o J \in Seq(Work)
      /\ R \o <<>> = R /\ (R \o E) \o <<>> = R \o E
      /\ ((R \o E) \o J) \o <<>> = (R \o E) \o J
  BY <1>1, ConcatProperties, ConcatEmptySeq
<1>. HIDE DEF R, E, J, S
<1>4. CASE /\ sending # None /\ jobs = <<>> /\ jobs' = <<sending>> /\ sending' = None
           /\ UNCHANGED <<results, executor>>
  <2>1. R' = R /\ E' = E
    BY <1>4 DEF R, E, TokenInExecutor
  <2>2. S = <<sending.token>> /\ S' = <<>> /\ J = <<>> /\ J' = <<sending.token>>
    BY <1>1, <1>4, TokensOfFew DEF S, J, TokenBeingSent
  <2>3. <<sending.token>> \in Seq(Work)
    BY <1>1, <2>2
  <2>4. ((R \o E) \o <<sending.token>>) \o <<>> = (R \o E) \o <<sending.token>>
    BY <1>3, <2>3, ConcatProperties, ConcatEmptySeq
  <2>. QED BY <1>2, <1>3, <2>1, <2>2, <2>4
<1>5. CASE /\ executor.phase = "Idle" /\ jobs # <<>> /\ jobs' = <<>>
           /\ executor'.phase # "Idle" /\ executor'.job = Head(jobs)
           /\ UNCHANGED <<results, sending>>
  <2>1. R' = R /\ S' = S
    BY <1>5 DEF R, S, TokenBeingSent
  <2>2. jobs = <<Head(jobs)>> /\ Head(jobs) \in Job
    <3>1. Len(jobs) <= 1
      BY Stages
    <3>2. jobs # <<>>
      BY <1>5
    <3>. QED BY <1>1, <3>1, <3>2, SingleElement
  <2>3. E = <<>> /\ E' = <<Head(jobs).token>>
    BY <1>5 DEF E, TokenInExecutor
  <2>4. J = <<Head(jobs).token>> /\ J' = <<>>
    BY <1>5, <2>2, TokensOfFew DEF J
  <2>5. <<Head(jobs).token>> \in Seq(Work)
    BY <1>1, <2>4
  <2>6. (R \o <<>>) \o <<Head(jobs).token>> = (R \o <<Head(jobs).token>>) \o <<>>
    BY <1>1, <1>3, <2>5, ConcatProperties, ConcatEmptySeq
  <2>. QED BY <1>2, <2>1, <2>3, <2>4, <2>6
<1>6. CASE /\ executor.phase # "Idle" /\ executor'.phase = "Idle"
           /\ \E result \in Result : /\ result.token = executor.job.token
                                    /\ results' = Append(results, result)
           /\ UNCHANGED <<jobs, sending>>
  <2>1. J' = J /\ S' = S
    BY <1>6 DEF J, S, TokenBeingSent
  <2>2. E = <<executor.job.token>> /\ E' = <<>>
    BY <1>6 DEF E, TokenInExecutor
  <2>3. PICK result \in Result : /\ result.token = executor.job.token
                                 /\ results' = Append(results, result)
    BY <1>6
  <2>4. TokensOf(Append(results, result)) = Append(TokensOf(results), result.token)
    <3>1. \A x \in Result : x.token \in Work
      BY WorkTokens
    <3>. QED BY <1>1, <3>1, TokensOfQueue
  <2>5. R' = Append(R, executor.job.token)
    BY <2>3, <2>4 DEF R
  <2>6. executor.job.token \in Work
    BY <1>1, WorkTokens
  <2>7. R' = R \o E
    BY <1>1, <2>2, <2>5, <2>6, AppendIsConcat
  <2>8. R' \o <<>> = R'
    BY <1>3, <2>7, ConcatEmptySeq
  <2>. QED BY <1>2, <2>1, <2>2, <2>7, <2>8
<1>7. CASE /\ executor.phase # "Idle" /\ executor'.phase # "Idle"
           /\ executor'.job = executor.job
           /\ UNCHANGED <<results, jobs, sending>>
  BY <1>2, <1>7 DEF R, E, J, S, TokenInExecutor, TokenBeingSent
<1>. QED BY <1>4, <1>5, <1>6, <1>7

\* The dispatcher takes the oldest result from the front ...
LEMMA ResultIsTaken ==
  ASSUME TypeOK, results # <<>>, results' = Tail(results), UNCHANGED <<executor, jobs, sending>>
  PROVE  /\ Pipeline # <<>> /\ Head(Pipeline) = Head(results).token
         /\ Pipeline' = Tail(Pipeline)
<1> DEFINE R == TokensOf(results)
           E == TokenInExecutor
           J == TokensOf(jobs)
           S == TokenBeingSent
<1>1. R \in Seq(Work) /\ E \in Seq(Work) /\ J \in Seq(Work) /\ S \in Seq(Work)
      /\ results \in Seq(Result)
  BY Stages DEF TypeOK
<1>2. R # <<>> /\ R' = Tail(R) /\ Head(R) = Head(results).token
  BY <1>1, TokensOfQueue, WorkTokens, HeadTailProperties
<1>3. E' = E /\ J' = J /\ S' = S
  BY DEF TokenInExecutor, TokenBeingSent
<1>4. Pipeline = ((R \o E) \o J) \o S /\ Pipeline' = ((R' \o E') \o J') \o S'
  BY DEF Pipeline
<1>. HIDE DEF R, E, J, S
<1> DEFINE A == R \o E
           B == A \o J
<1>5. A \in Seq(Work) /\ A # <<>> /\ Head(A) = Head(R) /\ Tail(A) = Tail(R) \o E
  BY <1>1, <1>2, ConcatFirst, ConcatProperties
<1>. HIDE DEF A
<1>6. B \in Seq(Work) /\ B # <<>> /\ Head(B) = Head(A) /\ Tail(B) = Tail(A) \o J
  <2>1. A \in Seq(Work) /\ J \in Seq(Work) /\ A # <<>>
    BY <1>1, <1>5
  <2>2. A \o J \in Seq(Work)
    BY <2>1, ConcatProperties
  <2>3. /\ A \o J # <<>> /\ Head(A \o J) = Head(A)
        /\ Tail(A \o J) = Tail(A) \o J
    BY <2>1, ConcatFirst
  <2>. QED BY <2>2, <2>3
<1>. HIDE DEF B
<1>7. B \o S # <<>> /\ Head(B \o S) = Head(B) /\ Tail(B \o S) = Tail(B) \o S
  BY <1>1, <1>6, ConcatFirst
<1>. QED BY <1>2, <1>3, <1>4, <1>5, <1>6, <1>7 DEF A, B

\* ... and puts new work at the end.
LEMMA WorkIsSent ==
  ASSUME TypeOK, sending = None, NEW job \in Job, sending' = job,
         UNCHANGED <<results, executor, jobs>>
  PROVE  Pipeline' = Append(Pipeline, job.token)
<1> DEFINE P == (TokensOf(results) \o TokenInExecutor) \o TokensOf(jobs)
<1>1. P \in Seq(Work)
  BY Stages, ConcatProperties
<1>2. Pipeline = P \o <<>>
  BY DEF Pipeline, TokenBeingSent
<1>3. Pipeline' = P \o <<job.token>>
  BY PipelineAssumption DEF Pipeline, TokenBeingSent, TokenInExecutor
<1>4. P \o <<>> = P /\ P \o <<job.token>> = Append(P, job.token)
  BY <1>1, ConcatEmptySeq, AppendIsConcat, WorkTokens
<1>. QED BY <1>2, <1>3, <1>4
-----------------------------------------------------------------------------
(* Where work is in the pipeline.                                          *)

\* Only the first place can hold an ordinary job.
LEMMA OrdinaryIsFirst ==
  ASSUME Pipeline \in Seq(Work), Owner \in Work, PipelineIsOwnerThenRelease,
         NEW k \in 1 .. Len(Pipeline), Pipeline[k] # None
  PROVE  k = 1
<1>1. CASE Pipeline = <<>>
  <2>1. Len(Pipeline) = 0
    BY <1>1
  <2>. QED BY <2>1
<1>2. CASE Pipeline = <<Owner>> \/ Pipeline = <<None>>
  <2>1. Len(Pipeline) = 1
    BY <1>2
  <2>. QED BY <2>1
<1>3. ASSUME NEW t \in Token, Pipeline = <<t, None>>
      PROVE  k = 1
  <2>1. Len(Pipeline) = 2 /\ Pipeline[2] = None
    BY <1>3
  <2>. QED BY <2>1
<1>. QED BY <1>1, <1>2, <1>3, PipelineForms

\* How long the pipeline is, and where in it the dispatcher's job and JOBS are.
LEMMA Places ==
  ASSUME TypeOK
  PROVE  /\ Len(Pipeline) = Len(results) + Len(TokenInExecutor) + Len(jobs)
                              + Len(TokenBeingSent)
         /\ sending # None => Pipeline[Len(Pipeline)] = sending.token
         /\ jobs # <<>> => Pipeline[Len(results) + Len(TokenInExecutor) + 1] = jobs[1].token
<1> DEFINE R == TokensOf(results)
           E == TokenInExecutor
           J == TokensOf(jobs)
           S == TokenBeingSent
           A == R \o E
           B == A \o J
<1>1. R \in Seq(Work) /\ E \in Seq(Work) /\ J \in Seq(Work) /\ S \in Seq(Work)
  BY Stages
<1>2. Len(R) = Len(results) /\ Len(J) = Len(jobs) /\ Len(results) \in Nat /\ Len(jobs) \in Nat
  BY Stages
<1>3. sending # None => Len(S) = 1 /\ S[1] = sending.token
  BY Stages
<1>4. jobs # <<>> => Len(J) = 1 /\ J[1] = jobs[1].token
  <2>1. SUFFICES ASSUME jobs # <<>>
                 PROVE  Len(J) = 1 /\ J[1] = jobs[1].token
    OBVIOUS
  <2>2. jobs \in Seq(Job) /\ Len(jobs) <= 1
    BY DEF TypeOK
  <2>3. jobs = <<Head(jobs)>>
    BY <2>1, <2>2, SingleElement
  <2>4. Len(jobs) = 1
    BY <2>3
  <2>. QED BY <2>4, Stages
<1>5. Pipeline = B \o S
  BY DEF Pipeline
<1>. HIDE DEF R, E, J, S
<1>6. A \in Seq(Work) /\ Len(A) = Len(R) + Len(E)
  BY <1>1, ConcatProperties
<1>. HIDE DEF A
<1>7. B \in Seq(Work) /\ Len(B) = Len(A) + Len(J)
      /\ \A i \in 1 .. Len(A) + Len(J) : B[i] = IF i <= Len(A) THEN A[i] ELSE J[i - Len(A)]
  <2>1. A \in Seq(Work) /\ J \in Seq(Work)
    BY <1>1, <1>6
  <2>2. B = A \o J
    OBVIOUS
  <2>. HIDE DEF B
  <2>3. /\ A \o J \in Seq(Work) /\ Len(A \o J) = Len(A) + Len(J)
        /\ \A i \in 1 .. Len(A) + Len(J) :
             (A \o J)[i] = IF i <= Len(A) THEN A[i] ELSE J[i - Len(A)]
    BY <2>1, ConcatProperties
  <2>. QED BY <2>2, <2>3
<1>. HIDE DEF B
<1>b. B \in Seq(Work)
  BY <1>7
<1>8. Len(B \o S) = Len(B) + Len(S)
      /\ \A i \in 1 .. Len(B) + Len(S) : (B \o S)[i] = IF i <= Len(B) THEN B[i] ELSE S[i - Len(B)]
  BY <1>1, <1>b, ConcatProperties
<1>9. Len(A) \in Nat /\ Len(B) \in Nat /\ Len(S) \in Nat /\ Len(J) \in Nat /\ Len(E) \in Nat
  BY <1>1, <1>6, <1>7, LenProperties
<1>10. sending # None => (B \o S)[Len(B \o S)] = sending.token
  <2>1. SUFFICES ASSUME sending # None
                 PROVE  (B \o S)[Len(B \o S)] = sending.token
    OBVIOUS
  <2>2. Len(B \o S) = Len(B) + 1 /\ Len(S) = 1
    BY <1>3, <1>8, <2>1
  <2>3. (B \o S)[Len(B) + 1] = S[1]
    BY <1>8, <1>9, <2>2
  <2>. QED BY <1>3, <2>1, <2>2, <2>3
<1>11. jobs # <<>> => (B \o S)[Len(A) + 1] = jobs[1].token
  <2>1. SUFFICES ASSUME jobs # <<>>
                 PROVE  (B \o S)[Len(A) + 1] = jobs[1].token
    OBVIOUS
  <2>2. Len(B) = Len(A) + 1 /\ Len(J) = 1
    BY <1>4, <1>7, <2>1
  <2>3. (B \o S)[Len(A) + 1] = B[Len(A) + 1]
    BY <1>8, <1>9, <2>2
  <2>4. B[Len(A) + 1] = J[1]
    BY <1>7, <1>9, <2>2
  <2>. QED BY <1>4, <2>1, <2>3, <2>4
<1>. QED BY <1>2, <1>5, <1>6, <1>7, <1>8, <1>10, <1>11 DEF E, S

\* An ordinary job that waits is the only work up to its place.
LEMMA NothingAhead ==
  ASSUME TypeOK, PipelineIsOwnerThenRelease
  PROVE  /\ sending \in WorkJob => results = <<>> /\ executor.phase = "Idle" /\ jobs = <<>>
         /\ \A i \in DOMAIN jobs : jobs[i] \in WorkJob =>
              results = <<>> /\ executor.phase = "Idle"
<1>a. Len(results) \in Nat
  BY Stages
<1>b. Len(jobs) \in Nat
  BY Stages
<1>c. Len(TokenInExecutor) \in Nat
  BY Stages, LenProperties
<1>d. Len(TokenBeingSent) \in Nat
  BY Stages, LenProperties
<1>1. Pipeline \in Seq(Work) /\ Owner \in Work
      /\ Len(TokenInExecutor) = (IF executor.phase = "Idle" THEN 0 ELSE 1)
      /\ Len(TokenBeingSent) = (IF sending = None THEN 0 ELSE 1)
  BY Stages
<1>2. results \in Seq(Result) /\ jobs \in Seq(Job) /\ Len(jobs) <= 1
  BY DEF TypeOK
<1>3. Len(Pipeline) = Len(results) + Len(TokenInExecutor) + Len(jobs) + Len(TokenBeingSent)
  BY Places
<1>4. ASSUME sending \in WorkJob
      PROVE  results = <<>> /\ executor.phase = "Idle" /\ jobs = <<>>
  <2>1. sending # None /\ sending.token # None
    BY <1>4, PipelineAssumption, WorkTokens DEF Job
  <2>2. Pipeline[Len(Pipeline)] # None
    BY <2>1, Places
  <2>3. Len(TokenBeingSent) = 1
    BY <1>1, <2>1
  <2>4. Len(Pipeline) \in 1 .. Len(Pipeline)
    BY <1>a, <1>b, <1>c, <1>3, <2>3
  <2>5. Len(Pipeline) = 1
    BY <1>1, <2>2, <2>4, OrdinaryIsFirst
  <2>7. 1 = Len(results) + Len(TokenInExecutor) + Len(jobs) + 1
    BY <1>3, <2>3, <2>5
  <2>6. Len(results) = 0 /\ Len(TokenInExecutor) = 0 /\ Len(jobs) = 0
    BY <1>a, <1>b, <1>c, <2>7
  <2>. QED BY <1>1, <1>2, <2>6, EmptySeq
<1>5. ASSUME NEW i \in DOMAIN jobs, jobs[i] \in WorkJob
      PROVE  results = <<>> /\ executor.phase = "Idle"
  <2>1. jobs # <<>>
    BY <1>2, <1>5, EmptySeq, LenProperties
  <2>2. jobs = <<Head(jobs)>>
    BY <1>2, <2>1, SingleElement
  <2>3. Len(jobs) = 1
    BY <2>2
  <2>9. i = 1
    BY <1>2, <1>5, <2>3, LenProperties
  <2>4. jobs[1].token # None
    BY <1>5, <2>9, WorkTokens DEF Job
  <2>5. Pipeline[Len(results) + Len(TokenInExecutor) + 1] # None
    BY <2>1, <2>4, Places
  <2>6. Len(results) + Len(TokenInExecutor) + 1 \in 1 .. Len(Pipeline)
    BY <1>a, <1>c, <1>d, <1>3, <2>3
  <2>7. Len(results) + Len(TokenInExecutor) + 1 = 1
    BY <1>1, <2>5, <2>6, OrdinaryIsFirst
  <2>8. Len(results) = 0 /\ Len(TokenInExecutor) = 0
    BY <1>a, <1>c, <2>7
  <2>. QED BY <1>1, <1>2, <2>8, EmptySeq
<1>. QED BY <1>4, <1>5

\* An empty pipeline means that every stage is.
LEMMA NothingAnywhere ==
  ASSUME TypeOK, PipelineIsOwnerThenRelease, ~emergencyInFlight, Owner = None
  PROVE  /\ Pipeline = <<>> /\ results = <<>> /\ executor.phase = "Idle" /\ jobs = <<>>
         /\ sending = None
<1>a. Len(results) \in Nat
  BY Stages
<1>b. Len(jobs) \in Nat
  BY Stages
<1>c. Len(TokenInExecutor) \in Nat
  BY Stages, LenProperties
<1>d. Len(TokenBeingSent) \in Nat
  BY Stages, LenProperties
<1>1. /\ Len(TokenInExecutor) = (IF executor.phase = "Idle" THEN 0 ELSE 1)
      /\ Len(TokenBeingSent) = (IF sending = None THEN 0 ELSE 1)
  BY Stages
<1>2. results \in Seq(Result) /\ jobs \in Seq(Job)
  BY DEF TypeOK
<1>3. Len(Pipeline) = Len(results) + Len(TokenInExecutor) + Len(jobs) + Len(TokenBeingSent)
  BY Places
<1>4. Pipeline = <<>>
  BY DEF PipelineIsOwnerThenRelease
<1>5. Len(Pipeline) = 0
  BY <1>4
<1>6. Len(results) = 0 /\ Len(jobs) = 0 /\ Len(TokenInExecutor) = 0 /\ Len(TokenBeingSent) = 0
  BY <1>a, <1>b, <1>c, <1>d, <1>3, <1>5
<1>. QED BY <1>1, <1>2, <1>4, <1>6, EmptySeq

-----------------------------------------------------------------------------
(* Commands and their plans.                                               *)

\* A command leads from one input state to another.
LEMMA AfterType ==
  ASSUME NEW command \in Mutation, NEW held \in InputState
  PROVE  After(command, held) \in InputState
<1>1. Effect[command].key \in Key
  BY PipelineAssumption
<1>. QED BY <1>1 DEF After, InputState

\* A plan ends where the command leads; only a plan that is one delay ends in one.
LEMMA PlanOfCommand ==
  ASSUME NEW command \in Mutation, NEW held \in InputState
  PROVE  /\ Plan(command, held) \in Seq(Step) /\ Plan(command, held) # <<>>
         /\ LET plan == Plan(command, held)
            IN  plan[Len(plan)].kind = "Delay" => Len(plan) = 1
         /\ PlanEnd(Plan(command, held), held) = After(command, held)
<1> DEFINE key == Effect[command].key
<1>1. Effect[command].op \in {"Down", "Up", "Tap", "Move", "Wait"} /\ key \in Key
  BY PipelineAssumption
<1>2. /\ \A h \in InputState : Report(h) \in Step /\ Chained(h) \in Step
      /\ Delay \in Step
      /\ held \ {key} \in InputState /\ held \cup {key} \in InputState
      /\ After(command, held) \in InputState
  BY <1>1, AfterType DEF Step, Report, Chained, Delay, InputState
<1>3. CASE Effect[command].op = "Wait"
  <2>1. Plan(command, held) = <<Delay>>
    BY <1>3 DEF Plan
  <2>2. After(command, held) = held
    BY <1>3 DEF After
  <2>. QED BY <1>2, <2>1, <2>2 DEF PlanEnd, Delay
<1>4. CASE Effect[command].op = "Move"
  <2>1. Plan(command, held) = <<Report(held), Chained(held)>>
    BY <1>4 DEF Plan
  <2>2. After(command, held) = held
    BY <1>4 DEF After
  <2>. QED BY <1>2, <2>1, <2>2 DEF PlanEnd, Chained
<1>5. CASE Effect[command].op \in {"Down", "Up"}
  <2>1. Plan(command, held) = <<Report(After(command, held))>>
    BY <1>5 DEF Plan
  <2>. QED BY <1>2, <2>1 DEF PlanEnd, Report
<1>6. CASE Effect[command].op = "Tap" /\ key \in held
  <2>1. Plan(command, held) =
          <<Report(held \ {key}), Delay, Report(held), Delay, Report(held)>>
    BY <1>6 DEF Plan
  <2>2. After(command, held) = held
    BY <1>6 DEF After
  <2> DEFINE plan == Plan(command, held)
  <2>3. plan \in Seq(Step) /\ plan # <<>> /\ Len(plan) = 5 /\ plan[5] = Report(held)
    BY <1>2, <2>1
  <2>. QED BY <2>2, <2>3 DEF PlanEnd, Report
<1>7. CASE Effect[command].op = "Tap" /\ key \notin held
  <2>1. Plan(command, held) = <<Report(held \cup {key}), Delay, Report(held)>>
    BY <1>7 DEF Plan
  <2>2. After(command, held) = held
    BY <1>7 DEF After
  <2> DEFINE plan == Plan(command, held)
  <2>3. plan \in Seq(Step) /\ plan # <<>> /\ Len(plan) = 3 /\ plan[3] = Report(held)
    BY <1>2, <2>1
  <2>. QED BY <2>2, <2>3 DEF PlanEnd, Report
<1>. QED BY <1>1, <1>3, <1>4, <1>5, <1>6, <1>7

\* What is left of a plan ends in the same state.
LEMMA PlanGoesOn ==
  ASSUME NEW plan \in Seq(Step), plan # <<>>, NEW held,
         plan[Len(plan)].kind = "Delay" => Len(plan) = 1
  PROVE  /\ Head(plan) \in Step /\ Tail(plan) \in Seq(Step)
         /\ Tail(plan) # <<>> =>
              /\ Tail(plan)[Len(Tail(plan))].kind # "Delay"
              /\ \A h : PlanEnd(Tail(plan), h) = PlanEnd(plan, held)
         /\ Tail(plan) = <<>> =>
              PlanEnd(plan, held) = IF Head(plan).kind = "Delay" THEN held ELSE Head(plan).held
<1>a. Len(Tail(plan)) = Len(plan) - 1
  BY HeadTailProperties
<1>1. /\ Head(plan) \in Step /\ Tail(plan) \in Seq(Step)
      /\ \A i \in 1 .. Len(plan) - 1 : Tail(plan)[i] = plan[i + 1]
  BY HeadTailProperties
<1>2. Len(plan) \in Nat
  BY LenProperties
<1>3. Len(plan) # 0
  BY EmptySeq
<1>4. ASSUME Tail(plan) # <<>>
      PROVE  Len(plan) # 1 /\ Tail(plan)[Len(Tail(plan))] = plan[Len(plan)]
  <2>1. Len(Tail(plan)) # 0
    BY <1>1, <1>4, EmptySeq
  <2>2. Len(plan) # 1
    BY <1>a, <1>2, <2>1
  <2>6. \A n \in Nat : n # 0 /\ n # 1 => n - 1 \in 1 .. n - 1
    OBVIOUS
  <2>3. Len(plan) - 1 \in 1 .. Len(plan) - 1
    BY <1>2, <1>3, <2>2, <2>6
  <2>4. Tail(plan)[Len(plan) - 1] = plan[(Len(plan) - 1) + 1]
    BY <1>1, <2>3
  <2>5. (Len(plan) - 1) + 1 = Len(plan)
    BY <1>2
  <2>. QED BY <1>a, <2>2, <2>4, <2>5
<1>5. ASSUME Tail(plan) = <<>>
      PROVE  Head(plan) = plan[Len(plan)]
  <2>1. Len(Tail(plan)) = 0
    BY <1>1, <1>5, EmptySeq
  <2>2. \A n \in Nat : n - 1 = 0 => n = 1
    OBVIOUS
  <2>3. Len(plan) = 1
    BY <1>a, <1>2, <2>1, <2>2
  <2>. QED BY <2>3
<1>. QED BY <1>1, <1>4, <1>5 DEF PlanEnd

\* No commands lead to where they start.
LEMMA LeadsNowhere ==
  ASSUME NEW held \in InputState
  PROVE  Leads(<<>>, held, held)
<1> DEFINE path == [k \in 1 .. Len(<<>>) + 1 |-> held]
<1>1. path \in [1 .. Len(<<>>) + 1 -> InputState]
  OBVIOUS
<1>2. Len(<<>>) = 0 /\ 0 + 1 = 1 /\ 1 .. 0 = {} /\ 1 \in 1 .. 1
  OBVIOUS
<1>3. path[1] = held /\ path[Len(<<>>) + 1] = held
  BY <1>2
<1>. HIDE DEF path
<1>. QED BY <1>1, <1>2, <1>3 DEF Leads

\* A command accepted where the commands lead leads on.
LEMMA LeadsFurther ==
  ASSUME NEW commands \in Seq(Mutation), NEW command \in Mutation,
         NEW from \in InputState, NEW to \in InputState,
         Leads(commands, from, to), ~Refused(command, to)
  PROVE  Leads(Append(commands, command), from, After(command, to))
<1>1. PICK path \in [1 .. Len(commands) + 1 -> InputState] :
        /\ path[1] = from /\ path[Len(commands) + 1] = to
        /\ \A k \in 1 .. Len(commands) :
             /\ ~Refused(commands[k], path[k])
             /\ path[k + 1] = After(commands[k], path[k])
  BY DEF Leads
<1> DEFINE n == Len(commands)
           more == Append(commands, command)
           longer == [k \in 1 .. n + 2 |-> IF k <= n + 1 THEN path[k] ELSE After(command, to)]
<1>2. n \in Nat /\ Len(more) = n + 1 /\ more[n + 1] = command
      /\ \A k \in 1 .. n : more[k] = commands[k]
  BY AppendProperties, LenProperties
<1>. HIDE DEF n, more
<1>3. longer \in [1 .. Len(more) + 1 -> InputState]
  BY <1>1, <1>2, AfterType DEF n
<1>4. longer[1] = from /\ longer[Len(more) + 1] = After(command, to)
  BY <1>1, <1>2 DEF n
<1>5. ASSUME NEW k \in 1 .. Len(more)
      PROVE  ~Refused(more[k], longer[k]) /\ longer[k + 1] = After(more[k], longer[k])
  <2>1. CASE k \in 1 .. n
    <3>1. longer[k] = path[k] /\ longer[k + 1] = path[k + 1]
      BY <1>2, <2>1
    <3>. QED BY <1>1, <1>2, <2>1, <3>1 DEF n
  <2>2. CASE k = n + 1
    <3>1. longer[k] = to /\ longer[k + 1] = After(command, to)
      BY <1>1, <1>2, <2>2 DEF n
    <3>. QED BY <1>2, <2>2, <3>1
  <2>3. k \in 1 .. n \/ k = n + 1
    BY <1>2
  <2>. QED BY <2>1, <2>2, <2>3
<1>. QED BY <1>3, <1>4, <1>5 DEF Leads, more

\* The first of runnable commands is accepted, and the others are runnable after it.
LEMMA RunnableStep ==
  ASSUME NEW commands \in Seq(Mutation), commands # <<>>, NEW from \in InputState,
         IsRunnable(commands, from)
  PROVE  /\ ~Refused(Head(commands), from)
         /\ IsRunnable(Tail(commands), After(Head(commands), from))
<1>1. PICK to \in InputState, path \in [1 .. Len(commands) + 1 -> InputState] :
        /\ path[1] = from /\ path[Len(commands) + 1] = to
        /\ \A k \in 1 .. Len(commands) :
             /\ ~Refused(commands[k], path[k])
             /\ path[k + 1] = After(commands[k], path[k])
  BY DEF IsRunnable, Leads
<1> DEFINE n == Len(commands)
           rest == Tail(commands)
           shorter == [k \in 1 .. n |-> path[k + 1]]
<1>2. n \in Nat
  BY LenProperties
<1>3. n # 0
  BY EmptySeq
<1>4. Len(rest) = n - 1 /\ \A k \in 1 .. n - 1 : rest[k] = commands[k + 1]
  BY HeadTailProperties
<1>5. Head(commands) = commands[1]
  OBVIOUS
<1>. HIDE DEF n, rest
<1>6. 1 \in 1 .. n
  BY <1>2, <1>3
<1>7. path[2] = After(Head(commands), from) /\ ~Refused(Head(commands), from)
  BY <1>1, <1>5, <1>6 DEF n
<1>8. 1 .. Len(rest) + 1 = 1 .. n
  BY <1>2, <1>3, <1>4
<1>9. shorter \in [1 .. Len(rest) + 1 -> InputState]
  BY <1>1, <1>2, <1>8 DEF n
<1>10. shorter[1] = After(Head(commands), from) /\ shorter[Len(rest) + 1] = to
  <2>1. Len(rest) + 1 = n /\ n \in 1 .. n
    BY <1>2, <1>3, <1>4
  <2>. QED BY <1>1, <1>6, <1>7, <2>1 DEF n
<1>11. ASSUME NEW k \in 1 .. Len(rest)
       PROVE  ~Refused(rest[k], shorter[k]) /\ shorter[k + 1] = After(rest[k], shorter[k])
  <2>1. k \in 1 .. n - 1 /\ k + 1 \in 1 .. n /\ k \in 1 .. n
    BY <1>2, <1>3, <1>4
  <2>2. rest[k] = commands[k + 1] /\ shorter[k] = path[k + 1] /\ shorter[k + 1] = path[k + 1 + 1]
    BY <1>4, <2>1
  <2>. QED BY <1>1, <2>1, <2>2 DEF n
<1>12. Leads(rest, After(Head(commands), from), to)
  BY <1>9, <1>10, <1>11 DEF Leads
<1>. QED BY <1>7, <1>12 DEF IsRunnable, rest

-----------------------------------------------------------------------------
(* The executor.                                                           *)

\* The executor takes orders of these shapes.
LEMMA JobFacts ==
  /\ EmergencyJob \in Job /\ EmergencyJob \notin WorkJob /\ EmergencyJob.kind = "Emergency"
  /\ \A job \in Job : job.kind # "Emergency" <=> job \in WorkJob
  /\ \A job \in Job : job.kind = "Emergency" => job = EmergencyJob
  /\ \A job \in WorkJob : /\ job \in Job /\ job.commands \in Seq(Mutation)
                          /\ job.baseline \in Nat /\ job.token \in WorkToken
                          /\ job.kind \in {"Single", "Batch"}
  /\ None \notin Job /\ None \notin WorkJob
BY PipelineAssumption DEF Job, WorkJob, EmergencyJob

\* reset_inputs lets go of everything, whatever it was called for.
LEMMA ReleaseEffect ==
  ASSUME NEW job \in Job, Release(job)
  PROVE  /\ executor' \in Executor /\ inputState' \in InputState
         /\ executor'.job = job /\ executor'.phase = "Releasing"
         /\ ExecutorKeepsToItsPlan'
<1>1. /\ executor' = [phase |-> "Releasing", job |-> job, todo |-> <<>>,
                      plan |-> <<>>, answer |-> "Nack"]
      /\ inputState' = {}
  BY DEF Release
<1>2. executor' \in Executor /\ inputState' \in InputState
  BY <1>1 DEF Executor, InputState
<1>. QED BY <1>1, <1>2 DEF ExecutorKeepsToItsPlan

\* A job ends without touching the input state it has reached.
LEMMA ConcludeEffect ==
  ASSUME NEW job \in Job, NEW answer \in {"Ack", "Nack"}, NEW held \in InputState,
         job = EmergencyJob => held = {}, Conclude(job, answer, held)
  PROVE  /\ executor' \in Executor /\ inputState' \in InputState
         /\ executor'.job = job /\ executor'.phase = "Reporting"
         /\ ExecutorKeepsToItsPlan'
<1>1. /\ executor' = [phase |-> "Reporting", job |-> job, todo |-> <<>>,
                      plan |-> <<>>, answer |-> answer]
      /\ inputState' = held
  BY DEF Conclude
<1>2. executor' \in Executor
  BY <1>1 DEF Executor
<1>. QED BY <1>1, <1>2 DEF ExecutorKeepsToItsPlan

\* Past check_cancelled a job either runs under the current generation, from a
\* state in which the rest of its batch is accepted, or ends.
LEMMA ContinueEffect ==
  ASSUME NEW job \in WorkJob, NEW todo \in Seq(Mutation), NEW plan \in Seq(Step),
         NEW held \in InputState,
         cancelGeneration \in Nat,
         job.baseline # cancelGeneration => cancel = cancelGeneration,
         plan # <<>> => plan[Len(plan)].kind # "Delay",
         job.kind = "Batch" =>
           IsRunnable(todo, IF plan = <<>> THEN held ELSE PlanEnd(plan, held)),
         Continue(job, todo, plan, held)
  PROVE  /\ cancel' = None /\ executor' \in Executor /\ inputState' \in InputState
         /\ executor'.job = job /\ executor'.phase # "Idle"
         /\ ExecutorKeepsToItsPlan'
         /\ executor'.phase = "Running" => job.baseline = cancelGeneration
         /\ executor'.phase = "Running" /\ job.kind = "Batch" =>
              IsRunnable(executor'.todo, PlanEnd(executor'.plan, inputState'))
<1>1. job \in Job /\ job # EmergencyJob /\ job.kind \in {"Single", "Batch"}
  BY JobFacts
<1>3. cancel' = None
  BY DEF Continue
<1>4. ~IsCancelled(job) => job.baseline = cancelGeneration
  BY PipelineAssumption DEF IsCancelled
<1>5. CASE Release(job)
  BY <1>1, <1>3, <1>5, ReleaseEffect
<1>6. ASSUME NEW answer \in {"Ack", "Nack"}, Conclude(job, answer, held)
      PROVE  /\ executor' \in Executor /\ inputState' \in InputState
             /\ executor'.job = job /\ executor'.phase = "Reporting"
             /\ ExecutorKeepsToItsPlan'
  BY <1>1, <1>6, ConcludeEffect
<1>7. CASE /\ ~IsCancelled(job) /\ plan # <<>>
           /\ executor' = [phase |-> "Running", job |-> job, todo |-> todo,
                           plan |-> plan, answer |-> "Ack"]
           /\ inputState' = held
  <2>1. executor' \in Executor
    BY <1>1, <1>7 DEF Executor
  <2>2. ExecutorKeepsToItsPlan'
    BY <1>7 DEF ExecutorKeepsToItsPlan
  <2>. QED BY <1>3, <1>4, <1>7, <2>1, <2>2
<1>8. CASE /\ ~IsCancelled(job) /\ plan = <<>> /\ todo # <<>>
           /\ executor' = [phase |-> "Running", job |-> job, todo |-> Tail(todo),
                           plan |-> Plan(Head(todo), held), answer |-> "Ack"]
           /\ inputState' = held
  <2>1. Head(todo) \in Mutation /\ Tail(todo) \in Seq(Mutation)
    BY <1>8, HeadTailProperties
  <2>2. /\ Plan(Head(todo), held) \in Seq(Step) /\ Plan(Head(todo), held) # <<>>
        /\ LET next == Plan(Head(todo), held)
           IN  next[Len(next)].kind = "Delay" => Len(next) = 1
        /\ PlanEnd(Plan(Head(todo), held), held) = After(Head(todo), held)
    BY <2>1, PlanOfCommand
  <2>3. executor' \in Executor
    BY <1>1, <1>8, <2>1, <2>2 DEF Executor
  <2>4. ExecutorKeepsToItsPlan'
    BY <1>8, <2>2 DEF ExecutorKeepsToItsPlan
  <2>5. job.kind = "Batch" => IsRunnable(Tail(todo), After(Head(todo), held))
    BY <1>8, RunnableStep
  <2>. QED BY <1>3, <1>4, <1>8, <2>2, <2>3, <2>4, <2>5
<1>9. \/ Release(job) \/ Conclude(job, "Nack", held) \/ Conclude(job, "Ack", held)
      \/ /\ ~IsCancelled(job) /\ plan # <<>>
         /\ executor' = [phase |-> "Running", job |-> job, todo |-> todo,
                         plan |-> plan, answer |-> "Ack"]
         /\ inputState' = held
      \/ /\ ~IsCancelled(job) /\ plan = <<>> /\ todo # <<>>
         /\ executor' = [phase |-> "Running", job |-> job, todo |-> Tail(todo),
                         plan |-> Plan(Head(todo), held), answer |-> "Ack"]
         /\ inputState' = held
  BY DEF Continue
<1>. QED BY <1>3, <1>5, <1>6, <1>7, <1>8, <1>9

\* What the proofs assume of a state: the invariants are inductive together.
IInv == DispatcherInv /\ PipelineIsOwnerThenRelease /\ CancelIsCurrent

\* A step of the executor that neither idles nor takes up anything but the job
\* that waits keeps what the dispatcher relies on.
LEMMA ExecutorMoves ==
  ASSUME IInv, UNCHANGED <<coordVars, dispatcherVars, results, safetyPending>>,
         executor' \in Executor, inputState' \in InputState, executor'.phase # "Idle",
         ExecutorKeepsToItsPlan', cancel' \in {cancel, None},
         \/ executor.phase # "Idle" /\ executor'.job = executor.job /\ jobs' = jobs
         \/ /\ executor.phase = "Idle" /\ jobs # <<>> /\ jobs' = <<>>
            /\ executor'.job = Head(jobs),
         executor'.phase = "Running" /\ executor'.job.baseline # cancelGeneration =>
           cancel' = cancelGeneration,
         executor'.phase = "Running" /\ executor'.job.kind = "Batch" =>
           IsRunnable(executor'.todo, PlanEnd(executor'.plan, inputState'))
  PROVE  IInv'
<1>1. TypeOK /\ PipelineIsOwnerThenRelease /\ CancelIsCurrent /\ CancelReachesWork
      /\ BatchIsForeseen
  BY DEF IInv, DispatcherInv
<1>2. /\ sending \notin WorkJob
      /\ \A i \in DOMAIN jobs' : jobs'[i] \notin WorkJob
  <2>1. CASE executor.phase # "Idle" /\ jobs' = jobs
    BY <1>1, <2>1, NothingAhead
  <2>2. CASE jobs # <<>> /\ jobs' = <<>>
    <3>1. DOMAIN jobs' = {}
      BY <2>2, EmptySeq, LenProperties
    <3>. QED BY <1>1, <2>2, <3>1, NothingAhead
  <2>. QED BY <2>1, <2>2
<1>3. jobs' \in Seq(Job) /\ Len(jobs') <= 1
  <2>1. CASE jobs' = jobs
    BY <1>1, <2>1 DEF TypeOK
  <2>2. CASE jobs' = <<>>
    BY <2>2
  <2>. QED BY <2>1, <2>2
<1>4. cancel' \in Nat \cup {None}
  BY <1>1 DEF TypeOK
<1>5. TypeOK'
  BY <1>1, <1>3, <1>4 DEF TypeOK, CoordinatorTypeOK, coordVars, dispatcherVars, stopVars
<1>6. OwnersAreActive' /\ ExclusiveOwner' /\ CollectorMatchesMode' /\ PendingStopsAreActive'
  BY DEF IInv, DispatcherInv, OwnersAreActive, ExclusiveOwner, CollectorMatchesMode,
         PendingStopsAreActive, ActiveSlot, IsActive, Slot, coordVars, dispatcherVars, stopVars
<1>7. InputIsReported'
  BY DEF InputIsReported
<1>8. CancelReachesWork'
  BY <1>2 DEF CancelReachesWork, dispatcherVars, stopVars
<1>9. BatchIsForeseen'
  <2>1. batch' # None => Leads(batch'.commands, dispatcherInput', batch'.shadow)
    BY <1>1 DEF BatchIsForeseen, dispatcherVars
  <2>2. \A job \in {sending'} \cup {jobs'[i] : i \in DOMAIN jobs'} : job \notin WorkJob
    BY <1>2 DEF dispatcherVars
  <2>. QED BY <2>1, <2>2 DEF BatchIsForeseen
<1>10. Pipeline' = Pipeline
  BY <1>1, WorkIsHandedOn DEF dispatcherVars
<1>11. PipelineIsOwnerThenRelease'
  <2>1. Owner' = Owner /\ emergencyInFlight' = emergencyInFlight
    BY DEF Owner, coordVars, dispatcherVars, stopVars
  <2>. QED BY <1>1, <1>10, <2>1 DEF PipelineIsOwnerThenRelease
<1>12. CancelIsCurrent'
  BY <1>1 DEF CancelIsCurrent, dispatcherVars, stopVars
<1>. QED BY <1>5, <1>6, <1>7, <1>8, <1>9, <1>11, <1>12 DEF IInv, DispatcherInv

\* The executor takes up the job that waits: a cancelled one only to release.
LEMMA TakeJobStep ==
  ASSUME IInv, TakeJob
  PROVE  IInv'
<1> DEFINE job == Head(jobs)
<1>1. /\ TypeOK /\ CancelReachesWork /\ BatchIsForeseen /\ CancelIsCurrent
      /\ jobs \in Seq(Job) /\ Len(jobs) <= 1 /\ jobs # <<>> /\ inputState \in InputState
      /\ cancelGeneration \in Nat
  BY DEF IInv, DispatcherInv, TypeOK, TakeJob
<1>2. jobs = <<job>> /\ job \in Job
  BY <1>1, SingleElement
<1>3. 1 \in DOMAIN jobs /\ jobs[1] = job
  BY <1>2
<1>4. /\ UNCHANGED <<coordVars, dispatcherVars, results, safetyPending>>
      /\ executor.phase = "Idle" /\ jobs # <<>> /\ jobs' = <<>>
  BY DEF TakeJob
<1>. HIDE DEF job
<1>5. CASE job.kind = "Emergency" /\ Release(job) /\ UNCHANGED cancel
  <2>1. /\ executor' \in Executor /\ inputState' \in InputState
        /\ executor'.job = job /\ executor'.phase = "Releasing"
        /\ ExecutorKeepsToItsPlan'
    BY <1>2, <1>5, ReleaseEffect
  <2>. QED BY <1>4, <1>5, <2>1, ExecutorMoves DEF job
<1>6. CASE job.kind # "Emergency" /\ Continue(job, job.commands, <<>>, inputState)
  <2>1. job \in WorkJob /\ job.commands \in Seq(Mutation)
    BY <1>2, <1>6, JobFacts
  <2>2. job.baseline # cancelGeneration => cancel = cancelGeneration
    BY <1>1, <1>3, <2>1 DEF CancelReachesWork
  <2>3. job.kind = "Batch" => IsRunnable(job.commands, inputState)
    BY <1>1, <1>3, <2>1 DEF BatchIsForeseen
  <2>4. <<>> \in Seq(Step)
    OBVIOUS
  <2>5. /\ cancel' = None /\ executor' \in Executor /\ inputState' \in InputState
        /\ executor'.job = job /\ executor'.phase # "Idle"
        /\ ExecutorKeepsToItsPlan'
        /\ executor'.phase = "Running" => job.baseline = cancelGeneration
        /\ executor'.phase = "Running" /\ job.kind = "Batch" =>
             IsRunnable(executor'.todo, PlanEnd(executor'.plan, inputState'))
    BY <1>1, <1>6, <2>1, <2>2, <2>3, <2>4, ContinueEffect
  <2>. QED BY <1>4, <2>5, ExecutorMoves DEF job
<1>7. CASE job.kind # "Emergency" /\ Conclude(job, "Ack", inputState) /\ UNCHANGED cancel
  <2>1. job # EmergencyJob
    BY <1>2, <1>7, JobFacts
  <2>2. /\ executor' \in Executor /\ inputState' \in InputState
        /\ executor'.job = job /\ executor'.phase = "Reporting"
        /\ ExecutorKeepsToItsPlan'
    BY <1>1, <1>2, <1>7, <2>1, ConcludeEffect
  <2>. QED BY <1>4, <1>7, <2>2, ExecutorMoves DEF job
<1>. QED BY <1>5, <1>6, <1>7 DEF TakeJob, job

\* What holds of a job that is under way at an await.
LEMMA RunningJob ==
  ASSUME IInv, executor.phase = "Running"
  PROVE  /\ executor.job \in WorkJob /\ executor.todo \in Seq(Mutation)
         /\ executor.plan \in Seq(Step) /\ executor.plan # <<>>
         /\ executor.plan[Len(executor.plan)].kind = "Delay" => Len(executor.plan) = 1
         /\ inputState \in InputState /\ cancelGeneration \in Nat
         /\ cancel \in {None, cancelGeneration}
         /\ executor.job.baseline # cancelGeneration => cancel = cancelGeneration
         /\ executor.job.kind = "Batch" =>
              IsRunnable(executor.todo, PlanEnd(executor.plan, inputState))
BY DEF IInv, DispatcherInv, TypeOK, Executor, ExecutorKeepsToItsPlan, CancelIsCurrent,
       BatchIsForeseen

\* The await that a job was at is over.
LEMMA AwaitEnds ==
  ASSUME IInv, executor.phase = "Running",
         NEW held, held = IF Head(executor.plan).kind = "Delay" THEN inputState
                          ELSE Head(executor.plan).held,
         Continue(executor.job, executor.todo, Tail(executor.plan), held),
         UNCHANGED <<coordVars, dispatcherVars, jobs, results, safetyPending>>
  PROVE  IInv'
<1> DEFINE plan == executor.plan
<1>1. /\ executor.job \in WorkJob /\ executor.todo \in Seq(Mutation)
      /\ plan \in Seq(Step) /\ plan # <<>>
      /\ plan[Len(plan)].kind = "Delay" => Len(plan) = 1
      /\ inputState \in InputState /\ cancelGeneration \in Nat
      /\ executor.job.baseline # cancelGeneration => cancel = cancelGeneration
      /\ executor.job.kind = "Batch" => IsRunnable(executor.todo, PlanEnd(plan, inputState))
  BY RunningJob
<1>. HIDE DEF plan
<1>2. /\ Head(plan) \in Step /\ Tail(plan) \in Seq(Step)
      /\ Tail(plan) # <<>> =>
           /\ Tail(plan)[Len(Tail(plan))].kind # "Delay"
           /\ \A h : PlanEnd(Tail(plan), h) = PlanEnd(plan, inputState)
      /\ Tail(plan) = <<>> => PlanEnd(plan, inputState) =
           IF Head(plan).kind = "Delay" THEN inputState ELSE Head(plan).held
  BY <1>1, PlanGoesOn
<1>3. held \in InputState
  BY <1>1, <1>2 DEF Step, plan
<1>4. executor.job.kind = "Batch" =>
        IsRunnable(executor.todo,
                   IF Tail(plan) = <<>> THEN held ELSE PlanEnd(Tail(plan), held))
  BY <1>1, <1>2 DEF plan
<1>5. /\ cancel' = None /\ executor' \in Executor /\ inputState' \in InputState
      /\ executor'.job = executor.job /\ executor'.phase # "Idle"
      /\ ExecutorKeepsToItsPlan'
      /\ executor'.phase = "Running" => executor.job.baseline = cancelGeneration
      /\ executor'.phase = "Running" /\ executor.job.kind = "Batch" =>
           IsRunnable(executor'.todo, PlanEnd(executor'.plan, inputState'))
  <2>1. Continue(executor.job, executor.todo, Tail(plan), held)
    BY DEF plan
  <2>. QED BY <1>1, <1>2, <1>3, <1>4, <2>1, ContinueEffect
<1>. QED BY <1>5, ExecutorMoves

\* The second report of a pointer step follows the first unconditionally.
LEMMA ReportChainsStep ==
  ASSUME IInv, ReportChains
  PROVE  IInv'
<1> DEFINE plan == executor.plan
<1>1. /\ executor.phase = "Running" /\ Head(plan).kind \in {"Report", "Chained"}
      /\ executor' = [executor EXCEPT !.plan = Tail(plan)]
      /\ inputState' = Head(plan).held /\ cancel' = cancel
      /\ UNCHANGED <<coordVars, dispatcherVars, jobs, results, safetyPending>>
  BY DEF ReportChains, AwaitsReport, Awaits
<1>2. Len(plan) > 1
  BY DEF ReportChains, NextIsChained
<1>3. /\ executor.job \in WorkJob /\ plan \in Seq(Step) /\ plan # <<>>
      /\ plan[Len(plan)].kind = "Delay" => Len(plan) = 1
      /\ executor.job.baseline # cancelGeneration => cancel = cancelGeneration
      /\ executor.job.kind = "Batch" => IsRunnable(executor.todo, PlanEnd(plan, inputState))
  BY <1>1, RunningJob
<1>4. Tail(plan) # <<>>
  <2>1. Len(Tail(plan)) = Len(plan) - 1
    BY <1>3, HeadTailProperties
  <2>2. Len(plan) \in Nat
    BY <1>3, LenProperties
  <2>3. \A n \in Nat : n > 1 => n - 1 # 0
    OBVIOUS
  <2>4. Len(Tail(plan)) # 0
    BY <1>2, <2>1, <2>2, <2>3
  <2>. QED BY <1>3, <2>4, HeadTailProperties, EmptySeq
<1>5. executor \in Executor
  BY DEF IInv, DispatcherInv, TypeOK
<1>. HIDE DEF plan
<1>6. /\ Head(plan) \in Step /\ Tail(plan) \in Seq(Step)
      /\ Tail(plan)[Len(Tail(plan))].kind # "Delay"
      /\ \A h : PlanEnd(Tail(plan), h) = PlanEnd(plan, inputState)
  BY <1>3, <1>4, PlanGoesOn
<1>7. /\ executor'.phase = "Running" /\ executor'.job = executor.job
      /\ executor'.plan = Tail(plan) /\ executor'.todo = executor.todo
      /\ executor' \in Executor /\ inputState' \in InputState
  BY <1>1, <1>5, <1>6 DEF Executor, Step
<1>8. ExecutorKeepsToItsPlan'
  BY <1>3, <1>4, <1>6, <1>7 DEF ExecutorKeepsToItsPlan
<1>. QED BY <1>1, <1>3, <1>6, <1>7, <1>8, ExecutorMoves

\* The other steps of a job under way, and the end of a release.
LEMMA ExecutorStepStep ==
  ASSUME IInv, ReportSent \/ ReportFails \/ TimerFires \/ DelayCancelled \/ ReleaseDone
  PROVE  IInv'
<1>1. CASE ReportSent
  BY <1>1, AwaitEnds DEF ReportSent, AwaitsReport, Awaits
<1>2. CASE TimerFires
  BY <1>2, AwaitEnds DEF TimerFires, Awaits
<1>3. CASE ReportFails \/ DelayCancelled
  <2>1. /\ executor.phase = "Running" /\ Release(executor.job) /\ cancel' \in {cancel, None}
        /\ UNCHANGED <<coordVars, dispatcherVars, jobs, results, safetyPending>>
    BY <1>3 DEF ReportFails, DelayCancelled, AwaitsReport, Awaits
  <2>2. executor.job \in Job
    BY <2>1, RunningJob, JobFacts
  <2>3. /\ executor' \in Executor /\ inputState' \in InputState
        /\ executor'.job = executor.job /\ executor'.phase = "Releasing"
        /\ ExecutorKeepsToItsPlan'
    BY <2>1, <2>2, ReleaseEffect
  <2>. QED BY <2>1, <2>3, ExecutorMoves
<1>4. CASE ReleaseDone
  <2>1. /\ executor.phase = "Releasing"
        /\ Conclude(executor.job, executor.answer, inputState)
        /\ UNCHANGED <<coordVars, dispatcherVars, jobs, cancel, results, safetyPending>>
    BY <1>4 DEF ReleaseDone
  <2>2. executor \in Executor /\ inputState \in InputState /\ inputState = {}
    BY <2>1 DEF IInv, DispatcherInv, TypeOK, ExecutorKeepsToItsPlan
  <2>3. executor.job \in Job /\ executor.answer \in {"Ack", "Nack"}
    BY <2>2 DEF Executor
  <2>4. /\ executor' \in Executor /\ inputState' \in InputState
        /\ executor'.job = executor.job /\ executor'.phase = "Reporting"
        /\ ExecutorKeepsToItsPlan'
    BY <2>1, <2>2, <2>3, ConcludeEffect
  <2>. QED BY <2>1, <2>4, ExecutorMoves
<1>. QED BY <1>1, <1>2, <1>3, <1>4

\* A result reports the input state in which its job left the executor.
LEMMA PublishResultStep ==
  ASSUME IInv, PublishResult
  PROVE  IInv'
<1> DEFINE result ==
             [kind |-> IF executor.job.kind = "Emergency" THEN "Emergency" ELSE "Command",
              token |-> executor.job.token, answer |-> executor.answer,
              inputState |-> inputState]
<1>1. /\ executor.phase = "Reporting" /\ results' = Append(results, result)
      /\ executor' = IdleExecutor
      /\ UNCHANGED <<coordVars, dispatcherVars, inputState, jobs, cancel, safetyPending>>
  BY DEF PublishResult
<1>2. /\ TypeOK /\ CancelReachesWork /\ BatchIsForeseen /\ CancelIsCurrent
      /\ PipelineIsOwnerThenRelease /\ results \in Seq(Result)
      /\ executor.job \in Job /\ executor.answer \in {"Ack", "Nack"}
      /\ inputState \in InputState
      /\ executor.job = EmergencyJob => inputState = {}
  BY <1>1 DEF IInv, DispatcherInv, TypeOK, Executor, ExecutorKeepsToItsPlan
<1>3. result \in Result /\ result.inputState = inputState /\ result.token = executor.job.token
  <2>1. CASE executor.job \in WorkJob
    <3>1. executor.job.kind # "Emergency" /\ executor.job.token \in WorkToken
      BY <2>1, <1>2, JobFacts
    <3>. QED BY <1>2, <3>1 DEF Result
  <2>2. CASE executor.job = EmergencyJob
    BY <1>2, <2>2 DEF Result, EmergencyJob
  <2>. QED BY <1>2, <2>1, <2>2 DEF Job
<1>. HIDE DEF result
<1>4. /\ results' \in Seq(Result) /\ Len(results') = Len(results) + 1
      /\ results'[Len(results) + 1] = result
  BY <1>1, <1>2, <1>3, AppendProperties
<1>5. Len(results') <= ResultCapacity
  <2>1. Len(results) \in Nat
    BY <1>2, LenProperties
  <2>2. Len(results) < ResultCapacity
    BY DEF PublishResult
  <2>3. ResultCapacity \in Nat
    BY PipelineAssumption
  <2>4. \A n, c \in Nat : n < c => n + 1 <= c
    OBVIOUS
  <2>. QED BY <1>4, <2>1, <2>2, <2>3, <2>4
<1>6. executor' \in Executor /\ executor'.phase = "Idle"
  BY <1>1, JobFacts DEF Executor, IdleExecutor
<1>7. TypeOK'
  BY <1>1, <1>2, <1>4, <1>5, <1>6 DEF TypeOK, CoordinatorTypeOK, coordVars, dispatcherVars, stopVars
<1>8. OwnersAreActive' /\ ExclusiveOwner' /\ CollectorMatchesMode' /\ PendingStopsAreActive'
  BY <1>1 DEF IInv, DispatcherInv, OwnersAreActive, ExclusiveOwner, CollectorMatchesMode,
         PendingStopsAreActive, ActiveSlot, IsActive, Slot, coordVars, dispatcherVars, stopVars
<1>9. ExecutorKeepsToItsPlan'
  BY <1>6 DEF ExecutorKeepsToItsPlan
<1>10. InputIsReported'
  <2>1. results' # <<>>
    BY <1>1, <1>2, <1>3, AppendProperties
  <2>. QED BY <1>1, <1>3, <1>4, <2>1 DEF InputIsReported
<1>11. CancelReachesWork' /\ CancelIsCurrent'
  BY <1>1, <1>2, <1>6 DEF CancelReachesWork, CancelIsCurrent, dispatcherVars, stopVars
<1>12. BatchIsForeseen'
  BY <1>1, <1>2, <1>6 DEF BatchIsForeseen, dispatcherVars
<1>13. PipelineIsOwnerThenRelease'
  <2>1. Pipeline' = Pipeline
    BY <1>1, <1>2, <1>3, <1>6, WorkIsHandedOn DEF dispatcherVars
  <2>2. Owner' = Owner /\ emergencyInFlight' = emergencyInFlight
    BY <1>1 DEF Owner, coordVars, dispatcherVars, stopVars
  <2>. QED BY <1>2, <2>1, <2>2 DEF PipelineIsOwnerThenRelease
<1>. QED BY <1>7, <1>8, <1>9, <1>10, <1>11, <1>12, <1>13 DEF IInv, DispatcherInv

\* The job the dispatcher waited to send is in JOBS.
LEMMA SendJobStep ==
  ASSUME IInv, SendJob
  PROVE  IInv'
<1>1. /\ sending # None /\ jobs = <<>> /\ jobs' = <<sending>> /\ sending' = None
      /\ UNCHANGED <<coordVars, batch, dispatcherInput, stopVars, releaseCauses,
                     executorVars, cancel, results, safetyPending>>
  BY DEF SendJob
<1>2. /\ TypeOK /\ CancelReachesWork /\ BatchIsForeseen /\ CancelIsCurrent
      /\ PipelineIsOwnerThenRelease /\ sending \in Job
  BY <1>1 DEF IInv, DispatcherInv, TypeOK
<1>3. /\ jobs' \in Seq(Job) /\ Len(jobs') = 1 /\ DOMAIN jobs' = {1} /\ jobs'[1] = sending
  BY <1>1, <1>2
<1>4. TypeOK'
  BY <1>1, <1>2, <1>3 DEF TypeOK, CoordinatorTypeOK, coordVars, stopVars, executorVars
<1>5. OwnersAreActive' /\ ExclusiveOwner' /\ CollectorMatchesMode' /\ PendingStopsAreActive'
  BY <1>1 DEF IInv, DispatcherInv, OwnersAreActive, ExclusiveOwner, CollectorMatchesMode,
         PendingStopsAreActive, ActiveSlot, IsActive, Slot, coordVars, stopVars
<1>6. ExecutorKeepsToItsPlan' /\ InputIsReported'
  BY <1>1 DEF IInv, DispatcherInv, ExecutorKeepsToItsPlan, InputIsReported, executorVars
<1>7. CancelReachesWork' /\ CancelIsCurrent'
  <2>1. sending' \notin WorkJob
    BY <1>1, JobFacts
  <2>. QED BY <1>1, <1>2, <1>3, <2>1 DEF CancelReachesWork, CancelIsCurrent, stopVars, executorVars
<1>8. BatchIsForeseen'
  <2>1. \A job \in {sending'} \cup {jobs'[i] : i \in DOMAIN jobs'} :
          job \in WorkJob => job = sending
    BY <1>1, <1>3, JobFacts
  <2>. QED BY <1>1, <1>2, <2>1 DEF BatchIsForeseen, executorVars
<1>9. PipelineIsOwnerThenRelease'
  <2>1. Pipeline' = Pipeline
    BY <1>1, <1>2, WorkIsHandedOn DEF executorVars
  <2>2. Owner' = Owner /\ emergencyInFlight' = emergencyInFlight
    BY <1>1 DEF Owner, coordVars, stopVars
  <2>. QED BY <1>2, <2>1, <2>2 DEF PipelineIsOwnerThenRelease
<1>. QED BY <1>4, <1>5, <1>6, <1>7, <1>8, <1>9 DEF IInv, DispatcherInv

\* All but the number of queued safety events is as it was.
LEMMA NothingElseMoves ==
  ASSUME IInv, safetyPending' \in Nat,
         UNCHANGED <<coordVars, dispatcherVars, executorVars, jobs, cancel, results>>
  PROVE  IInv'
<1>1. TypeOK'
  BY DEF IInv, DispatcherInv, TypeOK, CoordinatorTypeOK, coordVars, dispatcherVars, stopVars,
         executorVars
<1>2. OwnersAreActive' /\ ExclusiveOwner' /\ CollectorMatchesMode' /\ PendingStopsAreActive'
  BY DEF IInv, DispatcherInv, OwnersAreActive, ExclusiveOwner, CollectorMatchesMode,
         PendingStopsAreActive, ActiveSlot, IsActive, Slot, coordVars, dispatcherVars, stopVars
<1>3. ExecutorKeepsToItsPlan' /\ InputIsReported' /\ CancelReachesWork' /\ CancelIsCurrent'
  BY DEF IInv, DispatcherInv, ExecutorKeepsToItsPlan, InputIsReported, CancelReachesWork,
         CancelIsCurrent, dispatcherVars, stopVars, executorVars
<1>4. BatchIsForeseen'
  BY DEF IInv, DispatcherInv, BatchIsForeseen, dispatcherVars, executorVars
<1>5. PipelineIsOwnerThenRelease'
  <2>1. Pipeline' = Pipeline
    BY DEF Pipeline, TokenInExecutor, TokenBeingSent, dispatcherVars, executorVars
  <2>2. Owner' = Owner /\ emergencyInFlight' = emergencyInFlight
    BY DEF Owner, coordVars, dispatcherVars, stopVars
  <2>. QED BY <2>1, <2>2 DEF IInv, PipelineIsOwnerThenRelease
<1>. QED BY <1>1, <1>2, <1>3, <1>4, <1>5 DEF IInv, DispatcherInv

-----------------------------------------------------------------------------
(* The dispatcher.                                                         *)

\* The coordinator's part of a state and what the dispatcher keeps beside it.
AdmissionInv ==
  CoordinatorTypeOK /\ OwnersAreActive /\ ExclusiveOwner /\ CollectorMatchesMode
    /\ PendingStopsAreActive

\* A step of the dispatcher that takes no result and sends nothing, a release, or
\* an ordinary job under the current generation.
LEMMA DispatcherMoves ==
  ASSUME IInv, sending = None,
         UNCHANGED <<executorVars, jobs, results, dispatcherInput>>, safetyPending' \in Nat,
         AdmissionInv', PipelineIsOwnerThenRelease',
         batch' \in Batch \cup {None},
         batch' # None => Leads(batch'.commands, dispatcherInput, batch'.shadow),
         pendingStops' \subseteq Token, emergencyInFlight' \in BOOLEAN,
         releaseCauses' \subseteq {"Stop", "Safety", "BatchError"},
         \/ UNCHANGED <<cancelGeneration, cancel>>
         \/ cancelGeneration' = cancelGeneration + 1 /\ cancel' = cancelGeneration + 1,
         \/ sending' \in {None, EmergencyJob}
         \/ /\ sending' \in WorkJob /\ sending'.baseline = cancelGeneration'
            /\ sending'.kind = "Batch" => IsRunnable(sending'.commands, inputState)
  PROVE  IInv'
<1>1. /\ TypeOK /\ CancelReachesWork /\ CancelIsCurrent /\ BatchIsForeseen
      /\ cancelGeneration \in Nat /\ cancel \in Nat \cup {None}
  BY DEF IInv, DispatcherInv, TypeOK
<1>2. sending' \in Job \cup {None} /\ cancelGeneration' \in Nat /\ cancel' \in Nat \cup {None}
  <2>1. cancelGeneration + 1 \in Nat
    BY <1>1
  <2>. QED BY <1>1, <2>1, JobFacts
<1>3. TypeOK'
  BY <1>1, <1>2 DEF TypeOK, AdmissionInv, executorVars
<1>4. ExecutorKeepsToItsPlan' /\ InputIsReported'
  BY DEF IInv, DispatcherInv, ExecutorKeepsToItsPlan, InputIsReported, executorVars
<1>5. CancelReachesWork' /\ CancelIsCurrent'
  <2>1. sending' \in WorkJob => sending'.baseline = cancelGeneration'
    BY JobFacts
  <2>2. CASE UNCHANGED <<cancelGeneration, cancel>>
    BY <1>1, <2>1, <2>2 DEF CancelReachesWork, CancelIsCurrent, executorVars
  <2>3. CASE cancelGeneration' = cancelGeneration + 1 /\ cancel' = cancelGeneration + 1
    BY <2>1, <2>3 DEF CancelReachesWork, CancelIsCurrent, executorVars
  <2>. QED BY <2>2, <2>3
<1>6. BatchIsForeseen'
  <2>1. sending' \in WorkJob /\ sending'.kind = "Batch" =>
          IsRunnable(sending'.commands, inputState)
    BY JobFacts
  <2>. QED BY <1>1, <2>1 DEF BatchIsForeseen, executorVars
<1>. QED BY <1>3, <1>4, <1>5, <1>6 DEF IInv, DispatcherInv, AdmissionInv

\* Nothing is sent and nothing changes hands.
LEMMA PipelineStays ==
  ASSUME IInv, UNCHANGED <<executor, jobs, results, sending, emergencyInFlight>>, Owner' = Owner
  PROVE  PipelineIsOwnerThenRelease'
<1>1. Pipeline' = Pipeline
  BY DEF Pipeline, TokenInExecutor, TokenBeingSent
<1>. QED BY <1>1 DEF IInv, PipelineIsOwnerThenRelease

\* A job is sent for the owner that there has been none before.
LEMMA OwnerIsSent ==
  ASSUME IInv, ~emergencyInFlight, Owner = None, sending' \in WorkJob,
         Owner' = sending'.token,
         UNCHANGED <<executor, jobs, results, emergencyInFlight>>
  PROVE  PipelineIsOwnerThenRelease'
<1>1. TypeOK /\ PipelineIsOwnerThenRelease
  BY DEF IInv, DispatcherInv
<1>2. Pipeline = <<>> /\ sending = None
  BY <1>1, NothingAnywhere
<1>3. sending' \in Job /\ sending'.token # None /\ sending'.token \in Work
  BY JobFacts, WorkTokens
<1>4. Pipeline' = <<sending'.token>>
  <2>1. Pipeline' = Append(Pipeline, sending'.token)
    BY <1>1, <1>2, <1>3, WorkIsSent
  <2>. QED BY <1>2, <2>1
<1>. QED BY <1>3, <1>4 DEF PipelineIsOwnerThenRelease

\* A release goes in last, unless one is there already.
LEMMA ReleaseIsSent ==
  ASSUME IInv, sending = None, NEW cause, ScheduleEmergency(cause), Owner' \in {None, Owner},
         UNCHANGED <<executor, jobs, results>>
  PROVE  PipelineIsOwnerThenRelease'
<1>1. TypeOK /\ PipelineIsOwnerThenRelease
  BY DEF IInv, DispatcherInv
<1>2. Pipeline \in Seq(Work) /\ Owner \in Work /\ None \in Work
  BY <1>1, Stages DEF Work
<1>3. emergencyInFlight' = TRUE
  BY DEF ScheduleEmergency
<1>4. CASE emergencyInFlight
  <2>1. Pipeline' = Pipeline
    BY <1>4 DEF ScheduleEmergency, Pipeline, TokenInExecutor, TokenBeingSent
  <2>. QED BY <1>1, <1>3, <1>4, <2>1 DEF PipelineIsOwnerThenRelease
<1>5. CASE ~emergencyInFlight
  <2>1. sending' = EmergencyJob
    BY <1>5 DEF ScheduleEmergency
  <2>2. Pipeline' = Append(Pipeline, None)
    <3>1. EmergencyJob.token = None
      BY DEF EmergencyJob
    <3>. QED BY <1>1, <2>1, <3>1, WorkIsSent, JobFacts
  <2>3. CASE Owner = None
    <3>1. Pipeline' = <<None>>
      BY <1>1, <1>5, <2>2, <2>3 DEF PipelineIsOwnerThenRelease
    <3>. QED BY <1>3, <2>3, <3>1 DEF PipelineIsOwnerThenRelease
  <2>4. CASE Owner # None
    <3>1. Pipeline = <<Owner>>
      BY <1>1, <1>5, <2>4 DEF PipelineIsOwnerThenRelease
    <3>2. Append(<<Owner>>, None) = <<Owner, None>>
      BY <1>2, PairAppended
    <3>3. Pipeline' = <<Owner, None>>
      BY <2>2, <3>1, <3>2
    <3>. QED BY <1>3, <2>4, <3>3 DEF PipelineIsOwnerThenRelease
  <2>. QED BY <2>3, <2>4
<1>. QED BY <1>4, <1>5

\* What an emergency leaves of the stop state.
LEMMA EmergencyEffect ==
  ASSUME TypeOK, NEW cause \in {"Stop", "Safety", "BatchError"}, ScheduleEmergency(cause)
  PROVE  /\ cancelGeneration' = cancelGeneration + 1 /\ cancel' = cancelGeneration + 1
         /\ emergencyInFlight' = TRUE /\ emergencyInFlight' \in BOOLEAN
         /\ sending' \in {None, EmergencyJob}
         /\ releaseCauses' \subseteq {"Stop", "Safety", "BatchError"}
BY DEF ScheduleEmergency, TypeOK

\* A mutation becomes the owner and the only work.
LEMMA HandleExecuteStep ==
  ASSUME IInv, NEW r \in Request, HandleExecute(r)
  PROVE  IInv'
<1> DEFINE new == NewToken(r)
<1>1. /\ TypeOK /\ AdmissionInv /\ CoordinatorTypeOK /\ cancelGeneration \in Nat
      /\ emergencyInFlight \in BOOLEAN
  BY DEF IInv, DispatcherInv, TypeOK, AdmissionInv
<1>2. /\ sending = None /\ AdmitExecute(r, emergencyInFlight)
      /\ sending' = [kind |-> "Single", token |-> new,
                     commands |-> <<r.command>>, baseline |-> cancelGeneration]
      /\ UNCHANGED <<batch, dispatcherInput, stopVars, releaseCauses, executorVars,
                     jobs, cancel, results, safetyPending>>
  BY DEF HandleExecute, ReadyForRequest, ReadyForResult
<1>3. /\ r.command \in Mutation /\ ~emergencyInFlight /\ batchState.mode = "Idle"
      /\ executorOwner = None /\ executorOwner' = new /\ batchState' = batchState
  BY <1>2 DEF AdmitExecute, Fresh, NeedsExecutor
<1>4. /\ CoordinatorTypeOK' /\ OwnersAreActive' /\ ExclusiveOwner'
      /\ \A i \in ActiveSlot : i \in ActiveSlot' /\ cache'[i] = cache[i]
  <2>1. None \in Response \cup {None} /\ FALSE \in BOOLEAN
    OBVIOUS
  <2>. QED BY <1>1, <1>2, <2>1, AdmissionKeepsOwnership DEF AdmissionInv
<1>5. CollectorMatchesMode' /\ PendingStopsAreActive'
  BY <1>1, <1>2, <1>3, <1>4 DEF AdmissionInv, CollectorMatchesMode, PendingStopsAreActive, stopVars
<1>6. batch = None
  BY <1>1, <1>3 DEF AdmissionInv, CollectorMatchesMode
<1>7. sending' \in WorkJob /\ sending'.kind = "Single" /\ sending'.baseline = cancelGeneration
      /\ sending'.token = new
  <2>1. new \in WorkToken
    BY <1>1, <1>3, NewTokenType DEF WorkToken, NewToken
  <2>2. <<r.command>> \in Seq(Mutation)
    BY <1>3
  <2>. QED BY <1>1, <1>2, <2>1, <2>2 DEF WorkJob
<1>8. Owner = None /\ Owner' = new
  <2>1. new # None
    BY <1>1, NewTokenType, NoneAssumption
  <2>. QED BY <1>1, <1>3, <2>1 DEF Owner, CoordinatorTypeOK
<1>9. PipelineIsOwnerThenRelease'
  BY <1>2, <1>3, <1>7, <1>8, OwnerIsSent DEF stopVars, executorVars
<1>. QED
  BY <1>1, <1>2, <1>4, <1>5, <1>6, <1>7, <1>9, DispatcherMoves
     DEF AdmissionInv, TypeOK, stopVars

\* The batch is handed over where the dispatcher and the executor agree on the
\* input state.
LEMMA HandleBatchEndStep ==
  ASSUME IInv, NEW r \in Request, HandleBatchEnd(r)
  PROVE  IInv'
<1> DEFINE new == NewToken(r)
<1>1. /\ TypeOK /\ AdmissionInv /\ CoordinatorTypeOK /\ cancelGeneration \in Nat
      /\ emergencyInFlight \in BOOLEAN /\ BatchIsForeseen /\ InputIsReported
      /\ PipelineIsOwnerThenRelease
  BY DEF IInv, DispatcherInv, TypeOK, AdmissionInv
<1>2. /\ sending = None /\ AdmitBatchEnd(r, emergencyInFlight) /\ batch # None /\ batch' = None
      /\ sending' = [kind |-> "Batch", token |-> new,
                     commands |-> batch.commands, baseline |-> cancelGeneration]
      /\ UNCHANGED <<dispatcherInput, stopVars, releaseCauses, executorVars,
                     jobs, cancel, results, safetyPending>>
  BY DEF HandleBatchEnd, ReadyForRequest, ReadyForResult
<1>3. /\ r.command = "BatchEnd" /\ ~emergencyInFlight /\ batchState.mode = "Collecting"
      /\ executorOwner' = executorOwner /\ batchState' = BatchExecuting(new)
  BY <1>2 DEF AdmitBatchEnd, Fresh, NeedsExecutor
<1>4. /\ CoordinatorTypeOK' /\ OwnersAreActive' /\ ExclusiveOwner'
      /\ \A i \in ActiveSlot : i \in ActiveSlot' /\ cache'[i] = cache[i]
  <2>1. None \in Response \cup {None} /\ FALSE \in BOOLEAN
    OBVIOUS
  <2>. QED BY <1>1, <1>2, <2>1, AdmissionKeepsOwnership DEF AdmissionInv
<1>5. CollectorMatchesMode' /\ PendingStopsAreActive'
  BY <1>1, <1>2, <1>3, <1>4
     DEF AdmissionInv, CollectorMatchesMode, PendingStopsAreActive, stopVars, BatchExecuting
<1>6. Owner = None /\ Owner' = new
  <2>1. executorOwner = None
    BY <1>1, <1>3 DEF AdmissionInv, ExclusiveOwner, BatchIdle
  <2>2. batchState.owner = None
    BY <1>1, <1>3 DEF CoordinatorTypeOK
  <2>. QED BY <1>3, <2>1, <2>2 DEF Owner, BatchExecuting
<1>7. inputState = dispatcherInput
  BY <1>1, <1>3, <1>6, NothingAnywhere DEF InputIsReported
<1>8. IsRunnable(batch.commands, inputState)
  <2>1. batch \in Batch /\ Leads(batch.commands, dispatcherInput, batch.shadow)
    BY <1>1, <1>2 DEF BatchIsForeseen, TypeOK
  <2>. QED BY <1>7, <2>1 DEF IsRunnable, Batch
<1>9. sending' \in WorkJob /\ sending'.baseline = cancelGeneration /\ sending'.token = new
      /\ sending'.commands = batch.commands
  <2>1. new \in WorkToken
    BY <1>1, <1>3, NewTokenType DEF WorkToken, NewToken
  <2>2. batch.commands \in Seq(Mutation)
    BY <1>1, <1>2 DEF TypeOK, Batch
  <2>. QED BY <1>1, <1>2, <2>1, <2>2 DEF WorkJob
<1>10. PipelineIsOwnerThenRelease'
  BY <1>2, <1>3, <1>6, <1>9, OwnerIsSent DEF stopVars, executorVars
<1>. QED
  BY <1>1, <1>2, <1>4, <1>5, <1>8, <1>9, <1>10, DispatcherMoves
     DEF AdmissionInv, TypeOK, stopVars

\* A collection starts from the dispatcher's copy of the input state.
LEMMA HandleBatchBeginStep ==
  ASSUME IInv, NEW r \in Request, HandleBatchBegin(r)
  PROVE  IInv'
<1>1. /\ TypeOK /\ AdmissionInv /\ emergencyInFlight \in BOOLEAN
      /\ dispatcherInput \in InputState
  BY DEF IInv, DispatcherInv, TypeOK, AdmissionInv
<1>2. /\ sending = None /\ AdmitBatchBegin(r, emergencyInFlight)
      /\ batch' = [commands |-> <<>>, shadow |-> dispatcherInput]
      /\ UNCHANGED <<dispatcherInput, stopVars, sending, releaseCauses, executorVars,
                     jobs, cancel, results, safetyPending>>
  BY DEF HandleBatchBegin, ReadyForRequest, ReadyForResult
<1>3. /\ ~emergencyInFlight /\ batchState.mode = "Idle"
      /\ executorOwner' = executorOwner /\ batchState' = BatchCollecting
  BY <1>2 DEF AdmitBatchBegin, Fresh, NeedsExecutor
<1>4. /\ CoordinatorTypeOK' /\ OwnersAreActive' /\ ExclusiveOwner'
      /\ \A i \in ActiveSlot : i \in ActiveSlot' /\ cache'[i] = cache[i]
  <2>1. None \in Response \cup {None} /\ FALSE \in BOOLEAN
    OBVIOUS
  <2>. QED BY <1>1, <1>2, <2>1, AdmissionKeepsOwnership DEF AdmissionInv
<1>5. batch' \in Batch /\ batch' # None
  <2>1. None \notin Batch
    BY PipelineAssumption
  <2>2. batch' \in Batch
    BY <1>1, <1>2 DEF Batch
  <2>. QED BY <2>1, <2>2
<1>6. CollectorMatchesMode' /\ PendingStopsAreActive'
  BY <1>1, <1>2, <1>3, <1>4, <1>5
     DEF AdmissionInv, CollectorMatchesMode, PendingStopsAreActive, stopVars, BatchCollecting
<1>7. Leads(batch'.commands, dispatcherInput, batch'.shadow)
  BY <1>1, <1>2, LeadsNowhere
<1>8. PipelineIsOwnerThenRelease'
  <2>1. Owner' = Owner
    BY <1>1, <1>3 DEF Owner, BatchCollecting, AdmissionInv, CoordinatorTypeOK
  <2>. QED BY <1>2, <2>1, PipelineStays DEF stopVars, executorVars
<1>. QED
  BY <1>1, <1>2, <1>4, <1>5, <1>6, <1>7, <1>8, DispatcherMoves
     DEF AdmissionInv, TypeOK, stopVars

\* A command is collected where the shadow state accepts it.
LEMMA HandleCollectStep ==
  ASSUME IInv, NEW r \in Request, HandleCollect(r)
  PROVE  IInv'
<1> DEFINE ack == Answer(NewToken(r), "Ack")
<1>1. /\ TypeOK /\ AdmissionInv /\ CoordinatorTypeOK /\ emergencyInFlight \in BOOLEAN
      /\ dispatcherInput \in InputState /\ BatchIsForeseen
  BY DEF IInv, DispatcherInv, TypeOK, AdmissionInv
<1>2. /\ sending = None /\ AdmitCollect(r, emergencyInFlight, ack, FALSE)
      /\ batch # None /\ r.command \in Mutation /\ CanCollect(r.command)
      /\ batch' = [commands |-> Append(batch.commands, r.command),
                   shadow |-> After(r.command, batch.shadow)]
      /\ UNCHANGED <<dispatcherInput, stopVars, sending, releaseCauses, executorVars,
                     jobs, cancel, results, safetyPending>>
  BY DEF HandleCollect, ReadyForRequest, ReadyForResult
<1>3. executorOwner' = executorOwner /\ batchState' = batchState
  BY <1>2 DEF AdmitCollect
<1>4. /\ CoordinatorTypeOK' /\ OwnersAreActive' /\ ExclusiveOwner'
      /\ \A i \in ActiveSlot : i \in ActiveSlot' /\ cache'[i] = cache[i]
  <2>1. ack \in Response \cup {None} /\ FALSE \in BOOLEAN
    BY <1>1, NewTokenType, AnswerType DEF ResponseKind
  <2>. QED BY <1>1, <1>2, <2>1, AdmissionKeepsOwnership DEF AdmissionInv
<1>5. /\ batch.commands \in Seq(Mutation) /\ batch.shadow \in InputState
      /\ Leads(batch.commands, dispatcherInput, batch.shadow)
  BY <1>1, <1>2 DEF TypeOK, Batch, BatchIsForeseen
<1>6. batch' \in Batch /\ batch' # None
  <2>1. /\ Append(batch.commands, r.command) \in Seq(Mutation)
        /\ After(r.command, batch.shadow) \in InputState
    BY <1>2, <1>5, AppendProperties, AfterType
  <2>2. None \notin Batch
    BY PipelineAssumption
  <2>3. batch' \in Batch
    BY <1>2, <2>1 DEF Batch
  <2>. QED BY <2>2, <2>3
<1>7. CollectorMatchesMode' /\ PendingStopsAreActive'
  BY <1>1, <1>2, <1>3, <1>4, <1>6
     DEF AdmissionInv, CollectorMatchesMode, PendingStopsAreActive, stopVars
<1>8. Leads(batch'.commands, dispatcherInput, batch'.shadow)
  BY <1>1, <1>2, <1>5, LeadsFurther DEF CanCollect
<1>9. PipelineIsOwnerThenRelease'
  <2>1. Owner' = Owner
    BY <1>3 DEF Owner
  <2>. QED BY <1>2, <2>1, PipelineStays DEF stopVars, executorVars
<1>. QED
  BY <1>1, <1>2, <1>4, <1>6, <1>7, <1>8, <1>9, DispatcherMoves
     DEF AdmissionInv, TypeOK, stopVars

\* A command that cannot be collected ends the collection and asks for a release.
LEMMA HandleCollectErrorStep ==
  ASSUME IInv, NEW r \in Request, HandleCollectError(r)
  PROVE  IInv'
<1> DEFINE nack == Answer(NewToken(r), "Nack")
<1>1. /\ TypeOK /\ AdmissionInv /\ CoordinatorTypeOK /\ emergencyInFlight \in BOOLEAN
  BY DEF IInv, DispatcherInv, TypeOK, AdmissionInv
<1>2. /\ sending = None /\ AdmitCollect(r, emergencyInFlight, nack, TRUE)
      /\ batch # None /\ batch' = None /\ ScheduleEmergency("BatchError")
      /\ UNCHANGED <<dispatcherInput, pendingStops, executorVars, jobs, results, safetyPending>>
  BY DEF HandleCollectError, ReadyForRequest, ReadyForResult
<1>3. executorOwner' = executorOwner /\ batchState' = BatchIdle /\ batchState.mode = "Collecting"
  BY <1>2 DEF AdmitCollect
<1>4. /\ CoordinatorTypeOK' /\ OwnersAreActive' /\ ExclusiveOwner'
      /\ \A i \in ActiveSlot : i \in ActiveSlot' /\ cache'[i] = cache[i]
  <2>1. nack \in Response \cup {None} /\ TRUE \in BOOLEAN
    BY <1>1, NewTokenType, AnswerType DEF ResponseKind
  <2>. QED BY <1>1, <1>2, <2>1, AdmissionKeepsOwnership DEF AdmissionInv
<1>5. /\ cancelGeneration' = cancelGeneration + 1 /\ cancel' = cancelGeneration + 1
      /\ emergencyInFlight' = TRUE /\ emergencyInFlight' \in BOOLEAN
      /\ sending' \in {None, EmergencyJob}
      /\ releaseCauses' \subseteq {"Stop", "Safety", "BatchError"}
  BY <1>1, <1>2, EmergencyEffect
<1>6. CollectorMatchesMode' /\ PendingStopsAreActive'
  BY <1>1, <1>2, <1>3, <1>4, <1>5
     DEF AdmissionInv, CollectorMatchesMode, PendingStopsAreActive, BatchIdle
<1>7. PipelineIsOwnerThenRelease'
  <2>1. Owner' = Owner
    BY <1>1, <1>3 DEF Owner, BatchIdle, CoordinatorTypeOK
  <2>. QED BY <1>2, <2>1, ReleaseIsSent DEF executorVars
<1>. QED
  BY <1>1, <1>2, <1>4, <1>5, <1>6, <1>7, DispatcherMoves DEF AdmissionInv, TypeOK

\* A command that bypasses the executor concerns the coordinator alone.
LEMMA HandleBypassStep ==
  ASSUME IInv, NEW r \in Request, HandleBypass(r)
  PROVE  IInv'
<1> DEFINE answer == Answer(NewToken(r), ExpectedResponse(r.command))
<1>1. /\ TypeOK /\ AdmissionInv /\ CoordinatorTypeOK /\ emergencyInFlight \in BOOLEAN
  BY DEF IInv, DispatcherInv, TypeOK, AdmissionInv
<1>2. /\ sending = None /\ AdmitBypass(r, emergencyInFlight, answer)
      /\ UNCHANGED <<dispatcherVars, executorVars, jobs, cancel, results, safetyPending>>
  BY DEF HandleBypass, ReadyForRequest, ReadyForResult
<1>3. executorOwner' = executorOwner /\ batchState' = batchState
  BY <1>2 DEF AdmitBypass
<1>4. /\ CoordinatorTypeOK' /\ OwnersAreActive' /\ ExclusiveOwner'
      /\ \A i \in ActiveSlot : i \in ActiveSlot' /\ cache'[i] = cache[i]
  <2>1. ExpectedResponse(r.command) \in ResponseKind
    BY DEF ExpectedResponse, ResponseKind
  <2>2. answer \in Response \cup {None} /\ FALSE \in BOOLEAN
    BY <1>1, <2>1, NewTokenType, AnswerType
  <2>. QED BY <1>1, <1>2, <2>2, AdmissionKeepsOwnership DEF AdmissionInv
<1>5. CollectorMatchesMode' /\ PendingStopsAreActive'
  BY <1>1, <1>2, <1>3, <1>4
     DEF AdmissionInv, CollectorMatchesMode, PendingStopsAreActive, dispatcherVars, stopVars
<1>6. PipelineIsOwnerThenRelease'
  <2>1. Owner' = Owner
    BY <1>3 DEF Owner
  <2>. QED BY <1>2, <2>1, PipelineStays DEF dispatcherVars, stopVars, executorVars
<1>7. batch # None => Leads(batch.commands, dispatcherInput, batch.shadow)
  BY DEF IInv, DispatcherInv, BatchIsForeseen
<1>. QED
  BY <1>1, <1>2, <1>4, <1>5, <1>6, <1>7, DispatcherMoves
     DEF AdmissionInv, TypeOK, dispatcherVars, stopVars

\* STOP_ALL waits for the release under an active entry of its own.
LEMMA HandleStopStep ==
  ASSUME IInv, NEW r \in Request, HandleStop(r)
  PROVE  IInv'
<1> DEFINE new == NewToken(r)
<1>1. /\ TypeOK /\ AdmissionInv /\ CoordinatorTypeOK /\ emergencyInFlight \in BOOLEAN
      /\ pendingStops \subseteq Token
  BY DEF IInv, DispatcherInv, TypeOK, AdmissionInv
<1>2. /\ sending = None /\ AdmitStop(r, emergencyInFlight) /\ batch' = None
      /\ pendingStops' = pendingStops \cup {new} /\ ScheduleEmergency("Stop")
      /\ UNCHANGED <<dispatcherInput, executorVars, jobs, results, safetyPending>>
  BY DEF HandleStop, ReadyForRequest, ReadyForResult
<1>3. /\ r.command = "StopAll" /\ Insert(r, None) /\ executorOwner' = executorOwner
      /\ batchState' = IF batchState.mode = "Collecting" THEN BatchIdle ELSE batchState
  BY <1>2 DEF AdmitStop
<1>4. /\ CoordinatorTypeOK' /\ OwnersAreActive' /\ ExclusiveOwner'
      /\ \A i \in ActiveSlot : i \in ActiveSlot' /\ cache'[i] = cache[i]
  <2>1. None \in Response \cup {None} /\ FALSE \in BOOLEAN
    OBVIOUS
  <2>. QED BY <1>1, <1>2, <2>1, AdmissionKeepsOwnership DEF AdmissionInv
<1>5. /\ cancelGeneration' = cancelGeneration + 1 /\ cancel' = cancelGeneration + 1
      /\ emergencyInFlight' = TRUE /\ emergencyInFlight' \in BOOLEAN
      /\ sending' \in {None, EmergencyJob}
      /\ releaseCauses' \subseteq {"Stop", "Safety", "BatchError"}
  BY <1>1, <1>2, EmergencyEffect
<1>6. CollectorMatchesMode'
  BY <1>2, <1>3 DEF CollectorMatchesMode, BatchIdle
<1>7. new \in Token /\ new.command = "StopAll" /\ \E i \in ActiveSlot' : cache'[i].token = new
  BY <1>1, <1>3, NewTokenType, PendingAdmissionIsActive DEF NewToken
<1>8. PendingStopsAreActive'
  BY <1>1, <1>2, <1>4, <1>5, <1>7 DEF AdmissionInv, PendingStopsAreActive
<1>9. PipelineIsOwnerThenRelease'
  <2>1. Owner' = Owner
    BY <1>1, <1>3 DEF Owner, BatchIdle, CoordinatorTypeOK
  <2>. QED BY <1>2, <2>1, ReleaseIsSent DEF executorVars
<1>10. safetyPending' \in Nat /\ pendingStops' \subseteq Token
  BY <1>1, <1>2, <1>7 DEF TypeOK
<1>. QED
  BY <1>2, <1>4, <1>5, <1>6, <1>8, <1>9, <1>10, DispatcherMoves DEF AdmissionInv

\* The end of a session leaves no owner, collector or pending stop.
LEMMA HandleSafetyEventStep ==
  ASSUME IInv, HandleSafetyEvent
  PROVE  IInv'
<1>1. TypeOK /\ CoordinatorTypeOK
  BY DEF IInv, DispatcherInv, TypeOK
<1>2. /\ sending = None /\ ClearSession /\ batch' = None /\ pendingStops' = {}
      /\ safetyPending > 0 /\ safetyPending' = safetyPending - 1
      /\ ScheduleEmergency("Safety")
      /\ UNCHANGED <<dispatcherInput, executorVars, jobs, results>>
  BY DEF HandleSafetyEvent
<1>3. /\ CoordinatorTypeOK' /\ OwnersAreActive' /\ ExclusiveOwner'
      /\ executorOwner' = None /\ batchState' = BatchIdle
  BY <1>1, <1>2, ClearSessionEffect
<1>4. /\ cancelGeneration' = cancelGeneration + 1 /\ cancel' = cancelGeneration + 1
      /\ emergencyInFlight' = TRUE /\ emergencyInFlight' \in BOOLEAN
      /\ sending' \in {None, EmergencyJob}
      /\ releaseCauses' \subseteq {"Stop", "Safety", "BatchError"}
  BY <1>1, <1>2, EmergencyEffect
<1>5. CollectorMatchesMode' /\ PendingStopsAreActive'
  BY <1>2, <1>3 DEF CollectorMatchesMode, PendingStopsAreActive, BatchIdle
<1>6. PipelineIsOwnerThenRelease'
  <2>1. Owner' = None
    BY <1>3 DEF Owner, BatchIdle
  <2>. QED BY <1>2, <2>1, ReleaseIsSent DEF executorVars
<1>7. safetyPending' \in Nat
  <2>1. safetyPending \in Nat
    BY <1>1 DEF TypeOK
  <2>. QED BY <1>2, <2>1
<1>. QED
  BY <1>2, <1>3, <1>4, <1>5, <1>6, <1>7, DispatcherMoves DEF AdmissionInv

-----------------------------------------------------------------------------
(* The dispatcher takes a result.                                          *)

\* With the oldest result taken, the latest is still the one to go by.
LEMMA LatestReport ==
  ASSUME TypeOK, InputIsReported, results # <<>>, results' = Tail(results),
         dispatcherInput' = Head(results).inputState, UNCHANGED executorVars
  PROVE  InputIsReported'
<1>1. results \in Seq(Result)
  BY DEF TypeOK
<1>a. Len(results) \in Nat
  BY <1>1, LenProperties
<1>b. Len(results) # 0
  BY <1>1, EmptySeq
<1>c. Len(Tail(results)) = Len(results) - 1
  BY <1>1, HeadTailProperties
<1>2. \A i \in 1 .. Len(results) - 1 : Tail(results)[i] = results[i + 1]
  BY <1>1, HeadTailProperties
<1>3. CASE Tail(results) = <<>>
  <2>1. Len(Tail(results)) = 0
    BY <1>1, <1>3, HeadTailProperties, EmptySeq
  <2>2. \A n \in Nat : n - 1 = 0 => n = 1
    OBVIOUS
  <2>3. Len(results) = 1
    BY <1>a, <1>c, <2>1, <2>2
  <2>4. Head(results) = results[Len(results)]
    BY <2>3
  <2>. QED BY <1>3, <2>4 DEF InputIsReported, executorVars
<1>4. CASE Tail(results) # <<>>
  <2>1. Len(Tail(results)) # 0
    BY <1>1, <1>4, HeadTailProperties, EmptySeq
  <2>2. \A n \in Nat : n # 0 /\ n - 1 # 0 => n - 1 \in 1 .. n - 1 /\ (n - 1) + 1 = n
    OBVIOUS
  <2>3. Len(results) - 1 \in 1 .. Len(results) - 1 /\ (Len(results) - 1) + 1 = Len(results)
    BY <1>a, <1>b, <1>c, <2>1, <2>2
  <2>4. Tail(results)[Len(Tail(results))] = results[Len(results)]
    BY <1>c, <1>2, <2>3
  <2>. QED BY <1>4, <2>4 DEF InputIsReported, executorVars
<1>. QED BY <1>3, <1>4

\* A step of the dispatcher that takes the oldest result: no collection is open.
LEMMA ResultMoves ==
  ASSUME IInv, results # <<>>, results' = Tail(results),
         dispatcherInput' = Head(results).inputState,
         UNCHANGED <<batch, cancelGeneration, sending, executorVars, jobs, cancel,
                     safetyPending>>,
         pendingStops' \subseteq Token, emergencyInFlight' \in BOOLEAN,
         releaseCauses' \subseteq {"Stop", "Safety", "BatchError"},
         batch = None => AdmissionInv', PipelineIsOwnerThenRelease'
  PROVE  IInv'
<1>1. /\ TypeOK /\ InputIsReported /\ PipelineIsOwnerThenRelease /\ ExclusiveOwner
      /\ CollectorMatchesMode /\ CancelReachesWork /\ CancelIsCurrent /\ BatchIsForeseen
      /\ CoordinatorTypeOK
  BY DEF IInv, DispatcherInv, TypeOK
<1>2. batch = None
  <2>1. SUFFICES ASSUME batch # None PROVE FALSE
    OBVIOUS
  <2>2. ~emergencyInFlight /\ batchState.mode = "Collecting"
    BY <1>1, <2>1 DEF CollectorMatchesMode
  <2>3. Owner = None
    BY <1>1, <2>2 DEF Owner, ExclusiveOwner, BatchIdle, CoordinatorTypeOK
  <2>. QED BY <1>1, <2>2, <2>3, NothingAnywhere
<1>3. results \in Seq(Result) /\ Head(results) \in Result /\ Tail(results) \in Seq(Result)
  BY <1>1, HeadTailProperties DEF TypeOK
<1>4. Len(results') <= ResultCapacity
  <2>1. Len(results) \in Nat
    BY <1>3, LenProperties
  <2>2. Len(results') = Len(results) - 1
    BY <1>3, HeadTailProperties
  <2>3. Len(results) <= ResultCapacity
    BY <1>1 DEF TypeOK
  <2>4. ResultCapacity \in Nat
    BY PipelineAssumption
  <2>5. \A n, c \in Nat : n <= c => n - 1 <= c
    OBVIOUS
  <2>. QED BY <2>1, <2>2, <2>3, <2>4, <2>5
<1>5. TypeOK'
  BY <1>1, <1>2, <1>3, <1>4, WorkTokens DEF TypeOK, AdmissionInv, executorVars
<1>6. ExecutorKeepsToItsPlan' /\ CancelReachesWork' /\ CancelIsCurrent'
  BY <1>1 DEF IInv, DispatcherInv, ExecutorKeepsToItsPlan, CancelReachesWork, CancelIsCurrent,
         executorVars
<1>7. InputIsReported'
  BY <1>1, LatestReport
<1>8. BatchIsForeseen'
  BY <1>1, <1>2 DEF BatchIsForeseen, executorVars
<1>. QED BY <1>2, <1>5, <1>6, <1>7, <1>8 DEF IInv, DispatcherInv, AdmissionInv

\* The result of its own work is never too late for an owner.
LEMMA OwnerCompletes ==
  ASSUME CoordinatorTypeOK, OwnersAreActive, NEW t \in WorkToken,
         t \in {executorOwner, batchState.owner}, NEW answer \in {"Ack", "Nack"}
  PROVE  CanComplete(t, Answer(t, answer))
<1>1. t \in Token /\ t # None /\ t.command \notin {"GetInfo", "GetCaps"}
  BY CommandAssumption, WorkTokens DEF WorkToken, Query, ControlCommand
<1>2. \E i \in Slot : AwaitsAnswer(i, t)
  BY <1>1 DEF OwnersAreActive, ActiveSlot, AwaitsAnswer
<1>3. IsFinal(Answer(t, answer), t.command)
  BY <1>1 DEF IsFinal, Answer, ExpectedResponse
<1>. QED BY <1>2, <1>3 DEF CanComplete, Answer

\* A job's result gives execution back if the job's admission still has it.
LEMMA HandleCommandResultStep ==
  ASSUME IInv, HandleCommandResult
  PROVE  IInv'
<1> DEFINE result == Head(results)
           t == result.token
           response == Answer(t, result.answer)
<1>1. /\ TypeOK /\ AdmissionInv /\ CoordinatorTypeOK /\ PipelineIsOwnerThenRelease
      /\ emergencyInFlight \in BOOLEAN /\ pendingStops \subseteq Token
      /\ releaseCauses \subseteq {"Stop", "Safety", "BatchError"}
  BY DEF IInv, DispatcherInv, TypeOK, AdmissionInv
<1>2. /\ results # <<>> /\ result.kind = "Command" /\ dispatcherInput' = result.inputState
      /\ Complete(t, response) \/ CompleteFails(t, response)
      /\ results' = Tail(results)
      /\ UNCHANGED <<batch, stopVars, sending, releaseCauses, executorVars, jobs,
                     cancel, safetyPending>>
  BY DEF HandleCommandResult
<1>3. t \in WorkToken /\ t \in Token /\ t # None /\ result.answer \in {"Ack", "Nack"}
  <2>1. result \in Result
    BY <1>1, <1>2, HeadTailProperties DEF TypeOK
  <2>. QED BY <1>2, <2>1, WorkTokens DEF Result
<1>4. response \in Response
  BY <1>3, AnswerType DEF ResponseKind
<1>5. Pipeline # <<>> /\ Head(Pipeline) = t /\ Pipeline' = Tail(Pipeline)
  BY <1>1, <1>2, ResultIsTaken DEF executorVars
<1>. HIDE DEF result, t, response
<1>6. /\ Owner \in {None, t}
      /\ Pipeline' = IF emergencyInFlight THEN <<None>> ELSE <<>>
  <2>1. Pipeline \in Seq(Work) /\ Owner \in Work
    BY <1>1, Stages
  <2>2. CASE Pipeline = <<Owner>> /\ ~emergencyInFlight
    <3>1. Head(<<Owner>>) = Owner /\ Tail(<<Owner>>) = <<>>
      OBVIOUS
    <3>. QED BY <1>5, <2>2, <3>1
  <2>3. ASSUME emergencyInFlight, NEW u \in Token, Pipeline = <<u, None>>, Owner \in {None, u}
        PROVE  Owner \in {None, t} /\ Pipeline' = <<None>>
    <3>1. Head(<<u, None>>) = u /\ Tail(<<u, None>>) = <<None>>
      OBVIOUS
    <3>. QED BY <1>5, <2>3, <3>1
  <2>4. CASE Pipeline = <<None>>
    BY <1>3, <1>5, <2>4
  <2>. QED BY <1>1, <1>5, <2>1, <2>2, <2>3, <2>4, PipelineForms
<1>7. CASE Complete(t, response)
  <2>1. /\ CoordinatorTypeOK' /\ OwnersAreActive' /\ ExclusiveOwner'
        /\ \A i \in ActiveSlot : cache[i].token # t => i \in ActiveSlot' /\ cache'[i] = cache[i]
        /\ executorOwner' # t /\ batchState'.owner # t
    BY <1>1, <1>3, <1>4, <1>7, CompletionKeepsOwnership DEF AdmissionInv
  <2>2. /\ executorOwner' \in {None, executorOwner}
        /\ batchState' \in {batchState, BatchIdle}
        /\ batchState' # batchState => batchState.mode = "Executing"
    BY <1>7 DEF Complete, BatchExecuting
  <2>3. Owner' = None
    BY <1>1, <1>3, <1>6, <2>1, <2>2 DEF Owner, AdmissionInv, ExclusiveOwner, BatchIdle
  <2>4. CollectorMatchesMode'
    BY <1>1, <1>2, <2>2 DEF AdmissionInv, CollectorMatchesMode, BatchIdle, stopVars
  <2>5. PendingStopsAreActive'
    <3>1. \A u \in pendingStops : u # t
      BY <1>1, <1>3, CommandAssumption
         DEF AdmissionInv, PendingStopsAreActive, WorkToken, ControlCommand
    <3>. QED BY <1>1, <1>2, <2>1, <3>1 DEF AdmissionInv, PendingStopsAreActive, stopVars
  <2>6. PipelineIsOwnerThenRelease'
    BY <1>2, <1>6, <2>3 DEF PipelineIsOwnerThenRelease, stopVars
  <2>. QED BY <1>1, <1>2, <2>1, <2>4, <2>5, <2>6, ResultMoves DEF AdmissionInv, stopVars, result
<1>8. CASE CompleteFails(t, response)
  <2>1. UNCHANGED coordVars /\ ~CanComplete(t, response)
    BY <1>8 DEF CompleteFails
  <2>2. Owner = None
    <3>1. t \notin {executorOwner, batchState.owner}
      BY <1>1, <1>3, <2>1, OwnerCompletes DEF AdmissionInv, response
    <3>. QED BY <1>3, <1>6, <3>1 DEF Owner
  <2>3. Owner' = None
    BY <2>1, <2>2 DEF Owner, coordVars
  <2>4. AdmissionInv'
    BY <1>1, <1>2, <2>1
       DEF AdmissionInv, CoordinatorTypeOK, OwnersAreActive, ExclusiveOwner, CollectorMatchesMode,
           PendingStopsAreActive, ActiveSlot, IsActive, Slot, coordVars, stopVars
  <2>5. PipelineIsOwnerThenRelease'
    BY <1>2, <1>6, <2>3 DEF PipelineIsOwnerThenRelease, stopVars
  <2>. QED BY <1>1, <1>2, <2>4, <2>5, ResultMoves DEF stopVars, result
<1>. QED BY <1>2, <1>7, <1>8

\* The release is done when it is the only work there is: there is no owner then.
LEMMA ReleaseIsLast ==
  ASSUME IInv, results # <<>>, Head(results).kind = "Emergency"
  PROVE  /\ emergencyInFlight /\ Owner = None /\ Pipeline = <<None>>
         /\ Head(Pipeline) = None
<1>1. TypeOK /\ PipelineIsOwnerThenRelease /\ results \in Seq(Result)
  BY DEF IInv, DispatcherInv, TypeOK
<1>2. Head(results).token = None
  <2>1. Head(results) \in Result
    BY <1>1, HeadTailProperties
  <2>. QED BY <2>1, WorkTokens
<1>3. Pipeline \in Seq(Work) /\ Owner \in Work /\ Len(results) \in Nat
  BY <1>1, Stages
<1>4. Pipeline # <<>> /\ Head(Pipeline) = None
  <2>1. TokensOf(results) # <<>> /\ Head(TokensOf(results)) = Head(results).token
    BY <1>1, TokensOfQueue, WorkTokens, HeadTailProperties
  <2> DEFINE A == TokensOf(results) \o TokenInExecutor
             B == A \o TokensOf(jobs)
  <2>2. /\ TokensOf(results) \in Seq(Work) /\ TokenInExecutor \in Seq(Work)
        /\ TokensOf(jobs) \in Seq(Work) /\ TokenBeingSent \in Seq(Work)
    BY <1>1, Stages
  <2>3. A \in Seq(Work) /\ A # <<>> /\ Head(A) = Head(TokensOf(results))
    BY <2>1, <2>2, ConcatFirst, ConcatProperties
  <2>4. Pipeline = B \o TokenBeingSent
    BY DEF Pipeline
  <2>. HIDE DEF A
  <2>5. B \in Seq(Work) /\ B # <<>> /\ Head(B) = Head(A)
    BY <2>2, <2>3, ConcatFirst, ConcatProperties
  <2>. HIDE DEF B
  <2>6. B \o TokenBeingSent # <<>> /\ Head(B \o TokenBeingSent) = Head(B)
    BY <2>2, <2>5, ConcatFirst
  <2>. QED BY <1>2, <2>1, <2>3, <2>4, <2>5, <2>6
<1>5. ASSUME NEW x \in Work, x # None
      PROVE  Pipeline # <<x>> /\ Pipeline # <<x, None>>
  BY <1>4, <1>5
<1>6. \A u \in Token : u \in Work /\ u # None
  BY NoneAssumption DEF Work
<1>. QED BY <1>1, <1>3, <1>4, <1>5, <1>6, PipelineForms

\* The release is done: nothing is under way, and every pending STOP_ALL is answered.
LEMMA HandleEmergencyResultStep ==
  ASSUME IInv, HandleEmergencyResult
  PROVE  IInv'
<1>1. /\ TypeOK /\ AdmissionInv /\ CoordinatorTypeOK
  BY DEF IInv, DispatcherInv, TypeOK, AdmissionInv
<1>2. /\ results # <<>> /\ Head(results).kind = "Emergency"
      /\ dispatcherInput' = Head(results).inputState
      /\ emergencyInFlight' = FALSE /\ pendingStops' = {} /\ releaseCauses' = {}
      /\ cache' = [i \in Slot |->
                     IF \E token \in pendingStops : AwaitsAnswer(i, token)
                     THEN [cache[i] EXCEPT !.response = Answer(cache[i].token, "Ack")]
                     ELSE cache[i]]
      /\ results' = Tail(results)
      /\ UNCHANGED <<nextEvict, sessionGeneration, nextAdmissionId, executorOwner,
                     batchState, batch, cancelGeneration, sending, executorVars, jobs, cancel,
                     safetyPending>>
  BY DEF HandleEmergencyResult
<1>3. /\ emergencyInFlight /\ Owner = None /\ Pipeline = <<None>>
  BY <1>2, ReleaseIsLast
<1>4. Pipeline' = <<>>
  <2>1. Pipeline' = Tail(Pipeline)
    BY <1>1, <1>2, ResultIsTaken DEF executorVars
  <2>. QED BY <1>3, <2>1
<1>5. executorOwner = None /\ batchState.owner = None
  BY <1>3 DEF Owner
<1>6. cache' \in Seq(Entry) /\ Len(cache') = Len(cache)
  <2>1. /\ Slot = 1 .. Len(cache) /\ Len(cache) \in Nat
        /\ \A i \in Slot : cache[i] \in Entry /\ cache[i].token \in Token
    BY <1>1, SlotFacts
  <2>2. \A i \in Slot : cache'[i] \in Entry
    <3>1. \A i \in Slot : Answer(cache[i].token, "Ack") \in Response
      BY <2>1, AnswerType DEF ResponseKind
    <3>. QED BY <1>2, <2>1, <3>1 DEF Entry
  <2>3. cache' \in [1 .. Len(cache) -> Entry]
    BY <1>2, <2>1, <2>2
  <2>4. cache' \in Seq(Entry)
    BY <2>1, <2>3, SeqDef
  <2>. QED BY <2>1, <2>3, <2>4, LenProperties
<1>7. CoordinatorTypeOK'
  BY <1>1, <1>2, <1>6 DEF CoordinatorTypeOK
<1>8. OwnersAreActive' /\ ExclusiveOwner'
  BY <1>1, <1>2, <1>5 DEF AdmissionInv, OwnersAreActive, ExclusiveOwner
<1>9. batch = None => CollectorMatchesMode'
  BY <1>1, <1>2 DEF AdmissionInv, CollectorMatchesMode
<1>10. PendingStopsAreActive'
  BY <1>2 DEF PendingStopsAreActive
<1>11. PipelineIsOwnerThenRelease'
  <2>1. Owner' = None
    BY <1>2, <1>5 DEF Owner
  <2>. QED BY <1>2, <1>4, <2>1 DEF PipelineIsOwnerThenRelease
<1>. QED BY <1>2, <1>7, <1>8, <1>9, <1>10, <1>11, ResultMoves DEF AdmissionInv

-----------------------------------------------------------------------------
(* The theorems.                                                           *)

\* The firmware starts in a state of the invariant ...
LEMMA InitEstablishes ==
  ASSUME Init
  PROVE  IInv
<1>1. CoordinatorTypeOK
  BY CacheSizeAssumption DEF Init, CoordinatorInit, CoordinatorTypeOK, BatchIdle
<1>2. IdleExecutor \in Executor /\ IdleExecutor.phase = "Idle"
  BY JobFacts DEF IdleExecutor, Executor
<1>3. TypeOK
  <2>1. /\ batch \in Batch \cup {None} /\ dispatcherInput \in InputState
        /\ pendingStops \subseteq Token /\ emergencyInFlight \in BOOLEAN
        /\ cancelGeneration \in Nat /\ sending \in Job \cup {None}
        /\ cancel \in Nat \cup {None} /\ inputState \in InputState /\ safetyPending \in Nat
        /\ releaseCauses \subseteq {"Stop", "Safety", "BatchError"}
    BY DEF Init, InputState
  <2>2. jobs \in Seq(Job) /\ Len(jobs) <= 1
    BY DEF Init
  <2>3. results \in Seq(Result) /\ Len(results) <= ResultCapacity
    BY PipelineAssumption DEF Init
  <2>4. executor \in Executor
    BY <1>2 DEF Init
  <2>. QED BY <1>1, <2>1, <2>2, <2>3, <2>4 DEF TypeOK
<1>4. OwnersAreActive /\ ExclusiveOwner
  BY DEF Init, CoordinatorInit, OwnersAreActive, ExclusiveOwner, BatchIdle
<1>5. CollectorMatchesMode /\ PendingStopsAreActive
  BY DEF Init, CoordinatorInit, CollectorMatchesMode, PendingStopsAreActive, BatchIdle
<1>6. ExecutorKeepsToItsPlan /\ InputIsReported /\ CancelIsCurrent
  BY <1>2 DEF Init, ExecutorKeepsToItsPlan, InputIsReported, CancelIsCurrent
<1>7. /\ \A i \in DOMAIN jobs : FALSE
      /\ sending \notin WorkJob
  BY JobFacts DEF Init
<1>8. CancelReachesWork /\ BatchIsForeseen
  BY <1>2, <1>7 DEF Init, CancelReachesWork, BatchIsForeseen
<1>9. PipelineIsOwnerThenRelease
  <2>1. Owner = None /\ ~emergencyInFlight
    BY DEF Init, CoordinatorInit, Owner, BatchIdle
  <2>2. results = <<>> /\ jobs = <<>> /\ sending = None /\ executor.phase = "Idle"
    BY <1>2 DEF Init
  <2>3. Pipeline = ((<<>> \o <<>>) \o <<>>) \o <<>>
    BY <2>2, TokensOfFew DEF Pipeline, TokenInExecutor, TokenBeingSent
  <2>4. <<>> \o <<>> = <<>>
    BY EmptySeq, ConcatEmptySeq
  <2>5. Pipeline = <<>>
    BY <2>3, <2>4
  <2>. QED BY <2>1, <2>5 DEF PipelineIsOwnerThenRelease
<1>. QED BY <1>3, <1>4, <1>5, <1>6, <1>8, <1>9 DEF IInv, DispatcherInv

\* ... every step keeps it ...
LEMMA NextKeeps ==
  ASSUME IInv, [Next]_vars
  PROVE  IInv'
<1>1. ASSUME NEW r \in Request, HandleRequest(r)
      PROVE  IInv'
  BY <1>1, HandleExecuteStep, HandleBatchEndStep, HandleBatchBeginStep, HandleCollectStep,
     HandleCollectErrorStep, HandleBypassStep, HandleStopStep DEF HandleRequest
<1>2. CASE HandleResult
  BY <1>2, HandleCommandResultStep, HandleEmergencyResultStep DEF HandleResult
<1>3. CASE HandleSafetyEvent
  BY <1>3, HandleSafetyEventStep
<1>4. CASE SendJob
  BY <1>4, SendJobStep
<1>5. CASE ExecutorStep \/ TimerFires
  BY <1>5, TakeJobStep, ExecutorStepStep, ReportChainsStep, PublishResultStep DEF ExecutorStep
<1>6. CASE RaiseSafetyEvent \/ UNCHANGED vars
  <2>1. safetyPending' \in Nat
    BY <1>6 DEF RaiseSafetyEvent, IInv, DispatcherInv, TypeOK, vars
  <2>. QED BY <1>6, <2>1, NothingElseMoves DEF RaiseSafetyEvent, vars
<1>. QED BY <1>1, <1>2, <1>3, <1>4, <1>5, <1>6 DEF Next

\* ... so it holds for ever.
THEOREM Invariance == Spec => []IInv
BY InitEstablishes, NextKeeps, PTL DEF Spec

\* What the dispatcher, the coordinator, the executor and the channels between
\* them record of one fact agrees, whatever the order of requests, results and
\* safety events.
THEOREM DispatcherInvariant == Spec => []DispatcherInv
<1>1. IInv => DispatcherInv
  BY DEF IInv
<1>. QED BY <1>1, Invariance, PTL

\* Two commands never execute together, and an owner's result is always on its way.
THEOREM OwnerThenRelease == Spec => []PipelineIsOwnerThenRelease
<1>1. IInv => PipelineIsOwnerThenRelease
  BY DEF IInv
<1>. QED BY <1>1, Invariance, PTL

\* CANCEL never holds a generation that a later job could be cancelled by.
THEOREM CancellationIsCurrent == Spec => []CancelIsCurrent
<1>1. IInv => CancelIsCurrent
  BY DEF IInv
<1>. QED BY <1>1, Invariance, PTL

\* What the collector accepts the executor never refuses.
THEOREM ValidatedBatchExecutes == Spec => []BatchIsNeverRefused
<1>1. ASSUME IInv PROVE BatchIsNeverRefused
  <2>1. TypeOK /\ BatchIsForeseen
    BY <1>1 DEF IInv, DispatcherInv
  <2>2. ASSUME executor.phase = "Running", executor.job.kind = "Batch", executor.todo # <<>>
        PROVE  ~Refused(Head(executor.todo), PlanEnd(executor.plan, inputState))
    <3>1. /\ executor.todo \in Seq(Mutation) /\ executor.plan \in Seq(Step)
          /\ executor.plan # <<>> /\ inputState \in InputState
          /\ IsRunnable(executor.todo, PlanEnd(executor.plan, inputState))
      BY <1>1, <2>2, RunningJob
    <3>2. PlanEnd(executor.plan, inputState) \in InputState
      <4>1. executor.plan[Len(executor.plan)] \in Step
        <5>1. Len(executor.plan) \in Nat
          BY <3>1, LenProperties
        <5>2. Len(executor.plan) # 0
          BY <3>1, EmptySeq
        <5>3. \A n \in Nat : n # 0 => n \in 1 .. n
          OBVIOUS
        <5>4. Len(executor.plan) \in 1 .. Len(executor.plan)
          BY <5>1, <5>2, <5>3
        <5>. QED BY <3>1, <5>4, ElementOfSeq
      <4>. QED BY <3>1, <4>1 DEF PlanEnd, Step
    <3>. QED BY <2>2, <3>1, <3>2, RunnableStep
  <2>3. ASSUME jobs # <<>>, Head(jobs).kind = "Batch", Head(jobs).commands # <<>>
        PROVE  ~Refused(Head(Head(jobs).commands), inputState)
    <3>1. jobs \in Seq(Job) /\ Len(jobs) <= 1 /\ inputState \in InputState
      BY <2>1 DEF TypeOK
    <3>2. jobs = <<Head(jobs)>> /\ Head(jobs) \in Job
      BY <2>3, <3>1, SingleElement
    <3>3. 1 \in DOMAIN jobs /\ jobs[1] = Head(jobs)
      BY <3>2
    <3>4. Head(jobs) \in WorkJob /\ Head(jobs).commands \in Seq(Mutation)
      BY <2>3, <3>2, JobFacts
    <3>5. IsRunnable(Head(jobs).commands, inputState)
      BY <2>1, <2>3, <3>3, <3>4 DEF BatchIsForeseen
    <3>. QED BY <2>3, <3>1, <3>4, <3>5, RunnableStep
  <2>. QED BY <2>2, <2>3 DEF BatchIsNeverRefused
<1>. QED BY <1>1, Invariance, PTL

-----------------------------------------------------------------------------
(* What a step may do.                                                     *)

\* A request leaves the active entries of the others alone ...
LEMMA RequestKeepsActive ==
  ASSUME IInv, NEW r \in Request, HandleRequest(r)
  PROVE  \A i \in ActiveSlot : cache'[i] = cache[i]
<1>1. CoordinatorTypeOK /\ OwnersAreActive /\ ExclusiveOwner /\ emergencyInFlight \in BOOLEAN
  BY DEF IInv, DispatcherInv, TypeOK
<1>2. \A kind \in ResponseKind : Answer(NewToken(r), kind) \in Response \cup {None}
  BY <1>1, NewTokenType, AnswerType
<1>3. ExpectedResponse(r.command) \in ResponseKind /\ {"Ack", "Nack"} \subseteq ResponseKind
  BY DEF ExpectedResponse, ResponseKind
<1>4. \E response \in Response \cup {None}, aborted \in BOOLEAN :
        LET busy == emergencyInFlight
        IN  \/ AdmitBatchBegin(r, busy) \/ AdmitBatchEnd(r, busy)
            \/ AdmitBypass(r, busy, response) \/ AdmitStop(r, busy)
            \/ AdmitCollect(r, busy, response, aborted) \/ AdmitExecute(r, busy)
  BY <1>2, <1>3
     DEF HandleRequest, HandleExecute, HandleBatchEnd, HandleBatchBegin, HandleCollect,
         HandleCollectError, HandleBypass, HandleStop
<1>. QED BY <1>1, <1>4, AdmissionKeepsOwnership

\* ... as does the result of a job those of pending STOP_ALLs.
LEMMA CommandResultKeepsStops ==
  ASSUME IInv, HandleCommandResult, NEW i \in ActiveSlot, cache[i].token.command = "StopAll"
  PROVE  cache'[i] = cache[i]
<1> DEFINE result == Head(results)
           t == result.token
           response == Answer(t, result.answer)
<1>1. CoordinatorTypeOK /\ results \in Seq(Result) /\ results # <<>>
  BY DEF IInv, DispatcherInv, TypeOK, HandleCommandResult
<1>2. result.kind = "Command" /\ (Complete(t, response) \/ CompleteFails(t, response))
  BY DEF HandleCommandResult
<1>3. t \in WorkToken /\ result.answer \in {"Ack", "Nack"}
  BY <1>1, <1>2, HeadTailProperties, WorkTokens DEF Result, HandleCommandResult
<1>4. t \in Token /\ response \in Response /\ cache[i].token # t /\ i \in Slot
  BY <1>3, AnswerType, CommandAssumption
     DEF WorkToken, ResponseKind, ControlCommand, ActiveSlot
<1>. HIDE DEF result, t, response
<1>5. CASE Complete(t, response)
  BY <1>1, <1>4, <1>5, StoreEffect DEF Complete
<1>6. CASE CompleteFails(t, response)
  BY <1>6 DEF CompleteFails, coordVars
<1>. QED BY <1>2, <1>5, <1>6

\* When a release is the only work there is and has been reported, nothing is held.
LEMMA ReleasedWhenReported ==
  ASSUME IInv, results # <<>>, Head(results).kind = "Emergency", Pipeline = <<None>>
  PROVE  inputState = {}
<1>1. TypeOK /\ InputIsReported /\ results \in Seq(Result)
  BY DEF IInv, DispatcherInv, TypeOK
<1>a. Len(results) \in Nat
  BY <1>1, Stages
<1>b. Len(jobs) \in Nat
  BY <1>1, Stages
<1>c. Len(TokenInExecutor) \in Nat
  BY <1>1, Stages, LenProperties
<1>d. Len(TokenBeingSent) \in Nat
  BY <1>1, Stages, LenProperties
<1>2. Len(results) # 0
  BY <1>1, EmptySeq
<1>3. Len(Pipeline) = 1
  OBVIOUS
<1>4. Len(results) + Len(TokenInExecutor) + Len(jobs) + Len(TokenBeingSent) = 1
  BY <1>1, <1>3, Places
<1>5. \A r, e, j, s \in Nat : r # 0 /\ r + e + j + s = 1 => r = 1 /\ e = 0
  OBVIOUS
<1>6. Len(results) = 1 /\ Len(TokenInExecutor) = 0
  BY <1>a, <1>b, <1>c, <1>d, <1>2, <1>4, <1>5
<1>7. executor.phase = "Idle"
  BY <1>1, <1>6, Stages
<1>8. inputState = results[1].inputState
  BY <1>1, <1>6, <1>7 DEF InputIsReported
<1>9. Head(results).inputState = {}
  <2>1. Head(results) \in Result
    BY <1>1, HeadTailProperties
  <2>. QED BY <2>1, WorkTokens
<1>. QED BY <1>8, <1>9

\* STOP_ALL is answered when nothing is held and nothing else is under way.
THEOREM StopAcknowledgesRelease == Spec => StopAckMeansReleased
<1>1. ASSUME IInv, [Next]_vars, NEW i \in ActiveSlot,
             cache[i].token.command = "StopAll", i \in DOMAIN cache',
             cache'[i].token = cache[i].token, cache'[i].response # None
      PROVE  inputState = {} /\ Pipeline = <<None>>
  <2>1. TypeOK /\ CoordinatorTypeOK /\ results \in Seq(Result)
    BY <1>1 DEF IInv, DispatcherInv, TypeOK
  <2>2. cache[i].response = None /\ i \in Slot
    BY <1>1 DEF ActiveSlot, IsActive
  <2>3. HandleEmergencyResult
    <3>1. cache' # cache
      BY <1>1, <2>2
    <3>2. ASSUME NEW r \in Request, HandleRequest(r)
          PROVE  FALSE
      <4>1. \A j \in ActiveSlot : cache'[j] = cache[j]
        BY <1>1, <3>2, RequestKeepsActive
      <4>. QED BY <1>1, <2>2, <4>1
    <3>3. ~HandleCommandResult
      BY <1>1, <2>2, <3>1, CommandResultKeepsStops
    <3>4. ~HandleSafetyEvent
      <4>1. HandleSafetyEvent => DOMAIN cache' = {}
        BY <2>1, ClearSessionEffect DEF HandleSafetyEvent
      <4>. QED BY <1>1, <4>1
    <3>5. ~(SendJob \/ ExecutorStep \/ TimerFires \/ RaiseSafetyEvent \/ UNCHANGED vars)
      BY <3>1
         DEF SendJob, ExecutorStep, TakeJob, ReportSent, ReportChains, ReportFails, DelayCancelled,
             ReleaseDone, PublishResult, TimerFires, RaiseSafetyEvent, vars, coordVars
    <3>. QED BY <1>1, <3>2, <3>3, <3>4, <3>5 DEF Next, HandleResult
  <2>4. /\ results # <<>> /\ Head(results).kind = "Emergency"
    BY <2>3 DEF HandleEmergencyResult
  <2>5. Pipeline = <<None>>
    BY <1>1, <2>4, ReleaseIsLast
  <2>6. inputState = {}
    BY <1>1, <2>4, <2>5, ReleasedWhenReported
  <2>. QED BY <2>5, <2>6
<1>2. ASSUME IInv, [Next]_vars
      PROVE  [\A i \in ActiveSlot :
                /\ cache[i].token.command = "StopAll"
                /\ i \in DOMAIN cache' /\ cache'[i].token = cache[i].token
                /\ cache'[i].response # None
                => inputState = {} /\ Pipeline = <<None>>]_vars
  BY <1>1, <1>2
<1>. QED BY <1>2, Invariance, PTL DEF Spec, StopAckMeansReleased

\* Past check_cancelled only the current generation's job goes on.
LEMMA ContinuesUnderCurrent ==
  ASSUME NEW job, NEW todo, NEW plan, NEW held, cancelGeneration \in Nat,
         job.baseline # cancelGeneration => cancel = cancelGeneration,
         Continue(job, todo, plan, held), executor'.phase = "Running"
  PROVE  executor'.job.baseline = cancelGeneration
<1>1. ~IsCancelled(job) => job.baseline = cancelGeneration
  BY PipelineAssumption DEF IsCancelled
<1>2. ~Release(job)
  BY DEF Release
<1>3. ~Conclude(job, "Ack", held) /\ ~Conclude(job, "Nack", held)
  BY DEF Conclude
<1>4. ~IsCancelled(job) /\ executor'.job = job
  BY <1>2, <1>3 DEF Continue
<1>. QED BY <1>1, <1>4

\* A job whose cancellation has been published starts no further report.
THEOREM CancellationStopsReports == Spec => CancelledWorkStartsNoReport
<1>1. ASSUME IInv, [Next]_vars, executor' # executor, executor'.phase = "Running",
             Head(executor'.plan).kind = "Report"
      PROVE  executor'.job.baseline = cancelGeneration
  <2>1. /\ TypeOK /\ CancelReachesWork /\ cancelGeneration \in Nat
        /\ executor \in Executor
    BY <1>1 DEF IInv, DispatcherInv, TypeOK
  <2>2. TakeJob \/ ReportSent \/ ReportChains \/ TimerFires
    <3>1. \A r \in Request : ~HandleRequest(r)
      BY <1>1
         DEF HandleRequest, HandleExecute, HandleBatchEnd, HandleBatchBegin, HandleCollect,
             HandleCollectError, HandleBypass, HandleStop, executorVars
    <3>2. ~(HandleResult \/ HandleSafetyEvent \/ SendJob \/ RaiseSafetyEvent \/ UNCHANGED vars)
      BY <1>1
         DEF HandleResult, HandleCommandResult, HandleEmergencyResult, HandleSafetyEvent,
             SendJob, RaiseSafetyEvent, executorVars, vars
    <3>3. ~(ReportFails \/ DelayCancelled \/ ReleaseDone \/ PublishResult)
      BY <1>1
         DEF ReportFails, DelayCancelled, ReleaseDone, PublishResult, Release, Conclude,
             IdleExecutor
    <3>. QED BY <1>1, <3>1, <3>2, <3>3 DEF Next, ExecutorStep
  <2>3. CASE TakeJob
    <3> DEFINE job == Head(jobs)
    <3>1. jobs \in Seq(Job) /\ Len(jobs) <= 1 /\ jobs # <<>>
      BY <2>1, <2>3 DEF TypeOK, TakeJob
    <3>2. jobs = <<job>> /\ job \in Job
      BY <3>1, SingleElement
    <3>3. 1 \in DOMAIN jobs /\ jobs[1] = job
      BY <3>2
    <3>. HIDE DEF job
    <3>4. job.kind # "Emergency" /\ Continue(job, job.commands, <<>>, inputState)
      BY <1>1, <2>3 DEF TakeJob, Release, Conclude, job
    <3>5. job.baseline # cancelGeneration => cancel = cancelGeneration
      BY <2>1, <3>2, <3>3, <3>4, JobFacts DEF CancelReachesWork
    <3>. QED BY <1>1, <2>1, <3>4, <3>5, ContinuesUnderCurrent
  <2>4. CASE ReportSent \/ TimerFires
    <3>1. /\ executor.phase = "Running"
          /\ \E held : Continue(executor.job, executor.todo, Tail(executor.plan), held)
      BY <2>4 DEF ReportSent, TimerFires, AwaitsReport, Awaits
    <3>2. executor.job.baseline # cancelGeneration => cancel = cancelGeneration
      BY <1>1, <3>1, RunningJob
    <3>. QED BY <1>1, <2>1, <3>1, <3>2, ContinuesUnderCurrent
  <2>5. CASE ReportChains
    <3>1. /\ executor.phase = "Running" /\ Len(executor.plan) > 1
          /\ executor.plan[2].kind = "Chained"
          /\ executor' = [executor EXCEPT !.plan = Tail(executor.plan)]
      BY <2>5 DEF ReportChains, AwaitsReport, Awaits, NextIsChained
    <3>2. executor.plan \in Seq(Step) /\ executor.plan # <<>>
      BY <1>1, <3>1, RunningJob
    <3>3. executor'.plan = Tail(executor.plan)
      BY <2>1, <3>1 DEF Executor
    <3>4. Head(Tail(executor.plan)) = executor.plan[2]
      <4>1. \A i \in 1 .. Len(executor.plan) - 1 : Tail(executor.plan)[i] = executor.plan[i + 1]
        BY <3>2, HeadTailProperties
      <4>2. Len(executor.plan) \in Nat
        BY <3>2, LenProperties
      <4>3. \A n \in Nat : n > 1 => 1 \in 1 .. n - 1
        OBVIOUS
      <4>4. 1 \in 1 .. Len(executor.plan) - 1
        BY <3>1, <4>2, <4>3
      <4>5. Tail(executor.plan)[1] = executor.plan[1 + 1] /\ 1 + 1 = 2
        BY <4>1, <4>4
      <4>6. Head(Tail(executor.plan)) = Tail(executor.plan)[1]
        <5>1. \A s \in Seq(Step) : Head(s) = s[1]
          OBVIOUS
        <5>2. Tail(executor.plan) \in Seq(Step)
          BY <3>2, HeadTailProperties
        <5>. QED BY <5>1, <5>2
      <4>. QED BY <4>5, <4>6
    <3>. QED BY <1>1, <3>1, <3>3, <3>4
  <2>. QED BY <2>2, <2>3, <2>4, <2>5
<1>2. ASSUME IInv, [Next]_vars
      PROVE  [executor' # executor /\ executor'.phase = "Running"
                /\ Head(executor'.plan).kind = "Report"
              => executor'.job.baseline = cancelGeneration]_vars
  BY <1>1, <1>2
<1>. QED BY <1>2, Invariance, PTL DEF Spec, CancelledWorkStartsNoReport
=============================================================================
