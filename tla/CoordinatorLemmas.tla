------------------------- MODULE CoordinatorLemmas -------------------------
(***************************************************************************)
(* What the operations of the coordinator do to its state, whoever calls   *)
(* them: cited by the proofs about CoordinatorSystem and about Dispatcher. *)
(***************************************************************************)
EXTENDS Coordinator, SequenceTheorems, TLAPS

\* The token of a fresh admission is well formed.
LEMMA NewTokenType ==
  ASSUME CoordinatorTypeOK, NEW r \in Request
  PROVE  NewToken(r) \in Token
BY DEF CoordinatorTypeOK, Request, NewToken, Token

\* A token's answer is well formed and records its admission.
LEMMA AnswerType ==
  ASSUME NEW t \in Token, NEW kind \in ResponseKind
  PROVE  /\ Answer(t, kind) \in Response
         /\ Answer(t, kind).origin = t
         /\ Answer(t, kind).kind = kind
         /\ Answer(t, kind) # None
BY NoneAssumption DEF Answer, Response, Token, ResponseKind

\* Slots are the indices of a bounded sequence of entries.
LEMMA SlotFacts ==
  ASSUME CoordinatorTypeOK
  PROVE  /\ Slot = 1 .. Len(cache)
         /\ Len(cache) \in Nat
         /\ \A i \in Slot : /\ cache[i] \in Entry
                            /\ cache[i].token \in Token
                            /\ cache[i].response \in Response \cup {None}
                            /\ cache[i] = [token |-> cache[i].token,
                                           response |-> cache[i].response]
<1>1. cache \in Seq(Entry)
  BY DEF CoordinatorTypeOK
<1>2. Len(cache) \in Nat /\ DOMAIN cache = 1 .. Len(cache)
  BY <1>1, LenProperties
<1>3. \A i \in 1 .. Len(cache) : cache[i] \in Entry
  BY <1>1, ElementOfSeq
<1>. QED BY <1>2, <1>3 DEF Slot, Entry

\* insert_active: the new entry takes one slot, an evicted or a pushed one,
\* that no active entry occupied; every other entry stays where it was.
LEMMA InsertEffect ==
  ASSUME CoordinatorTypeOK, NEW r \in Request, NEW response \in Response \cup {None},
         Insert(r, response)
  PROVE  /\ cache' \in Seq(Entry) /\ Len(cache') <= CacheSize
         /\ nextEvict' \in 0 .. CacheSize - 1
         /\ nextAdmissionId' = nextAdmissionId + 1
         /\ \E n \in DOMAIN cache' :
              /\ cache'[n] = [token |-> NewToken(r), response |-> response]
              /\ \A j \in DOMAIN cache' \ {n} : j \in Slot /\ cache'[j] = cache[j]
              /\ \A j \in ActiveSlot : j \in DOMAIN cache' \ {n}
              /\ Slot \subseteq DOMAIN cache'
<1> DEFINE entry == [token |-> NewToken(r), response |-> response]
<1>1. entry \in Entry
  BY NewTokenType DEF Entry
<1>2. cache \in Seq(Entry) /\ Len(cache) \in Nat /\ Slot = 1 .. Len(cache)
  BY SlotFacts DEF CoordinatorTypeOK
<1>3. nextAdmissionId' = nextAdmissionId + 1
  BY DEF Insert
<1>4. CASE Len(cache) < CacheSize /\ cache' = Append(cache, entry) /\ UNCHANGED nextEvict
  <2>1. /\ cache' \in Seq(Entry)
        /\ Len(cache') = Len(cache) + 1
        /\ cache'[Len(cache) + 1] = entry
        /\ \A j \in 1 .. Len(cache) : cache'[j] = cache[j]
    BY <1>1, <1>2, <1>4, AppendProperties
  <2>2. DOMAIN cache' = 1 .. Len(cache) + 1
    BY <2>1, LenProperties
  <2>3. Len(cache) + 1 \in DOMAIN cache' /\ ActiveSlot \subseteq 1 .. Len(cache)
    BY <1>2, <2>2 DEF ActiveSlot
  <2>4. \A j \in DOMAIN cache' \ {Len(cache) + 1} : j \in 1 .. Len(cache)
    BY <1>2, <2>2
  <2>5. \A j \in ActiveSlot : j \in DOMAIN cache' \ {Len(cache) + 1}
    BY <1>2, <2>2, <2>3
  <2>6. Len(cache') <= CacheSize /\ Slot \subseteq DOMAIN cache'
    BY <1>2, <1>4, <2>1, <2>2, CacheSizeAssumption
  <2>7. nextEvict' \in 0 .. CacheSize - 1
    BY <1>4 DEF CoordinatorTypeOK
  <2>. QED BY <1>2, <1>3, <2>1, <2>3, <2>4, <2>5, <2>6, <2>7
<1>5. ASSUME NEW i \in Slot, IsEvicted(i), Len(cache) = CacheSize,
             cache' = [cache EXCEPT ![i] = entry], nextEvict' = i % CacheSize
      PROVE  /\ cache' \in Seq(Entry) /\ Len(cache') <= CacheSize
             /\ nextEvict' \in 0 .. CacheSize - 1
             /\ \E n \in DOMAIN cache' :
                  /\ cache'[n] = entry
                  /\ \A j \in DOMAIN cache' \ {n} : j \in Slot /\ cache'[j] = cache[j]
                  /\ \A j \in ActiveSlot : j \in DOMAIN cache' \ {n}
                  /\ Slot \subseteq DOMAIN cache'
  <2>1. /\ cache' \in Seq(Entry)
        /\ Len(cache') = Len(cache)
        /\ \A j \in 1 .. Len(cache) : cache'[j] = IF j = i THEN entry ELSE cache[j]
    BY <1>1, <1>2, <1>5, ExceptSeq
  <2>2. DOMAIN cache' = Slot
    BY <1>2, <2>1, LenProperties
  <2>3. i \notin ActiveSlot /\ ActiveSlot \subseteq Slot
    BY <1>5 DEF IsEvicted, ActiveSlot
  <2>4. nextEvict' \in 0 .. CacheSize - 1
    BY <1>2, <1>5, CacheSizeAssumption
  <2>5. Len(cache') <= CacheSize
    BY <1>2, <1>5, <2>1
  <2>. QED BY <1>2, <2>1, <2>2, <2>3, <2>4, <2>5
<1>. QED BY <1>3, <1>4, <1>5 DEF Insert

\* complete: the entry of the token, and no other, takes the response.
LEMMA StoreEffect ==
  ASSUME CoordinatorTypeOK, NEW t \in Token, NEW response \in Response, Store(t, response)
  PROVE  /\ cache' \in Seq(Entry) /\ Len(cache') = Len(cache) /\ DOMAIN cache' = Slot
         /\ \A i \in Slot :
              /\ cache'[i].token = cache[i].token
              /\ cache[i].token = t /\ IsActive(i) => cache'[i].response = response
              /\ ~(cache[i].token = t /\ IsActive(i)) => cache'[i] = cache[i]
<1>1. Slot = 1 .. Len(cache) /\ Len(cache) \in Nat /\ \A i \in Slot : cache[i] \in Entry
  BY SlotFacts
<1>2. \A i \in Slot :
        /\ cache'[i] = IF cache[i].token = t /\ IsActive(i)
                       THEN [cache[i] EXCEPT !.response = response] ELSE cache[i]
        /\ cache'[i] \in Entry
  BY <1>1 DEF Store, AwaitsAnswer, Entry
<1>3. cache' \in [1 .. Len(cache) -> Entry]
  BY <1>1, <1>2 DEF Store
<1>4. cache' \in Seq(Entry)
  BY <1>1, <1>3, SeqDef
<1>5. DOMAIN cache' = Slot /\ Len(cache') = Len(cache)
  BY <1>1, <1>3, <1>4, LenProperties
<1>. QED BY <1>1, <1>2, <1>4, <1>5 DEF Entry

-----------------------------------------------------------------------------
(* The parts of the invariants that are about the coordinator alone.       *)

\* An admission whose answer is outstanding has an active entry.
LEMMA PendingAdmissionIsActive ==
  ASSUME CoordinatorTypeOK, NEW r \in Request, Insert(r, None)
  PROVE  \E j \in ActiveSlot' : cache'[j].token = NewToken(r)
<1>1. PICK n \in DOMAIN cache' : cache'[n] = [token |-> NewToken(r), response |-> None]
  BY InsertEffect
<1>. QED BY <1>1 DEF ActiveSlot, IsActive, Slot

\* Every admission keeps the types, leaves active entries where they are, and
\* hands execution only to an active entry and to one at a time.
LEMMA AdmissionKeepsOwnership ==
  ASSUME CoordinatorTypeOK, OwnersAreActive, ExclusiveOwner,
         NEW r \in Request, NEW busy \in BOOLEAN,
         NEW response \in Response \cup {None}, NEW aborted \in BOOLEAN,
         \/ AdmitBatchBegin(r, busy) \/ AdmitBatchEnd(r, busy)
         \/ AdmitBypass(r, busy, response) \/ AdmitStop(r, busy)
         \/ AdmitCollect(r, busy, response, aborted) \/ AdmitExecute(r, busy)
  PROVE  /\ CoordinatorTypeOK' /\ OwnersAreActive' /\ ExclusiveOwner'
         /\ \A i \in ActiveSlot : i \in ActiveSlot' /\ cache'[i] = cache[i]
<1> DEFINE new == NewToken(r)
<1>1. new \in Token /\ new # None
  BY NewTokenType, NoneAssumption
<1>2. Answer(new, "Ack") \in Response \cup {None}
  BY <1>1, AnswerType DEF ResponseKind
<1>3. PICK stored \in Response \cup {None} :
        /\ Insert(r, stored)
        /\ AdmitBatchEnd(r, busy) \/ AdmitExecute(r, busy) => stored = None
  BY <1>2 DEF AdmitBatchBegin, AdmitBatchEnd, AdmitBypass, AdmitStop, AdmitCollect,
              AdmitExecute
<1>4. PICK n \in DOMAIN cache' :
        /\ cache'[n] = [token |-> new, response |-> stored]
        /\ \A j \in DOMAIN cache' \ {n} : j \in Slot /\ cache'[j] = cache[j]
        /\ \A j \in ActiveSlot : j \in DOMAIN cache' \ {n}
  BY <1>3, InsertEffect
<1>. HIDE DEF new
<1>5. \A i \in ActiveSlot : i \in ActiveSlot' /\ cache'[i] = cache[i]
  BY <1>4 DEF ActiveSlot, IsActive, Slot
<1>6. stored = None => \E j \in ActiveSlot' : cache'[j].token = new
  BY <1>4 DEF ActiveSlot, IsActive, Slot
<1>7. \A t \in {executorOwner, batchState.owner} \ {None} :
        \E i \in ActiveSlot' : cache'[i].token = t
  BY <1>5 DEF OwnersAreActive
<1>8. /\ cache' \in Seq(Entry) /\ Len(cache') <= CacheSize
      /\ nextEvict' \in 0 .. CacheSize - 1
      /\ nextAdmissionId' \in Nat \ {0}
      /\ sessionGeneration' = sessionGeneration
  <2>1. sessionGeneration' = sessionGeneration
    BY DEF AdmitBatchBegin, AdmitBatchEnd, AdmitBypass, AdmitStop, AdmitCollect, AdmitExecute
  <2>2. nextAdmissionId' = nextAdmissionId + 1
    BY <1>3, InsertEffect
  <2>. QED BY <1>3, <2>1, <2>2, InsertEffect DEF CoordinatorTypeOK
<1>9. CASE AdmitBatchEnd(r, busy)
  <2>1. /\ batchState.mode = "Collecting" /\ stored = None
        /\ batchState' = BatchExecuting(new) /\ executorOwner' = executorOwner
    BY <1>3, <1>9 DEF AdmitBatchEnd, new
  <2>2. executorOwner = None
    BY <2>1 DEF ExclusiveOwner, BatchIdle
  <2>3. CoordinatorTypeOK'
    BY <1>1, <1>8, <2>1 DEF CoordinatorTypeOK, BatchExecuting
  <2>4. OwnersAreActive' /\ ExclusiveOwner'
    BY <1>6, <2>1, <2>2 DEF OwnersAreActive, ExclusiveOwner, BatchExecuting
  <2>. QED BY <1>5, <2>3, <2>4
<1>10. CASE AdmitExecute(r, busy)
  <2>1. /\ batchState.mode = "Idle" /\ stored = None
        /\ executorOwner' = new /\ batchState' = batchState
    BY <1>3, <1>10 DEF AdmitExecute, new
  <2>2. batchState = BatchIdle
    BY <2>1 DEF CoordinatorTypeOK, BatchIdle
  <2>3. CoordinatorTypeOK'
    BY <1>1, <1>8, <2>1 DEF CoordinatorTypeOK
  <2>4. OwnersAreActive' /\ ExclusiveOwner'
    BY <1>6, <2>1, <2>2 DEF OwnersAreActive, ExclusiveOwner, BatchIdle
  <2>. QED BY <1>5, <2>3, <2>4
<1>11. CASE ~AdmitBatchEnd(r, busy) /\ ~AdmitExecute(r, busy)
  <2>1. /\ executorOwner' = executorOwner
        /\ \/ batchState' = batchState
           \/ batchState.mode = "Collecting" /\ batchState' = BatchIdle
           \/ executorOwner = None /\ batchState' = BatchCollecting
    BY <1>11 DEF AdmitBatchBegin, AdmitBypass, AdmitStop, AdmitCollect
  <2>2. CoordinatorTypeOK'
    BY <1>8, <2>1 DEF CoordinatorTypeOK, BatchIdle, BatchCollecting
  <2>3. OwnersAreActive' /\ ExclusiveOwner'
    BY <1>7, <2>1 DEF OwnersAreActive, ExclusiveOwner, BatchIdle, BatchCollecting
  <2>. QED BY <1>5, <2>2, <2>3
<1>. QED BY <1>9, <1>10, <1>11

\* A completion keeps every active entry but its own, and gives execution back
\* if its admission had it.
LEMMA CompletionKeepsOwnership ==
  ASSUME CoordinatorTypeOK, OwnersAreActive, ExclusiveOwner,
         NEW t \in Token, NEW response \in Response, Complete(t, response)
  PROVE  /\ CoordinatorTypeOK' /\ OwnersAreActive' /\ ExclusiveOwner'
         /\ \A i \in ActiveSlot : cache[i].token # t =>
              i \in ActiveSlot' /\ cache'[i] = cache[i]
         /\ executorOwner' # t /\ batchState'.owner # t
<1>1. /\ Store(t, response)
      /\ executorOwner' = (IF executorOwner = t THEN None ELSE executorOwner)
      /\ batchState' = (IF batchState = BatchExecuting(t) THEN BatchIdle ELSE batchState)
      /\ UNCHANGED <<nextEvict, sessionGeneration, nextAdmissionId>>
  BY DEF Complete
<1>2. /\ cache' \in Seq(Entry) /\ Len(cache') = Len(cache) /\ DOMAIN cache' = Slot
      /\ \A i \in Slot : ~(cache[i].token = t /\ IsActive(i)) => cache'[i] = cache[i]
  BY <1>1, StoreEffect
<1>3. \A i \in ActiveSlot : cache[i].token # t => i \in ActiveSlot' /\ cache'[i] = cache[i]
  BY <1>2 DEF ActiveSlot, IsActive, Slot
<1>4. CoordinatorTypeOK'
  BY <1>1, <1>2 DEF CoordinatorTypeOK, BatchIdle
<1>5. t # None
  BY NoneAssumption
<1>6. batchState.owner = t => batchState = BatchExecuting(t)
  BY <1>5 DEF CoordinatorTypeOK, BatchExecuting
<1>7. executorOwner' # t /\ batchState'.owner # t
  BY <1>1, <1>5, <1>6 DEF BatchIdle
<1>8. {executorOwner', batchState'.owner} \ {None}
        \subseteq {executorOwner, batchState.owner} \ {None, t}
  BY <1>1, <1>7 DEF BatchIdle
<1>9. OwnersAreActive'
  BY <1>3, <1>8 DEF OwnersAreActive
<1>10. ExclusiveOwner'
  BY <1>1 DEF ExclusiveOwner
<1>. QED BY <1>3, <1>4, <1>7, <1>9, <1>10

\* A session's end leaves nothing to own and no entry.
LEMMA ClearSessionEffect ==
  ASSUME CoordinatorTypeOK, ClearSession
  PROVE  /\ CoordinatorTypeOK' /\ OwnersAreActive' /\ ExclusiveOwner'
         /\ executorOwner' = None /\ batchState' = BatchIdle /\ DOMAIN cache' = {}
<1>1. /\ cache' = <<>> /\ nextEvict' = 0 /\ executorOwner' = None
      /\ batchState' = BatchIdle /\ sessionGeneration' = sessionGeneration + 1
      /\ UNCHANGED nextAdmissionId
  BY DEF ClearSession
<1>2. CoordinatorTypeOK'
  BY <1>1, CacheSizeAssumption, EmptySeq DEF CoordinatorTypeOK, BatchIdle
<1>3. DOMAIN cache' = {}
  BY <1>1, EmptySeq, LenProperties
<1>4. OwnersAreActive' /\ ExclusiveOwner'
  BY <1>1 DEF OwnersAreActive, ExclusiveOwner, BatchIdle
<1>. QED BY <1>1, <1>2, <1>3, <1>4

=============================================================================
