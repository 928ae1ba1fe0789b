------------------------- MODULE CoordinatorProofs -------------------------
(***************************************************************************)
(* Proofs about CoordinatorSystem, for every cache size, command set and   *)
(* limit that its assumptions allow.                                       *)
(***************************************************************************)
EXTENDS CoordinatorSystem, CoordinatorLemmas, FiniteSetTheorems, TLAPS

-----------------------------------------------------------------------------
(* How the parts of Inv that speak of the cache survive an admission.      *)

\* The admission of an unknown sequence keeps every guarantee about entries.
LEMMA AdmissionKeepsEntries ==
  ASSUME Inv, NEW r \in Request, NEW response \in Response \cup {None},
         response # None => /\ response.origin = NewToken(r)
                            /\ IsFinal(response, r.command),
         ~Known(r), Insert(r, response), issued' = issued \cup {NewToken(r)}
  PROVE  /\ issued' \subseteq Token
         /\ OneEntryPerSequence' /\ AnsweredByOwnAdmission'
         /\ TokensAreUnique' /\ EntriesAreIssued'
<1> DEFINE new == NewToken(r)
<1>1. CoordinatorTypeOK /\ new \in Token
  BY NewTokenType DEF Inv, TypeOK
<1>2. /\ new.id = nextAdmissionId /\ new.sequence = r.sequence /\ new.command = r.command
      /\ nextAdmissionId \in Nat \ {0}
  BY <1>1 DEF NewToken, CoordinatorTypeOK
<1>3. PICK n \in DOMAIN cache' :
        /\ cache'[n] = [token |-> new, response |-> response]
        /\ \A j \in DOMAIN cache' \ {n} : j \in Slot /\ cache'[j] = cache[j]
        /\ \A j \in ActiveSlot : j \in DOMAIN cache' \ {n}
  BY <1>1, InsertEffect
<1>4. nextAdmissionId' = nextAdmissionId + 1
  BY <1>1, InsertEffect
<1>5. cache'[n].token = new /\ cache'[n].response = response
  BY <1>3
<1>6. OneEntryPerSequence'
  <2>1. \A j \in DOMAIN cache' \ {n} : cache'[j].token.sequence # r.sequence
    BY <1>3 DEF Known, Holds
  <2>. QED BY <1>2, <1>3, <1>5, <2>1 DEF Inv, OneEntryPerSequence, Slot
<1>7. AnsweredByOwnAdmission'
  <2>1. CASE response = None
    BY <1>3, <1>5, <2>1
    DEF Inv, AnsweredByOwnAdmission, ActiveSlot, IsActive, Slot, IsFinal, ExpectedResponse
  <2>2. CASE response # None
    BY <1>2, <1>3, <1>5, <2>2
    DEF Inv, AnsweredByOwnAdmission, ActiveSlot, IsActive, Slot, IsFinal, ExpectedResponse
  <2>. QED BY <2>1, <2>2
<1>8. TokensAreUnique' /\ issued' \subseteq Token
  <2>1. \A t \in issued : t \in Token /\ t.id \in Nat /\ t.id < nextAdmissionId
    BY DEF Inv, TypeOK, TokensAreUnique, Token
  <2>. QED BY <1>1, <1>2, <1>4, <2>1 DEF Inv, TokensAreUnique
<1>9. EntriesAreIssued'
  BY <1>3, <1>5 DEF Inv, EntriesAreIssued, Slot
<1>. QED BY <1>6, <1>7, <1>8, <1>9

\* A report that the cache takes keeps the guarantees about entries.
LEMMA CompletionKeepsEntries ==
  ASSUME Inv, NEW t \in Token, NEW response \in Response,
         response.origin = t, IsFinal(response, t.command),
         Store(t, response), UNCHANGED <<nextAdmissionId, issued>>
  PROVE  /\ OneEntryPerSequence' /\ AnsweredByOwnAdmission'
         /\ TokensAreUnique' /\ EntriesAreIssued'
<1>1. /\ DOMAIN cache' = Slot
      /\ \A i \in Slot :
           /\ cache'[i].token = cache[i].token
           /\ cache[i].token = t /\ IsActive(i) => cache'[i].response = response
           /\ ~(cache[i].token = t /\ IsActive(i)) => cache'[i] = cache[i]
  BY StoreEffect DEF Inv, TypeOK
<1>2. OneEntryPerSequence'
  BY <1>1 DEF Inv, OneEntryPerSequence, Slot
<1>3. AnsweredByOwnAdmission'
  BY <1>1
  DEF Inv, AnsweredByOwnAdmission, ActiveSlot, IsActive, Slot, IsFinal, ExpectedResponse
<1>4. TokensAreUnique' /\ EntriesAreIssued'
  BY <1>1 DEF Inv, TokensAreUnique, EntriesAreIssued, Slot
<1>. QED BY <1>2, <1>3, <1>4

-----------------------------------------------------------------------------
(* The inductive invariant.                                                *)

\* No step, no change: Inv reads nothing but the variables.
LEMMA StutterKeepsInv == Inv /\ UNCHANGED vars => Inv'
BY DEF Inv, vars, TypeOK, CoordinatorTypeOK, OneEntryPerSequence, OwnersAreActive,
       ExclusiveOwner, AnsweredByOwnAdmission, TokensAreUnique, EntriesAreIssued,
       Slot, ActiveSlot, IsActive

\* A new coordinator satisfies the invariant.
LEMMA InitInv == Init => Inv
<1>. SUFFICES ASSUME Init PROVE Inv
  OBVIOUS
<1>. USE DEF Init, CoordinatorInit
<1>1. TypeOK
  BY CacheSizeAssumption, EmptySeq DEF TypeOK, CoordinatorTypeOK, BatchIdle
<1>2. Slot = {}
  BY EmptySeq, LenProperties DEF Slot
<1>3. OneEntryPerSequence /\ AnsweredByOwnAdmission /\ EntriesAreIssued
  BY <1>2 DEF OneEntryPerSequence, AnsweredByOwnAdmission, EntriesAreIssued, ActiveSlot
<1>4. OwnersAreActive /\ ExclusiveOwner /\ TokensAreUnique
  BY DEF OwnersAreActive, ExclusiveOwner, TokensAreUnique, BatchIdle
<1>. QED BY <1>1, <1>3, <1>4 DEF Inv

\* Every admission of a fresh request keeps Inv.
LEMMA AcceptKeepsInv ==
  ASSUME Inv, NEW r \in Request, NEW busy \in BOOLEAN, Accept(r, busy)
  PROVE  Inv'
<1> DEFINE new == NewToken(r)
<1>1. issued' = issued \cup {new} /\ ~Known(r)
  BY DEF Accept, AdmitBatchBegin, AdmitBatchEnd, AdmitBypass, AdmitStop, AdmitCollect,
         AdmitExecute, Fresh
<1>2. new \in Token
  BY NewTokenType DEF Inv, TypeOK
<1>3. /\ Answer(new, "Ack") \in Response /\ Answer(new, "Ack").origin = new
      /\ Answer(new, "Ack").kind = "Ack"
  BY <1>2, AnswerType DEF ResponseKind
<1>4. CoordinatorTypeOK' /\ OwnersAreActive' /\ ExclusiveOwner'
  BY AdmissionKeepsOwnership DEF Accept, Inv, TypeOK
<1>5. PICK response \in Response \cup {None} :
        /\ Insert(r, response)
        /\ response # None => response.origin = new /\ IsFinal(response, r.command)
  <2>1. CASE AdmitBatchBegin(r, busy)
    BY <1>3, <2>1 DEF AdmitBatchBegin, IsFinal, ExpectedResponse
  <2>2. CASE ~AdmitBatchBegin(r, busy)
    BY <2>2 DEF Accept, AdmitBatchEnd, AdmitBypass, AdmitStop, AdmitCollect, AdmitExecute
  <2>. QED BY <2>1, <2>2
<1>6. /\ issued' \subseteq Token
      /\ OneEntryPerSequence' /\ AnsweredByOwnAdmission'
      /\ TokensAreUnique' /\ EntriesAreIssued'
  BY <1>1, <1>5, AdmissionKeepsEntries
<1>. QED BY <1>4, <1>6 DEF Inv, TypeOK

\* A report keeps Inv, whether the cache takes it or not.
LEMMA ReportKeepsInv ==
  ASSUME Inv, NEW t \in issued, Report(t)
  PROVE  Inv'
<1>1. t \in Token /\ CoordinatorTypeOK /\ issued' = issued
  BY DEF Inv, TypeOK, Report
<1>2. PICK kind \in ResponseKind, s \in SequenceNumber, v \in Version :
        LET response == [Answer(t, kind) EXCEPT !.sequence = s, !.version = v]
        IN  Complete(t, response) \/ CompleteFails(t, response)
  BY DEF Report
<1> DEFINE response == [Answer(t, kind) EXCEPT !.sequence = s, !.version = v]
<1>3. response \in Response /\ response.origin = t
  BY <1>1 DEF Answer, Response, ResponseKind, Token
<1>4. CASE CompleteFails(t, response)
  BY <1>1, <1>4, StutterKeepsInv DEF CompleteFails, coordVars, vars
<1>. HIDE DEF response
<1>5. CASE Complete(t, response)
  <2>1. /\ Store(t, response) /\ IsFinal(response, t.command)
        /\ UNCHANGED nextAdmissionId
    BY <1>5 DEF Complete, CanComplete
  <2>2. /\ OneEntryPerSequence' /\ AnsweredByOwnAdmission'
        /\ TokensAreUnique' /\ EntriesAreIssued'
    BY <1>1, <1>3, <2>1, CompletionKeepsEntries
  <2>3. CoordinatorTypeOK' /\ OwnersAreActive' /\ ExclusiveOwner'
    BY <1>1, <1>3, <1>5, CompletionKeepsOwnership DEF Inv
  <2>4. TypeOK'
    BY <1>1, <2>3 DEF Inv, TypeOK
  <2>. QED BY <2>2, <2>3, <2>4 DEF Inv
<1>. QED BY <1>2, <1>4, <1>5 DEF response

\* Every operation on the coordinator keeps it.
LEMMA NextKeepsInv == Inv /\ [Next]_vars => Inv'
<1>. SUFFICES ASSUME Inv, [Next]_vars PROVE Inv'
  OBVIOUS
<1>1. ASSUME NEW r \in Request, NEW busy \in BOOLEAN, Accept(r, busy) PROVE Inv'
  BY <1>1, AcceptKeepsInv
<1>2. ASSUME NEW r \in Request, NEW busy \in BOOLEAN, Refuse(r, busy) PROVE Inv'
  <2>1. UNCHANGED vars
    BY <1>2 DEF Refuse, AdmitReplay, AdmitBusy, AdmitReject, coordVars, vars
  <2>. QED BY <2>1, StutterKeepsInv
<1>3. ASSUME NEW t \in issued, Report(t) PROVE Inv'
  BY <1>3, ReportKeepsInv
<1>4. CASE EndSession
  <2>1. ClearSession /\ UNCHANGED <<nextAdmissionId, issued>>
    BY <1>4 DEF EndSession, ClearSession
  <2>2. CoordinatorTypeOK' /\ OwnersAreActive' /\ ExclusiveOwner' /\ Slot' = {}
    BY <2>1, ClearSessionEffect DEF Inv, TypeOK, Slot
  <2>3. OneEntryPerSequence' /\ AnsweredByOwnAdmission' /\ EntriesAreIssued'
    BY <2>2 DEF OneEntryPerSequence, AnsweredByOwnAdmission, EntriesAreIssued, ActiveSlot
  <2>4. TypeOK' /\ TokensAreUnique'
    BY <2>1, <2>2 DEF Inv, TypeOK, TokensAreUnique
  <2>. QED BY <2>2, <2>3, <2>4 DEF Inv
<1>5. CASE DropBatch
  <2>1. /\ batchState' = IF batchState.mode = "Collecting" THEN BatchIdle ELSE batchState
        /\ UNCHANGED <<cache, nextEvict, sessionGeneration, nextAdmissionId,
                       executorOwner, issued>>
    BY <1>5 DEF DropBatch, AbortBatch
  <2>2. TypeOK'
    BY <2>1 DEF Inv, TypeOK, CoordinatorTypeOK, BatchIdle
  <2>3. OneEntryPerSequence' /\ AnsweredByOwnAdmission' /\ EntriesAreIssued' /\ TokensAreUnique'
    BY <2>1 DEF Inv, OneEntryPerSequence, AnsweredByOwnAdmission, EntriesAreIssued,
                TokensAreUnique, Slot, ActiveSlot, IsActive
  <2>4. OwnersAreActive' /\ ExclusiveOwner'
    BY <2>1 DEF Inv, OwnersAreActive, ExclusiveOwner, BatchIdle, Slot, ActiveSlot, IsActive
  <2>. QED BY <2>2, <2>3, <2>4 DEF Inv
<1>6. CASE UNCHANGED vars
  BY <1>6, StutterKeepsInv
<1>. QED BY <1>1, <1>2, <1>3, <1>4, <1>5, <1>6 DEF Next

\* The guarantees of the coordinator that need each other hold together, for
\* any caller, cache size and command set.
THEOREM Safety == Spec => []Inv
BY InitInv, NextKeepsInv, PTL DEF Spec

\* Types, of which the state stays within for any cache size and command set.
THEOREM TypeCorrect == Spec => []TypeOK
<1>1. Inv => TypeOK
  BY DEF Inv
<1>. QED BY <1>1, Safety, PTL

\* Whoever owns execution is an active entry and owns it alone, so that its
\* completion is taken and gives execution back.
THEOREM OwnershipIsSound == Spec => [](OwnersAreActive /\ ExclusiveOwner)
<1>1. Inv => OwnersAreActive /\ ExclusiveOwner
  BY DEF Inv
<1>. QED BY <1>1, Safety, PTL

\* What the cache replays for a sequence is the final answer of the one
\* admission it knows for that sequence.
THEOREM ReplayIsSound == Spec => [](OneEntryPerSequence /\ AnsweredByOwnAdmission)
<1>1. Inv => OneEntryPerSequence /\ AnsweredByOwnAdmission
  BY DEF Inv
<1>. QED BY <1>1, Safety, PTL

-----------------------------------------------------------------------------
(* A stored response is final.                                             *)

\* A step either admits a fresh request, stores one response, ends the session
\* or leaves the cache alone.
LEMMA CacheSteps ==
  ASSUME Inv, [Next]_vars
  PROVE  \/ \E r \in Request, response \in Response \cup {None} :
              /\ Insert(r, response) /\ ~Known(r)
              /\ response # None => response.origin = NewToken(r)
              /\ r.command # "StopAll" => Cardinality(ActiveSlot) < CacheSize - 1
         \/ \E t \in Token, response \in Response :
              /\ Store(t, response) /\ response.origin = t
              /\ \E i \in Slot : AwaitsAnswer(i, t)
              /\ UNCHANGED nextAdmissionId
         \/ cache' = <<>> /\ UNCHANGED nextAdmissionId
         \/ UNCHANGED <<cache, nextAdmissionId>>
<1>1. ASSUME NEW r \in Request, NEW busy \in BOOLEAN, Accept(r, busy)
      PROVE  \E response \in Response \cup {None} :
               /\ Insert(r, response) /\ ~Known(r)
               /\ response # None => response.origin = NewToken(r)
               /\ r.command # "StopAll" => Cardinality(ActiveSlot) < CacheSize - 1
  <2>1. NewToken(r) \in Token
    BY NewTokenType DEF Inv, TypeOK
  <2>2. Answer(NewToken(r), "Ack") \in Response
        /\ Answer(NewToken(r), "Ack").origin = NewToken(r)
    BY <2>1, AnswerType DEF ResponseKind
  <2>3. ~Known(r)
    BY <1>1 DEF Accept, AdmitBatchBegin, AdmitBatchEnd, AdmitBypass, AdmitStop,
                AdmitCollect, AdmitExecute, Fresh
  <2>4. r.command # "StopAll" => CanInsert(FALSE)
    BY <1>1 DEF Accept, AdmitBatchBegin, AdmitBatchEnd, AdmitBypass, AdmitStop,
                AdmitCollect, AdmitExecute
  <2>5. Insert(r, Answer(NewToken(r), "Ack")) \/ Insert(r, None)
    BY <1>1 DEF Accept, AdmitBatchBegin, AdmitBatchEnd, AdmitBypass, AdmitStop,
                AdmitCollect, AdmitExecute
  <2>. QED BY <2>2, <2>3, <2>4, <2>5 DEF CanInsert
<1>2. ASSUME NEW t \in issued, Report(t)
      PROVE  \/ \E response \in Response :
                  /\ Store(t, response) /\ response.origin = t
                  /\ \E i \in Slot : AwaitsAnswer(i, t)
                  /\ UNCHANGED nextAdmissionId
             \/ UNCHANGED <<cache, nextAdmissionId>>
  <2>1. PICK kind \in ResponseKind, s \in SequenceNumber, v \in Version :
          LET response == [Answer(t, kind) EXCEPT !.sequence = s, !.version = v]
          IN  Complete(t, response) \/ CompleteFails(t, response)
    BY <1>2 DEF Report
  <2> DEFINE response == [Answer(t, kind) EXCEPT !.sequence = s, !.version = v]
  <2>2. response \in Response /\ response.origin = t
    BY DEF Answer, Response, ResponseKind, Token, Inv, TypeOK
  <2>. HIDE DEF response
  <2>3. CASE Complete(t, response)
    BY <2>2, <2>3 DEF Complete, CanComplete
  <2>4. CASE CompleteFails(t, response)
    BY <2>4 DEF CompleteFails, coordVars
  <2>. QED BY <2>1, <2>3, <2>4 DEF response
<1>3. issued \subseteq Token
  BY DEF Inv, TypeOK
<1>4. CASE EndSession
  BY <1>4 DEF EndSession, ClearSession
<1>5. CASE DropBatch
  BY <1>5 DEF DropBatch, AbortBatch
<1>6. ASSUME NEW r \in Request, NEW busy \in BOOLEAN, Refuse(r, busy)
      PROVE  UNCHANGED <<cache, nextAdmissionId>>
  BY <1>6 DEF Refuse, AdmitReplay, AdmitBusy, AdmitReject, coordVars
<1>7. CASE UNCHANGED vars
  BY <1>7 DEF vars
<1>. QED BY <1>1, <1>2, <1>3, <1>4, <1>5, <1>6, <1>7 DEF Next

\* The response a client can be replayed never changes while its admission is
\* remembered, whatever is reported late or twice.
THEOREM StableResponses == Spec => ResponsesAreStable
<1> DEFINE Stable ==
      \A i \in Slot \ ActiveSlot : \A j \in DOMAIN cache' :
        cache'[j].token = cache[i].token => cache'[j].response = cache[i].response
<1>1. Inv /\ [Next]_vars => Stable
  <2>. SUFFICES ASSUME Inv, [Next]_vars,
                       NEW i \in Slot \ ActiveSlot, NEW j \in DOMAIN cache',
                       cache'[j].token = cache[i].token
                PROVE  cache'[j].response = cache[i].response
    OBVIOUS
  <2>1. CoordinatorTypeOK
    BY DEF Inv, TypeOK
  <2>2. \A k \in Slot : cache[k].token = cache[i].token => k = i
    BY DEF Inv, OneEntryPerSequence
  <2>3. ASSUME NEW r \in Request, NEW response \in Response \cup {None},
               Insert(r, response)
        PROVE  cache'[j].response = cache[i].response
    <3>1. PICK n \in DOMAIN cache' :
            /\ cache'[n] = [token |-> NewToken(r), response |-> response]
            /\ \A k \in DOMAIN cache' \ {n} : k \in Slot /\ cache'[k] = cache[k]
      BY <2>1, <2>3, InsertEffect
    <3>2. cache[i].token.id # nextAdmissionId
      BY <2>1 DEF Inv, TypeOK, TokensAreUnique, EntriesAreIssued, CoordinatorTypeOK, Token
    <3>3. j # n
      BY <3>1, <3>2 DEF NewToken
    <3>. QED BY <2>2, <3>1, <3>3
  <2>4. ASSUME NEW t \in Token, NEW response \in Response, Store(t, response)
        PROVE  cache'[j].response = cache[i].response
    <3>1. j \in Slot /\ cache'[j].token = cache[j].token
      BY <2>1, <2>4, StoreEffect
    <3>2. j = i /\ ~IsActive(i)
      BY <2>2, <3>1 DEF ActiveSlot
    <3>. QED BY <2>1, <2>4, <3>1, <3>2, StoreEffect
  <2>5. CASE cache' = <<>>
    BY <2>5, EmptySeq, LenProperties
  <2>6. CASE cache' = cache
    BY <2>2, <2>6 DEF Slot
  <2>. QED BY <2>3, <2>4, <2>5, <2>6, CacheSteps
<1>. QED BY <1>1, Safety, PTL DEF Spec, ResponsesAreStable

-----------------------------------------------------------------------------
(* STOP_ALL always finds a slot.                                           *)

\* The cache has finitely many slots, so its active ones can be counted.
LEMMA SlotsAreFinite ==
  ASSUME CoordinatorTypeOK
  PROVE  /\ IsFiniteSet(Slot) /\ Cardinality(Slot) = Len(cache)
         /\ IsFiniteSet(ActiveSlot) /\ Cardinality(ActiveSlot) \in Nat
         /\ IsFiniteSet(OrdinaryActiveSlot) /\ Cardinality(OrdinaryActiveSlot) \in Nat
<1>1. Slot = 1 .. Len(cache) /\ Len(cache) \in Nat
  BY SlotFacts
<1>2. IsFiniteSet(Slot) /\ Cardinality(Slot) = Len(cache)
  <2>1. 1 \in Int /\ Len(cache) \in Int
    BY <1>1
  <2>2. /\ IsFiniteSet(1 .. Len(cache))
        /\ Cardinality(1 .. Len(cache)) = IF 1 > Len(cache) THEN 0 ELSE Len(cache) - 1 + 1
    BY <2>1, FS_Interval
  <2>. QED BY <1>1, <2>2
<1>3. ActiveSlot \in SUBSET Slot /\ OrdinaryActiveSlot \in SUBSET Slot
  BY DEF ActiveSlot, OrdinaryActiveSlot
<1>4. IsFiniteSet(ActiveSlot) /\ IsFiniteSet(OrdinaryActiveSlot)
  BY <1>2, <1>3, FS_Subset
<1>. QED BY <1>2, <1>4, FS_CardinalityType

\* No operation takes the slot kept for STOP_ALL.
LEMMA NextKeepsReserve ==
  ASSUME Inv, SlotIsReserved, [Next]_vars
  PROVE  SlotIsReserved'
<1>1. CoordinatorTypeOK /\ CacheSize \in Nat \ {0, 1}
  BY CacheSizeAssumption DEF Inv, TypeOK
<1>2. /\ IsFiniteSet(ActiveSlot) /\ Cardinality(ActiveSlot) \in Nat
      /\ IsFiniteSet(OrdinaryActiveSlot) /\ Cardinality(OrdinaryActiveSlot) \in Nat
  BY <1>1, SlotsAreFinite
<1>3. ASSUME OrdinaryActiveSlot' \subseteq OrdinaryActiveSlot PROVE SlotIsReserved'
  <2>1. /\ IsFiniteSet(OrdinaryActiveSlot')
        /\ Cardinality(OrdinaryActiveSlot') <= Cardinality(OrdinaryActiveSlot)
    BY <1>2, <1>3, FS_Subset
  <2>2. Cardinality(OrdinaryActiveSlot') \in Nat
    BY <2>1, FS_CardinalityType
  <2>. QED BY <1>1, <1>2, <2>1, <2>2 DEF SlotIsReserved
<1>4. ASSUME NEW r \in Request, NEW response \in Response \cup {None}, Insert(r, response),
             r.command # "StopAll" => Cardinality(ActiveSlot) < CacheSize - 1
      PROVE  SlotIsReserved'
  <2>1. PICK n \in DOMAIN cache' :
          /\ cache'[n] = [token |-> NewToken(r), response |-> response]
          /\ \A j \in DOMAIN cache' \ {n} : j \in Slot /\ cache'[j] = cache[j]
    BY <1>1, <1>4, InsertEffect
  <2>2. CASE r.command = "StopAll"
    <3>1. n \notin OrdinaryActiveSlot'
      BY <2>1, <2>2 DEF OrdinaryActiveSlot, NewToken
    <3>2. OrdinaryActiveSlot' \subseteq OrdinaryActiveSlot
      BY <2>1, <3>1 DEF OrdinaryActiveSlot, ActiveSlot, IsActive, Slot
    <3>. QED BY <1>3, <3>2
  <2>3. CASE r.command # "StopAll"
    <3>1. OrdinaryActiveSlot' \in SUBSET (ActiveSlot \cup {n})
      BY <2>1 DEF OrdinaryActiveSlot, ActiveSlot, IsActive, Slot
    <3>. HIDE DEF ActiveSlot
    <3>2. /\ IsFiniteSet(ActiveSlot \cup {n})
          /\ Cardinality(ActiveSlot \cup {n}) =
               IF n \in ActiveSlot THEN Cardinality(ActiveSlot) ELSE Cardinality(ActiveSlot) + 1
      BY ONLY <1>2, FS_AddElement, Zenon
    <3>3. /\ IsFiniteSet(OrdinaryActiveSlot')
          /\ Cardinality(OrdinaryActiveSlot') <= Cardinality(ActiveSlot \cup {n})
      BY <3>1, <3>2, FS_Subset
    <3>4. Cardinality(ActiveSlot \cup {n}) \in Nat /\ Cardinality(OrdinaryActiveSlot') \in Nat
      BY <3>2, <3>3, FS_CardinalityType
    <3>5. Cardinality(OrdinaryActiveSlot') <= CacheSize - 1
      BY <1>1, <1>2, <1>4, <2>3, <3>2, <3>3, <3>4
    <3>. QED BY <3>5 DEF SlotIsReserved
  <2>. QED BY <2>2, <2>3
<1>5. ASSUME NEW t \in Token, NEW response \in Response, Store(t, response)
      PROVE  SlotIsReserved'
  <2>1. /\ DOMAIN cache' = Slot
        /\ \A i \in Slot :
             /\ cache'[i].token = cache[i].token
             /\ cache[i].token = t /\ IsActive(i) => cache'[i].response = response
             /\ ~(cache[i].token = t /\ IsActive(i)) => cache'[i] = cache[i]
    BY <1>1, <1>5, StoreEffect
  <2>2. response # None
    BY NoneAssumption
  <2>3. OrdinaryActiveSlot' \subseteq OrdinaryActiveSlot
    BY <2>1, <2>2 DEF OrdinaryActiveSlot, ActiveSlot, IsActive, Slot
  <2>. QED BY <1>3, <2>3
<1>6. CASE cache' = <<>>
  <2>1. OrdinaryActiveSlot' = {}
    BY <1>6, EmptySeq, LenProperties DEF OrdinaryActiveSlot, ActiveSlot, Slot
  <2>. QED BY <1>3, <2>1
<1>7. CASE cache' = cache
  <2>1. OrdinaryActiveSlot' = OrdinaryActiveSlot
    BY <1>7 DEF OrdinaryActiveSlot, ActiveSlot, IsActive, Slot
  <2>. QED BY <1>3, <2>1
<1>. QED BY <1>4, <1>5, <1>6, <1>7, CacheSteps

\* Ordinary requests alone never exhaust the cache: a fresh STOP_ALL finds a
\* slot unless another one is pending.
THEOREM StopIsAdmissible == Spec => []StopAlwaysHasASlot
<1>1. Init => SlotIsReserved
  <2>. SUFFICES ASSUME Init PROVE SlotIsReserved
    OBVIOUS
  <2>1. OrdinaryActiveSlot = {}
    BY EmptySeq, LenProperties
    DEF Init, CoordinatorInit, OrdinaryActiveSlot, ActiveSlot, Slot
  <2>. QED BY <2>1, FS_EmptySet, CacheSizeAssumption DEF SlotIsReserved
<1>2. Inv /\ SlotIsReserved => StopAlwaysHasASlot
  <2>. SUFFICES ASSUME Inv, SlotIsReserved, ~(nextAdmissionId >= AdmissionIdLimit),
                       \A i \in ActiveSlot : cache[i].token.command # "StopAll"
                PROVE  CanInsert(TRUE)
    BY DEF StopAlwaysHasASlot
  <2>0. nextAdmissionId < AdmissionIdLimit
    BY LimitAssumption DEF Inv, TypeOK, CoordinatorTypeOK
  <2>1. CoordinatorTypeOK /\ Len(cache) \in Nat /\ Len(cache) <= CacheSize
    BY SlotFacts DEF Inv, TypeOK, CoordinatorTypeOK
  <2>2. ActiveSlot = OrdinaryActiveSlot
    BY DEF OrdinaryActiveSlot
  <2>3. Cardinality(ActiveSlot) < CacheSize /\ Cardinality(Slot) = Len(cache)
    BY <2>1, <2>2, SlotsAreFinite, CacheSizeAssumption DEF SlotIsReserved
  <2>4. Len(cache) = CacheSize => Slot # ActiveSlot
    BY <2>1, <2>3, CacheSizeAssumption
  <2>. QED BY <2>0, <2>1, <2>4, CacheSizeAssumption DEF CanInsert
<1>3. Inv /\ SlotIsReserved /\ [Next]_vars => SlotIsReserved'
  BY NextKeepsReserve
<1>. QED BY <1>1, <1>2, <1>3, Safety, PTL DEF Spec

-----------------------------------------------------------------------------
(* The coordinator implements the map that a retrying client sees.         *)

\* The slot of a sequence is found whatever slot it is: no other has it.
LEMMA SlotOfSequence ==
  ASSUME NEW c, NEW i \in DOMAIN c,
         \A j, k \in DOMAIN c : c[j].token.sequence = c[k].token.sequence => j = k
  PROVE  c[CHOOSE j \in DOMAIN c : c[j].token.sequence = c[i].token.sequence] = c[i]
OBVIOUS

\* The record of a sequence is its entry, before and after a step.
LEMMA RecordFacts ==
  ASSUME OneEntryPerSequence, OneEntryPerSequence'
  PROVE  /\ \A i \in Slot : RecordOf(cache[i].token.sequence) = cache[i]
         /\ \A s : (\A i \in Slot : cache[i].token.sequence # s) => RecordOf(s) = None
         /\ \A i \in DOMAIN cache' : RecordOf(cache[i].token.sequence)' = cache'[i]
         /\ \A s \in SequenceNumber :
              (\A i \in DOMAIN cache' : cache'[i].token.sequence # s) => RecordOf(s)' = None
<1>1. \A i \in Slot : RecordOf(cache[i].token.sequence) = cache[i]
  BY SlotOfSequence DEF RecordOf, OneEntryPerSequence, Slot
<1>2. \A i \in DOMAIN cache' : RecordOf(cache[i].token.sequence)' = cache'[i]
  BY SlotOfSequence DEF RecordOf, OneEntryPerSequence, Slot
<1>. QED BY <1>1, <1>2 DEF RecordOf, Slot

\* An admission gives one unknown sequence its record, and what it evicts is
\* the answered record of one other sequence.
LEMMA InsertAdmits ==
  ASSUME Inv, OneEntryPerSequence', NEW r \in Request, NEW response \in Response \cup {None},
         Insert(r, response), ~Known(r), response # None => response.origin = NewToken(r)
  PROVE  Abstract!Admit(r.sequence)
<1> DEFINE rec == [s \in SequenceNumber |-> RecordOf(s)]
           entry == [token |-> NewToken(r), response |-> response]
<1>1. CoordinatorTypeOK /\ NewToken(r) \in Token /\ r.sequence \in SequenceNumber
      /\ NewToken(r).sequence = r.sequence /\ NewToken(r).id = nextAdmissionId
      /\ nextAdmissionId \in Nat
  BY NewTokenType DEF Inv, TypeOK, Request, NewToken, CoordinatorTypeOK
<1>2. PICK n \in DOMAIN cache' :
        /\ cache'[n] = entry
        /\ \A j \in DOMAIN cache' \ {n} : j \in Slot /\ cache'[j] = cache[j]
        /\ \A j \in ActiveSlot : j \in DOMAIN cache' \ {n}
        /\ Slot \subseteq DOMAIN cache'
  BY <1>1, InsertEffect
<1>3. nextAdmissionId' = nextAdmissionId + 1
  BY <1>1, InsertEffect
<1>4. /\ \A i \in Slot : RecordOf(cache[i].token.sequence) = cache[i]
      /\ \A s : (\A i \in Slot : cache[i].token.sequence # s) => RecordOf(s) = None
      /\ \A i \in DOMAIN cache' : RecordOf(cache[i].token.sequence)' = cache'[i]
      /\ \A s \in SequenceNumber :
           (\A i \in DOMAIN cache' : cache'[i].token.sequence # s) => RecordOf(s)' = None
  BY RecordFacts DEF Inv
<1>5. rec[r.sequence] = None
  BY <1>1, <1>4 DEF Known, Holds
<1>6. rec'[r.sequence] = entry
  BY <1>1, <1>2, <1>4
<1>7. entry \in [token: Token, response: Response \cup {None}]
  BY <1>1
<1> DEFINE forgotten == IF n \in Slot THEN {cache[n].token.sequence} ELSE {}
           answered == {s \in SequenceNumber : rec[s] # None /\ rec[s].response # None}
<1>8. forgotten \in {{}} \cup {{x} : x \in answered}
  <2>1. CASE n \in Slot
    <3>1. cache[n].response # None /\ cache[n] # None
          /\ cache[n].token.sequence \in SequenceNumber
      BY <1>1, <1>2, <2>1, SlotFacts, NoneAssumption DEF ActiveSlot, IsActive, Token
    <3>2. rec[cache[n].token.sequence] = cache[n]
      BY <1>4, <2>1, <3>1
    <3>. QED BY <2>1, <3>1, <3>2
  <2>. QED BY <2>1
<1>9. ASSUME NEW x \in SequenceNumber, x # r.sequence
      PROVE  RecordOf(x)' = IF x \in forgotten THEN None ELSE rec[x]
  <2>1. CASE \E i \in Slot \ {n} : cache[i].token.sequence = x
    <3>1. PICK i \in Slot \ {n} : cache[i].token.sequence = x
      BY <2>1
    <3>2. i \in DOMAIN cache' /\ cache'[i] = cache[i] /\ cache'[i].token.sequence = x
      BY <1>2, <3>1
    <3>3. x \notin forgotten
      BY <3>1 DEF Inv, OneEntryPerSequence
    <3>. QED BY <1>4, <3>1, <3>2, <3>3
  <2>2. CASE \A i \in Slot \ {n} : cache[i].token.sequence # x
    <3>1. \A i \in DOMAIN cache' : cache'[i].token.sequence # x
      BY <1>1, <1>2, <1>9, <2>2
    <3>2. x \notin forgotten => \A i \in Slot : cache[i].token.sequence # x
      BY <2>2
    <3>. QED BY <1>4, <3>1, <3>2
  <2>. QED BY <2>1, <2>2
<1>10. rec' = [x \in SequenceNumber |->
                IF x = r.sequence THEN rec'[r.sequence]
                ELSE IF x \in forgotten THEN None ELSE rec[x]]
  BY <1>1, <1>9
<1>11. answered = Abstract!AnsweredSequence
  BY DEF Abstract!AnsweredSequence, Abstract!Pending
<1>12. forgotten \in {{}} \cup {{x} : x \in Abstract!AnsweredSequence}
  BY <1>8, <1>11
<1>13. /\ (nextAdmissionId - 1)' = (nextAdmissionId - 1) + 1
       /\ rec'[r.sequence].token.id = (nextAdmissionId - 1)'
       /\ rec'[r.sequence].token.sequence = r.sequence
       /\ rec'[r.sequence] \in Abstract!Record
       /\ rec'[r.sequence].response # None =>
            rec'[r.sequence].response.origin = rec'[r.sequence].token
  BY <1>1, <1>3, <1>6, <1>7 DEF Abstract!Record
<1>. HIDE DEF forgotten
<1>14. \E f \in {{}} \cup {{x} : x \in Abstract!AnsweredSequence} :
         rec' = [x \in SequenceNumber |->
                   IF x = r.sequence THEN rec'[r.sequence]
                   ELSE IF x \in f THEN None ELSE rec[x]]
  BY <1>10, <1>12, Zenon
<1>. QED BY <1>5, <1>13, <1>14, Zenon DEF Abstract!Admit

\* The response that complete stores becomes the answer of the pending record.
LEMMA StoreAnswers ==
  ASSUME Inv, OneEntryPerSequence', NEW t \in Token, NEW response \in Response,
         Store(t, response), response.origin = t,
         NEW i \in Slot, AwaitsAnswer(i, t), UNCHANGED nextAdmissionId
  PROVE  Abstract!AnswerPending(t.sequence)
<1> DEFINE rec == [s \in SequenceNumber |-> RecordOf(s)]
<1>1. /\ CoordinatorTypeOK /\ t.sequence \in SequenceNumber
      /\ cache[i].token = t /\ cache[i].response = None /\ cache[i] \in Entry
      /\ cache[i] # None
  BY SlotFacts, NoneAssumption DEF Inv, TypeOK, Token, AwaitsAnswer, IsActive
<1>2. /\ DOMAIN cache' = Slot
      /\ \A j \in Slot :
           /\ cache'[j].token = cache[j].token
           /\ cache[j].token = t /\ IsActive(j) => cache'[j].response = response
           /\ ~(cache[j].token = t /\ IsActive(j)) => cache'[j] = cache[j]
      /\ cache' \in Seq(Entry)
  BY <1>1, StoreEffect
<1>3. cache'[i] = [cache[i] EXCEPT !.response = response]
  BY <1>1 DEF Store, AwaitsAnswer, IsActive
<1>4. /\ \A j \in Slot : RecordOf(cache[j].token.sequence) = cache[j]
      /\ \A s : (\A j \in Slot : cache[j].token.sequence # s) => RecordOf(s) = None
      /\ \A j \in DOMAIN cache' : RecordOf(cache[j].token.sequence)' = cache'[j]
      /\ \A s \in SequenceNumber :
           (\A j \in DOMAIN cache' : cache'[j].token.sequence # s) => RecordOf(s)' = None
  BY RecordFacts DEF Inv
<1>5. rec[t.sequence] = cache[i] /\ rec'[t.sequence] = cache'[i]
  BY <1>1, <1>2, <1>4
<1>6. ASSUME NEW x \in SequenceNumber, x # t.sequence
      PROVE  RecordOf(x)' = rec[x]
  <2>1. CASE \E j \in Slot : cache[j].token.sequence = x
    BY <1>2, <1>4, <1>6, <2>1
  <2>2. CASE \A j \in Slot : cache[j].token.sequence # x
    BY <1>2, <1>4, <2>2
  <2>. QED BY <2>1, <2>2
<1>7. rec' = [rec EXCEPT ![t.sequence] = cache'[i]]
  BY <1>1, <1>5, <1>6
<1>8. cache'[i].response = response /\ cache'[i] # None
  BY <1>1, <1>3, NoneAssumption DEF Entry
<1>9. rec' = [rec EXCEPT ![t.sequence] = [rec[t.sequence] EXCEPT !.response = response]]
  BY <1>3, <1>5, <1>7
<1>10. rec' = [rec EXCEPT ![t.sequence].response = rec'[t.sequence].response]
  BY <1>5, <1>8, <1>9
<1>. QED BY <1>1, <1>5, <1>8, <1>10 DEF Abstract!AnswerPending, Abstract!Pending

\* The vector of entries, its round-robin eviction and its session changes
\* implement the map from sequences to single admissions, step by step.
THEOREM Refinement == Spec => ImplementsRetryMap
<1>1. Init => Abstract!Init
  <2>. SUFFICES ASSUME Init PROVE Abstract!Init
    OBVIOUS
  <2>1. Slot = {}
    BY EmptySeq, LenProperties DEF Init, CoordinatorInit, Slot
  <2>2. \A s : RecordOf(s) = None
    BY <2>1 DEF RecordOf
  <2>. QED BY <2>2 DEF Abstract!Init, Init, CoordinatorInit
<1>2. Inv /\ Inv' /\ [Next]_vars
        => [Abstract!Next]_<<[s \in SequenceNumber |-> RecordOf(s)], nextAdmissionId - 1>>
  <2>. SUFFICES ASSUME Inv, Inv', [Next]_vars
                PROVE  \/ Abstract!Next
                       \/ UNCHANGED <<[s \in SequenceNumber |-> RecordOf(s)], nextAdmissionId - 1>>
    OBVIOUS
  <2>1. OneEntryPerSequence'
    BY DEF Inv
  <2>2. ASSUME NEW r \in Request, NEW response \in Response \cup {None},
               Insert(r, response), ~Known(r), response # None => response.origin = NewToken(r)
        PROVE  Abstract!Next
    <3>1. r.sequence \in SequenceNumber
      BY DEF Request
    <3>. QED BY <2>1, <2>2, <3>1, InsertAdmits DEF Abstract!Next
  <2>3. ASSUME NEW t \in Token, NEW response \in Response, Store(t, response),
               response.origin = t, NEW i \in Slot, AwaitsAnswer(i, t),
               UNCHANGED nextAdmissionId
        PROVE  Abstract!Next
    <3>1. t.sequence \in SequenceNumber
      BY DEF Token
    <3>. QED BY <2>1, <2>3, <3>1, StoreAnswers DEF Abstract!Next
  <2>4. ASSUME cache' = <<>>, UNCHANGED nextAdmissionId
        PROVE  Abstract!Next
    <3>1. Slot' = {}
      BY <2>4, EmptySeq, LenProperties DEF Slot
    <3>2. \A s \in SequenceNumber : RecordOf(s)' = None
      BY <3>1 DEF RecordOf
    <3>. QED BY <2>4, <3>2 DEF Abstract!Next, Abstract!Forget
  <2>5. CASE UNCHANGED <<cache, nextAdmissionId>>
    BY <2>5 DEF RecordOf, Slot
  <2>. QED BY <2>2, <2>3, <2>4, <2>5, CacheSteps
<1>. QED BY <1>1, <1>2, Safety, PTL DEF Spec, ImplementsRetryMap, Abstract!Spec

=============================================================================
