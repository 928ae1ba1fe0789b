------------------------- MODULE CoordinatorSystem -------------------------
(***************************************************************************)
(* The coordinator driven by a caller that may send any request at any     *)
(* time and answer any admission it was ever given: late, twice, after the *)
(* session ended, or with a response of the wrong shape.                   *)
(***************************************************************************)
EXTENDS Coordinator

VARIABLE issued   \* history: tokens the coordinator has handed out

vars == <<cache, nextEvict, sessionGeneration, nextAdmissionId,
          executorOwner, batchState, issued>>

TypeOK == CoordinatorTypeOK /\ issued \subseteq Token

Init == CoordinatorInit /\ issued = {}

\* The request is admitted as fresh.
Accept(r, busy) ==
  /\ \/ AdmitBatchBegin(r, busy)
     \/ AdmitBatchEnd(r, busy)
     \/ AdmitBypass(r, busy, None)
     \/ AdmitStop(r, busy)
     \/ AdmitCollect(r, busy, None, FALSE)
     \/ AdmitExecute(r, busy)
  /\ issued' = issued \cup {NewToken(r)}

\* The request is answered from the coordinator's state, which does not change.
Refuse(r, busy) ==
  /\ \/ \E i \in Slot : AdmitReplay(r, i)
     \/ AdmitBusy(r, busy)
     \/ AdmitReject(r, busy)
  /\ UNCHANGED issued

\* The handler of `token` reports its response.
Report(token) ==
  /\ \E kind \in ResponseKind, s \in SequenceNumber, v \in Version :
       LET response == [Answer(token, kind) EXCEPT !.sequence = s, !.version = v]
       IN  Complete(token, response) \/ CompleteFails(token, response)
  /\ UNCHANGED issued

EndSession == ClearSession /\ UNCHANGED issued

DropBatch == AbortBatch /\ UNCHANGED issued

Next ==
  \/ \E r \in Request, busy \in BOOLEAN : Accept(r, busy) \/ Refuse(r, busy)
  \/ \E token \in issued : Report(token)
  \/ EndSession
  \/ DropBatch

Spec == Init /\ [][Next]_vars

-----------------------------------------------------------------------------
\* Admission ids are never handed out twice, in any session, so a token names
\* one admission for the whole lifetime of the coordinator.
TokensAreUnique ==
  /\ \A t \in issued : t.id < nextAdmissionId
  /\ \A t, u \in issued : t.id = u.id => t = u

\* Every entry was handed out, so a fresh token differs from all of them.
EntriesAreIssued == \A i \in Slot : cache[i].token \in issued

\* The inductive invariant: the guarantees above need each other.  Completion
\* keeps OwnersAreActive because tokens are unique; admission keeps
\* ExclusiveOwner because a batch ends only with its owner; a late report keeps
\* AnsweredByOwnAdmission because an entry never shares its token.
Inv ==
  /\ TypeOK
  /\ OneEntryPerSequence
  /\ OwnersAreActive
  /\ ExclusiveOwner
  /\ AnsweredByOwnAdmission
  /\ TokensAreUnique
  /\ EntriesAreIssued

\* Active entries other than STOP_ALLs leave one slot: what the guard of an
\* ordinary insertion maintains for StopAlwaysHasASlot.
OrdinaryActiveSlot == {i \in ActiveSlot : cache[i].token.command # "StopAll"}

SlotIsReserved == Cardinality(OrdinaryActiveSlot) <= CacheSize - 1

\* The response a client can be replayed is final: it is gone only with its
\* entry, and never replaced by another response to the same admission.
ResponsesAreStable ==
  [][\A i \in Slot \ ActiveSlot :
       \A j \in DOMAIN cache' :
         cache'[j].token = cache[i].token => cache'[j].response = cache[i].response]_vars

\* The vector with its round-robin eviction is a map from sequences to single
\* admissions (RetryMap): the slot of a sequence, if any, is its record.
RecordOf(s) ==
  IF \E i \in Slot : cache[i].token.sequence = s
  THEN cache[CHOOSE i \in Slot : cache[i].token.sequence = s]
  ELSE None

Abstract == INSTANCE RetryMap WITH
  record <- [s \in SequenceNumber |-> RecordOf(s)],
  lastId <- nextAdmissionId - 1

ImplementsRetryMap == Abstract!Spec
=============================================================================
