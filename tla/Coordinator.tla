---------------------------- MODULE Coordinator ----------------------------
(***************************************************************************)
(* Admission, deduplication and replay of requests: `struct Coordinator`   *)
(* of src/src/coordinator.rs.                                              *)
(*                                                                         *)
(* This module holds the coordinator's six fields and one action per       *)
(* outcome of an operation on it.  It has no Next of its own: the code     *)
(* that calls the coordinator decides when.  CoordinatorSystem closes it   *)
(* with an arbitrary caller, Dispatcher with the firmware's dispatcher.    *)
(*                                                                         *)
(* A request is what its handling depends on: sequence, version, command.  *)
(* Commands that share a type and differ in payload are different members  *)
(* of Mutation.  The 64-bit FNV fingerprint stands for the exact request   *)
(* content: hash collisions are not modelled.                              *)
(***************************************************************************)
EXTENDS Integers, FiniteSets, Sequences

CONSTANTS
  CacheSize,        \* RESPONSE_CACHE_SIZE, 64 in the code
  SequenceNumber,   \* sequences of response-bearing requests
  Version,          \* accepted protocol versions
  Bypass,           \* commands answered without the executor
  Mutation,         \* commands that need exclusive execution
  AdmissionIdLimit, \* u64::MAX for next_admission_id
  SessionLimit,     \* u64::MAX for session_generation
  None

ASSUME CacheSizeAssumption == CacheSize \in Nat \ {0, 1}
ASSUME LimitAssumption == AdmissionIdLimit \in Nat /\ SessionLimit \in Nat

ControlCommand == {"BatchBegin", "BatchEnd", "StopAll"}

\* "Malformed" passes validate_request and fails decode_command.
Command == Bypass \cup ControlCommand \cup {"Malformed"} \cup Mutation

\* Commands the dispatcher answers itself.
Query == {"Ping", "GetInfo", "GetCaps", "Heartbeat"}

ASSUME CommandAssumption ==
  /\ Bypass \subseteq Query
  /\ Mutation \cap (Query \cup ControlCommand \cup {"Malformed"}) = {}

Request == [sequence: SequenceNumber, version: Version, command: Command]

\* A CompletionToken.  Its fingerprint is that of the request it was made for,
\* its expected_response is a function of the command.
Token == [session: Nat, id: Nat, sequence: SequenceNumber, version: Version,
          command: Command]

Fingerprint(r) == <<r.version, r.command>>

ExpectedResponse(command) ==
  IF command \in {"GetInfo", "GetCaps"} THEN "Status" ELSE "Ack"

ResponseKind == {"Ack", "Nack", "Status", "Busy"}

\* A CachedResponse; `origin` is a ghost: the admission whose handling built it.
Response == [kind: ResponseKind, sequence: SequenceNumber, version: Version,
             origin: Token]

Answer(token, kind) ==
  [kind |-> kind, sequence |-> token.sequence, version |-> token.version,
   origin |-> token]

\* A cache entry; response = None is CacheState::Active.  The entry's sequence
\* and fingerprint are those of its token.
Entry == [token: Token, response: Response \cup {None}]

ASSUME NoneAssumption == None \notin Token /\ None \notin Response /\ None \notin Entry

BatchIdle == [mode |-> "Idle", owner |-> None]
BatchCollecting == [mode |-> "Collecting", owner |-> None]
BatchExecuting(token) == [mode |-> "Executing", owner |-> token]

VARIABLES
  cache,              \* Vec<CacheEntry, RESPONSE_CACHE_SIZE>
  nextEvict,          \* 0-based slot where the eviction scan starts
  sessionGeneration,
  nextAdmissionId,
  executorOwner,      \* token of the ordinary command that owns execution
  batchState

coordVars == <<cache, nextEvict, sessionGeneration, nextAdmissionId,
               executorOwner, batchState>>

CoordinatorTypeOK ==
  /\ cache \in Seq(Entry)
  /\ Len(cache) <= CacheSize
  /\ nextEvict \in 0 .. CacheSize - 1
  /\ sessionGeneration \in Nat
  /\ nextAdmissionId \in Nat \ {0}
  /\ executorOwner \in Token \cup {None}
  /\ batchState \in [mode: {"Idle", "Collecting", "Executing"},
                     owner: Token \cup {None}]
  /\ (batchState.mode = "Executing") <=> (batchState.owner # None)

CoordinatorInit ==
  /\ cache = <<>>
  /\ nextEvict = 0
  /\ sessionGeneration = 0
  /\ nextAdmissionId = 1
  /\ executorOwner = None
  /\ batchState = BatchIdle

-----------------------------------------------------------------------------
(* Slots of the cache.                                                     *)

Slot == DOMAIN cache
IsActive(i) == cache[i].response = None
ActiveSlot == {i \in Slot : IsActive(i)}
Holds(i, r) == cache[i].token.sequence = r.sequence

Known(r) == \E i \in Slot : Holds(i, r)

IsExecutorOccupied == executorOwner # None \/ batchState.mode = "Executing"

\* The eviction scan visits slots from nextEvict on, wrapping, and takes the
\* first Completed one.
ScanDistance(i) == (i - 1 - nextEvict + CacheSize) % CacheSize

IsEvicted(i) ==
  /\ i \in Slot \ ActiveSlot
  /\ \A j \in Slot \ ActiveSlot : ScanDistance(i) <= ScanDistance(j)

\* Mutant: no slot is set apart for urgent insertions.
CanInsertAnywhere(urgent) ==
  /\ Len(cache) < CacheSize \/ Slot # ActiveSlot
  /\ nextAdmissionId < AdmissionIdLimit

\* insert_active returns true: an ordinary insertion leaves one slot that only
\* an urgent one may take; a full cache needs a Completed entry to replace.
CanInsert(urgent) ==
  /\ urgent \/ Cardinality(ActiveSlot) < CacheSize - 1
  /\ Len(cache) < CacheSize \/ Slot # ActiveSlot
  /\ nextAdmissionId < AdmissionIdLimit

NewToken(r) ==
  [session |-> sessionGeneration, id |-> nextAdmissionId,
   sequence |-> r.sequence, version |-> r.version, command |-> r.command]

\* Mutant: a full cache is emptied.
InsertFlushing(r, response) ==
  LET entry == [token |-> NewToken(r), response |-> response]
  IN  /\ nextAdmissionId' = nextAdmissionId + 1
      /\ cache' = IF Len(cache) < CacheSize THEN Append(cache, entry) ELSE <<entry>>
      /\ UNCHANGED nextEvict

\* insert_active on a request that CanInsert: push, or replace the evicted slot.
Insert(r, response) ==
  LET entry == [token |-> NewToken(r), response |-> response]
  IN  /\ nextAdmissionId' = nextAdmissionId + 1
      /\ \/ /\ Len(cache) < CacheSize
            /\ cache' = Append(cache, entry)
            /\ UNCHANGED nextEvict
         \/ /\ Len(cache) = CacheSize
            /\ \E i \in Slot :
                 /\ IsEvicted(i)
                 /\ cache' = [cache EXCEPT ![i] = entry]
                 /\ nextEvict' = i % CacheSize

-----------------------------------------------------------------------------
(* admit_prepared_with_external_busy, one action per Admission.  `busy` is *)
(* external_busy: an emergency release is queued or executing.  A caller   *)
(* that completes an admission before it lets go of the coordinator passes *)
(* the response that completion stores; one that does so later passes None.*)
(* A sequence-zero heartbeat (Admission::NoResponse) passes by the cache.  *)

\* Admission::Replay of the response of slot i.
AdmitReplay(r, i) ==
  /\ i \in Slot
  /\ Holds(i, r)
  /\ Fingerprint(cache[i].token) = Fingerprint(r)
  /\ ~IsActive(i)
  /\ UNCHANGED coordVars

\* The lookup hits a request still being handled: Busy(ActiveDuplicate).
IsActiveDuplicate(r) ==
  \E i \in Slot :
    /\ Holds(i, r)
    /\ Fingerprint(cache[i].token) = Fingerprint(r)
    /\ IsActive(i)

NeedsExecutor(r) == r.command \in Mutation \cup {"BatchBegin", "BatchEnd"}

\* Checks common to every fresh request: unknown sequence, decodable payload,
\* no emergency for a command that would need the executor.
Fresh(r, busy) ==
  /\ ~Known(r)
  /\ r.command # "Malformed"
  /\ ~(busy /\ NeedsExecutor(r))

\* Busy(ExecutorOccupied | BatchExecuting): by the emergency, by the owner, by
\* an executing batch, or because the cache has no slot to give.
IsRefusedBusy(r, busy) ==
  /\ ~Known(r)
  /\ r.command # "Malformed"
  /\ \/ busy /\ NeedsExecutor(r)
     \/ /\ r.command \in Mutation
        /\ \/ batchState.mode = "Executing"
           \/ batchState.mode = "Idle" /\ executorOwner # None
     \/ r.command = "BatchBegin" /\ batchState.mode = "Idle" /\ executorOwner # None
     \/ /\ ~CanInsert(r.command = "StopAll")
        /\ r.command = "BatchBegin" => batchState.mode = "Idle"
        /\ r.command = "BatchEnd" => batchState.mode = "Collecting"

AdmitBusy(r, busy) ==
  /\ IsActiveDuplicate(r) \/ IsRefusedBusy(r, busy)
  /\ UNCHANGED coordVars

\* Admission::Reject: SequenceConflict, undecodable payload, BatchState.
AdmitReject(r, busy) ==
  /\ \/ \E i \in Slot : /\ Holds(i, r)
                        /\ Fingerprint(cache[i].token) # Fingerprint(r)
     \/ ~Known(r) /\ r.command = "Malformed"
     \/ /\ Fresh(r, busy)
        /\ \/ r.command = "BatchBegin" /\ batchState.mode # "Idle"
           \/ r.command = "BatchEnd" /\ batchState.mode # "Collecting"
  /\ UNCHANGED coordVars

\* BATCH_BEGIN opens a collection and answers itself: Admission::Immediate.
AdmitBatchBegin(r, busy) ==
  /\ r.command = "BatchBegin"
  /\ Fresh(r, busy)
  /\ batchState.mode = "Idle"
  /\ executorOwner = None
  /\ CanInsert(FALSE)
  /\ Insert(r, Answer(NewToken(r), "Ack"))
  /\ batchState' = BatchCollecting
  /\ UNCHANGED <<sessionGeneration, executorOwner>>

\* BATCH_END makes its own admission the owner of the executing batch.
AdmitBatchEnd(r, busy) ==
  /\ r.command = "BatchEnd"
  /\ Fresh(r, busy)
  /\ batchState.mode = "Collecting"
  /\ CanInsert(FALSE)
  /\ Insert(r, None)
  /\ batchState' = BatchExecuting(NewToken(r))
  /\ UNCHANGED <<sessionGeneration, executorOwner>>

AdmitBypass(r, busy, response) ==
  /\ r.command \in Bypass
  /\ Fresh(r, busy)
  /\ CanInsert(FALSE)
  /\ Insert(r, response)
  /\ UNCHANGED <<sessionGeneration, executorOwner, batchState>>

\* STOP_ALL takes an urgent slot and discards an open collection.
AdmitStop(r, busy) ==
  /\ r.command = "StopAll"
  /\ Fresh(r, busy)
  /\ CanInsert(TRUE)
  /\ Insert(r, None)
  /\ batchState' = IF batchState.mode = "Collecting" THEN BatchIdle ELSE batchState
  /\ UNCHANGED <<sessionGeneration, executorOwner>>

\* `aborted`: the caller also calls abort_batch.
AdmitCollect(r, busy, response, aborted) ==
  /\ r.command \in Mutation
  /\ Fresh(r, busy)
  /\ batchState.mode = "Collecting"
  /\ CanInsert(FALSE)
  /\ Insert(r, response)
  /\ batchState' = IF aborted THEN BatchIdle ELSE batchState
  /\ UNCHANGED <<sessionGeneration, executorOwner>>

\* An ordinary mutation takes exclusive ownership: Admission::Execute.
AdmitExecute(r, busy) ==
  /\ r.command \in Mutation
  /\ Fresh(r, busy)
  /\ batchState.mode = "Idle"
  /\ executorOwner = None
  /\ CanInsert(FALSE)
  /\ Insert(r, None)
  /\ executorOwner' = NewToken(r)
  /\ UNCHANGED <<sessionGeneration, batchState>>

-----------------------------------------------------------------------------
(* Completion and session changes.                                         *)

IsFinal(response, command) ==
  \/ response.kind = "Nack"
  \/ response.kind \in {"Ack", "Status"} /\ response.kind = ExpectedResponse(command)

\* Mutant: a completion overwrites a completed entry.
AwaitsAgain(i, token) == cache[i].token = token

\* Slot i is the active entry of this very admission.
AwaitsAnswer(i, token) == cache[i].token = token /\ IsActive(i)

\* complete(token, response) returns Ok.
CanComplete(token, response) ==
  /\ response.sequence = token.sequence
  /\ response.version = token.version
  /\ IsFinal(response, token.command)
  /\ \E i \in Slot : AwaitsAnswer(i, token)

Store(token, response) ==
  cache' = [i \in Slot |->
              IF AwaitsAnswer(i, token)
              THEN [cache[i] EXCEPT !.response = response] ELSE cache[i]]

\* Mutant: completion forgets to give execution back.
CompleteOwning(token, response) ==
  /\ CanComplete(token, response)
  /\ Store(token, response)
  /\ batchState' = IF batchState = BatchExecuting(token) THEN BatchIdle ELSE batchState
  /\ UNCHANGED <<nextEvict, sessionGeneration, nextAdmissionId, executorOwner>>

Complete(token, response) ==
  /\ CanComplete(token, response)
  /\ Store(token, response)
  /\ executorOwner' = IF executorOwner = token THEN None ELSE executorOwner
  /\ batchState' = IF batchState = BatchExecuting(token) THEN BatchIdle ELSE batchState
  /\ UNCHANGED <<nextEvict, sessionGeneration, nextAdmissionId>>

\* complete returns an error and changes nothing.
CompleteFails(token, response) ==
  /\ ~CanComplete(token, response)
  /\ UNCHANGED coordVars

AbortBatch ==
  /\ batchState' = IF batchState.mode = "Collecting" THEN BatchIdle ELSE batchState
  /\ UNCHANGED <<cache, nextEvict, sessionGeneration, nextAdmissionId, executorOwner>>

\* Mutant: admission ids start over with each session.
ClearSessionAndIds ==
  /\ sessionGeneration < SessionLimit
  /\ sessionGeneration' = sessionGeneration + 1
  /\ cache' = <<>>
  /\ nextEvict' = 0
  /\ executorOwner' = None
  /\ batchState' = BatchIdle
  /\ nextAdmissionId' = 1

\* clear_session; the code panics at SessionLimit.
ClearSession ==
  /\ sessionGeneration < SessionLimit
  /\ sessionGeneration' = sessionGeneration + 1
  /\ cache' = <<>>
  /\ nextEvict' = 0
  /\ executorOwner' = None
  /\ batchState' = BatchIdle
  /\ UNCHANGED nextAdmissionId

-----------------------------------------------------------------------------
(* What the coordinator's state guarantees.                                *)

\* A sequence has at most one entry: the lookup, which takes the first match,
\* can neither replay nor refuse on behalf of a request another entry holds.
OneEntryPerSequence ==
  \A i, j \in Slot : cache[i].token.sequence = cache[j].token.sequence => i = j

\* Whoever owns execution is an Active entry, so its completion cannot be
\* stale: eviction never strands the executor as occupied for ever.
OwnersAreActive ==
  \A t \in {executorOwner, batchState.owner} \ {None} :
    \E i \in ActiveSlot : cache[i].token = t

\* An ordinary command and a batch never own execution together, and no
\* collection is open while a command executes.
ExclusiveOwner ==
  executorOwner # None => batchState = BatchIdle

\* A cached final response was built by the admission that its entry records,
\* never by an earlier session or an evicted admission of the same sequence,
\* and is of the kind the request expects.
AnsweredByOwnAdmission ==
  \A i \in Slot \ ActiveSlot :
    /\ cache[i].response.origin = cache[i].token
    /\ IsFinal(cache[i].response, cache[i].token.command)

\* Ordinary traffic alone can never exhaust the cache: unless a STOP_ALL is
\* already pending, a fresh STOP_ALL finds a slot.
StopAlwaysHasASlot ==
  \/ \E i \in ActiveSlot : cache[i].token.command = "StopAll"
  \/ nextAdmissionId >= AdmissionIdLimit
  \/ CanInsert(TRUE)
=============================================================================
