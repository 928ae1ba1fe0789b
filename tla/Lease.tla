------------------------------- MODULE Lease -------------------------------
(***************************************************************************)
(* The controller lease: lease_task of src/src/runtime.rs with RuntimeLease*)
(* and LeaseState, on the wrapping millisecond clock.                      *)
(*                                                                         *)
(* Each v2 request the dispatcher admits overwrites LEASE_REFRESH, an      *)
(* Embassy Signal that keeps the latest value only.  lease_task wakes for a*)
(* refresh or for its timer, up to MaxLag ticks late.  Awaiting room in    *)
(* SAFETY_EVENTS is not modelled here: see Sessions.                       *)
(***************************************************************************)
EXTENDS Integers

CONSTANTS
  ClockSize,     \* 2^64 in the code: the clock wraps here
  Duration,      \* CONTROL_LEASE_MS, 2000 in the code
  MaxLag,        \* bound: ticks for which a ready lease_task may wait to run
  SessionLimit,  \* bound: no new session begins from here on
  None

Half == ClockSize \div 2

Time == 0 .. ClockSize - 1

Refresh == [session: Nat, at: Time]

ASSUME LeaseAssumption ==
  /\ ClockSize \in Nat \ {0} /\ Duration \in Nat \ {0} /\ MaxLag \in Nat
  /\ Duration + MaxLag < Half
  /\ SessionLimit \in Nat
  /\ None \notin Nat /\ None \notin Refresh

VARIABLES
  now,       \* Instant::now().as_millis()
  session,   \* SESSION_GENERATION
  guarded,   \* GUARDED_WORK
  signal,    \* LEASE_REFRESH: a refresh or None
  lease,     \* RuntimeLease: armed, deadline, armed_session
  timer,     \* ticks until lease_task's timer fires, or None if it only waits
  lag,       \* history: ticks for which lease_task has been ready
  age,       \* history: ticks since the session's last v2 request, or None
  base,      \* history: ticks since the refresh that the lease stands on
  leased,    \* history: the guarded work was started or confirmed under v2
  inTime     \* history: a refresh came before the armed deadline

vars == <<now, session, guarded, signal, lease, timer, lag, age, base, leased, inTime>>

\* Ages are counted this far.
Horizon == Duration + 2 * MaxLag + 2

Unarmed == [armed |-> FALSE, deadline |-> 0, session |-> 0]

TypeOK ==
  /\ now \in Time /\ session \in Nat
  /\ {guarded, leased, inTime} \subseteq BOOLEAN
  /\ signal \in Refresh \cup {None}
  /\ lease \in [armed: BOOLEAN, deadline: Time, session: Nat]
  /\ timer \in 0 .. Duration \cup {None}
  /\ lag \in 0 .. MaxLag
  /\ age \in 0 .. Horizon \cup {None} /\ base \in 0 .. Horizon
  /\ lease.armed <=> timer # None

Init ==
  /\ now \in Time
  /\ session = 1
  /\ guarded = FALSE /\ leased = FALSE /\ inTime = FALSE
  /\ signal = None
  /\ lease = Unarmed
  /\ timer = None
  /\ lag = 0 /\ age = None /\ base = 0

\* Mutant: a comparison that does not wrap.
ReachedUnwrapped(time, deadline) == time >= deadline

\* deadline_reached, in wrapping arithmetic.
Reached(time, deadline) == (time - deadline) % ClockSize < Half

-----------------------------------------------------------------------------
(* The dispatcher and the clock.                                           *)

\* A v2 request is admitted; afterwards work is guarded or not.
AdmitV2 ==
  /\ signal' = [session |-> session, at |-> now]
  /\ guarded' \in BOOLEAN
  /\ leased' = guarded'
  /\ age' = 0
  /\ inTime' = (inTime \/ (lease.armed /\ lease.session = session
                             /\ ~Reached(now, lease.deadline)))
  /\ UNCHANGED <<now, session, lease, timer, lag, base>>

\* A v1 request does not refresh the lease, and may start guarded work.
AdmitV1 ==
  /\ guarded' \in BOOLEAN
  /\ leased' = (leased /\ guarded')
  /\ UNCHANGED <<now, session, signal, lease, timer, lag, age, base, inTime>>

\* A result or a release leaves nothing guarded.
WorkEnds ==
  /\ guarded
  /\ guarded' = FALSE /\ leased' = FALSE
  /\ UNCHANGED <<now, session, signal, lease, timer, lag, age, base, inTime>>

\* DTR is lost or USB disabled: a new session, of which no request was seen.
NewSession ==
  /\ session < SessionLimit
  /\ session' = session + 1
  /\ age' = None /\ leased' = FALSE /\ inTime' = FALSE
  /\ UNCHANGED <<now, guarded, signal, lease, timer, lag, base>>

IsReady == signal # None \/ timer = 0

Count(ticks) == IF ticks < Horizon THEN ticks + 1 ELSE ticks

Tick ==
  /\ IsReady => lag < MaxLag
  /\ now' = (now + 1) % ClockSize
  /\ timer' = IF timer \in {0, None} THEN timer ELSE timer - 1
  /\ lag' = IF IsReady THEN lag + 1 ELSE 0
  /\ age' = IF age = None THEN None ELSE Count(age)
  /\ base' = Count(base)
  /\ UNCHANGED <<session, guarded, signal, lease, leased, inTime>>

-----------------------------------------------------------------------------
(* RuntimeLease::transition, in the steps the code takes.                  *)

\* A lease of another session is disarmed without a release.
Current == IF lease.armed /\ lease.session # session THEN Unarmed ELSE lease

IsFresh == signal # None /\ signal.session = session

\* The refresh came at or after the old deadline: it is too late.
IsMissed == IsFresh /\ Current.armed /\ Reached(signal.at, Current.deadline)

\* A refresh in time replaces the lease.
Refreshed ==
  IF IsFresh /\ ~IsMissed
  THEN [armed |-> TRUE, deadline |-> (signal.at + Duration) % ClockSize,
        session |-> session]
  ELSE Current

Expires == IsMissed \/ (Refreshed.armed /\ Reached(now, Refreshed.deadline))

\* Mutant: lease_task sleeps a whole lease from now.
SleepFromNow == Duration

\* remaining_ms of a lease that has not expired.
RemainingTime == (Refreshed.deadline - now) % ClockSize

\* lease_task wakes, takes the pending refresh and arbitrates; it sleeps until
\* the deadline if a lease is armed.  Guarded work is released with the session.
LeaseWakes ==
  /\ IsReady
  /\ signal' = None
  /\ lag' = 0
  /\ inTime' = FALSE
  /\ base' = IF IsFresh /\ ~IsMissed THEN age ELSE base
  /\ \/ /\ Expires
        /\ lease' = Unarmed
        /\ timer' = None
        /\ session' = IF guarded THEN session + 1 ELSE session
        /\ age' = IF guarded THEN None ELSE age
        /\ leased' = (leased /\ ~guarded)
     \/ /\ ~Expires
        /\ lease' = Refreshed
        /\ timer' = IF Refreshed.armed THEN RemainingTime ELSE None
        /\ UNCHANGED <<session, age, leased>>
  /\ Expires /\ guarded => session < SessionLimit
  /\ UNCHANGED <<now, guarded>>

Next == AdmitV2 \/ AdmitV1 \/ WorkEnds \/ NewSession \/ Tick \/ LeaseWakes

Spec == Init /\ [][Next]_vars

FairSpec == Spec /\ WF_vars(Tick) /\ WF_vars(LeaseWakes)

-----------------------------------------------------------------------------
(* What the lease guarantees.                                              *)

\* Work that a v2 controller started or confirmed never stays guarded much
\* longer than the lease after its last request: by the lag of one wake-up.
LeaseIsEnforced ==
  guarded /\ leased => age # None /\ age <= Duration + MaxLag

\* A pending refresh waits no longer than lease_task has been ready, and its
\* time is that of the session's last v2 request.
RefreshIsRecent ==
  /\ ~IsReady => lag = 0
  /\ signal # None => signal.session <= session
  /\ IsFresh => age # None /\ age <= lag /\ signal.at = (now - age) % ClockSize

\* The armed deadline is one lease after the refresh the lease stands on, and
\* the timer fires there.  That refresh is not newer than the last v2 request.
LeaseStandsOnARefresh ==
  /\ age # None => age <= base
  /\ lease.armed =>
       /\ lease.session <= session
       /\ lease.deadline = (now - base + Duration) % ClockSize
       /\ base <= Duration + lag
       /\ timer = IF base <= Duration THEN Duration - base ELSE 0

\* Work under v2 is covered by a pending refresh or by the lease of the last one.
LeasedWorkIsCovered ==
  leased => /\ guarded /\ age # None
            /\ IsFresh \/ (lease.armed /\ lease.session = session /\ base = age)

\* No work is guarded beyond its lease, wherever the clock stands: the parts of
\* an inductive invariant.
LeaseInv ==
  /\ TypeOK
  /\ RefreshIsRecent
  /\ LeaseStandsOnARefresh
  /\ LeasedWorkIsCovered
  /\ LeaseIsEnforced

\* The lease releases input only when the refresh it stands on is really a full
\* lease old, wherever the clock has wrapped in between.
LeaseRunsItsCourse ==
  [][LeaseWakes /\ session' # session => base >= Duration]_vars

\* src/src/runtime_safety.rs:173 "A refresh observed before the old deadline
\* wins even if this transition runs late."
RefreshInTimeWins ==
  [][LeaseWakes /\ session' # session => ~inTime]_vars
=============================================================================
