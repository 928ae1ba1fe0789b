---------------------------- MODULE LeaseProofs ----------------------------
(***************************************************************************)
(* What Lease guarantees for every clock size, lease duration, lag and     *)
(* number of sessions, by induction on LeaseInv.  The clock wraps, so the  *)
(* proofs first turn its residues into differences: Residue, Shift and     *)
(* ReachedWithin.                                                          *)
(***************************************************************************)
EXTENDS Lease, TLAPS

\* The clock's residue of a number one turn or less out of range.
Wrap(x) == IF x < 0 THEN x + ClockSize
           ELSE IF x >= ClockSize THEN x - ClockSize ELSE x

\* Within one turn of the clock, its residue is found by one addition.
LEMMA Residue ==
  ASSUME NEW x \in Int, -ClockSize <= x, x < 2 * ClockSize
  PROVE  x % ClockSize = Wrap(x) /\ Wrap(x) \in Time
<1>1. ASSUME NEW c \in Nat, c > 0, x < 0, x >= -c
      PROVE  x % c = x + c
  BY <1>1
<1>2. ASSUME NEW c \in Nat, c > 0, x >= c, x < 2 * c
      PROVE  x % c = x - c
  BY <1>2
<1>3. ASSUME NEW c \in Nat, c > 0, 0 <= x, x < c
      PROVE  x % c = x
  BY <1>3
<1>4. ClockSize \in Nat /\ ClockSize > 0
  BY LeaseAssumption
<1>5. Wrap(x) \in Time
  BY <1>4 DEF Wrap, Time
<1>6. CASE x < 0
  BY <1>1, <1>4, <1>5, <1>6 DEF Wrap
<1>7. CASE x >= ClockSize
  BY <1>2, <1>4, <1>5, <1>7 DEF Wrap
<1>8. CASE 0 <= x /\ x < ClockSize
  BY <1>3, <1>4, <1>5, <1>8 DEF Wrap
<1> QED
  BY <1>4, <1>6, <1>7, <1>8

\* What the assumption says of the constants, one fact at a time.
LEMMA Constants ==
  /\ ClockSize \in Nat /\ ClockSize > 0
  /\ Duration \in Nat /\ Duration > 0
  /\ MaxLag \in Nat
  /\ Half \in Nat /\ 2 * Half <= ClockSize
  /\ Duration + MaxLag < Half
<1>1. ClockSize \in Nat /\ ClockSize > 0
  BY LeaseAssumption
<1>2. Duration \in Nat /\ Duration > 0 /\ MaxLag \in Nat /\ Duration + MaxLag < Half
  BY LeaseAssumption
<1>3. \A c \in Nat : c \div 2 \in Nat /\ 2 * (c \div 2) <= c
  OBVIOUS
<1>4. Half \in Nat /\ 2 * Half <= ClockSize
  BY <1>1, <1>3 DEF Half
<1> QED
  BY <1>1, <1>2, <1>4

\* Two advances of a clock, either way, are one advance by their sum.
LEMMA Shift ==
  ASSUME NEW t \in Time, NEW a \in Int, NEW b \in Int,
         -ClockSize <= a, a <= ClockSize, -ClockSize <= b, b <= ClockSize,
         -ClockSize <= a + b, a + b <= ClockSize
  PROVE  (((t + a) % ClockSize) + b) % ClockSize = (t + a + b) % ClockSize
<1> DEFINE u == (t + a) % ClockSize
<1>1. t \in Int /\ 0 <= t /\ t < ClockSize
  BY Constants DEF Time
<1>2. u = Wrap(t + a) /\ u \in Time
  BY <1>1, Residue, Constants
<1> HIDE DEF u
<1>3. (u + b) % ClockSize = Wrap(u + b) /\ Wrap(u + b) \in Time
  <2>1. u \in Int /\ 0 <= u /\ u < ClockSize
    BY <1>2, Constants DEF Time
  <2>2. u + b \in Int /\ -ClockSize <= u + b /\ u + b < 2 * ClockSize
    BY <2>1, Constants
  <2> QED BY <2>2, Residue
<1>4. (t + a + b) % ClockSize = Wrap(t + a + b) /\ Wrap(t + a + b) \in Time
  <2>1. t + a + b \in Int /\ -ClockSize <= t + a + b /\ t + a + b < 2 * ClockSize
    BY <1>1, Constants
  <2> QED BY <2>1, Residue
<1>5. Wrap(u + b) = Wrap(t + a + b)
  BY <1>1, <1>2, <1>3, <1>4, Constants DEF Wrap, Time
<1> QED
  BY <1>3, <1>4, <1>5 DEF u

\* deadline_reached is exact while the deadline is less than half a turn away.
LEMMA ReachedWithin ==
  ASSUME NEW time \in Time, NEW k \in Int, -Half < k, k < Half,
         NEW deadline, deadline = (time - k) % ClockSize
  PROVE  Reached(time, deadline) <=> k >= 0
<1>1. time \in Int /\ 0 <= time /\ time < ClockSize
  BY Constants DEF Time
<1>2. deadline = Wrap(time - k) /\ deadline \in Time
  <2>1. time - k \in Int /\ -ClockSize <= time - k /\ time - k < 2 * ClockSize
    BY <1>1, Constants
  <2> QED BY <2>1, Residue
<1>3. (time - deadline) % ClockSize = Wrap(time - deadline)
  <2>1. deadline \in Int /\ 0 <= deadline /\ deadline < ClockSize
    BY <1>2, Constants DEF Time
  <2>2. /\ time - deadline \in Int
        /\ -ClockSize <= time - deadline /\ time - deadline < 2 * ClockSize
    BY <1>1, <2>1, Constants
  <2> QED BY <2>2, Residue
<1>4. Wrap(time - deadline) = IF k >= 0 THEN k ELSE k + ClockSize
  BY <1>1, <1>2, Constants DEF Wrap, Time
<1> QED
  BY <1>3, <1>4, Constants DEF Reached

-----------------------------------------------------------------------------
(* The state, in the terms the arithmetic needs.                           *)

\* The age of the refresh that the lease stands on once a wake-up took the signal.
NewBase == IF IsFresh /\ ~IsMissed THEN age ELSE base

\* The types and bounds of the variables, one fact at a time.
LEMMA Ranges ==
  ASSUME LeaseInv
  PROVE  /\ now \in Int /\ 0 <= now /\ now < ClockSize
         /\ session \in Nat
         /\ lag \in Nat /\ lag <= MaxLag
         /\ base \in Nat
         /\ age # None => age \in Nat /\ age <= base
         /\ lease.armed => base <= Duration + MaxLag /\ base < Half
         /\ IsFresh => age # None /\ age <= MaxLag
         /\ lease = [armed |-> lease.armed, deadline |-> lease.deadline,
                     session |-> lease.session]
         /\ lease.armed \in BOOLEAN /\ lease.deadline \in Time
         /\ lease.session \in Nat
         /\ signal # None => signal.at \in Time /\ signal.session \in Nat
<1> USE DEF LeaseInv, TypeOK
<1>1. now \in Int /\ 0 <= now /\ now < ClockSize /\ session \in Nat
  BY Constants DEF Time
<1>2. lag \in Nat /\ lag <= MaxLag /\ base \in Nat
  BY Constants DEF Horizon
<1>3. age # None => age \in Nat /\ age <= base
  BY Constants DEF Horizon, LeaseStandsOnARefresh
<1>4. lease.armed => base <= Duration + MaxLag /\ base < Half
  BY <1>2, Constants DEF LeaseStandsOnARefresh
<1>5. IsFresh => age # None /\ age <= MaxLag
  BY <1>2, <1>3, Constants DEF RefreshIsRecent
<1>6. /\ lease = [armed |-> lease.armed, deadline |-> lease.deadline,
                  session |-> lease.session]
      /\ lease.armed \in BOOLEAN /\ lease.deadline \in Time
      /\ lease.session \in Nat
  OBVIOUS
<1>7. signal # None => signal.at \in Time /\ signal.session \in Nat
  BY DEF Refresh
<1> QED BY <1>1, <1>2, <1>3, <1>4, <1>5, <1>6, <1>7

\* A refresh misses the old deadline only when that lease is a Duration old.
LEMMA MissedIsOld ==
  ASSUME LeaseInv, IsMissed
  PROVE  base >= Duration
<1>1. /\ IsFresh /\ lease.armed /\ lease.session = session
      /\ Reached(signal.at, lease.deadline)
  BY DEF IsMissed, Current, Unarmed
<1>2. /\ lease.deadline = (now - base + Duration) % ClockSize
      /\ signal.at = (now - age) % ClockSize /\ signal.at \in Time
      /\ age \in Nat /\ age <= base /\ base \in Nat /\ base < Half
      /\ base <= Duration + MaxLag /\ now \in Time
  BY <1>1, Ranges
  DEF LeaseInv, TypeOK, RefreshIsRecent, LeaseStandsOnARefresh, IsFresh
<1> DEFINE k == base - age - Duration
<1>3. k \in Int /\ -Half < k /\ k < Half /\ -age \in Int /\ -k \in Int
  BY <1>2, Constants
<1>4. /\ -ClockSize <= -age /\ -age <= ClockSize
      /\ -ClockSize <= -k /\ -k <= ClockSize
      /\ -ClockSize <= -age + -k /\ -age + -k <= ClockSize
  BY <1>2, Constants
<1>5. (((now + -age) % ClockSize) + -k) % ClockSize = (now + -age + -k) % ClockSize
  <2> HIDE DEF k
  <2> QED BY <1>2, <1>3, <1>4, Shift
<1>6. now + -age = now - age /\ now + -age + -k = now - base + Duration
  BY <1>2, Ranges, Constants
<1>7. signal.at + -k = signal.at - k
  BY <1>2, <1>3 DEF Time
<1>8. lease.deadline = (signal.at - k) % ClockSize
  BY <1>2, <1>5, <1>6, <1>7
<1>9. k >= 0
  <2> HIDE DEF k
  <2> QED BY <1>1, <1>2, <1>3, <1>8, ReachedWithin
<1> QED BY <1>2, <1>9, Constants

\* The lease a wake-up would keep stands on the newest refresh it knows of.
LEMMA RefreshedStands ==
  ASSUME LeaseInv, Refreshed.armed
  PROVE  /\ Refreshed = [armed |-> TRUE, session |-> session,
                         deadline |-> (now - NewBase + Duration) % ClockSize]
         /\ Refreshed.deadline \in Time
         /\ NewBase \in Nat /\ NewBase < Half /\ NewBase <= base
<1>1. CASE IsFresh /\ ~IsMissed
  <2>1. Refreshed = [armed |-> TRUE, session |-> session,
                     deadline |-> (signal.at + Duration) % ClockSize]
    BY <1>1 DEF Refreshed
  <2>2. /\ NewBase = age /\ age \in Nat /\ age <= MaxLag /\ age <= base
        /\ signal.at = (now - age) % ClockSize /\ now \in Time /\ now \in Int
    BY <1>1, Ranges DEF NewBase, LeaseInv, TypeOK, RefreshIsRecent
  <2>3. /\ -age \in Int /\ -ClockSize <= -age /\ -age <= ClockSize
        /\ Duration \in Int /\ -ClockSize <= Duration /\ Duration <= ClockSize
        /\ -ClockSize <= -age + Duration /\ -age + Duration <= ClockSize
    BY <2>2, Constants
  <2>4. (((now + -age) % ClockSize) + Duration) % ClockSize
          = (now + -age + Duration) % ClockSize
    BY <2>2, <2>3, Shift
  <2>5. now + -age = now - age
    BY <2>2
  <2>6. (signal.at + Duration) % ClockSize = (now - NewBase + Duration) % ClockSize
    BY <2>2, <2>4, <2>5
  <2>7. now - NewBase + Duration \in Int /\ -ClockSize <= now - NewBase + Duration
        /\ now - NewBase + Duration < 2 * ClockSize
    BY <2>2, Constants, Ranges
  <2>8. (now - NewBase + Duration) % ClockSize \in Time
    BY <2>7, Residue
  <2>9. NewBase < Half
    BY <2>2, Constants
  <2> QED BY <2>1, <2>2, <2>6, <2>8, <2>9
<1>2. CASE ~(IsFresh /\ ~IsMissed)
  <2>1. Refreshed = lease /\ lease.armed /\ lease.session = session
    BY <1>2 DEF Refreshed, Current, Unarmed
  <2>2. NewBase = base
    BY <1>2 DEF NewBase
  <2> QED BY <2>1, <2>2, Ranges DEF LeaseInv, LeaseStandsOnARefresh
<1> QED BY <1>1, <1>2

\* It has expired exactly when that refresh is a Duration old, and otherwise
\* remaining_ms is what is left of the Duration.
LEMMA RefreshedExpires ==
  ASSUME LeaseInv, Refreshed.armed
  PROVE  /\ Reached(now, Refreshed.deadline) <=> NewBase >= Duration
         /\ NewBase < Duration => RemainingTime = Duration - NewBase
<1>1. /\ Refreshed.deadline = (now - NewBase + Duration) % ClockSize
      /\ NewBase \in Nat /\ NewBase < Half
      /\ now \in Time /\ now \in Int /\ 0 <= now /\ now < ClockSize
  BY RefreshedStands, Ranges DEF LeaseInv, TypeOK
<1> DEFINE k == NewBase - Duration
<1>2. k \in Int /\ -Half < k /\ k < Half /\ -k \in Int
  BY <1>1, Constants
<1>3. now - k = now - NewBase + Duration /\ now + -k = now - NewBase + Duration
  BY <1>1, Constants
<1> HIDE DEF k
<1>4. Reached(now, Refreshed.deadline) <=> k >= 0
  BY <1>1, <1>2, <1>3, ReachedWithin
<1>5. ASSUME k < 0
      PROVE  RemainingTime = -k
  <2>1. /\ -now \in Int /\ -ClockSize <= -now /\ -now <= ClockSize
        /\ -ClockSize <= -k /\ -k <= ClockSize
        /\ -ClockSize <= -k + -now /\ -k + -now <= ClockSize
    BY <1>1, <1>2, <1>5, Constants
  <2>2. (((now + -k) % ClockSize) + -now) % ClockSize = (now + -k + -now) % ClockSize
    BY <1>1, <1>2, <2>1, Shift
  <2>3. now + -k + -now = -k
    BY <1>1, <1>2
  <2>4. -k < 2 * ClockSize /\ Wrap(-k) = -k
    BY <1>2, <1>5, Constants DEF Wrap
  <2>5. (-k) % ClockSize = -k
    BY <1>2, <2>1, <2>4, Residue
  <2>6. Refreshed.deadline \in Time
    BY RefreshedStands
  <2>7. Refreshed.deadline - now = ((now + -k) % ClockSize) + -now
    BY <1>1, <1>3, <2>6 DEF Time
  <2> QED BY <2>2, <2>3, <2>5, <2>7 DEF RemainingTime
<1>6. (k >= 0 <=> NewBase >= Duration) /\ (k < 0 <=> NewBase < Duration)
      /\ -k = Duration - NewBase
  BY <1>1, Constants DEF k
<1> QED BY <1>4, <1>5, <1>6

\* A wake-up expires a lease only a full Duration after the refresh it stands on.
LEMMA ExpiredIsOld ==
  ASSUME LeaseInv, Expires
  PROVE  base >= Duration
<1>1. CASE IsMissed
  BY <1>1, MissedIsOld
<1>2. CASE ~IsMissed
  <2>1. Refreshed.armed /\ Reached(now, Refreshed.deadline)
    BY <1>2 DEF Expires
  <2>2. NewBase >= Duration /\ NewBase <= base /\ NewBase \in Nat
    BY <2>1, RefreshedExpires, RefreshedStands
  <2> QED BY <2>2, Ranges, Constants
<1> QED BY <1>1, <1>2

-----------------------------------------------------------------------------
(* The steps.                                                              *)

\* A v2 request keeps LeaseInv: its refresh covers the work it starts.
LEMMA AdmitV2Keeps ==
  ASSUME LeaseInv, AdmitV2
  PROVE  LeaseInv'
<1> USE DEF AdmitV2
<1>1. TypeOK'
  <2>1. signal' \in Refresh /\ age' \in 0 .. Horizon
    BY Constants, Ranges DEF LeaseInv, TypeOK, Refresh, Horizon
  <2>2. {guarded', leased', inTime'} \subseteq BOOLEAN
    BY DEF LeaseInv, TypeOK
  <2> QED BY <2>1, <2>2 DEF LeaseInv, TypeOK
<1>2. signal' # None /\ signal'.session = session' /\ signal'.at = now /\ IsFresh'
  <2>1. signal' \in Refresh
    BY Ranges DEF LeaseInv, TypeOK, Refresh
  <2> QED BY <2>1, LeaseAssumption DEF IsFresh
<1>3. RefreshIsRecent'
  <2>1. (now - 0) % ClockSize = now
    BY Residue, Ranges, Constants DEF Wrap
  <2>2. IsReady'
    BY <1>2 DEF IsReady
  <2>3. 0 # None
    BY LeaseAssumption
  <2> QED BY <1>2, <2>1, <2>2, <2>3, Ranges DEF RefreshIsRecent
<1>4. LeaseStandsOnARefresh'
  BY Ranges, Constants DEF LeaseInv, LeaseStandsOnARefresh
<1>5. LeasedWorkIsCovered'
  BY <1>2, LeaseAssumption DEF LeasedWorkIsCovered
<1>6. LeaseIsEnforced'
  BY LeaseAssumption, Constants DEF LeaseIsEnforced
<1> QED BY <1>1, <1>3, <1>4, <1>5, <1>6 DEF LeaseInv

\* A tick of the clock keeps LeaseInv, when the clock wraps too.
LEMMA TickKeeps ==
  ASSUME LeaseInv, Tick
  PROVE  LeaseInv'
<1> USE DEF Tick
<1>1. now' \in Time
  <2>1. now + 1 \in Int /\ -ClockSize <= now + 1 /\ now + 1 < 2 * ClockSize
    BY Ranges, Constants
  <2> QED BY <2>1, Residue
<1>2. base' \in 0 .. Horizon /\ age' \in 0 .. Horizon \cup {None}
  BY Constants, LeaseAssumption DEF LeaseInv, TypeOK, Horizon, Count
<1>3. timer' \in 0 .. Duration \cup {None} /\ (timer' = None <=> timer = None)
  BY Constants, LeaseAssumption DEF LeaseInv, TypeOK
<1>4. lag' \in 0 .. MaxLag /\ (~IsReady => lag' = 0) /\ (IsReady => lag' = lag + 1)
  BY Constants, Ranges DEF LeaseInv, TypeOK
<1>5. TypeOK'
  BY <1>1, <1>2, <1>3, <1>4 DEF LeaseInv, TypeOK
<1>6. IsFresh' = IsFresh
  BY DEF IsFresh
<1>7. age # None => age' # None /\ age' <= base' /\ (age <= MaxLag => age' = age + 1)
  BY Ranges, Constants, LeaseAssumption DEF Horizon, Count
<1>8. lease.armed => base' = base + 1
  BY Ranges, Constants DEF Horizon, Count
<1>9. \A k \in Int : k + -1 = k - 1
  OBVIOUS
<1>10. RefreshIsRecent'
  <2>1. ~IsReady' => lag' = 0
    BY <1>4, LeaseAssumption DEF IsReady
  <2>2. ASSUME IsFresh
        PROVE  age' # None /\ age' <= lag' /\ signal'.at = (now' - age') % ClockSize
    <3>1. /\ age \in Nat /\ age <= lag /\ age' = age + 1
          /\ signal.at = (now - age) % ClockSize /\ lag' = lag + 1
      BY <1>4, <1>7, <2>2, Ranges DEF LeaseInv, RefreshIsRecent, IsFresh, IsReady
    <3> DEFINE b == -age - 1
    <3>2. b \in Int /\ -ClockSize <= b /\ b <= ClockSize
          /\ -ClockSize <= 1 + b /\ 1 + b <= ClockSize
      BY <3>1, <2>2, Ranges, Constants
    <3>3. /\ now + 1 + b = now - age
          /\ now' + b = now' - age'
      BY <1>1, <3>1, Ranges DEF Time
    <3>4. (((now + 1) % ClockSize) + b) % ClockSize = (now + 1 + b) % ClockSize
      <4> HIDE DEF b
      <4> QED BY <3>2, Shift, Constants DEF LeaseInv, TypeOK
    <3>5. (now' - age') % ClockSize = (now - age) % ClockSize
      BY <3>3, <3>4
    <3> QED BY <1>7, <3>1, <3>5, Ranges
  <2> QED BY <1>6, <2>1, <2>2 DEF LeaseInv, RefreshIsRecent
<1>11. LeaseStandsOnARefresh'
  <2>1. age' # None => age' <= base'
    BY <1>7
  <2>2. ASSUME lease.armed
        PROVE  /\ lease.deadline = (now' - base' + Duration) % ClockSize
               /\ base' <= Duration + lag'
               /\ timer' = IF base' <= Duration THEN Duration - base' ELSE 0
    <3>1. /\ base \in Nat /\ base < Half /\ base' = base + 1
          /\ base <= Duration + lag /\ lag \in Nat
          /\ lease.deadline = (now - base + Duration) % ClockSize
          /\ timer = IF base <= Duration THEN Duration - base ELSE 0
          /\ now \in Int /\ now \in Time
      BY <1>8, <2>2, Ranges DEF LeaseInv, TypeOK, LeaseStandsOnARefresh
    <3> DEFINE b == Duration - base - 1
    <3>2. b \in Int /\ -ClockSize <= b /\ b <= ClockSize
          /\ -ClockSize <= 1 + b /\ 1 + b <= ClockSize
      BY <3>1, Constants
    <3>3. /\ now + 1 + b = now - base + Duration
          /\ now' + b = now' - base' + Duration
      BY <1>1, <3>1, Constants DEF Time
    <3>4. (((now + 1) % ClockSize) + b) % ClockSize = (now + 1 + b) % ClockSize
      <4> HIDE DEF b
      <4> QED BY <3>1, <3>2, Shift, Constants
    <3>5. lease.deadline = (now' - base' + Duration) % ClockSize
      BY <3>1, <3>3, <3>4
    <3>6. timer \in Nat /\ timer # None
      BY <3>1, Constants, LeaseAssumption
    <3>7. timer' = IF base' <= Duration THEN Duration - base' ELSE 0
      BY <3>1, <3>6, Constants
    <3>8. base' <= Duration + lag'
      <4>1. CASE timer = 0
        BY <1>4, <3>1, <4>1, Constants DEF IsReady
      <4>2. CASE timer # 0
        BY <1>4, <1>5, <3>1, <4>2, Constants DEF TypeOK
      <4> QED BY <4>1, <4>2
    <3> QED BY <3>5, <3>7, <3>8
  <2> QED BY <2>1, <2>2 DEF LeaseInv, LeaseStandsOnARefresh
<1>12. LeasedWorkIsCovered'
  BY <1>6, <1>7 DEF LeaseInv, LeasedWorkIsCovered
<1>13. LeaseIsEnforced'
  <2> SUFFICES ASSUME leased PROVE age' # None /\ age' <= Duration + MaxLag
    BY DEF LeaseIsEnforced
  <2>1. age # None /\ (IsFresh \/ (lease.armed /\ base = age))
    BY DEF LeaseInv, LeasedWorkIsCovered
  <2>2. CASE IsFresh
    BY <1>5, <1>6, <1>10, <2>2, Ranges, Constants, LeaseAssumption
    DEF RefreshIsRecent, TypeOK, Horizon
  <2>3. CASE lease.armed /\ base = age
    BY <1>5, <1>7, <1>11, <2>1, <2>3, Constants
    DEF LeaseStandsOnARefresh, TypeOK, Horizon
  <2> QED BY <2>1, <2>2, <2>3
<1> QED BY <1>5, <1>10, <1>11, <1>12, <1>13 DEF LeaseInv

\* The disarmed lease has the type of a lease.
LEMMA UnarmedIsALease ==
  Unarmed \in [armed: BOOLEAN, deadline: Time, session: Nat] /\ ~Unarmed.armed
<1>1. 0 \in Time
  BY Constants DEF Time
<1> QED BY <1>1 DEF Unarmed

\* A wake-up of lease_task keeps the types.
LEMMA WakeKeepsTypes ==
  ASSUME LeaseInv, LeaseWakes
  PROVE  TypeOK'
<1>1. /\ signal' = None /\ lag' = 0 /\ inTime' = FALSE /\ guarded' = guarded
      /\ now' = now /\ base' = NewBase
  BY DEF LeaseWakes, NewBase
<1>2. base' \in 0 .. Horizon
  BY <1>1, Ranges, LeaseAssumption DEF LeaseInv, TypeOK, NewBase
<1>3. 0 \in 0 .. MaxLag
  BY Constants
<1>4. CASE Expires
  <2>1. /\ lease' = Unarmed /\ timer' = None
        /\ session' \in Nat /\ age' \in 0 .. Horizon \cup {None} /\ leased' \in BOOLEAN
    BY <1>4 DEF LeaseWakes, LeaseInv, TypeOK
  <2>2. lease' \in [armed: BOOLEAN, deadline: Time, session: Nat] /\ ~lease'.armed
    BY <2>1, UnarmedIsALease
  <2> QED BY <1>1, <1>2, <1>3, <2>1, <2>2 DEF LeaseInv, TypeOK
<1>5. CASE ~Expires
  <2>1. /\ lease' = Refreshed
        /\ timer' = IF Refreshed.armed THEN RemainingTime ELSE None
        /\ UNCHANGED <<session, age, leased>>
    BY <1>5 DEF LeaseWakes
  <2>2. CASE Refreshed.armed
    <3>1. NewBase \in Nat /\ NewBase < Duration /\ RemainingTime = Duration - NewBase
      BY <1>5, <2>2, RefreshedStands, RefreshedExpires, Constants DEF Expires
    <3>2. timer' \in 0 .. Duration /\ timer' # None
      BY <2>1, <2>2, <3>1, Constants, LeaseAssumption
    <3>3. lease' \in [armed: BOOLEAN, deadline: Time, session: Nat] /\ lease'.armed
      <4> DEFINE deadline == (now - NewBase + Duration) % ClockSize
      <4>1. lease' = [armed |-> TRUE, session |-> session, deadline |-> deadline]
            /\ lease'.deadline \in Time /\ session \in Nat
        BY <2>1, <2>2, RefreshedStands, Ranges
      <4> HIDE DEF deadline
      <4> QED BY <4>1
    <3> QED BY <1>1, <1>2, <1>3, <2>1, <3>2, <3>3 DEF LeaseInv, TypeOK
  <2>3. CASE ~Refreshed.armed
    <3>1. Refreshed = lease \/ Refreshed = Unarmed
      BY <2>3 DEF Refreshed, Current
    <3>2. lease' \in [armed: BOOLEAN, deadline: Time, session: Nat] /\ ~lease'.armed
      BY <2>1, <2>3, <3>1, UnarmedIsALease DEF LeaseInv, TypeOK
    <3> QED BY <1>1, <1>2, <1>3, <2>1, <2>3, <3>2 DEF LeaseInv, TypeOK
  <2> QED BY <2>2, <2>3
<1> QED BY <1>4, <1>5

\* A wake-up of lease_task keeps LeaseInv.
LEMMA WakeKeeps ==
  ASSUME LeaseInv, LeaseWakes
  PROVE  LeaseInv'
<1>1. /\ signal' = None /\ lag' = 0 /\ guarded' = guarded
      /\ now' = now /\ base' = NewBase
  BY DEF LeaseWakes, NewBase
<1>2. TypeOK'
  BY WakeKeepsTypes
<1>3. ~IsFresh'
  BY <1>1 DEF IsFresh
<1>4. RefreshIsRecent'
  BY <1>1, <1>3 DEF RefreshIsRecent
<1>5. age' # None => age' = age /\ age' <= base'
  BY <1>1, Ranges DEF LeaseWakes, NewBase
<1>6. leased => guarded /\ (IsFresh \/ (lease.armed /\ lease.session = session /\ base = age))
  BY DEF LeaseInv, LeasedWorkIsCovered
<1>7. CASE Expires
  <2>1. ~lease'.armed
    BY <1>7, UnarmedIsALease DEF LeaseWakes
  <2>2. ~leased'
    BY <1>6, <1>7 DEF LeaseWakes
  <2> QED BY <1>2, <1>4, <1>5, <2>1, <2>2
    DEF LeaseInv, LeaseStandsOnARefresh, LeasedWorkIsCovered, LeaseIsEnforced
<1>8. CASE ~Expires
  <2>1. /\ lease' = Refreshed
        /\ timer' = IF Refreshed.armed THEN RemainingTime ELSE None
        /\ UNCHANGED <<session, age, leased>>
    BY <1>8 DEF LeaseWakes
  <2>2. ASSUME Refreshed.armed
        PROVE  /\ lease'.session = session
               /\ lease'.deadline = (now' - base' + Duration) % ClockSize
               /\ base' \in Nat /\ base' < Duration /\ timer' = Duration - base'
    BY <1>1, <1>8, <2>1, <2>2, RefreshedStands, RefreshedExpires, Constants DEF Expires
  <2>3. LeaseStandsOnARefresh'
    BY <1>1, <1>5, <2>1, <2>2, Ranges, Constants DEF LeaseStandsOnARefresh
  <2>4. ASSUME leased
        PROVE  Refreshed.armed /\ base' = age
    <3>1. CASE IsFresh
      BY <1>1, <1>8, <3>1 DEF Expires, Refreshed, NewBase
    <3>2. CASE ~IsFresh
      BY <1>1, <1>6, <2>4, <3>2 DEF Refreshed, Current, NewBase
    <3> QED BY <3>1, <3>2
  <2>5. LeasedWorkIsCovered'
    BY <1>1, <1>6, <2>1, <2>2, <2>4 DEF LeaseInv, LeasedWorkIsCovered
  <2>6. LeaseIsEnforced'
    BY <1>1, <1>6, <2>1, <2>2, <2>4, Constants DEF LeaseInv, LeasedWorkIsCovered, LeaseIsEnforced
  <2> QED BY <1>2, <1>4, <2>3, <2>5, <2>6 DEF LeaseInv
<1> QED BY <1>7, <1>8

\* The other steps of the dispatcher and of the sessions keep LeaseInv.
LEMMA DispatcherKeeps ==
  ASSUME LeaseInv, AdmitV1 \/ WorkEnds \/ NewSession \/ UNCHANGED vars
  PROVE  LeaseInv'
<1> USE DEF LeaseInv
<1>1. CASE AdmitV1
  BY <1>1 DEF AdmitV1, TypeOK, RefreshIsRecent, IsReady, IsFresh,
    LeaseStandsOnARefresh, LeasedWorkIsCovered, LeaseIsEnforced
<1>2. CASE WorkEnds
  BY <1>2 DEF WorkEnds, TypeOK, RefreshIsRecent, IsReady, IsFresh,
    LeaseStandsOnARefresh, LeasedWorkIsCovered, LeaseIsEnforced
<1>3. CASE NewSession
  <2>1. TypeOK'
    <3>1. session' \in Nat
      BY <1>3, Ranges DEF NewSession
    <3>2. {guarded', leased', inTime'} \subseteq BOOLEAN
      BY <1>3 DEF NewSession, TypeOK
    <3> QED BY <1>3, <3>1, <3>2 DEF NewSession, TypeOK
  <2>2. ~IsFresh' /\ RefreshIsRecent'
    BY <1>3, Ranges DEF NewSession, RefreshIsRecent, IsReady, IsFresh
  <2>3. LeaseStandsOnARefresh'
    BY <1>3, Ranges DEF NewSession, LeaseStandsOnARefresh
  <2>4. LeasedWorkIsCovered' /\ LeaseIsEnforced'
    BY <1>3 DEF NewSession, LeasedWorkIsCovered, LeaseIsEnforced
  <2> QED BY <2>1, <2>2, <2>3, <2>4
<1>4. CASE UNCHANGED vars
  BY <1>4 DEF vars, TypeOK, RefreshIsRecent, IsReady, IsFresh,
    LeaseStandsOnARefresh, LeasedWorkIsCovered, LeaseIsEnforced
<1> QED BY <1>1, <1>2, <1>3, <1>4

\* lease_task releases, in time, the work whose v2 controller fell silent: work
\* that such a controller started or confirmed stays guarded no longer than the
\* lease and one late wake-up after its last request.
THEOREM LeaseInvariant == Spec => []LeaseInv
<1>1. Init => LeaseInv
  <2> SUFFICES ASSUME Init PROVE LeaseInv
    OBVIOUS
  <2>1. lease \in [armed: BOOLEAN, deadline: Time, session: Nat] /\ ~lease.armed
    BY UnarmedIsALease DEF Init
  <2>2. {guarded, leased, inTime} \subseteq BOOLEAN /\ session \in Nat
    BY DEF Init
  <2>3. 0 \in 0 .. MaxLag /\ 0 \in 0 .. Horizon
    BY Constants DEF Horizon
  <2>4. TypeOK
    BY <2>1, <2>2, <2>3 DEF Init, TypeOK
  <2> QED BY <2>1, <2>4 DEF Init, LeaseInv, RefreshIsRecent, IsFresh, Unarmed,
    LeaseStandsOnARefresh, LeasedWorkIsCovered, LeaseIsEnforced
<1>2. LeaseInv /\ [Next]_vars => LeaseInv'
  BY AdmitV2Keeps, TickKeeps, WakeKeeps, DispatcherKeeps DEF Next
<1> QED BY <1>1, <1>2, PTL DEF Spec

\* RuntimeLease::transition ends a session with guarded work only when the
\* refresh its lease stands on is a whole lease old, on every wrap of the clock.
THEOREM LeaseIsNeverCutShort == Spec => LeaseRunsItsCourse
<1>1. ASSUME LeaseInv, [Next]_vars
      PROVE  [LeaseWakes /\ session' # session => base >= Duration]_vars
  <2> SUFFICES ASSUME LeaseWakes, session' # session PROVE base >= Duration
    OBVIOUS
  <2>1. Expires
    BY DEF LeaseWakes
  <2> QED BY <1>1, <2>1, ExpiredIsOld
<1> QED BY <1>1, LeaseInvariant, PTL DEF Spec, LeaseRunsItsCourse
=============================================================================
