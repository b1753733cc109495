------------------------- MODULE AuthLimiterProofs --------------------------
(***************************************************************************)
(* Proofs about AuthLimiter, for any callers and keys, any limits and      *)
(* window, and any delay between a reading of the clock and the mutex.     *)
(***************************************************************************)
EXTENDS AuthLimiter, Integers, FiniteSetTheorems, TLAPS

Admissions == [now : Times, nr : Nat]
Counters == [count : Nat, reset : Nat]

Types ==
    /\ clock \in Times
    /\ windows \in [Keys -> {None} \cup Counters]
    /\ nextGC \in Nat
    /\ attempt \in [Callers -> {None} \cup [now : Times, keys : SUBSET Keys]]
    /\ allowed \in [Keys -> SUBSET Admissions]

\* No reading is later than the clock, none is older than MaxDelay.
Fresh(now, time) == now <= time /\ time <= now + MaxDelay

Readings == \A c \in Callers : attempt[c] # None => Fresh(attempt[c].now, clock)

SameReading(admitted, now) == {a \in admitted : a.now = now}

\* The next number of a reading is free.
Numbered(admitted) ==
    /\ IsFiniteSet(admitted)
    /\ \A a \in admitted : a.nr <= Cardinality(SameReading(admitted, a.now))

\* How far apart the readings of attempts are that are limited together.
Stretch == Window - 2 * MaxDelay

\* What may lie in one stretch with a reading that is still to come.
Recent(admitted, time) == {a \in admitted : time <= a.now + Stretch + MaxDelay}

\* Recent attempts were counted in the window of the key or in the one before.
\* Those of the one before have readings before this one began, give or take the
\* delay; without a window, what is recent was counted in the last one.
Accounted(w, admitted, time, limit) ==
    IF w = None
    THEN /\ Cardinality(Recent(admitted, time)) <= limit
         /\ \A a \in Recent(admitted, time) : a.now < time
    ELSE /\ w.count <= limit
         /\ \E counted \in SUBSET admitted :
               /\ Cardinality(counted) = w.count
               /\ \A a \in counted : a.now < w.reset
               /\ Cardinality(Recent(admitted, time) \ counted) <= limit
               /\ \A a \in Recent(admitted, time) \ counted :
                     a.now < w.reset - Window + MaxDelay

Limited(admitted, limit) ==
    \A t \in Times : Cardinality(During(admitted, t, Stretch)) <= 2 * limit

Inductive ==
    /\ Types
    /\ Readings
    /\ \A k \in Keys :
          /\ Numbered(allowed[k])
          /\ Accounted(windows[k], allowed[k], clock, Limit(k))
          /\ Limited(allowed[k], Limit(k))

-----------------------------------------------------------------------------
(***************************************************************************)
(* Lemmas about the records of attempts.                                   *)
(***************************************************************************)

(* The limits are positive, and no window is None. *)
LEMMA Constants ==
    ASSUME LimiterConstants
    PROVE  /\ \A k \in Keys : Limit(k) \in Nat \ {0}
           /\ Window \in Nat \ {0}
           /\ MaxDelay \in Nat
           /\ MaxTime \in Nat \ {0}
           /\ Times \subseteq Nat
           /\ Stretch \in Int
           /\ None \notin Counters
  BY DEF LimiterConstants, Limit, Keys, Times, Stretch, Counters

(* An attempt that is let through gets a record of its own. *)
LEMMA AdmissionIsNew ==
    ASSUME LimiterConstants,
           NEW k \in Keys, NEW now \in Times,
           allowed[k] \subseteq Admissions, Numbered(allowed[k])
    PROVE  /\ Admission(k, now) \in Admissions
           /\ Admission(k, now).now = now
           /\ Admission(k, now) \notin allowed[k]
           /\ Numbered(allowed[k] \cup {Admission(k, now)})
<1> DEFINE A == allowed[k]
           x == Admission(k, now)
           same == SameReading(A, now)
<1>1. IsFiniteSet(same) /\ Cardinality(same) \in Nat
  BY FS_Subset, FS_CardinalityType DEF Numbered, SameReading
<1>2. x = [now |-> now, nr |-> Cardinality(same) + 1]
  BY DEF Admission, SameReading
<1>3. x \in Admissions /\ x.now = now /\ x.nr = Cardinality(same) + 1
  BY <1>1, <1>2 DEF Admissions
<1>4. \A a \in A : a \in Admissions /\ a.nr \in Nat
  BY DEF Admissions
<1> HIDE DEF x
<1>5. x \notin A
  <2>1. SUFFICES ASSUME x \in A PROVE FALSE
    OBVIOUS
  <2>2. x.nr <= Cardinality(same)
    BY <1>3, <2>1 DEF Numbered
  <2>3. QED
    BY <1>1, <1>3, <2>2
<1>6. IsFiniteSet(A \cup {x})
  BY FS_AddElement DEF Numbered
<1>7. ASSUME NEW a \in A \cup {x}
      PROVE  a.nr <= Cardinality(SameReading(A \cup {x}, a.now))
  <2>1. CASE a.now = now
    <3>1. SameReading(A \cup {x}, a.now) = same \cup {x} /\ x \notin same
      BY <1>3, <1>5, <2>1 DEF SameReading
    <3> HIDE DEF same
    <3>2. Cardinality(same \cup {x}) = Cardinality(same) + 1
      BY <1>1, <3>1, FS_AddElement
    <3>3. CASE a = x
      BY <1>1, <1>3, <3>1, <3>2, <3>3
    <3>4. CASE a # x
      <4>1. a \in A /\ a.nr \in Nat
        BY <1>4, <3>4
      <4>2. a.nr <= Cardinality(SameReading(A, a.now))
        BY <4>1 DEF Numbered
      <4>3. a.nr <= Cardinality(same)
        BY <2>1, <4>2 DEF same
      <4>4. QED
        BY <1>1, <3>1, <3>2, <4>1, <4>3
    <3>5. QED
      BY <3>3, <3>4
  <2>2. CASE a.now # now
    <3>1. SameReading(A \cup {x}, a.now) = SameReading(A, a.now) /\ a \in A
      BY <1>3, <2>2 DEF SameReading
    <3>2. QED
      BY <3>1 DEF Numbered
  <2>3. QED
    BY <2>1, <2>2
<1>8. QED
  BY <1>3, <1>5, <1>6, <1>7 DEF Numbered, x

(* A part of a finite set is no larger. *)
LEMMA PartIsNotLarger ==
    ASSUME NEW S, IsFiniteSet(S), NEW T, T \subseteq S
    PROVE  /\ IsFiniteSet(T)
           /\ Cardinality(T) \in Nat
           /\ Cardinality(S) \in Nat
           /\ Cardinality(T) <= Cardinality(S)
<1>1. T \in SUBSET S
  OBVIOUS
<1>2. QED
  BY <1>1, FS_Subset, FS_CardinalityType

(* What is recent is a finite part of the attempts. *)
LEMMA RecentIsFinite ==
    ASSUME NEW admitted, IsFiniteSet(admitted), NEW time, NEW counted
    PROVE  /\ IsFiniteSet(Recent(admitted, time))
           /\ Cardinality(Recent(admitted, time)) \in Nat
           /\ IsFiniteSet(Recent(admitted, time) \ counted)
           /\ Cardinality(Recent(admitted, time) \ counted) \in Nat
<1>1. Recent(admitted, time) \in SUBSET admitted
  BY DEF Recent
<1>2. Recent(admitted, time) \ counted \in SUBSET admitted
  BY <1>1
<1>3. QED
  BY <1>1, <1>2, FS_Subset, FS_CardinalityType

-----------------------------------------------------------------------------
(***************************************************************************)
(* How the windows account for the recent attempts.                        *)
(***************************************************************************)

(* Time only makes attempts less recent. *)
LEMMA TickKeepsAccounts ==
    ASSUME LimiterConstants,
           NEW w \in {None} \cup Counters, NEW admitted \in SUBSET Admissions,
           IsFiniteSet(admitted), NEW time \in Nat, NEW limit \in Nat,
           Accounted(w, admitted, time, limit)
    PROVE  Accounted(w, admitted, time + 1, limit)
<1>1. Recent(admitted, time + 1) \subseteq Recent(admitted, time)
  BY Constants DEF Recent, Admissions
<1>2. CASE w = None
  <2>1. Cardinality(Recent(admitted, time + 1)) <= Cardinality(Recent(admitted, time))
    BY <1>1, RecentIsFinite, PartIsNotLarger
  <2>2. Cardinality(Recent(admitted, time + 1)) <= limit
    <3>1. Cardinality(Recent(admitted, time)) <= limit
      BY <1>2 DEF Accounted
    <3>2. /\ Cardinality(Recent(admitted, time)) \in Nat
          /\ Cardinality(Recent(admitted, time + 1)) \in Nat
      BY RecentIsFinite
    <3>3. QED
      BY <2>1, <3>1, <3>2
  <2>3. \A a \in Recent(admitted, time + 1) : a.now < time + 1
    BY <1>1, <1>2, Constants DEF Accounted, Recent, Admissions
  <2>4. QED
    BY <1>2, <2>2, <2>3 DEF Accounted
<1>3. CASE w # None
  <2>1. PICK counted \in SUBSET admitted :
           /\ Cardinality(counted) = w.count
           /\ \A a \in counted : a.now < w.reset
           /\ Cardinality(Recent(admitted, time) \ counted) <= limit
           /\ \A a \in Recent(admitted, time) \ counted : a.now < w.reset - Window + MaxDelay
    BY <1>3 DEF Accounted
  <2>2. Recent(admitted, time + 1) \ counted \subseteq Recent(admitted, time) \ counted
    BY <1>1
  <2>3. Cardinality(Recent(admitted, time + 1) \ counted)
           <= Cardinality(Recent(admitted, time) \ counted)
    BY <2>2, RecentIsFinite, PartIsNotLarger
  <2>4. Cardinality(Recent(admitted, time + 1) \ counted) <= limit
    <3>1. /\ Cardinality(Recent(admitted, time) \ counted) \in Nat
          /\ Cardinality(Recent(admitted, time + 1) \ counted) \in Nat
      BY RecentIsFinite
    <3>2. QED
      BY <2>1, <2>3, <3>1
  <2>5. QED
    BY <1>3, <2>1, <2>2, <2>4 DEF Accounted
<1>4. QED
  BY <1>2, <1>3

(* When a reading finds a window expired, what is recent was counted in it. *)
LEMMA ExpiredHoldsTheRecent ==
    ASSUME LimiterConstants,
           NEW w \in Counters, NEW admitted \in SUBSET Admissions, IsFiniteSet(admitted),
           NEW time \in Nat, NEW limit \in Nat, Accounted(w, admitted, time, limit),
           w.reset <= time
    PROVE  /\ Cardinality(Recent(admitted, time)) <= limit
           /\ \A a \in Recent(admitted, time) : a.now < w.reset
<1>1. w # None
  BY Constants
<1>2. PICK counted \in SUBSET admitted :
           /\ Cardinality(counted) = w.count
           /\ \A a \in counted : a.now < w.reset
           /\ Cardinality(Recent(admitted, time) \ counted) <= limit
           /\ \A a \in Recent(admitted, time) \ counted : a.now < w.reset - Window + MaxDelay
  BY <1>1 DEF Accounted
<1>3. w.count <= limit /\ w.count \in Nat /\ w.reset \in Nat
  BY <1>1 DEF Accounted, Counters
<1>4. ASSUME NEW a \in Recent(admitted, time), a \notin counted
      PROVE  FALSE
  <2>1. a.now < w.reset - Window + MaxDelay /\ time <= a.now + Stretch + MaxDelay /\ a.now \in Nat
    BY <1>2, <1>4, Constants DEF Recent, Admissions
  <2>2. QED
    BY <1>3, <2>1, Constants DEF Stretch
<1>5. Recent(admitted, time) \subseteq counted
  BY <1>4
<1>6. IsFiniteSet(counted)
  BY FS_Subset
<1>7. Cardinality(Recent(admitted, time)) <= w.count
  BY <1>2, <1>5, <1>6, PartIsNotLarger
<1>8. Cardinality(Recent(admitted, time)) \in Nat
  BY RecentIsFinite
<1>9. Cardinality(Recent(admitted, time)) <= limit
  BY <1>3, <1>7, <1>8
<1>10. QED
  BY <1>2, <1>5, <1>9

(* The collection of expired windows loses no account of recent attempts. *)
LEMMA SweepKeepsAccounts ==
    ASSUME LimiterConstants,
           NEW w \in Counters, NEW admitted \in SUBSET Admissions, IsFiniteSet(admitted),
           NEW time \in Nat, NEW limit \in Nat, Accounted(w, admitted, time, limit),
           w.reset <= time
    PROVE  Accounted(None, admitted, time, limit)
<1>1. /\ Cardinality(Recent(admitted, time)) <= limit
      /\ \A a \in Recent(admitted, time) : a.now < w.reset
  BY ExpiredHoldsTheRecent
<1>2. w.reset \in Nat /\ \A a \in Recent(admitted, time) : a.now \in Nat
  BY Constants DEF Recent, Admissions, Counters
<1>3. \A a \in Recent(admitted, time) : a.now < time
  BY <1>1, <1>2
<1>4. QED
  BY <1>1, <1>3 DEF Accounted

(* A window that an attempt is counted in, or that it begins, accounts for it. *)
LEMMA CountingKeepsAccounts ==
    ASSUME LimiterConstants,
           NEW w \in {None} \cup Counters, NEW admitted \in SUBSET Admissions,
           IsFiniteSet(admitted), NEW time \in Nat, NEW limit \in Nat \ {0},
           Accounted(w, admitted, time, limit),
           NEW x \in Admissions \ admitted, Fresh(x.now, time),
           ~(Live(w, x.now) /\ w.count >= limit)
    PROVE  /\ Counted(w, x.now) \in Counters
           /\ Accounted(Counted(w, x.now), admitted \cup {x}, time, limit)
<1> DEFINE now == x.now
           v == Counted(w, now)
           B == admitted \cup {x}
<1>1. now \in Nat /\ now <= time /\ time <= now + MaxDelay
  BY Constants DEF Admissions, Fresh
<1>2. Recent(B, time) \subseteq Recent(admitted, time) \cup {x}
  BY DEF Recent
<1>3. CASE Live(w, now)
  <2>1. /\ v = [w EXCEPT !.count = w.count + 1]
        /\ w # None /\ w \in Counters /\ w.reset > now /\ w.count < limit
    BY <1>3, Constants DEF Counted, Live, Counters
  <2>2. v \in Counters /\ v.count = w.count + 1 /\ v.reset = w.reset
    BY <2>1 DEF Counters
  <2>3. PICK counted \in SUBSET admitted :
           /\ Cardinality(counted) = w.count
           /\ \A a \in counted : a.now < w.reset
           /\ Cardinality(Recent(admitted, time) \ counted) <= limit
           /\ \A a \in Recent(admitted, time) \ counted : a.now < w.reset - Window + MaxDelay
    BY <2>1 DEF Accounted
  <2> DEFINE more == counted \cup {x}
  <2>4. IsFiniteSet(counted)
    BY FS_Subset
  <2>5. Cardinality(more) = w.count + 1
    BY <2>3, <2>4, FS_AddElement
  <2>6. Recent(B, time) \ more = Recent(admitted, time) \ counted
    BY DEF Recent
  <2>7. \A a \in more : a.now < w.reset
    BY <1>1, <2>1, <2>3
  <2>8. v.count <= limit
    BY <2>1, <2>2 DEF Counters
  <2>9. v # None
    BY <2>2, Constants
  <2>10. /\ more \in SUBSET B
         /\ Cardinality(more) = v.count
         /\ \A a \in more : a.now < v.reset
         /\ Cardinality(Recent(B, time) \ more) <= limit
         /\ \A a \in Recent(B, time) \ more : a.now < v.reset - Window + MaxDelay
    BY <2>2, <2>3, <2>5, <2>6, <2>7
  <2> HIDE DEF v, B, more
  <2>11. Accounted(v, B, time, limit)
    BY <2>8, <2>9, <2>10 DEF Accounted
  <2>12. QED
    BY <2>2, <2>11 DEF v, B
<1>4. CASE ~Live(w, now)
  <2>1. v = [count |-> 1, reset |-> now + Window]
    BY <1>4 DEF Counted
  <2>2. v \in Counters /\ v.count = 1 /\ v.reset = now + Window
    BY <1>1, <2>1, Constants DEF Counters
  <2>3. /\ Cardinality(Recent(admitted, time)) <= limit
        /\ \A a \in Recent(admitted, time) : a.now < now + MaxDelay
    <3>1. CASE w = None
      <4>1. /\ Cardinality(Recent(admitted, time)) <= limit
            /\ \A a \in Recent(admitted, time) : a.now < time
        BY <3>1 DEF Accounted
      <4>2. QED
        BY <1>1, <4>1, Constants DEF Recent, Admissions
    <3>2. CASE w # None
      <4>1. w \in Counters /\ w.reset <= now /\ w.reset \in Nat
        BY <1>1, <1>4, <3>2 DEF Live, Counters
      <4>2. w.reset <= time
        BY <1>1, <4>1
      <4>3. /\ Cardinality(Recent(admitted, time)) <= limit
            /\ \A a \in Recent(admitted, time) : a.now < w.reset
        BY <4>1, <4>2, ExpiredHoldsTheRecent
      <4>4. QED
        BY <1>1, <4>1, <4>3, Constants DEF Recent, Admissions
    <3>3. QED
      BY <3>1, <3>2
  <2>4. Recent(B, time) \ {x} = Recent(admitted, time)
    BY DEF Recent
  <2> HIDE DEF v
  <2>5. Cardinality({x}) = 1
    BY FS_Singleton
  <2>6. \A a \in Recent(B, time) \ {x} : a.now < v.reset - Window + MaxDelay
    BY <1>1, <2>2, <2>3, <2>4, Constants
  <2>7. v # None
    BY <2>2, Constants
  <2>8. /\ {x} \in SUBSET B
        /\ Cardinality({x}) = v.count
        /\ \A a \in {x} : a.now < v.reset
        /\ Cardinality(Recent(B, time) \ {x}) <= limit
    <3>1. now < now + Window
      BY <1>1, Constants
    <3>2. QED
      BY <2>2, <2>3, <2>4, <2>5, <3>1
  <2>9. v.count <= limit
    BY <2>2
  <2> HIDE DEF B
  <2>10. Accounted(v, B, time, limit)
    BY <2>6, <2>7, <2>8, <2>9 DEF Accounted
  <2>11. QED
    BY <2>2, <2>10 DEF v, B
<1>5. QED
  BY <1>3, <1>4

(* A stretch around an attempt just counted holds no more than two windows do. *)
LEMMA StretchOfTwoWindows ==
    ASSUME LimiterConstants,
           NEW w \in Counters, NEW admitted \in SUBSET Admissions, IsFiniteSet(admitted),
           NEW time \in Nat, NEW limit \in Nat, Accounted(w, admitted, time, limit),
           NEW now \in Nat, Fresh(now, time),
           NEW t \in Nat, t <= now, now <= t + Stretch
    PROVE  Cardinality(During(admitted, t, Stretch)) <= 2 * limit
<1>1. w # None
  BY Constants
<1>2. PICK counted \in SUBSET admitted :
           /\ Cardinality(counted) = w.count
           /\ Cardinality(Recent(admitted, time) \ counted) <= limit
  BY <1>1 DEF Accounted
<1> DEFINE before == Recent(admitted, time) \ counted
<1>3. During(admitted, t, Stretch) \subseteq Recent(admitted, time)
  BY Constants DEF During, Recent, Fresh, Admissions
<1>4. During(admitted, t, Stretch) \subseteq counted \cup before
  BY <1>3
<1>5. IsFiniteSet(counted) /\ Cardinality(counted) \in Nat /\ Cardinality(counted) <= limit
  BY <1>1, <1>2, FS_Subset, FS_CardinalityType DEF Accounted
<1>6. IsFiniteSet(before) /\ Cardinality(before) \in Nat /\ Cardinality(before) <= limit
  BY <1>2, RecentIsFinite
<1> HIDE DEF before
<1>7. /\ IsFiniteSet(counted \cup before)
      /\ Cardinality(counted \cup before)
            = Cardinality(counted) + Cardinality(before) - Cardinality(counted \cap before)
  BY <1>5, <1>6, FS_Union
<1>8. Cardinality(counted \cap before) \in Nat
  BY <1>5, FS_Intersection, FS_CardinalityType
<1>9. Cardinality(counted \cup before) <= 2 * limit
  BY <1>5, <1>6, <1>7, <1>8
<1>10. /\ IsFiniteSet(During(admitted, t, Stretch))
       /\ Cardinality(During(admitted, t, Stretch)) <= Cardinality(counted \cup before)
  BY <1>4, <1>7, FS_Subset
<1>11. QED
  BY <1>7, <1>9, <1>10, FS_CardinalityType

-----------------------------------------------------------------------------
(***************************************************************************)
(* The invariant.                                                          *)
(***************************************************************************)

\* What holds of one key.
Sound(w, admitted, time, limit) ==
    /\ Numbered(admitted)
    /\ Accounted(w, admitted, time, limit)
    /\ Limited(admitted, limit)

(* Nothing is recent before the first attempt. *)
LEMMA InitiallyInductive ==
    ASSUME LimiterConstants, Init
    PROVE  Inductive
<1>1. Types
  BY Constants DEF Init, Types, Times
<1>2. Readings
  BY DEF Init, Readings
<1>3. ASSUME NEW k \in Keys
      PROVE  Sound(windows[k], allowed[k], clock, Limit(k))
  <2>1. windows[k] = None /\ allowed[k] = {}
    BY DEF Init
  <2>2. Numbered({})
    BY FS_EmptySet DEF Numbered
  <2>3. Recent({}, clock) = {} /\ \A t \in Times : During({}, t, Stretch) = {}
    BY DEF Recent, During
  <2>4. Cardinality({}) = 0
    BY FS_EmptySet
  <2>5. Accounted(None, {}, clock, Limit(k))
    BY <2>3, <2>4, Constants DEF Accounted
  <2>6. Limited({}, Limit(k))
    BY <2>3, <2>4, Constants DEF Limited
  <2>7. QED
    BY <2>1, <2>2, <2>5, <2>6 DEF Sound
<1>4. QED
  BY <1>1, <1>2, <1>3 DEF Inductive, Sound

(* The sweep of an attempt leaves windows that account for the same attempts. *)
LEMMA SweptIsSound ==
    ASSUME LimiterConstants, Inductive, NEW now \in Nat, now <= clock, NEW k \in Keys
    PROVE  /\ Swept(now) \in [Keys -> {None} \cup Counters]
           /\ Sound(Swept(now)[k], allowed[k], clock, Limit(k))
<1>1. /\ windows \in [Keys -> {None} \cup Counters]
      /\ allowed[k] \in SUBSET Admissions
      /\ clock \in Nat
      /\ IsFiniteSet(allowed[k])
      /\ Sound(windows[k], allowed[k], clock, Limit(k))
  BY Constants DEF Inductive, Types, Sound, Numbered
<1>2. Swept(now) \in [Keys -> {None} \cup Counters]
  BY <1>1 DEF Swept
<1>3. Swept(now)[k] = windows[k] \/ (Swept(now)[k] = None /\ Expired(windows[k], now))
  BY DEF Swept
<1>4. CASE Swept(now)[k] = windows[k]
  BY <1>1, <1>2, <1>4
<1>5. CASE Swept(now)[k] = None /\ Expired(windows[k], now)
  <2>1. windows[k] \in Counters /\ windows[k].reset \in Nat /\ windows[k].reset <= clock
    BY <1>1, <1>5 DEF Expired, Counters
  <2>2. Accounted(None, allowed[k], clock, Limit(k))
    BY <1>1, <2>1, Constants, SweepKeepsAccounts DEF Sound
  <2>3. QED
    BY <1>1, <1>2, <1>5, <2>2 DEF Sound
<1>6. QED
  BY <1>3, <1>4, <1>5

(* An attempt that no window of its keys denies leaves each of them sound. *)
LEMMA AdmittingIsSound ==
    ASSUME LimiterConstants,
           NEW w \in {None} \cup Counters, NEW k \in Keys, NEW now \in Times,
           allowed[k] \in SUBSET Admissions, clock \in Nat,
           Sound(w, allowed[k], clock, Limit(k)), Fresh(now, clock),
           ~(Live(w, now) /\ w.count >= Limit(k))
    PROVE  /\ Counted(w, now) \in Counters
           /\ allowed[k] \cup {Admission(k, now)} \in SUBSET Admissions
           /\ Sound(Counted(w, now), allowed[k] \cup {Admission(k, now)}, clock, Limit(k))
<1> DEFINE x == Admission(k, now)
           B == allowed[k] \cup {x}
           v == Counted(w, now)
<1>1. /\ x \in Admissions \ allowed[k]
      /\ x.now = now
      /\ Numbered(B)
  BY AdmissionIsNew DEF Sound
<1>2. IsFiniteSet(allowed[k]) /\ IsFiniteSet(B) /\ B \in SUBSET Admissions
  BY <1>1 DEF Sound, Numbered
<1> HIDE DEF x
<1>3. v \in Counters /\ Accounted(v, B, clock, Limit(k))
  BY <1>1, <1>2, Constants, CountingKeepsAccounts DEF Sound
<1>4. ASSUME NEW t \in Times
      PROVE  Cardinality(During(B, t, Stretch)) <= 2 * Limit(k)
  <2>1. CASE t <= now /\ now <= t + Stretch
    <3>1. t \in Nat /\ now \in Nat
      BY Constants
    <3>2. QED
      BY <1>2, <1>3, <2>1, <3>1, Constants, StretchOfTwoWindows
  <2>2. CASE ~(t <= now /\ now <= t + Stretch)
    <3>1. During(B, t, Stretch) = During(allowed[k], t, Stretch)
      BY <1>1, <2>2 DEF During
    <3>2. QED
      BY <3>1 DEF Sound, Limited
  <2>3. QED
    BY <2>1, <2>2
<1>5. QED
  BY <1>1, <1>2, <1>3, <1>4 DEF Sound, Limited, x

(* The mutex makes the check of all windows and the counting one step. *)
LEMMA AllowKeepsInductive ==
    ASSUME LimiterConstants, Inductive, NEW c \in Callers, Allow(c)
    PROVE  Inductive'
<1> DEFINE now == attempt[c].now
           keys == attempt[c].keys
           swept == Swept(now)
           Full(k) == Live(swept[k], now) /\ swept[k].count >= Limit(k)
<1>1. attempt[c] \in [now : Times, keys : SUBSET Keys] /\ Fresh(now, clock)
  BY DEF Allow, Inductive, Types, Readings
<1>2. now \in Times /\ now \in Nat /\ now <= clock
  BY <1>1, Constants DEF Fresh
<1>3. /\ clock' = clock
      /\ attempt' = [attempt EXCEPT ![c] = None]
      /\ nextGC' = IF nextGC <= now THEN now + Window ELSE nextGC
  BY DEF Allow
<1>4. \/ /\ windows' = swept
         /\ allowed' = allowed
      \/ /\ \A k \in keys : ~Full(k)
         /\ windows' = [k \in Keys |-> IF k \in keys THEN Counted(swept[k], now) ELSE swept[k]]
         /\ allowed' = [k \in Keys |-> IF k \in keys THEN allowed[k] \cup {Admission(k, now)}
                                       ELSE allowed[k]]
  BY DEF Allow
<1>5. clock \in Nat /\ clock \in Times /\ allowed \in [Keys -> SUBSET Admissions]
  BY Constants DEF Inductive, Types
<1>6. ASSUME NEW k \in Keys
      PROVE  /\ swept \in [Keys -> {None} \cup Counters]
             /\ swept[k] \in {None} \cup Counters
             /\ Sound(swept[k], allowed[k], clock, Limit(k))
  <2>1. /\ swept \in [Keys -> {None} \cup Counters]
        /\ Sound(swept[k], allowed[k], clock, Limit(k))
    BY <1>2, SweptIsSound
  <2>2. QED
    BY <2>1
<1>7. swept = [k \in Keys |-> swept[k]]
  BY DEF Swept, Inductive, Types
<1> HIDE DEF now, keys, swept
<1>8. ASSUME NEW k \in Keys
      PROVE  /\ windows'[k] \in {None} \cup Counters
             /\ allowed'[k] \in SUBSET Admissions
             /\ Sound(windows'[k], allowed'[k], clock, Limit(k))
  <2>1. allowed[k] \in SUBSET Admissions
    BY <1>5
  <2>2. CASE windows' = swept /\ allowed' = allowed
    BY <1>6, <2>1, <2>2
  <2>3. CASE /\ \A l \in keys : ~Full(l)
             /\ windows' = [l \in Keys |-> IF l \in keys THEN Counted(swept[l], now)
                                           ELSE swept[l]]
             /\ allowed' = [l \in Keys |-> IF l \in keys
                                           THEN allowed[l] \cup {Admission(l, now)}
                                           ELSE allowed[l]]
    <3>1. CASE k \in keys
      <4>1. ~(Live(swept[k], now) /\ swept[k].count >= Limit(k))
        BY <2>3, <3>1
      <4>2. /\ windows'[k] = Counted(swept[k], now)
            /\ allowed'[k] = allowed[k] \cup {Admission(k, now)}
        BY <2>3, <3>1
      <4>3. Fresh(now, clock)
        BY <1>1 DEF now
      <4>4. QED
        BY <1>2, <1>5, <1>6, <2>1, <4>1, <4>2, <4>3, AdmittingIsSound
    <3>2. CASE k \notin keys
      <4>1. windows'[k] = swept[k] /\ allowed'[k] = allowed[k]
        BY <2>3, <3>2
      <4>2. QED
        BY <1>6, <2>1, <4>1
    <3>3. QED
      BY <3>1, <3>2
  <2>4. QED
    BY <1>4, <2>2, <2>3
<1>9. windows' = [k \in Keys |-> windows'[k]] /\ allowed' = [k \in Keys |-> allowed'[k]]
  BY <1>4, <1>5, <1>7
<1>10. Types'
  <2>1. windows' \in [Keys -> {None} \cup Counters] /\ allowed' \in [Keys -> SUBSET Admissions]
    BY <1>8, <1>9
  <2>2. nextGC' \in Nat
    BY <1>2, <1>3, Constants DEF Inductive, Types
  <2>3. attempt' \in [Callers -> {None} \cup [now : Times, keys : SUBSET Keys]]
    BY <1>3 DEF Inductive, Types
  <2>4. QED
    BY <1>3, <1>5, <2>1, <2>2, <2>3 DEF Types
<1>11. Readings'
  BY <1>3 DEF Inductive, Types, Readings
<1>12. QED
  BY <1>3, <1>8, <1>10, <1>11 DEF Inductive, Sound

(* Every other step leaves windows and attempts as they are. *)
LEMMA StepKeepsInductive ==
    ASSUME LimiterConstants, Inductive, [Next]_vars
    PROVE  Inductive'
<1>1. ASSUME NEW c \in Callers, ReadClock(c)
      PROVE  Inductive'
  <2>1. UNCHANGED <<clock, windows, nextGC, allowed>>
    BY <1>1 DEF ReadClock
  <2>2. PICK address \in Addresses, account \in SUBSET Accounts :
           attempt' = [attempt EXCEPT ![c] = [now |-> clock, keys |-> {address} \cup account]]
    BY <1>1 DEF ReadClock
  <2>3. [now |-> clock, keys |-> {address} \cup account] \in [now : Times, keys : SUBSET Keys]
    BY DEF Inductive, Types, Keys
  <2>4. Types'
    BY <2>1, <2>2, <2>3 DEF Inductive, Types
  <2>5. Fresh(clock, clock)
    BY Constants DEF Fresh, Inductive, Types
  <2>6. Readings'
    BY <2>1, <2>2, <2>5 DEF Inductive, Types, Readings
  <2>7. QED
    BY <2>1, <2>4, <2>6 DEF Inductive
<1>2. CASE Tick
  <2>1. /\ clock < MaxTime
        /\ \A c \in Callers : attempt[c] # None => clock - attempt[c].now < MaxDelay
        /\ clock' = clock + 1
        /\ UNCHANGED <<windows, nextGC, attempt, allowed>>
    BY <1>2 DEF Tick
  <2>2. clock \in Nat /\ clock + 1 \in Times
    BY <2>1, Constants DEF Inductive, Types, Times
  <2>3. Types'
    BY <2>1, <2>2 DEF Inductive, Types
  <2>4. Readings'
    <3>1. ASSUME NEW c \in Callers, attempt[c] # None
          PROVE  Fresh(attempt[c].now, clock + 1)
      <4>1. attempt[c].now \in Nat /\ Fresh(attempt[c].now, clock)
        BY <3>1, Constants DEF Inductive, Types, Readings
      <4>2. QED
        BY <2>1, <2>2, <3>1, <4>1, Constants DEF Fresh
    <3>2. QED
      BY <2>1, <3>1 DEF Readings
  <2>5. ASSUME NEW k \in Keys
        PROVE  Accounted(windows[k], allowed[k], clock + 1, Limit(k))
    BY <2>2, Constants, TickKeepsAccounts DEF Inductive, Types, Numbered
  <2>6. QED
    BY <2>1, <2>3, <2>4, <2>5 DEF Inductive
<1>3. CASE UNCHANGED vars
  BY <1>3 DEF vars, Inductive, Types, Readings
<1>4. QED
  BY <1>1, <1>2, <1>3, AllowKeepsInductive DEF Next

-----------------------------------------------------------------------------
(***************************************************************************)
(* Theorems.                                                               *)
(***************************************************************************)
(* The invariant holds in every reachable state. *)
THEOREM InductiveAlways ==
    ASSUME LimiterConstants
    PROVE  Spec => []Inductive
<1>1. Init => Inductive
  BY InitiallyInductive
<1>2. Inductive /\ [Next]_vars => Inductive'
  BY StepKeepsInductive
<1>3. QED
  BY <1>1, <1>2, PTL DEF Spec

(* The variables of the limiter of auth_limit.go always have their types. *)
THEOREM TypeCorrect ==
    ASSUME LimiterConstants
    PROVE  Spec => []TypeOK
<1>1. Inductive => TypeOK
  BY DEF Inductive, Types, TypeOK, Admissions, Counters
<1>2. QED
  BY <1>1, InductiveAlways, PTL

(* authAttemptLimiter.allow: no address and no account gets more than twice its
   limit among attempts whose readings are at most a window less two delays apart. *)
THEOREM AttemptsStayLimited ==
    ASSUME LimiterConstants
    PROVE  Spec => []AttemptsAreLimited
<1>1. Inductive => AttemptsAreLimited
  BY DEF Inductive, Limited, AttemptsAreLimited, Stretch
<1>2. QED
  BY <1>1, InductiveAlways, PTL

=============================================================================
