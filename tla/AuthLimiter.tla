---------------------------- MODULE AuthLimiter -----------------------------
(***************************************************************************)
(* The fixed windows of httpserver/auth_limit.go that limit the attempts   *)
(* to authenticate of one address and of one account.  A goroutine reads   *)
(* the clock, then waits for the mutex, so it may act on a time that       *)
(* others have left behind.                                                *)
(*                                                                         *)
(* "allowed" is history.  A name ending in "Faulty" is a deliberately      *)
(* wrong variant of the definition that follows it; nothing uses it but    *)
(* the mutation runs.                                                      *)
(***************************************************************************)
EXTENDS Naturals, FiniteSets

CONSTANTS
    Callers,          \* goroutines in handleToken or handleUILoginPost
    Addresses,
    Accounts,
    IPAttempts,       \* authIPAttempts
    AccountAttempts,  \* authAccountAttempts
    Window,           \* authAttemptWindow
    MaxDelay,         \* bound on the time between reading the clock and locking
    MaxTime,          \* bound on the clock
    None

\* What is assumed of the constants.
LimiterConstants ==
    /\ IPAttempts \in Nat \ {0}
    /\ AccountAttempts \in Nat \ {0}
    /\ Window \in Nat \ {0}
    /\ MaxDelay \in Nat
    /\ MaxTime \in Nat \ {0}
    /\ None \notin [count : Nat, reset : Nat]

VARIABLES
    clock,
    windows,   \* windows[k]: the counter of a key, or None
    nextGC,
    attempt,   \* attempt[c]: the time that c has read and its keys, or None
    allowed    \* allowed[k]: attempts on k let through, each with its reading of the
               \* clock and a number among those of this reading

vars == <<clock, windows, nextGC, attempt, allowed>>

\* The prefixes "ip:" and "account:" keep the two kinds of keys apart.
Keys == Addresses \cup Accounts

Limit(k) == IF k \in Addresses THEN IPAttempts ELSE AccountAttempts

\* Time 0 is Go's zero time.
Times == 1 .. MaxTime

Init ==
    /\ clock = 1
    /\ windows = [k \in Keys |-> None]
    /\ nextGC = 0
    /\ attempt = [c \in Callers |-> None]
    /\ allowed = [k \in Keys |-> {}]

-----------------------------------------------------------------------------
\* now := l.now(), before the lock; an empty user name has no key.
ReadClock(c) ==
    /\ attempt[c] = None
    /\ \E address \in Addresses, account \in SUBSET Accounts :
          /\ \A a, b \in account : a = b
          /\ attempt' = [attempt EXCEPT ![c] = [now |-> clock, keys |-> {address} \cup account]]
    /\ UNCHANGED <<clock, windows, nextGC, allowed>>

Live(w, now) == w # None /\ w.reset > now

Expired(w, now) == w # None /\ w.reset <= now

\* Expired windows are collected at most once per window.
Swept(now) ==
    IF nextGC <= now
    THEN [k \in Keys |-> IF Expired(windows[k], now) THEN None ELSE windows[k]]
    ELSE windows

CountedFaulty(w, now) == [count |-> 1, reset |-> now + Window]
Counted(w, now) ==
    IF Live(w, now)
    THEN [w EXCEPT !.count = @ + 1]
    ELSE [count |-> 1, reset |-> now + Window]

\* The record of an attempt that is let through.
Admission(k, now) ==
    [now |-> now, nr |-> Cardinality({a \in allowed[k] : a.now = now}) + 1]

\* One full window denies the attempt before any window has counted it.
Allow(c) ==
    /\ attempt[c] # None
    /\ LET now   == attempt[c].now
           keys  == attempt[c].keys
           swept == Swept(now)
           Full(k) == Live(swept[k], now) /\ swept[k].count >= Limit(k)
       IN  /\ nextGC' = IF nextGC <= now THEN now + Window ELSE nextGC
           /\ IF \E k \in keys : Full(k)
              THEN /\ windows' = swept
                   /\ UNCHANGED allowed
              ELSE /\ windows' = [k \in Keys |-> IF k \in keys THEN Counted(swept[k], now)
                                                 ELSE swept[k]]
                   /\ allowed' = [k \in Keys |-> IF k \in keys
                                                 THEN allowed[k] \cup {Admission(k, now)}
                                                 ELSE allowed[k]]
    /\ attempt' = [attempt EXCEPT ![c] = None]
    /\ UNCHANGED clock

\* No goroutine waits longer than MaxDelay for a mutex held for microseconds.
Tick ==
    /\ clock < MaxTime
    /\ \A c \in Callers : attempt[c] # None => clock - attempt[c].now < MaxDelay
    /\ clock' = clock + 1
    /\ UNCHANGED <<windows, nextGC, attempt, allowed>>

Next ==
    \/ \E c \in Callers : ReadClock(c) \/ Allow(c)
    \/ Tick

Spec == Init /\ [][Next]_vars

-----------------------------------------------------------------------------
(***************************************************************************)
(* Properties.                                                             *)
(***************************************************************************)
(* Every variable has its type. *)
TypeOK ==
    /\ clock \in Times
    /\ windows \in [Keys -> {None} \cup [count : Nat, reset : Nat]]
    /\ nextGC \in Nat
    /\ attempt \in [Callers -> {None} \cup [now : Times, keys : SUBSET Keys]]
    /\ allowed \in [Keys -> SUBSET [now : Times, nr : Nat]]

\* Attempts with readings that are at most "length" apart, t the first of them.
During(admitted, t, length) == {a \in admitted : t <= a.now /\ a.now <= t + length}

(* "authIPAttempts" and "authAccountAttempts" per "authAttemptWindow": fixed windows
   let through at most twice the limit in any stretch as long as one.  A reading
   that is late by MaxDelay may begin a window that much too early, after the
   collection of its predecessor by another attempt, and another one may be counted
   that much before its end; no more than that. *)
AttemptsAreLimited ==
    \A k \in Keys, t \in Times :
        Cardinality(During(allowed[k], t, Window - 2 * MaxDelay)) <= 2 * Limit(k)

=============================================================================
