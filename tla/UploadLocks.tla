---------------------------- MODULE UploadLocks -----------------------------
(***************************************************************************)
(* The lock set of storage/filesystem.go: LockUpload keeps one mutex for   *)
(* every upload path in use, counts who refers to it, and drops it with    *)
(* the last reference.  The count and the map are guarded by the mutex of  *)
(* the set, the path by the mutex of its entry.  An entry is an object:    *)
(* after it has left the map a later caller makes another one for the same *)
(* path, so exclusion depends on never dropping an entry too early.        *)
(*                                                                         *)
(* A name ending in "Faulty" is a deliberately wrong variant of the        *)
(* definition that follows it; nothing uses it but the mutation runs.      *)
(***************************************************************************)
EXTENDS Naturals, FiniteSets

CONSTANTS
    Procs,     \* goroutines: request handlers and the stale-upload cleanup
    Paths,     \* upload paths
    Entries,   \* the uploadLock objects
    None

ASSUME LocksAssumption ==
    /\ IsFiniteSet(Procs)
    /\ None \notin Procs \cup Entries

VARIABLES
    setMu,    \* holder of uploadLockSet.mu
    locks,    \* locks[x]: the entry of path x in the map
    refs,     \* refs[e]
    holder,   \* holder[e]: who holds the mutex of entry e
    pc,
    path,     \* path[p]: the argument of p's LockUpload
    entry     \* entry[p]: the object p's call refers to

vars == <<setMu, locks, refs, holder, pc, path, entry>>

Init ==
    /\ setMu = None
    /\ locks = [x \in Paths |-> None]
    /\ refs = [e \in Entries |-> 0]
    /\ holder = [e \in Entries |-> None]
    /\ pc = [p \in Procs |-> "out"]
    /\ path \in [Procs -> Paths]
    /\ entry = [p \in Procs |-> None]

Goto(p, step) == pc' = [pc EXCEPT ![p] = step]

\* The goroutines that refer to an entry.
Users(e) == {p \in Procs : entry[p] = e}

\* A new object is neither in the map nor referred to.
Unused(e) == Users(e) = {} /\ \A x \in Paths : locks[x] # e

-----------------------------------------------------------------------------
Call(p) ==
    /\ pc[p] = "out"
    /\ \E x \in Paths : path' = [path EXCEPT ![p] = x]
    /\ Goto(p, "lockSet")
    /\ UNCHANGED <<setMu, locks, refs, holder, entry>>

LockSet(p) ==
    /\ pc[p] \in {"lockSet", "relockSet"}
    /\ setMu = None
    /\ setMu' = p
    /\ Goto(p, IF pc[p] = "lockSet" THEN "lookup" ELSE "drop")
    /\ UNCHANGED <<locks, refs, holder, path, entry>>

\* The reference is counted before the set is unlocked.
RefsAfterLookupFaulty(e) == IF refs[e] = 0 THEN 1 ELSE refs[e]
RefsAfterLookup(e) == refs[e] + 1

Lookup(p) ==
    /\ pc[p] = "lookup"
    /\ \E e \in Entries :
          /\ IF locks[path[p]] = None THEN Unused(e) ELSE e = locks[path[p]]
          /\ locks' = [locks EXCEPT ![path[p]] = e]
          /\ entry' = [entry EXCEPT ![p] = e]
          /\ refs' = [refs EXCEPT ![e] = RefsAfterLookup(e)]
    /\ setMu' = None
    /\ Goto(p, "enter")
    /\ UNCHANGED <<holder, path>>

Enter(p) ==
    /\ pc[p] = "enter"
    /\ holder[entry[p]] = None
    /\ holder' = [holder EXCEPT ![entry[p]] = p]
    /\ Goto(p, "inside")
    /\ UNCHANGED <<setMu, locks, refs, path, entry>>

Leave(p) ==
    /\ pc[p] = "inside"
    /\ holder' = [holder EXCEPT ![entry[p]] = None]
    /\ Goto(p, "relockSet")
    /\ UNCHANGED <<setMu, locks, refs, path, entry>>

\* The entry goes with its last reference only.
LastReferenceFaulty(p) == TRUE
LastReference(p) == refs[entry[p]] = 1

SetMuAfterDropFaulty(p) == IF LastReference(p) THEN None ELSE setMu
SetMuAfterDrop(p) == None

Drop(p) ==
    /\ pc[p] = "drop"
    /\ refs' = [refs EXCEPT ![entry[p]] = @ - 1]
    /\ locks' = IF LastReference(p) THEN [locks EXCEPT ![path[p]] = None] ELSE locks
    /\ entry' = [entry EXCEPT ![p] = None]
    /\ setMu' = SetMuAfterDrop(p)
    /\ Goto(p, "out")
    /\ UNCHANGED <<holder, path>>

Step(p) == LockSet(p) \/ Lookup(p) \/ Enter(p) \/ Leave(p) \/ Drop(p)

Next == \E p \in Procs : Call(p) \/ Step(p)

Spec == Init /\ [][Next]_vars

(***************************************************************************)
(* Goroutines run, an upload operation ends, and sync.Mutex hands over to  *)
(* a waiter that has waited for a millisecond; no goroutine has to call.   *)
(***************************************************************************)
Fairness == \A p \in Procs : SF_vars(Step(p))

FairSpec == Spec /\ Fairness

-----------------------------------------------------------------------------
(***************************************************************************)
(* Properties.                                                             *)
(***************************************************************************)
Steps == {"out", "lockSet", "lookup", "enter", "inside", "relockSet", "drop"}

(* Every variable has its type. *)
TypeOK ==
    /\ setMu \in Procs \cup {None}
    /\ locks \in [Paths -> Entries \cup {None}]
    /\ refs \in [Entries -> Nat]
    /\ holder \in [Entries -> Procs \cup {None}]
    /\ pc \in [Procs -> Steps]
    /\ path \in [Procs -> Paths]
    /\ entry \in [Procs -> Entries \cup {None}]

(* LockUpload "serializes lifecycle operations for uploadPath": two goroutines
   are never inside one path, whatever entries came and went in between. *)
OneInsidePerPath ==
    \A p, q \in Procs :
        pc[p] = "inside" /\ pc[q] = "inside" /\ path[p] = path[q] => p = q

(* Locks are kept "only while an upload operation is in progress": the map holds
   entries in use and no others, and every count is the number of users. *)
NoEntryOutlivesItsUsers ==
    /\ \A x \in Paths : locks[x] # None => \E p \in Procs : path[p] = x /\ entry[p] = locks[x]
    /\ \A e \in Entries : refs[e] = Cardinality(Users(e))

(* The lock set implements one mutex for every path. *)
Mutex == INSTANCE PathMutex WITH
    state <- [p \in Procs |-> CASE pc[p] \in {"lockSet", "lookup", "enter"} -> "waiting"
                                [] pc[p] = "inside" -> "inside"
                                [] OTHER -> "out"],
    wants <- path,
    owner <- [x \in Paths |-> IF locks[x] = None THEN None ELSE holder[locks[x]]]

ImplementsPathMutex == Mutex!Spec

(* Whoever asks for a path gets inside: neither mutex is ever left locked. *)
EveryCallEnters == \A p \in Procs : pc[p] = "lockSet" ~> pc[p] = "inside"

=============================================================================
