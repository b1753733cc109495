----------------------------- MODULE PathMutex ------------------------------
(***************************************************************************)
(* What LockUpload promises: one mutex for every upload path.  A goroutine *)
(* asks for one path at a time, and of those that ask for the same path    *)
(* one is inside.                                                          *)
(***************************************************************************)
CONSTANTS
    Procs,   \* goroutines: request handlers and the stale-upload cleanup
    Paths,   \* upload paths
    None     \* nobody

VARIABLES
    state,   \* state[p]: "out", "waiting" or "inside"
    wants,   \* wants[p]: the path p asked for last
    owner    \* owner[x]: who is inside x

vars == <<state, wants, owner>>

Init ==
    /\ state = [p \in Procs |-> "out"]
    /\ wants \in [Procs -> Paths]
    /\ owner = [x \in Paths |-> None]

Ask(p) ==
    /\ state[p] = "out"
    /\ \E x \in Paths : wants' = [wants EXCEPT ![p] = x]
    /\ state' = [state EXCEPT ![p] = "waiting"]
    /\ UNCHANGED owner

Enter(p) ==
    /\ state[p] = "waiting"
    /\ owner[wants[p]] = None
    /\ owner' = [owner EXCEPT ![wants[p]] = p]
    /\ state' = [state EXCEPT ![p] = "inside"]
    /\ UNCHANGED wants

Leave(p) ==
    /\ state[p] = "inside"
    /\ owner' = [owner EXCEPT ![wants[p]] = None]
    /\ state' = [state EXCEPT ![p] = "out"]
    /\ UNCHANGED wants

Next == \E p \in Procs : Ask(p) \/ Enter(p) \/ Leave(p)

Spec == Init /\ [][Next]_vars

=============================================================================
