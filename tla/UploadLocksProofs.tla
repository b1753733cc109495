------------------------- MODULE UploadLocksProofs --------------------------
(***************************************************************************)
(* Proofs about UploadLocks, for any number of goroutines, paths and       *)
(* entries: its types, exclusion per path, the exactness of the reference  *)
(* counts, and that it implements PathMutex.                               *)
(***************************************************************************)
EXTENDS UploadLocks, FiniteSetTheorems, TLAPS

\* Between the lookup and the drop a call refers to an entry.
Referring == {"enter", "inside", "relockSet", "drop"}

\* A call that refers to an entry refers to the one the map has for its path, so
\* that later calls for the path find the same.
CallsAgreeWithMap ==
    \A p \in Procs :
        /\ pc[p] \in Referring => entry[p] # None /\ locks[path[p]] = entry[p]
        /\ pc[p] \notin Referring => entry[p] = None

EntriesAreDistinct ==
    \A x, y \in Paths : locks[x] = locks[y] /\ locks[x] # None => x = y

HolderIsInside ==
    \A p \in Procs, e \in Entries : holder[e] = p <=> pc[p] = "inside" /\ entry[p] = e

Inductive ==
    /\ TypeOK
    /\ CallsAgreeWithMap
    /\ EntriesAreDistinct
    /\ HolderIsInside
    /\ NoEntryOutlivesItsUsers

-----------------------------------------------------------------------------
(* The goroutines that refer to an entry are finitely many. *)
LEMMA UsersFinite ==
    ASSUME LocksAssumption, NEW e
    PROVE  IsFiniteSet(Users(e)) /\ Cardinality(Users(e)) \in Nat
<1>1. IsFiniteSet(Users(e)) BY FS_Subset DEF LocksAssumption, Users
<1> QED BY <1>1, FS_CardinalityType

(* A call that looks its entry up is one more of its users, and of no others. *)
LEMMA LookupAddsUser ==
    ASSUME LocksAssumption, TypeOK, NEW p \in Procs, NEW e \in Entries, entry[p] = None,
           entry' = [entry EXCEPT ![p] = e], NEW f \in Entries
    PROVE  Cardinality(Users(f)') = IF f = e THEN Cardinality(Users(f)) + 1
                                             ELSE Cardinality(Users(f))
<1>1. CASE f = e
  <2>1. p \notin Users(e) BY DEF Users, LocksAssumption
  <2>2. Users(e)' = Users(e) \cup {p} BY DEF Users, TypeOK
  <2> QED BY <1>1, <2>1, <2>2, UsersFinite, FS_AddElement
<1>2. CASE f # e
  <2>1. Users(f)' = Users(f) BY <1>2 DEF Users, TypeOK, LocksAssumption
  <2> QED BY <1>2, <2>1
<1> QED BY <1>1, <1>2

(* A call that drops its entry is one less of its users, and of no others. *)
LEMMA DropRemovesUser ==
    ASSUME LocksAssumption, TypeOK, NEW p \in Procs, entry[p] # None,
           entry' = [entry EXCEPT ![p] = None], NEW f \in Entries
    PROVE  Cardinality(Users(f)') = IF f = entry[p] THEN Cardinality(Users(f)) - 1
                                                    ELSE Cardinality(Users(f))
<1>1. CASE f = entry[p]
  <2>1. p \in Users(f) BY <1>1 DEF Users
  <2>2. Users(f)' = Users(f) \ {p} BY <1>1 DEF Users, TypeOK, LocksAssumption
  <2> QED BY <1>1, <2>1, <2>2, UsersFinite, FS_RemoveElement
<1>2. CASE f # entry[p]
  <2>1. Users(f)' = Users(f) BY <1>2 DEF Users, TypeOK, LocksAssumption
  <2> QED BY <1>2, <2>1
<1> QED BY <1>1, <1>2

(* The last reference is the only one: LockUpload's "refs == 0" after the
   decrement means that nobody else refers to the entry. *)
LEMMA LastReferenceIsAlone ==
    ASSUME LocksAssumption, Inductive, NEW p \in Procs, pc[p] \in Referring
    PROVE  /\ entry[p] \in Entries /\ refs[entry[p]] \in Nat \ {0}
           /\ LastReference(p) <=> Users(entry[p]) = {p}
<1> DEFINE e == entry[p]
<1>1. e \in Entries BY DEF Inductive, TypeOK, CallsAgreeWithMap
<1>2. p \in Users(e) BY DEF Users
<1>3. refs[e] = Cardinality(Users(e)) BY <1>1 DEF Inductive, NoEntryOutlivesItsUsers
<1>4. /\ Cardinality(Users(e) \ {p}) = refs[e] - 1
      /\ IsFiniteSet(Users(e) \ {p})
  BY <1>2, <1>3, UsersFinite, FS_RemoveElement
<1>5. Cardinality(Users(e) \ {p}) \in Nat BY <1>4, FS_CardinalityType
<1>6. refs[e] \in Nat \ {0} BY <1>3, <1>4, <1>5, UsersFinite
<1>7. refs[e] = 1 <=> Users(e) \ {p} = {} BY <1>4, <1>6, FS_EmptySet
<1> QED BY <1>1, <1>2, <1>6, <1>7 DEF LastReference

-----------------------------------------------------------------------------
(* One step of Lookup keeps the invariant: a new entry is nobody else's, and
   an old one is the entry of everybody on that path. *)
LEMMA LookupKeeps ==
    ASSUME LocksAssumption, Inductive, NEW p \in Procs, Lookup(p) PROVE Inductive'
<1> USE DEF Inductive
<1>1. PICK e \in Entries :
        /\ IF locks[path[p]] = None THEN Unused(e) ELSE e = locks[path[p]]
        /\ locks' = [locks EXCEPT ![path[p]] = e]
        /\ entry' = [entry EXCEPT ![p] = e]
        /\ refs' = [refs EXCEPT ![e] = RefsAfterLookup(e)]
  BY DEF Lookup
<1>2. /\ pc[p] = "lookup" /\ pc' = [pc EXCEPT ![p] = "enter"]
      /\ setMu' = None /\ UNCHANGED <<holder, path>>
  BY DEF Lookup, Goto
<1>3. entry[p] = None BY <1>2 DEF CallsAgreeWithMap, Referring
<1>4. e # None /\ path[p] \in Paths BY DEF LocksAssumption, TypeOK
<1>5. TypeOK' BY <1>1, <1>2 DEF TypeOK, Steps, RefsAfterLookup
<1>6. \A x \in Paths \ {path[p]} : locks'[x] = locks[x] /\ locks[x] # e
  BY <1>1, <1>4 DEF Unused, EntriesAreDistinct, TypeOK
<1>7. CallsAgreeWithMap'
  <2> SUFFICES ASSUME NEW q \in Procs
               PROVE  /\ pc'[q] \in Referring => entry'[q] # None /\ locks'[path'[q]] = entry'[q]
                      /\ pc'[q] \notin Referring => entry'[q] = None
    BY DEF CallsAgreeWithMap
  <2>1. CASE q = p BY <1>1, <1>2, <1>4, <2>1 DEF Referring, TypeOK
  <2>2. CASE q # p
    <3>1. pc'[q] = pc[q] /\ entry'[q] = entry[q] /\ path'[q] = path[q] /\ path[q] \in Paths
      BY <1>1, <1>2, <2>2 DEF TypeOK
    <3>2. CASE path[q] = path[p]
      BY <1>1, <1>4, <3>1, <3>2 DEF CallsAgreeWithMap, TypeOK
    <3>3. CASE path[q] # path[p]
      BY <1>6, <3>1, <3>3 DEF CallsAgreeWithMap
    <3> QED BY <3>2, <3>3
  <2> QED BY <2>1, <2>2
<1>8. EntriesAreDistinct' BY <1>1, <1>4, <1>6 DEF EntriesAreDistinct, TypeOK
<1>9. HolderIsInside'
  <2> SUFFICES ASSUME NEW q \in Procs, NEW f \in Entries
               PROVE  holder'[f] = q <=> pc'[q] = "inside" /\ entry'[q] = f
    BY DEF HolderIsInside
  <2> QED BY <1>1, <1>2 DEF HolderIsInside, TypeOK
<1>10. NoEntryOutlivesItsUsers'
  <2>1. ASSUME NEW x \in Paths, locks'[x] # None
        PROVE  \E q \in Procs : path'[q] = x /\ entry'[q] = locks'[x]
    <3>1. CASE x = path[p] BY <1>1, <1>2, <3>1 DEF TypeOK
    <3>2. CASE x # path[p]
      <4>1. PICK q \in Procs : path[q] = x /\ entry[q] = locks[x]
        BY <1>6, <2>1, <3>2 DEF NoEntryOutlivesItsUsers
      <4> QED BY <1>1, <1>2, <1>6, <3>2, <4>1 DEF TypeOK
    <3> QED BY <3>1, <3>2
  <2>2. ASSUME NEW f \in Entries PROVE refs'[f] = Cardinality(Users(f)')
    <3>1. Cardinality(Users(f)') = IF f = e THEN Cardinality(Users(f)) + 1
                                            ELSE Cardinality(Users(f))
      BY <1>1, <1>3, LookupAddsUser
    <3> QED BY <1>1, <3>1 DEF RefsAfterLookup, NoEntryOutlivesItsUsers, TypeOK
  <2> QED BY <2>1, <2>2 DEF NoEntryOutlivesItsUsers, Users
<1> QED BY <1>5, <1>7, <1>8, <1>9, <1>10

(* So does a drop: it takes the entry out of the map only when no other call
   refers to it. *)
LEMMA DropKeeps ==
    ASSUME LocksAssumption, Inductive, NEW p \in Procs, Drop(p) PROVE Inductive'
<1> USE DEF Inductive
<1>1. /\ pc[p] = "drop" /\ pc' = [pc EXCEPT ![p] = "out"]
      /\ refs' = [refs EXCEPT ![entry[p]] = @ - 1]
      /\ locks' = IF LastReference(p) THEN [locks EXCEPT ![path[p]] = None] ELSE locks
      /\ entry' = [entry EXCEPT ![p] = None]
      /\ setMu' = None /\ UNCHANGED <<holder, path>>
  BY DEF Drop, Goto, SetMuAfterDrop
<1>2. /\ entry[p] \in Entries /\ refs[entry[p]] \in Nat \ {0}
      /\ LastReference(p) <=> Users(entry[p]) = {p}
  BY <1>1, LastReferenceIsAlone DEF Referring
<1>3. /\ path[p] \in Paths /\ locks[path[p]] = entry[p]
      /\ entry[p] # None
  BY <1>1 DEF CallsAgreeWithMap, Referring, TypeOK
<1>4. TypeOK' BY <1>1, <1>2, <1>3 DEF TypeOK, Steps
<1>5. \A x \in Paths : locks'[x] # None => locks'[x] = locks[x]
  BY <1>1 DEF TypeOK
<1>6. ASSUME NEW q \in Procs \ {p}, entry[q] # None
      PROVE  locks'[path[q]] = locks[path[q]]
  <2>1. locks[path[q]] = entry[q] /\ path[q] \in Paths
    BY <1>6 DEF CallsAgreeWithMap, TypeOK
  <2>2. CASE LastReference(p)
    <3>1. entry[q] # entry[p] BY <1>2, <2>2 DEF Users
    <3> QED BY <1>1, <1>3, <2>1, <3>1 DEF TypeOK
  <2> QED BY <1>1, <2>2
<1>7. CallsAgreeWithMap'
  <2> SUFFICES ASSUME NEW q \in Procs
               PROVE  /\ pc'[q] \in Referring => entry'[q] # None /\ locks'[path'[q]] = entry'[q]
                      /\ pc'[q] \notin Referring => entry'[q] = None
    BY DEF CallsAgreeWithMap
  <2>1. CASE q = p BY <1>1, <2>1 DEF Referring, TypeOK
  <2>2. CASE q # p
    <3>1. pc'[q] = pc[q] /\ entry'[q] = entry[q] /\ path'[q] = path[q]
      BY <1>1, <2>2 DEF TypeOK
    <3> QED BY <1>6, <2>2, <3>1 DEF CallsAgreeWithMap
  <2> QED BY <2>1, <2>2
<1>8. EntriesAreDistinct' BY <1>5 DEF EntriesAreDistinct
<1>9. HolderIsInside'
  <2> SUFFICES ASSUME NEW q \in Procs, NEW f \in Entries
               PROVE  holder'[f] = q <=> pc'[q] = "inside" /\ entry'[q] = f
    BY DEF HolderIsInside
  <2> QED BY <1>1 DEF HolderIsInside, TypeOK
<1>10. NoEntryOutlivesItsUsers'
  <2>1. ASSUME NEW x \in Paths, locks'[x] # None
        PROVE  \E q \in Procs : path'[q] = x /\ entry'[q] = locks'[x]
    <3>1. PICK q \in Procs : path[q] = x /\ entry[q] = locks[x]
      BY <1>5, <2>1 DEF NoEntryOutlivesItsUsers
    <3>2. CASE q # p BY <1>1, <1>5, <2>1, <3>1, <3>2 DEF TypeOK
    <3>3. CASE q = p
      <4>1. ~LastReference(p) BY <1>1, <2>1, <3>1, <3>3 DEF TypeOK
      <4>2. PICK r \in Procs \ {p} : entry[r] = entry[p]
        BY <1>2, <4>1 DEF Users
      <4>3. path[r] = path[p]
        BY <1>3, <4>2 DEF CallsAgreeWithMap, EntriesAreDistinct, TypeOK
      <4> QED BY <1>1, <1>5, <2>1, <3>1, <3>3, <4>2, <4>3 DEF TypeOK
    <3> QED BY <3>2, <3>3
  <2>2. ASSUME NEW f \in Entries PROVE refs'[f] = Cardinality(Users(f)')
    <3>1. Cardinality(Users(f)') = IF f = entry[p] THEN Cardinality(Users(f)) - 1
                                                   ELSE Cardinality(Users(f))
      BY <1>1, <1>3, DropRemovesUser
    <3> QED BY <1>1, <3>1 DEF NoEntryOutlivesItsUsers, TypeOK
  <2> QED BY <2>1, <2>2 DEF NoEntryOutlivesItsUsers, Users
<1> QED BY <1>4, <1>7, <1>8, <1>9, <1>10

(* The other steps leave the map and the references alone. *)
LEMMA OthersKeep ==
    ASSUME LocksAssumption, Inductive, NEW p \in Procs,
           Call(p) \/ LockSet(p) \/ Enter(p) \/ Leave(p)
    PROVE  Inductive'
<1> USE DEF Inductive
<1>1. UNCHANGED <<locks, refs, entry>> BY DEF Call, LockSet, Enter, Leave
<1>2. PICK s \in Steps :
        /\ pc' = [pc EXCEPT ![p] = s]
        /\ s \in Referring <=> pc[p] \in Referring
  BY DEF Call, LockSet, Enter, Leave, Goto, Steps, Referring
<1>3. pc[p] # "out" => UNCHANGED path BY DEF Call, LockSet, Enter, Leave
<1>4. TypeOK'
  <2>1. setMu' \in Procs \cup {None} /\ path' \in [Procs -> Paths]
    BY DEF Call, LockSet, Enter, Leave, TypeOK
  <2>2. holder' \in [Entries -> Procs \cup {None}]
    BY DEF Call, LockSet, Enter, Leave, TypeOK
  <2> QED BY <1>1, <1>2, <2>1, <2>2 DEF TypeOK
<1>5. \A q \in Procs : path'[q] = path[q] \/ (q = p /\ pc[p] = "out")
  BY DEF Call, LockSet, Enter, Leave, TypeOK
<1>6. CallsAgreeWithMap' BY <1>1, <1>2, <1>5 DEF CallsAgreeWithMap, Referring, TypeOK
<1>7. EntriesAreDistinct' BY <1>1 DEF EntriesAreDistinct
<1>8. HolderIsInside'
  <2> SUFFICES ASSUME NEW q \in Procs, NEW f \in Entries
               PROVE  holder'[f] = q <=> pc'[q] = "inside" /\ entry'[q] = f
    BY DEF HolderIsInside
  <2>1. CASE Call(p) \/ LockSet(p)
    BY <2>1 DEF Call, LockSet, Goto, HolderIsInside, TypeOK
  <2>2. CASE Enter(p)
    <3>1. entry[p] \in Entries BY <2>2 DEF Enter, CallsAgreeWithMap, Referring, TypeOK
    <3> QED BY <2>2, <3>1 DEF Enter, Goto, HolderIsInside, TypeOK, LocksAssumption
  <2>3. CASE Leave(p)
    <3>1. entry[p] \in Entries BY <2>3 DEF Leave, CallsAgreeWithMap, Referring, TypeOK
    <3> QED BY <2>3, <3>1 DEF Leave, Goto, HolderIsInside, TypeOK, LocksAssumption
  <2> QED BY <2>1, <2>2, <2>3
<1>9. NoEntryOutlivesItsUsers'
  <2>1. ASSUME NEW x \in Paths, locks'[x] # None
        PROVE  \E q \in Procs : path'[q] = x /\ entry'[q] = locks'[x]
    <3>1. PICK q \in Procs : path[q] = x /\ entry[q] = locks[x]
      BY <1>1, <2>1 DEF NoEntryOutlivesItsUsers
    <3>2. pc[q] # "out" BY <1>1, <2>1, <3>1 DEF CallsAgreeWithMap, Referring
    <3> QED BY <1>1, <1>5, <3>1, <3>2
  <2>2. \A f \in Entries : refs'[f] = Cardinality(Users(f)')
    BY <1>1 DEF NoEntryOutlivesItsUsers, Users
  <2> QED BY <2>1, <2>2 DEF NoEntryOutlivesItsUsers, Users
<1> QED BY <1>4, <1>6, <1>7, <1>8, <1>9

-----------------------------------------------------------------------------
(* The inductive invariant. *)
THEOREM InductiveHolds == Spec => []Inductive
<1> USE LocksAssumption
<1>1. Init => Inductive
  <2> SUFFICES ASSUME Init PROVE Inductive OBVIOUS
  <2>1. TypeOK BY DEF Init, TypeOK, Steps
  <2>2. CallsAgreeWithMap /\ EntriesAreDistinct
    BY DEF Init, CallsAgreeWithMap, EntriesAreDistinct, Referring
  <2>3. HolderIsInside BY DEF Init, HolderIsInside, LocksAssumption
  <2>4. NoEntryOutlivesItsUsers
    <3>1. \A e \in Entries : Users(e) = {} BY DEF Init, Users, LocksAssumption
    <3> QED BY <3>1, FS_EmptySet DEF Init, NoEntryOutlivesItsUsers
  <2> QED BY <2>1, <2>2, <2>3, <2>4 DEF Inductive
<1>2. Inductive /\ [Next]_vars => Inductive'
  <2> SUFFICES ASSUME Inductive, [Next]_vars PROVE Inductive' OBVIOUS
  <2>1. ASSUME NEW p \in Procs, Call(p) \/ Step(p) PROVE Inductive'
    BY <2>1, LookupKeeps, DropKeeps, OthersKeep DEF Step
  <2>2. CASE UNCHANGED vars
    BY <2>2
       DEF vars, Inductive, TypeOK, CallsAgreeWithMap, EntriesAreDistinct, HolderIsInside,
           NoEntryOutlivesItsUsers, Users
  <2> QED BY <2>1, <2>2 DEF Next
<1> QED BY <1>1, <1>2, PTL DEF Spec

(* Every variable keeps its type. *)
THEOREM TypeCorrect == Spec => []TypeOK
<1>1. Inductive => TypeOK BY DEF Inductive
<1> QED BY <1>1, InductiveHolds, PTL

(* Two goroutines are never inside one path: both would hold the mutex of the
   one entry that the map has for it. *)
THEOREM OnePerPath == Spec => []OneInsidePerPath
<1>1. Inductive => OneInsidePerPath
  <2> SUFFICES ASSUME Inductive, NEW p \in Procs, NEW q \in Procs,
                      pc[p] = "inside", pc[q] = "inside", path[p] = path[q]
               PROVE  p = q
    BY DEF OneInsidePerPath
  <2>1. entry[p] = entry[q] /\ entry[p] \in Entries
    BY DEF Inductive, CallsAgreeWithMap, Referring, TypeOK
  <2> QED BY <2>1 DEF Inductive, HolderIsInside
<1> QED BY <1>1, InductiveHolds, PTL

(* The map holds entries in use only, and every count is exact: the set neither
   leaks an entry nor drops one that is needed. *)
THEOREM ReferencesAreExact == Spec => []NoEntryOutlivesItsUsers
<1>1. Inductive => NoEntryOutlivesItsUsers BY DEF Inductive
<1> QED BY <1>1, InductiveHolds, PTL

-----------------------------------------------------------------------------
(* What PathMutex sees of the lock set. *)
StateOf(p) == CASE pc[p] \in {"lockSet", "lookup", "enter"} -> "waiting"
                [] pc[p] = "inside" -> "inside"
                [] OTHER -> "out"

OwnerOf(x) == IF locks[x] = None THEN None ELSE holder[locks[x]]

(* The map and the counts are nobody's business: a lookup and a drop are
   invisible, because an entry that is new, or of no more use, has no holder. *)
LEMMA MapIsInvisible ==
    ASSUME LocksAssumption, Inductive, NEW p \in Procs, Lookup(p) \/ Drop(p)
    PROVE  UNCHANGED Mutex!vars
<1> USE DEF Inductive
<1>1. UNCHANGED <<holder, path>> BY DEF Lookup, Drop
<1>2. \A q \in Procs : StateOf(q)' = StateOf(q)
  BY DEF Lookup, Drop, Goto, StateOf, TypeOK
<1>3. \A x \in Paths : OwnerOf(x)' = OwnerOf(x)
  <2>1. CASE Lookup(p)
    <3>1. PICK e \in Entries :
            /\ IF locks[path[p]] = None THEN Unused(e) ELSE e = locks[path[p]]
            /\ locks' = [locks EXCEPT ![path[p]] = e]
      BY <2>1 DEF Lookup
    <3>2. CASE locks[path[p]] = None
      <4>1. \A q \in Procs : holder[e] # q
        BY <3>1, <3>2 DEF Unused, Users, HolderIsInside
      <4>2. holder[e] = None BY <4>1 DEF TypeOK
      <4> QED BY <1>1, <3>1, <3>2, <4>2 DEF OwnerOf, TypeOK
    <3>3. CASE locks[path[p]] # None
      <4>1. locks' = locks BY <3>1, <3>3 DEF TypeOK
      <4> QED BY <1>1, <4>1 DEF OwnerOf
    <3> QED BY <3>2, <3>3
  <2>2. CASE Drop(p)
    <3>1. /\ pc[p] = "drop"
          /\ locks' = IF LastReference(p) THEN [locks EXCEPT ![path[p]] = None] ELSE locks
      BY <2>2 DEF Drop
    <3>2. CASE LastReference(p)
      <4>1. /\ entry[p] \in Entries /\ Users(entry[p]) = {p}
            /\ locks[path[p]] = entry[p]
        BY <3>1, <3>2, LastReferenceIsAlone DEF Referring, CallsAgreeWithMap
      <4>2. \A q \in Procs : holder[entry[p]] # q
        BY <3>1, <4>1 DEF HolderIsInside, Users
      <4>3. holder[entry[p]] = None BY <4>1, <4>2 DEF TypeOK
      <4> QED BY <1>1, <3>1, <3>2, <4>1, <4>3 DEF OwnerOf, TypeOK
    <3> QED BY <1>1, <3>1, <3>2 DEF OwnerOf
  <2> QED BY <2>1, <2>2
<1> QED BY <1>1, <1>2, <1>3 DEF Mutex!vars, StateOf, OwnerOf

(* Every step of the lock set is a step of one mutex per path, or none. *)
LEMMA StepRefines ==
    ASSUME LocksAssumption, Inductive, NEW p \in Procs, Call(p) \/ Step(p)
    PROVE  [Mutex!Next]_(Mutex!vars)
<1> USE DEF Inductive
<1>1. CASE Call(p)
  <2>1. Mutex!Ask(p)
    BY <1>1 DEF Call, Goto, Mutex!Ask, TypeOK
  <2> QED BY <2>1 DEF Mutex!Next
<1>2. CASE LockSet(p)
  BY <1>2 DEF LockSet, Goto, Mutex!vars, TypeOK
<1>3. CASE Lookup(p) \/ Drop(p)
  BY <1>3, MapIsInvisible
<1>4. CASE Enter(p)
  <2>1. /\ entry[p] \in Entries /\ entry[p] # None /\ path[p] \in Paths
        /\ locks[path[p]] = entry[p]
    BY <1>4 DEF Enter, CallsAgreeWithMap, Referring, TypeOK
  <2>2. \A x \in Paths \ {path[p]} : locks[x] # entry[p]
    BY <2>1 DEF EntriesAreDistinct
  <2>3. \A x \in Paths : OwnerOf(x)' = IF x = path[p] THEN p ELSE OwnerOf(x)
    BY <1>4, <2>1, <2>2 DEF Enter, OwnerOf, TypeOK
  <2>4. OwnerOf(path[p]) = None BY <1>4, <2>1 DEF Enter, OwnerOf
  <2>5. \A q \in Procs : StateOf(q)' = IF q = p THEN "inside" ELSE StateOf(q)
    BY <1>4 DEF Enter, Goto, StateOf, TypeOK
  <2>6. StateOf(p) = "waiting" /\ UNCHANGED path BY <1>4 DEF Enter, StateOf
  <2>7. Mutex!Enter(p)
    BY <2>1, <2>3, <2>4, <2>5, <2>6 DEF Mutex!Enter, OwnerOf, StateOf
  <2> QED BY <2>7 DEF Mutex!Next
<1>5. CASE Leave(p)
  <2>1. /\ entry[p] \in Entries /\ entry[p] # None /\ path[p] \in Paths
        /\ locks[path[p]] = entry[p]
    BY <1>5 DEF Leave, CallsAgreeWithMap, Referring, TypeOK
  <2>2. \A x \in Paths \ {path[p]} : locks[x] # entry[p]
    BY <2>1 DEF EntriesAreDistinct
  <2>3. \A x \in Paths : OwnerOf(x)' = IF x = path[p] THEN None ELSE OwnerOf(x)
    BY <1>5, <2>1, <2>2 DEF Leave, OwnerOf, TypeOK
  <2>4. \A q \in Procs : StateOf(q)' = IF q = p THEN "out" ELSE StateOf(q)
    BY <1>5 DEF Leave, Goto, StateOf, TypeOK
  <2>5. StateOf(p) = "inside" /\ UNCHANGED path BY <1>5 DEF Leave, StateOf
  <2>6. Mutex!Leave(p)
    BY <2>1, <2>3, <2>4, <2>5 DEF Mutex!Leave, OwnerOf, StateOf
  <2> QED BY <2>6 DEF Mutex!Next
<1> QED BY <1>1, <1>2, <1>3, <1>4, <1>5 DEF Step

(* The lock set implements PathMutex: callers cannot tell it from one mutex for
   every path, although its entries come and go. *)
THEOREM Implements == Spec => ImplementsPathMutex
<1> USE LocksAssumption
<1>1. Init => Mutex!Init BY DEF Init, Mutex!Init
<1>2. Inductive /\ [Next]_vars => [Mutex!Next]_(Mutex!vars)
  <2>1. ASSUME Inductive, UNCHANGED vars PROVE UNCHANGED Mutex!vars
    BY <2>1 DEF vars, Mutex!vars
  <2> QED BY <2>1, StepRefines DEF Next
<1> QED BY <1>1, <1>2, InductiveHolds, PTL DEF Spec, ImplementsPathMutex, Mutex!Spec

=============================================================================
