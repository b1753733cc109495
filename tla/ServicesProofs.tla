--------------------------- MODULE ServicesProofs ---------------------------
(***************************************************************************)
(* Proofs about the small parts of the process: paging (Listings), the     *)
(* schedule of collections (GarbageSchedule), the migration of blob links  *)
(* (BlobLinkMigration), and all of them in MCServices, which implements    *)
(* the specification of each.  The theorems hold for all values of the     *)
(* constants that the modules allow.                                       *)
(***************************************************************************)
EXTENDS MCServices, UploadLocksProofs, Integers

-----------------------------------------------------------------------------
(***************************************************************************)
(* Finite sets of numbers.                                                 *)
(***************************************************************************)

(* A part of a finite set is no larger. *)
LEMMA PartIsNotLarger ==
    ASSUME NEW S, IsFiniteSet(S), NEW T, T \subseteq S
    PROVE  /\ IsFiniteSet(T)
           /\ Cardinality(T) \in Nat
           /\ Cardinality(S) \in Nat
           /\ Cardinality(T) <= Cardinality(S)
<1>1. T \in SUBSET S
  OBVIOUS
<1>2. QED
  BY <1>1, FS_Subset, FS_CardinalityType

(* A finite set of numbers has a least and a greatest element. *)
LEMMA Extremes ==
    ASSUME NEW S \in SUBSET Nat, IsFiniteSet(S), S # {}
    PROVE  /\ \E m \in S : \A n \in S : m <= n
           /\ \E m \in S : \A n \in S : n <= m
<1> DEFINE Under(x) == {y \in S : y <= x}
           Above(x) == {y \in S : x <= y}
           Smaller == StrictSubsetOrdering(S)
<1>1. IsWellFoundedOn(Smaller, FiniteSubsetsOf(S))
  BY FS_StrictSubsetOrderingWellFounded
<1>2. SUBSET S = FiniteSubsetsOf(S)
  BY FS_FiniteSubsetsOfFinite
<1>3. \A U, V \in SUBSET S : U \subseteq V /\ U # V => <<U, V>> \in Smaller
  BY DEF StrictSubsetOrdering
<1> HIDE DEF Smaller
<1>4. \A T \in SUBSET SUBSET S :
         T # {} => \E U \in T : \A V \in T : ~(V \subseteq U /\ V # U)
  <2>1. SUFFICES ASSUME NEW T \in SUBSET SUBSET S, T # {}
                 PROVE  \E U \in T : \A V \in T : ~(V \subseteq U /\ V # U)
    OBVIOUS
  <2>2. T \subseteq FiniteSubsetsOf(S)
    BY <1>2
  <2>3. PICK U \in T : \A V \in T : ~(<<V, U>> \in Smaller)
    BY <1>1, <2>1, <2>2, WFMin
  <2>4. QED
    BY <1>3, <2>3
<1>5. \E m \in S : \A n \in S : m <= n
  <2>1. PICK m \in S : \A n \in S : ~(Under(n) \subseteq Under(m) /\ Under(n) # Under(m))
    <3> DEFINE T == {Under(x) : x \in S}
    <3>1. T \in SUBSET SUBSET S /\ T # {}
      OBVIOUS
    <3>2. PICK U \in T : \A V \in T : ~(V \subseteq U /\ V # U)
      <4> HIDE DEF T
      <4>1. QED
        BY <1>4, <3>1
    <3>3. PICK m \in S : U = Under(m)
      BY <3>2
    <3>4. \A n \in S : Under(n) \in T
      OBVIOUS
    <3> HIDE DEF T
    <3>5. \A n \in S : ~(Under(n) \subseteq Under(m) /\ Under(n) # Under(m))
      BY <3>2, <3>3, <3>4
    <3>6. QED
      BY <3>5
  <2>2. ASSUME NEW n \in S, ~(m <= n)
        PROVE  FALSE
    <3>1. m \in Nat /\ n \in Nat /\ \A y \in S : y \in Nat
      OBVIOUS
    <3>2. n < m /\ \A y \in S : y <= n => y <= m
      BY <2>2, <3>1
    <3>3. Under(n) \subseteq Under(m)
      BY <3>2
    <3>4. m \in Under(m) /\ m \notin Under(n)
      BY <3>1, <3>2
    <3>5. QED
      BY <2>1, <3>3, <3>4
  <2>3. QED
    BY <2>2
<1>6. \E m \in S : \A n \in S : n <= m
  <2>1. PICK m \in S : \A n \in S : ~(Above(n) \subseteq Above(m) /\ Above(n) # Above(m))
    <3> DEFINE T == {Above(x) : x \in S}
    <3>1. T \in SUBSET SUBSET S /\ T # {}
      OBVIOUS
    <3>2. PICK U \in T : \A V \in T : ~(V \subseteq U /\ V # U)
      <4> HIDE DEF T
      <4>1. QED
        BY <1>4, <3>1
    <3>3. PICK m \in S : U = Above(m)
      BY <3>2
    <3>4. \A n \in S : Above(n) \in T
      OBVIOUS
    <3> HIDE DEF T
    <3>5. \A n \in S : ~(Above(n) \subseteq Above(m) /\ Above(n) # Above(m))
      BY <3>2, <3>3, <3>4
    <3>6. QED
      BY <3>5
  <2>2. ASSUME NEW n \in S, ~(n <= m)
        PROVE  FALSE
    <3>1. m \in Nat /\ n \in Nat /\ \A y \in S : y \in Nat
      OBVIOUS
    <3>2. m < n /\ \A y \in S : n <= y => m <= y
      BY <2>2, <3>1
    <3>3. Above(n) \subseteq Above(m)
      BY <3>2
    <3>4. m \in Above(m) /\ m \notin Above(n)
      BY <3>1, <3>2
    <3>5. QED
      BY <2>1, <3>3, <3>4
  <2>3. QED
    BY <2>2
<1>7. QED
  BY <1>5, <1>6

-----------------------------------------------------------------------------
(***************************************************************************)
(* Listings: what a page leaves out comes after it.                        *)
(***************************************************************************)

(* Listings counts as this module does. *)
LEMMA SameCounting ==
    ASSUME NEW S
    PROVE  /\ Listing!IsFiniteSet(S) <=> IsFiniteSet(S)
           /\ Listing!Cardinality(S) = Cardinality(S)
<1>1. Listing!IsFiniteSet(S) <=> IsFiniteSet(S)
  BY DEF Listing!IsFiniteSet, IsFiniteSet
<1>2. Listing!Cardinality(S) = Cardinality(S)
  BY DEF Listing!Cardinality, Cardinality
<1>3. QED
  BY <1>1, <1>2

(* The positions of the names are numbers of finite sets. *)
LEMMA Positions ==
    ASSUME NEW S \in SUBSET Nat, IsFiniteSet(S), NEW x \in S
    PROVE  /\ IsFiniteSet({y \in S : y <= x})
           /\ Listing!Position(x, S) = Cardinality({y \in S : y <= x})
           /\ Listing!Position(x, S) \in Nat
<1>1. {y \in S : y <= x} \subseteq S
  OBVIOUS
<1>2. Listing!Position(x, S) = Cardinality({y \in S : y <= x})
  BY SameCounting DEF Listing!Position
<1>3. QED
  BY <1>1, <1>2, PartIsNotLarger

(* With a name, a cut holds the names before it. *)
LEMMA CutIsInitial ==
    ASSUME NEW S \in SUBSET Nat, IsFiniteSet(S), NEW length \in Nat,
           NEW y \in Listing!Cut(S, length), NEW x \in S, x <= y
    PROVE  x \in Listing!Cut(S, length)
<1>1. y \in S /\ Listing!Position(y, S) <= length
  BY DEF Listing!Cut
<1>2. {z \in S : z <= x} \subseteq {z \in S : z <= y}
  <2>1. \A z \in S : z <= x => z <= y
    BY <1>1
  <2>2. QED
    BY <2>1
<1>3. Cardinality({z \in S : z <= x}) <= Cardinality({z \in S : z <= y})
  <2>1. IsFiniteSet({z \in S : z <= y})
    BY <1>1, Positions
  <2>2. QED
    BY <1>2, <2>1, PartIsNotLarger
<1>4. Listing!Position(x, S) <= Listing!Position(y, S)
  BY <1>1, <1>3, Positions
<1>5. Listing!Position(x, S) <= length
  <2>1. Listing!Position(x, S) \in Nat /\ Listing!Position(y, S) \in Nat
    BY <1>1, Positions
  <2>2. QED
    BY <1>1, <1>4, <2>1
<1>6. QED
  BY <1>5 DEF Listing!Cut

(* A page with room for a name is not empty as long as there are names. *)
LEMMA CutIsNotEmpty ==
    ASSUME NEW S \in SUBSET Nat, IsFiniteSet(S), S # {}, NEW length \in Nat, length > 0
    PROVE  Listing!Cut(S, length) # {}
<1>1. PICK m \in S : \A n \in S : m <= n
  BY Extremes
<1>2. {y \in S : y <= m} = {m}
  <2>1. \A y \in S : y <= m => y = m
    BY <1>1
  <2>2. m <= m
    OBVIOUS
  <2>3. QED
    BY <2>1, <2>2
<1>3. Listing!Position(m, S) = 1
  <2>1. Listing!Position(m, S) = Cardinality({y \in S : y <= m})
    BY Positions
  <2>2. QED
    BY <1>2, <2>1, FS_Singleton
<1>4. m \in Listing!Cut(S, length)
  BY <1>3 DEF Listing!Cut
<1>5. QED
  BY <1>4

(* What leaves room for another name is all there is. *)
LEMMA ShortCutIsAll ==
    ASSUME NEW S \in SUBSET Nat, IsFiniteSet(S), NEW length \in Nat,
           Cardinality(Listing!Cut(S, length + 1)) <= length
    PROVE  Listing!Cut(S, length + 1) = S
<1> DEFINE C == Listing!Cut(S, length + 1)
           rest == S \ C
<1>1. C \subseteq S /\ IsFiniteSet(C) /\ Cardinality(C) \in Nat
  <2>1. C \subseteq S
    BY DEF Listing!Cut
  <2>2. QED
    BY <2>1, PartIsNotLarger
<1>2. SUFFICES ASSUME rest # {} PROVE FALSE
  BY <1>1
<1>3. rest \in SUBSET Nat /\ IsFiniteSet(rest)
  BY PartIsNotLarger
<1> HIDE DEF rest
<1>4. PICK m \in rest : \A n \in rest : m <= n
  BY <1>2, <1>3, Extremes
<1>5. m \in S /\ m \in Nat /\ m \notin C
  BY <1>4 DEF rest
<1>6. {y \in S : y <= m} \subseteq C \cup {m}
  <2>1. ASSUME NEW y \in S, y <= m, y \notin C
        PROVE  y = m
    <3>1. y \in rest
      BY <2>1 DEF rest
    <3>2. m <= y
      BY <1>4, <3>1
    <3>3. QED
      BY <1>5, <2>1, <3>2
  <2>2. QED
    BY <2>1
<1>7. IsFiniteSet(C \cup {m}) /\ Cardinality(C \cup {m}) = Cardinality(C) + 1
  BY <1>1, <1>5, FS_AddElement
<1>8. Cardinality({y \in S : y <= m}) <= Cardinality(C) + 1
  BY <1>6, <1>7, PartIsNotLarger
<1>9. Listing!Position(m, S) \in Nat /\ Listing!Position(m, S) <= Cardinality(C) + 1
  BY <1>5, <1>8, Positions
<1>10. Listing!Position(m, S) <= length + 1
  BY <1>1, <1>9
<1>11. m \in C
  BY <1>5, <1>10 DEF Listing!Cut
<1>12. QED
  BY <1>5, <1>11

Taken(name) == \E i \in DOMAIN got : name \in got[i]

\* While a client pages, "last" separates what it has from what is to come.
ListingInductive ==
    /\ Listing!TypeOK
    /\ client.at = "paging" =>
          /\ \A i \in DOMAIN got : \A x \in got[i] : x <= client.last
          /\ \A x \in kept : x <= client.last => Taken(x)
    /\ Listing!ListingIsComplete

(* Names and limits are numbers; so are a client's parameters. *)
LEMMA ClientNumbers ==
    ASSUME Listing!ListingConstants, Listing!TypeOK
    PROVE  /\ client.n \in Nat
           /\ client.last \in Nat
           /\ present \in SUBSET Names
<1> USE DEF Listing!ListingConstants
<1>1. Limits \cup {0} \subseteq Nat
  OBVIOUS
<1>2. Names \cup {0} \subseteq Nat
  OBVIOUS
<1>3. client.n \in Limits \cup {0} /\ client.last \in Names \cup {0}
  BY DEF Listing!TypeOK
<1>4. present \in SUBSET Names
  BY DEF Listing!TypeOK
<1>5. QED
  BY <1>1, <1>2, <1>3, <1>4

(* A page that was cut goes on from the last name of the page before. *)
LEMMA PageTaken ==
    ASSUME Listing!ListingConstants, ListingInductive, client.at = "paging",
           NEW names, names = Listing!pageStrings(present, client.last, client.n),
           NEW paged, paged = {name \in present : client.last = 0 \/ name > client.last}
    PROVE  /\ paged \in SUBSET Nat /\ IsFiniteSet(paged)
           /\ names \subseteq paged /\ IsFiniteSet(names) /\ Cardinality(names) \in Nat
           /\ \A x \in names : \A y \in paged : y <= x => y \in names
           /\ ~(client.n > 0 /\ Cardinality(names) > client.n) => names = paged
<1>1. client.n \in Nat /\ present \in SUBSET Names
  BY ClientNumbers DEF ListingInductive
<1>2. paged \in SUBSET Nat /\ IsFiniteSet(paged)
  <2>1. Names \subseteq Nat /\ IsFiniteSet(Names)
    BY SameCounting DEF Listing!ListingConstants
  <2>2. paged \subseteq Names
    BY <1>1
  <2>3. QED
    BY <2>1, <2>2, PartIsNotLarger
<1>3. names = IF client.n > 0 THEN Listing!Cut(paged, client.n + 1) ELSE paged
  BY DEF Listing!pageStrings
<1>4. names \subseteq paged
  BY <1>3 DEF Listing!Cut
<1>5. IsFiniteSet(names) /\ Cardinality(names) \in Nat
  BY <1>2, <1>4, PartIsNotLarger
<1>6. ASSUME NEW x \in names, NEW y \in paged, y <= x
      PROVE  y \in names
  <2>1. CASE client.n > 0
    BY <1>1, <1>2, <1>3, <1>6, <2>1, CutIsInitial
  <2>2. CASE ~(client.n > 0)
    BY <1>3, <2>2
  <2>3. QED
    BY <2>1, <2>2
<1>7. ASSUME ~(client.n > 0 /\ Cardinality(names) > client.n)
      PROVE  names = paged
  <2>1. CASE client.n > 0
    <3>1. Cardinality(names) <= client.n
      BY <1>1, <1>5, <1>7, <2>1
    <3>2. QED
      BY <1>1, <1>2, <1>3, <2>1, <3>1, ShortCutIsAll
  <2>2. CASE ~(client.n > 0)
    BY <1>3, <2>2
  <2>3. QED
    BY <2>1, <2>2
<1>8. QED
  BY <1>2, <1>4, <1>5, <1>6, <1>7

(* A page takes up where the client is, and its last name is where it goes on. *)
LEMMA RequestKeepsListing ==
    ASSUME Listing!ListingConstants, ListingInductive, Listing!Request
    PROVE  ListingInductive'
<1> DEFINE paged == {name \in present : client.last = 0 \/ name > client.last}
           names == Listing!pageStrings(present, client.last, client.n)
           more == client.n > 0 /\ Cardinality(names) > client.n
           page == IF more THEN Listing!Cut(names, client.n) ELSE names
<1>1. /\ client.at = "paging"
      /\ got' = Append(got, page)
      /\ client' = IF more THEN [client EXCEPT !.last = Listing!Max(page)]
                   ELSE [client EXCEPT !.at = "done"]
      /\ UNCHANGED <<present, kept>>
  BY SameCounting DEF Listing!Request
<1>2. /\ present \in SUBSET Names
      /\ client \in [at : {"idle", "paging", "done"}, n : Limits \cup {0}, last : Names \cup {0}]
      /\ got \in Seq(SUBSET Names)
      /\ kept \subseteq present
  BY DEF ListingInductive, Listing!TypeOK
<1>3. Names \in SUBSET (Nat \ {0}) /\ client.n \in Nat /\ client.last \in Nat
  BY ClientNumbers DEF ListingInductive, Listing!ListingConstants
<1>4. /\ \A i \in DOMAIN got : \A x \in got[i] : x <= client.last
      /\ \A x \in kept : x <= client.last => Taken(x)
      /\ \A i, j \in DOMAIN got : i < j => \A x \in got[i], y \in got[j] : x < y
  BY <1>1 DEF ListingInductive, Listing!ListingIsComplete
<1>5. /\ paged \in SUBSET Nat /\ IsFiniteSet(paged)
      /\ names \subseteq paged /\ IsFiniteSet(names) /\ Cardinality(names) \in Nat
      /\ \A x \in names : \A y \in paged : y <= x => y \in names
      /\ ~more => names = paged
  BY <1>1, PageTaken
<1>6. \A x \in present : x \in Nat /\ (x \in paged \/ x <= client.last)
  BY <1>2, <1>3
<1>7. \A x \in paged : x \in present /\ x > client.last
  BY <1>2, <1>3
<1> HIDE DEF paged, names, more
<1>8. page \subseteq names /\ page \in SUBSET Names
  <2>1. page \subseteq names
    BY DEF Listing!Cut
  <2>2. QED
    BY <1>2, <1>5, <1>7, <2>1
<1>9. \A x \in page : \A y \in names : y <= x => y \in page
  <2>1. CASE more
    <3>1. names \in SUBSET Nat
      BY <1>5
    <3>2. page = Listing!Cut(names, client.n)
      BY <2>1
    <3>3. QED
      BY <1>3, <1>5, <3>1, <3>2, CutIsInitial
  <2>2. CASE ~more
    BY <2>2
  <2>3. QED
    BY <2>1, <2>2
<1>10. more => /\ Listing!Max(page) \in page
               /\ \A x \in page : x <= Listing!Max(page)
  <2>1. SUFFICES ASSUME more
                 PROVE  /\ Listing!Max(page) \in page
                        /\ \A x \in page : x <= Listing!Max(page)
    OBVIOUS
  <2>2. page = Listing!Cut(names, client.n) /\ client.n > 0 /\ Cardinality(names) > 0
    BY <1>3, <1>5, <2>1 DEF more
  <2>3. names # {} /\ names \in SUBSET Nat
    BY <1>5, <2>2, FS_EmptySet
  <2>4. page # {}
    BY <1>3, <1>5, <2>2, <2>3, CutIsNotEmpty
  <2>5. page \in SUBSET Nat /\ IsFiniteSet(page)
    BY <1>5, <1>8, <2>3, PartIsNotLarger
  <2> HIDE DEF page
  <2>6. \E m \in page : \A x \in page : m >= x
    <3>1. PICK m \in page : \A x \in page : x <= m
      BY <2>4, <2>5, Extremes
    <3>2. \A x \in page : m >= x
      BY <2>5, <3>1
    <3>3. QED
      BY <3>2
  <2>7. Listing!Max(page) \in page /\ \A x \in page : Listing!Max(page) >= x
    BY <2>6 DEF Listing!Max
  <2>8. QED
    BY <2>5, <2>7
<1> HIDE DEF page
<1>11. got' \in Seq(SUBSET Names)
  BY <1>1, <1>2, <1>8
<1>12. Listing!TypeOK'
  <2>1. client' \in [at : {"idle", "paging", "done"}, n : Limits \cup {0},
                     last : Names \cup {0}]
    <3>1. CASE more
      <4>1. Listing!Max(page) \in Names
        BY <1>8, <1>10, <3>1
      <4>2. client' = [client EXCEPT !.last = Listing!Max(page)]
        BY <1>1, <3>1
      <4>3. QED
        BY <1>2, <4>1, <4>2
    <3>2. CASE ~more
      BY <1>1, <1>2, <3>2
    <3>3. QED
      BY <3>1, <3>2
  <2>2. QED
    BY <1>1, <1>2, <1>11, <2>1 DEF Listing!TypeOK
<1>13. /\ DOMAIN got' = 1 .. Len(got) + 1 /\ DOMAIN got = 1 .. Len(got) /\ Len(got) \in Nat
       /\ \A i \in DOMAIN got : got'[i] = got[i]
       /\ got'[Len(got) + 1] = page
  BY <1>1, <1>2, <1>8
<1>14. \A i, j \in DOMAIN got' : i < j => \A x \in got'[i], y \in got'[j] : x < y
  <2>1. SUFFICES ASSUME NEW i \in DOMAIN got', NEW j \in DOMAIN got', i < j,
                        NEW x \in got'[i], NEW y \in got'[j]
                 PROVE  x < y
    OBVIOUS
  <2>2. CASE j = Len(got) + 1
    <3>1. i \in DOMAIN got /\ x \in got[i] /\ y \in page
      BY <1>13, <2>1, <2>2
    <3>2. x <= client.last /\ y > client.last
      BY <1>4, <1>5, <1>7, <1>8, <3>1
    <3>3. x \in Nat /\ y \in Nat
      BY <1>2, <1>3, <1>8, <3>1
    <3>4. QED
      BY <1>3, <3>2, <3>3
  <2>3. CASE j # Len(got) + 1
    <3>1. i \in DOMAIN got /\ j \in DOMAIN got
      BY <1>13, <2>1, <2>3
    <3>2. x \in got[i] /\ y \in got[j]
      BY <1>13, <2>1, <3>1
    <3>3. QED
      BY <1>4, <2>1, <3>1, <3>2
  <2>4. QED
    BY <2>2, <2>3
<1>15. ASSUME NEW x \in kept, x \in page \/ x <= client.last
       PROVE  \E i \in DOMAIN got' : x \in got'[i]
  <2>1. CASE x \in page
    BY <1>13, <2>1
  <2>2. CASE x <= client.last
    <3>1. PICK i \in DOMAIN got : x \in got[i]
      BY <1>4, <2>2 DEF Taken
    <3>2. i \in DOMAIN got' /\ x \in got'[i]
      BY <1>13, <3>1
    <3>3. QED
      BY <3>2
  <2>3. QED
    BY <1>15, <2>1, <2>2
<1>16. CASE more
  <2>1. /\ client'.at = "paging"
        /\ client'.last = Listing!Max(page)
    BY <1>1, <1>2, <1>16
  <2>2. Listing!Max(page) \in page /\ Listing!Max(page) \in names /\ Listing!Max(page) \in Nat
    BY <1>3, <1>8, <1>10, <1>16
  <2>3. ASSUME NEW i \in DOMAIN got', NEW x \in got'[i]
        PROVE  x <= client'.last
    <3>1. CASE i = Len(got) + 1
      BY <1>10, <1>13, <1>16, <2>1, <3>1
    <3>2. CASE i # Len(got) + 1
      <4>1. i \in DOMAIN got /\ x \in got[i]
        BY <1>13, <3>2
      <4>2. x <= client.last /\ x \in Nat /\ client.last < Listing!Max(page)
        <5>1. x <= client.last /\ x \in Names
          BY <1>2, <1>4, <4>1
        <5>2. client.last < Listing!Max(page)
          BY <1>3, <1>5, <1>7, <2>2
        <5>3. QED
          BY <1>3, <5>1, <5>2
      <4>3. QED
        BY <1>3, <2>1, <2>2, <4>2
    <3>3. QED
      BY <3>1, <3>2
  <2>4. ASSUME NEW x \in kept, x <= client'.last
        PROVE  \E i \in DOMAIN got' : x \in got'[i]
    <3>1. x \in present
      BY <1>2
    <3>2. CASE x \in paged
      <4>1. x \in names
        BY <1>5, <2>1, <2>2, <2>4, <3>2
      <4>2. x \in page
        BY <1>9, <2>1, <2>2, <2>4, <4>1
      <4>3. QED
        BY <1>15, <4>2
    <3>3. CASE x \notin paged
      BY <1>6, <1>15, <3>1, <3>3
    <3>4. QED
      BY <3>2, <3>3
  <2>5. QED
    BY <1>1, <1>12, <1>14, <2>1, <2>3, <2>4
    DEF ListingInductive, Taken, Listing!ListingIsComplete
<1>17. CASE ~more
  <2>1. client'.at = "done"
    BY <1>1, <1>2, <1>17
  <2>2. page = paged
    BY <1>5, <1>17 DEF page
  <2>3. \A x \in kept : \E i \in DOMAIN got' : x \in got'[i]
    BY <1>2, <1>6, <1>15, <2>2
  <2>4. QED
    BY <1>1, <1>12, <1>14, <2>1, <2>3 DEF ListingInductive, Taken, Listing!ListingIsComplete
<1>18. QED
  BY <1>16, <1>17

(* A listing begins with no page, and with everything before it. *)
LEMMA BeginKeepsListing ==
    ASSUME Listing!ListingConstants, ListingInductive, Listing!Begin
    PROVE  ListingInductive'
<1>1. PICK n \in Limits : client' = [at |-> "paging", n |-> n, last |-> 0]
  BY DEF Listing!Begin
<1>2. got' = <<>> /\ kept' = present /\ present' = present
  BY DEF Listing!Begin
<1>3. DOMAIN got' = {}
  BY <1>2
<1>4. Listing!TypeOK'
  <2>1. client' \in [at : {"idle", "paging", "done"}, n : Limits \cup {0},
                     last : Names \cup {0}]
    BY <1>1
  <2>2. got' \in Seq(SUBSET Names)
    BY <1>2
  <2>3. QED
    BY <1>2, <2>1, <2>2 DEF ListingInductive, Listing!TypeOK
<1>5. \A x \in kept' : ~(x <= client'.last)
  <2>1. \A x \in kept' : x \in Nat /\ x # 0
    BY <1>2 DEF ListingInductive, Listing!TypeOK, Listing!ListingConstants
  <2>2. client'.last = 0
    BY <1>1
  <2>3. QED
    BY <2>1, <2>2
<1>6. client'.at # "done"
  BY <1>1
<1>7. QED
  BY <1>3, <1>4, <1>5, <1>6 DEF ListingInductive, Taken, Listing!ListingIsComplete

(* What others push and delete leaves the pages and "last" as they are. *)
LEMMA ChangeKeepsListing ==
    ASSUME ListingInductive, Listing!Change
    PROVE  ListingInductive'
<1>1. /\ client' = client
      /\ got' = got
      /\ kept' \subseteq kept
      /\ kept' \subseteq present'
      /\ present' \subseteq Names
  <2>1. present \subseteq Names
    BY DEF ListingInductive, Listing!TypeOK
  <2>2. QED
    BY <2>1 DEF Listing!Change
<1>2. QED
  BY <1>1 DEF ListingInductive, Taken, Listing!TypeOK, Listing!ListingIsComplete

(* The invariant of paging holds at every time. *)
LEMMA ListingInductiveAlways ==
    ASSUME Listing!ListingConstants
    PROVE  Listing!Spec => []ListingInductive
<1>1. Listing!Init => ListingInductive
  <2>1. SUFFICES ASSUME Listing!Init PROVE ListingInductive
    OBVIOUS
  <2>2. client = [at |-> "idle", n |-> 0, last |-> 0] /\ got = <<>> /\ kept = {}
    BY <2>1 DEF Listing!Init
  <2>3. client \in [at : {"idle", "paging", "done"}, n : Limits \cup {0}, last : Names \cup {0}]
    BY <2>2
  <2>4. DOMAIN got = {} /\ got \in Seq(SUBSET Names)
    BY <2>2
  <2>5. QED
    BY <2>1, <2>2, <2>3, <2>4
    DEF Listing!Init, ListingInductive, Listing!TypeOK, Listing!ListingIsComplete
<1>2. ListingInductive /\ [Listing!Next]_(Listing!vars) => ListingInductive'
  <2>1. SUFFICES ASSUME ListingInductive, [Listing!Next]_(Listing!vars)
                 PROVE  ListingInductive'
    OBVIOUS
  <2>2. CASE Listing!Begin
    BY <2>1, <2>2, BeginKeepsListing
  <2>3. CASE Listing!Request
    BY <2>1, <2>3, RequestKeepsListing
  <2>4. CASE Listing!Change
    BY <2>1, <2>4, ChangeKeepsListing
  <2>5. CASE UNCHANGED Listing!vars
    BY <2>1, <2>5
    DEF Listing!vars, ListingInductive, Taken, Listing!TypeOK, Listing!ListingIsComplete
  <2>6. QED
    BY <2>1, <2>2, <2>3, <2>4, <2>5 DEF Listing!Next
<1>3. QED
  BY <1>1, <1>2, PTL DEF Listing!Spec

-----------------------------------------------------------------------------
(***************************************************************************)
(* GarbageSchedule: types, and the grace period.                           *)
(***************************************************************************)
\* A collection was enabled when it began, and its cutoff stays that of this moment.
CutoffHolds ==
    /\ collection.phase = "walking" => collection.settings.enabled
    /\ collection.phase = "waiting" => collection.old = {}
    /\ \A n \in collection.old :
          manifest[n] # None => manifest[n].age >= collection.settings.delay

ScheduleInductive == Schedule!TypeOK /\ CutoffHolds

CollectionType ==
    [phase : {"waiting", "walking"}, todo : SUBSET Schedule!Collectable,
     old : SUBSET Schedule!Collectable, settings : Schedule!Setting]

ManifestType == {None} \cup [tagged : BOOLEAN, age : 0 .. MaxAge]

(* The loops begin with intervals that are not zero. *)
LEMMA ScheduleNumbers ==
    ASSUME Schedule!ScheduleConstants
    PROVE  /\ Schedule!StartInterval \in Nat \ {0}
           /\ Schedule!CleanupInterval \in Nat \ {0}
           /\ Schedule!Idle \in CollectionType
           /\ MaxAge \in Nat
           /\ UploadTTL \in Nat \ {0}
<1> USE DEF Schedule!ScheduleConstants
<1>1. Configured.interval \in Nat /\ Configured \in Schedule!Setting
  BY DEF Schedule!Setting
<1>2. Schedule!StartInterval \in Nat \ {0}
  BY <1>1 DEF Schedule!StartInterval
<1>3. UploadTTL \in Nat /\ UploadTTL > 0 /\ UploadTTL \div 2 \in Nat
  OBVIOUS
<1>4. Schedule!CleanupInterval \in Nat \ {0}
  BY <1>3 DEF Schedule!CleanupInterval
<1>5. Schedule!Idle \in CollectionType
  BY <1>1 DEF Schedule!Idle, CollectionType
<1>6. QED
  BY <1>2, <1>4, <1>5

(* The settings in force, and the interval that they make. *)
LEMMA SettingsInForce ==
    ASSUME Schedule!ScheduleConstants, Schedule!TypeOK
    PROVE  /\ Schedule!Effective \in Schedule!Setting
           /\ collection.settings \in Schedule!Setting
           /\ \A s \in Schedule!Setting :
                 Schedule!NextInterval(s) \in Nat \ {0} /\ s.delay \in Nat
<1>1. Configured \in Schedule!Setting /\ saved \in Schedule!Setting \cup {None}
  BY DEF Schedule!ScheduleConstants, Schedule!TypeOK
<1>2. Schedule!Effective \in Schedule!Setting
  BY <1>1 DEF Schedule!Effective
<1>3. collection.settings \in Schedule!Setting /\ interval \in Nat \ {0}
  BY DEF Schedule!TypeOK
<1>4. ASSUME NEW s \in Schedule!Setting
      PROVE  Schedule!NextInterval(s) \in Nat \ {0} /\ s.delay \in Nat
  <2>1. s.interval \in Nat /\ s.delay \in Nat
    BY DEF Schedule!Setting
  <2>2. QED
    BY <1>3, <2>1 DEF Schedule!NextInterval
<1>5. QED
  BY <1>2, <1>3, <1>4

(* The turn of the loop ends, whether its collection succeeded or not. *)
LEMMA RearmKeepsSchedule ==
    ASSUME Schedule!ScheduleConstants, ScheduleInductive,
           NEW i \in Nat \ {0}, Schedule!Rearm(i),
           UNCHANGED <<saved, manifest, upload>>,
           ticker' \in 1 .. Schedule!CleanupInterval, tickDue' \in BOOLEAN
    PROVE  ScheduleInductive'
<1>1. collection' = Schedule!Idle /\ interval' = i /\ timer' = i
  BY DEF Schedule!Rearm
<1>2. collection' \in CollectionType
  BY <1>1, ScheduleNumbers
<1>3. timer' \in 0 .. interval'
  BY <1>1
<1>4. Schedule!TypeOK'
  BY <1>1, <1>2, <1>3 DEF ScheduleInductive, Schedule!TypeOK, CollectionType
<1>5. CutoffHolds'
  BY <1>1 DEF CutoffHolds, Schedule!Idle
<1>6. QED
  BY <1>4, <1>5 DEF ScheduleInductive

(* A manifest that is pushed during a collection is not one of its old ones. *)
LEMMA PushKeepsSchedule ==
    ASSUME Schedule!ScheduleConstants, ScheduleInductive,
           NEW n \in Schedule!Collectable, NEW tagged \in BOOLEAN, Schedule!Push(n, tagged)
    PROVE  ScheduleInductive'
<1>1. /\ UNCHANGED <<saved, interval, timer, ticker, tickDue, upload>>
      /\ collection \in CollectionType
      /\ manifest \in [Schedule!Collectable -> ManifestType]
      /\ 0 \in 0 .. MaxAge
  BY ScheduleNumbers
  DEF Schedule!Push, Schedule!settings, ScheduleInductive, Schedule!TypeOK, CollectionType,
      ManifestType
<1>2. CASE manifest[n] = None
  <2>1. /\ manifest' = [manifest EXCEPT ![n] = [tagged |-> tagged, age |-> 0]]
        /\ collection' = [collection EXCEPT !.old = @ \ {n}]
    BY <1>2 DEF Schedule!Push
  <2>2. [tagged |-> tagged, age |-> 0] \in ManifestType
    BY <1>1 DEF ManifestType
  <2>3. manifest' \in [Schedule!Collectable -> ManifestType]
    BY <1>1, <2>1, <2>2
  <2>4. collection' \in CollectionType
    BY <1>1, <2>1 DEF CollectionType
  <2>5. CutoffHolds'
    BY <1>1, <2>1 DEF ScheduleInductive, CutoffHolds, CollectionType
  <2>6. QED
    BY <1>1, <2>3, <2>4, <2>5
    DEF ScheduleInductive, Schedule!TypeOK, CollectionType, ManifestType
<1>3. CASE manifest[n] # None
  <2>1. manifest' = [manifest EXCEPT ![n].tagged = tagged] /\ collection' = collection
    BY <1>3 DEF Schedule!Push
  <2>2. manifest[n] \in [tagged : BOOLEAN, age : 0 .. MaxAge]
    BY <1>1, <1>3 DEF ManifestType
  <2>3. [manifest[n] EXCEPT !.tagged = tagged] \in [tagged : BOOLEAN, age : 0 .. MaxAge]
    BY <2>2
  <2>4. manifest' = [manifest EXCEPT ![n] = [manifest[n] EXCEPT !.tagged = tagged]]
    BY <2>1
  <2>5. /\ manifest' \in [Schedule!Collectable -> ManifestType]
        /\ manifest'[n].age = manifest[n].age
        /\ \A m \in Schedule!Collectable : m # n => manifest'[m] = manifest[m]
    BY <1>1, <2>2, <2>3, <2>4 DEF ManifestType
  <2>6. CutoffHolds'
    BY <1>1, <1>3, <2>1, <2>5 DEF ScheduleInductive, CutoffHolds, CollectionType
  <2>7. QED
    BY <1>1, <2>1, <2>5, <2>6
    DEF ScheduleInductive, Schedule!TypeOK, CollectionType, ManifestType
<1>4. QED
  BY <1>2, <1>3

(* Manifests only grow older. *)
LEMMA TickKeepsSchedule ==
    ASSUME Schedule!ScheduleConstants, ScheduleInductive, Schedule!Tick
    PROVE  ScheduleInductive'
<1>1. /\ manifest' = [n \in Schedule!Collectable |->
                         IF manifest[n] = None THEN None
                         ELSE [manifest[n] EXCEPT !.age = Schedule!Older(@, MaxAge)]]
      /\ timer' = IF timer > 0 THEN timer - 1 ELSE 0
      /\ ticker' = IF ticker > 1 THEN ticker - 1 ELSE Schedule!CleanupInterval
      /\ tickDue' = (tickDue \/ ticker = 1)
      /\ upload' = IF upload = None THEN None ELSE Schedule!Older(upload, UploadTTL)
      /\ UNCHANGED <<saved, interval, collection>>
  BY DEF Schedule!Tick, Schedule!settings
<1>2. /\ manifest \in [Schedule!Collectable -> ManifestType]
      /\ timer \in 0 .. interval
      /\ interval \in Nat
      /\ ticker \in 1 .. Schedule!CleanupInterval
      /\ upload \in {None} \cup 0 .. UploadTTL
      /\ collection \in CollectionType
  BY DEF ScheduleInductive, Schedule!TypeOK, ManifestType, CollectionType
<1>3. \A bound \in Nat : \A age \in 0 .. bound :
         Schedule!Older(age, bound) \in 0 .. bound /\ Schedule!Older(age, bound) >= age
  BY DEF Schedule!Older
<1>4. timer' \in 0 .. interval' /\ ticker' \in 1 .. Schedule!CleanupInterval
      /\ upload' \in {None} \cup 0 .. UploadTTL /\ tickDue' \in BOOLEAN
  <2>1. timer' \in 0 .. interval'
    BY <1>1, <1>2
  <2>2. ticker' \in 1 .. Schedule!CleanupInterval
    BY <1>1, <1>2, ScheduleNumbers
  <2>3. upload' \in {None} \cup 0 .. UploadTTL
    BY <1>1, <1>2, <1>3, ScheduleNumbers
  <2>4. tickDue' \in BOOLEAN
    BY <1>1
  <2>5. QED
    BY <2>1, <2>2, <2>3, <2>4
<1>5. ASSUME NEW n \in Schedule!Collectable, manifest[n] # None
      PROVE  /\ manifest'[n] \in ManifestType
             /\ manifest'[n].age >= manifest[n].age
             /\ manifest[n].age \in Nat /\ manifest'[n].age \in Nat
  <2>1. manifest[n] \in [tagged : BOOLEAN, age : 0 .. MaxAge]
    BY <1>2, <1>5 DEF ManifestType
  <2>2. manifest'[n] = [manifest[n] EXCEPT !.age = Schedule!Older(@, MaxAge)]
    BY <1>1, <1>5
  <2>3. /\ Schedule!Older(manifest[n].age, MaxAge) \in 0 .. MaxAge
        /\ Schedule!Older(manifest[n].age, MaxAge) >= manifest[n].age
    BY <1>3, <2>1, ScheduleNumbers
  <2>4. manifest'[n] \in [tagged : BOOLEAN, age : 0 .. MaxAge]
    BY <2>1, <2>2, <2>3
  <2>5. QED
    BY <2>1, <2>2, <2>3, <2>4 DEF ManifestType
<1>6. manifest' \in [Schedule!Collectable -> ManifestType]
  BY <1>1, <1>5 DEF ManifestType
<1>7. CutoffHolds'
  <2>1. ASSUME NEW n \in collection.old, manifest'[n] # None
        PROVE  manifest'[n].age >= collection.settings.delay
    <3>1. n \in Schedule!Collectable /\ collection.settings.delay \in Nat
      BY <1>2 DEF CollectionType, Schedule!Setting
    <3>2. manifest[n] # None
      BY <1>1, <2>1, <3>1
    <3>3. manifest[n].age >= collection.settings.delay
      BY <3>2 DEF ScheduleInductive, CutoffHolds
    <3>4. QED
      BY <1>5, <3>1, <3>2, <3>3
  <2>2. QED
    BY <1>1, <2>1 DEF ScheduleInductive, CutoffHolds
<1>8. QED
  BY <1>1, <1>4, <1>6, <1>7 DEF ScheduleInductive, Schedule!TypeOK, ManifestType

(* A collection begins with the settings of its moment; its old manifests are old
   enough for them. *)
LEMMA FireKeepsSchedule ==
    ASSUME Schedule!ScheduleConstants, ScheduleInductive, Schedule!Fire
    PROVE  ScheduleInductive'
<1>1. UNCHANGED <<saved, manifest, upload, ticker, tickDue>>
  BY DEF Schedule!Fire, Schedule!store
<1>2. /\ ticker \in 1 .. Schedule!CleanupInterval /\ tickDue \in BOOLEAN
      /\ manifest \in [Schedule!Collectable -> ManifestType]
      /\ Schedule!Effective \in Schedule!Setting
      /\ Schedule!NextInterval(Schedule!Effective) \in Nat \ {0}
  BY SettingsInForce DEF ScheduleInductive, Schedule!TypeOK, ManifestType
<1>3. CASE Schedule!Effective.enabled
  <2>1. /\ collection' = [phase |-> "walking",
                          todo |-> {n \in Schedule!Collectable : manifest[n] # None},
                          old |-> Schedule!OlderThan(Schedule!Effective.delay),
                          settings |-> Schedule!Effective]
        /\ UNCHANGED <<interval, timer>>
    BY <1>3 DEF Schedule!Fire
  <2>2. collection' \in CollectionType
    BY <1>2, <2>1 DEF CollectionType, Schedule!OlderThan
  <2>3. CutoffHolds'
    BY <1>1, <1>3, <2>1 DEF CutoffHolds, Schedule!OlderThan
  <2>4. QED
    BY <1>1, <2>1, <2>2, <2>3 DEF ScheduleInductive, Schedule!TypeOK, CollectionType
<1>4. CASE ~Schedule!Effective.enabled
  <2>1. Schedule!Rearm(Schedule!NextInterval(Schedule!Effective))
    BY <1>4 DEF Schedule!Fire
  <2>2. ticker' \in 1 .. Schedule!CleanupInterval /\ tickDue' \in BOOLEAN
    BY <1>1, <1>2
  <2>3. QED
    BY <1>1, <1>2, <2>1, <2>2, RearmKeepsSchedule
<1>5. QED
  BY <1>3, <1>4

(* A visit may take a manifest away and goes on, or ends the walk. *)
LEMMA VisitKeepsSchedule ==
    ASSUME Schedule!ScheduleConstants, ScheduleInductive, Schedule!Visit
    PROVE  ScheduleInductive'
<1> DEFINE n == Schedule!NextToVisit
<1>1. UNCHANGED <<saved, upload, ticker, tickDue>>
  BY DEF Schedule!Visit
<1>2. /\ ticker \in 1 .. Schedule!CleanupInterval /\ tickDue \in BOOLEAN
      /\ manifest \in [Schedule!Collectable -> ManifestType]
      /\ collection \in CollectionType
      /\ Schedule!NextInterval(collection.settings) \in Nat \ {0}
  BY SettingsInForce
  DEF ScheduleInductive, Schedule!TypeOK, ManifestType, CollectionType
<1>3. CASE Schedule!EndsWalk(n)
  <2>1. Schedule!Rearm(Schedule!NextInterval(collection.settings)) /\ UNCHANGED manifest
    BY <1>3 DEF Schedule!Visit
  <2>2. ticker' \in 1 .. Schedule!CleanupInterval /\ tickDue' \in BOOLEAN
    BY <1>1, <1>2
  <2>3. QED
    BY <1>1, <1>2, <2>1, <2>2, RearmKeepsSchedule
<1>4. CASE ~Schedule!EndsWalk(n)
  <2> HIDE DEF n
  <2>1. /\ manifest' = IF Schedule!Collected(n) THEN [manifest EXCEPT ![n] = None]
                       ELSE manifest
        /\ collection' = [collection EXCEPT !.todo = @ \ {n}]
        /\ UNCHANGED <<interval, timer>>
    BY <1>4 DEF n, Schedule!Visit, Schedule!AfterVisit
  <2>2. /\ manifest' \in [Schedule!Collectable -> ManifestType]
        /\ \A m \in Schedule!Collectable : manifest'[m] # None => manifest'[m] = manifest[m]
    BY <1>2, <2>1 DEF ManifestType
  <2>3. /\ collection' \in CollectionType
        /\ collection'.phase = collection.phase
        /\ collection'.old = collection.old
        /\ collection'.settings = collection.settings
    BY <1>2, <2>1 DEF CollectionType
  <2>4. CutoffHolds'
    BY <1>2, <2>2, <2>3 DEF ScheduleInductive, CutoffHolds, CollectionType
  <2>5. QED
    BY <1>1, <2>1, <2>2, <2>3, <2>4
    DEF ScheduleInductive, Schedule!TypeOK, CollectionType, ManifestType
<1>5. QED
  BY <1>3, <1>4

(* What ends a turn of the loop otherwise: the end of a walk, an error, a restart. *)
LEMMA EndingKeepsSchedule ==
    ASSUME Schedule!ScheduleConstants, ScheduleInductive,
           \/ Schedule!EndWalk \/ Schedule!LoadFails
           \/ Schedule!VisitFails \/ Schedule!Restart
    PROVE  ScheduleInductive'
<1>1. /\ ticker \in 1 .. Schedule!CleanupInterval /\ tickDue \in BOOLEAN
      /\ interval \in Nat \ {0}
      /\ Schedule!NextInterval(collection.settings) \in Nat \ {0}
      /\ Schedule!StartInterval \in Nat \ {0}
      /\ Schedule!CleanupInterval \in Nat \ {0}
  BY SettingsInForce, ScheduleNumbers DEF ScheduleInductive, Schedule!TypeOK
<1>2. UNCHANGED <<saved, manifest, upload>>
  BY DEF Schedule!EndWalk, Schedule!LoadFails, Schedule!VisitFails, Schedule!Restart,
         Schedule!store
<1>3. ticker' \in 1 .. Schedule!CleanupInterval /\ tickDue' \in BOOLEAN
  <2>1. \/ ticker' = ticker /\ tickDue' = tickDue
        \/ ticker' = Schedule!CleanupInterval /\ tickDue' = FALSE
    BY DEF Schedule!EndWalk, Schedule!LoadFails, Schedule!VisitFails, Schedule!Restart
  <2>2. ticker' \in 1 .. Schedule!CleanupInterval
    BY <1>1, <2>1
  <2>3. tickDue' \in BOOLEAN
    BY <1>1, <2>1, Zenon
  <2>4. QED
    BY <2>2, <2>3
<1>4. PICK i \in Nat \ {0} : Schedule!Rearm(i)
  BY <1>1 DEF Schedule!EndWalk, Schedule!LoadFails, Schedule!VisitFails, Schedule!Restart
<1>5. QED
  BY <1>2, <1>3, <1>4, RearmKeepsSchedule

(* What clients, administrators and the cleanup do leaves the collector alone. *)
LEMMA OthersKeepSchedule ==
    ASSUME Schedule!ScheduleConstants, ScheduleInductive,
           \/ Schedule!SaveSettings \/ Schedule!WriteUpload \/ Schedule!EndUpload
           \/ Schedule!Cleanup \/ Schedule!CleanupFails
    PROVE  ScheduleInductive'
<1>1. UNCHANGED <<interval, timer, collection, manifest, ticker>>
  BY DEF Schedule!SaveSettings, Schedule!WriteUpload, Schedule!EndUpload, Schedule!Cleanup,
         Schedule!CleanupFails, Schedule!settings, Schedule!loops, Schedule!store
<1>2. saved' \in Schedule!Setting \cup {None}
  BY DEF Schedule!SaveSettings, Schedule!WriteUpload, Schedule!EndUpload, Schedule!Cleanup,
         Schedule!CleanupFails, Schedule!settings, ScheduleInductive, Schedule!TypeOK,
         Schedule!ScheduleConstants
<1>3. upload' \in {None} \cup 0 .. UploadTTL
  BY ScheduleNumbers
  DEF Schedule!SaveSettings, Schedule!WriteUpload, Schedule!EndUpload, Schedule!Cleanup,
      Schedule!CleanupFails, Schedule!store, ScheduleInductive, Schedule!TypeOK
<1>4. tickDue' \in BOOLEAN
  BY DEF Schedule!SaveSettings, Schedule!WriteUpload, Schedule!EndUpload, Schedule!Cleanup,
         Schedule!CleanupFails, Schedule!loops, ScheduleInductive, Schedule!TypeOK
<1>5. QED
  BY <1>1, <1>2, <1>3, <1>4 DEF ScheduleInductive, Schedule!TypeOK, CutoffHolds

(* The invariant of the schedule holds at every time. *)
LEMMA ScheduleInductiveAlways ==
    ASSUME Schedule!ScheduleConstants
    PROVE  Schedule!Spec => []ScheduleInductive
<1>1. Schedule!Init => ScheduleInductive
  <2>1. SUFFICES ASSUME Schedule!Init PROVE ScheduleInductive
    OBVIOUS
  <2>2. /\ saved = None /\ upload = None /\ tickDue = FALSE
        /\ interval = Schedule!StartInterval /\ timer = Schedule!StartInterval
        /\ collection = Schedule!Idle
        /\ manifest = [n \in Schedule!Collectable |-> None]
        /\ ticker = Schedule!CleanupInterval
    BY <2>1 DEF Schedule!Init
  <2>3. collection \in CollectionType /\ timer \in 0 .. interval
        /\ ticker \in 1 .. Schedule!CleanupInterval /\ interval \in Nat \ {0}
    BY <2>2, ScheduleNumbers
  <2>4. CutoffHolds
    BY <2>2 DEF CutoffHolds, Schedule!Idle
  <2>5. QED
    BY <2>2, <2>3, <2>4 DEF ScheduleInductive, Schedule!TypeOK, CollectionType
<1>2. ScheduleInductive /\ [Schedule!Next]_(Schedule!vars) => ScheduleInductive'
  <2>1. SUFFICES ASSUME ScheduleInductive, [Schedule!Next]_(Schedule!vars)
                 PROVE  ScheduleInductive'
    OBVIOUS
  <2>2. ASSUME NEW n \in Schedule!Collectable, NEW tagged \in BOOLEAN,
               Schedule!Push(n, tagged)
        PROVE  ScheduleInductive'
    BY <2>1, <2>2, PushKeepsSchedule
  <2>3. CASE Schedule!Tick
    BY <2>1, <2>3, TickKeepsSchedule
  <2>4. CASE Schedule!Fire
    BY <2>1, <2>4, FireKeepsSchedule
  <2>5. CASE Schedule!Visit
    BY <2>1, <2>5, VisitKeepsSchedule
  <2>6. CASE \/ Schedule!EndWalk \/ Schedule!LoadFails
             \/ Schedule!VisitFails \/ Schedule!Restart
    BY <2>1, <2>6, EndingKeepsSchedule
  <2>7. CASE \/ Schedule!SaveSettings \/ Schedule!WriteUpload \/ Schedule!EndUpload
             \/ Schedule!Cleanup \/ Schedule!CleanupFails
    BY <2>1, <2>7, OthersKeepSchedule
  <2>8. CASE UNCHANGED Schedule!vars
    BY <2>1, <2>8
    DEF Schedule!vars, Schedule!settings, Schedule!loops, Schedule!store, ScheduleInductive,
        Schedule!TypeOK, CutoffHolds
  <2>9. QED
    BY <2>1, <2>2, <2>3, <2>4, <2>5, <2>6, <2>7, <2>8
    DEF Schedule!Next, Schedule!CollectorStep
<1>3. QED
  BY <1>1, <1>2, PTL DEF Schedule!Spec

(* README: "Garbage collection removes untagged manifest records after the
   configured grace period."  A manifest goes only in a collection that was enabled
   when it began, untagged, and with a directory no younger than the grace period of
   that moment, whatever is saved, pushed or tagged while the collection runs. *)
CollectionsHonourTheGracePeriod ==
    [][\A n \in Schedule!Collectable :
          manifest[n] # None /\ manifest'[n] = None =>
             /\ collection.phase = "walking"
             /\ collection.settings.enabled
             /\ ~manifest[n].tagged
             /\ manifest[n].age >= collection.settings.delay]_(Schedule!vars)

(* Only a visit takes a manifest away: an untagged one that was old when the
   collection began, and a push renews none of these. *)
THEOREM GracePeriodIsHonoured ==
    ASSUME Schedule!ScheduleConstants
    PROVE  Schedule!Spec => CollectionsHonourTheGracePeriod
<1> DEFINE Gone(n) == manifest[n] # None /\ manifest'[n] = None
           Honoured(n) == /\ collection.phase = "walking"
                          /\ collection.settings.enabled
                          /\ ~manifest[n].tagged
                          /\ manifest[n].age >= collection.settings.delay
<1>1. ASSUME ScheduleInductive, [Schedule!Next]_(Schedule!vars),
             NEW n \in Schedule!Collectable, Gone(n)
      PROVE  Honoured(n)
  <2>1. /\ manifest \in [Schedule!Collectable -> ManifestType]
        /\ collection \in CollectionType
    BY <1>1 DEF ScheduleInductive, Schedule!TypeOK, ManifestType, CollectionType
  <2>2. CASE Schedule!Visit
    <3>1. Schedule!Collected(n)
      BY <1>1, <2>1, <2>2 DEF Schedule!Visit
    <3>2. n \in collection.old /\ ~manifest[n].tagged
      BY <3>1 DEF Schedule!Collected
    <3>3. collection.phase = "walking"
      BY <2>2 DEF Schedule!Visit
    <3>4. QED
      BY <1>1, <3>2, <3>3 DEF ScheduleInductive, CutoffHolds
  <2>3. ASSUME NEW m \in Schedule!Collectable, NEW tagged \in BOOLEAN,
               Schedule!Push(m, tagged)
        PROVE  FALSE
    <3>1. CASE manifest[m] = None
      <4>1. manifest' = [manifest EXCEPT ![m] = [tagged |-> tagged, age |-> 0]]
        BY <2>3, <3>1 DEF Schedule!Push
      <4>2. n # m
        BY <1>1, <3>1
      <4>3. QED
        BY <1>1, <2>1, <4>1, <4>2
    <3>2. CASE manifest[m] # None
      <4>1. manifest' = [manifest EXCEPT ![m] = [manifest[m] EXCEPT !.tagged = tagged]]
        BY <2>3, <3>2 DEF Schedule!Push
      <4>2. [manifest[m] EXCEPT !.tagged = tagged] \in [tagged : BOOLEAN, age : 0 .. MaxAge]
        BY <2>1, <3>2 DEF ManifestType
      <4>3. manifest'[n] # None
        BY <1>1, <2>1, <4>1, <4>2 DEF Schedule!ScheduleConstants
      <4>4. QED
        BY <1>1, <4>3
    <3>3. QED
      BY <3>1, <3>2
  <2>4. CASE Schedule!Tick
    <3>1. manifest'[n] = [manifest[n] EXCEPT !.age = Schedule!Older(@, MaxAge)]
      BY <1>1, <2>4 DEF Schedule!Tick
    <3>2. manifest[n] \in [tagged : BOOLEAN, age : 0 .. MaxAge]
      BY <1>1, <2>1 DEF ManifestType
    <3>3. Schedule!Older(manifest[n].age, MaxAge) \in 0 .. MaxAge
      BY <3>2, ScheduleNumbers DEF Schedule!Older
    <3>4. manifest'[n] \in [tagged : BOOLEAN, age : 0 .. MaxAge]
      BY <3>1, <3>2, <3>3
    <3>5. QED
      BY <1>1, <3>4 DEF Schedule!ScheduleConstants
  <2>5. ASSUME UNCHANGED manifest
        PROVE  FALSE
    BY <1>1, <2>5
  <2>6. QED
    BY <1>1, <2>2, <2>3, <2>4, <2>5
    DEF Schedule!Next, Schedule!CollectorStep, Schedule!SaveSettings, Schedule!WriteUpload,
        Schedule!EndUpload, Schedule!Fire, Schedule!EndWalk, Schedule!Cleanup,
        Schedule!LoadFails, Schedule!VisitFails, Schedule!CleanupFails, Schedule!Restart,
        Schedule!store, Schedule!vars
<1>2. ASSUME ScheduleInductive, [Schedule!Next]_(Schedule!vars)
      PROVE  [\A n \in Schedule!Collectable : Gone(n) => Honoured(n)]_(Schedule!vars)
  BY <1>1, <1>2
<1>3. QED
  BY <1>2, ScheduleInductiveAlways, PTL DEF Schedule!Spec, CollectionsHonourTheGracePeriod

-----------------------------------------------------------------------------
(***************************************************************************)
(* BlobLinkMigration, for any data and any number of starts and crashes.   *)
(***************************************************************************)
\* The blobs that are owed are linked, or a client has removed their link.
Settled == owed \subseteq links \cup unlinked

\* Without the marker nobody was served: the references are those of the old data.
BeforeMarker ==
    /\ phase # "serving"
    /\ unlinked = {}
    /\ owed \subseteq references
    /\ \A pair \in owed : pair[2] \in stored

\* What the migration has not looked at is still to be done.
Migrated == phase = "migrating" => ~marker /\ owed \subseteq links \cup todo

\* Only a server that listens admits pushes, after it found the links.
Admitted ==
    /\ admitted # {} => phase = "serving"
    /\ admitted \subseteq links \cup unlinked

MigrationInductive ==
    /\ Migration!TypeOK
    /\ links \cap unlinked = {}
    /\ marker => Settled
    /\ ~marker => BeforeMarker
    /\ Migrated
    /\ Admitted

(* Every step keeps the types; a step that links a blob links one of the data. *)
LEMMA MigrationKeepsTypes ==
    ASSUME Migration!TypeOK, [Migration!Next]_(Migration!vars)
    PROVE  Migration!TypeOK'
<1> USE DEF Migration!TypeOK
<1>1. CASE Migration!Start
  BY <1>1 DEF Migration!Start, Migration!MarkerAtStart
<1>2. CASE Migration!Link
  BY <1>2 DEF Migration!Link
<1>3. CASE Migration!WriteMarker \/ Migration!Stop \/ Migration!PutManifest
  BY <1>3 DEF Migration!WriteMarker, Migration!Stop, Migration!PutManifest
<1>4. ASSUME NEW r \in Repositories, NEW b \in Blobs,
             \/ Migration!Upload(r, b)
             \/ Migration!CheckBlob(r, b)
             \/ Migration!DeleteRepositoryBlob(r, b)
      PROVE  Migration!TypeOK'
  <2>1. <<r, b>> \in Migration!Pairs
    BY DEF Migration!Pairs
  <2>2. QED
    BY <1>4, <2>1 DEF Migration!Upload, Migration!CheckBlob, Migration!DeleteRepositoryBlob
<1>5. CASE UNCHANGED Migration!vars
  BY <1>5 DEF Migration!vars
<1>6. QED
  BY <1>1, <1>2, <1>3, <1>4, <1>5 DEF Migration!Next

(* Every step of the server's start keeps the invariant: the marker comes only
   after the last link. *)
LEMMA StartKeepsMigration ==
    ASSUME MigrationInductive, Migration!TypeOK',
           Migration!Start \/ Migration!Link \/ Migration!WriteMarker \/ Migration!Stop
    PROVE  MigrationInductive'
<1> USE DEF MigrationInductive, Settled, BeforeMarker, Migrated, Admitted
<1>1. CASE Migration!Start
  BY <1>1 DEF Migration!Start, Migration!MarkerAtStart
<1>2. CASE Migration!Link
  <2>1. PICK pair \in todo :
           /\ links' = IF pair[2] \in stored THEN links \cup {pair} ELSE links
           /\ todo' = todo \ {pair}
    BY <1>2 DEF Migration!Link
  <2>2. ~marker /\ phase = "migrating" /\ unlinked = {}
    BY <1>2 DEF Migration!Link
  <2>3. links \subseteq links'
    BY <2>1
  <2>4. ASSUME NEW p \in owed
        PROVE  p \in links' \cup todo'
    BY <2>1, <2>2, <2>4
  <2>5. QED
    BY <1>2, <2>2, <2>3, <2>4 DEF Migration!Link
<1>3. CASE Migration!WriteMarker
  BY <1>3 DEF Migration!WriteMarker
<1>4. CASE Migration!Stop
  BY <1>4 DEF Migration!Stop
<1>5. QED
  BY <1>1, <1>2, <1>3, <1>4

(* Every step of a server that listens keeps the invariant: a link goes only into
   "unlinked", and a push is admitted only with what is linked. *)
LEMMA ServiceKeepsMigration ==
    ASSUME MigrationInductive, Migration!TypeOK', NEW r \in Repositories, NEW b \in Blobs,
           \/ Migration!Upload(r, b)
           \/ Migration!CheckBlob(r, b)
           \/ Migration!DeleteRepositoryBlob(r, b)
    PROVE  MigrationInductive'
<1> USE DEF MigrationInductive, Settled, BeforeMarker, Migrated, Admitted
<1>1. CASE Migration!Upload(r, b)
  BY <1>1 DEF Migration!Upload
<1>2. CASE Migration!CheckBlob(r, b)
  BY <1>2 DEF Migration!CheckBlob
<1>3. CASE Migration!DeleteRepositoryBlob(r, b)
  BY <1>3 DEF Migration!DeleteRepositoryBlob
<1>4. QED
  BY <1>1, <1>2, <1>3

(* The invariant of the migration holds at every time. *)
LEMMA MigrationInductiveAlways == Migration!Spec => []MigrationInductive
<1>1. Migration!Init => MigrationInductive
  BY DEF Migration!Init, Migration!TypeOK, MigrationInductive, Settled, BeforeMarker, Migrated,
         Admitted
<1>2. MigrationInductive /\ [Migration!Next]_(Migration!vars) => MigrationInductive'
  <2>1. SUFFICES ASSUME MigrationInductive, [Migration!Next]_(Migration!vars)
                 PROVE  MigrationInductive'
    OBVIOUS
  <2>2. Migration!TypeOK'
    BY <2>1, MigrationKeepsTypes DEF MigrationInductive
  <2>3. CASE Migration!Start \/ Migration!Link \/ Migration!WriteMarker \/ Migration!Stop
    BY <2>1, <2>2, <2>3, StartKeepsMigration
  <2>4. CASE Migration!PutManifest
    BY <2>1, <2>2, <2>4
    DEF Migration!PutManifest, MigrationInductive, Settled, BeforeMarker, Migrated, Admitted
  <2>5. ASSUME NEW r \in Repositories, NEW b \in Blobs,
               \/ Migration!Upload(r, b)
               \/ Migration!CheckBlob(r, b)
               \/ Migration!DeleteRepositoryBlob(r, b)
        PROVE  MigrationInductive'
    BY <2>1, <2>2, <2>5, ServiceKeepsMigration
  <2>6. CASE UNCHANGED Migration!vars
    BY <2>1, <2>2, <2>6
    DEF Migration!vars, MigrationInductive, Settled, BeforeMarker, Migrated, Admitted
  <2>7. QED
    BY <2>1, <2>3, <2>4, <2>5, <2>6 DEF Migration!Next
<1>3. QED
  BY <1>1, <1>2, PTL DEF Migration!Spec

(* Once the server listens, the blobs of every manifest are linked or a client
   has unlinked them, and no link that a client has removed comes back. *)
LEMMA LinksSurvive == Migration!Spec => []Migration!LinksSurviveTheMigration
<1>1. MigrationInductive => Migration!LinksSurviveTheMigration
  BY DEF MigrationInductive, Settled, BeforeMarker, Migration!LinksSurviveTheMigration
<1>2. QED
  BY <1>1, MigrationInductiveAlways, PTL

-----------------------------------------------------------------------------
(***************************************************************************)
(* MCServices: a behaviour of the process is one of each of its parts.     *)
(***************************************************************************)
Deliveries == INSTANCE WebhookQueueProofs WITH faults <- failures, restarts <- crashes
Attempts == INSTANCE AuthLimiterProofs

(* The limiter that was proved about is the one of the process. *)
LEMMA SameLimiter ==
    /\ Limiter!Init => Attempts!Init
    /\ Limiter!Next => Attempts!Next
    /\ UNCHANGED Limiter!vars => UNCHANGED Attempts!vars
    /\ Limiter!LimiterConstants => Attempts!LimiterConstants
    /\ Attempts!TypeOK => Limiter!TypeOK
    /\ Attempts!AttemptsAreLimited => Limiter!AttemptsAreLimited
<1>1. \A S : Limiter!Cardinality(S) = Attempts!Cardinality(S)
  BY DEF Limiter!Cardinality, Attempts!Cardinality
<1>2. Limiter!Init => Attempts!Init
  BY DEF Limiter!Init, Attempts!Init, Limiter!Keys, Attempts!Keys
<1>3. ASSUME NEW c \in Callers, Limiter!ReadClock(c)
      PROVE  Attempts!ReadClock(c)
  BY <1>3 DEF Limiter!ReadClock, Attempts!ReadClock
<1>4. ASSUME NEW c \in Callers, Limiter!Allow(c)
      PROVE  Attempts!Allow(c)
  <2>1. \A k, now : Limiter!Admission(k, now) = Attempts!Admission(k, now)
    BY <1>1 DEF Limiter!Admission, Attempts!Admission
  <2>2. \A w, now : Limiter!Counted(w, now) = Attempts!Counted(w, now)
    BY DEF Limiter!Counted, Attempts!Counted, Limiter!Live, Attempts!Live
  <2>3. \A now : Limiter!Swept(now) = Attempts!Swept(now)
    BY DEF Limiter!Swept, Attempts!Swept, Limiter!Expired, Attempts!Expired,
           Limiter!Keys, Attempts!Keys
  <2>4. \A k : Limiter!Limit(k) = Attempts!Limit(k)
    BY DEF Limiter!Limit, Attempts!Limit
  <2>5. QED
    BY <1>4, <2>1, <2>2, <2>3, <2>4
    DEF Limiter!Allow, Attempts!Allow, Limiter!Live, Attempts!Live, Limiter!Keys, Attempts!Keys
<1>5. Limiter!Tick => Attempts!Tick
  BY DEF Limiter!Tick, Attempts!Tick
<1>6. Limiter!Next => Attempts!Next
  BY <1>3, <1>4, <1>5 DEF Limiter!Next, Attempts!Next
<1>7. UNCHANGED Limiter!vars => UNCHANGED Attempts!vars
  BY DEF Limiter!vars, Attempts!vars
<1>8. Limiter!LimiterConstants => Attempts!LimiterConstants
  BY DEF Limiter!LimiterConstants, Attempts!LimiterConstants
<1>9. Attempts!TypeOK => Limiter!TypeOK
  BY DEF Limiter!TypeOK, Attempts!TypeOK, Limiter!Times, Attempts!Times, Limiter!Keys,
         Attempts!Keys
<1>10. Attempts!AttemptsAreLimited => Limiter!AttemptsAreLimited
  BY <1>1
  DEF Limiter!AttemptsAreLimited, Attempts!AttemptsAreLimited, Limiter!During, Attempts!During,
      Limiter!Limit, Attempts!Limit, Limiter!Times, Attempts!Times, Limiter!Keys, Attempts!Keys
<1>11. QED
  BY <1>2, <1>6, <1>7, <1>8, <1>9, <1>10

(* So is the dispatcher. *)
LEMMA SameWebhooks ==
    /\ Webhooks!Init => Deliveries!Init
    /\ Webhooks!Next => Deliveries!Next
    /\ UNCHANGED Webhooks!vars => UNCHANGED Deliveries!vars
    /\ Deliveries!TypeOK => Webhooks!TypeOK
    /\ Deliveries!DeliveriesFollowTheLog => Webhooks!DeliveriesFollowTheLog
<1>1. Webhooks!IdleHandler = Deliveries!IdleHandler
  BY DEF Webhooks!IdleHandler, Deliveries!IdleHandler, Webhooks!NoEvent, Deliveries!NoEvent
<1>2. Webhooks!IdleWorker = Deliveries!IdleWorker
  BY DEF Webhooks!IdleWorker, Deliveries!IdleWorker, Webhooks!NoEvent, Deliveries!NoEvent
<1>3. Webhooks!Init => Deliveries!Init
  BY <1>1, <1>2 DEF Webhooks!Init, Deliveries!Init
<1> USE DEF Webhooks!budget, Deliveries!budget, Webhooks!Goto, Deliveries!Goto
<1>4. ASSUME NEW h \in Handlers,
             \/ Webhooks!Audit(h) \/ Webhooks!HandlerStep(h) \/ Webhooks!InsertFails(h)
      PROVE  \/ Deliveries!Audit(h) \/ Deliveries!HandlerStep(h) \/ Deliveries!InsertFails(h)
  <2>1. Webhooks!Audit(h) => Deliveries!Audit(h)
    BY DEF Webhooks!Audit, Deliveries!Audit
  <2>2. Webhooks!InsertAuditEvent(h) => Deliveries!InsertAuditEvent(h)
    BY DEF Webhooks!InsertAuditEvent, Deliveries!InsertAuditEvent
  <2>3. Webhooks!Enqueue(h) => Deliveries!Enqueue(h)
    BY DEF Webhooks!Enqueue, Deliveries!Enqueue, Webhooks!HasRoom, Deliveries!HasRoom
  <2>4. Webhooks!InsertFails(h) => Deliveries!InsertFails(h)
    BY DEF Webhooks!InsertFails, Deliveries!InsertFails, Webhooks!AfterFailedInsert,
                Deliveries!AfterFailedInsert
  <2>5. QED
    BY <1>4, <2>1, <2>2, <2>3, <2>4 DEF Webhooks!HandlerStep, Deliveries!HandlerStep
<1>5. Webhooks!SaveURL => Deliveries!SaveURL
  BY DEF Webhooks!SaveURL, Deliveries!SaveURL
<1>6. Webhooks!WorkerStep => Deliveries!WorkerStep
  <2>1. Webhooks!Receive => Deliveries!Receive
    BY DEF Webhooks!Receive, Deliveries!Receive
  <2>2. Webhooks!LoadSettings => Deliveries!LoadSettings
    BY <1>2 DEF Webhooks!LoadSettings, Deliveries!LoadSettings, Webhooks!Destination,
                      Deliveries!Destination
  <2>3. Webhooks!Arrives => Deliveries!Arrives
    BY <1>2 DEF Webhooks!Arrives, Deliveries!Arrives, Webhooks!Reaches, Deliveries!Reaches
  <2>4. Webhooks!Lost => Deliveries!Lost
    BY <1>2 DEF Webhooks!Lost, Deliveries!Lost, Webhooks!AfterFailedDelivery,
                      Deliveries!AfterFailedDelivery
  <2>5. Webhooks!FollowRedirect => Deliveries!FollowRedirect
    BY DEF Webhooks!FollowRedirect, Deliveries!FollowRedirect, Webhooks!Reaches,
           Deliveries!Reaches, Webhooks!Redirected, Deliveries!Redirected
  <2>6. QED
    BY <2>1, <2>2, <2>3, <2>4, <2>5 DEF Webhooks!WorkerStep, Deliveries!WorkerStep
<1>7. Webhooks!LoadFails => Deliveries!LoadFails
  BY <1>2 DEF Webhooks!LoadFails, Deliveries!LoadFails, Webhooks!AfterFailedDelivery,
              Deliveries!AfterFailedDelivery
<1>8. Webhooks!Restart => Deliveries!Restart
  BY <1>1, <1>2 DEF Webhooks!Restart, Deliveries!Restart
<1>9. Webhooks!Next => Deliveries!Next
  BY <1>4, <1>5, <1>6, <1>7, <1>8 DEF Webhooks!Next, Deliveries!Next
<1>10. UNCHANGED Webhooks!vars => UNCHANGED Deliveries!vars
  BY DEF Webhooks!vars, Deliveries!vars
<1>11. Deliveries!TypeOK => Webhooks!TypeOK
  BY DEF Webhooks!TypeOK, Deliveries!TypeOK, Webhooks!Event, Deliveries!Event,
         Webhooks!Delivery, Deliveries!Delivery
<1>12. Deliveries!DeliveriesFollowTheLog => Webhooks!DeliveriesFollowTheLog
  BY DEF Webhooks!DeliveriesFollowTheLog, Deliveries!DeliveriesFollowTheLog
<1>13. QED
  BY <1>3, <1>9, <1>10, <1>11, <1>12

(* The process starts as each of its parts does. *)
LEMMA PartsInitially ==
    ASSUME ServicesInit
    PROVE  /\ Init
           /\ Schedule!Init
           /\ Webhooks!Init
           /\ Limiter!Init
           /\ Listing!Init
           /\ Migration!Init
BY DEF ServicesInit

(* A step of the process is one step of one part, and changes nothing of another. *)
LEMMA PartsStep ==
    ASSUME [ServicesNext]_allVars
    PROVE  /\ [Next]_vars
           /\ [Schedule!Next]_(Schedule!vars)
           /\ [Webhooks!Next]_(Webhooks!vars)
           /\ [Limiter!Next]_(Limiter!vars)
           /\ [Listing!Next]_(Listing!vars)
           /\ [Migration!Next]_(Migration!vars)
<1>1. UNCHANGED onlySchedule => UNCHANGED Schedule!vars
  BY DEF onlySchedule, Schedule!vars, Schedule!settings, Schedule!loops, Schedule!store,
         Schedule!budget
<1>2. UNCHANGED onlyWebhooks => UNCHANGED Webhooks!vars
  BY DEF onlyWebhooks, Webhooks!vars, Webhooks!budget
<1>3. UNCHANGED onlyLimiter => UNCHANGED Limiter!vars
  BY DEF onlyLimiter, Limiter!vars
<1>4. UNCHANGED onlyListing => UNCHANGED Listing!vars
  BY DEF onlyListing, Listing!vars
<1>5. UNCHANGED onlyMigration => UNCHANGED Migration!vars
  BY DEF onlyMigration, Migration!vars
<1>6. \/ /\ Next
         /\ UNCHANGED <<onlySchedule, onlyWebhooks, onlyLimiter, onlyListing, onlyMigration>>
      \/ /\ Schedule!Next
         /\ UNCHANGED <<vars, onlyWebhooks, onlyLimiter, onlyListing, onlyMigration>>
      \/ /\ Webhooks!Next
         /\ UNCHANGED <<vars, onlySchedule, onlyLimiter, onlyListing, onlyMigration>>
      \/ /\ Limiter!Next
         /\ UNCHANGED <<vars, onlySchedule, onlyWebhooks, onlyListing, onlyMigration>>
      \/ /\ Listing!Next
         /\ UNCHANGED <<vars, onlySchedule, onlyWebhooks, onlyLimiter, onlyMigration>>
      \/ /\ Migration!Next
         /\ UNCHANGED <<vars, onlySchedule, onlyWebhooks, onlyLimiter, onlyListing>>
      \/ UNCHANGED <<vars, onlySchedule, onlyWebhooks, onlyLimiter, onlyListing, onlyMigration>>
  BY DEF ServicesNext, allVars, Locking, Scheduling, Dispatching, Limiting, Paging, Migrating
<1>7. QED
  BY <1>1, <1>2, <1>3, <1>4, <1>5, <1>6

(* A behaviour of the instance is a behaviour of each of its parts, so that what was
   proved about a part is proved about the run. *)
LEMMA ServicesRunTheirParts ==
    ServicesSpec => /\ Spec
                    /\ Schedule!Spec
                    /\ Webhooks!Spec
                    /\ Limiter!Spec
                    /\ Listing!Spec
                    /\ Migration!Spec
<1>1. ServicesInit => /\ Init
                      /\ Schedule!Init
                      /\ Webhooks!Init
                      /\ Limiter!Init
                      /\ Listing!Init
                      /\ Migration!Init
  BY PartsInitially
<1>2. [ServicesNext]_allVars => /\ [Next]_vars
                                /\ [Schedule!Next]_(Schedule!vars)
                                /\ [Webhooks!Next]_(Webhooks!vars)
                                /\ [Limiter!Next]_(Limiter!vars)
                                /\ [Listing!Next]_(Listing!vars)
                                /\ [Migration!Next]_(Migration!vars)
  BY PartsStep
<1>3. QED
  BY <1>1, <1>2, PTL
  DEF ServicesSpec, Spec, Schedule!Spec, Webhooks!Spec, Limiter!Spec, Listing!Spec,
      Migration!Spec

(* Every variable of every part has its type, the bound of the dispatcher's channel
   included. *)
THEOREM ServicesTypesHold == ServicesSpec => []ServicesTypeOK
<1>1. Webhooks!Spec => []Webhooks!TypeOK
  <2>1. Capacity \in Nat
    BY ServicesAssumption
  <2>2. Deliveries!Spec => []Deliveries!TypeOK
    BY <2>1, Deliveries!TypeCorrect
  <2>3. QED
    BY <2>2, SameWebhooks, PTL DEF Webhooks!Spec, Deliveries!Spec
<1>2. Limiter!Spec => []Limiter!TypeOK
  <2>1. Attempts!LimiterConstants
    BY ServicesAssumption, SameLimiter
  <2>2. Attempts!Spec => []Attempts!TypeOK
    BY <2>1, Attempts!TypeCorrect
  <2>3. QED
    BY <2>2, SameLimiter, PTL DEF Limiter!Spec, Attempts!Spec
<1>3. Schedule!Spec => []Schedule!TypeOK
  <2>1. Schedule!Spec => []ScheduleInductive
    BY ServicesAssumption, ScheduleInductiveAlways
  <2>2. ScheduleInductive => Schedule!TypeOK
    BY DEF ScheduleInductive
  <2>3. QED
    BY <2>1, <2>2, PTL
<1>4. Listing!Spec => []Listing!TypeOK
  <2>1. Listing!Spec => []ListingInductive
    BY ServicesAssumption, ListingInductiveAlways
  <2>2. ListingInductive => Listing!TypeOK
    BY DEF ListingInductive
  <2>3. QED
    BY <2>1, <2>2, PTL
<1>5. Migration!Spec => []Migration!TypeOK
  <2>1. MigrationInductive => Migration!TypeOK
    BY DEF MigrationInductive
  <2>2. QED
    BY <2>1, MigrationInductiveAlways, PTL
<1>6. /\ TypeOK /\ Schedule!TypeOK /\ Webhooks!TypeOK
      /\ Limiter!TypeOK /\ Listing!TypeOK /\ Migration!TypeOK
      => ServicesTypeOK
  BY DEF ServicesTypeOK
<1>7. QED
  BY <1>1, <1>2, <1>3, <1>4, <1>5, <1>6, TypeCorrect, ServicesRunTheirParts, PTL

(* Whatever is dropped, lost, redirected, or cut off by a restart: what arrives at a
   webhook is in the audit log, each event is delivered once at most and in its
   client's order, and begins at a URL that was saved at some time since; from there
   it goes only where the answers send it. *)
THEOREM ServicesDeliverWhatIsLogged == ServicesSpec => []DeliveriesFollowTheLog
<1>1. Deliveries!Spec => []Deliveries!DeliveriesFollowTheLog
  BY Deliveries!DeliveriesAreFaithful
<1>2. Webhooks!Spec => []Webhooks!DeliveriesFollowTheLog
  BY <1>1, SameWebhooks, PTL DEF Webhooks!Spec, Deliveries!Spec
<1>3. Webhooks!DeliveriesFollowTheLog => DeliveriesFollowTheLog
  BY DEF DeliveriesFollowTheLog
<1>4. QED
  BY <1>2, <1>3, ServicesRunTheirParts, PTL

(* Windows that begin and end at any time, and are collected by readers of a late
   clock, let through no more than twice the limit in a stretch. *)
THEOREM ServicesLimitAttempts == ServicesSpec => []AttemptsAreLimited
<1>1. Attempts!LimiterConstants
  BY ServicesAssumption, SameLimiter
<1>2. Attempts!Spec => []Attempts!AttemptsAreLimited
  BY <1>1, Attempts!AttemptsStayLimited
<1>3. Limiter!Spec => []Limiter!AttemptsAreLimited
  BY <1>2, SameLimiter, PTL DEF Limiter!Spec, Attempts!Spec
<1>4. Limiter!AttemptsAreLimited => AttemptsAreLimited
  BY DEF AttemptsAreLimited
<1>5. QED
  BY <1>3, <1>4, ServicesRunTheirParts, PTL

(* A client that follows the links gets what was there all the time, in order and
   once, for any number of names and any limit. *)
THEOREM ServicesListCompletely == ServicesSpec => []ListingIsComplete
<1>1. Listing!Spec => []ListingInductive
  BY ServicesAssumption, ListingInductiveAlways
<1>2. ListingInductive => ListingIsComplete
  BY DEF ListingInductive, ListingIsComplete
<1>3. QED
  BY <1>1, <1>2, ServicesRunTheirParts, PTL

(* Once the server listens, the blobs of every manifest are linked or a client has
   unlinked them, and no link that a client has removed comes back. *)
THEOREM ServicesKeepTheirLinks == ServicesSpec => []LinksSurviveTheMigration
<1>1. Migration!LinksSurviveTheMigration => LinksSurviveTheMigration
  BY DEF LinksSurviveTheMigration
<1>2. QED
  BY <1>1, LinksSurvive, ServicesRunTheirParts, PTL

=============================================================================
