------------------------------ MODULE Listings ------------------------------
(***************************************************************************)
(* Paging through the tags of a repository (handleTags, pageStrings) and   *)
(* through the catalog (handleCatalog) while others push and delete.  The  *)
(* server keeps no cursor: a page begins after the name that ended the     *)
(* page before, and its Link header tells the client to go on.             *)
(*                                                                         *)
(* A name is its rank in string order; 0 stands for the empty "last".  The *)
(* lists that pages are cut from are sorted, so a list is the set of its   *)
(* names.  "kept" is history: what was there all the time since the first  *)
(* page.  A definition whose name ends in "Faulty" is a deliberately wrong *)
(* variant of the one that follows it; nothing uses it but the mutation    *)
(* runs.                                                                   *)
(***************************************************************************)
EXTENDS Naturals, Sequences, FiniteSetsExt

CONSTANTS
    Names,   \* files of tags/, or rows of repositories
    Limits   \* values of the parameter n; 0 when there is none

\* What is assumed of the constants.
ListingConstants ==
    /\ Names \subseteq Nat \ {0}
    /\ IsFiniteSet(Names)
    /\ Limits \subseteq Nat

VARIABLES
    present,
    client,  \* the client's state, its n, and its "last"
    got,     \* the pages it was given
    kept

vars == <<present, client, got, kept>>

Init ==
    /\ present \in SUBSET Names
    /\ client = [at |-> "idle", n |-> 0, last |-> 0]
    /\ got = <<>>
    /\ kept = {}

-----------------------------------------------------------------------------
\* The position of a name in the sorted list.
Position(name, names) == Cardinality({other \in names : other <= name})

Cut(names, length) == {name \in names : Position(name, names) <= length}

\* One name more than the page has room for tells that there are others.
pageStringsFaulty(values, last, limit) ==
    LET paged == {name \in values : last = 0 \/ name > last}
    IN  IF limit > 0 THEN Cut(paged, limit) ELSE paged
pageStrings(values, last, limit) ==
    LET paged == {name \in values : last = 0 \/ name > last}
    IN  IF limit > 0 THEN Cut(paged, limit + 1) ELSE paged

\* The Link header is present when the page was cut, and names its last element.
Request ==
    /\ client.at = "paging"
    /\ LET names == pageStrings(present, client.last, client.n)
           more  == client.n > 0 /\ Cardinality(names) > client.n
           page  == IF more THEN Cut(names, client.n) ELSE names
       IN  /\ got' = Append(got, page)
           /\ client' = IF more THEN [client EXCEPT !.last = Max(page)]
                        ELSE [client EXCEPT !.at = "done"]
    /\ UNCHANGED <<present, kept>>

\* A client begins to list with the parameter n of its choice.
Begin ==
    /\ client.at # "paging"
    /\ \E n \in Limits : client' = [at |-> "paging", n |-> n, last |-> 0]
    /\ got' = <<>>
    /\ kept' = present
    /\ UNCHANGED present

\* A push or a deletion between two pages; the .tag-* file of a push is a name too.
Change ==
    /\ \E name \in Names :
          present' = IF name \in present THEN present \ {name} ELSE present \cup {name}
    /\ kept' = kept \cap present'
    /\ UNCHANGED <<client, got>>

Next == Begin \/ Request \/ Change

Spec == Init /\ [][Next]_vars

-----------------------------------------------------------------------------
(***************************************************************************)
(* Properties.                                                             *)
(***************************************************************************)
(* Every variable has its type. *)
TypeOK ==
    /\ present \subseteq Names
    /\ client \in [at : {"idle", "paging", "done"}, n : Limits \cup {0}, last : Names \cup {0}]
    /\ got \in Seq(SUBSET Names)
    /\ kept \subseteq present

(* Following the links to the end gives every name that was there all the time,
   none of them twice and all in order, whatever was added and deleted meanwhile,
   the name that "last" refers to included. *)
ListingIsComplete ==
    /\ client.at = "done" => \A name \in kept : \E i \in DOMAIN got : name \in got[i]
    /\ \A i, j \in DOMAIN got : i < j => \A x \in got[i], y \in got[j] : x < y

=============================================================================
