-------------------------- MODULE MCRepositoryTags --------------------------
(***************************************************************************)
(* Instances of RepositoryTags for TLC.  A run chooses one of the sets of  *)
(* requests below, so that each run explores the operations its question   *)
(* is about with every interleaving of them.                               *)
(***************************************************************************)
EXTENDS RepositoryTags, TLC

NoRequest == [op |-> "none", digest |-> None, tags |-> {}, policy |-> {}]

Put(d, ts) == [NoRequest EXCEPT !.op = "put", !.digest = d, !.tags = ts]
AddTag(d, t) == [NoRequest EXCEPT !.op = "addTag", !.digest = d, !.tags = {t}]
DeleteTag(t) == [NoRequest EXCEPT !.op = "deleteTag", !.tags = {t}]
DeleteDigest(d) == [NoRequest EXCEPT !.op = "deleteDigest", !.digest = d]
SetPolicy(ts) == [NoRequest EXCEPT !.op = "setPolicy", !.policy = ts]
DeleteRepository == [NoRequest EXCEPT !.op = "deleteRepository"]
PullTag(op, t) == [NoRequest EXCEPT !.op = op, !.tags = {t}]
PullDigest(op, d) == [NoRequest EXCEPT !.op = op, !.digest = d]

Puts == {Put(d, ts) : d \in Digests, ts \in SUBSET Tags}
TaggingPuts == {Put(d, ts) : d \in Digests, ts \in SUBSET Tags \ {{}}}
AddTags == {AddTag(d, t) : d \in Digests, t \in Tags}
DeleteTags == {DeleteTag(t) : t \in Tags}
DeleteDigests == {DeleteDigest(d) : d \in Digests}
PullTags == {PullTag("pull", t) : t \in Tags}
Pulls == PullTags \cup {PullDigest("pull", d) : d \in Digests}
Heads == {PullTag("head", t) : t \in Tags}

\* What works on the disk under the two locks.
DiskRequests == Puts \cup DeleteTags \cup DeleteDigests
\* What moves tags, several and one at a time, and what forbids it.
TaggingRequests ==
    {Put(d, Tags) : d \in Digests} \cup AddTags \cup {SetPolicy({t}) : t \in Tags}
\* The deletion of a repository from the UI, without the locks, against the others.
RepositoryRequests == TaggingPuts \cup DeleteTags \cup Pulls \cup Heads \cup {DeleteRepository}
LiveRequests == TaggingPuts \cup PullTags \cup {DeleteRepository}

Symmetry == Permutations(Clients) \cup Permutations(Digests) \cup Permutations(Tags)
=============================================================================
