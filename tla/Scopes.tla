------------------------------- MODULE Scopes -------------------------------
(***************************************************************************)
(* auth/scope.go: which permissions a user's grants give to a request for  *)
(* scopes, and what a claim made of them allows.                           *)
(*                                                                         *)
(* A repository name, or the prefix of a grant, is the sequence of its     *)
(* parts between slashes: "a/b" is <<"a", "b">>, "/a" is <<Empty, "a">>    *)
(* and the empty string <<Empty>>.  Sets stand for the lists of the code   *)
(* whose order and repetitions make no difference.                         *)
(*                                                                         *)
(* AccessControl works with the permissions themselves; "Permissions" says *)
(* which those are.                                                        *)
(***************************************************************************)
EXTENDS Naturals, Sequences

\* The empty part: no other has a slash in it.
Empty == "/"

\* strings.TrimPrefix(name, "/") and strings.TrimSuffix(name, "/")
TrimPrefix(name) == IF Len(name) > 1 /\ name[1] = Empty THEN Tail(name) ELSE name
TrimSuffix(name) ==
    IF Len(name) > 1 /\ name[Len(name)] = Empty THEN SubSeq(name, 1, Len(name) - 1) ELSE name

\* The wildcard is compared before the slash at the end is dropped.
repositoryMatches(repository, prefix) ==
    LET trimmed == TrimPrefix(prefix)
        root    == TrimSuffix(trimmed)
    IN  \/ trimmed = <<"*">>
        \/ /\ trimmed # <<Empty>>
           /\ Len(root) <= Len(repository)
           /\ root = SubSeq(repository, 1, Len(root))

\* An administrator needs no grants.
allowedActions(role, grants, scope) ==
    IF role = "admin" THEN scope.actions
    ELSE {action \in scope.actions :
             \E grant \in grants : /\ grant.subject = "user"
                                   /\ repositoryMatches(scope.name, grant.prefix)
                                   /\ action \in grant.actions}

\* A scope of which nothing is allowed makes no claim.
IntersectAccess(role, grants, requested) ==
    {[name |-> scope.name, actions |-> allowedActions(role, grants, scope)] :
        scope \in {s \in requested : allowedActions(role, grants, s) # {}}}

HasAccess(access, repository, action) ==
    \E claim \in access :
        /\ claim.name = repository
        /\ {action, "admin"} \cap claim.actions # {}

-----------------------------------------------------------------------------
(***************************************************************************)
(* What AccessControl and README.md say of them.                           *)
(***************************************************************************)
\* The permissions that scopes or claims name.
Permissions(scopes) == UNION {{scope.name} \X scope.actions : scope \in scopes}

\* The permissions, among those on some repositories, that a grant gives to its user.
Covered(grant, repositories) ==
    {permission \in repositories \X grant.actions :
        repositoryMatches(permission[1], grant.prefix)}

\* "the exact repository or slash-delimited descendants"
Within(repository, root) ==
    /\ Len(root) <= Len(repository)
    /\ \A i \in 1 .. Len(root) : repository[i] = root[i]

\* A slash before or after a prefix makes no difference to administrators.
Spellings(prefix) ==
    {prefix, <<Empty>> \o prefix, prefix \o <<Empty>>, <<Empty>> \o prefix \o <<Empty>>}

=============================================================================
