-------------------------- MODULE MCAccessControl ---------------------------
(***************************************************************************)
(* Instances of AccessControl for TLC.                                     *)
(***************************************************************************)
EXTENDS AccessControl, TLC

Scope == INSTANCE Scopes

\* Names of one to three parts, some of them empty or a star.
Parts == {Scope!Empty, "*", "app", "application"}
ShortNames == UNION {[1 .. n -> Parts] : n \in 1 .. 3}

(* README.md:211, "Non-wildcard grant prefixes match the exact repository or
   slash-delimited descendants", however the prefix is spelled; "*" matches all. *)
ASSUME PrefixesMatchNamespaces ==
    \A prefix \in ShortNames :
        /\ \A i \in DOMAIN prefix : prefix[i] # Scope!Empty
        /\ prefix # <<"*">>
        => \A repository \in ShortNames, spelled \in Scope!Spellings(prefix) :
              /\ Scope!repositoryMatches(repository, spelled) <=> Scope!Within(repository, prefix)
              /\ Scope!repositoryMatches(repository, <<"*">>)

Pull == Repositories \X {"pull"}
PullAndPush == Repositories \X {"pull", "push"}
OnlyAlways == {Always}
Windows01 == {Always, [from |-> 0, until |-> 1], [from |-> 1, until |-> MaxTime + 1]}

NoRequest == [op |-> "token", user |-> None, name |-> None, role |-> "reader",
              window |-> Always, perms |-> {}]

AskToken(perms) == {[NoRequest EXCEPT !.op = "token", !.perms = perms]}
Registry == {[NoRequest EXCEPT !.op = "registry", !.perms = {p}] : p \in Pull}
About(op) == {[NoRequest EXCEPT !.op = op, !.user = u] : u \in Users}
Create(op, role, perms) == {[NoRequest EXCEPT !.op = op, !.name = n, !.role = role,
                                              !.perms = perms] : n \in Names \ {Bootstrap}}
GrantTo(perms) == {[r EXCEPT !.perms = perms] : r \in About("createGrant")}
Revoke == {[NoRequest EXCEPT !.op = "deleteGrant"]}
Access(w, perms) == {[r EXCEPT !.window = w, !.perms = perms] : r \in About("uiAccess")}

\* One administrator, one reader whose access is taken away in every way there is.
RevocationRequests ==
    AskToken(Pull) \cup Registry \cup Create("createUser", "reader", Pull)
        \cup About("disable") \cup About("deleteUser") \cup Revoke
        \cup GrantTo(Pull) \cup Access([from |-> 0, until |-> 1], Repositories \X {"push"})

\* Administrators who make, stop and delete each other, and readers in the UI.
AdministrationRequests ==
    AskToken({}) \cup Create("createUser", "admin", {}) \cup About("disable")
        \cup About("enable") \cup About("deleteUser") \cup About("uiDeleteUser")
        \cup Create("uiCreateUser", "reader", Pull)

Symmetry == Permutations(Clients) \cup Permutations(Users) \cup Permutations(Grants)
=============================================================================
