--------------------------- MODULE AccessControl ----------------------------
(***************************************************************************)
(* Users, grants and bearer tokens.                                        *)
(*                                                                         *)
(* A client trades a name and a secret for a token that carries the access *)
(* the user's grants allowed at that time (handleToken).  Every later      *)
(* request presents the token; the server validates it, reads the user and *)
(* the grants again, each in a query of its own, and then works for as     *)
(* long as the body takes (auth/token.go, httpserver/server.go), while     *)
(* administrators change users and grants (httpserver/admin.go and ui.go). *)
(* An action is one database statement or transaction: SQLite has a single *)
(* connection, so that they never overlap.                                 *)
(*                                                                         *)
(* A name ending in "Faulty" is a deliberately wrong variant of the        *)
(* definition that follows it; nothing uses it but the mutation runs.      *)
(***************************************************************************)
EXTENDS Naturals, FiniteSets

CONSTANTS
    Clients,       \* the goroutines serving requests
    Users,         \* user ids; bound: each is made once
    Names,         \* usernames, which may be used again
    Grants,        \* grant ids; bound: each is made once
    Repositories,
    Bootstrap,     \* bootstrap.adminUsername
    None,
    Windows,       \* the validities [from, until) an administrator may set
    Requests,      \* the requests the clients may send
    TokenTTL,      \* auth.tokenTTL
    VerifyWorkers, \* authVerifyWorkers
    MaxTime,       \* bound: the clock
    MaxFaults,     \* bound: failing statements
    MaxCrashes     \* bound: crashes, each followed by a restart

\* The operations of the API, and those of the UI.
APIOps == {"createUser", "deleteUser", "disable", "enable", "createGrant", "deleteGrant"}
UIOps == {"uiCreateUser", "uiDeleteUser", "uiAccess"}
AdminOps == APIOps \cup UIOps

Actions == {"pull", "push", "delete", "admin"}
Permissions == Repositories \X Actions

\* What a request names besides its token: the user, grant and values it is about.
Request == [op : AdminOps \cup {"token", "registry"},
            user : Users \cup {None}, name : Names \cup {None}, role : {"reader", "admin"},
            window : Windows, perms : SUBSET Permissions]

\* What changes a user or its grants names one; a registry route asks for pull, push
\* or delete; the UI makes no administrators.
WellFormed(r) ==
    /\ r.op \in {"createUser", "uiCreateUser"} => r.name \in Names
    /\ r.op = "uiCreateUser" => r.role = "reader"
    /\ r.op \in {"deleteUser", "disable", "enable", "createGrant", "uiDeleteUser", "uiAccess"} =>
          r.user \in Users
    /\ r.op = "registry" => \A p \in r.perms : p[2] # "admin"

Always == [from |-> 0, until |-> MaxTime + 1]

Row == [name : Names, role : {"reader", "admin"}, status : {"active", "disabled"},
        from : Nat, until : Nat]

ASSUME ConstantsAssumption ==
    /\ None \notin Users \cup Names \cup Clients \cup Row
    /\ IsFiniteSet(Clients)
    /\ Bootstrap \in Names
    /\ TokenTTL \in Nat \ {0} /\ VerifyWorkers \in Nat \ {0}
    /\ MaxTime \in Nat /\ MaxFaults \in Nat /\ MaxCrashes \in Nat
    /\ Always \in Windows
    /\ Windows \subseteq [from : Nat, until : Nat]
    /\ \A w \in Windows : w.from < w.until
    /\ \A r \in Requests : r \in Request /\ WellFormed(r)

VARIABLES
    row,        \* row[u]: the row of user u
    born,       \* the user ids given out; whoever knows one knows its name and secret
    grants,     \* the rows of the grants table
    granted,    \* the grant ids given out
    tokens,     \* the tokens issued
    verifying,  \* slots taken in authAttemptLimiter.verify
    clock,
    pc,
    job,        \* job[c]: what c serves and its local variables
    seen,       \* history: what has been true since the request arrived
    faults, crashes

accounts == <<row, born, grants, granted>>
control == <<pc, job>>
budget == <<faults, crashes>>
vars == <<accounts, tokens, verifying, clock, control, seen, budget>>

NoToken == [user |-> None, access |-> {}, expires |-> 0]

IdleJob == [op |-> "none", user |-> None, name |-> None, role |-> "reader",
            window |-> Always, perms |-> {}, token |-> NoToken, now |-> 0,
            principal |-> None]

Exists(u) == row[u] # None
ValidAt(u, t) == row[u].from <= t /\ t < row[u].until
MayActAt(u, t) == Exists(u) /\ row[u].status = "active" /\ ValidAt(u, t)
IsAdmin(u) == Exists(u) /\ row[u].role = "admin"

\* A grant is the set of the permissions its prefix and actions cover.
GrantedTo(u) == UNION {g.perms : g \in {h \in grants : h.user = u}}
IntersectAccess(role, u, perms) == IF role = "admin" THEN perms ELSE perms \cap GrantedTo(u)

HasAccess(access, perms) ==
    \A p \in perms : p \in access \/ <<p[1], "admin">> \in access

NewRow(name, role, w) ==
    [name |-> name, role |-> role, status |-> "active", from |-> w.from, until |-> w.until]

NameFree(name) == \A u \in Users : Exists(u) => row[u].name # name

\* BootstrapAdmin, at every start.
Init ==
    /\ \E u \in Users :
          /\ row = [v \in Users |-> IF v = u THEN NewRow(Bootstrap, "admin", Always) ELSE None]
          /\ born = {[user |-> u, name |-> Bootstrap]}
    /\ grants = {}
    /\ granted = {}
    /\ tokens = {}
    /\ verifying = 0
    /\ clock = 0
    /\ pc = [c \in Clients |-> "idle"]
    /\ job = [c \in Clients |-> IdleJob]
    /\ seen = [c \in Clients |-> {}]
    /\ faults = 0
    /\ crashes = 0

Goto(c, step) == pc' = [pc EXCEPT ![c] = step]

Finish(c) ==
    /\ Goto(c, "idle")
    /\ job' = [job EXCEPT ![c] = IdleJob]

-----------------------------------------------------------------------------
(***************************************************************************)
(* Requests arrive.  A token request brings the name and the secret of a   *)
(* user that exists or has existed; the others bring a token, and name     *)
(* only such users: ids are random.                                        *)
(***************************************************************************)
BornUsers == {b.user : b \in born}

JobFor(r, user, name, token, now) ==
    [op |-> r.op, user |-> user, name |-> name, role |-> r.role, window |-> r.window,
     perms |-> r.perms, token |-> token, now |-> now, principal |-> None]

Receive(c) ==
    /\ pc[c] = "idle"
    /\ \E r \in Requests :
          \/ /\ r.op = "token"
             /\ \E b \in born :
                   job' = [job EXCEPT ![c] = JobFor(r, b.user, b.name, NoToken, clock)]
             /\ Goto(c, "verify")
          \/ /\ r.op # "token"
             /\ r.user \in BornUsers \cup {None}
             /\ \E t \in tokens :
                   job' = [job EXCEPT ![c] = JobFor(r, r.user, r.name, t, 0)]
             /\ Goto(c, "validate")
    /\ UNCHANGED <<accounts, tokens, verifying, clock, budget>>

-----------------------------------------------------------------------------
(***************************************************************************)
(* handleToken.                                                            *)
(***************************************************************************)
AcquireVerification(c) ==
    /\ pc[c] = "verify"
    /\ \/ /\ verifying < VerifyWorkers
          /\ verifying' = verifying + 1
          /\ Goto(c, "authenticate")
          /\ UNCHANGED job
       \/ /\ verifying >= VerifyWorkers
          /\ Finish(c)
          /\ UNCHANGED verifying
    /\ UNCHANGED <<accounts, tokens, clock, budget>>

\* The row under the name presented; its secret is the one of the user presented,
\* who may have been deleted and another one created under the name.
Presented(c, u) == Exists(u) /\ row[u].name = job[c].name
SecretMatches(c, u) == job[c].user = u

SlotsAfterDenialFaulty == verifying
SlotsAfterDenial == verifying - 1

Authenticate(c) ==
    /\ pc[c] = "authenticate"
    /\ \/ \E u \in Users :
             /\ Presented(c, u) /\ MayActAt(u, job[c].now) /\ SecretMatches(c, u)
             /\ job' = [job EXCEPT ![c].principal = u, ![c].role = row[u].role]
             /\ Goto(c, "lastUsed")
             /\ UNCHANGED verifying
       \/ /\ \A u \in Users :
                ~(Presented(c, u) /\ MayActAt(u, job[c].now) /\ SecretMatches(c, u))
          /\ verifying' = SlotsAfterDenial
          /\ Finish(c)
    /\ UNCHANGED <<accounts, tokens, clock, budget>>

\* The row read by Authenticate stands for the user until the token is minted;
\* UpdateUserLastUsed demands that it still exists.
UpdateUserLastUsed(c) ==
    /\ pc[c] = "lastUsed"
    /\ verifying' = verifying - 1
    /\ \/ /\ Exists(job[c].principal)
          /\ Goto(c, "listGrants")
          /\ UNCHANGED job
       \/ /\ ~Exists(job[c].principal)
          /\ Finish(c)
    /\ UNCHANGED <<accounts, tokens, clock, budget>>

ListGrants(c) ==
    /\ pc[c] = "listGrants"
    /\ job' = [job EXCEPT ![c].perms =
          IntersectAccess(job[c].role, job[c].principal, job[c].perms)]
    /\ Goto(c, "mint")
    /\ UNCHANGED <<accounts, tokens, verifying, clock, budget>>

Mint(c) ==
    /\ pc[c] = "mint"
    /\ tokens' = tokens \cup {[user |-> job[c].principal, access |-> job[c].perms,
                               expires |-> job[c].now + TokenTTL]}
    /\ Finish(c)
    /\ UNCHANGED <<accounts, verifying, clock, budget>>

-----------------------------------------------------------------------------
(***************************************************************************)
(* A token is presented: TokenService.Validate, then for the registry      *)
(* HasAccess of the token's claims and hasCurrentRegistryAccess, for the   *)
(* administration the role.                                                *)
(***************************************************************************)
AcceptsFaulty(t) == Exists(t.user) /\ clock < t.expires
Accepts(t) == MayActAt(t.user, clock) /\ clock < t.expires

\* Where a valid token leads: the claims come before the grants.
AfterValidation(c, u) ==
    CASE job[c].op # "registry" /\ IsAdmin(u)                       -> "mutate"
      [] job[c].op = "registry" /\ HasAccess(job[c].token.access, job[c].perms) ->
             IF IsAdmin(u) THEN "serve" ELSE "currentAccess"
      [] OTHER                                                      -> "denied"

Validate(c) ==
    LET t == job[c].token IN
    /\ pc[c] = "validate"
    /\ \/ /\ Accepts(t) /\ AfterValidation(c, t.user) # "denied"
          /\ job' = [job EXCEPT ![c].principal = t.user]
          /\ Goto(c, AfterValidation(c, t.user))
       \/ /\ ~Accepts(t) \/ AfterValidation(c, t.user) = "denied"
          /\ Finish(c)
    /\ UNCHANGED <<accounts, tokens, verifying, clock, budget>>

StillGrantedFaulty(c) == TRUE
StillGranted(c) ==
    HasAccess(IntersectAccess("reader", job[c].principal, job[c].perms), job[c].perms)

HasCurrentRegistryAccess(c) ==
    /\ pc[c] = "currentAccess"
    /\ \/ /\ StillGranted(c)
          /\ Goto(c, "serve")
          /\ UNCHANGED job
       \/ /\ ~StillGranted(c)
          /\ Finish(c)
    /\ UNCHANGED <<accounts, tokens, verifying, clock, budget>>

ServeRegistryRoute(c) ==
    /\ pc[c] = "serve"
    /\ Finish(c)
    /\ UNCHANGED <<accounts, tokens, verifying, clock, budget>>

-----------------------------------------------------------------------------
(***************************************************************************)
(* Administration.                                                         *)
(***************************************************************************)
\* An insert needs a fresh id (when the bound leaves none it fails like any other
\* statement), a user a free name, and a grant a user, which the foreign key demands.
FreshUsers == Users \ BornUsers

InsertUser(u, name, role, w) ==
    /\ row' = [row EXCEPT ![u] = NewRow(name, role, w)]
    /\ born' = born \cup {[user |-> u, name |-> name]}

CanGrantFaulty(c) == job[c].perms # {} /\ granted # Grants
CanGrant(c) == Exists(job[c].user) /\ job[c].perms # {} /\ granted # Grants

InsertGrant(c, kept) ==
    \E g \in Grants \ granted :
        /\ grants' = kept \cup {[id |-> g, user |-> job[c].user, perms |-> job[c].perms]}
        /\ granted' = granted \cup {g}

CreateUser(c) ==
    /\ pc[c] = "mutate" /\ job[c].op \in {"createUser", "uiCreateUser"}
    /\ \/ /\ NameFree(job[c].name)
          /\ \E u \in FreshUsers :
                /\ InsertUser(u, job[c].name, job[c].role, job[c].window)
                /\ job' = [job EXCEPT ![c].user = u]
          /\ Goto(c, IF job[c].op = "createUser" THEN "firstGrant" ELSE "replaceGrant")
       \/ /\ ~NameFree(job[c].name) \/ FreshUsers = {}
          /\ Finish(c)
          /\ UNCHANGED <<row, born>>
    /\ UNCHANGED <<grants, granted, tokens, verifying, clock, budget>>

\* The grant that comes with a new user, and POST /api/grants.
CreateGrant(c) ==
    /\ \/ pc[c] = "firstGrant"
       \/ pc[c] = "mutate" /\ job[c].op = "createGrant"
    /\ \/ CanGrant(c) /\ InsertGrant(c, grants)
       \/ ~CanGrant(c) /\ UNCHANGED <<grants, granted>>
    /\ Finish(c)
    /\ UNCHANGED <<row, born, tokens, verifying, clock, budget>>

DeleteGrant(c) ==
    /\ pc[c] = "mutate" /\ job[c].op = "deleteGrant"
    /\ \E g \in Grants : grants' = {h \in grants : h.id # g}
    /\ Finish(c)
    /\ UNCHANGED <<row, born, granted, tokens, verifying, clock, budget>>

SetUserStatus(c) ==
    /\ pc[c] = "mutate" /\ job[c].op \in {"disable", "enable"}
    /\ row' = IF Exists(job[c].user)
                THEN [row EXCEPT ![job[c].user].status =
                         IF job[c].op = "disable" THEN "disabled" ELSE "active"]
                ELSE row
    /\ Finish(c)
    /\ UNCHANGED <<born, grants, granted, tokens, verifying, clock, budget>>

\* Nobody deletes itself; the grants go with the user (ON DELETE CASCADE).
NotItself(c) == job[c].user # job[c].principal

DeleteUser(c) ==
    /\ \/ pc[c] = "mutate" /\ job[c].op = "deleteUser"
       \/ pc[c] = "uiDelete"
    /\ \/ /\ NotItself(c)
          /\ row' = [row EXCEPT ![job[c].user] = None]
          /\ grants' = {g \in grants : g.user # job[c].user}
       \/ /\ ~NotItself(c)
          /\ UNCHANGED <<row, grants>>
    /\ Finish(c)
    /\ UNCHANGED <<born, granted, tokens, verifying, clock, budget>>

\* The UI reads the user first and leaves administrators alone.
UIManagesFaulty(u) == Exists(u)
UIManages(u) == Exists(u) /\ ~IsAdmin(u)

UIGetUser(c) ==
    /\ pc[c] = "mutate" /\ job[c].op \in {"uiDeleteUser", "uiAccess"}
    /\ \/ /\ UIManages(job[c].user)
          /\ Goto(c, IF job[c].op = "uiAccess" THEN "validity" ELSE "uiDelete")
          /\ UNCHANGED job
       \/ /\ ~UIManages(job[c].user)
          /\ Finish(c)
    /\ UNCHANGED <<accounts, tokens, verifying, clock, budget>>

UpdateUserValidity(c) ==
    LET u == job[c].user IN
    /\ pc[c] = "validity"
    /\ \/ /\ Exists(u)
          /\ row' = [row EXCEPT ![u].from = job[c].window.from, ![u].until = job[c].window.until]
          /\ Goto(c, "replaceGrant")
          /\ UNCHANGED job
       \/ /\ ~Exists(u)
          /\ Finish(c)
          /\ UNCHANGED row
    /\ UNCHANGED <<born, grants, granted, tokens, verifying, clock, budget>>

ReplaceUserGrant(c) ==
    /\ pc[c] = "replaceGrant"
    /\ \/ CanGrant(c) /\ InsertGrant(c, {g \in grants : g.user # job[c].user})
       \/ ~CanGrant(c) /\ UNCHANGED <<grants, granted>>
    /\ Finish(c)
    /\ UNCHANGED <<row, born, tokens, verifying, clock, budget>>

-----------------------------------------------------------------------------
(***************************************************************************)
(* Time, failures and restarts.                                            *)
(***************************************************************************)
Tick ==
    /\ clock < MaxTime
    /\ clock' = clock + 1
    /\ UNCHANGED <<accounts, tokens, verifying, control, budget>>

Verifying == {"authenticate", "lastUsed"}

SlotsAfterErrorFaulty(c) == verifying
SlotsAfterError(c) == IF pc[c] \in Verifying THEN verifying - 1 ELSE verifying

\* A statement fails and the request ends with an error.
StepFails(c) ==
    /\ faults < MaxFaults
    /\ pc[c] \notin {"idle", "verify", "serve"}
    /\ faults' = faults + 1
    /\ verifying' = SlotsAfterError(c)
    /\ Finish(c)
    /\ UNCHANGED <<accounts, tokens, clock, crashes>>

\* A restart keeps the database, with the signing key, and the clients' tokens; it
\* creates the bootstrap administrator again when nobody has its name.
Crash ==
    /\ crashes < MaxCrashes
    /\ crashes' = crashes + 1
    /\ verifying' = 0
    /\ pc' = [c \in Clients |-> "idle"]
    /\ job' = [c \in Clients |-> IdleJob]
    /\ \/ /\ NameFree(Bootstrap)
          /\ \E u \in FreshUsers : InsertUser(u, Bootstrap, "admin", Always)
       \/ /\ ~NameFree(Bootstrap)
          /\ UNCHANGED <<row, born>>
    /\ UNCHANGED <<grants, granted, tokens, clock, faults>>

-----------------------------------------------------------------------------
TokenStep(c) ==
    \/ AcquireVerification(c) \/ Authenticate(c) \/ UpdateUserLastUsed(c)
    \/ ListGrants(c) \/ Mint(c)

RegistryStep(c) == Validate(c) \/ HasCurrentRegistryAccess(c) \/ ServeRegistryRoute(c)

AdminStep(c) ==
    \/ CreateUser(c) \/ CreateGrant(c) \/ DeleteGrant(c) \/ SetUserStatus(c) \/ DeleteUser(c)
    \/ UIGetUser(c) \/ UpdateUserValidity(c) \/ ReplaceUserGrant(c)

\* What is true now of the token that c presents.
Truths(c) ==
    LET t == job[c].token IN
    IF t = NoToken THEN {}
    ELSE {x \in {"user", "admin", "access"} :
             \/ x = "user" /\ MayActAt(t.user, clock) /\ clock < t.expires
             \/ x = "admin" /\ IsAdmin(t.user)
             \/ x = "access" /\ HasAccess(t.access, job[c].perms)
                             /\ (IsAdmin(t.user) \/ job[c].perms \subseteq GrantedTo(t.user))}

\* Only a history: no action reads it.
Remember ==
    seen' = [c \in Clients |-> (IF pc[c] = "idle" THEN {} ELSE seen[c]) \cup Truths(c)']

Step ==
    \/ \E c \in Clients :
          Receive(c) \/ TokenStep(c) \/ RegistryStep(c) \/ AdminStep(c) \/ StepFails(c)
    \/ Tick
    \/ Crash

Next == Step /\ Remember

Spec == Init /\ [][Next]_vars

-----------------------------------------------------------------------------
(***************************************************************************)
(* Properties.                                                             *)
(***************************************************************************)
Token == [user : Users, access : SUBSET Permissions, expires : Nat]
Job == [op : AdminOps \cup {"none", "token", "registry"}, user : Users \cup {None},
        name : Names \cup {None}, role : {"reader", "admin"}, window : Windows,
        perms : SUBSET Permissions, token : Token \cup {NoToken}, now : Nat,
        principal : Users \cup {None}]

Mutating == {"mutate", "firstGrant", "uiDelete", "validity", "replaceGrant"}
Steps == {"idle", "verify", "listGrants", "mint", "validate", "currentAccess", "serve"}
             \cup Verifying \cup Mutating

(* Every variable has its type; a username has one user and a grant has a user, as
   db/schema.go demands. *)
SchemaHolds ==
    /\ row \in [Users -> Row \cup {None}]
    /\ \A u, v \in Users : Exists(u) /\ Exists(v) /\ row[u].name = row[v].name => u = v
    /\ born \subseteq [user : Users, name : Names]
    /\ grants \subseteq [id : Grants, user : Users, perms : SUBSET Permissions]
    /\ \A g \in grants : g.id \in granted /\ Exists(g.user)
    /\ granted \subseteq Grants
    /\ tokens \subseteq Token
    /\ verifying \in Nat
    /\ clock \in 0..MaxTime
    /\ pc \in [Clients -> Steps]
    /\ job \in [Clients -> Job]
    /\ faults \in 0..MaxFaults
    /\ crashes \in 0..MaxCrashes

(* README.md:214, "disabled, future-valid, and expired users are rejected even if a
   token was issued earlier", and the same of grants: a request is served only if
   at some time since it arrived its user was active and valid and its grants
   allowed it.  Revoking before it arrives therefore always rejects it. *)
RevocationIsRespected ==
    \A c \in Clients : pc[c] = "serve" => {"user", "access"} \subseteq seen[c]

(* Users and grants are changed only for a request whose user was, at some time
   since it arrived, an active administrator. *)
OnlyAdministratorsMutate ==
    \A c \in Clients : pc[c] \in Mutating => {"user", "admin"} \subseteq seen[c]

(* ui.go:772, "Admin users are managed outside this user list", and admin.go:120,
   "cannot delete the current admin user": an administrator changes only by a
   request to the API, and never deletes itself. *)
AdministratorsChangeByTheAPI ==
    [][\A u \in Users : IsAdmin(u) /\ row'[u] # row[u] =>
          \E c \in Clients :
             /\ pc[c] = "mutate" /\ job[c].user = u
             /\ \/ job[c].op \in {"disable", "enable"}
                \/ job[c].op = "deleteUser" /\ job[c].principal # u]_vars

(* A verification slot is taken exactly while a secret is verified, and returned
   on every path: no error ever shuts the token service. *)
SlotsAreReturned ==
    /\ verifying = Cardinality({c \in Clients : pc[c] \in Verifying})
    /\ verifying <= VerifyWorkers

=============================================================================
