------------------------ MODULE AccessControlProofs -------------------------
(***************************************************************************)
(* Proofs about AccessControl, for any sets of clients, users, names,      *)
(* grants, repositories and requests, any validities, and any number of    *)
(* faults and crashes.                                                     *)
(*                                                                         *)
(* Every step moves one client at most (Moves), or is a crash; the         *)
(* invariants of control follow from where that client goes, those of the  *)
(* tables from the eight steps that write them.                            *)
(***************************************************************************)
EXTENDS AccessControl, FiniteSetTheorems, SequenceTheorems, TLAPS

Verify == {"verify", "authenticate", "lastUsed", "listGrants", "mint"}
Naming == {"firstGrant", "uiDelete", "validity", "replaceGrant"}

\* What is known of the job j of a client whose next step is "step".
Stage(step, j) ==
    /\ j \in Job
    /\ WellFormed(j)
    /\ step \in Verify => j.op = "token"
    /\ step \in {"lastUsed", "listGrants", "mint"} => j.principal \in Users
    /\ step \in {"validate", "currentAccess", "serve"} \cup Mutating => j.token \in Token
    /\ step \in {"currentAccess"} \cup Mutating => j.principal = j.token.user
    /\ step \in {"currentAccess", "serve"} => j.op = "registry"
    /\ step = "currentAccess" => HasAccess(j.token.access, j.perms)
    /\ step \in Naming => j.user \in Users

Control ==
    /\ pc \in [Clients -> Steps]
    /\ job \in [Clients -> Job]
    /\ \A c \in Clients : Stage(pc[c], job[c])

Tables ==
    /\ row \in [Users -> Row \cup {None}]
    /\ \A u, v \in Users : Exists(u) /\ Exists(v) /\ row[u].name = row[v].name => u = v
    /\ born \subseteq [user : Users, name : Names]
    /\ \A u \in Users : Exists(u) => u \in BornUsers
    /\ grants \subseteq [id : Grants, user : Users, perms : SUBSET Permissions]
    /\ \A g \in grants : g.id \in granted /\ Exists(g.user)
    /\ granted \subseteq Grants

Rest ==
    /\ tokens \subseteq Token
    /\ clock \in 0..MaxTime
    /\ faults \in 0..MaxFaults
    /\ crashes \in 0..MaxCrashes

-----------------------------------------------------------------------------
\* One client goes on, at "step" and with the job j, or becomes idle.
Move(c, step, j) ==
    /\ pc' = [pc EXCEPT ![c] = step]
    /\ job' = [job EXCEPT ![c] = j]

Moves(c) == \E step \in Steps, j \in Job : Stage(step, j) /\ Move(c, step, j)

(* An idle client knows nothing. *)
LEMMA IdleStage == ASSUME ConstantsAssumption PROVE IdleJob \in Job /\ Stage("idle", IdleJob)
BY DEF ConstantsAssumption, Stage, IdleJob, Job, NoToken, WellFormed, Verify, Naming, Mutating

(* A client that is done becomes idle. *)
LEMMA FinishMoves == ASSUME ConstantsAssumption, NEW c \in Clients, Finish(c) PROVE Moves(c)
BY IdleStage DEF Finish, Goto, Moves, Move, Steps

(* Where a move ends, the client knows what it should. *)
LEMMA MoveKeepsControl ==
    ASSUME Control, NEW c \in Clients, Moves(c)
    PROVE  Control'
BY DEF Control, Moves, Move, Stage, WellFormed, HasAccess

-----------------------------------------------------------------------------
(* A request that arrives is well-formed and brings a token that was issued. *)
LEMMA ReceiveMoves ==
    ASSUME ConstantsAssumption, Control, Tables, Rest, NEW c \in Clients, Receive(c)
    PROVE  Moves(c)
<1>1. PICK r \in Requests :
         \/ /\ r.op = "token"
            /\ \E b \in born :
                  job' = [job EXCEPT ![c] = JobFor(r, b.user, b.name, NoToken, clock)]
            /\ Goto(c, "verify")
         \/ /\ r.op # "token"
            /\ \E t \in tokens : job' = [job EXCEPT ![c] = JobFor(r, r.user, r.name, t, 0)]
            /\ Goto(c, "validate")
  BY DEF Receive
<1>2. r \in Request /\ WellFormed(r) BY DEF ConstantsAssumption
<1>3. CASE r.op = "token"
  <2>1. PICK b \in born : job' = [job EXCEPT ![c] = JobFor(r, b.user, b.name, NoToken, clock)]
    BY <1>1, <1>3
  <2> DEFINE j == JobFor(r, b.user, b.name, NoToken, clock)
  <2>2. b.user \in Users /\ b.name \in Names /\ clock \in Nat
    BY DEF Tables, Rest, ConstantsAssumption
  <2>3. j \in Job /\ j.op = "token" BY <1>2, <1>3, <2>2 DEF Job, JobFor, Request
  <2>4. Stage("verify", j) BY <2>3 DEF Stage, WellFormed, Verify, Naming, Mutating
  <2>. QED BY <1>1, <1>3, <2>1, <2>3, <2>4 DEF Goto, Moves, Move, Steps
<1>4. CASE r.op # "token"
  <2>1. PICK t \in tokens : job' = [job EXCEPT ![c] = JobFor(r, r.user, r.name, t, 0)]
    BY <1>1, <1>4
  <2> DEFINE j == JobFor(r, r.user, r.name, t, 0)
  <2>2. t \in Token BY DEF Rest
  <2>3. j \in Job /\ j.token = t BY <1>2, <2>2 DEF Job, JobFor, Request
  <2>4. WellFormed(j) BY <1>2 DEF WellFormed, JobFor
  <2>5. Stage("validate", j) BY <2>2, <2>3, <2>4 DEF Stage, Verify, Naming, Mutating
  <2>. QED BY <1>1, <1>4, <2>1, <2>3, <2>5 DEF Goto, Moves, Move, Steps
<1>. QED BY <1>3, <1>4

(* From the name and the secret to a token. *)
LEMMA TokenStepMoves ==
    ASSUME ConstantsAssumption, Control, Tables, NEW c \in Clients, TokenStep(c)
    PROVE  Moves(c)
<1> USE DEF Control, Goto, Moves, Move, Steps, Verifying
<1>0. Stage(pc[c], job[c]) /\ job[c] \in Job OBVIOUS
<1>1. CASE AcquireVerification(c)
  <2>1. CASE Finish(c) BY <2>1, FinishMoves
  <2>2. CASE pc[c] = "verify" /\ Goto(c, "authenticate") /\ UNCHANGED job
    <3>1. Stage("authenticate", job[c])
      BY <1>0, <2>2 DEF Stage, Verify, Naming, Mutating
    <3>. QED BY <1>0, <2>2, <3>1
  <2>. QED BY <1>1, <2>1, <2>2 DEF AcquireVerification
<1>2. CASE Authenticate(c)
  <2>1. CASE Finish(c) BY <2>1, FinishMoves
  <2>2. ASSUME NEW u \in Users, pc[c] = "authenticate", Goto(c, "lastUsed"),
               Exists(u), row[u].role \in {"reader", "admin"},
               job' = [job EXCEPT ![c].principal = u, ![c].role = row[u].role]
        PROVE  Moves(c)
    <3> DEFINE k == [job[c] EXCEPT !.principal = u, !.role = row[u].role]
    <3>1. k \in Job /\ k.op = "token" /\ k.principal = u
      BY <1>0, <2>2 DEF Job, Stage, Verify
    <3>2. Stage("lastUsed", k)
      BY <3>1 DEF Stage, WellFormed, Verify, Naming, Mutating
    <3>3. job' = [job EXCEPT ![c] = k] BY <2>2
    <3>. QED BY <2>2, <3>1, <3>2, <3>3
  <2>3. \A u \in Users : Exists(u) => row[u].role \in {"reader", "admin"}
    BY DEF Tables, Exists, Row
  <2>. QED BY <1>2, <2>1, <2>2, <2>3 DEF Authenticate, MayActAt
<1>3. CASE UpdateUserLastUsed(c)
  <2>1. CASE Finish(c) BY <2>1, FinishMoves
  <2>2. CASE pc[c] = "lastUsed" /\ Goto(c, "listGrants") /\ UNCHANGED job
    <3>1. Stage("listGrants", job[c])
      BY <1>0, <2>2 DEF Stage, Verify, Naming, Mutating
    <3>. QED BY <1>0, <2>2, <3>1
  <2>. QED BY <1>3, <2>1, <2>2 DEF UpdateUserLastUsed
<1>4. CASE ListGrants(c)
  <2> DEFINE P == IntersectAccess(job[c].role, job[c].principal, job[c].perms)
  <2> DEFINE k == [job[c] EXCEPT !.perms = P]
  <2>1. P \subseteq job[c].perms BY DEF IntersectAccess
  <2>2. k \in Job /\ k.op = "token" /\ k.principal \in Users
    BY <1>0, <1>4, <2>1 DEF ListGrants, Job, Stage, Verify
  <2>3. Stage("mint", k)
    BY <2>2 DEF Stage, WellFormed, Verify, Naming, Mutating
  <2>4. job' = [job EXCEPT ![c] = k] BY <1>4 DEF ListGrants
  <2>. QED BY <1>4, <2>2, <2>3, <2>4 DEF ListGrants
<1>5. CASE Mint(c) BY <1>5, FinishMoves DEF Mint
<1>. QED BY <1>1, <1>2, <1>3, <1>4, <1>5 DEF TokenStep

(* A request whose token is accepted goes where its claims and its user's role lead. *)
LEMMA RegistryStepMoves ==
    ASSUME ConstantsAssumption, Control, NEW c \in Clients, RegistryStep(c)
    PROVE  Moves(c)
<1> USE DEF Control, Goto, Moves, Move, Steps, Mutating
<1>0. Stage(pc[c], job[c]) /\ job[c] \in Job OBVIOUS
<1>1. CASE Validate(c)
  <2>1. CASE Finish(c) BY <2>1, FinishMoves
  <2>2. ASSUME pc[c] = "validate", AfterValidation(c, job[c].token.user) # "denied",
               job' = [job EXCEPT ![c].principal = job[c].token.user],
               Goto(c, AfterValidation(c, job[c].token.user))
        PROVE  Moves(c)
    <3> DEFINE k == [job[c] EXCEPT !.principal = job[c].token.user]
    <3> DEFINE step == AfterValidation(c, job[c].token.user)
    <3>1. job[c].token \in Token /\ WellFormed(job[c]) BY <1>0, <2>2 DEF Stage
    <3>2. k \in Job /\ k.principal = k.token.user /\ k.principal \in Users /\ k.token \in Token
      BY <1>0, <3>1 DEF Job, Token
    <3>3. k.op = job[c].op /\ k.perms = job[c].perms /\ k.token = job[c].token
      BY <1>0 DEF Job
    <3>4. WellFormed(k) BY <1>0, <3>1 DEF WellFormed, Job
    <3>5. \/ step = "mutate"
          \/ /\ step \in {"serve", "currentAccess"}
             /\ k.op = "registry" /\ HasAccess(k.token.access, k.perms)
      BY <2>2, <3>3 DEF AfterValidation
    <3>6. Stage(step, k)
      BY <3>2, <3>4, <3>5 DEF Stage, Verify, Naming
    <3>7. job' = [job EXCEPT ![c] = k] BY <2>2
    <3>. QED BY <2>2, <3>2, <3>5, <3>6, <3>7
  <2>. QED BY <1>1, <2>1, <2>2 DEF Validate
<1>2. CASE HasCurrentRegistryAccess(c)
  <2>1. CASE Finish(c) BY <2>1, FinishMoves
  <2>2. CASE pc[c] = "currentAccess" /\ Goto(c, "serve") /\ UNCHANGED job
    <3>1. Stage("serve", job[c]) BY <1>0, <2>2 DEF Stage, Verify, Naming
    <3>. QED BY <1>0, <2>2, <3>1
  <2>. QED BY <1>2, <2>1, <2>2 DEF HasCurrentRegistryAccess
<1>3. CASE ServeRegistryRoute(c) BY <1>3, FinishMoves DEF ServeRegistryRoute
<1>. QED BY <1>1, <1>2, <1>3 DEF RegistryStep

(* Administration goes on with a user that it has made or found. *)
LEMMA AdminStepMoves ==
    ASSUME ConstantsAssumption, Control, NEW c \in Clients, AdminStep(c)
    PROVE  Moves(c)
<1> USE DEF Control, Goto, Moves, Move, Steps, Mutating
<1>0. Stage(pc[c], job[c]) /\ job[c] \in Job OBVIOUS
<1>1. CASE CreateUser(c)
  <2>1. CASE Finish(c) BY <2>1, FinishMoves
  <2>2. ASSUME NEW u \in FreshUsers, job' = [job EXCEPT ![c].user = u], pc[c] = "mutate",
               Goto(c, IF job[c].op = "createUser" THEN "firstGrant" ELSE "replaceGrant")
        PROVE  Moves(c)
    <3> DEFINE k == [job[c] EXCEPT !.user = u]
    <3>1. u \in Users BY DEF FreshUsers
    <3>2. k \in Job /\ k.user \in Users /\ k.token = job[c].token /\ k.principal = job[c].principal
      BY <1>0, <3>1 DEF Job
    <3>3. WellFormed(k) BY <1>0, <3>1 DEF WellFormed, Stage, Job
    <3>4. Stage("firstGrant", k) /\ Stage("replaceGrant", k)
      BY <1>0, <2>2, <3>2, <3>3 DEF Stage, Verify
    <3>5. job' = [job EXCEPT ![c] = k] BY <2>2
    <3>. QED BY <2>2, <3>2, <3>4, <3>5
  <2>. QED BY <1>1, <2>1, <2>2 DEF CreateUser
<1>2. CASE UIGetUser(c)
  <2>1. CASE Finish(c) BY <2>1, FinishMoves
  <2>2. CASE /\ pc[c] = "mutate" /\ job[c].op \in {"uiDeleteUser", "uiAccess"} /\ UNCHANGED job
             /\ Goto(c, IF job[c].op = "uiAccess" THEN "validity" ELSE "uiDelete")
    <3>1. Stage("validity", job[c]) /\ Stage("uiDelete", job[c])
      BY <1>0, <2>2 DEF Stage, WellFormed, Verify, Naming
    <3>. QED BY <1>0, <2>2, <3>1
  <2>. QED BY <1>2, <2>1, <2>2 DEF UIGetUser
<1>3. CASE UpdateUserValidity(c)
  <2>1. CASE Finish(c) BY <2>1, FinishMoves
  <2>2. CASE pc[c] = "validity" /\ Goto(c, "replaceGrant") /\ UNCHANGED job
    <3>1. Stage("replaceGrant", job[c]) BY <1>0, <2>2 DEF Stage, Verify, Naming
    <3>. QED BY <1>0, <2>2, <3>1
  <2>. QED BY <1>3, <2>1, <2>2 DEF UpdateUserValidity
<1>4. CASE CreateGrant(c) \/ DeleteGrant(c) \/ SetUserStatus(c) \/ DeleteUser(c) \/ ReplaceUserGrant(c)
  BY <1>4, FinishMoves DEF CreateGrant, DeleteGrant, SetUserStatus, DeleteUser, ReplaceUserGrant
<1>. QED BY <1>1, <1>2, <1>3, <1>4 DEF AdminStep

(* Every step moves one client, no client, or, by a crash, all of them. *)
LEMMA EveryStepMoves ==
    ASSUME ConstantsAssumption, Control, Tables, Rest, Step
    PROVE  \/ \E c \in Clients : Moves(c)
           \/ UNCHANGED control
           \/ Crash
<1>1. ASSUME NEW c \in Clients, StepFails(c) PROVE Moves(c)
  BY <1>1, FinishMoves DEF StepFails
<1>2. CASE Tick BY <1>2 DEF Tick
<1>. QED
  BY <1>1, <1>2, ReceiveMoves, TokenStepMoves, RegistryStepMoves, AdminStepMoves DEF Step

(* The invariants of control hold at every step. *)
LEMMA ControlKept ==
    ASSUME ConstantsAssumption, Control, Tables, Rest, [Next]_vars
    PROVE  Control'
<1>1. CASE UNCHANGED control
  BY <1>1 DEF control, Control, Stage, WellFormed, HasAccess
<1>2. CASE Crash
  BY <1>2, IdleStage DEF Crash, Control, Stage, Steps, WellFormed, HasAccess
<1>. QED BY <1>1, <1>2, EveryStepMoves, MoveKeepsControl DEF Next, vars, control

-----------------------------------------------------------------------------
\* The steps that write the four variables of the tables.
TableStep ==
    \/ Crash
    \/ \E c \in Clients :
          CreateUser(c) \/ CreateGrant(c) \/ DeleteGrant(c) \/ SetUserStatus(c)
          \/ DeleteUser(c) \/ UpdateUserValidity(c) \/ ReplaceUserGrant(c)

(* Nothing else writes them. *)
LEMMA TableFootprint ==
    ASSUME [Next]_vars
    PROVE  UNCHANGED accounts \/ TableStep
<1> USE DEF TableStep, accounts
<1>1. ASSUME NEW c \in Clients, Receive(c) \/ TokenStep(c) \/ RegistryStep(c) \/ StepFails(c)
      PROVE  UNCHANGED accounts
  BY <1>1
     DEF Receive, TokenStep, RegistryStep, StepFails, AcquireVerification, Authenticate,
         UpdateUserLastUsed, ListGrants, Mint, Validate, HasCurrentRegistryAccess,
         ServeRegistryRoute
<1>2. ASSUME NEW c \in Clients, AdminStep(c) PROVE UNCHANGED accounts \/ TableStep
  BY <1>2 DEF AdminStep, UIGetUser
<1>3. CASE Tick \/ UNCHANGED vars BY <1>3 DEF Tick, vars
<1>. QED BY <1>1, <1>2, <1>3 DEF Next, Step

(* A row is a record and not None. *)
LEMMA RowsExist ==
    ASSUME ConstantsAssumption
    PROVE  /\ None \notin Row
           /\ \A name \in Names, role \in {"reader", "admin"}, w \in Windows :
                 NewRow(name, role, w) \in Row /\ NewRow(name, role, w).name = name
BY DEF ConstantsAssumption, Row, NewRow

(* A new user under a free name, with an id of its own. *)
LEMMA InsertUserKeepsTables ==
    ASSUME ConstantsAssumption, Tables, NEW u \in FreshUsers, NEW name \in Names,
           NEW role \in {"reader", "admin"}, NEW w \in Windows,
           NameFree(name), InsertUser(u, name, role, w), UNCHANGED <<grants, granted>>
    PROVE  Tables'
<1>1. u \in Users /\ row' = [row EXCEPT ![u] = NewRow(name, role, w)]
      /\ born' = born \cup {[user |-> u, name |-> name]}
  BY DEF FreshUsers, InsertUser
<1>2. \A v \in Users : Exists(v)' <=> v = u \/ Exists(v)
  BY <1>1, RowsExist DEF Tables, Exists
<1>3. u \in BornUsers' /\ BornUsers \subseteq BornUsers'
  <2>1. [user |-> u, name |-> name] \in born' /\ [user |-> u, name |-> name].user = u BY <1>1
  <2>. QED BY <1>1, <2>1 DEF BornUsers
<1>4. row' \in [Users -> Row \cup {None}] BY <1>1, RowsExist DEF Tables
<1>5. \A v, x \in Users : Exists(v)' /\ Exists(x)' /\ row'[v].name = row'[x].name => v = x
  BY <1>1, <1>2, RowsExist DEF Tables, NameFree
<1>. QED BY <1>1, <1>2, <1>3, <1>4, <1>5 DEF Tables

(* New values in the row of a user that keep its name. *)
LEMMA UpdateKeepsTables ==
    ASSUME ConstantsAssumption, Tables, NEW u \in Users, Exists(u), NEW r \in Row,
           r.name = row[u].name, row' = [row EXCEPT ![u] = r],
           UNCHANGED <<born, grants, granted>>
    PROVE  Tables'
<1>1. \A v \in Users : Exists(v)' <=> Exists(v)
  BY RowsExist DEF Tables, Exists
<1>2. row' \in [Users -> Row \cup {None}] BY DEF Tables
<1>3. row'[u] = r /\ \A v \in Users \ {u} : row'[v] = row[v] BY DEF Tables
<1>4. \A v \in Users : row'[v].name = row[v].name BY <1>3
<1>. QED BY <1>1, <1>2, <1>4 DEF Tables, BornUsers

(* A new grant for a user that exists, beside some of the others. *)
LEMMA InsertGrantKeepsTables ==
    ASSUME Tables, NEW c \in Clients, Control, CanGrant(c), job[c].user \in Users,
           NEW kept \in SUBSET grants, InsertGrant(c, kept), UNCHANGED <<row, born>>
    PROVE  Tables'
<1>1. PICK g \in Grants \ granted :
         /\ grants' = kept \cup {[id |-> g, user |-> job[c].user, perms |-> job[c].perms]}
         /\ granted' = granted \cup {g}
  BY DEF InsertGrant
<1>2. job[c].perms \in SUBSET Permissions BY DEF Control, Job
<1>3. \A v \in Users : Exists(v)' <=> Exists(v) BY DEF Exists
<1>4. grants' \subseteq [id : Grants, user : Users, perms : SUBSET Permissions]
  BY <1>1, <1>2 DEF Tables
<1>5. \A h \in grants' : h.id \in granted' /\ Exists(h.user)'
  BY <1>1, <1>3 DEF Tables, CanGrant
<1>. QED BY <1>1, <1>3, <1>4, <1>5 DEF Tables, BornUsers

(* The tables keep their types and the constraints of the schema. *)
LEMMA TablesKept ==
    ASSUME ConstantsAssumption, Control, Tables, [Next]_vars
    PROVE  Tables'
<1>1. CASE UNCHANGED accounts
  BY <1>1 DEF accounts, Tables, Exists, BornUsers
<1>2. ASSUME NEW c \in Clients PROVE Stage(pc[c], job[c]) /\ job[c] \in Job
  BY DEF Control
<1>3. ASSUME NEW c \in Clients, CreateUser(c) PROVE Tables'
  <2>1. CASE UNCHANGED accounts BY <1>1, <2>1
  <2>2. ASSUME NEW u \in FreshUsers, NameFree(job[c].name), job[c].name \in Names,
               InsertUser(u, job[c].name, job[c].role, job[c].window),
               UNCHANGED <<grants, granted>>
        PROVE  Tables'
    BY <1>2, <2>2, InsertUserKeepsTables DEF Job
  <2>. QED BY <1>2, <1>3, <2>1, <2>2 DEF CreateUser, Stage, WellFormed, accounts
<1>4. ASSUME NEW c \in Clients, CreateGrant(c) \/ ReplaceUserGrant(c) PROVE Tables'
  <2>1. CASE UNCHANGED accounts BY <1>1, <2>1
  <2>2. job[c].user \in Users
    BY <1>2, <1>4 DEF CreateGrant, ReplaceUserGrant, Stage, WellFormed, Naming
  <2>3. ASSUME NEW kept \in SUBSET grants, CanGrant(c), InsertGrant(c, kept),
               UNCHANGED <<row, born>>
        PROVE  Tables'
    BY <2>2, <2>3, InsertGrantKeepsTables
  <2>. QED BY <1>4, <2>1, <2>3 DEF CreateGrant, ReplaceUserGrant, accounts
<1>5. ASSUME NEW c \in Clients, DeleteGrant(c) PROVE Tables'
  BY <1>5 DEF DeleteGrant, Tables, Exists, BornUsers
<1>6. ASSUME NEW c \in Clients, SetUserStatus(c) PROVE Tables'
  <2>1. CASE UNCHANGED accounts BY <1>1, <2>1
  <2> DEFINE u == job[c].user
  <2> DEFINE r == [row[u] EXCEPT !.status = IF job[c].op = "disable" THEN "disabled" ELSE "active"]
  <2>2. CASE Exists(u) /\ row' = [row EXCEPT ![u] = r]
    <3>1. u \in Users BY <1>2, <1>6 DEF SetUserStatus, Stage, WellFormed
    <3>2. row[u] \in Row BY <2>2, <3>1 DEF Tables, Exists
    <3>3. r \in Row /\ r.name = row[u].name BY <3>2 DEF Row
    <3>. QED BY <1>6, <2>2, <3>1, <3>3, UpdateKeepsTables DEF SetUserStatus
  <2>. QED BY <1>6, <2>1, <2>2 DEF SetUserStatus, accounts
<1>7. ASSUME NEW c \in Clients, DeleteUser(c) PROVE Tables'
  <2>1. CASE UNCHANGED accounts BY <1>1, <2>1
  <2>2. CASE /\ row' = [row EXCEPT ![job[c].user] = None]
             /\ grants' = {g \in grants : g.user # job[c].user}
    <3>1. \A v \in Users :
             /\ Exists(v)' => Exists(v) /\ row'[v] = row[v]
             /\ v # job[c].user => (Exists(v)' <=> Exists(v))
      BY <2>2 DEF Tables, Exists
    <3>2. row' \in [Users -> Row \cup {None}] BY <2>2 DEF Tables
    <3>3. \A g \in grants' : g \in grants /\ g.user # job[c].user BY <2>2
    <3>4. born' = born /\ granted' = granted /\ BornUsers' = BornUsers BY <1>7 DEF DeleteUser, BornUsers
    <3>5. \A u, v \in Users : Exists(u)' /\ Exists(v)' /\ row'[u].name = row'[v].name => u = v
      BY <3>1 DEF Tables
    <3>6. \A g \in grants' : g.id \in granted' /\ Exists(g.user)'
      BY <3>1, <3>3, <3>4 DEF Tables
    <3>7. \A u \in Users : Exists(u)' => u \in BornUsers'
      BY <3>1, <3>4 DEF Tables
    <3>. QED BY <3>2, <3>3, <3>4, <3>5, <3>6, <3>7 DEF Tables
  <2>. QED BY <1>7, <2>1, <2>2 DEF DeleteUser, accounts
<1>8. ASSUME NEW c \in Clients, UpdateUserValidity(c) PROVE Tables'
  <2>1. CASE UNCHANGED accounts BY <1>1, <2>1
  <2> DEFINE u == job[c].user
  <2> DEFINE r == [row[u] EXCEPT !.from = job[c].window.from, !.until = job[c].window.until]
  <2>2. CASE Exists(u) /\ row' = [row EXCEPT ![u].from = job[c].window.from,
                                           ![u].until = job[c].window.until]
    <3>1. u \in Users /\ job[c].window \in Windows
      BY <1>2, <1>8 DEF UpdateUserValidity, Stage, Naming, Job
    <3>2. row[u] \in Row BY <2>2, <3>1 DEF Tables, Exists
    <3>3. r \in Row /\ r.name = row[u].name BY <3>1, <3>2 DEF Row, ConstantsAssumption
    <3>4. row' = [row EXCEPT ![u] = r] BY <2>2, <3>1 DEF Tables
    <3>. QED BY <1>8, <2>2, <3>1, <3>3, <3>4, UpdateKeepsTables DEF UpdateUserValidity
  <2>. QED BY <1>8, <2>1, <2>2 DEF UpdateUserValidity, accounts
<1>9. CASE Crash
  <2>1. CASE UNCHANGED accounts BY <1>1, <2>1
  <2>2. ASSUME NEW u \in FreshUsers, NameFree(Bootstrap),
               InsertUser(u, Bootstrap, "admin", Always), UNCHANGED <<grants, granted>>
        PROVE  Tables'
    BY <2>2, InsertUserKeepsTables DEF ConstantsAssumption
  <2>. QED BY <1>9, <2>1, <2>2 DEF Crash, accounts
<1>. QED BY <1>1, <1>3, <1>4, <1>5, <1>6, <1>7, <1>8, <1>9, TableFootprint DEF TableStep

(* Tokens are issued to users, for permissions. *)
LEMMA RestKept ==
    ASSUME ConstantsAssumption, Control, Rest, [Next]_vars
    PROVE  Rest'
<1> USE DEF Rest
<1>1. ASSUME NEW c \in Clients, Mint(c) PROVE Rest'
  <2>1. Stage(pc[c], job[c]) /\ job[c] \in Job BY DEF Control
  <2>2. [user |-> job[c].principal, access |-> job[c].perms, expires |-> job[c].now + TokenTTL]
           \in Token
    BY <1>1, <2>1 DEF Mint, Stage, Job, Token, ConstantsAssumption
  <2>. QED BY <1>1, <2>2 DEF Mint, budget
<1>2. ASSUME NEW c \in Clients,
             \/ Receive(c) \/ RegistryStep(c) \/ AdminStep(c) \/ StepFails(c)
             \/ TokenStep(c) /\ ~Mint(c)
      PROVE  Rest'
  BY <1>2
     DEF ConstantsAssumption, Receive, RegistryStep, AdminStep, StepFails, TokenStep,
         AcquireVerification, Authenticate, UpdateUserLastUsed, ListGrants, Validate,
         HasCurrentRegistryAccess, ServeRegistryRoute, CreateUser, CreateGrant, DeleteGrant,
         SetUserStatus, DeleteUser, UIGetUser, UpdateUserValidity, ReplaceUserGrant, budget
<1>3. CASE Tick \/ Crash \/ UNCHANGED vars
  BY <1>3 DEF Tick, Crash, vars, budget, ConstantsAssumption
<1>. QED BY <1>1, <1>2, <1>3 DEF Next, Step, TokenStep

-----------------------------------------------------------------------------
Base == Control /\ Tables /\ Rest

(* Types, the stages of each request and the constraints of the schema, always. *)
LEMMA BaseAlways == Spec => []Base
<1>1. Init => Base
  <2> SUFFICES ASSUME Init PROVE Base OBVIOUS
  <2>1. PICK u \in Users :
           /\ row = [v \in Users |-> IF v = u THEN NewRow(Bootstrap, "admin", Always) ELSE None]
           /\ born = {[user |-> u, name |-> Bootstrap]}
    BY DEF Init
  <2>2. \A v \in Users : Exists(v) => v = u BY <2>1 DEF Exists
  <2>3. u \in BornUsers
    <3>1. [user |-> u, name |-> Bootstrap] \in born /\ [user |-> u, name |-> Bootstrap].user = u
      BY <2>1
    <3>. QED BY <3>1 DEF BornUsers
  <2>4. Tables
    <3>1. row \in [Users -> Row \cup {None}]
      BY <2>1, ConstantsAssumption, RowsExist DEF ConstantsAssumption
    <3>2. born \subseteq [user : Users, name : Names]
      BY <2>1, ConstantsAssumption DEF ConstantsAssumption
    <3>. QED BY <2>2, <2>3, <3>1, <3>2 DEF Init, Tables
  <2>5. Control BY ConstantsAssumption, IdleStage DEF Init, Control, Steps
  <2>6. Rest BY ConstantsAssumption DEF Init, Rest, ConstantsAssumption
  <2>. QED BY <2>4, <2>5, <2>6 DEF Base
<1>2. Base /\ [Next]_vars => Base'
  BY ConstantsAssumption, ControlKept, TablesKept, RestKept DEF Base
<1>. QED BY <1>1, <1>2, PTL DEF Spec

-----------------------------------------------------------------------------
\* Where a client's request has been let in.
Admitted == {"currentAccess", "serve"} \cup Mutating

\* What has been true since the request arrived, at each of those places.
History ==
    \A c \in Clients :
        /\ Truths(c) \subseteq seen[c]
        /\ pc[c] \in Admitted => "user" \in seen[c]
        /\ pc[c] = "serve" => "access" \in seen[c]
        /\ pc[c] \in Mutating => "admin" \in seen[c]

(* Whoever comes to such a place comes from another one, or from its token. *)
LEMMA Admissions ==
    ASSUME Control, Step, NEW c \in Clients, pc'[c] \in Admitted
    PROVE  \/ pc'[c] = pc[c]
           \/ pc[c] \in Mutating /\ pc'[c] \in Mutating
           \/ pc[c] = "currentAccess" /\ pc'[c] = "serve" /\ StillGranted(c)
           \/ /\ pc[c] = "validate" /\ Accepts(job[c].token)
              /\ pc'[c] = AfterValidation(c, job[c].token.user)
<1> USE DEF Control, Goto, Finish, Admitted, Mutating
<1>1. ASSUME NEW d \in Clients, Receive(d) \/ TokenStep(d) \/ StepFails(d) PROVE pc'[c] = pc[c]
  BY <1>1
     DEF Receive, TokenStep, StepFails, AcquireVerification, Authenticate, UpdateUserLastUsed,
         ListGrants, Mint
<1>2. ASSUME NEW d \in Clients, AdminStep(d)
      PROVE  pc'[c] = pc[c] \/ (pc[c] \in Mutating /\ pc'[c] \in Mutating)
  <2> DEFINE Goes == /\ pc[d] \in Mutating /\ pc'[d] \in Mutating \cup {"idle"}
                     /\ \A e \in Clients \ {d} : pc'[e] = pc[e]
  <2>1. CASE CreateUser(d) BY <2>1 DEF CreateUser
  <2>2. CASE CreateGrant(d) \/ DeleteGrant(d) \/ ReplaceUserGrant(d)
    <3>1. Goes BY <2>2 DEF CreateGrant, DeleteGrant, ReplaceUserGrant
    <3>. QED BY <3>1
  <2>3. CASE SetUserStatus(d) \/ DeleteUser(d)
    <3>1. Goes BY <2>3 DEF SetUserStatus, DeleteUser
    <3>. QED BY <3>1
  <2>4. CASE UIGetUser(d) \/ UpdateUserValidity(d)
    <3>1. Goes BY <2>4 DEF UIGetUser, UpdateUserValidity
    <3>. QED BY <3>1
  <2>. QED BY <1>2, <2>1, <2>2, <2>3, <2>4 DEF AdminStep
<1>3. ASSUME NEW d \in Clients, HasCurrentRegistryAccess(d) \/ ServeRegistryRoute(d)
      PROVE  \/ pc'[c] = pc[c]
             \/ pc[c] = "currentAccess" /\ pc'[c] = "serve" /\ StillGranted(c)
  BY <1>3 DEF HasCurrentRegistryAccess, ServeRegistryRoute
<1>4. ASSUME NEW d \in Clients, Validate(d)
      PROVE  \/ pc'[c] = pc[c]
             \/ /\ pc[c] = "validate" /\ Accepts(job[c].token)
                /\ pc'[c] = AfterValidation(c, job[c].token.user)
  BY <1>4 DEF Validate
<1>5. CASE Tick \/ Crash BY <1>5 DEF Tick, Crash, control
<1>. QED BY <1>1, <1>2, <1>3, <1>4, <1>5 DEF Step, RegistryStep

(* Who asks for no permission "admin" has what its grants say, and not more. *)
LEMMA GrantsDecide ==
    ASSUME Control, NEW c \in Clients, pc[c] = "currentAccess", StillGranted(c)
    PROVE  job[c].perms \subseteq GrantedTo(job[c].token.user)
<1>1. /\ job[c].op = "registry" /\ WellFormed(job[c])
      /\ job[c].principal = job[c].token.user
  BY DEF Control, Stage
<1>2. \A p \in job[c].perms : p[2] # "admin" BY <1>1 DEF WellFormed
<1>3. SUFFICES ASSUME NEW p \in job[c].perms PROVE p \in GrantedTo(job[c].principal)
  BY <1>1
<1>4. p \in GrantedTo(job[c].principal) \/ <<p[1], "admin">> \in job[c].perms
  BY DEF StillGranted, HasAccess, IntersectAccess
<1>5. <<p[1], "admin">>[2] = "admin" OBVIOUS
<1>. QED BY <1>2, <1>4, <1>5

(* The history says of an admitted request what RevocationIsRespected and
   OnlyAdministratorsMutate ask for. *)
LEMMA HistoryKept ==
    ASSUME ConstantsAssumption, Base, History, [Next]_vars
    PROVE  History'
<1>1. CASE UNCHANGED vars
  BY <1>1
     DEF vars, control, accounts, History, Truths, MayActAt, Exists, ValidAt, IsAdmin, HasAccess,
         GrantedTo
<1>2. CASE Next
  <2>1. \A c \in Clients : Truths(c)' \subseteq seen'[c]
    BY <1>2 DEF Next, Remember
  <2>2. \A c \in Clients : pc[c] # "idle" => seen[c] \subseteq seen'[c]
    BY <1>2 DEF Next, Remember
  <2>3. ASSUME NEW c \in Clients, pc'[c] \in Admitted
        PROVE  /\ "user" \in seen'[c]
               /\ pc'[c] = "serve" => "access" \in seen'[c]
               /\ pc'[c] \in Mutating => "admin" \in seen'[c]
    <3>1. CASE pc'[c] = pc[c] \/ (pc[c] \in Mutating /\ pc'[c] \in Mutating)
      BY <2>2, <2>3, <3>1 DEF History, Admitted, Mutating
    <3>2. CASE pc[c] = "currentAccess" /\ pc'[c] = "serve" /\ StillGranted(c)
      <4>1. /\ job[c].token # NoToken
            /\ HasAccess(job[c].token.access, job[c].perms)
        BY <3>2 DEF Base, Control, Stage, Token, NoToken, ConstantsAssumption
      <4>2. "access" \in Truths(c)
        BY <3>2, <4>1, GrantsDecide DEF Truths, Base
      <4>. QED BY <2>2, <3>2, <4>2 DEF History, Admitted, Mutating
    <3>3. CASE /\ pc[c] = "validate" /\ Accepts(job[c].token)
               /\ pc'[c] = AfterValidation(c, job[c].token.user)
      <4>1. job[c].token # NoToken
        BY <3>3 DEF Base, Control, Stage, Token, NoToken, ConstantsAssumption
      <4>2. "user" \in Truths(c) BY <3>3, <4>1 DEF Truths, Accepts
      <4>3. pc'[c] \in Mutating => "admin" \in Truths(c)
        BY <3>3, <4>1 DEF Truths, AfterValidation, Mutating
      <4>4. pc'[c] = "serve" => "access" \in Truths(c)
        BY <3>3, <4>1 DEF Truths, AfterValidation
      <4>. QED BY <2>2, <3>3, <4>2, <4>3, <4>4 DEF History
    <3>4. \/ pc'[c] = pc[c]
          \/ pc[c] \in Mutating /\ pc'[c] \in Mutating
          \/ pc[c] = "currentAccess" /\ pc'[c] = "serve" /\ StillGranted(c)
          \/ /\ pc[c] = "validate" /\ Accepts(job[c].token)
             /\ pc'[c] = AfterValidation(c, job[c].token.user)
      BY <1>2, <2>3, Admissions DEF Next, Base
    <3>. QED BY <3>1, <3>2, <3>3, <3>4
  <2>. QED BY <2>1, <2>3 DEF History, Admitted
<1>. QED BY <1>1, <1>2

(* It holds from the start, when nobody has presented anything. *)
LEMMA HistoryAlways == Spec => []History
<1>1. Init => History
  <2>1. ASSUME Init, NEW c \in Clients PROVE Truths(c) = {} /\ pc[c] = "idle"
    BY <2>1 DEF Init, IdleJob, Truths
  <2>. QED BY <2>1 DEF History, Admitted, Mutating
<1>2. Base /\ History /\ [Next]_vars => History'
  BY ConstantsAssumption, HistoryKept
<1>. QED BY <1>1, <1>2, BaseAlways, PTL DEF Spec

-----------------------------------------------------------------------------
\* Whoever a request verifies, and how many there are.
Verified == {c \in Clients : pc[c] \in Verifying}

Slots == verifying = Cardinality(Verified) /\ verifying <= VerifyWorkers

(* A set of clients has a size, which changes by one with one client. *)
LEMMA VerifiedSize ==
    ASSUME ConstantsAssumption
    PROVE  /\ IsFiniteSet(Verified) /\ Cardinality(Verified) \in Nat
           /\ \A c \in Clients :
                 Cardinality(Verified \cup {c}) =
                    IF c \in Verified THEN Cardinality(Verified) ELSE Cardinality(Verified) + 1
           /\ \A c \in Clients :
                 Cardinality(Verified \ {c}) =
                    IF c \in Verified THEN Cardinality(Verified) - 1 ELSE Cardinality(Verified)
<1>1. IsFiniteSet(Verified) BY FS_Subset DEF Verified, ConstantsAssumption
<1>2. Cardinality(Verified) \in Nat BY <1>1, FS_CardinalityType
<1>3. ASSUME NEW c \in Clients
      PROVE  Cardinality(Verified \cup {c}) =
                IF c \in Verified THEN Cardinality(Verified) ELSE Cardinality(Verified) + 1
  BY <1>1, FS_AddElement
<1>4. ASSUME NEW c \in Clients
      PROVE  Cardinality(Verified \ {c}) =
                IF c \in Verified THEN Cardinality(Verified) - 1 ELSE Cardinality(Verified)
  BY <1>1, FS_RemoveElement
<1>. QED BY <1>1, <1>2, <1>3, <1>4

(* A client that goes to a step joins those verified or leaves them. *)
LEMMA VerifiedMoves ==
    ASSUME Control, NEW c \in Clients, NEW step, Goto(c, step)
    PROVE  Verified' = IF step \in Verifying THEN Verified \cup {c} ELSE Verified \ {c}
BY DEF Control, Goto, Verified, Verifying

(* A client that takes no slot and returns none. *)
LEMMA OthersKeepSlots ==
    ASSUME ConstantsAssumption, Control, Slots, NEW c \in Clients,
           pc[c] \notin Verifying, NEW step, step \notin Verifying, Goto(c, step),
           verifying' = verifying
    PROVE  Slots'
<1>1. Verified' = Verified BY VerifiedMoves DEF Verified
<1>. QED BY <1>1 DEF Slots

(* A client that returns its slot. *)
LEMMA ReturningKeepsSlots ==
    ASSUME ConstantsAssumption, Control, Slots, NEW c \in Clients,
           pc[c] \in Verifying, NEW step, step \notin Verifying, Goto(c, step),
           verifying' = verifying - 1
    PROVE  Slots'
<1>1. Verified' = Verified \ {c} /\ c \in Verified BY VerifiedMoves DEF Verified
<1>2. Cardinality(Verified') = Cardinality(Verified) - 1 BY <1>1, VerifiedSize
<1>. QED BY <1>2, VerifiedSize DEF Slots, ConstantsAssumption

(* A slot is counted exactly as long as it is used. *)
LEMMA SlotsKept ==
    ASSUME ConstantsAssumption, Control, Slots, [Next]_vars
    PROVE  Slots'
<1>1. ASSUME NEW c \in Clients, AcquireVerification(c) PROVE Slots'
  <2>1. CASE Finish(c) /\ UNCHANGED verifying
    BY <1>1, <2>1, OthersKeepSlots DEF AcquireVerification, Finish, Verifying
  <2>2. CASE verifying < VerifyWorkers /\ verifying' = verifying + 1 /\ Goto(c, "authenticate")
    <3>1. Verified' = Verified \cup {c} /\ c \notin Verified
      BY <1>1, <2>2, VerifiedMoves DEF AcquireVerification, Verified, Verifying
    <3>2. Cardinality(Verified') = Cardinality(Verified) + 1 BY <3>1, VerifiedSize
    <3>. QED BY <2>2, <3>2, VerifiedSize DEF Slots, ConstantsAssumption
  <2>. QED BY <1>1, <2>1, <2>2 DEF AcquireVerification
<1>2. ASSUME NEW c \in Clients, Authenticate(c) PROVE Slots'
  <2>1. CASE Goto(c, "lastUsed") /\ UNCHANGED verifying
    <3>1. Verified' = Verified BY <1>2, <2>1, VerifiedMoves DEF Authenticate, Verified, Verifying
    <3>. QED BY <2>1, <3>1 DEF Slots
  <2>2. CASE verifying' = verifying - 1 /\ Finish(c)
    BY <1>2, <2>2, ReturningKeepsSlots DEF Authenticate, Finish, Verifying
  <2>. QED BY <1>2, <2>1, <2>2 DEF Authenticate, SlotsAfterDenial
<1>3. ASSUME NEW c \in Clients, UpdateUserLastUsed(c) PROVE Slots'
  BY <1>3, ReturningKeepsSlots DEF UpdateUserLastUsed, Finish, Verifying
<1>4. ASSUME NEW c \in Clients, StepFails(c) PROVE Slots'
  BY <1>4, ReturningKeepsSlots, OthersKeepSlots DEF StepFails, SlotsAfterError, Finish, Verifying
<1>5. ASSUME NEW c \in Clients, Receive(c) \/ ListGrants(c) \/ Mint(c) \/ RegistryStep(c)
      PROVE  Slots'
  <2> DEFINE Goes == /\ pc[c] \notin Verifying /\ verifying' = verifying
                     /\ \/ Goto(c, "verify") \/ Goto(c, "validate") \/ Goto(c, "mint")
                        \/ Goto(c, "idle") \/ Goto(c, "serve") \/ Goto(c, "currentAccess")
                        \/ Goto(c, "mutate")
  <2>1. CASE Receive(c) \/ ListGrants(c) \/ Mint(c)
    <3>1. Goes BY <2>1 DEF Receive, ListGrants, Mint, Finish, Verifying
    <3>. QED BY <3>1, OthersKeepSlots DEF Verifying
  <2>2. CASE HasCurrentRegistryAccess(c) \/ ServeRegistryRoute(c)
    <3>1. Goes BY <2>2 DEF HasCurrentRegistryAccess, ServeRegistryRoute, Finish, Verifying
    <3>. QED BY <3>1, OthersKeepSlots DEF Verifying
  <2>3. CASE Validate(c)
    <3>1. \A u : AfterValidation(c, u) \in {"mutate", "serve", "currentAccess", "denied"}
      BY DEF AfterValidation
    <3>2. Goes BY <2>3, <3>1 DEF Validate, Finish, Verifying
    <3>. QED BY <3>2, OthersKeepSlots DEF Verifying
  <2>. QED BY <1>5, <2>1, <2>2, <2>3 DEF RegistryStep
<1>6. ASSUME NEW c \in Clients, AdminStep(c) PROVE Slots'
  <2> DEFINE Goes == /\ pc[c] \notin Verifying /\ verifying' = verifying
                     /\ \/ Goto(c, "firstGrant") \/ Goto(c, "replaceGrant") \/ Goto(c, "idle")
                        \/ Goto(c, "validity") \/ Goto(c, "uiDelete")
  <2>1. CASE CreateUser(c) \/ UIGetUser(c)
    <3>1. Goes BY <2>1 DEF CreateUser, UIGetUser, Finish, Verifying
    <3>. QED BY <3>1, OthersKeepSlots DEF Verifying
  <2>2. CASE CreateGrant(c) \/ DeleteGrant(c) \/ ReplaceUserGrant(c)
    <3>1. Goes BY <2>2 DEF CreateGrant, DeleteGrant, ReplaceUserGrant, Finish, Verifying
    <3>. QED BY <3>1, OthersKeepSlots DEF Verifying
  <2>3. CASE SetUserStatus(c) \/ DeleteUser(c) \/ UpdateUserValidity(c)
    <3>1. Goes BY <2>3 DEF SetUserStatus, DeleteUser, UpdateUserValidity, Finish, Verifying
    <3>. QED BY <3>1, OthersKeepSlots DEF Verifying
  <2>. QED BY <1>6, <2>1, <2>2, <2>3 DEF AdminStep
<1>7. CASE Tick \/ UNCHANGED vars
  BY <1>7 DEF Tick, vars, control, Slots, Verified
<1>8. CASE Crash
  <2>1. Verified' = {} BY <1>8 DEF Crash, Verified, Verifying
  <2>. QED BY <1>8, <2>1, FS_EmptySet DEF Crash, Slots, ConstantsAssumption
<1>. QED BY <1>1, <1>2, <1>3, <1>4, <1>5, <1>6, <1>7, <1>8 DEF Next, Step, TokenStep

-----------------------------------------------------------------------------
\* Whose row the UI is about to change is no administrator's, or is gone.
UIManaged ==
    \A c \in Clients : pc[c] \in {"uiDelete", "validity"} =>
        job[c].user \in BornUsers /\ ~IsAdmin(job[c].user)

(* What a step may do to a row, and for whom. *)
LEMMA RowChanges ==
    ASSUME ConstantsAssumption, Control, Tables, [Next]_vars, NEW u \in Users, row'[u] # row[u]
    PROVE  \/ u \in FreshUsers
           \/ \E c \in Clients :
                 /\ job[c].user = u
                 /\ \/ /\ pc[c] = "mutate" /\ job[c].op \in {"disable", "enable"}
                       /\ Exists(u) /\ row'[u].role = row[u].role
                    \/ /\ pc[c] = "mutate" /\ job[c].op = "deleteUser"
                       /\ job[c].principal # u /\ row'[u] = None
                    \/ pc[c] = "uiDelete" /\ row'[u] = None
                    \/ pc[c] = "validity" /\ Exists(u) /\ row'[u].role = row[u].role
<1>1. ~UNCHANGED accounts BY DEF accounts
<1>2. ASSUME NEW c \in Clients, CreateUser(c) PROVE u \in FreshUsers
  <2>1. PICK v \in FreshUsers : InsertUser(v, job[c].name, job[c].role, job[c].window)
    BY <1>2 DEF CreateUser
  <2>. QED BY <2>1 DEF InsertUser, Tables, FreshUsers
<1>3. CASE Crash
  <2>1. PICK v \in FreshUsers : InsertUser(v, Bootstrap, "admin", Always) BY <1>3 DEF Crash
  <2>. QED BY <2>1 DEF InsertUser, Tables, FreshUsers
<1>4. ASSUME NEW c \in Clients, CreateGrant(c) \/ DeleteGrant(c) \/ ReplaceUserGrant(c) PROVE FALSE
  BY <1>4 DEF CreateGrant, DeleteGrant, ReplaceUserGrant
<1>5. ASSUME NEW c \in Clients, SetUserStatus(c)
      PROVE  /\ job[c].user = u /\ pc[c] = "mutate" /\ job[c].op \in {"disable", "enable"}
             /\ Exists(u) /\ row'[u].role = row[u].role
  <2> DEFINE v == job[c].user
  <2> DEFINE r == [row[v] EXCEPT !.status = IF job[c].op = "disable" THEN "disabled" ELSE "active"]
  <2>1. Exists(v) /\ row' = [row EXCEPT ![v] = r] BY <1>5 DEF SetUserStatus
  <2>2. u = v /\ row'[u] = r BY <2>1 DEF Tables
  <2>3. row[u] \in Row BY <2>1, <2>2 DEF Tables, Exists
  <2>4. r.role = row[u].role BY <2>2, <2>3 DEF Row
  <2>. QED BY <1>5, <2>1, <2>2, <2>4 DEF SetUserStatus
<1>6. ASSUME NEW c \in Clients, DeleteUser(c)
      PROVE  /\ job[c].user = u /\ row'[u] = None /\ job[c].principal # u
             /\ \/ pc[c] = "mutate" /\ job[c].op = "deleteUser"
                \/ pc[c] = "uiDelete"
  BY <1>6 DEF DeleteUser, NotItself, Tables
<1>7. ASSUME NEW c \in Clients, UpdateUserValidity(c)
      PROVE  /\ job[c].user = u /\ pc[c] = "validity"
             /\ Exists(u) /\ row'[u].role = row[u].role
  <2> DEFINE v == job[c].user
  <2> DEFINE r == [row[v] EXCEPT !.from = job[c].window.from, !.until = job[c].window.until]
  <2>1. v \in Users BY <1>7 DEF UpdateUserValidity, Control, Stage, Naming
  <2>2. /\ Exists(v)
        /\ row' = [row EXCEPT ![v].from = job[c].window.from, ![v].until = job[c].window.until]
    BY <1>7 DEF UpdateUserValidity
  <2>3. row' = [row EXCEPT ![v] = r] BY <2>1, <2>2 DEF Tables
  <2>4. u = v /\ row'[u] = r BY <2>3 DEF Tables
  <2>5. row[u] \in Row BY <2>2, <2>4 DEF Tables, Exists
  <2>6. r.role = row[u].role BY <2>4, <2>5 DEF Row
  <2>. QED BY <1>7, <2>2, <2>4, <2>6 DEF UpdateUserValidity
<1>. QED
  BY <1>1, <1>2, <1>3, <1>4, <1>5, <1>6, <1>7, TableFootprint DEF TableStep

(* Ids stay given out. *)
LEMMA BornUsersStay == ASSUME [Next]_vars PROVE BornUsers \subseteq BornUsers'
<1>1. born \subseteq born'
  <2>1. CASE UNCHANGED accounts BY <2>1 DEF accounts
  <2>2. CASE TableStep
    BY <2>2
       DEF TableStep, Crash, CreateUser, CreateGrant, DeleteGrant, SetUserStatus, DeleteUser,
           UpdateUserValidity, ReplaceUserGrant, InsertUser
  <2>. QED BY <2>1, <2>2, TableFootprint
<1>. QED BY <1>1 DEF BornUsers

(* No step makes an administrator of somebody who was there before. *)
LEMMA NobodyIsPromoted ==
    ASSUME ConstantsAssumption, Control, Tables, [Next]_vars,
           NEW u \in Users, u \in BornUsers, ~IsAdmin(u)
    PROVE  ~IsAdmin(u)'
<1>1. CASE row'[u] = row[u] BY <1>1 DEF IsAdmin, Exists
<1>2. CASE row'[u] = None BY <1>2 DEF IsAdmin, Exists
<1>3. CASE Exists(u) /\ row'[u].role = row[u].role BY <1>3 DEF IsAdmin
<1>. QED BY <1>1, <1>2, <1>3, RowChanges DEF FreshUsers

(* Whoever is about to change a row through the UI was so before, or has just read it. *)
LEMMA UIEntries ==
    ASSUME Control, [Next]_vars, NEW c \in Clients, pc'[c] \in {"uiDelete", "validity"}
    PROVE  \/ pc'[c] = pc[c] /\ job'[c] = job[c]
           \/ UIGetUser(c)
<1> USE DEF Control, Goto, Finish
<1>1. ASSUME NEW d \in Clients, Receive(d) \/ TokenStep(d) \/ StepFails(d)
      PROVE  pc'[c] = pc[c] /\ job'[c] = job[c]
  BY <1>1
     DEF Receive, TokenStep, StepFails, AcquireVerification, Authenticate, UpdateUserLastUsed,
         ListGrants, Mint
<1>2. ASSUME NEW d \in Clients, RegistryStep(d) PROVE pc'[c] = pc[c] /\ job'[c] = job[c]
  BY <1>2 DEF RegistryStep, Validate, AfterValidation, HasCurrentRegistryAccess, ServeRegistryRoute
<1>3. ASSUME NEW d \in Clients, CreateUser(d) \/ CreateGrant(d) \/ DeleteGrant(d)
      PROVE  pc'[c] = pc[c] /\ job'[c] = job[c]
  BY <1>3 DEF CreateUser, CreateGrant, DeleteGrant
<1>4. ASSUME NEW d \in Clients, SetUserStatus(d) \/ DeleteUser(d) \/ ReplaceUserGrant(d)
      PROVE  pc'[c] = pc[c] /\ job'[c] = job[c]
  BY <1>4 DEF SetUserStatus, DeleteUser, ReplaceUserGrant
<1>5. ASSUME NEW d \in Clients, UpdateUserValidity(d)
      PROVE  pc'[c] = pc[c] /\ job'[c] = job[c]
  BY <1>5 DEF UpdateUserValidity
<1>6. ASSUME NEW d \in Clients, UIGetUser(d)
      PROVE  d = c \/ (pc'[c] = pc[c] /\ job'[c] = job[c])
  BY <1>6 DEF UIGetUser
<1>7. CASE Tick \/ Crash \/ UNCHANGED vars
  BY <1>7 DEF Tick, Crash, vars, control
<1>. QED BY <1>1, <1>2, <1>3, <1>4, <1>5, <1>6, <1>7 DEF Next, Step, AdminStep

(* The UI reads a user before it changes it, and nobody becomes an administrator in
   between. *)
LEMMA UIManagedKept ==
    ASSUME ConstantsAssumption, Base, UIManaged, [Next]_vars
    PROVE  UIManaged'
<1> USE DEF Base
<1>1. Control' BY ControlKept
<1>2. ASSUME NEW c \in Clients, pc'[c] \in {"uiDelete", "validity"}
      PROVE  /\ job'[c].user = job[c].user
             /\ job[c].user \in Users \cap BornUsers /\ ~IsAdmin(job[c].user)
  <2>1. job'[c].user \in Users BY <1>1, <1>2 DEF Control, Stage, Naming
  <2>2. CASE pc'[c] = pc[c] /\ job'[c] = job[c] BY <1>2, <2>1, <2>2 DEF UIManaged
  <2>3. CASE UIGetUser(c)
    <3>1. UIManages(job[c].user) /\ job' = job BY <1>2, <2>3 DEF UIGetUser, Finish, Goto, Control
    <3>. QED BY <2>1, <3>1 DEF UIManages, Tables
  <2>. QED BY <1>2, <2>2, <2>3, UIEntries
<1>3. ASSUME NEW c \in Clients, pc'[c] \in {"uiDelete", "validity"}
      PROVE  job'[c].user \in BornUsers' /\ ~IsAdmin(job[c].user)'
  BY <1>2, <1>3, NobodyIsPromoted, BornUsersStay
<1>. QED BY <1>2, <1>3 DEF UIManaged, IsAdmin, Exists

-----------------------------------------------------------------------------
(***************************************************************************)
(* The theorems.                                                           *)
(***************************************************************************)
(* Slots are counted and the UI spares administrators, always. *)
LEMMA SlotsAndUIAlways == Spec => [](Slots /\ UIManaged)
<1>1. Init => Slots /\ UIManaged
  <2> SUFFICES ASSUME Init PROVE Slots /\ UIManaged OBVIOUS
  <2>1. Verified = {} BY DEF Init, Verified, Verifying
  <2>2. Slots BY <2>1, ConstantsAssumption, FS_EmptySet DEF Init, Slots, ConstantsAssumption
  <2>3. UIManaged BY DEF Init, UIManaged
  <2>. QED BY <2>2, <2>3
<1>2. Base /\ Slots /\ UIManaged /\ [Next]_vars => (Slots /\ UIManaged)'
  BY ConstantsAssumption, SlotsKept, UIManagedKept DEF Base
<1>. QED BY <1>1, <1>2, BaseAlways, PTL DEF Spec

(* Types and the constraints of db/schema.go: whatever the requests, the faults
   and the crashes, a username has one user and a grant has a user. *)
THEOREM TypeCorrect == Spec => []SchemaHolds
<1>1. Base /\ Slots => SchemaHolds
  BY ConstantsAssumption, VerifiedSize DEF Base, Control, Tables, Rest, Slots, SchemaHolds
<1>. QED BY <1>1, BaseAlways, SlotsAndUIAlways, PTL

(* The promise of README.md:214, with three reads of the database in server.go's
   authorization and administrators at work between them: whatever is served was
   allowed, and its user active and valid, at some time since the request arrived. *)
THEOREM RevocationHolds == Spec => []RevocationIsRespected
<1>1. History => RevocationIsRespected
  BY DEF History, RevocationIsRespected, Admitted
<1>. QED BY <1>1, HistoryAlways, PTL

(* admin.go and ui.go change users and grants only for who was an active
   administrator since the request arrived. *)
THEOREM OnlyAdministrators == Spec => []OnlyAdministratorsMutate
<1>1. History => OnlyAdministratorsMutate
  BY DEF History, OnlyAdministratorsMutate, Admitted
<1>. QED BY <1>1, HistoryAlways, PTL

(* handleToken counts its verification slots right on every path out of it, the
   failing statements included, for any number of clients and workers. *)
THEOREM SlotsReturned == Spec => []SlotsAreReturned
<1>1. Slots => SlotsAreReturned BY DEF Slots, Verified, SlotsAreReturned
<1>. QED BY <1>1, SlotsAndUIAlways, PTL

(* No path of ui.go, and no step of another request between its read of a user and
   its write, changes an administrator; the API spares the one who asks. *)
THEOREM AdministratorsAreSafe == Spec => AdministratorsChangeByTheAPI
<1> DEFINE Safe == \A u \in Users : IsAdmin(u) /\ row'[u] # row[u] =>
                      \E c \in Clients :
                         /\ pc[c] = "mutate" /\ job[c].user = u
                         /\ \/ job[c].op \in {"disable", "enable"}
                            \/ job[c].op = "deleteUser" /\ job[c].principal # u
<1>1. Base /\ UIManaged /\ [Next]_vars => [Safe]_vars
  <2> SUFFICES ASSUME Base, UIManaged, [Next]_vars,
                      NEW u \in Users, IsAdmin(u), row'[u] # row[u]
               PROVE  \E c \in Clients :
                         /\ pc[c] = "mutate" /\ job[c].user = u
                         /\ \/ job[c].op \in {"disable", "enable"}
                            \/ job[c].op = "deleteUser" /\ job[c].principal # u
    OBVIOUS
  <2>1. u \notin FreshUsers BY DEF Base, Tables, IsAdmin, FreshUsers
  <2>. QED BY <2>1, ConstantsAssumption, RowChanges DEF Base, UIManaged
<1>. QED BY <1>1, BaseAlways, SlotsAndUIAlways, PTL DEF Spec, AdministratorsChangeByTheAPI

-----------------------------------------------------------------------------
(***************************************************************************)
(* Scopes: what AccessControl takes for granted.                           *)
(***************************************************************************)
Scope == INSTANCE Scopes

(* A sequence that agrees with another as far as it goes is cut from it. *)
LEMMA SubSeqOfPrefix ==
    ASSUME NEW S, NEW s \in Seq(S), NEW t \in Seq(S), Len(t) <= Len(s)
    PROVE  t = SubSeq(s, 1, Len(t)) <=> \A i \in 1 .. Len(t) : s[i] = t[i]
<1>1. Len(s) \in Nat /\ Len(t) \in Nat
  BY LenProperties
<1>2. /\ SubSeq(s, 1, Len(t)) \in Seq(S)
      /\ Len(SubSeq(s, 1, Len(t))) = Len(t)
      /\ \A i \in 1 .. Len(t) : SubSeq(s, 1, Len(t))[i] = s[i]
  <2>1. \A i \in 1 .. Len(t) : s[i] \in S
    BY <1>1, ElementOfSeq
  <2>2. /\ SubSeq(s, 1, Len(t)) \in Seq(S)
        /\ Len(SubSeq(s, 1, Len(t))) = IF 1 <= Len(t) THEN Len(t) - 1 + 1 ELSE 0
        /\ \A i \in 1 .. Len(t) - 1 + 1 : SubSeq(s, 1, Len(t))[i] = s[1 + i - 1]
    BY <1>1, <2>1, SubSeqProperties
  <2>. QED
    BY <1>1, <2>2
<1>. QED
  BY <1>1, <1>2, SeqEqual

(* A part before a name, or after one. *)
LEMMA Prefixed ==
    ASSUME NEW S, NEW e \in S, NEW s \in Seq(S)
    PROVE  /\ <<e>> \o s \in Seq(S) /\ Len(<<e>> \o s) = Len(s) + 1
           /\ (<<e>> \o s)[1] = e
           /\ Tail(<<e>> \o s) = s
<1> DEFINE single == <<e>>
           both == single \o s
<1>1. single \in Seq(S) /\ Len(single) = 1 /\ single[1] = e /\ Len(s) \in Nat
  BY LenProperties
<1> HIDE DEF single
<1>2. /\ both \in Seq(S) /\ Len(both) = Len(single) + Len(s)
      /\ \A i \in 1 .. Len(single) + Len(s) :
            both[i] = IF i <= Len(single) THEN single[i] ELSE s[i - Len(single)]
  BY <1>1, ConcatProperties
<1> HIDE DEF both
<1>3. Len(both) = Len(s) + 1 /\ both[1] = e
  BY <1>1, <1>2
<1>4. \A i \in 1 .. Len(s) : both[i + 1] = s[i]
  BY <1>1, <1>2
<1>5. both # <<>>
  BY <1>1, <1>3, EmptySeq
<1>6. /\ Tail(both) \in Seq(S) /\ Len(Tail(both)) = Len(both) - 1
      /\ \A i \in 1 .. Len(Tail(both)) : Tail(both)[i] = both[i + 1]
  BY <1>2, <1>5, HeadTailProperties
<1>7. Len(Tail(both)) = Len(s) /\ \A i \in 1 .. Len(Tail(both)) : Tail(both)[i] = s[i]
  BY <1>1, <1>3, <1>4, <1>6
<1>8. Tail(both) = s
  BY <1>6, <1>7, SeqEqual
<1>. QED
  BY <1>2, <1>3, <1>8 DEF both, single

LEMMA Suffixed ==
    ASSUME NEW S, NEW e \in S, NEW s \in Seq(S), Len(s) >= 1
    PROVE  /\ s \o <<e>> \in Seq(S) /\ Len(s \o <<e>>) = Len(s) + 1
           /\ (s \o <<e>>)[1] = s[1] /\ (s \o <<e>>)[Len(s \o <<e>>)] = e
           /\ SubSeq(s \o <<e>>, 1, Len(s \o <<e>>) - 1) = s
<1> DEFINE single == <<e>>
           both == s \o single
<1>1. single \in Seq(S) /\ Len(single) = 1 /\ single[1] = e /\ Len(s) \in Nat
  BY LenProperties
<1> HIDE DEF single
<1>2. /\ both \in Seq(S) /\ Len(both) = Len(s) + Len(single)
      /\ \A i \in 1 .. Len(s) + Len(single) :
            both[i] = IF i <= Len(s) THEN s[i] ELSE single[i - Len(s)]
  BY <1>1, ConcatProperties
<1> HIDE DEF both
<1>3. Len(both) = Len(s) + 1 /\ both[Len(both)] = e
  BY <1>1, <1>2
<1>4. \A i \in 1 .. Len(s) : both[i] = s[i]
  BY <1>1, <1>2
<1>5. s = SubSeq(both, 1, Len(s))
  BY <1>1, <1>2, <1>3, <1>4, SubSeqOfPrefix
<1>6. Len(both) - 1 = Len(s) /\ both[1] = s[1]
  BY <1>1, <1>3, <1>4
<1>. QED
  BY <1>2, <1>3, <1>5, <1>6 DEF both, single

(* The two slashes are dropped before prefixes are compared. *)
LEMMA SpellingsAreTrimmed ==
    ASSUME NEW Parts, NEW prefix \in Seq(Parts \ {Scope!Empty}), prefix # <<>>,
           NEW spelled \in Scope!Spellings(prefix)
    PROVE  /\ Scope!TrimSuffix(Scope!TrimPrefix(spelled)) = prefix
           /\ Scope!TrimPrefix(spelled) \in {prefix, prefix \o <<Scope!Empty>>}
<1> DEFINE All == Parts \cup {Scope!Empty}
           slash == <<Scope!Empty>>
           ended == prefix \o slash
<1>1. Len(prefix) \in Nat /\ Len(prefix) >= 1
  BY EmptySeq
<1>2. prefix[1] # Scope!Empty /\ prefix[Len(prefix)] # Scope!Empty
  BY <1>1, ElementOfSeq
<1>3. prefix \in Seq(All)
  BY SeqMonotonic
<1>4. /\ ended \in Seq(All) /\ Len(ended) = Len(prefix) + 1
      /\ ended[1] = prefix[1] /\ ended[Len(ended)] = Scope!Empty
      /\ SubSeq(ended, 1, Len(ended) - 1) = prefix
  BY <1>1, <1>3, Suffixed
<1>5. spelled \in {prefix, slash \o prefix, ended, slash \o ended}
  <2>1. slash \in Seq(All)
    OBVIOUS
  <2>2. (slash \o prefix) \o slash = slash \o ended
    BY <1>3, <2>1, ConcatAssociative
  <2>. QED
    BY <2>2 DEF Scope!Spellings
<1>6. ASSUME NEW s \in Seq(All), Len(s) >= 1
      PROVE  Scope!TrimPrefix(slash \o s) = s
  <2>1. /\ Len(slash \o s) = Len(s) + 1 /\ (slash \o s)[1] = Scope!Empty
        /\ Tail(slash \o s) = s /\ Len(s) \in Nat
    BY Prefixed, LenProperties
  <2>2. Len(slash \o s) > 1
    BY <1>6, <2>1
  <2>. QED
    BY <2>1, <2>2 DEF Scope!TrimPrefix
<1> HIDE DEF All, slash, ended
<1>7. Scope!TrimPrefix(slash \o prefix) = prefix /\ Scope!TrimPrefix(slash \o ended) = ended
  BY <1>1, <1>3, <1>4, <1>6
<1>8. Scope!TrimPrefix(prefix) = prefix /\ Scope!TrimPrefix(ended) = ended
  BY <1>2, <1>4 DEF Scope!TrimPrefix
<1>9. Scope!TrimSuffix(prefix) = prefix /\ Scope!TrimSuffix(ended) = prefix
  BY <1>1, <1>2, <1>4 DEF Scope!TrimSuffix
<1>10. Scope!TrimPrefix(spelled) \in {prefix, ended}
  BY <1>5, <1>7, <1>8
<1>. QED
  BY <1>9, <1>10 DEF ended, slash

(* README.md:211: "Non-wildcard grant prefixes match the exact repository or
   slash-delimited descendants", with or without a slash before or after them, for
   names and prefixes of any length. *)
THEOREM GrantsCoverNamespaces ==
    ASSUME NEW Parts, NEW prefix \in Seq(Parts \ {Scope!Empty}), prefix # <<>>, prefix # <<"*">>,
           NEW spelled \in Scope!Spellings(prefix), NEW repository \in Seq(Parts)
    PROVE  Scope!repositoryMatches(repository, spelled) <=> Scope!Within(repository, prefix)
<1> DEFINE trimmed == Scope!TrimPrefix(spelled)
<1>1. Scope!TrimSuffix(trimmed) = prefix /\ trimmed \in {prefix, prefix \o <<Scope!Empty>>}
  BY SpellingsAreTrimmed
<1>2. trimmed # <<"*">> /\ trimmed # <<Scope!Empty>>
  <2>1. Len(prefix) \in Nat /\ Len(prefix) >= 1 /\ prefix[1] # Scope!Empty
    <3>1. Len(prefix) \in Nat /\ Len(prefix) >= 1
      BY EmptySeq
    <3>. QED
      BY <3>1, ElementOfSeq
  <2>2. Len(prefix \o <<Scope!Empty>>) > 1
    <3>1. prefix \in Seq(Parts \cup {Scope!Empty}) /\ <<Scope!Empty>> \in Seq(Parts \cup {Scope!Empty})
      BY SeqMonotonic
    <3>. QED
      BY <2>1, <3>1, ConcatProperties
  <2>3. \A part : Len(<<part>>) = 1 /\ <<part>>[1] = part
    OBVIOUS
  <2>. QED
    BY <1>1, <2>1, <2>2, <2>3
<1>3. Scope!repositoryMatches(repository, spelled)
      <=> /\ Len(prefix) <= Len(repository)
          /\ prefix = SubSeq(repository, 1, Len(prefix))
  BY <1>1, <1>2 DEF Scope!repositoryMatches
<1>4. prefix \in Seq(Parts)
  BY SeqMonotonic
<1>. QED
  BY <1>3, <1>4, SubSeqOfPrefix DEF Scope!Within

(* The claims that scopes get are the asked permissions that the user's grants
   cover: what AccessControl computes with sets of permissions. *)
THEOREM ClaimsAreWhatGrantsCover ==
    ASSUME NEW u, NEW role, NEW scopes, NEW rules,
           Scope!Permissions(scopes) \subseteq Permissions,
           \A rule \in rules : rule.subject = "user" /\ rule.actions \subseteq Actions,
           {g.perms : g \in {h \in grants : h.user = u}}
             = {Scope!Covered(rule, Repositories) : rule \in rules}
    PROVE  Scope!Permissions(Scope!IntersectAccess(role, rules, scopes))
             = IntersectAccess(role, u, Scope!Permissions(scopes))
<1> DEFINE claims == Scope!IntersectAccess(role, rules, scopes)
<1>1. \A p : p \in Scope!Permissions(claims)
             <=> \E s \in scopes : \E a \in Scope!allowedActions(role, rules, s) :
                    p = <<s.name, a>>
  <2>1. claims = {[name |-> s.name, actions |-> Scope!allowedActions(role, rules, s)] :
                    s \in {t \in scopes : Scope!allowedActions(role, rules, t) # {}}}
    BY DEF Scope!IntersectAccess
  <2>2. \A p : p \in Scope!Permissions(claims)
               <=> \E claim \in claims : \E a \in claim.actions : p = <<claim.name, a>>
    BY DEF Scope!Permissions
  <2>3. ASSUME NEW s \in scopes, NEW a \in Scope!allowedActions(role, rules, s)
        PROVE  \E claim \in claims : claim.name = s.name /\ a \in claim.actions
    <3> DEFINE claim == [name |-> s.name, actions |-> Scope!allowedActions(role, rules, s)]
    <3>1. claim \in claims
      BY <2>1
    <3>. QED
      BY <3>1
  <2>4. ASSUME NEW claim \in claims
        PROVE  \E s \in scopes : /\ claim.name = s.name
                                 /\ claim.actions = Scope!allowedActions(role, rules, s)
    BY <2>1
  <2>. QED
    BY <2>2, <2>3, <2>4
<1>2. \A p : p \in Scope!Permissions(scopes)
             <=> \E s \in scopes : \E a \in s.actions : p = <<s.name, a>>
  BY DEF Scope!Permissions
<1>3. CASE role = "admin"
  BY <1>1, <1>2, <1>3 DEF Scope!allowedActions, IntersectAccess
<1>4. CASE role # "admin"
  <2>1. \A p : p \in GrantedTo(u) <=> \E rule \in rules : p \in Scope!Covered(rule, Repositories)
    BY DEF GrantedTo
  <2>2. ASSUME NEW s \in scopes, NEW a \in s.actions
        PROVE  a \in Scope!allowedActions(role, rules, s) <=> <<s.name, a>> \in GrantedTo(u)
    <3>1. s.name \in Repositories
      <4>1. <<s.name, a>> \in Permissions
        BY <1>2
      <4>. QED
        BY <4>1 DEF Permissions
    <3>2. \A rule \in rules : <<s.name, a>> \in Scope!Covered(rule, Repositories)
             <=> a \in rule.actions /\ Scope!repositoryMatches(s.name, rule.prefix)
      BY <3>1 DEF Scope!Covered
    <3>3. QED
      BY <1>4, <2>1, <3>2 DEF Scope!allowedActions
  <2>3. \A s \in scopes : Scope!allowedActions(role, rules, s) \subseteq s.actions
    BY DEF Scope!allowedActions
  <2>4. QED
    BY <1>1, <1>2, <1>4, <2>2, <2>3 DEF IntersectAccess
<1>5. QED
  BY <1>3, <1>4

(* Claims allow what AccessControl lets the set of their permissions allow. *)
THEOREM ClaimsAllowTheirPermissions ==
    ASSUME NEW claims, NEW repository, NEW action
    PROVE  Scope!HasAccess(claims, repository, action)
             <=> HasAccess(Scope!Permissions(claims), {<<repository, action>>})
BY DEF Scope!HasAccess, HasAccess, Scope!Permissions

=============================================================================
