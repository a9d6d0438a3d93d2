------------------------------ MODULE Accounts ------------------------------
(***************************************************************************)
(* Accounts and sessions: AuthService, UsersService, TenantsService, their *)
(* controllers and guards, and the rows of users and tenants.              *)
(*                                                                         *)
(* A request is a call in flight; every await on the database ends a step, *)
(* so calls overlap.  Hashing, comparing and signing await nothing that    *)
(* other calls change and are part of the step that follows them.  A token *)
(* is what its payload says, the user and the role he had; a stored        *)
(* refresh token is present or not: bcrypt reads the first 72 bytes, which *)
(* for every token of one user are the same, so the comparison with a      *)
(* stored hash says only whose token it is.                                *)
(***************************************************************************)
EXTENDS Naturals, FiniteSets

CONSTANTS
    Calls,        \* requests in flight at the same time
    Emails, Googles,
    SeedEmail,    \* the administrator the seed makes
    None,
    MaxUsers,     \* bound: rows of users ever created
    MaxTenants    \* bound: tenants ever created

ASSUME AccountsAssumption ==
    /\ None \notin Emails \cup Googles /\ SeedEmail \in Emails
    /\ MaxUsers \in Nat \ {0} /\ MaxTenants \in Nat \ {0}

Users == 1 .. MaxUsers
Tenants == 1 .. MaxTenants
Roles == {"ADMIN", "VIEWER"}

VARIABLES
    row,       \* [Users -> the row of table users]
    tenant,    \* [Tenants -> "unused", "live" or "gone"]
    tokens,    \* [Users -> the roles in the tokens issued to him]
    call,      \* [Calls -> the request in the slot]
    out        \* users who logged out and have not come back since
vars == <<row, tenant, tokens, call, out>>

Row == [st : {"unused", "live", "gone"}, email : Emails \cup {None},
        google : Googles \cup {None}, password : BOOLEAN, role : Roles,
        tenant : Tenants \cup {0}, refresh : BOOLEAN]
NewRow(e, g, p, r, t) ==
    [st |-> "live", email |-> e, google |-> g, password |-> p,
     role |-> r, tenant |-> t, refresh |-> FALSE]
NoRow == [NewRow(None, None, FALSE, "VIEWER", 0) EXCEPT !.st = "unused"]

Idle == [op |-> "none", at |-> "idle", email |-> None, google |-> None, user |-> 0,
         role |-> "VIEWER", tenant |-> 0, stale |-> FALSE, raced |-> FALSE]
Ops == {"register", "login", "google", "refresh", "logout", "role", "remove"}
Stages == {"idle", "google", "find", "link", "tenant", "create", "store", "write"}

Call == [op : Ops \cup {"none"}, at : Stages, email : Emails \cup {None},
         google : Googles \cup {None}, user : Users \cup {0}, role : Roles,
         tenant : Tenants \cup {0}, stale : BOOLEAN, raced : BOOLEAN]

(* Every variable has its values, an email and a Google account belong to  *)
(* one user, and every user has a tenant.                                  *)
TypeOK ==
    /\ row \in [Users -> Row]
    /\ tenant \in [Tenants -> {"unused", "live", "gone"}]
    /\ tokens \in [Users -> SUBSET Roles]
    /\ out \subseteq Users
    /\ call \in [Calls -> Call]
    /\ \A c \in Calls : call[c].at = "store" => row[call[c].user].st # "unused"
    /\ \A u, v \in Users :
         row[u].st = "live" /\ row[v].st = "live" /\ u # v =>
           row[u].email # row[v].email /\ (row[u].google = None \/ row[u].google # row[v].google)
    /\ \A u \in Users : row[u].st = "live" => tenant[row[u].tenant] = "live"

(* The database as seeded: a tenant and its administrator.                 *)
Init ==
    /\ row = [[u \in Users |-> NoRow] EXCEPT ![1] = NewRow(SeedEmail, None, TRUE, "ADMIN", 1)]
    /\ tenant = [[t \in Tenants |-> "unused"] EXCEPT ![1] = "live"]
    /\ tokens = [u \in Users |-> {}]
    /\ call = [c \in Calls |-> Idle]
    /\ out = {}

-----------------------------------------------------------------------------
(* The queries.                                                            *)
Live == {u \in Users : row[u].st = "live"}
ByEmail(e) == {u \in Live : row[u].email = e}
ByGoogle(g) == {u \in Live : row[u].google = g}
UnusedUsers == {u \in Users : row[u].st = "unused"}
UnusedTenants == {t \in Tenants : tenant[t] = "unused"}
NextOf(unused) == {n \in unused : \A m \in unused : n <= m}   \* the next id, if there is one

(* Calls that may still need a row, so that the bounds stop a call before  *)
(* it starts and never in the middle.                                      *)
Creating == Cardinality({c \in Calls : call[c].op \in {"register", "google"}})
Room ==
    /\ Creating < Cardinality(UnusedUsers)
    /\ Creating < Cardinality(UnusedTenants)

To(c, at) == [call EXCEPT ![c].at = at]
Answered(c) == [call EXCEPT ![c] = Idle]
Holding(c, u) == [call EXCEPT ![c].at = "store", ![c].user = u, ![c].role = row[u].role]
Answer(c) == call' = Answered(c) /\ UNCHANGED <<row, tenant, tokens, out>>

-----------------------------------------------------------------------------
(* Requests arrive.  Login, register and the Google callback are open, the *)
(* others pass the guards with a token: RolesGuard reads the role that is  *)
(* in the token, TenantGuard only asks that there is a tenant.             *)
Start(c, req) == call[c] = Idle /\ call' = [call EXCEPT ![c] = req]

Register(c) ==
    /\ Room
    /\ \E e \in Emails, r \in Roles, t \in Tenants :
         /\ tenant[t] # "unused"
         /\ Start(c, [Idle EXCEPT !.op = "register", !.at = "find", !.email = e,
                                  !.role = r, !.tenant = t])
    /\ UNCHANGED <<row, tenant, tokens, out>>

Login(c) ==
    /\ \E e \in Emails : Start(c, [Idle EXCEPT !.op = "login", !.at = "find", !.email = e])
    /\ UNCHANGED <<row, tenant, tokens, out>>

GoogleCallback(c) ==
    /\ Room
    /\ \E e \in Emails, g \in Googles :
         Start(c, [Idle EXCEPT !.op = "google", !.at = "google", !.email = e, !.google = g])
    /\ UNCHANGED <<row, tenant, tokens, out>>

Granted(u, op) == tokens[u] # {} /\ (op \in {"role", "remove"} => "ADMIN" \in tokens[u])

Authorized(c, op) ==
    /\ \E u \in Users : \E r \in tokens[u] :
         /\ Granted(u, op)
         /\ Start(c, [Idle EXCEPT !.op = op, !.user = u, !.role = r,
                                  !.at = IF op = "logout" THEN "write" ELSE "find"])
    /\ UNCHANGED <<row, tenant, tokens, out>>

(* An administrator makes a tenant: one statement.                         *)
CreateTenant ==
    /\ \E u \in Users : Granted(u, "remove")
    /\ Creating < Cardinality(UnusedTenants)
    /\ \E t \in NextOf(UnusedTenants) : tenant' = [tenant EXCEPT ![t] = "live"]
    /\ UNCHANGED <<row, tokens, call, out>>

-----------------------------------------------------------------------------
(* The first query of each call.                                           *)
FindGoogle(c) ==
    /\ call[c].at = "google"
    /\ call' = IF ByGoogle(call[c].google) # {}
               THEN Holding(c, CHOOSE u \in ByGoogle(call[c].google) : TRUE) ELSE To(c, "find")
    /\ UNCHANGED <<row, tenant, tokens, out>>

(* register refuses a known email, login an unknown one and one without a  *)
(* password; the callback links the account it finds.                      *)
AfterEmailUnlinked(c) ==   \* mutant: the callback never links
    LET hit == ByEmail(call[c].email) IN
    CASE call[c].op = "google" -> To(c, "tenant")
      [] call[c].op = "register" -> IF hit # {} THEN Answered(c) ELSE To(c, "create")
      [] call[c].op = "login" -> Answered(c)
AfterEmail(c) ==
    LET hit == ByEmail(call[c].email)
        u == CHOOSE v \in hit : TRUE IN
    CASE call[c].op = "register" -> IF hit # {} THEN Answered(c) ELSE To(c, "create")
      [] call[c].op = "login" -> IF hit # {} /\ row[u].password THEN Holding(c, u) ELSE Answered(c)
      [] call[c].op = "google" -> IF hit = {} THEN To(c, "tenant")
                                  ELSE [To(c, "link") EXCEPT ![c].user = u]

FindEmail(c) ==
    /\ call[c].at = "find" /\ call[c].op \in {"register", "login", "google"}
    /\ call' = AfterEmail(c)
    /\ UNCHANGED <<row, tenant, tokens, out>>

(* refreshTokens: the row must hold a refresh token of the same user.      *)
FindSession(c) ==
    LET u == call[c].user IN
    /\ call[c].at = "find" /\ call[c].op = "refresh"
    /\ call' = IF u \in Live /\ row[u].refresh THEN Holding(c, u) ELSE Answered(c)
    /\ UNCHANGED <<row, tenant, tokens, out>>

(* updateRole looks the user up in the caller's tenant; removing a tenant  *)
(* looks the tenant up.                                                    *)
FindTarget(c) ==
    /\ call[c].at = "find"
    /\ \/ /\ call[c].op = "role"
          /\ \E u \in Users, r \in Roles :
               call' = IF u \in Live /\ row[u].tenant = row[call[c].user].tenant
                       THEN [To(c, "write") EXCEPT ![c].user = u, ![c].role = r]
                       ELSE Answered(c)
       \/ /\ call[c].op = "remove"
          /\ \E t \in Tenants :
               call' = IF tenant[t] = "live" THEN [To(c, "write") EXCEPT ![c].tenant = t]
                       ELSE Answered(c)
    /\ UNCHANGED <<row, tenant, tokens, out>>

-----------------------------------------------------------------------------
(* The writes.  A statement on a row that is gone, or against a unique or  *)
(* foreign key, throws and the call ends with an error.                    *)
Marked(S) == [c \in Calls |-> [call[c] EXCEPT !.raced = @ \/ c \in S]]
SamePerson(self, e, g) ==
    {c \in Calls \ {self} : \/ call[c].email # None /\ call[c].email = e
                            \/ call[c].google # None /\ call[c].google = g}
Storing(u) == {c \in Calls : call[c].at = "store" /\ call[c].user = u}

Link(c) ==
    LET u == call[c].user
        others == Marked(SamePerson(c, row[u].email, call[c].google)) IN
    /\ call[c].at = "link"
    /\ IF u \in Live /\ ByGoogle(call[c].google) \subseteq {u}
       THEN /\ row' = [row EXCEPT ![u].google = call[c].google]
            /\ call' = [others EXCEPT ![c].at = "store", ![c].role = row[u].role]
            /\ UNCHANGED <<tenant, tokens, out>>
       ELSE Answer(c)

(* createGoogleUser makes the tenant first, in a statement of its own.     *)
MakeTenant(c) ==
    /\ call[c].at = "tenant"
    /\ \E t \in NextOf(UnusedTenants) :
         /\ tenant' = [tenant EXCEPT ![t] = "live"]
         /\ call' = [To(c, "create") EXCEPT ![c].tenant = t, ![c].role = "ADMIN"]
    /\ UNCHANGED <<row, tokens, out>>

Insertable(c) ==
    /\ ByEmail(call[c].email) = {}
    /\ call[c].google = None \/ ByGoogle(call[c].google) = {}
    /\ tenant[call[c].tenant] = "live"

CreateUser(c) ==
    LET others == Marked(SamePerson(c, call[c].email, call[c].google)) IN
    /\ call[c].at = "create"
    /\ IF Insertable(c)
       THEN /\ \E u \in NextOf(UnusedUsers) :
                 /\ row' = [row EXCEPT ![u] = NewRow(call[c].email, call[c].google,
                              call[c].op = "register", call[c].role, call[c].tenant)]
                 /\ call' = [others EXCEPT ![c].at = "store", ![c].user = u]
            /\ UNCHANGED <<tenant, tokens, out>>
       ELSE Answer(c)

(* generateTokens signs the row as the call read it; updateRefreshToken    *)
(* stores the hash of the new refresh token.                               *)
PayloadFirst(c) ==    \* mutant: a refresh signs what the caller's token says
    IF call[c].op = "refresh" THEN CHOOSE r \in tokens[call[c].user] : TRUE ELSE call[c].role
Payload(c) == call[c].role

StoreRefresh(c) ==
    LET u == call[c].user IN
    /\ call[c].at = "store"
    /\ IF u \in Live
       THEN /\ row' = [row EXCEPT ![u].refresh = TRUE]
            /\ tokens' = [tokens EXCEPT ![u] = @ \cup {Payload(c)}]
            /\ out' = IF call[c].op = "refresh" /\ ~call[c].raced THEN out ELSE out \ {u}
            /\ call' = Answered(c)
            /\ UNCHANGED tenant
       ELSE Answer(c)

(* logout writes null over the stored token.                               *)
NulledNot(u) == row   \* mutant: undefined for null, which Prisma leaves alone
Nulled(u) == [row EXCEPT ![u].refresh = FALSE]

Logout(c) ==
    LET u == call[c].user IN
    /\ call[c].at = "write" /\ call[c].op = "logout"
    /\ IF u \in Live
       THEN /\ row' = Nulled(u)
            /\ out' = out \cup {u}
            /\ call' = [Marked(Storing(u)) EXCEPT ![c] = Idle]
            /\ UNCHANGED <<tenant, tokens>>
       ELSE Answer(c)

UpdateRole(c) ==
    LET u == call[c].user IN
    /\ call[c].at = "write" /\ call[c].op = "role"
    /\ IF u \in Live
       THEN /\ row' = [row EXCEPT ![u].role = call[c].role]
            /\ call' = [d \in Calls |->
                 IF d = c THEN Idle
                 ELSE [call[d] EXCEPT !.stale = @ \/ d \in Storing(u)]]
            /\ UNCHANGED <<tenant, tokens, out>>
       ELSE Answer(c)

CascadedNot(t) == row   \* mutant: the relation does not cascade
Cascaded(t) == [u \in Users |-> IF u \in Live /\ row[u].tenant = t
                               THEN [NoRow EXCEPT !.st = "gone"] ELSE row[u]]

(* Deleting a tenant cascades to its users.  A callback that has found no  *)
(* account yet may lose the one it would have found.                       *)
RemoveTenant(c) ==
    LET t == call[c].tenant IN
    /\ call[c].at = "write" /\ call[c].op = "remove"
    /\ IF tenant[t] = "live"
       THEN /\ tenant' = [tenant EXCEPT ![t] = "gone"]
            /\ row' = Cascaded(t)
            /\ call' = [d \in Calls |->
                 IF d = c THEN Idle
                 ELSE [call[d] EXCEPT !.raced = @ \/ call[d].op = "google"]]
            /\ out' = {u \in out : row[u].tenant # t}
            /\ UNCHANGED tokens
       ELSE Answer(c)

Next ==
    \/ CreateTenant
    \/ \E c \in Calls :
         \/ Register(c) \/ Login(c) \/ GoogleCallback(c)
         \/ \E op \in {"refresh", "logout", "role", "remove"} : Authorized(c, op)
         \/ FindGoogle(c) \/ FindEmail(c) \/ FindSession(c) \/ FindTarget(c)
         \/ Link(c) \/ MakeTenant(c) \/ CreateUser(c) \/ StoreRefresh(c)
         \/ Logout(c) \/ UpdateRole(c) \/ RemoveTenant(c)

Spec == Init /\ [][Next]_vars

-----------------------------------------------------------------------------
(* A user who logged out stays without a stored refresh token until he     *)
(* signs in again: of the calls that were under way only a refresh that    *)
(* had read the row before the logout may store a token after it           *)
(* (auth.service.ts 88-106).                                               *)
LogoutHolds == \A u \in out : ~row[u].refresh

(* A sign-in or refresh answers with the role the user has, not with the   *)
(* role of the token he came with: an old role gets into a token only when *)
(* updateRole ran after the call had read the row (auth.service.ts 108-125,*)
(* users.service.ts 89-98).                                                *)
RoleFresh ==
    [][\A c \in Calls : \A u \in Users :
         call[c].at = "store" /\ call[c].user = u /\ call'[c] = Idle
           /\ row[u].st = "live" /\ ~call[c].stale
         => tokens'[u] = tokens[u] \cup {row[u].role}]_vars

(* A sign-in with Google leaves a tenant without a user behind only when   *)
(* another call registered or linked the same person, or removed a tenant, *)
(* while it was under way (users.service.ts 40-59).                        *)
OrphanOnlyByRace ==
    [][\A c \in Calls :
         call[c].op = "google" /\ call[c].at = "create" /\ call'[c] = Idle => call[c].raced]_vars

=============================================================================
