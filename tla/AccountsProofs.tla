--------------------------- MODULE AccountsProofs --------------------------
(***************************************************************************)
(* Proofs about Accounts, for any number of calls, users and tenants.      *)
(*                                                                         *)
(* What a call has read may be out of date when it writes.  CallOK says    *)
(* what it may still rely on as long as nobody has marked it: a refresh    *)
(* that no logout has overtaken holds the token of a user who is not out,  *)
(* a sign-in whose user's role was not changed has that role, and a Google *)
(* sign-in that did not race with another finds nobody with its address.   *)
(***************************************************************************)
EXTENDS Accounts, TLAPS

Path == [op \in Ops \cup {"none"} |->
           CASE op = "none" -> {"idle"}
             [] op = "register" -> {"find", "create", "store"}
             [] op = "login" -> {"find", "store"}
             [] op = "google" -> {"google", "find", "link", "tenant", "create", "store"}
             [] op = "refresh" -> {"find", "store"}
             [] op = "logout" -> {"write"}
             [] OTHER -> {"find", "write"}]

Alone(q) == q.op = "google" /\ ~q.raced

CallOK(q) ==
    /\ q \in Call
    /\ q.at \in Path[q.op]
    /\ q.op \in {"refresh", "logout", "role", "remove"} \/ q.at \in {"store", "link"} => q.user \in Users
    /\ q.op = "google" => q.email \in Emails /\ q.google \in Googles
    /\ q.at = "store" => row[q.user].st # "unused"
    /\ q.at = "store" /\ ~q.stale /\ row[q.user].st = "live" => q.role = row[q.user].role
    /\ q.at = "store" /\ q.op = "refresh" /\ ~q.raced => q.user \notin out
    /\ Alone(q) /\ q.at \in {"find", "tenant", "create"} => ByGoogle(q.google) = {}
    /\ Alone(q) /\ q.at \in {"tenant", "create"} => ByEmail(q.email) = {}
    /\ q.op = "register" \/ q.at = "create" => q.tenant \in Tenants
    /\ Alone(q) /\ q.at = "create" => tenant[q.tenant] = "live"

RowsOK ==
    /\ row \in [Users -> Row]
    /\ tenant \in [Tenants -> {"unused", "live", "gone"}]
    /\ tokens \in [Users -> SUBSET Roles]
    /\ out \subseteq Users
    /\ \A u, v \in Live : u # v =>
         row[u].email # row[v].email /\ (row[u].google = None \/ row[u].google # row[v].google)
    /\ \A u \in Live : row[u].tenant \in Tenants /\ tenant[row[u].tenant] = "live"

AccInv ==
    /\ RowsOK /\ LogoutHolds
    /\ call \in [Calls -> Call]
    /\ \A c \in Calls : CallOK(call[c])

-----------------------------------------------------------------------------
LEMMA InvTypes == AccInv => TypeOK
  BY DEF AccInv, RowsOK, CallOK, TypeOK, Live

LEMMA LiveUsers == \A u : u \in Live <=> u \in Users /\ row[u].st = "live"
  BY DEF Live

LEMMA Paths ==
    /\ Path["none"] = {"idle"} /\ Path["register"] = {"find", "create", "store"}
    /\ Path["login"] = {"find", "store"} /\ Path["refresh"] = {"find", "store"}
    /\ Path["google"] = {"google", "find", "link", "tenant", "create", "store"}
    /\ Path["logout"] = {"write"} /\ Path["role"] = {"find", "write"} /\ Path["remove"] = {"find", "write"}
  BY DEF Path, Ops

LEMMA IdleOK == Idle \in Call /\ CallOK(Idle)
<1>1. Idle \in Call
  BY AccountsAssumption DEF Idle, Call, Ops, Stages, Users, Tenants, Roles
<1> QED BY <1>1, Paths DEF CallOK, Idle, Alone

(* To look at the calls one by one.                                        *)
LEMMA EachCall ==
    ASSUME \A d \in Calls : \A p : p = call'[d] => CallOK(p)'
    PROVE  (\A d \in Calls : CallOK(call[d]))'
<1> SUFFICES ASSUME NEW d \in Calls PROVE CallOK(call[d])'
  OBVIOUS
<1>1. PICK p : p = call'[d]
  OBVIOUS
<1>2. CallOK(p)'
  BY <1>1
<1> QED BY <1>1, <1>2 DEF CallOK, Alone, ByGoogle, ByEmail

(* Only one call changes, and nothing but it.                              *)
LEMMA QuietStep ==
    ASSUME AccInv, UNCHANGED <<row, tenant, tokens, out>>, NEW c \in Calls, NEW q, CallOK(q),
           call' = [call EXCEPT ![c] = q]
    PROVE  AccInv'
<1>1. RowsOK' /\ LogoutHolds'
  BY DEF AccInv, RowsOK, LogoutHolds, Live
<1>2. call' \in [Calls -> Call]
  BY DEF AccInv, CallOK
<1>3. ASSUME NEW p, CallOK(p) PROVE CallOK(p)'
  BY <1>3 DEF CallOK, ByGoogle, ByEmail, Live, Alone
<1>4. ASSUME NEW d \in Calls, NEW p, p = call'[d] PROVE CallOK(p)'
  <2>1. CASE d = c
    BY <1>3, <1>4, <2>1 DEF AccInv
  <2>2. CASE d # c
    BY <1>3, <1>4, <2>2 DEF AccInv
  <2> QED BY <2>1, <2>2
<1> QED BY <1>1, <1>2, <1>4, EachCall DEF AccInv

(* A call ends with an error, and nothing changes.                         *)
LEMMA AnswerStep == ASSUME AccInv, NEW c \in Calls, Answer(c) PROVE AccInv'
<1>1. call' = [call EXCEPT ![c] = Idle]
  BY DEF Answer, Answered
<1> QED BY <1>1, IdleOK, QuietStep DEF Answer

LEMMA StartSteps ==
    ASSUME AccInv, NEW c \in Calls,
           Register(c) \/ Login(c) \/ GoogleCallback(c)
             \/ \E op \in {"refresh", "logout", "role", "remove"} : Authorized(c, op)
    PROVE  AccInv'
<1> USE IdleOK, Paths, AccountsAssumption
<1>0. UNCHANGED <<row, tenant, tokens, out>>
  BY DEF Register, Login, GoogleCallback, Authorized
<1>a. ASSUME NEW q, CallOK(q), Start(c, q) PROVE AccInv'
  <2>1. call' = [call EXCEPT ![c] = q]
    BY <1>a DEF Start
  <2> QED BY <1>0, <1>a, <2>1, QuietStep
<1>1. CASE Register(c)
  <2>1. PICK e \in Emails, r \in Roles, t \in Tenants :
           Start(c, [Idle EXCEPT !.op = "register", !.at = "find", !.email = e, !.role = r, !.tenant = t])
    BY <1>1 DEF Register
  <2>2. CallOK([Idle EXCEPT !.op = "register", !.at = "find", !.email = e, !.role = r, !.tenant = t])
    BY DEF CallOK, Call, Idle, Ops, Stages, Alone
  <2> QED BY <1>a, <2>1, <2>2
<1>2. CASE Login(c)
  <2>1. PICK e \in Emails : Start(c, [Idle EXCEPT !.op = "login", !.at = "find", !.email = e])
    BY <1>2 DEF Login
  <2>2. CallOK([Idle EXCEPT !.op = "login", !.at = "find", !.email = e])
    BY DEF CallOK, Call, Idle, Ops, Stages, Alone
  <2> QED BY <1>a, <2>1, <2>2
<1>3. CASE GoogleCallback(c)
  <2>1. PICK e \in Emails, g \in Googles :
           Start(c, [Idle EXCEPT !.op = "google", !.at = "google", !.email = e, !.google = g])
    BY <1>3 DEF GoogleCallback
  <2>2. CallOK([Idle EXCEPT !.op = "google", !.at = "google", !.email = e, !.google = g])
    BY DEF CallOK, Call, Idle, Ops, Stages, Alone
  <2> QED BY <1>a, <2>1, <2>2
<1>4. ASSUME NEW op \in {"refresh", "logout", "role", "remove"}, Authorized(c, op) PROVE AccInv'
  <2>0. PICK u \in Users : \E r \in tokens[u] :
           Start(c, [Idle EXCEPT !.op = op, !.user = u, !.role = r,
                                 !.at = IF op = "logout" THEN "write" ELSE "find"])
    BY <1>4 DEF Authorized
  <2>1. PICK r \in tokens[u] :
           Start(c, [Idle EXCEPT !.op = op, !.user = u, !.role = r,
                                 !.at = IF op = "logout" THEN "write" ELSE "find"])
    BY <2>0
  <2>2. r \in Roles
    BY DEF AccInv, RowsOK
  <2>3. CallOK([Idle EXCEPT !.op = op, !.user = u, !.role = r,
                            !.at = IF op = "logout" THEN "write" ELSE "find"])
    BY <2>2 DEF CallOK, Call, Idle, Ops, Stages, Alone
  <2> QED BY <1>a, <2>1, <2>3
<1> QED BY <1>1, <1>2, <1>3, <1>4

-----------------------------------------------------------------------------
(* The queries.                                                            *)
LEMMA HoldingOK ==
    ASSUME AccInv, NEW c \in Calls, NEW u \in Live,
           call[c].op \in {"login", "google"} \/ (call[c].op = "refresh" /\ row[u].refresh),
           UNCHANGED <<row, tenant, tokens, out>>, call' = Holding(c, u)
    PROVE  AccInv'
<1> DEFINE q == call[c]
           p == [q EXCEPT !.at = "store", !.user = u, !.role = row[u].role]
<1>1. q \in Call /\ CallOK(q) /\ u \in Users /\ row[u] \in Row /\ row[u].st = "live"
  BY LiveUsers DEF AccInv, RowsOK
<1>2. call' = [call EXCEPT ![c] = p]
  BY <1>1 DEF Holding, AccInv
<1>3. p \in Call /\ p.at = "store" /\ p.user = u /\ p.role = row[u].role /\ p.op = q.op
      /\ p.email = q.email /\ p.google = q.google /\ p.tenant = q.tenant
  BY <1>1 DEF Call, Row, Stages
<1>4. p.op = "refresh" => u \notin out
  BY <1>3 DEF AccInv, LogoutHolds
<1> HIDE DEF p
<1>5. CallOK(p)
  BY <1>1, <1>3, <1>4, Paths DEF CallOK
<1> QED BY <1>2, <1>5, QuietStep

LEMMA ToOK ==
    ASSUME AccInv, NEW c \in Calls, NEW at \in Stages \ {"store", "link"}, at \in Path[call[c].op],
           Alone(call[c]) /\ at \in {"find", "tenant", "create"} => ByGoogle(call[c].google) = {},
           Alone(call[c]) /\ at \in {"tenant", "create"} => ByEmail(call[c].email) = {},
           at = "create" => call[c].op = "register",
           UNCHANGED <<row, tenant, tokens, out>>, call' = To(c, at)
    PROVE  AccInv'
<1> DEFINE q == call[c]
           p == [q EXCEPT !.at = at]
<1>1. q \in Call /\ CallOK(q)
  BY DEF AccInv
<1>2. call' = [call EXCEPT ![c] = p]
  BY <1>1 DEF To, AccInv
<1>3. /\ p \in Call /\ p.at = at /\ p.user = q.user /\ p.role = q.role /\ p.op = q.op
      /\ p.email = q.email /\ p.google = q.google /\ p.tenant = q.tenant /\ p.raced = q.raced
  BY <1>1 DEF Call
<1> HIDE DEF p
<1>4. CallOK(p)
  BY <1>1, <1>3 DEF CallOK, Alone
<1> QED BY <1>2, <1>4, QuietStep

LEMMA FindGoogleStep == ASSUME AccInv, NEW c \in Calls, FindGoogle(c) PROVE AccInv'
<1>1. call[c].at = "google" /\ UNCHANGED <<row, tenant, tokens, out>> /\ CallOK(call[c])
  BY DEF FindGoogle, AccInv
<1>2. call[c].op = "google"
  BY <1>1, Paths DEF CallOK, Call, Ops
<1>3. CASE ByGoogle(call[c].google) # {}
  <2>1. PICK u : u = CHOOSE v \in ByGoogle(call[c].google) : TRUE
    OBVIOUS
  <2>2. u \in Live /\ call' = Holding(c, u)
    BY <1>3, <2>1 DEF FindGoogle, ByGoogle
  <2> QED BY <1>1, <1>2, <2>2, HoldingOK
<1>4. CASE ByGoogle(call[c].google) = {}
  BY <1>1, <1>2, <1>4, ToOK, Paths DEF FindGoogle, Stages
<1> QED BY <1>3, <1>4

LEMMA FindEmailStep == ASSUME AccInv, NEW c \in Calls, FindEmail(c) PROVE AccInv'
<1> DEFINE q == call[c]
           hit == ByEmail(q.email)
<1>1. /\ q.at = "find" /\ q.op \in {"register", "login", "google"} /\ call' = AfterEmail(c)
      /\ UNCHANGED <<row, tenant, tokens, out>> /\ CallOK(q)
  BY DEF FindEmail, AccInv
<1>2. CASE call' = Answered(c)
  BY <1>1, <1>2, AnswerStep DEF Answer
<1>3. CASE q.op = "register" /\ hit = {}
  <2>1. call' = To(c, "create")
    BY <1>1, <1>3 DEF AfterEmail
  <2> QED BY <1>1, <1>3, <2>1, ToOK, Paths DEF Stages, Alone
<1>4. CASE q.op = "login" /\ hit # {} /\ row[CHOOSE v \in hit : TRUE].password
  <2>1. PICK u : u = CHOOSE v \in hit : TRUE
    OBVIOUS
  <2>2. u \in Live /\ call' = Holding(c, u)
    BY <1>1, <1>4, <2>1 DEF AfterEmail, ByEmail
  <2> QED BY <1>1, <1>4, <2>2, HoldingOK
<1>5. CASE q.op = "google" /\ hit = {}
  <2>1. call' = To(c, "tenant")
    BY <1>1, <1>5 DEF AfterEmail
  <2>2. Alone(q) => ByGoogle(q.google) = {}
    BY <1>1 DEF CallOK
  <2> QED BY <1>1, <1>5, <2>1, <2>2, ToOK, Paths DEF Stages
<1>6. CASE q.op = "google" /\ hit # {}
  <2>1. PICK u : u = CHOOSE v \in hit : TRUE
    OBVIOUS
  <2>2. u \in Users /\ call' = [To(c, "link") EXCEPT ![c].user = u]
    BY <1>1, <1>6, <2>1, LiveUsers DEF AfterEmail, ByEmail
  <2> DEFINE p == [q EXCEPT !.at = "link", !.user = u]
  <2>3. call' = [call EXCEPT ![c] = p]
    BY <2>2 DEF To, AccInv
  <2>4. /\ p \in Call /\ p.at = "link" /\ p.user = u /\ p.op = q.op
        /\ p.email = q.email /\ p.google = q.google
    BY <1>1, <2>2 DEF CallOK, Call, Stages
  <2> HIDE DEF p
  <2>5. CallOK(p)
    BY <1>1, <1>6, <2>2, <2>4, Paths DEF CallOK
  <2> QED BY <1>1, <2>3, <2>5, QuietStep
<1> QED BY <1>1, <1>2, <1>3, <1>4, <1>5, <1>6 DEF AfterEmail

LEMMA FindSessionStep == ASSUME AccInv, NEW c \in Calls, FindSession(c) PROVE AccInv'
<1>1. /\ call[c].op = "refresh" /\ UNCHANGED <<row, tenant, tokens, out>>
      /\ call' = IF call[c].user \in Live /\ row[call[c].user].refresh
                 THEN Holding(c, call[c].user) ELSE Answered(c)
  BY DEF FindSession
<1>2. CASE call' = Answered(c)
  BY <1>1, <1>2, AnswerStep DEF Answer
<1>3. CASE call[c].user \in Live /\ row[call[c].user].refresh
  BY <1>1, <1>3, HoldingOK
<1> QED BY <1>1, <1>2, <1>3

LEMMA FindTargetStep == ASSUME AccInv, NEW c \in Calls, FindTarget(c) PROVE AccInv'
<1> DEFINE q == call[c]
<1>1. /\ q.at = "find" /\ q.op \in {"role", "remove"} /\ UNCHANGED <<row, tenant, tokens, out>>
      /\ q \in Call /\ CallOK(q)
  BY DEF FindTarget, AccInv
<1>2. CASE call' = Answered(c)
  BY <1>1, <1>2, AnswerStep DEF Answer
<1>3. ASSUME NEW u \in Users, NEW r \in Roles, q.op = "role",
             call' = [To(c, "write") EXCEPT ![c].user = u, ![c].role = r]
      PROVE  AccInv'
  <2> DEFINE p == [q EXCEPT !.at = "write", !.user = u, !.role = r]
  <2>1. call' = [call EXCEPT ![c] = p]
    BY <1>3 DEF To, AccInv
  <2>2. p \in Call /\ p.at = "write" /\ p.user = u /\ p.op = "role"
    BY <1>1, <1>3 DEF Call, Stages
  <2> HIDE DEF p
  <2>3. CallOK(p)
    BY <2>2, Paths DEF CallOK, Alone
  <2> QED BY <1>1, <2>1, <2>3, QuietStep
<1>4. ASSUME NEW t \in Tenants, q.op = "remove", call' = [To(c, "write") EXCEPT ![c].tenant = t]
      PROVE  AccInv'
  <2> DEFINE p == [q EXCEPT !.at = "write", !.tenant = t]
  <2>1. call' = [call EXCEPT ![c] = p]
    BY <1>4 DEF To, AccInv
  <2>2. p \in Call /\ p.at = "write" /\ p.user = q.user /\ p.op = "remove"
    BY <1>1, <1>4 DEF Call, Stages
  <2> HIDE DEF p
  <2>3. CallOK(p)
    BY <1>1, <2>2, Paths DEF CallOK, Alone
  <2> QED BY <1>1, <2>1, <2>3, QuietStep
<1> QED BY <1>2, <1>3, <1>4 DEF FindTarget

-----------------------------------------------------------------------------
(* The writes.  A call beside them keeps what it relies on, or is marked.  *)
Beside(q, p) ==
    /\ p.op = q.op /\ p.at = q.at /\ p.email = q.email /\ p.google = q.google
    /\ p.user = q.user /\ p.role = q.role /\ p.tenant = q.tenant
    /\ q.stale => p.stale
    /\ q.raced => p.raced

LEMMA WriteStep ==
    ASSUME AccInv, RowsOK', LogoutHolds', call' \in [Calls -> Call],
           \A d \in Calls : \A p : p = call'[d] => CallOK(p)'
    PROVE  AccInv'
  BY EachCall DEF AccInv

LEMMA MarkedOK ==
    ASSUME AccInv, NEW S, NEW d \in Calls
    PROVE  /\ Marked(S)[d] \in Call /\ Beside(call[d], Marked(S)[d])
           /\ d \in S => Marked(S)[d].raced
           /\ Marked(S)[d].stale = call[d].stale
<1>1. call[d] \in Call /\ Marked(S)[d] = [call[d] EXCEPT !.raced = @ \/ d \in S]
  BY DEF AccInv, Marked
<1> QED BY <1>1 DEF Beside, Call

LEMMA TenantSteps ==
    ASSUME AccInv, CreateTenant \/ \E c \in Calls : MakeTenant(c)
    PROVE  AccInv'
<1>1. PICK t \in NextOf(UnusedTenants) : /\ tenant' = [tenant EXCEPT ![t] = "live"]
                                       /\ UNCHANGED <<row, tokens, out>>
  BY DEF CreateTenant, MakeTenant
<1>2. t \in Tenants /\ tenant[t] = "unused"
  BY <1>1 DEF NextOf, UnusedTenants
<1>3. RowsOK' /\ LogoutHolds'
  BY <1>1, <1>2 DEF AccInv, RowsOK, LogoutHolds, Live
<1>4. ASSUME NEW q, CallOK(q) PROVE CallOK(q)'
  BY <1>1, <1>2, <1>4 DEF CallOK, ByGoogle, ByEmail, Live, Alone, AccInv, RowsOK
<1>5. CASE CreateTenant
  BY <1>3, <1>4, <1>5, WriteStep DEF CreateTenant, AccInv
<1>6. ASSUME NEW c \in Calls, MakeTenant(c) PROVE AccInv'
  <2> SUFFICES ASSUME NEW q, q = call[c] PROVE AccInv'
    OBVIOUS
  <2>1. PICK n \in NextOf(UnusedTenants) :
           /\ tenant' = [tenant EXCEPT ![n] = "live"]
           /\ call' = [To(c, "create") EXCEPT ![c].tenant = n, ![c].role = "ADMIN"]
    BY <1>6 DEF MakeTenant
  <2>2. q \in Call /\ CallOK(q) /\ q.at = "tenant" /\ n \in Tenants /\ tenant'[n] = "live"
    BY <1>6, <2>1 DEF AccInv, RowsOK, MakeTenant, NextOf, UnusedTenants
  <2>3. PICK p : p = [q EXCEPT !.at = "create", !.tenant = n, !.role = "ADMIN"]
    OBVIOUS
  <2>4. call' = [call EXCEPT ![c] = p]
    BY <2>1, <2>3 DEF To, AccInv
  <2>5. /\ p \in Call /\ p.at = "create" /\ p.tenant = n /\ p.op = q.op /\ p.raced = q.raced
        /\ p.email = q.email /\ p.google = q.google /\ p.user = q.user
    BY <2>2, <2>3 DEF Call, Stages, Roles
  <2>6. q.op = "google"
    BY <2>2, Paths DEF CallOK, Call, Ops
  <2>7. Alone(q) => ByGoogle(q.google) = {} /\ ByEmail(q.email) = {}
    BY <2>2 DEF CallOK
  <2>8. ByGoogle(q.google)' = ByGoogle(q.google) /\ ByEmail(q.email)' = ByEmail(q.email)
    BY <1>1 DEF ByGoogle, ByEmail, Live
  <2>9. CallOK(p)'
    BY <2>2, <2>5, <2>6, <2>7, <2>8, Paths DEF CallOK, Alone
  <2>10. \A d \in Calls : \A r : r = call'[d] => CallOK(r)'
    BY <1>4, <2>4, <2>9 DEF AccInv
  <2> QED BY <1>3, <2>4, <2>5, <2>10, WriteStep DEF AccInv
<1> QED BY <1>5, <1>6

(* The calls beside the one that writes.                                   *)
LEMMA OthersOK ==
    ASSUME AccInv, NEW c \in Calls,
           \A d \in Calls \ {c} : call'[d] \in Call /\ Beside(call[d], call'[d]),
           \A u \in Users : row[u].st # "unused" =>
             row'[u].st # "unused" /\ (row'[u].st = "live" => row[u].st = "live"),
           \A d \in Calls \ {c} : call[d].at = "store" =>
             /\ call'[d].stale \/ row'[call[d].user].role = row[call[d].user].role
                  \/ row'[call[d].user].st # "live"
             /\ call[d].user \in out' => call[d].user \in out \/ call'[d].raced,
           \A d \in Calls \ {c} : call[d].op = "google" /\ ~call'[d].raced =>
             /\ \A g \in Googles : g = call[d].google => ByGoogle(g)' \subseteq ByGoogle(g)
             /\ \A e \in Emails : e = call[d].email => ByEmail(e)' \subseteq ByEmail(e)
             /\ tenant[call[d].tenant] = "live" => tenant'[call[d].tenant] = "live"
    PROVE  \A d \in Calls \ {c} : \A p : p = call'[d] => CallOK(p)'
<1> SUFFICES ASSUME NEW d \in Calls \ {c}, NEW q, q = call[d], NEW p, p = call'[d] PROVE CallOK(p)'
  OBVIOUS
<1>1. CallOK(q) /\ p \in Call /\ Beside(q, p) /\ (q.at = "store" => q.user \in Users)
  BY DEF AccInv, CallOK
<1>2. Alone(p) => q.op = "google" /\ q.google \in Googles /\ q.email \in Emails
  BY <1>1 DEF Alone, Beside, CallOK
<1>3. Alone(p) => /\ ByGoogle(q.google)' \subseteq ByGoogle(q.google)
                  /\ ByEmail(q.email)' \subseteq ByEmail(q.email)
                  /\ tenant[q.tenant] = "live" => tenant'[q.tenant] = "live"
  BY <1>2 DEF Alone
<1>4. q.at = "store" => /\ row'[q.user].st # "unused"
                        /\ row'[q.user].st = "live" => row[q.user].st = "live"
  BY <1>1 DEF CallOK
<1> QED BY <1>1, <1>3, <1>4 DEF Beside, CallOK, Alone

(* A write that changes neither who is live nor with which address.        *)
SameUsers ==
    \A u \in Users : /\ row'[u].st = row[u].st /\ row'[u].email = row[u].email
                    /\ row'[u].google = row[u].google /\ row'[u].tenant = row[u].tenant

LEMMA SameLookups ==
    ASSUME SameUsers
    PROVE  /\ Live' = Live
           /\ \A g : ByGoogle(g)' = ByGoogle(g)
           /\ \A e : ByEmail(e)' = ByEmail(e)
  BY DEF SameUsers, Live, ByGoogle, ByEmail

LEMMA SameRows ==
    ASSUME AccInv, SameUsers, row' \in [Users -> Row], UNCHANGED tenant,
           tokens' \in [Users -> SUBSET Roles], out' \subseteq Users
    PROVE  RowsOK'
<1>1. Live' = Live
  BY SameLookups
<1>2. \A u \in Live : u \in Users
  BY LiveUsers
<1> QED BY <1>1, <1>2 DEF AccInv, RowsOK, SameUsers

(* Storing or clearing a refresh token, and giving a role.                 *)
LEMMA RefreshWrite ==
    ASSUME AccInv, NEW u \in Users, NEW b \in BOOLEAN, row' = [row EXCEPT ![u].refresh = b]
    PROVE  /\ row' \in [Users -> Row] /\ row'[u].refresh = b
           /\ \A v \in Users : (v # u => row'[v] = row[v]) /\ row'[v].role = row[v].role
           /\ SameUsers
<1>1. row \in [Users -> Row] /\ row[u] \in Row
  BY DEF AccInv, RowsOK
<1>2. \A v \in Users : row'[v] = IF v = u THEN [row[u] EXCEPT !.refresh = b] ELSE row[v]
  BY <1>1
<1>3. [row[u] EXCEPT !.refresh = b] \in Row
  BY <1>1 DEF Row
<1>4. row' = [v \in Users |-> row'[v]]
  BY <1>1
<1>5. row' \in [Users -> Row]
  BY <1>1, <1>2, <1>3, <1>4
<1> QED BY <1>1, <1>2, <1>5 DEF Row, SameUsers

LEMMA RoleWrite ==
    ASSUME AccInv, NEW u \in Users, NEW r \in Roles, row' = [row EXCEPT ![u].role = r]
    PROVE  /\ row' \in [Users -> Row]
           /\ \A v \in Users : (v # u => row'[v] = row[v]) /\ row'[v].refresh = row[v].refresh
           /\ SameUsers
<1>1. row \in [Users -> Row] /\ row[u] \in Row
  BY DEF AccInv, RowsOK
<1>2. \A v \in Users : row'[v] = IF v = u THEN [row[u] EXCEPT !.role = r] ELSE row[v]
  BY <1>1
<1>3. [row[u] EXCEPT !.role = r] \in Row
  BY <1>1 DEF Row
<1>4. row' = [v \in Users |-> row'[v]]
  BY <1>1
<1>5. row' \in [Users -> Row]
  BY <1>1, <1>2, <1>3, <1>4
<1> QED BY <1>1, <1>2, <1>5 DEF Row, SameUsers

LEMMA StoreRefreshStep == ASSUME AccInv, NEW c \in Calls, StoreRefresh(c) PROVE AccInv'
<1> SUFFICES ASSUME NEW u, u = call[c].user PROVE AccInv'
  OBVIOUS
<1>1. CASE u \notin Live
  BY <1>1, AnswerStep DEF StoreRefresh
<1>2. CASE u \in Live
  <2>1. /\ call[c].at = "store" /\ row' = [row EXCEPT ![u].refresh = TRUE]
        /\ tokens' = [tokens EXCEPT ![u] = @ \cup {call[c].role}] /\ tenant' = tenant
        /\ out' = (IF call[c].op = "refresh" /\ ~call[c].raced THEN out ELSE out \ {u})
        /\ call' = [call EXCEPT ![c] = Idle]
    BY <1>2 DEF StoreRefresh, Payload, Answered
  <2>2. u \in Users /\ call[c] \in Call /\ call[c].role \in Roles /\ CallOK(call[c])
    BY <1>2, LiveUsers DEF AccInv, Call
  <2>3. /\ row' \in [Users -> Row] /\ row'[u].refresh
        /\ \A v \in Users : /\ v # u => row'[v] = row[v]
                           /\ row'[v].role = row[v].role
        /\ SameUsers
    BY <2>1, <2>2, RefreshWrite
  <2>4. RowsOK'
    <3>1. tokens' \in [Users -> SUBSET Roles] /\ out' \subseteq Users
      BY <2>1, <2>2 DEF AccInv, RowsOK
    <3> QED BY <2>1, <2>3, <3>1, SameRows
  <2>5. u \notin out'
    BY <2>1, <2>2 DEF CallOK
  <2>6. LogoutHolds'
    BY <2>1, <2>3, <2>5 DEF AccInv, LogoutHolds, RowsOK
  <2>7. call' \in [Calls -> Call]
    BY <2>1, IdleOK DEF AccInv
  <2>8. \A d \in Calls \ {c} : \A p : p = call'[d] => CallOK(p)'
    <3>1. \A d \in Calls \ {c} : call'[d] = call[d] /\ call'[d] \in Call /\ Beside(call[d], call'[d])
      BY <2>1, <2>7 DEF AccInv, Beside
    <3>2. \A d \in Calls : call[d].at = "store" => call[d].user \in Users
      BY DEF AccInv, CallOK
    <3>3. \A v \in Users : row'[v].st = row[v].st
      BY <2>3 DEF SameUsers
    <3>4. \A d \in Calls \ {c} : call[d].user \in out' => call[d].user \in out
      BY <2>1
    <3> QED BY <2>1, <2>3, <3>1, <3>2, <3>3, <3>4, SameLookups, OthersOK
  <2>9. \A p : p = call'[c] => CallOK(p)'
    <3>1. CallOK(Idle)'
      BY IdleOK, Paths DEF CallOK, Idle, Alone
    <3> QED BY <2>1, <3>1 DEF AccInv
  <2> QED BY <2>4, <2>6, <2>7, <2>8, <2>9, WriteStep
<1> QED BY <1>1, <1>2

LEMMA LogoutStep == ASSUME AccInv, NEW c \in Calls, Logout(c) PROVE AccInv'
<1> SUFFICES ASSUME NEW u, u = call[c].user PROVE AccInv'
  OBVIOUS
<1>1. CASE u \notin Live
  BY <1>1, AnswerStep DEF Logout
<1>2. CASE u \in Live
  <2>1. /\ row' = [row EXCEPT ![u].refresh = FALSE] /\ out' = out \cup {u}
        /\ call' = [Marked(Storing(u)) EXCEPT ![c] = Idle]
        /\ tokens' = tokens /\ tenant' = tenant
    BY <1>2 DEF Logout, Nulled
  <2>2. u \in Users
    BY <1>2, LiveUsers
  <2>3. /\ row' \in [Users -> Row] /\ ~row'[u].refresh
        /\ \A v \in Users : (v # u => row'[v] = row[v]) /\ row'[v].role = row[v].role
        /\ SameUsers
    BY <2>1, <2>2, RefreshWrite
  <2>4. RowsOK'
    <3>1. tokens' \in [Users -> SUBSET Roles] /\ out' \subseteq Users
      BY <2>1, <2>2 DEF AccInv, RowsOK
    <3> QED BY <2>1, <2>3, <3>1, SameRows
  <2>5. LogoutHolds'
    BY <2>1, <2>3 DEF AccInv, LogoutHolds, RowsOK
  <2>6. \A d \in Calls : call'[d] = IF d = c THEN Idle ELSE Marked(Storing(u))[d]
    BY <2>1 DEF Marked
  <2>7. call' \in [Calls -> Call]
    <3>1. call' = [d \in Calls |-> call'[d]]
      BY <2>1 DEF Marked
    <3> QED BY <2>6, <3>1, IdleOK, MarkedOK
  <2>8. \A d \in Calls \ {c} : \A p : p = call'[d] => CallOK(p)'
    <3>1. \A d \in Calls \ {c} : call'[d] \in Call /\ Beside(call[d], call'[d])
      BY <2>6, MarkedOK
    <3>2. \A d \in Calls : call[d].at = "store" => call[d].user \in Users
      BY DEF AccInv, CallOK
    <3>3. \A v \in Users : row'[v].st = row[v].st
      BY <2>3 DEF SameUsers
    <3>4. \A d \in Calls \ {c} :
             call[d].at = "store" /\ call[d].user \in out' => call[d].user \in out \/ call'[d].raced
      BY <2>1, <2>6, MarkedOK DEF Storing
    <3> QED BY <2>1, <2>3, <3>1, <3>2, <3>3, <3>4, SameLookups, OthersOK
  <2>9. \A p : p = call'[c] => CallOK(p)'
    <3>1. CallOK(Idle)'
      BY IdleOK, Paths DEF CallOK, Idle, Alone
    <3> QED BY <2>6, <3>1
  <2> QED BY <2>4, <2>5, <2>7, <2>8, <2>9, WriteStep
<1> QED BY <1>1, <1>2

LEMMA UpdateRoleStep == ASSUME AccInv, NEW c \in Calls, UpdateRole(c) PROVE AccInv'
<1> SUFFICES ASSUME NEW u, u = call[c].user PROVE AccInv'
  OBVIOUS
<1>1. CASE u \notin Live
  BY <1>1, AnswerStep DEF UpdateRole
<1>2. CASE u \in Live
  <2>1. /\ row' = [row EXCEPT ![u].role = call[c].role] /\ out' = out
        /\ call' = [d \in Calls |-> IF d = c THEN Idle
                                    ELSE [call[d] EXCEPT !.stale = @ \/ d \in Storing(u)]]
        /\ tokens' = tokens /\ tenant' = tenant
    BY <1>2 DEF UpdateRole
  <2>2. u \in Users /\ call[c].role \in Roles
    BY <1>2, LiveUsers DEF AccInv, Call
  <2>3. /\ row' \in [Users -> Row]
        /\ \A v \in Users : (v # u => row'[v] = row[v]) /\ row'[v].refresh = row[v].refresh
        /\ SameUsers
    BY <2>1, <2>2, RoleWrite
  <2>4. RowsOK'
    BY <2>1, <2>3, SameRows DEF AccInv, RowsOK
  <2>5. LogoutHolds'
    BY <2>1, <2>3 DEF AccInv, LogoutHolds, RowsOK
  <2>6. \A d \in Calls \ {c} : /\ call'[d] \in Call /\ Beside(call[d], call'[d])
                               /\ d \in Storing(u) => call'[d].stale
    <3> SUFFICES ASSUME NEW d \in Calls \ {c}, NEW q, q = call[d], NEW p, p = call'[d]
                 PROVE  p \in Call /\ Beside(q, p) /\ (d \in Storing(u) => p.stale)
      OBVIOUS
    <3>1. q \in Call /\ p = [q EXCEPT !.stale = @ \/ d \in Storing(u)]
      BY <2>1 DEF AccInv
    <3> QED BY <3>1 DEF Beside, Call
  <2>7. call' \in [Calls -> Call]
    <3>1. call' = [d \in Calls |-> call'[d]] /\ call'[c] = Idle
      BY <2>1
    <3> QED BY <2>6, <3>1, IdleOK
  <2>8. \A d \in Calls \ {c} : \A p : p = call'[d] => CallOK(p)'
    <3>2. \A d \in Calls : call[d].at = "store" => call[d].user \in Users
      BY DEF AccInv, CallOK
    <3>3. \A v \in Users : row'[v].st = row[v].st
      BY <2>3 DEF SameUsers
    <3>4. \A d \in Calls \ {c} : call[d].at = "store" =>
             call'[d].stale \/ row'[call[d].user].role = row[call[d].user].role
      BY <2>3, <2>6, <3>2 DEF Storing
    <3>5. \A d \in Calls \ {c} : call'[d] \in Call /\ Beside(call[d], call'[d])
      BY <2>6
    <3>6. out' = out /\ tenant' = tenant
      BY <2>1
    <3> QED BY <2>3, <3>2, <3>3, <3>4, <3>5, <3>6, SameLookups, OthersOK
  <2>9. \A p : p = call'[c] => CallOK(p)'
    <3>1. CallOK(Idle)'
      BY IdleOK, Paths DEF CallOK, Idle, Alone
    <3> QED BY <2>1, <3>1
  <2> QED BY <2>4, <2>5, <2>7, <2>8, <2>9, WriteStep
<1> QED BY <1>1, <1>2

LEMMA LinkStep == ASSUME AccInv, NEW c \in Calls, Link(c) PROVE AccInv'
<1> SUFFICES ASSUME NEW q, q = call[c], NEW u, u = q.user PROVE AccInv'
  OBVIOUS
<1>1. CASE ~(u \in Live /\ ByGoogle(q.google) \subseteq {u})
  BY <1>1, AnswerStep DEF Link
<1>2. CASE u \in Live /\ ByGoogle(q.google) \subseteq {u}
  <2> DEFINE S == SamePerson(c, row[u].email, q.google)
  <2>1. /\ q.at = "link" /\ row' = [row EXCEPT ![u].google = q.google]
        /\ call' = [Marked(S) EXCEPT ![c].at = "store", ![c].role = row[u].role]
        /\ UNCHANGED <<tenant, tokens, out>>
    BY <1>2 DEF Link
  <2>2. q \in Call /\ CallOK(q) /\ u \in Users /\ row \in [Users -> Row] /\ row[u] \in Row
    BY <1>2, LiveUsers DEF AccInv, RowsOK
  <2>3. q.op = "google" /\ q.google \in Googles
    BY <2>1, <2>2, Paths DEF CallOK, Call, Ops
  <2>4. \A v \in Users : row'[v] = IF v = u THEN [row[u] EXCEPT !.google = q.google] ELSE row[v]
    BY <2>1, <2>2
  <2>5. /\ [row[u] EXCEPT !.google = q.google] \in Row /\ row'[u].google = q.google
        /\ \A v \in Users : /\ v # u => row'[v] = row[v]
                           /\ row'[v].st = row[v].st /\ row'[v].email = row[v].email
                           /\ row'[v].tenant = row[v].tenant /\ row'[v].role = row[v].role
                           /\ row'[v].refresh = row[v].refresh
    BY <2>2, <2>3, <2>4 DEF Row
  <2>6. row' \in [Users -> Row]
    <3>1. row' = [v \in Users |-> row'[v]]
      BY <2>1, <2>2
    <3> QED BY <2>2, <2>4, <2>5, <3>1
  <2>7. Live' = Live
    BY <2>5 DEF Live
  <2>8. RowsOK'
    <3>1. \A v \in Live : v # u => row[v].google # q.google
      BY <1>2 DEF ByGoogle
    <3>2. \A v, w \in Live : v # w =>
            row'[v].email # row'[w].email /\ (row'[v].google = None \/ row'[v].google # row'[w].google)
      BY <2>5, <3>1, LiveUsers DEF AccInv, RowsOK
    <3>3. \A v \in Live : row'[v].tenant \in Tenants /\ tenant'[row'[v].tenant] = "live"
      BY <2>1, <2>5, LiveUsers DEF AccInv, RowsOK
    <3>4. tenant' \in [Tenants -> {"unused", "live", "gone"}] /\ tokens' \in [Users -> SUBSET Roles]
          /\ out' \subseteq Users
      BY <2>1 DEF AccInv, RowsOK
    <3> QED BY <2>6, <2>7, <3>2, <3>3, <3>4 DEF RowsOK
  <2>9. LogoutHolds'
    BY <2>1, <2>5 DEF AccInv, RowsOK, LogoutHolds
  <2>a. PICK m : m = Marked(S)[c]
    OBVIOUS
  <2>10. PICK p : p = [m EXCEPT !.at = "store", !.role = row[u].role]
    OBVIOUS
  <2>11. \A d \in Calls : call'[d] = IF d = c THEN p ELSE Marked(S)[d]
    BY <2>1, <2>a, <2>10 DEF Marked
  <2>12. /\ p \in Call /\ p.at = "store" /\ p.role = row[u].role /\ p.op = "google" /\ p.user = u
         /\ p.email = q.email /\ p.google = q.google
    <3>1. m \in Call /\ Beside(q, m) /\ row[u].role \in Roles
      BY <2>2, <2>a, MarkedOK DEF Row
    <3>2. m.op = "google" /\ m.user = u /\ m.email = q.email /\ m.google = q.google
      BY <2>3, <3>1 DEF Beside
    <3> QED BY <2>10, <3>1, <3>2 DEF Call, Stages
  <2>13. call' \in [Calls -> Call]
    <3>1. call' = [d \in Calls |-> call'[d]]
      BY <2>1 DEF Marked
    <3> QED BY <2>11, <2>12, <3>1, MarkedOK
  <2>14. \A d \in Calls \ {c} : \A r : r = call'[d] => CallOK(r)'
    <3>1. \A d \in Calls \ {c} : call'[d] \in Call /\ Beside(call[d], call'[d])
      BY <2>11, MarkedOK
    <3>2. \A d \in Calls : call[d].at = "store" => call[d].user \in Users
      BY DEF AccInv, CallOK
    <3>3. \A d \in Calls \ {c} : call[d].op = "google" /\ ~call'[d].raced => call[d].google # q.google
      BY <2>3, <2>11, MarkedOK, AccountsAssumption DEF SamePerson
    <3>4. \A g \in Googles : g # q.google => ByGoogle(g)' \subseteq ByGoogle(g)
      BY <2>5, <2>7, LiveUsers DEF ByGoogle
    <3>5. \A e : ByEmail(e)' = ByEmail(e)
      BY <2>5, <2>7, LiveUsers DEF ByEmail
    <3>6. tenant' = tenant /\ out' = out
      BY <2>1
    <3> QED BY <2>5, <3>1, <3>2, <3>3, <3>4, <3>5, <3>6, OthersOK
  <2>15. \A r : r = call'[c] => CallOK(r)'
    <3>1. CallOK(p)'
      BY <1>2, <2>2, <2>3, <2>5, <2>12, LiveUsers, Paths DEF CallOK
    <3> QED BY <2>11, <3>1
  <2> QED BY <2>8, <2>9, <2>13, <2>14, <2>15, WriteStep
<1> QED BY <1>1, <1>2

LEMMA CreateUserStep == ASSUME AccInv, NEW c \in Calls, CreateUser(c) PROVE AccInv'
<1> SUFFICES ASSUME NEW q, q = call[c] PROVE AccInv'
  OBVIOUS
<1>1. CASE ~Insertable(c)
  BY <1>1, AnswerStep DEF CreateUser
<1>2. CASE Insertable(c)
  <2> DEFINE S == SamePerson(c, q.email, q.google)
             new == NewRow(q.email, q.google, q.op = "register", q.role, q.tenant)
  <2>0. PICK u \in NextOf(UnusedUsers) :
           /\ row' = [row EXCEPT ![u] = new]
           /\ call' = [Marked(S) EXCEPT ![c].at = "store", ![c].user = u]
    BY <1>2 DEF CreateUser
  <2>1. q.at = "create" /\ UNCHANGED <<tenant, tokens, out>>
    BY <1>2 DEF CreateUser
  <2>2. /\ q \in Call /\ CallOK(q) /\ u \in Users /\ row[u].st = "unused"
        /\ row \in [Users -> Row] /\ q.tenant \in Tenants
    BY <2>1 DEF AccInv, RowsOK, CallOK, NextOf, UnusedUsers
  <2>3. q.op \in {"register", "google"}
    BY <2>1, <2>2, Paths DEF CallOK, Call, Ops
  <2>4. /\ new \in Row /\ new.st = "live" /\ new.email = q.email /\ new.google = q.google
        /\ new.role = q.role /\ new.tenant = q.tenant /\ new.refresh = FALSE
    BY <2>2 DEF NewRow, Row, Call
  <2> HIDE DEF new
  <2>5. \A v \in Users : row'[v] = IF v = u THEN new ELSE row[v]
    BY <2>0, <2>2
  <2>6. row' \in [Users -> Row]
    BY <2>0, <2>2, <2>4
  <2>7. Live' = Live \cup {u} /\ u \notin Live
    BY <2>2, <2>4, <2>5 DEF Live
  <2>b. row'[u] = new /\ \A v \in Live : row'[v] = row[v]
    BY <2>2, <2>5, <2>7, LiveUsers
  <2>8. RowsOK'
    <3>1. \A v \in Live : row[v].email # q.email /\ (q.google = None \/ row[v].google # q.google)
      BY <1>2 DEF Insertable, ByEmail, ByGoogle
    <3>2. \A v, w \in Live' : v # w =>
            row'[v].email # row'[w].email /\ (row'[v].google = None \/ row'[v].google # row'[w].google)
      BY <2>2, <2>4, <2>5, <2>7, <3>1, LiveUsers DEF AccInv, RowsOK
    <3>3. \A v \in Live' : row'[v].tenant \in Tenants /\ tenant'[row'[v].tenant] = "live"
      BY <1>2, <2>1, <2>2, <2>4, <2>5, <2>7, LiveUsers DEF AccInv, RowsOK, Insertable
    <3>4. tenant' \in [Tenants -> {"unused", "live", "gone"}] /\ tokens' \in [Users -> SUBSET Roles]
          /\ out' \subseteq Users
      BY <2>1 DEF AccInv, RowsOK
    <3> QED BY <2>6, <3>2, <3>3, <3>4 DEF RowsOK
  <2>9. LogoutHolds'
    BY <2>1, <2>4, <2>5 DEF AccInv, RowsOK, LogoutHolds
  <2>a. PICK m : m = Marked(S)[c]
    OBVIOUS
  <2>10. PICK p : p = [m EXCEPT !.at = "store", !.user = u]
    OBVIOUS
  <2>11. \A d \in Calls : call'[d] = IF d = c THEN p ELSE Marked(S)[d]
    BY <2>0, <2>a, <2>10 DEF Marked
  <2>12. /\ p \in Call /\ p.at = "store" /\ p.role = q.role /\ p.op = q.op /\ p.user = u
         /\ p.email = q.email /\ p.google = q.google /\ p.tenant = q.tenant
    <3>1. m \in Call /\ Beside(q, m)
      BY <2>2, <2>a, MarkedOK
    <3>2. m.role = q.role /\ m.op = q.op /\ m.email = q.email /\ m.google = q.google /\ m.tenant = q.tenant
      BY <3>1 DEF Beside
    <3> QED BY <2>2, <2>10, <3>1, <3>2 DEF Call, Stages
  <2>13. call' \in [Calls -> Call]
    <3>1. call' = [d \in Calls |-> call'[d]]
      BY <2>0 DEF Marked
    <3> QED BY <2>11, <2>12, <3>1, MarkedOK
  <2>14. \A d \in Calls \ {c} : \A r : r = call'[d] => CallOK(r)'
    <3>1. \A d \in Calls \ {c} : call'[d] \in Call /\ Beside(call[d], call'[d])
      BY <2>11, MarkedOK
    <3>2. \A d \in Calls : call[d].at = "store" => call[d].user \in Users /\ call[d].user # u
      BY <2>2 DEF AccInv, CallOK
    <3>3. \A d \in Calls \ {c} : call[d].op = "google" /\ ~call'[d].raced =>
            /\ call[d].google # q.google /\ call[d].email # q.email
            /\ call[d].google \in Googles /\ call[d].email \in Emails
      <4>1. \A d \in Calls : call[d].op = "google" => call[d].google \in Googles /\ call[d].email \in Emails
        BY DEF AccInv, CallOK
      <4>2. \A d \in Calls \ {c} : ~call'[d].raced => d \notin S
        BY <2>11, MarkedOK
      <4> QED BY <4>1, <4>2, AccountsAssumption DEF SamePerson
    <3>4. \A g \in Googles : g # q.google => ByGoogle(g)' \subseteq ByGoogle(g)
      BY <2>4, <2>7, <2>b DEF ByGoogle
    <3>5. \A e \in Emails : e # q.email => ByEmail(e)' \subseteq ByEmail(e)
      BY <2>4, <2>7, <2>b DEF ByEmail
    <3>6. tenant' = tenant /\ out' = out
      BY <2>1
    <3>7. \A v \in Users : row[v].st # "unused" => row'[v] = row[v]
      BY <2>2, <2>5
    <3>8. \A d \in Calls \ {c} : call[d].at = "store" => row'[call[d].user].role = row[call[d].user].role
      BY <2>5, <3>2
    <3> QED BY <3>1, <3>3, <3>4, <3>5, <3>6, <3>7, <3>8, OthersOK
  <2>15. \A r : r = call'[c] => CallOK(r)'
    <3>1. CallOK(p)'
      BY <2>2, <2>3, <2>4, <2>5, <2>12, Paths DEF CallOK
    <3> QED BY <2>11, <3>1
  <2> QED BY <2>8, <2>9, <2>13, <2>14, <2>15, WriteStep
<1> QED BY <1>1, <1>2

LEMMA RemoveTenantStep == ASSUME AccInv, NEW c \in Calls, RemoveTenant(c) PROVE AccInv'
<1> SUFFICES ASSUME NEW t, t = call[c].tenant PROVE AccInv'
  OBVIOUS
<1>1. CASE tenant[t] # "live"
  BY <1>1, AnswerStep DEF RemoveTenant
<1>2. CASE tenant[t] = "live"
  <2>1. /\ tenant' = [tenant EXCEPT ![t] = "gone"] /\ row' = Cascaded(t)
        /\ out' = {u \in out : row[u].tenant # t} /\ tokens' = tokens
        /\ call' = [d \in Calls |-> IF d = c THEN Idle
                                    ELSE [call[d] EXCEPT !.raced = @ \/ call[d].op = "google"]]
    BY <1>2 DEF RemoveTenant
  <2>2. PICK gone : gone = [NoRow EXCEPT !.st = "gone"]
    OBVIOUS
  <2>3. gone \in Row /\ gone.st = "gone" /\ ~gone.refresh
    BY <2>2 DEF NoRow, NewRow, Row, Roles
  <2>4. row' = [u \in Users |-> IF u \in Live /\ row[u].tenant = t THEN gone ELSE row[u]]
    BY <2>1, <2>2 DEF Cascaded
  <2>5. row' \in [Users -> Row]
    BY <2>3, <2>4 DEF AccInv, RowsOK
  <2>6. \A u \in Users : /\ row'[u] = row[u] \/ (row'[u] = gone /\ row[u].st = "live")
                         /\ row'[u].st = "live" => row'[u] = row[u] /\ row[u].tenant # t
    <3> SUFFICES ASSUME NEW u \in Users, NEW r, r = row'[u]
                 PROVE  /\ r = row[u] \/ (r = gone /\ row[u].st = "live")
                        /\ r.st = "live" => r = row[u] /\ row[u].tenant # t
      OBVIOUS
    <3>1. r = IF u \in Live /\ row[u].tenant = t THEN gone ELSE row[u]
      BY <2>4
    <3> QED BY <2>3, <3>1, LiveUsers
  <2>7. Live' \subseteq Live /\ \A u \in Live' : row'[u] = row[u] /\ row[u].tenant # t
    BY <2>6 DEF Live
  <2>8. RowsOK'
    <3>1. \A u \in Live' : row'[u].tenant \in Tenants /\ tenant'[row'[u].tenant] = "live"
      BY <2>1, <2>7 DEF AccInv, RowsOK
    <3>2. tenant' \in [Tenants -> {"unused", "live", "gone"}] /\ tokens' \in [Users -> SUBSET Roles]
          /\ out' \subseteq Users
      BY <2>1 DEF AccInv, RowsOK
    <3>3. \A v, w \in Live' : v # w =>
            row'[v].email # row'[w].email /\ (row'[v].google = None \/ row'[v].google # row'[w].google)
      BY <2>7 DEF AccInv, RowsOK
    <3> QED BY <2>5, <3>1, <3>2, <3>3 DEF RowsOK
  <2>9. LogoutHolds'
    BY <2>1, <2>3, <2>6 DEF AccInv, RowsOK, LogoutHolds
  <2>10. \A d \in Calls \ {c} : /\ call'[d] \in Call /\ Beside(call[d], call'[d])
                                /\ call[d].op = "google" => call'[d].raced
    <3> SUFFICES ASSUME NEW d \in Calls \ {c}, NEW q, q = call[d], NEW p, p = call'[d]
                 PROVE  p \in Call /\ Beside(q, p) /\ (q.op = "google" => p.raced)
      OBVIOUS
    <3>1. q \in Call /\ p = [q EXCEPT !.raced = @ \/ q.op = "google"]
      BY <2>1 DEF AccInv
    <3> QED BY <3>1 DEF Beside, Call
  <2>11. call' \in [Calls -> Call]
    <3>1. call' = [d \in Calls |-> call'[d]] /\ call'[c] = Idle
      BY <2>1
    <3> QED BY <2>10, <3>1, IdleOK
  <2>12. \A d \in Calls \ {c} : \A p : p = call'[d] => CallOK(p)'
    <3>1. \A d \in Calls : call[d].at = "store" => call[d].user \in Users
      BY DEF AccInv, CallOK
    <3>2. \A d \in Calls \ {c} : call[d].at = "store" =>
             \/ row'[call[d].user].role = row[call[d].user].role
             \/ row'[call[d].user].st # "live"
      BY <2>6, <3>1
    <3>3. \A u \in Users : row[u].st # "unused" =>
             row'[u].st # "unused" /\ (row'[u].st = "live" => row[u].st = "live")
      BY <2>3, <2>6
    <3>4. \A d \in Calls \ {c} : call'[d] \in Call /\ Beside(call[d], call'[d])
      BY <2>10
    <3>5. out' \subseteq out
      BY <2>1
    <3>6. \A d \in Calls \ {c} : ~(call[d].op = "google" /\ ~call'[d].raced)
      BY <2>10
    <3> QED BY <3>2, <3>3, <3>4, <3>5, <3>6, OthersOK
  <2>13. \A p : p = call'[c] => CallOK(p)'
    <3>1. CallOK(Idle)'
      BY IdleOK, Paths DEF CallOK, Idle, Alone
    <3> QED BY <2>1, <3>1
  <2> QED BY <2>8, <2>9, <2>11, <2>12, <2>13, WriteStep
<1> QED BY <1>1, <1>2

-----------------------------------------------------------------------------
LEMMA AccInit == Init => AccInv
<1> SUFFICES ASSUME Init PROVE AccInv
  OBVIOUS
<1>1. 1 \in Users /\ 1 \in Tenants
  BY AccountsAssumption DEF Users, Tenants
<1>2. NoRow \in Row /\ NoRow.st = "unused" /\ ~NoRow.refresh
  BY DEF NoRow, NewRow, Row, Roles
<1>3. PICK seed : seed = NewRow(SeedEmail, None, TRUE, "ADMIN", 1)
  OBVIOUS
<1>4. seed \in Row /\ seed.tenant = 1 /\ ~seed.refresh
  BY <1>1, <1>3, AccountsAssumption DEF NewRow, Row, Roles
<1>5. row = [u \in Users |-> IF u = 1 THEN seed ELSE NoRow]
  BY <1>1, <1>3 DEF Init
<1>6. row \in [Users -> Row] /\ \A u \in Live : u = 1 /\ row[u] = seed
  BY <1>2, <1>4, <1>5 DEF Live
<1>7. /\ tenant \in [Tenants -> {"unused", "live", "gone"}] /\ tenant[1] = "live"
      /\ tokens \in [Users -> SUBSET Roles] /\ out = {}
  BY <1>1 DEF Init
<1>8. RowsOK /\ LogoutHolds
  BY <1>1, <1>4, <1>6, <1>7 DEF RowsOK, LogoutHolds
<1>9. call \in [Calls -> Call] /\ \A c \in Calls : CallOK(call[c])
  BY IdleOK DEF Init
<1> QED BY <1>8, <1>9 DEF AccInv

LEMMA AccStep == AccInv /\ [Next]_vars => AccInv'
<1> SUFFICES ASSUME AccInv, [Next]_vars PROVE AccInv'
  OBVIOUS
<1>1. CASE CreateTenant
  BY <1>1, TenantSteps
<1>2. ASSUME NEW c \in Calls,
             Register(c) \/ Login(c) \/ GoogleCallback(c)
               \/ \E op \in {"refresh", "logout", "role", "remove"} : Authorized(c, op)
      PROVE  AccInv'
  BY <1>2, StartSteps
<1>3. ASSUME NEW c \in Calls, FindGoogle(c) \/ FindEmail(c) \/ FindSession(c) \/ FindTarget(c)
      PROVE  AccInv'
  BY <1>3, FindGoogleStep, FindEmailStep, FindSessionStep, FindTargetStep
<1>4. ASSUME NEW c \in Calls, Link(c) \/ MakeTenant(c) \/ CreateUser(c) \/ StoreRefresh(c)
      PROVE  AccInv'
  BY <1>4, LinkStep, TenantSteps, CreateUserStep, StoreRefreshStep
<1>5. ASSUME NEW c \in Calls, Logout(c) \/ UpdateRole(c) \/ RemoveTenant(c) PROVE AccInv'
  BY <1>5, LogoutStep, UpdateRoleStep, RemoveTenantStep
<1>6. CASE UNCHANGED vars
  <2>1. RowsOK' /\ LogoutHolds'
    BY <1>6 DEF vars, AccInv, RowsOK, LogoutHolds, Live
  <2>2. ASSUME NEW q, CallOK(q) PROVE CallOK(q)'
    BY <1>6, <2>2 DEF vars, CallOK, ByGoogle, ByEmail, Live, Alone
  <2> QED BY <1>6, <2>1, <2>2, WriteStep DEF vars, AccInv
<1> QED BY <1>1, <1>2, <1>3, <1>4, <1>5, <1>6 DEF Next

LEMMA AccInvariant == Spec => []AccInv
  BY AccInit, AccStep, PTL DEF Spec

-----------------------------------------------------------------------------
(* A call about to store or to create is ended by its own step alone.      *)
LEMMA NotIdle == Idle.at = "idle"
  BY DEF Idle

LEMMA OthersStay ==
    ASSUME AccInv, NEW c \in Calls, NEW d \in Calls, c # d,
           \/ Register(d) \/ Login(d) \/ GoogleCallback(d)
           \/ \E op \in {"refresh", "logout", "role", "remove"} : Authorized(d, op)
           \/ FindGoogle(d) \/ FindEmail(d) \/ FindSession(d) \/ FindTarget(d)
           \/ Link(d) \/ MakeTenant(d) \/ CreateUser(d) \/ StoreRefresh(d)
           \/ Logout(d) \/ UpdateRole(d) \/ RemoveTenant(d)
    PROVE  call'[c].at = call[c].at
<1>1. call \in [Calls -> Call] /\ call[c] \in Call
  BY DEF AccInv
<1>2. \A S : Marked(S)[c].at = call[c].at
  BY MarkedOK DEF Beside
<1>3. CASE \/ Register(d) \/ Login(d) \/ GoogleCallback(d)
           \/ \E op \in {"refresh", "logout", "role", "remove"} : Authorized(d, op)
  BY <1>1, <1>3 DEF Register, Login, GoogleCallback, Authorized, Start
<1>4. CASE FindGoogle(d) \/ FindSession(d) \/ FindTarget(d) \/ MakeTenant(d)
  BY <1>1, <1>4 DEF FindGoogle, FindSession, FindTarget, MakeTenant, To, Holding, Answered
<1>5. CASE FindEmail(d)
  BY <1>1, <1>5 DEF FindEmail, AfterEmail, To, Holding, Answered
<1>6. CASE StoreRefresh(d)
  BY <1>1, <1>6 DEF StoreRefresh, Answer, Answered
<1>7. CASE Link(d)
  BY <1>1, <1>2, <1>7 DEF Link, Answer, Answered, Marked
<1>8. CASE CreateUser(d)
  BY <1>1, <1>2, <1>8 DEF CreateUser, Answer, Answered, Marked
<1>9. CASE Logout(d)
  BY <1>1, <1>2, <1>9 DEF Logout, Answer, Answered, Marked
<1>10. CASE UpdateRole(d) \/ RemoveTenant(d)
  BY <1>1, <1>10 DEF UpdateRole, RemoveTenant, Answer, Answered, Call
<1> QED BY <1>3, <1>4, <1>5, <1>6, <1>7, <1>8, <1>9, <1>10

LEMMA EndsItself ==
    ASSUME AccInv, [Next]_vars, NEW c \in Calls, call[c].at \in {"store", "create"}, call'[c] = Idle
    PROVE  StoreRefresh(c) \/ CreateUser(c)
<1>1. call'[c].at # call[c].at /\ call[c] # Idle
  BY NotIdle
<1>2. call' # call /\ ~CreateTenant
  BY <1>1 DEF CreateTenant
<1>3. PICK d \in Calls :
         \/ Register(d) \/ Login(d) \/ GoogleCallback(d)
         \/ \E op \in {"refresh", "logout", "role", "remove"} : Authorized(d, op)
         \/ FindGoogle(d) \/ FindEmail(d) \/ FindSession(d) \/ FindTarget(d)
         \/ Link(d) \/ MakeTenant(d) \/ CreateUser(d) \/ StoreRefresh(d)
         \/ Logout(d) \/ UpdateRole(d) \/ RemoveTenant(d)
  BY <1>2 DEF Next, vars
<1>4. d = c
  BY <1>1, <1>3, OthersStay
<1> QED BY <1>1, <1>3, <1>4
        DEF Register, Login, GoogleCallback, Authorized, Start, FindGoogle, FindEmail, FindSession,
            FindTarget, Link, MakeTenant, Logout, UpdateRole, RemoveTenant

LEMMA RoleFreshStep ==
    AccInv /\ [Next]_vars =>
      \A c \in Calls : \A u \in Users :
         call[c].at = "store" /\ call[c].user = u /\ call'[c] = Idle
           /\ row[u].st = "live" /\ ~call[c].stale
         => tokens'[u] = tokens[u] \cup {row[u].role}
<1> SUFFICES ASSUME AccInv, [Next]_vars, NEW c \in Calls, NEW u \in Users,
                    call[c].at = "store", call[c].user = u, call'[c] = Idle,
                    row[u].st = "live", ~call[c].stale
             PROVE  tokens'[u] = tokens[u] \cup {row[u].role}
  OBVIOUS
<1>1. StoreRefresh(c)
  BY EndsItself DEF CreateUser
<1>2. call[c].role = row[u].role
  BY DEF AccInv, CallOK
<1> QED BY <1>1, <1>2, LiveUsers DEF StoreRefresh, Payload, AccInv, RowsOK

LEMMA OrphanStep ==
    AccInv /\ [Next]_vars =>
      \A c \in Calls :
         call[c].op = "google" /\ call[c].at = "create" /\ call'[c] = Idle => call[c].raced
<1> SUFFICES ASSUME AccInv, [Next]_vars, NEW c \in Calls, call[c].op = "google",
                    call[c].at = "create", call'[c] = Idle, ~call[c].raced
             PROVE  FALSE
  OBVIOUS
<1>1. CreateUser(c)
  BY EndsItself DEF StoreRefresh
<1>2. Insertable(c)
  BY DEF AccInv, CallOK, Alone, Insertable
<1>3. call'[c].at = "store"
  <2>1. PICK u : call' = [Marked(SamePerson(c, call[c].email, call[c].google))
                            EXCEPT ![c].at = "store", ![c].user = u]
    BY <1>1, <1>2 DEF CreateUser
  <2>2. PICK m : m = Marked(SamePerson(c, call[c].email, call[c].google))[c]
    OBVIOUS
  <2>3. m \in Call
    BY <2>2, MarkedOK
  <2>4. call'[c] = [m EXCEPT !.at = "store", !.user = u]
    BY <2>1, <2>2 DEF Marked
  <2> QED BY <2>3, <2>4 DEF Call
<1> QED BY <1>3, NotIdle

-----------------------------------------------------------------------------
(* Every variable has its values, an email and a Google account belong to  *)
(* one user, and every user has a tenant, whatever calls overlap: the      *)
(* statements of users.service.ts and tenants.service.ts keep the keys.    *)
THEOREM AccountTypes == Spec => []TypeOK
  BY AccInvariant, InvTypes, PTL

(* A user who logged out holds no stored refresh token until he signs in   *)
(* again or a refresh that had read the row before stores one              *)
(* (auth.service.ts 88-106).                                               *)
THEOREM LogoutCorrect == Spec => []LogoutHolds
<1>1. AccInv => LogoutHolds
  BY DEF AccInv
<1> QED BY <1>1, AccInvariant, PTL

(* A sign-in or refresh answers with the role the user has, unless         *)
(* updateRole ran after it read the row (auth.service.ts 108-125).         *)
THEOREM RoleFreshCorrect == Spec => RoleFresh
<1>1. AccInv /\ [Next]_vars =>
        [\A c \in Calls : \A u \in Users :
           call[c].at = "store" /\ call[c].user = u /\ call'[c] = Idle
             /\ row[u].st = "live" /\ ~call[c].stale
           => tokens'[u] = tokens[u] \cup {row[u].role}]_vars
  BY RoleFreshStep
<1> QED BY <1>1, AccInvariant, PTL DEF Spec, RoleFresh

(* A Google sign-in leaves a tenant without a user behind only when another*)
(* call registered, linked or removed the same person under it             *)
(* (users.service.ts 40-59).                                               *)
THEOREM OrphanCorrect == Spec => OrphanOnlyByRace
<1>1. AccInv /\ [Next]_vars =>
        [\A c \in Calls :
           call[c].op = "google" /\ call[c].at = "create" /\ call'[c] = Idle => call[c].raced]_vars
  BY OrphanStep
<1> QED BY <1>1, AccInvariant, PTL DEF Spec, OrphanOnlyByRace

=============================================================================
