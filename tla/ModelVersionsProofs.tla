------------------------- MODULE ModelVersionsProofs ------------------------
(***************************************************************************)
(* Proofs about ModelVersions, for any sets of models and calls and any    *)
(* number of requests.                                                     *)
(*                                                                         *)
(* Base is what every call relies on: it is at a phase of its operation,   *)
(* the model it works on once had a row, the id an upload has taken has a  *)
(* file and no row yet.  On top of it, CacheInv says that a change the     *)
(* cache has not heard of is still on its way to invalidateCache,          *)
(* VersionInv that an upload nobody has raced with has the highest number, *)
(* and LatestInv how far what a call or the cache has read of a model may  *)
(* be trusted, and which call is about to set a family right again.        *)
(***************************************************************************)
EXTENDS ModelVersions, FiniteSetTheorems, TLAPS

Path == [op \in AllOps |->
           CASE op = "upload" -> {"insert", "invalidate"}
             [] op = "bind" -> {"load", "bind"}
             [] op = "permanent" -> {"load", "unbind", "unlink", "delete"}
             [] op \in {"read", "list"} -> {"find", "keep"}
             [] op = "version" -> {"find", "keep", "number", "demote", "insert", "invalidate"}
             [] op = "rollback" -> {"find", "keep", "demote", "promote", "invalidate"}
             [] op = "remove" -> {"find", "keep", "unbind", "mark", "heir", "invalidate"}
             [] op = "restore" -> {"find", "keep", "unmark", "siblings", "invalidate"}]

(* An upload that has taken an id and not yet used it.                     *)
Pending(q) == q.phase = "insert" \/ (q.op = "version" /\ q.phase = "demote")

Held(q) ==
    /\ q \in Call
    /\ q.phase # "idle" => q.phase \in Path[q.op] /\ q.on \in Keys /\ (q.on = List <=> q.op = "list")
    /\ q.op # "list" => q.seen \in Row
    /\ q.phase = "keep" /\ q.op # "list" => q.seen.state \in {"live", "deleted"}
    /\ q.phase # "idle" /\ q.op \notin {"upload", "list"} => row[q.on].state # "none"
    /\ Pending(q) => q.new \in files /\ row[q.new] = NoRow

(* No two of them have the same id.                                        *)
IdsApart == \A c, d \in Calls : c # d /\ Pending(call[c]) /\ Pending(call[d]) => call[c].new # call[d].new

Base == TypeOK /\ IdsApart /\ \A c \in Calls : Held(call[c])

(* A call whose change has not reached the cache.                          *)
Dirty == \E c \in Calls : call[c].phase \in {"promote", "heir", "siblings", "invalidate"}

CacheInv ==
    Dirty \/ /\ \A k \in Keys \ suspect : cache[k] \in {None, View(k)}
             /\ \A c \in Calls : call[c].phase = "keep" /\ ~call[c].late => call[c].seen = View(call[c].on)

ParentsStored == \A m \in Stored : row[m].parent \in Stored \cup {None}

OnTop(q) == q.op = "version" /\ Pending(q) /\ q.on \notin raced => \A n \in Family(q.on) : row[n].version < q.next

VersionInv == VersionsDistinct /\ ParentsStored /\ \A c \in Calls : OnTop(call[c])



-----------------------------------------------------------------------------
RestOK ==
    /\ row \in Table
    /\ files \subseteq Models /\ bound \subseteq Stored
    /\ cache \in [Keys -> Table \cup Row \cup {None}]
    /\ \A m \in Models : cache[m] # None => cache[m] \in Row /\ cache[m].state \in {"live", "deleted"}
    /\ made \in 0 .. Requests
    /\ tidy \subseteq Models /\ raced \subseteq Models /\ suspect \subseteq Keys
    /\ cut \subseteq Models

LEMMA Paths ==
    /\ Path["upload"] = {"insert", "invalidate"} /\ Path["bind"] = {"load", "bind"}
    /\ Path["permanent"] = {"load", "unbind", "unlink", "delete"}
    /\ Path["read"] = {"find", "keep"} /\ Path["list"] = {"find", "keep"}
    /\ Path["version"] = {"find", "keep", "number", "demote", "insert", "invalidate"}
    /\ Path["rollback"] = {"find", "keep", "demote", "promote", "invalidate"}
    /\ Path["remove"] = {"find", "keep", "unbind", "mark", "heir", "invalidate"}
    /\ Path["restore"] = {"find", "keep", "unmark", "siblings", "invalidate"}
  BY DEF Path, AllOps, Writers

LEMMA OpsAre ==
    \A op : op \in AllOps <=> op \in {"version", "rollback", "remove", "restore", "permanent",
                                      "read", "list", "upload", "bind"}
  BY DEF AllOps, Writers

LEMMA Constants == None \notin Models /\ List \notin Models /\ None # List /\ Keys = Models \cup {List}
  BY ModelsAssumption DEF Keys

LEMMA NoRowOK == NoRow \in Row /\ NoRow.state = "none"
  BY DEF NoRow, Row

LEMMA IdleOK ==
    /\ IdleCall \in Call /\ IdleCall.phase = "idle" /\ IdleCall.op = "read" /\ IdleCall.seen = NoRow
    /\ Held(IdleCall) /\ Held(IdleCall)' /\ ~Pending(IdleCall)
<1>1. /\ IdleCall \in Call /\ IdleCall.phase = "idle" /\ IdleCall.op = "read" /\ IdleCall.seen = NoRow
  BY NoRowOK DEF IdleCall, Call, AllOps, Writers, Phases
<1> QED BY <1>1, NoRowOK DEF Held, Pending

(* What a call may still believe after a step of another.                  *)
Alike(q, p) ==
    /\ p.op = q.op /\ p.on = q.on /\ p.phase = q.phase /\ p.seen = q.seen /\ p.new = q.new
    /\ p.next = q.next /\ p.hit = q.hit

Same(q, p) ==
    /\ Alike(q, p) /\ (p.alone => q.alone)
    /\ q.phase = "keep" /\ q.late => p.late

RowsStay == \A m \in Models : row[m].state # "none" => row'[m].state # "none"

LEMMA SameHeld ==
    ASSUME NEW q, Held(q), NEW p \in Call, Same(q, p), RowsStay,
           Pending(q) => q.new \in files' /\ row'[q.new] = NoRow
    PROVE  Held(p)' /\ (Pending(p) <=> Pending(q))
  BY OpsAre, Constants DEF Held, Same, Alike, RowsStay, Pending, Call

LEMMA BaseStep ==
    ASSUME Base, NEW c \in Calls, RestOK', RowsStay, call' \in [Calls -> Call],
           \A d \in Calls \ {c} : Same(call[d], call'[d]),
           \A d \in Calls \ {c} : Pending(call[d]) => call[d].new \in files' /\ row'[call[d].new] = NoRow,
           \A q : q = call'[c] =>
             /\ Held(q)'
             /\ Pending(q) => \A d \in Calls \ {c} : Pending(call[d]) => call[d].new # q.new
    PROVE  Base'
<1>1. \A d \in Calls : \A p : p = call'[d] => Held(p)'
  <2> SUFFICES ASSUME NEW d \in Calls, NEW p, p = call'[d] PROVE Held(p)'
    OBVIOUS
  <2>1. CASE d = c
    BY <2>1
  <2>2. CASE d # c
    <3>1. PICK q : q = call[d]
      OBVIOUS
    <3>2. Held(q) /\ p \in Call /\ Same(q, p) /\ (Pending(q) => q.new \in files' /\ row'[q.new] = NoRow)
      BY <2>2, <3>1 DEF Base
    <3> QED BY <3>2, SameHeld
  <2> QED BY <2>1, <2>2
<1>2. (\A d \in Calls : Held(call[d]))'
  <2> SUFFICES ASSUME NEW d \in Calls PROVE Held(call[d])'
    OBVIOUS
  <2>1. PICK p : p = call'[d]
    OBVIOUS
  <2>2. Held(p)'
    BY <1>1, <2>1
  <2> QED BY <2>1, <2>2 DEF Held, Pending
<1>3. \A d \in Calls \ {c} : /\ Pending(call'[d]) => Pending(call[d])
                            /\ call'[d].new = call[d].new
  BY DEF Same, Alike, Pending
<1>4. IdsApart'
  <2> SUFFICES ASSUME NEW d \in Calls, NEW e \in Calls, d # e,
                      Pending(call'[d]), Pending(call'[e])
               PROVE  call'[d].new # call'[e].new
    BY DEF IdsApart, Pending
  <2>1. CASE d = c
    BY <1>3, <2>1
  <2>2. CASE e = c
    BY <1>3, <2>2
  <2>3. CASE d # c /\ e # c
    BY <1>3, <2>3 DEF Base, IdsApart
  <2> QED BY <2>1, <2>2, <2>3
<1>5. TypeOK'
  BY DEF TypeOK, RestOK
<1> QED BY <1>2, <1>4, <1>5 DEF Base

(* The step of one call, after which it is as q says.                      *)
Becomes(c, q) == call' = [call EXCEPT ![c] = q] \/ call' = Late([call EXCEPT ![c] = q])

LEMMA Becoming ==
    ASSUME TypeOK, NEW c \in Calls, NEW q \in Call, Becomes(c, q)
    PROVE  /\ call' \in [Calls -> Call]
           /\ \A d \in Calls \ {c} : Same(call[d], call'[d])
           /\ Alike(q, call'[c])
<1>1. call \in [Calls -> Call] /\ [call EXCEPT ![c] = q] \in [Calls -> Call]
  BY DEF TypeOK
<1>2. CASE call' = [call EXCEPT ![c] = q]
  BY <1>1, <1>2 DEF Same, Alike, Call
<1>3. CASE call' = Late([call EXCEPT ![c] = q])
  <2>1. ASSUME NEW d \in Calls, NEW r \in Call, r = [call EXCEPT ![c] = q][d]
        PROVE  call'[d] \in Call /\ Same(r, call'[d])
    <3>1. call'[d] = [r EXCEPT !.late = r.phase = "keep"]
      BY <1>1, <1>3, <2>1 DEF Late
    <3> QED BY <3>1 DEF Call, Same, Alike
  <2>2. call' = [d \in Calls |-> call'[d]]
    BY <1>1, <1>3 DEF Late
  <2> QED BY <1>1, <2>1, <2>2 DEF Same, Alike
<1> QED BY <1>2, <1>3 DEF Becomes

(* It leaves the rows of the other models alone, as far as calls rely on   *)
(* them.                                                                   *)
LEMMA WriteBase ==
    ASSUME Base, NEW c \in Calls, NEW q \in Call, Becomes(c, q), Held(q)', RestOK', RowsStay,
           files \subseteq files',
           \A m \in Models : row[m] = NoRow /\ (Pending(call[c]) => m # call[c].new) => row'[m] = NoRow,
           Pending(q) => \A d \in Calls \ {c} : Pending(call[d]) => call[d].new # q.new
    PROVE  Base'
<1>1. /\ call' \in [Calls -> Call]
      /\ \A d \in Calls \ {c} : Same(call[d], call'[d])
      /\ Alike(q, call'[c])
  BY Becoming DEF Base
<1>2. ASSUME NEW r, r = call'[c] PROVE Held(r)' /\ (Pending(r) <=> Pending(q)) /\ r.new = q.new
  <2>1. /\ r \in Call /\ r.op = q.op /\ r.on = q.on /\ r.phase = q.phase /\ r.seen = q.seen
        /\ r.new = q.new
    BY <1>1, <1>2 DEF Alike
  <2> QED BY <2>1 DEF Held, Pending
<1>3. \A d \in Calls \ {c} : Pending(call[d]) =>
        call[d].new \in files' /\ row'[call[d].new] = NoRow
  <2> SUFFICES ASSUME NEW d \in Calls \ {c}, Pending(call[d])
               PROVE  call[d].new \in files' /\ row'[call[d].new] = NoRow
    OBVIOUS
  <2>1. call[d].new \in files /\ row[call[d].new] = NoRow /\ files \subseteq Models
    BY DEF Base, Held, TypeOK
  <2>2. Pending(call[c]) => call[d].new # call[c].new
    BY DEF Base, IdsApart
  <2> QED BY <2>1, <2>2
<1> QED BY <1>1, <1>2, <1>3, BaseStep

(* Its rows keep their ids, versions and parents.                          *)
Relabelled ==
    /\ row' \in Table
    /\ \A m \in Models : /\ row'[m].version = row[m].version /\ row'[m].parent = row[m].parent
                         /\ m \in Stored => row'[m].state \in {"live", "deleted"}
                         /\ m \notin Stored => row'[m] = row[m]

LEMMA Relabelling ==
    ASSUME Base, Relabelled
    PROVE  /\ RowsStay /\ Stored' = Stored /\ \A m : Family(m)' = Family(m)
           /\ \A m \in Models : row[m] = NoRow => row'[m] = NoRow
<1>1. \A m \in Models : m \in Stored <=> row[m].state \in {"live", "deleted"}
  BY DEF Stored
<1>2. \A m \in Models : row'[m].state \in {"live", "deleted"} <=> row[m].state \in {"live", "deleted"}
  BY <1>1 DEF Relabelled
<1>3. Stored' = Stored
  BY <1>2 DEF Stored
<1>4. \A m : Family(m)' = Family(m)
  BY <1>3 DEF Family, Relabelled, Stored
<1>5. RowsStay
  BY <1>1, <1>2 DEF RowsStay, Relabelled
<1>6. \A m \in Models : row[m] = NoRow => row'[m] = NoRow
  BY <1>1, NoRowOK DEF Relabelled
<1> QED BY <1>3, <1>4, <1>5, <1>6

(* A step of one call that takes no id and at most relabels rows.          *)
LEMMA PlainBase ==
    ASSUME Base, NEW c \in Calls, NEW q \in Call, Becomes(c, q), Relabelled, RestOK',
           UNCHANGED files, ~Pending(q) \/ (Pending(call[c]) /\ q.new = call[c].new),
           (\A m \in Models : row[m].state # "none" => row'[m].state # "none") => Held(q)'
    PROVE  Base'
<1>1. RowsStay /\ \A m \in Models : row[m] = NoRow => row'[m] = NoRow
  BY Relabelling
<1>2. Held(q)'
  BY <1>1 DEF RowsStay
<1>3. Pending(q) => \A d \in Calls \ {c} : Pending(call[d]) => call[d].new # q.new
  BY DEF Base, IdsApart
<1> QED BY <1>1, <1>2, <1>3, WriteBase

LEMMA GotoBase ==
    ASSUME Base, NEW c \in Calls, NEW ph \in Phases \ {"keep", "insert", "demote"}, Goto(c, ph), Busy(c),
           ph \in Path[call[c].op], Relabelled, RestOK', UNCHANGED files
    PROVE  Base'
<1>0. PICK q : q = [call[c] EXCEPT !.phase = ph]
  OBVIOUS
<1>1. call[c] \in Call /\ call \in [Calls -> Call]
  BY DEF Base, TypeOK
<1>2. /\ q \in Call /\ q.op = call[c].op /\ q.on = call[c].on /\ q.phase = ph /\ q.seen = call[c].seen
      /\ q.new = call[c].new
  BY <1>0, <1>1 DEF Call
<1>3. Becomes(c, q)
  BY <1>0, <1>1 DEF Goto, Becomes
<1>4. ~Pending(q)
  BY <1>2 DEF Pending
<1>5. /\ call[c].op # "list" => call[c].seen \in Row
      /\ call[c].on \in Keys /\ (call[c].on = List <=> call[c].op = "list")
      /\ call[c].op \notin {"upload", "list"} => row[call[c].on].state # "none"
  BY DEF Base, Held, Busy
<1>6. call[c].op \in AllOps
  BY <1>1 DEF Call
<1>7. (\A m \in Models : row[m].state # "none" => row'[m].state # "none") => Held(q)'
  BY <1>2, <1>4, <1>5, <1>6, OpsAre, Constants DEF Held, Pending
<1> QED BY <1>2, <1>3, <1>4, <1>7, PlainBase

(* A call that ends there.                                                 *)
LEMMA EndBase ==
    ASSUME Base, NEW c \in Calls, Becomes(c, IdleCall), Relabelled, RestOK', UNCHANGED files
    PROVE  Base'
  BY IdleOK, PlainBase

LEMMA RowsKept == ASSUME Base, UNCHANGED row PROVE Relabelled
  BY DEF Base, TypeOK, Relabelled, Stored

(* The rest, when its step is of no concern to anything but the calls.     *)
LEMMA RestKept ==
    ASSUME TypeOK, UNCHANGED <<row, files, bound, cache, history>>
    PROVE  RestOK'
  BY DEF TypeOK, RestOK, Stored, history

LEMMA FamilyIsStored == \A m : Family(m) \subseteq Stored /\ Stored \subseteq Models /\ Live \subseteq Stored
  BY DEF Family, Stored, Live

LEMMA BeginBase ==
    ASSUME Base, NEW c \in Calls, NEW op \in Ops, NEW k \in Keys, Begin(c, op, k)
    PROVE  Base'
<1> DEFINE others == IF op \in Writers THEN {d \in Calls \ {c} : Busy(d) /\ call[d].op \in Writers} ELSE {}
           first == CASE op = "upload" -> "insert" [] op \in {"bind", "permanent"} -> "load"
                      [] OTHER -> "find"
           q == [IdleCall EXCEPT !.op = op, !.on = k, !.phase = first,
                                 !.new = IF op = "upload" THEN k ELSE None, !.alone = others = {}]
<1>1. /\ call' = [d \in Calls |-> IF d = c THEN q ELSE [call[d] EXCEPT !.alone = @ /\ d \notin others]]
      /\ files' = IF op = "upload" THEN files \cup {k} ELSE files
      /\ IF op = "upload" THEN k \in Fresh ELSE IF op = "list" THEN k = List ELSE k \in Stored
      /\ made' = made + 1 /\ made < Requests
      /\ UNCHANGED <<row, bound, cache, tidy, raced, suspect, cut>>
  BY DEF Begin
<1>2. TypeOK /\ call \in [Calls -> Call] /\ op \in AllOps
  BY ModelsAssumption DEF Base, TypeOK
<1>3. first \in Phases /\ first \in Path[op]
  BY <1>2, Paths, OpsAre DEF Phases
<1>4. /\ q.op = op /\ q.on = k /\ q.phase = first /\ q.seen = NoRow
      /\ q.new = IF op = "upload" THEN k ELSE None
  BY DEF IdleCall
<1>5. op = "upload" => k \in Models /\ row[k] = NoRow /\ \A d \in Calls : call[d].new # k
  BY <1>1 DEF Fresh
<1>6. q \in Call
  <2>1. (op = "upload" => k \in Models) /\ (others = {}) \in BOOLEAN /\ IdleCall \in Call
    BY <1>5, IdleOK
  <2> HIDE DEF first, others
  <2> QED BY <1>2, <1>3, <2>1 DEF Call, IdleCall
<1>7. \A d \in Calls \ {c} : call'[d] \in Call /\ Same(call[d], call'[d])
  <2> SUFFICES ASSUME NEW d \in Calls \ {c} PROVE call'[d] \in Call /\ Same(call[d], call'[d])
    OBVIOUS
  <2> HIDE DEF q, others
  <2>1. call[d] \in Call /\ call'[d] = [call[d] EXCEPT !.alone = @ /\ d \notin others]
    BY <1>1, <1>2
  <2> QED BY <2>1 DEF Call, Same, Alike
<1>8. call'[c] = q
  BY <1>1
<1>9. call' \in [Calls -> Call]
  <2> HIDE DEF q, others
  <2>1. call' = [d \in Calls |-> call'[d]]
    BY <1>1
  <2> QED BY <1>6, <1>7, <1>8, <2>1
<1>10. Pending(q) <=> op = "upload"
  BY <1>2, <1>4, OpsAre DEF Pending
<1>11. (\A p : p = q => Held(p)')
  <2> SUFFICES ASSUME NEW p, p = q PROVE Held(p)'
    OBVIOUS
  <2>1. k = List <=> op = "list"
    BY <1>1, <1>5, Constants DEF Stored
  <2>2. op \notin {"upload", "list"} => row'[k].state # "none"
    BY <1>1 DEF Stored
  <2>3. op = "upload" => k \in files' /\ row'[k] = NoRow
    BY <1>1, <1>5
  <2>4. first # "keep" /\ first # "idle"
    OBVIOUS
  <2> HIDE DEF q, first
  <2>5. Held(p)' <=> /\ p \in Call
                     /\ p.phase # "idle" => p.phase \in Path[p.op] /\ p.on \in Keys /\ (p.on = List <=> p.op = "list")
                     /\ p.op # "list" => p.seen \in Row
                     /\ p.phase = "keep" /\ p.op # "list" => p.seen.state \in {"live", "deleted"}
                     /\ p.phase # "idle" /\ p.op \notin {"upload", "list"} => row'[p.on].state # "none"
                     /\ Pending(p) => p.new \in files' /\ row'[p.new] = NoRow
    BY DEF Held, Pending
  <2> QED BY <1>3, <1>4, <1>6, <1>10, <2>1, <2>2, <2>3, <2>4, <2>5, NoRowOK
<1>12. RestOK'
  <2>1. made' \in 0 .. Requests
    <3>1. made' = made + 1 /\ made < Requests
      BY <1>1
    <3>2. made \in 0 .. Requests /\ Requests \in Nat
      BY <1>2, ModelsAssumption DEF TypeOK
    <3> QED BY <3>1, <3>2
  <2>2. Stored' = Stored
    BY <1>1 DEF Stored
  <2>3. files' \subseteq Models
    BY <1>1, <1>2, <1>5 DEF TypeOK
  <2> QED BY <1>1, <1>2, <2>1, <2>2, <2>3 DEF RestOK, TypeOK
<1>13. RowsStay
  BY <1>1 DEF RowsStay
<1>14. \A d \in Calls \ {c} : Pending(call[d]) => call[d].new \in files' /\ row'[call[d].new] = NoRow
  BY <1>1 DEF Base, Held
<1>15. Pending(q) => \A d \in Calls \ {c} : Pending(call[d]) => call[d].new # q.new
  BY <1>4, <1>5, <1>10
<1> HIDE DEF q
<1> QED BY <1>7, <1>8, <1>9, <1>11, <1>12, <1>13, <1>14, <1>15, BaseStep

(* What findById gives, and where it leads.                                *)
Answer(q, v) ==
    /\ v \in Table \cup Row
    /\ q.op # "list" => v \in Row /\ v.state \in {"live", "deleted"}

LEMMA ViewOK ==
    ASSUME Base, NEW k \in Keys
    PROVE  /\ View(k) \in Table \cup Row
           /\ k # List => View(k) \in Row /\ View(k) = row[k] /\ k \in Models
  BY Constants DEF View, Base, TypeOK, Table

LEMMA ContinueBase ==
    ASSUME Base, NEW c \in Calls, NEW v, call[c].phase \in {"find", "keep"}, Answer(call[c], v),
           Continue(c, v), UNCHANGED <<row, files>>, RestOK'
    PROVE  Base'
<1>1. PICK p : p = AfterFind(call[c].op, v)
  OBVIOUS
<1>2. PICK q : q = IF p = "idle" THEN IdleCall ELSE [call[c] EXCEPT !.phase = p, !.seen = v]
  OBVIOUS
<1>3. TypeOK /\ call[c] \in Call /\ Held(call[c]) /\ Relabelled /\ call \in [Calls -> Call]
  BY RowsKept DEF Base, TypeOK
<1>4. Becomes(c, q)
  BY <1>1, <1>2, <1>3 DEF Continue, Becomes
<1>5. CASE p = "idle"
  BY <1>2, <1>3, <1>4, <1>5, EndBase
<1>6. CASE p # "idle"
  <2>1. /\ p \in {"number", "demote", "unbind", "unmark"} /\ p \in Path[call[c].op]
        /\ call[c].op \in {"version", "rollback", "remove", "restore"}
        /\ call[c].op = "version" => p = "number"
    BY <1>1, <1>6, Paths DEF AfterFind
  <2>2. /\ q \in Call /\ q.op = call[c].op /\ q.on = call[c].on /\ q.phase = p /\ q.seen = v
        /\ q.new = call[c].new
    BY <1>2, <1>3, <1>6, <2>1 DEF Call, Answer, Phases
  <2>3. ~Pending(q)
    BY <2>1, <2>2 DEF Pending
  <2>4. /\ call[c].on \in Keys /\ (call[c].on = List <=> call[c].op = "list")
        /\ row[call[c].on].state # "none"
    BY <1>3, <2>1 DEF Held
  <2>5. (\A m \in Models : row[m].state # "none" => row'[m].state # "none") => Held(q)'
    BY <2>1, <2>2, <2>3, <2>4 DEF Held, Pending, Answer
  <2> QED BY <1>3, <1>4, <2>2, <2>3, <2>5, PlainBase
<1> QED BY <1>5, <1>6

LEMMA FindCachedBase == ASSUME Base, NEW c \in Calls, FindCached(c) PROVE Base'
<1>1. PICK k : k = call[c].on
  OBVIOUS
<1>2. call[c].phase = "find" /\ cache[k] # None /\ Continue(c, cache[k]) /\ UNCHANGED <<row, files, bound, cache, history>>
  BY <1>1 DEF FindCached
<1>3. k \in Keys /\ (k = List <=> call[c].op = "list") /\ TypeOK
  BY <1>1, <1>2 DEF Base, Held
<1>4. Answer(call[c], cache[k])
  BY <1>2, <1>3, Constants DEF Answer, TypeOK
<1> QED BY <1>2, <1>3, <1>4, ContinueBase, RestKept

LEMMA FindStoredBase == ASSUME Base, NEW c \in Calls, FindStored(c) PROVE Base'
<1>1. PICK k : k = call[c].on
  OBVIOUS
<1>2. /\ call[c].phase = "find" /\ UNCHANGED <<row, files, bound, cache, history>>
      /\ call' = [call EXCEPT ![c] = IF Findable(c)
                    THEN [@ EXCEPT !.phase = "keep", !.seen = View(k), !.late = FALSE] ELSE IdleCall]
  BY <1>1 DEF FindStored
<1>3. TypeOK /\ call[c] \in Call /\ Held(call[c]) /\ Relabelled /\ RestOK' /\ call \in [Calls -> Call]
  BY <1>2, RowsKept, RestKept DEF Base, TypeOK
<1>4. CASE ~Findable(c)
  BY <1>2, <1>3, <1>4, EndBase DEF Becomes
<1>5. CASE Findable(c)
  <2>1. PICK q : q = [call[c] EXCEPT !.phase = "keep", !.seen = View(k), !.late = FALSE]
    OBVIOUS
  <2>2. k \in Keys /\ (k = List <=> call[c].op = "list") /\ call[c].op \in AllOps
    BY <1>1, <1>2, <1>3 DEF Held, Call
  <2>3. View(k) \in Table \cup Row /\ (k # List => View(k) \in Row /\ View(k) = row[k])
    BY <2>2, ViewOK
  <2>4. k # List => row[k].state \in {"live", "deleted"}
    BY <1>1, <1>5, Constants DEF Findable, Live, Stored
  <2>5. /\ q \in Call /\ q.op = call[c].op /\ q.on = k /\ q.phase = "keep" /\ q.seen = View(k)
    BY <1>1, <1>3, <2>1, <2>3 DEF Call, Phases
  <2>6. Becomes(c, q)
    BY <1>1, <1>2, <1>5, <2>1 DEF Becomes
  <2>7. ~Pending(q)
    BY <2>5 DEF Pending
  <2>8. "keep" \in Path[call[c].op]
    BY <1>2, <1>3, <2>2, Paths, OpsAre DEF Held
  <2>9. (\A m \in Models : row[m].state # "none" => row'[m].state # "none") => Held(q)'
    BY <1>2, <2>2, <2>3, <2>4, <2>5, <2>7, <2>8, Constants DEF Held, Pending
  <2> QED BY <1>2, <1>3, <2>5, <2>6, <2>7, <2>9, PlainBase
<1> QED BY <1>4, <1>5

LEMMA KeepBase == ASSUME Base, NEW c \in Calls, Keep(c) PROVE Base'
<1>1. PICK k : k = call[c].on
  OBVIOUS
<1>2. /\ call[c].phase = "keep" /\ UNCHANGED <<row, files, bound, tidy, raced, cut, made>>
      /\ cache' = [cache EXCEPT ![k] = call[c].seen]
      /\ suspect' = IF call[c].late THEN suspect \cup {k} ELSE suspect \ {k}
      /\ Continue(c, call[c].seen)
  BY <1>1 DEF Keep
<1>3. TypeOK /\ call[c] \in Call /\ Held(call[c])
  BY DEF Base, TypeOK
<1>4. k \in Keys /\ (k = List <=> call[c].op = "list") /\ Answer(call[c], call[c].seen)
  BY <1>1, <1>2, <1>3 DEF Held, Call, Answer
<1>5. /\ cache' \in [Keys -> Table \cup Row \cup {None}]
      /\ \A m \in Models : cache'[m] # None => cache'[m] \in Row /\ cache'[m].state \in {"live", "deleted"}
  BY <1>2, <1>3, <1>4, Constants DEF TypeOK, Answer
<1>6. RestOK'
  BY <1>2, <1>3, <1>4, <1>5 DEF RestOK, TypeOK, Stored
<1> QED BY <1>2, <1>4, <1>6, ContinueBase

LEMMA ClearedOK ==
    ASSUME cache' = Cleared
    PROVE  /\ cache' \in [Keys -> Table \cup Row \cup {None}]
           /\ \A k \in Keys : cache'[k] = None
  BY DEF Cleared

LEMMA InvalidateBase == ASSUME Base, NEW c \in Calls, Invalidate(c) PROVE Base'
<1>1. /\ cache' = Cleared /\ suspect' \subseteq suspect /\ Becomes(c, IdleCall)
      /\ UNCHANGED <<row, files, bound, tidy, raced, cut, made>>
  BY DEF Invalidate, Becomes
<1>2. RestOK'
  BY <1>1, ClearedOK, Constants DEF Base, TypeOK, RestOK, Stored
<1> QED BY <1>1, <1>2, EndBase, RowsKept

-----------------------------------------------------------------------------
LEMMA UnsetRelabels ==
    ASSUME Base, NEW S, S \subseteq Stored, row' = Unset(S)
    PROVE  Relabelled
<1>1. \A m \in Models : row[m] \in Row /\ (m \in Stored => row[m].state \in {"live", "deleted"})
  BY DEF Base, TypeOK, Table, Stored
<1>2. \A m \in Models : row'[m] = IF m \in S THEN [row[m] EXCEPT !.latest = FALSE] ELSE row[m]
  BY DEF Unset
<1>3. ASSUME NEW m \in Models, NEW r \in Row, r = row[m]
      PROVE  /\ row'[m] \in Row /\ row'[m].version = r.version /\ row'[m].parent = r.parent
             /\ row'[m].state = r.state
  <2>1. row'[m] = IF m \in S THEN [r EXCEPT !.latest = FALSE] ELSE r
    BY <1>2, <1>3
  <2> QED BY <2>1 DEF Row
<1>4. row' \in Table
  BY <1>1, <1>3 DEF Unset, Table
<1>5. \A m \in Models : /\ row'[m].version = row[m].version /\ row'[m].parent = row[m].parent
                        /\ row'[m].state = row[m].state
  BY <1>1, <1>3
<1>6. \A m \in Models \ Stored : row'[m] = row[m]
  BY <1>2
<1> QED BY <1>1, <1>4, <1>5, <1>6 DEF Relabelled

LEMMA OneRelabelled ==
    ASSUME Base, NEW m \in Stored, NEW l \in BOOLEAN, NEW s \in {"live", "deleted"},
           row' = [row EXCEPT ![m].latest = l] \/ row' = [row EXCEPT ![m].state = s, ![m].latest = l]
    PROVE  Relabelled
<1>1. /\ \A n \in Models : row[n] \in Row /\ (n \in Stored => row[n].state \in {"live", "deleted"})
      /\ row \in [Models -> Row] /\ m \in Models
  BY DEF Base, TypeOK, Table, Stored
<1>2. PICK r \in Row : /\ row' = [row EXCEPT ![m] = r] /\ r.state \in {"live", "deleted"}
                       /\ r.version = row[m].version /\ r.parent = row[m].parent
  <2>1. PICK r \in Row : r = row[m]
    BY <1>1
  <2>2. PICK x : x = IF row' = [row EXCEPT ![m].latest = l] THEN [r EXCEPT !.latest = l]
                     ELSE [r EXCEPT !.state = s, !.latest = l]
    OBVIOUS
  <2>3. row' = [row EXCEPT ![m] = x]
    BY <1>1, <2>1, <2>2
  <2>4. r.state \in {"live", "deleted"}
    BY <1>1, <2>1
  <2>5. x \in Row /\ x.state \in {"live", "deleted"} /\ x.version = r.version /\ x.parent = r.parent
    BY <2>2, <2>4 DEF Row
  <2> QED BY <2>1, <2>3, <2>5
<1> QED BY <1>1, <1>2 DEF Relabelled, Table

LEMMA RootStored == \A m : Demotable(m) \subseteq Stored
  BY DEF Demotable, Latest, Family

LEMMA RestWritten ==
    ASSUME Base, Relabelled, UNCHANGED <<files, cache, made, suspect, cut>>,
           bound' \subseteq bound, tidy' \subseteq Models, raced' \subseteq Models
    PROVE  RestOK'
  BY Relabelling DEF Base, TypeOK, RestOK, Relabelled

LEMMA DemoteAllBase ==
    ASSUME Base, NEW c \in Calls, DemoteAll(c)
    PROVE  Relabelled /\ Base'
<1>1. Relabelled
  BY UnsetRelabels, RootStored DEF DemoteAll
<1>2. RestOK'
  BY <1>1, RestWritten DEF DemoteAll, history, Base, TypeOK
<1>3. Goto(c, "promote") /\ Busy(c) /\ "promote" \in Path[call[c].op] /\ UNCHANGED files
  BY Paths DEF DemoteAll, At, Busy
<1> QED BY <1>1, <1>2, <1>3, GotoBase DEF Phases

LEMMA SettleOK ==
    ASSUME Base, NEW c \in Calls, NEW good, tidy' = tidy \cup good \/ tidy' = tidy \ Kin(call[c].on),
           good \subseteq Models
    PROVE  tidy' \subseteq Models
  BY DEF Base, TypeOK

LEMMA PromoteBase ==
    ASSUME Base, NEW c \in Calls, Promote(c)
    PROVE  Relabelled /\ Base'
<1>1. PICK m : m = call[c].on
  OBVIOUS
<1>2. /\ At(c, "rollback", "promote") /\ m \in Stored /\ row' = [row EXCEPT ![m].latest = TRUE]
      /\ Goto(c, "invalidate") /\ UNCHANGED <<files, bound, cache, made, raced, suspect, cut>>
  BY <1>1 DEF Promote
<1>3. Relabelled
  BY <1>2, OneRelabelled
<1>4. PICK root : root = RootOf(call[c].seen, m)
  OBVIOUS
<1>5. root \in Models
  <2>1. call[c].seen \in Row
    BY <1>2 DEF Base, Held, At
  <2> QED BY <1>2, <1>4, <2>1, FamilyIsStored DEF RootOf, Row
<1>6. tidy' = tidy \cup {root} \/ tidy' = tidy \ Kin(call[c].on)
  BY <1>1, <1>4 DEF Promote, Settle
<1>7. tidy' \subseteq Models
  BY <1>5, <1>6, SettleOK
<1>8. RestOK'
  BY <1>2, <1>3, <1>7, RestWritten DEF Base, TypeOK
<1>9. Busy(c) /\ "invalidate" \in Path[call[c].op]
  BY <1>2, Paths DEF At, Busy
<1> QED BY <1>2, <1>3, <1>8, <1>9, GotoBase DEF Phases

LEMMA UnbindBase ==
    ASSUME Base, NEW c \in Calls, Unbind(c)
    PROVE  Base'
<1>1. /\ call[c].phase = "unbind" /\ bound' \subseteq bound /\ UNCHANGED <<row, files, cache, history>>
      /\ Goto(c, IF call[c].op = "remove" THEN "mark" ELSE "unlink")
  BY DEF Unbind
<1>2. Relabelled
  BY <1>1, RowsKept
<1>3. RestOK'
  BY <1>1, <1>2, RestWritten DEF history, Base, TypeOK
<1>4. Held(call[c]) /\ call[c].op \in AllOps
  BY DEF Base, TypeOK, Call
<1>5. call[c].op \in {"remove", "permanent"}
  BY <1>1, <1>4, OpsAre, Paths DEF Held
<1>6. CASE call[c].op = "remove"
  BY <1>1, <1>2, <1>3, <1>6, GotoBase, Paths DEF Busy, Phases
<1>7. CASE call[c].op = "permanent"
  BY <1>1, <1>2, <1>3, <1>7, GotoBase, Paths DEF Busy, Phases
<1> QED BY <1>5, <1>6, <1>7

LEMMA MarkBase ==
    ASSUME Base, NEW c \in Calls, Mark(c)
    PROVE  Relabelled /\ Base'
<1>1. PICK m : m = call[c].on
  OBVIOUS
<1>2. PICK ph : ph = IF row[m].parent = None THEN "invalidate" ELSE "heir"
  OBVIOUS
<1>3. PICK q : q = [call[c] EXCEPT !.phase = ph, !.seen = row[m]]
  OBVIOUS
<1>4. /\ At(c, "remove", "mark") /\ m \in Stored
      /\ row' = [row EXCEPT ![m].state = "deleted", ![m].latest = FALSE]
      /\ call' = [call EXCEPT ![c].phase = ph, ![c].seen = row[m]]
      /\ UNCHANGED <<files, bound, cache, made, raced, suspect, cut>>
  BY <1>1, <1>2 DEF Mark
<1>5. tidy' = tidy \cup {} \/ tidy' = tidy \ Kin(call[c].on)
  BY <1>1 DEF Mark, Settle
<1>6. Relabelled
  BY <1>4, OneRelabelled
<1>7. RestOK'
  BY <1>4, <1>5, <1>6, SettleOK, RestWritten DEF Base, TypeOK
<1>8. call[c] \in Call /\ call \in [Calls -> Call] /\ Held(call[c]) /\ row[m] \in Row
  BY <1>4 DEF Base, TypeOK, Table, Stored
<1>9. ph \in Phases /\ ph \in Path["remove"] /\ ph \notin {"keep", "insert", "demote", "idle"}
  BY <1>2, Paths DEF Phases
<1>10. /\ q \in Call /\ q.op = "remove" /\ q.on = m /\ q.phase = ph /\ q.seen = row[m]
  BY <1>1, <1>3, <1>4, <1>8, <1>9 DEF Call, At
<1>11. call' = [call EXCEPT ![c] = q]
  BY <1>3, <1>4, <1>8
<1>12. ~Pending(q)
  BY <1>9, <1>10 DEF Pending
<1>13. m \in Keys /\ m # List /\ row[m].state # "none"
  BY <1>4, Constants DEF Stored
<1>14. (\A n \in Models : row[n].state # "none" => row'[n].state # "none") => Held(q)'
  BY <1>4, <1>8, <1>9, <1>10, <1>12, <1>13, FamilyIsStored DEF Held, Pending
<1> QED BY <1>4, <1>6, <1>7, <1>10, <1>11, <1>12, <1>14, PlainBase DEF Becomes

LEMMA InheritBase ==
    ASSUME Base, NEW c \in Calls, Inherit(c)
    PROVE  Relabelled /\ Base'
<1>1. PICK p : p = call[c].seen.parent
  OBVIOUS
<1>2. /\ At(c, "remove", "heir") /\ row' = IF p \in Live THEN [row EXCEPT ![p].latest = TRUE] ELSE row
      /\ Goto(c, "invalidate") /\ UNCHANGED <<files, bound, cache, made, raced, suspect, cut>>
      /\ tidy' = tidy \cup {} \/ tidy' = tidy \ Kin(call[c].on)
  BY <1>1 DEF Inherit, Settle
<1>3. Relabelled
  BY <1>2, OneRelabelled, RowsKept, FamilyIsStored
<1>4. RestOK'
  BY <1>2, <1>3, SettleOK, RestWritten DEF Base, TypeOK
<1>5. Busy(c) /\ "invalidate" \in Path[call[c].op]
  BY <1>2, Paths DEF At, Busy
<1> QED BY <1>2, <1>3, <1>4, <1>5, GotoBase DEF Phases

LEMMA UnmarkBase ==
    ASSUME Base, NEW c \in Calls, Unmark(c)
    PROVE  Relabelled /\ Base'
<1>1. PICK m : m = call[c].on
  OBVIOUS
<1>2. PICK ph : ph = IF call[c].seen.parent = None THEN "invalidate" ELSE "siblings"
  OBVIOUS
<1>3. /\ At(c, "restore", "unmark") /\ m \in Stored
      /\ row' = [row EXCEPT ![m].state = "live", ![m].latest = TRUE]
      /\ Goto(c, ph) /\ UNCHANGED <<files, bound, cache, made, raced, suspect, cut>>
      /\ tidy' = tidy \cup {} \/ tidy' = tidy \ Kin(call[c].on)
  BY <1>1, <1>2 DEF Unmark, Settle
<1>4. Relabelled
  BY <1>3, OneRelabelled
<1>5. RestOK'
  BY <1>3, <1>4, SettleOK, RestWritten DEF Base, TypeOK
<1>6. Busy(c) /\ ph \in Path[call[c].op] /\ ph \in Phases \ {"keep", "insert", "demote"}
  BY <1>2, <1>3, Paths DEF At, Busy, Phases
<1> QED BY <1>3, <1>4, <1>5, <1>6, GotoBase

LEMMA DemoteSiblingsBase ==
    ASSUME Base, NEW c \in Calls, DemoteSiblings(c)
    PROVE  Relabelled /\ Base'
<1>1. PICK S : S = {n \in Live \ {call[c].on} : row[n].parent = call[c].seen.parent}
  OBVIOUS
<1>2. /\ At(c, "restore", "siblings") /\ row' = Unset(S)
      /\ Goto(c, "invalidate") /\ UNCHANGED <<files, bound, cache, made, raced, suspect, cut>>
      /\ tidy' = tidy \cup {} \/ tidy' = tidy \ Kin(call[c].on)
  BY <1>1 DEF DemoteSiblings, Settle
<1>3. Relabelled
  BY <1>1, <1>2, UnsetRelabels, FamilyIsStored
<1>4. RestOK'
  BY <1>2, <1>3, SettleOK, RestWritten DEF Base, TypeOK
<1>5. Busy(c) /\ "invalidate" \in Path[call[c].op]
  BY <1>2, Paths DEF At, Busy
<1> QED BY <1>2, <1>3, <1>4, <1>5, GotoBase DEF Phases

-----------------------------------------------------------------------------
LEMMA NumberBase == ASSUME Base, NEW c \in Calls, Number(c) PROVE Base'
<1>1. PICK m \in Fresh, n \in NextNumber(call[c].on) :
        /\ files' = files \cup {m}
        /\ call' = [call EXCEPT ![c].phase = "demote", ![c].new = m, ![c].next = n]
  BY DEF Number
<1>2. At(c, "version", "number") /\ UNCHANGED <<row, bound, cache, history>>
  BY DEF Number
<1>3. TypeOK /\ call[c] \in Call /\ Held(call[c]) /\ call \in [Calls -> Call]
  BY DEF Base, TypeOK
<1>4. m \in Models /\ row[m] = NoRow /\ \A d \in Calls : call[d].new # m
  BY <1>1 DEF Fresh
<1>5. n \in Nat
  <2>1. \A o \in Models : row[o].version \in Nat
    BY <1>3 DEF TypeOK, Table, Row
  <2>2. PICK v \in {1} \cup {row[o].version : o \in Family(call[c].on)} : n = v + 1
    BY <1>1 DEF NextNumber
  <2>3. v \in Nat
    BY <2>1, <2>2, FamilyIsStored
  <2> QED BY <2>2, <2>3
<1>6. PICK q : q = [call[c] EXCEPT !.phase = "demote", !.new = m, !.next = n]
  OBVIOUS
<1>7. call' = [call EXCEPT ![c] = q]
  BY <1>1, <1>3, <1>6
<1>8. /\ q \in Call /\ q.op = "version" /\ q.on = call[c].on /\ q.phase = "demote"
      /\ q.seen = call[c].seen /\ q.new = m
  BY <1>2, <1>3, <1>4, <1>5, <1>6 DEF Call, At, Phases
<1>9. Held(q)'
  <2>1. call[c].on \in Keys /\ call[c].on # List /\ row[call[c].on].state # "none" /\ call[c].seen \in Row
    BY <1>2, <1>3 DEF Held, At
  <2>2. row' = row /\ m \in files'
    BY <1>1, <1>2
  <2> QED BY <1>4, <1>8, <2>1, <2>2, Paths DEF Held, Pending
<1>10. RestOK'
  BY <1>1, <1>2, <1>3, <1>4 DEF RestOK, TypeOK, Stored, history
<1>11. RowsStay /\ files \subseteq files' /\ \A o \in Models : row[o] = NoRow => row'[o] = NoRow
  BY <1>1, <1>2 DEF RowsStay
<1>12. \A d \in Calls \ {c} : call[d].new # q.new
  BY <1>4, <1>8
<1> QED BY <1>7, <1>8, <1>9, <1>10, <1>11, <1>12, WriteBase DEF Becomes

LEMMA DemoteBase == ASSUME Base, NEW c \in Calls, Demote(c) PROVE Base'
<1>1. At(c, "version", "demote") /\ UNCHANGED <<row, files, bound, cache, history>>
  BY DEF Demote
<1>2. TypeOK /\ call[c] \in Call /\ Held(call[c]) /\ call \in [Calls -> Call]
  BY DEF Base, TypeOK
<1>3. PICK q : q = [call[c] EXCEPT !.phase = "insert", !.hit = Demotable(call[c].on)]
  OBVIOUS
<1>4. call' = [call EXCEPT ![c] = q]
  BY <1>2, <1>3 DEF Demote
<1>5. Demotable(call[c].on) \subseteq Models
  BY RootStored, FamilyIsStored
<1>6. /\ q \in Call /\ q.op = "version" /\ q.on = call[c].on /\ q.phase = "insert"
      /\ q.seen = call[c].seen /\ q.new = call[c].new
  BY <1>1, <1>2, <1>3, <1>5 DEF Call, At, Phases
<1>7. Pending(call[c])
  BY <1>1 DEF Pending, At
<1>8. Held(q)'
  <2>1. /\ call[c].on \in Keys /\ call[c].on # List /\ row[call[c].on].state # "none"
        /\ call[c].seen \in Row /\ call[c].new \in files /\ row[call[c].new] = NoRow
    BY <1>1, <1>2, <1>7 DEF Held, At
  <2>2. row' = row /\ files' = files
    BY <1>1
  <2> QED BY <1>6, <2>1, <2>2, Paths DEF Held, Pending
<1>9. RestOK' /\ Relabelled
  BY <1>1, <1>2, RestKept, RowsKept
<1> QED BY <1>1, <1>4, <1>6, <1>7, <1>8, <1>9, PlainBase DEF Becomes

(* What an insertion does to the rows.                                     *)
LEMMA Inserted ==
    ASSUME Base, NEW m \in Models, row[m] = NoRow, NEW S, S \subseteq Stored, NEW r \in Row, r.state = "live",
           row' = [Unset(S) EXCEPT ![m] = r]
    PROVE  /\ row' \in Table /\ RowsStay /\ m \notin Stored /\ Stored' = Stored \cup {m} /\ row'[m] = r
           /\ \A n \in Models \ {m} :
                /\ row'[n].version = row[n].version /\ row'[n].parent = row[n].parent
                /\ row[n] = NoRow => row'[n] = NoRow
<1>1. \A n \in Models : row[n] \in Row /\ (n \in Stored <=> row[n].state \in {"live", "deleted"})
  BY DEF Base, TypeOK, Table, Stored
<1>2. row'[m] = r /\ m \notin Stored
  BY <1>1, NoRowOK DEF Unset
<1>3. \A n \in Models \ {m} : row'[n] = IF n \in S THEN [row[n] EXCEPT !.latest = FALSE] ELSE row[n]
  BY DEF Unset
<1>4. ASSUME NEW n \in Models \ {m}, NEW s \in Row, s = row[n]
      PROVE  /\ row'[n] \in Row /\ row'[n].version = s.version /\ row'[n].parent = s.parent
             /\ row'[n].state = s.state
  <2>1. PICK x : x = [s EXCEPT !.latest = FALSE]
    OBVIOUS
  <2>2. x \in Row /\ x.version = s.version /\ x.parent = s.parent /\ x.state = s.state
    BY <2>1 DEF Row
  <2>3. row'[n] = IF n \in S THEN x ELSE s
    BY <1>3, <1>4, <2>1
  <2> QED BY <2>2, <2>3
<1>5. \A n \in Models \ {m} : /\ row'[n] \in Row /\ row'[n].version = row[n].version
                              /\ row'[n].parent = row[n].parent /\ row'[n].state = row[n].state
  BY <1>1, <1>4
<1>6. row' \in Table
  BY <1>2, <1>5 DEF Unset, Table
<1>7. Stored' = Stored \cup {m}
  BY <1>1, <1>2, <1>5 DEF Stored
<1>8. RowsStay
  BY <1>2, <1>5, NoRowOK DEF RowsStay
<1>9. \A n \in Models \ {m} : row[n] = NoRow => row'[n] = NoRow
  BY <1>1, <1>3, NoRowOK
<1> QED BY <1>2, <1>5, <1>6, <1>7, <1>8, <1>9

LEMMA InsertBase ==
    ASSUME Base, NEW c \in Calls, call[c].phase = "insert", NEW S, S \subseteq Stored, NEW r \in Row,
           r.state = "live", row' = [Unset(S) EXCEPT ![call[c].new] = r], Goto(c, "invalidate"),
           UNCHANGED <<files, bound, cache, made, suspect, cut>>,
           tidy' \subseteq Models, raced' \subseteq Models
    PROVE  Base'
<1>1. PICK m : m = call[c].new
  OBVIOUS
<1>2. TypeOK /\ call[c] \in Call /\ Held(call[c]) /\ Pending(call[c]) /\ call \in [Calls -> Call]
  BY DEF Base, TypeOK, Pending
<1>3. m \in Models /\ row[m] = NoRow
  BY <1>1, <1>2 DEF Held, TypeOK
<1>4. /\ row' \in Table /\ RowsStay /\ Stored' = Stored \cup {m}
      /\ \A n \in Models \ {m} : row[n] = NoRow => row'[n] = NoRow
  BY <1>1, <1>3, Inserted
<1>5. RestOK'
  BY <1>2, <1>4 DEF TypeOK, RestOK
<1>6. PICK q : q = [call[c] EXCEPT !.phase = "invalidate"]
  OBVIOUS
<1>7. call' = [call EXCEPT ![c] = q]
  BY <1>2, <1>6 DEF Goto
<1>8. /\ q \in Call /\ q.op = call[c].op /\ q.on = call[c].on /\ q.phase = "invalidate"
      /\ q.seen = call[c].seen /\ q.op \in AllOps
  BY <1>2, <1>6 DEF Call, Phases
<1>9. ~Pending(q)
  BY <1>8 DEF Pending
<1>10. /\ q.op \in {"upload", "version"} /\ q.on \in Keys /\ q.on # List /\ q.seen \in Row
       /\ q.op # "upload" => row[q.on].state # "none"
  BY <1>2, <1>8, OpsAre, Paths DEF Held
<1>11. Held(q)'
  BY <1>4, <1>8, <1>9, <1>10, Paths, Constants DEF Held, Pending, RowsStay
<1> QED BY <1>1, <1>2, <1>4, <1>5, <1>7, <1>8, <1>9, <1>11, WriteBase DEF Becomes

LEMMA InsertFirstBase == ASSUME Base, NEW c \in Calls, InsertFirst(c) PROVE Base'
<1>1. PICK m : m = call[c].new
  OBVIOUS
<1>2. /\ call[c].phase = "insert" /\ row' = [row EXCEPT ![m] = FirstVersion] /\ Goto(c, "invalidate")
      /\ tidy' = tidy \cup {m} /\ UNCHANGED <<files, bound, cache, made, raced, suspect, cut>>
  BY <1>1 DEF InsertFirst, At
<1>3. FirstVersion \in Row /\ FirstVersion.state = "live"
  BY DEF FirstVersion, Row
<1>4. Unset({}) = row
  BY DEF Unset, Base, TypeOK, Table
<1>5. m \in Models /\ tidy \subseteq Models /\ raced' \subseteq Models
  BY <1>1, <1>2 DEF Base, Held, Pending, TypeOK
<1> QED BY <1>1, <1>2, <1>3, <1>4, <1>5, InsertBase

(* The row of a new version.                                               *)
LEMMA VersionRow ==
    ASSUME Base, NEW c \in Calls, InsertVersion(c)
    PROVE  \E r \in Row, S \in SUBSET Stored :
             /\ r.state = "live" /\ r.version = call[c].next /\ r.parent = call[c].on
             /\ row' = [Unset(S) EXCEPT ![call[c].new] = r]
<1>1. call[c] \in Call /\ call[c].on \in Stored
  BY DEF Base, TypeOK, InsertVersion
<1>2. PICK r : r = [state |-> "live", version |-> call[c].next, latest |-> TRUE, parent |-> call[c].on]
  OBVIOUS
<1>3. r \in Row
  BY <1>1, <1>2, FamilyIsStored DEF Row, Call
<1>4. row' = [Unset(call[c].hit \cap Stored) EXCEPT ![call[c].new] = r]
  BY <1>2 DEF InsertVersion
<1> QED BY <1>2, <1>3, <1>4

LEMMA InsertVersionBase == ASSUME Base, NEW c \in Calls, InsertVersion(c) PROVE Base'
<1>1. PICK r \in Row, S \in SUBSET Stored : r.state = "live" /\ row' = [Unset(S) EXCEPT ![call[c].new] = r]
  BY VersionRow
<1>2. /\ call[c].phase = "insert" /\ call[c].on \in Models /\ Goto(c, "invalidate")
      /\ UNCHANGED <<files, bound, cache, made, suspect, cut>>
  BY FamilyIsStored DEF InsertVersion, At
<1>3. tidy' = tidy \cup {} \/ tidy' = tidy \ Kin(call[c].on)
  BY DEF InsertVersion, Settle
<1>4. tidy' \subseteq Models
  BY <1>3 DEF Base, TypeOK
<1>5. raced' \subseteq Models
  BY <1>2 DEF InsertVersion, Base, TypeOK
<1> QED BY <1>1, <1>2, <1>4, <1>5, InsertBase

-----------------------------------------------------------------------------
LEMMA LoadBase == ASSUME Base, NEW c \in Calls, Load(c) PROVE Base'
<1>1. /\ call[c].phase = "load" /\ UNCHANGED <<row, files, bound, cache, history>>
      /\ \/ call' = [call EXCEPT ![c] = IdleCall]
         \/ call[c].op = "bind" /\ Goto(c, "bind")
         \/ call[c].op # "bind" /\ Goto(c, "unbind")
  BY DEF Load
<1>2. RestOK' /\ Relabelled
  BY <1>1, RestKept, RowsKept DEF Base
<1>3. call[c].op \in {"bind", "permanent"}
  BY <1>1, OpsAre, Paths DEF Base, TypeOK, Call, Held
<1>4. CASE call' = [call EXCEPT ![c] = IdleCall]
  BY <1>1, <1>2, <1>4, EndBase DEF Becomes
<1>5. CASE call[c].op = "bind" /\ Goto(c, "bind")
  BY <1>1, <1>2, <1>5, GotoBase, Paths DEF Busy, Phases
<1>6. CASE call[c].op = "permanent" /\ Goto(c, "unbind")
  BY <1>1, <1>2, <1>6, GotoBase, Paths DEF Busy, Phases
<1> QED BY <1>1, <1>3, <1>4, <1>5, <1>6

LEMMA BindBase == ASSUME Base, NEW c \in Calls, Bind(c) PROVE Base'
<1>1. /\ call[c].on \in Stored /\ bound' = bound \cup {call[c].on} /\ Becomes(c, IdleCall)
      /\ UNCHANGED <<row, files, cache, history>>
  BY DEF Bind, Becomes
<1>2. RestOK'
  BY <1>1 DEF Base, TypeOK, RestOK, Stored, history
<1> QED BY <1>1, <1>2, EndBase, RowsKept

LEMMA UnlinkBase == ASSUME Base, NEW c \in Calls, Unlink(c) PROVE Base'
<1>1. /\ At(c, "permanent", "unlink") /\ files' \in {files, files \ {call[c].on}}
      /\ cache' = Cleared /\ suspect' = {} /\ call' = Late([call EXCEPT ![c].phase = "delete"])
      /\ UNCHANGED <<row, bound, tidy, raced, cut, made>>
  BY DEF Unlink
<1>2. TypeOK /\ call[c] \in Call /\ Held(call[c]) /\ call \in [Calls -> Call]
  BY DEF Base, TypeOK
<1>3. PICK q : q = [call[c] EXCEPT !.phase = "delete"]
  OBVIOUS
<1>4. Becomes(c, q)
  BY <1>1, <1>2, <1>3 DEF Becomes
<1>5. /\ q \in Call /\ q.op = "permanent" /\ q.on = call[c].on /\ q.phase = "delete"
      /\ q.seen = call[c].seen /\ q.new = call[c].new
  BY <1>1, <1>2, <1>3 DEF Call, At, Phases
<1>6. ~Pending(q)
  BY <1>5 DEF Pending
<1>7. Held(q)'
  <2>1. call[c].on \in Keys /\ call[c].on # List /\ row'[call[c].on].state # "none" /\ call[c].seen \in Row
    BY <1>1, <1>2 DEF Held, At
  <2> QED BY <1>5, <1>6, <2>1, Paths DEF Held, Pending
<1>8. RestOK'
  BY <1>1, <1>2, ClearedOK, Constants DEF TypeOK, RestOK, Stored
<1>9. /\ call' \in [Calls -> Call]
      /\ \A d \in Calls \ {c} : Same(call[d], call'[d])
      /\ Alike(q, call'[c])
  BY <1>2, <1>4, <1>5, Becoming
<1>10. ASSUME NEW r, r = call'[c] PROVE Held(r)' /\ ~Pending(r)
  <2>1. /\ r \in Call /\ r.op = q.op /\ r.on = q.on /\ r.phase = q.phase /\ r.seen = q.seen
        /\ r.new = q.new
    BY <1>9, <1>10 DEF Alike
  <2> QED BY <1>6, <1>7, <2>1 DEF Held, Pending
<1>11. \A d \in Calls \ {c} : Pending(call[d]) => call[d].new \in files' /\ row'[call[d].new] = NoRow
  <2> SUFFICES ASSUME NEW d \in Calls \ {c}, Pending(call[d])
               PROVE  call[d].new \in files' /\ row'[call[d].new] = NoRow
    OBVIOUS
  <2>1. call[d].new \in files /\ row[call[d].new] = NoRow
    BY DEF Base, Held
  <2>2. row[call[c].on] # NoRow
    BY <1>1, <1>2, NoRowOK DEF Held, At
  <2> QED BY <1>1, <2>1, <2>2
<1>12. RowsStay
  BY <1>1 DEF RowsStay
<1> QED BY <1>8, <1>9, <1>10, <1>11, <1>12, BaseStep

(* What a deletion does to the rows.                                       *)
LEMMA Deleted ==
    ASSUME Base, NEW m \in Stored,
           row' = [n \in Models |->
             IF n = m THEN [NoRow EXCEPT !.state = "gone"]
             ELSE IF row[n].parent = m THEN [row[n] EXCEPT !.parent = None] ELSE row[n]]
    PROVE  /\ row' \in Table /\ RowsStay /\ Stored' = Stored \ {m}
           /\ \A n \in Models : row[n] = NoRow => row'[n] = NoRow
           /\ \A n \in Models \ {m} :
                /\ row'[n].version = row[n].version
                /\ row'[n].parent = IF row[n].parent = m THEN None ELSE row[n].parent
<1>1. \A n \in Models : row[n] \in Row /\ (n \in Stored <=> row[n].state \in {"live", "deleted"})
  BY DEF Base, TypeOK, Table, Stored
<1>2. m \in Models /\ m # None
  BY FamilyIsStored, Constants
<1>3. row'[m] \in Row /\ row'[m].state = "gone" /\ row[m] # NoRow
  BY <1>1, <1>2, NoRowOK DEF NoRow, Row
<1>4. ASSUME NEW n \in Models \ {m}, NEW s \in Row, s = row[n]
      PROVE  /\ row'[n] \in Row /\ row'[n].version = s.version /\ row'[n].state = s.state
             /\ row'[n].parent = IF s.parent = m THEN None ELSE s.parent
             /\ s = NoRow => row'[n] = NoRow
  <2>1. PICK x : x = [s EXCEPT !.parent = None]
    OBVIOUS
  <2>2. x \in Row /\ x.version = s.version /\ x.parent = None /\ x.state = s.state
    BY <2>1 DEF Row
  <2>3. row'[n] = IF s.parent = m THEN x ELSE s
    BY <1>4, <2>1
  <2>4. s = NoRow => s.parent # m
    BY <1>2 DEF NoRow
  <2> QED BY <2>2, <2>3, <2>4
<1>5. \A n \in Models \ {m} :
        /\ row'[n] \in Row /\ row'[n].version = row[n].version /\ row'[n].state = row[n].state
        /\ row'[n].parent = IF row[n].parent = m THEN None ELSE row[n].parent
        /\ row[n] = NoRow => row'[n] = NoRow
  BY <1>1, <1>4
<1>6. row' \in Table
  <2>1. row' = [n \in Models |-> row'[n]]
    OBVIOUS
  <2> QED BY <1>3, <1>5, <2>1 DEF Table
<1>7. Stored' = Stored \ {m}
  BY <1>1, <1>3, <1>5 DEF Stored
<1>8. RowsStay
  BY <1>3, <1>5 DEF RowsStay
<1> QED BY <1>3, <1>5, <1>6, <1>7, <1>8

LEMMA DeleteBase == ASSUME Base, NEW c \in Calls, Delete(c) PROVE Base'
<1>1. PICK m : m = call[c].on
  OBVIOUS
<1>2. /\ m \in Stored /\ bound' = bound \ {m} /\ suspect' = suspect \cup {k \in Keys : cache[k] # None}
      /\ call' = Late([call EXCEPT ![c] = IdleCall]) /\ UNCHANGED <<files, cache, made, raced, cut>>
      /\ row' = [n \in Models |->
             IF n = m THEN [NoRow EXCEPT !.state = "gone"]
             ELSE IF row[n].parent = m THEN [row[n] EXCEPT !.parent = None] ELSE row[n]]
  BY <1>1 DEF Delete, Doubt
<1>3. tidy' = tidy \cup {} \/ tidy' = tidy \ Kin(call[c].on)
  BY DEF Delete, Settle
<1>4. /\ row' \in Table /\ RowsStay /\ Stored' = Stored \ {m}
      /\ \A n \in Models : row[n] = NoRow => row'[n] = NoRow
  BY <1>2, Deleted
<1>5. RestOK'
  BY <1>2, <1>3, <1>4 DEF RestOK, TypeOK, Base
<1> QED BY <1>2, <1>4, <1>5, IdleOK, WriteBase DEF Becomes

LEMMA FailBase == ASSUME Base, NEW c \in Calls, Fail(c) PROVE Base'
<1>1. /\ Becomes(c, IdleCall) /\ UNCHANGED <<row, files, bound, cache, made, raced>>
      /\ suspect' \in {suspect, suspect \cup {k \in Keys : cache[k] # None}}
      /\ tidy' \in {tidy, tidy \cup {}, tidy \ Kin(call[c].on)}
  BY DEF Fail, Becomes, Doubt, Settle
<1>2. cut' \subseteq Models
  <2>1. cut' \in {cut, cut \cup {call[c].on}} /\ (cut' # cut => At(c, "permanent", "delete"))
    BY DEF Fail
  <2>2. At(c, "permanent", "delete") => call[c].on \in Models
    BY Constants DEF Base, Held, At
  <2> QED BY <2>1, <2>2 DEF Base, TypeOK
<1>3. RestOK'
  BY <1>1, <1>2 DEF RestOK, TypeOK, Base, Stored
<1> QED BY <1>1, <1>3, EndBase, RowsKept

LEMMA RestartBase == ASSUME Base, Restart PROVE Base'
<1>1. /\ cache' = Cleared /\ call' = [c \in Calls |-> IdleCall] /\ suspect' = {} /\ tidy' \subseteq tidy
      /\ cut' = cut \cup {call[c].on : c \in {d \in Calls : At(d, "permanent", "delete")}}
      /\ UNCHANGED <<row, files, bound, made, raced>>
  BY DEF Restart
<1>2. \A d \in Calls : At(d, "permanent", "delete") => call[d].on \in Models
  BY Constants DEF Base, Held, At
<1>3. cut' \subseteq Models
  BY <1>1, <1>2 DEF Base, TypeOK
<1>4. \A c \in Calls : call'[c] = IdleCall
  BY <1>1
<1>5. TypeOK'
  BY <1>1, <1>3, ClearedOK, IdleOK, Constants DEF Base, TypeOK, Stored
<1>6. (\A c \in Calls : Held(call[c]))'
  <2> SUFFICES ASSUME NEW c \in Calls PROVE Held(call[c])'
    OBVIOUS
  <2> QED BY <1>4, IdleOK DEF Held, Pending
<1>7. IdsApart'
  BY <1>4, IdleOK DEF IdsApart, Pending
<1> QED BY <1>5, <1>6, <1>7 DEF Base

LEMMA CallsKept ==
    ASSUME Base, TypeOK', UNCHANGED <<row, files, call>>
    PROVE  Base'
<1>1. (\A c \in Calls : Held(call[c]))'
  BY DEF Base, Held, Pending
<1>2. IdsApart'
  BY DEF Base, IdsApart, Pending
<1> QED BY <1>1, <1>2 DEF Base

LEMMA ExpireBase == ASSUME Base, NEW k \in Keys, Expire(k) PROVE Base'
<1>1. /\ cache' = [cache EXCEPT ![k] = None] /\ suspect' = suspect \ {k}
      /\ UNCHANGED <<row, files, bound, call, tidy, raced, cut, made>>
  BY DEF Expire
<1>2. TypeOK'
  BY <1>1, Constants DEF Base, TypeOK, Stored
<1> QED BY <1>1, <1>2, CallsKept

LEMMA BaseInit == Init => Base
<1> SUFFICES ASSUME Init PROVE Base
  OBVIOUS
<1>1. PICK m \in Models, second \in SUBSET Models :
        /\ row = [n \in Models |->
             IF n = m THEN [FirstVersion EXCEPT !.latest = second = {}]
             ELSE IF n \in second THEN [FirstVersion EXCEPT !.version = 2, !.parent = m] ELSE NoRow]
        /\ files = {m} \cup second /\ tidy = {m} /\ bound = {}
        /\ cache = [k \in Keys |-> None]
        /\ call = [c \in Calls |-> IdleCall]
        /\ made = 0 /\ raced = {} /\ suspect = {} /\ cut = {}
  BY DEF Init
<1>2. row \in Table
  <2>1. /\ [FirstVersion EXCEPT !.latest = second = {}] \in Row
        /\ [FirstVersion EXCEPT !.version = 2, !.parent = m] \in Row
    BY DEF FirstVersion, Row
  <2> QED BY <1>1, <2>1, NoRowOK DEF Table
<1>3. TypeOK
  BY <1>1, <1>2, IdleOK, Constants, ModelsAssumption DEF TypeOK
<1>4. \A c \in Calls : call[c] = IdleCall
  BY <1>1
<1>5. IdsApart /\ \A c \in Calls : Held(call[c])
  BY <1>4, IdleOK DEF IdsApart
<1> QED BY <1>3, <1>5 DEF Base

LEMMA BaseNext == Base /\ [Next]_vars => Base'
<1> SUFFICES ASSUME Base, [Next]_vars PROVE Base'
  OBVIOUS
<1>1. ASSUME NEW c \in Calls, NEW op \in Ops, NEW k \in Keys, Begin(c, op, k) PROVE Base'
  BY <1>1, BeginBase
<1>2. ASSUME NEW c \in Calls, Step(c) PROVE Base'
  BY <1>2, FindCachedBase, FindStoredBase, KeepBase, LoadBase, BindBase, InsertFirstBase, NumberBase,
     DemoteBase, InsertVersionBase, DemoteAllBase, PromoteBase, UnbindBase, MarkBase, InheritBase,
     UnmarkBase, DemoteSiblingsBase, UnlinkBase, DeleteBase, InvalidateBase, FailBase DEF Step
<1>3. ASSUME NEW k \in Keys, Expire(k) PROVE Base'
  BY <1>3, ExpireBase
<1>4. CASE UNCHANGED vars
  <2>1. TypeOK'
    BY <1>4 DEF vars, Base, TypeOK, Stored
  <2> QED BY <1>4, <2>1, CallsKept DEF vars
<1> QED BY <1>1, <1>2, <1>3, <1>4, RestartBase DEF Next

-----------------------------------------------------------------------------
LEMMA BecomesElsewhere ==
    ASSUME TypeOK, NEW c \in Calls, NEW q, Becomes(c, q)
    PROVE  \A d \in Calls \ {c} : Same(call[d], call'[d])
<1> SUFFICES ASSUME NEW d \in Calls \ {c} PROVE Same(call[d], call'[d])
  OBVIOUS
<1>1. PICK r \in Call : r = call[d]
  BY DEF TypeOK
<1>2. [call EXCEPT ![c] = q][d] = r /\ call \in [Calls -> Call]
  BY <1>1 DEF TypeOK
<1>3. call'[d] \in {r, [r EXCEPT !.late = r.phase = "keep"]}
  BY <1>2 DEF Becomes, Late
<1> QED BY <1>1, <1>3 DEF Same, Alike, Call

(* A step of a call is one of that call.                                   *)
LEMMA Elsewhere ==
    ASSUME TypeOK, NEW c \in Calls, Step(c)
    PROVE  \A d \in Calls \ {c} : Same(call[d], call'[d])
<1>1. SUFFICES \E q : Becomes(c, q)
  BY BecomesElsewhere
<1>2. ASSUME NEW v, Continue(c, v) PROVE \E q : Becomes(c, q)
  <2>1. PICK q : q = IF AfterFind(call[c].op, v) = "idle" THEN IdleCall
                     ELSE [call[c] EXCEPT !.phase = AfterFind(call[c].op, v), !.seen = v]
    OBVIOUS
  <2>2. call' = [call EXCEPT ![c] = q]
    BY <1>2, <2>1 DEF Continue, TypeOK
  <2> QED BY <2>2 DEF Becomes
<1>3. ASSUME NEW ph, Goto(c, ph) PROVE \E q : Becomes(c, q)
  <2>1. call' = [call EXCEPT ![c] = [call[c] EXCEPT !.phase = ph]]
    BY <1>3 DEF Goto, TypeOK
  <2> QED BY <2>1 DEF Becomes
<1>4. CASE FindCached(c) \/ Keep(c)
  BY <1>2, <1>4 DEF FindCached, Keep
<1>5. CASE FindStored(c)
  <2>1. PICK q : q = IF Findable(c)
          THEN [call[c] EXCEPT !.phase = "keep", !.seen = View(call[c].on), !.late = FALSE] ELSE IdleCall
    OBVIOUS
  <2>2. call' = [call EXCEPT ![c] = q]
    BY <1>5, <2>1 DEF FindStored, TypeOK
  <2> QED BY <2>2 DEF Becomes
<1>6. CASE Number(c)
  <2>1. PICK m, n : call' = [call EXCEPT ![c].phase = "demote", ![c].new = m, ![c].next = n]
    BY <1>6 DEF Number
  <2>2. call' = [call EXCEPT ![c] = [call[c] EXCEPT !.phase = "demote", !.new = m, !.next = n]]
    BY <2>1 DEF TypeOK
  <2> QED BY <2>2 DEF Becomes
<1>7. CASE Demote(c)
  <2>1. call' = [call EXCEPT ![c] = [call[c] EXCEPT !.phase = "insert", !.hit = Demotable(call[c].on)]]
    BY <1>7 DEF Demote, TypeOK
  <2> QED BY <2>1 DEF Becomes
<1>8. CASE Mark(c)
  <2>1. PICK ph, r : call' = [call EXCEPT ![c].phase = ph, ![c].seen = r]
    BY <1>8 DEF Mark
  <2>2. call' = [call EXCEPT ![c] = [call[c] EXCEPT !.phase = ph, !.seen = r]]
    BY <2>1 DEF TypeOK
  <2> QED BY <2>2 DEF Becomes
<1>9. CASE Unlink(c)
  <2>1. call' = Late([call EXCEPT ![c] = [call[c] EXCEPT !.phase = "delete"]])
    BY <1>9 DEF Unlink, TypeOK
  <2> QED BY <2>1 DEF Becomes
<1>10. CASE Load(c)
  <2>1. call' = [call EXCEPT ![c] = IdleCall] \/ \E ph : Goto(c, ph)
    BY <1>10 DEF Load
  <2> QED BY <1>3, <2>1 DEF Becomes
<1>11. CASE Invalidate(c) \/ Delete(c) \/ Fail(c) \/ Bind(c)
  BY <1>11 DEF Invalidate, Delete, Fail, Bind, Becomes
<1>12. CASE InsertFirst(c) \/ InsertVersion(c) \/ DemoteAll(c) \/ Promote(c)
  BY <1>3, <1>12 DEF InsertFirst, InsertVersion, DemoteAll, Promote
<1>13. CASE Unbind(c) \/ Inherit(c) \/ Unmark(c) \/ DemoteSiblings(c)
  BY <1>3, <1>13 DEF Unbind, Inherit, Unmark, DemoteSiblings
<1> QED BY <1>4, <1>5, <1>6, <1>7, <1>8, <1>9, <1>10, <1>11, <1>12, <1>13 DEF Step

LEMMA BeginElsewhere ==
    ASSUME TypeOK, NEW c \in Calls, NEW op \in Ops, NEW k \in Keys, Begin(c, op, k)
    PROVE  /\ \A d \in Calls \ {c} : Same(call[d], call'[d])
           /\ call[c].phase = "idle" /\ call'[c].op = op /\ call'[c].phase \notin {"keep", "idle", "demote"}
           /\ call'[c].phase = "insert" => op = "upload"
<1>1. PICK others : others = IF op \in Writers THEN {d \in Calls \ {c} : Busy(d) /\ call[d].op \in Writers} ELSE {}
  OBVIOUS
<1>2. PICK first : first = CASE op = "upload" -> "insert" [] op \in {"bind", "permanent"} -> "load"
                             [] OTHER -> "find"
  OBVIOUS
<1>3. PICK alone \in BOOLEAN : alone <=> others = {}
  OBVIOUS
<1>4. PICK new : new = IF op = "upload" THEN k ELSE None
  OBVIOUS
<1>5. PICK q : q = [IdleCall EXCEPT !.op = op, !.on = k, !.phase = first, !.new = new, !.alone = alone]
  OBVIOUS
<1>6. q.op = op /\ q.phase = first
  BY <1>5 DEF IdleCall
<1>7. call' = [d \in Calls |-> IF d = c THEN q ELSE [call[d] EXCEPT !.alone = @ /\ d \notin others]]
  <2>1. (others = {}) = alone
    BY <1>3
  <2> QED BY <1>1, <1>2, <1>4, <1>5, <2>1 DEF Begin
<1>8. ASSUME NEW d \in Calls \ {c} PROVE Same(call[d], call'[d])
  <2>1. PICK r \in Call : r = call[d]
    BY DEF TypeOK
  <2>2. call'[d] = [r EXCEPT !.alone = r.alone /\ d \notin others]
    BY <1>7, <2>1
  <2> QED BY <2>1, <2>2 DEF Same, Alike, Call
<1>9. call'[c] = q /\ call[c].phase = "idle"
  BY <1>7 DEF Begin, Busy
<1>10. first \notin {"keep", "idle", "demote"} /\ (first = "insert" => op = "upload")
  BY <1>2
<1> QED BY <1>6, <1>8, <1>9, <1>10

-----------------------------------------------------------------------------
(* RowHasFile: what a removal unlinks it still has to delete.              *)
Removing(q) == q.op = "permanent" /\ q.phase = "delete"

LEMMA FilesStay ==
    ASSUME Base, RowHasFile, Stored' \subseteq Stored \cup files', files \subseteq files', cut \subseteq cut',
           \A d \in Calls : Removing(call[d]) =>
             Removing(call'[d]) /\ call'[d].on = call[d].on
    PROVE  RowHasFile'
<1> SUFFICES ASSUME NEW m \in Stored', m \notin cut', m \notin files'
             PROVE  \E d \in Calls : call'[d].on = m /\ Removing(call'[d])
  BY DEF RowHasFile, At, Removing
<1>1. m \in Stored \ cut /\ m \notin files
  OBVIOUS
<1>2. PICK d \in Calls : call[d].on = m /\ Removing(call[d])
  BY <1>1 DEF RowHasFile, At, Removing
<1> QED BY <1>2

LEMMA FileStep ==
    ASSUME Base, RowHasFile, NEW c \in Calls, Step(c)
    PROVE  RowHasFile'
<1>1. \A d \in Calls \ {c} : Same(call[d], call'[d])
  BY Elsewhere DEF Base
<1>2. ASSUME ~Removing(call[c])
      PROVE  \A d \in Calls : Removing(call[d]) => Removing(call'[d]) /\ call'[d].on = call[d].on
  BY <1>1, <1>2 DEF Same, Alike, Removing
<1>3. ASSUME ~Removing(call[c]), Stored' \subseteq Stored \cup files', files \subseteq files', cut' = cut
      PROVE  RowHasFile'
  BY <1>2, <1>3, FilesStay
<1>4. CASE FindCached(c) \/ FindStored(c) \/ Keep(c) \/ Load(c)
  BY <1>3, <1>4 DEF FindCached, FindStored, Keep, Load, Stored, history, Removing
<1>5. CASE Bind(c) \/ Demote(c) \/ Unbind(c) \/ Invalidate(c)
  BY <1>3, <1>5 DEF Bind, Demote, Unbind, Invalidate, Stored, history, Removing, At
<1>6. CASE DemoteAll(c) \/ Promote(c) \/ Mark(c)
  <2>1. Relabelled
    BY <1>6, DemoteAllBase, PromoteBase, MarkBase
  <2>2. Stored' = Stored
    BY <2>1, Relabelling
  <2> QED BY <1>3, <1>6, <2>2 DEF DemoteAll, Promote, Mark, history, Removing, At
<1>7. CASE Inherit(c) \/ Unmark(c) \/ DemoteSiblings(c)
  <2>1. Relabelled
    BY <1>7, InheritBase, UnmarkBase, DemoteSiblingsBase
  <2>2. Stored' = Stored
    BY <2>1, Relabelling
  <2> QED BY <1>3, <1>7, <2>2 DEF Inherit, Unmark, DemoteSiblings, history, Removing, At
<1>8. CASE Number(c)
  <2>1. files \subseteq files' /\ cut' = cut /\ row' = row /\ ~Removing(call[c])
    BY <1>8 DEF Number, history, At, Removing
  <2> QED BY <1>3, <2>1 DEF Stored
<1>9. ASSUME call[c].phase = "insert", NEW S \in SUBSET Stored, NEW r \in Row, r.state = "live",
             row' = [Unset(S) EXCEPT ![call[c].new] = r], UNCHANGED <<files, cut>>
      PROVE  RowHasFile'
  <2>1. PICK m : m = call[c].new
    OBVIOUS
  <2>2. m \in files /\ row[m] = NoRow /\ m \in Models
    BY <1>9, <2>1 DEF Base, Held, Pending, TypeOK
  <2>3. Stored' = Stored \cup {m}
    BY <1>9, <2>1, <2>2, Inserted
  <2> QED BY <1>3, <1>9, <2>2, <2>3 DEF Removing
<1>10. CASE InsertFirst(c)
  <2>1. FirstVersion \in Row /\ FirstVersion.state = "live"
    BY DEF FirstVersion, Row
  <2>2. Unset({}) = row
    BY DEF Unset, Base, TypeOK, Table
  <2> QED BY <1>9, <1>10, <2>1, <2>2 DEF InsertFirst, At
<1>11. CASE InsertVersion(c)
  BY <1>9, <1>11, VersionRow DEF InsertVersion, At
<1>12. CASE Unlink(c)
  <2>1. At(c, "permanent", "unlink") /\ files \ {call[c].on} \subseteq files' /\ UNCHANGED <<row, cut>>
    BY <1>12 DEF Unlink
  <2>2. Removing(call'[c]) /\ call'[c].on = call[c].on
    <3>1. PICK r \in Call : r = call[c]
      BY DEF Base, TypeOK
    <3>2. PICK x : x = [r EXCEPT !.phase = "delete"]
      OBVIOUS
    <3>3. x.phase = "delete" /\ x.op = "permanent" /\ x.on = r.on /\ [x EXCEPT !.late = x.phase = "keep"].phase = x.phase
          /\ [x EXCEPT !.late = x.phase = "keep"].op = x.op /\ [x EXCEPT !.late = x.phase = "keep"].on = x.on
      BY <2>1, <3>1, <3>2 DEF Call, At
    <3>4. [call EXCEPT ![c].phase = "delete"][c] = x /\ call'[c] = [x EXCEPT !.late = x.phase = "keep"]
      BY <1>12, <3>1, <3>2 DEF Unlink, Late, Base, TypeOK
    <3> QED BY <3>1, <3>3, <3>4 DEF Removing
  <2> SUFFICES ASSUME NEW m \in Stored', m \notin cut', m \notin files'
               PROVE  \E d \in Calls : call'[d].on = m /\ Removing(call'[d])
    BY DEF RowHasFile, At, Removing
  <2>3. CASE m = call[c].on
    BY <2>2, <2>3
  <2>4. CASE m # call[c].on
    <3>1. m \in Stored \ cut /\ m \notin files
      BY <2>1, <2>4 DEF Stored
    <3>2. PICK d \in Calls : call[d].on = m /\ Removing(call[d])
      BY <3>1 DEF RowHasFile, At, Removing
    <3> QED BY <1>1, <2>4, <3>2 DEF Same, Alike, Removing
  <2> QED BY <2>3, <2>4
<1>13. ASSUME Removing(call[c]), Stored' \ cut' \subseteq Stored \ (cut \cup {call[c].on}), files' = files
       PROVE  RowHasFile'
  <2> SUFFICES ASSUME NEW m \in Stored', m \notin cut', m \notin files'
               PROVE  \E d \in Calls : call'[d].on = m /\ Removing(call'[d])
    BY DEF RowHasFile, At, Removing
  <2>1. m \in Stored \ cut /\ m \notin files /\ m # call[c].on
    BY <1>13
  <2>2. PICK d \in Calls : call[d].on = m /\ Removing(call[d])
    BY <2>1 DEF RowHasFile, At, Removing
  <2> QED BY <1>1, <2>1, <2>2 DEF Same, Alike, Removing
<1>14. CASE Delete(c)
  <2>1. PICK m \in Stored : m = call[c].on
    BY <1>14 DEF Delete
  <2>2. Stored' = Stored \ {m}
    BY <1>14, <2>1, Deleted DEF Delete
  <2> QED BY <1>13, <1>14, <2>1, <2>2 DEF Delete, At, Removing
<1>15. CASE Fail(c)
  <2>1. /\ UNCHANGED <<row, files>>
        /\ cut' = IF Removing(call[c]) THEN cut \cup {call[c].on} ELSE cut
    BY <1>15 DEF Fail, At, Removing
  <2>2. Stored' = Stored
    BY <2>1 DEF Stored
  <2> QED BY <1>3, <1>13, <2>1, <2>2
<1> QED BY <1>4, <1>5, <1>6, <1>7, <1>8, <1>10, <1>11, <1>12, <1>14, <1>15 DEF Step

LEMMA FileNext == Base /\ RowHasFile /\ [Next]_vars => RowHasFile'
<1> SUFFICES ASSUME Base, RowHasFile, [Next]_vars PROVE RowHasFile'
  OBVIOUS
<1>1. ASSUME NEW c \in Calls, NEW op \in Ops, NEW k \in Keys, Begin(c, op, k) PROVE RowHasFile'
  <2>1. files \subseteq files' /\ UNCHANGED <<row, cut>>
    BY <1>1 DEF Begin
  <2>2. /\ \A d \in Calls \ {c} : Same(call[d], call'[d])
        /\ call[c].phase = "idle"
    BY <1>1, BeginElsewhere DEF Base
  <2> QED BY <2>1, <2>2, FilesStay DEF Stored, Same, Alike, Removing
<1>2. CASE Restart
  <2>1. /\ cut' = cut \cup {call[c].on : c \in {d \in Calls : At(d, "permanent", "delete")}}
        /\ UNCHANGED <<row, files>>
    BY <1>2 DEF Restart
  <2> SUFFICES ASSUME NEW m \in Stored', m \notin cut' PROVE m \in files'
    BY DEF RowHasFile
  <2>2. m \in Stored \ cut /\ \A d \in Calls : ~(call[d].on = m /\ At(d, "permanent", "delete"))
    BY <2>1 DEF Stored
  <2> QED BY <2>1, <2>2 DEF RowHasFile
<1>3. ASSUME NEW k \in Keys, Expire(k) PROVE RowHasFile'
  BY <1>3, FilesStay DEF Expire, Stored
<1>4. CASE UNCHANGED vars
  BY <1>4, FilesStay DEF vars, Stored
<1> QED BY <1>1, <1>2, <1>3, <1>4, FileStep DEF Next

-----------------------------------------------------------------------------
(* CacheInv.                                                               *)
Ahead(q) == q.phase \in {"promote", "heir", "siblings", "invalidate"}
CacheAgrees == \A k \in Keys \ suspect : cache[k] \in {None, View(k)}
ReadAgrees(q) == q.phase = "keep" /\ ~q.late => q.seen = View(q.on)

LEMMA CacheParts == CacheInv <=> (\E c \in Calls : Ahead(call[c])) \/ (CacheAgrees /\ \A c \in Calls : ReadAgrees(call[c]))
  BY DEF CacheInv, Dirty, Ahead, CacheAgrees, ReadAgrees

LEMMA CacheAhead ==
    ASSUME NEW c \in Calls, Ahead(call'[c])
    PROVE  CacheInv'
  BY DEF CacheInv, Dirty, Ahead

(* A step that changes no row, and nothing of the cache that it should not.*)
LEMMA CacheKept ==
    ASSUME CacheInv, NEW c \in Calls, ~Ahead(call[c]), UNCHANGED row,
           \A d \in Calls \ {c} : Same(call[d], call'[d]),
           CacheAgrees /\ (\A d \in Calls : ReadAgrees(call[d])) => CacheAgrees' /\ ReadAgrees(call[c])'
    PROVE  CacheInv'
<1>1. CASE \E d \in Calls : Ahead(call[d])
  <2>1. PICK d \in Calls \ {c} : Ahead(call[d])
    BY <1>1
  <2>2. Ahead(call'[d])
    BY <2>1 DEF Ahead, Same, Alike
  <2> QED BY <2>2, CacheAhead
<1>2. CASE CacheAgrees /\ \A d \in Calls : ReadAgrees(call[d])
  <2>1. \A k : View(k)' = View(k)
    BY DEF View
  <2>2. \A d \in Calls \ {c} : call'[d].phase = "keep" /\ ~call'[d].late => call'[d].seen = View(call'[d].on)
    BY <1>2 DEF ReadAgrees, Same, Alike
  <2> QED BY <1>2, <2>1, <2>2 DEF CacheInv, CacheAgrees, ReadAgrees
<1> QED BY <1>1, <1>2, CacheParts

(* A step after which what is cached and read is in doubt anyway.          *)
LEMMA CacheLate ==
    ASSUME TypeOK, NEW c \in Calls, NEW q \in Call, call' = Late([call EXCEPT ![c] = q]),
           \A k \in Keys \ suspect' : cache'[k] = None
    PROVE  CacheInv'
<1>1. ASSUME NEW d \in Calls PROVE call'[d].phase = "keep" => call'[d].late
  <2>1. PICK r \in Call : r = [call EXCEPT ![c] = q][d]
    BY DEF TypeOK
  <2>2. call'[d] = [r EXCEPT !.late = r.phase = "keep"]
    BY <2>1 DEF Late, TypeOK
  <2> QED BY <2>2 DEF Call
<1> QED BY <1>1 DEF CacheInv

LEMMA CacheStep ==
    ASSUME Base, CacheInv, NEW c \in Calls, Step(c)
    PROVE  CacheInv'
<1>1. (\A d \in Calls \ {c} : Same(call[d], call'[d])) /\ TypeOK
  BY Elsewhere DEF Base
<1>2. call[c] \in Call /\ call \in [Calls -> Call] /\ Held(call[c])
  BY DEF Base, TypeOK
<1>3. ASSUME NEW ph, Goto(c, ph) PROVE call'[c].phase = ph
  BY <1>2, <1>3 DEF Goto, Call
<1>4. ASSUME Goto(c, "promote") \/ Goto(c, "invalidate") PROVE CacheInv'
  BY <1>3, <1>4, CacheAhead DEF Ahead
<1>5. CASE InsertFirst(c) \/ InsertVersion(c) \/ DemoteAll(c) \/ Promote(c) \/ Inherit(c) \/ DemoteSiblings(c)
  BY <1>4, <1>5 DEF InsertFirst, InsertVersion, DemoteAll, Promote, Inherit, DemoteSiblings
<1>6. CASE Unmark(c)
  <2>1. PICK ph \in {"invalidate", "siblings"} : Goto(c, ph)
    BY <1>6 DEF Unmark
  <2> QED BY <1>3, <2>1, CacheAhead DEF Ahead
<1>7. CASE Mark(c)
  <2>1. PICK ph \in {"invalidate", "heir"} : \E r : call' = [call EXCEPT ![c].phase = ph, ![c].seen = r]
    BY <1>7 DEF Mark
  <2>2. call'[c].phase = ph
    BY <1>2, <2>1 DEF Call
  <2> QED BY <2>1, <2>2, CacheAhead DEF Ahead
<1>8. ASSUME ~Ahead(call[c]), UNCHANGED <<row, cache, suspect>>, call'[c].phase # "keep"
      PROVE  CacheInv'
  <2>1. \A k : View(k)' = View(k)
    BY <1>8 DEF View
  <2> QED BY <1>1, <1>8, <2>1, CacheKept DEF CacheAgrees, ReadAgrees
<1>9. ASSUME NEW v, Continue(c, v) PROVE call'[c].phase # "keep"
  <2>1. PICK p : p = AfterFind(call[c].op, v)
    OBVIOUS
  <2>2. p # "keep"
    BY <2>1 DEF AfterFind
  <2>3. call' = [call EXCEPT ![c] = IF p = "idle" THEN IdleCall ELSE [call[c] EXCEPT !.phase = p, !.seen = v]]
    BY <1>2, <1>9, <2>1 DEF Continue
  <2> QED BY <1>2, <2>2, <2>3, IdleOK DEF Call
<1>10. CASE FindCached(c)
  BY <1>8, <1>9, <1>10 DEF FindCached, Ahead, history
<1>11. CASE FindStored(c)
  <2>1. PICK k : k = call[c].on
    OBVIOUS
  <2>2. PICK q : q = IF Findable(c) THEN [call[c] EXCEPT !.phase = "keep", !.seen = View(k), !.late = FALSE]
                     ELSE IdleCall
    OBVIOUS
  <2>3. call'[c] = q
    BY <1>2, <1>11, <2>1, <2>2 DEF FindStored
  <2>4. q.phase = "keep" => q.seen = View(k) /\ q.on = k
    BY <1>2, <2>1, <2>2, IdleOK DEF Call
  <2>5. UNCHANGED <<row, cache, suspect>> /\ ~Ahead(call[c])
    BY <1>11 DEF FindStored, history, Ahead
  <2>6. \A l : View(l)' = View(l)
    BY <2>5 DEF View
  <2>7. ReadAgrees(call[c])' /\ (CacheAgrees => CacheAgrees')
    BY <2>3, <2>4, <2>5, <2>6 DEF ReadAgrees, CacheAgrees
  <2> QED BY <1>1, <2>5, <2>7, CacheKept
<1>12. CASE Keep(c)
  <2>1. PICK k \in Keys : k = call[c].on
    BY <1>2, <1>12 DEF Held, Keep
  <2>2. /\ call[c].phase = "keep" /\ cache' = [cache EXCEPT ![k] = call[c].seen]
        /\ suspect' = IF call[c].late THEN suspect \cup {k} ELSE suspect \ {k}
        /\ UNCHANGED row /\ call'[c].phase # "keep"
    BY <1>9, <1>12, <2>1 DEF Keep
  <2>3. \A l : View(l)' = View(l)
    BY <2>2 DEF View
  <2>4. ASSUME CacheAgrees, ReadAgrees(call[c]) PROVE CacheAgrees'
    <3> SUFFICES ASSUME NEW l \in Keys, l \notin suspect' PROVE cache'[l] \in {None, View(l)}
      BY <2>3 DEF CacheAgrees
    <3>1. cache'[l] = IF l = k THEN call[c].seen ELSE cache[l]
      BY <2>2 DEF Base, TypeOK
    <3>2. CASE l = k
      BY <2>1, <2>2, <2>4, <3>1, <3>2 DEF ReadAgrees
    <3>3. CASE l # k
      BY <2>2, <2>4, <3>1, <3>3 DEF CacheAgrees
    <3> QED BY <3>2, <3>3
  <2>5. ~Ahead(call[c]) /\ ReadAgrees(call[c])'
    BY <2>2 DEF Ahead, ReadAgrees
  <2> QED BY <1>1, <2>2, <2>4, <2>5, CacheKept
<1>13. CASE Load(c)
  <2>1. call'[c].phase # "keep"
    BY <1>2, <1>3, <1>13, IdleOK DEF Load
  <2> QED BY <1>8, <1>13, <2>1 DEF Load, history, Ahead
<1>14. CASE Bind(c)
  BY <1>2, <1>8, <1>14, IdleOK DEF Bind, history, Ahead, At
<1>15. CASE Unbind(c)
  <2>1. call'[c].phase # "keep"
    BY <1>3, <1>15 DEF Unbind
  <2> QED BY <1>8, <1>15, <2>1 DEF Unbind, history, Ahead
<1>16. CASE Number(c)
  <2>1. PICK m, n : call' = [call EXCEPT ![c].phase = "demote", ![c].new = m, ![c].next = n]
    BY <1>16 DEF Number
  <2>2. call'[c].phase = "demote"
    BY <1>2, <2>1 DEF Call
  <2> QED BY <1>8, <1>16, <2>2 DEF Number, history, Ahead, At
<1>17. CASE Demote(c)
  <2>1. call'[c].phase = "insert"
    BY <1>2, <1>17 DEF Demote, Call
  <2> QED BY <1>8, <1>17, <2>1 DEF Demote, history, Ahead, At
<1>18. CASE Invalidate(c)
  BY <1>1, <1>18, ClearedOK, IdleOK, CacheLate DEF Invalidate
<1>19. CASE Unlink(c)
  <2>1. PICK q : q = [call[c] EXCEPT !.phase = "delete"]
    OBVIOUS
  <2>2. q \in Call
    BY <1>2, <2>1 DEF Call, Phases
  <2>3. call' = Late([call EXCEPT ![c] = q]) /\ cache' = Cleared
    BY <1>2, <1>19, <2>1 DEF Unlink
  <2> QED BY <1>1, <2>2, <2>3, ClearedOK, CacheLate
<1>20. CASE Delete(c)
  BY <1>1, <1>20, IdleOK, CacheLate DEF Delete, Doubt
<1>21. CASE Fail(c)
  <2>1. CASE HalfDone(c)
    BY <1>1, <1>21, <2>1, IdleOK, CacheLate DEF Fail, Doubt
  <2>2. CASE ~HalfDone(c)
    BY <1>2, <1>8, <1>21, <2>2, IdleOK DEF Fail, HalfDone, Ahead
  <2> QED BY <2>1, <2>2
<1> QED BY <1>5, <1>6, <1>7, <1>10, <1>11, <1>12, <1>13, <1>14, <1>15, <1>16, <1>17, <1>18, <1>19,
           <1>20, <1>21 DEF Step

LEMMA CacheNext == Base /\ CacheInv /\ [Next]_vars => CacheInv'
<1> SUFFICES ASSUME Base, CacheInv, [Next]_vars PROVE CacheInv'
  OBVIOUS
<1>1. ASSUME NEW c \in Calls, NEW op \in Ops, NEW k \in Keys, Begin(c, op, k) PROVE CacheInv'
  <2>1. /\ \A d \in Calls \ {c} : Same(call[d], call'[d])
        /\ call[c].phase = "idle" /\ call'[c].phase # "keep"
    BY <1>1, BeginElsewhere DEF Base
  <2>2. UNCHANGED <<row, cache, suspect>>
    BY <1>1 DEF Begin
  <2>3. \A l : View(l)' = View(l)
    BY <2>2 DEF View
  <2> QED BY <2>1, <2>2, <2>3, CacheKept DEF CacheAgrees, ReadAgrees, Ahead
<1>2. CASE Restart
  <2>1. cache' = Cleared /\ \A c \in Calls : call'[c] = IdleCall
    BY <1>2 DEF Restart
  <2> QED BY <2>1, ClearedOK, IdleOK DEF CacheInv
<1>3. ASSUME NEW k \in Keys, Expire(k) PROVE CacheInv'
  <2>1. cache' = [cache EXCEPT ![k] = None] /\ suspect' = suspect \ {k} /\ UNCHANGED <<row, call>>
    BY <1>3 DEF Expire
  <2>2. \A l \in Keys : cache'[l] = IF l = k THEN None ELSE cache[l]
    BY <2>1 DEF Base, TypeOK
  <2>3. \A l : View(l)' = View(l)
    BY <2>1 DEF View
  <2> QED BY <2>1, <2>2, <2>3 DEF CacheInv, Dirty
<1>4. CASE UNCHANGED vars
  BY <1>4 DEF vars, CacheInv, Dirty, View
<1> QED BY <1>1, <1>2, <1>3, <1>4, CacheStep DEF Next

LEMMA CacheInvMeans == Base /\ CacheInv => CacheFresh
<1> SUFFICES ASSUME Base, CacheInv, Writing = {} PROVE \A k \in Keys \ suspect : cache[k] \in {None, View(k)}
  BY DEF CacheFresh
<1>1. ASSUME Dirty PROVE FALSE
  <2>1. PICK c \in Calls : call[c].phase \in {"promote", "heir", "siblings", "invalidate"}
    BY <1>1 DEF Dirty
  <2>2. call[c].op \in AllOps /\ call[c].phase \in Path[call[c].op]
    BY <2>1 DEF Base, TypeOK, Call, Held
  <2>3. call[c].op \in Writers \cup {"upload"}
    BY <2>1, <2>2, Paths, OpsAre DEF Writers
  <2> QED BY <2>1, <2>3 DEF Writing, Busy
<1> QED BY <1>1 DEF CacheInv

-----------------------------------------------------------------------------
(* VersionInv.                                                             *)
(* A step that takes rows or parents away, and adds nothing.               *)
LEMMA VersionKept ==
    ASSUME Base, VersionInv, NEW c \in Calls, \A d \in Calls \ {c} : Same(call[d], call'[d]),
           Stored' \subseteq Stored, raced' = raced,
           \A m \in Stored' : /\ row'[m].version = row[m].version
                              /\ row'[m].parent \in {row[m].parent, None} \cap (Stored' \cup {None}),
           OnTop(call[c])'
    PROVE  VersionInv'
<1>1. \A m : m # None => Family(m)' \subseteq Family(m)
  BY DEF Family
<1>2. \A m \in Stored : m # None
  BY FamilyIsStored, Constants
<1>3. VersionsDistinct'
  <2> SUFFICES ASSUME NEW m \in Stored' \ raced', NEW n \in Family(m)', NEW o \in Family(m)',
                      row'[n].version = row'[o].version
               PROVE  n = o
    BY DEF VersionsDistinct
  <2>1. m \in Stored \ raced /\ n \in Family(m) /\ o \in Family(m) /\ n \in Stored' /\ o \in Stored'
    BY <1>1, <1>2 DEF Family
  <2> QED BY <2>1 DEF VersionInv, VersionsDistinct
<1>4. ParentsStored'
  BY DEF ParentsStored
<1>5. ASSUME NEW d \in Calls \ {c} PROVE OnTop(call[d])'
  <2> SUFFICES ASSUME call'[d].op = "version", Pending(call'[d]), call'[d].on \notin raced', NEW n \in Family(call[d].on)'
               PROVE  row'[n].version < call'[d].next
    BY DEF OnTop, Pending
  <2>1. call[d].op = "version" /\ Pending(call[d]) /\ call[d].on \notin raced
    BY DEF Same, Alike, Pending
  <2>2. call[d].on \in Models /\ call'[d].on = call[d].on /\ call'[d].next = call[d].next
    BY <2>1, Constants DEF Same, Alike, Base, Held, Pending
  <2>3. n \in Family(call[d].on) /\ n \in Stored'
    BY <1>1, <2>2, Constants DEF Family
  <2> QED BY <2>1, <2>2, <2>3 DEF VersionInv, OnTop
<1>6. (\A d \in Calls : OnTop(call[d]))'
  BY <1>5 DEF OnTop, Pending
<1> QED BY <1>3, <1>4, <1>6 DEF VersionInv

(* The row that an upload inserts.                                         *)
LEMMA VersionInserted ==
    ASSUME Base, VersionInv, NEW c \in Calls, \A d \in Calls \ {c} : Same(call[d], call'[d]),
           NEW m \in Models, m \notin Stored, Stored' = Stored \cup {m}, raced \subseteq raced', row[m] = NoRow,
           \A n \in Models \ {m} : row'[n].version = row[n].version /\ row'[n].parent = row[n].parent,
           NEW p \in Stored \cup {None}, row'[m].parent = p,
           p # None => /\ \A d \in Calls \ {c} :
                            call[d].op = "version" /\ Pending(call[d]) /\ call[d].on = p => p \in raced'
                       /\ p \in raced' \/ \A n \in Family(p) : row[n].version # row'[m].version,
           call'[c].phase = "invalidate"
    PROVE  VersionInv'
<1>1. \A x \in Stored : x # m /\ x \in Models /\ x # None
  BY FamilyIsStored, Constants
<1>2. \A x \in Stored : Family(x)' \subseteq Family(x) \cup (IF p = x THEN {m} ELSE {})
  BY <1>1 DEF Family
<1>3. Family(m)' = {m}
  <2>1. \A n \in Stored : row'[n].parent # m
    BY <1>1, Constants DEF VersionInv, ParentsStored
  <2> QED BY <1>1, <2>1 DEF Family
<1>4. \A x : \A n \in Family(x) : n \in Stored
  BY DEF Family
<1>5. VersionsDistinct'
  <2> SUFFICES ASSUME NEW x \in Stored', x \notin raced', NEW n \in Family(x)', NEW o \in Family(x)',
                      row'[n].version = row'[o].version, n # o
               PROVE  FALSE
    BY DEF VersionsDistinct
  <2>1. x \in Stored \ raced
    BY <1>3
  <2>2. CASE n \in Family(x) /\ o \in Family(x)
    <3>1. row[n].version = row[o].version
      BY <1>1, <1>4, <2>2
    <3> QED BY <2>1, <2>2, <3>1 DEF VersionInv, VersionsDistinct
  <2>3. CASE n = m /\ o \in Family(x)
    BY <1>1, <1>2, <1>4, <2>1, <2>3
  <2>4. CASE n \in Family(x) /\ o = m
    BY <1>1, <1>2, <1>4, <2>1, <2>4
  <2> QED BY <1>2, <2>1, <2>2, <2>3, <2>4
<1>6. ParentsStored'
  BY <1>1 DEF ParentsStored, VersionInv
<1>7. ASSUME NEW d \in Calls \ {c} PROVE OnTop(call[d])'
  <2> SUFFICES ASSUME call'[d].op = "version", Pending(call'[d]), call'[d].on \notin raced', NEW n \in Family(call[d].on)'
               PROVE  row'[n].version < call'[d].next
    BY DEF OnTop, Pending
  <2>1. call[d].op = "version" /\ Pending(call[d]) /\ call[d].on \notin raced'
    BY DEF Same, Alike, Pending
  <2>2. PICK y \in Models : y = call[d].on
    BY <2>1, Constants DEF Base, Held, Pending
  <2>3. row[y].state # "none" /\ call'[d].on = y /\ call'[d].next = call[d].next
    BY <2>1, <2>2 DEF Same, Alike, Base, Held, Pending
  <2>4. y # m
    BY <2>3, NoRowOK
  <2>5. p # y
    BY <2>1, <2>2, Constants
  <2>6. n \in Family(y) /\ n # m
    BY <1>1, <2>3, <2>4, <2>5 DEF Family
  <2>7. row'[n].version = row[n].version
    BY <1>1, <1>4, <2>6
  <2> QED BY <2>1, <2>2, <2>3, <2>6, <2>7 DEF VersionInv, OnTop
<1>8. (\A d \in Calls : OnTop(call[d]))'
  BY <1>7 DEF OnTop, Pending
<1> QED BY <1>5, <1>6, <1>8 DEF VersionInv

-----------------------------------------------------------------------------
(* A call without an id takes one in Number only.                          *)
Unnumbered(q) == ~(q.op = "version" /\ Pending(q))

LEMMA TakesNone ==
    ASSUME TypeOK, NEW c \in Calls, Step(c)
    PROVE  Unnumbered(call'[c]) \/ Number(c) \/ Demote(c)
<1>1. PICK r \in Call : r = call[c]
  BY DEF TypeOK
<1>2. call \in [Calls -> Call]
  BY DEF TypeOK
<1>3. ASSUME NEW ph \in {"bind", "promote", "invalidate", "mark", "unlink", "siblings", "unbind"}, Goto(c, ph)
      PROVE  Unnumbered(call'[c])
  <2>1. PICK x : x = [r EXCEPT !.phase = ph]
    OBVIOUS
  <2>2. call'[c] = x
    BY <1>1, <1>2, <1>3, <2>1 DEF Goto
  <2>3. x.op = r.op /\ x.phase = ph
    BY <2>1 DEF Call
  <2> QED BY <1>1, <2>2, <2>3 DEF Unnumbered, Pending
<1>4. ASSUME NEW v, Continue(c, v) PROVE Unnumbered(call'[c])
  <2>1. PICK p : p = AfterFind(r.op, v)
    OBVIOUS
  <2>2. PICK x : x = [r EXCEPT !.phase = p, !.seen = v]
    OBVIOUS
  <2>3. call'[c] = IF p = "idle" THEN IdleCall ELSE x
    BY <1>1, <1>2, <1>4, <2>1, <2>2 DEF Continue
  <2>4. x.op = r.op /\ x.phase = p
    BY <2>2 DEF Call
  <2>5. p # "insert" /\ (r.op = "version" => p # "demote")
    BY <2>1 DEF AfterFind
  <2> QED BY <1>1, <2>3, <2>4, <2>5, IdleOK DEF Unnumbered, Pending
<1>5. ASSUME call' = [call EXCEPT ![c] = IdleCall] \/ call' = Late([call EXCEPT ![c] = IdleCall])
      PROVE  Unnumbered(call'[c])
  <2>1. call'[c] \in {IdleCall, [IdleCall EXCEPT !.late = IdleCall.phase = "keep"]}
    BY <1>2, <1>5 DEF Late
  <2>2. call'[c].phase = "idle"
    BY <2>1 DEF IdleCall
  <2> QED BY <2>2 DEF Unnumbered, Pending
<1>6. CASE FindCached(c) \/ Keep(c)
  BY <1>4, <1>6 DEF FindCached, Keep
<1>7. CASE FindStored(c)
  <2>1. PICK x : x = [r EXCEPT !.phase = "keep", !.seen = View(r.on), !.late = FALSE]
    OBVIOUS
  <2>2. call'[c] = IF Findable(c) THEN x ELSE IdleCall
    BY <1>1, <1>2, <1>7, <2>1 DEF FindStored
  <2>3. x.op = r.op /\ x.phase = "keep"
    BY <2>1 DEF Call
  <2>4. Unnumbered(call'[c])
    BY <1>1, <2>2, <2>3, IdleOK DEF Unnumbered, Pending
  <2> QED BY <1>7, <2>4 DEF FindStored
<1>8. CASE Load(c)
  BY <1>3, <1>5, <1>8 DEF Load
<1>9. CASE Bind(c) \/ Invalidate(c) \/ Delete(c) \/ Fail(c)
  BY <1>5, <1>9 DEF Bind, Invalidate, Delete, Fail
<1>10. CASE InsertFirst(c) \/ InsertVersion(c) \/ DemoteAll(c) \/ Promote(c)
  BY <1>3, <1>10 DEF InsertFirst, InsertVersion, DemoteAll, Promote
<1>11. CASE Unbind(c) \/ Inherit(c) \/ Unmark(c) \/ DemoteSiblings(c)
  BY <1>3, <1>11 DEF Unbind, Inherit, Unmark, DemoteSiblings
<1>12. CASE Mark(c)
  <2>1. PICK ph \in {"invalidate", "heir"} : \E s : call' = [call EXCEPT ![c].phase = ph, ![c].seen = s]
    BY <1>12 DEF Mark
  <2>2. PICK s : call' = [call EXCEPT ![c].phase = ph, ![c].seen = s]
    BY <2>1
  <2>3. PICK x : x = [r EXCEPT !.phase = ph, !.seen = s]
    OBVIOUS
  <2>4. call'[c] = x
    BY <1>1, <1>2, <2>2, <2>3
  <2>5. x.op = r.op /\ x.phase = ph
    BY <2>3 DEF Call
  <2>6. Unnumbered(call'[c])
    BY <1>1, <2>4, <2>5 DEF Unnumbered, Pending
  <2> QED BY <1>12, <2>6 DEF Mark
<1>13. CASE Unlink(c)
  <2>1. PICK x : x = [r EXCEPT !.phase = "delete"]
    OBVIOUS
  <2>2. PICK y : y = [x EXCEPT !.late = x.phase = "keep"]
    OBVIOUS
  <2>3. call'[c] = y
    BY <1>1, <1>2, <1>13, <2>1, <2>2 DEF Unlink, Late
  <2>4. x \in Call /\ x.op = r.op /\ x.phase = "delete"
    BY <2>1 DEF Call, Phases
  <2>5. y.op = r.op /\ y.phase = "delete"
    BY <2>2, <2>4 DEF Call
  <2>6. Unnumbered(call'[c])
    BY <1>1, <2>3, <2>5 DEF Unnumbered, Pending
  <2> QED BY <1>13, <2>6 DEF Unlink
<1>14. CASE Number(c) \/ Demote(c)
  BY <1>14 DEF Number, Demote
<1> QED BY <1>6, <1>7, <1>8, <1>9, <1>10, <1>11, <1>12, <1>13, <1>14 DEF Step

LEMMA VersionPlain ==
    ASSUME Base, VersionInv, Relabelled, raced' = raced, NEW c \in Calls,
           \A d \in Calls \ {c} : Same(call[d], call'[d]), OnTop(call[c])'
    PROVE  VersionInv'
<1>1. Stored' = Stored
  BY Relabelling
<1>2. \A m \in Stored' : /\ row'[m].version = row[m].version
                         /\ row'[m].parent \in {row[m].parent, None} \cap (Stored' \cup {None})
  BY <1>1, FamilyIsStored DEF Relabelled, VersionInv, ParentsStored
<1> QED BY <1>1, <1>2, VersionKept

LEMMA VersionStep ==
    ASSUME Base, VersionInv, NEW c \in Calls, Step(c)
    PROVE  VersionInv'
<1>1. (\A d \in Calls \ {c} : Same(call[d], call'[d])) /\ TypeOK
  BY Elsewhere DEF Base
<1>2. call[c] \in Call /\ call \in [Calls -> Call] /\ Held(call[c])
  BY DEF Base, TypeOK
<1>3. CASE Number(c)
  <2>1. PICK n \in NextNumber(call[c].on) :
          \E m : call' = [call EXCEPT ![c].phase = "demote", ![c].new = m, ![c].next = n]
    BY <1>3 DEF Number
  <2>2. call'[c].next = n /\ call'[c].on = call[c].on
    BY <1>2, <2>1 DEF Call
  <2>3. row' = row /\ raced' = raced
    BY <1>3 DEF Number, history
  <2>4. \A o \in Family(call[c].on) : row[o].version < n
    <3>1. PICK v \in {1} \cup {row[o].version : o \in Family(call[c].on)} :
            n = v + 1 /\ \A o \in Family(call[c].on) : row[o].version <= v
      BY <2>1 DEF NextNumber
    <3>2. \A o \in Stored : row[o].version \in Nat
      BY FamilyIsStored DEF Base, TypeOK, Table, Row
    <3>3. v \in Nat
      BY <3>1, <3>2, FamilyIsStored
    <3>4. SUFFICES ASSUME NEW o \in Family(call[c].on) PROVE row[o].version < n
      OBVIOUS
    <3>5. row[o].version \in Nat /\ row[o].version <= v
      BY <3>1, <3>2, FamilyIsStored
    <3> QED BY <3>1, <3>3, <3>5
  <2>5. OnTop(call[c])'
    BY <2>2, <2>3, <2>4 DEF OnTop, Family, Stored
  <2> QED BY <1>1, <2>3, <2>5, RowsKept, VersionPlain
<1>4. CASE Demote(c)
  <2>1. /\ call'[c].op = call[c].op /\ call'[c].next = call[c].next /\ call'[c].on = call[c].on
    BY <1>2, <1>4 DEF Call, Demote
  <2>2. row' = row /\ raced' = raced /\ Pending(call[c])
    BY <1>4 DEF Demote, history, Pending, At
  <2>3. OnTop(call[c])'
    BY <2>1, <2>2 DEF OnTop, Family, Stored, VersionInv
  <2> QED BY <1>1, <2>2, <2>3, RowsKept, VersionPlain
<1>5. ASSUME Unnumbered(call'[c]) PROVE OnTop(call[c])'
  BY <1>5 DEF OnTop, Unnumbered, Pending
<1>6. ASSUME Unnumbered(call'[c]), Relabelled, raced' = raced PROVE VersionInv'
  BY <1>1, <1>5, <1>6, VersionPlain
<1>7. CASE Unnumbered(call'[c])
  <2>1. CASE FindCached(c) \/ FindStored(c) \/ Keep(c) \/ Load(c) \/ Bind(c)
    BY <1>6, <1>7, <2>1, RowsKept DEF FindCached, FindStored, Keep, Load, Bind, history
  <2>2. CASE Unbind(c) \/ Invalidate(c) \/ Unlink(c) \/ Fail(c)
    BY <1>6, <1>7, <2>2, RowsKept DEF Unbind, Invalidate, Unlink, Fail, history
  <2>3. CASE DemoteAll(c) \/ Promote(c) \/ Mark(c)
    BY <1>6, <1>7, <2>3, DemoteAllBase, PromoteBase, MarkBase DEF DemoteAll, Promote, Mark, history
  <2>4. CASE Inherit(c) \/ Unmark(c) \/ DemoteSiblings(c)
    BY <1>6, <1>7, <2>4, InheritBase, UnmarkBase, DemoteSiblingsBase DEF Inherit, Unmark, DemoteSiblings
  <2>5. CASE Delete(c)
    <3>1. PICK m \in Stored : m = call[c].on
      BY <2>5 DEF Delete
    <3>2. /\ Stored' = Stored \ {m} /\ raced' = raced
          /\ \A n \in Models \ {m} : /\ row'[n].version = row[n].version
                                     /\ row'[n].parent = IF row[n].parent = m THEN None ELSE row[n].parent
      BY <2>5, <3>1, Deleted DEF Delete
    <3>3. \A n \in Stored' : /\ row'[n].version = row[n].version
                             /\ row'[n].parent \in {row[n].parent, None} \cap (Stored' \cup {None})
      BY <3>2, FamilyIsStored DEF VersionInv, ParentsStored
    <3> QED BY <1>1, <1>5, <1>7, <3>2, <3>3, VersionKept
  <2>6. ASSUME At(c, "upload", "insert") \/ At(c, "version", "insert"), Goto(c, "invalidate")
        PROVE  /\ call[c].new \in Models /\ row[call[c].new] = NoRow /\ call'[c].phase = "invalidate"
               /\ call[c].new \notin Stored
    <3>1. Pending(call[c]) /\ files \subseteq Models
      BY <1>1, <2>6 DEF Pending, At, TypeOK
    <3>2. call'[c].phase = "invalidate"
      BY <1>2, <2>6 DEF Goto, Call
    <3> QED BY <1>2, <3>1, <3>2, NoRowOK DEF Held, Stored
  <2>7. CASE InsertFirst(c)
    <3>1. PICK m : m = call[c].new
      OBVIOUS
    <3>2. /\ row' = [row EXCEPT ![m] = FirstVersion] /\ raced' = raced
          /\ m \in Models /\ row[m] = NoRow /\ call'[c].phase = "invalidate" /\ m \notin Stored
      BY <2>6, <2>7, <3>1 DEF InsertFirst
    <3>3. FirstVersion \in Row /\ FirstVersion.state = "live" /\ FirstVersion.parent = None
      BY DEF FirstVersion, Row
    <3>4. Unset({}) = row
      BY DEF Unset, Base, TypeOK, Table
    <3>5. /\ Stored' = Stored \cup {m} /\ row'[m] = FirstVersion
          /\ \A n \in Models \ {m} : row'[n].version = row[n].version /\ row'[n].parent = row[n].parent
      BY <3>2, <3>3, <3>4, Inserted
    <3> QED BY <1>1, <1>5, <1>7, <3>2, <3>3, <3>5, VersionInserted
  <2>8. CASE InsertVersion(c)
    <3>1. PICK m : m = call[c].new
      OBVIOUS
    <3>2. PICK r \in Row, S \in SUBSET Stored :
            /\ r.state = "live" /\ r.version = call[c].next /\ r.parent = call[c].on
            /\ row' = [Unset(S) EXCEPT ![m] = r]
      BY <2>8, <3>1, VersionRow
    <3>3. /\ m \in Models /\ row[m] = NoRow /\ call'[c].phase = "invalidate" /\ m \notin Stored
          /\ At(c, "version", "insert") /\ call[c].on \in Stored
          /\ raced' = raced \cup ({call[c].on} \cap Numbered(c))
      BY <2>6, <2>8, <3>1 DEF InsertVersion
    <3>4. /\ Stored' = Stored \cup {m} /\ row'[m] = r
          /\ \A n \in Models \ {m} : row'[n].version = row[n].version /\ row'[n].parent = row[n].parent
      BY <3>2, <3>3, Inserted
    <3>5. call[c].on \in raced' \/ \A n \in Family(call[c].on) : row[n].version # row'[m].version
      <4>1. CASE call[c].on \notin raced
        <5>1. \A n \in Family(call[c].on) : row[n].version < call[c].next
          BY <3>3, <4>1 DEF VersionInv, OnTop, Pending, At
        <5>2. \A n \in Family(call[c].on) : row[n].version \in Nat
          BY FamilyIsStored DEF Base, TypeOK, Table, Row
        <5>3. call[c].next \in Nat
          BY <1>2 DEF Call
        <5> QED BY <3>2, <3>4, <5>1, <5>2, <5>3
      <4> QED BY <3>3, <4>1
    <3>6. raced \subseteq raced'
      BY <3>3
    <3>7. ASSUME NEW d \in Calls \ {c}, call[d].op = "version", Pending(call[d]), call[d].on = call[c].on
          PROVE  call[c].on \in raced'
      <4>1. call[d].on \in Numbered(c)
        BY <3>7 DEF Numbered, Pending
      <4> QED BY <3>3, <3>7, <4>1
    <3> QED BY <1>1, <1>5, <1>7, <3>2, <3>3, <3>4, <3>5, <3>6, <3>7, VersionInserted
  <2>9. CASE Number(c) \/ Demote(c)
    BY <1>3, <1>4, <2>9
  <2> QED BY <2>1, <2>2, <2>3, <2>4, <2>5, <2>7, <2>8, <2>9 DEF Step
<1> QED BY <1>1, <1>3, <1>4, <1>7, TakesNone

LEMMA VersionNext == Base /\ VersionInv /\ [Next]_vars => VersionInv'
<1> SUFFICES ASSUME Base, VersionInv, [Next]_vars PROVE VersionInv'
  OBVIOUS
<1>1. ASSUME NEW c \in Calls, NEW op \in Ops, NEW k \in Keys, Begin(c, op, k) PROVE VersionInv'
  <2>1. /\ \A d \in Calls \ {c} : Same(call[d], call'[d])
        /\ call[c].phase = "idle" /\ call'[c].op = op /\ call'[c].phase \notin {"keep", "idle", "demote"}
        /\ call'[c].phase = "insert" => op = "upload"
    BY <1>1, BeginElsewhere DEF Base
  <2>2. OnTop(call[c])'
    BY <2>1 DEF OnTop, Pending
  <2>3. row' = row /\ raced' = raced
    BY <1>1 DEF Begin
  <2> QED BY <2>1, <2>2, <2>3, RowsKept, VersionPlain
<1>2. ASSUME UNCHANGED <<row, raced>>, (\A c \in Calls : call'[c] = IdleCall) \/ call' = call
      PROVE  VersionInv'
  <2>1. VersionsDistinct'
    BY <1>2 DEF VersionInv, VersionsDistinct, Family, Stored
  <2>2. ParentsStored'
    BY <1>2 DEF VersionInv, ParentsStored, Stored
  <2>3. (\A c \in Calls : OnTop(call[c]))'
    BY <1>2, IdleOK DEF VersionInv, OnTop, Pending, Family, Stored
  <2> QED BY <2>1, <2>2, <2>3 DEF VersionInv
<1>3. CASE Restart
  BY <1>2, <1>3 DEF Restart
<1>4. ASSUME NEW k \in Keys, Expire(k) PROVE VersionInv'
  BY <1>2, <1>4 DEF Expire
<1>5. CASE UNCHANGED vars
  BY <1>2, <1>5 DEF vars
<1> QED BY <1>1, <1>3, <1>4, <1>5, VersionStep DEF Next

-----------------------------------------------------------------------------
LEMMA AtMostOne ==
    ASSUME NEW S \in SUBSET Models, Cardinality(S) <= 1, NEW x \in S
    PROVE  S = {x}
<1>1. IsFiniteSet(S)
  BY FS_Subset, ModelsAssumption
<1>2. /\ IsFiniteSet(S \ {x}) /\ Cardinality(S \ {x}) = Cardinality(S) - 1
      /\ Cardinality(S) \in Nat /\ Cardinality(S \ {x}) \in Nat
  BY <1>1, FS_RemoveElement, FS_CardinalityType
<1>3. Cardinality(S \ {x}) = 0
  BY <1>2
<1>4. S \ {x} = {}
  BY <1>2, <1>3, FS_EmptySet
<1> QED BY <1>4

LEMMA InitInvs == Init => Base /\ RowHasFile /\ CacheInv /\ VersionInv
<1> SUFFICES ASSUME Init PROVE Base /\ RowHasFile /\ CacheInv /\ VersionInv
  OBVIOUS
<1>1. PICK m \in Models, second \in SUBSET Models :
        /\ m \notin second /\ Cardinality(second) <= 1
        /\ row = [n \in Models |->
             IF n = m THEN [FirstVersion EXCEPT !.latest = second = {}]
             ELSE IF n \in second THEN [FirstVersion EXCEPT !.version = 2, !.parent = m] ELSE NoRow]
        /\ files = {m} \cup second /\ cache = [k \in Keys |-> None]
        /\ call = [c \in Calls |-> IdleCall]
  BY DEF Init
<1>2. /\ row[m].state = "live" /\ row[m].version = 1 /\ row[m].parent = None
      /\ \A n \in second : row[n].state = "live" /\ row[n].version = 2 /\ row[n].parent = m
      /\ \A n \in Models : n # m /\ n \notin second => row[n] = NoRow
  BY <1>1 DEF FirstVersion
<1>3. Stored = {m} \cup second
  BY <1>2, NoRowOK DEF Stored
<1>4. \A c \in Calls : call[c] = IdleCall
  BY <1>1
<1>5. \A x, y \in second : x = y
  BY <1>1, AtMostOne
<1>6. RowHasFile
  BY <1>1, <1>3 DEF RowHasFile
<1>7. CacheInv
  BY <1>1, <1>4, IdleOK DEF CacheInv
<1>8. VersionInv
  <2>1. VersionsDistinct
    BY <1>2, <1>3, <1>5 DEF VersionsDistinct, Family
  <2>2. ParentsStored
    BY <1>2, <1>3 DEF ParentsStored
  <2> QED BY <1>4, <2>1, <2>2, IdleOK DEF VersionInv, OnTop, Pending
<1> QED BY <1>6, <1>7, <1>8, BaseInit

(* Every state is typed.                                                   *)
THEOREM VersionTypes == Spec => []TypeOK
<1>1. Base => TypeOK
  BY DEF Base
<1> QED BY <1>1, BaseInit, BaseNext, PTL DEF Spec

(* Soft deletions, rollbacks, failures and restarts never leave a row      *)
(* without its file: only a permanent removal that has unlinked the file   *)
(* and not deleted the row does.                                           *)
THEOREM RowHasFileCorrect == Spec => []RowHasFile
<1>1. Base /\ RowHasFile /\ [Next]_vars => (Base /\ RowHasFile)'
  BY BaseNext, FileNext
<1> QED BY <1>1, InitInvs, PTL DEF Spec

(* With no writer on its way, the cache answers what the database would,   *)
(* but for entries known to have been read before a change.                *)
THEOREM CacheFreshCorrect == Spec => []CacheFresh
<1>1. Base /\ CacheInv /\ [Next]_vars => (Base /\ CacheInv)'
  BY BaseNext, CacheNext
<1> QED BY <1>1, InitInvs, CacheInvMeans, PTL DEF Spec

(* Equal version numbers in a family come only from uploads onto its model *)
(* of which one was committed when the other had its number.               *)
THEOREM VersionsDistinctCorrect == Spec => []VersionsDistinct
<1>1. Base /\ VersionInv /\ [Next]_vars => (Base /\ VersionInv)'
  BY BaseNext, VersionNext
<1>2. VersionInv => VersionsDistinct
  BY DEF VersionInv
<1> QED BY <1>1, <1>2, InitInvs, PTL DEF Spec

-----------------------------------------------------------------------------
(* OneLatest.  A call that is not alone, or that is cut off, puts families *)
(* into disorder that Kin reaches, for what a call goes by is a row of its *)
(* model that it, or the cache, has read: Memory says how far that row may *)
(* be trusted.  Upsets says which call is about to put a tidy family right *)
(* again, and Ready that it will when it is alone.                         *)
Writer(q) == q.phase # "idle" /\ q.op \in Writers
Gone(m) == row[m].state = "gone"

(* A call that goes by a row that it has read.                             *)
Recalls(q) ==
    \/ q.phase = "keep" /\ q.op # "list"
    \/ q.op = "rollback" /\ q.phase \in {"demote", "promote"}
    \/ q.op = "remove" /\ q.phase = "heir"
    \/ q.op = "restore" /\ q.phase \in {"unmark", "siblings"}

(* What the cache and the calls have read of a model.                      *)
Recalled(k) ==
    ({cache[k]} \ {None}) \cup {call[c].seen : c \in {d \in Calls : Recalls(call[d]) /\ call[d].on = k}}

(* Its parent is that of the row, but for models that are gone.            *)
Told(r, k) ==
    /\ row[k].state # "none"
    /\ r.parent # None => row[r.parent].state # "none"
    /\ \/ row[k].parent = r.parent \/ Gone(k)
       \/ row[k].parent = None /\ Gone(r.parent)

Remembering == \A k \in Models : \A r \in Recalled(k) : Told(r, k)

(* A writer of a model that is gone can no longer reach a tidy family.     *)
Lost(r) == r.parent # None => r.parent \notin tidy /\ row[r.parent].parent \notin tidy
Watched(k) == \E c \in Calls : Writer(call[c]) /\ call[c].on = k

Forgotten == \A k \in Models : Gone(k) /\ Watched(k) => \A r \in Recalled(k) : Lost(r)

(* A version that was deleted, and is not the row of a root.               *)
Old(r) == r.state = "deleted" /\ r.parent # None
Clearing == \E c \in Calls : call[c].op \in Writers /\ call[c].phase = "invalidate"

CacheKnows == \A k \in tidy : cache[k] # None /\ Old(cache[k]) => Clearing

Knows(q) ==
    /\ q.phase = "keep" /\ q.op # "list" =>
         (q.seen.state # "live" => q.op = "restore") /\ (q.on \in tidy => ~Old(q.seen))
    /\ q.op = "restore" /\ q.phase = "siblings" => q.seen.parent # None
    /\ q.op = "restore" /\ q.phase \in {"unmark", "siblings"} /\ q.alone /\ q.on \in tidy => q.seen.parent = None

Memory == Remembering /\ Forgotten /\ CacheKnows /\ \A c \in Calls : Knows(call[c])

Barren == \A m \in Models \ Stored : row[m].parent = None
TidyRoots == \A m \in tidy : m \in Stored /\ row[m].parent = None
OneAlone == \A c, d \in Calls : c # d /\ Writer(call[c]) /\ Writer(call[d]) => ~call[c].alone

(* What an upload is about to demote is in the family that it uploads onto.*)
HitsFamily(q) ==
    q.op = "version" /\ q.phase = "insert" =>
      \A n \in q.hit : row[n].state # "none" /\ (n \in Stored /\ q.on \in Stored => n = q.on \/ row[n].parent = q.on)

Order == Barren /\ TidyRoots /\ OneAlone /\ \A c \in Calls : HitsFamily(call[c])

Neat(m) == \E n \in Live : Latest(Family(m)) = {n}

(* The call has taken the latest version from a family and has yet to give *)
(* it another.                                                             *)
Upset(q, m) ==
    \/ q.op = "rollback" /\ q.phase = "promote" /\ (m = RootOf(q.seen, q.on) \/ m = row[RootOf(q.seen, q.on)].parent)
    \/ q.op = "remove" /\ q.phase = "heir" /\ m = row[q.on].parent
    \/ q.op = "restore" /\ q.phase = "siblings" /\ (m = q.on \/ m = row[q.on].parent)

Upsets == \A m \in tidy : Neat(m) \/ \E c \in Calls : Upset(call[c], m)

Ready(q) ==
    /\ q.op = "version" /\ q.phase = "insert" => Latest(Family(q.on)) \subseteq q.hit
    /\ q.op = "rollback" /\ q.phase = "promote" => Latest(Family(RootOf(q.seen, q.on))) = {}
    /\ q.op = "remove" /\ q.phase = "heir" /\ q.seen.parent \in tidy /\ q.seen.latest =>
         Latest(Family(q.seen.parent)) = {}
    /\ q.op = "restore" /\ q.phase = "siblings" /\ q.seen.parent \in tidy =>
         /\ row[q.on].parent = q.seen.parent /\ q.on \in Live /\ row[q.on].latest
         /\ Latest(Family(q.seen.parent)) \subseteq Live

Readies == \A c \in Calls : call[c].alone => Ready(call[c])

LatestInv == VersionInv /\ Memory /\ Order /\ Upsets /\ Readies

LEMMA RecalledIs ==
    ASSUME NEW k, NEW r
    PROVE  r \in Recalled(k) <=> \/ r = cache[k] /\ r # None
                                 \/ \E c \in Calls : Recalls(call[c]) /\ call[c].on = k /\ r = call[c].seen
  BY DEF Recalled

LEMMA RecalledIsNext ==
    ASSUME NEW k, NEW r
    PROVE  r \in Recalled(k)' <=> \/ r = cache'[k] /\ r # None
                                  \/ \E c \in Calls : Recalls(call'[c]) /\ call'[c].on = k /\ r = call'[c].seen
  BY DEF Recalled, Recalls

LEMMA RecallsRow ==
    ASSUME Base, NEW c \in Calls, Recalls(call[c])
    PROVE  call[c].on \in Models /\ call[c].seen \in Row /\ call[c].op # "list"
  BY Constants DEF Base, Held, Recalls

LEMMA RecalledRow ==
    ASSUME Base, NEW k \in Models, NEW r \in Recalled(k)
    PROVE  r \in Row /\ r.parent \in Models \cup {None}
<1>1. r \in Row
  BY RecalledIs, RecallsRow DEF Base, TypeOK
<1> QED BY <1>1 DEF Row

LEMMA RowsAre ==
    ASSUME Base
    PROVE  /\ \A m \in Models :
                /\ row[m] \in Row /\ row[m].parent \in Models \cup {None} /\ row[m].latest \in BOOLEAN
                /\ row[m].state \in {"none", "live", "deleted", "gone"}
           /\ \A m : m \in Stored <=> m \in Models /\ row[m].state \in {"live", "deleted"}
           /\ \A m : m \in Live <=> m \in Models /\ row[m].state = "live"
           /\ tidy \subseteq Models /\ None \notin Models
  BY Constants DEF Base, TypeOK, Table, Row, Stored, Live

(* A step keeps rows and their parents, but where a model is deleted for   *)
(* good.                                                                   *)
Ages ==
    \A m \in Models : row[m].state # "none" =>
      /\ row'[m].state # "none"
      /\ Gone(m) => row'[m].state = "gone"
      /\ \/ row'[m].parent = row[m].parent
         \/ row'[m].parent = None /\ (row'[m].state = "gone" \/ row'[row[m].parent].state = "gone")

LEMMA RelabelledAges ==
    ASSUME Base, Relabelled
    PROVE  Ages /\ \A m \in Models : row'[m].state = "gone" => Gone(m)
  BY RowsAre DEF Ages, Relabelled, Gone

(* A row that a call reads is remembered until it changes.                 *)
Learned(q, p) ==
    Recalls(p) => \/ Recalls(q) /\ p.on = q.on /\ p.seen = q.seen
                  \/ p.on \in Models /\ cache[p.on] # None /\ p.seen = cache[p.on]
                  \/ p.on \in Stored /\ p.seen = row[p.on]

Keeping(q) == q.phase = "keep" /\ q.op # "list"

CacheLearned(c) ==
    \A k \in Models : \/ cache'[k] \in {None, cache[k]}
                      \/ Keeping(call[c]) /\ call[c].on = k /\ cache'[k] = call[c].seen

LEMMA Hearsay ==
    ASSUME Base, NEW c \in Calls, \A d \in Calls \ {c} : Same(call[d], call'[d]),
           Learned(call[c], call'[c]), CacheLearned(c), NEW k \in Models, NEW r \in Recalled(k)'
    PROVE  r \in Recalled(k) \/ (k \in Stored /\ r = row[k])
<1>1. CASE r = cache'[k] /\ r # None
  <2>1. CASE r = cache[k]
    BY <1>1, <2>1, RecalledIs
  <2>2. CASE r # cache[k]
    <3>1. Keeping(call[c]) /\ call[c].on = k /\ r = call[c].seen
      BY <1>1, <2>2 DEF CacheLearned
    <3>2. Recalls(call[c])
      BY <3>1 DEF Keeping, Recalls
    <3> QED BY <3>1, <3>2, RecalledIs
  <2> QED BY <2>1, <2>2
<1>2. ASSUME NEW d \in Calls, Recalls(call'[d]), call'[d].on = k, r = call'[d].seen
      PROVE  r \in Recalled(k) \/ (k \in Stored /\ r = row[k])
  <2>1. CASE d # c
    <3>1. Recalls(call[d]) /\ call[d].on = k /\ r = call[d].seen
      BY <1>2, <2>1 DEF Same, Alike, Recalls
    <3> QED BY <3>1, RecalledIs
  <2>2. CASE d = c
    BY <1>2, <2>2, RecalledIs DEF Learned
  <2> QED BY <2>1, <2>2
<1> QED BY <1>1, <1>2, RecalledIsNext

LEMMA ToldRow ==
    ASSUME Base, VersionInv, NEW k \in Stored
    PROVE  Told(row[k], k) /\ row[k].parent \in Models \cup {None}
  BY RowsAre DEF Told, VersionInv, ParentsStored

LEMMA ToldStays ==
    ASSUME Base, Ages, NEW k \in Models, NEW r, r.parent \in Models \cup {None}, Told(r, k)
    PROVE  Told(r, k)'
<1>1. row[k].state # "none" /\ row'[k].state # "none"
  BY DEF Told, Ages
<1>2. r.parent # None => row'[r.parent].state # "none" /\ (Gone(r.parent) => row'[r.parent].state = "gone")
  BY DEF Told, Ages
<1>3. (row'[k].parent = r.parent \/ row'[k].state = "gone"
         \/ (row'[k].parent = None /\ row'[r.parent].state = "gone"))
  <2>1. CASE Gone(k)
    BY <1>1, <2>1 DEF Ages
  <2>2. CASE row[k].parent = r.parent
    BY <1>1, <1>2, <2>2 DEF Ages
  <2>3. CASE row[k].parent = None /\ Gone(r.parent)
    <3>1. row'[k].parent = None
      BY <1>1, <2>3 DEF Ages
    <3> QED BY <1>2, <2>3, <3>1
  <2> QED BY <2>1, <2>2, <2>3 DEF Told
<1> QED BY <1>1, <1>2, <1>3 DEF Told, Gone

LEMMA Remembered ==
    ASSUME Base, VersionInv, Remembering, Ages, NEW c \in Calls,
           \A d \in Calls \ {c} : Same(call[d], call'[d]), Learned(call[c], call'[c]), CacheLearned(c)
    PROVE  /\ Remembering'
           /\ \A k \in Models : \A r \in Recalled(k)' :
                Told(r, k) /\ r.parent \in Models \cup {None} /\ (r \in Recalled(k) \/ (k \in Stored /\ r = row[k]))
<1>1. ASSUME NEW k \in Models, NEW r \in Recalled(k)'
      PROVE  /\ Told(r, k) /\ r.parent \in Models \cup {None}
             /\ r \in Recalled(k) \/ (k \in Stored /\ r = row[k])
  <2>1. r \in Recalled(k) \/ (k \in Stored /\ r = row[k])
    BY <1>1, Hearsay
  <2>2. r \in Recalled(k) => Told(r, k) /\ r.parent \in Models \cup {None}
    BY RecalledRow DEF Remembering
  <2>3. k \in Stored => Told(row[k], k) /\ row[k].parent \in Models \cup {None}
    BY ToldRow
  <2> QED BY <2>1, <2>2, <2>3
<1>2. ASSUME NEW k \in Models, NEW r \in Recalled(k)' PROVE Told(r, k)'
  BY <1>1, <1>2, ToldStays
<1>3. Remembering'
  BY <1>2 DEF Remembering
<1> QED BY <1>1, <1>3

(* A call is alone and makes its last write: only then a family that is    *)
(* stored becomes tidy.                                                    *)
Solo(c) ==
    /\ Writer(call[c]) /\ call[c].alone /\ call[c].on \in Stored'
    /\ call'[c].op \in Writers /\ call'[c].phase = "invalidate"

Tidies(c) == \A g \in tidy' \ tidy : row[g].state = "none" \/ Solo(c)

LEMMA SoloMeans ==
    ASSUME OneAlone, NEW c \in Calls, NEW d \in Calls, Solo(c), Writer(call[d])
    PROVE  d = c
  BY DEF OneAlone, Solo

LEMMA WriterSame ==
    ASSUME NEW q, NEW p, Same(q, p)
    PROVE  (Writer(p) <=> Writer(q)) /\ p.on = q.on /\ p.op = q.op /\ p.phase = q.phase /\ p.seen = q.seen
           /\ p.hit = q.hit /\ (p.alone => q.alone)
  BY DEF Same, Alike, Writer

(* A step that deletes no model for good.                                  *)
LEMMA MemoryStep ==
    ASSUME Base, Base', VersionInv, Order, Memory, NEW c \in Calls,
           \A d \in Calls \ {c} : Same(call[d], call'[d]),
           Ages, \A m \in Models : row'[m].state = "gone" => Gone(m),
           Learned(call[c], call'[c]), CacheLearned(c), Tidies(c), Knows(call[c])',
           Writer(call'[c]) => call'[c].on \in Stored' \/ (Writer(call[c]) /\ call'[c].on = call[c].on),
           Clearing => Clearing' \/ \A k \in Models : cache'[k] = None
    PROVE  Memory'
<1>1. /\ Remembering'
      /\ \A k \in Models : \A r \in Recalled(k)' :
           Told(r, k) /\ r.parent \in Models \cup {None} /\ (r \in Recalled(k) \/ (k \in Stored /\ r = row[k]))
  BY Remembered DEF Memory
<1>2. tidy' \subseteq Models /\ None \notin Models /\ tidy \subseteq Models
  BY Constants DEF Base, TypeOK
<1>3. ASSUME NEW k \in Models, Gone(k)', Watched(k)', NEW r \in Recalled(k)' PROVE Lost(r)'
  <2>1. Gone(k) /\ k \notin Stored /\ r \in Recalled(k) /\ Told(r, k) /\ r.parent \in Models \cup {None}
    BY <1>1, <1>3 DEF Gone, Stored
  <2>2. PICK d \in Calls : Writer(call'[d]) /\ call'[d].on = k
    BY <1>3 DEF Watched, Writer
  <2>3. Writer(call[d]) /\ call[d].on = k
    BY <1>3, <2>2, WriterSame DEF Gone, Stored
  <2>4. Lost(r)
    BY <2>1, <2>3 DEF Memory, Forgotten, Watched
  <2>5. ~Solo(c)
    BY <1>3, <2>3, SoloMeans DEF Order, Solo, Gone, Stored
  <2> SUFFICES ASSUME r.parent # None PROVE r.parent \notin tidy' /\ row'[r.parent].parent \notin tidy'
    BY DEF Lost
  <2>6. /\ r.parent \in Models /\ row[r.parent].state # "none"
        /\ r.parent \notin tidy /\ row[r.parent].parent \notin tidy
    BY <2>1, <2>4 DEF Told, Lost
  <2>7. r.parent \notin tidy'
    BY <2>5, <2>6 DEF Tidies
  <2>8. row'[r.parent].parent \in {row[r.parent].parent, None}
    BY <2>6 DEF Ages
  <2>9. row[r.parent].parent = None \/ row[row[r.parent].parent].state # "none"
    BY <2>6, RowsAre DEF VersionInv, ParentsStored, Order, Barren
  <2> QED BY <1>2, <2>5, <2>6, <2>7, <2>8, <2>9 DEF Tidies
<1>4. Forgotten'
  BY <1>3 DEF Forgotten
<1>5. ASSUME NEW k \in tidy', cache'[k] # None, Old(cache'[k]) PROVE Clearing'
  <2>1. k \in Models
    BY <1>2
  <2>2. cache'[k] \in Recalled(k) /\ cache'[k] \in Row
    <3>1. CASE cache'[k] = cache[k]
      BY <1>5, <2>1, <3>1, RecalledIs, RecalledRow
    <3>2. CASE Keeping(call[c]) /\ call[c].on = k /\ cache'[k] = call[c].seen
      <4>1. Recalls(call[c])
        BY <3>2 DEF Keeping, Recalls
      <4> QED BY <2>1, <3>2, <4>1, RecalledIs, RecallsRow
    <3> QED BY <1>5, <2>1, <3>1, <3>2 DEF CacheLearned
  <2>3. row[k].state # "none"
    BY <2>1, <2>2 DEF Memory, Remembering, Told
  <2>4. CASE k \notin tidy
    BY <2>3, <2>4 DEF Tidies, Solo, Clearing
  <2>5. CASE k \in tidy
    <3>1. cache'[k] = cache[k]
      BY <1>5, <2>1, <2>5 DEF CacheLearned, Memory, Knows, Keeping
    <3>2. Clearing
      BY <1>5, <2>5, <3>1 DEF Memory, CacheKnows
    <3> QED BY <1>5, <2>1, <3>2
  <2> QED BY <2>4, <2>5
<1>6. CacheKnows'
  BY <1>5 DEF CacheKnows, Old
<1>7. ASSUME NEW d \in Calls \ {c} PROVE Knows(call[d])'
  <2>1. PICK q \in Call : q = call[d]
    BY DEF Base, TypeOK
  <2>2. PICK p \in Call : p = call'[d]
    BY DEF Base, TypeOK
  <2>3. /\ p.on = q.on /\ p.op = q.op /\ p.phase = q.phase /\ p.seen = q.seen /\ (p.alone => q.alone)
    BY <2>1, <2>2, WriterSame
  <2>4. Knows(q)
    BY <2>1 DEF Memory
  <2>5. ASSUME q.phase # "idle", q.op \notin {"upload", "list"}, q.on \in tidy', q.on \notin tidy
        PROVE  Solo(c) /\ ~Writer(q)
    <3>1. row[q.on].state # "none"
      BY <2>1, <2>5 DEF Base, Held
    <3>2. Solo(c)
      BY <2>5, <3>1 DEF Tidies
    <3> QED BY <2>1, <3>2, SoloMeans DEF Order
  <2>6. q.phase = "keep" => q.op # "upload"
    BY <2>1, Paths DEF Base, Held
  <2>7. ASSUME q.phase = "keep", q.op # "list", q.on \in tidy' PROVE ~Old(q.seen)
    BY <2>4, <2>5, <2>6, <2>7 DEF Knows, Old, Writer, Writers
  <2>8. ASSUME q.op = "restore", q.phase \in {"unmark", "siblings"}, q.alone, q.on \in tidy'
        PROVE  q.seen.parent = None
    BY <2>4, <2>5, <2>8 DEF Knows, Writer, Writers
  <2>9. Knows(p)'
    BY <2>3, <2>4, <2>7, <2>8 DEF Knows, Old
  <2> QED BY <2>2, <2>9 DEF Knows, Old
<1>8. (\A d \in Calls : Knows(call[d]))'
  <2> SUFFICES ASSUME NEW d \in Calls PROVE Knows(call[d])'
    OBVIOUS
  <2> QED BY <1>7
<1> QED BY <1>1, <1>4, <1>6, <1>8 DEF Memory

LEMMA Deletes ==
    ASSUME Base, NEW c \in Calls, Delete(c)
    PROVE  \E m \in Stored :
             /\ m = call[c].on /\ call[c].op = "permanent" /\ call[c].phase = "delete" /\ Writer(call[c])
             /\ row' \in Table /\ Stored' = Stored \ {m} /\ Ages /\ row'[m].parent = None
             /\ \A n \in Models \ {m} : row'[n] = IF row[n].parent = m THEN [row[n] EXCEPT !.parent = None] ELSE row[n]
             /\ \A n \in Models : row'[n].state = "gone" => Gone(n) \/ n = m
             /\ UNCHANGED cache /\ call'[c].phase = "idle"
             /\ \/ tidy' = tidy /\ call[c].alone /\ ~row[m].latest /\ row[m].parent # None
                \/ tidy' = tidy \ Kin(m)
<1>1. PICK m : m = call[c].on
  OBVIOUS
<1>2. /\ m \in Stored /\ call[c].op = "permanent" /\ call[c].phase = "delete" /\ UNCHANGED cache
      /\ call' = Late([call EXCEPT ![c] = IdleCall])
      /\ row' = [n \in Models |->
             IF n = m THEN [NoRow EXCEPT !.state = "gone"]
             ELSE IF row[n].parent = m THEN [row[n] EXCEPT !.parent = None] ELSE row[n]]
      /\ \/ tidy' = tidy \cup {} /\ call[c].alone /\ ~row[m].latest /\ row[m].parent # None
         \/ tidy' = tidy \ Kin(m)
  BY <1>1 DEF Delete, At, Settle
<1>3. /\ row' \in Table /\ RowsStay /\ Stored' = Stored \ {m}
      /\ \A n \in Models \ {m} :
           /\ row'[n].version = row[n].version
           /\ row'[n].parent = IF row[n].parent = m THEN None ELSE row[n].parent
  BY <1>2, Deleted
<1>4. m \in Models /\ row'[m] = [NoRow EXCEPT !.state = "gone"] /\ row'[m].state = "gone" /\ row'[m].parent = None
  BY <1>2, FamilyIsStored DEF NoRow
<1>5. \A n \in Models : row'[n].state \in {"none", "live", "deleted", "gone"}
                        /\ (n \in Stored' <=> row'[n].state \in {"live", "deleted"})
  BY <1>3 DEF Table, Row, Stored
<1>6. \A n \in Models : row'[n].state = "gone" => Gone(n) \/ n = m
  <2> SUFFICES ASSUME NEW n \in Models \ {m}, row'[n].state = "gone" PROVE Gone(n)
    OBVIOUS
  <2>1. n \notin Stored /\ row[n].state # "none"
    <3>1. row[n].state # "none"
      <4>1. row[n].state = "none" => row'[n].state = "none"
        <5>1. PICK s \in Row : s = row[n]
          BY RowsAre
        <5>2. row'[n] \in {s, [s EXCEPT !.parent = None]}
          BY <1>2, <5>1
        <5> QED BY <5>1, <5>2 DEF Row
      <4> QED BY <4>1
    <3> QED BY <1>3, <1>5, <3>1
  <2> QED BY <2>1, RowsAre DEF Gone
<1>7. Ages
  <2> SUFFICES ASSUME NEW n \in Models, row[n].state # "none"
               PROVE  /\ row'[n].state # "none"
                      /\ Gone(n) => row'[n].state = "gone"
                      /\ \/ row'[n].parent = row[n].parent
                         \/ row'[n].parent = None /\ (row'[n].state = "gone" \/ row'[row[n].parent].state = "gone")
    BY DEF Ages
  <2>1. row'[n].state # "none"
    BY <1>3 DEF RowsStay
  <2>2. Gone(n) => row'[n].state = "gone"
    BY <1>3, <1>5, <2>1, RowsAre DEF Gone
  <2> QED BY <1>3, <1>4, <2>1, <2>2
<1>8. call'[c].phase = "idle"
  <2>1. Alike(IdleCall, call'[c])
    BY <1>2, IdleOK, Becoming DEF Becomes, Base
  <2> QED BY <2>1, IdleOK DEF Alike
<1>9. \A n \in Models \ {m} : row'[n] = IF row[n].parent = m THEN [row[n] EXCEPT !.parent = None] ELSE row[n]
  BY <1>2
<1>10. Writer(call[c])
  BY <1>2 DEF Writer, Writers
<1>11. \/ tidy' = tidy /\ call[c].alone /\ ~row[m].latest /\ row[m].parent # None
       \/ tidy' = tidy \ Kin(m)
  BY <1>2
<1> QED BY <1>1, <1>2, <1>3, <1>4, <1>6, <1>7, <1>8, <1>9, <1>10, <1>11

LEMMA KinIs ==
    ASSUME NEW m
    PROVE  /\ m \in Kin(m)
           /\ row[m].parent # None => row[m].parent \in Kin(m)
           /\ row[m].parent # None /\ row[row[m].parent].parent # None => row[row[m].parent].parent \in Kin(m)
  BY DEF Kin, ParentsOf

LEMMA MemoryDelete ==
    ASSUME Base, Base', VersionInv, Order, Memory, NEW c \in Calls, Delete(c),
           \A d \in Calls \ {c} : Same(call[d], call'[d])
    PROVE  Memory'
<1>1. PICK m \in Stored :
        /\ m = call[c].on /\ call[c].op = "permanent" /\ call[c].phase = "delete" /\ Writer(call[c])
        /\ Stored' = Stored \ {m} /\ Ages
        /\ \A n \in Models : row'[n].state = "gone" => Gone(n) \/ n = m
        /\ UNCHANGED cache /\ call'[c].phase = "idle"
        /\ \/ tidy' = tidy /\ call[c].alone
           \/ tidy' = tidy \ Kin(m)
  BY Deletes
<1>2. Learned(call[c], call'[c]) /\ CacheLearned(c)
  BY <1>1 DEF Learned, CacheLearned, Recalls
<1>3. /\ Remembering'
      /\ \A k \in Models : \A r \in Recalled(k)' :
           Told(r, k) /\ r.parent \in Models \cup {None} /\ (r \in Recalled(k) \/ (k \in Stored /\ r = row[k]))
  BY <1>1, <1>2, Remembered DEF Memory
<1>4. tidy' \subseteq tidy /\ tidy' \subseteq Models /\ None \notin Models
  BY <1>1, Constants DEF Base, TypeOK
<1>5. ASSUME NEW k \in Models, Gone(k)', Watched(k)', NEW r \in Recalled(k)', r.parent # None
      PROVE  r.parent \notin tidy' /\ row'[r.parent].parent \notin tidy'
  <2>1. PICK d \in Calls : Writer(call'[d]) /\ call'[d].on = k
    BY <1>5 DEF Watched, Writer
  <2>2. d # c
    BY <1>1, <2>1 DEF Writer
  <2>3. Writer(call[d]) /\ call[d].on = k
    BY <2>1, <2>2, WriterSame
  <2>4. tidy' = tidy \ Kin(m)
    BY <1>1, <2>2, <2>3 DEF Order, OneAlone
  <2>5. Told(r, k) /\ r.parent \in Models /\ row[r.parent].state # "none"
    BY <1>3, <1>5 DEF Told
  <2>6. row'[r.parent].parent \in {row[r.parent].parent, None}
    BY <1>1, <2>5 DEF Ages
  <2>7. CASE k # m
    <3>1. Gone(k) /\ r \in Recalled(k)
      BY <1>1, <1>3, <1>5, <2>7 DEF Gone, Stored
    <3>2. Lost(r)
      BY <2>3, <3>1 DEF Memory, Forgotten, Watched
    <3> QED BY <1>4, <1>5, <2>6, <3>2 DEF Lost
  <2>8. CASE k = m
    <3>1. CASE row[m].parent = r.parent
      BY <1>4, <1>5, <2>4, <2>6, <3>1, KinIs
    <3>2. CASE Gone(r.parent)
      <4>1. r.parent \notin Stored
        BY <3>2 DEF Gone, Stored
      <4> QED BY <1>4, <2>5, <2>6, <4>1 DEF Order, Barren, TidyRoots
    <3>3. ~Gone(m)
      BY DEF Gone, Stored
    <3> QED BY <2>5, <2>8, <3>1, <3>2, <3>3 DEF Told
  <2> QED BY <2>7, <2>8
<1>6. Forgotten'
  BY <1>5 DEF Forgotten, Lost
<1>7. CacheKnows'
  <2> SUFFICES ASSUME NEW k \in tidy', cache'[k] # None, Old(cache'[k]) PROVE Clearing'
    BY DEF CacheKnows, Old
  <2>1. PICK d \in Calls : call[d].op \in Writers /\ call[d].phase = "invalidate"
    BY <1>1, <1>4 DEF Memory, CacheKnows, Clearing
  <2>2. d # c
    BY <1>1, <2>1
  <2>3. call'[d].op \in Writers /\ call'[d].phase = "invalidate"
    BY <2>1, <2>2, WriterSame
  <2> QED BY <2>3 DEF Clearing
<1>8. ASSUME NEW d \in Calls PROVE Knows(call[d])'
  <2>1. CASE d = c
    BY <1>1, <2>1 DEF Knows
  <2>2. CASE d # c
    BY <1>4, <2>2, WriterSame DEF Memory, Knows, Old
  <2> QED BY <2>1, <2>2
<1>9. (\A d \in Calls : Knows(call[d]))'
  BY <1>8
<1> QED BY <1>3, <1>6, <1>7, <1>9 DEF Memory

LEMMA MemoryRestart ==
    ASSUME Base, Base', Restart
    PROVE  Memory'
<1>1. /\ cache' = Cleared /\ UNCHANGED row /\ \A c \in Calls : call'[c] = IdleCall
  BY DEF Restart
<1>2. (\A k \in Models : cache'[k] = None) /\ \A c \in Calls : call'[c].phase = "idle"
  BY <1>1, ClearedOK, Constants, IdleOK
<1>3. \A k \in Models : Recalled(k)' = {}
  <2> SUFFICES ASSUME NEW k \in Models, NEW r \in Recalled(k)' PROVE FALSE
    OBVIOUS
  <2> QED BY <1>2, RecalledIsNext DEF Recalls
<1>4. Remembering' /\ Forgotten'
  BY <1>3 DEF Remembering, Forgotten
<1>5. CacheKnows'
  BY <1>2 DEF CacheKnows, Base, TypeOK
<1>6. (\A c \in Calls : Knows(call[c]))'
  BY <1>2 DEF Knows
<1> QED BY <1>4, <1>5, <1>6 DEF Memory

(* The cache at most forgets.                                              *)
LEMMA MemoryKept ==
    ASSUME Base, Memory, UNCHANGED <<row, call, tidy>>, \A k \in Models : cache'[k] \in {None, cache[k]}
    PROVE  Memory'
<1>1. \A k \in Models : Recalled(k)' \subseteq Recalled(k)
  <2> SUFFICES ASSUME NEW k \in Models, NEW r \in Recalled(k)' PROVE r \in Recalled(k)
    OBVIOUS
  <2> QED BY RecalledIs, RecalledIsNext
<1>2. Remembering'
  BY <1>1 DEF Memory, Remembering, Told, Gone
<1>3. Forgotten'
  BY <1>1 DEF Memory, Forgotten, Lost, Gone, Watched, Writer
<1>4. CacheKnows'
  <2>1. tidy \subseteq Models
    BY DEF Base, TypeOK
  <2> QED BY <2>1 DEF Memory, CacheKnows, Clearing, Old
<1>5. (\A c \in Calls : Knows(call[c]))'
  BY DEF Memory, Knows, Old
<1> QED BY <1>2, <1>3, <1>4, <1>5 DEF Memory

-----------------------------------------------------------------------------
(* What a step makes of its call.                                          *)
Turned(q, p, ph, s) ==
    /\ p.op = q.op /\ p.on = q.on /\ p.alone = q.alone /\ p.new = q.new /\ p.hit = q.hit
    /\ p.phase = ph /\ p.seen = s

LEMMA GotoTurns ==
    ASSUME TypeOK, NEW c \in Calls, NEW ph, Goto(c, ph)
    PROVE  Turned(call[c], call'[c], ph, call[c].seen)
<1>1. PICK q \in Call : q = call[c]
  BY DEF TypeOK
<1>2. PICK p : p = [q EXCEPT !.phase = ph]
  OBVIOUS
<1>3. call'[c] = p
  BY <1>1, <1>2 DEF Goto, TypeOK
<1> QED BY <1>1, <1>2, <1>3 DEF Turned, Call

LEMMA ContinueTurns ==
    ASSUME TypeOK, NEW c \in Calls, NEW v, Continue(c, v)
    PROVE  \/ call'[c].phase = "idle"
           \/ Turned(call[c], call'[c], AfterFind(call[c].op, v), v)
<1>1. PICK q \in Call : q = call[c]
  BY DEF TypeOK
<1>2. PICK ph : ph = AfterFind(q.op, v)
  OBVIOUS
<1>3. PICK p : p = [q EXCEPT !.phase = ph, !.seen = v]
  OBVIOUS
<1>4. call'[c] = IF ph = "idle" THEN IdleCall ELSE p
  BY <1>1, <1>2, <1>3 DEF Continue, TypeOK
<1> QED BY <1>1, <1>2, <1>3, <1>4, IdleOK DEF Turned, Call

LEMMA EndTurns ==
    ASSUME TypeOK, NEW c \in Calls, Becomes(c, IdleCall)
    PROVE  call'[c].phase = "idle"
<1>1. Alike(IdleCall, call'[c])
  BY IdleOK, Becoming
<1> QED BY <1>1, IdleOK DEF Alike

LEMMA FindStoredTurns ==
    ASSUME Base, NEW c \in Calls, FindStored(c)
    PROVE  \/ call'[c].phase = "idle"
           \/ /\ Turned(call[c], call'[c], "keep", View(call[c].on))
              /\ call[c].op # "list" => call[c].on \in (IF call[c].op = "restore" THEN Stored ELSE Live)
<1>1. PICK q \in Call : q = call[c]
  BY DEF Base, TypeOK
<1>2. PICK v : v = View(q.on)
  OBVIOUS
<1>3. PICK p : p = [q EXCEPT !.phase = "keep", !.seen = v, !.late = FALSE]
  OBVIOUS
<1>4. call'[c] = IF Findable(c) THEN p ELSE IdleCall
  BY <1>1, <1>2, <1>3 DEF FindStored, Base, TypeOK
<1>5. q.op # "list" => q.on # List
  BY <1>1 DEF Base, Held, FindStored
<1> QED BY <1>1, <1>2, <1>3, <1>4, <1>5, IdleOK DEF Turned, Call, Findable

LEMMA MarkTurns ==
    ASSUME TypeOK, NEW c \in Calls, Mark(c)
    PROVE  Turned(call[c], call'[c], IF row[call[c].on].parent = None THEN "invalidate" ELSE "heir", row[call[c].on])
<1>1. PICK q \in Call : q = call[c]
  BY DEF TypeOK
<1>2. PICK ph, s : ph = (IF row[q.on].parent = None THEN "invalidate" ELSE "heir") /\ s = row[q.on]
  OBVIOUS
<1>3. PICK p : p = [q EXCEPT !.phase = ph, !.seen = s]
  OBVIOUS
<1>4. call' = [call EXCEPT ![c].phase = ph, ![c].seen = s]
  BY <1>1, <1>2 DEF Mark
<1>5. call'[c] = p
  BY <1>1, <1>3, <1>4 DEF TypeOK
<1> QED BY <1>1, <1>2, <1>3, <1>5 DEF Turned, Call

LEMMA UnlinkTurns ==
    ASSUME TypeOK, NEW c \in Calls, Unlink(c)
    PROVE  call'[c].op = "permanent" /\ call'[c].phase = "delete" /\ call'[c].on = call[c].on
           /\ call'[c].alone = call[c].alone
<1>1. PICK q \in Call : q = call[c]
  BY DEF TypeOK
<1>2. PICK x : x = [q EXCEPT !.phase = "delete"]
  OBVIOUS
<1>3. PICK y : y = [x EXCEPT !.late = x.phase = "keep"]
  OBVIOUS
<1>4. call'[c] = y
  BY <1>1, <1>2, <1>3 DEF Unlink, Late, TypeOK
<1>5. x \in Call /\ x.op = q.op /\ x.on = q.on /\ x.phase = "delete" /\ x.alone = q.alone
  BY <1>1, <1>2 DEF Call, Phases
<1> QED BY <1>1, <1>3, <1>4, <1>5 DEF Call, Unlink, At

LEMMA NumberTurns ==
    ASSUME TypeOK, NEW c \in Calls, Number(c)
    PROVE  call'[c].op = "version" /\ call'[c].phase = "demote" /\ call'[c].on = call[c].on
           /\ call'[c].alone = call[c].alone
<1>1. PICK q \in Call : q = call[c]
  BY DEF TypeOK
<1>2. PICK m, n : call' = [call EXCEPT ![c].phase = "demote", ![c].new = m, ![c].next = n]
  BY DEF Number
<1>3. PICK p : p = [q EXCEPT !.phase = "demote", !.new = m, !.next = n]
  OBVIOUS
<1>4. call'[c] = p
  BY <1>1, <1>2, <1>3 DEF TypeOK
<1>5. q.op = "version"
  BY <1>1 DEF Number, At
<1>6. p.op = q.op /\ p.phase = "demote" /\ p.on = q.on /\ p.alone = q.alone
  BY <1>3 DEF Call
<1> QED BY <1>1, <1>4, <1>5, <1>6

LEMMA DemoteTurns ==
    ASSUME TypeOK, NEW c \in Calls, Demote(c)
    PROVE  call'[c].op = "version" /\ call'[c].phase = "insert" /\ call'[c].on = call[c].on
           /\ call'[c].alone = call[c].alone /\ call'[c].hit = Latest(Family(call[c].on))
<1>1. PICK q \in Call : q = call[c]
  BY DEF TypeOK
<1>2. PICK h : h = Latest(Family(q.on))
  OBVIOUS
<1>3. PICK p : p = [q EXCEPT !.phase = "insert", !.hit = h]
  OBVIOUS
<1>4. call'[c] = p
  BY <1>1, <1>2, <1>3 DEF TypeOK, Demote, Demotable
<1>5. q.op = "version"
  BY <1>1 DEF Demote, At
<1>6. p.op = q.op /\ p.phase = "insert" /\ p.on = q.on /\ p.alone = q.alone /\ p.hit = h
  BY <1>3 DEF Call
<1> QED BY <1>1, <1>2, <1>4, <1>5, <1>6

LEMMA ClearingStays ==
    ASSUME NEW c \in Calls, \A d \in Calls \ {c} : Same(call[d], call'[d]), call[c].phase # "invalidate"
    PROVE  Clearing => Clearing'
<1> SUFFICES ASSUME NEW d \in Calls, call[d].op \in Writers /\ call[d].phase = "invalidate" PROVE Clearing'
  BY DEF Clearing
<1>1. call'[d].op \in Writers /\ call'[d].phase = "invalidate"
  BY WriterSame
<1> QED BY <1>1 DEF Clearing

(* Steps that change no more than labels of rows.                          *)
LEMMA MemoryPlain ==
    ASSUME Base, Base', VersionInv, Order, Memory, NEW c \in Calls, Step(c), Relabelled, Tidies(c),
           Learned(call[c], call'[c]), CacheLearned(c), Knows(call[c])',
           call'[c].phase = "idle" \/ (call'[c].op = call[c].op /\ call'[c].on = call[c].on),
           call[c].phase \notin {"idle", "invalidate"} \/ \A k \in Models : cache'[k] = None
    PROVE  Memory'
<1>1. \A d \in Calls \ {c} : Same(call[d], call'[d])
  BY Elsewhere DEF Base
<1>2. Ages /\ \A m \in Models : row'[m].state = "gone" => Gone(m)
  BY RelabelledAges
<1>3. CASE call[c].phase \notin {"idle", "invalidate"}
  <2>1. Clearing => Clearing'
    BY <1>1, <1>3, ClearingStays
  <2>2. Writer(call'[c]) => Writer(call[c]) /\ call'[c].on = call[c].on
    BY <1>3 DEF Writer
  <2> QED BY <1>1, <1>2, <2>1, <2>2, MemoryStep
<1>4. CASE \A k \in Models : cache'[k] = None
  <2>1. call[c].phase = "idle" => FALSE
    BY DEF Step, FindCached, FindStored, Keep, Load, Bind, InsertFirst, Number, Demote, InsertVersion,
           DemoteAll, Promote, Unbind, Mark, Inherit, Unmark, DemoteSiblings, Unlink, Delete, Invalidate,
           Fail, At
  <2>2. Writer(call'[c]) => Writer(call[c]) /\ call'[c].on = call[c].on
    BY <2>1 DEF Writer
  <2> QED BY <1>1, <1>2, <1>4, <2>2, MemoryStep
<1> QED BY <1>3, <1>4

LEMMA Quietly ==
    ASSUME Base, NEW c \in Calls, UNCHANGED cache, tidy' \subseteq tidy
    PROVE  CacheLearned(c) /\ Tidies(c)
  BY DEF CacheLearned, Tidies

(* A look-up is over.                                                      *)
LEMMA FoundTurns ==
    ASSUME Base, NEW c \in Calls, NEW v, Continue(c, v), call[c].phase \in {"find", "keep"}
    PROVE  \/ call'[c].phase = "idle"
           \/ /\ call'[c].op = call[c].op /\ call'[c].on = call[c].on /\ call'[c].seen = v
              /\ call'[c].alone = call[c].alone /\ call[c].op # "list" /\ call[c].on \in Models
              /\ call'[c].phase \in {"number", "demote", "unbind", "unmark"}
              /\ call'[c].phase = "unmark" => call[c].op = "restore" /\ v.state = "deleted"
              /\ call[c].op = "restore" => call'[c].phase = "unmark"
              /\ call[c].op \in Writers
<1>1. TypeOK
  BY DEF Base
<1>2. CASE Turned(call[c], call'[c], AfterFind(call[c].op, v), v) /\ call'[c].phase # "idle"
  <2>1. /\ call'[c].op = call[c].op /\ call'[c].on = call[c].on /\ call'[c].seen = v
        /\ call'[c].alone = call[c].alone /\ call'[c].phase = AfterFind(call[c].op, v)
    BY <1>2 DEF Turned
  <2>2. /\ call[c].op # "list" /\ call[c].op \in Writers
        /\ call'[c].phase \in {"number", "demote", "unbind", "unmark"}
        /\ call'[c].phase = "unmark" => call[c].op = "restore" /\ v.state = "deleted"
        /\ call[c].op = "restore" => call'[c].phase = "unmark"
    BY <1>2, <2>1 DEF AfterFind, Writers
  <2>3. call[c].on \in Models
    BY <2>2, Constants DEF Base, Held
  <2> QED BY <2>1, <2>2, <2>3
<1> QED BY <1>1, <1>2, ContinueTurns

LEMMA MemoryFindCached ==
    ASSUME Base, Base', VersionInv, Order, Memory, NEW c \in Calls, FindCached(c)
    PROVE  Memory'
<1>1. PICK k : k = call[c].on
  OBVIOUS
<1>2. /\ call[c].phase = "find" /\ cache[k] # None /\ Continue(c, cache[k])
      /\ UNCHANGED <<row, files, bound, cache, history>>
  BY <1>1 DEF FindCached
<1>3. PICK v : v = cache[k]
  OBVIOUS
<1>4. Relabelled /\ CacheLearned(c) /\ Tidies(c)
  BY <1>2, RowsKept, Quietly DEF history
<1>5. CASE call'[c].phase = "idle"
  <2>1. Learned(call[c], call'[c]) /\ Knows(call[c])'
    BY <1>5 DEF Learned, Recalls, Knows
  <2> QED BY <1>2, <1>4, <1>5, <2>1, MemoryPlain DEF Step
<1>6. CASE /\ call'[c].op = call[c].op /\ call'[c].on = call[c].on /\ call'[c].seen = v
           /\ call'[c].alone = call[c].alone /\ call[c].op # "list" /\ call[c].on \in Models
           /\ call'[c].phase \in {"number", "demote", "unbind", "unmark"}
           /\ call'[c].phase = "unmark" => call[c].op = "restore" /\ v.state = "deleted"
           /\ call[c].op = "restore" => call'[c].phase = "unmark"
           /\ call[c].op \in Writers
  <2>1. Learned(call[c], call'[c])
    BY <1>1, <1>2, <1>3, <1>6 DEF Learned
  <2>2. ASSUME call[c].alone, k \in tidy, v.state = "deleted", v.parent # None PROVE FALSE
    <3>1. Clearing
      BY <1>2, <1>3, <2>2 DEF Memory, CacheKnows, Old
    <3>2. PICK d \in Calls : call[d].op \in Writers /\ call[d].phase = "invalidate"
      BY <3>1 DEF Clearing
    <3> QED BY <1>2, <1>6, <2>2, <3>2 DEF Order, OneAlone, Writer
  <2>3. Knows(call[c])'
    BY <1>1, <1>2, <1>6, <2>2 DEF Knows, history
  <2> QED BY <1>2, <1>4, <1>6, <2>1, <2>3, MemoryPlain DEF Step
<1> QED BY <1>2, <1>3, <1>5, <1>6, FoundTurns

LEMMA MemoryKeep ==
    ASSUME Base, Base', VersionInv, Order, Memory, NEW c \in Calls, Keep(c)
    PROVE  Memory'
<1>1. PICK k : k = call[c].on
  OBVIOUS
<1>2. PICK v : v = call[c].seen
  OBVIOUS
<1>3. /\ call[c].phase = "keep" /\ cache' = [cache EXCEPT ![k] = v] /\ Continue(c, v)
      /\ UNCHANGED <<row, tidy>>
  BY <1>1, <1>2 DEF Keep
<1>4. Relabelled /\ Tidies(c)
  BY <1>3, RowsKept DEF Tidies
<1>5. CacheLearned(c)
  <2>1. cache \in [Keys -> Table \cup Row \cup {None}] /\ call[c].op = "list" => k = List
    BY <1>1, <1>3 DEF Base, TypeOK, Held
  <2>2. \A m \in Models : cache'[m] = IF m = k THEN v ELSE cache[m]
    BY <1>3, <2>1, Constants DEF Base, TypeOK
  <2>3. call[c].op = "list" => k \notin Models
    BY <1>1, <1>3, Constants DEF Base, Held
  <2> QED BY <1>1, <1>2, <1>3, <2>2, <2>3 DEF CacheLearned, Keeping
<1>6. CASE call'[c].phase = "idle"
  <2>1. Learned(call[c], call'[c]) /\ Knows(call[c])'
    BY <1>6 DEF Learned, Recalls, Knows
  <2> QED BY <1>3, <1>4, <1>5, <1>6, <2>1, MemoryPlain DEF Step
<1>7. CASE /\ call'[c].op = call[c].op /\ call'[c].on = call[c].on /\ call'[c].seen = v
           /\ call'[c].alone = call[c].alone /\ call[c].op # "list" /\ call[c].on \in Models
           /\ call'[c].phase \in {"number", "demote", "unbind", "unmark"}
           /\ call'[c].phase = "unmark" => call[c].op = "restore" /\ v.state = "deleted"
           /\ call[c].op = "restore" => call'[c].phase = "unmark"
           /\ call[c].op \in Writers
  <2>1. Learned(call[c], call'[c])
    BY <1>2, <1>3, <1>7 DEF Learned, Recalls
  <2>2. k \in tidy /\ v.state = "deleted" => v.parent = None
    BY <1>1, <1>2, <1>3, <1>7 DEF Memory, Knows, Old
  <2>3. Knows(call[c])'
    BY <1>1, <1>3, <1>7, <2>2 DEF Knows
  <2> QED BY <1>3, <1>4, <1>5, <1>7, <2>1, <2>3, MemoryPlain DEF Step
<1> QED BY <1>3, <1>6, <1>7, FoundTurns

LEMMA MemoryFindStored ==
    ASSUME Base, Base', VersionInv, Order, Memory, NEW c \in Calls, FindStored(c)
    PROVE  Memory'
<1>1. PICK k : k = call[c].on
  OBVIOUS
<1>2. call[c].phase = "find" /\ UNCHANGED <<row, files, bound, cache, history>>
  BY DEF FindStored
<1>3. Relabelled /\ CacheLearned(c) /\ Tidies(c)
  BY <1>2, RowsKept, Quietly DEF history
<1>4. CASE call'[c].phase = "idle"
  <2>1. Learned(call[c], call'[c]) /\ Knows(call[c])'
    BY <1>4 DEF Learned, Recalls, Knows
  <2> QED BY <1>2, <1>3, <1>4, <2>1, MemoryPlain DEF Step
<1>5. CASE /\ Turned(call[c], call'[c], "keep", View(k))
           /\ call[c].op # "list" => k \in (IF call[c].op = "restore" THEN Stored ELSE Live)
  <2>1. k \in Keys /\ (k = List <=> call[c].op = "list")
    BY <1>1, <1>2 DEF Base, Held
  <2>2. call[c].op # "list" => View(k) = row[k] /\ k \in Stored /\ k \in Models
                               /\ (row[k].state # "live" => call[c].op = "restore")
    BY <1>5, <2>1, ViewOK, FamilyIsStored DEF Live
  <2>3. /\ call'[c].op = call[c].op /\ call'[c].on = k /\ call'[c].phase = "keep"
        /\ call[c].op # "list" => call'[c].seen = row[k]
    BY <1>1, <1>5, <2>2 DEF Turned
  <2>4. Learned(call[c], call'[c])
    BY <2>2, <2>3 DEF Learned, Recalls
  <2>5. k \in tidy /\ call[c].op # "list" => row[k].parent = None
    BY DEF Order, TidyRoots
  <2>6. Knows(call[c])'
    BY <1>2, <2>2, <2>3, <2>5 DEF Knows, Old, history
  <2> QED BY <1>1, <1>2, <1>3, <2>3, <2>4, <2>6, MemoryPlain DEF Step
<1> QED BY <1>1, <1>4, <1>5, FindStoredTurns

LEMMA MemoryBegin ==
    ASSUME Base, Base', VersionInv, Order, Memory, NEW c \in Calls, NEW op \in Ops, NEW k \in Keys, Begin(c, op, k)
    PROVE  Memory'
<1>1. /\ \A d \in Calls \ {c} : Same(call[d], call'[d])
      /\ call[c].phase = "idle" /\ call'[c].op = op /\ call'[c].phase \notin {"keep", "idle", "demote"}
      /\ call'[c].phase = "insert" => op = "upload"
  BY BeginElsewhere DEF Base
<1>2. UNCHANGED <<row, cache, tidy>>
  BY DEF Begin
<1>3. /\ call'[c].on = k /\ call'[c].phase \in {"insert", "load", "find"}
      /\ op \in Writers => k \in Stored
  <2>1. call'[c].on = k /\ call'[c].phase = CASE op = "upload" -> "insert" [] op \in {"bind", "permanent"} -> "load"
                                              [] OTHER -> "find"
    BY DEF Begin, IdleCall
  <2> QED BY <2>1 DEF Begin, Writers
<1>4. Ages /\ \A m \in Models : row'[m].state = "gone" => Gone(m)
  BY <1>2, RowsKept, RelabelledAges
<1>5. Learned(call[c], call'[c]) /\ CacheLearned(c) /\ Tidies(c)
  BY <1>2, <1>3 DEF Learned, Recalls, CacheLearned, Tidies
<1>6. Knows(call[c])'
  BY <1>3 DEF Knows
<1>7. Clearing => Clearing'
  BY <1>1, ClearingStays
<1>8. Writer(call'[c]) => call'[c].on \in Stored'
  BY <1>1, <1>2, <1>3 DEF Writer, Stored
<1> QED BY <1>1, <1>4, <1>5, <1>6, <1>7, <1>8, MemoryStep

(* A call whose phase no longer goes by what it has read.                  *)
Careless == {"load", "bind", "number", "insert", "unbind", "mark", "unlink", "delete", "invalidate", "idle"}

LEMMA MemoryCareless ==
    ASSUME Base, Base', VersionInv, Order, Memory, NEW c \in Calls, Step(c), Relabelled, Tidies(c),
           CacheLearned(c), call[c].phase # "idle",
           call[c].phase # "invalidate" \/ \A k \in Models : cache'[k] = None,
           call'[c].phase = "idle" \/ (call'[c].op = call[c].op /\ call'[c].on = call[c].on),
           call'[c].phase \in Careless \/ (call'[c].phase = "demote" /\ call'[c].op = "version")
    PROVE  Memory'
<1>1. Learned(call[c], call'[c]) /\ Knows(call[c])'
  BY DEF Careless, Learned, Recalls, Knows
<1> QED BY <1>1, MemoryPlain

LEMMA MemoryRead ==
    ASSUME Base, Base', VersionInv, Order, Memory, NEW c \in Calls,
           Load(c) \/ Bind(c) \/ Number(c) \/ Demote(c) \/ Unbind(c)
    PROVE  Memory'
<1>1. UNCHANGED <<row, cache, tidy>> /\ call[c].phase \notin {"idle", "invalidate"} /\ Step(c) /\ TypeOK
  BY DEF Load, Bind, Number, Demote, Unbind, At, history, Step, Base
<1>2. Relabelled /\ CacheLearned(c) /\ Tidies(c)
  BY <1>1, RowsKept, Quietly
<1>3. \/ call'[c].phase = "idle"
      \/ /\ call'[c].op = call[c].op /\ call'[c].on = call[c].on
         /\ call'[c].phase \in Careless \/ (call'[c].phase = "demote" /\ call'[c].op = "version")
  <2>1. CASE Number(c)
    BY <1>1, <2>1, NumberTurns DEF Number, At
  <2>2. CASE Demote(c)
    BY <1>1, <2>2, DemoteTurns DEF Demote, At, Careless
  <2>3. CASE Bind(c)
    BY <1>1, <2>3, EndTurns DEF Bind, Becomes
  <2>4. CASE Load(c)
    <3>1. call' = [call EXCEPT ![c] = IdleCall] \/ Goto(c, "bind") \/ Goto(c, "unbind")
      BY <2>4 DEF Load
    <3> QED BY <1>1, <3>1, EndTurns, GotoTurns DEF Becomes, Turned, Careless
  <2>5. CASE Unbind(c)
    <3>1. Goto(c, "mark") \/ Goto(c, "unlink")
      BY <2>5 DEF Unbind
    <3> QED BY <1>1, <3>1, GotoTurns DEF Turned, Careless
  <2> QED BY <2>1, <2>2, <2>3, <2>4, <2>5
<1> QED BY <1>1, <1>2, <1>3, MemoryCareless DEF Careless

LEMMA MemoryClears ==
    ASSUME Base, Base', VersionInv, Order, Memory, NEW c \in Calls, Invalidate(c) \/ Unlink(c)
    PROVE  Memory'
<1>1. /\ UNCHANGED <<row, tidy>> /\ cache' = Cleared /\ call[c].phase # "idle" /\ Step(c) /\ TypeOK
  BY DEF Invalidate, Unlink, At, Step, Base
<1>2. Relabelled /\ Tidies(c)
  BY <1>1, RowsKept DEF Tidies
<1>3. \A k \in Models : cache'[k] = None
  BY <1>1, ClearedOK, Constants
<1>4. CacheLearned(c)
  BY <1>3 DEF CacheLearned
<1>5. \/ call'[c].phase = "idle"
      \/ /\ call'[c].op = call[c].op /\ call'[c].on = call[c].on
         /\ call'[c].phase \in Careless
  <2>1. CASE Invalidate(c)
    BY <1>1, <2>1, EndTurns DEF Invalidate, Becomes
  <2>2. CASE Unlink(c)
    BY <1>1, <2>2, UnlinkTurns DEF Unlink, At, Careless
  <2> QED BY <2>1, <2>2
<1> QED BY <1>1, <1>2, <1>3, <1>4, <1>5, MemoryCareless DEF Careless

LEMMA MemoryFail ==
    ASSUME Base, Base', VersionInv, Order, Memory, NEW c \in Calls, Fail(c)
    PROVE  Memory'
<1>1. /\ UNCHANGED <<row, cache>> /\ call[c].phase \notin {"idle", "invalidate"} /\ Step(c) /\ TypeOK
      /\ tidy' \subseteq tidy /\ Becomes(c, IdleCall)
  BY DEF Fail, Step, Base, Settle, Becomes
<1>2. Relabelled /\ CacheLearned(c) /\ Tidies(c)
  BY <1>1, RowsKept, Quietly
<1> QED BY <1>1, <1>2, EndTurns, MemoryCareless DEF Careless

(* The last statement of a writer.                                         *)
LEMMA MemoryLast ==
    ASSUME Base, Base', VersionInv, Order, Memory, NEW c \in Calls,
           Inherit(c) \/ DemoteSiblings(c) \/ Promote(c)
    PROVE  Memory'
<1>1. /\ UNCHANGED cache /\ call[c].phase \notin {"idle", "invalidate"} /\ Step(c) /\ TypeOK
      /\ Goto(c, "invalidate") /\ Writer(call[c])
  BY DEF Inherit, DemoteSiblings, Promote, Step, Base, At, Writer, Writers
<1>2. Relabelled /\ CacheLearned(c)
  BY <1>1, InheritBase, DemoteSiblingsBase, PromoteBase DEF CacheLearned
<1>3. /\ call'[c].op = call[c].op /\ call'[c].on = call[c].on /\ call'[c].phase = "invalidate"
  BY <1>1, GotoTurns DEF Turned
<1>4. Tidies(c)
  <2>1. CASE Inherit(c) \/ DemoteSiblings(c)
    BY <2>1 DEF Inherit, DemoteSiblings, Settle, Tidies
  <2>2. CASE Promote(c)
    <3>1. call[c].on \in Stored' /\ (tidy' \subseteq tidy \/ call[c].alone)
      BY <1>2, <2>2, Relabelling DEF Promote, Settle
    <3> QED BY <1>1, <1>3, <3>1 DEF Tidies, Solo, Writer
  <2> QED BY <2>1, <2>2
<1> QED BY <1>1, <1>2, <1>3, <1>4, MemoryCareless DEF Careless

LEMMA MemoryDemoteAll ==
    ASSUME Base, Base', VersionInv, Order, Memory, NEW c \in Calls, DemoteAll(c)
    PROVE  Memory'
<1>1. /\ UNCHANGED <<cache, tidy>> /\ At(c, "rollback", "demote") /\ Step(c) /\ TypeOK /\ Goto(c, "promote")
  BY DEF DemoteAll, Step, Base, history
<1>2. Relabelled /\ CacheLearned(c) /\ Tidies(c)
  BY <1>1, DemoteAllBase, Quietly
<1>3. /\ call'[c].op = "rollback" /\ call'[c].on = call[c].on /\ call'[c].phase = "promote"
      /\ call'[c].seen = call[c].seen /\ call[c].op = "rollback" /\ call[c].phase = "demote"
  BY <1>1, GotoTurns DEF Turned, At
<1>4. Learned(call[c], call'[c]) /\ Knows(call[c])'
  BY <1>3 DEF Learned, Recalls, Knows
<1> QED BY <1>1, <1>2, <1>3, <1>4, MemoryPlain

LEMMA MemoryMark ==
    ASSUME Base, Base', VersionInv, Order, Memory, NEW c \in Calls, Mark(c)
    PROVE  Memory'
<1>1. /\ UNCHANGED cache /\ tidy' \subseteq tidy /\ At(c, "remove", "mark") /\ Step(c) /\ TypeOK
      /\ call[c].on \in Stored
  BY DEF Mark, Step, Base, Settle
<1>2. Relabelled /\ CacheLearned(c) /\ Tidies(c)
  BY <1>1, MarkBase, Quietly
<1>3. /\ call'[c].op = "remove" /\ call'[c].on = call[c].on /\ call[c].op = "remove" /\ call[c].phase = "mark"
      /\ call'[c].seen = row[call[c].on]
      /\ call'[c].phase = IF row[call[c].on].parent = None THEN "invalidate" ELSE "heir"
  BY <1>1, MarkTurns DEF Turned, At
<1>4. Learned(call[c], call'[c]) /\ Knows(call[c])'
  BY <1>1, <1>3 DEF Learned, Knows
<1> QED BY <1>1, <1>2, <1>3, <1>4, MemoryPlain

LEMMA MemoryUnmark ==
    ASSUME Base, Base', VersionInv, Order, Memory, NEW c \in Calls, Unmark(c)
    PROVE  Memory'
<1>1. PICK s : s = call[c].seen
  OBVIOUS
<1>2. PICK ph : ph = IF s.parent = None THEN "invalidate" ELSE "siblings"
  OBVIOUS
<1>3. /\ UNCHANGED cache /\ tidy' \subseteq tidy /\ At(c, "restore", "unmark") /\ Step(c) /\ TypeOK
      /\ Goto(c, ph) /\ call[c].on \in Models
  BY <1>1, <1>2, FamilyIsStored DEF Unmark, Step, Base, Settle
<1>4. Relabelled /\ CacheLearned(c) /\ Tidies(c)
  BY <1>3, UnmarkBase, Quietly
<1>5. /\ call'[c].op = "restore" /\ call'[c].on = call[c].on /\ call[c].op = "restore" /\ call[c].phase = "unmark"
      /\ call'[c].seen = s /\ call'[c].phase = ph /\ call'[c].alone = call[c].alone
  BY <1>1, <1>3, GotoTurns DEF Turned, At
<1>6. call[c].alone /\ call[c].on \in tidy => s.parent = None
  BY <1>1, <1>5 DEF Memory, Knows
<1>7. Learned(call[c], call'[c]) /\ Knows(call[c])'
  BY <1>1, <1>2, <1>3, <1>5, <1>6 DEF Learned, Recalls, Knows
<1> QED BY <1>3, <1>4, <1>5, <1>7, MemoryPlain

(* A row is inserted, and those of S are demoted.                          *)
Inserting(m, r, S) ==
    /\ m \in Models /\ m \notin Stored /\ row[m].state = "none" /\ S \subseteq Stored
    /\ r.state = "live" /\ r.latest /\ row'[m] = r /\ Stored' = Stored \cup {m}
    /\ \A n \in Models \ {m} :
         /\ row'[n] = IF n \in S THEN [row[n] EXCEPT !.latest = FALSE] ELSE row[n]
         /\ row'[n].state = row[n].state /\ row'[n].parent = row[n].parent
         /\ row'[n].latest = IF n \in S THEN FALSE ELSE row[n].latest

LEMMA InsertRows ==
    ASSUME Base, NEW m \in Models, row[m] = NoRow, NEW S, S \subseteq Stored, NEW r \in Row,
           r.state = "live", r.latest, row' = [Unset(S) EXCEPT ![m] = r]
    PROVE  Inserting(m, r, S) /\ Ages /\ \A n \in Models : row'[n].state = "gone" => Gone(n)
<1>1. row'[m] = r /\ m \notin Stored /\ Stored' = Stored \cup {m}
  BY Inserted
<1>2. \A n \in Models \ {m} : row'[n] = IF n \in S THEN [row[n] EXCEPT !.latest = FALSE] ELSE row[n]
  BY DEF Unset
<1>3. ASSUME NEW n \in Models \ {m}
      PROVE  /\ row'[n].state = row[n].state /\ row'[n].parent = row[n].parent
             /\ row'[n].latest = IF n \in S THEN FALSE ELSE row[n].latest
  <2>1. PICK s \in Row : s = row[n]
    BY RowsAre
  <2>2. PICK x : x = [s EXCEPT !.latest = FALSE]
    OBVIOUS
  <2>3. x.state = s.state /\ x.parent = s.parent /\ x.latest = FALSE
    BY <2>2 DEF Row
  <2>4. row'[n] = IF n \in S THEN x ELSE s
    BY <1>2, <2>1, <2>2
  <2>5. CASE n \in S
    BY <2>1, <2>3, <2>4, <2>5
  <2>6. CASE n \notin S
    BY <2>1, <2>4, <2>6
  <2> QED BY <2>5, <2>6
<1>4. Inserting(m, r, S)
  BY <1>1, <1>2, <1>3, NoRowOK DEF Inserting
<1>5. Ages
  BY <1>3, NoRowOK DEF Ages, Gone
<1>6. \A n \in Models : row'[n].state = "gone" => Gone(n)
  BY <1>1, <1>3 DEF Gone
<1> QED BY <1>4, <1>5, <1>6

LEMMA FirstInserts ==
    ASSUME Base, NEW c \in Calls, InsertFirst(c)
    PROVE  /\ Inserting(call[c].new, FirstVersion, {}) /\ Ages
           /\ \A n \in Models : row'[n].state = "gone" => Gone(n)
<1>1. PICK m : m = call[c].new
  OBVIOUS
<1>2. row' = [row EXCEPT ![m] = FirstVersion] /\ Pending(call[c])
  BY <1>1 DEF InsertFirst, At, Pending
<1>3. m \in Models /\ row[m] = NoRow
  BY <1>1, <1>2 DEF Base, Held, TypeOK
<1>4. FirstVersion \in Row /\ FirstVersion.state = "live" /\ FirstVersion.latest
  BY DEF FirstVersion, Row
<1>5. Unset({}) = row
  BY DEF Unset, Base, TypeOK, Table
<1> QED BY <1>1, <1>2, <1>3, <1>4, <1>5, InsertRows

LEMMA VersionInserts ==
    ASSUME Base, NEW c \in Calls, InsertVersion(c)
    PROVE  \E r \in Row :
             /\ Inserting(call[c].new, r, call[c].hit \cap Stored) /\ r.parent = call[c].on /\ Ages
             /\ \A n \in Models : row'[n].state = "gone" => Gone(n)
<1>1. PICK m : m = call[c].new
  OBVIOUS
<1>2. Pending(call[c])
  BY DEF InsertVersion, At, Pending
<1>3. m \in Models /\ row[m] = NoRow
  BY <1>1, <1>2 DEF Base, Held, TypeOK
<1>4. call[c] \in Call /\ call[c].on \in Stored
  BY DEF Base, TypeOK, InsertVersion
<1>5. PICK r : r = [state |-> "live", version |-> call[c].next, latest |-> TRUE, parent |-> call[c].on]
  OBVIOUS
<1>6. r \in Row /\ r.state = "live" /\ r.latest /\ r.parent = call[c].on
  BY <1>4, <1>5, FamilyIsStored DEF Row, Call
<1>7. row' = [Unset(call[c].hit \cap Stored) EXCEPT ![m] = r]
  BY <1>1, <1>5 DEF InsertVersion
<1> QED BY <1>1, <1>3, <1>6, <1>7, InsertRows

LEMMA MemoryInserts ==
    ASSUME Base, Base', VersionInv, Order, Memory, NEW c \in Calls, InsertFirst(c) \/ InsertVersion(c)
    PROVE  Memory'
<1>1. /\ UNCHANGED cache /\ call[c].phase = "insert" /\ Goto(c, "invalidate") /\ TypeOK
      /\ \A d \in Calls \ {c} : Same(call[d], call'[d])
  BY Elsewhere DEF InsertFirst, InsertVersion, At, Base, Step
<1>2. /\ call'[c].op = call[c].op /\ call'[c].on = call[c].on /\ call'[c].phase = "invalidate"
  BY <1>1, GotoTurns DEF Turned
<1>3. Learned(call[c], call'[c]) /\ Knows(call[c])' /\ CacheLearned(c)
  BY <1>1, <1>2 DEF Learned, Recalls, Knows, CacheLearned
<1>4. Ages /\ \A n \in Models : row'[n].state = "gone" => Gone(n)
  BY FirstInserts, VersionInserts
<1>5. Tidies(c)
  <2>1. CASE InsertFirst(c)
    BY <2>1, FirstInserts DEF InsertFirst, Tidies, Inserting
  <2>2. CASE InsertVersion(c)
    BY <2>2 DEF InsertVersion, Settle, Tidies
  <2> QED BY <2>1, <2>2
<1>6. Writer(call'[c]) => Writer(call[c]) /\ call'[c].on = call[c].on
  BY <1>1, <1>2 DEF Writer
<1>7. Clearing => Clearing'
  BY <1>1, ClearingStays
<1> QED BY <1>1, <1>3, <1>4, <1>5, <1>6, <1>7, MemoryStep

LEMMA MemoryNext ==
    ASSUME Base, VersionInv, Order, Memory, [Next]_vars
    PROVE  Memory'
<1>1. Base'
  BY BaseNext
<1>2. ASSUME NEW c \in Calls, Step(c) PROVE Memory'
  <2>1. \A d \in Calls \ {c} : Same(call[d], call'[d])
    BY <1>2, Elsewhere DEF Base
  <2> QED BY <1>1, <1>2, <2>1, MemoryFindCached, MemoryFindStored, MemoryKeep, MemoryRead, MemoryClears,
             MemoryFail, MemoryLast, MemoryDemoteAll, MemoryMark, MemoryUnmark, MemoryInserts, MemoryDelete DEF Step
<1>3. ASSUME NEW k \in Keys, Expire(k) PROVE Memory'
  <2>1. \A m \in Models : cache'[m] \in {None, cache[m]}
    BY <1>3, Constants DEF Expire, Base, TypeOK
  <2> QED BY <1>3, <2>1, MemoryKept DEF Expire
<1>4. CASE UNCHANGED vars
  BY <1>4, MemoryKept DEF vars
<1> QED BY <1>1, <1>2, <1>3, <1>4, MemoryBegin, MemoryRestart DEF Next

-----------------------------------------------------------------------------
(* Order.                                                                  *)
LEMMA StepTurns ==
    ASSUME Base, NEW c \in Calls, Step(c)
    PROVE  \/ call'[c].phase = "idle"
           \/ /\ call'[c].op = call[c].op /\ call'[c].on = call[c].on /\ call'[c].alone = call[c].alone
              /\ call[c].phase # "idle"
<1>1. TypeOK
  BY DEF Base
<1>2. ASSUME NEW ph, Goto(c, ph)
      PROVE  call'[c].op = call[c].op /\ call'[c].on = call[c].on /\ call'[c].alone = call[c].alone
  BY <1>1, <1>2, GotoTurns DEF Turned
<1>3. CASE FindCached(c) \/ Keep(c)
  <2>1. PICK v : Continue(c, v)
    BY <1>3 DEF FindCached, Keep
  <2>2. call[c].phase # "idle"
    BY <1>3 DEF FindCached, Keep
  <2> QED BY <1>1, <2>1, <2>2, ContinueTurns DEF Turned
<1>4. CASE FindStored(c)
  BY <1>4, FindStoredTurns DEF Turned, FindStored
<1>5. CASE Load(c)
  BY <1>1, <1>2, <1>5, EndTurns DEF Load, Becomes
<1>6. CASE Bind(c) \/ Delete(c) \/ Invalidate(c) \/ Fail(c)
  BY <1>1, <1>6, EndTurns DEF Bind, Delete, Invalidate, Fail, Becomes
<1>7. CASE InsertFirst(c) \/ InsertVersion(c) \/ DemoteAll(c) \/ Promote(c)
  BY <1>2, <1>7 DEF InsertFirst, InsertVersion, DemoteAll, Promote, At
<1>8. CASE Unbind(c) \/ Inherit(c) \/ Unmark(c) \/ DemoteSiblings(c)
  BY <1>2, <1>8 DEF Unbind, Inherit, Unmark, DemoteSiblings, At
<1>9. CASE Mark(c)
  BY <1>1, <1>9, MarkTurns DEF Turned, Mark, At
<1>10. CASE Unlink(c)
  BY <1>1, <1>10, UnlinkTurns DEF Unlink, At
<1>11. CASE Number(c)
  BY <1>1, <1>11, NumberTurns DEF Number, At
<1>12. CASE Demote(c)
  BY <1>1, <1>12, DemoteTurns DEF Demote, At
<1> QED BY <1>3, <1>4, <1>5, <1>6, <1>7, <1>8, <1>9, <1>10, <1>11, <1>12 DEF Step

LEMMA HitsStay ==
    ASSUME Base, Base', Ages, NEW q \in Call, HitsFamily(q), q.on \in Models,
           row[q.on].state # "none"
    PROVE  HitsFamily(q)'
<1> SUFFICES ASSUME q.op = "version", q.phase = "insert", NEW n \in q.hit
             PROVE  /\ row'[n].state # "none"
                    /\ n \in Stored' /\ q.on \in Stored' => n = q.on \/ row'[n].parent = q.on
  BY DEF HitsFamily
<1>1. n \in Models /\ row[n].state # "none" /\ row'[n].state # "none"
  BY DEF HitsFamily, Ages, Call
<1> SUFFICES ASSUME n \in Stored', q.on \in Stored', n # q.on PROVE row'[n].parent = q.on
  BY <1>1
<1>2. row'[n].state # "gone" /\ row'[q.on].state # "gone"
  BY DEF Stored
<1>3. n \in Stored /\ q.on \in Stored
  BY <1>1, <1>2, RowsAre DEF Ages, Gone
<1>4. row[n].parent = q.on
  BY <1>3 DEF HitsFamily
<1> QED BY <1>1, <1>2, <1>4 DEF Ages

LEMMA OrderCalls ==
    ASSUME Base, Base', Order, NEW c \in Calls, \A d \in Calls \ {c} : Same(call[d], call'[d]), Ages,
           HitsFamily(call[c])'
    PROVE  (\A d \in Calls : HitsFamily(call[d]))'
<1>1. ASSUME NEW d \in Calls \ {c} PROVE HitsFamily(call[d])'
  <2>1. PICK q \in Call : q = call[d]
    BY DEF Base, TypeOK
  <2>2. /\ call'[d].op = q.op /\ call'[d].phase = q.phase /\ call'[d].on = q.on /\ call'[d].hit = q.hit
    BY <2>1, WriterSame
  <2>3. CASE q.op = "version" /\ q.phase = "insert"
    <3>1. q.on \in Models /\ row[q.on].state # "none" /\ HitsFamily(q)
      BY <2>1, <2>3, Constants DEF Base, Held, Order
    <3>2. HitsFamily(q)'
      BY <3>1, HitsStay
    <3> QED BY <2>2, <3>2 DEF HitsFamily
  <2>4. CASE ~(q.op = "version" /\ q.phase = "insert")
    BY <2>2, <2>4 DEF HitsFamily
  <2> QED BY <2>3, <2>4
<1> QED BY <1>1 DEF HitsFamily

LEMMA AloneStep ==
    ASSUME OneAlone, NEW c \in Calls, \A d \in Calls \ {c} : Same(call[d], call'[d]),
           Writer(call'[c]) => Writer(call[c]) /\ call'[c].alone = call[c].alone
    PROVE  OneAlone'
<1>1. \A d \in Calls : Writer(call'[d]) => Writer(call[d]) /\ (call'[d].alone => call[d].alone)
  BY WriterSame
<1> QED BY <1>1 DEF OneAlone, Writer

LEMMA HitsStep ==
    ASSUME Base, NEW c \in Calls, Step(c)
    PROVE  HitsFamily(call[c])'
<1>1. TypeOK
  BY DEF Base
<1>2. CASE Unnumbered(call'[c])
  BY <1>2 DEF Unnumbered, Pending, HitsFamily
<1>3. CASE Number(c)
  BY <1>1, <1>3, NumberTurns DEF HitsFamily
<1>4. CASE Demote(c)
  <2>1. /\ call'[c].on = call[c].on /\ call'[c].hit = Latest(Family(call[c].on)) /\ UNCHANGED row
    BY <1>1, <1>4, DemoteTurns DEF Demote
  <2> QED BY <2>1, RowsAre DEF HitsFamily, Latest, Family, Stored
<1> QED BY <1>1, <1>2, <1>3, <1>4, TakesNone

LEMMA OrderRelabelled ==
    ASSUME Base, Barren, TidyRoots, Relabelled, \A g \in tidy' \ tidy : g \in Stored /\ row[g].parent = None
    PROVE  Barren' /\ TidyRoots'
  BY Relabelling, RowsAre DEF Relabelled, Barren, TidyRoots

LEMMA PromotesRoot ==
    ASSUME Base, VersionInv, NEW c \in Calls, Promote(c), NEW root, root = RootOf(call[c].seen, call[c].on)
    PROVE  \/ tidy' = tidy \ Kin(call[c].on)
           \/ /\ tidy' = tidy \cup {root} /\ call[c].alone /\ call[c].on \in Live
              /\ row[call[c].on].parent = call[c].seen.parent
              /\ root \in Stored /\ row[root].parent = None
<1>1. \/ tidy' = tidy \ Kin(call[c].on)
      \/ /\ tidy' = tidy \cup {root} /\ call[c].alone /\ call[c].on \in Live
         /\ row[call[c].on].parent = call[c].seen.parent /\ row[root].parent = None
  BY DEF Promote, Settle
<1>2. call[c].on \in Stored
  BY DEF Promote
<1>3. row[call[c].on].parent = call[c].seen.parent => root \in Stored
  BY <1>2, Constants DEF RootOf, VersionInv, ParentsStored
<1> QED BY <1>1, <1>3

LEMMA OrderStep ==
    ASSUME Base, Base', VersionInv, Order, NEW c \in Calls, Step(c)
    PROVE  Order'
<1>1. \A d \in Calls \ {c} : Same(call[d], call'[d])
  BY Elsewhere DEF Base
<1>2. OneAlone'
  <2>1. Writer(call'[c]) => Writer(call[c]) /\ call'[c].alone = call[c].alone
    BY StepTurns DEF Writer
  <2> QED BY <1>1, <2>1, AloneStep DEF Order
<1>3. SUFFICES Ages /\ Barren' /\ TidyRoots'
  BY <1>1, <1>2, HitsStep, OrderCalls DEF Order
<1>4. CASE Relabelled /\ tidy' \subseteq tidy
  BY <1>4, RelabelledAges, OrderRelabelled DEF Order
<1>5. CASE FindCached(c) \/ FindStored(c) \/ Keep(c) \/ Load(c) \/ Bind(c) \/ Number(c)
  BY <1>4, <1>5, RowsKept DEF FindCached, FindStored, Keep, Load, Bind, Number, history
<1>6. CASE Demote(c) \/ Unbind(c) \/ Invalidate(c) \/ Unlink(c) \/ Fail(c)
  BY <1>4, <1>6, RowsKept DEF Demote, Unbind, Invalidate, Unlink, Fail, Settle, history
<1>7. CASE DemoteAll(c) \/ Mark(c)
  BY <1>4, <1>7, DemoteAllBase, MarkBase DEF DemoteAll, Mark, Settle, history
<1>8. CASE Inherit(c) \/ Unmark(c) \/ DemoteSiblings(c)
  BY <1>4, <1>8, InheritBase, UnmarkBase, DemoteSiblingsBase DEF Inherit, Unmark, DemoteSiblings, Settle
<1>9. CASE Promote(c)
  <2>1. PICK root : root = RootOf(call[c].seen, call[c].on)
    OBVIOUS
  <2>2. \A g \in tidy' \ tidy : g \in Stored /\ row[g].parent = None
    BY <1>9, <2>1, PromotesRoot
  <2> QED BY <1>9, <2>2, PromoteBase, RelabelledAges, OrderRelabelled DEF Order
<1>10. CASE InsertFirst(c) \/ InsertVersion(c)
  <2>1. PICK m, r, S : /\ m = call[c].new /\ Inserting(m, r, S) /\ Ages
                       /\ InsertFirst(c) => r = FirstVersion
    BY <1>10, FirstInserts, VersionInserts DEF InsertFirst, InsertVersion, At
  <2>2. /\ m \in Models /\ m \notin Stored /\ Stored' = Stored \cup {m} /\ row'[m] = r
        /\ \A n \in Models \ {m} : row'[n].parent = row[n].parent
    BY <2>1 DEF Inserting
  <2>3. Barren'
    BY <2>2 DEF Order, Barren
  <2>4. tidy' \subseteq tidy \/ (tidy' = tidy \cup {m} /\ r.parent = None)
    BY <1>10, <2>1 DEF InsertFirst, InsertVersion, Settle, FirstVersion
  <2>5. TidyRoots'
    <3>1. m \notin tidy
      BY <2>2 DEF Order, TidyRoots
    <3>2. \A n \in tidy : n \in Stored' /\ row'[n].parent = None
      BY <2>2, <3>1, RowsAre DEF Order, TidyRoots
    <3> QED BY <2>2, <2>4, <3>2 DEF TidyRoots
  <2> QED BY <2>1, <2>3, <2>5
<1>11. CASE Delete(c)
  <2>1. PICK m \in Stored :
          /\ m = call[c].on /\ Stored' = Stored \ {m} /\ Ages /\ row'[m].parent = None
          /\ \A n \in Models \ {m} : row'[n] = IF row[n].parent = m THEN [row[n] EXCEPT !.parent = None] ELSE row[n]
          /\ \/ tidy' = tidy /\ row[m].parent # None
             \/ tidy' = tidy \ Kin(m)
    BY <1>11, Deletes
  <2>2. m \in Models /\ m # None
    BY RowsAre
  <2>3. Barren'
    BY <2>1, <2>2 DEF Order, Barren
  <2>4. m \notin tidy' /\ tidy' \subseteq tidy
    BY <2>1, KinIs DEF Order, TidyRoots
  <2>5. TidyRoots'
    BY <2>1, <2>2, <2>4, RowsAre DEF Order, TidyRoots
  <2> QED BY <2>1, <2>3, <2>5
<1> QED BY <1>5, <1>6, <1>7, <1>8, <1>9, <1>10, <1>11 DEF Step

LEMMA OrderBegin ==
    ASSUME Base, Base', Order, NEW c \in Calls, NEW op \in Ops, NEW k \in Keys, Begin(c, op, k)
    PROVE  Order'
<1>1. /\ \A d \in Calls \ {c} : Same(call[d], call'[d])
      /\ call'[c].op = op /\ (call'[c].phase = "insert" => op = "upload")
  BY BeginElsewhere DEF Base
<1>2. UNCHANGED <<row, tidy>>
  BY DEF Begin
<1>3. Relabelled /\ Ages
  BY <1>2, RowsKept, RelabelledAges
<1>4. Barren' /\ TidyRoots'
  BY <1>2, <1>3, OrderRelabelled DEF Order
<1>5. (\A d \in Calls : HitsFamily(call[d]))'
  BY <1>1, <1>3, OrderCalls DEF HitsFamily
<1>6. ASSUME NEW d \in Calls \ {c}, Writer(call'[c]), Writer(call[d])
      PROVE  ~call'[c].alone /\ ~call'[d].alone
  <2>1. PICK others : others = {e \in Calls \ {c} : Busy(e) /\ call[e].op \in Writers}
    OBVIOUS
  <2>2. d \in others /\ op \in Writers
    BY <1>1, <1>6, <2>1 DEF Busy, Writer
  <2>3. PICK q \in Call : q = call[d]
    BY DEF Base, TypeOK
  <2>4. call'[d] = [q EXCEPT !.alone = q.alone /\ d \notin others]
    BY <2>1, <2>2, <2>3 DEF Begin
  <2>5. call'[c].alone = (others = {})
    BY <2>1, <2>2 DEF Begin, IdleCall
  <2>6. ~call'[d].alone
    BY <2>2, <2>3, <2>4 DEF Call
  <2> QED BY <2>2, <2>5, <2>6
<1>7. OneAlone'
  <2>1. \A d \in Calls \ {c} : Writer(call'[d]) => Writer(call[d]) /\ (call'[d].alone => call[d].alone)
    BY <1>1, WriterSame
  <2> QED BY <1>6, <2>1 DEF Order, OneAlone, Writer
<1> QED BY <1>4, <1>5, <1>7 DEF Order

LEMMA OrderNext ==
    ASSUME Base, VersionInv, Order, [Next]_vars
    PROVE  Order'
<1>1. Base'
  BY BaseNext
<1>2. ASSUME UNCHANGED row, tidy' \subseteq tidy, \A d \in Calls : call'[d] \in {call[d], IdleCall}
      PROVE  Order'
  <2>1. Barren' /\ TidyRoots'
    BY <1>2, RowsKept, OrderRelabelled DEF Order
  <2>2. \A d \in Calls : Writer(call'[d]) => call'[d] = call[d]
    BY <1>2, IdleOK DEF Writer
  <2>3. OneAlone'
    BY <2>2 DEF Order, OneAlone, Writer
  <2>4. (\A d \in Calls : HitsFamily(call[d]))'
    BY <1>2, IdleOK DEF Order, HitsFamily, Stored
  <2> QED BY <2>1, <2>3, <2>4 DEF Order
<1>3. CASE Restart
  BY <1>2, <1>3 DEF Restart
<1>4. ASSUME NEW k \in Keys, Expire(k) PROVE Order'
  BY <1>2, <1>4 DEF Expire
<1>5. CASE UNCHANGED vars
  BY <1>2, <1>5 DEF vars
<1> QED BY <1>1, <1>3, <1>4, <1>5, OrderStep, OrderBegin DEF Next

-----------------------------------------------------------------------------
(* Upsets.                                                                 *)
LEMMA NeatIs ==
    ASSUME NEW m
    PROVE  Neat(m) <=> \E n \in Live :
             /\ row[n].latest /\ (n = m \/ row[n].parent = m)
             /\ \A x \in Stored : row[x].latest /\ (x = m \/ row[x].parent = m) => x = n
<1>1. \A x : x \in Latest(Family(m)) <=> x \in Stored /\ row[x].latest /\ (x = m \/ row[x].parent = m)
  BY DEF Latest, Family, Stored
<1>2. \A n \in Live : n \in Stored
  BY DEF Live, Stored
<1>3. ASSUME NEW n \in Live
      PROVE  Latest(Family(m)) = {n} <=>
               /\ row[n].latest /\ (n = m \/ row[n].parent = m)
               /\ \A x \in Stored : row[x].latest /\ (x = m \/ row[x].parent = m) => x = n
  BY <1>1, <1>2
<1> QED BY <1>3 DEF Neat

LEMMA NeatIsNext ==
    ASSUME NEW m
    PROVE  Neat(m)' <=> \E n \in Models :
             /\ row'[n].state = "live" /\ row'[n].latest /\ (n = m \/ row'[n].parent = m)
             /\ \A x \in Stored' : row'[x].latest /\ (x = m \/ row'[x].parent = m) => x = n
<1>1. \A x : x \in Latest(Family(m))' <=> x \in Stored' /\ row'[x].latest /\ (x = m \/ row'[x].parent = m)
  BY DEF Latest, Family, Stored
<1>2. \A n : n \in Live' <=> n \in Models /\ row'[n].state = "live"
  BY DEF Live
<1>3. \A n \in Live' : n \in Stored'
  BY DEF Live, Stored
<1>4. ASSUME NEW n \in Live'
      PROVE  Latest(Family(m))' = {n} <=>
               /\ row'[n].latest /\ (n = m \/ row'[n].parent = m)
               /\ \A x \in Stored' : row'[x].latest /\ (x = m \/ row'[x].parent = m) => x = n
  BY <1>1, <1>3
<1> QED BY <1>2, <1>4 DEF Neat

(* No row of the family of m changes, nor joins it.                        *)
Aside(m) == \A x \in Models : row'[x] = row[x] \/ (x # m /\ row[x].parent # m /\ row'[x].parent # m)

LEMMA NeatAside ==
    ASSUME NEW m, Aside(m), Neat(m)
    PROVE  Neat(m)'
<1>1. PICK n \in Live :
        /\ row[n].latest /\ (n = m \/ row[n].parent = m)
        /\ \A x \in Stored : row[x].latest /\ (x = m \/ row[x].parent = m) => x = n
  BY NeatIs
<1>2. n \in Models /\ row[n].state = "live" /\ row'[n] = row[n]
  BY <1>1 DEF Live, Aside
<1>3. ASSUME NEW x \in Stored', row'[x].latest, x = m \/ row'[x].parent = m PROVE x = n
  <2>1. x \in Models /\ row'[x] = row[x]
    BY <1>3 DEF Stored, Aside
  <2>2. x \in Stored
    BY <2>1 DEF Stored
  <2> QED BY <1>1, <1>3, <2>1, <2>2
<1> QED BY <1>1, <1>2, <1>3, NeatIsNext

(* Families that a call upsets are within its reach.                       *)
LEMMA UpsetMeans ==
    ASSUME Base, VersionInv, Order, Memory, NEW c \in Calls, NEW m \in tidy, Upset(call[c], m)
    PROVE  /\ Writer(call[c]) /\ Recalls(call[c]) /\ HalfDone(c) /\ call[c].on \in Models
           /\ call[c].seen \in Row /\ m \in Kin(call[c].on)
<1>1. PICK q \in Call : q = call[c]
  BY DEF Base, TypeOK
<1>2. Recalls(q) /\ Writer(q) /\ HalfDone(c)
  BY <1>1 DEF Upset, Recalls, Writer, Writers, HalfDone
<1>3. PICK k \in Models, r \in Row : k = q.on /\ r = q.seen
  BY <1>1, <1>2, RecallsRow
<1>4. r \in Recalled(k)
  BY <1>1, <1>2, <1>3, RecalledIs
<1>5. Told(r, k) /\ (Gone(k) => Lost(r))
  BY <1>1, <1>2, <1>3, <1>4 DEF Memory, Remembering, Forgotten, Watched
<1>6. m \in Stored /\ m \in Models /\ m # None /\ row[m].parent = None
  BY RowsAre DEF Order, TidyRoots
<1> SUFFICES m \in Kin(k)
  BY <1>1, <1>2, <1>3
<1>7. CASE m = k \/ m = row[k].parent
  BY <1>6, <1>7, KinIs
<1>8. CASE m = RootOf(r, k) \/ m = row[RootOf(r, k)].parent
  <2>1. CASE r.parent = None
    BY <1>7, <1>8, <2>1 DEF RootOf
  <2>2. CASE r.parent # None
    <3>1. PICK p : p = r.parent
      OBVIOUS
    <3>2. m = p \/ m = row[p].parent
      BY <1>8, <2>2, <3>1 DEF RootOf
    <3>3. p \in Models
      BY <2>2, <3>1 DEF Row
    <3>4. CASE row[k].parent = p
      BY <1>6, <2>2, <3>1, <3>2, <3>4, KinIs
    <3>5. CASE Gone(k)
      BY <1>5, <2>2, <3>1, <3>2, <3>5 DEF Lost
    <3>6. CASE Gone(p)
      <4>1. p \notin Stored
        BY <3>6 DEF Gone, Stored
      <4>2. row[p].parent = None
        BY <3>3, <4>1 DEF Order, Barren
      <4> QED BY <1>6, <3>2, <4>1, <4>2
    <3> QED BY <1>5, <3>1, <3>4, <3>5, <3>6 DEF Told
  <2> QED BY <2>1, <2>2
<1>9. \/ m = k \/ m = row[k].parent
      \/ m = RootOf(r, k) \/ m = row[RootOf(r, k)].parent
  BY <1>1, <1>3 DEF Upset
<1> QED BY <1>7, <1>8, <1>9

LEMMA AloneNeat ==
    ASSUME Base, VersionInv, Order, Memory, Upsets, NEW c \in Calls, Writer(call[c]), call[c].alone,
           NEW m \in tidy, ~Upset(call[c], m)
    PROVE  Neat(m)
  BY UpsetMeans DEF Order, OneAlone, Upsets

LEMMA UpsetsStep ==
    ASSUME Base, VersionInv, Order, Memory, Upsets, NEW c \in Calls,
           \A d \in Calls \ {c} : Same(call[d], call'[d]),
           \A m \in tidy' : \/ Neat(m)' \/ Upset(call[c], m)'
                            \/ m \in tidy /\ Aside(m) /\ ~Upset(call[c], m)
    PROVE  Upsets'
<1> SUFFICES ASSUME NEW m \in tidy, Aside(m), ~Upset(call[c], m)
             PROVE  Neat(m)' \/ \E d \in Calls : Upset(call[d], m)'
  BY DEF Upsets
<1>1. CASE Neat(m)
  BY <1>1, NeatAside
<1>2. ASSUME NEW d \in Calls \ {c}, Upset(call[d], m)
      PROVE  Upset(call[d], m)'
  <2>1. call[d].on \in Models /\ call[d].seen \in Row
    BY <1>2, UpsetMeans
  <2>2. RootOf(call[d].seen, call[d].on) \in Models
    BY <2>1 DEF RootOf, Row
  <2>3. /\ row[call[d].on].parent = m => row'[call[d].on].parent = m
        /\ row[RootOf(call[d].seen, call[d].on)].parent = m =>
             row'[RootOf(call[d].seen, call[d].on)].parent = m
    BY <2>1, <2>2 DEF Aside
  <2>4. /\ call'[d].op = call[d].op /\ call'[d].on = call[d].on /\ call'[d].phase = call[d].phase
        /\ call'[d].seen = call[d].seen
    BY WriterSame
  <2>5. \A x, y : RootOf(x, y)' = RootOf(x, y)
    BY DEF RootOf
  <2> QED BY <1>2, <2>3, <2>4 DEF Upset, RootOf
<1> QED BY <1>1, <1>2 DEF Upsets

(* The rows stay.                                                          *)
LEMMA UpsetsKept ==
    ASSUME Base, VersionInv, Order, Memory, Upsets, UNCHANGED row, NEW c \in Calls,
           \A d \in Calls \ {c} : Same(call[d], call'[d]),
           \/ tidy' = tidy /\ ~HalfDone(c)
           \/ tidy' = tidy \ Kin(call[c].on)
    PROVE  Upsets'
<1>1. \A m : Aside(m)
  BY DEF Aside
<1>2. \A m \in tidy' : m \in tidy /\ ~Upset(call[c], m)
  BY UpsetMeans
<1> QED BY <1>1, <1>2, UpsetsStep

-----------------------------------------------------------------------------
(* What the statements of a call do to the rows.                           *)
LEMMA OneRow ==
    ASSUME Base, NEW m \in Models, NEW l \in BOOLEAN, NEW s \in {"live", "deleted"},
           \/ row' = [row EXCEPT ![m].latest = l] /\ s = row[m].state
           \/ row' = [row EXCEPT ![m].state = s, ![m].latest = l]
    PROVE  /\ \A n \in Models \ {m} : row'[n] = row[n]
           /\ row'[m].latest = l /\ row'[m].state = s /\ row'[m].parent = row[m].parent
<1>1. PICK r \in Row : r = row[m]
  BY RowsAre
<1>2. PICK x, y : x = [r EXCEPT !.latest = l] /\ y = [r EXCEPT !.state = s, !.latest = l]
  OBVIOUS
<1>3. (row' = [row EXCEPT ![m] = x] /\ s = r.state) \/ row' = [row EXCEPT ![m] = y]
  BY <1>1, <1>2 DEF Base, TypeOK, Table
<1>4. /\ x.latest = l /\ x.state = r.state /\ x.parent = r.parent
      /\ y.latest = l /\ y.state = s /\ y.parent = r.parent
  BY <1>2 DEF Row
<1> QED BY <1>1, <1>3, <1>4 DEF Base, TypeOK, Table

LEMMA UnsetRows ==
    ASSUME Base, NEW S, row' = Unset(S)
    PROVE  \A n \in Models : /\ n \notin S => row'[n] = row[n]
                             /\ row'[n].state = row[n].state /\ row'[n].parent = row[n].parent
                             /\ row'[n].latest => n \notin S
<1> SUFFICES ASSUME NEW n \in Models
             PROVE  /\ n \notin S => row'[n] = row[n]
                    /\ row'[n].state = row[n].state /\ row'[n].parent = row[n].parent
                    /\ row'[n].latest => n \notin S
  OBVIOUS
<1>1. PICK r \in Row : r = row[n]
  BY RowsAre
<1>2. PICK x : x = [r EXCEPT !.latest = FALSE]
  OBVIOUS
<1>3. row'[n] = IF n \in S THEN x ELSE r
  BY <1>1, <1>2 DEF Unset
<1>4. ~x.latest /\ x.state = r.state /\ x.parent = r.parent
  BY <1>2 DEF Row
<1> QED BY <1>1, <1>3, <1>4

(* What a call knows of the parent that it goes by.                        *)
LEMMA Goes ==
    ASSUME Base, VersionInv, Order, Memory, NEW c \in Calls, Recalls(call[c]), Writer(call[c]),
           NEW p, p = call[c].seen.parent, p # None
    PROVE  /\ call[c].on \in Models /\ p \in Models
           /\ \/ row[call[c].on].parent = p
              \/ Gone(call[c].on) /\ row[call[c].on].parent = None /\ p \notin tidy /\ row[p].parent \notin tidy
              \/ Gone(p) /\ row[call[c].on].parent = None /\ row[p].parent = None /\ p \notin tidy /\ p \notin Live
<1>1. PICK k \in Models, r \in Row : k = call[c].on /\ r = call[c].seen
  BY RecallsRow
<1>2. r \in Recalled(k)
  BY <1>1, RecalledIs
<1>3. Told(r, k) /\ (Gone(k) => Lost(r))
  BY <1>1, <1>2 DEF Memory, Remembering, Forgotten, Watched
<1>4. p \in Models
  BY <1>1 DEF Row
<1>5. \A x \in Models : Gone(x) => x \notin Stored /\ x \notin Live /\ row[x].parent = None /\ x \notin tidy
  BY RowsAre DEF Gone, Order, Barren, TidyRoots
<1>6. CASE row[k].parent = p
  BY <1>1, <1>4, <1>6
<1>7. CASE Gone(k)
  BY <1>1, <1>3, <1>4, <1>5, <1>7 DEF Lost
<1>8. CASE row[k].parent = None /\ Gone(p)
  BY <1>1, <1>4, <1>5, <1>8
<1> QED BY <1>1, <1>3, <1>6, <1>7, <1>8 DEF Told

-----------------------------------------------------------------------------
LEMMA TidyMeans ==
    ASSUME Base, Order
    PROVE  \A m \in tidy : m \in Models /\ m \in Stored /\ m # None /\ row[m].parent = None
  BY RowsAre DEF Order, TidyRoots

LEMMA UpsetsMark ==
    ASSUME Base, LatestInv, NEW c \in Calls, Mark(c)
    PROVE  Upsets'
<1>1. PICK k : k = call[c].on
  OBVIOUS
<1>2. /\ call[c].op = "remove" /\ call[c].phase = "mark" /\ k \in Stored /\ k \in Models /\ TypeOK
      /\ row' = [row EXCEPT ![k].state = "deleted", ![k].latest = FALSE] /\ Writer(call[c])
  BY <1>1, FamilyIsStored DEF Mark, At, Base, Writer, Writers
<1>3. /\ \A n \in Models \ {k} : row'[n] = row[n]
      /\ ~row'[k].latest /\ row'[k].parent = row[k].parent
  BY <1>2, OneRow
<1>4. /\ call'[c].op = "remove" /\ call'[c].on = k
      /\ call'[c].phase = IF row[k].parent = None THEN "invalidate" ELSE "heir"
  BY <1>1, <1>2, MarkTurns DEF Turned
<1>5. \A d \in Calls \ {c} : Same(call[d], call'[d])
  BY <1>2, Elsewhere DEF Step
<1>6. \A m : ~Upset(call[c], m)
  BY <1>2 DEF Upset
<1>7. \/ tidy' = tidy /\ row[k].parent # None
      \/ tidy' = tidy /\ call[c].alone /\ ~row[k].latest
      \/ tidy' = tidy \ Kin(k)
  BY <1>1 DEF Mark, Settle
<1>8. ASSUME NEW m \in tidy, m # k, m # row[k].parent PROVE Aside(m)
  BY <1>3, <1>8 DEF Aside
<1>9. ASSUME NEW m \in tidy', row[k].parent # None, tidy' = tidy
      PROVE  Upset(call[c], m)' \/ (m \in tidy /\ Aside(m))
  <2>1. m # k
    BY <1>9, TidyMeans DEF LatestInv
  <2>2. CASE m = row[k].parent
    BY <1>3, <1>4, <1>9, <2>2 DEF Upset
  <2> QED BY <1>8, <1>9, <2>1, <2>2
<1>10. ASSUME NEW m \in tidy', tidy' = tidy, call[c].alone, ~row[k].latest PROVE Neat(m)'
  <2>1. Neat(m)
    BY <1>2, <1>6, <1>10, AloneNeat DEF LatestInv
  <2>2. PICK n \in Live :
          /\ row[n].latest /\ (n = m \/ row[n].parent = m)
          /\ \A x \in Stored : row[x].latest /\ (x = m \/ row[x].parent = m) => x = n
    BY <2>1, NeatIs
  <2>3. n \in Models /\ row[n].state = "live" /\ row'[n] = row[n]
    BY <1>3, <1>10, <2>2 DEF Live
  <2>4. ASSUME NEW x \in Stored', row'[x].latest, x = m \/ row'[x].parent = m PROVE x = n
    <3>1. x \in Models /\ row'[x] = row[x]
      BY <1>3, <2>4 DEF Stored
    <3> QED BY <2>2, <2>4, <3>1 DEF Stored
  <2> QED BY <2>2, <2>3, <2>4, NeatIsNext
<1>11. ASSUME NEW m \in tidy', tidy' = tidy \ Kin(k) PROVE m \in tidy /\ Aside(m)
  BY <1>8, <1>11, TidyMeans, KinIs DEF LatestInv
<1> QED BY <1>5, <1>6, <1>7, <1>9, <1>10, <1>11, UpsetsStep DEF LatestInv

LEMMA UpsetsUnmark ==
    ASSUME Base, LatestInv, NEW c \in Calls, Unmark(c)
    PROVE  Upsets'
<1>1. PICK k, ph : k = call[c].on /\ ph = (IF call[c].seen.parent = None THEN "invalidate" ELSE "siblings")
  OBVIOUS
<1>2. /\ call[c].op = "restore" /\ call[c].phase = "unmark" /\ k \in Stored /\ k \in Models /\ TypeOK
      /\ row' = [row EXCEPT ![k].state = "live", ![k].latest = TRUE] /\ Goto(c, ph)
  BY <1>1, FamilyIsStored DEF Unmark, At, Base
<1>3. /\ \A n \in Models \ {k} : row'[n] = row[n]
      /\ row'[k].parent = row[k].parent
  BY <1>2, OneRow
<1>4. call'[c].op = "restore" /\ call'[c].on = k /\ call'[c].phase = ph
  BY <1>1, <1>2, GotoTurns DEF Turned
<1>5. \A d \in Calls \ {c} : Same(call[d], call'[d])
  BY <1>2, Elsewhere DEF Step
<1>6. \A m : ~Upset(call[c], m)
  BY <1>2 DEF Upset
<1>7. \/ tidy' = tidy /\ ph = "siblings"
      \/ tidy' = tidy \ Kin(k)
  BY <1>1 DEF Unmark, Settle
<1>8. ASSUME NEW m \in tidy, m # k, m # row[k].parent PROVE Aside(m)
  BY <1>3, <1>8 DEF Aside
<1>9. ASSUME NEW m \in tidy', ph = "siblings", tidy' = tidy
      PROVE  Upset(call[c], m)' \/ (m \in tidy /\ Aside(m))
  <2>1. CASE m = k \/ m = row[k].parent
    BY <1>3, <1>4, <1>9, <2>1 DEF Upset
  <2> QED BY <1>8, <1>9, <2>1
<1>10. ASSUME NEW m \in tidy', tidy' = tidy \ Kin(k) PROVE m \in tidy /\ Aside(m)
  BY <1>8, <1>10, TidyMeans, KinIs DEF LatestInv
<1> QED BY <1>5, <1>6, <1>7, <1>9, <1>10, UpsetsStep DEF LatestInv

LEMMA UpsetsDemoteAll ==
    ASSUME Base, LatestInv, NEW c \in Calls, DemoteAll(c)
    PROVE  Upsets'
<1>1. PICK k, root : k = call[c].on /\ root = RootOf(call[c].seen, k)
  OBVIOUS
<1>2. /\ call[c].op = "rollback" /\ call[c].phase = "demote" /\ TypeOK
      /\ row' = Unset(Latest(Family(root))) /\ Goto(c, "promote") /\ UNCHANGED tidy /\ Recalls(call[c])
  BY <1>1 DEF DemoteAll, At, Base, Demotable, history, Recalls
<1>3. root \in Models
  BY <1>1, <1>2, RecallsRow DEF RootOf, Row
<1>4. \A n \in Models : /\ n \notin Latest(Family(root)) => row'[n] = row[n]
                        /\ row'[n].parent = row[n].parent
  BY <1>2, UnsetRows
<1>5. /\ call'[c].op = "rollback" /\ call'[c].on = k /\ call'[c].phase = "promote" /\ call'[c].seen = call[c].seen
  BY <1>1, <1>2, GotoTurns DEF Turned
<1>6. \A d \in Calls \ {c} : Same(call[d], call'[d])
  BY <1>2, Elsewhere DEF Step
<1>7. \A m : ~Upset(call[c], m)
  BY <1>2 DEF Upset
<1>8. ASSUME NEW m \in tidy PROVE Upset(call[c], m)' \/ Aside(m)
  <2>1. CASE m = root \/ m = row[root].parent
    <3>1. RootOf(call'[c].seen, call'[c].on) = root
      BY <1>1, <1>5 DEF RootOf
    <3>2. m = root \/ m = row'[root].parent
      BY <1>3, <1>4, <2>1
    <3> QED BY <1>5, <3>1, <3>2 DEF Upset, RootOf
  <2>2. CASE m # root /\ m # row[root].parent
    <3>1. \A n \in Latest(Family(root)) : n # m /\ row[n].parent # m
      BY <1>3, <2>2, TidyMeans, Constants DEF LatestInv, Latest, Family
    <3> QED BY <1>4, <3>1 DEF Aside
  <2> QED BY <2>1, <2>2
<1> QED BY <1>2, <1>6, <1>7, <1>8, UpsetsStep DEF LatestInv

-----------------------------------------------------------------------------
LEMMA UpsetsPromote ==
    ASSUME Base, LatestInv, NEW c \in Calls, Promote(c)
    PROVE  Upsets'
<1>1. PICK k, p, root : k = call[c].on /\ p = call[c].seen.parent /\ root = (IF p = None THEN k ELSE p)
  OBVIOUS
<1>2. /\ call[c].op = "rollback" /\ call[c].phase = "promote" /\ k \in Stored /\ k \in Models /\ TypeOK
      /\ row' = [row EXCEPT ![k].latest = TRUE] /\ root = RootOf(call[c].seen, call[c].on)
  BY <1>1, FamilyIsStored DEF Promote, At, Base, RootOf
<1>3. /\ \A n \in Models \ {k} : row'[n] = row[n]
      /\ row'[k].latest /\ row'[k].state = row[k].state /\ row'[k].parent = row[k].parent
  <2>1. row[k].state \in {"live", "deleted"}
    BY <1>2, RowsAre
  <2> QED BY <1>2, <2>1, OneRow
<1>4. \A d \in Calls \ {c} : Same(call[d], call'[d])
  BY <1>2, Elsewhere DEF Step
<1>5. \/ /\ tidy' = tidy \cup {root} /\ call[c].alone /\ k \in Live
         /\ row[k].parent = p /\ row[root].parent = None
      \/ tidy' = tidy \ Kin(k)
  BY <1>1, <1>2 DEF Promote, Settle
<1>6. ASSUME NEW m \in tidy, m # k, m # row[k].parent PROVE Aside(m)
  BY <1>3, <1>6 DEF Aside
<1>7. ASSUME call[c].alone, k \in Live, row[k].parent = p PROVE Neat(root)'
  <2>1. Latest(Family(root)) = {}
    BY <1>2, <1>7 DEF LatestInv, Readies, Ready
  <2>2. k = root \/ row'[k].parent = root
    BY <1>1, <1>3, <1>7
  <2>3. ASSUME NEW x \in Stored', row'[x].latest, x = root \/ row'[x].parent = root PROVE x = k
    <3> SUFFICES ASSUME x # k PROVE FALSE
      OBVIOUS
    <3>1. x \in Models /\ row'[x] = row[x]
      BY <1>3, <2>3 DEF Stored
    <3>2. x \in Latest(Family(root))
      BY <2>3, <3>1 DEF Stored, Latest, Family
    <3> QED BY <2>1, <3>2
  <2>4. row'[k].state = "live"
    BY <1>3, <1>7 DEF Live
  <2> QED BY <1>2, <1>3, <2>2, <2>3, <2>4, NeatIsNext
<1>8. ASSUME NEW m \in tidy, m # root, row[k].parent = p, row[root].parent = None
      PROVE  Aside(m) /\ ~Upset(call[c], m)
  <2>1. m \in Models /\ m # None /\ row[m].parent = None
    BY TidyMeans DEF LatestInv
  <2>2. m # k /\ m # row[k].parent
    BY <1>1, <1>8, <2>1
  <2>3. ~Upset(call[c], m)
    BY <1>2, <1>8, <2>1 DEF Upset
  <2> QED BY <1>6, <2>2, <2>3
<1>9. ASSUME NEW m \in tidy', tidy' = tidy \ Kin(k)
      PROVE  m \in tidy /\ Aside(m) /\ ~Upset(call[c], m)
  <2>1. m \in tidy /\ m \notin Kin(k) /\ m # None
    BY <1>9, TidyMeans DEF LatestInv
  <2>2. m # k /\ m # row[k].parent
    BY <2>1, KinIs
  <2> QED BY <1>1, <1>6, <2>1, <2>2, UpsetMeans DEF LatestInv
<1> QED BY <1>4, <1>5, <1>7, <1>8, <1>9, UpsetsStep DEF LatestInv

LEMMA UpsetsInherit ==
    ASSUME Base, LatestInv, NEW c \in Calls, Inherit(c)
    PROVE  Upsets'
<1>1. PICK k, p : k = call[c].on /\ p = call[c].seen.parent
  OBVIOUS
<1>2. /\ call[c].op = "remove" /\ call[c].phase = "heir" /\ TypeOK
      /\ row' = IF p \in Live THEN [row EXCEPT ![p].latest = TRUE] ELSE row
      /\ Recalls(call[c]) /\ Writer(call[c])
  BY <1>1 DEF Inherit, At, Base, Recalls, Writer, Writers
<1>3. /\ \A n \in Models : n # p => row'[n] = row[n]
      /\ p \notin Live => row' = row
      /\ p \in Live => p \in Models /\ row'[p].latest /\ row'[p].state = "live" /\ row'[p].parent = row[p].parent
  <2>1. CASE p \in Live
    <3>1. p \in Models /\ row[p].state = "live"
      BY <2>1 DEF Live
    <3> QED BY <1>2, <2>1, <3>1, OneRow
  <2>2. CASE p \notin Live
    BY <1>2, <2>2
  <2> QED BY <2>1, <2>2
<1>4. \A d \in Calls \ {c} : Same(call[d], call'[d])
  BY <1>2, Elsewhere DEF Step
<1>5. \/ tidy' = tidy /\ call[c].alone /\ call[c].seen.latest /\ p \in Live /\ row[p].parent = None
      \/ tidy' = tidy \ Kin(k)
  BY <1>1 DEF Inherit, Settle
<1>6. ASSUME NEW m \in tidy, (p \in Live => m # p /\ m # row[p].parent) PROVE Aside(m)
  BY <1>3, <1>6 DEF Aside
<1>7. ASSUME p \in Live
      PROVE  \/ row[k].parent = p
             \/ row[k].parent = None /\ p \notin tidy /\ row[p].parent \notin tidy
  BY <1>1, <1>2, <1>7, Goes, RowsAre DEF LatestInv
<1>8. ASSUME tidy' = tidy, call[c].alone, call[c].seen.latest, p \in Live, row[p].parent = None, NEW m \in tidy
      PROVE  Neat(m)' \/ (Aside(m) /\ ~Upset(call[c], m))
  <2>1. CASE m = p
    <3>1. Latest(Family(p)) = {}
      BY <1>1, <1>2, <1>8, <2>1 DEF LatestInv, Readies, Ready
    <3>2. ASSUME NEW x \in Stored', row'[x].latest, x = p \/ row'[x].parent = p PROVE x = p
      <4> SUFFICES ASSUME x # p PROVE FALSE
        OBVIOUS
      <4>1. x \in Models /\ row'[x] = row[x]
        BY <1>3, <3>2 DEF Stored
      <4>2. x \in Latest(Family(p))
        BY <3>2, <4>1 DEF Stored, Latest, Family
      <4> QED BY <3>1, <4>2
    <3> QED BY <1>3, <1>8, <2>1, <3>2, NeatIsNext
  <2>2. CASE m # p
    <3>1. m # None
      BY TidyMeans DEF LatestInv
    <3>2. Aside(m)
      BY <1>6, <1>8, <2>2, <3>1
    <3>3. m # row[k].parent
      BY <1>7, <1>8, <2>2, <3>1
    <3> QED BY <1>1, <1>2, <3>2, <3>3 DEF Upset
  <2> QED BY <2>1, <2>2
<1>9. ASSUME NEW m \in tidy', tidy' = tidy \ Kin(k)
      PROVE  m \in tidy /\ Aside(m) /\ ~Upset(call[c], m)
  <2>1. m \in tidy /\ m \notin Kin(k) /\ m # None
    BY <1>9, TidyMeans DEF LatestInv
  <2>2. ASSUME p \in Live PROVE m # p /\ m # row[p].parent
    <3>1. CASE row[k].parent = p
      <4>1. p # None
        BY <2>2, Constants DEF Live
      <4> QED BY <2>1, <3>1, <4>1, KinIs
    <3> QED BY <1>7, <2>1, <2>2, <3>1
  <2> QED BY <1>1, <1>6, <2>1, <2>2, UpsetMeans DEF LatestInv
<1> QED BY <1>4, <1>5, <1>8, <1>9, UpsetsStep DEF LatestInv

LEMMA UpsetsSiblings ==
    ASSUME Base, LatestInv, NEW c \in Calls, DemoteSiblings(c)
    PROVE  Upsets'
<1>1. PICK k, p, S : /\ k = call[c].on /\ p = call[c].seen.parent
                     /\ S = {n \in Live \ {k} : row[n].parent = p}
  OBVIOUS
<1>2. /\ call[c].op = "restore" /\ call[c].phase = "siblings" /\ TypeOK /\ row' = Unset(S)
      /\ Recalls(call[c]) /\ Writer(call[c])
  BY <1>1 DEF DemoteSiblings, At, Base, Recalls, Writer, Writers
<1>3. \A n \in Models : /\ n \notin S => row'[n] = row[n]
                        /\ row'[n].state = row[n].state /\ row'[n].parent = row[n].parent
                        /\ row'[n].latest => n \notin S
  BY <1>2, UnsetRows
<1>4. \A d \in Calls \ {c} : Same(call[d], call'[d])
  BY <1>2, Elsewhere DEF Step
<1>5. \/ tidy' = tidy /\ call[c].alone /\ ~row[p].latest
      \/ tidy' = tidy \ Kin(k)
  BY <1>1 DEF DemoteSiblings, Settle
<1>6. p # None
  BY <1>1, <1>2 DEF LatestInv, Memory, Knows
<1>7. ASSUME NEW m \in tidy, m # p PROVE Aside(m)
  <2>1. \A n \in S : n # m /\ row[n].parent # m
    BY <1>1, <1>6, <1>7, TidyMeans DEF LatestInv
  <2> QED BY <1>3, <2>1 DEF Aside
<1>8. row[k].parent = p \/ (row[k].parent = None /\ p \notin tidy)
  BY <1>1, <1>2, <1>6, Goes DEF LatestInv
<1>9. ASSUME tidy' = tidy, call[c].alone, ~row[p].latest, NEW m \in tidy
      PROVE  Neat(m)' \/ (Aside(m) /\ ~Upset(call[c], m))
  <2>1. CASE m = p
    <3>1. row[k].parent = p /\ k \in Live /\ row[k].latest /\ Latest(Family(p)) \subseteq Live
      BY <1>1, <1>2, <1>9, <2>1 DEF LatestInv, Readies, Ready
    <3>2. k \in Models /\ row'[k] = row[k] /\ row[k].state = "live"
      BY <1>1, <1>3, <3>1 DEF Live
    <3>3. ASSUME NEW x \in Stored', row'[x].latest, x = p \/ row'[x].parent = p PROVE x = k
      <4>1. x \in Models /\ x \notin S /\ row'[x] = row[x]
        BY <1>3, <3>3 DEF Stored
      <4>2. x \in Latest(Family(p))
        BY <3>3, <4>1 DEF Stored, Latest, Family
      <4>3. x # p /\ row[x].parent = p
        BY <1>9, <3>3, <4>1
      <4> QED BY <1>1, <3>1, <4>1, <4>2, <4>3
    <3> QED BY <2>1, <3>1, <3>2, <3>3, NeatIsNext
  <2>2. CASE m # p
    <3>1. m # None
      BY TidyMeans DEF LatestInv
    <3>2. m # k
      BY <1>1, <1>2, <1>6, <1>9 DEF LatestInv, Memory, Knows
    <3>3. m # row[k].parent
      BY <1>8, <2>2, <3>1
    <3> QED BY <1>1, <1>2, <1>7, <2>2, <3>2, <3>3 DEF Upset
  <2> QED BY <2>1, <2>2
<1>10. ASSUME NEW m \in tidy', tidy' = tidy \ Kin(k)
      PROVE  m \in tidy /\ Aside(m) /\ ~Upset(call[c], m)
  <2>1. m \in tidy /\ m \notin Kin(k)
    BY <1>10
  <2>2. m # p
    BY <1>6, <1>8, <2>1, KinIs
  <2> QED BY <1>1, <1>7, <2>1, <2>2, UpsetMeans DEF LatestInv
<1> QED BY <1>4, <1>5, <1>9, <1>10, UpsetsStep DEF LatestInv

-----------------------------------------------------------------------------
LEMMA UpsetsDelete ==
    ASSUME Base, LatestInv, NEW c \in Calls, Delete(c)
    PROVE  Upsets'
<1>1. PICK k \in Stored :
        /\ k = call[c].on /\ call[c].op = "permanent" /\ call[c].phase = "delete" /\ Writer(call[c])
        /\ Stored' = Stored \ {k} /\ row'[k].parent = None
        /\ \A n \in Models \ {k} : row'[n] = IF row[n].parent = k THEN [row[n] EXCEPT !.parent = None] ELSE row[n]
        /\ \/ tidy' = tidy /\ call[c].alone /\ ~row[k].latest /\ row[k].parent # None
           \/ tidy' = tidy \ Kin(k)
  BY Deletes
<1>2. k \in Models /\ k # None
  BY RowsAre
<1>3. \A n \in Models \ {k} : /\ row[n].parent # k => row'[n] = row[n]
                              /\ row[n].parent = k => row'[n].parent = None
                              /\ row'[n].latest = row[n].latest /\ row'[n].state = row[n].state
  <2> SUFFICES ASSUME NEW n \in Models \ {k}
               PROVE  /\ row[n].parent # k => row'[n] = row[n]
                      /\ row[n].parent = k => row'[n].parent = None
                      /\ row'[n].latest = row[n].latest /\ row'[n].state = row[n].state
    OBVIOUS
  <2>1. PICK r \in Row : r = row[n]
    BY RowsAre
  <2>2. PICK x : x = [r EXCEPT !.parent = None]
    OBVIOUS
  <2>3. x.parent = None /\ x.latest = r.latest /\ x.state = r.state
    BY <2>2 DEF Row
  <2>4. row'[n] = IF r.parent = k THEN x ELSE r
    BY <1>1, <2>1, <2>2
  <2> QED BY <2>1, <2>3, <2>4
<1>4. \A d \in Calls \ {c} : Same(call[d], call'[d])
  BY Elsewhere DEF Step, Base
<1>5. \A m : ~Upset(call[c], m)
  BY <1>1 DEF Upset
<1>6. ASSUME NEW m \in tidy', tidy' = tidy, call[c].alone, ~row[k].latest, row[k].parent # None
      PROVE  Neat(m)'
  <2>1. m \in Models /\ m # None /\ m # k
    BY <1>6, TidyMeans DEF LatestInv
  <2>2. Neat(m)
    BY <1>1, <1>5, <1>6, AloneNeat DEF LatestInv
  <2>3. PICK n \in Live :
          /\ row[n].latest /\ (n = m \/ row[n].parent = m)
          /\ \A x \in Stored : row[x].latest /\ (x = m \/ row[x].parent = m) => x = n
    BY <2>2, NeatIs
  <2>4. n \in Models \ {k} /\ row[n].state = "live"
    BY <1>6, <2>3 DEF Live
  <2>5. row'[n].state = "live" /\ row'[n].latest /\ (n = m \/ row'[n].parent = m)
    BY <1>3, <2>1, <2>3, <2>4
  <2>6. ASSUME NEW x \in Stored', row'[x].latest, x = m \/ row'[x].parent = m PROVE x = n
    <3>1. x \in Stored /\ x \in Models \ {k}
      BY <1>1, RowsAre
    <3>2. row[x].latest /\ (x = m \/ row[x].parent = m)
      BY <1>3, <2>1, <2>6, <3>1
    <3> QED BY <2>3, <3>1, <3>2
  <2> QED BY <2>4, <2>5, <2>6, NeatIsNext
<1>7. ASSUME NEW m \in tidy', tidy' = tidy \ Kin(k) PROVE m \in tidy /\ Aside(m)
  <2>1. m \in tidy /\ m \in Models /\ m # None /\ row[m].parent = None /\ m \notin Kin(k)
    BY <1>7, TidyMeans DEF LatestInv
  <2>2. m # k /\ m # row[k].parent
    BY <2>1, KinIs
  <2>3. ASSUME NEW x \in Models
        PROVE  row'[x] = row[x] \/ (x # m /\ row[x].parent # m /\ row'[x].parent # m)
    BY <1>1, <1>2, <1>3, <2>1, <2>2
  <2> QED BY <2>1, <2>3 DEF Aside
<1> QED BY <1>1, <1>4, <1>5, <1>6, <1>7, UpsetsStep DEF LatestInv

LEMMA UpsetsInsertFirst ==
    ASSUME Base, LatestInv, NEW c \in Calls, InsertFirst(c)
    PROVE  Upsets'
<1>1. PICK k : k = call[c].new
  OBVIOUS
<1>2. call[c].op = "upload" /\ tidy' = tidy \cup {k}
  BY <1>1 DEF InsertFirst, At
<1>3. PICK r : r = FirstVersion
  OBVIOUS
<1>4. Inserting(k, r, {}) /\ r.parent = None /\ Pending(call[c])
  BY <1>1, <1>3, FirstInserts DEF FirstVersion, Pending, InsertFirst, At
<1>5. /\ k \in Models /\ k \notin Stored /\ row'[k] = r /\ r.latest /\ r.state = "live"
      /\ Stored' = Stored \cup {k} /\ \A n \in Models \ {k} : row'[n] = row[n]
  BY <1>4 DEF Inserting
<1>6. row[k].parent = None
  BY <1>5 DEF LatestInv, Order, Barren
<1>7. \A d \in Calls \ {c} : Same(call[d], call'[d])
  BY Elsewhere DEF Step, Base
<1>8. Neat(k)'
  <2>1. ASSUME NEW x \in Stored', row'[x].latest, x = k \/ row'[x].parent = k PROVE x = k
    <3> SUFFICES ASSUME x # k PROVE FALSE
      OBVIOUS
    <3>1. x \in Stored /\ row[x].parent = k
      BY <1>5, <2>1, RowsAre
    <3>2. k \in Stored \cup {None}
      BY <3>1 DEF LatestInv, VersionInv, ParentsStored
    <3> QED BY <1>5, <3>2, Constants
  <2> QED BY <1>5, <2>1, NeatIsNext
<1>9. ASSUME NEW m \in tidy PROVE Aside(m)
  <2>1. m # k /\ m # None
    BY <1>5, TidyMeans DEF LatestInv
  <2>2. row[k].parent # m /\ row'[k].parent # m
    BY <1>4, <1>5, <1>6, <2>1
  <2> QED BY <1>5, <2>1, <2>2 DEF Aside
<1>10. \A m : ~Upset(call[c], m)
  BY <1>2 DEF Upset
<1> QED BY <1>2, <1>7, <1>8, <1>9, <1>10, UpsetsStep DEF LatestInv

LEMMA UpsetsInsertVersion ==
    ASSUME Base, LatestInv, NEW c \in Calls, InsertVersion(c)
    PROVE  Upsets'
<1>1. PICK k, w, S : k = call[c].on /\ w = call[c].new /\ S = call[c].hit \cap Stored
  OBVIOUS
<1>2. call[c].op = "version" /\ call[c].phase = "insert" /\ k \in Stored
  BY <1>1 DEF InsertVersion, At
<1>3. PICK r \in Row : Inserting(w, r, S) /\ r.parent = k
  BY <1>1, VersionInserts
<1>4. /\ w \in Models /\ w \notin Stored /\ row'[w] = r /\ r.latest /\ r.state = "live" /\ r.parent = k
      /\ Stored' = Stored \cup {w} /\ \A n \in Models \ {w} : n \notin S => row'[n] = row[n]
      /\ \A n \in Models \ {w} : row'[n].parent = row[n].parent /\ (row'[n].latest => row[n].latest /\ n \notin S)
  BY <1>3 DEF Inserting
<1>5. row[w].parent = None /\ k \in Models /\ k # None
  BY <1>2, <1>4, RowsAre DEF LatestInv, Order, Barren
<1>6. \A d \in Calls \ {c} : Same(call[d], call'[d])
  BY Elsewhere DEF Step, Base
<1>7. \A m : ~Upset(call[c], m)
  BY <1>2 DEF Upset
<1>8. \/ tidy' = tidy /\ call[c].alone /\ row[k].parent = None
      \/ tidy' = tidy \ Kin(k)
  BY <1>1 DEF InsertVersion, Settle
<1>9. \A n \in S : n = k \/ row[n].parent = k
  BY <1>1, <1>2 DEF LatestInv, Order, HitsFamily
<1>10. ASSUME NEW m \in tidy, m # k, m # row[k].parent PROVE Aside(m)
  <2>1. m \in Models /\ m \in Stored /\ m # None /\ row[m].parent = None
    BY TidyMeans DEF LatestInv
  <2>2. \A n \in S : n # m /\ row[n].parent # m
    BY <1>5, <1>9, <1>10, <2>1
  <2>3. w # m /\ row[w].parent # m /\ row'[w].parent # m
    BY <1>4, <1>5, <1>10, <2>1
  <2>4. ASSUME NEW x \in Models
        PROVE  row'[x] = row[x] \/ (x # m /\ row[x].parent # m /\ row'[x].parent # m)
    BY <1>4, <2>2, <2>3
  <2> QED BY <2>4 DEF Aside
<1>11. ASSUME tidy' = tidy, call[c].alone, row[k].parent = None, NEW m \in tidy
       PROVE  Neat(m)' \/ Aside(m)
  <2>1. CASE m = k
    <3>1. Latest(Family(k)) \subseteq call[c].hit
      BY <1>1, <1>2, <1>11 DEF LatestInv, Readies, Ready
    <3>2. ASSUME NEW x \in Stored', row'[x].latest, x = k \/ row'[x].parent = k PROVE x = w
      <4> SUFFICES ASSUME x # w PROVE FALSE
        OBVIOUS
      <4>1. x \in Stored /\ x \in Models /\ row[x].latest /\ x \notin S /\ (x = k \/ row[x].parent = k)
        BY <1>4, <3>2, RowsAre
      <4>2. x \in Latest(Family(k))
        BY <4>1 DEF Latest, Family
      <4> QED BY <1>1, <3>1, <4>1, <4>2
    <3> QED BY <1>4, <2>1, <3>2, NeatIsNext
  <2>2. CASE m # k
    BY <1>10, <1>11, <2>2, TidyMeans DEF LatestInv
  <2> QED BY <2>1, <2>2
<1>12. ASSUME NEW m \in tidy', tidy' = tidy \ Kin(k) PROVE m \in tidy /\ Aside(m)
  BY <1>10, <1>12, TidyMeans, KinIs DEF LatestInv
<1> QED BY <1>6, <1>7, <1>8, <1>11, <1>12, UpsetsStep DEF LatestInv

LEMMA UpsetsNext ==
    ASSUME Base, LatestInv, [Next]_vars
    PROVE  Upsets'
<1>1. ASSUME NEW c \in Calls, Step(c) PROVE Upsets'
  <2>1. \A d \in Calls \ {c} : Same(call[d], call'[d])
    BY <1>1, Elsewhere DEF Base
  <2>2. CASE FindCached(c) \/ FindStored(c) \/ Keep(c) \/ Load(c) \/ Bind(c)
    BY <2>1, <2>2, UpsetsKept DEF LatestInv, FindCached, FindStored, Keep, Load, Bind, At, HalfDone, history
  <2>3. CASE Number(c) \/ Demote(c) \/ Unbind(c) \/ Invalidate(c) \/ Unlink(c)
    BY <2>1, <2>3, UpsetsKept DEF LatestInv, Number, Demote, Unbind, Invalidate, Unlink, At, HalfDone, history
  <2>4. CASE Fail(c)
    BY <2>1, <2>4, UpsetsKept DEF LatestInv, Fail, Settle
  <2> QED BY <1>1, <2>2, <2>3, <2>4, UpsetsMark, UpsetsUnmark, UpsetsDemoteAll, UpsetsPromote, UpsetsInherit,
             UpsetsSiblings, UpsetsDelete, UpsetsInsertFirst, UpsetsInsertVersion DEF Step
<1>2. ASSUME NEW c \in Calls, NEW op \in Ops, NEW k \in Keys, Begin(c, op, k) PROVE Upsets'
  <2>1. (\A d \in Calls \ {c} : Same(call[d], call'[d])) /\ call[c].phase = "idle"
    BY <1>2, BeginElsewhere DEF Base
  <2> QED BY <1>2, <2>1, UpsetsKept DEF LatestInv, Begin, HalfDone
<1>3. CASE Restart
  <2>1. UNCHANGED row
    BY <1>3 DEF Restart
  <2>2. ASSUME NEW m \in tidy' PROVE Neat(m)'
    <3>1. m \in tidy /\ \A d \in Calls : HalfDone(d) => m \notin Kin(call[d].on)
      BY <1>3, <2>2 DEF Restart
    <3>2. Neat(m)
      BY <3>1, UpsetMeans DEF LatestInv, Upsets
    <3>3. Aside(m)
      BY <2>1 DEF Aside
    <3> QED BY <3>2, <3>3, NeatAside
  <2> QED BY <2>2 DEF Upsets
<1>4. ASSUME UNCHANGED <<row, call, tidy>> PROVE Upsets'
  <2>1. \A m : Neat(m) => Neat(m)'
    BY <1>4, NeatAside DEF Aside
  <2>2. \A c, m : Upset(call[c], m) => Upset(call[c], m)'
    BY <1>4 DEF Upset, RootOf
  <2> QED BY <1>4, <2>1, <2>2 DEF LatestInv, Upsets
<1>5. ASSUME NEW k \in Keys, Expire(k) PROVE Upsets'
  BY <1>4, <1>5 DEF Expire
<1>6. CASE UNCHANGED vars
  BY <1>4, <1>6 DEF vars
<1> QED BY <1>1, <1>2, <1>3, <1>5, <1>6 DEF Next

-----------------------------------------------------------------------------
(* Readies.                                                                *)
LEMMA LatestIs ==
    ASSUME NEW m, NEW x
    PROVE  /\ x \in Latest(Family(m)) <=> x \in Stored /\ row[x].latest /\ (x = m \/ row[x].parent = m)
           /\ x \in Latest(Family(m))' <=> x \in Stored' /\ row'[x].latest /\ (x = m \/ row'[x].parent = m)
  BY DEF Latest, Family, Stored

(* The families of the models that there are stay as they are.             *)
Quiet ==
    \A m \in Models : row[m].state # "none" =>
      /\ row'[m] = row[m] /\ Latest(Family(m))' = Latest(Family(m))
      /\ m \in tidy' => m \in tidy

LEMMA QuietUnless ==
    ASSUME UNCHANGED row, tidy' \subseteq tidy
    PROVE  Quiet
<1>1. \A m : Latest(Family(m))' = Latest(Family(m))
  BY DEF Latest, Family, Stored
<1> QED BY <1>1 DEF Quiet

LEMMA FirstIsQuiet ==
    ASSUME Base, VersionInv, NEW c \in Calls, InsertFirst(c)
    PROVE  Quiet
<1>1. PICK w, r : w = call[c].new /\ r = FirstVersion
  OBVIOUS
<1>2. Inserting(w, r, {}) /\ r.parent = None /\ tidy' = tidy \cup {w}
  BY <1>1, FirstInserts DEF FirstVersion, InsertFirst
<1>3. /\ w \in Models /\ row[w].state = "none" /\ row'[w].parent = None /\ w \notin Stored
      /\ Stored' = Stored \cup {w} /\ \A n \in Models \ {w} : row'[n] = row[n]
  BY <1>2 DEF Inserting
<1>4. ASSUME NEW m \in Models, row[m].state # "none" PROVE Latest(Family(m))' = Latest(Family(m))
  <2>1. m # w /\ m # None
    BY <1>3, <1>4, Constants
  <2>2. ASSUME NEW x PROVE x \in Latest(Family(m))' <=> x \in Latest(Family(m))
    <3>1. CASE x = w
      BY <1>3, <2>1, <3>1, LatestIs
    <3>2. CASE x # w
      BY <1>3, <3>2, LatestIs, RowsAre
    <3> QED BY <3>1, <3>2
  <2> QED BY <2>2
<1> QED BY <1>2, <1>3, <1>4 DEF Quiet

LEMMA ReadyStays ==
    ASSUME Base, Base', Memory, Quiet, NEW d \in Calls, Ready(call[d]),
           call'[d].op = call[d].op, call'[d].phase = call[d].phase, call'[d].on = call[d].on,
           call'[d].seen = call[d].seen, call'[d].hit = call[d].hit
    PROVE  Ready(call[d])'
<1>1. PICK q \in Call : q = call[d]
  BY DEF Base, TypeOK
<1>2. PICK p : p = call'[d]
  OBVIOUS
<1>3. SUFFICES Ready(p)'
  BY <1>2 DEF Ready, Latest, Family, Stored, Live, RootOf
<1>4. /\ p.op = q.op /\ p.phase = q.phase /\ p.on = q.on /\ p.seen = q.seen /\ p.hit = q.hit
      /\ Ready(q) /\ Held(q)
  BY <1>1, <1>2 DEF Base
<1>5. ASSUME p.op = "version", p.phase = "insert" PROVE Ready(p)'
  <2>1. q.on \in Models /\ row[q.on].state # "none"
    BY <1>4, <1>5, Constants DEF Held
  <2>2. Latest(Family(q.on))' \subseteq q.hit
    BY <1>4, <1>5, <2>1 DEF Quiet, Ready
  <2> QED BY <1>4, <1>5, <2>2 DEF Ready
<1>6. ASSUME Recalls(q)
      PROVE  /\ q.on \in Models /\ row[q.on].state # "none" /\ q.seen \in Row
             /\ q.seen.parent # None => q.seen.parent \in Models /\ row[q.seen.parent].state # "none"
  <2>1. q.on \in Models /\ q.seen \in Row
    BY <1>1, <1>6, RecallsRow
  <2>2. q.seen \in Recalled(q.on)
    BY <1>1, <1>6, RecalledIs
  <2>3. Told(q.seen, q.on)
    BY <2>1, <2>2 DEF Memory, Remembering
  <2> QED BY <2>1, <2>3 DEF Told, Row
<1>7. ASSUME p.op = "rollback", p.phase = "promote" PROVE Ready(p)'
  <2>1. Recalls(q)
    BY <1>4, <1>7 DEF Recalls
  <2>2. PICK root : root = RootOf(q.seen, q.on)
    OBVIOUS
  <2>3. root \in Models /\ row[root].state # "none"
    BY <1>6, <2>1, <2>2 DEF RootOf
  <2>4. Latest(Family(root))' = {}
    BY <1>4, <1>7, <2>2, <2>3 DEF Quiet, Ready
  <2>5. RootOf(p.seen, p.on) = root
    BY <1>4, <2>2
  <2> QED BY <1>7, <2>4, <2>5 DEF Ready, RootOf
<1>8. ASSUME p.op = "remove", p.phase = "heir" PROVE Ready(p)'
  <2>1. Recalls(q)
    BY <1>4, <1>8 DEF Recalls
  <2>2. PICK k : k = q.seen.parent
    OBVIOUS
  <2>3. ASSUME k \in tidy', q.seen.latest PROVE Latest(Family(k))' = {}
    <3>1. k \in Models /\ row[k].state # "none"
      <4>1. k # None
        BY <2>3, Constants DEF Base, TypeOK
      <4> QED BY <1>6, <2>1, <2>2, <4>1
    <3> QED BY <1>4, <1>8, <2>2, <2>3, <3>1 DEF Quiet, Ready
  <2> QED BY <1>4, <1>8, <2>2, <2>3 DEF Ready
<1>9. ASSUME p.op = "restore", p.phase = "siblings" PROVE Ready(p)'
  <2>1. Recalls(q)
    BY <1>4, <1>9 DEF Recalls
  <2>2. PICK k : k = q.seen.parent
    OBVIOUS
  <2>3. k # None
    BY <1>1, <1>4, <1>9, <2>2 DEF Memory, Knows
  <2>4. ASSUME k \in tidy'
        PROVE  /\ row'[q.on].parent = k /\ q.on \in Live' /\ row'[q.on].latest
               /\ Latest(Family(k))' \subseteq Live'
    <3>1. k \in Models /\ row[k].state # "none" /\ k \in tidy
      BY <1>6, <2>1, <2>2, <2>3, <2>4 DEF Quiet
    <3>2. /\ row[q.on].parent = k /\ q.on \in Live /\ row[q.on].latest
          /\ Latest(Family(k)) \subseteq Live
      BY <1>4, <1>9, <2>2, <3>1 DEF Ready
    <3>3. \A x \in Live : x \in Live' /\ row'[x] = row[x]
      BY DEF Live, Quiet
    <3> QED BY <3>1, <3>2, <3>3 DEF Quiet
  <2> QED BY <1>4, <1>9, <2>2, <2>4 DEF Ready
<1> QED BY <1>5, <1>7, <1>8, <1>9 DEF Ready

(* A writer that has one more statement to run on its family.              *)
Poised(q) ==
    \/ q.op = "version" /\ q.phase = "insert"
    \/ q.op = "rollback" /\ q.phase = "promote"
    \/ q.op = "remove" /\ q.phase = "heir"
    \/ q.op = "restore" /\ q.phase = "siblings"

LEMMA PoisedWriter == \A q : (Poised(q) => Writer(q)) /\ (~Poised(q) => Ready(q))
  BY DEF Poised, Writer, Writers, Ready

LEMMA UnpoisedNext ==
    ASSUME NEW c \in Calls, ~Poised(call'[c])
    PROVE  Ready(call[c])'
  BY DEF Poised, Ready

LEMMA OthersQuiet ==
    ASSUME Base, VersionInv, NEW c \in Calls, Step(c), ~Writer(call[c])
    PROVE  Quiet
<1>1. PICK q : q = call[c] /\ (q.phase # "idle" => q.phase \in Path[q.op])
  BY DEF Base, Held
<1>2. q.op \notin Writers \/ q.phase = "idle"
  BY <1>1 DEF Writer
<1>3. CASE FindCached(c) \/ FindStored(c) \/ Keep(c) \/ Load(c) \/ Bind(c) \/ Number(c) \/ Demote(c)
  BY <1>3, QuietUnless DEF FindCached, FindStored, Keep, Load, Bind, Number, Demote, history
<1>4. CASE Unbind(c) \/ Unlink(c) \/ Invalidate(c)
  BY <1>4, QuietUnless DEF Unbind, Unlink, Invalidate, history
<1>5. CASE Fail(c)
  BY <1>5, QuietUnless DEF Fail, Settle
<1>6. CASE InsertVersion(c) \/ DemoteAll(c) \/ Promote(c) \/ Mark(c) \/ Inherit(c)
  BY <1>1, <1>2, <1>6 DEF InsertVersion, DemoteAll, Promote, Mark, Inherit, At, Writers
<1>7. CASE Unmark(c) \/ DemoteSiblings(c) \/ Delete(c)
  BY <1>1, <1>2, <1>7 DEF Unmark, DemoteSiblings, Delete, At, Writers
<1> QED BY <1>3, <1>4, <1>5, <1>6, <1>7, FirstIsQuiet DEF Step

LEMMA BecomesPoised ==
    ASSUME Base, NEW c \in Calls, Step(c), Poised(call'[c])
    PROVE  Demote(c) \/ DemoteAll(c) \/ Mark(c) \/ Unmark(c)
<1>1. TypeOK
  BY DEF Base
<1>2. ASSUME NEW ph \in Careless, ph # "insert", Goto(c, ph) PROVE FALSE
  BY <1>1, <1>2, GotoTurns DEF Turned, Poised, Careless
<1>3. CASE FindCached(c) \/ Keep(c)
  <2>1. PICK v : Continue(c, v)
    BY <1>3 DEF FindCached, Keep
  <2>2. AfterFind(call[c].op, v) \notin {"insert", "promote", "heir", "siblings"}
    BY DEF AfterFind
  <2> QED BY <1>1, <2>1, <2>2, ContinueTurns DEF Turned, Poised
<1>4. CASE FindStored(c)
  BY <1>4, FindStoredTurns DEF Turned, Poised
<1>5. CASE Load(c)
  <2>1. call' = [call EXCEPT ![c] = IdleCall] \/ Goto(c, "bind") \/ Goto(c, "unbind")
    BY <1>5 DEF Load
  <2> QED BY <1>1, <1>2, <2>1, EndTurns DEF Becomes, Careless, Poised
<1>6. CASE Bind(c) \/ Delete(c) \/ Invalidate(c) \/ Fail(c)
  BY <1>1, <1>6, EndTurns DEF Bind, Delete, Invalidate, Fail, Becomes, Poised
<1>7. CASE InsertFirst(c) \/ InsertVersion(c) \/ Promote(c) \/ Inherit(c) \/ DemoteSiblings(c)
  BY <1>2, <1>7 DEF InsertFirst, InsertVersion, Promote, Inherit, DemoteSiblings, Careless
<1>8. CASE Unbind(c)
  <2>1. Goto(c, "mark") \/ Goto(c, "unlink")
    BY <1>8 DEF Unbind
  <2> QED BY <1>2, <2>1 DEF Careless
<1>9. CASE Unlink(c)
  BY <1>1, <1>9, UnlinkTurns DEF Poised
<1>10. CASE Number(c)
  BY <1>1, <1>10, NumberTurns DEF Poised
<1> QED BY <1>3, <1>4, <1>5, <1>6, <1>7, <1>8, <1>9, <1>10 DEF Step

LEMMA ReadyDemote ==
    ASSUME Base, NEW c \in Calls, Demote(c)
    PROVE  Ready(call[c])'
<1>1. /\ call'[c].op = "version" /\ call'[c].phase = "insert" /\ call'[c].on = call[c].on
      /\ call'[c].hit = Latest(Family(call[c].on)) /\ UNCHANGED row
  BY DemoteTurns DEF Base, Demote
<1>2. Latest(Family(call[c].on))' = call'[c].hit
  BY <1>1 DEF Latest, Family, Stored
<1> QED BY <1>1, <1>2 DEF Ready

LEMMA ReadyDemoteAll ==
    ASSUME Base, NEW c \in Calls, DemoteAll(c)
    PROVE  Ready(call[c])'
<1>1. PICK root, S : root = RootOf(call[c].seen, call[c].on) /\ S = Latest(Family(root))
  OBVIOUS
<1>2. row' = Unset(S) /\ Goto(c, "promote") /\ call[c].op = "rollback"
  BY <1>1 DEF DemoteAll, Demotable, At
<1>3. /\ call'[c].op = "rollback" /\ call'[c].phase = "promote" /\ RootOf(call'[c].seen, call'[c].on) = root
  BY <1>1, <1>2, GotoTurns DEF Turned, Base
<1>4. ASSUME NEW x \in Latest(Family(root))' PROVE FALSE
  <2>1. x \in Stored' /\ x \in Models /\ row'[x].latest /\ (x = root \/ row'[x].parent = root)
    BY LatestIs DEF Stored
  <2>2. x \notin S /\ row'[x] = row[x]
    BY <1>2, <2>1, UnsetRows
  <2>3. x \in S
    BY <1>1, <2>1, <2>2, LatestIs DEF Stored
  <2> QED BY <2>2, <2>3
<1>5. Latest(Family(root))' = {}
  BY <1>4
<1> QED BY <1>3, <1>5 DEF Ready, RootOf

LEMMA ReadyMark ==
    ASSUME Base, LatestInv, NEW c \in Calls, Mark(c), call'[c].alone, Poised(call'[c])
    PROVE  Ready(call[c])'
<1>1. PICK k, p : k = call[c].on /\ p = row[k].parent
  OBVIOUS
<1>2. /\ call[c].op = "remove" /\ call[c].phase = "mark" /\ k \in Stored /\ k \in Models /\ TypeOK
      /\ row' = [row EXCEPT ![k].state = "deleted", ![k].latest = FALSE] /\ Writer(call[c])
  BY <1>1, FamilyIsStored DEF Mark, At, Base, Writer, Writers
<1>3. /\ \A n \in Models \ {k} : row'[n] = row[n]
      /\ ~row'[k].latest /\ row'[k].parent = p
  BY <1>1, <1>2, OneRow
<1>4. /\ call'[c].op = "remove" /\ call[c].alone /\ call'[c].seen = row[k]
      /\ call'[c].phase = IF p = None THEN "invalidate" ELSE "heir"
  BY <1>1, <1>2, MarkTurns DEF Turned
<1>5. p # None /\ UNCHANGED tidy
  BY <1>1, <1>4 DEF Poised, Mark
<1>6. ASSUME p \in tidy, row[k].latest PROVE Latest(Family(p))' = {}
  <2>1. ~Upset(call[c], p)
    BY <1>2 DEF Upset
  <2>2. PICK n \in Live : Latest(Family(p)) = {n}
    BY <1>2, <1>4, <1>6, <2>1, AloneNeat DEF LatestInv, Neat
  <2>3. k = n
    BY <1>1, <1>2, <1>6, <2>2, LatestIs
  <2>4. ASSUME NEW x \in Latest(Family(p))' PROVE FALSE
    <3>1. x \in Stored' /\ x \in Models /\ row'[x].latest /\ (x = p \/ row'[x].parent = p)
      BY <2>4, LatestIs DEF Stored
    <3>2. x # k /\ row'[x] = row[x]
      BY <1>3, <3>1
    <3>3. x \in Latest(Family(p))
      BY <3>1, <3>2, LatestIs DEF Stored
    <3> QED BY <2>2, <2>3, <3>2, <3>3
  <2> QED BY <2>4
<1> QED BY <1>1, <1>4, <1>5, <1>6 DEF Ready

LEMMA ReadyUnmark ==
    ASSUME Base, LatestInv, NEW c \in Calls, Unmark(c), call'[c].alone, Poised(call'[c])
    PROVE  Ready(call[c])'
<1>1. PICK k, p, ph : /\ k = call[c].on /\ p = call[c].seen.parent
                      /\ ph = (IF p = None THEN "invalidate" ELSE "siblings")
  OBVIOUS
<1>2. /\ call[c].op = "restore" /\ call[c].phase = "unmark" /\ k \in Stored /\ k \in Models /\ TypeOK
      /\ row' = [row EXCEPT ![k].state = "live", ![k].latest = TRUE] /\ Goto(c, ph)
      /\ Writer(call[c]) /\ Recalls(call[c])
  BY <1>1, FamilyIsStored DEF Unmark, At, Base, Writer, Writers, Recalls
<1>3. /\ \A n \in Models \ {k} : row'[n] = row[n]
      /\ row'[k].latest /\ row'[k].state = "live" /\ row'[k].parent = row[k].parent
  BY <1>2, OneRow
<1>4. /\ call'[c].op = "restore" /\ call[c].alone /\ call'[c].seen.parent = p /\ call'[c].on = k
      /\ call'[c].phase = ph
  BY <1>1, <1>2, GotoTurns DEF Turned
<1>5. p # None /\ UNCHANGED tidy
  BY <1>1, <1>4 DEF Poised, Unmark
<1>6. ASSUME p \in tidy
      PROVE  row'[k].parent = p /\ k \in Live' /\ Latest(Family(p))' \subseteq Live'
  <2>1. ~Upset(call[c], p)
    BY <1>2 DEF Upset
  <2>2. PICK n \in Live : Latest(Family(p)) = {n}
    BY <1>2, <1>4, <1>6, <2>1, AloneNeat DEF LatestInv, Neat
  <2>3. row[k].parent = p
    BY <1>1, <1>2, <1>5, <1>6, Goes DEF LatestInv
  <2>4. k \in Live'
    BY <1>2, <1>3 DEF Live
  <2>5. ASSUME NEW x \in Latest(Family(p))', x # k PROVE x \in Live'
    <3>1. x \in Stored' /\ x \in Models /\ row'[x].latest /\ (x = p \/ row'[x].parent = p)
      BY <2>5, LatestIs DEF Stored
    <3>2. row'[x] = row[x]
      BY <1>3, <2>5, <3>1
    <3>3. x \in Latest(Family(p))
      BY <3>1, <3>2, LatestIs DEF Stored
    <3> QED BY <2>2, <3>2, <3>3 DEF Live
  <2> QED BY <1>3, <2>3, <2>4, <2>5
<1> QED BY <1>3, <1>4, <1>5, <1>6 DEF Ready

LEMMA ReadiesStep ==
    ASSUME Base, Base', LatestInv, NEW c \in Calls, Step(c)
    PROVE  Readies'
<1>1. \A d \in Calls \ {c} : Same(call[d], call'[d])
  BY Elsewhere DEF Base
<1>2. ASSUME NEW d \in Calls \ {c}, call'[d].alone PROVE Ready(call[d])'
  <2>1. /\ call'[d].op = call[d].op /\ call'[d].phase = call[d].phase /\ call'[d].on = call[d].on
        /\ call'[d].seen = call[d].seen /\ call'[d].hit = call[d].hit /\ call[d].alone
    BY <1>1, <1>2, WriterSame
  <2>2. CASE Poised(call'[d])
    <3>1. Writer(call[d])
      BY <2>1, <2>2, PoisedWriter DEF Writer
    <3>2. ~Writer(call[c])
      BY <2>1, <3>1 DEF LatestInv, Order, OneAlone
    <3>3. Quiet
      BY <3>2, OthersQuiet DEF LatestInv
    <3> QED BY <2>1, <3>3, ReadyStays DEF LatestInv, Readies
  <2> QED BY <2>2, UnpoisedNext
<1>3. ASSUME call'[c].alone PROVE Ready(call[c])'
  BY <1>3, BecomesPoised, UnpoisedNext, ReadyDemote, ReadyDemoteAll, ReadyMark, ReadyUnmark
<1> QED BY <1>2, <1>3 DEF Readies

LEMMA ReadiesNext ==
    ASSUME Base, LatestInv, [Next]_vars
    PROVE  Readies'
<1>1. Base'
  BY BaseNext
<1>2. ASSUME NEW c \in Calls, NEW op \in Ops, NEW k \in Keys, Begin(c, op, k) PROVE Readies'
  <2>1. /\ \A d \in Calls \ {c} : Same(call[d], call'[d])
        /\ call'[c].op = op /\ (call'[c].phase = "insert" => op = "upload")
    BY <1>2, BeginElsewhere DEF Base
  <2>2. call'[c].phase \in {"insert", "load", "find"}
    <3>1. call'[c].phase = CASE op = "upload" -> "insert" [] op \in {"bind", "permanent"} -> "load"
                             [] OTHER -> "find"
      BY <1>2 DEF Begin, IdleCall
    <3> QED BY <3>1
  <2>3. Ready(call[c])'
    BY <2>1, <2>2, UnpoisedNext DEF Poised
  <2>4. Quiet
    BY <1>2, QuietUnless DEF Begin
  <2>5. ASSUME NEW d \in Calls \ {c}, call'[d].alone PROVE Ready(call[d])'
    <3>1. /\ call'[d].op = call[d].op /\ call'[d].phase = call[d].phase /\ call'[d].on = call[d].on
          /\ call'[d].seen = call[d].seen /\ call'[d].hit = call[d].hit /\ call[d].alone
      BY <2>1, <2>5, WriterSame
    <3> QED BY <1>1, <2>4, <3>1, ReadyStays DEF LatestInv, Readies
  <2> QED BY <2>3, <2>5 DEF Readies
<1>3. CASE Restart
  <2>1. \A c \in Calls : ~Poised(call'[c])
    BY <1>3, IdleOK DEF Restart, Poised
  <2> QED BY <2>1, UnpoisedNext DEF Readies
<1>4. ASSUME UNCHANGED <<row, call, tidy>> PROVE Readies'
  <2>1. Quiet
    BY <1>4, QuietUnless
  <2> QED BY <1>1, <1>4, <2>1, ReadyStays DEF LatestInv, Readies
<1>5. ASSUME NEW k \in Keys, Expire(k) PROVE Readies'
  BY <1>4, <1>5 DEF Expire
<1>6. CASE UNCHANGED vars
  BY <1>4, <1>6 DEF vars
<1> QED BY <1>1, <1>2, <1>3, <1>5, <1>6, ReadiesStep DEF Next

LEMMA LatestNext == Base /\ LatestInv /\ [Next]_vars => LatestInv'
<1> SUFFICES ASSUME Base, LatestInv, [Next]_vars PROVE LatestInv'
  OBVIOUS
<1>1. VersionInv /\ Memory /\ Order
  BY DEF LatestInv
<1>2. VersionInv' /\ Memory' /\ Order'
  BY <1>1, VersionNext, MemoryNext, OrderNext
<1> QED BY <1>2, UpsetsNext, ReadiesNext DEF LatestInv

LEMMA LatestInit == Init => LatestInv
<1> SUFFICES ASSUME Init PROVE LatestInv
  OBVIOUS
<1>1. VersionInv /\ Base
  BY InitInvs
<1>2. PICK m \in Models, second \in SUBSET Models :
        /\ m \notin second /\ Cardinality(second) <= 1
        /\ row = [n \in Models |->
             IF n = m THEN [FirstVersion EXCEPT !.latest = second = {}]
             ELSE IF n \in second THEN [FirstVersion EXCEPT !.version = 2, !.parent = m] ELSE NoRow]
        /\ tidy = {m} /\ cache = [k \in Keys |-> None]
        /\ call = [c \in Calls |-> IdleCall]
  BY DEF Init
<1>3. PICK l \in BOOLEAN : l <=> second = {}
  OBVIOUS
<1>4. /\ row[m].state = "live" /\ row[m].parent = None /\ (row[m].latest <=> l)
      /\ \A n \in second : row[n].state = "live" /\ row[n].parent = m /\ row[n].latest
      /\ \A n \in Models : n # m /\ n \notin second => row[n] = NoRow
  <2>1. (second = {}) = l
    BY <1>3
  <2> QED BY <1>2, <2>1 DEF FirstVersion
<1>5. Stored = {m} \cup second
  BY <1>4, NoRowOK DEF Stored
<1>6. \A c \in Calls : call[c].phase = "idle"
  BY <1>2, IdleOK
<1>7. Memory
  <2>1. \A k \in Models : cache[k] = None
    BY <1>2, Constants
  <2>2. \A k \in Models : Recalled(k) = {}
    BY <1>6, <2>1 DEF Recalled, Recalls
  <2>3. CacheKnows
    BY <1>2, <2>1, Constants DEF CacheKnows
  <2> QED BY <1>6, <2>2, <2>3 DEF Memory, Remembering, Forgotten, Knows
<1>8. Order
  <2>1. Barren
    BY <1>4, <1>5 DEF Barren, NoRow
  <2>2. TidyRoots
    BY <1>2, <1>4, <1>5 DEF TidyRoots
  <2> QED BY <1>6, <2>1, <2>2 DEF Order, OneAlone, HitsFamily, Writer
<1>9. Neat(m)
  <2>1. CASE second = {}
    <3>1. m \in Live /\ row[m].latest
      BY <1>3, <1>4, <2>1 DEF Live
    <3> QED BY <1>5, <2>1, <3>1, NeatIs
  <2>2. CASE second # {}
    <3>1. PICK n \in second : TRUE
      BY <2>2
    <3>2. second = {n}
      BY <1>2, <3>1, AtMostOne
    <3>3. n \in Live /\ row[n].latest /\ row[n].parent = m /\ ~row[m].latest
      BY <1>3, <1>4, <2>2, <3>1 DEF Live
    <3> QED BY <1>5, <3>2, <3>3, NeatIs
  <2> QED BY <2>1, <2>2
<1>10. Upsets /\ Readies
  BY <1>2, <1>6, <1>9, PoisedWriter DEF Upsets, Readies, Writer
<1> QED BY <1>1, <1>7, <1>8, <1>10 DEF LatestInv

(* When no writer is on its way, every family that only uploads onto its   *)
(* root, rollbacks and removals of its newest version have changed, one at *)
(* a time and none cut off, has exactly one latest version, a live one:    *)
(* what each call has read, from the cache too, names its family or one    *)
(* that the model has left.                                                *)
THEOREM OneLatestCorrect == Spec => []OneLatest
<1>1. Init => Base /\ LatestInv
  BY BaseInit, LatestInit
<1>2. Base /\ LatestInv /\ [Next]_vars => (Base /\ LatestInv)'
  BY BaseNext, LatestNext
<1>3. Base /\ LatestInv => OneLatest
  <2> SUFFICES ASSUME Base, LatestInv, Writing = {}, NEW m \in tidy PROVE Neat(m)
    BY DEF OneLatest, Neat
  <2>1. \A c \in Calls : ~Writer(call[c])
    BY DEF Writing, Busy, Writer
  <2> QED BY <2>1, UpsetMeans DEF LatestInv, Upsets
<1> QED BY <1>1, <1>2, <1>3, PTL DEF Spec
=============================================================================
