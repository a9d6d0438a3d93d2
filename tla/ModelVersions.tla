--------------------------- MODULE ModelVersions ---------------------------
(***************************************************************************)
(* ModelsService: versions of 3D models, soft deletion and restoration,    *)
(* the files behind the rows and the metadata cache in front of them.      *)
(*                                                                         *)
(* A version is a row that points at the model it was uploaded onto; the   *)
(* family of a model is itself and the rows that point at it, which is     *)
(* what every query of the service looks at.  Each call is cut at its      *)
(* awaits: a statement of the database is one step, so calls interleave    *)
(* between any two statements, and any statement may fail.                 *)
(*                                                                         *)
(* One tenant and one twin; names, sizes and mesh names are left out, and  *)
(* the parts of a model are one: "bound" are the models with a sensor on   *)
(* it.  update is left out: it writes the name and the description only.   *)
(***************************************************************************)
EXTENDS Naturals, FiniteSets

CONSTANTS
    Models,     \* bound: ids that uploads may use
    Calls,      \* bound: calls in progress at the same time
    Ops,        \* the operations that are called, out of AllOps
    Requests,   \* bound: how many are made
    None,       \* no parent, no model, no cache entry
    List        \* the cache key of the tenant's list

Writers == {"version", "rollback", "remove", "restore", "permanent"}
AllOps == Writers \cup {"read", "list", "upload", "bind"}

ASSUME ModelsAssumption ==
    /\ None \notin Models /\ List \notin Models /\ None # List
    /\ IsFiniteSet(Models)
    /\ Ops \subseteq AllOps /\ Requests \in Nat

VARIABLES
    row,      \* row[m]: the row of models_3d
    files,    \* models whose file is on disk
    bound,    \* models with a sensor bound to one of their parts
    cache,    \* metadataCache: what findById or findAllByTenant answered
    call,     \* call[c]: the request that c executes
    made,     \* how many requests were made
    tidy,     \* history: models whose family nobody put into disorder
    raced,    \* history: models onto which uploads overlapped
    suspect,  \* history: keys whose entry was read before a change
    cut       \* history: models whose permanent removal was cut off

vars == <<row, files, bound, cache, call, made, tidy, raced, suspect, cut>>
history == <<made, tidy, raced, suspect, cut>>

Keys == Models \cup {List}
NoRow == [state |-> "none", version |-> 0, latest |-> FALSE, parent |-> None]
Row == [state : {"none", "live", "deleted", "gone"}, version : Nat, latest : BOOLEAN,
        parent : Models \cup {None}]
Table == [Models -> Row]

IdleCall == [op |-> "read", on |-> None, phase |-> "idle", seen |-> NoRow,
             new |-> None, next |-> 0, hit |-> {}, alone |-> TRUE, late |-> FALSE]
Phases == {"idle", "find", "keep", "load", "number", "demote", "insert", "promote", "unbind", "mark",
           "heir", "unmark", "siblings", "bind", "unlink", "delete", "invalidate"}
Call == [op : AllOps, on : Keys \cup {None}, phase : Phases, seen : Table \cup Row,
         new : Models \cup {None}, next : Nat, hit : SUBSET Models, alone : BOOLEAN, late : BOOLEAN]

Stored == {m \in Models : row[m].state \in {"live", "deleted"}}
Live == {m \in Models : row[m].state = "live"}
Family(m) == {n \in Stored : n = m \/ row[n].parent = m}
Latest(S) == {m \in S : row[m].latest}
At(c, op, p) == call[c].op = op /\ call[c].phase = p
Busy(c) == call[c].phase # "idle"
Writing == {c \in Calls : Busy(c) /\ call[c].op \in Writers \cup {"upload"}}
Fresh == {m \in Models \ files : row[m] = NoRow /\ \A c \in Calls : call[c].new # m}

TypeOK ==
    /\ row \in Table
    /\ files \subseteq Models /\ bound \subseteq Stored
    /\ cache \in [Keys -> Table \cup Row \cup {None}]
    /\ \A m \in Models : cache[m] # None => cache[m] \in Row /\ cache[m].state \in {"live", "deleted"}
    /\ call \in [Calls -> Call]
    /\ made \in 0 .. Requests
    /\ tidy \subseteq Models /\ raced \subseteq Models /\ suspect \subseteq Keys
    /\ cut \subseteq Models

FirstVersion == [state |-> "live", version |-> 1, latest |-> TRUE, parent |-> None]

(* Models have been uploaded, one after the other, and the process has     *)
(* just started.                                                           *)
Init ==
    \E m \in Models, second \in SUBSET Models :
      /\ m \notin second /\ Cardinality(second) <= 1
      /\ row = [n \in Models |->
           IF n = m THEN [FirstVersion EXCEPT !.latest = second = {}]
           ELSE IF n \in second THEN [FirstVersion EXCEPT !.version = 2, !.parent = m] ELSE NoRow]
      /\ files = {m} \cup second /\ tidy = {m} /\ bound = {}
      /\ cache = [k \in Keys |-> None]
      /\ call = [c \in Calls |-> IdleCall]
      /\ made = 0 /\ raced = {} /\ suspect = {} /\ cut = {}

-----------------------------------------------------------------------------
(* Ancestors: a model and the chain of parents above it.                   *)
Ancestors(m) ==
    LET up[i \in 0 .. Cardinality(Models)] ==
          IF i = 0 THEN {m} ELSE up[i - 1] \cup ({row[n].parent : n \in up[i - 1]} \ {None})
    IN  up[Cardinality(Models)]

(* The models whose families a change to the family of m may reach: each   *)
(* query of the service looks one parent up and its children down.         *)
ParentsOf(S) == {row[n].parent : n \in S} \ {None}
Kin(m) == {m} \cup ParentsOf({m}) \cup ParentsOf(ParentsOf({m}))

Goto(c, p) == call' = [call EXCEPT ![c].phase = p]

(* A writer has made its last write.  When it was alone, and "tame", tidy  *)
(* families stay tidy and "good" ones become so.                           *)
Settle(c, tame, good) ==
    tidy' = IF call[c].alone /\ tame THEN tidy \cup good
            ELSE tidy \ Kin(call[c].on)

(* A request arrives.  Two writers in progress at once are not alone.      *)
Begin(c, op, k) ==
    LET others == IF op \in Writers THEN {d \in Calls \ {c} : Busy(d) /\ call[d].op \in Writers}
                  ELSE {}
        first == CASE op = "upload" -> "insert" [] op \in {"bind", "permanent"} -> "load"
                   [] OTHER -> "find"
    IN
    /\ ~Busy(c) /\ op \in Ops /\ made < Requests
    /\ made' = made + 1
    /\ IF op = "upload" THEN k \in Fresh ELSE IF op = "list" THEN k = List ELSE k \in Stored
    /\ call' = [d \in Calls |->
         IF d = c THEN [IdleCall EXCEPT !.op = op, !.on = k, !.phase = first,
                                        !.new = IF op = "upload" THEN k ELSE None,
                                        !.alone = others = {}]
         ELSE [call[d] EXCEPT !.alone = @ /\ d \notin others]]
    /\ files' = IF op = "upload" THEN files \cup {k} ELSE files
    /\ UNCHANGED <<row, bound, cache, tidy, raced, suspect, cut>>

(* What comes after the look-up of findById.                               *)
AfterFind(op, r) ==
    CASE op = "version" -> "number" [] op = "rollback" -> "demote" [] op = "remove" -> "unbind"
      [] op = "restore" /\ r.state = "deleted" -> "unmark"
      [] OTHER -> "idle"

(* Mutation: no row is no error.                                           *)
FindableAlways(c) == TRUE

View(k) == IF k = List THEN row ELSE row[k]
Findable(c) == call[c].on = List \/ call[c].on \in
                 (IF call[c].op = "restore" THEN Stored ELSE Live)
Continue(c, v) ==
    LET p == AfterFind(call[c].op, v) IN
    call' = [call EXCEPT ![c] = IF p = "idle" THEN IdleCall ELSE [@ EXCEPT !.phase = p, !.seen = v]]

(* findById and findAllByTenant: from the cache, whatever it says ...      *)
FindCached(c) ==
    LET k == call[c].on IN
    /\ call[c].phase = "find" /\ cache[k] # None
    /\ Continue(c, cache[k])
    /\ UNCHANGED <<row, files, bound, cache, history>>

(* ... or from the database ...                                            *)
FindStored(c) ==
    LET k == call[c].on IN
    /\ call[c].phase = "find" /\ cache[k] = None
    /\ call' = [call EXCEPT ![c] = IF Findable(c)
                  THEN [@ EXCEPT !.phase = "keep", !.seen = View(k), !.late = FALSE] ELSE IdleCall]
    /\ UNCHANGED <<row, files, bound, cache, history>>

(* ... and then the answer goes into the cache.                            *)
Keep(c) ==
    LET k == call[c].on IN
    /\ call[c].phase = "keep"
    /\ cache' = [cache EXCEPT ![k] = call[c].seen]
    /\ suspect' = IF call[c].late THEN suspect \cup {k} ELSE suspect \ {k}
    /\ Continue(c, call[c].seen)
    /\ UNCHANGED <<row, files, bound, tidy, raced, cut, made>>

(* Mutation: only the list is dropped.                                     *)
ClearedList == [cache EXCEPT ![List] = None]

(* invalidateCache: every key of a model and of the tenant.                *)
Cleared == [k \in Keys |-> None]

(* What is read and not yet kept at that moment is out of date.            *)
Late(calls) == [d \in Calls |-> [calls[d] EXCEPT !.late = calls[d].phase = "keep"]]

Invalidate(c) ==
    /\ call[c].phase = "invalidate"
    /\ cache' = Cleared
    /\ suspect' = suspect \ {k \in Keys : cache'[k] = None}
    /\ call' = Late([call EXCEPT ![c] = IdleCall])
    /\ UNCHANGED <<row, files, bound, tidy, raced, cut, made>>

(* uploadModel, when the file is written: the row of a first version.      *)
InsertFirst(c) ==
    LET m == call[c].new IN
    /\ At(c, "upload", "insert")
    /\ row' = [row EXCEPT ![m] = FirstVersion]
    /\ tidy' = tidy \cup {m}
    /\ Goto(c, "invalidate")
    /\ UNCHANGED <<files, bound, cache, made, raced, suspect, cut>>

(* Mutation: the number after that of the model uploaded onto.             *)
NumberAfter(p) == {row[p].version + 1}

(* The number after the highest of a family, after 1 when there is none.   *)
NextNumber(p) ==
    LET highest == {v \in {1} \cup {row[n].version : n \in Family(p)} :
                      \A n \in Family(p) : row[n].version <= v}
    IN  {v + 1 : v \in highest}

(* uploadNewVersion writes the file and asks for the highest number.       *)
Number(c) ==
    /\ At(c, "version", "number")
    /\ \E m \in Fresh, n \in NextNumber(call[c].on) :
         /\ files' = files \cup {m}
         /\ call' = [call EXCEPT ![c].phase = "demote", ![c].new = m, ![c].next = n]
    /\ UNCHANGED <<row, bound, cache, history>>

(* Mutation: only the row that the upload names is demoted.                *)
LatestOf(p) == Latest({p})

(* What updateMany demotes: the latest versions of a family.               *)
Demotable(p) == Latest(Family(p))

Unset(S) == [m \in Models |-> IF m \in S THEN [row[m] EXCEPT !.latest = FALSE] ELSE row[m]]

(* Its transaction sees the rows that it demotes ...                        *)
Demote(c) ==
    /\ At(c, "version", "demote")
    /\ call' = [call EXCEPT ![c].phase = "insert", ![c].hit = Demotable(call[c].on)]
    /\ UNCHANGED <<row, files, bound, cache, history>>

(* Models onto which another upload has taken its number already.          *)
Numbered(c) ==
    {call[d].on : d \in {e \in Calls \ {c} : call[e].op = "version" /\ call[e].phase \in {"demote", "insert"}}}

(* ... and commits them with its own row, which the foreign key refuses    *)
(* when the parent is gone.                                                *)
InsertVersion(c) ==
    LET p == call[c].on IN
    /\ At(c, "version", "insert") /\ p \in Stored
    /\ row' = [Unset(call[c].hit \cap Stored) EXCEPT ![call[c].new] =
                 [state |-> "live", version |-> call[c].next, latest |-> TRUE, parent |-> p]]
    /\ raced' = raced \cup ({p} \cap Numbered(c))
    /\ Settle(c, row[p].parent = None, {})
    /\ Goto(c, "invalidate")
    /\ UNCHANGED <<files, bound, cache, suspect, cut, made>>

-----------------------------------------------------------------------------
RootOf(r, m) == IF r.parent = None THEN m ELSE r.parent

(* rollbackToVersion: demotes the family of the root that it saw, then     *)
(* promotes its target.                                                    *)
DemoteAll(c) ==
    /\ At(c, "rollback", "demote")
    /\ row' = Unset(Demotable(RootOf(call[c].seen, call[c].on)))
    /\ Goto(c, "promote")
    /\ UNCHANGED <<files, bound, cache, history>>

Promote(c) ==
    LET m == call[c].on  root == RootOf(call[c].seen, m) IN
    /\ At(c, "rollback", "promote") /\ m \in Stored
    /\ row' = [row EXCEPT ![m].latest = TRUE]
    /\ Settle(c, m \in Live /\ row[m].parent = call[c].seen.parent /\ row[root].parent = None, {root})
    /\ Goto(c, "invalidate")
    /\ UNCHANGED <<files, bound, cache, made, raced, suspect, cut>>

(* remove and permanentRemove first free the sensors of the model.         *)
Unbind(c) ==
    /\ call[c].phase = "unbind"
    /\ bound' = bound \ {call[c].on}
    /\ Goto(c, IF call[c].op = "remove" THEN "mark" ELSE "unlink")
    /\ UNCHANGED <<row, files, cache, history>>

(* Mutation: a soft deletion takes the file away.                          *)
MarkUnlinking(c) ==
    LET m == call[c].on IN
    /\ At(c, "remove", "mark") /\ m \in Stored
    /\ row' = [row EXCEPT ![m].state = "deleted", ![m].latest = FALSE]
    /\ files' = files \ {m}
    /\ Goto(c, "invalidate")
    /\ UNCHANGED <<bound, cache, history>>

(* remove: the row is deleted and no longer the latest ...                 *)
Mark(c) ==
    LET m == call[c].on IN
    /\ At(c, "remove", "mark") /\ m \in Stored
    /\ row' = [row EXCEPT ![m].state = "deleted", ![m].latest = FALSE]
    /\ call' = [call EXCEPT ![c].phase = IF row[m].parent = None THEN "invalidate" ELSE "heir",
                            ![c].seen = row[m]]
    /\ IF row[m].parent = None THEN Settle(c, ~row[m].latest, {}) ELSE UNCHANGED tidy
    /\ UNCHANGED <<files, bound, cache, made, raced, suspect, cut>>

(* ... and its parent, when it is not deleted, becomes it.                 *)
Inherit(c) ==
    LET p == call[c].seen.parent IN
    /\ At(c, "remove", "heir")
    /\ row' = IF p \in Live THEN [row EXCEPT ![p].latest = TRUE] ELSE row
    /\ Settle(c, call[c].seen.latest /\ p \in Live /\ row[p].parent = None, {})
    /\ Goto(c, "invalidate")
    /\ UNCHANGED <<files, bound, cache, made, raced, suspect, cut>>

(* restore: the row is live and the latest; its live siblings are not.     *)
Unmark(c) ==
    LET m == call[c].on IN
    /\ At(c, "restore", "unmark") /\ m \in Stored
    /\ row' = [row EXCEPT ![m].state = "live", ![m].latest = TRUE]
    /\ Goto(c, IF call[c].seen.parent = None THEN "invalidate" ELSE "siblings")
    /\ IF call[c].seen.parent = None THEN Settle(c, FALSE, {}) ELSE UNCHANGED tidy
    /\ UNCHANGED <<files, bound, cache, made, raced, suspect, cut>>

DemoteSiblings(c) ==
    LET m == call[c].on  p == call[c].seen.parent IN
    /\ At(c, "restore", "siblings")
    /\ row' = Unset({n \in Live \ {m} : row[n].parent = p})
    /\ Settle(c, ~row[p].latest, {})
    /\ Goto(c, "invalidate")
    /\ UNCHANGED <<files, bound, cache, made, raced, suspect, cut>>

(* permanentRemove looks the row up itself; bind only asks for the part.   *)
Load(c) ==
    /\ call[c].phase = "load"
    /\ IF call[c].on \notin Stored THEN call' = [call EXCEPT ![c] = IdleCall]
       ELSE Goto(c, IF call[c].op = "bind" THEN "bind" ELSE "unbind")
    /\ UNCHANGED <<row, files, bound, cache, history>>

(* bindToModelPart: the foreign key wants the part to be there.            *)
Bind(c) ==
    /\ At(c, "bind", "bind") /\ call[c].on \in Stored
    /\ bound' = bound \cup {call[c].on}
    /\ call' = [call EXCEPT ![c] = IdleCall]
    /\ UNCHANGED <<row, files, cache, history>>

(* permanentRemove: unlinks the file, if it can, and clears the cache ...   *)
Unlink(c) ==
    /\ At(c, "permanent", "unlink")
    /\ files' \in {files, files \ {call[c].on}}
    /\ cache' = Cleared
    /\ suspect' = {}
    /\ call' = Late([call EXCEPT ![c].phase = "delete"])
    /\ UNCHANGED <<row, bound, tidy, raced, cut, made>>

(* What is cached or read already is about to be out of date.              *)
Doubt ==
    suspect' = suspect \cup {k \in Keys : cache[k] # None}

(* ... before it deletes the row; the foreign keys free the versions that  *)
(* point at it.                                                            *)
Delete(c) ==
    LET m == call[c].on IN
    /\ At(c, "permanent", "delete") /\ m \in Stored
    /\ row' = [n \in Models |->
         IF n = m THEN [NoRow EXCEPT !.state = "gone"]
         ELSE IF row[n].parent = m THEN [row[n] EXCEPT !.parent = None] ELSE row[n]]
    /\ bound' = bound \ {m}
    /\ Settle(c, ~row[m].latest /\ row[m].parent # None, {})
    /\ Doubt
    /\ call' = Late([call EXCEPT ![c] = IdleCall])
    /\ UNCHANGED <<files, cache, made, raced, cut>>

-----------------------------------------------------------------------------
(* A statement fails, or finds no row to change: the request ends there.   *)
HalfDone(c) == call[c].phase \in {"promote", "heir", "siblings"}

Fail(c) ==
    /\ call[c].phase \notin {"idle", "keep", "unlink", "invalidate"}
    /\ IF HalfDone(c)
       THEN Settle(c, FALSE, {}) /\ Doubt /\ call' = Late([call EXCEPT ![c] = IdleCall])
       ELSE UNCHANGED <<tidy, suspect>> /\ call' = [call EXCEPT ![c] = IdleCall]
    /\ cut' = IF At(c, "permanent", "delete") THEN cut \cup {call[c].on} ELSE cut
    /\ UNCHANGED <<row, files, bound, cache, made, raced>>

(* The process restarts: its requests and its cache are gone.              *)
Restart ==
    /\ \E c \in Calls : Busy(c)
    /\ cache' = Cleared
    /\ call' = [c \in Calls |-> IdleCall]
    /\ tidy' = tidy \ UNION {Kin(call[c].on) : c \in {d \in Calls : HalfDone(d)}}
    /\ cut' = cut \cup {call[c].on : c \in {d \in Calls : At(d, "permanent", "delete")}}
    /\ suspect' = {}
    /\ UNCHANGED <<row, files, bound, made, raced>>

(* CACHE_TTL after it was put there, an entry no longer counts.            *)
Expire(k) ==
    /\ cache[k] # None
    /\ cache' = [cache EXCEPT ![k] = None]
    /\ suspect' = suspect \ {k}
    /\ UNCHANGED <<row, files, bound, call, tidy, raced, cut, made>>

Step(c) ==
    \/ FindCached(c) \/ FindStored(c) \/ Keep(c) \/ Load(c) \/ Bind(c)
    \/ InsertFirst(c) \/ Number(c) \/ Demote(c) \/ InsertVersion(c)
    \/ DemoteAll(c) \/ Promote(c)
    \/ Unbind(c) \/ Mark(c) \/ Inherit(c) \/ Unmark(c) \/ DemoteSiblings(c)
    \/ Unlink(c) \/ Delete(c) \/ Invalidate(c) \/ Fail(c)

Next ==
    \/ \E c \in Calls, op \in Ops, k \in Keys : Begin(c, op, k)
    \/ \E c \in Calls : Step(c)
    \/ Restart
    \/ \E k \in Keys : Expire(k)

Spec == Init /\ [][Next]_vars

-----------------------------------------------------------------------------
(* Uploads onto a root, rollbacks, and removals of the newest version, one *)
(* at a time and not cut off, leave exactly one latest version in the      *)
(* family, and a live one.                                                 *)
OneLatest ==
    Writing = {} => \A m \in tidy : \E n \in Live : Latest(Family(m)) = {n}

(* Two versions of a family have the same number only if one upload onto   *)
(* its model was committed when another had taken its number.              *)
VersionsDistinct ==
    \A m \in Stored \ raced : \A n, o \in Family(m) : row[n].version = row[o].version => n = o

(* Between the changes, the cache says what the database says, unless its  *)
(* entry was read before a change that has been made since: invalidateCache*)
(* reaches every key that a change touches, and comes after it.            *)
CacheFresh ==
    Writing = {} => \A k \in Keys \ suspect : cache[k] \in {None, View(k)}

(* A stored model has its file, but for the ones being removed for good.   *)
RowHasFile ==
    \A m \in Stored \ cut : m \in files \/ \E c \in Calls : call[c].on = m /\ At(c, "permanent", "delete")

(* getVersionHistory: walks up to the root and lists what points at it.    *)
History(m) ==
    LET up[i \in 0 .. Cardinality(Models)] ==
          IF i = 0 THEN m
          ELSE IF up[i - 1] \in Live /\ row[up[i - 1]].parent # None THEN row[up[i - 1]].parent
          ELSE up[i - 1]
    IN  Family(up[Cardinality(Models)]) \cap Live

(* documentation.md:925: "getVersionHistory(modelId) returns all versions  *)
(* in the lineage ordered by version descending".  Violated.               *)
HistoryHasLineage ==
    \A m \in Live : \A n \in Ancestors(m) \cap Live : {m, n} \subseteq History(m)
=============================================================================
