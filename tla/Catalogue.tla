----------------------------- MODULE Catalogue -----------------------------
(***************************************************************************)
(* What a tenant owns: digital twins, their asset trees, the parts of      *)
(* their models, the sensors tied to assets and parts, and the public      *)
(* links to a twin (TwinsService, AssetsService, the binding operations of *)
(* SensorsService, ExportService and the relations of the schema).         *)
(*                                                                         *)
(* update and remove look a row up and then write it; the look-up only     *)
(* chooses which error a missing row gives, so both are one step.  Binding *)
(* and opening a link use what they have read: they are taken apart.       *)
(***************************************************************************)
EXTENDS Naturals, FiniteSets

CONSTANTS
    Twins, Assets, Parts, Sensors, Links,
    None, Unused, Gone,
    Lifetime      \* ticks a link is good for

AssetRow == [twin : Twins, parent : Assets \cup {None}]
SensorRow == [asset : Assets \cup {None}, part : Parts \cup {None}, scoped : BOOLEAN]
BindRow == [at : {"idle", "part", "asset", "write"}, sensor : Sensors \cup {None},
            part : Parts \cup {None}, asset : Assets \cup {None}, twin : Twins \cup {None}]
VisitRow == [at : {"idle", "read"}, link : Links \cup {None}, twin : Twins \cup {None}]
LinkRow == [twin : Twins, left : 0 .. Lifetime]

ASSUME CatalogueAssumption ==
    /\ None \notin Assets \cup Parts /\ Lifetime \in Nat \ {0}
    /\ Unused # Gone /\ {Unused, Gone, "live"} \cap Twins = {} /\ "live" \notin {Unused, Gone}
    /\ {Unused, Gone} \cap (AssetRow \cup SensorRow \cup LinkRow) = {}

VARIABLES
    twins,      \* the rows of digital_twins
    asset,      \* [Assets -> the row, Unused or Gone]
    part,       \* [Parts -> the twin of its model, Unused or Gone]
    sensor,     \* [Sensors -> the row, Unused or Gone]
    bind,       \* the bindToModelPart in progress
    link,       \* [Links -> the entry of shareTokens, Unused or Gone]
    visit,      \* the getSharedTwin in progress
    knotted,    \* an asset was put under a stranger or under itself
    ended       \* links that ran out or were revoked
vars == <<twins, asset, part, sensor, bind, link, visit, knotted, ended>>
rows == <<twins, asset, part, sensor, knotted>>
links == <<link, visit, ended>>

Live(table) == {x \in DOMAIN table : table[x] \notin {Unused, Gone}}

NoBind == [at |-> "idle", sensor |-> None, part |-> None, asset |-> None, twin |-> None]
NoVisit == [at |-> "idle", link |-> None, twin |-> None]

Init ==
    /\ twins = [t \in Twins |-> Unused]
    /\ asset = [a \in Assets |-> Unused]
    /\ part = [p \in Parts |-> Unused]
    /\ sensor = [s \in Sensors |-> Unused]
    /\ bind = NoBind /\ visit = NoVisit
    /\ link = [l \in Links |-> Unused]
    /\ knotted = FALSE /\ ended = {}

-----------------------------------------------------------------------------
(* The relations of the schema.  Removing a row removes the rows that      *)
(* cannot be without it and empties the references that can.               *)
OrNone(x, alive) == IF x \in alive THEN x ELSE None

AssetsCut(left) ==   \* mutant: children keep the parent they had
    [a \in Assets |-> IF a \in left \/ a \notin Live(asset) THEN asset[a] ELSE Gone]
AssetsKept(left) ==
    [a \in Assets |-> IF a \in left
                      THEN [asset[a] EXCEPT !.parent = OrNone(@, left)]
                      ELSE IF a \in Live(asset) THEN Gone ELSE asset[a]]
SensorsBound(leftAssets, leftParts) ==   \* mutant: a sensor keeps the part
    [s \in Sensors |-> IF s \in Live(sensor)
                       THEN [sensor[s] EXCEPT !.asset = OrNone(@, leftAssets)] ELSE sensor[s]]
SensorsKept(leftAssets, leftParts) ==
    [s \in Sensors |-> IF s \in Live(sensor)
                       THEN [sensor[s] EXCEPT !.asset = OrNone(@, leftAssets),
                                              !.part = OrNone(@, leftParts)]
                       ELSE sensor[s]]

PartsKept(left) == [p \in Parts |-> IF p \in Live(part) \ left THEN Gone ELSE part[p]]

-----------------------------------------------------------------------------
(* Twins and models.  Uploading a model makes its parts.                   *)
CreateTwin(t) ==
    /\ twins[t] = Unused
    /\ twins' = [twins EXCEPT ![t] = "live"]
    /\ UNCHANGED <<asset, part, sensor, bind, links, knotted>>

RemoveTwin(t) ==
    LET as == {a \in Live(asset) : asset[a].twin # t}
        ps == {p \in Live(part) : part[p] # t} IN
    /\ t \in Live(twins)
    /\ twins' = [twins EXCEPT ![t] = Gone]
    /\ asset' = AssetsKept(as)
    /\ part' = PartsKept(ps)
    /\ sensor' = SensorsKept(as, ps)
    /\ UNCHANGED <<bind, links, knotted>>

Upload(t, p) ==
    /\ t \in Live(twins) /\ part[p] = Unused
    /\ part' = [part EXCEPT ![p] = t]
    /\ UNCHANGED <<twins, asset, sensor, bind, links, knotted>>

RemoveModel(p) ==
    /\ p \in Live(part)
    /\ part' = [part EXCEPT ![p] = Gone]
    /\ sensor' = SensorsKept(Live(asset), Live(part) \ {p})
    /\ UNCHANGED <<twins, asset, bind, links, knotted>>

-----------------------------------------------------------------------------
(* Assets.  A parent has to exist; nothing asks whose it is.               *)
Above(p) == {a \in Live(asset) : \A S \in SUBSET Live(asset) :
                 p \in S /\ (\A x \in S : asset[x].parent \in S \cup {None}) => a \in S}
Knots(a, t, p) == p # None /\ (asset[p].twin # t \/ a \in Above(p))

CreateAsset(a, t, p) ==
    /\ asset[a] = Unused /\ t \in Live(twins) /\ p \in Live(asset) \cup {None}
    /\ asset' = [asset EXCEPT ![a] = [twin |-> t, parent |-> p]]
    /\ knotted' = (knotted \/ Knots(a, t, p))
    /\ UNCHANGED <<twins, part, sensor, bind, links>>

UpdateAsset(a, p) ==
    /\ a \in Live(asset) /\ p \in Live(asset)
    /\ asset' = [asset EXCEPT ![a].parent = p]
    /\ knotted' = (knotted \/ Knots(a, asset[a].twin, p))
    /\ UNCHANGED <<twins, part, sensor, bind, links>>

RemoveAsset(a) ==
    /\ a \in Live(asset)
    /\ asset' = AssetsKept(Live(asset) \ {a})
    /\ sensor' = SensorsKept(Live(asset) \ {a}, Live(part))
    /\ UNCHANGED <<twins, part, bind, links, knotted>>

(* findRoots: the assets without a parent, with three levels of children.  *)
WithChildren(S) == S \cup {a \in Live(asset) : asset[a].parent \in S}
FindRoots(t) ==
    LET roots == {a \in Live(asset) : asset[a].twin = t /\ asset[a].parent = None} IN
    WithChildren(WithChildren(WithChildren(roots)))
Under(S) == {a \in Live(asset) : \A T \in SUBSET Live(asset) :
                 S \subseteq T /\ WithChildren(T) = T => a \in T}

-----------------------------------------------------------------------------
(* Sensors.                                                                *)
SameTwin(a, p) == a = None \/ p = None \/ asset[a].twin = part[p]

CreateSensor(s, a, p) ==
    /\ sensor[s] = Unused
    /\ a \in Live(asset) \cup {None} /\ p \in Live(part) \cup {None}
    /\ sensor' = [sensor EXCEPT ![s] = [asset |-> a, part |-> p, scoped |-> SameTwin(a, p)]]
    /\ UNCHANGED <<twins, asset, part, bind, links, knotted>>

RemoveSensor(s) ==
    /\ s \in Live(sensor)
    /\ sensor' = [sensor EXCEPT ![s] = Gone]
    /\ UNCHANGED <<twins, asset, part, bind, links, knotted>>

Unbind(s) ==
    /\ s \in Live(sensor)
    /\ sensor' = [sensor EXCEPT ![s].part = None]
    /\ UNCHANGED <<twins, asset, part, bind, links, knotted>>

(* bindToModelPart: the sensor, then the part, then the sensor's asset are *)
(* read, then the sensor is written.                                       *)
BeginBind(s, p) ==
    /\ bind = NoBind /\ s \in Live(sensor)
    /\ bind' = [NoBind EXCEPT !.at = "part", !.sensor = s, !.part = p, !.asset = sensor[s].asset]
    /\ UNCHANGED <<rows, links>>

ReadPart ==
    /\ bind.at = "part"
    /\ bind' = IF bind.part \in Live(part)
               THEN [bind EXCEPT !.at = IF bind.asset = None THEN "write" ELSE "asset",
                                 !.twin = part[bind.part]]
               ELSE NoBind
    /\ UNCHANGED <<rows, links>>

MismatchNone == FALSE   \* mutant: the asset's twin is not compared
Mismatch == bind.asset \in Live(asset) /\ asset[bind.asset].twin # bind.twin

ReadAsset ==
    /\ bind.at = "asset"
    /\ bind' = IF Mismatch THEN NoBind ELSE [bind EXCEPT !.at = "write"]
    /\ UNCHANGED <<rows, links>>

WriteBinding ==
    /\ bind.at = "write"
    /\ sensor' = IF bind.sensor \in Live(sensor) /\ bind.part \in Live(part)
                 THEN [sensor EXCEPT ![bind.sensor] = [@ EXCEPT !.part = bind.part]]
                 ELSE sensor
    /\ bind' = NoBind
    /\ UNCHANGED <<twins, asset, part, links, knotted>>

-----------------------------------------------------------------------------
(* Public links.                                                           *)
CreateShareToken(l, t) ==
    /\ link[l] = Unused
    /\ link' = [link EXCEPT ![l] = [twin |-> t, left |-> Lifetime]]
    /\ UNCHANGED <<rows, bind, visit, ended>>

Tick ==
    /\ \E l \in Live(link) : link[l].left > 0
    /\ link' = [l \in Links |-> IF l \in Live(link) /\ link[l].left > 0
                                THEN [link[l] EXCEPT !.left = @ - 1] ELSE link[l]]
    /\ ended' = ended \cup {l \in Live(link) : link[l].left = 1}
    /\ UNCHANGED <<rows, bind, visit>>

ExpiredNever(l) == FALSE   \* mutant: the expiry is stored and never read
Expired(l) == l \in Live(link) /\ link[l].left = 0

(* getSharedTwin drops an entry whose time is over; a good one is followed *)
(* by the query for the twin.                                              *)
OpenLink(l) ==
    /\ visit = NoVisit /\ link[l] # Unused
    /\ IF l \in Live(link) /\ ~Expired(l)
       THEN visit' = [at |-> "read", link |-> l, twin |-> link[l].twin] /\ UNCHANGED link
       ELSE /\ link' = [link EXCEPT ![l] = Gone]
            /\ UNCHANGED visit
    /\ UNCHANGED <<rows, bind, ended>>

ExportTwin ==
    /\ visit.at = "read"
    /\ visit' = NoVisit
    /\ UNCHANGED <<rows, bind, link, ended>>

Revoke(l) ==
    /\ l \in Live(link)
    /\ link' = [link EXCEPT ![l] = Gone]
    /\ ended' = ended \cup {l}
    /\ UNCHANGED <<rows, bind, visit>>

Restart ==
    /\ link' = [l \in Links |-> IF l \in Live(link) THEN Gone ELSE link[l]]
    /\ ended' = ended \cup Live(link)
    /\ visit' = NoVisit /\ bind' = NoBind
    /\ UNCHANGED rows

Next ==
    \/ \E t \in Twins :
         \/ CreateTwin(t) \/ RemoveTwin(t)
         \/ \E p \in Parts : Upload(t, p)
         \/ \E a \in Assets, p \in Assets \cup {None} : CreateAsset(a, t, p)
         \/ \E l \in Links : CreateShareToken(l, t)
    \/ \E p \in Parts : RemoveModel(p)
    \/ \E a \in Assets : RemoveAsset(a) \/ \E p \in Assets : UpdateAsset(a, p)
    \/ \E s \in Sensors :
         \/ RemoveSensor(s) \/ Unbind(s)
         \/ \E p \in Parts : BeginBind(s, p)
         \/ \E a \in Assets \cup {None}, p \in Parts \cup {None} : CreateSensor(s, a, p)
    \/ ReadPart \/ ReadAsset \/ WriteBinding
    \/ \E l \in Links : OpenLink(l) \/ Revoke(l)
    \/ ExportTwin \/ Tick \/ Restart

Spec == Init /\ [][Next]_vars

-----------------------------------------------------------------------------
RowsOK ==
    /\ twins \in [Twins -> {Unused, Gone, "live"}]
    /\ asset \in [Assets -> AssetRow \cup {Unused, Gone}]
    /\ part \in [Parts -> Twins \cup {Unused, Gone}]
    /\ sensor \in [Sensors -> SensorRow \cup {Unused, Gone}]

(* Every variable has its values, and no row refers to one that is gone.   *)
TypeOK ==
    /\ RowsOK /\ bind \in BindRow /\ visit \in VisitRow
    /\ link \in [Links -> LinkRow \cup {Unused, Gone}]
    /\ knotted \in BOOLEAN /\ ended \subseteq Links
    /\ \A a \in Live(asset) : /\ asset[a].twin \in Live(twins)
                              /\ asset[a].parent \in Live(asset) \cup {None}
    /\ \A p \in Live(part) : part[p] \in Live(twins)
    /\ \A s \in Live(sensor) : /\ sensor[s].asset \in Live(asset) \cup {None}
                               /\ sensor[s].part \in Live(part) \cup {None}

(* A sensor that was made within one twin stays there: whatever is bound,  *)
(* removed or moved while a binding is under way, its asset and its model  *)
(* part belong to the same twin (sensors.service.ts 148-176).              *)
TwinScoped ==
    \A s \in Live(sensor) : sensor[s].scoped => SameTwin(sensor[s].asset, sensor[s].part)

(* Every asset of a twin is in what findRoots answers or hangs, at any     *)
(* depth, under an asset that is, also after parents were removed or       *)
(* assets moved, as long as nobody put an asset under one of another twin  *)
(* or under its own descendant (assets.service.ts 41-58).                  *)
TreeComplete ==
    ~knotted => \A a \in Live(asset) : a \in Under(FindRoots(asset[a].twin))

(* A link that ran out, was revoked or was lost in a restart opens no twin *)
(* again (export.service.ts 100-112).                                      *)
LinksEnd == [][visit # visit' /\ visit'.at = "read" => visit'.link \notin ended]_vars
=============================================================================
