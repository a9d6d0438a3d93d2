-------------------------- MODULE CatalogueProofs --------------------------
(***************************************************************************)
(* Proofs about Catalogue, for any sets of twins, assets, parts, sensors   *)
(* and links.                                                              *)
(*                                                                         *)
(* TwinScoped is not inductive: a binding is written long after the part   *)
(* and the asset were compared.  BindOK says what the binding in progress  *)
(* may still rely on, and holds because rows only age (Aged): an id is not *)
(* used twice, an asset and a part never change their twin, and a sensor's *)
(* asset can only be lost.                                                 *)
(*                                                                         *)
(* TreeComplete says that a closure contains every asset.  TreeOK says it  *)
(* without one: no set of assets has the parent of each within itself.     *)
(***************************************************************************)
EXTENDS Catalogue, TLAPS

RefsOK ==
    /\ \A a \in Live(asset) : /\ asset[a].twin \in Live(twins)
                              /\ asset[a].parent \in Live(asset) \cup {None}
    /\ \A p \in Live(part) : part[p] \in Live(twins)
    /\ \A s \in Live(sensor) : /\ sensor[s].asset \in Live(asset) \cup {None}
                               /\ sensor[s].part \in Live(part) \cup {None}

BindOK ==
    /\ bind \in BindRow
    /\ bind.at # "idle" =>
         /\ bind.sensor \in Sensors /\ bind.part \in Parts
         /\ sensor[bind.sensor] # Unused
         /\ bind.sensor \in Live(sensor) => sensor[bind.sensor].asset \in {bind.asset, None}
         /\ bind.asset # None => asset[bind.asset] # Unused
         /\ bind.at # "part" => part[bind.part] \in {bind.twin, Gone}
         /\ bind.at # "part" => bind.twin \in Twins
         /\ bind.at = "write" /\ bind.asset # None =>
              asset[bind.asset] = Gone \/ asset[bind.asset].twin = bind.twin

CatInv == RowsOK /\ RefsOK /\ TwinScoped /\ BindOK

Aged ==
    /\ \A s \in Sensors : sensor[s] # Unused =>
         /\ sensor'[s] # Unused
         /\ sensor'[s] # Gone => /\ sensor[s] # Gone
                                 /\ sensor'[s].asset \in {sensor[s].asset, None}
    /\ \A a \in Assets : asset[a] # Unused =>
         asset'[a] = Gone \/ (asset[a] # Gone /\ asset'[a] # Unused /\ asset'[a].twin = asset[a].twin)
    /\ \A p \in Parts : part[p] # Unused => part'[p] \in {part[p], Gone}

\* The sensors whose binding a step leaves alone or empties.
Untied(s) == sensor[s] \notin {Unused, Gone} /\ sensor'[s].scoped = sensor[s].scoped
             /\ sensor'[s].part \in {sensor[s].part, None}

-----------------------------------------------------------------------------
LEMMA LiveRows ==
    ASSUME RowsOK
    PROVE  /\ \A a : a \in Live(asset) <=> a \in Assets /\ asset[a] \in AssetRow
           /\ \A p : p \in Live(part) <=> p \in Parts /\ part[p] \in Twins
           /\ \A s : s \in Live(sensor) <=> s \in Sensors /\ sensor[s] \in SensorRow
           /\ \A t : t \in Live(twins) <=> t \in Twins /\ twins[t] = "live"
  BY CatalogueAssumption DEF RowsOK, Live

LEMMA Rows ==
    /\ \A r \in AssetRow : r.twin \in Twins /\ r.parent \in Assets \cup {None}
    /\ \A r \in SensorRow : /\ r.asset \in Assets \cup {None} /\ r.part \in Parts \cup {None}
                            /\ r.scoped \in BOOLEAN
    /\ \A t \in Twins, p \in Assets \cup {None} : [twin |-> t, parent |-> p] \in AssetRow
  BY DEF AssetRow, SensorRow

LEMMA NotRows ==
    /\ Unused # Gone
    /\ Unused \notin AssetRow /\ Unused \notin SensorRow /\ Unused \notin Twins
    /\ Gone \notin AssetRow /\ Gone \notin SensorRow /\ Gone \notin Twins
  BY CatalogueAssumption

(* A binding in progress survives what happens beside it.                  *)
LEMMA BindKeeps ==
    ASSUME RowsOK, RowsOK', BindOK, Aged, UNCHANGED bind
    PROVE  BindOK'
<1>0. bind' = bind /\ bind' \in BindRow /\ bind.asset \in Assets \cup {None}
  BY DEF BindOK, BindRow
<1>a. CASE bind.at = "idle"
  BY <1>0, <1>a DEF BindOK
<1> SUFFICES ASSUME bind.at # "idle" PROVE BindOK'
  BY <1>a
<1>1. /\ bind.sensor \in Live(sensor)' => bind.sensor \in Live(sensor)
                                       /\ sensor'[bind.sensor].asset \in {sensor[bind.sensor].asset, None}
  BY NotRows DEF BindOK, Aged, RowsOK, Live
<1>2. sensor'[bind.sensor] # Unused
  BY DEF BindOK, Aged
<1>3. bind.asset # None => asset'[bind.asset] # Unused
  BY <1>0, NotRows DEF BindOK, Aged
<1>4. bind.at # "part" => part'[bind.part] \in {bind.twin, Gone}
  BY NotRows DEF BindOK, Aged
<1>5. bind.at = "write" /\ bind.asset # None =>
        asset'[bind.asset] = Gone \/ asset'[bind.asset].twin = bind.twin
  BY <1>0, NotRows DEF BindOK, Aged
<1>6. /\ bind.sensor \in Sensors /\ bind.part \in Parts
      /\ bind.at # "part" => bind.twin \in Twins
      /\ bind.sensor \in Live(sensor)' => sensor'[bind.sensor].asset \in {bind.asset, None}
  BY <1>1 DEF BindOK
<1> QED BY <1>0, <1>2, <1>3, <1>4, <1>5, <1>6 DEF BindOK

(* Two ends that were of one twin still are.                               *)
LEMMA SameKeeps ==
    ASSUME RowsOK, RowsOK', RefsOK', Aged, NEW s \in Live(sensor)', Untied(s),
           s \in Live(sensor), SameTwin(sensor[s].asset, sensor[s].part),
           RefsOK
    PROVE  SameTwin(sensor[s].asset, sensor[s].part)' 
<1>1. s \in Sensors /\ sensor'[s].asset \in {sensor[s].asset, None}
  BY LiveRows, NotRows DEF Aged, Live
<1> DEFINE a == sensor'[s].asset
           p == sensor'[s].part
<1>2. CASE a = None \/ p = None
  BY <1>2 DEF SameTwin
<1>3. CASE a # None /\ p # None
  <2>1. a = sensor[s].asset /\ p = sensor[s].part /\ a \in Live(asset) /\ p \in Live(part)
    BY <1>1, <1>3 DEF Untied, RefsOK
  <2>2. a \in Live(asset)' /\ p \in Live(part)'
    BY <1>3 DEF RefsOK
  <2>3. asset'[a].twin = asset[a].twin
    BY <2>1, <2>2, LiveRows, NotRows DEF Aged, Live
  <2>4. part'[p] = part[p]
    BY <2>1, <2>2, LiveRows, NotRows DEF Aged, Live
  <2>5. asset[a].twin = part[p]
    BY <1>3, <2>1 DEF SameTwin
  <2> QED BY <2>3, <2>4, <2>5 DEF SameTwin
<1> QED BY <1>2, <1>3

(* What a step that ties no sensor has to show.                            *)
LEMMA Untying ==
    ASSUME CatInv, RowsOK', RefsOK', Aged, UNCHANGED bind,
           \A s \in Live(sensor)' : Untied(s)
    PROVE  CatInv'
<1>1. BindOK'
  BY BindKeeps DEF CatInv
<1>2. ASSUME NEW s \in Live(sensor)', sensor'[s].scoped
      PROVE  SameTwin(sensor[s].asset, sensor[s].part)'
  <2>1. Untied(s) /\ sensor[s].scoped
    BY <1>2 DEF Untied
  <2>2. s \in Live(sensor)
    <3>1. s \in Sensors
      BY LiveRows DEF Live, RowsOK
    <3> QED BY <2>1, <3>1 DEF Untied, Live, CatInv, RowsOK
  <2>3. SameTwin(sensor[s].asset, sensor[s].part)
    BY <2>1, <2>2 DEF CatInv, TwinScoped
  <2> QED BY <2>1, <2>2, <2>3, SameKeeps DEF CatInv
<1>3. TwinScoped'
  BY <1>2 DEF TwinScoped
<1> QED BY <1>1, <1>3 DEF CatInv

-----------------------------------------------------------------------------
(* The cascades of the schema.                                             *)
LEMMA AssetsLeft ==
    ASSUME RowsOK, NEW left, left \subseteq Live(asset), asset' = AssetsKept(left)
    PROVE  /\ asset' \in [Assets -> AssetRow \cup {Unused, Gone}]
           /\ \A a \in Assets : asset'[a] \notin {Unused, Gone} <=> a \in left
           /\ \A a \in left : /\ asset'[a].twin = asset[a].twin
                              /\ asset'[a].parent \in left \cup {None}
                              /\ asset'[a].parent \in {asset[a].parent, None}
           /\ \A a \in Assets : asset[a] # Unused =>
                asset'[a] = Gone \/ (asset[a] # Gone /\ asset'[a] # Unused /\ asset'[a].twin = asset[a].twin)
<1>1. ASSUME NEW a \in Assets
      PROVE  asset'[a] = IF a \in left THEN [asset[a] EXCEPT !.parent = OrNone(@, left)]
                         ELSE IF a \in Live(asset) THEN Gone ELSE asset[a]
  BY DEF AssetsKept
<1>2. ASSUME NEW a \in left
      PROVE  /\ asset[a] \in AssetRow /\ asset'[a] \in AssetRow /\ asset'[a].twin = asset[a].twin
             /\ a \in Assets
             /\ asset'[a].parent \in left \cup {None}
             /\ asset'[a].parent \in {asset[a].parent, None}
  <2>1. a \in Assets /\ asset[a] \in AssetRow
    BY LiveRows
  <2>2. OrNone(asset[a].parent, left) \in Assets \cup {None}
    BY LiveRows DEF OrNone
  <2>3. asset'[a] = [asset[a] EXCEPT !.parent = OrNone(@, left)]
    BY <1>1, <2>1
  <2>4. asset'[a].twin = asset[a].twin /\ asset'[a].parent = OrNone(asset[a].parent, left)
    BY <2>1, <2>3 DEF AssetRow
  <2> QED BY <2>1, <2>2, <2>3, <2>4 DEF AssetRow, OrNone
<1>3. ASSUME NEW a \in Assets \ left
      PROVE  /\ asset'[a] \in {Unused, Gone}
             /\ asset[a] # Unused => asset'[a] = Gone
  BY <1>1, LiveRows, NotRows DEF RowsOK
<1>4. asset' \in [Assets -> AssetRow \cup {Unused, Gone}]
  <2>1. asset' = [a \in Assets |-> asset'[a]]
    BY DEF AssetsKept
  <2> QED BY <1>2, <1>3, <2>1
<1> QED BY <1>2, <1>3, <1>4, NotRows

LEMMA SensorsLeft ==
    ASSUME RowsOK, NEW as, as \subseteq Live(asset), NEW ps, ps \subseteq Live(part),
           sensor' = SensorsKept(as, ps)
    PROVE  /\ sensor' \in [Sensors -> SensorRow \cup {Unused, Gone}]
           /\ \A s \in Sensors : sensor'[s] \notin {Unused, Gone} => 
                /\ Untied(s) /\ sensor'[s].asset \in (as \cup {None}) \cap {sensor[s].asset, None}
                /\ sensor'[s].part \in ps \cup {None}
           /\ \A s \in Sensors : sensor[s] # Unused => sensor'[s] # Unused
<1>1. ASSUME NEW s \in Sensors
      PROVE  sensor'[s] = IF s \in Live(sensor)
                          THEN [sensor[s] EXCEPT !.asset = OrNone(@, as), !.part = OrNone(@, ps)]
                          ELSE sensor[s]
  BY DEF SensorsKept
<1>2. ASSUME NEW s \in Live(sensor)
      PROVE  /\ s \in Sensors /\ sensor'[s] \in SensorRow /\ Untied(s)
             /\ sensor'[s].asset \in (as \cup {None}) \cap {sensor[s].asset, None}
             /\ sensor'[s].part \in ps \cup {None}
  <2>1. s \in Sensors /\ sensor[s] \in SensorRow
    BY LiveRows
  <2>2. /\ OrNone(sensor[s].asset, as) \in (as \cup {None}) \cap {sensor[s].asset, None}
        /\ OrNone(sensor[s].part, ps) \in (ps \cup {None}) \cap {sensor[s].part, None}
    BY DEF OrNone
  <2>3. as \subseteq Assets /\ ps \subseteq Parts
    BY LiveRows
  <2>4. sensor'[s] = [sensor[s] EXCEPT !.asset = OrNone(@, as), !.part = OrNone(@, ps)]
    BY <1>1, <2>1
  <2>5. sensor'[s] \in SensorRow
    BY <2>1, <2>2, <2>3, <2>4 DEF SensorRow
  <2> QED BY <2>1, <2>2, <2>4, <2>5, NotRows DEF Untied, SensorRow
<1>3. ASSUME NEW s \in Sensors, s \notin Live(sensor)
      PROVE  sensor'[s] = sensor[s] /\ sensor[s] \in {Unused, Gone}
  BY <1>1, <1>3, LiveRows DEF RowsOK
<1>4. sensor' \in [Sensors -> SensorRow \cup {Unused, Gone}]
  <2>1. sensor' = [s \in Sensors |-> sensor'[s]]
    BY DEF SensorsKept
  <2> QED BY <1>2, <1>3, <2>1
<1> QED BY <1>2, <1>3, <1>4, NotRows

-----------------------------------------------------------------------------
(* The steps.                                                              *)
LEMMA CreateTwinStep == ASSUME CatInv, NEW t \in Twins, CreateTwin(t) PROVE CatInv'
<1>1. /\ twins' = [twins EXCEPT ![t] = "live"] /\ UNCHANGED <<asset, part, sensor, bind>>
  BY DEF CreateTwin, links
<1>2. RowsOK'
  BY <1>1 DEF CatInv, RowsOK
<1>3. RefsOK'
  <2>1. Live(asset)' = Live(asset) /\ Live(part)' = Live(part) /\ Live(sensor)' = Live(sensor)
    BY <1>1 DEF Live
  <2>2. Live(twins) \subseteq Live(twins)'
    BY <1>1, CatalogueAssumption DEF CatInv, RowsOK, Live
  <2> QED BY <1>1, <2>1, <2>2 DEF CatInv, RefsOK
<1>4. Aged /\ \A s \in Live(sensor)' : Untied(s)
  BY <1>1, LiveRows, NotRows DEF CatInv, Aged, Untied, RowsOK, Live
<1> QED BY <1>1, <1>2, <1>3, <1>4, Untying

LEMMA RemoveTwinStep == ASSUME CatInv, NEW t \in Twins, RemoveTwin(t) PROVE CatInv'
<1> DEFINE as == {a \in Live(asset) : asset[a].twin # t}
           ps == {p \in Live(part) : part[p] # t}
<1>1. /\ twins' = [twins EXCEPT ![t] = Gone] /\ asset' = AssetsKept(as) /\ part' = PartsKept(ps)
      /\ sensor' = SensorsKept(as, ps) /\ UNCHANGED bind
  BY DEF RemoveTwin
<1>2. RowsOK
  BY DEF CatInv
<1>3. /\ part' \in [Parts -> Twins \cup {Unused, Gone}]
      /\ \A p \in Parts : part'[p] \notin {Unused, Gone} => p \in ps /\ part'[p] = part[p]
      /\ \A p \in ps : part'[p] = part[p] /\ p \in Parts
      /\ \A p \in Parts : part[p] # Unused => part'[p] \in {part[p], Gone}
  BY <1>1, <1>2, LiveRows, NotRows DEF PartsKept, RowsOK
<1>4. RowsOK'
  <2>1. as \subseteq Live(asset) /\ ps \subseteq Live(part)
    OBVIOUS
  <2> HIDE DEF as, ps
  <2>2. asset' \in [Assets -> AssetRow \cup {Unused, Gone}]
    BY <1>1, <1>2, <2>1, AssetsLeft
  <2>3. sensor' \in [Sensors -> SensorRow \cup {Unused, Gone}]
    BY <1>1, <1>2, <2>1, SensorsLeft
  <2>4. twins' \in [Twins -> {Unused, Gone, "live"}]
    BY <1>1, <1>2 DEF RowsOK
  <2> QED BY <1>3, <2>2, <2>3, <2>4 DEF RowsOK
<1>5. \A u \in Live(twins) : u # t => u \in Live(twins)'
  BY <1>1, <1>2 DEF RowsOK, Live
<1>6. as \subseteq Live(asset) /\ ps \subseteq Live(part)
  OBVIOUS
<1>7. Live(asset)' = as /\ Live(part)' = ps
  <2>1. Live(asset)' = as
    <3> HIDE DEF as, ps
    <3>1. as \subseteq Assets
      BY <1>2, <1>6, LiveRows
    <3>2. \A a \in Assets : asset'[a] \notin {Unused, Gone} <=> a \in as
      BY <1>1, <1>2, <1>6, AssetsLeft
    <3>3. DOMAIN asset' = Assets
      BY <1>4 DEF RowsOK
    <3> QED BY <3>1, <3>2, <3>3 DEF Live
  <2>2. Live(part)' = ps
    BY <1>2, <1>3, <1>4, LiveRows, NotRows DEF Live, RowsOK
  <2> QED BY <2>1, <2>2
<1>8. RefsOK'
  <2>1. ASSUME NEW a \in as PROVE asset'[a].twin \in Live(twins)'
    <3>1. asset[a].twin # t
      OBVIOUS
    <3> HIDE DEF as, ps
    <3>2. asset[a].twin \in Live(twins)
      BY <1>6 DEF CatInv, RefsOK
    <3>3. asset'[a].twin = asset[a].twin
      BY <1>1, <1>2, <1>6, AssetsLeft
    <3> QED BY <1>5, <3>1, <3>2, <3>3
  <2>4. \A a \in as : asset'[a].parent \in as \cup {None}
    <3> HIDE DEF as
    <3> QED BY <1>1, <1>2, <1>6, AssetsLeft
  <2>2. \A p \in ps : part'[p] \in Live(twins)'
    BY <1>3, <1>5 DEF CatInv, RefsOK
  <2>3. \A s \in Live(sensor)' : /\ sensor'[s].asset \in as \cup {None}
                                 /\ sensor'[s].part \in ps \cup {None}
    <3> HIDE DEF as, ps
    <3>1. \A s \in Sensors : sensor'[s] \notin {Unused, Gone} =>
            sensor'[s].asset \in as \cup {None} /\ sensor'[s].part \in ps \cup {None}
      BY <1>1, <1>2, <1>6, SensorsLeft
    <3>2. DOMAIN sensor' = Sensors
      BY <1>4 DEF RowsOK
    <3> QED BY <3>1, <3>2 DEF Live
  <2> QED BY <1>7, <2>1, <2>2, <2>3, <2>4 DEF RefsOK
<1>9. Aged
  <2> HIDE DEF as, ps
  <2>1. \A s \in Sensors : sensor[s] # Unused =>
         /\ sensor'[s] # Unused
         /\ sensor'[s] # Gone => sensor[s] # Gone /\ sensor'[s].asset \in {sensor[s].asset, None}
    BY <1>1, <1>2, <1>6, SensorsLeft DEF Untied
  <2> QED BY <1>1, <1>2, <1>3, <1>6, <2>1, AssetsLeft DEF Aged
<1>10. \A s \in Live(sensor)' : Untied(s)
  <2> HIDE DEF as, ps
  <2>1. \A s \in Sensors : sensor'[s] \notin {Unused, Gone} => Untied(s)
    BY <1>1, <1>2, <1>6, SensorsLeft
  <2>2. DOMAIN sensor' = Sensors
    BY <1>4 DEF RowsOK
  <2> QED BY <2>1, <2>2 DEF Live
<1> QED BY <1>1, <1>4, <1>8, <1>9, <1>10, Untying

LEMMA UploadStep == ASSUME CatInv, NEW t \in Twins, NEW p \in Parts, Upload(t, p) PROVE CatInv'
<1>1. /\ t \in Live(twins) /\ part[p] = Unused /\ part' = [part EXCEPT ![p] = t]
      /\ UNCHANGED <<twins, asset, sensor, bind>>
  BY DEF Upload, links
<1>2. RowsOK'
  BY <1>1 DEF CatInv, RowsOK
<1>3. /\ Live(twins)' = Live(twins) /\ Live(asset)' = Live(asset) /\ Live(sensor)' = Live(sensor)
      /\ Live(part)' = Live(part) \cup {p}
  BY <1>1, NotRows DEF CatInv, RowsOK, Live
<1>4. RefsOK'
  <2>1. \A q \in Live(part)' : part'[q] \in Live(twins)'
    BY <1>1, <1>3 DEF CatInv, RefsOK, RowsOK, Live
  <2> QED BY <1>1, <1>3, <2>1 DEF CatInv, RefsOK
<1>5. Aged /\ \A s \in Live(sensor)' : Untied(s)
  BY <1>1, LiveRows, NotRows DEF CatInv, Aged, Untied, RowsOK, Live
<1> QED BY <1>1, <1>2, <1>4, <1>5, Untying

LEMMA RemoveModelStep == ASSUME CatInv, NEW p \in Parts, RemoveModel(p) PROVE CatInv'
<1> DEFINE ps == Live(part) \ {p}
<1>1. /\ p \in Live(part) /\ part' = [part EXCEPT ![p] = Gone]
      /\ sensor' = SensorsKept(Live(asset), ps) /\ UNCHANGED <<twins, asset, bind>>
  BY DEF RemoveModel, links
<1>2. RowsOK /\ ps \subseteq Live(part)
  BY DEF CatInv
<1>3. Live(part)' = ps /\ Live(twins)' = Live(twins) /\ Live(asset)' = Live(asset)
  BY <1>1, NotRows DEF CatInv, RowsOK, Live
<1> HIDE DEF ps
<1>4. RowsOK'
  BY <1>1, <1>2, SensorsLeft DEF RowsOK
<1>5. \A s \in Live(sensor)' : s \in Sensors /\ sensor'[s] \notin {Unused, Gone}
  BY <1>4 DEF Live, RowsOK
<1>6. RefsOK'
  <2>1. \A q \in ps : part'[q] = part[q]
    BY <1>1, <1>2 DEF RowsOK, ps, Live
  <2>2. \A q \in ps : part'[q] \in Live(twins)'
    BY <1>2, <1>3, <2>1 DEF CatInv, RefsOK
  <2>3. \A s \in Live(sensor)' : sensor'[s].asset \in Live(asset) \cup {None} /\ sensor'[s].part \in ps \cup {None}
    BY <1>1, <1>2, <1>5, SensorsLeft
  <2>4. \A a \in Live(asset)' : /\ asset'[a].twin \in Live(twins)'
                                /\ asset'[a].parent \in Live(asset)' \cup {None}
    BY <1>1, <1>3 DEF CatInv, RefsOK
  <2> QED BY <1>3, <2>2, <2>3, <2>4 DEF RefsOK
<1>7. Aged
  <2>1. \A s \in Sensors : sensor[s] # Unused =>
         /\ sensor'[s] # Unused
         /\ sensor'[s] # Gone => sensor[s] # Gone /\ sensor'[s].asset \in {sensor[s].asset, None}
    BY <1>1, <1>2, SensorsLeft DEF Untied
  <2>2. \A q \in Parts : part[q] # Unused => part'[q] \in {part[q], Gone}
    BY <1>1, <1>2 DEF RowsOK
  <2> QED BY <1>1, <2>1, <2>2 DEF Aged
<1>8. \A s \in Live(sensor)' : Untied(s)
  BY <1>1, <1>2, <1>5, SensorsLeft
<1> QED BY <1>1, <1>4, <1>6, <1>7, <1>8, Untying

LEMMA CreateAssetStep ==
    ASSUME CatInv, NEW a \in Assets, NEW t \in Twins, NEW p \in Assets \cup {None}, CreateAsset(a, t, p)
    PROVE  CatInv'
<1>1. /\ asset[a] = Unused /\ t \in Live(twins) /\ p \in Live(asset) \cup {None}
      /\ asset' = [asset EXCEPT ![a] = [twin |-> t, parent |-> p]]
      /\ UNCHANGED <<twins, part, sensor, bind>>
  BY DEF CreateAsset, links
<1>2. [twin |-> t, parent |-> p] \in AssetRow
  BY Rows
<1>3. RowsOK'
  BY <1>1, <1>2 DEF CatInv, RowsOK
<1>4. /\ Live(twins)' = Live(twins) /\ Live(part)' = Live(part) /\ Live(sensor)' = Live(sensor)
      /\ Live(asset)' = Live(asset) \cup {a}
  BY <1>1, <1>2, NotRows DEF CatInv, RowsOK, Live
<1>5. RefsOK'
  <2>1. \A b \in Live(asset) : b # a => asset'[b] = asset[b]
    BY <1>1 DEF CatInv, RowsOK, Live
  <2>2. asset'[a].twin = t /\ asset'[a].parent = p
    BY <1>1 DEF CatInv, RowsOK
  <2> QED BY <1>1, <1>4, <2>1, <2>2 DEF CatInv, RefsOK
<1>6. Aged /\ \A s \in Live(sensor)' : Untied(s)
  BY <1>1, LiveRows, NotRows DEF CatInv, Aged, Untied, RowsOK, Live
<1> QED BY <1>1, <1>3, <1>5, <1>6, Untying

LEMMA UpdateAssetStep ==
    ASSUME CatInv, NEW a \in Assets, NEW p \in Assets, UpdateAsset(a, p)
    PROVE  CatInv'
<1>1. /\ {a, p} \subseteq Live(asset) /\ asset' = [asset EXCEPT ![a].parent = p]
      /\ UNCHANGED <<twins, part, sensor, bind>>
  BY DEF UpdateAsset, links
<1>2. asset[a] \in AssetRow
  BY <1>1, LiveRows DEF CatInv
<1>3. asset'[a] \in AssetRow /\ asset'[a].twin = asset[a].twin /\ asset'[a].parent = p
  BY <1>1, <1>2 DEF CatInv, RowsOK, AssetRow
<1>4. /\ asset' \in [Assets -> AssetRow \cup {Unused, Gone}]
      /\ \A b \in Assets : b # a => asset'[b] = asset[b]
  BY <1>1, <1>3 DEF CatInv, RowsOK
<1>5. RowsOK'
  BY <1>1, <1>4 DEF CatInv, RowsOK
<1>6. /\ Live(twins)' = Live(twins) /\ Live(part)' = Live(part) /\ Live(sensor)' = Live(sensor)
      /\ Live(asset)' = Live(asset)
  BY <1>1, <1>3, <1>4, NotRows DEF CatInv, RowsOK, Live
<1>7. RefsOK'
  <2>1. \A b \in Live(asset) : /\ asset'[b].twin = asset[b].twin
                               /\ asset'[b].parent \in {asset[b].parent, p}
    BY <1>3, <1>4, LiveRows DEF CatInv
  <2> QED BY <1>1, <1>6, <2>1 DEF CatInv, RefsOK
<1>8. Aged /\ \A s \in Live(sensor)' : Untied(s)
  BY <1>1, <1>2, <1>3, <1>4, LiveRows, NotRows DEF CatInv, Aged, Untied, RowsOK, Live
<1> QED BY <1>1, <1>5, <1>7, <1>8, Untying

LEMMA RemoveAssetStep == ASSUME CatInv, NEW a \in Assets, RemoveAsset(a) PROVE CatInv'
<1> DEFINE as == Live(asset) \ {a}
<1>1. /\ asset' = AssetsKept(as) /\ sensor' = SensorsKept(as, Live(part))
      /\ UNCHANGED <<twins, part, bind>>
  BY DEF RemoveAsset, links
<1>2. RowsOK /\ as \subseteq Live(asset)
  BY DEF CatInv
<1> HIDE DEF as
<1>3. RowsOK'
  BY <1>1, <1>2, AssetsLeft, SensorsLeft DEF RowsOK
<1>4. Live(asset)' = as
  <2>1. \A b \in Assets : asset'[b] \notin {Unused, Gone} <=> b \in as
    BY <1>1, <1>2, AssetsLeft
  <2>2. DOMAIN asset' = Assets /\ as \subseteq Assets
    BY <1>2, <1>3, LiveRows DEF RowsOK
  <2> QED BY <2>1, <2>2 DEF Live
<1>5. \A s \in Live(sensor)' : s \in Sensors /\ sensor'[s] \notin {Unused, Gone}
  BY <1>3 DEF Live, RowsOK
<1>6. RefsOK'
  <2>1. \A b \in as : asset'[b].twin \in Live(twins) /\ asset'[b].parent \in as \cup {None}
    <3>1. \A b \in as : asset'[b].twin = asset[b].twin /\ asset'[b].parent \in as \cup {None}
      BY <1>1, <1>2, AssetsLeft
    <3> QED BY <1>2, <3>1 DEF CatInv, RefsOK
  <2>2. \A s \in Live(sensor)' : sensor'[s].asset \in as \cup {None} /\ sensor'[s].part \in Live(part) \cup {None}
    BY <1>1, <1>2, <1>5, SensorsLeft
  <2>3. Live(twins)' = Live(twins) /\ Live(part)' = Live(part)
    BY <1>1 DEF Live
  <2>4. \A p \in Live(part) : part'[p] \in Live(twins)
    BY <1>1 DEF CatInv, RefsOK
  <2> QED BY <1>4, <2>1, <2>2, <2>3, <2>4 DEF RefsOK
<1>7. Aged
  <2>1. \A s \in Sensors : sensor[s] # Unused =>
         /\ sensor'[s] # Unused
         /\ sensor'[s] # Gone => sensor[s] # Gone /\ sensor'[s].asset \in {sensor[s].asset, None}
    BY <1>1, <1>2, SensorsLeft DEF Untied
  <2>2. \A p \in Parts : part[p] # Unused => part'[p] \in {part[p], Gone}
    BY <1>1
  <2> QED BY <1>1, <1>2, <2>1, <2>2, AssetsLeft DEF Aged
<1>8. \A s \in Live(sensor)' : Untied(s)
  BY <1>1, <1>2, <1>5, SensorsLeft
<1> QED BY <1>1, <1>3, <1>6, <1>7, <1>8, Untying

LEMMA CreateSensorStep ==
    ASSUME CatInv, NEW s \in Sensors, NEW a \in Assets \cup {None}, NEW p \in Parts \cup {None},
           CreateSensor(s, a, p)
    PROVE  CatInv'
<1> DEFINE new == [asset |-> a, part |-> p, scoped |-> SameTwin(a, p)]
<1>1. /\ sensor[s] = Unused /\ a \in Live(asset) \cup {None} /\ p \in Live(part) \cup {None}
      /\ sensor' = [sensor EXCEPT ![s] = new] /\ UNCHANGED <<twins, asset, part, bind>>
  BY DEF CreateSensor, links
<1>2. new \in SensorRow
  BY DEF SensorRow, SameTwin
<1>3. RowsOK'
  BY <1>1, <1>2 DEF CatInv, RowsOK
<1>4. /\ Live(twins)' = Live(twins) /\ Live(part)' = Live(part) /\ Live(asset)' = Live(asset)
      /\ Live(sensor)' = Live(sensor) \cup {s} /\ s \notin Live(sensor)
  BY <1>1, <1>2, NotRows DEF CatInv, RowsOK, Live
<1>5. sensor'[s] = new /\ \A r \in Live(sensor) : sensor'[r] = sensor[r]
  BY <1>1, <1>4 DEF CatInv, RowsOK, Live
<1>6. RefsOK'
  <2>1. \A r \in Live(sensor) : /\ sensor'[r].asset \in Live(asset) \cup {None}
                                /\ sensor'[r].part \in Live(part) \cup {None}
    BY <1>5 DEF CatInv, RefsOK
  <2>2. sensor'[s].asset = a /\ sensor'[s].part = p
    BY <1>5
  <2>3. /\ \A b \in Live(asset) : /\ asset'[b].twin \in Live(twins)
                                  /\ asset'[b].parent \in Live(asset) \cup {None}
        /\ \A q \in Live(part) : part'[q] \in Live(twins)
    BY <1>1 DEF CatInv, RefsOK
  <2> QED BY <1>1, <1>4, <2>1, <2>2, <2>3 DEF RefsOK
<1>7. BindOK'
  <2>1. Aged
    BY <1>1, <1>5, LiveRows, NotRows DEF CatInv, Aged, RowsOK, Live
  <2> QED BY <1>1, <1>3, <2>1, BindKeeps DEF CatInv
<1>8. TwinScoped'
  <2>1. ASSUME NEW r \in Live(sensor), sensor'[r].scoped
        PROVE  SameTwin(sensor[r].asset, sensor[r].part)'
    BY <1>1, <1>5, <2>1 DEF CatInv, TwinScoped, SameTwin
  <2>2. new.scoped => SameTwin(new.asset, new.part)'
    BY <1>1 DEF SameTwin
  <2> QED BY <1>4, <1>5, <2>1, <2>2 DEF TwinScoped, SameTwin
<1> QED BY <1>3, <1>6, <1>7, <1>8 DEF CatInv

LEMMA RemoveSensorStep == ASSUME CatInv, NEW s \in Sensors, RemoveSensor(s) PROVE CatInv'
<1>1. /\ s \in Live(sensor) /\ sensor' = [sensor EXCEPT ![s] = Gone]
      /\ UNCHANGED <<twins, asset, part, bind>>
  BY DEF RemoveSensor, links
<1>2. RowsOK'
  BY <1>1 DEF CatInv, RowsOK
<1>3. /\ Live(twins)' = Live(twins) /\ Live(part)' = Live(part) /\ Live(asset)' = Live(asset)
      /\ Live(sensor)' = Live(sensor) \ {s}
      /\ \A r \in Live(sensor) \ {s} : sensor'[r] = sensor[r]
  BY <1>1, NotRows DEF CatInv, RowsOK, Live
<1>4. RefsOK'
  BY <1>1, <1>3 DEF CatInv, RefsOK
<1>5. Aged /\ \A r \in Live(sensor)' : Untied(r)
  BY <1>1, <1>3, LiveRows, NotRows DEF CatInv, Aged, Untied, RowsOK, Live
<1> QED BY <1>1, <1>2, <1>4, <1>5, Untying

LEMMA UnbindStep == ASSUME CatInv, NEW s \in Sensors, Unbind(s) PROVE CatInv'
<1>1. /\ s \in Live(sensor) /\ sensor' = [sensor EXCEPT ![s].part = None]
      /\ UNCHANGED <<twins, asset, part, bind>>
  BY DEF Unbind, links
<1>2. sensor[s] \in SensorRow
  BY <1>1, LiveRows DEF CatInv
<1>3. /\ sensor'[s] \in SensorRow /\ sensor'[s].part = None /\ sensor'[s].asset = sensor[s].asset
      /\ sensor'[s].scoped = sensor[s].scoped
      /\ \A r \in Sensors \ {s} : sensor'[r] = sensor[r]
  BY <1>1, <1>2 DEF CatInv, RowsOK, SensorRow
<1>4. RowsOK'
  BY <1>1, <1>3 DEF CatInv, RowsOK
<1>5. /\ Live(twins)' = Live(twins) /\ Live(part)' = Live(part) /\ Live(asset)' = Live(asset)
      /\ Live(sensor)' = Live(sensor)
  BY <1>1, <1>2, <1>3, NotRows DEF CatInv, RowsOK, Live
<1>6. RefsOK'
  BY <1>1, <1>3, <1>5, LiveRows DEF CatInv, RefsOK
<1>7. Aged /\ \A r \in Live(sensor)' : Untied(r)
  BY <1>1, <1>2, <1>3, LiveRows, NotRows DEF CatInv, Aged, Untied, RowsOK, Live
<1> QED BY <1>1, <1>4, <1>6, <1>7, Untying

LEMMA IdleRows == NoBind \in BindRow /\ NoBind.at = "idle" /\ NoVisit \in VisitRow /\ NoVisit.at = "idle"
  BY DEF NoBind, NoVisit, BindRow, VisitRow

(* Steps of the binding that only read.                                    *)
LEMMA Reading ==
    ASSUME CatInv, UNCHANGED rows, BindOK' PROVE CatInv'
  BY DEF CatInv, rows, RowsOK, RefsOK, TwinScoped, SameTwin, Live

LEMMA BeginBindStep ==
    ASSUME CatInv, NEW s \in Sensors, NEW p \in Parts, BeginBind(s, p) PROVE CatInv'
<1>1. /\ s \in Live(sensor) /\ UNCHANGED rows
      /\ bind' = [NoBind EXCEPT !.at = "part", !.sensor = s, !.part = p, !.asset = sensor[s].asset]
  BY DEF BeginBind
<1>2. /\ bind'.at = "part" /\ bind'.sensor = s /\ bind'.part = p /\ bind'.asset = sensor[s].asset
      /\ bind' \in BindRow
  <2>1. sensor[s].asset \in Assets \cup {None}
    BY <1>1, LiveRows, Rows DEF CatInv
  <2> QED BY <1>1, <2>1 DEF NoBind, BindRow
<1>3. /\ sensor[s] # Unused /\ sensor[s].asset \in Assets \cup {None}
      /\ sensor[s].asset # None => asset[sensor[s].asset] # Unused
  BY <1>1, LiveRows, NotRows DEF CatInv, RefsOK
<1>4. BindOK'
  BY <1>1, <1>2, <1>3 DEF BindOK, rows
<1> QED BY <1>1, <1>4, Reading

LEMMA ReadSteps == ASSUME CatInv, ReadPart \/ ReadAsset PROVE CatInv'
<1>1. UNCHANGED rows
  BY DEF ReadPart, ReadAsset
<1>2. CASE ReadPart /\ bind' = NoBind
  BY <1>1, <1>2, Reading, IdleRows DEF BindOK, NoBind
<1>3. CASE ReadAsset /\ bind' = NoBind
  BY <1>1, <1>3, Reading, IdleRows DEF BindOK, NoBind
<1>4. CASE ReadPart /\ bind' # NoBind
  <2> DEFINE at == IF bind.asset = None THEN "write" ELSE "asset"
  <2>1. /\ bind.at = "part" /\ bind.part \in Live(part)
        /\ bind' = [bind EXCEPT !.at = at, !.twin = part[bind.part]]
    BY <1>4 DEF ReadPart
  <2>2. part[bind.part] \in Twins
    BY <2>1, LiveRows DEF CatInv
  <2>3. /\ bind'.at = at /\ bind'.twin = part[bind.part] /\ bind'.sensor = bind.sensor
        /\ bind'.part = bind.part /\ bind'.asset = bind.asset /\ bind' \in BindRow
    BY <2>1, <2>2 DEF CatInv, BindOK, BindRow
  <2>4. BindOK'
    BY <1>1, <2>1, <2>2, <2>3 DEF CatInv, BindOK, rows
  <2> QED BY <1>1, <2>4, Reading
<1>5. CASE ReadAsset /\ bind' # NoBind
  <2>1. bind.at = "asset" /\ ~Mismatch /\ bind' = [bind EXCEPT !.at = "write"]
    BY <1>5 DEF ReadAsset
  <2>2. /\ bind'.at = "write" /\ bind'.twin = bind.twin /\ bind'.sensor = bind.sensor
        /\ bind'.part = bind.part /\ bind'.asset = bind.asset /\ bind' \in BindRow
        /\ bind.asset \in Assets \cup {None}
    BY <2>1 DEF CatInv, BindOK, BindRow
  <2>3. bind.asset # None => asset[bind.asset] = Gone \/ asset[bind.asset].twin = bind.twin
    <3>1. bind.asset # None => asset[bind.asset] # Unused
      BY <2>1 DEF CatInv, BindOK
    <3>2. bind.asset \in Live(asset) => asset[bind.asset].twin = bind.twin
      BY <2>1 DEF Mismatch
    <3> QED BY <2>2, <3>1, <3>2, LiveRows DEF CatInv, RowsOK
  <2>4. BindOK'
    BY <1>1, <2>1, <2>2, <2>3 DEF CatInv, BindOK, rows
  <2> QED BY <1>1, <2>4, Reading
<1> QED BY <1>2, <1>3, <1>4, <1>5

LEMMA WriteStep == ASSUME CatInv, WriteBinding PROVE CatInv'
<1> SUFFICES ASSUME NEW s, NEW p, s = bind.sensor, p = bind.part PROVE CatInv'
  OBVIOUS
<1>1. /\ bind.at = "write" /\ bind' = NoBind /\ UNCHANGED <<twins, asset, part>>
      /\ s \in Sensors /\ p \in Parts /\ bind.asset \in Assets \cup {None}
  BY DEF WriteBinding, CatInv, BindOK, BindRow
<1>2. BindOK'
  BY <1>1, IdleRows DEF BindOK
<1>3. CASE ~(s \in Live(sensor) /\ p \in Live(part))
  <2>1. sensor' = sensor
    BY <1>3 DEF WriteBinding
  <2> QED BY <1>1, <1>2, <2>1 DEF CatInv, RowsOK, RefsOK, TwinScoped, SameTwin, Live
<1>4. CASE s \in Live(sensor) /\ p \in Live(part)
  <2>1. sensor' = [sensor EXCEPT ![s] = [sensor[s] EXCEPT !.part = p]]
    BY <1>4 DEF WriteBinding
  <2>2. sensor[s] \in SensorRow
    BY <1>4, LiveRows DEF CatInv
  <2>3. /\ sensor'[s] \in SensorRow /\ sensor'[s].part = p /\ sensor'[s].asset = sensor[s].asset
        /\ sensor'[s].scoped = sensor[s].scoped
        /\ \A r \in Sensors \ {s} : sensor'[r] = sensor[r]
    BY <1>1, <2>1, <2>2 DEF CatInv, RowsOK, SensorRow
  <2>4. RowsOK'
    BY <1>1, <2>1, <2>3 DEF CatInv, RowsOK
  <2>5. /\ Live(twins)' = Live(twins) /\ Live(part)' = Live(part) /\ Live(asset)' = Live(asset)
        /\ Live(sensor)' = Live(sensor)
    BY <1>1, <2>1, <2>2, <2>3, NotRows DEF CatInv, RowsOK, Live
  <2>6. RefsOK'
    BY <1>1, <1>4, <2>3, <2>5, LiveRows DEF CatInv, RefsOK
  <2>7. SameTwin(sensor[s].asset, sensor[s].part)'
    <3>1. CASE sensor[s].asset = None
      BY <2>3, <3>1 DEF SameTwin
    <3>2. CASE sensor[s].asset # None
      <4>1. sensor[s].asset = bind.asset /\ bind.asset \in Live(asset)
        BY <1>1, <1>4, <3>2 DEF CatInv, BindOK, RefsOK
      <4>2. asset[bind.asset].twin = bind.twin
        BY <1>1, <3>2, <4>1, LiveRows, NotRows DEF CatInv, BindOK
      <4>3. part[p] = bind.twin
        BY <1>1, <1>4, LiveRows, NotRows DEF CatInv, BindOK
      <4> QED BY <1>1, <2>3, <4>1, <4>2, <4>3 DEF SameTwin
    <3> QED BY <3>1, <3>2
  <2>8. TwinScoped'
    <3>1. ASSUME NEW r \in Live(sensor) \ {s}, sensor'[r].scoped
          PROVE  SameTwin(sensor[r].asset, sensor[r].part)'
      BY <1>1, <2>3, <3>1, LiveRows DEF CatInv, TwinScoped, SameTwin
    <3> QED BY <2>5, <2>7, <3>1 DEF TwinScoped
  <2> QED BY <1>2, <2>4, <2>6, <2>8 DEF CatInv
<1> QED BY <1>3, <1>4

-----------------------------------------------------------------------------
(* Links.  One that has ended is gone, or its time is over.                *)
LinksInv ==
    /\ link \in [Links -> LinkRow \cup {Unused, Gone}] /\ visit \in VisitRow
    /\ ended \subseteq Links /\ knotted \in BOOLEAN
    /\ \A l \in ended : link[l] = Gone \/ (link[l] \in LinkRow /\ link[l].left = 0)

LEMMA LinkRows ==
    /\ Unused # Gone /\ Unused \notin LinkRow /\ Gone \notin LinkRow
    /\ \A r \in LinkRow : r.twin \in Twins /\ r.left \in 0 .. Lifetime
    /\ \A t \in Twins : [twin |-> t, left |-> Lifetime] \in LinkRow
    /\ LinksInv => \A l : l \in Live(link) <=> l \in Links /\ link[l] \in LinkRow
<1>1. Unused # Gone /\ Unused \notin LinkRow /\ Gone \notin LinkRow
  BY CatalogueAssumption
<1>2. \A r \in LinkRow : r.twin \in Twins /\ r.left \in 0 .. Lifetime
  BY DEF LinkRow
<1>3. \A t \in Twins : [twin |-> t, left |-> Lifetime] \in LinkRow
  BY CatalogueAssumption DEF LinkRow
<1>4. LinksInv => \A l : l \in Live(link) <=> l \in Links /\ link[l] \in LinkRow
  BY <1>1 DEF LinksInv, Live
<1> QED BY <1>1, <1>2, <1>3, <1>4

LEMMA LinksStep == LinksInv /\ [Next]_vars => LinksInv'
<1> SUFFICES ASSUME LinksInv, [Next]_vars PROVE LinksInv'
  OBVIOUS
<1>1. ASSUME NEW l \in Links, NEW t \in Twins, CreateShareToken(l, t) PROVE LinksInv'
  <2>1. /\ link[l] = Unused /\ link' = [link EXCEPT ![l] = [twin |-> t, left |-> Lifetime]]
        /\ UNCHANGED <<visit, ended, knotted>>
    BY <1>1 DEF CreateShareToken, rows
  <2>2. l \notin ended
    BY <2>1, LinkRows DEF LinksInv
  <2> QED BY <2>1, <2>2, LinkRows DEF LinksInv
<1>2. CASE Tick
  <2>1. /\ link' = [l \in Links |-> IF l \in Live(link) /\ link[l].left > 0
                                   THEN [link[l] EXCEPT !.left = @ - 1] ELSE link[l]]
        /\ ended' = ended \cup {l \in Live(link) : link[l].left = 1} /\ UNCHANGED <<visit, knotted>>
    BY <1>2 DEF Tick, rows
  <2>2. ASSUME NEW l \in Live(link), link[l].left > 0
        PROVE  l \in Links /\ link'[l] \in LinkRow /\ link'[l].left = link[l].left - 1
    <3>1. l \in Links /\ link[l] \in LinkRow
      BY LinkRows
    <3>2. link'[l] = [link[l] EXCEPT !.left = @ - 1]
      BY <2>1, <2>2, <3>1
    <3> QED BY <2>2, <3>1, <3>2, CatalogueAssumption DEF LinkRow
  <2>3. ASSUME NEW l \in Links, ~(l \in Live(link) /\ link[l].left > 0) PROVE link'[l] = link[l]
    BY <2>1, <2>3
  <2>4. link' \in [Links -> LinkRow \cup {Unused, Gone}]
    <3>1. \A l \in Links : link'[l] \in LinkRow \cup {Unused, Gone}
      BY <2>2, <2>3 DEF LinksInv
    <3>2. link' = [l \in Links |-> link'[l]]
      BY <2>1
    <3> QED BY <3>1, <3>2
  <2>5. ASSUME NEW l \in ended' PROVE link'[l] = Gone \/ (link'[l] \in LinkRow /\ link'[l].left = 0)
    <3>1. CASE l \in Live(link) /\ link[l].left = 1
      BY <2>2, <3>1
    <3>2. CASE l \in ended
      <4>1. l \in Links /\ ~(l \in Live(link) /\ link[l].left > 0)
        BY <3>2, LinkRows DEF LinksInv
      <4> QED BY <2>3, <3>2, <4>1 DEF LinksInv
    <3> QED BY <2>1, <2>5, <3>1, <3>2
  <2>6. ended' \subseteq Links
    BY <2>1, LinkRows DEF LinksInv
  <2> QED BY <2>1, <2>4, <2>5, <2>6 DEF LinksInv
<1>3. ASSUME NEW l \in Links, OpenLink(l) PROVE LinksInv'
  <2>1. CASE l \in Live(link) /\ ~Expired(l)
    <3>1. /\ visit' = [at |-> "read", link |-> l, twin |-> link[l].twin]
          /\ UNCHANGED <<link, ended, knotted>>
      BY <1>3, <2>1 DEF OpenLink, rows
    <3>2. visit' \in VisitRow
      BY <2>1, <3>1, LinkRows DEF VisitRow
    <3> QED BY <3>1, <3>2 DEF LinksInv
  <2>2. CASE ~(l \in Live(link) /\ ~Expired(l))
    <3>1. link' = [link EXCEPT ![l] = Gone] /\ UNCHANGED <<visit, ended, knotted>>
      BY <1>3, <2>2 DEF OpenLink, rows
    <3> QED BY <3>1 DEF LinksInv
  <2> QED BY <2>1, <2>2
<1>4. ASSUME NEW l \in Links, Revoke(l) PROVE LinksInv'
  BY <1>4 DEF Revoke, rows, LinksInv
<1>5. CASE ExportTwin
  BY <1>5, IdleRows DEF ExportTwin, rows, LinksInv
<1>6. CASE Restart
  <2>1. /\ link' = [l \in Links |-> IF l \in Live(link) THEN Gone ELSE link[l]]
        /\ ended' = ended \cup Live(link) /\ visit' = NoVisit /\ knotted' = knotted
    BY <1>6 DEF Restart, rows
  <2>2. Live(link) \subseteq Links
    BY LinkRows
  <2> QED BY <2>1, <2>2, IdleRows DEF LinksInv
<1>7. ASSUME UNCHANGED links, knotted' \in BOOLEAN PROVE LinksInv'
  BY <1>7 DEF links, LinksInv
<1>8. ASSUME NEW t \in Twins, CreateTwin(t) \/ RemoveTwin(t) \/ \E p \in Parts : Upload(t, p) PROVE LinksInv'
  BY <1>7, <1>8 DEF CreateTwin, RemoveTwin, Upload, LinksInv
<1>9. ASSUME NEW t \in Twins, NEW a \in Assets, NEW p \in Assets \cup {None}, CreateAsset(a, t, p) PROVE LinksInv'
  BY <1>7, <1>9 DEF CreateAsset, LinksInv
<1>10. ASSUME NEW a \in Assets, RemoveAsset(a) \/ \E p \in Assets : UpdateAsset(a, p) PROVE LinksInv'
  BY <1>7, <1>10 DEF RemoveAsset, UpdateAsset, LinksInv
<1>11. ASSUME NEW p \in Parts, RemoveModel(p) PROVE LinksInv'
  BY <1>7, <1>11 DEF RemoveModel, LinksInv
<1>12. ASSUME NEW s \in Sensors, RemoveSensor(s) \/ Unbind(s) \/ \E p \in Parts : BeginBind(s, p) PROVE LinksInv'
  BY <1>7, <1>12 DEF RemoveSensor, Unbind, BeginBind, rows, LinksInv
<1>13. ASSUME NEW s \in Sensors, NEW a \in Assets \cup {None}, NEW p \in Parts \cup {None}, CreateSensor(s, a, p)
       PROVE  LinksInv'
  BY <1>7, <1>13 DEF CreateSensor, LinksInv
<1>14. CASE ReadPart \/ ReadAsset \/ WriteBinding
  BY <1>7, <1>14 DEF ReadPart, ReadAsset, WriteBinding, rows, LinksInv
<1>15. CASE UNCHANGED vars
  BY <1>15 DEF vars, LinksInv
<1> QED BY <1>1, <1>2, <1>3, <1>4, <1>5, <1>6, <1>8, <1>9, <1>10, <1>11, <1>12, <1>13, <1>14, <1>15 DEF Next

-----------------------------------------------------------------------------
LEMMA CatStep == CatInv /\ [Next]_vars => CatInv'
<1> SUFFICES ASSUME CatInv, [Next]_vars PROVE CatInv'
  OBVIOUS
<1>1. ASSUME UNCHANGED rows, UNCHANGED bind PROVE CatInv'
  BY <1>1, Reading DEF CatInv, BindOK, rows, Live
<1>2. ASSUME NEW l \in Links, (\E t \in Twins : CreateShareToken(l, t)) \/ OpenLink(l) \/ Revoke(l) PROVE CatInv'
  BY <1>1, <1>2 DEF CreateShareToken, OpenLink, Revoke
<1>3. CASE ExportTwin \/ Tick
  BY <1>1, <1>3 DEF ExportTwin, Tick
<1>4. CASE Restart
  BY <1>4, Reading, IdleRows DEF Restart, BindOK
<1>5. CASE UNCHANGED vars
  BY <1>1, <1>5 DEF vars, rows
<1> QED BY <1>2, <1>3, <1>4, <1>5, CreateTwinStep, RemoveTwinStep, UploadStep, RemoveModelStep,
           CreateAssetStep, UpdateAssetStep, RemoveAssetStep, CreateSensorStep, RemoveSensorStep,
           UnbindStep, BeginBindStep, ReadSteps, WriteStep DEF Next

LEMMA CatInit == Init => CatInv /\ LinksInv
<1> SUFFICES ASSUME Init PROVE CatInv /\ LinksInv
  OBVIOUS
<1>1. Live(asset) = {} /\ Live(part) = {} /\ Live(sensor) = {}
  BY DEF Init, Live
<1>2. RowsOK /\ BindOK /\ LinksInv
  BY IdleRows DEF Init, RowsOK, BindOK, LinksInv
<1> QED BY <1>1, <1>2 DEF CatInv, RefsOK, TwinScoped

LEMMA CatAlways == Spec => [](CatInv /\ LinksInv)
<1> QED BY CatInit, CatStep, LinksStep, PTL DEF Spec

\* Every variable has its values, and no row ever refers to one that is gone
\* (the foreign keys of the schema with their cascades).
THEOREM CatalogueTypes == Spec => []TypeOK
<1>1. CatInv /\ LinksInv => TypeOK
  BY DEF CatInv, LinksInv, RefsOK, BindOK, TypeOK
<1> QED BY <1>1, CatAlways, PTL

-----------------------------------------------------------------------------
(* The tree of a twin.  An asset that nothing leads to from the roots      *)
(* would be one of a set in which each has its parent (Ring).              *)
Ring(K) == K # {} /\ \A a \in K : asset[a].parent \in K

TreeOK == ~knotted =>
    /\ \A a \in Live(asset) : asset[a].parent # None => asset[asset[a].parent].twin = asset[a].twin
    /\ \A K \in SUBSET Live(asset) : ~Ring(K)

LEMMA TreeEnough == CatInv /\ TreeOK => TreeComplete
<1> SUFFICES ASSUME CatInv, TreeOK, ~knotted, NEW a \in Live(asset)
             PROVE  a \in Under(FindRoots(asset[a].twin))
  BY DEF TreeComplete
<1> DEFINE t == asset[a].twin
           roots == {b \in Live(asset) : asset[b].twin = t /\ asset[b].parent = None}
<1>1. roots \subseteq FindRoots(t)
  BY DEF FindRoots, WithChildren
<1>2. ASSUME NEW T \in SUBSET Live(asset), FindRoots(t) \subseteq T, WithChildren(T) = T, a \notin T PROVE FALSE
  <2> DEFINE K == {b \in Live(asset) \ T : asset[b].twin = t}
  <2>1. a \in K
    BY <1>2
  <2>2. ASSUME NEW b \in K PROVE asset[b].parent \in K
    <3>1. asset[b].parent # None
      BY <1>1, <1>2, <2>2
    <3>2. asset[b].parent \in Live(asset) /\ asset[asset[b].parent].twin = t
      BY <2>2, <3>1 DEF CatInv, RefsOK, TreeOK
    <3>3. asset[b].parent \notin T
      BY <1>2, <2>2 DEF WithChildren
    <3> QED BY <3>2, <3>3
  <2>3. Ring(K) /\ K \in SUBSET Live(asset)
    BY <2>1, <2>2 DEF Ring
  <2> QED BY <2>3 DEF TreeOK
<1> QED BY <1>2 DEF Under

\* Rows are removed, and parents with them: what is left was a tree before.
LEMMA TreeCut ==
    ASSUME CatInv, TreeOK, NEW left, left \subseteq Live(asset), asset' = AssetsKept(left), UNCHANGED knotted
    PROVE  TreeOK'
<1>1. RowsOK
  BY DEF CatInv
<1>2. \A a \in left : /\ asset'[a].twin = asset[a].twin
                      /\ asset'[a].parent \in left \cup {None}
                      /\ asset'[a].parent \in {asset[a].parent, None}
  BY <1>1, AssetsLeft
<1>3. Live(asset)' \subseteq left
  BY <1>1, AssetsLeft DEF Live, AssetsKept
<1> SUFFICES ASSUME ~knotted
             PROVE  /\ \A a \in Live(asset)' : asset'[a].parent # None => asset'[asset'[a].parent].twin = asset'[a].twin
                    /\ \A K \in SUBSET Live(asset)' : ~Ring(K)'
  BY DEF TreeOK
<1>4. ASSUME NEW a \in left, asset'[a].parent # None PROVE asset'[asset'[a].parent].twin = asset'[a].twin
  BY <1>2, <1>4 DEF TreeOK
<1>5. ASSUME NEW K \in SUBSET left, Ring(K)' PROVE FALSE
  <2>1. None \notin K
    BY <1>1, LiveRows, CatalogueAssumption
  <2>2. Ring(K) /\ K \in SUBSET Live(asset)
    BY <1>2, <1>5, <2>1 DEF Ring
  <2> QED BY <2>2 DEF TreeOK
<1> QED BY <1>3, <1>4, <1>5

\* A new row is nobody's parent yet.
LEMMA TreeGrown ==
    ASSUME CatInv, TreeOK, NEW a \in Assets, NEW t \in Twins, NEW p \in Assets \cup {None}, CreateAsset(a, t, p)
    PROVE  TreeOK'
<1>1. /\ asset[a] = Unused /\ p \in Live(asset) \cup {None}
      /\ asset' = [asset EXCEPT ![a] = [twin |-> t, parent |-> p]]
      /\ knotted' = (knotted \/ Knots(a, t, p))
  BY DEF CreateAsset
<1>2. /\ \A b \in Live(asset) : asset'[b] = asset[b] /\ b # a /\ b # None
      /\ asset'[a].twin = t /\ asset'[a].parent = p
      /\ Live(asset)' \subseteq Live(asset) \cup {a}
  BY <1>1, LiveRows, CatalogueAssumption DEF CatInv, RowsOK, Live
<1>3. \A b \in Live(asset) : asset[b].parent \in Live(asset) \cup {None}
  BY DEF CatInv, RefsOK
<1> SUFFICES ASSUME ~knotted, ~Knots(a, t, p)
             PROVE  /\ \A b \in Live(asset)' : asset'[b].parent # None => asset'[asset'[b].parent].twin = asset'[b].twin
                    /\ \A K \in SUBSET Live(asset)' : ~Ring(K)'
  BY <1>1 DEF TreeOK, CatInv
<1>4. ASSUME NEW b \in Live(asset) \cup {a}, asset'[b].parent # None PROVE asset'[asset'[b].parent].twin = asset'[b].twin
  <2>1. CASE b = a
    BY <1>1, <1>2, <1>4, <2>1 DEF Knots
  <2>2. CASE b # a
    BY <1>2, <1>3, <1>4, <2>2 DEF TreeOK
  <2> QED BY <2>1, <2>2
<1>5. ASSUME NEW K \in SUBSET (Live(asset) \cup {a}), Ring(K)' PROVE FALSE
  <2>1. a # None
    BY CatalogueAssumption
  <2>2. ASSUME NEW b \in K \ {a} PROVE asset[b].parent \in K \ {a}
    BY <1>2, <1>3, <1>5, <2>1 DEF Ring
  <2>3. K \ {a} # {}
    BY <1>1, <1>2, <1>5, <2>1 DEF Ring
  <2>4. Ring(K \ {a}) /\ K \ {a} \in SUBSET Live(asset)
    BY <2>2, <2>3 DEF Ring
  <2> QED BY <2>4 DEF TreeOK
<1> QED BY <1>2, <1>4, <1>5

\* An asset is put under another.  If that closed a ring, the new parent's
\* ancestors within the ring would have been one before, or reach the asset.
LEMMA TreeMoved ==
    ASSUME CatInv, TreeOK, NEW a \in Assets, NEW p \in Assets, UpdateAsset(a, p)
    PROVE  TreeOK'
<1>1. /\ a \in Live(asset) /\ p \in Live(asset)
      /\ asset' = [asset EXCEPT ![a].parent = p]
      /\ knotted' = (knotted \/ Knots(a, asset[a].twin, p))
  BY DEF UpdateAsset
<1>2. asset[a] \in AssetRow
  BY <1>1, LiveRows DEF CatInv
<1>3. /\ \A b \in Assets : asset'[b].twin = asset[b].twin
      /\ \A b \in Assets \ {a} : asset'[b] = asset[b]
      /\ asset'[a].parent = p
  BY <1>1, <1>2 DEF CatInv, RowsOK, AssetRow
<1>4. Live(asset)' \subseteq Live(asset) /\ Live(asset) \subseteq Assets /\ None \notin Assets
  BY <1>1, <1>3, LiveRows, CatalogueAssumption DEF CatInv, RowsOK, Live
<1> SUFFICES ASSUME ~knotted, ~Knots(a, asset[a].twin, p)
             PROVE  /\ \A b \in Live(asset)' : asset'[b].parent # None => asset'[asset'[b].parent].twin = asset'[b].twin
                    /\ \A K \in SUBSET Live(asset)' : ~Ring(K)'
  BY <1>1 DEF TreeOK, CatInv
<1>5. \A b \in Live(asset) : asset[b].parent \in Live(asset) \cup {None}
  BY DEF CatInv, RefsOK
<1>6. ASSUME NEW b \in Live(asset), asset'[b].parent # None PROVE asset'[asset'[b].parent].twin = asset'[b].twin
  <2>1. CASE b = a
    BY <1>1, <1>3, <1>4, <2>1 DEF Knots
  <2>2. CASE b # a
    BY <1>3, <1>4, <1>5, <1>6, <2>2 DEF TreeOK
  <2> QED BY <2>1, <2>2
<1>7. ASSUME NEW K \in SUBSET Live(asset), Ring(K)' PROVE FALSE
  <2>1. a \in K
    <3> SUFFICES ASSUME a \notin K PROVE Ring(K)
      BY DEF TreeOK
    <3> QED BY <1>3, <1>4, <1>7 DEF Ring
  <2>2. p \in K
    BY <1>3, <1>7, <2>1 DEF Ring
  <2>3. a \notin Above(p)
    BY <1>1, <1>4 DEF Knots
  <2>4. PICK S \in SUBSET Live(asset) :
             p \in S /\ (\A x \in S : asset[x].parent \in S \cup {None}) /\ a \notin S
    BY <1>1, <2>3 DEF Above
  <2>5. ASSUME NEW x \in S \cap K PROVE asset[x].parent \in S \cap K
    <3>1. asset[x].parent \in K
      BY <1>3, <1>4, <1>7, <2>4 DEF Ring
    <3> QED BY <1>4, <2>4, <3>1
  <2>6. Ring(S \cap K) /\ S \cap K \in SUBSET Live(asset)
    BY <2>2, <2>4, <2>5 DEF Ring
  <2> QED BY <2>6 DEF TreeOK
<1> QED BY <1>4, <1>6, <1>7

LEMMA TreeStep == CatInv /\ TreeOK /\ [Next]_vars => TreeOK'
<1> SUFFICES ASSUME CatInv, TreeOK, [Next]_vars PROVE TreeOK'
  OBVIOUS
<1>1. ASSUME UNCHANGED <<asset, knotted>> PROVE TreeOK'
  BY <1>1 DEF TreeOK, Ring, Live
<1>2. ASSUME NEW t \in Twins, RemoveTwin(t) PROVE TreeOK'
  <2>1. /\ {b \in Live(asset) : asset[b].twin # t} \subseteq Live(asset)
        /\ asset' = AssetsKept({b \in Live(asset) : asset[b].twin # t}) /\ UNCHANGED knotted
    BY <1>2 DEF RemoveTwin
  <2> QED BY <2>1, TreeCut
<1>3. ASSUME NEW a \in Assets, RemoveAsset(a) PROVE TreeOK'
  <2>1. /\ Live(asset) \ {a} \subseteq Live(asset)
        /\ asset' = AssetsKept(Live(asset) \ {a}) /\ UNCHANGED knotted
    BY <1>3 DEF RemoveAsset
  <2> QED BY <2>1, TreeCut
<1>4. \/ UNCHANGED <<asset, knotted>>
      \/ \E t \in Twins : RemoveTwin(t)
      \/ \E t \in Twins, a \in Assets, p \in Assets \cup {None} : CreateAsset(a, t, p)
      \/ \E a \in Assets : RemoveAsset(a)
      \/ \E a \in Assets, p \in Assets : UpdateAsset(a, p)
  <2>1. CASE Next
    BY <2>1 DEF Next, rows, CreateTwin, Upload, CreateShareToken, RemoveModel, RemoveSensor, Unbind, BeginBind,
       CreateSensor, ReadPart, ReadAsset, WriteBinding, OpenLink, Revoke, ExportTwin, Tick, Restart
  <2>2. CASE UNCHANGED vars
    BY <2>2 DEF vars
  <2> QED BY <2>1, <2>2
<1> QED BY <1>1, <1>2, <1>3, <1>4, TreeGrown, TreeMoved

\* A sensor that was made within one twin stays there, whatever happens
\* between the reads and the write of bindToModelPart.
THEOREM TwinScopedCorrect == Spec => []TwinScoped
<1>1. CatInv => TwinScoped
  BY DEF CatInv
<1> QED BY <1>1, CatAlways, PTL

\* A link that ran out, was revoked or was lost in a restart opens no twin.
THEOREM LinksEndCorrect == Spec => LinksEnd
<1> DEFINE Good == visit # visit' /\ visit'.at = "read" => visit'.link \notin ended
<1>1. LinksInv /\ [Next]_vars => [Good]_vars
  <2> SUFFICES ASSUME LinksInv, Next, visit # visit', visit'.at = "read" PROVE visit'.link \notin ended
    OBVIOUS
  <2>1. visit' # NoVisit
    BY IdleRows
  <2>2. PICK l \in Links : OpenLink(l)
    BY <2>1 DEF Next, links, rows, CreateTwin, RemoveTwin, Upload, RemoveModel, CreateAsset, UpdateAsset,
         RemoveAsset, CreateSensor, RemoveSensor, Unbind, BeginBind, ReadPart, ReadAsset, WriteBinding,
         CreateShareToken, Revoke, ExportTwin, Tick, Restart
  <2>3. l \in Live(link) /\ ~Expired(l) /\ visit'.link = l
    BY <2>2 DEF OpenLink
  <2>4. l \notin ended
    BY <2>3, LinkRows DEF Expired, LinksInv
  <2> QED BY <2>3, <2>4
<1> QED BY <1>1, CatAlways, PTL DEF Spec, LinksEnd

\* Every asset of a twin is in what findRoots answers or hangs below it, at
\* any depth, as long as nobody put an asset under one of another twin or under
\* its own descendant: removing a parent or moving an asset loses none.
THEOREM TreeCompleteCorrect == Spec => []TreeComplete
<1>1. Init => TreeOK
  BY DEF Init, TreeOK, Ring, Live
<1> QED BY <1>1, TreeStep, TreeEnough, CatAlways, PTL DEF Spec

=============================================================================
