-------------------------- MODULE FrontendProofs --------------------------
(***************************************************************************)
(* Proofs about the browser's side: the console, for any number of twins   *)
(* and of requests out, and playback, for any number of controls, frames   *)
(* and clicks.                                                             *)
(*                                                                         *)
(* Console.  None of its properties is inductive, for a step that answers  *)
(* one request may send others and leave the rest in a new place.  ConInv  *)
(* says what each request may still be (CallsOK), what an answer that      *)
(* shows the lists as they were is followed by (SnapshotsOK), which loads  *)
(* the hierarchy still waits for (AssetsInv), and that what a list behind  *)
(* waits for will do: a command that has been carried out, or a load that  *)
(* nothing has overtaken (WritesInv).                                      *)
(*                                                                         *)
(* What a step does to the other requests is one relation: each goes on as *)
(* a Shadow of itself, and Follow says so of all of them.  The lemmas      *)
(* about Follow come first, then one for each action, and the theorems.    *)
(*                                                                         *)
(* Playback.  Its PlaybackTypeOK bounds the frame by the clicks and is not *)
(* inductive by itself: an interval counts at most to the totalFrames it   *)
(* has captured, and was started by a click or by the first load.          *)
(* TimersOwned needs to know that controls that load have no interval, and *)
(* fresh ones nothing.                                                     *)
(***************************************************************************)
EXTENDS Console, Playback, TLAPS

Commands == {"createTwin", "updateTwin", "removeTwin", "updateAsset", "removeAsset",
    "createSensor", "updateSensor", "thresholds", "createAndBind", "bind", "unbind",
    "removeSensor", "deleteSensor", "control", "upload", "uploadVersion", "updateModel",
    "removeModel", "restoreModel", "rollback", "permanentRemove", "acknowledge",
    "acknowledgeHere", "acknowledgeAll", "acknowledgeAllHere"}

Request == [is : {"get", "command"}, what : Lists \cup {"twin"} \cup Commands, twin : Twins \cup {None},
            at : {"sent", "ok", "denied", "failed", "lost", "unauthorized"}, sees : BOOLEAN,
            late : BOOLEAN, retried : BOOLEAN, here : BOOLEAN, by : Anyone \cup {None}]

\* The pages that may ask for a list of their own, or reload it.
Home(l, p) == (l = "models" => p = "models") /\ (l = "alerts" => p \in {"alerts", "viewer"})

GetOK(c) ==
    /\ c.what \in Lists \cup {"twin"} /\ Home(c.what, page)
    /\ c.by = None /\ c.at # "denied" /\ (c.what = "twin" => c.twin \in Twins)

\* A command goes by its handler once it is answered, and was denied to
\* somebody who had been shown its button or has lost his rights since.
CommandOK(c) ==
    /\ c.what \in Commands /\ (c.here => Home(Changes(c.what), page))
    /\ Changes(c.what) = "assets" => current # None
    /\ c.at = "sent" => /\ c.by \in {role, "VIEWER"} \/ role = "VIEWER"
                        /\ c.what \notin Lax => c.by \in Routes[c.what]
    /\ c.at = "denied" => \E k \in Commands : /\ Handler[k] = c.what /\ role \notin Routes[k]
                                              /\ k \in Lax \/ role = "VIEWER"

CallsOK == \A c \in calls : c \in Request /\ (c.is = "get" => GetOK(c)) /\ (c.is = "command" => CommandOK(c))

\* A command that may have changed its list, and is still to be answered.
Committed(cs, l) == \E c \in cs : /\ c.is = "command" /\ Changes(c.what) = l
                                  /\ c.at \in {"ok", "failed", "lost"}

\* An answer that would put a list back, and counts as fresh, is there only
\* together with a command that will load it again.
SnapshotsOK == \A c \in calls : c.is = "get" /\ c.what # "twin" /\ c.at = "ok" /\ ~c.sees /\ ~c.late
                                   => Committed(calls, c.what)

\* The loads of assets are for the current twin, while nobody else has asked;
\* and there is one to come whenever the hierarchy is not the current twin's.
Fresh(cs, what) == {c \in Gets(cs, what) : ~c.late}
AssetsInv ==
    ~borrowed =>
      /\ \A c \in Fresh(calls, "assets") : c.twin = current
      /\ current # None => \/ assetsOf = current \/ "assets" \in astray
                           \/ Fresh(calls, "assets") # {} \/ Fresh(calls, "twin") # {}

\* The list l is about to be loaded, or a handler is about to load or edit it.
Pending(cs, l) == \/ Committed(cs, l)
                  \/ \E c \in Fresh(cs, l) : TRUE
                  \/ l = "assets" /\ \E c \in Fresh(cs, "twin") : TRUE

WritesInv == \A l \in behind : l \in astray \/ Pending(calls, l)

ConInv == /\ TypeOK /\ CallsOK /\ SnapshotsOK /\ AssetsInv /\ WritesInv /\ SpinnerEnds
          /\ user \in {role, None} \/ role = "VIEWER"

-----------------------------------------------------------------------------
(* The tables.                                                             *)
LEMMA RouteTable ==
    /\ DOMAIN TwinRoutes = {"createTwin", "updateTwin", "removeTwin"}
    /\ DOMAIN AssetRoutes = {"updateAsset", "removeAsset"}
    /\ DOMAIN SensorRoutes = {"createSensor", "updateSensor", "thresholds", "createAndBind", "bind",
                              "unbind", "removeSensor", "deleteSensor", "control"}
    /\ DOMAIN ModelRoutes = {"upload", "uploadVersion", "updateModel", "removeModel", "restoreModel",
                             "rollback", "permanentRemove"}
    /\ DOMAIN AlertRoutes = {"acknowledge", "acknowledgeHere", "acknowledgeAll", "acknowledgeAllHere"}
  BY DEF TwinRoutes, AssetRoutes, SensorRoutes, ModelRoutes, AlertRoutes

LEMMA RouteDomain == DOMAIN Routes = Commands
  BY RouteTable DEF Routes, Commands, Merge

LEMMA RouteRoles ==
    /\ \A k \in Commands : Routes[k] \in {Managers, Operators, {"ADMIN"}}
    /\ \A k \in DOMAIN SensorRoutes : Managers \subseteq Routes[k]
<1>1. \A k \in Commands : Routes[k] = IF k \in DOMAIN TwinRoutes THEN TwinRoutes[k]
                                   ELSE IF k \in DOMAIN AssetRoutes THEN AssetRoutes[k]
                                   ELSE IF k \in DOMAIN SensorRoutes THEN SensorRoutes[k]
                                   ELSE IF k \in DOMAIN ModelRoutes THEN ModelRoutes[k]
                                   ELSE AlertRoutes[k]
  BY RouteTable DEF Routes, Merge, Commands
<1>2. /\ \A k \in DOMAIN TwinRoutes : TwinRoutes[k] \in {Managers, {"ADMIN"}}
      /\ \A k \in DOMAIN AssetRoutes : AssetRoutes[k] \in {Managers, Operators}
      /\ \A k \in DOMAIN SensorRoutes : SensorRoutes[k] \in {Managers, Operators}
      /\ \A k \in DOMAIN ModelRoutes : ModelRoutes[k] \in {Managers, {"ADMIN"}}
      /\ \A k \in DOMAIN AlertRoutes : AlertRoutes[k] \in {Managers, Operators}
  BY DEF TwinRoutes, AssetRoutes, SensorRoutes, ModelRoutes, AlertRoutes
<1>3. DOMAIN SensorRoutes \subseteq Commands
  BY RouteTable DEF Commands
<1>4. DOMAIN SensorRoutes \cap (DOMAIN TwinRoutes \cup DOMAIN AssetRoutes) = {}
  BY RouteTable
<1>5. \A k \in DOMAIN SensorRoutes : Routes[k] = SensorRoutes[k]
  BY <1>1, <1>3, <1>4
<1>6. \A k \in Commands : k \notin DOMAIN TwinRoutes /\ k \notin DOMAIN AssetRoutes
          /\ k \notin DOMAIN SensorRoutes /\ k \notin DOMAIN ModelRoutes => k \in DOMAIN AlertRoutes
  BY RouteTable DEF Commands
<1> QED BY <1>1, <1>2, <1>5, <1>6 DEF Operators

LEMMA ChangesTable ==
    \A k \in Commands :
        /\ Changes(k) \in Lists
        /\ Changes(k) = "assets" <=> k \in DOMAIN AssetRoutes
        /\ Changes(k) = "sensors" <=> k \in DOMAIN SensorRoutes
        /\ Changes(k) = "models" <=> k \in DOMAIN ModelRoutes
        /\ Changes(k) = "alerts" <=> k \in DOMAIN AlertRoutes
        /\ Changes(k) = "twins" <=> k \in DOMAIN TwinRoutes
  BY RouteTable DEF Changes, Commands, Lists

\* A merged table has the entries of both, and no other values.
Into(f, S) == \A x \in DOMAIN f : f[x] \in S

LEMMA MergeInto ==
    \A f, g : /\ DOMAIN Merge(f, g) = DOMAIN f \cup DOMAIN g
              /\ \A S : Into(f, S) /\ Into(g, S) => Into(Merge(f, g), S)
  BY DEF Merge, Into

LEMMA AfterTwinsTable ==
    /\ DOMAIN AfterTwins = DOMAIN TwinRoutes \cup DOMAIN AssetRoutes
    /\ \A k \in DOMAIN TwinRoutes : AfterTwins[k] \in {Reload("twins"), Form("twins")}
    /\ \A k \in DOMAIN AssetRoutes : AfterTwins[k] \in {Reload("twin"), Form("twin")}
  BY RouteTable DEF AfterTwins, TwinsPageHandlers, EditTwinModal, EditAssetModal, Merge

LEMMA AfterSensorsTable ==
    /\ DOMAIN AfterSensors = DOMAIN SensorRoutes
    /\ \A k \in DOMAIN SensorRoutes : AfterSensors[k] \in {Reload("sensors"), Form("sensors"), Edit}
<1> DEFINE S == {Reload("sensors"), Form("sensors"), Edit}
<1>1. /\ DOMAIN SensorsPageHandlers = {"removeSensor"} /\ DOMAIN CreateSensorPanel = {"createSensor"}
      /\ DOMAIN EditSensorModal = {"updateSensor"} /\ DOMAIN SensorStore = {"control", "unbind", "deleteSensor"}
      /\ DOMAIN SaveThresholds = {"thresholds"} /\ DOMAIN BindingHandlers = {"createAndBind", "bind"}
  BY DEF SensorsPageHandlers, CreateSensorPanel, EditSensorModal, SensorStore, SaveThresholds,
         BindingHandlers
<1>2. /\ Into(SensorsPageHandlers, S) /\ Into(CreateSensorPanel, S) /\ Into(EditSensorModal, S)
      /\ Into(SensorStore, S) /\ Into(SaveThresholds, S) /\ Into(BindingHandlers, S)
  BY DEF Into, SensorsPageHandlers, CreateSensorPanel, EditSensorModal, SensorStore, SaveThresholds,
         BindingHandlers
<1> HIDE DEF S
<1>3. Into(AfterSensors, S)
  BY <1>2, MergeInto DEF AfterSensors
<1>4. DOMAIN AfterSensors = DOMAIN SensorRoutes
  <2>1. DOMAIN AfterSensors =
            DOMAIN SensorsPageHandlers \cup (DOMAIN CreateSensorPanel \cup (DOMAIN EditSensorModal
            \cup (DOMAIN SensorStore \cup (DOMAIN SaveThresholds \cup DOMAIN BindingHandlers))))
    BY DEF AfterSensors, Merge
  <2>2. DOMAIN SensorRoutes = {"createSensor", "updateSensor", "thresholds", "createAndBind", "bind",
                               "unbind", "removeSensor", "deleteSensor", "control"}
    BY RouteTable
  <2> QED BY <1>1, <2>1, <2>2
<1> QED BY <1>3, <1>4 DEF S, Into

LEMMA AfterModelsTable ==
    /\ DOMAIN AfterModels = DOMAIN ModelRoutes
    /\ \A k \in DOMAIN ModelRoutes : AfterModels[k] \in {Reload("models"), Form("models")}
  BY RouteTable DEF AfterModels, ModelsPageHandlers, UploadPanel, EditModal, UploadVersionModal, Merge

LEMMA AfterAlertsTable ==
    /\ DOMAIN AfterAlerts = DOMAIN AlertRoutes
    /\ \A k \in DOMAIN AlertRoutes : AfterAlerts[k] \in {Form("alerts"), Edit}
  BY RouteTable DEF AfterAlerts, AlertMutations, PanelHandlers, Merge

LEMMA AfterSensorsForms == After["createSensor"].once /\ After["updateSensor"].once
  BY RouteTable, AfterTwinsTable, AfterSensorsTable DEF After, AfterSensors,
     SensorsPageHandlers, CreateSensorPanel, EditSensorModal, SensorStore,
     SaveThresholds, BindingHandlers, Merge, Form

LEMMA AfterTable ==
    /\ DOMAIN After = Commands
    /\ \A k \in DOMAIN TwinRoutes : After[k] \in {Reload("twins"), Form("twins")}
    /\ \A k \in DOMAIN AssetRoutes : After[k] \in {Reload("twin"), Form("twin")}
    /\ \A k \in DOMAIN SensorRoutes : After[k] \in {Reload("sensors"), Form("sensors"), Edit}
    /\ \A k \in DOMAIN ModelRoutes : After[k] \in {Reload("models"), Form("models")}
    /\ \A k \in DOMAIN AlertRoutes : After[k] \in {Form("alerts"), Edit}
<1>1. DOMAIN After = DOMAIN AfterTwins \cup DOMAIN AfterSensors \cup DOMAIN AfterModels \cup DOMAIN AfterAlerts
  BY DEF After, Merge
<1>2. \A k \in DOMAIN After : After[k] = IF k \in DOMAIN AfterTwins THEN AfterTwins[k]
                                        ELSE IF k \in DOMAIN AfterSensors THEN AfterSensors[k]
                                        ELSE IF k \in DOMAIN AfterModels THEN AfterModels[k] ELSE AfterAlerts[k]
  BY DEF After, Merge
<1>3. DOMAIN After = Commands
  BY <1>1, RouteTable, AfterTwinsTable, AfterSensorsTable, AfterModelsTable, AfterAlertsTable DEF Commands
<1>4. DOMAIN AfterTwins \cap (DOMAIN AfterSensors \cup DOMAIN AfterModels \cup DOMAIN AfterAlerts) = {}
  BY RouteTable, AfterTwinsTable, AfterSensorsTable, AfterModelsTable, AfterAlertsTable
<1>5. /\ DOMAIN AfterSensors \cap (DOMAIN AfterModels \cup DOMAIN AfterAlerts) = {}
      /\ DOMAIN AfterModels \cap DOMAIN AfterAlerts = {}
  BY RouteTable, AfterSensorsTable, AfterModelsTable, AfterAlertsTable
<1>6. /\ \A k \in DOMAIN AfterTwins : After[k] = AfterTwins[k]
      /\ \A k \in DOMAIN AfterSensors : After[k] = AfterSensors[k]
      /\ \A k \in DOMAIN AfterModels : After[k] = AfterModels[k]
      /\ \A k \in DOMAIN AfterAlerts : After[k] = AfterAlerts[k]
  BY <1>1, <1>2, <1>4, <1>5
<1> QED BY <1>3, <1>6, AfterTwinsTable, AfterSensorsTable, AfterModelsTable, AfterAlertsTable

\* What a handler loads or edits is the list its command has changed.
LEMMA AfterThen ==
    \A k \in Commands :
        \/ After[k].then = "edit" /\ Changes(k) \in {"sensors", "alerts"}
        \/ After[k].then = Changes(k) /\ Changes(k) # "assets"
        \/ After[k].then = "twin" /\ Changes(k) = "assets"
<1> SUFFICES ASSUME NEW k \in Commands
             PROVE  \/ After[k].then = "edit" /\ Changes(k) \in {"sensors", "alerts"}
                    \/ After[k].then = Changes(k) /\ Changes(k) # "assets"
                    \/ After[k].then = "twin" /\ Changes(k) = "assets"
  OBVIOUS
<1>1. Changes(k) \in Lists
  BY ChangesTable
<1>2. \A l : Reload(l).then = l /\ Form(l).then = l
  BY DEF Reload, Form
<1>3. CASE Changes(k) = "twins"
  <2>1. k \in DOMAIN TwinRoutes
    BY <1>3, ChangesTable
  <2>2. After[k] \in {Reload("twins"), Form("twins")}
    BY <2>1, AfterTable
  <2> QED BY <1>3, <2>2 DEF Reload, Form
<1>4. CASE Changes(k) = "assets"
  BY <1>2, <1>4, AfterTable, ChangesTable
<1>5. CASE Changes(k) = "sensors"
  <2>1. k \in DOMAIN SensorRoutes
    BY <1>5, ChangesTable
  <2>2. After[k] \in {Reload("sensors"), Form("sensors"), Edit}
    BY <2>1, AfterTable
  <2> QED BY <1>5, <2>2 DEF Reload, Form, Edit
<1>6. CASE Changes(k) = "models"
  <2>1. k \in DOMAIN ModelRoutes
    BY <1>6, ChangesTable
  <2>2. After[k] \in {Reload("models"), Form("models")}
    BY <2>1, AfterTable
  <2> QED BY <1>6, <2>2 DEF Reload, Form
<1>7. CASE Changes(k) = "alerts"
  BY <1>2, <1>7, AfterTable, ChangesTable DEF Edit
<1> QED BY <1>1, <1>3, <1>4, <1>5, <1>6, <1>7 DEF Lists

LEMMA Handlers ==
    /\ \A k \in Commands : /\ Handler[k] \in Commands /\ Changes(Handler[k]) = Changes(k)
                           /\ After[Handler[k]] = After[k]
                           /\ After[k].once => Handler[k] = k
    /\ \A l \in Lists \cup {"twin"} : Handler[l] = l /\ l \notin Commands
<1>1. \A l \in Lists \cup {"twin"} : l \notin Commands
  BY DEF Lists, Commands
<1>2. \A w \in Lists \cup {"twin"} \cup Commands :
          Handler[w] = IF w \notin Commands \/ After[w].once THEN w
                       ELSE CHOOSE k \in Commands : After[k] = After[w] /\ Changes(k) = Changes(w)
  BY AfterTable DEF Handler
<1>3. ASSUME NEW k \in Commands, ~After[k].once
      PROVE  LET h == CHOOSE h \in Commands : After[h] = After[k] /\ Changes(h) = Changes(k)
             IN  h \in Commands /\ After[h] = After[k] /\ Changes(h) = Changes(k)
  OBVIOUS
<1> QED BY <1>1, <1>2, <1>3, AfterThen

\* Commands with one handler differ in their routes only where a page shows
\* the button to everyone.
LEMMA SharedHandlers ==
    ASSUME NEW j \in Commands \ Lax, NEW k \in Lax, Handler[j] = Handler[k]
    PROVE  k \in Commands /\ Routes[j] \subseteq Routes[k]
<1>1. k \in Commands
  BY RouteTable DEF Lax, Commands
<1>2. After[j] = After[k] /\ Changes(j) = Changes(k)
  BY <1>1, Handlers
<1>7. After[j].once => j = k
  <2> SUFFICES ASSUME After[j].once PROVE j = k
    OBVIOUS
  <2>1. After[k].once
    BY <1>2
  <2> QED BY <1>1, <2>1, Handlers
<1>3. j \in DOMAIN SensorRoutes \cup DOMAIN ModelRoutes
  BY RouteTable DEF Commands, Lax
<1>4. j \in DOMAIN SensorRoutes /\ k \in DOMAIN SensorRoutes /\ ~After[j].once
  BY <1>1, <1>2, <1>3, <1>7, RouteTable, ChangesTable DEF Lax
<1>5. j = "removeSensor"
  BY <1>4, RouteTable, AfterSensorsForms DEF Lax
<1>6. Routes["removeSensor"] = Managers
  BY RouteTable DEF Merge, Routes, SensorRoutes, TwinRoutes, AssetRoutes
<1> QED BY <1>1, <1>4, <1>5, <1>6, RouteRoles

\* The pages.
LEMMA PageTable ==
    /\ DOMAIN Pages = {"dashboard", "twins", "sensors", "testing", "models", "alerts", "viewer"}
    /\ DOMAIN Shows = DOMAIN Pages
    /\ \A p \in DOMAIN Pages : /\ Pages[p].mount \subseteq {"twins", "sensors", "models", "alerts"}
                               /\ \A l \in Pages[p].mount : Home(l, p)
<1>1. DOMAIN Pages = {"dashboard", "twins", "sensors", "testing", "models", "alerts", "viewer"}
  BY DEF Pages
<1>2. DOMAIN Shows = DOMAIN Pages
  BY <1>1 DEF Shows
<1>3. /\ Pages["dashboard"].mount = {"sensors", "twins"} /\ Pages["twins"].mount = {"twins"}
      /\ Pages["sensors"].mount = {"sensors"} /\ Pages["testing"].mount = {"sensors", "twins"}
      /\ Pages["models"].mount = {"models"} /\ Pages["alerts"].mount = {"alerts"}
      /\ Pages["viewer"].mount = {"sensors", "twins", "alerts"}
  BY DEF Pages, DashboardPage, TwinsPage, SensorsPage, SensorTestingPage, ModelsPage, AlertsPage, ViewerPage
<1> QED BY <1>1, <1>2, <1>3 DEF Home

LEMMA ShowsTable ==
    /\ Shows["dashboard"].shows = <<>>
    /\ Shows["twins"].shows = Merge(TwinsPage.shows, AssetTree)
    /\ Shows["sensors"].shows = SensorsPage.shows
    /\ Shows["testing"].shows = SensorTestingPage.shows
    /\ Shows["models"].shows = ModelsPage.shows
    /\ Shows["alerts"].shows = AlertsPage.shows
    /\ Shows["viewer"].shows = Merge(SensorLiveRow, Merge(LiveDataSlider,
                                   Merge(ContextSensorControls, Merge(SensorBindingPanel, AlertsPanel))))
<1>1. \A p \in DOMAIN Pages : Shows[p] = IF p = "twins" THEN [Pages[p] EXCEPT !.shows = Merge(@, AssetTree)]
                                         ELSE IF p = "viewer" THEN [Pages[p] EXCEPT !.shows = Shows["viewer"].shows]
                                         ELSE Pages[p]
  BY PageTable DEF Shows
<1>2. /\ Pages["dashboard"] = DashboardPage /\ Pages["twins"] = TwinsPage /\ Pages["sensors"] = SensorsPage
      /\ Pages["testing"] = SensorTestingPage /\ Pages["models"] = ModelsPage /\ Pages["alerts"] = AlertsPage
      /\ Pages["viewer"] = ViewerPage
  BY DEF Pages
<1>3. Shows["twins"].shows = Merge(TwinsPage.shows, AssetTree)
  BY <1>1, <1>2, PageTable DEF TwinsPage
<1>4. Shows["viewer"].shows = Merge(SensorLiveRow, Merge(LiveDataSlider,
                                   Merge(ContextSensorControls, Merge(SensorBindingPanel, AlertsPanel))))
  BY <1>2, PageTable DEF Shows, ViewerPage
<1> QED BY <1>1, <1>2, <1>3, <1>4, PageTable DEF DashboardPage

LEMMA Buttons ==
    ASSUME NEW p \in DOMAIN Shows, NEW k \in DOMAIN Shows[p].shows
    PROVE  /\ k \in Commands /\ Home(Changes(k), p)
           /\ k \notin Lax => Shows[p].shows[k] \subseteq Routes[k]
<1>1. /\ DOMAIN TwinsPage.shows = DOMAIN TwinRoutes
      /\ DOMAIN AssetTree = DOMAIN AssetRoutes
      /\ DOMAIN SensorsPage.shows = {"createSensor", "updateSensor", "removeSensor"}
      /\ DOMAIN SensorTestingPage.shows = {"control"}
      /\ DOMAIN ModelsPage.shows = DOMAIN ModelRoutes
      /\ DOMAIN AlertsPage.shows \subseteq DOMAIN AlertRoutes
      /\ DOMAIN AlertsPanel \subseteq DOMAIN AlertRoutes
  BY RouteTable DEF TwinsPage, AssetTree, SensorsPage, SensorTestingPage, ModelsPage, AlertsPage, AlertsPanel
<1>2. CASE p = "dashboard"
  BY <1>2, ShowsTable
<1>3. CASE p = "twins"
  <2>1. k \in DOMAIN TwinRoutes \cup DOMAIN AssetRoutes
    BY <1>1, <1>3, ShowsTable DEF Merge
  <2>2. k \in Commands /\ k \in Lax
    BY <2>1, RouteTable DEF Commands, Lax
  <2>3. Changes(k) \in {"twins", "assets"}
    BY <2>1, <2>2, ChangesTable
  <2> QED BY <2>2, <2>3 DEF Home
<1>4. CASE p = "sensors"
  <2>1. k \in {"createSensor", "updateSensor", "removeSensor"}
    BY <1>1, <1>4, ShowsTable
  <2>2. k \in Commands /\ Changes(k) = "sensors"
    BY <2>1, RouteTable, ChangesTable DEF Commands
  <2>3. SensorsPage.shows[k] = Routes[k]
    BY <2>1, RouteTable DEF Routes, Merge, SensorsPage, TwinRoutes, AssetRoutes, SensorRoutes, canEdit, canDelete
  <2> QED BY <1>4, <2>2, <2>3, ShowsTable DEF Home
<1>5. CASE p = "testing"
  <2>1. k = "control"
    BY <1>1, <1>5, ShowsTable
  <2>2. k \in Commands /\ Changes(k) = "sensors" /\ k \in Lax
    BY <2>1, RouteTable, ChangesTable DEF Commands, Lax
  <2> QED BY <2>2 DEF Home
<1>6. CASE p = "models"
  <2>1. k \in DOMAIN ModelRoutes
    BY <1>1, <1>6, ShowsTable
  <2>2. k \in Commands /\ Changes(k) = "models"
    BY <2>1, RouteTable, ChangesTable DEF Commands
  <2>3. ModelsPage.shows[k] = Routes[k]
    BY <2>1, RouteTable DEF Routes, Merge, ModelsPage, TwinRoutes, AssetRoutes, SensorRoutes, ModelRoutes, canUpload, canDelete
  <2> QED BY <1>6, <2>2, <2>3, ShowsTable DEF Home
<1>7. CASE p = "alerts"
  <2>1. k \in DOMAIN AlertRoutes
    BY <1>1, <1>7, ShowsTable
  <2>2. k \in Commands /\ Changes(k) = "alerts" /\ k \in Lax
    BY <2>1, RouteTable, ChangesTable DEF Commands, Lax
  <2> QED BY <1>7, <2>2 DEF Home
<1>8. CASE p = "viewer"
  <2>1. k \in {"unbind", "deleteSensor", "control", "thresholds", "createAndBind", "bind"} \cup DOMAIN AlertRoutes
    BY <1>1, <1>8, ShowsTable DEF Merge, SensorLiveRow, LiveDataSlider, ContextSensorControls, SensorBindingPanel
  <2>2. k \in Commands /\ k \in Lax /\ Changes(k) \in {"sensors", "alerts"}
    BY <2>1, RouteTable, ChangesTable DEF Commands, Lax
  <2> QED BY <1>8, <2>2 DEF Home
<1> QED BY <1>2, <1>3, <1>4, <1>5, <1>6, <1>7, <1>8, PageTable


-----------------------------------------------------------------------------
(* What a step does to the requests it does not answer.                    *)

\* The same request, which may have been overtaken or left by its page since.
Shadow(e, c) ==
    /\ e \in Request /\ e.is = c.is /\ e.what = c.what /\ e.twin = c.twin /\ e.by = c.by
    /\ e.at = c.at \/ (c.at = "sent" /\ e.at = "unauthorized")
    /\ (c.late => e.late) /\ (e.here => c.here)

\* From the requests cs to cs2: loads of ls are overtaken, those of gone are
\* cancelled, and new ones are added.
Follow(cs2, cs, ls, gone, new) ==
    /\ \A e \in cs2 : e \in new \/ \E c \in cs : Shadow(e, c) /\ (e.sees = c.sees \/ Committed(cs2, e.what))
    /\ \A c \in cs : c.is = "command" \/ c.what \notin gone =>
           \E e \in cs2 : Shadow(e, c) /\ (e.late = c.late \/ (c.is = "get" /\ c.what \in ls))
    /\ \A e \in cs2 : e.is = "get" /\ e.what \in ls => e.late \/ e \in new
    /\ \A e \in cs2 : e.is = "get" /\ e.what \in gone => e \in new
    /\ new \subseteq cs2

LEMMA ShadowRefl == \A c \in Request : Shadow(c, c)
  BY DEF Shadow

LEMMA FollowSame ==
    ASSUME NEW cs \in SUBSET Request, NEW new PROVE Follow(cs \cup new, cs, {}, {}, new)
  BY ShadowRefl DEF Follow

LEMMA FollowOvertaken ==
    ASSUME NEW cs \in SUBSET Request, NEW ls, NEW new
    PROVE  Follow(Overtaken(cs, ls) \cup new, cs, ls, {}, new)
<1> DEFINE f(c) == IF c.is = "get" /\ c.what \in ls THEN [c EXCEPT !.late = TRUE] ELSE c
           C == Overtaken(cs, ls) \cup new
<1>1. \A c \in cs : /\ f(c) \in Request /\ f(c).is = c.is /\ f(c).what = c.what /\ f(c).twin = c.twin
                    /\ f(c).by = c.by /\ f(c).at = c.at /\ f(c).here = c.here /\ f(c).sees = c.sees
                    /\ (c.is = "get" /\ c.what \in ls => f(c).late)
                    /\ (~(c.is = "get" /\ c.what \in ls) => f(c).late = c.late)
  BY DEF Request
<1>2. \A c \in cs : Shadow(f(c), c)
  BY <1>1 DEF Shadow
<1>3. Overtaken(cs, ls) = {f(c) : c \in cs}
  BY DEF Overtaken
<1> HIDE DEF f
<1>4. \A e \in C : e \in new \/ \E c \in cs : e = f(c)
  BY <1>3
<1>5. \A e \in C : e \in new \/ \E c \in cs : Shadow(e, c) /\ e.sees = c.sees
  BY <1>1, <1>2, <1>4
<1>6. \A c \in cs : f(c) \in C /\ Shadow(f(c), c) /\ (f(c).late = c.late \/ (c.is = "get" /\ c.what \in ls))
  BY <1>1, <1>2, <1>3
<1>7. \A e \in C : e.is = "get" /\ e.what \in ls => e.late \/ e \in new
  BY <1>1, <1>4
<1> HIDE DEF C
<1>8. new \subseteq C
  BY DEF C
<1>9. Follow(C, cs, ls, {}, new)
  BY <1>5, <1>6, <1>7, <1>8 DEF Follow
<1> QED BY <1>9 DEF C

LEMMA FollowKept ==
    ASSUME NEW cs \in SUBSET Request
    PROVE  /\ Follow(Kept(cs), cs, {}, Local, {}) /\ Kept(cs) \in SUBSET Request
           /\ \A e \in Kept(cs) : e.is = "command" => ~e.here
<1> DEFINE f(c) == IF c.is = "command" THEN [c EXCEPT !.here = FALSE] ELSE c
           D == {d \in cs : ~(d.is = "get" /\ d.what \in Local)}
<1>1. \A c \in cs : /\ f(c) \in Request /\ f(c).is = c.is /\ f(c).what = c.what /\ f(c).twin = c.twin
                    /\ f(c).by = c.by /\ f(c).at = c.at /\ f(c).sees = c.sees /\ f(c).late = c.late
                    /\ f(c).here = (c.here /\ c.is # "command")
  BY DEF Request
<1>2. \A c \in cs : Shadow(f(c), c)
  BY <1>1 DEF Shadow
<1>3. Kept(cs) = {f(c) : c \in D}
  BY DEF Kept
<1> HIDE DEF f
<1>4. \A e \in Kept(cs) : ~(e.is = "get" /\ e.what \in Local)
  BY <1>1, <1>3
<1>5. \A c \in cs : c.is = "command" \/ c.what \notin Local => f(c) \in Kept(cs)
  BY <1>3 DEF Request
<1>6. \A e \in Kept(cs) : \E c \in cs : e = f(c)
  BY <1>3
<1>7. \A e \in Kept(cs) : e \in Request /\ (e.is = "command" => ~e.here)
  BY ZenonT(30), <1>1, <1>6
<1>8. \A e \in Kept(cs) : \E c \in cs : Shadow(e, c) /\ e.sees = c.sees
  BY <1>1, <1>2, <1>6
<1>9. \A c \in cs : c.is = "command" \/ c.what \notin Local =>
          \E e \in Kept(cs) : Shadow(e, c) /\ e.late = c.late
  BY <1>1, <1>2, <1>5
<1> QED BY <1>4, <1>7, <1>8, <1>9 DEF Follow

LEMMA FollowVoid ==
    ASSUME NEW cs \in SUBSET Request
    PROVE  /\ Follow(Void(cs), cs, {}, {}, {}) /\ Void(cs) \in SUBSET Request
           /\ (\A c \in cs : c.is = "command" => ~c.here)
                  => \A e \in Void(cs) : e.is = "command" => ~e.here
<1> DEFINE f(c) == IF c.at = "sent" THEN [c EXCEPT !.at = "unauthorized"] ELSE c
<1>1. \A c \in cs : /\ f(c) \in Request /\ f(c).is = c.is /\ f(c).what = c.what /\ f(c).twin = c.twin
                    /\ f(c).by = c.by /\ f(c).at = (IF c.at = "sent" THEN "unauthorized" ELSE c.at)
                    /\ f(c).sees = c.sees /\ f(c).late = c.late /\ f(c).here = c.here
  BY DEF Request
<1>2. \A c \in cs : Shadow(f(c), c)
  BY <1>1 DEF Shadow
<1>3. Void(cs) = {f(c) : c \in cs}
  BY DEF Void
<1> HIDE DEF f
<1>4. \A e \in Void(cs) : \E c \in cs : e = f(c)
  BY <1>3
<1>5. \A e \in Void(cs) : \E c \in cs : Shadow(e, c) /\ e.sees = c.sees
  BY <1>1, <1>2, <1>4
<1>6. \A c \in cs : \E e \in Void(cs) : Shadow(e, c) /\ e.late = c.late
  BY <1>1, <1>2, <1>3
<1>7. \A e \in Void(cs) : \E c \in cs : e \in Request /\ e.is = c.is /\ e.here = c.here
  BY <1>1, <1>4
<1>8. Follow(Void(cs), cs, {}, {}, {})
  BY <1>5, <1>6 DEF Follow
<1> QED BY <1>7, <1>8

LEMMA FollowCancelled ==
    ASSUME NEW cs \in SUBSET Request, NEW p, NEW ws,
           NEW gone, gone = IF p = "alerts" /\ "alerts" \in ws THEN {"alerts"} ELSE {}
    PROVE  Follow(Cancelled(cs, p, ws), cs, {}, gone, {}) /\ Cancelled(cs, p, ws) \in SUBSET cs
<1>1. Cancelled(cs, p, ws) = {c \in cs : ~(c.is = "get" /\ c.what \in gone)}
  BY DEF Cancelled, Gets
<1>2. \A c \in cs : c.is = "command" \/ c.what \notin gone => ~(c.is = "get" /\ c.what \in gone)
  BY DEF Request
<1> QED BY <1>1, <1>2, ShadowRefl DEF Follow

LEMMA FollowTwice ==
    ASSUME NEW as, NEW bs, NEW cs, NEW g, NEW ls, NEW gone, NEW new,
           Follow(bs, as, {}, g, {}), Follow(cs, bs, ls, gone, new)
    PROVE  Follow(cs, as, ls, g \cup gone, new)
<1>1. \A a, b, c : Shadow(b, a) /\ Shadow(c, b) => Shadow(c, a)
  BY DEF Shadow, Request
<1>2. ASSUME NEW l, Committed(bs, l) PROVE Committed(cs, l)
  <2>1. PICK b \in bs : b.is = "command" /\ Changes(b.what) = l /\ b.at \in {"ok", "failed", "lost"}
    BY <1>2 DEF Committed
  <2>2. PICK c \in cs : Shadow(c, b)
    BY <2>1 DEF Follow
  <2> QED BY <2>1, <2>2 DEF Shadow, Committed
<1>3. ASSUME NEW c \in cs
      PROVE  c \in new \/ \E a \in as : Shadow(c, a) /\ (c.sees = a.sees \/ Committed(cs, c.what))
  <2> SUFFICES ASSUME c \notin new
               PROVE  \E a \in as : Shadow(c, a) /\ (c.sees = a.sees \/ Committed(cs, c.what))
    OBVIOUS
  <2>1. PICK b \in bs : Shadow(c, b) /\ (c.sees = b.sees \/ Committed(cs, c.what))
    BY DEF Follow
  <2>2. PICK a \in as : Shadow(b, a) /\ (b.sees = a.sees \/ Committed(bs, b.what))
    BY DEF Follow
  <2>3. c.what = b.what
    BY <2>1 DEF Shadow
  <2>4. Shadow(c, a)
    BY <1>1, <2>1, <2>2
  <2> QED BY <1>2, <2>1, <2>2, <2>3, <2>4
<1>4. ASSUME NEW a \in as, a.is = "command" \/ a.what \notin g \cup gone
      PROVE  \E c \in cs : Shadow(c, a) /\ (c.late = a.late \/ (a.is = "get" /\ a.what \in ls))
  <2>1. PICK b \in bs : Shadow(b, a) /\ b.late = a.late
    BY <1>4 DEF Follow
  <2>2. b.is = a.is /\ b.what = a.what
    BY <2>1 DEF Shadow
  <2>3. PICK c \in cs : Shadow(c, b) /\ (c.late = b.late \/ (b.is = "get" /\ b.what \in ls))
    BY <1>4, <2>2 DEF Follow
  <2> QED BY <1>1, <2>1, <2>2, <2>3
<1>5. ASSUME NEW c \in cs, c.is = "get", c.what \in g, c \notin new PROVE FALSE
  <2>1. PICK b \in bs : Shadow(c, b)
    BY <1>5 DEF Follow
  <2>2. b.is = "get" /\ b.what \in g
    BY <1>5, <2>1 DEF Shadow
  <2> QED BY <2>2 DEF Follow
<1>6. \A c \in cs : c.is = "get" /\ c.what \in g \cup gone => c \in new
  BY <1>5 DEF Follow
<1>7. new \subseteq cs /\ \A c \in cs : c.is = "get" /\ c.what \in ls => c.late \/ c \in new
  BY DEF Follow
<1> QED BY <1>3, <1>4, <1>6, <1>7 DEF Follow

\* The requests that pages and handlers send.
LEMMA NewGet ==
    ASSUME NEW w \in Lists \cup {"twin"}, NEW t \in Twins \cup {None}
    PROVE  /\ Get(w, t) \in Request /\ Get(w, t).is = "get" /\ Get(w, t).what = w /\ Get(w, t).twin = t
           /\ Get(w, t).at = "sent" /\ Get(w, t).by = None /\ ~Get(w, t).late
  BY DEF Get, Request

LEMMA NewCommand ==
    ASSUME NEW k \in Commands, NEW r \in Anyone
    PROVE  /\ Command(k, r) \in Request /\ Command(k, r).is = "command" /\ Command(k, r).what = k
           /\ Command(k, r).at = "sent" /\ Command(k, r).by = r /\ ~Command(k, r).late
  BY DEF Command, Get, Request

Cancels(p, ws) == IF p = "alerts" /\ "alerts" \in ws THEN {"alerts"} ELSE {}
GetsOf(ws, t) == {Get(w, t) : w \in ws}

LEMMA FollowAsked ==
    ASSUME NEW cs \in SUBSET Request, NEW p, NEW ws, NEW t
    PROVE  Follow(Asked(cs, p, ws, t), cs, ws, Cancels(p, ws), GetsOf(ws, t))
<1> DEFINE B == Cancelled(cs, p, ws)
<1>1. Follow(B, cs, {}, Cancels(p, ws), {}) /\ B \in SUBSET cs
  BY FollowCancelled DEF Cancels
<1>2. Follow(Overtaken(B, ws) \cup GetsOf(ws, t), B, ws, {}, GetsOf(ws, t))
  BY <1>1, FollowOvertaken
<1>3. Follow(Overtaken(B, ws) \cup GetsOf(ws, t), cs, ws, Cancels(p, ws) \cup {}, GetsOf(ws, t))
  BY <1>1, <1>2, FollowTwice
<1> QED BY <1>3 DEF Asked, GetsOf

\* Loading a twin's assets as well.
LEMMA FollowAskedAssets ==
    ASSUME NEW cs \in SUBSET Request, NEW p, NEW ws \in SUBSET (Lists \ {"assets"}), NEW t \in Twins \cup {None}, NEW u
    PROVE  Follow(Overtaken(Asked(cs, p, ws, t), {"assets"}) \cup {Get("assets", u)}, cs, ws \cup {"assets"},
                  Cancels(p, ws), GetsOf(ws, t) \cup {Get("assets", u)})
<1> DEFINE B == Cancelled(cs, p, ws)
           N == GetsOf(ws, t) \cup {Get("assets", u)}
           ls == ws \cup {"assets"}
           f(c) == IF c.is = "get" /\ c.what \in ws THEN [c EXCEPT !.late = TRUE] ELSE c
           g(c) == IF c.is = "get" /\ c.what \in {"assets"} THEN [c EXCEPT !.late = TRUE] ELSE c
           h(c) == IF c.is = "get" /\ c.what \in ls THEN [c EXCEPT !.late = TRUE] ELSE c
<1>1. Follow(B, cs, {}, Cancels(p, ws), {}) /\ B \in SUBSET cs
  BY FollowCancelled DEF Cancels
<1>2. \A c \in B : f(c).is = c.is /\ f(c).what = c.what
  BY <1>1 DEF Request
<1>3. \A c \in B : g(f(c)) = h(c)
  <2> SUFFICES ASSUME NEW c \in B PROVE g(f(c)) = h(c)
    OBVIOUS
  <2>1. CASE c.is = "get" /\ c.what \in ws
    BY <1>2, <2>1
  <2>2. CASE ~(c.is = "get" /\ c.what \in ws)
    BY <2>2
  <2> QED BY <2>1, <2>2
<1>4. \A n \in GetsOf(ws, t) : g(n) = n
  <2> SUFFICES ASSUME NEW w \in ws PROVE g(Get(w, t)) = Get(w, t)
    BY DEF GetsOf
  <2> QED BY NewGet
<1>5. Asked(cs, p, ws, t) = {f(c) : c \in B} \cup GetsOf(ws, t)
  BY DEF Asked, Overtaken, GetsOf
<1>6. Overtaken(Asked(cs, p, ws, t), {"assets"}) = {g(c) : c \in Asked(cs, p, ws, t)}
  BY DEF Overtaken
<1>7. Overtaken(B, ls) = {h(c) : c \in B}
  BY DEF Overtaken
<1> HIDE DEF f, g, h, B
<1>8. Overtaken(Asked(cs, p, ws, t), {"assets"}) = Overtaken(B, ls) \cup GetsOf(ws, t)
  <2>1. \A x \in Overtaken(Asked(cs, p, ws, t), {"assets"}) : \E n \in Asked(cs, p, ws, t) : x = g(n)
    BY <1>6
  <2>2. \A n \in Asked(cs, p, ws, t) : n \in GetsOf(ws, t) \/ \E c \in B : n = f(c)
    BY <1>5
  <2>3. \A x \in Overtaken(Asked(cs, p, ws, t), {"assets"}) : x \in GetsOf(ws, t) \/ \E c \in B : x = h(c)
    BY <1>3, <1>4, <2>1, <2>2
  <2>4. \A c \in B : h(c) \in Overtaken(Asked(cs, p, ws, t), {"assets"})
    BY <1>3, <1>5, <1>6
  <2>5. \A n \in GetsOf(ws, t) : n \in Overtaken(Asked(cs, p, ws, t), {"assets"})
    BY <1>4, <1>5, <1>6
  <2>6. \A x : x \in Overtaken(B, ls) <=> \E c \in B : x = h(c)
    BY <1>7
  <2> HIDE DEF N, ls
  <2> QED BY <2>3, <2>4, <2>5, <2>6
<1>9. Follow(Overtaken(B, ls) \cup N, B, ls, {}, N)
  BY <1>1, FollowOvertaken
<1>10. Follow(Overtaken(B, ls) \cup N, cs, ls, Cancels(p, ws) \cup {}, N)
  BY <1>1, <1>9, FollowTwice
<1>11. Overtaken(Asked(cs, p, ws, t), {"assets"}) \cup {Get("assets", u)} = Overtaken(B, ls) \cup N
  BY <1>8
<1> QED BY <1>10, <1>11

-----------------------------------------------------------------------------
(* What such a step keeps.                                                 *)

\* A request is out whose answer stops the spinner of l.
Loading(cs, l) == \E c \in cs : c.is = "get" /\ (c.what = l \/ (l = "twins" /\ c.what \in {"twin", "assets"}))

LEMMA SpinnerLoading == SpinnerEnds <=> \A l \in spin : Loading(calls, l)
  BY DEF SpinnerEnds, Loading

LEMMA FollowCommitted ==
    ASSUME NEW cs, NEW cs2, NEW ls, NEW gone, NEW new, Follow(cs2, cs, ls, gone, new),
           NEW l, Committed(cs, l)
    PROVE  Committed(cs2, l)
<1>1. PICK c \in cs : c.is = "command" /\ Changes(c.what) = l /\ c.at \in {"ok", "failed", "lost"}
  BY DEF Committed
<1>2. PICK e \in cs2 : Shadow(e, c)
  BY <1>1 DEF Follow
<1> QED BY <1>1, <1>2 DEF Shadow, Committed

LEMMA FollowFresh ==
    ASSUME NEW cs, NEW cs2, NEW ls, NEW gone, NEW new, Follow(cs2, cs, ls, gone, new),
           NEW l, l \notin ls \cup gone, NEW c \in Fresh(cs, l)
    PROVE  \E e \in Fresh(cs2, l) : e.twin = c.twin
  BY DEF Follow, Fresh, Gets, Shadow

LEMMA FollowPending ==
    ASSUME NEW cs, NEW cs2, NEW ls, NEW gone, NEW new, Follow(cs2, cs, ls, gone, new),
           NEW l, Pending(cs, l), l \notin ls \cup gone, l = "assets" => "twin" \notin ls \cup gone
    PROVE  Pending(cs2, l)
<1>1. CASE Committed(cs, l)
  BY <1>1, FollowCommitted DEF Pending
<1>2. CASE \E c \in Fresh(cs, l) : TRUE
  BY <1>2, FollowFresh DEF Pending
<1>3. CASE l = "assets" /\ \E c \in Fresh(cs, "twin") : TRUE
  BY <1>3, FollowFresh DEF Pending
<1> QED BY <1>1, <1>2, <1>3 DEF Pending

LEMMA FollowLoading ==
    ASSUME NEW cs, NEW cs2, NEW ls, NEW gone, NEW new, Follow(cs2, cs, ls, gone, new),
           NEW l, Loading(cs, l), l \notin gone, gone \cap {"twin", "assets"} = {}
    PROVE  Loading(cs2, l)
  BY DEF Loading, Follow, Shadow

LEMMA NewPending ==
    ASSUME NEW cs, NEW new, new \subseteq cs, NEW l, Pending(new, l) PROVE Pending(cs, l)
  BY DEF Pending, Fresh, Gets, Committed

\* Neither answer nor overtaking makes a snapshot from before a change count.
Snapshot(c) == c.is = "get" /\ c.what # "twin" /\ c.at = "ok" /\ ~c.sees /\ ~c.late
SnapshotsBut(cs, ls) == \A c \in cs : Snapshot(c) /\ c.what \notin ls => Committed(cs, c.what)

LEMMA SnapshotsSnap == SnapshotsOK <=> SnapshotsBut(calls, {})
  BY DEF SnapshotsOK, SnapshotsBut, Snapshot

LEMMA FollowSnapshots ==
    ASSUME NEW cs \in SUBSET Request, NEW cs2, NEW ls, NEW gone, NEW new, Follow(cs2, cs, ls, gone, new),
           SnapshotsBut(cs, ls), \A e \in new : ~Snapshot(e)
    PROVE  SnapshotsBut(cs2, {})
<1> SUFFICES ASSUME NEW e \in cs2, Snapshot(e) PROVE Committed(cs2, e.what)
  BY DEF SnapshotsBut
<1>1. e \notin new
  OBVIOUS
<1>2. e.what \notin ls
  BY <1>1 DEF Follow, Snapshot
<1>3. PICK c \in cs : Shadow(e, c) /\ (e.sees = c.sees \/ Committed(cs2, e.what))
  BY <1>1 DEF Follow
<1>4. CASE e.sees = c.sees
  <2>1. Snapshot(c) /\ c.what = e.what
    BY <1>3, <1>4 DEF Shadow, Snapshot
  <2>2. Committed(cs, e.what)
    BY <1>2, <2>1 DEF SnapshotsBut
  <2> QED BY <2>2, FollowCommitted
<1> QED BY <1>3, <1>4

\* Once a command is answered, what it changed counts as overtaken.
LEMMA SnapshotsLess ==
    ASSUME NEW c, NEW ls, SnapshotsOK,
           c.is = "command" /\ c.at \in {"ok", "failed", "lost"} => Changes(c.what) \in ls
    PROVE  SnapshotsBut(calls \ {c}, ls)
  BY DEF SnapshotsOK, SnapshotsBut, Snapshot, Committed

\* TypeOK without the requests.
VarsOK ==
    /\ role \in Anyone /\ user \in Anyone \cup {None} /\ session \in {"good", "expired", "none"}
    /\ page \in DOMAIN Pages \cup {"login", "blank"}
    /\ {behind, astray} \subseteq SUBSET Lists /\ spin \subseteq {"sensors", "twins", "models"}
    /\ {current, assetsOf, active} \subseteq Twins \cup {None} /\ borrowed \in BOOLEAN

LEMMA VarsCalls == /\ VarsOK /\ CallsOK => TypeOK
                   /\ TypeOK => VarsOK
  BY RouteDomain DEF VarsOK, CallsOK, TypeOK, Request, GetOK, CommandOK, Home

\* A user's role never comes back, and the requests that stay are as good on
\* the page that is shown next.
LEMMA CallsStep ==
    ASSUME CallsOK, NEW cs \in SUBSET calls, NEW ls, NEW gone, NEW new, Follow(calls', cs, ls, gone, new),
           role' \in {role, "VIEWER"}, current' = current \/ current' # None,
           \A l \in Lists \cup {"twin"} : l \notin gone /\ Home(l, page) => Home(l, page'),
           \A e \in calls' \ new : e.is = "command" /\ e.here => \A l \in Lists : Home(l, page) => Home(l, page'),
           \A e \in new : e \in Request /\ (e.is = "get" => GetOK(e)') /\ (e.is = "command" => CommandOK(e)')
    PROVE  CallsOK'
<1> SUFFICES ASSUME NEW e \in calls', e \notin new
             PROVE  e \in Request /\ (e.is = "get" => GetOK(e)') /\ (e.is = "command" => CommandOK(e)')
  BY DEF CallsOK
<1>1. PICK c \in cs : Shadow(e, c)
  BY DEF Follow
<1>2. c \in Request /\ (c.is = "get" => GetOK(c)) /\ (c.is = "command" => CommandOK(c))
  BY DEF CallsOK
<1>3. e \in Request
  BY <1>1 DEF Shadow
<1>4. ASSUME e.is = "get" PROVE GetOK(e)'
  <2>1. GetOK(c) /\ e.what = c.what /\ e.by = c.by /\ e.twin = c.twin /\ e.at # "denied"
    BY <1>1, <1>2, <1>4 DEF Shadow, GetOK
  <2>2. e.what \notin gone
    BY <1>4 DEF Follow
  <2> QED BY <2>1, <2>2 DEF GetOK
<1>5. ASSUME e.is = "command" PROVE CommandOK(e)'
  <2>1. CommandOK(c) /\ e.what = c.what /\ e.by = c.by /\ (e.here => c.here)
    BY <1>1, <1>2, <1>5 DEF Shadow
  <2>2. c.what \in Commands /\ Changes(c.what) \in Lists
    BY <2>1, ChangesTable DEF CommandOK
  <2>3. e.here => Home(Changes(e.what), page')
    BY <1>5, <2>1, <2>2 DEF CommandOK
  <2>4. e.at = "sent" => /\ e.by \in {role', "VIEWER"} \/ role' = "VIEWER"
                         /\ e.what \notin Lax => e.by \in Routes[e.what]
    BY <1>1, <2>1 DEF CommandOK, Shadow
  <2>5. ASSUME e.at = "denied"
        PROVE  \E k \in Commands : Handler[k] = e.what /\ role' \notin Routes[k] /\ (k \in Lax \/ role' = "VIEWER")
    <3>1. c.at = "denied"
      BY <1>1, <2>5 DEF Shadow
    <3>2. PICK k \in Commands : Handler[k] = c.what /\ role \notin Routes[k] /\ (k \in Lax \/ role = "VIEWER")
      BY <2>1, <3>1 DEF CommandOK
    <3>3. "VIEWER" \notin Routes[k]
      BY RouteRoles DEF Managers, Operators
    <3> QED BY <2>1, <3>2, <3>3
  <2>6. Changes(e.what) = "assets" => current' # None
    BY <2>1 DEF CommandOK
  <2> QED BY <2>1, <2>2, <2>3, <2>4, <2>5, <2>6 DEF CommandOK
<1> QED BY <1>3, <1>4, <1>5

\* A step that neither loads nor changes assets.
LEMMA AssetsStep ==
    ASSUME AssetsInv, NEW cs \in SUBSET calls, NEW ls, NEW gone, NEW new, Follow(calls', cs, ls, gone, new),
           borrowed => borrowed', current' = current, assetsOf' = assetsOf,
           "assets" \in astray => "assets" \in astray',
           ls \cap {"assets", "twin"} = {}, gone \cap {"assets", "twin"} = {},
           \A w \in {"assets", "twin"} : \A c \in Fresh(calls, w) : c \in cs \/ \E e \in Fresh(new, w) : TRUE,
           \A e \in Fresh(new, "assets") : borrowed' \/ \E c \in Fresh(calls, "assets") : e.twin = c.twin
    PROVE  AssetsInv'
<1> SUFFICES ASSUME ~borrowed'
             PROVE  /\ \A e \in Fresh(calls', "assets") : e.twin = current'
                    /\ current' # None => \/ assetsOf' = current' \/ "assets" \in astray'
                                          \/ Fresh(calls', "assets") # {} \/ Fresh(calls', "twin") # {}
  BY DEF AssetsInv
<1>1. ~borrowed
  OBVIOUS
<1>2. ASSUME NEW e \in Fresh(calls', "assets") PROVE e.twin = current'
  <2>1. CASE e \in new
    <3>1. e \in Fresh(new, "assets")
      BY <2>1, <1>2 DEF Fresh, Gets
    <3> QED BY <1>1, <3>1 DEF AssetsInv
  <2>2. CASE e \notin new
    <3>1. PICK c \in cs : Shadow(e, c)
      BY <2>2, <1>2 DEF Follow, Fresh, Gets
    <3>2. c \in Fresh(calls, "assets") /\ c.twin = e.twin
      BY <3>1, <1>2 DEF Fresh, Gets, Shadow
    <3> QED BY <1>1, <3>2 DEF AssetsInv
  <2> QED BY <2>1, <2>2
<1>3. ASSUME NEW w \in {"assets", "twin"}, Fresh(calls, w) # {} PROVE Fresh(calls', w) # {}
  <2>1. PICK c \in Fresh(calls, w) : TRUE
    BY <1>3
  <2>2. CASE c \in cs
    <3>1. c \in Fresh(cs, w)
      BY <2>1, <2>2 DEF Fresh, Gets
    <3> QED BY <3>1, FollowFresh
  <2>3. CASE \E e \in Fresh(new, w) : TRUE
    BY <2>3 DEF Fresh, Gets, Follow
  <2> QED BY <2>1, <2>2, <2>3
<1> QED BY <1>1, <1>2, <1>3 DEF AssetsInv

\* A step that has the assets loaded anew, or sees such a load fail.
LEMMA AssetsAnew ==
    ASSUME NEW cs, NEW ls, NEW gone, NEW new, Follow(calls', cs, ls, gone, new), "assets" \in ls,
           \A e \in Fresh(new, "assets") : e.twin = current',
           "assets" \in astray' \/ \E w \in {"assets", "twin"} : \E e \in Fresh(new, w) : TRUE
    PROVE  AssetsInv'
<1>1. \A e \in Fresh(calls', "assets") : e \in Fresh(new, "assets")
  BY DEF Follow, Fresh, Gets
<1>2. \A w : Fresh(new, w) \subseteq Fresh(calls', w)
  BY DEF Follow, Fresh, Gets
<1> QED BY <1>1, <1>2 DEF AssetsInv

LEMMA ConStep ==
    ASSUME ConInv, NEW cs \in SUBSET calls, NEW ls, NEW gone, NEW new, Follow(calls', cs, ls, gone, new),
           VarsOK', user' \in {role', None} \/ role' = "VIEWER",
           CallsOK', AssetsInv',
           SnapshotsBut(cs, ls), \A e \in new : ~Snapshot(e),
           \A l \in behind' \ astray' :
               \/ Pending(new, l)
               \/ Pending(cs, l) /\ l \notin ls \cup gone /\ (l = "assets" => "twin" \notin ls \cup gone),
           gone \cap {"twin", "assets"} = {},
           \A l \in spin' : Loading(new, l) \/ (Loading(cs, l) /\ l \notin gone)
    PROVE  ConInv'
<1>1. TypeOK'
  <2>1. (VarsOK /\ CallsOK => TypeOK)'
    BY VarsCalls, PTL
  <2> QED BY <2>1
<1>2. SnapshotsOK'
  <2>1. cs \in SUBSET Request
    BY DEF ConInv, CallsOK
  <2>2. SnapshotsBut(calls', {})
    BY <2>1, FollowSnapshots
  <2> QED BY <2>2 DEF SnapshotsOK, SnapshotsBut, Snapshot
<1>3. WritesInv'
  <2>1. ASSUME NEW l \in behind', l \notin astray' PROVE Pending(calls', l)
    <3>1. CASE Pending(new, l)
      BY <3>1, NewPending DEF Follow
    <3>2. CASE ~Pending(new, l)
      <4>1. Pending(cs, l) /\ l \notin ls \cup gone /\ (l = "assets" => "twin" \notin ls \cup gone)
        BY <2>1, <3>2
      <4> QED BY <4>1, FollowPending
    <3> QED BY <3>1, <3>2
  <2> QED BY <2>1 DEF WritesInv
<1>4. SpinnerEnds'
  <2>1. ASSUME NEW l \in spin' PROVE Loading(calls', l)
    <3>1. CASE Loading(new, l)
      BY <3>1 DEF Loading, Follow
    <3>2. CASE Loading(cs, l) /\ l \notin gone
      BY <3>2, FollowLoading
    <3> QED BY <2>1, <3>1, <3>2
  <2> QED BY <2>1 DEF SpinnerEnds, Loading
<1> QED BY <1>1, <1>2, <1>3, <1>4 DEF ConInv

-----------------------------------------------------------------------------
(* Moving about.                                                           *)
LEMMA ConFacts ==
    ASSUME ConInv
    PROVE  /\ VarsOK /\ CallsOK /\ calls \in SUBSET Request /\ AssetsInv
           /\ SnapshotsBut(calls, {})
           /\ \A l \in behind : l \in astray \/ Pending(calls, l)
           /\ \A l \in spin : Loading(calls, l)
           /\ user \in {role, None} \/ role = "VIEWER"
<1>1. calls \in SUBSET Request
  BY DEF ConInv, CallsOK
<1> QED BY <1>1, VarsCalls, SpinnerLoading, SnapshotsSnap DEF ConInv, WritesInv

LEMMA Sent ==
    ASSUME NEW w \in Lists \cup {"twin"}, NEW t \in Twins \cup {None}, NEW new, Get(w, t) \in new
    PROVE  /\ Pending(new, w) /\ Loading(new, w)
           /\ w = "twin" => Pending(new, "assets") /\ Loading(new, "twins")
<1>1. Get(w, t) \in Fresh(new, w)
  BY NewGet DEF Fresh, Gets
<1> QED BY <1>1, NewGet DEF Pending, Loading

LEMMA SentGets ==
    ASSUME NEW ws \in SUBSET (Lists \cup {"twin"}), NEW t \in Twins \cup {None}
    PROVE  /\ \A e \in GetsOf(ws, t) : /\ e \in Request /\ e.is = "get" /\ e.what \in ws /\ e.twin = t
                                       /\ e.at = "sent" /\ e.by = None /\ ~Snapshot(e)
           /\ \A w \in ws : Get(w, t) \in GetsOf(ws, t)
  BY NewGet DEF GetsOf, Snapshot

\* The tab is as it has just been loaded.
Start(ws) ==
    /\ VarsOK /\ (user \in {role, None} \/ role = "VIEWER") /\ calls = GetsOf(ws, None)
    /\ behind = {} /\ astray = {} /\ current = None /\ borrowed = FALSE
    /\ spin \subseteq ws /\ \A l \in ws : Home(l, page)

Started == \E ws \in SUBSET (Lists \ {"assets"}) : Start(ws)

LEMMA Starts == Started => ConInv
<1> SUFFICES ASSUME NEW ws \in SUBSET (Lists \ {"assets"}), Start(ws) PROVE ConInv
  BY DEF Started
<1> USE DEF Start
<1>1. /\ \A e \in calls : /\ e \in Request /\ e.is = "get" /\ e.what \in ws /\ e.twin = None
                          /\ e.at = "sent" /\ e.by = None /\ ~Snapshot(e)
      /\ \A w \in ws : Get(w, None) \in calls
  BY SentGets
<1>2. CallsOK
  BY <1>1 DEF CallsOK, GetOK, Lists
<1>3. TypeOK
  BY <1>2, VarsCalls
<1>4. SnapshotsOK
  BY <1>1 DEF SnapshotsOK, Snapshot
<1>5. AssetsInv
  BY <1>1 DEF AssetsInv, Fresh, Gets
<1>6. WritesInv
  BY DEF WritesInv
<1>7. SpinnerEnds
  BY <1>1, Sent, SpinnerLoading
<1> QED BY <1>2, <1>3, <1>4, <1>5, <1>6, <1>7 DEF ConInv

LEMMA MountFollow ==
    ASSUME NEW cs \in SUBSET Request, NEW g, Follow(cs, calls, {}, g, {}),
           NEW p \in DOMAIN Pages, Mount(cs, p), active \in Twins \cup {None},
           NEW as, as = IF p = "viewer" /\ active # None THEN {"assets"} ELSE {}
    PROVE  /\ Follow(calls', cs, Pages[p].mount \cup as, Cancels(p, Pages[p].mount),
                     GetsOf(Pages[p].mount, None) \cup GetsOf(as, active))
           /\ Follow(calls', calls, Pages[p].mount \cup as, g \cup Cancels(p, Pages[p].mount),
                     GetsOf(Pages[p].mount, None) \cup GetsOf(as, active))
<1> DEFINE ws == Pages[p].mount
           new == GetsOf(ws, None) \cup GetsOf(as, active)
<1>1. ws \in SUBSET (Lists \ {"assets"})
  BY PageTable DEF Lists
<1>2. ASSUME p = "viewer" /\ active # None PROVE Follow(calls', cs, ws \cup as, Cancels(p, ws), new)
  <2>1. as = {"assets"} /\ GetsOf(as, active) = {Get("assets", active)}
    BY <1>2 DEF GetsOf
  <2>2. calls' = Overtaken(Asked(cs, p, ws, None), {"assets"}) \cup {Get("assets", active)}
    BY <1>2 DEF Mount
  <2>3. Follow(calls', cs, ws \cup {"assets"}, Cancels(p, ws), new)
    BY <1>1, <2>1, <2>2, FollowAskedAssets
  <2> QED BY <2>1, <2>3
<1>3. ASSUME ~(p = "viewer" /\ active # None) PROVE Follow(calls', cs, ws \cup as, Cancels(p, ws), new)
  <2>1. as = {} /\ GetsOf(as, active) = {}
    BY <1>3 DEF GetsOf
  <2>2. calls' = Asked(cs, p, ws, None)
    BY <1>3 DEF Mount
  <2>3. Follow(calls', cs, ws, Cancels(p, ws), new)
    BY <1>1, <2>1, <2>2, FollowAsked
  <2>4. ws \cup as = ws
    BY <2>1
  <2> QED BY <2>3, <2>4
<1>4. Follow(calls', cs, ws \cup as, Cancels(p, ws), new)
  BY <1>2, <1>3
<1> HIDE DEF ws, new
<1>5. Follow(calls', calls, ws \cup as, g \cup Cancels(p, ws), new)
  BY <1>4, FollowTwice
<1> QED BY <1>4, <1>5 DEF ws, new

LEMMA MountStep ==
    ASSUME ConInv, NEW cs \in SUBSET Request, NEW g \in SUBSET Local, Follow(cs, calls, {}, g, {}),
           NEW p \in DOMAIN Pages, Mount(cs, p), role' = role, user' \in {user, role},
           session' \in {"good", "expired", "none"},
           \A l \in Lists \cup {"twin"} : l \notin g /\ Home(l, page) => Home(l, p),
           page # "login" => \A e \in cs : e.is = "command" => ~e.here
    PROVE  ConInv'
<1> DEFINE ws == Pages[p].mount
           as == IF p = "viewer" /\ active # None THEN {"assets"} ELSE {}
           new == GetsOf(ws, None) \cup GetsOf(as, active)
           gone == g \cup Cancels(p, ws)
<1>1. /\ ws \subseteq {"twins", "sensors", "models", "alerts"} /\ \A l \in ws : Home(l, p)
  BY PageTable
<1>2. VarsOK /\ CallsOK /\ AssetsInv /\ SnapshotsBut(calls, {})
  BY ConFacts
<1>3. active \in Twins \cup {None} /\ (as # {} => active \in Twins)
  BY <1>2 DEF VarsOK
<1>4. Follow(calls', calls, ws \cup as, gone, new) /\ Follow(calls', cs, ws \cup as, Cancels(p, ws), new)
  BY <1>3, MountFollow
<1>5. gone \subseteq Local /\ Local = {"models", "alerts"}
  BY DEF Cancels, Local
<1>6. /\ \A e \in new : /\ e \in Request /\ e.is = "get" /\ e.what \in ws \cup as /\ e.at = "sent" /\ e.by = None
                        /\ ~Snapshot(e) /\ (e.what \in as => e.twin = active)
      /\ \A w \in ws : Get(w, None) \in new
      /\ \A w \in as : Get(w, active) \in new
  <2>1. ws \in SUBSET (Lists \cup {"twin"}) /\ as \in SUBSET (Lists \cup {"twin"}) /\ ws \cap as = {}
    BY <1>1 DEF Lists
  <2> HIDE DEF ws, as
  <2>2. /\ \A e \in GetsOf(ws, None) : /\ e \in Request /\ e.is = "get" /\ e.what \in ws
                                       /\ e.at = "sent" /\ e.by = None /\ ~Snapshot(e)
        /\ \A w \in ws : Get(w, None) \in GetsOf(ws, None)
    BY <2>1, SentGets
  <2>3. /\ \A e \in GetsOf(as, active) : /\ e \in Request /\ e.is = "get" /\ e.what \in as /\ e.twin = active
                                         /\ e.at = "sent" /\ e.by = None /\ ~Snapshot(e)
        /\ \A w \in as : Get(w, active) \in GetsOf(as, active)
    BY <1>3, <2>1, SentGets
  <2> QED BY <2>1, <2>2, <2>3
<1>7. /\ page' = p /\ behind' = behind \ Local /\ astray' = astray \ Local
      /\ spin' = (spin \ {"models"}) \cup Spun(ws)
      /\ UNCHANGED <<current, assetsOf, active>> /\ (borrowed => borrowed') /\ (~borrowed' => as = {})
      /\ borrowed' \in BOOLEAN
  BY <1>2 DEF Mount, VarsOK
<1>8. Spun(ws) = ws \cap {"sensors", "twins", "models"}
  BY <1>1 DEF Spun
<1> HIDE DEF ws, as, new, gone
<1>9. VarsOK' /\ (user' \in {role', None} \/ role' = "VIEWER")
  <2>1. user' \in Anyone \cup {None}
    BY <1>2 DEF VarsOK
  <2>2. {behind', astray'} \subseteq SUBSET Lists /\ spin' \subseteq {"sensors", "twins", "models"}
    BY <1>2, <1>7, <1>8 DEF VarsOK
  <2> QED BY <1>2, <1>7, <2>1, <2>2, ConFacts DEF VarsOK
<1>10. CallsOK'
  <2>1. \A l \in Lists \cup {"twin"} : l \notin gone /\ Home(l, page) => Home(l, page')
    BY <1>7 DEF gone
  <2>2. \A e \in calls' \ new : e.is = "command" /\ e.here => \A l \in Lists : Home(l, page) => Home(l, page')
    <3> SUFFICES ASSUME NEW e \in calls' \ new, e.is = "command", e.here, NEW l \in Lists, Home(l, page)
                 PROVE  Home(l, page')
      OBVIOUS
    <3>1. PICK c \in calls : Shadow(e, c)
      BY <1>4 DEF Follow
    <3>2. c.here
      BY <3>1 DEF Shadow
    <3>3. CASE page = "login"
      BY <3>3, <1>7 DEF Home
    <3>4. CASE page # "login"
      <4>1. PICK d \in cs : Shadow(e, d)
        BY <1>4 DEF Follow
      <4>2. d.is = "command" /\ d.here
        BY <4>1 DEF Shadow
      <4> QED BY <3>4, <4>2
    <3> QED BY <3>3, <3>4
  <2>3. \A e \in new : GetOK(e)'
    <3> SUFFICES ASSUME NEW e \in new PROVE GetOK(e)'
      OBVIOUS
    <3>1. e.by = None /\ e.at = "sent" /\ e.what \in ws \cup {"assets"}
      BY <1>6 DEF as
    <3>2. e.what \in Lists /\ e.what # "twin" /\ Home(e.what, p)
      BY <1>1, <3>1 DEF Lists, Home
    <3> QED BY <1>7, <3>1, <3>2 DEF GetOK
  <2> QED BY <1>2, <1>4, <1>6, <1>7, <2>1, <2>2, <2>3, CallsStep
<1>11. AssetsInv'
  <2>1. CASE borrowed'
    BY <2>1 DEF AssetsInv
  <2>2. CASE ~borrowed'
    <3>1. as = {} /\ "assets" \notin ws /\ "twin" \notin ws /\ gone \cap {"assets", "twin"} = {}
      BY <1>1, <1>5, <1>7, <2>2
    <3>2. \A e \in Fresh(new, "assets") : FALSE
      BY <1>6, <3>1 DEF Fresh, Gets
    <3>3. \A w \in {"assets", "twin"} : \A c \in Fresh(calls, w) : c \in calls
      BY DEF Fresh, Gets
    <3>4. "assets" \in astray => "assets" \in astray'
      BY <1>5, <1>7
    <3> QED BY <1>2, <1>4, <1>7, <3>1, <3>2, <3>3, <3>4, AssetsStep
  <2> QED BY <2>1, <2>2
<1>12. \A w \in ws : Pending(new, w) /\ Loading(new, w)
  BY <1>1, <1>6, Sent DEF Lists
<1>13. \A l \in behind' \ astray' :
           \/ Pending(new, l)
           \/ Pending(calls, l) /\ l \notin ws \cup as \cup gone /\ (l = "assets" => "twin" \notin ws \cup as \cup gone)
  <2> SUFFICES ASSUME NEW l \in behind' \ astray', ~Pending(new, l)
               PROVE  Pending(calls, l) /\ l \notin ws \cup as \cup gone /\ "twin" \notin ws \cup as \cup gone
    OBVIOUS
  <2>1. l \in behind /\ l \notin Local /\ l \notin astray
    BY <1>7
  <2>2. Pending(calls, l)
    BY <2>1, ConFacts
  <2>3. l \notin ws
    BY <1>12
  <2>4. l \notin as /\ "twin" \notin as
    BY <1>3, <1>6, Sent DEF as, Lists
  <2> QED BY <1>1, <1>5, <2>1, <2>2, <2>3, <2>4
<1>14. \A l \in spin' : Loading(new, l) \/ (Loading(calls, l) /\ l \notin gone)
  <2> SUFFICES ASSUME NEW l \in spin', l \notin ws PROVE Loading(calls, l) /\ l \notin gone
    BY <1>12
  <2>1. l \in spin /\ l # "models" /\ l # "alerts"
    BY <1>2, <1>7, <1>8 DEF VarsOK
  <2> QED BY <1>5, <2>1, ConFacts
<1>15. SnapshotsBut(calls, ws \cup as)
  BY <1>2 DEF SnapshotsBut
<1> QED BY <1>2, <1>4, <1>5, <1>6, <1>9, <1>10, <1>11, <1>13, <1>14, <1>15, ConStep

LEMMA LoginStep == ConInv /\ Login => ConInv'
<1> SUFFICES ASSUME ConInv, Login PROVE ConInv'
  OBVIOUS
<1>1. calls \in SUBSET Request
  BY ConFacts
<1>2. Follow(calls, calls, {}, {}, {})
  <2>1. calls \cup {} = calls
    OBVIOUS
  <2>2. \A new : Follow(calls \cup new, calls, {}, {}, new)
    BY <1>1, FollowSame
  <2> QED BY <2>1, <2>2
<1>3. page = "login" /\ Mount(calls, "dashboard") /\ role' = role /\ user' = role /\ session' = "good"
  BY DEF Login
<1>4. "dashboard" \in DOMAIN Pages
  BY PageTable
<1>5. \A l \in Lists \cup {"twin"} : l \notin {} /\ Home(l, page) => Home(l, "dashboard")
  BY <1>3 DEF Home
<1> QED BY <1>1, <1>2, <1>3, <1>4, <1>5, MountStep

LEMMA OpenStep == ASSUME NEW p \in DOMAIN Pages PROVE ConInv /\ Open(p) => ConInv'
<1> SUFFICES ASSUME ConInv, Open(p) PROVE ConInv'
  OBVIOUS
<1>1. calls \in SUBSET Request
  BY ConFacts
<1>2. /\ Follow(Kept(calls), calls, {}, Local, {}) /\ Kept(calls) \in SUBSET Request
      /\ \A e \in Kept(calls) : e.is = "command" => ~e.here
  BY <1>1, FollowKept
<1>3. Mount(Kept(calls), p) /\ role' = role /\ user' = user /\ session' = session
  BY DEF Open
<1>4. \A l \in Lists \cup {"twin"} : l \notin Local /\ Home(l, page) => Home(l, p)
  BY DEF Home, Local
<1>5. session' \in {"good", "expired", "none"}
  BY <1>3, ConFacts DEF VarsOK
<1> QED BY <1>2, <1>3, <1>4, <1>5, MountStep

\* A step that asks for nothing: the page stays, or is left.
LEMMA QuietStep ==
    ASSUME ConInv, NEW gone \in {{}, Local}, Follow(calls', calls, {}, gone, {}),
           VarsOK', user' \in {role', None} \/ role' = "VIEWER", role' \in {role, "VIEWER"},
           UNCHANGED <<current, assetsOf, borrowed>>, behind' = behind \ gone, astray' = astray \ gone,
           spin' = spin \ (gone \cap {"models"}),
           page' = page \/ (gone = Local /\ \A e \in calls' : e.is = "command" => ~e.here)
    PROVE  ConInv'
<1>1. VarsOK /\ CallsOK /\ AssetsInv /\ SnapshotsBut(calls, {})
  BY ConFacts
<1>2. gone \cap {"assets", "twin", "sensors", "twins"} = {}
  BY DEF Local
<1>3. CallsOK'
  <2>1. \A l \in Lists \cup {"twin"} : l \notin gone /\ Home(l, page) => Home(l, page')
    BY DEF Home, Local
  <2>2. \A e \in calls' \ {} : e.is = "command" /\ e.here => \A l \in Lists : Home(l, page) => Home(l, page')
    OBVIOUS
  <2> QED BY <1>1, <2>1, <2>2, CallsStep
<1>4. AssetsInv'
  <2>1. \A w \in {"assets", "twin"} : \A c \in Fresh(calls, w) : c \in calls
    BY DEF Fresh, Gets
  <2>2. \A e \in Fresh({}, "assets") : FALSE
    BY DEF Fresh, Gets
  <2> QED BY <1>1, <1>2, <2>1, <2>2, AssetsStep
<1>5. \A l \in behind' \ astray' :
          Pending(calls, l) /\ l \notin {} \cup gone /\ (l = "assets" => "twin" \notin {} \cup gone)
  BY <1>2, ConFacts
<1>6. \A l \in spin' : Loading(calls, l) /\ l \notin gone
  <2> SUFFICES ASSUME NEW l \in spin' PROVE Loading(calls, l) /\ l \notin gone
    OBVIOUS
  <2>1. l \in spin /\ l \in {"sensors", "twins", "models"}
    BY <1>1 DEF VarsOK
  <2>2. l \notin gone
    BY <1>2, <2>1
  <2> QED BY <2>1, <2>2, ConFacts
<1> QED BY <1>1, <1>2, <1>3, <1>4, <1>5, <1>6, ConStep

LEMMA FollowLinkStep == ConInv /\ FollowLink => ConInv'
<1> SUFFICES ASSUME ConInv, FollowLink PROVE ConInv'
  OBVIOUS
<1>1. VarsOK /\ calls \in SUBSET Request /\ (user \in {role, None} \/ role = "VIEWER")
  BY ConFacts
<1>2. /\ Follow(Kept(calls), calls, {}, Local, {})
      /\ \A e \in Kept(calls) : e.is = "command" => ~e.here
  BY <1>1, FollowKept
<1>3. VarsOK'
  BY <1>1 DEF VarsOK, FollowLink
<1>4. "models" \in Local
  BY DEF Local
<1>5. spin' = spin \ (Local \cap {"models"})
  BY <1>4 DEF FollowLink
<1> QED BY <1>1, <1>2, <1>3, <1>5, QuietStep DEF FollowLink

LEMMA LogoutStep == ConInv /\ Logout => ConInv'
<1> SUFFICES ASSUME ConInv, Logout PROVE ConInv'
  OBVIOUS
<1>1. VarsOK /\ calls \in SUBSET Request /\ (user \in {role, None} \/ role = "VIEWER")
  BY ConFacts
<1>2. /\ Follow(Kept(calls), calls, {}, Local, {}) /\ Kept(calls) \in SUBSET Request
      /\ \A e \in Kept(calls) : e.is = "command" => ~e.here
  BY <1>1, FollowKept
<1>3. /\ Follow(Void(Kept(calls)), Kept(calls), {}, {}, {})
      /\ \A e \in Void(Kept(calls)) : e.is = "command" => ~e.here
  BY <1>2, FollowVoid
<1>4. Follow(Void(Kept(calls)), calls, {}, Local \cup {}, {})
  BY <1>2, <1>3, FollowTwice
<1>5. Local \cup {} = Local
  OBVIOUS
<1>6. Follow(calls', calls, {}, Local, {}) /\ \A e \in calls' : e.is = "command" => ~e.here
  BY <1>2, <1>3, <1>4, <1>5 DEF Logout
<1>7. VarsOK'
  BY <1>1 DEF VarsOK, Logout
<1>8. spin' = spin \ (Local \cap {"models"})
  BY DEF Logout, Local
<1> QED BY <1>6, <1>7, <1>8, QuietStep DEF Logout

LEMMA DemoteStep == ConInv /\ Demote => ConInv'
<1> SUFFICES ASSUME ConInv, Demote PROVE ConInv'
  OBVIOUS
<1>1. VarsOK /\ calls \in SUBSET Request
  BY ConFacts
<1>2. \A new : Follow(calls \cup new, calls, {}, {}, new)
  BY <1>1, FollowSame
<1>3. calls' = calls \cup {} /\ UNCHANGED <<user, session, page, stores>> /\ role' = "VIEWER"
  BY DEF Demote
<1>4. Follow(calls', calls, {}, {}, {})
  BY <1>2, <1>3
<1>5. VarsOK'
  BY <1>1, <1>3 DEF VarsOK, stores, Anyone
<1> QED BY <1>3, <1>4, <1>5, QuietStep DEF stores

LEMMA ExpireStep == ConInv /\ Expire => ConInv'
<1> SUFFICES ASSUME ConInv, Expire PROVE ConInv'
  OBVIOUS
<1>1. VarsOK /\ calls \in SUBSET Request /\ (user \in {role, None} \/ role = "VIEWER")
  BY ConFacts
<1>2. Follow(calls', calls, {}, {}, {})
  BY <1>1, FollowVoid DEF Expire
<1>3. UNCHANGED <<role, user, page, stores>> /\ session' = "expired"
  BY DEF Expire
<1>4. VarsOK'
  BY <1>1, <1>3 DEF VarsOK, stores
<1> QED BY <1>1, <1>2, <1>3, <1>4, QuietStep DEF stores

LEMMA InitCon == Init => ConInv
<1> SUFFICES ASSUME Init PROVE ConInv
  OBVIOUS
<1>1. CASE page = "login"
  <2>1. calls = {} /\ user = None /\ session = "none" /\ spin = {}
    BY <1>1, PageTable DEF Init
  <2>2. Start({})
    BY <1>1, <2>1 DEF Init, Start, VarsOK, GetsOf
  <2> QED BY <2>2, Starts DEF Started
<1>2. CASE page # "login"
  <2> DEFINE ws == Pages[page].mount
  <2>1. /\ page \in DOMAIN Pages /\ user = role /\ session = "good"
        /\ calls = Asked({}, page, ws, None) /\ spin = Spun(ws)
    BY <1>2 DEF Init
  <2>2. /\ ws \subseteq {"twins", "sensors", "models", "alerts"} /\ \A l \in ws : Home(l, page)
    BY <2>1, PageTable
  <2>3. calls = GetsOf(ws, None) /\ spin = ws \cap {"sensors", "twins", "models"}
    BY <2>1, <2>2 DEF Asked, Overtaken, Cancelled, GetsOf, Spun
  <2> HIDE DEF ws
  <2>4. Start(ws)
    BY <2>1, <2>2, <2>3 DEF Init, Start, VarsOK
  <2>5. ws \in SUBSET Lists /\ "assets" \notin ws
    BY <2>2 DEF Lists
  <2> QED BY <2>4, <2>5, Starts DEF Started
<1> QED BY <1>1, <1>2

LEMMA RefreshStep == ConInv /\ Refresh => ConInv'
<1> SUFFICES ASSUME ConInv, Refresh PROVE ConInv'
  OBVIOUS
<1> PICK ws : ws = Pages[page].mount
  OBVIOUS
<1>1. VarsOK
  BY ConFacts
<1>2. page \in DOMAIN Pages /\ page' = page /\ user' = None /\ role' = role /\ session' = session
  BY <1>1 DEF Refresh, VarsOK
<1>3. calls' = Asked({}, page, ws, None) /\ spin' = Spun(ws) /\ StoresEmpty
  BY DEF Refresh
<1>4. ws \subseteq {"twins", "sensors", "models", "alerts"} /\ \A l \in ws : Home(l, page)
  BY <1>2, PageTable
<1>5. calls' = GetsOf(ws, None) /\ spin' = ws \cap {"sensors", "twins", "models"}
  BY <1>3, <1>4 DEF Asked, Overtaken, Cancelled, GetsOf, Spun
<1>6. VarsOK'
  BY <1>1, <1>2, <1>3, <1>5 DEF VarsOK, StoresEmpty
<1>7. ws \in SUBSET Lists /\ "assets" \notin ws
  BY <1>4 DEF Lists
<1>8. Start(ws)'
  BY <1>2, <1>3, <1>4, <1>5, <1>6, <1>7 DEF Start, StoresEmpty
<1>9. (Started => ConInv)'
  BY Starts, PTL
<1> QED BY <1>7, <1>8, <1>9 DEF Started

LEMMA UnauthorizedStep == ASSUME NEW c \in calls PROVE ConInv /\ Unauthorized(c) => ConInv'
<1> SUFFICES ASSUME ConInv, Unauthorized(c) PROVE ConInv'
  OBVIOUS
<1>1. VarsOK
  BY ConFacts
<1>2. calls' = GetsOf({}, None)
  BY DEF Unauthorized, GetsOf
<1>3. VarsOK'
  BY <1>1 DEF VarsOK, Unauthorized, StoresEmpty
<1>4. Start({})'
  BY <1>2, <1>3 DEF Start, Unauthorized, StoresEmpty
<1>5. Started'
  BY <1>4 DEF Started
<1>6. (Started => ConInv)'
  BY Starts, PTL
<1> QED BY <1>5, <1>6

-----------------------------------------------------------------------------
(* What the user does, and the loads that follow.                          *)

\* Without the answers to commands that another load makes up for.
LEMMA Without ==
    ASSUME ConInv, NEW cs \in SUBSET calls, NEW ls,
           \A c \in calls \ cs : c.is = "command" /\ (c.at \in {"ok", "failed", "lost"} => Changes(c.what) \in ls)
    PROVE  /\ cs \in SUBSET Request /\ SnapshotsBut(cs, ls)
           /\ \A l \in behind \ astray : l \in ls \/ Pending(cs, l)
           /\ \A l \in spin : Loading(cs, l)
           /\ \A w : Fresh(calls, w) \subseteq cs
<1>1. calls \in SUBSET Request /\ SnapshotsBut(calls, {}) /\ (\A l \in behind : l \in astray \/ Pending(calls, l))
      /\ \A l \in spin : Loading(calls, l)
  BY ConFacts
<1>2. \A l : Committed(calls, l) => l \in ls \/ Committed(cs, l)
  BY DEF Committed
<1>3. \A c \in calls : c.is = "get" => c \in cs
  <2>1. "get" # "command"
    OBVIOUS
  <2> QED BY <2>1
<1>4. \A w : Fresh(calls, w) \subseteq cs /\ Fresh(calls, w) \subseteq Fresh(cs, w)
  BY <1>3 DEF Fresh, Gets
<1>5. SnapshotsBut(cs, ls)
  BY <1>1, <1>2 DEF SnapshotsBut
<1>6. \A l : Pending(calls, l) => l \in ls \/ Pending(cs, l)
  BY <1>2, <1>4 DEF Pending
<1>7. \A l : Loading(calls, l) => Loading(cs, l)
  BY <1>3 DEF Loading
<1> QED BY <1>1, <1>4, <1>5, <1>6, <1>7

LEMMA SelectTwin ==
    ASSUME ConInv, NEW cs \in SUBSET calls, NEW t \in Twins,
           \A c \in calls \ cs : c.is = "command" /\ (c.at \in {"ok", "failed", "lost"} => Changes(c.what) = "assets"),
           calls' = Overtaken(cs, {"twin", "assets"}) \cup {Get("twin", t)}, spin' = spin \cup {"twins"},
           UNCHANGED <<role, user, session, page, behind, astray, current, assetsOf, active, borrowed>>
    PROVE  ConInv'
<1> DEFINE ls == {"twin", "assets"}
           new == {Get("twin", t)}
<1>1. /\ cs \in SUBSET Request /\ SnapshotsBut(cs, ls)
      /\ \A l \in behind \ astray : l \in ls \/ Pending(cs, l)
      /\ \A l \in spin : Loading(cs, l)
  <2>1. \A c \in calls \ cs : c.is = "command" /\ (c.at \in {"ok", "failed", "lost"} => Changes(c.what) \in ls)
    OBVIOUS
  <2> HIDE DEF ls
  <2> QED BY <2>1, Without
<1>2. VarsOK /\ CallsOK /\ (user \in {role, None} \/ role = "VIEWER")
  BY ConFacts
<1>3. Follow(calls', cs, ls, {}, new)
  BY <1>1, FollowOvertaken
<1>4. /\ Get("twin", t) \in Request /\ Get("twin", t).is = "get" /\ Get("twin", t).what = "twin"
      /\ Get("twin", t).twin = t /\ Get("twin", t).at = "sent" /\ Get("twin", t).by = None /\ ~Get("twin", t).late
  BY NewGet
<1>5. /\ Pending(new, "twin") /\ Pending(new, "assets") /\ Loading(new, "twins")
  BY Sent
<1>6. VarsOK'
  BY <1>2 DEF VarsOK
<1>7. CallsOK'
  <2>1. GetOK(Get("twin", t))'
    <3>1. Home("twin", page')
      BY DEF Home
    <3> QED BY <1>4, <3>1 DEF GetOK
  <2>2. \A e \in new : e \in Request /\ (e.is = "get" => GetOK(e)') /\ (e.is = "command" => CommandOK(e)')
    BY <1>4, <2>1
  <2> HIDE DEF new, ls
  <2> QED BY <1>2, <1>3, <2>2, CallsStep
<1>8. AssetsInv'
  <2>1. \A e \in Fresh(new, "assets") : FALSE
    BY <1>4 DEF Fresh, Gets
  <2>2. Get("twin", t) \in Fresh(new, "twin")
    BY <1>4 DEF Fresh, Gets
  <2>3. "assets" \in ls
    OBVIOUS
  <2> HIDE DEF new, ls
  <2> QED BY <1>3, <2>1, <2>2, <2>3, AssetsAnew
<1>9. \A e \in new : ~Snapshot(e)
  BY <1>4 DEF Snapshot
<1>10. \A l \in behind' \ astray' :
          \/ Pending(new, l)
          \/ Pending(cs, l) /\ l \notin ls \cup {} /\ (l = "assets" => "twin" \notin ls \cup {})
  BY <1>1, <1>5
<1>11. \A l \in spin' : Loading(new, l) \/ (Loading(cs, l) /\ l \notin {})
  BY <1>1, <1>5
<1> HIDE DEF new, ls
<1>12. SnapshotsBut(cs, ls) /\ (user' \in {role', None} \/ role' = "VIEWER")
  BY <1>1, <1>2
<1>13. {} \cap {"twin", "assets"} = {}
  OBVIOUS
<1> QED BY <1>3, <1>6, <1>7, <1>8, <1>9, <1>10, <1>11, <1>12, <1>13, ConStep

LEMMA SelectStep == ASSUME NEW t \in Twins PROVE ConInv /\ Select(t) => ConInv'
<1> SUFFICES ASSUME ConInv, Select(t) PROVE ConInv'
  OBVIOUS
<1> QED BY SelectTwin DEF Select

\* A load of one of the lists that need no argument.
LEMMA AskStep ==
    ASSUME ConInv, NEW cs \in SUBSET calls, NEW l \in {"twins", "sensors", "models", "alerts"}, Home(l, page),
           \A c \in calls \ cs : c.is = "command" /\ (c.at \in {"ok", "failed", "lost"} => Changes(c.what) = l),
           calls' = Asked(cs, page, {l}, None), spin' \in {spin, spin \cup Spun({l})},
           UNCHANGED <<role, user, session, page, behind, astray, current, assetsOf, active, borrowed>>
    PROVE  ConInv'
<1> DEFINE ls == {l}
           new == {Get(l, None)}
           gone == Cancels(page, {l})
<1>1. /\ cs \in SUBSET Request /\ SnapshotsBut(cs, ls)
      /\ \A m \in behind \ astray : m \in ls \/ Pending(cs, m)
      /\ \A m \in spin : Loading(cs, m)
      /\ \A w : Fresh(calls, w) \subseteq cs
  <2>1. \A c \in calls \ cs : c.is = "command" /\ (c.at \in {"ok", "failed", "lost"} => Changes(c.what) \in ls)
    OBVIOUS
  <2> HIDE DEF ls
  <2> QED BY <2>1, Without
<1>2. VarsOK /\ CallsOK /\ AssetsInv /\ (user \in {role, None} \/ role = "VIEWER")
  BY ConFacts
<1>3. GetsOf({l}, None) = new /\ l \in Lists
  BY DEF GetsOf, Lists
<1>4. Follow(calls', cs, ls, gone, new)
  <2>1. cs \in SUBSET Request /\ Follow(Asked(cs, page, {l}, None), cs, {l}, Cancels(page, {l}), GetsOf({l}, None))
    BY <1>1, FollowAsked
  <2> QED BY <2>1, <1>3
<1>5. /\ Get(l, None) \in Request /\ Get(l, None).is = "get" /\ Get(l, None).what = l
      /\ Get(l, None).at = "sent" /\ Get(l, None).by = None
  BY <1>3, NewGet
<1>6. /\ Pending(new, l) /\ Loading(new, l)
  BY <1>3, Sent
<1>7. gone \subseteq {l} \cap {"alerts"}
  BY DEF Cancels
<1>8. spin' \subseteq spin \cup ({l} \cap {"sensors", "twins", "models"})
  BY DEF Spun
<1>9. VarsOK'
  BY <1>2, <1>8 DEF VarsOK
<1>10. CallsOK'
  <2>1. GetOK(Get(l, None))'
    BY <1>3, <1>5 DEF GetOK
  <2>2. \A e \in new : e \in Request /\ (e.is = "get" => GetOK(e)') /\ (e.is = "command" => CommandOK(e)')
    BY <1>5, <2>1
  <2> HIDE DEF new, ls, gone
  <2> QED BY <1>2, <1>4, <2>2, CallsStep
<1>11. AssetsInv'
  <2>1. \A e \in Fresh(new, "assets") : FALSE
    BY <1>5 DEF Fresh, Gets
  <2>2. ls \cap {"assets", "twin"} = {} /\ gone \cap {"assets", "twin"} = {}
    BY <1>7
  <2>3. \A w \in {"assets", "twin"} : \A c \in Fresh(calls, w) : c \in cs
    BY <1>1
  <2> HIDE DEF new, ls, gone
  <2> QED BY <1>2, <1>4, <2>1, <2>2, <2>3, AssetsStep
<1>12. \A e \in new : ~Snapshot(e)
  BY <1>5 DEF Snapshot
<1>13. \A m \in behind' \ astray' :
          \/ Pending(new, m)
          \/ Pending(cs, m) /\ m \notin ls \cup gone /\ (m = "assets" => "twin" \notin ls \cup gone)
  BY <1>1, <1>6, <1>7
<1>14. \A m \in spin' : Loading(new, m) \/ (Loading(cs, m) /\ m \notin gone)
  BY <1>1, <1>6, <1>7, <1>8
<1>15. gone \cap {"twin", "assets"} = {}
  BY <1>7
<1> HIDE DEF new, ls, gone
<1> QED BY <1>1, <1>2, <1>4, <1>9, <1>10, <1>11, <1>12, <1>13, <1>14, <1>15, ConStep

LEMMA PollStep == ConInv /\ Poll => ConInv'
<1> SUFFICES ASSUME ConInv, Poll PROVE ConInv'
  OBVIOUS
<1>1. Home("alerts", page)
  BY DEF Poll, PollDue, Home
<1>2. calls' = Asked(calls, page, {"alerts"}, None) /\ UNCHANGED <<role, user, session, page, stores>>
  BY DEF Poll
<1> QED BY <1>1, <1>2, AskStep DEF stores

LEMMA ChooseTwinStep == ASSUME NEW t \in Twins PROVE ConInv /\ ChooseTwin(t) => ConInv'
<1> SUFFICES ASSUME ConInv, ChooseTwin(t) PROVE ConInv'
  OBVIOUS
<1> DEFINE ls == {"sensors"} \cup {"assets"}
           new == GetsOf({"sensors"}, None) \cup {Get("assets", t)}
<1>1. VarsOK /\ CallsOK /\ (user \in {role, None} \/ role = "VIEWER") /\ calls \in SUBSET Request /\ SnapshotsBut(calls, {})
      /\ (\A l \in behind : l \in astray \/ Pending(calls, l)) /\ \A l \in spin : Loading(calls, l)
  BY ConFacts
<1>2. /\ calls' = Overtaken(Asked(calls, page, {"sensors"}, None), {"assets"}) \cup {Get("assets", t)}
      /\ UNCHANGED <<role, user, session, page, behind, astray, current, assetsOf>>
      /\ active' = t /\ borrowed' = TRUE /\ spin' = spin \cup {"sensors"}
  BY DEF ChooseTwin, Selected
<1>3. Cancels(page, {"sensors"}) = {} /\ {"sensors"} \in SUBSET (Lists \ {"assets"}) /\ "assets" \in Lists
  BY DEF Cancels, Lists
<1>4. Follow(calls', calls, ls, {}, new)
  BY <1>1, <1>2, <1>3, FollowAskedAssets
<1>5. /\ \A e \in new : /\ e \in Request /\ e.is = "get" /\ e.what \in {"sensors", "assets"} /\ e.at = "sent" /\ e.by = None
      /\ Get("sensors", None) \in new /\ Get("assets", t) \in new
  <2>1. \A e \in new : e = Get("sensors", None) \/ e = Get("assets", t)
    BY DEF GetsOf
  <2>2. Get("sensors", None) \in new /\ Get("assets", t) \in new
    BY DEF GetsOf
  <2> HIDE DEF new
  <2> QED BY <1>3, <2>1, <2>2, NewGet
<1> HIDE DEF new
<1>6. Pending(new, "sensors") /\ Loading(new, "sensors") /\ Pending(new, "assets")
  BY <1>3, <1>5, Sent
<1>7. VarsOK'
  BY <1>1, <1>2 DEF VarsOK
<1>8. CallsOK'
  <2>1. \A e \in new : GetOK(e)'
    <3> SUFFICES ASSUME NEW e \in new PROVE GetOK(e)'
      OBVIOUS
    <3>1. Home(e.what, page') /\ e.what \in Lists /\ e.what # "twin"
      BY <1>3, <1>5 DEF Home
    <3> QED BY <1>5, <3>1 DEF GetOK
  <2> HIDE DEF ls
  <2> QED BY <1>1, <1>2, <1>4, <1>5, <2>1, CallsStep
<1>9. AssetsInv'
  BY <1>2 DEF AssetsInv
<1>10. \A e \in new : ~Snapshot(e)
  BY <1>5 DEF Snapshot
<1>11. \A l \in behind' \ astray' :
          \/ Pending(new, l)
          \/ Pending(calls, l) /\ l \notin ls \cup {} /\ (l = "assets" => "twin" \notin ls \cup {})
  BY <1>1, <1>2, <1>6
<1>12. \A l \in spin' : Loading(new, l) \/ (Loading(calls, l) /\ l \notin {})
  BY <1>1, <1>2, <1>6
<1>13. SnapshotsBut(calls, ls)
  BY <1>1 DEF SnapshotsBut
<1> HIDE DEF ls
<1> QED BY SMTT(20), <1>1, <1>2, <1>4, <1>7, <1>8, <1>9, <1>10, <1>11, <1>12, <1>13, ConStep

LEMMA ClickStep == ASSUME NEW k \in DOMAIN Routes PROVE ConInv /\ Click(k) => ConInv'
<1> SUFFICES ASSUME ConInv, Click(k) PROVE ConInv'
  OBVIOUS
<1> PICK r : r = Command(k, Shown)
  OBVIOUS
<1>1. VarsOK /\ CallsOK /\ (user \in {role, None} \/ role = "VIEWER") /\ calls \in SUBSET Request /\ SnapshotsBut(calls, {})
      /\ (\A l \in behind : l \in astray \/ Pending(calls, l)) /\ (\A l \in spin : Loading(calls, l)) /\ AssetsInv
  BY ConFacts
<1>2. /\ page \in DOMAIN Shows /\ k \in DOMAIN Shows[page].shows /\ Shown \in Shows[page].shows[k]
      /\ (Changes(k) = "assets" => current # None)
      /\ calls' = calls \cup {r} /\ UNCHANGED <<role, user, session, page, stores>>
  BY DEF Click
<1>3. /\ k \in Commands /\ Home(Changes(k), page)
      /\ k \notin Lax => Shows[page].shows[k] \subseteq Routes[k]
  BY <1>2, Buttons
<1>4. Shown \in Anyone /\ (Shown \in {role, "VIEWER"} \/ role = "VIEWER")
  BY <1>1, NoneAssumption DEF Shown, VarsOK, Anyone
<1>5. r \in Request /\ r.is = "command" /\ r.what = k /\ r.at = "sent" /\ r.by = Shown
  BY <1>3, <1>4, NewCommand
<1>6. PICK new : new = {r}
  OBVIOUS
<1>7. Follow(calls', calls, {}, {}, new)
  BY <1>1, <1>2, <1>6, FollowSame
<1>8. VarsOK'
  BY <1>1, <1>2 DEF VarsOK, stores
<1>9. CallsOK'
  <2>1. k \notin Lax => Shown \in Routes[k]
    BY <1>2, <1>3
  <2>2. CommandOK(r)'
    BY <1>2, <1>3, <1>4, <1>5, <2>1 DEF CommandOK, stores
  <2>3. \A e \in new : e \in Request /\ (e.is = "get" => GetOK(e)') /\ (e.is = "command" => CommandOK(e)')
    BY <1>5, <1>6, <2>2
  <2> QED BY <1>1, <1>2, <1>7, <2>3, CallsStep DEF stores
<1>10. AssetsInv'
  <2>1. \A w : Fresh(new, w) = {} /\ Fresh(calls, w) \subseteq calls
    BY <1>5, <1>6 DEF Fresh, Gets
  <2> QED BY <1>1, <1>2, <1>7, <2>1, AssetsStep DEF stores
<1>11. \A e \in new : ~Snapshot(e)
  BY <1>5, <1>6 DEF Snapshot
<1>12. UNCHANGED <<behind, astray, spin, role, user>>
  BY <1>2 DEF stores
<1>13. \A l \in behind' \ astray' :
          \/ Pending(new, l)
          \/ Pending(calls, l) /\ l \notin {} \cup {} /\ (l = "assets" => "twin" \notin {} \cup {})
  BY <1>1, <1>12
<1>14. \A l \in spin' : Loading(new, l) \/ (Loading(calls, l) /\ l \notin {})
  BY <1>1, <1>12
<1> QED BY <1>1, <1>7, <1>8, <1>9, <1>10, <1>11, <1>12, <1>13, <1>14, ConStep

-----------------------------------------------------------------------------
(* The server.                                                             *)
AnswerTo(c, at, sees) == [c EXCEPT !.at = at, !.sees = sees, !.what = Handler[@], !.by = None]

LEMMA Answer ==
    ASSUME ConInv, NEW c \in calls, c.at = "sent", NEW sees \in BOOLEAN,
           NEW at \in {"ok", "denied", "failed", "lost", "unauthorized"},
           at = "denied" => c.is = "command" /\ role \notin Routes[c.what],
           NEW a, a = AnswerTo(c, at, sees)
    PROVE  /\ a \in Request /\ a.is = c.is /\ a.at = at /\ a.sees = sees /\ a.late = c.late /\ a.twin = c.twin
           /\ a.is = "get" => a.what = c.what /\ GetOK(a)
           /\ a.is = "command" => Changes(a.what) = Changes(c.what) /\ CommandOK(a)
<1>1. c \in Request /\ (c.is = "get" => GetOK(c)) /\ (c.is = "command" => CommandOK(c))
  BY ConFacts DEF CallsOK
<1>2. Handler[c.what] \in Lists \cup {"twin"} \cup Commands
  BY <1>1, Handlers DEF Request
<1>3. /\ a.is = c.is /\ a.at = at /\ a.sees = sees /\ a.late = c.late /\ a.twin = c.twin /\ a.here = c.here
      /\ a.what = Handler[c.what] /\ a.by = None /\ a \in Request
  BY <1>1, <1>2 DEF AnswerTo, Request
<1>4. ASSUME a.is = "get" PROVE a.what = c.what /\ GetOK(a)
  <2>1. GetOK(c) /\ at # "denied"
    BY <1>1, <1>3, <1>4
  <2>2. a.what = c.what
    BY <1>3, <2>1, Handlers DEF GetOK
  <2> QED BY <1>3, <2>1, <2>2 DEF GetOK
<1>5. ASSUME a.is = "command" PROVE Changes(a.what) = Changes(c.what) /\ CommandOK(a)
  <2>1. CommandOK(c)
    BY <1>1, <1>3, <1>5
  <2>2. c.what \in Commands
    BY <2>1 DEF CommandOK
  <2>3. a.what \in Commands /\ Changes(a.what) = Changes(c.what)
    BY <1>3, <2>2, Handlers
  <2>4. ASSUME at = "denied"
        PROVE  Handler[c.what] = a.what /\ role \notin Routes[c.what] /\ (c.what \in Lax \/ role = "VIEWER")
    <3>1. /\ c.by \in {role, "VIEWER"} \/ role = "VIEWER"
          /\ c.what \notin Lax => c.by \in Routes[c.what]
      BY <2>1 DEF CommandOK
    <3>2. "VIEWER" \notin Routes[c.what]
      BY <2>2, RouteRoles DEF Managers, Operators
    <3> QED BY <1>3, <2>4, <3>1, <3>2
  <2>5. a.here => Home(Changes(a.what), page)
    BY <1>3, <2>1, <2>3 DEF CommandOK
  <2>6. Changes(a.what) = "assets" => current # None
    BY <2>1, <2>3 DEF CommandOK
  <2>7. a.at # "sent"
    BY <1>3
  <2> QED BY <1>3, <2>2, <2>3, <2>4, <2>5, <2>6, <2>7 DEF CommandOK
<1> QED BY <1>3, <1>4, <1>5

LEMMA AnswerStep ==
    ASSUME ConInv, NEW c \in calls, c.at = "sent" \/ c.is = "get",
           NEW a \in Request, a.is = c.is, a.late = c.late, a.twin = c.twin,
           a.is = "get" => a.what = c.what /\ GetOK(a), a.is = "command" => CommandOK(a), ~Snapshot(a),
           NEW new, new = {a}, Follow(calls', calls \ {c}, {}, {}, new),
           UNCHANGED <<role, user, session, page, astray, current, assetsOf, active, borrowed, spin>>,
           behind' \subseteq Lists, \A l \in behind' \ behind : Committed(new, l)
    PROVE  ConInv'
<1>1. VarsOK /\ CallsOK /\ (user \in {role, None} \/ role = "VIEWER") /\ SnapshotsBut(calls, {})
      /\ (\A l \in behind : l \in astray \/ Pending(calls, l)) /\ (\A l \in spin : Loading(calls, l)) /\ AssetsInv
  BY ConFacts
<1> PICK cs : cs = calls \ {c}
  OBVIOUS
<1>2. VarsOK'
  BY <1>1 DEF VarsOK
<1>3. CallsOK'
  <2>1. /\ a.is = "get" => GetOK(a)'
        /\ a.is = "command" => CommandOK(a)'
    BY DEF GetOK, CommandOK
  <2>2. \A e \in new : e \in Request /\ (e.is = "get" => GetOK(e)') /\ (e.is = "command" => CommandOK(e)')
    BY <2>1
  <2> QED BY <1>1, <2>2, CallsStep
<1>4. ASSUME NEW w, c \in Fresh(calls, w) PROVE a \in Fresh(new, w)
  BY <1>4 DEF Fresh, Gets
<1>5. \A w : \A d \in Fresh(calls, w) : d \in cs \/ d = c
  BY DEF Fresh, Gets
<1>6. AssetsInv'
  <2>1. \A w \in {"assets", "twin"} : \A d \in Fresh(calls, w) : d \in cs \/ \E e \in Fresh(new, w) : TRUE
    BY <1>4, <1>5
  <2>2. \A e \in Fresh(new, "assets") : \E d \in Fresh(calls, "assets") : e.twin = d.twin
    <3>1. ASSUME a \in Fresh(new, "assets") PROVE c \in Fresh(calls, "assets")
      BY <3>1 DEF Fresh, Gets
    <3>2. \A e \in Fresh(new, "assets") : e = a
      BY DEF Fresh, Gets
    <3> QED BY <3>1, <3>2
  <2>3. \A e \in Fresh(new, "assets") : borrowed' \/ \E d \in Fresh(calls, "assets") : e.twin = d.twin
    BY <2>2
  <2>4. cs \in SUBSET calls /\ Follow(calls', cs, {}, {}, new) /\ {} \cap {"assets", "twin"} = {}
    OBVIOUS
  <2> QED BY <1>1, <2>1, <2>3, <2>4, AssetsStep
<1>7. \A l : Committed(calls, l) => Committed(cs, l)
  BY DEF Committed
<1>8. SnapshotsBut(cs, {})
  BY <1>1, <1>7 DEF SnapshotsBut
<1>9. \A l : Pending(calls, l) => Pending(cs, l) \/ Pending(new, l)
  <2>1. \A w : \A d \in Fresh(calls, w) : d \in Fresh(cs, w) \/ \E e \in Fresh(new, w) : TRUE
    BY <1>4, <1>5 DEF Fresh, Gets
  <2> QED BY <1>7, <2>1 DEF Pending
<1>10. \A l : Loading(calls, l) => Loading(cs, l) \/ Loading(new, l)
  BY DEF Loading
<1>11. \A l \in behind' \ astray' :
          \/ Pending(new, l)
          \/ Pending(cs, l) /\ l \notin {} \cup {} /\ (l = "assets" => "twin" \notin {} \cup {})
  <2>1. \A l : Committed(new, l) => Pending(new, l)
    BY DEF Pending
  <2> QED BY <1>1, <1>9, <2>1
<1>12. \A l \in spin' : Loading(new, l) \/ (Loading(cs, l) /\ l \notin {})
  BY <1>1, <1>10
<1>13. \A e \in new : ~Snapshot(e)
  OBVIOUS
<1>14. cs \in SUBSET calls /\ Follow(calls', cs, {}, {}, new) /\ {} \cap {"twin", "assets"} = {}
  OBVIOUS
<1>15. user' \in {role', None} \/ role' = "VIEWER"
  BY <1>1
<1> QED BY <1>2, <1>3, <1>6, <1>8, <1>11, <1>12, <1>13, <1>14, <1>15, ConStep

LEMMA AnsweredStep ==
    ASSUME ConInv, NEW c \in calls, c.at = "sent", NEW sees \in BOOLEAN,
           NEW at \in {"ok", "denied", "failed", "lost", "unauthorized"},
           at = "denied" => c.is = "command" /\ role \notin Routes[c.what], at = "ok" => sees,
           calls' = Handled(c, at, sees),
           UNCHANGED <<role, user, session, page, behind, astray, current, assetsOf, active, borrowed, spin>>
    PROVE  ConInv'
<1> PICK a : a = AnswerTo(c, at, sees)
  OBVIOUS
<1> PICK new : new = {a}
  OBVIOUS
<1>1. VarsOK /\ calls \in SUBSET Request
  BY ConFacts
<1>2. /\ a \in Request /\ a.is = c.is /\ a.at = at /\ a.sees = sees /\ a.late = c.late /\ a.twin = c.twin
      /\ a.is = "get" => a.what = c.what /\ GetOK(a)
      /\ a.is = "command" => Changes(a.what) = Changes(c.what) /\ CommandOK(a)
  BY Answer
<1>3. calls' = (calls \ {c}) \cup new
  BY DEF Handled, AnswerTo
<1>4. Follow(calls', calls \ {c}, {}, {}, new)
  BY <1>1, <1>3, FollowSame
<1>5. ~Snapshot(a) /\ behind' \subseteq Lists
  BY <1>1, <1>2 DEF Snapshot, VarsOK
<1> QED BY <1>2, <1>4, <1>5, AnswerStep

CommittedBy(a, c, at) ==
    /\ a \in Request /\ a.is = c.is /\ a.at = at /\ a.late = c.late /\ a.twin = c.twin
    /\ a.is = "command" => Changes(a.what) = Changes(c.what) /\ CommandOK(a)

LEMMA AnswerCommitted ==
    ASSUME ConInv, NEW c \in calls, c.at = "sent",
           NEW at \in {"ok", "denied", "failed", "lost", "unauthorized"}, at # "denied"
    PROVE  CommittedBy(AnswerTo(c, at, TRUE), c, at)
<1>1. ASSUME NEW sees \in BOOLEAN, NEW a, a = AnswerTo(c, at, sees) PROVE CommittedBy(a, c, at)
  BY <1>1, Answer DEF CommittedBy
<1> QED BY <1>1

LEMMA CommitStep ==
    ASSUME ConInv, NEW c \in calls, c.at = "sent", c.is = "command", NEW at \in {"ok", "failed", "lost"},
           Commit(c, at),
           UNCHANGED <<role, user, session, page, astray, current, assetsOf, active, borrowed, spin>>
    PROVE  ConInv'
<1> PICK a : a = AnswerTo(c, at, TRUE)
  OBVIOUS
<1> PICK new : new = {a}
  OBVIOUS
<1> PICK l : l = Changes(c.what)
  OBVIOUS
<1> PICK cs : cs = calls \ {c}
  OBVIOUS
<1> DEFINE f(d) == IF d.is = "get" /\ d.what = l THEN [d EXCEPT !.sees = FALSE] ELSE d
<1>1. VarsOK /\ cs \in SUBSET Request /\ CommandOK(c)
  BY ConFacts DEF CallsOK
<1>2. l \in Lists
  BY <1>1, ChangesTable DEF CommandOK
<1>3. /\ a \in Request /\ a.is = "command" /\ a.at = at /\ a.late = c.late /\ a.twin = c.twin
      /\ Changes(a.what) = l /\ CommandOK(a)
  <2>1. at \in {"ok", "denied", "failed", "lost", "unauthorized"} /\ at # "denied"
    OBVIOUS
  <2>2. CommittedBy(a, c, at)
    BY <2>1, AnswerCommitted
  <2> QED BY <2>2 DEF CommittedBy
<1>4. calls' = {f(d) : d \in cs \cup new} /\ behind' = behind \cup {l}
  BY DEF Commit, Handled, AnswerTo
<1>5. f(a) = a
  BY <1>3
<1>6. \A d \in cs : /\ Shadow(f(d), d) /\ f(d).late = d.late
                    /\ (d.is = "get" /\ d.what = l) \/ f(d).sees = d.sees
  <2> SUFFICES ASSUME NEW d \in cs
               PROVE  /\ Shadow(f(d), d) /\ f(d).late = d.late
                      /\ (d.is = "get" /\ d.what = l) \/ f(d).sees = d.sees
    OBVIOUS
  <2>1. d \in Request
    BY <1>1
  <2>2. CASE d.is = "get" /\ d.what = l
    <3>1. f(d) = [d EXCEPT !.sees = FALSE]
      BY <2>2
    <3>2. f(d) \in Request
      BY ZenonT(30), <2>1, <3>1 DEF Request
    <3> QED BY <2>1, <2>2, <3>1, <3>2 DEF Shadow, Request
  <2>3. CASE ~(d.is = "get" /\ d.what = l)
    BY <2>1, <2>3, ShadowRefl
  <2> QED BY <2>2, <2>3
<1> HIDE DEF f
<1>7. a \in calls' /\ \A e \in calls' : e \in new \/ \E d \in cs : e = f(d)
  BY <1>4, <1>5
<1>8. Committed(calls', l) /\ Committed(new, l)
  BY <1>3, <1>7 DEF Committed
<1>9. Follow(calls', cs, {}, {}, new)
  <2>1. \A e \in calls' : e \in new \/ \E d \in cs : Shadow(e, d) /\ (e.sees = d.sees \/ Committed(calls', e.what))
    <3> SUFFICES ASSUME NEW d \in cs PROVE f(d).sees = d.sees \/ Committed(calls', f(d).what)
      BY <1>6, <1>7
    <3>1. f(d).what = d.what
      BY <1>6 DEF Shadow
    <3> QED BY <1>6, <1>8, <3>1
  <2>2. \A d \in cs : \E e \in calls' : Shadow(e, d) /\ e.late = d.late
    BY <1>4, <1>6
  <2> QED BY <1>7, <2>1, <2>2 DEF Follow
<1>10. ~Snapshot(a) /\ behind' \subseteq Lists
  BY <1>1, <1>2, <1>3, <1>4 DEF Snapshot, VarsOK
<1>11. \A m \in behind' \ behind : Committed(new, m)
  BY <1>4, <1>8
<1>12. a.is = "get" => a.what = c.what /\ GetOK(a)
  BY <1>3
<1> QED BY <1>3, <1>9, <1>10, <1>11, <1>12, AnswerStep

LEMMA HandleStep == ASSUME NEW c \in calls PROVE ConInv /\ Handle(c) => ConInv'
<1> SUFFICES ASSUME ConInv, Handle(c) PROVE ConInv'
  OBVIOUS
<1>1. c.at = "sent" /\ UNCHANGED <<role, user, session, page, astray, current, assetsOf, active, borrowed, spin>>
  BY DEF Handle
<1>2. CASE Answered(c, "unauthorized")
  BY <1>1, <1>2, AnsweredStep DEF Answered
<1>3. CASE calls' = Handled(c, "ok", TRUE) /\ UNCHANGED behind
  BY <1>1, <1>3, AnsweredStep
<1>4. CASE c.is = "command" /\ Commit(c, "ok")
  BY <1>1, <1>4, CommitStep
<1>5. CASE c.is = "command" /\ role \notin Routes[c.what] /\ Answered(c, "denied")
  BY <1>1, <1>5, AnsweredStep DEF Answered
<1> QED BY <1>2, <1>3, <1>4, <1>5 DEF Handle

LEMMA FailStep == ASSUME NEW c \in calls PROVE ConInv /\ Fail(c) => ConInv'
<1> SUFFICES ASSUME ConInv, Fail(c) PROVE ConInv'
  OBVIOUS
<1>1. c.at = "sent" /\ UNCHANGED <<role, user, session, page, astray, current, assetsOf, active, borrowed, spin>>
  BY DEF Fail
<1> PICK at \in {"failed", "lost"} : Answered(c, at) \/ (c.is = "command" /\ Commit(c, at))
  BY DEF Fail
<1>2. CASE Answered(c, at)
  BY <1>1, <1>2, AnsweredStep DEF Answered
<1>3. CASE c.is = "command" /\ Commit(c, at)
  BY <1>1, <1>3, CommitStep
<1> QED BY <1>2, <1>3

-----------------------------------------------------------------------------
(* The answers.                                                            *)
LEMMA RetryStep == ASSUME NEW c \in calls PROVE ConInv /\ Retry(c) => ConInv'
<1> SUFFICES ASSUME ConInv, Retry(c) PROVE ConInv'
  OBVIOUS
<1> PICK a : a = [c EXCEPT !.at = "sent", !.retried = TRUE]
  OBVIOUS
<1> PICK new : new = {a}
  OBVIOUS
<1>1. VarsOK /\ calls \in SUBSET Request /\ c.is = "get" /\ GetOK(c)
  BY ConFacts DEF CallsOK, Retry
<1>2. a \in Request /\ a.is = c.is /\ a.what = c.what /\ a.late = c.late /\ a.twin = c.twin /\ a.at = "sent" /\ a.by = c.by
  BY <1>1 DEF Request
<1>3. calls' = (calls \ {c}) \cup new /\ UNCHANGED <<role, user, session, page, stores>>
  BY DEF Retry
<1>4. Follow(calls', calls \ {c}, {}, {}, new)
  BY <1>1, <1>3, FollowSame
<1>5. GetOK(a) /\ ~Snapshot(a) /\ behind' \subseteq Lists /\ behind' \ behind = {} /\ a.is # "command"
  BY <1>1, <1>2, <1>3 DEF GetOK, Snapshot, VarsOK, stores
<1> QED BY <1>1, <1>2, <1>3, <1>4, <1>5, AnswerStep DEF stores

\* Without the answer to a load.
LEMMA WithoutGet ==
    ASSUME ConInv, NEW c \in calls, c.is = "get", NEW cs, cs = calls \ {c}
    PROVE  /\ cs \in SUBSET Request /\ SnapshotsBut(cs, {}) /\ c \in Request /\ GetOK(c)
           /\ \A l \in behind \ astray : Pending(cs, l) \/ (~c.late /\ l = Feeds(c.what))
           /\ \A l \in spin : Loading(cs, l) \/ c.what = l \/ (l = "twins" /\ c.what \in {"twin", "assets"})
           /\ \A w : \A d \in Fresh(calls, w) : d \in Fresh(cs, w) \/ (d = c /\ ~c.late /\ c.what = w)
           /\ \A l : Committed(calls, l) => Committed(cs, l)
<1>1. calls \in SUBSET Request /\ SnapshotsBut(calls, {}) /\ (\A l \in behind : l \in astray \/ Pending(calls, l))
      /\ (\A l \in spin : Loading(calls, l)) /\ GetOK(c)
  BY ConFacts DEF CallsOK
<1>2. \A w : \A d \in Fresh(calls, w) : d \in Fresh(cs, w) \/ (d = c /\ ~c.late /\ c.what = w)
  BY DEF Fresh, Gets
<1>3. \A l : Committed(calls, l) => Committed(cs, l)
  BY DEF Committed
<1>4. SnapshotsBut(cs, {})
  BY <1>1, <1>3 DEF SnapshotsBut
<1>5. \A l : Pending(calls, l) => Pending(cs, l) \/ (~c.late /\ (c.what = l \/ (l = "assets" /\ c.what = "twin")))
  BY <1>2, <1>3 DEF Pending
<1>6. \A l \in behind : l # "twin"
  BY ConFacts DEF VarsOK, Lists
<1>7. \A l \in behind \ astray : Pending(cs, l) \/ (~c.late /\ l = Feeds(c.what))
  BY <1>1, <1>5, <1>6 DEF Feeds
<1>8. \A l : Loading(calls, l) => Loading(cs, l) \/ c.what = l \/ (l = "twins" /\ c.what \in {"twin", "assets"})
  BY DEF Loading
<1> QED BY <1>1, <1>2, <1>3, <1>4, <1>7, <1>8

\* An answer to a load is taken, and nothing else asked for.
LEMMA TakeStep ==
    ASSUME ConInv, NEW c \in calls, c.is = "get", NEW cs, cs = calls \ {c}, calls' = cs,
           UNCHANGED <<role, user, session, page, current, active, borrowed>>,
           behind' \subseteq Lists, astray' \subseteq Lists, assetsOf' \in Twins \cup {None}, AssetsInv',
           spin' = StilledBy(c), \A l \in behind' \ astray' : Pending(cs, l)
    PROVE  ConInv'
<1>1. VarsOK /\ CallsOK /\ (user \in {role, None} \/ role = "VIEWER")
  BY ConFacts
<1>2. /\ cs \in SUBSET Request /\ SnapshotsBut(cs, {}) /\ GetOK(c)
      /\ \A l \in spin : Loading(cs, l) \/ c.what = l \/ (l = "twins" /\ c.what \in {"twin", "assets"})
  BY WithoutGet
<1>3. Follow(calls', cs, {}, {}, {})
  <2>1. \A new : Follow(cs \cup new, cs, {}, {}, new)
    BY <1>2, FollowSame
  <2>2. cs \cup {} = cs
    OBVIOUS
  <2> QED BY <2>1, <2>2
<1>4. VarsOK'
  BY <1>1 DEF VarsOK, StilledBy
<1>5. CallsOK'
  <2>1. \A e \in {} : e \in Request /\ (e.is = "get" => GetOK(e)') /\ (e.is = "command" => CommandOK(e)')
    OBVIOUS
  <2> QED BY <1>1, <1>3, <2>1, CallsStep
<1>6. \A l \in spin' : Loading(cs, l)
  <2>1. spin' = spin \ (IF c.what = "twin" THEN {"twins"}
                        ELSE IF c.what \in {"twins", "assets"} THEN {"twins"} ELSE {c.what})
    BY DEF StilledBy, Stilled
  <2>2. "twin" \notin spin /\ "assets" \notin spin
    BY <1>1 DEF VarsOK
  <2>3. ASSUME NEW l \in spin', l = "twins" PROVE c.what \notin {"twin", "twins", "assets"}
    BY <2>1, <2>3
  <2>4. ASSUME NEW l \in spin' PROVE l \in spin /\ l # "twin" /\ l # "assets"
    BY <2>1, <2>2
  <2>5. ASSUME NEW l \in spin', l = c.what PROVE FALSE
    BY <2>1, <2>4, <2>5
  <2> QED BY <1>2, <2>3, <2>4, <2>5
<1>7. cs \in SUBSET calls /\ SnapshotsBut(cs, {}) /\ {} \cap {"twin", "assets"} = {}
  BY <1>2
<1>8. user' \in {role', None} \/ role' = "VIEWER"
  BY <1>1
<1>9. \A l \in behind' \ astray' :
          Pending(cs, l) /\ l \notin {} \cup {} /\ (l = "assets" => "twin" \notin {} \cup {})
  OBVIOUS
<1> QED BY <1>3, <1>4, <1>5, <1>6, <1>7, <1>8, <1>9, ConStep

LEMMA GiveUpStep == ASSUME NEW c \in calls PROVE ConInv /\ GiveUp(c) => ConInv'
<1> SUFFICES ASSUME ConInv, GiveUp(c) PROVE ConInv'
  OBVIOUS
<1> PICK cs : cs = calls \ {c}
  OBVIOUS
<1>1. /\ c.is = "get" /\ calls' = cs /\ spin' = StilledBy(c)
      /\ astray' = (IF c.late THEN astray ELSE astray \cup {Feeds(c.what)})
      /\ UNCHANGED <<role, user, session, page, behind, current, assetsOf, active, borrowed>>
  BY DEF GiveUp
<1>2. VarsOK /\ AssetsInv
  BY ConFacts
<1>3. /\ GetOK(c) /\ cs \in SUBSET Request
      /\ \A l \in behind \ astray : Pending(cs, l) \/ (~c.late /\ l = Feeds(c.what))
      /\ \A w : \A d \in Fresh(calls, w) : d \in Fresh(cs, w) \/ (d = c /\ ~c.late /\ c.what = w)
  BY ZenonT(30), <1>1, WithoutGet
<1>4. Feeds(c.what) \in Lists
  BY <1>3 DEF Feeds, GetOK, Lists
<1>5. behind' \subseteq Lists /\ astray' \subseteq Lists /\ assetsOf' \in Twins \cup {None}
  BY <1>1, <1>2, <1>4 DEF VarsOK
<1>6. AssetsInv'
  <2>1. Fresh(cs, "assets") \subseteq Fresh(calls, "assets")
    BY DEF Fresh, Gets
  <2>2. ASSUME ~c.late, c.what \in {"assets", "twin"} PROVE "assets" \in astray'
    BY <1>1, <2>2 DEF Feeds
  <2>3. ASSUME NEW w \in {"assets", "twin"}, Fresh(calls, w) # {} PROVE Fresh(cs, w) # {} \/ "assets" \in astray'
    BY <1>3, <2>2, <2>3
  <2>4. "assets" \in astray => "assets" \in astray'
    BY <1>1
  <2> QED BY <1>1, <1>2, <2>1, <2>3, <2>4 DEF AssetsInv
<1>7. \A l \in behind' \ astray' : Pending(cs, l)
  BY <1>1, <1>3
<1> QED BY <1>1, <1>5, <1>6, <1>7, TakeStep

LEMMA LoadStep == ASSUME NEW c \in calls PROVE ConInv /\ Load(c) => ConInv'
<1> SUFFICES ASSUME ConInv, Load(c) PROVE ConInv'
  OBVIOUS
<1> PICK cs : cs = calls \ {c}
  OBVIOUS
<1> PICK l : l = c.what
  OBVIOUS
<1>1. /\ c.is = "get" /\ c.at = "ok" /\ l # "twin" /\ calls' = cs /\ spin' = spin \ Stilled(l)
      /\ behind' = (IF c.sees THEN behind \ {l} ELSE behind \cup {l})
      /\ assetsOf' = (IF l = "assets" THEN c.twin ELSE assetsOf)
      /\ UNCHANGED <<role, user, session, page, current, active, borrowed>>
  BY DEF Load
<1>2. astray' = (IF ~c.late THEN astray \ {l} ELSE IF Fresh(calls, l) = {} THEN astray \cup {l} ELSE astray)
  BY DEF Load, Fresh
<1>3. VarsOK /\ AssetsInv /\ SnapshotsBut(calls, {})
  BY ConFacts
<1>4. /\ GetOK(c) /\ c \in Request /\ cs \in SUBSET Request
      /\ \A m \in behind \ astray : Pending(cs, m) \/ (~c.late /\ m = Feeds(c.what))
      /\ \A w : \A d \in Fresh(calls, w) : d \in Fresh(cs, w) \/ (d = c /\ ~c.late /\ c.what = w)
      /\ \A m : Committed(calls, m) => Committed(cs, m)
  BY <1>1, WithoutGet
<1>5. l \in Lists /\ c.twin \in Twins \cup {None} /\ Feeds(c.what) = l
  BY <1>1, <1>4 DEF GetOK, Request, Feeds
<1>6. behind' \subseteq Lists /\ astray' \subseteq Lists /\ assetsOf' \in Twins \cup {None} /\ spin' = StilledBy(c)
  BY <1>1, <1>2, <1>3, <1>5 DEF VarsOK, StilledBy
<1>7. ASSUME c.late, Fresh(calls, l) # {} PROVE Fresh(cs, l) # {}
  BY <1>4, <1>7
<1>8. AssetsInv'
  <2> SUFFICES ASSUME ~borrowed
               PROVE  /\ \A e \in Fresh(calls', "assets") : e.twin = current'
                      /\ current' # None => \/ assetsOf' = current' \/ "assets" \in astray'
                                            \/ Fresh(calls', "assets") # {} \/ Fresh(calls', "twin") # {}
    BY <1>1 DEF AssetsInv
  <2>1. \A e \in Fresh(cs, "assets") : e.twin = current
    BY <1>3 DEF AssetsInv, Fresh, Gets
  <2>2. CASE l = "assets"
    <3>1. CASE c.late
      <4>1. "assets" \in astray' \/ Fresh(cs, "assets") # {}
        BY <1>2, <1>7, <2>2, <3>1
      <4> QED BY <1>1, <2>1, <4>1
    <3>2. CASE ~c.late
      <4>1. c \in Fresh(calls, "assets")
        BY <1>1, <2>2, <3>2 DEF Fresh, Gets
      <4>2. assetsOf' = current
        BY <1>1, <1>3, <2>2, <4>1 DEF AssetsInv
      <4> QED BY <1>1, <2>1, <4>2
    <3> QED BY <3>1, <3>2
  <2>3. CASE l # "assets"
    <3>1. \A w \in {"assets", "twin"} : Fresh(calls, w) # {} => Fresh(cs, w) # {}
      BY <1>1, <1>4, <2>3
    <3>2. "assets" \in astray => "assets" \in astray'
      BY <1>2, <2>3
    <3> QED BY <1>1, <1>3, <2>1, <2>3, <3>1, <3>2 DEF AssetsInv
  <2> QED BY <2>2, <2>3
<1>9. \A m \in behind' \ astray' : Pending(cs, m)
  <2> SUFFICES ASSUME NEW m \in behind' \ astray' PROVE Pending(cs, m)
    OBVIOUS
  <2>1. CASE m # l
    BY <1>1, <1>2, <1>4, <1>5, <2>1
  <2>2. CASE m = l /\ c.late
    <3>1. Fresh(cs, l) # {}
      BY <1>2, <1>7, <2>2
    <3> QED BY <2>2, <3>1 DEF Pending
  <2>3. CASE m = l /\ ~c.late
    <3>1. ~c.sees
      BY <1>1, <2>3
    <3>2. Snapshot(c)
      BY <1>1, <2>3, <3>1 DEF Snapshot
    <3>3. Committed(cs, l)
      BY <1>3, <1>4, <3>2 DEF SnapshotsBut
    <3> QED BY <2>3, <3>3 DEF Pending
  <2> QED BY <2>1, <2>2, <2>3
<1> QED BY <1>1, <1>6, <1>8, <1>9, TakeStep

LEMMA ShowStep == ASSUME NEW c \in calls PROVE ConInv /\ Show(c) => ConInv'
<1> SUFFICES ASSUME ConInv, Show(c) PROVE ConInv'
  OBVIOUS
<1> PICK cs : cs = calls \ {c}
  OBVIOUS
<1> PICK t : t = c.twin
  OBVIOUS
<1> PICK n : n = Get("assets", t)
  OBVIOUS
<1> PICK new : new = {n}
  OBVIOUS
<1> PICK ls : ls = {"assets"}
  OBVIOUS
<1>1. /\ c.is = "get" /\ c.what = "twin" /\ calls' = Overtaken(cs, ls) \cup new /\ current' = t /\ borrowed' = FALSE
      /\ UNCHANGED <<role, user, session, page, behind, astray, assetsOf, active, spin>>
  BY DEF Show, Selected
<1>2. VarsOK /\ CallsOK /\ (user \in {role, None} \/ role = "VIEWER")
  BY ConFacts
<1>3. /\ GetOK(c) /\ cs \in SUBSET Request /\ SnapshotsBut(cs, {})
      /\ \A l \in behind \ astray : Pending(cs, l) \/ l = "assets"
      /\ \A l \in spin : Loading(cs, l) \/ l \in {"twin", "twins"}
  BY ZenonT(30), <1>1, WithoutGet DEF Feeds
<1>4. t \in Twins /\ t # None /\ "assets" \in Lists
  BY <1>1, <1>3, NoneAssumption DEF GetOK, Lists
<1>5. /\ n \in Request /\ n.is = "get" /\ n.what = "assets" /\ n.twin = t
      /\ n.at = "sent" /\ n.by = None /\ ~n.late
  BY <1>4, NewGet
<1>6. Follow(calls', cs, ls, {}, new)
  BY <1>1, <1>3, FollowOvertaken
<1>7. Pending(new, "assets") /\ Loading(new, "twins")
  BY <1>5 DEF Pending, Loading, Fresh, Gets
<1>8. VarsOK'
  BY <1>1, <1>2, <1>4 DEF VarsOK
<1>9. CallsOK'
  <2>1. GetOK(n)'
    <3>1. Home("assets", page')
      BY DEF Home
    <3> QED BY <1>4, <1>5, <3>1 DEF GetOK
  <2>2. \A e \in new : e \in Request /\ (e.is = "get" => GetOK(e)') /\ (e.is = "command" => CommandOK(e)')
    BY <1>5, <2>1
  <2> QED BY <1>1, <1>2, <1>4, <1>6, <2>2, CallsStep
<1>10. AssetsInv'
  <2>1. \A e \in Fresh(new, "assets") : e.twin = current'
    BY <1>1, <1>5 DEF Fresh, Gets
  <2>2. n \in Fresh(new, "assets")
    BY <1>5 DEF Fresh, Gets
  <2> QED BY <1>6, <2>1, <2>2, AssetsAnew
<1>11. \A e \in new : ~Snapshot(e)
  BY <1>5 DEF Snapshot
<1>12. \A l \in behind' \ astray' :
          \/ Pending(new, l)
          \/ Pending(cs, l) /\ l \notin ls \cup {} /\ (l = "assets" => "twin" \notin ls \cup {})
  BY <1>1, <1>3, <1>7
<1>13. \A l \in spin' : Loading(new, l) \/ (Loading(cs, l) /\ l \notin {})
  BY <1>1, <1>2, <1>3, <1>7 DEF VarsOK
<1>14. SnapshotsBut(cs, ls)
  BY <1>3 DEF SnapshotsBut
<1>15. cs \in SUBSET calls /\ {} \cap {"twin", "assets"} = {}
  OBVIOUS
<1>16. user' \in {role', None} \/ role' = "VIEWER"
  BY <1>1, <1>2
<1> QED BY <1>6, <1>8, <1>9, <1>10, <1>11, <1>12, <1>13, <1>14, <1>15, <1>16, ConStep

\* The answer to a command overtakes the loads that are out, and what it has
\* changed is in the list or counts as astray.
LEMMA OvertakeStep ==
    ASSUME ConInv, NEW c \in calls, c.is = "command", NEW cs, cs = calls \ {c}, NEW l \in Lists, l = Changes(c.what),
           calls' = Overtaken(cs, {l}), behind' \in {behind, behind \ {l}}, astray' \in {astray, astray \cup {l}},
           l \notin behind' \/ l \in astray', l = "assets" => l \in astray',
           UNCHANGED <<role, user, session, page, current, assetsOf, active, borrowed, spin>>
    PROVE  ConInv'
<1> PICK ls : ls = {l}
  OBVIOUS
<1>1. VarsOK /\ CallsOK /\ AssetsInv /\ (user \in {role, None} \/ role = "VIEWER")
  BY ConFacts
<1>2. /\ cs \in SUBSET Request /\ SnapshotsBut(cs, ls)
      /\ \A m \in behind \ astray : m \in ls \/ Pending(cs, m)
      /\ \A m \in spin : Loading(cs, m)
      /\ \A w : Fresh(calls, w) \subseteq cs
  <2>1. cs \in SUBSET calls
    OBVIOUS
  <2>2. \A d \in calls \ cs : d.is = "command" /\ (d.at \in {"ok", "failed", "lost"} => Changes(d.what) \in ls)
    OBVIOUS
  <2> QED BY <2>1, <2>2, Without
<1>3. Follow(calls', cs, ls, {}, {})
  <2>1. Overtaken(cs, ls) \cup {} = calls'
    OBVIOUS
  <2>2. \A new : Follow(Overtaken(cs, ls) \cup new, cs, ls, {}, new)
    BY <1>2, FollowOvertaken
  <2> QED BY <2>1, <2>2
<1>4. VarsOK'
  BY <1>1 DEF VarsOK
<1>5. CallsOK'
  <2>1. \A e \in {} : e \in Request /\ (e.is = "get" => GetOK(e)') /\ (e.is = "command" => CommandOK(e)')
    OBVIOUS
  <2> QED BY <1>1, <1>3, <2>1, CallsStep
<1>6. \A e \in Fresh({}, "assets") : FALSE
  BY DEF Fresh, Gets
<1>7. AssetsInv'
  <2>1. CASE l = "assets"
    BY <1>3, <1>6, <2>1, AssetsAnew
  <2>2. CASE l # "assets"
    <3>1. ls \cap {"assets", "twin"} = {}
      BY <2>2 DEF Lists
    <3>2. \A w \in {"assets", "twin"} : \A d \in Fresh(calls, w) : d \in cs \/ \E e \in Fresh({}, w) : TRUE
      BY <1>2
    <3>3. "assets" \in astray => "assets" \in astray'
      OBVIOUS
    <3>4. {} \cap {"assets", "twin"} = {} /\ cs \in SUBSET calls
      OBVIOUS
    <3> QED BY <1>1, <1>3, <1>6, <3>1, <3>2, <3>3, <3>4, AssetsStep
  <2> QED BY <2>1, <2>2
<1>8. \A m \in behind' \ astray' :
          Pending(cs, m) /\ m \notin ls \cup {} /\ (m = "assets" => "twin" \notin ls \cup {})
  BY <1>2 DEF Lists
<1>9. \A m \in spin' : Loading(cs, m)
  BY <1>2
<1>10. cs \in SUBSET calls /\ {} \cap {"twin", "assets"} = {}
  OBVIOUS
<1> QED BY SMTT(20), <1>1, <1>2, <1>3, <1>4, <1>5, <1>7, <1>8, <1>9, <1>10, ConStep

LEMMA DoneStep == ASSUME NEW c \in calls PROVE ConInv /\ Done(c) => ConInv'
<1> SUFFICES ASSUME ConInv, Done(c) PROVE ConInv'
  OBVIOUS
<1> PICK cs : cs = calls \ {c}
  OBVIOUS
<1> PICK l : l = Changes(c.what)
  OBVIOUS
<1> PICK then : then = After[c.what].then
  OBVIOUS
<1>1. /\ c.is = "command" /\ c.at = "ok"
      /\ UNCHANGED <<role, user, session, page, current, assetsOf, active, borrowed>>
      /\ \/ /\ then = "edit" \/ (l \in Local /\ ~c.here)
            /\ calls' = Overtaken(cs, {l})
            /\ behind' = (IF l \in Local /\ ~c.here THEN behind ELSE behind \ {l})
            /\ astray' = (IF l \in Local /\ ~c.here THEN astray \cup {l} ELSE astray)
            /\ UNCHANGED spin
         \/ /\ then # "edit" /\ ~(l \in Local /\ ~c.here)
            /\ calls' = (IF then = "twin" /\ current # None
                         THEN Overtaken(cs, {"twin", "assets"}) \cup {Get("twin", current)}
                         ELSE Asked(cs, page, {then}, None))
            /\ spin' = spin \cup Spun({then})
            /\ UNCHANGED <<behind, astray>>
  BY DEF Done
<1>2. VarsOK /\ CommandOK(c)
  BY <1>1, ConFacts DEF CallsOK
<1>3. /\ l \in Lists
      /\ \/ then = "edit" /\ l \in {"sensors", "alerts"}
         \/ then = l /\ l # "assets"
         \/ then = "twin" /\ l = "assets"
  BY <1>2, ChangesTable, AfterThen DEF CommandOK
<1>4. "assets" \notin Local /\ "edit" \notin Lists
  BY DEF Local, Lists
<1>5. CASE /\ then = "edit" \/ (l \in Local /\ ~c.here)
           /\ calls' = Overtaken(cs, {l})
           /\ behind' = (IF l \in Local /\ ~c.here THEN behind ELSE behind \ {l})
           /\ astray' = (IF l \in Local /\ ~c.here THEN astray \cup {l} ELSE astray)
           /\ UNCHANGED spin
  <2>1. behind' \in {behind, behind \ {l}} /\ astray' \in {astray, astray \cup {l}} /\ (l \notin behind' \/ l \in astray')
    BY <1>5
  <2>2. l # "assets"
    BY <1>3, <1>4, <1>5
  <2> QED BY <1>1, <1>3, <1>5, <2>1, <2>2, OvertakeStep
<1>6. CASE /\ then # "edit" /\ ~(l \in Local /\ ~c.here)
           /\ calls' = (IF then = "twin" /\ current # None
                        THEN Overtaken(cs, {"twin", "assets"}) \cup {Get("twin", current)}
                        ELSE Asked(cs, page, {then}, None))
           /\ spin' = spin \cup Spun({then})
           /\ UNCHANGED <<behind, astray>>
  <2>0. cs \in SUBSET calls
    OBVIOUS
  <2>1. \A d \in calls \ cs : d.is = "command" /\ (d.at \in {"ok", "failed", "lost"} => Changes(d.what) = l)
    BY <1>1
  <2>2. CASE then = "twin"
    <3>1. l = "assets" /\ current \in Twins
      BY <1>2, <1>3, <2>2 DEF CommandOK, VarsOK, Lists
    <3>2. calls' = Overtaken(cs, {"twin", "assets"}) \cup {Get("twin", current)}
      BY <1>6, <2>2, <3>1, NoneAssumption
    <3>3. spin' = spin \cup {"twins"}
      BY <1>6, <2>2 DEF Spun
    <3>4. PICK t \in Twins : t = current
      BY <3>1
    <3> QED BY <1>1, <1>6, <2>0, <2>1, <3>1, <3>2, <3>3, <3>4, SelectTwin
  <2>3. CASE then # "twin"
    <3>1. then = l /\ l \in {"twins", "sensors", "models", "alerts"}
      BY <1>3, <1>6, <2>3 DEF Lists
    <3>2. Home(l, page)
      BY <1>2, <1>6, <3>1 DEF CommandOK, Home, Local
    <3>3. calls' = Asked(cs, page, {l}, None) /\ spin' = spin \cup Spun({l})
      BY <1>6, <2>3, <3>1
    <3>4. UNCHANGED <<role, user, session, page, behind, astray, current, assetsOf, active, borrowed>>
      BY <1>1, <1>6
    <3>5. l \in {"twins", "sensors", "models", "alerts"} /\ spin' \in {spin, spin \cup Spun({l})}
      BY <3>1, <3>3
    <3>6. \A d \in calls \ cs : d.is = "command" /\ (d.at \in {"ok", "failed", "lost"} => Changes(d.what) = l)
      BY <2>1
    <3> QED BY SMTT(20), <2>0, <3>2, <3>3, <3>4, <3>5, <3>6, AskStep
  <2> QED BY <2>2, <2>3
<1> QED BY <1>1, <1>5, <1>6

LEMMA RefusedStep == ASSUME NEW c \in calls PROVE ConInv /\ Refused(c) => ConInv'
<1> SUFFICES ASSUME ConInv, Refused(c) PROVE ConInv'
  OBVIOUS
<1> PICK cs : cs = calls \ {c}
  OBVIOUS
<1> PICK l : l = Changes(c.what)
  OBVIOUS
<1>1. /\ c.is = "command" /\ c.at \in {"denied", "failed", "lost"}
      /\ IF c.at # "denied" THEN calls' = Overtaken(cs, {l}) /\ astray' = astray \cup {l}
                            ELSE calls' = cs /\ UNCHANGED astray
      /\ UNCHANGED <<role, user, session, page, behind, current, assetsOf, active, borrowed, spin>>
  BY DEF Refused
<1>2. VarsOK /\ CallsOK /\ AssetsInv /\ CommandOK(c) /\ (user \in {role, None} \/ role = "VIEWER")
  BY <1>1, ConFacts DEF CallsOK
<1>3. l \in Lists
  BY <1>2, ChangesTable DEF CommandOK
<1>4. CASE c.at # "denied"
  BY <1>1, <1>3, <1>4, OvertakeStep
<1>5. CASE c.at = "denied"
  <2>1. cs \in SUBSET calls /\ {} \cap {"twin", "assets"} = {}
    OBVIOUS
  <2>2. /\ cs \in SUBSET Request /\ SnapshotsBut(cs, {})
        /\ \A m \in behind \ astray : m \in {} \/ Pending(cs, m)
        /\ \A m \in spin : Loading(cs, m)
        /\ \A w : Fresh(calls, w) \subseteq cs
    <3>1. \A d \in calls \ cs : d.is = "command" /\ (d.at \in {"ok", "failed", "lost"} => Changes(d.what) \in {})
      BY <1>1, <1>5
    <3> QED BY <2>1, <3>1, Without
  <2>3. Follow(calls', cs, {}, {}, {})
    <3>1. cs \cup {} = calls'
      BY <1>1, <1>5
    <3>2. \A new : Follow(cs \cup new, cs, {}, {}, new)
      BY <2>2, FollowSame
    <3> QED BY <3>1, <3>2
  <2>4. VarsOK' /\ UNCHANGED <<behind, astray, spin>>
    BY <1>1, <1>2, <1>5 DEF VarsOK
  <2>5. CallsOK'
    <3>1. \A e \in {} : e \in Request /\ (e.is = "get" => GetOK(e)') /\ (e.is = "command" => CommandOK(e)')
      OBVIOUS
    <3> QED BY <1>1, <1>2, <2>1, <2>3, <3>1, CallsStep
  <2>6. AssetsInv'
    <3>1. \A e \in Fresh({}, "assets") : FALSE
      BY DEF Fresh, Gets
    <3>2. \A w \in {"assets", "twin"} : \A d \in Fresh(calls, w) : d \in cs \/ \E e \in Fresh({}, w) : TRUE
      BY <2>2
    <3> QED BY <1>1, <1>2, <2>1, <2>3, <2>4, <3>1, <3>2, AssetsStep
  <2>7. \A m \in behind' \ astray' :
            Pending(cs, m) /\ m \notin {} \cup {} /\ (m = "assets" => "twin" \notin {} \cup {})
    BY <2>2, <2>4
  <2> QED BY <1>1, <1>2, <2>1, <2>2, <2>3, <2>4, <2>5, <2>6, <2>7, ConStep
<1> QED BY <1>4, <1>5

-----------------------------------------------------------------------------
LEMMA StutterStep == ConInv /\ UNCHANGED vars => ConInv'
<1> SUFFICES ASSUME ConInv, UNCHANGED vars PROVE ConInv'
  OBVIOUS
<1>1. VarsOK /\ calls \in SUBSET Request /\ (user \in {role, None} \/ role = "VIEWER")
  BY ConFacts
<1>2. calls' = calls \cup {}
  BY DEF vars
<1>3. Follow(calls', calls, {}, {}, {})
  <2>1. \A new : Follow(calls \cup new, calls, {}, {}, new)
    BY <1>1, FollowSame
  <2> QED BY <1>2, <2>1
<1>4. UNCHANGED <<role, user, session, page, behind, astray, current, assetsOf, active, borrowed, spin>>
  BY DEF vars
<1>5. VarsOK'
  BY <1>1, <1>4 DEF VarsOK
<1> QED BY <1>1, <1>3, <1>4, <1>5, QuietStep

LEMMA NextStep == ConInv /\ [Next]_vars => ConInv'
<1> SUFFICES ASSUME ConInv, [Next]_vars PROVE ConInv'
  OBVIOUS
<1>1. CASE Login \/ FollowLink \/ Logout \/ Refresh \/ Demote \/ Expire \/ Poll
  BY <1>1, LoginStep, FollowLinkStep, LogoutStep, RefreshStep, DemoteStep, ExpireStep, PollStep
<1>2. CASE \E p \in DOMAIN Pages : Open(p)
  BY <1>2, OpenStep
<1>3. CASE \E t \in Twins : Select(t) \/ ChooseTwin(t)
  BY <1>3, SelectStep, ChooseTwinStep
<1>4. CASE \E cmd \in DOMAIN Routes : Click(cmd)
  BY <1>4, ClickStep
<1>5. CASE \E c \in calls : Handle(c) \/ Fail(c) \/ Receive(c)
  <2> PICK c \in calls : Handle(c) \/ Fail(c) \/ Receive(c)
    BY <1>5
  <2> QED BY HandleStep, FailStep, UnauthorizedStep, RetryStep, GiveUpStep, LoadStep, ShowStep, DoneStep,
             RefusedStep DEF Receive
<1>6. CASE UNCHANGED vars
  BY <1>6, StutterStep
<1> QED BY <1>1, <1>2, <1>3, <1>4, <1>5, <1>6 DEF Next

\* The console's invariant holds in every state: whatever is clicked, opened and
\* answered in whatever order, and for any number of twins and requests.
THEOREM ConInvariant == Spec => []ConInv
<1>1. Init => ConInv
  BY InitCon
<1>2. ConInv /\ [Next]_vars => ConInv'
  BY NextStep
<1> QED BY <1>1, <1>2, PTL DEF Spec

\* Every variable has its values, and a page's own lists are asked for only
\* while it is open.
THEOREM ConsoleTypes == Spec => []TypeOK
<1>1. ConInv => TypeOK
  BY DEF ConInv
<1> QED BY <1>1, ConInvariant, PTL

\* A list lacks a change of this tab only while the command or a load of it is
\* out, or after a load that failed or was overtaken (each handler's reload
\* after its await), for any number of twins and of requests out.
THEOREM ReadYourWritesCorrect == Spec => []ReadYourWrites
<1>1. ConInv => ReadYourWrites
  BY DEF ConInv, WritesInv, ReadYourWrites, Pending, Committed, Fresh
<1> QED BY <1>1, ConInvariant, PTL

\* With no load out, the hierarchy on the twins page is that of the twin in its
\* heading, unless loads overtook each other or the viewer used the same store
\* (selectTwin and fetchAssets), for any number of twins.
THEOREM AssetsMatchCorrect == Spec => []AssetsMatch
<1>1. ConInv => AssetsMatch
  BY DEF ConInv, AssetsInv, AssetsMatch, Fresh
<1> QED BY <1>1, ConInvariant, PTL

\* A spinner turns only while a load is out whose answer stops it (isLoading of
\* the stores), however the answers come in.
THEOREM SpinnerEndsCorrect == Spec => []SpinnerEnds
<1>1. ConInv => SpinnerEnds
  BY DEF ConInv
<1> QED BY <1>1, ConInvariant, PTL

\* Only Demote changes a role, and it answers nothing.
LEMMA RolesStay == [Next]_vars => role' = role \/ calls' = calls
<1> SUFFICES ASSUME [Next]_vars PROVE role' = role \/ calls' = calls
  OBVIOUS
<1>1. CASE Login \/ FollowLink \/ Logout \/ Refresh \/ Demote \/ Expire \/ Poll
  BY <1>1 DEF Login, FollowLink, Logout, Refresh, Demote, Expire, Poll
<1>2. CASE \E p \in DOMAIN Pages : Open(p)
  BY <1>2 DEF Open
<1>3. CASE \E t \in Twins : Select(t) \/ ChooseTwin(t)
  BY <1>3 DEF Select, ChooseTwin
<1>4. CASE \E cmd \in DOMAIN Routes : Click(cmd)
  BY <1>4 DEF Click
<1>5. ASSUME NEW c \in calls, Handle(c) \/ Fail(c) \/ Receive(c) PROVE role' = role
  BY <1>5 DEF Handle, Fail, Receive, Unauthorized, Retry, GiveUp, Load, Show, Done, Refused
<1>6. CASE UNCHANGED vars
  BY <1>6 DEF vars
<1> QED BY <1>1, <1>2, <1>3, <1>4, <1>5, <1>6 DEF Next

LEMMA NotDenied ==
    ASSUME ConInv, ConInv', role' = role \/ calls' = calls,
           NEW c \in calls, c.at = "sent", c.by = role, c.what \notin Lax
    PROVE  Handled(c, "denied", FALSE) # calls'
<1> SUFFICES ASSUME Handled(c, "denied", FALSE) = calls' PROVE FALSE
  OBVIOUS
<1> PICK a : a = AnswerTo(c, "denied", FALSE)
  OBVIOUS
<1>1. c \in Request /\ (c.is = "get" => GetOK(c)) /\ (c.is = "command" => CommandOK(c)) /\ role \in Anyone
  BY ConFacts DEF CallsOK, VarsOK
<1>2. c.is = "command" /\ CommandOK(c)
  BY <1>1, NoneAssumption DEF GetOK, Request
<1>3. c.what \in Commands \ Lax /\ role \in Routes[c.what]
  BY <1>2 DEF CommandOK
<1>4. role # "VIEWER"
  BY <1>3, RouteRoles DEF Managers, Operators
<1>5. a.is = "command" /\ a.at = "denied" /\ a.what = Handler[c.what]
  BY <1>1, <1>2 DEF AnswerTo, Request
<1>6. calls' = (calls \ {c}) \cup {a}
  BY DEF Handled, AnswerTo
<1>7. c \notin calls'
  BY <1>5, <1>6
<1>8. role' = role
  BY <1>7
<1>9. CommandOK(a)'
  <2>1. CallsOK'
    BY DEF ConInv
  <2>2. a \in calls'
    BY <1>6
  <2> QED BY <1>5, <2>1, <2>2 DEF CallsOK
<1>10. PICK k \in Commands : Handler[k] = a.what /\ role \notin Routes[k] /\ k \in Lax
  BY <1>4, <1>5, <1>8, <1>9 DEF CommandOK
<1>11. Routes[c.what] \subseteq Routes[k]
  BY <1>3, <1>5, <1>10, SharedHandlers
<1> QED BY <1>3, <1>10, <1>11

\* No step lets the server deny a command that a user was shown the button of
\* in the role he still has, those in Lax aside (canEdit, canDelete and
\* canUpload of the pages against the @Roles of the controllers).
THEOREM OfferedCorrect == Spec => OfferedIsGranted
<1>1. ConInv /\ ConInv' /\ [Next]_vars =>
          [\A c \in calls : c.at = "sent" /\ c.by = role /\ c.what \notin Lax =>
               Handled(c, "denied", FALSE) # calls']_vars
  BY NotDenied, RolesStay
<1> QED BY <1>1, ConInvariant, PTL DEF Spec, OfferedIsGranted

-----------------------------------------------------------------------------
(* Playback.                                                               *)
Captured(pl, n) ==
    /\ pl.loading => ~pl.loaded /\ ~pl.playing /\ pl.timer = Nothing /\ pl.tick = 0
    /\ ~pl.loaded => pl.totalFrames = 0
    /\ pl.timer # Nothing => pl.timer <= pl.totalFrames /\ pl.frame < pl.totalFrames + n

PlayInv ==
    /\ PlaybackTypeOK
    /\ TimersOwned
    /\ \A p \in Players : Captured(player[p], presses)
    /\ \A p \in fresh : player[p] = Blank

-----------------------------------------------------------------------------
LEMMA InitPlay == PlaybackInit => PlayInv
<1> SUFFICES ASSUME PlaybackInit PROVE PlayInv
  OBVIOUS
<1>0. Blank \in Controls
  <2>1. 0 \in Frames
    BY PlaybackAssumption DEF Frames
  <2> QED BY <2>1 DEF Blank, Controls
<1>1. PlaybackTypeOK
  <2>1. player \in [Players -> Controls]
    BY <1>0 DEF PlaybackInit
  <2>2. ASSUME NEW p \in Players PROVE player[p].frame <= player[p].totalFrames + presses
    <3>1. player[p].frame = 0 /\ player[p].totalFrames = 0 /\ presses = 0
      BY DEF PlaybackInit, Blank
    <3> QED BY <3>1
  <2>3. presses \in 0..MaxPresses
    BY PlaybackAssumption DEF PlaybackInit
  <2> QED BY <2>1, <2>2, <2>3 DEF PlaybackInit, PlaybackTypeOK
<1>2. TimersOwned
  BY DEF PlaybackInit, Blank, TimersOwned
<1>3. \A p \in Players : Captured(player[p], presses)
  BY DEF PlaybackInit, Blank, Captured
<1>4. \A p \in fresh : player[p] = Blank
  BY DEF PlaybackInit
<1> QED BY <1>1, <1>2, <1>3, <1>4 DEF PlayInv

-----------------------------------------------------------------------------
(* One step changes the controls of one player at most: what remains to be *)
(* shown is about those.                                                   *)
LEMMA OnePlayer ==
    ASSUME PlayInv, presses' \in 0..MaxPresses, presses' >= presses,
           NEW p \in Players, NEW pl \in Controls, Put(p, pl),
           pl.frame <= pl.totalFrames + presses', Captured(pl, presses'),
           up' \in Players \cup {Nothing}, fresh' \subseteq fresh \ {p, up'},
           ended' \subseteq Players, show' \in BOOLEAN, shown' \in Frames \cup {Nothing},
           IF p = up' THEN pl.playing <=> pl.timer # Nothing ELSE pl.timer # Nothing => ~pl.playing,
           up' # up => up = p /\ up' = Nothing
    PROVE  PlayInv'
<1> USE PlaybackAssumption DEF Put
<1>1. player \in [Players -> Controls]
  BY DEF PlayInv, PlaybackTypeOK
<1>2. /\ player' \in [Players -> Controls] /\ player'[p] = pl
      /\ \A q \in Players \ {p} : player'[q] = player[q]
  BY <1>1
<1>3. \A q \in Players : player[q].frame \in Nat /\ player[q].totalFrames \in Nat
  BY <1>1 DEF Controls, Frames
<1>4. presses \in Nat /\ presses' \in Nat
  BY DEF PlayInv, PlaybackTypeOK
<1>5. PlaybackTypeOK'
  <2>1. \A q \in Players : player'[q].frame <= player'[q].totalFrames + presses'
    BY <1>2, <1>3, <1>4 DEF PlayInv, PlaybackTypeOK
  <2>2. fresh' \subseteq Players \ {up'}
    BY DEF PlayInv, PlaybackTypeOK
  <2> QED BY <1>2, <2>1, <2>2 DEF PlaybackTypeOK
<1>6. TimersOwned'
  BY <1>2 DEF PlayInv, TimersOwned
<1>7. \A q \in Players : Captured(player'[q], presses')
  <2> SUFFICES ASSUME NEW q \in Players \ {p} PROVE Captured(player[q], presses')
    BY <1>2
  <2> QED BY <1>3, <1>4 DEF PlayInv, Captured
<1>8. \A q \in fresh' : player'[q] = Blank
  BY <1>2 DEF PlayInv, PlaybackTypeOK
<1> QED BY <1>5, <1>6, <1>7, <1>8 DEF PlayInv

(* Nothing of the controls changes.                                        *)
LEMMA NoPlayer ==
    ASSUME PlayInv, UNCHANGED player, presses' \in 0..MaxPresses, presses' >= presses,
           up' \in Players \cup {Nothing}, fresh' \subseteq fresh \ {up'},
           ended' \subseteq Players, show' \in BOOLEAN, shown' \in Frames \cup {Nothing},
           up' # up => up = Nothing /\ up' \in fresh
    PROVE  PlayInv'
<1> USE PlaybackAssumption
<1>1. \A q \in Players : player[q].frame \in Nat /\ player[q].totalFrames \in Nat
  BY DEF PlayInv, PlaybackTypeOK, Controls, Frames
<1>2. presses \in Nat /\ presses' \in Nat
  BY DEF PlayInv, PlaybackTypeOK
<1>3. PlaybackTypeOK'
  <2>1. \A q \in Players : player[q].frame <= player[q].totalFrames + presses'
    BY <1>1, <1>2 DEF PlayInv, PlaybackTypeOK
  <2> QED BY <2>1 DEF PlayInv, PlaybackTypeOK
<1>4. TimersOwned'
  <2>1. CASE up' = up
    BY <2>1 DEF PlayInv, TimersOwned
  <2>2. CASE up' # up
    <3>1. ~player[up'].playing /\ player[up'].timer = Nothing
      BY <2>2 DEF PlayInv, Blank
    <3> QED BY <2>2, <3>1 DEF PlayInv, TimersOwned, PlaybackTypeOK
  <2> QED BY <2>1, <2>2
<1>5. \A q \in Players : Captured(player[q], presses')
  BY <1>1, <1>2 DEF PlayInv, Captured
<1> QED BY <1>3, <1>4, <1>5 DEF PlayInv

-----------------------------------------------------------------------------
(* The steps.                                                              *)
LEMMA UpHasValues ==
    ASSUME PlayInv, up # Nothing
    PROVE  /\ up \in Players /\ player[up] \in Controls /\ Captured(player[up], presses)
           /\ up \notin fresh
           /\ player[up].frame <= player[up].totalFrames + presses
           /\ player[up].playing <=> player[up].timer # Nothing
  BY DEF PlayInv, PlaybackTypeOK, TimersOwned

LEMMA PressedOnce ==
    ASSUME PlayInv, Pressed
    PROVE  presses' \in 0..MaxPresses /\ presses' = presses + 1 /\ presses' >= presses /\ presses \in Nat
  BY PlaybackAssumption DEF PlayInv, PlaybackTypeOK, Pressed

LEMMA MountControlsStep ==
    ASSUME PlayInv, MountControls, Pressed, up = Nothing, UNCHANGED <<ended, shown>>,
           show' \in BOOLEAN
    PROVE  PlayInv'
<1>1. up' \in fresh /\ fresh' = fresh \ {up'} /\ UNCHANGED player
  BY DEF MountControls
<1>2. /\ up' \in Players \cup {Nothing} /\ ended' \subseteq Players
      /\ shown' \in Frames \cup {Nothing}
  BY <1>1 DEF PlayInv, PlaybackTypeOK
<1> QED BY <1>1, <1>2, PressedOnce, NoPlayer

LEMMA UnmountControlsStep ==
    ASSUME PlayInv, UnmountControls, Pressed, up # Nothing, UNCHANGED <<viewer, ended>>
    PROVE  PlayInv'
<1> DEFINE pl == Cleared(player[up])
<1>1. pl \in Controls /\ pl.timer = Nothing /\ pl.frame = player[up].frame
      /\ pl.totalFrames = player[up].totalFrames
  BY UpHasValues DEF Cleared, Controls
<1>2. player[up].frame \in Nat /\ player[up].totalFrames \in Nat
  BY UpHasValues DEF Controls, Frames
<1>3. pl.frame <= pl.totalFrames + presses'
  BY <1>1, <1>2, UpHasValues, PressedOnce
<1>4. Captured(pl, presses')
  BY UpHasValues DEF Captured, Cleared, Controls
<1>5. /\ Put(up, pl) /\ up' = Nothing /\ fresh' \subseteq fresh \ {up, up'}
      /\ ended' \subseteq Players /\ show' \in BOOLEAN /\ shown' \in Frames \cup {Nothing}
  BY UpHasValues, PlaybackAssumption DEF UnmountControls, PlayInv, PlaybackTypeOK, viewer
<1> HIDE DEF pl
<1> QED BY <1>1, <1>3, <1>4, <1>5, UpHasValues, PressedOnce, OnePlayer, PlaybackAssumption

LEMMA DockSteps == PlayInv /\ (ToggleDock \/ TogglePlayback) => PlayInv'
<1>1. ASSUME PlayInv, ToggleDock PROVE PlayInv'
  <2>1. CASE up = Nothing
    BY <1>1, <2>1, MountControlsStep DEF ToggleDock, viewer, PlayInv, PlaybackTypeOK
  <2>2. CASE up # Nothing
    BY <1>1, <2>2, UnmountControlsStep DEF ToggleDock
  <2> QED BY <2>1, <2>2
<1>2. ASSUME PlayInv, TogglePlayback PROVE PlayInv'
  <2>1. show' \in BOOLEAN
    BY <1>2 DEF TogglePlayback, PlayInv, PlaybackTypeOK
  <2>2. CASE up = Nothing
    BY <1>2, <2>1, <2>2, MountControlsStep DEF TogglePlayback
  <2>3. CASE up # Nothing
    <3>1. /\ up' \in Players /\ up' = up /\ UNCHANGED player /\ fresh' = fresh
          /\ up' \notin fresh /\ ended' \subseteq Players
          /\ shown' \in Frames \cup {Nothing}
      BY <1>2, <2>3, UpHasValues DEF TogglePlayback, PlayInv, PlaybackTypeOK
    <3> QED BY <1>2, <2>1, <3>1, PressedOnce, NoPlayer DEF TogglePlayback
  <2> QED BY <2>2, <2>3
<1> QED BY <1>1, <1>2

(* What the buttons have in common.                                        *)
LEMMA PressStep ==
    ASSUME PlayInv, Pressed, up # Nothing, UNCHANGED <<up, fresh, viewer>>,
           NEW pl \in Controls, Put(up, pl), ended' \subseteq ended,
           pl.totalFrames = player[up].totalFrames,
           pl.frame <= player[up].frame,
           Captured(pl, presses'), pl.playing <=> pl.timer # Nothing
    PROVE  PlayInv'
<1>1. /\ pl.frame \in Nat /\ pl.totalFrames \in Nat
      /\ player[up].frame \in Nat
  BY UpHasValues DEF Controls, Frames
<1>2. pl.frame <= pl.totalFrames + presses'
  BY <1>1, UpHasValues, PressedOnce
<1>3. /\ up \in Players /\ up' = up /\ up' \in Players \cup {Nothing}
      /\ fresh' \subseteq fresh \ {up, up'} /\ ended' \subseteq Players
      /\ show' \in BOOLEAN /\ shown' \in Frames \cup {Nothing}
  BY UpHasValues DEF PlayInv, PlaybackTypeOK, viewer
<1> QED BY <1>2, <1>3, PressedOnce, OnePlayer

LEMMA PlayStep == PlayInv /\ Play => PlayInv'
<1> SUFFICES ASSUME PlayInv, Play PROVE PlayInv'
  OBVIOUS
<1> DEFINE old == player[up]
<1>1. /\ Pressed /\ up # Nothing /\ UNCHANGED <<up, fresh, viewer>> /\ ended' \subseteq ended
      /\ ~old.playing /\ ~old.loading
  BY DEF Play
<1>2. /\ old \in Controls /\ Captured(old, presses) /\ old.timer = Nothing
      /\ old.frame \in Nat /\ old.totalFrames \in Frames /\ old.totalFrames \in Nat
      /\ old.totalFrames # Nothing /\ old.frame <= old.totalFrames + presses
  BY <1>1, UpHasValues, PlaybackAssumption DEF Controls, Frames
<1>3. CASE old.loaded
  <2> DEFINE new == [old EXCEPT !.playing = TRUE, !.timer = old.totalFrames]
  <2>1. /\ Put(up, new) /\ new \in Controls /\ new.totalFrames = old.totalFrames
        /\ new.frame = old.frame /\ new.playing /\ new.timer = old.totalFrames
        /\ ~new.loading /\ new.loaded
    BY <1>1, <1>2, <1>3 DEF Play, Controls
  <2>2. Captured(new, presses')
    BY <1>1, <1>2, <2>1, PressedOnce DEF Captured
  <2>3. new.frame <= old.frame /\ (new.playing <=> new.timer # Nothing)
    BY <1>2, <2>1
  <2> HIDE DEF new
  <2> QED BY <1>1, <2>1, <2>2, <2>3, PressStep
<1>4. CASE ~old.loaded
  <2> DEFINE new == [old EXCEPT !.loading = TRUE, !.tick = old.totalFrames]
  <2>1. /\ Put(up, new) /\ new \in Controls /\ new.totalFrames = old.totalFrames
        /\ new.frame = old.frame /\ ~new.playing /\ new.timer = Nothing
        /\ ~new.loaded /\ new.tick = old.totalFrames
    BY <1>1, <1>2, <1>4 DEF Play, Controls
  <2>2. Captured(new, presses')
    BY <1>2, <1>4, <2>1 DEF Captured
  <2>3. new.frame <= old.frame
    BY <1>2, <2>1
  <2> HIDE DEF new
  <2> QED BY <1>1, <2>1, <2>2, <2>3, PressStep
<1> QED BY <1>3, <1>4

LEMMA PauseSteps == PlayInv /\ (Pause \/ Reset) => PlayInv'
<1> SUFFICES ASSUME PlayInv, Pause \/ Reset PROVE PlayInv'
  OBVIOUS
<1> DEFINE old == player[up]
<1>1. /\ Pressed /\ up # Nothing /\ UNCHANGED <<up, fresh, viewer>> /\ ended' \subseteq ended
      /\ ~old.loading
  BY UpHasValues DEF Pause, Reset, Captured
<1>2. old \in Controls /\ Captured(old, presses) /\ old.frame \in Nat /\ 0 <= old.frame
  BY <1>1, UpHasValues DEF Controls
<1>3. CASE Pause
  <2> DEFINE new == Paused(old)
  <2>1. /\ Put(up, new) /\ new \in Controls /\ new.totalFrames = old.totalFrames
        /\ new.frame = old.frame /\ ~new.playing /\ new.timer = Nothing /\ ~new.loading
        /\ new.loaded = old.loaded
    BY <1>1, <1>2, <1>3 DEF Pause, Paused, Cleared, Controls
  <2>2. Captured(new, presses')
    BY <1>2, <2>1 DEF Captured
  <2>3. new.frame <= old.frame
    BY <1>2, <2>1
  <2> HIDE DEF new
  <2> QED BY <1>1, <2>1, <2>2, <2>3, PressStep
<1>4. CASE Reset
  <2> DEFINE new == [Paused(old) EXCEPT !.frame = 0]
  <2>1. /\ Put(up, new) /\ new \in Controls /\ new.totalFrames = old.totalFrames
        /\ new.frame = 0 /\ ~new.playing /\ new.timer = Nothing /\ ~new.loading
        /\ new.loaded = old.loaded
    BY <1>1, <1>2, <1>4 DEF Reset, Paused, Cleared, Controls
  <2>2. Captured(new, presses')
    BY <1>2, <2>1 DEF Captured
  <2>3. new.frame <= old.frame
    BY <1>2, <2>1
  <2> HIDE DEF new
  <2> QED BY <1>1, <2>1, <2>2, <2>3, PressStep
<1> QED BY <1>3, <1>4

(* A frame is shown: of the interval or of a skip.                         *)
LEMMA StepStep ==
    ASSUME PlayInv, NEW p \in Players, p \notin fresh, player[p].timer # Nothing,
           NEW total \in Frames, total <= player[p].totalFrames,
           NEW f \in Int, f >= -1, f < player[p].totalFrames + presses,
           player[p].totalFrames > 0 => f >= 0,
           Step(p, [player[p] EXCEPT !.frame = f], total),
           presses' \in 0..MaxPresses, presses' >= presses
    PROVE  PlayInv'
<1> DEFINE old == player[p]
           pl == [old EXCEPT !.frame = f]
           moved == [pl EXCEPT !.frame = Advanced(@)]
           over == Advanced(pl.frame) >= total
           new == IF over THEN [Cleared(moved) EXCEPT !.playing = IF p = up THEN FALSE ELSE @]
                  ELSE moved
<1>1. /\ old \in Controls /\ Captured(old, presses) /\ old.totalFrames \in Nat
      /\ old.totalFrames \in Frames /\ old.totalFrames <= MaxFrames
  BY DEF PlayInv, PlaybackTypeOK, Controls, Frames
<1>2. total \in Nat /\ presses \in Nat /\ presses' \in Nat
  BY PlaybackAssumption DEF PlayInv, PlaybackTypeOK, Frames
<1>3. pl.frame = f /\ pl.totalFrames = old.totalFrames /\ Advanced(pl.frame) = f + 1
  BY <1>1 DEF Advanced, Controls
<1>4. IF p = up THEN old.playing ELSE ~old.playing
  BY DEF PlayInv, TimersOwned
<1>5. /\ moved \in Controls /\ moved.frame = f + 1 /\ moved.totalFrames = old.totalFrames
      /\ moved.timer = old.timer /\ moved.playing = old.playing
      /\ moved.loading = old.loading /\ moved.loaded = old.loaded
  <2>1. f + 1 \in Nat
    OBVIOUS
  <2> QED BY <1>1, <2>1 DEF Advanced, Controls
<1> HIDE DEF moved
<1>6. /\ new \in Controls /\ new.frame = f + 1 /\ new.totalFrames = old.totalFrames
      /\ new.timer = (IF over THEN Nothing ELSE old.timer)
      /\ new.loading = old.loading /\ new.loaded = old.loaded
      /\ IF p = up THEN new.playing <=> new.timer # Nothing ELSE new.timer # Nothing => ~new.playing
  BY <1>4, <1>5 DEF Cleared, Controls
<1>7. Captured(new, presses')
  <2>1. new.timer # Nothing => f + 1 < old.totalFrames + presses'
    BY <1>1, <1>2, <1>3, <1>6
  <2> QED BY <1>1, <1>6, <2>1 DEF Captured
<1>8. new.frame <= new.totalFrames + presses'
  BY <1>1, <1>2, <1>6
<1>9. /\ Put(p, new) /\ show' \in BOOLEAN /\ UNCHANGED <<up, fresh>>
      /\ shown' = (IF over \/ pl.totalFrames = 0 THEN Nothing ELSE Least(pl.frame, pl.totalFrames - 1))
      /\ ended' = (IF over THEN ended \cup {p} ELSE ended)
  BY DEF Step, moved
<1>10. shown' \in Frames \cup {Nothing}
  <2>1. old.totalFrames > 0 => Least(f, old.totalFrames - 1) \in Frames
    BY <1>1, PlaybackAssumption DEF Least, Frames
  <2> QED BY <1>1, <1>3, <1>9, <2>1
<1>11. /\ ended' \subseteq Players /\ up' = up /\ up' \in Players \cup {Nothing}
       /\ fresh' \subseteq fresh \ {p, up'}
  BY <1>9 DEF PlayInv, PlaybackTypeOK
<1> HIDE DEF new
<1> QED BY <1>6, <1>7, <1>8, <1>9, <1>10, <1>11, OnePlayer

LEMMA SkipStep == PlayInv /\ SkipForward => PlayInv'
<1> SUFFICES ASSUME PlayInv, SkipForward PROVE PlayInv'
  OBVIOUS
<1> DEFINE old == player[up]
           f == Skipped(old)
<1>1. /\ Pressed /\ up # Nothing /\ old.playing
      /\ Step(up, [old EXCEPT !.frame = f], old.totalFrames)
  BY DEF SkipForward
<1>2. /\ up \in Players /\ up \notin fresh /\ old.timer # Nothing /\ old.totalFrames \in Frames
      /\ old.totalFrames \in Nat /\ old.frame \in Nat
  BY <1>1, UpHasValues DEF Controls, Frames
<1>3. /\ f \in Int /\ f >= -1 /\ f < old.totalFrames + presses
      /\ old.totalFrames > 0 => f >= 0
  BY <1>1, <1>2, PressedOnce, PlaybackAssumption DEF Skipped, Least
<1> HIDE DEF f
<1> QED BY <1>1, <1>2, <1>3, PressedOnce, StepStep

LEMMA TickStep == ASSUME NEW p \in Players, PlayInv, Tick(p) PROVE PlayInv'
<1> DEFINE old == player[p]
<1>1. old.timer # Nothing /\ Step(p, old, old.timer) /\ presses' = presses
  BY DEF Tick
<1>2. /\ old \in Controls /\ Captured(old, presses) /\ old.frame \in Nat
      /\ old = [old EXCEPT !.frame = old.frame]
  BY DEF PlayInv, PlaybackTypeOK, Controls
<1>3. old.timer \in Frames /\ old.timer <= old.totalFrames /\ old.frame < old.totalFrames + presses
  BY <1>1, <1>2 DEF Captured, Controls
<1>4. p \notin fresh
  BY <1>1 DEF PlayInv, Blank
<1>5. presses' \in 0..MaxPresses /\ presses' >= presses
  BY <1>1, PlaybackAssumption DEF PlayInv, PlaybackTypeOK
<1>6. Step(p, [player[p] EXCEPT !.frame = old.frame], old.timer)
  BY <1>1, <1>2
<1>7. old.frame \in Int /\ old.frame >= -1 /\ old.frame >= 0
  BY <1>2
<1> QED BY <1>1, <1>3, <1>4, <1>5, <1>6, <1>7, StepStep

LEMMA LoadedStep == ASSUME NEW p \in Players, PlayInv, Loaded(p) PROVE PlayInv'
<1> DEFINE old == player[p]
<1>1. PICK n \in Frames :
        Put(p, [old EXCEPT !.loading = FALSE, !.loaded = TRUE, !.frame = 0, !.totalFrames = n,
                           !.playing = (p = up /\ n > 0),
                           !.timer = IF n > 0 THEN old.tick ELSE Nothing])
  BY DEF Loaded
<1> DEFINE new == [old EXCEPT !.loading = FALSE, !.loaded = TRUE, !.frame = 0, !.totalFrames = n,
                              !.playing = (p = up /\ n > 0),
                              !.timer = IF n > 0 THEN old.tick ELSE Nothing]
<1>2. /\ old \in Controls /\ old.loading /\ old.tick = 0 /\ old.tick # Nothing
      /\ p \notin fresh /\ UNCHANGED <<up, fresh, viewer, ended, presses>>
  BY PlaybackAssumption DEF Loaded, PlayInv, PlaybackTypeOK, Captured, Blank
<1>3. /\ new \in Controls /\ new.frame = 0 /\ new.totalFrames = n /\ ~new.loading /\ new.loaded
      /\ new.timer = (IF n > 0 THEN 0 ELSE Nothing) /\ new.playing = (p = up /\ n > 0)
  BY <1>2 DEF Controls
<1> HIDE DEF new
<1>4. /\ n \in Nat /\ presses \in Nat /\ presses' = presses
      /\ presses' \in 0..MaxPresses /\ presses' >= presses
  BY <1>2, PlaybackAssumption DEF Frames, PlayInv, PlaybackTypeOK
<1>5. 0 # Nothing
  BY PlaybackAssumption
<1>6. Captured(new, presses') /\ new.frame <= new.totalFrames + presses'
  BY <1>3, <1>4, <1>5 DEF Captured
<1>7. IF p = up' THEN new.playing <=> new.timer # Nothing ELSE new.timer # Nothing => ~new.playing
  BY <1>2, <1>3, <1>5
<1>8. /\ Put(p, new) /\ up' = up /\ up' \in Players \cup {Nothing}
      /\ fresh' \subseteq fresh \ {p, up'}
      /\ ended' \subseteq Players /\ show' \in BOOLEAN /\ shown' \in Frames \cup {Nothing}
  BY <1>1, <1>2 DEF new, PlayInv, PlaybackTypeOK, viewer
<1> QED BY <1>3, <1>4, <1>6, <1>7, <1>8, OnePlayer

-----------------------------------------------------------------------------
LEMMA PlayStays == PlayInv /\ [PlaybackNext]_playbackVars => PlayInv'
<1> SUFFICES ASSUME PlayInv, [PlaybackNext]_playbackVars PROVE PlayInv'
  OBVIOUS
<1>1. CASE ToggleDock \/ TogglePlayback
  BY <1>1, DockSteps
<1>2. CASE Play
  BY <1>2, PlayStep
<1>3. CASE Pause \/ Reset
  BY <1>3, PauseSteps
<1>4. CASE SkipForward
  BY <1>4, SkipStep
<1>5. ASSUME NEW p \in Players, Loaded(p) PROVE PlayInv'
  BY <1>5, LoadedStep
<1>6. ASSUME NEW p \in Players, Tick(p) PROVE PlayInv'
  BY <1>6, TickStep
<1>7. CASE UNCHANGED playbackVars
  BY <1>7 DEF playbackVars, PlayInv, PlaybackTypeOK, TimersOwned, Captured
<1> QED BY <1>1, <1>2, <1>3, <1>4, <1>5, <1>6, <1>7 DEF PlaybackNext

LEMMA PlayAlways == PlaybackSpec => []PlayInv
<1> QED BY InitPlay, PlayStays, PTL DEF PlaybackSpec

\* Whatever is clicked and however long the histories, every variable of the
\* playback has its values and the frame stays near its history.
THEOREM PlaybackTypes == PlaybackSpec => []PlaybackTypeOK
<1>1. PlayInv => PlaybackTypeOK
  BY DEF PlayInv
<1> QED BY <1>1, PlayAlways, PTL

\* An interval runs exactly while the mounted controls show Pause, for any
\* sequence of presses, loads and unmounts of PlaybackControls.
THEOREM TimersCorrect == PlaybackSpec => []TimersOwned
<1>1. PlayInv => TimersOwned
  BY DEF PlayInv
<1> QED BY <1>1, PlayAlways, PTL
=============================================================================
