------------------------------ MODULE Console ------------------------------
(***************************************************************************)
(* One browser tab of the console: the pages under /control, the stores    *)
(* they share, the axios client and the roles behind the routes they call. *)
(*                                                                         *)
(* A page loads its lists when it opens; a button sends a command and,     *)
(* when the answer comes, the handler loads a list again or edits it.  The *)
(* server handles requests in any order and the answers come in any order. *)
(* The contents of a list are one bit: is it behind, that is, does it lack *)
(* a change this very tab has made.  Dialogs are left out: a button whose  *)
(* dialog is closed may be clicked here too.                               *)
(***************************************************************************)
EXTENDS Naturals, FiniteSets

CONSTANTS
    Twins, None,
    MaxClicks, MaxVisits, MaxMishaps,   \* how often each thing may happen
    MaxCalls, MaxPolls                  \* requests, and loads of the alerts, that are out

ASSUME BoundsAssumption == {MaxClicks, MaxVisits, MaxMishaps, MaxCalls, MaxPolls} \subseteq Nat

VARIABLES
    role,       \* the user's role in the database
    user,       \* the role in the tab's user object, None after a reload
    session,    \* the token in localStorage: "good", "expired" or "none"
    page,       \* the page shown, "login", or "blank" where no route matches
    calls,      \* requests out, with their answers once the server has handled them
    behind,     \* lists that lack a change of this tab
    astray,     \* lists whose last refresh failed, was overtaken, or never began
    current,    \* currentTwin of the twin store
    assetsOf,   \* the twin whose assets the twin store holds
    active,     \* activeModelTwinId of the viewer store
    borrowed,   \* the viewer has loaded assets since the last selectTwin
    spin,       \* lists whose isLoading is set
    clicks, visits, mishaps
vars == <<role, user, session, page, calls, behind, astray, current, assetsOf, active,
          borrowed, spin, clicks, visits, mishaps>>
stores == <<behind, astray, current, assetsOf, active, borrowed, spin>>
counts == <<clicks, visits, mishaps>>

-----------------------------------------------------------------------------
(* Who may call what: the @Roles of the controllers.  "control" is each of *)
(* override, clear, stream and stop, which differ in nothing here.         *)
Managers == {"ADMIN", "MANAGER"}
Operators == Managers \cup {"OPERATOR"}
Anyone == Operators \cup {"VIEWER"}
ASSUME NoneAssumption == None \notin Twins \cup Anyone

Merge(f, g) == [x \in DOMAIN f \cup DOMAIN g |-> IF x \in DOMAIN f THEN f[x] ELSE g[x]]

TwinRoutes == [createTwin |-> Managers, updateTwin |-> Managers, removeTwin |-> {"ADMIN"}]
AssetRoutes == [updateAsset |-> Operators, removeAsset |-> Managers]
SensorRoutes == [createSensor |-> Operators, updateSensor |-> Operators, thresholds |-> Operators,
                 createAndBind |-> Operators, bind |-> Operators, unbind |-> Operators,
                 removeSensor |-> Managers, deleteSensor |-> Managers, control |-> Managers]
ModelRoutes == [upload |-> Managers, uploadVersion |-> Managers, updateModel |-> Managers,
                removeModel |-> Managers, restoreModel |-> Managers, rollback |-> Managers,
                permanentRemove |-> {"ADMIN"}]
AlertRoutes == [acknowledge |-> Operators, acknowledgeHere |-> Operators,
                acknowledgeAll |-> Managers, acknowledgeAllHere |-> Managers]
Routes == Merge(TwinRoutes, Merge(AssetRoutes, Merge(SensorRoutes, Merge(ModelRoutes, AlertRoutes))))

\* The list a command changes.
Changes(cmd) == CASE cmd \in DOMAIN TwinRoutes   -> "twins"
                  [] cmd \in DOMAIN AssetRoutes  -> "assets"
                  [] cmd \in DOMAIN SensorRoutes -> "sensors"
                  [] cmd \in DOMAIN ModelRoutes  -> "models"
                  [] cmd \in DOMAIN AlertRoutes  -> "alerts"

-----------------------------------------------------------------------------
(* What each page loads when it opens and whom it shows which button.      *)
canEdit == Operators
canDelete == Managers
canUpload == Managers

DashboardPage == [mount |-> {"sensors", "twins"}, shows |-> <<>>]
TwinsPage == [mount |-> {"twins"},
              shows |-> [createTwin |-> Anyone, updateTwin |-> canEdit, removeTwin |-> canDelete]]
AssetTree == [updateAsset |-> Anyone, removeAsset |-> Anyone]
SensorsPageLoose ==   \* mutant: the bin is shown with the pencil
    [mount |-> {"sensors"},
     shows |-> [createSensor |-> canEdit, updateSensor |-> canEdit, removeSensor |-> canEdit]]
SensorsPage == [mount |-> {"sensors"},
                shows |-> [createSensor |-> canEdit, updateSensor |-> canEdit, removeSensor |-> canDelete]]
SensorTestingPage == [mount |-> {"sensors", "twins"},
                      shows |-> [control |-> Anyone]]
ModelsPage == [mount |-> {"models"},
               shows |-> [upload |-> canUpload, updateModel |-> canUpload, uploadVersion |-> canUpload,
                          rollback |-> canUpload, removeModel |-> canDelete, restoreModel |-> canUpload,
                          permanentRemove |-> {"ADMIN"}]]
AlertsPage == [mount |-> {"alerts"}, shows |-> [acknowledge |-> Anyone, acknowledgeAll |-> Anyone]]
ViewerPage == [mount |-> {"sensors", "twins", "alerts"}, shows |-> <<>>]
SensorLiveRow == [unbind |-> Anyone, deleteSensor |-> Anyone]
LiveDataSlider == [control |-> Anyone, thresholds |-> Anyone]
ContextSensorControls == [control |-> Anyone]
SensorBindingPanel == [createAndBind |-> Anyone, bind |-> Anyone, unbind |-> Anyone]
AlertsPanel == [acknowledgeHere |-> Anyone, acknowledgeAllHere |-> Anyone]

Pages == [dashboard |-> DashboardPage, twins |-> TwinsPage, sensors |-> SensorsPage,
          testing |-> SensorTestingPage, models |-> ModelsPage, alerts |-> AlertsPage,
          viewer |-> ViewerPage]
Shows == [Pages EXCEPT !.twins.shows = Merge(@, AssetTree),
                       !.viewer.shows = Merge(SensorLiveRow, Merge(LiveDataSlider,
                           Merge(ContextSensorControls, Merge(SensorBindingPanel, AlertsPanel))))]

-----------------------------------------------------------------------------
(* What each handler does once its command has been answered: load a list  *)
(* again ("twin" is selectTwin of the current one), or edit the list it    *)
(* has.  A form cannot be sent again while it is being sent.               *)
Reload(l) == [then |-> l, once |-> FALSE]
Form(l) == [then |-> l, once |-> TRUE]
Edit == Reload("edit")

TwinsPageHandlersFlat ==   \* mutant: the assets are not loaded again
    [createTwin |-> Reload("twins"), removeTwin |-> Reload("twins"), removeAsset |-> Reload("twins")]
TwinsPageHandlers ==
    [createTwin |-> Reload("twins"), removeTwin |-> Reload("twins"), removeAsset |-> Reload("twin")]
EditTwinModal == [updateTwin |-> Form("twins")]
EditAssetModal == [updateAsset |-> Form("twin")]
SensorsPageHandlers == [removeSensor |-> Reload("sensors")]
CreateSensorPanel == [createSensor |-> Form("sensors")]
EditSensorModal == [updateSensor |-> Form("sensors")]
ModelsPageHandlers == [c \in {"removeModel", "restoreModel", "permanentRemove", "rollback"} |-> Reload("models")]
UploadPanel == [upload |-> Form("models")]
EditModal == [updateModel |-> Form("models")]
UploadVersionModal == [uploadVersion |-> Form("models")]
SensorStore == [control |-> Reload("sensors"), unbind |-> Reload("sensors"), deleteSensor |-> Edit]
SaveThresholds == [thresholds |-> Form("sensors")]
BindingHandlers == [createAndBind |-> Reload("sensors"), bind |-> Reload("sensors")]
AlertMutations == [acknowledge |-> Form("alerts"), acknowledgeAll |-> Form("alerts")]
PanelHandlers == [acknowledgeHere |-> Edit, acknowledgeAllHere |-> Edit]

AfterTwins == Merge(TwinsPageHandlers, Merge(EditTwinModal, EditAssetModal))
AfterSensors == Merge(SensorsPageHandlers, Merge(CreateSensorPanel, Merge(EditSensorModal,
                    Merge(SensorStore, Merge(SaveThresholds, BindingHandlers)))))
AfterModels == Merge(ModelsPageHandlers, Merge(UploadPanel, Merge(EditModal, UploadVersionModal)))
AfterAlerts == Merge(AlertMutations, PanelHandlers)
After == Merge(AfterTwins, Merge(AfterSensors, Merge(AfterModels, AfterAlerts)))

-----------------------------------------------------------------------------
(* Requests.  "late" says that the list has been asked for, or edited,     *)
(* since; "here" that the page that sent the command is still open.        *)
Lists == {"twins", "assets", "sensors", "models", "alerts"}
Local == {"models", "alerts"}        \* kept by the page, not by a store

Get(what, t) == [is |-> "get", what |-> what, twin |-> t, at |-> "sent", sees |-> FALSE,
                 late |-> FALSE, retried |-> FALSE, here |-> TRUE, by |-> None]
Command(cmd, r) == [Get(cmd, None) EXCEPT !.is = "command", !.by = r]

Gets(cs, what) == {c \in cs : c.is = "get" /\ c.what = what}
Overtaken(cs, ws) == {IF c.is = "get" /\ c.what \in ws THEN [c EXCEPT !.late = TRUE] ELSE c : c \in cs}

\* Asking for the alerts of the alerts page cancels the query that is out.
Cancelled(cs, p, ws) == IF p = "alerts" /\ "alerts" \in ws THEN cs \ Gets(cs, "alerts") ELSE cs
Asked(cs, p, ws, t) == Overtaken(Cancelled(cs, p, ws), ws) \cup {Get(w, t) : w \in ws}
Spun(ws) == (IF "twin" \in ws THEN {"twins"} ELSE {}) \cup (ws \cap {"sensors", "twins", "models"})
Stilled(what) == CASE what \in {"twins", "assets"} -> {"twins"}
                   [] OTHER -> {what}

\* Leaving a page: answers to its own lists go nowhere, commands go on.
KeptAll(cs) == {IF c.is = "command" THEN [c EXCEPT !.here = FALSE] ELSE c : c \in cs}   \* mutant: a closed page still takes answers
Kept(cs) == {IF c.is = "command" THEN [c EXCEPT !.here = FALSE] ELSE c :
             c \in {d \in cs : ~(d.is = "get" /\ d.what \in Local)}}

\* Requests on the wire when the token expires will be refused.
Void(cs) == {IF c.at = "sent" THEN [c EXCEPT !.at = "unauthorized"] ELSE c : c \in cs}

StoresEmpty == /\ behind' = {} /\ astray' = {} /\ current' = None /\ assetsOf' = None
               /\ active' = None /\ borrowed' = FALSE

\* The tab is at the login page, or the user has just opened a page.
Init ==
    /\ role \in Anyone
    /\ \/ page = "login" /\ user = None /\ session = "none" /\ calls = {} /\ spin = {}
       \/ /\ page \in DOMAIN Pages /\ user = role /\ session = "good"
          /\ calls = Asked({}, page, Pages[page].mount, None) /\ spin = Spun(Pages[page].mount)
    /\ behind = {} /\ astray = {} /\ current = None /\ assetsOf = None /\ active = None
    /\ borrowed = FALSE
    /\ clicks = 0 /\ visits = 0 /\ mishaps = 0

-----------------------------------------------------------------------------
(* Moving about.                                                           *)
Mount(cs, p) ==
    LET ws == Pages[p].mount
        assets == IF p = "viewer" /\ active # None THEN {Get("assets", active)} ELSE {} IN
    /\ visits < MaxVisits /\ visits' = visits + 1
    /\ page' = p
    /\ calls' = (IF assets = {} THEN Asked(cs, p, ws, None)
                 ELSE Overtaken(Asked(cs, p, ws, None), {"assets"}) \cup assets)
    /\ Cardinality(calls') <= MaxCalls
    /\ borrowed' = (borrowed \/ assets # {})
    /\ spin' = (spin \ {"models"}) \cup Spun(ws)
    /\ behind' = behind \ Local /\ astray' = astray \ Local
    /\ UNCHANGED <<current, assetsOf, active>>

Login ==
    /\ page = "login" /\ session = "none"
    /\ session' = "good" /\ user' = role
    /\ Mount(calls, "dashboard")
    /\ UNCHANGED <<role, clicks, mishaps>>

Open(p) ==
    /\ page \notin {"login", p}
    /\ Mount(Kept(calls), p)
    /\ UNCHANGED <<role, user, session, clicks, mishaps>>

\* SensorsPage goes to /sensor-testing and ModelsPage to /viewer, which no route has.
FollowLink ==
    /\ page \in {"sensors", "models"}
    /\ page' = "blank" /\ calls' = Kept(calls)
    /\ behind' = behind \ Local /\ astray' = astray \ Local /\ spin' = spin \ {"models"}
    /\ UNCHANGED <<role, user, session, current, assetsOf, active, borrowed, counts>>

\* Only the tokens go; the stores keep what they have and the answers still come.
Logout ==
    /\ page \notin {"login", "blank"}
    /\ session' = "none" /\ user' = None /\ page' = "login"
    /\ calls' = (IF session = "expired" THEN Void(Kept(calls)) ELSE Kept(calls))
    /\ behind' = behind \ Local /\ astray' = astray \ Local /\ spin' = spin \ {"models"}
    /\ UNCHANGED <<role, current, assetsOf, active, borrowed, counts>>

\* The page loads anew: the tokens are still there, the user object is not.
Refresh ==
    /\ page \notin {"login", "blank"}
    /\ mishaps < MaxMishaps /\ mishaps' = mishaps + 1
    /\ user' = None
    /\ StoresEmpty
    /\ calls' = Asked({}, page, Pages[page].mount, None)
    /\ spin' = Spun(Pages[page].mount)
    /\ UNCHANGED <<role, session, page, clicks, visits>>

\* An admin takes the user's rights away; the tab keeps the user object.
Demote ==
    /\ mishaps < MaxMishaps /\ mishaps' = mishaps + 1
    /\ role # "VIEWER" /\ role' = "VIEWER"
    /\ UNCHANGED <<user, session, page, calls, stores, clicks, visits>>

Expire ==
    /\ mishaps < MaxMishaps /\ mishaps' = mishaps + 1
    /\ session = "good" /\ session' = "expired" /\ calls' = Void(calls)
    /\ UNCHANGED <<role, user, page, stores, clicks, visits>>

-----------------------------------------------------------------------------
(* What the user does on a page.                                           *)
Room == Cardinality(calls) < MaxCalls
Shown == IF user = None THEN "VIEWER" ELSE user
SelectedAlone(cs, t) == {}   \* mutant: the twin is shown without loading its assets
Selected(cs, t) == Overtaken(cs, {"assets"}) \cup {Get("assets", t)}

Select(t) ==
    /\ page = "twins" /\ Room
    /\ visits < MaxVisits /\ visits' = visits + 1
    /\ calls' = Overtaken(calls, {"twin", "assets"}) \cup {Get("twin", t)}
    /\ spin' = spin \cup {"twins"}
    /\ UNCHANGED <<role, user, session, page, behind, astray, current, assetsOf, active,
                   borrowed, clicks, mishaps>>

\* The effect on activeTwinId loads the twin's assets into the same store.
ChooseTwin(t) ==
    /\ page = "viewer" /\ Room /\ t # active
    /\ visits < MaxVisits /\ visits' = visits + 1
    /\ active' = t /\ borrowed' = TRUE
    /\ calls' = Selected(Asked(calls, page, {"sensors"}, None), t)
    /\ spin' = spin \cup {"sensors"}
    /\ UNCHANGED <<role, user, session, page, behind, astray, current, assetsOf,
                   clicks, mishaps>>

Click(cmd) ==
    /\ page \in DOMAIN Shows /\ Room
    /\ cmd \in DOMAIN Shows[page].shows /\ Shown \in Shows[page].shows[cmd]
    /\ Changes(cmd) = "assets" => current # None
    /\ After[cmd].once => ~ \E c \in calls : c.is = "command" /\ c.what = cmd /\ c.here
    /\ clicks < MaxClicks /\ clicks' = clicks + 1
    /\ calls' = calls \cup {Command(cmd, Shown)}
    /\ UNCHANGED <<role, user, session, page, stores, visits, mishaps>>

\* The alerts come every few seconds, and whenever one is raised.
PollDue == \/ page = "alerts" /\ Gets(calls, "alerts") = {}
           \/ page = "viewer" /\ Cardinality(Gets(calls, "alerts")) < MaxPolls

Poll ==
    /\ PollDue /\ Room
    /\ calls' = Asked(calls, page, {"alerts"}, None)
    /\ UNCHANGED <<role, user, session, page, stores, counts>>

-----------------------------------------------------------------------------
(* The server.  A snapshot taken before a change of this tab does not see  *)
(* it; a command may fail after it has made its change.  "failed" is an    *)
(* answer of 500 or more, "lost" none at all.  Once handled, a command is  *)
(* known by its handler alone.                                             *)
Handler == [what \in Lists \cup {"twin"} \cup DOMAIN After |->
    IF what \notin DOMAIN After \/ After[what].once THEN what
    ELSE CHOOSE k \in DOMAIN After : After[k] = After[what] /\ Changes(k) = Changes(what)]
Handled(c, at, sees) ==
    (calls \ {c}) \cup {[c EXCEPT !.at = at, !.sees = sees, !.what = Handler[@], !.by = None]}
Feeds(what) == IF what = "twin" THEN "assets" ELSE what

Commit(c, at) ==
    LET l == Changes(c.what) IN
    /\ calls' = {IF d.is = "get" /\ d.what = l THEN [d EXCEPT !.sees = FALSE] ELSE d : d \in Handled(c, at, TRUE)}
    /\ behind' = behind \cup {l}

Answered(c, at) == calls' = Handled(c, at, FALSE) /\ UNCHANGED behind

Handle(c) ==
    /\ c.at = "sent"
    /\ \/ session = "expired" /\ Answered(c, "unauthorized")
       \/ session # "expired" /\ c.is = "get" /\ calls' = Handled(c, "ok", TRUE) /\ UNCHANGED behind
       \/ session # "expired" /\ c.is = "command"
          /\ IF role \in Routes[c.what] THEN Commit(c, "ok") ELSE Answered(c, "denied")
    /\ UNCHANGED <<role, user, session, page, astray, current, assetsOf, active, borrowed, spin, counts>>

Fail(c) ==
    /\ c.at = "sent" /\ session # "expired"
    /\ mishaps < MaxMishaps /\ mishaps' = mishaps + 1
    /\ \E at \in {"failed", "lost"} :
        \/ Answered(c, at)
        \/ c.is = "command" /\ role \in Routes[c.what] /\ Commit(c, at)
    /\ UNCHANGED <<role, user, session, page, astray, current, assetsOf, active, borrowed, spin,
                   clicks, visits>>

-----------------------------------------------------------------------------
(* The answers.  An unauthorized one throws the tokens away and loads the  *)
(* login page; a get that failed with an answer is sent once more.         *)
Unauthorized(c) ==
    /\ c.at = "unauthorized"
    /\ session' = "none" /\ user' = None /\ page' = "login" /\ calls' = {} /\ spin' = {}
    /\ StoresEmpty
    /\ UNCHANGED <<role, counts>>

Retry(c) ==
    /\ c.is = "get" /\ c.at = "failed" /\ ~c.retried
    /\ calls' = (calls \ {c}) \cup {[c EXCEPT !.at = "sent", !.retried = TRUE]}
    /\ UNCHANGED <<role, user, session, page, stores, counts>>

\* A failed load stops the spinner and leaves the list as it is.
StilledNot(c) == spin   \* mutant: the catch does not reset isLoading
StilledBy(c) == spin \ (IF c.what = "twin" THEN {"twins"} ELSE Stilled(c.what))

GiveUp(c) ==
    /\ c.is = "get" /\ (c.at = "lost" \/ (c.at = "failed" /\ c.retried))
    /\ calls' = calls \ {c}
    /\ spin' = StilledBy(c)
    /\ astray' = (IF c.late THEN astray ELSE astray \cup {Feeds(c.what)})
    /\ UNCHANGED <<role, user, session, page, behind, current, assetsOf, active, borrowed, counts>>

\* An answer that comes after a newer one still replaces the list.
Load(c) ==
    LET l == c.what  last == {d \in Gets(calls, l) : ~d.late} = {} IN
    /\ c.is = "get" /\ c.at = "ok" /\ l # "twin"
    /\ calls' = calls \ {c}
    /\ spin' = spin \ Stilled(l)
    /\ behind' = (IF c.sees THEN behind \ {l} ELSE behind \cup {l})
    /\ astray' = (IF ~c.late THEN astray \ {l} ELSE IF last THEN astray \cup {l} ELSE astray)
    /\ assetsOf' = (IF l = "assets" THEN c.twin ELSE assetsOf)
    /\ UNCHANGED <<role, user, session, page, current, active, borrowed, counts>>

Show(c) ==
    /\ c.is = "get" /\ c.at = "ok" /\ c.what = "twin"
    /\ calls' = Selected(calls \ {c}, c.twin)
    /\ current' = c.twin /\ borrowed' = FALSE
    /\ UNCHANGED <<role, user, session, page, behind, astray, assetsOf, active, spin, counts>>

\* The handler of a command that succeeded.  One that belonged to a closed
\* page cannot load that page's list again.
Done(c) ==
    LET l == Changes(c.what)  then == After[c.what].then
        lost == l \in Local /\ ~c.here IN
    /\ c.is = "command" /\ c.at = "ok"
    /\ \/ /\ then = "edit" \/ lost
          /\ calls' = Overtaken(calls \ {c}, {l})
          /\ behind' = (IF lost THEN behind ELSE behind \ {l})
          /\ astray' = (IF lost THEN astray \cup {l} ELSE astray)
          /\ UNCHANGED spin
       \/ /\ then # "edit" /\ ~lost
          /\ calls' = (IF then = "twin" /\ current # None
                       THEN Overtaken(calls \ {c}, {"twin", "assets"}) \cup {Get("twin", current)}
                       ELSE Asked(calls \ {c}, page, {then}, None))
          /\ spin' = spin \cup Spun({then})
          /\ UNCHANGED <<behind, astray>>
    /\ UNCHANGED <<role, user, session, page, current, assetsOf, active, borrowed, counts>>

\* A failed command shows a message and loads nothing.
Refused(c) ==
    /\ c.is = "command" /\ c.at \in {"denied", "failed", "lost"}
    /\ IF c.at # "denied" THEN /\ calls' = Overtaken(calls \ {c}, {Changes(c.what)})
                               /\ astray' = astray \cup {Changes(c.what)}
                          ELSE calls' = calls \ {c} /\ UNCHANGED astray
    /\ UNCHANGED <<role, user, session, page, behind, current, assetsOf, active, borrowed, spin, counts>>

Receive(c) == \/ Unauthorized(c) \/ Retry(c) \/ GiveUp(c) \/ Load(c) \/ Show(c) \/ Done(c) \/ Refused(c)

-----------------------------------------------------------------------------
Next ==
    \/ Login \/ FollowLink \/ Logout \/ Refresh \/ Demote \/ Expire \/ Poll
    \/ \E p \in DOMAIN Pages : Open(p)
    \/ \E t \in Twins : Select(t) \/ ChooseTwin(t)
    \/ \E cmd \in DOMAIN Routes : Click(cmd)
    \/ \E c \in calls : Handle(c) \/ Fail(c) \/ Receive(c)

Spec == Init /\ [][Next]_vars

-----------------------------------------------------------------------------
\* Every variable has its values, and a page's own lists are asked for only
\* while it is open.
TypeOK ==
    /\ role \in Anyone /\ user \in Anyone \cup {None} /\ session \in {"good", "expired", "none"}
    /\ page \in DOMAIN Pages \cup {"login", "blank"}
    /\ {behind, astray} \subseteq SUBSET Lists /\ spin \subseteq {"sensors", "twins", "models"}
    /\ {current, assetsOf, active} \subseteq Twins \cup {None} /\ borrowed \in BOOLEAN
    /\ \A c \in calls :
        /\ c.is \in {"get", "command"} /\ c.at \in {"sent", "ok", "denied", "failed", "lost", "unauthorized"}
        /\ c.is = "command" => c.what \in DOMAIN Routes
        /\ c.is = "get" => /\ c.what \in Lists \cup {"twin"}
                           /\ c.what = "models" => page = "models"
                           /\ c.what = "alerts" => page \in {"alerts", "viewer"}

\* A list lacks a change this tab has made only while the command or a load
\* of the list is out, or after a load that failed or was overtaken.  Each
\* handler after its await (SensorStore, TwinsPage, ModelsPage, AlertsPanel).
ReadYourWrites ==
    \A l \in behind :
        \/ l \in astray
        \/ \E c \in calls : c.is = "command" /\ Changes(c.what) = l
        \/ \E c \in Gets(calls, l) \cup (IF l = "assets" THEN Gets(calls, "twin") ELSE {}) : ~c.late

\* The hierarchy on the twins page is that of the twin in its heading, unless
\* loads overtook each other or the viewer has used the same store
\* (selectTwin and fetchAssets of twinStore, TwinsPage.tsx:153).
AssetsMatch ==
    (page = "twins" /\ current # None /\ (Gets(calls, "twin") \cup Gets(calls, "assets")) = {})
        => (assetsOf = current \/ borrowed \/ "assets" \in astray)

\* The sensors and models pages and their dialogs show a user no button that
\* the route behind it would refuse to that user's role.
Lax == DOMAIN TwinRoutes \cup DOMAIN AssetRoutes \cup DOMAIN AlertRoutes
       \cup {"control", "unbind", "deleteSensor", "thresholds",
             "createAndBind", "bind"}
OfferedIsGranted ==
    [][\A c \in calls : c.at = "sent" /\ c.by = role /\ c.what \notin Lax =>
           Handled(c, "denied", FALSE) # calls']_vars

\* A spinner turns only while a request is out whose answer stops it
\* (isLoading of sensorStore, twinStore and ModelsPage).
SpinnerEnds ==
    \A l \in spin : \E c \in calls :
        c.is = "get" /\ (c.what = l \/ (l = "twins" /\ c.what \in {"twin", "assets"}))
=============================================================================
