# NebulaTwin in TLA+

NebulaTwin is a digital-twin platform: a NestJS backend over PostgreSQL/TimescaleDB and
Redis, and a React frontend. Sensors of a twin get values from the field (HTTP or MQTT),
from an operator's override or from a simulated stream; the backend stores and publishes
them, raises alerts, and pushes them to browsers.

This directory models the backend's control logic and the part of the browser that talks
to it, model-checks it with TLC and proves its safety properties with TLAPS. Paths below are relative to the repository; `backend` stands for `src/modules`.

**Status.** Modelled and checked: sensor control, the rate limit, alerts, versions of 3D
models, real-time delivery, accounts and sessions, the catalogue of twins with its public
links, the console's pages and stores, playback. Proved for every size of instance: every
safety property that a passing run checks, invariants and action properties alike. What
remains with TLC alone is liveness.

## How the system runs, and how the models see it

The backend is one Node process. A handler runs without interruption up to its next
`await` on the database or Redis; then any other handler, timer or message may run. The
models take exactly that granularity: **an action is the code between two awaits, or one
statement that the database or Redis executes.** There are no locks, and two multi-statement
transactions in the whole backend (both in `models.service.ts`), so a handler that awaits
twice is open to every other one in between. The process may crash and restart; what is in
PostgreSQL and Redis survives, what is in a JavaScript `Map` does not.

## Inventory

| component | state | operations | interacts with | hard behaviour | what makes it correct |
|---|---|---|---|---|---|
| **Sensor control** `backend/sensors/sensors.service.ts`, `sensor-stream.service.ts` | row of `sensors` (mode, manualValue, streamActive, ...); `Map activeStreams`; live JS intervals | create, remove, setOverride, clearOverride, startStream, stopStream, tick, ingestData, bind, unbind | ingestion, event bus, alerts; callback `stopStreamCallback` between the services | check-then-act over awaits, Map against row, restart, failing statements | one source feeds a sensor; no orphaned interval; row and interval agree |
| **Ingestion** `backend/ingestion` | counter per sensor in Redis with a time to live; metrics | ingestSingle, ingestBatch, MQTT message | Redis, sensors | INCR/EXPIRE not atomic, fixed window, fail-open, batches of ten in parallel | bounded rate; nobody is shut out for good |
| **Sensor alerts** `sensors.service.ts` 250-337, `backend/alerts` | `Map lastAlertTime`; table `alerts` | threshold check, anomaly check, create and publish, acknowledge | anomaly detection, event bus | cooldown read before and written after two awaits; restart | bounded bursts; a breaching sensor keeps alerting |
| **Event bus, Redis** `common/event-bus`, `common/redis` | subscriptions, listeners | publish (on two channels), subscribe, psubscribe, get/set/incr/expire | everything | messages published twice; listener added after an await | every subscriber hears events in order |
| **Real-time delivery** `backend/realtime` | rooms, `roomBuffers`, `activeRedisSubscriptions`, `twinPresence` | subscribe, unsubscribe, buffer, flush each 100 ms, join/leave/disconnect | event bus, browsers | double delivery, subscription that failed once, presence of several tabs | a room shows the latest value; presence lists who is there |
| **3D models** `backend/models` | `model3D` rows (version, isLatest, parentModelId, deletedAt), parts, files, metadata cache | upload, uploadNewVersion, rollback, remove, restore, permanentRemove, reads through the cache | sensors (bindings) | version number read outside its transaction, rollback in two statements, cache filled after an invalidation | one latest version; distinct version numbers; no stale read decides a write |
| **Anomaly detection** `backend/anomaly` | rolling window per sensor | analyzeValue, bootstrapSensor | sensor alerts | division by a standard deviation of zero | agrees with the reference statistics |
| **Auth, users** `backend/auth`, `backend/users` | `users.refreshToken`, tenants | register, login, Google login, refresh, logout | JWT | refresh against logout, two-step Google registration | a logged-out session is over; no tenant without user |
| **Tenants, twins, assets** | rows with cascading foreign keys, `assets.parentId` | CRUD | models, sensors | parent links set freely; cascades that stop no stream | the hierarchy is a forest |
| **Export, analytics** | `Map shareTokens`; Redis cache | share, revoke, read; history, aggregate | TimescaleDB | restart; cache key without the limit | a valid link works; an answer answers its question |
| **Database access** `src/database` | - | one SQL statement each | everything | a statement may fail | - |
| **Health, guards** | - | checks of one request | - | - | stateless |
| **Frontend stores, WebSocket client** `frontend/src/store`, `services` | socket, pending subscriptions, listeners; lists and current values | connect, subscribe, fetch, update | backend | second socket while connecting, answers out of order | one delivery per event; shown list is the latest |
| **Playback** `PlaybackControls.tsx`, `ViewerPage.tsx` | timer, frame, `totalFrames` captured by the tick; the viewer's mode and frame | play, pause, reset, skip, tick, mount and unmount | analytics | stale closure, a load that outlives its controls | an interval runs while the controls show Pause, and ends |
| **Frontend pages** `pages/`, `components/` | what each page shows; its own lists (models, alerts) | open, click, reload | stores, every route | answers out of order, failed and unauthorized answers, a page left while its command is out, roles that change | a page shows what it did; no button that only fails |
| **3D scene, marketing pages** | rendering state | - | stores | - | nothing several steps must keep in agreement |

Each hazard, at its line and with the properties that guard against it, is in
`PROJECT.json` ("hazards").

## Modules

```
 backend                                                         browser

 SensorControl <- SensorControlProofs    RateLimit <- RateLimitProofs       Console  <-+
   |  INSTANCE                           SensorAlerts <- SensorAlertsProofs            | FrontendProofs
   +-> StreamLifecycle (abstract)        ModelVersions <- ModelVersionsProofs Playback <-+
 Accounts  <- AccountsProofs             Realtime (bus, gateway and browsers)
 Catalogue <- CatalogueProofs              <- RealtimeProofs
```

`MC<Module>` instantiates a module for TLC. The modules share no variable: where two meet
in the code, one takes what the other does as a step that may happen at any time (a value
is stored, a model is uploaded, a reading is published). `Console` is the composition of
pages, stores, the axios client and the routes behind them, `Realtime` that of the event
bus, Redis, the gateway and the browsers' sockets.

### SensorControl: who feeds a sensor

State and what it stands for:

| variable | in the code |
|---|---|
| `row[s]` | the sensor's row: live or not, `mode`, manualValue set or not, `streamActive` |
| `activeStreams[s]` | `SensorStreamService.activeStreams` |
| `interval[t]` | the sensor whose callback the live interval `t` runs; `setInterval` takes a free handle, `clearInterval` frees it |
| `req[o]` | control request in flight: its operation, how far it has got, what it has read |
| `point[w]` | a value in flight, generated by a tick or ingested |
| `overlap`, `cut`, `crashes` | history and bound: did requests (or starts) on a sensor overlap, was its stream cut off by a restart or a failure, how many restarts |

| actions | code |
|---|---|
| `Create`, `Begin`, `BeginStart` | a request up to its first await; `BeginStart` has the Map check and `stopStreamInternal` of startStream (35-45) |
| `Found` | the look-up of the row is answered; `Stopped`: startStream has already cleared a running interval at this point |
| `Proceed` | the synchronous part before the UPDATE: stopStreamInternal in stopStream, setOverride (through the callback), remove |
| `Commit` | the UPDATE or DELETE, as `Updated` describes it |
| `Arm` | startStream after its UPDATE: setInterval and activeStreams.set |
| `Finish` | setOverride has stored and published its value |
| `Abort` | a statement fails, or the sensor does not exist or is another tenant's |
| `Tick`, `Ingest`, `Admit`, `Insert`, `Drop` | values: a tick checks the Map (66), an ingestion checks the mode (188-202), both store later |
| `Restart` | intervals, Map and requests are gone, rows stay |

Abstracted: the values, the stream's pattern and range columns (written by the same
statements as `streamActive`), names and units. `update` of a sensor writes none of the
modelled columns. What follows the storing of a value is a single step here and the
subject of SensorAlerts.

### StreamLifecycle: what sensor control promises

A sensor has a mode and its stream a phase: *idle*, *armed* (the row claims a stream and
nothing generates) or *running*. No step leads from idle to running or from running to
idle: a stream is announced in the row before it runs and stopped before the row drops it.
With one control request at a time the two services implement this
(`ImplementsLifecycle`, checked and proved). With two they do not, see the violations.

### RateLimit and SensorAlerts: the way of a value

A value comes in through ingestSingle (HTTP, MQTT), ingestBatch or setOverride.
`RateLimit` is what ingestSingle asks first, `checkRateLimit`; batches and overrides skip it.
`SensorControl` has the mode check and the storing. `SensorAlerts` is what ingestData and
setOverride do with a value they have stored and published. The three share no state (Redis
key, row, Map `lastAlertTime`), so each is a module of its own and a value's entry into it is
an unconstrained action.

| RateLimit | code (`ingestion.service.ts`) |
|---|---|
| `count[s]`, `ttl[s]` | the Redis key `ratelimit:ingest:s` and its time to live, if it has one |
| `call[p]` | a checkRateLimit in flight, and what INCR answered |
| `Arrive`, `Incr`, `Expire`, `Grant`, `Refuse` | 34-49, 99-106, one Redis command at a time |
| `FailOpen` | the catch (107-110); an INCR whose answer was lost may have been executed |
| `Restart` | the calls are gone, the keys are not |
| `granted`, `lost` | history: `granted[s][a]`, the points granted in the last a + 1 ticks; did an EXPIRE get lost |

| SensorAlerts | code (`sensors.service.ts`) |
|---|---|
| `sinceAlert[s]`, `sinceAnomaly[s]` | ages of `lastAlertTime` under `s` and `anomaly:s` |
| `check[p]` | the checks of one stored value: stage, source, kind of the alert being raised |
| `CheckThresholds`, `Analyze` | 251-292 and 218-222, 295-303, up to the first await |
| `CreateAlert`, `EnterAlert`, `FailAlert` | 313-337 and 308-309, await by await |
| `Restart` | the process has forgotten its cooldowns |
| `alerts`, `slipped` | history: `alerts[s][a]`, the alerts stored in the last a + 1 ticks; was one stored and never entered |

Whether a value breaches a threshold or is an anomaly is a choice. Time is discrete:
`Window`, `Cooldown` and `AnomalyCooldown` are counted in ticks. Ages and times to live stop
where the code can no longer tell the difference (a counter too, beyond the limit), so the
state space is finite without a bound on time.

### ModelVersions: one latest version, a truthful cache

| variable | in the code (`models.service.ts`) |
|---|---|
| `row[m]`, `files`, `bound` | the row of `models_3d` (live, deleted or gone; version, isLatest, parent), the file on disk, a sensor on a part |
| `cache` | `metadataCache`, by model and for the tenant's list |
| `call[c]` | a request: the statement it comes to, and the row, number and set it has read |
| `tidy`, `raced`, `suspect`, `cut` | history: families nobody put in disorder, models onto which uploads overlapped, cache entries read before a change, removals cut off |

| actions | code |
|---|---|
| `Begin`, `FindCached`, `FindStored`, `Keep` | a request arrives; findById and findAllByTenant through the cache |
| `InsertFirst`; `Number`, `Demote`, `InsertVersion` | uploadModel; uploadNewVersion with its transaction cut where READ COMMITTED lets another in |
| `DemoteAll`, `Promote` | rollbackToVersion |
| `Unbind`, `Mark`, `Inherit`; `Unmark`, `DemoteSiblings` | remove; restore |
| `Load`, `Unlink`, `Delete`; `Bind` | permanentRemove; bindToModelPart as far as it needs the part |
| `Invalidate`, `Expire`, `Fail`, `Restart` | invalidateCache, CACHE_TTL, a failing statement, the process |

Demotion and promotion of `rollback` are two statements, so the properties say who may
have been between them: `OneLatest` speaks of families that were changed by one call at a
time and with operations that can keep the promise (`tidy`), `VersionsDistinct` of models
onto which no upload was committed when another had its number, `CacheFresh` of entries that
were not read before a change. A call that is not alone, or is cut off, ends `tidy` for every
family its statements may touch (`Kin`): the model, its parent and its parent's parent,
for each query looks one parent up and the children down.

### Realtime: from the bus to the browser

`queue` and `wire` are the two directions of the Redis connection, `active`, `asked` and
`listeners` are `activeRedisSubscriptions`, the SUBSCRIBEs awaited and the callbacks
attached; `rooms`, `buffer` are the sockets' rooms and `roomBuffers`; `shown` and `got` what
a browser was sent; `owed` what it was in its room in time for. `PublishReading`,
`PublishAlert` and `Publish` are `event-bus.service.ts` (tenant's channel first, then, after
the answer, the sensor's), `Deliver` and `Flush` the gateway's callbacks and its 100 ms
timer, `Subscribe`, `Ask` and `Attach` the handler of a subscription around its await,
`LosePublish`, `LoseSubscribe`, `LoseWire`, `Restart` and `Disconnect` the faults.

### Accounts: who is logged in, as what

`row` and `tenant` are the tables `users` and `tenants`, `tokens[u]` the roles in the tokens a
user was given, `call[c]` a request between two queries, `out` the users who logged out.
`Register`, `Login`, `GoogleCallback` and `Authorized` are requests that arrive (the last one
past JwtAuthGuard and RolesGuard, with what a token says); `FindGoogle`, `FindEmail`,
`FindSession`, `FindTarget` their first query; `Link`, `MakeTenant`, `CreateUser`,
`StoreRefresh`, `Logout`, `UpdateRole`, `RemoveTenant` their writes, with the unique and
foreign keys that make one fail. `stale` and `raced` in a call are history: a role was
changed, or somebody else wrote, after the call had read. A stored refresh token is present
or absent: bcrypt reads 72 bytes and the first 72 of every token of a user are the same, so
comparing with the stored hash tells only whose token it is.

### Catalogue: what a tenant owns

`twins`, `asset`, `part`, `sensor` are the tables with the references between them, `link` the
Map `shareTokens`, `bind` and `visit` the two operations that use what they read before
(bindToModelPart, getSharedTwin). `CreateTwin`, `RemoveTwin`, `Upload`, `RemoveModel`,
`CreateAsset`, `UpdateAsset`, `RemoveAsset`, `CreateSensor`, `RemoveSensor`, `Unbind` are one
statement each, cascades and SetNull included (`AssetsKept`, `SensorsKept`, `PartsKept`);
`BeginBind`, `ReadPart`, `ReadAsset`, `WriteBinding` are a binding await by await;
`CreateShareToken`, `Tick`, `OpenLink`, `ExportTwin`, `Revoke`, `Restart` the life of a link.
`FindRoots` is what the tree of a twin shows: roots and three levels of children, though nothing
keeps a tenant from a fifth level; `Under` is what hangs there. `knotted` remembers that an asset
was put under a stranger or a descendant (`Above`).

### Console: one browser tab

A page loads lists when it opens (`Pages`), shows buttons to roles (`Shows`), and its handlers
load or edit a list when a command is answered (`After`); `Routes` has the `@Roles` of every
controller. `calls` are the requests out; the server handles them in any order (`Handle`),
answers come in any order (`Receive`), fail, get lost or are refused (`Fail`). A list's contents
are one bit: does it lack a change this tab has made (`behind`); `astray` says that its last
refresh failed or was overtaken. `Unauthorized` and `Retry` are the interceptor and the retry of
`api.ts`. `Login`, `Logout`, `Refresh`, `Demote`, `Expire` change session and role; `Open`,
`FollowLink`, `Select`, `ChooseTwin`, `Click`, `Poll` are the user and the timers.

### Playback: the controls and their interval

`player[p]` is the state of one mounted `PlaybackControls`, with `tick` the `totalFrames` its
pending callback has captured and `timer` that of its running interval; `show` and `shown` are
the viewer's. `ToggleDock`, `TogglePlayback`, `Play`, `Pause`, `Reset`, `SkipForward` are the
buttons, `Loaded` the end of loadData, `Tick` the interval. The specification is called
`PlaybackSpec`, its parts `PlaybackInit`, `PlaybackNext` and `PlaybackTypeOK`, so that
`FrontendProofs` can extend it beside `Console`.

## Runs

| run | instance | shows |
|---|---|---|
| `sensor_concurrent` | 1 sensor, 2 requests at a time, 2 handles, 1 point, 1 restart | What of the agreement between Map, intervals and row survives any two overlapping requests: the Map is sound (`RegistrySound`), the row says one thing (`RowConsistent`), duplicates need two overlapping starts (`NoDuplicateStreams`), row and interval agree between requests that did not overlap (`TimerHasActiveRow`, `StreamingRowHasTimer`), and a stopped sensor falls silent even if an orphan is still ticking (`QuietAfterStop`) |
| `sensor_serial` | 2 sensors, 1 request at a time | `ImplementsLifecycle`; a sensor that stays out of REAL mode stops storing real values (`RejectsEventually`) |
| `rate_limit` | 1 sensor, 3 calls at a time, Limit 2, Window 3 | No second sees twice the limit (`BelowTwice`); a refused sensor gets a fresh window, unless an EXPIRE was lost (`Recovers`) |
| `sensor_alerts` | 1 sensor, 3 values at a time, Cooldown 2, AnomalyCooldown 3 | A cooldown lets through no more alerts than values are in flight, unless an alert was stored and its publication failed or a restart forgot the cooldown (`BurstBounded`); a sensor that keeps breaching keeps alerting (`KeepsAlerting`) |
| `models` | 3 ids, 2 requests at a time, 3 in all, all nine operations | One latest version in a family changed by one call at a time (`OneLatest`); distinct numbers unless uploads onto one model overlapped (`VersionsDistinct`); a cache that is right between changes unless an entry was read before one (`CacheFresh`); a file behind every row but the half-removed (`RowHasFile`) |
| `models_history` | 3 ids, 1 request at a time | **violated:** getVersionHistory "returns all versions in the lineage" (documentation.md:925) |
| `realtime` | 1 browser, 2 readings, 1 alert, 1 fault | When nothing is on its way a browser has the newest reading and every alert it was there for (`CaughtUp`); readings published one after the other never go out in the wrong order, though each travels on two channels (`InOrder`); an alert comes at most twice (`AtMostTwice`) |
| `accounts` | 2 calls at a time, 2 addresses, 1 Google account, 2 users, 2 tenants | A logout holds against whatever was under way, but for a refresh that had read the row (`LogoutHolds`); tokens carry the present role (`RoleFresh`); only a race leaves a tenant without users (`OrphanOnlyByRace`) |
| `catalogue` | 2 twins, 2 assets, 2 parts, 1 sensor, 1 link of 1 tick | A sensor made within one twin stays there, also when something is removed under a binding (`TwinScoped`); every asset is in findRoots or hangs below it, also when parents were removed (`TreeComplete`); a link that ended opens nothing (`LinksEnd`) |
| `console` | 2 twins, 1 click, 1 further page or twin, 1 mishap, 3 requests out, 2 of them polls | A page shows what it did as soon as its reload has come (`ReadYourWrites`); the hierarchy belongs to the twin in the heading (`AssetsMatch`); no button that the route behind it refuses (`OfferedIsGranted`, with the exceptions named in `Lax`); no spinner turns for nothing (`SpinnerEnds`) |
| `playback` | 3 successive controls, histories of up to 4 frames, skips of 2, 5 clicks | An interval runs exactly while the mounted controls show Pause (`TimersOwned`) and ends (`PlaybackEnds`) |
| `playback_frames` | as `playback` | **violated:** playback "replays frame-by-frame" (documentation.md:1607): the first interval shows one frame |

**Why these bounds are enough.** Sensors do not interact in the code (every Map, key and
statement is per sensor), so one sensor shows every interleaving; two are used where the
refinement has to see both. Two requests show every pairwise interleaving; two handles
are what a start can orphan and replace. The theorems hold for any number of each. A
second restart finds the same states as the first. In `rate_limit` three calls at a time
and a limit of two reach both sides of the limit concurrently, and a window of three ticks
has a beginning, a middle and an end. In `sensor_alerts` two values can overlap while a third
is checked before, between or after them, and the two cooldowns differ, as the defaults
of 30 and 60 seconds do. In `models` three ids make a root, a version and one more
upload, and three requests a change, one that overlaps it and one that looks; the initial
states already have one or two versions. In `realtime` sockets do not meet (rooms are sets,
an emit reaches each member), so one that comes and goes shows what any does, and the second
reading is the one that can overtake the first. In `accounts` two calls show every pair of
calls at every query; the second user and tenant are the ones a race creates or removes, and
a call that may need a row starts only while there is one (`Room`), so that the bounds end
no call half-way. In `catalogue` two of each row are enough for a parent, a stranger
and a move between twins (trees deeper than what findRoots shows are left to the theorem); no property relates two sensors or two links. In `console` one
click, one change of page and one mishap meet in every order with the loads of two pages and
the polls; three requests at a time are those of the largest page. In `playback` the third
controls see the leftovers of the first two, and four frames with skips of two reach the end
from before, at and beyond it.

**Deadlock** is checked where the system can go on for ever. It is off in `models`,
`models_history`, `catalogue`, `realtime`, `console`, `playback` and `playback_frames`: there
ids, requests, readings, clicks or controls are used up, and a behaviour ends with the last.

**Fairness.** A request or point in flight goes on (weak fairness of its steps): the
database and Redis answer or fail, and the event loop runs every continuation. The choice
between success and failure is never fair, and nothing obliges users, devices or timers to
start anything. In `RateLimit` and `SensorAlerts` the clock ticks (weak fairness), since
Redis' expiry and `Date.now` do. In `Playback` the browser fires an interval as long as it is
set: weak fairness of each `Tick`; neither clicks nor the arrival of a history are fair. The
other modules state safety only and assume no fairness.

**Symmetry** is used where no temporal formula with fairness is checked: models and calls in
`models`, calls in `accounts`, twins, assets and parts in `catalogue`, twins in `console`. Their
properties name no particular one.

## Proofs

Eight modules hold the theorems. Each is proved from the assumption on the constants that
its module states, and nothing else: for any number of sensors, requests, users, tenants,
twins, links, models, browser requests, players, frames, clients, readings, alerts, values and points, and for
any limit, window and cooldown.

**SensorControlProofs**

| theorem | property |
|---|---|
| `TypeCorrect` | `TypeOK` |
| `RegistryCorrect` | `RegistrySound` |
| `NoDuplicatesCorrect` | `NoDuplicateStreams` |
| `TimerRowCorrect` | `TimerHasActiveRow` |
| `RowTimerCorrect` | `StreamingRowHasTimer` |
| `RowConsistentCorrect` | `RowConsistent` |
| `LifecycleRefined` | `OneOperator => (Spec => ImplementsLifecycle)` |

The argument. `RegistrySound` alone is not inductive: a start that reaches
activeStreams.set must not have been given a handle that is already running.
`RegistryInv` adds the shape of requests and that handles of starts in flight are free and
distinct. The properties about agreement need to know what a request in flight relies on:
`ControlInv` is `RegistryInv` and, for each sensor,

- `NoDuplicates`: while no two starts have overlapped, the Map is empty during a start, and
  there is only one;
- `Serial`: while no requests have overlapped, the request in flight still sees the row it
  has read, and has stopped the stream before its UPDATE;
- `Attended`: a stream the row claims is running, or a request is about to change that.

`ControlStep` has one case per action; `OtherSensors` and `FrameKeeps` dispose of the
sensors an action does not touch. `RowConsistent` needs only `TypeOK` and what each UPDATE
writes. For the refinement, `AloneStep` shows that with one operator requests never
overlap; then `ModeOf` and `PhaseOf` of a step are a step of StreamLifecycle or unchanged.

**AccountsProofs**

| theorem | property |
|---|---|
| `AccountTypes` | `TypeOK`, which includes that an address and a Google account belong to one live user |
| `LogoutCorrect` | `LogoutHolds` |
| `RoleFreshCorrect` | `RoleFresh` |
| `OrphanCorrect` | `OrphanOnlyByRace` |

None of the four is inductive: each depends on what a call in flight may still believe of
what it has read. `AccInv` adds `RowsOK` (keys and tenants of live users) and, for each call,
`CallOK`: it is at a stage of its operation (`Path`); a call about to store whose user's role
nobody changed has his role; a refresh that no logout has overtaken holds a user who is not
out; a Google sign-in nobody raced with still finds nobody with its address or account, and
its new tenant is there. A write either leaves that true of the calls beside it or
marks them (`Beside`, `OthersOK`): that is where a mark forgotten in the code's order of
steps would show. For the action properties `EndsItself` shows that a call about to store or
create is ended by its own step.

**CatalogueProofs**

| theorem | property |
|---|---|
| `CatalogueTypes` | `TypeOK`, every reference points at a live row |
| `TwinScopedCorrect` | `TwinScoped` |
| `TreeCompleteCorrect` | `TreeComplete` |
| `LinksEndCorrect` | `LinksEnd` |

The references hold because each removal cascades or empties what points at the row. A
binding in progress holds ids that may have been removed since, so the invariant adds what
it has read: while part, asset and sensor are still there, they are of the twin it compared.
`TreeComplete` speaks of what a closure contains, and says so with sets alone: an asset is in
every set that has findRoots' answer and the children of its members. `TreeOK` is the inductive
invariant: parents are of the same twin, and in no set of assets has each its parent within the
set (`Ring`), so the assets a closure missed would be such a set. Moving an asset closes no ring
unless it is an ancestor of its new parent: the ancestors within the ring would have been one
before (`TreeMoved`).

**FrontendProofs**

| theorem | property |
|---|---|
| `ConsoleTypes` | `TypeOK` of `Console` |
| `ReadYourWritesCorrect` | `ReadYourWrites` |
| `AssetsMatchCorrect` | `AssetsMatch` |
| `SpinnerEndsCorrect` | `SpinnerEnds` |
| `OfferedCorrect` | `OfferedIsGranted` |
| `PlaybackTypes` | `PlaybackTypeOK`, with the frame at most the clicks beyond the history |
| `TimersCorrect` | `TimersOwned` |

*The console.* `ConInv` is proved invariant (`ConInvariant`); the theorems follow from it. Beside
`TypeOK` and `SpinnerEnds` it has

- `CallsOK`: what each request may be. A page's own lists are asked for by that page only; an
  edit of assets is on its way only while there is a current twin; a command that the server
  has not seen yet was sent by somebody whose role had the right, and one that was denied,
  by somebody who could click it without (`Lax`) or was demoted since.
- `WritesInv`, for `ReadYourWrites`, which is not inductive: a command that is denied, or a load
  overtaken, leaves a list waiting for nothing. A list that lacks a change waits for a
  command that has been carried out, or has failed or lost its answer (`Committed`), or for a
  load that nothing has overtaken.
- `SnapshotsOK`: an answer that shows a list as it was before a change, and would count as new,
  is there only together with a carried-out command that has its list loaded again.
- `AssetsInv`, for `AssetsMatch`: until the viewer borrows the store, every load of assets that
  was not overtaken is for the current twin, and one is on its way whenever the hierarchy is
  another's.
- a user object that is of the present role, or a user demoted to VIEWER.

Most actions answer one request, send some, and mark, cancel or void others. `Follow` says in
one formula what may become of the others: each goes on as its `Shadow`, loads of some lists
are overtaken, those of others cancelled, new ones added. `FollowTwice` composes two such
changes; `CallsStep`, `AssetsStep` and `ConStep` conclude from `Follow` that the invariant is
kept, and each action has a lemma that shows its `Follow` and what it does to its own request.
The tables (`Pages`, `Shows`, `Routes`, `After`, `Handler`) enter through the lemmas at the head of
the module: what a handler loads or edits is the list its command has changed (`AfterThen`), and
a button that is not in `Lax` is shown to no role that the route refuses (`Buttons`). A denied
request keeps only the handler of its command, which others may share: a command in `Lax` that
shares one grants every role the other grants (`SharedHandlers`), so `NotDenied` and with it
`OfferedIsGranted` can go by the handler.

*Playback.* `PlayInv` adds that controls not yet mounted are blank, that a load in progress has no
interval running, and that an interval has captured at most the length of the history
(`Captured`): so its frame stops there, but for the clicks that start it anew.

**ModelVersionsProofs**

| theorem | property |
|---|---|
| `VersionTypes` | `TypeOK` |
| `RowHasFileCorrect` | `RowHasFile` |
| `CacheFreshCorrect` | `CacheFresh` |
| `VersionsDistinctCorrect` | `VersionsDistinct` |
| `OneLatestCorrect` | `OneLatest` |

`Base` is what every call relies on: it is at a phase of its operation (`Path`), the model
it works on once had a row, and the id an upload has taken has its file, no row, and no other
upload behind it. `RowHasFile` is inductive on top of it. The other three are not:

- `CacheInv`: either a writer that has changed rows is still on its way to invalidateCache
  (`Dirty`), or the cache agrees with the rows and so does every read that is about to be
  kept, unless it is marked late. `permanentRemove`, which clears the cache before it deletes,
  and writers that fail half way are why late reads and suspect entries are needed.
- `VersionInv`: parents are stored, and an upload that has its number, onto a model where no
  two overlapped, has one above the whole family (`OnTop`). A deletion only takes rows and
  parents away, so families shrink (`VersionKept`); an insertion adds one row to one family
  (`VersionInserted`).
- `LatestInv`, for `OneLatest`: a tidy family has one latest version, a live one, or a call is
  about to give it one (`Upsets`). What that call goes by is a row it has read, or found in the
  cache, some statements ago, while others wrote. `Memory` says how far it may be trusted: its
  parent is still the model's parent, but where the model or that parent is gone for good
  (`Remembering`); a writer of a model that is gone can no longer reach a tidy family
  (`Forgotten`); and an entry that shows the root of a tidy family as a deleted version is about
  to be cleared (`CacheKnows`). `UpsetMeans` concludes that what a call may leave in disorder
  is within `Kin` of its model, so a call that fails half way or was not alone ends `tidy`
  for all of it. `Order` keeps tidy models roots, lone writers alone and what an upload is about
  to demote in its family; `Ready` says of a lone writer before its last statement that the
  statement will do: no row but its own is left as the latest. `MemoryNext`, `OrderNext`,
  `UpsetsNext` and `ReadiesNext` are the four steps, each with one lemma for each action that
  can disturb it.

`Elsewhere` says that a step of a call leaves the others as they are, `TakesNone` that only
Number takes an id.

**RealtimeProofs**

| theorem | property |
|---|---|
| `RealtimeTypes` | `TypeOK` |
| `AtMostTwiceCorrect` | `AtMostTwice` |
| `CaughtUpCorrect` | `CaughtUp` |
| `InOrderCorrect` | `InOrder` |

The properties speak of what a browser was sent; all of them depend on what still waits on
the connection to Redis, so each has an invariant about the copies of a message that are to
come.

- `TwiceInv`: a key of `activeRedisSubscriptions` has one listener or one SUBSCRIBE on its way
  (`OneListener`), so an alert is one command, then at most two messages of different kinds,
  and a client has had at most as many copies as are no longer to come (`AlertsCounted`).
- `OwedInv`: an alert that a client is owed has reached it, or its command or pattern message
  is on its way and the client is still in the tenant's room; the newest reading it is owed
  is in the queue, the last of the wire, in the buffer of every room or shown
  (`ReadingsComing`). The pattern, subscribed before any client connects, is what makes this
  hold while subscriptions of single channels come and go.
- `OrderInv`, while nothing is lost and readings do not overlap: there is one command of a
  reading at a time, messages come in the order of their readings, and before a message that
  feeds one room only, both rooms have had its reading (`BothFed`).

**RateLimitProofs**

| theorem | property |
|---|---|
| `RateTypes` | `TypeOK` |
| `BelowTwiceCorrect` | `BelowTwice` |

`RateInvariant` is the inductive invariant. A key without a time to live waits for the EXPIRE of
the one call that created it, or has lost it (`KeyOK`). The points granted since the EXPIRE are
fewer than the key has counted, since its first point came before; so when the key
goes, its first point has left the second behind (`Bounded`). The history counts the points of
the last a + 1 ticks, for every a, and not those of each tick: so the argument compares and
never sums.

**SensorAlertsProofs**

| theorem | property |
|---|---|
| `AlertTypes` | `TypeOK` |
| `BurstCorrect` | `BurstBounded` |

`AlertInvariant` adds what a cooldown that is read long before it is written leaves open (`Burst`):
the alerts stored since the cooldown began are those of values that are still publishing theirs,
and a value that is about to store one found no cooldown, so it is none of them. The alerts of
a cooldown and those about to be stored are therefore no more than the values in flight.

**Only model-checked.** The liveness properties `QuietAfterStop`, `RejectsEventually`,
`Recovers`, `KeepsAlerting` and `PlaybackEnds`: fairness and ENABLED are out of the prover's
reach.

## What the documentation says and the code does not

The two violated runs show `HistoryHasLineage` and `PlaysAll`. Further disagreements met
while modelling; where a definition is named, it stands in the module, unchecked, because the
model, following the code, does not satisfy it:

- `DuplicatesPrevented`: two overlapping starts both run an interval
  (`sensor-stream.service.ts:37`; documentation.md:801 "Duplicate streams per sensor are prevented").
- `OneModeAtATime`: clearOverride on a stream leaves it running
  (`sensors.service.ts:138`; README.md:144 "Only one mode active at a time").
- `StoresRealOnlyInRealMode`: a value admitted in REAL mode is stored after an override
  (`sensors.service.ts:204`; documentation.md:807).
- `OneAlertPerCooldown`: values that overlap each raise one (`sensors.service.ts:267`;
  documentation.md:847).
- `SlidingWindow`: the window of the rate limit is fixed (`ingestion.service.ts:103`;
  documentation.md:624).
- The dialogs of TwinsPage (189, 208) say that children go with a twin or an asset; children
  of an asset and sensors stay, without their parent (`onDelete: SetNull`).
- documentation.md:1514 says that buttons are hidden for roles without the right; those in
  `Lax` are shown to everyone.
- Deleting the current twin leaves its assets on the page; the viewer's fetchAssets replaces
  the assets of the twins page (`borrowed`).
- SensorsPage:136 and ModelsPage:181 go to routes that do not exist (`FollowLink`).
- An unauthorized answer to a request sent before a new login throws the new session away
  (`Unauthorized`).
- The last frame is never shown, and collapsing the dock while playing leaves the viewer in
  playback mode (`Step`, `Unmount`).

## Not modelled, and why

- Presence and collaboration messages of the gateway (`twinPresence`): nothing else reads them.
- A browser's second socket (connect during connect): `Realtime` has one socket per browser.
- Analytics: one SQL query each, and a cache of 30 seconds keyed by sensor and range only.
- Anomaly statistics and the severity of alerts: floating-point arithmetic, which TLC does
  not have; the verdict is a choice in `SensorAlerts`.
- Extraction of mesh names from files: computation on one file.
- MQTT and batch ingestion beyond their skipping the rate limit; metrics.
- Health checks and guards: stateless checks of one request. RolesGuard is in `Accounts` and
  `Console`.
- Wording and formats: alert texts, CSV and JSON exports, log lines, DTO validation.
- Reconnection inside ioredis, Prisma and the time-series SQL.
- The three.js scene and the marketing pages; dialogs, filters and charts of the console's
  pages.
- Updates of names and descriptions: single statements that no property tells apart.

## Plan

Done: `SensorControl`, `StreamLifecycle`, `RateLimit`, `SensorAlerts`, `ModelVersions`,
`Realtime`, `Accounts`, `Catalogue`, `Console`, `Playback`; the proofs of all of them.

Left, in order of importance:

1. Presence and the second socket as parts of `Realtime`.
2. Several tabs of one user in `Console`.
