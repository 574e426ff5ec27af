# Intelligent Load Controller: TLA+ models and proofs

The Intelligent Load Controller is a Home Assistant integration that switches
household loads (heaters, pumps, chargers) so that they use surplus solar and
cheap energy, never exceed the site's import limits, and always leave the user in
charge. This directory models the parts of it that decide and command, and the panel
through which a user sees and changes them. Paths below are relative to
`src/custom_components/intelligent_load_controller/`, except `docs/`, `tests/` and
`frontend/`, which are under `src/`. "The panel" is
`frontend/src/components/intelligent-load-controller-panel.ts`.

## The system

One config entry is one site; its `SiteCoordinator` (coordinator.py) owns all
mutable state and one `asyncio.Lock`. Everything runs on one event loop: tasks
interleave only where they await, which is on the lock, on a device's service call
and on the store.

| Component | State | Operations | What makes it correct |
| --- | --- | --- | --- |
| Site arbitrator (`controller/arbitrator.py`) | none; one call is one decision | `arbitrate` | hard, controlled and phase limits, binary cap, stagger; each surplus watt once; no priority inversion |
| Replan scheduling (`coordinator.py` 127-209, 338-404) | `_started`, `_replan_task`, subscriptions, the lock | input callbacks, debounced task, direct callers, start, stop | storms coalesced, no input lost, nothing after unload, nobody starves |
| Control cycle (`coordinator.py` 1475-1588, 2148-2474; `controller/state.py`) | `_feedback`, `_observation_ready`, retry delays | observe, decide, command one load after another | limits at every start; overrides and automatic authority obeyed; silent when blind |
| Overrides and automatic control (`coordinator.py` 1769-1924, 2106-2146, 2786-2824) | `recovery["overrides"]`, load configurations | start, clear, expire, enable, disable | an Off is enforced; a boost ends; enabling clears |
| Actuator test (`coordinator.py` 1926-2104) | `recovery["actuator_tests"]`, timer tasks | start, stop, expiry, retry by replans, unload, restart | it always ends, and only an observed off ends it |
| Adapters (`adapters/`) | none | observe, apply | an apply is confirmed, unconfirmed or raises |
| Entry lifecycle, store (`__init__.py`, `storage.py`) | one store for all sites | setup, unload, reload on every update | one coordinator at a time; nothing written is lost |
| Configuration (`schema.py`, `config_flow.py`) | entry options, load subentries, revisions | update, add, duplicate, delete, forms | no lost update |
| Planner (`controller/planner.py`) | none | `plan` | capacity and deadlines over a horizon |
| Solar qualification (`controller/solar.py`) | candidates, starts and stops per load | `evaluate_solar` | hysteresis, holds, bounded starts |
| Accounting, learning (`controller/accounting.py`, `learning.py`) | day counters, estimates | feedback intervals, day archive | monotone, counted once; learning never loosens a limit |
| Schedules, tariffs (`controller/schedule.py`, `tariff.py`) | none | civil-time intervals | DST policy |
| Websocket, services, entities (`websocket_api.py`, `services.py`) | subscriptions | forward calls, answer | every command is answered |
| Panel session (the panel 531-746, 2180-2279; `frontend/src/api/load-control-api.ts`) | view, dashboard, site, read and subscription generations | refresh, choose a site, subscribe, lose and regain the connection | the screen is of the site commands name, never goes back, is kept up to date |
| Panel workspace (the panel 764-2178) | pages, configuration, drafts, dialog, errors | read a page, edit, validate, save, delete, override, replan | no lost update; own writes shown; no page stuck |
| Chart, texts, formats (`frontend/src/`) | an ECharts instance | display | |

The flow of control: a state change of a configured entity calls
`_schedule_replan`, which starts the debounced task; the task calls `async_replan`,
as users' operations do directly. Under the lock `async_replan` observes every
adapter, reads the site's sensors, plans, collects the manual and automatic
requests, has `arbitrate` divide the capacity, and applies the resulting commands,
stops first, through `_async_apply_authorized` (command gate, "already so" check,
retry delay, device call, feedback check). Then it persists.

What is hard here: the lock is held across device calls, so the world moves between
two commands of one cycle; device calls fail in three ways; the grid reading and
the feedback of the loads have different ages; some configuration is written
without the lock; timers, users, replans and unload all may end the same test; and
the debounced task counts as pending while it acts on inputs it has already read.
In the browser every function of the panel is suspended at its requests while the
user, other requests, update events and the connection go on: an answer may be
overtaken, a captured value may be stale, and what several functions share (one
`refreshing`, one `sectionLoading`, one subscription) is set by each of them.

## Modules

| Module | Models | Checked by |
| --- | --- | --- |
| `SiteArbitrator` | `arbitrate`, one step per request | `MCSiteArbitrator` |
| `PowerPool` | abstract: a pool drawn from once per load | as a PROPERTY of `SiteArbitrator` |
| `SiteArbitratorProofs` | theorems about `SiteArbitrator` | TLAPS |
| `SumTheorems` | sums over sets of loads, for the proofs | TLAPS |
| `ReplanScheduler` | callbacks, debounced task, lock queue, start and stop | `MCReplanScheduler` |
| `ReplanSchedulerProofs` | theorems about `ReplanScheduler` | TLAPS |
| `ActuatorTest` | the bounded test of one load | `MCActuatorTest` |
| `ActuatorTestProofs` | theorems about `ActuatorTest` | TLAPS |
| `SiteControl` | the control cycle of a site with its users and house | `MCSiteControl` |
| `SiteControlProofs` | theorems about `SiteControl` | TLAPS |
| `CycleArbitration` | `SiteArbitrator` called with the arguments of a control cycle | `MCSiteArbitrator` |
| `CycleArbitrationProofs` | that this call implements `SiteControl`'s formula for it | TLAPS |
| `PanelSession` | refreshes, site choice, subscription and connection of the panel | `MCPanelSession` |
| `PanelSessionProofs` | theorems about `PanelSession` | TLAPS |
| `PanelWorkspace` | pages, drafts and commands of the panel, with the server's revisions and another client | `MCPanelWorkspace` |
| `PanelWorkspaceProofs` | theorems about `PanelWorkspace` | TLAPS |

### SiteArbitrator

The state is that of the loop: `totalGranted`, `solarRemaining`, `phaseGranted`,
`activeBinaryLoadCount`, `lastAutomaticStartAt` and the answers given so far. A
step answers the next request of the arbitration order: `Deny` with the first
reason that applies, or `Accept` with the grant. `Finish` is the closing assertion.
Watts are integers, so the code's tolerances of 1e-9 and 1e-6 are 0. Load ids are
numbers, because the last key of the order compares ids. `None` is an absent value.

The limits are stated about the answers, not about the loop's totals: `GrantedTo(S)` is
what the answers give to the loads of `S` together (`ArbitrationResult.total_granted_w`),
so a total that misses a grant is a violation too.

`HardPool` and `SolarPool` instantiate `PowerPool`: the capacity under the hard
limit, and the surplus, are each a pool from which a load draws once and which
never goes below empty. The first ignores the priorities, the phases and the
reasons; that is its point, and it is proved only.

### ReplanScheduler

Inputs are a version number that `InputChange` raises; a replan is current with the
version it has read. A replan is two steps, because it observes without suspension
and then awaits devices and the store: `Observe` reads, `Finish` gives up the lock.
`Acquire` and `Release` are the first-come-first-served `asyncio.Lock`. `StopBody`
is `async_stop` up to its awaits, with the cancellation of the debounced task
wherever it is, also in the lock's queue.

### ActuatorTest

One load. `record` is the persisted test, `timer` its task ("dead" when it ended or
was cancelled but is still in the dictionary). Whoever holds the lock across a
device call is in `lock`, the call in `command`; the call ends by `Confirmed`,
`Unconfirmed` or `Raised`, in the last two with the output moved or not. `testOn`
and `stopFailed` are history: a command of the present test moved the output from off
to on, and nothing has turned it off or operated it since; a stop of the present test
was not confirmed.

A replan decides for all loads at once (2165-2271) and then sends one command after the
other (2391-2409), so for one load it is several steps with the lock held: `ReplanDecides`
observes, notes whether the test has expired, and settles in `proposal` what is to be
sent (the arbitrator may grant or deny a running test's request); `ReplanSkips` or
`ReplanCommands`, and `ReplanReturns`, are the load's own turn; `ReplanEnds` completes an
expired test. Before and after its turn other loads' calls are awaited, in which the test
may expire, the owner may act and callers may queue.

### SiteControl

`BeginCycle` is everything from taking the lock to the first command: the
observation, the purge of expired overrides, the requests, the arbitration
(`IsGrant`, the arbitrator restricted to binary loads without phases and cap), and
the set of commands. `SkipCommand`, `SendCommand`, `CommandConfirmed` and
`CommandFails` are `_async_apply_authorized` on the next command of the sorted list;
between the last two the event loop runs and the meter, the base load, the owner and
the native form may act. Users' operations that take the lock wait for the cycle to
end. `async_set_automatic_control` is two actions because it takes the lock twice.

What the policies (solar, schedule, plan, battery guard) want is an arbitrary set of
loads per cycle, so the properties hold whatever they decide. There is no clock: an
expiry and a retry delay end by an action of their own, which makes every length of
them a behaviour; the stagger holds within one cycle, because no cycle passes its last
start on. `surprise`, `stale`, `releaseFailed` and `reconfigured` are history that only
properties read.

Every configuration update also reloads the entry. For this module a reload is
invisible: the new coordinator restores overrides and retry delays, observes, and
begins cycles as before. That the old coordinator's own replan may still run is
outside it (see the plan).

### CycleArbitration

`SiteControl` does not run the loop of the arbitrator: `IsGrant` is one formula for the
set of loads it accepts. `CycleArbitration` makes the call. It extends `SiteArbitrator`,
takes a state of the site that `SiteControl` may be in when a cycle has observed it
(`SiteInit`; loads, overrides, outputs, reading and feedback are arbitrary), builds the
requests and the `ArbitrationInput` as `_load_request` and `async_replan` build them
(`CycleRequest`, `CycleDecision`), and runs the loop. `GrantsOfTheCycle` says that what
is accepted in the end satisfies `IsGrant`; an instance of `SiteControl`, whose other
variables the formula does not read, supplies the formula itself. So the properties of
the cycle rest on the arbitrator of the code and not on a second description of it.

### PanelSession

A browser runs one callback at a time. What an await or a changed reactive property
leaves to be done is in `scheduled` and runs before anything else (`WillUpdate`,
`RunRefresh`, `FlushSubscriptionRefresh`); the rest of the world moves only when it is
"none". `refresh` is cut at its two awaits: `Refresh` is what runs to the first,
`SitesAnswered` and `DashboardAnswered` go on from there, `ReadFailed` is the catch and
`FinishRefresh` the finally. The code compares `requestSequence` and
`subscriptionGeneration` only with their newest values, so a call in flight carries
`newest` or `current` instead of a number that grows for ever.

A dashboard is a site and the version of that site's state that the server answered
with; `since` is the version when it was asked for, so an answer may be of any version
from then to now. The view "ready" stands for "ready" and "empty". `lapsed` is history:
the element was removed, or its last subscription refused. Commands in flight are
rejected when the connection closes, as the shell's library does; therefore hass is
taken away only without a connection and with no read in flight (`HassWithdrawn`), which
is how the shell ends a login. What a read does to the workspace is not here.

### PanelWorkspace

One site, and the panel's functions as calls in flight: a suspended function is the
record of what it waits for and what it has captured (`base`, the revision of the
content it sends or acts on; `rev`, the `if_revision`; `then`, what follows). `asked` is
a bag, because the same function may be suspended twice. The content of a document is
its revision, so a draft is the revision it was copied from, and "stored over what its
author had not read" is `base # rev` in a call that the server accepts.

`Serve` is the server: the checks and refusals of `_execute`, the coordinator's methods
with their comparison and their write in one step, as under its lock, and the results
that are sent or not (`Silent`). "Stored" and "answered with an error" go together in
one outcome of `Done`: the replan after the write may raise. `Receive` runs the panel's
function on. A call is served and its answer delivered in one step, which leaves something
out: the coordinator stores, then awaits a replan, and only then answers, so that the
panel may read the new configuration, or act on the old one, before it hears of its save.

`ResetWorkspaceData` needs no call in flight. It runs when hass is taken away, and when a
site is opened from the selector, which is on screen only before the first site is chosen
or after hass was taken away; and hass is taken away from a closed connection
(`PanelSession`), which has rejected every call. The panel itself does not check this: with
hass taken away from a live connection, a configuration answer of the site before would fill
the page of the next one. That is in neither panel module.

`OtherClient` is another panel or a native form. Refreshes are calls that may be overtaken
(`applied` is FALSE): which of them fills the screen is `PanelSession`'s matter, and the
revision a load's card shows is any that was ever shown (`Cards`).

## Runs

| Run | Question | Bounds |
| --- | --- | --- |
| `arbitration` | Does every answer keep every limit, does the order hold, is the pool of surplus implemented? Does a cycle's call accept what `IsGrant` says? | 3 loads, 10 kinds of request (manual, automatic, recovery; mandatory, with a deadline; binary and variable; running and not; one phase, and loads without), 11 situations (limits, export, stale or missing inputs, caps, a recent start): 11,000 calls; and 18,432 calls of the cycles of a site of 4 loads of two powers, of which 3 request and one has no power sensor, with boosts, an expired one and an Off, every output and feedback, a meter that exports, imports or is unavailable |
| `replan_scheduler` | Is a storm answered, is anyone starved, does anything outlive the unload? | 2 direct callers, 2 task identities, 3 input changes, 2 callbacks in flight |
| `actuator_test` | Do record and timer agree, does a test end, on evidence, and never while its own on is standing? | 1 load, the other loads' calls as steps that leave it alone, unbounded behaviour |
| `site_control` | Do starts keep the hard limit, is a blind site quiet, does what is sent answer the users' present wishes? | 2 loads: overrides and automatic control of one changed in panel and form, both switched by hand; base load exporting and rising, meter lost and stale; 4.4 million states |
| `site_control_enforced` | Is a lasting Off enforced as long as cycles go on beginning? | 1 load, owner, form, two base levels, fairness of what a cycle has begun |
| `panel_session` | Is the screen of the right site, never older than it was, and kept up to date? Does it recover? | 2 sites, of which the server lists none, one or both; the state of each changes once; 151,000 states |
| `panel_workspace` | Are drafts and commands of what the user saw, do saves stay visible, does every page stop loading? | 1 load, there from the start or added later, 1 report, documents that change once, 2 calls in flight when the user acts; 1.4 million states |

Three requests are the fewest with one granted, one denied and one after them; two
loads are the fewest with a failing stop before a start, or with a user's load and an
automatic one competing for capacity. Two callbacks and two tasks are the fewest with a
storm and with a second task beside a live one; 3 inputs give one before, one during and one after a
snapshot. Two sites are the fewest with an answer of the wrong one;
a state that changes once is enough for an answer before and one after the change. Two
calls in flight give a suspended function and one that changes what it captured, and a
command that follows an answer may make a third; one load suffices, because revisions of
two loads never meet in one call. `MaxVersion` and `MaxRevision` bound the counters in
the guards of what raises them, `MaxCalls` the user's actions. The next size up (three
loads or two users' loads in `SiteControl`, three calls in `PanelWorkspace`) was too
large for a routine run; the theorems cover every size.

`arbitration` switches deadlock checking off: one decision ends. Its initial states are of two
kinds, the calls of a cycle (`CycleCall`) and the others (`OtherCall`, as the simulation and
the tests make them); in the latter no load of the site requests, so that
`GrantsOfTheCycle` says nothing of them.

### Where the code disagrees with what it says

Each of these runs checks one sentence of a doc, a comment or a test, and TLC shows
a behaviour of the code against it.

| Run | Sentence | What happens |
| --- | --- | --- |
| `replan_lost_wakeup` | "preserving immediate state-driven control" (coordinator.py:382) | a change during the commanding half of the debounced replan is dropped |
| `test_left_on` | "Do not leave an unconfirmed explicit test on" (coordinator.py:1982) | a start that turns the output on and raises leaves it on: the exception passes the safety stop |
| `boost_expiry` | "timed expiry turns off" (docs/CONTROL_MODEL.md:124) | without automatic control nobody has the authority to stop it |
| `lost_update` | "it never overwrites silently" (docs/FRONTEND_UX_SPECIFICATION.md:71) | `saveLoad` reads the revision after its await: open the editor, let another client save, reload while the draft is being validated, and the old draft goes out with the new revision |
| `delete_unanswered` | "clear completion/error feedback" (docs/FRONTEND_UX_SPECIFICATION.md:67) | `ws_load_delete` sends its result only when the coordinator's is not None, which it always is; the dialog waits for ever. `override_clear` is the same |

`NeverOverwritesSilently` is the whole claim; `OthersAreNotOverwritten` is what is true
of it: saving a load is the only command that breaks it.

Others have no run of their own. Four are in the model, or decided by it, without a
property: the last start is not passed to the next arbitration, so the stagger ("start
staggering", docs/CONTROL_MODEL.md:140) ends with the cycle; starts follow a stop that
failed although a cycle sorts its commands to "release capacity before any start"
(coordinator.py:2380); loads that run on generation and together exceed the import limit
are granted while off and one is stopped while both are on, because only export that is
left over counts (2352); and the denial of a boost without a grid reading is sent as a
stop although "existing outputs are not changed here" (arbitrator.py:329). The passing
properties name the rest as exceptions, each in its text:

- `StartsWithinHardLimit` holds for a cycle whose reading was not older than the site
  (`stale`): fresh feedback is subtracted from a reading that may be up to
  `sensor_stale_seconds` old, so the baseline is not always "conservative by design"
  (coordinator.py:2330). It also sets aside consumption that others add after the
  reading (`surprise`), which nobody can know, and a stop of the same cycle that failed
  (`releaseFailed`).
- `AutomaticAuthority` lets off a load whose native form was saved during the cycle: the
  form writes without the lock (config_flow.py:235), and the cycle goes on with the
  configuration it read.
- `StopPendingUntilFailure` ends with the first failed stop: a user's stop cancels the timer
  before it calls the device (coordinator.py:2065), and its failure schedules nothing,
  although a test "always schedules a stop" (coordinator.py:1937).
- `EndsConfirmed` lets off an unload, which drops the record also after a failed stop
  (coordinator.py:207).
- `CommandsFollowOverrides` is about the override as it is recorded: between the two
  halves of enabling automatic control (coordinator.py:2124) a boost that is about to be
  cleared is still recorded, and a cycle applies it, although "a stale Boost cannot be
  applied in between" (2126).
- `RecordOutlivesOutput` is about the record, not the command: a replan that decided for a
  running test sends its on also when the test has expired meanwhile. What it says is
  that the record, and so the next stop, is then still there. It lets off an unload and a
  reload.
- `ShownSiteIsLive` lets off an element that was removed and put back, which neither reads
  nor subscribes again (the panel, 592), and a refused subscription, which is not retried.
- `AcceptedEventIsShown` is about events that the panel accepts; one that arrives while the
  subscription's own answer is awaited is ignored (2233).

### Fairness

- `SiteArbitrator`: weak fairness of `Next`. The loop has no awaits.
- `ReplanScheduler`: weak fairness of everything the event loop has ready and of the
  awaited calls. Nobody needs to change an input, call or unload.
- `ActuatorTest`: time passes, device calls return; strong fairness of `TimerStops`
  because the lock is first come, first served: a waiting timer gets it although
  others come again and again. A replan that has the lock goes on and gives it up. No
  fairness of a replan beginning: `TestEnds` holds without.
- `SiteControl` (`FairSpec`, only for `OffIsEnforced`): a cycle that has begun runs to
  its end, a retry delay passes, and strong fairness of a confirmed command per load: a
  device that refuses for ever cannot be switched off by anybody. No fairness of
  `BeginCycle`, since no timer begins a cycle and an input may be dropped
  (`replan_lost_wakeup`): that cycles go on beginning is the premise of the property,
  where a reader sees it. No fairness of `OverrideExpires`: an Off without an expiry is a
  behaviour, and the one the property is about.
- `PanelSession`: weak fairness of the element's own continuations, which are microtasks;
  strong fairness of the newest read's end: the server answers it or the connection closes
  and rejects it, and other callbacks defer it only for a moment. No fairness for events,
  the user or the subscription's answer.
- `PanelWorkspace`: weak fairness of the answer to the read of the page that is loading.
  Commands need not be answered, and `delete_unanswered` shows that some are not.

## Proofs

TLAPS proves the following for every value of the constants: any number of loads,
requests, callers, tasks, sites or calls in flight, and any limits and powers.

### Sums (`SumTheorems`)

Totals of granted or drawn power are sums over sets of loads (`SumFunctionOnSet`, a
fold). The library's induction theorems take an operator as a parameter, which the
provers cannot instantiate, so `SubsetInduction` is proved in a form without one: a
family `G` of subsets of a finite set that contains every set all of whose proper subsets
it contains is the whole power set. It comes from the well-foundedness of the strict
subset order. From it follow that the fold is defined (`RecursionDefined`,
`RecursionUnique`), and that a sum unfolds at any element, splits into disjoint parts and
grows with its set. Every proof about totals uses only these last facts.

### The arbitrator (`SiteArbitratorProofs`)

Type correctness, the five limits, `NoPriorityInversion`, that the surplus is given once
(`SolarGivenOnce`), and that the loop implements the safety part of both pools.

- `IInv` is about the loop's own totals. The limits are not inductive alone: the
  controlled limit needs `AnsweredInOrder` (every load still pending comes after every load
  answered, so no manual request, which may exceed that limit, follows an automatic one),
  and the stagger needs `StartsRecorded` (once this decision started a load, the recorded
  start is this decision's).
- `TotalsAddUp` ties the totals to the answers: the total, each phase's total, what is
  left of the surplus and the count of binary loads are the sums of what was granted. With
  it the limits, which are stated about the answers, follow from `IInv`.
- `OrderInv` adds `StillShort` to `NoPriorityInversion`: what was denied for lack of
  capacity would be denied now. It is inductive because headroom only shrinks
  (`HeadroomShrinks`); a later request of the same kind and phase that is accepted then
  needs less.

### The cycle and its arbitrator (`SiteControlProofs`, `CycleArbitrationProofs`)

`CommandsFollowOverrides`, `AutomaticAuthority` and `QuietWithoutInputs` rest on
`CommandsJustified`: every command still to be sent, not only the one being sent, answers
the present override of its load and carries the configuration's automatic control unless
the form was saved meanwhile. Every operation that could break that takes the lock; the
form does not, and is the exception the property names.

`StartsWithinHardLimit` and the types rest on `PowerInv`. `PlanFits` says that the loads
which run once every command of the cycle has worked fit the limit, and stays true
however much of the cycle is done, because a command that works moves a load from the
plan to the site and a stop that fails is recorded. It needs `OneCommandEach` (no two
commands of one load), `StopsSeen` (no stop is skipped on outdated feedback) and
`StopsFirst`. That the plan fits when the cycle begins is `DecisionFits`: the loads granted
(a sum in the arbitrator's order) and the loads left running without a request (already
in the reading) add up to no more than the limit.

`OffHandled` is the safety part of `OffIsEnforced`: a cycle without a failed stop ends
with every load off whose user wants it off. `OffInHand` is its invariant.

`GrantsAreTheCycles` closes the gap between the two models: for every site, observation
and policy, the loop of `SiteArbitrator` on the cycle's arguments accepts exactly what
`IsGrant` describes. `CycleInv` says so of the requests answered so far: because the loop
goes in the order of `Precedes`, what it has granted is what precedes the next request,
and the headroom, the stagger and the reasons come down to the three conjuncts of
`IsGrant` (`NextIsAnsweredByFit`). `OneGrantOfACycle` adds that the formula has at most one
solution (the first load in the order on which two solutions differ would have to satisfy
and violate it), so it leaves `SiteControl` no freedom that the code does not have.

### The scheduler and the test (`ReplanSchedulerProofs`, `ActuatorTestProofs`)

`StoppedForGood` (`NoDebouncedReplanAfterStop`) and `SchedulerKnowsItsTask`: a debounced
task that is not done is the one in `replanTask`, so `async_stop` cancels all by
cancelling one. `IInv` says where on the lock everybody is: the queue holds nobody twice,
and a process is queued or holds the lock exactly when its own state says so
(`EveryoneAtLock`); otherwise a cancelled task could be handed the lock.

For the actuator test, `RecordMatchesTask`, `StopPendingUntilFailure`, `EndsConfirmed`
and `RecordOutlivesOutput`. They are inductive once the holder of the lock is tied to the
test: a start is awaited only while no test exists, a stop only for one that exists, and
whoever stops it in place of the timer has cancelled the timer (`TimerHasLock`).
`RecordOutlivesOutput` rests on `SeenOffIsOff`: while a replan that decided on an expired
test holds the lock, feedback that shows off is not contradicted by an on of the test
(`SeenOffInvariance`), because such a replan sends nothing but off. It needs that the
completion goes by what had expired when the replan decided, and not by the clock.

### The panel (`PanelSessionProofs`, `PanelWorkspaceProofs`)

Type correctness, `NoForgottenSubscription`, `OneRequestEndsRefreshing`,
`CommandsNameTheShownSite`, `DashboardNeverGoesBack` and `ShownSiteIsLive`, for any
sites, lists and number of versions. `OneSubscription` says of the subscription in flight
what the invariant does not: at most one is `current`, and while there is one the panel
holds none, so adopting it forgets nothing. `Screen` joins `OneNewestRead` (exactly
one read is `newest` while the panel refreshes, and none otherwise) and
`ScreenOfSelectedSite` (dashboard and newest read are of the selected site, and the read
was not begun before the version on screen): the dashboard that replaces another is at
least as recent as its request, and the request was made after the one on screen was
answered. `ReadyIsLive` extends `ShownSiteIsLive` to the moments between two
continuations of the element. `NoEventForgotten` is the safety part of
`AcceptedEventIsShown`: an accepted event waits for a refresh under way or for its own,
and stops waiting only with a read that begins after it or with its subscription.

Of the workspace: type correctness, `DraftsAreOfTheShownConfiguration`,
`OthersAreNotOverwritten`, `OwnWritesAreShown` and `LoadingMeansRead`, for any loads, any
number of calls in flight and any bound on revisions. The types of the calls are
strengthened by what their kind implies (`CallsWellFormed`). `SentAsRead` strengthens
`OthersAreNotOverwritten` to calls that the server would refuse, and rests on the drafts: a
site's revision is captured with its draft, and the draft is of the configuration shown.
`OwnWritesAreShown` needs that no confirmed save is newer than the server. Two lemmas say
what adding and taking away a call does to a bag; everything else about the calls is
about the set of them.

### Assumptions, and what is only model-checked

The assumptions are the named ASSUMEs of the modules: load ids are numbers and finite
in number, powers positive, a controlled limit not above the hard one, a minimum not
above its maximum, task and caller identities distinct from each other and from the
scheduler's own, `None` distinct from every value. `CycleArbitration` adds that the site
has a positive start stagger, as it has by default (`schema.py` 76), and an import limit.
TLC evaluates them in every run.

Every invariant that a run checks is proved. What stays with TLC is liveness, which needs
fairness and ENABLED: `ClientsServed`, `StopCompletes`, `ScheduledInputSeen`, `TestEnds`,
`OffIsEnforced`, `AcceptedEventIsShown`, `ViewRecovers`, `SpinnerEnds`, and the fairness
in `ImplementsSolarPool`. The five runs that end in a violation have no theorem, of course.


## Not modelled, and the plan

Left out for good: the simulation (an offline tool), diagnostics, repairs, system
health and panel registration (no control state), the entities (they display and
forward), validation of fields, and in the browser the chart of a snapshot, the texts,
the formats and the types (what is displayed and how). Of the panel's rendering the
models have which controls are there and what they are bound to.

In this order:

1. `EntryLifecycle`: update listener, reload, the old coordinator's last replan beside
   the new coordinator, the shared store. Properties: one commanding coordinator; an
   override set before a reload is not lost. It composes with the scheduler's stop.
2. `SolarQualification` with the control cycle: starts recorded when wanted against
   starts that happened; holds, hourly and daily bounds over time.
3. The two critical sections of enabling automatic control, which compare the revision
   twice (coordinator.py:2115, 2967), against another client between them.
4. `Accounting`: intervals counted once over gaps, resets and day changes; abstractly a
   meter that only grows.
5. `Planner` and its slot boundary against the instant the cycle asks about; the slot
   choice against a reference definition on small horizons.
6. `Learning`, `Schedule`, `Tariff`: pure functions over bounded inputs.
7. Variable loads and an observation that raises in `SiteControl`; deletion of a load in
   `ActuatorTest`; storing and answering as two steps in `PanelWorkspace`.
8. Proofs about the modules above, beginning with the stop of the scheduler across a
   reload; and that a cycle of `SiteControl` with the loop of `CycleArbitration` inside it
   implements `SiteControl` step by step, of which `GrantsAreTheCycles` is the core.
