---------------------------- MODULE PanelSession ----------------------------
(***************************************************************************)
(* The panel's session with one Home Assistant connection: which site it   *)
(* shows, which read may fill the screen, and its subscription to updates  *)
(* (intelligent-load-controller-panel.ts with load-control-api.ts).        *)
(*                                                                         *)
(* The browser runs one callback at a time; every await, and every         *)
(* property the element marks as state, continues in a microtask before    *)
(* the next one.  The variable "scheduled" holds that continuation, and    *)
(* the page, the user and the server only move while it is "none".         *)
(*                                                                         *)
(* requestSequence and subscriptionGeneration are compared with their      *)
(* newest value only, so a call in flight carries the outcome of that      *)
(* comparison instead: newest, current.  A dashboard is the site it is     *)
(* about and the version of that site's state that the server answered     *)
(* with.  What the workspace does with it is modelled in PanelWorkspace.   *)
(***************************************************************************)
EXTENDS Naturals, Sequences, FiniteSets

CONSTANTS
    Sites,       \* configuration entries
    SiteLists,   \* answers that site_list may give
    MaxVersion,  \* bound on the number of states of one site
    None

ASSUME SitesAssumption == None \notin Sites
ASSUME SiteListsAssumption == SiteLists \subseteq Seq(Sites)
ASSUME MaxVersionAssumption == MaxVersion \in Nat

VARIABLES
    \* Home Assistant
    attached,      \* the element is in the page
    hass,          \* Home Assistant has injected its object
    connected,     \* hass.connection.connected
    version,       \* state of every site at the server
    \* the panel
    viewState,
    dashboard,     \* what is on screen, or None
    availableSites,
    selected,      \* selectedEntryId
    hasLoaded,
    wasConnected,
    refreshing,
    subscribed,    \* subscribedEntryId; updateUnsubscribe is set with it
    pending,       \* subscriptionRefreshPending
    lapsed,        \* history: removed, or refused, since it last subscribed
    \* calls
    scheduled,     \* continuation that runs before anything else
    reads,         \* getSites and getDashboard in flight
    subscribing,   \* subscribeMessage in flight
    open           \* subscriptions the connection holds for the panel

screen == <<viewState, dashboard, availableSites, selected>>
live   == <<subscribed, pending, lapsed, subscribing, open>>
env    == <<attached, hass, connected, version>>
vars   == <<env, screen, hasLoaded, wasConnected, refreshing, live, scheduled, reads>>

\* "empty", a site without loads, is "ready" here.
ViewStates == {"loading", "reconnecting", "error", "no_sites", "select_site", "ready"}
Dashboards == [site : Sites, version : 0..MaxVersion]
Reads      == [site : Sites \cup {None}, newest : BOOLEAN, since : 0..MaxVersion]

TypeOK ==
    /\ attached \in BOOLEAN /\ hass \in BOOLEAN /\ connected \in BOOLEAN
    /\ version \in [Sites -> 0..MaxVersion]
    /\ viewState \in ViewStates
    /\ dashboard \in Dashboards \cup {None}
    /\ availableSites \in Seq(Sites)
    /\ selected \in Sites \cup {None}
    /\ hasLoaded \in BOOLEAN /\ wasConnected \in BOOLEAN /\ refreshing \in BOOLEAN
    /\ subscribed \in Sites \cup {None}
    /\ pending \in BOOLEAN /\ lapsed \in BOOLEAN
    /\ scheduled \in {"none", "update", "route", "refresh", "flush"}
    /\ reads \subseteq Reads
    /\ subscribing \subseteq [site : Sites, current : BOOLEAN]
    /\ open \subseteq [site : Sites, mine : BOOLEAN, news : BOOLEAN]

Idle == scheduled = "none"

-----------------------------------------------------------------------------
(* Subscriptions and reads.                                                *)

\* Every read and subscription in flight is overtaken.
Overtaken(calls)  == {[r EXCEPT !.newest = FALSE] : r \in calls}
Disowned(calls)   == {[s EXCEPT !.current = FALSE] : s \in calls}

\* Bug: the panel goes on believing that it is subscribed.
UnsubscribeKeepsEntry ==
    /\ pending' = FALSE
    /\ open' = {o \in open : ~o.mine}
    /\ subscribing' = Disowned(subscribing)
    /\ UNCHANGED subscribed

\* unsubscribeUpdates
Unsubscribe ==
    /\ subscribed' = None
    /\ pending' = FALSE
    /\ open' = {o \in open : ~o.mine}
    /\ subscribing' = Disowned(subscribing)

\* ensureUpdateSubscription up to its await.
EnsureUpdateSubscription(site) ==
    IF hass /\ connected /\ subscribed # site
    THEN /\ subscribed' = None /\ pending' = FALSE
         /\ open' = {o \in open : ~o.mine}
         /\ subscribing' = Disowned(subscribing) \cup {[site |-> site, current |-> TRUE]}
         /\ lapsed' = FALSE
    ELSE UNCHANGED live

NewRead(site) ==
    [site |-> site, newest |-> TRUE, since |-> IF site = None THEN 0 ELSE version[site]]

\* refresh up to its first await; shown is the dashboard by then.
Refresh(shown) ==
    \/ /\ hass /\ connected
       /\ refreshing' = TRUE
       /\ dashboard' = shown
       /\ viewState' = IF shown = None THEN "loading" ELSE viewState
       /\ reads' = Overtaken(reads) \cup {NewRead(selected)}
    \/ /\ hass /\ ~connected
       /\ viewState' = "reconnecting"
       /\ dashboard' = shown
       /\ UNCHANGED <<refreshing, reads>>
    \/ /\ ~hass
       /\ dashboard' = shown
       /\ UNCHANGED <<viewState, refreshing, reads>>

\* The part of refresh that concerns the subscription.
RefreshSubscription ==
    IF hass /\ ~connected
    THEN Unsubscribe /\ UNCHANGED lapsed
    ELSE UNCHANGED live

Init ==
    /\ attached = TRUE /\ hass \in BOOLEAN /\ connected = TRUE
    /\ version = [s \in Sites |-> 0]
    /\ viewState = "loading" /\ dashboard = None
    /\ availableSites = <<>> /\ selected = None
    /\ hasLoaded = FALSE /\ wasConnected = FALSE /\ refreshing = FALSE
    /\ subscribed = None /\ pending = FALSE /\ lapsed = FALSE
    /\ scheduled = "update"
    /\ reads = {} /\ subscribing = {} /\ open = {}

-----------------------------------------------------------------------------
(* The element's own continuations.                                        *)

\* Bug: a connection that came back is not noticed.
NeedsRefreshOnce == ~hasLoaded \/ scheduled = "route"

\* The first load, a connection that came back, another route.
NeedsRefresh == ~hasLoaded \/ ~wasConnected \/ scheduled = "route"

\* Bug: starting over keeps what was on screen.
StartOverKeepsDashboard ==
    /\ viewState' = "loading"
    /\ availableSites' = <<>> /\ selected' = None
    /\ hasLoaded' = FALSE /\ wasConnected' = FALSE
    /\ UNCHANGED dashboard

StartOver ==
    /\ viewState' = "loading" /\ dashboard' = None
    /\ availableSites' = <<>> /\ selected' = None
    /\ hasLoaded' = FALSE /\ wasConnected' = FALSE

\* willUpdate: without hass the panel starts over; without a connection it waits.
WillUpdate ==
    /\ scheduled \in {"update", "route"}
    /\ \/ /\ ~hass
          /\ Unsubscribe /\ StartOver
          /\ scheduled' = "none"
       \/ /\ hass /\ ~connected
          /\ Unsubscribe
          /\ viewState' = "reconnecting" /\ wasConnected' = FALSE
          /\ scheduled' = "none"
          /\ UNCHANGED <<dashboard, availableSites, selected, hasLoaded>>
       \/ /\ hass /\ connected
          /\ wasConnected' = TRUE
          /\ scheduled' = IF NeedsRefresh /\ ~refreshing THEN "refresh" ELSE "none"
          /\ UNCHANGED <<screen, hasLoaded, subscribed, pending, subscribing, open>>
    /\ UNCHANGED <<env, refreshing, lapsed, reads>>

\* The refresh that willUpdate queued.
RunRefresh ==
    /\ scheduled = "refresh"
    /\ Refresh(dashboard) /\ RefreshSubscription
    /\ scheduled' = "update"
    /\ UNCHANGED <<env, availableSites, selected, hasLoaded, wasConnected>>

\* flushSubscriptionRefresh, called while no refresh is under way.
FlushSubscriptionRefresh ==
    /\ scheduled = "flush"
    /\ Refresh(dashboard)
    /\ IF hass /\ ~connected THEN Unsubscribe
       ELSE pending' = FALSE /\ UNCHANGED <<subscribed, subscribing, open>>
    /\ scheduled' = "update"
    /\ UNCHANGED <<env, availableSites, selected, hasLoaded, wasConnected, lapsed>>

-----------------------------------------------------------------------------
(* Answers.                                                                *)

\* Bug: events that came during the refresh are forgotten.
FinishWithoutFlush == refreshing' = FALSE /\ scheduled' = "update"

\* refresh's finally, when the request is still the newest.
FinishRefresh ==
    /\ refreshing' = FALSE
    /\ scheduled' = IF pending' THEN "flush" ELSE "update"

\* The site list arrives: none, a choice to make, or one site, which is opened.
SitesAnswered(r, list) ==
    /\ Idle /\ connected
    /\ r \in reads /\ r.newest /\ r.site = None
    /\ hasLoaded' = IF Len(list) = 1 THEN hasLoaded ELSE TRUE
    /\ availableSites' = list
    /\ \/ /\ list = <<>>
          /\ Unsubscribe /\ FinishRefresh
          /\ dashboard' = None /\ viewState' = "no_sites"
          /\ reads' = reads \ {r}
          /\ UNCHANGED <<selected, lapsed>>
       \/ /\ Len(list) > 1
          /\ selected' = Head(list)
          /\ dashboard' = None /\ viewState' = "select_site"
          /\ reads' = reads \ {r}
          /\ UNCHANGED live
          /\ FinishRefresh
       \/ /\ Len(list) = 1
          /\ selected' = Head(list)
          /\ reads' = (reads \ {r}) \cup {NewRead(Head(list))}
          /\ scheduled' = "update"
          /\ UNCHANGED <<dashboard, viewState, refreshing, live>>
    /\ UNCHANGED <<env, wasConnected>>

\* Bug: an overtaken answer fills the screen as well.
AcceptsAny(r) == TRUE

Accepts(r) == r.newest

\* The dashboard arrives: the server answered at some time since it was asked.
DashboardAnswered(r, v) ==
    /\ Idle /\ connected
    /\ r \in reads /\ Accepts(r) /\ r.site # None
    /\ v \in r.since..version[r.site]
    /\ dashboard' = [site |-> r.site, version |-> v]
    /\ viewState' = "ready" /\ hasLoaded' = TRUE
    /\ EnsureUpdateSubscription(r.site)
    /\ IF r.newest THEN FinishRefresh ELSE UNCHANGED refreshing /\ scheduled' = "update"
    /\ reads' = reads \ {r}
    /\ UNCHANGED <<env, availableSites, selected, wasConnected>>

\* The request is refused, or the connection closes before its answer.
ReadFailed(r) ==
    /\ Idle
    /\ r \in reads /\ r.newest
    /\ viewState' = "error" /\ hasLoaded' = TRUE
    /\ reads' = reads \ {r}
    /\ UNCHANGED <<env, dashboard, availableSites, selected, wasConnected, live>>
    /\ FinishRefresh

\* Bug: an overtaken request ends the refresh as well.
OvertakenSettledEnds(r) ==
    /\ Idle
    /\ r \in reads /\ ~r.newest
    /\ reads' = reads \ {r}
    /\ refreshing' = FALSE
    /\ UNCHANGED <<env, screen, hasLoaded, wasConnected, live, scheduled>>

\* The answer or the failure of an overtaken request.
OvertakenSettled(r) ==
    /\ Idle
    /\ r \in reads /\ ~r.newest
    /\ reads' = reads \ {r}
    /\ UNCHANGED <<env, screen, hasLoaded, wasConnected, refreshing, live, scheduled>>

AdoptsAny(s) == selected = s.site /\ connected   \* Bug: the generation is not compared.

Adopts(s) == s.current /\ selected = s.site /\ connected

\* The subscription is made: the panel takes it over, or gives it back at once.
SubscribeAnswered(s) ==
    /\ Idle /\ connected
    /\ s \in subscribing
    /\ subscribing' = subscribing \ {s}
    /\ IF Adopts(s)
       THEN /\ subscribed' = s.site
            /\ open' = {[o EXCEPT !.mine = FALSE] : o \in open}
                         \cup {[site |-> s.site, mine |-> TRUE, news |-> FALSE]}
       ELSE UNCHANGED <<subscribed, open>>
    /\ UNCHANGED <<env, screen, hasLoaded, wasConnected, refreshing, pending, lapsed,
                   scheduled, reads>>

\* It is refused, or this connection has no subscribeMessage.
SubscribeFailed(s) ==
    /\ Idle
    /\ s \in subscribing
    /\ subscribing' = subscribing \ {s}
    /\ lapsed' = (lapsed \/ s.current)
    /\ UNCHANGED <<env, screen, hasLoaded, wasConnected, refreshing, subscribed, pending,
                   open, scheduled, reads>>

\* The state of a site changes.  The callback of a subscription whose answer is
\* still in flight ignores the event: subscribedEntryId is not set yet.
SiteChanges(site) ==
    /\ Idle
    /\ version[site] < MaxVersion
    /\ version' = [version EXCEPT ![site] = @ + 1]
    /\ open' = {IF connected /\ o.site = site THEN [o EXCEPT !.news = TRUE] ELSE o : o \in open}
    /\ UNCHANGED <<attached, hass, connected, screen, hasLoaded, wasConnected, refreshing,
                   subscribed, pending, lapsed, scheduled, reads, subscribing>>

\* An update event: requestSubscriptionRefresh.
EventDelivered(o) ==
    /\ Idle /\ connected
    /\ o \in open /\ o.news
    /\ open' = (open \ {o}) \cup {[o EXCEPT !.news = FALSE]}
    /\ IF o.mine /\ o.site = selected /\ o.site = subscribed
       THEN pending' = TRUE /\ scheduled' = IF refreshing THEN "none" ELSE "flush"
       ELSE UNCHANGED <<pending, scheduled>>
    /\ UNCHANGED <<env, screen, hasLoaded, wasConnected, refreshing, subscribed, lapsed,
                   reads, subscribing>>

-----------------------------------------------------------------------------
(* The user.                                                               *)

\* The header's button, Retry, and the refresh that follows every action of the
\* workspace, which does not look at refreshing.
RefreshAsked ==
    /\ Idle /\ attached
    /\ \/ ~refreshing /\ connected
       \/ viewState = "error"
       \/ viewState = "ready" /\ dashboard # None
    /\ Refresh(dashboard) /\ RefreshSubscription
    /\ scheduled' = "update"
    /\ UNCHANGED <<env, availableSites, selected, hasLoaded, wasConnected>>

\* Bug: the position in the selector is taken for the entry.
SiteChosenByPosition(i) ==
    /\ Idle /\ attached
    /\ viewState = "select_site"
    /\ i \in DOMAIN availableSites
    /\ selected' = i
    /\ scheduled' = "update"
    /\ UNCHANGED <<env, viewState, dashboard, availableSites, hasLoaded, wasConnected,
                   refreshing, live, reads>>

\* handleSiteChange
SiteChosen(i) ==
    /\ Idle /\ attached
    /\ viewState = "select_site"
    /\ i \in DOMAIN availableSites
    /\ selected' = availableSites[i]
    /\ scheduled' = "update"
    /\ UNCHANGED <<env, viewState, dashboard, availableSites, hasLoaded, wasConnected,
                   refreshing, live, reads>>

\* openSelectedSite; the selector is on screen only while connected.
OpenSelectedSite ==
    /\ Idle /\ attached
    /\ viewState = "select_site" /\ selected # None
    /\ hass /\ connected
    /\ Unsubscribe
    /\ Refresh(None)
    /\ scheduled' = "update"
    /\ UNCHANGED <<env, availableSites, selected, hasLoaded, wasConnected, lapsed>>

-----------------------------------------------------------------------------
(* Home Assistant and the browser.                                         *)

\* A new hass object, as on every change of an entity, or another route.
HassInjected ==
    /\ Idle
    /\ hass' = TRUE /\ scheduled' = "update"
    /\ UNCHANGED <<attached, connected, version, screen, hasLoaded, wasConnected, refreshing,
                   live, reads>>

\* Taken back, as with the end of a login: the connection is gone, and with it the
\* requests in flight.
HassWithdrawn ==
    /\ Idle /\ ~connected /\ reads = {}
    /\ hass' = FALSE /\ scheduled' = "update"
    /\ UNCHANGED <<attached, connected, version, screen, hasLoaded, wasConnected, refreshing,
                   live, reads>>

RouteChanged ==
    /\ Idle
    /\ scheduled' = "route"
    /\ UNCHANGED <<env, screen, hasLoaded, wasConnected, refreshing, live, reads>>

\* The connection closes; its library rejects the commands in flight and will
\* renew the subscriptions.  The shell injects hass again.
ConnectionLost ==
    /\ Idle /\ connected
    /\ connected' = FALSE
    /\ open' = {[o EXCEPT !.news = FALSE] : o \in open}
    /\ scheduled' = "update"
    /\ UNCHANGED <<attached, hass, version, screen, hasLoaded, wasConnected, refreshing,
                   subscribed, pending, lapsed, reads, subscribing>>

ConnectionRestored ==
    /\ Idle /\ ~connected
    /\ reads = {}
    /\ connected' = TRUE
    /\ scheduled' = "update"
    /\ UNCHANGED <<attached, hass, version, screen, hasLoaded, wasConnected, refreshing,
                   live, reads>>

\* onNetworkChange: the browser goes online or offline.
NetworkChanged ==
    /\ Idle /\ attached
    /\ \/ /\ connected \/ ~hass
          /\ Refresh(dashboard) /\ RefreshSubscription
       \/ /\ ~connected /\ hass
          /\ Unsubscribe /\ viewState' = "reconnecting"
          /\ UNCHANGED <<dashboard, refreshing, lapsed, reads>>
    /\ scheduled' = "update"
    /\ UNCHANGED <<env, availableSites, selected, hasLoaded, wasConnected>>

\* disconnectedCallback
Removed ==
    /\ Idle /\ attached
    /\ attached' = FALSE
    /\ Unsubscribe
    /\ lapsed' = TRUE
    /\ UNCHANGED <<hass, connected, version, screen, hasLoaded, wasConnected, refreshing,
                   scheduled, reads>>

\* connectedCallback of an element that is put back: nothing is read or renewed.
PutBack ==
    /\ Idle /\ ~attached
    /\ attached' = TRUE
    /\ UNCHANGED <<hass, connected, version, screen, hasLoaded, wasConnected, refreshing,
                   live, scheduled, reads>>

Continue == WillUpdate \/ RunRefresh \/ FlushSubscriptionRefresh

ReadSettles ==
    \E r \in reads :
        \/ \E list \in SiteLists : SitesAnswered(r, list)
        \/ \E v \in 0..MaxVersion : DashboardAnswered(r, v)
        \/ ReadFailed(r)

Next ==
    \/ Continue
    \/ ReadSettles
    \/ \E r \in reads : OvertakenSettled(r)
    \/ \E s \in subscribing : SubscribeAnswered(s) \/ SubscribeFailed(s)
    \/ \E site \in Sites : SiteChanges(site)
    \/ \E o \in open : EventDelivered(o)
    \/ RefreshAsked \/ OpenSelectedSite
    \/ \E i \in DOMAIN availableSites : SiteChosen(i)
    \/ HassInjected \/ HassWithdrawn \/ RouteChanged
    \/ ConnectionLost \/ ConnectionRestored \/ NetworkChanged
    \/ Removed \/ PutBack

Spec == Init /\ [][Next]_vars

\* Microtasks run, and the newest read is answered or rejected however often other
\* callbacks come between: strong, since each of them defers it for a moment.
FairSpec == Spec /\ WF_vars(Continue) /\ SF_vars(ReadSettles)

-----------------------------------------------------------------------------
(* Properties.                                                             *)

\* Every subscription the connection holds for the panel is the one whose
\* unsubscribe function the panel keeps, however subscribing, switching, losing the
\* connection and removing the element interleave: none is left behind to call back.
NoForgottenSubscription ==
    /\ Cardinality(open) <= 1
    /\ \A o \in open : o.mine /\ subscribed = o.site
    /\ subscribed # None => open # {}

\* While the panel says it is refreshing, exactly one request in flight may end that;
\* while it does not, none may.  A request that never ends it would leave the refresh
\* button disabled and every later update event undone.
OneRequestEndsRefreshing ==
    Cardinality({r \in reads : r.newest}) = IF refreshing THEN 1 ELSE 0

\* A dashboard at rest in a connected page is kept up to date, or is about to be:
\* unless the element was removed or its last subscription was refused, the panel is
\* subscribed to the site it shows, or is subscribing to it.
ShownSiteIsLive ==
    (Idle /\ attached /\ hass /\ connected /\ viewState = "ready" /\ ~refreshing
      /\ ~lapsed)
    => \/ \E o \in open : o.mine /\ o.site = selected
       \/ [site |-> selected, current |-> TRUE] \in subscribing

\* The site whose state is on screen is the one that every command of the panel names,
\* through selections, late answers, lost connections and starting over.
CommandsNameTheShownSite ==
    dashboard # None => selected = dashboard.site

\* The screen never goes back: a dashboard of a site is only replaced by one of the same
\* site that is at least as recent, however late and in whatever order answers arrive.
DashboardNeverGoesBack ==
    [][(dashboard # None /\ dashboard' # None /\ dashboard'.site = dashboard.site)
        => dashboard'.version >= dashboard.version]_vars

\* An update event that the panel accepted is followed by a read begun after it: the
\* screen comes to show that state or a later one, unless the subscription was given up
\* or the read failed meanwhile.
AcceptedEventIsShown ==
    \A site \in Sites : \A v \in 1..MaxVersion :
        (pending /\ subscribed = site /\ version[site] >= v)
        ~> \/ dashboard # None /\ dashboard.site = site /\ dashboard.version >= v
           \/ subscribed # site
           \/ viewState = "error"

\* A panel that waits for data or for the connection stops waiting once Home Assistant
\* is there: it never keeps its skeleton or its reconnecting banner.
ViewRecovers ==
    (hass /\ connected /\ viewState \in {"loading", "reconnecting"})
    ~> (~hass \/ ~connected \/ viewState \notin {"loading", "reconnecting"})

=============================================================================
