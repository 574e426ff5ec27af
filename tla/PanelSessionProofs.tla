-------------------------- MODULE PanelSessionProofs --------------------------
(***************************************************************************)
(* What holds of the panel's session for every set of sites, whatever the  *)
(* lists that the server gives and however often its sites change.         *)
(***************************************************************************)
EXTENDS PanelSession, FiniteSetTheorems, TLAPS

-----------------------------------------------------------------------------
(* Types.                                                                  *)

SubscribingType == SUBSET [site : Sites, current : BOOLEAN]
OpenType        == SUBSET [site : Sites, mine : BOOLEAN, news : BOOLEAN]

\* unsubscribeUpdates keeps the types of the subscription's variables.
LEMMA UnsubscribeTyped ==
    ASSUME TypeOK, Unsubscribe
    PROVE  /\ subscribed' \in Sites \cup {None} /\ pending' \in BOOLEAN
           /\ subscribing' \in SubscribingType /\ open' \in OpenType
BY DEF TypeOK, Unsubscribe, Disowned, SubscribingType, OpenType

\* So does ensureUpdateSubscription up to its await.
LEMMA EnsureTyped ==
    ASSUME TypeOK, NEW site \in Sites, EnsureUpdateSubscription(site)
    PROVE  /\ subscribed' \in Sites \cup {None} /\ pending' \in BOOLEAN
           /\ subscribing' \in SubscribingType /\ open' \in OpenType /\ lapsed' \in BOOLEAN
<1>1. CASE UNCHANGED live
  BY <1>1 DEF TypeOK, live, SubscribingType, OpenType
<1>2. CASE /\ subscribed' = None /\ pending' = FALSE
           /\ open' = {o \in open : ~o.mine}
           /\ subscribing' = Disowned(subscribing) \cup {[site |-> site, current |-> TRUE]}
           /\ lapsed' = FALSE
  <2>1. Disowned(subscribing) \in SubscribingType
    BY DEF TypeOK, Disowned, SubscribingType
  <2>2. [site |-> site, current |-> TRUE] \in [site : Sites, current : BOOLEAN]
    OBVIOUS
  <2> QED BY <1>2, <2>1, <2>2 DEF TypeOK, SubscribingType, OpenType
<1> QED BY <1>1, <1>2 DEF EnsureUpdateSubscription

\* A read begun now is a read.
LEMMA NewReadTyped ==
    ASSUME TypeOK, NEW site \in Sites \cup {None}
    PROVE  NewRead(site) \in Reads
BY MaxVersionAssumption DEF TypeOK, NewRead, Reads

\* refresh up to its first await keeps the types of what it sets.
LEMMA RefreshTyped ==
    ASSUME TypeOK, NEW shown \in Dashboards \cup {None}, Refresh(shown)
    PROVE  /\ refreshing' \in BOOLEAN /\ dashboard' \in Dashboards \cup {None}
           /\ viewState' \in ViewStates /\ reads' \subseteq Reads
<1>1. NewRead(selected) \in Reads
  BY NewReadTyped DEF TypeOK
<1>2. Overtaken(reads) \subseteq Reads
  BY DEF TypeOK, Overtaken, Reads
<1> QED BY <1>1, <1>2 DEF TypeOK, Refresh, ViewStates

\* And the part of it that concerns the subscription.
LEMMA RefreshSubscriptionTyped ==
    ASSUME TypeOK, RefreshSubscription
    PROVE  /\ subscribed' \in Sites \cup {None} /\ pending' \in BOOLEAN
           /\ subscribing' \in SubscribingType /\ open' \in OpenType /\ lapsed' \in BOOLEAN
<1>1. CASE Unsubscribe /\ UNCHANGED lapsed
  BY <1>1, UnsubscribeTyped DEF TypeOK
<1>2. CASE UNCHANGED live
  BY <1>2 DEF TypeOK, live, SubscribingType, OpenType
<1> QED BY <1>1, <1>2 DEF RefreshSubscription

\* The empty list is a list of sites.
LEMMA NoSites == <<>> \in Seq(Sites) /\ Len(<<>>) = 0
OBVIOUS

\* The initial state is well typed.
LEMMA InitTypes == Init => TypeOK
<1>1. Init => version \in [Sites -> 0..MaxVersion]
  BY MaxVersionAssumption DEF Init
<1> QED BY <1>1, NoSites DEF Init, TypeOK, ViewStates

\* The element's own continuations keep the types.
LEMMA ContinueTypes == ASSUME TypeOK, Continue PROVE TypeOK'
<1> USE DEF SubscribingType, OpenType
<1>1. CASE WillUpdate
  <2>1. UNCHANGED <<env, refreshing, lapsed, reads>>
    BY <1>1 DEF WillUpdate
  <2>2. CASE Unsubscribe /\ StartOver /\ scheduled' = "none"
    <3>1. /\ viewState' \in ViewStates /\ dashboard' = None /\ availableSites' \in Seq(Sites)
          /\ selected' = None /\ hasLoaded' \in BOOLEAN /\ wasConnected' \in BOOLEAN
      BY <2>2, NoSites DEF StartOver, ViewStates
    <3> QED BY <2>1, <2>2, <3>1, UnsubscribeTyped DEF TypeOK, env
  <2>3. CASE /\ Unsubscribe /\ scheduled' = "none"
             /\ viewState' = "reconnecting" /\ wasConnected' = FALSE
             /\ UNCHANGED <<dashboard, availableSites, selected, hasLoaded>>
    BY <2>1, <2>3, UnsubscribeTyped DEF TypeOK, ViewStates, env
  <2>4. CASE /\ wasConnected' = TRUE /\ scheduled' \in {"refresh", "none"}
             /\ UNCHANGED <<screen, hasLoaded, subscribed, pending, subscribing, open>>
    BY <2>1, <2>4 DEF TypeOK, screen, env
  <2> QED BY <1>1, <2>2, <2>3, <2>4 DEF WillUpdate
<1>2. CASE RunRefresh
  <2>1. dashboard \in Dashboards \cup {None}
    BY DEF TypeOK
  <2> QED BY <1>2, <2>1, RefreshTyped, RefreshSubscriptionTyped DEF RunRefresh, TypeOK, env
<1>3. CASE FlushSubscriptionRefresh
  <2>1. dashboard \in Dashboards \cup {None}
    BY DEF TypeOK
  <2>2. /\ subscribed' \in Sites \cup {None} /\ pending' \in BOOLEAN
        /\ subscribing' \in SubscribingType /\ open' \in OpenType
    BY <1>3, UnsubscribeTyped DEF FlushSubscriptionRefresh, TypeOK
  <2> QED BY <1>3, <2>1, <2>2, RefreshTyped DEF FlushSubscriptionRefresh, TypeOK, env
<1> QED BY <1>1, <1>2, <1>3 DEF Continue

\* Ending a refresh sets a Boolean and a known continuation.
LEMMA FinishTyped ==
    ASSUME FinishRefresh, pending' \in BOOLEAN
    PROVE  refreshing' \in BOOLEAN /\ scheduled' \in {"none", "update", "route", "refresh", "flush"}
BY DEF FinishRefresh

\* The answers to reads keep the types.
LEMMA ReadTypes ==
    ASSUME TypeOK, ReadSettles \/ \E r \in reads : OvertakenSettled(r)
    PROVE  TypeOK'
<1> USE DEF SubscribingType, OpenType
<1>1. ASSUME NEW r \in reads, NEW list \in SiteLists, SitesAnswered(r, list) PROVE TypeOK'
  <2>1. /\ list \in Seq(Sites) /\ Len(list) \in Nat
        /\ list # <<>> => Head(list) \in Sites
    BY SiteListsAssumption
  <2>2. CASE list = <<>>
    BY <1>1, <2>1, <2>2, UnsubscribeTyped, FinishTyped DEF SitesAnswered, TypeOK, ViewStates, env
  <2>3. CASE Len(list) > 1
    <3>1. list # <<>> /\ Len(list) # 1
      <4>1. ASSUME list = <<>> PROVE FALSE
        BY <2>3, <4>1, NoSites
      <4>2. \A n \in Nat : n > 1 => n # 1
        OBVIOUS
      <4>3. Len(list) # 1
        BY <2>1, <2>3, <4>2, Zenon
      <4> QED BY <4>1, <4>3
    <3>2. Head(list) \in Sites
      BY <2>1, <3>1
    <3> QED BY <1>1, <2>1, <3>1, <3>2, FinishTyped DEF SitesAnswered, TypeOK, ViewStates, env, live
  <2>4. CASE Len(list) = 1
    <3>1. list # <<>> /\ Head(list) \in Sites /\ ~(Len(list) > 1)
      BY <2>1, <2>4, NoSites
    <3>2. NewRead(Head(list)) \in Reads
      BY <3>1, NewReadTyped
    <3> QED BY <1>1, <2>1, <3>1, <3>2 DEF SitesAnswered, TypeOK, ViewStates, env, live
  <2> QED BY <1>1, <2>2, <2>3, <2>4 DEF SitesAnswered
<1>2. ASSUME NEW r \in reads, NEW v \in 0..MaxVersion, DashboardAnswered(r, v) PROVE TypeOK'
  <2>1. r.site \in Sites
    BY <1>2 DEF DashboardAnswered, TypeOK, Reads
  <2>2. [site |-> r.site, version |-> v] \in Dashboards
    BY <2>1 DEF Dashboards
  <2>3. refreshing' \in BOOLEAN /\ scheduled' \in {"none", "update", "route", "refresh", "flush"}
    BY <1>2, <2>1, EnsureTyped, FinishTyped DEF DashboardAnswered, TypeOK
  <2> QED BY <1>2, <2>1, <2>2, <2>3, EnsureTyped DEF DashboardAnswered, TypeOK, ViewStates, env
<1>3. ASSUME NEW r \in reads, ReadFailed(r) PROVE TypeOK'
  BY <1>3 DEF ReadFailed, FinishRefresh, TypeOK, ViewStates, env, live
<1>4. ASSUME NEW r \in reads, OvertakenSettled(r) PROVE TypeOK'
  BY <1>4 DEF OvertakenSettled, TypeOK, env, screen, live
<1> QED BY <1>1, <1>2, <1>3, <1>4 DEF ReadSettles

\* Subscriptions and events keep the types.
LEMMA EventTypes ==
    ASSUME TypeOK,
           \/ \E s \in subscribing : SubscribeAnswered(s) \/ SubscribeFailed(s)
           \/ \E site \in Sites : SiteChanges(site)
           \/ \E o \in open : EventDelivered(o)
    PROVE  TypeOK'
<1>1. ASSUME NEW s \in subscribing, SubscribeAnswered(s) PROVE TypeOK'
  <2>1. s.site \in Sites
    BY DEF TypeOK
  <2>2. subscribing' \subseteq [site : Sites, current : BOOLEAN]
    BY <1>1 DEF SubscribeAnswered, TypeOK
  <2>3. open' \subseteq [site : Sites, mine : BOOLEAN, news : BOOLEAN]
        /\ subscribed' \in Sites \cup {None}
    <3>1. CASE Adopts(s)
      <4> DEFINE Subscriptions == [site : Sites, mine : BOOLEAN, news : BOOLEAN]
                 new    == [site |-> s.site, mine |-> TRUE, news |-> FALSE]
                 old(o) == [o EXCEPT !.mine = FALSE]
      <4>1. new \in Subscriptions
        BY <2>1
      <4>2. \A o \in open : old(o) \in Subscriptions
        BY DEF TypeOK
      <4>3. subscribed' = s.site /\ open' = {old(o) : o \in open} \cup {new}
        BY <1>1, <3>1 DEF SubscribeAnswered
      <4>4. open' \subseteq Subscriptions
        <5> HIDE DEF Subscriptions, new, old
        <5> QED BY <4>1, <4>2, <4>3
      <4> QED BY <2>1, <4>3, <4>4
    <3>2. CASE ~Adopts(s)
      BY <1>1, <3>2 DEF SubscribeAnswered, TypeOK
    <3> QED BY <3>1, <3>2
  <2> QED BY <1>1, <2>2, <2>3 DEF SubscribeAnswered, TypeOK, env, screen
<1>2. ASSUME NEW s \in subscribing, SubscribeFailed(s) PROVE TypeOK'
  <2>1. lapsed' \in BOOLEAN
    BY <1>2 DEF SubscribeFailed
  <2> QED BY <1>2, <2>1 DEF SubscribeFailed, TypeOK, env, screen
<1>3. ASSUME NEW site \in Sites, SiteChanges(site) PROVE TypeOK'
  <2>1. version' \in [Sites -> 0..MaxVersion]
    BY <1>3, MaxVersionAssumption DEF SiteChanges, TypeOK
  <2>2. open' \subseteq [site : Sites, mine : BOOLEAN, news : BOOLEAN]
    BY <1>3 DEF SiteChanges, TypeOK
  <2> QED BY <1>3, <2>1, <2>2 DEF SiteChanges, TypeOK, screen
<1>4. ASSUME NEW o \in open, EventDelivered(o) PROVE TypeOK'
  <2>1. open' \subseteq [site : Sites, mine : BOOLEAN, news : BOOLEAN]
    BY <1>4 DEF EventDelivered, TypeOK
  <2>2. pending' \in BOOLEAN /\ scheduled' \in {"none", "update", "route", "refresh", "flush"}
    BY <1>4 DEF EventDelivered, TypeOK
  <2> QED BY <1>4, <2>1, <2>2 DEF EventDelivered, TypeOK, env, screen
<1> QED BY <1>1, <1>2, <1>3, <1>4

\* What the user, the shell and the browser do keeps the types.
LEMMA OutsideTypes ==
    ASSUME TypeOK,
           \/ RefreshAsked \/ OpenSelectedSite
           \/ \E i \in DOMAIN availableSites : SiteChosen(i)
           \/ HassInjected \/ HassWithdrawn \/ RouteChanged
           \/ ConnectionLost \/ ConnectionRestored \/ NetworkChanged
           \/ Removed \/ PutBack
    PROVE  TypeOK'
<1> USE DEF SubscribingType, OpenType
<1>1. dashboard \in Dashboards \cup {None} /\ None \in Dashboards \cup {None}
  BY DEF TypeOK
<1>2. CASE RefreshAsked
  BY <1>1, <1>2, RefreshTyped, RefreshSubscriptionTyped DEF RefreshAsked, TypeOK, env
<1>3. CASE OpenSelectedSite
  BY <1>1, <1>3, RefreshTyped, UnsubscribeTyped DEF OpenSelectedSite, TypeOK, env
<1>4. ASSUME NEW i \in DOMAIN availableSites, SiteChosen(i) PROVE TypeOK'
  <2>1. availableSites[i] \in Sites
    BY DEF TypeOK
  <2> QED BY <1>4, <2>1 DEF SiteChosen, TypeOK, env, live
<1>5. CASE HassInjected \/ HassWithdrawn \/ RouteChanged
  BY <1>5 DEF HassInjected, HassWithdrawn, RouteChanged, TypeOK, env, screen, live
<1>6. CASE ConnectionLost
  <2>1. open' \in OpenType
    BY <1>6 DEF ConnectionLost, TypeOK
  <2> QED BY <1>6, <2>1 DEF ConnectionLost, TypeOK, screen
<1>7. CASE ConnectionRestored
  BY <1>7 DEF ConnectionRestored, TypeOK, screen, live
<1>8. CASE NetworkChanged
  <2>1. CASE Refresh(dashboard) /\ RefreshSubscription
    BY <1>1, <1>8, <2>1, RefreshTyped, RefreshSubscriptionTyped DEF NetworkChanged, TypeOK, env
  <2>2. CASE /\ Unsubscribe /\ viewState' = "reconnecting"
             /\ UNCHANGED <<dashboard, refreshing, lapsed, reads>>
    BY <1>8, <2>2, UnsubscribeTyped DEF NetworkChanged, TypeOK, ViewStates, env
  <2> QED BY <1>8, <2>1, <2>2 DEF NetworkChanged
<1>9. CASE Removed
  BY <1>9, UnsubscribeTyped DEF Removed, TypeOK, screen
<1>10. CASE PutBack
  BY <1>10 DEF PutBack, TypeOK, screen, live
<1> QED BY <1>2, <1>3, <1>4, <1>5, <1>6, <1>7, <1>8, <1>9, <1>10

\* No step leaves the types.
LEMMA StepTypes == ASSUME TypeOK, [Next]_vars PROVE TypeOK'
<1>1. CASE UNCHANGED vars
  BY <1>1 DEF vars, env, screen, live, TypeOK
<1> QED BY <1>1, ContinueTypes, ReadTypes, EventTypes, OutsideTypes DEF Next

\* The panel, the connection and every call in flight keep their types.
THEOREM TypeCorrect == Spec => []TypeOK
<1>1. TypeOK /\ [Next]_vars => TypeOK'
  BY StepTypes
<1> QED BY <1>1, InitTypes, PTL DEF Spec

-----------------------------------------------------------------------------
(* Subscriptions.                                                          *)

\* At most one subscription is held, and at most one call may still bring one; while
\* it may, none is held, so that taking it over forgets none.
OneSubscription ==
    /\ \A o \in open : o.mine /\ subscribed = o.site
    /\ \A o, p \in open : o = p
    /\ subscribed # None => open # {}
    /\ \A s, t \in subscribing : s.current /\ t.current => s = t
    /\ \A s \in subscribing : s.current => open = {} /\ subscribed = None

\* Unsubscribing leaves no subscription of the panel and no current one in flight.
LEMMA UnsubscribeSubscription ==
    ASSUME TypeOK, OneSubscription, Unsubscribe
    PROVE  OneSubscription'
<1>1. open' = {} /\ subscribed' = None
  BY DEF OneSubscription, Unsubscribe
<1>2. \A s \in subscribing' : ~s.current
  BY DEF TypeOK, Unsubscribe, Disowned
<1> QED BY <1>1, <1>2 DEF OneSubscription

\* No step leaves a second subscription, or one the panel has lost.
LEMMA StepSubscription ==
    ASSUME TypeOK, OneSubscription, [Next]_vars
    PROVE  OneSubscription'
<1>1. CASE UNCHANGED <<subscribed, subscribing, open>>
  BY <1>1 DEF OneSubscription
<1>2. CASE Unsubscribe
  BY <1>2, UnsubscribeSubscription
<1>3. CASE UNCHANGED live
  BY <1>1, <1>3 DEF live
<1>4. CASE RefreshSubscription
  BY <1>2, <1>3, <1>4 DEF RefreshSubscription
<1>5. CASE Continue
  BY <1>1, <1>2, <1>4, <1>5 DEF Continue, WillUpdate, RunRefresh, FlushSubscriptionRefresh
<1>6. ASSUME NEW r \in reads, NEW list \in SiteLists, SitesAnswered(r, list)
      PROVE  OneSubscription'
  BY <1>2, <1>3, <1>6 DEF SitesAnswered
<1>7. ASSUME NEW r \in reads, NEW v \in 0..MaxVersion, DashboardAnswered(r, v)
      PROVE  OneSubscription'
  <2>1. r.site \in Sites
    BY <1>7 DEF DashboardAnswered, TypeOK, Reads
  <2>2. CASE /\ subscribed' = None
             /\ open' = {o \in open : ~o.mine}
             /\ subscribing' = Disowned(subscribing) \cup {[site |-> r.site, current |-> TRUE]}
    <3>1. open' = {}
      BY <2>2 DEF OneSubscription
    <3>2. \A s \in Disowned(subscribing) : ~s.current
      BY DEF TypeOK, Disowned
    <3> QED BY <2>2, <3>1, <3>2 DEF OneSubscription
  <2> QED BY <1>3, <1>7, <2>2 DEF DashboardAnswered, EnsureUpdateSubscription
<1>8. ASSUME NEW r \in reads, ReadFailed(r) \/ OvertakenSettled(r) PROVE OneSubscription'
  BY <1>3, <1>8 DEF ReadFailed, OvertakenSettled
<1>9. ASSUME NEW s \in subscribing, SubscribeAnswered(s) PROVE OneSubscription'
  <2>1. subscribing' \subseteq subscribing
    BY <1>9 DEF SubscribeAnswered
  <2>2. CASE Adopts(s)
    <3>1. s.current /\ open = {}
      BY <2>2 DEF Adopts, OneSubscription
    <3>2. \A t \in subscribing' : ~t.current
      BY <1>9, <3>1 DEF SubscribeAnswered, OneSubscription
    <3>3. open' = {[site |-> s.site, mine |-> TRUE, news |-> FALSE]} /\ subscribed' = s.site
      BY <1>9, <2>2, <3>1 DEF SubscribeAnswered
    <3> QED BY <3>2, <3>3 DEF OneSubscription
  <2>3. CASE ~Adopts(s)
    BY <1>9, <2>1, <2>3 DEF SubscribeAnswered, OneSubscription
  <2> QED BY <2>2, <2>3
<1>10. ASSUME NEW s \in subscribing, SubscribeFailed(s) PROVE OneSubscription'
  BY <1>10 DEF SubscribeFailed, OneSubscription
<1>11. ASSUME NEW site \in Sites, SiteChanges(site) PROVE OneSubscription'
  <2> DEFINE F(o) == IF connected /\ o.site = site THEN [o EXCEPT !.news = TRUE] ELSE o
  <2>1. open' = {F(o) : o \in open} /\ UNCHANGED <<subscribed, subscribing>>
    BY <1>11 DEF SiteChanges
  <2>2. \A o \in open : F(o).mine = o.mine /\ F(o).site = o.site
    BY DEF TypeOK
  <2> HIDE DEF F
  <2> QED BY <2>1, <2>2 DEF OneSubscription
<1>12. ASSUME NEW o \in open, EventDelivered(o) PROVE OneSubscription'
  <2>1. open = {o}
    BY DEF OneSubscription
  <2>2. open' = {[o EXCEPT !.news = FALSE]}
    BY <1>12, <2>1 DEF EventDelivered
  <2>3. [o EXCEPT !.news = FALSE].mine = o.mine /\ [o EXCEPT !.news = FALSE].site = o.site
    BY DEF TypeOK
  <2>4. UNCHANGED <<subscribed, subscribing>>
    BY <1>12 DEF EventDelivered
  <2> QED BY <2>1, <2>2, <2>3, <2>4 DEF OneSubscription
<1>13. CASE ConnectionLost
  <2> DEFINE F(o) == [o EXCEPT !.news = FALSE]
  <2>1. open' = {F(o) : o \in open} /\ UNCHANGED <<subscribed, subscribing>>
    BY <1>13 DEF ConnectionLost
  <2>2. \A o \in open : F(o).mine = o.mine /\ F(o).site = o.site
    BY DEF TypeOK
  <2> HIDE DEF F
  <2> QED BY <2>1, <2>2 DEF OneSubscription
<1>14. CASE RefreshAsked \/ OpenSelectedSite \/ NetworkChanged \/ Removed
  BY <1>2, <1>4, <1>14 DEF RefreshAsked, OpenSelectedSite, NetworkChanged, Removed
<1>15. CASE \/ \E i \in DOMAIN availableSites : SiteChosen(i)
            \/ HassInjected \/ HassWithdrawn \/ RouteChanged
            \/ ConnectionRestored \/ PutBack \/ UNCHANGED vars
  BY <1>3, <1>15 DEF SiteChosen, HassInjected, HassWithdrawn, RouteChanged,
                     ConnectionRestored, PutBack, vars
<1> QED BY <1>5, <1>6, <1>7, <1>8, <1>9, <1>10, <1>11, <1>12, <1>13, <1>14, <1>15
        DEF Next, ReadSettles

\* No subscription is ever left behind: the only one that the connection holds is the one
\* whose unsubscribe function the panel keeps.
THEOREM NoneForgotten == Spec => []NoForgottenSubscription
<1>1. Init => TypeOK /\ OneSubscription
  BY InitTypes DEF Init, OneSubscription
<1>2. TypeOK /\ OneSubscription /\ [Next]_vars => TypeOK' /\ OneSubscription'
  BY StepTypes, StepSubscription
<1>3. OneSubscription => NoForgottenSubscription
  <2> SUFFICES ASSUME OneSubscription PROVE NoForgottenSubscription
    OBVIOUS
  <2>1. Cardinality(open) <= 1
    <3>1. CASE open = {}
      BY <3>1, FS_EmptySet
    <3>2. ASSUME NEW o \in open PROVE Cardinality(open) <= 1
      <4>1. open = {o}
        BY DEF OneSubscription
      <4> QED BY <4>1, FS_Singleton
    <3> QED BY <3>1, <3>2
  <2> QED BY <2>1 DEF OneSubscription, NoForgottenSubscription
<1> QED BY <1>1, <1>2, <1>3, PTL DEF Spec

-----------------------------------------------------------------------------
(* Reads and the screen.                                                   *)

\* At most one request may fill the screen, and there is one while refreshing.
OneNewestRead ==
    /\ \A r, q \in reads : r.newest /\ q.newest => r = q
    /\ refreshing <=> \E r \in reads : r.newest

\* The screen and the request that may fill it are of the selected site; the request began
\* when the server already had what is shown.  A site is chosen on an empty screen, while
\* nothing may fill it, and without hass nothing is asked.
ScreenOfSelectedSite ==
    /\ dashboard # None =>
           selected = dashboard.site /\ dashboard.version <= version[dashboard.site]
    /\ \A r \in reads : r.newest =>
           /\ r.site = selected
           /\ dashboard # None => dashboard.version <= r.since
    /\ viewState = "select_site" => dashboard = None /\ \A r \in reads : ~r.newest
    /\ ~hass => reads = {}

Screen == OneNewestRead /\ ScreenOfSelectedSite

\* A new read overtakes every other and asks for the selected site.
LEMMA RefreshScreen ==
    ASSUME TypeOK, Screen, NEW shown \in {dashboard, None}, Refresh(shown),
           UNCHANGED <<hass, version, selected>>
    PROVE  Screen'
<1> USE DEF Screen, OneNewestRead, ScreenOfSelectedSite
<1>1. CASE /\ hass /\ refreshing' = TRUE /\ dashboard' = shown
           /\ viewState' = IF shown = None THEN "loading" ELSE viewState
           /\ reads' = Overtaken(reads) \cup {NewRead(selected)}
  <2>1. \A r \in Overtaken(reads) : ~r.newest
    BY DEF TypeOK, Overtaken, Reads
  <2>2. /\ NewRead(selected).newest /\ NewRead(selected).site = selected
        /\ selected # None => NewRead(selected).since = version[selected]
    BY DEF NewRead
  <2>3. dashboard # None => selected # None
    BY SitesAssumption DEF TypeOK, Dashboards
  <2>4. OneNewestRead'
    BY <1>1, <2>1, <2>2
  <2>5. viewState' = "select_site" => dashboard' = None /\ \A r \in reads' : ~r.newest
    BY <1>1
  <2>6. dashboard' # None => dashboard' = dashboard
    BY <1>1
  <2> HIDE DEF OneNewestRead
  <2> QED BY <1>1, <2>1, <2>2, <2>3, <2>4, <2>5, <2>6
<1>2. CASE /\ viewState' = "reconnecting" /\ dashboard' = shown
           /\ UNCHANGED <<refreshing, reads>>
  BY <1>2
<1>3. CASE /\ dashboard' = shown /\ UNCHANGED <<viewState, refreshing, reads>>
  BY <1>3
<1> QED BY <1>1, <1>2, <1>3 DEF Refresh

\* No step breaks the one newest read, or what it says of the screen.
LEMMA StepScreen ==
    ASSUME TypeOK, Screen, [Next]_vars
    PROVE  Screen'
<1> USE DEF Screen, OneNewestRead, ScreenOfSelectedSite
<1>1. CASE UNCHANGED <<hass, version, dashboard, selected, viewState, refreshing, reads>>
  BY <1>1
<1>2. CASE Refresh(dashboard) /\ UNCHANGED <<hass, version, selected>>
  BY <1>2, RefreshScreen
<1>3. CASE WillUpdate
  <2>1. CASE ~hass /\ StartOver
    BY <1>3, <2>1 DEF WillUpdate, StartOver, env
  <2>2. CASE viewState' = "reconnecting" /\ UNCHANGED <<dashboard, selected>>
    BY <1>3, <2>2 DEF WillUpdate, env
  <2>3. CASE UNCHANGED screen
    BY <1>1, <1>3, <2>3 DEF WillUpdate, env, screen
  <2> QED BY <1>3, <2>1, <2>2, <2>3 DEF WillUpdate
<1>4. CASE RunRefresh \/ FlushSubscriptionRefresh \/ RefreshAsked
  BY <1>2, <1>4 DEF RunRefresh, FlushSubscriptionRefresh, RefreshAsked, env
<1>5. ASSUME NEW r \in reads, NEW list \in SiteLists, SitesAnswered(r, list) PROVE Screen'
  <2>1. /\ r.newest /\ selected = None /\ dashboard = None /\ hass
        /\ \A q \in reads \ {r} : ~q.newest
    BY <1>5, SitesAssumption DEF SitesAnswered, TypeOK, Dashboards
  <2>2. CASE /\ dashboard' = None /\ refreshing' = FALSE /\ reads' = reads \ {r}
    BY <1>5, <2>1, <2>2 DEF SitesAnswered, env
  <2>3. CASE /\ selected' = Head(list) /\ reads' = (reads \ {r}) \cup {NewRead(Head(list))}
             /\ UNCHANGED <<dashboard, viewState, refreshing>>
    <3>1. NewRead(Head(list)).newest /\ NewRead(Head(list)).site = Head(list)
      BY DEF NewRead
    <3>2. refreshing /\ viewState # "select_site"
      BY <2>1
    <3> QED BY <1>5, <2>1, <2>3, <3>1, <3>2 DEF SitesAnswered, env
  <2> QED BY <1>5, <2>2, <2>3 DEF SitesAnswered, FinishRefresh
<1>6. ASSUME NEW r \in reads, NEW v \in 0..MaxVersion, DashboardAnswered(r, v) PROVE Screen'
  <2>1. /\ r.newest /\ r.site = selected /\ hass /\ \A q \in reads \ {r} : ~q.newest
    BY <1>6 DEF DashboardAnswered, Accepts
  <2>2. v <= version[r.site]
    <3>1. r.site \in Sites /\ version[r.site] \in 0..MaxVersion /\ r.since \in 0..MaxVersion
      BY <1>6 DEF DashboardAnswered, TypeOK, Reads
    <3> QED BY <1>6, <3>1, MaxVersionAssumption DEF DashboardAnswered
  <2> QED BY <1>6, <2>1, <2>2 DEF DashboardAnswered, FinishRefresh, env
<1>7. ASSUME NEW r \in reads, ReadFailed(r) PROVE Screen'
  <2>1. r.newest /\ hass /\ \A q \in reads \ {r} : ~q.newest
    BY <1>7 DEF ReadFailed
  <2> QED BY <1>7, <2>1 DEF ReadFailed, FinishRefresh, env
<1>8. ASSUME NEW r \in reads, OvertakenSettled(r) PROVE Screen'
  BY <1>8 DEF OvertakenSettled, env, screen
<1>9. ASSUME NEW site \in Sites, SiteChanges(site) PROVE Screen'
  <2>1. \A s \in Sites : version'[s] \in Nat /\ version[s] <= version'[s]
    BY <1>9, MaxVersionAssumption DEF SiteChanges, TypeOK
  <2>2. dashboard # None => dashboard.site \in Sites /\ dashboard.version \in Nat
                             /\ version[dashboard.site] \in Nat
    BY MaxVersionAssumption DEF TypeOK, Dashboards
  <2>3. UNCHANGED <<hass, dashboard, selected, viewState, refreshing, reads>>
    BY <1>9 DEF SiteChanges, screen
  <2> QED BY <2>1, <2>2, <2>3
<1>10. ASSUME NEW i \in DOMAIN availableSites, SiteChosen(i) PROVE Screen'
  BY <1>10 DEF SiteChosen, env
<1>11. CASE OpenSelectedSite
  BY <1>11, RefreshScreen DEF OpenSelectedSite, env
<1>12. CASE NetworkChanged
  <2>1. CASE viewState' = "reconnecting" /\ UNCHANGED <<dashboard, refreshing, reads>>
    BY <1>12, <2>1 DEF NetworkChanged, env
  <2> QED BY <1>2, <1>12, <2>1 DEF NetworkChanged, env
<1>13. CASE HassInjected \/ HassWithdrawn
  BY <1>13 DEF HassInjected, HassWithdrawn, screen
<1>14. CASE RouteChanged \/ ConnectionLost \/ ConnectionRestored \/ Removed \/ PutBack
            \/ UNCHANGED vars
  BY <1>1, <1>14 DEF RouteChanged, ConnectionLost, ConnectionRestored, Removed, PutBack, vars,
                     env, screen
<1>15. ASSUME \/ \E s \in subscribing : SubscribeAnswered(s) \/ SubscribeFailed(s)
              \/ \E o \in open : EventDelivered(o)
       PROVE  Screen'
  BY <1>1, <1>15 DEF SubscribeAnswered, SubscribeFailed, EventDelivered, env, screen
<1> HIDE DEF Screen
<1> QED BY <1>3, <1>4, <1>5, <1>6, <1>7, <1>8, <1>9, <1>10, <1>11, <1>12, <1>13, <1>14, <1>15
        DEF Next, Continue, ReadSettles

\* Both invariants of the screen hold in every reachable state.
LEMMA ScreenHolds == Spec => [](TypeOK /\ Screen)
<1>1. Init => Screen
  BY DEF Init, Screen, OneNewestRead, ScreenOfSelectedSite
<1>2. TypeOK /\ Screen /\ [Next]_vars => TypeOK' /\ Screen'
  BY StepTypes, StepScreen
<1> QED BY <1>1, <1>2, InitTypes, PTL DEF Spec

\* The site on screen is the one that the panel's commands name, whichever answers come
\* late and however often the panel reconnects, starts over or lets the user choose.
THEOREM CommandsAreForTheShownSite == Spec => []CommandsNameTheShownSite
<1>1. TypeOK /\ Screen => CommandsNameTheShownSite
  BY DEF Screen, ScreenOfSelectedSite, CommandsNameTheShownSite
<1> QED BY <1>1, ScreenHolds, PTL

\* A refresh under way has exactly one request that ends it, and no other request ends one.
THEOREM RefreshingEnds == Spec => []OneRequestEndsRefreshing
<1>1. TypeOK /\ Screen => OneRequestEndsRefreshing
  <2> SUFFICES ASSUME TypeOK, Screen PROVE OneRequestEndsRefreshing
    OBVIOUS
  <2> DEFINE newest == {r \in reads : r.newest}
  <2>1. CASE refreshing
    <3>1. PICK r \in reads : newest = {r}
      BY <2>1 DEF Screen, OneNewestRead
    <3> QED BY <2>1, <3>1, FS_Singleton DEF OneRequestEndsRefreshing
  <2>2. CASE ~refreshing
    <3>1. newest = {}
      BY <2>2 DEF Screen, OneNewestRead
    <3> QED BY <2>2, <3>1, FS_EmptySet DEF OneRequestEndsRefreshing
  <2> QED BY <2>1, <2>2
<1> QED BY <1>1, ScreenHolds, PTL

\* What is on screen is never replaced by an older state of the same site.
THEOREM NeverGoesBack == Spec => DashboardNeverGoesBack
<1> DEFINE Forward == (dashboard # None /\ dashboard' # None /\ dashboard'.site = dashboard.site)
                      => dashboard'.version >= dashboard.version
<1>1. TypeOK /\ Screen /\ [Next]_vars => Forward
  <2> SUFFICES ASSUME TypeOK, Screen, [Next]_vars, dashboard # None, dashboard' # None
               PROVE  dashboard'.version >= dashboard.version
    OBVIOUS
  <2>1. dashboard.version \in Nat
    BY MaxVersionAssumption DEF TypeOK, Dashboards
  <2>2. ASSUME NEW r \in reads, NEW v \in 0..MaxVersion, DashboardAnswered(r, v)
        PROVE  dashboard'.version >= dashboard.version
    <3>1. /\ dashboard'.version = v /\ r.site \in Sites /\ v >= r.since
          /\ r.since >= dashboard.version /\ r.since \in Nat
      BY <2>2, MaxVersionAssumption
         DEF DashboardAnswered, Accepts, Screen, ScreenOfSelectedSite, TypeOK, Reads
    <3> QED BY <2>1, <3>1
  <2>3. CASE UNCHANGED dashboard
    BY <2>1, <2>3
  <2>4. \/ UNCHANGED dashboard \/ dashboard' = None
        \/ \E r \in reads : \E v \in 0..MaxVersion : DashboardAnswered(r, v)
    BY DEF Next, Continue, WillUpdate, StartOver, RunRefresh, FlushSubscriptionRefresh, Refresh,
           ReadSettles, SitesAnswered, ReadFailed, OvertakenSettled, SubscribeAnswered,
           SubscribeFailed, SiteChanges, EventDelivered, RefreshAsked, OpenSelectedSite,
           SiteChosen, HassInjected, HassWithdrawn, RouteChanged, ConnectionLost,
           ConnectionRestored, NetworkChanged, Removed, PutBack, vars, screen
  <2> QED BY <2>2, <2>3, <2>4
<1>2. Spec => [][Forward]_vars
  BY <1>1, ScreenHolds, PTL DEF Spec
<1> QED BY <1>2 DEF DashboardNeverGoesBack

-----------------------------------------------------------------------------
(* The shown site is kept up to date.  The property looks at the moments    *)
(* between two callbacks; what is inductive holds inside them as well, and  *)
(* whether or not the panel is in the page, refreshing or connected.        *)

\* The panel is subscribed to the selected site, or is subscribing to it.
KeptUpToDate ==
    \/ \E o \in open : o.mine /\ o.site = selected
    \/ [site |-> selected, current |-> TRUE] \in subscribing

\* Whatever unsubscribes also takes the dashboard's view down, or lapses; and nothing is
\* "ready" before a site is selected.
ReadyIsLive == viewState = "ready" => selected # None /\ (lapsed \/ KeptUpToDate)

\* Before refresh asks for anything, it leaves the view and the subscription as they were,
\* or shows that it is loading or reconnecting.
LEMMA RefreshKeepsReady ==
    ASSUME Refresh(dashboard), UNCHANGED <<selected, lapsed>>, ReadyIsLive,
           \/ UNCHANGED <<subscribed, subscribing, open>>
           \/ hass /\ ~connected
    PROVE  ReadyIsLive'
<1>1. CASE viewState' # "ready"
  BY <1>1 DEF ReadyIsLive
<1>2. CASE viewState' = "ready"
  <2>1. ~(hass /\ ~connected) /\ viewState = "ready"
    BY <1>2 DEF Refresh
  <2> QED BY <2>1 DEF ReadyIsLive, KeptUpToDate
<1> QED BY <1>1, <1>2

\* No step leaves a dashboard on screen that is neither kept up to date nor given up.
LEMMA StepReadyIsLive ==
    ASSUME TypeOK, OneSubscription, Screen, ReadyIsLive, [Next]_vars
    PROVE  ReadyIsLive'
<1>1. CASE viewState' # "ready"
  BY <1>1 DEF ReadyIsLive
<1>2. CASE UNCHANGED <<viewState, selected, lapsed, subscribing, open>>
  BY <1>2 DEF ReadyIsLive, KeptUpToDate
<1>3. CASE WillUpdate
  <2>1. CASE UNCHANGED screen /\ UNCHANGED <<subscribing, open>>
    BY <1>2, <1>3, <2>1 DEF WillUpdate, screen
  <2> QED BY <1>1, <1>3, <2>1 DEF WillUpdate, StartOver
<1>4. ASSUME Refresh(dashboard), RefreshSubscription, UNCHANGED selected PROVE ReadyIsLive'
  BY <1>4, RefreshKeepsReady DEF RefreshSubscription, live
<1>5. CASE RunRefresh \/ RefreshAsked
  BY <1>4, <1>5 DEF RunRefresh, RefreshAsked
<1>6. CASE FlushSubscriptionRefresh
  BY <1>6, RefreshKeepsReady DEF FlushSubscriptionRefresh
<1>7. ASSUME NEW r \in reads, NEW list \in SiteLists, SitesAnswered(r, list)
      PROVE  ReadyIsLive'
  <2>1. selected = None
    BY <1>7 DEF SitesAnswered, Screen, ScreenOfSelectedSite
  <2>2. viewState' # "ready"
    BY <1>7, <2>1 DEF SitesAnswered, ReadyIsLive
  <2> QED BY <1>1, <2>2
<1>8. ASSUME NEW r \in reads, NEW v \in 0..MaxVersion, DashboardAnswered(r, v)
      PROVE  ReadyIsLive'
  <2>1. /\ r.site \in Sites /\ r.site = selected /\ UNCHANGED selected /\ hass /\ connected
    BY <1>8 DEF DashboardAnswered, Accepts, TypeOK, Reads, Screen, ScreenOfSelectedSite
  <2>2. selected' # None
    BY <2>1, SitesAssumption
  <2>3. KeptUpToDate'
    <3>1. CASE subscribed # r.site
      <4>1. [site |-> r.site, current |-> TRUE] \in subscribing'
        BY <1>8, <2>1, <3>1 DEF DashboardAnswered, EnsureUpdateSubscription
      <4> QED BY <2>1, <4>1 DEF KeptUpToDate
    <3>2. CASE subscribed = r.site
      <4>1. UNCHANGED open
        BY <1>8, <3>2 DEF DashboardAnswered, EnsureUpdateSubscription, live
      <4>2. \E o \in open : o.mine /\ o.site = selected
        BY <2>1, <3>2, SitesAssumption DEF OneSubscription
      <4> QED BY <2>1, <4>1, <4>2 DEF KeptUpToDate
    <3> QED BY <3>1, <3>2
  <2> QED BY <2>2, <2>3 DEF ReadyIsLive
<1>9. ASSUME NEW r \in reads, ReadFailed(r) PROVE ReadyIsLive'
  BY <1>1, <1>9 DEF ReadFailed
<1>10. ASSUME NEW r \in reads, OvertakenSettled(r) PROVE ReadyIsLive'
  BY <1>2, <1>10 DEF OvertakenSettled, screen, live
<1>11. ASSUME NEW s \in subscribing, SubscribeAnswered(s) PROVE ReadyIsLive'
  <2>1. UNCHANGED <<viewState, selected, lapsed>>
        /\ subscribing' = subscribing \ {s}
    BY <1>11 DEF SubscribeAnswered, screen
  <2>2. CASE Adopts(s)
    <3> DEFINE new == [site |-> s.site, mine |-> TRUE, news |-> FALSE]
    <3>1. new \in open' /\ new.mine /\ new.site = selected
      BY <1>11, <2>2 DEF SubscribeAnswered, Adopts
    <3> QED BY <2>1, <3>1 DEF ReadyIsLive, KeptUpToDate
  <2>3. CASE ~Adopts(s)
    <3>1. UNCHANGED open
      BY <1>11, <2>3 DEF SubscribeAnswered
    <3>2. connected
      BY <1>11 DEF SubscribeAnswered
    <3>3. [site |-> selected, current |-> TRUE] # s
      BY <2>3, <3>2 DEF Adopts
    <3> QED BY <2>1, <3>1, <3>3 DEF ReadyIsLive, KeptUpToDate
  <2> QED BY <2>2, <2>3
<1>12. ASSUME NEW s \in subscribing, SubscribeFailed(s) PROVE ReadyIsLive'
  <2>1. /\ UNCHANGED <<viewState, selected, open>>
        /\ subscribing' = subscribing \ {s} /\ lapsed' = (lapsed \/ s.current)
    BY <1>12 DEF SubscribeFailed, screen
  <2>2. CASE s.current
    BY <2>1, <2>2 DEF ReadyIsLive
  <2>3. CASE ~s.current
    <3>1. [site |-> selected, current |-> TRUE] # s
      BY <2>3
    <3> QED BY <2>1, <2>3, <3>1 DEF ReadyIsLive, KeptUpToDate
  <2> QED BY <2>2, <2>3
<1>13. ASSUME \A o \in open : \E p \in open' : p.mine = o.mine /\ p.site = o.site,
              UNCHANGED <<viewState, selected, lapsed, subscribing>>
       PROVE  ReadyIsLive'
  BY <1>13 DEF ReadyIsLive, KeptUpToDate
<1>14. ASSUME NEW site \in Sites, SiteChanges(site) PROVE ReadyIsLive'
  <2> DEFINE F(o) == IF connected /\ o.site = site THEN [o EXCEPT !.news = TRUE] ELSE o
  <2>1. open' = {F(o) : o \in open} /\ UNCHANGED <<viewState, selected, lapsed, subscribing>>
    BY <1>14 DEF SiteChanges, screen
  <2>2. \A o \in open : F(o).mine = o.mine /\ F(o).site = o.site
    BY DEF TypeOK
  <2> HIDE DEF F
  <2> QED BY <1>13, <2>1, <2>2
<1>15. ASSUME NEW o \in open, EventDelivered(o) PROVE ReadyIsLive'
  <2> DEFINE read == [o EXCEPT !.news = FALSE]
  <2>1. open' = (open \ {o}) \cup {read}
        /\ UNCHANGED <<viewState, selected, lapsed, subscribing>>
    BY <1>15 DEF EventDelivered, screen
  <2>2. read.mine = o.mine /\ read.site = o.site
    BY DEF TypeOK
  <2> HIDE DEF read
  <2> QED BY <1>13, <2>1, <2>2
<1>16. CASE ConnectionLost
  <2> DEFINE F(o) == [o EXCEPT !.news = FALSE]
  <2>1. open' = {F(o) : o \in open} /\ UNCHANGED <<viewState, selected, lapsed, subscribing>>
    BY <1>16 DEF ConnectionLost, screen
  <2>2. \A o \in open : F(o).mine = o.mine /\ F(o).site = o.site
    BY DEF TypeOK
  <2> HIDE DEF F
  <2> QED BY <1>13, <2>1, <2>2
<1>17. ASSUME NEW i \in DOMAIN availableSites, SiteChosen(i) PROVE ReadyIsLive'
  BY <1>1, <1>17 DEF SiteChosen
<1>18. CASE OpenSelectedSite
  BY <1>1, <1>18 DEF OpenSelectedSite, Refresh
<1>19. CASE NetworkChanged
  <2>1. CASE Refresh(dashboard) /\ RefreshSubscription
    BY <1>4, <1>19, <2>1 DEF NetworkChanged
  <2> QED BY <1>1, <1>19, <2>1 DEF NetworkChanged
<1>20. CASE Removed
  BY <1>20 DEF Removed, ReadyIsLive, screen
<1>21. CASE \/ HassInjected \/ HassWithdrawn \/ RouteChanged
            \/ ConnectionRestored \/ PutBack \/ UNCHANGED vars
  BY <1>2, <1>21 DEF HassInjected, HassWithdrawn, RouteChanged, ConnectionRestored, PutBack,
                     vars, screen, live
<1> QED BY <1>3, <1>5, <1>6, <1>7, <1>8, <1>9, <1>10, <1>11, <1>12, <1>14, <1>15, <1>16,
           <1>17, <1>18, <1>19, <1>20, <1>21
        DEF Next, Continue, ReadSettles

\* A dashboard on screen is kept up to date, or about to be, unless the element was removed
\* or its last subscription was refused: no order of reconnecting, switching and late
\* answers leaves the panel showing a site whose updates it does not receive.
THEOREM ShownSiteKeptUpToDate == Spec => []ShownSiteIsLive
<1>1. Init => TypeOK /\ OneSubscription /\ ReadyIsLive
  BY InitTypes DEF Init, OneSubscription, ReadyIsLive
<1>2. TypeOK /\ Screen /\ OneSubscription /\ ReadyIsLive /\ [Next]_vars
      => OneSubscription' /\ ReadyIsLive'
  BY StepSubscription, StepReadyIsLive
<1>3. ReadyIsLive => ShownSiteIsLive
  BY DEF ReadyIsLive, KeptUpToDate, ShownSiteIsLive
<1> QED BY <1>1, <1>2, <1>3, ScreenHolds, PTL DEF Spec

-----------------------------------------------------------------------------
(* No update event is forgotten: what AcceptedEventIsShown rests on.       *)

\* An accepted event waits for a refresh under way, or its own is about to run.
EventsWait == pending => subscribed # None /\ (refreshing \/ scheduled = "flush")

\* Without hass nothing is read, and after the next update nothing subscribed.
QuietWithoutHass ==
    ~hass => /\ reads = {}
             /\ \/ scheduled \in {"update", "route"}
                \/ subscribed = None /\ \A s \in subscribing : ~s.current

\* What stops waiting has been read anew, or belongs to a subscription given up.
EventsAreRead ==
    pending /\ ~pending' =>
        \/ subscribed' # subscribed
        \/ refreshing' /\ NewRead(selected) \in reads'

\* A refresh begins without forgetting an event.
LEMMA RefreshKeepsEvents ==
    ASSUME EventsWait, Idle, NEW shown, Refresh(shown),
           Unsubscribe \/ UNCHANGED live, scheduled' = "update"
    PROVE  EventsWait'
<1>1. pending' => pending /\ UNCHANGED subscribed
  BY DEF Unsubscribe, live
<1>2. pending => refreshing
  BY DEF EventsWait, Idle
<1>3. refreshing => refreshing'
  BY DEF Refresh
<1> QED BY <1>1, <1>2, <1>3 DEF EventsWait

\* No step forgets an event that waits.
LEMMA StepEventsWait ==
    ASSUME TypeOK, Screen, EventsWait, QuietWithoutHass, [Next]_vars
    PROVE  EventsWait'
<1> USE DEF EventsWait
<1>1. CASE pending' = FALSE
  BY <1>1
<1>2. CASE WillUpdate
  <2>1. CASE Unsubscribe
    BY <1>1, <2>1 DEF Unsubscribe
  <2>2. CASE UNCHANGED <<subscribed, pending>>
    BY <1>2, <2>2 DEF WillUpdate
  <2> QED BY <1>2, <2>1, <2>2 DEF WillUpdate
<1>3. CASE RunRefresh
  <2>1. pending' => pending /\ UNCHANGED subscribed
    BY <1>3 DEF RunRefresh, RefreshSubscription, Unsubscribe, live
  <2>2. pending => refreshing
    BY <1>3 DEF RunRefresh
  <2>3. refreshing => refreshing'
    BY <1>3 DEF RunRefresh, Refresh
  <2> QED BY <2>1, <2>2, <2>3
<1>4. CASE FlushSubscriptionRefresh
  <2>1. pending' = FALSE
    BY <1>4 DEF FlushSubscriptionRefresh, Unsubscribe
  <2> QED BY <1>1, <2>1
<1>5. ASSUME Idle, FinishRefresh, pending' => pending /\ UNCHANGED subscribed PROVE EventsWait'
  BY <1>5 DEF FinishRefresh
<1>6. ASSUME NEW r \in reads, NEW list \in SiteLists, SitesAnswered(r, list)
      PROVE  EventsWait'
  <2>1. CASE Unsubscribe
    BY <1>1, <2>1 DEF Unsubscribe
  <2>2. CASE UNCHANGED live /\ FinishRefresh
    BY <1>5, <1>6, <2>2 DEF SitesAnswered, live
  <2>3. CASE UNCHANGED live /\ UNCHANGED refreshing
    BY <1>6, <2>3 DEF SitesAnswered, live, Idle
  <2> QED BY <1>6, <2>1, <2>2, <2>3 DEF SitesAnswered
<1>7. ASSUME NEW r \in reads, NEW v \in 0..MaxVersion, DashboardAnswered(r, v)
      PROVE  EventsWait'
  <2>1. Idle /\ FinishRefresh
    BY <1>7 DEF DashboardAnswered, Accepts
  <2>2. pending' => pending /\ UNCHANGED subscribed
    BY <1>7 DEF DashboardAnswered, EnsureUpdateSubscription, live
  <2> QED BY <1>5, <2>1, <2>2
<1>8. ASSUME NEW r \in reads, ReadFailed(r) PROVE EventsWait'
  BY <1>5, <1>8 DEF ReadFailed, live
<1>9. ASSUME NEW r \in reads, OvertakenSettled(r) PROVE EventsWait'
  BY <1>9 DEF OvertakenSettled, live
<1>10. ASSUME NEW s \in subscribing, SubscribeAnswered(s) PROVE EventsWait'
  <2>1. CASE Adopts(s)
    <3>1. subscribed' = s.site /\ s.site \in Sites
      BY <1>10, <2>1 DEF SubscribeAnswered, TypeOK
    <3> QED BY <1>10, <3>1, SitesAssumption DEF SubscribeAnswered
  <2>2. CASE ~Adopts(s)
    BY <1>10, <2>2 DEF SubscribeAnswered
  <2> QED BY <2>1, <2>2
<1>11. ASSUME NEW s \in subscribing, SubscribeFailed(s) PROVE EventsWait'
  BY <1>11 DEF SubscribeFailed
<1>12. ASSUME NEW site \in Sites, SiteChanges(site) PROVE EventsWait'
  BY <1>12 DEF SiteChanges
<1>13. ASSUME NEW o \in open, EventDelivered(o) PROVE EventsWait'
  <2>1. CASE o.mine /\ o.site = selected /\ o.site = subscribed
    <3>1. subscribed # None
      BY <2>1, SitesAssumption DEF TypeOK
    <3> QED BY <1>13, <2>1, <3>1 DEF EventDelivered
  <2>2. CASE ~(o.mine /\ o.site = selected /\ o.site = subscribed)
    BY <1>13, <2>2 DEF EventDelivered
  <2> QED BY <2>1, <2>2
<1>14. CASE RefreshAsked
  BY <1>14, RefreshKeepsEvents DEF RefreshAsked, RefreshSubscription
<1>15. CASE OpenSelectedSite
  BY <1>1, <1>15 DEF OpenSelectedSite, Unsubscribe
<1>16. CASE NetworkChanged
  <2>1. CASE Refresh(dashboard) /\ RefreshSubscription
    BY <1>16, <2>1, RefreshKeepsEvents DEF NetworkChanged, RefreshSubscription
  <2>2. CASE Unsubscribe
    BY <1>1, <2>2 DEF Unsubscribe
  <2> QED BY <1>16, <2>1, <2>2 DEF NetworkChanged
<1>17. CASE Removed
  BY <1>1, <1>17 DEF Removed, Unsubscribe
<1>18. CASE \/ HassInjected \/ HassWithdrawn \/ RouteChanged \/ ConnectionRestored
            \/ ConnectionLost \/ PutBack \/ \E i \in DOMAIN availableSites : SiteChosen(i)
  BY <1>18 DEF HassInjected, HassWithdrawn, RouteChanged, ConnectionRestored, ConnectionLost,
               PutBack, SiteChosen, live, Idle
<1>19. CASE UNCHANGED vars
  BY <1>19 DEF vars, screen, live
<1> QED BY <1>2, <1>3, <1>4, <1>6, <1>7, <1>8, <1>9, <1>10, <1>11, <1>12, <1>13, <1>14,
           <1>15, <1>16, <1>17, <1>18, <1>19
        DEF Next, Continue, ReadSettles

\* Where hass is missing, nothing is begun and the next update gives up what is left.
LEMMA StepQuietWithoutHass ==
    ASSUME TypeOK, QuietWithoutHass, [Next]_vars
    PROVE  QuietWithoutHass'
<1> USE DEF QuietWithoutHass
<1>1. CASE hass'
  BY <1>1
<1>2. CASE ~hass' /\ hass
  <2>1. HassWithdrawn
    BY <1>2 DEF Next, Continue, ReadSettles, WillUpdate, RunRefresh, FlushSubscriptionRefresh,
       SitesAnswered, DashboardAnswered, ReadFailed, OvertakenSettled, SubscribeAnswered,
       SubscribeFailed, SiteChanges, EventDelivered, RefreshAsked, OpenSelectedSite, SiteChosen,
       HassInjected, RouteChanged, ConnectionLost, ConnectionRestored, NetworkChanged, Removed,
       PutBack, env, vars
  <2> QED BY <2>1 DEF HassWithdrawn
<1>3. CASE ~hass /\ ~hass'
  <2> DEFINE Settled == subscribed = None /\ \A s \in subscribing : ~s.current
  <2>1. reads = {}
    BY <1>3
  <2>2. ASSUME scheduled' \in {"update", "route"}, reads' = {} PROVE QuietWithoutHass'
    BY <2>2
  <2>3. ASSUME UNCHANGED scheduled, Settled => Settled', reads' = {} PROVE QuietWithoutHass'
    BY <1>3, <2>3
  <2>4. Unsubscribe => Settled'
    BY DEF Unsubscribe, Disowned, TypeOK
  <2>5. ASSUME NEW shown, Refresh(shown) PROVE UNCHANGED reads
    BY <1>3, <2>5 DEF Refresh
  <2>6. CASE WillUpdate
    BY <1>3, <2>1, <2>4, <2>6 DEF WillUpdate
  <2>7. CASE RunRefresh \/ FlushSubscriptionRefresh
    BY <2>1, <2>2, <2>5, <2>7 DEF RunRefresh, FlushSubscriptionRefresh
  <2>8. ASSUME NEW s \in subscribing, SubscribeAnswered(s) \/ SubscribeFailed(s)
        PROVE  QuietWithoutHass'
    <3>1. UNCHANGED <<scheduled, reads>> /\ subscribing' = subscribing \ {s}
      BY <2>8 DEF SubscribeAnswered, SubscribeFailed
    <3>2. s.current \/ UNCHANGED subscribed
      BY <2>8 DEF SubscribeAnswered, SubscribeFailed, Adopts
    <3> QED BY <2>1, <2>3, <3>1, <3>2
  <2>9. ASSUME NEW site \in Sites, SiteChanges(site) PROVE QuietWithoutHass'
    BY <2>1, <2>3, <2>9 DEF SiteChanges
  <2>10. ASSUME NEW o \in open, EventDelivered(o) PROVE QuietWithoutHass'
    <3>1. subscribed # None \/ UNCHANGED scheduled
      BY <2>10, SitesAssumption DEF EventDelivered, TypeOK
    <3>2. UNCHANGED <<subscribed, subscribing, reads>> /\ scheduled = "none"
      BY <2>10 DEF EventDelivered, Idle
    <3> QED BY <1>3, <2>1, <2>3, <3>1, <3>2
  <2>11. CASE RefreshAsked \/ NetworkChanged
    BY <2>1, <2>2, <2>5, <2>11 DEF RefreshAsked, NetworkChanged
  <2>12. CASE Removed
    BY <2>1, <2>3, <2>4, <2>12 DEF Removed
  <2>13. CASE PutBack \/ UNCHANGED vars
    BY <2>1, <2>3, <2>13 DEF PutBack, live, vars
  <2>14. CASE \/ HassInjected \/ HassWithdrawn \/ RouteChanged \/ ConnectionLost
              \/ ConnectionRestored \/ \E i \in DOMAIN availableSites : SiteChosen(i)
    BY <2>1, <2>2, <2>14 DEF HassInjected, HassWithdrawn, RouteChanged, ConnectionLost,
       ConnectionRestored, SiteChosen
  <2>15. ~OpenSelectedSite
    BY <1>3 DEF OpenSelectedSite
  <2> QED BY <2>1, <2>6, <2>7, <2>8, <2>9, <2>10, <2>11, <2>12, <2>13, <2>14, <2>15
          DEF Next, Continue, ReadSettles
<1> QED BY <1>1, <1>2, <1>3 DEF TypeOK

\* Only a flush, which reads anew, and giving up the subscription end the waiting.
LEMMA StepEventsAreRead ==
    ASSUME TypeOK, EventsWait, QuietWithoutHass, [Next]_vars
    PROVE  EventsAreRead
<1> SUFFICES ASSUME pending, ~pending'
             PROVE  \/ subscribed' # subscribed
                    \/ refreshing' /\ NewRead(selected) \in reads'
  BY DEF EventsAreRead
<1>1. subscribed # None
  BY DEF EventsWait
<1>2. CASE subscribed' = None
  BY <1>1, <1>2
<1>3. CASE FlushSubscriptionRefresh /\ subscribed' # None
  <2>1. hass
    BY <1>1, <1>3 DEF QuietWithoutHass, FlushSubscriptionRefresh
  <2>2. connected
    BY <1>3, <2>1 DEF FlushSubscriptionRefresh, Unsubscribe
  <2> QED BY <1>3, <2>1, <2>2 DEF FlushSubscriptionRefresh, Refresh
<1>4. CASE ~FlushSubscriptionRefresh
  <2>1. UNCHANGED pending \/ subscribed' = None
    BY <1>4 DEF Next, Continue, ReadSettles, WillUpdate, RunRefresh, RefreshSubscription,
       SitesAnswered, DashboardAnswered, EnsureUpdateSubscription, ReadFailed,
       OvertakenSettled, SubscribeAnswered, SubscribeFailed, SiteChanges, EventDelivered,
       RefreshAsked, OpenSelectedSite, SiteChosen, HassInjected, HassWithdrawn, RouteChanged,
       ConnectionLost, ConnectionRestored, NetworkChanged, Removed, PutBack, Unsubscribe,
       live, vars
  <2> QED BY <1>1, <2>1
<1> QED BY <1>2, <1>3, <1>4

\* However reads, overtaking, lost connections and site choices interleave, an update event
\* that the panel accepted is never forgotten: while it waits a refresh is under way or
\* its own is next, and it stops waiting only with a read that begins after it or when its
\* subscription is given up.
THEOREM NoEventForgotten == Spec => []EventsWait /\ [][EventsAreRead]_vars
<1>1. Init => TypeOK /\ EventsWait /\ QuietWithoutHass
  BY InitTypes DEF Init, EventsWait, QuietWithoutHass
<1>2. TypeOK /\ Screen /\ EventsWait /\ QuietWithoutHass /\ [Next]_vars
      => EventsWait' /\ QuietWithoutHass' /\ EventsAreRead
  BY StepEventsWait, StepQuietWithoutHass, StepEventsAreRead
<1>3. TypeOK /\ Screen /\ EventsWait /\ QuietWithoutHass /\ [Next]_vars
      => EventsWait' /\ QuietWithoutHass' /\ [EventsAreRead]_vars
  BY <1>2
<1> QED BY <1>1, <1>3, ScreenHolds, PTL DEF Spec

=============================================================================
