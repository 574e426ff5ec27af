------------------------ MODULE PanelWorkspaceProofs ------------------------
(***************************************************************************)
(* What holds of the panel's workspace for every set of loads, however     *)
(* many calls are in flight and however far the revisions go.              *)
(***************************************************************************)
EXTENDS PanelWorkspace, TLAPS

-----------------------------------------------------------------------------
(* Bags of calls.                                                          *)

\* Adding calls to those in flight.
LEMMA Added ==
    ASSUME NEW B, IsABag(B), NEW S
    PROVE  /\ IsABag(B (+) SetToBag(S))
           /\ BagToSet(B (+) SetToBag(S)) = BagToSet(B) \cup S
<1> DEFINE D == BagToSet(B) \cup S
           f == [e \in D |-> (IF e \in DOMAIN B THEN B[e] ELSE 0)
                              + (IF e \in S THEN 1 ELSE 0)]
<1>1. B (+) SetToBag(S) = f
  BY DEF SetToBag, BagToSet, (+)
<1>2. \A e \in D : f[e] \in {n \in Nat : n > 0}
  BY DEF IsABag, BagToSet
<1>3. f \in [D -> {n \in Nat : n > 0}] /\ DOMAIN f = D
  BY <1>2
<1> QED BY <1>1, <1>3 DEF IsABag, BagToSet

\* Taking one call away from those in flight.
LEMMA Removed ==
    ASSUME NEW B, IsABag(B), NEW c
    PROVE  /\ IsABag(B (-) SetToBag({c}))
           /\ BagToSet(B (-) SetToBag({c})) \subseteq BagToSet(B)
           /\ BagToSet(B) \ {c} \subseteq BagToSet(B (-) SetToBag({c}))
<1> DEFINE g == [e \in DOMAIN B |-> IF e \in {c} THEN B[e] - 1 ELSE B[e]]
           D == {e \in DOMAIN B : g[e] > 0}
           f == [e \in D |-> g[e]]
<1>1. B (-) SetToBag({c}) = f
  BY DEF SetToBag, (-)
<1>2. \A e \in D : f[e] \in {n \in Nat : n > 0}
  BY DEF IsABag
<1>3. f \in [D -> {n \in Nat : n > 0}] /\ DOMAIN f = D
  BY <1>2
<1>4. \A e \in DOMAIN B \ {c} : g[e] > 0
  BY DEF IsABag
<1> QED BY <1>1, <1>3, <1>4 DEF IsABag, BagToSet

\* The calls in flight after asking are those before and those asked.
LEMMA AsksAdds ==
    ASSUME IsABag(asked), NEW S, Asks(S)
    PROVE  IsABag(asked') /\ InFlight' = InFlight \cup S
BY Added DEF Asks, InFlight

\* Going on removes at most the answered call and adds those that follow.
LEMMA GoesReplaces ==
    ASSUME IsABag(asked), NEW c, NEW S, Goes(c, S)
    PROVE  /\ IsABag(asked')
           /\ InFlight' \subseteq InFlight \cup S
           /\ S \subseteq InFlight'
           /\ InFlight \ {c} \subseteq InFlight'
<1> DEFINE B == asked (-) SetToBag({c})
<1>1. IsABag(B) /\ BagToSet(B) \subseteq InFlight /\ InFlight \ {c} \subseteq BagToSet(B)
  BY Removed DEF InFlight
<1>2. asked' = B (+) SetToBag(S)
  BY DEF Goes
<1>3. IsABag(asked') /\ InFlight' = BagToSet(B) \cup S
  <2> HIDE DEF B
  <2> QED BY <1>1, <1>2, Added DEF InFlight
<1> QED BY <1>1, <1>3

-----------------------------------------------------------------------------
(* Types.                                                                  *)

OfOneLoad == {"load_update", "load_duplicate", "load_delete", "automatic_control_set"}

CallsWellFormed ==
    \A c \in InFlight :
        /\ c.then = "edit" \/ c.kind \in OfOneLoad => c.load \in Loads
        /\ c.kind \in Commands \cup {"refresh"} => c.then \in {"nothing"} \cup Pages
        /\ c.kind = "configuration_update" => c.then = "configure"

WellTyped(c) ==
    /\ c \in Calls
    /\ c.then = "edit" \/ c.kind \in OfOneLoad => c.load \in Loads
    /\ c.kind \in Commands \cup {"refresh"} => c.then \in {"nothing"} \cup Pages
    /\ c.kind = "configuration_update" => c.then = "configure"

\* The variables of the panel, and those of the server, have their types.
PanelTypes ==
    /\ workspaceView \in Pages /\ selectedLoad \in Loads \cup {None}
    /\ configuration \in Snapshots \cup {None}
    /\ siteDraft \in Revisions \cup {None}
    /\ loadDraft \in [load : Loads \cup {None}, base : Revisions] \cup {None}
    /\ loaded \subseteq Reports
    /\ loadDetail \in Loads \cup {None}
    /\ sectionLoading \in Pages \cup {None}
    /\ confirmation \in [load : Loads, rev : Revisions] \cup {None}
    /\ actionError \in {"none", "conflict", "error"}
    /\ acknowledged \in Revisions

ServerTypes ==
    siteRevision \in Revisions /\ loadRevision \in [Loads -> Revisions] /\ unused \subseteq Loads

CallTypes == IsABag(asked) /\ \A c \in InFlight : WellTyped(c)

Types == ServerTypes /\ PanelTypes /\ CallTypes

\* The types of the proof are the type invariant and well-formed calls.
LEMMA TypesSplit == Types <=> TypeOK /\ CallsWellFormed
BY DEF Types, ServerTypes, PanelTypes, CallTypes, WellTyped, TypeOK, CallsWellFormed

\* A call built from typed parts is a call.
LEMMA CallTyped ==
    ASSUME NEW kind \in Kinds, NEW about \in Pages \cup {"site", None},
           NEW load \in Loads \cup {None}, NEW base \in Revisions, NEW rev \in Revisions,
           NEW then \in {"nothing", "save", "clear", "edit"} \cup Pages,
           then = "edit" \/ kind \in OfOneLoad => load \in Loads,
           kind \in Commands \cup {"refresh"} => then \in {"nothing"} \cup Pages,
           kind = "configuration_update" => then = "configure"
    PROVE  WellTyped(Call(kind, about, load, base, rev, then))
BY DEF WellTyped, Call, Calls

\* The calls the panel builds are calls.
LEMMA CallsTyped ==
    /\ \A page \in Pages, load \in Loads \cup {None} : WellTyped(Read(page, load, "nothing"))
    /\ \A then \in {"nothing"} \cup Pages : WellTyped(RefreshCall(then))
    /\ WellTyped(ReloadCall)
    /\ \A load \in Loads : WellTyped(Call("read", "configure", load, 0, 0, "edit"))
<1>1. /\ 0 \in Revisions /\ "configure" \in Pages
      /\ "read" \in Kinds /\ "read" \notin Commands \cup {"refresh"} /\ "read" \notin OfOneLoad
      /\ "refresh" \in Kinds /\ "refresh" \notin OfOneLoad
  BY BoundsAssumption DEF Revisions, Pages, Kinds, Commands, OfOneLoad
<1>2. ASSUME NEW page \in Pages, NEW load \in Loads \cup {None}
      PROVE  WellTyped(Read(page, load, "nothing"))
  BY <1>1, CallTyped DEF Read
<1>3. ASSUME NEW then \in {"nothing"} \cup Pages
      PROVE  WellTyped(RefreshCall(then))
  <2>1. "edit" \notin {"nothing"} \cup Pages
    BY ReportsAssumption DEF Pages
  <2> QED BY <1>1, <2>1, CallTyped DEF RefreshCall
<1>4. WellTyped(ReloadCall)
  BY <1>1, CallTyped DEF ReloadCall
<1>5. ASSUME NEW load \in Loads
      PROVE  WellTyped(Call("read", "configure", load, 0, 0, "edit"))
  BY <1>1, CallTyped
<1> QED BY <1>2, <1>3, <1>4, <1>5

\* Asking keeps the bag of calls a bag of calls.
LEMMA AsksTyped ==
    ASSUME Types, NEW S, Asks(S), \A c \in S : WellTyped(c)
    PROVE  IsABag(asked') /\ \A c \in InFlight' : WellTyped(c)
BY AsksAdds DEF Types, CallTypes

\* Going on keeps the bag of calls a bag of calls.
LEMMA GoesTyped ==
    ASSUME Types, NEW c, NEW S, Goes(c, S), \A d \in S : WellTyped(d)
    PROVE  IsABag(asked') /\ \A d \in InFlight' : WellTyped(d)
BY GoesReplaces DEF Types, CallTypes

\* What the server does keeps its types; a site that was saved is at the revision that
\* the panel takes for the new one, and no revision of the site is lost.
LEMMA ServeTypes ==
    ASSUME Types, NEW c \in InFlight, NEW result \in Results, Serve(c, result)
    PROVE  /\ ServerTypes'
           /\ siteRevision' >= siteRevision
           /\ c.kind = "configuration_update" /\ result = "ok" => siteRevision' = c.rev + 1
<1> USE BoundsAssumption DEF ServerTypes, Revisions
<1>1. ServerTypes /\ WellTyped(c)
  BY DEF Types, CallTypes
<1>2. CASE NothingStored(c, result)
  BY <1>1, <1>2 DEF NothingStored, server, Commands, WellTyped, Calls
<1>3. CASE Control(c, result)
  BY <1>1, <1>3 DEF Control, server
<1>4. CASE UpdateSiteConfig(c, result)
  BY <1>1, <1>4 DEF UpdateSiteConfig, NextRevision
<1>5. CASE UpdateLoad(c, result)
  BY <1>1, <1>5 DEF UpdateLoad, NextRevision, WellTyped, OfOneLoad
<1>6. CASE AddLoad(c, result)
  BY <1>1, <1>6 DEF AddLoad
<1>7. CASE DeleteLoad(c, result)
  <2>1. 0 \in Revisions
    OBVIOUS
  <2>2. siteRevision' = siteRevision /\ unused' = unused /\ c.kind = "load_delete"
        /\ loadRevision' = [loadRevision EXCEPT ![c.load] = 0]
    BY <1>7 DEF DeleteLoad
  <2>3. loadRevision' \in [Loads -> Revisions]
    BY <1>1, <2>1, <2>2
  <2> QED BY <1>1, <2>2, <2>3
<1>8. CASE Conflict(c, result)
  BY <1>1, <1>8 DEF Conflict, server
<1> QED BY <1>2, <1>3, <1>4, <1>5, <1>6, <1>7, <1>8 DEF Serve

\* How the panel goes on keeps its types.
LEMMA ReceiveTypes ==
    ASSUME Types, NEW c \in InFlight, NEW result \in Results, Serve(c, result),
           Receive(c, result)
    PROVE  PanelTypes' /\ CallTypes'
<1> USE BoundsAssumption, LoadsAssumption
<1>1. PanelTypes /\ ServerTypes /\ WellTyped(c)
  BY DEF Types, CallTypes
<1>2. Snapshot \in Snapshots /\ siteRevision \in Revisions
  BY <1>1 DEF Snapshot, Snapshots, ServerTypes
<1>3. ASSUME NEW S, Goes(c, S), \A d \in S : WellTyped(d)
      PROVE  CallTypes'
  BY <1>3, GoesTyped DEF CallTypes, WellTyped
<1>4. ASSUME NEW document \in Snapshots \cup {None}, NEW draft, NEW outcome,
             draft = None \/ draft = loadDraft,
             outcome \in {"none", "conflict", "error"},
             AfterRead(c, document, draft, outcome)
      PROVE  /\ loadDraft' \in [load : Loads \cup {None}, base : Revisions] \cup {None}
             /\ actionError' \in {"none", "conflict", "error"}
  <2>1. CASE c.then = "edit" /\ document # None /\ document.loads[c.load] > 0
    BY <1>1, <1>4, <2>1 DEF AfterRead, WellTyped, Snapshots
  <2>2. CASE ~(c.then = "edit" /\ document # None /\ document.loads[c.load] > 0)
    BY <1>1, <1>4, <2>2 DEF AfterRead, PanelTypes
  <2> QED BY <2>1, <2>2
<1>5. CASE ConfigurationRead(c, result)
  <2>1. CallTypes'
    BY <1>3, <1>5 DEF ConfigurationRead
  <2>2. loadDraft' \in [load : Loads \cup {None}, base : Revisions] \cup {None}
        /\ actionError' \in {"none", "conflict", "error"}
    BY <1>1, <1>2, <1>4, <1>5 DEF ConfigurationRead, TakeConfiguration, PanelTypes
  <2> QED BY <1>1, <1>2, <1>5, <2>1, <2>2
          DEF ConfigurationRead, TakeConfiguration, SectionDone, PanelTypes
<1>6. CASE PageRead(c, result)
  <2>1. CallTypes'
    BY <1>3, <1>6 DEF PageRead
  <2> QED BY <1>1, <1>6, <2>1 DEF PageRead, SectionDone, PanelTypes, drafts, WellTyped, Calls
<1>7. CASE ReadFailed(c, result)
  <2>1. CallTypes'
    BY <1>3, <1>7 DEF ReadFailed
  <2>2. loadDraft' \in [load : Loads \cup {None}, base : Revisions] \cup {None}
        /\ actionError' \in {"none", "conflict", "error"}
    BY <1>1, <1>4, <1>7 DEF ReadFailed, PanelTypes
  <2> QED BY <1>1, <1>7, <2>1, <2>2 DEF ReadFailed, SectionDone, PanelTypes
<1>8. CASE DraftChecked(c, result)
  <2>1. CallTypes'
    BY <1>3, <1>8 DEF DraftChecked
  <2> QED BY <1>1, <1>8, <2>1 DEF DraftChecked, PanelTypes, pages, drafts
<1>9. CASE SiteValidated(c, result)
  <2>1. WellTyped(Call("configuration_update", None, None, c.base, c.rev, "configure"))
    <3>1. c.base \in Revisions /\ c.rev \in Revisions
      BY <1>1 DEF WellTyped, Calls
    <3> QED BY <3>1, CallTyped DEF Kinds, Pages, OfOneLoad
  <2>2. CallTypes'
    BY <1>3, <1>9, <2>1 DEF SiteValidated
  <2> QED BY <1>1, <1>9, <2>2 DEF SiteValidated, PanelTypes, pages, drafts
<1>10. CASE LoadValidated(c, result)
  <2>1. WellTyped(Call("load_add", None, None, 0, 0, "configure"))
    <3>1. 0 \in Revisions
      BY DEF Revisions
    <3> QED BY <3>1, CallTyped DEF Kinds, Pages, OfOneLoad
  <2>2. ASSUME c.load # None, configuration # None
        PROVE  WellTyped(Call("load_update", None, c.load, c.base,
                              configuration.loads[c.load], "configure"))
    <3>1. c.load \in Loads /\ c.base \in Revisions /\ configuration.loads[c.load] \in Revisions
      BY <1>1, <2>2 DEF WellTyped, Calls, PanelTypes, Snapshots
    <3> QED BY <3>1, CallTyped DEF Kinds, Pages
  <2>3. CallTypes'
    BY <1>3, <1>10, <2>1, <2>2 DEF LoadValidated
  <2> QED BY <1>1, <1>10, <2>3 DEF LoadValidated, PanelTypes, pages, drafts
<1>11. CASE CommandDone(c, result)
  <2>1. CallTypes'
    <3>1. c.then \in {"nothing"} \cup Pages /\ Goes(c, {RefreshCall(c.then)})
      BY <1>1, <1>11 DEF CommandDone, WellTyped
    <3>2. \A d \in {RefreshCall(c.then)} : WellTyped(d)
      BY <3>1, CallsTyped
    <3> QED BY <1>3, <3>1, <3>2
  <2>2. acknowledged' \in Revisions
    BY <1>1, <1>11, ServeTypes DEF CommandDone, PanelTypes, ServerTypes
  <2> QED BY <1>1, <1>11, <2>1, <2>2 DEF CommandDone, PanelTypes, drafts
<1>12. CASE CommandFailed(c, result)
  <2>1. CallTypes'
    BY <1>3, <1>12 DEF CommandFailed
  <2> QED BY <1>1, <1>12, <2>1 DEF CommandFailed, PanelTypes, pages, drafts
<1>13. CASE RefreshDone(c, result)
  <2>1. c.then \in {"nothing"} \cup Pages
    BY <1>1, <1>13 DEF RefreshDone, WellTyped
  <2>2. PICK own, forced, loading :
           /\ own \in BOOLEAN /\ forced \in BOOLEAN
           /\ loading = IF own THEN workspaceView ELSE sectionLoading
           /\ forced => c.then # "nothing"
           /\ sectionLoading' = IF forced THEN c.then ELSE loading
           /\ Goes(c, {d \in {Read(workspaceView, selectedLoad, "nothing")} : own}
                      \cup {d \in {IF c.then = "configure" THEN ReloadCall
                                   ELSE Read(c.then, selectedLoad, "nothing")} : forced})
    <3>1. PICK applied \in {FALSE, result = "ok"} :
             LET own     == /\ applied
                            /\ workspaceView = "load" => selectedLoad # None
                            /\ MustRead(workspaceView, HasWorkspaceData(workspaceView),
                                        sectionLoading)
                 loading == IF own THEN workspaceView ELSE sectionLoading
                 forced  == /\ c.then # "nothing"
                            /\ c.then = "load" => selectedLoad # None
                            /\ MustRead(c.then, FALSE, loading)
             IN  /\ sectionLoading' = IF forced THEN c.then ELSE loading
                 /\ Goes(c, {d \in {Read(workspaceView, selectedLoad, "nothing")} : own}
                        \cup {d \in {IF c.then = "configure" THEN ReloadCall
                                     ELSE Read(c.then, selectedLoad, "nothing")} : forced})
      BY <1>13 DEF RefreshDone
    <3> DEFINE own     == /\ applied
                          /\ workspaceView = "load" => selectedLoad # None
                          /\ MustRead(workspaceView, HasWorkspaceData(workspaceView),
                                      sectionLoading)
               loading == IF own THEN workspaceView ELSE sectionLoading
               forced  == /\ c.then # "nothing"
                          /\ c.then = "load" => selectedLoad # None
                          /\ MustRead(c.then, FALSE, loading)
    <3>2. own \in BOOLEAN /\ forced \in BOOLEAN /\ (forced => c.then # "nothing")
      OBVIOUS
    <3>3. loading = IF own THEN workspaceView ELSE sectionLoading
      OBVIOUS
    <3>4. /\ sectionLoading' = IF forced THEN c.then ELSE loading
          /\ Goes(c, {d \in {Read(workspaceView, selectedLoad, "nothing")} : own}
                     \cup {d \in {IF c.then = "configure" THEN ReloadCall
                                  ELSE Read(c.then, selectedLoad, "nothing")} : forced})
      BY <3>1
    <3> HIDE DEF own, loading, forced
    <3> QED BY <3>2, <3>3, <3>4
  <2>3. CallTypes'
    BY <1>1, <1>3, <2>1, <2>2, CallsTyped DEF PanelTypes
  <2>4. sectionLoading' \in Pages \cup {None}
    BY <1>1, <2>1, <2>2 DEF PanelTypes
  <2> QED BY <1>1, <1>13, <2>3, <2>4 DEF RefreshDone, PanelTypes, ClearDrafts, drafts
<1>14. CASE NeverAnswered(c, result)
  <2>1. CallTypes'
    BY <1>3, <1>14 DEF NeverAnswered
  <2> QED BY <1>1, <1>14, <2>1 DEF NeverAnswered, PanelTypes, panel, pages, drafts
<1> QED BY <1>5, <1>6, <1>7, <1>8, <1>9, <1>10, <1>11, <1>12, <1>13, <1>14 DEF Receive

\* The initial state is well typed.
LEMMA InitTypes == Init => Types
<1> SUFFICES ASSUME Init PROVE Types
  OBVIOUS
<1>1. {0, 1} \subseteq Revisions
  BY BoundsAssumption DEF Revisions
<1>2. ServerTypes
  BY <1>1 DEF Init, ServerTypes
<1>3. PanelTypes
  BY <1>1 DEF Init, PanelTypes, Pages
<1>4. CallTypes
  BY DEF Init, CallTypes, InFlight, EmptyBag, SetToBag, IsABag, BagToSet
<1> QED BY <1>2, <1>3, <1>4 DEF Types

\* A configuration on screen gives every load a revision.
LEMMA ConfigurationTyped ==
    ASSUME PanelTypes, configuration # None
    PROVE  /\ configuration.site \in Revisions
           /\ \A load \in Loads : configuration.loads[load] \in Revisions
BY DEF PanelTypes, Snapshots

\* What the user, the browser or another client does keeps the types.
LEMMA ActTypes ==
    ASSUME Types, UserActs \/ RefreshAsked \/ ResetWorkspaceData \/ OtherClient
    PROVE  Types'
<1> USE BoundsAssumption
<1>1. PanelTypes /\ ServerTypes /\ CallTypes
  BY DEF Types
<1>2. 0 \in Revisions /\ "dashboard" \in Pages /\ "configure" \in Pages /\ "load" \in Pages
  BY DEF Revisions, Pages
<1>3. ASSUME NEW S, Asks(S), \A d \in S : WellTyped(d)
      PROVE  CallTypes'
  BY <1>3, AsksTyped DEF CallTypes, WellTyped
<1>4. ASSUME UNCHANGED asked PROVE CallTypes'
  BY <1>1, <1>4 DEF CallTypes, InFlight, WellTyped
<1>5. ASSUME UNCHANGED server PROVE ServerTypes'
  BY <1>1, <1>5 DEF ServerTypes, server
<1>6. ASSUME UNCHANGED panel PROVE PanelTypes'
  BY <1>1, <1>6 DEF PanelTypes, panel, pages, drafts
<1>7. ASSUME NEW call, Ask(call), WellTyped(call) PROVE Types'
  BY <1>3, <1>5, <1>6, <1>7 DEF Ask, Types
<1>8. ASSUME NEW page \in Pages, NEW load \in Loads \cup {None}, NEW present,
             EnsureWorkspaceData(page, load, present, "nothing")
      PROVE  CallTypes' /\ sectionLoading' \in Pages \cup {None}
  <2>1. CASE UNCHANGED <<sectionLoading, asked>>
    BY <1>1, <1>4, <2>1 DEF PanelTypes
  <2>2. CASE sectionLoading' = page /\ Asks({Read(page, load, "nothing")})
    <3>1. \A d \in {Read(page, load, "nothing")} : WellTyped(d)
      BY CallsTyped
    <3> QED BY <1>3, <2>2, <3>1
  <2> QED BY <1>8, <2>1, <2>2 DEF EnsureWorkspaceData
<1>9. ASSUME NEW page \in Pages, SelectWorkspaceView(page) PROVE Types'
  <2>1. CallTypes' /\ sectionLoading' \in Pages \cup {None}
    BY <1>1, <1>8, <1>9 DEF SelectWorkspaceView, PanelTypes
  <2> QED BY <1>1, <1>5, <1>9, <2>1 DEF SelectWorkspaceView, PanelTypes, Types, drafts
<1>10. ASSUME NEW load \in Loads, OpenLoad(load) PROVE Types'
  <2>1. CallTypes' /\ sectionLoading' \in Pages \cup {None}
    BY <1>2, <1>8, <1>10 DEF OpenLoad
  <2> QED BY <1>1, <1>2, <1>5, <1>10, <2>1 DEF OpenLoad, PanelTypes, Types, drafts
<1>11. ASSUME NEW load \in Loads, EditConfiguredLoad(load) PROVE Types'
  <2>1. CallTypes' /\ sectionLoading' \in Pages \cup {None}
    <3>1. CASE UNCHANGED <<sectionLoading, asked>>
      BY <1>1, <1>4, <3>1 DEF PanelTypes
    <3>2. CASE /\ sectionLoading' = "configure"
               /\ Asks({Call("read", "configure", load, 0, 0, "edit")})
      <4>1. \A d \in {Call("read", "configure", load, 0, 0, "edit")} : WellTyped(d)
        BY CallsTyped
      <4> QED BY <1>2, <1>3, <3>2, <4>1
    <3> QED BY <1>11, <3>1, <3>2 DEF EditConfiguredLoad
  <2>2. loadDraft' \in [load : Loads \cup {None}, base : Revisions] \cup {None}
    BY <1>1, <1>11, ConfigurationTyped DEF EditConfiguredLoad, DraftOf, PanelTypes
  <2> QED BY <1>1, <1>2, <1>5, <1>11, <2>1, <2>2 DEF EditConfiguredLoad, PanelTypes, Types
<1>12. ASSUME NEW page \in Pages, NEW load \in Loads, RouteChanged(page, load) PROVE Types'
  <2>1. PICK refreshes \in {{}, {RefreshCall("nothing")}} :
           \/ sectionLoading' = page /\ Asks({Read(page, load, "nothing")} \cup refreshes)
           \/ UNCHANGED sectionLoading /\ Asks(refreshes)
    BY <1>12 DEF RouteChanged
  <2>2. \A d \in {Read(page, load, "nothing")} \cup refreshes : WellTyped(d)
    BY <2>1, CallsTyped
  <2>3. CallTypes' /\ sectionLoading' \in Pages \cup {None}
    BY <1>1, <1>3, <2>1, <2>2 DEF PanelTypes
  <2> QED BY <1>1, <1>5, <1>12, <2>3 DEF RouteChanged, PanelTypes, Types, drafts
<1>13. ASSUME ReloadConfiguration PROVE Types'
  <2>1. CallTypes' /\ sectionLoading' \in Pages \cup {None}
    <3>1. CASE UNCHANGED <<sectionLoading, asked>>
      BY <1>1, <1>4, <3>1 DEF PanelTypes
    <3>2. CASE sectionLoading' = "configure" /\ Asks({ReloadCall})
      BY <1>2, <1>3, <3>2, CallsTyped
    <3> QED BY <1>13, <3>1, <3>2 DEF ReloadConfiguration
  <2> QED BY <1>1, <1>5, <1>13, <2>1 DEF ReloadConfiguration, ClearDrafts, PanelTypes, Types
<1>14. ASSUME EditLoad PROVE Types'
  <2>1. loadDraft' \in [load : Loads \cup {None}, base : Revisions] \cup {None}
    BY <1>1, <1>2, <1>14, ConfigurationTyped DEF EditLoad, DraftOf, Listed, OnConfigurePage
  <2> QED BY <1>1, <1>4, <1>5, <1>14, <2>1 DEF EditLoad, PanelTypes, Types, pages
<1>15. ASSUME CheckDraft PROVE Types'
  <2>1. WellTyped(Call("validate", None, None, 0, 0, "nothing"))
    BY <1>2, CallTyped DEF Kinds, OfOneLoad, Commands
  <2> QED BY <1>7, <1>15, <2>1 DEF CheckDraft
<1>16. ASSUME SaveSite PROVE Types'
  <2>1. siteDraft \in Revisions /\ configuration.site \in Revisions
    BY <1>1, <1>16, ConfigurationTyped DEF SaveSite, OnConfigurePage, PanelTypes
  <2>2. WellTyped(Call("validate", "site", None, siteDraft, configuration.site, "save"))
    BY <2>1, CallTyped DEF Kinds, OfOneLoad, Commands
  <2> QED BY <1>7, <1>16, <2>2 DEF SaveSite
<1>17. ASSUME SaveLoad PROVE Types'
  <2>1. loadDraft.load \in Loads \cup {None} /\ loadDraft.base \in Revisions
    BY <1>1, <1>17 DEF SaveLoad, PanelTypes
  <2>2. WellTyped(Call("validate", "load", loadDraft.load, loadDraft.base, 0, "save"))
    BY <1>2, <2>1, CallTyped DEF Kinds, OfOneLoad, Commands, Pages
  <2> QED BY <1>7, <1>17, <2>2 DEF SaveLoad
<1>18. ASSUME NEW kind \in OfOneLoad \cup {"override_start", "override_clear"},
              NEW load \in Loads, NEW rev \in Revisions, NEW page \in Pages
       PROVE  WellTyped(Call(kind, None, load, rev, rev, page))
  BY CallTyped DEF Kinds, OfOneLoad
<1>19. ASSUME NEW load \in Loads, DuplicateConfiguredLoad(load) PROVE Types'
  <2>1. configuration.loads[load] \in Revisions
    BY <1>1, <1>19, ConfigurationTyped DEF DuplicateConfiguredLoad, Listed, OnConfigurePage
  <2>2. WellTyped(Call("load_duplicate", None, load, configuration.loads[load],
                       configuration.loads[load], "configure"))
    BY <1>2, <1>18, <2>1 DEF OfOneLoad
  <2> QED BY <1>7, <1>19, <2>2 DEF DuplicateConfiguredLoad
<1>20. ASSUME NEW load \in Loads, RequestDeleteLoad(load) PROVE Types'
  <2>1. configuration.loads[load] \in Revisions
    BY <1>1, <1>20, ConfigurationTyped DEF RequestDeleteLoad, Listed, OnConfigurePage
  <2> QED BY <1>1, <1>4, <1>5, <1>20, <2>1
          DEF RequestDeleteLoad, PanelTypes, Types, pages, drafts
<1>21. ASSUME CancelDeleteLoad PROVE Types'
  BY <1>1, <1>4, <1>5, <1>21 DEF CancelDeleteLoad, PanelTypes, Types, pages, drafts
<1>22. ASSUME ConfirmDeleteLoad PROVE Types'
  <2>1. confirmation.load \in Loads /\ confirmation.rev \in Revisions
    BY <1>1, <1>22 DEF ConfirmDeleteLoad, PanelTypes
  <2>2. WellTyped(Call("load_delete", None, confirmation.load, confirmation.rev,
                       confirmation.rev, "configure"))
    BY <1>2, <1>18, <2>1 DEF OfOneLoad
  <2> QED BY <1>7, <1>22, <2>2 DEF ConfirmDeleteLoad
<1>23. ASSUME NEW load \in Loads, SetAutomaticControl(load) PROVE Types'
  <2>1. PICK rev \in Cards(load) : Ask(Call("automatic_control_set", None, load, rev, rev, "load"))
    BY <1>23 DEF SetAutomaticControl
  <2>2. rev \in Revisions
    BY <2>1 DEF Cards, Revisions
  <2>3. WellTyped(Call("automatic_control_set", None, load, rev, rev, "load"))
    BY <1>2, <1>18, <2>2 DEF OfOneLoad
  <2> QED BY <1>7, <2>1, <2>3
<1>24. ASSUME NEW load \in Loads, Override(load) PROVE Types'
  <2>1. PICK kind \in {"override_start", "override_clear"} :
           Ask(Call(kind, None, load, 0, 0, "load"))
    BY <1>24 DEF Override
  <2> QED BY <1>2, <1>7, <1>18, <2>1
<1>25. ASSUME Replan PROVE Types'
  <2>1. "plan" \in Pages
    BY <1>1, <1>25 DEF Replan, PanelTypes
  <2>2. WellTyped(Call("replan", None, None, 0, 0, "plan"))
    BY <1>2, <2>1, CallTyped DEF Kinds, OfOneLoad
  <2> QED BY <1>7, <1>25, <2>2 DEF Replan
<1>26. ASSUME RefreshAsked PROVE Types'
  BY <1>3, <1>5, <1>6, <1>26, CallsTyped DEF RefreshAsked, Types
<1>27. ASSUME ResetWorkspaceData PROVE Types'
  BY <1>1, <1>2, <1>4, <1>5, <1>27 DEF ResetWorkspaceData, PanelTypes, Types
<1>28. ASSUME OtherClient PROVE Types'
  <2>1. ServerTypes'
    BY <1>1, <1>28 DEF OtherClient, ServerTypes, Revisions
  <2> QED BY <1>4, <1>6, <1>28, <2>1 DEF OtherClient, Types
<1> QED BY <1>9, <1>10, <1>11, <1>12, <1>13, <1>14, <1>15, <1>16, <1>17, <1>19, <1>20, <1>21,
           <1>22, <1>23, <1>24, <1>25, <1>26, <1>27, <1>28 DEF UserActs

\* A stuttering step keeps the types.
LEMMA StutterTypes == ASSUME Types, UNCHANGED vars PROVE Types'
BY DEF vars, server, panel, pages, drafts, Types, ServerTypes, PanelTypes, CallTypes, InFlight,
       WellTyped

\* No step leaves the types.
LEMMA StepTypes == ASSUME Types, [Next]_vars PROVE Types'
<1>1. ASSUME NEW c \in InFlight, NEW result \in Results, Answered(c, result) PROVE Types'
  BY <1>1, ServeTypes, ReceiveTypes DEF Answered, Types
<1> QED BY <1>1, ActTypes, StutterTypes DEF Next

\* The documents' revisions, the drafts and all calls in flight keep their types.
THEOREM TypeCorrect == Spec => []TypeOK
<1>1. Init => Types
  BY InitTypes
<1>2. Types /\ [Next]_vars => Types'
  BY StepTypes
<1>3. Types => TypeOK
  BY TypesSplit
<1> QED BY <1>1, <1>2, <1>3, PTL DEF Spec

-----------------------------------------------------------------------------
(* Drafts and the configuration they are copies of.                        *)

\* No step leaves a draft of another configuration than the one shown.
LEMMA StepDrafts ==
    ASSUME Types, DraftsAreOfTheShownConfiguration, [Next]_vars
    PROVE  DraftsAreOfTheShownConfiguration'
<1> USE DEF DraftsAreOfTheShownConfiguration
<1>1. None \notin Loads /\ PanelTypes
  BY LoadsAssumption DEF Types
<1>2. CASE UNCHANGED drafts
  BY <1>2 DEF drafts
<1>3. ASSUME NEW load \in Loads, EditConfiguredLoad(load) PROVE DraftsAreOfTheShownConfiguration'
  BY <1>1, <1>3 DEF EditConfiguredLoad, DraftOf
<1>4. CASE EditLoad
  BY <1>1, <1>4 DEF EditLoad, DraftOf, Listed, OnConfigurePage
<1>5. CASE ReloadConfiguration \/ ResetWorkspaceData
  BY <1>5 DEF ReloadConfiguration, ClearDrafts, ResetWorkspaceData
<1>6. ASSUME NEW c \in InFlight, NEW result \in Results, ConfigurationRead(c, result)
      PROVE  DraftsAreOfTheShownConfiguration'
  <2>1. Snapshot # None
    BY NoneAssumption DEF Types, ServerTypes, Snapshot, Snapshots
  <2>2. /\ configuration' = Snapshot /\ siteDraft' = siteRevision
        /\ \/ loadDraft' = None
           \/ /\ Snapshot.loads[c.load] > 0
              /\ loadDraft' = [load |-> c.load, base |-> Snapshot.loads[c.load]]
    BY <1>6 DEF ConfigurationRead, TakeConfiguration, AfterRead
  <2>3. Snapshot.site = siteRevision
    BY DEF Snapshot
  <2> QED BY <2>1, <2>2, <2>3
<1>7. ASSUME NEW c \in InFlight, NEW result \in Results, ReadFailed(c, result)
      PROVE  DraftsAreOfTheShownConfiguration'
  BY <1>7 DEF ReadFailed, AfterRead
<1>8. ASSUME NEW c \in InFlight, NEW result \in Results, RefreshDone(c, result)
      PROVE  DraftsAreOfTheShownConfiguration'
  <2>1. CASE UNCHANGED drafts
    BY <1>2, <2>1
  <2>2. CASE ClearDrafts
    BY <2>2 DEF ClearDrafts
  <2> QED BY <1>8, <2>1, <2>2 DEF RefreshDone
<1>9. ASSUME NEW c \in InFlight, NEW result \in Results, Receive(c, result)
      PROVE  \/ ConfigurationRead(c, result) \/ ReadFailed(c, result) \/ RefreshDone(c, result)
             \/ UNCHANGED drafts
  BY <1>9 DEF Receive, PageRead, DraftChecked, SiteValidated, LoadValidated, CommandDone,
              CommandFailed, NeverAnswered, panel
<1>10. ASSUME NEW c \in InFlight, NEW result \in Results, Answered(c, result)
       PROVE  DraftsAreOfTheShownConfiguration'
  BY <1>2, <1>6, <1>7, <1>8, <1>9, <1>10 DEF Answered
<1>11. ASSUME UserActs
       PROVE  \/ \E load \in Loads : EditConfiguredLoad(load)
              \/ EditLoad \/ ReloadConfiguration \/ UNCHANGED drafts
  BY <1>11 DEF UserActs, SelectWorkspaceView, OpenLoad, DuplicateConfiguredLoad,
               RequestDeleteLoad, SetAutomaticControl, Override, RouteChanged, CheckDraft,
               SaveSite, SaveLoad, CancelDeleteLoad, ConfirmDeleteLoad, Replan, Ask, panel
<1>12. CASE RefreshAsked \/ OtherClient \/ UNCHANGED vars
  BY <1>2, <1>12 DEF RefreshAsked, OtherClient, vars, panel
<1> QED BY <1>2, <1>3, <1>4, <1>5, <1>10, <1>11, <1>12 DEF Next

\* What is edited is what is on screen: a draft is of the configuration shown, at its
\* revision, whatever was read, reloaded or saved since it was opened.
THEOREM DraftsCorrect == Spec => []DraftsAreOfTheShownConfiguration
<1>1. Init => Types /\ DraftsAreOfTheShownConfiguration
  BY InitTypes DEF Init, DraftsAreOfTheShownConfiguration
<1>2. Types /\ DraftsAreOfTheShownConfiguration /\ [Next]_vars
      => Types' /\ DraftsAreOfTheShownConfiguration'
  BY StepTypes, StepDrafts
<1> QED BY <1>1, <1>2, PTL DEF Spec

-----------------------------------------------------------------------------
(* What commands were made from.                                           *)

\* A call that acts on content, or will once it was found valid, carries the revision
\* of that content; saving a load does not, and takes its revision later.
MadeFrom(c) ==
    c.kind \in {"configuration_update"} \cup (OfOneLoad \ {"load_update"})
        \/ (c.kind = "validate" /\ c.about = "site" /\ c.then = "save")
    => c.base = c.rev

SentAsRead == \A c \in InFlight : MadeFrom(c)

\* Which calls a step can add to those in flight.
LEMMA ReadsMadeFrom ==
    /\ \A page, load : MadeFrom(Read(page, load, "nothing"))
    /\ \A then : MadeFrom(RefreshCall(then))
    /\ MadeFrom(ReloadCall)
    /\ \A load : MadeFrom(Call("read", "configure", load, 0, 0, "edit"))
BY DEF MadeFrom, Read, RefreshCall, ReloadCall, Call, OfOneLoad

\* No step puts a call in flight whose revision is not of what it was made from.
LEMMA StepSentAsRead ==
    ASSUME Types, DraftsAreOfTheShownConfiguration, SentAsRead, [Next]_vars
    PROVE  SentAsRead'
<1>1. ASSUME NEW S, Asks(S), \A d \in S : MadeFrom(d) PROVE SentAsRead'
  BY <1>1, AsksAdds DEF Types, CallTypes, SentAsRead, MadeFrom
<1>2. ASSUME NEW c, NEW S, Goes(c, S), \A d \in S : MadeFrom(d) PROVE SentAsRead'
  BY <1>2, GoesReplaces DEF Types, CallTypes, SentAsRead, MadeFrom
<1>3. CASE UNCHANGED asked
  BY <1>3 DEF SentAsRead, MadeFrom, InFlight
<1>4. ASSUME NEW call, Ask(call), MadeFrom(call) PROVE SentAsRead'
  BY <1>1, <1>4 DEF Ask
<1>5. ASSUME NEW page, NEW load, NEW present, EnsureWorkspaceData(page, load, present, "nothing")
      PROVE  SentAsRead'
  BY <1>1, <1>3, <1>5, ReadsMadeFrom DEF EnsureWorkspaceData
<1>6. ASSUME NEW load \in Loads, EditConfiguredLoad(load) PROVE SentAsRead'
  BY <1>1, <1>3, <1>6, ReadsMadeFrom DEF EditConfiguredLoad
<1>7. ASSUME NEW page, NEW load, RouteChanged(page, load) PROVE SentAsRead'
  <2>1. PICK refreshes \in {{}, {RefreshCall("nothing")}} :
           Asks({Read(page, load, "nothing")} \cup refreshes) \/ Asks(refreshes)
    BY <1>7 DEF RouteChanged
  <2>2. \A d \in {Read(page, load, "nothing")} \cup refreshes : MadeFrom(d)
    BY <2>1, ReadsMadeFrom
  <2> QED BY <1>1, <2>1, <2>2
<1>8. CASE ReloadConfiguration
  BY <1>1, <1>3, <1>8, ReadsMadeFrom DEF ReloadConfiguration
<1>9. CASE CheckDraft \/ SaveLoad \/ Replan
  BY <1>4, <1>9 DEF CheckDraft, SaveLoad, Replan, MadeFrom, Call, OfOneLoad
<1>10. CASE SaveSite
  <2>1. siteDraft = configuration.site
    BY <1>10 DEF SaveSite, DraftsAreOfTheShownConfiguration
  <2> QED BY <1>4, <1>10, <2>1 DEF SaveSite, MadeFrom, Call
<1>11. ASSUME NEW load \in Loads,
              \/ DuplicateConfiguredLoad(load) \/ SetAutomaticControl(load) \/ Override(load)
       PROVE  SentAsRead'
  BY <1>4, <1>11 DEF DuplicateConfiguredLoad, SetAutomaticControl, Override, MadeFrom, Call
<1>12. CASE ConfirmDeleteLoad
  BY <1>4, <1>12 DEF ConfirmDeleteLoad, MadeFrom, Call
<1>13. CASE RefreshAsked
  BY <1>1, <1>13, ReadsMadeFrom DEF RefreshAsked
<1>14. ASSUME NEW c \in InFlight, NEW result \in Results, Receive(c, result) PROVE SentAsRead'
  <2>1. CASE SiteValidated(c, result)
    <3>1. c.base = c.rev
      BY <2>1 DEF SiteValidated, SentAsRead, MadeFrom
    <3> QED BY <1>2, <2>1, <3>1 DEF SiteValidated, MadeFrom, Call
  <2>2. CASE LoadValidated(c, result)
    BY <1>2, <2>2 DEF LoadValidated, MadeFrom, Call, OfOneLoad
  <2>3. CASE RefreshDone(c, result)
    <3>1. PICK S : /\ Goes(c, S)
                   /\ S \subseteq {Read(workspaceView, selectedLoad, "nothing"), ReloadCall,
                                   Read(c.then, selectedLoad, "nothing")}
      BY <2>3 DEF RefreshDone
    <3> QED BY <1>2, <3>1, ReadsMadeFrom
  <2>4. CASE CommandDone(c, result)
    BY <1>2, <2>4, ReadsMadeFrom DEF CommandDone
  <2>5. CASE Goes(c, {})
    BY <1>2, <2>5
  <2> QED BY <1>14, <2>1, <2>2, <2>3, <2>4, <2>5
          DEF Receive, ConfigurationRead, PageRead, ReadFailed, DraftChecked, CommandFailed,
              NeverAnswered
<1>15. CASE UserActs
  BY <1>3, <1>5, <1>6, <1>7, <1>8, <1>9, <1>10, <1>11, <1>12, <1>15
     DEF UserActs, SelectWorkspaceView, OpenLoad, RequestDeleteLoad, CancelDeleteLoad, EditLoad
<1>16. CASE ResetWorkspaceData \/ OtherClient \/ UNCHANGED vars
  BY <1>3, <1>16 DEF ResetWorkspaceData, OtherClient, vars
<1> QED BY <1>13, <1>14, <1>15, <1>16 DEF Next, Answered

\* Of the commands with a revision, only one that saves a load can be accepted with
\* other content than what its author had read.
THEOREM OthersNotOverwritten == Spec => []OthersAreNotOverwritten
<1> DEFINE I == Types /\ DraftsAreOfTheShownConfiguration /\ SentAsRead
<1>1. Init => I
  BY InitTypes DEF Init, DraftsAreOfTheShownConfiguration, SentAsRead, InFlight, EmptyBag,
                   SetToBag, BagToSet
<1>2. I /\ [Next]_vars => I'
  BY StepTypes, StepDrafts, StepSentAsRead
<1>3. I => OthersAreNotOverwritten
  BY DEF OthersAreNotOverwritten, Accepted, SentAsRead, MadeFrom, OfOneLoad
<1> QED BY <1>1, <1>2, <1>3, PTL DEF Spec

-----------------------------------------------------------------------------
(* The page that is loading.                                               *)

\* Only the commands whose handlers say nothing can remain without an answer.
LEMMA OnlySilentUnanswered ==
    ASSUME NEW c, NEW result, Serve(c, result), NeverAnswered(c, result)
    PROVE  c.kind \in Silent
BY DEF Serve, NeverAnswered, NothingStored, Control, UpdateSiteConfig, UpdateLoad, AddLoad,
       DeleteLoad, Conflict, Done

\* No step leaves a page marked as loading without its read.
LEMMA StepLoading ==
    ASSUME Types, LoadingMeansRead, [Next]_vars
    PROVE  LoadingMeansRead'
<1> USE DEF LoadingMeansRead
<1>1. ASSUME NEW S, Asks(S), UNCHANGED sectionLoading PROVE LoadingMeansRead'
  BY <1>1, AsksAdds DEF Types, CallTypes
<1>2. ASSUME NEW S, NEW c \in S, Asks(S), c.kind = "read", sectionLoading' = c.about
      PROVE  LoadingMeansRead'
  BY <1>2, AsksAdds DEF Types, CallTypes
<1>3. CASE UNCHANGED <<sectionLoading, asked>>
  BY <1>3 DEF InFlight
<1>4. ASSUME NEW call, Ask(call) PROVE LoadingMeansRead'
  BY <1>1, <1>4 DEF Ask, panel, pages
<1>5. /\ \A page, load, then : /\ Read(page, load, then).kind = "read"
                               /\ Read(page, load, then).about = page
      /\ ReloadCall.kind = "read" /\ ReloadCall.about = "configure"
  BY DEF Read, ReloadCall, Call
<1>6. ASSUME NEW page, NEW load, NEW present, EnsureWorkspaceData(page, load, present, "nothing")
      PROVE  LoadingMeansRead'
  BY <1>2, <1>3, <1>5, <1>6 DEF EnsureWorkspaceData
<1>7. ASSUME NEW load \in Loads, EditConfiguredLoad(load) PROVE LoadingMeansRead'
  <2>1. CASE /\ sectionLoading' = "configure"
             /\ Asks({Call("read", "configure", load, 0, 0, "edit")})
    BY <1>2, <2>1 DEF Call
  <2> QED BY <1>3, <1>7, <2>1 DEF EditConfiguredLoad
<1>8. ASSUME NEW page, NEW load, RouteChanged(page, load) PROVE LoadingMeansRead'
  BY <1>1, <1>2, <1>5, <1>8 DEF RouteChanged
<1>9. CASE ReloadConfiguration
  BY <1>2, <1>3, <1>5, <1>9 DEF ReloadConfiguration
<1>10. ASSUME UserActs PROVE LoadingMeansRead'
  <2>1. CASE EditLoad \/ CancelDeleteLoad \/ \E load \in Loads : RequestDeleteLoad(load)
    BY <1>3, <2>1 DEF EditLoad, CancelDeleteLoad, RequestDeleteLoad, pages
  <2>2. CASE CheckDraft \/ SaveSite \/ SaveLoad \/ ConfirmDeleteLoad \/ Replan
    BY <1>4, <2>2 DEF CheckDraft, SaveSite, SaveLoad, ConfirmDeleteLoad, Replan
  <2>3. ASSUME NEW load \in Loads,
               \/ DuplicateConfiguredLoad(load) \/ SetAutomaticControl(load) \/ Override(load)
        PROVE  LoadingMeansRead'
    BY <1>4, <2>3 DEF DuplicateConfiguredLoad, SetAutomaticControl, Override
  <2>4. ASSUME \/ \E page \in Pages : SelectWorkspaceView(page)
               \/ \E load \in Loads : OpenLoad(load)
        PROVE  LoadingMeansRead'
    BY <1>6, <2>4 DEF SelectWorkspaceView, OpenLoad
  <2> QED BY <1>7, <1>8, <1>9, <1>10, <2>1, <2>2, <2>3, <2>4 DEF UserActs
<1>11. CASE RefreshAsked
  BY <1>1, <1>11 DEF RefreshAsked, panel, pages
<1>12. CASE ResetWorkspaceData
  BY <1>12 DEF ResetWorkspaceData
<1>13. CASE OtherClient \/ UNCHANGED vars
  BY <1>3, <1>13 DEF OtherClient, vars, panel, pages
<1>14. ASSUME NEW c \in InFlight, NEW result \in Results, Serve(c, result), Receive(c, result)
       PROVE  LoadingMeansRead'
  <2>1. ASSUME NEW S, Goes(c, S), UNCHANGED sectionLoading, c.kind # "read"
        PROVE  LoadingMeansRead'
    BY <2>1, GoesReplaces DEF Types, CallTypes
  <2>2. ASSUME NEW S, Goes(c, S), SectionDone(c, result)
        PROVE  LoadingMeansRead'
    BY <2>2, GoesReplaces DEF Types, CallTypes, SectionDone
  <2>3. CASE ConfigurationRead(c, result) \/ PageRead(c, result) \/ ReadFailed(c, result)
    BY <2>2, <2>3 DEF ConfigurationRead, PageRead, ReadFailed
  <2>4. CASE DraftChecked(c, result) \/ SiteValidated(c, result) \/ LoadValidated(c, result)
    BY <2>1, <2>4 DEF DraftChecked, SiteValidated, LoadValidated, pages
  <2>5. CASE CommandDone(c, result) \/ CommandFailed(c, result)
    BY <2>1, <2>5 DEF CommandDone, CommandFailed, Commands, pages
  <2>6. CASE RefreshDone(c, result)
    <3>1. PICK S : /\ Goes(c, S)
                   /\ \/ UNCHANGED sectionLoading
                      \/ \E d \in S : d.kind = "read" /\ d.about = sectionLoading'
      <4> DEFINE own == Read(workspaceView, selectedLoad, "nothing")
                 next == IF c.then = "configure" THEN ReloadCall
                         ELSE Read(c.then, selectedLoad, "nothing")
      <4>1. /\ own.kind = "read" /\ own.about = workspaceView
            /\ next.kind = "read" /\ next.about = c.then
        BY <1>5
      <4>2. PICK S : /\ Goes(c, S)
                     /\ \/ UNCHANGED sectionLoading
                        \/ sectionLoading' = workspaceView /\ own \in S
                        \/ sectionLoading' = c.then /\ next \in S
        BY <2>6 DEF RefreshDone
      <4> HIDE DEF own, next
      <4> QED BY <4>1, <4>2
    <3>2. c.kind # "read"
      BY <2>6 DEF RefreshDone
    <3>3. CASE UNCHANGED sectionLoading
      BY <2>1, <3>1, <3>2, <3>3
    <3>4. CASE \E d \in S : d.kind = "read" /\ d.about = sectionLoading'
      BY <3>1, <3>4, GoesReplaces DEF Types, CallTypes
    <3> QED BY <3>1, <3>3, <3>4
  <2>7. CASE NeverAnswered(c, result)
    BY <1>14, <2>1, <2>7, OnlySilentUnanswered DEF NeverAnswered, Silent, panel, pages
  <2> QED BY <1>14, <2>3, <2>4, <2>5, <2>6, <2>7 DEF Receive
<1> QED BY <1>10, <1>11, <1>12, <1>13, <1>14 DEF Next, Answered

\* A page that is said to be loading is being read.
THEOREM LoadingCorrect == Spec => []LoadingMeansRead
<1>1. Init => Types /\ LoadingMeansRead
  BY InitTypes DEF Init, LoadingMeansRead
<1>2. Types /\ LoadingMeansRead /\ [Next]_vars => Types' /\ LoadingMeansRead'
  BY StepTypes, StepLoading
<1> QED BY <1>1, <1>2, PTL DEF Spec

-----------------------------------------------------------------------------
(* What was saved and what is shown.                                       *)

\* No step brings a configuration back that is older than a confirmed save.
LEMMA StepOwnWrites ==
    ASSUME Types, acknowledged <= siteRevision, OwnWritesAreShown, [Next]_vars
    PROVE  acknowledged' <= siteRevision' /\ OwnWritesAreShown'
<1> DEFINE Shown == configuration # None => configuration.site >= acknowledged
           Reloads(c) == c.kind = "refresh" /\ c.then = "configure"
<1>1. /\ acknowledged \in Nat /\ siteRevision \in Nat /\ IsABag(asked)
      /\ \A c \in InFlight : WellTyped(c)
  BY DEF Types, PanelTypes, ServerTypes, CallTypes, Revisions
<1>2. ASSUME UNCHANGED <<configuration, acknowledged>>, InFlight \subseteq InFlight'
      PROVE  OwnWritesAreShown'
  BY <1>2 DEF OwnWritesAreShown
<1>3. ASSUME UNCHANGED <<server, configuration, acknowledged>>,
             UNCHANGED asked \/ \E S : Asks(S)
      PROVE  acknowledged' <= siteRevision' /\ OwnWritesAreShown'
  <2>1. InFlight \subseteq InFlight'
    BY <1>1, <1>3, AsksAdds DEF InFlight
  <2> QED BY <1>2, <1>3, <2>1 DEF server
<1>4. CASE UserActs \/ RefreshAsked
  <2>1. CASE ReloadConfiguration
    BY <2>1 DEF ReloadConfiguration, ClearDrafts, OwnWritesAreShown, server
  <2>2. CASE EditLoad \/ CheckDraft \/ SaveSite \/ SaveLoad \/ CancelDeleteLoad
             \/ ConfirmDeleteLoad \/ Replan \/ RefreshAsked
    BY <1>3, <2>2 DEF EditLoad, CheckDraft, SaveSite, SaveLoad, CancelDeleteLoad,
                      ConfirmDeleteLoad, Replan, RefreshAsked, Ask, panel, drafts
  <2>3. ASSUME NEW load \in Loads,
               \/ DuplicateConfiguredLoad(load) \/ RequestDeleteLoad(load)
               \/ SetAutomaticControl(load) \/ Override(load)
        PROVE  acknowledged' <= siteRevision' /\ OwnWritesAreShown'
    BY <1>3, <2>3 DEF DuplicateConfiguredLoad, RequestDeleteLoad, SetAutomaticControl,
                      Override, Ask, panel, drafts
  <2>4. ASSUME \/ \E page \in Pages : SelectWorkspaceView(page)
               \/ \E load \in Loads : OpenLoad(load) \/ EditConfiguredLoad(load)
        PROVE  acknowledged' <= siteRevision' /\ OwnWritesAreShown'
    BY <1>3, <2>4 DEF SelectWorkspaceView, OpenLoad, EditConfiguredLoad, EnsureWorkspaceData,
                      drafts
  <2>5. ASSUME NEW page, NEW load, RouteChanged(page, load)
        PROVE  acknowledged' <= siteRevision' /\ OwnWritesAreShown'
    BY <1>3, <2>5 DEF RouteChanged, drafts
  <2> QED BY <1>4, <2>1, <2>2, <2>3, <2>4, <2>5 DEF UserActs
<1>5. CASE ResetWorkspaceData
  BY <1>5 DEF ResetWorkspaceData, OwnWritesAreShown, server
<1>6. CASE OtherClient
  <2>1. siteRevision' \in Nat /\ siteRevision' >= siteRevision
    BY <1>1, <1>6 DEF OtherClient
  <2>2. UNCHANGED <<configuration, acknowledged>> /\ InFlight \subseteq InFlight'
    BY <1>6 DEF OtherClient, panel, drafts, InFlight
  <2> QED BY <1>1, <1>2, <2>1, <2>2
<1>7. CASE UNCHANGED vars
  BY <1>3, <1>7 DEF vars, panel, drafts
<1>8. ASSUME NEW c \in InFlight, NEW result \in Results, Serve(c, result), Receive(c, result)
      PROVE  acknowledged' <= siteRevision' /\ OwnWritesAreShown'
  <2>1. /\ siteRevision' \in Nat /\ siteRevision' >= siteRevision
        /\ c.kind = "configuration_update" /\ result = "ok" => siteRevision' = c.rev + 1
    BY <1>8, ServeTypes DEF ServerTypes, Revisions
  <2>2. ASSUME NEW S, Goes(c, S)
        PROVE  InFlight \ {c} \subseteq InFlight' /\ S \subseteq InFlight'
    BY <1>1, <2>2, GoesReplaces
  <2>3. ASSUME NEW S, Goes(c, S), ~Reloads(c), UNCHANGED <<configuration, acknowledged>>
        PROVE  acknowledged' <= siteRevision' /\ OwnWritesAreShown'
    BY <1>1, <2>1, <2>2, <2>3 DEF OwnWritesAreShown
  <2>4. CASE ConfigurationRead(c, result)
    <3>1. c.kind = "read"
      BY <2>4 DEF ConfigurationRead
    <3>2. siteRevision' = siteRevision
      BY <1>8, <3>1 DEF Serve, NothingStored, Control, UpdateSiteConfig, UpdateLoad, AddLoad,
                        DeleteLoad, Conflict, server
    <3>3. configuration'.site = siteRevision /\ acknowledged' = acknowledged
      BY <2>4 DEF ConfigurationRead, TakeConfiguration, Snapshot
    <3> QED BY <1>1, <3>2, <3>3 DEF OwnWritesAreShown
  <2>5. CASE PageRead(c, result) \/ ReadFailed(c, result)
    BY <2>3, <2>5 DEF PageRead, ReadFailed, drafts
  <2>6. CASE DraftChecked(c, result) \/ SiteValidated(c, result) \/ LoadValidated(c, result)
    BY <2>3, <2>6 DEF DraftChecked, SiteValidated, LoadValidated, drafts
  <2>7. CASE CommandDone(c, result)
    <3>1. ~Reloads(c) /\ UNCHANGED configuration /\ Goes(c, {RefreshCall(c.then)})
      BY <2>7 DEF CommandDone, Commands, drafts
    <3>2. CASE c.kind # "configuration_update"
      BY <2>3, <2>7, <3>1, <3>2 DEF CommandDone
    <3>3. CASE c.kind = "configuration_update"
      <4>1. acknowledged' = siteRevision'
        BY <2>1, <2>7, <3>3 DEF CommandDone
      <4>2. RefreshCall(c.then) \in InFlight' /\ Reloads(RefreshCall(c.then))
        BY <1>1, <2>2, <3>1, <3>3 DEF RefreshCall, Call, WellTyped
      <4> QED BY <2>1, <4>1, <4>2 DEF OwnWritesAreShown
    <3> QED BY <3>2, <3>3
  <2>8. CASE CommandFailed(c, result)
    BY <2>3, <2>8 DEF CommandFailed, Commands, drafts
  <2>9. CASE NeverAnswered(c, result)
    BY <1>8, <2>3, <2>9, OnlySilentUnanswered DEF NeverAnswered, Silent, panel, drafts
  <2>10. CASE RefreshDone(c, result)
    <3>1. PICK S : Goes(c, S)
      BY <2>10 DEF RefreshDone
    <3>2. CASE c.then = "configure"
      BY <1>1, <2>1, <2>10, <3>2 DEF RefreshDone, ClearDrafts, OwnWritesAreShown
    <3>3. CASE c.then # "configure"
      BY <2>3, <2>10, <3>1, <3>3 DEF RefreshDone, drafts
    <3> QED BY <3>2, <3>3
  <2> QED BY <1>8, <2>4, <2>5, <2>6, <2>7, <2>8, <2>9, <2>10 DEF Receive
<1> QED BY <1>4, <1>5, <1>6, <1>7, <1>8 DEF Next, Answered

\* No earlier read brings back, after the reload that follows a save of the site, a
\* configuration older than what was saved.
THEOREM OwnWritesShown == Spec => []OwnWritesAreShown
<1> DEFINE I == Types /\ acknowledged <= siteRevision /\ OwnWritesAreShown
<1>1. Init => I
  BY InitTypes DEF Init, OwnWritesAreShown
<1>2. I /\ [Next]_vars => I'
  BY StepTypes, StepOwnWrites
<1> QED BY <1>1, <1>2, PTL DEF Spec

=============================================================================
