--------------------------- MODULE PanelWorkspace ---------------------------
(***************************************************************************)
(* The panel's workspace for one site, composed with the server: pages     *)
(* that load on demand, drafts of the configuration, the commands that     *)
(* change it, and the revisions by which the coordinator refuses stale     *)
(* ones (intelligent-load-controller-panel.ts, load-control-api.ts,        *)
(* websocket_api.py, coordinator.py).                                      *)
(*                                                                         *)
(* The content of a document is its revision: two contents never share     *)
(* one.  A draft is the revision it was copied from; what was typed into   *)
(* it does not matter here.  A function suspended at an await is the call  *)
(* it waits for, which carries the values the function has captured.       *)
(*                                                                         *)
(* A call is served and its answer delivered in one step.  The coordinator *)
(* stores, then awaits a replan, and only then answers: what is read or    *)
(* done between the two, so a read that shows a save before the save is    *)
(* answered, is left out.                                                  *)
(*                                                                         *)
(* The panel's refresh is one call here; which of several refreshes may    *)
(* fill the screen, and so what the load cards show, is PanelSession's     *)
(* matter.                                                                 *)
(***************************************************************************)
EXTENDS Naturals, FiniteSets, Bags

CONSTANTS
    Loads,        \* the loads that are followed, those added later included
    Reports,      \* the pages that are only read: the plan, the history
    MaxRevision,  \* bound on the revision of a document
    MaxCalls,     \* bound on the calls in flight when the user acts
    None

ASSUME LoadsAssumption == None \notin Loads
ASSUME ReportsAssumption == Reports \subseteq {"plan", "history"}
ASSUME BoundsAssumption == MaxRevision \in Nat \ {0} /\ MaxCalls \in Nat

VARIABLES
    \* the server
    siteRevision,
    loadRevision,   \* 0 while the load does not exist
    unused,         \* identities that no load has had yet
    \* the panel
    workspaceView,
    selectedLoad,
    configuration,  \* revisions of the documents read, or None
    siteDraft,      \* revision the draft was copied from, or None
    loadDraft,      \* load (None: a new one) and revision, or None
    loaded,         \* which of the reports are there
    loadDetail,     \* load whose detail is there, or None
    sectionLoading,
    confirmation,   \* load and revision in the delete dialog, or None
    actionError,    \* none, or its code: a conflict, another error
    acknowledged,   \* history: site revision of the last save that was confirmed
    \* calls in flight, a bag
    asked

server == <<siteRevision, loadRevision, unused>>
drafts == <<configuration, siteDraft, loadDraft>>
pages  == <<workspaceView, selectedLoad, loaded, loadDetail, sectionLoading>>
panel  == <<pages, drafts, confirmation, actionError, acknowledged>>
vars   == <<server, panel, asked>>

Pages     == {"dashboard", "configure", "load"} \cup Reports
Revisions == 0..MaxRevision
Snapshots == [site : Revisions, loads : [Loads -> Revisions]]
Snapshot  == [site |-> siteRevision, loads |-> loadRevision]

\* No configuration is no configuration.
ASSUME NoneAssumption == None \notin Snapshots

\* What a suspended function waits for, and how it goes on: about and load say what
\* it asks for, base is the revision of the content it sends or acts on, rev is
\* if_revision, and then names what follows the answer.
Kinds == {"read", "refresh", "validate", "configuration_update", "load_update",
          "load_add", "load_duplicate", "load_delete", "automatic_control_set",
          "override_start", "override_clear", "replan"}
Call(kind, about, load, base, rev, then) ==
    [kind |-> kind, about |-> about, load |-> load, base |-> base, rev |-> rev,
     then |-> then]
Calls == [kind : Kinds, about : Pages \cup {"site", None}, load : Loads \cup {None},
          base : Revisions, rev : Revisions,
          then : {"nothing", "save", "clear", "edit"} \cup Pages]
Results == {"ok", "invalid", "conflict", "error", "none"}

InFlight == BagToSet(asked)

TypeOK ==
    /\ siteRevision \in Revisions /\ loadRevision \in [Loads -> Revisions]
    /\ unused \subseteq Loads
    /\ workspaceView \in Pages /\ selectedLoad \in Loads \cup {None}
    /\ configuration \in Snapshots \cup {None}
    /\ siteDraft \in Revisions \cup {None}
    /\ loadDraft \in [load : Loads \cup {None}, base : Revisions] \cup {None}
    /\ loaded \subseteq Reports
    /\ loadDetail \in Loads \cup {None}
    /\ sectionLoading \in Pages \cup {None}
    /\ confirmation \in [load : Loads, rev : Revisions] \cup {None}
    /\ actionError \in {"none", "conflict", "error"}
    /\ acknowledged \in Revisions
    /\ IsABag(asked) /\ InFlight \subseteq Calls

Room == BagCardinality(asked) < MaxCalls

Init ==
    /\ siteRevision = 1
    /\ loadRevision \in [Loads -> {0, 1}]
    /\ unused = {l \in Loads : loadRevision[l] = 0}
    /\ workspaceView = "dashboard" /\ selectedLoad = None
    /\ configuration = None /\ siteDraft = None /\ loadDraft = None
    /\ loaded = {} /\ loadDetail = None /\ sectionLoading = None
    /\ confirmation = None /\ actionError = "none" /\ acknowledged = 0
    /\ asked = EmptyBag

-----------------------------------------------------------------------------
(* Pages that load on demand.                                              *)

HasWorkspaceData(page) ==
    CASE page = "dashboard" -> TRUE
      [] page = "configure" -> configuration # None
      [] page = "load"      -> loadDetail # None
      [] OTHER              -> page \in loaded

\* ensureWorkspaceData reads a page unless it is there or is the one being loaded.
MustRead(page, present, section) == page # "dashboard" /\ ~present /\ section # page

Asks(calls) == asked' = asked (+) SetToBag(calls)

Read(page, load, then) ==
    Call("read", page, IF page = "load" THEN load ELSE None, 0, 0, then)

RefreshCall(then) == Call("refresh", None, None, 0, 0, then)

\* ensureWorkspaceData up to its await, when it is the only call of the action.
EnsureWorkspaceData(page, load, present, then) ==
    IF MustRead(page, present, sectionLoading) /\ (page = "load" => load # None)
    THEN /\ sectionLoading' = page
         /\ Asks({Read(page, load, then)})
    ELSE UNCHANGED <<sectionLoading, asked>>

\* startEditingLoad on the load as the configuration shows it.
DraftOf(load) == [load |-> load, base |-> configuration.loads[load]]

UserMayAct == confirmation = None   \* the delete dialog is modal

\* The revisions that a load's card may show: any up to the present one, and any at all
\* of a load that is gone, since an earlier dashboard may still be on screen.
Cards(load) ==
    {revision \in 1..MaxRevision :
        \/ revision <= loadRevision[load]
        \/ loadRevision[load] = 0 /\ load \notin unused}

\* selectWorkspaceView
SelectWorkspaceView(page) ==
    /\ UserMayAct /\ Room
    /\ page # "load"   \* there is no such button
    /\ workspaceView' = page
    /\ actionError' = "none"
    /\ EnsureWorkspaceData(page, selectedLoad, HasWorkspaceData(page), "nothing")
    /\ UNCHANGED <<server, selectedLoad, loaded, loadDetail, drafts, confirmation,
                   acknowledged>>

\* openLoad: the detail on screen goes, and a new one is asked for unless some
\* detail is being loaded.
OpenLoad(load) ==
    /\ UserMayAct /\ Room
    /\ workspaceView = "dashboard" /\ Cards(load) # {}
    /\ selectedLoad' = load /\ workspaceView' = "load" /\ loadDetail' = None
    /\ EnsureWorkspaceData("load", load, FALSE, "nothing")
    /\ UNCHANGED <<server, loaded, drafts, confirmation, actionError, acknowledged>>

\* editConfiguredLoad: the configure page, then the editor once it is there.
EditConfiguredLoad(load) ==
    /\ UserMayAct /\ Room
    /\ workspaceView = "dashboard" /\ Cards(load) # {}
    /\ workspaceView' = "configure" /\ actionError' = "none"
    /\ IF MustRead("configure", configuration # None, sectionLoading)
       THEN /\ sectionLoading' = "configure"
            /\ Asks({Call("read", "configure", load, 0, 0, "edit")})
       ELSE UNCHANGED <<sectionLoading, asked>>
    /\ loadDraft' = IF configuration # None /\ configuration.loads[load] > 0
                    THEN DraftOf(load) ELSE loadDraft
    /\ UNCHANGED <<server, selectedLoad, loaded, loadDetail, configuration,
                   siteDraft, confirmation, acknowledged>>

\* syncRoute, and the refresh that a changed route brings unless one is under way.
RouteChanged(page, load) ==
    /\ Room
    /\ workspaceView' = page
    /\ selectedLoad' = IF page = "load" THEN load ELSE selectedLoad
    /\ \E refreshes \in {{}, {RefreshCall("nothing")}} :
           IF MustRead(page, HasWorkspaceData(page), sectionLoading)
           THEN sectionLoading' = page /\ Asks({Read(page, load, "nothing")} \cup refreshes)
           ELSE UNCHANGED sectionLoading /\ Asks(refreshes)
    /\ UNCHANGED <<server, loaded, loadDetail, drafts, confirmation, actionError,
                   acknowledged>>

\* The header's button, an update event, a connection that came back.
RefreshAsked ==
    /\ Room
    /\ Asks({RefreshCall("nothing")})
    /\ UNCHANGED <<server, panel>>

\* resetWorkspaceData, when the panel starts over without hass, or a site is opened.
\* Either follows a closed connection, which has rejected the calls in flight.
ResetWorkspaceData ==
    /\ asked = EmptyBag
    /\ workspaceView' = "dashboard" /\ selectedLoad' = None
    /\ configuration' = None /\ siteDraft' = None /\ loadDraft' = None
    /\ loaded' = {} /\ loadDetail' = None /\ sectionLoading' = None
    /\ confirmation' = None /\ actionError' = "none"
    /\ UNCHANGED <<server, acknowledged, asked>>

-----------------------------------------------------------------------------
(* The configure page.                                                     *)

OnConfigurePage == workspaceView = "configure" /\ configuration # None
Listed(load)    == OnConfigurePage /\ configuration.loads[load] > 0

\* Bug: the configuration on screen stays until the new one is there.
ClearNothing == UNCHANGED drafts

\* What reloadConfiguration drops before it reads.
ClearDrafts == configuration' = None /\ siteDraft' = None /\ loadDraft' = None

ReloadCall == Call("read", "configure", None, 0, 0,
                   IF actionError = "conflict" THEN "clear" ELSE "nothing")

\* reloadConfiguration: Reload latest settings after a conflict, Retry on a page
\* without configuration.
ReloadConfiguration ==
    /\ UserMayAct /\ Room
    /\ actionError = "conflict" \/ (workspaceView = "configure" /\ configuration = None)
    /\ ClearDrafts
    /\ IF sectionLoading # "configure"
       THEN /\ sectionLoading' = "configure"
            /\ Asks({ReloadCall})
       ELSE UNCHANGED <<sectionLoading, asked>>
    /\ UNCHANGED <<server, workspaceView, selectedLoad, loaded, loadDetail,
                   confirmation, actionError, acknowledged>>

\* startAddingLoad, startEditingLoad, cancelLoadEditor
EditLoad ==
    /\ UserMayAct /\ OnConfigurePage
    /\ \/ loadDraft' = [load |-> None, base |-> 0]
       \/ \E load \in Loads : Listed(load) /\ loadDraft' = DraftOf(load)
       \/ loadDraft' = None
    /\ UNCHANGED <<server, pages, configuration, siteDraft, confirmation, actionError,
                   acknowledged, asked>>

\* The user asks for something; the panel waits for its answer.
Ask(call) ==
    /\ Room
    /\ Asks({call})
    /\ UNCHANGED <<server, panel>>

\* validateDraft and previewDraft from their buttons, which change nothing else.
CheckDraft ==
    /\ UserMayAct /\ OnConfigurePage /\ (siteDraft # None \/ loadDraft # None)
    /\ Ask(Call("validate", None, None, 0, 0, "nothing"))

\* saveSite up to its first await: the draft and the configuration are captured now.
SaveSite ==
    /\ UserMayAct /\ OnConfigurePage /\ siteDraft # None
    /\ Ask(Call("validate", "site", None, siteDraft, configuration.site, "save"))

\* saveLoad up to its first await: only the draft is captured.
SaveLoad ==
    /\ UserMayAct /\ OnConfigurePage /\ loadDraft # None
    /\ Ask(Call("validate", "load", loadDraft.load, loadDraft.base, 0, "save"))

\* duplicateConfiguredLoad, on the load as its card shows it.
DuplicateConfiguredLoad(load) ==
    /\ UserMayAct /\ Listed(load)
    /\ Ask(Call("load_duplicate", None, load, configuration.loads[load],
                configuration.loads[load], "configure"))

\* requestDeleteLoad opens the dialog, cancelDeleteLoad closes it.
RequestDeleteLoad(load) ==
    /\ UserMayAct /\ Listed(load)
    /\ confirmation' = [load |-> load, rev |-> configuration.loads[load]]
    /\ UNCHANGED <<server, pages, drafts, actionError, acknowledged, asked>>

CancelDeleteLoad ==
    /\ confirmation # None
    /\ confirmation' = None
    /\ UNCHANGED <<server, pages, drafts, actionError, acknowledged, asked>>

\* confirmDeleteLoad: the dialog stays until the answer.
ConfirmDeleteLoad ==
    /\ confirmation # None
    /\ Ask(Call("load_delete", None, confirmation.load, confirmation.rev, confirmation.rev,
                "configure"))

-----------------------------------------------------------------------------
(* The controls of one load, and the plan.                                 *)

OnLoadPage(load) == workspaceView = "load" /\ selectedLoad = load /\ Cards(load) # {}

\* setAutomaticControl to the opposite of what the card shows, at its revision.
SetAutomaticControl(load) ==
    /\ UserMayAct /\ OnLoadPage(load)
    /\ \E revision \in Cards(load) :
           Ask(Call("automatic_control_set", None, load, revision, revision, "load"))

\* applyOverride with a valid duration, clearLoadOverride
Override(load) ==
    /\ UserMayAct /\ OnLoadPage(load)
    /\ \E kind \in {"override_start", "override_clear"} :
           Ask(Call(kind, None, load, 0, 0, "load"))

Replan ==
    /\ UserMayAct /\ workspaceView = "plan"
    /\ Ask(Call("replan", None, None, 0, 0, "plan"))

-----------------------------------------------------------------------------
(* The server carries a command out, or not, and gives its result.         *)

\* Commands whose handler sends nothing when the coordinator returns None, as its
\* methods for these two do.
Silent == {"load_delete", "override_clear"}

\* The command was carried out.  What it does after storing may still fail.
Done(call, result) == result \in {"error", IF call.kind \in Silent THEN "none" ELSE "ok"}

Commands == Kinds \ {"read", "refresh", "validate"}

\* Anything may be refused: the user is no administrator, the entry is being
\* reloaded, the configuration is invalid, the rate is limited.
NothingStored(call, result) ==
    /\ \/ result = "error"
       \/ result = "ok" /\ call.kind \notin Commands
       \/ result = "invalid" /\ call.kind = "validate"
    /\ UNCHANGED server

\* Commands that store no configuration, and a switch that is already so.
Control(call, result) ==
    /\ call.kind \in {"override_start", "override_clear", "replan", "automatic_control_set"}
    /\ call.kind = "automatic_control_set" => call.rev = loadRevision[call.load]
    /\ Done(call, result)
    /\ UNCHANGED server

NextRevisionTwice(revision) == revision + 2   \* Bug: merging and validating both count.

NextRevision(revision) == revision + 1

\* async_update_site_config
UpdateSiteConfig(call, result) ==
    /\ call.kind = "configuration_update" /\ call.rev = siteRevision
    /\ siteRevision < MaxRevision
    /\ siteRevision' = NextRevision(siteRevision)
    /\ Done(call, result)
    /\ UNCHANGED <<loadRevision, unused>>

\* The load exists, at the revision that the caller knows.
Current(call) == loadRevision[call.load] > 0 /\ call.rev = loadRevision[call.load]

\* async_update_load, also for the automatic control
UpdateLoad(call, result) ==
    /\ call.kind \in {"load_update", "automatic_control_set"} /\ Current(call)
    /\ loadRevision[call.load] < MaxRevision
    /\ loadRevision' = [loadRevision EXCEPT ![call.load] = NextRevision(@)]
    /\ Done(call, result)
    /\ UNCHANGED <<siteRevision, unused>>

\* async_add_load, async_duplicate_load
AddLoad(call, result) ==
    /\ call.kind = "load_add" \/ (call.kind = "load_duplicate" /\ Current(call))
    /\ \/ \E load \in unused :
              /\ unused' = unused \ {load}
              /\ loadRevision' = [loadRevision EXCEPT ![load] = 1]
       \/ UNCHANGED <<unused, loadRevision>>   \* a load that is not followed
    /\ Done(call, result)
    /\ UNCHANGED siteRevision

\* async_delete_load
DeleteLoad(call, result) ==
    /\ call.kind = "load_delete" /\ Current(call)
    /\ loadRevision' = [loadRevision EXCEPT ![call.load] = 0]
    /\ Done(call, result)
    /\ UNCHANGED <<siteRevision, unused>>

\* _require_revision: the document has another revision than the caller's.
Conflict(call, result) ==
    /\ result = "conflict"
    /\ \/ call.kind = "configuration_update" /\ call.rev # siteRevision
       \/ /\ call.kind \in {"load_update", "load_duplicate", "load_delete",
                            "automatic_control_set"}
          /\ loadRevision[call.load] \notin {0, call.rev}
    /\ UNCHANGED server

Serve(call, result) ==
    \/ NothingStored(call, result) \/ Control(call, result)
    \/ UpdateSiteConfig(call, result) \/ UpdateLoad(call, result)
    \/ AddLoad(call, result) \/ DeleteLoad(call, result)
    \/ Conflict(call, result)

\* Another panel, the options flow or the load's subentry flow.
OtherClient ==
    /\ \/ /\ siteRevision < MaxRevision
          /\ siteRevision' = siteRevision + 1
          /\ UNCHANGED loadRevision
       \/ \E load \in Loads :
              /\ loadRevision[load] \in 1..(MaxRevision - 1)
              /\ \E revision \in {0, loadRevision[load] + 1} :
                     loadRevision' = [loadRevision EXCEPT ![load] = revision]
              /\ UNCHANGED siteRevision
    /\ UNCHANGED <<unused, panel, asked>>

-----------------------------------------------------------------------------
(* The panel runs the suspended function on to its next await or its end.  *)

Goes(call, calls) == asked' = (asked (-) SetToBag({call})) (+) SetToBag(calls)

\* Bug: a page that could not be read stays marked as loading.
SectionDoneOnSuccess(call, result) ==
    sectionLoading' = IF sectionLoading = call.about /\ result = "ok"
                      THEN None ELSE sectionLoading

\* ensureWorkspaceData's finally
SectionDone(call, result) ==
    sectionLoading' = IF sectionLoading = call.about THEN None ELSE sectionLoading

\* How the callers of ensureWorkspaceData go on, whether or not the read succeeded:
\* editConfiguredLoad opens the editor, reloadConfiguration takes a conflict away.
AfterRead(call, document, draft, outcome) ==
    /\ loadDraft' = IF call.then = "edit" /\ document # None
                         /\ document.loads[call.load] > 0
                    THEN [load |-> call.load, base |-> document.loads[call.load]]
                    ELSE draft
    /\ actionError' = IF call.then = "clear" /\ document # None THEN "none" ELSE outcome

\* Bug: a draft that is there is kept.
TakeConfigurationKeepDraft(call) ==
    /\ configuration' = Snapshot
    /\ siteDraft' = IF siteDraft = None THEN siteRevision ELSE siteDraft
    /\ AfterRead(call, Snapshot, None, actionError)

TakeConfiguration(call) ==
    /\ configuration' = Snapshot
    /\ siteDraft' = siteRevision
    /\ AfterRead(call, Snapshot, None, actionError)

ConfigurationRead(call, result) ==
    /\ call.kind = "read" /\ call.about = "configure" /\ result = "ok"
    /\ TakeConfiguration(call)
    /\ SectionDone(call, result)
    /\ Goes(call, {})
    /\ UNCHANGED <<workspaceView, selectedLoad, loaded, loadDetail, confirmation,
                   acknowledged>>

PageRead(call, result) ==
    /\ call.kind = "read" /\ call.about # "configure" /\ result = "ok"
    /\ loaded' = loaded \cup ({call.about} \cap Reports)
    /\ loadDetail' = IF call.about = "load" THEN call.load ELSE loadDetail
    /\ SectionDone(call, result)
    /\ Goes(call, {})
    /\ UNCHANGED <<workspaceView, selectedLoad, drafts, confirmation, actionError,
                   acknowledged>>

ReadFailed(call, result) ==
    /\ call.kind = "read" /\ result = "error"
    /\ AfterRead(call, configuration, loadDraft, "error")
    /\ SectionDone(call, result)
    /\ Goes(call, {})
    /\ UNCHANGED <<workspaceView, selectedLoad, loaded, loadDetail, configuration,
                   siteDraft, confirmation, acknowledged>>

\* validateDraft from its button, or refusing the draft that is being saved;
\* previewDraft.
DraftChecked(call, result) ==
    /\ call.kind = "validate"
    /\ call.then = "save" => result # "ok"
    /\ actionError' = IF result = "error" THEN "error" ELSE "none"
    /\ Goes(call, {})
    /\ UNCHANGED <<pages, drafts, confirmation, acknowledged>>

\* Bug: the revision is that of the configuration now.
SiteValidatedLate(call, result) ==
    /\ call.kind = "validate" /\ call.then = "save" /\ call.about = "site" /\ result = "ok"
    /\ configuration # None
    /\ actionError' = "none"
    /\ Goes(call, {Call("configuration_update", None, None, call.base, configuration.site,
                        "configure")})
    /\ UNCHANGED <<pages, drafts, confirmation, acknowledged>>

\* saveSite after its first await: everything was captured before it.
SiteValidated(call, result) ==
    /\ call.kind = "validate" /\ call.then = "save" /\ call.about = "site" /\ result = "ok"
    /\ actionError' = "none"
    /\ Goes(call, {Call("configuration_update", None, None, call.base, call.rev, "configure")})
    /\ UNCHANGED <<pages, drafts, confirmation, acknowledged>>

\* saveLoad after its first await: the revision is that of the configuration now.
LoadValidated(call, result) ==
    /\ call.kind = "validate" /\ call.then = "save" /\ call.about = "load" /\ result = "ok"
    /\ \/ /\ call.load = None
          /\ actionError' = "none"
          /\ Goes(call, {Call("load_add", None, None, 0, 0, "configure")})
       \/ /\ call.load # None
          /\ configuration # None /\ configuration.loads[call.load] > 0
          /\ actionError' = "none"
          /\ Goes(call, {Call("load_update", None, call.load, call.base,
                              configuration.loads[call.load], "configure")})
       \/ /\ call.load # None
          /\ configuration # None => configuration.loads[call.load] = 0
          /\ actionError' = "conflict"
          /\ Goes(call, {})
    /\ UNCHANGED <<pages, drafts, confirmation, acknowledged>>

\* A command succeeded: what it made stale goes, and a refresh follows.
CommandDone(call, result) ==
    /\ call.kind \in Commands /\ result = "ok"
    /\ actionError' = "none"
    /\ acknowledged' = IF call.kind = "configuration_update" THEN call.rev + 1
                       ELSE acknowledged
    /\ confirmation' = IF call.kind = "load_delete" THEN None ELSE confirmation
    /\ loadDetail' = IF call.then = "load" THEN None ELSE loadDetail
    /\ loaded' = loaded \ ({call.then} \cap {"plan"})
    /\ Goes(call, {RefreshCall(call.then)})
    /\ UNCHANGED <<workspaceView, selectedLoad, sectionLoading, drafts>>

CommandFailed(call, result) ==
    /\ call.kind \in Commands /\ result \in {"conflict", "error"}
    /\ actionError' = result
    /\ Goes(call, {})
    /\ UNCHANGED <<pages, drafts, confirmation, acknowledged>>

\* No answer comes: the function that waits for it never goes on.
NeverAnswered(call, result) ==
    /\ result = "none"
    /\ Goes(call, {})
    /\ UNCHANGED panel

\* A refresh ends, with the dashboard unless it failed or was overtaken: the page on
\* screen is read if it is missing, then the command that waited for the refresh
\* reads its own page in any case.
RefreshDone(call, result) ==
    LET page == workspaceView
        then == call.then
    IN
    /\ call.kind = "refresh"
    /\ \E applied \in {FALSE, result = "ok"} :
           LET own     == /\ applied
                          /\ page = "load" => selectedLoad # None
                          /\ MustRead(page, HasWorkspaceData(page), sectionLoading)
               loading == IF own THEN page ELSE sectionLoading
               forced  == /\ then # "nothing"
                          /\ then = "load" => selectedLoad # None
                          /\ MustRead(then, FALSE, loading)
               next    == IF then = "configure" THEN ReloadCall
                          ELSE Read(then, selectedLoad, "nothing")
           IN  /\ sectionLoading' = IF forced THEN then ELSE loading
               /\ Goes(call, {c \in {Read(page, selectedLoad, "nothing")} : own}
                               \cup {c \in {next} : forced})
    /\ IF then = "configure" THEN ClearDrafts ELSE UNCHANGED drafts
    /\ UNCHANGED <<workspaceView, selectedLoad, loaded, loadDetail, confirmation, actionError,
                   acknowledged>>

Receive(call, result) ==
    \/ ConfigurationRead(call, result) \/ PageRead(call, result) \/ ReadFailed(call, result)
    \/ DraftChecked(call, result) \/ SiteValidated(call, result) \/ LoadValidated(call, result)
    \/ CommandDone(call, result) \/ CommandFailed(call, result) \/ RefreshDone(call, result)
    \/ NeverAnswered(call, result)

\* A call in flight is carried out and answered.
Answered(call, result) == Serve(call, result) /\ Receive(call, result)

UserActs ==
    \/ \E page \in Pages : SelectWorkspaceView(page)
    \/ \E load \in Loads :
           \/ OpenLoad(load) \/ EditConfiguredLoad(load)
           \/ DuplicateConfiguredLoad(load) \/ RequestDeleteLoad(load)
           \/ SetAutomaticControl(load) \/ Override(load)
    \/ \E page \in Pages : \E load \in Loads : RouteChanged(page, load)
    \/ ReloadConfiguration \/ EditLoad \/ CheckDraft
    \/ SaveSite \/ SaveLoad \/ CancelDeleteLoad \/ ConfirmDeleteLoad
    \/ Replan

Next ==
    \/ UserActs \/ RefreshAsked \/ ResetWorkspaceData
    \/ \E call \in InFlight : \E result \in Results : Answered(call, result)
    \/ OtherClient

Spec == Init /\ [][Next]_vars

SectionAnswered ==
    \E call \in InFlight :
        /\ call.kind = "read" /\ call.about = sectionLoading
        /\ \E result \in Results : Answered(call, result)

\* The server answers the reads of the page that is being loaded.
FairSpec == Spec /\ WF_vars(SectionAnswered)

-----------------------------------------------------------------------------
(* Properties.                                                             *)

\* A draft is a copy of the configuration it is shown with, at that configuration's
\* revision, whatever reads, reloads and answers of earlier pages came since it was
\* opened: the revision sent with it is the one it was copied from.
DraftsAreOfTheShownConfiguration ==
    /\ siteDraft # None => configuration # None /\ siteDraft = configuration.site
    /\ loadDraft # None =>
           /\ configuration # None
           /\ loadDraft.load # None =>
                  loadDraft.base > 0 /\ loadDraft.base = configuration.loads[loadDraft.load]

\* Once the reload that follows a save has begun, the configuration on screen is not
\* older than what the save was told it stored: no earlier read brings it back.
OwnWritesAreShown ==
    configuration # None =>
        \/ configuration.site >= acknowledged
        \/ \E call \in InFlight : call.kind = "refresh" /\ call.then = "configure"

\* What a command that the server would accept now was made from.
Accepted(call) ==
    \/ call.kind = "configuration_update" /\ call.rev = siteRevision
    \/ /\ call.kind \in {"load_update", "load_delete", "load_duplicate",
                         "automatic_control_set"}
       /\ call.rev = loadRevision[call.load]

\* Of all commands that carry a revision, only saving a load can replace content that
\* its author had not read: settings of the site, deletions, copies and the automatic
\* control act on exactly what the user was shown, whatever other clients stored.
OthersAreNotOverwritten ==
    \A call \in InFlight :
        Accepted(call) /\ call.kind # "load_update" => call.base = call.rev

\* The panel says that it loads a page only while a read of that page is under way,
\* however pages were switched and reads refused or repeated.
LoadingMeansRead ==
    sectionLoading # None =>
        \E call \in InFlight : call.kind = "read" /\ call.about = sectionLoading

\* A page that is loading stops loading: every read is answered, and every answer that
\* concerns the page, good or bad, ends it.
SpinnerEnds ==
    \A page \in {"configure", "load"} \cup Reports :
        sectionLoading = page ~> sectionLoading # page

\* "A stale revision shows a conflict state with refresh/compare/reapply options; it
\* never overwrites silently" (docs/FRONTEND_UX_SPECIFICATION.md:71): nothing is stored
\* over content that its author had not read.
NeverOverwritesSilently ==
    \A call \in InFlight : Accepted(call) => call.base = call.rev

\* Deleting a load has a "clear completion/error feedback"
\* (docs/FRONTEND_UX_SPECIFICATION.md:67) and "write commands return the authoritative
\* updated revision and decision state" (:101): the panel gets an answer to go on.
DeleteIsAnswered ==
    [][\A call \in InFlight :
          (/\ call.kind = "load_delete" /\ ~BagIn(call, asked')
           /\ loadRevision[call.load] = call.rev /\ loadRevision'[call.load] = 0)
          => confirmation' = None \/ actionError' # "none"]_vars

=============================================================================
