----------------------------- MODULE EntryFlows -----------------------------
(***************************************************************************)
(* The configuration flows of an entry (config_flow.py, flows/options.py,    *)
(* flows/export.py) over the life of the entry (ConfigEntry).                *)
(*                                                                         *)
(* A flow is a dialogue: it waits for the user between two forms and for the *)
(* controller within a step, and several of them may be open at once.  It    *)
(* reads entry.options anew where it uses them, and keeps what it has        *)
(* discovered (`objects`), the binding under way and the client it captured. *)
(* A step that ends with an error shows its form again, which changes        *)
(* nothing.                                                                  *)
(*                                                                         *)
(* Abstracted: what is typed (names, numbers, hosts) and the validation of   *)
(* it; the first check of a source, which the test of the binding repeats;   *)
(* another controller under the same address.  External: the user, the       *)
(* objects of the controller and the ids that it gives to created ones.      *)
(***************************************************************************)
EXTENDS ConfigEntry

CONSTANTS
  Flow,  \* flows that may be open
  None   \* no object, source or settings

ASSUME FlowAssumption == None \notin Id \cup Source \cup Setting

VARIABLES
  flows,    \* the flow of each slot
  catalog,  \* the objects of the controller
  history   \* what the user has decided and what the properties exempt

vars == <<entryVars, flows, catalog, history>>

Kind == {"initial", "reconfigure", "reauth", "general", "devices",
         "create", "link", "change", "rebind", "delete"}

Closed ==
  [kind |-> "none", stage |-> "closed", data |-> None, objects |-> {},
   source |-> None, target |-> None, managed |-> None, client |-> 0]

Opened(kind) == [Closed EXCEPT !.kind = kind]

Exists == entry.state \notin {"none", "removed"}

In(f, stage, kinds) == flows[f].stage = stage /\ flows[f].kind \in kinds

Become(f, flow) == flows' = [flows EXCEPT ![f] = flow]

Close(f) == Become(f, Closed)

InForce == ExportBindings(entry.options.exports)

Testing(f) == flows[f].stage \in {"first", "second"}

-----------------------------------------------------------------------------
(* Opening.  The objects and the off modes come from the coordinator of a    *)
(* loaded entry and else from a temporary session with the entry's settings. *)
OpenOptions(f, kind) ==
  /\ Exists /\ flows[f].stage = "closed" /\ Spend("flows")
  /\ Become(f, [Opened(kind) EXCEPT
       !.stage   = "discovering",
       !.data    = IF entry.state = "loaded" THEN None ELSE entry.data,
       !.client  = IF entry.state = "loaded" THEN current ELSE 0,
       !.objects = IF entry.state = "loaded" THEN catalog ELSE {}])
  /\ UNCHANGED <<entry, current, runtimes, operations, phase, listeners, accepted,
                 reauth, issues, orphaned, catalog, history>>

(* One binding is managed; a new target for it needs the objects.            *)
OpenManaged(f, kind) ==
  /\ Exists /\ flows[f].stage = "closed" /\ Spend("flows")
  /\ \E t \in TargetsOf(InForce) :
       Become(f, [Opened(kind) EXCEPT
         !.stage = IF kind = "rebind" THEN "discovering" ELSE "form", !.managed = t,
         !.data  = IF kind # "rebind" \/ entry.state = "loaded" THEN None ELSE entry.data,
         !.client = IF kind = "rebind" /\ entry.state = "loaded" THEN current ELSE 0,
         !.objects = IF kind = "rebind" /\ entry.state = "loaded" THEN catalog ELSE {}])
  /\ UNCHANGED <<entry, current, runtimes, operations, phase, listeners, accepted,
                 reauth, issues, orphaned, catalog, history>>

(* A session with the settings that the user entered.                        *)
OpenSession(f, kind, data) ==
  /\ flows[f].stage = "closed" /\ Spend("flows")
  /\ CASE kind = "initial" -> entry.state = "none"
       [] kind = "reconfigure" -> Exists
       [] kind = "reauth" -> Exists /\ reauth
  /\ Become(f, [Opened(kind) EXCEPT !.stage = "session", !.data = data])
  /\ UNCHANGED <<entry, current, runtimes, operations, phase, listeners, accepted,
                 reauth, issues, orphaned, catalog, history>>

(* The objects are those of the refreshed snapshot, or of the one before if  *)
(* there is no connection; the modes need a connection.                      *)
Discovered(f) ==
  /\ flows[f].stage = "discovering"
  /\ \E objects \in {flows[f].objects, catalog} :
       /\ IF flows[f].client # 0
          THEN \/ runtimes[flows[f].client].conn = "connected"
               \/ flows[f].kind # "general" /\ objects = flows[f].objects
          ELSE flows[f].data = accepted /\ objects = catalog
       /\ Become(f, [flows[f] EXCEPT !.stage = "form", !.client = 0, !.data = None,
                                     !.objects = objects])
  /\ UNCHANGED <<entryVars, catalog, history>>

(* The discovery or the session fails, the user gives up, or the entry is    *)
(* gone.                                                                     *)
Abandon(f) ==
  /\ \/ flows[f].stage \in {"discovering", "session", "form"}
     \/ Testing(f) /\ ~Exists
  /\ Close(f)
  /\ UNCHANGED <<entryVars, catalog, history>>

-----------------------------------------------------------------------------
(* Connection settings.                                                      *)
SetUpInitially(f) ==
  /\ In(f, "session", {"initial"}) /\ flows[f].data = accepted /\ entry.state = "none"
  /\ Become(f, [flows[f] EXCEPT !.stage = "form", !.objects = catalog])
  /\ UNCHANGED <<entryVars, catalog, history>>

CreateEntry(f, mode, selected, auto) ==
  LET options == InitialOptions(mode, flows[f].objects, selected, auto)
  IN  /\ In(f, "form", {"initial"}) /\ selected \subseteq flows[f].objects
      /\ entry.state = "none"
      /\ entry' = [state |-> "not_loaded", data |-> flows[f].data, options |-> options,
                   version |-> 1]
      /\ Request("reload") /\ Close(f)
      /\ history' = [history EXCEPT !.off = mode,
           !.decided = [t \in Id |-> IF t \in selected THEN "chosen"
                                     ELSE IF t \in flows[f].objects THEN "refused" ELSE @[t]]]
      /\ UNCHANGED <<current, runtimes, phase, listeners, accepted, reauth, issues,
                     limits, orphaned, catalog>>

(* A loaded entry is updated only: its listener is to see the change; any    *)
(* other entry is reloaded as well.                                          *)
StoreSettings(f) ==
  /\ In(f, "session", {"reconfigure", "reauth"}) /\ flows[f].data = accepted /\ Exists
  /\ Update(flows[f].data, entry.options)
  /\ IF entry.state = "loaded" THEN UNCHANGED operations ELSE Request("reload")
  /\ reauth' = (reauth /\ flows[f].kind # "reauth")
  /\ history' = IF flows[f].kind = "reauth"
                THEN [history EXCEPT !.renewed = flows[f].data] ELSE history
  /\ Close(f)
  /\ UNCHANGED <<current, runtimes, phase, accepted, issues, limits, orphaned, catalog>>

-----------------------------------------------------------------------------
(* Options.                                                                  *)
ChooseMode(f, mode) ==
  /\ In(f, "form", {"general"}) /\ Exists
  /\ Store(OptionsOfMode(entry.options, mode)) /\ Close(f)
  /\ history' = [history EXCEPT !.off = mode]
  /\ UNCHANGED <<current, runtimes, operations, phase, accepted, reauth, issues, limits,
                 orphaned, catalog>>

SelectDevices(f, selected, auto) ==
  LET listed == ListedDevices(entry.options, flows[f].objects)
  IN  /\ In(f, "form", {"devices"}) /\ Exists /\ selected \subseteq listed
      /\ Store(OptionsSelecting(entry.options, flows[f].objects, selected, auto))
      /\ Close(f)
      /\ history' = [history EXCEPT
           !.decided = [t \in Id |-> IF t \in selected THEN "chosen"
                                     ELSE IF t \in listed THEN "refused" ELSE @[t]]]
      /\ UNCHANGED <<current, runtimes, operations, phase, accepted, reauth, issues,
                     limits, orphaned, catalog>>

(* Mutant: the repair issue of a deleted binding stays.                      *)
IssuesWithoutForgetting(t) == issues

IssuesWithout(t) == issues \ {t}

Reserved(targets) == [t \in Id |-> IF t \in targets THEN "exported" ELSE history.decided[t]]

DeleteBinding(f) ==
  /\ In(f, "form", {"delete"}) /\ Exists /\ flows[f].managed \in TargetsOf(InForce)
  /\ issues' = IssuesWithout(flows[f].managed)
  /\ Store(OptionsDeleting(entry.options, flows[f].managed)) /\ Close(f)
  /\ history' = [history EXCEPT !.decided = Reserved({flows[f].managed})]
  /\ UNCHANGED <<current, runtimes, operations, phase, accepted, reauth, limits,
                 orphaned, catalog>>

-----------------------------------------------------------------------------
(* The test of a binding against the controller, over the client of a loaded *)
(* and connected entry, and its storage.                                     *)

(* Mutant: a source may be selected twice.                                   *)
AnySource(source, except) == TRUE

SourceFree(source, except) ==
  \A b \in ToSet(InForce) : b.target = except \/ b.source # source

TargetFree(target, except) == target = except \/ target \notin TargetsOf(InForce)

BeginTest(f, source, target) ==
  /\ Connected /\ SourceFree(source, flows[f].managed)
  /\ Become(f, [flows[f] EXCEPT !.stage = "first", !.source = source, !.target = target,
                                !.client = current])
  /\ UNCHANGED <<entryVars, catalog, history>>

CreateTarget(f, source) ==
  In(f, "form", {"create"}) /\ BeginTest(f, source, None)

LinkTarget(f, source, target) ==
  /\ In(f, "form", {"link"})
  /\ target \in AvailableTargets(flows[f].objects, InForce)
  /\ BeginTest(f, source, target)

ChangeSource(f, source) ==
  /\ In(f, "form", {"change"}) /\ flows[f].managed \in TargetsOf(InForce)
  /\ BeginTest(f, source, flows[f].managed)

Rebind(f, target) ==
  \E b \in ToSet(InForce) :
    /\ In(f, "form", {"rebind"}) /\ b.target = flows[f].managed
    /\ target \in flows[f].objects \cap Exportable /\ TargetFree(target, flows[f].managed)
    /\ BeginTest(f, b.source, target)

Answering(f) == runtimes[flows[f].client].conn = "connected"

(* The state of an existing target suits.                                    *)
TargetRead(f) ==
  /\ flows[f].stage = "first" /\ flows[f].kind # "create" /\ Answering(f)
  /\ Become(f, [flows[f] EXCEPT !.stage = "second"])
  /\ UNCHANGED <<entryVars, catalog, history>>

(* The controller creates the object, or finds one of that name that the     *)
(* flow has not seen; its id must be free in the options of this moment.     *)
TargetCreated(f, id) ==
  /\ In(f, "first", {"create"}) /\ Answering(f) /\ id \notin flows[f].objects
  /\ catalog' = catalog \cup {id}
  /\ Become(f, IF TargetFree(id, None)
               THEN [flows[f] EXCEPT !.stage = "second", !.target = id]
               ELSE [flows[f] EXCEPT !.stage = "form", !.source = None, !.client = 0])
  /\ UNCHANGED <<entryVars, history>>

(* A request is refused, lost or not answered: an object may have been       *)
(* created all the same.                                                     *)
TestFails(f, created) ==
  /\ Testing(f) /\ Exists
  /\ created # {} => In(f, "first", {"create"}) /\ Answering(f)
  /\ catalog' = catalog \cup created
  /\ Become(f, [flows[f] EXCEPT !.stage = "form", !.source = None, !.target = None,
                                !.client = 0])
  /\ UNCHANGED <<entryVars, history>>

(* The binding is stored.  One that clashes with it is in force no longer; if *)
(* the manager has not taken that one up yet, nobody deletes its issue.       *)
BindingTested(f) ==
  LET flow    == flows[f]
      binding == [source |-> flow.source, target |-> flow.target]
  IN  /\ flow.stage = "second" /\ Answering(f) /\ Exists
      /\ IF flow.managed = None
         THEN Store(OptionsAdding(entry.options, binding)) /\ UNCHANGED issues
         ELSE /\ Store(OptionsReplacing(entry.options, flow.managed, binding))
              /\ issues' = IssuesWithout(flow.managed)
      /\ Close(f)
      /\ history' = [history EXCEPT
           !.overlapped = @ \/ \E g \in Flow \ {f} : Testing(g),
           !.decided = Reserved(TargetsOf(entry'.options.exports)
                                \cup ({flow.managed} \cap TargetsOf(InForce)))]
      /\ orphaned' = orphaned \cup ((TargetsOf(InForce) \ ExportTargetIds(entry'.options))
                                      \ TargetsOf(runtimes[flow.client].bindings))
      /\ UNCHANGED <<current, runtimes, operations, phase, accepted, reauth, limits, catalog>>

-----------------------------------------------------------------------------
NoOptions ==
  [off |-> None, exports |-> <<>>, lists |-> FALSE, imported |-> {}, excluded |-> {},
   auto |-> FALSE]

NoHistory ==
  [off |-> None, decided |-> [t \in Id |-> "nothing"], overlapped |-> FALSE,
   renewed |-> None]

(* Home Assistant starts, with or without an entry: it sets up a stored one. *)
InitWith(objects, settings, stored, bounds) ==
  /\ catalog = objects /\ accepted \in settings
  /\ entry \in {[state |-> "none", data |-> None, options |-> NoOptions, version |-> 0]} \cup
               {[state |-> "not_loaded", data |-> d, options |-> o, version |-> 1] :
                  d \in settings, o \in stored}
  /\ operations = IF entry.state = "none" THEN <<>> ELSE <<[kind |-> "reload", by |-> 0]>>
  /\ current = 0 /\ runtimes = <<>> /\ listeners = <<>> /\ phase = [step |-> "idle"]
  /\ reauth = FALSE /\ issues = {} /\ orphaned = {} /\ limits \in bounds
  /\ flows = [f \in Flow |-> Closed]
  /\ history = [NoHistory EXCEPT !.off = IF entry.state = "none" THEN None
                                        ELSE entry.options.off]

FlowStep(f) ==
  \/ \E kind \in {"general", "devices", "create", "link"} : OpenOptions(f, kind)
  \/ \E kind \in {"change", "rebind", "delete"} : OpenManaged(f, kind)
  \/ \E kind \in {"initial", "reconfigure", "reauth"}, data \in Setting :
       OpenSession(f, kind, data)
  \/ Discovered(f) \/ Abandon(f)
  \/ SetUpInitially(f) \/ StoreSettings(f)
  \/ \E mode \in OffMode : ChooseMode(f, mode)
  \/ \E selected \in SUBSET Id, auto \in BOOLEAN :
       \/ SelectDevices(f, selected, auto)
       \/ \E mode \in OffMode : CreateEntry(f, mode, selected, auto)
  \/ DeleteBinding(f)
  \/ \E s \in Source : CreateTarget(f, s) \/ ChangeSource(f, s)
  \/ \E s \in Source, t \in Exportable : LinkTarget(f, s, t)
  \/ \E t \in Exportable : Rebind(f, t) \/ TargetCreated(f, t)
  \/ TargetRead(f) \/ BindingTested(f)
  \/ \E created \in {{}} \cup {{t} : t \in Exportable \ catalog} : TestFails(f, created)

(* A call of the listener that does not wait runs within the update.         *)
Called == {l \in DOMAIN listeners : listeners[l].stage = "called"}

Next ==
  \/ /\ \E l \in DOMAIN listeners : (Called = {} \/ l \in Called) /\ Listener(l)
     /\ UNCHANGED <<flows, catalog, history>>
  \/ /\ Called = {}
     /\ \/ EntryStep /\ UNCHANGED <<flows, catalog, history>>
        \/ \E f \in Flow : FlowStep(f)

(* Home Assistant carries out what is requested, and a call of the listener  *)
(* goes on as soon as it may.                                                *)
Fairness ==
  /\ WF_vars(OperationStep /\ UNCHANGED <<flows, catalog, history>>)
  /\ WF_vars(\E l \in DOMAIN listeners : Listener(l) /\ UNCHANGED <<flows, catalog, history>>)

-----------------------------------------------------------------------------
(* Properties.                                                               *)

Loaded == entry.state = "loaded"

(* What each variable holds; the runtime in force, like the update listener, *)
(* is there from the middle of the set-up to the end of the unload.          *)
TypeOK ==
  /\ Exists => entry.data \in Setting /\ entry.options \in [
       off : OffMode, exports : Seq(Binding), lists : BOOLEAN,
       imported : SUBSET Id, excluded : SUBSET Id, auto : BOOLEAN]
  /\ current \in 0 .. Len(runtimes)
  /\ entry.state # "removed" => (current # 0 <=> Registered)
  /\ \A r \in DOMAIN runtimes :
       /\ runtimes[r].running \subseteq Component
       /\ runtimes[r].conn \in {"off", "connecting", "connected", "refused"}
  /\ \A l \in DOMAIN listeners :
       /\ listeners[l].rt \in DOMAIN runtimes
       /\ listeners[l].stage \in {"called", "queued", "reloading", "export", "entities", "done"}
  /\ \A i \in DOMAIN operations : operations[i].by \in 0 .. Len(listeners)
  /\ issues \subseteq Id /\ catalog \subseteq Id

(* Only the runtime of the entry has components in force, and an entry that  *)
(* is not loaded has none: a set-up that fails or is cancelled half way       *)
(* (__init__.py:122-129) and an unload leave nothing behind for the next      *)
(* set-up to meet.  The export subscriptions are exempt: a reconfiguration    *)
(* that outlives the unload makes them again (ExportManager).  An entry that  *)
(* is removed after it failed to unload keeps its runtime.                   *)
OneRuntimeRuns ==
  {r \in DOMAIN runtimes : runtimes[r].running \ {"export"} # {}}
    \subseteq IF Registered \/ entry.state = "removed" THEN {current} ELSE {}

(* Once the operations and the listener are through, a loaded entry runs     *)
(* with the settings and the options that are stored, whichever flows and    *)
(* operations overlapped (_async_entry_updated): the settings are those of   *)
(* the runtime, the options are recorded as applied, and the export manager  *)
(* has their bindings.  The entities show them too, unless the options were  *)
(* left and came back while a call of the listener was under way: that call  *)
(* captured the same options in an older version, the reconcile read those   *)
(* in between, and no later call finds a difference.                         *)
StoredTakesEffect ==
  Quiet /\ Loaded =>
    LET r == runtimes[current]
    IN  /\ r.settings = entry.data
        /\ r.options = entry.options /\ r.bindings = InForce
        /\ r.version = entry.version => r.shown = entry.options

(* What the user decided in one flow outlives the others: the off mode, and  *)
(* for each object the last decision to show it, not to show it, or to write *)
(* to it, which keeps it from being imported even when the binding is gone   *)
(* (_options_with_export_bindings, async_step_devices).                      *)
WishesHold ==
  Exists =>
    /\ entry.options.off = history.off
    /\ \A t \in Id :
         /\ history.decided[t] = "chosen" => Imports(entry.options, t)
         /\ history.decided[t] \in {"refused", "exported"} => ~Imports(entry.options, t)

(* Every stored binding is in force, unless one was stored while another     *)
(* flow was testing its own: the checks are repeated before the test, and    *)
(* only for a created target after it.                                       *)
DuplicatesOnlyFromOverlappingTests ==
  Exists /\ ~history.overlapped => InForce = entry.options.exports

(* A repair issue belongs to a binding in force once everything is through,  *)
(* and none outlives the entry, unless a reload took the place of the        *)
(* reconfiguration that would have deleted it, the manager that raised it    *)
(* outlived its entry, or the binding was displaced by a clashing one before *)
(* the manager had taken it up.                                              *)
IssuesBelongToBindings ==
  LET kept == issues \ orphaned
  IN  /\ Quiet /\ Exists => kept \subseteq ExportTargetIds(entry.options)
      /\ Quiet /\ entry.state = "removed"
           /\ (\A r \in DOMAIN runtimes : "export" \notin runtimes[r].running) => kept = {}

(* Every operation and every call of the listener ends: a reload that the    *)
(* listener awaits under the options_lock never waits for that lock.         *)
EverythingEnds == []<>Quiet

(* A reauthentication with credentials that the controller accepts ends with *)
(* the entry connected or about to connect.                                  *)
ReauthReconnects ==
  Quiet /\ Loaded /\ history.renewed = accepted => runtimes[current].conn # "refused"
=============================================================================
