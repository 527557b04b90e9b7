----------------------------- MODULE ConfigEntry -----------------------------
(***************************************************************************)
(* The life of a config entry (__init__.py, runtime.py, connection.py):      *)
(* set-up, unload and reload with the runtime resources that each set-up     *)
(* makes, the calls of the update listener _async_entry_updated, and the     *)
(* connection with its refusal of the credentials.                           *)
(*                                                                         *)
(* Home Assistant runs the operations on an entry one at a time, under the   *)
(* entry's setup_lock: the head of `operations` is the one that runs.  The   *)
(* calls of the listener that captured one runtime run one at a time, in     *)
(* their order, under that runtime's options_lock.                           *)
(*                                                                         *)
(* Abstracted: what the coordinator, the export manager and the platforms do *)
(* (SnapshotCoordinator, ExportManager, ObjectReconciler); a reconfiguration *)
(* and a reconcile are the waits they are to the listener.  External: Home   *)
(* Assistant's operations, the controller and the credentials it accepts.    *)
(***************************************************************************)
EXTENDS EntryOptions

CONSTANTS
  Setting,     \* host, user name and password, as one value
  MaxRuntimes  \* bound on the set-ups of a behaviour

VARIABLES
  entry,       \* state, data, options, and how often options were stored
  current,     \* the number of entry.runtime_data, 0 where there is none
  runtimes,    \* the runtime of each set-up
  operations,  \* Home Assistant's operations, the first one under way
  phase,       \* where the first one is
  listeners,   \* the calls of the update listener
  accepted,    \* the settings that the controller accepts
  reauth,      \* whether Home Assistant shows a reauthentication flow
  issues,      \* targets whose binding has a repair issue
  limits,      \* what may still happen in this behaviour
  orphaned     \* history: targets whose repair issue nobody is to delete

entryVars == <<entry, current, runtimes, operations, phase, listeners, accepted,
               reauth, issues, limits, orphaned>>

Component == {"entities", "export", "coordinator", "connection"}
ShutdownOrder == <<"entities", "export", "coordinator", "connection">>

Spend(what) == limits[what] > 0 /\ limits' = [limits EXCEPT ![what] = @ - 1]

-----------------------------------------------------------------------------
(* The listener is registered from the middle of the set-up until the        *)
(* unload, or the failed set-up, is over.                                    *)
Registered == entry.state \in {"setup", "loaded", "unloading", "failed_unload"}

(* async_update_entry: what is stored, and the call of the listener if        *)
(* anything changed.  The call captures entry.runtime_data, and runs at once *)
(* ("called") unless it has to wait for the options_lock ("queued").         *)
LockFree ==
  \A l \in DOMAIN listeners :
    listeners[l].rt = current => listeners[l].stage = "done"

Update(data, options) ==
  LET changed == data # entry.data \/ options # entry.options
  IN  /\ entry' = [entry EXCEPT !.data = data, !.options = options,
                                !.version = IF options # entry.options THEN @ + 1 ELSE @]
      /\ listeners' = IF changed /\ Registered
                      THEN Append(listeners,
                             [rt |-> current, options |-> options, version |-> 0,
                              stage |-> IF LockFree THEN "called" ELSE "queued"])
                      ELSE listeners

Store(options) == Update(entry.data, options)

Request(kind) ==
  operations' = Append(operations, [kind |-> kind, by |-> 0])

Connected == entry.state = "loaded" /\ runtimes[current].conn = "connected"

-----------------------------------------------------------------------------
(* Operations: reload (which also serves for the set-up of an entry that is  *)
(* not loaded) and remove.                                                   *)
Operation == Head(operations)

Done(calls) ==
  IF Operation.by = 0 THEN calls ELSE [calls EXCEPT ![Operation.by].stage = "done"]

EndOperation ==
  /\ operations' = Tail(operations) /\ phase' = [step |-> "idle"]
  /\ listeners' = Done(listeners)

NewRuntime ==
  [settings |-> entry.data, options |-> entry.options, version |-> entry.version,
   bindings |-> ExportBindings(entry.options.exports), shown |-> entry.options,
   started |-> FALSE, running |-> {"entities"}, conn |-> "off"]

BeginUnload ==
  /\ operations # <<>> /\ phase.step = "idle" /\ entry.state = "loaded"
  /\ entry' = [entry EXCEPT !.state = "unloading"]
  /\ phase' = [step |-> "platforms"]
  /\ UNCHANGED <<current, runtimes, operations, listeners, accepted, reauth, issues,
                 limits, orphaned>>

(* async_setup_entry up to the set-up of the platforms, all in one turn.     *)
BeginSetup ==
  /\ operations # <<>> /\ phase.step = "idle" /\ Operation.kind = "reload"
  /\ entry.state \in {"not_loaded", "error"} /\ Len(runtimes) < MaxRuntimes
  /\ entry' = [entry EXCEPT !.state = "setup"]
  /\ runtimes' = Append(runtimes, NewRuntime) /\ current' = Len(runtimes) + 1
  /\ phase' = [step |-> "setup"]
  /\ UNCHANGED <<operations, listeners, accepted, reauth, issues, limits, orphaned>>

(* An entry that failed to unload is not reloaded; async_remove_entry        *)
(* deletes the issues of the bindings in force.                              *)
RefuseReload ==
  /\ operations # <<>> /\ phase.step = "idle" /\ Operation.kind = "reload"
  /\ entry.state \in {"failed_unload", "removed"}
  /\ EndOperation
  /\ UNCHANGED <<entry, current, runtimes, accepted, reauth, issues, limits, orphaned>>

RemoveEntry ==
  /\ operations # <<>> /\ phase.step = "idle" /\ Operation.kind = "remove"
  /\ entry.state \in {"not_loaded", "error", "failed_unload"}
  /\ entry' = [entry EXCEPT !.state = "removed"]
  /\ issues' = issues \ ExportTargetIds(entry.options)
  /\ EndOperation
  /\ UNCHANGED <<current, runtimes, accepted, reauth, limits, orphaned>>

(* Mutant: the unload waits for the calls of the listener.                   *)
UnloadWaits ==
  /\ phase.step = "platforms" /\ LockFree
  /\ phase' = [step |-> "shutdown", next |-> 1]
  /\ UNCHANGED <<entry, current, runtimes, operations, listeners, accepted, reauth,
                 issues, limits, orphaned>>

PlatformsUnloaded ==
  /\ phase.step = "platforms"
  /\ phase' = [step |-> "shutdown", next |-> 1]
  /\ UNCHANGED <<entry, current, runtimes, operations, listeners, accepted, reauth,
                 issues, limits, orphaned>>

(* A removal goes on without them.                                           *)
PlatformsStay ==
  /\ phase.step = "platforms" /\ Spend("failures")
  /\ entry' = [entry EXCEPT !.state = "failed_unload"]
  /\ IF Operation.kind = "reload" THEN EndOperation
     ELSE phase' = [step |-> "idle"] /\ UNCHANGED <<operations, listeners>>
  /\ UNCHANGED <<current, runtimes, accepted, reauth, issues, orphaned>>

(* The platforms are there: coordinator, export manager and connection start *)
(* in the same turn.                                                         *)
SetupSucceeds ==
  /\ phase.step = "setup"
  /\ entry' = [entry EXCEPT !.state = "loaded"]
  /\ runtimes' = [runtimes EXCEPT
       ![current].started = TRUE, ![current].conn = "connecting",
       ![current].running = {"entities", "coordinator", "connection"} \cup
                            IF runtimes[current].bindings = <<>> THEN {} ELSE {"export"}]
  /\ EndOperation
  /\ UNCHANGED <<current, accepted, reauth, issues, limits, orphaned>>

(* Mutant: a set-up that fails leaves what it started.                       *)
SetupFailsWithoutShutdown ==
  /\ phase.step = "setup" /\ Spend("failures")
  /\ entry' = [entry EXCEPT !.state = "error"] /\ current' = 0
  /\ EndOperation
  /\ UNCHANGED <<runtimes, accepted, reauth, issues, orphaned>>

(* The set-up of the platforms fails or is cancelled.                        *)
SetupFails ==
  /\ phase.step = "setup" /\ Spend("failures")
  /\ phase' = [step |-> "shutdown", next |-> 1]
  /\ UNCHANGED <<entry, current, runtimes, operations, listeners, accepted, reauth,
                 issues, orphaned>>

(* ZontRuntimeData.async_shutdown, of an unload or of a failed set-up.       *)
ShutdownStep ==
  LET c == ShutdownOrder[phase.next]
  IN  /\ phase.step = "shutdown"
      /\ runtimes' = [runtimes EXCEPT
           ![current].running = @ \ {c},
           ![current].conn = IF c = "connection" THEN "off" ELSE @]
      /\ phase' = IF c = "connection" THEN [step |-> "released"]
                  ELSE [phase EXCEPT !.next = @ + 1]
      /\ UNCHANGED <<entry, current, operations, listeners, accepted, reauth,
                     issues, limits, orphaned>>

(* Mutant: the runtime data outlives the unload.                             *)
UnloadedWithRuntime ==
  /\ phase.step = "released" /\ phase' = [step |-> "idle"]
  /\ entry' = [entry EXCEPT !.state = IF @ = "unloading" THEN "not_loaded" ELSE "error"]
  /\ UNCHANGED <<current, runtimes, operations, listeners, accepted, reauth, issues, limits,
                 orphaned>>

(* The listener is removed; a reload goes on with the set-up.                *)
Unloaded ==
  /\ phase.step = "released" /\ current' = 0
  /\ IF entry.state = "unloading"
     THEN /\ entry' = [entry EXCEPT !.state = "not_loaded"]
          /\ phase' = [step |-> "idle"] /\ UNCHANGED <<operations, listeners>>
     ELSE entry' = [entry EXCEPT !.state = "error"] /\ EndOperation
  /\ UNCHANGED <<runtimes, accepted, reauth, issues, limits, orphaned>>

UserReloads ==
  /\ entry.state \notin {"none", "removed"} /\ Spend("operations") /\ Request("reload")
  /\ UNCHANGED <<entry, current, runtimes, phase, listeners, accepted, reauth,
                 issues, orphaned>>

UserRemoves ==
  /\ entry.state \notin {"none", "removed"} /\ Spend("operations")
  /\ \A i \in DOMAIN operations : operations[i].kind # "remove"
  /\ Request("remove")
  /\ UNCHANGED <<entry, current, runtimes, phase, listeners, accepted, reauth,
                 issues, orphaned>>

-----------------------------------------------------------------------------
(* The update listener.                                                      *)

(* Mutant: the listeners of one runtime do not wait for each other.          *)
HoldsNoLock(l) == TRUE

HasLock(l) ==
  \A k \in 1 .. l - 1 : listeners[k].rt = listeners[l].rt => listeners[k].stage = "done"

RuntimeOf(l) == runtimes[listeners[l].rt]

At(l, stages) == listeners[l].stage \in stages /\ HasLock(l)

Starts(l) == At(l, {"called", "queued"})

Move(l, stage) == listeners' = [listeners EXCEPT ![l].stage = stage]

(* Mutant: changed settings are treated like options.                        *)
NeverReloads(l) == FALSE

SettingsChanged(l) == entry.data # RuntimeOf(l).settings

(* Other settings: a reload, which waits for the setup_lock; nothing is      *)
(* reconfigured, even if the options have changed as well.                   *)
ListenerReloads(l) ==
  /\ Starts(l) /\ SettingsChanged(l)
  /\ operations' = Append(operations, [kind |-> "reload", by |-> l])
  /\ Move(l, "reloading")
  /\ orphaned' = orphaned \cup
       (TargetsOf(RuntimeOf(l).bindings) \ ExportTargetIds(entry.options))
  /\ UNCHANGED <<entry, current, runtimes, phase, accepted, reauth, issues, limits>>

ListenerReturns(l) ==
  /\ Starts(l) /\ ~SettingsChanged(l) /\ entry.options = RuntimeOf(l).options
  /\ Move(l, "done")
  /\ UNCHANGED <<entry, current, runtimes, operations, phase, accepted, reauth,
                 issues, limits, orphaned>>

(* The options are captured; the reconfiguration waits for _sync_lock.       *)
ListenerBegins(l) ==
  /\ Starts(l) /\ ~SettingsChanged(l) /\ entry.options # RuntimeOf(l).options
  /\ listeners' = [listeners EXCEPT ![l] = [@ EXCEPT !.stage = "export",
                     !.options = entry.options, !.version = entry.version]]
  /\ UNCHANGED <<entry, current, runtimes, operations, phase, accepted, reauth,
                 issues, limits, orphaned>>

(* async_reconfigure, then the coordinator; the reconcile that follows reads *)
(* the options as they are now.  A manager that was started subscribes again *)
(* even after its shutdown.                                                  *)
ExportReconfigured(l) ==
  LET r        == RuntimeOf(l)
      bindings == ExportBindings(listeners[l].options.exports)
      changed  == {b.target : b \in (ToSet(bindings) \ ToSet(r.bindings)) \cup
                                    (ToSet(r.bindings) \ ToSet(bindings))}
  IN  /\ At(l, {"export"})
      /\ runtimes' = [runtimes EXCEPT ![listeners[l].rt] =
           [r EXCEPT !.bindings = bindings, !.shown = entry.options,
                     !.running = IF bindings = r.bindings THEN @
                                 ELSE IF bindings = <<>> THEN @ \ {"export"}
                                 ELSE IF r.started THEN @ \cup {"export"} ELSE @]]
      /\ issues' = issues \ changed
      /\ Move(l, "entities")
      /\ UNCHANGED <<entry, current, operations, phase, accepted, reauth, limits, orphaned>>

(* Mutant: the options stored as applied are those of the end.               *)
AppliedAtEnd(l) == [options |-> entry.options, version |-> entry.version]

Applied(l) == [options |-> listeners[l].options, version |-> listeners[l].version]

ListenerEnds(l) ==
  /\ At(l, {"entities"})
  /\ runtimes' = [runtimes EXCEPT ![listeners[l].rt] =
       [@ EXCEPT !.options = Applied(l).options, !.version = Applied(l).version]]
  /\ Move(l, "done")
  /\ UNCHANGED <<entry, current, operations, phase, accepted, reauth, issues,
                 limits, orphaned>>

Listener(l) ==
  \/ ListenerReloads(l) \/ ListenerReturns(l) \/ ListenerBegins(l)
  \/ ExportReconfigured(l) \/ ListenerEnds(l)

-----------------------------------------------------------------------------
(* The connection and the export manager of the current runtime.             *)
Connection(states) ==
  current # 0 /\ runtimes[current].conn \in states

Connect ==
  /\ Connection({"connecting"}) /\ runtimes[current].settings = accepted
  /\ runtimes' = [runtimes EXCEPT ![current].conn = "connected"]
  /\ UNCHANGED <<entry, current, operations, phase, listeners, accepted, reauth,
                 issues, limits, orphaned>>

(* The supervisor ends; the user is asked for credentials.                   *)
Refuse ==
  /\ Connection({"connecting"}) /\ runtimes[current].settings # accepted
  /\ runtimes' = [runtimes EXCEPT ![current].conn = "refused"]
  /\ reauth' = TRUE
  /\ UNCHANGED <<entry, current, operations, phase, listeners, accepted, issues,
                 limits, orphaned>>

(* The controller gets other credentials, or its old ones back.              *)
ControllerChanges(s) ==
  /\ s # accepted /\ accepted' = s /\ Spend("changes")
  /\ runtimes' = IF Connection({"connected"})
                 THEN [runtimes EXCEPT ![current].conn = "connecting"] ELSE runtimes
  /\ UNCHANGED <<entry, current, operations, phase, listeners, reauth, issues, orphaned>>

(* A manager that a reconfiguration revived after its shutdown still has     *)
(* subscriptions, but raises an issue, which no other manager knows of, only  *)
(* from a job that was under way at the shutdown.  Which jobs those are is    *)
(* not kept here: it may raise one at any time.                              *)
ExportFails(r, t) ==
  /\ "export" \in runtimes[r].running /\ t \in TargetsOf(runtimes[r].bindings)
  /\ t \notin issues /\ Spend("issues") /\ issues' = issues \cup {t}
  /\ orphaned' = IF r = current THEN orphaned ELSE orphaned \cup {t}
  /\ UNCHANGED <<entry, current, runtimes, operations, phase, listeners, accepted, reauth>>

ExportWorks(t) ==
  /\ Connected /\ t \in issues /\ t \in TargetsOf(runtimes[current].bindings)
  /\ issues' = issues \ {t}
  /\ UNCHANGED <<entry, current, runtimes, operations, phase, listeners, accepted,
                 reauth, limits, orphaned>>

-----------------------------------------------------------------------------
OperationStep ==
  \/ BeginUnload \/ BeginSetup \/ RefuseReload \/ RemoveEntry
  \/ PlatformsUnloaded \/ SetupSucceeds \/ ShutdownStep \/ Unloaded

EntryStep ==
  \/ OperationStep \/ PlatformsStay \/ SetupFails
  \/ UserReloads \/ UserRemoves
  \/ Connect \/ Refuse
  \/ \E s \in Setting : ControllerChanges(s)
  \/ \E t \in Id : ExportWorks(t) \/ \E r \in DOMAIN runtimes : ExportFails(r, t)

Quiet ==
  operations = <<>> /\ \A l \in DOMAIN listeners : listeners[l].stage = "done"
=============================================================================
