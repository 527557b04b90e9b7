-------------------------- MODULE ObjectReconciler --------------------------
(***************************************************************************)
(* How the entities of one Home Assistant platform follow the controller's *)
(* objects and the user's import options: ZontObjectEntityReconciler        *)
(* (object_platform.py), the update listener of the config entry           *)
(* (_async_entry_updated), and the unload of the entry.                     *)
(*                                                                         *)
(* A reconcile is a task; two kinds exist.  Task 0 is the one the update    *)
(* listener awaits, of which options_lock admits one at a time; the others *)
(* are background tasks scheduled by the coordinator's listener call.       *)
(*                                                                         *)
(* Abstracted: an import option is the set of excluded identities; the     *)
(* snapshot is the set of identities a platform could offer; an entity is   *)
(* its identity.  External: Home Assistant adds an entity at once and may   *)
(* take its time to remove one.                                            *)
(***************************************************************************)
EXTENDS Integers, Sequences

CONSTANTS
  Identity,      \* identities of entities
  NoIdentity,
  MaxUpdates,    \* bound: changes of the snapshot
  MaxOptions     \* bound: changes of the options

ASSUME ReconcilerAssumption ==
  /\ NoIdentity \notin Identity
  /\ MaxUpdates \in Nat /\ MaxOptions \in Nat

(* A scheduled task per listener call at most; 0 is the awaited reconcile.  *)
Scheduled == 1 .. MaxUpdates + MaxOptions
Task == {0} \cup Scheduled
NoTask == -1

VARIABLES
  objects,       \* identities the coordinator's snapshot offers
  excluded,      \* entry.options
  applied,       \* runtime_data.options
  edits,         \* calls of the update listener that have not begun
  listener,      \* program counter of the update listener, under options_lock
  read,          \* the options it read when it began
  entities,      \* _entities
  live,          \* entities Home Assistant has of each identity
  stopped,       \* _stopped
  unload,        \* program counter of async_shutdown
  scheduled,     \* _scheduled_task
  pc, holder, queue,   \* the reconcile tasks and _lock
  plan,          \* what the last reconcile to hold the lock found desired
  removing,      \* the entity the holder of the lock is removing
  ended,         \* scheduled tasks whose done callback has not run
  tasks, updates, changes

lockVars    == <<entities, live, holder, plan, removing>>
optionVars  == <<excluded, applied, edits, listener, read, changes>>
sourceVars  == <<objects, updates>>
stopVars    == <<stopped, unload>>
taskVars    == <<pc, queue, scheduled, ended, tasks>>
vars        == <<lockVars, optionVars, sourceVars, stopVars, taskVars>>

TypeOK ==
  /\ objects \subseteq Identity /\ entities \subseteq Identity
  /\ plan \subseteq Identity
  /\ {excluded, applied, read} \subseteq SUBSET Identity
  /\ edits \in 0 .. MaxOptions
  /\ listener \in {"idle", "exporting", "reconciling"}
  /\ live \in [Identity -> Nat]
  /\ stopped \in BOOLEAN
  /\ unload \in {"no", "joining", "done"}
  /\ scheduled \in {NoTask} \cup Scheduled
  /\ pc \in [Task -> {"none", "created", "waiting", "removing", "done"}]
  /\ holder \in {NoTask} \cup Task
  /\ queue \in Seq(Task)
  /\ removing \in Identity \cup {NoIdentity}
  /\ ended \subseteq Scheduled
  /\ tasks \in 0 .. MaxUpdates + MaxOptions
  /\ updates \in 0 .. MaxUpdates /\ changes \in 0 .. MaxOptions

Init ==
  /\ objects = {} /\ entities = {} /\ plan = {}
  /\ excluded = {} /\ applied = {} /\ read = {}
  /\ edits = 0 /\ listener = "idle"
  /\ live = [i \in Identity |-> 0]
  /\ stopped = FALSE /\ unload = "no"
  /\ scheduled = NoTask
  /\ pc = [t \in Task |-> "none"]
  /\ holder = NoTask /\ queue = <<>>
  /\ removing = NoIdentity /\ ended = {}
  /\ tasks = 0 /\ updates = 0 /\ changes = 0

-----------------------------------------------------------------------------
(* What the platform's factories describe: the objects of the snapshot that *)
(* the options import.                                                     *)
Desired == objects \ excluded

Busy(t) == t # NoTask /\ pc[t] \in {"created", "waiting", "removing"}

(* async_schedule_reconcile: dropped while a scheduled reconcile runs.     *)
Schedule ==
  IF stopped \/ Busy(scheduled)
    THEN UNCHANGED <<pc, scheduled, tasks>>
    ELSE /\ tasks' = tasks + 1
         /\ scheduled' = tasks + 1
         /\ pc' = [pc EXCEPT ![tasks + 1] = "created"]

(* Mutant: the awaited reconcile gets a done callback too.                 *)
EndOfAny(t) ==
  /\ pc' = [pc EXCEPT ![t] = "done"]
  /\ ended' = ended \cup {t}

(* The end of a task, and the done callback that a scheduled one leaves.   *)
End(t) ==
  /\ pc' = [pc EXCEPT ![t] = "done"]
  /\ ended' = IF t = 0 THEN ended ELSE ended \cup {t}

(* The task that holds the lock goes on with the removals its plan calls    *)
(* for, one await each, and then adds what is missing and leaves.          *)
Proceed(t, desired, present) ==
  IF entities \subseteq desired
    THEN /\ entities' = desired
         /\ live' = [i \in Identity |->
                       present[i] + IF i \in desired \ entities THEN 1 ELSE 0]
         /\ holder' = NoTask /\ removing' = NoIdentity
         /\ End(t)
    ELSE /\ \E i \in entities \ desired :
              entities' = entities \ {i} /\ removing' = i
         /\ live' = present
         /\ holder' = t
         /\ pc' = [pc EXCEPT ![t] = "removing"]
         /\ UNCHANGED ended

-----------------------------------------------------------------------------
(* async_reconcile.                                                        *)

Reconcile(t) ==
  /\ pc[t] = "created"
  /\ IF stopped
       THEN End(t) /\ UNCHANGED queue
       ELSE /\ pc' = [pc EXCEPT ![t] = "waiting"]
            /\ queue' = Append(queue, t)
            /\ UNCHANGED ended
  /\ UNCHANGED <<lockVars, optionVars, sourceVars, stopVars, scheduled, tasks>>

(* Mutant: a waiting reconcile enters although another one removes.        *)
EnterUnlocked(t) ==
  /\ queue # <<>> /\ Head(queue) = t
  /\ queue' = Tail(queue)
  /\ plan' = Desired
  /\ Proceed(t, Desired, live)
  /\ UNCHANGED <<optionVars, sourceVars, stopVars, scheduled, tasks>>

Enter(t) ==
  /\ holder = NoTask /\ queue # <<>> /\ Head(queue) = t
  /\ queue' = Tail(queue)
  /\ IF stopped
       THEN End(t) /\ UNCHANGED lockVars
       ELSE plan' = Desired /\ Proceed(t, Desired, live)
  /\ UNCHANGED <<optionVars, sourceVars, stopVars, scheduled, tasks>>

EntityRemoved(t) ==
  /\ pc[t] = "removing"
  /\ Proceed(t, plan, [live EXCEPT ![removing] = @ - 1])
  /\ UNCHANGED <<plan, optionVars, sourceVars, stopVars, queue, scheduled, tasks>>

(* Mutant: the callback of any finished task forgets the scheduled one.    *)
ScheduledTaskDoneForgets(t) ==
  /\ t \in ended
  /\ ended' = ended \ {t}
  /\ scheduled' = NoTask
  /\ UNCHANGED <<lockVars, optionVars, sourceVars, stopVars, pc, queue, tasks>>

ScheduledTaskDone(t) ==
  /\ t \in ended
  /\ ended' = ended \ {t}
  /\ scheduled' = IF scheduled = t THEN NoTask ELSE scheduled
  /\ UNCHANGED <<lockVars, optionVars, sourceVars, stopVars, pc, queue, tasks>>

-----------------------------------------------------------------------------
(* The coordinator publishes a changed snapshot and calls its listeners.   *)
SnapshotChanges ==
  /\ updates < MaxUpdates
  /\ objects' \in (SUBSET Identity) \ {objects}
  /\ updates' = updates + 1
  /\ Schedule
  /\ UNCHANGED <<lockVars, optionVars, stopVars, queue, ended>>

(* The user saves options; Home Assistant calls the update listener.       *)
SaveOptions ==
  /\ changes < MaxOptions
  /\ excluded' \in (SUBSET Identity) \ {excluded}
  /\ changes' = changes + 1 /\ edits' = edits + 1
  /\ UNCHANGED <<lockVars, sourceVars, stopVars, taskVars, applied, listener, read>>

ListenerBegins ==
  /\ listener = "idle" /\ edits > 0
  /\ edits' = edits - 1
  /\ IF excluded = applied
       THEN UNCHANGED <<listener, read>>
       ELSE listener' = "exporting" /\ read' = excluded
  /\ UNCHANGED <<lockVars, sourceVars, stopVars, taskVars, excluded, applied, changes>>

(* The export is reconfigured; async_apply_options calls the coordinator's *)
(* listeners, and the manager starts the reconcile that is awaited; once    *)
(* the manager is shut down it knows no reconciler.                        *)
ExportReconfigured ==
  /\ listener = "exporting"
  /\ listener' = "reconciling"
  /\ LET reconcile == IF unload = "no" THEN "created" ELSE "done"
     IN  IF stopped \/ Busy(scheduled)
           THEN /\ pc' = [pc EXCEPT ![0] = reconcile]
                /\ UNCHANGED <<scheduled, tasks>>
           ELSE /\ pc' = [pc EXCEPT ![0] = reconcile, ![tasks + 1] = "created"]
                /\ scheduled' = tasks + 1 /\ tasks' = tasks + 1
  /\ UNCHANGED <<lockVars, sourceVars, stopVars, queue, ended,
                 excluded, applied, edits, read, changes>>

ListenerEnds ==
  /\ listener = "reconciling" /\ pc[0] = "done"
  /\ listener' = "idle"
  /\ applied' = read
  /\ pc' = [pc EXCEPT ![0] = "none"]
  /\ UNCHANGED <<lockVars, sourceVars, stopVars, queue, scheduled, ended, tasks,
                 excluded, edits, read, changes>>

-----------------------------------------------------------------------------
(* async_shutdown: the scheduled task is cancelled and awaited.            *)
Unload ==
  /\ unload = "no"
  /\ stopped' = TRUE
  /\ unload' = IF Busy(scheduled) THEN "joining" ELSE "done"
  /\ scheduled' = IF Busy(scheduled) THEN scheduled ELSE NoTask
  /\ UNCHANGED <<lockVars, optionVars, sourceVars, pc, queue, ended, tasks>>

(* A cancelled task no longer waits for the lock.                          *)
Without(q, t) ==
  IF \E i \in DOMAIN q : q[i] = t
    THEN LET i == CHOOSE j \in DOMAIN q : q[j] = t
         IN  SubSeq(q, 1, i - 1) \o SubSeq(q, i + 1, Len(q))
    ELSE q

(* Mutant: a task cancelled in a removal does not release the lock.         *)
CancelledTaskKeepsLock ==
  /\ unload = "joining"
  /\ unload' = "done" /\ scheduled' = NoTask
  /\ End(scheduled)
  /\ queue' = Without(queue, scheduled)
  /\ UNCHANGED <<lockVars, optionVars, sourceVars, stopped, tasks>>

(* The cancelled task leaves: the lock's queue, or the removal it awaits,   *)
(* which Home Assistant may have carried out or not.                       *)
CancelledTaskEnds ==
  /\ unload = "joining"
  /\ unload' = "done" /\ scheduled' = NoTask
  /\ End(scheduled)
  /\ queue' = Without(queue, scheduled)
  /\ IF pc[scheduled] = "removing"
       THEN /\ holder' = NoTask /\ removing' = NoIdentity
            /\ live' \in {live, [live EXCEPT ![removing] = @ - 1]}
            /\ UNCHANGED <<entities, plan>>
       ELSE UNCHANGED lockVars
  /\ UNCHANGED <<optionVars, sourceVars, stopped, tasks>>

-----------------------------------------------------------------------------
Cancelled(t) == unload = "joining" /\ t = scheduled

TaskStep(t) ==
  ~Cancelled(t) /\ (Reconcile(t) \/ Enter(t) \/ EntityRemoved(t))

ListenerStep == ListenerBegins \/ ExportReconfigured \/ ListenerEnds

Next ==
  \/ SnapshotChanges \/ SaveOptions \/ ListenerStep
  \/ Unload \/ CancelledTaskEnds
  \/ \E t \in Task : TaskStep(t) \/ ScheduledTaskDone(t)

Spec == Init /\ [][Next]_vars

(* The event loop runs every task that can run; Home Assistant's removals   *)
(* and the reconfiguration of the export end.                              *)
FairSpec ==
  /\ Spec
  /\ WF_vars(ListenerStep) /\ WF_vars(CancelledTaskEnds)
  /\ \A t \in Task : WF_vars(TaskStep(t)) /\ WF_vars(ScheduledTaskDone(t))

-----------------------------------------------------------------------------
(* While no reconcile is under way, the platform holds exactly what the     *)
(* last one planned, and knows every entity Home Assistant has of it: the   *)
(* awaited and the scheduled reconciles do not undo each other's work.     *)
Settled ==
  holder = NoTask /\ ~stopped =>
    /\ entities = plan
    /\ \A i \in Identity : live[i] = IF i \in entities THEN 1 ELSE 0

(* No identity ever has two entities, also while one of them is still      *)
(* being removed, and also through an unload.                              *)
NoDuplicateEntity == \A i \in Identity : live[i] <= 1

(* Once async_shutdown has returned, no scheduled reconcile is left that    *)
(* could still touch the platform ("Stop scheduled reconciliation work").   *)
NoScheduledWorkAfterUnload ==
  unload = "done" => \A t \in Scheduled : ~Busy(t)

-----------------------------------------------------------------------------
(* Every update listener call returns, whatever an unload does meanwhile:   *)
(* options_lock, the lock of the platform and the cancelled task never     *)
(* leave the awaited reconcile without its turn.                           *)
ListenersReturn == edits > 0 \/ listener # "idle" ~> edits = 0 /\ listener = "idle"

(* When the snapshot and the options no longer change, the platform comes   *)
(* to show exactly what they select ("Keep one entity platform aligned").   *)
BecomesAligned == <>[](entities = Desired \/ stopped)
=============================================================================
