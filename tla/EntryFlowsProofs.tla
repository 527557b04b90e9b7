-------------------------- MODULE EntryFlowsProofs --------------------------
(***************************************************************************)
(* Proofs about EntryFlows for any numbers of flows, objects, sources and    *)
(* set-ups: one runtime at most is in force (OneRuntimeRuns), what the user  *)
(* decided in one flow outlives the others (WishesHold), and stored bindings *)
(* clash only when two tests overlapped.                                     *)
(*                                                                         *)
(* The first argument is an inductive invariant, LifeInv, over the state of  *)
(* the entry, the phase of the operation under way and the runtimes.  The    *)
(* flows and the listener change none of these except the export             *)
(* subscriptions, so that most steps are handled by UntouchedLife.           *)
(* The second is ChoicesInv, what the options and the open forms contain,    *)
(* and DistinctInv: what a form is about to store clashes with nothing in    *)
(* force, unless another test began meanwhile.                               *)
(***************************************************************************)
EXTENDS EntryFlows, EntryOptionsProofs

Initially(objects, settings, stored, bounds) ==
  InitWith(objects, settings, stored, bounds) /\ [][Next]_vars

EntryState ==
  {"none", "not_loaded", "setup", "loaded", "unloading", "failed_unload", "error",
   "removed"}

(* The runtimes are a sequence of records with a set of components.          *)
RuntimesInv ==
  /\ \E S : runtimes \in Seq(S)
  /\ \A r \in DOMAIN runtimes :
       "running" \in DOMAIN runtimes[r] /\ runtimes[r].running \subseteq Component

(* The state of the entry goes with the phase of the operation under way.    *)
EntryInv ==
  /\ "state" \in DOMAIN entry /\ entry.state \in EntryState
  /\ current \in 0 .. Len(runtimes)
  /\ entry.state = "removed" \/ (current # 0 <=> Registered)

PhaseInv ==
  \/ phase \in [step : {"idle"}] /\ entry.state \notin {"setup", "unloading"}
  \/ phase \in [step : {"setup"}] /\ entry.state = "setup"
  \/ phase \in [step : {"platforms"}] /\ entry.state = "unloading"
  \/ phase \in [step : {"shutdown"}, next : 1 .. 4]
       /\ entry.state \in {"setup", "unloading"}
  \/ phase \in [step : {"released"}] /\ entry.state \in {"setup", "unloading"}

(* What the shutdown has stopped is not in force any more.                   *)
Stopped ==
  IF phase.step = "released" THEN Component
  ELSE IF phase.step = "shutdown" THEN {ShutdownOrder[i] : i \in 1 .. (phase.next - 1)}
  ELSE {}

RunningInv ==
  \A r \in DOMAIN runtimes :
    runtimes[r].running \cap (IF r = current THEN Stopped ELSE Component) \subseteq {"export"}

LifeInv == RuntimesInv /\ EntryInv /\ PhaseInv /\ RunningInv

-----------------------------------------------------------------------------
(* Steps that leave the life of the entry alone.                             *)

(* A step that touches neither the runtimes nor the phase nor the state of    *)
(* the entry preserves the invariant.                                        *)
LEMMA UntouchedLife ==
  ASSUME LifeInv, UNCHANGED <<runtimes, current, phase>>,
         "state" \in DOMAIN entry', entry'.state = entry.state
  PROVE  LifeInv'
<1>1. RuntimesInv' BY DEF LifeInv, RuntimesInv
<1>2. EntryInv' BY DEF LifeInv, EntryInv, Registered
<1>3. PhaseInv' BY DEF LifeInv, PhaseInv
<1>4. RunningInv' BY DEF LifeInv, RunningInv, Stopped
<1>. QED BY <1>1, <1>2, <1>3, <1>4 DEF LifeInv

(* Storing data and options does not change the state of the entry.          *)
LEMMA UpdateKeepsState ==
  ASSUME LifeInv, NEW data, NEW options, Update(data, options)
  PROVE  "state" \in DOMAIN entry' /\ entry'.state = entry.state
BY DEF LifeInv, EntryInv, Update

(* Replacing one runtime by another record keeps the rest.                   *)
LEMMA RuntimeReplaced ==
  ASSUME RuntimesInv, NEW c \in DOMAIN runtimes, NEW new,
         "running" \in DOMAIN new, new.running \subseteq Component,
         runtimes' = [runtimes EXCEPT ![c] = new]
  PROVE  /\ RuntimesInv' /\ Len(runtimes') = Len(runtimes)
         /\ DOMAIN runtimes' = DOMAIN runtimes /\ runtimes'[c] = new
         /\ \A r \in DOMAIN runtimes : r # c => runtimes'[r] = runtimes[r]
<1>1. PICK S : runtimes \in Seq(S) BY DEF RuntimesInv
<1>2. runtimes' \in Seq(S \cup {new}) /\ Len(runtimes') = Len(runtimes)
      BY <1>1
<1>3. DOMAIN runtimes' = DOMAIN runtimes /\ runtimes'[c] = new
      BY <1>1
<1>4. \A r \in DOMAIN runtimes : r # c => runtimes'[r] = runtimes[r]
      BY <1>1
<1>. QED BY <1>2, <1>3, <1>4 DEF RuntimesInv

(* Steps of the phase of an operation that leave the runtimes alone.         *)
LEMMA PhaseStep ==
  ASSUME LifeInv, UNCHANGED <<runtimes, current>>,
         "state" \in DOMAIN entry', entry'.state \in EntryState,
         entry'.state = "removed" \/ (current # 0 <=> Registered'),
         PhaseInv', Stopped' = Stopped
  PROVE  LifeInv'
<1>1. RuntimesInv' BY DEF LifeInv, RuntimesInv
<1>2. EntryInv' BY DEF LifeInv, EntryInv
<1>3. RunningInv' BY DEF LifeInv, RunningInv
<1>. QED BY <1>1, <1>2, <1>3 DEF LifeInv

(* The operations of Home Assistant, up to the shutdown of the runtime.      *)
LEMMA OperationsKeepLife ==
  ASSUME LifeInv,
         \/ BeginUnload \/ RefuseReload \/ RemoveEntry \/ PlatformsUnloaded
         \/ PlatformsStay \/ SetupFails
  PROVE  LifeInv'
<1>. USE DEF LifeInv, EntryInv, EntryState, Registered, PhaseInv, Stopped
<1>1. CASE BeginUnload
  BY <1>1, PhaseStep DEF BeginUnload
<1>2. CASE RefuseReload
  BY <1>2, PhaseStep DEF RefuseReload, EndOperation
<1>3. CASE RemoveEntry
  BY <1>3, PhaseStep DEF RemoveEntry, EndOperation
<1>4. CASE PlatformsUnloaded
  <2>1. UNCHANGED <<runtimes, current, entry>> /\ phase' = [step |-> "shutdown", next |-> 1]
    BY <1>4 DEF PlatformsUnloaded
  <2>2. entry.state = "unloading" /\ Stopped = {}
    BY <1>4 DEF PlatformsUnloaded
  <2>3. Stopped' = {} BY <2>1
  <2>. QED BY <2>1, <2>2, <2>3, PhaseStep
<1>5. CASE PlatformsStay
  BY <1>5, PhaseStep DEF PlatformsStay, EndOperation
<1>6. CASE SetupFails
  <2>1. UNCHANGED <<runtimes, current, entry>> /\ phase' = [step |-> "shutdown", next |-> 1]
    BY <1>6 DEF SetupFails
  <2>2. entry.state = "setup" /\ Stopped = {}
    BY <1>6 DEF SetupFails
  <2>3. Stopped' = {} BY <2>1
  <2>. QED BY <2>1, <2>2, <2>3, PhaseStep
<1>. QED BY <1>1, <1>2, <1>3, <1>4, <1>5, <1>6

(* A set-up finds no component in force and makes the only runtime that has  *)
(* any.                                                                      *)
LEMMA SetupKeepsLife ==
  ASSUME LifeInv, BeginSetup
  PROVE  LifeInv'
<1>1. current = 0 /\ \A r \in DOMAIN runtimes : runtimes[r].running \subseteq {"export"}
  BY DEF BeginSetup, LifeInv, EntryInv, Registered, RunningInv, RuntimesInv, Component
<1>2. PICK S : runtimes \in Seq(S) BY DEF LifeInv, RuntimesInv
<1>3. runtimes' = Append(runtimes, NewRuntime) /\ current' = Len(runtimes) + 1
  BY DEF BeginSetup
<1>4. runtimes' \in Seq(S \cup {NewRuntime}) /\ Len(runtimes') = Len(runtimes) + 1
  BY <1>2, <1>3
<1>5. runtimes'[current'] = NewRuntime
  BY <1>2, <1>3
<1>6. \A r \in DOMAIN runtimes' \ {current'} :
        r \in DOMAIN runtimes /\ runtimes'[r] = runtimes[r]
  BY <1>2, <1>3
<1>7. "running" \in DOMAIN NewRuntime /\ NewRuntime.running = {"entities"}
  BY DEF NewRuntime
<1>8. RuntimesInv'
  BY <1>4, <1>5, <1>6, <1>7 DEF LifeInv, RuntimesInv, Component
<1>9. phase' = [step |-> "setup"] /\ entry' = [entry EXCEPT !.state = "setup"]
  BY DEF BeginSetup
<1>10. EntryInv'
  BY <1>2, <1>3, <1>4, <1>9 DEF LifeInv, EntryInv, EntryState, Registered
<1>11. PhaseInv' /\ Stopped' = {}
  BY <1>9 DEF LifeInv, EntryInv, PhaseInv, Stopped
<1>12. RunningInv'
  BY <1>1, <1>5, <1>6, <1>11 DEF RunningInv
<1>. QED BY <1>8, <1>10, <1>11, <1>12 DEF LifeInv

(* A runtime's connection or its export subscriptions change.                *)
LEMMA RuntimeTouched ==
  ASSUME LifeInv, NEW c \in DOMAIN runtimes, NEW new,
         "running" \in DOMAIN new,
         new.running \subseteq runtimes[c].running \cup {"export"},
         runtimes' = [runtimes EXCEPT ![c] = new],
         UNCHANGED <<current, phase>>,
         "state" \in DOMAIN entry', entry'.state = entry.state
  PROVE  LifeInv'
<1>1. RuntimesInv /\ runtimes[c].running \subseteq Component
  BY DEF LifeInv, RuntimesInv
<1>2. new.running \subseteq Component BY <1>1 DEF Component
<1>3. /\ RuntimesInv' /\ Len(runtimes') = Len(runtimes)
      /\ DOMAIN runtimes' = DOMAIN runtimes /\ runtimes'[c] = new
      /\ \A r \in DOMAIN runtimes : r # c => runtimes'[r] = runtimes[r]
  BY <1>1, <1>2, RuntimeReplaced
<1>4. EntryInv' BY <1>3 DEF LifeInv, EntryInv, Registered
<1>5. PhaseInv' BY DEF LifeInv, PhaseInv
<1>6. Stopped' = Stopped BY DEF Stopped
<1>7. RunningInv' BY <1>3, <1>6 DEF LifeInv, RunningInv
<1>. QED BY <1>3, <1>4, <1>5, <1>7 DEF LifeInv

(* The entry has a runtime while an operation sets it up or shuts it down.   *)
LEMMA CurrentExists ==
  ASSUME LifeInv, Registered
  PROVE  current \in DOMAIN runtimes /\ current # 0
<1>1. PICK S : runtimes \in Seq(S) BY DEF LifeInv, RuntimesInv
<1>2. current \in 1 .. Len(runtimes)
  BY DEF LifeInv, EntryInv, Registered
<1>. QED BY <1>1, <1>2

(* The set-up that succeeds starts the remaining components.                 *)
LEMMA SetupSucceedsKeepsLife ==
  ASSUME LifeInv, SetupSucceeds
  PROVE  LifeInv'
<1>1. phase.step = "setup" /\ entry.state = "setup"
  BY DEF SetupSucceeds, LifeInv, PhaseInv
<1>2. current \in DOMAIN runtimes
  BY <1>1, CurrentExists DEF Registered
<1>3. PICK new :
        /\ "running" \in DOMAIN new /\ new.running \subseteq Component
        /\ runtimes' = [runtimes EXCEPT ![current] = new]
  <2>. DEFINE running == {"entities", "coordinator", "connection"} \cup
                           IF runtimes[current].bindings = <<>> THEN {} ELSE {"export"}
              new == [runtimes[current] EXCEPT !.started = TRUE, !.conn = "connecting",
                                               !.running = running]
  <2>1. "running" \in DOMAIN runtimes[current]
    BY <1>2 DEF LifeInv, RuntimesInv
  <2>2. "running" \in DOMAIN new /\ new.running = running
    BY <2>1
  <2>3. running \subseteq Component
    BY DEF Component
  <2>4. runtimes' = [runtimes EXCEPT ![current] = new]
    BY DEF SetupSucceeds
  <2>. QED BY <2>2, <2>3, <2>4
<1>4. /\ RuntimesInv' /\ Len(runtimes') = Len(runtimes)
      /\ DOMAIN runtimes' = DOMAIN runtimes
      /\ \A r \in DOMAIN runtimes : r # current => runtimes'[r] = runtimes[r]
  BY <1>2, <1>3, RuntimeReplaced DEF LifeInv
<1>5. /\ entry' = [entry EXCEPT !.state = "loaded"] /\ phase' = [step |-> "idle"]
      /\ current' = current
  BY DEF SetupSucceeds, EndOperation
<1>6. EntryInv'
  BY <1>1, <1>2, <1>4, <1>5, CurrentExists DEF LifeInv, EntryInv, EntryState, Registered
<1>7. PhaseInv' /\ Stopped' = {}
  BY <1>5 DEF LifeInv, EntryInv, PhaseInv, Stopped
<1>8. RunningInv'
  BY <1>4, <1>5, <1>7 DEF LifeInv, RunningInv
<1>. QED BY <1>4, <1>6, <1>7, <1>8 DEF LifeInv

(* Each step of the shutdown stops the next component.                       *)
LEMMA ShutdownKeepsLife ==
  ASSUME LifeInv, ShutdownStep
  PROVE  LifeInv'
<1>. DEFINE c == ShutdownOrder[phase.next]
            new == [runtimes[current] EXCEPT
                      !.running = @ \ {c}, !.conn = IF c = "connection" THEN "off" ELSE @]
<1>1. /\ phase \in [step : {"shutdown"}, next : 1 .. 4]
      /\ entry.state \in {"setup", "unloading"}
  BY DEF ShutdownStep, LifeInv, PhaseInv
<1>2. current \in DOMAIN runtimes
  BY <1>1, CurrentExists DEF Registered
<1>3. /\ "running" \in DOMAIN runtimes[current]
      /\ runtimes[current].running \subseteq Component
  BY <1>2 DEF LifeInv, RuntimesInv
<1>4. "running" \in DOMAIN new /\ new.running = runtimes[current].running \ {c}
  BY <1>3
<1>5. runtimes' = [runtimes EXCEPT ![current] = new]
  BY DEF ShutdownStep
<1>6. /\ RuntimesInv' /\ Len(runtimes') = Len(runtimes)
      /\ DOMAIN runtimes' = DOMAIN runtimes /\ runtimes'[current] = new
      /\ \A r \in DOMAIN runtimes : r # current => runtimes'[r] = runtimes[r]
  <2>1. new.running \subseteq Component BY <1>3, <1>4
  <2>. QED BY <1>2, <1>4, <1>5, <2>1, RuntimeReplaced DEF LifeInv
<1>7. UNCHANGED <<entry, current>>
  BY DEF ShutdownStep
<1>8. phase' = IF c = "connection" THEN [step |-> "released"]
               ELSE [phase EXCEPT !.next = @ + 1]
  BY DEF ShutdownStep
<1>9. EntryInv'
  BY <1>6, <1>7 DEF LifeInv, EntryInv, Registered
<1>10. PhaseInv' /\ Stopped' \subseteq Stopped \cup {c}
  <2>1. CASE phase.next = 4
    <3>1. phase' = [step |-> "released"] BY <1>1, <1>8, <2>1 DEF ShutdownOrder
    <3>2. Component \subseteq Stopped \cup {c}
      BY <1>1, <2>1 DEF Component, Stopped, ShutdownOrder
    <3>. QED BY <1>1, <1>7, <3>1, <3>2 DEF PhaseInv, Stopped
  <2>2. CASE phase.next \in 1 .. 3
    <3>1. phase' = [phase EXCEPT !.next = @ + 1]
      BY <1>8, <2>2 DEF ShutdownOrder
    <3>2. phase' \in [step : {"shutdown"}, next : 1 .. 4] /\ phase'.next = phase.next + 1
      BY <1>1, <2>2, <3>1
    <3>3. PhaseInv' BY <1>1, <1>7, <3>2 DEF PhaseInv
    <3>4. Stopped' \subseteq Stopped \cup {c}
      BY <1>1, <2>2, <3>2 DEF Stopped
    <3>. QED BY <3>3, <3>4
  <2>. QED BY <1>1, <2>1, <2>2
<1>11. RunningInv'
  BY <1>2, <1>4, <1>6, <1>7, <1>10, ZenonT(60) DEF LifeInv, RunningInv
<1>. QED BY <1>6, <1>9, <1>10, <1>11 DEF LifeInv

(* An entry that was unloaded, or failed to set up, has nothing in force.    *)
LEMMA UnloadedKeepsLife ==
  ASSUME LifeInv, Unloaded
  PROVE  LifeInv'
<1>1. /\ phase.step = "released" /\ entry.state \in {"setup", "unloading"}
      /\ Stopped = Component
  BY DEF Unloaded, LifeInv, PhaseInv, Stopped
<1>2. /\ phase' = [step |-> "idle"] /\ current' = 0 /\ runtimes' = runtimes
      /\ entry' = [entry EXCEPT !.state = IF entry.state = "unloading" THEN "not_loaded"
                                          ELSE "error"]
  BY <1>1 DEF Unloaded, EndOperation
<1>3. RuntimesInv' BY <1>2 DEF LifeInv, RuntimesInv
<1>4. EntryInv'
  <2>1. PICK S : runtimes \in Seq(S) BY DEF LifeInv, RuntimesInv
  <2>2. 0 \in 0 .. Len(runtimes) BY <2>1
  <2>. QED BY <1>2, <2>2 DEF LifeInv, EntryInv, EntryState, Registered
<1>5. PhaseInv' BY <1>2 DEF LifeInv, EntryInv, PhaseInv
<1>6. RunningInv'
  BY <1>1, <1>2 DEF LifeInv, RuntimesInv, RunningInv
<1>. QED BY <1>3, <1>4, <1>5, <1>6 DEF LifeInv

-----------------------------------------------------------------------------
(* The update listener, the connection and the flows.                        *)

(* A change of a runtime that may not exist is none at all.                  *)
LEMMA AnyRuntimeTouched ==
  ASSUME LifeInv, NEW c, NEW new,
         c \in DOMAIN runtimes =>
           /\ "running" \in DOMAIN new
           /\ new.running \subseteq runtimes[c].running \cup {"export"},
         runtimes' = [runtimes EXCEPT ![c] = new],
         UNCHANGED <<current, phase>>,
         "state" \in DOMAIN entry', entry'.state = entry.state
  PROVE  LifeInv'
<1>1. CASE c \in DOMAIN runtimes
  BY <1>1, RuntimeTouched
<1>2. CASE c \notin DOMAIN runtimes
  <2>1. PICK S : runtimes \in Seq(S) BY DEF LifeInv, RuntimesInv
  <2>2. runtimes' = runtimes BY <1>2, <2>1
  <2>. QED BY <2>2, UntouchedLife
<1>. QED BY <1>1, <1>2

LEMMA ListenerKeepsLife ==
  ASSUME LifeInv, NEW l, Listener(l)
  PROVE  LifeInv'
<1>. DEFINE c == listeners[l].rt
<1>1. "state" \in DOMAIN entry
  BY DEF LifeInv, EntryInv
<1>2. c \in DOMAIN runtimes => "running" \in DOMAIN runtimes[c]
  BY DEF LifeInv, RuntimesInv
<1>3. CASE ListenerReloads(l) \/ ListenerReturns(l) \/ ListenerBegins(l)
  BY <1>1, <1>3, UntouchedLife DEF ListenerReloads, ListenerReturns, ListenerBegins
<1>4. CASE ExportReconfigured(l)
  <2>. DEFINE bindings == ExportBindings(listeners[l].options.exports)
              running == IF bindings = runtimes[c].bindings THEN runtimes[c].running
                         ELSE IF bindings = <<>> THEN runtimes[c].running \ {"export"}
                         ELSE IF runtimes[c].started THEN runtimes[c].running \cup {"export"}
                         ELSE runtimes[c].running
              new == [runtimes[c] EXCEPT !.bindings = bindings, !.shown = entry.options,
                                         !.running = running]
  <2>1. runtimes' = [runtimes EXCEPT ![c] = new] /\ UNCHANGED <<entry, current, phase>>
    BY <1>4 DEF ExportReconfigured, RuntimeOf
  <2>2. running \subseteq runtimes[c].running \cup {"export"}
    OBVIOUS
  <2>3. c \in DOMAIN runtimes => "running" \in DOMAIN new /\ new.running = running
    BY <1>2
  <2>. HIDE DEF new, running, c
  <2>. QED BY <1>1, <2>1, <2>2, <2>3, AnyRuntimeTouched
<1>5. CASE ListenerEnds(l)
  <2>. DEFINE new == [runtimes[c] EXCEPT !.options = Applied(l).options,
                                         !.version = Applied(l).version]
  <2>1. runtimes' = [runtimes EXCEPT ![c] = new] /\ UNCHANGED <<entry, current, phase>>
    BY <1>5 DEF ListenerEnds
  <2>2. c \in DOMAIN runtimes =>
          "running" \in DOMAIN new /\ new.running = runtimes[c].running
    BY <1>2
  <2>. HIDE DEF new, c
  <2>. QED BY <1>1, <2>1, <2>2, AnyRuntimeTouched
<1>. QED BY <1>3, <1>4, <1>5 DEF Listener

(* The connection of the current runtime is all that the controller changes. *)
LEMMA ConnectionKeepsLife ==
  ASSUME LifeInv, NEW conn,
         runtimes' = [runtimes EXCEPT ![current].conn = conn],
         UNCHANGED <<current, phase, entry>>
  PROVE  LifeInv'
<1>. DEFINE new == [runtimes[current] EXCEPT !.conn = conn]
<1>1. "state" \in DOMAIN entry
  BY DEF LifeInv, EntryInv
<1>2. current \in DOMAIN runtimes =>
        "running" \in DOMAIN new /\ new.running = runtimes[current].running
  BY DEF LifeInv, RuntimesInv
<1>3. runtimes' = [runtimes EXCEPT ![current] = new]
  OBVIOUS
<1>. HIDE DEF new
<1>. QED BY <1>1, <1>2, <1>3, AnyRuntimeTouched

LEMMA EntryStepKeepsLife ==
  ASSUME LifeInv, EntryStep
  PROVE  LifeInv'
<1>1. "state" \in DOMAIN entry
  BY DEF LifeInv, EntryInv
<1>2. CASE OperationStep
  BY <1>2, OperationsKeepLife, SetupKeepsLife, SetupSucceedsKeepsLife, ShutdownKeepsLife,
     UnloadedKeepsLife DEF OperationStep
<1>3. CASE PlatformsStay \/ SetupFails
  BY <1>3, OperationsKeepLife
<1>4. CASE UserReloads \/ UserRemoves
  BY <1>1, <1>4, UntouchedLife DEF UserReloads, UserRemoves
<1>5. CASE Connect \/ Refuse
  BY <1>5, ConnectionKeepsLife DEF Connect, Refuse
<1>6. ASSUME NEW s \in Setting, ControllerChanges(s)
      PROVE  LifeInv'
  <2>1. CASE Connection({"connected"})
    BY <1>6, <2>1, ConnectionKeepsLife DEF ControllerChanges
  <2>2. CASE ~Connection({"connected"})
    BY <1>1, <1>6, <2>2, UntouchedLife DEF ControllerChanges
  <2>. QED BY <2>1, <2>2
<1>7. ASSUME NEW t \in Id, ExportWorks(t) \/ \E r \in DOMAIN runtimes : ExportFails(r, t)
      PROVE  LifeInv'
  BY <1>1, <1>7, UntouchedLife DEF ExportWorks, ExportFails
<1>. QED BY <1>2, <1>3, <1>4, <1>5, <1>6, <1>7 DEF EntryStep

(* The initial flow makes an entry that is not loaded.                       *)
LEMMA CreateEntryKeepsLife ==
  ASSUME LifeInv, NEW f, NEW mode, NEW selected, NEW auto,
         CreateEntry(f, mode, selected, auto)
  PROVE  LifeInv'
<1>1. entry.state = "none" /\ UNCHANGED <<runtimes, current, phase>>
  BY DEF CreateEntry
<1>2. "state" \in DOMAIN entry' /\ entry'.state = "not_loaded"
  BY DEF CreateEntry
<1>3. RuntimesInv' BY <1>1 DEF LifeInv, RuntimesInv
<1>4. EntryInv' BY <1>1, <1>2 DEF LifeInv, EntryInv, EntryState, Registered
<1>5. PhaseInv' BY <1>1, <1>2 DEF LifeInv, PhaseInv
<1>6. RunningInv' BY <1>1 DEF LifeInv, RunningInv, Stopped
<1>. QED BY <1>3, <1>4, <1>5, <1>6 DEF LifeInv

(* Any other step of a flow stores data or options at most.                  *)
LEMMA FlowStepKeepsLife ==
  ASSUME LifeInv, NEW f \in Flow, FlowStep(f)
  PROVE  LifeInv'
<1>1. "state" \in DOMAIN entry
  BY DEF LifeInv, EntryInv
<1>2. ASSUME NEW kind, OpenOptions(f, kind) \/ OpenManaged(f, kind)
      PROVE  LifeInv'
  BY <1>1, <1>2, UntouchedLife DEF OpenOptions, OpenManaged
<1>3. ASSUME NEW kind, NEW data, OpenSession(f, kind, data)
      PROVE  LifeInv'
  BY <1>1, <1>3, UntouchedLife DEF OpenSession
<1>4. CASE Discovered(f) \/ Abandon(f) \/ SetUpInitially(f) \/ TargetRead(f)
  BY <1>1, <1>4, UntouchedLife DEF Discovered, Abandon, SetUpInitially, TargetRead, entryVars
<1>5. CASE StoreSettings(f)
  BY <1>5, UpdateKeepsState, UntouchedLife DEF StoreSettings
<1>6. ASSUME NEW mode, ChooseMode(f, mode)
      PROVE  LifeInv'
  BY <1>6, UpdateKeepsState, UntouchedLife DEF ChooseMode, Store
<1>7. ASSUME NEW selected, NEW auto, SelectDevices(f, selected, auto)
      PROVE  LifeInv'
  BY <1>7, UpdateKeepsState, UntouchedLife DEF SelectDevices, Store
<1>8. CASE DeleteBinding(f)
  BY <1>8, UpdateKeepsState, UntouchedLife DEF DeleteBinding, Store
<1>9. ASSUME NEW s, CreateTarget(f, s) \/ ChangeSource(f, s)
      PROVE  LifeInv'
  BY <1>1, <1>9, UntouchedLife DEF CreateTarget, ChangeSource, BeginTest, entryVars
<1>10. ASSUME NEW s, NEW t, LinkTarget(f, s, t)
       PROVE  LifeInv'
  BY <1>1, <1>10, UntouchedLife DEF LinkTarget, BeginTest, entryVars
<1>11. ASSUME NEW t, Rebind(f, t) \/ TargetCreated(f, t)
       PROVE  LifeInv'
  BY <1>1, <1>11, UntouchedLife DEF Rebind, TargetCreated, BeginTest, entryVars
<1>12. CASE BindingTested(f)
  BY <1>12, UpdateKeepsState, UntouchedLife DEF BindingTested, Store
<1>13. ASSUME NEW created, TestFails(f, created)
       PROVE  LifeInv'
  BY <1>1, <1>13, UntouchedLife DEF TestFails, entryVars
<1>. QED
  BY <1>2, <1>3, <1>4, <1>5, <1>6, <1>7, <1>8, <1>9, <1>10, <1>11, <1>12, <1>13,
     CreateEntryKeepsLife DEF FlowStep

-----------------------------------------------------------------------------
LEMMA InitLife ==
  ASSUME NEW objects, NEW settings, NEW stored, NEW bounds,
         InitWith(objects, settings, stored, bounds)
  PROVE  LifeInv
<1>1. runtimes = <<>> /\ current = 0 /\ phase = [step |-> "idle"]
  BY DEF InitWith
<1>2. "state" \in DOMAIN entry /\ entry.state \in {"none", "not_loaded"}
  BY DEF InitWith
<1>3. RuntimesInv
  <2>1. runtimes \in Seq({}) BY <1>1
  <2>2. DOMAIN runtimes = {} BY <1>1
  <2>. QED BY <2>1, <2>2 DEF RuntimesInv
<1>4. EntryInv BY <1>1, <1>2 DEF EntryInv, EntryState, Registered
<1>5. PhaseInv BY <1>1, <1>2 DEF PhaseInv
<1>6. RunningInv BY <1>1 DEF RunningInv
<1>. QED BY <1>3, <1>4, <1>5, <1>6 DEF LifeInv

LEMMA NextKeepsLife == LifeInv /\ [Next]_vars => LifeInv'
<1>. SUFFICES ASSUME LifeInv, [Next]_vars PROVE LifeInv'
  OBVIOUS
<1>1. CASE UNCHANGED vars
  BY <1>1, UntouchedLife DEF vars, entryVars, LifeInv, EntryInv
<1>2. CASE Next
  BY <1>2, ListenerKeepsLife, EntryStepKeepsLife, FlowStepKeepsLife DEF Next
<1>. QED BY <1>1, <1>2

LEMMA LifeImpliesOneRuntime == LifeInv => OneRuntimeRuns
<1>. SUFFICES ASSUME LifeInv PROVE OneRuntimeRuns
  OBVIOUS
<1>1. ASSUME NEW r \in DOMAIN runtimes, runtimes[r].running \ {"export"} # {}
      PROVE  r = current
  BY <1>1 DEF LifeInv, RuntimesInv, RunningInv
<1>2. ~Registered /\ entry.state # "removed" => current \notin DOMAIN runtimes
  <2>1. PICK S : runtimes \in Seq(S) BY DEF LifeInv, RuntimesInv
  <2>. QED BY <2>1 DEF LifeInv, EntryInv
<1>. QED BY <1>1, <1>2 DEF OneRuntimeRuns

(* For any flows, objects, settings and bounds, and whichever operations,     *)
(* listener calls and flows overlap, the state of the entry goes with the    *)
(* phase of the operation under way and with what the shutdown has stopped.  *)
THEOREM EntryLife ==
  ASSUME NEW objects, NEW settings, NEW stored, NEW bounds
  PROVE  Initially(objects, settings, stored, bounds) => []LifeInv
<1>1. InitWith(objects, settings, stored, bounds) => LifeInv BY InitLife
<1>. QED BY <1>1, NextKeepsLife, PTL DEF Initially

(* Only the runtime of the entry has components in force, and an entry that  *)
(* is not loaded has none (__init__.py:122-129, runtime.py).                 *)
THEOREM OneRuntime ==
  ASSUME NEW objects, NEW settings, NEW stored, NEW bounds
  PROVE  Initially(objects, settings, stored, bounds) => []OneRuntimeRuns
<1>1. Initially(objects, settings, stored, bounds) => []LifeInv BY EntryLife
<1>. QED BY <1>1, LifeImpliesOneRuntime, PTL

-----------------------------------------------------------------------------
(* What the flows hold, and what they store.                                 *)

UnderTest(flow) == flow.stage \in {"first", "second"}

FlowRecord ==
  [kind : Kind \cup {"none"},
   stage : {"closed", "discovering", "session", "form", "first", "second"},
   data : Setting \cup {None}, objects : SUBSET Id, source : Source \cup {None},
   target : Id \cup {None}, managed : Id \cup {None}, client : Nat]

(* What a flow needs at its stage is there.                                  *)
FlowOK(flow) ==
  /\ flow \in FlowRecord
  /\ flow.stage = "session" \/ (flow.stage = "form" /\ flow.kind = "initial")
       => flow.data \in Setting
  /\ flow.stage = "discovering" \/ UnderTest(flow) => flow.kind # "initial"
  /\ flow.kind = "create" => flow.managed = None
  /\ UnderTest(flow) =>
       /\ flow.source \in Source
       /\ IF flow.stage = "first" /\ flow.kind = "create" THEN flow.target = None
          ELSE flow.target \in Id

HistoryRecord ==
  [off : OffMode \cup {None}, decided : [Id -> {"nothing", "chosen", "refused", "exported"}],
   overlapped : BOOLEAN, renewed : Setting \cup {None}]

TypedInv ==
  /\ {"state", "data", "options"} \subseteq DOMAIN entry
  /\ Exists => entry.data \in Setting /\ entry.options \in Options
  /\ flows \in [Flow -> FlowRecord] /\ \A f \in Flow : FlowOK(flows[f])
  /\ catalog \subseteq Id /\ history \in HistoryRecord

(* The lists show what was decided: an object that was chosen is imported    *)
(* explicitly, and one that was refused or exported is excluded.             *)
Wishes(options, decided) ==
  \A t \in Id :
    /\ decided[t] = "chosen" => Chosen(options, t)
    /\ decided[t] \in {"refused", "exported"} => Hidden(options, t)

ChoicesInv ==
  /\ TypedInv
  /\ Exists => entry.options.off = history.off /\ Wishes(entry.options, history.decided)
  /\ entry.state = "none" => \A t \in Id : history.decided[t] = "nothing"

(* The binding that a flow tests clashes with no stored one, except the one  *)
(* it is to replace.                                                         *)
Apart(flow, bindings) ==
  UnderTest(flow) =>
    \A b \in ToSet(bindings) :
      b.target # flow.managed => b.source # flow.source /\ b.target # flow.target

DistinctInv ==
  Exists /\ ~history.overlapped =>
    /\ NoClash(entry.options.exports)
    /\ \A f \in Flow : Apart(flows[f], entry.options.exports)

ChoicesKept == ChoicesInv' /\ (DistinctInv => DistinctInv')

-----------------------------------------------------------------------------
(* Steps that store nothing.                                                 *)

LEMMA UntouchedChoices ==
  ASSUME ChoicesInv, UNCHANGED <<flows, catalog, history>>,
         {"state", "data", "options"} \subseteq DOMAIN entry',
         entry'.data = entry.data, entry'.options = entry.options,
         Exists' => Exists, entry'.state = "none" => entry.state = "none"
  PROVE  ChoicesKept
<1>1. TypedInv' BY DEF ChoicesInv, TypedInv
<1>2. ChoicesInv' BY <1>1 DEF ChoicesInv
<1>3. DistinctInv => DistinctInv' BY DEF DistinctInv
<1>. QED BY <1>2, <1>3 DEF ChoicesKept

(* The operations change the state of the entry at most, and none of them     *)
(* brings an entry back.                                                     *)
OnlyStateMoves ==
  \/ entry' = entry
  \/ /\ Exists /\ \E s \in EntryState \ {"none"} : entry' = [entry EXCEPT !.state = s]

LEMMA OperationsOnlyMoveState ==
  ASSUME LifeInv, OperationStep \/ PlatformsStay \/ SetupFails
  PROVE  OnlyStateMoves
<1>. USE DEF OnlyStateMoves, Exists, EntryState
<1>1. CASE BeginUnload BY <1>1 DEF BeginUnload
<1>2. CASE BeginSetup BY <1>2 DEF BeginSetup
<1>3. CASE RefuseReload \/ PlatformsUnloaded \/ ShutdownStep \/ SetupFails
  BY <1>3 DEF RefuseReload, PlatformsUnloaded, ShutdownStep, SetupFails
<1>4. CASE RemoveEntry BY <1>4 DEF RemoveEntry
<1>5. CASE SetupSucceeds BY <1>5 DEF SetupSucceeds, LifeInv, PhaseInv
<1>6. CASE Unloaded BY <1>6 DEF Unloaded, LifeInv, PhaseInv
<1>7. CASE PlatformsStay BY <1>7 DEF PlatformsStay, LifeInv, PhaseInv
<1>. QED BY <1>1, <1>2, <1>3, <1>4, <1>5, <1>6, <1>7 DEF OperationStep

LEMMA EntryStepOnlyMovesState ==
  ASSUME LifeInv, EntryStep
  PROVE  OnlyStateMoves
<1>1. CASE UserReloads \/ UserRemoves \/ Connect \/ Refuse
  BY <1>1 DEF UserReloads, UserRemoves, Connect, Refuse, OnlyStateMoves
<1>2. ASSUME NEW s, ControllerChanges(s) PROVE OnlyStateMoves
  BY <1>2 DEF ControllerChanges, OnlyStateMoves
<1>3. ASSUME NEW t, ExportWorks(t) \/ \E r \in DOMAIN runtimes : ExportFails(r, t)
      PROVE  OnlyStateMoves
  BY <1>3 DEF ExportWorks, ExportFails, OnlyStateMoves
<1>. QED BY <1>1, <1>2, <1>3, OperationsOnlyMoveState DEF EntryStep

LEMMA MovingStateKeepsChoices ==
  ASSUME ChoicesInv, OnlyStateMoves, UNCHANGED <<flows, catalog, history>>
  PROVE  ChoicesKept
<1>1. {"state", "data", "options"} \subseteq DOMAIN entry
  BY DEF ChoicesInv, TypedInv
<1>2. CASE entry' = entry
  BY <1>1, <1>2, UntouchedChoices DEF Exists
<1>3. CASE entry' # entry
  <2>1. PICK s \in EntryState \ {"none"} : entry' = [entry EXCEPT !.state = s]
    BY <1>3 DEF OnlyStateMoves
  <2>2. Exists BY <1>3 DEF OnlyStateMoves
  <2>3. /\ {"state", "data", "options"} \subseteq DOMAIN entry' /\ entry'.state = s
        /\ entry'.data = entry.data /\ entry'.options = entry.options
    BY <1>1, <2>1
  <2>. QED BY <2>2, <2>3, UntouchedChoices
<1>. QED BY <1>2, <1>3

LEMMA ListenerKeepsEntry ==
  ASSUME NEW l, Listener(l)
  PROVE  entry' = entry
BY DEF Listener, ListenerReloads, ListenerReturns, ListenerBegins, ExportReconfigured,
       ListenerEnds

(* A flow goes on, the entry stays.                                          *)
LEMMA FlowMoves ==
  ASSUME ChoicesInv, NEW f \in Flow, NEW flow, FlowOK(flow), Become(f, flow),
         UNCHANGED <<entry, history>>, catalog' \subseteq Id,
         Exists /\ DistinctInv /\ ~history.overlapped => Apart(flow, entry.options.exports)
  PROVE  ChoicesKept
<1>1. /\ flows \in [Flow -> FlowRecord] /\ flows' = [flows EXCEPT ![f] = flow]
      /\ flow \in FlowRecord
  BY DEF ChoicesInv, TypedInv, FlowOK, Become
<1>2. /\ flows' \in [Flow -> FlowRecord] /\ flows'[f] = flow
      /\ \A g \in Flow \ {f} : flows'[g] = flows[g]
  BY <1>1
<1>3. \A g \in Flow : FlowOK(flows'[g])
  BY <1>2 DEF ChoicesInv, TypedInv
<1>4. TypedInv'
  BY <1>2, <1>3 DEF ChoicesInv, TypedInv, Exists, FlowOK, UnderTest
<1>5. ChoicesInv' BY <1>4 DEF ChoicesInv, Exists
<1>6. DistinctInv => DistinctInv'
  BY <1>2 DEF DistinctInv, Exists
<1>. QED BY <1>5, <1>6 DEF ChoicesKept

LEMMA ClosedOK == FlowOK(Closed) /\ ~UnderTest(Closed)
BY DEF Closed, FlowOK, FlowRecord, UnderTest

(* A flow closes and the entry is stored.                                    *)
LEMMA ChoiceStored ==
  ASSUME ChoicesInv, NEW f \in Flow, Close(f), UNCHANGED catalog,
         {"state", "data", "options"} \subseteq DOMAIN entry', Exists',
         entry'.data \in Setting, entry'.options \in Options,
         history' \in HistoryRecord, entry'.options.off = history'.off,
         Wishes(entry'.options, history'.decided),
         DistinctInv /\ ~history'.overlapped =>
           /\ NoClash(entry'.options.exports)
           /\ \A g \in Flow \ {f} : Apart(flows[g], entry'.options.exports)
  PROVE  ChoicesKept
<1>1. flows \in [Flow -> FlowRecord] /\ flows' = [flows EXCEPT ![f] = Closed]
  BY DEF ChoicesInv, TypedInv, Become, Close
<1>2. /\ flows' \in [Flow -> FlowRecord] /\ flows'[f] = Closed
      /\ \A g \in Flow \ {f} : flows'[g] = flows[g]
  BY <1>1, ClosedOK DEF FlowOK
<1>3. \A g \in Flow : FlowOK(flows'[g])
  BY <1>2, ClosedOK DEF ChoicesInv, TypedInv
<1>4. TypedInv'
  BY <1>2, <1>3 DEF ChoicesInv, TypedInv, FlowOK, UnderTest
<1>5. entry'.state # "none" BY DEF Exists
<1>6. ChoicesInv' BY <1>4, <1>5 DEF ChoicesInv, Wishes
<1>7. DistinctInv => DistinctInv'
  <2>. SUFFICES ASSUME DistinctInv, ~history'.overlapped PROVE DistinctInv'
    BY DEF DistinctInv
  <2>1. \A g \in Flow : Apart(flows'[g], entry'.options.exports)
    BY <1>2, ClosedOK DEF Apart
  <2>2. NoClash(entry'.options.exports) OBVIOUS
  <2>. QED BY <2>1, <2>2 DEF DistinctInv, Apart, UnderTest
<1>. QED BY <1>6, <1>7 DEF ChoicesKept

-----------------------------------------------------------------------------
(* Steps that store.                                                         *)

LEMMA UpdateStores ==
  ASSUME ChoicesInv, NEW data, NEW options, Update(data, options), Exists
  PROVE  /\ {"state", "data", "options"} \subseteq DOMAIN entry' /\ Exists'
         /\ entry'.data = data /\ entry'.options = options
BY DEF ChoicesInv, TypedInv, Update, Exists

LEMMA CreateEntryKeepsChoices ==
  ASSUME ChoicesInv, NEW f \in Flow, NEW mode \in OffMode, NEW selected \in SUBSET Id,
         NEW auto \in BOOLEAN, CreateEntry(f, mode, selected, auto)
  PROVE  ChoicesKept
<1>. DEFINE objects == flows[f].objects
            options == InitialOptions(mode, objects, selected, auto)
            decided == [t \in Id |-> IF t \in selected THEN "chosen"
                                     ELSE IF t \in objects THEN "refused"
                                     ELSE history.decided[t]]
<1>1. /\ FlowOK(flows[f]) /\ flows[f].stage = "form" /\ flows[f].kind = "initial"
      /\ selected \subseteq objects /\ Close(f) /\ UNCHANGED catalog
  BY DEF CreateEntry, In, ChoicesInv, TypedInv
<1>2. objects \in SUBSET Id /\ flows[f].data \in Setting
  BY <1>1 DEF FlowOK, FlowRecord
<1>3. /\ entry' = [state |-> "not_loaded", data |-> flows[f].data, options |-> options,
                   version |-> 1]
      /\ history' = [history EXCEPT !.off = mode, !.decided = decided]
      /\ \A t \in Id : history.decided[t] = "nothing"
  BY DEF CreateEntry, ChoicesInv
<1>4. /\ options \in Options /\ options.exports = <<>> /\ options.off = mode
      /\ \A t \in selected : Chosen(options, t)
      /\ \A t \in objects \ selected : Hidden(options, t)
  <2>. HIDE DEF objects, decided
  <2>. QED BY <1>1, <1>2, InitialStored
<1>. HIDE DEF options
<1>5. /\ {"state", "data", "options"} \subseteq DOMAIN entry' /\ Exists'
      /\ entry'.data = flows[f].data /\ entry'.options = options
  BY <1>3 DEF Exists
<1>6. history \in HistoryRecord BY DEF ChoicesInv, TypedInv
<1>7. decided \in [Id -> {"nothing", "chosen", "refused", "exported"}]
  BY <1>6 DEF HistoryRecord
<1>8. Wishes(options, decided)
  BY <1>3, <1>4 DEF Wishes
<1>. HIDE DEF decided
<1>9. history' \in HistoryRecord /\ history'.off = mode /\ history'.decided = decided
  BY <1>3, <1>6, <1>7 DEF HistoryRecord
<1>10. NoClash(<<>>) /\ \A g \in Flow : Apart(flows[g], <<>>)
  BY DEF NoClash, Apart, ToSet
<1>. QED BY <1>1, <1>2, <1>4, <1>5, <1>8, <1>9, <1>10, ChoiceStored

(* What is stored keeps the bindings, and what is decided is kept.           *)
LEMMA BindingsLeft ==
  ASSUME ChoicesInv, NEW f \in Flow, Close(f), UNCHANGED catalog, Exists,
         NEW data \in Setting, NEW options \in Options, Update(data, options),
         options.exports = entry.options.exports,
         history' \in HistoryRecord, history'.overlapped = history.overlapped,
         options.off = history'.off, Wishes(options, history'.decided)
  PROVE  ChoicesKept
<1>1. /\ {"state", "data", "options"} \subseteq DOMAIN entry' /\ Exists'
      /\ entry'.data = data /\ entry'.options = options
  BY UpdateStores
<1>2. DistinctInv /\ ~history'.overlapped =>
        /\ NoClash(entry'.options.exports)
        /\ \A g \in Flow \ {f} : Apart(flows[g], entry'.options.exports)
  BY <1>1 DEF DistinctInv
<1>. QED BY <1>1, <1>2, ChoiceStored

LEMMA StoreSettingsKeepsChoices ==
  ASSUME ChoicesInv, NEW f \in Flow, StoreSettings(f)
  PROVE  ChoicesKept
<1>1. /\ Exists /\ Close(f) /\ UNCHANGED catalog /\ flows[f].stage = "session"
      /\ Update(flows[f].data, entry.options)
      /\ history' = history \/ history' = [history EXCEPT !.renewed = flows[f].data]
  BY DEF StoreSettings, In
<1>2. flows[f].data \in Setting
  BY <1>1 DEF ChoicesInv, TypedInv, FlowOK
<1>3. /\ history \in HistoryRecord /\ entry.options \in Options
      /\ entry.options.off = history.off /\ Wishes(entry.options, history.decided)
  BY <1>1 DEF ChoicesInv, TypedInv
<1>4. /\ history' \in HistoryRecord /\ history'.overlapped = history.overlapped
      /\ history'.off = history.off /\ history'.decided = history.decided
  BY <1>1, <1>2, <1>3 DEF HistoryRecord
<1>. QED BY <1>1, <1>2, <1>3, <1>4, BindingsLeft

LEMMA ChooseModeKeepsChoices ==
  ASSUME ChoicesInv, NEW f \in Flow, NEW mode \in OffMode, ChooseMode(f, mode)
  PROVE  ChoicesKept
<1>. DEFINE o == entry.options
            options == OptionsOfMode(o, mode)
<1>1. /\ Exists /\ Close(f) /\ UNCHANGED catalog /\ Update(entry.data, options)
      /\ history' = [history EXCEPT !.off = mode]
  BY DEF ChooseMode, Store
<1>2. /\ history \in HistoryRecord /\ o \in Options /\ entry.data \in Setting
      /\ Wishes(o, history.decided)
  BY <1>1 DEF ChoicesInv, TypedInv
<1>3. /\ options \in Options /\ options.off = mode /\ options.exports = o.exports
      /\ options.lists = o.lists /\ options.imported = o.imported
      /\ options.excluded = o.excluded
  BY <1>2 DEF OptionsOfMode, Options
<1>. HIDE DEF options
<1>4. Wishes(options, history.decided)
  BY <1>2, <1>3 DEF Wishes, Chosen, Hidden
<1>5. /\ history' \in HistoryRecord /\ history'.overlapped = history.overlapped
      /\ history'.off = mode /\ history'.decided = history.decided
  BY <1>1, <1>2 DEF HistoryRecord
<1>. QED BY <1>1, <1>2, <1>3, <1>4, <1>5, BindingsLeft

LEMMA SelectDevicesKeepsChoices ==
  ASSUME ChoicesInv, NEW f \in Flow, NEW selected \in SUBSET Id, NEW auto \in BOOLEAN,
         SelectDevices(f, selected, auto)
  PROVE  ChoicesKept
<1>. DEFINE o == entry.options
            objects == flows[f].objects
            listed == ListedDevices(o, objects)
            options == OptionsSelecting(o, objects, selected, auto)
            decided == [t \in Id |-> IF t \in selected THEN "chosen"
                                     ELSE IF t \in listed THEN "refused"
                                     ELSE history.decided[t]]
<1>1. /\ Exists /\ Close(f) /\ UNCHANGED catalog /\ Update(entry.data, options)
      /\ selected \subseteq listed
      /\ history' = [history EXCEPT !.decided = decided]
  BY DEF SelectDevices, Store
<1>2. /\ history \in HistoryRecord /\ o \in Options /\ entry.data \in Setting
      /\ o.off = history.off /\ Wishes(o, history.decided)
  BY <1>1 DEF ChoicesInv, TypedInv
<1>3. objects \in SUBSET Id
  BY DEF ChoicesInv, TypedInv, FlowRecord
<1>. HIDE DEF o, objects
<1>4. /\ options \in Options /\ options.exports = o.exports /\ options.off = o.off
      /\ \A t \in selected : Chosen(options, t)
      /\ \A t \in listed \ selected : Hidden(options, t)
      /\ \A t : t \notin listed =>
           ~Chosen(o, t) /\ (Hidden(o, t) => Hidden(options, t))
  BY <1>1, <1>2, <1>3, SelectingStored
<1>5. decided \in [Id -> {"nothing", "chosen", "refused", "exported"}]
  BY <1>2 DEF HistoryRecord
<1>. HIDE DEF options, listed
<1>6. Wishes(options, decided)
  BY <1>1, <1>2, <1>4 DEF Wishes
<1>. HIDE DEF decided
<1>7. /\ history' \in HistoryRecord /\ history'.overlapped = history.overlapped
      /\ history'.off = history.off /\ history'.decided = decided
  BY <1>1, <1>2, <1>5 DEF HistoryRecord
<1>. QED BY <1>1, <1>2, <1>4, <1>6, <1>7, BindingsLeft DEF o

(* Objects become exports: their decision is overridden.                     *)
LEMMA ReservedTyped ==
  ASSUME ChoicesInv, NEW targets
  PROVE  /\ Reserved(targets) \in [Id -> {"nothing", "chosen", "refused", "exported"}]
         /\ \A t \in Id : Reserved(targets)[t] = IF t \in targets THEN "exported"
                                                 ELSE history.decided[t]
BY DEF Reserved, ChoicesInv, TypedInv, HistoryRecord

LEMMA DeleteBindingKeepsChoices ==
  ASSUME ChoicesInv, NEW f \in Flow, DeleteBinding(f)
  PROVE  ChoicesKept
<1>. DEFINE o == entry.options
            old == flows[f].managed
            options == OptionsDeleting(o, old)
            decided == Reserved({old})
<1>1. /\ Exists /\ Close(f) /\ UNCHANGED catalog /\ Update(entry.data, options)
      /\ old \in TargetsOf(InForce)
      /\ history' = [history EXCEPT !.decided = decided]
  BY DEF DeleteBinding, Store
<1>2. /\ history \in HistoryRecord /\ o \in Options /\ entry.data \in Setting
      /\ o.off = history.off /\ Wishes(o, history.decided)
  BY <1>1 DEF ChoicesInv, TypedInv
<1>3. o.exports \in Seq(Binding) BY <1>2 DEF Options
<1>4. /\ InForce = ExportBindings(o.exports) /\ InForce \in Seq(Binding)
      /\ ToSet(InForce) \subseteq ToSet(o.exports)
  BY <1>3, InForceIsStored DEF InForce
<1>5. old \in Id
  BY <1>1, <1>4, TargetsTyped
<1>. HIDE DEF old, o
<1>6. /\ options \in Options /\ options.off = o.off
      /\ NoClash(options.exports)
      /\ ToSet(options.exports) = {b \in ToSet(InForce) : b.target # old}
      /\ \A t : Chosen(o, t) /\ t # old => Chosen(options, t)
      /\ \A t : Hidden(o, t) => Hidden(options, t)
      /\ Hidden(options, old)
  BY <1>1, <1>2, <1>4, <1>5, DeletingStored
<1>. HIDE DEF options
<1>7. Wishes(options, decided)
  BY <1>2, <1>6, ReservedTyped DEF Wishes
<1>8. decided \in [Id -> {"nothing", "chosen", "refused", "exported"}]
  BY ReservedTyped
<1>. HIDE DEF decided
<1>9. /\ history' \in HistoryRecord /\ history'.overlapped = history.overlapped
      /\ history'.off = history.off /\ history'.decided = decided
  BY <1>1, <1>2, <1>8 DEF HistoryRecord
<1>10. /\ {"state", "data", "options"} \subseteq DOMAIN entry' /\ Exists'
       /\ entry'.data = entry.data /\ entry'.options = options
  BY <1>1, UpdateStores
<1>11. DistinctInv /\ ~history'.overlapped =>
         \A g \in Flow : Apart(flows[g], options.exports)
  BY <1>1, <1>4, <1>6, <1>9 DEF DistinctInv, Apart, o
<1>. QED BY <1>1, <1>2, <1>6, <1>7, <1>9, <1>10, <1>11, ChoiceStored

(* The options after a binding was tested, whether it is new or replaces     *)
(* another.                                                                  *)
LEMMA TestedOptions ==
  ASSUME NEW o \in Options, NEW b \in Binding, NEW managed \in Id \cup {None}
  PROVE  LET n == IF managed = None THEN OptionsAdding(o, b)
                  ELSE OptionsReplacing(o, managed, b)
             q == ExportBindings(o.exports)
         IN  /\ n \in Options /\ n.off = o.off /\ n.exports \in Seq(Binding)
             /\ n.exports = IF managed = None THEN Append(q, b) ELSE Replaced(q, managed, b)
             /\ \A t : Chosen(o, t) /\ t \notin TargetsOf(n.exports) => Chosen(n, t)
             /\ \A t : Hidden(o, t) => Hidden(n, t)
             /\ \A t \in TargetsOf(n.exports) \cup TargetsOf(q) : Hidden(n, t)
<1>1. CASE managed = None
  <2>1. OptionsAdding(o, b).exports \in Seq(Binding) BY AddingStored DEF Options
  <2>. QED BY <1>1, <2>1, AddingStored
<1>2. CASE managed # None
  <2>1. managed \in Id BY <1>2
  <2>. QED BY <1>2, <2>1, ReplacingStored
<1>. QED BY <1>1, <1>2

LEMMA BindingTestedKeepsChoices ==
  ASSUME ChoicesInv, NEW f \in Flow, BindingTested(f)
  PROVE  ChoicesKept
<1>. DEFINE o == entry.options
            flow == flows[f]
            managed == flow.managed
            b == [source |-> flow.source, target |-> flow.target]
            options == IF managed = None THEN OptionsAdding(o, b)
                       ELSE OptionsReplacing(o, managed, b)
            reserved == TargetsOf(entry'.options.exports)
                          \cup ({managed} \cap TargetsOf(InForce))
            decided == Reserved(reserved)
            overlapped == history.overlapped \/ \E g \in Flow \ {f} : Testing(g)
<1>1. /\ Exists /\ Close(f) /\ UNCHANGED catalog /\ Update(entry.data, options)
      /\ flow.stage = "second"
      /\ history' = [history EXCEPT !.overlapped = overlapped, !.decided = decided]
  BY DEF BindingTested, Store
<1>2. /\ history \in HistoryRecord /\ o \in Options /\ entry.data \in Setting
      /\ o.off = history.off /\ Wishes(o, history.decided)
  BY <1>1 DEF ChoicesInv, TypedInv
<1>3. FlowOK(flow) /\ UnderTest(flow)
  BY <1>1 DEF ChoicesInv, TypedInv, UnderTest
<1>4. b \in Binding /\ managed \in Id \cup {None}
  BY <1>1, <1>3 DEF FlowOK, FlowRecord, Binding
<1>5. o.exports \in Seq(Binding) BY <1>2 DEF Options
<1>6. InForce = ExportBindings(o.exports) /\ InForce \in Seq(Binding)
  BY <1>5, InForceIsStored DEF InForce
<1>7. /\ options \in Options /\ options.off = o.off /\ options.exports \in Seq(Binding)
      /\ options.exports = IF managed = None THEN Append(InForce, b)
                           ELSE Replaced(InForce, managed, b)
      /\ \A t : Chosen(o, t) /\ t \notin TargetsOf(options.exports) => Chosen(options, t)
      /\ \A t : Hidden(o, t) => Hidden(options, t)
      /\ \A t \in TargetsOf(options.exports) \cup TargetsOf(InForce) : Hidden(options, t)
  <2>. HIDE DEF b, managed, o
  <2>. QED BY <1>2, <1>4, <1>6, TestedOptions
<1>8. /\ {"state", "data", "options"} \subseteq DOMAIN entry' /\ Exists'
      /\ entry'.data = entry.data /\ entry'.options = options
  <2>. HIDE DEF options
  <2>. QED BY <1>1, UpdateStores
<1>. HIDE DEF options, o
<1>9. Wishes(options, decided)
  <2>1. ASSUME NEW t \in Id, t \in reserved PROVE Hidden(options, t)
    BY <1>7, <1>8, <2>1
  <2>2. ASSUME NEW t \in Id, t \notin reserved
        PROVE  /\ Chosen(o, t) => Chosen(options, t)
               /\ Hidden(o, t) => Hidden(options, t)
    BY <1>7, <1>8, <2>2
  <2>. HIDE DEF reserved
  <2>. QED BY <1>2, <2>1, <2>2, ReservedTyped DEF Wishes
<1>10. decided \in [Id -> {"nothing", "chosen", "refused", "exported"}]
  BY ReservedTyped
<1>11. overlapped \in BOOLEAN
  BY <1>2 DEF HistoryRecord
<1>. HIDE DEF decided, overlapped
<1>12. /\ history' \in HistoryRecord /\ history'.overlapped = overlapped
       /\ history'.off = history.off /\ history'.decided = decided
  BY <1>1, <1>2, <1>10, <1>11 DEF HistoryRecord
<1>13. ASSUME DistinctInv, ~overlapped
       PROVE  /\ NoClash(options.exports)
              /\ \A g \in Flow \ {f} : Apart(flows[g], options.exports)
  <2>1. ~history.overlapped /\ \A g \in Flow \ {f} : ~Testing(g)
    BY <1>13 DEF overlapped
  <2>2. NoClash(o.exports) /\ Apart(flow, o.exports)
    BY <1>1, <1>13, <2>1 DEF DistinctInv, o
  <2>3. InForce = o.exports
    BY <1>5, <1>6, <2>2, AllInForce
  <2>4. \A a \in ToSet(InForce) : a.target # managed => ~Clashes(a, b)
    BY <1>3, <2>2, <2>3 DEF Apart, Clashes
  <2>5. CASE managed = None
    <3>1. \A a \in ToSet(InForce) : a.target # None
      <4>1. \A a \in ToSet(InForce) : a \in Binding BY <1>6 DEF ToSet
      <4>. QED BY <4>1, FlowAssumption DEF Binding
    <3>2. \A a \in ToSet(InForce) : ~Clashes(a, b) BY <2>4, <2>5, <3>1
    <3>. HIDE DEF b, managed
    <3>3. NoClash(Append(InForce, b)) BY <1>4, <1>6, <2>2, <2>3, <3>2, AddedApart
    <3>4. NoClash(options.exports) BY <1>7, <2>5, <3>3
    <3>. QED BY <2>1, <3>4 DEF Apart, UnderTest, Testing
  <2>6. CASE managed # None
    <3>. HIDE DEF b, managed
    <3>1. NoClash(Replaced(InForce, managed, b))
      BY <1>4, <1>6, <2>2, <2>3, <2>4, ReplacedApart
    <3>2. NoClash(options.exports) BY <1>7, <2>6, <3>1
    <3>. QED BY <2>1, <3>2 DEF Apart, UnderTest, Testing
  <2>. QED BY <2>5, <2>6
<1>. QED BY <1>1, <1>2, <1>7, <1>8, <1>9, <1>12, <1>13, ChoiceStored

-----------------------------------------------------------------------------
(* Steps of a flow that store nothing.                                       *)

(* A flow that is not under test, and one that is closed, may come next.     *)
LEMMA FlowMovesQuietly ==
  ASSUME ChoicesInv, NEW f \in Flow, NEW flow, FlowOK(flow), ~UnderTest(flow),
         Become(f, flow), UNCHANGED <<entry, history>>, catalog' \subseteq Id
  PROVE  ChoicesKept
BY FlowMoves DEF Apart

LEMMA OpeningKeepsChoices ==
  ASSUME ChoicesInv, LifeInv, NEW f \in Flow, NEW kind \in Kind,
         \/ kind \in {"general", "devices", "create", "link"} /\ OpenOptions(f, kind)
         \/ kind \in {"change", "rebind", "delete"} /\ OpenManaged(f, kind)
         \/ \E data \in Setting : OpenSession(f, kind, data)
  PROVE  ChoicesKept
<1>1. current \in Nat
  <2>1. PICK S : runtimes \in Seq(S) BY DEF LifeInv, RuntimesInv
  <2>. QED BY <2>1 DEF LifeInv, EntryInv
<1>2. catalog \in SUBSET Id /\ (Exists => entry.data \in Setting)
  BY DEF ChoicesInv, TypedInv
<1>3. ASSUME OpenOptions(f, kind), kind \in {"general", "devices", "create", "link"}
      PROVE  ChoicesKept
  <2>. DEFINE flow == [Opened(kind) EXCEPT
                !.stage = "discovering",
                !.data = IF entry.state = "loaded" THEN None ELSE entry.data,
                !.client = IF entry.state = "loaded" THEN current ELSE 0,
                !.objects = IF entry.state = "loaded" THEN catalog ELSE {}]
  <2>1. Become(f, flow) /\ UNCHANGED <<entry, history, catalog>> /\ Exists
    BY <1>3 DEF OpenOptions
  <2>2. FlowOK(flow) /\ ~UnderTest(flow)
    BY <1>1, <1>2, <1>3, <2>1 DEF FlowOK, FlowRecord, UnderTest, Opened, Closed
  <2>. HIDE DEF flow
  <2>. QED BY <1>2, <2>1, <2>2, FlowMovesQuietly
<1>4. ASSUME OpenManaged(f, kind), kind \in {"change", "rebind", "delete"}
      PROVE  ChoicesKept
  <2>1. PICK t \in TargetsOf(InForce) :
          Become(f, [Opened(kind) EXCEPT
            !.stage = IF kind = "rebind" THEN "discovering" ELSE "form", !.managed = t,
            !.data  = IF kind # "rebind" \/ entry.state = "loaded" THEN None ELSE entry.data,
            !.client = IF kind = "rebind" /\ entry.state = "loaded" THEN current ELSE 0,
            !.objects = IF kind = "rebind" /\ entry.state = "loaded" THEN catalog ELSE {}])
    BY <1>4 DEF OpenManaged
  <2>. DEFINE flow == [Opened(kind) EXCEPT
            !.stage = IF kind = "rebind" THEN "discovering" ELSE "form", !.managed = t,
            !.data  = IF kind # "rebind" \/ entry.state = "loaded" THEN None ELSE entry.data,
            !.client = IF kind = "rebind" /\ entry.state = "loaded" THEN current ELSE 0,
            !.objects = IF kind = "rebind" /\ entry.state = "loaded" THEN catalog ELSE {}]
  <2>2. UNCHANGED <<entry, history, catalog>> /\ Exists BY <1>4 DEF OpenManaged
  <2>3. t \in Id
    <3>1. entry.options.exports \in Seq(Binding) BY <2>2 DEF ChoicesInv, TypedInv, Options
    <3>2. InForce \in Seq(Binding) BY <3>1, InForceIsStored DEF InForce
    <3>. QED BY <2>1, <3>2, TargetsTyped
  <2>4. FlowOK(flow) /\ ~UnderTest(flow)
    BY <1>1, <1>2, <1>4, <2>2, <2>3 DEF FlowOK, FlowRecord, UnderTest, Opened, Closed
  <2>5. Become(f, flow) BY <2>1
  <2>. HIDE DEF flow
  <2>. QED BY <1>2, <2>2, <2>4, <2>5, FlowMovesQuietly
<1>5. ASSUME NEW data \in Setting, OpenSession(f, kind, data) PROVE ChoicesKept
  <2>. DEFINE flow == [Opened(kind) EXCEPT !.stage = "session", !.data = data]
  <2>1. Become(f, flow) /\ UNCHANGED <<entry, history, catalog>>
    BY <1>5 DEF OpenSession
  <2>2. FlowOK(flow) /\ ~UnderTest(flow)
    BY DEF FlowOK, FlowRecord, UnderTest, Opened, Closed
  <2>. HIDE DEF flow
  <2>. QED BY <1>2, <2>1, <2>2, FlowMovesQuietly
<1>. QED BY <1>3, <1>4, <1>5

(* Discovery, and forms that are given up.                                   *)
LEMMA DiscoveryKeepsChoices ==
  ASSUME ChoicesInv, NEW f \in Flow,
         Discovered(f) \/ Abandon(f) \/ SetUpInitially(f)
  PROVE  ChoicesKept
<1>1. FlowOK(flows[f]) /\ catalog \in SUBSET Id
  BY DEF ChoicesInv, TypedInv
<1>2. CASE Discovered(f)
  <2>1. PICK objects \in {flows[f].objects, catalog} :
          Become(f, [flows[f] EXCEPT !.stage = "form", !.client = 0, !.data = None,
                                     !.objects = objects])
    BY <1>2 DEF Discovered
  <2>. DEFINE flow == [flows[f] EXCEPT !.stage = "form", !.client = 0, !.data = None,
                                       !.objects = objects]
  <2>2. UNCHANGED <<entry, history, catalog>> /\ flows[f].stage = "discovering"
    BY <1>2 DEF Discovered, entryVars
  <2>3. FlowOK(flow) /\ ~UnderTest(flow)
    BY <1>1, <2>2 DEF FlowOK, FlowRecord, UnderTest
  <2>4. Become(f, flow) BY <2>1
  <2>. HIDE DEF flow
  <2>. QED BY <1>1, <2>2, <2>3, <2>4, FlowMovesQuietly
<1>3. CASE Abandon(f)
  <2>1. Become(f, Closed) /\ UNCHANGED <<entry, history, catalog>>
    BY <1>3 DEF Abandon, entryVars, Close
  <2>. QED BY <1>1, <2>1, ClosedOK, FlowMovesQuietly
<1>4. CASE SetUpInitially(f)
  <2>. DEFINE flow == [flows[f] EXCEPT !.stage = "form", !.objects = catalog]
  <2>1. Become(f, flow) /\ UNCHANGED <<entry, history, catalog>> /\ flows[f].stage = "session"
    BY <1>4 DEF SetUpInitially, entryVars, In
  <2>2. FlowOK(flow) /\ ~UnderTest(flow)
    BY <1>1, <2>1 DEF FlowOK, FlowRecord, UnderTest
  <2>. HIDE DEF flow
  <2>. QED BY <1>1, <2>1, <2>2, FlowMovesQuietly
<1>. QED BY <1>2, <1>3, <1>4

(* A test begins for a binding that is apart from those in force, which are  *)
(* all of the stored ones while no two flows have overlapped.                *)
LEMMA BeginTestKeepsChoices ==
  ASSUME ChoicesInv, LifeInv, NEW f \in Flow, NEW source \in Source, NEW target,
         flows[f].stage = "form", flows[f].kind # "initial", BeginTest(f, source, target),
         IF flows[f].kind = "create" THEN target = None ELSE target \in Id,
         target = None \/ TargetFree(target, flows[f].managed)
  PROVE  ChoicesKept
<1>. DEFINE flow == [flows[f] EXCEPT !.stage = "first", !.source = source,
                                     !.target = target, !.client = current]
<1>1. FlowOK(flows[f]) /\ catalog \in SUBSET Id
  BY DEF ChoicesInv, TypedInv
<1>2. /\ Become(f, flow) /\ UNCHANGED <<entry, history, catalog>>
      /\ SourceFree(source, flows[f].managed)
  BY DEF BeginTest, entryVars
<1>3. current \in Nat
  <2>1. PICK S : runtimes \in Seq(S) BY DEF LifeInv, RuntimesInv
  <2>. QED BY <2>1 DEF LifeInv, EntryInv
<1>4. /\ flow.stage = "first" /\ flow.source = source /\ flow.target = target
      /\ flow.managed = flows[f].managed /\ flow.kind = flows[f].kind
  BY <1>1 DEF FlowOK, FlowRecord
<1>5. FlowOK(flow)
  <2>1. flow \in FlowRecord BY <1>1, <1>3 DEF FlowOK, FlowRecord
  <2>. HIDE DEF flow
  <2>. QED BY <1>1, <1>4, <2>1 DEF FlowOK, UnderTest
<1>6. ASSUME Exists, DistinctInv, ~history.overlapped
      PROVE  Apart(flow, entry.options.exports)
  <2>1. entry.options.exports \in Seq(Binding) BY <1>6 DEF ChoicesInv, TypedInv, Options
  <2>2. InForce = entry.options.exports
    BY <1>6, <2>1, AllInForce DEF DistinctInv, InForce
  <2>3. \A b \in ToSet(InForce) : b.target # None
    <3>1. \A b \in ToSet(InForce) : b \in Binding BY <2>1, <2>2 DEF ToSet
    <3>. QED BY <3>1, FlowAssumption DEF Binding
  <2>. HIDE DEF flow
  <2>. QED BY <1>2, <1>4, <2>2, <2>3 DEF Apart, SourceFree, TargetFree, TargetsOf
<1>. HIDE DEF flow
<1>. QED BY <1>1, <1>2, <1>5, <1>6, FlowMoves

LEMMA TestsBeginKeepChoices ==
  ASSUME ChoicesInv, LifeInv, NEW f \in Flow,
         \/ \E s \in Source : CreateTarget(f, s) \/ ChangeSource(f, s)
         \/ \E s \in Source, t \in Exportable : LinkTarget(f, s, t)
         \/ \E t \in Exportable : Rebind(f, t)
  PROVE  ChoicesKept
<1>1. FlowOK(flows[f]) BY DEF ChoicesInv, TypedInv
<1>2. Exists /\ flows[f].managed \in TargetsOf(InForce) => flows[f].managed \in Id
  <2>1. Exists => InForce \in Seq(Binding)
    BY InForceIsStored DEF InForce, ChoicesInv, TypedInv, Options
  <2>. QED BY <2>1, TargetsTyped
<1>3. ASSUME NEW s \in Source, CreateTarget(f, s) PROVE ChoicesKept
  BY <1>3, BeginTestKeepsChoices DEF CreateTarget, In
<1>4. ASSUME NEW s \in Source, ChangeSource(f, s) PROVE ChoicesKept
  <2>1. flows[f].managed \in Id /\ flows[f].kind = "change" /\ flows[f].stage = "form"
    BY <1>2, <1>4 DEF ChangeSource, BeginTest, Connected, Exists, In
  <2>. QED BY <1>4, <2>1, BeginTestKeepsChoices DEF ChangeSource, TargetFree
<1>5. ASSUME NEW s \in Source, NEW t \in Exportable, LinkTarget(f, s, t) PROVE ChoicesKept
  <2>1. t \in Id BY OptionsAssumption
  <2>2. TargetFree(t, flows[f].managed)
    BY <1>5 DEF LinkTarget, AvailableTargets, TargetFree
  <2>. QED BY <1>5, <2>1, <2>2, BeginTestKeepsChoices DEF LinkTarget, In
<1>6. ASSUME NEW t \in Exportable, Rebind(f, t) PROVE ChoicesKept
  <2>1. t \in Id BY OptionsAssumption
  <2>2. PICK b \in ToSet(InForce) :
          /\ In(f, "form", {"rebind"}) /\ TargetFree(t, flows[f].managed)
          /\ BeginTest(f, b.source, t)
    BY <1>6 DEF Rebind
  <2>3. b.source \in Source
    <3>1. Exists BY <2>2 DEF BeginTest, Connected, Exists
    <3>2. InForce \in Seq(Binding)
      BY <3>1, InForceIsStored DEF InForce, ChoicesInv, TypedInv, Options
    <3>3. b \in Binding BY <3>2 DEF ToSet
    <3>. QED BY <3>3 DEF Binding
  <2>. QED BY <2>1, <2>2, <2>3, BeginTestKeepsChoices DEF In
<1>. QED BY <1>3, <1>4, <1>5, <1>6

(* The answers of the controller within a test.                              *)
LEMMA AnswersKeepChoices ==
  ASSUME ChoicesInv, NEW f \in Flow,
         \/ TargetRead(f) \/ \E id \in Exportable : TargetCreated(f, id)
         \/ \E created \in {{}} \cup {{t} : t \in Exportable \ catalog} : TestFails(f, created)
  PROVE  ChoicesKept
<1>1. FlowOK(flows[f]) /\ catalog \in SUBSET Id
  BY DEF ChoicesInv, TypedInv
<1>2. CASE TargetRead(f)
  <2>. DEFINE flow == [flows[f] EXCEPT !.stage = "second"]
  <2>1. /\ Become(f, flow) /\ UNCHANGED <<entry, history, catalog>>
        /\ flows[f].stage = "first" /\ flows[f].kind # "create"
    BY <1>2 DEF TargetRead, entryVars
  <2>2. /\ FlowOK(flow) /\ flow.source = flows[f].source /\ flow.target = flows[f].target
        /\ flow.managed = flows[f].managed
    BY <1>1, <2>1 DEF FlowOK, FlowRecord, UnderTest
  <2>3. Exists /\ DistinctInv /\ ~history.overlapped => Apart(flow, entry.options.exports)
    BY <2>1, <2>2 DEF DistinctInv, Apart, UnderTest
  <2>. HIDE DEF flow
  <2>. QED BY <1>1, <2>1, <2>2, <2>3, FlowMoves
<1>3. ASSUME NEW id \in Exportable, TargetCreated(f, id) PROVE ChoicesKept
  <2>. DEFINE again == [flows[f] EXCEPT !.stage = "form", !.source = None, !.client = 0]
              flow == [flows[f] EXCEPT !.stage = "second", !.target = id]
  <2>1. /\ UNCHANGED <<entry, history>> /\ catalog' = catalog \cup {id}
        /\ flows[f].stage = "first" /\ flows[f].kind = "create"
        /\ Become(f, IF TargetFree(id, None) THEN flow ELSE again)
    BY <1>3 DEF TargetCreated, entryVars, In
  <2>2. id \in Id /\ catalog' \subseteq Id
    BY <1>1, <2>1, OptionsAssumption
  <2>3. CASE ~TargetFree(id, None)
    <3>1. FlowOK(again) /\ ~UnderTest(again)
      BY <1>1, <2>1 DEF FlowOK, FlowRecord, UnderTest
    <3>. HIDE DEF again
    <3>. QED BY <2>1, <2>2, <2>3, <3>1, FlowMovesQuietly
  <2>4. CASE TargetFree(id, None)
    <3>1. /\ FlowOK(flow) /\ flow.source = flows[f].source /\ flow.target = id
          /\ flow.managed = None /\ flows[f].managed = None
      BY <1>1, <2>1, <2>2 DEF FlowOK, FlowRecord, UnderTest
    <3>2. ASSUME Exists, DistinctInv, ~history.overlapped
          PROVE  Apart(flow, entry.options.exports)
      <4>1. entry.options.exports \in Seq(Binding)
        BY <3>2 DEF ChoicesInv, TypedInv, Options
      <4>2. InForce = entry.options.exports
        BY <3>2, <4>1, AllInForce DEF DistinctInv, InForce
      <4>3. \A b \in ToSet(InForce) : b.target # id
        BY <2>2, <2>4, FlowAssumption DEF TargetFree, TargetsOf
      <4>4. Apart(flows[f], entry.options.exports)
        BY <3>2 DEF DistinctInv
      <4>. HIDE DEF flow
      <4>. QED BY <2>1, <3>1, <4>2, <4>3, <4>4 DEF Apart, UnderTest
    <3>. HIDE DEF flow
    <3>. QED BY <2>1, <2>2, <2>4, <3>1, <3>2, FlowMoves
  <2>. QED BY <2>3, <2>4
<1>4. ASSUME NEW created \in {{}} \cup {{t} : t \in Exportable \ catalog},
             TestFails(f, created)
      PROVE  ChoicesKept
  <2>. DEFINE again == [flows[f] EXCEPT !.stage = "form", !.source = None,
                                        !.target = None, !.client = 0]
  <2>1. /\ UNCHANGED <<entry, history>> /\ catalog' = catalog \cup created
        /\ Become(f, again) /\ Testing(f)
    BY <1>4 DEF TestFails, entryVars
  <2>2. catalog' \subseteq Id
    BY <1>1, <2>1, OptionsAssumption
  <2>3. FlowOK(again) /\ ~UnderTest(again)
    BY <1>1, <2>1 DEF FlowOK, FlowRecord, UnderTest, Testing
  <2>. HIDE DEF again
  <2>. QED BY <2>1, <2>2, <2>3, FlowMovesQuietly
<1>. QED BY <1>2, <1>3, <1>4

-----------------------------------------------------------------------------
LEMMA FlowStepKeepsChoices ==
  ASSUME ChoicesInv, LifeInv, NEW f \in Flow, FlowStep(f)
  PROVE  ChoicesKept
<1>1. CASE \/ \E kind \in {"general", "devices", "create", "link"} : OpenOptions(f, kind)
           \/ \E kind \in {"change", "rebind", "delete"} : OpenManaged(f, kind)
           \/ \E kind \in {"initial", "reconfigure", "reauth"}, data \in Setting :
                OpenSession(f, kind, data)
  BY <1>1, OpeningKeepsChoices DEF Kind
<1>2. CASE Discovered(f) \/ Abandon(f) \/ SetUpInitially(f)
  BY <1>2, DiscoveryKeepsChoices
<1>3. CASE StoreSettings(f) \/ \E mode \in OffMode : ChooseMode(f, mode)
  BY <1>3, StoreSettingsKeepsChoices, ChooseModeKeepsChoices
<1>4. CASE \E selected \in SUBSET Id, auto \in BOOLEAN :
             \/ SelectDevices(f, selected, auto)
             \/ \E mode \in OffMode : CreateEntry(f, mode, selected, auto)
  BY <1>4, SelectDevicesKeepsChoices, CreateEntryKeepsChoices
<1>5. CASE DeleteBinding(f) \/ BindingTested(f)
  BY <1>5, DeleteBindingKeepsChoices, BindingTestedKeepsChoices
<1>6. CASE \/ \E s \in Source : CreateTarget(f, s) \/ ChangeSource(f, s)
           \/ \E s \in Source, t \in Exportable : LinkTarget(f, s, t)
           \/ \E t \in Exportable : Rebind(f, t)
  BY <1>6, TestsBeginKeepChoices
<1>7. CASE \/ TargetRead(f) \/ \E id \in Exportable : TargetCreated(f, id)
           \/ \E created \in {{}} \cup {{t} : t \in Exportable \ catalog} :
                TestFails(f, created)
  BY <1>7, AnswersKeepChoices
<1>. QED BY <1>1, <1>2, <1>3, <1>4, <1>5, <1>6, <1>7 DEF FlowStep

LEMMA NextKeepsChoices ==
  ASSUME LifeInv, ChoicesInv, [Next]_vars
  PROVE  ChoicesKept
<1>1. {"state", "data", "options"} \subseteq DOMAIN entry BY DEF ChoicesInv, TypedInv
<1>2. CASE UNCHANGED vars
  BY <1>1, <1>2, UntouchedChoices DEF vars, entryVars, Exists
<1>3. ASSUME NEW l, Listener(l), UNCHANGED <<flows, catalog, history>> PROVE ChoicesKept
  BY <1>3, ListenerKeepsEntry, MovingStateKeepsChoices DEF OnlyStateMoves
<1>4. CASE EntryStep /\ UNCHANGED <<flows, catalog, history>>
  BY <1>4, EntryStepOnlyMovesState, MovingStateKeepsChoices
<1>5. ASSUME NEW f \in Flow, FlowStep(f) PROVE ChoicesKept
  BY <1>5, FlowStepKeepsChoices
<1>. QED BY <1>2, <1>3, <1>4, <1>5 DEF Next

LEMMA InitChoices ==
  ASSUME NEW objects \in SUBSET Id, NEW settings \in SUBSET Setting,
         NEW stored \in SUBSET Options, NEW bounds,
         InitWith(objects, settings, stored, bounds)
  PROVE  /\ ChoicesInv
         /\ (\A o \in stored : NoClash(o.exports)) => DistinctInv
<1>1. /\ catalog = objects /\ flows = [f \in Flow |-> Closed]
      /\ history = [NoHistory EXCEPT !.off = IF entry.state = "none" THEN None
                                             ELSE entry.options.off]
  BY DEF InitWith
<1>2. CASE entry = [state |-> "none", data |-> None, options |-> NoOptions, version |-> 0]
  <2>1. /\ history \in HistoryRecord /\ \A t \in Id : history.decided[t] = "nothing"
        /\ ~Exists /\ {"state", "data", "options"} \subseteq DOMAIN entry
    BY <1>1, <1>2 DEF NoHistory, HistoryRecord, Exists
  <2>2. TypedInv BY <1>1, <2>1, ClosedOK DEF TypedInv, FlowOK
  <2>. QED BY <2>1, <2>2 DEF ChoicesInv, DistinctInv
<1>3. ASSUME NEW d \in settings, NEW o \in stored,
             entry = [state |-> "not_loaded", data |-> d, options |-> o, version |-> 1]
      PROVE  /\ ChoicesInv
             /\ (\A p \in stored : NoClash(p.exports)) => DistinctInv
  <2>1. /\ entry.state = "not_loaded" /\ entry.data = d /\ entry.options = o
        /\ {"state", "data", "options"} \subseteq DOMAIN entry
    BY <1>3
  <2>2. o \in Options /\ d \in Setting /\ o.off \in OffMode BY DEF Options
  <2>3. /\ history \in HistoryRecord /\ \A t \in Id : history.decided[t] = "nothing"
        /\ history.off = o.off
    BY <1>1, <2>1, <2>2 DEF NoHistory, HistoryRecord
  <2>4. TypedInv BY <1>1, <2>1, <2>2, <2>3, ClosedOK DEF TypedInv, FlowOK
  <2>5. ChoicesInv BY <2>1, <2>3, <2>4 DEF ChoicesInv, Wishes
  <2>6. \A f \in Flow : Apart(flows[f], o.exports) BY <1>1, ClosedOK DEF Apart
  <2>. QED BY <2>1, <2>5, <2>6 DEF DistinctInv
<1>. QED BY <1>2, <1>3 DEF InitWith

(* The off mode and the objects that the user chose in one flow, refused, or *)
(* exported to, are kept by every other flow, however many are open at once  *)
(* and in whichever order they store (flows/options.py, flows/export.py).    *)
THEOREM WishesAreKept ==
  ASSUME NEW objects \in SUBSET Id, NEW settings \in SUBSET Setting,
         NEW stored \in SUBSET Options, NEW bounds
  PROVE  Initially(objects, settings, stored, bounds) => []WishesHold
<1>1. InitWith(objects, settings, stored, bounds) => LifeInv /\ ChoicesInv
  BY InitLife, InitChoices
<1>2. LifeInv /\ ChoicesInv /\ [Next]_vars => LifeInv' /\ ChoicesInv'
  BY NextKeepsLife, NextKeepsChoices DEF ChoicesKept
<1>3. ChoicesInv => WishesHold
  BY ChosenIsImported DEF ChoicesInv, Wishes, WishesHold
<1>. QED BY <1>1, <1>2, <1>3, PTL DEF Initially

(* Bindings that clash come of two tests that overlapped only: otherwise the *)
(* stored bindings are those in force, in their order (flows/export.py).     *)
THEOREM DuplicatesNeedOverlap ==
  ASSUME NEW objects \in SUBSET Id, NEW settings \in SUBSET Setting,
         NEW stored \in SUBSET Options, NEW bounds,
         \A o \in stored : NoClash(o.exports)
  PROVE  Initially(objects, settings, stored, bounds)
           => []DuplicatesOnlyFromOverlappingTests
<1>1. InitWith(objects, settings, stored, bounds) => LifeInv /\ ChoicesInv /\ DistinctInv
  BY InitLife, InitChoices
<1>2. LifeInv /\ ChoicesInv /\ DistinctInv /\ [Next]_vars
        => LifeInv' /\ ChoicesInv' /\ DistinctInv'
  BY NextKeepsLife, NextKeepsChoices DEF ChoicesKept
<1>3. ChoicesInv /\ DistinctInv => DuplicatesOnlyFromOverlappingTests
  <2>1. ChoicesInv /\ Exists => entry.options.exports \in Seq(Binding)
    BY DEF ChoicesInv, TypedInv, Options
  <2>. QED BY <2>1, AllInForce
           DEF DistinctInv, DuplicatesOnlyFromOverlappingTests, InForce
<1>. QED BY <1>1, <1>2, <1>3, PTL DEF Initially
=============================================================================
