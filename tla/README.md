# A verification project for ZONT Local

ZONT Local is a Home Assistant integration (`src/custom_components/zont_local`) that talks to a ZONT heating
controller over one WebSocket of the local network. This directory holds TLA+ modules that model its
concurrent core, the TLC configurations that check them on small instances, and proofs about them that
the TLA+ proof system checks for every value of the constants. The code is Python on `asyncio`: one task
runs at a time, and what runs between two suspension points is one action of a model.

Paths below are relative to `src/custom_components/zont_local/` unless they begin with `src/`.

## 1. The system

### Components, their state and their operations

| Component | State | Operations | What makes it hard |
|---|---|---|---|
| **Protocol client** `protocol/client.py`, `protocol/session.py` | the socket `_ws`, `_is_connected`, the reconnect index, the stop event, one pending table per kind of request, the transaction lock, listeners, error bookkeeping | `async_supervise`, `async_stop`, six kinds of request, the reader task | supervisor, reader and callers interleave at every `await`; several kinds of answer carry no correlation; timeouts, cancellations and connection faults race with answers |
| **Connection manager** `connection.py` | the supervisor task, the removal callbacks | `async_start`, `async_shutdown` | shutdown while the supervisor opens, closes or pauses |
| **Snapshot coordinator** `coordinator.py`, `updater.py`, `protocol/metadata.py` | the snapshot `data`, `last_update_success`, the confirmed catalog, deferred objects, stale marks, pending security zones | polling, merging pushes and targeted reads, zone refresh, connection changes | a poll takes dozens of requests, during which pushes, commands and disconnections change the snapshot it will replace |
| **Object entity reconciler** `object_platform.py` | `_entities`, `_lock`, `_scheduled_task`, `_stopped` | reconcile (awaited or scheduled), shutdown | removals are awaited; two kinds of reconcile share a platform; cancellation |
| **Config entry lifecycle** `__init__.py`, `runtime.py` | the entry's state, the runtime of the last set-up, the applied options, `options_lock` | set-up and its clean-up, update listener, unload, reload, removal | options change while older ones are being applied; a reload that the listener itself awaits; a set-up that fails half way |
| **Export manager** `export/` | bindings, resolved sources, validated, active and broken targets, `_sync_lock`, its tasks, repair issues | start, reconfigure, shutdown, source and registry events, heartbeat, connection changes | every event starts a job that waits for one lock, while bindings and the connection change |
| **Temporary sessions and discovery** `protocol/session.py`, `protocol/discovery.py`, `flows/discovery.py` | a short-lived socket | bounded discovery for the flows | choosing between the client of the loaded entry and a second connection, either of which may end under the flow |
| **Config and options flows** `config_flow.py`, `flows/` | what the form has discovered, the binding under way, the captured client | set-up, reconfiguration, reauthentication, general options, devices, five kinds of export step | several flows at once, each with awaits between what it read of the options and what it stores; the entry reloads or goes away |
| **Import rules** `object_import.py` | none | which objects options import | options of older versions; objects reserved for an export |
| **Parsers** `protocol/objects/` | none | a whole or partial message becomes the state of an object of its type | every key missing, unreadable or retained, on every path |
| **Heating rules** `protocol/heating_config.py`, `protocol/heating_modes.py`, `issues.py` | none | the setpoint range of a circuit, the modes it may use, the repair issue | a form, an entity and a poll judge the same mode by different rules |
| **Control confirmation** `heating_control.py`, `relay_control.py`, `user_element_control.py`, `security_zone_control.py` | none | command, acknowledgement, confirming read, check | pushes, polls and changes at the controller between each two of them |
| **Entities** `entities/` | what a heating entity remembers of the active circuit | the calls of relays, zones, buttons, climates and water heaters | what is remembered comes from partial, polled and unavailable snapshots |
| **Services and diagnostics** `services.py`, `diagnostics.py` | none | thin calls, read-only output | nothing of their own |

### How they interact

The client calls its *message listeners* and *connection listeners* synchronously. The coordinator listens to
both: a message is merged into the snapshot or triggers a zone refresh, a new connection marks the
configuration stale and asks for a poll, a lost one makes the coordinator unsuccessful. The connection
manager turns connection changes into a dispatcher signal, which the export manager hears. A new snapshot calls
the coordinator's listeners: the platforms' reconcilers schedule a background reconcile. Saved options call the
update listener `_async_entry_updated`, which holds `options_lock` and reconfigures the export manager, calls the
coordinator's listeners, and awaits a reconcile of every platform. `ZontRuntimeData.async_shutdown` stops
reconcilers, export manager, coordinator and connection in this order.

## 2. Modules

| Module | Models | Abstract specification | Proofs |
|---|---|---|---|
| `ZontClient` | protocol client and the part of the connection manager that stops it | `RequestQueue` | `ZontClientProofs` |
| `SnapshotCoordinator` | coordinator, updater, metadata refreshers | | `SnapshotCoordinatorProofs` |
| `ObjectReconciler` | one platform's reconciler, the update listener's reconcile, the unload | | `ObjectReconcilerProofs` |
| `ExportManager` | export manager with its events and jobs | | `ExportManagerProofs` |
| `ObjectStates` | parsers and the merge of one message (operators) | | through `ObjectControl` |
| `HeatingRules` | setpoint range, applicable and off modes, the repair issue (operators) | | `ObjectControlProofs` |
| `ObjectControl` | the calls of the entities and their confirmation; extends both | | `ObjectControlProofs` |
| `EntryOptions` | import rules, bindings in force, what each flow stores (operators) | | `EntryOptionsProofs` |
| `ConfigEntry` | set-up, unload, reload, removal, update listener, connection and refusal; extends `EntryOptions` | | below |
| `EntryFlows` | every configuration flow over the life of the entry; extends `ConfigEntry` | | `EntryFlowsProofs`, `StoredOptionsProofs` |
| `MC...` | the constants' values and the symmetry of the instances | | |

Mutants (a definition changed as a plausible bug would change it) stand beside the definition they vary, with
"Mutant:" in their comment. No specification uses them.

### `ZontClient`

Three kinds of task have program counters: `sup` for `async_supervise`, `reader` for the connection task of the
newest socket, and `pc[r]` for the request `r`. A socket is a number; `ws` is `_ws` (0 for `None`). `pending` is
the five pending tables and fields in one function from keys to requests. `queue` and `owner` are the FIFO
`_transaction_lock`. The controller and the network are the environment: requests of a connection are read in order,
each answered once or never; object states are pushed at any time; the answer to a command means that it was accepted or refused
(`accepted`), and an object state carries what had been accepted when it was sent (`after`), not what had taken effect, which
`ObjectControl` models; the connection breaks with an ending message, or the
library's heartbeat closes the socket. A timer may expire whenever it is armed. A future that was resolved while its
waiter is cancelled or times out in the same turn of the loop has both outcomes (`Wake`, `TimeoutExpires`,
`CancelActive`).

`RequestQueue` is what the client promises its callers: one request in service, requests taken up in the order they
were made, and only in the session in which they were made. `ZontClient!ImplementsRequestQueue` is the refinement, with the
session being the current connected socket.

### `SnapshotCoordinator`

One poll runs at a time, as Home Assistant's coordinator has it; its local variables are the variables
`prev`, `got`, `toRead` and so on. Each request of a poll or targeted read is served at one moment; what a poll reads stays in its
locals until `Publish`, what a targeted read is answered is merged when its task runs again (`held`). A state is a kind and a
version that grows with every change, which lets a property say *older*. The zone refresh (`zones`,
`pendingZones`, `batch`) runs as a task of its own. `unread` and `unseen` are history variables: which refreshers have not
come to the end of a forced and whole reading since the last mark, and which zones a push asked to read and nothing has read since.

### `ObjectReconciler`

Task 0 is the reconcile the update listener awaits; tasks 1, 2, ... are those that listener calls schedule. `plan` is the
`desired` of the last reconcile to hold the lock. A removal is an `await` (`EntityRemoved`), an addition happens at once. The
unload cancels the scheduled task, which leaves the lock's queue or its removal. A task that Home Assistant may start
eagerly is modelled as one that is created and runs later or at once: the behaviours include both.

### `ExportManager`

`job`, `todo`, `at`, `step` and `value` are the job that holds `_sync_lock`; `queue` are the jobs that wait for it. Home
Assistant starts tasks eagerly, so a job is in the queue from the moment its event is handled. The code between two suspension
points of the job spans several actions (one per binding) during which `step` is `"taken"` or `"next"` and no event can
happen: those stretches are atomic. A binding whose value cannot be read costs no `await`; one that is validated or written
costs a request, which the controller serves at one moment (`ValidationServed`, `WriteServed`) and after which other
events may come before the job goes on.

### `ObjectStates`, `HeatingRules`, `ObjectControl`

`ObjectStates` has the parsers as one operator, `ParseObject(kind, message, previous, partial)`, in which a type is the set of keys it
reads, what its readers accept, and how availability follows. `Merge` is `_async_apply_object_payload`. `HeatingRules` has what the
configuration lets a circuit's entity do.

`ObjectControl` is one object of any type at the controller (`device`), in the snapshot (`object`), with the configuration that was
read of it (`config`), what its entity remembers (`memory`), and at most one call under way (`call`): sent, accepted, held (the answer of the
targeted read has arrived and its task has not run yet), done. Each entity method is an action with its refusals; the controller may
change the object, push a whole or a partial message, be polled or fail at any point. `call.seen` is a history variable: the
commanded state has been the controller's since the acknowledgement. `parked` remembers what an entity turned off, until
somebody else commands the circuit.

### `EntryOptions`, `ConfigEntry`, `EntryFlows`

`entry` is the config entry, `runtimes` the resources of each set-up with the components that are in force, `current` the
number of `entry.runtime_data`. Home Assistant runs one operation on an entry at a time (`operations`, `phase`): a set-up that succeeds or
fails, an unload that goes through the platforms and the components in `ShutdownOrder`, a reload. Each stored change calls the
update listener (`listeners`), which waits for the `options_lock` of the runtime it captured, awaits a reload for new settings or
reconfigures the export manager and then the platforms. Home Assistant starts that task at once: a call that may run first does
(stage `"called"`), one that must wait is `"queued"`. The three waits of a reconfiguration and a reconcile are what the other modules model.

`EntryFlows` puts flows on top: each slot of `flows` is one open dialogue. What a flow reads of the options it reads where the
code reads them, before or after its awaits, which is what the properties are about. `history` holds what the user decided last
about each object, and whether a flow stored a binding while another one tested its own.

## 3. What is checked

`pass` runs finish without an error. `violation` runs check a property that a docstring or document states and the
code does not keep; the counterexample is the evidence, and `PROJECT.json` quotes the text.

| Run | Result | Question |
|---|---|---|
| `client_safe` | pass | Does every call get its own answer, with lost and late answers, a stray push, timeouts and cancellations; does a read after an acknowledged command show its effect; are sockets, tables, listeners and the outage report consistent over a reconnect, a stop and a cancellation at any point; does the client implement `RequestQueue`? |
| `client_live` | pass | With a silent controller, does every call return, a stopped supervisor end, and a reachable controller get connected to again? |
| `snapshot_safe` | pass | Is a confirmed catalog always accounted for, a configuration marked stale never taken for fresh before it has been read whole, and success always a connection; is every zone trigger followed by a read; does the snapshot come to show the controller's objects? |
| `snapshot_forgets` | violation | With an unreadable catalog an object can be forgotten. |
| `reconciler_safe` | pass | Do awaited and scheduled reconciles and an unload leave each platform consistent, and does every update listener call return? |
| `reconciler_aligned` | violation | A discovery during a removal can be missed. |
| `export_safe` | pass | Is a value only sent for a configured binding to a confirmed target, and is every repair issue current? |
| `export_live` | pass | Does the last value of a source arrive without a heartbeat, and does a broken binding recover with heartbeats? |
| `export_shutdown` | violation | A reconfiguration across the shutdown subscribes again. |
| `control_safe` | pass | Does a call that returns without an error mean that the command was carried out; does an entity remember what it turned off; is a circuit that is off shown without a target; does an object that becomes unavailable keep what was known? |
| `entry_safe` | pass | Over set-ups, reloads, removals and failures, with flows that overlap: is one runtime in force at most, does what is stored take effect, does no flow undo what another decided, are stored bindings and repair issues consistent, does every operation and listener call end? |
| `entry_reauth` | violation | A reauthentication with the stored credentials leaves the entry refused. |

Some observations are in the models but have no run, since what the documents promise there is looser than a formula:

- A full poll replaces the snapshot with states it read before a push that was merged meanwhile, so a newer state can be
  overwritten by an older one until the next poll or push (`Publish`).
- A stale mark makes a coming poll read the configuration again, except for the refresher that is reading when it comes: the end of that reading
  clears the flag that the mark has set (`metadata.py:188` and `422`), although `mark_stale` says *Refresh configuration during the next
  update* (`metadata.py:126` and `231`). When nothing else is left to read, the mark itself is cleared with it, and the configuration is
  read again at the age of 15 minutes. `MarksAreHonoured` counts that reading as one after the mark; it counts no reading that failed,
  was incomplete or was not forced.
- A reconcile removes by the plan it made before its first await, also an entity that is selected again by then (`EntityRemoved`).
  Options that go from B to C and back to B while B is being applied leave the platform as the last reconcile planned it: the reconcile
  may have read C, and the calls for C and B that follow find B recorded as applied. This is why `StoredTakesEffect` asks of the entities
  only where the recorded version is the stored one. The settings, the recorded options and the export bindings it asks of every case.
- The stable window can end, and the backoff start over, while a connection that is already lost is being closed
  (`StableWindowEnds`); the outage nevertheless stays reported.
- A system command's answer does not name it. The answer of a one-way command, which nobody waits for, may resolve the system command
  that is pending, whose own answer then resolves the next one of the session; `AnswersItsOwnRequest` excepts these.
- The heartbeat of the export manager is not among the tasks that `async_shutdown` cancels (`export/manager.py:256`).
- Where a read fails, or leaves the object unavailable, the state that the snapshot retained confirms a command (`Checked`); this is
  the exemption in `ConfirmedOrUnavailable`.
- A flow uses a session of its own while the entry is loaded but not connected, and an options flow may compete with the client
  of an entry that is unloading (`OpenOptions`, `OpenSession`); `src/ARCHITECTURE.md:196` describes the choice more simply.
- A listener call that waits behind a reload does another one for the same settings, needlessly (`ListenerReloads`).
- Two export flows that are tested at once can store two bindings of one target; `export_bindings` then drops one although its
  user saw success. A changed or rebound binding that was deleted meanwhile is reported as stored and has no effect. A created object
  whose answer is lost stays at the controller without a binding (`TestFails`).
- A reload that takes the place of a reconfiguration, and an old manager that subscribed again, leave repair issues that nobody
  deletes (`orphaned`). An entry removed after a failed unload keeps its components running.
- So does a binding that a clashing one displaces before the manager has taken it up, if an issue of its target was left by the
  manager before: `export_bindings` drops it, the reconfiguration sees neither its coming nor its going, and its issue stays
  (`BindingTested`). It takes five flows over a reload, more than `entry_safe` has; the proof of `IssuesBelong` showed it, and TLC
  confirmed it from a state half way.
- An off mode that is still read but no longer applicable to a circuit raises no repair issue although the circuit's entity cannot
  turn off (`UnreportedRefusal`).

`CHECK_DEADLOCK FALSE` is in every configuration but `ControlSafe.cfg`: each of the other systems really stops, once every call
has returned, the entry is unloaded, or the bounded changes of the environment are used up.

### Bounds and why they are enough

A behaviour is cut off by what it uses. `ZontClient` and `ConfigEntry` have `Bounds`, a set of records of the calls, sockets, faults, pushes and stops
that may come together; a behaviour goes on while one of them covers it. `SnapshotCoordinator` and `ExportManager` have `Limits`, of
which a behaviour is given one at the start (`limit`). `ObjectControl` has none: its states are finite. Both let one run cover several small scenarios without their product.

- **Client.** Each call is made once. Two commands to one object and a state read are the smallest set in which a late answer to
  one can be taken for the answer of another of the same key, and a read can follow two acknowledgements; one stray push is enough to
  satisfy one read early. Two system commands beside a one-way command are the smallest set in which an
  answer nobody waits for resolves a call, whose own answer then resolves the next. These two have one connection and no stop. The others have two calls or one, with a stop, a cancelled
  supervisor, a fault and two sockets, so that requests of the old session wait across a reconnect; `client_live` has three sockets, as
  each failed call may cost one. `Delays = 1` keeps the reconnect index at its cap, where it could leave its range; the proof of
  `TypeCorrect` is for any number of delays.
- **Coordinator.** One object that appears, changes its type and goes shows every path of a poll; two changes let one happen
  before and one during the poll. A command's read is combined with one change. Two objects, a sensor and a zone, let a trigger come
  while a batch is read.
- **Reconciler.** Two identities, so that a removal of one can be followed by another; two snapshot changes and two saved
  options give two scheduled tasks beside the awaited one. The proofs show that the bounds do not matter for safety.
- **Export.** One target with two sources (of different kinds) is the smallest in which a replaced binding shares its target
  and not its repair issue; two edits let a binding go and come back while a job for it waits. `export_live` has one source, two of
  whose changes can come while its first value is sent.
- **Control.** One object of each type whose calls or values differ, with every value its keys may carry; a circuit with a comfort mode, a
  mode that disables both circuits and one that disables only this one, and five configurations that differ in the off mode, the
  applicable modes and the range. Calls, pushes, polls and failures are unbounded.
- **Entry.** Two objects and two sources are the smallest in which bindings clash by source, by target and not at all. Two flows are
  open at once; `SafeBounds` gives scenarios: three flows; two flows over a reload; a flow with an operation, a failure, new credentials
  and a repair issue; flows over a failed set-up; flows and new credentials; operations alone. `MaxRuntimes` (9) is never reached. The
  theorems of section 4 hold for any of these numbers.

### Fairness

`FairSpec` (`Fairness` in `EntryFlows`) assumes weak fairness of what the event loop runs: tasks that can run do, timers expire, sockets
close (the close has its own timeout). Nothing is assumed of the controller or the callers, except:

- `Reconnects` has strong fairness of a successful opening as a premise: a controller that is tried infinitely often is reached. The
  claim is only that the client keeps trying.
- `SnapshotCoordinator!FairSpec` and `ExportManager!FairSpec` have weak fairness of `Connects` (what `Reconnects` establishes) and
  of served requests; requests fail with the connection, whose faults are bounded. The coordinator's polls are fair, as Home Assistant
  schedules one after the other; `ConfigurationAges` is the 15-minute clock.
- `Recovers` has weak fairness of the heartbeat as a premise, which `async_track_time_interval` keeps firing. `ValuesArrive` has not: it
  says that no value waits for a heartbeat. `ZoneTriggersAreRead` counts only reads of the zone refresh, so that polls, which read the
  zones too, do not make it true.
- `EntryFlows` is fair to the operation under way and to the listener calls, which wait for nothing but each other, a bounded
  reconfiguration and bounded requests; the user may leave a form open for ever.

## 4. What is proved

`tlapm` checks every proof to the last leaf. The assumptions are the named ones of the modules (`ClientAssumption`,
`ReconcilerAssumption`, `CoordinatorAssumption`, `ExportAssumption`, `ControlAssumption`, `DeviceAssumption`, `TargetAssumption`,
`OptionsAssumption`, `FlowAssumption`: the constants have their types, the `No...` values and `None` are none of the real ones, a circuit that
is off has no target at the controller), evaluated by TLC on every run. A theorem that needs more has it as its own `ASSUME`: what the
controller can list (`Readable`), or that the bindings stored at first do not clash (`DuplicatesNeedOverlap`).

Every invariant that a run checks is also a theorem, and so are the refinement and the action property; the remaining properties
are liveness.

**`ZontClientProofs`.** `TypeCorrect` is proved by one lemma for each part of the type invariant. These inductive invariants build
on it:

- `ConnectionInv` relates the supervisor's and the reader's program counters with the sockets: which socket may be open in which
  state, that `connected` implies a current open socket, and that the listeners were told. It is needed because *no socket is
  leaked* does not survive, by itself, a cancellation that comes while the reader still closes. It gives `SocketsAreOwned` and
  `ListenersAreInformed`.
- `RequestInv` says that the holder of the lock is the only request past its queue, that a registered request is the holder under its
  own key, that nothing in the queue appears twice, and that a pending future means a connected session. It needs `ConnectionInv`: a
  reconnect could otherwise begin with a future still pending. It gives `OneIsRegistered` and `NobodyIsOrphaned`.
- `OutageInv` adds to `OutageIsReported` that the outage is already noted while the reader still closes the connection it left. It gives
  `OutagesAreReported`.
- `CallInv` says what the refinement mapping needs besides: a call that was not made has no session, and one that closes its connection
  knows how it will return. `SessionChanges`, `CallImplements` and `ConnectionImplements` map each action to a step of the queue or a
  stutter; `ImplementsTheQueue` is the refinement.
- `WireInv` says what is on its way on the newest connection: of the calls whose answers could be mixed up (not the state
  reads, which pushes satisfy anyway, nor the system commands beside a one-way one), at most one is unserved and at most one answer
  unread, that of the call which waits (`OutboxInv`, `InboxInv`). This is what closing the connection after
  a timeout or a cancellation buys (`_invalidate_connection`), and why a late answer never finds the next call. `AnswerInv` says
  which answer a resolved future got, `OrderInv` that whatever is received after the answer of a command was sent after the controller
  had accepted the command. They give `AnswersMatch` and `ReadsComeAfter`.

**`ObjectReconcilerProofs`.** `IInv` joins the type invariant with: only the holder of the lock removes, and what it removes is neither
planned nor present (`HolderRemoves`); Home Assistant has exactly the platform's entities and the one being removed, unless an
unload cancelled a removal (`EntitiesAreLive`); a scheduled task that is not done is the one the reconciler knows (`OneScheduled`); the
queue holds waiting tasks, each once (`Waiters`); an unload stops first (`Unloading`); and a task can be made within the bounds
(`TasksBounded`). Without `Waiters` a cancelled task could stay in the queue and take the lock after its end; without
`HolderRemoves` an entity could be removed that its successor's plan wants. It gives `TypeCorrect`, `PlatformSettles`, `NeverTwice` and
`UnloadEndsScheduledWork`. Lemmas on sequences (`TailFacts` to `WithoutFacts`) say what leaving the queue keeps.

**`SnapshotCoordinatorProofs`.** `Typed` is `TypeOK` with the sets that are enumerated for TLC replaced by conditions; `TypeCorrect`
is from it. `ConnectedSuccess` is inductive by itself. `MarksHonoured` needs `MarkInv`: a poll that is due finds
every flag set, so that each refresher is forced; what the relay refresher could not read, or what was marked after it had read, keeps its
flag to the end of the poll, and with it the mark (`ReadOrKept`).
`NothingForgotten` needs `CatalogInv`, what is true of the poll's locals at each of its steps, and the assumption `Readable` that
every catalog parses; the run `snapshot_forgets` shows that the assumption is needed.

**`ExportManagerProofs`.** `LockInv` is what the lock means: who waits and who holds it, that a queued reconfiguration carries a
configuration of unique sources and targets, and that the job under way works on a binding that is still configured
(`todo`, `at`). Reconfiguration takes the same lock, which is why a job never works for a replaced binding. With it
`IssuesAreCurrent` is inductive (`IssuesStayCurrent`). `OnlyConfirmedWrites` needs `TrustInv`: a target that counts as validated was confirmed
on this connection, or a job that validates it again is the next or the present one; in the moment between a new connection and its
first job the set of validated targets may be stale, and nothing else gets the lock then. `TypeCorrect` adds the types of the rest.

**`ObjectControlProofs`.** `IInv` joins the shapes of the records (`Shapes`) with: what a call holds or would be answered, if it shows the
commanded state, was so after the acknowledgement (`Seen`); a circuit that is off has no target at the controller, in the snapshot and
in the held answer (`OffInv`); what an entity remembers is what the snapshot of an active circuit shows (`Remembered`); and a
circuit that was turned off and left alone is off or as it was, in all three places (`ParkedInv`), which is what keeps an old answer from
overwriting the memory. It gives `ConfirmedCommands`, `NoTargetOfAnOffCircuit`, `RemembersAcrossOff`, and the action property
`LastKnownSurvives`. `Types` adds to `TypeOK` what the messages hold and that a command fits the object (a mode sets the circuit, a target
is a temperature); it uses `Shapes`, and gives `ControlTypes` without assuming that the states of `Device` are closed under commands.
The three places that judge an off mode (`HeatingRules`) agree as far as they do: what a form offers every circuit can use
(`OfferedIsUsable`), what a poll reports no entity uses (`ReportedIsUnusable`), and what an entity refuses unreported its circuit does not
accept (`UnreportedRefusal`).

**`EntryFlowsProofs`, `StoredOptionsProofs`.** `LifeInv` relates the entry's state, the phase of its operation and what has been stopped
so far (`Stopped`), and gives `OneRuntime`. `StoredInv` adds what makes the update listener right, for any number of calls: those of one
runtime work one at a time in their order (`Ordered`); a loaded entry whose runtime is behind the stored options has a call that will see
to it (`Owed`); a call at work captured options no newer than the stored ones (`Captured`); and a runtime that recorded the stored version
shows its options (`Recorded`). With `BindingsInv` below it gives `StoredEffective`.

What the flows store rests on `export_bindings`, a loop over the stored bindings, and on the loop that leaves one out. Both are
recursive functions (`Kept`, `Without`), and `EntryOptionsProofs` proves what they compute for every sequence: that they exist, that what
is kept are stored bindings of which no two clash, and that all are kept where none clash. The library's induction theorem cannot be used
(it takes an operator), so these lemmas go by the least counterexample (`LeastNatural`), from the theorem that a well-founded relation has
minimal elements. On them rest:

- `ChoicesInv`: options, open forms and the history are of their types, and the lists show what the user decided (`Wishes`). `WishesHold`
  alone is not inductive: an object that is imported by default would be lost when a form switches the defaults, so `Wishes` says that
  a chosen object is imported explicitly and a refused one excluded. It gives `WishesAreKept`.
- `DistinctInv`: unless two tests overlapped, the stored bindings do not clash, and what a flow tests clashes with none of them but
  the one it replaces (`Apart`); that must be kept by every other flow that stores meanwhile. It gives `DuplicatesNeedOverlap`.
- `CallsInv`: each issue that is not orphaned is `Accounted` for, by a binding in force, by the manager in force, or by a listener call that
  will drop it (`IssueInv`); a target that the manager still holds though it is deleted is dropped by a call to come (`HeldInv`), because a
  call at work captured the stored options or is followed by another (`CapturedInv`), and the bindings of a manager are those of the options
  recorded as applied (`BindingsInv`). It gives `IssuesBelong`; `EntryTypes` collects the types from all of these.

**Only model-checked.** Liveness (`RequestsReturn`, `StopEndsSupervision`, `Reconnects`, `ListenersReturn`, `ZoneTriggersAreRead`, `Converges`,
`ValuesArrive`, `Recovers`, `EverythingEnds`), which needs fairness and `ENABLED`, both out of the prover's reach.

## 5. What is not modelled, and why

- *Formats*: message texts, JSON, numbers in commands, names and the wording of issues. Whether an answer parses is a choice.
- *Home Assistant's internals*: the debouncers of refresh requests, the dispatcher, the entity registry beyond what is used. A
  zone trigger that comes while a failing refresh ends is dropped by the debouncer and waits for the next push or poll.
- *Controller information* (server, power, networks) in the coordinator: it cannot influence objects.
- *An entity whose object changes its type* keeps the entity of its old class in the reconciler; a removal that raises an exception
  is left out.
- *Reads and reconnects*: a new connection takes longer than a task needs that already has its answer; only a failing request, which
  closes its socket, may outlast it.
- *The matching of answers within a temporary session*: one flow is alone on its connection and sends its requests one after
  the other.
- *The configuration blocks* that `protocol/heating_modes.py`, `protocol/relay.py` and `protocol/heating_config.py` parse: data without
  shared state; what the rules make of them is modelled.
- *Entities that only show a value*, *descriptions*, the *device registry*, *services and diagnostics*: functions of one snapshot, or thin
  calls into the client.
- *The off-mode repair issue as a step of a poll*: the operators are there (`OffModeJudged`, `OffModeInvalid`), the issue itself has no
  state but the last judgement.

## 6. Plan

The modules of the plan are written. What is left, in the order of what it would add: a refinement that shows the reconfiguration and the
reconcile of `ExportManager` and `ObjectReconciler` to be the waits that `ConfigEntry` takes them for; the matching of answers within a
temporary session; and the configuration blocks as operators beside `HeatingRules`.
