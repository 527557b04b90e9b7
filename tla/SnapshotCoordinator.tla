------------------------- MODULE SnapshotCoordinator -------------------------
(***************************************************************************)
(* How the integration's snapshot follows the controller: the full poll     *)
(* (updater.py, metadata.py), the pushes and targeted reads that merge into *)
(* the same snapshot while a poll runs, and the coalesced re-reading of     *)
(* security zones (coordinator.py).                                         *)
(*                                                                         *)
(* Every request of a poll or a targeted read is served at one moment; what *)
(* a poll reads goes to its local variables, what a targeted read is given  *)
(* is merged when its task runs next.  A request fails when the connection  *)
(* does, which is also what a response timeout comes to (ZontClient).       *)
(*                                                                         *)
(* Abstracted: an object's state is its kind and a version that grows with *)
(* every change; the order in which a poll reads objects; system sources    *)
(* (info, server, power, Wi-Fi, Ethernet, GSM), which cannot influence      *)
(* objects; the 15-minute age of the configuration, which may be reached    *)
(* at any time.  The mixers, relays and circuits whose metadata a poll      *)
(* reads are other objects, always there.                                   *)
(***************************************************************************)
EXTENDS Integers, FiniteSets

CONSTANTS
  Object,
  NoObject,
  MaxChanges,        \* bound: changes of the controller's objects
  Limits             \* bound: the behaviours that are considered

ASSUME CoordinatorAssumption ==
  /\ NoObject \notin Object
  /\ MaxChanges \in Nat
  /\ Limits \subseteq [objects : SUBSET Object, changes : 0 .. MaxChanges,
                     faults : Nat, reads : Nat, readable : BOOLEAN]

(* No catalog has been confirmed yet.                                      *)
NoCatalog == {NoObject}

Supported == {"zone", "sensor"}
Refreshers == {"relay", "heating"}
Readers == {"zones", "control"}

VARIABLES
  limit,        \* bound: the objects that exist, the changes, the faults (broken
                \* connections and unreadable answers) and the targeted reads of
                \* commands in this behaviour, and whether its catalog always parses
  \* environment
  truth, changes, faults, reads, connected,
  \* coordinator
  data,         \* self.data.objects
  success,      \* last_update_success
  \* updater
  catalog, deferred,    \* _object_catalog_ids, _deferred_object_ids
  stale,        \* _next_configuration_refresh_at is None or reached
  needed,       \* refresh_needed of the relay and the heating refresher
  \* locals of the poll
  poll,         \* program counter of async_refresh
  due, prev, toRead, got, newCatalog, newDeferred, changed, force, incomplete,
  \* targeted reads
  held,         \* what each reader's task has been answered and not merged
  zones,        \* program counter of the security-zone refresh
  pendingZones, batch,
  \* history
  unread,       \* refreshers that have not come to the end of a forced and whole
                \* reading since the last mark
  unseen        \* zones their refresh has not read since the last trigger push

envVars  == <<limit, truth, changes, faults, reads, connected>>
pollVars == <<poll, due, prev, toRead, got, newCatalog, newDeferred, changed, force>>
markVars == <<stale, needed, unread>>
zoneVars == <<zones, pendingZones, batch>>
vars     == <<envVars, data, success, catalog, deferred, markVars, pollVars,
              incomplete, held, zoneVars, unseen>>

Nothing == [kind |-> "gone", ver |-> 0, up |-> FALSE]
Shown(o) == [kind |-> truth[o].kind, ver |-> truth[o].ver, up |-> TRUE]
Known(d) == {o \in Object : d[o].kind # "gone"}
Present == {o \in Object : truth[o].kind # "gone"}
Zones == {o \in Object : data[o].kind = "zone"}

Snapshots ==
  [Object -> [kind : Supported \cup {"gone"}, ver : 0 .. MaxChanges, up : BOOLEAN]]

NotHeld == [obj |-> NoObject, kind |-> "gone", ver |-> 0]

TypeOK ==
  /\ truth \in [Object -> [kind : Supported \cup {"other", "gone"}, ver : 0 .. MaxChanges]]
  /\ limit \in Limits
  /\ changes \in 0 .. limit.changes /\ faults \in 0 .. limit.faults
  /\ reads \in 0 .. limit.reads /\ connected \in BOOLEAN
  /\ data \in Snapshots /\ success \in BOOLEAN
  /\ catalog \in (SUBSET Object) \cup {NoCatalog} /\ deferred \subseteq Object
  /\ stale \in BOOLEAN /\ needed \in [Refreshers -> BOOLEAN]
  /\ poll \in {"idle", "catalog", "objects", "mixers", "relay", "heating", "waking",
              "failing"}
  /\ due \in BOOLEAN /\ changed \in BOOLEAN /\ force \in BOOLEAN
  /\ incomplete \subseteq Refreshers
  /\ prev \in Snapshots /\ got \in Snapshots
  /\ toRead \subseteq Object /\ newDeferred \subseteq Object
  /\ newCatalog \in (SUBSET Object) \cup {NoCatalog}
  /\ held \in [Readers -> [obj : Object \cup {NoObject},
                           kind : Supported \cup {"other", "gone"}, ver : 0 .. MaxChanges]]
  /\ zones \in {"idle", "armed", "reading", "failing"}
  /\ pendingZones \subseteq Object /\ batch \subseteq Object
  /\ unread \subseteq Refreshers /\ unseen \subseteq Object

NoPoll ==
  /\ poll' = "idle" /\ due' = FALSE /\ changed' = FALSE /\ force' = FALSE
  /\ prev' = [o \in Object |-> Nothing] /\ got' = [o \in Object |-> Nothing]
  /\ toRead' = {} /\ newDeferred' = {} /\ newCatalog' = NoCatalog
  /\ incomplete' = {}

Init ==
  /\ limit \in Limits
  /\ truth \in [Object -> {[kind |-> k, ver |-> 0] : k \in {"gone", "sensor", "zone"}}]
  /\ Present \subseteq limit.objects
  /\ changes = 0 /\ faults = 0 /\ reads = 0 /\ connected = FALSE
  /\ data = [o \in Object |-> Nothing] /\ success = TRUE
  /\ catalog = NoCatalog /\ deferred = {}
  /\ stale = TRUE /\ needed = [f \in Refreshers |-> TRUE]
  /\ poll = "idle" /\ due = FALSE /\ changed = FALSE /\ force = FALSE
  /\ prev = [o \in Object |-> Nothing] /\ got = [o \in Object |-> Nothing]
  /\ toRead = {} /\ newDeferred = {} /\ newCatalog = NoCatalog /\ incomplete = {}
  /\ held = [x \in Readers |-> NotHeld]
  /\ zones = "idle" /\ pendingZones = {} /\ batch = {}
  /\ unread = Refreshers /\ unseen = {}

-----------------------------------------------------------------------------
(* The refreshers left to read once f has come to its end in a poll.        *)
ReadToTheEnd(f) ==
  unread' = IF force /\ f \notin incomplete THEN unread \ {f} ELSE unread

(* mark_configuration_stale.                                               *)
MarkStale ==
  /\ stale' = TRUE
  /\ needed' = [f \in Refreshers |-> TRUE]
  /\ unread' = Refreshers

(* Mutant: a state of any kind merges.                                     *)
MergeAnyKind(o, kind, ver) ==
  /\ data' = [data EXCEPT ![o] = [kind |-> kind, ver |-> ver, up |-> TRUE]]
  /\ IF data[o].kind = "gone" THEN MarkStale ELSE UNCHANGED markVars

(* _async_apply_object_payload: an object state merges into the snapshot.   *)
Merge(o, kind, ver) ==
  /\ data' = CASE kind \in Supported ->
                    [data EXCEPT ![o] = [kind |-> kind, ver |-> ver, up |-> TRUE]]
               [] kind = "gone" /\ data[o].kind # "gone" ->
                    [data EXCEPT ![o].up = FALSE]
               [] OTHER -> data
  /\ IF kind \in Supported /\ data[o].kind = "gone"
       THEN MarkStale ELSE UNCHANGED markVars

-----------------------------------------------------------------------------
(* The poll: async_refresh.                                                *)

PollOffline ==
  /\ poll = "idle" /\ ~connected /\ success
  /\ success' = FALSE
  /\ UNCHANGED <<envVars, data, catalog, deferred, markVars, pollVars, incomplete,
                 held, zoneVars, unseen>>

PollBegins ==
  /\ poll = "idle" /\ connected
  /\ poll' = "catalog"
  /\ prev' = data /\ due' = stale
  /\ needed' = IF stale THEN [f \in Refreshers |-> TRUE] ELSE needed
  /\ UNCHANGED <<envVars, data, success, catalog, deferred, stale, unread, toRead,
                 got, newCatalog, newDeferred, changed, force, incomplete,
                 held, zoneVars, unseen>>

(* After each object answer; the last one ends the object refresh, which    *)
(* marks the configuration stale when the catalog changed.                 *)
Continue(rest, objects, later, differs) ==
  /\ toRead' = rest /\ got' = objects /\ newDeferred' = later /\ changed' = differs
  /\ IF rest # {}
       THEN poll' = "objects" /\ UNCHANGED <<due, markVars>>
       ELSE /\ poll' = "mixers"
            /\ due' = (due \/ differs)
            /\ IF differs THEN MarkStale ELSE UNCHANGED markVars

Unavailable(ids) ==
  [o \in Object |-> IF o \in ids THEN [prev[o] EXCEPT !.up = FALSE] ELSE Nothing]

CatalogRead ==
  /\ poll = "catalog" /\ connected
  /\ LET known   == Known(prev) \cap Present
         new     == IF catalog = NoCatalog THEN Present \ known ELSE Present \ catalog
         later   == deferred \cap Present
         differs == catalog # NoCatalog /\ Present # catalog
         retried == IF due \/ differs THEN later ELSE {}
     IN  /\ newCatalog' = Present
         /\ Continue(known \cup new \cup retried, Unavailable(known), later, differs)
  /\ UNCHANGED <<envVars, data, success, catalog, deferred, prev, force, incomplete,
                 held, zoneVars, unseen>>

CatalogUnreadable ==
  /\ poll = "catalog" /\ connected
  /\ ~limit.readable /\ faults < limit.faults
  /\ faults' = faults + 1
  /\ newCatalog' = NoCatalog
  /\ Continue(Known(prev), Unavailable(Known(prev)), deferred, FALSE)
  /\ UNCHANGED <<limit, truth, changes, reads, connected, data, success, catalog, deferred,
                 prev, force, incomplete, held, zoneVars, unseen>>

(* The answer to one req_state of the poll.                                *)
ObjectRead(o) ==
  /\ poll = "objects" /\ connected /\ o \in toRead
  /\ LET rest == toRead \ {o}
     IN  CASE truth[o].kind = "gone" ->
                Continue(rest, got,
                         IF o \in Known(prev) THEN newDeferred ELSE newDeferred \cup {o},
                         changed)
           [] truth[o].kind = "other" ->
                Continue(rest, [got EXCEPT ![o] = Nothing], newDeferred \cup {o},
                         changed \/ o \in Known(prev))
           [] OTHER ->
                Continue(rest, [got EXCEPT ![o] = Shown(o)], newDeferred \ {o},
                         changed \/ (o \in Known(prev) /\ prev[o].kind # truth[o].kind))
  /\ UNCHANGED <<envVars, data, success, catalog, deferred, prev, newCatalog, force,
                 incomplete, held, zoneVars, unseen>>

ObjectUnreadable(o) ==
  /\ poll = "objects" /\ connected /\ o \in toRead
  /\ faults < limit.faults /\ faults' = faults + 1
  /\ Continue(toRead \ {o}, got,
              IF o \in Known(prev) THEN newDeferred ELSE newDeferred \cup {o}, changed)
  /\ UNCHANGED <<limit, truth, changes, reads, connected, data, success, catalog, deferred,
                 prev, newCatalog, force, incomplete, held, zoneVars, unseen>>

(* A refresher looks at its flag when it begins ...                        *)
Begin(f) ==
  /\ poll' = f
  /\ force' = needed[f]

MixersRead ==
  /\ poll = "mixers" /\ connected
  /\ Begin("relay")
  /\ UNCHANGED <<envVars, data, success, catalog, deferred, markVars, due, prev,
                 toRead, got, newCatalog, newDeferred, changed, incomplete,
                 held, zoneVars, unseen>>

(* Mutant: what could not be read is not needed any longer.                *)
RelaysReadAlways ==
  /\ poll = "relay" /\ connected
  /\ needed' = [needed EXCEPT !["relay"] = FALSE]
  /\ ReadToTheEnd("relay")
  /\ Begin("heating")
  /\ UNCHANGED <<envVars, data, success, catalog, deferred, stale, due, prev, toRead,
                 got, newCatalog, newDeferred, changed, incomplete,
                 held, zoneVars, unseen>>

(* ... and sets it when it ends.  Its reads may be unreadable.             *)
RelaysRead ==
  /\ poll = "relay" /\ connected
  /\ needed' = [needed EXCEPT !["relay"] = "relay" \in incomplete]
  /\ ReadToTheEnd("relay")
  /\ Begin("heating")
  /\ UNCHANGED <<envVars, data, success, catalog, deferred, stale, due, prev, toRead,
                 got, newCatalog, newDeferred, changed, incomplete,
                 held, zoneVars, unseen>>

ConfigurationUnreadable ==
  /\ poll \in Refreshers \ incomplete /\ force /\ connected
  /\ faults < limit.faults /\ faults' = faults + 1
  /\ incomplete' = incomplete \cup {poll}
  /\ UNCHANGED <<limit, truth, changes, reads, connected, data, success, catalog, deferred,
                 markVars, pollVars, held, zoneVars, unseen>>

(* The last answer of the poll has come; its task runs next.               *)
CircuitsRead ==
  /\ poll = "heating" /\ connected
  /\ poll' = "waking"
  /\ UNCHANGED <<envVars, data, success, catalog, deferred, markVars, due, prev, toRead,
                 got, newCatalog, newDeferred, changed, force, incomplete,
                 held, zoneVars, unseen>>

PublishIf(current) ==
  /\ poll = "waking"
  /\ needed' = [needed EXCEPT !["heating"] = "heating" \in incomplete]
  /\ stale' = (stale /\ ~(due /\ \A f \in Refreshers : ~needed'[f]))
  /\ IF current
       THEN /\ data' = got /\ success' = TRUE
            /\ IF newCatalog # NoCatalog
                 THEN catalog' = newCatalog /\ deferred' = newDeferred
                 ELSE UNCHANGED <<catalog, deferred>>
       ELSE success' = FALSE /\ UNCHANGED <<data, catalog, deferred>>
  /\ ReadToTheEnd("heating")
  /\ NoPoll
  /\ UNCHANGED <<envVars, held, zoneVars, unseen>>

(* Mutant: the connection is not looked at again before publishing.        *)
PublishUnchecked == PublishIf(TRUE)

(* The snapshot replaces self.data, and the catalog is kept with it.       *)
Publish == PublishIf(connected)

(* Mutant: the catalog is kept although the snapshot is not.               *)
PollFailsCommitting ==
  /\ poll = "failing"
  /\ success' = FALSE
  /\ catalog' = IF newCatalog = NoCatalog THEN catalog ELSE newCatalog
  /\ NoPoll
  /\ UNCHANGED <<envVars, data, deferred, markVars, held, zoneVars, unseen>>

(* The connection of the poll's request is gone: UpdateFailed.             *)
PollFails ==
  /\ poll = "failing"
  /\ success' = FALSE
  /\ NoPoll
  /\ UNCHANGED <<envVars, data, catalog, deferred, markVars, held, zoneVars, unseen>>

-----------------------------------------------------------------------------
(* Targeted reads: async_refresh_object by a command, and by the zones.     *)

Hold(x, o) == held' = [held EXCEPT ![x] = [obj |-> o, kind |-> truth[o].kind,
                                           ver |-> truth[o].ver]]

ControlRead(o) ==
  /\ connected /\ reads < limit.reads /\ held["control"] = NotHeld
  /\ o \in Known(data)
  /\ reads' = reads + 1
  /\ Hold("control", o)
  /\ UNCHANGED <<limit, truth, changes, faults, connected, data, success, catalog, deferred,
                 markVars, pollVars, incomplete, zoneVars, unseen>>

ControlMerged ==
  /\ held["control"] # NotHeld
  /\ held' = [held EXCEPT !["control"] = NotHeld]
  /\ Merge(held["control"].obj, held["control"].kind, held["control"].ver)
  /\ UNCHANGED <<envVars, success, catalog, deferred, pollVars, incomplete, zoneVars,
                 unseen>>

-----------------------------------------------------------------------------
(* The coalesced refresh of the security zones.                            *)

(* _async_refresh_pending_security_zones takes what is pending, when its    *)
(* debounce time is over and again whenever a batch has been read.          *)
ZoneBatchBegins ==
  /\ \/ zones = "armed"
     \/ zones = "reading" /\ batch = {} /\ held["zones"] = NotHeld /\ pendingZones # {}
  /\ zones' = "reading"
  /\ batch' = pendingZones /\ pendingZones' = {}
  /\ UNCHANGED <<envVars, data, success, catalog, deferred, markVars, pollVars,
                 incomplete, held, unseen>>

(* Mutant: one batch per call.                                             *)
ZoneRefreshEndsAtOnce ==
  /\ zones = "reading" /\ batch = {} /\ held["zones"] = NotHeld
  /\ zones' = "idle"
  /\ UNCHANGED <<envVars, data, success, catalog, deferred, markVars, pollVars,
                 incomplete, held, pendingZones, batch, unseen>>

ZoneRefreshEnds ==
  /\ zones = "reading" /\ batch = {} /\ held["zones"] = NotHeld /\ pendingZones = {}
  /\ zones' = "idle"
  /\ UNCHANGED <<envVars, data, success, catalog, deferred, markVars, pollVars,
                 incomplete, held, pendingZones, batch, unseen>>

ZoneSkipped(o) ==
  /\ zones = "reading" /\ held["zones"] = NotHeld /\ o \in batch \ Zones
  /\ batch' = batch \ {o}
  /\ unseen' = unseen \ {o}
  /\ UNCHANGED <<envVars, data, success, catalog, deferred, markVars, pollVars,
                 incomplete, held, zones, pendingZones>>

ZoneRead(o) ==
  /\ zones = "reading" /\ held["zones"] = NotHeld /\ connected
  /\ o \in batch \cap Zones
  /\ batch' = batch \ {o}
  /\ Hold("zones", o)
  /\ unseen' = unseen \ {o}
  /\ UNCHANGED <<envVars, data, success, catalog, deferred, markVars, pollVars,
                 incomplete, zones, pendingZones>>

ZoneMerged ==
  /\ held["zones"] # NotHeld
  /\ held' = [held EXCEPT !["zones"] = NotHeld]
  /\ Merge(held["zones"].obj, held["zones"].kind, held["zones"].ver)
  /\ UNCHANGED <<envVars, success, catalog, deferred, pollVars, incomplete, zoneVars,
                 unseen>>

ZoneUnreadable(o) ==
  /\ zones = "reading" /\ held["zones"] = NotHeld /\ connected
  /\ o \in batch \cap Zones
  /\ faults < limit.faults /\ faults' = faults + 1
  /\ batch' = batch \ {o}
  /\ unseen' = unseen \ {o}
  /\ UNCHANGED <<limit, truth, changes, reads, connected, data, success, catalog, deferred,
                 markVars, pollVars, incomplete, held, zones, pendingZones>>

(* The connection was interrupted: the batch is given up.                  *)
ZoneRefreshFails ==
  /\ \/ zones = "failing"
     \/ zones = "reading" /\ held["zones"] = NotHeld /\ ~connected /\ batch \cap Zones # {}
  /\ zones' = "idle" /\ batch' = {}
  /\ UNCHANGED <<envVars, data, success, catalog, deferred, markVars, pollVars,
                 incomplete, held, pendingZones, unseen>>

-----------------------------------------------------------------------------
(* The environment: the controller's objects change, it pushes a state,     *)
(* and the connection comes and goes.                                      *)

ObjectChanges(o, kind) ==
  /\ changes < limit.changes /\ o \in limit.objects
  /\ changes' = changes + 1
  /\ truth' = [truth EXCEPT ![o] = [kind |-> kind, ver |-> changes + 1]]
  /\ UNCHANGED <<limit, faults, reads, connected, data, success, catalog, deferred,
                 markVars, pollVars, incomplete, held, zoneVars, unseen>>

(* _async_message_received: the pushed state merges; a sensor's trigger     *)
(* makes every known zone due for a read.                                  *)
Pushed(o) ==
  /\ connected /\ truth[o].kind \in Supported
  /\ Merge(o, truth[o].kind, truth[o].ver)
  /\ LET triggered == IF data'[o].kind = "zone" THEN {}
                      ELSE {z \in Object : data'[z].kind = "zone"}
     IN  /\ pendingZones' = pendingZones \cup triggered
         /\ unseen' = IF zones = "failing" THEN unseen ELSE unseen \cup triggered
         /\ zones' = IF triggered # {} /\ zones = "idle" THEN "armed" ELSE zones
  /\ UNCHANGED <<envVars, success, catalog, deferred, pollVars, incomplete, held, batch>>

(* A new connection takes far longer than a task needs that has its answer *)
(* already; a failing request may outlast it, closing the old socket.      *)
Connects ==
  /\ ~connected /\ connected' = TRUE
  /\ poll # "waking" /\ zones # "reading" /\ \A x \in Readers : held[x] = NotHeld
  /\ MarkStale
  /\ UNCHANGED <<limit, truth, changes, faults, reads, data, success, catalog, deferred,
                 pollVars, incomplete, held, zoneVars, unseen>>

(* The request in flight fails with the connection.                        *)
Disconnects ==
  /\ connected /\ faults < limit.faults
  /\ connected' = FALSE /\ faults' = faults + 1
  /\ success' = FALSE
  /\ poll' = IF poll \in {"idle", "waking"} THEN poll ELSE "failing"
  /\ zones' = IF zones = "reading" /\ held["zones"] = NotHeld /\ batch \cap Zones # {}
                THEN "failing" ELSE zones
  /\ unseen' = {}
  /\ UNCHANGED <<limit, truth, changes, reads, data, catalog, deferred, markVars, due, prev,
                 toRead, got, newCatalog, newDeferred, changed, force, incomplete,
                 held, pendingZones, batch>>

ConfigurationAges ==
  /\ ~stale /\ stale' = TRUE
  /\ UNCHANGED <<envVars, data, success, catalog, deferred, needed, unread, pollVars,
                 incomplete, held, zoneVars, unseen>>

-----------------------------------------------------------------------------
PollStep ==
  \/ PollOffline \/ PollBegins \/ CatalogRead \/ MixersRead \/ RelaysRead
  \/ CircuitsRead \/ Publish \/ PollFails
  \/ \E o \in Object : ObjectRead(o)

ZoneStep ==
  \/ ZoneBatchBegins \/ ZoneRefreshEnds \/ ZoneMerged \/ ZoneRefreshFails
  \/ \E o \in Object : ZoneSkipped(o) \/ ZoneRead(o)

Unreadable ==
  \/ CatalogUnreadable \/ ConfigurationUnreadable
  \/ \E o \in Object : ObjectUnreadable(o) \/ ZoneUnreadable(o)

Next ==
  \/ PollStep \/ ZoneStep \/ Unreadable \/ ControlMerged
  \/ Connects \/ Disconnects \/ ConfigurationAges
  \/ \E o \in Object : ControlRead(o) \/ Pushed(o)
  \/ \E o \in Object, k \in Supported \cup {"other", "gone"} : ObjectChanges(o, k)

Spec == Init /\ [][Next]_vars

(* The coordinator polls at least every scan interval, its tasks run, the   *)
(* supervisor reconnects, and the configuration reaches its age.           *)
Fairness ==
  /\ WF_vars(PollStep) /\ WF_vars(ZoneStep) /\ WF_vars(ControlMerged)
  /\ WF_vars(Connects) /\ WF_vars(ConfigurationAges)

FairSpec == Spec /\ Fairness

-----------------------------------------------------------------------------
(* Once a snapshot has been published, the coordinator calls itself         *)
(* up to date only while the controller is connected: a poll whose last    *)
(* answer came just before the connection was lost publishes nothing.      *)
SuccessMeansConnected == success /\ catalog # NoCatalog => connected

(* Every object of the last confirmed catalog is shown or waits for its     *)
(* next classification: none is forgotten when a poll fails half way,      *)
(* a state cannot be read, or a push comes in between.                     *)
CatalogAccounted == catalog # NoCatalog => catalog \subseteq Known(data) \cup deferred

(* After a mark the configuration does not count as fresh before every      *)
(* refresher has come to the end of a forced reading of the whole of it:    *)
(* not when a poll fails in between, a reading is incomplete, or the mark   *)
(* comes while another refresher reads or in a poll that was not due to.    *)
(* What a refresher is reading when the mark comes counts as read after it, *)
(* as its end clears the flag that the mark set (metadata.py:188 and 422).  *)
MarksAreHonoured == unread # {} => stale

-----------------------------------------------------------------------------
(* After a trigger push the zone refresh reads every zone it knows, one     *)
(* whose push came while a batch was being read too, unless the connection *)
(* is lost first; then the next poll reads it.  A push that comes while an *)
(* interrupted refresh has not ended is not counted: the debouncer drops    *)
(* its call, and the zones wait for the next push or poll.                  *)
ZoneTriggersAreRead ==
  \A o \in Object : o \in unseen ~> o \notin unseen

(* Once the controller's objects no longer change, the snapshot comes to    *)
(* show exactly the supported ones, in their present state.                *)
Converges ==
  <>[](\A o \in Object :
         data[o] = IF truth[o].kind \in Supported THEN Shown(o) ELSE Nothing)
=============================================================================
