---------------------- MODULE SnapshotCoordinatorProofs ----------------------
(***************************************************************************)
(* Theorems about SnapshotCoordinator, for any objects and any bounds: the   *)
(* types, what last_update_success means, that a stale mark survives until   *)
(* the configuration has been read again, and, where every catalog parses,   *)
(* that no object of a confirmed catalog is forgotten.                       *)
(***************************************************************************)
EXTENDS SnapshotCoordinator, TLAPS

(* The types, with the sets of functions to records under names of their own. *)
Truths == [Object -> [kind : Supported \cup {"other", "gone"}, ver : 0 .. MaxChanges]]

Answers == [obj : Object \cup {NoObject}, kind : Supported \cup {"other", "gone"},
            ver : 0 .. MaxChanges]

Steps == {"idle", "catalog", "objects", "mixers", "relay", "heating", "waking", "failing"}

Typed ==
  /\ truth \in Truths /\ limit \in Limits
  /\ changes \in 0 .. limit.changes /\ faults \in 0 .. limit.faults
  /\ reads \in 0 .. limit.reads /\ connected \in BOOLEAN
  /\ data \in Snapshots /\ success \in BOOLEAN
  /\ catalog \in (SUBSET Object) \cup {NoCatalog} /\ deferred \subseteq Object
  /\ stale \in BOOLEAN /\ needed \in [Refreshers -> BOOLEAN]
  /\ poll \in Steps
  /\ due \in BOOLEAN /\ changed \in BOOLEAN /\ force \in BOOLEAN
  /\ incomplete \subseteq Refreshers
  /\ prev \in Snapshots /\ got \in Snapshots
  /\ toRead \subseteq Object /\ newDeferred \subseteq Object
  /\ newCatalog \in (SUBSET Object) \cup {NoCatalog}
  /\ held \in [Readers -> Answers]
  /\ zones \in {"idle", "armed", "reading", "failing"}
  /\ pendingZones \subseteq Object /\ batch \subseteq Object
  /\ unread \subseteq Refreshers /\ unseen \subseteq Object

LEMMA SameTypes == TypeOK <=> Typed
BY DEF TypeOK, Typed, Truths, Answers, Steps

LEMMA Bounds ==
  ASSUME Typed
  PROVE  /\ limit.changes \in 0 .. MaxChanges /\ limit.faults \in Nat /\ limit.reads \in Nat
         /\ limit.objects \subseteq Object /\ MaxChanges \in Nat
BY CoordinatorAssumption DEF Typed

(* What the snapshot has of an object.                                       *)
Entry == [kind : Supported \cup {"gone"}, ver : 0 .. MaxChanges, up : BOOLEAN]

LEMMA Entries == Snapshots = [Object -> Entry]
BY DEF Snapshots, Entry

LEMMA MadeUnavailable ==
  ASSUME NEW e \in Entry
  PROVE  [e EXCEPT !.up = FALSE] \in Entry
BY DEF Entry

LEMMA NothingKnown ==
  ASSUME Typed
  PROVE  Nothing \in Entry
<1>1. 0 \in 0 .. MaxChanges BY Bounds
<1>. QED BY <1>1 DEF Nothing, Entry

LEMMA SetOneFlag ==
  ASSUME Typed, NEW f, NEW set, needed' = [needed EXCEPT ![f] = f \in set]
  PROVE  needed' \in [Refreshers -> BOOLEAN]
<1>1. CASE f \in set
  <2>1. needed' = [needed EXCEPT ![f] = TRUE] BY <1>1
  <2>. QED BY <2>1 DEF Typed
<1>2. CASE f \notin set
  <2>1. (f \in set) = FALSE BY <1>2
  <2>2. needed' = [needed EXCEPT ![f] = FALSE] BY <2>1, Zenon
  <2>. QED BY <2>2 DEF Typed
<1>. QED BY <1>1, <1>2

LEMMA MergeTypes ==
  ASSUME Typed, NEW o, NEW k \in Supported \cup {"other", "gone"},
         NEW ver \in 0 .. MaxChanges, Merge(o, k, ver)
  PROVE  /\ data' \in Snapshots
         /\ stale' \in BOOLEAN /\ needed' \in [Refreshers -> BOOLEAN]
         /\ unread' \subseteq Refreshers
<1>1. data \in [Object -> Entry] BY Entries DEF Typed
<1>2. data' \in [Object -> Entry]
  <2>1. CASE k \in Supported
    <3>1. data' = [data EXCEPT ![o] = [kind |-> k, ver |-> ver, up |-> TRUE]]
      BY <2>1 DEF Merge, Supported
    <3>2. [kind |-> k, ver |-> ver, up |-> TRUE] \in Entry BY <2>1 DEF Entry
    <3>. QED BY <1>1, <3>1, <3>2
  <2>2. CASE k \notin Supported /\ k = "gone" /\ data[o].kind # "gone"
    <3>1. data' = [data EXCEPT ![o] = [data[o] EXCEPT !.up = FALSE]] BY <2>2 DEF Merge, Supported
    <3>. QED BY <1>1, <3>1, MadeUnavailable
  <2>3. CASE k \notin Supported /\ ~(k = "gone" /\ data[o].kind # "gone")
    BY <1>1, <2>3 DEF Merge, Supported
  <2>. QED BY <2>1, <2>2, <2>3
<1>. QED BY <1>2, Entries DEF Merge, MarkStale, markVars, Typed

LEMMA ContinueTypes ==
  ASSUME Typed, NEW rest \in SUBSET Object, NEW objects \in Snapshots,
         NEW later \in SUBSET Object, NEW differs \in BOOLEAN,
         Continue(rest, objects, later, differs)
  PROVE  /\ toRead' \subseteq Object /\ got' \in Snapshots /\ newDeferred' \subseteq Object
         /\ changed' \in BOOLEAN /\ poll' \in {"objects", "mixers"} /\ due' \in BOOLEAN
         /\ stale' \in BOOLEAN /\ needed' \in [Refreshers -> BOOLEAN]
         /\ unread' \subseteq Refreshers
BY DEF Continue, MarkStale, markVars, Typed

LEMMA UnavailableType ==
  ASSUME Typed, NEW ids
  PROVE  Unavailable(ids) \in Snapshots
<1>1. prev \in [Object -> Entry] BY Entries DEF Typed
<1>. QED BY <1>1, Entries, NothingKnown, MadeUnavailable DEF Unavailable

LEMMA TypedStep == Typed /\ [Next]_vars => Typed'
<1>. SUFFICES ASSUME Typed, [Next]_vars PROVE Typed' OBVIOUS
<1>. USE Bounds DEF envVars, pollVars, markVars, zoneVars, Steps
<1>1. CASE PollOffline BY <1>1 DEF PollOffline, Typed
<1>2. CASE PollBegins BY <1>2 DEF PollBegins, Typed
<1>3. CASE CatalogRead
  <2>1. \E known : \E rest \in SUBSET Object, later \in SUBSET Object, differs \in BOOLEAN :
          Continue(rest, Unavailable(known), later, differs) /\ newCatalog' = Present
    BY <1>3 DEF CatalogRead, Typed, Known, Present
  <2>2. /\ toRead' \subseteq Object /\ got' \in Snapshots /\ newDeferred' \subseteq Object
        /\ changed' \in BOOLEAN /\ poll' \in {"objects", "mixers"} /\ due' \in BOOLEAN
        /\ stale' \in BOOLEAN /\ needed' \in [Refreshers -> BOOLEAN]
        /\ unread' \subseteq Refreshers
    BY <2>1, UnavailableType, ContinueTypes
  <2>. QED BY <1>3, <2>1, <2>2 DEF CatalogRead, Typed, Present
<1>4. CASE CatalogUnreadable
  <2>1. /\ toRead' \subseteq Object /\ got' \in Snapshots /\ newDeferred' \subseteq Object
        /\ changed' \in BOOLEAN /\ poll' \in {"objects", "mixers"} /\ due' \in BOOLEAN
        /\ stale' \in BOOLEAN /\ needed' \in [Refreshers -> BOOLEAN]
        /\ unread' \subseteq Refreshers
    <3>1. Known(prev) \in SUBSET Object /\ deferred \in SUBSET Object BY DEF Known, Typed
    <3>. QED BY <1>4, <3>1, UnavailableType, ContinueTypes DEF CatalogUnreadable
  <2>2. faults' \in 0 .. limit.faults BY <1>4 DEF CatalogUnreadable, Typed
  <2>. QED BY <1>4, <2>1, <2>2 DEF CatalogUnreadable, Typed
<1>5. ASSUME NEW o \in Object, ObjectRead(o) \/ ObjectUnreadable(o) PROVE Typed'
  <2>1. PICK rest \in SUBSET Object, objects \in Snapshots, later \in SUBSET Object,
             differs \in BOOLEAN : Continue(rest, objects, later, differs)
    <3>1. truth[o].kind \in Supported \cup {"other", "gone"} /\ truth[o].ver \in 0 .. MaxChanges
      BY DEF Typed, Truths
    <3>2. got \in [Object -> Entry] BY Entries DEF Typed
    <3>3. /\ [got EXCEPT ![o] = Nothing] \in Snapshots
          /\ truth[o].kind \in Supported => [got EXCEPT ![o] = Shown(o)] \in Snapshots
      <4>1. truth[o].kind \in Supported => Shown(o) \in Entry BY <3>1 DEF Shown, Entry
      <4>. QED BY <3>2, <4>1, Entries, NothingKnown
    <3>4. (toRead \ {o}) \in SUBSET Object /\ got \in Snapshots
            /\ newDeferred \in SUBSET Object /\ (newDeferred \cup {o}) \in SUBSET Object
            /\ (newDeferred \ {o}) \in SUBSET Object /\ changed \in BOOLEAN
      BY DEF Typed
    <3>5. CASE ObjectUnreadable(o) BY <3>4, <3>5 DEF ObjectUnreadable
    <3>6. CASE ObjectRead(o) /\ truth[o].kind = "gone" BY <3>4, <3>6 DEF ObjectRead
    <3>7. CASE ObjectRead(o) /\ truth[o].kind = "other" BY <3>3, <3>4, <3>7 DEF ObjectRead
    <3>8. CASE ObjectRead(o) /\ truth[o].kind \in Supported
      BY <3>3, <3>4, <3>8 DEF ObjectRead, Supported
    <3>. QED BY <1>5, <3>1, <3>5, <3>6, <3>7, <3>8
  <2>2. /\ toRead' \subseteq Object /\ got' \in Snapshots /\ newDeferred' \subseteq Object
        /\ changed' \in BOOLEAN /\ poll' \in {"objects", "mixers"} /\ due' \in BOOLEAN
        /\ stale' \in BOOLEAN /\ needed' \in [Refreshers -> BOOLEAN]
        /\ unread' \subseteq Refreshers
    BY <2>1, ContinueTypes
  <2>. QED BY <1>5, <2>2 DEF ObjectRead, ObjectUnreadable, Typed
<1>6. CASE MixersRead \/ RelaysRead
  <2>1. needed' \in [Refreshers -> BOOLEAN]
    BY <1>6, SetOneFlag DEF MixersRead, RelaysRead, Typed
  <2>2. \A f \in Refreshers : needed[f] \in BOOLEAN BY DEF Typed
  <2>3. poll' \in Steps /\ force' \in BOOLEAN /\ unread' \subseteq Refreshers
    <3>1. PICK f \in Refreshers : Begin(f) BY <1>6 DEF MixersRead, RelaysRead, Refreshers
    <3>2. force' = needed[f] BY <3>1 DEF Begin
    <3>3. poll' \in Steps BY <3>1 DEF Begin, Steps, Refreshers
    <3>4. unread' \subseteq unread BY <1>6 DEF MixersRead, RelaysRead, ReadToTheEnd
    <3>. QED BY <2>2, <3>2, <3>3, <3>4, Zenon DEF Typed
  <2>. QED BY <1>6, <2>1, <2>3 DEF MixersRead, RelaysRead, Typed
<1>7. CASE ConfigurationUnreadable \/ CircuitsRead
  BY <1>7 DEF ConfigurationUnreadable, CircuitsRead, Typed
<1>8. CASE Publish \/ PollFails
  <2>1. [o \in Object |-> Nothing] \in Snapshots BY Entries, NothingKnown
  <2>2. NoPoll /\ success' \in BOOLEAN /\ data' \in Snapshots
          /\ catalog' \in (SUBSET Object) \cup {NoCatalog} /\ deferred' \subseteq Object
    BY <1>8 DEF Publish, PublishIf, PollFails, Typed
  <2>3. needed' \in [Refreshers -> BOOLEAN]
    BY <1>8, SetOneFlag DEF Publish, PublishIf, PollFails, Typed
  <2>4. stale' \in BOOLEAN BY <1>8, Zenon DEF Publish, PublishIf, PollFails, Typed
  <2>5. unread' \subseteq Refreshers
    BY <1>8 DEF Publish, PublishIf, PollFails, ReadToTheEnd, Typed
  <2>. QED BY <1>8, <2>1, <2>2, <2>3, <2>4, <2>5
           DEF Publish, PublishIf, PollFails, NoPoll, Typed
<1>9. ASSUME NEW o \in Object, ControlRead(o) \/ ZoneRead(o) PROVE Typed'
  <2>1. held' \in [Readers -> Answers]
    <3>1. [obj |-> o, kind |-> truth[o].kind, ver |-> truth[o].ver] \in Answers
      BY DEF Typed, Truths, Answers
    <3>. QED BY <1>9, <3>1 DEF ControlRead, ZoneRead, Hold, Typed, Readers
  <2>. QED BY <1>9, <2>1 DEF ControlRead, ZoneRead, Typed
<1>10. CASE ControlMerged \/ ZoneMerged
  <2>1. PICK x \in Readers : /\ held' = [held EXCEPT ![x] = NotHeld]
                             /\ Merge(held[x].obj, held[x].kind, held[x].ver)
    BY <1>10 DEF ControlMerged, ZoneMerged, Readers
  <2>2. held[x] \in Answers BY DEF Typed
  <2>3. /\ held[x].kind \in Supported \cup {"other", "gone"}
        /\ held[x].ver \in 0 .. MaxChanges
    BY <2>2 DEF Answers
  <2>4. NotHeld \in Answers
    <3>1. 0 \in 0 .. MaxChanges OBVIOUS
    <3>. QED BY <3>1 DEF NotHeld, Answers
  <2>5. held' \in [Readers -> Answers] BY <2>1, <2>4 DEF Typed
  <2>6. /\ data' \in Snapshots
        /\ stale' \in BOOLEAN /\ needed' \in [Refreshers -> BOOLEAN]
        /\ unread' \subseteq Refreshers
    BY <2>1, <2>3, MergeTypes
  <2>. QED BY <1>10, <2>5, <2>6 DEF ControlMerged, ZoneMerged, Typed
<1>11. CASE ZoneBatchBegins \/ ZoneRefreshEnds \/ ZoneRefreshFails
  BY <1>11 DEF ZoneBatchBegins, ZoneRefreshEnds, ZoneRefreshFails, Typed
<1>12. ASSUME NEW o \in Object, ZoneSkipped(o) \/ ZoneUnreadable(o) PROVE Typed'
  <2>1. faults' \in 0 .. limit.faults BY <1>12 DEF ZoneSkipped, ZoneUnreadable, Typed
  <2>. QED BY <1>12, <2>1 DEF ZoneSkipped, ZoneUnreadable, Typed
<1>13. ASSUME NEW o \in Object, NEW k \in Supported \cup {"other", "gone"},
              ObjectChanges(o, k)
       PROVE  Typed'
  <2>1. changes' \in 0 .. limit.changes /\ changes + 1 \in 0 .. MaxChanges
    BY <1>13 DEF ObjectChanges, Typed
  <2>2. truth' \in Truths BY <1>13, <2>1 DEF ObjectChanges, Typed, Truths
  <2>. QED BY <1>13, <2>1, <2>2 DEF ObjectChanges, Typed
<1>14. ASSUME NEW o \in Object, Pushed(o) PROVE Typed'
  <2>1. /\ truth[o].kind \in Supported \cup {"other", "gone"}
        /\ truth[o].ver \in 0 .. MaxChanges
    BY DEF Typed, Truths
  <2>2. /\ data' \in Snapshots
        /\ stale' \in BOOLEAN /\ needed' \in [Refreshers -> BOOLEAN]
        /\ unread' \subseteq Refreshers
    BY <1>14, <2>1, MergeTypes DEF Pushed
  <2>3. /\ pendingZones' \subseteq Object /\ unseen' \subseteq Object
        /\ zones' \in {"idle", "armed", "reading", "failing"}
    BY <1>14 DEF Pushed, Typed
  <2>. QED BY <1>14, <2>2, <2>3 DEF Pushed, Typed
<1>15. CASE Connects BY <1>15 DEF Connects, MarkStale, Typed
<1>16. CASE Disconnects
  <2>1. faults' \in 0 .. limit.faults BY <1>16 DEF Disconnects, Typed
  <2>. QED BY <1>16, <2>1 DEF Disconnects, Typed
<1>17. CASE ConfigurationAges BY <1>17 DEF ConfigurationAges, Typed
<1>18. CASE UNCHANGED vars BY <1>18 DEF vars, Typed
<1>. QED BY <1>1, <1>2, <1>3, <1>4, <1>5, <1>6, <1>7, <1>8, <1>9, <1>10, <1>11, <1>12,
            <1>13, <1>14, <1>15, <1>16, <1>17, <1>18
         DEF Next, PollStep, ZoneStep, Unreadable

LEMMA TypedInit == Init => Typed
<1>. SUFFICES ASSUME Init PROVE Typed OBVIOUS
<1>1. limit \in Limits BY DEF Init
<1>2. /\ limit.changes \in 0 .. MaxChanges /\ limit.faults \in Nat /\ limit.reads \in Nat
      /\ MaxChanges \in Nat
  BY <1>1, CoordinatorAssumption
<1>3. 0 \in 0 .. MaxChanges /\ 0 \in 0 .. limit.changes BY <1>2
<1>4. Nothing \in Entry BY <1>3 DEF Nothing, Entry
<1>5. NotHeld \in Answers BY <1>3 DEF NotHeld, Answers
<1>6. [o \in Object |-> Nothing] \in Snapshots BY <1>4, Entries
<1>7. truth \in Truths
  <2>1. \A k \in {"gone", "sensor", "zone"} :
          [kind |-> k, ver |-> 0]
            \in [kind : Supported \cup {"other", "gone"}, ver : 0 .. MaxChanges]
    BY <1>3 DEF Supported
  <2>. QED BY <2>1 DEF Init, Truths
<1>8. /\ changes \in 0 .. limit.changes /\ faults \in 0 .. limit.faults
      /\ reads \in 0 .. limit.reads
  BY <1>2 DEF Init
<1>9. needed \in [Refreshers -> BOOLEAN] BY DEF Init
<1>10. held \in [Readers -> Answers] BY <1>5 DEF Init
<1>. QED BY <1>1, <1>6, <1>7, <1>8, <1>9, <1>10 DEF Init, Typed, Steps

-----------------------------------------------------------------------------
(* Stale marks.  A poll that is due finds every flag set, so that each        *)
(* refresher is forced; what the relay refresher could not read, or what was *)
(* marked after it had read, keeps its flag, and with it the mark, until the  *)
(* poll ends.                                                                *)
MarkInv ==
  /\ unread # {} => stale
  /\ due /\ poll \in {"catalog", "objects", "mixers"} => \A f \in Refreshers : needed[f]
  /\ due /\ poll = "relay" => force /\ needed["heating"]
  /\ due /\ poll \in {"heating", "waking"} =>
       force /\ ("relay" \in unread => needed["relay"])

LEMMA Marked ==
  ASSUME Typed, MarkInv, MarkStale, poll' = poll, due' = due, force' = force
  PROVE  MarkInv'
<1>1. stale' = TRUE /\ \A f \in Refreshers : needed'[f] BY DEF MarkStale
<1>. QED BY <1>1 DEF MarkInv, Refreshers

LEMMA MarksKept ==
  ASSUME MarkInv, UNCHANGED <<stale, needed, unread>>, poll' = poll, due' = due, force' = force
  PROVE  MarkInv'
BY DEF MarkInv

LEMMA Merging ==
  ASSUME Typed, MarkInv, NEW o, NEW k, NEW ver, Merge(o, k, ver),
         poll' = poll, due' = due, force' = force
  PROVE  MarkInv'
<1>1. MarkStale \/ UNCHANGED <<stale, needed, unread>> BY DEF Merge, markVars
<1>. QED BY <1>1, Marked, MarksKept

(* The end of a refresher that was forced: it has read everything, or it     *)
(* keeps its flag.                                                           *)
LEMMA ReadOrKept ==
  ASSUME Typed, NEW f \in Refreshers, force, ReadToTheEnd(f),
         needed' = [needed EXCEPT ![f] = f \in incomplete]
  PROVE  f \in unread' => needed'[f]
<1>1. CASE f \in incomplete
  <2>1. needed' = [needed EXCEPT ![f] = TRUE] BY <1>1
  <2>. QED BY <2>1 DEF Typed
<1>2. CASE f \notin incomplete BY <1>2 DEF ReadToTheEnd
<1>. QED BY <1>1, <1>2

LEMMA Continuing ==
  ASSUME Typed, MarkInv, poll \in {"catalog", "objects"},
         NEW rest, NEW objects, NEW later, NEW differs,
         Continue(rest, objects, later, differs)
  PROVE  MarkInv'
<1>1. CASE rest # {} BY <1>1 DEF Continue, MarkInv, markVars
<1>2. CASE rest = {} /\ differs
  <2>1. /\ poll' = "mixers" /\ stale' = TRUE /\ \A f \in Refreshers : needed'[f]
    BY <1>2 DEF Continue, MarkStale, Refreshers
  <2>. QED BY <2>1 DEF MarkInv
<1>3. CASE rest = {} /\ ~differs
  <2>1. poll' = "mixers" /\ due' = due /\ UNCHANGED <<stale, needed, unread>>
    BY <1>3 DEF Continue, markVars, Typed
  <2>. QED BY <2>1 DEF MarkInv
<1>. QED BY <1>1, <1>2, <1>3

LEMMA MarkStep == Typed /\ MarkInv /\ [Next]_vars => MarkInv'
<1>. SUFFICES ASSUME Typed, MarkInv, [Next]_vars PROVE MarkInv' OBVIOUS
<1>. USE DEF envVars, pollVars, markVars, zoneVars
<1>1. CASE PollBegins
  <2>1. poll' = "catalog" /\ due' = stale /\ unread' = unread /\ stale' = stale
    BY <1>1 DEF PollBegins
  <2>2. CASE stale
    <3>1. \A f \in Refreshers : needed'[f] BY <1>1, <2>2 DEF PollBegins
    <3>. QED BY <2>1, <2>2, <3>1 DEF MarkInv, Typed
  <2>3. CASE ~stale
    <3>1. needed' = needed /\ poll = "idle" BY <1>1, <2>3 DEF PollBegins
    <3>. QED BY <2>1, <2>3, <3>1 DEF MarkInv, Typed
  <2>. QED BY <2>2, <2>3
<1>2. CASE CatalogRead \/ CatalogUnreadable \/ \E o \in Object : ObjectRead(o) \/ ObjectUnreadable(o)
  <2>1. PICK rest, objects, later, differs : Continue(rest, objects, later, differs)
    <3>1. CASE CatalogRead \/ CatalogUnreadable
      BY <3>1 DEF CatalogRead, CatalogUnreadable
    <3>2. ASSUME NEW o \in Object, ObjectUnreadable(o)
          PROVE  \E rest, objects, later, differs :
                   Continue(rest, objects, later, differs)
      BY <3>2 DEF ObjectUnreadable, Typed
    <3>3. ASSUME NEW o \in Object, ObjectRead(o)
          PROVE  \E rest, objects, later, differs :
                   Continue(rest, objects, later, differs)
      <4>1. truth[o].kind \in Supported \cup {"other", "gone"} BY DEF Typed, Truths
      <4>2. CASE truth[o].kind = "gone" BY <3>3, <4>2 DEF ObjectRead, Typed
      <4>3. CASE truth[o].kind = "other" BY <3>3, <4>3 DEF ObjectRead, Typed
      <4>4. CASE truth[o].kind \in Supported
        BY <3>3, <4>4 DEF ObjectRead, Typed, Supported
      <4>. QED BY <4>1, <4>2, <4>3, <4>4
    <3>. QED BY <1>2, <3>1, <3>2, <3>3
  <2>2. poll \in {"catalog", "objects"}
    BY <1>2 DEF CatalogRead, CatalogUnreadable, ObjectRead, ObjectUnreadable
  <2>. QED BY <2>1, <2>2, Continuing
<1>3. CASE MixersRead
  <2>1. /\ poll = "mixers" /\ poll' = "relay" /\ UNCHANGED <<stale, needed, unread, due>>
        /\ force' = needed["relay"]
    BY <1>3 DEF MixersRead, Begin
  <2>. QED BY <2>1 DEF MarkInv, Refreshers
<1>4. CASE RelaysRead
  <2>1. /\ poll = "relay" /\ poll' = "heating" /\ stale' = stale /\ due' = due
        /\ force' = needed["heating"] /\ unread' \subseteq unread
    BY <1>4, Zenon DEF RelaysRead, Begin, ReadToTheEnd
  <2>2. ASSUME due PROVE force' /\ ("relay" \in unread' => needed'["relay"])
    <3>1. force /\ needed["heating"] BY <2>1, <2>2 DEF MarkInv
    <3>. QED BY <1>4, <2>1, <3>1, ReadOrKept DEF RelaysRead, Refreshers
  <2>. QED BY <2>1, <2>2 DEF MarkInv
<1>5. CASE CircuitsRead BY <1>5 DEF CircuitsRead, MarkInv
<1>6. CASE Publish
  <2>1. /\ poll = "waking" /\ poll' = "idle" /\ unread' \subseteq unread
        /\ stale' = (stale /\ ~(due /\ \A f \in Refreshers : ~needed'[f]))
        /\ needed' = [needed EXCEPT !["heating"] = "heating" \in incomplete]
        /\ ReadToTheEnd("heating")
    BY <1>6, Zenon DEF Publish, PublishIf, NoPoll, ReadToTheEnd
  <2>2. ASSUME due, \A f \in Refreshers : ~needed'[f] PROVE unread' = {}
    <3>1. force /\ ("relay" \in unread => needed["relay"]) BY <2>1, <2>2 DEF MarkInv
    <3>2. "heating" \notin unread' BY <2>1, <2>2, <3>1, ReadOrKept DEF Refreshers
    <3>3. needed'["relay"] = needed["relay"] BY <2>1 DEF Typed
    <3>4. "relay" \notin unread' BY <2>1, <2>2, <3>1, <3>3 DEF Refreshers
    <3>5. unread' \subseteq Refreshers BY <2>1 DEF Typed
    <3>. QED BY <3>2, <3>4, <3>5 DEF Refreshers
  <2>3. unread' # {} => stale' BY <2>1, <2>2 DEF MarkInv
  <2>. QED BY <2>1, <2>3 DEF MarkInv
<1>7. CASE PollFails
  <2>1. /\ poll = "failing" /\ poll' = "idle" /\ stale' = stale /\ needed' = needed
        /\ unread' = unread
    BY <1>7 DEF PollFails, NoPoll
  <2>. QED BY <2>1 DEF MarkInv
<1>8. CASE ControlMerged \/ ZoneMerged
  BY <1>8, Merging DEF ControlMerged, ZoneMerged
<1>9. ASSUME NEW o \in Object, Pushed(o) PROVE MarkInv'
  BY <1>9, Merging DEF Pushed
<1>10. CASE Connects BY <1>10, Marked DEF Connects
<1>11. CASE Disconnects
  <2>1. /\ poll' = IF poll \in {"idle", "waking"} THEN poll ELSE "failing"
        /\ UNCHANGED <<stale, needed, unread, due, force>>
    BY <1>11 DEF Disconnects
  <2>. QED BY <2>1 DEF MarkInv
<1>12. CASE ConfigurationAges
  <2>1. stale' = TRUE /\ UNCHANGED <<needed, unread, poll, due, force>>
    BY <1>12 DEF ConfigurationAges
  <2>. QED BY <2>1 DEF MarkInv
<1>13. CASE UNCHANGED <<stale, needed, unread, poll, due, force>> BY <1>13 DEF MarkInv
<1>14. CASE \/ PollOffline \/ ConfigurationUnreadable \/ ZoneBatchBegins \/ ZoneRefreshEnds
            \/ ZoneRefreshFails
            \/ \E o \in Object : ZoneSkipped(o) \/ ZoneRead(o) \/ ZoneUnreadable(o) \/ ControlRead(o)
            \/ \E o \in Object, k \in Supported \cup {"other", "gone"} : ObjectChanges(o, k)
  BY <1>13, <1>14 DEF PollOffline, ConfigurationUnreadable, ZoneBatchBegins, ZoneRefreshEnds,
     ZoneRefreshFails, ZoneSkipped, ZoneRead, ZoneUnreadable, ControlRead, ObjectChanges
<1>15. CASE UNCHANGED vars BY <1>13, <1>15 DEF vars
<1>. QED BY <1>1, <1>2, <1>3, <1>4, <1>5, <1>6, <1>7, <1>8, <1>9, <1>10, <1>11, <1>12, <1>14,
            <1>15
         DEF Next, PollStep, ZoneStep, Unreadable

-----------------------------------------------------------------------------
(* What the catalog has is shown or deferred, in the snapshot and in what a   *)
(* poll has read so far; what the poll still has to read is shown if the      *)
(* poll knew it at its start.                                                *)
CatalogInv ==
  /\ CatalogAccounted
  /\ poll = "catalog" /\ catalog # NoCatalog => catalog \subseteq Known(prev) \cup deferred
  /\ poll = "objects" => newCatalog \subseteq Known(got) \cup newDeferred \cup toRead
  /\ poll = "objects" => toRead \cap Known(prev) \subseteq Known(got)
  /\ poll \in {"mixers", "relay", "heating", "waking"} =>
       newCatalog \subseteq Known(got) \cup newDeferred
  /\ poll \in {"objects", "mixers", "relay", "heating", "waking"} => newCatalog # NoCatalog

Readable == \A l \in Limits : l.readable

LEMMA MergeKeepsKnown ==
  ASSUME Typed, NEW o, NEW k, NEW ver, Merge(o, k, ver)
  PROVE  Known(data) \subseteq Known(data')
<1>1. data \in [Object -> Entry] BY Entries DEF Typed
<1>2. CASE k \in Supported
  <2>1. data' = [data EXCEPT ![o] = [kind |-> k, ver |-> ver, up |-> TRUE]] /\ k # "gone"
    BY <1>2 DEF Merge, Supported
  <2>2. \A x \in Object : data'[x].kind = IF x = o THEN k ELSE data[x].kind
    BY <1>1, <2>1
  <2>. QED BY <2>1, <2>2 DEF Known
<1>3. CASE k \notin Supported /\ k = "gone" /\ data[o].kind # "gone"
  <2>1. data' = [data EXCEPT ![o] = [data[o] EXCEPT !.up = FALSE]]
    BY <1>3 DEF Merge, Supported
  <2>2. \A e \in Entry : [e EXCEPT !.up = FALSE].kind = e.kind BY DEF Entry
  <2>3. \A x \in Object : data'[x].kind = data[x].kind
    BY <1>1, <2>1, <2>2
  <2>. QED BY <2>3 DEF Known
<1>4. CASE k \notin Supported /\ ~(k = "gone" /\ data[o].kind # "gone")
  BY <1>4 DEF Merge, Supported
<1>. QED BY <1>2, <1>3, <1>4

LEMMA CatalogMerging ==
  ASSUME Typed, CatalogInv, NEW o, NEW k, NEW ver, Merge(o, k, ver),
         UNCHANGED <<catalog, deferred, pollVars>>
  PROVE  CatalogInv'
<1>1. Known(data) \subseteq Known(data') BY MergeKeepsKnown
<1>2. /\ catalog' = catalog /\ deferred' = deferred /\ poll' = poll /\ prev' = prev
      /\ got' = got /\ toRead' = toRead /\ newCatalog' = newCatalog
      /\ newDeferred' = newDeferred
  BY DEF pollVars
<1>3. CatalogAccounted' BY <1>1, <1>2 DEF CatalogInv, CatalogAccounted, Known
<1>. QED BY <1>2, <1>3 DEF CatalogInv, Known

LEMMA CatalogContinuing ==
  ASSUME CatalogInv, NEW rest, NEW objects, NEW later, NEW differs,
         Continue(rest, objects, later, differs),
         UNCHANGED <<data, catalog, deferred, prev>>, newCatalog' # NoCatalog,
         newCatalog' \subseteq Known(objects) \cup later \cup rest,
         rest \cap Known(prev) \subseteq Known(objects)
  PROVE  CatalogInv'
<1>1. /\ toRead' = rest /\ got' = objects /\ newDeferred' = later
      /\ poll' = IF rest # {} THEN "objects" ELSE "mixers"
      /\ data' = data /\ catalog' = catalog /\ deferred' = deferred /\ prev' = prev
  BY DEF Continue
<1>. QED BY <1>1 DEF CatalogInv, CatalogAccounted, Known

LEMMA CatalogStep == Readable /\ Typed /\ CatalogInv /\ [Next]_vars => CatalogInv'
<1>. SUFFICES ASSUME Readable, Typed, CatalogInv, [Next]_vars PROVE CatalogInv' OBVIOUS
<1>1. CASE CatalogRead
  <2>. DEFINE known   == Known(prev) \cap Present
              new     == IF catalog = NoCatalog THEN Present \ known ELSE Present \ catalog
              later   == deferred \cap Present
              differs == catalog # NoCatalog /\ Present # catalog
              retried == IF due \/ differs THEN later ELSE {}
              objects == Unavailable(known)
  <2>1. /\ poll = "catalog" /\ newCatalog' = Present
        /\ Continue(known \cup new \cup retried, objects, later, differs)
        /\ UNCHANGED <<data, catalog, deferred, prev>>
    BY <1>1 DEF CatalogRead
  <2>2. Present \subseteq Object /\ Present # NoCatalog
    BY CoordinatorAssumption DEF Present, NoCatalog
  <2>3. Known(objects) = known
    <3>1. prev \in [Object -> Entry] BY Entries DEF Typed
    <3>2. \A e \in Entry : [e EXCEPT !.up = FALSE].kind = e.kind BY DEF Entry
    <3>3. \A o \in Object : objects[o].kind = IF o \in known THEN prev[o].kind ELSE "gone"
      BY <3>1, <3>2 DEF Unavailable, Nothing
    <3>. QED BY <3>3 DEF Known
  <2>4. Present \subseteq known \cup later \cup new
    BY <2>1 DEF CatalogInv
  <2>5. (known \cup new \cup retried) \cap Known(prev) \subseteq known
    BY DEF Present, Known
  <2>. HIDE DEF known, new, later, differs, retried, objects
  <2>. QED BY <2>1, <2>2, <2>3, <2>4, <2>5, CatalogContinuing
<1>2. CatalogUnreadable => FALSE
  BY DEF CatalogUnreadable, Readable, Typed
<1>3. ASSUME NEW o \in Object, ObjectRead(o) \/ ObjectUnreadable(o) PROVE CatalogInv'
  <2>1. /\ poll = "objects" /\ newCatalog' = newCatalog /\ o \in toRead
        /\ UNCHANGED <<data, catalog, deferred, prev>>
    BY <1>3 DEF ObjectRead, ObjectUnreadable
  <2>2. /\ newCatalog # NoCatalog /\ newCatalog \subseteq Known(got) \cup newDeferred \cup toRead
        /\ toRead \cap Known(prev) \subseteq Known(got)
    BY <2>1 DEF CatalogInv
  <2>3. got \in [Object -> Entry] BY Entries DEF Typed
  <2>4. CASE ObjectUnreadable(o) \/ truth[o].kind = "gone"
    <3>1. PICK differs : Continue(toRead \ {o}, got,
                                  IF o \in Known(prev) THEN newDeferred ELSE newDeferred \cup {o},
                                  differs)
      BY <1>3, <2>4 DEF ObjectRead, ObjectUnreadable
    <3>. QED BY <2>1, <2>2, <3>1, CatalogContinuing
  <2>5. CASE ObjectRead(o) /\ truth[o].kind = "other"
    <3>1. PICK differs : Continue(toRead \ {o}, [got EXCEPT ![o] = Nothing],
                                  newDeferred \cup {o}, differs)
      BY <2>5 DEF ObjectRead
    <3>2. Known(got) \ {o} \subseteq Known([got EXCEPT ![o] = Nothing])
      BY <2>3 DEF Known
    <3>. QED BY <2>1, <2>2, <3>1, <3>2, CatalogContinuing
  <2>6. CASE ObjectRead(o) /\ truth[o].kind \in Supported
    <3>1. PICK differs : Continue(toRead \ {o}, [got EXCEPT ![o] = Shown(o)],
                                  newDeferred \ {o}, differs)
      BY <2>6 DEF ObjectRead, Supported
    <3>2. Shown(o).kind # "gone" BY <2>6 DEF Shown, Supported
    <3>3. Known(got) \cup {o} \subseteq Known([got EXCEPT ![o] = Shown(o)])
      BY <2>3, <3>2 DEF Known
    <3>. QED BY <2>1, <2>2, <3>1, <3>3, CatalogContinuing
  <2>7. truth[o].kind \in Supported \cup {"other", "gone"} BY DEF Typed, Truths
  <2>. QED BY <1>3, <2>4, <2>5, <2>6, <2>7
<1>4. CASE PollBegins
  <2>1. /\ poll' = "catalog" /\ prev' = data /\ data' = data /\ catalog' = catalog
        /\ deferred' = deferred
    BY <1>4 DEF PollBegins
  <2>. QED BY <2>1 DEF CatalogInv, CatalogAccounted, Known
<1>5. CASE Publish
  <2>1. poll = "waking" /\ poll' = "idle" BY <1>5 DEF Publish, PublishIf, NoPoll
  <2>2. CASE connected
    <3>1. data' = got /\ (newCatalog # NoCatalog => catalog' = newCatalog /\ deferred' = newDeferred)
      BY <1>5, <2>2 DEF Publish, PublishIf
    <3>2. CatalogAccounted' BY <2>1, <3>1 DEF CatalogInv, CatalogAccounted, Known
    <3>. QED BY <2>1, <3>2 DEF CatalogInv
  <2>3. CASE ~connected
    <3>1. data' = data /\ catalog' = catalog /\ deferred' = deferred
      BY <1>5, <2>3 DEF Publish, PublishIf
    <3>. QED BY <2>1, <3>1 DEF CatalogInv, CatalogAccounted, Known
  <2>. QED BY <2>2, <2>3
<1>6. CASE PollFails
  <2>1. poll' = "idle" /\ data' = data /\ catalog' = catalog /\ deferred' = deferred
    BY <1>6 DEF PollFails, NoPoll
  <2>. QED BY <2>1 DEF CatalogInv, CatalogAccounted, Known
<1>7. CASE MixersRead \/ RelaysRead \/ CircuitsRead \/ Disconnects
  <2>1. /\ data' = data /\ catalog' = catalog /\ deferred' = deferred /\ prev' = prev
        /\ got' = got /\ newCatalog' = newCatalog /\ newDeferred' = newDeferred
        /\ \/ /\ poll \in {"mixers", "relay", "heating"}
              /\ poll' \in {"relay", "heating", "waking"}
           \/ poll' = poll /\ poll \in {"idle", "waking"}
           \/ poll' = "failing"
    BY <1>7 DEF MixersRead, RelaysRead, CircuitsRead, Disconnects, Begin
  <2>. QED BY <2>1 DEF CatalogInv, CatalogAccounted, Known
<1>8. CASE ControlMerged \/ ZoneMerged
  BY <1>8, CatalogMerging DEF ControlMerged, ZoneMerged
<1>9. ASSUME NEW o \in Object, Pushed(o) PROVE CatalogInv'
  BY <1>9, CatalogMerging DEF Pushed
<1>10. CASE UNCHANGED <<data, catalog, deferred, pollVars>>
  BY <1>10 DEF CatalogInv, CatalogAccounted, Known, pollVars
<1>11. CASE \/ PollOffline \/ ConfigurationUnreadable \/ ZoneBatchBegins \/ ZoneRefreshEnds
            \/ ZoneRefreshFails \/ Connects \/ ConfigurationAges
            \/ \E o \in Object : ZoneSkipped(o) \/ ZoneRead(o) \/ ZoneUnreadable(o) \/ ControlRead(o)
            \/ \E o \in Object, k \in Supported \cup {"other", "gone"} : ObjectChanges(o, k)
  BY <1>10, <1>11 DEF PollOffline, ConfigurationUnreadable, ZoneBatchBegins, ZoneRefreshEnds,
     ZoneRefreshFails, ZoneSkipped, ZoneRead, ZoneUnreadable, ControlRead, ObjectChanges, Connects,
     ConfigurationAges
<1>12. CASE UNCHANGED vars BY <1>10, <1>12 DEF vars
<1>. QED BY <1>1, <1>2, <1>3, <1>4, <1>5, <1>6, <1>7, <1>8, <1>9, <1>11, <1>12
         DEF Next, PollStep, ZoneStep, Unreadable

-----------------------------------------------------------------------------
(* Theorems.                                                                 *)

(* Every variable keeps its type.                                            *)
THEOREM TypeCorrect == Spec => []TypeOK
<1>1. Spec => []Typed BY TypedInit, TypedStep, PTL DEF Spec
<1>. QED BY <1>1, SameTypes, PTL

(* After a snapshot was published, last_update_success means that the        *)
(* controller is connected: _async_update_data looks at the connection again. *)
THEOREM ConnectedSuccess == Spec => []SuccessMeansConnected
<1>1. Init => SuccessMeansConnected BY DEF Init, SuccessMeansConnected
<1>2. SuccessMeansConnected /\ [Next]_vars => SuccessMeansConnected'
  <2>. SUFFICES ASSUME SuccessMeansConnected, [Next]_vars PROVE SuccessMeansConnected' OBVIOUS
  <2>. USE DEF SuccessMeansConnected, envVars
  <2>1. CASE PollStep
    BY <2>1 DEF PollStep, PollOffline, PollBegins, CatalogRead, MixersRead, RelaysRead,
       CircuitsRead, Publish, PublishIf, PollFails, ObjectRead
  <2>2. CASE ZoneStep
    BY <2>2 DEF ZoneStep, ZoneBatchBegins, ZoneRefreshEnds, ZoneMerged, ZoneRefreshFails,
       ZoneSkipped, ZoneRead
  <2>3. CASE Unreadable
    BY <2>3 DEF Unreadable, CatalogUnreadable, ConfigurationUnreadable, ObjectUnreadable,
       ZoneUnreadable
  <2>. QED BY <2>1, <2>2, <2>3
       DEF Next, ControlMerged, Connects, Disconnects, ConfigurationAges, ControlRead, Pushed,
           ObjectChanges, vars
<1>. QED BY <1>1, <1>2, PTL DEF Spec

(* Whatever fails, is unreadable or is marked meanwhile, the configuration    *)
(* counts as fresh only when each refresher has come to the end of a forced  *)
(* and whole reading since the last mark.                                    *)
THEOREM MarksHonoured == Spec => []MarksAreHonoured
<1>1. Init => MarkInv BY DEF Init, MarkInv
<1>2. Spec => [](Typed /\ MarkInv)
  BY <1>1, TypedInit, TypedStep, MarkStep, PTL DEF Spec
<1>3. MarkInv => MarksAreHonoured BY DEF MarkInv, MarksAreHonoured
<1>. QED BY <1>2, <1>3, PTL

(* Where every catalog parses, no object of the last confirmed catalog is     *)
(* forgotten: each is shown or deferred.                                     *)
THEOREM NothingForgotten == ASSUME Readable PROVE Spec => []CatalogAccounted
<1>1. Init => CatalogInv BY DEF Init, CatalogInv, CatalogAccounted
<1>2. Typed /\ CatalogInv /\ [Next]_vars => CatalogInv' BY CatalogStep
<1>3. Spec => [](Typed /\ CatalogInv)
  BY <1>1, <1>2, TypedInit, TypedStep, PTL DEF Spec
<1>4. CatalogInv => CatalogAccounted BY DEF CatalogInv
<1>. QED BY <1>3, <1>4, PTL
=============================================================================
