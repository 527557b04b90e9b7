---------------------------- MODULE ExportManager ----------------------------
(***************************************************************************)
(* How the values of Home Assistant entities reach ZONT objects:            *)
(* ZontExportManager (export/manager.py) with its bindings, its subscribed  *)
(* events, the jobs they start, and the requests those make one at a time   *)
(* under _sync_lock.                                                        *)
(*                                                                         *)
(* A job starts at once and waits for the lock; a request is served at one  *)
(* moment, and its job runs on with the answer in a later step, or fails    *)
(* with the connection.  Nothing else happens between two awaits of a job   *)
(* that holds the lock: its stretch from taking a free lock, or from one    *)
(* binding to the request of the next, has several steps (step is "taken"   *)
(* or "next") that no event comes between.                                 *)
(*                                                                         *)
(* Abstracted: the kind of a binding is the domain of its source; names,    *)
(* issue texts and the conversion of values; resolving sources again at the *)
(* start of a job, which finds what the last registry event left.           *)
(***************************************************************************)
EXTENDS Integers, Sequences, FiniteSets

CONSTANTS
  Target,
  Temperature, Binary,   \* sources that are sensors, and binary sensors
  MaxChanges,            \* bound: changes of a source or of the registry
  Limits                 \* bound: the behaviours that are considered

ASSUME ExportAssumption ==
  /\ Temperature \cap Binary = {}
  /\ MaxChanges \in Nat
  /\ Limits \subseteq [changes : 0 .. MaxChanges, targets : Nat, edits : Nat,
                     faults : Nat, readable : BOOLEAN]

Source == Temperature \cup Binary
Kind(s) == IF s \in Temperature THEN "temperature" ELSE "binary"
Binding == [target : Target, source : Source]

(* Sources and targets are globally unique.                                *)
Configurations ==
  {bs \in SUBSET Binding :
     \A b, c \in bs : b.target = c.target \/ b.source = c.source => b = c}

(* The Repairs identifier of a binding.                                    *)
IssueOf(b) == <<Kind(b.source), b.target>>
Issues == {"temperature", "binary"} \X Target

VARIABLES
  limit,         \* bound: the changes of sources and the registry, the changes of
                 \* target objects, the reconfigurations and the faults (broken
                 \* connections, unreadable answers) of this behaviour, and
                 \* whether its answers all parse
  \* environment
  connected, truth, state, registered, changes, targets, edits, faults,
  received,      \* the value each target object was last given
  \* manager
  bindings, resolved, validated, active, errors, issues,
  started, subscribed, shutdown,
  \* _sync_lock: the waiting jobs, and the one that holds it
  queue, job, todo, at, step, value, accepted,
  \* history
  confirmed      \* kinds of targets confirmed on this connection

boundVars  == <<limit, changes, targets, edits, faults>>
worldVars  == <<truth, state, registered, received>>
targetVars == <<validated, active, errors, issues>>
bindVars   == <<bindings, resolved, subscribed>>
lifeVars   == <<started, shutdown>>
holdVars   == <<job, todo, at, value, accepted>>
jobVars    == <<holdVars, step>>
vars       == <<connected, boundVars, worldVars, targetVars, bindVars, lifeVars,
                queue, jobVars, confirmed>>

NoValue == -1
Values == 0 .. MaxChanges
States == Values \cup {-2, -3, -4}
Missing == -2      \* the source has no state,
Unavailable == -3  \* none it can export now,
Invalid == -4      \* or one that is no export source

Job == [kind : {"all", "one", "heartbeat", "reconfigure"},
        validate : BOOLEAN, of : SUBSET Binding]
SyncAll(validate) == [kind |-> "all", validate |-> validate, of |-> {}]
SyncBinding(b) == [kind |-> "one", validate |-> FALSE, of |-> {b}]
Heartbeat == [kind |-> "heartbeat", validate |-> FALSE, of |-> {}]
NoJob == SyncAll(FALSE)

(* Jobs in _tasks: the heartbeat and the reconfiguration are run by others. *)
Tracked(j) == j.kind \in {"all", "one"}

TypeOK ==
  /\ connected \in BOOLEAN /\ started \in BOOLEAN /\ subscribed \in BOOLEAN
  /\ truth \in [Target -> {"temperature", "binary", "gone"}]
  /\ state \in [Source -> States] /\ registered \subseteq Source
  /\ received \in [Target -> Values \cup {NoValue}]
  /\ limit \in Limits
  /\ changes \in 0 .. limit.changes /\ targets \in 0 .. limit.targets
  /\ edits \in 0 .. limit.edits /\ faults \in 0 .. limit.faults
  /\ bindings \in Configurations
  /\ {resolved, validated, active, errors} \subseteq SUBSET Target
  /\ issues \subseteq Issues /\ confirmed \subseteq Issues
  /\ shutdown \in {"no", "joining", "done"}
  /\ queue \in Seq(Job) /\ job \in Job /\ todo \subseteq Binding /\ at \subseteq Binding
  /\ step \in {"free", "taken", "handed", "next", "validating", "validated",
              "writing", "written", "failing"}
  /\ value \in Values \cup {NoValue} /\ accepted \in BOOLEAN

Init ==
  /\ limit \in Limits
  /\ connected = FALSE
  /\ truth \in [Target -> {"temperature", "binary"}]
  /\ state \in [Source -> {0, Missing}] /\ registered = Source
  /\ received = [t \in Target |-> NoValue]
  /\ changes = 0 /\ targets = 0 /\ edits = 0 /\ faults = 0
  /\ bindings \in Configurations
  /\ resolved = {} /\ validated = {} /\ active = {} /\ errors = {} /\ issues = {}
  /\ started = FALSE /\ subscribed = FALSE /\ shutdown = "no"
  /\ queue = <<>> /\ job = NoJob /\ todo = {} /\ at = {}
  /\ step = "free" /\ value = NoValue /\ accepted = FALSE
  /\ confirmed = {}

-----------------------------------------------------------------------------
(* Helpers.                                                                *)

(* An event can come.                                                      *)
Awaiting == step \notin {"taken", "next"}

(* Jobs come to wait for the lock; the first takes it when it is free.      *)
Enqueue(jobs) ==
  /\ queue' = queue \o jobs
  /\ step' = IF step = "free" /\ jobs # <<>> THEN "taken" ELSE step

(* _create_task, and the early return of the job it starts.                *)
CreateTask(j) == Enqueue(IF shutdown = "no" /\ connected THEN <<j>> ELSE <<>>)

(* The lock is released, and handed to who waits.                          *)
Release(waiting) == step' = IF waiting = <<>> THEN "free" ELSE "handed"

(* _async_subscribe_sources.                                               *)
Resolve(bs, known) == {b.target : b \in {c \in bs : c.source \in known}}

TheOne(bs) == CHOOSE b \in bs : TRUE

(* _mark_healthy, after _async_validate_target has left V validated.        *)
MarkHealthy(b) ==
  /\ active' = active \cup {b.target}
  /\ errors' = errors \ {b.target}
  /\ issues' = issues \ {IssueOf(b)}
  /\ UNCHANGED validated

(* _set_issue.                                                             *)
SetIssue(b) ==
  /\ validated' = validated \ {b.target}
  /\ active' = active \ {b.target}
  /\ errors' = errors \cup {b.target}
  /\ issues' = issues \cup {IssueOf(b)}

(* The value cannot be exported now.                                       *)
SetInactive(b, V) ==
  /\ validated' = V
  /\ active' = active \ {b.target}
  /\ UNCHANGED <<errors, issues>>

NextBinding ==
  step' = "next" /\ at' = {} /\ value' = NoValue /\ accepted' = FALSE

(* Mutant: the source's state is sent whatever it is.                      *)
WriteAnyState(b, V) ==
  IF connected
    THEN /\ step' = "writing" /\ value' = state[b.source]
         /\ at' = {b} /\ accepted' = FALSE
         /\ validated' = V /\ UNCHANGED <<active, errors, issues>>
    ELSE SetInactive(b, V) /\ NextBinding

(* The second half of _async_sync_binding_locked: the source is read and    *)
(* its value sent.                                                         *)
Write(b, V) ==
  LET v == IF b.target \in resolved THEN state[b.source] ELSE Missing
  IN  CASE v \in {Missing, Invalid} -> SetIssue(b) /\ NextBinding
        [] v = Unavailable \/ ~connected -> SetInactive(b, V) /\ NextBinding
        [] OTHER ->
             /\ step' = "writing" /\ value' = v /\ at' = {b} /\ accepted' = FALSE
             /\ validated' = V /\ UNCHANGED <<active, errors, issues>>

Cancelled == shutdown = "joining"

-----------------------------------------------------------------------------
(* The job that holds _sync_lock.                                          *)

(* Mutant: a binding that is no longer configured is synchronized.         *)
SyncEntersUnchecked ==
  /\ step \in {"taken", "handed"} /\ Head(queue).kind # "reconfigure"
  /\ queue' = Tail(queue) /\ job' = Head(queue)
  /\ todo' = IF Head(queue).kind = "one" THEN Head(queue).of ELSE bindings
  /\ step' = "next"
  /\ UNCHANGED <<connected, boundVars, worldVars, targetVars, bindVars, lifeVars, at,
                 value, accepted, confirmed>>

(* _async_sync_all and _async_sync_binding get the lock.                    *)
SyncEnters ==
  /\ step \in {"taken", "handed"} /\ Head(queue).kind # "reconfigure"
  /\ queue' = Tail(queue) /\ job' = Head(queue)
  /\ todo' = IF Head(queue).kind = "one" THEN Head(queue).of \cap bindings ELSE bindings
  /\ step' = "next"
  /\ UNCHANGED <<connected, boundVars, worldVars, targetVars, bindVars, lifeVars, at,
                 value, accepted, confirmed>>

SyncEnds ==
  /\ step = "next" /\ todo = {}
  /\ Release(queue) /\ job' = NoJob
  /\ UNCHANGED <<connected, boundVars, worldVars, targetVars, bindVars, lifeVars, queue,
                 todo, at, value, accepted, confirmed>>

(* Mutant: a broken binding is left alone from then on.                    *)
SyncBindingLockedPausing(b) ==
  /\ step = "next" /\ b \in todo
  /\ todo' = todo \ {b}
  /\ IF b.target \in errors THEN NextBinding /\ UNCHANGED targetVars
     ELSE IF job.validate \/ b.target \notin validated
       THEN IF connected
              THEN /\ step' = "validating" /\ at' = {b}
                   /\ UNCHANGED <<targetVars, value, accepted>>
              ELSE SetInactive(b, validated) /\ NextBinding
       ELSE Write(b, validated)
  /\ UNCHANGED <<connected, boundVars, worldVars, bindVars, lifeVars, queue, job,
                 confirmed>>

(* _async_sync_binding_locked: the target is validated first when it must.  *)
SyncBindingLocked(b) ==
  /\ step = "next" /\ b \in todo
  /\ todo' = todo \ {b}
  /\ IF job.validate \/ b.target \notin validated
       THEN IF connected
              THEN /\ step' = "validating" /\ at' = {b}
                   /\ UNCHANGED <<targetVars, value, accepted>>
              ELSE SetInactive(b, validated) /\ NextBinding
       ELSE Write(b, validated)
  /\ UNCHANGED <<connected, boundVars, worldVars, bindVars, lifeVars, queue, job,
                 confirmed>>

(* The controller answers req_state: the object has the binding's kind.     *)
ValidationServed ==
  /\ step = "validating" /\ connected
  /\ LET b == TheOne(at)
     IN  /\ accepted' = (truth[b.target] = Kind(b.source))
         /\ confirmed' = IF accepted' THEN confirmed \cup {IssueOf(b)} ELSE confirmed
  /\ step' = "validated"
  /\ UNCHANGED <<connected, boundVars, worldVars, targetVars, bindVars, lifeVars, queue,
                 job, todo, at, value>>

TargetValidated ==
  /\ step = "validated" /\ ~Cancelled
  /\ LET b == TheOne(at)
     IN  IF accepted THEN Write(b, validated \cup {b.target})
                     ELSE SetIssue(b) /\ NextBinding
  /\ UNCHANGED <<connected, boundVars, worldVars, bindVars, lifeVars, queue, job, todo,
                 confirmed>>

(* The controller executes the command, or rejects it.                     *)
WriteServed ==
  /\ step = "writing" /\ connected
  /\ LET b == TheOne(at)
     IN  /\ accepted' = (truth[b.target] = Kind(b.source))
         /\ received' = IF accepted' THEN [received EXCEPT ![b.target] = value]
                        ELSE received
  /\ step' = "written"
  /\ UNCHANGED <<connected, boundVars, truth, state, registered, targetVars, bindVars,
                 lifeVars, queue, job, todo, at, value, confirmed>>

BindingWritten ==
  /\ step = "written" /\ ~Cancelled
  /\ LET b == TheOne(at)
     IN  IF accepted THEN MarkHealthy(b) ELSE SetIssue(b)
  /\ NextBinding
  /\ UNCHANGED <<connected, boundVars, worldVars, bindVars, lifeVars, queue, job, todo,
                 confirmed>>

(* An answer that does not parse, or has no proper result.                 *)
AnswerUnreadable ==
  /\ step \in {"validating", "writing"} /\ connected
  /\ ~limit.readable /\ faults < limit.faults /\ faults' = faults + 1
  /\ step' = IF step = "validating" THEN "validated" ELSE "written"
  /\ accepted' = FALSE
  /\ UNCHANGED <<limit, connected, changes, targets, edits, worldVars, targetVars, bindVars,
                 lifeVars, queue, job, todo, at, value, confirmed>>

(* ZontConnectionError or ZontRequestTimeoutError.                         *)
RequestFailed ==
  /\ step = "failing" /\ ~Cancelled
  /\ SetInactive(TheOne(at), validated)
  /\ NextBinding
  /\ UNCHANGED <<connected, boundVars, worldVars, bindVars, lifeVars, queue, job, todo,
                 confirmed>>

-----------------------------------------------------------------------------
(* The manager's operations.                                               *)

(* async_start; the client is not supervised yet, so nothing is sent.       *)
Start ==
  /\ Awaiting /\ ~started /\ shutdown = "no"
  /\ started' = TRUE
  /\ subscribed' = (bindings # {})
  /\ resolved' = IF subscribed' THEN Resolve(bindings, registered) ELSE resolved
  /\ UNCHANGED <<connected, boundVars, worldVars, targetVars, bindings, shutdown, queue,
                 jobVars, confirmed>>

(* The options flow removes the issues of the bindings it removes, and the  *)
(* update listener calls async_reconfigure, once at a time (options_lock).  *)
Reconfigure(new) ==
  /\ Awaiting /\ shutdown = "no" /\ edits < limit.edits
  /\ new # bindings /\ \A i \in DOMAIN queue : queue[i].kind # "reconfigure"
  /\ edits' = edits + 1
  /\ issues' = issues \ {IssueOf(b) : b \in bindings \ new}
  /\ Enqueue(<<[kind |-> "reconfigure", validate |-> FALSE, of |-> new]>>)
  /\ UNCHANGED <<limit, connected, changes, targets, faults, worldVars, validated, active,
                 errors, bindVars, lifeVars, holdVars, confirmed>>

ChangedTargets(new) ==
  {b.target : b \in (bindings \ new) \cup (new \ bindings)}

ReconfigureTo(new, stale) ==
  /\ bindings' = new
  /\ validated' = validated \ ChangedTargets(new)
  /\ active' = active \ ChangedTargets(new)
  /\ errors' = errors \ ChangedTargets(new)
  /\ issues' = issues \ {IssueOf(b) : b \in stale}
  /\ subscribed' = (started /\ new # {})
  /\ resolved' = IF subscribed' THEN Resolve(new, registered) ELSE {}
  /\ queue' = Tail(queue) \o
                 IF subscribed' /\ connected /\ shutdown = "no"
                   THEN <<SyncAll(TRUE)>> ELSE <<>>
  /\ IF Tail(queue) = <<>> /\ queue' # <<>> THEN step' = "taken" ELSE Release(queue')

(* Mutant: only the issues of new bindings are deleted.                    *)
ReconfigureKeepsIssues ==
  /\ step \in {"taken", "handed"} /\ Head(queue).kind = "reconfigure"
  /\ LET new == Head(queue).of
     IN  ReconfigureTo(new, new \ bindings)
  /\ UNCHANGED <<connected, boundVars, worldVars, lifeVars, holdVars, confirmed>>

(* async_reconfigure has the lock; what it changes it changes at once.      *)
ReconfigureEnters ==
  /\ step \in {"taken", "handed"} /\ Head(queue).kind = "reconfigure"
  /\ LET new == Head(queue).of
     IN  ReconfigureTo(new, (bindings \ new) \cup (new \ bindings))
  /\ UNCHANGED <<connected, boundVars, worldVars, lifeVars, holdVars, confirmed>>

(* The jobs that wait on when the tracked ones are cancelled: there is at     *)
(* most one heartbeat and one reconfiguration.                              *)
Untracked(q) ==
  LET rest == {i \in DOMAIN q : ~Tracked(q[i])}
      pair == CHOOSE p \in rest \X rest : p[1] < p[2]
  IN  CASE rest = {}                   -> <<>>
        [] \E i \in rest : rest = {i} -> <<q[TheOne(rest)]>>
        [] OTHER                       -> <<q[pair[1]], q[pair[2]]>>

(* async_shutdown: the subscriptions end; the tracked tasks are cancelled   *)
(* and awaited.                                                            *)
Shutdown ==
  /\ Awaiting /\ shutdown = "no"
  /\ subscribed' = FALSE /\ resolved' = {}
  /\ queue' = Untracked(queue)
  /\ IF step \in {"free", "handed"}
       THEN shutdown' = "done" /\ Release(queue')
       ELSE shutdown' = (IF Tracked(job) THEN "joining" ELSE "done") /\ UNCHANGED step
  /\ UNCHANGED <<connected, boundVars, worldVars, targetVars, bindings, started, holdVars,
                 confirmed>>

(* The cancelled job leaves; the client gives up the connection of its      *)
(* request.                                                                *)
CancelledJobEnds ==
  /\ Cancelled
  /\ shutdown' = "done"
  /\ connected' = (connected /\ step = "failing")
  /\ confirmed' = IF connected' THEN confirmed ELSE {}
  /\ job' = NoJob /\ todo' = {} /\ at' = {}
  /\ Release(queue) /\ value' = NoValue /\ accepted' = FALSE
  /\ UNCHANGED <<boundVars, worldVars, targetVars, bindVars, started, queue>>

-----------------------------------------------------------------------------
(* The events it subscribes to.                                            *)

(* The binding whose state subscription hears of a source.                 *)
Heard(s) == {b \in bindings : b.source = s /\ b.target \in resolved}

StateChanges(s, v) ==
  /\ Awaiting /\ changes < limit.changes /\ changes' = changes + 1
  /\ v # state[s] /\ state' = [state EXCEPT ![s] = v]
  /\ UNCHANGED <<limit, connected, targets, edits, faults, truth, registered, received,
                 targetVars, bindVars, lifeVars, holdVars, confirmed>>

(* Mutant: a change is left to the job that is under way.                  *)
SourceStateChangesCoalesced(s, v) ==
  /\ StateChanges(s, v)
  /\ IF Heard(s) # {} /\ step = "free"
       THEN CreateTask(SyncBinding(TheOne(Heard(s)))) ELSE Enqueue(<<>>)

(* _async_source_state_changed.                                            *)
SourceStateChanges(s, v) ==
  /\ StateChanges(s, v)
  /\ IF Heard(s) # {} THEN CreateTask(SyncBinding(TheOne(Heard(s)))) ELSE Enqueue(<<>>)

(* A source loses its registry entry, or has one again:                     *)
(* _async_entity_registry_updated.                                         *)
EntityRegistryUpdated(s) ==
  /\ Awaiting /\ changes < limit.changes /\ changes' = changes + 1
  /\ registered' = IF s \in registered THEN registered \ {s} ELSE registered \cup {s}
  /\ resolved' = IF subscribed THEN Resolve(bindings, registered') ELSE resolved
  /\ IF resolved' # resolved THEN CreateTask(SyncAll(FALSE)) ELSE Enqueue(<<>>)
  /\ UNCHANGED <<limit, connected, targets, edits, faults, truth, state, received, targetVars,
                 bindings, subscribed, lifeVars, holdVars, confirmed>>

(* Every two minutes, unless the last heartbeat still waits.               *)
HeartbeatFires ==
  /\ Awaiting /\ subscribed /\ connected /\ shutdown = "no"
  /\ Heartbeat \notin {queue[i] : i \in DOMAIN queue} \cup {job}
  /\ Enqueue(<<Heartbeat>>)
  /\ UNCHANGED <<connected, boundVars, worldVars, targetVars, bindVars, lifeVars,
                 holdVars, confirmed>>

(* A new connection takes longer than jobs need whose requests cannot be    *)
(* sent; only a request that timed out may outlast it, closing its socket.  *)
Connects ==
  /\ ~connected /\ started
  /\ step \in {"free", "failing"}
  /\ connected' = TRUE
  /\ Enqueue(IF subscribed /\ shutdown = "no" THEN <<SyncAll(TRUE)>> ELSE <<>>)
  /\ UNCHANGED <<boundVars, worldVars, targetVars, bindVars, lifeVars, holdVars,
                 confirmed>>

Lost ==
  /\ Awaiting /\ connected /\ faults < limit.faults
  /\ connected' = FALSE /\ faults' = faults + 1
  /\ confirmed' = {}
  /\ step' = IF step \in {"validating", "writing"} THEN "failing" ELSE step
  /\ UNCHANGED <<limit, changes, targets, edits, worldVars, errors, issues, bindVars, lifeVars,
                 queue, job, todo, at, value, accepted>>

(* Mutant: targets stay validated over a reconnect.                        *)
DisconnectsKeepingTargets == Lost /\ UNCHANGED <<validated, active>>

Disconnects ==
  /\ Lost
  /\ IF subscribed THEN validated' = {} /\ active' = {}
                   ELSE UNCHANGED <<validated, active>>

(* The controller's configuration changes under the manager.               *)
TargetChanges(t, kind) ==
  /\ Awaiting /\ targets < limit.targets /\ targets' = targets + 1
  /\ kind # truth[t] /\ truth' = [truth EXCEPT ![t] = kind]
  /\ received' = [received EXCEPT ![t] = NoValue]
  /\ UNCHANGED <<limit, connected, changes, edits, faults, state, registered, targetVars,
                 bindVars, lifeVars, queue, jobVars, confirmed>>

-----------------------------------------------------------------------------
JobStep ==
  \/ SyncEnters \/ SyncEnds \/ TargetValidated \/ BindingWritten \/ RequestFailed
  \/ ReconfigureEnters \/ CancelledJobEnds
  \/ \E b \in Binding : SyncBindingLocked(b)

Served == ValidationServed \/ WriteServed

Next ==
  \/ Start \/ Shutdown \/ JobStep \/ Served \/ AnswerUnreadable
  \/ HeartbeatFires \/ Connects \/ Disconnects
  \/ \E new \in Configurations : Reconfigure(new)
  \/ \E s \in Source : EntityRegistryUpdated(s)
  \/ \E s \in Source, v \in {changes + 1, Missing, Unavailable, Invalid} :
       SourceStateChanges(s, v)
  \/ \E t \in Target, k \in {"temperature", "binary", "gone"} : TargetChanges(t, k)

Spec == Init /\ [][Next]_vars

(* Jobs run, the controller answers or the request fails, the supervisor    *)
(* connects: nothing else may be needed to bring a value across.            *)
FairSpec ==
  Spec /\ WF_vars(Start) /\ WF_vars(JobStep) /\ WF_vars(Served) /\ WF_vars(Connects)

-----------------------------------------------------------------------------
(* A value is only ever sent for a configured binding, to a target that the *)
(* controller has confirmed on this very connection to be of its kind: not  *)
(* for a binding that was replaced while its job waited, nor by trusting    *)
(* what was validated before a reconnect.  (A manager that was shut down    *)
(* hears of no reconnect; ShutdownIsComplete is about what it still does.) *)
WritesAreConfirmed ==
  step = "writing" /\ shutdown = "no" =>
    at \subseteq bindings /\ {IssueOf(b) : b \in at} \subseteq confirmed

(* Every open repair issue is about a configured binding that is counted as *)
(* broken and not as active, however flows, reconfigurations and jobs that  *)
(* were under way interleave.                                              *)
IssuesAreCurrent ==
  /\ issues \subseteq {IssueOf(b) : b \in {c \in bindings : c.target \in errors}}
  /\ active \cap errors = {}

(* After async_shutdown the manager subscribes to nothing ("release all     *)
(* subscriptions"), begins no request and raises no issue ("Cancel work").  *)
ShutdownIsComplete ==
  [][shutdown = "done" =>
       /\ ~subscribed'
       /\ issues' \subseteq issues
       /\ step' \in {"validating", "writing"} => step' = step]_vars

-----------------------------------------------------------------------------
Exportable(b) ==
  b.source \in registered /\ state[b.source] >= 0 /\ truth[b.target] = Kind(b.source)

(* Once nothing changes any more, every target has the present value of its *)
(* source, without waiting for a heartbeat: no change is lost in a job that *)
(* was under way, a reconfiguration or an outage.  (Target objects keep    *)
(* their type, and answers parse.)                                         *)
ValuesArrive ==
  limit.targets = 0 /\ limit.readable =>
    <>[](shutdown # "no" \/
         \A b \in bindings : Exportable(b) => received[b.target] = state[b.source])

(* With heartbeats, also a binding that was broken recovers by itself: its  *)
(* value arrives and its repair issue is closed, although the manager hears *)
(* nothing of changes of a target object.                                  *)
Recovers ==
  WF_vars(HeartbeatFires) =>
    <>[](shutdown # "no" \/
         \A b \in bindings :
           Exportable(b) => /\ received[b.target] = state[b.source]
                            /\ IssueOf(b) \notin issues)
=============================================================================
