-------------------------- MODULE ExportManagerProofs --------------------------
(***************************************************************************)
(* Theorems about ExportManager, for any targets, sources and bounds: a value *)
(* is only written for a configured binding to a target confirmed on this    *)
(* connection, and the open repair issues are those of the broken bindings.  *)
(***************************************************************************)
EXTENDS ExportManager, SequenceTheorems, TLAPS

-----------------------------------------------------------------------------
(* The lock, its queue, and what its holder works on.                        *)
WellFormed(j) == j.kind = "reconfigure" => j.of \in Configurations

Busy == {"validating", "validated", "writing", "written", "failing"}

LockInv ==
  /\ queue \in Seq(Job) /\ job \in Job /\ bindings \in Configurations
  /\ \A i \in DOMAIN queue : WellFormed(queue[i])
  /\ step \in {"free", "taken", "handed", "next"} \cup Busy
  /\ step = "free" => queue = <<>>
  /\ step \in {"taken", "handed"} => queue # <<>>
  /\ step \in {"free", "taken", "handed"} => todo = {}
  /\ todo \subseteq bindings
  /\ IF step \in Busy THEN \E b \in bindings : at = {b} ELSE at = {}

LEMMA Singleton == \A b : TheOne({b}) = b
BY DEF TheOne

LEMMA Jobs ==
  /\ NoJob \in Job /\ Heartbeat \in Job /\ SyncAll(TRUE) \in Job /\ SyncAll(FALSE) \in Job
  /\ \A b \in Binding : SyncBinding(b) \in Job
  /\ \A bs \in SUBSET Binding :
       [kind |-> "reconfigure", validate |-> FALSE, of |-> bs] \in Job
BY DEF NoJob, Heartbeat, SyncAll, SyncBinding, Job

(* One more job at the end of a queue.                                       *)
LEMMA Appending ==
  ASSUME NEW q \in Seq(Job), \A i \in DOMAIN q : WellFormed(q[i]),
         NEW j \in Job, WellFormed(j), NEW r, r = Append(q, j)
  PROVE  /\ r \in Seq(Job) /\ r # <<>>
         /\ \A i \in DOMAIN r : WellFormed(r[i])
<1>1. r \in Seq(Job) /\ Len(r) = Len(q) + 1 BY AppendProperties
<1>2. \A i \in 1 .. Len(q) + 1 : r[i] = IF i <= Len(q) THEN q[i] ELSE j BY AppendProperties
<1>3. Len(q) \in Nat /\ DOMAIN q = 1 .. Len(q) /\ DOMAIN r = 1 .. Len(q) + 1 BY <1>1
<1>4. ASSUME NEW i \in DOMAIN r PROVE WellFormed(r[i])
  <2>1. i \in 1 .. Len(q) + 1 BY <1>3
  <2>2. CASE i <= Len(q)
    <3>1. i \in DOMAIN q BY <1>3, <2>1, <2>2
    <3>2. r[i] = q[i] BY <1>2, <2>1, <2>2
    <3>. QED BY <3>1, <3>2
  <2>3. CASE ~(i <= Len(q))
    <3>1. r[i] = j BY <1>2, <2>1, <2>3
    <3>. QED BY <3>1
  <2>. QED BY <2>2, <2>3
<1>. QED BY <1>1, <1>3, <1>4

(* Jobs that join the queue: the first takes a free lock.                    *)
LEMMA Joining ==
  ASSUME LockInv, NEW jobs, Enqueue(jobs),
         jobs = <<>> \/ \E j \in Job : WellFormed(j) /\ jobs = <<j>>
  PROVE  /\ queue' \in Seq(Job) /\ \A i \in DOMAIN queue' : WellFormed(queue'[i])
         /\ step' \in {step, "taken"} /\ (step # "free" => step' = step)
         /\ step' = "free" => queue' = <<>>
         /\ step' \in {"taken", "handed"} => queue' # <<>>
<1>1. CASE jobs = <<>>
  <2>1. queue' = queue /\ step' = step BY <1>1 DEF Enqueue, LockInv
  <2>. QED BY <2>1 DEF LockInv
<1>2. ASSUME NEW j \in Job, WellFormed(j), jobs = <<j>>
      PROVE  /\ queue' \in Seq(Job) /\ \A i \in DOMAIN queue' : WellFormed(queue'[i])
             /\ queue' # <<>>
             /\ step' = IF step = "free" THEN "taken" ELSE step
  <2>1. queue' = Append(queue, j) /\ jobs # <<>> BY <1>2 DEF Enqueue, LockInv
  <2>2. /\ queue' \in Seq(Job) /\ queue' # <<>>
        /\ \A i \in DOMAIN queue' : WellFormed(queue'[i])
    BY <1>2, <2>1, Appending DEF LockInv
  <2>. QED BY <2>1, <2>2 DEF Enqueue
<1>. QED BY <1>1, <1>2

LEMMA Leaving ==
  ASSUME LockInv, queue # <<>>
  PROVE  /\ Head(queue) \in Job /\ WellFormed(Head(queue))
         /\ Tail(queue) \in Seq(Job) /\ \A i \in DOMAIN Tail(queue) : WellFormed(Tail(queue)[i])
<1>1. Head(queue) = queue[1] /\ 1 \in DOMAIN queue BY DEF LockInv
<1>2. \A i \in DOMAIN Tail(queue) : i + 1 \in DOMAIN queue /\ Tail(queue)[i] = queue[i + 1]
  BY DEF LockInv
<1>. QED BY <1>1, <1>2 DEF LockInv

LEMMA UntrackedJobs ==
  ASSUME LockInv
  PROVE  /\ Untracked(queue) \in Seq(Job)
         /\ \A i \in DOMAIN Untracked(queue) : WellFormed(Untracked(queue)[i])
<1>. DEFINE rest == {i \in DOMAIN queue : ~Tracked(queue[i])}
            pair == CHOOSE p \in rest \X rest : p[1] < p[2]
<1>0. /\ rest \subseteq DOMAIN queue /\ DOMAIN queue \subseteq Nat
      /\ \A i \in DOMAIN queue : queue[i] \in Job /\ WellFormed(queue[i])
  BY DEF LockInv
<1>1. CASE rest = {}
  <2>1. Untracked(queue) = <<>> BY <1>1 DEF Untracked
  <2>. QED BY <2>1
<1>2. CASE \E i \in rest : rest = {i}
  <2>1. PICK i \in rest : rest = {i} BY <1>2
  <2>2. Untracked(queue) = <<queue[i]>> BY <2>1, Singleton DEF Untracked
  <2>. QED BY <1>0, <2>2
<1>3. CASE rest # {} /\ ~\E i \in rest : rest = {i}
  <2>1. PICK i \in rest, j \in rest : i < j BY <1>0, <1>3
  <2>2. pair \in rest \X rest
    <3>1. <<i, j>> \in rest \X rest /\ <<i, j>>[1] < <<i, j>>[2] BY <2>1
    <3>. QED BY <3>1
  <2>3. Untracked(queue) = <<queue[pair[1]], queue[pair[2]]>> BY <1>3 DEF Untracked
  <2>. HIDE DEF pair, rest
  <2>4. pair[1] \in rest /\ pair[2] \in rest BY <2>2
  <2>5. PICK x \in Job, y \in Job :
          x = queue[pair[1]] /\ y = queue[pair[2]] /\ WellFormed(x) /\ WellFormed(y)
    BY <1>0, <2>4
  <2>6. Untracked(queue) = <<x, y>> BY <2>3, <2>5
  <2>. QED BY <2>5, <2>6
<1>. QED BY <1>1, <1>2, <1>3

(* What SyncBindingLocked and TargetValidated do after a target counts as     *)
(* validated: they begin to write, or go on to the next binding.             *)
LEMMA Writing ==
  ASSUME NEW b, NEW V, Write(b, V)
  PROVE  \/ /\ step' = "writing" /\ at' = {b} /\ connected
            /\ validated' = V /\ UNCHANGED <<active, errors, issues>>
         \/ step' = "next" /\ at' = {} /\ (SetIssue(b) \/ SetInactive(b, V))
<1>. DEFINE v == IF b.target \in resolved THEN state[b.source] ELSE Missing
<1>1. CASE v \in {Missing, Invalid} BY <1>1 DEF Write, NextBinding, Missing, Invalid, Unavailable
<1>2. CASE v \notin {Missing, Invalid} /\ (v = Unavailable \/ ~connected)
  BY <1>2 DEF Write, NextBinding, Missing, Invalid, Unavailable
<1>3. CASE v \notin {Missing, Invalid} /\ ~(v = Unavailable \/ ~connected)
  BY <1>3 DEF Write
<1>. QED BY <1>1, <1>2, <1>3

LEMMA LockStep == LockInv /\ [Next]_vars => LockInv'
<1>. SUFFICES ASSUME LockInv, [Next]_vars PROVE LockInv' OBVIOUS
<1>. USE DEF holdVars, bindVars, Busy
<1>1. CASE Start \/ AnswerUnreadable \/ Served
  <2>1. queue' = queue /\ job' = job /\ bindings' = bindings /\ todo' = todo /\ at' = at
    BY <1>1 DEF Start, AnswerUnreadable, Served, ValidationServed, WriteServed, jobVars
  <2>2. step' = step \/ (step \in Busy /\ step' \in Busy)
    BY <1>1 DEF Start, AnswerUnreadable, Served, ValidationServed, WriteServed, jobVars
  <2>. QED BY <2>1, <2>2 DEF LockInv
<1>2. CASE SyncEnters
  <2>1. queue # <<>> BY <1>2 DEF SyncEnters, LockInv
  <2>2. /\ queue' = Tail(queue) /\ job' = Head(queue) /\ todo' \subseteq bindings
        /\ step' = "next" /\ bindings' = bindings /\ at' = at
    BY <1>2 DEF SyncEnters
  <2>3. at = {} BY <1>2 DEF SyncEnters, LockInv
  <2>. QED BY <2>1, <2>2, <2>3, Leaving DEF LockInv
<1>3. CASE SyncEnds
  BY <1>3, Jobs DEF SyncEnds, Release, LockInv
<1>4. CASE ReconfigureEnters
  <2>1. queue # <<>> BY <1>4 DEF ReconfigureEnters, LockInv
  <2>2. PICK new : new = Head(queue).of OBVIOUS
  <2>3. new \in Configurations
    BY <1>4, <2>1, <2>2, Leaving DEF ReconfigureEnters, WellFormed
  <2>4. /\ bindings' = new /\ job' = job /\ todo' = todo /\ at' = at
        /\ \/ queue' = Tail(queue) \o <<SyncAll(TRUE)>>
           \/ queue' = Tail(queue) \o <<>>
        /\ IF Tail(queue) = <<>> /\ queue' # <<>> THEN step' = "taken" ELSE Release(queue')
    BY <1>4, <2>2 DEF ReconfigureEnters, ReconfigureTo
  <2>5. todo = {} /\ at = {} BY <1>4 DEF ReconfigureEnters, LockInv
  <2>6. /\ Tail(queue) \in Seq(Job) /\ \A i \in DOMAIN Tail(queue) : WellFormed(Tail(queue)[i])
    BY <2>1, Leaving
  <2>7. queue' \in Seq(Job) /\ \A i \in DOMAIN queue' : WellFormed(queue'[i])
    <3>1. CASE queue' = Tail(queue) \o <<>>
      <4>1. queue' = Tail(queue) BY <2>6, <3>1, ConcatEmptySeq
      <4>. QED BY <2>6, <4>1
    <3>2. CASE queue' = Tail(queue) \o <<SyncAll(TRUE)>>
      <4>1. PICK j \in Job : j = SyncAll(TRUE) /\ WellFormed(j)
        BY Jobs DEF WellFormed, SyncAll
      <4>2. queue' = Append(Tail(queue), j)
        <5>1. PICK q \in Seq(Job) : q = Tail(queue) BY <2>6
        <5>2. q \o <<j>> = Append(q, j) BY <5>1
        <5>3. queue' = q \o <<j>> BY <3>2, <4>1, <5>1
        <5>. QED BY <5>1, <5>2, <5>3
      <4>. QED BY <2>6, <4>1, <4>2, Appending
    <3>. QED BY <2>4, <3>1, <3>2
  <2>8. step' \in {"free", "taken", "handed"} /\ (step' = "free" <=> queue' = <<>>)
    BY <2>4 DEF Release
  <2>. QED BY <2>3, <2>4, <2>5, <2>7, <2>8 DEF LockInv
<1>5. CASE CancelledJobEnds
  <2>1. /\ queue' = queue /\ bindings' = bindings /\ job' = NoJob /\ todo' = {} /\ at' = {}
        /\ Release(queue)
    BY <1>5 DEF CancelledJobEnds
  <2>. QED BY <2>1, Jobs DEF Release, LockInv
<1>6. ASSUME NEW b \in Binding, SyncBindingLocked(b) PROVE LockInv'
  <2>1. /\ step = "next" /\ b \in todo /\ todo' = todo \ {b}
        /\ queue' = queue /\ job' = job /\ bindings' = bindings
    BY <1>6 DEF SyncBindingLocked
  <2>2. \/ step' \in Busy /\ at' = {b}
        \/ step' = "next" /\ at' = {}
    <3>1. CASE Write(b, validated) BY <3>1, Writing
    <3>2. CASE ~Write(b, validated) BY <1>6, <3>2 DEF SyncBindingLocked, NextBinding
    <3>. QED BY <3>1, <3>2
  <2>. QED BY <2>1, <2>2 DEF LockInv
<1>7. CASE TargetValidated \/ BindingWritten \/ RequestFailed
  <2>1. /\ step \in Busy /\ todo' = todo /\ queue' = queue /\ job' = job
        /\ bindings' = bindings
    BY <1>7 DEF TargetValidated, BindingWritten, RequestFailed
  <2>2. PICK b \in bindings : at = {b} BY <2>1 DEF LockInv
  <2>3. \/ step' \in Busy /\ at' = {b}
        \/ step' = "next" /\ at' = {}
    <3>1. CASE Write(b, validated \cup {b.target}) BY <3>1, Writing
    <3>2. CASE ~Write(b, validated \cup {b.target})
      BY <1>7, <2>2, <3>2, Singleton
         DEF TargetValidated, BindingWritten, RequestFailed, NextBinding
    <3>. QED BY <3>1, <3>2
  <2>. QED BY <2>1, <2>2, <2>3 DEF LockInv
<1>8. CASE Shutdown
  <2>1. /\ queue' = Untracked(queue) /\ UNCHANGED <<bindings, job, todo, at>>
        /\ Awaiting
        /\ IF step \in {"free", "handed"} THEN Release(queue') ELSE step' = step
    BY <1>8 DEF Shutdown
  <2>2. queue' \in Seq(Job) /\ \A i \in DOMAIN queue' : WellFormed(queue'[i])
    BY <2>1, UntrackedJobs
  <2>3. CASE step \in {"free", "handed"}
    <3>1. step' \in {"free", "handed"} /\ (step' = "free" <=> queue' = <<>>)
      BY <2>1, <2>3 DEF Release
    <3>. QED BY <2>1, <2>2, <2>3, <3>1 DEF LockInv
  <2>4. CASE step \notin {"free", "handed"}
    <3>1. step' = step /\ step \in Busy BY <2>1, <2>4 DEF Awaiting, LockInv
    <3>. QED BY <2>1, <2>2, <3>1 DEF LockInv
  <2>. QED BY <2>3, <2>4
<1>9. ASSUME NEW jobs, Enqueue(jobs), jobs = <<>> \/ \E j \in Job : WellFormed(j) /\ jobs = <<j>>,
             UNCHANGED <<bindings, job, todo, at>>
      PROVE  LockInv'
  <2>1. /\ queue' \in Seq(Job) /\ \A i \in DOMAIN queue' : WellFormed(queue'[i])
        /\ step' \in {step, "taken"} /\ (step # "free" => step' = step)
        /\ step' = "free" => queue' = <<>>
        /\ step' \in {"taken", "handed"} => queue' # <<>>
    BY <1>9, Joining
  <2>. QED BY <1>9, <2>1 DEF LockInv
<1>10. WellFormed(SyncAll(TRUE)) /\ WellFormed(SyncAll(FALSE)) /\ WellFormed(Heartbeat)
         /\ \A b : WellFormed(SyncBinding(b))
  BY DEF WellFormed, SyncAll, Heartbeat, SyncBinding
<1>11. ASSUME NEW j \in Job, WellFormed(j), CreateTask(j), UNCHANGED <<bindings, job, todo, at>>
       PROVE  LockInv'
  BY <1>9, <1>11 DEF CreateTask
<1>12. CASE HeartbeatFires \/ Connects
  BY <1>9, <1>10, <1>12, Jobs DEF HeartbeatFires, Connects
<1>13. ASSUME NEW new \in Configurations, Reconfigure(new) PROVE LockInv'
  <2>1. PICK j : j = [kind |-> "reconfigure", validate |-> FALSE, of |-> new] OBVIOUS
  <2>2. j \in Job /\ WellFormed(j)
    BY <2>1, Jobs DEF WellFormed, Configurations
  <2>. QED BY <1>9, <1>13, <2>1, <2>2 DEF Reconfigure
<1>14. ASSUME NEW s \in Source, EntityRegistryUpdated(s) PROVE LockInv'
  BY <1>9, <1>10, <1>11, <1>14, Jobs DEF EntityRegistryUpdated
<1>15. ASSUME NEW s \in Source, NEW v, SourceStateChanges(s, v) PROVE LockInv'
  <2>1. UNCHANGED <<bindings, job, todo, at>>
    BY <1>15 DEF SourceStateChanges, StateChanges
  <2>2. CASE Heard(s) # {}
    <3>1. TheOne(Heard(s)) \in Binding
      BY <2>2 DEF TheOne, Heard, LockInv, Configurations
    <3>. QED BY <1>10, <1>11, <1>15, <2>1, <2>2, <3>1, Jobs DEF SourceStateChanges
  <2>3. CASE Heard(s) = {} BY <1>9, <1>15, <2>1, <2>3 DEF SourceStateChanges
  <2>. QED BY <2>2, <2>3
<1>16. CASE Disconnects
  <2>1. /\ UNCHANGED <<queue, bindings, job, todo, at>> /\ Awaiting
        /\ step' = IF step \in {"validating", "writing"} THEN "failing" ELSE step
    BY <1>16 DEF Disconnects, Lost
  <2>. QED BY <2>1 DEF LockInv
<1>17. CASE UNCHANGED <<queue, bindings, job, todo, at, step>>
  BY <1>17 DEF LockInv
<1>18. CASE (\E t \in Target, k \in {"temperature", "binary", "gone"} : TargetChanges(t, k))
              \/ UNCHANGED vars
  BY <1>17, <1>18 DEF TargetChanges, vars, jobVars
<1>. QED BY <1>1, <1>2, <1>3, <1>4, <1>5, <1>6, <1>7, <1>8, <1>12, <1>13, <1>14, <1>15, <1>16,
            <1>18
         DEF Next, JobStep

LEMMA LockInit == Init => LockInv
<1>. SUFFICES ASSUME Init PROVE LockInv OBVIOUS
<1>1. queue = <<>> /\ queue \in Seq(Job) /\ DOMAIN queue = {} BY DEF Init
<1>2. job \in Job /\ bindings \in Configurations BY Jobs DEF Init
<1>. QED BY <1>1, <1>2 DEF Init, LockInv, Busy

-----------------------------------------------------------------------------
(* Repair issues.                                                            *)
LEMMA Apart ==
  ASSUME NEW bs \in Configurations, NEW b \in bs, NEW c \in bs, b.target = c.target
  PROVE  b = c
BY DEF Configurations

(* What a job does to a configured binding keeps the issues current.         *)
LEMMA IssueOfOne ==
  ASSUME LockInv, IssuesAreCurrent, bindings' = bindings, NEW b \in bindings, NEW V,
         \/ MarkHealthy(b) \/ SetIssue(b) \/ SetInactive(b, V)
         \/ UNCHANGED <<active, errors, issues>>
  PROVE  IssuesAreCurrent'
<1>1. CASE MarkHealthy(b)
  <2>1. /\ active' = active \cup {b.target} /\ errors' = errors \ {b.target}
        /\ issues' = issues \ {IssueOf(b)}
    BY <1>1 DEF MarkHealthy
  <2>2. active' \cap errors' = {} BY <2>1 DEF IssuesAreCurrent
  <2>3. ASSUME NEW i \in issues'
        PROVE  \E c \in bindings : c.target \in errors' /\ i = IssueOf(c)
    <3>1. PICK c \in bindings : c.target \in errors /\ i = IssueOf(c)
      BY <2>1, <2>3 DEF IssuesAreCurrent
    <3>2. c # b BY <2>1, <2>3, <3>1
    <3>3. c.target # b.target BY <3>2, Apart DEF LockInv
    <3>. QED BY <2>1, <3>1, <3>3
  <2>. QED BY <2>2, <2>3 DEF IssuesAreCurrent
<1>2. CASE SetIssue(b)
  BY <1>2 DEF SetIssue, IssuesAreCurrent
<1>3. CASE SetInactive(b, V)
  BY <1>3 DEF SetInactive, IssuesAreCurrent
<1>4. CASE UNCHANGED <<active, errors, issues>>
  BY <1>4 DEF IssuesAreCurrent
<1>. QED BY <1>1, <1>2, <1>3, <1>4

LEMMA IssueStep == LockInv /\ IssuesAreCurrent /\ [Next]_vars => IssuesAreCurrent'
<1>. SUFFICES ASSUME LockInv, IssuesAreCurrent, [Next]_vars PROVE IssuesAreCurrent'
  OBVIOUS
<1>1. CASE UNCHANGED <<bindings, active, errors, issues>>
  BY <1>1 DEF IssuesAreCurrent
<1>2. ASSUME NEW b \in Binding, SyncBindingLocked(b) PROVE IssuesAreCurrent'
  <2>1. b \in bindings /\ bindings' = bindings
    BY <1>2 DEF SyncBindingLocked, LockInv, bindVars
  <2>2. CASE Write(b, validated) BY <2>1, <2>2, Writing, IssueOfOne
  <2>3. CASE ~Write(b, validated)
    <3>1. UNCHANGED <<active, errors, issues>> \/ SetInactive(b, validated)
      BY <1>2, <2>3 DEF SyncBindingLocked, targetVars
    <3>. QED BY <2>1, <3>1, IssueOfOne
  <2>. QED BY <2>2, <2>3
<1>3. CASE TargetValidated \/ BindingWritten \/ RequestFailed
  <2>1. step \in Busy /\ bindings' = bindings
    BY <1>3 DEF TargetValidated, BindingWritten, RequestFailed, Busy, bindVars
  <2>2. PICK b \in bindings : at = {b} BY <2>1 DEF LockInv
  <2>3. CASE Write(b, validated \cup {b.target}) BY <2>1, <2>3, Writing, IssueOfOne
  <2>4. CASE ~Write(b, validated \cup {b.target})
    <3>1. SetIssue(b) \/ MarkHealthy(b) \/ SetInactive(b, validated)
      BY <1>3, <2>2, <2>4, Singleton DEF TargetValidated, BindingWritten, RequestFailed
    <3>. QED BY <2>1, <3>1, IssueOfOne
  <2>. QED BY <2>3, <2>4
<1>4. ASSUME NEW new \in Configurations, Reconfigure(new) PROVE IssuesAreCurrent'
  BY <1>4 DEF Reconfigure, IssuesAreCurrent, bindVars
<1>5. CASE ReconfigureEnters
  <2>1. PICK new : new = Head(queue).of OBVIOUS
  <2>2. new \in Configurations
    BY <1>5, <2>1, Leaving DEF ReconfigureEnters, WellFormed, LockInv
  <2>3. /\ bindings' = new
        /\ active' = active \ ChangedTargets(new) /\ errors' = errors \ ChangedTargets(new)
        /\ issues' = issues \ {IssueOf(b) : b \in (bindings \ new) \cup (new \ bindings)}
    BY <1>5, <2>1 DEF ReconfigureEnters, ReconfigureTo
  <2>4. active' \cap errors' = {} BY <2>3 DEF IssuesAreCurrent
  <2>5. ASSUME NEW i \in issues' PROVE \E c \in new : c.target \in errors' /\ i = IssueOf(c)
    <3>1. PICK c \in bindings : c.target \in errors /\ i = IssueOf(c)
      BY <2>3, <2>5 DEF IssuesAreCurrent
    <3>2. c \in new BY <2>3, <2>5, <3>1
    <3>3. ASSUME c.target \in ChangedTargets(new) PROVE FALSE
      <4>1. PICK b \in (bindings \ new) \cup (new \ bindings) : b.target = c.target
        BY <3>3 DEF ChangedTargets
      <4>2. b = c BY <2>2, <3>1, <3>2, <4>1, Apart DEF LockInv
      <4>. QED BY <3>1, <3>2, <4>1, <4>2
    <3>. QED BY <2>3, <3>1, <3>2, <3>3
  <2>. QED BY <2>3, <2>4, <2>5 DEF IssuesAreCurrent
<1>6. CASE Disconnects
  <2>1. UNCHANGED <<bindings, errors, issues>> /\ (active' = {} \/ active' = active)
    BY <1>6 DEF Disconnects, Lost, bindVars
  <2>. QED BY <2>1 DEF IssuesAreCurrent
<1>7. CASE Start \/ AnswerUnreadable \/ Served
  BY <1>1, <1>7 DEF Start, AnswerUnreadable, Served, ValidationServed, WriteServed,
                    targetVars, bindVars
<1>8. CASE SyncEnters \/ SyncEnds \/ CancelledJobEnds \/ Shutdown
  BY <1>1, <1>8 DEF SyncEnters, SyncEnds, CancelledJobEnds, Shutdown, targetVars, bindVars
<1>9. CASE HeartbeatFires \/ Connects
  BY <1>1, <1>9 DEF HeartbeatFires, Connects, targetVars, bindVars
<1>10. ASSUME NEW s \in Source, EntityRegistryUpdated(s) PROVE IssuesAreCurrent'
  BY <1>1, <1>10 DEF EntityRegistryUpdated, targetVars
<1>11. ASSUME NEW s \in Source, NEW v, SourceStateChanges(s, v) PROVE IssuesAreCurrent'
  BY <1>1, <1>11 DEF SourceStateChanges, StateChanges, targetVars, bindVars
<1>12. CASE (\E t \in Target, k \in {"temperature", "binary", "gone"} : TargetChanges(t, k))
              \/ UNCHANGED vars
  BY <1>1, <1>12 DEF TargetChanges, vars, targetVars, bindVars
<1>. QED BY <1>2, <1>3, <1>4, <1>5, <1>6, <1>7, <1>8, <1>9, <1>10, <1>11, <1>12
         DEF Next, JobStep

(* Every open repair issue is about a configured binding that is counted as   *)
(* broken, and no target is counted as broken and active at once             *)
(* (_set_issue, _mark_healthy and async_reconfigure in export/manager.py).    *)
THEOREM IssuesStayCurrent == Spec => []IssuesAreCurrent
<1>1. Init => IssuesAreCurrent BY DEF Init, IssuesAreCurrent
<1>. QED BY <1>1, LockInit, LockStep, IssueStep, PTL DEF Spec

-----------------------------------------------------------------------------
(* What a write relies on, while the manager has not been shut down: a target *)
(* that counts as validated was confirmed on this connection, or a job that   *)
(* will validate it again is next or under way.                              *)
Revalidated(b) ==
  \/ IssueOf(b) \in confirmed
  \/ step = "taken" /\ Head(queue) = SyncAll(TRUE)
  \/ job.validate /\ b \in todo \cup at

Confirmed ==
  connected /\ ((step = "validated" /\ accepted) \/ step \in {"writing", "written"})
    => {IssueOf(b) : b \in at} \subseteq confirmed

Trusted == connected => \A b \in bindings : b.target \in validated => Revalidated(b)

TrustInv ==
  /\ connected => started
  /\ step \in {"validating", "writing"} => connected
  /\ shutdown = "no" => /\ subscribed = (started /\ bindings # {})
                        /\ step = "failing" => validated = {}
                        /\ Confirmed /\ Trusted

(* A job has done with one more binding, or begins to write for it.          *)
LEMMA TrustOfOne ==
  ASSUME LockInv, TrustInv, NEW b \in bindings,
         UNCHANGED <<bindings, connected, started, subscribed, shutdown, job, confirmed>>,
         step # "taken", step' \in {"next", "writing"},
         todo \subseteq todo' \cup {b}, at \subseteq {b},
         step' = "writing" => connected,
         shutdown = "no" /\ connected =>
           /\ validated' \subseteq validated \cup {b.target}
           /\ b.target \in validated' => IssueOf(b) \in confirmed
           /\ step' = "writing" => at' = {b} /\ b.target \in validated'
  PROVE  TrustInv'
<1>. USE DEF TrustInv
<1>1. ASSUME shutdown = "no" PROVE Confirmed' BY <1>1 DEF Confirmed
<1>2. ASSUME shutdown = "no", connected, NEW c \in bindings, c.target \in validated'
      PROVE  Revalidated(c)'
  <2>1. CASE c.target = b.target
    <3>1. c = b BY <2>1, Apart DEF LockInv
    <3>. QED BY <1>2, <3>1 DEF Revalidated
  <2>2. CASE c.target # b.target
    <3>1. c.target \in validated BY <1>2, <2>2
    <3>2. IssueOf(c) \in confirmed \/ (job.validate /\ c \in todo \cup at)
      BY <1>2, <3>1 DEF Trusted, Revalidated
    <3>3. c # b BY <2>2
    <3>. QED BY <3>2, <3>3 DEF Revalidated, IssueOf
  <2>. QED BY <2>1, <2>2
<1>. QED BY <1>1, <1>2 DEF Trusted

(* Write keeps its promise when the target it is given was confirmed.        *)
LEMMA TrustOfWrite ==
  ASSUME LockInv, TrustInv, NEW b \in bindings, NEW V, Write(b, V),
         UNCHANGED <<bindings, connected, started, subscribed, shutdown, job, confirmed>>,
         step # "taken", todo \subseteq todo' \cup {b}, at \subseteq {b},
         b.target \in V, V \subseteq validated \cup {b.target},
         shutdown = "no" /\ connected => IssueOf(b) \in confirmed
  PROVE  TrustInv'
<1>1. CASE /\ step' = "writing" /\ at' = {b} /\ connected /\ validated' = V
  BY <1>1, TrustOfOne
<1>2. CASE step' = "next" /\ (SetIssue(b) \/ SetInactive(b, V))
  <2>1. validated' = validated \ {b.target} \/ validated' = V
    BY <1>2 DEF SetIssue, SetInactive
  <2>. QED BY <1>2, <2>1, TrustOfOne
<1>. QED BY <1>1, <1>2, Writing

LEMMA TrustStep == LockInv /\ TrustInv /\ [Next]_vars => TrustInv'
<1>. SUFFICES ASSUME LockInv, TrustInv, [Next]_vars PROVE TrustInv' OBVIOUS
<1>. USE DEF lifeVars, bindVars, targetVars, holdVars, jobVars
<1>1. ASSUME UNCHANGED <<connected, started, shutdown, bindings, subscribed, validated,
                         job, todo, at, accepted, confirmed>>,
             step # "taken" \/ UNCHANGED <<step, queue>>,
             step' \in {step, "free", "taken", "handed"}
      PROVE  TrustInv'
  BY <1>1 DEF TrustInv, Confirmed, Trusted, Revalidated, IssueOf
<1>2. ASSUME NEW b \in Binding, SyncBindingLocked(b) PROVE TrustInv'
  <2>1. /\ step = "next" /\ b \in todo /\ b \in bindings /\ at = {} /\ todo' = todo \ {b}
        /\ UNCHANGED <<bindings, connected, started, subscribed, shutdown, job, confirmed>>
    BY <1>2 DEF SyncBindingLocked, LockInv, Busy
  <2>2. CASE job.validate \/ b.target \notin validated
    <3>1. CASE connected
      <4>1. step' = "validating" /\ at' = {b} /\ validated' = validated
        BY <1>2, <2>2, <3>1 DEF SyncBindingLocked
      <4>2. ASSUME shutdown = "no", NEW c \in bindings, c.target \in validated'
            PROVE  Revalidated(c)'
        <5>1. Revalidated(c) BY <2>1, <3>1, <4>1, <4>2 DEF TrustInv, Trusted
        <5>. QED BY <2>1, <4>1, <5>1 DEF Revalidated, IssueOf
      <4>. QED BY <2>1, <3>1, <4>1, <4>2 DEF TrustInv, Confirmed, Trusted
    <3>2. CASE ~connected
      <4>1. step' = "next" /\ validated' = validated
        BY <1>2, <2>2, <3>2 DEF SyncBindingLocked, SetInactive, NextBinding
      <4>. QED BY <2>1, <3>2, <4>1, TrustOfOne
    <3>. QED BY <3>1, <3>2
  <2>3. CASE ~job.validate /\ b.target \in validated
    <3>1. Write(b, validated) BY <1>2, <2>3 DEF SyncBindingLocked
    <3>2. shutdown = "no" /\ connected => IssueOf(b) \in confirmed
      BY <2>1, <2>3 DEF TrustInv, Trusted, Revalidated
    <3>. QED BY <2>1, <2>3, <3>1, <3>2, TrustOfWrite
  <2>. QED BY <2>2, <2>3
<1>3. CASE TargetValidated \/ BindingWritten \/ RequestFailed
  <2>1. /\ step \in Busy /\ step # "taken" /\ todo' = todo
        /\ UNCHANGED <<bindings, connected, started, subscribed, shutdown, job, confirmed>>
    BY <1>3 DEF TargetValidated, BindingWritten, RequestFailed, Busy
  <2>2. PICK b \in bindings : at = {b} BY <2>1 DEF LockInv
  <2>3. CASE TargetValidated /\ accepted
    <3>1. Write(b, validated \cup {b.target}) /\ step = "validated"
      BY <2>2, <2>3, Singleton DEF TargetValidated
    <3>2. shutdown = "no" /\ connected => IssueOf(b) \in confirmed
      BY <2>2, <2>3, <3>1 DEF TrustInv, Confirmed
    <3>. QED BY <2>1, <2>2, <3>1, <3>2, TrustOfWrite
  <2>4. CASE SetIssue(b) /\ step' = "next"
    <3>1. validated' = validated \ {b.target} BY <2>4 DEF SetIssue
    <3>. QED BY <2>1, <2>2, <2>4, <3>1, TrustOfOne
  <2>5. CASE BindingWritten /\ MarkHealthy(b) /\ step' = "next"
    <3>1. validated' = validated /\ step = "written"
      BY <2>5 DEF MarkHealthy, BindingWritten
    <3>2. shutdown = "no" /\ connected => IssueOf(b) \in confirmed
      BY <2>2, <3>1 DEF TrustInv, Confirmed
    <3>. QED BY <2>1, <2>2, <2>5, <3>1, <3>2, TrustOfOne
  <2>6. CASE RequestFailed
    <3>1. validated' = validated /\ step = "failing" /\ step' = "next"
      BY <2>6 DEF RequestFailed, SetInactive, NextBinding
    <3>2. shutdown = "no" => b.target \notin validated' BY <3>1 DEF TrustInv
    <3>. QED BY <2>1, <2>2, <3>1, <3>2, TrustOfOne
  <2>7. \/ TargetValidated /\ accepted
        \/ RequestFailed
        \/ step' = "next" /\ (SetIssue(b) \/ (BindingWritten /\ MarkHealthy(b)))
    BY <1>3, <2>2, Singleton DEF TargetValidated, BindingWritten, RequestFailed, NextBinding
  <2>. QED BY <2>3, <2>4, <2>5, <2>6, <2>7
<1>4. CASE Start
  <2>1. ~started /\ started' /\ shutdown = "no" /\ subscribed' = (bindings # {})
    BY <1>4 DEF Start
  <2>2. UNCHANGED <<connected, bindings, validated, job, todo, at, step, accepted, confirmed>>
    BY <1>4 DEF Start
  <2>. QED BY <2>1, <2>2 DEF TrustInv, Confirmed, Trusted
<1>5. CASE ValidationServed
  <2>1. /\ step = "validating" /\ step' = "validated" /\ confirmed \subseteq confirmed'
        /\ accepted' => IssueOf(TheOne(at)) \in confirmed'
        /\ UNCHANGED <<connected, started, shutdown, bindings, subscribed, validated,
                       job, todo, at>>
    BY <1>5 DEF ValidationServed
  <2>2. PICK b \in bindings : at = {b} BY <2>1 DEF LockInv, Busy
  <2>3. accepted' => {IssueOf(c) : c \in at} \subseteq confirmed' BY <2>1, <2>2, Singleton
  <2>. QED BY <2>1, <2>3 DEF TrustInv, Confirmed, Trusted, Revalidated, IssueOf
<1>6. CASE WriteServed \/ AnswerUnreadable
  <2>1. /\ \/ step = "validating" /\ step' = "validated" /\ ~accepted'
           \/ step = "writing" /\ step' = "written"
        /\ UNCHANGED <<connected, started, shutdown, bindings, subscribed, validated,
                       job, todo, at, confirmed>>
    BY <1>6 DEF WriteServed, AnswerUnreadable
  <2>. QED BY <2>1 DEF TrustInv, Confirmed, Trusted, Revalidated, IssueOf
<1>7. CASE SyncEnters
  <2>1. /\ step \in {"taken", "handed"} /\ step' = "next" /\ at' = at /\ job' = Head(queue)
        /\ Head(queue).kind # "one" => todo' = bindings
        /\ UNCHANGED <<connected, started, shutdown, bindings, subscribed, validated, confirmed>>
    BY <1>7 DEF SyncEnters
  <2>2. todo = {} /\ at = {} BY <2>1 DEF LockInv, Busy
  <2>3. Head(queue) = SyncAll(TRUE) => job'.validate /\ todo' = bindings
    <3>1. SyncAll(TRUE).kind = "all" /\ SyncAll(TRUE).validate BY DEF SyncAll
    <3>. QED BY <2>1, <3>1
  <2>. QED BY <2>1, <2>2, <2>3 DEF TrustInv, Confirmed, Trusted, Revalidated, IssueOf
<1>8. CASE SyncEnds
  <2>1. /\ step = "next" /\ todo = {} /\ step' \in {"free", "handed"}
        /\ UNCHANGED <<connected, started, shutdown, bindings, subscribed, validated, todo, at,
                       confirmed>>
    BY <1>8 DEF SyncEnds, Release
  <2>2. at = {} BY <2>1 DEF LockInv, Busy
  <2>. QED BY <2>1, <2>2 DEF TrustInv, Confirmed, Trusted, Revalidated, IssueOf
<1>9. CASE ReconfigureEnters
  <2>1. PICK new : new = Head(queue).of OBVIOUS
  <2>2. /\ step \in {"taken", "handed"} /\ Head(queue).kind = "reconfigure"
        /\ step' \in {"free", "taken", "handed"}
        /\ bindings' = new /\ validated' = validated \ ChangedTargets(new)
        /\ subscribed' = (started /\ new # {})
        /\ UNCHANGED <<connected, started, shutdown, job, todo, at, confirmed>>
    BY <1>9, <2>1 DEF ReconfigureEnters, ReconfigureTo, Release
  <2>3. todo = {} /\ at = {} BY <2>2 DEF LockInv, Busy
  <2>4. Head(queue) # SyncAll(TRUE) BY <2>2 DEF SyncAll
  <2>5. ASSUME shutdown = "no", connected, NEW c \in new, c.target \in validated'
        PROVE  IssueOf(c) \in confirmed
    <3>1. c \in bindings /\ c.target \in validated BY <2>2, <2>5 DEF ChangedTargets
    <3>. QED BY <2>3, <2>4, <2>5, <3>1 DEF TrustInv, Trusted, Revalidated
  <2>. QED BY <2>2, <2>5 DEF TrustInv, Confirmed, Trusted, Revalidated, IssueOf
<1>10. CASE CancelledJobEnds
  <2>1. /\ shutdown' = "done" /\ started' = started /\ (connected' => connected)
        /\ step' \in {"free", "handed"}
    BY <1>10 DEF CancelledJobEnds, Release
  <2>. QED BY <2>1 DEF TrustInv
<1>11. CASE Shutdown
  <2>1. /\ shutdown' # "no" /\ UNCHANGED <<started, connected>>
        /\ step' \in {step, "free", "handed"}
    BY <1>11 DEF Shutdown, Release
  <2>. QED BY <2>1 DEF TrustInv
<1>12. CASE HeartbeatFires
  BY <1>1, <1>12 DEF HeartbeatFires, Enqueue, Awaiting
<1>13. CASE Connects
  <2>1. /\ ~connected /\ started /\ step \in {"free", "failing"}
        /\ Enqueue(IF subscribed /\ shutdown = "no" THEN <<SyncAll(TRUE)>> ELSE <<>>)
        /\ UNCHANGED <<started, shutdown, bindings, subscribed, validated, at, todo, job, confirmed>>
    BY <1>13 DEF Connects
  <2>2. CASE step = "failing"
    <3>1. step' = step BY <2>1, <2>2 DEF Enqueue
    <3>. QED BY <2>1, <2>2, <3>1 DEF TrustInv, Confirmed, Trusted
  <2>3. CASE step = "free" /\ subscribed /\ shutdown = "no"
    <3>1. PICK j \in Job : j = SyncAll(TRUE) BY Jobs
    <3>2. queue = <<>> /\ queue' = queue \o <<j>> /\ step' = "taken"
      BY <2>1, <2>3, <3>1 DEF Enqueue, LockInv
    <3>3. Head(queue') = SyncAll(TRUE) BY <3>1, <3>2
    <3>. QED BY <2>1, <3>2, <3>3 DEF TrustInv, Confirmed, Trusted, Revalidated
  <2>4. CASE step = "free" /\ ~(subscribed /\ shutdown = "no")
    <3>1. step' = step BY <2>1, <2>4 DEF Enqueue
    <3>2. shutdown = "no" => bindings = {} BY <2>1, <2>4 DEF TrustInv
    <3>. QED BY <2>1, <2>4, <3>1, <3>2 DEF TrustInv, Confirmed, Trusted
  <2>. QED BY <2>1, <2>2, <2>3, <2>4
<1>14. CASE Disconnects
  <2>1. /\ connected /\ ~connected' /\ step # "taken"
        /\ step' = IF step \in {"validating", "writing"} THEN "failing" ELSE step
        /\ IF subscribed THEN validated' = {} ELSE validated' = validated
        /\ UNCHANGED <<started, shutdown, bindings, subscribed, at>>
    BY <1>14 DEF Disconnects, Lost, Awaiting
  <2>2. step' = "failing" => bindings # {} BY <2>1 DEF LockInv, Busy
  <2>. QED BY <2>1, <2>2 DEF TrustInv, Confirmed, Trusted
<1>15. ASSUME NEW new \in Configurations, Reconfigure(new) PROVE TrustInv'
  BY <1>1, <1>15 DEF Reconfigure, Enqueue, Awaiting
<1>16. ASSUME NEW s \in Source, EntityRegistryUpdated(s) PROVE TrustInv'
  BY <1>1, <1>16 DEF EntityRegistryUpdated, CreateTask, Enqueue, Awaiting
<1>17. ASSUME NEW s \in Source, NEW v, SourceStateChanges(s, v) PROVE TrustInv'
  BY <1>1, <1>17 DEF SourceStateChanges, StateChanges, CreateTask, Enqueue, Awaiting
<1>18. CASE (\E t \in Target, k \in {"temperature", "binary", "gone"} : TargetChanges(t, k))
              \/ UNCHANGED vars
  BY <1>1, <1>18 DEF TargetChanges, vars
<1>. QED BY <1>2, <1>3, <1>4, <1>5, <1>6, <1>7, <1>8, <1>9, <1>10, <1>11, <1>12, <1>13, <1>14,
            <1>15, <1>16, <1>17, <1>18
         DEF Next, JobStep, Served

(* A value is only ever sent for a configured binding, to a target whose kind *)
(* the controller confirmed on this very connection                          *)
(* (_async_sync_binding_locked and _async_connection_changed).               *)
THEOREM OnlyConfirmedWrites == Spec => []WritesAreConfirmed
<1>1. Init => TrustInv BY DEF Init, TrustInv, Confirmed, Trusted
<1>2. LockInv /\ TrustInv => WritesAreConfirmed
  BY DEF LockInv, TrustInv, Confirmed, WritesAreConfirmed, Busy
<1>. QED BY <1>1, <1>2, LockInit, LockStep, TrustStep, PTL DEF Spec

-----------------------------------------------------------------------------
(* The types of what lies outside the lock.                                  *)
WorldOK ==
  /\ connected \in BOOLEAN /\ started \in BOOLEAN /\ subscribed \in BOOLEAN
  /\ truth \in [Target -> {"temperature", "binary", "gone"}]
  /\ state \in [Source -> States] /\ registered \subseteq Source
  /\ received \in [Target -> Values \cup {NoValue}]
  /\ limit \in Limits
  /\ changes \in 0 .. limit.changes /\ targets \in 0 .. limit.targets
  /\ edits \in 0 .. limit.edits /\ faults \in 0 .. limit.faults
  /\ shutdown \in {"no", "joining", "done"}

TargetsOK ==
  /\ resolved \subseteq Target /\ validated \subseteq Target
  /\ active \subseteq Target /\ errors \subseteq Target
  /\ issues \subseteq Issues /\ confirmed \subseteq Issues
  /\ value \in Values \cup {NoValue} /\ accepted \in BOOLEAN

LEMMA OfBinding ==
  ASSUME NEW b \in Binding
  PROVE  b.target \in Target /\ b.source \in Source /\ IssueOf(b) \in Issues
BY DEF Binding, IssueOf, Issues, Kind

LEMMA OfLimit ==
  ASSUME WorldOK
  PROVE  /\ limit.changes \in 0 .. MaxChanges /\ limit.targets \in Nat
         /\ limit.edits \in Nat /\ limit.faults \in Nat
         /\ MaxChanges \in Nat /\ changes \in Nat /\ targets \in Nat
         /\ edits \in Nat /\ faults \in Nat
BY ExportAssumption DEF WorldOK

LEMMA NoValueTypes == NoValue \in Values \cup {NoValue} /\ 0 \in States /\ Missing \in States
BY ExportAssumption DEF NoValue, Values, States, Missing

(* What a job does with a binding.                                           *)
LEMMA TypeOfOne ==
  ASSUME TargetsOK, NEW b \in Binding, NEW V \in SUBSET Target,
         \/ SetIssue(b) \/ SetInactive(b, V) \/ MarkHealthy(b)
         \/ validated' = V /\ UNCHANGED <<active, errors, issues>>
  PROVE  /\ validated' \subseteq Target /\ active' \subseteq Target
         /\ errors' \subseteq Target /\ issues' \subseteq Issues
<1>1. CASE SetIssue(b) BY <1>1, OfBinding DEF SetIssue, TargetsOK
<1>2. CASE SetInactive(b, V) BY <1>2, OfBinding DEF SetInactive, TargetsOK
<1>3. CASE MarkHealthy(b) BY <1>3, OfBinding DEF MarkHealthy, TargetsOK
<1>4. CASE validated' = V /\ UNCHANGED <<active, errors, issues>> BY <1>4 DEF TargetsOK
<1>. QED BY <1>1, <1>2, <1>3, <1>4

LEMMA TypeOfWrite ==
  ASSUME WorldOK, TargetsOK, NEW b \in Binding, NEW V \in SUBSET Target, Write(b, V)
  PROVE  /\ validated' \subseteq Target /\ active' \subseteq Target
         /\ errors' \subseteq Target /\ issues' \subseteq Issues
         /\ value' \in Values \cup {NoValue} /\ accepted' \in BOOLEAN
<1>1. \/ SetIssue(b) \/ SetInactive(b, V)
      \/ validated' = V /\ UNCHANGED <<active, errors, issues>>
  BY Writing
<1>2. \/ value' = NoValue /\ accepted' = FALSE
      \/ value' = state[b.source] /\ accepted' = FALSE
         /\ state[b.source] \notin {Missing, Invalid, Unavailable}
  <2>. DEFINE v == IF b.target \in resolved THEN state[b.source] ELSE Missing
  <2>1. CASE v \in {Missing, Invalid}
    BY <2>1 DEF Write, NextBinding, Missing, Invalid, Unavailable
  <2>2. CASE v \notin {Missing, Invalid} /\ (v = Unavailable \/ ~connected)
    BY <2>2 DEF Write, NextBinding, Missing, Invalid, Unavailable
  <2>3. CASE v \notin {Missing, Invalid} /\ ~(v = Unavailable \/ ~connected)
    BY <2>3 DEF Write
  <2>. QED BY <2>1, <2>2, <2>3
<1>3. state[b.source] \in States BY OfBinding DEF WorldOK
<1>4. value' \in Values \cup {NoValue} /\ accepted' \in BOOLEAN
  BY <1>2, <1>3, NoValueTypes DEF States, Missing, Invalid, Unavailable
<1>. QED BY <1>1, <1>4, TypeOfOne

LEMMA Resolvable ==
  ASSUME NEW bs \in Configurations, NEW known PROVE Resolve(bs, known) \subseteq Target
BY OfBinding DEF Resolve, Configurations

LEMMA WorldStep == LockInv /\ WorldOK /\ TargetsOK /\ [Next]_vars => WorldOK'
<1>. SUFFICES ASSUME LockInv, WorldOK, TargetsOK, [Next]_vars PROVE WorldOK' OBVIOUS
<1>. USE DEF boundVars, worldVars, lifeVars, bindVars
<1>0. ASSUME UNCHANGED <<boundVars, worldVars>>, connected' \in BOOLEAN, started' \in BOOLEAN,
             subscribed' \in BOOLEAN, shutdown' \in {"no", "joining", "done"}
      PROVE  WorldOK'
  BY <1>0 DEF WorldOK
<1>1. CASE Start
  BY <1>0, <1>1 DEF Start, WorldOK
<1>2. CASE SyncEnters \/ SyncEnds \/ ValidationServed \/ HeartbeatFires
  BY <1>0, <1>2 DEF SyncEnters, SyncEnds, ValidationServed, HeartbeatFires, WorldOK
<1>3. CASE TargetValidated \/ BindingWritten \/ RequestFailed
  BY <1>0, <1>3 DEF TargetValidated, BindingWritten, RequestFailed, WorldOK
<1>4. ASSUME NEW b \in Binding, SyncBindingLocked(b) PROVE WorldOK'
  BY <1>0, <1>4 DEF SyncBindingLocked, WorldOK
<1>5. CASE ReconfigureEnters
  BY <1>0, <1>5 DEF ReconfigureEnters, ReconfigureTo, WorldOK
<1>6. CASE CancelledJobEnds
  BY <1>0, <1>6 DEF CancelledJobEnds, WorldOK
<1>7. CASE Shutdown
  BY <1>0, <1>7 DEF Shutdown, WorldOK
<1>8. CASE Connects
  BY <1>0, <1>8 DEF Connects, WorldOK
<1>9. CASE Disconnects
  <2>1. /\ faults < limit.faults /\ faults' = faults + 1 /\ connected' = FALSE
        /\ UNCHANGED <<limit, changes, targets, edits, worldVars, bindVars, lifeVars>>
    BY <1>9 DEF Disconnects, Lost
  <2>2. faults + 1 \in 0 .. limit.faults
    <3>1. faults \in Nat /\ limit.faults \in Nat BY OfLimit
    <3>2. faults < limit.faults BY <2>1
    <3>. QED BY <3>1, <3>2
  <2>3. faults' \in 0 .. limit'.faults /\ connected' \in BOOLEAN BY <2>1, <2>2
  <2>. QED BY <2>1, <2>3 DEF WorldOK
<1>10. CASE AnswerUnreadable
  <2>1. /\ faults < limit.faults /\ faults' = faults + 1
        /\ UNCHANGED <<limit, connected, changes, targets, edits, worldVars, bindVars, lifeVars>>
    BY <1>10 DEF AnswerUnreadable
  <2>. QED BY <2>1, OfLimit DEF WorldOK
<1>11. CASE WriteServed
  <2>1. PICK b \in bindings : at = {b} BY <1>11 DEF WriteServed, LockInv, Busy
  <2>2. b.target \in Target BY <2>1, OfBinding DEF LockInv, Configurations
  <2>3. /\ \/ received' = received
           \/ received' = [received EXCEPT ![b.target] = value]
        /\ UNCHANGED <<connected, boundVars, truth, state, registered, bindVars, lifeVars>>
    BY <1>11, <2>1, Singleton DEF WriteServed
  <2>4. received' \in [Target -> Values \cup {NoValue}]
    BY <2>2, <2>3 DEF WorldOK, TargetsOK
  <2>. QED BY <2>3, <2>4 DEF WorldOK
<1>12. ASSUME NEW new \in Configurations, Reconfigure(new) PROVE WorldOK'
  <2>1. /\ edits < limit.edits /\ edits' = edits + 1
        /\ UNCHANGED <<limit, connected, changes, targets, faults, worldVars, bindVars, lifeVars>>
    BY <1>12 DEF Reconfigure
  <2>. QED BY <2>1, OfLimit DEF WorldOK
<1>13. ASSUME NEW s \in Source, EntityRegistryUpdated(s) PROVE WorldOK'
  <2>1. /\ changes < limit.changes /\ changes' = changes + 1
        /\ registered' = IF s \in registered THEN registered \ {s} ELSE registered \cup {s}
        /\ UNCHANGED <<limit, connected, targets, edits, faults, truth, state, received,
                       subscribed, lifeVars>>
    BY <1>13 DEF EntityRegistryUpdated
  <2>. QED BY <2>1, OfLimit DEF WorldOK
<1>14. ASSUME NEW s \in Source, NEW v \in {changes + 1, Missing, Unavailable, Invalid},
              SourceStateChanges(s, v)
       PROVE  WorldOK'
  <2>1. /\ changes < limit.changes /\ changes' = changes + 1
        /\ state' = [state EXCEPT ![s] = v]
        /\ UNCHANGED <<limit, connected, targets, edits, faults, truth, registered, received,
                       bindVars, lifeVars>>
    BY <1>14 DEF SourceStateChanges, StateChanges
  <2>2. v \in States
    BY <2>1, OfLimit DEF States, Values, Missing, Unavailable, Invalid
  <2>3. state' \in [Source -> States] BY <2>1, <2>2 DEF WorldOK
  <2>. QED BY <2>1, <2>3, OfLimit DEF WorldOK
<1>15. ASSUME NEW t \in Target, NEW k \in {"temperature", "binary", "gone"}, TargetChanges(t, k)
       PROVE  WorldOK'
  <2>1. /\ targets < limit.targets /\ targets' = targets + 1
        /\ truth' = [truth EXCEPT ![t] = k]
        /\ received' = [received EXCEPT ![t] = NoValue]
        /\ UNCHANGED <<limit, connected, changes, edits, faults, state, registered,
                       bindVars, lifeVars>>
    BY <1>15 DEF TargetChanges
  <2>2. /\ truth' \in [Target -> {"temperature", "binary", "gone"}]
        /\ received' \in [Target -> Values \cup {NoValue}]
    BY <2>1 DEF WorldOK
  <2>. QED BY <2>1, <2>2, OfLimit DEF WorldOK
<1>16. CASE UNCHANGED vars
  BY <1>0, <1>16 DEF vars, WorldOK
<1>. QED BY <1>1, <1>2, <1>3, <1>4, <1>5, <1>6, <1>7, <1>8, <1>9, <1>10, <1>11, <1>12, <1>13,
            <1>14, <1>15, <1>16
         DEF Next, JobStep, Served

LEMMA TargetsStep == LockInv /\ WorldOK /\ TargetsOK /\ [Next]_vars => TargetsOK'
<1>. SUFFICES ASSUME LockInv, WorldOK, TargetsOK, [Next]_vars PROVE TargetsOK' OBVIOUS
<1>. USE DEF targetVars, holdVars, jobVars, bindVars
<1>0. /\ bindings \subseteq Binding /\ todo \subseteq Binding
      /\ step \in Busy => \E b \in Binding : at = {b}
  BY DEF LockInv, Configurations
<1>1. ASSUME UNCHANGED <<targetVars, confirmed>>, resolved' \subseteq Target,
             value' \in {value, NoValue}, accepted' \in BOOLEAN
      PROVE  TargetsOK'
  BY <1>1, NoValueTypes DEF TargetsOK
<1>2. CASE Start
  <2>1. resolved' \subseteq Target BY <1>2, Resolvable DEF Start, LockInv, TargetsOK
  <2>. QED BY <1>1, <1>2, <2>1 DEF Start, TargetsOK
<1>3. CASE SyncEnters \/ SyncEnds \/ HeartbeatFires \/ Connects \/ Shutdown
  BY <1>1, <1>3 DEF SyncEnters, SyncEnds, HeartbeatFires, Connects, Shutdown, TargetsOK
<1>4. CASE CancelledJobEnds
  BY <1>4, NoValueTypes DEF CancelledJobEnds, TargetsOK
<1>5. CASE WriteServed \/ AnswerUnreadable
  BY <1>1, <1>5 DEF WriteServed, AnswerUnreadable, TargetsOK
<1>6. CASE ValidationServed
  <2>1. PICK b \in Binding : at = {b} BY <1>0, <1>6 DEF ValidationServed, Busy
  <2>2. confirmed' \subseteq confirmed \cup {IssueOf(b)} /\ accepted' \in BOOLEAN
    BY <1>6, <2>1, Singleton DEF ValidationServed
  <2>3. UNCHANGED <<targetVars, resolved, value>> BY <1>6 DEF ValidationServed
  <2>. QED BY <2>2, <2>3, OfBinding DEF TargetsOK
<1>7. ASSUME NEW b \in Binding, SyncBindingLocked(b) PROVE TargetsOK'
  <2>1. resolved' = resolved /\ confirmed' = confirmed /\ validated \in SUBSET Target
    BY <1>7 DEF SyncBindingLocked, TargetsOK
  <2>2. CASE Write(b, validated) BY <2>1, <2>2, TypeOfWrite DEF TargetsOK
  <2>3. CASE ~Write(b, validated)
    <3>1. \/ UNCHANGED <<targetVars, value, accepted>>
          \/ SetInactive(b, validated) /\ NextBinding
      BY <1>7, <2>3 DEF SyncBindingLocked
    <3>2. CASE UNCHANGED <<targetVars, value, accepted>> BY <2>1, <3>2 DEF TargetsOK
    <3>3. CASE SetInactive(b, validated) /\ NextBinding
      BY <2>1, <3>3, TypeOfOne, NoValueTypes DEF NextBinding, TargetsOK
    <3>. QED BY <3>1, <3>2, <3>3
  <2>. QED BY <2>2, <2>3
<1>8. CASE TargetValidated \/ BindingWritten \/ RequestFailed
  <2>1. step \in Busy /\ resolved' = resolved /\ confirmed' = confirmed
    BY <1>8 DEF TargetValidated, BindingWritten, RequestFailed, Busy
  <2>2. PICK b \in Binding : at = {b} BY <1>0, <2>1
  <2>3. /\ validated \in SUBSET Target /\ validated \cup {b.target} \in SUBSET Target
    BY OfBinding DEF TargetsOK
  <2>4. CASE Write(b, validated \cup {b.target}) BY <2>1, <2>3, <2>4, TypeOfWrite DEF TargetsOK
  <2>5. CASE ~Write(b, validated \cup {b.target})
    <3>1. (SetIssue(b) \/ MarkHealthy(b) \/ SetInactive(b, validated)) /\ NextBinding
      BY <1>8, <2>2, <2>5, Singleton DEF TargetValidated, BindingWritten, RequestFailed
    <3>. QED BY <2>1, <2>3, <3>1, TypeOfOne, NoValueTypes DEF NextBinding, TargetsOK
  <2>. QED BY <2>4, <2>5
<1>9. CASE ReconfigureEnters
  <2>1. PICK new : new = Head(queue).of OBVIOUS
  <2>2. new \in Configurations
    BY <1>9, <2>1, Leaving DEF ReconfigureEnters, WellFormed, LockInv
  <2>3. /\ validated' \subseteq validated /\ active' \subseteq active
        /\ errors' \subseteq errors /\ issues' \subseteq issues
        /\ resolved' \in {Resolve(new, registered), {}}
        /\ UNCHANGED <<value, accepted, confirmed>>
    BY <1>9, <2>1 DEF ReconfigureEnters, ReconfigureTo
  <2>4. resolved' \subseteq Target BY <2>2, <2>3, Resolvable
  <2>. QED BY <2>3, <2>4 DEF TargetsOK
<1>10. ASSUME NEW new \in Configurations, Reconfigure(new) PROVE TargetsOK'
  <2>1. /\ issues' \subseteq issues
        /\ UNCHANGED <<resolved, validated, active, errors, confirmed, value, accepted>>
    BY <1>10 DEF Reconfigure
  <2>. QED BY <2>1 DEF TargetsOK
<1>11. CASE Disconnects
  <2>1. /\ validated' \in {validated, {}} /\ active' \in {active, {}} /\ confirmed' = {}
        /\ UNCHANGED <<resolved, errors, issues, value, accepted>>
    BY <1>11 DEF Disconnects, Lost
  <2>. QED BY <2>1 DEF TargetsOK
<1>12. ASSUME NEW s \in Source, EntityRegistryUpdated(s) PROVE TargetsOK'
  <2>1. resolved' \subseteq Target
    BY <1>12, Resolvable DEF EntityRegistryUpdated, LockInv, TargetsOK
  <2>. QED BY <1>1, <1>12, <2>1 DEF EntityRegistryUpdated, TargetsOK
<1>13. ASSUME NEW s \in Source, NEW v, SourceStateChanges(s, v) PROVE TargetsOK'
  BY <1>1, <1>13 DEF SourceStateChanges, StateChanges, TargetsOK
<1>14. CASE (\E t \in Target, k \in {"temperature", "binary", "gone"} : TargetChanges(t, k))
              \/ UNCHANGED vars
  BY <1>1, <1>14 DEF TargetChanges, vars, TargetsOK
<1>. QED BY <1>2, <1>3, <1>4, <1>5, <1>6, <1>7, <1>8, <1>9, <1>10, <1>11, <1>12, <1>13, <1>14
         DEF Next, JobStep, Served

(* Every variable keeps its type; in particular only a value that a source    *)
(* really has is ever sent (_async_sync_binding_locked), and every queued job *)
(* is one that the manager starts.                                           *)
THEOREM TypeCorrect == Spec => []TypeOK
<1>1. ASSUME Init PROVE WorldOK /\ TargetsOK
  <2>1. state \in [Source -> States] BY <1>1, NoValueTypes DEF Init
  <2>2. received \in [Target -> Values \cup {NoValue}] BY <1>1, NoValueTypes DEF Init
  <2>3. limit \in [changes : 0 .. MaxChanges, targets : Nat, edits : Nat, faults : Nat,
                   readable : BOOLEAN]
    BY <1>1, ExportAssumption DEF Init
  <2>4. /\ changes \in 0 .. limit.changes /\ targets \in 0 .. limit.targets
        /\ edits \in 0 .. limit.edits /\ faults \in 0 .. limit.faults
    BY <1>1, <2>3, ExportAssumption DEF Init
  <2>5. truth \in [Target -> {"temperature", "binary", "gone"}] BY <1>1 DEF Init
  <2>6. WorldOK BY <1>1, <2>1, <2>2, <2>4, <2>5 DEF Init, WorldOK
  <2>7. TargetsOK BY <1>1, NoValueTypes DEF Init, TargetsOK
  <2>. QED BY <2>6, <2>7
<1>2. LockInv /\ WorldOK /\ TargetsOK => TypeOK
  BY DEF LockInv, WorldOK, TargetsOK, TypeOK, Busy, Configurations
<1>. QED BY <1>1, <1>2, LockInit, LockStep, WorldStep, TargetsStep, PTL DEF Spec
=============================================================================
