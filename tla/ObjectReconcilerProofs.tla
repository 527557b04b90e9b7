----------------------- MODULE ObjectReconcilerProofs -----------------------
(***************************************************************************)
(* Theorems about ObjectReconciler, for every set of identities and every   *)
(* bound: the awaited reconcile, the scheduled ones and an unload never     *)
(* leave a platform with an entity too many or a forgotten one.             *)
(***************************************************************************)
EXTENDS ObjectReconciler, TLAPS

USE ReconcilerAssumption

(* Every scheduled task was made by a snapshot change or by an update       *)
(* listener call, so there is always a task left to make.                  *)
TasksBounded ==
  /\ tasks + edits + (IF listener = "exporting" THEN 1 ELSE 0) <= updates + changes
  /\ edits <= changes

(* Only the task that holds the lock removes an entity, one that its plan   *)
(* does not have.                                                          *)
HolderRemoves ==
  /\ \A t \in Task : pc[t] = "removing" <=> holder = t
  /\ holder # NoTask => removing \in Identity \ (plan \cup entities)

(* Home Assistant has the entities of the platform and the one that is      *)
(* being removed, except after a removal that an unload cancelled.         *)
LiveExactly ==
  \A i \in Identity : live[i] = IF i \in entities \/ (holder # NoTask /\ i = removing)
                                  THEN 1 ELSE 0

EntitiesAreLive ==
  /\ ~stopped \/ holder # NoTask => LiveExactly
  /\ \A i \in Identity : live[i] \in {0, 1}
  /\ ~stopped /\ holder = NoTask => entities = plan

(* A scheduled task that is not done is the one the reconciler knows.       *)
OneScheduled ==
  /\ \A t \in Scheduled : t > tasks => pc[t] = "none"
  /\ \A t \in Scheduled : Busy(t) => t = scheduled
  /\ \A t \in ended : pc[t] = "done"
  /\ listener # "reconciling" => pc[0] = "none"

(* The tasks in the queue of the lock wait for it, each once.               *)
Waiters ==
  /\ \A i \in 1 .. Len(queue) : pc[queue[i]] = "waiting"
  /\ \A i, j \in 1 .. Len(queue) : queue[i] = queue[j] => i = j

(* An unload stops the reconciler first.                                   *)
Unloading ==
  /\ unload # "no" => stopped
  /\ unload = "joining" => scheduled \in Scheduled /\ Busy(scheduled)
  /\ unload = "done" => scheduled = NoTask

IInv ==
  /\ TypeOK /\ TasksBounded /\ HolderRemoves /\ EntitiesAreLive
  /\ OneScheduled /\ Waiters /\ Unloading

-----------------------------------------------------------------------------
(* Sequences: leaving the queue of the lock.                               *)

LEMMA TailFacts ==
  ASSUME NEW S, NEW q \in Seq(S), q # <<>>
  PROVE  /\ Head(q) \in S /\ Head(q) = q[1] /\ Tail(q) \in Seq(S)
         /\ Len(q) \in Nat \ {0} /\ Len(Tail(q)) = Len(q) - 1
         /\ \A i \in 1 .. Len(Tail(q)) : Tail(q)[i] = q[i + 1]
OBVIOUS

LEMMA AppendFacts ==
  ASSUME NEW S, NEW q \in Seq(S), NEW t \in S
  PROVE  /\ Append(q, t) \in Seq(S) /\ Len(Append(q, t)) = Len(q) + 1
         /\ \A i \in 1 .. Len(q) : Append(q, t)[i] = q[i]
         /\ Append(q, t)[Len(q) + 1] = t
OBVIOUS

LEMMA SubSeqFacts ==
  ASSUME NEW S, NEW q \in Seq(S), NEW i \in 1 .. Len(q) + 1, NEW j \in i - 1 .. Len(q)
  PROVE  /\ SubSeq(q, i, j) \in Seq(S) /\ Len(SubSeq(q, i, j)) = j - i + 1
         /\ \A m \in 1 .. j - i + 1 : SubSeq(q, i, j)[m] = q[i + m - 1]
OBVIOUS

LEMMA ConcatFacts ==
  ASSUME NEW S, NEW a \in Seq(S), NEW b \in Seq(S)
  PROVE  /\ a \o b \in Seq(S) /\ Len(a \o b) = Len(a) + Len(b)
         /\ \A i \in 1 .. Len(a) + Len(b) :
              (a \o b)[i] = IF i <= Len(a) THEN a[i] ELSE b[i - Len(a)]
OBVIOUS

(* A task that is at most once in the queue leaves it; the others keep      *)
(* their places relative to each other.                                    *)
LEMMA WithoutFacts ==
  ASSUME NEW S, NEW q \in Seq(S), NEW t \in S,
         \A i, j \in 1 .. Len(q) : q[i] = q[j] => i = j
  PROVE  /\ Without(q, t) \in Seq(S)
         /\ \A i \in 1 .. Len(Without(q, t)) :
              \E j \in 1 .. Len(q) : Without(q, t)[i] = q[j] /\ q[j] # t
         /\ \A i, j \in 1 .. Len(Without(q, t)) :
              Without(q, t)[i] = Without(q, t)[j] => i = j
<1>0. DOMAIN q = 1 .. Len(q) /\ Len(q) \in Nat  OBVIOUS
<1>1. CASE \A i \in 1 .. Len(q) : q[i] # t
  <2>1. Without(q, t) = q  BY <1>0, <1>1 DEF Without
  <2> QED BY <1>1, <2>1
<1>2. CASE \E i \in 1 .. Len(q) : q[i] = t
  <2> DEFINE k == CHOOSE j \in DOMAIN q : q[j] = t
             a == SubSeq(q, 1, k - 1)
             b == SubSeq(q, k + 1, Len(q))
  <2>1. k \in 1 .. Len(q) /\ q[k] = t  BY <1>0, <1>2
  <2>2. Without(q, t) = a \o b  BY <1>0, <1>2 DEF Without
  <2> HIDE DEF k
  <2>3. /\ a \in Seq(S) /\ Len(a) = k - 1
        /\ \A i \in 1 .. k - 1 : a[i] = q[i]
    <3>1. 1 \in 1 .. Len(q) + 1 /\ k - 1 \in 1 - 1 .. Len(q)  BY <2>1, <1>0
    <3>2. /\ a \in Seq(S) /\ Len(a) = (k - 1) - 1 + 1
          /\ \A m \in 1 .. (k - 1) - 1 + 1 : a[m] = q[1 + m - 1]
      BY <3>1, SubSeqFacts
    <3> HIDE DEF a
    <3> QED BY <3>2, <2>1, <1>0
  <2>4. /\ b \in Seq(S) /\ Len(b) = Len(q) - k
        /\ \A i \in 1 .. Len(q) - k : b[i] = q[k + i]
    <3>1. k + 1 \in 1 .. Len(q) + 1 /\ Len(q) \in (k + 1) - 1 .. Len(q)
      BY <2>1, <1>0
    <3>2. /\ b \in Seq(S) /\ Len(b) = Len(q) - (k + 1) + 1
          /\ \A m \in 1 .. Len(q) - (k + 1) + 1 : b[m] = q[(k + 1) + m - 1]
      BY <3>1, SubSeqFacts
    <3> HIDE DEF b
    <3> QED BY <3>2, <2>1, <1>0
  <2> HIDE DEF a, b
  <2>5. /\ a \o b \in Seq(S) /\ Len(a \o b) = Len(q) - 1
        /\ \A i \in 1 .. Len(q) - 1 :
             (a \o b)[i] = IF i <= k - 1 THEN a[i] ELSE b[i - (k - 1)]
    <3>1. /\ a \o b \in Seq(S) /\ Len(a \o b) = Len(a) + Len(b)
          /\ \A i \in 1 .. Len(a) + Len(b) :
               (a \o b)[i] = IF i <= Len(a) THEN a[i] ELSE b[i - Len(a)]
      BY <2>3, <2>4, ConcatFacts, ZenonT(60)
    <3> DEFINE c == a \o b
    <3> HIDE DEF c
    <3>2. Len(a) = k - 1 /\ Len(b) = Len(q) - k  BY <2>3, <2>4
    <3>3. /\ c \in Seq(S) /\ Len(c) = (k - 1) + (Len(q) - k)
          /\ \A i \in 1 .. (k - 1) + (Len(q) - k) :
               c[i] = IF i <= k - 1 THEN a[i] ELSE b[i - (k - 1)]
      BY <3>1, <3>2 DEF c
    <3>4. (k - 1) + (Len(q) - k) = Len(q) - 1  BY <2>1, <1>0
    <3> QED BY <3>3, <3>4 DEF c
  <2>6. \A i \in 1 .. Len(q) - 1 :
          (a \o b)[i] = IF i < k THEN q[i] ELSE q[i + 1]
    BY <2>1, <2>3, <2>4, <2>5, <1>0
  <2> DEFINE c == a \o b
  <2>7. /\ c \in Seq(S) /\ Len(c) = Len(q) - 1
        /\ \A i \in 1 .. Len(c) : c[i] = IF i < k THEN q[i] ELSE q[i + 1]
    BY <2>5, <2>6
  <2> HIDE DEF c
  <2>8. \A i \in 1 .. Len(c) : \E j \in 1 .. Len(q) : c[i] = q[j] /\ q[j] # t
    BY <2>1, <2>7, <1>0
  <2>9. \A i, j \in 1 .. Len(c) : c[i] = c[j] => i = j
    BY <2>1, <2>7, <1>0
  <2> QED BY <2>2, <2>7, <2>8, <2>9 DEF c
<1> QED BY <1>1, <1>2

-----------------------------------------------------------------------------
(* The numbers and the tasks that the steps below compare.                 *)
LEMMA NumberFacts ==
  ASSUME TypeOK
  PROVE  /\ tasks \in Nat /\ updates \in Nat /\ changes \in Nat /\ edits \in Nat
         /\ 0 \in Task /\ 0 \notin Scheduled /\ NoTask \notin Task
         /\ Scheduled \subseteq Task /\ Scheduled \subseteq Nat
         /\ \A t \in Task : t = 0 \/ t \in Scheduled
BY DEF TypeOK, Scheduled, Task, NoTask

(* A step that leaves the reconciler alone keeps what is said of it.       *)
LEMMA Untouched ==
  ASSUME IInv, UNCHANGED <<lockVars, stopVars, taskVars>>
  PROVE  /\ HolderRemoves' /\ EntitiesAreLive' /\ Waiters' /\ Unloading'
         /\ \A t : Busy(t)' <=> Busy(t)
BY DEF IInv, HolderRemoves, EntitiesAreLive, LiveExactly, Waiters, Unloading,
   Busy, lockVars, stopVars, taskVars

(* A task is made: nothing is said of it yet but that it is the scheduled   *)
(* one.                                                                    *)
LEMMA NewTask ==
  ASSUME IInv, ~stopped, ~Busy(scheduled), tasks + 1 \in Scheduled,
         tasks' = tasks + 1, scheduled' = tasks + 1,
         NEW zero \in {pc[0], "created", "done"},
         pc' = [pc EXCEPT ![0] = zero, ![tasks + 1] = "created"],
         zero # pc[0] => pc[0] = "none",
         UNCHANGED <<lockVars, stopVars, queue, ended>>
  PROVE  /\ pc' \in [Task -> {"none", "created", "waiting", "removing", "done"}]
         /\ HolderRemoves' /\ EntitiesAreLive' /\ Waiters' /\ Unloading'
         /\ \A t \in Scheduled : t > tasks' => pc'[t] = "none"
         /\ \A t \in Scheduled : Busy(t)' => t = scheduled'
         /\ \A t \in ended' : pc'[t] = "done"
<1>0. TypeOK  BY DEF IInv
<1>1. pc \in [Task -> {"none", "created", "waiting", "removing", "done"}]
  BY DEF IInv, TypeOK
<1>2. pc[tasks + 1] = "none"
  BY <1>0, NumberFacts DEF IInv, OneScheduled
<1>3. /\ pc' \in [Task -> {"none", "created", "waiting", "removing", "done"}]
      /\ pc'[0] = zero /\ pc'[tasks + 1] = "created"
      /\ \A t \in Task : t # 0 /\ t # tasks + 1 => pc'[t] = pc[t]
  BY <1>0, <1>1, NumberFacts
<1>4. \A t \in Task : pc[t] \in {"waiting", "removing", "done"} => pc'[t] = pc[t]
  BY <1>2, <1>3
<1>5. \A t \in Task : pc'[t] \in {"waiting", "removing"} => pc[t] = pc'[t]
  BY <1>2, <1>3
<1>6. HolderRemoves'
  BY <1>4, <1>5 DEF IInv, HolderRemoves, lockVars
<1>7. EntitiesAreLive'
  BY DEF IInv, EntitiesAreLive, LiveExactly, lockVars, stopVars
<1>8. Waiters'
  <2>1. \A i \in 1 .. Len(queue) : queue[i] \in Task /\ pc[queue[i]] = "waiting"
    BY <1>0 DEF TypeOK, IInv, Waiters
  <2> QED BY <1>4, <2>1 DEF IInv, Waiters
<1>9. Unloading'
  BY DEF IInv, Unloading, stopVars
<1>10. \A t \in Scheduled : t > tasks' => pc'[t] = "none"
  BY <1>0, <1>3, NumberFacts DEF IInv, OneScheduled
<1>11. \A t \in Scheduled : Busy(t)' => t = scheduled'
  BY <1>0, <1>3, NumberFacts DEF IInv, OneScheduled, Busy
<1>12. \A t \in ended' : pc'[t] = "done"
  BY <1>0, <1>4 DEF IInv, OneScheduled, TypeOK, Scheduled, Task
<1> QED BY <1>3, <1>6, <1>7, <1>8, <1>9, <1>10, <1>11, <1>12

(* A new snapshot schedules a task, or finds one or the reconciler stopped. *)
LEMMA SnapshotChangesPreserves ==
  ASSUME IInv, SnapshotChanges
  PROVE  IInv'
<1>0. TypeOK /\ TasksBounded  BY DEF IInv
<1>1. objects' \subseteq Identity /\ updates' \in 0 .. MaxUpdates /\ updates' = updates + 1
  BY <1>0, NumberFacts DEF SnapshotChanges, TypeOK
<1>2. CASE stopped \/ Busy(scheduled)
  <2>1. UNCHANGED <<lockVars, optionVars, stopVars, taskVars>>
    BY <1>2 DEF SnapshotChanges, Schedule, taskVars
  <2>2. TypeOK'
    BY <1>0, <1>1, <2>1 DEF TypeOK, lockVars, optionVars, stopVars, taskVars
  <2>3. TasksBounded'
    BY <1>0, <1>1, <2>1, NumberFacts DEF TasksBounded, optionVars, taskVars
  <2>4. OneScheduled'
    BY <2>1, Untouched DEF IInv, OneScheduled, optionVars, taskVars
  <2> QED BY <2>1, <2>2, <2>3, <2>4, Untouched DEF IInv
<1>3. CASE ~stopped /\ ~Busy(scheduled)
  <2>1. /\ tasks' = tasks + 1 /\ scheduled' = tasks + 1
        /\ pc' = [pc EXCEPT ![tasks + 1] = "created"]
        /\ UNCHANGED <<lockVars, optionVars, stopVars, queue, ended>>
    BY <1>3 DEF SnapshotChanges, Schedule
  <2>2. tasks + 1 \in Scheduled
    <3>1. tasks <= updates + changes
      BY <1>0, NumberFacts DEF TasksBounded
    <3>2. updates < MaxUpdates /\ changes <= MaxOptions
      BY <1>0 DEF SnapshotChanges, TypeOK
    <3> QED BY <1>0, <3>1, <3>2, NumberFacts DEF Scheduled
  <2>3. pc' = [pc EXCEPT ![0] = pc[0], ![tasks + 1] = "created"]
    BY <1>0, <2>1 DEF TypeOK
  <2>4. /\ pc' \in [Task -> {"none", "created", "waiting", "removing", "done"}]
        /\ HolderRemoves' /\ EntitiesAreLive' /\ Waiters' /\ Unloading'
        /\ \A t \in Scheduled : t > tasks' => pc'[t] = "none"
        /\ \A t \in Scheduled : Busy(t)' => t = scheduled'
        /\ \A t \in ended' : pc'[t] = "done"
    BY <1>3, <2>1, <2>2, <2>3, NewTask
  <2>5. TypeOK'
    BY <1>0, <1>1, <2>1, <2>2, <2>4 DEF TypeOK, Scheduled, lockVars, optionVars, stopVars
  <2>6. TasksBounded'
    BY <1>0, <1>1, <2>1, NumberFacts DEF TasksBounded, optionVars
  <2>7. listener' # "reconciling" => pc'[0] = "none"
    BY <1>0, <2>1, <2>2, NumberFacts DEF IInv, OneScheduled, TypeOK, optionVars
  <2> QED BY <2>4, <2>5, <2>6, <2>7 DEF IInv, OneScheduled
<1> QED BY <1>2, <1>3

(* Saved options are one more call of the update listener to come.         *)
LEMMA SaveOptionsPreserves ==
  ASSUME IInv, SaveOptions
  PROVE  IInv'
<1>0. TypeOK /\ TasksBounded  BY DEF IInv
<1>1. UNCHANGED <<lockVars, sourceVars, stopVars, taskVars, applied, listener, read>>
  BY DEF SaveOptions
<1>2. /\ edits' = edits + 1 /\ changes' = changes + 1
      /\ edits' \in 0 .. MaxOptions /\ changes' \in 0 .. MaxOptions
      /\ excluded' \subseteq Identity
  BY <1>0, NumberFacts DEF SaveOptions, TasksBounded
<1>3. TypeOK'
  BY <1>0, <1>1, <1>2 DEF TypeOK, lockVars, sourceVars, stopVars, taskVars
<1>4. TasksBounded'
  BY <1>0, <1>1, <1>2, NumberFacts DEF TasksBounded, sourceVars, taskVars
<1>5. OneScheduled'
  BY <1>1, Untouched DEF IInv, OneScheduled, taskVars
<1> QED BY <1>1, <1>3, <1>4, <1>5, Untouched DEF IInv

(* The update listener reads the options, and may find nothing to do.      *)
LEMMA ListenerBeginsPreserves ==
  ASSUME IInv, ListenerBegins
  PROVE  IInv'
<1>0. TypeOK /\ TasksBounded  BY DEF IInv
<1>1. /\ UNCHANGED <<lockVars, sourceVars, stopVars, taskVars, excluded, applied, changes>>
      /\ listener = "idle" /\ edits > 0 /\ edits' = edits - 1
      /\ listener' \in {"idle", "exporting"} /\ read' \in {read, excluded}
  BY DEF ListenerBegins
<1>2. edits' \in 0 .. MaxOptions
  BY <1>0, <1>1, NumberFacts DEF TypeOK
<1>3. TypeOK'
  BY <1>0, <1>1, <1>2 DEF TypeOK, lockVars, sourceVars, stopVars, taskVars
<1>4. TasksBounded'
  BY <1>0, <1>1, NumberFacts DEF TasksBounded, sourceVars, taskVars
<1>5. OneScheduled'
  BY <1>1, Untouched DEF IInv, OneScheduled, taskVars
<1> QED BY <1>1, <1>3, <1>4, <1>5, Untouched DEF IInv

(* The update listener schedules a task and starts the one it awaits.      *)
LEMMA ExportReconfiguredPreserves ==
  ASSUME IInv, ExportReconfigured
  PROVE  IInv'
<1>0. TypeOK /\ TasksBounded  BY DEF IInv
<1> DEFINE zero == IF unload = "no" THEN "created" ELSE "done"
<1>1. /\ UNCHANGED <<lockVars, sourceVars, stopVars, queue, ended>>
      /\ UNCHANGED <<excluded, applied, edits, read, changes>>
      /\ listener = "exporting" /\ listener' = "reconciling"
  BY DEF ExportReconfigured
<1>2. pc[0] = "none"
  BY <1>1 DEF IInv, OneScheduled
<1>3. CASE stopped \/ Busy(scheduled)
  <2>1. pc' = [pc EXCEPT ![0] = zero] /\ UNCHANGED <<scheduled, tasks>>
    BY <1>3 DEF ExportReconfigured
  <2>2. /\ pc' \in [Task -> {"none", "created", "waiting", "removing", "done"}]
        /\ \A t \in Scheduled : pc'[t] = pc[t]
        /\ pc'[0] \in {"created", "done"}
    BY <1>0, <2>1, NumberFacts DEF TypeOK
  <2>3. TypeOK'
    BY <1>0, <1>1, <2>1, <2>2 DEF TypeOK, lockVars, sourceVars, stopVars
  <2>4. TasksBounded'
    BY <1>0, <1>1, <2>1, NumberFacts DEF TasksBounded, sourceVars
  <2>5. HolderRemoves'
    BY <1>0, <1>1, <1>2, <2>2, NumberFacts DEF IInv, HolderRemoves, lockVars
  <2>6. EntitiesAreLive'
    BY <1>1 DEF IInv, EntitiesAreLive, LiveExactly, lockVars, stopVars
  <2>7. OneScheduled'
    BY <1>0, <1>1, <2>1, <2>2, NumberFacts DEF IInv, OneScheduled, Busy, TypeOK
  <2>8. Waiters'
    <3>1. \A i \in 1 .. Len(queue) : queue[i] \in Scheduled
      BY <1>0, <1>2, NumberFacts DEF TypeOK, IInv, Waiters
    <3> QED BY <1>1, <2>2, <3>1 DEF IInv, Waiters
  <2>9. Unloading'
    BY <1>0, <1>1, <2>1, <2>2, NumberFacts DEF IInv, Unloading, Busy, stopVars
  <2> QED BY <2>3, <2>4, <2>5, <2>6, <2>7, <2>8, <2>9 DEF IInv
<1>4. CASE ~stopped /\ ~Busy(scheduled)
  <2>1. /\ pc' = [pc EXCEPT ![0] = zero, ![tasks + 1] = "created"]
        /\ scheduled' = tasks + 1 /\ tasks' = tasks + 1
    BY <1>4 DEF ExportReconfigured
  <2>2. tasks + 1 \in Scheduled
    BY <1>0, <1>1, NumberFacts DEF TasksBounded, TypeOK, Scheduled
  <2>3. /\ pc' \in [Task -> {"none", "created", "waiting", "removing", "done"}]
        /\ HolderRemoves' /\ EntitiesAreLive' /\ Waiters' /\ Unloading'
        /\ \A t \in Scheduled : t > tasks' => pc'[t] = "none"
        /\ \A t \in Scheduled : Busy(t)' => t = scheduled'
        /\ \A t \in ended' : pc'[t] = "done"
    BY <1>1, <1>2, <1>4, <2>1, <2>2, NewTask
  <2>4. TypeOK'
    BY <1>0, <1>1, <2>1, <2>2, <2>3, SMTT(40) DEF TypeOK, Scheduled, lockVars, sourceVars, stopVars
  <2>5. TasksBounded'
    BY <1>0, <1>1, <2>1, NumberFacts DEF TasksBounded, sourceVars
  <2> QED BY <1>1, <2>3, <2>4, <2>5 DEF IInv, OneScheduled
<1> QED BY <1>3, <1>4

(* The awaited task is done, and the update listener returns.              *)
LEMMA ListenerEndsPreserves ==
  ASSUME IInv, ListenerEnds
  PROVE  IInv'
<1>0. TypeOK /\ TasksBounded  BY DEF IInv
<1>1. /\ UNCHANGED <<lockVars, sourceVars, stopVars, queue, scheduled, ended, tasks>>
      /\ UNCHANGED <<excluded, edits, read, changes>>
      /\ listener = "reconciling" /\ listener' = "idle" /\ applied' = read
      /\ pc[0] = "done" /\ pc' = [pc EXCEPT ![0] = "none"]
  BY DEF ListenerEnds
<1>2. /\ pc' \in [Task -> {"none", "created", "waiting", "removing", "done"}]
      /\ \A t \in Scheduled : pc'[t] = pc[t]
      /\ pc'[0] = "none"
  BY <1>0, <1>1, NumberFacts DEF TypeOK
<1>3. TypeOK'
  BY <1>0, <1>1, <1>2 DEF TypeOK, lockVars, sourceVars, stopVars
<1>4. TasksBounded'
  BY <1>0, <1>1, NumberFacts DEF TasksBounded, sourceVars
<1>5. HolderRemoves'
  BY <1>0, <1>1, <1>2, NumberFacts DEF IInv, HolderRemoves, lockVars
<1>6. EntitiesAreLive'
  BY <1>1 DEF IInv, EntitiesAreLive, LiveExactly, lockVars, stopVars
<1>7. OneScheduled'
  BY <1>0, <1>1, <1>2, NumberFacts DEF IInv, OneScheduled, Busy, TypeOK
<1>8. Waiters'
  <2>1. \A i \in 1 .. Len(queue) : queue[i] \in Scheduled
    BY <1>0, <1>1, NumberFacts DEF TypeOK, IInv, Waiters
  <2> QED BY <1>1, <1>2, <2>1 DEF IInv, Waiters
<1>9. Unloading'
  BY <1>0, <1>1, <1>2, NumberFacts DEF IInv, Unloading, Busy, stopVars
<1> QED BY <1>3, <1>4, <1>5, <1>6, <1>7, <1>8, <1>9 DEF IInv

(* The unload stops the reconciler and may have a task to wait for.        *)
LEMMA UnloadPreserves ==
  ASSUME IInv, Unload
  PROVE  IInv'
<1>0. TypeOK /\ TasksBounded  BY DEF IInv
<1>1. UNCHANGED <<lockVars, optionVars, sourceVars, pc, queue, ended, tasks>>
  BY DEF Unload
<1>2. /\ stopped' = TRUE /\ unload' \in {"joining", "done"}
      /\ unload' = "joining" => Busy(scheduled) /\ scheduled' = scheduled
      /\ unload' = "done" => ~Busy(scheduled) /\ scheduled' = NoTask
  BY DEF Unload
<1>3. TypeOK'
  BY <1>0, <1>1, <1>2 DEF TypeOK, lockVars, optionVars, sourceVars
<1>4. TasksBounded'
  BY <1>0, <1>1 DEF TasksBounded, optionVars, sourceVars
<1>5. HolderRemoves' /\ Waiters'
  BY <1>1 DEF IInv, HolderRemoves, Waiters, lockVars
<1>6. EntitiesAreLive'
  BY <1>1, <1>2 DEF IInv, EntitiesAreLive, LiveExactly, lockVars
<1>7. OneScheduled'
  BY <1>0, <1>1, <1>2, NumberFacts DEF IInv, OneScheduled, Busy, optionVars
<1>8. Unloading'
  BY <1>0, <1>1, <1>2 DEF Unloading, Busy, TypeOK
<1> QED BY <1>3, <1>4, <1>5, <1>6, <1>7, <1>8 DEF IInv

(* A task leaves the queue or what it was doing: it is done.               *)
LEMMA EndFacts ==
  ASSUME TypeOK, NEW t \in Task, End(t)
  PROVE  /\ pc' \in [Task -> {"none", "created", "waiting", "removing", "done"}]
         /\ pc'[t] = "done" /\ \A u \in Task : u # t => pc'[u] = pc[u]
         /\ ended' \subseteq Scheduled /\ ended' \subseteq ended \cup {t}
BY NumberFacts DEF TypeOK, End

(* What the steps of a task leave alone is kept as long as the other tasks  *)
(* are where they were and the task has been made.                         *)
LEMMA OtherTasks ==
  ASSUME IInv, NEW t \in Task, pc[t] # "none", pc[t] # "done",
         pc' \in [Task -> {"none", "created", "waiting", "removing", "done"}],
         \A u \in Task : u # t => pc'[u] = pc[u],
         pc'[t] # "none",
         ended' \subseteq ended \cup (IF pc'[t] = "done" THEN {t} ELSE {}),
         UNCHANGED <<optionVars, sourceVars, scheduled, tasks>>
  PROVE  TasksBounded' /\ OneScheduled'
<1>0. TypeOK /\ TasksBounded  BY DEF IInv
<1>1. TasksBounded'
  BY <1>0 DEF TasksBounded, optionVars, sourceVars
<1>2. t \in Scheduled => t <= tasks
  BY <1>0, NumberFacts DEF IInv, OneScheduled
<1>3. \A u \in Scheduled : u > tasks' => pc'[u] = "none"
  BY <1>0, <1>2, NumberFacts DEF IInv, OneScheduled
<1>4. \A u \in Task : Busy(u)' => Busy(u)
  BY <1>0 DEF Busy, TypeOK
<1>5. \A u \in Scheduled : Busy(u)' => u = scheduled'
  BY <1>0, <1>4, NumberFacts DEF IInv, OneScheduled
<1>6. \A u \in ended' : pc'[u] = "done"
  BY <1>0, NumberFacts DEF IInv, OneScheduled, TypeOK
<1>7. listener' # "reconciling" => pc'[0] = "none"
  BY <1>0, NumberFacts DEF IInv, OneScheduled, optionVars
<1> QED BY <1>1, <1>3, <1>5, <1>6, <1>7 DEF OneScheduled

(* A task that is not the cancelled one goes on while the unload waits.    *)
LEMMA UnloadGoesOn ==
  ASSUME IInv, NEW t \in Task, ~Cancelled(t),
         pc' \in [Task -> {"none", "created", "waiting", "removing", "done"}],
         \A u \in Task : u # t => pc'[u] = pc[u],
         UNCHANGED <<stopVars, scheduled>>
  PROVE  Unloading'
BY NumberFacts DEF IInv, Unloading, Cancelled, Busy, stopVars

(* A reconcile asks for the lock, or returns if it finds the stop.         *)
LEMMA ReconcilePreserves ==
  ASSUME IInv, NEW t \in Task, ~Cancelled(t), Reconcile(t)
  PROVE  IInv'
<1>0. TypeOK  BY DEF IInv
<1>1. /\ pc[t] = "created"
      /\ UNCHANGED <<lockVars, optionVars, sourceVars, stopVars, scheduled, tasks>>
  BY DEF Reconcile
<1>2. /\ pc' \in [Task -> {"none", "created", "waiting", "removing", "done"}]
      /\ pc'[t] \in {"waiting", "done"} /\ \A u \in Task : u # t => pc'[u] = pc[u]
      /\ ended' \subseteq Scheduled
      /\ ended' \subseteq ended \cup (IF pc'[t] = "done" THEN {t} ELSE {})
  <2>1. CASE stopped
    BY <1>0, <2>1, EndFacts DEF Reconcile
  <2>2. CASE ~stopped
    <3>1. pc' = [pc EXCEPT ![t] = "waiting"] /\ ended' = ended
      BY <2>2 DEF Reconcile
    <3> QED BY <1>0, <3>1 DEF TypeOK
  <2> QED BY <2>1, <2>2
<1>3. TasksBounded' /\ OneScheduled'
  BY <1>1, <1>2, OtherTasks
<1>4. Unloading'
  BY <1>1, <1>2, UnloadGoesOn
<1>5. HolderRemoves'
  BY <1>1, <1>2 DEF IInv, HolderRemoves, lockVars
<1>6. EntitiesAreLive'
  BY <1>1 DEF IInv, EntitiesAreLive, LiveExactly, lockVars, stopVars
<1>7. queue' \in Seq(Task) /\ Waiters'
  <2>1. \A i \in 1 .. Len(queue) : queue[i] \in Task /\ queue[i] # t
    BY <1>0, <1>1 DEF TypeOK, IInv, Waiters
  <2>2. CASE stopped
    <3>1. queue' = queue  BY <2>2 DEF Reconcile
    <3> QED BY <1>0, <1>2, <2>1, <3>1 DEF TypeOK, IInv, Waiters
  <2>3. CASE ~stopped
    <3>1. queue' = Append(queue, t) /\ pc' = [pc EXCEPT ![t] = "waiting"]
      BY <2>3 DEF Reconcile
    <3>2. queue \in Seq(Task) /\ Len(queue) \in Nat
      BY <1>0 DEF TypeOK
    <3>3. /\ queue' \in Seq(Task) /\ Len(queue') = Len(queue) + 1
          /\ \A i \in 1 .. Len(queue) : queue'[i] = queue[i]
          /\ queue'[Len(queue) + 1] = t
      BY <3>1, <3>2, AppendFacts
    <3>4. pc'[t] = "waiting"
      BY <1>0, <3>1 DEF TypeOK
    <3>5. \A i \in 1 .. Len(queue') :
            IF i <= Len(queue) THEN queue'[i] = queue[i] /\ i \in 1 .. Len(queue)
                               ELSE queue'[i] = t /\ i = Len(queue) + 1
      BY <3>2, <3>3
    <3>6. \A i \in 1 .. Len(queue') : pc'[queue'[i]] = "waiting"
      BY <1>2, <2>1, <3>4, <3>5 DEF IInv, Waiters
    <3>7. \A i, j \in 1 .. Len(queue') : queue'[i] = queue'[j] => i = j
      BY <2>1, <3>5 DEF IInv, Waiters
    <3> QED BY <3>3, <3>6, <3>7 DEF Waiters
  <2> QED BY <2>2, <2>3
<1>8. TypeOK'
  BY <1>0, <1>1, <1>2, <1>7
     DEF TypeOK, lockVars, optionVars, sourceVars, stopVars
<1> QED BY <1>3, <1>4, <1>5, <1>6, <1>7, <1>8 DEF IInv

(* The task with the lock removes the next entity or is done: from exactly  *)
(* the entities there are to exactly those that are desired.               *)
LEMMA ProceedFacts ==
  ASSUME IInv, NEW t \in Task, NEW desired \in SUBSET Identity,
         NEW present \in [Identity -> Nat],
         \A i \in Identity : present[i] = IF i \in entities THEN 1 ELSE 0,
         holder = NoTask \/ holder = t,
         plan' = desired, Proceed(t, desired, present), UNCHANGED stopVars
  PROVE  /\ pc' \in [Task -> {"none", "created", "waiting", "removing", "done"}]
         /\ pc'[t] \in {"removing", "done"} /\ \A u \in Task : u # t => pc'[u] = pc[u]
         /\ ended' \subseteq Scheduled
         /\ ended' \subseteq ended \cup (IF pc'[t] = "done" THEN {t} ELSE {})
         /\ entities' \subseteq Identity /\ live' \in [Identity -> Nat]
         /\ holder' \in {NoTask, t} /\ removing' \in Identity \cup {NoIdentity}
         /\ HolderRemoves' /\ EntitiesAreLive'
<1>0. TypeOK  BY DEF IInv
<1>1. \A u \in Task : u # t => pc[u] # "removing"
  BY <1>0, NumberFacts DEF IInv, HolderRemoves
<1>2. CASE entities \subseteq desired
  <2>1. /\ entities' = desired /\ holder' = NoTask /\ removing' = NoIdentity
        /\ live' = [i \in Identity |->
                      present[i] + IF i \in desired \ entities THEN 1 ELSE 0]
        /\ End(t)
    BY <1>2 DEF Proceed
  <2>2. /\ pc' \in [Task -> {"none", "created", "waiting", "removing", "done"}]
        /\ pc'[t] = "done" /\ \A u \in Task : u # t => pc'[u] = pc[u]
        /\ ended' \subseteq Scheduled /\ ended' \subseteq ended \cup {t}
    BY <1>0, <2>1, EndFacts
  <2>3. \A i \in Identity : live'[i] = IF i \in entities' THEN 1 ELSE 0
    BY <1>2, <2>1
  <2>4. live' \in [Identity -> Nat]
    BY <2>1
  <2>5. HolderRemoves'
    BY <1>0, <1>1, <2>1, <2>2, NumberFacts DEF HolderRemoves
  <2>6. EntitiesAreLive'
    BY <2>1, <2>3 DEF EntitiesAreLive, LiveExactly
  <2> QED BY <2>1, <2>2, <2>4, <2>5, <2>6
<1>3. CASE ~(entities \subseteq desired)
  <2>1. PICK i \in entities \ desired : entities' = entities \ {i} /\ removing' = i
    BY <1>3 DEF Proceed
  <2>2. /\ live' = present /\ holder' = t
        /\ pc' = [pc EXCEPT ![t] = "removing"] /\ ended' = ended
    BY <1>3 DEF Proceed
  <2>3. i \in Identity /\ entities \subseteq Identity /\ ended \subseteq Scheduled
    BY <1>0, <2>1 DEF TypeOK
  <2>4. /\ pc' \in [Task -> {"none", "created", "waiting", "removing", "done"}]
        /\ pc'[t] = "removing" /\ \A u \in Task : u # t => pc'[u] = pc[u]
    BY <1>0, <2>2 DEF TypeOK
  <2>5. HolderRemoves'
    BY <1>1, <2>1, <2>2, <2>3, <2>4, NumberFacts DEF HolderRemoves
  <2>6. \A j \in Identity : live'[j] = IF j \in entities' \/ j = removing' THEN 1 ELSE 0
    BY <2>1, <2>2, <2>3
  <2>7. EntitiesAreLive'
    BY <1>0, <2>2, <2>6, NumberFacts DEF EntitiesAreLive, LiveExactly
  <2> QED BY <2>1, <2>2, <2>3, <2>4, <2>5, <2>7
<1> QED BY <1>2, <1>3

(* The first in the queue takes the lock and leaves the queue; it goes on   *)
(* to the objects and options of that moment, unless it finds the stop.    *)
LEMMA EnterPreserves ==
  ASSUME IInv, NEW t \in Task, ~Cancelled(t), Enter(t)
  PROVE  IInv'
<1>0. TypeOK  BY DEF IInv
<1>1. /\ holder = NoTask /\ queue # <<>> /\ Head(queue) = t /\ queue' = Tail(queue)
      /\ UNCHANGED <<optionVars, sourceVars, stopVars, scheduled, tasks>>
  BY DEF Enter
<1>2. /\ t = queue[1] /\ queue' \in Seq(Task) /\ Len(queue) \in Nat \ {0}
      /\ Len(queue') = Len(queue) - 1
      /\ \A i \in 1 .. Len(queue') : queue'[i] = queue[i + 1]
  BY <1>0, <1>1, TailFacts DEF TypeOK
<1>3. pc[t] = "waiting"
  BY <1>2 DEF IInv, Waiters
<1>4. \A i \in 1 .. Len(queue') : /\ i + 1 \in 1 .. Len(queue) /\ queue'[i] # t
                                  /\ queue'[i] \in Task
                                  /\ pc[queue'[i]] = "waiting"
  BY <1>2 DEF IInv, Waiters
<1>5. \A i, j \in 1 .. Len(queue') : queue'[i] = queue'[j] => i = j
  BY <1>2, <1>4 DEF IInv, Waiters
<1>6. /\ pc' \in [Task -> {"none", "created", "waiting", "removing", "done"}]
      /\ pc'[t] \in {"removing", "done"} /\ \A u \in Task : u # t => pc'[u] = pc[u]
      /\ ended' \subseteq Scheduled
      /\ ended' \subseteq ended \cup (IF pc'[t] = "done" THEN {t} ELSE {})
      /\ plan' \subseteq Identity
      /\ entities' \subseteq Identity /\ live' \in [Identity -> Nat]
      /\ holder' \in {NoTask, t} /\ removing' \in Identity \cup {NoIdentity}
      /\ HolderRemoves' /\ EntitiesAreLive'
  <2>1. CASE stopped
    <3>1. End(t) /\ UNCHANGED lockVars
      BY <2>1 DEF Enter
    <3>2. /\ pc' \in [Task -> {"none", "created", "waiting", "removing", "done"}]
          /\ pc'[t] = "done" /\ \A u \in Task : u # t => pc'[u] = pc[u]
          /\ ended' \subseteq Scheduled /\ ended' \subseteq ended \cup {t}
      BY <1>0, <3>1, EndFacts
    <3>3. HolderRemoves'
      BY <1>0, <1>1, <1>3, <3>1, <3>2 DEF IInv, HolderRemoves, lockVars
    <3>4. EntitiesAreLive'
      BY <1>1, <3>1 DEF IInv, EntitiesAreLive, LiveExactly, lockVars, stopVars
    <3> QED BY <1>0, <1>1, <3>1, <3>2, <3>3, <3>4 DEF TypeOK, lockVars
  <2>2. CASE ~stopped
    <3>1. plan' = Desired /\ Proceed(t, Desired, live)
      BY <2>2 DEF Enter
    <3>2. Desired \in SUBSET Identity
      BY <1>0 DEF TypeOK, Desired
    <3>3. \A i \in Identity : live[i] = IF i \in entities THEN 1 ELSE 0
      BY <1>1, <2>2 DEF IInv, EntitiesAreLive, LiveExactly
    <3>4. live \in [Identity -> Nat] /\ UNCHANGED stopVars
      BY <1>0, <1>1 DEF TypeOK
    <3> QED BY <1>1, <3>1, <3>2, <3>3, <3>4, ProceedFacts, ZenonT(60)
  <2> QED BY <2>1, <2>2
<1>7. TasksBounded' /\ OneScheduled'
  BY <1>1, <1>3, <1>6, OtherTasks
<1>8. Unloading'
  BY <1>1, <1>6, UnloadGoesOn
<1>9. Waiters'
  BY <1>4, <1>5, <1>6 DEF Waiters
<1>10. TypeOK'
  BY <1>0, <1>1, <1>2, <1>6 DEF TypeOK, optionVars, sourceVars, stopVars
<1> QED BY <1>6, <1>7, <1>8, <1>9, <1>10 DEF IInv

(* Home Assistant has removed the entity; the task keeps to its plan.      *)
LEMMA EntityRemovedPreserves ==
  ASSUME IInv, NEW t \in Task, ~Cancelled(t), EntityRemoved(t)
  PROVE  IInv'
<1>0. TypeOK  BY DEF IInv
<1>1. /\ pc[t] = "removing"
      /\ Proceed(t, plan, [live EXCEPT ![removing] = @ - 1])
      /\ UNCHANGED <<plan, optionVars, sourceVars, stopVars, queue, scheduled, tasks>>
  BY DEF EntityRemoved
<1>2. holder = t /\ removing \in Identity \ (plan \cup entities)
  BY <1>1, <1>0, NumberFacts DEF IInv, HolderRemoves
<1> DEFINE present == [live EXCEPT ![removing] = @ - 1]
<1>3. \A i \in Identity : live[i] = IF i \in entities \/ i = removing THEN 1 ELSE 0
  BY <1>0, <1>2, NumberFacts DEF IInv, EntitiesAreLive, LiveExactly
<1>4. /\ present \in [Identity -> Nat]
      /\ \A i \in Identity : present[i] = IF i \in entities THEN 1 ELSE 0
  BY <1>0, <1>2, <1>3 DEF TypeOK
<1> HIDE DEF present
<1>5. /\ pc' \in [Task -> {"none", "created", "waiting", "removing", "done"}]
      /\ pc'[t] \in {"removing", "done"} /\ \A u \in Task : u # t => pc'[u] = pc[u]
      /\ ended' \subseteq Scheduled
      /\ ended' \subseteq ended \cup (IF pc'[t] = "done" THEN {t} ELSE {})
      /\ entities' \subseteq Identity /\ live' \in [Identity -> Nat]
      /\ holder' \in {NoTask, t} /\ removing' \in Identity \cup {NoIdentity}
      /\ HolderRemoves' /\ EntitiesAreLive'
  <2>1. plan \in SUBSET Identity /\ plan' = plan /\ UNCHANGED stopVars
    BY <1>0, <1>1 DEF TypeOK
  <2>2. Proceed(t, plan, present)
    BY <1>1 DEF present
  <2> QED BY <1>2, <1>4, <2>1, <2>2, ProceedFacts
<1>6. TasksBounded' /\ OneScheduled'
  BY <1>1, <1>5, OtherTasks
<1>7. Unloading'
  BY <1>1, <1>5, UnloadGoesOn
<1>8. Waiters'
  <2>1. \A i \in 1 .. Len(queue) : queue[i] \in Task /\ queue[i] # t
    BY <1>0, <1>1 DEF TypeOK, IInv, Waiters
  <2> QED BY <1>1, <1>5, <2>1 DEF IInv, Waiters
<1>9. TypeOK'
  BY <1>0, <1>1, <1>5 DEF TypeOK, optionVars, sourceVars, stopVars
<1> QED BY <1>5, <1>6, <1>7, <1>8, <1>9 DEF IInv

(* The done callback of a task forgets it, if it is the scheduled one.     *)
LEMMA ScheduledTaskDonePreserves ==
  ASSUME IInv, NEW t \in Task, ScheduledTaskDone(t)
  PROVE  IInv'
<1>0. TypeOK  BY DEF IInv
<1>1. /\ t \in ended /\ ended' = ended \ {t}
      /\ scheduled' = IF scheduled = t THEN NoTask ELSE scheduled
      /\ UNCHANGED <<lockVars, optionVars, sourceVars, stopVars, pc, queue, tasks>>
  BY DEF ScheduledTaskDone
<1>2. pc[t] = "done" /\ ~Busy(t)
  BY <1>1 DEF IInv, OneScheduled, Busy
<1>3. TypeOK'
  BY <1>0, <1>1 DEF TypeOK, lockVars, optionVars, sourceVars, stopVars
<1>4. TasksBounded' /\ HolderRemoves' /\ Waiters'
  BY <1>1 DEF IInv, TasksBounded, HolderRemoves, Waiters, lockVars, optionVars, sourceVars
<1>5. EntitiesAreLive'
  BY <1>1 DEF IInv, EntitiesAreLive, LiveExactly, lockVars, stopVars
<1>6. OneScheduled'
  <2>1. \A u \in Scheduled : Busy(u)' => u = scheduled'
    BY <1>1, <1>2 DEF IInv, OneScheduled, Busy
  <2> QED BY <1>1, <2>1 DEF IInv, OneScheduled, optionVars
<1>7. Unloading'
  BY <1>1, <1>2 DEF IInv, Unloading, Busy, stopVars
<1> QED BY <1>3, <1>4, <1>5, <1>6, <1>7 DEF IInv

(* The cancelled task gives up its place in the queue, or the lock; the     *)
(* entity that it was removing may stay.                                   *)
LEMMA CancelledTaskEndsPreserves ==
  ASSUME IInv, CancelledTaskEnds
  PROVE  IInv'
<1>0. TypeOK  BY DEF IInv
<1> DEFINE t == scheduled
<1>1. /\ unload = "joining" /\ unload' = "done" /\ scheduled' = NoTask
      /\ End(t) /\ queue' = Without(queue, t)
      /\ UNCHANGED <<optionVars, sourceVars, stopped, tasks>>
  BY DEF CancelledTaskEnds
<1>2. t \in Scheduled /\ t \in Task /\ Busy(t) /\ stopped
  BY <1>0, <1>1, NumberFacts DEF IInv, Unloading
<1>3. /\ pc' \in [Task -> {"none", "created", "waiting", "removing", "done"}]
      /\ pc'[t] = "done" /\ \A u \in Task : u # t => pc'[u] = pc[u]
      /\ ended' \subseteq Scheduled /\ ended' \subseteq ended \cup {t}
  BY <1>0, <1>1, <1>2, EndFacts
<1>4. /\ queue' \in Seq(Task)
      /\ \A i \in 1 .. Len(queue') :
           \E j \in 1 .. Len(queue) : queue'[i] = queue[j] /\ queue[j] # t
      /\ \A i, j \in 1 .. Len(queue') : queue'[i] = queue'[j] => i = j
  <2>1. queue \in Seq(Task) /\ \A i, j \in 1 .. Len(queue) : queue[i] = queue[j] => i = j
    BY <1>0 DEF TypeOK, IInv, Waiters
  <2> DEFINE w == Without(queue, t)
  <2>2. /\ w \in Seq(Task)
        /\ \A i \in 1 .. Len(w) : \E j \in 1 .. Len(queue) : w[i] = queue[j] /\ queue[j] # t
        /\ \A i, j \in 1 .. Len(w) : w[i] = w[j] => i = j
    BY <1>2, <2>1, WithoutFacts
  <2>3. queue' = w  BY <1>1
  <2> HIDE DEF w
  <2> QED BY <2>2, <2>3
<1>5. Waiters'
  <2>1. \A i \in 1 .. Len(queue) : queue[i] \in Task /\ pc[queue[i]] = "waiting"
    BY <1>0 DEF TypeOK, IInv, Waiters
  <2>2. \A i \in 1 .. Len(queue') : pc'[queue'[i]] = "waiting"
    BY <1>3, <1>4, <2>1
  <2> QED BY <1>4, <2>2 DEF Waiters
<1>6. TasksBounded'
  BY <1>1 DEF IInv, TasksBounded, optionVars, sourceVars
<1>7. OneScheduled'
  <2>1. \A u \in Scheduled : u > tasks' => pc'[u] = "none"
    BY <1>0, <1>1, <1>2, <1>3, NumberFacts DEF IInv, OneScheduled, Busy
  <2>2. \A u \in Scheduled : ~Busy(u)'
    BY <1>0, <1>2, <1>3, NumberFacts DEF IInv, OneScheduled, Busy
  <2>3. \A u \in ended' : pc'[u] = "done"
    BY <1>0, <1>3, NumberFacts DEF IInv, OneScheduled, TypeOK
  <2>4. listener' # "reconciling" => pc'[0] = "none"
    BY <1>0, <1>1, <1>2, <1>3, NumberFacts DEF IInv, OneScheduled, optionVars
  <2> QED BY <2>1, <2>2, <2>3, <2>4 DEF OneScheduled
<1>8. Unloading'
  BY <1>1, <1>2 DEF Unloading
<1>9. /\ HolderRemoves' /\ EntitiesAreLive'
      /\ entities' \subseteq Identity /\ plan' \subseteq Identity
      /\ live' \in [Identity -> Nat] /\ holder' \in {NoTask} \cup Task
      /\ removing' \in Identity \cup {NoIdentity}
  <2>1. CASE pc[t] = "removing"
    <3>1. /\ holder' = NoTask /\ removing' = NoIdentity
          /\ live' \in {live, [live EXCEPT ![removing] = @ - 1]}
          /\ UNCHANGED <<entities, plan>>
      BY <2>1 DEF CancelledTaskEnds
    <3>2. holder = t /\ removing \in Identity
      BY <1>0, <1>2, <2>1, NumberFacts DEF IInv, HolderRemoves
    <3>3. \A i \in Identity : live[i] \in {0, 1} /\ (i = removing => live[i] = 1)
      BY <1>0, <1>2, <3>2, NumberFacts DEF IInv, EntitiesAreLive, LiveExactly
    <3>4. live' \in [Identity -> Nat] /\ \A i \in Identity : live'[i] \in {0, 1}
      BY <1>0, <3>1, <3>2, <3>3 DEF TypeOK
    <3>5. EntitiesAreLive'
      BY <1>1, <1>2, <3>1, <3>4 DEF EntitiesAreLive
    <3>6. HolderRemoves'
      BY <1>0, <1>2, <1>3, <3>1, <3>2, NumberFacts DEF IInv, HolderRemoves
    <3> QED BY <1>0, <3>1, <3>4, <3>5, <3>6 DEF TypeOK
  <2>2. CASE pc[t] # "removing"
    <3>1. UNCHANGED lockVars
      BY <2>2 DEF CancelledTaskEnds
    <3>2. EntitiesAreLive'
      BY <1>1, <1>2, <3>1 DEF IInv, EntitiesAreLive, LiveExactly, lockVars
    <3>3. HolderRemoves'
      BY <1>0, <1>2, <1>3, <2>2, <3>1, NumberFacts DEF IInv, HolderRemoves, lockVars
    <3> QED BY <1>0, <3>1, <3>2, <3>3 DEF TypeOK, lockVars
  <2> QED BY <2>1, <2>2
<1>10. TypeOK'
  BY <1>0, <1>1, <1>3, <1>4, <1>9 DEF TypeOK, optionVars, sourceVars
<1> QED BY <1>5, <1>6, <1>7, <1>8, <1>9, <1>10 DEF IInv
-----------------------------------------------------------------------------
(* The invariant holds at the start.                                       *)
LEMMA InitInv == Init => IInv
<1> SUFFICES ASSUME Init PROVE IInv
  OBVIOUS
<1>1. TypeOK
  <2>1. 0 \in 0 .. MaxUpdates + MaxOptions /\ 0 \in 0 .. MaxUpdates /\ 0 \in 0 .. MaxOptions
    OBVIOUS
  <2>2. queue \in Seq(Task) /\ pc \in [Task -> {"none", "created", "waiting", "removing", "done"}]
    BY DEF Init
  <2>3. live \in [Identity -> Nat]
    BY DEF Init
  <2> QED BY <2>1, <2>2, <2>3 DEF Init, TypeOK
<1>2. TasksBounded /\ EntitiesAreLive /\ Unloading
  BY DEF Init, TasksBounded, EntitiesAreLive, LiveExactly, Unloading
<1>3. HolderRemoves
  BY <1>1, NumberFacts DEF Init, HolderRemoves
<1>4. OneScheduled
  BY <1>1, NumberFacts DEF Init, OneScheduled, Busy
<1>5. Waiters
  BY DEF Init, Waiters
<1> QED BY <1>1, <1>2, <1>3, <1>4, <1>5 DEF IInv

(* Every step of the system keeps the invariant.                           *)
LEMMA StepInv == IInv /\ [Next]_vars => IInv'
<1> SUFFICES ASSUME IInv, [Next]_vars PROVE IInv'
  OBVIOUS
<1>1. CASE SnapshotChanges  BY <1>1, SnapshotChangesPreserves
<1>2. CASE SaveOptions  BY <1>2, SaveOptionsPreserves
<1>3. CASE ListenerStep
  BY <1>3, ListenerBeginsPreserves, ExportReconfiguredPreserves, ListenerEndsPreserves
     DEF ListenerStep
<1>4. CASE Unload  BY <1>4, UnloadPreserves
<1>5. CASE CancelledTaskEnds  BY <1>5, CancelledTaskEndsPreserves
<1>6. ASSUME NEW t \in Task, TaskStep(t) PROVE IInv'
  BY <1>6, ReconcilePreserves, EnterPreserves, EntityRemovedPreserves DEF TaskStep
<1>7. ASSUME NEW t \in Task, ScheduledTaskDone(t) PROVE IInv'
  BY <1>7, ScheduledTaskDonePreserves
<1>8. CASE UNCHANGED vars
  <2>1. UNCHANGED <<lockVars, optionVars, sourceVars, stopVars, taskVars>>
    BY <1>8 DEF vars
  <2>2. TypeOK' /\ TasksBounded' /\ OneScheduled'
    BY <2>1 DEF IInv, TypeOK, TasksBounded, OneScheduled, Busy, lockVars, optionVars,
       sourceVars, stopVars, taskVars
  <2> QED BY <2>1, <2>2, Untouched DEF IInv
<1> QED BY <1>1, <1>2, <1>3, <1>4, <1>5, <1>6, <1>7, <1>8 DEF Next

(* The invariant holds in every reachable state.                           *)
THEOREM ReconcilerInvariant == Spec => []IInv
BY InitInv, StepInv, PTL DEF Spec

(* Every variable has its type, through every interleaving of the awaited   *)
(* reconcile, the scheduled ones and the unload (object_platform.py).      *)
THEOREM TypeCorrect == Spec => []TypeOK
<1>1. IInv => TypeOK  BY DEF IInv
<1> QED BY <1>1, ReconcilerInvariant, PTL

(* Between reconciles the platform holds what the last one planned, and     *)
(* knows every entity that Home Assistant has of it.                       *)
THEOREM PlatformSettles == Spec => []Settled
<1>1. IInv => Settled
  BY DEF IInv, EntitiesAreLive, LiveExactly, Settled
<1> QED BY <1>1, ReconcilerInvariant, PTL

(* No identity ever has two entities.                                      *)
THEOREM NeverTwice == Spec => []NoDuplicateEntity
<1>1. ASSUME IInv PROVE NoDuplicateEntity
  <2>1. ASSUME NEW i \in Identity PROVE live[i] <= 1
    <3>1. live[i] = 0 \/ live[i] = 1
      BY <1>1 DEF IInv, EntitiesAreLive
    <3> QED BY <3>1
  <2> QED BY ONLY <2>1 DEF NoDuplicateEntity
<1> QED BY <1>1, ReconcilerInvariant, PTL

(* async_shutdown leaves no scheduled reconcile behind.                    *)
THEOREM UnloadEndsScheduledWork == Spec => []NoScheduledWorkAfterUnload
<1>1. IInv => NoScheduledWorkAfterUnload
  BY NumberFacts DEF IInv, OneScheduled, Unloading, NoScheduledWorkAfterUnload, Busy
<1> QED BY <1>1, ReconcilerInvariant, PTL
=============================================================================
