-------------------------- MODULE ZontClientProofs --------------------------
(***************************************************************************)
(* Theorems about ZontClient, for every set of calls and objects, every     *)
(* number of delays and every bound.                                       *)
(***************************************************************************)
EXTENDS ZontClient, TLAPS

USE ClientAssumption

(* How a call can return.                                                  *)
Outcomes == {"none", "answered", "sent", "offline", "connection", "timeout",
             "cancelled", "protocol"}

(* Sequences: the facts the type invariant needs.                          *)
LEMMA EmptySeqType == ASSUME NEW S PROVE <<>> \in Seq(S)
OBVIOUS

LEMMA SubSeqType ==
  ASSUME NEW S, NEW q \in Seq(S), NEW i \in 1 .. Len(q) + 1, NEW j \in 0 .. Len(q)
  PROVE  SubSeq(q, i, j) \in Seq(S)
OBVIOUS

(* A channel to which a message is appended.                               *)
LEMMA AppendType ==
  ASSUME NEW S, NEW D, NEW f \in [D -> Seq(S)], NEW d \in D, NEW m \in S
  PROVE  [f EXCEPT ![d] = Append(@, m)] \in [D -> Seq(S)]
<1>1. Append(f[d], m) \in Seq(S)  OBVIOUS
<1> QED BY <1>1

(* What the controller may answer is a message.                            *)
LEMMA AnswersType ==
  ASSUME NEW r \in Request, accepted \subseteq Request
  PROVE  Answers(r) \subseteq Messages
<1> USE DEF Messages
<1>1. Target[r] \in Object /\ Kind[r] \in Kinds  OBVIOUS
<1>2. State(Target[r], r) \in Messages  BY <1>1 DEF State
<1>3. [State(Target[r], r) EXCEPT !.kind = "cmdres", !.after = @ \cup {r}] \in Messages
  BY <1>1 DEF State
<1>4. ASSUME NEW b \in BOOLEAN
      PROVE  /\ Uncorrelated("ids", r, b) \in Messages
             /\ Uncorrelated("scmdres", r, b) \in Messages
  BY DEF Uncorrelated
<1>5. CASE Kind[r] \in {"command", "named"}
  BY <1>3, <1>5, Zenon DEF Answers
<1>6. CASE Kind[r] = "state"
  BY <1>2, <1>6 DEF Answers
<1>7. CASE Kind[r] = "ids"
  BY <1>4, <1>7 DEF Answers
<1>8. CASE Kind[r] \in {"system", "oneway"}
  BY <1>4, <1>8 DEF Answers
<1> QED BY <1>1, <1>5, <1>6, <1>7, <1>8 DEF Kinds


(* What the shared steps of the client preserve.                           *)
LEMMA SetConnectedType ==
  ASSUME ConnectionTypeOK, NEW b \in BOOLEAN, SetConnected(b)
  PROVE  connected' \in BOOLEAN /\ told' \in BOOLEAN
BY Zenon DEF ConnectionTypeOK, SetConnected

(* Only opened sockets are closed.                                         *)
LEMMA CloseType ==
  ASSUME ConnectionTypeOK, NEW w \in 0 .. sockets, Close(w)
  PROVE  closed' \subseteq 1 .. sockets
BY DEF ConnectionTypeOK, Close

(* The types after the pending requests have failed.                       *)
LEMMA FailPendingType ==
  ASSUME SlotTypeOK, FailPending
  PROVE  /\ pending' \in [Slots -> Request \cup {NoRequest}]
         /\ fut' \in [Request -> {"none", "pending", "answer", "malformed",
                                  "failed", "cancelled"}]
BY DEF SlotTypeOK, FailPending

(* The types after a connection is invalidated.                            *)
LEMMA InvalidateType ==
  ASSUME ConnectionTypeOK, SlotTypeOK, NEW w \in 0 .. sockets, Invalidate(w)
  PROVE  /\ connected' \in BOOLEAN /\ told' \in BOOLEAN
         /\ closed' \subseteq 1 .. sockets
         /\ pending' \in [Slots -> Request \cup {NoRequest}]
         /\ fut' \in [Request -> {"none", "pending", "answer", "malformed",
                                  "failed", "cancelled"}]
<1>1. Close(w)  BY DEF Invalidate
<1>2. CASE ws = w
  <2>1. SetConnected(FALSE) /\ FailPending  BY <1>2 DEF Invalidate
  <2> QED BY <1>1, <2>1, SetConnectedType, CloseType, FailPendingType
<1>3. CASE ws # w
  <2>1. UNCHANGED <<connected, told, pending, fut>>  BY <1>3 DEF Invalidate
  <2> QED BY <1>1, <2>1, CloseType DEF ConnectionTypeOK, SlotTypeOK
<1> QED BY <1>2, <1>3

(* The types after the connection task has released its connection.        *)
LEMMA ReleaseConnectionType ==
  ASSUME ConnectionTypeOK, SlotTypeOK, ReleaseConnection
  PROVE  /\ ws' \in 0 .. sockets
         /\ connected' \in BOOLEAN /\ told' \in BOOLEAN
         /\ closed' \subseteq 1 .. sockets
         /\ pending' \in [Slots -> Request \cup {NoRequest}]
         /\ fut' \in [Request -> {"none", "pending", "answer", "malformed",
                                  "failed", "cancelled"}]
<1>1. SetConnected(FALSE) /\ FailPending /\ Close(sockets)  BY DEF ReleaseConnection
<1>2. sockets \in 0 .. sockets  BY DEF ConnectionTypeOK
<1>3. ws' \in 0 .. sockets  BY DEF ReleaseConnection, ConnectionTypeOK
<1> QED BY <1>1, <1>2, <1>3, SetConnectedType, CloseType, FailPendingType

(* The types after the supervisor has released what it holds.              *)
LEMMA ReleaseSupervisorType ==
  ASSUME ConnectionTypeOK, SlotTypeOK, ReleaseSupervisor
  PROVE  /\ ws' \in 0 .. sockets
         /\ connected' \in BOOLEAN /\ told' \in BOOLEAN
         /\ closed' \subseteq 1 .. sockets
         /\ pending' \in [Slots -> Request \cup {NoRequest}]
         /\ fut' \in [Request -> {"none", "pending", "answer", "malformed",
                                  "failed", "cancelled"}]
<1>1. SetConnected(FALSE) /\ FailPending /\ Close(ws)  BY DEF ReleaseSupervisor
<1>2. ws \in 0 .. sockets  BY DEF ConnectionTypeOK
<1>3. ws' \in 0 .. sockets  BY DEF ReleaseSupervisor, ConnectionTypeOK
<1> QED BY <1>1, <1>2, <1>3, SetConnectedType, CloseType, FailPendingType

-----------------------------------------------------------------------------
(* One lemma for each part of the type invariant.                          *)

LEMMA SupervisorTypeStep ==
  ASSUME TypeOK, Next
  PROVE  SupervisorTypeOK'
<1> USE DEF TypeOK, SupervisorTypeOK, superVars
<1>1. CASE Supervise \/ OpenSucceeds \/ OpenTooLate \/ DiscardEnds
  <2>1. CASE Supervise  BY <2>1 DEF Supervise
  <2>2. CASE OpenSucceeds
    BY <2>2 DEF OpenSucceeds
  <2>3. CASE OpenTooLate \/ DiscardEnds
    BY <2>3, ZenonT(60) DEF OpenTooLate, DiscardEnds, ReleaseSupervisor
  <2> QED BY <1>1, <2>1, <2>2, <2>3
<1>2. CASE OpenFails("connection") \/ OpenFails("protocol") \/ OpenRejected
  BY <1>2 DEF OpenFails, OpenRejected, RecordError, ReleaseSupervisor
<1>3. CASE StableWindowEnds
  BY <1>3 DEF StableWindowEnds, MarkConnectionStable
<1>4. CASE RunEnds \/ DelayEnds
  <2>1. sup' \in {"finishing", "delaying", "opening"}
    BY <1>4, Zenon DEF RunEnds, DelayEnds, ReleaseSupervisor
  <2>2. reconnectIndex' \in 0 .. Delays - 1
    BY <1>4 DEF RunEnds, DelayEnds, NextReconnectIndex
  <2> QED BY <1>4, <2>1, <2>2 DEF RunEnds, DelayEnds
<1>5. CASE ReaderCancelled \/ JoinEnds \/ SupervisorEnds
  BY <1>5, ZenonT(60) DEF ReaderCancelled, JoinEnds, SupervisorEnds,
     ReleaseSupervisor, ReleaseConnection
<1>6. CASE CancelSupervisor \/ Stop \/ StopEnds
  <2>1. CASE CancelSupervisor  BY <2>1 DEF CancelSupervisor, ReleaseSupervisor
  <2>2. CASE Stop  BY <2>2 DEF Stop
  <2>3. CASE StopEnds  BY <2>3 DEF StopEnds
  <2> QED BY <1>6, <2>1, <2>2, <2>3
<1>7. CASE ReaderStep
  <2>1. CASE ReaderStarts  BY <2>1 DEF ReaderStarts
  <2>2. CASE Receive  BY <2>2 DEF Receive
  <2>3. CASE ConnectionEnds
    BY <2>3 DEF ConnectionEnds, ReleaseConnection, RecordError
  <2>4. CASE ConnectionClosed  BY <2>4 DEF ConnectionClosed
  <2> QED BY <1>7, <2>1, <2>2, <2>3, <2>4 DEF ReaderStep
<1>8. CASE \E r \in Request : RequestStep(r) \/ CallerStep(r)
  BY <1>8 DEF RequestStep, CallerStep, Begin, SendCompletes, SendFails,
     TimeoutExpires, Wake, InvalidationEnds, Issue, CancelQueued, CancelActive, Abandon
<1>9. CASE \E w \in 1 .. MaxSockets : EnvironmentStep(w)
  BY <1>9 DEF EnvironmentStep, Serve, Break, Push
<1> QED BY <1>1, <1>2, <1>3, <1>4, <1>5, <1>6, <1>7, <1>8, <1>9
        DEF Next, SupervisorStep

(* The connection, and the sockets that requests hold.                     *)
LEMMA ConnectionTypeStep ==
  ASSUME TypeOK, Next
  PROVE  ConnectionTypeOK' /\ sess' \in [Request -> 0 .. sockets']
<1> USE DEF TypeOK
<1>1. CASE UNCHANGED connVars /\ UNCHANGED taskVars
  BY <1>1 DEF ConnectionTypeOK, TaskTypeOK, connVars, taskVars
<1>2. CASE OpenSucceeds
  <2>1. connected' \in BOOLEAN /\ told' \in BOOLEAN
    BY <1>2, SetConnectedType DEF OpenSucceeds
  <2> QED BY <1>2, <2>1 DEF OpenSucceeds, MayOpen, ConnectionTypeOK, TaskTypeOK, taskVars
<1>3. CASE OpenTooLate
  BY <1>3 DEF OpenTooLate, MayOpen, ConnectionTypeOK, TaskTypeOK, taskVars
<1>4. ASSUME ReleaseSupervisor, UNCHANGED <<sockets, taskVars>>
      PROVE  ConnectionTypeOK' /\ sess' \in [Request -> 0 .. sockets']
  BY <1>4, ReleaseSupervisorType DEF ConnectionTypeOK, TaskTypeOK, taskVars
<1>5. ASSUME ReleaseConnection, UNCHANGED <<sockets, taskVars>>
      PROVE  ConnectionTypeOK' /\ sess' \in [Request -> 0 .. sockets']
  BY <1>5, ReleaseConnectionType DEF ConnectionTypeOK, TaskTypeOK, taskVars
<1>6. CASE Stop
  <2>1. connected' \in BOOLEAN /\ told' \in BOOLEAN
    BY <1>6, SetConnectedType DEF Stop
  <2>2. closed' \subseteq 1 .. sockets
    BY <1>6, CloseType DEF Stop, ConnectionTypeOK
  <2> QED BY <1>6, <2>1, <2>2 DEF Stop, ConnectionTypeOK, TaskTypeOK, taskVars
<1>7. ASSUME NEW r \in Request, NEW how, Abandon(r, how)
      PROVE  ConnectionTypeOK' /\ sess' \in [Request -> 0 .. sockets']
  <2>1. sess[r] \in 0 .. sockets /\ Invalidate(sess[r])
    BY <1>7 DEF Abandon, TaskTypeOK
  <2>2. /\ connected' \in BOOLEAN /\ told' \in BOOLEAN
        /\ closed' \subseteq 1 .. sockets
    BY <2>1, InvalidateType
  <2> QED BY <1>7, <2>2 DEF Abandon, ConnectionTypeOK, TaskTypeOK
<1>8. ASSUME NEW w \in 1 .. MaxSockets, Break(w)
      PROVE  ConnectionTypeOK' /\ sess' \in [Request -> 0 .. sockets']
  <2>1. closed' \subseteq 1 .. sockets
    <3>1. w \in 0 .. sockets
      BY <1>8 DEF Break, Delivers, ConnectionTypeOK
    <3> QED BY <1>8, <3>1, CloseType DEF Break, ConnectionTypeOK
  <2> QED BY <1>8, <2>1 DEF Break, ConnectionTypeOK, TaskTypeOK, taskVars
<1>9. CASE SupervisorStep
  BY <1>1, <1>2, <1>3, <1>4, <1>5, <1>9 DEF SupervisorStep, Supervise, DiscardEnds,
     OpenFails, OpenRejected, StableWindowEnds, RunEnds, DelayEnds, ReaderCancelled,
     JoinEnds, SupervisorEnds, connVars
<1>10. CASE CancelSupervisor \/ StopEnds
  BY <1>1, <1>4, <1>10 DEF CancelSupervisor, StopEnds, connVars
<1>11. CASE ReaderStep
  BY <1>1, <1>5, <1>11 DEF ReaderStep, ReaderStarts, Receive, ConnectionEnds,
     ConnectionClosed
<1>12. ASSUME NEW r \in Request, RequestStep(r) \/ CallerStep(r)
       PROVE  ConnectionTypeOK' /\ sess' \in [Request -> 0 .. sockets']
  <2>1. CASE Issue(r)
    <3>1. sess' \in [Request -> 0 .. sockets]
      BY <2>1 DEF Issue, ConnectionTypeOK, TaskTypeOK
    <3> QED BY <2>1, <3>1 DEF Issue, ConnectionTypeOK, connVars
  <2>2. CASE \/ Begin(r) \/ SendCompletes(r) \/ Wake(r)
             \/ InvalidationEnds(r) \/ CancelQueued(r)
    BY <2>2 DEF Begin, SendCompletes, Wake, InvalidationEnds, CancelQueued,
       ConnectionTypeOK, TaskTypeOK, connVars
  <2>3. CASE SendFails(r) \/ TimeoutExpires(r) \/ CancelActive(r)
    BY <1>7, <2>3 DEF SendFails, TimeoutExpires, CancelActive
  <2> QED BY <1>12, <2>1, <2>2, <2>3 DEF RequestStep, CallerStep
<1>13. ASSUME NEW w \in 1 .. MaxSockets, EnvironmentStep(w)
       PROVE  ConnectionTypeOK' /\ sess' \in [Request -> 0 .. sockets']
  BY <1>1, <1>8, <1>13 DEF EnvironmentStep, Serve, Push
<1> QED BY <1>6, <1>9, <1>10, <1>11, <1>12, <1>13 DEF Next

(* The pending tables and the futures.                                     *)
LEMMA SlotTypeStep ==
  ASSUME TypeOK, Next
  PROVE  SlotTypeOK'
<1> USE DEF TypeOK
<1>1. CASE UNCHANGED slotVars
  BY <1>1 DEF SlotTypeOK, slotVars
<1>2. ASSUME ReleaseSupervisor, UNCHANGED got PROVE SlotTypeOK'
  BY <1>2, ReleaseSupervisorType DEF SlotTypeOK
<1>3. ASSUME ReleaseConnection, UNCHANGED got PROVE SlotTypeOK'
  BY <1>3, ReleaseConnectionType DEF SlotTypeOK
<1>4. CASE Stop
  BY <1>4, FailPendingType DEF Stop, SlotTypeOK
<1>5. ASSUME NEW r \in Request, NEW how, Abandon(r, how) PROVE SlotTypeOK'
  <2>1. sess[r] \in 0 .. sockets /\ Invalidate(sess[r])
    BY <1>5 DEF Abandon, TaskTypeOK
  <2> QED BY <1>5, <2>1, InvalidateType DEF Abandon, SlotTypeOK
<1>6. ASSUME NEW r \in Request, NEW how, Return(r, how), UNCHANGED got
      PROVE  SlotTypeOK'
  BY <1>6 DEF Return, SlotTypeOK
<1>7. ASSUME NEW m \in Messages, Resolve(m) PROVE SlotTypeOK'
  BY <1>7 DEF Resolve, SlotTypeOK, slotVars
<1>8. CASE SupervisorStep
  BY <1>1, <1>2, <1>3, <1>8 DEF SupervisorStep, Supervise, OpenSucceeds, OpenTooLate,
     DiscardEnds, OpenFails, OpenRejected, StableWindowEnds, RunEnds, DelayEnds,
     ReaderCancelled, JoinEnds, SupervisorEnds, slotVars
<1>9. CASE CancelSupervisor \/ StopEnds
  BY <1>1, <1>2, <1>9 DEF CancelSupervisor, StopEnds, slotVars
<1>10. CASE ReaderStep
  <2>1. CASE Receive
    <3>1. toCli[sockets] \in Seq(Messages)
      BY DEF ConnectionTypeOK, WireTypeOK
    <3>2. Head(toCli[sockets]) \in Messages
      BY <2>1, <3>1 DEF Receive
    <3> QED BY <2>1, <3>2, <1>7 DEF Receive
  <2> QED BY <1>1, <1>3, <1>10, <2>1 DEF ReaderStep, ReaderStarts, ConnectionEnds,
     ConnectionClosed
<1>11. ASSUME NEW r \in Request, RequestStep(r) \/ CallerStep(r) PROVE SlotTypeOK'
  <2>1. CASE Begin(r)
    BY <2>1, ZenonT(60) DEF Begin, SlotTypeOK
  <2>2. CASE SendCompletes(r)
    BY <1>1, <1>6, <2>2 DEF SendCompletes, slotVars
  <2>3. CASE Wake(r) \/ InvalidationEnds(r)
    BY <1>6, <2>3 DEF Wake, InvalidationEnds
  <2>4. CASE SendFails(r) \/ TimeoutExpires(r) \/ CancelActive(r)
    BY <1>5, <2>4 DEF SendFails, TimeoutExpires, CancelActive
  <2>5. CASE Issue(r) \/ CancelQueued(r)
    BY <1>1, <2>5 DEF Issue, CancelQueued
  <2> QED BY <1>11, <2>1, <2>2, <2>3, <2>4, <2>5 DEF RequestStep, CallerStep
<1>12. ASSUME NEW w \in 1 .. MaxSockets, EnvironmentStep(w) PROVE SlotTypeOK'
  BY <1>1, <1>12 DEF EnvironmentStep, Serve, Push, Break
<1> QED BY <1>4, <1>8, <1>9, <1>10, <1>11, <1>12 DEF Next

(* The requests and the lock.                                              *)
LEMMA TaskTypeStep ==
  ASSUME TypeOK, Next
  PROVE  TaskTypeOK'
<1> USE DEF TypeOK
<1>1. sess' \in [Request -> 0 .. sockets']
  BY ConnectionTypeStep
<1>2. CASE UNCHANGED <<pc, sess, queue, owner, outcome, ackedAtSend>>
  BY <1>1, <1>2 DEF TaskTypeOK
<1>3. ASSUME NEW r \in Request, RequestStep(r) \/ CallerStep(r) PROVE TaskTypeOK'
  <2>1. CASE Issue(r)
    <3>1. /\ pc' \in [Request -> {"idle", "queued", "sending", "waiting", "closing",
                                   "done"}]
          /\ UNCHANGED <<owner, ackedAtSend>>
      BY <2>1 DEF Issue, TaskTypeOK
    <3>2. queue' \in Seq(Request)
      <4>1. queue' = queue \/ queue' = Append(queue, r)
        BY <2>1 DEF Issue
      <4>2. queue \in Seq(Request) /\ Append(queue, r) \in Seq(Request)
        BY DEF TaskTypeOK
      <4> QED BY <4>1, <4>2
    <3>3. outcome' \in [Request -> Outcomes]
      BY <2>1 DEF Issue, TaskTypeOK, Outcomes
    <3> QED BY <1>1, <3>1, <3>2, <3>3 DEF TaskTypeOK, Outcomes
  <2>2. CASE Begin(r)
    <3>1. /\ pc' \in [Request -> {"idle", "queued", "sending", "waiting", "closing",
                                   "done"}]
          /\ owner' \in Request \cup {NoRequest}
      BY <2>2 DEF Begin, TaskTypeOK
    <3>2. queue' \in Seq(Request)
      BY <2>2 DEF Begin, TaskTypeOK
    <3>3. outcome' \in [Request -> Outcomes]
      BY <2>2 DEF Begin, TaskTypeOK, Outcomes
    <3>4. ackedAtSend' \in [Request -> SUBSET Request]
      <4>1. {q \in Request : outcome[q] = "answered"} \in SUBSET Request
        OBVIOUS
      <4> QED BY <2>2, <4>1 DEF Begin, TaskTypeOK
    <3> QED BY <1>1, <3>1, <3>2, <3>3, <3>4 DEF TaskTypeOK, Outcomes
  <2>3. ASSUME NEW how \in Outcomes, Return(r, how), UNCHANGED <<sess, queue, ackedAtSend>>
        PROVE  TaskTypeOK'
    BY <1>1, <2>3 DEF Return, TaskTypeOK, Outcomes
  <2>4. CASE SendCompletes(r)
    BY <1>1, <2>3, <2>4 DEF SendCompletes, TaskTypeOK, Outcomes
  <2>5. CASE Wake(r) \/ InvalidationEnds(r)
    <3>1. outcome[r] \in Outcomes /\ AnswerOutcome(fut[r]) \in Outcomes
      BY DEF TaskTypeOK, Outcomes, AnswerOutcome
    <3> QED BY <2>3, <2>5, <3>1 DEF Wake, InvalidationEnds
  <2>6. CASE SendFails(r) \/ TimeoutExpires(r) \/ CancelActive(r)
    <3>1. PICK how \in Outcomes : Abandon(r, how)
      BY <2>6 DEF SendFails, TimeoutExpires, CancelActive, Outcomes
    <3> QED BY <1>1, <3>1 DEF Abandon, TaskTypeOK, Outcomes
  <2>7. CASE CancelQueued(r)
    <3>1. PICK i \in DOMAIN queue :
            queue' = SubSeq(queue, 1, i - 1) \o SubSeq(queue, i + 1, Len(queue))
      BY <2>7 DEF CancelQueued
    <3>2. queue' \in Seq(Request)
      <4>1. queue \in Seq(Request) /\ i \in 1 .. Len(queue)
        BY DEF TaskTypeOK
      <4>2. SubSeq(queue, 1, i - 1) \in Seq(Request)
        BY <4>1, SubSeqType
      <4>3. SubSeq(queue, i + 1, Len(queue)) \in Seq(Request)
        BY <4>1, SubSeqType
      <4> QED BY <3>1, <4>2, <4>3
    <3> QED BY <1>1, <2>7, <3>2 DEF CancelQueued, TaskTypeOK
  <2> QED BY <1>3, <2>1, <2>2, <2>4, <2>5, <2>6, <2>7 DEF RequestStep, CallerStep
<1>4. CASE SupervisorStep \/ CancelSupervisor \/ Stop \/ StopEnds
  BY <1>2, <1>4 DEF SupervisorStep, Supervise, OpenSucceeds, OpenTooLate,
     DiscardEnds, OpenFails, OpenRejected, StableWindowEnds, RunEnds, DelayEnds,
     ReaderCancelled, JoinEnds, SupervisorEnds, CancelSupervisor, Stop, StopEnds, taskVars
<1>5. CASE ReaderStep
  BY <1>2, <1>5 DEF ReaderStep, ReaderStarts, Receive, ConnectionEnds,
     ConnectionClosed, taskVars
<1>6. ASSUME NEW w \in 1 .. MaxSockets, EnvironmentStep(w) PROVE TaskTypeOK'
  BY <1>2, <1>6 DEF EnvironmentStep, Serve, Push, Break, taskVars
<1> QED BY <1>3, <1>4, <1>5, <1>6 DEF Next

(* The channels.                                                           *)
LEMMA WireTypeStep ==
  ASSUME TypeOK, Next
  PROVE  WireTypeOK'
<1> USE DEF TypeOK
<1>1. CASE UNCHANGED wireVars
  BY <1>1 DEF WireTypeOK, wireVars
<1>2. ASSUME ReleaseConnection, UNCHANGED <<toCtl, accepted, pushes, faults>>
      PROVE  WireTypeOK'
  BY <1>2, EmptySeqType DEF ReleaseConnection, WireTypeOK
<1>3. CASE SupervisorStep \/ CancelSupervisor \/ Stop \/ StopEnds
  BY <1>1, <1>2, <1>3 DEF SupervisorStep, Supervise, OpenSucceeds, OpenTooLate,
     DiscardEnds, OpenFails, OpenRejected, StableWindowEnds, RunEnds, DelayEnds,
     ReaderCancelled, JoinEnds, SupervisorEnds, CancelSupervisor, Stop, StopEnds, wireVars
<1>4. CASE ReaderStep
  <2>1. CASE Receive
    <3>1. toCli[sockets] \in Seq(Messages) /\ toCli[sockets] # <<>>
      BY <2>1 DEF Receive, WireTypeOK, ConnectionTypeOK
    <3>2. Tail(toCli[sockets]) \in Seq(Messages)
      BY <3>1
    <3> QED BY <2>1, <3>2 DEF Receive, WireTypeOK
  <2> QED BY <1>1, <1>2, <1>4, <2>1 DEF ReaderStep, ReaderStarts, ConnectionEnds,
     ConnectionClosed
<1>5. ASSUME NEW r \in Request, RequestStep(r) \/ CallerStep(r) PROVE WireTypeOK'
  <2>1. CASE Begin(r)
    <3>1. CASE UNCHANGED toCtl
      BY <2>1, <3>1 DEF Begin, WireTypeOK
    <3>2. CASE toCtl' = [toCtl EXCEPT ![sess[r]] = Append(@, r)]
      <4>1. toCtl[sess[r]] \in Seq(Request)
        BY DEF TaskTypeOK, WireTypeOK, ConnectionTypeOK
      <4>2. Append(toCtl[sess[r]], r) \in Seq(Request)
        BY <4>1
      <4> QED BY <2>1, <3>2, <4>2 DEF Begin, WireTypeOK
    <3> QED BY <2>1, <3>1, <3>2 DEF Begin
  <2> QED BY <1>1, <1>5, <2>1 DEF RequestStep, CallerStep, SendCompletes, SendFails,
     TimeoutExpires, Wake, InvalidationEnds, Issue, CancelQueued, CancelActive, Abandon
<1>6. ASSUME NEW w \in 1 .. MaxSockets, EnvironmentStep(w) PROVE WireTypeOK'
  <2>1. CASE Serve(w)
    <3>1. Head(toCtl[w]) \in Request /\ Tail(toCtl[w]) \in Seq(Request)
      BY <2>1 DEF Serve, WireTypeOK
    <3>2. Answers(Head(toCtl[w])) \subseteq Messages
      BY <3>1, AnswersType DEF WireTypeOK
    <3>3. toCli' \in [0 .. MaxSockets -> Seq(Messages)]
      <4>1. CASE UNCHANGED toCli
        BY <4>1 DEF WireTypeOK
      <4>2. ASSUME NEW m \in Answers(Head(toCtl[w])),
                   toCli' = [toCli EXCEPT ![w] = Append(@, m)]
            PROVE  toCli' \in [0 .. MaxSockets -> Seq(Messages)]
        BY <3>2, <4>2, AppendType DEF WireTypeOK
      <4> QED BY <2>1, <4>1, <4>2 DEF Serve
    <3> QED BY <2>1, <3>1, <3>3 DEF Serve, WireTypeOK
  <2>2. ASSUME NEW o \in Object, Push(w, o) PROVE WireTypeOK'
    <3>1. State(o, NoRequest) \in Messages
      BY DEF State, Messages, WireTypeOK
    <3> QED BY <2>2, <3>1 DEF Push, WireTypeOK
  <2>3. CASE Break(w)
    <3>1. Ending("lost") \in Messages /\ Ending("binary") \in Messages
      BY DEF Ending, Messages
    <3>2. toCli' \in [0 .. MaxSockets -> Seq(Messages)]
      <4>1. CASE UNCHANGED toCli
        BY <4>1 DEF WireTypeOK
      <4>2. ASSUME NEW k \in {"lost", "binary"},
                   toCli' = [toCli EXCEPT ![w] = Append(@, Ending(k))]
            PROVE  toCli' \in [0 .. MaxSockets -> Seq(Messages)]
        BY <3>1, <4>2, AppendType DEF WireTypeOK
      <4> QED BY <2>3, <4>1, <4>2 DEF Break
    <3> QED BY <2>3, <3>2 DEF Break, WireTypeOK
  <2> QED BY <1>6, <2>1, <2>2, <2>3 DEF EnvironmentStep
<1> QED BY <1>3, <1>4, <1>5, <1>6 DEF Next

-----------------------------------------------------------------------------
(* Every variable always has its type: in particular the reconnect index   *)
(* stays within RECONNECT_DELAYS, and every socket a task holds is one that *)
(* has been opened.                                                        *)
THEOREM TypeCorrect == Spec => []TypeOK
<1>1. Init => TypeOK
  <2>1. Init => SupervisorTypeOK
    <3>1. 0 \in 0 .. Delays - 1 /\ 0 \in Nat  OBVIOUS
    <3> QED BY <3>1, Zenon DEF Init, SupervisorTypeOK
  <2>5. Init => ConnectionTypeOK
    <3>1. 0 \in 0 .. MaxSockets /\ 0 \in 0 .. 0  OBVIOUS
    <3> QED BY <3>1, Zenon DEF Init, ConnectionTypeOK
  <2>2. Init => SlotTypeOK
    BY DEF Init, SlotTypeOK, Ending, Messages
  <2>3. Init => TaskTypeOK
    BY EmptySeqType DEF Init, TaskTypeOK
  <2>4. Init => WireTypeOK
    BY EmptySeqType DEF Init, WireTypeOK
  <2> QED BY <2>1, <2>2, <2>3, <2>4, <2>5 DEF TypeOK
<1>2. TypeOK /\ [Next]_vars => TypeOK'
  <2>1. ASSUME TypeOK, Next PROVE TypeOK'
    BY <2>1, SupervisorTypeStep, ConnectionTypeStep, SlotTypeStep, TaskTypeStep,
       WireTypeStep DEF TypeOK
  <2>2. ASSUME TypeOK, UNCHANGED vars PROVE TypeOK'
    BY <2>2 DEF TypeOK, SupervisorTypeOK, ConnectionTypeOK, SlotTypeOK, TaskTypeOK,
       WireTypeOK, vars, superVars, connVars, slotVars, taskVars, wireVars
  <2> QED BY <2>1, <2>2
<1> QED BY <1>1, <1>2, PTL DEF Spec

-----------------------------------------------------------------------------
(* The connection: who may be connected, and which sockets may be open.    *)

ConnectionInv ==
  /\ ws \in {0, sockets}
  /\ sup \notin {"running", "stable", "joining"} => ws = 0
  /\ connected => /\ ~stop /\ ws = sockets
                  /\ sup \in {"running", "stable", "joining"}
                  /\ sup # "joining" => reader \in {"created", "reading"}
  /\ stopping # "no" => stop
  /\ ~listening => stopping = "done"
  /\ told = connected
  /\ reader \in {"closing", "done"} /\ sup # "joining" =>
       ws = 0 /\ 1 .. sockets \subseteq closed
  /\ \A w \in 1 .. sockets : w \notin closed =>
       w = ws /\ sup \in {"running", "stable", "joining"}

(* The requests: the lock holder is the only one that can be registered,   *)
(* an unresolved future is registered and its connection is up, and the    *)
(* waiters of the lock are distinct calls that have done nothing yet.      *)
RequestInv ==
  /\ OneRegistered
  /\ NoOrphanedWaiter
  /\ \A r \in Request : pc[r] \in {"sending", "waiting", "closing"} => owner = r
  /\ \A r \in Request : fut[r] = "pending" =>
       Awaited(r) /\ pc[r] \in {"sending", "waiting"}
  /\ \A i \in DOMAIN queue : pc[queue[i]] = "queued"
  /\ \A i, j \in DOMAIN queue : queue[i] = queue[j] => i = j

(* What the listeners hear when the state is set.                          *)
LEMMA SetConnectedInforms ==
  ASSUME connected \in BOOLEAN, told = connected, ~listening => ~connected,
         NEW b \in BOOLEAN, listening \/ b = FALSE, SetConnected(b)
  PROVE  connected' = b /\ told' = b
BY Zenon DEF SetConnected

(* Every step of the client keeps the invariant of the connection.         *)
LEMMA ConnectionStep ==
  ASSUME TypeOK, ConnectionInv, Next
  PROVE  ConnectionInv'
<1> USE DEF ConnectionInv, TypeOK, ConnectionTypeOK, superVars, connVars
<1>1. CASE Supervise
  BY <1>1 DEF Supervise
<1>2. CASE OpenSucceeds
  <2>1. ~connected /\ (~listening => stop) /\ 1 .. sockets \subseteq closed
    BY <1>2 DEF OpenSucceeds
  <2>2. connected' = TRUE /\ told' = TRUE
    BY <1>2, <2>1, SetConnectedInforms DEF OpenSucceeds
  <2>3. \A w \in 1 .. sockets' : w \notin closed' => w = ws'
    BY <1>2, <2>1 DEF OpenSucceeds
  <2> QED BY <1>2, <2>2, <2>3 DEF OpenSucceeds
<1>3. CASE OpenTooLate
  <2>1. ~connected /\ 1 .. sockets \subseteq closed
    BY <1>3 DEF OpenTooLate
  <2>2. 1 .. sockets' \subseteq closed'
    BY <1>3, <2>1 DEF OpenTooLate
  <2>3. ws = 0
    BY <1>3 DEF OpenTooLate
  <2> QED BY <1>3, <2>1, <2>2, <2>3 DEF OpenTooLate
<1>4. ASSUME ReleaseSupervisor,
             sup \in {"opening", "discarding", "delaying"} \/ reader = "done",
             UNCHANGED <<reader, stop, stopping, listening, sockets>>
      PROVE  ConnectionInv'
  <2>1. connected' = FALSE /\ told' = FALSE
    BY <1>4, SetConnectedInforms DEF ReleaseSupervisor
  <2>2. 1 .. sockets \subseteq closed'
    BY <1>4 DEF ReleaseSupervisor, Close
  <2>3. ws' = 0 /\ sup' = "finishing"
    BY <1>4 DEF ReleaseSupervisor
  <2> QED BY <1>4, <2>1, <2>2, <2>3
<1>5. ASSUME reader = "reading", ReleaseConnection,
             UNCHANGED <<sup, stop, stopping, listening, sockets>>
      PROVE  ConnectionInv'
  <2>1. connected' = FALSE /\ told' = FALSE
    BY <1>5, SetConnectedInforms DEF ReleaseConnection
  <2>2. 1 .. sockets \subseteq closed'
    BY <1>5 DEF ReleaseConnection, Close
  <2>3. ws' = 0 /\ reader' = "closing"
    BY <1>5 DEF ReleaseConnection
  <2> QED BY <1>5, <2>1, <2>2, <2>3
<1>6. ASSUME sup' = "delaying" \/ sup' = "opening", sup \in {"opening", "delaying"},
             UNCHANGED <<reader, stop, stopping, listening, connVars>>
      PROVE  ConnectionInv'
  BY <1>6
<1>7. CASE RunEnds
  BY <1>7, <1>4 DEF RunEnds
<1>8. CASE StableWindowEnds \/ SupervisorEnds \/ StopEnds
  BY <1>8 DEF StableWindowEnds, SupervisorEnds, StopEnds
<1>9. CASE CancelSupervisor
  BY <1>9, <1>4 DEF CancelSupervisor
<1>10. CASE ReaderCancelled
  BY <1>10, <1>5 DEF ReaderCancelled
<1>11. CASE Stop
  BY <1>11 DEF Stop, SetConnected, Close
<1>12. CASE ReaderStep
  BY <1>12, <1>5 DEF ReaderStep, ReaderStarts, Receive, ConnectionEnds, ConnectionClosed
<1>13. ASSUME NEW r \in Request, NEW how, Abandon(r, how) PROVE ConnectionInv'
  BY <1>13 DEF Abandon, Invalidate, SetConnected, Close
<1>14. ASSUME NEW r \in Request, RequestStep(r) \/ CallerStep(r) PROVE ConnectionInv'
  BY <1>14, <1>13 DEF RequestStep, CallerStep, Begin, SendCompletes, SendFails,
     TimeoutExpires, Wake, InvalidationEnds, Issue, CancelQueued, CancelActive
<1>15. ASSUME NEW w \in 1 .. MaxSockets, EnvironmentStep(w) PROVE ConnectionInv'
  BY <1>15 DEF EnvironmentStep, Serve, Push, Break, Close
<1>16. CASE SupervisorStep
  BY <1>1, <1>2, <1>3, <1>4, <1>6, <1>7, <1>8, <1>10, <1>16 DEF SupervisorStep,
     DiscardEnds, OpenFails, OpenRejected, DelayEnds, JoinEnds
<1> QED BY <1>8, <1>9, <1>11, <1>12, <1>14, <1>15, <1>16 DEF Next

(* The invariant of the connection holds in every reachable state.         *)
THEOREM ConnectionInvariant == Spec => []ConnectionInv
<1>1. Init => ConnectionInv
  <2>1. 1 .. 0 = {}
    OBVIOUS
  <2>2. Init => told = connected
    BY Zenon DEF Init
  <2> QED BY <2>1, <2>2 DEF Init, ConnectionInv
<1>2. TypeOK /\ ConnectionInv /\ [Next]_vars => ConnectionInv'
  <2>1. CASE UNCHANGED vars
    BY <2>1 DEF vars, superVars, connVars, ConnectionInv
  <2> QED BY <2>1, ConnectionStep
<1> QED BY <1>1, <1>2, TypeCorrect, PTL DEF Spec

(* No socket is leaked: whatever fails, is stopped or is cancelled, a socket *)
(* that is still open is the current one of a supervisor that will close it. *)
THEOREM SocketsAreOwned == Spec => []NoLeakedSocket
<1>1. ConnectionInv => NoLeakedSocket
  BY DEF ConnectionInv, NoLeakedSocket
<1> QED BY <1>1, ConnectionInvariant, PTL

(* The connection listeners have always been told the truth.               *)
THEOREM ListenersAreInformed == Spec => []ListenersKnow
<1>1. ConnectionInv => ListenersKnow
  BY DEF ConnectionInv, ListenersKnow
<1> QED BY <1>1, ConnectionInvariant, PTL

-----------------------------------------------------------------------------
(* The outage: from the moment the reader leaves a connection that was not  *)
(* stopped until the next connection, it is logged and its category kept.   *)

OutageInv ==
  /\ OutageIsReported
  /\ sup \in {"running", "stable"} /\ reader \in {"closing", "done"} =>
       stop \/ (outage /\ lastError # "none")

(* Only the reader and the supervisor move what the outage depends on.      *)
LEMMA OutageStep ==
  ASSUME ConnectionInv, OutageInv, [Next]_vars
  PROVE  OutageInv'
<1> USE DEF OutageInv, OutageIsReported
<1>1. CASE UNCHANGED superVars
  BY <1>1 DEF superVars
<1>2. ASSUME sup' \notin {"delaying", "running", "stable"} PROVE OutageInv'
  BY <1>2
<1>3. CASE OpenSucceeds
  BY <1>3 DEF OpenSucceeds
<1>4. ASSUME NEW category \in {"connection", "protocol"}, OpenFails(category)
      PROVE  OutageInv'
  <2>1. outage' /\ lastError' # "none" BY <1>4 DEF OpenFails, RecordError
  <2>2. sup' \in {"finishing", "delaying"} BY <1>4, Zenon DEF OpenFails, ReleaseSupervisor
  <2>. QED BY <2>1, <2>2
<1>5. CASE StableWindowEnds
  <2>1. reader \in {"closing", "done"} => ~connected
    BY <1>5 DEF StableWindowEnds, ConnectionInv
  <2>. QED BY <1>5, <2>1 DEF StableWindowEnds, MarkConnectionStable
<1>6. CASE RunEnds
  <2>1. CASE stop
    BY <1>2, <1>6, <2>1, Zenon DEF RunEnds, ReleaseSupervisor
  <2>2. CASE ~stop
    BY <1>6, <2>2 DEF RunEnds
  <2>. QED BY <2>1, <2>2
<1>7. CASE CancelSupervisor \/ DelayEnds \/ OpenTooLate \/ DiscardEnds \/ OpenRejected
           \/ JoinEnds \/ SupervisorEnds \/ Supervise \/ ReaderCancelled
  <2>1. sup' \in {"joining", "finishing", "opening", "discarding", "done"}
    BY <1>7, ZenonT(30) DEF CancelSupervisor, DelayEnds, OpenTooLate, DiscardEnds, OpenRejected,
       JoinEnds, SupervisorEnds, Supervise, ReaderCancelled, ReleaseSupervisor
  <2>. QED BY <1>2, <2>1
<1>8. CASE Stop \/ StopEnds
  BY <1>8 DEF Stop, StopEnds
<1>9. CASE ReaderStep
  <2>1. CASE ConnectionEnds
    <3>1. UNCHANGED <<sup, stop>> /\ reader = "reading" BY <2>1 DEF ConnectionEnds
    <3>2. CASE stop
      BY <2>1, <3>1, <3>2 DEF ConnectionEnds
    <3>3. CASE ~stop
      BY <2>1, <3>1, <3>3 DEF ConnectionEnds, RecordError
    <3>. QED BY <3>2, <3>3
  <2>2. CASE ConnectionClosed \/ ReaderStarts
    BY <2>2 DEF ConnectionClosed, ReaderStarts
  <2>. QED BY <1>1, <1>9, <2>1, <2>2 DEF ReaderStep, Receive
<1>10. ASSUME NEW r \in Request, RequestStep(r) \/ CallerStep(r) PROVE OutageInv'
  BY <1>1, <1>10 DEF RequestStep, CallerStep, Begin, SendCompletes, SendFails,
     TimeoutExpires, Wake, InvalidationEnds, Issue, CancelQueued, CancelActive, Abandon
<1>11. ASSUME NEW w \in 1 .. MaxSockets, EnvironmentStep(w) PROVE OutageInv'
  BY <1>1, <1>11 DEF EnvironmentStep, Serve, Push, Break
<1>12. CASE UNCHANGED vars
  BY <1>1, <1>12 DEF vars
<1>13. CASE SupervisorStep
  BY <1>3, <1>4, <1>5, <1>6, <1>7, <1>13 DEF SupervisorStep
<1>. QED BY <1>7, <1>8, <1>9, <1>10, <1>11, <1>12, <1>13 DEF Next

(* Whenever the client pauses before a reconnect, the outage it is in has   *)
(* been logged and its category recorded (_record_error, the stable mark).  *)
THEOREM OutagesAreReported == Spec => []OutageIsReported
<1>1. Init => OutageInv
  BY DEF Init, OutageInv, OutageIsReported
<1>2. OutageInv => OutageIsReported
  BY DEF OutageInv
<1>. QED BY <1>1, <1>2, OutageStep, ConnectionInvariant, PTL DEF Spec

-----------------------------------------------------------------------------
(* The steps of the requests.                                              *)

(* Failing what is pending resolves every future, whatever becomes of the  *)
(* connection.                                                             *)
LEMMA FailPendingResolves ==
  ASSUME TypeOK, RequestInv, FailPending
  PROVE  /\ \A s \in Slots : pending'[s] = NoRequest
         /\ \A r \in Request : fut'[r] # "pending"
BY DEF RequestInv, NoOrphanedWaiter, FailPending, TypeOK, SlotTypeOK

(* A step that fails what is pending and touches no task keeps the invariant.*)
LEMMA FailPendingStep ==
  ASSUME TypeOK, RequestInv, FailPending, UNCHANGED taskVars
  PROVE  RequestInv'
BY FailPendingResolves DEF RequestInv, OneRegistered, NoOrphanedWaiter, taskVars

(* A request that gives up its connection.                                 *)
LEMMA AbandonStep ==
  ASSUME TypeOK, RequestInv, NEW r \in Request, NEW how,
         pc[r] \in {"sending", "waiting"}, Abandon(r, how)
  PROVE  RequestInv'
<1> USE DEF TypeOK, TaskTypeOK
<1>1. /\ pc' = [pc EXCEPT ![r] = "closing"] /\ owner = r
      /\ UNCHANGED <<ws, sess, queue, owner>>
  BY DEF Abandon, RequestInv
<1>2. CASE ws = sess[r]
  <2>1. FailPending
    BY <1>2 DEF Abandon, Invalidate
  <2> QED BY <1>1, <2>1, FailPendingResolves
          DEF RequestInv, OneRegistered, NoOrphanedWaiter
<1>3. CASE ws # sess[r]
  <2>1. UNCHANGED <<connected, pending, fut>>
    BY <1>3 DEF Abandon, Invalidate
  <2>2. fut[r] # "pending"
    BY <1>3 DEF RequestInv, NoOrphanedWaiter
  <2> QED BY <1>1, <2>1, <2>2 DEF RequestInv, OneRegistered, NoOrphanedWaiter
<1> QED BY <1>2, <1>3

(* A request that leaves the transaction.                                  *)
LEMMA ReturnStep ==
  ASSUME TypeOK, RequestInv, NEW r \in Request, NEW how, owner = r, Return(r, how),
         pc[r] \in {"sending", "waiting", "closing"},
         UNCHANGED <<connected, ws, sess, queue>>
  PROVE  RequestInv'
<1> USE DEF TypeOK, TaskTypeOK, SlotTypeOK
<1>1. /\ pc' = [pc EXCEPT ![r] = "done"] /\ owner' = NoRequest
      /\ fut' = [fut EXCEPT ![r] = IF @ = "pending" THEN "cancelled" ELSE @]
  BY DEF Return
<1>2. \A s \in Slots : pending'[s] = NoRequest
  BY DEF Return, RequestInv, OneRegistered
<1>3. \A q \in Request : q # r => pc[q] \notin {"sending", "waiting", "closing"}
  BY DEF RequestInv
<1>4. \A q \in Request : fut'[q] # "pending"
  BY <1>1, <1>3 DEF RequestInv
<1>5. \A i \in DOMAIN queue : queue[i] # r
  BY DEF RequestInv
<1> QED BY <1>1, <1>2, <1>3, <1>4, <1>5 DEF RequestInv, OneRegistered, NoOrphanedWaiter

(* A message that is received.                                             *)
LEMMA ResolveStep ==
  ASSUME TypeOK, RequestInv, NEW m \in Messages, m.kind \notin {"lost", "binary"},
         Resolve(m), UNCHANGED <<connVars, taskVars>>
  PROVE  RequestInv'
<1> USE DEF TypeOK, TaskTypeOK, SlotTypeOK
<1> DEFINE s == MatchingSlot(m)
           r == pending[s]
<1>1. CASE r = NoRequest
  <2>1. UNCHANGED slotVars
    BY <1>1 DEF Resolve
  <2> QED BY <2>1 DEF RequestInv, OneRegistered, NoOrphanedWaiter, slotVars, connVars,
                      taskVars
<1>2. CASE r # NoRequest /\ s \in Slots
  <2>1. r \in Request /\ owner = r /\ fut[r] = "pending"
    BY <1>2 DEF RequestInv, OneRegistered
  <2>2. /\ pending' = [pending EXCEPT ![s] = NoRequest]
        /\ fut' \in {[fut EXCEPT ![r] = f] : f \in {"answer", "malformed"}}
    BY <1>2, <2>1 DEF Resolve
  <2>3. \A t \in Slots : pending'[t] = NoRequest
    BY <1>2, <2>1, <2>2 DEF RequestInv, OneRegistered
  <2>4. \A q \in Request : fut[q] = "pending" => q = r
    BY <2>1 DEF RequestInv
  <2>5. \A q \in Request : fut'[q] # "pending"
    BY <2>1, <2>2, <2>4
  <2> QED BY <2>3, <2>5 DEF RequestInv, OneRegistered, NoOrphanedWaiter, taskVars
<1>3. s \in Slots
  BY DEF MatchingSlot, Slots, Messages
<1> QED BY <1>1, <1>2, <1>3

(* The elements of the second half of a concatenation.                     *)
LEMMA ConcatAt ==
  ASSUME NEW S, NEW a \in Seq(S), NEW b \in Seq(S), NEW k \in 1 .. Len(b)
  PROVE  (a \o b)[Len(a) + k] = b[k]
OBVIOUS

(* A call that reaches the transaction.                                    *)
LEMMA IssueStep ==
  ASSUME TypeOK, RequestInv, NEW r \in Request, Issue(r)
  PROVE  RequestInv'
<1> USE DEF TypeOK, TaskTypeOK, SlotTypeOK
<1>1. /\ pc[r] = "idle" /\ fut[r] # "pending" /\ UNCHANGED <<slotVars, connVars, owner>>
      /\ \A q \in Request : q # r => pc'[q] = pc[q] /\ sess'[q] = sess[q]
      /\ pc'[r] \in {"queued", "done"}
  <2>1. pc[r] = "idle" /\ UNCHANGED <<slotVars, connVars, owner>>
    BY DEF Issue
  <2>2. fut[r] # "pending"
    BY <2>1 DEF RequestInv
  <2>3. \E s \in {"queued", "done"} : pc' = [pc EXCEPT ![r] = s]
    BY DEF Issue
  <2>4. sess' = sess \/ sess' = [sess EXCEPT ![r] = ws]
    BY DEF Issue
  <2> QED BY <2>1, <2>2, <2>3, <2>4
<1>2. OneRegistered' /\ NoOrphanedWaiter'
  <2>1. UNCHANGED <<pending, fut, connected, ws, owner>>
    BY <1>1 DEF slotVars, connVars
  <2>2. \A s \in Slots : pending[s] # r
    BY <1>1 DEF RequestInv, OneRegistered
  <2>3. OneRegistered'
    BY <1>1, <2>1, <2>2 DEF RequestInv, OneRegistered
  <2>4. NoOrphanedWaiter'
    BY <1>1, <2>1 DEF RequestInv, NoOrphanedWaiter
  <2> QED BY <2>3, <2>4
<1>3. /\ \A q \in Request : pc'[q] \in {"sending", "waiting", "closing"} => owner' = q
      /\ \A q \in Request : fut'[q] = "pending" =>
           Awaited(q) /\ pc'[q] \in {"sending", "waiting"}
  BY <1>1 DEF RequestInv, slotVars
<1>4. \A i \in DOMAIN queue : queue[i] # r
  BY <1>1 DEF RequestInv
<1>5. CASE queue' = queue
  BY <1>1, <1>2, <1>3, <1>4, <1>5 DEF RequestInv
<1>6. CASE queue' = Append(queue, r) /\ pc'[r] = "queued"
  <2>1. /\ DOMAIN queue' = 1 .. Len(queue) + 1
        /\ queue'[Len(queue) + 1] = r
        /\ \A i \in 1 .. Len(queue) : queue'[i] = queue[i] /\ i \in DOMAIN queue
    BY <1>6
  <2>2. \A i \in DOMAIN queue' : i = Len(queue) + 1 \/ i \in 1 .. Len(queue)
    BY <2>1
  <2> QED BY <1>1, <1>2, <1>3, <1>4, <1>6, <2>1, <2>2 DEF RequestInv
<1> QED BY <1>5, <1>6 DEF Issue

(* A call that is granted the lock.                                        *)
LEMMA BeginStep ==
  ASSUME TypeOK, RequestInv, NEW r \in Request, Begin(r)
  PROVE  RequestInv'
<1> USE DEF TypeOK, TaskTypeOK, SlotTypeOK
<1>1. /\ owner = NoRequest /\ queue # <<>> /\ queue' = Tail(queue) /\ Head(queue) = r
      /\ UNCHANGED <<connVars, sess>>
  BY DEF Begin
<1>2. /\ pc[r] = "queued" /\ fut[r] # "pending"
      /\ \A q \in Request : pc[q] \notin {"sending", "waiting", "closing"}
      /\ \A q \in Request : fut[q] # "pending"
      /\ \A s \in Slots : pending[s] = NoRequest
  <2>1. 1 \in DOMAIN queue /\ queue[1] = r
    BY <1>1
  <2>2. pc[r] = "queued"
    BY <2>1 DEF RequestInv
  <2>3. \A q \in Request : pc[q] \notin {"sending", "waiting", "closing"}
    BY <1>1 DEF RequestInv
  <2>4. \A q \in Request : fut[q] # "pending"
    BY <2>3 DEF RequestInv
  <2>5. \A s \in Slots : pending[s] = NoRequest
    BY <1>1 DEF RequestInv, OneRegistered
  <2> QED BY <2>2, <2>3, <2>4, <2>5
<1>3. /\ DOMAIN queue' = 1 .. Len(queue) - 1
      /\ \A i \in DOMAIN queue' : queue'[i] = queue[i + 1] /\ i + 1 \in DOMAIN queue
      /\ 1 \in DOMAIN queue /\ queue[1] = r
  BY <1>1
<1>4. /\ \A i \in DOMAIN queue' : queue'[i] # r /\ pc[queue'[i]] = "queued"
                                  /\ queue'[i] \in Request
      /\ \A i, j \in DOMAIN queue' : queue'[i] = queue'[j] => i = j
  BY <1>3, SMTT(40) DEF RequestInv
<1>5. \A q \in Request : q # r => pc'[q] = pc[q] /\ fut'[q] = fut[q]
  BY DEF Begin
<1>6. CASE ~Usable(sess[r])
  <2>1. pc'[r] = "done" /\ UNCHANGED <<owner, pending, fut>>
    BY <1>6 DEF Begin
  <2> QED BY <1>1, <1>2, <1>4, <1>5, <2>1
          DEF RequestInv, OneRegistered, NoOrphanedWaiter, connVars
<1>7. CASE Usable(sess[r])
  <2>1. owner' = r /\ pc'[r] = "sending" /\ connected /\ ws = sess[r]
    BY <1>7 DEF Begin, Usable
  <2>2. CASE Awaited(r)
    <3>1. /\ pending' = [pending EXCEPT ![Slot(r)] = r] /\ Slot(r) \in Slots
          /\ fut'[r] = "pending"
      BY <1>7, <2>2 DEF Begin, Awaited, Slot, Slots, Kinds
    <3>2. \A s \in Slots : pending'[s] # NoRequest => s = Slot(r) /\ pending'[s] = r
      BY <1>2, <3>1
    <3>3. OneRegistered' /\ NoOrphanedWaiter'
      BY <1>1, <1>2, <1>5, <2>1, <3>1, <3>2 DEF OneRegistered, NoOrphanedWaiter, connVars
    <3> QED BY <1>1, <1>2, <1>4, <1>5, <2>1, <2>2, <3>1, <3>3 DEF RequestInv
  <2>3. CASE ~Awaited(r)
    <3>1. UNCHANGED <<pending, fut>>
      BY <1>7, <2>3 DEF Begin
    <3> QED BY <1>1, <1>2, <1>4, <1>5, <2>1, <3>1, SMTT(40)
            DEF RequestInv, OneRegistered, NoOrphanedWaiter, connVars
  <2> QED BY <2>2, <2>3
<1> QED BY <1>6, <1>7

(* Where the elements of a sequence's tail come from.                       *)
LEMMA SubSeqTail ==
  ASSUME NEW q \in Seq(Request), NEW i \in 1 .. Len(q), NEW j \in 1 .. Len(q) - i
  PROVE  SubSeq(q, i + 1, Len(q))[j] = q[(i + 1) + j - 1]
<1>1. Len(q) \in Nat
  OBVIOUS
<1> QED BY <1>1

(* A call cancelled while it waits for the lock.                           *)
LEMMA CancelQueuedStep ==
  ASSUME TypeOK, RequestInv, NEW r \in Request, CancelQueued(r)
  PROVE  RequestInv'
<1> USE DEF TypeOK, TaskTypeOK, SlotTypeOK
<1>1. PICK i \in DOMAIN queue :
        /\ queue[i] = r
        /\ queue' = SubSeq(queue, 1, i - 1) \o SubSeq(queue, i + 1, Len(queue))
  BY DEF CancelQueued
<1>2. /\ pc[r] = "queued" /\ fut[r] # "pending"
      /\ pc' = [pc EXCEPT ![r] = "done"]
      /\ UNCHANGED <<connVars, slotVars, sess, owner>>
  BY <1>1 DEF CancelQueued, RequestInv
<1>3. OneRegistered' /\ NoOrphanedWaiter'
  BY <1>2 DEF RequestInv, OneRegistered, NoOrphanedWaiter, connVars, slotVars
<1> DEFINE from(j) == IF j < i THEN j ELSE j + 1
<1>4. /\ DOMAIN queue' = 1 .. Len(queue) - 1
      /\ \A j \in DOMAIN queue' :
           queue'[j] = queue[from(j)] /\ from(j) \in DOMAIN queue /\ from(j) # i
  <2>1. /\ i \in 1 .. Len(queue) /\ Len(queue) \in Nat /\ DOMAIN queue = 1 .. Len(queue)
    OBVIOUS
  <2>2. /\ Len(SubSeq(queue, 1, i - 1)) = i - 1
        /\ \A j \in 1 .. i - 1 : SubSeq(queue, 1, i - 1)[j] = queue[j]
    BY <2>1
  <2>3. /\ Len(SubSeq(queue, i + 1, Len(queue))) = Len(queue) - i
        /\ \A j \in 1 .. Len(queue) - i :
             SubSeq(queue, i + 1, Len(queue))[j] = queue[i + j]
    <3>1. Len(SubSeq(queue, i + 1, Len(queue))) = Len(queue) - i
      BY <2>1
    <3>2. ASSUME NEW j \in 1 .. Len(queue) - i
          PROVE  SubSeq(queue, i + 1, Len(queue))[j] = queue[i + j]
      <4>0. queue \in Seq(Request)
        OBVIOUS
      <4>1. SubSeq(queue, i + 1, Len(queue))[j] = queue[(i + 1) + j - 1]
        BY ONLY <4>0, <2>1, <3>2, SubSeqTail
      <4>2. (i + 1) + j - 1 = i + j
        BY <2>1
      <4> QED BY <4>1, <4>2
    <3> QED BY <3>1, <3>2
  <2>4. /\ SubSeq(queue, 1, i - 1) \in Seq(Request)
        /\ SubSeq(queue, i + 1, Len(queue)) \in Seq(Request)
    BY <2>1, SubSeqType
  <2>5. /\ DOMAIN queue' = 1 .. Len(queue) - 1
        /\ \A j \in DOMAIN queue' : queue'[j] = queue[from(j)]
    <3> DEFINE front == SubSeq(queue, 1, i - 1)
               back  == SubSeq(queue, i + 1, Len(queue))
    <3> HIDE DEF front, back
    <3>1. /\ front \in Seq(Request) /\ Len(front) = i - 1
          /\ back \in Seq(Request) /\ Len(back) = Len(queue) - i
          /\ queue' = front \o back
      BY <1>1, <2>2, <2>3, <2>4 DEF front, back
    <3>2. DOMAIN queue' = 1 .. Len(queue) - 1
      <4>1. DOMAIN (front \o back) = 1 .. Len(front) + Len(back)
        BY <3>1, SMTT(40)
      <4>2. Len(front) + Len(back) = Len(queue) - 1
        BY <2>1, <3>1
      <4> QED BY <3>1, <4>1, <4>2
    <3>3. ASSUME NEW j \in 1 .. Len(queue) - 1, j < i PROVE queue'[j] = queue[j]
      <4>1. queue'[j] = front[j]
        BY <2>1, <3>1, <3>3
      <4> QED BY <2>1, <2>2, <3>3, <4>1 DEF front
    <3>4. ASSUME NEW j \in 1 .. Len(queue) - 1, ~(j < i) PROVE queue'[j] = queue[j + 1]
      <4>1. /\ j - (i - 1) \in 1 .. Len(queue) - i
            /\ (i - 1) + (j - (i - 1)) = j
        BY <2>1, <3>4, SMTT(40)
      <4>4. (front \o back)[Len(front) + (j - (i - 1))] = back[j - (i - 1)]
        <5>1. j - (i - 1) \in 1 .. Len(back)
          BY <3>1, <4>1
        <5>2. front \in Seq(Request) /\ back \in Seq(Request)
          BY <3>1
        <5> QED BY ONLY <5>1, <5>2, ConcatAt
      <4>2. back[j - (i - 1)] = queue[i + (j - (i - 1))]
        BY <2>3, <4>1 DEF back
      <4>5. queue'[j] = back[j - (i - 1)]
        BY <3>1, <4>1, <4>4
      <4>3. i + (j - (i - 1)) = j + 1
        BY <2>1, <4>1
      <4> QED BY <4>2, <4>3, <4>5
    <3> QED BY <3>2, <3>3, <3>4
  <2>6. \A j \in 1 .. Len(queue) - 1 : from(j) \in 1 .. Len(queue) /\ from(j) # i
    BY <2>1
  <2> QED BY <2>1, <2>5, <2>6
<1>5. /\ \A j \in DOMAIN queue' : queue'[j] # r /\ pc[queue'[j]] = "queued"
                                  /\ queue'[j] \in Request
      /\ \A j, k \in DOMAIN queue' : queue'[j] = queue'[k] => j = k
  <2>1. \A j, k \in DOMAIN queue' : from(j) = from(k) => j = k
    BY <1>4, SMTT(40)
  <2>2. /\ \A j \in DOMAIN queue : pc[queue[j]] = "queued" /\ queue[j] \in Request
        /\ \A j, k \in DOMAIN queue : queue[j] = queue[k] => j = k
    BY DEF RequestInv
  <2> HIDE DEF from
  <2>3. \A j \in DOMAIN queue' : queue'[j] # r
    BY <1>1, <1>4, <2>2, ZenonT(60)
  <2>4. \A j \in DOMAIN queue' : pc[queue'[j]] = "queued" /\ queue'[j] \in Request
    BY <1>4, <2>2
  <2>5. \A j, k \in DOMAIN queue' : queue'[j] = queue'[k] => j = k
    BY <1>4, <2>1, <2>2
  <2> QED BY <2>3, <2>4, <2>5
<1> QED BY <1>2, <1>3, <1>5 DEF RequestInv, slotVars

(* Every step of the client keeps the invariant of the requests.           *)
LEMMA RequestInvStep ==
  ASSUME TypeOK, ConnectionInv, RequestInv, [Next]_vars
  PROVE  RequestInv'
<1>1. ASSUME UNCHANGED <<slotVars, taskVars, connected, ws>> PROVE RequestInv'
  BY <1>1 DEF RequestInv, OneRegistered, NoOrphanedWaiter, slotVars, taskVars
<1>2. CASE OpenSucceeds
  <2>1. ~connected
    BY <1>2 DEF OpenSucceeds, ConnectionInv
  <2>2. \A r \in Request : fut[r] # "pending"
    BY <2>1 DEF RequestInv, NoOrphanedWaiter
  <2>3. UNCHANGED <<pending, fut, pc, sess, queue, owner>>
    BY <1>2 DEF OpenSucceeds, slotVars, taskVars
  <2> QED BY <2>2, <2>3 DEF RequestInv, OneRegistered, NoOrphanedWaiter
<1>3. CASE SupervisorStep \/ CancelSupervisor \/ Stop \/ StopEnds
  BY <1>1, <1>2, <1>3, FailPendingStep DEF SupervisorStep, Supervise, OpenTooLate,
     DiscardEnds, OpenFails, OpenRejected, StableWindowEnds, RunEnds, DelayEnds,
     ReaderCancelled, JoinEnds, SupervisorEnds, CancelSupervisor, Stop, StopEnds,
     ReleaseSupervisor, ReleaseConnection, connVars, slotVars
<1>4. CASE ReaderStep
  <2>1. CASE Receive
    <3>1. toCli[sockets] \in Seq(Messages) /\ toCli[sockets] # <<>>
      BY <2>1 DEF Receive, TypeOK, WireTypeOK, ConnectionTypeOK
    <3>2. Head(toCli[sockets]) \in Messages
      BY <3>1
    <3> QED BY <2>1, <3>2, ResolveStep DEF Receive
  <2> QED BY <1>1, <1>4, <2>1, FailPendingStep DEF ReaderStep, ReaderStarts,
     ConnectionEnds, ConnectionClosed, ReleaseConnection, connVars
<1>5. ASSUME NEW r \in Request, RequestStep(r) \/ CallerStep(r) PROVE RequestInv'
  <2>1. CASE SendFails(r) \/ TimeoutExpires(r) \/ CancelActive(r)
    BY <2>1, AbandonStep DEF SendFails, TimeoutExpires, CancelActive
  <2>2. CASE SendCompletes(r)
    <3>1. pc[r] = "sending" /\ owner = r
      BY <2>2 DEF SendCompletes, RequestInv
    <3>2. CASE Return(r, "sent")
      BY <2>2, <3>1, <3>2, ReturnStep DEF SendCompletes, connVars
    <3>3. CASE pc' = [pc EXCEPT ![r] = "waiting"] /\ UNCHANGED <<owner, pending, fut>>
      <4>1. UNCHANGED <<connected, ws, sess, queue>>
        BY <2>2 DEF SendCompletes, connVars
      <4>2. \A i \in DOMAIN queue : queue[i] # r
        BY <3>1 DEF RequestInv
      <4> QED BY <3>1, <3>3, <4>1, <4>2
              DEF RequestInv, OneRegistered, NoOrphanedWaiter, TypeOK, TaskTypeOK
    <3> QED BY <2>2, <3>2, <3>3 DEF SendCompletes
  <2>3. CASE Wake(r) \/ InvalidationEnds(r)
    <3>1. pc[r] \in {"waiting", "closing"} /\ owner = r
      BY <2>3 DEF Wake, InvalidationEnds, RequestInv
    <3> QED BY <2>3, <3>1, ReturnStep DEF Wake, InvalidationEnds, connVars
  <2> QED BY <1>5, <2>1, <2>2, <2>3, IssueStep, BeginStep, CancelQueuedStep
          DEF RequestStep, CallerStep
<1>6. ASSUME NEW w \in 1 .. MaxSockets, EnvironmentStep(w) PROVE RequestInv'
  BY <1>1, <1>6 DEF EnvironmentStep, Serve, Push, Break, connVars
<1>7. CASE UNCHANGED vars
  BY <1>1, <1>7 DEF vars, connVars
<1> QED BY <1>3, <1>4, <1>5, <1>6, <1>7 DEF Next

(* The invariant of the requests holds in every reachable state.           *)
THEOREM RequestInvariant == Spec => []RequestInv
<1>1. Init => RequestInv
  BY DEF Init, RequestInv, OneRegistered, NoOrphanedWaiter
<1> QED BY <1>1, RequestInvStep, TypeCorrect, ConnectionInvariant, PTL DEF Spec

(* At most one call is registered for an answer, and it holds the lock.    *)
THEOREM OneIsRegistered == Spec => []OneRegistered
<1>1. RequestInv => OneRegistered
  BY DEF RequestInv
<1> QED BY <1>1, RequestInvariant, PTL

(* No call waits for an answer on a connection that is gone.               *)
THEOREM NobodyIsOrphaned == Spec => []NoOrphanedWaiter
<1>1. RequestInv => NoOrphanedWaiter
  BY DEF RequestInv
<1> QED BY <1>1, RequestInvariant, PTL

-----------------------------------------------------------------------------
(* The client implements the queue of calls it promises.                   *)

Session == IF connected THEN ws ELSE 0

Result == [r \in Request |-> IF pc[r] = "done" THEN outcome[r] ELSE "none"]

(* What the mapping needs of the calls: one that was not made has no socket, *)
(* and one that closes its connection knows how it will return.             *)
CallInv ==
  \A r \in Request :
    /\ pc[r] = "idle" => sess[r] = 0
    /\ pc[r] = "closing" => outcome[r] \in {"connection", "timeout", "cancelled"}

LEMMA CallInvStep ==
  ASSUME TypeOK, CallInv, [Next]_vars
  PROVE  CallInv'
<1> USE DEF TypeOK, TaskTypeOK
<1>1. CASE UNCHANGED taskVars
  BY <1>1 DEF CallInv, taskVars
<1>2. ASSUME NEW r \in Request, RequestStep(r) \/ CallerStep(r) PROVE CallInv'
  <2>1. CASE Issue(r)
    BY <2>1 DEF Issue, CallInv
  <2>2. CASE Begin(r)
    BY <2>2 DEF Begin, CallInv
  <2>3. ASSUME NEW how, Return(r, how), sess' = sess PROVE CallInv'
    BY <2>3 DEF Return, CallInv
  <2>4. ASSUME NEW how \in {"connection", "timeout", "cancelled"}, Abandon(r, how)
        PROVE  CallInv'
    BY <2>4 DEF Abandon, CallInv
  <2>5. CASE SendCompletes(r)
    BY <2>3, <2>5 DEF SendCompletes, CallInv
  <2>6. CASE CancelQueued(r)
    BY <2>6 DEF CancelQueued, CallInv
  <2>. QED BY <1>2, <2>1, <2>2, <2>3, <2>4, <2>5, <2>6 DEF RequestStep, CallerStep,
       SendFails, TimeoutExpires, Wake, InvalidationEnds, CancelActive
<1>3. CASE SupervisorStep \/ CancelSupervisor \/ Stop \/ StopEnds \/ ReaderStep
  BY <1>1, <1>3 DEF SupervisorStep, Supervise, OpenSucceeds, OpenTooLate, DiscardEnds,
     OpenFails, OpenRejected, StableWindowEnds, RunEnds, DelayEnds, ReaderCancelled,
     JoinEnds, SupervisorEnds, CancelSupervisor, Stop, StopEnds, ReaderStep,
     ReaderStarts, Receive, ConnectionEnds, ConnectionClosed
<1>4. ASSUME NEW w \in 1 .. MaxSockets, EnvironmentStep(w) PROVE CallInv'
  BY <1>1, <1>4 DEF EnvironmentStep, Serve, Push, Break
<1>5. CASE UNCHANGED vars
  BY <1>1, <1>5 DEF vars
<1>. QED BY <1>2, <1>3, <1>4, <1>5 DEF Next

(* A change of the connection alone ends the session or begins a new one.   *)
LEMMA SessionChanges ==
  ASSUME TypeOK, UNCHANGED <<sess, queue, owner>>, Result' = Result,
         \/ ~connected'
         \/ UNCHANGED <<connected, ws>>
         \/ ws' \in Nat /\ \A r \in Request : sess[r] < ws'
  PROVE  [Queue!Next]_(Queue!vars)
<1>1. Session' = Session \/ Session' = 0
        \/ (Session' \in Nat /\ \A r \in Request : sess[r] < Session')
  BY DEF Session
<1>2. CASE Session' = Session
  BY <1>2 DEF Queue!vars, Session, Result
<1>3. CASE Session' # Session
  <2>1. Queue!ChangeSession
    BY <1>1, <1>3 DEF Queue!ChangeSession, Session, Result
  <2>. QED BY <2>1 DEF Queue!Next
<1>. QED BY <1>2, <1>3

(* The end of a call that held the lock.                                    *)
LEMMA ReturnFinishes ==
  ASSUME TypeOK, NEW r \in Request, owner = r, pc[r] # "done",
         NEW how \in Queue!Results \ {"offline"}, Return(r, how),
         UNCHANGED <<connVars, sess, queue>>
  PROVE  Queue!Finish(r)
<1>1. Result' = [Result EXCEPT ![r] = how]
  BY DEF Return, Result, TypeOK, TaskTypeOK
<1>2. owner' = NoRequest BY DEF Return
<1>. QED BY <1>1, <1>2 DEF Queue!Finish, Result, connVars

(* The head taken away leaves the tail.                                     *)
LEMMA TailIsTheRest ==
  ASSUME NEW q \in Seq(Request), q # <<>>
  PROVE  /\ 1 \in DOMAIN q /\ q[1] = Head(q)
         /\ Tail(q) = SubSeq(q, 1, 1 - 1) \o SubSeq(q, 1 + 1, Len(q))
<1>1. SubSeq(q, 1, 1 - 1) = <<>> OBVIOUS
<1>2. SubSeq(q, 1 + 1, Len(q)) = Tail(q) OBVIOUS
<1>3. Tail(q) \in Seq(Request) OBVIOUS
<1>. QED BY <1>1, <1>2, <1>3

(* Every step of a call is one of the queue, or shows nothing of itself.    *)
LEMMA CallImplements ==
  ASSUME TypeOK, RequestInv, CallInv, NEW r \in Request, RequestStep(r) \/ CallerStep(r)
  PROVE  [Queue!Next]_(Queue!vars)
<1> USE DEF TypeOK, TaskTypeOK
<1>1. CASE Issue(r)
  <2>1. pc[r] = "idle" /\ sess[r] = 0 /\ Result[r] = "none"
    BY <1>1 DEF Issue, CallInv, Result
  <2>2. CASE Usable(ws)
    <3>1. Result' = Result
      BY <1>1, <2>2 DEF Issue, Result
    <3>2. Session # 0 /\ Session' = Session /\ Session = ws
      BY <1>1, <2>2 DEF Issue, Usable, Session, connVars
    <3>3. /\ queue' = Append(queue, r) /\ owner' = owner
          /\ sess' = [sess EXCEPT ![r] = Session]
      BY <1>1, <2>2, <3>2 DEF Issue
    <3>4. Queue!Make(r)
      BY <2>1, <3>1, <3>2, <3>3 DEF Queue!Make, Session, Result
    <3>. QED BY <3>4 DEF Queue!Next
  <2>3. CASE ~Usable(ws)
    <3>1. Result' = [Result EXCEPT ![r] = "offline"]
      BY <1>1, <2>3 DEF Issue, Result
    <3>2. UNCHANGED <<connected, ws, sess, queue, owner>>
      BY <1>1, <2>3 DEF Issue, connVars
    <3>3. Queue!Refuse(r)
      BY <2>1, <3>1, <3>2 DEF Queue!Refuse, Result
    <3>. QED BY <3>3 DEF Queue!Next
  <2>. QED BY <2>2, <2>3
<1>2. CASE Begin(r)
  <2>1. /\ owner = NoRequest /\ queue # <<>> /\ Head(queue) = r /\ queue' = Tail(queue)
        /\ UNCHANGED <<connected, ws, sess>>
    BY <1>2 DEF Begin, connVars
  <2>2. pc[r] = "queued"
    BY <2>1 DEF RequestInv
  <2>3. CASE Usable(sess[r])
    <3>1. owner' = r /\ Result' = Result
      BY <1>2, <2>2, <2>3 DEF Begin, Result
    <3>2. Session = sess[r] /\ Session' = Session
      BY <2>1, <2>3 DEF Usable, Session
    <3>3. Queue!TakeUp(r)
      BY <2>1, <3>1, <3>2 DEF Queue!TakeUp, Session, Result
    <3>. QED BY <3>3 DEF Queue!Next
  <2>4. CASE ~Usable(sess[r])
    <3>1. Result' = [Result EXCEPT ![r] = "connection"] /\ owner' = owner
      BY <1>2, <2>4 DEF Begin, Result
    <3>2. 1 \in DOMAIN queue /\ queue[1] = r
          /\ queue' = SubSeq(queue, 1, 1 - 1) \o SubSeq(queue, 1 + 1, Len(queue))
      BY <2>1, TailIsTheRest
    <3>3. Queue!GiveUp(r)
      BY <2>1, <3>1, <3>2 DEF Queue!GiveUp, Result
    <3>. QED BY <3>3 DEF Queue!Next
  <2>. QED BY <2>3, <2>4
<1>3. CASE CancelQueued(r)
  <2>1. Result' = [Result EXCEPT ![r] = "cancelled"]
    BY <1>3 DEF CancelQueued, Result
  <2>2. UNCHANGED <<connected, ws, sess, owner>>
    BY <1>3 DEF CancelQueued, connVars
  <2>3. Queue!GiveUp(r)
    BY <1>3, <2>1, <2>2 DEF CancelQueued, Queue!GiveUp, Result
  <2>. QED BY <2>3 DEF Queue!Next
<1>4. ASSUME NEW how, Abandon(r, how), pc[r] \in {"sending", "waiting"}
      PROVE  [Queue!Next]_(Queue!vars)
  <2>1. Result' = Result
    BY <1>4 DEF Abandon, Result
  <2>2. ~connected' \/ UNCHANGED <<connected, ws>>
    BY <1>4 DEF Abandon, Invalidate, SetConnected
  <2>. QED BY <1>4, <2>1, <2>2, SessionChanges DEF Abandon
<1>5. CASE SendFails(r) \/ TimeoutExpires(r) \/ CancelActive(r)
  BY <1>4, <1>5 DEF SendFails, TimeoutExpires, CancelActive
<1>6. CASE SendCompletes(r) \/ Wake(r) \/ InvalidationEnds(r)
  <2>1. /\ owner = r /\ pc[r] # "done" /\ UNCHANGED <<connVars, sess, queue>>
    BY <1>6 DEF SendCompletes, Wake, InvalidationEnds, RequestInv
  <2>2. CASE \E how \in Queue!Results \ {"offline"} : Return(r, how)
    <3>1. Queue!Finish(r) BY <2>1, <2>2, ReturnFinishes
    <3>. QED BY <3>1 DEF Queue!Next
  <2>3. CASE SendCompletes(r) /\ Awaited(r)
    <3>1. Result' = Result
      BY <2>3 DEF SendCompletes, Result
    <3>2. UNCHANGED <<connected, ws, sess, queue, owner>>
      BY <2>1, <2>3 DEF SendCompletes, connVars
    <3>. QED BY <3>1, <3>2 DEF Queue!vars, Result
  <2>4. CASE SendCompletes(r) /\ ~Awaited(r)
    <3>1. Return(r, "sent") BY <2>4 DEF SendCompletes
    <3>. QED BY <2>2, <3>1 DEF Queue!Results
  <2>5. CASE Wake(r)
    <3>1. Return(r, AnswerOutcome(fut[r])) BY <2>5 DEF Wake
    <3>2. AnswerOutcome(fut[r]) \in Queue!Results \ {"offline"}
      BY DEF AnswerOutcome, Queue!Results
    <3>. QED BY <2>2, <3>1, <3>2
  <2>6. CASE InvalidationEnds(r)
    <3>1. Return(r, outcome[r]) /\ pc[r] = "closing" BY <2>6 DEF InvalidationEnds
    <3>2. outcome[r] \in Queue!Results \ {"offline"}
      BY <3>1 DEF CallInv, Queue!Results
    <3>. QED BY <2>2, <3>1, <3>2
  <2>. QED BY <1>6, <2>3, <2>4, <2>5, <2>6
<1>. QED BY <1>1, <1>2, <1>3, <1>5, <1>6 DEF RequestStep, CallerStep

(* Every other step shows at most that a session ended or began.            *)
LEMMA ConnectionImplements ==
  ASSUME TypeOK, UNCHANGED taskVars, ConnectionInv, [Next]_vars,
         ~(\E r \in Request : RequestStep(r) \/ CallerStep(r))
  PROVE  [Queue!Next]_(Queue!vars)
<1>1. Result' = Result /\ UNCHANGED <<sess, queue, owner>>
  BY DEF Result, taskVars
<1>2. ASSUME ~connected' \/ UNCHANGED <<connected, ws>> PROVE [Queue!Next]_(Queue!vars)
  BY <1>1, <1>2, SessionChanges
<1>3. CASE OpenSucceeds
  <2>1. ws' \in Nat /\ \A r \in Request : sess[r] < ws'
    BY <1>3 DEF OpenSucceeds, TypeOK, TaskTypeOK, ConnectionTypeOK
  <2>. QED BY <1>1, <2>1, SessionChanges
<1>4. ReleaseSupervisor \/ ReleaseConnection => ~connected'
  BY DEF ReleaseSupervisor, ReleaseConnection, SetConnected
<1>5. CASE SupervisorStep \/ CancelSupervisor \/ Stop \/ StopEnds
  BY <1>2, <1>3, <1>4, <1>5 DEF SupervisorStep, Supervise, OpenTooLate, DiscardEnds,
     OpenFails, OpenRejected, StableWindowEnds, RunEnds, DelayEnds, ReaderCancelled,
     JoinEnds, SupervisorEnds, CancelSupervisor, Stop, StopEnds, SetConnected, connVars
<1>6. CASE ReaderStep
  BY <1>2, <1>4, <1>6 DEF ReaderStep, ReaderStarts, Receive, ConnectionEnds,
     ConnectionClosed, connVars
<1>7. ASSUME NEW w \in 1 .. MaxSockets, EnvironmentStep(w) PROVE [Queue!Next]_(Queue!vars)
  BY <1>2, <1>7 DEF EnvironmentStep, Serve, Push, Break, connVars
<1>8. CASE UNCHANGED vars
  BY <1>2, <1>8 DEF vars, connVars
<1>. QED BY <1>5, <1>6, <1>7, <1>8 DEF Next

(* Every step of the client is a step of the promised queue, or changes     *)
(* nothing a caller can see of it (_async_transaction).                     *)
THEOREM ImplementsTheQueue == Spec => ImplementsRequestQueue
<1>1. Init => Queue!Init /\ CallInv
  BY DEF Init, Queue!Init, CallInv
<1>2. ASSUME TypeOK, ConnectionInv, RequestInv, CallInv, [Next]_vars
      PROVE  [Queue!Next]_(Queue!vars)
  <2>1. CASE \E r \in Request : RequestStep(r) \/ CallerStep(r)
    BY <1>2, <2>1, CallImplements
  <2>2. CASE ~(\E r \in Request : RequestStep(r) \/ CallerStep(r))
    <3>1. UNCHANGED taskVars
      BY <1>2, <2>2 DEF Next, vars, SupervisorStep, Supervise, OpenSucceeds, OpenTooLate,
         DiscardEnds, OpenFails, OpenRejected, StableWindowEnds, RunEnds, DelayEnds,
         ReaderCancelled, JoinEnds, SupervisorEnds, CancelSupervisor, Stop, StopEnds,
         ReaderStep, ReaderStarts, Receive, ConnectionEnds, ConnectionClosed,
         EnvironmentStep, Serve, Push, Break
    <3>. QED BY <1>2, <2>2, <3>1, ConnectionImplements
  <2>. QED BY <2>1, <2>2
<1>. QED BY <1>1, <1>2, CallInvStep, TypeCorrect, ConnectionInvariant, RequestInvariant, PTL
         DEF Spec, ImplementsRequestQueue, Queue!Spec

-----------------------------------------------------------------------------
(* The answers: what is on the newest connection, and what the calls take   *)
(* from it.                                                                *)

(* Calls of which one at a time is unanswered on the newest connection, and  *)
(* the messages that answer them; system calls only while no one-way call   *)
(* was made on it.                                                          *)
Commands == {"command", "named"}

OneWayOn(w) == \E r \in Request : Kind[r] = "oneway" /\ sess[r] = w

Single(r) ==
  Kind[r] \in {"command", "named", "ids"} \/ (Kind[r] = "system" /\ ~OneWayOn(sockets))

AnswersSingle(m) ==
  m.kind \in {"cmdres", "ids"} \/ (m.kind = "scmdres" /\ ~OneWayOn(sockets))

MadeOn(r, w) == sess[r] = w /\ pc[r] # "idle"

OfItsKind(m) ==
  /\ m.kind = "cmdres" => m.of \in Request /\ Kind[m.of] \in Commands
  /\ m.kind = "ids" => m.of \in Request /\ Kind[m.of] = "ids"
  /\ m.kind = "scmdres" => /\ m.of \in Request /\ Kind[m.of] \in {"system", "oneway"}
                           /\ MadeOn(m.of, sockets)

(* The waiting call is the only one of its sort on the wire, and its answer  *)
(* the only one of its sort in the inbox.                                   *)
OutboxInv ==
  /\ \A i \in DOMAIN toCtl[sockets] :
       Single(toCtl[sockets][i]) => fut[toCtl[sockets][i]] = "pending"
  /\ \A i, j \in DOMAIN toCtl[sockets] :
       Single(toCtl[sockets][i]) /\ Single(toCtl[sockets][j]) => i = j

InboxInv ==
  /\ \A i \in DOMAIN toCli[sockets] : AnswersSingle(toCli[sockets][i]) =>
       /\ fut[toCli[sockets][i].of] = "pending"
       /\ \A j \in DOMAIN toCtl[sockets] : toCtl[sockets][j] # toCli[sockets][i].of
  /\ \A i, j \in DOMAIN toCli[sockets] :
       AnswersSingle(toCli[sockets][i]) /\ AnswersSingle(toCli[sockets][j]) => i = j

WireInv ==
  /\ \A w \in 0 .. MaxSockets : w > sockets => toCtl[w] = <<>> /\ toCli[w] = <<>>
  /\ \A w \in 0 .. MaxSockets : \A i \in DOMAIN toCtl[w] : MadeOn(toCtl[w][i], w)
  /\ \A i \in DOMAIN toCli[sockets] : OfItsKind(toCli[sockets][i])
  /\ connected => OutboxInv /\ InboxInv

(* Sequences: where the elements of a tail and of a longer sequence are.     *)
LEMMA TailAt ==
  ASSUME NEW S, NEW q \in Seq(S), q # <<>>
  PROVE  /\ 1 \in DOMAIN q /\ Head(q) = q[1] /\ Head(q) \in S
         /\ Tail(q) \in Seq(S)
         /\ \A i \in DOMAIN Tail(q) : /\ i \in Nat /\ i + 1 \in DOMAIN q /\ i + 1 # 1
                                      /\ 1 < i + 1 /\ Tail(q)[i] = q[i + 1]
OBVIOUS

LEMMA AppendAt ==
  ASSUME NEW S, NEW q \in Seq(S), NEW m \in S
  PROVE  \A i \in DOMAIN Append(q, m) :
           \/ i \in DOMAIN q /\ Append(q, m)[i] = q[i] /\ i < Len(q) + 1
           \/ i = Len(q) + 1 /\ Append(q, m)[i] = m
OBVIOUS

(* Steps that put nothing on the wire.                                      *)
LEMMA WireQuiet ==
  ASSUME TypeOK, WireInv, UNCHANGED <<sockets, sess, toCtl>>,
         \A r \in Request : pc[r] # "idle" => pc'[r] # "idle",
         toCli' = toCli \/ toCli' = [toCli EXCEPT ![sockets] = <<>>],
         ~connected' \/ (connected /\ fut' = fut)
  PROVE  WireInv'
<1>0. /\ sockets \in 0 .. MaxSockets
      /\ toCtl \in [0 .. MaxSockets -> Seq(Request)] /\ toCli \in [0 .. MaxSockets -> Seq(Messages)]
  BY DEF TypeOK, WireTypeOK, ConnectionTypeOK
<1>1. \A w \in 0 .. MaxSockets : w > sockets' => toCtl'[w] = <<>> /\ toCli'[w] = <<>>
  BY <1>0 DEF WireInv
<1>2. \A w \in 0 .. MaxSockets : \A i \in DOMAIN toCtl'[w] : MadeOn(toCtl[w][i], w)'
  <2>. SUFFICES ASSUME NEW w \in 0 .. MaxSockets, NEW i \in DOMAIN toCtl[w]
                PROVE  MadeOn(toCtl[w][i], w)'
    OBVIOUS
  <2>1. toCtl[w][i] \in Request /\ MadeOn(toCtl[w][i], w)
    BY <1>0 DEF WireInv
  <2>. QED BY <2>1 DEF MadeOn
<1>3. CASE toCli' = [toCli EXCEPT ![sockets] = <<>>]
  <2>1. toCli'[sockets'] = <<>> BY <1>0, <1>3
  <2>2. connected' => OutboxInv' BY DEF WireInv, OutboxInv, Single, OneWayOn
  <2>3. InboxInv' BY <2>1 DEF InboxInv
  <2>. QED BY <1>1, <1>2, <2>1, <2>2, <2>3 DEF WireInv
<1>4. CASE toCli' = toCli
  <2>1. \A i \in DOMAIN toCli[sockets] : OfItsKind(toCli[sockets][i])'
    <3>. SUFFICES ASSUME NEW i \in DOMAIN toCli[sockets]
                  PROVE  OfItsKind(toCli[sockets][i])'
      OBVIOUS
    <3>1. OfItsKind(toCli[sockets][i]) BY DEF WireInv
    <3>. QED BY <1>4, <3>1 DEF OfItsKind, MadeOn
  <2>2. connected' => OutboxInv' BY DEF WireInv, OutboxInv, Single, OneWayOn
  <2>3. connected' => InboxInv' BY <1>4 DEF WireInv, InboxInv, AnswersSingle, OneWayOn
  <2>. QED BY <1>1, <1>2, <1>4, <2>1, <2>2, <2>3 DEF WireInv
<1>. QED BY <1>3, <1>4

(* A new connection has nothing on it.                                      *)
LEMMA WireOpens ==
  ASSUME TypeOK, WireInv, MayOpen, sockets' = sockets + 1,
         UNCHANGED <<taskVars, wireVars>>
  PROVE  WireInv'
<1>1. sockets' \in 0 .. MaxSockets /\ sockets' > sockets
  BY DEF MayOpen, TypeOK, ConnectionTypeOK
<1>2. toCtl'[sockets'] = <<>> /\ toCli'[sockets'] = <<>>
  BY <1>1 DEF WireInv, wireVars
<1>3. OutboxInv' /\ InboxInv'
  BY <1>2 DEF OutboxInv, InboxInv
<1>4. \A w \in 0 .. MaxSockets : w > sockets' => w > sockets
  BY <1>1 DEF TypeOK, ConnectionTypeOK
<1>5. \A w \in 0 .. MaxSockets : \A i \in DOMAIN toCtl'[w] : MadeOn(toCtl[w][i], w)'
  BY DEF WireInv, MadeOn, taskVars, wireVars
<1>. QED BY <1>2, <1>3, <1>4, <1>5 DEF WireInv, wireVars

(* A call that is made can only lift what was asked of the system calls.    *)
LEMMA WireIssue ==
  ASSUME TypeOK, ConnectionInv, WireInv, CallInv, NEW r \in Request, Issue(r)
  PROVE  WireInv'
<1>0. /\ sockets \in 0 .. MaxSockets
      /\ toCtl \in [0 .. MaxSockets -> Seq(Request)] /\ toCli \in [0 .. MaxSockets -> Seq(Messages)]
      /\ pc \in [Request -> {"idle", "queued", "sending", "waiting", "closing", "done"}]
      /\ sess \in [Request -> 0 .. sockets]
  BY DEF TypeOK, TaskTypeOK, WireTypeOK, ConnectionTypeOK
<1>1. /\ pc[r] = "idle" /\ UNCHANGED <<sockets, connected, ws, fut, toCtl, toCli>>
      /\ \A q \in Request : pc[q] # "idle" => pc'[q] # "idle" /\ sess'[q] = sess[q]
  BY <1>0 DEF Issue, connVars, slotVars, wireVars
<1>2. CASE ~Usable(ws)
  <2>1. sess' = sess BY <1>2 DEF Issue
  <2>. QED BY <1>1, <2>1, WireQuiet DEF WireInv
<1>3. CASE Usable(ws)
  <2>1. connected /\ sockets # 0 /\ sess[r] = 0
    BY <1>1, <1>3 DEF Usable, ConnectionInv, CallInv
  <2>2. OneWayOn(sockets) => OneWayOn(sockets)'
    <3>. SUFFICES ASSUME NEW q \in Request, Kind[q] = "oneway", sess[q] = sockets
                  PROVE  OneWayOn(sockets)'
      BY DEF OneWayOn
    <3>1. q # r BY <2>1
    <3>2. sess'[q] = sess[q] BY <1>0, <1>3, <3>1 DEF Issue
    <3>. QED BY <1>1, <3>2 DEF OneWayOn
  <2>3. \A q \in Request : \A w : MadeOn(q, w) => MadeOn(q, w)'
    BY <1>1 DEF MadeOn
  <2>4. \A m : OfItsKind(m) => OfItsKind(m)'
    BY <1>1, <2>3 DEF OfItsKind
  <2>5. \A q : Single(q)' => Single(q)
    BY <1>1, <2>2 DEF Single
  <2>6. \A m : AnswersSingle(m)' => AnswersSingle(m)
    BY <1>1, <2>2 DEF AnswersSingle
  <2>7. OutboxInv'
    BY <1>1, <2>1, <2>5 DEF WireInv, OutboxInv
  <2>8. InboxInv'
    BY <1>1, <2>1, <2>6 DEF WireInv, InboxInv
  <2>9. \A w \in 0 .. MaxSockets : \A i \in DOMAIN toCtl[w] : MadeOn(toCtl[w][i], w)'
    <3>. SUFFICES ASSUME NEW w \in 0 .. MaxSockets, NEW i \in DOMAIN toCtl[w]
                  PROVE  MadeOn(toCtl[w][i], w)'
      BY <1>1
    <3>1. toCtl[w][i] \in Request /\ MadeOn(toCtl[w][i], w) BY <1>0 DEF WireInv
    <3>2. MadeOn(toCtl[w][i], w)' <=> sess'[toCtl[w][i]] = w /\ pc'[toCtl[w][i]] # "idle"
      BY <1>1 DEF MadeOn
    <3>. QED BY <1>1, <3>1, <3>2 DEF MadeOn
  <2>. QED BY <1>1, <2>4, <2>7, <2>8, <2>9 DEF WireInv
<1>. QED BY <1>2, <1>3

(* A call that is sent finds no other of its sort unanswered.                *)
LEMMA WireBegin ==
  ASSUME TypeOK, ConnectionInv, RequestInv, WireInv, NEW r \in Request, Begin(r)
  PROVE  WireInv'
<1>0. /\ sockets \in 0 .. MaxSockets
      /\ toCtl \in [0 .. MaxSockets -> Seq(Request)] /\ toCli \in [0 .. MaxSockets -> Seq(Messages)]
      /\ pending \in [Slots -> Request \cup {NoRequest}] /\ DOMAIN fut = Request /\ DOMAIN got = Request
      /\ pc \in [Request -> {"idle", "queued", "sending", "waiting", "closing", "done"}]
      /\ sess \in [Request -> 0 .. sockets]
  BY DEF TypeOK, TaskTypeOK, WireTypeOK, ConnectionTypeOK, SlotTypeOK
<1>1. /\ owner = NoRequest
      /\ UNCHANGED <<sockets, connected, ws, sess, toCli>>
      /\ \A q \in Request : pc[q] # "idle" => pc'[q] # "idle"
  BY <1>0 DEF Begin, connVars
<1>2. CASE ~Usable(sess[r])
  BY <1>1, <1>2, WireQuiet DEF Begin, WireInv
<1>3. CASE Usable(sess[r])
  <2>1. /\ connected /\ sess[r] = sockets
        /\ pc' = [pc EXCEPT ![r] = "sending"]
        /\ toCtl' = [toCtl EXCEPT ![sockets] = Append(toCtl[sockets], r)]
        /\ Awaited(r) => fut' = [fut EXCEPT ![r] = "pending"]
        /\ ~Awaited(r) => fut' = fut
    BY <1>3 DEF Begin, Usable, ConnectionInv
  <2>2. \A q \in Request : fut[q] # "pending"
    BY <1>1 DEF RequestInv
  <2>3. sockets \in 0 .. MaxSockets /\ toCtl'[sockets] = Append(toCtl[sockets], r)
    BY <1>0, <2>1
  <2>4. \A i \in DOMAIN toCtl[sockets] :
          toCtl[sockets][i] \in Request /\ ~Single(toCtl[sockets][i])
    BY <1>0, <2>1, <2>2 DEF WireInv, OutboxInv
  <2>5. \A i \in DOMAIN toCli[sockets] : ~AnswersSingle(toCli[sockets][i])
    <3>. SUFFICES ASSUME NEW i \in DOMAIN toCli[sockets], AnswersSingle(toCli[sockets][i])
                  PROVE  FALSE
      OBVIOUS
    <3>1. OfItsKind(toCli[sockets][i]) /\ fut[toCli[sockets][i].of] = "pending"
      BY <2>1 DEF WireInv, InboxInv
    <3>. QED BY <2>2, <3>1 DEF OfItsKind, AnswersSingle
  <2>6. Single(r) => Awaited(r)
    BY DEF Single, Awaited
  <2>7. OneWayOn(sockets)' = OneWayOn(sockets)
    BY <1>1 DEF OneWayOn
  <2>8. \A q : Single(q)' = Single(q)
    BY <1>1, <2>7 DEF Single
  <2>9. \A m : AnswersSingle(m)' = AnswersSingle(m)
    BY <1>1, <2>7 DEF AnswersSingle
  <2>10. \A i \in DOMAIN toCtl'[sockets] :
           \/ i \in DOMAIN toCtl[sockets] /\ toCtl'[sockets][i] = toCtl[sockets][i]
           \/ i = Len(toCtl[sockets]) + 1 /\ toCtl'[sockets][i] = r
    BY <2>3, AppendAt
  <2>11. OutboxInv'
    <3>1. \A i \in DOMAIN toCtl'[sockets] : Single(toCtl'[sockets][i]) =>
            i = Len(toCtl[sockets]) + 1 /\ toCtl'[sockets][i] = r
      BY <2>4, <2>10
    <3>2. Single(r) => fut'[r] = "pending"
      BY <1>0, <2>1, <2>6
    <3>. QED BY <1>1, <2>8, <3>1, <3>2 DEF OutboxInv
  <2>12. InboxInv'
    BY <1>1, <2>5, <2>9 DEF InboxInv
  <2>13. \A q \in Request : \A w : MadeOn(q, w) => MadeOn(q, w)'
    BY <1>1 DEF MadeOn
  <2>14. \A m : OfItsKind(m) => OfItsKind(m)'
    BY <1>1, <2>13 DEF OfItsKind
  <2>15. MadeOn(r, sockets)'
    BY <1>0, <1>1, <2>1 DEF MadeOn
  <2>16. \A w \in 0 .. MaxSockets : \A i \in DOMAIN toCtl'[w] : MadeOn(toCtl[w][i], w)'
    <3>. SUFFICES ASSUME NEW w \in 0 .. MaxSockets, NEW i \in DOMAIN toCtl'[w]
                  PROVE  MadeOn(toCtl[w][i], w)'
      OBVIOUS
    <3>1. CASE w # sockets
      <4>1. toCtl'[w] = toCtl[w] BY <2>1, <3>1
      <4>2. toCtl[w][i] \in Request /\ MadeOn(toCtl[w][i], w) BY <1>0, <4>1 DEF WireInv
      <4>. QED BY <2>13, <4>1, <4>2
    <3>2. CASE w = sockets
      <4>1. CASE i \in DOMAIN toCtl[sockets] /\ toCtl'[sockets][i] = toCtl[sockets][i]
        <5>1. toCtl[sockets][i] \in Request /\ MadeOn(toCtl[sockets][i], sockets)
          BY <1>0, <3>2, <4>1 DEF WireInv
        <5>2. MadeOn(toCtl[w][i], w)' <=>
                sess'[toCtl'[w][i]] = w /\ pc'[toCtl'[w][i]] # "idle"
          BY DEF MadeOn
        <5>. QED BY <1>1, <3>2, <4>1, <5>1, <5>2 DEF MadeOn
      <4>2. CASE toCtl'[sockets][i] = r
        BY <1>1, <2>15, <3>2, <4>2 DEF MadeOn
      <4>. QED BY <2>10, <3>2, <4>1, <4>2
    <3>. QED BY <3>1, <3>2
  <2>17. \A w \in 0 .. MaxSockets : w > sockets => toCtl'[w] = toCtl[w]
    BY <2>1
  <2>. QED BY <1>1, <2>11, <2>12, <2>14, <2>16, <2>17 DEF WireInv
<1>. QED BY <1>2, <1>3

(* An inbox that grows by a message of its kind, whose call is not to be     *)
(* answered again.                                                         *)
LEMMA WireGrows ==
  ASSUME TypeOK, WireInv, UNCHANGED <<sockets, connected, sess, pc, fut>>,
         NEW m \in Messages, toCli' = [toCli EXCEPT ![sockets] = Append(@, m)],
         OfItsKind(m),
         \A w \in 0 .. MaxSockets :
           toCtl'[w] = toCtl[w] \/ (toCtl[w] # <<>> /\ toCtl'[w] = Tail(toCtl[w])),
         connected /\ AnswersSingle(m) =>
           /\ fut[m.of] = "pending"
           /\ \A i \in DOMAIN toCtl'[sockets] : toCtl'[sockets][i] # m.of
           /\ \A i \in DOMAIN toCli[sockets] : ~AnswersSingle(toCli[sockets][i])
  PROVE  WireInv'
<1>0. /\ sockets \in 0 .. MaxSockets
      /\ toCtl \in [0 .. MaxSockets -> Seq(Request)] /\ toCli \in [0 .. MaxSockets -> Seq(Messages)]
      /\ pc \in [Request -> {"idle", "queued", "sending", "waiting", "closing", "done"}]
      /\ sess \in [Request -> 0 .. sockets]
  BY DEF TypeOK, TaskTypeOK, WireTypeOK, ConnectionTypeOK
<1>1. /\ \A q : Single(q)' = Single(q)
      /\ \A n : AnswersSingle(n)' = AnswersSingle(n)
      /\ \A q, w : MadeOn(q, w)' = MadeOn(q, w)
  BY DEF Single, AnswersSingle, OneWayOn, MadeOn
<1>2. \A n : OfItsKind(n)' = OfItsKind(n)
  BY <1>1 DEF OfItsKind
<1>3. toCli'[sockets] = Append(toCli[sockets], m) /\ toCli[sockets] \in Seq(Messages)
  BY <1>0
<1>4. \A i \in DOMAIN toCli'[sockets] :
        \/ i \in DOMAIN toCli[sockets] /\ toCli'[sockets][i] = toCli[sockets][i]
        \/ i = Len(toCli[sockets]) + 1 /\ toCli'[sockets][i] = m
  BY <1>3, AppendAt
<1>5. ASSUME NEW w \in 0 .. MaxSockets
      PROVE  /\ \A i \in DOMAIN toCtl'[w] : \E j \in DOMAIN toCtl[w] : toCtl'[w][i] = toCtl[w][j]
             /\ \A i, j \in DOMAIN toCtl'[w] : i # j =>
                  \E k, l \in DOMAIN toCtl[w] :
                    k # l /\ toCtl'[w][i] = toCtl[w][k] /\ toCtl'[w][j] = toCtl[w][l]
  <2>1. CASE toCtl'[w] = toCtl[w] BY <2>1
  <2>2. CASE toCtl[w] # <<>> /\ toCtl'[w] = Tail(toCtl[w])
    <3>1. toCtl[w] \in Seq(Request) BY <1>0
    <3>2. \A i \in DOMAIN toCtl'[w] :
            i \in Nat /\ i + 1 \in DOMAIN toCtl[w] /\ toCtl'[w][i] = toCtl[w][i + 1]
      BY <2>2, <3>1, TailAt
    <3>3. \A i, j \in DOMAIN toCtl'[w] : i # j => i + 1 # j + 1
      BY <3>2
    <3>. QED BY <3>2, <3>3
  <2>. QED BY <2>1, <2>2
<1>6. sockets \in 0 .. MaxSockets BY <1>0
<1>7. connected => OutboxInv'
  <2>. SUFFICES ASSUME connected PROVE OutboxInv' OBVIOUS
  <2>1. OutboxInv BY DEF WireInv
  <2>. QED BY <1>1, <1>5, <1>6, <2>1 DEF OutboxInv
<1>8. connected => InboxInv'
  <2>. SUFFICES ASSUME connected PROVE InboxInv' OBVIOUS
  <2>1. InboxInv BY DEF WireInv
  <2>2. \A i \in DOMAIN toCli'[sockets] : AnswersSingle(toCli'[sockets][i]) =>
          fut[toCli'[sockets][i].of] = "pending"
    BY <1>4, <2>1 DEF InboxInv
  <2>3. \A i \in DOMAIN toCli'[sockets] : AnswersSingle(toCli'[sockets][i]) =>
          \A j \in DOMAIN toCtl'[sockets] : toCtl'[sockets][j] # toCli'[sockets][i].of
    BY <1>4, <1>5, <1>6, <2>1 DEF InboxInv
  <2>4. \A i, j \in DOMAIN toCli'[sockets] :
          AnswersSingle(toCli'[sockets][i]) /\ AnswersSingle(toCli'[sockets][j]) => i = j
    BY <1>4, <2>1 DEF InboxInv
  <2>5. \A i \in DOMAIN toCli'[sockets] :
          AnswersSingle(toCli[sockets][i])' <=> AnswersSingle(toCli'[sockets][i])
    BY DEF AnswersSingle, OneWayOn
  <2>6. \A i \in DOMAIN toCli'[sockets] : AnswersSingle(toCli[sockets][i])' =>
          /\ fut'[toCli'[sockets][i].of] = "pending"
          /\ \A j \in DOMAIN toCtl'[sockets] : toCtl'[sockets][j] # toCli'[sockets][i].of
    BY <2>2, <2>3, <2>5
  <2>7. \A i, j \in DOMAIN toCli'[sockets] :
          AnswersSingle(toCli[sockets][i])' /\ AnswersSingle(toCli[sockets][j])' => i = j
    BY <2>4, <2>5
  <2>. QED BY <2>6, <2>7 DEF InboxInv
<1>9. \A w \in 0 .. MaxSockets : \A i \in DOMAIN toCtl'[w] : MadeOn(toCtl[w][i], w)'
  <2>. SUFFICES ASSUME NEW w \in 0 .. MaxSockets, NEW i \in DOMAIN toCtl'[w]
                PROVE  sess[toCtl'[w][i]] = w /\ pc[toCtl'[w][i]] # "idle"
    BY DEF MadeOn
  <2>1. PICK j \in DOMAIN toCtl[w] : toCtl'[w][i] = toCtl[w][j] BY <1>5
  <2>2. MadeOn(toCtl[w][j], w) BY DEF WireInv
  <2>. QED BY <2>1, <2>2 DEF MadeOn
<1>10. \A i \in DOMAIN toCli'[sockets] : OfItsKind(toCli'[sockets][i])
  <2>. SUFFICES ASSUME NEW i \in DOMAIN toCli'[sockets] PROVE OfItsKind(toCli'[sockets][i])
    OBVIOUS
  <2>1. \A j \in DOMAIN toCli[sockets] : OfItsKind(toCli[sockets][j]) BY DEF WireInv
  <2>2. CASE i \in DOMAIN toCli[sockets] /\ toCli'[sockets][i] = toCli[sockets][i]
    BY <2>1, <2>2
  <2>3. CASE toCli'[sockets][i] = m
    BY <2>3
  <2>. QED BY <1>4, <2>2, <2>3
<1>11. \A w \in 0 .. MaxSockets : w > sockets => toCtl'[w] = <<>> /\ toCli'[w] = <<>>
  <2>. SUFFICES ASSUME NEW w \in 0 .. MaxSockets, w > sockets
                PROVE  toCtl'[w] = <<>> /\ toCli'[w] = <<>>
    OBVIOUS
  <2>1. toCtl[w] = <<>> /\ toCli[w] = <<>> BY DEF WireInv
  <2>2. w # sockets OBVIOUS
  <2>. QED BY <2>1, <2>2
<1>12. \A i \in DOMAIN toCli'[sockets'] : OfItsKind(toCli[sockets][i])'
  <2>. SUFFICES ASSUME NEW i \in DOMAIN toCli'[sockets] PROVE OfItsKind(toCli[sockets][i])'
    OBVIOUS
  <2>1. OfItsKind(toCli'[sockets][i]) BY <1>10
  <2>. QED BY <2>1 DEF OfItsKind, MadeOn
<1>. QED BY <1>7, <1>8, <1>9, <1>11, <1>12 DEF WireInv

(* Which answers answer which calls.                                        *)
LEMMA AnswersAre ==
  ASSUME NEW r \in Request, NEW m \in Answers(r)
  PROVE  /\ m.of = r
         /\ m.kind \in {"cmdres", "state", "ids", "scmdres"}
         /\ m.kind = "cmdres" => Kind[r] \in {"command", "named"} /\ m.after = accepted \cup {r}
         /\ m.kind = "state" => Kind[r] = "state" /\ m.after = accepted
         /\ m.kind = "ids" => Kind[r] = "ids"
         /\ m.kind = "scmdres" => Kind[r] \in {"system", "oneway"}
<1>1. Kind[r] \in Kinds OBVIOUS
<1>2. CASE Kind[r] \in {"command", "named"}
  <2>1. m = [State(Target[r], r) EXCEPT !.kind = "cmdres", !.after = @ \cup {r}]
    BY <1>2, Zenon DEF Answers
  <2>. QED BY <1>2, <2>1 DEF State
<1>3. CASE Kind[r] = "state"
  <2>1. m = State(Target[r], r) BY <1>3 DEF Answers
  <2>. QED BY <1>3, <2>1 DEF State
<1>4. CASE Kind[r] = "ids"
  <2>1. \E b \in BOOLEAN : m = Uncorrelated("ids", r, b) BY <1>4 DEF Answers
  <2>. QED BY <1>4, <2>1 DEF Uncorrelated
<1>5. CASE Kind[r] \in {"system", "oneway"}
  <2>1. \E b \in BOOLEAN : m = Uncorrelated("scmdres", r, b) BY <1>5 DEF Answers
  <2>. QED BY <1>5, <2>1 DEF Uncorrelated
<1>. QED BY <1>1, <1>2, <1>3, <1>4, <1>5 DEF Kinds

(* The controller takes a call off the wire, and may answer it once.         *)
LEMMA WireServe ==
  ASSUME TypeOK, RequestInv, WireInv, NEW w \in 1 .. MaxSockets, Serve(w)
  PROVE  WireInv'
<1>0. /\ sockets \in 0 .. MaxSockets
      /\ toCtl \in [0 .. MaxSockets -> Seq(Request)] /\ toCli \in [0 .. MaxSockets -> Seq(Messages)]
      /\ pc \in [Request -> {"idle", "queued", "sending", "waiting", "closing", "done"}]
      /\ sess \in [Request -> 0 .. sockets]
  BY DEF TypeOK, TaskTypeOK, WireTypeOK, ConnectionTypeOK
<1> DEFINE r == Head(toCtl[w])
<1>1. /\ toCtl[w] # <<>> /\ toCtl' = [toCtl EXCEPT ![w] = Tail(toCtl[w])]
      /\ UNCHANGED <<sockets, connected, sess, pc, fut>>
  BY DEF Serve, connVars, taskVars, slotVars
<1>2. toCtl[w] \in Seq(Request) BY <1>0
<1>3. /\ 1 \in DOMAIN toCtl[w] /\ r = toCtl[w][1] /\ r \in Request
      /\ \A i \in DOMAIN Tail(toCtl[w]) :
           i + 1 \in DOMAIN toCtl[w] /\ i + 1 # 1 /\ Tail(toCtl[w])[i] = toCtl[w][i + 1]
  BY <1>1, <1>2, TailAt
<1>4. \A v \in 0 .. MaxSockets :
        toCtl'[v] = toCtl[v] \/ (toCtl[v] # <<>> /\ toCtl'[v] = Tail(toCtl[v]))
  BY <1>1
<1>5. CASE toCli' = toCli
  <2>1. /\ \A q : Single(q)' = Single(q)
        /\ \A n : AnswersSingle(n)' = AnswersSingle(n)
    BY <1>1 DEF Single, AnswersSingle, OneWayOn
  <2>2. \A v \in 0 .. MaxSockets : \A i \in DOMAIN toCtl'[v] :
          (i \in DOMAIN toCtl[v] /\ toCtl'[v][i] = toCtl[v][i])
            \/ (i \in Nat /\ i + 1 \in DOMAIN toCtl[v] /\ toCtl'[v][i] = toCtl[v][i + 1] /\ v = w)
    BY <1>1, <1>2, TailAt
  <2>3. connected => OutboxInv'
    <3>. SUFFICES ASSUME connected PROVE OutboxInv' OBVIOUS
    <3>1. OutboxInv BY DEF WireInv
    <3>2. CASE w = sockets
      <4>1. \A i \in DOMAIN toCtl'[sockets] :
              i \in Nat /\ i + 1 \in DOMAIN toCtl[sockets]
                /\ toCtl'[sockets][i] = toCtl[sockets][i + 1]
        BY <1>0, <1>1, <1>2, <3>2, TailAt
      <4>2. \A i, j \in DOMAIN toCtl'[sockets] :
              Single(toCtl'[sockets][i]) /\ Single(toCtl'[sockets][j]) => i + 1 = j + 1
        BY <3>1, <4>1 DEF OutboxInv
      <4>3. \A i, j \in DOMAIN toCtl'[sockets] : i + 1 = j + 1 => i = j
        BY <4>1
      <4>4. \A i \in DOMAIN toCtl'[sockets] :
              Single(toCtl'[sockets][i]) => fut[toCtl'[sockets][i]] = "pending"
        BY <3>1, <4>1 DEF OutboxInv
      <4>. QED BY <1>1, <2>1, <4>2, <4>3, <4>4 DEF OutboxInv
    <3>3. CASE w # sockets
      <4>1. toCtl'[sockets] = toCtl[sockets] BY <1>1, <3>3
      <4>. QED BY <1>1, <2>1, <3>1, <4>1 DEF OutboxInv
    <3>. QED BY <3>2, <3>3
  <2>4. connected => InboxInv'
    <3>. SUFFICES ASSUME connected PROVE InboxInv' OBVIOUS
    <3>1. InboxInv BY DEF WireInv
    <3>2. \A i \in DOMAIN toCtl'[sockets] :
            \E j \in DOMAIN toCtl[sockets] : toCtl'[sockets][i] = toCtl[sockets][j]
      BY <1>0, <2>2
    <3>3. \A i \in DOMAIN toCli[sockets] : AnswersSingle(toCli[sockets][i]) =>
            /\ fut[toCli[sockets][i].of] = "pending"
            /\ \A j \in DOMAIN toCtl'[sockets] : toCtl'[sockets][j] # toCli[sockets][i].of
      BY <3>1, <3>2 DEF InboxInv
    <3>4. \A i, j \in DOMAIN toCli[sockets] :
            AnswersSingle(toCli[sockets][i]) /\ AnswersSingle(toCli[sockets][j]) => i = j
      BY <3>1 DEF InboxInv
    <3>. QED BY <1>1, <1>5, <2>1, <3>3, <3>4 DEF InboxInv
  <2>5. \A v \in 0 .. MaxSockets : \A i \in DOMAIN toCtl'[v] : MadeOn(toCtl[v][i], v)'
    <3>. SUFFICES ASSUME NEW v \in 0 .. MaxSockets, NEW i \in DOMAIN toCtl'[v]
                  PROVE  sess[toCtl'[v][i]] = v /\ pc[toCtl'[v][i]] # "idle"
      BY <1>1 DEF MadeOn
    <3>1. PICK j \in DOMAIN toCtl[v] : toCtl'[v][i] = toCtl[v][j] BY <2>2
    <3>2. MadeOn(toCtl[v][j], v) BY DEF WireInv
    <3>. QED BY <3>1, <3>2 DEF MadeOn
  <2>6. \A v \in 0 .. MaxSockets : v > sockets => toCtl'[v] = <<>> /\ toCli'[v] = <<>>
    BY <1>1, <1>5 DEF WireInv
  <2>7. \A i \in DOMAIN toCli[sockets] : OfItsKind(toCli[sockets][i])'
    <3>. SUFFICES ASSUME NEW i \in DOMAIN toCli[sockets] PROVE OfItsKind(toCli[sockets][i])'
      OBVIOUS
    <3>1. OfItsKind(toCli[sockets][i]) BY DEF WireInv
    <3>. QED BY <1>1, <1>5, <3>1 DEF OfItsKind, MadeOn
  <2>. QED BY <1>1, <1>5, <2>3, <2>4, <2>5, <2>6, <2>7 DEF WireInv
<1>6. CASE toCli' # toCli
  <2>1. PICK m \in Answers(r) : toCli' = [toCli EXCEPT ![w] = Append(@, m)] /\ w = sockets
    BY <1>6 DEF Serve, Delivers
  <2>2. m \in Messages BY <1>0, <1>3, AnswersType DEF TypeOK, WireTypeOK
  <2>3. /\ m.of = r
        /\ m.kind = "cmdres" => Kind[r] \in Commands
        /\ m.kind = "ids" => Kind[r] = "ids"
        /\ m.kind = "scmdres" => Kind[r] \in {"system", "oneway"}
    BY <1>3, AnswersAre DEF Commands
  <2>4. MadeOn(r, sockets) BY <1>3, <2>1 DEF WireInv
  <2>5. OfItsKind(m) BY <1>3, <2>3, <2>4 DEF OfItsKind
  <2>6. ASSUME connected, AnswersSingle(m)
        PROVE  /\ fut[m.of] = "pending"
               /\ \A i \in DOMAIN toCtl'[sockets] : toCtl'[sockets][i] # m.of
               /\ \A i \in DOMAIN toCli[sockets] : ~AnswersSingle(toCli[sockets][i])
    <3>1. OutboxInv /\ InboxInv BY <2>6 DEF WireInv
    <3>2. Single(r)
      BY <1>3, <2>3, <2>4, <2>6 DEF AnswersSingle, Single, OneWayOn, MadeOn, Commands
    <3>3. fut[r] = "pending" BY <1>3, <2>1, <3>1, <3>2 DEF OutboxInv
    <3>4. \A i \in DOMAIN toCtl'[sockets] : toCtl'[sockets][i] # r
      <4>1. \A i \in DOMAIN toCtl'[sockets] :
              i + 1 \in DOMAIN toCtl[sockets] /\ i + 1 # 1
                /\ toCtl'[sockets][i] = toCtl[sockets][i + 1]
        BY <1>0, <1>1, <1>3, <2>1
      <4>. QED BY <1>3, <2>1, <3>1, <3>2, <4>1 DEF OutboxInv
    <3>5. \A i \in DOMAIN toCli[sockets] : ~AnswersSingle(toCli[sockets][i])
      <4>. SUFFICES ASSUME NEW i \in DOMAIN toCli[sockets], AnswersSingle(toCli[sockets][i])
                    PROVE  FALSE
        OBVIOUS
      <4>1. /\ fut[toCli[sockets][i].of] = "pending"
            /\ toCtl[sockets][1] # toCli[sockets][i].of
        BY <1>3, <2>1, <3>1 DEF InboxInv
      <4>2. toCli[sockets][i].of \in Request
        BY DEF WireInv, OfItsKind, AnswersSingle
      <4>3. owner = r /\ owner = toCli[sockets][i].of
        BY <1>3, <3>3, <4>1, <4>2 DEF RequestInv
      <4>. QED BY <1>3, <2>1, <4>1, <4>3
    <3>. QED BY <2>3, <3>3, <3>4, <3>5
  <2>. QED BY <1>1, <1>4, <2>1, <2>2, <2>5, <2>6, WireGrows
<1>. QED BY <1>5, <1>6

(* Who takes the head of the inbox: the waiting call it answers.             *)
LEMMA Taken ==
  ASSUME TypeOK, ConnectionInv, RequestInv, WireInv, Receive,
         NEW m, m = Head(toCli[sockets]), NEW r, r = pending[MatchingSlot(m)], r # NoRequest
  PROVE  /\ r \in Request /\ owner = r /\ pc[r] \in {"sending", "waiting"} /\ Awaited(r)
         /\ fut[r] = "pending"
         /\ connected /\ sess[r] = sockets
         /\ Kind[r] \in {"command", "named", "ids"} => m.of = r /\ AnswersSingle(m)
         /\ Kind[r] = "system" => m.kind = "scmdres" /\ (OneWayOn(sockets) \/ m.of = r)
         /\ Kind[r] = "state" => m.kind = "state" /\ m.obj = Target[r]
         /\ m.kind = "cmdres" => Kind[r] \in Commands
<1>0. /\ sockets \in 0 .. MaxSockets
      /\ toCtl \in [0 .. MaxSockets -> Seq(Request)] /\ toCli \in [0 .. MaxSockets -> Seq(Messages)]
      /\ pending \in [Slots -> Request \cup {NoRequest}] /\ DOMAIN fut = Request /\ DOMAIN got = Request
  BY DEF TypeOK, SlotTypeOK, WireTypeOK, ConnectionTypeOK
<1>1. /\ toCli[sockets] \in Seq(Messages) /\ toCli[sockets] # <<>>
      /\ m.kind \notin {"lost", "binary"}
  BY <1>0 DEF Receive
<1>2. m \in Messages /\ m = toCli[sockets][1] /\ 1 \in DOMAIN toCli[sockets]
  BY <1>1, TailAt
<1>3. MatchingSlot(m) \in Slots
  BY <1>1, <1>2 DEF MatchingSlot, Slots, Messages
<1>4. /\ r \in Request /\ owner = r /\ MatchingSlot(m) = Slot(r)
      /\ pc[r] \in {"sending", "waiting"} /\ fut[r] = "pending"
  BY <1>0, <1>3 DEF RequestInv, OneRegistered
<1>5. connected /\ sess[r] = sockets /\ Awaited(r)
  BY <1>4 DEF RequestInv, NoOrphanedWaiter, ConnectionInv
<1>6. OfItsKind(m) /\ (AnswersSingle(m) => fut[m.of] = "pending")
  BY <1>2, <1>5 DEF WireInv, InboxInv
<1>7. m.of \in Request /\ fut[m.of] = "pending" => m.of = r
  BY <1>4 DEF RequestInv
<1>8. m.kind = "cmdres" => Kind[r] \in Commands /\ m.of = r /\ AnswersSingle(m)
  <2>. SUFFICES ASSUME m.kind = "cmdres"
                PROVE  Kind[r] \in Commands /\ m.of = r /\ AnswersSingle(m)
    OBVIOUS
  <2>1. AnswersSingle(m) /\ m.of \in Request BY <1>6 DEF AnswersSingle, OfItsKind
  <2>2. Kind[r] \in Commands BY <1>4, ZenonT(60) DEF MatchingSlot, Slot, Commands
  <2>. QED BY <1>6, <1>7, <2>1, <2>2
<1>9. m.kind = "ids" => Kind[r] = "ids" /\ m.of = r /\ AnswersSingle(m)
  <2>. SUFFICES ASSUME m.kind = "ids"
                PROVE  Kind[r] = "ids" /\ m.of = r /\ AnswersSingle(m)
    OBVIOUS
  <2>1. AnswersSingle(m) /\ m.of \in Request BY <1>6, SMTT(40) DEF AnswersSingle, OfItsKind
  <2>2. Kind[r] = "ids" BY <1>4 DEF MatchingSlot, Slot
  <2>. QED BY <1>6, <1>7, <2>1, <2>2
<1>10. m.kind = "scmdres" => Kind[r] = "system" /\ (OneWayOn(sockets) \/ m.of = r)
  <2>. SUFFICES ASSUME m.kind = "scmdres"
                PROVE  Kind[r] = "system" /\ (OneWayOn(sockets) \/ m.of = r)
    OBVIOUS
  <2>1. m.of \in Request /\ (OneWayOn(sockets) \/ AnswersSingle(m))
    BY <1>6 DEF AnswersSingle, OfItsKind
  <2>2. Kind[r] = "system" BY <1>4, ZenonT(60) DEF MatchingSlot, Slot
  <2>. QED BY <1>6, <1>7, <2>1, <2>2
<1>11. m.kind = "state" => Kind[r] = "state" /\ m.obj = Target[r]
  BY <1>4, ZenonT(60) DEF MatchingSlot, Slot
<1>12. m.kind \in {"cmdres", "ids", "scmdres", "state"}
  BY <1>1, <1>2 DEF Messages
<1>. QED BY <1>4, <1>5, <1>8, <1>9, <1>10, <1>11, <1>12 DEF Commands

(* What is received leaves no other answer to the call that took it.         *)
LEMMA WireReceive ==
  ASSUME TypeOK, ConnectionInv, RequestInv, WireInv, Receive
  PROVE  WireInv'
<1>0. /\ sockets \in 0 .. MaxSockets
      /\ toCtl \in [0 .. MaxSockets -> Seq(Request)] /\ toCli \in [0 .. MaxSockets -> Seq(Messages)]
      /\ pending \in [Slots -> Request \cup {NoRequest}] /\ DOMAIN fut = Request /\ DOMAIN got = Request
      /\ pc \in [Request -> {"idle", "queued", "sending", "waiting", "closing", "done"}]
      /\ sess \in [Request -> 0 .. sockets]
  BY DEF TypeOK, SlotTypeOK, TaskTypeOK, WireTypeOK, ConnectionTypeOK
<1> DEFINE m == Head(toCli[sockets])
           r == pending[MatchingSlot(m)]
<1>1. /\ toCli[sockets] \in Seq(Messages) /\ toCli[sockets] # <<>>
      /\ toCli' = [toCli EXCEPT ![sockets] = Tail(toCli[sockets])]
      /\ UNCHANGED <<sockets, connected, sess, pc, toCtl>>
  BY <1>0 DEF Receive, connVars, taskVars
<1>2. /\ 1 \in DOMAIN toCli[sockets] /\ m = toCli[sockets][1]
      /\ toCli'[sockets] = Tail(toCli[sockets])
      /\ \A i \in DOMAIN toCli'[sockets] :
           /\ i \in Nat /\ i + 1 \in DOMAIN toCli[sockets] /\ i + 1 # 1
           /\ toCli'[sockets][i] = toCli[sockets][i + 1]
  BY <1>0, <1>1, TailAt
<1>3. /\ \A q : Single(q)' = Single(q)
      /\ \A n : AnswersSingle(n)' = AnswersSingle(n)
  BY <1>1 DEF Single, AnswersSingle, OneWayOn
<1>4. \A i \in DOMAIN toCli'[sockets'] : OfItsKind(toCli[sockets][i])'
  <2>. SUFFICES ASSUME NEW i \in DOMAIN toCli'[sockets'] PROVE OfItsKind(toCli[sockets][i])'
    OBVIOUS
  <2>1. OfItsKind(toCli[sockets][i + 1]) /\ toCli'[sockets][i] = toCli[sockets][i + 1]
    BY <1>1, <1>2 DEF WireInv
  <2>. QED BY <1>1, <2>1 DEF OfItsKind, MadeOn
<1>5. \A w \in 0 .. MaxSockets : \A i \in DOMAIN toCtl'[w] : MadeOn(toCtl[w][i], w)'
  BY <1>1 DEF WireInv, MadeOn
<1>6. \A w \in 0 .. MaxSockets : w > sockets => toCtl'[w] = <<>> /\ toCli'[w] = <<>>
  <2>. SUFFICES ASSUME NEW w \in 0 .. MaxSockets, w > sockets
                PROVE  toCtl'[w] = <<>> /\ toCli'[w] = <<>>
    OBVIOUS
  <2>1. toCtl[w] = <<>> /\ toCli[w] = <<>> BY DEF WireInv
  <2>2. w # sockets OBVIOUS
  <2>. QED BY <1>1, <2>1, <2>2
<1>7. connected => \A i, j \in DOMAIN toCli'[sockets] :
        AnswersSingle(toCli'[sockets][i]) /\ AnswersSingle(toCli'[sockets][j]) => i = j
  <2>. SUFFICES ASSUME connected, NEW i \in DOMAIN toCli'[sockets],
                       NEW j \in DOMAIN toCli'[sockets],
                       AnswersSingle(toCli'[sockets][i]), AnswersSingle(toCli'[sockets][j])
                PROVE  i = j
    OBVIOUS
  <2>1. i + 1 = j + 1 BY <1>2 DEF WireInv, InboxInv
  <2>. QED BY <1>2, <2>1
<1>8. CASE r = NoRequest
  <2>1. fut' = fut BY <1>8 DEF Receive, Resolve, slotVars
  <2>2. connected => OutboxInv' BY <1>1, <1>3, <2>1 DEF WireInv, OutboxInv
  <2>3. connected => \A i \in DOMAIN toCli'[sockets] : AnswersSingle(toCli'[sockets][i]) =>
          /\ fut[toCli'[sockets][i].of] = "pending"
          /\ \A j \in DOMAIN toCtl[sockets] : toCtl[sockets][j] # toCli'[sockets][i].of
    BY <1>2 DEF WireInv, InboxInv
  <2>4. connected => InboxInv' BY <1>1, <1>3, <1>7, <2>1, <2>3 DEF InboxInv
  <2>. QED BY <1>1, <1>4, <1>5, <1>6, <2>2, <2>4 DEF WireInv
<1>9. CASE r # NoRequest
  <2>1. /\ r \in Request /\ owner = r /\ connected
        /\ Kind[r] \in {"command", "named", "ids"} => m.of = r /\ AnswersSingle(m)
        /\ Kind[r] = "system" => m.kind = "scmdres" /\ (OneWayOn(sockets) \/ m.of = r)
    BY <1>9, Taken
  <2>2. Single(r) => m.of = r /\ AnswersSingle(m)
    BY <2>1 DEF Single, AnswersSingle
  <2>3. OutboxInv /\ InboxInv BY <2>1 DEF WireInv
  <2>4. \A q \in Request : fut[q] = "pending" => q = r
    BY <2>1 DEF RequestInv
  <2>5. \A i \in DOMAIN toCtl[sockets] : ~Single(toCtl[sockets][i])
    <3>. SUFFICES ASSUME NEW i \in DOMAIN toCtl[sockets], Single(toCtl[sockets][i])
                  PROVE  FALSE
      OBVIOUS
    <3>1. toCtl[sockets][i] = r BY <1>0, <2>3, <2>4 DEF OutboxInv
    <3>2. m.of = r /\ AnswersSingle(m) BY <2>2, <3>1
    <3>. QED BY <1>2, <2>3, <3>1, <3>2 DEF InboxInv
  <2>6. \A i \in DOMAIN toCli'[sockets] : ~AnswersSingle(toCli'[sockets][i])
    <3>. SUFFICES ASSUME NEW i \in DOMAIN toCli'[sockets], AnswersSingle(toCli'[sockets][i])
                  PROVE  FALSE
      OBVIOUS
    <3> DEFINE n == toCli[sockets][i + 1]
    <3>1. i + 1 \in DOMAIN toCli[sockets] /\ i + 1 # 1 /\ AnswersSingle(n)
      BY <1>2
    <3>2. fut[n.of] = "pending" /\ OfItsKind(n)
      BY <2>3, <3>1 DEF InboxInv, WireInv
    <3>3. n.of \in Request BY <3>1, <3>2 DEF OfItsKind, AnswersSingle
    <3>4. n.of = r BY <2>4, <3>2, <3>3
    <3>5. Single(r)
      BY <3>1, <3>2, <3>4 DEF Single, OfItsKind, AnswersSingle, OneWayOn, MadeOn, Commands
    <3>. QED BY <1>2, <2>2, <2>3, <3>1, <3>5 DEF InboxInv
  <2>7. OutboxInv' BY <1>1, <1>3, <2>5 DEF OutboxInv
  <2>8. InboxInv' BY <1>1, <1>3, <2>6 DEF InboxInv
  <2>. QED BY <1>1, <1>4, <1>5, <1>6, <2>7, <2>8 DEF WireInv
<1>. QED BY <1>8, <1>9

(* Every step of the client keeps the invariant of the wire.                 *)
LEMMA WireStep ==
  ASSUME TypeOK, ConnectionInv, RequestInv, CallInv, WireInv, [Next]_vars
  PROVE  WireInv'
<1>1. ASSUME UNCHANGED <<sockets, taskVars, toCtl>>,
             toCli' = toCli \/ toCli' = [toCli EXCEPT ![sockets] = <<>>],
             ~connected' \/ UNCHANGED <<connected, fut>>
      PROVE  WireInv'
  <2>1. ~connected' \/ (connected /\ fut' = fut)
    BY <1>1 DEF TypeOK, ConnectionTypeOK
  <2>. QED BY <1>1, <2>1, WireQuiet DEF taskVars
<1>2. CASE OpenSucceeds \/ OpenTooLate
  BY <1>2, WireOpens DEF OpenSucceeds, OpenTooLate
<1>3. ReleaseSupervisor \/ ReleaseConnection => ~connected'
  BY DEF ReleaseSupervisor, ReleaseConnection, SetConnected
<1>4. CASE SupervisorStep \/ CancelSupervisor \/ Stop \/ StopEnds
  BY <1>1, <1>2, <1>3, <1>4 DEF SupervisorStep, Supervise, DiscardEnds, OpenFails,
     OpenRejected, StableWindowEnds, RunEnds, DelayEnds, ReaderCancelled, JoinEnds,
     SupervisorEnds, CancelSupervisor, Stop, StopEnds, ReleaseConnection, SetConnected,
     connVars, slotVars, wireVars
<1>5. CASE ReaderStep
  BY <1>1, <1>3, <1>5, WireReceive DEF ReaderStep, ReaderStarts, ConnectionEnds,
     ConnectionClosed, ReleaseConnection, connVars, slotVars, wireVars
<1>6. ASSUME NEW r \in Request, RequestStep(r) \/ CallerStep(r) PROVE WireInv'
  <2>1. ASSUME UNCHANGED <<sockets, sess, toCtl, toCli>>,
               pc' \in {[pc EXCEPT ![r] = p] : p \in {"waiting", "closing", "done"}},
               ~connected' \/ UNCHANGED <<connected, fut>>
        PROVE  WireInv'
    <3>1. ~connected' \/ (connected /\ fut' = fut)
      BY <2>1 DEF TypeOK, ConnectionTypeOK
    <3>2. \A q \in Request : pc[q] # "idle" => pc'[q] # "idle"
      BY <2>1 DEF TypeOK, TaskTypeOK
    <3>. QED BY <2>1, <3>1, <3>2, WireQuiet
  <2>2. ASSUME NEW how, Return(r, how), fut[r] # "pending" PROVE fut' = fut
    BY <2>2 DEF Return, TypeOK, SlotTypeOK
  <2>3. ASSUME NEW how, Abandon(r, how), pc[r] \in {"sending", "waiting"} PROVE WireInv'
    <3>1. ~connected' \/ UNCHANGED <<connected, fut>>
      BY <2>3 DEF Abandon, Invalidate, SetConnected
    <3>. QED BY <2>1, <2>3, <3>1 DEF Abandon, wireVars
  <2>4. CASE SendFails(r) \/ TimeoutExpires(r) \/ CancelActive(r)
    BY <2>3, <2>4 DEF SendFails, TimeoutExpires, CancelActive
  <2>5. CASE SendCompletes(r)
    <3>1. ~Awaited(r) => fut[r] # "pending" BY DEF RequestInv
    <3>2. fut' = fut BY <2>2, <2>5, <3>1 DEF SendCompletes
    <3>. QED BY <2>1, <2>5, <3>2 DEF SendCompletes, Return, connVars, wireVars
  <2>6. CASE Wake(r) \/ InvalidationEnds(r)
    <3>1. fut[r] # "pending" BY <2>6 DEF Wake, InvalidationEnds, RequestInv
    <3>2. fut' = fut BY <2>2, <2>6, <3>1 DEF Wake, InvalidationEnds
    <3>. QED BY <2>1, <2>6, <3>2 DEF Wake, InvalidationEnds, Return, connVars, wireVars
  <2>7. CASE CancelQueued(r)
    BY <2>1, <2>7 DEF CancelQueued, connVars, slotVars, wireVars
  <2>. QED BY <1>6, <2>4, <2>5, <2>6, <2>7, WireIssue, WireBegin DEF RequestStep, CallerStep
<1>7. ASSUME NEW w \in 1 .. MaxSockets, EnvironmentStep(w) PROVE WireInv'
  <2>1. ASSUME NEW m \in Messages, m.kind \in {"state", "lost", "binary"},
               toCli' = [toCli EXCEPT ![sockets] = Append(@, m)],
               UNCHANGED <<connVars, taskVars, fut, toCtl>>
        PROVE  WireInv'
    <3>1. OfItsKind(m) /\ ~AnswersSingle(m)
      BY <2>1 DEF OfItsKind, AnswersSingle
    <3>2. /\ UNCHANGED <<sockets, connected, sess, pc, fut>>
          /\ \A v \in 0 .. MaxSockets : toCtl'[v] = toCtl[v]
      BY <2>1 DEF connVars, taskVars
    <3>. QED BY <2>1, <3>1, <3>2, WireGrows
  <2>2. ASSUME NEW o \in Object, Push(w, o) PROVE WireInv'
    <3>1. /\ State(o, NoRequest) \in Messages /\ State(o, NoRequest).kind = "state"
          /\ w = sockets
      BY <2>2 DEF State, Messages, Push, Delivers, TypeOK, WireTypeOK
    <3>. QED BY <2>1, <2>2, <3>1 DEF Push, slotVars
  <2>3. ASSUME NEW k \in {"lost", "binary"}, Break(w), UNCHANGED closed,
               toCli' = [toCli EXCEPT ![w] = Append(@, Ending(k))]
        PROVE  WireInv'
    <3>1. Ending(k) \in Messages /\ Ending(k).kind = k
      BY <2>3 DEF Ending, Messages
    <3>2. w = sockets BY <2>3 DEF Break, Delivers
    <3>. QED BY <2>1, <2>3, <3>1, <3>2 DEF Break, connVars, slotVars
  <2>4. CASE Break(w)
    BY <1>1, <2>3, <2>4 DEF Break, slotVars
  <2>. QED BY <1>7, <2>2, <2>4, WireServe DEF EnvironmentStep
<1>8. CASE UNCHANGED vars
  BY <1>1, <1>8 DEF vars, connVars, slotVars, wireVars
<1>. QED BY <1>4, <1>5, <1>6, <1>7, <1>8 DEF Next

(* The invariant of the wire holds in every reachable state.                *)
THEOREM WireInvariant == Spec => [](CallInv /\ WireInv)
<1>1. Init => CallInv /\ WireInv
  BY DEF Init, CallInv, WireInv
<1>. QED BY <1>1, WireStep, CallInvStep, TypeCorrect, ConnectionInvariant, RequestInvariant, PTL
         DEF Spec

(* What a resolved future was resolved with.                               *)
ItsAnswer(r) ==
  \/ got[r].of = r
  \/ Kind[r] = "state" /\ got[r].kind = "state" /\ got[r].obj = Target[r]
  \/ Kind[r] = "system" /\ got[r].kind = "scmdres" /\ OneWayOn(sess[r])

AnswerInv ==
  /\ \A r \in Request : outcome[r] = "answered" => pc[r] = "done" /\ fut[r] = "answer"
  /\ \A r \in Request : fut[r] = "answer" => ItsAnswer(r)
  /\ \A r \in Request : fut[r] # "none" => sess[r] # 0 /\ pc[r] \notin {"idle", "queued"}
  /\ \A r \in Request : ackedAtSend[r] \subseteq {q \in Request : outcome[q] = "answered"}

(* Whatever is received after a command has been answered was sent after the *)
(* controller had accepted it.                                               *)
OrderInv ==
  /\ \A q \in Request : Kind[q] \in Commands /\ fut[q] = "answer" =>
       /\ q \in accepted
       /\ \A i \in DOMAIN toCli[sockets] :
            toCli[sockets][i].kind = "state" => q \in toCli[sockets][i].after
  /\ \A i \in DOMAIN toCli[sockets] : toCli[sockets][i].kind = "cmdres" =>
       /\ toCli[sockets][i].of \in accepted
       /\ \A j \in DOMAIN toCli[sockets] :
            i < j /\ toCli[sockets][j].kind = "state" =>
              toCli[sockets][i].of \in toCli[sockets][j].after
  /\ \A r \in Request : Kind[r] = "state" /\ fut[r] = "answer" =>
       {q \in ackedAtSend[r] : Kind[q] \in Commands} \subseteq got[r].after

(* The futures that have an answer, and the calls that returned one, stay    *)
(* the same.                                                               *)
AnswersKept ==
  /\ got' = got
  /\ \A r \in Request : sess[r] # 0 => sess'[r] = sess[r]
  /\ \A r \in Request : /\ fut'[r] = "answer" <=> fut[r] = "answer"
                        /\ outcome'[r] = "answered" =>
                             outcome[r] = "answered" \/ (pc'[r] = "done" /\ fut[r] = "answer")
                        /\ outcome[r] = "answered" => outcome'[r] = "answered"
                        /\ pc[r] \notin {"idle", "queued"} => pc'[r] \notin {"idle", "queued"}
                        /\ pc[r] = "done" => pc'[r] = "done"

LEMMA AnswersStay ==
  ASSUME TypeOK, AnswerInv, AnswersKept,
         \A r \in Request : fut'[r] # "none" =>
           fut[r] # "none" \/ (sess[r] # 0 /\ pc'[r] \notin {"idle", "queued"}),
         \A r \in Request : ackedAtSend'[r] = ackedAtSend[r]
           \/ ackedAtSend'[r] = {q \in Request : outcome[q] = "answered"}
  PROVE  AnswerInv'
<1>1. \A r \in Request : outcome'[r] = "answered" => pc'[r] = "done" /\ fut'[r] = "answer"
  BY DEF AnswerInv, AnswersKept
<1>2. \A r \in Request : sess[r] # 0 /\ OneWayOn(sess[r]) => OneWayOn(sess[r])'
  <2>. SUFFICES ASSUME NEW r \in Request, sess[r] # 0, NEW w \in Request,
                       Kind[w] = "oneway", sess[w] = sess[r]
                PROVE  sess'[w] = sess'[r]
    BY DEF OneWayOn
  <2>. QED BY DEF AnswersKept
<1>3. ASSUME NEW r \in Request, fut'[r] = "answer" PROVE ItsAnswer(r)'
  <2>1. ItsAnswer(r) /\ sess[r] # 0 BY <1>3 DEF AnswerInv, AnswersKept
  <2>2. got' = got BY DEF AnswersKept
  <2>. QED BY <1>2, <2>1, <2>2 DEF ItsAnswer
<1>4. \A r \in Request : fut'[r] # "none" => sess'[r] # 0 /\ pc'[r] \notin {"idle", "queued"}
  BY DEF AnswerInv, AnswersKept
<1>5. \A r \in Request : ackedAtSend'[r] \subseteq {q \in Request : outcome'[q] = "answered"}
  BY DEF AnswerInv, AnswersKept
<1>. QED BY <1>1, <1>3, <1>4, <1>5 DEF AnswerInv

(* Steps that put nothing in the inbox keep the order in it.                 *)
LEMMA OrderStays ==
  ASSUME OrderInv, AnswersKept, accepted \subseteq accepted',
         \/ toCli'[sockets'] = <<>>
         \/ toCli'[sockets'] = toCli[sockets],
         \A r \in Request : fut[r] = "answer" => ackedAtSend'[r] = ackedAtSend[r]
  PROVE  OrderInv'
BY DEF OrderInv, AnswersKept

(* A state is sent after all that has been accepted, and the answer to a     *)
(* command once the command has been.                                       *)
LEMMA OrderGrows ==
  ASSUME TypeOK, OrderInv, AnswersKept, UNCHANGED <<sockets, ackedAtSend>>,
         accepted \subseteq accepted',
         NEW m \in Messages, toCli' = [toCli EXCEPT ![sockets] = Append(toCli[sockets], m)],
         m.kind = "state" => m.after = accepted,
         m.kind = "cmdres" => m.of \in accepted'
  PROVE  OrderInv'
<1>0. /\ sockets \in 0 .. MaxSockets
      /\ toCtl \in [0 .. MaxSockets -> Seq(Request)] /\ toCli \in [0 .. MaxSockets -> Seq(Messages)]
  BY DEF TypeOK, WireTypeOK, ConnectionTypeOK
<1>1. toCli[sockets] \in Seq(Messages) /\ toCli'[sockets] = Append(toCli[sockets], m)
  BY <1>0
<1>2. \A i \in DOMAIN toCli'[sockets] :
        \/ i \in DOMAIN toCli[sockets] /\ toCli'[sockets][i] = toCli[sockets][i]
             /\ i < Len(toCli[sockets]) + 1
        \/ i = Len(toCli[sockets]) + 1 /\ toCli'[sockets][i] = m
  BY <1>1, AppendAt
<1>3. \A q \in Request : Kind[q] \in Commands /\ fut'[q] = "answer" =>
        /\ q \in accepted'
        /\ \A i \in DOMAIN toCli'[sockets] :
             toCli'[sockets][i].kind = "state" => q \in toCli'[sockets][i].after
  BY <1>2 DEF OrderInv, AnswersKept
<1>4. ASSUME NEW i \in DOMAIN toCli'[sockets], toCli'[sockets][i].kind = "cmdres"
      PROVE  /\ toCli'[sockets][i].of \in accepted'
             /\ \A j \in DOMAIN toCli'[sockets] :
                  i < j /\ toCli'[sockets][j].kind = "state" =>
                    toCli'[sockets][i].of \in toCli'[sockets][j].after
  <2>1. CASE i \in DOMAIN toCli[sockets] /\ toCli'[sockets][i] = toCli[sockets][i]
    <3>1. /\ toCli[sockets][i].of \in accepted
          /\ \A j \in DOMAIN toCli[sockets] :
               i < j /\ toCli[sockets][j].kind = "state" =>
                 toCli[sockets][i].of \in toCli[sockets][j].after
      BY <1>4, <2>1 DEF OrderInv
    <3>. QED BY <1>2, <2>1, <3>1
  <2>2. CASE i = Len(toCli[sockets]) + 1 /\ toCli'[sockets][i] = m
    <3>1. \A j \in DOMAIN toCli'[sockets] : ~(i < j)
      BY <1>1, <1>2, <2>2
    <3>. QED BY <1>4, <2>2, <3>1
  <2>. QED BY <1>2, <2>1, <2>2
<1>5. \A r \in Request : Kind[r] = "state" /\ fut'[r] = "answer" =>
        {q \in ackedAtSend'[r] : Kind[q] \in Commands} \subseteq got'[r].after
  BY DEF OrderInv, AnswersKept
<1>. QED BY <1>3, <1>4, <1>5 DEF OrderInv

(* A message taken by the call it answers.                                  *)
LEMMA AnswerReceived ==
  ASSUME TypeOK, ConnectionInv, RequestInv, WireInv, AnswerInv, OrderInv, Receive
  PROVE  AnswerInv' /\ OrderInv'
<1>0. /\ sockets \in 0 .. MaxSockets
      /\ toCtl \in [0 .. MaxSockets -> Seq(Request)] /\ toCli \in [0 .. MaxSockets -> Seq(Messages)]
      /\ pending \in [Slots -> Request \cup {NoRequest}] /\ DOMAIN fut = Request /\ DOMAIN got = Request
      /\ pc \in [Request -> {"idle", "queued", "sending", "waiting", "closing", "done"}]
      /\ sess \in [Request -> 0 .. sockets]
  BY DEF TypeOK, SlotTypeOK, TaskTypeOK, WireTypeOK, ConnectionTypeOK
<1> DEFINE m == Head(toCli[sockets])
           r == pending[MatchingSlot(m)]
<1>1. /\ toCli[sockets] \in Seq(Messages) /\ toCli[sockets] # <<>>
      /\ toCli' = [toCli EXCEPT ![sockets] = Tail(toCli[sockets])]
      /\ UNCHANGED <<sockets, sess, pc, outcome, ackedAtSend, accepted>>
  BY <1>0 DEF Receive, connVars, taskVars
<1>2. /\ 1 \in DOMAIN toCli[sockets] /\ m = toCli[sockets][1]
      /\ \A i \in DOMAIN toCli'[sockets] :
           /\ i \in Nat /\ i + 1 \in DOMAIN toCli[sockets] /\ 1 < i + 1
           /\ toCli'[sockets][i] = toCli[sockets][i + 1]
  BY <1>0, <1>1, TailAt
<1>3. \A i, j \in DOMAIN toCli'[sockets] : i < j => i + 1 < j + 1
  BY <1>2
<1>4. \A i \in DOMAIN toCli'[sockets] : toCli'[sockets][i].kind = "cmdres" =>
        /\ toCli'[sockets][i].of \in accepted'
        /\ \A j \in DOMAIN toCli'[sockets] :
             i < j /\ toCli'[sockets][j].kind = "state" =>
               toCli'[sockets][i].of \in toCli'[sockets][j].after
  BY <1>1, <1>2, <1>3 DEF OrderInv
<1>5. \A q \in Request : Kind[q] \in Commands /\ fut[q] = "answer" =>
        /\ q \in accepted'
        /\ \A i \in DOMAIN toCli'[sockets] :
             toCli'[sockets][i].kind = "state" => q \in toCli'[sockets][i].after
  BY <1>1, <1>2 DEF OrderInv
<1>6. CASE r = NoRequest
  <2>1. fut' = fut /\ got' = got BY <1>6 DEF Receive, Resolve, slotVars
  <2>2. AnswersKept BY <1>1, <2>1 DEF AnswersKept
  <2>3. AnswerInv' BY <1>1, <2>1, <2>2, AnswersStay
  <2>4. OrderInv' BY <1>1, <1>4, <1>5, <2>1 DEF OrderInv
  <2>. QED BY <2>3, <2>4
<1>7. CASE r # NoRequest
  <2>0. PICK c \in Request : c = r
    BY <1>7, Taken
  <2>1. /\ c \in Request /\ pc[c] \in {"sending", "waiting"} /\ fut[c] = "pending"
        /\ sess[c] = sockets /\ Awaited(c)
        /\ Kind[c] \in {"command", "named", "ids"} => m.of = c /\ AnswersSingle(m)
        /\ Kind[c] = "system" => m.kind = "scmdres" /\ (OneWayOn(sockets) \/ m.of = c)
        /\ Kind[c] = "state" => m.kind = "state" /\ m.obj = Target[c]
    BY <1>7, <2>0, Taken
  <2>2. /\ got' = [got EXCEPT ![c] = m]
        /\ fut' \in {[fut EXCEPT ![c] = f] : f \in {"answer", "malformed"}}
    BY <1>7, <2>0, <2>1 DEF Receive, Resolve
  <2>3. \A q \in Request : q # c => fut'[q] = fut[q] /\ got'[q] = got[q]
    BY <1>0, <2>2
  <2>4. ItsAnswer(c)'
    <3>1. got'[c] = m BY <1>0, <2>1, <2>2
    <3>2. OneWayOn(sess[c])' <=> OneWayOn(sockets) BY <1>1, <2>1 DEF OneWayOn
    <3>3. Kind[c] \in {"command", "named", "ids", "system", "state"}
      BY <2>1 DEF Awaited, Kinds
    <3>. QED BY <2>1, <3>1, <3>2, <3>3 DEF ItsAnswer
  <2>5. \A q \in Request : q # c /\ ItsAnswer(q) => ItsAnswer(q)'
    BY <1>1, <2>3 DEF ItsAnswer, OneWayOn
  <2>6. AnswerInv'
    <3>1. \A q \in Request : outcome'[q] = "answered" => pc'[q] = "done" /\ fut'[q] = "answer"
      BY <1>1, <2>1, <2>3 DEF AnswerInv
    <3>2. \A q \in Request : fut'[q] = "answer" => ItsAnswer(q)'
      BY <2>3, <2>4, <2>5 DEF AnswerInv
    <3>3. \A q \in Request : fut'[q] # "none" => sess'[q] # 0 /\ pc'[q] \notin {"idle", "queued"}
      BY <1>1, <2>1, <2>3 DEF AnswerInv
    <3>4. \A q \in Request : ackedAtSend'[q] \subseteq {p \in Request : outcome'[p] = "answered"}
      BY <1>1 DEF AnswerInv
    <3>. QED BY <3>1, <3>2, <3>3, <3>4 DEF AnswerInv
  <2>7. Kind[c] \in Commands => m.kind = "cmdres"
    <3>. SUFFICES ASSUME Kind[c] \in Commands PROVE m.kind = "cmdres" OBVIOUS
    <3>1. m.of = c /\ AnswersSingle(m) BY <2>1 DEF Commands
    <3>2. OfItsKind(m) BY <1>2 DEF WireInv
    <3>. QED BY <3>1, <3>2 DEF AnswersSingle, OfItsKind, Commands
  <2>8. Kind[c] \in Commands =>
          /\ c \in accepted'
          /\ \A i \in DOMAIN toCli'[sockets] :
               toCli'[sockets][i].kind = "state" => c \in toCli'[sockets][i].after
    <3>1. Kind[c] \in Commands => m.of = c BY <2>1 DEF Commands
    <3>. QED BY <1>1, <1>2, <2>7, <3>1 DEF OrderInv
  <2>9. Kind[c] = "state" =>
          {q \in ackedAtSend'[c] : Kind[q] \in Commands} \subseteq got'[c].after
    <3>. SUFFICES ASSUME Kind[c] = "state", NEW q \in ackedAtSend[c], Kind[q] \in Commands
                  PROVE  q \in got'[c].after
      BY <1>1
    <3>1. q \in Request /\ fut[q] = "answer" BY <2>1 DEF AnswerInv
    <3>2. q \in m.after BY <1>2, <2>1, <3>1 DEF OrderInv
    <3>. QED BY <1>0, <2>1, <2>2, <3>2
  <2>10. OrderInv'
    <3>1. \A q \in Request : Kind[q] \in Commands /\ fut'[q] = "answer" =>
            /\ q \in accepted'
            /\ \A i \in DOMAIN toCli'[sockets] :
                 toCli'[sockets][i].kind = "state" => q \in toCli'[sockets][i].after
      BY <1>5, <2>3, <2>8
    <3>2. \A q \in Request : Kind[q] = "state" /\ fut'[q] = "answer" =>
            {p \in ackedAtSend'[q] : Kind[p] \in Commands} \subseteq got'[q].after
      BY <1>1, <2>3, <2>9 DEF OrderInv
    <3>. QED BY <1>1, <1>4, <3>1, <3>2 DEF OrderInv
  <2>. QED BY <2>6, <2>10
<1>. QED BY <1>6, <1>7

(* Every step of the client keeps what the answers are.                      *)
LEMMA AnswerStep ==
  ASSUME TypeOK, ConnectionInv, RequestInv, CallInv, WireInv, AnswerInv, OrderInv, [Next]_vars
  PROVE  AnswerInv' /\ OrderInv'
<1> USE DEF TypeOK, TaskTypeOK
<1>1. ASSUME AnswersKept, UNCHANGED <<sockets, sess, ackedAtSend, accepted>>,
             \A r \in Request : fut'[r] # "none" => fut[r] # "none",
             toCli' = toCli \/ toCli' = [toCli EXCEPT ![sockets] = <<>>]
      PROVE  AnswerInv' /\ OrderInv'
  <2>1. toCli'[sockets'] = <<>> \/ toCli'[sockets'] = toCli[sockets]
    BY <1>1 DEF WireTypeOK, ConnectionTypeOK
  <2>. QED BY <1>1, <2>1, AnswersStay, OrderStays
<1>2. ASSUME UNCHANGED <<taskVars, got>>, FailPending \/ fut' = fut
      PROVE  /\ AnswersKept
             /\ \A r \in Request : fut'[r] # "none" => fut[r] # "none"
  <2>1. \A r \in Request : /\ fut'[r] = "answer" <=> fut[r] = "answer"
                           /\ fut'[r] # "none" => fut[r] # "none"
    BY <1>2 DEF FailPending, SlotTypeOK
  <2>. QED BY <1>2, <2>1 DEF AnswersKept, AnswerInv, taskVars
<1>3. ASSUME UNCHANGED <<taskVars, got, sockets, accepted>>, FailPending \/ fut' = fut,
             toCli' = toCli \/ toCli' = [toCli EXCEPT ![sockets] = <<>>]
      PROVE  AnswerInv' /\ OrderInv'
  BY <1>1, <1>2, <1>3 DEF taskVars
<1>4. CASE OpenSucceeds \/ OpenTooLate
  <2>1. UNCHANGED <<taskVars, got, fut, wireVars>> /\ sockets' = sockets + 1 /\ MayOpen
    BY <1>4 DEF OpenSucceeds, OpenTooLate, slotVars
  <2>2. toCli'[sockets'] = <<>>
    <3>1. sockets' \in 0 .. MaxSockets /\ sockets' > sockets
      BY <2>1 DEF MayOpen, ConnectionTypeOK
    <3>2. toCli[sockets'] = <<>> BY <3>1 DEF WireInv
    <3>. QED BY <2>1, <3>2 DEF wireVars
  <2>3. AnswersKept /\ (\A r \in Request : fut'[r] # "none" => fut[r] # "none")
    BY <1>2, <2>1
  <2>. QED BY <2>1, <2>2, <2>3, AnswersStay, OrderStays DEF taskVars, wireVars
<1>5. ReleaseSupervisor => FailPending
  BY DEF ReleaseSupervisor
<1>6. ReleaseConnection => FailPending /\ toCli' = [toCli EXCEPT ![sockets] = <<>>]
  BY DEF ReleaseConnection
<1>7. CASE SupervisorStep \/ CancelSupervisor \/ Stop \/ StopEnds
  BY <1>3, <1>4, <1>5, <1>6, <1>7 DEF SupervisorStep, Supervise, DiscardEnds, OpenFails,
     OpenRejected, StableWindowEnds, RunEnds, DelayEnds, ReaderCancelled, JoinEnds,
     SupervisorEnds, CancelSupervisor, Stop, StopEnds, connVars, slotVars, wireVars
<1>8. CASE ReaderStep
  BY <1>3, <1>6, <1>8, AnswerReceived DEF ReaderStep, ReaderStarts, ConnectionEnds,
     ConnectionClosed, connVars, slotVars, wireVars
<1>9. ASSUME NEW r \in Request, RequestStep(r) \/ CallerStep(r) PROVE AnswerInv' /\ OrderInv'
  <2>1. CASE Issue(r)
    <3>1. /\ pc[r] = "idle" /\ outcome[r] # "answered" /\ sess[r] = 0
          /\ UNCHANGED <<got, fut, ackedAtSend, toCli, sockets, accepted>>
      BY <2>1 DEF Issue, AnswerInv, CallInv, connVars, slotVars, wireVars
    <3>2. AnswersKept
      BY <2>1, <3>1 DEF Issue, AnswersKept
    <3>. QED BY <3>1, <3>2, AnswersStay, OrderStays
  <2>2. CASE Begin(r)
    <3>1. /\ pc[r] = "queued" /\ outcome[r] # "answered" /\ fut[r] = "none"
          /\ UNCHANGED <<got, sess, toCli, sockets, accepted>>
      BY <2>2 DEF Begin, AnswerInv, RequestInv, connVars
    <3>2. CASE Usable(sess[r])
      <4>1. /\ fut' \in {fut, [fut EXCEPT ![r] = "pending"]} /\ sess[r] # 0
            /\ pc' = [pc EXCEPT ![r] = "sending"] /\ outcome' = outcome
            /\ ackedAtSend' =
                 [ackedAtSend EXCEPT ![r] = {q \in Request : outcome[q] = "answered"}]
        BY <2>2, <3>2 DEF Begin, Usable
      <4>2. AnswersKept
        BY <3>1, <4>1 DEF AnswersKept, SlotTypeOK
      <4>3. \A q \in Request : fut'[q] # "none" =>
              fut[q] # "none" \/ (sess[q] # 0 /\ pc'[q] \notin {"idle", "queued"})
        BY <4>1 DEF SlotTypeOK
      <4>4. \A q \in Request : fut[q] = "answer" => ackedAtSend'[q] = ackedAtSend[q]
        BY <3>1, <4>1
      <4>5. \A q \in Request : ackedAtSend'[q] = ackedAtSend[q]
              \/ ackedAtSend'[q] = {p \in Request : outcome[p] = "answered"}
        BY <4>1
      <4>. QED BY <3>1, <4>2, <4>3, <4>4, <4>5, AnswersStay, OrderStays
    <3>3. CASE ~Usable(sess[r])
      <4>1. /\ pc' = [pc EXCEPT ![r] = "done"] /\ UNCHANGED <<fut, ackedAtSend>>
            /\ outcome' = [outcome EXCEPT ![r] = "connection"]
        BY <2>2, <3>3 DEF Begin
      <4>2. AnswersKept BY <3>1, <4>1 DEF AnswersKept
      <4>. QED BY <1>1, <3>1, <4>1, <4>2
    <3>. QED BY <3>2, <3>3
  <2>3. ASSUME NEW how, Return(r, how), pc[r] \in {"sending", "waiting", "closing"},
               how = "answered" => fut[r] = "answer",
               UNCHANGED <<connVars, got, sess, ackedAtSend, wireVars>>
        PROVE  AnswerInv' /\ OrderInv'
    <3>1. outcome[r] # "answered" BY <2>3 DEF AnswerInv
    <3>2. /\ pc' = [pc EXCEPT ![r] = "done"] /\ outcome' = [outcome EXCEPT ![r] = how]
          /\ fut' = [fut EXCEPT ![r] = IF @ = "pending" THEN "cancelled" ELSE @]
      BY <2>3 DEF Return
    <3>3. \A q \in Request : /\ fut'[q] = "answer" <=> fut[q] = "answer"
                             /\ fut'[q] # "none" => fut[q] # "none"
      BY <3>2 DEF SlotTypeOK
    <3>4. AnswersKept BY <2>3, <3>1, <3>2, <3>3 DEF AnswersKept
    <3>. QED BY <1>1, <2>3, <3>3, <3>4 DEF connVars, wireVars
  <2>4. ASSUME NEW how \in {"connection", "timeout", "cancelled"}, Abandon(r, how),
               pc[r] \in {"sending", "waiting"}
        PROVE  AnswerInv' /\ OrderInv'
    <3>1. outcome[r] # "answered" BY <2>4 DEF AnswerInv
    <3>2. FailPending \/ fut' = fut BY <2>4 DEF Abandon, Invalidate
    <3>3. \A q \in Request : /\ fut'[q] = "answer" <=> fut[q] = "answer"
                             /\ fut'[q] # "none" => fut[q] # "none"
      BY <3>2 DEF FailPending, SlotTypeOK
    <3>4. /\ pc' = [pc EXCEPT ![r] = "closing"] /\ outcome' = [outcome EXCEPT ![r] = how]
          /\ UNCHANGED <<got, sess, ackedAtSend, sockets, wireVars>>
      BY <2>4 DEF Abandon
    <3>5. AnswersKept BY <2>4, <3>1, <3>3, <3>4 DEF AnswersKept
    <3>. QED BY <1>1, <3>3, <3>4, <3>5 DEF wireVars
  <2>5. CASE SendFails(r) \/ TimeoutExpires(r) \/ CancelActive(r)
    BY <2>4, <2>5 DEF SendFails, TimeoutExpires, CancelActive
  <2>6. CASE SendCompletes(r)
    <3>1. CASE Return(r, "sent")
      BY <2>3, <2>6, <3>1 DEF SendCompletes
    <3>2. CASE pc' = [pc EXCEPT ![r] = "waiting"] /\ UNCHANGED <<outcome, fut>>
      <4>1. pc[r] = "sending"
            /\ UNCHANGED <<got, sess, ackedAtSend, sockets, accepted, toCli>>
        BY <2>6 DEF SendCompletes, connVars, wireVars
      <4>2. AnswersKept BY <3>2, <4>1 DEF AnswersKept
      <4>. QED BY <1>1, <3>2, <4>1, <4>2
    <3>. QED BY <2>6, <3>1, <3>2 DEF SendCompletes
  <2>7. CASE Wake(r)
    <3>1. AnswerOutcome(fut[r]) = "answered" => fut[r] = "answer"
      BY DEF AnswerOutcome
    <3>. QED BY <2>3, <2>7, <3>1 DEF Wake
  <2>8. CASE InvalidationEnds(r)
    <3>1. outcome[r] # "answered" /\ pc[r] = "closing"
      BY <2>8 DEF InvalidationEnds, CallInv
    <3>. QED BY <2>3, <2>8, <3>1 DEF InvalidationEnds
  <2>9. CASE CancelQueued(r)
    <3>1. pc[r] = "queued" BY <2>9 DEF CancelQueued, RequestInv
    <3>2. outcome[r] # "answered" BY <3>1 DEF AnswerInv
    <3>3. /\ pc' = [pc EXCEPT ![r] = "done"] /\ outcome' = [outcome EXCEPT ![r] = "cancelled"]
          /\ UNCHANGED <<got, fut, sess, ackedAtSend, sockets, accepted, toCli>>
      BY <2>9 DEF CancelQueued, connVars, slotVars, wireVars
    <3>4. AnswersKept BY <3>1, <3>2, <3>3 DEF AnswersKept
    <3>. QED BY <1>1, <3>3, <3>4
  <2>. QED BY <1>9, <2>1, <2>2, <2>5, <2>6, <2>7, <2>8, <2>9 DEF RequestStep, CallerStep
<1>10. ASSUME NEW w \in 1 .. MaxSockets, EnvironmentStep(w) PROVE AnswerInv' /\ OrderInv'
  <2>1. /\ UNCHANGED <<taskVars, got, fut, sockets>> /\ accepted \subseteq accepted'
        /\ AnswersKept /\ (\A r \in Request : fut'[r] # "none" => fut[r] # "none")
    BY <1>2, <1>10 DEF EnvironmentStep, Serve, Push, Break, connVars, slotVars
  <2>2. AnswerInv' BY <2>1, AnswersStay DEF taskVars
  <2>3. ASSUME NEW m \in Messages,
               toCli' = [toCli EXCEPT ![sockets] = Append(toCli[sockets], m)],
               m.kind = "state" => m.after = accepted,
               m.kind = "cmdres" => m.of \in accepted'
        PROVE  OrderInv'
    BY <2>1, <2>3, OrderGrows DEF taskVars
  <2>4. CASE toCli' = toCli
    <3>1. toCli'[sockets'] = toCli[sockets] BY <2>1, <2>4
    <3>2. \A q \in Request : ackedAtSend'[q] = ackedAtSend[q] BY <2>1 DEF taskVars
    <3>. QED BY <2>1, <2>2, <3>1, <3>2, OrderStays
  <2>5. CASE Serve(w) /\ toCli' # toCli
    <3> DEFINE r == Head(toCtl[w])
    <3>1. toCtl[w] \in Seq(Request) /\ toCtl[w] # <<>> /\ accepted' = accepted \cup {r}
      BY <2>5 DEF Serve, WireTypeOK
    <3>2. r \in Request BY <3>1
    <3>3. PICK m \in Answers(r) : toCli' = [toCli EXCEPT ![w] = Append(@, m)] /\ w = sockets
      BY <2>5 DEF Serve, Delivers
    <3>4. m \in Messages BY <3>2, AnswersType DEF WireTypeOK
    <3>5. /\ m.kind = "state" => m.after = accepted
          /\ m.kind = "cmdres" => m.of \in accepted'
      BY <3>1, <3>2, AnswersAre
    <3>6. toCli' = [toCli EXCEPT ![sockets] = Append(toCli[sockets], m)]
      BY <3>3
    <3>. QED BY <2>2, <2>3, <3>4, <3>5, <3>6
  <2>6. ASSUME NEW o \in Object, Push(w, o) PROVE OrderInv'
    <3>1. /\ State(o, NoRequest) \in Messages /\ State(o, NoRequest).kind = "state"
          /\ State(o, NoRequest).after = accepted /\ w = sockets
      BY <2>6 DEF State, Messages, Push, Delivers, WireTypeOK
    <3>2. toCli' = [toCli EXCEPT ![sockets] = Append(toCli[sockets], State(o, NoRequest))]
      BY <2>6, <3>1 DEF Push
    <3>. QED BY <2>3, <3>1, <3>2
  <2>7. CASE Break(w) /\ toCli' # toCli
    <3>1. PICK k \in {"lost", "binary"} : toCli' = [toCli EXCEPT ![w] = Append(@, Ending(k))]
      BY <2>7 DEF Break
    <3>2. Ending(k) \in Messages /\ Ending(k).kind = k /\ w = sockets
      BY <2>7 DEF Ending, Messages, Break, Delivers
    <3>3. toCli' = [toCli EXCEPT ![sockets] = Append(toCli[sockets], Ending(k))]
      BY <3>1, <3>2
    <3>. QED BY <2>2, <2>3, <3>2, <3>3
  <2>8. OrderInv' BY <1>10, <2>4, <2>5, <2>6, <2>7 DEF EnvironmentStep
  <2>. QED BY <2>2, <2>8
<1>11. CASE UNCHANGED vars
  BY <1>3, <1>11 DEF vars, connVars, slotVars, wireVars
<1>. QED BY <1>7, <1>8, <1>9, <1>10, <1>11 DEF Next

(* The invariant of the answers holds in every reachable state.             *)
THEOREM AnswersInvariant == Spec => [](AnswerInv /\ OrderInv)
<1>1. Init => AnswerInv /\ OrderInv
  BY DEF Init, AnswerInv, OrderInv
<1>. QED BY <1>1, AnswerStep, WireInvariant, TypeCorrect, ConnectionInvariant,
         RequestInvariant, PTL DEF Spec

(* A call returns the answer to that very call, but for what the protocol    *)
(* cannot tell apart (_async_transaction, _invalidate_connection).          *)
THEOREM AnswersMatch == Spec => []AnswersItsOwnRequest
<1>1. AnswerInv => AnswersItsOwnRequest
  BY DEF AnswerInv, AnswersItsOwnRequest, ItsAnswer, OneWayOn
<1>. QED BY <1>1, AnswersInvariant, PTL

(* A state read that was sent after commands had been acknowledged returns a *)
(* state that the controller sent after it had accepted them, also when a    *)
(* push or the answer to an earlier read satisfies it.                       *)
THEOREM ReadsComeAfter == Spec => []ReadsFollowAcknowledgements
<1>1. TypeOK /\ AnswerInv /\ OrderInv => ReadsFollowAcknowledgements
  BY DEF AnswerInv, OrderInv, ReadsFollowAcknowledgements, Commands, TypeOK, TaskTypeOK
<1>. QED BY <1>1, AnswersInvariant, TypeCorrect, PTL
=============================================================================
