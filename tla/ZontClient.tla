----------------------------- MODULE ZontClient -----------------------------
(***************************************************************************)
(* The persistent protocol client of ZONT Local (protocol/client.py): one  *)
(* supervisor task that owns the WebSocket and every reconnect, one reader  *)
(* task per connection, and any number of request tasks that share the     *)
(* socket through a FIFO lock.  asyncio runs one task at a time, so every   *)
(* action below is the code between two suspension points of one task.     *)
(*                                                                         *)
(* The controller and the network are the environment (external): the      *)
(* controller reads a connection's requests in order, may answer each one  *)
(* once or never, may push object states at any time, and the connection   *)
(* may break at any time.                                                   *)
(*                                                                         *)
(* Abstracted: message text (a message is its kind, the object it names,    *)
(* and what it carries), wall-clock time (a timer may expire whenever it is *)
(* armed), argument validation, log wording.                                *)
(***************************************************************************)
EXTENDS Integers, Sequences, FiniteSets

CONSTANTS
  Request,      \* the calls of the client's public request methods, each made once
  Object,       \* identifiers of controller objects
  Kind,         \* Kind[r]: which method the call r is
  Target,       \* Target[r]: the object r addresses (commands and state reads)
  NoRequest, NoObject,
  Delays,       \* len(RECONNECT_DELAYS)
  MaxSockets,   \* bound: authenticated sockets opened
  Bounds        \* bound: the calls, sockets, connection faults, unsolicited object
                \* states and stops that one behaviour may have together

Kinds == {"command", "named", "ids", "state", "system", "oneway"}

ASSUME ClientAssumption ==
  /\ NoRequest \notin Request
  /\ NoObject \notin Object
  /\ Kind \in [Request -> Kinds]
  /\ Target \in [Request -> Object]
  /\ Delays \in Nat \ {0}
  /\ MaxSockets \in Nat
  /\ Bounds \subseteq [calls : SUBSET Request, sockets : Nat, faults : Nat, pushes : Nat,
                     ends : BOOLEAN]

VARIABLES
  \* the supervisor and the connection it owns
  sup,          \* program counter of async_supervise
  reader,       \* program counter of the connection task of the newest socket
  reconnectIndex,
  stop,         \* _stop.is_set()
  stopping,     \* program counter of async_stop
  ws,           \* _ws: the number of a socket, 0 for None
  sockets,      \* authenticated sockets opened so far; the newest one's number
  closed,       \* sockets whose .closed is true
  connected,    \* _is_connected
  told,         \* the connection state the listeners were last told
  listening,    \* the listener sets have not been cleared
  lastError, reconnectCount,
  outage,       \* _outage_logged
  \* the request tasks and what they share
  pc,           \* program counter of each request
  sess,         \* the socket the request captured when it was queued
  queue, owner, \* _transaction_lock: its waiters in order, and its holder
  pending,      \* the _pending_* tables and fields: one slot per key
  fut,          \* the future of each request
  got,          \* what its future was resolved with
  outcome,      \* how the call returned
  \* the environment
  toCtl, toCli, \* per socket (0 unused): requests sent, messages not yet received
  accepted,     \* requests the controller has read, and accepted or refused; those
                \* accepted it carries out then or later (ObjectControl)
  pushes, faults,
  \* history
  ackedAtSend   \* calls that had returned an answer when this one was sent

superVars == <<sup, reader, reconnectIndex, stopping, listening,
               reconnectCount, outage, lastError, stop>>
connVars  == <<ws, sockets, closed, connected, told>>
slotVars  == <<pending, fut, got>>
taskVars  == <<pc, sess, queue, owner, outcome, ackedAtSend>>
wireVars  == <<toCtl, toCli, accepted, pushes, faults>>
vars      == <<superVars, connVars, slotVars, taskVars, wireVars>>

-----------------------------------------------------------------------------
(* Keys of the pending tables, and the messages a controller may send.     *)

Slots ==
  ({"command", "state"} \X Object) \cup ({"named", "ids", "system"} \X {NoObject})

(* The key under which a request registers its future.                     *)
Slot(r) ==
  <<Kind[r], IF Kind[r] \in {"command", "state"} THEN Target[r] ELSE NoObject>>

Awaited(r) == Kind[r] # "oneway"

(* A message: the request it answers (NoRequest for a push), the kind and  *)
(* object its fields show, whether its payload is well formed, and after    *)
(* which requests, already accepted, the controller sent it: a state need   *)
(* not show their effect yet.  "lost" stands for the CLOSE, CLOSED, CLOSING *)
(* and ERROR messages of the library.                                       *)
Messages ==
  [of : Request \cup {NoRequest}, kind : {"cmdres", "state"},
   obj : Object, ok : BOOLEAN, after : SUBSET Request]
  \cup
  [of : Request \cup {NoRequest}, kind : {"ids", "scmdres", "lost", "binary"},
   obj : {NoObject}, ok : BOOLEAN, after : SUBSET Request]

Ending(k) == [of |-> NoRequest, kind |-> k, obj |-> NoObject,
              ok |-> TRUE, after |-> {}]

Uncorrelated(k, r, ok) == [of |-> r, kind |-> k, obj |-> NoObject,
                           ok |-> ok, after |-> {}]

State(o, r) == [of |-> r, kind |-> "state", obj |-> o, ok |-> TRUE,
                after |-> accepted]

(* The answers the controller may give to r; only an ID list or a system   *)
(* command's text can be malformed in a way the client detects.            *)
Answers(r) ==
  CASE Kind[r] \in {"command", "named"} ->
         {[State(Target[r], r) EXCEPT !.kind = "cmdres", !.after = @ \cup {r}]}
    [] Kind[r] = "state" -> {State(Target[r], r)}
    [] Kind[r] = "ids" ->
         {Uncorrelated("ids", r, b) : b \in BOOLEAN}
    [] OTHER ->
         {Uncorrelated("scmdres", r, b) : b \in BOOLEAN}

(* Mutant: the identity of the socket is not compared.                     *)
UsableAnySocket(w) == connected

(* The connections a task may use: _connected_websocket and the checks of  *)
(* _async_transaction and _async_send_payload.                             *)
Usable(w) == connected /\ ws = w /\ w # 0 /\ w \notin closed

(* The behaviours are cut off where they leave every one of the Bounds.     *)
Usage == [calls |-> {r \in Request : pc[r] # "idle"}, sockets |-> sockets,
          faults |-> faults, pushes |-> pushes,
          ends |-> stopping # "no" \/ sup \in {"joining", "finishing", "done"}]

Fits(use) ==
  \E b \in Bounds :
    /\ use.calls \subseteq b.calls /\ use.sockets <= b.sockets
    /\ use.faults <= b.faults /\ use.pushes <= b.pushes /\ (use.ends => b.ends)

MayOpen == sockets < MaxSockets /\ Fits([Usage EXCEPT !.sockets = @ + 1])

MayEnd == Fits([Usage EXCEPT !.ends = TRUE])

-----------------------------------------------------------------------------
SupervisorTypeOK ==
  /\ sup \in {"idle", "opening", "discarding", "running", "stable", "joining",
              "delaying", "finishing", "done"}
  /\ reader \in {"none", "created", "reading", "closing", "done"}
  /\ reconnectIndex \in 0 .. Delays - 1
  /\ stopping \in {"no", "closing", "done"}
  /\ stop \in BOOLEAN /\ listening \in BOOLEAN /\ outage \in BOOLEAN
  /\ lastError \in {"none", "connection", "protocol", "authentication"}
  /\ reconnectCount \in Nat

ConnectionTypeOK ==
  /\ sockets \in 0 .. MaxSockets
  /\ ws \in 0 .. sockets
  /\ closed \subseteq 1 .. sockets
  /\ connected \in BOOLEAN /\ told \in BOOLEAN

SlotTypeOK ==
  /\ pending \in [Slots -> Request \cup {NoRequest}]
  /\ fut \in [Request -> {"none", "pending", "answer", "malformed", "failed",
                          "cancelled"}]
  /\ got \in [Request -> Messages]

TaskTypeOK ==
  /\ pc \in [Request -> {"idle", "queued", "sending", "waiting", "closing", "done"}]
  /\ sess \in [Request -> 0 .. sockets]
  /\ queue \in Seq(Request)
  /\ owner \in Request \cup {NoRequest}
  /\ outcome \in [Request -> {"none", "answered", "sent", "offline", "connection",
                              "timeout", "cancelled", "protocol"}]
  /\ ackedAtSend \in [Request -> SUBSET Request]

WireTypeOK ==
  /\ toCtl \in [0 .. MaxSockets -> Seq(Request)]
  /\ toCli \in [0 .. MaxSockets -> Seq(Messages)]
  /\ accepted \subseteq Request
  /\ pushes \in Nat /\ faults \in Nat

TypeOK ==
  SupervisorTypeOK /\ ConnectionTypeOK /\ SlotTypeOK /\ TaskTypeOK /\ WireTypeOK

Init ==
  /\ sup = "idle" /\ reader = "none" /\ reconnectIndex = 0
  /\ stop = FALSE /\ stopping = "no"
  /\ ws = 0 /\ sockets = 0 /\ closed = {} /\ connected = FALSE
  /\ told = FALSE /\ listening = TRUE
  /\ lastError = "none" /\ reconnectCount = 0 /\ outage = FALSE
  /\ pc = [r \in Request |-> "idle"] /\ sess = [r \in Request |-> 0]
  /\ queue = <<>> /\ owner = NoRequest
  /\ pending = [s \in Slots |-> NoRequest]
  /\ fut = [r \in Request |-> "none"] /\ got = [r \in Request |-> Ending("lost")]
  /\ outcome = [r \in Request |-> "none"]
  /\ toCtl = [w \in 0 .. MaxSockets |-> <<>>]
  /\ toCli = [w \in 0 .. MaxSockets |-> <<>>]
  /\ accepted = {} /\ pushes = 0 /\ faults = 0
  /\ ackedAtSend = [r \in Request |-> {}]

-----------------------------------------------------------------------------
(* Shared steps: what the private helpers of the client do.                *)

SetConnected(b) ==
  /\ connected' = b
  /\ told' = IF listening /\ connected # b THEN b ELSE told

(* Mutant: the futures fail and stay in the pending tables.                *)
FailPendingKeepsTables ==
  /\ pending' = pending
  /\ fut' = [r \in Request |->
               IF fut[r] = "pending" /\ Awaited(r) /\ pending[Slot(r)] = r
                 THEN "failed" ELSE fut[r]]

FailPending ==
  /\ pending' = [s \in Slots |-> NoRequest]
  /\ fut' = [r \in Request |->
               IF fut[r] = "pending" /\ Awaited(r) /\ pending[Slot(r)] = r
                 THEN "failed" ELSE fut[r]]

RecordError(category) == lastError' = category /\ outage' = TRUE

(* Closing a socket: .closed turns true, and that ends its reader.         *)
Close(w) == closed' = IF w = 0 THEN closed ELSE closed \cup {w}

(* Mutants: a failed request leaves its connection alone; it marks the     *)
(* client disconnected and forgets to close the socket.                    *)
InvalidateNothing(w) == UNCHANGED <<connected, told, pending, fut, closed>>

InvalidateKeepsSocket(w) ==
  /\ IF ws = w THEN SetConnected(FALSE) /\ FailPending
               ELSE UNCHANGED <<connected, told, pending, fut>>
  /\ UNCHANGED closed

Invalidate(w) ==
  /\ IF ws = w THEN SetConnected(FALSE) /\ FailPending
               ELSE UNCHANGED <<connected, told, pending, fut>>
  /\ Close(w)

(* The finally block of the connection task of the newest socket.          *)
ReleaseConnection ==
  /\ reader' = "closing"
  /\ ws' = IF ws = sockets THEN 0 ELSE ws
  /\ SetConnected(FALSE)
  /\ FailPending
  /\ Close(sockets)
  /\ toCli' = [toCli EXCEPT ![sockets] = <<>>]

(* Mutant: the supervisor leaves its last socket open.                     *)
ReleaseSupervisorKeepsSocket ==
  /\ sup' = "finishing"
  /\ ws' = 0
  /\ SetConnected(FALSE)
  /\ FailPending
  /\ UNCHANGED closed

(* The finally block of the supervisor.                                    *)
ReleaseSupervisor ==
  /\ sup' = "finishing"
  /\ ws' = 0
  /\ SetConnected(FALSE)
  /\ FailPending
  /\ Close(ws)

(* Mutant: the index is not capped.                                        *)
NextReconnectIndexUncapped(i) == i + 1

NextReconnectIndex(i) == IF i + 1 < Delays THEN i + 1 ELSE Delays - 1

-----------------------------------------------------------------------------
(* The supervisor task.                                                    *)

Supervise ==
  /\ sup = "idle" /\ stopping = "no"
  /\ sup' = "opening" /\ stop' = FALSE
  /\ UNCHANGED <<reader, reconnectIndex, stopping, listening, reconnectCount,
                 outage, lastError, connVars, slotVars, taskVars, wireVars>>

(* Mutant: _stop is not looked at once the handshake has succeeded.        *)
OpenSucceedsAfterStop ==
  /\ sup = "opening" /\ MayOpen
  /\ sup' = "running" /\ reader' = "created"
  /\ sockets' = sockets + 1 /\ ws' = sockets + 1
  /\ reconnectCount' = IF sockets = 0 THEN 0 ELSE reconnectCount + 1
  /\ SetConnected(TRUE)
  /\ lastError' = "none"
  /\ UNCHANGED <<reconnectIndex, stop, stopping, listening, outage, closed,
                 slotVars, taskVars, wireVars>>

OpenSucceeds ==
  /\ sup = "opening" /\ ~stop /\ MayOpen
  /\ sup' = "running" /\ reader' = "created"
  /\ sockets' = sockets + 1 /\ ws' = sockets + 1
  /\ reconnectCount' = IF sockets = 0 THEN 0 ELSE reconnectCount + 1
  /\ SetConnected(TRUE)
  /\ lastError' = "none"
  /\ UNCHANGED <<reconnectIndex, stop, stopping, listening, outage, closed,
                 slotVars, taskVars, wireVars>>

(* Stopped while the handshake was running: the new socket is discarded.   *)
OpenTooLate ==
  /\ sup = "opening" /\ stop /\ MayOpen
  /\ sup' = "discarding"
  /\ sockets' = sockets + 1 /\ closed' = closed \cup {sockets + 1}
  /\ UNCHANGED <<reader, reconnectIndex, stop, stopping, listening, outage,
                 reconnectCount, lastError, ws, connected, told,
                 slotVars, taskVars, wireVars>>

DiscardEnds ==
  /\ sup = "discarding"
  /\ ReleaseSupervisor
  /\ UNCHANGED <<reader, reconnectIndex, stop, stopping, listening, outage,
                 reconnectCount, lastError, sockets, got, taskVars, wireVars>>

OpenFails(category) ==
  /\ sup = "opening"
  /\ RecordError(category)
  /\ IF stop
       THEN ReleaseSupervisor
       ELSE sup' = "delaying" /\ UNCHANGED <<ws, connected, told, closed, pending, fut>>
  /\ UNCHANGED <<reader, reconnectIndex, stop, stopping, listening,
                 reconnectCount, sockets, got, taskVars, wireVars>>

OpenRejected ==
  /\ sup = "opening"
  /\ RecordError("authentication")
  /\ ReleaseSupervisor
  /\ UNCHANGED <<reader, reconnectIndex, stop, stopping, listening,
                 reconnectCount, sockets, got, taskVars, wireVars>>

(* Mutant: the stable mark does not look whether the connection is up.     *)
MarkAnyConnectionStable(w) == outage' = FALSE

MarkConnectionStable(w) ==
  outage' = IF ws = w /\ connected THEN FALSE ELSE outage

(* The stable window of 60 seconds ends before the connection task does.   *)
StableWindowEnds ==
  /\ sup = "running" /\ reader # "done"
  /\ sup' = "stable"
  /\ MarkConnectionStable(sockets)
  /\ UNCHANGED <<reader, reconnectIndex, stop, stopping, listening,
                 reconnectCount, lastError, connVars, slotVars, taskVars, wireVars>>

RunEnds ==
  /\ sup \in {"running", "stable"} /\ reader = "done"
  /\ reconnectIndex' = IF sup = "stable" THEN 0 ELSE reconnectIndex
  /\ IF stop
       THEN ReleaseSupervisor
       ELSE sup' = "delaying" /\ UNCHANGED <<ws, connected, told, closed, pending, fut>>
  /\ UNCHANGED <<reader, stop, stopping, listening, reconnectCount, outage,
                 lastError, sockets, got, taskVars, wireVars>>

(* The delay expires, or _stop is set and the wait returns at once.        *)
DelayEnds ==
  /\ sup = "delaying"
  /\ reconnectIndex' = NextReconnectIndex(reconnectIndex)
  /\ IF stop
       THEN ReleaseSupervisor
       ELSE sup' = "opening" /\ UNCHANGED <<ws, connected, told, closed, pending, fut>>
  /\ UNCHANGED <<reader, stop, stopping, listening, reconnectCount, outage,
                 lastError, sockets, got, taskVars, wireVars>>

(* The task is cancelled: by ZontConnectionManager.async_shutdown, or by    *)
(* Home Assistant when it stops with the config entry still loaded.        *)
CancelSupervisor ==
  /\ MayEnd
  /\ IF sup \in {"running", "stable"}
       THEN sup' = "joining" /\ UNCHANGED <<ws, connected, told, closed, pending, fut>>
       ELSE sup \in {"opening", "delaying"} /\ ReleaseSupervisor
  /\ UNCHANGED <<reader, reconnectIndex, stop, stopping, listening,
                 reconnectCount, outage, lastError, sockets, got, taskVars, wireVars>>

(* The cancelled supervisor has cancelled its connection task too: one that *)
(* never ran ends without entering its try block.                          *)
ReaderCancelled ==
  /\ sup = "joining"
  /\ \/ /\ reader = "created" /\ reader' = "done"
        /\ UNCHANGED <<ws, connected, told, closed, pending, fut, toCli>>
     \/ reader = "reading" /\ ReleaseConnection
  /\ UNCHANGED <<sup, reconnectIndex, stop, stopping, listening, reconnectCount,
                 outage, lastError, sockets, got, taskVars,
                 toCtl, accepted, pushes, faults>>

JoinEnds ==
  /\ sup = "joining" /\ reader = "done"
  /\ ReleaseSupervisor
  /\ UNCHANGED <<reader, reconnectIndex, stop, stopping, listening, outage,
                 reconnectCount, lastError, sockets, got, taskVars, wireVars>>

SupervisorEnds ==
  /\ sup = "finishing"
  /\ sup' = "done"
  /\ UNCHANGED <<reader, reconnectIndex, stop, stopping, listening, outage,
                 reconnectCount, lastError, connVars, slotVars, taskVars, wireVars>>

-----------------------------------------------------------------------------
(* async_stop, which any task may call while the supervisor runs.          *)

(* Mutant: the current socket is forgotten and not closed.                 *)
StopKeepsSocket ==
  /\ stopping = "no" /\ MayEnd
  /\ stopping' = "closing" /\ stop' = TRUE
  /\ SetConnected(FALSE)
  /\ FailPending
  /\ ws' = 0 /\ UNCHANGED closed
  /\ UNCHANGED <<sup, reader, reconnectIndex, listening, reconnectCount, outage,
                 lastError, sockets, got, taskVars, wireVars>>

Stop ==
  /\ stopping = "no" /\ MayEnd
  /\ stopping' = "closing" /\ stop' = TRUE
  /\ SetConnected(FALSE)
  /\ FailPending
  /\ ws' = 0 /\ Close(ws)
  /\ UNCHANGED <<sup, reader, reconnectIndex, listening, reconnectCount, outage,
                 lastError, sockets, got, taskVars, wireVars>>

StopEnds ==
  /\ stopping = "closing"
  /\ stopping' = "done" /\ listening' = FALSE
  /\ UNCHANGED <<sup, reader, reconnectIndex, stop, reconnectCount, outage,
                 lastError, connVars, slotVars, taskVars, wireVars>>

-----------------------------------------------------------------------------
(* The connection task.                                                    *)

ReaderStarts ==
  /\ reader = "created" /\ sup # "joining"
  /\ reader' = "reading"
  /\ UNCHANGED <<sup, reconnectIndex, stop, stopping, listening, reconnectCount,
                 outage, lastError, connVars, slotVars, taskVars, wireVars>>

(* The slot a message resolves: a command's answer goes to the command of   *)
(* the object it names, else to the one command addressed by name.         *)
MatchingSlot(m) ==
  CASE m.kind = "cmdres" ->
         IF pending[<<"command", m.obj>>] # NoRequest
           THEN <<"command", m.obj>> ELSE <<"named", NoObject>>
    [] m.kind = "ids" -> <<"ids", NoObject>>
    [] m.kind = "scmdres" -> <<"system", NoObject>>
    [] OTHER -> <<"state", m.obj>>

Resolve(m) ==
  LET s == MatchingSlot(m)
      r == pending[s]
  IN  IF r = NoRequest
        THEN UNCHANGED slotVars
        ELSE /\ pending' = [pending EXCEPT ![s] = NoRequest]
             /\ fut' = [fut EXCEPT ![r] = IF @ # "pending" THEN @
                                          ELSE IF m.ok THEN "answer" ELSE "malformed"]
             /\ got' = [got EXCEPT ![r] = IF fut[r] # "pending" THEN @ ELSE m]

(* A text message: it resolves the request it matches, or goes to the      *)
(* message listeners as an event.                                          *)
Receive ==
  /\ reader = "reading" /\ toCli[sockets] # <<>>
  /\ Head(toCli[sockets]).kind \notin {"lost", "binary"}
  /\ Resolve(Head(toCli[sockets]))
  /\ toCli' = [toCli EXCEPT ![sockets] = Tail(@)]
  /\ UNCHANGED <<superVars, connVars, taskVars, toCtl, accepted, pushes, faults>>

(* The reader loop leaves at an ending message or a closed socket; async_stop *)
(* ends it by closing the socket, a reader in receive() does not see _stop. *)
ConnectionEnds ==
  /\ reader = "reading"
  /\ \/ sockets \in closed
     \/ toCli[sockets] # <<>> /\ Head(toCli[sockets]).kind \in {"lost", "binary"}
  /\ IF stop THEN UNCHANGED <<lastError, outage>>
     ELSE RecordError(IF /\ toCli[sockets] # <<>>
                         /\ Head(toCli[sockets]).kind = "binary"
                      THEN "protocol" ELSE "connection")
  /\ ReleaseConnection
  /\ UNCHANGED <<sup, reconnectIndex, stop, stopping, listening, reconnectCount,
                 sockets, got, taskVars, toCtl, accepted, pushes, faults>>

ConnectionClosed ==
  /\ reader = "closing"
  /\ reader' = "done"
  /\ UNCHANGED <<sup, reconnectIndex, stop, stopping, listening, reconnectCount,
                 outage, lastError, connVars, slotVars, taskVars, wireVars>>

-----------------------------------------------------------------------------
(* The request tasks.                                                      *)

(* The call reaches the transaction: it captures the socket and joins the  *)
(* waiters of the lock, or fails at once.                                  *)
Issue(r) ==
  /\ pc[r] = "idle" /\ Fits([Usage EXCEPT !.calls = @ \cup {r}])
  /\ IF Usable(ws)
       THEN /\ pc' = [pc EXCEPT ![r] = "queued"]
            /\ sess' = [sess EXCEPT ![r] = ws]
            /\ queue' = Append(queue, r)
            /\ UNCHANGED outcome
       ELSE /\ pc' = [pc EXCEPT ![r] = "done"]
            /\ outcome' = [outcome EXCEPT ![r] = "offline"]
            /\ UNCHANGED <<sess, queue>>
  /\ UNCHANGED <<superVars, connVars, slotVars, owner, ackedAtSend, wireVars>>

(* The lock is granted: the request re-checks its socket, registers its     *)
(* future and writes its payload.                                          *)
Begin(r) ==
  /\ owner = NoRequest /\ queue # <<>> /\ Head(queue) = r
  /\ queue' = Tail(queue)
  /\ IF Usable(sess[r])
       THEN /\ owner' = r
            /\ pc' = [pc EXCEPT ![r] = "sending"]
            /\ ackedAtSend' =
                 [ackedAtSend EXCEPT ![r] = {q \in Request : outcome[q] = "answered"}]
            /\ toCtl' = [toCtl EXCEPT ![sess[r]] = Append(@, r)]
            /\ IF Awaited(r)
                 THEN /\ pending' = [pending EXCEPT ![Slot(r)] = r]
                      /\ fut' = [fut EXCEPT ![r] = "pending"]
                 ELSE UNCHANGED <<pending, fut>>
            /\ UNCHANGED outcome
       ELSE /\ pc' = [pc EXCEPT ![r] = "done"]
            /\ outcome' = [outcome EXCEPT ![r] = "connection"]
            /\ UNCHANGED <<owner, ackedAtSend, toCtl, pending, fut>>
  /\ UNCHANGED <<superVars, connVars, got, sess, toCli, accepted, pushes, faults>>

(* Leaving the transaction: the call's finally block and the lock.         *)
Return(r, how) ==
  /\ pc' = [pc EXCEPT ![r] = "done"]
  /\ outcome' = [outcome EXCEPT ![r] = how]
  /\ owner' = NoRequest
  /\ pending' = [s \in Slots |-> IF pending[s] = r THEN NoRequest ELSE pending[s]]
  /\ fut' = [fut EXCEPT ![r] = IF @ = "pending" THEN "cancelled" ELSE @]

SendCompletes(r) ==
  /\ pc[r] = "sending"
  /\ IF Awaited(r)
       THEN /\ pc' = [pc EXCEPT ![r] = "waiting"]
            /\ UNCHANGED <<outcome, owner, pending, fut>>
       ELSE Return(r, "sent")
  /\ UNCHANGED <<superVars, connVars, got, sess, queue, ackedAtSend, wireVars>>

Abandon(r, how) ==
  /\ pc' = [pc EXCEPT ![r] = "closing"]
  /\ outcome' = [outcome EXCEPT ![r] = how]
  /\ Invalidate(sess[r])
  /\ UNCHANGED <<superVars, ws, sockets, got, sess, queue, owner, ackedAtSend, wireVars>>

SendFails(r) == pc[r] = "sending" /\ Abandon(r, "connection")

(* Mutant: without its response timer a request waits for ever.            *)
TimeoutNeverExpires(r) == FALSE /\ Abandon(r, "timeout")

(* The response timer expires, even when the answer has just come but the   *)
(* task has not run since.                                                 *)
TimeoutExpires(r) == pc[r] = "waiting" /\ Abandon(r, "timeout")

AnswerOutcome(f) ==
  CASE f = "answer" -> "answered"
    [] f = "malformed" -> "protocol"
    [] OTHER -> "connection"

Wake(r) ==
  /\ pc[r] = "waiting" /\ fut[r] # "pending"
  /\ Return(r, AnswerOutcome(fut[r]))
  /\ UNCHANGED <<superVars, connVars, got, sess, queue, ackedAtSend, wireVars>>

(* Cancelled while waiting for the lock: nothing was sent.                 *)
CancelQueued(r) ==
  /\ \E i \in DOMAIN queue :
       /\ queue[i] = r
       /\ queue' = SubSeq(queue, 1, i - 1) \o SubSeq(queue, i + 1, Len(queue))
  /\ pc' = [pc EXCEPT ![r] = "done"]
  /\ outcome' = [outcome EXCEPT ![r] = "cancelled"]
  /\ UNCHANGED <<superVars, connVars, slotVars, sess, owner, ackedAtSend, wireVars>>

CancelActive(r) == pc[r] \in {"sending", "waiting"} /\ Abandon(r, "cancelled")

InvalidationEnds(r) ==
  /\ pc[r] = "closing"
  /\ Return(r, outcome[r])
  /\ UNCHANGED <<superVars, connVars, got, sess, queue, ackedAtSend, wireVars>>

-----------------------------------------------------------------------------
(* The environment: the controller and the network.                        *)

Delivers(w) ==
  /\ w = sockets /\ w \notin closed /\ reader \in {"created", "reading"}
  /\ \A i \in DOMAIN toCli[w] : toCli[w][i].kind \notin {"lost", "binary"}

(* The controller reads the oldest request of a connection and answers it,  *)
(* or says nothing.  The answer to a command says whether it was accepted;  *)
(* its effect may come later (PROTOCOL.md:92).                              *)
Serve(w) ==
  /\ toCtl[w] # <<>>
  /\ toCtl' = [toCtl EXCEPT ![w] = Tail(@)]
  /\ LET r == Head(toCtl[w])
     IN  /\ accepted' = accepted \cup {r}
         /\ \/ UNCHANGED toCli
            \/ /\ Delivers(w)
               /\ \E m \in Answers(r) : toCli' = [toCli EXCEPT ![w] = Append(@, m)]
  /\ UNCHANGED <<superVars, connVars, slotVars, taskVars, pushes, faults>>

Push(w, o) ==
  /\ Delivers(w) /\ Fits([Usage EXCEPT !.pushes = @ + 1])
  /\ pushes' = pushes + 1
  /\ toCli' = [toCli EXCEPT ![w] = Append(@, State(o, NoRequest))]
  /\ UNCHANGED <<superVars, connVars, slotVars, taskVars, toCtl, accepted, faults>>

(* The connection breaks: the reader will receive an ending message, or    *)
(* the library's heartbeat has found the peer silent and closed the socket. *)
Break(w) ==
  /\ Delivers(w) /\ Fits([Usage EXCEPT !.faults = @ + 1])
  /\ faults' = faults + 1
  /\ \/ /\ \E k \in {"lost", "binary"} :
             toCli' = [toCli EXCEPT ![w] = Append(@, Ending(k))]
        /\ UNCHANGED closed
     \/ Close(w) /\ UNCHANGED toCli
  /\ UNCHANGED <<superVars, ws, sockets, connected, told, slotVars, taskVars,
                 toCtl, accepted, pushes>>

-----------------------------------------------------------------------------
SupervisorStep ==
  \/ Supervise \/ OpenSucceeds \/ OpenTooLate \/ DiscardEnds
  \/ OpenFails("connection") \/ OpenFails("protocol") \/ OpenRejected
  \/ StableWindowEnds \/ RunEnds \/ DelayEnds
  \/ ReaderCancelled \/ JoinEnds \/ SupervisorEnds

ReaderStep == ReaderStarts \/ Receive \/ ConnectionEnds \/ ConnectionClosed

RequestStep(r) ==
  \/ Begin(r) \/ SendCompletes(r) \/ SendFails(r)
  \/ TimeoutExpires(r) \/ Wake(r) \/ InvalidationEnds(r)

CallerStep(r) == Issue(r) \/ CancelQueued(r) \/ CancelActive(r)

EnvironmentStep(w) == Serve(w) \/ Break(w) \/ \E o \in Object : Push(w, o)

Next ==
  \/ SupervisorStep \/ CancelSupervisor \/ Stop \/ StopEnds \/ ReaderStep
  \/ \E r \in Request : RequestStep(r) \/ CallerStep(r)
  \/ \E w \in 1 .. MaxSockets : EnvironmentStep(w)

Spec == Init /\ [][Next]_vars

(* The event loop runs every task that can run, every timer expires, and    *)
(* opening and closing a socket end (the former within CONNECTION_TIMEOUT). *)
(* Nothing is assumed of the controller, the network or the callers.        *)
Fairness ==
  /\ WF_vars(SupervisorStep)
  /\ WF_vars(StopEnds)
  /\ WF_vars(ReaderStep)
  /\ \A r \in Request : WF_vars(RequestStep(r))

FairSpec == Spec /\ Fairness

-----------------------------------------------------------------------------
(* Safety.                                                                 *)

(* At any moment at most one request is registered for an answer, under    *)
(* its own key, and it is the holder of the transaction lock: the kinds of *)
(* the protocol that carry no correlation can be told apart only because   *)
(* nothing stale stays registered (the pending tables, every path out of a *)
(* call, and _fail_pending).                                               *)
OneRegistered ==
  \A s \in Slots : LET r == pending[s] IN
    r # NoRequest => /\ owner = r /\ s = Slot(r)
                     /\ pc[r] \in {"sending", "waiting"} /\ fut[r] = "pending"

(* No request waits on a connection that is gone: while its future is       *)
(* unresolved, the client is connected through the very socket on which    *)
(* the request was queued and sent, and an answer can still find it.  Else *)
(* it would hold the lock for the whole timeout (reader, stop, supervisor  *)
(* and every invalidation fail what is pending).                           *)
NoOrphanedWaiter ==
  \A r \in Request :
    pc[r] \in {"sending", "waiting"} /\ fut[r] = "pending" =>
      connected /\ ws = sess[r] /\ pending[Slot(r)] = r

(* A call returns the controller's answer to that very call, and never a    *)
(* late answer to an earlier one that timed out or was cancelled.  The two  *)
(* exceptions are what the protocol cannot tell apart: an object state may  *)
(* come from a push, or an earlier read a push had satisfied; and in a      *)
(* session in which a one-way command was made, the answers of system       *)
(* commands may be taken one for another.                                  *)
AnswersItsOwnRequest ==
  \A r \in Request : outcome[r] = "answered" =>
    \/ got[r].of = r
    \/ Kind[r] = "state" /\ got[r].kind = "state" /\ got[r].obj = Target[r]
    \/ /\ Kind[r] = "system" /\ got[r].kind = "scmdres"
       /\ \E w \in Request : Kind[w] = "oneway" /\ sess[w] = sess[r]

(* A state read sent after commands had been acknowledged returns a state   *)
(* that the controller sent after it had accepted them, and never an older  *)
(* one, whatever pushes, lost answers and reconnects come in between        *)
(* (_resolve_state_response, _invalidate_connection).  That state need not  *)
(* show their effect yet, so the control modules, which confirm a command   *)
(* by such a read, look at it (ConfirmedOrUnavailable of ObjectControl).    *)
ReadsFollowAcknowledgements ==
  \A r \in Request : Kind[r] = "state" /\ outcome[r] = "answered" =>
    {q \in ackedAtSend[r] : Kind[q] \in {"command", "named"}} \subseteq got[r].after

(* A socket that is still open is the current one and runs under the       *)
(* supervisor: none is leaked by a stop, a cancellation or a failed call,   *)
(* and no two are open at once.                                            *)
NoLeakedSocket ==
  \A w \in 1 .. sockets : w \notin closed =>
    w = ws /\ sup \in {"running", "stable", "joining"}

(* What the connection listeners were last told is the truth, also once    *)
(* async_stop has dropped them: they hear of the disconnection first, and  *)
(* no connection comes up behind their back.                               *)
ListenersKnow == told = connected

(* Whenever the client pauses before a reconnect, the outage it is in has   *)
(* been logged and its category recorded: a stable window that ends while  *)
(* a lost connection is being closed does not end the outage.              *)
OutageIsReported == sup = "delaying" => outage /\ lastError # "none"

-----------------------------------------------------------------------------
(* Liveness.                                                               *)

(* Every call returns, whatever the controller does: a lock holder is       *)
(* always answered, failed or timed out, and releases the lock.            *)
RequestsReturn == \A r \in Request : pc[r] # "idle" ~> pc[r] = "done"

(* Once stopped, a running supervisor ends without help from its caller,    *)
(* from wherever it is: opening, reading, closing or pausing.              *)
StopEndsSupervision == stop /\ sup # "idle" ~> sup = "done"

(* Provided that an opening which could succeed again and again does, a      *)
(* disconnected client connects again after every outage: the reader always *)
(* hands a broken connection back to the supervisor.                       *)
Reconnects ==
  SF_vars(OpenSucceeds) =>
    (sup # "idle" /\ ~connected ~> connected \/ stop \/ sup = "done")

-----------------------------------------------------------------------------
(* The client implements the queue it promises its callers.                *)

Queue == INSTANCE RequestQueue WITH
  session <- IF connected THEN ws ELSE 0,
  made    <- sess,
  line    <- queue,
  active  <- owner,
  result  <- [r \in Request |-> IF pc[r] = "done" THEN outcome[r] ELSE "none"]

(* Every step of the client is a step of the promised queue, or changes    *)
(* nothing a caller can see of it: calls are served one at a time, in the  *)
(* order they were made, and never in a later session than their own       *)
(* (_async_transaction).                                                   *)
ImplementsRequestQueue == Queue!Spec
====
