------------------------- MODULE StoredOptionsProofs -------------------------
(***************************************************************************)
(* Proofs that what is stored takes effect (StoredTakesEffect of EntryFlows), *)
(* that repair issues belong to bindings (IssuesBelongToBindings) and that    *)
(* every variable keeps its type, for any numbers of flows, operations,      *)
(* changes and calls of the update listener, however they overlap.           *)
(*                                                                         *)
(* The first argument: whenever the settings or the options of the runtime   *)
(* in force differ from those stored, a call of the listener is still to come   *)
(* or at work (Owed); calls of one runtime start in their order, so that     *)
(* none that is at work is overtaken (Ordered); and a runtime whose recorded *)
(* version is the stored one has had no call at work since (Recorded).       *)
(*                                                                         *)
(* The second: an issue that is not orphaned is of a binding in force or of  *)
(* one that the manager in force still holds (Accounted), and a listener     *)
(* call is then to come or at work that drops it (Drops), as it captured, or *)
(* will capture, options without it.                                         *)
(***************************************************************************)
EXTENDS EntryFlowsProofs

Stage == {"called", "queued", "reloading", "export", "entities", "done"}

Live == entry.state \in {"setup", "loaded"}

(* The calls that captured the runtime in force.                             *)
Mine(l) == l \in DOMAIN listeners /\ listeners[l].rt = current

Pending == \E l : Mine(l) /\ listeners[l].stage \in {"called", "queued", "reloading"}
Working(l) == Mine(l) /\ listeners[l].stage \in {"export", "entities"}

-----------------------------------------------------------------------------
EntryFields ==
  {"state", "data", "options", "version"} \subseteq DOMAIN entry /\ entry.version \in Nat

RuntimeFields ==
  \A r \in DOMAIN runtimes :
    /\ {"settings", "options", "version", "bindings", "shown", "running"}
         \subseteq DOMAIN runtimes[r]
    /\ runtimes[r].version \in Nat

ListenerFields ==
  /\ \E S : listeners \in Seq(S)
  /\ \A l \in DOMAIN listeners :
       /\ {"rt", "options", "version", "stage"} \subseteq DOMAIN listeners[l]
       /\ listeners[l].rt \in 1 .. Len(runtimes)
       /\ listeners[l].version \in Nat /\ listeners[l].stage \in Stage

(* A reload that a call awaits is requested once, and the call waits for it. *)
OperationsInv ==
  /\ \E S : operations \in Seq(S)
  /\ \A i \in DOMAIN operations :
       operations[i].by # 0 =>
         /\ operations[i].by \in DOMAIN listeners
         /\ listeners[operations[i].by].stage = "reloading"
         /\ \A j \in DOMAIN operations : operations[j].by = operations[i].by => j = i
  /\ phase.step # "idle" => operations # <<>>
  /\ phase.step = "setup" /\ Operation.by # 0 => listeners[Operation.by].rt # current

(* A call starts when those before it are through.                           *)
Ordered ==
  \A l \in DOMAIN listeners : listeners[l].stage \notin {"called", "queued"} =>
    \A k \in 1 .. l - 1 : listeners[k].rt = listeners[l].rt => listeners[k].stage = "done"

Owed ==
  Live =>
    \/ Pending
    \/ /\ runtimes[current].settings = entry.data
       /\ \A l : Working(l) => listeners[l].options = entry.options
       /\ (\A l : ~Working(l)) => runtimes[current].options = entry.options

(* The options that a call at work has captured are the stored ones if their *)
(* version is.                                                               *)
Captured ==
  Live => \A l : Working(l) =>
    /\ listeners[l].version <= entry.version
    /\ listeners[l].version = entry.version => listeners[l].options = entry.options
    /\ listeners[l].stage = "entities" =>
         /\ runtimes[current].bindings = ExportBindings(listeners[l].options.exports)
         /\ listeners[l].version = entry.version => runtimes[current].shown = entry.options

Recorded ==
  Live =>
    LET r == runtimes[current]
    IN  /\ r.version <= entry.version
        /\ r.version = entry.version =>
             /\ r.options = entry.options /\ r.shown = entry.options
             /\ r.bindings = InForce
             /\ \A l : ~Working(l)

StoredInv ==
  /\ LifeInv
  /\ EntryFields /\ RuntimeFields /\ ListenerFields /\ OperationsInv
  /\ Ordered /\ Owed /\ Captured /\ Recorded

-----------------------------------------------------------------------------
(* The calls of the listener and the operations that some of them await.     *)

LEMMA ListenerReplaced ==
  ASSUME ListenerFields, NEW l \in DOMAIN listeners, NEW call,
         listeners' = [listeners EXCEPT ![l] = call]
  PROVE  /\ \E S : listeners' \in Seq(S)
         /\ Len(listeners') = Len(listeners) /\ DOMAIN listeners' = DOMAIN listeners
         /\ listeners'[l] = call
         /\ \A k \in DOMAIN listeners : k # l => listeners'[k] = listeners[k]
<1>1. PICK S : listeners \in Seq(S) BY DEF ListenerFields
<1>2. listeners' \in Seq(S \cup {call}) /\ Len(listeners') = Len(listeners)
      BY <1>1
<1>3. DOMAIN listeners' = DOMAIN listeners /\ listeners'[l] = call
      BY <1>1
<1>4. \A k \in DOMAIN listeners : k # l => listeners'[k] = listeners[k]
      BY <1>1
<1>. QED BY <1>2, <1>3, <1>4

(* A new stage for one call that keeps the rest of it.                       *)
LEMMA Moved ==
  ASSUME ListenerFields, NEW l \in DOMAIN listeners, NEW stage \in Stage,
         Len(runtimes') = Len(runtimes),
         listeners' = [listeners EXCEPT ![l].stage = stage]
  PROVE  /\ ListenerFields' /\ DOMAIN listeners' = DOMAIN listeners
         /\ Len(listeners') = Len(listeners)
         /\ listeners'[l].stage = stage
         /\ \A k \in DOMAIN listeners : k # l => listeners'[k] = listeners[k]
         /\ \A k \in DOMAIN listeners :
              /\ listeners'[k].rt = listeners[k].rt
              /\ listeners'[k].options = listeners[k].options
              /\ listeners'[k].version = listeners[k].version
<1>. DEFINE call == [listeners[l] EXCEPT !.stage = stage]
<1>1. {"rt", "options", "version", "stage"} \subseteq DOMAIN listeners[l]
  BY DEF ListenerFields
<1>2. /\ DOMAIN call = DOMAIN listeners[l] /\ call.stage = stage
      /\ call.rt = listeners[l].rt /\ call.options = listeners[l].options
      /\ call.version = listeners[l].version
  BY <1>1
<1>3. listeners' = [listeners EXCEPT ![l] = call]
  OBVIOUS
<1>. HIDE DEF call
<1>4. /\ \E S : listeners' \in Seq(S)
      /\ Len(listeners') = Len(listeners) /\ DOMAIN listeners' = DOMAIN listeners
      /\ listeners'[l] = call
      /\ \A k \in DOMAIN listeners : k # l => listeners'[k] = listeners[k]
  BY <1>3, ListenerReplaced
<1>5. \A k \in DOMAIN listeners :
        /\ {"rt", "options", "version", "stage"} \subseteq DOMAIN listeners'[k]
        /\ listeners'[k].rt = listeners[k].rt
        /\ listeners'[k].options = listeners[k].options
        /\ listeners'[k].version = listeners[k].version
        /\ listeners'[k].stage \in Stage
  <2>. TAKE k \in DOMAIN listeners
  <2>1. CASE k = l BY <1>1, <1>2, <1>4, <2>1
  <2>2. CASE k # l BY <1>4, <2>2 DEF ListenerFields
  <2>. QED BY <2>1, <2>2
<1>6. ListenerFields'
  BY <1>4, <1>5 DEF ListenerFields
<1>. QED BY <1>2, <1>4, <1>5, <1>6

(* The operation that ends was requested by no other call, and lets the one  *)
(* that awaits it return.                                                    *)
LEMMA OperationEnds ==
  ASSUME ListenerFields, OperationsInv, Ordered, operations # <<>>, EndOperation,
         Len(runtimes') = Len(runtimes)
  PROVE  /\ ListenerFields' /\ OperationsInv' /\ Ordered'
         /\ DOMAIN listeners' = DOMAIN listeners
         /\ \A k \in DOMAIN listeners :
              /\ k # Operation.by => listeners'[k] = listeners[k]
              /\ listeners'[k].rt = listeners[k].rt
              /\ listeners'[k].options = listeners[k].options
              /\ listeners'[k].version = listeners[k].version
              /\ k = Operation.by => listeners[k].stage = "reloading"
                                     /\ listeners'[k].stage = "done"
<1>1. PICK S : operations \in Seq(S) BY DEF OperationsInv
<1>2. PICK T : listeners \in Seq(T) BY DEF ListenerFields
<1>3. /\ operations' = Tail(operations) /\ phase' = [step |-> "idle"]
      /\ listeners' = IF Operation.by = 0 THEN listeners
                      ELSE [listeners EXCEPT ![Operation.by].stage = "done"]
  BY DEF EndOperation, Done
<1>4. /\ operations' \in Seq(S) /\ 1 \in DOMAIN operations
      /\ \A i \in DOMAIN operations' :
           i + 1 \in DOMAIN operations /\ operations'[i] = operations[i + 1]
  BY <1>1, <1>3
<1>5. Operation = operations[1]
  BY <1>1, <1>4 DEF Operation
<1>6. /\ ListenerFields' /\ DOMAIN listeners' = DOMAIN listeners
      /\ \A k \in DOMAIN listeners :
           /\ k # Operation.by => listeners'[k] = listeners[k]
           /\ listeners'[k].rt = listeners[k].rt
           /\ listeners'[k].options = listeners[k].options
           /\ listeners'[k].version = listeners[k].version
           /\ k = Operation.by => listeners[k].stage = "reloading"
                                  /\ listeners'[k].stage = "done"
  <2>1. CASE Operation.by = 0
    <3>1. 0 \notin DOMAIN listeners BY <1>2
    <3>. QED BY <1>3, <2>1, <3>1 DEF ListenerFields
  <2>2. CASE Operation.by # 0
    <3>1. Operation.by \in DOMAIN listeners /\ listeners[Operation.by].stage = "reloading"
      BY <1>4, <1>5, <2>2 DEF OperationsInv
    <3>2. listeners' = [listeners EXCEPT ![Operation.by].stage = "done"]
      BY <1>3, <2>2
    <3>. HIDE DEF Operation
    <3>3. "done" \in Stage BY DEF Stage
    <3>. QED BY <3>1, <3>2, <3>3, Moved
  <2>. QED BY <2>1, <2>2
<1>7. OperationsInv'
  <2>1. ASSUME NEW i \in DOMAIN operations', operations'[i].by # 0
        PROVE  /\ operations'[i].by \in DOMAIN listeners'
               /\ listeners'[operations'[i].by].stage = "reloading"
               /\ \A j \in DOMAIN operations' :
                    operations'[j].by = operations'[i].by => j = i
    <3>1. i + 1 \in DOMAIN operations /\ operations'[i] = operations[i + 1] /\ i \in Nat
      BY <1>1, <1>4, <2>1
    <3>2. operations[i + 1].by # operations[1].by
      BY <1>1, <1>4, <2>1, <3>1 DEF OperationsInv
    <3>3. ASSUME NEW j \in DOMAIN operations', operations'[j].by = operations'[i].by
          PROVE  j = i
      <4>1. j + 1 \in DOMAIN operations /\ operations'[j] = operations[j + 1]
        BY <1>4
      <4>2. j + 1 = i + 1
        BY <2>1, <3>1, <3>3, <4>1 DEF OperationsInv
      <4>3. j \in Nat BY <1>4
      <4>. QED BY <3>1, <4>2, <4>3
    <3>4. /\ operations[i + 1].by \in DOMAIN listeners
          /\ listeners[operations[i + 1].by].stage = "reloading"
      BY <2>1, <3>1 DEF OperationsInv
    <3>. QED BY <1>5, <1>6, <3>1, <3>2, <3>3, <3>4
  <2>2. phase'.step = "idle" BY <1>3
  <2>. QED BY <1>4, <2>1, <2>2 DEF OperationsInv
<1>8. Ordered'
  <2>. SUFFICES ASSUME NEW l \in DOMAIN listeners,
                       listeners'[l].stage \notin {"called", "queued"},
                       NEW k \in 1 .. l - 1, listeners'[k].rt = listeners'[l].rt
                PROVE  listeners'[k].stage = "done"
    BY <1>6 DEF Ordered
  <2>1. k \in DOMAIN listeners BY <1>2
  <2>2. listeners[l].stage \notin {"called", "queued"} /\ listeners[k].rt = listeners[l].rt
    BY <1>6, <2>1
  <2>3. listeners[k].stage = "done" BY <2>2 DEF Ordered
  <2>. QED BY <1>6, <2>1, <2>3
<1>. QED BY <1>6, <1>7, <1>8

(* Calls go on to exist, and those that await a reload go on to await it.    *)
CallsStay ==
  \A k \in DOMAIN listeners :
    /\ k \in DOMAIN listeners' /\ listeners'[k].rt = listeners[k].rt
    /\ listeners[k].stage = "reloading" => listeners'[k].stage = "reloading"

LEMMA OperationsKept ==
  ASSUME OperationsInv, CallsStay, UNCHANGED <<operations, current>>,
         \/ phase' = phase
         \/ phase'.step # "setup" /\ (phase'.step # "idle" => operations # <<>>)
  PROVE  OperationsInv'
<1>1. PICK S : operations \in Seq(S) BY DEF OperationsInv
<1>2. \A i \in DOMAIN operations :
        operations[i].by # 0 =>
          /\ operations[i].by \in DOMAIN listeners'
          /\ listeners'[operations[i].by].stage = "reloading"
          /\ \A j \in DOMAIN operations : operations[j].by = operations[i].by => j = i
  BY DEF OperationsInv, CallsStay
<1>3. phase'.step # "idle" => operations # <<>>
  BY DEF OperationsInv
<1>4. ASSUME phase'.step = "setup", Operation.by # 0
      PROVE  listeners'[Operation.by].rt # current
  <2>1. phase' = phase BY <1>4
  <2>2. 1 \in DOMAIN operations /\ Operation = operations[1]
    BY <1>1, <1>4, <2>1 DEF OperationsInv, Operation
  <2>3. Operation.by \in DOMAIN listeners BY <1>4, <2>2 DEF OperationsInv
  <2>. QED BY <1>4, <2>1, <2>3 DEF OperationsInv, CallsStay
<1>5. Operation' = Operation BY DEF Operation
<1>. QED BY <1>1, <1>2, <1>3, <1>4, <1>5 DEF OperationsInv

LEMMA OperationAppended ==
  ASSUME OperationsInv, ListenerFields, CallsStay, UNCHANGED <<phase, current>>,
         NEW op, operations' = Append(operations, op),
         op.by # 0 =>
           /\ op.by \in DOMAIN listeners /\ listeners[op.by].stage # "reloading"
           /\ listeners'[op.by].stage = "reloading"
  PROVE  OperationsInv'
<1>1. PICK S : operations \in Seq(S) BY DEF OperationsInv
<1>2. /\ operations' \in Seq(S \cup {op}) /\ operations' # <<>>
      /\ DOMAIN operations' = DOMAIN operations \cup {Len(operations) + 1}
      /\ Len(operations) + 1 \notin DOMAIN operations
      /\ operations'[Len(operations) + 1] = op
      /\ \A i \in DOMAIN operations : operations'[i] = operations[i]
  BY <1>1
<1>3. \A i \in DOMAIN operations : operations[i].by # 0 =>
        /\ operations[i].by \in DOMAIN listeners
        /\ listeners[operations[i].by].stage = "reloading"
        /\ listeners'[operations[i].by].stage = "reloading"
        /\ operations[i].by # op.by
  BY DEF OperationsInv, CallsStay
<1>4. ASSUME NEW i \in DOMAIN operations', operations'[i].by # 0
      PROVE  /\ operations'[i].by \in DOMAIN listeners'
             /\ listeners'[operations'[i].by].stage = "reloading"
             /\ \A j \in DOMAIN operations' : operations'[j].by = operations'[i].by => j = i
  <2>1. CASE i \in DOMAIN operations
    <3>1. \A j \in DOMAIN operations : operations[j].by = operations[i].by => j = i
      BY <1>2, <1>4, <2>1 DEF OperationsInv
    <3>. QED BY <1>2, <1>3, <1>4, <2>1, <3>1 DEF CallsStay
  <2>2. CASE i = Len(operations) + 1
    BY <1>2, <1>3, <1>4, <2>2 DEF CallsStay
  <2>. QED BY <1>2, <2>1, <2>2
<1>5. ASSUME phase.step = "setup", Operation'.by # 0
      PROVE  listeners'[Operation'.by].rt # current
  <2>1. operations # <<>> BY <1>5 DEF OperationsInv
  <2>2. 1 \in DOMAIN operations /\ Operation = operations[1] /\ Operation' = operations'[1]
    BY <1>1, <1>2, <2>1 DEF Operation
  <2>3. Operation' = Operation BY <1>2, <2>2
  <2>4. Operation.by \in DOMAIN listeners BY <1>5, <2>2, <2>3 DEF OperationsInv
  <2>. QED BY <1>5, <2>3, <2>4 DEF OperationsInv, CallsStay
<1>. QED BY <1>2, <1>4, <1>5 DEF OperationsInv

-----------------------------------------------------------------------------
(* Steps that leave what is stored, and the runtimes' options, alone.        *)

SameView ==
  /\ runtimes'[current].settings = runtimes[current].settings
  /\ runtimes'[current].options = runtimes[current].options
  /\ runtimes'[current].version = runtimes[current].version
  /\ runtimes'[current].bindings = runtimes[current].bindings
  /\ runtimes'[current].shown = runtimes[current].shown

(* The entry's state may change too, if it becomes one that is not Live.     *)
LEMMA ViewKept ==
  ASSUME Owed, Captured, Recorded, UNCHANGED <<current, listeners>>,
         \/ ~Live'
         \/ entry' = entry /\ SameView
         \/ /\ SameView /\ Live
            /\ UNCHANGED <<entry.data, entry.options, entry.version>>
  PROVE  Owed' /\ Captured' /\ Recorded'
<1>1. Pending' = Pending /\ \A l : Working(l)' <=> Working(l)
  BY DEF Pending, Working, Mine
<1>2. Owed' BY <1>1 DEF Owed, SameView, Live
<1>3. Captured' BY <1>1 DEF Captured, SameView, Live
<1>4. Recorded' BY <1>1 DEF Recorded, SameView, Live, InForce
<1>. QED BY <1>2, <1>3, <1>4

LEMMA StepOutside ==
  ASSUME StoredInv, LifeInv', EntryFields', RuntimeFields', OperationsInv',
         Len(runtimes') = Len(runtimes), UNCHANGED <<current, listeners>>,
         \/ ~Live'
         \/ entry' = entry /\ SameView
         \/ /\ SameView /\ Live
            /\ UNCHANGED <<entry.data, entry.options, entry.version>>
  PROVE  StoredInv'
<1>1. ListenerFields' BY DEF StoredInv, ListenerFields
<1>2. Ordered' BY DEF StoredInv, Ordered
<1>3. Owed' /\ Captured' /\ Recorded' BY ViewKept DEF StoredInv
<1>. QED BY <1>1, <1>2, <1>3 DEF StoredInv

LEMMA FieldsReplaced ==
  ASSUME LifeInv, RuntimeFields, NEW c, NEW new,
         c \in DOMAIN runtimes =>
           /\ {"settings", "options", "version", "bindings", "shown", "running"}
                \subseteq DOMAIN new
           /\ new.version \in Nat,
         runtimes' = [runtimes EXCEPT ![c] = new]
  PROVE  /\ RuntimeFields' /\ Len(runtimes') = Len(runtimes)
         /\ DOMAIN runtimes' = DOMAIN runtimes
         /\ c \in DOMAIN runtimes => runtimes'[c] = new
         /\ \A r \in DOMAIN runtimes : r # c => runtimes'[r] = runtimes[r]
<1>1. PICK S : runtimes \in Seq(S) BY DEF LifeInv, RuntimesInv
<1>2. Len(runtimes') = Len(runtimes) /\ DOMAIN runtimes' = DOMAIN runtimes
  BY <1>1
<1>3. /\ c \in DOMAIN runtimes => runtimes'[c] = new
      /\ \A r \in DOMAIN runtimes : r # c => runtimes'[r] = runtimes[r]
  BY <1>1
<1>4. RuntimeFields'
  BY <1>2, <1>3 DEF RuntimeFields
<1>. QED BY <1>2, <1>3, <1>4

(* The connection, and what the shutdown stops.                              *)
LEMMA ConnectionKeepsStored ==
  ASSUME StoredInv, LifeInv', NEW new,
         current \in DOMAIN runtimes =>
           /\ DOMAIN new = DOMAIN runtimes[current]
           /\ new.settings = runtimes[current].settings
           /\ new.options = runtimes[current].options
           /\ new.version = runtimes[current].version
           /\ new.bindings = runtimes[current].bindings
           /\ new.shown = runtimes[current].shown,
         runtimes' = [runtimes EXCEPT ![current] = new],
         UNCHANGED <<entry, current, listeners, operations>>,
         \/ phase' = phase
         \/ phase'.step # "setup" /\ (phase'.step # "idle" => operations # <<>>)
  PROVE  StoredInv'
<1>1. /\ LifeInv /\ RuntimeFields
      /\ current \in DOMAIN runtimes =>
           /\ {"settings", "options", "version", "bindings", "shown", "running"}
                \subseteq DOMAIN new
           /\ new.version \in Nat
  BY DEF StoredInv, RuntimeFields
<1>2. /\ RuntimeFields' /\ Len(runtimes') = Len(runtimes)
      /\ current \in DOMAIN runtimes => runtimes'[current] = new
      /\ DOMAIN runtimes' = DOMAIN runtimes
  BY <1>1, FieldsReplaced
<1>3. SameView
  <2>1. CASE current \in DOMAIN runtimes BY <1>2, <2>1 DEF SameView
  <2>2. CASE current \notin DOMAIN runtimes
    <3>1. PICK S : runtimes \in Seq(S) BY <1>1 DEF LifeInv, RuntimesInv
    <3>2. runtimes' = runtimes BY <2>2, <3>1
    <3>. QED BY <3>2 DEF SameView
  <2>. QED BY <2>1, <2>2
<1>4. OperationsInv'
  <2>1. CallsStay BY DEF CallsStay
  <2>. QED BY <2>1, OperationsKept DEF StoredInv
<1>5. EntryFields' BY DEF StoredInv, EntryFields
<1>. QED BY <1>2, <1>3, <1>4, <1>5, StepOutside

(* The runtimes, and what is stored, stay as they are.                       *)
LEMMA UntouchedStored ==
  ASSUME StoredInv, LifeInv', UNCHANGED <<runtimes, current, listeners, entry>>,
         \/ /\ operations' = operations
            /\ \/ phase' = phase
               \/ phase'.step # "setup" /\ (phase'.step # "idle" => operations # <<>>)
         \/ \E kind : Request(kind) /\ phase' = phase
  PROVE  StoredInv'
<1>1. CallsStay BY DEF CallsStay
<1>2. OperationsInv'
  <2>1. CASE operations' = operations
    BY <1>1, <2>1, OperationsKept DEF StoredInv, OperationsInv
  <2>2. ASSUME NEW kind, Request(kind), phase' = phase PROVE OperationsInv'
    <3>. DEFINE op == [kind |-> kind, by |-> 0]
    <3>1. operations' = Append(operations, op) /\ op.by = 0 BY <2>2 DEF Request
    <3>. HIDE DEF op
    <3>. QED BY <1>1, <2>2, <3>1, OperationAppended DEF StoredInv
  <2>. QED BY <2>1, <2>2
<1>3. EntryFields' /\ RuntimeFields' BY DEF StoredInv, EntryFields, RuntimeFields
<1>. QED BY <1>2, <1>3, StepOutside DEF SameView

-----------------------------------------------------------------------------
(* Storing: a change of the settings or the options of a live entry makes a   *)
(* call of the listener.                                                     *)
LEMMA StoringKeepsStored ==
  ASSUME StoredInv, LifeInv', NEW data, NEW options, Update(data, options),
         UNCHANGED <<runtimes, current, phase>>,
         operations' = operations \/ \E kind : Request(kind)
  PROVE  StoredInv'
<1>. DEFINE changed == data # entry.data \/ options # entry.options
            call == [rt |-> current, options |-> options, version |-> 0,
                     stage |-> IF LockFree THEN "called" ELSE "queued"]
            new == Len(listeners) + 1
<1>1. /\ entry' = [entry EXCEPT !.data = data, !.options = options,
                     !.version = IF options # entry.options THEN @ + 1 ELSE @]
      /\ listeners' = IF changed /\ Registered THEN Append(listeners, call) ELSE listeners
  BY DEF Update
<1>2. /\ EntryFields' /\ entry'.state = entry.state
      /\ entry'.data = data /\ entry'.options = options
      /\ options = entry.options => entry'.version = entry.version
      /\ options # entry.options => entry'.version = entry.version + 1
      /\ entry.version \in Nat
  BY <1>1 DEF StoredInv, EntryFields
<1>3. RuntimeFields' BY DEF StoredInv, RuntimeFields
<1>4. PICK S : listeners \in Seq(S) BY DEF StoredInv, ListenerFields
<1>5. /\ \A k \in DOMAIN listeners : k \in DOMAIN listeners' /\ listeners'[k] = listeners[k]
      /\ DOMAIN listeners' \subseteq DOMAIN listeners \cup {new}
      /\ new \in DOMAIN listeners' => listeners'[new] = call /\ Registered
      /\ new \notin DOMAIN listeners
      /\ changed /\ Registered => new \in DOMAIN listeners'
      /\ \E T : listeners' \in Seq(T)
  <2>. HIDE DEF call, changed
  <2>1. CASE changed /\ Registered
    <3>1. listeners' = Append(listeners, call) BY <1>1, <2>1
    <3>2. listeners' \in Seq(S \cup {call}) BY <1>4, <3>1
    <3>3. /\ \A k \in DOMAIN listeners : k \in DOMAIN listeners' /\ listeners'[k] = listeners[k]
          /\ DOMAIN listeners' = DOMAIN listeners \cup {new} /\ listeners'[new] = call
          /\ new \notin DOMAIN listeners
      BY <1>4, <3>1
    <3>. QED BY <2>1, <3>2, <3>3
  <2>2. CASE ~(changed /\ Registered)
    <3>1. listeners' = listeners BY <1>1, <2>2
    <3>2. new \notin DOMAIN listeners BY <1>4
    <3>. QED BY <1>4, <2>2, <3>1, <3>2
  <2>. QED BY <2>1, <2>2
<1>6. /\ call.stage \in {"called", "queued"} /\ call.rt = current /\ call.version = 0
      /\ DOMAIN call = {"rt", "options", "version", "stage"}
  OBVIOUS
<1>7. Registered => current \in 1 .. Len(runtimes)
  BY DEF StoredInv, LifeInv, EntryInv, Registered
<1>. HIDE DEF call
<1>8. ListenerFields'
  BY <1>5, <1>6, <1>7 DEF StoredInv, ListenerFields, Stage
<1>9. CallsStay BY <1>5 DEF CallsStay
<1>10. OperationsInv'
  <2>1. CASE operations' = operations
    BY <1>9, <2>1, OperationsKept DEF StoredInv
  <2>2. ASSUME NEW kind, Request(kind) PROVE OperationsInv'
    <3>. DEFINE op == [kind |-> kind, by |-> 0]
    <3>1. operations' = Append(operations, op) /\ op.by = 0 BY <2>2 DEF Request
    <3>. HIDE DEF op
    <3>. QED BY <1>9, <3>1, OperationAppended DEF StoredInv
  <2>. QED BY <2>1, <2>2
<1>11. Ordered'
  <2>. SUFFICES ASSUME NEW l \in DOMAIN listeners',
                       listeners'[l].stage \notin {"called", "queued"},
                       NEW k \in 1 .. l - 1, listeners'[k].rt = listeners'[l].rt
                PROVE  listeners'[k].stage = "done"
    BY DEF Ordered
  <2>1. l \in DOMAIN listeners BY <1>5, <1>6
  <2>2. k \in DOMAIN listeners BY <1>4, <2>1
  <2>. QED BY <1>5, <2>1, <2>2 DEF StoredInv, Ordered
<1>12. \A l : Working(l)' <=> Working(l)
  BY <1>5, <1>6 DEF Working, Mine
<1>13. Pending => Pending'
  BY <1>5 DEF Pending, Mine
<1>14. Live /\ changed => Pending'
  BY <1>5, <1>6 DEF Pending, Mine, Live, Registered
<1>15. \A l : Working(l) => listeners'[l] = listeners[l]
  BY <1>5 DEF Working, Mine
<1>16. Owed'
  BY <1>2, <1>12, <1>13, <1>14, <1>15 DEF StoredInv, Owed, Live
<1>17. Captured'
  <2>1. \A l : Working(l) => l \in DOMAIN listeners /\ listeners[l].version \in Nat
    BY DEF StoredInv, ListenerFields, Working, Mine
  <2>. QED BY <1>2, <1>12, <1>15, <2>1 DEF StoredInv, Captured, Live
<1>18. Recorded'
  <2>1. Live => runtimes[current].version \in Nat
    <3>1. Live => current \in DOMAIN runtimes
      BY CurrentExists DEF StoredInv, Live, Registered
    <3>. QED BY <3>1 DEF StoredInv, RuntimeFields
  <2>. QED BY <1>2, <1>12, <2>1 DEF StoredInv, Recorded, Live, InForce
<1>. QED BY <1>2, <1>3, <1>8, <1>10, <1>11, <1>16, <1>17, <1>18 DEF StoredInv

-----------------------------------------------------------------------------
(* The operations.                                                           *)

(* A change of the entry's state alone keeps its other fields.               *)
LEMMA StateOnly ==
  ASSUME EntryFields, NEW state, entry' = [entry EXCEPT !.state = state]
  PROVE  /\ EntryFields' /\ entry'.state = state
         /\ UNCHANGED <<entry.data, entry.options, entry.version>>
BY DEF EntryFields

(* An operation that ends without a live entry.                              *)
LEMMA EndingKeepsStored ==
  ASSUME StoredInv, LifeInv', EntryFields', EndOperation, operations # <<>>, ~Live',
         UNCHANGED runtimes
  PROVE  StoredInv'
<1>1. ListenerFields' /\ OperationsInv' /\ Ordered'
  BY OperationEnds DEF StoredInv
<1>2. RuntimeFields' BY DEF StoredInv, RuntimeFields
<1>3. Owed' /\ Captured' /\ Recorded'
  BY DEF Owed, Captured, Recorded
<1>. QED BY <1>1, <1>2, <1>3 DEF StoredInv

LEMMA BeginSetupKeepsStored ==
  ASSUME StoredInv, LifeInv', BeginSetup
  PROVE  StoredInv'
<1>1. /\ runtimes' = Append(runtimes, NewRuntime) /\ current' = Len(runtimes) + 1
      /\ entry' = [entry EXCEPT !.state = "setup"] /\ phase' = [step |-> "setup"]
      /\ operations # <<>> /\ UNCHANGED <<operations, listeners>>
  BY DEF BeginSetup
<1>2. EntryFields' /\ UNCHANGED <<entry.data, entry.options, entry.version>>
  BY <1>1, StateOnly DEF StoredInv
<1>3. PICK S : runtimes \in Seq(S) BY DEF StoredInv, LifeInv, RuntimesInv
<1>4. /\ Len(runtimes') = Len(runtimes) + 1 /\ Len(runtimes) \in Nat
      /\ \A r \in DOMAIN runtimes' : r # current' =>
           r \in DOMAIN runtimes /\ runtimes'[r] = runtimes[r]
      /\ current' \in DOMAIN runtimes' /\ runtimes'[current'] = NewRuntime
  BY <1>1, <1>3
<1>5. /\ DOMAIN NewRuntime = {"settings", "options", "version", "bindings", "shown",
                              "started", "running", "conn"}
      /\ NewRuntime.settings = entry.data /\ NewRuntime.options = entry.options
      /\ NewRuntime.version = entry.version /\ NewRuntime.shown = entry.options
      /\ NewRuntime.bindings = InForce
  BY DEF NewRuntime, InForce
<1>6. RuntimeFields'
  BY <1>4, <1>5 DEF StoredInv, RuntimeFields, EntryFields
<1>7. ListenerFields'
  BY <1>1, <1>4 DEF StoredInv, ListenerFields
<1>8. \A l \in DOMAIN listeners : listeners[l].rt # current'
  BY <1>1, <1>4 DEF StoredInv, ListenerFields
<1>9. OperationsInv'
  <2>1. PICK T : operations \in Seq(T) BY DEF StoredInv, OperationsInv
  <2>2. 1 \in DOMAIN operations /\ Operation = operations[1] /\ Operation' = Operation
    BY <1>1, <2>1 DEF Operation
  <2>3. Operation.by # 0 => listeners[Operation.by].rt # current'
    BY <1>8, <2>2 DEF StoredInv, OperationsInv
  <2>4. \A i \in DOMAIN operations :
          operations[i].by # 0 =>
            /\ operations[i].by \in DOMAIN listeners
            /\ listeners[operations[i].by].stage = "reloading"
            /\ \A j \in DOMAIN operations : operations[j].by = operations[i].by => j = i
    BY DEF StoredInv, OperationsInv
  <2>. QED BY <1>1, <2>1, <2>2, <2>3, <2>4 DEF OperationsInv
<1>10. Ordered' BY <1>1 DEF StoredInv, Ordered
<1>11. \A l : ~Working(l)' BY <1>1, <1>8 DEF Working, Mine
<1>12. Owed' BY <1>2, <1>4, <1>5, <1>11 DEF Owed
<1>13. Captured' BY <1>11 DEF Captured
<1>14. Recorded'
  BY <1>2, <1>4, <1>5, <1>11 DEF Recorded, InForce, StoredInv, EntryFields
<1>. QED BY <1>2, <1>6, <1>7, <1>9, <1>10, <1>12, <1>13, <1>14 DEF StoredInv

(* The call that awaits the operation is not one of the runtime just made.   *)
LEMMA SetupSucceedsKeepsStored ==
  ASSUME StoredInv, LifeInv', SetupSucceeds
  PROVE  StoredInv'
<1>. DEFINE running == {"entities", "coordinator", "connection"} \cup
                         IF runtimes[current].bindings = <<>> THEN {} ELSE {"export"}
            new == [runtimes[current] EXCEPT !.started = TRUE, !.conn = "connecting",
                                             !.running = running]
<1>1. /\ phase.step = "setup" /\ entry.state = "setup"
      /\ EndOperation /\ current' = current
      /\ entry' = [entry EXCEPT !.state = "loaded"]
      /\ runtimes' = [runtimes EXCEPT ![current] = new]
  BY DEF SetupSucceeds, StoredInv, LifeInv, PhaseInv
<1>2. EntryFields' /\ UNCHANGED <<entry.data, entry.options, entry.version>> /\ Live
  BY <1>1, StateOnly DEF StoredInv, Live
<1>3. current \in DOMAIN runtimes
  BY <1>1, CurrentExists DEF StoredInv, Registered
<1>4. /\ DOMAIN new = DOMAIN runtimes[current]
      /\ new.settings = runtimes[current].settings
      /\ new.options = runtimes[current].options
      /\ new.version = runtimes[current].version
      /\ new.bindings = runtimes[current].bindings
      /\ new.shown = runtimes[current].shown
  OBVIOUS
<1>. HIDE DEF new
<1>5. /\ {"settings", "options", "version", "bindings", "shown", "running"}
           \subseteq DOMAIN new
      /\ new.version \in Nat
  BY <1>3, <1>4 DEF StoredInv, RuntimeFields
<1>6. RuntimeFields' /\ Len(runtimes') = Len(runtimes) /\ runtimes'[current] = new
  BY <1>1, <1>3, <1>5, FieldsReplaced DEF StoredInv
<1>7. SameView BY <1>4, <1>6 DEF SameView
<1>8. operations # <<>> /\ (Operation.by # 0 => listeners[Operation.by].rt # current)
  BY <1>1 DEF StoredInv, OperationsInv
<1>9. /\ ListenerFields' /\ OperationsInv' /\ Ordered'
      /\ DOMAIN listeners' = DOMAIN listeners
      /\ \A k \in DOMAIN listeners :
           /\ k # Operation.by => listeners'[k] = listeners[k]
           /\ listeners'[k].rt = listeners[k].rt
           /\ k = Operation.by => listeners[k].stage = "reloading"
                                  /\ listeners'[k].stage = "done"
  BY <1>1, <1>6, <1>8, OperationEnds DEF StoredInv
<1>10. \A k \in DOMAIN listeners : Mine(k) => listeners'[k] = listeners[k]
  <2>1. 0 \notin DOMAIN listeners BY DEF StoredInv, ListenerFields
  <2>. QED BY <1>8, <1>9, <2>1 DEF Mine
<1>11. Pending' <=> Pending
  BY <1>1, <1>9, <1>10 DEF Pending, Mine
<1>12. \A l : Working(l)' <=> Working(l)
  BY <1>1, <1>9, <1>10 DEF Working, Mine
<1>13. \A l : Working(l) => listeners'[l] = listeners[l]
  BY <1>10 DEF Working, Mine
<1>14. Owed'
  BY <1>1, <1>2, <1>7, <1>11, <1>12, <1>13 DEF StoredInv, Owed, SameView
<1>15. Captured'
  BY <1>1, <1>2, <1>7, <1>12, <1>13 DEF StoredInv, Captured, SameView
<1>16. Recorded'
  BY <1>1, <1>2, <1>7, <1>12 DEF StoredInv, Recorded, SameView, InForce
<1>. QED BY <1>2, <1>6, <1>9, <1>14, <1>15, <1>16 DEF StoredInv

LEMMA OperationKeepsStored ==
  ASSUME StoredInv, LifeInv', OperationStep \/ PlatformsStay \/ SetupFails
  PROVE  StoredInv'
<1>1. CASE BeginUnload
  <2>1. /\ EntryFields' /\ ~Live' /\ UNCHANGED <<runtimes, current, listeners, operations>>
        /\ phase' = [step |-> "platforms"] /\ operations # <<>>
    BY <1>1, StateOnly DEF BeginUnload, StoredInv, Live
  <2>2. OperationsInv'
    <3>1. CallsStay BY <2>1 DEF CallsStay
    <3>. QED BY <2>1, <3>1, OperationsKept DEF StoredInv
  <2>3. RuntimeFields' BY <2>1 DEF StoredInv, RuntimeFields
  <2>. QED BY <2>1, <2>2, <2>3, StepOutside
<1>2. CASE BeginSetup BY <1>2, BeginSetupKeepsStored
<1>3. CASE RefuseReload
  BY <1>3, EndingKeepsStored DEF RefuseReload, StoredInv, EntryFields, Live
<1>4. CASE RemoveEntry
  <2>1. EntryFields' /\ ~Live' BY <1>4, StateOnly DEF RemoveEntry, StoredInv, Live
  <2>. QED BY <1>4, <2>1, EndingKeepsStored DEF RemoveEntry
<1>5. CASE PlatformsUnloaded
  <2>1. operations # <<>> BY <1>5 DEF PlatformsUnloaded, StoredInv, OperationsInv
  <2>. QED BY <1>5, <2>1, UntouchedStored DEF PlatformsUnloaded
<1>6. CASE SetupSucceeds BY <1>6, SetupSucceedsKeepsStored
<1>7. CASE ShutdownStep
  <2>. DEFINE c == ShutdownOrder[phase.next]
              new == [runtimes[current] EXCEPT
                        !.running = @ \ {c}, !.conn = IF c = "connection" THEN "off" ELSE @]
  <2>1. /\ runtimes' = [runtimes EXCEPT ![current] = new]
        /\ UNCHANGED <<entry, current, listeners, operations>>
    BY <1>7 DEF ShutdownStep
  <2>2. /\ phase \in [step : {"shutdown"}, next : 1 .. 4] /\ operations # <<>>
        /\ phase' = IF c = "connection" THEN [step |-> "released"]
                    ELSE [phase EXCEPT !.next = @ + 1]
    BY <1>7 DEF ShutdownStep, StoredInv, LifeInv, PhaseInv, OperationsInv
  <2>3. phase'.step # "setup"
    BY <2>2
  <2>4. /\ DOMAIN new = DOMAIN runtimes[current]
        /\ new.settings = runtimes[current].settings
        /\ new.options = runtimes[current].options
        /\ new.version = runtimes[current].version
        /\ new.bindings = runtimes[current].bindings
        /\ new.shown = runtimes[current].shown
    OBVIOUS
  <2>. HIDE DEF new, c
  <2>. QED BY <2>1, <2>2, <2>3, <2>4, ConnectionKeepsStored
<1>8. CASE Unloaded
  <2>1. /\ EntryFields' /\ ~Live' /\ UNCHANGED runtimes /\ current' = 0 /\ operations # <<>>
    BY <1>8, StateOnly DEF Unloaded, StoredInv, Live, OperationsInv
  <2>2. CASE entry.state = "unloading"
    <3>1. phase' = [step |-> "idle"] /\ UNCHANGED <<operations, listeners>>
      BY <1>8, <2>2 DEF Unloaded
    <3>2. \A i \in DOMAIN operations :
            operations[i].by # 0 =>
              /\ operations[i].by \in DOMAIN listeners
              /\ listeners[operations[i].by].stage = "reloading"
              /\ \A j \in DOMAIN operations : operations[j].by = operations[i].by => j = i
      BY DEF StoredInv, OperationsInv
    <3>3. OperationsInv' BY <3>1, <3>2 DEF StoredInv, OperationsInv
    <3>4. RuntimeFields' /\ ListenerFields' /\ Ordered'
      BY <2>1, <3>1 DEF StoredInv, RuntimeFields, ListenerFields, Ordered
    <3>5. Owed' /\ Captured' /\ Recorded' BY <2>1 DEF Owed, Captured, Recorded
    <3>. QED BY <2>1, <3>3, <3>4, <3>5 DEF StoredInv
  <2>3. CASE entry.state # "unloading"
    BY <1>8, <2>1, <2>3, EndingKeepsStored DEF Unloaded
  <2>. QED BY <2>2, <2>3
<1>9. CASE PlatformsStay
  <2>1. EntryFields' /\ ~Live' /\ UNCHANGED <<runtimes, current>> /\ operations # <<>>
    BY <1>9, StateOnly DEF PlatformsStay, StoredInv, Live, OperationsInv
  <2>2. CASE Operation.kind = "reload"
    BY <1>9, <2>1, <2>2, EndingKeepsStored DEF PlatformsStay
  <2>3. CASE Operation.kind # "reload"
    <3>1. phase' = [step |-> "idle"] /\ UNCHANGED <<operations, listeners>>
      BY <1>9, <2>3 DEF PlatformsStay
    <3>2. CallsStay BY <3>1 DEF CallsStay
    <3>3. OperationsInv' BY <2>1, <3>1, <3>2, OperationsKept DEF StoredInv
    <3>4. RuntimeFields' BY <2>1 DEF StoredInv, RuntimeFields
    <3>. QED BY <2>1, <3>1, <3>3, <3>4, StepOutside
  <2>. QED BY <2>2, <2>3
<1>10. CASE SetupFails
  <2>1. operations # <<>> BY <1>10 DEF SetupFails, StoredInv, OperationsInv
  <2>. QED BY <1>10, <2>1, UntouchedStored DEF SetupFails
<1>. QED
  BY <1>1, <1>2, <1>3, <1>4, <1>5, <1>6, <1>7, <1>8, <1>9, <1>10 DEF OperationStep

-----------------------------------------------------------------------------
(* The calls of the listener.                                                *)

(* A call that has its turn and is not through is the only one at work for   *)
(* its runtime, and may go on without overtaking another.                    *)
LEMMA AloneAtWork ==
  ASSUME ListenerFields, Ordered, NEW l \in DOMAIN listeners, HasLock(l),
         listeners[l].stage # "done"
  PROVE  \A m \in DOMAIN listeners :
           /\ listeners[m].rt = listeners[l].rt
           /\ listeners[m].stage \notin {"called", "queued", "done"}
           => m = l
<1>1. PICK S : listeners \in Seq(S) BY DEF ListenerFields
<1>. SUFFICES ASSUME NEW m \in DOMAIN listeners, listeners[m].rt = listeners[l].rt,
                     listeners[m].stage \notin {"called", "queued", "done"}, m # l
              PROVE  FALSE
  OBVIOUS
<1>2. m \in Nat /\ l \in Nat /\ m >= 1 /\ l >= 1 BY <1>1
<1>3. CASE m < l
  <2>1. m \in 1 .. l - 1 BY <1>2, <1>3
  <2>. QED BY <2>1 DEF HasLock
<1>4. CASE l < m
  <2>1. l \in 1 .. m - 1 BY <1>2, <1>4
  <2>. QED BY <2>1 DEF Ordered
<1>. QED BY <1>2, <1>3, <1>4

LEMMA OrderKept ==
  ASSUME ListenerFields, Ordered, NEW l \in DOMAIN listeners, HasLock(l),
         listeners[l].stage # "done", DOMAIN listeners' = DOMAIN listeners,
         \A k \in DOMAIN listeners : k # l => listeners'[k] = listeners[k],
         listeners'[l].rt = listeners[l].rt
  PROVE  Ordered'
<1>1. PICK S : listeners \in Seq(S) BY DEF ListenerFields
<1>. SUFFICES ASSUME NEW m \in DOMAIN listeners,
                     listeners'[m].stage \notin {"called", "queued"},
                     NEW k \in 1 .. m - 1, listeners'[k].rt = listeners'[m].rt
              PROVE  listeners'[k].stage = "done"
  BY DEF Ordered
<1>2. k \in DOMAIN listeners /\ k # m BY <1>1
<1>3. listeners[k].rt = listeners[m].rt BY <1>2
<1>4. CASE m = l
  BY <1>2, <1>3, <1>4 DEF HasLock
<1>5. CASE m # l
  <2>1. listeners[k].stage = "done" BY <1>3, <1>5 DEF Ordered
  <2>. QED BY <1>2, <2>1
<1>. QED BY <1>4, <1>5

(* What is at work and to come of the other calls is not touched.            *)
OthersStay(l) ==
  /\ DOMAIN listeners' = DOMAIN listeners
  /\ \A k \in DOMAIN listeners : k # l => listeners'[k] = listeners[k]
  /\ listeners'[l].rt = listeners[l].rt

(* A call of another runtime than the one in force.                          *)
LEMMA OtherCallKeepsView ==
  ASSUME StoredInv, NEW l \in DOMAIN listeners, ~Mine(l), OthersStay(l), SameView,
         UNCHANGED <<entry, current>>
  PROVE  Owed' /\ Captured' /\ Recorded'
<1>1. Pending' <=> Pending BY DEF Pending, Mine, OthersStay
<1>2. \A m : Working(m)' <=> Working(m) BY DEF Working, Mine, OthersStay
<1>3. \A m : Working(m) => listeners'[m] = listeners[m] BY DEF Working, Mine, OthersStay
<1>4. Owed' BY <1>1, <1>2, <1>3 DEF StoredInv, Owed, SameView, Live
<1>5. Captured' BY <1>2, <1>3 DEF StoredInv, Captured, SameView, Live
<1>6. Recorded' BY <1>2 DEF StoredInv, Recorded, SameView, Live, InForce
<1>. QED BY <1>4, <1>5, <1>6

(* A call that starts: it asks for a reload, returns, or captures the        *)
(* options.                                                                  *)
LEMMA StartKeepsStored ==
  ASSUME StoredInv, LifeInv', NEW l \in DOMAIN listeners,
         ListenerReloads(l) \/ ListenerReturns(l) \/ ListenerBegins(l)
  PROVE  StoredInv'
<1>1. /\ UNCHANGED <<entry, current, runtimes, phase>> /\ HasLock(l)
      /\ listeners[l].stage \in {"called", "queued"}
  BY DEF ListenerReloads, ListenerReturns, ListenerBegins, Starts, At
<1>2. EntryFields' /\ RuntimeFields' /\ SameView
  BY <1>1 DEF StoredInv, EntryFields, RuntimeFields, SameView
<1>3. \A m : Working(m) => m # l
  BY <1>1 DEF Working
<1>4. Mine(l) => \A m : ~Working(m)
  BY <1>1, <1>3, AloneAtWork DEF StoredInv, Working, Mine
<1>5. CASE ListenerReloads(l) \/ ListenerReturns(l)
  <2>. DEFINE stage == IF ListenerReloads(l) THEN "reloading" ELSE "done"
  <2>1. listeners' = [listeners EXCEPT ![l].stage = stage] /\ stage \in Stage
    BY <1>5 DEF ListenerReloads, ListenerReturns, Move, Stage
  <2>2. stage \in {"reloading", "done"} OBVIOUS
  <2>. HIDE DEF stage
  <2>3. /\ ListenerFields' /\ OthersStay(l) /\ listeners'[l].stage = stage
    BY <1>1, <2>1, Moved DEF StoredInv, OthersStay
  <2>4. CallsStay
    BY <1>1, <2>3 DEF CallsStay, OthersStay
  <2>5. OperationsInv'
    <3>1. CASE ListenerReloads(l)
      <4>. DEFINE op == [kind |-> "reload", by |-> l]
      <4>1. operations' = Append(operations, op) /\ op.by = l
        BY <3>1 DEF ListenerReloads
      <4>2. stage = "reloading" BY <3>1 DEF stage
      <4>. HIDE DEF op
      <4>. QED BY <1>1, <2>3, <2>4, <4>1, <4>2, OperationAppended DEF StoredInv
    <3>2. CASE ListenerReturns(l)
      BY <1>1, <2>4, <3>2, OperationsKept DEF ListenerReturns, StoredInv
    <3>. QED BY <1>5, <3>1, <3>2
  <2>6. Ordered'
    BY <1>1, <2>3, OrderKept DEF StoredInv, OthersStay
  <2>7. CASE ~Mine(l)
    BY <1>1, <1>2, <2>3, <2>5, <2>6, <2>7, OtherCallKeepsView DEF StoredInv
  <2>8. CASE Mine(l)
    <3>1. \A m : ~Working(m)'
      BY <1>1, <1>4, <2>2, <2>3, <2>8 DEF Working, Mine, OthersStay
    <3>2. Captured' BY <3>1 DEF Captured
    <3>3. Recorded' BY <1>1, <3>1 DEF StoredInv, Recorded, Live, InForce
    <3>4. Owed'
      <4>1. CASE ListenerReloads(l)
        <5>1. stage = "reloading" BY <4>1 DEF stage
        <5>2. Pending' BY <1>1, <2>3, <2>8, <5>1 DEF Pending, Mine, OthersStay
        <5>. QED BY <5>2 DEF Owed
      <4>2. CASE ListenerReturns(l)
        <5>1. entry.data = runtimes[current].settings /\ entry.options = runtimes[current].options
          BY <2>8, <4>2 DEF ListenerReturns, SettingsChanged, RuntimeOf, Mine
        <5>. QED BY <1>1, <3>1, <5>1 DEF Owed
      <4>. QED BY <1>5, <4>1, <4>2
    <3>. QED BY <1>2, <2>3, <2>5, <2>6, <3>2, <3>3, <3>4 DEF StoredInv
  <2>. QED BY <2>7, <2>8
<1>6. CASE ListenerBegins(l)
  <2>. DEFINE call == [listeners[l] EXCEPT !.stage = "export", !.options = entry.options,
                                           !.version = entry.version]
  <2>1. listeners' = [listeners EXCEPT ![l] = call] /\ UNCHANGED operations
    BY <1>6 DEF ListenerBegins
  <2>2. /\ DOMAIN call = DOMAIN listeners[l] /\ call.rt = listeners[l].rt
        /\ call.stage = "export" /\ call.options = entry.options
        /\ call.version = entry.version
    BY DEF StoredInv, ListenerFields
  <2>. HIDE DEF call
  <2>3. /\ \E S : listeners' \in Seq(S)
        /\ OthersStay(l) /\ listeners'[l] = call
    BY <2>1, <2>2, ListenerReplaced DEF StoredInv, OthersStay
  <2>4. ListenerFields'
    BY <1>1, <2>2, <2>3 DEF StoredInv, ListenerFields, EntryFields, OthersStay, Stage
  <2>5. OperationsInv'
    <3>1. CallsStay BY <1>1, <2>3 DEF CallsStay, OthersStay
    <3>. QED BY <1>1, <2>1, <3>1, OperationsKept DEF StoredInv
  <2>6. Ordered'
    BY <1>1, <2>3, OrderKept DEF StoredInv, OthersStay
  <2>7. CASE ~Mine(l)
    BY <1>1, <1>2, <2>3, <2>4, <2>5, <2>6, <2>7, OtherCallKeepsView DEF StoredInv
  <2>8. CASE Mine(l)
    <3>1. Working(l)' /\ \A m : Working(m)' => m = l
      BY <1>1, <1>4, <2>2, <2>3, <2>8 DEF Working, Mine, OthersStay
    <3>2. /\ entry.data = runtimes[current].settings
          /\ entry.options # runtimes[current].options
      BY <1>6, <2>8 DEF ListenerBegins, SettingsChanged, RuntimeOf, Mine
    <3>3. Owed' BY <1>1, <2>2, <2>3, <3>1, <3>2 DEF Owed
    <3>4. Captured' BY <1>1, <2>2, <2>3, <3>1 DEF StoredInv, EntryFields, Captured
    <3>5. Recorded' BY <1>1, <3>2 DEF StoredInv, Recorded, Live
    <3>. QED BY <1>2, <2>4, <2>5, <2>6, <3>3, <3>4, <3>5 DEF StoredInv
  <2>. QED BY <2>7, <2>8
<1>. QED BY <1>5, <1>6

(* The reconfiguration of the export manager and of the coordinator.         *)
LEMMA ReconfigurationKeepsStored ==
  ASSUME StoredInv, LifeInv', NEW l \in DOMAIN listeners, ExportReconfigured(l)
  PROVE  StoredInv'
<1>. DEFINE c == listeners[l].rt
            bindings == ExportBindings(listeners[l].options.exports)
            running == IF bindings = runtimes[c].bindings THEN runtimes[c].running
                       ELSE IF bindings = <<>> THEN runtimes[c].running \ {"export"}
                       ELSE IF runtimes[c].started THEN runtimes[c].running \cup {"export"}
                       ELSE runtimes[c].running
            new == [runtimes[c] EXCEPT !.bindings = bindings, !.shown = entry.options,
                                       !.running = running]
<1>1. /\ UNCHANGED <<entry, current, phase, operations>> /\ HasLock(l)
      /\ listeners[l].stage = "export"
      /\ listeners' = [listeners EXCEPT ![l].stage = "entities"]
      /\ runtimes' = [runtimes EXCEPT ![c] = new]
  BY DEF ExportReconfigured, At, Move, RuntimeOf
<1>2. c \in DOMAIN runtimes
  <2>1. PICK S : runtimes \in Seq(S) BY DEF StoredInv, LifeInv, RuntimesInv
  <2>. QED BY <2>1 DEF StoredInv, ListenerFields
<1>3. {"settings", "options", "version", "bindings", "shown", "running"}
        \subseteq DOMAIN runtimes[c] /\ runtimes[c].version \in Nat
  BY <1>2 DEF StoredInv, RuntimeFields
<1>4. /\ DOMAIN new = DOMAIN runtimes[c]
      /\ new.settings = runtimes[c].settings /\ new.options = runtimes[c].options
      /\ new.version = runtimes[c].version
      /\ new.bindings = bindings /\ new.shown = entry.options
  BY <1>3
<1>. HIDE DEF new
<1>5. /\ RuntimeFields' /\ Len(runtimes') = Len(runtimes) /\ runtimes'[c] = new
      /\ \A r \in DOMAIN runtimes : r # c => runtimes'[r] = runtimes[r]
      /\ DOMAIN runtimes' = DOMAIN runtimes
  <2>. HIDE DEF c
  <2>. QED BY <1>1, <1>2, <1>3, <1>4, FieldsReplaced DEF StoredInv
<1>6. ListenerFields' /\ OthersStay(l) /\ listeners'[l].stage = "entities"
      /\ listeners'[l].options = listeners[l].options
      /\ listeners'[l].version = listeners[l].version
  <2>1. "entities" \in Stage BY DEF Stage
  <2>. QED BY <1>1, <1>5, <2>1, Moved DEF StoredInv, OthersStay
<1>7. OperationsInv'
  <2>1. CallsStay BY <1>1, <1>6 DEF CallsStay, OthersStay
  <2>. QED BY <1>1, <2>1, OperationsKept DEF StoredInv
<1>8. Ordered'
  BY <1>1, <1>6, OrderKept DEF StoredInv, OthersStay
<1>9. EntryFields' BY <1>1 DEF StoredInv, EntryFields
<1>10. CASE ~Mine(l)
  <2>1. c # current BY <1>10 DEF Mine
  <2>2. SameView
    <3>1. PICK S : runtimes \in Seq(S) BY DEF StoredInv, LifeInv, RuntimesInv
    <3>2. runtimes'[current] = runtimes[current] BY <1>1, <2>1, <3>1
    <3>. QED BY <3>2 DEF SameView
  <2>. QED BY <1>1, <1>5, <1>6, <1>7, <1>8, <1>9, <1>10, <2>2, OtherCallKeepsView DEF StoredInv
<1>11. CASE Mine(l)
  <2>1. c = current BY <1>11 DEF Mine
  <2>2. Working(l) /\ \A m : Working(m) => m = l
    BY <1>1, <1>11, AloneAtWork DEF StoredInv, Working, Mine
  <2>3. Working(l)' /\ \A m : Working(m)' => m = l
    BY <1>1, <1>6, <2>2, <1>11 DEF Working, Mine, OthersStay
  <2>4. Pending => Pending'
    BY <1>1, <1>6 DEF Pending, Mine, OthersStay
  <2>5. /\ runtimes'[current].settings = runtimes[current].settings
        /\ runtimes'[current].version = runtimes[current].version
        /\ runtimes'[current].bindings = bindings
        /\ runtimes'[current].shown = entry.options
    BY <1>4, <1>5, <2>1
  <2>6. Owed' BY <1>1, <1>6, <2>2, <2>3, <2>4, <2>5 DEF StoredInv, Owed, Live
  <2>7. Captured' BY <1>1, <1>6, <2>2, <2>3, <2>5 DEF StoredInv, Captured, Live
  <2>8. Recorded' BY <1>1, <2>2, <2>5 DEF StoredInv, Recorded, Live
  <2>. QED BY <1>5, <1>6, <1>7, <1>8, <1>9, <2>6, <2>7, <2>8 DEF StoredInv
<1>. QED BY <1>10, <1>11

(* The end of a call: what it captured is recorded as applied.               *)
LEMMA EndKeepsStored ==
  ASSUME StoredInv, LifeInv', NEW l \in DOMAIN listeners, ListenerEnds(l)
  PROVE  StoredInv'
<1>. DEFINE c == listeners[l].rt
            new == [runtimes[c] EXCEPT !.options = listeners[l].options,
                                       !.version = listeners[l].version]
<1>1. /\ UNCHANGED <<entry, current, phase, operations>> /\ HasLock(l)
      /\ listeners[l].stage = "entities"
      /\ listeners' = [listeners EXCEPT ![l].stage = "done"]
      /\ runtimes' = [runtimes EXCEPT ![c] = new]
  BY DEF ListenerEnds, At, Move, Applied
<1>2. c \in DOMAIN runtimes
  <2>1. PICK S : runtimes \in Seq(S) BY DEF StoredInv, LifeInv, RuntimesInv
  <2>. QED BY <2>1 DEF StoredInv, ListenerFields
<1>3. {"settings", "options", "version", "bindings", "shown", "running"}
        \subseteq DOMAIN runtimes[c]
  BY <1>2 DEF StoredInv, RuntimeFields
<1>4. /\ DOMAIN new = DOMAIN runtimes[c]
      /\ new.settings = runtimes[c].settings
      /\ new.options = listeners[l].options /\ new.version = listeners[l].version
      /\ new.bindings = runtimes[c].bindings /\ new.shown = runtimes[c].shown
  BY <1>3
<1>5. listeners[l].version \in Nat BY DEF StoredInv, ListenerFields
<1>. HIDE DEF new
<1>6. /\ RuntimeFields' /\ Len(runtimes') = Len(runtimes) /\ runtimes'[c] = new
      /\ \A r \in DOMAIN runtimes : r # c => runtimes'[r] = runtimes[r]
  <2>. HIDE DEF c
  <2>. QED BY <1>1, <1>2, <1>3, <1>4, <1>5, FieldsReplaced DEF StoredInv
<1>7. ListenerFields' /\ OthersStay(l) /\ listeners'[l].stage = "done"
  <2>1. "done" \in Stage BY DEF Stage
  <2>. QED BY <1>1, <1>6, <2>1, Moved DEF StoredInv, OthersStay
<1>8. OperationsInv'
  <2>1. CallsStay BY <1>1, <1>7 DEF CallsStay, OthersStay
  <2>. QED BY <1>1, <2>1, OperationsKept DEF StoredInv
<1>9. Ordered'
  BY <1>1, <1>7, OrderKept DEF StoredInv, OthersStay
<1>10. EntryFields' BY <1>1 DEF StoredInv, EntryFields
<1>11. CASE ~Mine(l)
  <2>1. c # current BY <1>11 DEF Mine
  <2>2. SameView
    <3>1. PICK S : runtimes \in Seq(S) BY DEF StoredInv, LifeInv, RuntimesInv
    <3>2. runtimes'[current] = runtimes[current] BY <1>1, <2>1, <3>1
    <3>. QED BY <3>2 DEF SameView
  <2>. QED BY <1>1, <1>6, <1>7, <1>8, <1>9, <1>10, <1>11, <2>2, OtherCallKeepsView DEF StoredInv
<1>12. CASE Mine(l)
  <2>1. c = current BY <1>12 DEF Mine
  <2>2. Working(l) /\ \A m : Working(m) => m = l
    BY <1>1, <1>12, AloneAtWork DEF StoredInv, Working, Mine
  <2>3. \A m : ~Working(m)'
    BY <1>1, <1>7, <2>2 DEF Working, Mine, OthersStay
  <2>4. Pending => Pending'
    BY <1>1, <1>7 DEF Pending, Mine, OthersStay
  <2>5. /\ runtimes'[current].settings = runtimes[current].settings
        /\ runtimes'[current].options = listeners[l].options
        /\ runtimes'[current].version = listeners[l].version
        /\ runtimes'[current].bindings = runtimes[current].bindings
        /\ runtimes'[current].shown = runtimes[current].shown
    BY <1>4, <1>6, <2>1
  <2>6. Owed' BY <1>1, <2>2, <2>3, <2>4, <2>5 DEF StoredInv, Owed, Live
  <2>7. Captured' BY <2>3 DEF Captured
  <2>8. Recorded'
    BY <1>1, <2>2, <2>3, <2>5 DEF StoredInv, Captured, Recorded, Live, InForce
  <2>. QED BY <1>6, <1>7, <1>8, <1>9, <1>10, <2>6, <2>7, <2>8 DEF StoredInv
<1>. QED BY <1>11, <1>12

LEMMA ListenerKeepsStored ==
  ASSUME StoredInv, NEW l \in DOMAIN listeners, Listener(l)
  PROVE  StoredInv'
<1>1. LifeInv' BY ListenerKeepsLife DEF StoredInv
<1>. QED
  BY <1>1, StartKeepsStored, ReconfigurationKeepsStored, EndKeepsStored DEF Listener

-----------------------------------------------------------------------------
(* The connection, the user, and the flows.                                  *)

LEMMA EntryStepKeepsStored ==
  ASSUME StoredInv, EntryStep
  PROVE  StoredInv'
<1>1. LifeInv' BY EntryStepKeepsLife DEF StoredInv
<1>2. CASE OperationStep \/ PlatformsStay \/ SetupFails
  BY <1>1, <1>2, OperationKeepsStored
<1>3. CASE UserReloads \/ UserRemoves
  BY <1>1, <1>3, UntouchedStored DEF UserReloads, UserRemoves
<1>4. ASSUME NEW conn, runtimes' = [runtimes EXCEPT ![current].conn = conn],
             UNCHANGED <<entry, current, operations, phase, listeners>>
      PROVE  StoredInv'
  <2>. DEFINE new == [runtimes[current] EXCEPT !.conn = conn]
  <2>1. runtimes' = [runtimes EXCEPT ![current] = new] BY <1>4
  <2>2. /\ DOMAIN new = DOMAIN runtimes[current]
        /\ new.settings = runtimes[current].settings
        /\ new.options = runtimes[current].options
        /\ new.version = runtimes[current].version
        /\ new.bindings = runtimes[current].bindings
        /\ new.shown = runtimes[current].shown
    OBVIOUS
  <2>. HIDE DEF new
  <2>. QED BY <1>1, <1>4, <2>1, <2>2, ConnectionKeepsStored
<1>5. CASE Connect \/ Refuse
  BY <1>4, <1>5 DEF Connect, Refuse
<1>6. ASSUME NEW s \in Setting, ControllerChanges(s)
      PROVE  StoredInv'
  <2>1. CASE Connection({"connected"})
    BY <1>4, <1>6, <2>1 DEF ControllerChanges
  <2>2. CASE ~Connection({"connected"})
    BY <1>1, <1>6, <2>2, UntouchedStored DEF ControllerChanges
  <2>. QED BY <2>1, <2>2
<1>7. ASSUME NEW t \in Id, ExportWorks(t) \/ \E r \in DOMAIN runtimes : ExportFails(r, t)
      PROVE  StoredInv'
  BY <1>1, <1>7, UntouchedStored DEF ExportWorks, ExportFails
<1>. QED BY <1>2, <1>3, <1>5, <1>6, <1>7 DEF EntryStep

LEMMA CreateEntryKeepsStored ==
  ASSUME StoredInv, NEW f, NEW mode, NEW selected, NEW auto,
         CreateEntry(f, mode, selected, auto)
  PROVE  StoredInv'
<1>1. LifeInv' BY CreateEntryKeepsLife DEF StoredInv
<1>2. /\ UNCHANGED <<runtimes, current, phase, listeners>> /\ Request("reload")
      /\ EntryFields' /\ ~Live'
  BY DEF CreateEntry, EntryFields, Live
<1>. DEFINE op == [kind |-> "reload", by |-> 0]
<1>3. operations' = Append(operations, op) /\ op.by = 0 BY <1>2 DEF Request
<1>4. CallsStay BY <1>2 DEF CallsStay
<1>. HIDE DEF op
<1>5. OperationsInv' BY <1>2, <1>3, <1>4, OperationAppended DEF StoredInv
<1>6. RuntimeFields' BY <1>2 DEF StoredInv, RuntimeFields
<1>. QED BY <1>1, <1>2, <1>5, <1>6, StepOutside

LEMMA FlowStepKeepsStored ==
  ASSUME StoredInv, NEW f \in Flow, FlowStep(f)
  PROVE  StoredInv'
<1>1. LifeInv' BY FlowStepKeepsLife DEF StoredInv
<1>2. ASSUME NEW kind, OpenOptions(f, kind) \/ OpenManaged(f, kind)
      PROVE  StoredInv'
  BY <1>1, <1>2, UntouchedStored DEF OpenOptions, OpenManaged
<1>3. ASSUME NEW kind, NEW data, OpenSession(f, kind, data)
      PROVE  StoredInv'
  BY <1>1, <1>3, UntouchedStored DEF OpenSession
<1>4. CASE Discovered(f) \/ Abandon(f) \/ SetUpInitially(f) \/ TargetRead(f)
  BY <1>1, <1>4, UntouchedStored
  DEF Discovered, Abandon, SetUpInitially, TargetRead, entryVars
<1>5. CASE StoreSettings(f)
  BY <1>1, <1>5, StoringKeepsStored DEF StoreSettings
<1>6. ASSUME NEW mode, ChooseMode(f, mode)
      PROVE  StoredInv'
  BY <1>1, <1>6, StoringKeepsStored DEF ChooseMode, Store
<1>7. ASSUME NEW selected, NEW auto, SelectDevices(f, selected, auto)
      PROVE  StoredInv'
  BY <1>1, <1>7, StoringKeepsStored DEF SelectDevices, Store
<1>8. CASE DeleteBinding(f)
  BY <1>1, <1>8, StoringKeepsStored DEF DeleteBinding, Store
<1>9. ASSUME NEW s, CreateTarget(f, s) \/ ChangeSource(f, s)
      PROVE  StoredInv'
  BY <1>1, <1>9, UntouchedStored DEF CreateTarget, ChangeSource, BeginTest, entryVars
<1>10. ASSUME NEW s, NEW t, LinkTarget(f, s, t)
       PROVE  StoredInv'
  BY <1>1, <1>10, UntouchedStored DEF LinkTarget, BeginTest, entryVars
<1>11. ASSUME NEW t, Rebind(f, t) \/ TargetCreated(f, t)
       PROVE  StoredInv'
  BY <1>1, <1>11, UntouchedStored DEF Rebind, TargetCreated, BeginTest, entryVars
<1>12. CASE BindingTested(f)
  BY <1>1, <1>12, StoringKeepsStored DEF BindingTested, Store
<1>13. ASSUME NEW created, TestFails(f, created)
       PROVE  StoredInv'
  BY <1>1, <1>13, UntouchedStored DEF TestFails, entryVars
<1>. QED
  BY <1>2, <1>3, <1>4, <1>5, <1>6, <1>7, <1>8, <1>9, <1>10, <1>11, <1>12, <1>13,
     CreateEntryKeepsStored DEF FlowStep

-----------------------------------------------------------------------------
LEMMA InitStored ==
  ASSUME NEW objects, NEW settings, NEW stored, NEW bounds,
         InitWith(objects, settings, stored, bounds)
  PROVE  StoredInv
<1>1. LifeInv BY InitLife
<1>2. /\ runtimes = <<>> /\ listeners = <<>> /\ phase = [step |-> "idle"]
      /\ operations = <<>> \/ operations = <<[kind |-> "reload", by |-> 0]>>
  BY DEF InitWith
<1>3. EntryFields /\ ~Live
  BY DEF InitWith, EntryFields, Live
<1>4. RuntimeFields /\ ListenerFields /\ Ordered
  <2>1. DOMAIN runtimes = {} /\ DOMAIN listeners = {} /\ listeners \in Seq({}) BY <1>2
  <2>. QED BY <2>1 DEF RuntimeFields, ListenerFields, Ordered
<1>5. OperationsInv
  <2>. DEFINE op == [kind |-> "reload", by |-> 0]
  <2>1. op.by = 0 /\ phase.step = "idle" /\ (operations = <<>> \/ operations = <<op>>)
    BY <1>2
  <2>. HIDE DEF op
  <2>2. CASE operations = <<>>
    <3>1. operations \in Seq({op}) /\ DOMAIN operations = {} BY <2>2
    <3>. QED BY <2>1, <3>1 DEF OperationsInv
  <2>3. CASE operations = <<op>>
    <3>1. operations \in Seq({op}) /\ DOMAIN operations = {1} /\ operations[1] = op
      BY <2>3
    <3>. QED BY <2>1, <3>1 DEF OperationsInv
  <2>. QED BY <2>1, <2>2, <2>3
<1>6. Owed /\ Captured /\ Recorded BY <1>3 DEF Owed, Captured, Recorded
<1>. QED BY <1>1, <1>3, <1>4, <1>5, <1>6 DEF StoredInv

LEMMA NextKeepsStored == StoredInv /\ [Next]_vars => StoredInv'
<1>. SUFFICES ASSUME StoredInv, [Next]_vars PROVE StoredInv'
  OBVIOUS
<1>1. CASE UNCHANGED vars
  <2>1. LifeInv' BY <1>1, NextKeepsLife DEF StoredInv
  <2>. QED BY <1>1, <2>1, UntouchedStored DEF vars, entryVars
<1>2. CASE Next
  BY <1>2, ListenerKeepsStored, EntryStepKeepsStored, FlowStepKeepsStored DEF Next
<1>. QED BY <1>1, <1>2

-----------------------------------------------------------------------------
(* The repair issues.                                                        *)
(*                                                                         *)
(* An issue belongs to a target.  It is deleted with its binding, by the     *)
(* flow, by the removal of the entry, or by the call of the listener that    *)
(* reconfigures the export manager.  So each issue is accounted for: its     *)
(* target is in force, or the manager in force still has it, or a call is to *)
(* come that deletes it.                                                     *)

(* Call l is still to drop target t, if its runtime has t.                   *)
Drops(l, t) ==
  /\ l \in DOMAIN listeners
  /\ \/ listeners[l].stage \in {"called", "queued"}
     \/ listeners[l].stage = "export" /\ t \notin ExportTargetIds(listeners[l].options)

Held(t) == current \in DOMAIN runtimes /\ t \in TargetsOf(runtimes[current].bindings)

Accounted(t) ==
  \/ Exists /\ t \in TargetsOf(InForce)
  \/ Registered /\ Held(t)
  \/ /\ \E l \in DOMAIN listeners :
          Drops(l, t) /\ t \in TargetsOf(runtimes[listeners[l].rt].bindings)
     /\ entry.state = "removed" => t \notin TargetsOf(InForce)
  \/ entry.state = "removed" /\ Held(t) /\ "export" \in runtimes[current].running

IssueInv == issues \subseteq Id /\ \A t \in issues \ orphaned : Accounted(t)

(* A target of the manager in force that was deleted is dropped by a call of *)
(* its runtime.                                                              *)
HeldInv ==
  Registered => \A t : Held(t) =>
    \/ t \in TargetsOf(InForce) \/ t \in orphaned
    \/ \E l : Mine(l) /\ Drops(l, t)

(* What a call at work has captured is stored, or another call is to come.   *)
CapturedInv ==
  Registered => \A l : Working(l) =>
    \/ listeners[l].options = entry.options
    \/ \E m : Mine(m) /\ listeners[m].stage \in {"called", "queued"}

(* The bindings of a runtime are those of the options recorded as applied,   *)
(* except between the reconfiguration of the manager and the end of its call.*)
BindingsInv ==
  \A r \in DOMAIN runtimes :
    /\ \A l \in DOMAIN listeners : listeners[l].rt = r /\ listeners[l].stage = "entities" =>
         runtimes[r].bindings = ExportBindings(listeners[l].options.exports)
    /\ (\A l \in DOMAIN listeners : listeners[l].rt = r => listeners[l].stage # "entities") =>
         runtimes[r].bindings = ExportBindings(runtimes[r].options.exports)

(* Only the runtime in force has a connection, once its set-up has succeeded *)
(* and until its shutdown is through.                                        *)
ConnState == {"off", "connecting", "connected", "refused"}

ConnInv ==
  \A r \in DOMAIN runtimes :
    /\ "conn" \in DOMAIN runtimes[r] /\ runtimes[r].conn \in ConnState
    /\ runtimes[r].conn # "off" =>
         /\ r = current /\ phase.step \notin {"setup", "released"}
         /\ entry.state \in {"loaded", "unloading", "failed_unload", "removed"}

(* The client that a test captured is that of a runtime.                     *)
ClientInv == \A f \in Flow : Testing(f) => flows[f].client \in DOMAIN runtimes

(* There is nothing yet before the entry is created.                         *)
NoneInv == entry.state = "none" => DOMAIN runtimes = {} /\ issues = {}

CallsInv == HeldInv /\ CapturedInv /\ BindingsInv /\ IssueInv /\ NoneInv

-----------------------------------------------------------------------------
(* The connection.                                                           *)

(* A runtime is replaced by one with another connection, or with none.       *)
LEMMA ConnReplaced ==
  ASSUME LifeInv, ConnInv, NEW c, NEW new,
         runtimes' = [runtimes EXCEPT ![c] = new],
         c \in DOMAIN runtimes =>
           /\ "conn" \in DOMAIN new /\ new.conn \in ConnState
           /\ new.conn # "off" =>
                /\ c = current' /\ phase'.step \notin {"setup", "released"}
                /\ entry'.state \in {"loaded", "unloading", "failed_unload", "removed"},
         \A r \in DOMAIN runtimes \ {c} : runtimes[r].conn # "off" =>
           /\ r = current' /\ phase'.step \notin {"setup", "released"}
           /\ entry'.state \in {"loaded", "unloading", "failed_unload", "removed"}
  PROVE  ConnInv'
<1>1. PICK S : runtimes \in Seq(S) BY DEF LifeInv, RuntimesInv
<1>2. /\ DOMAIN runtimes' = DOMAIN runtimes
      /\ c \in DOMAIN runtimes => runtimes'[c] = new
      /\ \A r \in DOMAIN runtimes \ {c} : runtimes'[r] = runtimes[r]
  BY <1>1
<1>. QED BY <1>2 DEF ConnInv

LEMMA OperationKeepsConn ==
  ASSUME LifeInv, ConnInv, OperationStep \/ PlatformsStay \/ SetupFails
  PROVE  ConnInv'
<1>. DEFINE On == {"loaded", "unloading", "failed_unload", "removed"}
<1>0. "state" \in DOMAIN entry BY DEF LifeInv, EntryInv
<1>1. CASE BeginUnload
  BY <1>0, <1>1 DEF BeginUnload, ConnInv
<1>2. CASE BeginSetup
  <2>1. PICK S : runtimes \in Seq(S) BY DEF LifeInv, RuntimesInv
  <2>2. runtimes' = Append(runtimes, NewRuntime) /\ entry.state \in {"not_loaded", "error"}
    BY <1>2 DEF BeginSetup
  <2>3. /\ \A r \in DOMAIN runtimes' : r \in DOMAIN runtimes \/ r = Len(runtimes) + 1
        /\ \A r \in DOMAIN runtimes : runtimes'[r] = runtimes[r]
        /\ runtimes'[Len(runtimes) + 1] = NewRuntime
    BY <2>1, <2>2
  <2>4. "conn" \in DOMAIN NewRuntime /\ NewRuntime.conn = "off" BY DEF NewRuntime
  <2>5. \A r \in DOMAIN runtimes : runtimes[r].conn = "off" BY <2>2 DEF ConnInv
  <2>. QED BY <2>3, <2>4, <2>5 DEF ConnInv, ConnState
<1>3. CASE RefuseReload
  BY <1>3 DEF RefuseReload, EndOperation, ConnInv
<1>4. CASE RemoveEntry
  BY <1>0, <1>4 DEF RemoveEntry, EndOperation, ConnInv
<1>5. CASE PlatformsUnloaded \/ SetupFails
  BY <1>5 DEF PlatformsUnloaded, SetupFails, ConnInv, LifeInv, PhaseInv
<1>6. CASE PlatformsStay
  BY <1>0, <1>6 DEF PlatformsStay, EndOperation, ConnInv
<1>7. CASE SetupSucceeds
  <2>. DEFINE running == {"entities", "coordinator", "connection"} \cup
                         IF runtimes[current].bindings = <<>> THEN {} ELSE {"export"}
              new == [runtimes[current] EXCEPT !.started = TRUE, !.conn = "connecting",
                                               !.running = running]
  <2>1. /\ runtimes' = [runtimes EXCEPT ![current] = new] /\ current' = current
        /\ entry' = [entry EXCEPT !.state = "loaded"] /\ phase' = [step |-> "idle"]
        /\ entry.state = "setup"
    BY <1>7 DEF SetupSucceeds, EndOperation, LifeInv, PhaseInv
  <2>2. current \in DOMAIN runtimes => "conn" \in DOMAIN new /\ new.conn = "connecting"
    BY DEF ConnInv
  <2>3. \A r \in DOMAIN runtimes : runtimes[r].conn = "off" BY <2>1 DEF ConnInv
  <2>. HIDE DEF new
  <2>. QED BY <1>0, <2>1, <2>2, <2>3, ConnReplaced DEF ConnState
<1>8. CASE ShutdownStep
  <2>. DEFINE c == ShutdownOrder[phase.next]
              new == [runtimes[current] EXCEPT
                        !.running = @ \ {c}, !.conn = IF c = "connection" THEN "off" ELSE @]
  <2>1. /\ runtimes' = [runtimes EXCEPT ![current] = new]
        /\ UNCHANGED <<entry, current>>
        /\ phase' = IF c = "connection" THEN [step |-> "released"]
                    ELSE [phase EXCEPT !.next = @ + 1]
        /\ phase \in [step : {"shutdown"}, next : 1 .. 4]
    BY <1>8 DEF ShutdownStep, LifeInv, PhaseInv
  <2>2. current \in DOMAIN runtimes =>
          /\ "conn" \in DOMAIN new
          /\ new.conn = IF c = "connection" THEN "off" ELSE runtimes[current].conn
    BY DEF ConnInv
  <2>3. c # "connection" => phase'.step = "shutdown" BY <2>1
  <2>. HIDE DEF new, c
  <2>. QED BY <2>1, <2>2, <2>3, ConnReplaced DEF ConnInv, ConnState
<1>9. CASE Unloaded
  BY <1>9 DEF Unloaded, EndOperation, ConnInv
<1>. QED BY <1>1, <1>2, <1>3, <1>4, <1>5, <1>6, <1>7, <1>8, <1>9 DEF OperationStep

LEMMA ListenerKeepsConn ==
  ASSUME LifeInv, ConnInv, NEW l, Listener(l)
  PROVE  ConnInv'
<1>. DEFINE c == listeners[l].rt
<1>1. CASE ListenerReloads(l) \/ ListenerReturns(l) \/ ListenerBegins(l)
  BY <1>1 DEF ListenerReloads, ListenerReturns, ListenerBegins, ConnInv
<1>2. ASSUME NEW new, runtimes' = [runtimes EXCEPT ![c] = new],
             UNCHANGED <<entry, current, phase>>,
             c \in DOMAIN runtimes => "conn" \in DOMAIN new /\ new.conn = runtimes[c].conn
      PROVE  ConnInv'
  <2>. HIDE DEF c
  <2>. QED BY <1>2, ConnReplaced DEF ConnInv
<1>3. CASE ExportReconfigured(l)
  <2>. DEFINE bindings == ExportBindings(listeners[l].options.exports)
              running == IF bindings = runtimes[c].bindings THEN runtimes[c].running
                         ELSE IF bindings = <<>> THEN runtimes[c].running \ {"export"}
                         ELSE IF runtimes[c].started THEN runtimes[c].running \cup {"export"}
                         ELSE runtimes[c].running
              new == [runtimes[c] EXCEPT !.bindings = bindings, !.shown = entry.options,
                                         !.running = running]
  <2>1. runtimes' = [runtimes EXCEPT ![c] = new] /\ UNCHANGED <<entry, current, phase>>
    BY <1>3 DEF ExportReconfigured, RuntimeOf
  <2>2. c \in DOMAIN runtimes => "conn" \in DOMAIN new /\ new.conn = runtimes[c].conn
    BY DEF ConnInv
  <2>. HIDE DEF new
  <2>. QED BY <1>2, <2>1, <2>2
<1>4. CASE ListenerEnds(l)
  <2>. DEFINE new == [runtimes[c] EXCEPT !.options = Applied(l).options,
                                         !.version = Applied(l).version]
  <2>1. runtimes' = [runtimes EXCEPT ![c] = new] /\ UNCHANGED <<entry, current, phase>>
    BY <1>4 DEF ListenerEnds
  <2>2. c \in DOMAIN runtimes => "conn" \in DOMAIN new /\ new.conn = runtimes[c].conn
    BY DEF ConnInv
  <2>. HIDE DEF new
  <2>. QED BY <1>2, <2>1, <2>2
<1>. QED BY <1>1, <1>3, <1>4 DEF Listener

LEMMA EntryStepKeepsConn ==
  ASSUME LifeInv, ConnInv, EntryStep
  PROVE  ConnInv'
<1>1. CASE OperationStep \/ PlatformsStay \/ SetupFails
  BY <1>1, OperationKeepsConn
<1>2. CASE UserReloads \/ UserRemoves
  BY <1>2 DEF UserReloads, UserRemoves, ConnInv
<1>3. ASSUME NEW t, ExportWorks(t) \/ \E r \in DOMAIN runtimes : ExportFails(r, t)
      PROVE  ConnInv'
  BY <1>3 DEF ExportWorks, ExportFails, ConnInv
<1>4. ASSUME NEW conn \in ConnState, NEW before \in ConnState \ {"off"},
             Connection({before}), UNCHANGED <<entry, current, phase>>,
             runtimes' = [runtimes EXCEPT ![current].conn = conn]
      PROVE  ConnInv'
  <2>. DEFINE new == [runtimes[current] EXCEPT !.conn = conn]
  <2>1. runtimes' = [runtimes EXCEPT ![current] = new] BY <1>4
  <2>2. current \in DOMAIN runtimes =>
          "conn" \in DOMAIN new /\ new.conn = conn /\ runtimes[current].conn # "off"
    BY <1>4 DEF ConnInv, Connection, ConnState
  <2>. HIDE DEF new
  <2>. QED BY <1>4, <2>1, <2>2, ConnReplaced DEF ConnInv
<1>5. CASE Connect \/ Refuse
  BY <1>4, <1>5 DEF Connect, Refuse, ConnState
<1>6. ASSUME NEW s, ControllerChanges(s) PROVE ConnInv'
  <2>1. CASE Connection({"connected"})
    BY <1>4, <1>6, <2>1 DEF ControllerChanges, ConnState
  <2>2. CASE ~Connection({"connected"})
    BY <1>6, <2>2 DEF ControllerChanges, ConnInv
  <2>. QED BY <2>1, <2>2
<1>. QED BY <1>1, <1>2, <1>3, <1>5, <1>6 DEF EntryStep

(* What a step of a flow does to the entry: nothing, its creation, other     *)
(* settings or options with the same bindings, or other bindings.            *)
FlowEffect(f) ==
  \/ UNCHANGED <<entry, listeners, issues, orphaned>>
  \/ /\ entry.state = "none" /\ entry'.state = "not_loaded"
     /\ UNCHANGED <<listeners, issues, orphaned>>
  \/ /\ Exists /\ UNCHANGED <<issues, orphaned>>
     /\ \E data, options :
          Update(data, options) /\ options.exports = entry.options.exports
  \/ DeleteBinding(f)
  \/ BindingTested(f)

LEMMA FlowStepEffect ==
  ASSUME ChoicesInv, NEW f \in Flow, FlowStep(f)
  PROVE  FlowEffect(f) /\ UNCHANGED <<current, runtimes, phase>>
<1>. DEFINE Effect == FlowEffect(f) /\ UNCHANGED <<current, runtimes, phase>>
<1>. USE DEF FlowEffect, entryVars
<1>0. Exists => entry.options \in Options BY DEF ChoicesInv, TypedInv
<1>1. ASSUME NEW kind, OpenOptions(f, kind) \/ OpenManaged(f, kind) PROVE Effect
  BY <1>1 DEF OpenOptions, OpenManaged
<1>2. ASSUME NEW kind, NEW data, OpenSession(f, kind, data) PROVE Effect
  BY <1>2 DEF OpenSession
<1>3. ASSUME Discovered(f) \/ Abandon(f) \/ SetUpInitially(f) \/ TargetRead(f) PROVE Effect
  BY <1>3 DEF Discovered, Abandon, SetUpInitially, TargetRead
<1>4. ASSUME StoreSettings(f) PROVE Effect
  BY <1>4 DEF StoreSettings
<1>5. ASSUME NEW mode, ChooseMode(f, mode) PROVE Effect
  <2>1. Exists => OptionsOfMode(entry.options, mode).exports = entry.options.exports
    BY <1>0 DEF OptionsOfMode, Options
  <2>. QED BY <1>5, <2>1 DEF ChooseMode, Store
<1>6. ASSUME NEW selected, NEW auto, SelectDevices(f, selected, auto) PROVE Effect
  <2>1. Exists => OptionsSelecting(entry.options, flows[f].objects, selected, auto).exports
                  = entry.options.exports
    BY <1>0 DEF OptionsSelecting, Options
  <2>. QED BY <1>6, <2>1 DEF SelectDevices, Store
<1>7. ASSUME NEW mode, NEW selected, NEW auto, CreateEntry(f, mode, selected, auto)
      PROVE  Effect
  BY <1>7 DEF CreateEntry
<1>8. ASSUME DeleteBinding(f) \/ BindingTested(f) PROVE Effect
  BY <1>8 DEF DeleteBinding, BindingTested
<1>9. ASSUME NEW s, CreateTarget(f, s) \/ ChangeSource(f, s) PROVE Effect
  BY <1>9 DEF CreateTarget, ChangeSource, BeginTest
<1>10. ASSUME NEW s, NEW t, LinkTarget(f, s, t) PROVE Effect
  BY <1>10 DEF LinkTarget, BeginTest
<1>11. ASSUME NEW t, Rebind(f, t) \/ TargetCreated(f, t) PROVE Effect
  BY <1>11 DEF Rebind, TargetCreated, BeginTest
<1>12. ASSUME NEW created, TestFails(f, created) PROVE Effect
  BY <1>12 DEF TestFails
<1>. HIDE DEF Effect
<1>13. Effect
  BY <1>1, <1>2, <1>3, <1>4, <1>5, <1>6, <1>7, <1>8, <1>9, <1>10, <1>11, <1>12 DEF FlowStep
<1>. QED BY <1>13 DEF Effect

LEMMA FlowStepKeepsConn ==
  ASSUME LifeInv, ConnInv, ChoicesInv, NEW f \in Flow, FlowStep(f)
  PROVE  ConnInv'
<1>1. FlowEffect(f) /\ UNCHANGED <<current, runtimes, phase>> BY FlowStepEffect
<1>2. entry'.state = entry.state \/ entry.state = "none"
  BY <1>1, UpdateKeepsState DEF FlowEffect, DeleteBinding, BindingTested, Store
<1>. QED BY <1>1, <1>2 DEF ConnInv

(* A test captures the client of a loaded entry, and keeps it.               *)
ClientOK(flow) == UnderTest(flow) => flow.client \in DOMAIN runtimes

LEMMA FlowStepClient ==
  ASSUME LifeInv, ChoicesInv, ClientInv, NEW f \in Flow, FlowStep(f)
  PROVE  ClientOK(flows'[f]) /\ \A g \in Flow \ {f} : flows'[g] = flows[g]
<1>. DEFINE Good == ClientOK(flows'[f]) /\ \A g \in Flow \ {f} : flows'[g] = flows[g]
<1>0. flows[f] \in FlowRecord /\ (Testing(f) => flows[f].client \in DOMAIN runtimes)
  BY DEF ChoicesInv, TypedInv, ClientInv
<1>1. ASSUME NEW flow, Become(f, flow), ClientOK(flow) PROVE Good
  <2>1. flows \in [Flow -> FlowRecord] BY DEF ChoicesInv, TypedInv
  <2>2. flows'[f] = flow /\ \A g \in Flow \ {f} : flows'[g] = flows[g]
    BY <1>1, <2>1 DEF Become
  <2>. QED BY <1>1, <2>2
<1>. HIDE DEF Good
<1>2. ASSUME NEW flow, flow.stage \notin {"first", "second"} PROVE ClientOK(flow)
  BY <1>2 DEF ClientOK, UnderTest
<1>3. ASSUME NEW flow, Become(f, flow), flow.stage \notin {"first", "second"} PROVE Good
  BY <1>1, <1>2, <1>3
<1>4. ASSUME Close(f) PROVE Good
  <2>1. Closed.stage = "closed" BY DEF Closed
  <2>. QED BY <1>3, <1>4, <2>1 DEF Close
<1>5. ASSUME NEW kind, OpenOptions(f, kind) PROVE Good
  <2>. DEFINE flow == [Opened(kind) EXCEPT
                !.stage = "discovering",
                !.data = IF entry.state = "loaded" THEN None ELSE entry.data,
                !.client = IF entry.state = "loaded" THEN current ELSE 0,
                !.objects = IF entry.state = "loaded" THEN catalog ELSE {}]
  <2>1. Become(f, flow) BY <1>5 DEF OpenOptions
  <2>2. flow.stage = "discovering" BY DEF Opened, Closed
  <2>. HIDE DEF flow
  <2>. QED BY <1>3, <2>1, <2>2
<1>6. ASSUME NEW kind, OpenManaged(f, kind) PROVE Good
  <2>1. PICK t \in TargetsOf(InForce) :
          Become(f, [Opened(kind) EXCEPT
            !.stage = IF kind = "rebind" THEN "discovering" ELSE "form", !.managed = t,
            !.data  = IF kind # "rebind" \/ entry.state = "loaded" THEN None ELSE entry.data,
            !.client = IF kind = "rebind" /\ entry.state = "loaded" THEN current ELSE 0,
            !.objects = IF kind = "rebind" /\ entry.state = "loaded" THEN catalog ELSE {}])
    BY <1>6 DEF OpenManaged
  <2>. DEFINE flow == [Opened(kind) EXCEPT
            !.stage = IF kind = "rebind" THEN "discovering" ELSE "form", !.managed = t,
            !.data  = IF kind # "rebind" \/ entry.state = "loaded" THEN None ELSE entry.data,
            !.client = IF kind = "rebind" /\ entry.state = "loaded" THEN current ELSE 0,
            !.objects = IF kind = "rebind" /\ entry.state = "loaded" THEN catalog ELSE {}]
  <2>2. flow.stage \in {"discovering", "form"} BY DEF Opened, Closed
  <2>3. Become(f, flow) BY <2>1
  <2>. HIDE DEF flow
  <2>. QED BY <1>3, <2>2, <2>3
<1>7. ASSUME NEW kind, NEW data, OpenSession(f, kind, data) PROVE Good
  <2>. DEFINE flow == [Opened(kind) EXCEPT !.stage = "session", !.data = data]
  <2>1. Become(f, flow) BY <1>7 DEF OpenSession
  <2>2. flow.stage = "session" BY DEF Opened, Closed
  <2>. HIDE DEF flow
  <2>. QED BY <1>3, <2>1, <2>2
<1>8. ASSUME Discovered(f) PROVE Good
  <2>1. PICK objects \in {flows[f].objects, catalog} :
          Become(f, [flows[f] EXCEPT !.stage = "form", !.client = 0, !.data = None,
                                     !.objects = objects])
    BY <1>8 DEF Discovered
  <2>. DEFINE flow == [flows[f] EXCEPT !.stage = "form", !.client = 0, !.data = None,
                                       !.objects = objects]
  <2>2. flow.stage = "form" BY <1>0 DEF FlowRecord
  <2>3. Become(f, flow) BY <2>1
  <2>. HIDE DEF flow
  <2>. QED BY <1>3, <2>2, <2>3
<1>9. ASSUME \/ Abandon(f) \/ StoreSettings(f) \/ DeleteBinding(f) \/ BindingTested(f)
             \/ \E mode : ChooseMode(f, mode)
             \/ \E mode, selected, auto :
                  SelectDevices(f, selected, auto) \/ CreateEntry(f, mode, selected, auto)
      PROVE  Good
  BY <1>4, <1>9 DEF Abandon, StoreSettings, DeleteBinding, BindingTested, ChooseMode,
     SelectDevices, CreateEntry
<1>10. ASSUME SetUpInitially(f) PROVE Good
  <2>. DEFINE flow == [flows[f] EXCEPT !.stage = "form", !.objects = catalog]
  <2>1. Become(f, flow) BY <1>10 DEF SetUpInitially
  <2>2. flow.stage = "form" BY <1>0 DEF FlowRecord
  <2>. HIDE DEF flow
  <2>. QED BY <1>3, <2>1, <2>2
<1>11. ASSUME NEW source, NEW target, BeginTest(f, source, target) PROVE Good
  <2>. DEFINE flow == [flows[f] EXCEPT !.stage = "first", !.source = source,
                                       !.target = target, !.client = current]
  <2>1. entry.state = "loaded" BY <1>11 DEF BeginTest, Connected
  <2>2. current \in DOMAIN runtimes BY <2>1, CurrentExists DEF Registered
  <2>3. Become(f, flow) BY <1>11 DEF BeginTest
  <2>4. flow.client = current BY <1>0 DEF FlowRecord
  <2>. HIDE DEF flow
  <2>. QED BY <1>1, <2>2, <2>3, <2>4 DEF ClientOK
<1>12. ASSUME NEW s, NEW t,
              CreateTarget(f, s) \/ ChangeSource(f, s) \/ LinkTarget(f, s, t) \/ Rebind(f, t)
       PROVE  Good
  BY <1>11, <1>12 DEF CreateTarget, ChangeSource, LinkTarget, Rebind
<1>13. ASSUME TargetRead(f) PROVE Good
  <2>. DEFINE flow == [flows[f] EXCEPT !.stage = "second"]
  <2>1. Become(f, flow) /\ Testing(f) BY <1>13 DEF TargetRead, Testing
  <2>2. flow.client = flows[f].client BY <1>0 DEF FlowRecord
  <2>. HIDE DEF flow
  <2>. QED BY <1>0, <1>1, <2>1, <2>2 DEF ClientOK
<1>14. ASSUME NEW t, TargetCreated(f, t) PROVE Good
  <2>. DEFINE flow == [flows[f] EXCEPT !.stage = "second", !.target = t]
              again == [flows[f] EXCEPT !.stage = "form", !.source = None, !.client = 0]
  <2>1. (Become(f, flow) \/ Become(f, again)) /\ Testing(f)
    BY <1>14 DEF TargetCreated, In, Testing
  <2>2. flow.client = flows[f].client /\ again.stage = "form" BY <1>0 DEF FlowRecord
  <2>. HIDE DEF flow, again
  <2>. QED BY <1>0, <1>1, <1>3, <2>1, <2>2 DEF ClientOK
<1>15. ASSUME NEW created, TestFails(f, created) PROVE Good
  <2>. DEFINE again == [flows[f] EXCEPT !.stage = "form", !.source = None,
                                        !.target = None, !.client = 0]
  <2>1. Become(f, again) BY <1>15 DEF TestFails
  <2>2. again.stage = "form" BY <1>0 DEF FlowRecord
  <2>. HIDE DEF again
  <2>. QED BY <1>3, <2>1, <2>2
<1>16. Good
  BY <1>5, <1>6, <1>7, <1>8, <1>9, <1>10, <1>12, <1>13, <1>14, <1>15 DEF FlowStep
<1>. QED BY <1>16 DEF Good

(* No runtime is forgotten.                                                  *)
LEMMA RuntimesStay ==
  ASSUME LifeInv, ChoicesInv, [Next]_vars
  PROVE  DOMAIN runtimes \subseteq DOMAIN runtimes'
<1>1. CASE runtimes' = runtimes
  BY <1>1
<1>2. ASSUME NEW c, NEW new, runtimes' = [runtimes EXCEPT ![c] = new]
      PROVE  DOMAIN runtimes \subseteq DOMAIN runtimes'
  BY <1>2
<1>3. CASE BeginSetup
  <2>1. PICK S : runtimes \in Seq(S) BY DEF LifeInv, RuntimesInv
  <2>2. runtimes' = Append(runtimes, NewRuntime) BY <1>3 DEF BeginSetup
  <2>. QED BY <2>1, <2>2
<1>4. ASSUME NEW l, Listener(l) PROVE DOMAIN runtimes \subseteq DOMAIN runtimes'
  BY <1>1, <1>2, <1>4 DEF Listener, ListenerReloads, ListenerReturns, ListenerBegins,
     ExportReconfigured, ListenerEnds
<1>5. CASE OperationStep \/ PlatformsStay \/ SetupFails
  BY <1>1, <1>2, <1>3, <1>5 DEF OperationStep, PlatformsStay, SetupFails, BeginUnload,
     RefuseReload, RemoveEntry, PlatformsUnloaded, SetupSucceeds, ShutdownStep, Unloaded
<1>6. CASE UserReloads \/ UserRemoves \/ Connect \/ Refuse
  BY <1>1, <1>2, <1>6 DEF UserReloads, UserRemoves, Connect, Refuse
<1>7. ASSUME NEW s, ControllerChanges(s) PROVE DOMAIN runtimes \subseteq DOMAIN runtimes'
  BY <1>1, <1>2, <1>7 DEF ControllerChanges
<1>8. ASSUME NEW t, ExportWorks(t) \/ \E r \in DOMAIN runtimes : ExportFails(r, t)
      PROVE  DOMAIN runtimes \subseteq DOMAIN runtimes'
  BY <1>1, <1>8 DEF ExportWorks, ExportFails
<1>9. ASSUME NEW f \in Flow, FlowStep(f) PROVE DOMAIN runtimes \subseteq DOMAIN runtimes'
  BY <1>1, <1>9, FlowStepEffect
<1>10. CASE UNCHANGED vars
  BY <1>1, <1>10 DEF vars, entryVars
<1>. QED BY <1>4, <1>5, <1>6, <1>7, <1>8, <1>9, <1>10 DEF Next, EntryStep

LEMMA NextKeepsClient ==
  ASSUME LifeInv, ChoicesInv, ClientInv, [Next]_vars
  PROVE  ClientInv'
<1>1. DOMAIN runtimes \subseteq DOMAIN runtimes' BY RuntimesStay
<1>2. CASE flows' = flows
  BY <1>1, <1>2 DEF ClientInv, Testing
<1>3. ASSUME NEW f \in Flow, FlowStep(f) PROVE ClientInv'
  <2>1. ClientOK(flows'[f]) /\ \A g \in Flow \ {f} : flows'[g] = flows[g]
    BY <1>3, FlowStepClient
  <2>. QED BY <1>1, <2>1 DEF ClientInv, ClientOK, Testing, UnderTest
<1>. QED BY <1>2, <1>3 DEF Next, vars, entryVars
-----------------------------------------------------------------------------
(* The calls and the issues: steps of the operations and of the connection.  *)

(* The calls stay, but for one that awaited a reload.                        *)
SameCalls ==
  /\ DOMAIN listeners' = DOMAIN listeners
  /\ \A k \in DOMAIN listeners :
       /\ listeners'[k].rt = listeners[k].rt /\ listeners'[k].options = listeners[k].options
       /\ \/ listeners'[k].stage = listeners[k].stage
          \/ listeners[k].stage = "reloading" /\ listeners'[k].stage = "done"

SameBindings ==
  /\ DOMAIN runtimes' = DOMAIN runtimes
  /\ \A r \in DOMAIN runtimes :
       /\ runtimes'[r].bindings = runtimes[r].bindings
       /\ runtimes'[r].options = runtimes[r].options

LEMMA SameCallsSame ==
  ASSUME SameCalls, SameBindings, BindingsInv, ListenerFields
  PROVE  /\ \A l, t : Drops(l, t)' <=> Drops(l, t)
         /\ \A l \in DOMAIN listeners : listeners[l].rt \in DOMAIN runtimes
         /\ BindingsInv'
<1>1. \A l, t : Drops(l, t)' <=> Drops(l, t)
  <2>. SUFFICES ASSUME NEW l, NEW t PROVE Drops(l, t)' <=> Drops(l, t)
    OBVIOUS
  <2>1. CASE l \notin DOMAIN listeners BY <2>1 DEF Drops, SameCalls
  <2>2. CASE l \in DOMAIN listeners BY <2>2 DEF Drops, SameCalls, ExportTargetIds
  <2>. QED BY <2>1, <2>2
<1>2. BindingsInv'
  <2>. SUFFICES ASSUME NEW r \in DOMAIN runtimes
       PROVE  /\ \A l \in DOMAIN listeners :
                   listeners'[l].rt = r /\ listeners'[l].stage = "entities" =>
                     runtimes'[r].bindings = ExportBindings(listeners'[l].options.exports)
              /\ (\A l \in DOMAIN listeners :
                    listeners'[l].rt = r => listeners'[l].stage # "entities") =>
                   runtimes'[r].bindings = ExportBindings(runtimes'[r].options.exports)
    BY DEF BindingsInv, SameCalls, SameBindings
  <2>1. \A l \in DOMAIN listeners :
          /\ listeners'[l].rt = r /\ listeners'[l].stage = "entities"
             <=> listeners[l].rt = r /\ listeners[l].stage = "entities"
          /\ listeners'[l].options = listeners[l].options
    BY DEF SameCalls
  <2>2. /\ runtimes'[r].bindings = runtimes[r].bindings
        /\ runtimes'[r].options = runtimes[r].options
    BY DEF SameBindings
  <2>3. /\ \A l \in DOMAIN listeners :
             listeners[l].rt = r /\ listeners[l].stage = "entities" =>
               runtimes[r].bindings = ExportBindings(listeners[l].options.exports)
        /\ (\A l \in DOMAIN listeners :
              listeners[l].rt = r => listeners[l].stage # "entities") =>
             runtimes[r].bindings = ExportBindings(runtimes[r].options.exports)
    BY DEF BindingsInv
  <2>. QED BY <2>1, <2>2, <2>3
<1>3. \A l \in DOMAIN listeners : listeners[l].rt \in DOMAIN runtimes
  <2>1. \A l \in DOMAIN listeners : listeners[l].rt \in 1 .. Len(runtimes)
    BY DEF ListenerFields
  <2>. QED BY <2>1
<1>. QED BY <1>1, <1>2, <1>3

(* What is stored and which runtime is in force stay; an issue that is new   *)
(* is accounted for.                                                         *)
LEMMA SteadyKeepsCalls ==
  ASSUME StoredInv, CallsInv, SameCalls, SameBindings, current' = current,
         entry'.options = entry.options,
         Exists' = Exists, Registered' = Registered,
         entry'.state = "removed" <=> entry.state = "removed",
         entry'.state = "none" => entry.state = "none" /\ issues' \subseteq issues,
         entry.state = "removed" =>
           \A r \in DOMAIN runtimes : runtimes'[r].running = runtimes[r].running,
         orphaned \subseteq orphaned', issues' \subseteq Id,
         \A t \in issues' \ orphaned' : t \in issues \/ Accounted(t)
  PROVE  CallsInv'
<1>1. /\ \A l, t : Drops(l, t)' <=> Drops(l, t)
      /\ \A l \in DOMAIN listeners : listeners[l].rt \in DOMAIN runtimes
      /\ BindingsInv'
  BY SameCallsSame DEF StoredInv, CallsInv
<1>2. InForce' = InForce BY DEF InForce
<1>3. \A t : /\ Held(t)' <=> Held(t)
             /\ entry.state = "removed" /\ Held(t) =>
                  runtimes'[current].running = runtimes[current].running
  BY DEF Held, SameBindings
<1>4. \A l : Mine(l)' <=> Mine(l) BY DEF Mine, SameCalls
<1>5. HeldInv' BY <1>1, <1>2, <1>3, <1>4 DEF CallsInv, HeldInv
<1>6. CapturedInv'
  <2>. SUFFICES ASSUME Registered, NEW l, Working(l)'
                PROVE  \/ listeners'[l].options = entry'.options
                       \/ \E m : Mine(m)' /\ listeners'[m].stage \in {"called", "queued"}
    BY DEF CapturedInv
  <2>1. Working(l) /\ listeners'[l].options = listeners[l].options
    BY <1>4 DEF Working, Mine, SameCalls
  <2>2. CASE listeners[l].options = entry.options BY <2>1, <2>2
  <2>3. ASSUME NEW m, Mine(m), listeners[m].stage \in {"called", "queued"}
        PROVE  Mine(m)' /\ listeners'[m].stage \in {"called", "queued"}
    BY <1>4, <2>3 DEF Mine, SameCalls
  <2>. QED BY <2>1, <2>2, <2>3 DEF CallsInv, CapturedInv
<1>7. ASSUME NEW t \in issues' \ orphaned' PROVE Accounted(t)'
  <2>1. Accounted(t)
    BY <1>7 DEF CallsInv, IssueInv
  <2>2. \A l \in DOMAIN listeners :
          runtimes'[listeners'[l].rt].bindings = runtimes[listeners[l].rt].bindings
    BY <1>1 DEF SameCalls, SameBindings
  <2>3. DOMAIN listeners' = DOMAIN listeners BY DEF SameCalls
  <2>. QED BY <1>1, <1>2, <1>3, <2>1, <2>2, <2>3 DEF Accounted
<1>8. IssueInv' BY <1>7 DEF IssueInv
<1>9. NoneInv' BY DEF CallsInv, NoneInv, SameBindings
<1>. QED BY <1>1, <1>5, <1>6, <1>8, <1>9 DEF CallsInv

(* An operation that ends returns from the call that awaits it at most.      *)
LEMMA EndingSameCalls ==
  ASSUME StoredInv, EndOperation, operations # <<>>, Len(runtimes') = Len(runtimes)
  PROVE  SameCalls
<1>1. /\ DOMAIN listeners' = DOMAIN listeners
      /\ \A k \in DOMAIN listeners :
           /\ k # Operation.by => listeners'[k] = listeners[k]
           /\ listeners'[k].rt = listeners[k].rt
           /\ listeners'[k].options = listeners[k].options
           /\ k = Operation.by => listeners[k].stage = "reloading"
                                  /\ listeners'[k].stage = "done"
  BY OperationEnds DEF StoredInv
<1>. QED BY <1>1 DEF SameCalls

(* Nothing is issued or dropped while the state of an existing entry moves.  *)
LEMMA StateMovesKeepCalls ==
  ASSUME StoredInv, CallsInv, SameCalls, SameBindings, current' = current, Exists,
         NEW state, entry' = [entry EXCEPT !.state = state],
         state \in EntryState \ {"none", "removed"},
         Registered <=> state \in {"setup", "loaded", "unloading", "failed_unload"},
         UNCHANGED <<issues, orphaned>>
  PROVE  CallsInv'
<1>1. entry'.state = state /\ entry'.options = entry.options
  BY StateOnly DEF StoredInv
<1>2. Exists' = Exists /\ Registered' = Registered BY <1>1 DEF Exists, Registered
<1>3. issues \subseteq Id BY DEF CallsInv, IssueInv
<1>. QED BY <1>1, <1>2, <1>3, SteadyKeepsCalls DEF Exists

LEMMA UnmovedKeepsCalls ==
  ASSUME StoredInv, CallsInv, SameCalls, SameBindings,
         UNCHANGED <<current, entry, issues, orphaned>>,
         entry.state = "removed" =>
           \A r \in DOMAIN runtimes : runtimes'[r].running = runtimes[r].running
  PROVE  CallsInv'
<1>1. Exists' = Exists /\ Registered' = Registered BY DEF Exists, Registered
<1>2. issues \subseteq Id BY DEF CallsInv, IssueInv
<1>. QED BY <1>1, <1>2, SteadyKeepsCalls

(* A set-up makes a manager with the bindings in force, and no call of it.   *)
LEMMA BeginSetupKeepsCalls ==
  ASSUME StoredInv, CallsInv, BeginSetup
  PROVE  CallsInv'
<1>1. /\ runtimes' = Append(runtimes, NewRuntime) /\ current' = Len(runtimes) + 1
      /\ entry' = [entry EXCEPT !.state = "setup"]
      /\ entry.state \in {"not_loaded", "error"}
      /\ UNCHANGED <<listeners, issues, orphaned>>
  BY DEF BeginSetup
<1>2. entry'.state = "setup" /\ entry'.options = entry.options
  BY <1>1, StateOnly DEF StoredInv
<1>3. PICK S : runtimes \in Seq(S) BY DEF StoredInv, LifeInv, RuntimesInv
<1>4. /\ DOMAIN runtimes' = DOMAIN runtimes \cup {current'} /\ current' \notin DOMAIN runtimes
      /\ \A r \in DOMAIN runtimes : runtimes'[r] = runtimes[r]
      /\ runtimes'[current'] = NewRuntime
  BY <1>1, <1>3
<1>5. \A l \in DOMAIN listeners : listeners[l].rt \in DOMAIN runtimes
  BY <1>3 DEF StoredInv, ListenerFields
<1>6. NewRuntime.bindings = InForce /\ NewRuntime.options = entry.options
  BY DEF NewRuntime, InForce
<1>7. InForce' = InForce BY <1>2 DEF InForce
<1>8. HeldInv' BY <1>4, <1>6, <1>7 DEF HeldInv, Held
<1>9. CapturedInv' BY <1>1, <1>4, <1>5 DEF CapturedInv, Working, Mine
<1>10. BindingsInv'
  <2>. SUFFICES ASSUME NEW r \in DOMAIN runtimes'
       PROVE  /\ \A l \in DOMAIN listeners :
                   listeners[l].rt = r /\ listeners[l].stage = "entities" =>
                     runtimes'[r].bindings = ExportBindings(listeners[l].options.exports)
              /\ (\A l \in DOMAIN listeners :
                    listeners[l].rt = r => listeners[l].stage # "entities") =>
                   runtimes'[r].bindings = ExportBindings(runtimes'[r].options.exports)
    BY <1>1 DEF BindingsInv
  <2>1. CASE r \in DOMAIN runtimes BY <1>4, <2>1 DEF CallsInv, BindingsInv
  <2>2. CASE r = current' BY <1>4, <1>5, <1>6, <2>2 DEF InForce
  <2>. QED BY <1>4, <2>1, <2>2
<1>11. ASSUME NEW t \in issues \ orphaned PROVE Accounted(t)'
  <2>1. Accounted(t) /\ ~Registered /\ entry.state # "removed" /\ Exists'
    BY <1>1, <1>2 DEF CallsInv, IssueInv, Registered, Exists
  <2>2. CASE t \in TargetsOf(InForce) BY <1>7, <2>1, <2>2 DEF Accounted
  <2>3. ASSUME NEW l \in DOMAIN listeners, Drops(l, t),
               t \in TargetsOf(runtimes[listeners[l].rt].bindings)
        PROVE  Accounted(t)'
    <3>1. Drops(l, t)' BY <1>1, <2>3 DEF Drops, ExportTargetIds
    <3>2. runtimes'[listeners[l].rt] = runtimes[listeners[l].rt] BY <1>4, <1>5
    <3>. QED BY <1>1, <1>2, <2>3, <3>1, <3>2 DEF Accounted
  <2>. QED BY <2>1, <2>2, <2>3 DEF Accounted
<1>12. IssueInv' BY <1>1, <1>11 DEF CallsInv, IssueInv
<1>13. NoneInv' BY <1>2 DEF NoneInv
<1>. QED BY <1>8, <1>9, <1>10, <1>12, <1>13 DEF CallsInv

(* What the manager of the runtime had is left to the calls that drop it.    *)
LEMMA HeldIsDropped ==
  ASSUME StoredInv, CallsInv, Registered, NEW t, Held(t), t \notin TargetsOf(InForce),
         t \notin orphaned
  PROVE  \E l \in DOMAIN listeners :
           Drops(l, t) /\ t \in TargetsOf(runtimes[listeners[l].rt].bindings)
<1>1. PICK l : Mine(l) /\ Drops(l, t) BY DEF CallsInv, HeldInv
<1>. QED BY <1>1 DEF Mine, Held

LEMMA UnloadedKeepsCalls ==
  ASSUME StoredInv, CallsInv, Unloaded
  PROVE  CallsInv'
<1>1. /\ current' = 0 /\ UNCHANGED <<runtimes, issues, orphaned>>
      /\ entry.state \in {"setup", "unloading"} /\ operations # <<>>
  BY DEF Unloaded, StoredInv, LifeInv, PhaseInv, OperationsInv
<1>2. entry'.state \in {"not_loaded", "error"} /\ entry'.options = entry.options
  BY <1>1, StateOnly DEF Unloaded, StoredInv
<1>3. SameCalls
  <2>1. CASE entry.state = "unloading" BY <2>1 DEF Unloaded, SameCalls
  <2>2. CASE entry.state # "unloading" BY <1>1, <2>2, EndingSameCalls DEF Unloaded
  <2>. QED BY <2>1, <2>2
<1>4. SameBindings BY <1>1 DEF SameBindings
<1>5. /\ \A l, t : Drops(l, t)' <=> Drops(l, t)
      /\ BindingsInv'
  BY <1>3, <1>4, SameCallsSame DEF StoredInv, CallsInv
<1>6. HeldInv' /\ CapturedInv' /\ NoneInv'
  BY <1>2 DEF HeldInv, CapturedInv, NoneInv, Registered
<1>7. InForce' = InForce BY <1>2 DEF InForce
<1>8. ASSUME NEW t \in issues \ orphaned PROVE Accounted(t)'
  <2>1. Accounted(t) /\ Registered /\ entry.state # "removed" /\ Exists'
    BY <1>1, <1>2 DEF CallsInv, IssueInv, Registered, Exists
  <2>2. CASE t \in TargetsOf(InForce) BY <1>7, <2>1, <2>2 DEF Accounted
  <2>3. ASSUME NEW l \in DOMAIN listeners, Drops(l, t),
               t \in TargetsOf(runtimes[listeners[l].rt].bindings)
        PROVE  Accounted(t)'
    BY <1>1, <1>2, <1>3, <1>5, <2>3 DEF Accounted, SameCalls
  <2>. QED BY <2>1, <2>2, <2>3, HeldIsDropped DEF Accounted
<1>9. IssueInv' BY <1>1, <1>8 DEF CallsInv, IssueInv
<1>. QED BY <1>5, <1>6, <1>9 DEF CallsInv

(* The removal deletes the issues of the bindings in force itself.           *)
LEMMA RemoveEntryKeepsCalls ==
  ASSUME StoredInv, CallsInv, RemoveEntry
  PROVE  CallsInv'
<1>1. /\ UNCHANGED <<runtimes, current, orphaned>> /\ issues' = issues \ TargetsOf(InForce)
      /\ entry.state \in {"not_loaded", "error", "failed_unload"} /\ operations # <<>>
      /\ EndOperation
  BY DEF RemoveEntry, InForce, ExportTargetIds
<1>2. entry'.state = "removed" /\ entry'.options = entry.options
  BY StateOnly DEF RemoveEntry, StoredInv
<1>3. SameCalls BY <1>1, EndingSameCalls
<1>4. SameBindings BY <1>1 DEF SameBindings
<1>5. /\ \A l, t : Drops(l, t)' <=> Drops(l, t)
      /\ BindingsInv'
  BY <1>3, <1>4, SameCallsSame DEF StoredInv, CallsInv
<1>6. HeldInv' /\ CapturedInv' /\ NoneInv'
  BY <1>2 DEF HeldInv, CapturedInv, NoneInv, Registered
<1>7. InForce' = InForce BY <1>2 DEF InForce
<1>8. ASSUME NEW t \in issues' \ orphaned PROVE Accounted(t)'
  <2>1. Accounted(t) /\ entry.state # "removed" /\ t \notin TargetsOf(InForce)
    BY <1>1 DEF CallsInv, IssueInv
  <2>2. ASSUME NEW l \in DOMAIN listeners, Drops(l, t),
               t \in TargetsOf(runtimes[listeners[l].rt].bindings)
        PROVE  Accounted(t)'
    BY <1>1, <1>3, <1>5, <1>7, <2>1, <2>2 DEF Accounted, SameCalls
  <2>. QED BY <2>1, <2>2, <1>8, HeldIsDropped DEF Accounted
<1>9. IssueInv' BY <1>1, <1>8 DEF CallsInv, IssueInv
<1>. QED BY <1>5, <1>6, <1>9 DEF CallsInv

LEMMA OperationKeepsCalls ==
  ASSUME StoredInv, CallsInv, OperationStep \/ PlatformsStay \/ SetupFails
  PROVE  CallsInv'
<1>0. /\ phase.step # "idle" => operations # <<>>
      /\ phase.step = "idle" => entry.state \notin {"setup", "unloading"}
      /\ phase.step \in {"platforms", "shutdown", "setup"} =>
           entry.state \in {"setup", "unloading"}
      /\ phase.step = "setup" => entry.state = "setup"
      /\ phase.step = "platforms" => entry.state = "unloading"
  BY DEF StoredInv, OperationsInv, LifeInv, PhaseInv
<1>. USE DEF Exists, Registered, EntryState
<1>1. CASE BeginUnload
  BY <1>1, StateMovesKeepCalls DEF BeginUnload, SameCalls, SameBindings
<1>2. CASE BeginSetup
  BY <1>2, BeginSetupKeepsCalls
<1>3. CASE RefuseReload
  <2>1. SameCalls BY <1>3, EndingSameCalls DEF RefuseReload
  <2>. QED BY <1>3, <2>1, UnmovedKeepsCalls DEF RefuseReload, SameBindings
<1>4. CASE RemoveEntry
  BY <1>4, RemoveEntryKeepsCalls
<1>5. CASE PlatformsUnloaded \/ SetupFails
  BY <1>5, UnmovedKeepsCalls DEF PlatformsUnloaded, SetupFails, SameCalls, SameBindings
<1>6. CASE PlatformsStay
  <2>1. SameCalls
    BY <1>0, <1>6, EndingSameCalls DEF PlatformsStay, SameCalls
  <2>. QED BY <1>0, <1>6, <2>1, StateMovesKeepCalls DEF PlatformsStay, SameBindings
<1>7. CASE SetupSucceeds
  <2>. DEFINE running == {"entities", "coordinator", "connection"} \cup
                         IF runtimes[current].bindings = <<>> THEN {} ELSE {"export"}
              new == [runtimes[current] EXCEPT !.started = TRUE, !.conn = "connecting",
                                               !.running = running]
  <2>1. /\ runtimes' = [runtimes EXCEPT ![current] = new] /\ phase.step = "setup"
        /\ entry' = [entry EXCEPT !.state = "loaded"]
        /\ EndOperation /\ UNCHANGED <<current, issues, orphaned>>
    BY <1>7 DEF SetupSucceeds
  <2>2. current \in DOMAIN runtimes =>
          /\ new.options = runtimes[current].options
          /\ new.bindings = runtimes[current].bindings
    OBVIOUS
  <2>. HIDE DEF new
  <2>3. SameBindings BY <2>1, <2>2 DEF SameBindings
  <2>4. Len(runtimes') = Len(runtimes)
    <3>1. PICK S : runtimes \in Seq(S) BY DEF StoredInv, LifeInv, RuntimesInv
    <3>. QED BY <2>1, <3>1
  <2>5. SameCalls BY <1>0, <2>1, <2>4, EndingSameCalls
  <2>. QED BY <1>0, <2>1, <2>3, <2>5, StateMovesKeepCalls
<1>8. CASE ShutdownStep
  <2>. DEFINE c == ShutdownOrder[phase.next]
              new == [runtimes[current] EXCEPT
                        !.running = @ \ {c}, !.conn = IF c = "connection" THEN "off" ELSE @]
  <2>1. /\ runtimes' = [runtimes EXCEPT ![current] = new] /\ phase.step = "shutdown"
        /\ UNCHANGED <<entry, listeners, current, issues, orphaned>>
    BY <1>8 DEF ShutdownStep
  <2>2. current \in DOMAIN runtimes =>
          /\ new.options = runtimes[current].options
          /\ new.bindings = runtimes[current].bindings
    OBVIOUS
  <2>. HIDE DEF new
  <2>3. SameBindings /\ SameCalls BY <2>1, <2>2 DEF SameBindings, SameCalls
  <2>. QED BY <1>0, <2>1, <2>3, UnmovedKeepsCalls
<1>9. CASE Unloaded
  BY <1>9, UnloadedKeepsCalls
<1>. QED BY <1>1, <1>2, <1>3, <1>4, <1>5, <1>6, <1>7, <1>8, <1>9 DEF OperationStep

LEMMA EntryStepKeepsCalls ==
  ASSUME StoredInv, ConnInv, CallsInv, EntryStep
  PROVE  CallsInv'
<1>. USE DEF SameCalls
<1>1. CASE OperationStep \/ PlatformsStay \/ SetupFails
  BY <1>1, OperationKeepsCalls
<1>2. CASE UserReloads \/ UserRemoves
  BY <1>2, UnmovedKeepsCalls DEF UserReloads, UserRemoves, SameBindings
<1>3. ASSUME NEW conn, runtimes' = [runtimes EXCEPT ![current].conn = conn],
             UNCHANGED <<entry, current, listeners, issues, orphaned>>
      PROVE  CallsInv'
  <2>. DEFINE new == [runtimes[current] EXCEPT !.conn = conn]
  <2>1. runtimes' = [runtimes EXCEPT ![current] = new] BY <1>3
  <2>2. current \in DOMAIN runtimes =>
          /\ new.options = runtimes[current].options
          /\ new.bindings = runtimes[current].bindings
          /\ new.running = runtimes[current].running
    OBVIOUS
  <2>. HIDE DEF new
  <2>3. /\ SameBindings
        /\ \A r \in DOMAIN runtimes : runtimes'[r].running = runtimes[r].running
    BY <2>1, <2>2 DEF SameBindings
  <2>. QED BY <1>3, <2>3, UnmovedKeepsCalls
<1>4. CASE Connect \/ Refuse
  BY <1>3, <1>4 DEF Connect, Refuse
<1>5. ASSUME NEW s, ControllerChanges(s) PROVE CallsInv'
  <2>1. CASE Connection({"connected"})
    BY <1>3, <1>5, <2>1 DEF ControllerChanges
  <2>2. CASE ~Connection({"connected"})
    BY <1>5, <2>2, UnmovedKeepsCalls DEF ControllerChanges, SameBindings
  <2>. QED BY <2>1, <2>2
<1>6. ASSUME NEW t \in Id, ExportWorks(t) PROVE CallsInv'
  <2>1. /\ UNCHANGED <<entry, current, runtimes, listeners, orphaned>>
        /\ issues' \subseteq issues /\ entry.state = "loaded"
    BY <1>6 DEF ExportWorks, Connected
  <2>2. Exists' = Exists /\ Registered' = Registered BY <2>1 DEF Exists, Registered
  <2>3. issues' \subseteq Id BY <2>1 DEF CallsInv, IssueInv
  <2>4. SameBindings BY <2>1 DEF SameBindings
  <2>. QED BY <2>1, <2>2, <2>3, <2>4, SteadyKeepsCalls
<1>7. ASSUME NEW t \in Id, NEW r \in DOMAIN runtimes, ExportFails(r, t) PROVE CallsInv'
  <2>1. /\ UNCHANGED <<entry, current, runtimes, listeners>>
        /\ issues' = issues \cup {t} /\ "export" \in runtimes[r].running
        /\ t \in TargetsOf(runtimes[r].bindings)
        /\ orphaned' = IF r = current THEN orphaned ELSE orphaned \cup {t}
    BY <1>7 DEF ExportFails
  <2>2. Exists' = Exists /\ Registered' = Registered BY <2>1 DEF Exists, Registered
  <2>3. issues' \subseteq Id BY <2>1 DEF CallsInv, IssueInv
  <2>4. SameBindings BY <2>1 DEF SameBindings
  <2>5. entry.state # "none" BY DEF CallsInv, NoneInv
  <2>6. r = current => Registered \/ entry.state = "removed"
    <3>1. PICK S : runtimes \in Seq(S) BY DEF StoredInv, LifeInv, RuntimesInv
    <3>2. r # 0 BY <3>1
    <3>. QED BY <3>2 DEF StoredInv, LifeInv, EntryInv
  <2>7. r = current => Accounted(t)
    BY <2>1, <2>6 DEF Accounted, Held
  <2>. QED BY <2>1, <2>2, <2>3, <2>4, <2>5, <2>7, SteadyKeepsCalls
<1>. QED BY <1>1, <1>2, <1>4, <1>5, <1>6, <1>7 DEF EntryStep

-----------------------------------------------------------------------------
(* The calls and the issues: the listener.                                   *)

LEMMA RuntimeCalled ==
  ASSUME StoredInv, NEW l \in DOMAIN listeners
  PROVE  listeners[l].rt \in DOMAIN runtimes
<1>1. PICK S : runtimes \in Seq(S) BY DEF StoredInv, LifeInv, RuntimesInv
<1>. QED BY <1>1 DEF StoredInv, ListenerFields

LEMMA OthersDrop ==
  ASSUME NEW l \in DOMAIN listeners, OthersStay(l)
  PROVE  /\ \A k, t : k # l => (Drops(k, t)' <=> Drops(k, t))
         /\ UNCHANGED current => \A k : Mine(k)' <=> Mine(k)
BY DEF OthersStay, Drops, Mine, ExportTargetIds

(* A call that starts leaves no target of its runtime's manager that nobody  *)
(* is to drop.                                                               *)
LEMMA StartKeepsCalls ==
  ASSUME StoredInv, CallsInv, NEW l \in DOMAIN listeners, HasLock(l),
         listeners[l].stage \in {"called", "queued"}, OthersStay(l),
         UNCHANGED <<entry, current, runtimes, issues>>, orphaned \subseteq orphaned',
         listeners'[l].stage # "entities",
         listeners'[l].stage = "export" => listeners'[l].options = entry.options,
         \A t \in TargetsOf(runtimes[listeners[l].rt].bindings) :
           t \in TargetsOf(InForce) \/ t \in orphaned' \/ Drops(l, t)'
  PROVE  CallsInv'
<1>. DEFINE c == listeners[l].rt
<1>1. /\ \A k, t : k # l => (Drops(k, t)' <=> Drops(k, t))
      /\ \A k : Mine(k)' <=> Mine(k)
  BY OthersDrop
<1>2. InForce' = InForce /\ Registered' = Registered /\ Exists' = Exists
  BY DEF InForce, Registered, Exists
<1>3. \A t : Held(t)' <=> Held(t) BY DEF Held
<1>4. HeldInv'
  <2>. SUFFICES ASSUME Registered, NEW t, Held(t)
                PROVE  \/ t \in TargetsOf(InForce) \/ t \in orphaned'
                       \/ \E k : Mine(k)' /\ Drops(k, t)'
    BY <1>2, <1>3 DEF HeldInv
  <2>1. CASE \E k : Mine(k) /\ Drops(k, t) /\ k # l BY <1>1, <2>1
  <2>2. CASE Mine(l) /\ Drops(l, t)
    <3>1. t \in TargetsOf(runtimes[c].bindings) BY <2>2 DEF Mine, Held
    <3>. QED BY <1>1, <2>2, <3>1
  <2>. QED BY <2>1, <2>2 DEF CallsInv, HeldInv
<1>5. CapturedInv'
  <2>. SUFFICES ASSUME Registered, NEW k, Working(k)'
                PROVE  \/ listeners'[k].options = entry.options
                       \/ \E m : Mine(m)' /\ listeners'[m].stage \in {"called", "queued"}
    BY <1>2 DEF CapturedInv
  <2>1. CASE k = l BY <2>1 DEF Working
  <2>2. CASE k # l
    <3>1. Working(k) /\ listeners'[k] = listeners[k]
      BY <1>1, <2>2 DEF Working, Mine, OthersStay
    <3>2. ~Mine(l) BY <2>2, <3>1, AloneAtWork DEF StoredInv, Working, Mine
    <3>3. ASSUME NEW m, Mine(m), listeners[m].stage \in {"called", "queued"}
          PROVE  Mine(m)' /\ listeners'[m].stage \in {"called", "queued"}
      BY <1>1, <3>2, <3>3 DEF Mine, OthersStay
    <3>. QED BY <3>1, <3>3 DEF CallsInv, CapturedInv
  <2>. QED BY <2>1, <2>2
<1>6. BindingsInv'
  <2>1. \A k \in DOMAIN listeners :
          /\ listeners'[k].rt = listeners[k].rt
          /\ listeners'[k].stage = "entities" <=> listeners[k].stage = "entities"
          /\ listeners[k].stage = "entities" => listeners'[k] = listeners[k]
    BY DEF OthersStay
  <2>2. DOMAIN listeners' = DOMAIN listeners BY DEF OthersStay
  <2>. QED BY <2>1, <2>2 DEF CallsInv, BindingsInv
<1>7. ASSUME NEW t \in issues \ orphaned' PROVE Accounted(t)'
  <2>1. Accounted(t) BY DEF CallsInv, IssueInv
  <2>2. CASE (Exists /\ t \in TargetsOf(InForce)) \/ (Registered /\ Held(t))
             \/ (entry.state = "removed" /\ Held(t) /\ "export" \in runtimes[current].running)
    BY <1>2, <1>3, <2>2 DEF Accounted
  <2>3. ASSUME NEW k \in DOMAIN listeners, Drops(k, t),
               t \in TargetsOf(runtimes[listeners[k].rt].bindings),
               entry.state = "removed" => t \notin TargetsOf(InForce)
        PROVE  Accounted(t)'
    <3>1. k \in DOMAIN listeners' /\ listeners'[k].rt = listeners[k].rt
      BY <2>3 DEF OthersStay
    <3>2. CASE Drops(k, t)' BY <1>2, <2>3, <3>1, <3>2 DEF Accounted
    <3>3. CASE ~Drops(k, t)'
      <4>1. k = l /\ t \in TargetsOf(InForce) BY <1>1, <1>7, <2>3, <3>3
      <4>2. entry.state # "none" BY <1>7 DEF CallsInv, NoneInv
      <4>3. Exists BY <2>3, <4>1, <4>2 DEF Exists
      <4>. QED BY <1>2, <4>1, <4>3 DEF Accounted
    <3>. QED BY <3>2, <3>3
  <2>. QED BY <2>1, <2>2, <2>3 DEF Accounted
<1>8. IssueInv' BY <1>7 DEF CallsInv, IssueInv
<1>9. NoneInv' BY DEF CallsInv, NoneInv
<1>. QED BY <1>4, <1>5, <1>6, <1>8, <1>9 DEF CallsInv

LEMMA StartingKeepsCalls ==
  ASSUME StoredInv, CallsInv, NEW l \in DOMAIN listeners,
         ListenerReloads(l) \/ ListenerReturns(l) \/ ListenerBegins(l)
  PROVE  CallsInv'
<1>. DEFINE c == listeners[l].rt
<1>1. /\ UNCHANGED <<entry, current, runtimes, issues>> /\ HasLock(l)
      /\ listeners[l].stage \in {"called", "queued"}
  BY DEF ListenerReloads, ListenerReturns, ListenerBegins, Starts, At
<1>2. CASE ListenerReloads(l)
  <2>1. /\ listeners' = [listeners EXCEPT ![l].stage = "reloading"]
        /\ orphaned' = orphaned \cup (TargetsOf(runtimes[c].bindings) \ TargetsOf(InForce))
    BY <1>2 DEF ListenerReloads, Move, RuntimeOf, InForce, ExportTargetIds
  <2>2. "reloading" \in Stage BY DEF Stage
  <2>3. OthersStay(l) /\ listeners'[l].stage = "reloading"
    BY <1>1, <2>1, <2>2, Moved DEF StoredInv, OthersStay
  <2>. QED BY <1>1, <2>1, <2>3, StartKeepsCalls
<1>3. CASE ListenerReturns(l)
  <2>1. /\ listeners' = [listeners EXCEPT ![l].stage = "done"] /\ UNCHANGED orphaned
        /\ entry.options = runtimes[c].options
    BY <1>3 DEF ListenerReturns, Move, RuntimeOf
  <2>2. "done" \in Stage BY DEF Stage
  <2>3. OthersStay(l) /\ listeners'[l].stage = "done"
    BY <1>1, <2>1, <2>2, Moved DEF StoredInv, OthersStay
  <2>4. c \in DOMAIN runtimes BY RuntimeCalled
  <2>5. \A k \in DOMAIN listeners : listeners[k].rt = c => listeners[k].stage # "entities"
    BY <1>1, AloneAtWork DEF StoredInv
  <2>6. runtimes[c].bindings = InForce
    BY <2>1, <2>4, <2>5 DEF CallsInv, BindingsInv, InForce
  <2>. QED BY <1>1, <2>1, <2>3, <2>6, StartKeepsCalls
<1>4. CASE ListenerBegins(l)
  <2>. DEFINE call == [listeners[l] EXCEPT !.stage = "export", !.options = entry.options,
                                           !.version = entry.version]
  <2>1. listeners' = [listeners EXCEPT ![l] = call] /\ UNCHANGED orphaned
    BY <1>4 DEF ListenerBegins
  <2>2. call.rt = listeners[l].rt /\ call.stage = "export" /\ call.options = entry.options
    BY DEF StoredInv, ListenerFields
  <2>. HIDE DEF call
  <2>3. OthersStay(l) /\ listeners'[l] = call
    BY <2>1, <2>2, ListenerReplaced DEF StoredInv, OthersStay
  <2>4. \A t : t \in TargetsOf(InForce) \/ Drops(l, t)'
    BY <2>2, <2>3 DEF Drops, OthersStay, InForce, ExportTargetIds
  <2>. QED BY <1>1, <2>1, <2>2, <2>3, <2>4, StartKeepsCalls
<1>. QED BY <1>2, <1>3, <1>4

(* The reconfiguration deletes the issues of the bindings that it drops.     *)
LEMMA ReconfigurationKeepsCalls ==
  ASSUME StoredInv, CallsInv, NEW l \in DOMAIN listeners, ExportReconfigured(l)
  PROVE  CallsInv'
<1>. DEFINE c == listeners[l].rt
            bindings == ExportBindings(listeners[l].options.exports)
            old == runtimes[c].bindings
            running == IF bindings = old THEN runtimes[c].running
                       ELSE IF bindings = <<>> THEN runtimes[c].running \ {"export"}
                       ELSE IF runtimes[c].started THEN runtimes[c].running \cup {"export"}
                       ELSE runtimes[c].running
            new == [runtimes[c] EXCEPT !.bindings = bindings, !.shown = entry.options,
                                       !.running = running]
            changed == {b.target : b \in (ToSet(bindings) \ ToSet(old)) \cup
                                         (ToSet(old) \ ToSet(bindings))}
<1>1. /\ UNCHANGED <<entry, current, orphaned>> /\ HasLock(l)
      /\ listeners[l].stage = "export" /\ issues' = issues \ changed
      /\ listeners' = [listeners EXCEPT ![l].stage = "entities"]
      /\ runtimes' = [runtimes EXCEPT ![c] = new]
  BY DEF ExportReconfigured, At, Move, RuntimeOf
<1>2. c \in DOMAIN runtimes BY RuntimeCalled
<1>3. /\ new.options = runtimes[c].options /\ new.bindings = bindings
      /\ new.running = running /\ new.version = runtimes[c].version
      /\ DOMAIN new = DOMAIN runtimes[c]
  BY <1>2 DEF StoredInv, RuntimeFields
<1>4. \A t \in TargetsOf(old) : t \notin changed => t \in TargetsOf(bindings)
  BY DEF TargetsOf
<1>5. bindings # <<>> /\ "export" \in runtimes[c].running => "export" \in running
  OBVIOUS
<1>6. \A t : Drops(l, t) => t \notin TargetsOf(bindings)
  BY <1>1 DEF Drops, ExportTargetIds
<1>7. \A t \in TargetsOf(bindings) : bindings # <<>>
  BY DEF TargetsOf, ToSet
<1>. HIDE DEF new, running, bindings, changed
<1>8. /\ Len(runtimes') = Len(runtimes) /\ runtimes'[c] = new
      /\ \A r \in DOMAIN runtimes : r # c => runtimes'[r] = runtimes[r]
      /\ DOMAIN runtimes' = DOMAIN runtimes
  <2>1. {"settings", "options", "version", "bindings", "shown", "running"}
          \subseteq DOMAIN runtimes[c] /\ runtimes[c].version \in Nat
    BY <1>2 DEF StoredInv, RuntimeFields
  <2>. HIDE DEF c
  <2>. QED BY <1>1, <1>2, <1>3, <2>1, FieldsReplaced DEF StoredInv
<1>9. OthersStay(l) /\ listeners'[l].stage = "entities"
      /\ listeners'[l].options = listeners[l].options
  <2>1. "entities" \in Stage BY DEF Stage
  <2>. QED BY <1>1, <1>8, <2>1, Moved DEF StoredInv, OthersStay
<1>10. /\ \A k, t : k # l => (Drops(k, t)' <=> Drops(k, t))
       /\ \A k : Mine(k)' <=> Mine(k)
  BY <1>1, <1>9, OthersDrop
<1>11. InForce' = InForce /\ Registered' = Registered /\ Exists' = Exists
  BY <1>1 DEF InForce, Registered, Exists
<1>12. HeldInv'
  <2>. SUFFICES ASSUME Registered, NEW t, Held(t)'
                PROVE  \/ t \in TargetsOf(InForce) \/ t \in orphaned
                       \/ \E k : Mine(k)' /\ Drops(k, t)'
    BY <1>1, <1>11 DEF HeldInv
  <2>1. CASE Mine(l)
    <3>1. t \in TargetsOf(bindings)
      BY <1>1, <1>2, <1>3, <1>8, <2>1 DEF Mine, Held
    <3>2. Working(l) BY <1>1, <2>1 DEF Working
    <3>3. CASE listeners[l].options = entry.options
      BY <3>1, <3>3 DEF InForce, bindings
    <3>4. ASSUME NEW m, Mine(m), listeners[m].stage \in {"called", "queued"}
          PROVE  Mine(m)' /\ Drops(m, t)'
      <4>1. m # l /\ Drops(m, t) BY <1>1, <3>4 DEF Drops, Mine
      <4>. QED BY <1>10, <3>4, <4>1
    <3>. QED BY <3>2, <3>3, <3>4 DEF CallsInv, CapturedInv
  <2>2. CASE ~Mine(l)
    <3>1. current # c BY <2>2 DEF Mine
    <3>2. Held(t) BY <1>1, <1>8, <3>1 DEF Held
    <3>. QED BY <1>10, <2>2, <3>2 DEF CallsInv, HeldInv
  <2>. QED BY <2>1, <2>2
<1>13. CapturedInv'
  <2>. SUFFICES ASSUME Registered, NEW k, Working(k)'
                PROVE  \/ listeners'[k].options = entry.options
                       \/ \E m : Mine(m)' /\ listeners'[m].stage \in {"called", "queued"}
    BY <1>1, <1>11 DEF CapturedInv
  <2>1. Working(k) /\ listeners'[k].options = listeners[k].options
    BY <1>1, <1>9, <1>10 DEF Working, Mine, OthersStay
  <2>2. ASSUME NEW m, Mine(m), listeners[m].stage \in {"called", "queued"}
        PROVE  Mine(m)' /\ listeners'[m].stage \in {"called", "queued"}
    BY <1>1, <1>9, <1>10, <2>2 DEF Mine, OthersStay
  <2>. QED BY <2>1, <2>2 DEF CallsInv, CapturedInv
<1>14. BindingsInv'
  <2>. SUFFICES ASSUME NEW r \in DOMAIN runtimes
       PROVE  /\ \A k \in DOMAIN listeners :
                   listeners'[k].rt = r /\ listeners'[k].stage = "entities" =>
                     runtimes'[r].bindings = ExportBindings(listeners'[k].options.exports)
              /\ (\A k \in DOMAIN listeners :
                    listeners'[k].rt = r => listeners'[k].stage # "entities") =>
                   runtimes'[r].bindings = ExportBindings(runtimes'[r].options.exports)
    BY <1>8, <1>9 DEF BindingsInv, OthersStay
  <2>1. CASE r = c
    <3>1. \A k \in DOMAIN listeners :
            listeners'[k].rt = c /\ listeners'[k].stage = "entities" => k = l
      BY <1>1, <1>9, AloneAtWork DEF StoredInv, OthersStay
    <3>2. listeners'[l].rt = c BY <1>9 DEF OthersStay
    <3>. QED BY <1>3, <1>8, <1>9, <2>1, <3>1, <3>2 DEF bindings
  <2>2. CASE r # c
    <3>1. runtimes'[r] = runtimes[r] BY <1>8, <2>2
    <3>2. \A k \in DOMAIN listeners : listeners[k].rt = r => listeners'[k] = listeners[k]
      BY <1>9, <2>2 DEF OthersStay
    <3>3. \A k \in DOMAIN listeners : listeners'[k].rt = listeners[k].rt
      BY <1>9 DEF OthersStay
    <3>. QED BY <3>1, <3>2, <3>3 DEF CallsInv, BindingsInv
  <2>. QED BY <2>1, <2>2
<1>15. ASSUME NEW t \in issues' \ orphaned PROVE Accounted(t)'
  <2>1. Accounted(t) /\ t \notin changed BY <1>1 DEF CallsInv, IssueInv
  <2>2. ASSUME Held(t)
        PROVE  /\ Held(t)'
               /\ "export" \in runtimes[current].running =>
                    "export" \in runtimes'[current].running
    <3>1. CASE current = c
      <4>1. t \in TargetsOf(bindings) BY <1>4, <2>1, <2>2, <3>1 DEF Held
      <4>. QED BY <1>1, <1>2, <1>3, <1>5, <1>7, <1>8, <3>1, <4>1 DEF Held
    <3>2. CASE current # c
      BY <1>1, <1>8, <2>2, <3>2 DEF Held
    <3>. QED BY <3>1, <3>2
  <2>3. ASSUME NEW k \in DOMAIN listeners, Drops(k, t),
               t \in TargetsOf(runtimes[listeners[k].rt].bindings)
        PROVE  /\ k \in DOMAIN listeners' /\ Drops(k, t)'
               /\ t \in TargetsOf(runtimes'[listeners'[k].rt].bindings)
    <3>1. k # l BY <1>4, <1>6, <2>1, <2>3
    <3>2. /\ k \in DOMAIN listeners' /\ listeners'[k] = listeners[k] /\ Drops(k, t)'
          /\ listeners[k].rt \in DOMAIN runtimes
      BY <1>9, <1>10, <2>3, <3>1, RuntimeCalled DEF OthersStay
    <3>3. CASE listeners[k].rt = c
      BY <1>3, <1>4, <1>8, <2>1, <2>3, <3>2, <3>3
    <3>4. CASE listeners[k].rt # c
      BY <1>8, <2>3, <3>2, <3>4
    <3>. QED BY <3>2, <3>3, <3>4
  <2>. QED BY <1>1, <1>11, <2>1, <2>2, <2>3 DEF Accounted
<1>16. IssueInv' BY <1>1, <1>15 DEF CallsInv, IssueInv
<1>17. NoneInv' BY <1>1, <1>8 DEF CallsInv, NoneInv
<1>. QED BY <1>12, <1>13, <1>14, <1>16, <1>17 DEF CallsInv

(* A call that ends records the options of the bindings of its manager.      *)
LEMMA EndKeepsCalls ==
  ASSUME StoredInv, CallsInv, NEW l \in DOMAIN listeners, ListenerEnds(l)
  PROVE  CallsInv'
<1>. DEFINE c == listeners[l].rt
            new == [runtimes[c] EXCEPT !.options = listeners[l].options,
                                       !.version = listeners[l].version]
<1>1. /\ UNCHANGED <<entry, current, issues, orphaned>> /\ HasLock(l)
      /\ listeners[l].stage = "entities"
      /\ listeners' = [listeners EXCEPT ![l].stage = "done"]
      /\ runtimes' = [runtimes EXCEPT ![c] = new]
  BY DEF ListenerEnds, At, Move, Applied
<1>2. c \in DOMAIN runtimes BY RuntimeCalled
<1>3. {"settings", "options", "version", "bindings", "shown", "running"}
        \subseteq DOMAIN runtimes[c]
  BY <1>2 DEF StoredInv, RuntimeFields
<1>4. /\ new.options = listeners[l].options /\ new.bindings = runtimes[c].bindings
      /\ new.running = runtimes[c].running /\ new.version = listeners[l].version
      /\ DOMAIN new = DOMAIN runtimes[c]
  BY <1>3
<1>5. listeners[l].version \in Nat BY DEF StoredInv, ListenerFields
<1>. HIDE DEF new
<1>6. /\ Len(runtimes') = Len(runtimes) /\ runtimes'[c] = new
      /\ \A r \in DOMAIN runtimes : r # c => runtimes'[r] = runtimes[r]
      /\ DOMAIN runtimes' = DOMAIN runtimes
  <2>. HIDE DEF c
  <2>. QED BY <1>1, <1>2, <1>3, <1>4, <1>5, FieldsReplaced DEF StoredInv
<1>7. OthersStay(l) /\ listeners'[l].stage = "done"
  <2>1. "done" \in Stage BY DEF Stage
  <2>. QED BY <1>1, <1>6, <2>1, Moved DEF StoredInv, OthersStay
<1>8. /\ \A k, t : Drops(k, t)' <=> Drops(k, t)
      /\ \A k : Mine(k)' <=> Mine(k)
  <2>1. \A t : ~Drops(l, t) /\ ~Drops(l, t)' BY <1>1, <1>7 DEF Drops
  <2>. QED BY <1>1, <1>7, <2>1, OthersDrop
<1>9. \A r \in DOMAIN runtimes : /\ runtimes'[r].bindings = runtimes[r].bindings
                                 /\ runtimes'[r].running = runtimes[r].running
  BY <1>4, <1>6
<1>10. InForce' = InForce /\ Registered' = Registered /\ Exists' = Exists
  BY <1>1 DEF InForce, Registered, Exists
<1>11. \A t : /\ Held(t)' <=> Held(t)
              /\ Held(t) => runtimes'[current].running = runtimes[current].running
  BY <1>1, <1>6, <1>9 DEF Held
<1>12. HeldInv' BY <1>1, <1>8, <1>10, <1>11 DEF CallsInv, HeldInv
<1>13. CapturedInv'
  <2>. SUFFICES ASSUME Registered, NEW k, Working(k)'
                PROVE  \/ listeners'[k].options = entry.options
                       \/ \E m : Mine(m)' /\ listeners'[m].stage \in {"called", "queued"}
    BY <1>1, <1>10 DEF CapturedInv
  <2>1. Working(k) /\ listeners'[k].options = listeners[k].options
    BY <1>1, <1>7, <1>8 DEF Working, Mine, OthersStay
  <2>2. ASSUME NEW m, Mine(m), listeners[m].stage \in {"called", "queued"}
        PROVE  Mine(m)' /\ listeners'[m].stage \in {"called", "queued"}
    BY <1>1, <1>7, <1>8, <2>2 DEF Mine, OthersStay
  <2>. QED BY <2>1, <2>2 DEF CallsInv, CapturedInv
<1>14. BindingsInv'
  <2>. SUFFICES ASSUME NEW r \in DOMAIN runtimes
       PROVE  /\ \A k \in DOMAIN listeners :
                   listeners'[k].rt = r /\ listeners'[k].stage = "entities" =>
                     runtimes'[r].bindings = ExportBindings(listeners'[k].options.exports)
              /\ (\A k \in DOMAIN listeners :
                    listeners'[k].rt = r => listeners'[k].stage # "entities") =>
                   runtimes'[r].bindings = ExportBindings(runtimes'[r].options.exports)
    BY <1>6, <1>7 DEF BindingsInv, OthersStay
  <2>1. CASE r = c
    <3>1. \A k \in DOMAIN listeners : ~(listeners'[k].rt = c /\ listeners'[k].stage = "entities")
      BY <1>1, <1>7, AloneAtWork DEF StoredInv, OthersStay
    <3>2. runtimes[c].bindings = ExportBindings(listeners[l].options.exports)
      BY <1>1, <1>2 DEF CallsInv, BindingsInv
    <3>. QED BY <1>4, <1>6, <2>1, <3>1, <3>2
  <2>2. CASE r # c
    <3>1. runtimes'[r] = runtimes[r] BY <1>6, <2>2
    <3>2. \A k \in DOMAIN listeners : listeners[k].rt = r => listeners'[k] = listeners[k]
      BY <1>7, <2>2 DEF OthersStay
    <3>3. \A k \in DOMAIN listeners : listeners'[k].rt = listeners[k].rt
      BY <1>7 DEF OthersStay
    <3>. QED BY <3>1, <3>2, <3>3 DEF CallsInv, BindingsInv
  <2>. QED BY <2>1, <2>2
<1>15. ASSUME NEW t \in issues \ orphaned PROVE Accounted(t)'
  <2>1. Accounted(t) BY DEF CallsInv, IssueInv
  <2>2. \A k \in DOMAIN listeners :
          /\ k \in DOMAIN listeners' /\ listeners'[k].rt = listeners[k].rt
          /\ runtimes'[listeners'[k].rt].bindings = runtimes[listeners[k].rt].bindings
    BY <1>7, <1>9, RuntimeCalled DEF OthersStay
  <2>. QED BY <1>1, <1>8, <1>10, <1>11, <2>1, <2>2 DEF Accounted
<1>16. IssueInv' BY <1>1, <1>15 DEF CallsInv, IssueInv
<1>17. NoneInv' BY <1>1, <1>6 DEF CallsInv, NoneInv
<1>. QED BY <1>12, <1>13, <1>14, <1>16, <1>17 DEF CallsInv

-----------------------------------------------------------------------------
(* The calls and the issues: the flows.                                      *)

(* Storing: the call of the listener that a change makes is still to start,  *)
(* so that it drops whatever its manager has.                                *)
LEMMA StoringKeepsCalls ==
  ASSUME StoredInv, CallsInv, Exists, NEW data, NEW options, Update(data, options),
         UNCHANGED <<current, runtimes>>, orphaned \subseteq orphaned', issues' \subseteq issues,
         \A t \in issues' \ orphaned' :
           t \in TargetsOf(InForce) => t \in TargetsOf(InForce)' \/ (Registered /\ Held(t))
  PROVE  CallsInv'
<1>. DEFINE changed == data # entry.data \/ options # entry.options
            call == [rt |-> current, options |-> options, version |-> 0,
                     stage |-> IF LockFree THEN "called" ELSE "queued"]
            new == Len(listeners) + 1
<1>1. /\ entry' = [entry EXCEPT !.data = data, !.options = options,
                     !.version = IF options # entry.options THEN @ + 1 ELSE @]
      /\ listeners' = IF changed /\ Registered THEN Append(listeners, call) ELSE listeners
  BY DEF Update
<1>2. entry'.state = entry.state /\ entry'.options = options
  BY <1>1 DEF StoredInv, EntryFields
<1>3. Exists' /\ Registered' = Registered BY <1>2 DEF Exists, Registered
<1>4. PICK S : listeners \in Seq(S) BY DEF StoredInv, ListenerFields
<1>5. call.stage \in {"called", "queued"} /\ call.rt = current OBVIOUS
<1>. HIDE DEF call
<1>6. /\ \A k \in DOMAIN listeners : k \in DOMAIN listeners' /\ listeners'[k] = listeners[k]
      /\ DOMAIN listeners' \subseteq DOMAIN listeners \cup {new}
      /\ new \in DOMAIN listeners' => listeners'[new] = call
      /\ new \notin DOMAIN listeners
      /\ changed /\ Registered => new \in DOMAIN listeners'
  <2>. HIDE DEF changed
  <2>1. CASE changed /\ Registered
    <3>1. listeners' = Append(listeners, call) BY <1>1, <2>1
    <3>. QED BY <1>4, <3>1
  <2>2. CASE ~(changed /\ Registered)
    <3>1. listeners' = listeners BY <1>1, <2>2
    <3>2. new \notin DOMAIN listeners BY <1>4
    <3>. QED BY <2>2, <3>1, <3>2
  <2>. QED BY <2>1, <2>2
<1>7. \A k, t : Drops(k, t) => Drops(k, t)'
  BY <1>6 DEF Drops, ExportTargetIds
<1>8. \A k : Mine(k) => Mine(k)' BY <1>6 DEF Mine
<1>9. ASSUME Registered, options # entry.options
      PROVE  \E k : /\ Mine(k)' /\ listeners'[k].stage \in {"called", "queued"}
                    /\ \A t : Drops(k, t)'
  <2>1. PICK k : k = new OBVIOUS
  <2>2. k \in DOMAIN listeners' /\ listeners'[k] = call BY <1>6, <1>9, <2>1
  <2>. HIDE DEF new
  <2>3. Mine(k)' /\ \A t : Drops(k, t)' BY <1>5, <2>2 DEF Mine, Drops
  <2>. QED BY <1>5, <2>2, <2>3
<1>10. \A t : Held(t)' <=> Held(t) BY DEF Held
<1>11. HeldInv'
  <2>. SUFFICES ASSUME Registered, NEW t, Held(t)
                PROVE  \/ t \in TargetsOf(InForce)' \/ t \in orphaned'
                       \/ \E k : Mine(k)' /\ Drops(k, t)'
    BY <1>3, <1>10 DEF HeldInv
  <2>1. CASE options # entry.options BY <1>9, <2>1
  <2>2. CASE options = entry.options
    <3>1. InForce' = InForce BY <1>2, <2>2 DEF InForce
    <3>. QED BY <1>7, <1>8, <3>1 DEF CallsInv, HeldInv
  <2>. QED BY <2>1, <2>2
<1>12. CapturedInv'
  <2>. SUFFICES ASSUME Registered, NEW k, Working(k)'
                PROVE  \/ listeners'[k].options = options
                       \/ \E m : Mine(m)' /\ listeners'[m].stage \in {"called", "queued"}
    BY <1>2, <1>3 DEF CapturedInv
  <2>1. CASE options # entry.options BY <1>9, <2>1
  <2>2. CASE options = entry.options
    <3>1. Working(k) /\ listeners'[k] = listeners[k]
      BY <1>5, <1>6 DEF Working, Mine
    <3>2. ASSUME NEW m, Mine(m), listeners[m].stage \in {"called", "queued"}
          PROVE  Mine(m)' /\ listeners'[m].stage \in {"called", "queued"}
      BY <1>6, <1>8, <3>2 DEF Mine
    <3>. QED BY <2>2, <3>1, <3>2 DEF CallsInv, CapturedInv
  <2>. QED BY <2>1, <2>2
<1>13. BindingsInv'
  <2>. SUFFICES ASSUME NEW r \in DOMAIN runtimes
       PROVE  /\ \A k \in DOMAIN listeners' :
                   listeners'[k].rt = r /\ listeners'[k].stage = "entities" =>
                     runtimes[r].bindings = ExportBindings(listeners'[k].options.exports)
              /\ (\A k \in DOMAIN listeners' :
                    listeners'[k].rt = r => listeners'[k].stage # "entities") =>
                   runtimes[r].bindings = ExportBindings(runtimes[r].options.exports)
    BY DEF BindingsInv
  <2>1. /\ \A k \in DOMAIN listeners :
             listeners[k].rt = r /\ listeners[k].stage = "entities" =>
               runtimes[r].bindings = ExportBindings(listeners[k].options.exports)
        /\ (\A k \in DOMAIN listeners :
              listeners[k].rt = r => listeners[k].stage # "entities") =>
             runtimes[r].bindings = ExportBindings(runtimes[r].options.exports)
    BY DEF CallsInv, BindingsInv
  <2>2. \A k \in DOMAIN listeners' : listeners'[k].stage = "entities" =>
          k \in DOMAIN listeners
    BY <1>5, <1>6
  <2>. QED BY <1>6, <2>1, <2>2
<1>14. ASSUME NEW t \in issues' \ orphaned' PROVE Accounted(t)'
  <2>1. Accounted(t) BY DEF CallsInv, IssueInv
  <2>2. ASSUME NEW k \in DOMAIN listeners, Drops(k, t),
               t \in TargetsOf(runtimes[listeners[k].rt].bindings)
        PROVE  /\ k \in DOMAIN listeners' /\ Drops(k, t)'
               /\ t \in TargetsOf(runtimes'[listeners'[k].rt].bindings)
    BY <1>6, <1>7, <2>2
  <2>3. entry'.state # "removed" BY <1>3 DEF Exists
  <2>4. t \in TargetsOf(InForce) => t \in TargetsOf(InForce)' \/ (Registered /\ Held(t))
    OBVIOUS
  <2>. QED BY <1>2, <1>3, <1>10, <2>1, <2>2, <2>3, <2>4 DEF Accounted
<1>15. IssueInv' BY <1>14 DEF CallsInv, IssueInv
<1>16. NoneInv' BY <1>3 DEF NoneInv, Exists
<1>. QED BY <1>11, <1>12, <1>13, <1>15, <1>16 DEF CallsInv

(* The targets in force after a deletion.                                    *)
LEMMA DeletionLeaves ==
  ASSUME NEW o \in Options, NEW old \in Id
  PROVE  TargetsOf(ExportBindings(OptionsDeleting(o, old).exports))
           = TargetsOf(ExportBindings(o.exports)) \ {old}
<1>. DEFINE q == ExportBindings(o.exports)
            n == OptionsDeleting(o, old)
<1>1. /\ n.exports \in Seq(Binding) /\ NoClash(n.exports)
      /\ ToSet(n.exports) = {b \in ToSet(q) : b.target # old}
  BY DeletingStored
<1>2. ExportBindings(n.exports) = n.exports BY <1>1, AllInForce
<1>. HIDE DEF n, q
<1>3. TargetsOf(n.exports) = TargetsOf(q) \ {old} BY <1>1 DEF TargetsOf
<1>. QED BY <1>2, <1>3 DEF n, q

LEMMA DeleteBindingKeepsCalls ==
  ASSUME StoredInv, ChoicesInv, CallsInv, NEW f \in Flow, DeleteBinding(f)
  PROVE  CallsInv'
<1>. DEFINE old == flows[f].managed
            options == OptionsDeleting(entry.options, old)
<1>1. /\ Exists /\ old \in TargetsOf(InForce) /\ issues' = issues \ {old}
      /\ Update(entry.data, options) /\ UNCHANGED <<current, runtimes, orphaned>>
  BY DEF DeleteBinding, IssuesWithout, Store
<1>2. entry.options \in Options BY <1>1 DEF ChoicesInv, TypedInv
<1>3. entry'.options = options BY <1>1 DEF Update, StoredInv, EntryFields
<1>4. old \in Id
  <2>1. entry.options.exports \in Seq(Binding) BY <1>2 DEF Options
  <2>2. InForce \in Seq(Binding) BY <2>1, InForceIsStored DEF InForce
  <2>. QED BY <1>1, <2>2, TargetsTyped
<1>5. TargetsOf(InForce)' = TargetsOf(InForce) \ {old}
  BY <1>2, <1>3, <1>4, DeletionLeaves DEF InForce
<1>. HIDE DEF options, old
<1>. QED BY <1>1, <1>5, StoringKeepsCalls

(* A target that the tested binding drops is one of the manager in force, or *)
(* one that no manager knows of.                                             *)
LEMMA BindingTestedKeepsCalls ==
  ASSUME StoredInv, ConnInv, ClientInv, CallsInv, NEW f \in Flow, BindingTested(f)
  PROVE  CallsInv'
<1>. DEFINE c == flows[f].client
            lost == TargetsOf(InForce) \ ExportTargetIds(entry'.options)
<1>1. PICK options : Update(entry.data, options)
  BY DEF BindingTested, Store
<1>2. /\ Exists /\ UNCHANGED <<current, runtimes>> /\ runtimes[c].conn = "connected"
      /\ orphaned' = orphaned \cup (lost \ TargetsOf(runtimes[c].bindings))
      /\ issues' \subseteq issues /\ Testing(f)
  BY DEF BindingTested, Answering, IssuesWithout, Testing
<1>3. Registered /\ c = current /\ c \in DOMAIN runtimes
  BY <1>2 DEF ClientInv, ConnInv, Exists, Registered
<1>4. TargetsOf(InForce)' = ExportTargetIds(entry'.options)
  BY DEF InForce, ExportTargetIds
<1>5. \A t \in issues' \ orphaned' :
        t \in TargetsOf(InForce) => t \in TargetsOf(InForce)' \/ (Registered /\ Held(t))
  BY <1>2, <1>3, <1>4 DEF Held
<1>. QED BY <1>1, <1>2, <1>5, StoringKeepsCalls

LEMMA FlowStepKeepsCalls ==
  ASSUME StoredInv, ChoicesInv, ConnInv, ClientInv, CallsInv, NEW f \in Flow, FlowStep(f)
  PROVE  CallsInv'
<1>1. FlowEffect(f) /\ UNCHANGED <<current, runtimes, phase>>
  BY FlowStepEffect
<1>2. SameBindings BY <1>1 DEF SameBindings
<1>3. CASE UNCHANGED <<entry, listeners, issues, orphaned>>
  BY <1>1, <1>2, <1>3, UnmovedKeepsCalls DEF SameCalls
<1>4. CASE /\ entry.state = "none" /\ entry'.state = "not_loaded"
           /\ UNCHANGED <<listeners, issues, orphaned>>
  <2>1. HeldInv' /\ CapturedInv' /\ NoneInv'
    BY <1>4 DEF HeldInv, CapturedInv, NoneInv, Registered
  <2>2. BindingsInv' BY <1>1, <1>4 DEF CallsInv, BindingsInv
  <2>3. IssueInv' BY <1>4 DEF CallsInv, NoneInv, IssueInv
  <2>. QED BY <2>1, <2>2, <2>3 DEF CallsInv
<1>5. ASSUME Exists, UNCHANGED <<issues, orphaned>>, NEW data, NEW options,
             Update(data, options), options.exports = entry.options.exports
      PROVE  CallsInv'
  <2>1. entry'.options = options BY <1>5 DEF Update, StoredInv, EntryFields
  <2>2. InForce' = InForce BY <1>5, <2>1 DEF InForce
  <2>. QED BY <1>1, <1>5, <2>2, StoringKeepsCalls
<1>. QED
  BY <1>1, <1>3, <1>4, <1>5, DeleteBindingKeepsCalls, BindingTestedKeepsCalls DEF FlowEffect

-----------------------------------------------------------------------------
(* The inductive invariant of the entry, its flows and its issues.           *)

AllInv == StoredInv /\ ChoicesInv /\ ConnInv /\ ClientInv /\ CallsInv

LEMMA NextKeepsAll == AllInv /\ [Next]_vars => AllInv'
<1>. SUFFICES ASSUME AllInv, [Next]_vars PROVE AllInv'
  OBVIOUS
<1>1. StoredInv' BY NextKeepsStored DEF AllInv
<1>2. ChoicesInv' BY NextKeepsChoices DEF AllInv, StoredInv, ChoicesKept
<1>3. ClientInv' BY NextKeepsClient DEF AllInv, StoredInv
<1>4. ASSUME NEW l \in DOMAIN listeners, Listener(l) PROVE ConnInv' /\ CallsInv'
  BY <1>4, ListenerKeepsConn, StartingKeepsCalls, ReconfigurationKeepsCalls,
     EndKeepsCalls DEF AllInv, StoredInv, Listener
<1>5. ASSUME EntryStep PROVE ConnInv' /\ CallsInv'
  BY <1>5, EntryStepKeepsConn, EntryStepKeepsCalls DEF AllInv, StoredInv
<1>6. ASSUME NEW f \in Flow, FlowStep(f) PROVE ConnInv' /\ CallsInv'
  BY <1>6, FlowStepKeepsConn, FlowStepKeepsCalls DEF AllInv, StoredInv
<1>7. ASSUME UNCHANGED vars PROVE ConnInv' /\ CallsInv'
  <2>1. UNCHANGED <<entry, current, runtimes, phase, listeners, issues, orphaned>>
    BY <1>7 DEF vars, entryVars
  <2>2. ConnInv' BY <2>1 DEF AllInv, ConnInv
  <2>3. SameCalls /\ SameBindings BY <2>1 DEF SameCalls, SameBindings
  <2>4. CallsInv' BY <2>1, <2>3, UnmovedKeepsCalls DEF AllInv
  <2>. QED BY <2>2, <2>4
<1>8. ConnInv' /\ CallsInv'
  BY <1>4, <1>5, <1>6, <1>7 DEF Next
<1>. QED BY <1>1, <1>2, <1>3, <1>8 DEF AllInv

LEMMA InitAll ==
  ASSUME NEW objects \in SUBSET Id, NEW settings \in SUBSET Setting,
         NEW stored \in SUBSET Options, NEW bounds,
         InitWith(objects, settings, stored, bounds)
  PROVE  AllInv
<1>1. StoredInv /\ ChoicesInv BY InitStored, InitChoices
<1>2. /\ runtimes = <<>> /\ listeners = <<>> /\ issues = {}
      /\ flows = [f \in Flow |-> Closed] /\ entry.state \in {"none", "not_loaded"}
  BY DEF InitWith
<1>3. DOMAIN runtimes = {} BY <1>2
<1>4. ConnInv BY <1>3 DEF ConnInv
<1>5. ClientInv BY <1>2 DEF ClientInv, Testing, Closed
<1>6. HeldInv /\ CapturedInv BY <1>2 DEF HeldInv, CapturedInv, Registered
<1>7. BindingsInv BY <1>3 DEF BindingsInv
<1>8. IssueInv /\ NoneInv BY <1>2, <1>3 DEF IssueInv, NoneInv
<1>. QED BY <1>1, <1>4, <1>5, <1>6, <1>7, <1>8 DEF AllInv, CallsInv

LEMMA AccountedBelong == StoredInv /\ CallsInv => IssuesBelongToBindings
<1>. SUFFICES ASSUME StoredInv, CallsInv, Quiet PROVE IssuesBelongToBindings
  BY DEF IssuesBelongToBindings
<1>1. \A l, t : ~Drops(l, t) BY DEF Quiet, Drops
<1>2. ASSUME Exists, NEW t \in issues \ orphaned PROVE t \in TargetsOf(InForce)
  <2>1. Accounted(t) /\ entry.state # "removed"
    BY <1>2 DEF CallsInv, IssueInv, Exists
  <2>. QED BY <1>1, <2>1 DEF Accounted, CallsInv, HeldInv
<1>3. ASSUME entry.state = "removed",
             \A r \in DOMAIN runtimes : "export" \notin runtimes[r].running
      PROVE  issues \ orphaned = {}
  <2>1. ASSUME NEW t \in issues \ orphaned PROVE FALSE
    <3>1. Accounted(t) BY DEF CallsInv, IssueInv
    <3>. QED BY <1>1, <1>3, <3>1 DEF Accounted, Held, Exists, Registered
  <2>. QED BY <2>1
<1>. QED BY <1>2, <1>3 DEF IssuesBelongToBindings, InForce, ExportTargetIds

(* However flows, reloads, failures and the calls of the listener overlap,   *)
(* the issues that remain once everything is through belong to bindings in   *)
(* force, and none outlives the entry, but for the orphaned ones             *)
(* (export/manager.py _delete_issue, flows/export.py, async_remove_entry).   *)
THEOREM IssuesBelong ==
  ASSUME NEW objects \in SUBSET Id, NEW settings \in SUBSET Setting,
         NEW stored \in SUBSET Options, NEW bounds
  PROVE  Initially(objects, settings, stored, bounds) => []IssuesBelongToBindings
<1>1. InitWith(objects, settings, stored, bounds) => AllInv BY InitAll
<1>2. AllInv => IssuesBelongToBindings BY AccountedBelong DEF AllInv
<1>. QED BY <1>1, <1>2, NextKeepsAll, PTL DEF Initially

LEMMA AllInvStored == AllInv => StoredTakesEffect
<1>. SUFFICES ASSUME AllInv, Quiet, Loaded
              PROVE  LET r == runtimes[current]
                     IN  /\ r.settings = entry.data
                         /\ r.options = entry.options /\ r.bindings = InForce
                         /\ r.version = entry.version => r.shown = entry.options
  BY DEF StoredTakesEffect
<1>1. Live BY DEF Live, Loaded
<1>2. ~Pending /\ \A l : ~Working(l)
  BY DEF Quiet, Pending, Working, Mine
<1>3. /\ runtimes[current].settings = entry.data
      /\ runtimes[current].options = entry.options
      /\ runtimes[current].version = entry.version => runtimes[current].shown = entry.options
  BY <1>1, <1>2 DEF AllInv, StoredInv, Owed, Recorded
<1>4. current \in DOMAIN runtimes
  <2>1. PICK S : runtimes \in Seq(S) BY DEF AllInv, StoredInv, LifeInv, RuntimesInv
  <2>2. current \in 0 .. Len(runtimes) /\ current # 0
    BY DEF AllInv, StoredInv, LifeInv, EntryInv, Loaded, Registered
  <2>. QED BY <2>1, <2>2
<1>5. runtimes[current].bindings = ExportBindings(runtimes[current].options.exports)
  BY <1>4 DEF AllInv, CallsInv, BindingsInv, Quiet
<1>. QED BY <1>3, <1>5 DEF InForce

(* Whichever flows, reloads and calls of the update listener overlap, and    *)
(* however many, a loaded entry has the stored settings, the stored options   *)
(* recorded as applied and their bindings, once they are through; its        *)
(* entities show these options if no older version of them is the recorded   *)
(* one, which only options that were left and came back leave behind         *)
(* (_async_entry_updated).                                                   *)
THEOREM StoredEffective ==
  ASSUME NEW objects \in SUBSET Id, NEW settings \in SUBSET Setting,
         NEW stored \in SUBSET Options, NEW bounds
  PROVE  Initially(objects, settings, stored, bounds) => []StoredTakesEffect
<1>1. InitWith(objects, settings, stored, bounds) => AllInv BY InitAll
<1>. QED BY <1>1, AllInvStored, NextKeepsAll, PTL DEF Initially

LEMMA AllInvTyped == AllInv => TypeOK
<1>. SUFFICES ASSUME AllInv PROVE TypeOK
  OBVIOUS
<1>1. PICK S : runtimes \in Seq(S)
  BY DEF AllInv, StoredInv, LifeInv, RuntimesInv
<1>2. PICK L : listeners \in Seq(L)
  BY DEF AllInv, StoredInv, ListenerFields
<1>3. Exists => entry.data \in Setting /\ entry.options \in Options
  BY DEF AllInv, ChoicesInv, TypedInv
<1>4. current \in 0 .. Len(runtimes) /\ (entry.state # "removed" => (current # 0 <=> Registered))
  BY DEF AllInv, StoredInv, LifeInv, EntryInv
<1>5. \A r \in DOMAIN runtimes :
        /\ runtimes[r].running \subseteq Component
        /\ runtimes[r].conn \in {"off", "connecting", "connected", "refused"}
  BY DEF AllInv, StoredInv, LifeInv, RuntimesInv, ConnInv, ConnState
<1>6. \A l \in DOMAIN listeners :
        /\ listeners[l].rt \in DOMAIN runtimes
        /\ listeners[l].stage \in {"called", "queued", "reloading", "export", "entities", "done"}
  BY <1>1 DEF AllInv, StoredInv, ListenerFields, Stage
<1>7. \A i \in DOMAIN operations : operations[i].by \in 0 .. Len(listeners)
  BY <1>2 DEF AllInv, StoredInv, OperationsInv
<1>8. issues \subseteq Id /\ catalog \subseteq Id
  BY DEF AllInv, CallsInv, IssueInv, ChoicesInv, TypedInv
<1>. QED BY <1>3, <1>4, <1>5, <1>6, <1>7, <1>8 DEF TypeOK, Options

(* Each variable holds what it should, for any number of set-ups, flows and   *)
(* calls: the runtime in force, the calls and the operations that name one   *)
(* another exist, and what is stored is well formed.                         *)
THEOREM EntryTypes ==
  ASSUME NEW objects \in SUBSET Id, NEW settings \in SUBSET Setting,
         NEW stored \in SUBSET Options, NEW bounds
  PROVE  Initially(objects, settings, stored, bounds) => []TypeOK
<1>1. InitWith(objects, settings, stored, bounds) => AllInv BY InitAll
<1>. QED BY <1>1, AllInvTyped, NextKeepsAll, PTL DEF Initially
=============================================================================
