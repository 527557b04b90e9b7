------------------------- MODULE ObjectControlProofs -------------------------
(***************************************************************************)
(* Theorems about ObjectControl, for every set of objects, configurations    *)
(* and modes, and however pushes, polls, reads and changes interleave with a  *)
(* call: a confirmed command was carried out, an unavailable object keeps    *)
(* what was known of it, a circuit that is off shows no target, and an entity *)
(* remembers what it turned off.  Last, what the forms, the entities and the  *)
(* repair issue make of the configured off mode agrees (HeatingRules).       *)
(***************************************************************************)
EXTENDS ObjectControl, TLAPS

USE ControlAssumption, DeviceAssumption

(* The state that a complete message carries.                                *)
FullState(message) ==
  [k \in WireKeys(kind) |->
     IF k \in DOMAIN message.state THEN message.state[k] ELSE None]

Report(message) == message.usable /\ ~message.failed

(* The shapes of the device, of the object in the snapshot and of a message.  *)
Shapes ==
  /\ kind \in DOMAIN Device /\ kind \in Kind
  /\ device = [a |-> device.a, state |-> [j \in WireKeys(kind) |-> device.state[j]]]
  /\ object # NoObject =>
       object = [available |-> object.available,
                 state |-> [j \in WireKeys(kind) |-> object.state[j]]]
  /\ kind = "heating_circuit" =>
       /\ role \in {"consumer", "dhw"}
       /\ memory = [mode |-> memory.mode, target |-> memory.target]
  /\ call.stage = "sent" =>
       call = [stage |-> "sent", command |-> call.command, seen |-> FALSE]
  /\ call.stage = "accepted" =>
       call = [stage |-> "accepted", command |-> call.command, seen |-> call.seen]
  /\ call.stage = "held" =>
       call = [stage |-> "held", command |-> call.command, seen |-> call.seen,
               message |-> call.message]

(* A call that returns confirmed has seen the state, or left the entity       *)
(* unavailable; on its way, whatever it holds or would be answered counts.   *)
Seen ==
  /\ call.stage = "accepted" => (Satisfies(device.state, call.command) => call.seen)
  /\ call.stage = "held" /\ Report(call.message) =>
       (Satisfies(FullState(call.message), call.command) => call.seen)
  /\ ConfirmedOrUnavailable

(* A circuit that is off has no target: at the controller, in the snapshot    *)
(* and in the answer that a call holds.                                      *)
NoTargetWhenOff(state) == state["m"] = "off" => state["s"] = None

OffInv ==
  kind = "heating_circuit" =>
    /\ device.state["m"] \in CircuitMode /\ NoTargetWhenOff(device.state)
    /\ object # NoObject => NoTargetWhenOff(object.state)
    /\ call.stage = "held" /\ Report(call.message) => NoTargetWhenOff(FullState(call.message))
    /\ call.stage = "sent" => call.command.type \in {"mode", "manual", "target"}

(* What the entity remembers of an active circuit is what the snapshot shows. *)
ModeOf(state) == IF state["m_id"] \in Mode THEN state["m_id"] ELSE None

Remembered ==
  kind = "heating_circuit" /\ object # NoObject /\ object.state["m"] = "heat" =>
    /\ role = "consumer" =>
         /\ memory.mode = ModeOf(object.state)
         /\ object.state["s"] # None => memory.target = object.state["s"]
    /\ role = "dhw" /\ object.state["s"] # None /\ InRange(object.state["s"], DhwLimits) =>
         memory.target = object.state["s"]

(* A circuit that was turned off and left alone is off, or what it was.      *)
AsParked(state) ==
  state["m"] = "heat" /\ ModeOf(state) = parked.mode /\ state["s"] = parked.target

OffOrAsParked(state) ==
  AsParked(state) \/ (state["m"] = "off" /\ device.state["m"] = "off")

ParkedInv ==
  parked # None =>
    /\ kind = "heating_circuit" /\ OffOrAsParked(device.state)
    /\ object # NoObject => OffOrAsParked(object.state)
    /\ call.stage = "held" /\ Report(call.message) => OffOrAsParked(FullState(call.message))
    /\ call.stage = "sent" => call.command.type = "mode" /\ Targets[call.command.id][Self] = 0
    /\ RemembersWhatItTurnedOff

IInv == Shapes /\ Seen /\ OffInv /\ Remembered /\ ParkedInv

-----------------------------------------------------------------------------
(* Messages and what becomes of them.                                        *)

LEMMA Keys ==
  /\ \A k \in Kind : "a" \notin WireKeys(k)
  /\ WireKeys("heating_circuit") = {"c", "s", "m", "m_id", "f"}
BY DEF Kind, WireKeys, Sensor, Element, Output, BusKeys

(* A message of all keys carries the state of the device.                    *)
LEMMA WholeMessage ==
  ASSUME Shapes, NEW keys, WireKeys(kind) \subseteq keys
  PROVE  Report(Typed(keys)) /\ FullState(Typed(keys)) = device.state
<1>1. Typed(keys).usable /\ ~Typed(keys).failed
  BY DEF Typed
<1>2. ASSUME NEW k \in WireKeys(kind)
      PROVE  (IF k \in DOMAIN Typed(keys).state THEN Typed(keys).state[k] ELSE None)
               = device.state[k]
  <2>1. k # "a" BY Keys DEF Shapes
  <2>. QED BY <2>1 DEF Typed
<1>3. FullState(Typed(keys)) = [k \in WireKeys(kind) |-> device.state[k]]
  BY <1>2 DEF FullState
<1>. QED BY <1>1, <1>3 DEF Report, Shapes

(* A whole message replaces the state, or leaves an unavailable object with   *)
(* what it had.                                                              *)
MergedWhole(message, ob) ==
  \/ ob = object /\ ~Usable(message, object)
  \/ /\ object # NoObject /\ message.failed
     /\ ob = [available |-> FALSE, state |-> object.state]
  \/ /\ Report(message)
     /\ ob = [available |-> ob.available, state |-> FullState(message)]
  \/ /\ Report(message) /\ object # NoObject /\ ~ob.available
     /\ ob = [available |-> ob.available,
              state |-> Retained(kind, FullState(message), object)]

LEMMA MergeWhole ==
  ASSUME Shapes, NEW message, NEW partial, ~(partial /\ object # NoObject),
         NEW ob, ob = Merge(kind, message, object, partial)
  PROVE  MergedWhole(message, ob)
<1>1. CASE ~Usable(message, object)
  BY <1>1 DEF Merge, MergedWhole
<1>2. CASE Usable(message, object) /\ message.failed
  <2>1. object # NoObject /\ ob = [object EXCEPT !.available = FALSE]
    BY <1>2 DEF Merge, Usable
  <2>2. object = [available |-> object.available, state |-> object.state]
    BY <2>1 DEF Shapes
  <2>. QED BY <1>2, <2>1, <2>2 DEF MergedWhole
<1>3. CASE Usable(message, object) /\ ~message.failed
  <2>1. Report(message) BY <1>3 DEF Usable, Report
  <2>2. ob = ParseObject(kind, message, object, partial /\ object # NoObject)
    BY <1>3 DEF Merge
  <2>3. ReadState(kind, message, object, partial /\ object # NoObject) = FullState(message)
    <3>1. ASSUME NEW k \in WireKeys(kind)
          PROVE  (IF OffDropsTarget(kind, k, message, partial /\ object # NoObject) THEN None
                  ELSE ReadField(k, message, object, partial /\ object # NoObject))
                   = (IF k \in DOMAIN message.state THEN message.state[k] ELSE None)
      BY DEF OffDropsTarget, ReadField
    <3>. QED BY <3>1 DEF ReadState, FullState
  <2>4. PICK available :
          available = ObjectAvailable(kind, message, object, partial /\ object # NoObject, FullState(message))
    OBVIOUS
  <2>5. ob = [available |-> available,
              state |-> IF available \/ object = NoObject THEN FullState(message)
                        ELSE Retained(kind, FullState(message), object)]
    BY <2>2, <2>3, <2>4 DEF ParseObject
  <2>6. ob.available = available BY <2>5
  <2>7. CASE available \/ object = NoObject BY <2>1, <2>5, <2>6, <2>7 DEF MergedWhole
  <2>8. CASE ~available /\ object # NoObject BY <2>1, <2>5, <2>6, <2>8 DEF MergedWhole
  <2>. QED BY <2>7, <2>8
<1>. QED BY <1>1, <1>2, <1>3

(* A circuit that does not answer for itself keeps all that was known.       *)
LEMMA RetainedCircuit ==
  ASSUME Shapes, object # NoObject, kind = "heating_circuit", NEW state
  PROVE  Retained(kind, state, object) = object.state
<1>1. kind \notin Sensor \cup {"analog_input"} BY DEF Sensor
<1>2. Retained(kind, state, object) = [k \in WireKeys(kind) |-> object.state[k]]
  BY <1>1 DEF Retained, KeepsOnlyUnknown
<1>. QED BY <1>2 DEF Shapes

(* What the snapshot may take in.                                            *)
Proper(ob) ==
  ob # NoObject =>
    /\ ob = [available |-> ob.available, state |-> [j \in WireKeys(kind) |-> ob.state[j]]]
    /\ kind = "heating_circuit" => NoTargetWhenOff(ob.state)
    /\ parked # None => OffOrAsParked(ob.state)

LEMMA WholeProper ==
  ASSUME IInv, NEW message, NEW partial, ~(partial /\ object # NoObject),
         NEW ob, ob = Merge(kind, message, object, partial),
         Report(message) => /\ kind = "heating_circuit" => NoTargetWhenOff(FullState(message))
                            /\ parked # None => OffOrAsParked(FullState(message))
  PROVE  Proper(ob)
<1>1. Proper(object) BY DEF Proper, IInv, Shapes, OffInv, ParkedInv
<1>2. parked # None => kind = "heating_circuit" BY DEF IInv, ParkedInv
<1>3. CASE ob = object BY <1>1, <1>3
<1>4. CASE object # NoObject /\ ob = [available |-> FALSE, state |-> object.state]
  <2>1. ob.state = object.state BY <1>4
  <2>2. object.state = [j \in WireKeys(kind) |-> object.state[j]]
    BY <1>4 DEF IInv, Shapes
  <2>. QED BY <1>1, <1>4, <2>1, <2>2 DEF Proper
<1>5. CASE Report(message) /\ ob = [available |-> ob.available, state |-> FullState(message)]
  <2>1. ob.state = FullState(message) BY <1>5
  <2>2. FullState(message) = [j \in WireKeys(kind) |-> FullState(message)[j]]
    BY DEF FullState
  <2>. QED BY <1>5, <2>1, <2>2 DEF Proper
<1>6. CASE /\ object # NoObject
           /\ ob = [available |-> ob.available,
                    state |-> Retained(kind, FullState(message), object)]
  <2>1. ob.state = Retained(kind, FullState(message), object) BY <1>6
  <2>2. ob.state = [j \in WireKeys(kind) |-> ob.state[j]] BY <2>1 DEF Retained
  <2>3. kind = "heating_circuit" => ob.state = object.state
    BY <1>6, <2>1, RetainedCircuit DEF IInv
  <2>. QED BY <1>1, <1>2, <1>6, <2>1, <2>2, <2>3 DEF Proper
<1>7. MergedWhole(message, ob) BY MergeWhole DEF IInv
<1>. QED BY <1>3, <1>4, <1>5, <1>6, <1>7 DEF MergedWhole

(* A partial push brings what changed, and leaves the rest as it was.        *)
LEMMA PartialProper ==
  ASSUME IInv, object # NoObject, NEW keys, Changed \subseteq keys,
         NEW partial, partial, NEW ob, ob = Merge(kind, Typed(keys), object, partial)
  PROVE  Proper(ob)
<1>1. PICK state : state = ReadState(kind, Typed(keys), object, partial) OBVIOUS
<1>2. PICK available :
        available = ObjectAvailable(kind, Typed(keys), object, partial, state)
  OBVIOUS
<1>3. ob = [available |-> available,
            state |-> IF available THEN state ELSE Retained(kind, state, object)]
  <2>1. ob = ParseObject(kind, Typed(keys), object, partial /\ object # NoObject)
    BY DEF Merge, Usable, Typed
  <2>2. ReadState(kind, Typed(keys), object, partial /\ object # NoObject) = state
    BY <1>1 DEF ReadState, OffDropsTarget, ReadField
  <2>3. ObjectAvailable(kind, Typed(keys), object, partial /\ object # NoObject, state) = available
    BY <1>2 DEF ObjectAvailable
  <2>. QED BY <2>1, <2>2, <2>3 DEF ParseObject
<1>4. (available => ob.state = state) /\ (~available => ob.state = Retained(kind, state, object))
  <2>1. PICK st : st = IF available THEN state ELSE Retained(kind, state, object)
    OBVIOUS
  <2>2. ob = [available |-> available, state |-> st] BY <1>3, <2>1
  <2>3. ob.state = st BY ONLY <2>2
  <2>. QED BY <2>1, <2>3
<1>5. ob = [available |-> ob.available, state |-> [j \in WireKeys(kind) |-> ob.state[j]]]
  <2>1. ob.state = [j \in WireKeys(kind) |-> ob.state[j]]
    BY <1>1, <1>4 DEF ReadState, Retained
  <2>. QED BY <1>3, <2>1
<1>6. parked # None => kind = "heating_circuit" BY DEF IInv, ParkedInv
<1>7. ASSUME kind = "heating_circuit"
      PROVE  NoTargetWhenOff(ob.state) /\ (parked # None => OffOrAsParked(ob.state))
  <2>1. NoTargetWhenOff(object.state) /\ (parked # None => OffOrAsParked(object.state))
    BY <1>7 DEF IInv, OffInv, ParkedInv
  <2>2. CASE ~available
    BY <1>4, <1>7, <2>1, <2>2, RetainedCircuit DEF IInv
  <2>3. CASE available
    <3>1. ob.state = ReadState(kind, Typed(keys), object, partial)
      BY <1>1, <1>4, <2>3
    <3>2. DOMAIN Typed(keys).state = {j \in keys : j = "a" \/ device.state[j] # None}
      BY DEF Typed
    <3>3. ASSUME NEW k \in WireKeys(kind)
          PROVE  /\ ~OffDropsTarget(kind, k, Typed(keys), partial) =>
                      ob.state[k] = IF device.state[k] # None THEN device.state[k]
                                    ELSE object.state[k]
                 /\ OffDropsTarget(kind, k, Typed(keys), partial) => ob.state[k] = None
      <4>1. k # "a" BY Keys DEF IInv, Shapes
      <4>2. k \notin keys => device.state[k] = object.state[k] BY DEF Changed
      <4>3. ob.state[k] = IF OffDropsTarget(kind, k, Typed(keys), partial) THEN None
                          ELSE ReadField(k, Typed(keys), object, partial)
        BY <3>1 DEF ReadState
      <4>4. k \in DOMAIN Typed(keys).state => Typed(keys).state[k] = device.state[k]
        BY <4>1 DEF Typed
      <4>. QED BY <3>2, <4>1, <4>2, <4>3, <4>4 DEF ReadField
    <3>4. OffDropsTarget(kind, "s", Typed(keys), partial) =
            ("s" \notin DOMAIN Typed(keys).state /\ "m" \in DOMAIN Typed(keys).state
               /\ device.state["m"] = "off")
      BY <1>7 DEF OffDropsTarget, Typed
    <3>5. {"s", "m", "m_id"} \subseteq WireKeys(kind) BY <1>7, Keys
    <3>6. device.state["m"] # None /\ NoTargetWhenOff(device.state)
      BY <1>7 DEF IInv, OffInv
    <3>7. ob.state["m"] = device.state["m"]
      BY <3>3, <3>5, <3>6 DEF OffDropsTarget
    <3>8. ob.state["m_id"] = IF device.state["m_id"] # None THEN device.state["m_id"]
                             ELSE object.state["m_id"]
      BY <3>3, <3>5 DEF OffDropsTarget
    <3>9. ob.state["s"] = IF device.state["s"] # None THEN device.state["s"]
                          ELSE IF device.state["m"] = "off" THEN None ELSE object.state["s"]
      <4>1. device.state["m"] = "off" => device.state["s"] = None
        BY <3>6 DEF NoTargetWhenOff
      <4>2. "m" \notin keys => object.state["m"] = device.state["m"]
        BY <3>5 DEF Changed
      <4>3. device.state["m"] = "off" /\ "m" \notin keys => object.state["s"] = None
        BY <2>1, <4>2 DEF NoTargetWhenOff
      <4>4. "m" \in keys => "m" \in DOMAIN Typed(keys).state BY <3>2, <3>6
      <4>5. device.state["s"] = None => "s" \notin DOMAIN Typed(keys).state BY <3>2
      <4>. QED BY <3>3, <3>4, <3>5, <4>1, <4>3, <4>4, <4>5
    <3>10. NoTargetWhenOff(ob.state) BY <3>6, <3>7, <3>9 DEF NoTargetWhenOff
    <3>11. ASSUME parked # None PROVE OffOrAsParked(ob.state)
      <4>1. OffOrAsParked(device.state) /\ OffOrAsParked(object.state)
        BY <2>1, <3>11 DEF IInv, ParkedInv
      <4>2. CASE device.state["m"] = "off" BY <3>7, <4>2 DEF OffOrAsParked
      <4>3. CASE device.state["m"] # "off"
        <5>1. AsParked(device.state) /\ AsParked(object.state)
          BY <4>1, <4>3 DEF OffOrAsParked
        <5>. QED BY <3>7, <3>8, <3>9, <4>3, <5>1 DEF OffOrAsParked, AsParked, ModeOf
      <4>. QED BY <4>2, <4>3
    <3>. QED BY <3>10, <3>11
  <2>. QED BY <2>2, <2>3
<1>. QED BY <1>5, <1>6, <1>7 DEF Proper

(* Whatever an unavailable object was said to be, what was known is kept.    *)
LEMMA MergeKeeps ==
  ASSUME Shapes, object # NoObject, NEW message, NEW partial,
         NEW ob, ob = Merge(kind, message, object, partial), ~ob.available,
         NEW k \in WireKeys(kind), object.state[k] # None
  PROVE  ob.state[k] # None
<1>1. CASE ~Usable(message, object) BY <1>1 DEF Merge
<1>2. CASE Usable(message, object) /\ message.failed
  <2>1. ob = [object EXCEPT !.available = FALSE] BY <1>2 DEF Merge
  <2>. QED BY <2>1 DEF Shapes
<1>3. CASE Usable(message, object) /\ ~message.failed
  <2>1. PICK state, available :
          ob = [available |-> available,
                state |-> IF available \/ object = NoObject THEN state
                          ELSE Retained(kind, state, object)]
    BY <1>3 DEF Merge, ParseObject
  <2>2. ob.state = Retained(kind, state, object) BY <2>1
  <2>. QED BY <2>2 DEF Retained
<1>. QED BY <1>1, <1>2, <1>3

-----------------------------------------------------------------------------
(* Steps.                                                                    *)

(* What the entity makes of a snapshot that it is told of.                    *)
LEMMA Published ==
  ASSUME IInv, NEW ob, Proper(ob), Publish(ob), UNCHANGED <<kind, role, device, parked>>
  PROVE  /\ object' # NoObject =>
              object' = [available |-> object'.available,
                         state |-> [j \in WireKeys(kind) |-> object'.state[j]]]
         /\ kind = "heating_circuit" =>
              /\ memory' = [mode |-> memory'.mode, target |-> memory'.target]
              /\ object' # NoObject => NoTargetWhenOff(object'.state)
         /\ Remembered'
         /\ parked # None =>
              /\ object' # NoObject => OffOrAsParked(object'.state)
              /\ RemembersWhatItTurnedOff'
<1>1. object' = ob /\ (ob = NoObject => memory' = memory)
        /\ (ob # NoObject => memory' = Remember(ob, memory))
  BY DEF Publish
<1>2. ASSUME kind = "heating_circuit", ob # NoObject
      PROVE  /\ memory' = [mode |-> memory'.mode, target |-> memory'.target]
             /\ role = "consumer" /\ ob.state["m"] # "off" =>
                  /\ memory'.mode = ModeOf(ob.state)
                  /\ ob.state["s"] # None => memory'.target = ob.state["s"]
             /\ role = "dhw" /\ ob.state["m"] = "heat" /\ ob.state["s"] # None
                  /\ InRange(ob.state["s"], DhwLimits) => memory'.target = ob.state["s"]
             /\ ob.state["m"] = "off" => memory' = memory
  <2>1. /\ role \in {"consumer", "dhw"}
        /\ memory = [mode |-> memory.mode, target |-> memory.target]
    BY <1>2 DEF IInv, Shapes
  <2>2. memory' = Remember(ob, memory) BY <1>1, <1>2
  <2>3. CASE role = "consumer" /\ ob.state["m"] # "off"
    <3>1. memory' = [mode |-> ModeOf(ob.state),
                     target |-> IF ob.state["s"] # None THEN ob.state["s"] ELSE memory.target]
      BY <1>2, <2>2, <2>3 DEF Remember, ModeOf
    <3>. QED BY <2>3, <3>1
  <2>4. CASE role = "dhw" /\ ob.state["m"] = "heat" /\ ob.state["s"] # None
               /\ InRange(ob.state["s"], DhwLimits)
    <3>1. memory' = [memory EXCEPT !.target = ob.state["s"]]
      BY <1>2, <2>2, <2>4 DEF Remember
    <3>2. memory' = [mode |-> memory.mode, target |-> ob.state["s"]]
      BY <2>1, <3>1
    <3>. QED BY <2>4, <3>2
  <2>5. CASE /\ ~(role = "consumer" /\ ob.state["m"] # "off")
             /\ ~(role = "dhw" /\ ob.state["m"] = "heat" /\ ob.state["s"] # None
                    /\ InRange(ob.state["s"], DhwLimits))
    <3>1. memory' = memory BY <1>2, <2>2, <2>5 DEF Remember
    <3>. QED BY <2>1, <2>5, <3>1
  <2>. QED BY <2>3, <2>4, <2>5
<1>3. Remembered' BY <1>1, <1>2 DEF Remembered, ModeOf, InRange
<1>4. ASSUME parked # None PROVE RemembersWhatItTurnedOff'
  <2>1. kind = "heating_circuit" /\ RemembersWhatItTurnedOff
    BY <1>4 DEF IInv, ParkedInv
  <2>2. CASE ob = NoObject \/ (ob # NoObject /\ ob.state["m"] = "off")
    <3>1. memory' = memory BY <1>1, <1>2, <2>1, <2>2
    <3>. QED BY <2>1, <3>1 DEF RemembersWhatItTurnedOff, InRange
  <2>3. CASE ob # NoObject /\ ob.state["m"] # "off"
    <3>1. AsParked(ob.state) BY <1>4, <2>3 DEF Proper, OffOrAsParked
    <3>2. role \in {"consumer", "dhw"} BY <2>1 DEF IInv, Shapes
    <3>. QED BY <1>2, <2>1, <2>3, <3>1, <3>2 DEF RemembersWhatItTurnedOff, AsParked, InRange
  <2>. QED BY <2>2, <2>3
<1>5. ASSUME kind = "heating_circuit"
      PROVE  memory' = [mode |-> memory'.mode, target |-> memory'.target]
  <2>1. memory = [mode |-> memory.mode, target |-> memory.target]
    BY <1>5 DEF IInv, Shapes
  <2>. QED BY <1>1, <1>2, <1>5, <2>1
<1>6. ob # NoObject =>
        /\ ob = [available |-> ob.available, state |-> [j \in WireKeys(kind) |-> ob.state[j]]]
        /\ kind = "heating_circuit" => NoTargetWhenOff(ob.state)
        /\ parked # None => OffOrAsParked(ob.state)
  BY DEF Proper
<1>. QED BY <1>1, <1>3, <1>4, <1>5, <1>6

(* A call sends a command of the object's type; it parks a circuit only with *)
(* a command to turn it off and a snapshot that is up to date.               *)
Parks(command) ==
  /\ kind = "heating_circuit" /\ object # NoObject
  /\ command.type = "mode" /\ Targets[command.id][Self] = 0
  /\ State["m"] = "heat" /\ Changed = {}
  /\ parked' = [mode |-> ModeOf(State), target |-> State["s"]]

LEMMA Started ==
  ASSUME IInv, StartCall
  PROVE  \E command :
           /\ Send(command)
           /\ kind = "heating_circuit" => command.type \in {"mode", "manual", "target"}
           /\ \/ parked' = None
              \/ kind # "heating_circuit" /\ parked' = parked
              \/ Parks(command)
<1>1. ASSUME NEW v, SwitchRelay(v) \/ ArmZone(v) \/ SwitchElement(v)
      PROVE  Send([type |-> "set", value |-> v]) /\ kind # "heating_circuit" /\ parked' = parked
  BY <1>1 DEF SwitchRelay, ArmZone, SwitchElement, Set, Undisturbed, Entity
<1>2. CASE Press
  BY <1>2 DEF Press, Undisturbed, Entity
<1>3. ASSUME NEW m, NEW off, SetMode(m, off), Heater("consumer") \/ Heater("dhw")
               \/ Entity("heating_circuit"),
             \/ parked' = None
             \/ Targets[m][Self] = 0 /\ Park
      PROVE  \E command :
               /\ Send(command)
               /\ kind = "heating_circuit" => command.type \in {"mode", "manual", "target"}
               /\ parked' = None \/ Parks(command)
  <2>1. kind = "heating_circuit" /\ object # NoObject BY <1>3 DEF Heater, Entity
  <2>2. PICK command : command = [type |-> "mode", id |-> m, off |-> off] OBVIOUS
  <2>3. Send(command) /\ command.type = "mode" /\ command.id = m
    BY <1>3, <2>2 DEF SetMode
  <2>4. parked' = None \/ Parks(command)
    BY <1>3, <2>1, <2>3 DEF Park, Parks, ModeOf
  <2>. QED BY <2>3, <2>4
<1>4. CASE TurnOff
  <2>1. OffMode # None /\ SetMode(OffMode, TRUE) /\ Park
          /\ (Heater("consumer") \/ Heater("dhw"))
    BY <1>4 DEF TurnOff
  <2>2. ModeDisablesCircuits(Modes[config.off], Circuit) /\ config.off \in DOMAIN Modes
          /\ OffMode = config.off
    BY <2>1 DEF OffMode, ValidatedOffMode
  <2>3. Modes[config.off][Self] = 0 BY <2>2 DEF ModeDisablesCircuits
  <2>4. Modes[config.off] = Targets[config.off] BY <2>2 DEF Modes
  <2>5. Targets[OffMode][Self] = 0 BY <2>2, <2>3, <2>4
  <2>. QED BY <1>3, <2>1, <2>5
<1>5. CASE TurnOnClimate
  <2>1. CASE RestorableMode # None /\ SetMode(RestorableMode, FALSE)
    BY <1>3, <1>5, <2>1 DEF TurnOnClimate, Disturb
  <2>2. CASE \E t : Send([type |-> "target", target |-> t])
    BY <1>5, <2>2 DEF TurnOnClimate, Disturb
  <2>. QED BY <1>5, <2>1, <2>2 DEF TurnOnClimate
<1>6. CASE TurnOnWater \/ SelectManual
  BY <1>6 DEF TurnOnWater, SelectManual, Disturb
<1>7. ASSUME NEW m \in Mode, SelectMode(m)
      PROVE  \E command :
               /\ Send(command)
               /\ kind = "heating_circuit" => command.type \in {"mode", "manual", "target"}
               /\ parked' = None \/ Parks(command)
  BY <1>3, <1>7 DEF SelectMode, Disturb
<1>8. ASSUME NEW t, SetTemperature(t)
      PROVE  Send([type |-> "target", target |-> t]) /\ parked' = None
  BY <1>8 DEF SetTemperature, Disturb
<1>. QED BY <1>1, <1>2, <1>4, <1>5, <1>6, <1>7, <1>8 DEF StartCall

LEMMA StartCallStep ==
  ASSUME IInv, StartCall
  PROVE  IInv'
<1>1. PICK command :
        /\ Send(command)
        /\ kind = "heating_circuit" => command.type \in {"mode", "manual", "target"}
        /\ \/ parked' = None
           \/ kind # "heating_circuit" /\ parked' = parked
           \/ Parks(command)
  BY Started
<1>2. /\ call' = [stage |-> "sent", command |-> command, seen |-> FALSE]
      /\ kind' = kind /\ role' = role /\ device' = device /\ object' = object
      /\ memory' = memory
  BY <1>1 DEF Send
<1>3. call'.stage = "sent" /\ call'.command = command /\ call'.seen = FALSE
  BY <1>2
<1>4. Shapes' BY <1>2, <1>3 DEF IInv, Shapes
<1>5. Seen' BY <1>3 DEF Seen, ConfirmedOrUnavailable
<1>6. OffInv' BY <1>1, <1>2, <1>3 DEF IInv, OffInv, NoTargetWhenOff
<1>7. Remembered' BY <1>2 DEF IInv, Remembered, ModeOf, InRange
<1>8. ASSUME parked' # None PROVE Parks(command)
  BY <1>1, <1>8 DEF IInv, ParkedInv
<1>9. ASSUME Parks(command) PROVE ParkedInv'
  <2>1. /\ kind = "heating_circuit" /\ object # NoObject
        /\ command.type = "mode" /\ Targets[command.id][Self] = 0
        /\ object.state["m"] = "heat" /\ Changed = {}
        /\ parked' = [mode |-> ModeOf(object.state), target |-> object.state["s"]]
    BY <1>9 DEF Parks, State
  <2>2. parked'.mode = ModeOf(object.state) /\ parked'.target = object.state["s"]
    BY <2>1
  <2>3. \A k \in {"s", "m", "m_id"} : device.state[k] = object.state[k]
    BY <2>1, Keys DEF Changed
  <2>4. AsParked(object.state)' /\ AsParked(device.state)'
    BY <1>2, <2>1, <2>2, <2>3 DEF AsParked, ModeOf
  <2>5. RemembersWhatItTurnedOff'
    <3>1. role \in {"consumer", "dhw"} BY <2>1 DEF IInv, Shapes
    <3>. QED BY <1>2, <2>1, <2>2, <3>1 DEF IInv, Remembered, RemembersWhatItTurnedOff, InRange
  <2>. QED BY <1>2, <1>3, <2>1, <2>4, <2>5 DEF ParkedInv, OffOrAsParked
<1>10. ParkedInv' BY <1>8, <1>9 DEF ParkedInv
<1>. QED BY <1>4, <1>5, <1>6, <1>7, <1>10 DEF IInv

LEMMA AcceptStep ==
  ASSUME IInv, Accept
  PROVE  IInv'
<1>1. /\ call = [stage |-> "sent", command |-> call.command, seen |-> FALSE]
      /\ call.stage = "sent"
      /\ kind' = kind /\ role' = role /\ object' = object /\ memory' = memory
      /\ parked' = parked
      /\ device' \in {device, CarryOut(call.command)}
  BY DEF Accept, IInv, Shapes
<1>2. PICK command : command = call.command OBVIOUS
<1>3. \/ call' = [stage |-> "accepted", command |-> command,
                  seen |-> Satisfies(device'.state, command)]
      \/ call' = [stage |-> "done", result |-> "ok", confirmed |-> FALSE]
  BY <1>1, <1>2 DEF Accept, Returned
<1>4. \/ /\ call'.stage = "accepted" /\ call'.command = command
         /\ call'.seen = Satisfies(device'.state, command)
      \/ call'.stage = "done" /\ call'.confirmed = FALSE
  BY <1>3
<1>5. device' = [a |-> device'.a, state |-> [j \in WireKeys(kind) |-> device'.state[j]]]
  BY <1>1 DEF IInv, Shapes, CarryOut
<1>6. ASSUME kind = "heating_circuit"
      PROVE  device'.state["m"] \in CircuitMode /\ NoTargetWhenOff(device'.state)
  <2>1. CASE device' = device BY <1>6, <2>1 DEF IInv, OffInv
  <2>2. CASE device' = CarryOut(call.command)
    <3>1. call.command.type \in {"mode", "manual", "target"}
      BY <1>1, <1>6 DEF IInv, OffInv
    <3>2. {"s", "m", "m_id"} \subseteq WireKeys(kind) BY <1>6, Keys
    <3>3. PICK change : change = Carry(call.command) OBVIOUS
    <3>4. /\ {"s", "m"} \subseteq DOMAIN change /\ change["m"] \in {"heat", "off"}
          /\ change["m"] = "off" => change["s"] = None
      BY <3>1, <3>3 DEF Carry
    <3>5. device'.state = [k \in WireKeys(kind) |->
                             IF k \in DOMAIN change THEN change[k] ELSE device.state[k]]
      BY <2>2, <3>3 DEF CarryOut, IInv, Shapes
    <3>. QED BY <3>2, <3>4, <3>5 DEF NoTargetWhenOff, CircuitMode
  <2>. QED BY <1>1, <2>1, <2>2
<1>7. Shapes' BY <1>1, <1>3, <1>4, <1>5 DEF IInv, Shapes
<1>8. Seen'
  <2>1. CASE call'.stage = "accepted"
    <3>1. kind' = kind /\ role' = role BY <1>1
    <3>2. Satisfies(device.state, call.command)' = Satisfies(device'.state, call'.command)
      BY <3>1 DEF Satisfies, Logical
    <3>. QED BY <1>4, <2>1, <3>2 DEF Seen, ConfirmedOrUnavailable
  <2>2. CASE call'.stage = "done" /\ call'.confirmed = FALSE
    BY <2>2 DEF Seen, ConfirmedOrUnavailable
  <2>. QED BY <1>4, <2>1, <2>2
<1>9. OffInv' BY <1>1, <1>4, <1>6 DEF IInv, OffInv, NoTargetWhenOff
<1>10. Remembered' BY <1>1 DEF IInv, Remembered, ModeOf, InRange
<1>11. ASSUME parked # None PROVE ParkedInv'
  <2>1. /\ kind = "heating_circuit" /\ RemembersWhatItTurnedOff
        /\ call.command.type = "mode" /\ Targets[call.command.id][Self] = 0
        /\ OffOrAsParked(device.state)
        /\ object # NoObject => OffOrAsParked(object.state)
    BY <1>1, <1>11 DEF IInv, ParkedInv
  <2>2. CASE device' = device
    BY <1>1, <1>4, <2>1, <2>2
       DEF ParkedInv, OffOrAsParked, AsParked, ModeOf, RemembersWhatItTurnedOff, InRange
  <2>3. CASE device' = CarryOut(call.command)
    <3>1. Carry(call.command) = [s |-> None, m |-> "off", m_id |-> call.command.id]
      BY <2>1 DEF Carry
    <3>2. device'.state["m"] = "off"
      BY <2>1, <2>3, <3>1, Keys DEF CarryOut, IInv, Shapes
    <3>. QED BY <1>1, <1>4, <2>1, <3>2
         DEF ParkedInv, OffOrAsParked, AsParked, ModeOf, RemembersWhatItTurnedOff, InRange
  <2>. QED BY <1>1, <2>2, <2>3
<1>12. ParkedInv' BY <1>1, <1>11 DEF ParkedInv
<1>. QED BY <1>7, <1>8, <1>9, <1>10, <1>12 DEF IInv

LEMMA ChangeStep ==
  ASSUME IInv, NEW d \in Device[kind], Change(d)
  PROVE  IInv'
<1>1. /\ kind' = kind /\ role' = role /\ object' = object /\ memory' = memory
      /\ parked' = None /\ device' = d
      /\ call' = IF call.stage \in {"accepted", "held"}
                 THEN [call EXCEPT !.seen = @ \/ Satisfies(d.state, call.command)]
                 ELSE call
  BY DEF Change, Disturb
<1>2. /\ d = [a |-> d.a, state |-> [j \in WireKeys(kind) |-> d.state[j]]]
      /\ kind = "heating_circuit" =>
           d.state["m"] \in CircuitMode /\ NoTargetWhenOff(d.state)
  BY DeviceAssumption DEF IInv, Shapes, NoTargetWhenOff
<1>3. CASE call.stage = "accepted"
  <2>1. call = [stage |-> "accepted", command |-> call.command, seen |-> call.seen]
    BY <1>3 DEF IInv, Shapes
  <2>2. call' = [stage |-> "accepted", command |-> call.command,
                 seen |-> call.seen \/ Satisfies(d.state, call.command)]
    BY <1>1, <1>3, <2>1
  <2>3. /\ call'.stage = "accepted" /\ call'.command = call.command
        /\ call'.seen = (call.seen \/ Satisfies(d.state, call.command))
    BY <2>2
  <2>4. Shapes' BY <1>1, <1>2, <2>2, <2>3 DEF IInv, Shapes
  <2>5. Seen'
    <3>1. kind' = kind /\ role' = role /\ device' = d BY <1>1
    <3>2. Satisfies(device.state, call.command)' = Satisfies(d.state, call.command)
      BY <2>3, <3>1 DEF Satisfies, Logical
    <3>. QED BY <2>3, <3>2 DEF Seen, ConfirmedOrUnavailable
  <2>6. OffInv' BY <1>1, <1>2, <2>3 DEF IInv, OffInv, NoTargetWhenOff
  <2>. QED BY <1>1, <2>4, <2>5, <2>6 DEF IInv, Remembered, ModeOf, InRange, ParkedInv
<1>4. CASE call.stage = "held"
  <2>1. call = [stage |-> "held", command |-> call.command, seen |-> call.seen,
                message |-> call.message]
    BY <1>4 DEF IInv, Shapes
  <2>2. call' = [stage |-> "held", command |-> call.command,
                 seen |-> call.seen \/ Satisfies(d.state, call.command),
                 message |-> call.message]
    BY <1>1, <1>4, <2>1
  <2>3. /\ call'.stage = "held" /\ call'.command = call.command
        /\ call'.seen = (call.seen \/ Satisfies(d.state, call.command))
        /\ call'.message = call.message
    BY <2>2
  <2>4. Shapes' BY <1>1, <1>2, <2>2, <2>3 DEF IInv, Shapes
  <2>5. Seen'
    <3>1. kind' = kind /\ role' = role BY <1>1
    <3>2. Satisfies(FullState(call.message), call.command)'
            = Satisfies(FullState(call.message), call.command)
      BY <2>3, <3>1 DEF Satisfies, Logical, FullState
    <3>. QED BY <1>4, <2>3, <3>2 DEF IInv, Seen, ConfirmedOrUnavailable, Report
  <2>6. OffInv'
    BY <1>1, <1>2, <1>4, <2>3 DEF IInv, OffInv, NoTargetWhenOff, Report, FullState
  <2>. QED BY <1>1, <2>4, <2>5, <2>6 DEF IInv, Remembered, ModeOf, InRange, ParkedInv
<1>5. CASE call.stage \notin {"accepted", "held"}
  <2>1. call' = call BY <1>1, <1>5
  <2>2. Shapes' BY <1>1, <1>2, <2>1 DEF IInv, Shapes
  <2>3. Seen' BY <1>5, <2>1 DEF IInv, Seen, ConfirmedOrUnavailable
  <2>4. OffInv' BY <1>1, <1>2, <1>5, <2>1 DEF IInv, OffInv, NoTargetWhenOff
  <2>. QED BY <1>1, <2>2, <2>3, <2>4 DEF IInv, Remembered, ModeOf, InRange, ParkedInv
<1>. QED BY <1>3, <1>4, <1>5

LEMMA AnswerStep ==
  ASSUME IInv, Answer
  PROVE  IInv'
<1>1. PICK message \in {Complete, Failed, Malformed} :
        call' = [stage |-> "held", command |-> call.command, seen |-> call.seen,
                 message |-> message]
  BY DEF Answer
<1>2. /\ call.stage = "accepted"
      /\ kind' = kind /\ role' = role /\ device' = device /\ object' = object
      /\ memory' = memory /\ parked' = parked
  BY DEF Answer
<1>3. /\ call'.stage = "held" /\ call'.command = call.command /\ call'.seen = call.seen
      /\ call'.message = message
  BY <1>1
<1>4. Report(message) => FullState(message) = device.state
  <2>1. CASE message = Complete
    BY <2>1, WholeMessage DEF Complete, AllKeys, IInv
  <2>2. CASE message \in {Failed, Malformed} BY <2>2 DEF Failed, Malformed, Report
  <2>. QED BY <2>1, <2>2
<1>5. Report(call.message)' = Report(message)
        /\ FullState(call.message)' = FullState(message)
  BY <1>2, <1>3 DEF Report, FullState
<1>6. Shapes' BY <1>1, <1>2, <1>3 DEF IInv, Shapes
<1>7. Seen'
  <2>1. Satisfies(FullState(call.message), call.command)'
          = Satisfies(FullState(message), call.command)
    BY <1>2, <1>3, <1>5 DEF Satisfies, Logical
  <2>. QED BY <1>2, <1>3, <1>4, <1>5, <2>1 DEF IInv, Seen, ConfirmedOrUnavailable
<1>8. OffInv' BY <1>2, <1>3, <1>4, <1>5 DEF IInv, OffInv, NoTargetWhenOff
<1>9. Remembered' BY <1>2 DEF IInv, Remembered, ModeOf, InRange
<1>10. ParkedInv'
  BY <1>2, <1>3, <1>4, <1>5
     DEF IInv, ParkedInv, OffOrAsParked, AsParked, ModeOf, RemembersWhatItTurnedOff, InRange
<1>. QED BY <1>6, <1>7, <1>8, <1>9, <1>10 DEF IInv

LEMMA ReceiveStep ==
  ASSUME IInv, NEW ob, Proper(ob), Publish(ob), UNCHANGED <<kind, role, device, call, parked>>
  PROVE  IInv'
<1>1. kind' = kind /\ role' = role /\ device' = device /\ call' = call /\ parked' = parked
  OBVIOUS
<1>2. /\ object' # NoObject =>
           object' = [available |-> object'.available,
                      state |-> [j \in WireKeys(kind) |-> object'.state[j]]]
      /\ kind = "heating_circuit" =>
           /\ memory' = [mode |-> memory'.mode, target |-> memory'.target]
           /\ object' # NoObject => NoTargetWhenOff(object'.state)
      /\ Remembered'
      /\ parked # None =>
           /\ object' # NoObject => OffOrAsParked(object'.state)
           /\ RemembersWhatItTurnedOff'
  BY <1>1, Published
<1>3. Shapes' BY <1>1, <1>2 DEF IInv, Shapes
<1>4. Seen'
  BY <1>1 DEF IInv, Seen, ConfirmedOrUnavailable, Satisfies, Logical, Report, FullState
<1>5. OffInv' BY <1>1, <1>2 DEF IInv, OffInv, NoTargetWhenOff, Report, FullState
<1>6. ParkedInv'
  BY <1>1, <1>2 DEF IInv, ParkedInv, OffOrAsParked, AsParked, ModeOf, Report, FullState
<1>. QED BY <1>2, <1>3, <1>4, <1>5, <1>6 DEF IInv

LEMMA PushStep ==
  ASSUME IInv, Push
  PROVE  IInv'
<1>1. PICK keys : Changed \subseteq keys /\ Receive(Typed(keys), TRUE)
  <2>1. Changed \subseteq AllKeys BY DEF Changed, AllKeys
  <2>. QED BY <2>1 DEF Push
<1>2. PICK partial, ob : partial /\ ob = Merge(kind, Typed(keys), object, partial) /\ Publish(ob)
  <2>1. \E partial, ob : partial /\ ob = Merge(kind, Typed(keys), object, partial) /\ Publish(ob)
    <3>. WITNESS TRUE, Merge(kind, Typed(keys), object, TRUE)
    <3>. QED BY <1>1 DEF Receive
  <2>. QED BY <2>1
<1>3. Proper(ob)
  <2>1. CASE object # NoObject BY <1>1, <1>2, <2>1, PartialProper
  <2>2. CASE object = NoObject
    <3>1. WireKeys(kind) \subseteq keys BY <1>1, <2>2 DEF Changed, AllKeys
    <3>2. FullState(Typed(keys)) = device.state BY <3>1, WholeMessage DEF IInv
    <3>. QED BY <1>2, <2>2, <3>2, WholeProper DEF IInv, OffInv, ParkedInv
  <2>. QED BY <2>1, <2>2
<1>. QED BY <1>1, <1>2, <1>3, ReceiveStep DEF Receive

LEMMA PollStep ==
  ASSUME IInv, Poll
  PROVE  IInv'
<1>1. PICK message \in {Complete, Failed, Malformed} : Receive(message, FALSE)
  BY DEF Poll
<1>2. PICK partial, ob : ~partial /\ ob = Merge(kind, message, object, partial) /\ Publish(ob)
  <2>1. \E partial, ob : ~partial /\ ob = Merge(kind, message, object, partial) /\ Publish(ob)
    <3>. WITNESS FALSE, Merge(kind, message, object, FALSE)
    <3>. QED BY <1>1 DEF Receive
  <2>. QED BY <2>1
<1>3. Report(message) => FullState(message) = device.state
  <2>1. CASE message = Complete
    BY <2>1, WholeMessage DEF Complete, AllKeys, IInv
  <2>2. CASE message \in {Failed, Malformed} BY <2>2 DEF Failed, Malformed, Report
  <2>. QED BY <2>1, <2>2
<1>4. Proper(ob) BY <1>2, <1>3, WholeProper DEF IInv, OffInv, ParkedInv
<1>. QED BY <1>1, <1>2, <1>4, ReceiveStep DEF Receive

(* A call that ends without a confirmation, or with a true one.              *)
LEMMA EndStep ==
  ASSUME IInv, UNCHANGED <<kind, role, device, object, memory, parked>>,
         call'.stage = "done", ConfirmedOrUnavailable'
  PROVE  IInv'
<1>1. /\ kind' = kind /\ role' = role /\ device' = device /\ object' = object
      /\ memory' = memory /\ parked' = parked
  OBVIOUS
<1>2. Shapes' BY <1>1 DEF IInv, Shapes
<1>3. Seen' BY DEF Seen
<1>4. OffInv' BY <1>1 DEF IInv, OffInv, NoTargetWhenOff
<1>5. Remembered' BY <1>1 DEF IInv, Remembered, ModeOf, InRange
<1>6. ParkedInv'
  BY <1>1 DEF IInv, ParkedInv, OffOrAsParked, AsParked, ModeOf, RemembersWhatItTurnedOff, InRange
<1>. QED BY <1>2, <1>3, <1>4, <1>5, <1>6 DEF IInv

LEMMA FinishStep ==
  ASSUME IInv, Finish
  PROVE  IInv'
<1>1. /\ call.stage = "held"
      /\ kind' = kind /\ role' = role /\ device' = device /\ parked' = parked
  BY DEF Finish
<1>2. PICK partial, ob : /\ ~partial /\ ob = Merge(kind, call.message, object, partial)
                         /\ ob = Merge(kind, call.message, object, FALSE)
  <2>1. \E partial, ob : /\ ~partial /\ ob = Merge(kind, call.message, object, partial)
                         /\ ob = Merge(kind, call.message, object, FALSE)
    <3>. WITNESS FALSE, Merge(kind, call.message, object, FALSE)
    <3>. QED OBVIOUS
  <2>. QED BY <2>1
<1>3. Publish(ob) BY <1>2 DEF Finish
<1>4. Proper(ob)
  <2>1. Report(call.message) =>
          /\ kind = "heating_circuit" => NoTargetWhenOff(FullState(call.message))
          /\ parked # None => OffOrAsParked(FullState(call.message))
    BY <1>1 DEF IInv, OffInv, ParkedInv
  <2>. QED BY <1>2, <2>1, WholeProper
<1>5. \/ call' = Returned("ok") \/ call' = Returned("unconfirmed")
      \/ /\ Usable(call.message, object) /\ Satisfies(ob.state, call.command)
         /\ call' = [stage |-> "done", result |-> "ok", confirmed |-> TRUE,
                     seen |-> call.seen, shown |-> ob.available]
  BY <1>2 DEF Finish, Checked
<1>6. call'.stage = "done" /\ ConfirmedOrUnavailable'
  <2>1. CASE call' = Returned("ok") \/ call' = Returned("unconfirmed")
    BY <2>1 DEF Returned, ConfirmedOrUnavailable
  <2>2. CASE /\ Usable(call.message, object) /\ Satisfies(ob.state, call.command)
             /\ call' = [stage |-> "done", result |-> "ok", confirmed |-> TRUE,
                         seen |-> call.seen, shown |-> ob.available]
    <3>1. call'.stage = "done" /\ call'.seen = call.seen /\ call'.shown = ob.available
      BY <2>2
    <3>2. CASE ob = [available |-> FALSE, state |-> object.state]
      BY <3>1, <3>2 DEF ConfirmedOrUnavailable
    <3>3. CASE Report(call.message) /\ ~ob.available
      BY <3>1, <3>3 DEF ConfirmedOrUnavailable
    <3>4. CASE /\ Report(call.message)
               /\ ob = [available |-> ob.available, state |-> FullState(call.message)]
      <4>1. ob.state = FullState(call.message) BY <3>4
      <4>2. call.seen BY <1>1, <2>2, <3>4, <4>1 DEF IInv, Seen
      <4>. QED BY <3>1, <4>2 DEF ConfirmedOrUnavailable
    <3>5. MergedWhole(call.message, ob)
      BY <1>2, MergeWhole DEF IInv
    <3>6. call'.stage = "done" /\ (ConfirmedOrUnavailable' \/ ~Usable(call.message, object))
      BY <3>1, <3>2, <3>3, <3>4, <3>5 DEF MergedWhole
    <3>. QED BY <2>2, <3>6
  <2>. QED BY <1>5, <2>1, <2>2
<1>7. Seen' BY <1>6 DEF Seen
<1>8. /\ object' # NoObject =>
           object' = [available |-> object'.available,
                      state |-> [j \in WireKeys(kind) |-> object'.state[j]]]
      /\ kind = "heating_circuit" =>
           /\ memory' = [mode |-> memory'.mode, target |-> memory'.target]
           /\ object' # NoObject => NoTargetWhenOff(object'.state)
      /\ Remembered'
      /\ parked # None =>
           /\ object' # NoObject => OffOrAsParked(object'.state)
           /\ RemembersWhatItTurnedOff'
  BY <1>1, <1>3, <1>4, Published
<1>9. Shapes' BY <1>1, <1>6, <1>8 DEF IInv, Shapes
<1>10. OffInv' BY <1>1, <1>6, <1>8 DEF IInv, OffInv, NoTargetWhenOff
<1>11. ParkedInv'
  BY <1>1, <1>6, <1>8 DEF IInv, ParkedInv, OffOrAsParked, AsParked, ModeOf
<1>. QED BY <1>7, <1>8, <1>9, <1>10, <1>11 DEF IInv

LEMMA Initial == Init => IInv
<1>. SUFFICES ASSUME Init PROVE IInv OBVIOUS
<1>1. /\ kind \in DOMAIN Device /\ role \in Roles(kind) /\ device \in Device[kind]
      /\ object = NoObject /\ memory = [mode |-> None, target |-> None]
      /\ call = [stage |-> "idle"] /\ parked = None
  BY DEF Init, NoCall
<1>2. call.stage = "idle" BY <1>1
<1>3. /\ device = [a |-> device.a, state |-> [j \in WireKeys(kind) |-> device.state[j]]]
      /\ kind = "heating_circuit" =>
           device.state["m"] \in CircuitMode /\ NoTargetWhenOff(device.state)
  BY <1>1, DeviceAssumption DEF NoTargetWhenOff
<1>4. kind = "heating_circuit" => role \in {"consumer", "dhw"} BY <1>1 DEF Roles
<1>5. Shapes BY <1>1, <1>2, <1>3, <1>4 DEF Shapes
<1>6. Seen BY <1>2 DEF Seen, ConfirmedOrUnavailable
<1>7. OffInv BY <1>1, <1>2, <1>3 DEF OffInv
<1>. QED BY <1>1, <1>5, <1>6, <1>7 DEF IInv, Remembered, ParkedInv

LEMMA Inductive == IInv /\ [Next]_vars => IInv'
<1>. SUFFICES ASSUME IInv, [Next]_vars PROVE IInv' OBVIOUS
<1>1. CASE StartCall BY <1>1, StartCallStep
<1>2. CASE Accept BY <1>2, AcceptStep
<1>3. CASE Reject \/ Interrupt
  <2>1. PICK result : call' = [stage |-> "done", result |-> result, confirmed |-> FALSE]
    BY <1>3 DEF Reject, Interrupt, Returned
  <2>2. call'.stage = "done" /\ call'.confirmed = FALSE BY <2>1
  <2>3. ConfirmedOrUnavailable' BY <2>2 DEF ConfirmedOrUnavailable
  <2>. QED BY <1>3, <2>2, <2>3, EndStep DEF Reject, Interrupt
<1>4. CASE Answer BY <1>4, AnswerStep
<1>5. CASE Finish BY <1>5, FinishStep
<1>6. CASE Push BY <1>6, PushStep
<1>7. CASE Poll BY <1>7, PollStep
<1>8. ASSUME NEW d \in Device[kind], Change(d) PROVE IInv' BY <1>8, ChangeStep
<1>9. CASE UNCHANGED <<kind, role, device, object, call, memory, parked>>
  <2>1. /\ kind' = kind /\ role' = role /\ device' = device /\ object' = object
        /\ call' = call /\ memory' = memory /\ parked' = parked
    BY <1>9
  <2>2. Shapes' /\ Seen'
    BY <2>1 DEF IInv, Shapes, Seen, ConfirmedOrUnavailable, Satisfies, Logical, Report, FullState
  <2>3. OffInv' BY <2>1 DEF IInv, OffInv, NoTargetWhenOff, Report, FullState
  <2>4. Remembered' BY <2>1 DEF IInv, Remembered, ModeOf, InRange
  <2>5. ParkedInv'
    BY <2>1 DEF IInv, ParkedInv, OffOrAsParked, AsParked, ModeOf, Report, FullState,
                RemembersWhatItTurnedOff, InRange
  <2>. QED BY <2>2, <2>3, <2>4, <2>5 DEF IInv
<1>10. ASSUME NEW c, ConfigRefreshed(c) PROVE IInv'
  BY <1>9, <1>10 DEF ConfigRefreshed
<1>. QED BY <1>1, <1>2, <1>3, <1>4, <1>5, <1>6, <1>7, <1>8, <1>9, <1>10 DEF Next, vars

-----------------------------------------------------------------------------
(* Types.                                                                    *)

(* A message brings what the readers accept, and a command is one for the     *)
(* object's type: a mode sets the circuit.                                   *)
TypedMessage(message) ==
  \A k \in WireKeys(kind) :
    k \in DOMAIN message.state => message.state[k] \in Accepted(kind, k) \cup {None}

TypedObject(ob) ==
  ob # NoObject =>
    /\ ob.available \in BOOLEAN
    /\ DOMAIN ob.state = WireKeys(kind)
    /\ Legible(kind, ob.state)

Fits(command) ==
  /\ command \in Command
  /\ command.type = "set" => kind \in {"relay", "security_zone", "complex_button"}
  /\ command.type \in {"mode", "manual", "target"} => kind = "heating_circuit"
  /\ command.type = "mode" => Self \in DOMAIN Targets[command.id]

Types ==
  /\ TypeOK
  /\ call.stage = "held" => TypedMessage(call.message)
  /\ call.stage = "sent" => Fits(call.command)

LEMMA MessagesTyped ==
  ASSUME Types
  PROVE  /\ \A keys : TypedMessage(Typed(keys))
         /\ TypedMessage(Failed) /\ TypedMessage(Malformed)
<1>1. kind \in Kind /\ "a" \notin WireKeys(kind)
  BY Keys, ControlAssumption DEF Types, TypeOK
<1>2. ASSUME NEW keys PROVE TypedMessage(Typed(keys))
  <2>1. Typed(keys).state
          = [k \in {j \in keys : j = "a" \/ device.state[j] # None} |->
               IF k = "a" THEN device.a ELSE device.state[k]]
    BY DEF Typed
  <2>2. ASSUME NEW k \in WireKeys(kind), k \in DOMAIN Typed(keys).state
        PROVE  Typed(keys).state[k] = device.state[k]
    BY <1>1, <2>1, <2>2
  <2>. QED BY <2>2 DEF Types, TypeOK, TypedMessage, Legible
<1>3. TypedMessage(Failed) /\ TypedMessage(Malformed)
  BY DEF TypedMessage, Failed, Malformed
<1>. QED BY <1>2, <1>3

LEMMA AvailabilityTyped ==
  ASSUME TypedObject(object), NEW message, NEW partial, partial => object # NoObject,
         NEW state
  PROVE  ObjectAvailable(kind, message, object, partial, state) \in BOOLEAN
<1>1. HasState(kind, state) \in BOOLEAN
  <2>1. CASE kind \in Element
    <3>1. ElementStateIsValid(kind, state["s"]) \in BOOLEAN
      <4>1. CASE kind \in {"status", "complex_button"}
        <5>1. ElementStateIsValid(kind, state["s"]) = (state["s"] \in Binary)
          BY <4>1 DEF ElementStateIsValid
        <5>. QED BY <5>1
      <4>2. CASE kind = "simple_button" BY <4>2 DEF ElementStateIsValid
      <4>3. CASE kind \notin {"status", "complex_button", "simple_button"}
        BY <4>3 DEF ElementStateIsValid
      <4>. QED BY <4>1, <4>2, <4>3
    <3>2. HasState(kind, state) = ElementStateIsValid(kind, state["s"])
      BY <2>1 DEF HasState, Element
    <3>. QED BY <3>1, <3>2
  <2>2. CASE kind = "analog_input" BY <2>2 DEF HasState, Element
  <2>3. CASE kind = "security_zone" BY <2>3 DEF HasState, Element
  <2>4. CASE kind \notin Element \cup {"analog_input", "security_zone"}
    <3>1. HasState(kind, state) = \E k \in WireKeys(kind) : state[k] # None
      BY <2>4 DEF HasState
    <3>. QED BY <3>1
  <2>. QED BY <2>1, <2>2, <2>3, <2>4
<1>. QED BY <1>1 DEF ObjectAvailable, TypedObject

(* What a message makes of an object is typed when both are.                  *)
LEMMA MergeTyped ==
  ASSUME TypedObject(object), NEW message, TypedMessage(message), NEW partial
  PROVE  TypedObject(Merge(kind, message, object, partial))
<1>. DEFINE ob == Merge(kind, message, object, partial)
            whole == partial /\ object # NoObject
            state == ReadState(kind, message, object, whole)
            available == ObjectAvailable(kind, message, object, whole, state)
<1>1. CASE ~Usable(message, object) BY <1>1 DEF Merge
<1>2. CASE Usable(message, object) /\ message.failed
  <2>1. ob = [object EXCEPT !.available = FALSE] BY <1>2 DEF Merge
  <2>2. object # NoObject BY <1>2 DEF Usable
  <2>3. object.available \in BOOLEAN BY <2>2 DEF TypedObject
  <2>4. ob.state = object.state BY <2>1
  <2>5. ob.available \in BOOLEAN
    <3>1. CASE "available" \in DOMAIN object BY <2>1, <3>1
    <3>2. CASE "available" \notin DOMAIN object BY <2>1, <2>3, <3>2
    <3>. QED BY <3>1, <3>2
  <2>. QED BY <2>2, <2>4, <2>5 DEF TypedObject
<1>3. CASE Usable(message, object) /\ ~message.failed
  <2>1. ob = [available |-> available,
              state |-> IF available \/ object = NoObject THEN state
                        ELSE Retained(kind, state, object)]
    BY <1>3 DEF Merge, ParseObject
  <2>2. available \in BOOLEAN BY AvailabilityTyped
  <2>3. state = [k \in WireKeys(kind) |-> state[k]]
    BY DEF ReadState
  <2>4. ASSUME NEW k \in WireKeys(kind)
        PROVE  state[k] \in Accepted(kind, k) \cup {None}
    <3>1. state[k] = IF OffDropsTarget(kind, k, message, whole) THEN None
                     ELSE ReadField(k, message, object, whole)
      BY DEF ReadState
    <3>. QED BY <3>1 DEF ReadField, TypedMessage, TypedObject, Legible
  <2>5. ASSUME object # NoObject
        PROVE  /\ DOMAIN Retained(kind, state, object) = WireKeys(kind)
               /\ Legible(kind, Retained(kind, state, object))
    <3>. HIDE DEF state
    <3>1. ASSUME NEW k \in WireKeys(kind)
          PROVE  Retained(kind, state, object)[k] \in {state[k], object.state[k]}
      BY DEF Retained
    <3>. QED BY <2>4, <2>5, <3>1 DEF Retained, Legible, TypedObject
  <2>. HIDE DEF state, available, whole
  <2>6. DOMAIN state = WireKeys(kind) /\ Legible(kind, state) BY <2>3, <2>4 DEF Legible
  <2>7. ob.available = available
          /\ ob.state \in {state} \cup
               (IF object = NoObject THEN {} ELSE {Retained(kind, state, object)})
    <3>. HIDE DEF ob
    <3>. QED BY <2>1
  <2>. HIDE DEF ob
  <2>8. TypedObject(ob) BY <2>2, <2>5, <2>6, <2>7 DEF TypedObject
  <2>. QED BY <2>8 DEF ob
<1>. QED BY <1>1, <1>2, <1>3

LEMMA PublishTyped ==
  ASSUME Shapes, Types, NEW ob, TypedObject(ob), Publish(ob), kind' = kind
  PROVE  /\ TypedObject(object)'
         /\ memory' \in [mode : Mode \cup {None}, target : Unit \cup {None}]
<1>1. object' = ob BY DEF Publish
<1>2. TypedObject(object)' BY <1>1 DEF TypedObject, Legible
<1>3. memory \in [mode : Mode \cup {None}, target : Unit \cup {None}] BY DEF Types, TypeOK
<1>. DEFINE Memory == [mode : Mode \cup {None}, target : Unit \cup {None}]
<1>4. ASSUME ob = NoObject \/ kind # "heating_circuit" PROVE memory' \in Memory
  <2>1. memory' = memory BY <1>4 DEF Publish, Remember
  <2>. QED BY <1>3, <2>1
<1>5. ASSUME ob # NoObject, kind = "heating_circuit" PROVE memory' \in Memory
  <2>1. memory' = Remember(ob, memory) BY <1>5 DEF Publish
  <2>2. ob.state["s"] \in Unit \cup {None}
    <3>1. "s" \in WireKeys(kind) /\ Accepted(kind, "s") = Unit
      BY <1>5, Keys DEF Accepted, Element
    <3>. QED BY <1>5, <3>1 DEF TypedObject, Legible
  <2>3. CASE role = "consumer" /\ ob.state["m"] # "off"
    <3>1. memory' = [mode |-> IF ob.state["m_id"] \in Mode THEN ob.state["m_id"] ELSE None,
                     target |-> IF ob.state["s"] # None THEN ob.state["s"] ELSE memory.target]
      BY <1>5, <2>1, <2>3 DEF Remember
    <3>. QED BY <1>3, <2>2, <3>1
  <2>4. CASE /\ role = "dhw" /\ ob.state["m"] = "heat" /\ ob.state["s"] # None
             /\ InRange(ob.state["s"], DhwLimits)
    <3>1. memory' = [memory EXCEPT !.target = ob.state["s"]]
      BY <1>5, <2>1, <2>4 DEF Remember
    <3>. QED BY <1>3, <2>2, <3>1
  <2>5. CASE /\ ~(role = "consumer" /\ ob.state["m"] # "off")
             /\ ~(role = "dhw" /\ ob.state["m"] = "heat" /\ ob.state["s"] # None
                    /\ InRange(ob.state["s"], DhwLimits))
    <3>1. memory' = memory BY <1>5, <2>1, <2>5 DEF Remember
    <3>. QED BY <1>3, <3>1
  <2>. QED BY <2>3, <2>4, <2>5
<1>. QED BY <1>2, <1>4, <1>5

(* A call sends a command for the object's type.                             *)
LEMMA RangeTyped ==
  ASSUME Types, kind = "heating_circuit", Range # None
  PROVE  Range[1] \in Unit
<1>. DEFINE circuit == config.circuit
            sensor == config.sensor
            range == RangeByMode(circuit, sensor)
<1>1. Range = range BY DEF Range, ControlRange
<1>2. /\ circuit.min \in Unit \cup {None} /\ circuit.max \in Unit \cup {None}
      /\ sensor # None => sensor[1] \in Unit \cup {None}
      /\ AirRange[1] \in Unit /\ WaterRange[1] \in Unit /\ WeatherRange[1] \in Unit
  BY TargetAssumption DEF Types, TypeOK
<1>3. Threshold(sensor, 1) \in Unit \cup {None} BY <1>2 DEF Threshold
<1>4. CASE BaseControlMode(circuit) \in {"air", "air_pid"}
  <2>1. range = [b \in {1, 2} |-> Or(Threshold(sensor, b), AirRange[b])]
    <3>1. ~UsesWeatherCompensatedSetpoint(circuit)
      BY <1>4 DEF UsesWeatherCompensatedSetpoint, BaseControlMode
    <3>. QED BY <1>4, <3>1 DEF RangeByMode
  <2>2. range[1] = Or(Threshold(sensor, 1), AirRange[1])
    <3>. HIDE DEF range
    <3>. QED BY <2>1
  <2>. QED BY <1>1, <1>2, <1>3, <2>2 DEF Or
<1>5. CASE /\ BaseControlMode(circuit) \notin {"air", "air_pid"}
           /\ UsesWeatherCompensatedSetpoint(circuit)
  <2>1. range = WeatherRange BY <1>5 DEF RangeByMode
  <2>. QED BY <1>1, <1>2, <2>1
<1>6. CASE /\ BaseControlMode(circuit) \notin {"air", "air_pid"}
           /\ ~UsesWeatherCompensatedSetpoint(circuit)
  <2>1. range = [b \in {1, 2} |-> Or(IF b = 1 THEN circuit.min ELSE circuit.max,
                                     Or(Threshold(sensor, b), WaterRange[b]))]
    BY <1>6 DEF RangeByMode
  <2>2. range[1] = Or(circuit.min, Or(Threshold(sensor, 1), WaterRange[1]))
    <3>. HIDE DEF range
    <3>. QED BY <2>1
  <2>. QED BY <1>1, <1>2, <1>3, <2>2 DEF Or
<1>. QED BY <1>4, <1>5, <1>6

LEMMA StartTyped ==
  ASSUME Types, StartCall
  PROVE  \E command : Send(command) /\ Fits(command)
<1>1. memory.mode \in Mode \cup {None} /\ memory.target \in Unit \cup {None}
  BY DEF Types, TypeOK
<1>2. kind = "heating_circuit" => config.modes \subseteq Mode
  BY TargetAssumption, ControlAssumption DEF Types, TypeOK
<1>3. ASSUME kind = "heating_circuit", NEW m, m \in OptionModes \/ (m = OffMode /\ m # None)
      PROVE  m \in Mode /\ Self \in DOMAIN Targets[m]
  <2>1. m \in config.modes /\ Self \in DOMAIN Modes[m]
    BY <1>3, ControlAssumption
       DEF OptionModes, CircuitModes, OffMode, ValidatedOffMode, ModeDisablesCircuits, Modes
  <2>2. Modes[m] = Targets[m] BY <2>1 DEF Modes
  <2>. QED BY <1>2, <1>3, <2>1, <2>2
<1>4. ASSUME kind = "heating_circuit", NEW m, m \in OptionModes \/ (m = OffMode /\ m # None),
             NEW off \in BOOLEAN, SetMode(m, off)
      PROVE  \E command : Send(command) /\ Fits(command)
  <2>. DEFINE command == [type |-> "mode", id |-> m, off |-> off]
  <2>1. command \in Command BY <1>3, <1>4 DEF Command
  <2>2. Fits(command) BY <1>3, <1>4, <2>1 DEF Fits
  <2>. QED BY <1>4, <2>2 DEF SetMode
<1>5. ASSUME kind = "heating_circuit", NEW t \in Unit, NEW type \in {"manual", "target"},
             Send([type |-> type, target |-> t])
      PROVE  \E command : Send(command) /\ Fits(command)
  <2>. DEFINE command == [type |-> type, target |-> t]
  <2>1. command \in Command BY DEF Command
  <2>2. Fits(command) BY <1>5, <2>1 DEF Fits
  <2>. QED BY <1>5, <2>2
<1>6. ASSUME NEW v \in Binary, SwitchRelay(v) \/ ArmZone(v) \/ SwitchElement(v)
      PROVE  \E command : Send(command) /\ Fits(command)
  <2>. DEFINE command == [type |-> "set", value |-> v]
  <2>1. kind \in {"relay", "security_zone", "complex_button"} /\ Send(command)
    BY <1>6 DEF SwitchRelay, ArmZone, SwitchElement, Entity, Set
  <2>2. command \in Command BY DEF Command
  <2>3. Fits(command) BY <2>1, <2>2 DEF Fits
  <2>. QED BY <2>1, <2>3
<1>7. CASE Press
  <2>. DEFINE command == [type |-> "press"]
  <2>1. command \in Command BY DEF Command
  <2>2. Fits(command) BY <2>1 DEF Fits
  <2>. QED BY <1>7, <2>2 DEF Press
<1>8. CASE TurnOff
  BY <1>4, <1>8 DEF TurnOff, Heater, Entity
<1>9. CASE TurnOnClimate
  <2>1. kind = "heating_circuit" /\ CanTurnOn BY <1>9 DEF TurnOnClimate, Heater, Entity
  <2>2. CASE RestorableMode # None /\ SetMode(RestorableMode, FALSE)
    <3>1. RestorableMode \in OptionModes BY <2>2 DEF RestorableMode
    <3>. QED BY <1>4, <2>1, <2>2, <3>1
  <2>3. CASE /\ RestorableMode = None
             /\ Send([type |-> "target",
                      target |-> IF memory.target # None /\ InRange(memory.target, Range)
                                 THEN memory.target ELSE Range[1]])
    <3>1. Range[1] \in Unit BY <2>1, <2>3, RangeTyped DEF CanTurnOn, CanSetTemperature
    <3>2. (IF memory.target # None /\ InRange(memory.target, Range)
           THEN memory.target ELSE Range[1]) \in Unit
      BY <1>1, <3>1
    <3>. QED BY <1>5, <2>1, <2>3, <3>2
  <2>. QED BY <1>9, <2>2, <2>3 DEF TurnOnClimate
<1>10. CASE TurnOnWater \/ SelectManual
  <2>1. DhwTarget \in Unit BY <1>1, TargetAssumption DEF DhwTarget
  <2>2. kind = "heating_circuit" /\ Send([type |-> "manual", target |-> DhwTarget])
    BY <1>10 DEF TurnOnWater, SelectManual, Heater, Entity
  <2>. QED BY <1>5, <2>1, <2>2
<1>11. ASSUME NEW m \in Mode, SelectMode(m)
       PROVE  \E command : Send(command) /\ Fits(command)
  BY <1>4, <1>11 DEF SelectMode, Entity
<1>12. ASSUME NEW t \in Unit, SetTemperature(t)
       PROVE  \E command : Send(command) /\ Fits(command)
  BY <1>5, <1>12 DEF SetTemperature, Heater, Entity
<1>. QED BY <1>6, <1>7, <1>8, <1>9, <1>10, <1>11, <1>12 DEF StartCall

(* A command carried out leaves the device in a state that the readers        *)
(* accept.                                                                   *)
LEMMA CarryOutTyped ==
  ASSUME Shapes, Types, call.stage = "sent", NEW d, d = CarryOut(call.command)
  PROVE  d.a \in Binary /\ DOMAIN d.state = WireKeys(kind) /\ Legible(kind, d.state)
<1>. DEFINE command == call.command
            change == Carry(command)
            state == [k \in WireKeys(kind) |->
                        IF k \in DOMAIN change THEN change[k] ELSE device.state[k]]
<1>1. Fits(command) BY DEF Types
<1>2. device = [a |-> device.a, state |-> device.state] /\ device.a \in Binary
        /\ Legible(kind, device.state)
  BY DEF Shapes, Types, TypeOK
<1>3. d = [a |-> device.a, state |-> state]
  <2>1. d = [device EXCEPT !.state = state] BY DEF CarryOut
  <2>. HIDE DEF state
  <2>. QED BY <1>2, <2>1
<1>4. ASSUME NEW k \in WireKeys(kind), k \in DOMAIN change
      PROVE  change[k] \in Accepted(kind, k) \cup {None}
  <2>1. CASE command.type = "set"
    <3>1. change = [s |-> Logical(command.value)] BY <2>1 DEF Carry
    <3>2. command.value \in Binary BY <1>1, <2>1 DEF Fits, Command
    <3>3. Logical(command.value) \in Binary \cup {None} BY <3>2 DEF Logical, Binary
    <3>4. k = "s" /\ change[k] = Logical(command.value) BY <1>4, <3>1
    <3>5. Binary \subseteq Accepted(kind, "s")
      BY <1>1, <2>1 DEF Fits, Accepted, Element, Sensor
    <3>. QED BY <3>3, <3>4, <3>5
  <2>2. ASSUME kind = "heating_circuit"
        PROVE  /\ Accepted(kind, "s") = Unit /\ Accepted(kind, "m_id") = Unit
               /\ Accepted(kind, "m") = CircuitMode
    BY <2>2 DEF Accepted, Element
  <2>3. CASE command.type = "mode"
    <3>1. /\ kind = "heating_circuit" /\ command.id \in Mode
          /\ Self \in DOMAIN Targets[command.id]
      BY <1>1, <2>3 DEF Fits, Command
    <3>2. command.id \in Unit /\ Targets[command.id][Self] \in Unit
      BY <3>1, ControlAssumption, TargetAssumption
    <3>3. \/ change = [s |-> None, m |-> "off", m_id |-> command.id]
          \/ change = [s |-> Targets[command.id][Self], m |-> "heat", m_id |-> command.id]
      BY <2>3 DEF Carry
    <3>4. /\ k \in {"s", "m", "m_id"}
          /\ k = "s" => change[k] \in Unit \cup {None}
          /\ k = "m" => change[k] \in CircuitMode
          /\ k = "m_id" => change[k] \in Unit
      BY <1>4, <3>2, <3>3 DEF CircuitMode
    <3>. QED BY <2>2, <3>1, <3>4
  <2>4. CASE command.type \in {"manual", "target"}
    <3>1. kind = "heating_circuit" /\ command.target \in Unit
      BY <1>1, <2>4 DEF Fits, Command
    <3>2. change = [s |-> command.target, m |-> "heat", m_id |-> 0] BY <2>4 DEF Carry
    <3>3. 0 \in Unit BY ControlAssumption
    <3>4. /\ k \in {"s", "m", "m_id"}
          /\ k = "s" => change[k] \in Unit
          /\ k = "m" => change[k] \in CircuitMode
          /\ k = "m_id" => change[k] \in Unit
      BY <1>4, <3>1, <3>2, <3>3 DEF CircuitMode
    <3>. QED BY <2>2, <3>1, <3>4
  <2>5. CASE command.type = "press"
    <3>1. change = <<>> BY <2>5 DEF Carry
    <3>. QED BY <1>4, <3>1
  <2>6. command.type \in {"set", "mode", "manual", "target", "press"}
    BY <1>1 DEF Fits, Command
  <2>. QED BY <2>1, <2>3, <2>4, <2>5, <2>6
<1>5. Legible(kind, state) /\ DOMAIN state = WireKeys(kind)
  <2>. HIDE DEF change
  <2>. QED BY <1>2, <1>4 DEF Legible
<1>. HIDE DEF state
<1>. QED BY <1>2, <1>3, <1>5

(* Each step keeps the types.                                                *)
LEMMA ReceiveTyped ==
  ASSUME Shapes, Types, NEW message, TypedMessage(message), NEW partial,
         Publish(Merge(kind, message, object, partial)),
         UNCHANGED <<kind, role, device, config>>,
         \/ call' = call
         \/ call'.stage = "done"
  PROVE  Types'
<1>1. kind' = kind /\ role' = role /\ device' = device /\ config' = config OBVIOUS
<1>2. TypedObject(object) BY DEF Types, TypeOK, TypedObject
<1>3. TypedObject(Merge(kind, message, object, partial)) BY <1>2, MergeTyped
<1>4. /\ TypedObject(object)'
      /\ memory' \in [mode : Mode \cup {None}, target : Unit \cup {None}]
  BY <1>1, <1>3, PublishTyped
<1>5. TypeOK' BY <1>1, <1>4 DEF Types, TypeOK, TypedObject, Legible
<1>. QED BY <1>1, <1>5 DEF Types, TypedMessage, Fits

LEMMA TypesInductive ==
  ASSUME Shapes, Types, [Next]_vars
  PROVE  Types'
<1>. DEFINE Rest == UNCHANGED <<kind, role, object, config, memory>>
<1>1. ASSUME Rest, NEW d, d.a \in Binary, DOMAIN d.state = WireKeys(kind),
             Legible(kind, d.state), device' = d,
             call'.stage \in {"idle", "sent", "accepted", "held", "done"},
             call'.stage \in {"accepted", "held"} => call'.command \in Command,
             call'.stage = "sent" => Fits(call'.command),
             call'.stage = "held" => TypedMessage(call'.message)
      PROVE  Types'
  <2>1. /\ kind' = kind /\ role' = role /\ object' = object /\ config' = config
        /\ memory' = memory
    BY <1>1
  <2>2. call'.stage = "sent" => call'.command \in Command BY <1>1 DEF Fits
  <2>3. TypeOK' BY <1>1, <2>1, <2>2 DEF Types, TypeOK, Legible
  <2>4. (call.stage = "held" => TypedMessage(call.message))'
    BY <1>1, <2>1 DEF TypedMessage
  <2>5. (call.stage = "sent" => Fits(call.command))' BY <1>1, <2>1 DEF Fits
  <2>. QED BY <2>3, <2>4, <2>5 DEF Types
<1>2. device.a \in Binary /\ DOMAIN device.state = WireKeys(kind) /\ Legible(kind, device.state)
  BY DEF Types, TypeOK
<1>3. CASE StartCall
  <2>1. PICK command : Send(command) /\ Fits(command) BY <1>3, StartTyped
  <2>2. call' = [stage |-> "sent", command |-> command, seen |-> FALSE]
          /\ Rest /\ device' = device
    BY <2>1 DEF Send
  <2>3. call'.stage = "sent" /\ call'.command = command BY <2>2
  <2>. QED BY <1>1, <1>2, <2>1, <2>2, <2>3
<1>4. CASE Accept
  <2>1. call.stage = "sent" /\ Rest /\ device' \in {device, CarryOut(call.command)}
    BY <1>4 DEF Accept
  <2>2. call = [stage |-> "sent", command |-> call.command, seen |-> FALSE]
    BY <2>1 DEF Shapes
  <2>3. \/ call'.stage = "accepted" /\ call'.command = call.command
        \/ call'.stage = "done"
    <3>1. CASE call' = Returned("ok") BY <3>1 DEF Returned
    <3>2. CASE call' = [call EXCEPT !.stage = "accepted",
                                    !.seen = Satisfies(device'.state, call.command)]
      <4>. DEFINE seen == Satisfies(device'.state, call.command)
      <4>. HIDE DEF seen
      <4>1. call' = [call EXCEPT !.stage = "accepted", !.seen = seen] BY <3>2 DEF seen
      <4>2. call' = [stage |-> "accepted", command |-> call.command, seen |-> seen]
        BY <2>2, <4>1
      <4>. QED BY <4>2
    <3>. QED BY <1>4, <3>1, <3>2 DEF Accept
  <2>4. /\ device'.a \in Binary /\ DOMAIN device'.state = WireKeys(kind)
        /\ Legible(kind, device'.state)
    BY <1>2, <2>1, CarryOutTyped
  <2>5. call.command \in Command BY <2>1 DEF Types, TypeOK
  <2>. QED BY <1>1, <2>1, <2>3, <2>4, <2>5
<1>5. CASE Reject \/ Interrupt
  <2>1. PICK result : call' = [stage |-> "done", result |-> result, confirmed |-> FALSE]
    BY <1>5 DEF Reject, Interrupt, Returned
  <2>2. call'.stage = "done" BY <2>1
  <2>. QED BY <1>1, <1>2, <1>5, <2>2 DEF Reject, Interrupt
<1>6. CASE Answer
  <2>1. PICK message \in {Complete, Failed, Malformed} :
          call' = [stage |-> "held", command |-> call.command, seen |-> call.seen,
                   message |-> message]
    BY <1>6 DEF Answer
  <2>2. call'.stage = "held" /\ call'.command = call.command /\ call'.message = message
    BY <2>1
  <2>3. TypedMessage(message) BY MessagesTyped DEF Complete
  <2>4. call.command \in Command BY <1>6 DEF Answer, Types, TypeOK
  <2>. QED BY <1>1, <1>2, <1>6, <2>2, <2>3, <2>4 DEF Answer
<1>7. CASE Finish
  <2>1. TypedMessage(call.message) BY <1>7 DEF Finish, Types
  <2>2. Publish(Merge(kind, call.message, object, FALSE))
          /\ UNCHANGED <<kind, role, device, config>>
    BY <1>7 DEF Finish
  <2>3. call'.stage = "done"
    <3>1. PICK result, seen, shown :
            \/ call' = Returned(result)
            \/ call' = [stage |-> "done", result |-> result, confirmed |-> TRUE,
                        seen |-> seen, shown |-> shown]
      BY <1>7 DEF Finish
    <3>. QED BY <3>1 DEF Returned
  <2>. QED BY <2>1, <2>2, <2>3, ReceiveTyped
<1>8. CASE Push \/ Poll
  <2>1. PICK message, partial : TypedMessage(message) /\ Receive(message, partial)
    BY <1>8, MessagesTyped DEF Push, Poll, Complete
  <2>. QED BY <2>1, ReceiveTyped DEF Receive
<1>9. ASSUME NEW d \in Device[kind], Change(d) PROVE Types'
  <2>1. Rest /\ device' = d BY <1>9 DEF Change
  <2>2. d.a \in Binary /\ DOMAIN d.state = WireKeys(kind) /\ Legible(kind, d.state)
    BY DeviceAssumption DEF Shapes
  <2>3. \/ call' = call /\ call.stage \notin {"accepted", "held"}
        \/ /\ call.stage = "accepted" /\ call'.stage = "accepted"
           /\ call'.command = call.command
        \/ /\ call.stage = "held" /\ call'.stage = "held"
           /\ call'.command = call.command /\ call'.message = call.message
    <3>. DEFINE seen == call.seen \/ Satisfies(d.state, call.command)
    <3>. HIDE DEF seen
    <3>1. call' = IF call.stage \in {"accepted", "held"}
                  THEN [call EXCEPT !.seen = seen] ELSE call
      BY <1>9 DEF Change, seen
    <3>2. CASE call.stage = "accepted"
      <4>1. call = [stage |-> "accepted", command |-> call.command, seen |-> call.seen]
        BY <3>2 DEF Shapes
      <4>. QED BY <3>1, <3>2, <4>1
    <3>3. CASE call.stage = "held"
      <4>1. call = [stage |-> "held", command |-> call.command, seen |-> call.seen,
                    message |-> call.message]
        BY <3>3 DEF Shapes
      <4>. QED BY <3>1, <3>3, <4>1
    <3>. QED BY <3>1, <3>2, <3>3
  <2>4. /\ call.stage \in {"idle", "sent", "accepted", "held", "done"}
        /\ call.stage \in {"sent", "accepted", "held"} => call.command \in Command
        /\ call.stage = "held" => TypedMessage(call.message)
        /\ call.stage = "sent" => Fits(call.command)
    BY DEF Types, TypeOK
  <2>. QED BY <1>1, <2>1, <2>2, <2>3, <2>4
<1>10. ASSUME NEW c \in Configs[kind], ConfigRefreshed(c) PROVE Types'
  <2>1. /\ kind' = kind /\ role' = role /\ device' = device /\ object' = object
        /\ call' = call /\ memory' = memory /\ config' \in Configs[kind]
    BY <1>10 DEF ConfigRefreshed
  <2>2. TypeOK' BY <2>1 DEF Types, TypeOK, Legible
  <2>. QED BY <2>1, <2>2 DEF Types, TypedMessage, Fits
<1>11. CASE UNCHANGED vars
  <2>1. /\ kind' = kind /\ role' = role /\ device' = device /\ object' = object
        /\ call' = call /\ memory' = memory /\ config' = config
    BY <1>11 DEF vars
  <2>2. TypeOK' BY <2>1 DEF Types, TypeOK, Legible
  <2>. QED BY <2>1, <2>2 DEF Types, TypedMessage, Fits
<1>. QED BY <1>3, <1>4, <1>5, <1>6, <1>7, <1>8, <1>9, <1>10, <1>11 DEF Next

LEMMA TypesInitially == Init => Types
<1>. SUFFICES ASSUME Init PROVE Types OBVIOUS
<1>1. /\ kind \in DOMAIN Device /\ role \in Roles(kind) /\ device \in Device[kind]
      /\ config \in Configs[kind] /\ object = NoObject
      /\ memory = [mode |-> None, target |-> None] /\ call.stage = "idle"
  BY DEF Init, NoCall
<1>2. /\ device = [a |-> device.a, state |-> [j \in WireKeys(kind) |-> device.state[j]]]
      /\ device.a \in Binary /\ Legible(kind, device.state)
  BY <1>1, DeviceAssumption
<1>3. DOMAIN device.state = WireKeys(kind) BY <1>2
<1>. QED BY <1>1, <1>2, <1>3 DEF Types, TypeOK

-----------------------------------------------------------------------------
(* Theorems.                                                                 *)

(* What relates the device, the snapshot, the call and the entity's memory    *)
(* holds throughout.                                                         *)
THEOREM ControlInvariant == Spec => []IInv
<1>. QED BY Initial, Inductive, PTL DEF Spec

(* The device, the snapshot and the entity's memory hold values of their      *)
(* types, whatever is commanded, pushed, polled or read.                     *)
THEOREM ControlTypes == Spec => []TypeOK
<1>1. IInv => Shapes BY DEF IInv
<1>2. Types => TypeOK BY DEF Types
<1>. QED BY <1>1, <1>2, TypesInitially, TypesInductive, ControlInvariant, PTL DEF Spec

(* A call that returns without an error saw the commanded state at the       *)
(* controller after its acknowledgement, or leaves the entity unavailable.   *)
THEOREM ConfirmedCommands == Spec => []ConfirmedOrUnavailable
<1>1. IInv => ConfirmedOrUnavailable BY DEF IInv, Seen
<1>. QED BY <1>1, ControlInvariant, PTL

(* A circuit that is off is never shown with a target.                       *)
THEOREM NoTargetOfAnOffCircuit == Spec => []OffShowsNoTarget
<1>1. IInv => OffShowsNoTarget
  BY DEF IInv, OffInv, NoTargetWhenOff, OffShowsNoTarget, State
<1>. QED BY <1>1, ControlInvariant, PTL

(* An entity remembers what it turned off while nobody else commands it.     *)
THEOREM RemembersAcrossOff == Spec => []RemembersWhatItTurnedOff
<1>1. IInv => RemembersWhatItTurnedOff
  BY DEF IInv, ParkedInv, RemembersWhatItTurnedOff
<1>. QED BY <1>1, ControlInvariant, PTL

(* No push, poll or read makes an unavailable object forget what was known.  *)
THEOREM LastKnownSurvives == Spec => KeepsLastKnown
<1>1. ASSUME IInv, [Next]_vars, object # NoObject, ~object'.available,
             NEW k \in WireKeys(kind), object.state[k] # None
      PROVE  object'.state[k] # None
  <2>1. CASE object' = object BY <1>1, <2>1
  <2>2. ASSUME NEW message, NEW partial, Publish(Merge(kind, message, object, partial))
        PROVE  object'.state[k] # None
    <3>1. object' = Merge(kind, message, object, partial) BY <2>2 DEF Publish
    <3>. QED BY <1>1, <3>1, MergeKeeps DEF IInv
  <2>3. CASE \/ object' = object
             \/ \E message, partial : Publish(Merge(kind, message, object, partial))
    BY <2>1, <2>2, <2>3
  <2>4. CASE Push \/ Poll \/ Finish
    BY <2>3, <2>4 DEF Push, Poll, Finish, Receive
  <2>5. CASE StartCall
    <3>1. object' = object BY <1>1, <2>5, Started DEF Send
    <3>. QED BY <2>1, <3>1
  <2>. QED BY <1>1, <2>1, <2>4, <2>5
       DEF Next, vars, Accept, Reject, Interrupt, Answer, Change, ConfigRefreshed
<1>2. IInv /\ [Next]_vars =>
        [object # NoObject /\ ~object'.available =>
           \A k \in WireKeys(kind) : object.state[k] # None => object'.state[k] # None]_vars
  BY <1>1
<1>. QED BY <1>2, ControlInvariant, PTL DEF Spec, KeepsLastKnown

-----------------------------------------------------------------------------
(* The rules of the heating: the forms, the entities and the repair issue     *)
(* judge the mode that turns the heating off from three different places and *)
(* must agree, for any circuits, modes and internal states.                  *)

(* Whatever off mode a form offers for the relevant circuits, the entity of   *)
(* each of them can use it.                                                  *)
THEOREM OfferedIsUsable ==
  ASSUME NEW circuits, NEW applicable, NEW modes, NEW c \in circuits,
         NEW m \in EligibleOffModes(circuits, applicable, modes)
  PROVE  ValidatedOffMode(m, c, circuits, applicable, modes) = m
BY DEF EligibleOffModes, ValidatedOffMode

(* An entity never turns the heating off with a mode that a poll reports:    *)
(* the issue and the entity's use of the mode exclude each other.            *)
THEOREM ReportedIsUnusable ==
  ASSUME NEW circuits, NEW applicable, NEW modes, NEW configured, NEW c,
         OffModeInvalid(configured, circuits, modes)
  PROVE  ValidatedOffMode(configured, c, circuits, applicable, modes) = None
BY DEF OffModeInvalid, ValidatedOffMode

(* Conversely, a mode that the entity of a circuit refuses although no issue  *)
(* is raised is one that its circuit does not accept.                        *)
THEOREM UnreportedRefusal ==
  ASSUME NEW circuits, NEW applicable, NEW modes, NEW configured, NEW c,
         ~OffModeInvalid(configured, circuits, modes),
         ValidatedOffMode(configured, c, circuits, applicable, modes) # configured
  PROVE  ~ModeIsApplicable(configured, c, applicable)
BY DEF OffModeInvalid, ValidatedOffMode
=============================================================================
