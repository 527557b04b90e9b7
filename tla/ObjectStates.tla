---------------------------- MODULE ObjectStates ----------------------------
(***************************************************************************)
(* How a state message of the controller becomes the snapshot of an object: *)
(* the parsers of protocol/objects/parsers.py and the merge of one payload   *)
(* into the coordinator's data (_async_apply_object_payload).                *)
(*                                                                         *)
(* A message is a record: `state` is a function from the wire keys that it   *)
(* carries to their values, None where the value is one that the key's       *)
(* reader rejects; `typed` tells whether it carries "type", `failed` whether *)
(* it carries failed=1, and `usable` whether its identity parses.            *)
(*                                                                         *)
(* Abstracted: identity and name, which a parsed message always keeps, and   *)
(* the JSON types of the values.                                             *)
(***************************************************************************)
EXTENDS Integers

CONSTANTS
  None,       \* an unknown value
  NoObject,   \* an object the snapshot does not have
  Unit        \* values of a unit code, a text or a measurement

(* The supported object types; user elements are told apart by subtype.     *)
Sensor   == {"digital_temperature", "ntc_temperature"}
Element  == {"status", "simple_button", "complex_button", "other_element"}
Output   == {"pump", "mixer", "relay"}
Kind     == Sensor \cup Element \cup Output \cup
            {"analog_input", "digital_bus", "security_zone", "radio_sensor",
             "heating_circuit"}

BusKeys == {"water", "dhw", "return", "modul", "press", "state", "err"}

(* The state keys that the parser of a type reads, besides the availability. *)
WireKeys(kind) ==
  CASE kind \in Sensor          -> {"t"}
    [] kind \in Element         -> {"s", "t"}
    [] kind = "analog_input"    -> {"v", "trig", "u"}
    [] kind = "digital_bus"     -> BusKeys
    [] kind = "security_zone"   -> {"s", "trig"}
    [] kind = "radio_sensor"    -> {"t", "h", "b", "r", "trig"}
    [] kind = "heating_circuit" -> {"c", "s", "m", "m_id", "f"}
    [] kind \in Output          -> {"s"}

Binary == {0, 1}
CircuitMode == {"heat", "cool", "off"}

(* What the reader of a key accepts.                                         *)
Accepted(kind, key) ==
  CASE key \in {"trig", "f"}                                 -> Binary
    [] key = "m"                                             -> CircuitMode
    [] key = "s" /\ kind \in {"security_zone", "pump", "relay"} -> Binary
    [] key = "s" /\ kind = "mixer"                           -> 0 .. 2
    [] key = "state"                                         -> 0 .. 2
    [] key = "s" /\ kind \in Element                         -> Binary \cup {255} \cup Unit
    [] OTHER                                                 -> Unit

-----------------------------------------------------------------------------
(* A key that the message lacks is kept by a partial message only; a value   *)
(* that does not parse reads as unknown.                                     *)
ReadField(key, message, previous, partial) ==
  IF key \in DOMAIN message.state THEN message.state[key]
  ELSE IF partial THEN previous.state[key] ELSE None

(* Mutant: a partial message that turns a circuit off keeps its target.      *)
OffKeepsTarget(kind, key, message, partial) == FALSE

(* A circuit that a partial message turns off has no target any more.        *)
OffDropsTarget(kind, key, message, partial) ==
  /\ kind = "heating_circuit" /\ key = "s" /\ partial
  /\ "s" \notin DOMAIN message.state
  /\ "m" \in DOMAIN message.state /\ message.state["m"] = "off"

(* Whether the state is enough to call an object available that does not say *)
(* it itself.                                                                *)
ElementStateIsValid(kind, s) ==
  CASE kind \in {"status", "complex_button"} -> s \in Binary
    [] kind = "simple_button"                -> s = 255
    [] OTHER                                 -> s # None

HasState(kind, state) ==
  CASE kind \in Element         -> ElementStateIsValid(kind, state["s"])
    [] kind = "analog_input"    -> state["v"] # None \/ state["trig"] # None
    [] kind = "security_zone"   -> state["s"] # None /\ state["trig"] # None
    [] OTHER                    -> \E k \in WireKeys(kind) : state[k] # None

ObjectAvailable(kind, message, previous, partial, state) ==
  IF kind = "digital_bus" THEN TRUE
  ELSE IF "a" \in DOMAIN message.state THEN message.state["a"] = 1
  ELSE IF partial THEN previous.available
  ELSE HasState(kind, state)

(* An object that is unavailable keeps what was known of it: sensors and     *)
(* analog inputs where the message brings nothing, the others altogether.    *)
KeepsOnlyUnknown(kind) == kind \in Sensor \cup {"analog_input"}

(* Mutant: nothing is kept of an object that is unavailable.                 *)
NothingRetained(kind, state, previous) == state

Retained(kind, state, previous) ==
  [k \in WireKeys(kind) |->
     IF KeepsOnlyUnknown(kind) /\ state[k] # None THEN state[k] ELSE previous.state[k]]

ReadState(kind, message, previous, partial) ==
  [k \in WireKeys(kind) |->
     IF OffDropsTarget(kind, k, message, partial) THEN None
     ELSE ReadField(k, message, previous, partial)]

ParseObject(kind, message, previous, partial) ==
  LET state     == ReadState(kind, message, previous, partial)
      available == ObjectAvailable(kind, message, previous, partial, state)
  IN  [available |-> available,
       state |-> IF available \/ previous = NoObject THEN state
                 ELSE Retained(kind, state, previous)]

(* A message the coordinator cannot use: it changes nothing and a targeted   *)
(* read of it reports that it returned no usable state.                      *)
Usable(message, previous) ==
  IF message.failed THEN previous # NoObject ELSE message.usable

(* failed=1 marks the object unavailable and touches nothing else; a message *)
(* of an object the snapshot lacks is complete by definition.                *)
Merge(kind, message, previous, partial) ==
  IF ~Usable(message, previous) THEN previous
  ELSE IF message.failed THEN [previous EXCEPT !.available = FALSE]
  ELSE ParseObject(kind, message, previous, partial /\ previous # NoObject)
=============================================================================
