--------------------------- MODULE ObjectControl ----------------------------
(***************************************************************************)
(* A call of a Home Assistant entity that commands one object of the         *)
(* controller and confirms the command by a targeted read, while the object  *)
(* changes by itself, the controller pushes states and polls read them:      *)
(* heating_control, relay_control, user_element_control,                     *)
(* security_zone_control and the entities that call them.                    *)
(*                                                                         *)
(* A call goes through stages: "sent" until the controller acknowledges the  *)
(* command, "accepted" until a state answers the read, "held" until the      *)
(* calling task resumes, merges the answer and checks the snapshot.          *)
(*                                                                         *)
(* Abstracted: error classes are "rejected" and "failed"; a temperature is   *)
(* one of a few numbers; polls read one object at once (SnapshotCoordinator  *)
(* has their interleavings).  External: the controller, which may accept a   *)
(* command and not carry it out, and Home Assistant, which calls no service  *)
(* of an entity that is unavailable.                                         *)
(***************************************************************************)
EXTENDS HeatingRules

CONSTANTS
  Device,       \* Kind -> the states its device can be in
  Configs,      \* Kind -> configurations the coordinator may have read
  Targets,      \* mode -> circuit -> its target, 0 where the mode disables it
  Self, Circuit,    \* the circuit commanded and all relevant circuits
  DhwLimits,    \* lowest and highest target of a hot-water circuit
  DhwDefault    \* DHW_DEFAULT_ON_TEMPERATURE, or the configured one

Mode == DOMAIN Targets

(* What a state may hold: a value that the key's reader accepts, or None      *)
(* where there is none or it is rejected.                                    *)
Legible(k, state) == \A j \in WireKeys(k) : state[j] \in Accepted(k, j) \cup {None}

ASSUME ControlAssumption ==
  /\ DOMAIN Device \subseteq Kind /\ DOMAIN Configs = DOMAIN Device
  /\ Self \in Circuit /\ Mode \subseteq Nat \ {0} /\ Mode \cup {0} \subseteq Unit
  /\ \A m \in Mode : DOMAIN Targets[m] \subseteq Circuit
  /\ None \notin Unit /\ None \notin CircuitMode

(* A circuit always has a mode, and no target while it is off.               *)
ASSUME DeviceAssumption ==
  \A k \in DOMAIN Device : \A d \in Device[k] :
    /\ d = [a |-> d.a, state |-> [j \in WireKeys(k) |-> d.state[j]]]
    /\ d.a \in Binary /\ Legible(k, d.state)
    /\ k = "heating_circuit" =>
         d.state["m"] \in CircuitMode /\ (d.state["m"] = "off" => d.state["s"] = None)

(* Targets and bounds are temperatures, and a read mode is a mode.            *)
ASSUME TargetAssumption ==
  /\ \A m \in Mode : \A c \in DOMAIN Targets[m] : Targets[m][c] \in Unit
  /\ DhwDefault \in Unit
  /\ \A range \in {AirRange, WaterRange, WeatherRange} : range[1] \in Unit /\ range[2] \in Unit
  /\ "heating_circuit" \in DOMAIN Configs =>
       \A c \in Configs["heating_circuit"] :
         /\ c.modes \subseteq Mode
         /\ c.circuit.min \in Unit \cup {None} /\ c.circuit.max \in Unit \cup {None}
         /\ c.sensor # None =>
              \A b \in {1, 2} : c.sensor[b] \in Unit \cup {None}

VARIABLES
  kind, role,   \* the type of the object; a relay's wiring, a circuit's use
  device,       \* the controller's object: whether it is available, its state
  object,       \* what the snapshot has of it
  config,       \* what the snapshot has of its configuration
  call,         \* the entity's call
  memory,       \* _last_active_mode_id and _last_active_target
  parked        \* history: the state that the last turn_off ended, while
                \* nobody else has commanded the circuit

vars == <<kind, role, device, object, config, call, memory, parked>>

Command ==
  [type : {"set"}, value : Binary] \cup
  [type : {"mode"}, id : Mode, off : BOOLEAN] \cup
  [type : {"manual", "target"}, target : Unit] \cup {[type |-> "press"]}

NoCall == [stage |-> "idle"]

Roles(k) == CASE k = "relay" -> {"normal", "inverse"}
              [] k = "heating_circuit" -> {"consumer", "dhw"}
              [] OTHER -> {"plain"}

-----------------------------------------------------------------------------
(* The controller's messages.                                                *)
Typed(keys) ==
  [state |-> [k \in {j \in keys : j = "a" \/ device.state[j] # None} |->
                IF k = "a" THEN device.a ELSE device.state[k]],
   failed |-> FALSE, usable |-> TRUE]

AllKeys == WireKeys(kind) \cup IF kind = "digital_bus" THEN {} ELSE {"a"}

Complete  == Typed(AllKeys)
Failed    == [state |-> <<>>, failed |-> TRUE, usable |-> TRUE]
Malformed == [state |-> <<>>, failed |-> FALSE, usable |-> FALSE]

(* What a push must bring: all that differs from what was pushed or read.    *)
Changed ==
  IF object = NoObject THEN AllKeys
  ELSE {k \in WireKeys(kind) : device.state[k] # object.state[k]} \cup
       IF (device.a = 1) # object.available THEN AllKeys \ WireKeys(kind) ELSE {}

-----------------------------------------------------------------------------
(* Facts the entities derive from the snapshot.                              *)
State == object.state

(* relay_logical_state: the output, inverted where the relay is configured so. *)
Logical(s) == IF s = None THEN None ELSE IF role = "inverse" THEN 1 - s ELSE s

(* The modes read, and the circuit's own internal state.                     *)
Modes      == [m \in config.modes |-> Targets[m]]
Applicable == [c \in {Self} |-> config.applicable]

OffMode == ValidatedOffMode(config.off, Self, Circuit, Applicable, Modes)

OptionModes == CircuitModes(Self, Applicable, Modes)

Range == ControlRange(config.circuit, config.sensor)

RestorableMode ==
  IF /\ memory.mode \in OptionModes
     /\ Targets[memory.mode][Self] # 0
  THEN memory.mode ELSE None

CanSetTemperature == Range # None
CanTurnOn ==
  State["m"] \in {"heat", "off"} /\ (RestorableMode # None \/ CanSetTemperature)

InRange(t, range) == range[1] <= t /\ t <= range[2]

(* Mutant: a circuit that is off is remembered like an active one.           *)
RememberAlways(ob, mem) ==
  IF kind # "heating_circuit" THEN mem
  ELSE [mode |-> IF ob.state["m_id"] \in Mode THEN ob.state["m_id"] ELSE None,
        target |-> IF ob.state["s"] # None THEN ob.state["s"] ELSE mem.target]

(* Mutant: manual control, which has mode 0, is remembered as a mode.        *)
RememberManual(ob, mem) ==
  IF kind # "heating_circuit" \/ ob.state["m"] = "off" THEN mem
  ELSE [mode |-> ob.state["m_id"], target |-> ob.state["s"]]

(* _remember_active_state and _remember_active_target, called whenever the   *)
(* coordinator tells the entity of an update.                                *)
Remember(ob, mem) ==
  IF kind # "heating_circuit" THEN mem
  ELSE CASE role = "consumer" /\ ob.state["m"] # "off" ->
              [mode |-> IF ob.state["m_id"] \in Mode THEN ob.state["m_id"] ELSE None,
               target |-> IF ob.state["s"] # None THEN ob.state["s"] ELSE mem.target]
         [] role = "dhw" /\ ob.state["m"] = "heat" /\ ob.state["s"] # None
              /\ InRange(ob.state["s"], DhwLimits) -> [mem EXCEPT !.target = ob.state["s"]]
         [] OTHER -> mem

Publish(ob) ==
  object' = ob /\ memory' = IF ob = NoObject THEN memory ELSE Remember(ob, memory)

(* What the check after the read accepts, and what the command is meant to   *)
(* bring about at the controller.                                            *)
Satisfies(state, command) ==
  CASE command.type = "set" /\ kind = "complex_button" ->
         state["s"] \in Binary \cup {255} /\ (state["s"] # 0) = (command.value = 1)
    [] command.type = "set" /\ kind # "complex_button" ->
         Logical(state["s"]) = command.value
    [] command.type = "mode"   -> /\ state["m_id"] = command.id
                                  /\ (state["m"] = "off") = command.off
    [] command.type = "manual" -> /\ state["m"] = "heat" /\ state["m_id"] = 0
                                  /\ state["s"] = command.target
    [] OTHER                   -> TRUE

Confirms(command) == command.type \in {"set", "mode", "manual"}

-----------------------------------------------------------------------------
(* The calls, each with its refusals and early returns as its guard.         *)
Entity(k) == kind = k /\ object # NoObject /\ object.available
Heater(r) == Entity("heating_circuit") /\ role = r

Send(command) ==
  /\ call.stage \in {"idle", "done"}
  /\ call' = [stage |-> "sent", command |-> command, seen |-> FALSE]
  /\ UNCHANGED <<kind, role, device, object, config, memory>>

Undisturbed == parked' = parked
Disturb     == parked' = None

(* History: what the circuit shows, and is, when it is commanded off.         *)
Park ==
  parked' = IF State["m"] = "heat" /\ Changed = {}
            THEN [mode |-> IF State["m_id"] \in Mode THEN State["m_id"] ELSE None,
                  target |-> State["s"]]
            ELSE None

Set(v) == Send([type |-> "set", value |-> v]) /\ Undisturbed

SwitchRelay(v) == Entity("relay") /\ config.known /\ State["s"] # None /\ Set(v)

ArmZone(v) ==
  /\ Entity("security_zone") /\ None \notin {State["s"], State["trig"]}
  /\ State["s"] # v /\ Set(v)

SwitchElement(v) == Entity("complex_button") /\ State["s"] \in Binary /\ Set(v)

Press ==
  Entity("simple_button") /\ State["s"] = 255 /\ Send([type |-> "press"]) /\ Undisturbed

SetMode(m, off) == Send([type |-> "mode", id |-> m, off |-> off])

TurnOff ==
  /\ \/ Heater("consumer") /\ CanTurnOn
     \/ Heater("dhw")
  /\ State["m"] = "heat" /\ OffMode # None
  /\ SetMode(OffMode, TRUE) /\ Park

(* async_turn_on restores the remembered mode, else the remembered target if *)
(* it is in range, else the lowest one.                                      *)
TurnOnClimate ==
  /\ Heater("consumer") /\ State["m"] = "off" /\ OffMode # None /\ CanTurnOn
  /\ \/ RestorableMode # None /\ SetMode(RestorableMode, FALSE)
     \/ /\ RestorableMode = None
        /\ Send([type |-> "target",
                 target |-> IF memory.target # None /\ InRange(memory.target, Range)
                            THEN memory.target ELSE Range[1]])
  /\ Disturb

DhwTarget == IF memory.target # None THEN memory.target ELSE DhwDefault

TurnOnWater ==
  /\ Heater("dhw") /\ State["m"] = "off" /\ OffMode # None
  /\ Send([type |-> "manual", target |-> DhwTarget]) /\ Disturb

(* async_set_preset_mode and async_set_operation_mode.                       *)
SelectMode(m) ==
  /\ Entity("heating_circuit") /\ m \in OptionModes /\ State["m_id"] # m
  /\ SetMode(m, Targets[m][Self] = 0)
  /\ IF Targets[m][Self] = 0 /\ State["m"] # "off" THEN Park ELSE Disturb

SelectManual ==
  /\ Heater("dhw") /\ OptionModes # {} /\ ~(State["m"] = "heat" /\ State["m_id"] = 0)
  /\ Send([type |-> "manual", target |-> DhwTarget]) /\ Disturb

SetTemperature(t) ==
  /\ \/ Heater("consumer") /\ CanSetTemperature /\ InRange(t, Range)
     \/ Heater("dhw") /\ InRange(t, DhwLimits)
  /\ Send([type |-> "target", target |-> t]) /\ Disturb

StartCall ==
  \/ \E v \in Binary : SwitchRelay(v) \/ ArmZone(v) \/ SwitchElement(v)
  \/ Press \/ TurnOff \/ TurnOnClimate \/ TurnOnWater \/ SelectManual
  \/ \E m \in Mode : SelectMode(m)
  \/ \E t \in Unit : SetTemperature(t)

-----------------------------------------------------------------------------
(* The controller.                                                           *)
Carry(command) ==
  CASE command.type = "set"  -> [s |-> Logical(command.value)]
    [] command.type = "mode" ->
         IF Targets[command.id][Self] = 0
         THEN [s |-> None, m |-> "off", m_id |-> command.id]
         ELSE [s |-> Targets[command.id][Self], m |-> "heat", m_id |-> command.id]
    [] command.type \in {"manual", "target"} ->
         [s |-> command.target, m |-> "heat", m_id |-> 0]
    [] OTHER                 -> <<>>

CarryOut(command) ==
  LET change == Carry(command)
  IN  [device EXCEPT !.state =
         [k \in WireKeys(kind) |->
            IF k \in DOMAIN change THEN change[k] ELSE device.state[k]]]

Returned(result) == [stage |-> "done", result |-> result, confirmed |-> FALSE]

(* cmdres 0: accepted, and carried out or not.                               *)
Accept ==
  /\ call.stage = "sent"
  /\ device' \in {device, CarryOut(call.command)}
  /\ call' = IF Confirms(call.command) \/ call.command.type = "target"
             THEN [call EXCEPT !.stage = "accepted",
                               !.seen = Satisfies(device'.state, call.command)]
             ELSE Returned("ok")
  /\ UNCHANGED <<kind, role, object, config, memory, parked>>

(* The object changes without a command of this call: by hand, by another    *)
(* user, or by a command carried out late.                                   *)
Change(d) ==
  /\ d # device /\ device' = d
  /\ call' = IF call.stage \in {"accepted", "held"}
             THEN [call EXCEPT !.seen = @ \/ Satisfies(d.state, call.command)]
             ELSE call
  /\ Disturb
  /\ UNCHANGED <<kind, role, object, config, memory>>

-----------------------------------------------------------------------------
(* What the coordinator and the calling task do with its answers.            *)
Receive(message, partial) ==
  /\ Publish(Merge(kind, message, object, partial))
  /\ UNCHANGED <<kind, role, device, config, call, parked>>

(* A push is the whole state, or what changed of it and perhaps one key      *)
(* more; one of an object the snapshot lacks must be whole.                  *)
Push ==
  \E keys \in {AllKeys, Changed} \cup {Changed \cup {k} : k \in AllKeys} :
    Receive(Typed(keys), TRUE)

Poll == \E message \in {Complete, Failed, Malformed} : Receive(message, FALSE)

ConfigRefreshed(c) ==
  /\ c # config /\ config' = c
  /\ UNCHANGED <<kind, role, device, object, call, memory, parked>>

(* The read is answered, by the controller or by a push of the whole state   *)
(* that comes first; the task holds the answer until its turn.               *)
Answer ==
  /\ call.stage = "accepted"
  /\ \E message \in {Complete, Failed, Malformed} :
       call' = [stage |-> "held", command |-> call.command, seen |-> call.seen,
                message |-> message]
  /\ UNCHANGED <<kind, role, device, object, config, memory, parked>>

(* Mutant: the command is taken as confirmed once a usable state came.        *)
AnyUsable(ob, command) == kind = "relay" => config.known

(* async_refresh_object merges the answer and, without a pause, the caller   *)
(* checks the snapshot.  A target alone is not checked.                      *)
Checked(ob, command) ==
  /\ Satisfies(ob.state, command)
  /\ kind = "relay" => config.known

Finish ==
  /\ call.stage = "held"
  /\ LET merged == Merge(kind, call.message, object, FALSE)
         good   == Usable(call.message, object) /\ Checked(merged, call.command)
     IN  /\ Publish(merged)
         /\ call' = IF ~Confirms(call.command) THEN Returned("ok")
                    ELSE IF ~good THEN Returned("unconfirmed")
                    ELSE [stage |-> "done", result |-> "ok", confirmed |-> TRUE,
                          seen |-> call.seen, shown |-> merged.available]
  /\ UNCHANGED <<kind, role, device, config, parked>>

(* cmdres other than 0; a time-out or a lost connection before the           *)
(* acknowledgement or the answer, which a bare target survives.              *)
Reject ==
  /\ call.stage = "sent"
  /\ call' = Returned("rejected")
  /\ UNCHANGED <<kind, role, device, object, config, memory, parked>>

Interrupt ==
  /\ call.stage \in {"sent", "accepted"}
  /\ call' = Returned(IF call.stage = "accepted" /\ call.command.type = "target"
                      THEN "ok" ELSE "failed")
  /\ UNCHANGED <<kind, role, device, object, config, memory, parked>>

-----------------------------------------------------------------------------
Init ==
  /\ kind \in DOMAIN Device /\ role \in Roles(kind)
  /\ device \in Device[kind] /\ config \in Configs[kind]
  /\ object = NoObject /\ memory = [mode |-> None, target |-> None]
  /\ call = NoCall /\ parked = None

Next ==
  \/ StartCall \/ Accept \/ Reject \/ Interrupt \/ Answer \/ Finish
  \/ Push \/ Poll
  \/ \E d \in Device[kind] : Change(d)
  \/ \E c \in Configs[kind] : ConfigRefreshed(c)

Spec == Init /\ [][Next]_vars

-----------------------------------------------------------------------------
(* Properties.                                                               *)

(* Every value that the device has and that the snapshot holds is one that    *)
(* its key's reader accepts, the entity remembers modes and temperatures, and *)
(* a call is in one of its stages.                                           *)
TypeOK ==
  /\ kind \in DOMAIN Device /\ role \in Roles(kind)
  /\ object # NoObject =>
       /\ object.available \in BOOLEAN
       /\ DOMAIN object.state = WireKeys(kind)
       /\ Legible(kind, object.state)
  /\ config \in Configs[kind]
  /\ device.a \in Binary /\ DOMAIN device.state = WireKeys(kind)
  /\ Legible(kind, device.state)
  /\ memory \in [mode : Mode \cup {None}, target : Unit \cup {None}]
  /\ call.stage \in {"idle", "sent", "accepted", "held", "done"}
  /\ call.stage \in {"sent", "accepted", "held"} => call.command \in Command

(* A call that returns without an error did what it was for: the controller's *)
(* object was in the commanded state at some time since it accepted the       *)
(* command, unless the entity is left unavailable; whatever is pushed, polled *)
(* or changed by hand between the acknowledgement and the check.              *)
ConfirmedOrUnavailable ==
  call.stage = "done" /\ call.confirmed => call.seen \/ ~call.shown

(* An object that becomes or stays unavailable loses nothing that was known  *)
(* of it, whichever of push, poll and targeted read reports it.              *)
KeepsLastKnown ==
  [][object # NoObject /\ ~object'.available =>
       \A k \in WireKeys(kind) : object.state[k] # None => object'.state[k] # None]_vars

(* While the circuit that an entity turned off is left alone, the entity     *)
(* remembers the mode and the target to restore, through every push, poll    *)
(* and read in which the circuit goes off, fails or becomes unavailable.     *)
RemembersWhatItTurnedOff ==
  parked # None =>
    /\ role = "consumer" => memory.mode = parked.mode
    /\ parked.target # None /\ (role = "dhw" => InRange(parked.target, DhwLimits))
         => memory.target = parked.target

(* A controller that reports no target of a circuit that is off is never     *)
(* shown with one, though the push that turns the circuit off may carry only *)
(* the mode.                                                                 *)
OffShowsNoTarget ==
  kind = "heating_circuit" /\ object # NoObject
    => (object.available /\ State["m"] = "off" => State["s"] = None)
=============================================================================
