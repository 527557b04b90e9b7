---------------------------- MODULE HeatingRules ----------------------------
(***************************************************************************)
(* What the configuration of the heating lets an entity do: the range of a   *)
(* consumer circuit's target (protocol/heating_config.py), the modes that     *)
(* may serve to turn the heating off, and when the configured one is          *)
(* reported as a repair issue (protocol/heating_modes.py, coordinator.py).    *)
(*                                                                         *)
(* A heating mode is a function from the circuits it sets to their targets,  *)
(* 0 where it disables a circuit; `modes` is a function from the modes read  *)
(* and `applicable` one from the circuits whose internal state was read, to  *)
(* the set of modes they accept.                                             *)
(***************************************************************************)
EXTENDS ObjectStates

CONSTANTS AirRange, WaterRange, WeatherRange  \* <<lowest, highest>> by default

-----------------------------------------------------------------------------
(* The setpoint range.                                                       *)
BaseControlMode(circuit) ==
  CASE circuit.register = 0 -> "air" [] circuit.register = 1 -> "air_pid"
    [] circuit.register = 2 -> "water" [] OTHER -> None

HasWeatherCompensation(circuit) == circuit.pza \notin {None, 0, 255}

UsesWeatherCompensatedSetpoint(circuit) ==
  circuit.register = 2 /\ HasWeatherCompensation(circuit) /\ ~circuit.requestOnly

Controllable(circuit) ==
  /\ circuit.consumer /\ ~circuit.slave
  /\ BaseControlMode(circuit) # None
  /\ circuit.thermostat # None => HasWeatherCompensation(circuit)

Or(value, default) == IF value = None THEN default ELSE value

Threshold(sensor, bound) == IF sensor = None THEN None ELSE sensor[bound]

RangeByMode(circuit, sensor) ==
  CASE BaseControlMode(circuit) \in {"air", "air_pid"} ->
         [b \in {1, 2} |-> Or(Threshold(sensor, b), AirRange[b])]
    [] UsesWeatherCompensatedSetpoint(circuit) -> WeatherRange
    [] OTHER ->
         [b \in {1, 2} |-> Or(IF b = 1 THEN circuit.min ELSE circuit.max,
                              Or(Threshold(sensor, b), WaterRange[b]))]

(* The range that an entity offers, None where it offers none.               *)
ControlRange(circuit, sensor) ==
  LET range == RangeByMode(circuit, sensor)
  IN  IF Controllable(circuit) /\ range[1] < range[2] THEN range ELSE None

-----------------------------------------------------------------------------
(* The modes that turn the heating off.                                      *)
ModeDisablesCircuits(targets, circuits) ==
  circuits # {} /\ \A c \in circuits : c \in DOMAIN targets /\ targets[c] = 0

ModeIsApplicable(m, c, applicable) == c \in DOMAIN applicable /\ m \in applicable[c]

(* What the flows offer for the choice of the off mode.                      *)
EligibleOffModes(circuits, applicable, modes) ==
  {m \in DOMAIN modes : /\ ModeDisablesCircuits(modes[m], circuits)
                        /\ \A c \in circuits : ModeIsApplicable(m, c, applicable)}

(* The mode that the entity of circuit c may use.                            *)
ValidatedOffMode(configured, c, circuits, applicable, modes) ==
  IF /\ configured \in DOMAIN modes
     /\ ModeDisablesCircuits(modes[configured], circuits)
     /\ ModeIsApplicable(configured, c, applicable)
  THEN configured ELSE None

(* The modes that an entity of circuit c offers, of those the circuit accepts. *)
CircuitModes(c, applicable, modes) ==
  IF c \notin DOMAIN applicable THEN {}
  ELSE {m \in applicable[c] \cap DOMAIN modes : c \in DOMAIN modes[m]}

(* Whether a poll has read enough to judge the configured mode, and whether  *)
(* it raises the issue then; else the issue stays as it is.                  *)
OffModeJudged(circuits, applicable, modes) ==
  circuits # {} /\ DOMAIN modes # {} /\ circuits \subseteq DOMAIN applicable

OffModeInvalid(configured, circuits, modes) ==
  configured \notin DOMAIN modes \/ ~ModeDisablesCircuits(modes[configured], circuits)
=============================================================================
