-------------------------- MODULE MCObjectControl ---------------------------
(* A small instance of ObjectControl for TLC: an object of each type, a      *)
(* circuit with a comfort mode, a mode that disables both circuits and one   *)
(* that disables only this circuit.                                          *)
EXTENDS ObjectControl

States(keys, values) == {st \in [keys -> UNION {values[k] : k \in keys}] :
                           \A k \in keys : st[k] \in values[k]}
Dev(states) == [a : Binary, state : states]

Circuits ==
  {[c |-> 1, f |-> 0, s |-> x[1], m |-> x[2], m_id |-> x[3]] :
     x \in {<<2, "heat", 0>>, <<3, "heat", 0>>, <<1, "heat", 1>>,
            <<None, "off", 2>>, <<None, "off", 3>>}}

MCDevice ==
  [relay |-> Dev([s : Binary]), security_zone |-> Dev([s : Binary, trig : Binary]),
   complex_button |-> Dev([s : Binary, t : {1}]),
   simple_button |-> Dev([s : {255}, t : {1}]),
   digital_temperature |-> Dev([t : {1, 2, None}]), mixer |-> Dev([s : 0 .. 2]),
   analog_input |-> Dev([v : {1, None}, trig : {0, 1, None}, u : {1}]),
   radio_sensor |-> Dev([t : {1, None}, h : {1, None}, b : {1}, r : {1}, trig : {0}]),
   digital_bus |-> [a : {1}, state : [water : {1, None}, dhw : {1}, return : {1}, modul : {1},
                                      press : {None}, state : 0 .. 2, err : {0}]],
   heating_circuit |-> Dev(Circuits)]

Water == [consumer |-> TRUE, register |-> 2, slave |-> FALSE, thermostat |-> None,
          pza |-> None, requestOnly |-> FALSE, min |-> None, max |-> None]
Plain == [known |-> TRUE, off |-> None, modes |-> {}, applicable |-> {},
          circuit |-> None, sensor |-> None]
Full  == [Plain EXCEPT !.off = 2, !.modes = {1, 2, 3}, !.applicable = {1, 2, 3},
                       !.circuit = Water]
With(circuit, sensor) == [Full EXCEPT !.circuit = circuit, !.sensor = sensor]

MCConfigs ==
  [k \in DOMAIN MCDevice |->
     CASE k = "relay" -> {Plain, [Plain EXCEPT !.known = FALSE]}
       [] k = "heating_circuit" ->
            {Full, [Full EXCEPT !.off = 3], [Full EXCEPT !.applicable = {2, 3}],
             With(Water, <<2, 2>>),
             With([Water EXCEPT !.register = 0], <<2, None>>)}
       [] OTHER -> {Plain}]

MCAirRange     == <<1, 3>>
MCWaterRange   == <<2, 3>>
MCWeatherRange == <<0, 1>>
MCTargets == << [near |-> 1, far |-> 2], [near |-> 0, far |-> 0], [near |-> 0, far |-> 2] >>
MCCircuit == {"near", "far"}
MCDhwLimits == <<2, 3>>
=============================================================================
