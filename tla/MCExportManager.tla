--------------------------- MODULE MCExportManager ---------------------------
(***************************************************************************)
(* Small instances of ExportManager for TLC.                               *)
(***************************************************************************)
EXTENDS ExportManager

Upto(n, moved, edited, broken, parses) ==
  [changes |-> n, targets |-> moved, edits |-> edited, faults |-> broken,
   readable |-> parses]

(* Two reconfigurations around a change and an outage.                     *)
SafeLimits == {Upto(1, 0, 2, 1, TRUE)}

(* Values that change while they are sent; an object that changes its type, *)
(* and an answer that does not parse.                                      *)
LiveLimits == {Upto(2, 0, 2, 1, TRUE), Upto(1, 1, 1, 1, FALSE)}

(* One reconfiguration.                                                   *)
EditLimits == {Upto(0, 0, 1, 0, TRUE)}
=============================================================================
