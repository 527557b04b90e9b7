----------------------- MODULE MCSnapshotCoordinator -----------------------
(***************************************************************************)
(* Small instances of SnapshotCoordinator for TLC.                         *)
(***************************************************************************)
EXTENDS SnapshotCoordinator

CONSTANTS o1, o2

Upto(objects, n, broken, asked, parses) ==
  [objects |-> objects, changes |-> n, faults |-> broken, reads |-> asked,
   readable |-> parses]

(* One object that comes, changes its type and goes; one that changes while *)
(* a command reads it; two whose states stay, so that a sensor's trigger   *)
(* makes a zone due, with a catalog that may not parse.                    *)
SafeLimits == {Upto({o1}, 2, 1, 0, TRUE), Upto({o1}, 1, 1, 1, TRUE),
               Upto({o1, o2}, 0, 1, 0, FALSE)}

(* A catalog that does not parse once.                                     *)
ForgetsLimits == {Upto({o1}, 2, 1, 0, FALSE)}
=============================================================================
