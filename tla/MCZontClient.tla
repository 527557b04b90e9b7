---------------------------- MODULE MCZontClient ----------------------------
(***************************************************************************)
(* Small instances of ZontClient for TLC.  Each call of an instance is a    *)
(* model value; its kind and the object it names are given here.           *)
(***************************************************************************)
EXTENDS ZontClient, TLC

CONSTANTS c1, c2, n1, i1, s1, y1, y2, w1, boiler

KindOf ==
  c1 :> "command" @@ c2 :> "command" @@ n1 :> "named" @@ i1 :> "ids" @@
  s1 :> "state" @@ y1 :> "system" @@ y2 :> "system" @@ w1 :> "oneway"

MCKind == [r \in Request |-> KindOf[r]]

MCTarget == [r \in Request |-> CHOOSE o \in Object : TRUE]

Upto(calls, n, broken, pushed) ==
  [calls |-> calls, sockets |-> n, faults |-> broken, pushes |-> pushed, ends |-> TRUE]

Unended(b) == [b EXCEPT !.ends = FALSE]

(* Calls that contend for one connection, with a push between them; calls   *)
(* whose answers carry no correlation; calls made around a stop, a fault   *)
(* and a reconnect.                                                        *)
SafeBounds ==
  {Unended(Upto({c1, c2, s1}, 1, 0, 1)), Unended(Upto({y1, y2, w1}, 1, 0, 0)),
   Upto({c1, c2}, 1, 1, 0), Upto({y1, w1}, 1, 0, 0), Upto({y2, w1}, 1, 0, 0)}
  \cup UNION {{Upto({c, n1}, 1, 0, 0), Upto({c, s1}, 2, 0, 0), Upto({c}, 2, 1, 0)} :
               c \in {c1, c2}}

(* Enough sockets for a connection after every fault and every call that    *)
(* fails and closes its own.                                               *)
LiveBounds == {Upto({c1, w1}, 3, 0, 0), Upto({i1}, 3, 1, 0)}

(* The two commands are alike in kind, object and bounds, and so are the     *)
(* two system commands.                                                    *)
Symmetry == Permutations({c1, c2}) \cup Permutations({y1, y2})
=============================================================================
