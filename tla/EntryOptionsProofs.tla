------------------------- MODULE EntryOptionsProofs -------------------------
(***************************************************************************)
(* What the operators of EntryOptions compute, for every stored sequence of  *)
(* bindings: the bindings in force are stored ones, no two of which clash,   *)
(* and they are all of the stored ones where those do not clash.             *)
(*                                                                         *)
(* Two of the operators are recursive functions over a sequence.  That they  *)
(* exist, and what they keep, is by induction in the form of the least       *)
(* counterexample (LeastNatural), which the library's theorem on minimal     *)
(* elements of well-founded relations gives.                                 *)
(***************************************************************************)
EXTENDS EntryOptions, TLAPS, WellFoundedInduction

-----------------------------------------------------------------------------
(* Induction.                                                              *)

LEMMA NatIsWellFounded ==
  \E R : IsWellFoundedOn(R, Nat) /\ \A k, m \in Nat : k < m => <<k, m>> \in R
<1>1. \A k, m \in Nat : k < m => <<k, m>> \in OpToRel(<, Nat)
  BY DEF OpToRel
<1>. QED BY <1>1, NatLessThanWellFounded, Zenon

(* Every nonempty set of numbers has a least element.                        *)
LEMMA LeastNatural ==
  ASSUME NEW T, T \subseteq Nat, T # {}
  PROVE  \E m \in T : \A k \in T : m <= k
<1>1. PICK R : IsWellFoundedOn(R, Nat) /\ \A k, m \in Nat : k < m => <<k, m>> \in R
  BY NatIsWellFounded
<1>2. IsWellFoundedOn(R, Nat) BY <1>1
<1>3. \E m \in T : \A k \in T : ~(<<k, m>> \in R)
  BY <1>2, WFMin
<1>4. PICK m \in T : \A k \in T : ~(<<k, m>> \in R) BY <1>3
<1>5. \A k \in T : ~(k < m) BY <1>1, <1>4
<1>. QED BY <1>4, <1>5

(* Induction up to a bound, over a set instead of a predicate.               *)
LEMMA InductionUpTo ==
  ASSUME NEW n \in Nat, NEW T, 0 \in T, \A k \in 1 .. n : k - 1 \in T => k \in T
  PROVE  0 .. n \subseteq T
<1>. DEFINE B == (0 .. n) \ T
<1>. SUFFICES ASSUME B # {} PROVE FALSE OBVIOUS
<1>0. B \subseteq Nat OBVIOUS
<1>1. PICK m \in B : \A k \in B : m <= k
  <2>. HIDE DEF B
  <2>. QED BY <1>0, LeastNatural
<1>2. m \in 1 .. n /\ m - 1 \in 0 .. n BY <1>1
<1>3. m - 1 \in T BY <1>1, <1>2
<1>. QED BY <1>1, <1>2, <1>3

-----------------------------------------------------------------------------
(* The bindings in force.                                                  *)

(* The loop over the first n of the stored bindings.                         *)
IsKept(g, stored, n) ==
  g = [i \in 0 .. n |-> IF i = 0 THEN <<>> ELSE Keep(g[i - 1], stored[i])]

LEMMA KeptExists ==
  ASSUME NEW stored, NEW n \in Nat
  PROVE  \E g : IsKept(g, stored, n)
<1>. DEFINE T == {m \in 0 .. n : \E g : IsKept(g, stored, m)}
<1>1. 0 \in T
  <2>1. IsKept([i \in 0 .. 0 |-> <<>>], stored, 0) BY DEF IsKept
  <2>. QED BY <2>1
<1>2. ASSUME NEW k \in 1 .. n, k - 1 \in T PROVE k \in T
  <2>1. PICK g : IsKept(g, stored, k - 1) BY <1>2
  <2>. DEFINE h == [i \in 0 .. k |-> IF i = k THEN Keep(g[k - 1], stored[k]) ELSE g[i]]
  <2>2. \A i \in 0 .. k : i # 0 => h[i - 1] = g[i - 1] BY <1>2
  <2>3. \A i \in 0 .. k : h[i] = IF i = 0 THEN <<>> ELSE Keep(h[i - 1], stored[i])
    <3>1. \A i \in 0 .. (k - 1) : g[i] = IF i = 0 THEN <<>> ELSE Keep(g[i - 1], stored[i])
      BY <2>1 DEF IsKept
    <3>. QED BY <3>1, <2>2, <1>2
  <2>4. IsKept(h, stored, k) BY <2>3 DEF IsKept
  <2>. QED BY <2>4, <1>2
<1>3. 0 .. n \subseteq T BY <1>1, <1>2, InductionUpTo
<1>. QED BY <1>3

LEMMA KeptUnfolds ==
  ASSUME NEW stored \in Seq(Binding)
  PROVE  /\ Kept(stored)[0] = <<>>
         /\ \A i \in 1 .. Len(stored) : Kept(stored)[i] = Keep(Kept(stored)[i - 1], stored[i])
<1>1. \E g : IsKept(g, stored, Len(stored)) BY KeptExists
<1>2. IsKept(Kept(stored), stored, Len(stored)) BY <1>1, Zenon DEF Kept, IsKept
<1>3. \A i \in 0 .. Len(stored) :
        Kept(stored)[i] = IF i = 0 THEN <<>> ELSE Keep(Kept(stored)[i - 1], stored[i])
  BY <1>2 DEF IsKept
<1>. QED BY <1>3

(* No two bindings have a source or a target in common.                      *)
NoClash(q) == \A i, j \in DOMAIN q : i # j => ~Clashes(q[i], q[j])

(* What the loop keeps of one binding more.                                  *)
LEMMA KeepStep ==
  ASSUME NEW q \in Seq(Binding), NoClash(q), NEW b \in Binding
  PROVE  /\ Keep(q, b) \in Seq(Binding) /\ NoClash(Keep(q, b))
         /\ ToSet(Keep(q, b)) \subseteq ToSet(q) \cup {b}
         /\ (\A a \in ToSet(q) : ~Clashes(a, b)) => Keep(q, b) = Append(q, b)
<1>1. CASE \E a \in ToSet(q) : Clashes(a, b) BY <1>1 DEF Keep
<1>2. CASE ~\E a \in ToSet(q) : Clashes(a, b)
  <2>1. Keep(q, b) = Append(q, b) BY <1>2 DEF Keep
  <2>2. Append(q, b) \in Seq(Binding) /\ DOMAIN Append(q, b) = 1 .. (Len(q) + 1)
        /\ DOMAIN q = 1 .. Len(q)
    OBVIOUS
  <2>3. \A i \in DOMAIN Append(q, b) :
          Append(q, b)[i] = IF i = Len(q) + 1 THEN b ELSE q[i]
    OBVIOUS
  <2>4. \A i \in DOMAIN q : ~Clashes(q[i], b) /\ ~Clashes(b, q[i])
    BY <1>2 DEF ToSet, Clashes
  <2>5. NoClash(Append(q, b))
    BY <2>2, <2>3, <2>4 DEF NoClash
  <2>6. ToSet(Append(q, b)) \subseteq ToSet(q) \cup {b}
    BY <2>2, <2>3 DEF ToSet
  <2>. QED BY <2>1, <2>2, <2>5, <2>6
<1>. QED BY <1>1, <1>2

(* The bindings in force are stored bindings, and no two of them clash.      *)
LEMMA InForceIsStored ==
  ASSUME NEW stored \in Seq(Binding)
  PROVE  /\ ExportBindings(stored) \in Seq(Binding)
         /\ NoClash(ExportBindings(stored))
         /\ ToSet(ExportBindings(stored)) \subseteq ToSet(stored)
<1>. DEFINE K == Kept(stored)
            Good(q) == q \in Seq(Binding) /\ NoClash(q) /\ ToSet(q) \subseteq ToSet(stored)
            T == {n \in 0 .. Len(stored) : Good(K[n])}
<1>0. Len(stored) \in Nat OBVIOUS
<1>1. 0 \in T
  <2>1. K[0] = <<>> BY KeptUnfolds
  <2>2. Good(<<>>) BY DEF NoClash, ToSet
  <2>3. 0 \in 0 .. Len(stored) BY <1>0
  <2>. HIDE DEF K
  <2>. QED BY <2>1, <2>2, <2>3
<1>2. ASSUME NEW k \in 1 .. Len(stored), k - 1 \in T PROVE k \in T
  <2>1. K[k] = Keep(K[k - 1], stored[k]) BY KeptUnfolds
  <2>2. Good(K[k - 1]) BY <1>2
  <2>3. stored[k] \in Binding /\ stored[k] \in ToSet(stored) BY DEF ToSet
  <2>4. ASSUME NEW q, Good(q) PROVE Good(Keep(q, stored[k]))
    BY <2>3, <2>4, KeepStep
  <2>. QED BY <2>1, <2>2, <2>4
<1>3. 0 .. Len(stored) \subseteq T
  <2>. HIDE DEF T
  <2>. QED BY <1>0, <1>1, <1>2, InductionUpTo
<1>. QED BY <1>0, <1>3 DEF ExportBindings

(* Where no two stored bindings clash, all of them are in force.             *)
LEMMA AllInForce ==
  ASSUME NEW stored \in Seq(Binding), NoClash(stored)
  PROVE  ExportBindings(stored) = stored
<1>. DEFINE K == Kept(stored)
            T == {n \in 0 .. Len(stored) : K[n] = SubSeq(stored, 1, n)}
<1>0. Len(stored) \in Nat OBVIOUS
<1>1. 0 \in T
  <2>1. K[0] = <<>> BY KeptUnfolds
  <2>2. SubSeq(stored, 1, 0) = <<>> OBVIOUS
  <2>3. 0 \in 0 .. Len(stored) BY <1>0
  <2>. HIDE DEF K
  <2>. QED BY <2>1, <2>2, <2>3
<1>2. ASSUME NEW k \in 1 .. Len(stored), k - 1 \in T PROVE k \in T
  <2>. DEFINE q == SubSeq(stored, 1, k - 1)
  <2>1. K[k] = Keep(q, stored[k]) BY <1>2, KeptUnfolds
  <2>2. q \in Seq(Binding) /\ Len(q) = k - 1 /\ \A i \in 1 .. (k - 1) : q[i] = stored[i]
    OBVIOUS
  <2>3. \A a \in ToSet(q) : ~Clashes(a, stored[k])
    BY <2>2 DEF ToSet, NoClash
  <2>4. K[k] = Append(q, stored[k]) BY <2>1, <2>3 DEF Keep
  <2>5. Append(q, stored[k]) = SubSeq(stored, 1, k) BY <2>2
  <2>. QED BY <2>4, <2>5
<1>3. 0 .. Len(stored) \subseteq T
  <2>. HIDE DEF T
  <2>. QED BY <1>0, <1>1, <1>2, InductionUpTo
<1>4. SubSeq(stored, 1, Len(stored)) = stored OBVIOUS
<1>. QED BY <1>0, <1>3, <1>4 DEF ExportBindings
-----------------------------------------------------------------------------
(* Bindings that give way.                                                 *)

IsWithout(g, bindings, target, n) ==
  g = [i \in 0 .. n |->
         IF i = 0 THEN <<>>
         ELSE IF bindings[i].target = target THEN g[i - 1]
         ELSE Append(g[i - 1], bindings[i])]

LEMMA WithoutExists ==
  ASSUME NEW bindings, NEW target, NEW n \in Nat
  PROVE  \E g : IsWithout(g, bindings, target, n)
<1>. DEFINE T == {m \in 0 .. n : \E g : IsWithout(g, bindings, target, m)}
            step(q, i) == IF bindings[i].target = target THEN q ELSE Append(q, bindings[i])
<1>1. 0 \in T
  <2>1. IsWithout([i \in 0 .. 0 |-> <<>>], bindings, target, 0) BY DEF IsWithout
  <2>. QED BY <2>1
<1>2. ASSUME NEW k \in 1 .. n, k - 1 \in T PROVE k \in T
  <2>1. PICK g : IsWithout(g, bindings, target, k - 1) BY <1>2
  <2>. DEFINE h == [i \in 0 .. k |-> IF i = k THEN step(g[k - 1], k) ELSE g[i]]
  <2>2. \A i \in 0 .. k : i # 0 => h[i - 1] = g[i - 1] BY <1>2
  <2>3. \A i \in 0 .. k : h[i] = IF i = 0 THEN <<>> ELSE step(h[i - 1], i)
    <3>1. \A i \in 0 .. (k - 1) : g[i] = IF i = 0 THEN <<>> ELSE step(g[i - 1], i)
      BY <2>1 DEF IsWithout
    <3>. QED BY <3>1, <2>2, <1>2
  <2>4. IsWithout(h, bindings, target, k) BY <2>3 DEF IsWithout
  <2>. QED BY <2>4, <1>2
<1>3. 0 .. n \subseteq T
  <2>. HIDE DEF T
  <2>. QED BY <1>1, <1>2, InductionUpTo
<1>. QED BY <1>3

(* A binding is deleted: those of other targets remain, and do not clash     *)
(* either.                                                                  *)
LEMMA WithoutTarget ==
  ASSUME NEW bindings \in Seq(Binding), NoClash(bindings), NEW target
  PROVE  /\ Without(bindings, target) \in Seq(Binding)
         /\ NoClash(Without(bindings, target))
         /\ ToSet(Without(bindings, target)) = {b \in ToSet(bindings) : b.target # target}
<1>. DEFINE n == Len(bindings)
            Sofar(k) == {bindings[i] : i \in 1 .. k}
            Good(q, k) == /\ q \in Seq(Binding) /\ NoClash(q)
                          /\ ToSet(q) = {b \in Sofar(k) : b.target # target}
<1>0. n \in Nat OBVIOUS
<1>1. PICK g : g = [i \in 0 .. n |->
                      IF i = 0 THEN <<>>
                      ELSE IF bindings[i].target = target THEN g[i - 1]
                      ELSE Append(g[i - 1], bindings[i])]
               /\ Without(bindings, target) = g[n]
  <2>1. \E g : IsWithout(g, bindings, target, n) BY <1>0, WithoutExists
  <2>. QED BY <2>1, Zenon DEF IsWithout, Without
<1>2. /\ g[0] = <<>>
      /\ \A i \in 1 .. n :
           g[i] = IF bindings[i].target = target THEN g[i - 1]
                  ELSE Append(g[i - 1], bindings[i])
  <2>1. \A i \in 0 .. n : g[i] = IF i = 0 THEN <<>>
                                 ELSE IF bindings[i].target = target THEN g[i - 1]
                                 ELSE Append(g[i - 1], bindings[i])
    BY <1>1
  <2>. QED BY <1>0, <2>1
<1>. DEFINE T == {k \in 0 .. n : Good(g[k], k)}
<1>3. 0 \in T
  <2>1. Good(<<>>, 0) BY DEF NoClash, ToSet
  <2>. HIDE DEF n, Good
  <2>. QED BY <1>0, <1>2, <2>1
<1>4. ASSUME NEW k \in 1 .. n, k - 1 \in T PROVE k \in T
  <2>1. /\ bindings[k] \in Binding
        /\ \A i \in 1 .. (k - 1) : bindings[i] \in Binding /\ ~Clashes(bindings[i], bindings[k])
    BY DEF NoClash
  <2>2. Sofar(k) = Sofar(k - 1) \cup {bindings[k]}
    <3>1. 1 .. k = (1 .. (k - 1)) \cup {k} OBVIOUS
    <3>. QED BY <3>1
  <2>3. ASSUME NEW q, Good(q, k - 1)
        PROVE  Good(IF bindings[k].target = target THEN q ELSE Append(q, bindings[k]), k)
    <3>1. CASE bindings[k].target = target BY <2>2, <2>3, <3>1
    <3>2. CASE bindings[k].target # target
      <4>. DEFINE r == Append(q, bindings[k])
      <4>1. /\ r \in Seq(Binding) /\ DOMAIN r = 1 .. (Len(q) + 1) /\ DOMAIN q = 1 .. Len(q)
            /\ Len(q) \in Nat
            /\ \A i \in DOMAIN r : r[i] = IF i = Len(q) + 1 THEN bindings[k] ELSE q[i]
        BY <2>1, <2>3
      <4>2. \A a \in ToSet(q) : ~Clashes(a, bindings[k]) /\ ~Clashes(bindings[k], a)
        BY <2>1, <2>3 DEF Clashes
      <4>3. \A i \in DOMAIN q : q[i] \in ToSet(q) BY DEF ToSet
      <4>4. NoClash(r) BY <4>1, <4>2, <4>3, <2>3 DEF NoClash
      <4>5. ToSet(r) = ToSet(q) \cup {bindings[k]}
        <5>1. DOMAIN r = DOMAIN q \cup {Len(q) + 1} BY <4>1
        <5>. QED BY <4>1, <5>1 DEF ToSet
      <4>. QED BY <4>1, <4>4, <4>5, <2>2, <2>3, <3>2
    <3>. QED BY <3>1, <3>2
  <2>4. Good(g[k - 1], k - 1) BY <1>4
  <2>. HIDE DEF Good
  <2>. QED BY <1>2, <2>3, <2>4
<1>5. 0 .. n \subseteq T
  <2>. HIDE DEF T, n
  <2>. QED BY <1>0, <1>3, <1>4, InductionUpTo
<1>6. Good(g[n], n)
  <2>. HIDE DEF n, Good
  <2>1. n \in 0 .. n BY <1>0
  <2>2. n \in T
    <3>. HIDE DEF T
    <3>. QED BY <2>1, <1>5
  <2>. QED BY <2>2
<1>7. Sofar(n) = ToSet(bindings) BY DEF ToSet
<1>. QED BY <1>1, <1>6, <1>7
-----------------------------------------------------------------------------
(* What the flows store.                                                   *)

(* An object that the user chose is shown, whatever becomes an export later; *)
(* one that was refused or exported is not shown.                            *)
Chosen(o, t) ==
  o.lists /\ t \in o.imported /\ t \notin TargetsOf(ExportBindings(o.exports))

Hidden(o, t) == o.lists /\ t \in o.excluded /\ t \notin o.imported

LEMMA ChosenIsImported ==
  ASSUME NEW o, NEW t
  PROVE  /\ Chosen(o, t) => Imports(o, t)
         /\ Hidden(o, t) => ~Imports(o, t)
BY DEF Chosen, Hidden, Imports, ImportConfiguration, ExportTargetIds

LEMMA TargetsTyped ==
  ASSUME NEW q \in Seq(Binding)
  PROVE  TargetsOf(q) \subseteq Id
<1>1. \A i \in DOMAIN q : q[i] \in Binding OBVIOUS
<1>. QED BY <1>1 DEF TargetsOf, ToSet, Binding

(* Targets that are or become reserved are hidden; the other decisions stay. *)
LEMMA BindingsStored ==
  ASSUME NEW o \in Options, NEW q \in Seq(Binding)
  PROVE  LET n == OptionsWithBindings(o, q)
         IN  /\ n \in Options /\ n.exports = q /\ n.off = o.off
             /\ \A t : Chosen(o, t) /\ t \notin TargetsOf(q) => Chosen(n, t)
             /\ \A t : Hidden(o, t) => Hidden(n, t)
             /\ \A t \in TargetsOf(q) \cup TargetsOf(ExportBindings(o.exports)) : Hidden(n, t)
<1>. DEFINE c == ImportConfiguration(o)
            reserved == c.exported \cup TargetsOf(q)
            n == OptionsWithBindings(o, q)
<1>1. /\ c.exported = TargetsOf(ExportBindings(o.exports))
      /\ c.imported = (IF o.lists THEN o.imported ELSE {})
      /\ c.excluded = (IF o.lists THEN o.excluded \ o.imported ELSE {})
      /\ c.auto \in BOOLEAN
  BY DEF ImportConfiguration, ExportTargetIds, Options
<1>2. n = [o EXCEPT !.exports = q, !.lists = TRUE, !.imported = c.imported \ reserved,
                    !.excluded = c.excluded \cup reserved, !.auto = c.auto]
  BY DEF OptionsWithBindings
<1>3. o.exports \in Seq(Binding) /\ o.imported \in SUBSET Id /\ o.excluded \in SUBSET Id
  BY DEF Options
<1>4. ExportBindings(o.exports) \in Seq(Binding)
      /\ ToSet(ExportBindings(q)) \subseteq ToSet(q)
  BY <1>3, InForceIsStored
<1>5. reserved \in SUBSET Id /\ c.imported \in SUBSET Id /\ c.excluded \in SUBSET Id
  BY <1>1, <1>3, <1>4, TargetsTyped
<1>6. TargetsOf(ExportBindings(q)) \subseteq TargetsOf(q)
  BY <1>4 DEF TargetsOf
<1>. HIDE DEF c
<1>7. /\ n \in Options /\ n.exports = q /\ n.off = o.off /\ n.lists = TRUE
      /\ n.imported = c.imported \ reserved /\ n.excluded = c.excluded \cup reserved
  BY <1>1, <1>2, <1>5 DEF Options
<1>. HIDE DEF n
<1>8. \A t : Chosen(o, t) /\ t \notin TargetsOf(q) => Chosen(n, t)
  BY <1>1, <1>6, <1>7 DEF Chosen
<1>9. \A t : Hidden(o, t) => Hidden(n, t)
  BY <1>1, <1>7 DEF Hidden
<1>10. \A t \in TargetsOf(q) \cup TargetsOf(ExportBindings(o.exports)) : Hidden(n, t)
  BY <1>1, <1>7 DEF Hidden
<1>. QED BY <1>7, <1>8, <1>9, <1>10 DEF n

(* A new binding joins those in force.                                       *)
LEMMA AddingStored ==
  ASSUME NEW o \in Options, NEW b \in Binding
  PROVE  LET n == OptionsAdding(o, b)
             q == ExportBindings(o.exports)
         IN  /\ n \in Options /\ n.exports = Append(q, b) /\ n.off = o.off
             /\ \A t : Chosen(o, t) /\ t \notin TargetsOf(n.exports) => Chosen(n, t)
             /\ \A t : Hidden(o, t) => Hidden(n, t)
             /\ \A t \in TargetsOf(n.exports) \cup TargetsOf(q) : Hidden(n, t)
<1>1. o.exports \in Seq(Binding) BY DEF Options
<1>2. Append(ExportBindings(o.exports), b) \in Seq(Binding)
  BY <1>1, InForceIsStored
<1>. QED BY <1>2, BindingsStored DEF OptionsAdding

(* More excluded objects hide no chosen one.                                 *)
LEMMA ExcludedGrows ==
  ASSUME NEW n \in Options, NEW old \in Id
  PROVE  LET m == [n EXCEPT !.excluded = @ \cup {old}]
         IN  /\ m \in Options /\ m.exports = n.exports /\ m.off = n.off
             /\ \A t : Chosen(n, t) => Chosen(m, t)
             /\ \A t : Hidden(n, t) => Hidden(m, t)
<1>. DEFINE m == [n EXCEPT !.excluded = @ \cup {old}]
<1>1. /\ m \in Options /\ m.exports = n.exports /\ m.off = n.off /\ m.lists = n.lists
      /\ m.imported = n.imported /\ m.excluded = n.excluded \cup {old}
  BY DEF Options
<1>. HIDE DEF m
<1>2. \A t : Chosen(n, t) => Chosen(m, t) BY <1>1 DEF Chosen
<1>3. \A t : Hidden(n, t) => Hidden(m, t) BY <1>1 DEF Hidden
<1>. QED BY <1>1, <1>2, <1>3 DEF m

(* The bindings in force with that of one target replaced.                   *)
Replaced(q, old, b) == [i \in DOMAIN q |-> IF q[i].target = old THEN b ELSE q[i]]

(* A binding that clashes with none, or with the replaced one at most, keeps *)
(* the bindings apart.                                                       *)
LEMMA AddedApart ==
  ASSUME NEW q \in Seq(Binding), NoClash(q), NEW b \in Binding,
         \A a \in ToSet(q) : ~Clashes(a, b)
  PROVE  NoClash(Append(q, b))
BY KeepStep

LEMMA ReplacedApart ==
  ASSUME NEW q \in Seq(Binding), NoClash(q), NEW old, NEW b \in Binding,
         \A a \in ToSet(q) : a.target # old => ~Clashes(a, b)
  PROVE  NoClash(Replaced(q, old, b))
<1>. DEFINE r == Replaced(q, old, b)
<1>1. /\ DOMAIN r = DOMAIN q
      /\ \A i \in DOMAIN q : r[i] = IF q[i].target = old THEN b ELSE q[i]
  BY DEF Replaced
<1>. SUFFICES ASSUME NEW i \in DOMAIN q, NEW j \in DOMAIN q, i # j
              PROVE  ~Clashes(r[i], r[j])
  BY <1>1 DEF NoClash
<1>2. ~Clashes(q[i], q[j]) /\ q[i] \in ToSet(q) /\ q[j] \in ToSet(q)
  BY DEF NoClash, ToSet
<1>. HIDE DEF r
<1>. QED BY <1>1, <1>2 DEF Clashes

LEMMA ReplacingStored ==
  ASSUME NEW o \in Options, NEW b \in Binding, NEW old \in Id
  PROVE  LET n == OptionsReplacing(o, old, b)
             q == ExportBindings(o.exports)
         IN  /\ n \in Options /\ n.exports = Replaced(q, old, b) /\ n.off = o.off
             /\ n.exports \in Seq(Binding)
             /\ \A t : Chosen(o, t) /\ t \notin TargetsOf(n.exports) => Chosen(n, t)
             /\ \A t : Hidden(o, t) => Hidden(n, t)
             /\ \A t \in TargetsOf(n.exports) \cup TargetsOf(q) : Hidden(n, t)
<1>. DEFINE q == ExportBindings(o.exports)
            r == Replaced(q, old, b)
            n == OptionsWithBindings(o, r)
<1>1. o.exports \in Seq(Binding) BY DEF Options
<1>2. q \in Seq(Binding)
  BY <1>1, InForceIsStored
<1>3. r \in Seq(Binding) BY <1>2 DEF Replaced
<1>4. /\ n \in Options /\ n.exports = r /\ n.off = o.off
      /\ \A t : Chosen(o, t) /\ t \notin TargetsOf(r) => Chosen(n, t)
      /\ \A t : Hidden(o, t) => Hidden(n, t)
      /\ \A t \in TargetsOf(r) \cup TargetsOf(q) : Hidden(n, t)
  BY <1>3, BindingsStored
<1>5. OptionsReplacing(o, old, b) = [n EXCEPT !.excluded = @ \cup {old}]
  BY DEF OptionsReplacing, Replaced
<1>. HIDE DEF n, r, q
<1>6. LET m == OptionsReplacing(o, old, b)
      IN  /\ m \in Options /\ m.exports = n.exports /\ m.off = n.off
          /\ \A t : Chosen(n, t) => Chosen(m, t)
          /\ \A t : Hidden(n, t) => Hidden(m, t)
  BY <1>4, <1>5, ExcludedGrows
<1>. QED BY <1>3, <1>4, <1>6 DEF r, q

(* The binding of one target is deleted from those in force.                 *)
LEMMA DeletingStored ==
  ASSUME NEW o \in Options, NEW old \in Id
  PROVE  LET n == OptionsDeleting(o, old)
             q == ExportBindings(o.exports)
         IN  /\ n \in Options /\ n.exports = Without(q, old) /\ n.off = o.off
             /\ n.exports \in Seq(Binding) /\ NoClash(n.exports)
             /\ ToSet(n.exports) = {b \in ToSet(q) : b.target # old}
             /\ \A t : Chosen(o, t) /\ t # old => Chosen(n, t)
             /\ \A t : Hidden(o, t) => Hidden(n, t)
             /\ old \in TargetsOf(q) => Hidden(n, old)
<1>. DEFINE q == ExportBindings(o.exports)
            r == Without(q, old)
            n == OptionsWithBindings(o, r)
<1>1. o.exports \in Seq(Binding) BY DEF Options
<1>2. q \in Seq(Binding) /\ NoClash(q)
  BY <1>1, InForceIsStored
<1>3. r \in Seq(Binding) /\ NoClash(r) /\ ToSet(r) = {b \in ToSet(q) : b.target # old}
  BY <1>2, WithoutTarget
<1>4. /\ n \in Options /\ n.exports = r /\ n.off = o.off
      /\ \A t : Chosen(o, t) /\ t \notin TargetsOf(r) => Chosen(n, t)
      /\ \A t : Hidden(o, t) => Hidden(n, t)
      /\ \A t \in TargetsOf(r) \cup TargetsOf(q) : Hidden(n, t)
  BY <1>3, BindingsStored
<1>5. OptionsDeleting(o, old) = [n EXCEPT !.excluded = @ \cup {old}]
  BY DEF OptionsDeleting
<1>6. \A t : Chosen(o, t) => t \notin TargetsOf(r)
  BY <1>3 DEF Chosen, TargetsOf
<1>. HIDE DEF n, r, q
<1>7. LET m == OptionsDeleting(o, old)
      IN  /\ m \in Options /\ m.exports = n.exports /\ m.off = n.off
          /\ \A t : Chosen(n, t) => Chosen(m, t)
          /\ \A t : Hidden(n, t) => Hidden(m, t)
  BY <1>4, <1>5, ExcludedGrows
<1>. QED BY <1>3, <1>4, <1>6, <1>7 DEF r, q

(* The user selects among the listed objects.                                *)
LEMMA SelectingStored ==
  ASSUME NEW o \in Options, NEW objects \in SUBSET Id, NEW auto \in BOOLEAN,
         NEW selected, selected \subseteq ListedDevices(o, objects)
  PROVE  LET n == OptionsSelecting(o, objects, selected, auto)
         IN  /\ n \in Options /\ n.exports = o.exports /\ n.off = o.off
             /\ \A t \in selected : Chosen(n, t)
             /\ \A t \in ListedDevices(o, objects) \ selected : Hidden(n, t)
             /\ \A t : t \notin ListedDevices(o, objects) =>
                  ~Chosen(o, t) /\ (Hidden(o, t) => Hidden(n, t))
<1>. DEFINE c == ImportConfiguration(o)
            listed == ListedDevices(o, objects)
            n == OptionsSelecting(o, objects, selected, auto)
<1>1. /\ c.exported = TargetsOf(ExportBindings(o.exports))
      /\ c.imported = (IF o.lists THEN o.imported ELSE {})
      /\ c.excluded = (IF o.lists THEN o.excluded \ o.imported ELSE {})
  BY DEF ImportConfiguration, ExportTargetIds
<1>2. listed = (objects \cup c.imported) \ c.exported
  BY DEF ListedDevices
<1>3. n = [o EXCEPT !.lists = TRUE, !.imported = selected, !.auto = auto,
                    !.excluded = (c.excluded \cup listed) \ selected]
  BY DEF OptionsSelecting
<1>4. o.imported \in SUBSET Id /\ o.excluded \in SUBSET Id BY DEF Options
<1>. HIDE DEF c
<1>5. selected \in SUBSET Id /\ (c.excluded \cup listed) \ selected \in SUBSET Id
  BY <1>1, <1>2, <1>4
<1>. HIDE DEF listed
<1>6. /\ n \in Options /\ n.exports = o.exports /\ n.off = o.off /\ n.lists = TRUE
      /\ n.imported = selected /\ n.excluded = (c.excluded \cup listed) \ selected
  BY <1>3, <1>5 DEF Options
<1>7. selected \subseteq listed BY DEF listed
<1>. HIDE DEF n
<1>8. \A t \in selected : Chosen(n, t)
  BY <1>1, <1>2, <1>6, <1>7 DEF Chosen
<1>9. \A t \in listed \ selected : Hidden(n, t)
  BY <1>6 DEF Hidden
<1>10. \A t : t \notin listed => ~Chosen(o, t) /\ (Hidden(o, t) => Hidden(n, t))
  BY <1>1, <1>2, <1>6, <1>7 DEF Chosen, Hidden
<1>. QED BY <1>6, <1>8, <1>9, <1>10 DEF n, listed

LEMMA InitialStored ==
  ASSUME NEW mode \in OffMode, NEW objects \in SUBSET Id, NEW auto \in BOOLEAN,
         NEW selected, selected \subseteq objects
  PROVE  LET n == InitialOptions(mode, objects, selected, auto)
         IN  /\ n \in Options /\ n.exports = <<>> /\ n.off = mode
             /\ \A t \in selected : Chosen(n, t)
             /\ \A t \in objects \ selected : Hidden(n, t)
<1>. DEFINE n == InitialOptions(mode, objects, selected, auto)
<1>1. /\ n \in Options /\ n.exports = <<>> /\ n.off = mode /\ n.lists = TRUE
      /\ n.imported = selected /\ n.excluded = objects \ selected
  BY DEF InitialOptions, Options
<1>2. TargetsOf(ExportBindings(<<>>)) = {}
  <2>1. <<>> \in Seq(Binding) /\ ToSet(<<>>) = {} BY DEF ToSet
  <2>2. ToSet(ExportBindings(<<>>)) \subseteq {} BY <2>1, InForceIsStored
  <2>. QED BY <2>2 DEF TargetsOf
<1>. HIDE DEF n
<1>. QED BY <1>1, <1>2 DEF Chosen, Hidden, n
=============================================================================
