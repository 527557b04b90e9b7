---------------------------- MODULE EntryOptions ----------------------------
(***************************************************************************)
(* The options of a config entry: which objects are imported                 *)
(* (object_import.py), which export bindings are in force (export/model.py),  *)
(* and what each options flow stores (flows/options.py, flows/export.py).     *)
(*                                                                         *)
(* Options are a record: `off` is the off mode, `exports` the stored         *)
(* bindings, `lists` whether the import lists are stored at all (an entry of *)
(* an older version has none), `imported`, `excluded` and `auto` the import  *)
(* settings.  Abstracted: malformed storage, the names, and a binding's kind *)
(* and subtype: `Exportable` are the objects that suit the sources.          *)
(***************************************************************************)
EXTENDS Naturals, SequencesExt

CONSTANTS
  Id,          \* objects of the controller
  Exportable,  \* those that an export may be bound to
  Source,      \* sources in Home Assistant
  OffMode      \* off modes that a form offers

ASSUME OptionsAssumption == Exportable \subseteq Id

Binding == [source : Source, target : Id]

Options ==
  [off : OffMode, exports : Seq(Binding), lists : BOOLEAN,
   imported : SUBSET Id, excluded : SUBSET Id, auto : BOOLEAN]

-----------------------------------------------------------------------------
(* The bindings in force: of those stored, the first of a source and of a    *)
(* target.  The loop over the stored ones is a function of how many it has   *)
(* seen.                                                                     *)
Clashes(a, b) == a.source = b.source \/ a.target = b.target

Keep(kept, b) ==
  IF \E a \in ToSet(kept) : Clashes(a, b) THEN kept ELSE Append(kept, b)

Kept(stored) ==
  LET kept[n \in 0 .. Len(stored)] ==
        IF n = 0 THEN <<>> ELSE Keep(kept[n - 1], stored[n])
  IN  kept

ExportBindings(stored) == Kept(stored)[Len(stored)]

TargetsOf(bindings) == {b.target : b \in ToSet(bindings)}

ExportTargetIds(options) == TargetsOf(ExportBindings(options.exports))

(* The normalized import settings.                                           *)
ImportConfiguration(options) ==
  [legacy   |-> ~options.lists,
   exported |-> ExportTargetIds(options),
   imported |-> IF options.lists THEN options.imported ELSE {},
   excluded |-> IF options.lists THEN options.excluded \ options.imported ELSE {},
   auto     |-> ~options.lists \/ options.auto]

Imports(options, id) ==
  LET c == ImportConfiguration(options)
  IN  /\ id \notin c.exported
      /\ \/ c.legacy \/ id \in c.imported
         \/ id \notin c.excluded /\ c.auto

-----------------------------------------------------------------------------
(* What the flows store.                                                     *)

(* Mutant: the targets stay among the imported objects.                      *)
OptionsKeepingImports(options, bindings) ==
  LET c == ImportConfiguration(options)
  IN  [options EXCEPT !.exports = bindings, !.lists = TRUE, !.imported = c.imported,
                      !.excluded = c.excluded \cup c.exported \cup TargetsOf(bindings),
                      !.auto = c.auto]

(* Every target that is or was in force becomes an excluded object.          *)
OptionsWithBindings(options, bindings) ==
  LET c        == ImportConfiguration(options)
      reserved == c.exported \cup TargetsOf(bindings)
  IN  [options EXCEPT !.exports = bindings, !.lists = TRUE,
                      !.imported = c.imported \ reserved,
                      !.excluded = c.excluded \cup reserved,
                      !.auto = c.auto]

OptionsAdding(options, binding) ==
  OptionsWithBindings(options, Append(ExportBindings(options.exports), binding))

(* The binding of a target gives way to another; nothing takes the place of  *)
(* one that is gone.                                                         *)
OptionsReplacing(options, old, binding) ==
  LET bindings == ExportBindings(options.exports)
      updated  == OptionsWithBindings(options,
                    [i \in DOMAIN bindings |->
                       IF bindings[i].target = old THEN binding ELSE bindings[i]])
  IN  [updated EXCEPT !.excluded = @ \cup {old}]

Without(bindings, target) ==
  LET kept[n \in 0 .. Len(bindings)] ==
        IF n = 0 THEN <<>>
        ELSE IF bindings[n].target = target THEN kept[n - 1]
        ELSE Append(kept[n - 1], bindings[n])
  IN  kept[Len(bindings)]

OptionsDeleting(options, target) ==
  LET updated == OptionsWithBindings(options,
                   Without(ExportBindings(options.exports), target))
  IN  [updated EXCEPT !.excluded = @ \cup {target}]

(* The objects a form of devices lists: those discovered, and the imported   *)
(* ones that are not, except the targets.                                    *)
ListedDevices(options, objects) ==
  LET c == ImportConfiguration(options) IN (objects \cup c.imported) \ c.exported

OptionsSelecting(options, objects, selected, auto) ==
  LET c == ImportConfiguration(options)
  IN  [options EXCEPT
         !.lists = TRUE, !.imported = selected, !.auto = auto,
         !.excluded = (c.excluded \cup ListedDevices(options, objects)) \ selected]

OptionsOfMode(options, mode) == [options EXCEPT !.off = mode]

(* The options of an entry that the initial flow creates.                    *)
InitialOptions(mode, objects, selected, auto) ==
  [off |-> mode, exports |-> <<>>, lists |-> TRUE, imported |-> selected,
   excluded |-> objects \ selected, auto |-> auto]

AvailableTargets(objects, bindings) == (objects \cap Exportable) \ TargetsOf(bindings)
=============================================================================
