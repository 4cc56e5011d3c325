--------------------------- MODULE FastLookupMap ---------------------------
(***************************************************************************)
(* fast_lookup_map<uint8_t, Object> (lib/fast_lookup_map.h): objects kept  *)
(* in a vector that is indexed by their ids.                               *)
(*                                                                         *)
(* An operator here is one of its methods.  "slots" is the size of the     *)
(* vector, "objects" a function on the ids whose slot holds an object.     *)
(* Nothing in the code tests an id against the size of the vector: the     *)
(* operators do so say where a method would reach past it.                 *)
(***************************************************************************)
EXTENDS Maps, Integers, SequencesExt

empty_map ==
  [id_list |-> <<>>, objects |-> EmptyMap, slots |-> 0, maxindex |-> 0, initialized |-> FALSE]

add_id(m, id) ==
  [m EXCEPT !.id_list = Append(@, id), !.maxindex = IF id > @ THEN id ELSE @]

\* The vector gets its size once, when the first object is added.
initialize_object_storage(m) ==
  IF m.initialized THEN m ELSE [m EXCEPT !.slots = m.maxindex + 1, !.initialized = TRUE]

\* Mutants: an object already there stays; the vector is filled anew.
AddMissing(m, new) ==
  IF DOMAIN new = {} THEN m
  ELSE [initialize_object_storage(m) EXCEPT !.objects = Overlay(@, new)]
FillAnew(m, new) ==
  IF DOMAIN new = {} THEN m
  ELSE [initialize_object_storage(m) EXCEPT !.objects = new]

\* add_object for each object of "new".
add_objects(m, new) ==
  IF DOMAIN new = {} THEN m
  ELSE [initialize_object_storage(m) EXCEPT !.objects = Overlay(new, @)]

HasSlot(m, id) == id < m.slots

\* Mutant: has_object without its first test.
AnyIndex(m, id) == HasSlot(m, id)

\* has_object, and whether it reads within the vector.
LookupDefined(m, id) == id <= m.maxindex => HasSlot(m, id)
has_object(m, id) == id <= m.maxindex /\ id \in DOMAIN m.objects

size(m) == Len(m.id_list)

\* The places of id_list at which an iteration finds no object.
Missing(m) == {i \in DOMAIN m.id_list : m.id_list[i] \notin DOMAIN m.objects}
FirstMissing(m) == CHOOSE i \in Missing(m) : \A j \in Missing(m) : i <= j
=============================================================================
