-------------------------- MODULE CrateDescription --------------------------
(***************************************************************************)
(* What mesytec::experimental_setup promises: a description of the crate   *)
(* that grows by whole crate maps.  A crate map that cannot be read to its *)
(* end changes nothing; one that can replaces the modules whose ids it     *)
(* names, and the last of its lines with an id counts.  A detector's name  *)
(* is given only to a channel that its module has.                         *)
(*                                                                         *)
(* ExperimentalSetup implements this module.                               *)
(***************************************************************************)
EXTENDS CrateFile

CONSTANTS MapFiles, DetectorFiles

VARIABLE setup       \* the modules, by their ids

-----------------------------------------------------------------------------
Legible(f) == \A i \in DOMAIN f.lines : LegibleLine(f, i)

\* The first n lines of a crate map.
Naming(f, n, id) == {i \in 1 .. n : Counts(f, i) /\ uint8_t(f.lines[i].id) = id}
Named(f, n) == {uint8_t(f.lines[i].id) : i \in {k \in 1 .. n : Counts(f, k)}}
LastNaming(f, n, id) ==
  CHOOSE i \in Naming(f, n, id) : \A j \in Naming(f, n, id) : j <= i
Described(f, n) == [id \in Named(f, n) |-> Module(f.lines[LastNaming(f, n, id)])]

-----------------------------------------------------------------------------
Init == setup = EmptyMap

Install(f) ==
  /\ f.found /\ Legible(f)
  /\ setup' = Overlay(Described(f, Len(f.lines)), setup)

NameChannel(l) ==
  /\ uint8_t(l.id) \in DOMAIN setup
  /\ LET mod == setup[uint8_t(l.id)]
         a   == Address(mod, l)
     IN  /\ LegibleAddress(a) /\ HasChannel(mod, Channel(a))
         /\ setup' = [setup EXCEPT ![uint8_t(l.id)] = WithName(mod, Channel(a), a.name)]

Next ==
  \/ \E f \in MapFiles : Install(f)
  \/ \E f \in DetectorFiles : \E i \in DOMAIN f.lines : NameChannel(f.lines[i])

Spec == Init /\ [][Next]_setup
=============================================================================
