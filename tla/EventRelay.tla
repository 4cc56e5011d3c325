----------------------------- MODULE EventRelay -----------------------------
(***************************************************************************)
(* What a program between two parts of the acquisition promises: it hands  *)
(* on the events it took, in the order it took them, each once and none    *)
(* left out.  It may keep events back and hand several on at a time.       *)
(***************************************************************************)
EXTENDS Sequences, Naturals

CONSTANT Item

VARIABLES
  taken,      \* the events taken, in order
  given       \* the events handed on, in order

Init == taken = <<>> /\ given = <<>>

Take == /\ \E e \in Item : taken' = Append(taken, e)
        /\ UNCHANGED given

Give == /\ \E n \in Len(given) + 1 .. Len(taken) : given' = SubSeq(taken, 1, n)
        /\ UNCHANGED taken

Next == Take \/ Give

Spec == Init /\ [][Next]_<<taken, given>>
=============================================================================
