-------------------------- MODULE NarvalReceiverMC --------------------------
(***************************************************************************)
(* Instances of NarvalReceiver for TLC.                                    *)
(***************************************************************************)
EXTENDS NarvalReceiver

\* Events of three sizes: buffers of 4 and 6 hold one, two or more of them.
MixedSizes == [e \in EventId |-> 1 + ((e * 2) % 3)]

\* Event 2 is larger than every buffer.
OneOversize == [e \in EventId |-> IF e = 2 THEN 9 ELSE 2]
=============================================================================
