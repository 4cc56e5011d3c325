-------------------------- MODULE RunFileWriterMC --------------------------
(***************************************************************************)
(* Instances of RunFileWriter for TLC.                                     *)
(***************************************************************************)
EXTENDS RunFileWriter

\* Frames of 1 to 3 bytes, for a buffer of 3, and one of 4.
SmallSizes == [f \in FrameId |-> IF f = 6 THEN 4 ELSE 1 + ((f * 2) % 3)]
=============================================================================
