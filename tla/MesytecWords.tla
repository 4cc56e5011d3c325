---------------------------- MODULE MesytecWords ----------------------------
(***************************************************************************)
(* The 32-bit words of the mesytec data stream (lib/mesytec_module.h and   *)
(* .cpp): the bit tests that tell the kinds of words apart, the fields     *)
(* cut out of them, and the firmware codes of the modules that send them.  *)
(*                                                                         *)
(* A word is a pair of 16-bit halves, so that every mask of the code that  *)
(* looks at the top nibble, the top byte, the module byte or the low half  *)
(* is one division or one remainder (and no number exceeds 31 bits).       *)
(***************************************************************************)
EXTENDS Naturals

Half == 0 .. 65535
Word == [hi : Half, lo : Half]
ZeroWord == [hi |-> 0, lo |-> 0]

TopNibble(w) == w.hi \div 4096          \* w >> 28
TopByte(w)   == w.hi \div 256           \* w >> 24

is_module_header(w) == TopNibble(w) = 4
is_end_of_event(w)  == TopNibble(w) >= 12
is_fill_word(w)     == w = ZeroWord

\* SuperFrame, StackFrame, BlockRead, StackError, StackContinuation, SystemEvent.
FrameTypes == {241, 243, 245, 247, 249, 250}
is_frame_header(w) == TopByte(w) \in FrameTypes

module_id(w) == w.hi % 256

\* The 30 bits below the end-of-event marker.
event_counter(w) == (w.hi % 16384) * 65536 + w.lo

-----------------------------------------------------------------------------
Firmware == {"MDPP_SCP", "MDPP_QDC", "MDPP_CSI", "VMMR", "TGV", "MVLC_SCALER"}

\* The firmware of an MDPP, as module's constructor tests for it.
IsMdpp(f) == f \in {"MDPP_SCP", "MDPP_QDC", "MDPP_CSI"}

is_tgv_module(f)     == f = "TGV"
is_mdpp_module(f)    == f \in {"MDPP_QDC", "MDPP_SCP"}
is_vmmr_module(f)    == f = "VMMR"
is_mesytec_module(f) == is_mdpp_module(f) \/ is_vmmr_module(f)
is_mvlc_scaler(f)    == f = "MVLC_SCALER"
=============================================================================
