--------------------------- MODULE BufferReaderMC ---------------------------
(***************************************************************************)
(* Instances of BufferReader for TLC: a crate with every kind of module,   *)
(* and frames of revision 0, 1 and 2.  Module 9 is in no crate map.        *)
(***************************************************************************)
EXTENDS BufferReader, WordMasks

MCCrate ==
  0 :> [firmware |-> "MDPP_SCP", nchan |-> 32] @@
  1 :> [firmware |-> "MDPP_SCP", nchan |-> 16] @@
  2 :> [firmware |-> "MDPP_QDC", nchan |-> 32] @@
  3 :> [firmware |-> "VMMR", nchan |-> 16] @@
  4 :> [firmware |-> "MVLC_SCALER", nchan |-> 0] @@
  5 :> [firmware |-> "TGV", nchan |-> 0] @@
  6 :> [firmware |-> "MDPP_CSI", nchan |-> 16]

Hit(type, bus, channel, data) ==
  [type |-> type, bus |-> bus, channel |-> channel, data |-> data, pileup |-> 0]
Pileup(h) == [h EXCEPT !.pileup = 1]
Raw(n) == Hit("raw", 0, 0, n)
Fill == Hit("fill", 0, 0, 0)
ExtTs(n) == Hit("ext_ts", 0, 0, n)

Header(id) == [hi |-> 16384 + id, lo |-> 7]
EoE(n)     == [hi |-> 49152, lo |-> n]           \* 0xc000nnnn
StackFrame == [hi |-> 62209, lo |-> 62]          \* 0xf301003e
BlockRead  == [hi |-> 62752, lo |-> 12]          \* 0xf520000c

\* A module of a revision 1 frame, and of a revision 0 frame.
Mod(id, hits) == [header |-> Header(id), hits |-> hits, marker |-> <<>>]
OldMod(id, hits, marker) == [header |-> Header(id), hits |-> hits, marker |-> marker]

Frame(f) == [revision |-> f.revision, modules |-> f.modules, blob |-> Blob(f)]
V1(ms) == Frame([revision |-> 1, modules |-> ms])
V0(ms) == Frame([revision |-> 0, modules |-> ms])

Scp  == <<Pileup(Hit("ADC", 0, 15, 65535)), Hit("TDC", 0, 3, 17), Hit("Trigger_time", 0, 8, 1)>>
Qdc  == <<Hit("QDC_long", 0, 31, 5), Pileup(Hit("QDC_short", 0, 16, 4)), Hit("TDC", 0, 0, 0)>>
Vmmr == <<Hit("ADC", 15, 127, 4095), Hit("TDC", 7, 0, 65535)>>
Scalers == <<Raw(65535), Raw(16384), Raw(0), Raw(1)>>

MixedFrames ==
  {V1(<<Mod(1, Scp), Mod(3, Vmmr)>>),
   V1(<<Mod(2, Qdc), Mod(4, Scalers)>>),
   V1(<<Mod(4, Scalers), Mod(1, <<>>), Mod(6, <<Fill, Hit("ADC", 0, 0, 9)>>)>>),
   V1(<<Mod(1, Scp), Mod(9, Scp)>>),
   V1(<<Mod(4, Scalers), Mod(9, <<Fill>>)>>),
   V1(<<>>),
   V0(<<OldMod(1, Scp, <<EoE(258)>>), OldMod(5, <<Raw(128), Raw(3)>>, <<EoE(0)>>),
        OldMod(2, <<>>, <<StackFrame, BlockRead>>)>>),
   V0(<<OldMod(2, <<ExtTs(9)>> \o Qdc, <<EoE(7), EoE(7)>>), OldMod(4, Scalers, <<EoE(0)>>)>>),
   V0(<<OldMod(1, Scp, <<StackFrame>>), OldMod(9, <<>>, <<EoE(1)>>)>>),
   Frame([revision |-> 2, modules |-> <<Mod(1, Scp)>>])}

\* What the proof that the reader implements FrameDecoder takes for granted.
ASSUME MixedFramesAssumption == \A f \in MixedFrames : WellFormed(f)

\* Frames with data of module 0.
ZeroFrames == {V1(<<Mod(0, Scp)>>), V1(<<Mod(0, Scp), Mod(1, Scp)>>)}

\* Frames with any few words before the first header, which are passed over,
\* taken for scalers' or undefined, depending on what was read before; frames
\* with data of a TGV, which has no masks; and one of revision 0 that has data
\* before a module that is unknown.
Datum == [hi |-> 4099, lo |-> 5]
Headless(lead, f) == [f EXCEPT !.blob = lead \o @]
Leads == {<<ZeroWord>>, <<Datum>>, <<ZeroWord, Datum>>}
OneHit == <<Hit("ADC", 0, 2, 7)>>
Followers ==
  {<<>>, <<Mod(3, OneHit)>>, <<Mod(4, Scalers)>>, <<Mod(4, Scalers), Mod(1, OneHit)>>,
   <<Mod(1, OneHit), Mod(9, OneHit)>>}

HeadlessFrames ==
  {Headless(lead, V1(ms)) : lead \in Leads, ms \in Followers} \cup
  {Headless(<<Header(5), Datum>>, V1(<<>>)), Headless(<<Header(5), Datum>>, V0(<<>>)),
   Headless(<<Datum>>, V0(<<OldMod(9, <<>>, <<>>)>>))}

AllFrames == MixedFrames \cup HeadlessFrames

\* A crate map without module 0, the id that mod_data has before a header.
CrateWithoutZero == [id \in DOMAIN MCCrate \ {0} |-> MCCrate[id]]

-----------------------------------------------------------------------------
(* What documentation and code say, and the reader does not do *)

(* "MDPP-01,0x0,16,MDPP_SCP" (read_crate_map's example of a crate map): a   *)
(* module may have the id 0, and the event then has its data.               *)
EveryModuleIsRead ==
  \A i \in DOMAIN events :
    Len(events[i].modules) = Len(SelectSeq(done[i].modules, LAMBDA m : m.hits # <<>>))
=============================================================================
