---------------------------- MODULE AcquisitionMC ----------------------------
(***************************************************************************)
(* An instance of Acquisition for TLC: two cycles of a crate with two      *)
(* stacks and a module of every kind; module 9 is in no crate map.         *)
(***************************************************************************)
EXTENDS Acquisition

MCCrate ==
  1 :> [firmware |-> "MDPP_SCP", nchan |-> 32] @@
  2 :> [firmware |-> "TGV", nchan |-> 0] @@
  3 :> [firmware |-> "VMMR", nchan |-> 16] @@
  4 :> [firmware |-> "MVLC_SCALER", nchan |-> 0] @@
  5 :> [firmware |-> "MVLC_SCALER", nchan |-> 0] @@
  6 :> [firmware |-> "MDPP_CSI", nchan |-> 16] @@
  7 :> [firmware |-> "MDPP_QDC", nchan |-> 16]

MCCrateMap == [id \in DOMAIN MCCrate |-> MCCrate[id].firmware]

Hit(type, bus, channel, data) ==
  [type |-> type, bus |-> bus, channel |-> channel, data |-> data, pileup |-> 0]
Pileup(h) == [h EXCEPT !.pileup = 1]
Raw(n) == Hit("raw", 0, 0, n)
Fill == Hit("fill", 0, 0, 0)

Block(id, hits) == [header |-> [hi |-> 16384 + id, lo |-> Len(hits) + 1], hits |-> hits]
One(id, hits) == <<Block(id, hits)>>

Scp(c)     == One(1, <<Pileup(Hit("ADC", 0, 31, c)), Fill>>)
Qdc(c)     == One(7, <<Hit("QDC_short", 0, 15, c)>>)
Tgv(c)     == One(2, <<Raw(128), Raw(c), Raw(0), Raw(0)>>)
Vmmr(c)    == One(3, <<Hit("ADC", 15, 127, c), Hit("TDC", 7, 0, c)>>)
Csi(c)     == One(6, <<Fill, Hit("Trigger_time", 0, 3, c)>>)
Unknown(c) == One(9, <<Hit("ADC", 0, 1, c)>>)
Scalers(c) == <<Block(4, <<Raw(16384), Raw(c), Raw(0), Raw(1)>>),
                Block(5, <<Raw(0), Raw(c), Raw(4096), Raw(0)>>)>>
OnlyFill(id) == One(id, <<Fill>>)
Nothing(id)  == One(id, <<>>)

\* Module 1 is never empty, so that each cycle has an event.
MCHits ==
  [s \in ReadoutSlot |->
     IF s.stack = 0
     THEN {<<Tgv(s.cycle), Scp(s.cycle)>>, <<Nothing(3), Unknown(s.cycle), Scp(s.cycle)>>}
     ELSE {<<Vmmr(s.cycle), Csi(s.cycle)>>, <<Scalers(s.cycle), OnlyFill(3)>>,
           <<OnlyFill(6), Qdc(s.cycle)>>}]

MCReadouts == [s \in ReadoutSlot |-> {ReadoutOf(ms) : ms \in MCHits[s]}]

\* What the theorem about HitsReachAnalysis supposes of the hits.
ASSUME HitsWellFormed
=============================================================================
