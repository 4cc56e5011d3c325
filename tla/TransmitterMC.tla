--------------------------- MODULE TransmitterMC ---------------------------
(***************************************************************************)
(* Instances of Transmitter for TLC: a crate with two stacks and six       *)
(* modules, whose words carry the cycle they were read in.                 *)
(***************************************************************************)
EXTENDS Transmitter

MCCrateMap ==
  1 :> "MDPP_SCP" @@ 2 :> "TGV" @@ 3 :> "VMMR" @@
  4 :> "MVLC_SCALER" @@ 5 :> "MVLC_SCALER" @@ 6 :> "MDPP_CSI"

Header(id) == [hi |-> 16384 + id, lo |-> 2]     \* 0x40id0002
Datum(n)   == [hi |-> 4096, lo |-> n]           \* 0x1000nnnn
Raw(n)     == [hi |-> 0, lo |-> n]
EoE(n)     == [hi |-> 49152, lo |-> n]          \* 0xc000nnnn

\* A module with data (and, from most modules, a fill word), one with only
\* a fill word between header and end of event, and one with nothing.
WithData(id, c) == <<Header(id), Datum(c), ZeroWord, EoE(c)>>
FillOnly(id, c) == <<Header(id), ZeroWord, EoE(c)>>
NoData(id, c)   == <<Header(id), EoE(c)>>
Tgv(c)          == <<Header(2), Raw(128), Raw(c), Raw(0), Raw(0), EoE(c)>>

Scalers(second, c) ==
  <<Header(4), Raw(c), Raw(0), Raw(0), Raw(0), EoE(0),
    Header(second), Raw(c), Raw(1), Raw(0), Raw(0), EoE(0)>>

\* Every kind of module.  Module 9 is in no crate map, so that the reader
\* throws at Scalers(9, _).
Varied(s) ==
  IF s.stack = 0
  THEN {<<WithData(1, s.cycle), Tgv(s.cycle)>>,
        <<NoData(1, s.cycle), WithData(9, s.cycle)>>}
  ELSE {<<FillOnly(3, s.cycle), Scalers(5, s.cycle)>>, <<Scalers(9, s.cycle)>>,
        <<WithData(6, s.cycle)>>, <<FillOnly(3, s.cycle)>>, <<NoData(3, s.cycle)>>}

VariedReadouts == [s \in ReadoutSlot |-> Varied(s)]

\* Every cycle has data, so every cycle has an event.
PlainReadouts ==
  [s \in ReadoutSlot |->
     IF s.stack = 0 THEN {<<Tgv(s.cycle), WithData(1, s.cycle)>>}
     ELSE {<<WithData(3, s.cycle)>>, <<NoData(3, s.cycle)>>}]

-----------------------------------------------------------------------------
(* What comments of the code say, and the code does not do *)

(* "true for known Mesytec modules (MDPP or VMMR)" (is_mesytec_module),     *)
(* whose fill words the reader drops: no fill word is published as data of  *)
(* a module whose firmware is one of the three of an MDPP, or VMMR.         *)
NoFillWordPublished ==
  \A i \in DOMAIN sent : \A md \in Range(sent[i].modules) :
    IsMdpp(CrateMap[md.module_id]) \/ is_vmmr_module(CrateMap[md.module_id])
      => ~ \E w \in Range(md.data) : is_fill_word(w)

(* "abandon buffer & try next one" (mesytec_receiver_mfm_transmitter.cpp,   *)
(* the catch clause): a cycle that is read out after a buffer was abandoned *)
(* is published.                                                            *)
NextOneIsTried ==
  \A c \in 1 .. MaxCycle :
    (abandoned = 1 /\ pc = "recv" /\ wire = <<>> /\ daq = [cycle |-> c, stack |-> 0])
      ~> (\E i \in DOMAIN sent : \E k \in DOMAIN sent[i].modules :
            sent[i].modules[k].origin.cycle = c)
=============================================================================
