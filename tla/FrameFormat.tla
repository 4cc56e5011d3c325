---------------------------- MODULE FrameFormat ----------------------------
(***************************************************************************)
(* What is in the blob of an MFM frame, and what mesytec::module makes of  *)
(* a data word (lib/mesytec_module.h).                                     *)
(*                                                                         *)
(* HitWord is the modules' own data format: it stands for the electronics, *)
(* and the operators named after methods of mesytec::module are its        *)
(* inverse in the code.                                                    *)
(***************************************************************************)
EXTENDS MesytecData

CONSTANT Crate      \* crate_map.dat: module ids -> [firmware, nchan]

-----------------------------------------------------------------------------
(* The words modules send *)

DataType == {"ADC", "TDC", "QDC_long", "QDC_short", "Trigger_time"}

\* The two flag bits an MDPP sends for a type.
Flags(type) == CASE type \in {"ADC", "QDC_long"} -> 0
                 [] type = "TDC"                 -> 1
                 [] type = "Trigger_time"        -> 2
                 [] type = "QDC_short"           -> 3

\* A hit is [type, bus, channel, data, pileup]; a module also sends words that
\* are no hits: fill words, extended timestamps, and (TGV, scalers) raw words.
HitWord(mod, h) ==
  CASE h.type = "fill"   -> ZeroWord
    [] h.type = "raw"    -> [hi |-> 0, lo |-> h.data]
    [] h.type = "ext_ts" -> [hi |-> 8192, lo |-> h.data]
    [] h.type \in DataType /\ IsMdpp(mod.firmware) ->
         [hi |-> 4096 + h.pileup * 4 * mod.nchan + Flags(h.type) * mod.nchan + h.channel,
          lo |-> h.data]
    [] h.type = "ADC" /\ mod.firmware = "VMMR" ->
         [hi |-> 4096 + h.bus * 256 + h.channel \div 16,
          lo |-> (h.channel % 16) * 4096 + h.data]
    [] h.type = "TDC" /\ mod.firmware = "VMMR" ->
         [hi |-> 8192 + h.bus * 256, lo |-> h.data]

\* n is one of the first k numbers.
Below(n, k) == n \in Nat /\ n < k

\* The hits an MDPP of 16 or 32 channels, or a VMMR, can send.
IsMdppHit(mod, h) ==
  /\ IsMdpp(mod.firmware) /\ mod.nchan \in {16, 32}
  /\ Below(h.channel, mod.nchan) /\ h.bus = 0
  /\ h.data \in Half /\ Below(h.pileup, 2)
  /\ h.type \in IF mod.firmware = "MDPP_QDC"
                THEN {"QDC_long", "QDC_short", "TDC", "Trigger_time"}
                ELSE {"ADC", "TDC", "Trigger_time"}

IsVmmrHit(mod, h) ==
  /\ mod.firmware = "VMMR"
  /\ Below(h.bus, 16) /\ h.data \in Half
  /\ \/ h.type = "ADC" /\ Below(h.channel, 256) /\ Below(h.data, 4096)
     \/ h.type = "TDC" /\ h.channel = 0

-----------------------------------------------------------------------------
(* module's methods for the data word set last *)

is_mdpp_data(w)     == TopNibble(w) = 1
is_vmmr_adc_data(w) == TopNibble(w) = 1
is_vmmr_tdc_data(w) == TopNibble(w) = 2 /\ w.hi % 256 = 0
is_vmmr_data(w)     == is_vmmr_adc_data(w) \/ is_vmmr_tdc_data(w)
is_extended_ts(w)   == TopNibble(w) = 2

\* The constructor gives masks and divisors to MDPPs and VMMRs alone.
HasMasks(mod) == IsMdpp(mod.firmware) \/ mod.firmware = "VMMR"

\* nchan is 16 or 32: the masks and divisors the constructor chooses.
channel_flags(mod, w) == (w.hi \div mod.nchan) % 4

\* The 12 bits of a VMMR's channel are returned as a uint8_t.
get_channel_number(mod, w) ==
  IF mod.firmware = "VMMR"
  THEN IF is_vmmr_adc_data(w) THEN ((w.hi % 256) * 16 + w.lo \div 4096) % 256 ELSE 0
  ELSE w.hi % mod.nchan

get_bus_number(mod, w) ==
  IF mod.firmware = "VMMR" THEN (w.hi \div 256) % 16 ELSE 0

get_channel_data(mod, w) ==
  IF mod.firmware = "VMMR" /\ is_vmmr_adc_data(w) THEN w.lo % 4096 ELSE w.lo

get_data_type(mod, w) ==
  IF mod.firmware = "VMMR" THEN IF is_vmmr_adc_data(w) THEN "ADC" ELSE "TDC"
  ELSE CASE channel_flags(mod, w) = 0 ->
              IF mod.firmware = "MDPP_QDC" THEN "QDC_long" ELSE "ADC"
         [] channel_flags(mod, w) = 1 -> "TDC"
         [] channel_flags(mod, w) = 2 -> "Trigger_time"
         [] channel_flags(mod, w) = 3 -> "QDC_short"

-----------------------------------------------------------------------------
(* What is sent: [revision, modules], a module being [header, hits, marker]. *)

Words(m) ==
  LET mod == Crate[module_id(m.header)]
  IN  [i \in DOMAIN m.hits |->
         HitWord(IF module_id(m.header) \in DOMAIN Crate THEN mod
                 ELSE [firmware |-> "MDPP_SCP", nchan |-> 16], m.hits[i])]

\* Revision 1 is what the transmitter publishes: event::get_output_buffer.
OutputBuffer(f) ==
  get_output_buffer([modules |-> [i \in DOMAIN f.modules |->
    [header_word |-> f.modules[i].header, data |-> Words(f.modules[i])]]])

\* Revision 0 has every module, each followed by the words that ended it.
OldBuffer(f) ==
  FlattenSeq([i \in DOMAIN f.modules |->
    <<f.modules[i].header>> \o Words(f.modules[i]) \o f.modules[i].marker])

Blob(f) == IF f.revision = 0 THEN OldBuffer(f) ELSE OutputBuffer(f)

-----------------------------------------------------------------------------
(* The frames buffer_reader is made for *)

SentHit == [type : DataType \cup {"fill", "raw", "ext_ts"}, bus : Nat, channel : Nat,
            data : Half, pileup : Nat]
SentModule == [header : {w \in Word : is_module_header(w)}, hits : Seq(SentHit),
               marker : Seq(Word)]

\* A module of the crate in a frame of revision 1: it has not the id 0, which
\* the reader takes for none, and sends no extended timestamp.
NewModule(m) ==
  m.hits # <<>> =>
    /\ module_id(m.header) # 0
    /\ LET mod == Crate[module_id(m.header)]
       IN  \A k \in DOMAIN m.hits :
             \/ m.hits[k].type = "raw"
             \/ ~is_mvlc_scaler(mod.firmware) /\ m.hits[k].type = "fill"
             \/ IsMdppHit(mod, m.hits[k]) \/ IsVmmrHit(mod, m.hits[k])

\* In a frame of revision 0, which knows no VMMR, markers end each module.
OldModule(m) ==
  /\ m.marker # <<>>
  /\ \A k \in DOMAIN m.marker : is_end_of_event(m.marker[k]) \/ is_frame_header(m.marker[k])
  /\ \A k \in DOMAIN m.hits :
       \/ m.hits[k].type \in {"fill", "raw", "ext_ts"}
       \/ IsMdppHit(Crate[module_id(m.header)], m.hits[k])

WellFormed(f) ==
  /\ f.modules \in Seq(SentModule) /\ f.blob = Blob(f)
  /\ \A i \in DOMAIN f.modules :
       module_id(f.modules[i].header) \in DOMAIN Crate =>
         /\ f.revision = 0 => OldModule(f.modules[i])
         /\ f.revision = 1 => NewModule(f.modules[i])
=============================================================================
