----------------------------- MODULE WordMasks -----------------------------
(***************************************************************************)
(* The masks of lib/mesytec_module.h (namespace data_flags) as they stand  *)
(* in the code, and the tests and fields made with them.  MesytecWords and *)
(* FrameFormat say the same with quotients and remainders, which can be    *)
(* proved about; MasksAssumption compares the two on words of every top    *)
(* nibble, module, channel, flag and bus bit.                              *)
(***************************************************************************)
EXTENDS FrameFormat, Bitwise

\* A 32-bit constant or word, and what divides its upper half.
Bits(hi, lo) == [hi |-> hi, lo |-> lo]
Masked(w, m) == [hi |-> w.hi & m.hi, lo |-> w.lo & m.lo]
High(w, m, div) == (w.hi & m.hi) \div div

data_flags ==
  [header_found_mask  |-> Bits(\hF000, 0),     header_found  |-> Bits(\h4000, 0),
   mdpp_data_mask     |-> Bits(\hF000, 0),     mdpp_data     |-> Bits(\h1000, 0),
   extended_ts_mask   |-> Bits(\hF000, 0),     extended_ts   |-> Bits(\h2000, 0),
   vmmr_data_mask     |-> Bits(\hF000, 0),     vmmr_data_adc |-> Bits(\h1000, 0),
   vmmr_tdc_data_mask |-> Bits(\hF0FF, 0),     vmmr_data_tdc |-> Bits(\h2000, 0),
   eoe_found_mask     |-> Bits(\hC000, 0),     eoe_event_counter_mask |-> Bits(\h3FFF, \hFFFF),
   module_id_mask     |-> Bits(\h00FF, 0),     data_mask     |-> Bits(0, \hFFFF),
   vmmr_bus_mask      |-> Bits(\h0F00, 0),     vmmr_channel_mask |-> Bits(\h00FF, \hF000),
   vmmr_adc_mask      |-> Bits(0, \h0FFF),
   channel_mask       |-> (16 :> Bits(\h000F, 0) @@ 32 :> Bits(\h001F, 0)),
   channel_flag_mask  |-> (16 :> Bits(\h0030, 0) @@ 32 :> Bits(\h0060, 0)),
   channel_flag_div   |-> (16 :> \h10 @@ 32 :> \h20)]

Has(w, mask, value) == Masked(w, mask) = value

-----------------------------------------------------------------------------
TestsAgree(w) ==
  /\ is_module_header(w) <=> Has(w, data_flags.header_found_mask, data_flags.header_found)
  /\ is_end_of_event(w)  <=> Has(w, data_flags.eoe_found_mask, data_flags.eoe_found_mask)
  /\ is_mdpp_data(w)     <=> Has(w, data_flags.mdpp_data_mask, data_flags.mdpp_data)
  /\ is_extended_ts(w)   <=> Has(w, data_flags.extended_ts_mask, data_flags.extended_ts)
  /\ is_vmmr_adc_data(w) <=> Has(w, data_flags.vmmr_data_mask, data_flags.vmmr_data_adc)
  /\ is_vmmr_tdc_data(w) <=> Has(w, data_flags.vmmr_tdc_data_mask, data_flags.vmmr_data_tdc)

CounterMasked(w) == Masked(w, data_flags.eoe_event_counter_mask)

FieldsAgree(w) ==
  /\ module_id(w) = High(w, data_flags.module_id_mask, 1)
  /\ event_counter(w) = CounterMasked(w).hi * \h10000 + CounterMasked(w).lo

MdppAgrees(w, nchan) ==
  LET mod == [firmware |-> "MDPP_SCP", nchan |-> nchan]
  IN  /\ get_channel_number(mod, w) = High(w, data_flags.channel_mask[nchan], 1)
      /\ channel_flags(mod, w) =
           High(w, data_flags.channel_flag_mask[nchan], data_flags.channel_flag_div[nchan])
      /\ get_channel_data(mod, w) = Masked(w, data_flags.data_mask).lo

VmmrAgrees(w) ==
  LET mod     == [firmware |-> "VMMR", nchan |-> 16]
      channel == Masked(w, data_flags.vmmr_channel_mask)
  IN  /\ get_bus_number(mod, w) = High(w, data_flags.vmmr_bus_mask, \h100)
      /\ is_vmmr_adc_data(w) =>
           /\ get_channel_number(mod, w) = (channel.hi * 16 + channel.lo \div \h1000) & \hFF
           /\ get_channel_data(mod, w) = Masked(w, data_flags.vmmr_adc_mask).lo

SampleWords ==
  [hi : {a * \h1000 + b * \h100 + c * \h10 + d :
           a \in 0 .. 15, b \in {0, 6, 15}, c \in {0, 1, 2, 4, 7, 8, 15}, d \in {0, 9, 15}},
   lo : {0, \hA5C3, \hFFFF}]

ASSUME MasksAssumption ==
  \A w \in SampleWords :
    /\ TestsAgree(w) /\ FieldsAgree(w)
    /\ MdppAgrees(w, 16) /\ MdppAgrees(w, 32)
    /\ VmmrAgrees(w)
=============================================================================
