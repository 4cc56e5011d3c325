------------------------- MODULE BufferReaderProofs -------------------------
(***************************************************************************)
(* Theorems about BufferReader, for every crate, all frames and any number *)
(* of them: its types, what makes it go through current_module before that *)
(* is set, that data are filed under the module they are decoded with, and *)
(* that it implements FrameDecoder; and about FrameFormat: module's        *)
(* methods give back the hit a data word was made of.                      *)
(*                                                                         *)
(* Ranges are inequalities here: the provers write out every number of an  *)
(* interval.                                                               *)
(***************************************************************************)
EXTENDS BufferReader, SequenceLemmas

-----------------------------------------------------------------------------
(* Words *)

LEMMA BelowInterval ==
  ASSUME NEW k \in Int, NEW n
  PROVE  n \in 0 .. k <=> Below(n, k + 1)
BY SMT DEF Below

LEMMA HalfBelow == ASSUME NEW n PROVE n \in Half <=> Below(n, 65536)
<1> DEFINE k == 65535
<1>1. k \in Int /\ k + 1 = 65536
  BY SMT
<1>2. Half = 0 .. k
  BY DEF Half
<1> HIDE DEF k
<1> QED
  BY <1>1, <1>2, BelowInterval, SMT

LEMMA ModuleIdBelow == ASSUME NEW n PROVE n \in ModuleId <=> Below(n, 256)
<1> DEFINE k == 255
<1>1. k \in Int /\ k + 1 = 256
  BY SMT
<1>2. ModuleId = 0 .. k
  BY DEF ModuleId
<1> HIDE DEF k
<1> QED
  BY <1>1, <1>2, BelowInterval, SMT

LEMMA WordFields ==
  ASSUME NEW w \in Word
  PROVE  module_id(w) \in ModuleId /\ event_counter(w) \in Nat
<1> DEFINE m == w.hi
           n == w.lo
<1>1. m \in Half /\ n \in Half
  BY DEF Word
<1>2. module_id(w) = m % 256 /\ event_counter(w) = (m % 16384) * 65536 + n
  BY SMT DEF module_id, event_counter
<1> HIDE DEF m, n
<1>3. m \in Nat /\ n \in Nat
  BY <1>1, HalfBelow, SMT DEF Below
<1>4. Below(m % 256, 256)
  BY <1>3, SMT DEF Below
<1>5. (m % 16384) * 65536 + n \in Nat
  <2> DEFINE q == m % 16384
  <2>1. q \in Nat
    BY <1>3, SMT
  <2> HIDE DEF q
  <2>2. q * 65536 + n \in Nat
    BY <1>3, <2>1, SMT
  <2> QED
    BY <2>2, SMT DEF q
<1> QED
  BY <1>2, <1>4, <1>5, ModuleIdBelow, SMT

LEMMA HeadAndTail ==
  ASSUME NEW S, NEW s \in Seq(S), s # <<>>
  PROVE  Head(s) \in S /\ Tail(s) \in Seq(S) /\ Head(s) = s[1]
BY HeadTailProperties

\* No module's id is the value of an uninitialised current_module.
LEMMA NotNoModule ==
  ASSUME NEW id \in DOMAIN Crate
  PROVE  id # NoModule /\ id \in ModuleId
<1>1. id \in ModuleId
  BY CrateAssumption
<1>2. id \in Nat
  BY <1>1, ModuleIdBelow, SMT DEF Below
<1> QED
  BY <1>1, <1>2, SMT DEF NoModule

-----------------------------------------------------------------------------
(* module's methods and the hits of the electronics *)

\* What an analysis is told of the word.
GivesBack(mod, w, h) ==
  /\ get_data_type(mod, w) = h.type
  /\ get_bus_number(mod, w) = h.bus
  /\ get_channel_number(mod, w) = h.channel
  /\ get_channel_data(mod, w) = h.data

\* The high half of a word that an MDPP of n channels sends: p the pileup
\* flag, f the flags of the type, c the channel.
MdppHigh(n, p, f, c) == 4096 + p * 4 * n + f * n + c

LEMMA MdppFields ==
  ASSUME NEW n \in {16, 32}, NEW p \in Nat, p < 2, NEW f \in Nat, f < 4,
         NEW c \in Nat, c < n,
         NEW hi, hi = MdppHigh(n, p, f, c)
  PROVE  /\ hi \in Half /\ hi \div 4096 = 1
         /\ hi % n = c /\ (hi \div n) % 4 = f
<1>1. CASE n = 16
  <2>1. c < 16 /\ hi = 4096 + p * 4 * 16 + f * 16 + c
    BY <1>1, SMT DEF MdppHigh
  <2>2. Below(hi, 65536)
    BY <2>1, SMT DEF Below
  <2>3. hi \div 4096 = 1
    BY <2>1, SMT
  <2>4. hi % 16 = c
    BY <2>1, SMT
  <2>5. (hi \div 16) % 4 = f
    BY <2>1, SMT
  <2> QED
    BY ONLY <1>1, <2>2, <2>3, <2>4, <2>5, HalfBelow, SMT
<1>2. CASE n = 32
  <2>1. c < 32 /\ hi = 4096 + p * 4 * 32 + f * 32 + c
    BY <1>2, SMT DEF MdppHigh
  <2>2. Below(hi, 65536)
    BY <2>1, SMT DEF Below
  <2>3. hi \div 4096 = 1
    BY <2>1, SMT
  <2>4. hi % 32 = c
    BY <2>1, SMT
  <2>5. (hi \div 32) % 4 = f
    BY <2>1, SMT
  <2> QED
    BY ONLY <1>2, <2>2, <2>3, <2>4, <2>5, HalfBelow, SMT
<1> QED
  BY <1>1, <1>2

(* The methods get_data_type, get_bus_number, get_channel_number and        *)
(* get_channel_data of mesytec::module give back the hit a word of an MDPP  *)
(* was made of, whatever the pileup flag: for 16 and for 32 channels the    *)
(* masks the constructor chooses cut out the right bits.                    *)
THEOREM MdppHitRead ==
  ASSUME NEW mod, NEW h, IsMdppHit(mod, h)
  PROVE  LET w == HitWord(mod, h)
         IN  w \in Word /\ is_mdpp_data(w) /\ GivesBack(mod, w, h)
<1> DEFINE w == HitWord(mod, h)
           f == Flags(h.type)
           hi == w.hi
           n == mod.nchan
           c == h.channel
           p == h.pileup
<1>1. n \in {16, 32} /\ Below(c, n) /\ Below(p, 2) /\ h.data \in Half /\ h.bus = 0
  BY DEF IsMdppHit
<1>2. mod.firmware # "VMMR" /\ IsMdpp(mod.firmware)
  BY DEF IsMdppHit, IsMdpp
<1>3. h.type \in DataType /\ h.type \notin {"fill", "raw", "ext_ts"}
  BY DEF IsMdppHit, DataType
<1>4. Below(f, 4)
  <2>1. f \in {0, 1, 2, 3}
    BY <1>3 DEF Flags, DataType
  <2> HIDE DEF f
  <2> QED
    BY <2>1, SMT DEF Below
<1>5. w = [hi |-> 4096 + p * 4 * n + f * n + c, lo |-> h.data]
  BY <1>2, <1>3, SMT DEF HitWord
<1>6. hi = MdppHigh(n, p, f, c) /\ w.lo = h.data
  BY <1>5, SMT DEF MdppHigh
<1>7. w = [hi |-> hi, lo |-> h.data]
  BY <1>5, <1>6, SMT
<1> HIDE DEF w, f, hi, n, c, p
<1>8. /\ hi \in Half /\ hi \div 4096 = 1
      /\ hi % n = c /\ (hi \div n) % 4 = f
  BY <1>1, <1>4, <1>6, MdppFields, SMT DEF Below
<1>9. w \in Word
  BY <1>1, <1>7, <1>8 DEF Word
<1>10. is_mdpp_data(w)
  BY <1>8, SMT DEF is_mdpp_data, TopNibble, hi
<1>11. channel_flags(mod, w) = f
  BY <1>8, SMT DEF channel_flags, hi, n
<1>12. get_data_type(mod, w) = h.type
  <2>1. CASE mod.firmware = "MDPP_QDC"
    <3>1. h.type \in {"QDC_long", "QDC_short", "TDC", "Trigger_time"}
      BY <2>1 DEF IsMdppHit
    <3> QED
      BY <1>2, <1>11, <2>1, <3>1, SMT DEF get_data_type, f, Flags
  <2>2. CASE mod.firmware # "MDPP_QDC"
    <3>1. h.type \in {"ADC", "TDC", "Trigger_time"}
      BY <2>2 DEF IsMdppHit
    <3> QED
      BY <1>2, <1>11, <2>2, <3>1, SMT DEF get_data_type, f, Flags
  <2> QED
    BY <2>1, <2>2
<1>13. get_channel_number(mod, w) = h.channel
  BY <1>2, <1>8, SMT DEF get_channel_number, hi, n, c
<1>14. get_bus_number(mod, w) = h.bus /\ get_channel_data(mod, w) = h.data
  BY <1>1, <1>2, <1>6, SMT DEF get_bus_number, get_channel_data
<1>15. GivesBack(mod, w, h)
  BY <1>12, <1>13, <1>14 DEF GivesBack
<1> QED
  BY <1>9, <1>10, <1>15 DEF w

\* The halves of a word that a VMMR sends: bus b, channel c, amplitude d.
VmmrHigh(b, c) == 4096 + b * 256 + c \div 16
VmmrLow(c, d) == (c % 16) * 4096 + d

LEMMA VmmrAdcFields ==
  ASSUME NEW b \in Nat, b < 16, NEW c \in Nat, c < 256, NEW d \in Nat, d < 4096,
         NEW hi, hi = VmmrHigh(b, c), NEW lo, lo = VmmrLow(c, d)
  PROVE  /\ hi \in Half /\ lo \in Half /\ hi \div 4096 = 1
         /\ (hi \div 256) % 16 = b
         /\ ((hi % 256) * 16 + lo \div 4096) % 256 = c
         /\ lo % 4096 = d
<1> DEFINE q == c \div 16
           r == c % 16
<1>1. q \in Nat /\ q < 16 /\ r \in Nat /\ r < 16
  BY SMT
<1>2. (q * 16 + r) % 256 = c
  BY SMT
<1>3. hi = 4096 + b * 256 + q /\ lo = r * 4096 + d
  BY SMT DEF VmmrHigh, VmmrLow
<1> HIDE DEF q, r
<1>4. Below(hi, 65536) /\ Below(lo, 65536)
  BY <1>1, <1>3, SMT DEF Below
<1>5. hi \div 4096 = 1
  BY <1>1, <1>3, SMT
<1>6. hi % 256 = q
  BY <1>1, <1>3, SMT
<1>7. (hi \div 256) % 16 = b
  BY <1>1, <1>3, SMT
<1>8. lo \div 4096 = r
  BY <1>1, <1>3, SMT
<1>9. lo % 4096 = d
  BY <1>1, <1>3, SMT
<1>10. ((hi % 256) * 16 + lo \div 4096) % 256 = c
  BY ONLY <1>2, <1>6, <1>8, SMT
<1> QED
  BY ONLY <1>4, <1>5, <1>7, <1>9, <1>10, HalfBelow, SMT

LEMMA VmmrTdcFields ==
  ASSUME NEW b \in Nat, b < 16, NEW hi, hi = 8192 + b * 256
  PROVE  /\ hi \in Half /\ hi \div 4096 = 2 /\ hi % 256 = 0
         /\ (hi \div 256) % 16 = b
<1>1. Below(hi, 65536)
  BY SMT DEF Below
<1>2. hi \div 4096 = 2
  BY SMT
<1>3. hi % 256 = 0
  BY SMT
<1>4. (hi \div 256) % 16 = b
  BY SMT
<1> QED
  BY ONLY <1>1, <1>2, <1>3, <1>4, HalfBelow, SMT

(* So do they for the words of a VMMR, for channels a uint8_t can hold: the *)
(* method returns a channel of 12 bits as one of 8.                         *)
THEOREM VmmrHitRead ==
  ASSUME NEW mod, NEW h, IsVmmrHit(mod, h)
  PROVE  LET w == HitWord(mod, h)
         IN  w \in Word /\ is_vmmr_data(w) /\ GivesBack(mod, w, h)
<1> DEFINE w == HitWord(mod, h)
           hi == w.hi
           lo == w.lo
           b == h.bus
           c == h.channel
           d == h.data
<1>1. mod.firmware = "VMMR" /\ ~IsMdpp(mod.firmware) /\ Below(b, 16) /\ d \in Half
  BY DEF IsVmmrHit, IsMdpp
<1>2. CASE h.type = "ADC" /\ Below(c, 256) /\ Below(d, 4096)
  <2>1. w = [hi |-> 4096 + b * 256 + c \div 16, lo |-> (c % 16) * 4096 + d]
    BY <1>1, <1>2, SMT DEF HitWord
  <2>2. hi = VmmrHigh(b, c) /\ lo = VmmrLow(c, d)
    BY <2>1, SMT DEF VmmrHigh, VmmrLow
  <2>3. w = [hi |-> hi, lo |-> lo]
    BY <2>1, <2>2, SMT
  <2> HIDE DEF w, hi, lo, b, c, d
  <2>4. /\ hi \in Half /\ lo \in Half /\ hi \div 4096 = 1
        /\ (hi \div 256) % 16 = b
        /\ ((hi % 256) * 16 + lo \div 4096) % 256 = c
        /\ lo % 4096 = d
    BY <1>1, <1>2, <2>2, VmmrAdcFields, SMT DEF Below
  <2>5. is_vmmr_adc_data(w)
    BY <2>4, SMT DEF is_vmmr_adc_data, TopNibble, hi
  <2>6. get_data_type(mod, w) = h.type
    BY <1>1, <1>2, <2>5, SMT DEF get_data_type
  <2>7. get_bus_number(mod, w) = h.bus
    BY <1>1, <2>4, SMT DEF get_bus_number, hi, b
  <2>8. get_channel_number(mod, w) = h.channel
    BY <1>1, <2>4, <2>5, SMT DEF get_channel_number, hi, lo, c
  <2>9. get_channel_data(mod, w) = h.data
    BY <1>1, <2>4, <2>5, SMT DEF get_channel_data, lo, d
  <2>10. w \in Word
    BY <2>3, <2>4 DEF Word
  <2> QED
    BY <2>5, <2>6, <2>7, <2>8, <2>9, <2>10 DEF w, is_vmmr_data, GivesBack
<1>3. CASE h.type = "TDC" /\ c = 0
  <2>1. w = [hi |-> 8192 + b * 256, lo |-> d]
    BY <1>1, <1>3, SMT DEF HitWord
  <2>2. hi = 8192 + b * 256 /\ lo = d
    BY <2>1, SMT
  <2>3. w = [hi |-> hi, lo |-> lo]
    BY <2>1, <2>2, SMT
  <2> HIDE DEF w, hi, lo, b, c, d
  <2>4. /\ hi \in Half /\ hi \div 4096 = 2 /\ hi % 256 = 0
        /\ (hi \div 256) % 16 = b
    BY <1>1, <2>2, VmmrTdcFields, SMT DEF Below
  <2>5. is_vmmr_tdc_data(w) /\ ~is_vmmr_adc_data(w)
    BY <2>4, SMT DEF is_vmmr_adc_data, is_vmmr_tdc_data, TopNibble, hi
  <2>6. get_data_type(mod, w) = h.type
    BY <1>1, <1>3, <2>5, SMT DEF get_data_type
  <2>7. get_bus_number(mod, w) = h.bus
    BY <1>1, <2>4, SMT DEF get_bus_number, hi, b
  <2>8. get_channel_number(mod, w) = h.channel
    BY <1>1, <1>3, <2>5, SMT DEF get_channel_number, c
  <2>9. get_channel_data(mod, w) = h.data
    BY <1>1, <2>2, <2>5, SMT DEF get_channel_data, lo, d
  <2>10. w \in Word
    BY <1>1, <2>2, <2>3, <2>4, SMT DEF Word
  <2> QED
    BY <2>5, <2>6, <2>7, <2>8, <2>9, <2>10 DEF w, is_vmmr_data, GivesBack
<1> QED
  BY <1>2, <1>3 DEF IsVmmrHit

-----------------------------------------------------------------------------
(* The inductive invariant *)

\* mod_data and mesy_event are records with just these fields.
IsModData(md) == md \in [module_id : {md.module_id}, header_word : {md.header_word},
                         event_counter : {md.event_counter}, data : {md.data}]
IsEvent(ev) == ev \in [modules : {ev.modules}, event_counter : {ev.event_counter}]

ModDataOK(md) ==
  IsModData(md) /\ md.module_id \in ModuleId /\ md.header_word \in Word
  /\ md.event_counter \in Nat
EventOK(ev) == IsEvent(ev) /\ ev.event_counter \in Nat

Types ==
  /\ TypeOK
  /\ IsModData(mod_data) /\ IsEvent(mesy_event)
  /\ pc # "idle" => frame \in Frames

\* v1 has read n words of the frame, and the header read last, if there was
\* one, was the word h: it named current_module.
At(n, h) ==
  /\ n \in Nat /\ h \in Nat /\ h <= n
  /\ Len(words) + n = Len(frame.blob)
  /\ \A i \in DOMAIN words : words[i] = frame.blob[i + n]
  /\ \A j \in 1 .. n : h < j => ~ is_module_header(frame.blob[j])
  /\ h = 0 => current_module = NoModule
  /\ h > 0 => is_module_header(frame.blob[h]) /\ current_module = module_id(frame.blob[h])

Position == pc = "v1" => \E n, h : At(n, h)

IInv == Types /\ Position /\ DataFiledRight

LEMMA ClearedOK == ModDataOK(Cleared) /\ Cleared.data = <<>>
<1>1. 0 \in Half /\ 0 \in ModuleId
  BY HalfBelow, ModuleIdBelow, SMT DEF Below
<1>2. ZeroWord \in Word
  BY <1>1 DEF ZeroWord, Word
<1>3. /\ Cleared.module_id = 0 /\ Cleared.header_word = ZeroWord
      /\ Cleared.event_counter = 0 /\ Cleared.data = <<>> /\ IsModData(Cleared)
  BY SMT DEF Cleared, IsModData
<1> QED
  BY <1>1, <1>2, <1>3, SMT DEF ModDataOK

LEMMA SetHeader ==
  ASSUME NEW w \in Word
  PROVE  /\ ModDataOK(set_header(w))
         /\ set_header(w).module_id = module_id(w) /\ set_header(w).header_word = w
<1> DEFINE id == module_id(w)
           m == [Cleared EXCEPT !.module_id = id]
           n == [m EXCEPT !.header_word = w]
<1>1. set_header(w) = n
  BY DEF set_header
<1> HIDE DEF id
<1>2. m.module_id = id /\ m.event_counter = 0 /\ IsModData(m)
  BY SMT DEF Cleared, IsModData
<1> HIDE DEF m
<1>3. n.module_id = id /\ n.header_word = w /\ n.event_counter = 0 /\ IsModData(n)
  BY <1>2, SMT DEF IsModData
<1> HIDE DEF n
<1>4. ModDataOK(n)
  BY <1>3, WordFields, SMT DEF ModDataOK, id
<1> QED
  BY <1>1, <1>3, <1>4, Zenon DEF id

\* add, and what std::move leaves behind, change the data only.
LEMMA DataOnlyChanges ==
  ASSUME NEW md, ModDataOK(md), NEW d
  PROVE  LET n == [md EXCEPT !.data = d]
         IN  ModDataOK(n) /\ n.module_id = md.module_id /\ n.header_word = md.header_word
<1> DEFINE n == [md EXCEPT !.data = d]
<1>1. /\ n.module_id = md.module_id /\ n.header_word = md.header_word
      /\ n.event_counter = md.event_counter /\ IsModData(n)
  BY SMT DEF ModDataOK, IsModData
<1> QED
  BY <1>1 DEF ModDataOK

LEMMA CounterSet ==
  ASSUME NEW md, ModDataOK(md), NEW c \in Nat
  PROVE  LET n == [md EXCEPT !.event_counter = c]
         IN  ModDataOK(n) /\ n.event_counter = c
<1> DEFINE n == [md EXCEPT !.event_counter = c]
<1>1. /\ n.module_id = md.module_id /\ n.header_word = md.header_word
      /\ n.event_counter = c /\ IsModData(n)
  BY SMT DEF ModDataOK, IsModData
<1> QED
  BY <1>1 DEF ModDataOK

LEMMA AddedOK ==
  ASSUME NEW ev, EventOK(ev), NEW md
  PROVE  EventOK(Added(ev, md))
<1>1. Added(ev, md).event_counter = ev.event_counter /\ IsEvent(Added(ev, md))
  BY SMT DEF EventOK, IsEvent, Added
<1> QED
  BY <1>1 DEF EventOK

LEMMA EventCounterSet ==
  ASSUME NEW ev, EventOK(ev), NEW c \in Nat
  PROVE  EventOK([ev EXCEPT !.event_counter = c])
<1> DEFINE n == [ev EXCEPT !.event_counter = c]
<1>1. n.event_counter = c /\ IsEvent(n)
  BY SMT DEF EventOK, IsEvent
<1> QED
  BY <1>1 DEF EventOK

\* The types, in parts that an action disturbs or leaves alone.
LEMMA TypesParts ==
  Types <=> /\ pc \in {"idle", "v0", "v1", "undefined"} /\ words \in Seq(Word)
            /\ EventOK(mesy_event) /\ ModDataOK(mod_data)
            /\ current_module \in DOMAIN Crate \cup {NoModule}
            /\ got_header \in BOOLEAN /\ reading_data \in BOOLEAN
            /\ reading_mvlc_scaler \in BOOLEAN
            /\ done \in Seq(Frames)
            /\ (pc # "idle" => frame \in Frames)
BY Zenon DEF Types, TypeOK, EventOK, ModDataOK

LEMMA TypesPartsPrimed ==
  Types' <=> /\ pc' \in {"idle", "v0", "v1", "undefined"} /\ words' \in Seq(Word)
             /\ EventOK(mesy_event') /\ ModDataOK(mod_data')
             /\ current_module' \in DOMAIN Crate \cup {NoModule}
             /\ got_header' \in BOOLEAN /\ reading_data' \in BOOLEAN
             /\ reading_mvlc_scaler' \in BOOLEAN
             /\ done' \in Seq(Frames)
             /\ (pc' # "idle" => frame' \in Frames)
BY Zenon DEF Types, TypeOK, EventOK, ModDataOK, IsModData, IsEvent

LEMMA InitIInv == Init => IInv
<1> SUFFICES ASSUME Init PROVE IInv
  OBVIOUS
<1>1. EventOK(mesy_event)
  BY SMT DEF Init, EventOK, IsEvent
<1>2. /\ pc = "idle" /\ words = <<>> /\ mod_data = Cleared /\ current_module = NoModule
      /\ got_header \in BOOLEAN /\ reading_data \in BOOLEAN
      /\ reading_mvlc_scaler \in BOOLEAN /\ done = <<>>
  BY DEF Init
<1>3. Types
  <2>1. words \in Seq(Word) /\ done \in Seq(Frames)
    BY <1>2, SMT
  <2> QED
    BY <1>1, <1>2, <2>1, ClearedOK, TypesParts, Zenon
<1>4. Position /\ DataFiledRight
  BY <1>2 DEF Position, DataFiledRight
<1> QED
  BY <1>3, <1>4 DEF IInv

-----------------------------------------------------------------------------
(* The actions *)

LEMMA FrameBlob ==
  ASSUME NEW f \in Frames
  PROVE  f.blob \in Seq(Word)
BY FramesAssumption

LEMMA NextWordOK ==
  ASSUME Types, words # <<>>
  PROVE  next_word \in Word /\ Tail(words) \in Seq(Word) /\ next_word = words[1]
<1>1. words \in Seq(Word)
  BY TypesParts
<1> QED
  BY <1>1, HeadAndTail DEF next_word

\* The begin of a frame of revision 0 or 1.
LEMMA BeginFrame ==
  ASSUME IInv, NEW f \in Frames, ReadV0(f) \/ ReadV1(f)
  PROVE  IInv'
<1>1. Types
  BY DEF IInv
<1>2. words' \in Seq(Word) /\ frame' \in Frames
  BY FrameBlob DEF ReadV0, ReadV1, Begin
<1>3. EventOK(mesy_event')
  <2>1. PICK n \in Indeterminate : mesy_event' = [modules |-> <<>>, event_counter |-> n]
    BY DEF ReadV0, ReadV1, Fresh
  <2>2. n \in Nat
    BY FramesAssumption
  <2> QED
    BY <2>1, <2>2, SMT DEF EventOK, IsEvent
<1>4. CASE ReadV0(f)
  <2>1. /\ pc' = "v0" /\ mod_data' = mod_data /\ current_module' = current_module
        /\ got_header' = got_header /\ reading_data' = reading_data
        /\ reading_mvlc_scaler' = reading_mvlc_scaler /\ done' = done
    BY <1>4 DEF ReadV0, flags, output
  <2>2. Types'
    BY <1>1, <1>2, <1>3, <2>1, TypesParts, TypesPartsPrimed, Zenon
  <2> QED
    BY <2>1, <2>2 DEF IInv, Position, DataFiledRight
<1>5. CASE ReadV1(f)
  <2>1. /\ pc' = "v1" /\ mod_data' = Cleared /\ current_module' = NoModule
        /\ got_header' = got_header /\ reading_data' = reading_data
        /\ reading_mvlc_scaler' = reading_mvlc_scaler /\ done' = done
        /\ words' = frame'.blob
    BY <1>5 DEF ReadV1, Begin, flags, output
  <2>2. Types'
    BY <1>1, <1>2, <1>3, <2>1, ClearedOK, TypesParts, TypesPartsPrimed, Zenon
  <2>3. Position'
    <3>1. Len(words') \in Nat /\ DOMAIN words' = 1 .. Len(words')
      BY <1>2, LenProperties
    <3>2. At(0, 0)'
      BY <2>1, <3>1 DEF At
    <3> QED
      BY <3>2 DEF Position
  <2> QED
    BY <2>1, <2>2, <2>3 DEF IInv, DataFiledRight
<1> QED
  BY <1>4, <1>5

\* The end of a frame, however it comes.
LEMMA EndFrame ==
  ASSUME IInv, pc' = "idle", NEW f \in Frames, done' = Append(done, f),
         EventOK(mesy_event'), ModDataOK(mod_data'), words' \in Seq(Word),
         current_module' = current_module, got_header' = got_header,
         reading_data' \in BOOLEAN, reading_mvlc_scaler' = reading_mvlc_scaler
  PROVE  IInv'
<1>1. Types
  BY DEF IInv
<1>2. done' \in Seq(Frames)
  <2>1. done \in Seq(Frames)
    BY <1>1, TypesParts
  <2> QED
    BY <2>1, AppendProperties
<1>3. Types'
  BY <1>1, <1>2, TypesParts, TypesPartsPrimed, Zenon
<1> QED
  BY <1>3 DEF IInv, Position, DataFiledRight

LEMMA Ended ==
  ASSUME IInv, NEW f \in Frames,
         UnknownRevision(f) \/ HeaderThrowsV1 \/ EndV1 \/ HeaderThrowsV0 \/ DataThrowsV0 \/ EndV0
  PROVE  IInv'
<1>1. EventOK(mesy_event) /\ ModDataOK(mod_data) /\ words \in Seq(Word)
      /\ (pc # "idle" => frame \in Frames) /\ reading_data \in BOOLEAN
  BY TypesParts DEF IInv
<1>2. ModDataOK(FlushedData) /\ EventOK(FlushedEvent)
  BY <1>1, DataOnlyChanges, AddedOK, Zenon DEF FlushedData, FlushedEvent, moved
<1>3. CASE UnknownRevision(f)
  <2>1. words' \in Seq(Word)
    BY <1>3, FrameBlob DEF UnknownRevision, Begin
  <2>2. /\ pc' = "idle" /\ done' = Append(done, f) /\ mesy_event' = mesy_event
        /\ mod_data' = mod_data /\ current_module' = current_module /\ got_header' = got_header
        /\ reading_data' = reading_data /\ reading_mvlc_scaler' = reading_mvlc_scaler
    BY <1>3 DEF UnknownRevision, Begin, local, flags
  <2> QED
    BY <1>1, <2>1, <2>2, EndFrame, Zenon
<1>4. CASE HeaderThrowsV1
  <2>1. /\ pc = "v1" /\ pc' = "idle" /\ done' = Append(done, frame)
        /\ mesy_event' = mesy_event /\ mod_data' = FlushedData /\ words' = words
        /\ current_module' = current_module /\ got_header' = got_header
        /\ reading_data' = reading_data /\ reading_mvlc_scaler' = reading_mvlc_scaler
    BY <1>4 DEF HeaderThrowsV1, Reading, Throw, local, input, flags
  <2> QED
    BY <1>1, <1>2, <2>1, EndFrame
<1>5. CASE EndV1
  <2>1. /\ pc = "v1" /\ pc' = "idle" /\ done' = Append(done, frame)
        /\ mesy_event' = FlushedEvent /\ mod_data' = FlushedData /\ words' = words
        /\ current_module' = current_module /\ got_header' = got_header
        /\ reading_data' = reading_data /\ reading_mvlc_scaler' = reading_mvlc_scaler
    BY <1>5 DEF EndV1, Finish, input, flags
  <2> QED
    BY <1>1, <1>2, <2>1, EndFrame
<1>6. CASE HeaderThrowsV0
  <2>1. /\ pc = "v0" /\ pc' = "idle" /\ done' = Append(done, frame)
        /\ mesy_event' = mesy_event /\ mod_data' = mod_data /\ words' = words
        /\ current_module' = current_module /\ got_header' = got_header
        /\ reading_data' = reading_data /\ reading_mvlc_scaler' = reading_mvlc_scaler
    BY <1>6 DEF HeaderThrowsV0, Reading, Throw, local, input, flags
  <2> QED
    BY <1>1, <2>1, EndFrame
<1>7. CASE EndV0
  <2>1. /\ pc = "v0" /\ pc' = "idle" /\ done' = Append(done, frame)
        /\ mesy_event' = mesy_event /\ mod_data' = mod_data /\ words' = words
        /\ current_module' = current_module /\ got_header' = got_header
        /\ reading_data' = reading_data /\ reading_mvlc_scaler' = reading_mvlc_scaler
    BY <1>7 DEF EndV0, Finish, input, flags
  <2> QED
    BY <1>1, <2>1, EndFrame
<1>8. CASE DataThrowsV0
  <2>1. /\ pc = "v0" /\ pc' = "idle" /\ done' = Append(done, frame)
        /\ mesy_event' = mesy_event /\ mod_data' = mod_data /\ words' = words
        /\ current_module' = current_module /\ got_header' = got_header
        /\ reading_data' = TRUE /\ reading_mvlc_scaler' = reading_mvlc_scaler
    BY <1>8 DEF DataThrowsV0, Reading, local, input
  <2> QED
    BY <1>1, <2>1, EndFrame
<1> QED
  BY <1>3, <1>4, <1>5, <1>6, <1>7, <1>8

\* The next word of v1.
LEMMA WordAt ==
  ASSUME Types, words # <<>>, NEW n, NEW h, At(n, h)
  PROVE  /\ n + 1 \in 1 .. Len(frame.blob) /\ next_word = frame.blob[n + 1]
         /\ \A i \in DOMAIN Tail(words) : Tail(words)[i] = frame.blob[i + (n + 1)]
         /\ Len(Tail(words)) + (n + 1) = Len(frame.blob)
<1>1. words \in Seq(Word) /\ n \in Nat
  BY TypesParts DEF At
<1>2. /\ Len(words) \in Nat /\ DOMAIN words = 1 .. Len(words) /\ Len(words) # 0
      /\ next_word = words[1]
  BY <1>1, LenProperties, EmptySeq, NextWordOK
<1>3. /\ Tail(words) \in Seq(Word) /\ Len(Tail(words)) = Len(words) - 1
      /\ \A i \in 1 .. Len(Tail(words)) : Tail(words)[i] = words[i + 1]
  BY <1>1, HeadTailProperties
<1>4. DOMAIN Tail(words) = 1 .. Len(Tail(words))
  BY <1>3, LenProperties
<1>5. /\ Len(words) + n = Len(frame.blob)
      /\ \A i \in 1 .. Len(words) : words[i] = frame.blob[i + n]
  BY <1>2 DEF At
<1>6. next_word = frame.blob[n + 1]
  <2>1. 1 \in 1 .. Len(words) /\ 1 + n = n + 1
    BY <1>1, <1>2
  <2> QED
    BY <1>2, <1>5, <2>1
<1>7. ASSUME NEW i \in DOMAIN Tail(words) PROVE Tail(words)[i] = frame.blob[i + (n + 1)]
  <2>1. i \in 1 .. Len(Tail(words)) /\ i + 1 \in 1 .. Len(words) /\ (i + 1) + n = i + (n + 1)
    BY <1>1, <1>2, <1>3, <1>4
  <2> QED
    BY <1>3, <1>5, <2>1
<1>8. n + 1 \in 1 .. Len(frame.blob) /\ Len(Tail(words)) + (n + 1) = Len(frame.blob)
  BY <1>1, <1>2, <1>3, <1>5
<1> QED
  BY <1>6, <1>7, <1>8

\* A step of v1 that reads a word under the header read before: it is no
\* header, and at most mod_data's data change.
LEMMA WordV1 ==
  ASSUME IInv, ScalerV1 \/ DataV1 \/ SkipV1
  PROVE  IInv'
<1>1. Types /\ Position /\ DataFiledRight
  BY DEF IInv
<1>2. /\ pc = "v1" /\ pc' = "v1" /\ words # <<>> /\ ~is_module_header(next_word)
      /\ words' = Tail(words) /\ frame' = frame /\ done' = done
      /\ mesy_event' = mesy_event /\ current_module' = current_module
      /\ got_header' = got_header /\ reading_data' = reading_data
      /\ reading_mvlc_scaler' = reading_mvlc_scaler
  BY DEF ScalerV1, DataV1, SkipV1, Reading, NextWord, local, flags, output
<1>3. /\ ModDataOK(mod_data') /\ mod_data'.module_id = mod_data.module_id
      /\ mod_data'.header_word = mod_data.header_word
  <2>1. ModDataOK(mod_data)
    BY <1>1, TypesParts
  <2>2. mod_data' = mod_data \/ \E d : mod_data' = [mod_data EXCEPT !.data = d]
    BY DEF ScalerV1, DataV1, SkipV1, add
  <2>3. CASE mod_data' = mod_data
    BY <2>1, <2>3
  <2>4. CASE \E d : mod_data' = [mod_data EXCEPT !.data = d]
    BY <2>1, <2>4, DataOnlyChanges
  <2> QED
    BY <2>2, <2>3, <2>4
<1>4. Types'
  <2>1. words' \in Seq(Word)
    BY <1>1, <1>2, NextWordOK
  <2> QED
    BY <1>1, <1>2, <1>3, <2>1, TypesParts, TypesPartsPrimed, Zenon
<1>5. Position'
  <2>1. PICK n, h : At(n, h)
    BY <1>1, <1>2 DEF Position
  <2>2. /\ n \in Nat /\ h \in Nat /\ h <= n
        /\ \A j \in 1 .. n : h < j => ~ is_module_header(frame.blob[j])
        /\ h = 0 => current_module = NoModule
        /\ h > 0 => is_module_header(frame.blob[h]) /\ current_module = module_id(frame.blob[h])
    BY <2>1 DEF At
  <2>3. /\ next_word = frame.blob[n + 1]
        /\ \A i \in DOMAIN Tail(words) : Tail(words)[i] = frame.blob[i + (n + 1)]
        /\ Len(Tail(words)) + (n + 1) = Len(frame.blob)
    BY <1>1, <1>2, <2>1, WordAt
  <2>4. \A j \in 1 .. n + 1 : j \in 1 .. n \/ j = n + 1
    BY <2>2
  <2>5. n + 1 \in Nat /\ h <= n + 1
    BY <2>2
  <2>6. \A j \in 1 .. n + 1 : h < j => ~ is_module_header(frame.blob[j])
    BY <1>2, <2>2, <2>3, <2>4
  <2>7. At(n + 1, h)'
    BY <1>2, <2>2, <2>3, <2>5, <2>6 DEF At
  <2> QED
    BY <2>7 DEF Position
<1>6. Position' /\ DataFiledRight'
  BY <1>1, <1>2, <1>3, <1>5, Zenon DEF DataFiledRight
<1> QED
  BY <1>4, <1>6 DEF IInv

LEMMA NewHeaderV1 ==
  ASSUME IInv, HeaderV1
  PROVE  IInv'
<1>1. Types /\ Position
  BY DEF IInv
<1> DEFINE id == module_id(next_word)
<1>2. /\ pc = "v1" /\ pc' = "v1" /\ words # <<>> /\ id \in DOMAIN Crate
      /\ mesy_event' = FlushedEvent /\ current_module' = id
      /\ mod_data' = set_header(next_word)
      /\ reading_mvlc_scaler' = is_mvlc_scaler(Crate[id].firmware)
      /\ words' = Tail(words) /\ frame' = frame /\ done' = done
      /\ got_header' = got_header /\ reading_data' = reading_data
  BY DEF HeaderV1, Reading, NextWord, output, has_module
<1> HIDE DEF id
<1>3. next_word \in Word /\ words' \in Seq(Word)
  BY <1>1, <1>2, NextWordOK
<1>4. /\ ModDataOK(mod_data') /\ mod_data'.module_id = id
      /\ module_id(mod_data'.header_word) = id
  BY <1>2, <1>3, SetHeader DEF id
<1>5. EventOK(mesy_event')
  <2>1. EventOK(mesy_event)
    BY <1>1, TypesParts
  <2> QED
    BY <1>2, <2>1, AddedOK DEF FlushedEvent
<1>6. Types'
  <2>1. reading_mvlc_scaler' \in BOOLEAN
    BY <1>2 DEF is_mvlc_scaler
  <2> QED
    BY <1>1, <1>2, <1>3, <1>4, <1>5, <2>1, TypesParts, TypesPartsPrimed, Zenon
<1>7. Position'
  <2>1. PICK n, h : At(n, h)
    BY <1>1, <1>2 DEF Position
  <2>2. n \in Nat
    BY <2>1 DEF At
  <2>3. /\ next_word = frame.blob[n + 1] /\ is_module_header(next_word)
        /\ \A i \in DOMAIN Tail(words) : Tail(words)[i] = frame.blob[i + (n + 1)]
        /\ Len(Tail(words)) + (n + 1) = Len(frame.blob)
    BY <1>1, <1>2, <2>1, WordAt DEF HeaderV1
  <2>4. n + 1 \in Nat /\ n + 1 <= n + 1 /\ n + 1 > 0 /\ ~ (n + 1 = 0)
        /\ \A j \in 1 .. n + 1 : ~ (n + 1 < j)
    BY <2>2
  <2>5. At(n + 1, n + 1)'
    BY <1>2, <2>3, <2>4 DEF At, id
  <2> QED
    BY <2>5 DEF Position
<1>8. DataFiledRight'
  BY <1>2, <1>4, Zenon DEF DataFiledRight
<1> QED
  BY <1>6, <1>7, <1>8 DEF IInv

LEMMA WordV0 ==
  ASSUME IInv, HeaderV0 \/ DataV0 \/ MarkerV0 \/ SkipV0
  PROVE  IInv'
<1>1. Types /\ ModDataOK(mod_data) /\ EventOK(mesy_event)
  BY TypesParts DEF IInv
<1>2. /\ pc = "v0" /\ pc' = "v0" /\ words # <<>> /\ words' = Tail(words)
      /\ frame' = frame /\ done' = done /\ current_module' = current_module
      /\ reading_mvlc_scaler' = reading_mvlc_scaler
  BY DEF HeaderV0, DataV0, MarkerV0, SkipV0, Reading, NextWord, local, flags, output
<1>3. /\ got_header' \in BOOLEAN /\ reading_data' \in BOOLEAN
  <2>1. got_header \in BOOLEAN /\ reading_data \in BOOLEAN
    BY <1>1, TypesParts
  <2> QED
    BY <2>1 DEF HeaderV0, DataV0, MarkerV0, SkipV0, flags
<1>4. next_word \in Word /\ words' \in Seq(Word)
  BY <1>1, <1>2, NextWordOK
<1>5. ModDataOK(mod_data') /\ EventOK(mesy_event')
  <2>1. CASE HeaderV0
    <3>1. mod_data' = set_header(next_word) /\ mesy_event' = mesy_event
      BY <2>1 DEF HeaderV0, local
    <3> QED
      BY <1>1, <1>4, <3>1, SetHeader
  <2>2. CASE DataV0
    <3>1. PICK d : mod_data' = [mod_data EXCEPT !.data = d]
      BY <2>2 DEF DataV0, add
    <3>2. ModDataOK(mod_data')
      BY <1>1, <3>1, DataOnlyChanges
    <3>3. mesy_event' = mesy_event
      BY <2>2 DEF DataV0, local
    <3> QED
      BY <1>1, <3>2, <3>3
  <2>3. CASE MarkerV0
    <3> DEFINE c == event_counter(next_word)
               md == [mod_data EXCEPT !.event_counter = c]
    <3>1. /\ mesy_event' = [Added(mesy_event, md) EXCEPT !.event_counter = md.event_counter]
          /\ mod_data' = [md EXCEPT !.data = <<>>]
      BY <2>3 DEF MarkerV0
    <3>2. c \in Nat
      BY <1>4, WordFields
    <3>3. ModDataOK(md) /\ md.event_counter \in Nat
      BY <1>1, <3>2, CounterSet
    <3> HIDE DEF md, c
    <3>4. EventOK(Added(mesy_event, md))
      BY <1>1, AddedOK
    <3>5. ModDataOK(mod_data')
      BY <3>1, <3>3, DataOnlyChanges
    <3>6. EventOK(mesy_event')
      BY <3>1, <3>3, <3>4, EventCounterSet
    <3> QED
      BY <3>5, <3>6
  <2>4. CASE SkipV0
    BY <1>1, <2>4 DEF SkipV0, local
  <2> QED
    BY <2>1, <2>2, <2>3, <2>4
<1>6. Types'
  BY <1>1, <1>2, <1>3, <1>4, <1>5, TypesParts, TypesPartsPrimed, Zenon
<1> QED
  BY <1>2, <1>6 DEF IInv, Position, DataFiledRight

LEMMA Undefined ==
  ASSUME IInv, DataUndefinedV1 \/ DataUndefinedV0
  PROVE  IInv'
<1>1. /\ pc # "idle" /\ pc' = "undefined" /\ words' = words /\ frame' = frame
      /\ mesy_event' = mesy_event /\ current_module' = current_module
      /\ mod_data' = mod_data /\ got_header' = got_header /\ reading_data' = reading_data
      /\ reading_mvlc_scaler' = reading_mvlc_scaler /\ done' = done
  BY DEF DataUndefinedV1, DataUndefinedV0, Reading, input, local, flags, output
<1>2. Types'
  BY <1>1, TypesParts, TypesPartsPrimed, Zenon DEF IInv
<1> QED
  BY <1>1, <1>2 DEF IInv, Position, DataFiledRight

LEMMA Stutters ==
  ASSUME IInv, UNCHANGED vars
  PROVE  IInv'
<1>1. /\ pc' = pc /\ words' = words /\ frame' = frame /\ mesy_event' = mesy_event
      /\ current_module' = current_module /\ mod_data' = mod_data
      /\ got_header' = got_header /\ reading_data' = reading_data
      /\ reading_mvlc_scaler' = reading_mvlc_scaler /\ done' = done
  BY DEF vars, input, local, flags, output
<1>2. Types'
  BY <1>1, TypesParts, TypesPartsPrimed, Zenon DEF IInv
<1> QED
  BY <1>1, <1>2, Zenon DEF IInv, Position, At, DataFiledRight

LEMMA NextIInv == IInv /\ [Next]_vars => IInv'
<1> SUFFICES ASSUME IInv, [Next]_vars PROVE IInv'
  OBVIOUS
<1>1. ASSUME NEW f \in Frames, ReadV0(f) \/ ReadV1(f) PROVE IInv'
  BY <1>1, BeginFrame
<1>2. ASSUME NEW f \in Frames, UnknownRevision(f) PROVE IInv'
  BY <1>2, Ended
<1>3. CASE HeaderThrowsV1 \/ EndV1 \/ HeaderThrowsV0 \/ DataThrowsV0 \/ EndV0
  <2>1. frame \in Frames
    BY <1>3 DEF IInv, Types, HeaderThrowsV1, EndV1, HeaderThrowsV0, DataThrowsV0, EndV0, Reading
  <2> QED
    BY <1>3, <2>1, Ended
<1>4. CASE ScalerV1 \/ DataV1 \/ SkipV1
  BY <1>4, WordV1
<1>5. CASE HeaderV1
  BY <1>5, NewHeaderV1
<1>6. CASE HeaderV0 \/ DataV0 \/ MarkerV0 \/ SkipV0
  BY <1>6, WordV0
<1>7. CASE NoMoreFrames \/ UNCHANGED vars
  BY <1>7, Stutters DEF NoMoreFrames
<1>8. CASE DataUndefinedV1 \/ DataUndefinedV0
  BY <1>8, Undefined
<1> QED
  BY <1>1, <1>2, <1>3, <1>4, <1>5, <1>6, <1>7, <1>8, Zenon DEF Next

LEMMA Invariance == Spec => []IInv
BY InitIInv, NextIInv, PTL DEF Spec

(* The state of a buffer_reader keeps its types over any sequence of frames,*)
(* of either revision, also when a frame ends in an exception.              *)
THEOREM TypeCorrect == Spec => []TypeOK
<1>1. IInv => TypeOK
  BY DEF IInv, Types
<1> QED
  BY <1>1, Invariance, PTL

\* In a blob that begins with a header the pointer is set by the first word.
LEMMA PointerSet ==
  ASSUME IInv, Reading("v1"), ~ is_module_header(next_word),
         is_module_header(frame.blob[1])
  PROVE  current_module # NoModule
<1>1. Types /\ pc = "v1" /\ words # <<>>
  BY DEF IInv, Reading
<1>2. PICK n, h : At(n, h)
  BY <1>1 DEF IInv, Position
<1>3. /\ n \in Nat /\ h \in Nat /\ h <= n
      /\ \A j \in 1 .. n : h < j => ~ is_module_header(frame.blob[j])
      /\ h > 0 => is_module_header(frame.blob[h]) /\ current_module = module_id(frame.blob[h])
  BY <1>2 DEF At
<1>4. next_word = frame.blob[n + 1]
  BY <1>1, <1>2, WordAt
<1>5. n # 0
  BY <1>3, <1>4
<1>6. h # 0
  BY <1>3, <1>5
<1>7. h > 0
  BY <1>3, <1>6
<1>8. frame.blob[h] \in Word
  <2>1. frame.blob \in Seq(Word) /\ n + 1 \in 1 .. Len(frame.blob)
    BY <1>1, <1>2, WordAt, FrameBlob DEF Types
  <2>2. h \in 1 .. Len(frame.blob)
    BY <1>3, <1>7, <2>1, LenProperties
  <2> QED
    BY <2>1, <2>2, ElementOfSeq
<1>9. current_module \in Nat
  BY <1>3, <1>7, <1>8, WordFields, ModuleIdBelow DEF Below
<1> QED
  BY <1>9, SMT DEF NoModule

\* The word k is in the block of the header h when no header is between them.
LEMMA InBlock ==
  ASSUME NEW blob \in Seq(Word), NEW h \in Nat, NEW k \in 1 .. Len(blob), h < k,
         \A j \in 1 .. k : h < j => ~ is_module_header(blob[j])
  PROVE  blob[k] \in Range(Block(blob, h))
<1> DEFINE T == {i \in Headers(blob) : i > h} \cup {Len(blob) + 1}
           next == Min(T)
           s == SubSeq(blob, h + 1, next - 1)
<1>1. Len(blob) \in Nat /\ DOMAIN blob = 1 .. Len(blob) /\ k \in Nat
  BY LenProperties
<1>2. next \in T /\ T \subseteq Nat
  <2>1. T \subseteq Nat /\ T # {}
    BY <1>1 DEF Headers
  <2> HIDE DEF T
  <2>2. PICK m \in T : \A n \in T : m <= n
    BY <2>1, LeastNatural
  <2> QED
    BY <2>1, <2>2 DEF Min
<1>3. next \in Nat /\ k < next /\ next <= Len(blob) + 1
  <2>1. next = Len(blob) + 1 \/ (next \in 1 .. Len(blob) /\ next > h /\ is_module_header(blob[next]))
    BY <1>1, <1>2 DEF Headers
  <2> HIDE DEF next
  <2>2. next \in 1 .. Len(blob) /\ next > h /\ is_module_header(blob[next]) => ~ (next <= k)
    <3>1. ASSUME next \in 1 .. Len(blob), next > h, next <= k PROVE ~ is_module_header(blob[next])
      <4>1. next \in 1 .. k /\ h < next
        BY <1>1, <3>1
      <4> QED
        BY <4>1
    <3> QED
      BY <3>1
  <2> QED
    BY <1>1, <2>1, <2>2
<1> HIDE DEF next, T
<1>4. /\ Len(s) = IF h + 1 <= next - 1 THEN (next - 1) - (h + 1) + 1 ELSE 0
      /\ \A i \in 1 .. (next - 1) - (h + 1) + 1 : s[i] = blob[(h + 1) + i - 1]
      /\ s \in Seq(Word)
  <2>1. \A i \in h + 1 .. next - 1 : blob[i] \in Word
    BY <1>1, <1>3, ElementOfSeq
  <2>2. h + 1 \in Int /\ next - 1 \in Int
    BY <1>3
  <2> QED
    BY <2>1, <2>2, SubSeqProperties
<1>5. /\ k - h \in 1 .. (next - 1) - (h + 1) + 1 /\ (h + 1) + (k - h) - 1 = k
      /\ h + 1 <= next - 1
  BY <1>1, <1>3
<1>6. s[k - h] = blob[k] /\ Len(s) = (next - 1) - (h + 1) + 1
  BY <1>4, <1>5
<1>7. k - h \in DOMAIN s
  BY <1>4, <1>5, <1>6, LenProperties
<1>8. blob[k] \in Range(s)
  <2> HIDE DEF s
  <2> QED
    BY <1>6, <1>7 DEF Range
<1>9. Block(blob, h) = s
  BY DEF Block, next, T
<1> QED
  BY <1>8, <1>9

LEMMA UndefinedStep ==
  ASSUME IInv, DataUndefinedV1
  PROVE  DataBeforeHeader(frame.blob) \/ DataWithoutMasks(frame.blob)
<1>1. /\ Types /\ pc = "v1" /\ words # <<>> /\ frame \in Frames /\ DataFiledRight
      /\ ~ is_module_header(next_word) /\ IsDataV1(next_word) /\ ~ reading_mvlc_scaler
      /\ current_module # NoModule => ~ HasMasks(Crate[current_module])
  BY DEF IInv, Types, DataUndefinedV1, Reading
<1> DEFINE blob == frame.blob
<1>2. PICK n, h : At(n, h)
  BY <1>1 DEF IInv, Position
<1> DEFINE k == n + 1
<1>3. k \in 1 .. Len(blob) /\ next_word = blob[k] /\ blob \in Seq(Word)
  BY <1>1, <1>2, WordAt, FrameBlob
<1>4. DOMAIN blob = 1 .. Len(blob) /\ Len(blob) \in Nat
  BY <1>3, LenProperties
<1>5. /\ n \in Nat /\ h \in Nat /\ h <= n
      /\ h > 0 => is_module_header(blob[h]) /\ current_module = module_id(blob[h])
  BY <1>2 DEF At
<1>6. \A j \in 1 .. k : h < j => ~ is_module_header(blob[j])
  <2>1. \A j \in 1 .. n : h < j => ~ is_module_header(blob[j])
    BY <1>2 DEF At
  <2>2. \A j \in 1 .. k : j \in 1 .. n \/ j = k
    BY <1>5
  <2> QED
    BY <1>1, <1>3, <2>1, <2>2
<1>7. CASE h = 0
  <2>1. ASSUME NEW j \in Headers(blob) PROVE k < j
    <3>1. j \in 1 .. Len(blob) /\ is_module_header(blob[j])
      BY <1>4 DEF Headers
    <3>2. j \in Nat /\ 0 < j /\ (~ (k < j) => j \in 1 .. k)
      BY <1>4, <1>5, <3>1
    <3> QED
      BY <1>6, <1>7, <3>1, <3>2
  <2>2. DataBeforeHeader(blob)
    <3> HIDE DEF blob, k
    <3> QED
      BY <1>1, <1>3, <1>4, <2>1 DEF DataBeforeHeader
  <2> QED
    BY <2>2
<1>8. CASE h # 0
  <2>1. h > 0 /\ h \in 1 .. Len(blob) /\ h < k
    BY <1>3, <1>4, <1>5, <1>8
  <2>2. is_module_header(blob[h]) /\ current_module = module_id(blob[h]) /\ blob[h] \in Word
    BY <1>3, <1>5, <2>1, ElementOfSeq
  <2>3. current_module # NoModule
    <3>1. current_module \in Nat
      BY <2>2, WordFields, ModuleIdBelow DEF Below
    <3> QED
      BY <3>1, SMT DEF NoModule
  <2>4. current_module \in DOMAIN Crate
    BY <1>1, <2>3, TypesParts
  <2>5. ~ HasMasks(Crate[current_module]) /\ ~ is_mvlc_scaler(Crate[current_module].firmware)
    BY <1>1, <2>3 DEF DataFiledRight
  <2>6. h \in KnownHeaders(blob)
    BY <1>4, <2>1, <2>2, <2>4 DEF KnownHeaders, Headers, has_module
  <2>7. blob[k] \in Range(Block(blob, h))
    <3> HIDE DEF blob, k
    <3> QED
      BY <1>3, <1>5, <1>6, <2>1, InBlock
  <2>8. DataWithoutMasks(blob)
    <3> HIDE DEF blob, k
    <3> QED
      BY <1>1, <1>3, <2>2, <2>5, <2>6, <2>7 DEF DataWithoutMasks
  <2> QED
    BY <2>8
<1> QED
  BY <1>7, <1>8

(* For any words in the blobs of any frames, in any order: what makes       *)
(* read_event_in_buffer_v1 go through current_module before it is set, or   *)
(* by masks that were never set, is in the frame it reads, data before its  *)
(* first header or data of a TGV in it; nothing left over from the frames   *)
(* before, or from the modules before in the same frame, does.              *)
THEOREM PointerCorrect == Spec => UndefinedHasCause
<1> DEFINE Caused == (pc = "v1" /\ pc' = "undefined") =>
                       DataBeforeHeader(frame.blob) \/ DataWithoutMasks(frame.blob)
<1>1. IInv /\ [Next]_vars => Caused
  <2> SUFFICES ASSUME IInv, [Next]_vars, pc = "v1", pc' = "undefined"
               PROVE  DataBeforeHeader(frame.blob) \/ DataWithoutMasks(frame.blob)
    OBVIOUS
  <2>1. DataUndefinedV1
    BY DEF Next, NoMoreFrames, ReadV0, ReadV1, UnknownRevision, Begin, HeaderV1,
           HeaderThrowsV1, ScalerV1, DataV1, SkipV1, EndV1, HeaderV0, HeaderThrowsV0, DataV0,
           DataUndefinedV0, DataThrowsV0, MarkerV0, SkipV0, EndV0, Reading, NextWord, Throw,
           Finish, vars
  <2> QED
    BY <2>1, UndefinedStep
<1>2. IInv /\ [Next]_vars => [Caused]_vars
  BY <1>1
<1>3. Spec => [][Caused]_vars
  BY <1>2, Invariance, PTL DEF Spec
<1> QED
  BY <1>3 DEF UndefinedHasCause

(* The words that follow a header are decoded with, and filed under, the    *)
(* module that header names, however the frame before ended.                *)
THEOREM FilingCorrect == Spec => []DataFiledRight
<1>1. IInv => DataFiledRight
  BY DEF IInv
<1> QED
  BY <1>1, Invariance, PTL

-----------------------------------------------------------------------------
(* Frames and FrameDecoder, in terms of functions of modules and hits *)

IdOf(m) == module_id(m.header)
ModOf(m) == Crate[IdOf(m)]

\* The words of a module's hits.
WordOf(m) ==
  [h \in SentHit |-> HitWord(IF IdOf(m) \in DOMAIN Crate THEN ModOf(m)
                             ELSE [firmware |-> "MDPP_SCP", nchan |-> 16], h)]
AnyWord == Word \cup {WordOf(m)[h] : m \in SentModule, h \in SentHit}

\* A module as it stands in the blob of the frame f.
BlockOf(f) ==
  [m \in SentModule |->
     IF f.revision = 0 THEN (<<m.header>> \o Words(m)) \o m.marker
     ELSE IF m.hits = <<>> THEN <<>> ELSE <<m.header>> \o Words(m)]

\* What an analysis is told of a hit, and of which hits.
ItemOf(m) ==
  [h \in SentHit |->
     IF h.type = "raw" THEN [data_word |-> HitWord(ModOf(m), h)]
     ELSE [data_word |-> HitWord(ModOf(m), h), data_type |-> h.type, bus_number |-> h.bus,
           channel |-> h.channel, data |-> h.data]]
Kept(f, m) ==
  {h \in SentHit : /\ h.type \in DataType \/ (h.type = "raw" /\ ModOf(m).firmware = "MVLC_SCALER")
                   /\ f.revision = 0 => h.type # "raw"}
ItemsOf(f, m, u) == Mapped(ItemOf(m), Picked(u, Kept(f, m)))

CounterOf(f, m) == IF f.revision = 0 THEN event_counter(m.marker[1]) ELSE 0
ReadOf(f) ==
  [m \in SentModule |-> [module_id |-> IdOf(m), header_word |-> m.header,
                         event_counter |-> CounterOf(f, m), data |-> ItemsOf(f, m, m.hits)]]

Filled == {m \in SentModule : m.hits # <<>>}
Parts(f) == IF f.revision = 0 THEN f.modules ELSE Picked(f.modules, Filled)

-----------------------------------------------------------------------------
LEMMA SentModuleParts ==
  ASSUME NEW m \in SentModule
  PROVE  /\ m.header \in Word /\ is_module_header(m.header)
         /\ m.hits \in Seq(SentHit) /\ m.marker \in Seq(Word)
BY DEF SentModule

LEMMA WordsMapped ==
  ASSUME NEW m \in SentModule
  PROVE  /\ Words(m) = Mapped(WordOf(m), m.hits)
         /\ \A u \in Seq(SentHit) : Mapped(WordOf(m), u) \in Seq(AnyWord)
         /\ Words(m) \in Seq(AnyWord)
<1>1. m.hits \in Seq(SentHit)
  BY SentModuleParts
<1>2. \A i \in DOMAIN m.hits : m.hits[i] \in SentHit
  BY <1>1, ElementOfSeq, LenProperties
<1>3. Words(m) = Mapped(WordOf(m), m.hits)
  BY <1>2 DEF Words, Mapped, WordOf, IdOf, ModOf
<1>4. \A h \in SentHit : WordOf(m)[h] \in AnyWord
  BY DEF AnyWord
<1>5. \A u \in Seq(SentHit) : Mapped(WordOf(m), u) \in Seq(AnyWord)
  BY <1>4, MappedType
<1> QED
  BY <1>1, <1>3, <1>5

LEMMA BlocksYield == ASSUME NEW f PROVE Yields(BlockOf(f), SentModule, AnyWord)
<1>1. ASSUME NEW m \in SentModule PROVE BlockOf(f)[m] \in Seq(AnyWord)
  <2>1. m.header \in AnyWord /\ m.marker \in Seq(Word) /\ Words(m) \in Seq(AnyWord)
    BY SentModuleParts, WordsMapped DEF AnyWord
  <2>2. m.marker \in Seq(AnyWord)
    BY <2>1, SeqMonotonic DEF AnyWord
  <2>3. <<m.header>> \o Words(m) \in Seq(AnyWord)
    BY <2>1, ConsParts
  <2>4. (<<m.header>> \o Words(m)) \o m.marker \in Seq(AnyWord)
    BY <2>2, <2>3, ConcatProperties
  <2>5. <<>> \in Seq(AnyWord)
    OBVIOUS
  <2> QED
    BY <2>3, <2>4, <2>5 DEF BlockOf
<1> QED
  BY <1>1 DEF Yields

\* The blob of a frame is its parts' blocks.
LEMMA BlobOfParts ==
  ASSUME NEW f, f.modules \in Seq(SentModule)
  PROVE  /\ Parts(f) \in Seq(SentModule)
         /\ Blob(f) = FlattenSeq(Mapped(BlockOf(f), Parts(f)))
<1> DEFINE b == BlockOf(f)
<1>1. /\ \A i \in DOMAIN f.modules : f.modules[i] \in SentModule
      /\ Yields(b, SentModule, AnyWord)
  BY ElementOfSeq, LenProperties, BlocksYield
<1>2. CASE f.revision = 0
  <2>1. OldBuffer(f) = FlattenSeq(Mapped(b, f.modules))
    <3>1. [i \in DOMAIN f.modules |->
             <<f.modules[i].header>> \o Words(f.modules[i]) \o f.modules[i].marker]
            = Mapped(b, f.modules)
      BY <1>1, <1>2 DEF Mapped, BlockOf
    <3> QED
      BY <3>1 DEF OldBuffer
  <2> QED
    BY <1>2, <2>1 DEF Blob, Parts
<1>3. CASE f.revision # 0
  <2> DEFINE ev == [modules |-> [i \in DOMAIN f.modules |->
                      [header_word |-> f.modules[i].header, data |-> Words(f.modules[i])]]]
  <2>1. \A i \in DOMAIN f.modules : ModuleBuffer(ev.modules[i]) = b[f.modules[i]]
    <3> TAKE i \in DOMAIN f.modules
    <3> DEFINE m == f.modules[i]
    <3>1. m \in SentModule
      BY <1>1
    <3>2. ev.modules[i].header_word = m.header /\ ev.modules[i].data = Words(m)
      OBVIOUS
    <3>3. Words(m) = <<>> <=> m.hits = <<>>
      <4>1. Len(Words(m)) = Len(m.hits) /\ Words(m) \in Seq(AnyWord) /\ m.hits \in Seq(SentHit)
        BY <3>1, SentModuleParts, WordsMapped, MappedElements
      <4> QED
        BY <4>1, EmptySeq
    <3> HIDE DEF ev, m
    <3> QED
      BY <1>3, <3>1, <3>2, <3>3 DEF ModuleBuffer, BlockOf, m
  <2>2. DOMAIN ev.modules = DOMAIN f.modules
    OBVIOUS
  <2>3. Blob(f) = get_output_buffer(ev)
    BY <1>3 DEF Blob, OutputBuffer
  <2> HIDE DEF ev, b
  <2>4. [i \in DOMAIN ev.modules |-> ModuleBuffer(ev.modules[i])] = Mapped(b, f.modules)
    BY <2>1, <2>2 DEF Mapped
  <2>5. Blob(f) = FlattenSeq(Mapped(b, f.modules))
    BY <2>3, <2>4 DEF get_output_buffer
  <2>6. \A m \in SentModule : m \notin Filled => b[m] = <<>>
    BY <1>3 DEF Filled, BlockOf, b
  <2>7. FlattenSeq(Mapped(b, Picked(f.modules, Filled))) = FlattenSeq(Mapped(b, f.modules))
    BY <1>1, <2>6, FlattenPicked
  <2>8. Picked(f.modules, Filled) \in Seq(SentModule)
    <3>1. Picked(f.modules, Filled) \in Seq(SentModule \cap Filled)
      BY PickedIn
    <3> QED
      BY <3>1, SeqMonotonic
  <2> QED
    BY <1>3, <2>5, <2>7, <2>8 DEF Parts, b
<1> QED
  BY <1>2, <1>3

-----------------------------------------------------------------------------
\* FrameDecoder's own copies of the operators of FrameFormat are those.
LEMMA DecoderWords ==
  /\ \A s, S : Decoder!Picked(s, S) = Picked(s, S)
  /\ \A s : Decoder!Range(s) = {s[i] : i \in DOMAIN s}
  /\ \A s : Decoder!Last(s) = s[Len(s)]
  /\ \A mod, h : Decoder!HitWord(mod, h) = HitWord(mod, h)
  /\ \A w : Decoder!module_id(w) = module_id(w) /\ Decoder!event_counter(w) = event_counter(w)
  /\ Decoder!DataType = DataType
<1>1. \A s : Decoder!FlattenSeq(s) = FlattenSeq(s)
  BY DEF Decoder!FlattenSeq, FlattenSeq
<1>2. \A s, S : Decoder!Picked(s, S) = Picked(s, S)
  BY <1>1 DEF Decoder!Picked, Picked
<1>3. \A s : Decoder!Range(s) = {s[i] : i \in DOMAIN s}
  BY DEF Decoder!Range
<1>4. \A s : Decoder!Last(s) = s[Len(s)]
  BY DEF Decoder!Last
<1>5. \A type : Decoder!Flags(type) = Flags(type)
  BY DEF Decoder!Flags, Flags
<1>6. \A fw : Decoder!IsMdpp(fw) = IsMdpp(fw)
  BY DEF Decoder!IsMdpp, IsMdpp
<1>7. Decoder!DataType = DataType /\ Decoder!ZeroWord = ZeroWord
  BY DEF Decoder!DataType, DataType, Decoder!ZeroWord, ZeroWord
<1>8. \A mod, h : Decoder!HitWord(mod, h) = HitWord(mod, h)
  BY <1>5, <1>6, <1>7 DEF Decoder!HitWord, HitWord
<1>9. \A w : Decoder!module_id(w) = module_id(w) /\ Decoder!event_counter(w) = event_counter(w)
  BY DEF Decoder!module_id, module_id, Decoder!event_counter, event_counter
<1> QED
  BY <1>2, <1>3, <1>4, <1>7, <1>8, <1>9

LEMMA DecoderItems ==
  ASSUME NEW f, NEW m \in SentModule
  PROVE  Decoder!Items(f, m) = ItemsOf(f, m, m.hits)
<1>1. m.hits \in Seq(SentHit) /\ Decoder!module_id(m.header) = IdOf(m)
  BY SentModuleParts, DecoderWords DEF IdOf
<1>2. \A i \in DOMAIN m.hits : m.hits[i] \in SentHit
  BY <1>1, ElementOfSeq, LenProperties
<1>3. \A i \in DOMAIN m.hits : m.hits[i] \in Decoder!ItemHits(f, m) <=> m.hits[i] \in Kept(f, m)
  BY <1>1, <1>2, DecoderWords DEF Decoder!ItemHits, Decoder!IsItem, Kept, ModOf
<1>4. Picked(m.hits, Decoder!ItemHits(f, m)) = Picked(m.hits, Kept(f, m))
  BY <1>3, PickedSame
<1> DEFINE hits == Picked(m.hits, Kept(f, m))
<1>5. hits \in Seq(SentHit)
  <2>1. hits \in Seq(SentHit \cap Kept(f, m))
    BY <1>1, PickedIn
  <2> QED
    BY <2>1, SeqMonotonic
<1>6. Decoder!Items(f, m) = [i \in DOMAIN hits |-> Decoder!Item(ModOf(m), hits[i])]
  BY <1>1, <1>4, DecoderWords DEF Decoder!Items, ModOf
<1>7. \A h \in SentHit : Decoder!Item(ModOf(m), h) = ItemOf(m)[h]
  BY DecoderWords DEF Decoder!Item, ItemOf
<1>8. \A i \in DOMAIN hits : hits[i] \in SentHit
  BY <1>5, ElementOfSeq, LenProperties
<1> HIDE DEF hits
<1>9. [i \in DOMAIN hits |-> Decoder!Item(ModOf(m), hits[i])] = Mapped(ItemOf(m), hits)
  BY <1>7, <1>8 DEF Mapped
<1> QED
  BY <1>6, <1>9 DEF ItemsOf, hits

LEMMA DecoderReads ==
  ASSUME NEW f, f.modules \in Seq(SentModule)
  PROVE  /\ Decoder!Modules(f) = Parts(f)
         /\ Decoder!ReadModules(f) = Mapped(ReadOf(f), Parts(f))
         /\ Decoder!Readable(f) <=>
              /\ f.revision \in {0, 1}
              /\ \A i \in DOMAIN Parts(f) : IdOf(Parts(f)[i]) \in DOMAIN Crate
<1>1. \A i \in DOMAIN f.modules : f.modules[i] \in SentModule
  BY ElementOfSeq, LenProperties
<1>2. Decoder!Modules(f) = Parts(f)
  <2> DEFINE D == {m \in Decoder!Range(f.modules) : m.hits # <<>>}
  <2>1. \A i \in DOMAIN f.modules : f.modules[i] \in D <=> f.modules[i] \in Filled
    BY <1>1, DecoderWords DEF Filled
  <2>2. Picked(f.modules, D) = Picked(f.modules, Filled)
    <3> HIDE DEF D
    <3> QED BY <2>1, PickedSame
  <2> QED
    BY <2>2, DecoderWords DEF Decoder!Modules, Parts
<1>3. \A i \in DOMAIN Parts(f) : Parts(f)[i] \in SentModule
  BY BlobOfParts, ElementOfSeq, LenProperties
<1>4. \A m \in SentModule : Decoder!Read(f, m) = ReadOf(f)[m]
  BY DecoderItems, DecoderWords DEF Decoder!Read, ReadOf, CounterOf, IdOf
<1>5. Decoder!ReadModules(f) = Mapped(ReadOf(f), Parts(f))
  BY <1>2, <1>3, <1>4 DEF Decoder!ReadModules, Mapped
<1>6. \A m : Decoder!module_id(m.header) = IdOf(m)
  BY DecoderWords DEF IdOf
<1> QED
  BY <1>2, <1>5, <1>6 DEF Decoder!Readable

-----------------------------------------------------------------------------
(* Well-formed frames *)

Fit(f, m) ==
  /\ IdOf(m) \in DOMAIN Crate => /\ f.revision = 0 => OldModule(m)
                                 /\ f.revision = 1 => NewModule(m)
  /\ f.revision # 0 => m.hits # <<>>
Fitting(f) == {m \in SentModule : Fit(f, m)}
Known(f) == {m \in Fitting(f) : IdOf(m) \in DOMAIN Crate}

LEMMA KnownModule ==
  ASSUME NEW f, NEW m \in Known(f)
  PROVE  /\ m \in SentModule /\ m \in Fitting(f) /\ IdOf(m) \in DOMAIN Crate
         /\ f.revision = 0 => OldModule(m)
         /\ f.revision = 1 => NewModule(m) /\ m.hits # <<>>
BY DEF Known, Fitting, Fit

LEMMA PartsFit ==
  ASSUME NEW f, WellFormed(f)
  PROVE  Parts(f) \in Seq(Fitting(f))
<1> DEFINE A == {m \in SentModule : IdOf(m) \in DOMAIN Crate => /\ f.revision = 0 => OldModule(m)
                                                                /\ f.revision = 1 => NewModule(m)}
<1>1. f.modules \in Seq(SentModule)
  BY DEF WellFormed
<1>2. \A i \in DOMAIN f.modules : f.modules[i] \in A
  <2>1. \A i \in DOMAIN f.modules : f.modules[i] \in SentModule
    BY <1>1, ElementOfSeq, LenProperties
  <2> QED
    BY <2>1 DEF WellFormed, IdOf
<1>3. f.modules \in Seq(A)
  <2> HIDE DEF A
  <2>1. f.modules \in [1 .. Len(f.modules) -> A] /\ Len(f.modules) \in Nat
    BY <1>1, <1>2, LenProperties
  <2> QED
    BY <2>1, SeqDef
<1>4. CASE f.revision = 0
  <2>1. A \subseteq Fitting(f)
    BY <1>4 DEF Fitting, Fit
  <2> HIDE DEF A
  <2> QED
    BY <1>3, <1>4, <2>1, SeqMonotonic DEF Parts
<1>5. CASE f.revision # 0
  <2>1. A \cap Filled \subseteq Fitting(f)
    BY <1>5 DEF Fitting, Fit, Filled
  <2> HIDE DEF A
  <2>2. Picked(f.modules, Filled) \in Seq(A \cap Filled)
    BY <1>3, PickedIn
  <2> QED
    BY <1>5, <2>1, <2>2, SeqMonotonic DEF Parts
<1> QED
  BY <1>4, <1>5

-----------------------------------------------------------------------------
(* Words *)

LEMMA HeaderIsNoData ==
  ASSUME NEW w, is_module_header(w)
  PROVE  ~ is_mdpp_data(w)
BY SMT DEF is_module_header, is_mdpp_data

LEMMA MarkerIsNoData ==
  ASSUME NEW w \in Word, is_end_of_event(w) \/ is_frame_header(w)
  PROVE  ~ is_module_header(w) /\ ~ is_mdpp_data(w)
<1> DEFINE hi == w.hi
<1>1. Below(hi, 65536)
  BY HalfBelow DEF Word
<1>2. hi \div 4096 >= 12 \/ hi \div 256 \in {241, 243, 245, 247, 249, 250}
  BY DEF is_end_of_event, is_frame_header, TopNibble, TopByte, FrameTypes
<1> HIDE DEF hi
<1>3. hi \div 256 \in {241, 243, 245, 247, 249, 250} => hi \div 4096 = 15
  BY <1>1, SMT DEF Below
<1>4. hi \div 4096 # 4 /\ hi \div 4096 # 1
  BY <1>1, <1>2, <1>3, SMT DEF Below
<1> QED
  BY <1>4 DEF is_module_header, is_mdpp_data, TopNibble, hi

\* The top nibble of what modules send: 1 and 2 for hits, else 0 or 2.
LEMMA PlainWords ==
  ASSUME NEW mod, NEW h \in SentHit, NEW w, w = HitWord(mod, h)
  PROVE  /\ h.type \in {"fill", "raw"} => TopNibble(w) = 0
         /\ h.type = "ext_ts" => TopNibble(w) = 2
         /\ h.type \in {"fill", "raw", "ext_ts"} => w.hi \in Nat
<1>1. 0 \div 4096 = 0 /\ 8192 \div 4096 = 2
  BY SMT
<1>2. ASSUME h.type = "fill" PROVE w = ZeroWord
  BY <1>2 DEF HitWord, DataType
<1>3. ASSUME h.type = "raw" PROVE w = [hi |-> 0, lo |-> h.data]
  BY <1>3 DEF HitWord, DataType
<1>4. ASSUME h.type = "ext_ts" PROVE w = [hi |-> 8192, lo |-> h.data]
  BY <1>4 DEF HitWord, DataType
<1>5. (h.type \in {"fill", "raw"} => w.hi = 0) /\ (h.type = "ext_ts" => w.hi = 8192)
  BY <1>2, <1>3, <1>4, SMT DEF ZeroWord
<1> QED
  BY <1>1, <1>5 DEF TopNibble

\* A word whose top nibble is below 3 is no header and no marker.
LEMMA LowWords ==
  ASSUME NEW w, w.hi \in Nat, TopNibble(w) \in {0, 1, 2}
  PROVE  /\ ~ is_module_header(w) /\ ~ is_end_of_event(w) /\ ~ is_frame_header(w)
         /\ is_mdpp_data(w) <=> TopNibble(w) = 1
         /\ TopNibble(w) = 0 => ~ is_vmmr_data(w)
<1> DEFINE hi == w.hi
<1>1. hi \in Nat /\ hi \div 4096 \in {0, 1, 2}
  BY DEF TopNibble
<1>2. /\ is_module_header(w) <=> hi \div 4096 = 4
      /\ is_end_of_event(w) <=> hi \div 4096 >= 12
      /\ is_frame_header(w) <=> hi \div 256 \in {241, 243, 245, 247, 249, 250}
      /\ is_mdpp_data(w) <=> hi \div 4096 = 1
      /\ is_vmmr_data(w) => hi \div 4096 \in {1, 2}
      /\ TopNibble(w) = hi \div 4096
  BY DEF is_module_header, is_end_of_event, is_frame_header, is_mdpp_data, is_vmmr_data,
         is_vmmr_adc_data, is_vmmr_tdc_data, TopNibble, TopByte, FrameTypes
<1> HIDE DEF hi
<1>3. hi < 12288
  BY <1>1, SMT
<1>4. hi \div 256 < 48
  BY <1>1, <1>3, SMT
<1> QED
  BY <1>1, <1>2, <1>4, SMT

\* What the reader makes of a hit's word is what the analysis is to be told.
LEMMA Told ==
  ASSUME NEW m \in SentModule, NEW h \in SentHit, h.type \in DataType,
         GivesBack(ModOf(m), HitWord(ModOf(m), h), h)
  PROVE  /\ Decoded(ModOf(m), HitWord(ModOf(m), h)) = ItemOf(m)[h]
         /\ h.bus = 0 => DecodedNoBus(ModOf(m), HitWord(ModOf(m), h)) = ItemOf(m)[h]
<1> DEFINE w == HitWord(ModOf(m), h)
           item == [data_word |-> w, data_type |-> h.type, bus_number |-> h.bus,
                    channel |-> h.channel, data |-> h.data]
<1>1. h.type # "raw"
  BY DEF DataType
<1>2. ItemOf(m)[h] = item
  BY <1>1 DEF ItemOf
<1>3. Decoded(ModOf(m), w) = item
  <2> HIDE DEF w
  <2> QED
    BY DEF GivesBack, Decoded, w
<1>4. h.bus = 0 => DecodedNoBus(ModOf(m), w) = item
  BY <1>3 DEF DecodedNoBus
<1> QED
  BY <1>2, <1>3, <1>4

LEMMA NewHits ==
  ASSUME NEW f, f.revision = 1, NEW m \in Known(f), NEW i \in DOMAIN m.hits,
         NEW h, h = m.hits[i], NEW w, w = HitWord(ModOf(m), h)
  PROVE  /\ ~ is_module_header(w)
         /\ is_mvlc_scaler(ModOf(m).firmware) =>
              h \in Kept(f, m) /\ ItemOf(m)[h] = [data_word |-> w]
         /\ ~ is_mvlc_scaler(ModOf(m).firmware) =>
              /\ IsDataV1(w) <=> h \in Kept(f, m)
              /\ IsDataV1(w) => Decoded(ModOf(m), w) = ItemOf(m)[h] /\ HasMasks(ModOf(m))
<1>1. m \in SentModule /\ NewModule(m) /\ m.hits # <<>>
  BY KnownModule
<1>2. h \in SentHit
  BY <1>1, SentModuleParts, ElementOfSeq, LenProperties
<1> DEFINE mod == ModOf(m)
<1>3. \/ h.type = "raw"
      \/ ~ is_mvlc_scaler(mod.firmware) /\ h.type = "fill"
      \/ IsMdppHit(mod, h) \/ IsVmmrHit(mod, h)
  BY <1>1 DEF NewModule, IdOf, ModOf
<1>4. CASE h.type \in {"fill", "raw"}
  <2>1. TopNibble(w) = 0 /\ w.hi \in Nat
    BY <1>2, <1>4, PlainWords
  <2>2. ~ is_module_header(w) /\ ~ IsDataV1(w)
    BY <2>1, LowWords, SMT DEF IsDataV1
  <2>3. h.type \notin DataType /\ ~ (h.type = "fill" /\ is_mvlc_scaler(mod.firmware))
    BY <1>3, <1>4 DEF DataType, IsMdppHit, IsVmmrHit
  <2>4. h \in Kept(f, m) <=> is_mvlc_scaler(mod.firmware)
    BY <1>2, <1>4, <2>3 DEF Kept, is_mvlc_scaler
  <2>5. h.type = "raw" => ItemOf(m)[h] = [data_word |-> w]
    BY <1>2 DEF ItemOf
  <2> QED
    BY <1>4, <2>2, <2>3, <2>4, <2>5
<1>5. CASE IsMdppHit(mod, h) \/ IsVmmrHit(mod, h)
  <2>1. w \in Word /\ GivesBack(mod, w, h) /\ (is_mdpp_data(w) \/ is_vmmr_data(w))
    <3>1. CASE IsMdppHit(mod, h)
      BY <3>1, MdppHitRead
    <3>2. CASE IsVmmrHit(mod, h)
      BY <3>2, VmmrHitRead
    <3> QED
      BY <1>5, <3>1, <3>2
  <2>2. w.hi \in Nat /\ TopNibble(w) \in {1, 2}
    <3>1. w.hi \in Half
      BY <2>1 DEF Word
    <3> QED
      BY <2>1, <3>1, HalfBelow DEF Below, is_mdpp_data, is_vmmr_data, is_vmmr_adc_data,
                                   is_vmmr_tdc_data
  <2>3. ~ is_module_header(w) /\ IsDataV1(w)
    BY <2>1, <2>2, LowWords DEF IsDataV1
  <2>4. h.type \in DataType /\ ~ is_mvlc_scaler(mod.firmware)
    BY <1>5 DEF IsMdppHit, IsVmmrHit, DataType, is_mvlc_scaler, IsMdpp
  <2>5. h \in Kept(f, m) /\ HasMasks(mod)
    BY <1>2, <1>5, <2>4 DEF Kept, DataType, HasMasks, IsMdppHit, IsVmmrHit
  <2> QED
    BY <1>1, <1>2, <2>1, <2>3, <2>4, <2>5, Told
<1> QED
  BY <1>3, <1>4, <1>5

LEMMA OldHits ==
  ASSUME NEW f, f.revision = 0, NEW m \in Known(f), NEW i \in DOMAIN m.hits,
         NEW h, h = m.hits[i], NEW w, w = HitWord(ModOf(m), h)
  PROVE  /\ ~ is_module_header(w) /\ ~ is_end_of_event(w) /\ ~ is_frame_header(w)
         /\ is_mdpp_data(w) <=> h \in Kept(f, m)
         /\ is_mdpp_data(w) => DecodedNoBus(ModOf(m), w) = ItemOf(m)[h] /\ HasMasks(ModOf(m))
<1>1. m \in SentModule /\ OldModule(m)
  BY KnownModule
<1>2. h \in SentHit
  BY <1>1, SentModuleParts, ElementOfSeq, LenProperties
<1> DEFINE mod == ModOf(m)
<1>3. h.type \in {"fill", "raw", "ext_ts"} \/ IsMdppHit(mod, h)
  BY <1>1 DEF OldModule, IdOf, ModOf
<1>4. CASE h.type \in {"fill", "raw", "ext_ts"}
  <2>1. TopNibble(w) \in {0, 2} /\ w.hi \in Nat
    BY <1>2, <1>4, PlainWords
  <2>2. h \notin Kept(f, m)
    BY <1>4 DEF Kept, DataType
  <2> QED
    BY <2>1, <2>2, LowWords
<1>5. CASE IsMdppHit(mod, h)
  <2>1. w \in Word /\ GivesBack(mod, w, h) /\ is_mdpp_data(w)
    BY <1>5, MdppHitRead
  <2>2. w.hi \in Nat /\ TopNibble(w) = 1
    <3>1. w.hi \in Half
      BY <2>1 DEF Word
    <3> QED
      BY <2>1, <3>1, HalfBelow DEF Below, is_mdpp_data
  <2>3. h.type \in DataType /\ h.type # "raw" /\ h.bus = 0
    BY <1>5 DEF IsMdppHit, DataType
  <2>4. h \in Kept(f, m) /\ HasMasks(mod)
    BY <1>2, <1>5, <2>3 DEF Kept, HasMasks, IsMdppHit
  <2> QED
    BY <1>1, <1>2, <2>1, <2>2, <2>3, <2>4, LowWords, Told
<1> QED
  BY <1>3, <1>4, <1>5

-----------------------------------------------------------------------------
(* How far a frame has been read *)

\* The words of the parts e of f, and what is left of f from within m.
Rest(f, e) == FlattenSeq(Mapped(BlockOf(f), e))
MarkersOf(f, m) == IF f.revision = 0 THEN m.marker ELSE <<>>
After(f, m, v, e) == Mapped(WordOf(m), v) \o (MarkersOf(f, m) \o Rest(f, e))

Record(m, items) ==
  [module_id |-> IdOf(m), header_word |-> m.header, event_counter |-> 0, data |-> items]

IsMarker(w) == is_end_of_event(w) \/ is_frame_header(w)

\* The parts d have been read, the markers t and the parts e have not.
Between(f, d, e, t, ws, mods) ==
  /\ d \in Seq(Known(f)) /\ e \in Seq(Fitting(f)) /\ Parts(f) = d \o e
  /\ t \in Seq(Word) /\ \A k \in DOMAIN t : IsMarker(t[k])
  /\ f.revision # 0 => t = <<>>
  /\ ws = t \o Rest(f, e)
  /\ mods = Mapped(ReadOf(f), d)

\* After d, the header of m and its hits u have been read.
Within(f, d, m, e, u, v, ws, mods, md) ==
  /\ d \in Seq(Known(f)) /\ m \in Known(f) /\ e \in Seq(Fitting(f))
  /\ Parts(f) = Append(d, m) \o e
  /\ u \in Seq(SentHit) /\ v \in Seq(SentHit) /\ m.hits = u \o v
  /\ ws = After(f, m, v, e)
  /\ mods = Mapped(ReadOf(f), d)
  /\ md = Record(m, ItemsOf(f, m, u))

LEMMA KnownSeqs ==
  ASSUME NEW f
  PROVE  /\ Seq(Known(f)) \subseteq Seq(Fitting(f)) /\ Seq(Fitting(f)) \subseteq Seq(SentModule)
         /\ Seq(Known(f)) \subseteq Seq(SentModule)
<1>1. Known(f) \subseteq Fitting(f) /\ Fitting(f) \subseteq SentModule
  BY DEF Known, Fitting
<1> QED
  BY <1>1, SeqMonotonic

LEMMA RestParts ==
  ASSUME NEW f
  PROVE  /\ Rest(f, <<>>) = <<>>
         /\ \A e \in Seq(Fitting(f)) : Rest(f, e) \in Seq(AnyWord)
         /\ \A e \in Seq(Fitting(f)) :
              e # <<>> => Rest(f, e) = BlockOf(f)[Head(e)] \o Rest(f, Tail(e))
<1>1. Yields(BlockOf(f), SentModule, AnyWord)
  BY BlocksYield
<1>2. Rest(f, <<>>) = <<>>
  BY MappedEmpty, FlattenEmpty DEF Rest
<1>3. ASSUME NEW e \in Seq(Fitting(f)) PROVE Rest(f, e) \in Seq(AnyWord)
  <2>1. e \in Seq(SentModule)
    BY KnownSeqs
  <2>2. Mapped(BlockOf(f), e) \in Seq(Seq(AnyWord))
    BY <1>1, <2>1, MappedType DEF Yields
  <2> QED
    BY <2>2, FlattenType DEF Rest
<1>4. ASSUME NEW e \in Seq(Fitting(f)), e # <<>>
      PROVE  Rest(f, e) = BlockOf(f)[Head(e)] \o Rest(f, Tail(e))
  <2>1. e \in Seq(SentModule)
    BY KnownSeqs
  <2> QED
    BY <1>1, <1>4, <2>1, FlattenMappedFirst DEF Rest
<1> QED
  BY <1>2, <1>3, <1>4

LEMMA AfterType ==
  ASSUME NEW f, NEW m \in Fitting(f), NEW e \in Seq(Fitting(f))
  PROVE  /\ MarkersOf(f, m) \in Seq(AnyWord) /\ MarkersOf(f, m) \in Seq(Word)
         /\ MarkersOf(f, m) \o Rest(f, e) \in Seq(AnyWord)
         /\ \A v \in Seq(SentHit) : After(f, m, v, e) \in Seq(AnyWord)
         /\ After(f, m, <<>>, e) = MarkersOf(f, m) \o Rest(f, e)
<1>1. m \in SentModule
  BY DEF Fitting
<1>2. MarkersOf(f, m) \in Seq(Word)
  <2>1. m.marker \in Seq(Word) /\ <<>> \in Seq(Word)
    BY <1>1, SentModuleParts
  <2> QED
    BY <2>1 DEF MarkersOf
<1>3. MarkersOf(f, m) \in Seq(AnyWord)
  BY <1>2, SeqMonotonic DEF AnyWord
<1>4. MarkersOf(f, m) \o Rest(f, e) \in Seq(AnyWord)
  BY <1>3, RestParts, ConcatProperties
<1>5. ASSUME NEW v \in Seq(SentHit) PROVE After(f, m, v, e) \in Seq(AnyWord)
  <2>1. Mapped(WordOf(m), v) \in Seq(AnyWord)
    BY <1>1, WordsMapped
  <2> QED
    BY <1>4, <2>1, ConcatProperties DEF After
<1>6. After(f, m, <<>>, e) = MarkersOf(f, m) \o Rest(f, e)
  BY <1>4, MappedEmpty, ConcatEmptySeq DEF After
<1> QED
  BY <1>2, <1>3, <1>4, <1>5, <1>6

\* The first of the parts that are left.
LEMMA NextPart ==
  ASSUME NEW f, NEW d \in Seq(Known(f)), NEW e \in Seq(Fitting(f)), e # <<>>
  PROVE  \E m \in Fitting(f), r \in Seq(Fitting(f)) :
           /\ d \o e = Append(d, m) \o r
           /\ Rest(f, e) # <<>>
           /\ Head(Rest(f, e)) = m.header /\ Tail(Rest(f, e)) = After(f, m, m.hits, r)
<1> DEFINE m == Head(e)
           r == Tail(e)
<1>1. m \in Fitting(f) /\ r \in Seq(Fitting(f)) /\ e = <<m>> \o r
  BY HeadTailProperties, HeadTailConcat
<1> HIDE DEF m, r
<1>2. m \in SentModule
  BY <1>1 DEF Fitting
<1>3. d \o e = Append(d, m) \o r
  <2>1. d \in Seq(SentModule) /\ r \in Seq(SentModule)
    BY <1>1, KnownSeqs
  <2> QED
    BY <1>1, <1>2, <2>1, ConcatHead
<1> DEFINE x == m.header
           q == <<x>>
           hw == Mapped(WordOf(m), m.hits)
           mk == MarkersOf(f, m)
           rs == Rest(f, r)
<1>4. /\ x \in AnyWord /\ q \in Seq(AnyWord) /\ hw \in Seq(AnyWord) /\ Words(m) = hw
      /\ mk \in Seq(AnyWord) /\ rs \in Seq(AnyWord)
  <2>1. x \in AnyWord
    BY <1>2, SentModuleParts DEF AnyWord
  <2> QED
    BY <1>1, <1>2, <2>1, SentModuleParts, WordsMapped, RestParts, AfterType
<1>5. BlockOf(f)[m] = (q \o hw) \o mk
  <2>1. CASE f.revision = 0
    BY <1>2, <1>4, <2>1 DEF BlockOf, MarkersOf
  <2>2. CASE f.revision # 0
    <3>1. m.hits # <<>>
      BY <1>1, <2>2 DEF Fitting, Fit
    <3>2. mk = <<>> /\ BlockOf(f)[m] = q \o hw
      BY <1>2, <1>4, <2>2, <3>1 DEF BlockOf, MarkersOf
    <3>3. q \o hw \in Seq(AnyWord)
      BY <1>4, ConcatProperties
    <3>4. (q \o hw) \o <<>> = q \o hw
      BY <3>3, ConcatEmptySeq
    <3> QED
      BY <3>2, <3>4
  <2> QED
    BY <2>1, <2>2
<1>6. Rest(f, e) = ((q \o hw) \o mk) \o rs
  <2>1. Rest(f, e) = BlockOf(f)[m] \o rs
    BY RestParts DEF m, r
  <2> QED
    BY <1>5, <2>1
<1>7. After(f, m, m.hits, r) = hw \o (mk \o rs)
  BY DEF After
<1> HIDE DEF q, hw, mk, rs
<1>8. ((q \o hw) \o mk) \o rs = q \o (hw \o (mk \o rs))
  <2>1. q \o hw \in Seq(AnyWord) /\ mk \o rs \in Seq(AnyWord)
    BY <1>4, ConcatProperties
  <2>2. ((q \o hw) \o mk) \o rs = (q \o hw) \o (mk \o rs)
    <3> DEFINE p == q \o hw
    <3>1. p \in Seq(AnyWord)
      BY <2>1
    <3> HIDE DEF p
    <3>2. p \in Seq(AnyWord) /\ mk \in Seq(AnyWord) /\ rs \in Seq(AnyWord)
      BY <1>4, <3>1
    <3>3. (p \o mk) \o rs = p \o (mk \o rs)
      BY <3>2, ConcatAssociative
    <3> QED
      BY <3>3 DEF p
  <2>3. (q \o hw) \o (mk \o rs) = q \o (hw \o (mk \o rs))
    <3> DEFINE p == mk \o rs
    <3>1. p \in Seq(AnyWord) /\ q \in Seq(AnyWord) /\ hw \in Seq(AnyWord)
      BY <1>4, <2>1
    <3> HIDE DEF p
    <3>2. (q \o hw) \o p = q \o (hw \o p)
      BY <3>1, ConcatAssociative
    <3> QED
      BY <3>2 DEF p
  <2> QED
    BY <2>2, <2>3
<1>9. Rest(f, e) = q \o After(f, m, m.hits, r)
  BY <1>6, <1>7, <1>8
<1> DEFINE af == After(f, m, m.hits, r)
<1>10. af \in Seq(AnyWord)
  BY <1>1, <1>2, SentModuleParts, AfterType
<1> HIDE DEF af, x
<1>11. LET p == <<x>> \o af IN p # <<>> /\ Head(p) = x /\ Tail(p) = af
  BY <1>4, <1>10, ConsParts
<1> QED
  BY <1>1, <1>3, <1>9, <1>11 DEF q, x, af

-----------------------------------------------------------------------------
(* One word after the other *)

LEMMA Beginning ==
  ASSUME NEW f, WellFormed(f)
  PROVE  Between(f, <<>>, Parts(f), <<>>, f.blob, <<>>)
<1> DEFINE none == <<>>
<1>1. none \in Seq(Known(f)) /\ none \in Seq(Word) /\ \A k \in DOMAIN none : IsMarker(none[k])
  OBVIOUS
<1>2. Parts(f) \in Seq(Fitting(f)) /\ none \o Parts(f) = Parts(f)
  BY PartsFit, ConcatEmptySeq
<1>3. f.blob = Rest(f, Parts(f)) /\ none \o f.blob = f.blob
  <2>1. f.modules \in Seq(SentModule) /\ f.blob = Blob(f)
    BY DEF WellFormed
  <2>2. f.blob = Rest(f, Parts(f))
    BY <2>1, BlobOfParts DEF Rest
  <2>3. f.blob \in Seq(AnyWord)
    BY <1>2, <2>2, RestParts
  <2> QED
    BY <2>2, <2>3, ConcatEmptySeq
<1>4. Mapped(ReadOf(f), none) = none
  BY MappedEmpty
<1> HIDE DEF none
<1>5. Between(f, none, Parts(f), none, f.blob, none)
  BY <1>1, <1>2, <1>3, <1>4 DEF Between
<1> QED
  BY <1>5 DEF none

LEMMA BetweenParts ==
  ASSUME NEW f, NEW d, NEW e, NEW t, NEW ws, NEW mods, Between(f, d, e, t, ws, mods)
  PROVE  /\ d \in Seq(Known(f)) /\ e \in Seq(Fitting(f)) /\ Parts(f) = d \o e
         /\ t \in Seq(Word) /\ t \in Seq(AnyWord) /\ \A k \in DOMAIN t : IsMarker(t[k])
         /\ f.revision # 0 => t = <<>>
         /\ ws = t \o Rest(f, e) /\ Rest(f, e) \in Seq(AnyWord)
         /\ mods = Mapped(ReadOf(f), d)
<1>1. t \in Seq(Word) /\ e \in Seq(Fitting(f))
  BY DEF Between
<1>2. t \in Seq(AnyWord)
  BY <1>1, SeqMonotonic DEF AnyWord
<1> QED
  BY <1>1, <1>2, RestParts DEF Between

\* A word between two modules is a marker or the next module's header.
LEMMA MarkerPassed ==
  ASSUME NEW f, NEW d, NEW e, NEW t, NEW ws, NEW mods, Between(f, d, e, t, ws, mods),
         t # <<>>
  PROVE  /\ ws # <<>> /\ Head(ws) = t[1] /\ Head(ws) \in Word /\ IsMarker(Head(ws))
         /\ f.revision = 0
         /\ Between(f, d, e, Tail(t), Tail(ws), mods)
<1>1. /\ t \in Seq(Word) /\ t \in Seq(AnyWord) /\ \A k \in DOMAIN t : IsMarker(t[k])
      /\ ws = t \o Rest(f, e) /\ Rest(f, e) \in Seq(AnyWord) /\ f.revision = 0
  BY BetweenParts
<1>2. ws # <<>> /\ Head(ws) = Head(t) /\ Tail(ws) = Tail(t) \o Rest(f, e)
  BY <1>1, ConcatFirst
<1>3. /\ Head(t) = t[1] /\ Head(t) \in Word /\ Tail(t) \in Seq(Word)
      /\ Len(t) \in Nat /\ Len(t) > 0 /\ DOMAIN t = 1 .. Len(t)
      /\ Len(Tail(t)) = Len(t) - 1 /\ DOMAIN Tail(t) = 1 .. Len(Tail(t))
      /\ \A i \in 1 .. Len(Tail(t)) : Tail(t)[i] = t[i + 1]
  BY <1>1, HeadTailProperties, LenProperties, EmptySeq
<1>4. 1 \in DOMAIN t /\ \A k \in DOMAIN Tail(t) : k + 1 \in DOMAIN t
  BY <1>3
<1>5. \A k \in DOMAIN Tail(t) : IsMarker(Tail(t)[k])
  BY <1>1, <1>3, <1>4
<1>6. Between(f, d, e, Tail(t), Tail(ws), mods)
  BY <1>1, <1>2, <1>3, <1>5 DEF Between
<1> QED
  BY <1>1, <1>2, <1>3, <1>4, <1>6

LEMMA HeaderRead ==
  ASSUME NEW f, f.modules \in Seq(SentModule), NEW d, NEW e, NEW t, NEW ws, NEW mods,
         Between(f, d, e, t, ws, mods), ws # <<>>
  PROVE  t = <<>> => \E m \in Fitting(f) : \E r :
           /\ Head(ws) = m.header /\ is_module_header(Head(ws))
           /\ IdOf(m) \in DOMAIN Crate =>
                Within(f, d, m, r, <<>>, m.hits, Tail(ws), mods, Record(m, <<>>))
           /\ IdOf(m) \notin DOMAIN Crate => ~ Decoder!Readable(f)
<1>1. /\ d \in Seq(Known(f)) /\ e \in Seq(Fitting(f)) /\ Parts(f) = d \o e
      /\ ws = t \o Rest(f, e) /\ Rest(f, e) \in Seq(AnyWord)
      /\ mods = Mapped(ReadOf(f), d)
  BY BetweenParts
<1> HAVE t = <<>>
<1>2. ws = Rest(f, e)
  BY <1>1, ConcatEmptySeq
<1>3. e # <<>>
  BY <1>2, RestParts
<1>4. PICK m \in Fitting(f), r \in Seq(Fitting(f)) :
        /\ d \o e = Append(d, m) \o r
        /\ Head(ws) = m.header /\ Tail(ws) = After(f, m, m.hits, r)
  <2>1. d \in Seq(Known(f)) /\ e \in Seq(Fitting(f))
    BY <1>1
  <2> QED
    BY <1>2, <1>3, <2>1, NextPart
<1>5. m \in SentModule /\ is_module_header(m.header) /\ m.hits \in Seq(SentHit)
  BY SentModuleParts DEF Fitting
<1>6. ASSUME IdOf(m) \in DOMAIN Crate
      PROVE  Within(f, d, m, r, <<>>, m.hits, Tail(ws), mods, Record(m, <<>>))
  <2> DEFINE none == <<>>
  <2>1. none \in Seq(SentHit) /\ none \o m.hits = m.hits
    BY <1>5, ConcatEmptySeq
  <2>2. ItemsOf(f, m, none) = none
    BY PickedEmpty, MappedEmpty DEF ItemsOf
  <2>3. m \in Known(f)
    BY <1>6 DEF Known
  <2> HIDE DEF none
  <2>4. Within(f, d, m, r, none, m.hits, Tail(ws), mods, Record(m, none))
    BY <1>1, <1>4, <1>5, <2>1, <2>2, <2>3 DEF Within
  <2> QED
    BY <2>4 DEF none
<1>7. ASSUME IdOf(m) \notin DOMAIN Crate PROVE ~ Decoder!Readable(f)
  <2> DEFINE a == Append(d, m)
             k == Len(d) + 1
  <2>1. d \in Seq(SentModule) /\ r \in Seq(SentModule)
    BY <1>1, KnownSeqs
  <2>2. /\ a \in Seq(SentModule) /\ Len(a) = Len(d) + 1 /\ Len(d) \in Nat /\ a[k] = m
    BY <1>5, <2>1, AppendProperties, LenProperties
  <2> HIDE DEF a
  <2>3. /\ a \o r \in Seq(SentModule) /\ Len(a \o r) = Len(a) + Len(r) /\ Len(r) \in Nat
        /\ \A i \in 1 .. Len(a) + Len(r) : (a \o r)[i] = IF i <= Len(a) THEN a[i] ELSE r[i - Len(a)]
        /\ DOMAIN (a \o r) = 1 .. Len(a \o r)
    BY <2>1, <2>2, ConcatProperties, LenProperties
  <2>4. k \in DOMAIN (a \o r) /\ (a \o r)[k] = m
    BY <2>2, <2>3
  <2>5. Parts(f) = a \o r
    BY <1>1, <1>4 DEF a
  <2> QED
    BY <1>7, <2>4, <2>5, DecoderReads
<1> QED
  BY <1>4, <1>5, <1>6, <1>7

\* Nothing is left of the frame: all its modules have been read.
LEMMA AllRead ==
  ASSUME NEW f, f.modules \in Seq(SentModule), f.revision \in {0, 1},
         NEW d, NEW e, NEW t, NEW ws, NEW mods, Between(f, d, e, t, ws, mods)
  PROVE  ws = <<>> =>
           /\ Decoder!Readable(f) /\ mods = Decoder!ReadModules(f)
           /\ Parts(f) = d
<1>1. /\ d \in Seq(Known(f)) /\ e \in Seq(Fitting(f)) /\ Parts(f) = d \o e
      /\ t \in Seq(AnyWord) /\ ws = t \o Rest(f, e) /\ Rest(f, e) \in Seq(AnyWord)
      /\ mods = Mapped(ReadOf(f), d)
  BY BetweenParts
<1>2. e # <<>> => Rest(f, e) # <<>>
  BY <1>1, NextPart
<1>3. t # <<>> => ws # <<>>
  BY <1>1, ConcatFirst
<1>4. t = <<>> => ws = Rest(f, e)
  BY <1>1, ConcatEmptySeq
<1> HAVE ws = <<>>
<1>5. e = <<>>
  BY <1>2, <1>3, <1>4
<1>6. Parts(f) = d
  BY <1>1, <1>5, ConcatEmptySeq
<1>7. \A i \in DOMAIN d : IdOf(d[i]) \in DOMAIN Crate
  <2>1. \A i \in DOMAIN d : d[i] \in Known(f)
    BY <1>1, ElementOfSeq, LenProperties
  <2> QED
    BY <2>1 DEF Known
<1> QED
  BY <1>1, <1>6, <1>7, DecoderReads

LEMMA ReadOfKnown ==
  ASSUME NEW f, NEW m \in Known(f)
  PROVE  ReadOf(f)[m] = [Record(m, ItemsOf(f, m, m.hits)) EXCEPT !.event_counter = CounterOf(f, m)]
<1>1. m \in SentModule
  BY KnownModule
<1> QED
  BY <1>1 DEF ReadOf, Record

LEMMA RecordData ==
  ASSUME NEW m, NEW a, NEW b
  PROVE  [Record(m, a) EXCEPT !.data = b] = Record(m, b)
BY DEF Record

LEMMA ItemsGrow ==
  ASSUME NEW f, NEW m, NEW u \in Seq(SentHit), NEW h \in SentHit
  PROVE  /\ h \in Kept(f, m) =>
              ItemsOf(f, m, Append(u, h)) = Append(ItemsOf(f, m, u), ItemOf(m)[h])
         /\ h \notin Kept(f, m) => ItemsOf(f, m, Append(u, h)) = ItemsOf(f, m, u)
<1> DEFINE K == Kept(f, m)
<1>1. /\ Picked(u, K) \in Seq(SentHit)
      /\ h \in K => Picked(Append(u, h), K) = Append(Picked(u, K), h)
      /\ h \notin K => Picked(Append(u, h), K) = Picked(u, K)
  <2> HIDE DEF K
  <2> QED BY PickedAppend
<1>2. Mapped(ItemOf(m), Append(Picked(u, K), h)) = Append(Mapped(ItemOf(m), Picked(u, K)), ItemOf(m)[h])
  <2> DEFINE p == Picked(u, K)
  <2>1. p \in Seq(SentHit)
    BY <1>1
  <2> HIDE DEF p
  <2>2. Mapped(ItemOf(m), Append(p, h)) = Append(Mapped(ItemOf(m), p), ItemOf(m)[h])
    BY <2>1, MappedAppend
  <2> QED
    BY <2>2 DEF p
<1> QED
  BY <1>1, <1>2 DEF ItemsOf

\* The next word of a module, and where the reader is once it has read it.
LEMMA HitRead ==
  ASSUME NEW f, NEW d, NEW m, NEW e, NEW u, NEW v, NEW ws, NEW mods, NEW md,
         Within(f, d, m, e, u, v, ws, mods, md), v # <<>>
  PROVE  /\ ws # <<>> /\ m \in Known(f) /\ md.module_id = IdOf(m)
         /\ \E i \in DOMAIN m.hits :
              LET h == m.hits[i]
              IN  /\ h \in SentHit /\ Head(ws) = HitWord(ModOf(m), h)
                  /\ h \in Kept(f, m) =>
                       Within(f, d, m, e, Append(u, h), Tail(v), Tail(ws), mods,
                              [md EXCEPT !.data = Append(@, ItemOf(m)[h])])
                  /\ h \notin Kept(f, m) =>
                       Within(f, d, m, e, Append(u, h), Tail(v), Tail(ws), mods, md)
<1>1. /\ d \in Seq(Known(f)) /\ m \in Known(f) /\ e \in Seq(Fitting(f))
      /\ Parts(f) = Append(d, m) \o e
      /\ u \in Seq(SentHit) /\ v \in Seq(SentHit) /\ m.hits = u \o v
      /\ ws = After(f, m, v, e) /\ mods = Mapped(ReadOf(f), d)
      /\ md = Record(m, ItemsOf(f, m, u))
  BY DEF Within
<1>2. m \in SentModule /\ m \in Fitting(f) /\ IdOf(m) \in DOMAIN Crate
  BY <1>1, KnownModule
<1> DEFINE h == Head(v)
           i == Len(u) + 1
<1>3. /\ h \in SentHit /\ h = v[1] /\ Tail(v) \in Seq(SentHit) /\ v = <<h>> \o Tail(v)
      /\ Len(v) \in Nat /\ Len(v) > 0 /\ Len(u) \in Nat
  BY <1>1, HeadTailProperties, HeadTailConcat, LenProperties, EmptySeq
<1>4. i \in DOMAIN m.hits /\ m.hits[i] = h
  <2>1. /\ Len(u \o v) = Len(u) + Len(v) /\ u \o v \in Seq(SentHit)
        /\ \A k \in 1 .. Len(u) + Len(v) : (u \o v)[k] = IF k <= Len(u) THEN u[k] ELSE v[k - Len(u)]
        /\ DOMAIN (u \o v) = 1 .. Len(u \o v)
    BY <1>1, ConcatProperties, LenProperties
  <2>2. i \in 1 .. Len(u) + Len(v) /\ ~ (i <= Len(u)) /\ i - Len(u) = 1
    BY <1>3
  <2> QED
    BY <1>1, <1>3, <2>1, <2>2
<1>5. m.hits = Append(u, h) \o Tail(v) /\ Append(u, h) \in Seq(SentHit)
  <2>1. u \o (<<h>> \o Tail(v)) = Append(u, h) \o Tail(v)
    <3> DEFINE r == Tail(v)
    <3>1. u \in Seq(SentHit) /\ r \in Seq(SentHit) /\ h \in SentHit
      BY <1>1, <1>3
    <3> HIDE DEF h, r
    <3>2. u \o (<<h>> \o r) = Append(u, h) \o r
      BY <3>1, ConcatHead
    <3> QED
      BY <3>2 DEF r
  <2> QED
    BY <1>1, <1>3, <2>1, AppendProperties
<1>6. /\ ws # <<>> /\ Head(ws) = WordOf(m)[h]
      /\ Tail(ws) = After(f, m, Tail(v), e)
  <2> DEFINE q == Mapped(WordOf(m), v)
             r == MarkersOf(f, m) \o Rest(f, e)
  <2>1. q \in Seq(AnyWord) /\ r \in Seq(AnyWord)
    BY <1>1, <1>2, WordsMapped, AfterType
  <2>2. q # <<>> /\ Head(q) = WordOf(m)[h] /\ Tail(q) = Mapped(WordOf(m), Tail(v))
    BY <1>1, MappedFirst
  <2>3. ws = q \o r /\ After(f, m, Tail(v), e) = Mapped(WordOf(m), Tail(v)) \o r
    BY <1>1 DEF After
  <2> HIDE DEF q, r
  <2>4. q \o r # <<>> /\ Head(q \o r) = Head(q) /\ Tail(q \o r) = Tail(q) \o r
    BY <2>1, <2>2, ConcatFirst
  <2> QED
    BY <2>2, <2>3, <2>4
<1>7. WordOf(m)[h] = HitWord(ModOf(m), h)
  BY <1>2, <1>3 DEF WordOf
<1>8. md.module_id = IdOf(m)
  BY <1>1 DEF Record
<1> HIDE DEF h, i
<1>9. ASSUME h \in Kept(f, m)
      PROVE  Within(f, d, m, e, Append(u, h), Tail(v), Tail(ws), mods,
                    [md EXCEPT !.data = Append(@, ItemOf(m)[h])])
  <2>1. ItemsOf(f, m, Append(u, h)) = Append(ItemsOf(f, m, u), ItemOf(m)[h])
    BY <1>1, <1>3, <1>9, ItemsGrow
  <2>2. [md EXCEPT !.data = Append(@, ItemOf(m)[h])] = Record(m, ItemsOf(f, m, Append(u, h)))
    <3> DEFINE a == ItemsOf(f, m, u)
               b == ItemsOf(f, m, Append(u, h))
               x == ItemOf(m)[h]
    <3>1. md = Record(m, a) /\ b = Append(a, x)
      BY <1>1, <2>1
    <3> HIDE DEF a, b, x
    <3>2. md.data = a
      BY <3>1 DEF Record
    <3>3. [md EXCEPT !.data = b] = Record(m, b)
      BY <3>1, RecordData
    <3> QED
      BY <3>1, <3>2, <3>3 DEF b, x
  <2> QED
    BY <1>1, <1>3, <1>5, <1>6, <2>2 DEF Within
<1>10. ASSUME h \notin Kept(f, m)
       PROVE  Within(f, d, m, e, Append(u, h), Tail(v), Tail(ws), mods, md)
  <2>1. ItemsOf(f, m, Append(u, h)) = ItemsOf(f, m, u)
    BY <1>1, <1>3, <1>10, ItemsGrow
  <2> QED
    BY <1>1, <1>3, <1>5, <1>6, <2>1 DEF Within
<1> QED
  BY <1>1, <1>3, <1>4, <1>6, <1>7, <1>8, <1>9, <1>10

\* The last hit has been read.
LEMMA ModuleRead ==
  ASSUME NEW f, NEW d, NEW m, NEW e, NEW u, NEW v, NEW ws, NEW mods, NEW md,
         Within(f, d, m, e, u, v, ws, mods, md)
  PROVE  v = <<>> =>
           Between(f, Append(d, m), e, MarkersOf(f, m), ws,
                   Append(mods, [md EXCEPT !.event_counter = CounterOf(f, m)]))
<1>1. /\ d \in Seq(Known(f)) /\ m \in Known(f) /\ e \in Seq(Fitting(f))
      /\ Parts(f) = Append(d, m) \o e
      /\ u \in Seq(SentHit) /\ v \in Seq(SentHit) /\ m.hits = u \o v
      /\ ws = After(f, m, v, e) /\ mods = Mapped(ReadOf(f), d)
      /\ md = Record(m, ItemsOf(f, m, u))
  BY DEF Within
<1>2. m \in SentModule /\ m \in Fitting(f) /\ (f.revision = 0 => OldModule(m))
  BY <1>1, KnownModule
<1> HAVE v = <<>>
<1>3. ws = MarkersOf(f, m) \o Rest(f, e)
  BY <1>1, <1>2, AfterType
<1>4. m.hits = u
  BY <1>1, ConcatEmptySeq
<1>5. Append(mods, [md EXCEPT !.event_counter = CounterOf(f, m)]) = Mapped(ReadOf(f), Append(d, m))
  <2>1. ReadOf(f)[m] = [md EXCEPT !.event_counter = CounterOf(f, m)]
    BY <1>1, <1>4, ReadOfKnown
  <2>2. d \in Seq(SentModule)
    BY <1>1, KnownSeqs
  <2>3. Mapped(ReadOf(f), Append(d, m)) = Append(Mapped(ReadOf(f), d), ReadOf(f)[m])
    BY <1>2, <2>2, MappedAppend
  <2> QED
    BY <1>1, <2>1, <2>3
<1>6. MarkersOf(f, m) \in Seq(Word) /\ \A k \in DOMAIN MarkersOf(f, m) : IsMarker(MarkersOf(f, m)[k])
  <2>1. MarkersOf(f, m) \in Seq(Word)
    BY <1>1, <1>2, AfterType
  <2>2. CASE f.revision = 0
    BY <1>2, <2>1, <2>2 DEF MarkersOf, OldModule, IsMarker
  <2>3. CASE f.revision # 0
    BY <2>1, <2>3 DEF MarkersOf
  <2> QED
    BY <2>2, <2>3
<1>7. Append(d, m) \in Seq(Known(f))
  BY <1>1, AppendProperties
<1>8. f.revision # 0 => MarkersOf(f, m) = <<>>
  BY DEF MarkersOf
<1> QED
  BY <1>1, <1>3, <1>5, <1>6, <1>7, <1>8 DEF Between

-----------------------------------------------------------------------------
(* The reader of revision 1 *)

\* The event's modules, should the frame end here.
FlushedModules(mods, md) == IF md.module_id # 0 THEN Append(mods, md) ELSE mods

V1State(f, ws, mods, md) ==
  \/ \E d, e, t : Between(f, d, e, t, ws, FlushedModules(mods, md))
  \/ \E d, m, e, u, v : v # <<>> /\ Within(f, d, m, e, u, v, ws, mods, md)

LEMMA HeaderRecord ==
  ASSUME NEW m
  PROVE  set_header(m.header) = Record(m, <<>>)
<1> DEFINE id == IdOf(m)
           w == m.header
           a == [Cleared EXCEPT !.module_id = id]
<1>1. set_header(w) = [a EXCEPT !.header_word = w]
  BY DEF set_header, IdOf
<1>2. Record(m, <<>>) = [module_id |-> id, header_word |-> w, event_counter |-> 0, data |-> <<>>]
  BY DEF Record
<1> HIDE DEF id, w
<1>3. a = [module_id |-> id, header_word |-> ZeroWord, event_counter |-> 0, data |-> <<>>]
  BY SMT DEF Cleared
<1> HIDE DEF a
<1>4. [a EXCEPT !.header_word = w]
        = [module_id |-> id, header_word |-> w, event_counter |-> 0, data |-> <<>>]
  BY <1>3, SMT
<1> QED
  BY <1>1, <1>2, <1>4 DEF w

LEMMA RecordCounter ==
  ASSUME NEW m, NEW a
  PROVE  /\ [Record(m, a) EXCEPT !.event_counter = 0] = Record(m, a)
         /\ Record(m, a).module_id = IdOf(m)
BY DEF Record

LEMMA WithinV1 ==
  ASSUME NEW f, f.revision = 1, NEW d, NEW m, NEW e, NEW u, NEW v, NEW ws, NEW mods, NEW md,
         Within(f, d, m, e, u, v, ws, mods, md)
  PROVE  V1State(f, ws, mods, md)
<1>1. CASE v # <<>>
  BY <1>1 DEF V1State
<1>2. CASE v = <<>>
  <2>1. m \in Known(f) /\ md = Record(m, ItemsOf(f, m, u))
    BY DEF Within
  <2>2. CounterOf(f, m) = 0
    BY DEF CounterOf
  <2>3. [md EXCEPT !.event_counter = CounterOf(f, m)] = md /\ md.module_id = IdOf(m)
    BY <2>1, <2>2, RecordCounter
  <2>4. IdOf(m) # 0
    BY <2>1, KnownModule DEF NewModule, IdOf
  <2>5. FlushedModules(mods, md) = Append(mods, [md EXCEPT !.event_counter = CounterOf(f, m)])
    BY <2>3, <2>4 DEF FlushedModules
  <2>6. v = <<>> => Between(f, Append(d, m), e, MarkersOf(f, m), ws, FlushedModules(mods, md))
    BY <2>5, ModuleRead
  <2> QED
    BY <1>2, <2>6 DEF V1State
<1> QED
  BY <1>1, <1>2

LEMMA StepV1 ==
  ASSUME NEW f, f.revision = 1, f.modules \in Seq(SentModule),
         NEW ws, NEW mods, NEW md, V1State(f, ws, mods, md), ws # <<>>,
         NEW w, w = Head(ws), NEW mod, mod = Crate[md.module_id]
  PROVE  /\ is_module_header(w) /\ module_id(w) \in DOMAIN Crate =>
              V1State(f, Tail(ws), FlushedModules(mods, md), set_header(w))
         /\ is_module_header(w) /\ module_id(w) \notin DOMAIN Crate => ~ Decoder!Readable(f)
         /\ ~ is_module_header(w) /\ is_mvlc_scaler(mod.firmware) =>
              V1State(f, Tail(ws), mods, [md EXCEPT !.data = Append(@, [data_word |-> w])])
         /\ ~ is_module_header(w) /\ ~ is_mvlc_scaler(mod.firmware) /\ IsDataV1(w) =>
              /\ V1State(f, Tail(ws), mods, [md EXCEPT !.data = Append(@, Decoded(mod, w))])
              /\ HasMasks(mod)
         /\ ~ is_module_header(w) /\ ~ is_mvlc_scaler(mod.firmware) /\ ~ IsDataV1(w) =>
              V1State(f, Tail(ws), mods, md)
<1>1. CASE \E d, e, t : Between(f, d, e, t, ws, FlushedModules(mods, md))
  <2> DEFINE flushed == FlushedModules(mods, md)
  <2>1. PICK d, e, t : Between(f, d, e, t, ws, flushed)
    BY <1>1
  <2> HIDE DEF flushed
  <2>2. f.revision # 0 => t = <<>>
    BY <2>1, BetweenParts
  <2>3. PICK m, r :
          /\ m \in Fitting(f)
          /\ Head(ws) = m.header /\ is_module_header(Head(ws))
          /\ IdOf(m) \in DOMAIN Crate =>
               Within(f, d, m, r, <<>>, m.hits, Tail(ws), flushed, Record(m, <<>>))
          /\ IdOf(m) \notin DOMAIN Crate => ~ Decoder!Readable(f)
    <3>1. t = <<>> => \E m \in Fitting(f) : \E r :
            /\ Head(ws) = m.header /\ is_module_header(Head(ws))
            /\ IdOf(m) \in DOMAIN Crate =>
                 Within(f, d, m, r, <<>>, m.hits, Tail(ws), flushed, Record(m, <<>>))
            /\ IdOf(m) \notin DOMAIN Crate => ~ Decoder!Readable(f)
      BY <2>1, HeaderRead
    <3>2. f.revision # 0
      OBVIOUS
    <3> QED
      BY <2>2, <3>1, <3>2
  <2>4. /\ is_module_header(w) /\ module_id(w) = IdOf(m) /\ set_header(w) = Record(m, <<>>)
    BY <2>3, HeaderRecord DEF IdOf
  <2>5. IdOf(m) \in DOMAIN Crate => V1State(f, Tail(ws), flushed, Record(m, <<>>))
    <3> DEFINE none == <<>>
    <3>1. IdOf(m) \in DOMAIN Crate =>
            Within(f, d, m, r, none, m.hits, Tail(ws), flushed, Record(m, none))
      BY <2>3
    <3> HIDE DEF none
    <3>2. IdOf(m) \in DOMAIN Crate => V1State(f, Tail(ws), flushed, Record(m, none))
      BY <3>1, WithinV1
    <3> QED
      BY <3>2 DEF none
  <2> QED
    BY <2>3, <2>4, <2>5 DEF flushed
<1>2. CASE \E d, m, e, u, v : v # <<>> /\ Within(f, d, m, e, u, v, ws, mods, md)
  <2>1. PICK d, m, e, u, v : v # <<>> /\ Within(f, d, m, e, u, v, ws, mods, md)
    BY <1>2
  <2>2. m \in Known(f) /\ md.module_id = IdOf(m)
    BY <2>1, HitRead
  <2>3. mod = ModOf(m)
    BY <2>2 DEF ModOf
  <2>4. PICK i \in DOMAIN m.hits :
          LET h == m.hits[i]
          IN  /\ h \in SentHit /\ Head(ws) = HitWord(ModOf(m), h)
              /\ h \in Kept(f, m) =>
                   Within(f, d, m, e, Append(u, h), Tail(v), Tail(ws), mods,
                          [md EXCEPT !.data = Append(@, ItemOf(m)[h])])
              /\ h \notin Kept(f, m) =>
                   Within(f, d, m, e, Append(u, h), Tail(v), Tail(ws), mods, md)
    BY <2>1, HitRead
  <2> DEFINE h == m.hits[i]
  <2>5. /\ ~ is_module_header(w)
        /\ is_mvlc_scaler(ModOf(m).firmware) =>
             h \in Kept(f, m) /\ ItemOf(m)[h] = [data_word |-> w]
        /\ ~ is_mvlc_scaler(ModOf(m).firmware) =>
             /\ IsDataV1(w) <=> h \in Kept(f, m)
             /\ IsDataV1(w) => Decoded(ModOf(m), w) = ItemOf(m)[h] /\ HasMasks(ModOf(m))
    BY <2>2, <2>4, NewHits
  <2>6. /\ h \in Kept(f, m) =>
             V1State(f, Tail(ws), mods, [md EXCEPT !.data = Append(@, ItemOf(m)[h])])
        /\ h \notin Kept(f, m) => V1State(f, Tail(ws), mods, md)
    BY <2>4, WithinV1
  <2> HIDE DEF h
  <2> QED
    BY <2>3, <2>5, <2>6
<1> QED
  BY <1>1, <1>2 DEF V1State

LEMMA BeginningV1 ==
  ASSUME NEW f, WellFormed(f)
  PROVE  V1State(f, f.blob, <<>>, Cleared)
<1> DEFINE none == <<>>
<1>1. /\ Between(f, none, Parts(f), none, f.blob, none)
      /\ FlushedModules(none, Cleared) = none
  BY Beginning DEF FlushedModules, Cleared
<1> HIDE DEF none
<1>2. V1State(f, f.blob, none, Cleared)
  BY <1>1 DEF V1State
<1> QED
  BY <1>2 DEF none

LEMMA EndOfV1 ==
  ASSUME NEW f, f.revision = 1, f.modules \in Seq(SentModule),
         NEW ws, NEW mods, NEW md, V1State(f, ws, mods, md)
  PROVE  ws = <<>> => Decoder!Readable(f) /\ FlushedModules(mods, md) = Decoder!ReadModules(f)
<1>1. CASE \E d, e, t : Between(f, d, e, t, ws, FlushedModules(mods, md))
  <2> DEFINE flushed == FlushedModules(mods, md)
  <2>1. PICK d, e, t : Between(f, d, e, t, ws, flushed)
    BY <1>1
  <2> HIDE DEF flushed
  <2>2. ws = <<>> => Decoder!Readable(f) /\ flushed = Decoder!ReadModules(f)
    BY <2>1, AllRead
  <2> QED
    BY <2>2 DEF flushed
<1>2. CASE \E d, m, e, u, v : v # <<>> /\ Within(f, d, m, e, u, v, ws, mods, md)
  BY <1>2, HitRead
<1> QED
  BY <1>1, <1>2 DEF V1State

-----------------------------------------------------------------------------
(* The reader of revision 0 *)

\* The event's counter once the modules d have been read.
Counted(f, d, c) ==
  IF d = <<>> THEN c \in Indeterminate ELSE c = CounterOf(f, d[Len(d)])

V0State(f, ws, mods, c, md, got, rd) ==
  \/ \E d, e, t : /\ Between(f, d, e, t, ws, mods) /\ Counted(f, d, c)
                  /\ t # <<>> => ~ got /\ ~ rd
  \/ \E d, m, e, u, v : /\ Within(f, d, m, e, u, v, ws, mods, md) /\ Counted(f, d, c)
                        /\ got

\* The module that the marker w ends.
EndedBy(md, w) == [md EXCEPT !.event_counter = event_counter(w)]

LEMMA StepV0 ==
  ASSUME NEW f, f.revision = 0, f.modules \in Seq(SentModule),
         NEW ws, NEW mods, NEW c, NEW md, NEW got, NEW rd,
         V0State(f, ws, mods, c, md, got, rd), ws # <<>>,
         NEW w, w = Head(ws)
  PROVE  /\ is_module_header(w) /\ module_id(w) \in DOMAIN Crate =>
              V0State(f, Tail(ws), mods, c, set_header(w), TRUE, FALSE)
         /\ is_module_header(w) /\ module_id(w) \notin DOMAIN Crate => ~ Decoder!Readable(f)
         /\ is_mdpp_data(w) =>
              /\ V0State(f, Tail(ws), mods, c,
                         [md EXCEPT !.data = Append(@, DecodedNoBus(Crate[md.module_id], w))],
                         got, TRUE)
              /\ md.module_id \in DOMAIN Crate /\ HasMasks(Crate[md.module_id])
         /\ IsMarker(w) /\ (got \/ rd) =>
              \A x : V0State(f, Tail(ws), Append(mods, EndedBy(md, w)), event_counter(w), x, FALSE, FALSE)
         /\ ~ is_module_header(w) /\ ~ is_mdpp_data(w) /\ ~ ((got \/ rd) /\ IsMarker(w)) =>
              V0State(f, Tail(ws), mods, c, md, got, rd)
<1>1. CASE \E d, e, t : /\ Between(f, d, e, t, ws, mods) /\ Counted(f, d, c)
                        /\ t # <<>> => ~ got /\ ~ rd
  <2>1. PICK d, e, t : /\ Between(f, d, e, t, ws, mods) /\ Counted(f, d, c)
                       /\ t # <<>> => ~ got /\ ~ rd
    BY <1>1
  <2>2. CASE t # <<>>
    <3>1. /\ w \in Word /\ IsMarker(w) /\ Between(f, d, e, Tail(t), Tail(ws), mods)
      BY <2>1, <2>2, MarkerPassed
    <3>2. ~ is_module_header(w) /\ ~ is_mdpp_data(w)
      BY <3>1, MarkerIsNoData DEF IsMarker
    <3>3. ~ got /\ ~ rd
      BY <2>1, <2>2
    <3>4. V0State(f, Tail(ws), mods, c, md, got, rd)
      BY <2>1, <3>1, <3>3 DEF V0State
    <3> QED
      BY <3>2, <3>3, <3>4
  <2>3. CASE t = <<>>
    <3>1. PICK m, r :
            /\ m \in Fitting(f)
            /\ Head(ws) = m.header /\ is_module_header(Head(ws))
            /\ IdOf(m) \in DOMAIN Crate =>
                 Within(f, d, m, r, <<>>, m.hits, Tail(ws), mods, Record(m, <<>>))
            /\ IdOf(m) \notin DOMAIN Crate => ~ Decoder!Readable(f)
      <4>1. t = <<>> => \E m \in Fitting(f) : \E r :
              /\ Head(ws) = m.header /\ is_module_header(Head(ws))
              /\ IdOf(m) \in DOMAIN Crate =>
                   Within(f, d, m, r, <<>>, m.hits, Tail(ws), mods, Record(m, <<>>))
              /\ IdOf(m) \notin DOMAIN Crate => ~ Decoder!Readable(f)
        BY <2>1, HeaderRead
      <4> QED
        BY <2>3, <4>1
    <3>2. /\ is_module_header(w) /\ module_id(w) = IdOf(m) /\ set_header(w) = Record(m, <<>>)
      BY <3>1, HeaderRecord DEF IdOf
    <3>3. ~ is_mdpp_data(w)
      BY <3>2, HeaderIsNoData
    <3>4. m.header \in Word
      BY <3>1, SentModuleParts DEF Fitting
    <3>5. ~ IsMarker(w)
      BY <3>1, <3>2, <3>4, MarkerIsNoData DEF IsMarker
    <3>6. IdOf(m) \in DOMAIN Crate => V0State(f, Tail(ws), mods, c, Record(m, <<>>), TRUE, FALSE)
      BY <2>1, <3>1 DEF V0State
    <3> QED
      BY <3>1, <3>2, <3>3, <3>5, <3>6
  <2> QED
    BY <2>2, <2>3
<1>2. CASE \E d, m, e, u, v : /\ Within(f, d, m, e, u, v, ws, mods, md) /\ Counted(f, d, c)
                              /\ got
  <2>1. PICK d, m, e, u, v : /\ Within(f, d, m, e, u, v, ws, mods, md) /\ Counted(f, d, c)
                             /\ got
    BY <1>2
  <2>2. m \in Known(f) /\ md = Record(m, ItemsOf(f, m, u))
    BY <2>1 DEF Within
  <2>3. md.module_id = IdOf(m)
    BY <2>2, RecordCounter
  <2>4. CASE v # <<>>
    <3>1. PICK i \in DOMAIN m.hits :
            LET h == m.hits[i]
            IN  /\ h \in SentHit /\ Head(ws) = HitWord(ModOf(m), h)
                /\ h \in Kept(f, m) =>
                     Within(f, d, m, e, Append(u, h), Tail(v), Tail(ws), mods,
                            [md EXCEPT !.data = Append(@, ItemOf(m)[h])])
                /\ h \notin Kept(f, m) =>
                     Within(f, d, m, e, Append(u, h), Tail(v), Tail(ws), mods, md)
      BY <2>1, <2>4, HitRead
    <3> DEFINE h == m.hits[i]
    <3>2. /\ ~ is_module_header(w) /\ ~ is_end_of_event(w) /\ ~ is_frame_header(w)
          /\ is_mdpp_data(w) <=> h \in Kept(f, m)
          /\ is_mdpp_data(w) => DecodedNoBus(ModOf(m), w) = ItemOf(m)[h] /\ HasMasks(ModOf(m))
      BY <2>2, <3>1, OldHits
    <3>3. /\ h \in Kept(f, m) =>
               V0State(f, Tail(ws), mods, c, [md EXCEPT !.data = Append(@, ItemOf(m)[h])], got, TRUE)
          /\ h \notin Kept(f, m) => V0State(f, Tail(ws), mods, c, md, got, rd)
      BY <2>1, <3>1 DEF V0State
    <3>4. Crate[md.module_id] = ModOf(m) /\ md.module_id \in DOMAIN Crate
      BY <2>2, <2>3, KnownModule DEF ModOf
    <3> HIDE DEF h
    <3> QED
      BY <3>2, <3>3, <3>4 DEF IsMarker
  <2>5. CASE v = <<>>
    <3> DEFINE t == MarkersOf(f, m)
               a == Append(d, m)
    <3>1. Between(f, a, e, t, ws, Append(mods, [md EXCEPT !.event_counter = CounterOf(f, m)]))
      <4>1. v = <<>> => Between(f, a, e, t, ws,
                                Append(mods, [md EXCEPT !.event_counter = CounterOf(f, m)]))
        BY <2>1, ModuleRead
      <4> QED
        BY <2>5, <4>1
    <3>2. t # <<>> /\ t = m.marker
      BY <2>2, KnownModule DEF MarkersOf, OldModule
    <3>3. a[Len(a)] = m /\ a # <<>>
      <4>1. d \in Seq(Known(f))
        BY <2>1 DEF Within
      <4> QED
        BY <2>2, <4>1, AppendProperties, EmptySeq
    <3> HIDE DEF a, t
    <3>4. /\ w = t[1] /\ w \in Word /\ IsMarker(w)
          /\ Between(f, a, e, Tail(t), Tail(ws),
                     Append(mods, [md EXCEPT !.event_counter = CounterOf(f, m)]))
      BY <3>1, <3>2, MarkerPassed
    <3>5. ~ is_module_header(w) /\ ~ is_mdpp_data(w)
      BY <3>4, MarkerIsNoData DEF IsMarker
    <3>6. event_counter(w) = CounterOf(f, m)
      BY <3>2, <3>4 DEF CounterOf
    <3>7. Between(f, a, e, Tail(t), Tail(ws), Append(mods, EndedBy(md, w)))
      BY <3>4, <3>6 DEF EndedBy
    <3>8. Counted(f, a, event_counter(w))
      BY <3>3, <3>6 DEF Counted
    <3>9. \A x : V0State(f, Tail(ws), Append(mods, EndedBy(md, w)), event_counter(w), x, FALSE, FALSE)
      BY <3>7, <3>8 DEF V0State
    <3> QED
      BY <2>1, <3>4, <3>5, <3>9
  <2> QED
    BY <2>4, <2>5
<1> QED
  BY <1>1, <1>2 DEF V0State

LEMMA EndOfV0 ==
  ASSUME NEW f, f.revision = 0, f.modules \in Seq(SentModule),
         NEW ws, NEW mods, NEW c, NEW md, NEW got, NEW rd,
         V0State(f, ws, mods, c, md, got, rd)
  PROVE  ws = <<>> => /\ Decoder!Readable(f) /\ mods = Decoder!ReadModules(f)
                      /\ c \in Decoder!Counters(f)
<1>1. CASE \E d, e, t : /\ Between(f, d, e, t, ws, mods) /\ Counted(f, d, c)
                        /\ t # <<>> => ~ got /\ ~ rd
  <2>1. PICK d, e, t : Between(f, d, e, t, ws, mods) /\ Counted(f, d, c)
    BY <1>1
  <2>2. ws = <<>> => /\ Decoder!Readable(f) /\ mods = Decoder!ReadModules(f)
                     /\ Parts(f) = d
    BY <2>1, AllRead
  <2>3. Parts(f) = d => c \in Decoder!Counters(f)
    <3>1. Parts(f) = f.modules
      BY DEF Parts
    <3> HAVE Parts(f) = d
    <3>2. CASE d = <<>>
      BY <2>1, <3>1, <3>2 DEF Counted, Decoder!Counters
    <3>3. CASE d # <<>>
      <4>1. c = CounterOf(f, d[Len(d)])
        BY <2>1, <3>3 DEF Counted
      <4>2. Decoder!Counters(f) = {event_counter(d[Len(d)].marker[1])}
        BY <3>1, <3>3, DecoderWords DEF Decoder!Counters
      <4> QED
        BY <4>1, <4>2 DEF CounterOf
    <3> QED
      BY <3>2, <3>3
  <2> QED
    BY <2>2, <2>3
<1>2. CASE \E d, m, e, u, v : /\ Within(f, d, m, e, u, v, ws, mods, md) /\ Counted(f, d, c)
                              /\ got
  <2>1. PICK d, m, e, u, v : Within(f, d, m, e, u, v, ws, mods, md)
    BY <1>2
  <2>2. CASE v # <<>>
    BY <2>1, <2>2, HitRead
  <2>3. CASE v = <<>>
    <3> DEFINE t == MarkersOf(f, m)
               q == Append(mods, [md EXCEPT !.event_counter = CounterOf(f, m)])
    <3>1. Between(f, Append(d, m), e, t, ws, q)
      <4>1. v = <<>> => Between(f, Append(d, m), e, t, ws, q)
        BY <2>1, ModuleRead
      <4> QED
        BY <2>3, <4>1
    <3>2. t # <<>>
      <4>1. m \in Known(f)
        BY <2>1 DEF Within
      <4> QED
        BY <4>1, KnownModule DEF MarkersOf, OldModule
    <3> HIDE DEF t, q
    <3> QED
      BY <3>1, <3>2, MarkerPassed
  <2> QED
    BY <2>2, <2>3
<1> QED
  BY <1>1, <1>2 DEF V0State

-----------------------------------------------------------------------------
(* The reader implements FrameDecoder *)

FramesWellFormed == \A f \in Frames : WellFormed(f)

\* What the reader has of the frame it is reading.
ReadSoFar ==
  /\ pc # "undefined"
  /\ pc = "v1" => /\ frame.revision = 1 /\ mesy_event.event_counter \in Indeterminate
                  /\ V1State(frame, words, mesy_event.modules, mod_data)
  /\ pc = "v0" => /\ frame.revision = 0
                  /\ V0State(frame, words, mesy_event.modules, mesy_event.event_counter,
                             mod_data, got_header, reading_data)

LEMMA EventFields ==
  ASSUME NEW ev, IsEvent(ev), NEW md, NEW c
  PROVE  /\ ev = [modules |-> ev.modules, event_counter |-> ev.event_counter]
         /\ Added(ev, md).modules = Append(ev.modules, md)
         /\ Added(ev, md).event_counter = ev.event_counter
         /\ [Added(ev, md) EXCEPT !.event_counter = c].modules = Append(ev.modules, md)
         /\ [Added(ev, md) EXCEPT !.event_counter = c].event_counter = c
BY SMT DEF IsEvent, Added

LEMMA FlushedFields ==
  ASSUME Types
  PROVE  /\ IsEvent(mesy_event) /\ IsEvent(FlushedEvent)
         /\ FlushedEvent.modules = FlushedModules(mesy_event.modules, mod_data)
         /\ FlushedEvent.event_counter = mesy_event.event_counter
<1>1. EventOK(mesy_event)
  BY TypesParts
<1>2. EventOK(Added(mesy_event, mod_data))
  BY <1>1, AddedOK
<1>3. IsEvent(mesy_event) /\ IsEvent(FlushedEvent)
  BY <1>1, <1>2 DEF EventOK, FlushedEvent
<1>4. /\ Added(mesy_event, mod_data).modules = Append(mesy_event.modules, mod_data)
      /\ Added(mesy_event, mod_data).event_counter = mesy_event.event_counter
  BY <1>3, EventFields
<1> QED
  BY <1>3, <1>4 DEF FlushedEvent, FlushedModules

LEMMA FrameBegun ==
  ASSUME FramesWellFormed, NEW f \in Frames, ReadV0(f) \/ ReadV1(f)
  PROVE  ReadSoFar' /\ done' = done /\ events' = events
<1>1. /\ frame' = f /\ words' = f.blob /\ WellFormed(f)
      /\ done' = done /\ events' = events
  BY DEF ReadV0, ReadV1, Begin, output, FramesWellFormed
<1>2. PICK n \in Indeterminate : mesy_event' = [modules |-> <<>>, event_counter |-> n]
  BY DEF ReadV0, ReadV1, Fresh
<1>3. mesy_event'.modules = <<>> /\ mesy_event'.event_counter = n
  BY <1>2
<1>4. Between(f, <<>>, Parts(f), <<>>, f.blob, <<>>)
  BY <1>1, Beginning
<1>5. CASE ReadV0(f)
  <2>1. f.revision = 0 /\ pc' = "v0"
    BY <1>5 DEF ReadV0
  <2>2. Counted(f, <<>>, n)
    BY DEF Counted
  <2> DEFINE none == <<>>
  <2>3. Between(f, none, Parts(f), none, f.blob, none) /\ Counted(f, none, n) /\ none = <<>>
    BY <1>4, <2>2
  <2> HIDE DEF none
  <2>4. \A md, got, rd : V0State(f, f.blob, none, n, md, got, rd)
    BY <2>3 DEF V0State
  <2> QED
    BY <1>1, <1>3, <2>1, <2>3, <2>4 DEF ReadSoFar
<1>6. CASE ReadV1(f)
  <2>1. f.revision = 1 /\ pc' = "v1" /\ mod_data' = Cleared
    BY <1>6 DEF ReadV1
  <2>2. V1State(f, f.blob, <<>>, Cleared)
    BY <1>1, BeginningV1
  <2> QED
    BY <1>1, <1>3, <2>1, <2>2 DEF ReadSoFar
<1> QED
  BY <1>1, <1>5, <1>6

LEMMA FrameGivenUp ==
  ASSUME NEW f \in Frames, ~ Decoder!Readable(f), done' = Append(done, f), events' = events
  PROVE  Decoder!Next
BY DEF Decoder!Next, Decoder!Decode

LEMMA FrameRead ==
  ASSUME NEW f \in Frames, Decoder!Readable(f), done' = Append(done, f),
         NEW ev, IsEvent(ev), ev.modules = Decoder!ReadModules(f),
         ev.event_counter \in Decoder!Counters(f), events' = Append(events, ev)
  PROVE  Decoder!Next
<1>1. ev = [modules |-> Decoder!ReadModules(f), event_counter |-> ev.event_counter]
  BY EventFields
<1>2. \E n \in Decoder!Counters(f) :
        events' = Append(events, [modules |-> Decoder!ReadModules(f), event_counter |-> n])
  BY <1>1
<1> QED
  BY <1>2 DEF Decoder!Next, Decoder!Decode

\* The reader goes on with the frame f, whatever else there is of the frame.
LEMMA WordOfV1 ==
  ASSUME NEW f, f.revision = 1, f.modules \in Seq(SentModule),
         V1State(f, words, mesy_event.modules, mod_data), IInv,
         is_module_header(frame.blob[1]),
         HeaderV1 \/ ScalerV1 \/ DataV1 \/ SkipV1
  PROVE  /\ V1State(f, words', mesy_event'.modules, mod_data')
         /\ mesy_event'.event_counter = mesy_event.event_counter
<1>1. pc = "v1" /\ words # <<>> /\ words' = Tail(words)
  BY DEF HeaderV1, ScalerV1, DataV1, SkipV1, Reading, NextWord
<1> DEFINE mod == Crate[mod_data.module_id]
           w == next_word
           mods == mesy_event.modules
<1>2. V1State(f, words, mods, mod_data)
  OBVIOUS
<1>3. /\ is_module_header(w) /\ module_id(w) \in DOMAIN Crate =>
           V1State(f, Tail(words), FlushedModules(mods, mod_data), set_header(w))
      /\ ~ is_module_header(w) /\ is_mvlc_scaler(mod.firmware) =>
           V1State(f, Tail(words), mods, [mod_data EXCEPT !.data = Append(@, [data_word |-> w])])
      /\ ~ is_module_header(w) /\ ~ is_mvlc_scaler(mod.firmware) /\ IsDataV1(w) =>
           V1State(f, Tail(words), mods, [mod_data EXCEPT !.data = Append(@, Decoded(mod, w))])
      /\ ~ is_module_header(w) /\ ~ is_mvlc_scaler(mod.firmware) /\ ~ IsDataV1(w) =>
           V1State(f, Tail(words), mods, mod_data)
  <2>1. w = Head(words)
    BY DEF next_word
  <2> HIDE DEF w, mod, mods
  <2> QED
    BY <1>1, <1>2, <2>1, StepV1 DEF mod
<1>4. CASE HeaderV1
  <2>1. /\ is_module_header(w) /\ module_id(w) \in DOMAIN Crate
        /\ mesy_event' = FlushedEvent /\ mod_data' = set_header(w)
    BY <1>4 DEF HeaderV1, has_module
  <2>2. /\ mesy_event'.modules = FlushedModules(mods, mod_data)
        /\ mesy_event'.event_counter = mesy_event.event_counter
    BY <2>1, FlushedFields DEF IInv
  <2> HIDE DEF w, mods
  <2> QED
    BY <1>1, <1>3, <2>1, <2>2
<1>5. CASE ScalerV1 \/ DataV1 \/ SkipV1
  <2>1. ~ is_module_header(w) /\ mesy_event' = mesy_event
    BY <1>5 DEF ScalerV1, DataV1, SkipV1, local
  <2>2. /\ mod_data.module_id = current_module /\ mod = Crate[current_module]
        /\ reading_mvlc_scaler = is_mvlc_scaler(mod.firmware)
    BY <1>1, <2>1, PointerSet DEF Reading, IInv, DataFiledRight
  <2>3. V1State(f, Tail(words), mods, mod_data')
    <3>1. CASE ScalerV1
      BY <1>3, <2>1, <2>2, <3>1 DEF ScalerV1, add
    <3>2. CASE DataV1
      BY <1>3, <2>1, <2>2, <3>2 DEF DataV1, add
    <3>3. CASE SkipV1
      BY <1>3, <2>1, <2>2, <3>3 DEF SkipV1
    <3> QED
      BY <1>5, <3>1, <3>2, <3>3
  <2> QED
    BY <1>1, <2>1, <2>3
<1> QED
  BY <1>4, <1>5

\* A frame of revision 1 that is well-formed begins with a header.
LEMMA ShownBegins ==
  ASSUME NEW f, WellFormed(f), f.revision = 1
  PROVE  f.blob # <<>> => is_module_header(f.blob[1])
<1> HAVE f.blob # <<>>
<1>1. f.modules \in Seq(SentModule)
  BY DEF WellFormed
<1> DEFINE none == <<>>
           ws == f.blob
           e == Parts(f)
<1>2. Between(f, none, e, none, ws, none) /\ ws # <<>>
  BY Beginning
<1>0. none = <<>>
  OBVIOUS
<1> HIDE DEF none, ws, e
<1>3. ws \in Seq(AnyWord)
  <2>1. ws = none \o Rest(f, e) /\ Rest(f, e) \in Seq(AnyWord)
    BY <1>2, BetweenParts
  <2> QED
    BY <1>0, <2>1, ConcatEmptySeq
<1>4. is_module_header(Head(ws))
  <2>1. none = <<>> => is_module_header(Head(ws))
    BY <1>1, <1>2, HeaderRead
  <2> QED
    BY <1>0, <2>1
<1>5. Head(ws) = ws[1]
  BY <1>2, <1>3, HeadAndTail
<1> QED
  BY <1>4, <1>5 DEF ws

\* A word that is left is a word of the blob.
LEMMA WordLeft ==
  ASSUME IInv, Reading("v1")
  PROVE  frame.blob # <<>>
<1>1. Types /\ pc = "v1" /\ words # <<>>
  BY DEF IInv, Reading
<1>2. PICK n, h : At(n, h)
  BY <1>1 DEF IInv, Position
<1>3. n \in Nat /\ n + 1 \in 1 .. Len(frame.blob)
  BY <1>1, <1>2, WordAt DEF At
<1> QED
  BY <1>3

LEMMA HeaderFirst ==
  ASSUME FramesWellFormed, IInv, ReadSoFar, Reading("v1")
  PROVE  is_module_header(frame.blob[1])
<1>1. pc = "v1" /\ frame \in Frames /\ frame.revision = 1
  BY DEF IInv, Types, Reading, ReadSoFar
<1>4. frame.blob # <<>>
  BY WordLeft
<1>5. WellFormed(frame)
  BY <1>1 DEF FramesWellFormed
<1> QED
  BY <1>1, <1>4, <1>5, ShownBegins

LEMMA WordReadV1 ==
  ASSUME FramesWellFormed, IInv, ReadSoFar,
         HeaderV1 \/ ScalerV1 \/ DataV1 \/ SkipV1
  PROVE  ReadSoFar' /\ done' = done /\ events' = events
<1>1. /\ pc = "v1" /\ pc' = "v1" /\ frame' = frame
      /\ done' = done /\ events' = events
  BY DEF HeaderV1, ScalerV1, DataV1, SkipV1, Reading, NextWord, output
<1>2. /\ frame.modules \in Seq(SentModule) /\ frame.revision = 1
      /\ mesy_event.event_counter \in Indeterminate
      /\ V1State(frame, words, mesy_event.modules, mod_data)
  BY <1>1 DEF IInv, Types, ReadSoFar, FramesWellFormed, WellFormed
<1>3. /\ V1State(frame, words', mesy_event'.modules, mod_data')
      /\ mesy_event'.event_counter = mesy_event.event_counter
  <2>1. is_module_header(frame.blob[1])
    BY HeaderFirst DEF HeaderV1, ScalerV1, DataV1, SkipV1, Reading
  <2> QED
    BY <1>2, <2>1, WordOfV1
<1> QED
  BY <1>1, <1>2, <1>3 DEF ReadSoFar

LEMMA WordReadV0 ==
  ASSUME FramesWellFormed, IInv, ReadSoFar,
         HeaderV0 \/ DataV0 \/ MarkerV0 \/ SkipV0
  PROVE  ReadSoFar' /\ done' = done /\ events' = events
<1>1. /\ pc = "v0" /\ pc' = "v0" /\ words # <<>> /\ words' = Tail(words) /\ frame' = frame
      /\ done' = done /\ events' = events
  BY DEF HeaderV0, DataV0, MarkerV0, SkipV0, Reading, NextWord, output
<1>2. /\ frame \in Frames /\ frame.modules \in Seq(SentModule) /\ frame.revision = 0
      /\ V0State(frame, words, mesy_event.modules, mesy_event.event_counter,
                 mod_data, got_header, reading_data)
  BY <1>1 DEF IInv, Types, ReadSoFar, FramesWellFormed, WellFormed
<1> DEFINE w == next_word
           mods == mesy_event.modules
           c == mesy_event.event_counter
           n == EndedBy(mod_data, w)
<1>3. /\ is_module_header(w) /\ module_id(w) \in DOMAIN Crate =>
           V0State(frame, Tail(words), mods, c, set_header(w), TRUE, FALSE)
      /\ is_mdpp_data(w) =>
           V0State(frame, Tail(words), mods, c,
                   [mod_data EXCEPT !.data = Append(@, DecodedNoBus(Crate[mod_data.module_id], w))],
                   got_header, TRUE)
      /\ IsMarker(w) /\ (got_header \/ reading_data) =>
           \A x : V0State(frame, Tail(words), Append(mods, n), event_counter(w), x, FALSE, FALSE)
      /\ ~ is_module_header(w) /\ ~ is_mdpp_data(w)
           /\ ~ ((got_header \/ reading_data) /\ IsMarker(w)) =>
           V0State(frame, Tail(words), mods, c, mod_data, got_header, reading_data)
  <2>1. w = Head(words)
    BY DEF next_word
  <2>2. V0State(frame, words, mods, c, mod_data, got_header, reading_data)
    BY <1>2
  <2>4. words # <<>> /\ frame.revision = 0 /\ frame.modules \in Seq(SentModule)
    BY <1>1, <1>2
  <2> HIDE DEF w, mods, c, n
  <2>5. is_module_header(w) /\ module_id(w) \in DOMAIN Crate =>
          V0State(frame, Tail(words), mods, c, set_header(w), TRUE, FALSE)
    BY <2>1, <2>2, <2>4, StepV0
  <2>6. is_mdpp_data(w) =>
          V0State(frame, Tail(words), mods, c,
                  [mod_data EXCEPT !.data = Append(@, DecodedNoBus(Crate[mod_data.module_id], w))],
                  got_header, TRUE)
    BY <2>1, <2>2, <2>4, StepV0
  <2>7. IsMarker(w) /\ (got_header \/ reading_data) =>
          \A x : V0State(frame, Tail(words), Append(mods, n), event_counter(w), x, FALSE, FALSE)
    BY <2>1, <2>2, <2>4, StepV0 DEF n
  <2>8. ~ is_module_header(w) /\ ~ is_mdpp_data(w)
          /\ ~ ((got_header \/ reading_data) /\ IsMarker(w)) =>
          V0State(frame, Tail(words), mods, c, mod_data, got_header, reading_data)
    BY <2>1, <2>2, <2>4, StepV0
  <2> QED
    BY <2>5, <2>6, <2>7, <2>8
<1>4. IsEvent(mesy_event)
  BY DEF IInv, Types
<1>5. CASE HeaderV0
  <2>1. /\ is_module_header(w) /\ module_id(w) \in DOMAIN Crate /\ mesy_event' = mesy_event
        /\ mod_data' = set_header(w) /\ got_header' = TRUE /\ reading_data' = FALSE
    BY <1>5 DEF HeaderV0, has_module, local
  <2> QED
    BY <1>1, <1>2, <1>3, <2>1 DEF ReadSoFar
<1>6. CASE DataV0
  <2>1. /\ is_mdpp_data(w) /\ mesy_event' = mesy_event
        /\ mod_data' = [mod_data EXCEPT !.data = Append(@, DecodedNoBus(Crate[mod_data.module_id], w))]
        /\ got_header' = got_header /\ reading_data' = TRUE
    BY <1>6 DEF DataV0, add, local
  <2> QED
    BY <1>1, <1>2, <1>3, <2>1 DEF ReadSoFar
<1>7. CASE MarkerV0
  <2>1. /\ IsMarker(w) /\ (got_header \/ reading_data)
        /\ mesy_event' = [Added(mesy_event, n) EXCEPT !.event_counter = n.event_counter]
        /\ got_header' = FALSE /\ reading_data' = FALSE
    BY <1>7 DEF MarkerV0, Ends, IsMarker, EndedBy
  <2>2. n.event_counter = event_counter(w)
    BY SMT DEF IInv, Types, IsModData, EndedBy
  <2>3. mesy_event'.modules = Append(mods, n) /\ mesy_event'.event_counter = event_counter(w)
    <3> HIDE DEF n, w
    <3> QED
      BY <1>4, <2>1, <2>2, EventFields
  <2> HIDE DEF n, w, mods
  <2> QED
    BY <1>1, <1>2, <1>3, <2>1, <2>3 DEF ReadSoFar
<1>8. CASE SkipV0
  <2>1. /\ ~ is_module_header(w) /\ ~ is_mdpp_data(w)
        /\ ~ ((got_header \/ reading_data) /\ IsMarker(w))
        /\ mesy_event' = mesy_event /\ mod_data' = mod_data
        /\ got_header' = got_header /\ reading_data' = reading_data
    BY <1>8 DEF SkipV0, Ends, IsMarker, local, flags
  <2> QED
    BY <1>1, <1>2, <1>3, <2>1 DEF ReadSoFar
<1> QED
  BY <1>1, <1>5, <1>6, <1>7, <1>8

\* Nothing of a well-formed frame is undefined, or data of no module.
LEMMA NothingUndefined ==
  ASSUME FramesWellFormed, IInv, ReadSoFar
  PROVE  ~ DataUndefinedV1 /\ ~ DataUndefinedV0 /\ ~ DataThrowsV0
<1> DEFINE mod == Crate[mod_data.module_id]
           w == next_word
           mods == mesy_event.modules
           c == mesy_event.event_counter
<1>1. w = Head(words)
  BY DEF next_word
<1>2. ASSUME DataUndefinedV1 PROVE FALSE
  <2>1. /\ Reading("v1") /\ words # <<>> /\ ~ is_module_header(w) /\ IsDataV1(w)
        /\ ~ reading_mvlc_scaler /\ pc = "v1"
        /\ current_module # NoModule => ~ HasMasks(Crate[current_module])
    BY <1>2 DEF DataUndefinedV1, Reading
  <2>2. current_module # NoModule
    BY <2>1, HeaderFirst, PointerSet
  <2>3. /\ mod_data.module_id = current_module /\ mod = Crate[current_module]
        /\ reading_mvlc_scaler = is_mvlc_scaler(mod.firmware)
    BY <2>1, <2>2 DEF IInv, DataFiledRight
  <2>4. /\ frame.modules \in Seq(SentModule) /\ frame.revision = 1
        /\ V1State(frame, words, mods, mod_data)
    BY <2>1 DEF IInv, Types, ReadSoFar, FramesWellFormed, WellFormed
  <2> HIDE DEF w, mods, mod
  <2>5. ~ is_module_header(w) /\ ~ is_mvlc_scaler(mod.firmware) /\ IsDataV1(w) => HasMasks(mod)
    BY <1>1, <2>1, <2>4, StepV1 DEF mod
  <2> QED
    BY <2>1, <2>2, <2>3, <2>5
<1>3. ASSUME DataUndefinedV0 \/ DataThrowsV0 PROVE FALSE
  <2>1. /\ words # <<>> /\ is_mdpp_data(w) /\ pc = "v0"
        /\ ~ (mod_data.module_id \in DOMAIN Crate /\ HasMasks(mod))
    BY <1>3 DEF DataUndefinedV0, DataThrowsV0, Reading, has_module
  <2>2. /\ frame.modules \in Seq(SentModule) /\ frame.revision = 0
        /\ V0State(frame, words, mods, c, mod_data, got_header, reading_data)
    BY <2>1 DEF IInv, Types, ReadSoFar, FramesWellFormed, WellFormed
  <2> HIDE DEF w, mods, c, mod
  <2>3. is_mdpp_data(w) => mod_data.module_id \in DOMAIN Crate /\ HasMasks(mod)
    BY <1>1, <2>1, <2>2, StepV0 DEF mod
  <2> QED
    BY <2>1, <2>3
<1> QED
  BY <1>2, <1>3

LEMMA FrameEnded ==
  ASSUME FramesWellFormed, IInv, ReadSoFar,
         HeaderThrowsV1 \/ EndV1 \/ HeaderThrowsV0 \/ EndV0
  PROVE  ReadSoFar' /\ Decoder!Next
<1>1. pc' = "idle" /\ pc \in {"v0", "v1"} /\ done' = Append(done, frame)
  BY DEF HeaderThrowsV1, EndV1, HeaderThrowsV0, EndV0, Reading, Throw, Finish
<1>2. frame \in Frames /\ frame.modules \in Seq(SentModule)
  BY <1>1 DEF IInv, Types, FramesWellFormed, WellFormed
<1>3. ReadSoFar'
  BY <1>1 DEF ReadSoFar
<1>4. CASE HeaderThrowsV1
  <2>1. /\ pc = "v1" /\ words # <<>> /\ is_module_header(Head(words))
        /\ module_id(Head(words)) \notin DOMAIN Crate /\ events' = events
    BY <1>4 DEF HeaderThrowsV1, Reading, has_module, next_word, Throw
  <2>2. frame.revision = 1 /\ V1State(frame, words, mesy_event.modules, mod_data)
    BY <2>1 DEF ReadSoFar
  <2>3. ~ Decoder!Readable(frame)
    BY <1>2, <2>1, <2>2, StepV1
  <2> QED
    BY <1>1, <1>2, <1>3, <2>1, <2>3, FrameGivenUp
<1>5. CASE EndV1
  <2>1. pc = "v1" /\ words = <<>> /\ events' = Append(events, FlushedEvent)
    BY <1>5 DEF EndV1, Finish
  <2>2. /\ frame.revision = 1 /\ V1State(frame, words, mesy_event.modules, mod_data)
        /\ mesy_event.event_counter \in Indeterminate
    BY <2>1 DEF ReadSoFar
  <2>3. /\ Decoder!Readable(frame)
        /\ FlushedModules(mesy_event.modules, mod_data) = Decoder!ReadModules(frame)
    <3>1. words = <<>> =>
            /\ Decoder!Readable(frame)
            /\ FlushedModules(mesy_event.modules, mod_data) = Decoder!ReadModules(frame)
      BY <1>2, <2>2, EndOfV1
    <3> QED
      BY <2>1, <3>1
  <2>4. Decoder!Counters(frame) = Indeterminate
    BY <2>2 DEF Decoder!Counters
  <2>5. /\ IsEvent(FlushedEvent) /\ FlushedEvent.modules = Decoder!ReadModules(frame)
        /\ FlushedEvent.event_counter \in Decoder!Counters(frame)
    BY <2>2, <2>3, <2>4, FlushedFields DEF IInv
  <2> QED
    BY <1>1, <1>2, <1>3, <2>1, <2>3, <2>5, FrameRead
<1>6. CASE HeaderThrowsV0
  <2>1. /\ pc = "v0" /\ words # <<>> /\ is_module_header(Head(words))
        /\ module_id(Head(words)) \notin DOMAIN Crate /\ events' = events
    BY <1>6 DEF HeaderThrowsV0, Reading, has_module, next_word, Throw
  <2>2. /\ frame.revision = 0
        /\ V0State(frame, words, mesy_event.modules, mesy_event.event_counter,
                   mod_data, got_header, reading_data)
    BY <2>1 DEF ReadSoFar
  <2>3. ~ Decoder!Readable(frame)
    BY <1>2, <2>1, <2>2, StepV0
  <2> QED
    BY <1>1, <1>2, <1>3, <2>1, <2>3, FrameGivenUp
<1>7. CASE EndV0
  <2>1. pc = "v0" /\ words = <<>> /\ events' = Append(events, mesy_event)
    BY <1>7 DEF EndV0, Finish
  <2>2. /\ frame.revision = 0
        /\ V0State(frame, words, mesy_event.modules, mesy_event.event_counter,
                   mod_data, got_header, reading_data)
    BY <2>1 DEF ReadSoFar
  <2>3. /\ Decoder!Readable(frame) /\ mesy_event.modules = Decoder!ReadModules(frame)
        /\ mesy_event.event_counter \in Decoder!Counters(frame)
    <3>1. words = <<>> =>
            /\ Decoder!Readable(frame) /\ mesy_event.modules = Decoder!ReadModules(frame)
            /\ mesy_event.event_counter \in Decoder!Counters(frame)
      BY <1>2, <2>2, EndOfV0
    <3> QED
      BY <2>1, <3>1
  <2>4. IsEvent(mesy_event)
    BY DEF IInv, Types
  <2> QED
    BY <1>1, <1>2, <1>3, <2>1, <2>3, <2>4, FrameRead
<1> QED
  BY <1>4, <1>5, <1>6, <1>7

LEMMA DecoderStep ==
  ASSUME FramesWellFormed
  PROVE  IInv /\ ReadSoFar /\ [Next]_vars
           => ReadSoFar' /\ [Decoder!Next]_(Decoder!vars)
<1> SUFFICES ASSUME IInv, ReadSoFar, [Next]_vars
             PROVE  ReadSoFar' /\ (Decoder!Next \/ (done' = done /\ events' = events))
  BY DEF Decoder!vars
<1>1. ASSUME NEW f \in Frames, ReadV0(f) \/ ReadV1(f)
      PROVE  ReadSoFar' /\ done' = done /\ events' = events
  BY <1>1, FrameBegun
<1>2. ASSUME NEW f \in Frames, UnknownRevision(f) PROVE ReadSoFar' /\ Decoder!Next
  <2>1. /\ pc' = "idle" /\ f.revision \notin {0, 1} /\ done' = Append(done, f)
        /\ events' = events
    BY <1>2 DEF UnknownRevision, Begin
  <2>2. ~ Decoder!Readable(f)
    BY <2>1 DEF Decoder!Readable
  <2> QED
    BY <2>1, <2>2, FrameGivenUp DEF ReadSoFar
<1>3. CASE HeaderThrowsV1 \/ EndV1 \/ HeaderThrowsV0 \/ EndV0
  BY <1>3, FrameEnded
<1>4. CASE HeaderV1 \/ ScalerV1 \/ DataV1 \/ SkipV1
  BY <1>4, WordReadV1
<1>5. CASE HeaderV0 \/ DataV0 \/ MarkerV0 \/ SkipV0
  BY <1>5, WordReadV0
<1>6. CASE NoMoreFrames \/ UNCHANGED vars
  <2>1. /\ pc' = pc /\ words' = words /\ frame' = frame /\ mesy_event' = mesy_event
        /\ mod_data' = mod_data /\ got_header' = got_header /\ reading_data' = reading_data
        /\ done' = done /\ events' = events
    BY <1>6 DEF NoMoreFrames, vars, input, local, flags, output
  <2> QED
    BY <2>1 DEF ReadSoFar
<1>7. ~ DataUndefinedV1 /\ ~ DataUndefinedV0 /\ ~ DataThrowsV0
  BY NothingUndefined
<1> QED
  BY <1>1, <1>2, <1>3, <1>4, <1>5, <1>6, <1>7, Zenon DEF Next

(* The reader implements FrameDecoder, for every crate, all well-formed     *)
(* frames of any length and any number of them: whatever was read before,   *)
(* and however that ended, a frame gives the analysis its modules with      *)
(* exactly their hits, or, if it cannot be read, nothing.  It never goes    *)
(* through a pointer or by masks that were not set.                         *)
THEOREM DecoderCorrect ==
  ASSUME FramesWellFormed
  PROVE  Spec => ImplementsDecoder /\ [](pc # "undefined")
<1>1. Init => Decoder!Init /\ ReadSoFar
  BY DEF Init, Decoder!Init, ReadSoFar
<1>2. IInv /\ ReadSoFar /\ [Next]_vars => ReadSoFar' /\ [Decoder!Next]_(Decoder!vars)
  BY DecoderStep
<1>3. ReadSoFar => pc # "undefined"
  BY DEF ReadSoFar
<1>4. Spec => Decoder!Spec /\ [](pc # "undefined")
  BY <1>1, <1>2, <1>3, Invariance, PTL DEF Spec, Decoder!Spec
<1> QED
  BY <1>4 DEF ImplementsDecoder

-----------------------------------------------------------------------------
(* What an analysis hears of the modules of a frame of revision 1 *)

Sendable == {m \in SentModule : IdOf(m) \in DOMAIN Crate /\ NewModule(m)}

ItemsHeard(m) == ItemsOf([revision |-> 1], m, m.hits)
HeardData(m) == [module_id |-> IdOf(m), data |-> ItemsHeard(m)]
HeardFrom == [m \in SentModule |-> IF ItemsHeard(m) = <<>> THEN <<>> ELSE <<HeardData(m)>>]
Hearing == {HeardData(m) : m \in SentModule}

\* What it learns from the modules of an event.
LearnedFrom(mods) ==
  FlattenSeq([i \in DOMAIN mods |->
    IF mods[i].data = <<>> THEN <<>>
    ELSE <<[module_id |-> mods[i].module_id, data |-> mods[i].data]>>])

\* A module in the event that was published.
Shown == [m \in SentModule |-> [header_word |-> m.header, data |-> Words(m)]]
ShownFrame(G, b) == [revision |-> 1, modules |-> G, blob |-> b]

LEMMA HearingYields == Yields(HeardFrom, SentModule, Hearing)
<1>1. ASSUME NEW m \in SentModule PROVE HeardFrom[m] \in Seq(Hearing)
  <2>1. HeardData(m) \in Hearing
    BY DEF Hearing
  <2>2. <<>> \in Seq(Hearing) /\ <<HeardData(m)>> \in Seq(Hearing)
    BY <2>1
  <2> QED
    BY <2>2 DEF HeardFrom
<1> QED
  BY <1>1 DEF Yields

\* The event a frame is read as tells what its modules sent.
LEMMA AllHeard ==
  ASSUME NEW f, f.revision = 1, f.modules \in Seq(SentModule)
  PROVE  LearnedFrom(Decoder!ReadModules(f)) = FlattenSeq(Mapped(HeardFrom, f.modules))
<1> DEFINE p == Parts(f)
           mods == Decoder!ReadModules(f)
<1>1. mods = Mapped(ReadOf(f), p) /\ p \in Seq(SentModule) /\ p = Picked(f.modules, Filled)
  BY DecoderReads, BlobOfParts DEF Parts
<1>2. \A i \in DOMAIN p : p[i] \in SentModule
  BY <1>1, ElementOfSeq, LenProperties
<1>3. DOMAIN mods = DOMAIN p /\ \A i \in DOMAIN p : mods[i] = ReadOf(f)[p[i]]
  BY <1>1 DEF Mapped
<1>4. ASSUME NEW m \in SentModule
      PROVE  ReadOf(f)[m].module_id = IdOf(m) /\ ReadOf(f)[m].data = ItemsHeard(m)
  <2>1. ItemsOf(f, m, m.hits) = ItemsHeard(m)
    BY DEF ItemsHeard, ItemsOf, Kept
  <2> QED
    BY <2>1 DEF ReadOf
<1> HIDE DEF p, mods
<1>5. [i \in DOMAIN mods |->
         IF mods[i].data = <<>> THEN <<>>
         ELSE <<[module_id |-> mods[i].module_id, data |-> mods[i].data]>>]
        = Mapped(HeardFrom, p)
  <2>1. \A i \in DOMAIN p :
          /\ mods[i].module_id = IdOf(p[i]) /\ mods[i].data = ItemsHeard(p[i])
          /\ HeardFrom[p[i]] = IF ItemsHeard(p[i]) = <<>> THEN <<>> ELSE <<HeardData(p[i])>>
    BY <1>2, <1>3, <1>4 DEF HeardFrom
  <2> QED
    BY <1>3, <2>1 DEF Mapped, HeardData
<1>6. \A m \in SentModule : m \notin Filled => HeardFrom[m] = <<>>
  <2> SUFFICES ASSUME NEW m \in SentModule, m \notin Filled PROVE HeardFrom[m] = <<>>
    OBVIOUS
  <2>1. m.hits = <<>>
    BY DEF Filled
  <2>2. ItemsHeard(m) = <<>>
    BY <2>1, PickedEmpty, MappedEmpty DEF ItemsHeard, ItemsOf
  <2> QED
    BY <2>2 DEF HeardFrom
<1>7. FlattenSeq(Mapped(HeardFrom, Picked(f.modules, Filled))) = FlattenSeq(Mapped(HeardFrom, f.modules))
  BY <1>6, HearingYields, FlattenPicked
<1> QED
  BY <1>1, <1>5, <1>7 DEF LearnedFrom, mods

\* The frame of modules that can be sent is one the reader is made for.
LEMMA ShownWellFormed ==
  ASSUME NEW G \in Seq(Sendable), NEW b,
         b = get_output_buffer([modules |-> Mapped(Shown, G)])
  PROVE  LET f == ShownFrame(G, b)
         IN  WellFormed(f) /\ Decoder!Readable(f)
<1> DEFINE f == ShownFrame(G, b)
<1>1. /\ f.revision = 1 /\ f.modules = G /\ f.blob = b /\ G \in Seq(SentModule)
      /\ \A i \in DOMAIN G : G[i] \in Sendable
  <2>1. Sendable \subseteq SentModule
    BY DEF Sendable
  <2> QED
    BY <2>1, SeqMonotonic, ElementOfSeq, LenProperties DEF ShownFrame
<1> HIDE DEF f
<1>2. [i \in DOMAIN f.modules |->
         [header_word |-> f.modules[i].header, data |-> Words(f.modules[i])]] = Mapped(Shown, G)
  <2>1. \A i \in DOMAIN G : Shown[G[i]] = [header_word |-> G[i].header, data |-> Words(G[i])]
    BY <1>1 DEF Shown, Sendable
  <2> QED
    BY <1>1, <2>1 DEF Mapped
<1>3. f.blob = Blob(f)
  <2>1. f.blob = OutputBuffer(f)
    BY <1>1, <1>2, Zenon DEF OutputBuffer
  <2> QED
    BY <1>1, <2>1 DEF Blob
<1>4. WellFormed(f)
  BY <1>1, <1>3 DEF WellFormed, Sendable
<1>5. Decoder!Readable(f)
  <2>1. Parts(f) = Picked(G, Filled)
    BY <1>1 DEF Parts
  <2>2. Picked(G, Filled) \in Seq(Sendable \cap Filled)
    BY PickedIn
  <2>3. \A i \in DOMAIN Parts(f) : Parts(f)[i] \in Sendable
    <3> DEFINE p == Parts(f)
    <3>1. p \in Seq(Sendable \cap Filled)
      BY <2>1, <2>2
    <3> HIDE DEF p
    <3>2. \A i \in DOMAIN p : p[i] \in Sendable \cap Filled
      BY <3>1, ElementOfSeq, LenProperties
    <3> QED
      BY <3>2 DEF p
  <2> QED
    BY <1>1, <2>3, DecoderReads DEF Sendable
<1> QED
  BY <1>4, <1>5 DEF f

-----------------------------------------------------------------------------
(* What is heard of a module of which not all words are published *)

Sound(m) ==
  {h \in SentHit : \/ h.type = "raw"
                   \/ ~ is_mvlc_scaler(ModOf(m).firmware) /\ h.type = "fill"
                   \/ IsMdppHit(ModOf(m), h) \/ IsVmmrHit(ModOf(m), h)}

LEMMA SoundWords ==
  ASSUME NEW m \in Sendable
  PROVE  /\ m.hits \in Seq(Sound(m))
         /\ \A h \in Sound(m) : WordOf(m)[h] \in Word
         /\ \A h \in Sound(m) : h \in SentHit /\ WordOf(m)[h] = HitWord(ModOf(m), h)
         /\ ~ is_mvlc_scaler(ModOf(m).firmware) =>
              \A h \in Sound(m) : h \in Kept([revision |-> 1], m) =>
                TopNibble(WordOf(m)[h]) \in {1, 2}
<1>1. m \in SentModule /\ IdOf(m) \in DOMAIN Crate /\ NewModule(m)
  BY DEF Sendable
<1>2. m.hits \in Seq(SentHit)
  BY <1>1, SentModuleParts
<1>3. m.hits \in Seq(Sound(m))
  <2>1. \A i \in DOMAIN m.hits : m.hits[i] \in SentHit
    BY <1>2, ElementOfSeq, LenProperties
  <2>2. \A i \in DOMAIN m.hits : m.hits[i] \in Sound(m)
    <3> TAKE i \in DOMAIN m.hits
    <3>1. m.hits # <<>>
      BY <1>2, EmptySeq, LenProperties
    <3> QED
      BY <1>1, <2>1, <3>1 DEF NewModule, Sound, ModOf, IdOf
  <2>3. m.hits \in [1 .. Len(m.hits) -> Sound(m)] /\ Len(m.hits) \in Nat
    BY <1>2, <2>2, LenProperties
  <2> QED
    BY <2>3, SeqDef
<1>4. \A h \in Sound(m) : h \in SentHit /\ WordOf(m)[h] = HitWord(ModOf(m), h)
  BY <1>1 DEF Sound, WordOf
<1>5. ASSUME NEW h \in Sound(m)
      PROVE  /\ HitWord(ModOf(m), h) \in Word
             /\ h.type \in DataType => TopNibble(HitWord(ModOf(m), h)) \in {1, 2}
  <2> DEFINE w == HitWord(ModOf(m), h)
  <2>1. CASE h.type \in {"raw", "fill"}
    <3>1. h.type \notin DataType
      BY <2>1 DEF DataType
    <3>2. h.data \in Half /\ 0 \in Half
      BY <1>4, HalfBelow DEF SentHit, Below
    <3>3. ASSUME h.type = "fill" PROVE w = ZeroWord
      BY <3>3 DEF HitWord, DataType
    <3>4. ASSUME h.type = "raw" PROVE w = [hi |-> 0, lo |-> h.data]
      BY <3>4 DEF HitWord, DataType
    <3> QED
      BY <2>1, <3>1, <3>2, <3>3, <3>4 DEF ZeroWord, Word
  <2>2. CASE IsMdppHit(ModOf(m), h)
    BY <2>2, MdppHitRead DEF is_mdpp_data
  <2>3. CASE IsVmmrHit(ModOf(m), h)
    BY <2>3, VmmrHitRead DEF is_vmmr_data, is_vmmr_adc_data, is_vmmr_tdc_data
  <2> QED
    BY <2>1, <2>2, <2>3 DEF Sound
<1>6. ~ is_mvlc_scaler(ModOf(m).firmware) =>
        \A h \in Sound(m) : h \in Kept([revision |-> 1], m) => h.type \in DataType
  BY DEF Kept, is_mvlc_scaler
<1> QED
  BY <1>3, <1>4, <1>5, <1>6

\* No word of a hit is left out of what is published: nothing is missed.
LEMMA NothingMissed ==
  ASSUME NEW m \in Sendable, ~ is_mvlc_scaler(ModOf(m).firmware),
         NEW D, \A w \in Word : TopNibble(w) \in {1, 2} => w \in D
  PROVE  \E n \in Sendable :
           /\ n.header = m.header /\ Words(n) = Picked(Words(m), D)
           /\ HeardFrom[n] = HeardFrom[m]
<1> DEFINE A == Sound(m)
           V == {h \in A : WordOf(m)[h] \in D}
           K == Kept([revision |-> 1], m)
           u == Picked(m.hits, V)
           n == [header |-> m.header, hits |-> u, marker |-> <<>>]
<1>1. m \in SentModule /\ IdOf(m) \in DOMAIN Crate /\ NewModule(m)
  BY DEF Sendable
<1>2. /\ m.hits \in Seq(A) /\ A \subseteq SentHit
      /\ \A h \in A : WordOf(m)[h] \in Word
      /\ \A h \in A : h \in K => h \in V
  BY SoundWords
<1>3. u \in Seq(A) /\ u \in Seq(SentHit)
  <2>1. u \in Seq(A \cap V)
    <3> HIDE DEF A, V
    <3> QED BY <1>2, PickedIn
  <2> QED
    BY <1>2, <2>1, SeqMonotonic
<1>4. /\ n.header = m.header /\ n.hits = u /\ n.marker = <<>> /\ n \in SentModule
      /\ IdOf(n) = IdOf(m) /\ ModOf(n) = ModOf(m)
  <2>1. m.header \in {w \in Word : is_module_header(w)} /\ <<>> \in Seq(Word)
    BY <1>1, SentModuleParts
  <2>2. n.header = m.header /\ n.hits = u /\ n.marker = <<>>
    BY DEF n
  <2>3. n \in SentModule
    <3> HIDE DEF u
    <3> QED BY <1>3, <2>1 DEF SentModule
  <2> QED
    BY <2>2, <2>3 DEF IdOf, ModOf
<1> HIDE DEF n, u
<1>5. n \in Sendable
  <2>1. u # <<>> => m.hits # <<>>
    BY PickedEmpty DEF u
  <2>2. \A k \in DOMAIN u : u[k] \in A
    BY <1>3, ElementOfSeq, LenProperties
  <2>3. NewModule(n)
    <3> SUFFICES ASSUME u # <<>> PROVE NewModule(n)
      BY <1>4 DEF NewModule
    <3>1. module_id(m.header) # 0
      BY <1>1, <2>1 DEF NewModule
    <3> QED
      BY <1>4, <2>2, <3>1 DEF NewModule, Sound, ModOf, IdOf
  <2> QED
    BY <1>1, <1>4, <2>3 DEF Sendable
<1>6. Words(n) = Picked(Words(m), D)
  <2>1. WordOf(n) = WordOf(m)
    BY <1>4 DEF WordOf
  <2>2. Words(m) = Mapped(WordOf(m), m.hits) /\ Words(n) = Mapped(WordOf(m), u)
    BY <1>1, <1>4, <2>1, WordsMapped
  <2>3. Picked(Mapped(WordOf(m), m.hits), D) = Mapped(WordOf(m), Picked(m.hits, V))
    <3> DEFINE wo == WordOf(m)
    <3>1. \A h \in A : h \in V <=> wo[h] \in D
      OBVIOUS
    <3> HIDE DEF A, V, wo
    <3>2. \A s \in Seq(A) : Picked(Mapped(wo, s), D) = Mapped(wo, Picked(s, V))
      BY <3>1, PickedOfMapped
    <3> QED
      BY <1>2, <3>2 DEF wo
  <2> QED
    BY <2>2, <2>3 DEF u
<1>7. ItemsHeard(n) = ItemsHeard(m)
  <2>1. Kept([revision |-> 1], n) = K
    BY <1>4 DEF Kept
  <2>2. ItemOf(n) = ItemOf(m)
    BY <1>4 DEF ItemOf
  <2>3. Picked(u, K) = Picked(m.hits, K)
    <3> HIDE DEF A, V, K
    <3>1. Picked(Picked(m.hits, V), K) = Picked(m.hits, K)
      BY <1>2, PickedPicked
    <3> QED
      BY <3>1 DEF u
  <2> QED
    BY <1>4, <2>1, <2>2, <2>3 DEF ItemsHeard, ItemsOf
<1>8. HeardFrom[n] = HeardFrom[m]
  BY <1>1, <1>4, <1>7 DEF HeardFrom, HeardData
<1> QED
  BY <1>4, <1>5, <1>6, <1>8
=============================================================================
