------------------------- MODULE TransmitterProofs -------------------------
(***************************************************************************)
(* Theorems about Transmitter, for every crate map, every readout, every   *)
(* number of stacks and every combination of faults.                       *)
(***************************************************************************)
EXTENDS Transmitter, SequenceLemmas

-----------------------------------------------------------------------------
(* Lemmas *)

LEMMA MessageType ==
  ASSUME NEW m \in Messages
  PROVE  /\ m.slot \in ReadoutSlot
         /\ m.slot \in Slot
         /\ m.modules \in Seq(Seq(Word))
         /\ \A i \in DOMAIN m.modules : LaidOut(m.modules[i])
<1>1. PICK s \in ReadoutSlot : \E ml \in Readouts[s] : m = [slot |-> s, modules |-> ml]
  BY DEF Messages
<1>2. PICK ml \in Readouts[s] : m = [slot |-> s, modules |-> ml]
  BY <1>1
<1>3. m.slot = s /\ m.modules = ml
  BY <1>2
<1>4. s \in Slot
  BY BoundsAssumption DEF ReadoutSlot, Slot
<1> QED
  BY <1>3, <1>4, ReadoutsAssumption

LEMMA NextSlotType ==
  ASSUME NEW s \in ReadoutSlot
  PROVE  NextSlot(s) \in Slot
BY BoundsAssumption DEF ReadoutSlot, Slot, NextSlot, IsLastStack

LEMMA HeadTail ==
  ASSUME NEW S, NEW q \in Seq(S), q # <<>>
  PROVE  /\ Head(q) \in S
         /\ Tail(q) \in Seq(S)
         /\ Len(Tail(q)) = Len(q) - 1
         /\ Head(q) = q[1]
         /\ 1 \in DOMAIN q
         /\ \A i \in DOMAIN Tail(q) : i + 1 \in DOMAIN q /\ Tail(q)[i] = q[i + 1]
BY HeadTailProperties

LEMMA Cut ==
  ASSUME NEW S, NEW q \in Seq(S), NEW n \in 1 .. Len(q)
  PROVE  /\ SubSeq(q, 1, n) \in Seq(S)
         /\ SubSeq(q, n + 1, Len(q)) \in Seq(S)
BY SubSeqProperties

LEMMA HalfNat == Half \subseteq Nat
BY SMT DEF Half

LEMMA LowByte == \A n \in Half : n % 256 \in ModuleId
<1> TAKE n \in Half
<1>1. n \in Nat
  BY HalfNat
<1>2. n % 256 \in 0 .. 255
  BY <1>1
<1> QED
  BY <1>2 DEF ModuleId

LEMMA HeaderType ==
  ASSUME NEW w \in Word
  PROVE  module_id(w) \in ModuleId
<1>1. w.hi \in Half
  BY DEF Word
<1> QED
  BY <1>1, LowByte DEF module_id

LEMMA ZeroWordType == ZeroWord \in Word
<1>1. 0 \in Half
  BY DEF Half
<1> QED
  BY <1>1 DEF ZeroWord, Word

LEMMA SetHeaderType ==
  ASSUME NEW w \in Word, NEW o \in Origin
  PROVE  set_header_word(w, o) \in ModuleData
BY HeaderType DEF set_header_word, ModuleData

LEMMA AddDataType ==
  ASSUME NEW md \in ModuleData, NEW w \in Word
  PROVE  add_data(md, w) \in ModuleData
<1>1. Append(md.data, w) \in Seq(Word)
  BY DEF ModuleData
<1> QED
  BY <1>1 DEF ModuleData, add_data

LEMMA EmptyDataType ==
  ASSUME NEW md \in ModuleData
  PROVE  /\ moved_from(md) \in ModuleData
         /\ clear_module_data(md) \in ModuleData
<1>1. 0 \in ModuleId /\ <<>> \in Seq(Word)
  BY DEF ModuleId
<1> QED
  BY <1>1, ZeroWordType DEF ModuleData, moved_from, clear_module_data

LEMMA EventTypes ==
  ASSUME NEW ev \in Event
  PROVE  /\ clear_event(ev) \in Event
         /\ \A md \in ModuleData : add_module_data(ev, md) \in Event
<1>1. ev.modules \in Seq(ModuleData)
  BY DEF Event
<1>2. \A md \in ModuleData : Append(ev.modules, md) \in Seq(ModuleData)
  BY <1>1, AppendProperties
<1>3. ASSUME NEW q \in Seq(ModuleData) PROVE [ev EXCEPT !.modules = q] \in Event
  BY DEF Event
<1>4. <<>> \in Seq(ModuleData)
  OBVIOUS
<1> QED
  BY <1>2, <1>3, <1>4 DEF clear_event, add_module_data

-----------------------------------------------------------------------------
(* Types, and what holds while a module is read *)

\* While its words are read, mod_data belongs to the module at the head of
\* the list; modules still to be handled have the layouts the code relies on.
Reading ==
  /\ pc \in {"modules", "words"} => current \in Messages
  /\ \A i \in DOMAIN moduleDataList : LaidOut(moduleDataList[i])
  /\ pc = "words" =>
       /\ moduleDataList # <<>> /\ HasModule
       /\ ~is_tgv_module(firmware) /\ ~is_mvlc_scaler(firmware)
       /\ mod_data.module_id = module_id(header)
       /\ mod_data.header_word = header
       /\ mod_data.origin = current.slot
       /\ \A k \in DOMAIN mod_data.data : is_data(mod_data.data[k])

TInv == TypeOK /\ Reading

LEMMA InitTInv == Init => TInv
<1> SUFFICES ASSUME Init PROVE TInv
  OBVIOUS
<1>1. BeforeFirst.slot \in Slot /\ BeforeFirst.slot \in Origin
  BY BoundsAssumption DEF BeforeFirst, Slot, Origin
<1>2. mod_data \in ModuleData
  BY <1>1, ZeroWordType, SetHeaderType DEF Init
<1>3. mesy_event \in Event
  <2>1. Indeterminate \subseteq Half
    BY BoundsAssumption
  <2>2. PICK lo \in Indeterminate, mid \in Indeterminate, hi \in Indeterminate,
             n \in Indeterminate :
          mesy_event = [modules |-> <<>>, event_counter |-> n,
                        ts |-> [lo |-> lo, mid |-> mid, hi |-> hi]]
    BY DEF Init
  <2>3. [lo |-> lo, mid |-> mid, hi |-> hi] \in Timestamp
    BY <2>1 DEF Timestamp
  <2>4. n \in Nat
    BY <2>1, HalfNat
  <2>5. <<>> \in Seq(ModuleData)
    OBVIOUS
  <2> QED
    BY <2>2, <2>3, <2>4, <2>5 DEF Event
<1>4. daq \in Slot
  BY BoundsAssumption DEF Init, FirstSlot, Slot
<1>5. TypeOK
  BY <1>2, <1>3, <1>4 DEF Init, TypeOK
<1>6. Reading
  BY DEF Init, Reading
<1> QED
  BY <1>5, <1>6 DEF TInv

\* The module at the head of the list.
LEMMA AtHead ==
  ASSUME TInv, moduleDataList # <<>>
  PROVE  /\ module_words \in Seq(Word)
         /\ Tail(moduleDataList) \in Seq(Seq(Word))
         /\ \A i \in DOMAIN Tail(moduleDataList) : LaidOut(Tail(moduleDataList)[i])
         /\ LaidOut(module_words)
         /\ HasModule => /\ module_words # <<>>
                         /\ header \in Word
                         /\ \A k \in 1 .. Len(module_words) : module_words[k] \in Word
<1>1. moduleDataList \in Seq(Seq(Word))
  BY DEF TInv, TypeOK
<1>2. /\ module_words \in Seq(Word)
      /\ Tail(moduleDataList) \in Seq(Seq(Word))
      /\ module_words = moduleDataList[1]
      /\ 1 \in DOMAIN moduleDataList
      /\ \A i \in DOMAIN Tail(moduleDataList) :
           i + 1 \in DOMAIN moduleDataList
             /\ Tail(moduleDataList)[i] = moduleDataList[i + 1]
  BY <1>1, HeadTail DEF module_words
<1>3. HasModule => Len(module_words) > 2
  BY DEF HasModule
<1> QED
  BY <1>2, <1>3 DEF TInv, Reading, header

LEMMA ScalerDataType ==
  ASSUME TInv, moduleDataList # <<>>, HasModule, is_mvlc_scaler(firmware),
         current \in Messages
  PROVE  /\ ScalerData(1) \in ModuleData
         /\ ScalerData(7) \in ModuleData
<1>1. /\ module_words \in Seq(Word)
      /\ Len(module_words) = 12
      /\ \A k \in 1 .. 12 : module_words[k] \in Word
  BY AtHead DEF LaidOut, HasModule, ScalerLayout, header, firmware
<1>2. current.slot \in Origin
  BY MessageType, BoundsAssumption DEF Slot, Origin
<1>3. /\ SubSeq(module_words, 2, 5) \in Seq(Word)
      /\ SubSeq(module_words, 8, 11) \in Seq(Word)
  BY <1>1, SubSeqProperties
<1>4. /\ set_header_word(module_words[1], current.slot) \in ModuleData
      /\ set_header_word(module_words[7], current.slot) \in ModuleData
  BY <1>1, <1>2, SetHeaderType
<1>5. /\ ScalerData(1) = [set_header_word(module_words[1], current.slot)
                            EXCEPT !.data = SubSeq(module_words, 2, 5)]
      /\ ScalerData(7) = [set_header_word(module_words[7], current.slot)
                            EXCEPT !.data = SubSeq(module_words, 8, 11)]
  BY DEF ScalerData
<1> QED
  BY <1>3, <1>4, <1>5 DEF ModuleData

LEMMA TgvType ==
  ASSUME TInv, moduleDataList # <<>>, HasModule, is_tgv_module(firmware)
  PROVE  [mesy_event EXCEPT
            !.ts = [lo |-> module_words[3].lo, mid |-> module_words[4].lo,
                    hi |-> module_words[5].lo]] \in Event
<1>1. Len(module_words) \in Nat /\ Len(module_words) >= 5
  BY AtHead DEF LaidOut, HasModule, header, firmware
<1>2. module_words[3] \in Word /\ module_words[4] \in Word /\ module_words[5] \in Word
  BY <1>1, AtHead
<1>3. [lo |-> module_words[3].lo, mid |-> module_words[4].lo,
       hi |-> module_words[5].lo] \in Timestamp
  BY <1>2 DEF Word, Timestamp
<1>4. mesy_event \in Event
  BY DEF TInv, TypeOK
<1> QED
  BY <1>3, <1>4 DEF Event

LEMMA AbandonTInv ==
  ASSUME TInv, AbandonBuffer
  PROVE  TInv'
<1>1. /\ clear_event(mesy_event) \in Event
      /\ clear_module_data(mod_data) \in ModuleData
  BY EventTypes, EmptyDataType DEF TInv, TypeOK
<1>2. TypeOK'
  BY <1>1 DEF TInv, TypeOK, AbandonBuffer, crate, output
<1>3. Reading'
  BY DEF AbandonBuffer, Reading
<1> QED
  BY <1>2, <1>3 DEF TInv

LEMMA StepTInv == TInv /\ [Next]_vars => TInv'
<1> SUFFICES ASSUME TInv, [Next]_vars PROVE TInv'
  OBVIOUS
<1> USE DEF TInv
<1>1. CASE Readout
  <2>1. PICK ml \in Readouts[daq] : wire' = Append(wire, [slot |-> daq, modules |-> ml])
    BY <1>1 DEF Readout
  <2>2. [slot |-> daq, modules |-> ml] \in Messages
    BY <1>1 DEF Readout, Messages
  <2>3. daq' \in Slot
    BY <1>1, NextSlotType DEF Readout
  <2>4. TypeOK'
    BY <1>1, <2>1, <2>2, <2>3
    DEF Readout, TypeOK, parser, reader, output, history
  <2>5. Reading'
    BY <1>1 DEF Readout, Reading, parser, reader, HasModule, header, firmware,
                module_words, is_data
  <2> QED
    BY <2>4, <2>5
<1>2. ASSUME NEW n \in 1 .. Len(wire), Lose(n) PROVE TInv'
  <2>1. wire' \in Seq(Messages)
    BY <1>2, Cut DEF Lose, TypeOK
  <2>2. TypeOK'
    BY <1>2, <2>1 DEF Lose, TypeOK, parser, reader, output, history
  <2>3. Reading'
    BY <1>2 DEF Lose, Reading, parser, reader, HasModule, header, firmware,
                module_words, is_data
  <2> QED
    BY <2>2, <2>3
<1>3. ASSUME NEW n \in 1 .. Len(wire), Receive(n) PROVE TInv'
  <2>1. wire' \in Seq(Messages) /\ buffer' \in Seq(Messages)
    BY <1>3, Cut DEF Receive, TypeOK
  <2>2. TypeOK'
    BY <1>3, <2>1 DEF Receive, TypeOK, reader, output
  <2>3. Reading'
    BY <1>3 DEF Receive, Reading
  <2> QED
    BY <2>2, <2>3
<1>4. CASE EndBuffer
  <2>1. TypeOK'
    BY <1>4 DEF EndBuffer, TypeOK, crate, parser, reader, output, history
  <2>2. Reading'
    BY <1>4 DEF EndBuffer, Reading, parser
  <2> QED
    BY <2>1, <2>2
<1>5. CASE BeginCallback
  <2>1. Head(buffer) \in Messages /\ Tail(buffer) \in Seq(Messages)
    BY <1>5, HeadTail DEF BeginCallback, TypeOK
  <2>2. TypeOK'
    BY <1>5, <2>1, MessageType
    DEF BeginCallback, TypeOK, crate, reader, output, history
  <2>3. Reading'
    BY <1>5, <2>1, MessageType DEF BeginCallback, Reading
  <2> QED
    BY <2>2, <2>3
<1>6. CASE PassOver
  <2>1. Tail(buffer) \in Seq(Messages)
    BY <1>6, HeadTail DEF PassOver, TypeOK
  <2>2. TypeOK'
    BY <1>6, <2>1 DEF PassOver, TypeOK, crate, reader, output, history
  <2>3. Reading'
    BY <1>6 DEF PassOver, Reading
  <2> QED
    BY <2>2, <2>3
<1>7. CASE ParseThrows \/ ScalerUnknown \/ EmitThrows
  BY <1>7, AbandonTInv DEF ParseThrows, ScalerUnknown, EmitThrows
<1>8. CASE SkipModule
  <2>1. TypeOK'
    BY <1>8, AtHead
    DEF SkipModule, NextModule, TypeOK, crate, reader, output, history
  <2>2. Reading'
    BY <1>8, AtHead DEF SkipModule, NextModule, Reading
  <2> QED
    BY <2>1, <2>2
<1>9. CASE ReadTgv
  <2>1. mesy_event' \in Event
    BY <1>9, TgvType DEF ReadTgv, NextModule
  <2>2. TypeOK'
    BY <1>9, <2>1, AtHead DEF ReadTgv, NextModule, TypeOK, crate, output, history
  <2>3. Reading'
    BY <1>9, AtHead DEF ReadTgv, NextModule, Reading
  <2> QED
    BY <2>2, <2>3
<1>10. CASE ReadScaler
  <2>1. ScalerData(1) \in ModuleData /\ ScalerData(7) \in ModuleData
    BY <1>10, ScalerDataType DEF ReadScaler, NextModule, Reading
  <2>2. mesy_event' \in Event /\ mod_data' \in ModuleData
    BY <1>10, <2>1, EventTypes, EmptyDataType DEF ReadScaler, TypeOK
  <2>3. TypeOK'
    BY <1>10, <2>2, AtHead
    DEF ReadScaler, NextModule, TypeOK, crate, output, history
  <2>4. Reading'
    BY <1>10, AtHead DEF ReadScaler, NextModule, Reading
  <2> QED
    BY <2>3, <2>4
<1>11. CASE BeginModule
  <2>1. current.slot \in Origin
    BY <1>11, MessageType, BoundsAssumption
    DEF BeginModule, NextModule, Reading, Slot, Origin
  <2>2. mod_data' \in ModuleData
    BY <1>11, <2>1, AtHead, SetHeaderType DEF BeginModule, NextModule
  <2>3. wordList' \in Seq(Word)
    BY <1>11, AtHead, HeadTail DEF BeginModule, NextModule
  <2>4. TypeOK'
    BY <1>11, <2>2, <2>3 DEF BeginModule, TypeOK, crate, output, history
  <2>5. Reading'
    BY <1>11 DEF BeginModule, NextModule, Reading, HasModule, header, firmware,
                 module_words, is_data, set_header_word
  <2> QED
    BY <2>4, <2>5
<1>12. CASE TakeWord
  <2>1. Head(wordList) \in Word /\ Tail(wordList) \in Seq(Word)
    BY <1>12, HeadTail DEF TakeWord, TypeOK
  <2>2. mod_data' \in ModuleData
    BY <1>12, <2>1, AddDataType DEF TakeWord, TypeOK
  <2>3. TypeOK'
    BY <1>12, <2>1, <2>2 DEF TakeWord, TypeOK, crate, output, history
  <2>4. /\ mod_data'.module_id = mod_data.module_id
        /\ mod_data'.header_word = mod_data.header_word
        /\ mod_data'.origin = mod_data.origin
    BY <1>12 DEF TakeWord, TypeOK, ModuleData, add_data
  <2>5. \A k \in DOMAIN mod_data'.data : is_data(mod_data'.data[k])
    <3>1. mod_data.data \in Seq(Word)
      BY DEF TypeOK, ModuleData
    <3>2. \A k \in DOMAIN mod_data.data : is_data(mod_data.data[k])
      BY <1>12 DEF TakeWord, Reading
    <3>3. CASE is_data(Head(wordList))
      <4>1. mod_data'.data = Append(mod_data.data, Head(wordList))
        BY <1>12, <3>3 DEF TakeWord, TypeOK, ModuleData, add_data
      <4> QED
        BY <2>1, <3>1, <3>2, <3>3, <4>1, AppendProperties
    <3> QED
      BY <1>12, <3>2, <3>3 DEF TakeWord
  <2>6. Reading'
    BY <1>12, <2>4, <2>5 DEF TakeWord, Reading, HasModule, header, firmware,
                             module_words, is_data
  <2> QED
    BY <2>3, <2>6
<1>13. CASE EndModule
  <2>1. moduleDataList # <<>>
    BY <1>13 DEF EndModule, Reading
  <2>2. mesy_event' \in Event /\ mod_data' \in ModuleData
    BY <1>13, EventTypes, EmptyDataType DEF EndModule, TypeOK
  <2>3. TypeOK'
    BY <1>13, <2>1, <2>2, AtHead DEF EndModule, TypeOK, crate, output, history
  <2>4. Reading'
    BY <1>13, <2>1, AtHead DEF EndModule, Reading
  <2> QED
    BY <2>3, <2>4
<1>14. CASE CollateMore
  <2>1. current \in Messages
    BY <1>14 DEF CollateMore, Reading
  <2>2. TypeOK'
    BY <1>14, <2>1 DEF CollateMore, TypeOK, crate, parser, reader, output
  <2>3. Reading'
    BY <1>14 DEF CollateMore, Reading, parser
  <2> QED
    BY <2>2, <2>3
<1>15. CASE Emit
  <2>1. current \in Messages
    BY <1>15 DEF Emit, Reading
  <2>2. mesy_event' \in Event
    BY <1>15, EventTypes DEF Emit, TypeOK
  <2>3. sent' \in Seq(Event)
    <3>1. sent \in Seq(Event) /\ mesy_event \in Event
      BY DEF TypeOK
    <3>2. Append(sent, mesy_event) \in Seq(Event)
      BY <3>1, AppendProperties
    <3> QED
      BY <1>15, <3>1, <3>2 DEF Emit, output
  <2>4. TypeOK'
    BY <1>15, <2>1, <2>2, <2>3 DEF Emit, TypeOK, crate, parser
  <2>5. Reading'
    BY <1>15 DEF Emit, Reading, parser
  <2> QED
    BY <2>4, <2>5
<1>16. CASE UNCHANGED vars
  <2>1. TypeOK'
    BY <1>16 DEF TypeOK, vars, crate, parser, reader, output, history
  <2>2. Reading'
    BY <1>16 DEF vars, parser, reader, Reading, HasModule, header, firmware,
                 module_words, is_data
  <2> QED
    BY <2>1, <2>2
<1> QED
  BY <1>1, <1>2, <1>3, <1>4, <1>5, <1>6, <1>7, <1>8, <1>9, <1>10, <1>11, <1>12,
     <1>13, <1>14, <1>15, <1>16 DEF Next, Work, RecvTimeout

(* The state has its types in every reachable state, whatever the crate     *)
(* sends and whichever fault happens.                                       *)
THEOREM TypeCorrect == Spec => []TypeOK
<1>1. TInv => TypeOK
  BY DEF TInv
<1> QED
  BY <1>1, InitTInv, StepTInv, PTL DEF Spec

-----------------------------------------------------------------------------
(* What is published is clean *)

\* The event being built is as clean as the ones published.
CInv == CleanEvents /\ CleanEvent(mesy_event)

LEMMA AddClean ==
  ASSUME NEW ev \in Event, CleanEvent(ev),
         NEW md \in ModuleData, CleanModule(md)
  PROVE  CleanEvent(add_module_data(ev, md))
<1>1. ev.modules \in Seq(ModuleData)
  BY DEF Event
<1>2. add_module_data(ev, md).modules = Append(ev.modules, md)
  BY DEF Event, add_module_data
<1> QED
  BY <1>1, <1>2, AppendProperties DEF CleanEvent

LEMMA EmptyIsClean ==
  ASSUME NEW ev \in Event
  PROVE  CleanEvent(clear_event(ev))
BY DEF Event, CleanEvent, clear_event

LEMMA ScalerClean ==
  ASSUME TInv, moduleDataList # <<>>, HasModule, is_mvlc_scaler(firmware),
         has_module(module_id(module_words[7])), current \in Messages
  PROVE  CleanModule(ScalerData(1)) /\ CleanModule(ScalerData(7))
<1>1. is_mvlc_scaler(CrateMap[module_id(module_words[7])])
  BY AtHead DEF LaidOut, HasModule, ScalerLayout, header, firmware
<1>2. \A k \in {1, 7} :
        /\ ScalerData(k).module_id = module_id(module_words[k])
        /\ ScalerData(k).header_word = module_words[k]
  BY DEF ScalerData, set_header_word
<1>3. \A k \in {1, 7} : /\ has_module(ScalerData(k).module_id)
                        /\ is_mvlc_scaler(CrateMap[ScalerData(k).module_id])
                        /\ module_id(ScalerData(k).header_word) = ScalerData(k).module_id
  BY <1>1, <1>2 DEF HasModule, header, firmware
<1>4. \A f : is_mvlc_scaler(f) => ~is_tgv_module(f)
  BY DEF is_mvlc_scaler, is_tgv_module
<1> QED
  BY <1>3, <1>4 DEF CleanModule

LEMMA StepCInv == TInv /\ CInv /\ [Next]_vars => CInv'
<1> SUFFICES ASSUME TInv, CInv, [Next]_vars PROVE CInv'
  OBVIOUS
<1>1. CASE UNCHANGED <<sent, mesy_event>>
  BY <1>1 DEF CInv, CleanEvents, CleanEvent, CleanModule
<1>2. CASE AbandonBuffer
  <2>1. mesy_event \in Event
    BY DEF TInv, TypeOK
  <2>2. CleanEvent(mesy_event')
    BY <1>2, <2>1, EmptyIsClean DEF AbandonBuffer
  <2> QED
    BY <1>2, <2>2 DEF AbandonBuffer, output, CInv, CleanEvents
<1>3. CASE ReadTgv
  <2>1. mesy_event'.modules = mesy_event.modules
    BY <1>3 DEF ReadTgv, TInv, TypeOK, Event
  <2>2. sent' = sent
    BY <1>3 DEF ReadTgv, output
  <2> QED
    BY <2>1, <2>2 DEF CInv, CleanEvents, CleanEvent
<1>4. CASE ReadScaler
  <2>1. moduleDataList # <<>> /\ current \in Messages /\ mesy_event \in Event
    BY <1>4 DEF ReadScaler, NextModule, TInv, TypeOK, Reading
  <2>2. ScalerData(1) \in ModuleData /\ ScalerData(7) \in ModuleData
    BY <1>4, <2>1, ScalerDataType DEF ReadScaler
  <2>3. CleanModule(ScalerData(1)) /\ CleanModule(ScalerData(7))
    BY <1>4, <2>1, ScalerClean DEF ReadScaler
  <2>4. add_module_data(mesy_event, ScalerData(1)) \in Event
    BY <2>1, <2>2, EventTypes
  <2>5. CleanEvent(add_module_data(mesy_event, ScalerData(1)))
    BY <2>1, <2>2, <2>3, AddClean DEF CInv
  <2>6. CleanEvent(mesy_event')
    BY <1>4, <2>2, <2>3, <2>4, <2>5, AddClean DEF ReadScaler
  <2> QED
    BY <1>4, <2>6 DEF ReadScaler, output, CInv, CleanEvents
<1>5. CASE EndModule
  <2>1. mod_data \in ModuleData /\ mesy_event \in Event
    BY DEF TInv, TypeOK
  <2>2. CleanModule(mod_data)
    <3> DEFINE f == CrateMap[mod_data.module_id]
    <3>1. /\ has_module(mod_data.module_id)
          /\ module_id(mod_data.header_word) = mod_data.module_id
          /\ firmware = f /\ ~is_tgv_module(f) /\ ~is_mvlc_scaler(f)
          /\ \A k \in DOMAIN mod_data.data : is_data(mod_data.data[k])
      BY <1>5 DEF EndModule, TInv, Reading, HasModule, header, firmware
    <3>2. f \in Firmware
      BY <3>1, CrateMapAssumption DEF has_module
    <3>3. is_mesytec_module(f) \/ f = "MDPP_CSI"
      BY <3>1, <3>2 DEF Firmware, is_mesytec_module, is_mdpp_module, is_vmmr_module,
                        is_tgv_module, is_mvlc_scaler
    <3>4. ASSUME NEW w, is_data(w)
          PROVE  ~is_end_of_event(w) /\ (is_fill_word(w) => f = "MDPP_CSI")
      BY <3>1, <3>3, <3>4 DEF is_data
    <3> HIDE DEF f
    <3> QED
      BY <3>1, <3>4 DEF CleanModule, f
  <2>3. CleanEvent(mesy_event')
    BY <1>5, <2>1, <2>2, AddClean DEF EndModule, CInv
  <2> QED
    BY <1>5, <2>3 DEF EndModule, output, CInv, CleanEvents
<1>6. CASE Emit
  <2>1. mesy_event \in Event /\ sent \in Seq(Event)
    BY DEF TInv, TypeOK
  <2>2. CleanEvent(mesy_event')
    BY <1>6, <2>1, EmptyIsClean DEF Emit
  <2>3. CASE sent' = Append(sent, mesy_event)
    BY <2>1, <2>2, <2>3, AppendProperties DEF CInv, CleanEvents
  <2>4. CASE sent' = sent
    BY <2>2, <2>4 DEF CInv, CleanEvents
  <2> QED
    BY <1>6, <2>3, <2>4 DEF Emit, output
<1> QED
  BY <1>1, <1>2, <1>3, <1>4, <1>5, <1>6
  DEF Next, Work, RecvTimeout, Readout, Lose, Receive, EndBuffer, BeginCallback,
      PassOver, ParseThrows, SkipModule, ScalerUnknown, BeginModule, TakeWord,
      CollateMore, EmitThrows, vars, reader, output

(* Whatever is lost or thrown on the way, the events published hold data of *)
(* modules of the crate map only, without end-of-event words and, unless    *)
(* the module is an MDPP_CSI, without fill words.                           *)
THEOREM CleanCorrect == Spec => []CleanEvents
<1>1. Init => CInv
  BY DEF Init, CInv, CleanEvents, CleanEvent
<1>2. CInv => CleanEvents
  BY DEF CInv
<1> QED
  BY <1>1, <1>2, InitTInv, StepTInv, StepCInv, PTL DEF Spec

-----------------------------------------------------------------------------
(* The frames *)

SizeOf == [md \in ModuleData |-> ModuleBufferSize(md)]
Contents == [md \in ModuleData |-> ModuleBuffer(md)]
MfmOf == [ev \in Event |-> MfmFrame(ev)]

LEMMA ContentsSize ==
  ASSUME NEW md \in ModuleData
  PROVE  /\ SizeOf[md] \in Nat
         /\ Contents[md] \in Seq(Word)
         /\ Len(Contents[md]) = SizeOf[md]
<1>1. md.header_word \in Word /\ md.data \in Seq(Word) /\ Len(md.data) \in Nat
  BY LenProperties DEF ModuleData
<1>2. /\ <<md.header_word>> \o md.data \in Seq(Word)
      /\ Len(<<md.header_word>> \o md.data) = 1 + Len(md.data)
  BY <1>1, ConcatProperties
<1>3. <<>> \in Seq(Word) /\ Len(<<>>) = 0
  OBVIOUS
<1> QED
  BY <1>1, <1>2, <1>3 DEF SizeOf, Contents, ModuleBufferSize, ModuleBuffer

LEMMA BufferOfEvent ==
  ASSUME NEW ev \in Event
  PROVE  /\ ev.modules \in Seq(ModuleData)
         /\ size_of_buffer(ev) = SumOf(Mapped(SizeOf, ev.modules))
         /\ get_output_buffer(ev) = FlattenSeq(Mapped(Contents, ev.modules))
<1>1. ev.modules \in Seq(ModuleData)
  BY DEF Event
<1>2. \A i \in DOMAIN ev.modules : ev.modules[i] \in ModuleData
  BY <1>1, ElementOfSeq, LenProperties
<1>3. \A md \in ModuleData : SizeOf[md] = ModuleBufferSize(md) /\ Contents[md] = ModuleBuffer(md)
  BY DEF SizeOf, Contents
<1>4. Mapped(SizeOf, ev.modules)
        = [i \in DOMAIN ev.modules |-> ModuleBufferSize(ev.modules[i])]
  BY <1>2, <1>3 DEF Mapped
<1>5. Mapped(Contents, ev.modules)
        = [i \in DOMAIN ev.modules |-> ModuleBuffer(ev.modules[i])]
  BY <1>2, <1>3 DEF Mapped
<1> QED
  BY <1>1, <1>4, <1>5 DEF size_of_buffer, get_output_buffer

\* The words before a module depend on the modules before it only.
LEMMA BeforeModule ==
  ASSUME NEW s \in Seq(ModuleData), NEW md \in ModuleData
  PROVE  /\ \A k \in 1 .. Len(s) + 1 : WordsBefore(Append(s, md), k) = WordsBefore(s, k)
         /\ WordsBefore(s, Len(s) + 1) = SumOf(Mapped(SizeOf, s))
<1>1. /\ Len(s) \in Nat /\ DOMAIN s = 1 .. Len(s)
      /\ \A i \in 1 .. Len(s) : s[i] \in ModuleData /\ Append(s, md)[i] = s[i]
  BY LenProperties, ElementOfSeq, AppendProperties
<1>2. ASSUME NEW k \in 1 .. Len(s) + 1
      PROVE  WordsBefore(Append(s, md), k) = WordsBefore(s, k)
  <2>1. \A i \in 1 .. k - 1 : i \in 1 .. Len(s)
    BY <1>1
  <2>2. [i \in 1 .. k - 1 |-> WordsOf(Append(s, md)[i])] = [i \in 1 .. k - 1 |-> WordsOf(s[i])]
    BY <1>1, <2>1
  <2> QED
    BY <2>2 DEF WordsBefore
<1>3. \A m \in ModuleData : SizeOf[m] = WordsOf(m)
  <2> TAKE m \in ModuleData
  <2>1. Len(m.data) \in Nat
    BY LenProperties DEF ModuleData
  <2> QED
    BY <2>1 DEF SizeOf, ModuleBufferSize, WordsOf
<1>4. 1 .. (Len(s) + 1) - 1 = 1 .. Len(s)
  BY <1>1
<1>5. [i \in 1 .. Len(s) |-> WordsOf(s[i])] = Mapped(SizeOf, s)
  BY <1>1, <1>3 DEF Mapped
<1> QED
  BY <1>2, <1>4, <1>5 DEF WordsBefore

\* What module k takes is where it should be, and within the blob.
InPlace(blob, s, k) ==
  /\ WordsBefore(s, k) \in Nat
  /\ WordsBefore(s, k) + WordsOf(s[k]) <= Len(blob)
  /\ s[k].data # <<>> =>
       /\ blob[WordsBefore(s, k) + 1] = s[k].header_word
       /\ \A n \in DOMAIN s[k].data : blob[WordsBefore(s, k) + 1 + n] = s[k].data[n]

\* A further module leaves those before it in place.
LEMMA StaysInPlace ==
  ASSUME NEW s \in Seq(ModuleData), NEW md \in ModuleData, NEW k \in 1 .. Len(s),
         NEW blob \in Seq(Word), NEW more \in Seq(Word), InPlace(blob, s, k)
  PROVE  InPlace(blob \o more, Append(s, md), k)
<1> DEFINE a == WordsBefore(s, k)
           m == s[k]
           all == blob \o more
<1>0. Len(s) \in Nat /\ m \in ModuleData
  BY LenProperties, ElementOfSeq
<1>1. m.data \in Seq(Word) /\ Len(m.data) \in Nat /\ DOMAIN m.data = 1 .. Len(m.data)
  BY <1>0, LenProperties DEF ModuleData
<1>2. Append(s, md)[k] = m /\ WordsBefore(Append(s, md), k) = a
  BY <1>0, BeforeModule, AppendProperties
<1>3. /\ Len(all) = Len(blob) + Len(more) /\ Len(blob) \in Nat /\ Len(more) \in Nat
      /\ \A i \in 1 .. Len(blob) : all[i] = blob[i]
  BY ConcatProperties, LenProperties
<1>4. /\ a \in Nat /\ a + WordsOf(m) <= Len(blob)
      /\ m.data # <<>> => /\ blob[a + 1] = m.header_word
                          /\ \A n \in DOMAIN m.data : blob[a + 1 + n] = m.data[n]
  BY DEF InPlace
<1>5. WordsOf(m) \in Nat /\ (m.data # <<>> => WordsOf(m) = 1 + Len(m.data))
  BY <1>1 DEF WordsOf
<1> HIDE DEF a, m, all
<1>6. a + WordsOf(m) <= Len(all)
  BY <1>3, <1>4, <1>5
<1>7. ASSUME m.data # <<>>
      PROVE  /\ all[a + 1] = m.header_word
             /\ \A n \in DOMAIN m.data : all[a + 1 + n] = m.data[n]
  <2> DEFINE b == Len(blob)
             l == Len(m.data)
  <2>1. a \in Nat /\ b \in Nat /\ l \in Nat /\ a + (1 + l) <= b
    BY <1>1, <1>3, <1>4, <1>5, <1>7
  <2> HIDE DEF b, l
  <2>2. a + 1 \in 1 .. b /\ \A n \in 1 .. l : a + 1 + n \in 1 .. b
    BY <2>1
  <2>3. a + 1 \in 1 .. Len(blob) /\ \A n \in 1 .. Len(m.data) : a + 1 + n \in 1 .. Len(blob)
    BY <2>2 DEF b, l
  <2> QED
    BY <1>1, <1>3, <1>4, <1>7, <2>3
<1>8. blob \o more = all
  BY DEF all
<1> QED
  BY <1>2, <1>4, <1>6, <1>7, <1>8 DEF InPlace

\* A further module is put after those before it.
LEMMA PutInPlace ==
  ASSUME NEW s \in Seq(ModuleData), NEW md \in ModuleData, NEW blob \in Seq(Word),
         Len(blob) = SumOf(Mapped(SizeOf, s))
  PROVE  InPlace(blob \o Contents[md], Append(s, md), Len(s) + 1)
<1> DEFINE all == blob \o Contents[md]
           a == Len(blob)
<1>1. /\ Len(s) \in Nat /\ a \in Nat /\ md.data \in Seq(Word) /\ Len(md.data) \in Nat
      /\ md.header_word \in Word /\ DOMAIN md.data = 1 .. Len(md.data)
  BY LenProperties DEF ModuleData
<1>2. Append(s, md)[Len(s) + 1] = md /\ WordsBefore(Append(s, md), Len(s) + 1) = a
  BY <1>1, BeforeModule, AppendProperties
<1>3. /\ Contents[md] \in Seq(Word)
      /\ Len(Contents[md]) = WordsOf(md)
      /\ WordsOf(md) \in Nat
  BY <1>1, ContentsSize DEF SizeOf, ModuleBufferSize, WordsOf
<1>4. /\ Len(all) = a + WordsOf(md)
      /\ \A i \in 1 .. WordsOf(md) : all[a + i] = Contents[md][i]
  <2> DEFINE c == Contents[md]
             z == WordsOf(md)
  <2>1. c \in Seq(Word) /\ Len(c) = z /\ z \in Nat
    BY <1>3
  <2> HIDE DEF c, z
  <2>2. /\ Len(blob \o c) = Len(blob) + Len(c)
        /\ \A i \in 1 .. Len(blob) + Len(c) :
             (blob \o c)[i] = IF i <= Len(blob) THEN blob[i] ELSE c[i - Len(blob)]
    BY <2>1, ConcatProperties
  <2>3. \A i \in 1 .. z : a + i \in 1 .. a + z /\ ~ (a + i <= a) /\ (a + i) - a = i
    <3> HIDE DEF a
    <3> QED BY <1>1, <2>1
  <2>4. \A i \in 1 .. z : (blob \o c)[a + i] = c[i]
    BY <2>1, <2>2, <2>3
  <2> QED
    BY <2>1, <2>2, <2>4 DEF c, z
<1>5. ASSUME md.data # <<>>
      PROVE  /\ Contents[md][1] = md.header_word
             /\ \A n \in DOMAIN md.data : Contents[md][1 + n] = md.data[n]
             /\ WordsOf(md) = 1 + Len(md.data)
  <2>1. Contents[md] = <<md.header_word>> \o md.data
    BY <1>5 DEF Contents, ModuleBuffer
  <2>2. PICK h \in Seq(Word) : h = <<md.header_word>>
    <3>1. <<md.header_word>> \in Seq(Word)
      BY <1>1
    <3> QED
      BY <3>1
  <2>3. Len(h) = 1 /\ h[1] = md.header_word
    BY <2>2
  <2>4. /\ Contents[md] = h \o md.data
        /\ \A i \in 1 .. 1 + Len(md.data) :
             (h \o md.data)[i] = IF i <= 1 THEN h[i] ELSE md.data[i - 1]
    BY <1>1, <2>1, <2>2, <2>3, ConcatProperties
  <2> DEFINE l == Len(md.data)
  <2>5. l \in Nat
    BY <1>1
  <2> HIDE DEF l
  <2>6. 1 \in 1 .. 1 + l /\ \A n \in 1 .. l : 1 + n \in 1 .. 1 + l /\ ~ (1 + n <= 1) /\ (1 + n) - 1 = n
    BY <2>5
  <2>7. \A n \in DOMAIN md.data : (h \o md.data)[1 + n] = md.data[n]
    BY <1>1, <2>4, <2>6 DEF l
  <2>8. (h \o md.data)[1] = md.header_word
    <3>1. h[1] = md.header_word
      BY <2>3
    <3>2. 1 \in 1 .. 1 + Len(md.data) /\ 1 <= 1
      BY <2>6 DEF l
    <3>3. (h \o md.data)[1] = h[1]
      BY ONLY <2>4, <3>2
    <3> QED
      BY ONLY <3>1, <3>3
  <2>9. WordsOf(md) = 1 + Len(md.data)
    BY <1>5 DEF WordsOf
  <2> QED
    BY <2>4, <2>7, <2>8, <2>9
<1> HIDE DEF all, a
<1>6. ASSUME md.data # <<>>
      PROVE  /\ all[a + 1] = md.header_word
             /\ \A n \in DOMAIN md.data : all[a + 1 + n] = md.data[n]
  <2>1. 1 \in 1 .. WordsOf(md) /\ \A n \in 1 .. Len(md.data) : 1 + n \in 1 .. WordsOf(md)
    BY <1>1, <1>5, <1>6
  <2>2. \A n \in 1 .. Len(md.data) : a + (1 + n) = a + 1 + n
    BY <1>1
  <2> QED
    BY <1>1, <1>4, <1>5, <1>6, <2>1, <2>2
<1>7. a + WordsOf(md) <= Len(all)
  BY <1>1, <1>3, <1>4
<1>8. blob \o Contents[md] = all
  BY DEF all
<1> QED
  BY <1>1, <1>2, <1>6, <1>7, <1>8 DEF InPlace

\* The buffer has the size that was announced and holds each module in its
\* place, by induction on the modules.
LEMMA BufferHolds ==
  \A s \in Seq(ModuleData) :
    /\ FlattenSeq(Mapped(Contents, s)) \in Seq(Word)
    /\ SumOf(Mapped(SizeOf, s)) \in Nat
    /\ Len(FlattenSeq(Mapped(Contents, s))) = SumOf(Mapped(SizeOf, s))
    /\ \A k \in 1 .. Len(s) : InPlace(FlattenSeq(Mapped(Contents, s)), s, k)
<1> DEFINE Buffer(s) == FlattenSeq(Mapped(Contents, s))
           Good == {s \in Seq(ModuleData) :
                      /\ Len(Buffer(s)) = SumOf(Mapped(SizeOf, s))
                      /\ \A k \in 1 .. Len(s) : InPlace(Buffer(s), s, k)}
<1>1. \A s \in Seq(ModuleData) :
        /\ Mapped(SizeOf, s) \in Seq(Nat) /\ Mapped(Contents, s) \in Seq(Seq(Word))
        /\ Buffer(s) \in Seq(Word)
  BY MappedType, ContentsSize, FlattenType
<1>2. <<>> \in Good
  <2>1. <<>> \in Seq(ModuleData) /\ Len(<<>>) = 0
    OBVIOUS
  <2> QED
    BY <2>1, MappedEmpty, SumOfEmpty, FlattenEmpty
<1>3. ASSUME NEW s \in Seq(ModuleData), NEW md \in ModuleData, s \in Good
      PROVE  Append(s, md) \in Good
  <2>1. Append(s, md) \in Seq(ModuleData) /\ Len(Append(s, md)) = Len(s) + 1 /\ Len(s) \in Nat
    BY AppendProperties, LenProperties
  <2>2. /\ Mapped(SizeOf, Append(s, md)) = Append(Mapped(SizeOf, s), SizeOf[md])
        /\ Mapped(Contents, Append(s, md)) = Append(Mapped(Contents, s), Contents[md])
    BY MappedAppend
  <2>3. SumOf(Mapped(SizeOf, Append(s, md))) = SumOf(Mapped(SizeOf, s)) + SizeOf[md]
    BY <1>1, <2>2, ContentsSize, SumOfAppend
  <2>4. Buffer(Append(s, md)) = Buffer(s) \o Contents[md]
    BY <1>1, <2>2, ContentsSize, FlattenAppend
  <2>5. Buffer(s) \in Seq(Word) /\ Contents[md] \in Seq(Word)
    BY <1>1, ContentsSize
  <2>6. Len(Buffer(Append(s, md))) = Len(Buffer(s)) + Len(Contents[md])
    BY <2>4, <2>5, ConcatProperties
  <2>7. /\ Len(Buffer(s)) = SumOf(Mapped(SizeOf, s))
        /\ \A k \in 1 .. Len(s) : InPlace(Buffer(s), s, k)
    BY <1>3
  <2>8. Len(Buffer(Append(s, md))) = SumOf(Mapped(SizeOf, Append(s, md)))
    BY <2>3, <2>6, <2>7, ContentsSize
  <2> HIDE DEF Buffer
  <2>9. ASSUME NEW k \in 1 .. Len(s) + 1
        PROVE  InPlace(Buffer(Append(s, md)), Append(s, md), k)
    <3>1. CASE k \in 1 .. Len(s)
      BY <2>4, <2>5, <2>7, <3>1, StaysInPlace
    <3>2. CASE k = Len(s) + 1
      BY <2>4, <2>5, <2>7, <3>2, PutInPlace
    <3> QED
      BY <2>1, <3>1, <3>2
  <2> QED
    BY <2>1, <2>8, <2>9
<1> HIDE DEF Good
<1>4. \A s \in Seq(ModuleData) : s \in Good
  BY <1>2, <1>3, SequenceInduction
<1> QED
  BY <1>1, <1>4, SumOfType DEF Good

LEMMA FrameHolds ==
  ASSUME NEW ev \in Event
  PROVE  /\ 2 * MfmOf[ev].frame_units = MfmOf[ev].message_size
         /\ MfmOf[ev].message_size = MfmHeaderSize + MfmOf[ev].blob_size
         /\ MfmOf[ev].blob_size = 4 * Len(MfmOf[ev].blob)
         /\ HoldsModules(MfmOf[ev].blob, ev.modules)
         /\ MfmOf[ev].timestamp = ev.ts
<1>1. /\ ev.modules \in Seq(ModuleData)
      /\ size_of_buffer(ev) \in Nat
      /\ size_of_buffer(ev) = SumOf(Mapped(SizeOf, ev.modules))
      /\ Len(get_output_buffer(ev)) = size_of_buffer(ev)
      /\ \A k \in 1 .. Len(ev.modules) : InPlace(get_output_buffer(ev), ev.modules, k)
  BY BufferOfEvent, BufferHolds
<1>2. MfmOf[ev] = MfmFrame(ev)
  BY DEF MfmOf
<1>3. \A n \in Nat : 2 * ((24 + 4 * n) \div 2) = 24 + 4 * n
  OBVIOUS
<1>4. HoldsModules(get_output_buffer(ev), ev.modules)
  <2>1. DOMAIN ev.modules = 1 .. Len(ev.modules)
    BY <1>1, LenProperties
  <2>2. PICK md \in ModuleData : TRUE
    <3>1. [cycle |-> 0, stack |-> 0] \in Origin
      BY DEF Origin
    <3>2. set_header_word(ZeroWord, [cycle |-> 0, stack |-> 0]) \in ModuleData
      BY <3>1, ZeroWordType, SetHeaderType
    <3> QED
      BY <3>2
  <2>3. WordsBefore(ev.modules, Len(ev.modules) + 1) = SumOf(Mapped(SizeOf, ev.modules))
    BY <1>1, <2>2, BeforeModule
  <2> QED
    BY <1>1, <2>1, <2>3 DEF HoldsModules, InPlace
<1> QED
  BY <1>1, <1>2, <1>3, <1>4 DEF MfmFrame, MfmHeaderSize

FramesOfEvents == frames = Mapped(MfmOf, sent)

LEMMA StepFrames ==
  ASSUME TInv, FramesOfEvents, [Next]_vars
  PROVE  FramesOfEvents'
<1>1. sent \in Seq(Event) /\ mesy_event \in Event
  BY DEF TInv, TypeOK
<1>2. CASE Emit
  <2>1. CASE has_data(mesy_event)
    <3>1. Mapped(MfmOf, Append(sent, mesy_event))
            = Append(Mapped(MfmOf, sent), MfmOf[mesy_event])
      BY <1>1, MappedAppend
    <3>2. MfmOf[mesy_event] = MfmFrame(mesy_event)
      BY <1>1 DEF MfmOf
    <3>3. /\ frames' = Append(frames, MfmFrame(mesy_event))
          /\ sent' = Append(sent, mesy_event)
      BY <1>2, <2>1 DEF Emit
    <3> QED
      BY <3>1, <3>2, <3>3 DEF FramesOfEvents
  <2>2. CASE ~ has_data(mesy_event)
    BY <1>2, <2>2 DEF Emit, output, FramesOfEvents
  <2> QED
    BY <2>1, <2>2
<1>3. CASE ~ Emit
  <2>1. UNCHANGED output
    BY <1>3 DEF Next, Work, Readout, Lose, Receive, RecvTimeout, EndBuffer, BeginCallback,
                PassOver, ParseThrows, SkipModule, ReadTgv, ReadScaler, ScalerUnknown,
                BeginModule, TakeWord, EndModule, CollateMore, EmitThrows, AbandonBuffer, vars
  <2> QED
    BY <2>1 DEF output, FramesOfEvents
<1> QED
  BY <1>2, <1>3

(* A frame holds the modules of its event that have data, each at its       *)
(* place, and nothing else, and its sizes say so, for events of any number  *)
(* of modules with any number of words.                                     *)
THEOREM FramesCorrect == Spec => []FramesFaithful
<1>1. Init => FramesOfEvents
  BY MappedEmpty DEF Init, FramesOfEvents
<1>2. TInv /\ [Next]_vars => TInv'
  BY StepTInv
<1>3. TInv /\ FramesOfEvents /\ [Next]_vars => FramesOfEvents'
  BY StepFrames
<1>4. TInv /\ FramesOfEvents => FramesFaithful
  <2> SUFFICES ASSUME TInv, FramesOfEvents PROVE FramesFaithful
    OBVIOUS
  <2>1. sent \in Seq(Event)
    BY DEF TInv, TypeOK
  <2>2. /\ Len(frames) = Len(sent)
        /\ \A i \in 1 .. Len(sent) : frames[i] = MfmOf[sent[i]] /\ sent[i] \in Event
    BY <2>1, MappedElements, ElementOfSeq DEF FramesOfEvents
  <2>3. DOMAIN frames = 1 .. Len(sent)
    BY <2>1, LenProperties DEF FramesOfEvents, Mapped
  <2>4. ASSUME NEW i \in DOMAIN frames
        PROVE  /\ 2 * frames[i].frame_units = frames[i].message_size
               /\ frames[i].message_size = MfmHeaderSize + frames[i].blob_size
               /\ frames[i].blob_size = 4 * Len(frames[i].blob)
               /\ HoldsModules(frames[i].blob, sent[i].modules)
               /\ frames[i].timestamp = sent[i].ts
    <3>1. frames[i] = MfmOf[sent[i]] /\ sent[i] \in Event
      BY <2>2, <2>3
    <3> QED
      BY <3>1, FrameHolds
  <2> QED
    BY <2>2, <2>4 DEF FramesFaithful
<1> QED
  BY <1>1, <1>2, <1>3, <1>4, InitTInv, PTL DEF Spec

-----------------------------------------------------------------------------
(* The modules of an event come from one cycle *)

\* The readouts on their way to the reader, parsed ones excepted.
Pending == buffer \o wire

\* Nothing is missing between the readout handled last and the one the crate
\* reads out next.
Unbroken ==
  /\ Pending # <<>> => Pending[1].slot = NextSlot(current.slot)
  /\ \A i \in 1 .. Len(Pending) - 1 :
       Pending[i + 1].slot = NextSlot(Pending[i].slot)
  /\ daq = IF Pending = <<>> THEN NextSlot(current.slot)
                             ELSE NextSlot(Pending[Len(Pending)].slot)

\* The event being built holds data of the current cycle only, and none once
\* the cycle's last stack is done.
OfCurrentCycle ==
  /\ \A k \in DOMAIN mesy_event.modules :
       mesy_event.modules[k].origin.cycle = current.slot.cycle
  /\ pc \in {"recv", "parse"} /\ IsLastStack(current.slot) => mesy_event.modules = <<>>

\* A reader that was reset has no readout structure, and no more callbacks.
FlightInv ==
  /\ pc = "recv" => buffer = <<>>
  /\ readoutStructure = 0 => pc \in {"recv", "parse"}
  /\ readoutStructure = NStacks => Unbroken /\ OfCurrentCycle

OInv == OneCycle /\ FlightInv

LEMMA PendingType ==
  ASSUME TInv
  PROVE  /\ Pending \in Seq(Messages)
         /\ Len(Pending) = Len(buffer) + Len(wire)
         /\ buffer = <<>> => Pending = wire
         /\ \A i \in 1 .. Len(Pending) :
              Pending[i] = IF i <= Len(buffer) THEN buffer[i] ELSE wire[i - Len(buffer)]
<1>1. buffer \in Seq(Messages) /\ wire \in Seq(Messages)
  BY DEF TInv, TypeOK
<1> QED
  BY <1>1, ConcatProperties, ConcatEmptySeq DEF Pending

\* The reader moves on along the readouts that wait.
LEMMA TakeFirst ==
  ASSUME TInv, Unbroken, buffer # <<>>,
         buffer' = Tail(buffer), wire' = wire, daq' = daq, current' = Head(buffer)
  PROVE  Unbroken' /\ current'.slot = NextSlot(current.slot)
<1>1. /\ buffer \in Seq(Messages) /\ wire \in Seq(Messages)
      /\ Len(buffer) \in Nat \ {0} /\ Len(wire) \in Nat
  BY DEF TInv, TypeOK
<1>2. Tail(buffer) \in Seq(Messages) /\ Len(Tail(buffer)) = Len(buffer) - 1
      /\ Head(buffer) = buffer[1]
      /\ \A i \in 1 .. Len(buffer) - 1 : Tail(buffer)[i] = buffer[i + 1]
  BY <1>1, HeadTail
<1>3. /\ Pending' \in Seq(Messages)
      /\ Len(Pending') = Len(buffer) - 1 + Len(wire)
      /\ \A i \in 1 .. Len(buffer) - 1 + Len(wire) :
           Pending'[i] = IF i <= Len(buffer) - 1 THEN Tail(buffer)[i]
                         ELSE wire[i - (Len(buffer) - 1)]
  BY <1>1, <1>2, ConcatProperties DEF Pending
<1>4. /\ Len(Pending) = Len(Pending') + 1
      /\ Pending[1] = Head(buffer)
      /\ \A i \in 1 .. Len(Pending') : Pending'[i] = Pending[i + 1]
  BY <1>1, <1>2, <1>3, PendingType
<1>5. Pending # <<>>
  BY <1>4, <1>3, PendingType
<1>6. Pending' = <<>> => Len(Pending') = 0
  OBVIOUS
<1>7. Pending' # <<>> => Len(Pending') \in Nat \ {0}
  BY <1>3
<1>8. Pending[1].slot = NextSlot(current.slot)
  BY <1>5 DEF Unbroken
<1>9. ASSUME Pending' # <<>> PROVE Pending'[1].slot = NextSlot(current'.slot)
  BY <1>4, <1>7, <1>9 DEF Unbroken
<1>10. ASSUME NEW i \in 1 .. Len(Pending') - 1
       PROVE  Pending'[i + 1].slot = NextSlot(Pending'[i].slot)
  <2>1. i \in 1 .. Len(Pending') /\ i + 1 \in 1 .. Len(Pending')
        /\ i + 1 \in 1 .. Len(Pending) - 1
    BY <1>3, <1>4
  <2> QED
    BY <2>1, <1>4 DEF Unbroken
<1>11. daq' = IF Pending' = <<>> THEN NextSlot(current'.slot)
                                 ELSE NextSlot(Pending'[Len(Pending')].slot)
  <2>1. daq = NextSlot(Pending[Len(Pending)].slot)
    BY <1>5 DEF Unbroken
  <2>2. CASE Pending' = <<>>
    BY <2>1, <2>2, <1>4, <1>6
  <2>3. CASE Pending' # <<>>
    BY <2>1, <2>3, <1>4, <1>7
  <2> QED
    BY <2>2, <2>3
<1> QED
  BY <1>4, <1>8, <1>9, <1>10, <1>11 DEF Unbroken

\* The crate adds its next readout at the far end.
LEMMA AddLast ==
  ASSUME TInv, Unbroken, NEW m \in Messages, m.slot = daq,
         wire' = Append(wire, m), buffer' = buffer, current' = current,
         daq' = NextSlot(daq)
  PROVE  Unbroken'
<1>1. /\ buffer \in Seq(Messages) /\ wire \in Seq(Messages)
      /\ Len(buffer) \in Nat /\ Len(wire) \in Nat
  BY DEF TInv, TypeOK
<1>2. Pending' = Append(Pending, m)
  <2>1. wire' = wire \o <<m>> /\ <<m>> \in Seq(Messages)
    BY <1>1, AppendIsConcat
  <2>2. Pending' = Pending \o <<m>>
    BY <1>1, <2>1, ConcatAssociative DEF Pending
  <2> QED
    BY <2>2, PendingType, AppendIsConcat
<1>3. /\ Pending \in Seq(Messages) /\ Len(Pending) \in Nat
      /\ Pending' # <<>>
      /\ Len(Pending') = Len(Pending) + 1
      /\ Pending'[Len(Pending) + 1] = m
      /\ \A i \in 1 .. Len(Pending) : Pending'[i] = Pending[i]
  BY <1>2, PendingType, AppendProperties
<1>4. Pending = <<>> <=> Len(Pending) = 0
  BY <1>3
<1>5. Pending'[1].slot = NextSlot(current.slot)
  BY <1>3, <1>4 DEF Unbroken
<1>6. ASSUME NEW i \in 1 .. Len(Pending') - 1
      PROVE  Pending'[i + 1].slot = NextSlot(Pending'[i].slot)
  <2>1. CASE i = Len(Pending)
    BY <2>1, <1>3, <1>4 DEF Unbroken
  <2>2. CASE i # Len(Pending)
    <3>1. i \in 1 .. Len(Pending) - 1 /\ i \in 1 .. Len(Pending)
          /\ i + 1 \in 1 .. Len(Pending)
      BY <2>2, <1>3
    <3> QED
      BY <3>1, <1>3 DEF Unbroken
  <2> QED
    BY <2>1, <2>2
<1> QED
  BY <1>3, <1>5, <1>6 DEF Unbroken

\* A new piece of data of the current readout joins the event.
LEMMA AddOfCurrent ==
  ASSUME NEW ev \in Event, NEW md \in ModuleData, NEW c,
         \A k \in DOMAIN ev.modules : ev.modules[k].origin.cycle = c,
         md.origin.cycle = c
  PROVE  \A k \in DOMAIN add_module_data(ev, md).modules :
           add_module_data(ev, md).modules[k].origin.cycle = c
<1>1. ev.modules \in Seq(ModuleData)
  BY DEF Event
<1>2. add_module_data(ev, md).modules = Append(ev.modules, md)
  BY DEF Event, add_module_data
<1> QED
  BY <1>1, <1>2, AppendProperties

LEMMA EmptyEvent ==
  ASSUME NEW ev \in Event
  PROVE  clear_event(ev).modules = <<>>
BY DEF Event, clear_event

LEMMA StepOInv ==
  ASSUME "loss" \notin Faults
  PROVE  TInv /\ OInv /\ [Next]_vars => OInv'
<1> SUFFICES ASSUME TInv, OInv, [Next]_vars PROVE OInv'
  OBVIOUS
<1>0. NStacks \in Nat \ {0} /\ readoutStructure \in {0, NStacks}
  BY BoundsAssumption DEF TInv, TypeOK
<1>1. CASE Readout
  <2>1. PICK ml \in Readouts[daq] : wire' = Append(wire, [slot |-> daq, modules |-> ml])
    BY <1>1 DEF Readout
  <2>2. [slot |-> daq, modules |-> ml] \in Messages
    BY <1>1 DEF Readout, Messages
  <2>3. Unbroken => Unbroken'
    BY <1>1, <2>1, <2>2, AddLast DEF Readout, parser
  <2> QED
    BY <1>1, <2>3 DEF Readout, OInv, OneCycle, FlightInv, OfCurrentCycle, parser,
                      reader, output
<1>2. ASSUME NEW n \in 1 .. Len(wire), Receive(n) PROVE OInv'
  <2>1. wire \in Seq(Messages) /\ n \in Nat /\ Len(wire) \in Nat /\ n <= Len(wire)
    BY DEF TInv, TypeOK
  <2>2. SubSeq(wire, 1, n) \o SubSeq(wire, n + 1, Len(wire)) = wire
    <3>1. SubSeq(wire, 1, n) \o SubSeq(wire, n + 1, Len(wire)) = SubSeq(wire, 1, Len(wire))
      BY <2>1, ConcatAdjacentSubSeq
    <3> QED
      BY <2>1, <3>1, SubSeqFull
  <2>3. Pending' = Pending
    BY <1>2, <2>2, PendingType DEF Receive, OInv, FlightInv, Pending
  <2>4. Unbroken => Unbroken'
    BY <1>2, <2>3 DEF Receive, Unbroken
  <2> QED
    BY <1>2, <2>4 DEF Receive, OInv, OneCycle, FlightInv, OfCurrentCycle, reader, output
<1>3. CASE EndBuffer
  BY <1>3 DEF EndBuffer, OInv, OneCycle, FlightInv, Unbroken, OfCurrentCycle, Pending,
              crate, parser, reader, output
<1>4. CASE BeginCallback
  <2>1. readoutStructure = NStacks /\ buffer # <<>> /\ Head(buffer) \in Messages
    <3>1. buffer \in Seq(Messages) /\ buffer # <<>>
      BY <1>4 DEF BeginCallback, TInv, TypeOK
    <3>2. Head(buffer) \in Messages
      BY <3>1, HeadTail
    <3>3. Head(buffer).slot.stack >= 0 /\ Head(buffer).slot.stack \in Int
      BY <3>2, MessageType, <1>0 DEF ReadoutSlot
    <3> QED
      BY <1>4, <1>0, <3>1, <3>2, <3>3 DEF BeginCallback
  <2>2. Unbroken' /\ current'.slot = NextSlot(current.slot)
    BY <1>4, <2>1, TakeFirst DEF BeginCallback, OInv, FlightInv, crate
  <2>3. mesy_event' = mesy_event /\ readoutStructure' = NStacks
    BY <1>4, <2>1 DEF BeginCallback, reader
  <2>4. OfCurrentCycle'
    <3>1. CASE IsLastStack(current.slot)
      BY <1>4, <2>1, <2>3, <3>1 DEF BeginCallback, OInv, FlightInv, OfCurrentCycle
    <3>2. CASE ~IsLastStack(current.slot)
      <4>1. current'.slot.cycle = current.slot.cycle
        BY <2>2, <3>2 DEF NextSlot
      <4> QED
        BY <1>4, <2>1, <2>3, <4>1 DEF BeginCallback, OInv, FlightInv, OfCurrentCycle
    <3> QED
      BY <3>1, <3>2
  <2> QED
    BY <1>4, <1>0, <2>2, <2>3, <2>4
    DEF BeginCallback, OInv, OneCycle, FlightInv, output
<1>5. CASE PassOver
  <2>1. readoutStructure = 0
    <3>1. buffer \in Seq(Messages) /\ buffer # <<>>
      BY <1>5 DEF PassOver, TInv, TypeOK
    <3>2. Head(buffer) \in Messages
      BY <3>1, HeadTail
    <3>3. Head(buffer).slot.stack <= NStacks - 1 /\ Head(buffer).slot.stack \in Int
      BY <3>2, MessageType, <1>0 DEF ReadoutSlot
    <3> QED
      BY <1>5, <1>0, <3>3 DEF PassOver
  <2> QED
    BY <1>5, <1>0, <2>1 DEF PassOver, OInv, OneCycle, FlightInv, reader, output
<1>6. CASE AbandonBuffer
  BY <1>6, <1>0 DEF AbandonBuffer, OInv, OneCycle, FlightInv, output
<1>7. CASE SkipModule
  BY <1>7 DEF SkipModule, NextModule, OInv, OneCycle, FlightInv, Unbroken,
              OfCurrentCycle, Pending, crate, reader, output
<1>8. CASE ReadTgv
  <2>1. mesy_event'.modules = mesy_event.modules
    BY <1>8 DEF ReadTgv, TInv, TypeOK, Event
  <2> QED
    BY <1>8, <2>1 DEF ReadTgv, NextModule, OInv, OneCycle, FlightInv, Unbroken,
                      OfCurrentCycle, Pending, crate, output
<1>9. CASE ReadScaler
  <2>1. /\ moduleDataList # <<>> /\ current \in Messages /\ mesy_event \in Event
        /\ pc = "modules" /\ HasModule /\ is_mvlc_scaler(firmware)
    BY <1>9 DEF ReadScaler, NextModule, TInv, TypeOK, Reading
  <2>2. ScalerData(1) \in ModuleData /\ ScalerData(7) \in ModuleData
    BY <2>1, ScalerDataType
  <2>3. /\ ScalerData(1).origin.cycle = current.slot.cycle
        /\ ScalerData(7).origin.cycle = current.slot.cycle
    BY DEF ScalerData, set_header_word
  <2>4. readoutStructure = NStacks
    BY <2>1, <1>0 DEF OInv, FlightInv
  <2>5. \A k \in DOMAIN mesy_event.modules :
          mesy_event.modules[k].origin.cycle = current.slot.cycle
    BY <2>4 DEF OInv, FlightInv, OfCurrentCycle
  <2>6. add_module_data(mesy_event, ScalerData(1)) \in Event
    BY <2>1, <2>2, EventTypes
  <2>7. \A k \in DOMAIN add_module_data(mesy_event, ScalerData(1)).modules :
          add_module_data(mesy_event, ScalerData(1)).modules[k].origin.cycle
            = current.slot.cycle
    BY <2>1, <2>2, <2>3, <2>5, AddOfCurrent
  <2>8. \A k \in DOMAIN mesy_event'.modules :
          mesy_event'.modules[k].origin.cycle = current.slot.cycle
    BY <1>9, <2>2, <2>3, <2>6, <2>7, AddOfCurrent DEF ReadScaler
  <2> QED
    BY <1>9, <2>1, <2>4, <2>8
    DEF ReadScaler, OInv, OneCycle, FlightInv, Unbroken, OfCurrentCycle, Pending,
        crate, output
<1>10. CASE BeginModule
  BY <1>10 DEF BeginModule, NextModule, OInv, OneCycle, FlightInv, Unbroken,
               OfCurrentCycle, Pending, crate, output
<1>11. CASE TakeWord
  BY <1>11 DEF TakeWord, OInv, OneCycle, FlightInv, Unbroken, OfCurrentCycle, Pending,
               crate, output
<1>12. CASE EndModule
  <2>1. mod_data \in ModuleData /\ mesy_event \in Event
    BY DEF TInv, TypeOK
  <2>2. mod_data.origin.cycle = current.slot.cycle
    BY <1>12 DEF EndModule, TInv, Reading
  <2>3. readoutStructure = NStacks
    BY <1>12, <1>0 DEF EndModule, OInv, FlightInv
  <2>4. \A k \in DOMAIN mesy_event.modules :
          mesy_event.modules[k].origin.cycle = current.slot.cycle
    BY <2>3 DEF OInv, FlightInv, OfCurrentCycle
  <2>5. \A k \in DOMAIN mesy_event'.modules :
          mesy_event'.modules[k].origin.cycle = current.slot.cycle
    BY <1>12, <2>1, <2>2, <2>4, AddOfCurrent DEF EndModule
  <2> QED
    BY <1>12, <2>3, <2>5
    DEF EndModule, OInv, OneCycle, FlightInv, Unbroken, OfCurrentCycle, Pending,
        crate, output
<1>13. CASE CollateMore
  <2>1. readoutStructure = NStacks
    BY <1>13, <1>0 DEF CollateMore, OInv, FlightInv
  <2>2. ~IsLastStack(current.slot)
    BY <1>13, <2>1 DEF CollateMore, EventComplete, IsLastStack
  <2>3. /\ UNCHANGED <<daq, wire, buffer, current, readoutStructure, mesy_event, sent>>
        /\ pc' = "parse"
    BY <1>13 DEF CollateMore, crate, parser, reader, output
  <2>4. Unbroken'
    BY <2>1, <2>3 DEF OInv, FlightInv, Unbroken, Pending
  <2>5. OfCurrentCycle'
    BY <2>1, <2>2, <2>3 DEF OInv, FlightInv, OfCurrentCycle
  <2>6. OneCycle'
    BY <2>3 DEF OInv, OneCycle
  <2> QED
    BY <2>1, <2>3, <2>4, <2>5, <2>6 DEF OInv, FlightInv
<1>14. CASE Emit
  <2>1. mesy_event \in Event /\ sent \in Seq(Event)
    BY DEF TInv, TypeOK
  <2>2. readoutStructure = NStacks
    BY <1>14, <1>0 DEF Emit, OInv, FlightInv
  <2>3. mesy_event'.modules = <<>>
    BY <1>14, <2>1, EmptyEvent DEF Emit
  <2>4. \A j, k \in DOMAIN mesy_event.modules :
          mesy_event.modules[j].origin.cycle = mesy_event.modules[k].origin.cycle
    BY <2>2 DEF OInv, FlightInv, OfCurrentCycle
  <2>5. OneCycle'
    <3>1. CASE sent' = Append(sent, mesy_event)
      BY <2>1, <2>4, <3>1, AppendProperties DEF OInv, OneCycle
    <3>2. CASE sent' = sent
      BY <3>2 DEF OInv, OneCycle
    <3> QED
      BY <1>14, <3>1, <3>2 DEF Emit, output
  <2>6. /\ UNCHANGED <<daq, wire, buffer, current, readoutStructure>>
        /\ pc' = "parse"
    BY <1>14 DEF Emit, crate, parser
  <2>7. Unbroken'
    BY <2>2, <2>6 DEF OInv, FlightInv, Unbroken, Pending
  <2>8. OfCurrentCycle'
    BY <2>3, <2>6 DEF OfCurrentCycle
  <2> QED
    BY <2>2, <2>5, <2>6, <2>7, <2>8 DEF OInv, FlightInv
<1>15. CASE UNCHANGED vars
  <2>1. /\ UNCHANGED <<daq, wire, pc, buffer, current>>
        /\ UNCHANGED <<readoutStructure, mesy_event, sent>>
    BY <1>15 DEF vars, crate, parser, reader, output
  <2>2. Unbroken' = Unbroken
    BY <2>1 DEF Unbroken, Pending
  <2>3. OfCurrentCycle' = OfCurrentCycle
    BY <2>1 DEF OfCurrentCycle
  <2>4. OneCycle' = OneCycle
    BY <2>1 DEF OneCycle
  <2> QED
    BY <2>1, <2>2, <2>3, <2>4 DEF OInv, FlightInv
<1> QED
  BY <1>1, <1>2, <1>3, <1>4, <1>5, <1>6, <1>7, <1>8, <1>9, <1>10, <1>11, <1>12,
     <1>13, <1>14, <1>15
  DEF Next, Work, RecvTimeout, Lose, ParseThrows, ScalerUnknown, EmitThrows

LEMMA InitOInv == Init => OInv
<1> SUFFICES ASSUME Init PROVE OInv
  OBVIOUS
<1>1. NStacks \in Nat \ {0}
  BY BoundsAssumption
<1>2. Pending = <<>>
  BY DEF Init, Pending
<1>3. Len(Pending) = 0
  BY <1>2
<1>4. NextSlot(current.slot) = daq
  BY <1>1 DEF Init, BeforeFirst, FirstSlot, NextSlot, IsLastStack
<1>5. Unbroken
  BY <1>2, <1>3, <1>4 DEF Unbroken
<1>6. OfCurrentCycle
  BY DEF Init, OfCurrentCycle
<1> QED
  BY <1>1, <1>5, <1>6 DEF Init, OInv, OneCycle, FlightInv

(* On a connection that loses nothing, an event never mixes two cycles of   *)
(* the crate, wherever the stream is cut into buffers and even if the       *)
(* parser, a module look-up or the publication of an event throws.          *)
THEOREM OneCycleCorrect ==
  ASSUME "loss" \notin Faults
  PROVE  Spec => []OneCycle
<1>1. OInv => OneCycle
  BY DEF OInv
<1>2. TInv /\ OInv /\ [Next]_vars => OInv'
  BY StepOInv
<1> QED
  BY <1>1, <1>2, InitTInv, StepTInv, InitOInv, PTL DEF Spec

-----------------------------------------------------------------------------
(* The order of slots *)

IsSlot(s) == s.cycle \in Nat /\ s.stack \in Nat

AllBefore(A, B) == \A a \in A, b \in B : SlotBefore(a, b)
UpTo(A, s) == \A a \in A : ~SlotBefore(s, a)

LEMMA Transitive ==
  ASSUME NEW r, NEW s, NEW t, IsSlot(r), IsSlot(s), IsSlot(t),
         ~SlotBefore(s, r), SlotBefore(s, t)
  PROVE  SlotBefore(r, t)
BY DEF IsSlot, SlotBefore

LEMMA Before ==
  ASSUME NEW s, NEW t, IsSlot(s), IsSlot(t), SlotBefore(s, t)
  PROVE  ~SlotBefore(t, s)
BY DEF IsSlot, SlotBefore

LEMMA NotBeforeItself ==
  ASSUME NEW s, IsSlot(s)
  PROVE  ~SlotBefore(s, s)
BY DEF IsSlot, SlotBefore

LEMMA NextIsLater ==
  ASSUME NEW s \in ReadoutSlot
  PROVE  SlotBefore(s, NextSlot(s))
BY BoundsAssumption DEF ReadoutSlot, NextSlot, IsLastStack, SlotBefore

LEMMA SlotsAreSlots ==
  /\ \A s \in Slot : IsSlot(s)
  /\ \A o \in Origin : IsSlot(o)
  /\ IsSlot(BeforeFirst.slot)
BY BoundsAssumption DEF Slot, Origin, IsSlot, BeforeFirst

-----------------------------------------------------------------------------
(* The invariant *)

SlotsOf(q) == {q[i].slot : i \in DOMAIN q}
OriginsOf(ev) == {ev.modules[k].origin : k \in DOMAIN ev.modules}
Published == UNION {OriginsOf(sent[i]) : i \in DOMAIN sent}

Increasing(q) == \A i, j \in DOMAIN q : i < j => SlotBefore(q[i].slot, q[j].slot)

\* What is to come: the buffer, then the wire, then what the crate reads out.
Ahead ==
  /\ Increasing(buffer) /\ Increasing(wire)
  /\ AllBefore(SlotsOf(buffer), SlotsOf(wire) \cup {daq})
  /\ AllBefore(SlotsOf(wire), {daq})
  /\ AllBefore({current.slot}, SlotsOf(buffer) \cup SlotsOf(wire) \cup {daq})

\* What has been: published data, then the event being collated, then, inside
\* a callback, the readout at hand.
Behind ==
  /\ UpTo(OriginsOf(mesy_event), current.slot)
  /\ UpTo(Published, current.slot)
  /\ pc \in {"modules", "words"} => AllBefore(Published, {current.slot})
  /\ AllBefore(Published, OriginsOf(mesy_event))

IInv == Ahead /\ Behind /\ InOrderOnce

LEMMA TInvSlots ==
  ASSUME TInv
  PROVE  /\ IsSlot(current.slot) /\ IsSlot(daq)
         /\ \A s \in SlotsOf(buffer) \cup SlotsOf(wire) : IsSlot(s)
         /\ \A o \in OriginsOf(mesy_event) \cup Published : IsSlot(o)
<1>1. /\ current \in Messages \cup {BeforeFirst} /\ daq \in Slot
      /\ buffer \in Seq(Messages) /\ wire \in Seq(Messages)
      /\ mesy_event \in Event /\ sent \in Seq(Event)
  BY DEF TInv, TypeOK
<1>2. ASSUME NEW m \in Messages PROVE IsSlot(m.slot)
  BY MessageType, SlotsAreSlots
<1>3. ASSUME NEW q \in Seq(Messages) PROVE \A s \in SlotsOf(q) : IsSlot(s)
  BY <1>2 DEF SlotsOf
<1>4. ASSUME NEW ev \in Event PROVE \A o \in OriginsOf(ev) : IsSlot(o)
  <2>1. ev.modules \in Seq(ModuleData)
    BY DEF Event
  <2>2. \A k \in DOMAIN ev.modules : ev.modules[k] \in ModuleData
    BY <2>1
  <2>3. \A md \in ModuleData : md.origin \in Origin
    BY DEF ModuleData
  <2> QED
    BY <2>2, <2>3, SlotsAreSlots DEF OriginsOf
<1>5. \A i \in DOMAIN sent : sent[i] \in Event
  BY <1>1
<1>6. \A o \in Published : IsSlot(o)
  BY <1>4, <1>5 DEF Published
<1>7. IsSlot(current.slot)
  BY <1>1, <1>2, SlotsAreSlots
<1> QED
  BY <1>1, <1>3, <1>4, <1>6, <1>7, SlotsAreSlots

LEMMA InitOrder == Init => IInv
<1> SUFFICES ASSUME Init PROVE IInv
  OBVIOUS
<1>1. SlotsOf(buffer) = {} /\ SlotsOf(wire) = {} /\ Published = {}
  BY DEF Init, SlotsOf, Published
<1>2. OriginsOf(mesy_event) = {}
  BY DEF Init, OriginsOf
<1>3. SlotBefore(current.slot, daq)
  BY DEF Init, BeforeFirst, FirstSlot, SlotBefore
<1>4. Ahead
  BY <1>1, <1>3 DEF Init, Ahead, Increasing, AllBefore
<1>5. Behind
  BY <1>1, <1>2 DEF Behind, UpTo, AllBefore
<1> QED
  BY <1>4, <1>5 DEF Init, IInv, InOrderOnce

-----------------------------------------------------------------------------
(* What is ahead *)

LEMMA AheadReadout ==
  ASSUME TInv, Ahead, Readout
  PROVE  Ahead'
<1>1. PICK m \in Messages : m.slot = daq /\ wire' = Append(wire, m)
  BY DEF Readout, Messages
<1>2. wire \in Seq(Messages) /\ Len(wire) \in Nat /\ daq \in ReadoutSlot /\ daq' = NextSlot(daq)
      /\ buffer' = buffer /\ current' = current
  BY DEF Readout, parser, TInv, TypeOK
<1>3. /\ DOMAIN wire = 1 .. Len(wire) /\ DOMAIN wire' = 1 .. Len(wire) + 1
      /\ \A i \in 1 .. Len(wire) : wire'[i] = wire[i]
      /\ wire'[Len(wire) + 1] = m
  BY <1>1, <1>2, AppendProperties
<1>4. SlotsOf(wire') \subseteq SlotsOf(wire) \cup {daq}
  BY <1>1, <1>2, <1>3 DEF SlotsOf
<1>5. \A i \in DOMAIN wire : SlotBefore(wire[i].slot, daq)
  BY DEF Ahead, AllBefore, SlotsOf
<1>6. Increasing(wire')
  BY <1>1, <1>2, <1>3, <1>5 DEF Increasing, Ahead
<1>7. IsSlot(daq) /\ IsSlot(daq')
  BY <1>2, NextSlotType, SlotsAreSlots DEF ReadoutSlot, IsSlot, TInv, TypeOK
<1>8. SlotBefore(daq, daq') /\ ~SlotBefore(daq', daq)
  BY <1>2, <1>7, NextIsLater, Before
<1>9. ASSUME NEW s, IsSlot(s), SlotBefore(s, daq) PROVE SlotBefore(s, daq')
  <2>1. ~SlotBefore(daq, s)
    BY <1>7, <1>9, Before
  <2> QED
    BY <1>7, <1>8, <1>9, <2>1, Transitive
<1>10. \A s \in SlotsOf(buffer) \cup SlotsOf(wire) \cup {current.slot} :
         IsSlot(s) /\ SlotBefore(s, daq) /\ SlotBefore(s, daq')
  BY <1>9, TInvSlots DEF Ahead, AllBefore
<1>11. AllBefore(SlotsOf(buffer), SlotsOf(wire') \cup {daq'})
  BY <1>4, <1>10 DEF Ahead, AllBefore
<1>12. AllBefore(SlotsOf(wire'), {daq'})
  BY <1>4, <1>8, <1>10 DEF AllBefore
<1>13. AllBefore({current.slot}, SlotsOf(buffer) \cup SlotsOf(wire') \cup {daq'})
  BY <1>4, <1>10 DEF Ahead, AllBefore
<1> QED
  BY <1>2, <1>6, <1>11, <1>12, <1>13 DEF Ahead

\* A piece of a queue.
LEMMA Piece ==
  ASSUME NEW q \in Seq(Messages), NEW a \in 1 .. Len(q) + 1, NEW b \in 0 .. Len(q),
         Increasing(q)
  PROVE  /\ Increasing(SubSeq(q, a, b))
         /\ SlotsOf(SubSeq(q, a, b)) \subseteq {q[i].slot : i \in a .. b}
         /\ SlotsOf(SubSeq(q, a, b)) \subseteq SlotsOf(q)
<1>1. Len(q) \in Nat /\ DOMAIN q = 1 .. Len(q)
  OBVIOUS
<1> DEFINE p == SubSeq(q, a, b)
<1>2. /\ DOMAIN p = 1 .. (IF a <= b THEN b - a + 1 ELSE 0)
      /\ \A i \in DOMAIN p : p[i] = q[a + i - 1] /\ a + i - 1 \in a .. b
  BY <1>1, SubSeqProperties
<1>3. \A i \in a .. b : i \in DOMAIN q
  BY <1>1
<1>4. \A i, j \in DOMAIN p : i < j => a + i - 1 < a + j - 1
  BY <1>1, <1>2
<1>5. Increasing(p)
  BY <1>2, <1>3, <1>4 DEF Increasing
<1>6. SlotsOf(p) \subseteq {q[i].slot : i \in a .. b}
  BY <1>2 DEF SlotsOf
<1>7. SlotsOf(p) \subseteq SlotsOf(q)
  BY <1>3, <1>6 DEF SlotsOf
<1> QED
  BY <1>5, <1>6, <1>7

LEMMA AheadLose ==
  ASSUME TInv, Ahead, NEW n \in 1 .. Len(wire), Lose(n)
  PROVE  Ahead'
<1>1. wire \in Seq(Messages) /\ Len(wire) \in Nat
  BY DEF TInv, TypeOK
<1>2. n + 1 \in 1 .. Len(wire) + 1 /\ Len(wire) \in 0 .. Len(wire)
  BY <1>1
<1>3. Increasing(wire') /\ SlotsOf(wire') \subseteq SlotsOf(wire)
  BY <1>1, <1>2, Piece DEF Lose, Ahead
<1>4. UNCHANGED <<daq, buffer, current>>
  BY DEF Lose, parser
<1> QED
  BY <1>3, <1>4 DEF Ahead, AllBefore

LEMMA AheadReceive ==
  ASSUME TInv, Ahead, NEW n \in 1 .. Len(wire), Receive(n)
  PROVE  Ahead'
<1>1. wire \in Seq(Messages) /\ Len(wire) \in Nat /\ n \in Nat /\ DOMAIN wire = 1 .. Len(wire)
  BY DEF TInv, TypeOK
<1>2. n + 1 \in 1 .. Len(wire) + 1 /\ Len(wire) \in 0 .. Len(wire)
      /\ 1 \in 1 .. Len(wire) + 1 /\ n \in 0 .. Len(wire)
  BY <1>1
<1>3. Increasing(wire)
  BY DEF Ahead
<1>4. /\ Increasing(wire')
      /\ SlotsOf(wire') \subseteq {wire[i].slot : i \in n + 1 .. Len(wire)}
      /\ SlotsOf(wire') \subseteq SlotsOf(wire)
  BY <1>1, <1>2, <1>3, Piece DEF Receive
<1>5. /\ Increasing(buffer')
      /\ SlotsOf(buffer') \subseteq {wire[i].slot : i \in 1 .. n}
      /\ SlotsOf(buffer') \subseteq SlotsOf(wire)
  BY <1>1, <1>2, <1>3, Piece DEF Receive
<1>6. \A i \in 1 .. n, j \in n + 1 .. Len(wire) : SlotBefore(wire[i].slot, wire[j].slot)
  BY <1>1, <1>3 DEF Increasing
<1>7. AllBefore(SlotsOf(buffer'), SlotsOf(wire'))
  BY <1>4, <1>5, <1>6 DEF AllBefore
<1>8. UNCHANGED <<daq, current>>
  BY DEF Receive
<1> QED
  BY <1>4, <1>5, <1>7, <1>8 DEF Ahead, AllBefore

\* The reader goes on to the next readout, or passes over it.
LEMMA AheadTake ==
  ASSUME TInv, Ahead, buffer # <<>>, buffer' = Tail(buffer),
         wire' = wire, daq' = daq, current' \in {current, Head(buffer)}
  PROVE  Ahead' /\ SlotBefore(current.slot, Head(buffer).slot)
<1>1. buffer \in Seq(Messages) /\ DOMAIN buffer = 1 .. Len(buffer) /\ Len(buffer) \in Nat
  BY DEF TInv, TypeOK
<1>2. /\ Head(buffer) = buffer[1] /\ 1 \in DOMAIN buffer
      /\ DOMAIN buffer' \subseteq Nat \ {0}
      /\ \A i \in DOMAIN buffer' : i + 1 \in DOMAIN buffer /\ buffer'[i] = buffer[i + 1]
  BY <1>1, HeadTail
<1>3. Increasing(buffer')
  <2>1. \A i, j \in DOMAIN buffer' : i < j => i + 1 < j + 1
    BY <1>2
  <2> QED
    BY <1>2, <2>1 DEF Ahead, Increasing
<1>4. SlotsOf(buffer') \subseteq SlotsOf(buffer) /\ Head(buffer).slot \in SlotsOf(buffer)
  BY <1>2 DEF SlotsOf
<1>5. AllBefore({Head(buffer).slot}, SlotsOf(buffer'))
  <2>1. \A i \in DOMAIN buffer' : 1 < i + 1
    BY <1>2
  <2>2. \A i \in DOMAIN buffer' : SlotBefore(buffer[1].slot, buffer'[i].slot)
    BY <1>2, <2>1 DEF Ahead, Increasing
  <2> QED
    BY <1>2, <2>2 DEF AllBefore, SlotsOf
<1>6. AllBefore({current'.slot}, SlotsOf(buffer') \cup SlotsOf(wire) \cup {daq})
  BY <1>4, <1>5 DEF Ahead, AllBefore
<1> QED
  BY <1>3, <1>4, <1>6 DEF Ahead, AllBefore

LEMMA AheadEmpty ==
  ASSUME Ahead, buffer' \in {buffer, <<>>}, wire' = wire, daq' = daq, current' = current
  PROVE  Ahead'
<1>1. CASE buffer' = buffer
  BY <1>1 DEF Ahead
<1>2. CASE buffer' = <<>>
  <2>1. SlotsOf(buffer') = {} /\ Increasing(buffer')
    BY <1>2 DEF SlotsOf, Increasing
  <2> QED
    BY <2>1 DEF Ahead, AllBefore
<1> QED
  BY <1>1, <1>2

LEMMA StepAhead ==
  ASSUME TInv, Ahead, [Next]_vars
  PROVE  Ahead'
<1>1. ASSUME NEW n \in 1 .. Len(wire), Lose(n) \/ Receive(n) PROVE Ahead'
  BY <1>1, AheadLose, AheadReceive
<1>2. CASE BeginCallback \/ PassOver
  BY <1>2, AheadTake DEF BeginCallback, PassOver, crate
<1>3. CASE AbandonBuffer
  BY <1>3, AheadEmpty DEF AbandonBuffer, crate
<1>4. CASE EndBuffer \/ SkipModule \/ ReadTgv \/ ReadScaler \/ BeginModule
           \/ TakeWord \/ EndModule \/ CollateMore \/ Emit \/ UNCHANGED vars
  <2>1. UNCHANGED <<buffer, wire, daq, current>>
    BY <1>4 DEF EndBuffer, SkipModule, ReadTgv, ReadScaler, BeginModule, TakeWord, EndModule,
                CollateMore, Emit, vars, crate, parser
  <2> QED
    BY <2>1, AheadEmpty
<1> QED
  BY <1>1, <1>2, <1>3, <1>4, AheadReadout
  DEF Next, Work, RecvTimeout, ParseThrows, ScalerUnknown, EmitThrows

-----------------------------------------------------------------------------
(* What is behind *)

LEMMA OriginsOfAdded ==
  ASSUME NEW ev \in Event, NEW md \in ModuleData
  PROVE  OriginsOf(add_module_data(ev, md)) \subseteq OriginsOf(ev) \cup {md.origin}
<1>1. ev.modules \in Seq(ModuleData)
  BY DEF Event
<1>2. add_module_data(ev, md).modules = Append(ev.modules, md)
  BY DEF Event, add_module_data
<1> QED
  BY <1>1, <1>2, AppendProperties DEF OriginsOf

LEMMA OriginsOfCleared ==
  ASSUME NEW ev \in Event
  PROVE  OriginsOf(clear_event(ev)) = {}
BY EmptyEvent DEF OriginsOf

\* Nothing is published, and what the event gains is of the readout at hand.
LEMMA BehindCollate ==
  ASSUME TInv, Behind, sent' = sent, current' = current,
         OriginsOf(mesy_event') \subseteq OriginsOf(mesy_event) \cup {current.slot},
         pc \in {"modules", "words"}
  PROVE  Behind'
<1>1. Published' = Published
  BY DEF Published
<1>2. ~SlotBefore(current.slot, current.slot)
  BY TInvSlots, NotBeforeItself
<1> QED
  BY <1>1, <1>2 DEF Behind, UpTo, AllBefore

\* Neither, and no callback begins.
LEMMA BehindRest ==
  ASSUME TInv, Behind, sent' = sent, current' = current,
         OriginsOf(mesy_event') \subseteq OriginsOf(mesy_event),
         pc' \in {"modules", "words"} => pc \in {"modules", "words"}
  PROVE  Behind'
<1>1. Published' = Published
  BY DEF Published
<1> QED
  BY <1>1 DEF Behind, UpTo, AllBefore

LEMMA BehindCallback ==
  ASSUME TInv, Ahead, Behind, BeginCallback
  PROVE  Behind'
<1>1. /\ current' = Head(buffer) /\ mesy_event' = mesy_event /\ Published' = Published
      /\ buffer # <<>> /\ buffer \in Seq(Messages)
  BY DEF BeginCallback, reader, output, TInv, TypeOK, Published
<1>2. SlotBefore(current.slot, current'.slot) /\ IsSlot(current.slot) /\ IsSlot(current'.slot)
  <2>1. SlotBefore(current.slot, current'.slot)
    BY <1>1, AheadTake DEF BeginCallback, crate
  <2>2. current'.slot \in SlotsOf(buffer)
    BY <1>1, HeadTail DEF SlotsOf
  <2> QED
    BY <2>1, <2>2, TInvSlots
<1>3. ASSUME NEW o \in OriginsOf(mesy_event) \cup Published
      PROVE  SlotBefore(o, current'.slot) /\ ~SlotBefore(current'.slot, o)
  <2>1. IsSlot(o) /\ ~SlotBefore(current.slot, o)
    BY TInvSlots DEF Behind, UpTo
  <2>2. SlotBefore(o, current'.slot)
    BY <1>2, <2>1, Transitive
  <2> QED
    BY <1>2, <2>1, <2>2, Before
<1> QED
  BY <1>1, <1>3 DEF Behind, UpTo, AllBefore

LEMMA OrderEmit ==
  ASSUME TInv, Behind, InOrderOnce, Emit
  PROVE  Behind' /\ InOrderOnce'
<1>1. /\ mesy_event \in Event /\ sent \in Seq(Event) /\ Len(sent) \in Nat
      /\ current' = current /\ pc' = "parse" /\ OriginsOf(mesy_event') = {}
  BY OriginsOfCleared DEF Emit, parser, TInv, TypeOK
<1>2. CASE sent' = Append(sent, mesy_event)
  <2>1. /\ DOMAIN sent = 1 .. Len(sent) /\ DOMAIN sent' = 1 .. Len(sent) + 1
        /\ \A i \in 1 .. Len(sent) : sent'[i] = sent[i]
        /\ sent'[Len(sent) + 1] = mesy_event
    BY <1>1, <1>2, AppendProperties
  <2>2. Published' \subseteq Published \cup OriginsOf(mesy_event)
    BY <2>1 DEF Published
  <2>3. ASSUME NEW i \in DOMAIN sent', NEW j \in DOMAIN sent', i < j
        PROVE  \A k \in DOMAIN sent'[i].modules, l \in DOMAIN sent'[j].modules :
                 SlotBefore(sent'[i].modules[k].origin, sent'[j].modules[l].origin)
    <3>1. i \in DOMAIN sent /\ sent'[i] = sent[i]
      BY <1>1, <2>1, <2>3
    <3>2. CASE j \in DOMAIN sent
      BY <2>1, <2>3, <3>1, <3>2 DEF InOrderOnce
    <3>3. CASE j \notin DOMAIN sent
      <4>1. sent'[j] = mesy_event
        BY <1>1, <2>1, <3>3
      <4>2. \A k \in DOMAIN sent[i].modules : sent[i].modules[k].origin \in Published
        BY <3>1 DEF Published, OriginsOf
      <4>3. \A l \in DOMAIN mesy_event.modules :
              mesy_event.modules[l].origin \in OriginsOf(mesy_event)
        BY DEF OriginsOf
      <4> QED
        BY <3>1, <4>1, <4>2, <4>3 DEF Behind, AllBefore
    <3> QED
      BY <3>2, <3>3
  <2>4. InOrderOnce'
    BY <2>3 DEF InOrderOnce
  <2> QED
    BY <1>1, <2>2, <2>4 DEF Behind, UpTo, AllBefore
<1>3. CASE sent' = sent
  <2>1. Published' = Published /\ InOrderOnce'
    BY <1>3 DEF Published, InOrderOnce
  <2> QED
    BY <1>1, <2>1 DEF Behind, UpTo, AllBefore
<1> QED
  BY <1>2, <1>3 DEF Emit, output

LEMMA StepBehind ==
  ASSUME TInv, Ahead, Behind, InOrderOnce, [Next]_vars
  PROVE  Behind' /\ InOrderOnce'
<1>0. mesy_event \in Event /\ mod_data \in ModuleData
  BY DEF TInv, TypeOK
<1>1. ASSUME sent' = sent PROVE InOrderOnce'
  BY <1>1 DEF InOrderOnce
<1>2. CASE BeginCallback
  BY <1>1, <1>2, BehindCallback DEF BeginCallback, output
<1>3. CASE ReadScaler
  <2>1. /\ moduleDataList # <<>> /\ current \in Messages /\ HasModule
        /\ pc = "modules" /\ is_mvlc_scaler(firmware)
    BY <1>3 DEF ReadScaler, NextModule, TInv, Reading
  <2>2. ScalerData(1) \in ModuleData /\ ScalerData(7) \in ModuleData
    BY <2>1, ScalerDataType
  <2>3. ScalerData(1).origin = current.slot /\ ScalerData(7).origin = current.slot
    BY DEF ScalerData, set_header_word
  <2>4. add_module_data(mesy_event, ScalerData(1)) \in Event
    BY <1>0, <2>2, EventTypes
  <2>5. OriginsOf(mesy_event') \subseteq OriginsOf(mesy_event) \cup {current.slot}
    BY <1>0, <1>3, <2>2, <2>3, <2>4, OriginsOfAdded DEF ReadScaler
  <2> QED
    BY <1>1, <1>3, <2>1, <2>5, BehindCollate DEF ReadScaler, output
<1>4. CASE EndModule
  <2>1. mod_data.origin = current.slot /\ pc = "words"
    BY <1>4 DEF EndModule, TInv, Reading
  <2>2. OriginsOf(mesy_event') \subseteq OriginsOf(mesy_event) \cup {current.slot}
    BY <1>0, <1>4, <2>1, OriginsOfAdded DEF EndModule
  <2> QED
    BY <1>1, <1>4, <2>1, <2>2, BehindCollate DEF EndModule, output
<1>5. CASE AbandonBuffer
  <2>1. OriginsOf(mesy_event') = {}
    BY <1>0, <1>5, OriginsOfCleared DEF AbandonBuffer
  <2> QED
    BY <1>1, <1>5, <2>1, BehindRest DEF AbandonBuffer, output
<1>6. CASE Emit
  BY <1>6, OrderEmit
<1>7. CASE ReadTgv
  <2>1. mesy_event'.modules = mesy_event.modules
    BY <1>0, <1>7 DEF ReadTgv, Event
  <2>2. OriginsOf(mesy_event') = OriginsOf(mesy_event)
    BY <2>1 DEF OriginsOf
  <2> QED
    BY <1>1, <1>7, <2>2, BehindRest DEF ReadTgv, output
<1>8. ASSUME NEW n \in 1 .. Len(wire), Lose(n) \/ Receive(n) PROVE Behind' /\ InOrderOnce'
  BY <1>1, <1>8, BehindRest DEF Lose, Receive, parser, reader, output
<1>9. CASE Readout \/ EndBuffer \/ PassOver \/ SkipModule \/ BeginModule \/ TakeWord
           \/ CollateMore \/ UNCHANGED vars
  <2>1. /\ UNCHANGED <<sent, current, mesy_event>>
        /\ pc' \in {"modules", "words"} => pc \in {"modules", "words"}
    BY <1>9 DEF Readout, EndBuffer, PassOver, SkipModule, NextModule, BeginModule, TakeWord,
                CollateMore, vars, parser, reader, output
  <2> QED
    BY <1>1, <2>1, BehindRest
<1> QED
  BY <1>2, <1>3, <1>4, <1>5, <1>6, <1>7, <1>8, <1>9
  DEF Next, Work, RecvTimeout, ParseThrows, ScalerUnknown, EmitThrows

-----------------------------------------------------------------------------
(* What is published in an event comes from readouts after all those of the *)
(* events before it: nothing is published twice or out of order, whatever   *)
(* the connection loses and whichever step throws.                          *)
THEOREM InOrderCorrect == Spec => []InOrderOnce
<1>1. IInv => InOrderOnce
  BY DEF IInv
<1>2. TInv /\ IInv /\ [Next]_vars => IInv'
  BY StepAhead, StepBehind DEF IInv
<1> QED
  BY <1>1, <1>2, InitTInv, StepTInv, InitOrder, PTL DEF Spec
=============================================================================
