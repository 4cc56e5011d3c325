-------------------------- MODULE AcquisitionProofs --------------------------
(***************************************************************************)
(* Theorems about Acquisition, for every crate, all hits, every loss and   *)
(* every exception.                                                        *)
(***************************************************************************)
EXTENDS Acquisition, EventBuilderProofs

-----------------------------------------------------------------------------
(* The transmitter in the composition *)

LEMMA AllStepsTransmit == [NextAll]_<<vars, transit, analysis>> => [Next]_vars
BY DEF NextAll, Transmit, Deliver, LoseFrame, Read

LEMMA TransmitterRefined == SpecAll => Spec
<1>1. InitAll => Init
  BY DEF InitAll
<1> QED
  BY <1>1, AllStepsTransmit, PTL DEF SpecAll, Spec

(* On a connection from mvme that loses nothing, an event is data of one    *)
(* cycle, whatever happens to the frames afterwards.                        *)
THEOREM OneCycleCorrectAll ==
  ASSUME "loss" \notin Faults
  PROVE  SpecAll => []OneCycle
BY TransmitterRefined, OneCycleCorrect, PTL

-----------------------------------------------------------------------------
(* What is sent and what comes *)

FrameOf(ev) == MfmFrame(ev)
FrameType == {FrameOf(ev) : ev \in Event}
DeliveredType ==
  [revision : {1}, modules : Seq(ModuleData), blob : {f.blob : f \in FrameType} \cup {<<>>}]

AllTypes ==
  /\ frames \in Seq(FrameType) /\ Len(frames) = Len(sent)
  /\ taken \in Nat /\ taken <= Len(sent)
  /\ done \in Seq(DeliveredType)
  /\ r_frame \in DeliveredType

AInv == TInv /\ AllTypes

LEMMA InitAInv == InitAll => AInv
<1> SUFFICES ASSUME InitAll PROVE AInv
  OBVIOUS
<1>1. TInv
  BY InitTInv DEF InitAll
<1>2. /\ frames = <<>> /\ sent = <<>> /\ taken = 0 /\ done = <<>>
      /\ r_frame = [revision |-> 1, modules |-> <<>>, blob |-> <<>>]
  BY DEF InitAll, Init, Reader!Init
<1>3. r_frame \in DeliveredType
  BY <1>2 DEF DeliveredType
<1> QED
  BY <1>1, <1>2, <1>3 DEF AInv, AllTypes

\* The transmitter publishes at most one event.
LEMMA Publishes ==
  ASSUME AInv, [Next]_vars
  PROVE  \/ frames' = frames /\ sent' = sent
         \/ /\ frames' = Append(frames, MfmFrame(mesy_event))
            /\ sent' = Append(sent, mesy_event)
            /\ mesy_event \in Event
<1>1. mesy_event \in Event
  BY DEF AInv, TInv, TypeOK
<1>2. CASE Emit
  BY <1>1, <1>2 DEF Emit, output
<1>3. CASE AbandonBuffer
  BY <1>3 DEF AbandonBuffer, output
<1>4. ASSUME NEW n \in 1 .. Len(wire), Lose(n) \/ Receive(n)
      PROVE  frames' = frames /\ sent' = sent
  BY <1>4 DEF Lose, Receive, output
<1>5. CASE Readout \/ EndBuffer \/ BeginCallback \/ PassOver \/ SkipModule \/ ReadTgv
           \/ ReadScaler \/ BeginModule \/ TakeWord \/ EndModule \/ CollateMore
           \/ UNCHANGED vars
  BY <1>5 DEF Readout, EndBuffer, BeginCallback, PassOver, SkipModule, ReadTgv, ReadScaler,
              BeginModule, TakeWord, EndModule, CollateMore, vars, output
<1> QED
  BY <1>2, <1>3, <1>4, <1>5
  DEF Next, Work, RecvTimeout, ParseThrows, ScalerUnknown, EmitThrows

LEMMA StepTransmit ==
  ASSUME AInv, [Next]_vars, UNCHANGED <<transit, analysis>>
  PROVE  AllTypes'
<1>1. /\ UNCHANGED <<taken, done, r_frame>>
      /\ sent \in Seq(Event) /\ Len(sent) \in Nat
      /\ frames \in Seq(FrameType) /\ Len(frames) = Len(sent)
      /\ taken \in Nat /\ taken <= Len(sent)
  BY DEF transit, analysis, AInv, AllTypes, TInv, TypeOK
<1>2. CASE frames' = frames /\ sent' = sent
  BY <1>1, <1>2 DEF AInv, AllTypes
<1>3. CASE /\ frames' = Append(frames, MfmFrame(mesy_event))
           /\ sent' = Append(sent, mesy_event) /\ mesy_event \in Event
  <2>1. MfmFrame(mesy_event) \in FrameType
    BY <1>3 DEF FrameType, FrameOf
  <2>2. frames' \in Seq(FrameType) /\ Len(frames') = Len(frames) + 1
    BY <1>1, <1>3, <2>1, AppendProperties
  <2>3. Len(sent') = Len(sent) + 1
    BY <1>1, <1>3, AppendProperties
  <2> QED
    BY <1>1, <2>2, <2>3 DEF AInv, AllTypes
<1> QED
  BY <1>2, <1>3, Publishes

LEMMA StepDeliver ==
  ASSUME AInv, Deliver
  PROVE  AllTypes'
<1>1. /\ taken' = taken + 1 /\ taken < Len(frames)
      /\ r_frame' = [revision |-> 1, modules |-> sent[taken + 1].modules,
                     blob |-> frames[taken + 1].blob]
      /\ UNCHANGED <<frames, sent, done>>
  BY DEF Deliver, InTransit, Reader!ReadV1, Reader!Begin, Reader!output, vars, output
<1>2. /\ sent \in Seq(Event) /\ frames \in Seq(FrameType) /\ Len(frames) = Len(sent)
      /\ taken \in Nat /\ taken <= Len(sent) /\ Len(sent) \in Nat
      /\ DOMAIN sent = 1 .. Len(sent) /\ DOMAIN frames = 1 .. Len(sent)
  BY DEF AInv, AllTypes, TInv, TypeOK
<1>3. taken + 1 \in DOMAIN sent /\ taken + 1 \in DOMAIN frames
  BY <1>1, <1>2
<1>4. sent[taken + 1] \in Event /\ frames[taken + 1] \in FrameType
  BY <1>2, <1>3
<1>5. sent[taken + 1].modules \in Seq(ModuleData)
  BY <1>4 DEF Event
<1>6. r_frame' \in DeliveredType
  BY <1>1, <1>4, <1>5 DEF DeliveredType
<1> QED
  BY <1>1, <1>2, <1>6 DEF AInv, AllTypes

\* What the analysis is done with is the frame it had in hand.
LEMMA StepRest ==
  ASSUME AInv, UNCHANGED <<frames, sent, r_frame>>,
         done' = done \/ done' = Append(done, r_frame),
         taken' = taken \/ (taken' = taken + 1 /\ taken < Len(frames))
  PROVE  AllTypes'
<1>1. /\ taken \in Nat /\ taken' \in Nat /\ taken' <= Len(sent) /\ Len(sent) \in Nat
  BY DEF AInv, AllTypes, TInv, TypeOK
<1>2. done' \in Seq(DeliveredType)
  <2>1. done \in Seq(DeliveredType) /\ r_frame \in DeliveredType
    BY DEF AInv, AllTypes
  <2> QED
    BY <2>1, AppendProperties
<1> QED
  BY <1>1, <1>2 DEF AInv, AllTypes

LEMMA StepAInv == AInv /\ [NextAll]_<<vars, transit, analysis>> => AInv'
<1> SUFFICES ASSUME AInv, [NextAll]_<<vars, transit, analysis>> PROVE AInv'
  OBVIOUS
<1>1. TInv'
  <2>1. [Next]_vars
    BY AllStepsTransmit
  <2> QED
    BY <2>1, StepTInv DEF AInv
<1>2. CASE Transmit
  BY <1>1, <1>2, StepTransmit DEF Transmit, AInv
<1>3. CASE Deliver
  BY <1>1, <1>3, StepDeliver DEF AInv
<1>4. CASE LoseFrame
  BY <1>1, <1>4, StepRest DEF LoseFrame, InTransit, AInv, vars, output, analysis
<1>5. CASE Read
  <2>1. UNCHANGED <<frames, sent, taken>>
    BY <1>5 DEF Read, vars, output, transit
  <2>2. CASE Reader!HeaderV1 \/ Reader!ScalerV1 \/ Reader!DataV1 \/ Reader!SkipV1
    <3>1. UNCHANGED <<done, r_frame>>
      BY <2>2 DEF Reader!HeaderV1, Reader!ScalerV1, Reader!DataV1, Reader!SkipV1,
                  Reader!NextWord, Reader!output
    <3> QED
      BY <1>1, <2>1, <3>1, StepRest DEF AInv
  <2>3. CASE Reader!HeaderThrowsV1 \/ Reader!EndV1
    <3>1. done' = Append(done, r_frame) /\ r_frame' = r_frame
      BY <2>3 DEF Reader!HeaderThrowsV1, Reader!EndV1, Reader!Reading, Reader!Throw,
                  Reader!Finish, Reader!input
    <3> QED
      BY <1>1, <2>1, <3>1, StepRest DEF AInv
  <2>4. CASE Reader!DataUndefinedV1
    <3>1. UNCHANGED <<done, r_frame>>
      BY <2>4 DEF Reader!DataUndefinedV1, Reader!input, Reader!output
    <3> QED
      BY <1>1, <2>1, <3>1, StepRest DEF AInv
  <2> QED
    BY <1>5, <2>2, <2>3, <2>4 DEF Read
<1>6. CASE UNCHANGED <<vars, transit, analysis>>
  BY <1>1, <1>6, StepRest DEF AInv, vars, output, transit, analysis
<1> QED
  BY <1>2, <1>3, <1>4, <1>5, <1>6 DEF NextAll

-----------------------------------------------------------------------------
(* The analysis reads what BufferReaderProofs is about *)

\* What may stand in a frame that comes.
PublishedFrames ==
  {f \in [revision : {1}, modules : Seq(ModuleData), blob : Seq(Word)] :
     f.blob # <<>> => is_module_header(f.blob[1])}

Analyser == INSTANCE BufferReaderProofs WITH
  pc <- r_pc, frame <- r_frame, words <- r_words, mesy_event <- r_mesy_event,
  mod_data <- r_mod_data, Frames <- PublishedFrames, MaxFrames <- MaxCycle

\* Its copies of the operators, and those of FrameDecoder, are those.
LEMMA AnalyserWords ==
  /\ \A s : Analyser!FlattenSeq(s) = FlattenSeq(s)
  /\ \A s, S : Analyser!Picked(s, S) = Picked(s, S)
  /\ \A w, s : Analyser!Mapped(w, s) = Mapped(w, s)
  /\ Analyser!Word = Word
  /\ \A w : /\ Analyser!module_id(w) = module_id(w)
            /\ Analyser!is_module_header(w) = is_module_header(w)
            /\ Analyser!TopNibble(w) = TopNibble(w)
  /\ \A f : Analyser!is_mvlc_scaler(f) = is_mvlc_scaler(f) /\ Analyser!IsMdpp(f) = IsMdpp(f)
  /\ \A ev : Analyser!get_output_buffer(ev) = get_output_buffer(ev)
  /\ Analyser!ModuleId = ModuleId /\ Analyser!Firmware = Firmware /\ Analyser!Half = Half
<1>1. \A s : Analyser!FlattenSeq(s) = FlattenSeq(s)
  BY DEF Analyser!FlattenSeq, FlattenSeq
<1>2. \A s, S : Analyser!Picked(s, S) = Picked(s, S)
  BY <1>1 DEF Analyser!Picked, Picked
<1>3. \A w, s : Analyser!Mapped(w, s) = Mapped(w, s)
  BY DEF Analyser!Mapped, Mapped
<1>4. /\ Analyser!Half = Half /\ Analyser!Word = Word /\ Analyser!ModuleId = ModuleId
      /\ Analyser!Firmware = Firmware
  BY DEF Analyser!Half, Half, Analyser!Word, Word, Analyser!ModuleId, ModuleId,
         Analyser!Firmware, Firmware
<1>5. \A w : /\ Analyser!module_id(w) = module_id(w)
            /\ Analyser!is_module_header(w) = is_module_header(w)
            /\ Analyser!TopNibble(w) = TopNibble(w)
  BY DEF Analyser!module_id, module_id, Analyser!is_module_header, is_module_header,
         Analyser!TopNibble, TopNibble
<1>6. \A f : Analyser!is_mvlc_scaler(f) = is_mvlc_scaler(f) /\ Analyser!IsMdpp(f) = IsMdpp(f)
  BY DEF Analyser!is_mvlc_scaler, is_mvlc_scaler, Analyser!IsMdpp, IsMdpp
<1>7. \A md : Analyser!ModuleBuffer(md) = ModuleBuffer(md)
  BY DEF Analyser!ModuleBuffer, ModuleBuffer
<1>8. \A ev : Analyser!get_output_buffer(ev) = get_output_buffer(ev)
  BY <1>1, <1>7 DEF Analyser!get_output_buffer, get_output_buffer
<1> QED
  BY <1>1, <1>2, <1>3, <1>4, <1>5, <1>6, <1>8

LEMMA Assumed ==
  /\ /\ DOMAIN Crate \subseteq Analyser!ModuleId
     /\ \A id \in DOMAIN Crate :
          /\ Crate[id].firmware \in Analyser!Firmware
          /\ Analyser!IsMdpp(Crate[id].firmware) => Crate[id].nchan \in {16, 32}
  /\ /\ MaxCycle \in Nat
     /\ Indeterminate \subseteq Nat
     /\ \A f \in PublishedFrames : f.blob \in Seq(Analyser!Word)
<1>1. DOMAIN Crate = DOMAIN CrateMap /\ \A id \in DOMAIN Crate : CrateMap[id] = Crate[id].firmware
  BY WiringAssumption
<1>2. Indeterminate \subseteq Nat /\ MaxCycle \in Nat
  BY BoundsAssumption, HalfNat
<1>4. DOMAIN Crate \subseteq Analyser!ModuleId
  BY <1>1, CrateMapAssumption, AnalyserWords
<1>5. ASSUME NEW id \in DOMAIN Crate
      PROVE  /\ Crate[id].firmware \in Analyser!Firmware
             /\ Analyser!IsMdpp(Crate[id].firmware) => Crate[id].nchan \in {16, 32}
  <2>1. Analyser!IsMdpp(Crate[id].firmware) = IsMdpp(Crate[id].firmware)
    BY AnalyserWords
  <2> QED
    BY <1>1, <2>1, CrateMapAssumption, ChannelsAssumption, AnalyserWords
<1>6. \A f \in PublishedFrames : f.blob \in Seq(Analyser!Word)
  BY AnalyserWords DEF PublishedFrames
<1> QED
  BY <1>2, <1>4, <1>5, <1>6

\* A block as a module of a frame.
Sent(b) == [header |-> b.header, hits |-> b.hits, marker |-> <<>>]

LEMMA DecoderCopies ==
  /\ \A m : Decoder!Words(m) = Analyser!Words(m)
  /\ \A m : Decoder!NewModule(m) = Analyser!NewModule(m)
  /\ Decoder!SentHit = Analyser!SentHit
  /\ \A f, m : Decoder!Items(f, m) = Analyser!Decoder!Items(f, m)
<1>1. /\ Decoder!DataType = Analyser!DataType /\ Decoder!ZeroWord = Analyser!ZeroWord
      /\ \A fw : Decoder!IsMdpp(fw) = Analyser!IsMdpp(fw)
      /\ \A t : Decoder!Flags(t) = Analyser!Flags(t)
      /\ \A w : Decoder!module_id(w) = Analyser!module_id(w)
      /\ \A fw : Decoder!is_mvlc_scaler(fw) = Analyser!is_mvlc_scaler(fw)
      /\ Decoder!Half = Analyser!Half
      /\ \A n, k : Decoder!Below(n, k) = Analyser!Below(n, k)
  BY DEF Decoder!DataType, Analyser!DataType, Decoder!ZeroWord, Analyser!ZeroWord,
         Decoder!IsMdpp, Analyser!IsMdpp, Decoder!Flags, Analyser!Flags,
         Decoder!module_id, Analyser!module_id, Decoder!is_mvlc_scaler, Analyser!is_mvlc_scaler,
         Decoder!Half, Analyser!Half, Decoder!Below, Analyser!Below
<1>2. \A mod, h : Decoder!HitWord(mod, h) = Analyser!HitWord(mod, h)
  BY <1>1 DEF Decoder!HitWord, Analyser!HitWord
<1>3. \A m : Decoder!Words(m) = Analyser!Words(m)
  BY <1>1, <1>2 DEF Decoder!Words, Analyser!Words
<1>4. \A mod, h : /\ Decoder!IsMdppHit(mod, h) = Analyser!IsMdppHit(mod, h)
                  /\ Decoder!IsVmmrHit(mod, h) = Analyser!IsVmmrHit(mod, h)
  BY <1>1 DEF Decoder!IsMdppHit, Analyser!IsMdppHit, Decoder!IsVmmrHit, Analyser!IsVmmrHit
<1>5. \A m : Decoder!NewModule(m) = Analyser!NewModule(m)
  BY <1>1, <1>4 DEF Decoder!NewModule, Analyser!NewModule
<1>6. Decoder!SentHit = Analyser!SentHit
  BY <1>1 DEF Decoder!SentHit, Analyser!SentHit
<1>7. \A f, m : Decoder!Items(f, m) = Analyser!Decoder!Items(f, m)
  <2>1. \A s : Decoder!FlattenSeq(s) = Analyser!Decoder!FlattenSeq(s)
    BY DEF Decoder!FlattenSeq, Analyser!Decoder!FlattenSeq
  <2>2. \A s, S : Decoder!Picked(s, S) = Analyser!Decoder!Picked(s, S)
    BY <2>1 DEF Decoder!Picked, Analyser!Decoder!Picked
  <2>3. /\ Decoder!DataType = Analyser!Decoder!DataType
        /\ Decoder!ZeroWord = Analyser!Decoder!ZeroWord
        /\ \A fw : Decoder!IsMdpp(fw) = Analyser!Decoder!IsMdpp(fw)
        /\ \A t : Decoder!Flags(t) = Analyser!Decoder!Flags(t)
        /\ \A w : Decoder!module_id(w) = Analyser!Decoder!module_id(w)
        /\ \A s : Decoder!Range(s) = Analyser!Decoder!Range(s)
    BY DEF Decoder!DataType, Analyser!Decoder!DataType,
           Decoder!ZeroWord, Analyser!Decoder!ZeroWord, Decoder!IsMdpp, Analyser!Decoder!IsMdpp,
           Decoder!Flags, Analyser!Decoder!Flags, Decoder!module_id, Analyser!Decoder!module_id,
           Decoder!Range, Analyser!Decoder!Range
  <2>4. \A mod, h : Decoder!HitWord(mod, h) = Analyser!Decoder!HitWord(mod, h)
    BY <2>3 DEF Decoder!HitWord, Analyser!Decoder!HitWord
  <2>5. \A mod, h : Decoder!Item(mod, h) = Analyser!Decoder!Item(mod, h)
    BY <2>4 DEF Decoder!Item, Analyser!Decoder!Item
  <2>6. \A mod, h : Decoder!IsItem(mod, h) = Analyser!Decoder!IsItem(mod, h)
    BY <2>3 DEF Decoder!IsItem, Analyser!Decoder!IsItem
  <2>7. \A f, m : Decoder!ItemHits(f, m) = Analyser!Decoder!ItemHits(f, m)
    BY <2>3, <2>6 DEF Decoder!ItemHits, Analyser!Decoder!ItemHits
  <2> QED
    BY <2>2, <2>3, <2>5, <2>7 DEF Decoder!Items, Analyser!Decoder!Items
<1> QED
  BY <1>3, <1>5, <1>6, <1>7

-----------------------------------------------------------------------------
(* What is published of the modules' blocks, and what is heard of it *)

\* A module of an event, as it is published.
FaceOf == [p \in ModuleData |-> [header_word |-> p.header_word, data |-> p.data]]

\* The modules ps of an event are what G, sent in a frame, shows, and an
\* analysis is told of it what it is to learn.
Explained(ps, told, G) ==
  /\ G \in Seq(Analyser!Sendable)
  /\ Mapped(FaceOf, ps) = Mapped(Analyser!Shown, G)
  /\ told = FlattenSeq(Mapped(Analyser!HeardFrom, G))
Explains(ps, told) == \E G : Explained(ps, told, G)

LEMMA SendableYields ==
  /\ Yields(Analyser!HeardFrom, Analyser!Sendable, Analyser!Hearing)
  /\ Analyser!Sendable \subseteq Analyser!SentModule
<1>1. Analyser!Sendable \subseteq Analyser!SentModule
  BY DEF Analyser!Sendable
<1>2. Analyser!Yields(Analyser!HeardFrom, Analyser!SentModule, Analyser!Hearing)
  BY Assumed, Analyser!HearingYields
<1> QED
  BY <1>1, <1>2 DEF Yields, Analyser!Yields

LEMMA ExplainsNothing == Explains(<<>>, <<>>)
<1>1. <<>> \in Seq(Analyser!Sendable)
  OBVIOUS
<1>2. Explained(<<>>, <<>>, <<>>)
  BY <1>1, MappedEmpty, FlattenEmpty DEF Explained
<1> QED
  BY <1>2 DEF Explains

LEMMA ExplainsConcat ==
  ASSUME NEW p \in Seq(ModuleData), NEW q \in Seq(ModuleData), NEW t, NEW u,
         Explains(p, t), Explains(q, u)
  PROVE  Explains(p \o q, t \o u)
<1> DEFINE H == Analyser!HeardFrom
           A == Analyser!Sendable
           T == Analyser!Hearing
           show == Analyser!Shown
<1>1. PICK G, F : Explained(p, t, G) /\ Explained(q, u, F)
  BY DEF Explains
<1>2. /\ G \in Seq(A) /\ F \in Seq(A)
      /\ Mapped(FaceOf, p) = Mapped(show, G) /\ Mapped(FaceOf, q) = Mapped(show, F)
      /\ t = FlattenSeq(Mapped(H, G)) /\ u = FlattenSeq(Mapped(H, F))
  BY <1>1 DEF Explained
<1>3. \A x \in A : H[x] \in Seq(T)
  BY SendableYields DEF Yields
<1> HIDE DEF H, A, T, show
<1>4. Mapped(H, G) \in Seq(Seq(T)) /\ Mapped(H, F) \in Seq(Seq(T))
  BY <1>2, <1>3, MappedType
<1>5. G \o F \in Seq(A)
  BY <1>2, ConcatProperties
<1>6. Mapped(FaceOf, p \o q) = Mapped(show, G \o F)
  <2>1. Mapped(FaceOf, p \o q) = Mapped(FaceOf, p) \o Mapped(FaceOf, q)
    BY MappedConcat
  <2>2. Mapped(show, G \o F) = Mapped(show, G) \o Mapped(show, F)
    <3>1. G \in Seq(A) /\ F \in Seq(A)
      BY <1>2
    <3>2. \A r \in Seq(A) : Mapped(show, G \o r) = Mapped(show, G) \o Mapped(show, r)
      BY ONLY <3>1, MappedConcat
    <3> QED
      BY <3>1, <3>2
  <2> QED
    BY <1>2, <2>1, <2>2
<1>7. FlattenSeq(Mapped(H, G \o F)) = t \o u
  <2>1. Mapped(H, G \o F) = Mapped(H, G) \o Mapped(H, F)
    BY <1>2, MappedConcat
  <2> QED
    BY <1>2, <1>4, <2>1, FlattenConcat
<1>8. Explained(p \o q, t \o u, G \o F)
  BY <1>5, <1>6, <1>7 DEF Explained, H, A, show
<1> QED
  BY <1>8 DEF Explains

LEMMA ExplainsType ==
  ASSUME NEW p, NEW t, Explains(p, t)
  PROVE  t \in Seq(Analyser!Hearing)
<1> DEFINE H == Analyser!HeardFrom
           A == Analyser!Sendable
           T == Analyser!Hearing
<1>1. PICK G : G \in Seq(A) /\ t = FlattenSeq(Mapped(H, G))
  BY DEF Explains, Explained
<1>2. \A x \in A : H[x] \in Seq(T)
  BY SendableYields DEF Yields
<1> HIDE DEF H, A, T
<1>3. Mapped(H, G) \in Seq(Seq(T))
  BY <1>1, <1>2, MappedType
<1>4. t \in Seq(T)
  BY <1>1, <1>3, FlattenType
<1> QED
  BY <1>4 DEF T

\* What is explained part by part is explained.
LEMMA ExplainsAll ==
  ASSUME NEW S, NEW p, NEW t,
         \A x \in S : p[x] \in Seq(ModuleData) /\ Explains(p[x], t[x])
  PROVE  \A s \in Seq(S) : Explains(FlattenSeq(Mapped(p, s)), FlattenSeq(Mapped(t, s)))
<1> DEFINE T == {s \in Seq(S) : Explains(FlattenSeq(Mapped(p, s)), FlattenSeq(Mapped(t, s)))}
<1>1. <<>> \in T
  BY ExplainsNothing, MappedEmpty, FlattenEmpty
<1>2. Yields(p, S, ModuleData) /\ Yields(t, S, Analyser!Hearing)
  BY ExplainsType DEF Yields
<1>3. ASSUME NEW s \in Seq(S), NEW x \in S, s \in T PROVE Append(s, x) \in T
  <2> DEFINE a == FlattenSeq(Mapped(p, s))
             b == FlattenSeq(Mapped(t, s))
  <2>1. /\ a \in Seq(ModuleData)
        /\ FlattenSeq(Mapped(p, Append(s, x))) = a \o p[x]
        /\ FlattenSeq(Mapped(t, Append(s, x))) = b \o t[x]
    BY <1>2, FlattenMappedAppend
  <2>2. Explains(a, b) /\ p[x] \in Seq(ModuleData) /\ Explains(p[x], t[x])
    BY <1>3
  <2> HIDE DEF a, b
  <2>3. Explains(a \o p[x], b \o t[x])
    BY <2>1, <2>2, ExplainsConcat
  <2>4. Append(s, x) \in Seq(S)
    BY AppendProperties
  <2> QED
    BY <2>1, <2>3, <2>4
<1> HIDE DEF T
<1>4. \A s \in Seq(S) : s \in T
  BY <1>1, <1>3, SequenceInduction
<1> QED
  BY <1>4 DEF T

-----------------------------------------------------------------------------
(* One block *)

LEMMA SentParts ==
  ASSUME NEW b \in SentBlock
  PROVE  /\ b.header \in Word /\ is_module_header(b.header)
         /\ Sent(b) \in Analyser!SentModule
         /\ Sent(b).header = b.header /\ Sent(b).hits = b.hits
         /\ Analyser!IdOf(Sent(b)) = module_id(b.header)
         /\ Analyser!ModOf(Sent(b)) = Crate[module_id(b.header)]
<1>1. b.header \in Word /\ is_module_header(b.header) /\ b.hits \in Seq(Analyser!SentHit)
  BY DecoderCopies DEF SentBlock
<1>2. Sent(b).header = b.header /\ Sent(b).hits = b.hits /\ Sent(b).marker = <<>>
  BY DEF Sent
<1>3. Sent(b) \in Analyser!SentModule
  <2>1. b.header \in {w \in Analyser!Word : Analyser!is_module_header(w)}
    BY <1>1, AnalyserWords
  <2>2. <<>> \in Seq(Analyser!Word)
    OBVIOUS
  <2> QED
    BY <1>1, <2>1, <2>2 DEF Sent, Analyser!SentModule
<1>4. Analyser!IdOf(Sent(b)) = module_id(b.header)
  BY <1>2, AnalyserWords DEF Analyser!IdOf
<1> QED
  BY <1>1, <1>2, <1>3, <1>4 DEF Analyser!ModOf

LEMMA SentSame ==
  ASSUME NEW b \in SentBlock
  PROVE  /\ Decoder!Words(b) = Analyser!Words(Sent(b))
         /\ Decoder!NewModule(b) = Analyser!NewModule(Sent(b))
         /\ Decoder!Items([revision |-> 1], b) = Analyser!ItemsHeard(Sent(b))
<1>1. Sent(b).header = b.header /\ Sent(b).hits = b.hits /\ Sent(b) \in Analyser!SentModule
  BY SentParts
<1>2. Analyser!Words(b) = Analyser!Words(Sent(b))
  BY <1>1 DEF Analyser!Words
<1>3. Analyser!NewModule(b) = Analyser!NewModule(Sent(b))
  BY <1>1 DEF Analyser!NewModule
<1> DEFINE f == [revision |-> 1]
<1> HIDE DEF f
<1>4. Analyser!Decoder!Items(f, b) = Analyser!Decoder!Items(f, Sent(b))
  <2>1. Analyser!Decoder!ItemHits(f, b) = Analyser!Decoder!ItemHits(f, Sent(b))
    BY <1>1 DEF Analyser!Decoder!ItemHits
  <2> QED
    BY <1>1, <2>1 DEF Analyser!Decoder!Items
<1>5. Analyser!Decoder!Items(f, Sent(b)) = Analyser!ItemsOf(f, Sent(b), Sent(b).hits)
  BY <1>1, Assumed, Analyser!DecoderItems
<1>6. Decoder!Items(f, b) = Analyser!ItemsHeard(Sent(b))
  BY <1>4, <1>5, DecoderCopies DEF Analyser!ItemsHeard, f
<1> QED
  BY <1>2, <1>3, <1>6, DecoderCopies DEF f

LEMMA BlockTold ==
  ASSUME NEW b \in SentBlock
  PROVE  /\ Known(b) => ToldOf(b) = Analyser!HeardFrom[Sent(b)]
         /\ Known(b) /\ Decoder!NewModule(b) => Sent(b) \in Analyser!Sendable
         /\ ~ Known(b) => ToldOf(b) = <<>>
<1>1. /\ Sent(b) \in Analyser!SentModule /\ Analyser!IdOf(Sent(b)) = module_id(b.header)
      /\ Decoder!Items([revision |-> 1], b) = Analyser!ItemsHeard(Sent(b))
      /\ Decoder!NewModule(b) = Analyser!NewModule(Sent(b))
  BY SentParts, SentSame
<1>2. Heard(module_id(b.header), Decoder!Items([revision |-> 1], b)) = Analyser!HeardFrom[Sent(b)]
  BY <1>1 DEF Heard, Analyser!HeardFrom, Analyser!HeardData
<1>3. Known(b) /\ Decoder!NewModule(b) => Sent(b) \in Analyser!Sendable
  BY <1>1 DEF Known, Analyser!Sendable
<1> QED
  BY <1>2, <1>3 DEF ToldOf

\* What modules send, and what is to be learnt of it.
BlockIn == [b \in SentBlock |-> BlockWords(b)]
ToldFrom == [b \in SentBlock |-> ToldOf(b)]
WordsIn == [bs \in Seq(SentBlock) |-> FlattenSeq(Mapped(BlockIn, bs))]
ToldIn == [bs \in Seq(SentBlock) |-> FlattenSeq(Mapped(ToldFrom, bs))]

LEMMA EndIsMarker == EndOfEvent \in Word /\ is_end_of_event(EndOfEvent)
<1>1. Analyser!Below(49152, 65536) /\ Analyser!Below(0, 65536)
  BY SMT DEF Analyser!Below
<1>2. 49152 \in Half /\ 0 \in Half
  BY <1>1, Assumed, Analyser!HalfBelow, AnalyserWords
<1>3. 49152 \div 4096 >= 12
  BY SMT
<1> QED
  BY <1>2, <1>3 DEF EndOfEvent, Word, is_end_of_event, TopNibble

LEMMA BlockStart ==
  ASSUME NEW b \in SentBlock
  PROVE  /\ BlockWords(b) \in Seq(Analyser!AnyWord)
         /\ BlockWords(b) # <<>> /\ Head(BlockWords(b)) = b.header
<1> DEFINE h == b.header
           ws == Decoder!Words(b)
           e == EndOfEvent
           A == Analyser!AnyWord
<1>1. Word \subseteq A
  BY AnalyserWords DEF Analyser!AnyWord
<1>2. h \in A /\ e \in A
  BY <1>1, SentParts, EndIsMarker
<1>3. ws \in Seq(A)
  BY SentParts, SentSame, Assumed, Analyser!WordsMapped
<1> HIDE DEF h, ws, e, A
<1> DEFINE m == <<h>> \o ws \o <<e>>
<1>4. m \in Seq(A) /\ m # <<>> /\ m[1] = h
  BY <1>2, <1>3, BlockLayout
<1>5. BlockWords(b) = m
  BY DEF BlockWords, h, ws, e
<1> HIDE DEF m
<1>6. Head(m) = m[1]
  BY <1>4, HeadTailProperties
<1> QED
  BY <1>4, <1>5, <1>6 DEF h, A

\* Modules that no crate map names are passed over, and not heard of.
LEMMA UnknownExplained ==
  ASSUME NEW s, NEW bs \in Seq(SentBlock), \A j \in DOMAIN bs : ~ Known(bs[j])
  PROVE  Explains(Builder!Pieces(s, WordsIn[bs]), ToldIn[bs])
<1> DEFINE m == WordsIn[bs]
<1>1. ToldIn[bs] = <<>>
  <2> DEFINE A == {b \in SentBlock : ~ Known(b)}
  <2>1. \A i \in DOMAIN bs : bs[i] \in A
    BY ElementOfSeq, LenProperties
  <2>2. bs \in Seq(A)
    <3>1. bs \in [1 .. Len(bs) -> A] /\ Len(bs) \in Nat
      BY <2>1, LenProperties
    <3> QED
      BY <3>1, SeqDef
  <2>3. \A b \in A : ToldFrom[b] = <<>>
    BY BlockTold DEF ToldFrom
  <2>4. Yields(ToldFrom, A, {})
    <3>1. <<>> \in Seq({})
      OBVIOUS
    <3> QED
      BY <2>3, <3>1 DEF Yields
  <2> HIDE DEF A
  <2>5. FlattenSeq(Mapped(ToldFrom, Picked(bs, {}))) = FlattenSeq(Mapped(ToldFrom, bs))
    BY <2>2, <2>3, <2>4, FlattenPicked
  <2>6. Picked(bs, {}) = <<>>
    <3>1. Picked(bs, {}) \in Seq(A \cap {})
      BY <2>2, PickedIn
    <3> QED
      BY <3>1, EmptySeq, ElementOfSeq, LenProperties
  <2> QED
    BY <2>5, <2>6, MappedEmpty, FlattenEmpty DEF ToldIn
<1>2. ~ Builder!Known(m)
  <2>1. m = FlattenSeq(Mapped(BlockIn, bs))
    BY DEF WordsIn
  <2>2. CASE bs = <<>>
    <3>1. m = <<>>
      BY <2>1, <2>2, MappedEmpty, FlattenEmpty
    <3>2. ~ Len(<<>>) > 2
      OBVIOUS
    <3> QED
      BY <3>1, <3>2, BuilderWords
  <2>3. CASE bs # <<>>
    <3> DEFINE b == Head(bs)
               w == BlockIn
               A == Analyser!AnyWord
               q == FlattenSeq(Mapped(w, Tail(bs)))
    <3>1. b \in SentBlock /\ Tail(bs) \in Seq(SentBlock) /\ b = bs[1] /\ 1 \in DOMAIN bs
      BY <2>3, HeadTailProperties
    <3>2. Yields(w, SentBlock, A)
      BY BlockStart DEF Yields, BlockIn
    <3>3. w[b] \in Seq(A) /\ w[b] # <<>> /\ Head(w[b]) = b.header
      BY <3>1, BlockStart DEF BlockIn
    <3> HIDE DEF w, A, b
    <3>4. m = w[b] \o q
      <4>1. FlattenSeq(Mapped(w, bs)) = w[Head(bs)] \o FlattenSeq(Mapped(w, Tail(bs)))
        BY <2>3, <3>2, FlattenMappedFirst
      <4> QED
        BY <2>1, <4>1 DEF w, b
    <3>5. q \in Seq(A)
      <4>1. Mapped(w, Tail(bs)) \in Seq(Seq(A))
        BY <3>1, <3>2, MappedType DEF Yields
      <4> QED
        BY <4>1, FlattenType
    <3> HIDE DEF q, m
    <3>6. m # <<>> /\ Head(m) = b.header /\ m \in Seq(A)
      BY <3>3, <3>4, <3>5, ConcatFirst, ConcatProperties
    <3>7. m[1] = b.header
      BY <3>6, HeadTailProperties
    <3>8. ~ has_module(module_id(m[1]))
      <4>1. ~ Known(b)
        BY <3>1
      <4> QED
        BY <3>7, <4>1, WiringAssumption DEF Known, has_module
    <3> QED
      BY <3>8, BuilderWords
  <2> QED
    BY <2>2, <2>3
<1>3. Builder!Pieces(s, m) = <<>>
  BY <1>2 DEF Builder!Pieces
<1> QED
  BY <1>1, <1>3, ExplainsNothing

\* A block of the crate: its words are words.
LEMMA KnownBlock ==
  ASSUME NEW b \in SentBlock, Known(b), Decoder!NewModule(b)
  PROVE  LET m == Sent(b)
         IN  /\ m \in Analyser!Sendable
             /\ Decoder!Words(b) = Analyser!Words(m)
             /\ Analyser!Words(m) \in Seq(Word) /\ Len(Analyser!Words(m)) = Len(b.hits)
             /\ b.hits \in Seq(Analyser!SentHit)
             /\ ToldOf(b) = Analyser!HeardFrom[m]
             /\ CrateMap[module_id(b.header)] = Analyser!ModOf(m).firmware
             /\ has_module(module_id(b.header))
<1> DEFINE m == Sent(b)
<1>1. /\ m \in Analyser!Sendable /\ m \in Analyser!SentModule /\ m.hits = b.hits
      /\ Analyser!ModOf(m) = Crate[module_id(b.header)]
      /\ Decoder!Words(b) = Analyser!Words(m) /\ ToldOf(b) = Analyser!HeardFrom[m]
  BY SentParts, SentSame, BlockTold
<1>2. module_id(b.header) \in DOMAIN CrateMap
  BY WiringAssumption DEF Known
<1>3. has_module(module_id(b.header)) /\ CrateMap[module_id(b.header)] = Analyser!ModOf(m).firmware
  BY <1>1, <1>2, WiringAssumption DEF has_module, Known
<1> HIDE DEF m
<1> DEFINE A == Analyser!Sound(m)
           wo == Analyser!WordOf(m)
<1>4. /\ m.hits \in Seq(A) /\ \A h \in A : wo[h] \in Word
  <2>1. m.hits \in Seq(A) /\ \A h \in A : wo[h] \in Analyser!Word
    BY <1>1, Assumed, Analyser!SoundWords
  <2> QED
    BY <2>1, AnalyserWords
<1>5. Analyser!Words(m) = Mapped(wo, m.hits)
  BY <1>1, Assumed, Analyser!WordsMapped, AnalyserWords
<1>6. m.hits \in Seq(Analyser!SentHit)
  BY <1>1, Assumed, Analyser!SentModuleParts
<1> HIDE DEF A, wo
<1>7. Mapped(wo, m.hits) \in Seq(Word) /\ Len(Mapped(wo, m.hits)) = Len(m.hits)
  <2>1. Mapped(wo, m.hits) \in Seq(Word)
    BY <1>4, MappedType
  <2>2. Len(Mapped(wo, m.hits)) = Len(m.hits)
    BY <1>4, MappedElements
  <2> QED
    BY <2>1, <2>2
<1> QED
  BY <1>1, <1>3, <1>5, <1>6, <1>7 DEF m

\* Nothing is heard of a module without hits, or of the TGV.
LEMMA QuietModule ==
  ASSUME NEW m \in Analyser!Sendable,
         m.hits = <<>> \/ is_tgv_module(Analyser!ModOf(m).firmware)
  PROVE  Analyser!HeardFrom[m] = <<>>
<1> DEFINE K == Analyser!Kept([revision |-> 1], m)
           A == Analyser!Sound(m)
<1>1. m \in Analyser!SentModule
  BY SendableYields
<1>2. m.hits \in Seq(A)
  BY Assumed, Analyser!SoundWords
<1>3. CASE m.hits = <<>>
  <2>1. Analyser!Picked(m.hits, K) = <<>>
    BY <1>3, PickedEmpty, AnalyserWords
  <2> HIDE DEF K
  <2>2. Analyser!Mapped(Analyser!ItemOf(m), Analyser!Picked(m.hits, K)) = <<>>
    BY <2>1, MappedEmpty, AnalyserWords
  <2>3. Analyser!ItemsHeard(m) = <<>>
    BY <2>2 DEF Analyser!ItemsHeard, Analyser!ItemsOf, K
  <2> QED
    BY <1>1, <2>3 DEF Analyser!HeardFrom
<1>4. CASE is_tgv_module(Analyser!ModOf(m).firmware)
  <2>1. ASSUME NEW h \in A PROVE h \notin K
    <3>1. Analyser!ModOf(m).firmware = "TGV"
      BY <1>4 DEF is_tgv_module
    <3>2. ~ Analyser!IsMdppHit(Analyser!ModOf(m), h) /\ ~ Analyser!IsVmmrHit(Analyser!ModOf(m), h)
      BY <3>1 DEF Analyser!IsMdppHit, Analyser!IsVmmrHit, Analyser!IsMdpp
    <3>3. h.type \in {"raw", "fill"}
      BY <2>1, <3>2 DEF Analyser!Sound
    <3>4. h.type \notin Analyser!DataType
      BY <3>3 DEF Analyser!DataType
    <3> QED
      BY <3>1, <3>4 DEF Analyser!Kept
  <2> HIDE DEF A, K
  <2>2. \A i \in DOMAIN m.hits : m.hits[i] \in A
    BY <1>2, ElementOfSeq, LenProperties
  <2>3. Picked(m.hits, K) = Picked(m.hits, {})
    <3>1. \A i \in DOMAIN m.hits : m.hits[i] \in K <=> m.hits[i] \in {}
      BY <2>1, <2>2
    <3> QED
      BY <3>1, PickedSame
  <2>4. Picked(m.hits, {}) = <<>>
    <3>1. Picked(m.hits, {}) \in Seq(A \cap {})
      BY <1>2, PickedIn
    <3> QED
      BY <3>1, EmptySeq, ElementOfSeq, LenProperties
  <2>5. Analyser!ItemsHeard(m) = <<>>
    BY <2>3, <2>4, MappedEmpty, AnalyserWords DEF Analyser!ItemsHeard, Analyser!ItemsOf, K
  <2> QED
    BY <1>1, <2>5 DEF Analyser!HeardFrom
<1> QED
  BY <1>3, <1>4

\* One module for one piece.
LEMMA OnePiece ==
  ASSUME NEW p \in ModuleData, NEW m \in Analyser!Sendable,
         p.header_word = m.header, p.data = Analyser!Words(m)
  PROVE  Explains(<<p>>, Analyser!HeardFrom[m])
<1> DEFINE G == <<m>>
           H == Analyser!HeardFrom
           A == Analyser!Sendable
           T == Analyser!Hearing
<1>1. G \in Seq(A)
  OBVIOUS
<1>2. Analyser!Shown[m] = FaceOf[p]
  BY SendableYields DEF FaceOf, Analyser!Shown
<1>3. Mapped(FaceOf, <<p>>) = Mapped(Analyser!Shown, G)
  BY <1>2, MappedFew
<1>4. H[m] = FlattenSeq(Mapped(H, G))
  <2>1. Yields(H, A, T)
    BY SendableYields
  <2> HIDE DEF H, A, T
  <2>2. \A x \in A : FlattenSeq(Mapped(H, <<x>>)) = H[x]
    BY ONLY <2>1, FlattenFew, Zenon
  <2> QED
    BY <2>2 DEF A
<1>5. Explained(<<p>>, H[m], G)
  BY <1>1, <1>3, <1>4 DEF Explained
<1> QED
  BY <1>5 DEF Explains

\* Some of the words of a hit are the data of one block.
LEMMA DataKept ==
  ASSUME NEW m
  PROVE  \A w \in Word : TopNibble(w) \in {1, 2} => w \in DataOf(m)
<1> SUFFICES ASSUME NEW w \in Word, TopNibble(w) \in {1, 2} PROVE w \in DataOf(m)
  OBVIOUS
<1>1. ~ is_end_of_event(w)
  <2> DEFINE n == TopNibble(w)
  <2>1. n \in {1, 2}
    OBVIOUS
  <2> HIDE DEF n
  <2>2. ~ n >= 12
    BY <2>1
  <2> QED
    BY <2>2 DEF n, is_end_of_event
<1>2. ~ is_fill_word(w)
  <2>1. TopNibble(ZeroWord) = 0
    BY SMT DEF TopNibble, ZeroWord
  <2> QED
    BY <2>1 DEF is_fill_word
<1> QED
  BY <1>1, <1>2 DEF DataOf

LEMMA SingleExplained ==
  ASSUME NEW s \in Origin, NEW b \in SentBlock, Known(b), Decoder!NewModule(b),
         ~ is_mvlc_scaler(FirmwareOf(b)), NEW m, m = BlockWords(b)
  PROVE  Explains(Builder!Pieces(s, m), ToldOf(b))
<1> DEFINE g == Sent(b)
           h == b.header
           ws == Analyser!Words(g)
           e == EndOfEvent
           D == DataOf(m)
<1>1. /\ g \in Analyser!Sendable /\ g.header = h /\ g.hits = b.hits
      /\ Decoder!Words(b) = ws /\ ws \in Seq(Word) /\ Len(ws) = Len(b.hits)
      /\ b.hits \in Seq(Analyser!SentHit)
      /\ ToldOf(b) = Analyser!HeardFrom[g]
      /\ CrateMap[module_id(h)] = Analyser!ModOf(g).firmware /\ has_module(module_id(h))
      /\ h \in Word /\ e \in Word /\ is_end_of_event(e)
  BY KnownBlock, SentParts, EndIsMarker
<1>2. ~ is_mvlc_scaler(CrateMap[module_id(h)])
  BY WiringAssumption DEF FirmwareOf, Known
<1>3. m = <<h>> \o ws \o <<e>>
  BY <1>1 DEF BlockWords
<1> HIDE DEF g, h, ws, e
<1>4. m \in Seq(Word) /\ m[1] = h /\ Len(m) = Len(ws) + 2 /\ Tail(m) = Append(ws, e)
  <2>1. h \in Word /\ e \in Word /\ ws \in Seq(Word)
    BY <1>1
  <2> QED
    BY ONLY <2>1, <1>3, BlockLayout
<1>5. CASE is_tgv_module(CrateMap[module_id(h)]) \/ Len(m) <= 2
  <2>1. Builder!Pieces(s, m) = <<>>
    <3>1. ~ Builder!Known(m) \/ Builder!is_tgv_module(Builder!FirmwareOf(m))
      <4>1. CASE is_tgv_module(CrateMap[module_id(h)])
        BY <1>4, <4>1, BuilderWords
      <4>2. CASE Len(m) <= 2
        <5>1. Len(ws) \in Nat
          BY <1>1, LenProperties
        <5>2. ~ Len(m) > 2
          BY <1>4, <4>2, <5>1
        <5> QED
          BY <5>2, BuilderWords
      <4> QED
        BY <1>5, <4>1, <4>2
    <3> QED
      BY <3>1 DEF Builder!Pieces
  <2>2. g.hits = <<>> \/ is_tgv_module(Analyser!ModOf(g).firmware)
    <3>1. CASE Len(m) <= 2
      <4>1. Len(g.hits) \in Nat /\ Len(m) = Len(g.hits) + 2 /\ g.hits \in Seq(Analyser!SentHit)
        BY <1>1, <1>4, LenProperties
      <4>2. Len(g.hits) = 0
        BY <3>1, <4>1
      <4> QED
        BY <4>1, <4>2, EmptySeq
    <3> QED
      BY <1>1, <1>5, <3>1
  <2>3. Analyser!HeardFrom[g] = <<>>
    BY <1>1, <2>2, QuietModule
  <2> QED
    BY <1>1, <2>1, <2>3, ExplainsNothing
<1>6. CASE ~ is_tgv_module(CrateMap[module_id(h)]) /\ ~ Len(m) <= 2
  <2>1. Len(m) > 2
    <3>1. Len(ws) \in Nat
      BY <1>1, LenProperties
    <3> QED
      BY <1>4, <1>6, <3>1
  <2> DEFINE p == [module_id |-> module_id(h), header_word |-> h,
                   data |-> Picked(ws, D), origin |-> s]
  <2>2. Picked(Tail(m), D) = Picked(ws, D) /\ Picked(ws, D) \in Seq(Word)
    <3>1. e \notin D
      BY <1>1 DEF DataOf
    <3> HIDE DEF D
    <3>2. ws \in Seq(Word) /\ e \in Word
      BY <1>1
    <3>3. Picked(Append(ws, e), D) = Picked(ws, D) /\ Picked(ws, D) \in Seq(Word)
      BY ONLY <3>1, <3>2, PickedAppend
    <3> QED
      BY <1>4, <3>3
  <2>3. Builder!Pieces(s, m) = <<p>>
    <3>1. /\ Builder!Known(m) /\ ~ Builder!is_tgv_module(Builder!FirmwareOf(m))
          /\ ~ Builder!is_mvlc_scaler(Builder!FirmwareOf(m))
      BY <1>1, <1>2, <1>4, <1>6, <2>1, BuilderWords
    <3>2. Builder!Pieces(s, m) = <<Builder!Piece(s, m[1], Builder!Picked(Tail(m), Builder!Data(m)))>>
      BY <3>1 DEF Builder!Pieces
    <3>3. Builder!Picked(Tail(m), Builder!Data(m)) = Picked(ws, D)
      BY <2>2, BuilderWords
    <3>4. Builder!Piece(s, h, Picked(ws, D)) = p
      BY BuilderWords
    <3> QED
      BY <1>4, <3>2, <3>3, <3>4
  <2>4. p \in ModuleData
    <3>1. module_id(h) \in ModuleId
      BY <1>1, HeaderType
    <3> QED
      BY <1>1, <2>2, <3>1 DEF ModuleData
  <2>5. \E n \in Analyser!Sendable :
          /\ n.header = h /\ Analyser!Words(n) = Picked(ws, D)
          /\ Analyser!HeardFrom[n] = Analyser!HeardFrom[g]
    <3>1. ~ Analyser!is_mvlc_scaler(Analyser!ModOf(g).firmware)
      BY <1>1, <1>2, AnalyserWords
    <3>2. \A w \in Analyser!Word : Analyser!TopNibble(w) \in {1, 2} => w \in D
      BY DataKept, AnalyserWords
    <3> HIDE DEF D
    <3>3. \E n \in Analyser!Sendable :
            /\ n.header = g.header /\ Analyser!Words(n) = Analyser!Picked(Analyser!Words(g), D)
            /\ Analyser!HeardFrom[n] = Analyser!HeardFrom[g]
      BY <1>1, <3>1, <3>2, Assumed, Analyser!NothingMissed
    <3> QED
      BY <1>1, <3>3, AnalyserWords DEF ws
  <2>6. PICK n \in Analyser!Sendable :
          /\ n.header = h /\ Analyser!Words(n) = Picked(ws, D)
          /\ Analyser!HeardFrom[n] = Analyser!HeardFrom[g]
    BY <2>5
  <2>7. p.header_word = n.header /\ p.data = Analyser!Words(n)
    BY <2>6
  <2> HIDE DEF p
  <2>8. Explains(<<p>>, Analyser!HeardFrom[n])
    BY <2>4, <2>7, OnePiece
  <2> QED
    BY <1>1, <2>3, <2>6, <2>8
<1> QED
  BY <1>5, <1>6

\* The modules of two pieces.
LEMMA TwoPieces ==
  ASSUME NEW p \in ModuleData, NEW q \in ModuleData,
         NEW m \in Analyser!Sendable, NEW n \in Analyser!Sendable,
         p.header_word = m.header, p.data = Analyser!Words(m),
         q.header_word = n.header, q.data = Analyser!Words(n)
  PROVE  Explains(<<p, q>>, Analyser!HeardFrom[m] \o Analyser!HeardFrom[n])
<1> DEFINE a == <<p>>
           b == <<q>>
           t == Analyser!HeardFrom[m]
           u == Analyser!HeardFrom[n]
<1>1. a \in Seq(ModuleData) /\ b \in Seq(ModuleData) /\ <<p, q>> = a \o b
  BY PairIsConcat
<1>2. Explains(a, t) /\ Explains(b, u)
  BY OnePiece
<1> HIDE DEF a, b, t, u
<1>3. Explains(a \o b, t \o u)
  BY <1>1, <1>2, ExplainsConcat
<1> QED
  BY <1>1, <1>3 DEF t, u

\* The scalers' module: two blocks of four words.
LEMMA ScalersExplained ==
  ASSUME NEW s \in Origin, NEW b \in SentBlock, NEW d \in SentBlock,
         Known(b), Decoder!NewModule(b), is_mvlc_scaler(FirmwareOf(b)), Len(b.hits) = 4,
         Known(d), Decoder!NewModule(d), Len(d.hits) = 4,
         NEW m, m = BlockWords(b) \o BlockWords(d)
  PROVE  Explains(Builder!Pieces(s, m), ToldOf(b) \o ToldOf(d))
<1> DEFINE f == Sent(b)
           g == Sent(d)
           h == b.header
           k == d.header
           e == EndOfEvent
           u == BlockWords(b)
           v == BlockWords(d)
           ws == Analyser!Words(f)
           xs == Analyser!Words(g)
<1>1. /\ f \in Analyser!Sendable /\ f.header = h
      /\ Decoder!Words(b) = ws /\ ws \in Seq(Word) /\ Len(ws) = 4
      /\ ToldOf(b) = Analyser!HeardFrom[f]
      /\ has_module(module_id(h)) /\ h \in Word
  BY KnownBlock, SentParts
<1>2. /\ g \in Analyser!Sendable /\ g.header = k
      /\ Decoder!Words(d) = xs /\ xs \in Seq(Word) /\ Len(xs) = 4
      /\ ToldOf(d) = Analyser!HeardFrom[g] /\ k \in Word
  BY KnownBlock, SentParts
<1>3. is_mvlc_scaler(CrateMap[module_id(h)])
  BY WiringAssumption DEF FirmwareOf, Known
<1>4. /\ u = <<h>> \o ws \o <<e>> /\ v = <<k>> \o xs \o <<e>> /\ m = u \o v
      /\ e \in Word
  BY <1>1, <1>2, EndIsMarker DEF BlockWords
<1> HIDE DEF f, g, h, k, e, u, v, ws, xs
<1>5. u \in Seq(Word) /\ Len(u) = 6 /\ u[1] = h /\ \A i \in 1 .. 4 : u[i + 1] = ws[i]
  <2>1. ws \in Seq(Word) /\ Len(ws) = 4 /\ e \in Word
    BY <1>1, <1>4
  <2>2. u \in Seq(Word) /\ u # <<>> /\ u[1] = h /\ Tail(u) = Append(ws, e)
    <3>1. h \in Word /\ u = <<h>> \o ws \o <<e>>
      BY <1>1, <1>4
    <3> QED
      BY ONLY <2>1, <3>1, BlockLayout
  <2>3. Len(u) = 6 /\ \A i \in 1 .. 4 : u[i + 1] = ws[i]
    BY ONLY <2>1, <2>2, BlockOfFour
  <2> QED
    BY <2>2, <2>3
<1>6. v \in Seq(Word) /\ Len(v) = 6 /\ v[1] = k /\ \A i \in 1 .. 4 : v[i + 1] = xs[i]
  <2>1. xs \in Seq(Word) /\ Len(xs) = 4 /\ e \in Word
    BY <1>2, <1>4
  <2>2. v \in Seq(Word) /\ v # <<>> /\ v[1] = k /\ Tail(v) = Append(xs, e)
    <3>1. k \in Word /\ v = <<k>> \o xs \o <<e>>
      BY <1>2, <1>4
    <3> QED
      BY ONLY <2>1, <3>1, BlockLayout
  <2>3. Len(v) = 6 /\ \A i \in 1 .. 4 : v[i + 1] = xs[i]
    BY ONLY <2>1, <2>2, BlockOfFour
  <2> QED
    BY <2>2, <2>3
<1>7. /\ m \in Seq(Word) /\ Len(m) = 12
      /\ \A i \in 1 .. 6 : m[i] = u[i] /\ m[i + 6] = v[i]
  <2>1. u \in Seq(Word) /\ v \in Seq(Word) /\ Len(u) = 6 /\ Len(v) = 6
    BY <1>5, <1>6
  <2>2. /\ u \o v \in Seq(Word) /\ Len(u \o v) = 12
        /\ \A i \in 1 .. 6 : (u \o v)[i] = u[i] /\ (u \o v)[i + 6] = v[i]
    BY ONLY <2>1, TwoOfSix
  <2> QED
    BY <1>4, <2>2
<1>8. m[1] = h /\ m[7] = k
  <2>1. 1 \in 1 .. 6 /\ 1 + 6 = 7
    OBVIOUS
  <2> QED
    BY <1>5, <1>6, <1>7, <2>1
<1>9. \A i \in 1 .. 4 : m[2 + i - 1] = ws[i] /\ m[8 + i - 1] = xs[i]
  <2> TAKE i \in 1 .. 4
  <2>1. i + 1 \in 1 .. 6 /\ i + 1 = 2 + i - 1 /\ (i + 1) + 6 = 8 + i - 1
    OBVIOUS
  <2> QED
    BY <1>5, <1>6, <1>7, <2>1
<1>10. SubSeq(m, 2, 5) = ws /\ SubSeq(m, 8, 11) = xs
  <2>1. m \in Seq(Word) /\ ws \in Seq(Word) /\ xs \in Seq(Word) /\ Len(ws) = 4 /\ Len(xs) = 4
    BY <1>1, <1>2, <1>7
  <2>2. /\ 2 \in Nat \ {0} /\ 5 \in Nat /\ 5 = 2 + 3 /\ 5 <= Len(m)
        /\ 8 \in Nat \ {0} /\ 11 \in Nat /\ 11 = 8 + 3 /\ 11 <= Len(m)
    BY <1>7
  <2>3. /\ \A i \in 1 .. 4 : m[2 + i - 1] = ws[i]
        /\ \A i \in 1 .. 4 : m[8 + i - 1] = xs[i]
    BY <1>9
  <2>4. SubSeq(m, 2, 5) = ws
    BY ONLY <2>1, <2>2, <2>3, FourOf
  <2>5. SubSeq(m, 8, 11) = xs
    BY ONLY <2>1, <2>2, <2>3, FourOf
  <2> QED
    BY <2>4, <2>5
<1> DEFINE p == [module_id |-> module_id(h), header_word |-> h, data |-> ws, origin |-> s]
           q == [module_id |-> module_id(k), header_word |-> k, data |-> xs, origin |-> s]
<1>11. Builder!Pieces(s, m) = <<p, q>>
  <2>1. /\ Builder!Known(m) /\ Builder!is_mvlc_scaler(Builder!FirmwareOf(m))
        /\ ~ Builder!is_tgv_module(Builder!FirmwareOf(m))
    <3>1. ~ is_tgv_module(CrateMap[module_id(h)])
      BY <1>3 DEF is_mvlc_scaler, is_tgv_module
    <3>2. Len(m) > 2
      BY <1>7
    <3> QED
      BY <1>1, <1>3, <1>8, <3>1, <3>2, BuilderWords
  <2>2. Builder!Pieces(s, m) = <<Builder!Piece(s, m[1], SubSeq(m, 2, 5)),
                                 Builder!Piece(s, m[7], SubSeq(m, 8, 11))>>
    BY <2>1 DEF Builder!Pieces
  <2>3. Builder!Piece(s, h, ws) = p /\ Builder!Piece(s, k, xs) = q
    BY BuilderWords
  <2> QED
    BY <1>8, <1>10, <2>2, <2>3
<1>12. p \in ModuleData /\ q \in ModuleData
  <2>1. module_id(h) \in ModuleId /\ module_id(k) \in ModuleId
    BY <1>1, <1>2, HeaderType
  <2> QED
    BY <1>1, <1>2, <2>1 DEF ModuleData
<1>13. /\ p.header_word = f.header /\ p.data = Analyser!Words(f)
       /\ q.header_word = g.header /\ q.data = Analyser!Words(g)
  BY <1>1, <1>2 DEF ws, xs
<1> HIDE DEF p, q
<1>14. Explains(<<p, q>>, Analyser!HeardFrom[f] \o Analyser!HeardFrom[g])
  BY <1>1, <1>2, <1>12, <1>13, TwoPieces
<1> QED
  BY <1>1, <1>2, <1>11, <1>14

-----------------------------------------------------------------------------
(* One module *)

LEMMA BlocksYield ==
  /\ Yields(BlockIn, SentBlock, Analyser!AnyWord)
  /\ Yields(ToldFrom, SentBlock, Analyser!Hearing)
<1>1. Yields(BlockIn, SentBlock, Analyser!AnyWord)
  BY BlockStart DEF Yields, BlockIn
<1>2. ASSUME NEW b \in SentBlock PROVE ToldOf(b) \in Seq(Analyser!Hearing)
  <2>1. CASE Known(b)
    <3>1. Analyser!Yields(Analyser!HeardFrom, Analyser!SentModule, Analyser!Hearing)
      BY Assumed, Analyser!HearingYields
    <3>2. Sent(b) \in Analyser!SentModule
      BY SentParts
    <3> QED
      BY <2>1, <3>1, <3>2, BlockTold DEF Analyser!Yields
  <2>2. CASE ~ Known(b)
    <3>1. <<>> \in Seq(Analyser!Hearing)
      OBVIOUS
    <3> QED
      BY <2>2, <3>1, BlockTold
  <2> QED
    BY <2>1, <2>2
<1> QED
  BY <1>1, <1>2 DEF Yields, ToldFrom

\* What a module of the crate may send.
Sends == {bs \in Seq(SentBlock) : ModuleSends(bs) /\ WordsIn[bs] \in Layouts}

LEMMA ModuleExplained ==
  ASSUME NEW s \in Origin, NEW bs \in Sends
  PROVE  Explains(Builder!Pieces(s, WordsIn[bs]), ToldIn[bs])
<1>1. bs \in Seq(SentBlock) /\ ModuleSends(bs)
  BY DEF Sends
<1>2. CASE \A j \in DOMAIN bs : ~ Known(bs[j])
  BY <1>1, <1>2, UnknownExplained
<1>3. CASE /\ \A j \in DOMAIN bs : Known(bs[j]) /\ Decoder!NewModule(bs[j])
           /\ Len(bs) = 1 /\ ~ is_mvlc_scaler(FirmwareOf(bs[1]))
  <2> DEFINE b == bs[1]
  <2>1. b \in SentBlock /\ bs = <<b>> /\ 1 \in DOMAIN bs
    BY <1>1, <1>3, SmallSeq
  <2>2. Known(b) /\ Decoder!NewModule(b) /\ ~ is_mvlc_scaler(FirmwareOf(b))
    BY <1>3, <2>1
  <2> HIDE DEF b
  <2>3. \A x \in SentBlock : FlattenSeq(Mapped(BlockIn, <<x>>)) = BlockIn[x]
    BY ONLY BlocksYield, FlattenFew, Zenon
  <2>4. \A x \in SentBlock : FlattenSeq(Mapped(ToldFrom, <<x>>)) = ToldFrom[x]
    BY ONLY BlocksYield, FlattenFew, Zenon
  <2>5. WordsIn[bs] = BlockWords(b) /\ ToldIn[bs] = ToldOf(b)
    <3>1. WordsIn[bs] = FlattenSeq(Mapped(BlockIn, bs)) /\ ToldIn[bs] = FlattenSeq(Mapped(ToldFrom, bs))
      BY <1>1 DEF WordsIn, ToldIn
    <3>2. BlockIn[b] = BlockWords(b) /\ ToldFrom[b] = ToldOf(b)
      BY <2>1 DEF BlockIn, ToldFrom
    <3> QED
      BY <2>1, <2>3, <2>4, <3>1, <3>2
  <2> QED
    BY <2>1, <2>2, <2>5, SingleExplained
<1>4. CASE /\ \A j \in DOMAIN bs : Known(bs[j]) /\ Decoder!NewModule(bs[j])
           /\ Len(bs) = 2
           /\ \A j \in {1, 2} : is_mvlc_scaler(FirmwareOf(bs[j])) /\ Len(bs[j].hits) = 4
  <2> DEFINE b == bs[1]
             d == bs[2]
  <2>1. b \in SentBlock /\ d \in SentBlock /\ bs = <<b, d>> /\ 1 \in DOMAIN bs /\ 2 \in DOMAIN bs
    BY <1>1, <1>4, SmallSeq
  <2>2. /\ Known(b) /\ Decoder!NewModule(b) /\ is_mvlc_scaler(FirmwareOf(b)) /\ Len(b.hits) = 4
        /\ Known(d) /\ Decoder!NewModule(d) /\ Len(d.hits) = 4
    BY <1>4, <2>1
  <2> HIDE DEF b, d
  <2>3. \A r \in Seq(SentBlock) :
          Len(r) = 2 => FlattenSeq(Mapped(BlockIn, r)) = BlockIn[r[1]] \o BlockIn[r[2]]
    BY ONLY BlocksYield, FlattenPair, Zenon
  <2>4. \A r \in Seq(SentBlock) :
          Len(r) = 2 => FlattenSeq(Mapped(ToldFrom, r)) = ToldFrom[r[1]] \o ToldFrom[r[2]]
    BY ONLY BlocksYield, FlattenPair, Zenon
  <2>5. WordsIn[bs] = BlockWords(b) \o BlockWords(d) /\ ToldIn[bs] = ToldOf(b) \o ToldOf(d)
    <3>1. WordsIn[bs] = FlattenSeq(Mapped(BlockIn, bs)) /\ ToldIn[bs] = FlattenSeq(Mapped(ToldFrom, bs))
      BY <1>1 DEF WordsIn, ToldIn
    <3>2. /\ BlockIn[b] = BlockWords(b) /\ ToldFrom[b] = ToldOf(b)
          /\ BlockIn[d] = BlockWords(d) /\ ToldFrom[d] = ToldOf(d)
      BY <2>1 DEF BlockIn, ToldFrom
    <3> QED
      BY <1>1, <1>4, <2>3, <2>4, <3>1, <3>2 DEF b, d
  <2> QED
    BY <2>1, <2>2, <2>5, ScalersExplained
<1> QED
  BY <1>1, <1>2, <1>3, <1>4 DEF ModuleSends

-----------------------------------------------------------------------------
(* One readout, and one cycle *)

LEMMA BlocksMapped ==
  ASSUME NEW bs \in Seq(SentBlock)
  PROVE  /\ FlattenSeq([j \in DOMAIN bs |-> BlockWords(bs[j])]) = WordsIn[bs]
         /\ FlattenSeq([j \in DOMAIN bs |-> ToldOf(bs[j])]) = ToldIn[bs]
<1>1. \A j \in DOMAIN bs : bs[j] \in SentBlock
  BY ElementOfSeq, LenProperties
<1>2. [j \in DOMAIN bs |-> BlockWords(bs[j])] = Mapped(BlockIn, bs)
  BY <1>1 DEF Mapped, BlockIn
<1>3. [j \in DOMAIN bs |-> ToldOf(bs[j])] = Mapped(ToldFrom, bs)
  BY <1>1 DEF Mapped, ToldFrom
<1> QED
  BY <1>2, <1>3 DEF WordsIn, ToldIn

\* A readout was made of hits, and HitsOf finds some of them.
LEMMA ReadoutHits ==
  ASSUME HitsWellFormed, NEW r \in Messages
  PROVE  /\ HitsOf(r) \in Seq(Sends)
         /\ r.modules = Mapped(WordsIn, HitsOf(r))
         /\ Told(HitsOf(r)) = FlattenSeq(Mapped(ToldIn, HitsOf(r)))
<1> DEFINE ms == HitsOf(r)
<1>1. PICK s \in ReadoutSlot : \E ml \in Readouts[s] : r.slot = s /\ r.modules = ml
  BY DEF Messages
<1>2. Readouts[s] = {ReadoutOf(hs) : hs \in Hits[s]}
  BY WiringAssumption
<1>3. ms \in Hits[s] /\ ReadoutOf(ms) = r.modules
  BY <1>1, <1>2 DEF HitsOf
<1>4. ms \in Seq(Seq(SentBlock)) /\ \A k \in DOMAIN ms : ModuleSends(ms[k])
  BY <1>3 DEF HitsWellFormed
<1> HIDE DEF ms
<1>5. \A k \in DOMAIN ms : ms[k] \in Seq(SentBlock)
  BY <1>4, ElementOfSeq, LenProperties
<1>6. r.modules = Mapped(WordsIn, ms)
  <2>1. \A k \in DOMAIN ms :
          FlattenSeq([j \in DOMAIN ms[k] |-> BlockWords(ms[k][j])]) = WordsIn[ms[k]]
    BY <1>5, BlocksMapped
  <2>2. ReadoutOf(ms) = Mapped(WordsIn, ms)
    BY <2>1 DEF ReadoutOf, Mapped
  <2> QED
    BY <1>3, <2>2
<1>7. Told(ms) = FlattenSeq(Mapped(ToldIn, ms))
  <2>1. \A k \in DOMAIN ms :
          FlattenSeq([j \in DOMAIN ms[k] |-> ToldOf(ms[k][j])]) = ToldIn[ms[k]]
    BY <1>5, BlocksMapped
  <2>2. [k \in DOMAIN ms |-> FlattenSeq([j \in DOMAIN ms[k] |-> ToldOf(ms[k][j])])]
          = Mapped(ToldIn, ms)
    BY <2>1 DEF Mapped
  <2> QED
    BY <2>2 DEF Told
<1>8. \A k \in DOMAIN ms : ms[k] \in Sends
  <2> TAKE k \in DOMAIN ms
  <2>1. r.modules \in Seq(Layouts)
    BY MessageModules
  <2>2. DOMAIN r.modules = DOMAIN ms /\ r.modules[k] = WordsIn[ms[k]]
    BY <1>6 DEF Mapped
  <2>3. r.modules[k] \in Layouts
    BY <2>1, <2>2, ElementOfSeq, LenProperties
  <2> QED
    BY <1>4, <1>5, <2>2, <2>3 DEF Sends
<1>9. ms \in Seq(Sends)
  <2> DEFINE A == Seq(SentBlock)
  <2>1. ms \in Seq(A)
    BY <1>4
  <2> HIDE DEF A
  <2>2. Len(ms) \in Nat /\ DOMAIN ms = 1 .. Len(ms) /\ ms = [i \in 1 .. Len(ms) |-> ms[i]]
    BY <2>1, LenProperties
  <2> QED
    BY <1>8, <2>2, IsASeq
<1> QED
  BY <1>6, <1>7, <1>9 DEF ms

LEMMA ReadoutExplained ==
  ASSUME HitsWellFormed, NEW r \in Messages
  PROVE  Explains(Builder!PiecesOf(r), Told(HitsOf(r)))
<1> DEFINE s == r.slot
           ms == HitsOf(r)
           p == [bs \in Sends |-> Builder!Pieces(s, WordsIn[bs])]
<1>1. /\ ms \in Seq(Sends) /\ r.modules = Mapped(WordsIn, ms)
      /\ Told(ms) = FlattenSeq(Mapped(ToldIn, ms))
  BY ReadoutHits
<1>2. r.modules \in Seq(Layouts) /\ s \in Origin /\ Builder!PiecesOf(r) = Gathered(s, r.modules)
  BY MessageModules
<1> HIDE DEF s, ms
<1>3. \A i \in DOMAIN ms : ms[i] \in Sends
  BY <1>1, ElementOfSeq, LenProperties
<1>4. Gathered(s, r.modules) = FlattenSeq(Mapped(p, ms))
  <2>1. [i \in DOMAIN r.modules |-> Builder!Pieces(s, r.modules[i])] = Mapped(p, ms)
    BY <1>1, <1>3 DEF Mapped
  <2> QED
    BY <2>1 DEF Gathered
<1>5. \A bs \in Sends : p[bs] \in Seq(ModuleData) /\ Explains(p[bs], ToldIn[bs])
  <2> TAKE bs \in Sends
  <2>1. WordsIn[bs] \in Layouts
    BY DEF Sends
  <2> QED
    BY <1>2, <2>1, PiecesType, ModuleExplained
<1> HIDE DEF p
<1>6. Explains(FlattenSeq(Mapped(p, ms)), FlattenSeq(Mapped(ToldIn, ms)))
  BY <1>1, <1>5, ExplainsAll
<1> QED
  BY <1>1, <1>2, <1>4, <1>6 DEF ms

\* What the readouts rs of the cycle c had to tell.
ToldBy == [r \in Messages |-> Told(HitsOf(r))]
HitsIn(rs, c) == FlattenSeq(Mapped(ToldBy, Picked(rs, InCycle(c))))

LEMMA OfCycle ==
  ASSUME NEW rs \in Seq(Messages), NEW c
  PROVE  Picked(rs, InCycle(c)) \in Seq(Messages)
<1>1. Picked(rs, InCycle(c)) \in Seq(Messages \cap InCycle(c))
  BY PickedIn
<1>2. Messages \cap InCycle(c) \subseteq Messages
  OBVIOUS
<1> HIDE DEF Messages, InCycle
<1> QED
  BY <1>1, <1>2

LEMMA CycleHitsIn ==
  ASSUME handled \in Seq(Messages)
  PROVE  \A c : CycleHits(c) = HitsIn(handled, c)
<1> TAKE c
<1> DEFINE rs == Picked(handled, InCycle(c))
<1>1. rs \in Seq(Messages)
  BY OfCycle
<1>2. \A i \in DOMAIN rs : rs[i] \in Messages
  BY <1>1, ElementOfSeq, LenProperties
<1>3. rs = Picked(handled, {r \in Messages : r.slot.cycle = c})
  BY DEF InCycle
<1> HIDE DEF rs
<1>4. [i \in DOMAIN rs |-> Told(HitsOf(rs[i]))] = Mapped(ToldBy, rs)
  BY <1>2 DEF Mapped, ToldBy
<1> QED
  BY <1>3, <1>4 DEF CycleHits, HitsIn, rs

\* An event that is whole shows the hits of its cycle.
LEMMA EventExplained ==
  ASSUME HitsWellFormed, NEW rs \in Seq(Messages), NEW ev, Whole(rs, ev)
  PROVE  Explains(ev.modules, HitsIn(rs, OwnCycle(ev)))
<1> DEFINE c == OwnCycle(ev)
           q == Picked(rs, InCycle(c))
<1>1. ev.modules = Adds(q)
  BY DEF Whole
<1>2. q \in Seq(Messages)
  BY OfCycle
<1> HIDE DEF c, q
<1>3. \A r \in Messages : PiecesIn[r] \in Seq(ModuleData) /\ Explains(PiecesIn[r], ToldBy[r])
  BY MessageModules, ReadoutExplained DEF PiecesIn, ToldBy
<1>4. Explains(FlattenSeq(Mapped(PiecesIn, q)), FlattenSeq(Mapped(ToldBy, q)))
  BY <1>2, <1>3, ExplainsAll
<1> QED
  BY <1>1, <1>4 DEF Adds, HitsIn, c, q

-----------------------------------------------------------------------------
(* The blob of an event *)

\* b is the blob of a frame that tells an analysis told.
Shows(b, told) ==
  \E G : /\ G \in Seq(Analyser!Sendable)
         /\ b = get_output_buffer([modules |-> Mapped(Analyser!Shown, G)])
         /\ told = FlattenSeq(Mapped(Analyser!HeardFrom, G))

LEMMA EventShows ==
  ASSUME NEW ev, ev.modules \in Seq(ModuleData), NEW told, Explains(ev.modules, told)
  PROVE  Shows(get_output_buffer(ev), told)
<1> DEFINE ps == ev.modules
           A == Analyser!Sendable
           show == Analyser!Shown
<1>1. PICK G : Explained(ps, told, G)
  BY DEF Explains
<1>2. /\ G \in Seq(A) /\ Mapped(FaceOf, ps) = Mapped(show, G)
      /\ told = FlattenSeq(Mapped(Analyser!HeardFrom, G))
  BY <1>1 DEF Explained
<1> DEFINE shown == [modules |-> Mapped(show, G)]
<1>3. shown.modules = Mapped(FaceOf, ps)
  BY <1>2
<1>4. \A i \in DOMAIN ps : ps[i] \in ModuleData
  BY ElementOfSeq, LenProperties
<1>5. get_output_buffer(ev) = get_output_buffer(shown)
  <2> DEFINE q == shown.modules
  <2>1. DOMAIN q = DOMAIN ps
    BY <1>3 DEF Mapped
  <2>2. \A i \in DOMAIN ps : ModuleBuffer(q[i]) = ModuleBuffer(ps[i])
    <3> TAKE i \in DOMAIN ps
    <3>1. q[i] = FaceOf[ps[i]] /\ ps[i] \in ModuleData
      BY <1>3, <1>4 DEF Mapped
    <3>2. q[i].header_word = ps[i].header_word /\ q[i].data = ps[i].data
      BY <3>1 DEF FaceOf
    <3> QED
      BY <3>2 DEF ModuleBuffer
  <2> HIDE DEF shown
  <2>3. [i \in DOMAIN q |-> ModuleBuffer(q[i])] = [i \in DOMAIN ps |-> ModuleBuffer(ps[i])]
    BY <2>1, <2>2
  <2> QED
    BY <2>3 DEF get_output_buffer
<1> QED
  BY <1>2, <1>5 DEF Shows

\* The frame f is one of which an analysis is to learn told.
Tells(f, told) ==
  /\ f.revision = 1 /\ f.modules \in Seq(Analyser!SentModule)
  /\ Analyser!Decoder!Readable(f)
  /\ told = FlattenSeq(Mapped(Analyser!HeardFrom, f.modules))

LEMMA ShownTells ==
  ASSUME NEW b, NEW told, Shows(b, told)
  PROVE  /\ \E f : /\ Tells(f, told)
                   /\ Analyser!V1State(f, b, <<>>, Analyser!Cleared)
         /\ b # <<>> => is_module_header(b[1])
<1>1. PICK G : /\ G \in Seq(Analyser!Sendable)
               /\ b = get_output_buffer([modules |-> Mapped(Analyser!Shown, G)])
               /\ told = FlattenSeq(Mapped(Analyser!HeardFrom, G))
  BY DEF Shows
<1> DEFINE f == Analyser!ShownFrame(G, b)
<1>2. f.revision = 1 /\ f.modules = G /\ f.blob = b
  BY DEF Analyser!ShownFrame
<1>3. Analyser!WellFormed(f) /\ Analyser!Decoder!Readable(f)
  <2>1. b = Analyser!get_output_buffer([modules |-> Analyser!Mapped(Analyser!Shown, G)])
    BY <1>1, AnalyserWords
  <2> QED
    BY <1>1, <2>1, Assumed, Analyser!ShownWellFormed
<1> HIDE DEF f
<1>4. f.modules \in Seq(Analyser!SentModule)
  BY <1>3 DEF Analyser!WellFormed
<1>5. Tells(f, told)
  BY <1>1, <1>2, <1>3, <1>4 DEF Tells
<1>6. Analyser!V1State(f, b, <<>>, Analyser!Cleared)
  <2>1. Analyser!V1State(f, f.blob, <<>>, Analyser!Cleared)
    BY <1>3, Assumed, Analyser!BeginningV1
  <2> QED
    BY <1>2, <2>1
<1>7. b # <<>> => is_module_header(b[1])
  <2>1. f.blob # <<>> => Analyser!is_module_header(f.blob[1])
    BY <1>2, <1>3, Assumed, Analyser!ShownBegins
  <2> QED
    BY <1>2, <2>1, AnalyserWords
<1> QED
  BY <1>5, <1>6, <1>7

LEMMA LearnedTold ==
  ASSUME NEW f, NEW told, Tells(f, told), NEW ev,
         ev.modules = Analyser!Decoder!ReadModules(f)
  PROVE  Learned(ev) = told
<1> DEFINE mods == ev.modules
<1>1. Analyser!LearnedFrom(mods) = FlattenSeq(Mapped(Analyser!HeardFrom, f.modules))
  <2>1. f.revision = 1 /\ f.modules \in Seq(Analyser!SentModule)
    BY DEF Tells
  <2>2. Analyser!LearnedFrom(Analyser!Decoder!ReadModules(f))
          = Analyser!FlattenSeq(Analyser!Mapped(Analyser!HeardFrom, f.modules))
    BY <2>1, Assumed, Analyser!AllHeard
  <2> QED
    BY <2>2, AnalyserWords
<1> HIDE DEF mods
<1>2. Analyser!LearnedFrom(mods)
        = FlattenSeq([i \in DOMAIN mods |-> Heard(mods[i].module_id, mods[i].data)])
  BY AnalyserWords DEF Analyser!LearnedFrom, Heard
<1> QED
  BY <1>1, <1>2 DEF Learned, Tells, mods

-----------------------------------------------------------------------------
(* The composition runs the reader that BufferReaderProofs is about *)

LEMMA ReaderWords ==
  /\ \A mod, w : Reader!Decoded(mod, w) = Analyser!Decoded(mod, w)
  /\ \A w : Reader!set_header(w) = Analyser!set_header(w)
  /\ Reader!Cleared = Analyser!Cleared
  /\ Reader!NoModule = Analyser!NoModule
  /\ \A w : /\ Reader!is_module_header(w) = Analyser!is_module_header(w)
            /\ Reader!module_id(w) = Analyser!module_id(w)
            /\ Reader!IsDataV1(w) = Analyser!IsDataV1(w)
  /\ \A fw : Reader!is_mvlc_scaler(fw) = Analyser!is_mvlc_scaler(fw)
  /\ \A mod : Reader!HasMasks(mod) = Analyser!HasMasks(mod)
<1>1. /\ Reader!DataType = Analyser!DataType /\ Reader!ZeroWord = Analyser!ZeroWord
      /\ \A fw : Reader!IsMdpp(fw) = Analyser!IsMdpp(fw)
      /\ \A w : Reader!TopNibble(w) = Analyser!TopNibble(w)
  BY DEF Reader!DataType, Analyser!DataType, Reader!ZeroWord, Analyser!ZeroWord,
         Reader!IsMdpp, Analyser!IsMdpp, Reader!TopNibble, Analyser!TopNibble
<1>2. \A w : /\ Reader!is_module_header(w) = Analyser!is_module_header(w)
             /\ Reader!module_id(w) = Analyser!module_id(w)
             /\ Reader!is_mdpp_data(w) = Analyser!is_mdpp_data(w)
             /\ Reader!is_vmmr_adc_data(w) = Analyser!is_vmmr_adc_data(w)
             /\ Reader!is_vmmr_tdc_data(w) = Analyser!is_vmmr_tdc_data(w)
  BY <1>1 DEF Reader!is_module_header, Analyser!is_module_header, Reader!module_id,
              Analyser!module_id, Reader!is_mdpp_data, Analyser!is_mdpp_data,
              Reader!is_vmmr_adc_data, Analyser!is_vmmr_adc_data,
              Reader!is_vmmr_tdc_data, Analyser!is_vmmr_tdc_data
<1>3. \A w : Reader!is_vmmr_data(w) = Analyser!is_vmmr_data(w)
  BY <1>2 DEF Reader!is_vmmr_data, Analyser!is_vmmr_data
<1>4. \A w : Reader!IsDataV1(w) = Analyser!IsDataV1(w)
  BY <1>2, <1>3 DEF Reader!IsDataV1, Analyser!IsDataV1
<1>5. \A fw : Reader!is_mvlc_scaler(fw) = Analyser!is_mvlc_scaler(fw)
  BY DEF Reader!is_mvlc_scaler, Analyser!is_mvlc_scaler
<1>6. Reader!Cleared = Analyser!Cleared /\ Reader!NoModule = Analyser!NoModule
  BY <1>1 DEF Reader!Cleared, Analyser!Cleared, Reader!NoModule, Analyser!NoModule
<1>7. \A w : Reader!set_header(w) = Analyser!set_header(w)
  BY <1>2, <1>6 DEF Reader!set_header, Analyser!set_header
<1>8. \A mod, w : /\ Reader!get_data_type(mod, w) = Analyser!get_data_type(mod, w)
                  /\ Reader!get_bus_number(mod, w) = Analyser!get_bus_number(mod, w)
                  /\ Reader!get_channel_number(mod, w) = Analyser!get_channel_number(mod, w)
                  /\ Reader!get_channel_data(mod, w) = Analyser!get_channel_data(mod, w)
  <2>1. \A mod, w : Reader!get_data_type(mod, w) = Analyser!get_data_type(mod, w)
    <3> TAKE mod, w
    <3> QED
      BY Zenon
      DEF Reader!get_data_type, Analyser!get_data_type, Reader!channel_flags,
          Analyser!channel_flags, Reader!is_vmmr_adc_data, Analyser!is_vmmr_adc_data,
          Reader!TopNibble, Analyser!TopNibble
  <2>2. \A mod, w : /\ Reader!get_bus_number(mod, w) = Analyser!get_bus_number(mod, w)
                    /\ Reader!get_channel_number(mod, w) = Analyser!get_channel_number(mod, w)
                    /\ Reader!get_channel_data(mod, w) = Analyser!get_channel_data(mod, w)
    BY <1>2
    DEF Reader!get_bus_number, Analyser!get_bus_number,
        Reader!get_channel_number, Analyser!get_channel_number,
        Reader!get_channel_data, Analyser!get_channel_data
  <2> QED
    BY <2>1, <2>2
<1>9. \A mod, w : Reader!Decoded(mod, w) = Analyser!Decoded(mod, w)
  BY <1>8 DEF Reader!Decoded, Analyser!Decoded
<1>10. \A mod : Reader!HasMasks(mod) = Analyser!HasMasks(mod)
  BY <1>1 DEF Reader!HasMasks, Analyser!HasMasks
<1> QED
  BY <1>2, <1>4, <1>5, <1>6, <1>7, <1>9, <1>10

LEMMA ReaderSteps ==
  /\ Reader!HeaderV1 => Analyser!HeaderV1
  /\ Reader!HeaderThrowsV1 => Analyser!HeaderThrowsV1
  /\ Reader!ScalerV1 => Analyser!ScalerV1
  /\ Reader!DataV1 => Analyser!DataV1
  /\ Reader!DataUndefinedV1 => Analyser!DataUndefinedV1
  /\ Reader!SkipV1 => Analyser!SkipV1
  /\ Reader!EndV1 => Analyser!EndV1
  /\ \A f : Reader!ReadV1(f) => Analyser!ReadV1(f)
  /\ Reader!Init => Analyser!Init
<1>1. /\ Reader!next_word = Analyser!next_word
      /\ Reader!Reading("v1") <=> Analyser!Reading("v1")
      /\ \A id : Reader!has_module(id) <=> Analyser!has_module(id)
      /\ Reader!NextWord <=> Analyser!NextWord
      /\ Reader!local = Analyser!local /\ Reader!flags = Analyser!flags
      /\ Reader!input = Analyser!input /\ Reader!output = Analyser!output
  BY DEF Reader!next_word, Analyser!next_word, Reader!Reading, Analyser!Reading,
         Reader!has_module, Analyser!has_module, Reader!NextWord, Analyser!NextWord,
         Reader!local, Analyser!local, Reader!flags, Analyser!flags,
         Reader!input, Analyser!input, Reader!output, Analyser!output
<1>2. Reader!FlushedEvent = Analyser!FlushedEvent /\ Reader!FlushedData = Analyser!FlushedData
  BY DEF Reader!FlushedEvent, Analyser!FlushedEvent, Reader!FlushedData, Analyser!FlushedData,
         Reader!Added, Analyser!Added, Reader!moved, Analyser!moved
<1>3. \A x : Reader!add(x) = Analyser!add(x)
  BY DEF Reader!add, Analyser!add
<1>4. Reader!HeaderV1 => Analyser!HeaderV1
  BY <1>1, <1>2, ReaderWords DEF Reader!HeaderV1, Analyser!HeaderV1
<1>5. Reader!HeaderThrowsV1 => Analyser!HeaderThrowsV1
  <2>1. Reader!Throw => Analyser!Throw
    BY DEF Reader!Throw, Analyser!Throw, Reader!input, Analyser!input, Reader!local,
           Analyser!local, Reader!flags, Analyser!flags
  <2> QED
    BY <1>1, <1>2, <2>1, ReaderWords DEF Reader!HeaderThrowsV1, Analyser!HeaderThrowsV1
<1>6. Reader!ScalerV1 => Analyser!ScalerV1
  BY <1>1, <1>3, ReaderWords
  DEF Reader!ScalerV1, Analyser!ScalerV1, Reader!local, Analyser!local, Reader!flags, Analyser!flags
<1>7. Reader!DataV1 => Analyser!DataV1
  BY <1>1, <1>3, ReaderWords
  DEF Reader!DataV1, Analyser!DataV1, Reader!local, Analyser!local, Reader!flags, Analyser!flags
<1>12. Reader!DataUndefinedV1 => Analyser!DataUndefinedV1
  BY <1>1, ReaderWords
  DEF Reader!DataUndefinedV1, Analyser!DataUndefinedV1, Reader!input, Analyser!input,
      Reader!local, Analyser!local, Reader!flags, Analyser!flags, Reader!output,
      Analyser!output
<1>8. Reader!SkipV1 => Analyser!SkipV1
  BY <1>1, ReaderWords
  DEF Reader!SkipV1, Analyser!SkipV1, Reader!local, Analyser!local, Reader!flags, Analyser!flags
<1>9. Reader!EndV1 => Analyser!EndV1
  <2>1. ASSUME NEW ev, Reader!Finish(ev) PROVE Analyser!Finish(ev)
    BY <2>1 DEF Reader!Finish, Analyser!Finish, Reader!input, Analyser!input,
                Reader!flags, Analyser!flags
  <2> QED
    BY <1>2, <2>1 DEF Reader!EndV1, Analyser!EndV1
<1>10. \A f : Reader!ReadV1(f) => Analyser!ReadV1(f)
  BY ReaderWords
  DEF Reader!ReadV1, Analyser!ReadV1, Reader!Begin, Analyser!Begin, Reader!Fresh, Analyser!Fresh,
      Reader!flags, Analyser!flags, Reader!output, Analyser!output
<1>11. Reader!Init => Analyser!Init
  BY ReaderWords DEF Reader!Init, Analyser!Init
<1> QED
  BY <1>4, <1>5, <1>6, <1>7, <1>8, <1>9, <1>10, <1>11, <1>12

-----------------------------------------------------------------------------
(* What the analysis has learned *)

\* The modules ms were published, and the analysis is to learn this of them.
WasSent(ms) == \E n \in DOMAIN sent : ms = sent[n].modules
HitsFor(ms) == HitsIn(handled, CycleOf(ms))

\* The transmitter's part.
PInv == AInv /\ BInv /\ OInv /\ WInv /\ FramesOfEvents

LEMMA InitPInv ==
  ASSUME InitAll
  PROVE  PInv
<1>1. Init
  BY DEF InitAll
<1>2. FramesOfEvents
  BY <1>1, MappedEmpty DEF Init, FramesOfEvents
<1> QED
  BY <1>1, <1>2, InitAInv, InitBInv, InitOInv, InitWInv DEF PInv

LEMMA StepPInv ==
  ASSUME "loss" \notin Faults, PInv, [NextAll]_<<vars, transit, analysis>>
  PROVE  PInv'
<1>1. [Next]_vars
  BY AllStepsTransmit
<1>2. TInv
  BY DEF PInv, AInv
<1> QED
  BY <1>1, <1>2, StepAInv, StepBInv, StepOInv, StepWInv, StepFrames DEF PInv

\* What is published stays, and so does what there is to learn of it.
LEMMA PublishedStays ==
  ASSUME PInv, [Next]_vars, NEW ms, WasSent(ms)
  PROVE  WasSent(ms)' /\ HitsIn(handled', CycleOf(ms)) = HitsIn(handled, CycleOf(ms))
<1>1. PICK n \in DOMAIN sent : ms = sent[n].modules
  BY DEF WasSent
<1>2. WasSent(ms)'
  <2>1. CASE sent' = sent
    BY <1>1, <2>1 DEF WasSent
  <2>2. CASE sent' = Append(sent, mesy_event) /\ mesy_event \in Event
    <3>1. sent \in Seq(Event)
      BY DEF PInv, AInv, TInv, TypeOK
    <3>2. n \in DOMAIN sent' /\ sent'[n] = sent[n]
      <4>1. /\ Len(sent') = Len(sent) + 1 /\ sent' \in Seq(Event)
            /\ \A i \in 1 .. Len(sent) : sent'[i] = sent[i]
        BY <2>2, <3>1, AppendProperties
      <4>2. DOMAIN sent = 1 .. Len(sent) /\ DOMAIN sent' = 1 .. Len(sent') /\ Len(sent) \in Nat
        BY <3>1, <4>1, LenProperties
      <4> QED
        BY <4>1, <4>2
    <3> QED
      BY <1>1, <3>2 DEF WasSent
  <2> QED
    BY <2>1, <2>2, Publishes DEF PInv
<1>3. CASE CollateMore \/ Emit
  <2>1. Picked(handled', InCycle(OwnCycle(sent[n]))) = Picked(handled, InCycle(OwnCycle(sent[n])))
    BY <1>3, OverKept DEF PInv
  <2>2. OwnCycle(sent[n]) = CycleOf(ms)
    BY <1>1 DEF OwnCycle, CycleOf
  <2> QED
    BY <1>2, <2>1, <2>2 DEF HitsIn
<1>4. CASE ~ (CollateMore \/ Emit)
  <2>1. handled' = handled
    BY <1>4 DEF Next, Work, Readout, Lose, Receive, RecvTimeout, EndBuffer, BeginCallback,
                PassOver, ParseThrows, SkipModule, ReadTgv, ReadScaler, ScalerUnknown,
                BeginModule, TakeWord, EndModule, EmitThrows, AbandonBuffer, NextModule, vars,
                output, history, parser, reader
  <2> QED
    BY <1>2, <2>1
<1> QED
  BY <1>3, <1>4

\* What comes to the analysis.
LEMMA FramesShow ==
  ASSUME HitsWellFormed, PInv, NEW n \in DOMAIN sent
  PROVE  /\ Shows(frames[n].blob, HitsFor(sent[n].modules))
         /\ frames[n].blob \in Seq(Word)
<1> DEFINE ev == sent[n]
<1>1. handled \in Seq(Messages) /\ sent \in Seq(Event) /\ ev \in Event
  <2>1. handled \in Seq(Messages) /\ sent \in Seq(Event)
    BY DEF PInv, BInv, AInv, TInv, TypeOK
  <2> QED
    BY <2>1, ElementOfSeq, LenProperties
<1>2. Whole(handled, ev)
  BY DEF PInv, WInv, SentWhole
<1>3. frames[n].blob = get_output_buffer(ev)
  <2>1. frames[n] = MfmOf[ev]
    BY DEF PInv, FramesOfEvents, Mapped
  <2> QED
    BY <1>1, <2>1 DEF MfmOf, MfmFrame
<1> HIDE DEF ev
<1>4. Explains(ev.modules, HitsIn(handled, OwnCycle(ev)))
  BY <1>1, <1>2, EventExplained
<1>5. ev.modules \in Seq(ModuleData)
  BY <1>1 DEF Event
<1>6. Shows(get_output_buffer(ev), HitsIn(handled, OwnCycle(ev)))
  BY <1>4, <1>5, EventShows
<1>7. OwnCycle(ev) = CycleOf(ev.modules)
  BY DEF OwnCycle, CycleOf
<1>8. get_output_buffer(ev) \in Seq(Word)
  <2>1. get_output_buffer(ev) = FlattenSeq(Mapped(Contents, ev.modules))
    BY <1>1, BufferOfEvent
  <2>2. \A md \in ModuleData : Contents[md] \in Seq(Word)
    BY ContentsSize
  <2>3. Mapped(Contents, ev.modules) \in Seq(Seq(Word))
    BY <1>5, <2>2, MappedType
  <2> QED
    BY <2>1, <2>3, FlattenType
<1> QED
  BY <1>3, <1>6, <1>7, <1>8 DEF HitsFor, ev

\* What the analysis has of the frame it reads, and what it learned before.
InFrame(told) ==
  \E f : Tells(f, told) /\ Analyser!V1State(f, r_words, r_mesy_event.modules, r_mod_data)

ReadTold ==
  /\ r_pc # "undefined"
  /\ r_pc = "v1" => WasSent(r_frame.modules) /\ InFrame(HitsFor(r_frame.modules))
DoneTold ==
  /\ \E S : events \in Seq(S)
  /\ Len(events) = Len(done)
  /\ \A i \in DOMAIN done : /\ WasSent(done[i].modules)
                            /\ Learned(events[i]) = HitsFor(done[i].modules)

HInv == PInv /\ Analyser!IInv /\ ReadTold /\ DoneTold

LEMMA InitHInv ==
  ASSUME InitAll
  PROVE  HInv
<1>1. Analyser!IInv
  <2>1. Analyser!Init
    BY ReaderSteps DEF InitAll
  <2> QED
    BY <2>1, Assumed, Analyser!InitIInv
<1>2. ReadTold /\ DoneTold
  <2>1. r_pc = "idle" /\ done = <<>> /\ events = <<>>
    BY DEF InitAll, Reader!Init
  <2>2. <<>> \in Seq({})
    OBVIOUS
  <2> QED
    BY <2>1, <2>2 DEF ReadTold, DoneTold
<1> QED
  BY <1>1, <1>2, InitPInv DEF HInv

LEMMA AnalysisKept ==
  ASSUME HInv, [Next]_vars, UNCHANGED analysis
  PROVE  (Analyser!IInv /\ ReadTold /\ DoneTold)'
<1>1. UNCHANGED <<r_pc, r_frame, r_words, r_mesy_event, r_mod_data, done, events>>
  BY DEF analysis
<1>2. Analyser!IInv'
  <2>1. UNCHANGED Analyser!vars
    BY DEF analysis, Analyser!vars, Analyser!input, Analyser!local, Analyser!flags,
           Analyser!output
  <2> QED
    BY <2>1, Assumed, Analyser!NextIInv DEF HInv
<1>3. \A ms : WasSent(ms) => WasSent(ms)' /\ HitsIn(handled', CycleOf(ms)) = HitsIn(handled, CycleOf(ms))
  BY PublishedStays DEF HInv
<1>4. ReadTold'
  <2> SUFFICES ASSUME r_pc' = "v1"
               PROVE  WasSent(r_frame.modules)' /\ InFrame(HitsFor(r_frame.modules))'
    BY <1>1 DEF HInv, ReadTold
  <2>1. WasSent(r_frame.modules) /\ InFrame(HitsFor(r_frame.modules))
    BY <1>1 DEF HInv, ReadTold
  <2> DEFINE ms == r_frame.modules
  <2>2. WasSent(ms)' /\ HitsFor(ms)' = HitsFor(ms)
    BY <1>1, <1>3, <2>1 DEF HitsFor
  <2> QED
    BY <1>1, <2>1, <2>2 DEF InFrame
<1>5. DoneTold'
  <2>1. \A i \in DOMAIN done : WasSent(done[i].modules)' /\ HitsFor(done[i].modules)' = HitsFor(done[i].modules)
    BY <1>1, <1>3 DEF HInv, DoneTold, HitsFor
  <2> QED
    BY <1>1, <2>1 DEF HInv, DoneTold
<1> QED
  BY <1>2, <1>4, <1>5

\* A step that keeps what was published, and the frame's modules ms with it.
LEMMA StillTold ==
  ASSUME UNCHANGED <<handled, sent>>, r_pc' = "v1",
         NEW n \in DOMAIN sent, NEW ms, ms = sent[n].modules,
         r_frame'.modules = ms, NEW told, told = HitsIn(handled, CycleOf(ms)),
         NEW f, Tells(f, told),
         Analyser!V1State(f, r_words', r_mesy_event'.modules, r_mod_data')
  PROVE  ReadTold'
<1>1. \E k \in DOMAIN sent' : r_frame'.modules = sent'[k].modules
  OBVIOUS
<1>2. told = HitsIn(handled', CycleOf(r_frame'.modules))
  OBVIOUS
<1>3. \E g : /\ Tells(g, HitsIn(handled', CycleOf(r_frame'.modules)))
             /\ Analyser!V1State(g, r_words', r_mesy_event'.modules, r_mod_data')
  BY <1>2
<1> QED
  BY <1>1, <1>3 DEF ReadTold, InFrame, WasSent, HitsFor

LEMMA DeliverTold ==
  ASSUME HitsWellFormed, HInv, Deliver
  PROVE  (Analyser!IInv /\ ReadTold /\ DoneTold)'
<1> DEFINE n == taken + 1
           f == [revision |-> 1, modules |-> sent[n].modules, blob |-> frames[n].blob]
<1>1. /\ Reader!ReadV1(f) /\ taken < Len(frames)
      /\ UNCHANGED <<handled, sent, frames>>
  BY DEF Deliver, InTransit, vars, output, history
<1>2. n \in DOMAIN sent
  <2>1. /\ sent \in Seq(Event) /\ Len(frames) = Len(sent) /\ taken \in Nat
        /\ Len(sent) \in Nat /\ DOMAIN sent = 1 .. Len(sent)
    BY LenProperties DEF HInv, PInv, AInv, AllTypes, TInv, TypeOK
  <2> QED
    BY <1>1, <2>1
<1>3. /\ Shows(frames[n].blob, HitsFor(sent[n].modules)) /\ frames[n].blob \in Seq(Word)
      /\ sent[n].modules \in Seq(ModuleData)
  <2>1. sent[n] \in Event
    BY <1>2, ElementOfSeq, LenProperties DEF HInv, PInv, AInv, TInv, TypeOK
  <2> QED
    BY <1>2, <2>1, FramesShow DEF HInv, Event
<1> DEFINE b == frames[n].blob
           told == HitsFor(sent[n].modules)
<1>4. /\ \E g : Tells(g, told) /\ Analyser!V1State(g, b, <<>>, Analyser!Cleared)
      /\ b # <<>> => is_module_header(b[1])
  BY <1>3, ShownTells
<1>5. f \in PublishedFrames
  BY <1>3, <1>4 DEF PublishedFrames
<1>6. Analyser!ReadV1(f)
  BY <1>1, ReaderSteps
<1>7. Analyser!IInv'
  <2>1. Analyser!Next
    BY <1>5, <1>6 DEF Analyser!Next
  <2> QED
    BY <2>1, Assumed, Analyser!NextIInv DEF HInv
<1>8. /\ r_pc' = "v1" /\ r_frame' = f /\ r_words' = b /\ r_mod_data' = Analyser!Cleared
      /\ r_mesy_event'.modules = <<>> /\ UNCHANGED <<done, events>>
  BY <1>6 DEF Analyser!ReadV1, Analyser!Begin, Analyser!Fresh, Analyser!output
<1>9. ReadTold'
  <2>1. PICK g : Tells(g, told) /\ Analyser!V1State(g, b, <<>>, Analyser!Cleared)
    BY <1>4
  <2>2. told = HitsIn(handled, CycleOf(sent[n].modules)) /\ r_frame'.modules = sent[n].modules
    BY <1>8 DEF HitsFor
  <2> HIDE DEF b, told, f, n
  <2>3. Analyser!V1State(g, r_words', r_mesy_event'.modules, r_mod_data')
    BY <1>8, <2>1
  <2> QED
    BY <1>1, <1>2, <1>8, <2>1, <2>2, <2>3, StillTold
<1>10. DoneTold'
  BY <1>1, <1>8 DEF HInv, DoneTold, WasSent, HitsFor
<1> QED
  BY <1>7, <1>9, <1>10

\* What is read begins with a header.
LEMMA HeaderComesFirst ==
  ASSUME HInv, Analyser!Reading("v1")
  PROVE  Analyser!is_module_header(r_frame.blob[1])
<1>1. r_pc # "idle" => r_frame \in PublishedFrames
  BY DEF HInv, Analyser!IInv, Analyser!Types
<1>2. r_frame \in PublishedFrames
  BY <1>1 DEF Analyser!Reading
<1>3. r_frame.blob # <<>>
  BY Assumed, Analyser!WordLeft DEF HInv
<1>4. is_module_header(r_frame.blob[1])
  BY <1>2, <1>3 DEF PublishedFrames
<1> QED
  BY <1>4, AnalyserWords

\* A word of the frame.
LEMMA WordTold ==
  ASSUME HInv, Reader!HeaderV1 \/ Reader!ScalerV1 \/ Reader!DataV1 \/ Reader!SkipV1,
         UNCHANGED <<handled, sent>>
  PROVE  (Analyser!IInv /\ ReadTold /\ DoneTold)'
<1>1. Analyser!HeaderV1 \/ Analyser!ScalerV1 \/ Analyser!DataV1 \/ Analyser!SkipV1
  BY ReaderSteps
<1>2. r_pc = "v1" /\ UNCHANGED <<r_pc, r_frame, done, events>>
  BY <1>1 DEF Analyser!HeaderV1, Analyser!ScalerV1, Analyser!DataV1, Analyser!SkipV1,
              Analyser!Reading, Analyser!NextWord, Analyser!output
<1>3. Analyser!IInv /\ Analyser!is_module_header(r_frame.blob[1])
  BY <1>1, HeaderComesFirst DEF HInv, Analyser!HeaderV1, Analyser!ScalerV1, Analyser!DataV1,
                                Analyser!SkipV1
<1>4. Analyser!IInv'
  BY <1>1, <1>3, Assumed, Analyser!NextIInv DEF Analyser!Next
<1>5. ReadTold'
  <2> DEFINE told == HitsFor(r_frame.modules)
  <2>1. WasSent(r_frame.modules) /\ InFrame(told)
    BY <1>2 DEF HInv, ReadTold
  <2>2. PICK f : Tells(f, told) /\ Analyser!V1State(f, r_words, r_mesy_event.modules, r_mod_data)
    BY <2>1 DEF InFrame
  <2>3. f.revision = 1 /\ f.modules \in Seq(Analyser!SentModule)
    BY <2>2 DEF Tells
  <2>4. Analyser!V1State(f, r_words', r_mesy_event'.modules, r_mod_data')
    BY <1>1, <1>3, <2>2, <2>3, Assumed, Analyser!WordOfV1
  <2>5. PICK n \in DOMAIN sent : r_frame.modules = sent[n].modules
    BY <2>1 DEF WasSent
  <2>6. told = HitsIn(handled, CycleOf(r_frame.modules)) /\ r_frame'.modules = r_frame.modules
    BY <1>2 DEF HitsFor
  <2> HIDE DEF told
  <2> QED
    BY <1>2, <2>2, <2>4, <2>5, <2>6, StillTold
<1>6. DoneTold'
  BY <1>2 DEF HInv, DoneTold, WasSent, HitsFor
<1> QED
  BY <1>4, <1>5, <1>6

\* No published frame has a header that the crate map does not know.
LEMMA NothingThrown ==
  ASSUME HInv
  PROVE  ~ Reader!HeaderThrowsV1
<1> SUFFICES ASSUME Reader!HeaderThrowsV1 PROVE FALSE
  OBVIOUS
<1> DEFINE w == Analyser!next_word
           told == HitsFor(r_frame.modules)
<1>1. /\ r_pc = "v1" /\ r_words # <<>>
      /\ Analyser!is_module_header(w) /\ Analyser!module_id(w) \notin DOMAIN Crate
  BY ReaderSteps DEF Analyser!HeaderThrowsV1, Analyser!Reading, Analyser!has_module
<1>2. PICK f : Tells(f, told) /\ Analyser!V1State(f, r_words, r_mesy_event.modules, r_mod_data)
  BY <1>1 DEF HInv, ReadTold, InFrame
<1>3. f.revision = 1 /\ f.modules \in Seq(Analyser!SentModule) /\ Analyser!Decoder!Readable(f)
  BY <1>2 DEF Tells
<1>4. w = Head(r_words)
  BY DEF Analyser!next_word
<1> HIDE DEF w, told
<1>5. ~ Analyser!Decoder!Readable(f)
  BY <1>1, <1>2, <1>3, <1>4, Assumed, Analyser!StepV1
<1> QED
  BY <1>3, <1>5

\* No word of a published frame is decoded as no module's.
LEMMA NothingUnset ==
  ASSUME HInv
  PROVE  ~ Reader!DataUndefinedV1
<1> SUFFICES ASSUME Reader!DataUndefinedV1 PROVE FALSE
  OBVIOUS
<1> DEFINE w == Analyser!next_word
           told == HitsFor(r_frame.modules)
           mod == Crate[r_mod_data.module_id]
<1>1. /\ Analyser!Reading("v1") /\ r_pc = "v1" /\ r_words # <<>>
      /\ ~ Analyser!is_module_header(w) /\ Analyser!IsDataV1(w) /\ ~ reading_mvlc_scaler
      /\ current_module # Analyser!NoModule => ~ Analyser!HasMasks(Crate[current_module])
  BY ReaderSteps DEF Analyser!DataUndefinedV1, Analyser!Reading
<1>2. current_module # Analyser!NoModule
  BY <1>1, HeaderComesFirst, Assumed, Analyser!PointerSet DEF HInv
<1>3. /\ r_mod_data.module_id = current_module
      /\ reading_mvlc_scaler = Analyser!is_mvlc_scaler(Crate[current_module].firmware)
  BY <1>1, <1>2 DEF HInv, Analyser!IInv, Analyser!DataFiledRight
<1>4. PICK f : Tells(f, told) /\ Analyser!V1State(f, r_words, r_mesy_event.modules, r_mod_data)
  BY <1>1 DEF HInv, ReadTold, InFrame
<1>5. f.revision = 1 /\ f.modules \in Seq(Analyser!SentModule)
  BY <1>4 DEF Tells
<1>6. w = Head(r_words)
  BY DEF Analyser!next_word
<1> HIDE DEF w, told, mod
<1>7. ~ Analyser!is_module_header(w) /\ ~ Analyser!is_mvlc_scaler(mod.firmware)
        /\ Analyser!IsDataV1(w) => Analyser!HasMasks(mod)
  BY <1>1, <1>4, <1>5, <1>6, Assumed, Analyser!StepV1 DEF mod
<1> QED
  BY <1>1, <1>2, <1>3, <1>7 DEF mod

\* The call returns, and the analysis has been told.
LEMMA EndTold ==
  ASSUME HInv, Reader!EndV1, UNCHANGED <<handled, sent>>
  PROVE  (Analyser!IInv /\ ReadTold /\ DoneTold)'
<1> DEFINE ev == Analyser!FlushedEvent
           told == HitsFor(r_frame.modules)
<1>1. Analyser!EndV1
  BY ReaderSteps
<1>2. /\ r_pc = "v1" /\ r_pc' = "idle" /\ r_words = <<>> /\ r_frame' = r_frame
      /\ done' = Append(done, r_frame) /\ events' = Append(events, ev)
  BY <1>1 DEF Analyser!EndV1, Analyser!Finish, Analyser!input
<1>3. Analyser!IInv'
  BY <1>1, Assumed, Analyser!NextIInv DEF HInv, Analyser!Next
<1>4. ReadTold'
  BY <1>2 DEF ReadTold
<1>5. PICK f : Tells(f, told) /\ Analyser!V1State(f, r_words, r_mesy_event.modules, r_mod_data)
  BY <1>2 DEF HInv, ReadTold, InFrame
<1>6. ev.modules = Analyser!Decoder!ReadModules(f)
  <2>1. f.revision = 1 /\ f.modules \in Seq(Analyser!SentModule)
    BY <1>5 DEF Tells
  <2>2. Analyser!FlushedModules(r_mesy_event.modules, r_mod_data) = Analyser!Decoder!ReadModules(f)
    BY <1>2, <1>5, <2>1, Assumed, Analyser!EndOfV1
  <2>3. ev.modules = Analyser!FlushedModules(r_mesy_event.modules, r_mod_data)
    BY Assumed, Analyser!FlushedFields DEF HInv, Analyser!IInv
  <2> QED
    BY <2>2, <2>3
<1> HIDE DEF ev, told
<1>7. Learned(ev) = told
  BY <1>5, <1>6, LearnedTold
<1>8. DoneTold'
  <2>1. PICK S : events \in Seq(S)
    BY DEF HInv, DoneTold
  <2> DEFINE T == S \cup {ev}
  <2>2. events \in Seq(T) /\ ev \in T
    BY <2>1, SeqMonotonic
  <2>3. done \in Seq(DeliveredType) /\ r_frame \in DeliveredType /\ Len(events) = Len(done)
    BY DEF HInv, DoneTold, PInv, AInv, AllTypes
  <2> HIDE DEF T
  <2>4. /\ events' \in Seq(T) /\ Len(events') = Len(events) + 1
        /\ \A i \in 1 .. Len(events) : events'[i] = events[i]
        /\ events'[Len(events) + 1] = ev
    BY <1>2, <2>2, AppendProperties
  <2>5. /\ Len(done') = Len(done) + 1 /\ done' \in Seq(DeliveredType)
        /\ \A i \in 1 .. Len(done) : done'[i] = done[i]
        /\ done'[Len(done) + 1] = r_frame
    BY <1>2, <2>3, AppendProperties
  <2>6. DOMAIN done' = 1 .. Len(done) + 1 /\ DOMAIN done = 1 .. Len(done) /\ Len(done) \in Nat
    BY <2>3, <2>5, LenProperties
  <2>7. ASSUME NEW i \in DOMAIN done'
        PROVE  /\ WasSent(done'[i].modules)
               /\ Learned(events'[i]) = HitsFor(done'[i].modules)
    <3>1. CASE i \in DOMAIN done
      BY <2>3, <2>4, <2>5, <2>6, <3>1 DEF HInv, DoneTold
    <3>2. CASE i = Len(done) + 1
      <4>1. WasSent(r_frame.modules)
        BY <1>2 DEF HInv, ReadTold
      <4> QED
        BY <1>7, <2>3, <2>4, <2>5, <3>2, <4>1 DEF told
    <3> QED
      BY <2>6, <3>1, <3>2
  <2>8. \A i \in DOMAIN done' : WasSent(done[i].modules)' /\ Learned(events'[i]) = HitsFor(done[i].modules)'
    BY <2>7 DEF WasSent, HitsFor
  <2>9. Len(events') = Len(done')
    BY <2>3, <2>4, <2>5
  <2> QED
    BY <2>4, <2>8, <2>9 DEF DoneTold, Learned
<1> QED
  BY <1>3, <1>4, <1>8

LEMMA StepHInv ==
  ASSUME "loss" \notin Faults, HitsWellFormed, HInv, [NextAll]_<<vars, transit, analysis>>
  PROVE  HInv'
<1>1. PInv'
  BY StepPInv DEF HInv
<1>2. CASE Transmit
  <2>1. [Next]_vars /\ UNCHANGED analysis
    BY <1>2 DEF Transmit
  <2> QED
    BY <1>1, <2>1, AnalysisKept DEF HInv
<1>3. CASE Deliver
  BY <1>1, <1>3, DeliverTold DEF HInv
<1>4. CASE LoseFrame \/ UNCHANGED <<vars, transit, analysis>>
  <2>1. [Next]_vars /\ UNCHANGED analysis
    BY <1>4 DEF LoseFrame
  <2> QED
    BY <1>1, <2>1, AnalysisKept DEF HInv
<1>5. CASE Read
  <2>1. UNCHANGED <<handled, sent>>
    BY <1>5 DEF Read, vars, output, history
  <2>2. CASE Reader!HeaderV1 \/ Reader!ScalerV1 \/ Reader!DataV1 \/ Reader!SkipV1
    BY <1>1, <2>1, <2>2, WordTold DEF HInv
  <2>3. CASE Reader!EndV1
    BY <1>1, <2>1, <2>3, EndTold DEF HInv
  <2> QED
    BY <1>5, <2>2, <2>3, NothingThrown, NothingUnset DEF Read
<1> QED
  BY <1>2, <1>3, <1>4, <1>5 DEF NextAll

LEMMA ToldIsCorrect == HInv => HitsReachAnalysis
<1> SUFFICES ASSUME HInv PROVE HitsReachAnalysis
  OBVIOUS
<1>1. handled \in Seq(Messages)
  BY DEF HInv, PInv, BInv, AInv, TInv, TypeOK
<1>2. \A c : CycleHits(c) = HitsIn(handled, c)
  BY <1>1, CycleHitsIn
<1>3. DOMAIN events = DOMAIN done /\ Len(events) = Len(done)
  <2>1. done \in Seq(DeliveredType)
    BY DEF HInv, PInv, AInv, AllTypes
  <2>2. PICK S : events \in Seq(S)
    BY DEF HInv, DoneTold
  <2> QED
    BY <2>1, <2>2, LenProperties DEF HInv, DoneTold
<1> QED
  BY <1>2, <1>3 DEF HInv, DoneTold, HitsFor, HitsReachAnalysis

(* On a connection from mvme that loses nothing, and whatever is lost on    *)
(* the way to the analysis: an analysis that returns from a frame has       *)
(* learned the hits of one cycle, each one, as the modules had them, in     *)
(* their order, and nothing else; it is called once for each frame, and     *)
(* nothing is decoded through a pointer or by masks that were not set.      *)
THEOREM HitsCorrect ==
  ASSUME "loss" \notin Faults, HitsWellFormed
  PROVE  SpecAll => []HitsReachAnalysis /\ [](r_pc # "undefined")
<1>1. InitAll => HInv
  BY InitHInv
<1>2. HInv /\ [NextAll]_<<vars, transit, analysis>> => HInv'
  BY StepHInv
<1>3. HInv => r_pc # "undefined"
  BY DEF HInv, ReadTold
<1> QED
  BY <1>1, <1>2, <1>3, ToldIsCorrect, PTL DEF SpecAll
=============================================================================
