------------------------- MODULE EventBuilderProofs -------------------------
(***************************************************************************)
(* The theorem that Transmitter implements EventBuilder.                   *)
(*                                                                         *)
(* Between two readouts the reader's event is what EventBuilder has begun; *)
(* in the middle of one, it also has what the modules done so far add, and *)
(* in the middle of a module mod_data has the data words seen so far.      *)
(***************************************************************************)
EXTENDS TransmitterProofs

-----------------------------------------------------------------------------
(* EventBuilder's operators *)

\* What a module's words hold, and the words of the TGV, in Transmitter's terms.
DataOf(m) ==
  {w \in Word : /\ ~ is_end_of_event(w)
                /\ is_mesytec_module(CrateMap[module_id(m[1])]) => ~ is_fill_word(w)}
TgvWords ==
  {m \in Seq(Word) : /\ Len(m) > 2
                     /\ has_module(module_id(m[1]))
                     /\ is_tgv_module(CrateMap[module_id(m[1])])}

\* Its own copies of the operators of MesytecData and SequencesExt are those.
LEMMA BuilderWords ==
  /\ \A s : Builder!FlattenSeq(s) = FlattenSeq(s)
  /\ \A s, S : Builder!Picked(s, S) = Picked(s, S)
  /\ \A m : /\ Builder!Known(m) = (Len(m) > 2 /\ has_module(module_id(m[1])))
            /\ Builder!FirmwareOf(m) = CrateMap[module_id(m[1])]
  /\ \A m : Builder!Data(m) = DataOf(m)
  /\ Builder!TgvReadout = TgvWords
  /\ \A f : /\ Builder!is_tgv_module(f) = is_tgv_module(f)
            /\ Builder!is_mvlc_scaler(f) = is_mvlc_scaler(f)
  /\ \A s, h, ws : Builder!Piece(s, h, ws) = [module_id |-> module_id(h), header_word |-> h,
                                              data |-> ws, origin |-> s]
<1>1. \A s : Builder!FlattenSeq(s) = FlattenSeq(s)
  BY DEF Builder!FlattenSeq, FlattenSeq
<1>2. \A s, S : Builder!Picked(s, S) = Picked(s, S)
  BY <1>1 DEF Builder!Picked, Picked
<1>3. Builder!Word = Word
  BY DEF Builder!Word, Word, Builder!Half, Half
<1>4. \A w : /\ Builder!is_end_of_event(w) = is_end_of_event(w)
             /\ Builder!is_fill_word(w) = is_fill_word(w)
             /\ Builder!module_id(w) = module_id(w)
  BY DEF Builder!is_end_of_event, is_end_of_event, Builder!TopNibble, TopNibble,
         Builder!is_fill_word, is_fill_word, Builder!ZeroWord, ZeroWord,
         Builder!module_id, module_id
<1>5. \A f : /\ Builder!is_tgv_module(f) = is_tgv_module(f)
             /\ Builder!is_mvlc_scaler(f) = is_mvlc_scaler(f)
             /\ Builder!is_mesytec_module(f) = is_mesytec_module(f)
  BY DEF Builder!is_tgv_module, is_tgv_module, Builder!is_mvlc_scaler, is_mvlc_scaler,
         Builder!is_mesytec_module, is_mesytec_module, Builder!is_mdpp_module, is_mdpp_module,
         Builder!is_vmmr_module, is_vmmr_module
<1>6. \A m : /\ Builder!Known(m) = (Len(m) > 2 /\ has_module(module_id(m[1])))
             /\ Builder!FirmwareOf(m) = CrateMap[module_id(m[1])]
  BY <1>4 DEF Builder!Known, Builder!FirmwareOf, has_module
<1>7. \A m : Builder!Data(m) = DataOf(m)
  <2> TAKE m
  <2>1. ASSUME NEW w PROVE w \in Builder!Data(m) <=> w \in DataOf(m)
    BY <1>3, <1>4, <1>5, <1>6 DEF Builder!Data, DataOf
  <2>2. Builder!Data(m) \subseteq Word /\ DataOf(m) \subseteq Word
    BY <1>3 DEF Builder!Data, DataOf
  <2> QED
    BY <2>1, <2>2
<1>8. Builder!TgvReadout = TgvWords
  BY <1>3, <1>5, <1>6 DEF Builder!TgvReadout, TgvWords
<1>9. \A s, h, ws : Builder!Piece(s, h, ws) = [module_id |-> module_id(h), header_word |-> h,
                                              data |-> ws, origin |-> s]
  BY <1>4 DEF Builder!Piece
<1> QED
  BY <1>1, <1>2, <1>5, <1>6, <1>7, <1>8, <1>9

\* The words of a module as the code expects them.
Layouts == {m \in Seq(Word) : LaidOut(m)}

LEMMA PieceType ==
  ASSUME NEW s \in Origin, NEW h \in Word, NEW ws \in Seq(Word)
  PROVE  Builder!Piece(s, h, ws) \in ModuleData
BY BuilderWords, HeaderType DEF ModuleData

LEMMA PiecesType ==
  ASSUME NEW s \in Origin, NEW m \in Layouts
  PROVE  Builder!Pieces(s, m) \in Seq(ModuleData)
<1>1. m \in Seq(Word) /\ LaidOut(m)
  BY DEF Layouts
<1>2. CASE ~ Builder!Known(m) \/ Builder!is_tgv_module(Builder!FirmwareOf(m))
  BY <1>2 DEF Builder!Pieces
<1>3. CASE Builder!Known(m) /\ ~ Builder!is_tgv_module(Builder!FirmwareOf(m))
  <2>1. Len(m) > 2 /\ has_module(module_id(m[1])) /\ Builder!FirmwareOf(m) = CrateMap[module_id(m[1])]
    BY <1>3, BuilderWords
  <2>2. m # <<>> /\ m[1] \in Word /\ Tail(m) \in Seq(Word)
    BY <1>1, <2>1, HeadTail
  <2>3. Builder!Piece(s, m[1], Picked(Tail(m), Builder!Data(m))) \in ModuleData
    <3>1. Picked(Tail(m), Builder!Data(m)) \in Seq(Word)
      BY <2>2, PickedAppend
    <3> QED
      BY <2>2, <3>1, PieceType
  <2>4. ASSUME is_mvlc_scaler(CrateMap[module_id(m[1])])
        PROVE  /\ Builder!Piece(s, m[1], SubSeq(m, 2, 5)) \in ModuleData
               /\ Builder!Piece(s, m[7], SubSeq(m, 8, 11)) \in ModuleData
    <3>1. Len(m) = 12
      BY <1>1, <2>1, <2>4 DEF LaidOut, ScalerLayout
    <3>2. \A k \in 1 .. 12 : m[k] \in Word
      BY <1>1, <3>1, ElementOfSeq
    <3>3. SubSeq(m, 2, 5) \in Seq(Word) /\ SubSeq(m, 8, 11) \in Seq(Word)
      BY <1>1, <3>1, <3>2, SubSeqProperties
    <3>4. m[7] \in Word
      BY <3>2
    <3> QED
      BY <2>2, <3>3, <3>4, PieceType
  <2>5. /\ is_mvlc_scaler(CrateMap[module_id(m[1])]) =>
             Builder!Pieces(s, m) = <<Builder!Piece(s, m[1], SubSeq(m, 2, 5)),
                                      Builder!Piece(s, m[7], SubSeq(m, 8, 11))>>
        /\ ~ is_mvlc_scaler(CrateMap[module_id(m[1])]) =>
             Builder!Pieces(s, m) = <<Builder!Piece(s, m[1], Picked(Tail(m), Builder!Data(m)))>>
    BY <1>3, <2>1, BuilderWords DEF Builder!Pieces
  <2>6. /\ \A a \in ModuleData : <<a>> \in Seq(ModuleData)
        /\ \A a, b \in ModuleData : <<a, b>> \in Seq(ModuleData)
    OBVIOUS
  <2> QED
    BY <2>3, <2>4, <2>5, <2>6, BuilderWords
<1> QED
  BY <1>2, <1>3

\* What a list of modules adds to an event.
Gathered(s, l) == FlattenSeq([i \in DOMAIN l |-> Builder!Pieces(s, l[i])])
PiecesFrom(s) == [m \in Layouts |-> Builder!Pieces(s, m)]

LEMMA GatheredMapped ==
  ASSUME NEW s, NEW l \in Seq(Layouts)
  PROVE  Gathered(s, l) = FlattenSeq(Mapped(PiecesFrom(s), l))
<1>1. \A i \in DOMAIN l : l[i] \in Layouts
  BY ElementOfSeq, LenProperties
<1>2. [i \in DOMAIN l |-> Builder!Pieces(s, l[i])] = Mapped(PiecesFrom(s), l)
  BY <1>1 DEF Mapped, PiecesFrom
<1> QED
  BY <1>2 DEF Gathered

LEMMA GatheredEmpty == \A s : Gathered(s, <<>>) = <<>>
<1> TAKE s
<1>1. [i \in DOMAIN <<>> |-> Builder!Pieces(s, <<>>[i])] = <<>>
  OBVIOUS
<1> QED
  BY <1>1, FlattenEmpty DEF Gathered

LEMMA GatheredAppend ==
  ASSUME NEW s \in Origin, NEW l \in Seq(Layouts), NEW m \in Layouts
  PROVE  /\ Gathered(s, l) \in Seq(ModuleData)
         /\ Gathered(s, Append(l, m)) = Gathered(s, l) \o Builder!Pieces(s, m)
<1> DEFINE w == PiecesFrom(s)
<1>1. Yields(w, Layouts, ModuleData)
  BY PiecesType DEF PiecesFrom, Yields
<1>2. w[m] = Builder!Pieces(s, m)
  BY DEF PiecesFrom
<1>3. Append(l, m) \in Seq(Layouts)
  BY AppendProperties
<1>4. /\ Gathered(s, l) = FlattenSeq(Mapped(w, l))
      /\ Gathered(s, Append(l, m)) = FlattenSeq(Mapped(w, Append(l, m)))
  BY <1>3, GatheredMapped
<1> HIDE DEF w
<1>5. /\ FlattenSeq(Mapped(w, l)) \in Seq(ModuleData)
      /\ FlattenSeq(Mapped(w, Append(l, m))) = FlattenSeq(Mapped(w, l)) \o w[m]
  BY <1>1, FlattenMappedAppend
<1> QED
  BY <1>2, <1>4, <1>5

LEMMA GatheredType ==
  ASSUME NEW s \in Origin
  PROVE  \A l \in Seq(Layouts) : Gathered(s, l) \in Seq(ModuleData)
<1> TAKE l \in Seq(Layouts)
<1>1. Mapped(PiecesFrom(s), l) \in Seq(Seq(ModuleData))
  <2>1. \A x \in Layouts : PiecesFrom(s)[x] \in Seq(ModuleData)
    BY PiecesType DEF PiecesFrom
  <2> QED
    BY <2>1, MappedType
<1> QED
  BY <1>1, GatheredMapped, FlattenType

LEMMA MessageModules ==
  ASSUME NEW r \in Messages
  PROVE  /\ r.modules \in Seq(Layouts)
         /\ r.slot \in Origin
         /\ Builder!PiecesOf(r) = Gathered(r.slot, r.modules)
         /\ Builder!PiecesOf(r) \in Seq(ModuleData)
<1>1. /\ r.slot \in Slot /\ r.modules \in Seq(Seq(Word))
      /\ \A i \in DOMAIN r.modules : LaidOut(r.modules[i])
  BY MessageType
<1>2. r.slot \in Origin
  BY <1>1, BoundsAssumption DEF Slot, Origin
<1>3. r.modules \in Seq(Layouts)
  <2>1. /\ Len(r.modules) \in Nat /\ DOMAIN r.modules = 1 .. Len(r.modules)
        /\ \A i \in 1 .. Len(r.modules) : r.modules[i] \in Layouts
    BY <1>1, ElementOfSeq, LenProperties DEF Layouts
  <2>2. r.modules = [i \in 1 .. Len(r.modules) |-> r.modules[i]]
    BY <1>1, LenProperties
  <2> QED
    BY <2>1, <2>2, IsASeq
<1>4. Builder!PiecesOf(r) = Gathered(r.slot, r.modules)
  BY BuilderWords DEF Builder!PiecesOf, Gathered
<1> QED
  BY <1>2, <1>3, <1>4, GatheredType

-----------------------------------------------------------------------------
(* The timestamp *)

Seen(rs) == FlattenSeq([i \in DOMAIN rs |-> rs[i].modules])
ModulesIn == [r \in Messages |-> r.modules]

LEMMA SeenMapped ==
  ASSUME NEW rs \in Seq(Messages)
  PROVE  Seen(rs) = FlattenSeq(Mapped(ModulesIn, rs))
<1>1. \A i \in DOMAIN rs : rs[i] \in Messages
  BY ElementOfSeq, LenProperties
<1>2. [i \in DOMAIN rs |-> rs[i].modules] = Mapped(ModulesIn, rs)
  BY <1>1 DEF Mapped, ModulesIn
<1> QED
  BY <1>2 DEF Seen

LEMMA SeenType ==
  ASSUME NEW rs \in Seq(Messages)
  PROVE  Seen(rs) \in Seq(Layouts)
<1>1. \A r \in Messages : ModulesIn[r] \in Seq(Layouts)
  BY MessageModules DEF ModulesIn
<1>2. Mapped(ModulesIn, rs) \in Seq(Seq(Layouts))
  BY <1>1, MappedType
<1> QED
  BY <1>2, SeenMapped, FlattenType

LEMMA SeenAppend ==
  ASSUME NEW rs \in Seq(Messages), NEW r \in Messages
  PROVE  Seen(Append(rs, r)) = Seen(rs) \o r.modules
<1>1. Yields(ModulesIn, Messages, Layouts)
  BY MessageModules DEF ModulesIn, Yields
<1>2. FlattenSeq(Mapped(ModulesIn, Append(rs, r))) = FlattenSeq(Mapped(ModulesIn, rs)) \o ModulesIn[r]
  BY <1>1, FlattenMappedAppend
<1>3. Append(rs, r) \in Seq(Messages) /\ ModulesIn[r] = r.modules
  BY AppendProperties DEF ModulesIn
<1> QED
  BY <1>2, <1>3, SeenMapped

\* The timestamps an event may carry when the modules ms have been read.
StampsFor(ms) ==
  IF Picked(ms, TgvWords) = <<>>
  THEN [lo : Indeterminate, mid : Indeterminate, hi : Indeterminate]
  ELSE LET m == Picked(ms, TgvWords)[Len(Picked(ms, TgvWords))]
       IN  {[lo |-> m[3].lo, mid |-> m[4].lo, hi |-> m[5].lo]}

LEMMA BuilderStamps == \A rs : Builder!Stamps(rs) = StampsFor(Seen(rs))
<1> TAKE rs
<1>1. Builder!TgvReadouts(rs) = Picked(Seen(rs), TgvWords)
  BY BuilderWords DEF Builder!TgvReadouts, Seen
<1>2. \A s : Builder!Last(s) = s[Len(s)]
  BY DEF Builder!Last
<1> QED
  BY <1>1, <1>2 DEF Builder!Stamps, StampsFor

LEMMA StampsAppend ==
  ASSUME NEW ms \in Seq(Layouts), NEW m \in Layouts
  PROVE  /\ m \in TgvWords =>
              StampsFor(Append(ms, m)) = {[lo |-> m[3].lo, mid |-> m[4].lo, hi |-> m[5].lo]}
         /\ m \notin TgvWords => StampsFor(Append(ms, m)) = StampsFor(ms)
<1>1. /\ Picked(ms, TgvWords) \in Seq(Layouts)
      /\ m \in TgvWords => Picked(Append(ms, m), TgvWords) = Append(Picked(ms, TgvWords), m)
      /\ m \notin TgvWords => Picked(Append(ms, m), TgvWords) = Picked(ms, TgvWords)
  BY PickedAppend
<1>2. CASE m \in TgvWords
  <2> DEFINE q == Append(Picked(ms, TgvWords), m)
  <2>1. q # <<>> /\ q[Len(q)] = m
    BY <1>1, AppendProperties
  <2>2. Picked(Append(ms, m), TgvWords) = q
    BY <1>1, <1>2
  <2> HIDE DEF q
  <2> QED
    BY <1>2, <2>1, <2>2 DEF StampsFor
<1>3. CASE m \notin TgvWords
  BY <1>1, <1>3 DEF StampsFor
<1> QED
  BY <1>2, <1>3

-----------------------------------------------------------------------------
(* The modules of an event *)

First(rs) == CHOOSE i \in Builder!Open(rs) : \A j \in Builder!Open(rs) : i <= j
Since(rs, k) == [i \in 1 .. Len(rs) - k + 1 |-> Builder!PiecesOf(rs[k + i - 1])]

LEMMA ModulesOfSince == \A rs : Builder!ModulesOf(rs) = FlattenSeq(Since(rs, First(rs)))
BY BuilderWords DEF Builder!ModulesOf, Since, First

LEMMA FirstIs ==
  ASSUME NEW rs \in Seq(Messages), NEW k \in Builder!Open(rs),
         \A j \in Builder!Open(rs) : k <= j
  PROVE  First(rs) = k
<1>1. Builder!Open(rs) \subseteq Nat
  BY LenProperties DEF Builder!Open
<1>2. \A i \in Builder!Open(rs) : (\A j \in Builder!Open(rs) : i <= j) => i = k
  BY <1>1
<1> QED
  BY <1>2 DEF First

LEMMA FirstExists ==
  ASSUME NEW rs \in Seq(Messages), rs # <<>>
  PROVE  First(rs) \in Builder!Open(rs) /\ \A j \in Builder!Open(rs) : First(rs) <= j
<1>1. Len(rs) \in Nat /\ Len(rs) # 0 /\ DOMAIN rs = 1 .. Len(rs)
  BY LenProperties, EmptySeq
<1>2. Len(rs) \in Builder!Open(rs)
  BY <1>1 DEF Builder!Open
<1>3. Builder!Open(rs) \subseteq Nat
  BY <1>1 DEF Builder!Open
<1>4. \E k \in Builder!Open(rs) : \A j \in Builder!Open(rs) : k <= j
  BY <1>2, <1>3, LeastNatural
<1> QED
  BY <1>4 DEF First

\* The event begun with the readouts rs, still to be closed.
Begun(rs) ==
  IF rs = <<>> \/ Builder!Closes(rs[Len(rs)]) THEN <<>> ELSE Builder!ModulesOf(rs)

LEMMA SinceAppend ==
  ASSUME NEW rs \in Seq(Messages), NEW r \in Messages, NEW k \in 1 .. Len(rs) + 1
  PROVE  /\ Since(rs, k) \in Seq(Seq(ModuleData))
         /\ FlattenSeq(Since(Append(rs, r), k)) = FlattenSeq(Since(rs, k)) \o Builder!PiecesOf(r)
<1> DEFINE n == Len(rs)
           q == Append(rs, r)
<1>1. /\ n \in Nat /\ q \in Seq(Messages) /\ Len(q) = n + 1 /\ q[n + 1] = r
      /\ \A i \in 1 .. n : q[i] = rs[i] /\ rs[i] \in Messages
  BY LenProperties, AppendProperties, ElementOfSeq
<1> HIDE DEF n, q
<1>2. k \in Nat /\ 1 <= k /\ k <= n + 1
  BY <1>1 DEF n
<1>3. /\ n - k + 1 \in Nat /\ Len(q) - k + 1 = (n - k + 1) + 1
      /\ \A i \in 1 .. n - k + 1 : k + i - 1 \in 1 .. n
      /\ k + ((n - k + 1) + 1) - 1 = n + 1
  BY <1>1, <1>2
<1>4. \A x \in Messages : Builder!PiecesOf(x) \in Seq(ModuleData)
  BY MessageModules
<1>5. /\ Since(rs, k) \in Seq(Seq(ModuleData))
      /\ Len(Since(rs, k)) = n - k + 1
      /\ \A i \in 1 .. n - k + 1 : Since(rs, k)[i] = Builder!PiecesOf(rs[k + i - 1])
  <2>1. \A i \in 1 .. n - k + 1 : Builder!PiecesOf(rs[k + i - 1]) \in Seq(ModuleData)
    BY <1>1, <1>3, <1>4
  <2>2. Since(rs, k) = [i \in 1 .. n - k + 1 |-> Builder!PiecesOf(rs[k + i - 1])]
    BY DEF Since, n
  <2>3. Since(rs, k) \in Seq(Seq(ModuleData))
    BY <1>3, <2>1, <2>2, IsASeq
  <2> QED
    BY <1>3, <2>2, <2>3, LenProperties
<1>6. /\ Since(q, k) \in Seq(Seq(ModuleData))
      /\ Len(Since(q, k)) = (n - k + 1) + 1
      /\ \A i \in 1 .. (n - k + 1) + 1 : Since(q, k)[i] = Builder!PiecesOf(q[k + i - 1])
  <2>1. \A i \in 1 .. (n - k + 1) + 1 : q[k + i - 1] \in Messages
    <3> TAKE i \in 1 .. (n - k + 1) + 1
    <3>1. k + i - 1 \in 1 .. n + 1
      BY <1>1, <1>2
    <3> QED
      BY <1>1, <3>1, ElementOfSeq
  <2>2. Since(q, k) = [i \in 1 .. (n - k + 1) + 1 |-> Builder!PiecesOf(q[k + i - 1])]
    BY <1>3 DEF Since
  <2>3. Since(q, k) \in Seq(Seq(ModuleData))
    <3>1. \A i \in 1 .. (n - k + 1) + 1 : Builder!PiecesOf(q[k + i - 1]) \in Seq(ModuleData)
      BY <1>4, <2>1
    <3>2. (n - k + 1) + 1 \in Nat
      BY <1>3
    <3> QED
      BY <2>2, <3>1, <3>2, IsASeq
  <2> QED
    BY <1>3, <2>2, <2>3, LenProperties
<1> DEFINE a == Append(Since(rs, k), Builder!PiecesOf(r))
<1>7. /\ a \in Seq(Seq(ModuleData)) /\ Len(a) = (n - k + 1) + 1
      /\ \A i \in 1 .. n - k + 1 : a[i] = Since(rs, k)[i]
      /\ a[(n - k + 1) + 1] = Builder!PiecesOf(r)
  BY <1>3, <1>4, <1>5, AppendProperties
<1> HIDE DEF a
<1>8. ASSUME NEW i \in 1 .. (n - k + 1) + 1
      PROVE  Since(q, k)[i] = a[i]
  <2>1. CASE i \in 1 .. n - k + 1
    <3>1. q[k + i - 1] = rs[k + i - 1]
      BY <1>1, <1>3, <2>1
    <3> QED
      BY <1>5, <1>6, <1>7, <2>1, <3>1
  <2>2. CASE i = (n - k + 1) + 1
    <3>1. k + i - 1 = n + 1
      BY <1>3, <2>2
    <3>2. Since(q, k)[i] = Builder!PiecesOf(r)
      BY <1>1, <1>6, <3>1
    <3> QED
      BY <1>7, <2>2, <3>2
  <2>3. i \in 1 .. n - k + 1 \/ i = (n - k + 1) + 1
    BY <1>3
  <2> QED
    BY <2>1, <2>2, <2>3
<1>9. Since(q, k) = a
  BY <1>6, <1>7, <1>8, SeqEqual
<1>10. FlattenSeq(a) = FlattenSeq(Since(rs, k)) \o Builder!PiecesOf(r)
  BY <1>4, <1>5, FlattenAppend DEF a
<1> QED
  BY <1>5, <1>9, <1>10 DEF q

LEMMA OpenAppend ==
  ASSUME NEW rs \in Seq(Messages), NEW r \in Messages
  PROVE  \A i : i \in Builder!Open(Append(rs, r)) <=>
                  \/ i = Len(rs) + 1
                  \/ /\ rs # <<>> /\ ~ Builder!Closes(rs[Len(rs)])
                     /\ i \in Builder!Open(rs)
<1> DEFINE n == Len(rs)
           q == Append(rs, r)
<1>1. /\ n \in Nat /\ Len(q) = n + 1 /\ DOMAIN q = 1 .. n + 1 /\ DOMAIN rs = 1 .. n
      /\ \A i \in 1 .. n : q[i] = rs[i]
      /\ n = 0 <=> rs = <<>>
  BY LenProperties, AppendProperties, EmptySeq
<1> HIDE DEF n, q
<1>2. \A i : i \in Builder!Open(q) <=>
               i \in 1 .. n + 1 /\ \A j \in i .. n : ~ Builder!Closes(rs[j])
  BY <1>1 DEF Builder!Open
<1>3. \A i : i \in Builder!Open(rs) <=>
               i \in 1 .. n /\ \A j \in i .. n - 1 : ~ Builder!Closes(rs[j])
  BY <1>1 DEF Builder!Open, n
<1> QED
  BY <1>1, <1>2, <1>3 DEF n, q

\* A readout adds its pieces to the event that is begun.
LEMMA ModulesOfAppend ==
  ASSUME NEW rs \in Seq(Messages), NEW r \in Messages
  PROVE  Builder!ModulesOf(Append(rs, r)) = Begun(rs) \o Builder!PiecesOf(r)
<1>1. Append(rs, r) \in Seq(Messages) /\ Len(rs) \in Nat /\ DOMAIN rs = 1 .. Len(rs)
  BY AppendProperties, LenProperties
<1>2. CASE rs = <<>> \/ Builder!Closes(rs[Len(rs)])
  <2>1. First(Append(rs, r)) = Len(rs) + 1
    <3>1. \A i : i \in Builder!Open(Append(rs, r)) <=> i = Len(rs) + 1
      BY <1>2, OpenAppend
    <3>2. /\ Len(rs) + 1 \in Builder!Open(Append(rs, r))
          /\ \A j \in Builder!Open(Append(rs, r)) : Len(rs) + 1 <= j
      BY <1>1, <3>1
    <3> QED
      BY <1>1, <3>2, FirstIs
  <2>2. Since(rs, Len(rs) + 1) = <<>> /\ Len(rs) + 1 \in 1 .. Len(rs) + 1
    <3>1. Len(rs) - (Len(rs) + 1) + 1 = 0 /\ 1 .. 0 = {}
      BY <1>1
    <3>2. Since(rs, Len(rs) + 1) = [i \in {} |-> Builder!PiecesOf(rs[(Len(rs) + 1) + i - 1])]
      BY <3>1 DEF Since
    <3> QED
      BY <1>1, <3>2
  <2>3. FlattenSeq(Since(Append(rs, r), Len(rs) + 1)) = <<>> \o Builder!PiecesOf(r)
    <3>1. FlattenSeq(Since(Append(rs, r), Len(rs) + 1))
            = FlattenSeq(Since(rs, Len(rs) + 1)) \o Builder!PiecesOf(r)
      BY <2>2, SinceAppend
    <3> QED
      BY <2>2, <3>1, FlattenEmpty
  <2> QED
    BY <1>2, <2>1, <2>3, ModulesOfSince DEF Begun
<1>3. CASE ~ (rs = <<>> \/ Builder!Closes(rs[Len(rs)]))
  <2>1. /\ First(rs) \in Builder!Open(rs) /\ \A j \in Builder!Open(rs) : First(rs) <= j
        /\ First(rs) \in 1 .. Len(rs)
    BY <1>1, <1>3, FirstExists DEF Builder!Open
  <2>2. First(Append(rs, r)) = First(rs)
    <3>1. First(rs) \in Builder!Open(Append(rs, r))
      BY <1>3, <2>1, OpenAppend
    <3>2. \A j \in Builder!Open(Append(rs, r)) : First(rs) <= j
      BY <1>1, <1>3, <2>1, OpenAppend
    <3> QED
      BY <1>1, <3>1, <3>2, FirstIs
  <2>3. First(rs) \in 1 .. Len(rs) + 1
    BY <1>1, <2>1
  <2> QED
    BY <1>3, <2>2, <2>3, SinceAppend, ModulesOfSince DEF Begun
<1> QED
  BY <1>2, <1>3

LEMMA BegunType ==
  ASSUME NEW rs \in Seq(Messages)
  PROVE  Begun(rs) \in Seq(ModuleData)
<1>1. CASE rs = <<>> \/ Builder!Closes(rs[Len(rs)])
  BY <1>1 DEF Begun
<1>2. CASE ~ (rs = <<>> \/ Builder!Closes(rs[Len(rs)]))
  <2>1. First(rs) \in 1 .. Len(rs) + 1
    BY <1>2, FirstExists, LenProperties DEF Builder!Open
  <2>2. PICK r \in Messages : TRUE
    BY <1>2, ElementOfSeq, EmptySeq, LenProperties
  <2>3. Since(rs, First(rs)) \in Seq(Seq(ModuleData))
    BY <2>1, <2>2, SinceAppend
  <2> QED
    BY <1>2, <2>3, ModulesOfSince, FlattenType DEF Begun
<1> QED
  BY <1>1, <1>2

-----------------------------------------------------------------------------
(* The reader between the readouts, and in the middle of one *)

\* Between readouts the event holds what EventBuilder has begun; in the middle
\* of one, also what the modules done so far add to it.
BetweenReadouts ==
  /\ mesy_event.modules = Begun(handled)
  /\ mesy_event.ts \in StampsFor(Seen(handled))

Done(d) ==
  /\ current.modules = d \o moduleDataList
  /\ mesy_event.modules = Begun(handled) \o Gathered(current.slot, d)
  /\ mesy_event.ts \in StampsFor(Seen(handled) \o d)

InReadout == \E d \in Seq(Layouts) : Done(d)

\* t is what the reader has seen of the words after the header.
InModule ==
  \E t \in Seq(Word) : /\ Tail(module_words) = t \o wordList
                       /\ mod_data.data = Picked(t, DataOf(module_words))

\* After reset() nothing is read any more.
Collating ==
  readoutStructure # 0 =>
    /\ pc \in {"recv", "parse"} => BetweenReadouts
    /\ pc \in {"modules", "words"} => InReadout
    /\ pc = "words" => InModule

BInv == TInv /\ Collating /\ (pc \in {"modules", "words"} => readoutStructure # 0)

LEMMA InitBInv == Init => BInv
<1> SUFFICES ASSUME Init PROVE BInv
  OBVIOUS
<1>1. TInv
  BY InitTInv
<1>2. handled = <<>> /\ mesy_event.modules = <<>> /\ pc = "recv"
  BY DEF Init
<1>3. mesy_event.ts \in [lo : Indeterminate, mid : Indeterminate, hi : Indeterminate]
  <2>1. PICK lo, mid, hi, n \in Indeterminate :
          mesy_event = [modules |-> <<>>, event_counter |-> n,
                        ts |-> [lo |-> lo, mid |-> mid, hi |-> hi]]
    BY DEF Init
  <2> QED
    BY <2>1
<1>4. Begun(<<>>) = <<>>
  BY DEF Begun
<1>5. Seen(<<>>) = <<>>
  <2>1. [i \in DOMAIN <<>> |-> <<>>[i].modules] = <<>>
    OBVIOUS
  <2> QED
    BY <2>1, FlattenEmpty DEF Seen
<1>6. Picked(<<>>, TgvWords) = <<>>
  BY PickedEmpty
<1>7. BetweenReadouts
  BY <1>2, <1>3, <1>4, <1>5, <1>6 DEF BetweenReadouts, StampsFor
<1> QED
  BY <1>1, <1>2, <1>7 DEF BInv, Collating

\* A module of the readout is done: it adds its pieces, and its timestamp.
LEMMA ModuleDone ==
  ASSUME BInv, moduleDataList # <<>>, NEW d \in Seq(Layouts), Done(d),
         current' = current, handled' = handled, moduleDataList' = Tail(moduleDataList),
         current \in Messages,
         mesy_event'.modules = mesy_event.modules \o Builder!Pieces(current.slot, module_words),
         mesy_event'.ts \in StampsFor((Seen(handled) \o d) \o <<module_words>>)
  PROVE  InReadout'
<1>1. /\ module_words \in Layouts /\ Tail(moduleDataList) \in Seq(Layouts)
      /\ current.slot \in Origin /\ handled \in Seq(Messages)
      /\ moduleDataList \in Seq(Layouts)
  <2>1. /\ moduleDataList \in Seq(Seq(Word))
        /\ \A i \in DOMAIN moduleDataList : LaidOut(moduleDataList[i])
    BY DEF BInv, TInv, TypeOK, Reading
  <2>2. /\ Len(moduleDataList) \in Nat /\ DOMAIN moduleDataList = 1 .. Len(moduleDataList)
        /\ \A i \in 1 .. Len(moduleDataList) : moduleDataList[i] \in Layouts
    BY <2>1, ElementOfSeq, LenProperties DEF Layouts
  <2>3. moduleDataList = [i \in 1 .. Len(moduleDataList) |-> moduleDataList[i]]
    BY <2>1, LenProperties
  <2>4. moduleDataList \in Seq(Layouts)
    BY <2>2, <2>3, IsASeq
  <2> QED
    BY <2>4, HeadTail, MessageModules DEF BInv, TInv, TypeOK, module_words
<1>2. PICK e \in Seq(Layouts) : e = Append(d, module_words)
  BY <1>1, AppendProperties
<1>3. current.modules = e \o Tail(moduleDataList)
  <2>1. moduleDataList = <<module_words>> \o Tail(moduleDataList)
    BY <1>1, HeadTailConcat DEF module_words
  <2>2. current.modules = d \o moduleDataList
    BY DEF Done
  <2>3. d \o (<<module_words>> \o Tail(moduleDataList)) = e \o Tail(moduleDataList)
    BY <1>1, <1>2, ConcatHead
  <2> QED
    BY <2>1, <2>2, <2>3
<1>4. mesy_event'.modules = Begun(handled) \o Gathered(current.slot, e)
  <2> DEFINE b == Begun(handled)
             g == Gathered(current.slot, d)
             p == Builder!Pieces(current.slot, module_words)
  <2>1. b \in Seq(ModuleData) /\ g \in Seq(ModuleData) /\ p \in Seq(ModuleData)
    BY <1>1, BegunType, GatheredType, PiecesType
  <2>2. mesy_event.modules = b \o g /\ mesy_event'.modules = mesy_event.modules \o p
    BY DEF Done
  <2>3. Gathered(current.slot, e) = g \o p
    BY <1>1, <1>2, GatheredAppend
  <2> HIDE DEF b, g, p
  <2>4. (b \o g) \o p = b \o (g \o p)
    BY ONLY <2>1, ConcatAssociative
  <2>5. mesy_event'.modules = b \o Gathered(current.slot, e)
    BY <2>2, <2>3, <2>4
  <2> QED
    BY <2>5 DEF b
<1>5. (Seen(handled) \o d) \o <<module_words>> = Seen(handled) \o e
  <2>1. Seen(handled) \in Seq(Layouts) /\ <<module_words>> \in Seq(Layouts)
    BY <1>1, SeenType
  <2>2. e = d \o <<module_words>>
    BY <1>1, <1>2, AppendIsConcat
  <2> QED
    BY <2>1, <2>2, ConcatAssociative
<1>6. mesy_event'.ts \in StampsFor(Seen(handled) \o e)
  BY <1>5
<1>7. Done(e)'
  BY <1>3, <1>4, <1>6 DEF Done
<1> QED
  BY <1>7 DEF InReadout

LEMMA HeadPieces ==
  ASSUME TInv, moduleDataList # <<>>
  PROVE  /\ module_words \in TgvWords <=> HasModule /\ is_tgv_module(firmware)
         /\ ~ HasModule \/ is_tgv_module(firmware)
              => Builder!Pieces(current.slot, module_words) = <<>>
         /\ HasModule /\ is_mvlc_scaler(firmware)
              => Builder!Pieces(current.slot, module_words) = <<ScalerData(1), ScalerData(7)>>
         /\ HasModule /\ ~ is_tgv_module(firmware) /\ ~ is_mvlc_scaler(firmware)
              => Builder!Pieces(current.slot, module_words)
                   = <<Builder!Piece(current.slot, header,
                                     Picked(Tail(module_words), DataOf(module_words)))>>
<1>1. /\ Builder!Known(module_words) = HasModule
      /\ Builder!FirmwareOf(module_words) = firmware
  BY BuilderWords DEF HasModule, header, firmware
<1>2. module_words \in TgvWords <=> HasModule /\ is_tgv_module(firmware)
  BY AtHead DEF TgvWords, HasModule, header, firmware
<1>3. is_mvlc_scaler(firmware) => ~ is_tgv_module(firmware)
  BY DEF is_mvlc_scaler, is_tgv_module
<1>4. ~ HasModule \/ is_tgv_module(firmware) => Builder!Pieces(current.slot, module_words) = <<>>
  BY <1>1, BuilderWords DEF Builder!Pieces
<1>5. HasModule /\ ~ is_tgv_module(firmware) =>
        Builder!Pieces(current.slot, module_words)
          = IF is_mvlc_scaler(firmware)
            THEN <<Builder!Piece(current.slot, module_words[1], SubSeq(module_words, 2, 5)),
                   Builder!Piece(current.slot, module_words[7], SubSeq(module_words, 8, 11))>>
            ELSE <<Builder!Piece(current.slot, module_words[1],
                                 Picked(Tail(module_words), DataOf(module_words)))>>
  BY <1>1, BuilderWords DEF Builder!Pieces
<1>6. /\ Builder!Piece(current.slot, module_words[1], SubSeq(module_words, 2, 5)) = ScalerData(1)
      /\ Builder!Piece(current.slot, module_words[7], SubSeq(module_words, 8, 11)) = ScalerData(7)
  <2>1. \A w, o, ws : [set_header_word(w, o) EXCEPT !.data = ws] = Builder!Piece(o, w, ws)
    BY BuilderWords DEF set_header_word
  <2>2. /\ ScalerData(1) = [set_header_word(module_words[1], current.slot)
                              EXCEPT !.data = SubSeq(module_words, 2, 5)]
        /\ ScalerData(7) = [set_header_word(module_words[7], current.slot)
                              EXCEPT !.data = SubSeq(module_words, 8, 11)]
    BY DEF ScalerData
  <2> QED
    BY <2>1, <2>2
<1> QED
  BY <1>2, <1>3, <1>4, <1>5, <1>6 DEF header

\* The timestamps after the module at the head of the list.
LEMMA HeadStamps ==
  ASSUME TInv, moduleDataList # <<>>, NEW d \in Seq(Layouts)
  PROVE  /\ module_words \in TgvWords =>
              StampsFor((Seen(handled) \o d) \o <<module_words>>)
                = {[lo |-> module_words[3].lo, mid |-> module_words[4].lo,
                    hi |-> module_words[5].lo]}
         /\ module_words \notin TgvWords =>
              StampsFor((Seen(handled) \o d) \o <<module_words>>) = StampsFor(Seen(handled) \o d)
<1>1. module_words \in Layouts
  BY AtHead DEF Layouts
<1>2. Seen(handled) \o d \in Seq(Layouts)
  BY SeenType, ConcatProperties DEF TInv, TypeOK
<1>3. (Seen(handled) \o d) \o <<module_words>> = Append(Seen(handled) \o d, module_words)
  BY <1>1, <1>2, AppendIsConcat
<1> QED
  BY <1>1, <1>2, <1>3, StampsAppend

LEMMA StepModules ==
  ASSUME BInv, SkipModule \/ ReadTgv \/ ReadScaler \/ EndModule
  PROVE  InReadout'
<1>1. /\ moduleDataList # <<>> /\ pc \in {"modules", "words"} /\ current \in Messages
      /\ current' = current /\ handled' = handled /\ moduleDataList' = Tail(moduleDataList)
      /\ readoutStructure # 0 /\ TInv
  BY DEF SkipModule, ReadTgv, ReadScaler, EndModule, NextModule, BInv, TInv, Reading, history
<1>2. PICK d \in Seq(Layouts) : Done(d)
  BY <1>1 DEF BInv, Collating, InReadout
<1>3. mesy_event.ts \in StampsFor(Seen(handled) \o d)
  BY <1>2 DEF Done
<1>4. mesy_event \in Event /\ mesy_event.modules \in Seq(ModuleData)
  BY DEF BInv, TInv, TypeOK, Event
<1> DEFINE p == Builder!Pieces(current.slot, module_words)
           later == StampsFor((Seen(handled) \o d) \o <<module_words>>)
<1> SUFFICES mesy_event'.modules = mesy_event.modules \o p /\ mesy_event'.ts \in later
  BY <1>1, <1>2, ModuleDone
<1>5. CASE SkipModule
  <2>1. p = <<>> /\ mesy_event' = mesy_event /\ later = StampsFor(Seen(handled) \o d)
    BY <1>1, <1>5, HeadPieces, HeadStamps DEF SkipModule, reader
  <2> QED
    BY <1>3, <1>4, <2>1, ConcatEmptySeq
<1>6. CASE ReadTgv
  <2>1. p = <<>>
    BY <1>1, <1>6, HeadPieces DEF ReadTgv
  <2>2. later = {[lo |-> module_words[3].lo, mid |-> module_words[4].lo,
                  hi |-> module_words[5].lo]}
    BY <1>1, <1>6, HeadPieces, HeadStamps DEF ReadTgv
  <2>3. /\ mesy_event'.modules = mesy_event.modules
        /\ mesy_event'.ts = [lo |-> module_words[3].lo, mid |-> module_words[4].lo,
                             hi |-> module_words[5].lo]
    BY <1>4, <1>6 DEF ReadTgv, Event
  <2> HIDE DEF later, p
  <2> QED
    BY <1>4, <2>1, <2>2, <2>3, ConcatEmptySeq
<1>7. CASE ReadScaler
  <2>1. p = <<ScalerData(1), ScalerData(7)>>
    BY <1>1, <1>7, HeadPieces DEF ReadScaler
  <2>2. later = StampsFor(Seen(handled) \o d)
    <3>1. ~ is_tgv_module(firmware)
      BY <1>7 DEF ReadScaler, is_mvlc_scaler, is_tgv_module
    <3> QED
      BY <1>1, <3>1, HeadPieces, HeadStamps
  <2>3. ScalerData(1) \in ModuleData /\ ScalerData(7) \in ModuleData
    BY <1>1, <1>7, ScalerDataType DEF ReadScaler
  <2>4. /\ mesy_event'.modules = Append(Append(mesy_event.modules, ScalerData(1)), ScalerData(7))
        /\ mesy_event'.ts = mesy_event.ts
    BY <1>4, <1>7 DEF ReadScaler, add_module_data, Event
  <2>5. \A a, b \in ModuleData : \A q \in Seq(ModuleData) :
          Append(Append(q, a), b) = q \o <<a, b>>
    OBVIOUS
  <2> QED
    BY <1>3, <1>4, <2>1, <2>2, <2>3, <2>4, <2>5
<1>8. CASE EndModule
  <2>1. /\ pc = "words" /\ wordList = <<>>
        /\ HasModule /\ ~ is_tgv_module(firmware) /\ ~ is_mvlc_scaler(firmware)
        /\ mod_data.module_id = module_id(header) /\ mod_data.header_word = header
        /\ mod_data.origin = current.slot /\ mod_data \in ModuleData
    BY <1>8 DEF EndModule, BInv, TInv, Reading, TypeOK
  <2>2. mod_data.data = Picked(Tail(module_words), DataOf(module_words))
    <3>1. PICK t \in Seq(Word) : /\ Tail(module_words) = t \o wordList
                                 /\ mod_data.data = Picked(t, DataOf(module_words))
      BY <1>1, <2>1 DEF BInv, Collating, InModule
    <3>2. t \o wordList = t
      BY <2>1, ConcatEmptySeq
    <3> QED
      BY <3>1, <3>2
  <2>3. mod_data = Builder!Piece(current.slot, header,
                                 Picked(Tail(module_words), DataOf(module_words)))
    <3>1. mod_data = [module_id |-> mod_data.module_id, header_word |-> mod_data.header_word,
                      data |-> mod_data.data, origin |-> mod_data.origin]
      BY <2>1 DEF ModuleData
    <3> QED
      BY <2>1, <2>2, <3>1, BuilderWords
  <2>4. p = <<mod_data>> /\ later = StampsFor(Seen(handled) \o d)
    BY <1>1, <2>1, <2>3, HeadPieces, HeadStamps
  <2>5. /\ mesy_event'.modules = Append(mesy_event.modules, mod_data)
        /\ mesy_event'.ts = mesy_event.ts
    BY <1>4, <1>8 DEF EndModule, add_module_data, Event
  <2> QED
    BY <1>3, <1>4, <2>1, <2>4, <2>5, AppendIsConcat
<1> QED
  BY <1>5, <1>6, <1>7, <1>8

LEMMA StepWords ==
  ASSUME BInv, BeginModule \/ TakeWord
  PROVE  InReadout' /\ InModule'
<1>1. /\ moduleDataList # <<>> /\ pc \in {"modules", "words"} /\ readoutStructure # 0
      /\ UNCHANGED <<current, handled, moduleDataList, mesy_event>>
      /\ module_words \in Seq(Word)
  BY AtHead DEF BeginModule, TakeWord, NextModule, BInv, TInv, Reading, history
<1>2. InReadout'
  BY <1>1 DEF BInv, Collating, InReadout, Done
<1>3. CASE BeginModule
  <2>1. wordList' = Tail(module_words) /\ mod_data'.data = <<>>
    BY <1>3 DEF BeginModule, set_header_word
  <2>2. HasModule
    BY <1>3 DEF BeginModule
  <2>3. Tail(module_words) \in Seq(Word)
    BY <1>1, <2>2, AtHead, HeadTail DEF BInv
  <2>4. /\ <<>> \in Seq(Word) /\ Tail(module_words) = <<>> \o Tail(module_words)
        /\ Picked(<<>>, DataOf(module_words)) = <<>>
    BY <2>3, ConcatEmptySeq, PickedEmpty
  <2>5. module_words' = module_words
    BY <1>1 DEF module_words
  <2> QED
    BY <1>2, <2>1, <2>4, <2>5 DEF InModule
<1>4. CASE TakeWord
  <2>1. /\ pc = "words" /\ wordList # <<>> /\ wordList \in Seq(Word)
        /\ wordList' = Tail(wordList)
        /\ mod_data' = IF is_data(Head(wordList)) THEN add_data(mod_data, Head(wordList))
                       ELSE mod_data
        /\ mod_data \in ModuleData
    BY <1>4 DEF TakeWord, BInv, TInv, TypeOK
  <2>2. PICK t \in Seq(Word) : /\ Tail(module_words) = t \o wordList
                               /\ mod_data.data = Picked(t, DataOf(module_words))
    BY <1>1, <2>1 DEF BInv, Collating, InModule
  <2>3. /\ Head(wordList) \in Word /\ Tail(wordList) \in Seq(Word)
        /\ wordList = <<Head(wordList)>> \o Tail(wordList)
    BY <2>1, HeadTail, HeadTailConcat
  <2>4. PICK u \in Seq(Word) : u = Append(t, Head(wordList))
    BY <2>3, AppendProperties
  <2>5. Tail(module_words) = u \o Tail(wordList)
    <3>1. t \o (<<Head(wordList)>> \o Tail(wordList)) = u \o Tail(wordList)
      BY <2>3, <2>4, ConcatHead
    <3> QED
      BY <2>2, <2>3, <3>1
  <2>6. is_data(Head(wordList)) <=> Head(wordList) \in DataOf(module_words)
    BY <2>3 DEF is_data, DataOf, firmware, header
  <2>7. mod_data'.data = Picked(u, DataOf(module_words))
    <3>1. add_data(mod_data, Head(wordList)).data = Append(mod_data.data, Head(wordList))
      BY <2>1 DEF add_data, ModuleData
    <3> DEFINE D == DataOf(module_words)
    <3>2. /\ Head(wordList) \in D => Picked(u, D) = Append(Picked(t, D), Head(wordList))
          /\ Head(wordList) \notin D => Picked(u, D) = Picked(t, D)
      BY <2>3, <2>4, PickedAppend
    <3> HIDE DEF D
    <3>3. mod_data.data = Picked(t, D)
      BY <2>2 DEF D
    <3>4. is_data(Head(wordList)) <=> Head(wordList) \in D
      BY <2>6 DEF D
    <3>5. mod_data'.data = Picked(u, D)
      BY <2>1, <3>1, <3>2, <3>3, <3>4
    <3> QED
      BY <3>5 DEF D
  <2>8. module_words' = module_words
    BY <1>1 DEF module_words
  <2> QED
    BY <1>2, <2>1, <2>5, <2>7, <2>8 DEF InModule
<1> QED
  BY <1>3, <1>4

\* The last module of the readout is done, and so is the readout.
LEMMA ReadoutDone ==
  ASSUME BInv, InReadout, moduleDataList = <<>>, current \in Messages
  PROVE  /\ mesy_event.modules = Builder!ModulesOf(Append(handled, current))
         /\ mesy_event.ts \in StampsFor(Seen(Append(handled, current)))
<1>1. handled \in Seq(Messages)
  BY DEF BInv, TInv, TypeOK
<1>2. PICK d \in Seq(Layouts) : Done(d)
  BY DEF InReadout
<1>3. current.modules = d
  BY <1>2, ConcatEmptySeq DEF Done
<1>4. Gathered(current.slot, d) = Builder!PiecesOf(current)
  BY <1>3, MessageModules
<1>5. Seen(Append(handled, current)) = Seen(handled) \o d
  BY <1>1, <1>3, SeenAppend
<1>6. Builder!ModulesOf(Append(handled, current)) = Begun(handled) \o Builder!PiecesOf(current)
  BY <1>1, ModulesOfAppend
<1> QED
  BY <1>2, <1>4, <1>5, <1>6 DEF Done

LEMMA Handling ==
  ASSUME BInv, CollateMore \/ Emit
  PROVE  /\ InReadout /\ moduleDataList = <<>> /\ current \in Messages
         /\ handled' = Append(handled, current) /\ handled \in Seq(Messages)
         /\ EventComplete <=> Builder!Closes(current)
<1>1. /\ pc = "modules" /\ moduleDataList = <<>> /\ handled' = Append(handled, current)
  BY DEF CollateMore, Emit
<1>2. current \in Messages /\ readoutStructure # 0 /\ InReadout /\ handled \in Seq(Messages)
  BY <1>1 DEF BInv, TInv, TypeOK, Reading, Collating
<1>3. readoutStructure = NStacks
  BY <1>2 DEF BInv, TInv, TypeOK
<1>4. current.slot.stack \in Nat /\ NStacks \in Nat
  BY <1>2, MessageType, BoundsAssumption DEF ReadoutSlot
<1> QED
  BY <1>1, <1>2, <1>3, <1>4 DEF EventComplete, Builder!Closes

LEMMA StepBetween ==
  ASSUME BInv, CollateMore \/ Emit
  PROVE  BetweenReadouts'
<1>1. /\ mesy_event.modules = Builder!ModulesOf(handled')
      /\ mesy_event.ts \in StampsFor(Seen(handled'))
  BY Handling, ReadoutDone
<1>2. handled' # <<>> /\ handled'[Len(handled')] = current
  BY Handling, AppendProperties
<1>3. CASE CollateMore
  <2>1. ~ Builder!Closes(current) /\ mesy_event' = mesy_event
    BY <1>3, Handling DEF CollateMore, reader
  <2>2. mesy_event'.modules = Begun(handled')
    BY <1>1, <1>2, <2>1 DEF Begun
  <2> QED
    BY <1>1, <2>1, <2>2 DEF BetweenReadouts
<1>4. CASE Emit
  <2>1. Builder!Closes(current) /\ mesy_event' = clear_event(mesy_event)
    BY <1>4, Handling DEF Emit
  <2>2. mesy_event \in Event
    BY DEF BInv, TInv, TypeOK
  <2>3. mesy_event'.modules = <<>> /\ mesy_event'.ts = mesy_event.ts
    BY <2>1, <2>2 DEF clear_event, Event
  <2>4. mesy_event'.modules = Begun(handled')
    BY <1>2, <2>1, <2>3 DEF Begun
  <2> QED
    BY <1>1, <2>3, <2>4 DEF BetweenReadouts
<1> QED
  BY <1>3, <1>4

LEMMA BeginReadout ==
  ASSUME BInv, BeginCallback
  PROVE  InReadout' /\ readoutStructure # 0
<1>1. /\ pc = "parse" /\ buffer # <<>> /\ current' = Head(buffer)
      /\ moduleDataList' = Head(buffer).modules
      /\ mesy_event' = mesy_event /\ handled' = handled
      /\ Head(buffer).slot.stack < readoutStructure
      /\ buffer \in Seq(Messages) /\ handled \in Seq(Messages)
  BY DEF BeginCallback, reader, history, BInv, TInv, TypeOK
<1>2. Head(buffer) \in Messages
  BY <1>1, HeadTail
<1>3. readoutStructure # 0
  <2>1. Head(buffer).slot.stack \in Nat
    BY <1>2, MessageType, BoundsAssumption DEF ReadoutSlot
  <2> QED
    BY <1>1, <2>1
<1>4. BetweenReadouts
  BY <1>1, <1>3 DEF BInv, Collating
<1>5. /\ <<>> \o Head(buffer).modules = Head(buffer).modules
      /\ Begun(handled) \o <<>> = Begun(handled)
      /\ Seen(handled) \o <<>> = Seen(handled)
  BY <1>1, <1>2, MessageModules, BegunType, SeenType, ConcatEmptySeq
<1>6. Done(<<>>)'
  BY <1>1, <1>4, <1>5, GatheredEmpty DEF Done, BetweenReadouts
<1>7. <<>> \in Seq(Layouts)
  OBVIOUS
<1> QED
  BY <1>3, <1>6, <1>7 DEF InReadout

LEMMA StepBInv == BInv /\ [Next]_vars => BInv'
<1> SUFFICES ASSUME BInv, [Next]_vars PROVE BInv'
  OBVIOUS
<1>1. TInv'
  BY StepTInv DEF BInv
<1> DEFINE Followed == Collating' /\ (pc' \in {"modules", "words"} => readoutStructure' # 0)
<1> SUFFICES Followed
  BY <1>1 DEF BInv
<1>2. CASE BeginCallback
  <2>1. pc' = "modules" /\ readoutStructure' = readoutStructure
    BY <1>2 DEF BeginCallback, reader
  <2> QED
    BY <1>2, <2>1, BeginReadout DEF Collating
<1>3. CASE SkipModule \/ ReadTgv \/ ReadScaler \/ EndModule
  <2>1. pc' = "modules" /\ readoutStructure' = readoutStructure /\ readoutStructure # 0
    BY <1>3 DEF SkipModule, ReadTgv, ReadScaler, EndModule, NextModule, reader, BInv
  <2> QED
    BY <1>3, <2>1, StepModules DEF Collating
<1>4. CASE BeginModule \/ TakeWord
  <2>1. pc' = "words" /\ readoutStructure' = readoutStructure /\ readoutStructure # 0
    BY <1>4 DEF BeginModule, TakeWord, NextModule, BInv
  <2> QED
    BY <1>4, <2>1, StepWords DEF Collating
<1>5. CASE CollateMore \/ Emit
  <2>1. pc' = "parse"
    BY <1>5 DEF CollateMore, Emit
  <2> QED
    BY <1>5, <2>1, StepBetween DEF Collating
<1>6. CASE ParseThrows \/ ScalerUnknown \/ EmitThrows
  BY <1>6 DEF ParseThrows, ScalerUnknown, EmitThrows, AbandonBuffer, Collating
<1>7. CASE (\E n \in 1 .. Len(wire) : Receive(n)) \/ EndBuffer \/ PassOver
  <2>1. /\ pc \in {"recv", "parse"} /\ pc' \in {"recv", "parse"}
        /\ UNCHANGED <<mesy_event, handled, readoutStructure>>
    BY <1>7 DEF Receive, EndBuffer, PassOver, reader, history
  <2> QED
    BY <2>1 DEF BInv, Collating, BetweenReadouts
<1>8. CASE Readout \/ (\E n \in 1 .. Len(wire) : Lose(n)) \/ RecvTimeout \/ UNCHANGED vars
  <2>1. UNCHANGED <<pc, mesy_event, handled, readoutStructure, current, moduleDataList,
                    wordList, mod_data>>
    BY <1>8 DEF Readout, Lose, RecvTimeout, reader, parser, history, vars
  <2>2. BetweenReadouts' = BetweenReadouts /\ InReadout' = InReadout /\ InModule' = InModule
    BY <2>1 DEF BetweenReadouts, InReadout, Done, InModule, module_words
  <2> QED
    BY <2>1, <2>2 DEF BInv, Collating
<1> QED
  BY <1>2, <1>3, <1>4, <1>5, <1>6, <1>7, <1>8 DEF Next, Work

-----------------------------------------------------------------------------
(* Every step of the transmitter is one of EventBuilder, or none of its own. *)

EventIn == [ev \in Event |-> [modules |-> ev.modules, ts |-> ev.ts]]

LEMMA EventsMapped ==
  ASSUME NEW s \in Seq(Event)
  PROVE  [i \in DOMAIN s |-> [modules |-> s[i].modules, ts |-> s[i].ts]] = Mapped(EventIn, s)
<1>1. \A i \in DOMAIN s : s[i] \in Event
  BY ElementOfSeq, LenProperties
<1> QED
  BY <1>1 DEF Mapped, EventIn

LEMMA StepBuilder == BInv /\ [Next]_vars => [Builder!Next]_(Builder!vars)
<1> SUFFICES ASSUME BInv, [Next]_vars
             PROVE  (\E r \in Messages : Builder!Handle(r)) \/ UNCHANGED Builder!vars
  BY DEF Builder!Next
<1>1. sent \in Seq(Event) /\ mesy_event \in Event
  BY DEF BInv, TInv, TypeOK
<1>2. CASE CollateMore \/ Emit
  <2>1. Builder!ModulesOf(handled') = mesy_event.modules
    BY <1>2, Handling, ReadoutDone
  <2>2. mesy_event.ts \in Builder!Stamps(handled')
    BY <1>2, Handling, ReadoutDone, BuilderStamps
  <2>3. CASE Emit /\ has_data(mesy_event)
    <3>1. sent' = Append(sent, mesy_event)
      BY <2>3 DEF Emit
    <3>2. PublishedEvents' = Append(PublishedEvents, EventIn[mesy_event])
      <4>1. Append(sent, mesy_event) \in Seq(Event)
        BY <1>1, AppendProperties
      <4>2. PublishedEvents' = Mapped(EventIn, Append(sent, mesy_event))
        BY <3>1, <4>1, EventsMapped DEF PublishedEvents
      <4>3. PublishedEvents = Mapped(EventIn, sent)
        BY <1>1, EventsMapped DEF PublishedEvents
      <4> QED
        BY <1>1, <4>2, <4>3, MappedAppend
    <3>3. EventIn[mesy_event] = [modules |-> Builder!ModulesOf(handled'), ts |-> mesy_event.ts]
      BY <1>1, <2>1 DEF EventIn
    <3>4. Builder!Closes(current) /\ Builder!ModulesOf(handled') # <<>>
      BY <2>1, <2>3, Handling DEF Emit, has_data
    <3>5. Builder!Handle(current)
      BY <1>2, <2>2, <3>2, <3>3, <3>4, Handling DEF Builder!Handle
    <3> QED
      BY <1>2, <3>5, Handling
  <2>4. CASE ~ (Emit /\ has_data(mesy_event))
    <3>1. sent' = sent
      BY <1>2, <2>4 DEF Emit, CollateMore, output
    <3>2. ~ (Builder!Closes(current) /\ Builder!ModulesOf(handled') # <<>>)
      BY <1>2, <2>1, <2>4, Handling DEF CollateMore, has_data
    <3>3. Builder!Handle(current)
      BY <1>2, <3>1, <3>2, Handling DEF Builder!Handle, PublishedEvents
    <3> QED
      BY <1>2, <3>3, Handling
  <2> QED
    BY <2>3, <2>4
<1>3. CASE ~ (CollateMore \/ Emit)
  <2>1. UNCHANGED <<handled, sent>>
    BY <1>3 DEF Next, Work, Readout, Lose, Receive, RecvTimeout, EndBuffer, BeginCallback,
                PassOver, ParseThrows, SkipModule, ReadTgv, ReadScaler, ScalerUnknown,
                BeginModule, TakeWord, EndModule, EmitThrows, AbandonBuffer, vars,
                output, history
  <2> QED
    BY <2>1 DEF Builder!vars, PublishedEvents
<1> QED
  BY <1>2, <1>3

(* The word-by-word reader implements EventBuilder, for every crate map,    *)
(* all readouts, any loss, any cut into buffers and every exception: an     *)
(* event has the data of the readouts since the one before it, all of it    *)
(* and nothing else, and the latest timestamp.                              *)
THEOREM BuilderCorrect == Spec => ImplementsBuilder
<1>1. Init => Builder!Init
  BY DEF Init, Builder!Init, PublishedEvents
<1> QED
  BY <1>1, InitBInv, StepBInv, StepBuilder, PTL DEF Spec, ImplementsBuilder, Builder!Spec
-----------------------------------------------------------------------------
(* An event is what the readouts of one cycle add, if nothing is lost before *)
(* the transmitter. *)

PiecesIn == [r \in Messages |-> Builder!PiecesOf(r)]
Adds(rs) == FlattenSeq(Mapped(PiecesIn, rs))

InCycle(c) == {r \in Messages : r.slot.cycle = c}
OwnCycle(ev) == ev.modules[1].origin.cycle

\* Of the readouts rs, those of the event's own cycle made it.
Whole(rs, ev) ==
  ev.modules # <<>> /\ ev.modules = Adds(Picked(rs, InCycle(OwnCycle(ev))))

\* The cycle c has been read out to its end when the reader is at stack s.
Over(c, s, at) ==
  /\ c \in Nat
  /\ c < s.cycle \/ (c = s.cycle /\ IsLastStack(s) /\ at \in {"recv", "parse"})

SentWhole ==
  \A i \in DOMAIN sent :
    Whole(handled, sent[i]) /\ Over(OwnCycle(sent[i]), current.slot, pc)

HandledUpTo == \A i \in DOMAIN handled : handled[i].slot.cycle <= current.slot.cycle

\* The event begun has all that was handled of the current cycle.
BegunWhole ==
  readoutStructure # 0 =>
    \/ IsLastStack(current.slot) /\ pc \in {"recv", "parse"}
    \/ Begun(handled) = Adds(Picked(handled, InCycle(current.slot.cycle)))

WInv == SentWhole /\ HandledUpTo /\ BegunWhole

LEMMA AddsParts ==
  /\ Adds(<<>>) = <<>>
  /\ \A rs \in Seq(Messages), r \in Messages :
       Adds(Append(rs, r)) = Adds(rs) \o Builder!PiecesOf(r)
<1>1. Adds(<<>>) = <<>>
  BY MappedEmpty, FlattenEmpty DEF Adds
<1>2. Yields(PiecesIn, Messages, ModuleData)
  BY MessageModules DEF PiecesIn, Yields
<1>3. ASSUME NEW rs \in Seq(Messages), NEW r \in Messages
      PROVE  Adds(Append(rs, r)) = Adds(rs) \o Builder!PiecesOf(r)
  <2>1. FlattenSeq(Mapped(PiecesIn, Append(rs, r))) = FlattenSeq(Mapped(PiecesIn, rs)) \o PiecesIn[r]
    BY <1>2, FlattenMappedAppend
  <2> QED
    BY <2>1 DEF Adds, PiecesIn
<1> QED
  BY <1>1, <1>3

\* What is handled of a cycle, when another readout r has been.
LEMMA OfCycleAppend ==
  ASSUME NEW rs \in Seq(Messages), NEW r \in Messages, NEW c
  PROVE  /\ Picked(rs, InCycle(c)) \in Seq(Messages)
         /\ c = r.slot.cycle =>
              Adds(Picked(Append(rs, r), InCycle(c)))
                = Adds(Picked(rs, InCycle(c))) \o Builder!PiecesOf(r)
         /\ c # r.slot.cycle => Picked(Append(rs, r), InCycle(c)) = Picked(rs, InCycle(c))
<1>1. r \in InCycle(c) <=> c = r.slot.cycle
  BY DEF InCycle
<1>2. /\ Picked(rs, InCycle(c)) \in Seq(Messages)
      /\ r \in InCycle(c) => Picked(Append(rs, r), InCycle(c)) = Append(Picked(rs, InCycle(c)), r)
      /\ r \notin InCycle(c) => Picked(Append(rs, r), InCycle(c)) = Picked(rs, InCycle(c))
  BY PickedAppend
<1> QED
  BY <1>1, <1>2, AddsParts

\* Of a cycle that has not begun, nothing is handled.
LEMMA NothingHandled ==
  ASSUME NEW rs \in Seq(Messages), NEW c \in Nat, NEW n \in Nat, n < c,
         \A i \in DOMAIN rs : rs[i].slot.cycle <= n
  PROVE  Picked(rs, InCycle(c)) = <<>>
<1> DEFINE A == {r \in Messages : r.slot.cycle <= n}
<1>1. rs \in Seq(A)
  <2>1. /\ Len(rs) \in Nat /\ DOMAIN rs = 1 .. Len(rs)
        /\ \A i \in 1 .. Len(rs) : rs[i] \in A
    BY ElementOfSeq, LenProperties
  <2>2. rs = [i \in 1 .. Len(rs) |-> rs[i]]
    BY LenProperties
  <2> QED
    BY <2>1, <2>2, IsASeq
<1>2. A \cap InCycle(c) = {}
  <2>1. ASSUME NEW r \in A, r \in InCycle(c) PROVE FALSE
    BY <2>1 DEF InCycle
  <2> QED
    BY <2>1
<1>3. Picked(rs, InCycle(c)) \in Seq(A \cap InCycle(c))
  <2> HIDE DEF A
  <2> QED
    BY <1>1, PickedIn
<1>4. \A s \in Seq({}) : s = <<>>
  <2> TAKE s \in Seq({})
  <2>1. Len(s) \in Nat /\ \A i \in 1 .. Len(s) : s[i] \in {}
    BY ElementOfSeq, LenProperties
  <2>2. Len(s) = 0
    BY <2>1
  <2> QED
    BY <2>2, EmptySeq
<1> QED
  BY <1>2, <1>3, <1>4

LEMMA InitWInv == Init => WInv
<1> SUFFICES ASSUME Init PROVE WInv
  OBVIOUS
<1>1. /\ handled = <<>> /\ sent = <<>> /\ pc = "recv"
      /\ current.slot.stack = NStacks - 1 /\ NStacks \in Nat
  BY BoundsAssumption DEF Init, BeforeFirst
<1>2. IsLastStack(current.slot)
  BY <1>1 DEF IsLastStack
<1> QED
  BY <1>1, <1>2 DEF WInv, SentWhole, HandledUpTo, BegunWhole

\* A step between readouts, or within one, neither handles nor publishes.
LEMMA WholeKept ==
  ASSUME WInv, UNCHANGED <<handled, sent, current>>,
         pc \in {"recv", "parse"} => pc' \in {"recv", "parse"},
         readoutStructure' \in {0, readoutStructure}
  PROVE  WInv'
<1>1. \A c : Over(c, current.slot, pc) => Over(c, current.slot, pc')
  BY DEF Over
<1>2. SentWhole'
  BY <1>1 DEF WInv, SentWhole
<1>3. HandledUpTo' /\ BegunWhole'
  BY DEF WInv, HandledUpTo, BegunWhole
<1> QED
  BY <1>2, <1>3 DEF WInv

LEMMA WholeBegin ==
  ASSUME BInv, OInv, WInv, BeginCallback
  PROVE  WInv'
<1>1. /\ pc = "parse" /\ pc' = "modules" /\ buffer # <<>>
      /\ UNCHANGED <<handled, sent, readoutStructure>>
      /\ current' = Head(buffer) /\ buffer' = Tail(buffer) /\ wire' = wire /\ daq' = daq
      /\ handled \in Seq(Messages)
  BY DEF BeginCallback, reader, crate, output, history, BInv, TInv, TypeOK
<1>2. readoutStructure # 0 /\ readoutStructure = NStacks
  BY BeginReadout DEF BInv, TInv, TypeOK
<1>3. Unbroken /\ OfCurrentCycle /\ BetweenReadouts
  BY <1>1, <1>2 DEF OInv, FlightInv, BInv, Collating
<1>4. current'.slot = NextSlot(current.slot)
  BY <1>1, <1>3, TakeFirst DEF BInv
<1>5. current.slot.cycle \in Nat
  BY MessageType, BoundsAssumption DEF BInv, TInv, TypeOK, ReadoutSlot, BeforeFirst
<1>6. CASE IsLastStack(current.slot)
  <2>1. current'.slot.cycle = current.slot.cycle + 1
    BY <1>4, <1>6 DEF NextSlot
  <2>2. SentWhole'
    <3>1. \A c : Over(c, current.slot, pc) => Over(c, current'.slot, pc')
      <4>1. \A c \in Nat : c <= current.slot.cycle => c < current.slot.cycle + 1
        BY <1>5
      <4>2. \A c \in Nat : c < current.slot.cycle \/ c = current.slot.cycle
                             => c <= current.slot.cycle
        BY <1>5
      <4> QED
        BY <2>1, <4>1, <4>2 DEF Over
    <3> QED
      BY <1>1, <3>1 DEF WInv, SentWhole
  <2>3. HandledUpTo'
    <3>1. \A i \in DOMAIN handled : handled[i] \in Messages
      BY <1>1, ElementOfSeq, LenProperties
    <3>2. \A i \in DOMAIN handled : handled[i].slot.cycle \in Nat
      BY <3>1, MessageType, BoundsAssumption DEF ReadoutSlot
    <3>3. \A i \in DOMAIN handled : handled[i].slot.cycle <= current.slot.cycle + 1
      BY <1>5, <3>2 DEF WInv, HandledUpTo
    <3> QED
      BY <1>1, <2>1, <3>3 DEF HandledUpTo
  <2>4. Begun(handled) = <<>>
    BY <1>1, <1>3, <1>6 DEF OfCurrentCycle, BetweenReadouts
  <2>5. Picked(handled, InCycle(current.slot.cycle + 1)) = <<>>
    BY <1>1, <1>5, NothingHandled DEF WInv, HandledUpTo
  <2>6. BegunWhole'
    BY <1>1, <2>1, <2>4, <2>5, AddsParts DEF BegunWhole
  <2> QED
    BY <2>2, <2>3, <2>6 DEF WInv
<1>7. CASE ~ IsLastStack(current.slot)
  <2>1. current'.slot.cycle = current.slot.cycle
    BY <1>4, <1>7 DEF NextSlot
  <2>2. SentWhole'
    <3>1. \A c : Over(c, current.slot, pc) => Over(c, current'.slot, pc')
      BY <1>7, <2>1 DEF Over
    <3> QED
      BY <1>1, <3>1 DEF WInv, SentWhole
  <2>3. HandledUpTo' /\ BegunWhole'
    BY <1>1, <1>2, <1>7, <2>1 DEF WInv, HandledUpTo, BegunWhole
  <2> QED
    BY <2>2, <2>3 DEF WInv
<1> QED
  BY <1>6, <1>7

\* What is handled does not change the cycles that are over.
LEMMA OverKept ==
  ASSUME BInv, WInv, CollateMore \/ Emit, NEW i \in DOMAIN sent
  PROVE  /\ Picked(handled', InCycle(OwnCycle(sent[i]))) = Picked(handled, InCycle(OwnCycle(sent[i])))
         /\ OwnCycle(sent[i]) \in Nat /\ OwnCycle(sent[i]) < current.slot.cycle
<1>1. /\ current \in Messages /\ handled' = Append(handled, current)
      /\ handled \in Seq(Messages) /\ pc = "modules"
  BY Handling DEF CollateMore, Emit
<1>2. OwnCycle(sent[i]) \in Nat /\ OwnCycle(sent[i]) < current.slot.cycle
  BY <1>1 DEF WInv, SentWhole, Over
<1>3. current.slot.cycle \in Nat
  BY <1>1, MessageType, BoundsAssumption DEF ReadoutSlot
<1>4. OwnCycle(sent[i]) # current.slot.cycle
  BY <1>2, <1>3
<1> QED
  BY <1>1, <1>2, <1>4, OfCycleAppend

\* A readout has been handled: it is the next of its cycle, and if it is the
\* last, the cycle's event is published.
LEMMA WholeHandled ==
  ASSUME BInv, OInv, WInv, CollateMore \/ Emit
  PROVE  WInv'
<1> DEFINE cc == current.slot.cycle
<1>1. /\ InReadout /\ moduleDataList = <<>> /\ current \in Messages /\ current' = current
      /\ handled' = Append(handled, current) /\ handled \in Seq(Messages)
      /\ pc = "modules" /\ pc' = "parse" /\ readoutStructure' = readoutStructure
  BY Handling DEF CollateMore, Emit, parser, reader
<1>2. readoutStructure # 0 /\ readoutStructure = NStacks
  BY <1>1 DEF BInv, TInv, TypeOK
<1>3. /\ mesy_event.modules = Begun(handled) \o Builder!PiecesOf(current)
      /\ mesy_event \in Event /\ sent \in Seq(Event)
  <2>1. mesy_event.modules = Builder!ModulesOf(Append(handled, current))
    BY <1>1, ReadoutDone
  <2> QED
    BY <1>1, <2>1, ModulesOfAppend DEF BInv, TInv, TypeOK
<1>4. Begun(handled) = Adds(Picked(handled, InCycle(cc)))
  BY <1>1, <1>2 DEF WInv, BegunWhole
<1>5. mesy_event.modules = Adds(Picked(handled', InCycle(cc)))
  BY <1>1, <1>3, <1>4, OfCycleAppend
<1>7. HandledUpTo'
  <2>1. cc \in Nat
    BY <1>1, MessageType, BoundsAssumption DEF ReadoutSlot
  <2>2. /\ DOMAIN handled' = 1 .. Len(handled) + 1 /\ DOMAIN handled = 1 .. Len(handled)
        /\ Len(handled) \in Nat /\ handled'[Len(handled) + 1] = current
        /\ \A i \in 1 .. Len(handled) : handled'[i] = handled[i]
    BY <1>1, AppendProperties, LenProperties
  <2>3. \A i \in DOMAIN handled' : i \in DOMAIN handled \/ i = Len(handled) + 1
    BY <2>2
  <2> QED
    BY <1>1, <2>1, <2>2, <2>3 DEF WInv, HandledUpTo
<1>8. ASSUME NEW i \in DOMAIN sent
      PROVE  Whole(handled', sent[i]) /\ Over(OwnCycle(sent[i]), current'.slot, pc')
  <2>1. Whole(handled, sent[i])
    BY DEF WInv, SentWhole
  <2>2. /\ Picked(handled', InCycle(OwnCycle(sent[i]))) = Picked(handled, InCycle(OwnCycle(sent[i])))
        /\ OwnCycle(sent[i]) \in Nat /\ OwnCycle(sent[i]) < cc
    BY OverKept
  <2> QED
    BY <1>1, <2>1, <2>2 DEF Over, Whole
<1>9. CASE CollateMore
  <2>1. sent' = sent /\ mesy_event' = mesy_event
    BY <1>9 DEF CollateMore, output, reader
  <2>2. SentWhole'
    BY <1>8, <2>1 DEF SentWhole
  <2>3. BetweenReadouts'
    BY <1>9, StepBetween
  <2>4. BegunWhole'
    BY <1>1, <1>5, <2>1, <2>3 DEF BetweenReadouts, BegunWhole
  <2> QED
    BY <1>7, <2>2, <2>4 DEF WInv
<1>10. CASE Emit
  <2>1. IsLastStack(current.slot)
    BY <1>2, <1>10 DEF Emit, EventComplete, IsLastStack
  <2>2. BegunWhole'
    BY <1>1, <2>1 DEF BegunWhole
  <2>3. CASE sent' = sent
    BY <1>7, <1>8, <2>2, <2>3 DEF WInv, SentWhole
  <2>4. CASE sent' = Append(sent, mesy_event) /\ has_data(mesy_event)
    <3>1. mesy_event.modules # <<>>
      BY <2>4 DEF has_data
    <3>2. OwnCycle(mesy_event) = cc
      <4>1. 1 \in DOMAIN mesy_event.modules
        BY <1>3, <3>1, LenProperties, EmptySeq DEF Event
      <4> QED
        BY <1>2, <4>1 DEF OwnCycle, OInv, FlightInv, OfCurrentCycle
    <3>3. Over(cc, current'.slot, pc')
      <4>1. cc \in Nat
        BY <1>1, MessageType, BoundsAssumption DEF ReadoutSlot
      <4> QED
        BY <1>1, <2>1, <4>1 DEF Over
    <3>4. Whole(handled', mesy_event)
      BY <1>5, <3>1, <3>2 DEF Whole
    <3>5. /\ DOMAIN sent' = 1 .. Len(sent) + 1 /\ DOMAIN sent = 1 .. Len(sent)
          /\ Len(sent) \in Nat /\ sent'[Len(sent) + 1] = mesy_event
          /\ \A i \in 1 .. Len(sent) : sent'[i] = sent[i]
      BY <1>3, <2>4, AppendProperties, LenProperties
    <3>6. \A i \in DOMAIN sent' : i \in DOMAIN sent \/ i = Len(sent) + 1
      BY <3>5
    <3>7. SentWhole'
      <4>1. ASSUME NEW i \in DOMAIN sent'
            PROVE  Whole(handled', sent'[i]) /\ Over(OwnCycle(sent'[i]), current'.slot, pc')
        <5>1. CASE i \in DOMAIN sent
          BY <1>8, <3>5, <5>1
        <5>2. CASE i = Len(sent) + 1
          BY <3>2, <3>3, <3>4, <3>5, <5>2
        <5> QED
          BY <3>6, <5>1, <5>2
      <4> QED
        BY <4>1 DEF SentWhole
    <3> QED
      BY <1>7, <2>2, <3>7 DEF WInv
  <2> QED
    BY <1>10, <2>3, <2>4 DEF Emit, output
<1> QED
  BY <1>9, <1>10

LEMMA StepWInv == BInv /\ OInv /\ WInv /\ [Next]_vars => WInv'
<1> SUFFICES ASSUME BInv, OInv, WInv, [Next]_vars PROVE WInv'
  OBVIOUS
<1>1. CASE BeginCallback
  BY <1>1, WholeBegin
<1>2. CASE CollateMore \/ Emit
  BY <1>2, WholeHandled
<1>3. CASE ~ (BeginCallback \/ CollateMore \/ Emit)
  <2>1. /\ UNCHANGED <<handled, sent, current>> /\ readoutStructure' \in {0, readoutStructure}
        /\ pc \in {"recv", "parse"} => pc' \in {"recv", "parse"}
    BY <1>3 DEF Next, Work, Readout, Lose, Receive, RecvTimeout, EndBuffer,
                PassOver, ParseThrows, SkipModule, ReadTgv, ReadScaler, ScalerUnknown,
                BeginModule, TakeWord, EndModule, EmitThrows, AbandonBuffer, NextModule, vars,
                output, history, parser, reader
  <2> QED
    BY <2>1, WholeKept
<1> QED
  BY <1>1, <1>2, <1>3
=============================================================================
