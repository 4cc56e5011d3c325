---------------------------- MODULE EventBuilder ----------------------------
(***************************************************************************)
(* What the transmitter promises: a stream of stack readouts becomes a     *)
(* stream of events.  A readout is handled in one step; the readout of the *)
(* last stack closes the event, which is published with the data of every  *)
(* readout since the event before it, unless it has none.                  *)
(*                                                                         *)
(* Transmitter implements this module.  It says nothing of how words are   *)
(* read, of buffers, or of what happens to readouts that do not arrive.    *)
(***************************************************************************)
EXTENDS MesytecData

CONSTANTS CrateMap, NStacks, Messages, Indeterminate

VARIABLES
  handled,        \* the readouts taken so far
  published       \* the events made of them

vars == <<handled, published>>

-----------------------------------------------------------------------------
Known(m) == Len(m) > 2 /\ module_id(m[1]) \in DOMAIN CrateMap
FirmwareOf(m) == CrateMap[module_id(m[1])]

Piece(s, h, words) ==
  [module_id |-> module_id(h), header_word |-> h, data |-> words, origin |-> s]

\* The words of m that are no markers.
Data(m) == {w \in Word : /\ ~is_end_of_event(w)
                         /\ is_mesytec_module(FirmwareOf(m)) => ~is_fill_word(w)}

\* What the words m of one module, in the readout of stack s, add to an event.
Pieces(s, m) ==
  IF ~Known(m) \/ is_tgv_module(FirmwareOf(m)) THEN <<>>
  ELSE IF is_mvlc_scaler(FirmwareOf(m))
       THEN <<Piece(s, m[1], SubSeq(m, 2, 5)), Piece(s, m[7], SubSeq(m, 8, 11))>>
       ELSE <<Piece(s, m[1], Picked(Tail(m), Data(m)))>>

PiecesOf(r) == FlattenSeq([i \in DOMAIN r.modules |-> Pieces(r.slot, r.modules[i])])

Closes(r) == r.slot.stack = NStacks - 1

\* The readouts since the one that closed the last event: rs ends with the
\* one that closes this event.
Open(rs) == {i \in DOMAIN rs : \A j \in i .. Len(rs) - 1 : ~Closes(rs[j])}
ModulesOf(rs) ==
  LET first == CHOOSE i \in Open(rs) : \A j \in Open(rs) : i <= j
  IN  FlattenSeq([i \in 1 .. Len(rs) - first + 1 |-> PiecesOf(rs[first + i - 1])])

\* The timestamp of an event is that of the last TGV readout, of this event or
\* an earlier one; before the first it is whatever memory held.
TgvReadout == {m \in Seq(Word) : Known(m) /\ is_tgv_module(FirmwareOf(m))}
TgvReadouts(rs) ==
  Picked(FlattenSeq([i \in DOMAIN rs |-> rs[i].modules]), TgvReadout)
Stamps(rs) ==
  IF TgvReadouts(rs) = <<>>
  THEN [lo : Indeterminate, mid : Indeterminate, hi : Indeterminate]
  ELSE LET m == Last(TgvReadouts(rs))
       IN  {[lo |-> m[3].lo, mid |-> m[4].lo, hi |-> m[5].lo]}

-----------------------------------------------------------------------------
Init == handled = <<>> /\ published = <<>>

Handle(r) ==
  /\ handled' = Append(handled, r)
  /\ IF Closes(r) /\ ModulesOf(handled') # <<>>
     THEN \E ts \in Stamps(handled') :
            published' = Append(published, [modules |-> ModulesOf(handled'), ts |-> ts])
     ELSE UNCHANGED published

Next == \E r \in Messages : Handle(r)

Spec == Init /\ [][Next]_vars
=============================================================================
