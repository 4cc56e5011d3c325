---------------------------- MODULE BufferReader ----------------------------
(***************************************************************************)
(* mesytec::buffer_reader (lib/mesytec_buffer_reader.h): reads the event   *)
(* in the blob of an MFM frame, for an analysis.                           *)
(*                                                                         *)
(* One object reads frame after frame, of revision 0 or 1.  It keeps       *)
(* mod_data and three flags from one frame to the next, also when a frame  *)
(* ends in an exception (the caller's to catch), so the module follows the *)
(* loops of read_event_in_buffer_v0 and _v1 word by word.  Neither asks    *)
(* whether a blob begins with a header; where v1 goes through its pointer  *)
(* before it is set, or data are decoded with masks that a module does not *)
(* have, the machine stops in "undefined".                                 *)
(***************************************************************************)
EXTENDS FrameFormat, Integers

CONSTANTS
  Frames,          \* the frames there may be: what was sent, and their blob
  MaxFrames,       \* bound: frames read
  Indeterminate    \* the values an uninitialised event counter may hold

NoModule == -1

ASSUME CrateAssumption ==
  /\ DOMAIN Crate \subseteq ModuleId
  /\ \A id \in DOMAIN Crate :
       /\ Crate[id].firmware \in Firmware
       /\ IsMdpp(Crate[id].firmware) => Crate[id].nchan \in {16, 32}

ASSUME FramesAssumption ==
  /\ MaxFrames \in Nat
  /\ Indeterminate \subseteq Nat
  /\ \A f \in Frames : f.blob \in Seq(Word)

VARIABLES
  pc,                    \* "idle", "v0", "v1" or "undefined"
  frame, words,          \* the frame being read, and its words still to be read
  mesy_event,            \* local to a call
  current_module,        \* v1: a module's id, or NoModule while uninitialised
  mod_data,
  got_header, reading_data, reading_mvlc_scaler,
  done,                  \* history: the frames read or given up
  events                 \* the events F was called with

input == <<frame, words>>
local == <<mesy_event, current_module>>
flags == <<got_header, reading_data, reading_mvlc_scaler>>
output == <<done, events>>
vars == <<pc, input, local, mod_data, flags, output>>

\* module_data::clear.
Cleared == [module_id |-> 0, header_word |-> ZeroWord, event_counter |-> 0, data |-> <<>>]
\* Mutants of set_header: the id keeps the bits above the mask; it is not set.
UnmaskedHeaderWord(w) == [Cleared EXCEPT !.module_id = w.hi, !.header_word = w]
HeaderWithoutId(w) == [Cleared EXCEPT !.header_word = w]

set_header(w) == [Cleared EXCEPT !.module_id = module_id(w), !.header_word = w]
add(item) == [mod_data EXCEPT !.data = Append(@, item)]
moved == [mod_data EXCEPT !.data = <<>>]
Added(ev, md) == [ev EXCEPT !.modules = Append(@, md)]

Init ==
  /\ pc = "idle"
  /\ frame = [revision |-> 1, modules |-> <<>>, blob |-> <<>>] /\ words = <<>>
  /\ mesy_event = [modules |-> <<>>, event_counter |-> 0]
  /\ current_module = NoModule
  /\ mod_data = Cleared
  /\ got_header = FALSE /\ reading_data = FALSE /\ reading_mvlc_scaler = FALSE
  /\ done = <<>> /\ events = <<>>

-----------------------------------------------------------------------------
(* read_event_in_buffer *)

Fresh == \E n \in Indeterminate : mesy_event' = [modules |-> <<>>, event_counter |-> n]

Begin(f) ==
  /\ pc = "idle" /\ Len(done) < MaxFrames
  /\ frame' = f /\ words' = f.blob

ReadV0(f) ==
  /\ Begin(f) /\ f.revision = 0
  /\ pc' = "v0"
  /\ Fresh
  /\ UNCHANGED <<current_module, mod_data, flags, output>>

\* Mutant: mod_data is not cleared.
ReadOnV1(f) ==
  /\ Begin(f) /\ f.revision = 1
  /\ pc' = "v1"
  /\ Fresh
  /\ current_module' = NoModule
  /\ UNCHANGED <<mod_data, flags, output>>

ReadV1(f) ==
  /\ Begin(f) /\ f.revision = 1
  /\ pc' = "v1"
  /\ Fresh
  /\ mod_data' = Cleared
  /\ current_module' = NoModule
  /\ UNCHANGED <<flags, output>>

UnknownRevision(f) ==
  /\ Begin(f) /\ f.revision \notin {0, 1}
  /\ done' = Append(done, f)
  /\ UNCHANGED <<pc, local, mod_data, flags, events>>

NoMoreFrames ==
  /\ pc = "undefined" \/ (pc = "idle" /\ Len(done) = MaxFrames)
  /\ UNCHANGED vars

\* F is called with the event, and the call returns.
Finish(ev) ==
  /\ events' = Append(events, ev)
  /\ done' = Append(done, frame)
  /\ pc' = "idle"
  /\ UNCHANGED <<input, current_module, flags>>

\* An exception leaves the loop; the event is gone.
Throw ==
  /\ done' = Append(done, frame)
  /\ pc' = "idle"
  /\ UNCHANGED <<input, local, flags, events>>

-----------------------------------------------------------------------------
(* Words *)

next_word == Head(words)
Reading(v) == pc = v /\ words # <<>>
NextWord == words' = Tail(words) /\ UNCHANGED <<pc, frame, output>>
has_module(id) == id \in DOMAIN Crate

\* channel_data of the word, as the module decodes it.
Decoded(mod, w) ==
  [data_word |-> w, data_type |-> get_data_type(mod, w), bus_number |-> get_bus_number(mod, w),
   channel |-> get_channel_number(mod, w), data |-> get_channel_data(mod, w)]

\* v0 does not give the bus.
DecodedNoBus(mod, w) == [Decoded(mod, w) EXCEPT !.bus_number = 0]

-----------------------------------------------------------------------------
(* read_event_in_buffer_v1 *)

\* The module read before goes to the event, if it has an id.
FlushedEvent == IF mod_data.module_id # 0 THEN Added(mesy_event, mod_data) ELSE mesy_event
FlushedData == IF mod_data.module_id # 0 THEN moved ELSE mod_data

\* Mutant: the pointer is not set.
HeaderKeepsPointer ==
  /\ Reading("v1") /\ is_module_header(next_word) /\ has_module(module_id(next_word))
  /\ mesy_event' = FlushedEvent
  /\ mod_data' = set_header(next_word)
  /\ reading_mvlc_scaler' = is_mvlc_scaler(Crate[module_id(next_word)].firmware)
  /\ NextWord
  /\ UNCHANGED <<current_module, got_header, reading_data>>

HeaderV1 ==
  /\ Reading("v1") /\ is_module_header(next_word) /\ has_module(module_id(next_word))
  /\ mesy_event' = FlushedEvent
  /\ current_module' = module_id(next_word)
  /\ mod_data' = set_header(next_word)
  /\ reading_mvlc_scaler' = is_mvlc_scaler(Crate[module_id(next_word)].firmware)
  /\ NextWord
  /\ UNCHANGED <<got_header, reading_data>>

HeaderThrowsV1 ==
  /\ Reading("v1") /\ is_module_header(next_word) /\ ~has_module(module_id(next_word))
  /\ mod_data' = FlushedData
  /\ Throw

ScalerV1 ==
  /\ Reading("v1") /\ ~is_module_header(next_word) /\ reading_mvlc_scaler
  /\ mod_data' = add([data_word |-> next_word])
  /\ NextWord
  /\ UNCHANGED <<local, flags>>

\* Mutant: the test of v0, which knows no VMMR.
OnlyMdppData(w) == is_mdpp_data(w)

IsDataV1(w) == is_mdpp_data(w) \/ is_vmmr_data(w)

DataV1 ==
  /\ Reading("v1") /\ ~is_module_header(next_word) /\ ~reading_mvlc_scaler
  /\ IsDataV1(next_word)
  /\ current_module # NoModule /\ HasMasks(Crate[current_module])
  /\ mod_data' = add(Decoded(Crate[current_module], next_word))
  /\ NextWord
  /\ UNCHANGED <<local, flags>>

\* The pointer is not set yet, or the module's masks never were.
DataUndefinedV1 ==
  /\ Reading("v1") /\ ~is_module_header(next_word) /\ ~reading_mvlc_scaler
  /\ IsDataV1(next_word)
  /\ current_module # NoModule => ~HasMasks(Crate[current_module])
  /\ pc' = "undefined"
  /\ UNCHANGED <<input, local, mod_data, flags, output>>

SkipV1 ==
  /\ Reading("v1") /\ ~is_module_header(next_word) /\ ~reading_mvlc_scaler
  /\ ~IsDataV1(next_word)
  /\ NextWord
  /\ UNCHANGED <<local, mod_data, flags>>

EndV1 ==
  /\ pc = "v1" /\ words = <<>>
  /\ mesy_event' = FlushedEvent
  /\ mod_data' = FlushedData
  /\ Finish(FlushedEvent)

-----------------------------------------------------------------------------
(* read_event_in_buffer_v0 *)

HeaderV0 ==
  /\ Reading("v0") /\ is_module_header(next_word) /\ has_module(module_id(next_word))
  /\ mod_data' = set_header(next_word)
  /\ got_header' = TRUE /\ reading_data' = FALSE
  /\ NextWord
  /\ UNCHANGED <<local, reading_mvlc_scaler>>

HeaderThrowsV0 ==
  /\ Reading("v0") /\ is_module_header(next_word) /\ ~has_module(module_id(next_word))
  /\ Throw
  /\ UNCHANGED mod_data

DataV0 ==
  /\ Reading("v0") /\ is_mdpp_data(next_word)
  /\ has_module(mod_data.module_id) /\ HasMasks(Crate[mod_data.module_id])
  /\ reading_data' = TRUE
  /\ mod_data' = add(DecodedNoBus(Crate[mod_data.module_id], next_word))
  /\ NextWord
  /\ UNCHANGED <<local, got_header, reading_mvlc_scaler>>

DataUndefinedV0 ==
  /\ Reading("v0") /\ is_mdpp_data(next_word)
  /\ has_module(mod_data.module_id) /\ ~HasMasks(Crate[mod_data.module_id])
  /\ pc' = "undefined"
  /\ UNCHANGED <<input, local, mod_data, flags, output>>

\* get_module does not find the module of a header that was never read.
DataThrowsV0 ==
  /\ Reading("v0") /\ is_mdpp_data(next_word)
  /\ ~has_module(mod_data.module_id)
  /\ reading_data' = TRUE
  /\ done' = Append(done, frame)
  /\ pc' = "idle"
  /\ UNCHANGED <<input, local, mod_data, got_header, reading_mvlc_scaler, events>>

\* Mutant: every marker ends a module.
AnyMarkerEnds(w) == is_end_of_event(w) \/ is_frame_header(w)

\* What ends a module; a second marker is passed over.
Ends(w) == (got_header \/ reading_data) /\ (is_end_of_event(w) \/ is_frame_header(w))

MarkerV0 ==
  /\ Reading("v0") /\ ~is_module_header(next_word) /\ ~is_mdpp_data(next_word)
  /\ Ends(next_word)
  /\ LET md == [mod_data EXCEPT !.event_counter = event_counter(next_word)]
     IN  /\ mesy_event' = [Added(mesy_event, md) EXCEPT !.event_counter = md.event_counter]
         /\ mod_data' = [md EXCEPT !.data = <<>>]
  /\ got_header' = FALSE /\ reading_data' = FALSE
  /\ NextWord
  /\ UNCHANGED <<current_module, reading_mvlc_scaler>>

SkipV0 ==
  /\ Reading("v0") /\ ~is_module_header(next_word) /\ ~is_mdpp_data(next_word)
  /\ ~Ends(next_word)
  /\ NextWord
  /\ UNCHANGED <<local, mod_data, flags>>

EndV0 ==
  /\ pc = "v0" /\ words = <<>>
  /\ Finish(mesy_event)
  /\ UNCHANGED <<mesy_event, mod_data>>

-----------------------------------------------------------------------------
Next ==
  \/ \E f \in Frames : ReadV0(f) \/ ReadV1(f) \/ UnknownRevision(f)
  \/ NoMoreFrames
  \/ HeaderV1 \/ HeaderThrowsV1 \/ ScalerV1 \/ DataV1 \/ DataUndefinedV1 \/ SkipV1 \/ EndV1
  \/ HeaderV0 \/ HeaderThrowsV0 \/ DataV0 \/ DataUndefinedV0 \/ DataThrowsV0 \/ MarkerV0
  \/ SkipV0 \/ EndV0

Spec == Init /\ [][Next]_vars

-----------------------------------------------------------------------------
(* The state's types; the events' are FrameDecoder's business. *)
TypeOK ==
  /\ pc \in {"idle", "v0", "v1", "undefined"}
  /\ words \in Seq(Word)
  /\ mesy_event.event_counter \in Nat
  /\ current_module \in DOMAIN Crate \cup {NoModule}
  /\ mod_data.module_id \in ModuleId
  /\ mod_data.header_word \in Word
  /\ mod_data.event_counter \in Nat
  /\ got_header \in BOOLEAN /\ reading_data \in BOOLEAN
  /\ reading_mvlc_scaler \in BOOLEAN
  /\ done \in Seq(Frames)

(* mod_data belongs to the header read last in this frame: the data of v1   *)
(* are decoded as current_module's and filed under mod_data's id.           *)
DataFiledRight ==
  (pc = "v1" /\ current_module # NoModule) =>
    /\ mod_data.module_id = current_module
    /\ module_id(mod_data.header_word) = current_module
    /\ reading_mvlc_scaler = is_mvlc_scaler(Crate[current_module].firmware)

-----------------------------------------------------------------------------
(* What revision 1 makes of any words at all *)

Headers(blob) == {i \in DOMAIN blob : is_module_header(blob[i])}
KnownHeaders(blob) == {i \in Headers(blob) : has_module(module_id(blob[i]))}

\* The words between header h and the next one, or the end.
Block(blob, h) ==
  LET next == Min({i \in Headers(blob) : i > h} \cup {Len(blob) + 1})
  IN  SubSeq(blob, h + 1, next - 1)

DataBeforeHeader(blob) ==
  \E i \in DOMAIN blob : IsDataV1(blob[i]) /\ \A h \in Headers(blob) : i < h

\* A module that is no MDPP, VMMR or scaler has no data.
DataWithoutMasks(blob) ==
  \E h \in KnownHeaders(blob) :
    LET mod == Crate[module_id(blob[h])]
    IN  /\ ~HasMasks(mod) /\ ~is_mvlc_scaler(mod.firmware)
        /\ \E w \in Range(Block(blob, h)) : IsDataV1(w)

\* A scaler's words are taken as they are, of another module's the data.
BlockData(mod, ws) ==
  IF is_mvlc_scaler(mod.firmware) THEN [i \in DOMAIN ws |-> [data_word |-> ws[i]]]
  ELSE LET ds == SelectSeq(ws, IsDataV1) IN [i \in DOMAIN ds |-> Decoded(mod, ds[i])]

\* The blob cut at its headers; what is before the first is no module's, and a
\* module with the id 0 is left out.
CutAtHeaders(blob) ==
  LET hs == SetToSortSeq({h \in Headers(blob) : module_id(blob[h]) # 0}, <)
  IN  [k \in DOMAIN hs |->
         LET id == module_id(blob[hs[k]])
         IN  [module_id |-> id, header_word |-> blob[hs[k]], event_counter |-> 0,
              data |-> BlockData(Crate[id], Block(blob, hs[k]))]]

(* Of any words that come as a frame of revision 1, whatever frames were    *)
(* read before and however they ended (with a scalers' flag left set, with  *)
(* data never handed over), the analysis gets exactly the blocks of this    *)
(* frame that begin with a header, each decoded as its own module's.  It    *)
(* gets nothing only because a header names no module of the crate.         *)
OneFrameAlone ==
  [][(pc = "v1" /\ pc' = "idle") =>
       IF KnownHeaders(frame.blob) = Headers(frame.blob)
       THEN \E n \in Indeterminate :
              events' = Append(events, [modules |-> CutAtHeaders(frame.blob),
                                        event_counter |-> n])
       ELSE UNCHANGED events]_vars

(* read_event_in_buffer_v1 goes through current_module before it is set, or *)
(* by masks no one has set, only for the words of this frame: because there *)
(* are data before the first header, or data of a TGV.  No frame read       *)
(* before, and no header between, can bring it about.                       *)
UndefinedHasCause ==
  [][(pc = "v1" /\ pc' = "undefined") =>
       DataBeforeHeader(frame.blob) \/ DataWithoutMasks(frame.blob)]_vars

-----------------------------------------------------------------------------
Decoder == INSTANCE FrameDecoder

(* The reader gives the analysis what FrameDecoder says: for each frame, of *)
(* either revision, whatever was read before it and however that ended, all *)
(* modules with exactly their hits, decoded as the electronics meant them.  *)
ImplementsDecoder == Decoder!Spec
=============================================================================
