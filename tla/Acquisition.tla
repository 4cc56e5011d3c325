---------------------------- MODULE Acquisition ----------------------------
(***************************************************************************)
(* From the modules of the crate to an analysis.  The module composes      *)
(*   - Transmitter, whose crate reads out modules that have hits,          *)
(*   - the way of the frames to the analysis: zmq_receiver or the Narval   *)
(*     receiver and their files keep the order of frames and may lose some *)
(*     (RunFileWriter and NarvalReceiver are about how),                   *)
(*   - and BufferReader in the analysis, which reads the blobs.            *)
(* Transmitter and analysis have read the same crate_map.dat.              *)
(***************************************************************************)
EXTENDS Transmitter

CONSTANTS
  Crate,      \* crate_map.dat: module ids -> [firmware, nchan]
  Hits        \* what the modules of a stack may have: stack readout -> hits

VARIABLES
  taken,      \* how many frames have left the transmitter's socket
  lost,       \* history: those of them that never arrive
  r_pc, r_frame, r_words, r_mesy_event, current_module, r_mod_data,
  got_header, reading_data, reading_mvlc_scaler,
  done, events

transit  == <<taken, lost>>
analysis == <<r_pc, r_frame, r_words, r_mesy_event, current_module, r_mod_data,
              got_header, reading_data, reading_mvlc_scaler, done, events>>

Reader == INSTANCE BufferReader WITH
  pc <- r_pc, frame <- r_frame, words <- r_words, mesy_event <- r_mesy_event,
  mod_data <- r_mod_data, Frames <- {}, MaxFrames <- MaxCycle
Decoder == INSTANCE FrameDecoder WITH Frames <- {}

-----------------------------------------------------------------------------
(* The crate *)

\* What one module sends is a sequence of blocks [header, hits], each ended by
\* an end of event; the scalers' module has two.
EndOfEvent == [hi |-> 49152, lo |-> 0]
BlockWords(b) == <<b.header>> \o Decoder!Words(b) \o <<EndOfEvent>>
ReadoutOf(ms) ==
  [k \in DOMAIN ms |-> FlattenSeq([j \in DOMAIN ms[k] |-> BlockWords(ms[k][j])])]

ASSUME WiringAssumption ==
  /\ CrateMap = [id \in DOMAIN Crate |-> Crate[id].firmware]
  /\ Readouts = [s \in ReadoutSlot |-> {ReadoutOf(ms) : ms \in Hits[s]}]

\* As BufferReader, for which an MDPP has 16 or 32 channels.
ASSUME ChannelsAssumption ==
  \A id \in DOMAIN Crate : IsMdpp(Crate[id].firmware) => Crate[id].nchan \in {16, 32}

-----------------------------------------------------------------------------
InitAll ==
  /\ Init
  /\ taken = 0 /\ lost = {}
  /\ Reader!Init

Transmit == Next /\ UNCHANGED <<transit, analysis>>

InTransit == taken < Len(frames)

Deliver ==
  /\ InTransit
  /\ taken' = taken + 1
  /\ Reader!ReadV1([revision |-> 1, modules |-> sent[taken + 1].modules,
                    blob |-> frames[taken + 1].blob])
  /\ UNCHANGED <<vars, lost>>

LoseFrame ==
  /\ InTransit
  /\ taken' = taken + 1
  /\ lost' = lost \cup {taken + 1}
  /\ UNCHANGED <<vars, analysis>>

Read ==
  /\ \/ Reader!HeaderV1 \/ Reader!HeaderThrowsV1 \/ Reader!ScalerV1
     \/ Reader!DataV1 \/ Reader!DataUndefinedV1 \/ Reader!SkipV1 \/ Reader!EndV1
  /\ UNCHANGED <<vars, transit>>

NextAll == Transmit \/ Deliver \/ LoseFrame \/ Read

SpecAll == InitAll /\ [][NextAll]_<<vars, transit, analysis>>

\* The analysis takes the frames that come and reads each to its end.
FairSpecAll ==
  /\ SpecAll
  /\ WF_vars(Readout)
  /\ WF_vars(\E n \in 1 .. Len(wire) : Receive(n))
  /\ WF_vars(Work)
  /\ WF_<<transit, analysis>>(Deliver)
  /\ WF_analysis(Read)

-----------------------------------------------------------------------------
(* From end to end *)

Known(b) == module_id(b.header) \in DOMAIN Crate
FirmwareOf(b) == Crate[module_id(b.header)].firmware

\* What the modules of a crate send, those that no crate map names and those of
\* FrameFormat: scalers come in twos, four words each, others one by one.
SentBlock == [header : {w \in Word : is_module_header(w)}, hits : Seq(Decoder!SentHit)]
ModuleSends(bs) ==
  \/ \A j \in DOMAIN bs : ~Known(bs[j])
  \/ /\ \A j \in DOMAIN bs : Known(bs[j]) /\ Decoder!NewModule(bs[j])
     /\ \/ Len(bs) = 1 /\ ~is_mvlc_scaler(FirmwareOf(bs[1]))
        \/ /\ Len(bs) = 2
           /\ \A j \in {1, 2} : is_mvlc_scaler(FirmwareOf(bs[j])) /\ Len(bs[j].hits) = 4
HitsWellFormed ==
  \A s \in ReadoutSlot : \A ms \in Hits[s] :
    ms \in Seq(Seq(SentBlock)) /\ \A k \in DOMAIN ms : ModuleSends(ms[k])

\* A module that has data, as an analysis sees it.
Heard(id, data) == IF data = <<>> THEN <<>> ELSE <<[module_id |-> id, data |-> data]>>

\* What an analysis is to learn of the modules ms: for each block of a module
\* it knows that has hits, the hits as FrameDecoder says.
ToldOf(b) ==
  IF Known(b) THEN Heard(module_id(b.header), Decoder!Items([revision |-> 1], b)) ELSE <<>>
Told(ms) ==
  FlattenSeq([k \in DOMAIN ms |-> FlattenSeq([j \in DOMAIN ms[k] |-> ToldOf(ms[k][j])])])

HitsOf(r) == CHOOSE ms \in Hits[r.slot] : ReadoutOf(ms) = r.modules

\* The hits of one cycle, stack after stack.
CycleHits(c) ==
  LET rs == Picked(handled, {r \in Messages : r.slot.cycle = c})
  IN  FlattenSeq([i \in DOMAIN rs |-> Told(HitsOf(rs[i]))])

Learned(ev) ==
  FlattenSeq([i \in DOMAIN ev.modules |-> Heard(ev.modules[i].module_id, ev.modules[i].data)])

CycleOf(ms) == ms[1].origin.cycle

(* The analysis is called once for each frame that arrives and learns       *)
(* exactly the hits of one cycle: every hit the modules had, under its      *)
(* module, with its type, bus, channel and value, in the order they were    *)
(* read, and nothing made of a fill word, an end of event, a TGV's words,   *)
(* or a module the crate map does not have.  The fill words of an MDPP_CSI, *)
(* which the transmitter publishes, are no hits either.                     *)
HitsReachAnalysis ==
  /\ r_pc = "idle" => Len(events) = Len(done)
  /\ \A i \in DOMAIN events : Learned(events[i]) = CycleHits(CycleOf(done[i].modules))

(* Every cycle the crate reads out is analysed, unless a frame was lost on  *)
(* the way or the transmitter gave up a buffer.                             *)
EveryCycleIsAnalysed ==
  \A c \in 1 .. MaxCycle :
    <>(\/ \E i \in DOMAIN done : CycleOf(done[i].modules) = c
       \/ lost # {} \/ abandoned > 0)
=============================================================================
