---------------------------- MODULE Transmitter ----------------------------
(***************************************************************************)
(* execs/mesytec_receiver_mfm_transmitter.cpp: mvme readout buffers in,    *)
(* MFM frames out.  The module composes                                    *)
(*   - the crate, which fires its readout stacks 0 .. NStacks-1 in every   *)
(*     cycle and puts each stack's readout on the wire (external),         *)
(*   - the ZeroMQ connection from mvme, which may lose readouts, and the   *)
(*     mesytec-mvlc parser, which may throw (both external),               *)
(*   - mvlc_parser_buffer_reader (lib/mesytec_buffer_reader_mvlc_parser.h) *)
(*     that collates the stacks of one cycle into one event,               *)
(*   - mesytec_mfm_converter, which publishes a frame for each event,      *)
(*   - and the main loop around them.                                      *)
(*                                                                         *)
(* The reader is followed word by word, because a buffer may end, and an   *)
(* exception may be thrown, in the middle of an event.                     *)
(***************************************************************************)
EXTENDS MesytecData

CONSTANTS
  CrateMap,       \* crate_map.dat: a function from module ids to firmware
  NStacks,        \* number of stacks of mvlc_crateconfig.yaml
  MaxCycle,       \* bound: cycles the crate reads out
  WireMax,        \* bound: readouts between the crate and the transmitter
  MaxAbandoned,   \* bound: buffers abandoned because of an exception
  Readouts,       \* what the crate may send: stack readout -> module lists
  Faults,         \* which of "loss", "parse" and "send" may happen
  Indeterminate   \* the values an uninitialised 16-bit field may hold

ReadoutSlot == [cycle : 1 .. MaxCycle, stack : 0 .. NStacks - 1]
Slot == [cycle : 0 .. MaxCycle + 1, stack : 0 .. NStacks - 1]

\* Readouts as they travel: whose they are, and the words of each module.
Messages ==
  UNION {{[slot |-> s, modules |-> ml] : ml \in Readouts[s]} : s \in ReadoutSlot}

FirstSlot == [cycle |-> 1, stack |-> 0]
\* The value of "current" before the first callback.
BeforeFirst == [slot |-> [cycle |-> 0, stack |-> NStacks - 1], modules |-> <<>>]

IsLastStack(s) == s.stack + 1 = NStacks
NextSlot(s) == IF IsLastStack(s)
               THEN [cycle |-> s.cycle + 1, stack |-> 0]
               ELSE [cycle |-> s.cycle, stack |-> s.stack + 1]

-----------------------------------------------------------------------------
has_module(id) == id \in DOMAIN CrateMap

\* What the asserts of event_data_callback say of a readout of the MVLC
\* scalers: two blocks of header, four words and end of event, and a second
\* header that names a scaler (or a module the crate map does not have).
ScalerLayout(m) ==
  /\ Len(m) = 12
  /\ is_end_of_event(m[6])  /\ is_module_header(m[7])
  /\ is_end_of_event(m[12])
  /\ has_module(module_id(m[7])) => is_mvlc_scaler(CrateMap[module_id(m[7])])

ASSUME BoundsAssumption ==
  /\ NStacks \in Nat \ {0}
  /\ MaxCycle \in Nat \ {0}
  /\ WireMax \in Nat \ {0}
  /\ MaxAbandoned \in Nat
  /\ Indeterminate \subseteq Half
  /\ Indeterminate # {}
  /\ Faults \subseteq {"loss", "parse", "send"}

ASSUME CrateMapAssumption ==
  /\ DOMAIN CrateMap \subseteq ModuleId
  /\ \A id \in DOMAIN CrateMap : CrateMap[id] \in Firmware

\* The layouts the code indexes into without a test.
LaidOut(m) ==
  (Len(m) > 2 /\ has_module(module_id(m[1]))) =>
    /\ is_tgv_module(CrateMap[module_id(m[1])]) => Len(m) >= 5
    /\ is_mvlc_scaler(CrateMap[module_id(m[1])]) => ScalerLayout(m)

ASSUME ReadoutsAssumption ==
  /\ DOMAIN Readouts = ReadoutSlot
  /\ \A s \in ReadoutSlot : \A ml \in Readouts[s] :
       /\ ml \in Seq(Seq(Word))
       /\ \A i \in DOMAIN ml : LaidOut(ml[i])

-----------------------------------------------------------------------------
VARIABLES
  daq,               \* the stack the crate reads out next
  wire,              \* readouts sent and not yet received
  pc,                \* "recv", "parse", "modules" or "words"
  buffer,            \* readouts of the received buffer still to be parsed
  current,           \* the readout event_data_callback was called with last
  moduleDataList,    \* its modules still to be handled
  wordList,          \* the words of the module being read, still to be read
  readoutStructure,  \* size of mvlcParserState.readoutStructure
  mesy_event,
  mod_data,
  total_number_events_parsed,
  events_treated,    \* what read_buffer_collate_events returned last
  frames,            \* the frames published
  sent,              \* history: the events they were made from
  handled,           \* history: the readouts whose callback has returned
  abandoned          \* history: buffers abandoned

crate   == <<daq, wire>>
parser  == <<buffer, current, moduleDataList, wordList>>
reader  == <<readoutStructure, mesy_event, mod_data, total_number_events_parsed>>
output  == <<frames, sent>>
history == <<handled, abandoned>>
vars == <<crate, pc, parser, reader, events_treated, output, history>>

\* The constructor's state: a timestamp and an event counter nobody sets.
Init ==
  /\ daq = FirstSlot
  /\ wire = <<>>
  /\ pc = "recv"
  /\ buffer = <<>>
  /\ current = BeforeFirst
  /\ moduleDataList = <<>>
  /\ wordList = <<>>
  /\ readoutStructure = NStacks                      \* initialise_readout()
  /\ \E lo, mid, hi, n \in Indeterminate :
       mesy_event = [modules |-> <<>>, event_counter |-> n,
                     ts |-> [lo |-> lo, mid |-> mid, hi |-> hi]]
  /\ mod_data = set_header_word(ZeroWord, BeforeFirst.slot)
  /\ total_number_events_parsed = 0
  /\ events_treated = 0
  /\ frames = <<>>
  /\ sent = <<>>
  /\ handled = <<>>
  /\ abandoned = 0

-----------------------------------------------------------------------------
(* The crate, mvme and the connection *)

Readout ==
  /\ daq \in ReadoutSlot
  /\ Len(wire) < WireMax
  /\ \E ml \in Readouts[daq] : wire' = Append(wire, [slot |-> daq, modules |-> ml])
  /\ daq' = NextSlot(daq)
  /\ UNCHANGED <<pc, parser, reader, events_treated, output, history>>

\* A PUB socket drops what it cannot deliver, whole buffers at a time.
Lose(n) ==
  /\ "loss" \in Faults
  /\ wire' = SubSeq(wire, n + 1, Len(wire))
  /\ UNCHANGED <<daq, pc, parser, reader, events_treated, output, history>>

-----------------------------------------------------------------------------
(* The main loop *)

\* A message: mvme cuts the stream into buffers anywhere between readouts.
Receive(n) ==
  /\ pc = "recv"
  /\ buffer' = SubSeq(wire, 1, n)
  /\ wire' = SubSeq(wire, n + 1, Len(wire))
  /\ pc' = "parse"
  /\ UNCHANGED <<daq, current, moduleDataList, wordList, reader, events_treated,
                 output, handled, abandoned>>

RecvTimeout ==
  /\ pc = "recv" /\ wire = <<>>
  /\ UNCHANGED vars

EndBuffer ==
  /\ pc = "parse" /\ buffer = <<>>
  /\ events_treated' = total_number_events_parsed
  /\ pc' = "recv"
  /\ UNCHANGED <<crate, parser, reader, output, history>>

\* The catch clause: reset(), then the next message.
AbandonBuffer ==
  /\ mesy_event' = clear_event(mesy_event)
  /\ mod_data' = clear_module_data(mod_data)
  /\ total_number_events_parsed' = 0
  /\ readoutStructure' = 0
  /\ buffer' = <<>> /\ moduleDataList' = <<>> /\ wordList' = <<>>
  /\ abandoned' = abandoned + 1
  /\ pc' = "recv"
  /\ UNCHANGED <<crate, current, events_treated, output, handled>>

-----------------------------------------------------------------------------
(* parse_readout_buffer *)

BeginCallback ==
  /\ pc = "parse" /\ buffer # <<>>
  /\ Head(buffer).slot.stack < readoutStructure
  /\ current' = Head(buffer)
  /\ moduleDataList' = Head(buffer).modules
  /\ buffer' = Tail(buffer)
  /\ pc' = "modules"
  /\ UNCHANGED <<crate, wordList, reader, events_treated, output, history>>

\* A stack the parser's readout structure does not have is passed over.
PassOver ==
  /\ pc = "parse" /\ buffer # <<>>
  /\ Head(buffer).slot.stack >= readoutStructure
  /\ buffer' = Tail(buffer)
  /\ UNCHANGED <<crate, pc, current, moduleDataList, wordList, reader,
                 events_treated, output, history>>

ParseThrows ==
  /\ "parse" \in Faults
  /\ pc = "parse" /\ buffer # <<>>
  /\ abandoned < MaxAbandoned
  /\ AbandonBuffer

-----------------------------------------------------------------------------
(* event_data_callback: the loop over the modules of the readout *)

module_words == Head(moduleDataList)
header       == module_words[1]
HasModule    == Len(module_words) > 2 /\ has_module(module_id(header))
firmware     == CrateMap[module_id(header)]

NextModule == pc = "modules" /\ moduleDataList # <<>>

SkipModule ==
  /\ NextModule
  /\ ~HasModule
  /\ moduleDataList' = Tail(moduleDataList)
  /\ UNCHANGED <<crate, pc, buffer, current, wordList, reader, events_treated,
                 output, history>>

ReadTgv ==
  /\ NextModule /\ HasModule /\ is_tgv_module(firmware)
  /\ mesy_event' = [mesy_event EXCEPT
       !.ts = [lo |-> module_words[3].lo, mid |-> module_words[4].lo,
               hi |-> module_words[5].lo]]
  /\ moduleDataList' = Tail(moduleDataList)
  /\ UNCHANGED <<crate, pc, buffer, current, wordList, readoutStructure, mod_data,
                 total_number_events_parsed, events_treated, output, history>>

\* Four words from position k + 1 on, under the header at position k.
ScalerData(k) ==
  [set_header_word(module_words[k], current.slot)
     EXCEPT !.data = SubSeq(module_words, k + 1, k + 4)]

ReadScaler ==
  /\ NextModule /\ HasModule /\ is_mvlc_scaler(firmware)
  /\ has_module(module_id(module_words[7]))
  /\ mesy_event' = add_module_data(add_module_data(mesy_event, ScalerData(1)),
                                   ScalerData(7))
  /\ mod_data' = moved_from(ScalerData(7))
  /\ moduleDataList' = Tail(moduleDataList)
  /\ UNCHANGED <<crate, pc, buffer, current, wordList, readoutStructure,
                 total_number_events_parsed, events_treated, output, history>>

\* get_module throws for a second scaler the crate map does not have.
ScalerUnknown ==
  /\ NextModule /\ HasModule /\ is_mvlc_scaler(firmware)
  /\ ~has_module(module_id(module_words[7]))
  /\ AbandonBuffer

BeginModule ==
  /\ NextModule /\ HasModule
  /\ ~is_tgv_module(firmware) /\ ~is_mvlc_scaler(firmware)
  /\ mod_data' = set_header_word(header, current.slot)
  /\ wordList' = Tail(module_words)
  /\ pc' = "words"
  /\ UNCHANGED <<crate, buffer, current, moduleDataList, readoutStructure,
                 mesy_event, total_number_events_parsed, events_treated, output,
                 history>>

-----------------------------------------------------------------------------
(* event_data_callback: the loop over the words of a module *)

\* Mutant: markers are not told from data.
NoFillWord(w) == ~(is_mesytec_module(firmware) /\ is_fill_word(w))

is_data(w) == /\ ~is_end_of_event(w)
              /\ ~(is_mesytec_module(firmware) /\ is_fill_word(w))

TakeWord ==
  /\ pc = "words" /\ wordList # <<>>
  /\ mod_data' = IF is_data(Head(wordList))
                 THEN add_data(mod_data, Head(wordList)) ELSE mod_data
  /\ wordList' = Tail(wordList)
  /\ UNCHANGED <<crate, pc, buffer, current, moduleDataList, readoutStructure,
                 mesy_event, total_number_events_parsed, events_treated, output,
                 history>>

EndModule ==
  /\ pc = "words" /\ wordList = <<>>
  /\ mesy_event' = add_module_data(mesy_event, mod_data)
  /\ mod_data' = moved_from(mod_data)
  /\ moduleDataList' = Tail(moduleDataList)
  /\ pc' = "modules"
  /\ UNCHANGED <<crate, buffer, current, wordList, readoutStructure,
                 total_number_events_parsed, events_treated, output, history>>

-----------------------------------------------------------------------------
(* event_data_callback: the end of the readout *)

\* Mutants: off by one, either way.
OneStackEarly == current.slot.stack + 2 = readoutStructure
OneStackLate == current.slot.stack = readoutStructure

EventComplete == current.slot.stack + 1 = readoutStructure

CollateMore ==
  /\ pc = "modules" /\ moduleDataList = <<>>
  /\ ~EventComplete
  /\ handled' = Append(handled, current)
  /\ pc' = "parse"
  /\ UNCHANGED <<crate, parser, reader, events_treated, output, abandoned>>

\* The converter publishes a frame unless the event is empty.
Emit ==
  /\ pc = "modules" /\ moduleDataList = <<>>
  /\ EventComplete
  /\ IF has_data(mesy_event)
     THEN /\ frames' = Append(frames, MfmFrame(mesy_event))
          /\ sent' = Append(sent, mesy_event)
     ELSE UNCHANGED output
  /\ mesy_event' = clear_event(mesy_event)
  /\ total_number_events_parsed' = total_number_events_parsed + 1
  /\ handled' = Append(handled, current)
  /\ pc' = "parse"
  /\ UNCHANGED <<crate, parser, readoutStructure, mod_data, events_treated, abandoned>>

EmitThrows ==
  /\ "send" \in Faults
  /\ pc = "modules" /\ moduleDataList = <<>>
  /\ EventComplete /\ has_data(mesy_event)
  /\ AbandonBuffer

-----------------------------------------------------------------------------
\* One pass of the main loop once a message is there.
Work ==
  \/ EndBuffer \/ BeginCallback \/ PassOver \/ ParseThrows
  \/ SkipModule \/ ReadTgv \/ ReadScaler \/ ScalerUnknown \/ BeginModule
  \/ TakeWord \/ EndModule
  \/ CollateMore \/ Emit \/ EmitThrows

Next ==
  \/ Readout
  \/ \E n \in 1 .. Len(wire) : Lose(n) \/ Receive(n)
  \/ RecvTimeout
  \/ Work

Spec == Init /\ [][Next]_vars

\* The crate keeps triggering, and the main loop neither stops nor waits
\* while there is a message.
FairSpec == Spec /\ WF_vars(Readout)
                 /\ WF_vars(\E n \in 1 .. Len(wire) : Receive(n))
                 /\ WF_vars(Work)

-----------------------------------------------------------------------------
(* The state's types.  A frame's type is FramesFaithful's business. *)
TypeOK ==
  /\ daq \in Slot
  /\ wire \in Seq(Messages)
  /\ pc \in {"recv", "parse", "modules", "words"}
  /\ buffer \in Seq(Messages)
  /\ current \in Messages \cup {BeforeFirst}
  /\ moduleDataList \in Seq(Seq(Word))
  /\ wordList \in Seq(Word)
  /\ readoutStructure \in {0, NStacks}
  /\ mesy_event \in Event
  /\ mod_data \in ModuleData
  /\ total_number_events_parsed \in Nat
  /\ events_treated \in Nat
  /\ sent \in Seq(Event)
  /\ handled \in Seq(Messages)
  /\ abandoned \in Nat

-----------------------------------------------------------------------------
(* What is published *)

\* What may be in the data of a module: no end of event, and a fill word only
\* if the module is an MDPP_CSI.  The words of a scaler are copied as they are.
CleanModule(md) ==
  /\ has_module(md.module_id)
  /\ ~is_tgv_module(CrateMap[md.module_id])
  /\ module_id(md.header_word) = md.module_id
  /\ \A k \in DOMAIN md.data :
       \/ is_mvlc_scaler(CrateMap[md.module_id])
       \/ /\ ~is_end_of_event(md.data[k])
          /\ is_fill_word(md.data[k]) => CrateMap[md.module_id] = "MDPP_CSI"

CleanEvent(ev) == \A i \in DOMAIN ev.modules : CleanModule(ev.modules[i])

(* Whatever is lost or thrown on the way, a published event holds data of   *)
(* modules of the crate map only, never the TGV's, under the header of the  *)
(* module it came from; no end-of-event word passes for data, and no fill   *)
(* word does, except those of an MDPP_CSI, which the reader lets through    *)
(* (event_data_callback's tests, through mod_data's reuse for one module    *)
(* after the other; NoFillWordPublished is about the exception).            *)
CleanEvents == \A i \in DOMAIN sent : CleanEvent(sent[i])

(* The modules of an event come from one cycle of the crate ("wait until    *)
(* data from all readout stacks have been collated"): no module of a cycle  *)
(* is left over for the next event, wherever the stream was cut into        *)
(* buffers and whichever buffer was abandoned.  It needs a connection that  *)
(* loses nothing.                                                           *)
OneCycle ==
  \A i \in DOMAIN sent : \A j, k \in DOMAIN sent[i].modules :
    sent[i].modules[j].origin.cycle = sent[i].modules[k].origin.cycle

SlotBefore(s, t) == s.cycle < t.cycle \/ (s.cycle = t.cycle /\ s.stack < t.stack)

(* Nothing is published twice or out of order: what an event holds comes    *)
(* from readouts after all those of the events before it, even when         *)
(* readouts were lost and buffers abandoned.                                *)
InOrderOnce ==
  \A i, j \in DOMAIN sent : i < j =>
    \A k \in DOMAIN sent[i].modules, l \in DOMAIN sent[j].modules :
      SlotBefore(sent[i].modules[k].origin, sent[j].modules[l].origin)

\* The words a module takes in the blob, and those of the modules before the k-th.
WordsOf(md) == IF md.data = <<>> THEN 0 ELSE 1 + Len(md.data)
WordsBefore(modules, k) == SumOf([i \in 1 .. k - 1 |-> WordsOf(modules[i])])

\* One module with data after the other, each its header and then its data,
\* and nothing else.
HoldsModules(blob, modules) ==
  /\ Len(blob) = WordsBefore(modules, Len(modules) + 1)
  /\ \A k \in DOMAIN modules : modules[k].data # <<>> =>
       LET at == WordsBefore(modules, k) + 1
       IN  /\ blob[at] = modules[k].header_word
           /\ \A n \in DOMAIN modules[k].data : blob[at + n] = modules[k].data[n]

(* A frame is what a reader of it takes it for: the size in the MFM header, *)
(* in units of two bytes, is that of the message zmq_receiver's decoder     *)
(* compares it to; the blob size is that of the words memcpy takes from     *)
(* get_output_buffer; these are, each at its place, the header and the data *)
(* of every module of the event that has data, and no others; and the       *)
(* timestamp is the event's.                                                *)
FramesFaithful ==
  /\ Len(frames) = Len(sent)
  /\ \A i \in DOMAIN frames :
       /\ 2 * frames[i].frame_units = frames[i].message_size
       /\ frames[i].message_size = MfmHeaderSize + frames[i].blob_size
       /\ frames[i].blob_size = 4 * Len(frames[i].blob)
       /\ HoldsModules(frames[i].blob, sent[i].modules)
       /\ frames[i].timestamp = sent[i].ts

-----------------------------------------------------------------------------
PublishedEvents ==
  [i \in DOMAIN sent |-> [modules |-> sent[i].modules, ts |-> sent[i].ts]]

Builder == INSTANCE EventBuilder WITH published <- PublishedEvents

(* The word-by-word reader, cut off by buffers and exceptions, publishes    *)
(* what EventBuilder says: each event when the last stack has been handled, *)
(* with exactly the data of the readouts since the last event, and the      *)
(* latest TGV timestamp.                                                    *)
ImplementsBuilder == Builder!Spec
=============================================================================
