---------------------------- MODULE MesytecData ----------------------------
(***************************************************************************)
(* module_data and event of lib/mesytec_data.h, and the MFM frame that     *)
(* mesytec_mfm_converter builds from an event.                             *)
(*                                                                         *)
(* Both classes are plain containers: an operator here is one of their     *)
(* methods, from the old value of the object to the new one.  The field    *)
(* "origin" of a module_data is history: it names the readout its words    *)
(* were taken from, travels with them, and is never read by an operation.  *)
(***************************************************************************)
EXTENDS MesytecWords, Lists

\* A readout of one stack of the crate in one cycle of triggers.
Origin == [cycle : Nat, stack : Nat]

ModuleId == 0 .. 255
ModuleData == [module_id : ModuleId, header_word : Word, data : Seq(Word),
               origin : Origin]

Timestamp == [lo : Half, mid : Half, hi : Half]

Event == [modules : Seq(ModuleData), ts : Timestamp, event_counter : Nat]

-----------------------------------------------------------------------------
(* module_data *)

\* Mutant: the id keeps the bits above the mask.
UnmaskedHeader(w, o) ==
  [module_id |-> w.hi, header_word |-> w, data |-> <<>>, origin |-> o]

set_header_word(w, o) ==
  [module_id |-> module_id(w), header_word |-> w, data |-> <<>>, origin |-> o]

add_data(md, w) == [md EXCEPT !.data = Append(@, w)]

\* clear(): the scalars are zeroed as well.
clear_module_data(md) ==
  [md EXCEPT !.module_id = 0, !.header_word = ZeroWord, !.data = <<>>]

\* What push_back(std::move(d)) leaves behind: only the vector is moved out.
moved_from(md) == [md EXCEPT !.data = <<>>]

-----------------------------------------------------------------------------
(* event *)

add_module_data(ev, md) == [ev EXCEPT !.modules = Append(@, md)]

\* Mutants: nothing is cleared; the timestamp is cleared as well.
ClearNothing(ev) == ev
ClearAll(ev) == [ev EXCEPT !.modules = <<>>, !.ts = [lo |-> 0, mid |-> 0, hi |-> 0]]

\* clear() empties the modules and leaves timestamp and counter alone.
clear_event(ev) == [ev EXCEPT !.modules = <<>>]

has_data(ev) == ev.modules # <<>>

-----------------------------------------------------------------------------
(* Output buffer and MFM frame *)

\* module_data::size_of_buffer, in words.
ModuleBufferSize(md) == IF md.data = <<>> THEN 0 ELSE Len(md.data) + 1

\* Mutant: the header word comes last.
HeaderLast(md) == IF md.data = <<>> THEN <<>> ELSE Append(md.data, md.header_word)

\* module_data::add_data_to_buffer.
ModuleBuffer(md) == IF md.data = <<>> THEN <<>> ELSE <<md.header_word>> \o md.data

size_of_buffer(ev) ==
  SumOf([i \in DOMAIN ev.modules |-> ModuleBufferSize(ev.modules[i])])

get_output_buffer(ev) ==
  FlattenSeq([i \in DOMAIN ev.modules |-> ModuleBuffer(ev.modules[i])])

MfmHeaderSize == 24

\* frame_units is the size field of the header, in units of two bytes;
\* message_size the size of the ZeroMQ message.
MfmFrame(ev) ==
  LET bytes == 4 * size_of_buffer(ev)
  IN  [frame_units  |-> (MfmHeaderSize + bytes) \div 2,
       timestamp    |-> ev.ts,
       event_number |-> ev.event_counter,
       blob_size    |-> bytes,
       blob         |-> get_output_buffer(ev),
       message_size |-> MfmHeaderSize + bytes]
=============================================================================
