# A verification project for mesytec_data

mesytec_data takes the data of mesytec VME modules, read out by an MVLC
controller under mvme, to the acquisition of GANIL and to an analysis.  This
directory holds TLA+ models of the parts that run during a measurement, TLC
configurations that check them on small instances, and proofs of their main
safety properties for every instance.

## 1. The system

```
 crate --> mvme --(ZeroMQ PUB)--> mesytec_receiver_mfm_transmitter --(ZeroMQ PUB)--+
           external                 mvlc_parser_buffer_reader + converter          |
                                                                                   |
             Narval <-- zmq_narval_receiver <--------------------------------------+
                                                                                   |
   analysis <-- buffer_reader <-- run files <-- zmq_receiver <---------------------+
```

Every program has one thread and talks to the others through ZeroMQ PUB/SUB
sockets, which drop what they cannot deliver.  There is no acknowledgement and
no replay.

| component | state | operations | what is hard | what makes it correct |
|---|---|---|---|---|
| `mvlc_parser_buffer_reader` (lib) | the event being collated, one `module_data` for all modules, the readout structure, counters | `event_data_callback`, called by the mesytec-mvlc parser for each readout of a stack; `read_buffer_collate_events`; `reset` | a buffer ends, or an exception is thrown, in the middle of an event; objects are moved from and reused; the timestamp is never cleared | each cycle of the crate becomes one event, with its own data and the last timestamp |
| `mesytec_receiver_mfm_transmitter` (execs) | the SUB and PUB sockets | main loop, catch clause, converter | lost messages, abandoned buffers | frames are well formed; in order; none twice |
| `module_data`, `event` (lib) | containers | add, clear, move, size, buffer | what a move and `clear` leave behind | sizes agree with contents |
| words, `module` (lib) | the data word last set | bit tests, fields | masks that depend on firmware and channels | decoding inverts the modules' format: every hit comes out with its type, bus, channel and value |
| `buffer_reader` (lib) | `module_data`, three flags, kept between frames | `read_event_in_buffer`, revision 0 or 1 | an exception in one frame and the state it leaves to the next; an uninitialised pointer | every frame gives its modules and hits, and nothing else |
| `zmq_narval_receiver` (narval) | socket, last message, `send_last_event` | `process_start`, `process_block`, `process_stop` | a message held over between calls, stops and starts | every message taken is handed on once, in order; no overrun |
| `zmq_receiver` (execs) | a buffer of 1 MB, counters, the current file | main loop: decode, flush, change file | flush and change of file with a frame in hand; kills; uncaught exceptions; runs written twice | the files hold the run; bounded loss; sizes kept |
| `experimental_setup`, `fast_lookup_map` (lib) | ids, a vector of modules that gets its size once, the largest id | `read_crate_map`, `read_detector_correspondence`, look-up, iteration | the map changes while a file is read, and the read may throw; a second crate map with larger ids; ids cut to 8 bits; a last line without a newline | a crate map is taken whole or not at all; a vector is passed for the known causes only; a channel has the name the file gives it |
| example analysis (tests) | the event it was called with | reads frames with one `buffer_reader` and one crate map | what lies between the crate and it | an event is one cycle, with its hits |
| tests, build, documentation | - | - | - | - |

`PROJECT.json` lists the components with what is left out of each, the hazards
with the lines they bite at, the map from definitions to source lines, and the
mutants.

## 2. The modules

| module | what it is |
|---|---|
| `MesytecWords` | the 32-bit words (pairs of 16-bit halves, so that a mask is a quotient or a remainder), the bit tests, the firmwares |
| `FrameFormat` | the words modules send and how `module` decodes them; blobs of both revisions, and the frames the reader is made for |
| `WordMasks` | the masks of `data_flags` as they stand in the code, compared with the two modules above |
| `Lists` | what a loop over a container adds up, and what it picks out |
| `SequenceLemmas` | induction over numbers and sequences; lemmas about sums, concatenations and `Lists` |
| `MesytecData` | `module_data`, `event` and the MFM frame as operators from old to new values |
| `Transmitter` | crate, connection, parser, reader, converter and main loop composed |
| `EventBuilder` | abstract: readouts in, one event per cycle out |
| `TransmitterMC` | instance for TLC |
| `TransmitterProofs` | theorems: types, what an event holds, frames, the order of what is published |
| `EventBuilderProofs` | theorem: the transmitter implements `EventBuilder` |
| `NarvalReceiver` | the actor, and Narval and the PUB socket around it |
| `EventRelay` | abstract: hands on what it took, in order |
| `NarvalReceiverMC`, `NarvalProofs` | instance for TLC; theorems |
| `RunFileWriter` | `zmq_receiver`, its disk, its starts and its ends |
| `RunFileWriterMC`, `RunFileProofs` | instance for TLC; theorems |
| `BufferReader` | `buffer_reader`, both revisions, word by word |
| `FrameDecoder` | abstract: one event per frame, with its hits |
| `BufferReaderMC`, `BufferReaderProofs` | instances for TLC (which also evaluate `WordMasks`); theorems: types, the pointer, the refinement, the decoding of words |
| `Maps` | functions with a changing domain, for `std::map` |
| `FastLookupMap` | `fast_lookup_map`: ids, vector, largest id, as operators |
| `CrateFile` | the lines of the two text files, and the modules they make |
| `ExperimentalSetup` | `experimental_setup`: both files read line by line |
| `CrateDescription` | abstract: a description of the crate that grows by whole crate maps |
| `ExperimentalSetupMC` | instance for TLC |
| `ExperimentalSetupProofs` | theorems: overruns, iteration, refinement and the detectors' names |
| `Acquisition` | composes `Transmitter`, the way of the frames, and `BufferReader` in an analysis |
| `AcquisitionMC`, `AcquisitionProofs` | instance for TLC; theorems |

Operators under a comment `Mutant` are wrong on purpose: each is a plausible
mistake in the definition that follows it.  No specification uses them.  Put in
the place of that definition, they make one of the properties fail; this shows
that the property says something about the code.

### Transmitter

`event_data_callback` is followed statement by statement where it can be
observed: `pc = "modules"` is the loop over the modules (`SkipModule`,
`ReadTgv`, `ReadScaler`, `ScalerUnknown`, `BeginModule`), `pc = "words"` the
loop over the words (`TakeWord`, `EndModule`), and the end of the callback is
`CollateMore` or `Emit`.  `pc = "parse"` is the parser between two callbacks,
`pc = "recv"` the main loop.  `AbandonBuffer` is the catch clause with `reset()`.
An event and its words carry the readout they come from in a field `origin` that
no operation reads; `handled`, `sent` and `abandoned` are history too.

The environment: the crate reads out stacks 0 .. NStacks-1 in each cycle; mvme
cuts the stream into messages between any two readouts (`Receive(n)`); a prefix
of what is on the wire may be lost; the parser may throw at any readout, `send`
at any frame.  Which of these may happen is the constant `Faults`.  Once
`reset()` has emptied the readout structure, the parser finds no stack and
passes over every readout.  An uninitialised field (timestamp, event counter)
has any value of `Indeterminate`.

Assumed, because the code reads without a test: readouts of the TGV have at least
five words and those of the scalers the twelve that the asserts describe
(`LaidOut`).  Left out: the TGV's status (only logged), parser counters, the
number of words a header announces (only reserves memory), rates.

`CleanEvents` says of the words themselves what may be published, and does not
use the reader's own test for whose fill words are dropped: there is none but
those of an MDPP_CSI.  That there are these is a finding (`NoFillWordPublished`).
`FramesFaithful` says of each word of a blob which one it is: the n-th of the
k-th module with data stands behind the words of the modules before it.

### NarvalReceiver

A call of `process_block` is a sequence of steps from `process_block(size)` to
`Return`, as the transmitter may publish while it runs.  `Recv` and
`RecvTimeout` stand for both places recv is called at.  Size and time of the
calls are Narval's choice.  `process_stop` does not stop the last of the
`MaxRuns` runs, so that the liveness properties speak of a run that goes on.

### RunFileWriter

One pass of the main loop is Recv, Decode, and, if the frame does not fit,
NextFile or SameFile and WriteBuffer, then CopyFrame.  `Kill` may come between
any two of them.  A frame in `BadFrames` is one `mfm_header_decoder` throws at.
A file is a sequence of frames; `ofstream::open` empties it.  `write` is one
step: the stream's own buffer, which a kill could cut in the middle of a frame,
is not modelled.  `FileSizes` gives `filesize*1024*1024`, an int, every value
the build may compute once it overflows.  Frames have any size: before the copy
the code tests nothing again, and a frame larger than the whole buffer passes its
end (`CopyOverrun`).  The machine then stops in `"undefined"`, with the state as it
was before the copy; `BufferFits` says that this is the only cause.

The program has no end of its own, but a killed one that is not started again
stops: the two runs do not check deadlock.

### BufferReader

`FrameFormat!HitWord` is the modules' data format and stands for the
electronics; `get_channel_number` and its like are the code's inverse.  A frame
is a record of modules and hits, `Blob` its words as the transmitter of its
revision wrote them.  The frames of revision 0 hold MDPPs, TGVs and scalers:
the code that wrote them is not in the repository, and revision 0 has no reading
of VMMRs.  Exceptions are caught by the analysis, which goes on with the same
object.

Nothing tests that a frame begins with a header, so the blobs may be any words.
Where revision 1 goes through its pointer before it is set, or the data of a TGV
are decoded with masks that nobody set, the machine stops in `"undefined"`
(`DataUndefinedV1`, `DataUndefinedV0`); revision 0 throws if the id that `mod_data`
was left with is in no crate map (`DataThrowsV0`).  `OneFrameAlone` says what
revision 1 makes of any words, in terms of the frame at hand alone (its
`CutAtHeaders`), and `UndefinedHasCause` which words lead to `"undefined"`.

The words.  `MesytecWords` and `FrameFormat` cut a word with quotients and
remainders, which the provers can reason about; the code uses masks and
divisors.  `WordMasks` holds the code's constants and TLC's bitwise operators;
`MasksAssumption`, evaluated at the start of each run of `BufferReaderMC`, says
that both give the same on words of every top nibble, with every flag and bus
bit set and not, and the boundary values of channel, module and datum.

### ExperimentalSetup

One object reads up to `MaxCalls` files of either kind in any order, line by
line.  `TakeLine` adds an id to the `fast_lookup_map` at once, as the code does;
the modules are added at the end of the file (`FinishMap`), so that an exception
in the middle (`MapLineThrows`) leaves ids behind.  The vector is a number of
slots: the code never compares an id with it, and where it would be reached past
its end the machine goes to `"undefined"` and stops (`FinishMapOverrun`,
`DetectorOverrun`, and `LookUpOverrun` for an id of the data stream); nothing is
claimed of what a build does then.  `OverrunHasCause` says when this happens,
as long as no crate map was given up in the middle: an id is looked up before any
module is stored; a later, faultless crate map has a larger id than all before, for
the vector got its size with the first module (`add_object` then writes past its
end, and nothing throws); or a line names a channel that its module does not have.
The second is a finding (`CrateMapsAreRead`).  After a crate map was given up, the
larger ids that it left behind may also be looked up past the vector; a program
that ends on the exception, like all those of the repository, does not meet that.
`IterationFindsAll` speaks of `"idle"` with no crate map given up, so it says
nothing after an overrun either.  `std::stoi` of a field that begins with
no number throws (`Garbled`); other numbers are cut to 8 bits (`uint8_t`).

### Acquisition

The transmitter with all its faults, a lossy channel that keeps the order, and
an analysis as in `tests/example_analysis.cpp`.  The channel stands for
`zmq_receiver` and its files, or the Narval actor and Narval's files: that those
hand on frames once and in order is what `RunFileWriter` and `NarvalReceiver`
are about (`FilesHoldRun`, `RunInOrder`, `Ledger`, `PublishedOrder`), and each
may lose frames (`LoseFrame`).  The crate's readouts are made of hits (`ReadoutOf`), so that
`HitsReachAnalysis` compares what the electronics had with what the analysis
learned, through every format on the way.  Transmitter and analysis have read the
same crate map (`WiringAssumption`).  What the modules send is a constant; what
`HitsWellFormed` says of it is a hypothesis of a theorem and not of the model.

## 3. What the runs check

| run | bounds | distinct states | result |
|---|---|---|---|
| `Transmitter_lossy` | 2 stacks, 3 cycles, 2 readouts on the wire, 1 exception, and losses | 209997 | `TypeOK`, `CleanEvents`, `InOrderOnce`, `FramesFaithful`, `ImplementsBuilder` hold |
| `Acquisition_hits` | 2 stacks, 2 cycles, 7 modules of all kinds, 1 exception, frames lost, fair | 29134 | `OneCycle`, `HitsReachAnalysis`, `EveryCycleIsAnalysed` hold |
| `Setup_read` | 8 crate maps, 8 detector correspondences, 4 calls | 23381 | `TypeOK`, `IterationFindsAll`, `NamesAsRead`, `OverrunHasCause`, `ImplementsDescription` hold |
| `Narval_relay` | 6 events of 1 to 3 bytes, buffers of 4 or 6, queue of 3, 3 starts, fair | 8333 | `TypeOK`, `Ledger`, `BlockFits`, `PublishedOrder`, `ImplementsRelay`, `AcceptedIsDelivered` hold |
| `RunFile_write` | 9 frames, 8 of 1 to 3 bytes and one of 4, buffer of 3, files of 6, 2 starts, a frame that throws | 11442 | `TypeOK`, `BufferFits`, `CountersAgree`, `FileSizeKept`, `FilesFilled`, `Ledger`, `FilesHoldRun`, `RunInOrder`, `LossBounded` hold |
| `BufferReader_decode` | 3 frames out of 28, of revisions 0, 1 and 2 | 203712 | `TypeOK`, `DataFiledRight`, `OneFrameAlone`, `UndefinedHasCause`, `ImplementsDecoder` hold |
| `Transmitter_fills` | 1 cycle | | `NoFillWordPublished` is violated |
| `Setup_larger` | 2 faultless crate maps out of 4 | | `CrateMapsAreRead` is violated |
| `Transmitter_reset` | 2 cycles, 1 exception, fair | | `NextOneIsTried` is violated |
| `Narval_oversize` | 3 events, one of 9 bytes, buffers of 4 or 6, fair | | `SetAsideIsDelivered` is violated |
| `RunFile_overflow` | int of 4 bits, files of 8 | | `FileSizeKept` is violated |
| `BufferReader_zero` | 2 frames with module 0 | | `EveryModuleIsRead` is violated |

The bounds.  Two stacks are the least that make collation interesting: a first
and a last.  Three cycles let an exception or a loss fall into one, with an
event before and one after it, and with two readouts on the wire a buffer holds part of a cycle, a cycle, or the end of one and the beginning of
the next.  The readouts (`Varied`) hold every kind of module, one that is in no
crate map, scalers whose second module is unknown, modules with data, with a
fill word only, and with nothing.  Narval's six events in buffers that hold one
to four of them fill a buffer exactly, leave one over, time out in the middle,
and cross two stops.  The crate of `Acquisition_hits` has an MDPP of 16 and of 32
channels, an MDPP_CSI, a VMMR, a TGV and both scalers, a module outside the crate
map, fill words and empty modules; its hits have the largest channel and bus and
carry their cycle as datum, so that hits of two cycles differ.  The crate maps
of `Setup_read` hold the documentation's example, an id given twice (also cut to
8 bits), larger ids in a second map, markers only, no file, and a way to fail in
each of the places the code can; four calls read a map, a second one, and names
between and after them.  Nine frames in buffers of 3 and files of 6 bytes reach the
third file, and the second start finds files of the first; one of them is larger than
the buffer.  Ten well-formed frames cover the
firmwares, data types, flags, largest channel, bus and datum, modules without
data, frames that throw before and after a module with data, scaler words that
look like headers when shifted by a module, empty frames, second end markers and
frame headers as markers; three frames in a row suffice, as an object's state
after a frame depends on that frame and the flags before it.  Eighteen more have
words before their first header, or data of a TGV: `FrameDecoder` says of them
what it says of their modules alone, and the reader gives that or stops in
`"undefined"`.

### Fairness

`Transmitter!FairSpec`: the crate keeps triggering (otherwise there is nothing
to publish), a message that is there is received, and the main loop, which has
no wait but the 100 ms of recv, goes on.  No fairness for losses or exceptions.
`NarvalReceiver!FairSpec`: Narval starts the actor and keeps calling
`process_block` while it runs (its contract for an actor), and a call, bounded by
recv's timeout of 500 ms, goes on.  Publication is not fair.
`Acquisition!FairSpecAll`: as for the transmitter, and the analysis takes the
frames that come and reads each to its end, as its loop does; no fairness for
losses.  All of it is weak fairness: none of these steps is disabled by another
part's steps.

### What was found

- `is_mdpp_module` is false for an MDPP_CSI, whose fill words are published as data
  (`Transmitter_fills`).
- A second crate map with a larger id is written past the end of the vector,
  without an exception (`Setup_larger`).
- After one exception the transmitter publishes nothing any more: `reset()`
  empties the callbacks and the readout structure, and nobody fills them again
  (`Transmitter_reset`).
- An event larger than Narval's buffers is set aside for ever and blocks all
  that follow (`Narval_oversize`).
- `--filesize 2048` and above overflow an int (`RunFile_overflow`).
- Data of a module with id 0 are dropped by revision 1 (`BufferReader_zero`).

Besides, without a run that shows it: the event number of a frame is a field that
nobody sets, and so any value of `Indeterminate` (`MfmFrame`), where the converter
calls it the event counter of the end-of-event word; an MDPP's extended timestamp
0x2000tttt is data by revision 1's test and becomes ADC data of channel 0
(`IsDataV1`); a frame larger than 1 MB passes the end of
`zmq_receiver`'s buffer (reached in `RunFile_write`), where no document promises a
limit; files with a higher number that an earlier start left stay on the disk
(`FilesHoldRun` looks at the files up to the current one); `number_of_modules`
counts an id that was described twice twice, as `fast_lookup_map::size` is the
length of the list of ids; and the value of `read_buffer_collate_events` counts the events since the start, where its
documentation speaks of the buffer's (its one caller ignores it).

`OneCycle` needs a connection that loses nothing: with losses, an event may be
closed by a later cycle's last stack.  The code does not detect this, and no
document promises that it does.  What holds with losses is `InOrderOnce` and
`CleanEvents`; what the decoder makes of such a frame is as of any other
(`ImplementsDecoder`).

## 4. What is proved

All theorems hold for every value of the constants under the named assumptions
of the modules, which only give the constants their types and state the layouts
described above.

| theorem | statement |
|---|---|
| `TransmitterProofs!TypeCorrect` | `Spec => []TypeOK` |
| `TransmitterProofs!CleanCorrect` | `Spec => []CleanEvents` |
| `TransmitterProofs!OneCycleCorrect` | without losses, `Spec => []OneCycle` |
| `TransmitterProofs!InOrderCorrect` | `Spec => []InOrderOnce`, with all faults |
| `TransmitterProofs!FramesCorrect` | `Spec => []FramesFaithful`, with all faults |
| `EventBuilderProofs!BuilderCorrect` | `Spec => ImplementsBuilder`, with all faults |
| `AcquisitionProofs!OneCycleCorrectAll` | without losses before the transmitter, `SpecAll => []OneCycle` |
| `AcquisitionProofs!HitsCorrect` | without losses before the transmitter, if `HitsWellFormed`, `SpecAll => []HitsReachAnalysis` and the reader is never in `"undefined"`, with all other faults |
| `BufferReaderProofs!TypeCorrect`, `FilingCorrect` | `Spec =>` always `TypeOK`, `DataFiledRight`, for any words |
| `BufferReaderProofs!PointerCorrect` | `Spec => UndefinedHasCause`, for any words |
| `BufferReaderProofs!MdppHitRead`, `VmmrHitRead` | decoding the word of any hit of an MDPP or a VMMR gives its type, bus, channel and value |
| `BufferReaderProofs!DecoderCorrect` | if `FramesWellFormed`, `Spec => ImplementsDecoder`, and never `"undefined"` |
| `ExperimentalSetupProofs!TypeCorrect`, `IterationCorrect` | `Spec =>` always `TypeOK`, `IterationFindsAll` |
| `ExperimentalSetupProofs!OverrunCorrect` | `Spec => OverrunHasCause` |
| `ExperimentalSetupProofs!DescriptionCorrect` | `Spec => ImplementsDescription` |
| `ExperimentalSetupProofs!NamesCorrect` | `Spec => []NamesAsRead` |
| `NarvalProofs!TypeCorrect`, `LedgerCorrect`, `BlockFitsCorrect`, `OrderCorrect` | `Spec =>` always `TypeOK`, `Ledger`, `BlockFits`, `PublishedOrder` |
| `NarvalProofs!RelayCorrect` | `Spec => ImplementsRelay` |
| `RunFileProofs!TypeCorrect`, `LedgerCorrect`, `BufferFitsCorrect`, `RunOrderCorrect` | `Spec =>` always `TypeOK`, `Ledger`, `BufferFits`, `RunInOrder` |
| `RunFileProofs!CountersCorrect`, `FilesHoldRunCorrect`, `LossCorrect` | `Spec =>` always `CountersAgree`, `FilesHoldRun`, `LossBounded` |
| `RunFileProofs!FileSizeCorrect`, `FilesFilledCorrect` | if `NoOverflow`, `Spec =>` always `FileSizeKept`, `FilesFilled` |

The inductive invariants:

- Transmitter.  `TInv` adds to `TypeOK` that inside a callback the modules still
  to be handled have the layouts the code relies on, and that while words are
  read `mod_data` carries the header of the module at hand and data words only
  (`Reading`).  `CInv` adds that the event being collated is clean already.
  `OInv` adds to `OneCycle` what is in
  flight: as long as nothing was abandoned, the readouts in the buffer and on
  the wire follow each other and the current one without a gap up to the one the
  crate reads out next (`Unbroken`), and the event holds data of the current
  cycle only, none if the last stack was handled (`OfCurrentCycle`).  After an
  abandoned buffer nothing is collated at all.  For the order, `IInv` says that
  what is to come (buffer, wire, crate: `Ahead`) is later, readout by readout, than
  what has been published or is being collated (`Behind`).
  For the frames, `FramesOfEvents`: the frames are those of the events sent, one
  for each, so that a frame's sizes and the place of each word in it follow from what
  an event is.
- EventBuilder.  `BInv` says where the reader is, against the readouts it was
  given whole (`handled`).  Between readouts the event holds what `EventBuilder`
  has begun (`BetweenReadouts`); in the middle of one, the modules done (`d` of
  `Done`) and those to come make up the readout, and the event holds what the
  modules done add to it; in the middle of a module, the words gone by and those
  to come make it up, and `mod_data` holds what is picked out of the words gone by
  (`InModule`).  With these, a step between readouts is the abstract step, and all
  others leave the abstract state alone.
- Acquisition.  Its steps are the transmitter's or leave its variables alone
  (`AllStepsTransmit`), so that the transmitter's invariants are inherited.
  `AInv` adds the types of what is on the way and in the analysis.
- From the crate to the analysis.  `HitsReachAnalysis` joins three arguments.
  `WInv` says of an event that has been published that it is whole: what it holds is
  what all readouts of its cycle add to it, one after the other (`SentWhole`), and of the
  one being collated that it holds those handled so far; it rests on `OInv` and
  `BInv`, and needs a connection that loses nothing.  `EventExplained` says of such
  an event, block by block of each module, that its modules are those of a well
  formed frame that tells an analysis the hits of the cycle (`Explains`), so that
  its blob does (`Shows`).  `HInv` says that the analysis, in the middle of a frame,
  has come so far in one that tells the hits of the frame's cycle (`ReadTold`, with
  `V1State` of `BufferReaderProofs`), and that it has learned those of each frame it
  is done with (`DoneTold`).  That the hits of a published cycle stay what they
  are (`PublishedStays`) is part of it: no readout of that cycle comes later.
- BufferReader.  `IInv` adds to the types how far revision 1 has come in its frame
  (`Position`): so many words were read, and the last header among them, if there
  was one, named the module at the pointer.  If the pointer is unset at a datum,
  there was no header (`UndefinedStep`).  Nothing is assumed of the words.  The decoding theorems are
  arithmetic on the two halves of a word, field by field (`MdppFields`,
  `VmmrAdcFields`, `VmmrTdcFields`).
- FrameDecoder.  `ReadSoFar` says, for either revision, how far the reader has come
  in the frame at hand (`V1State`, `V0State`).  Between two modules (`Between`) there
  are the modules read and those left: the words left are those of the latter,
  and the event holds what `FrameDecoder` makes of the former.  Within a module
  (`Within`) its hits are divided in the same way, and `mod_data` holds its header
  and what the hits gone by are read as.  There is one lemma for a word of each
  revision (`StepV1`, `StepV0`), which rests on the decoding theorems, and
  one for the end of a frame (`EndOfV1`, `EndOfV0`); they speak of constants only, and
  the steps of the machine follow from them.
- ExperimentalSetup.  `Inv` says of a file being read that the modules taken so
  far are what `CrateDescription` makes of its first lines (`MapRead`,
  `DescribedMore`), that the ids listed are those of the modules there are or
  about to be (`Whole`), and that the vector reaches up to the largest id between
  two crate maps (`Roomy`), from which the causes of an overrun follow; the last two hold until a crate map is given up.  For
  the names, `NamedBefore` says the same of the lines read so far as `NamesAsRead`
  of all of them.
- NarvalReceiver.  `Ledger` is inductive once it is known where a message can be
  held: `send_last_event` only between calls, and no block then (`Holding`).
  The refinement follows from `Ledger`: what is delivered is a prefix of what
  was accepted.  For `PublishedOrder`, accepted events, the queue and the next
  event to be published are increasing together (`Ordered`).
- RunFileWriter.  `TypeOK`, `BufferFits` and `Ledger`, with the fact that there
  is a frame in hand while it is decoded, written around, or copied (`Holding`).  For `RunInOrder`,
  what was decoded, the frame in hand, the queue and the next frame to be published
  are increasing (`Ordered`), and what is written is a beginning of it by `Ledger`.
  `CountersAgree` is inductive once there are file numbers enough: with `Ordered`,
  a file was changed no more often than frames were received (`Rolls`).  `Sized` says that
  before the buffer is written it fits into the file, or the file is new.
  `Held` is `Ledger` for a dead program too; with `BufferFits` and `CountersAgree`
  it bounds the loss.

Sums, concatenations and what is picked out of a sequence are folds over data,
and the induction theorems of the library cannot be used with these provers.
`SequenceLemmas` proves induction from finite sets instead: a set of natural
numbers that has 0 and with each number the next is `Nat`
(`LeastNatural`, `Induction`), and so for sequences (`SequenceInduction`).  A
proof takes the set of the sequences that have the property at hand.

Some theorems have a hypothesis about the constants.  `NoOverflow`
(`filesize * MegaByte <= IntMax`) is one of two theorems about file sizes;
`RunFile_overflow` shows that they need it.  `FramesWellFormed` is one of
`DecoderCorrect`: the blob of each frame was made of its modules, and the
modules of the crate have sent (`WellFormed` in `FrameFormat`)

- in revision 1, hits of their kind, fill words and raw words, but no extended
  timestamps, and no data if their id is 0;
- in revision 0, MDPP hits and words that are no hits, with at least one end of
  event or frame header after each module.

Modules outside the crate map may send anything, and frames of other revisions
may hold anything.  What is excluded in revision 1 is what goes wrong: module 0
(`BufferReader_zero`) and extended timestamps.  The frames of `BufferReader_decode`
that are not headless meet the hypothesis (`MixedFramesAssumption`, evaluated by
TLC).

`HitsWellFormed` is the same hypothesis about the modules of the crate, for
`HitsCorrect`: a module the crate map has sends hits as in revision 1, in one block,
or in two of four words each if it is an MVLC scaler, whose words the transmitter
reads at fixed places.  Modules outside the crate map may send anything.  The hits
of `Acquisition_hits` meet it, and TLC evaluates it there.

Only model-checked: liveness (`EveryCycleIsAnalysed`, `AcceptedIsDelivered`),
which is out of the prover's reach; `MasksAssumption`, as bitwise operators
cannot be used in proofs; and `OneFrameAlone`, which says of any words what revision 1
makes of them (`DecoderCorrect` proves it of well-formed frames, in other words).
The other
invariants and the refinements the runs check are proved.

## 5. What is not modelled

- Names of buses, channels, modules and data types, printing, logging, rates,
  command lines, socket options: no property depends on them.  A detector's name
  is modelled as what was read, or none.
- `fast_lookup_map`'s `clear`, copy, move and assignment: no program instantiates
  them, as an `experimental_setup` cannot be copied or moved.
- The mesytec-mvlc parser, mvme, ZeroMQ, Narval: external, as described above.
- Memory beyond the buffers: an event over 4 MB in the transmitter, and what follows
  once `zmq_receiver` has passed the end of its buffer or a vector has been passed.
- The number of words a module header announces: it only reserves memory.
- Tests (but for the example's main loop), build and documentation: nothing that
  runs in a measurement.

## 6. Plan

Done, in this order: `MesytecWords`, `MesytecData`, `Transmitter` with its
abstract specification and proofs; `NarvalReceiver` and `EventRelay` with
proofs; `RunFileWriter` with proofs; `FrameFormat`, `BufferReader` and
`FrameDecoder`; `ExperimentalSetup` and what it is made of, with proofs;
`Acquisition`, from the crate to the analysis; the proofs about `BufferReader`,
the order of events, and the decoding of words; `WordMasks`; the proofs about what
frames and events hold, that `Transmitter` implements `EventBuilder` and
`BufferReader` `FrameDecoder`, about files and losses, and about the hits from
the crate to the analysis.

What is left:

1. `Acquisition` with `RunFileWriter` in the place of its lossy channel: the two
   are joined by argument only.
2. A `write` that a kill cuts in the middle of a frame, and how a reader of the
   file finds the next frame.
3. What the analysis learns when the connection loses readouts: order at the
   transmitter (`InOrderOnce`) and the decoder (`ImplementsDecoder`) are joined by
   argument only.
