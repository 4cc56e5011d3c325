--------------------------- MODULE RunFileWriter ---------------------------
(***************************************************************************)
(* execs/zmq_receiver.cpp: writes the frames published by the transmitter  *)
(* to the files of a run, mesytec_run_N.dat, .dat.1, .dat.2 and so on.     *)
(*                                                                         *)
(* Frames are gathered in a buffer, and the buffer is written when the     *)
(* next frame does not fit; a file that a buffer would take beyond its     *)
(* size is closed first.  The program has no end: it is killed, or a       *)
(* message that is no mesytec frame makes it throw; what is in the buffer  *)
(* is then lost.  Started again for the same run, it begins again with the *)
(* first file, and finds the files of the last time.                       *)
(***************************************************************************)
EXTENDS Lists

CONSTANTS
  MaxFrames,      \* bound: frames published
  MaxStarts,      \* bound: times the program is started
  QueueMax,       \* messages the SUB socket holds
  FrameSize,      \* function: the size in bytes of each frame
  BadFrames,      \* messages the decoder throws at
  buffer_size,
  filesize,       \* the --filesize option
  MegaByte,       \* 1024*1024
  IntMax,         \* the largest int
  Uint64Max       \* the largest uint64_t

FrameId == 1 .. MaxFrames
NoFrame == 0

ASSUME SizesAssumption ==
  /\ MaxFrames \in Nat /\ MaxStarts \in Nat /\ QueueMax \in Nat \ {0}
  /\ buffer_size \in Nat /\ filesize \in Nat /\ MegaByte \in Nat
  /\ IntMax \in Nat /\ Uint64Max \in Nat /\ IntMax < Uint64Max
  /\ BadFrames \subseteq FrameId

ASSUME FrameAssumption == FrameSize \in [FrameId -> Nat]

\* uint64_t file_size = filesize*1024*1024: the product is an int.  When it
\* overflows, the build may wrap it around or compute it in a wider register;
\* a negative int becomes a large uint64_t.
Wrapped(n) == LET w == n % (2 * (IntMax + 1))
              IN  IF w <= IntMax THEN w ELSE Uint64Max + 1 + w - 2 * (IntMax + 1)
FileSizes == LET n == filesize * MegaByte
             IN  IF n <= IntMax THEN {n} ELSE {n, Wrapped(n)}

VARIABLES
  next_frame,        \* what the transmitter publishes next
  queue,             \* messages waiting in the socket
  starts,
  pc,                \* "dead", where the main loop is, or "undefined"
  event,
  buffer, buffer_used, frames_in_buffer,
  file_size, file_used, file_index,
  files,             \* the contents of the files on the disk, by index
  received,          \* history: the frames decoded since the start
  written            \* history: the frames written since the start

ram == <<buffer, buffer_used, frames_in_buffer>>
disk == <<files, written>>
vars == <<next_frame, queue, starts, pc, event, ram, file_size, file_used, file_index,
          disk, received>>

\* No file is opened more often than a frame is decoded.
FileIndex == 0 .. MaxFrames

Init ==
  /\ next_frame = 1
  /\ queue = <<>>
  /\ starts = 0
  /\ pc = "dead"
  /\ event = NoFrame
  /\ buffer = <<>> /\ buffer_used = 0 /\ frames_in_buffer = 0
  /\ file_size = 0 /\ file_used = 0 /\ file_index = 0
  /\ files = [i \in FileIndex |-> <<>>]
  /\ received = <<>>
  /\ written = <<>>

-----------------------------------------------------------------------------
(* The transmitter's PUB socket drops what it cannot deliver. *)
Publish ==
  /\ next_frame \in FrameId
  /\ next_frame' = next_frame + 1
  /\ queue' = IF pc # "dead" /\ Len(queue) < QueueMax
              THEN Append(queue, next_frame) ELSE queue
  /\ UNCHANGED <<starts, pc, event, ram, file_size, file_used, file_index, disk, received>>

\* Mutant: the file is opened for appending.
OpenedToAppend(i) == files

\* ofstream::open for writing empties the file.
Opened(i) == [files EXCEPT ![i] = <<>>]

\* main, up to the loop: the first file is opened and so emptied.
Start ==
  /\ pc = "dead" /\ starts < MaxStarts
  /\ starts' = starts + 1
  /\ pc' = "recv"
  /\ queue' = <<>>
  /\ event' = NoFrame
  /\ buffer' = <<>> /\ buffer_used' = 0 /\ frames_in_buffer' = 0
  /\ file_size' \in FileSizes
  /\ file_used' = 0 /\ file_index' = 0
  /\ files' = Opened(0)
  /\ received' = <<>>
  /\ written' = <<>>
  /\ UNCHANGED next_frame

Die ==
  /\ pc' = "dead"
  /\ queue' = <<>>
  /\ UNCHANGED <<next_frame, starts, event, ram, file_size, file_used, file_index,
                 disk, received>>

Kill == pc \notin {"dead", "undefined"} /\ Die

-----------------------------------------------------------------------------
(* The main loop *)

RecvTimeout ==
  /\ pc = "recv" /\ queue = <<>>
  /\ UNCHANGED vars

Recv ==
  /\ pc = "recv" /\ queue # <<>>
  /\ event' = Head(queue)
  /\ queue' = Tail(queue)
  /\ pc' = "decode"
  /\ UNCHANGED <<next_frame, starts, ram, file_size, file_used, file_index, disk, received>>

\* mfm_header_decoder; nothing catches what it throws.
DecodeThrows ==
  /\ pc = "decode" /\ event \in BadFrames
  /\ Die

\* Mutant: the frame at hand does not count.
NoRoomLeft == buffer_used > buffer_size

NoRoom == buffer_used + FrameSize[event] > buffer_size

Decode ==
  /\ pc = "decode" /\ event \notin BadFrames
  /\ received' = Append(received, event)
  /\ pc' = IF NoRoom THEN "full" ELSE "copy"
  /\ UNCHANGED <<next_frame, queue, starts, event, ram, file_size, file_used, file_index,
                 disk>>

\* Mutants: the buffer at hand does not count; megabytes are taken for bytes.
FileWasFull == file_used > file_size
FileFullEarly == file_used + buffer_used > filesize

FileFull == file_used + buffer_used > file_size

\* Mutant: the new file's size is not reset.
NextFileKeepsSize ==
  /\ pc = "full" /\ FileFull
  /\ file_index' = file_index + 1
  /\ files' = Opened(file_index + 1)
  /\ pc' = "write"
  /\ UNCHANGED <<next_frame, queue, starts, event, ram, file_size, file_used, written,
                 received>>

NextFile ==
  /\ pc = "full" /\ FileFull
  /\ file_index' = file_index + 1
  /\ file_used' = 0
  /\ files' = Opened(file_index + 1)
  /\ pc' = "write"
  /\ UNCHANGED <<next_frame, queue, starts, event, ram, file_size, written, received>>

SameFile ==
  /\ pc = "full" /\ ~FileFull
  /\ pc' = "write"
  /\ UNCHANGED <<next_frame, queue, starts, event, ram, file_size, file_used, file_index,
                 disk, received>>

\* Mutants: the frame that did not fit is dropped; the size counts down; the
\* buffer is taken for empty and is not.
WriteAndForget ==
  /\ pc = "write"
  /\ files' = [files EXCEPT ![file_index] = @ \o buffer]
  /\ written' = written \o buffer
  /\ file_used' = file_used + buffer_used
  /\ buffer' = <<>> /\ buffer_used' = 0 /\ frames_in_buffer' = 0
  /\ pc' = "recv"
  /\ UNCHANGED <<next_frame, queue, starts, event, file_size, file_index, received>>
WriteAndCountDown ==
  /\ pc = "write"
  /\ files' = [files EXCEPT ![file_index] = @ \o buffer]
  /\ written' = written \o buffer
  /\ file_used' = file_used - buffer_used
  /\ buffer' = <<>> /\ buffer_used' = 0 /\ frames_in_buffer' = 0
  /\ pc' = "copy"
  /\ UNCHANGED <<next_frame, queue, starts, event, file_size, file_index, received>>

WriteAndKeep ==
  /\ pc = "write"
  /\ files' = [files EXCEPT ![file_index] = @ \o buffer]
  /\ written' = written \o buffer
  /\ file_used' = file_used + buffer_used
  /\ buffer_used' = 0 /\ frames_in_buffer' = 0
  /\ pc' = "copy"
  /\ UNCHANGED <<next_frame, queue, starts, event, buffer, file_size, file_index, received>>

WriteBuffer ==
  /\ pc = "write"
  /\ files' = [files EXCEPT ![file_index] = @ \o buffer]
  /\ written' = written \o buffer
  /\ file_used' = file_used + buffer_used
  /\ buffer' = <<>> /\ buffer_used' = 0 /\ frames_in_buffer' = 0
  /\ pc' = "copy"
  /\ UNCHANGED <<next_frame, queue, starts, event, file_size, file_index, received>>

\* Nothing is tested again before the copy: a frame larger than the whole
\* buffer does not fit into the empty one either.
PastTheEnd == buffer_used + FrameSize[event] > buffer_size

CopyFrame ==
  /\ pc = "copy" /\ ~PastTheEnd
  /\ buffer' = Append(buffer, event)
  /\ buffer_used' = buffer_used + FrameSize[event]
  /\ frames_in_buffer' = frames_in_buffer + 1
  /\ pc' = "recv"
  /\ UNCHANGED <<next_frame, queue, starts, event, file_size, file_used, file_index,
                 disk, received>>

\* memcpy runs past the end of the buffer.  The program is followed no
\* further: the state is the one before the copy.
CopyOverrun ==
  /\ pc = "copy" /\ PastTheEnd
  /\ pc' = "undefined"
  /\ UNCHANGED <<next_frame, queue, starts, event, ram, file_size, file_used, file_index,
                 disk, received>>

Next ==
  \/ Publish \/ Start \/ Kill
  \/ RecvTimeout \/ Recv \/ DecodeThrows \/ Decode
  \/ NextFile \/ SameFile \/ WriteBuffer
  \/ CopyFrame \/ CopyOverrun

Spec == Init /\ [][Next]_vars

-----------------------------------------------------------------------------
Bytes(s) == SumOf([i \in DOMAIN s |-> FrameSize[s[i]]])

\* The frame decoded and not yet in the buffer.
InHand == IF pc \in {"full", "write", "copy", "undefined"} THEN <<event>> ELSE <<>>

(* The state's types. *)
TypeOK ==
  /\ next_frame \in Nat
  /\ queue \in Seq(FrameId)
  /\ starts \in Nat
  /\ pc \in {"dead", "recv", "decode", "full", "write", "copy", "undefined"}
  /\ event \in FrameId \cup {NoFrame}
  /\ buffer \in Seq(FrameId)
  /\ buffer_used \in Nat
  /\ frames_in_buffer \in Nat
  /\ file_size \in Nat
  /\ file_used \in Nat
  /\ file_index \in Nat
  /\ files \in [FileIndex -> Seq(FrameId)]
  /\ received \in Seq(FrameId)
  /\ written \in Seq(FrameId)

(* Every frame decoded is on the disk, in the buffer or in hand, once and   *)
(* in order, through flushes and changes of file.                           *)
Ledger == pc # "dead" => received = (written \o buffer) \o InHand

(* What was written since the start is what a reader of the run finds in    *)
(* the files up to the current one: a file left over from an earlier start  *)
(* is emptied before it is part of the run.                                 *)
FilesHoldRun ==
  starts > 0 => written = FlattenSeq([i \in 1 .. file_index + 1 |-> files[i - 1]])

(* A run's files never hold a frame twice, nor one published before another *)
(* that stands before it, whatever the socket dropped, however the buffer   *)
(* was flushed and the file changed, also once the program was killed.      *)
RunInOrder ==
  \A i, j \in DOMAIN written : i < j => written[i] < written[j]

(* What is in the buffer never reaches beyond its end, and the copy runs    *)
(* past the end only for a frame that is larger than the whole buffer, not  *)
(* because of what the buffer held when the frame came: the frame that does *)
(* not fit is copied when the buffer has been written and is empty again.   *)
BufferFits ==
  /\ buffer_used <= buffer_size
  /\ pc = "undefined" => FrameSize[event] > buffer_size

(* buffer_used and frames_in_buffer say what is in the buffer, and          *)
(* file_used what is in the file, so that write and the test of the file's  *)
(* size go by what is there.                                                *)
CountersAgree ==
  /\ buffer_used = Bytes(buffer)
  /\ frames_in_buffer = Len(buffer)
  /\ starts > 0 => file_used = Bytes(files[file_index])

(* "file size [MB]" (the --filesize option): no file of the run is larger,  *)
(* unless it is a single buffer that is.                                    *)
FileSizeKept ==
  \A i \in 0 .. file_index :
    \/ Bytes(files[i]) <= filesize * MegaByte
    \/ Bytes(files[i]) <= buffer_size

(* A file is closed only when the next buffer would not have fitted: the    *)
(* run is not scattered over more files than it needs.                      *)
FilesFilled ==
  \A i \in 0 .. file_index - 1 : Bytes(files[i]) + buffer_size > filesize * MegaByte

(* A killed or terminated program loses no more than a buffer and the frame *)
(* in hand: the files hold the beginning of what was received.              *)
LossBounded ==
  /\ IsPrefix(written, received)
  /\ Bytes(received) <= Bytes(written) + buffer_size
                          + (IF event = NoFrame THEN 0 ELSE FrameSize[event])
=============================================================================
