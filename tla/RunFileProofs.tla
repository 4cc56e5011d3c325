--------------------------- MODULE RunFileProofs ---------------------------
(***************************************************************************)
(* Theorems about RunFileWriter, for every number of frames and starts,    *)
(* all frame sizes and every size of the buffer and of the files.          *)
(***************************************************************************)
EXTENDS RunFileWriter, SequenceLemmas

-----------------------------------------------------------------------------
\* The frame in hand is one the decoder let pass; before it is written the
\* buffer may be too full for it.
Holding == pc \in {"decode", "full", "write", "copy", "undefined"} => event \in FrameId

\* A frame is copied to where it was found to fit, or to an empty buffer.
Ready == pc = "copy" => buffer_used = 0 \/ ~PastTheEnd

Inv == TypeOK /\ Holding /\ Ready /\ BufferFits /\ Ledger

LEMMA FileSizesType == FileSizes \subseteq Nat
<1>1. filesize * MegaByte \in Nat
  BY SizesAssumption
<1>2. Wrapped(filesize * MegaByte) \in Nat
  <2> DEFINE w == (filesize * MegaByte) % (2 * (IntMax + 1))
  <2>1. w \in 0 .. 2 * (IntMax + 1) - 1
    BY <1>1, SizesAssumption
  <2> HIDE DEF w
  <2>2. w > IntMax => Uint64Max + 1 + w - 2 * (IntMax + 1) \in Nat
    BY <2>1, SizesAssumption
  <2> QED
    BY <2>1, <2>2, SizesAssumption DEF Wrapped, w
<1> QED
  BY <1>1, <1>2 DEF FileSizes

LEMMA InitInv == Init => Inv
<1> SUFFICES ASSUME Init PROVE Inv
  OBVIOUS
<1>1. TypeOK
  <2>1. <<>> \in Seq(FrameId)
    OBVIOUS
  <2> QED
    BY <2>1 DEF Init, TypeOK
<1>2. buffer_used <= buffer_size
  BY SizesAssumption DEF Init
<1> QED
  BY <1>1, <1>2 DEF Init, Inv, Holding, Ready, BufferFits, Ledger

LEMMA FrameFits ==
  ASSUME NEW f \in FrameId
  PROVE  FrameSize[f] \in Nat
BY FrameAssumption

LEMMA StepType ==
  ASSUME Inv, [Next]_vars
  PROVE  TypeOK' /\ Holding' /\ Ready' /\ BufferFits'
<1> USE DEF Inv
<1>1. CASE Publish
  <2>1. next_frame \in FrameId /\ queue \in Seq(FrameId)
    BY <1>1 DEF Publish, TypeOK
  <2>2. queue' \in Seq(FrameId)
    BY <1>1, <2>1, AppendProperties DEF Publish
  <2> QED
    BY <1>1, <2>2 DEF Publish, TypeOK, Holding, Ready, PastTheEnd, BufferFits, ram, disk
<1>2. CASE Start
  <2>1. file_size' \in Nat
    BY <1>2, FileSizesType DEF Start
  <2>2. <<>> \in Seq(FrameId)
    OBVIOUS
  <2>3. files' \in [FileIndex -> Seq(FrameId)]
    BY <1>2, <2>2 DEF Start, Opened, TypeOK
  <2>4. TypeOK'
    BY <1>2, <2>1, <2>2, <2>3 DEF Start, TypeOK
  <2>5. Holding' /\ Ready' /\ BufferFits'
    BY <1>2, SizesAssumption DEF Start, Holding, Ready, PastTheEnd, BufferFits
  <2> QED
    BY <2>4, <2>5
<1>3. CASE Kill \/ DecodeThrows
  <2>1. /\ pc' = "dead" /\ queue' = <<>>
        /\ UNCHANGED <<next_frame, starts, event, buffer, buffer_used, frames_in_buffer>>
        /\ UNCHANGED <<file_size, file_used, file_index, files, written, received>>
    BY <1>3 DEF Kill, DecodeThrows, Die, ram, disk
  <2> QED
    BY <2>1 DEF TypeOK, Holding, Ready, PastTheEnd, BufferFits
<1>4. CASE RecvTimeout \/ UNCHANGED vars
  <2>1. /\ UNCHANGED <<next_frame, queue, starts, pc, event, buffer, buffer_used>>
        /\ UNCHANGED <<frames_in_buffer, file_size, file_used, file_index, files>>
        /\ UNCHANGED <<written, received>>
    BY <1>4 DEF RecvTimeout, vars, ram, disk
  <2> QED
    BY <2>1 DEF TypeOK, Holding, Ready, PastTheEnd, BufferFits
<1>5. CASE Recv
  <2>1. Head(queue) \in FrameId /\ Tail(queue) \in Seq(FrameId)
    BY <1>5, HeadTailProperties DEF Recv, TypeOK
  <2> QED
    BY <1>5, <2>1 DEF Recv, TypeOK, Holding, Ready, PastTheEnd, BufferFits, ram, disk
<1>6. CASE Decode
  <2>1. event \in FrameId /\ received \in Seq(FrameId)
    BY <1>6 DEF Decode, Holding, TypeOK
  <2>2. received' \in Seq(FrameId)
    BY <1>6, <2>1, AppendProperties DEF Decode
  <2>3. TypeOK' /\ Holding'
    BY <1>6, <2>1, <2>2 DEF Decode, TypeOK, Holding, ram, disk
  <2>4. Ready' /\ BufferFits'
    BY <1>6, <2>1 DEF Decode, NoRoom, PastTheEnd, Ready, BufferFits, ram
  <2> QED
    BY <2>3, <2>4
<1>7. CASE NextFile
  <2>1. files' \in [FileIndex -> Seq(FrameId)]
    <3>1. <<>> \in Seq(FrameId)
      OBVIOUS
    <3> QED
      BY <1>7, <3>1 DEF NextFile, Opened, TypeOK
  <2> QED
    BY <1>7, <2>1 DEF NextFile, TypeOK, Holding, Ready, PastTheEnd, BufferFits, ram
<1>8. CASE SameFile
  BY <1>8 DEF SameFile, TypeOK, Holding, Ready, PastTheEnd, BufferFits, ram, disk
<1>9. CASE WriteBuffer
  <2>1. buffer \in Seq(FrameId) /\ written \in Seq(FrameId) /\ event \in FrameId
    BY <1>9 DEF WriteBuffer, TypeOK, Holding
  <2>2. written' \in Seq(FrameId)
    BY <1>9, <2>1, ConcatProperties DEF WriteBuffer
  <2>3. files' \in [FileIndex -> Seq(FrameId)]
    <3>1. file_index \in FileIndex => files[file_index] \o buffer \in Seq(FrameId)
      BY <2>1, ConcatProperties DEF TypeOK
    <3> QED
      BY <1>9, <3>1 DEF WriteBuffer, TypeOK
  <2>4. TypeOK' /\ Holding'
    BY <1>9, <2>1, <2>2, <2>3 DEF WriteBuffer, TypeOK, Holding
  <2>5. Ready' /\ BufferFits'
    BY <1>9, SizesAssumption DEF WriteBuffer, Ready, BufferFits
  <2> QED
    BY <2>4, <2>5
<1>10. CASE CopyFrame
  <2>1. event \in FrameId /\ buffer \in Seq(FrameId)
    BY <1>10 DEF CopyFrame, Holding, TypeOK
  <2>2. buffer' \in Seq(FrameId)
    BY <1>10, <2>1, AppendProperties DEF CopyFrame
  <2>3. buffer_used' \in Nat /\ buffer_used' <= buffer_size
    BY <1>10, <2>1, FrameFits, SizesAssumption DEF CopyFrame, PastTheEnd, TypeOK
  <2> QED
    BY <1>10, <2>2, <2>3 DEF CopyFrame, TypeOK, Holding, Ready, PastTheEnd, BufferFits, disk
<1>11. CASE CopyOverrun
  <2>1. event \in FrameId /\ FrameSize[event] \in Nat /\ buffer_size \in Nat
    BY <1>11, FrameFits, SizesAssumption DEF CopyOverrun, Holding
  <2>2. FrameSize[event] > buffer_size
    BY <1>11, <2>1 DEF CopyOverrun, PastTheEnd, Ready
  <2> QED
    BY <1>11, <2>1, <2>2 DEF CopyOverrun, TypeOK, Holding, Ready, BufferFits, ram, disk
<1> QED
  BY <1>1, <1>2, <1>3, <1>4, <1>5, <1>6, <1>7, <1>8, <1>9, <1>10, <1>11 DEF Next

LEMMA StepLedger ==
  ASSUME Inv, [Next]_vars
  PROVE  Ledger'
<1> USE DEF Inv
<1>1. /\ received \in Seq(FrameId) /\ written \in Seq(FrameId) /\ buffer \in Seq(FrameId)
  BY DEF TypeOK
<1>2. written \o buffer \in Seq(FrameId)
  BY <1>1, ConcatProperties
<1>3. CASE Start
  <2>1. /\ received' = <<>> /\ written' = <<>> /\ buffer' = <<>> /\ InHand' = <<>>
    BY <1>3 DEF Start, InHand
  <2>2. <<>> \in Seq(FrameId)
    OBVIOUS
  <2>3. (written' \o buffer') \o InHand' = <<>>
    BY <2>1, <2>2, ConcatEmptySeq
  <2> QED
    BY <2>1, <2>3 DEF Ledger
<1>4. CASE Kill \/ DecodeThrows
  BY <1>4 DEF Kill, DecodeThrows, Die, Ledger
<1>5. CASE Publish \/ RecvTimeout \/ Recv \/ UNCHANGED vars
  <2>1. UNCHANGED <<received, written, buffer>>
    BY <1>5 DEF Publish, RecvTimeout, Recv, vars, ram, disk
  <2>2. (pc' = "dead") <=> (pc = "dead")
    BY <1>5 DEF Publish, RecvTimeout, Recv, vars
  <2>3. InHand' = InHand
    BY <1>5 DEF Publish, RecvTimeout, Recv, vars, InHand
  <2> QED
    BY <2>1, <2>2, <2>3 DEF Ledger
<1>6. CASE NextFile \/ SameFile
  <2>1. UNCHANGED <<received, written, buffer>>
    BY <1>6 DEF NextFile, SameFile, ram, disk
  <2>2. pc = "full" /\ pc' = "write" /\ event' = event
    BY <1>6 DEF NextFile, SameFile
  <2>3. InHand' = InHand
    BY <2>2 DEF InHand
  <2> QED
    BY <2>1, <2>2, <2>3 DEF Ledger
<1>7. CASE Decode
  <2>1. event \in FrameId /\ pc # "dead"
    BY <1>7 DEF Decode, Holding
  <2>2. InHand = <<>> /\ InHand' = <<event>>
    BY <1>7 DEF Decode, InHand
  <2>3. received = written \o buffer
    BY <1>2, <2>1, <2>2, ConcatEmptySeq DEF Ledger
  <2>4. received' = received \o <<event>>
    BY <1>1, <1>7, <2>1, AppendIsConcat DEF Decode
  <2> QED
    BY <1>7, <2>2, <2>3, <2>4 DEF Decode, Ledger, ram, disk
<1>8. CASE WriteBuffer
  <2>1. pc # "dead" /\ InHand' = InHand
    BY <1>8 DEF WriteBuffer, InHand
  <2>2. written' \o buffer' = written \o buffer
    BY <1>2, <1>8, ConcatEmptySeq DEF WriteBuffer
  <2> QED
    BY <1>8, <2>1, <2>2 DEF WriteBuffer, Ledger
<1>9. CASE CopyFrame
  <2>1. event \in FrameId /\ <<event>> \in Seq(FrameId) /\ pc # "dead"
    BY <1>9 DEF CopyFrame, Holding
  <2>2. InHand = <<event>> /\ InHand' = <<>>
    BY <1>9 DEF CopyFrame, InHand
  <2>3. buffer' = buffer \o <<event>> /\ buffer' \in Seq(FrameId)
    BY <1>1, <1>9, <2>1, AppendIsConcat, AppendProperties DEF CopyFrame
  <2>4. (written \o buffer) \o <<event>> = received
    BY <2>1, <2>2 DEF Ledger
  <2>5. written \o (buffer \o <<event>>) = (written \o buffer) \o <<event>>
    BY <1>1, <2>1, ConcatAssociative
  <2>6. written \o buffer' = received
    BY <2>3, <2>4, <2>5
  <2>7. (written \o buffer') \o <<>> = received
    BY <1>1, <2>6, ConcatEmptySeq
  <2> QED
    BY <1>9, <2>2, <2>7 DEF CopyFrame, Ledger, disk
<1>10. CASE CopyOverrun
  <2>1. UNCHANGED <<received, written, buffer>> /\ InHand' = InHand /\ pc # "dead"
    BY <1>10 DEF CopyOverrun, InHand, ram, disk
  <2> QED
    BY <2>1 DEF Ledger
<1> QED
  BY <1>3, <1>4, <1>5, <1>6, <1>7, <1>8, <1>9, <1>10 DEF Next

LEMMA StepInv == Inv /\ [Next]_vars => Inv'
BY StepType, StepLedger DEF Inv

(* The state has its types in every reachable state.                        *)
THEOREM TypeCorrect == Spec => []TypeOK
<1>1. Inv => TypeOK
  BY DEF Inv
<1> QED
  BY <1>1, InitInv, StepInv, PTL DEF Spec

(* Between decoding and the disk no frame is lost, doubled or moved, for    *)
(* all sizes of frames, buffer and files.                                   *)
THEOREM LedgerCorrect == Spec => []Ledger
<1>1. Inv => Ledger
  BY DEF Inv
<1> QED
  BY <1>1, InitInv, StepInv, PTL DEF Spec

(* memcpy stays in the buffer, except for a frame that is larger than the   *)
(* whole buffer, for all sizes of frames and of the buffer.                 *)
THEOREM BufferFitsCorrect == Spec => []BufferFits
<1>1. Inv => BufferFits
  BY DEF Inv
<1> QED
  BY <1>1, InitInv, StepInv, PTL DEF Spec

-----------------------------------------------------------------------------
(* Order *)

Increasing(s) == \A i, j \in 1 .. Len(s) : i < j => s[i] < s[j]
AllBelow(s, n) == \A i \in 1 .. Len(s) : s[i] < n
AllAbove(n, s) == \A j \in 1 .. Len(s) : n < s[j]

\* What was decoded came before the message at hand, that before what waits,
\* and all of it before what is still to be published.
Ordered ==
  /\ Increasing(written) /\ Increasing(received) /\ Increasing(queue)
  /\ AllBelow(received, next_frame) /\ AllBelow(queue, next_frame)
  /\ \A i \in 1 .. Len(received) : AllAbove(received[i], queue)
  /\ pc = "decode" =>
       AllBelow(received, event) /\ event < next_frame /\ AllAbove(event, queue)

LEMMA FrameNumbers == FrameId \subseteq Nat
BY SizesAssumption DEF FrameId

LEMMA Numbers ==
  ASSUME Inv
  PROVE  received \in Seq(Nat) /\ queue \in Seq(Nat) /\ next_frame \in Nat
<1>1. received \in Seq(FrameId) /\ queue \in Seq(FrameId) /\ next_frame \in Nat
  BY DEF Inv, TypeOK
<1> QED
  BY <1>1, FrameNumbers, SeqMonotonic, Zenon

LEMMA IncreasingAppend ==
  ASSUME NEW s \in Seq(Nat), NEW n \in Nat, Increasing(s), AllBelow(s, n)
  PROVE  /\ Increasing(Append(s, n))
         /\ \A m \in Nat : AllBelow(s, m) /\ n < m => AllBelow(Append(s, n), m)
         /\ \A q : (\A i \in 1 .. Len(s) : AllAbove(s[i], q)) /\ AllAbove(n, q)
              => \A i \in 1 .. Len(Append(s, n)) : AllAbove(Append(s, n)[i], q)
<1> DEFINE t == Append(s, n)
<1>1. /\ Len(s) \in Nat /\ Len(t) = Len(s) + 1 /\ t[Len(s) + 1] = n
      /\ \A i \in 1 .. Len(s) : t[i] = s[i]
  BY AppendProperties
<1> HIDE DEF t
<1>2. \A i \in 1 .. Len(t) : i \in 1 .. Len(s) \/ i = Len(s) + 1
  BY <1>1
<1>3. Increasing(t)
  <2> SUFFICES ASSUME NEW i \in 1 .. Len(t), NEW j \in 1 .. Len(t), i < j
               PROVE  t[i] < t[j]
    BY DEF Increasing
  <2>1. i \in 1 .. Len(s)
    BY <1>1
  <2>2. CASE j = Len(s) + 1
    BY <1>1, <2>1, <2>2 DEF AllBelow
  <2>3. CASE j \in 1 .. Len(s)
    BY <1>1, <2>1, <2>3 DEF Increasing
  <2> QED
    BY <1>2, <2>2, <2>3
<1>4. \A m \in Nat : AllBelow(s, m) /\ n < m => AllBelow(t, m)
  BY <1>1, <1>2 DEF AllBelow
<1>5. ASSUME NEW q, \A i \in 1 .. Len(s) : AllAbove(s[i], q), AllAbove(n, q),
             NEW i \in 1 .. Len(t)
      PROVE  AllAbove(t[i], q)
  <2>1. CASE i = Len(s) + 1
    BY <1>1, <1>5, <2>1
  <2>2. CASE i \in 1 .. Len(s)
    BY <1>1, <1>5, <2>2
  <2> QED
    BY <1>2, <2>1, <2>2
<1> QED
  BY <1>3, <1>4, <1>5 DEF t

\* The beginning of an increasing sequence.
LEMMA IncreasingFront ==
  ASSUME NEW s \in Seq(FrameId), NEW t \in Seq(FrameId), Increasing(s \o t)
  PROVE  Increasing(s)
<1>1. /\ Len(s) \in Nat /\ Len(t) \in Nat /\ Len(s \o t) = Len(s) + Len(t)
      /\ \A i \in 1 .. Len(s) : (s \o t)[i] = s[i]
  BY ConcatProperties
<1>2. \A i \in 1 .. Len(s) : i \in 1 .. Len(s \o t)
  BY <1>1
<1> QED
  BY <1>1, <1>2 DEF Increasing

LEMMA StepOrdered ==
  ASSUME Inv, Ordered, [Next]_vars
  PROVE  Ordered'
<1>0. /\ received \in Seq(Nat) /\ queue \in Seq(Nat) /\ next_frame \in Nat
      /\ Len(received) \in Nat /\ Len(queue) \in Nat
  BY Numbers
<1>1. /\ \A i \in 1 .. Len(received) : received[i] \in Nat
      /\ \A i \in 1 .. Len(queue) : queue[i] \in Nat
  BY <1>0
<1>2. CASE Publish
  <2>1. /\ UNCHANGED <<pc, event, written, received>> /\ next_frame' = next_frame + 1
        /\ queue' = queue \/ queue' = Append(queue, next_frame)
    BY <1>2 DEF Publish, disk
  <2>2. ASSUME NEW s \in Seq(Nat), AllBelow(s, next_frame) PROVE AllBelow(s, next_frame + 1)
    <3>1. \A i \in 1 .. Len(s) : s[i] \in Nat
      OBVIOUS
    <3> QED
      BY <1>0, <2>2, <3>1 DEF AllBelow
  <2>3. AllBelow(received, next_frame + 1) /\ AllBelow(queue, next_frame + 1)
    BY <1>0, <2>2 DEF Ordered
  <2>4. pc = "decode" => event \in Nat
    BY FrameNumbers DEF Inv, Holding
  <2>5. pc = "decode" => event < next_frame + 1
    BY <1>0, <2>4 DEF Ordered
  <2>6. CASE queue' = queue
    BY <2>1, <2>3, <2>5, <2>6 DEF Ordered
  <2>7. CASE queue' = Append(queue, next_frame)
    <3>1. Increasing(queue') /\ AllBelow(queue', next_frame + 1)
      BY <1>0, <2>3, <2>7, IncreasingAppend DEF Ordered
    <3>2. /\ Len(queue') = Len(queue) + 1 /\ queue'[Len(queue) + 1] = next_frame
          /\ \A j \in 1 .. Len(queue) : queue'[j] = queue[j]
      BY <1>0, <2>7, AppendProperties
    <3>3. \A j \in 1 .. Len(queue') : j \in 1 .. Len(queue) \/ j = Len(queue) + 1
      BY <1>0, <3>2
    <3>4. ASSUME NEW n, n < next_frame, AllAbove(n, queue) PROVE AllAbove(n, queue')
      BY <3>2, <3>3, <3>4 DEF AllAbove
    <3>5. \A i \in 1 .. Len(received) : AllAbove(received[i], queue')
      BY <3>4 DEF Ordered, AllBelow
    <3>6. pc = "decode" => AllAbove(event, queue')
      BY <3>4 DEF Ordered
    <3> QED
      BY <2>1, <2>3, <2>5, <3>1, <3>5, <3>6 DEF Ordered
  <2> QED
    BY <2>1, <2>6, <2>7
<1>3. CASE Start
  <2>1. /\ received' = <<>> /\ written' = <<>> /\ queue' = <<>> /\ pc' = "recv"
    BY <1>3 DEF Start
  <2>2. Len(<<>>) = 0
    OBVIOUS
  <2> QED
    BY <2>1, <2>2 DEF Ordered, Increasing, AllBelow, AllAbove
<1>4. CASE Kill \/ DecodeThrows
  <2>1. /\ UNCHANGED <<received, written, next_frame>> /\ queue' = <<>> /\ pc' = "dead"
    BY <1>4 DEF Kill, DecodeThrows, Die, disk
  <2>2. Len(queue') = 0
    BY <2>1
  <2> QED
    BY <2>1, <2>2 DEF Ordered, Increasing, AllBelow, AllAbove
<1>5. CASE Recv
  <2>1. /\ UNCHANGED <<received, written, next_frame>> /\ queue # <<>>
        /\ event' = Head(queue) /\ queue' = Tail(queue)
    BY <1>5 DEF Recv, disk
  <2>2. /\ Len(queue) > 0 /\ event' = queue[1]
        /\ Len(queue') = Len(queue) - 1
        /\ \A j \in 1 .. Len(queue') : queue'[j] = queue[j + 1]
    BY <1>0, <2>1, HeadTailProperties
  <2>3. \A j \in 1 .. Len(queue') : j + 1 \in 1 .. Len(queue) /\ 1 < j + 1
    BY <1>0, <2>2
  <2>4. 1 \in 1 .. Len(queue)
    BY <1>0, <2>2
  <2>5. Increasing(queue')
    <3> SUFFICES ASSUME NEW i \in 1 .. Len(queue'), NEW j \in 1 .. Len(queue'), i < j
                 PROVE  queue'[i] < queue'[j]
      BY DEF Increasing
    <3>1. i + 1 < j + 1
      BY <1>0, <2>2
    <3> QED
      BY <2>2, <2>3, <3>1 DEF Ordered, Increasing
  <2>6. AllBelow(queue', next_frame)
    BY <2>2, <2>3 DEF Ordered, AllBelow
  <2>7. ASSUME NEW n, AllAbove(n, queue) PROVE AllAbove(n, queue')
    BY <2>2, <2>3, <2>7 DEF AllAbove
  <2>8. \A i \in 1 .. Len(received) : AllAbove(received[i], queue')
    BY <2>7 DEF Ordered
  <2>9. AllBelow(received, event') /\ event' < next_frame
    BY <2>2, <2>4 DEF Ordered, AllBelow, AllAbove
  <2>10. AllAbove(event', queue')
    BY <2>2, <2>3, <2>4 DEF Ordered, Increasing, AllAbove
  <2> QED
    BY <2>1, <2>5, <2>6, <2>8, <2>9, <2>10 DEF Ordered
<1>6. CASE Decode
  <2>1. /\ UNCHANGED <<written, queue, next_frame>> /\ pc = "decode" /\ pc' # "decode"
        /\ received' = Append(received, event)
    BY <1>6 DEF Decode, disk
  <2>2. event \in Nat
    BY <2>1, FrameNumbers DEF Inv, Holding
  <2>3. /\ Increasing(received) /\ AllBelow(received, event) /\ AllBelow(received, next_frame)
        /\ event < next_frame /\ AllAbove(event, queue)
        /\ \A i \in 1 .. Len(received) : AllAbove(received[i], queue)
    BY <2>1 DEF Ordered
  <2>4. /\ Increasing(received') /\ AllBelow(received', next_frame)
        /\ \A i \in 1 .. Len(received') : AllAbove(received'[i], queue)
    BY <1>0, <2>1, <2>2, <2>3, IncreasingAppend
  <2> QED
    BY <2>1, <2>4 DEF Ordered
<1>7. CASE WriteBuffer
  <2>1. /\ UNCHANGED <<received, queue, next_frame>> /\ pc = "write" /\ pc' # "decode"
        /\ written' = written \o buffer
    BY <1>7 DEF WriteBuffer
  <2>2. event \in FrameId /\ written \in Seq(FrameId) /\ buffer \in Seq(FrameId)
    BY <2>1 DEF Inv, Holding, TypeOK
  <2>3. /\ received = (written \o buffer) \o <<event>>
        /\ written \o buffer \in Seq(FrameId) /\ <<event>> \in Seq(FrameId)
    BY <2>1, <2>2, ConcatProperties DEF Inv, Ledger, InHand
  <2>4. Increasing(written \o buffer)
    BY <2>3, IncreasingFront DEF Ordered
  <2> QED
    BY <2>1, <2>4 DEF Ordered
<1>8. CASE NextFile \/ SameFile \/ CopyFrame \/ CopyOverrun
  BY <1>8 DEF NextFile, SameFile, CopyFrame, CopyOverrun, Ordered, disk
<1>9. CASE RecvTimeout \/ UNCHANGED vars
  BY <1>9 DEF RecvTimeout, vars, Ordered, disk
<1> QED
  BY <1>2, <1>3, <1>4, <1>5, <1>6, <1>7, <1>8, <1>9 DEF Next

(* The files of a run hold the frames in the order of their publication,    *)
(* none twice, for all sizes, whatever is dropped and whenever the program  *)
(* is killed.                                                               *)
THEOREM RunOrderCorrect == Spec => []RunInOrder
<1>1. Init => Ordered
  BY DEF Init, Ordered, Increasing, AllBelow, AllAbove
<1>2. Inv /\ Ordered => RunInOrder
  <2> SUFFICES ASSUME Inv, Ordered PROVE RunInOrder
    OBVIOUS
  <2>1. DOMAIN written = 1 .. Len(written)
    BY DEF Inv, TypeOK
  <2> QED
    BY <2>1 DEF Ordered, Increasing, RunInOrder
<1> QED
  BY <1>1, <1>2, InitInv, StepInv, StepOrdered, PTL DEF Spec

-----------------------------------------------------------------------------
(* Bytes *)

LEMMA BytesMapped ==
  ASSUME NEW s \in Seq(FrameId)
  PROVE  Bytes(s) = SumOf(Mapped(FrameSize, s)) /\ Mapped(FrameSize, s) \in Seq(Nat)
BY MappedType, FrameFits DEF Bytes, Mapped

LEMMA BytesType == \A s \in Seq(FrameId) : Bytes(s) \in Nat
BY BytesMapped, SumOfType

LEMMA BytesEmpty == Bytes(<<>>) = 0
<1>1. <<>> \in Seq(FrameId)
  OBVIOUS
<1> QED
  BY <1>1, BytesMapped, MappedEmpty, SumOfEmpty

LEMMA BytesAppend ==
  ASSUME NEW s \in Seq(FrameId), NEW f \in FrameId
  PROVE  Bytes(Append(s, f)) = Bytes(s) + FrameSize[f]
<1>1. Append(s, f) \in Seq(FrameId) /\ FrameSize[f] \in Nat
  BY AppendProperties, FrameFits
<1>2. Mapped(FrameSize, Append(s, f)) = Append(Mapped(FrameSize, s), FrameSize[f])
  BY MappedAppend
<1> QED
  BY <1>1, <1>2, BytesMapped, SumOfAppend

LEMMA BytesConcat ==
  ASSUME NEW s \in Seq(FrameId), NEW t \in Seq(FrameId)
  PROVE  Bytes(s \o t) = Bytes(s) + Bytes(t)
<1>1. s \o t \in Seq(FrameId)
  BY ConcatProperties
<1>2. Mapped(FrameSize, s \o t) = Mapped(FrameSize, s) \o Mapped(FrameSize, t)
  BY MappedConcat
<1> QED
  BY <1>1, <1>2, BytesMapped, SumOfConcat

-----------------------------------------------------------------------------
(* The counters *)

\* There is a file for every time a frame did not fit, and one more; a program
\* never started has written nothing.
Rolls == file_index + (IF pc = "full" THEN 1 ELSE 0) <= Len(received)
Fresh == starts = 0 => pc = "dead" /\ file_index = 0 /\ files[0] = <<>>

\* Increasing numbers up to MaxFrames are at most MaxFrames.
LEMMA IncreasingBounded ==
  ASSUME NEW s \in Seq(FrameId), Increasing(s)
  PROVE  Len(s) <= MaxFrames
<1>1. Len(s) \in Nat /\ \A i \in 1 .. Len(s) : s[i] \in Nat /\ 1 <= s[i] /\ s[i] <= MaxFrames
  BY LenProperties, ElementOfSeq, SizesAssumption DEF FrameId
<1> DEFINE Late == {k \in Nat : k + 1 <= Len(s) => k + 1 <= s[k + 1]}
<1>2. 0 \in Late
  BY <1>1
<1>3. ASSUME NEW k \in Nat, k \in Late PROVE k + 1 \in Late
  <2>1. CASE (k + 1) + 1 <= Len(s)
    <3>1. /\ k + 1 \in 1 .. Len(s) /\ (k + 1) + 1 \in 1 .. Len(s)
          /\ k + 1 <= Len(s) /\ k + 1 < (k + 1) + 1
      BY <1>1, <2>1
    <3>2. k + 1 <= s[k + 1]
      BY <1>3, <3>1
    <3>3. s[k + 1] < s[(k + 1) + 1]
      BY <3>1 DEF Increasing
    <3>4. (k + 1) + 1 <= s[(k + 1) + 1]
      BY <1>1, <3>1, <3>2, <3>3
    <3> QED
      BY <3>4
  <2> QED
    BY <2>1
<1>4. \A k \in Nat : k \in Late
  <2> HIDE DEF Late
  <2> QED BY <1>2, <1>3, Induction
<1>5. CASE Len(s) > 0
  <2>1. Len(s) - 1 \in Nat /\ (Len(s) - 1) + 1 = Len(s) /\ Len(s) \in 1 .. Len(s)
    BY <1>1, <1>5
  <2>2. Len(s) <= s[Len(s)]
    BY <1>1, <1>4, <2>1
  <2> QED
    BY <1>1, <2>1, <2>2, SizesAssumption
<1> QED
  BY <1>1, <1>5, SizesAssumption

LEMMA InFiles ==
  ASSUME Inv, Ordered, Rolls
  PROVE  file_index \in FileIndex /\ (pc = "full" => file_index + 1 \in FileIndex)
<1>1. received \in Seq(FrameId) /\ file_index \in Nat /\ Len(received) \in Nat
  BY LenProperties DEF Inv, TypeOK
<1>2. Len(received) <= MaxFrames
  BY <1>1, IncreasingBounded DEF Ordered
<1> QED
  BY <1>1, <1>2, SizesAssumption DEF Rolls, FileIndex

\* Steps that touch neither the buffer nor the files.
Aside ==
  UNCHANGED <<starts, buffer, buffer_used, frames_in_buffer, file_size, file_used,
              file_index, files, written>>

LEMMA StepsAside ==
  ASSUME \/ Publish \/ Kill \/ DecodeThrows \/ RecvTimeout \/ Recv \/ Decode
         \/ SameFile \/ CopyOverrun \/ UNCHANGED vars
  PROVE  Aside
BY DEF Publish, Kill, DecodeThrows, Die, RecvTimeout, Recv, Decode, SameFile, CopyOverrun,
       vars, ram, disk, Aside

LEMMA StepRolls ==
  ASSUME Inv, Rolls, [Next]_vars
  PROVE  Rolls'
<1>1. received \in Seq(FrameId) /\ file_index \in Nat /\ Len(received) \in Nat
  BY LenProperties DEF Inv, TypeOK
<1>2. CASE Start
  <2>1. received' = <<>> /\ file_index' = 0 /\ pc' = "recv" /\ Len(<<>>) = 0
    BY <1>2 DEF Start
  <2> QED
    BY <2>1 DEF Rolls
<1>3. CASE Decode
  <2>1. event \in FrameId /\ file_index' = file_index /\ pc = "decode"
    BY <1>3 DEF Decode, Inv, Holding
  <2>2. Len(received') = Len(received) + 1
    BY <1>1, <1>3, <2>1, AppendProperties DEF Decode
  <2> QED
    BY <1>1, <2>1, <2>2 DEF Rolls
<1>4. CASE NextFile
  <2>1. pc = "full" /\ pc' = "write" /\ file_index' = file_index + 1 /\ received' = received
    BY <1>4 DEF NextFile
  <2> QED
    BY <1>1, <2>1 DEF Rolls
<1>5. CASE \/ Publish \/ RecvTimeout \/ Recv \/ SameFile \/ Kill \/ DecodeThrows
           \/ WriteBuffer \/ CopyFrame \/ CopyOverrun \/ UNCHANGED vars
  <2>1. /\ file_index' = file_index /\ received' = received
        /\ pc' = "full" => pc = "full"
    BY <1>5 DEF Publish, RecvTimeout, Recv, SameFile, Kill, DecodeThrows, Die, WriteBuffer,
                CopyFrame, CopyOverrun, vars
  <2> QED
    BY <1>1, <2>1 DEF Rolls
<1> QED
  BY <1>2, <1>3, <1>4, <1>5 DEF Next

LEMMA StepFresh ==
  ASSUME Inv, Fresh, [Next]_vars
  PROVE  Fresh'
<1>1. starts \in Nat
  BY DEF Inv, TypeOK
<1>2. CASE Start
  BY <1>1, <1>2 DEF Start, Fresh
<1>3. CASE NextFile \/ WriteBuffer \/ CopyFrame
  BY <1>3 DEF NextFile, WriteBuffer, CopyFrame, Fresh
<1>4. CASE \/ Publish \/ RecvTimeout \/ Recv \/ Decode \/ SameFile \/ Kill \/ DecodeThrows
           \/ CopyOverrun \/ UNCHANGED vars
  <2>1. Aside
    BY <1>4, StepsAside
  <2>2. pc = "dead" => pc' = "dead"
    BY <1>4 DEF Publish, RecvTimeout, Recv, Decode, SameFile, Kill, DecodeThrows, Die,
                CopyOverrun, vars
  <2> QED
    BY <2>1, <2>2 DEF Aside, Fresh
<1> QED
  BY <1>2, <1>3, <1>4 DEF Next

LEMMA StepCounters ==
  ASSUME Inv, Ordered, Rolls, Fresh, CountersAgree, [Next]_vars
  PROVE  CountersAgree'
<1>1. /\ buffer \in Seq(FrameId) /\ event \in FrameId \cup {NoFrame}
      /\ files \in [FileIndex -> Seq(FrameId)] /\ file_index \in FileIndex
  BY InFiles DEF Inv, TypeOK
<1>2. Len(<<>>) = 0
  OBVIOUS
<1>3. CASE Start
  <2>1. /\ buffer' = <<>> /\ buffer_used' = 0 /\ frames_in_buffer' = 0
        /\ file_used' = 0 /\ file_index' = 0 /\ files' = [files EXCEPT ![0] = <<>>]
    BY <1>3 DEF Start, Opened
  <2>2. files'[0] = <<>>
    <3>1. 0 \in FileIndex
      BY SizesAssumption DEF FileIndex
    <3> QED BY <1>1, <2>1, <3>1
  <2> QED
    BY <1>2, <2>1, <2>2, BytesEmpty DEF CountersAgree
<1>4. CASE NextFile
  <2>1. /\ UNCHANGED <<buffer, buffer_used, frames_in_buffer>>
        /\ file_used' = 0 /\ file_index' = file_index + 1 /\ pc = "full"
        /\ files' = [files EXCEPT ![file_index + 1] = <<>>]
    BY <1>4 DEF NextFile, Opened, ram
  <2>2. files'[file_index + 1] = <<>>
    BY <1>1, <2>1, InFiles
  <2> QED
    BY <2>1, <2>2, BytesEmpty DEF CountersAgree
<1>5. CASE WriteBuffer
  <2>1. /\ files' = [files EXCEPT ![file_index] = files[file_index] \o buffer]
        /\ file_used' = file_used + buffer_used /\ file_index' = file_index
        /\ buffer' = <<>> /\ buffer_used' = 0 /\ frames_in_buffer' = 0
        /\ pc = "write" /\ starts' = starts
    BY <1>5 DEF WriteBuffer
  <2>2. starts > 0 /\ files[file_index] \in Seq(FrameId)
    BY <1>1, <2>1 DEF Fresh, Inv, TypeOK
  <2>3. files'[file_index] = files[file_index] \o buffer
    BY <1>1, <2>1
  <2>4. Bytes(files'[file_index]) = Bytes(files[file_index]) + Bytes(buffer)
    BY <1>1, <2>2, <2>3, BytesConcat
  <2>5. file_used' = Bytes(files'[file_index])
    BY <2>1, <2>2, <2>4 DEF CountersAgree
  <2> QED
    BY <1>2, <2>1, <2>5, BytesEmpty DEF CountersAgree
<1>6. CASE CopyFrame
  <2>1. /\ buffer' = Append(buffer, event) /\ buffer_used' = buffer_used + FrameSize[event]
        /\ frames_in_buffer' = frames_in_buffer + 1
        /\ UNCHANGED <<starts, file_used, file_index, files>>
    BY <1>6 DEF CopyFrame, disk
  <2>2. event \in FrameId
    BY <1>6 DEF CopyFrame, Inv, Holding
  <2>3. Len(buffer') = Len(buffer) + 1 /\ Bytes(buffer') = Bytes(buffer) + FrameSize[event]
    BY <1>1, <2>1, <2>2, AppendProperties, BytesAppend
  <2> QED
    BY <2>1, <2>3 DEF CountersAgree
<1>7. CASE \/ Publish \/ Kill \/ DecodeThrows \/ RecvTimeout \/ Recv \/ Decode
           \/ SameFile \/ CopyOverrun \/ UNCHANGED vars
  BY <1>7, StepsAside DEF Aside, CountersAgree
<1> QED
  BY <1>3, <1>4, <1>5, <1>6, <1>7 DEF Next

\* What the theorems about files rest on.
Base == Inv /\ Ordered /\ Rolls /\ Fresh /\ CountersAgree

LEMMA InitBase == Init => Base
<1> SUFFICES ASSUME Init PROVE Base
  OBVIOUS
<1>1. Ordered
  BY DEF Init, Ordered, Increasing, AllBelow, AllAbove
<1>2. Len(<<>>) = 0
  OBVIOUS
<1>3. files[0] = <<>>
  BY SizesAssumption DEF Init, FileIndex
<1>4. Rolls /\ Fresh
  BY <1>2, <1>3 DEF Init, Rolls, Fresh
<1>5. CountersAgree
  BY <1>2, BytesEmpty DEF Init, CountersAgree
<1> QED
  BY <1>1, <1>4, <1>5, InitInv DEF Base

LEMMA StepBase == Base /\ [Next]_vars => Base'
BY StepInv, StepOrdered, StepRolls, StepFresh, StepCounters DEF Base

(* The counters say what is in the buffer and what is in the file, for all  *)
(* sizes of frames and however often files are changed and runs restarted.  *)
THEOREM CountersCorrect == Spec => []CountersAgree
<1>1. Base => CountersAgree
  BY DEF Base
<1> QED
  BY <1>1, InitBase, StepBase, PTL DEF Spec

-----------------------------------------------------------------------------
(* The sizes of files *)

\* The product of main does not overflow an int.
NoOverflow == filesize * MegaByte <= IntMax

\* Before a buffer is written, it fits into the file or the file is new.
Sized ==
  /\ starts > 0 => file_size = filesize * MegaByte
  /\ pc = "write" => file_used = 0 \/ file_used + buffer_used <= file_size

LEMMA StepSized ==
  ASSUME NoOverflow, Base, Sized, [Next]_vars
  PROVE  Sized'
<1>1. /\ file_used \in Nat /\ buffer_used \in Nat /\ file_size \in Nat /\ starts \in Nat
  BY DEF Base, Inv, TypeOK
<1>2. CASE Start
  <2>1. file_size' \in FileSizes /\ pc' = "recv"
    BY <1>2 DEF Start
  <2>2. file_size' = filesize * MegaByte
    BY <2>1 DEF NoOverflow, FileSizes
  <2> QED
    BY <2>1, <2>2 DEF Sized
<1>3. CASE NextFile
  BY <1>3 DEF NextFile, Sized
<1>4. CASE SameFile
  BY <1>1, <1>4 DEF SameFile, FileFull, Sized, ram
<1>5. CASE WriteBuffer \/ CopyFrame
  BY <1>5 DEF WriteBuffer, CopyFrame, Sized
<1>6. CASE \/ Publish \/ Kill \/ DecodeThrows \/ RecvTimeout \/ Recv \/ Decode
           \/ CopyOverrun \/ UNCHANGED vars
  <2>1. Aside
    BY <1>6, StepsAside
  <2>2. pc' = "write" => pc = "write"
    BY <1>6 DEF Publish, RecvTimeout, Recv, Decode, Kill, DecodeThrows, Die, CopyOverrun, vars
  <2> QED
    BY <2>1, <2>2 DEF Aside, Sized
<1> QED
  BY <1>2, <1>3, <1>4, <1>5, <1>6 DEF Next

\* The files before the current one are left alone, and what a step puts into
\* the current one.
LEMMA FilesStep ==
  ASSUME Base, [Next]_vars
  PROVE  \/ Start
         \/ /\ file_index' = file_index /\ starts' = starts
            /\ \/ files' = files
               \/ pc = "write" /\ files' = [files EXCEPT ![file_index] = @ \o buffer]
         \/ NextFile
<1>1. CASE \/ Publish \/ Kill \/ DecodeThrows \/ RecvTimeout \/ Recv \/ Decode
           \/ SameFile \/ CopyOverrun \/ UNCHANGED vars
  BY <1>1, StepsAside DEF Aside
<1>2. CASE WriteBuffer
  BY <1>2 DEF WriteBuffer
<1>3. CASE CopyFrame
  BY <1>3 DEF CopyFrame, disk
<1> QED
  BY <1>1, <1>2, <1>3 DEF Next

LEMMA FilesTypes ==
  ASSUME Base
  PROVE  /\ files \in [FileIndex -> Seq(FrameId)] /\ buffer \in Seq(FrameId)
         /\ file_index \in Nat /\ file_index \in FileIndex
         /\ \A i \in 0 .. file_index :
              i \in FileIndex /\ files[i] \in Seq(FrameId) /\ Bytes(files[i]) \in Nat
         /\ buffer_used \in Nat /\ buffer_used <= buffer_size
         /\ file_used \in Nat /\ file_size \in Nat
         /\ buffer_size \in Nat /\ filesize * MegaByte \in Nat
<1>1. /\ files \in [FileIndex -> Seq(FrameId)] /\ buffer \in Seq(FrameId)
      /\ file_index \in Nat /\ file_index \in FileIndex
  BY InFiles DEF Base, Inv, TypeOK
<1>2. \A i \in 0 .. file_index : i \in FileIndex
  BY <1>1, SizesAssumption DEF FileIndex
<1>3. \A i \in 0 .. file_index : files[i] \in Seq(FrameId)
  BY <1>1, <1>2
<1>4. \A i \in 0 .. file_index : Bytes(files[i]) \in Nat
  BY <1>3, BytesType
<1>5. /\ buffer_used \in Nat /\ buffer_used <= buffer_size
      /\ file_used \in Nat /\ file_size \in Nat
  BY DEF Base, Inv, TypeOK, BufferFits
<1>6. buffer_size \in Nat /\ filesize * MegaByte \in Nat
  BY SizesAssumption
<1> QED
  BY <1>1, <1>2, <1>3, <1>4, <1>5, <1>6

LEMMA StepFileSizeKept ==
  ASSUME Base, Sized, FileSizeKept, [Next]_vars
  PROVE  FileSizeKept'
<1>1. Base'
  BY StepBase
<1> DEFINE Small(n) == n <= filesize * MegaByte \/ n <= buffer_size
<1>2. \A i \in 0 .. file_index : Small(Bytes(files[i]))
  BY DEF FileSizeKept
<1>3. Small(0)
  BY SizesAssumption
<1> SUFFICES ASSUME NEW i \in 0 .. file_index' PROVE Small(Bytes(files'[i]))
  BY DEF FileSizeKept
<1> HIDE DEF Small
<1>4. CASE Start
  <2>1. files' = [files EXCEPT ![0] = <<>>] /\ file_index' = 0
    BY <1>4 DEF Start, Opened
  <2>2. i = 0 /\ files'[0] = <<>>
    BY <2>1, FilesTypes, SizesAssumption DEF FileIndex
  <2> QED
    BY <1>3, <2>2, BytesEmpty
<1>5. CASE file_index' = file_index /\ files' = files
  BY <1>2, <1>5
<1>6. CASE /\ file_index' = file_index /\ starts' = starts /\ pc = "write"
           /\ files' = [files EXCEPT ![file_index] = @ \o buffer]
  <2>1. CASE i = file_index
    <3>1. /\ files[i] \in Seq(FrameId) /\ files'[i] = files[i] \o buffer
          /\ i \in 0 .. file_index
      BY <1>6, <2>1, FilesTypes
    <3>2. Bytes(files'[i]) = Bytes(files[i]) + Bytes(buffer)
      BY <3>1, BytesConcat, FilesTypes
    <3>3. starts > 0
      BY <1>6 DEF Base, Fresh, Inv, TypeOK
    <3>4. Bytes(files[i]) = file_used /\ Bytes(buffer) = buffer_used
      BY <2>1, <3>3 DEF Base, CountersAgree
    <3>5. file_used = 0 \/ file_used + buffer_used <= filesize * MegaByte
      BY <1>6, <3>3 DEF Sized
    <3> QED
      BY <3>2, <3>4, <3>5, FilesTypes DEF Small
  <2>2. CASE i # file_index
    <3>1. files'[i] = files[i] /\ i \in 0 .. file_index
      BY <1>6, <2>2, FilesTypes
    <3> QED
      BY <1>2, <3>1
  <2> QED
    BY <2>1, <2>2
<1>7. CASE NextFile
  <2>1. files' = [files EXCEPT ![file_index + 1] = <<>>] /\ file_index' = file_index + 1
    BY <1>7 DEF NextFile, Opened
  <2>2. CASE i = file_index + 1
    <3>1. file_index + 1 \in FileIndex
      BY <1>7, InFiles DEF NextFile, Base
    <3>2. files'[i] = <<>>
      BY <2>1, <2>2, <3>1, FilesTypes
    <3> QED
      BY <1>3, <3>2, BytesEmpty
  <2>3. CASE i # file_index + 1
    <3>1. i \in 0 .. file_index
      BY <2>1, <2>3, FilesTypes
    <3>2. files'[i] = files[i]
      BY <2>1, <2>3, <3>1, FilesTypes
    <3> QED
      BY <1>2, <3>1, <3>2
  <2> QED
    BY <2>2, <2>3
<1> QED
  BY <1>4, <1>5, <1>6, <1>7, FilesStep

(* No file of a run is larger than --filesize says, unless by a single      *)
(* buffer, for all sizes of frames, if the size in bytes is an int at all.  *)
THEOREM FileSizeCorrect == ASSUME NoOverflow PROVE Spec => []FileSizeKept
<1>1. Init => Sized
  BY DEF Init, Sized
<1>2. Init => FileSizeKept
  <2> SUFFICES ASSUME Init PROVE FileSizeKept
    OBVIOUS
  <2>1. \A i \in 0 .. file_index : i = 0 /\ files[i] = <<>>
    BY SizesAssumption DEF Init, FileIndex
  <2>2. filesize * MegaByte \in Nat
    BY SizesAssumption
  <2>3. \A i \in 0 .. file_index : Bytes(files[i]) = 0
    BY <2>1, BytesEmpty
  <2> QED
    BY <2>2, <2>3 DEF FileSizeKept
<1>3. Base /\ Sized /\ FileSizeKept /\ [Next]_vars => Base' /\ Sized' /\ FileSizeKept'
  BY StepBase, StepSized, StepFileSizeKept
<1> QED
  BY <1>1, <1>2, <1>3, InitBase, PTL DEF Spec

LEMMA StepFilesFilled ==
  ASSUME NoOverflow, Base, Sized, FilesFilled, [Next]_vars
  PROVE  FilesFilled'
<1>1. \A i \in 0 .. file_index - 1 : Bytes(files[i]) + buffer_size > filesize * MegaByte
  BY DEF FilesFilled
<1> SUFFICES ASSUME NEW i \in 0 .. file_index' - 1
             PROVE  Bytes(files'[i]) + buffer_size > filesize * MegaByte
  BY DEF FilesFilled
<1>2. CASE Start
  <2>1. file_index' = 0
    BY <1>2 DEF Start
  <2> QED
    BY <2>1
<1>3. CASE file_index' = file_index /\ files' = files
  BY <1>1, <1>3
<1>4. CASE /\ file_index' = file_index
           /\ files' = [files EXCEPT ![file_index] = @ \o buffer]
  <2>1. i # file_index /\ i \in 0 .. file_index
    BY <1>4, FilesTypes
  <2>2. files'[i] = files[i]
    BY <1>4, <2>1, FilesTypes
  <2> QED
    BY <1>1, <1>4, <2>2
<1>5. CASE NextFile
  <2>1. /\ files' = [files EXCEPT ![file_index + 1] = <<>>] /\ file_index' = file_index + 1
        /\ pc = "full" /\ file_used + buffer_used > file_size
    BY <1>5 DEF NextFile, Opened, FileFull
  <2>2. i \in 0 .. file_index /\ i # file_index + 1
    BY <2>1, FilesTypes
  <2>3. files'[i] = files[i] /\ Bytes(files[i]) \in Nat
    BY <2>1, <2>2, FilesTypes
  <2>4. CASE i = file_index
    <3>1. starts > 0
      BY <2>1 DEF Base, Fresh, Inv, TypeOK
    <3>2. Bytes(files[i]) = file_used /\ file_size = filesize * MegaByte
      BY <2>4, <3>1 DEF Base, CountersAgree, Sized
    <3> QED
      BY <2>1, <2>3, <3>2, FilesTypes
  <2>5. CASE i # file_index
    <3>1. i \in 0 .. file_index - 1
      BY <2>2, <2>5, FilesTypes
    <3> QED
      BY <1>1, <2>3, <3>1
  <2> QED
    BY <2>4, <2>5
<1> QED
  BY <1>2, <1>3, <1>4, <1>5, FilesStep

(* A run's files are full but for a buffer, all except the last, for all    *)
(* sizes, if the size in bytes is an int at all.                            *)
THEOREM FilesFilledCorrect == ASSUME NoOverflow PROVE Spec => []FilesFilled
<1>1. Init => Sized /\ FilesFilled
  BY DEF Init, Sized, FilesFilled
<1>2. Base /\ Sized /\ FilesFilled /\ [Next]_vars => Base' /\ Sized' /\ FilesFilled'
  BY StepBase, StepSized, StepFilesFilled
<1> QED
  BY <1>1, <1>2, InitBase, PTL DEF Spec

-----------------------------------------------------------------------------
(* What the files hold *)

\* The run as the sequence of its files; File numbers them from 1 on.
RunFiles(f, n) == [i \in 1 .. n + 1 |-> f[i - 1]]

LEMMA RunFilesSplit ==
  ASSUME NEW f, NEW n \in Nat, \A i \in 0 .. n : f[i] \in Seq(FrameId)
  PROVE  /\ [i \in 1 .. n |-> f[i - 1]] \in Seq(Seq(FrameId))
         /\ RunFiles(f, n) = Append([i \in 1 .. n |-> f[i - 1]], f[n])
         /\ FlattenSeq(RunFiles(f, n)) = FlattenSeq([i \in 1 .. n |-> f[i - 1]]) \o f[n]
<1> DEFINE g == [i \in 1 .. n |-> f[i - 1]]
<1>1. \A i \in 1 .. n + 1 : i - 1 \in 0 .. n
  OBVIOUS
<1>2. g \in Seq(Seq(FrameId))
  <2>1. \A i \in 1 .. n : f[i - 1] \in Seq(FrameId)
    BY <1>1
  <2> QED BY <2>1, IsASeq
<1>3. RunFiles(f, n) \in Seq(Seq(FrameId))
  <2>1. \A i \in 1 .. n + 1 : f[i - 1] \in Seq(FrameId)
    BY <1>1
  <2> QED BY <2>1, IsASeq DEF RunFiles
<1>4. Len(g) = n /\ Len(RunFiles(f, n)) = n + 1
  BY <1>2, <1>3, LenProperties DEF RunFiles
<1>5. /\ \A i \in 1 .. n : g[i] = f[i - 1]
      /\ \A i \in 1 .. n + 1 : RunFiles(f, n)[i] = f[i - 1]
      /\ f[n] \in Seq(FrameId)
  BY DEF RunFiles
<1> HIDE DEF g
<1>6. /\ Append(g, f[n]) \in Seq(Seq(FrameId)) /\ Len(Append(g, f[n])) = n + 1
      /\ \A i \in 1 .. n : Append(g, f[n])[i] = g[i]
      /\ Append(g, f[n])[n + 1] = f[n]
  BY <1>2, <1>4, <1>5, AppendProperties
<1>7. ASSUME NEW i \in 1 .. n + 1 PROVE RunFiles(f, n)[i] = Append(g, f[n])[i]
  <2>1. CASE i \in 1 .. n
    BY <1>5, <1>6, <2>1
  <2>2. CASE i = n + 1
    <3>1. RunFiles(f, n)[i] = f[i - 1]
      BY <1>5
    <3>2. i - 1 = n
      BY <2>2
    <3>3. RunFiles(f, n)[i] = f[n]
      BY <3>1, <3>2
    <3>4. Append(g, f[n])[i] = f[n]
      BY <1>6, <2>2
    <3> QED
      BY <3>3, <3>4
  <2>3. i \in 1 .. n \/ i = n + 1
    BY n \in Nat
  <2> QED
    BY <2>1, <2>2, <2>3
<1>8. RunFiles(f, n) = Append(g, f[n])
  BY <1>3, <1>4, <1>6, <1>7, SeqEqual
<1>9. FlattenSeq(Append(g, f[n])) = FlattenSeq(g) \o f[n]
  BY <1>2, <1>5, FlattenAppend
<1> QED
  BY <1>2, <1>8, <1>9 DEF g

LEMMA StepFilesHoldRun ==
  ASSUME Base, FilesHoldRun, [Next]_vars
  PROVE  FilesHoldRun'
<1>1. /\ files \in [FileIndex -> Seq(FrameId)] /\ buffer \in Seq(FrameId)
      /\ file_index \in Nat /\ file_index \in FileIndex
      /\ \A i \in 0 .. file_index : i \in FileIndex /\ files[i] \in Seq(FrameId)
  BY FilesTypes
<1>2. written \in Seq(FrameId) /\ <<>> \in Seq(FrameId)
  BY DEF Base, Inv, TypeOK
<1>3. CASE Start
  <2>1. written' = <<>> /\ file_index' = 0 /\ files' = [files EXCEPT ![0] = <<>>]
    BY <1>3 DEF Start, Opened
  <2>2. files'[0] = <<>>
    <3>1. 0 \in FileIndex
      BY SizesAssumption DEF FileIndex
    <3> QED BY <1>1, <2>1, <3>1
  <2>3. [i \in 1 .. 0 + 1 |-> files'[i - 1]] = << <<>> >>
    <3>1. 0 + 1 = 1
      OBVIOUS
    <3>2. [i \in 1 .. 1 |-> files'[i - 1]] = [i \in 1 .. 1 |-> <<>>]
      <4>1. \A i \in 1 .. 1 : i - 1 = 0
        OBVIOUS
      <4> QED BY <2>2, <4>1
    <3>3. [i \in 1 .. 1 |-> <<>>] = << <<>> >>
      OBVIOUS
    <3> QED
      BY <3>1, <3>2, <3>3
  <2>4. FlattenSeq(<< <<>> >>) = <<>>
    <3>1. << <<>> >> = Append(<<>>, <<>>) /\ <<>> \in Seq(Seq(FrameId))
      OBVIOUS
    <3>2. FlattenSeq(Append(<<>>, <<>>)) = FlattenSeq(<<>>) \o <<>>
      BY <1>2, <3>1, FlattenAppend
    <3>3. <<>> \o <<>> = <<>>
      BY <1>2, ConcatEmptySeq
    <3> QED
      BY <3>1, <3>2, <3>3, FlattenEmpty
  <2> QED
    BY <2>1, <2>3, <2>4 DEF FilesHoldRun
<1>4. CASE NextFile
  <2>1. /\ files' = [files EXCEPT ![file_index + 1] = <<>>] /\ file_index' = file_index + 1
        /\ pc = "full" /\ starts' = starts /\ written' = written
        /\ file_index + 1 \in FileIndex
    BY <1>4, InFiles DEF NextFile, Opened, Base
  <2>2. files'[file_index + 1] = <<>> /\ \A i \in 0 .. file_index : files'[i] = files[i]
    BY <1>1, <2>1
  <2>3. \A i \in 0 .. file_index + 1 : files'[i] \in Seq(FrameId)
    <3>1. \A i \in 0 .. file_index + 1 : i = file_index + 1 \/ i \in 0 .. file_index
      BY <1>1
    <3> QED BY <1>1, <1>2, <2>2, <3>1
  <2>4. [i \in 1 .. file_index + 1 |-> files'[i - 1]] = RunFiles(files, file_index)
    <3>1. \A i \in 1 .. file_index + 1 : i - 1 \in 0 .. file_index
      BY <1>1
    <3> QED BY <2>2, <3>1 DEF RunFiles
  <2>5. FlattenSeq(RunFiles(files', file_index + 1))
          = FlattenSeq(RunFiles(files, file_index)) \o <<>>
    <3> DEFINE f == files'
    <3>1. file_index + 1 \in Nat /\ \A i \in 0 .. file_index + 1 : f[i] \in Seq(FrameId)
      BY <1>1, <2>3
    <3> HIDE DEF f
    <3>2. FlattenSeq(RunFiles(f, file_index + 1))
            = FlattenSeq([i \in 1 .. file_index + 1 |-> f[i - 1]]) \o f[file_index + 1]
      BY <3>1, RunFilesSplit
    <3> QED
      BY <2>2, <2>4, <3>2 DEF f
  <2>6. FlattenSeq(RunFiles(files, file_index)) \in Seq(FrameId)
    <3>1. \A i \in 1 .. file_index + 1 : files[i - 1] \in Seq(FrameId)
      BY <1>1
    <3>2. RunFiles(files, file_index) \in Seq(Seq(FrameId))
      BY <1>1, <3>1, IsASeq DEF RunFiles
    <3> QED
      BY <3>2, FlattenType
  <2>7. FlattenSeq(RunFiles(files', file_index + 1)) = FlattenSeq(RunFiles(files, file_index))
    BY <2>5, <2>6, ConcatEmptySeq
  <2> QED
    BY <2>1, <2>7 DEF FilesHoldRun, RunFiles
<1>5. CASE WriteBuffer
  <2>1. /\ files' = [files EXCEPT ![file_index] = files[file_index] \o buffer]
        /\ written' = written \o buffer /\ file_index' = file_index /\ starts' = starts
    BY <1>5 DEF WriteBuffer
  <2> DEFINE f == files'
             front == [i \in 1 .. file_index |-> files[i - 1]]
  <2>2. f[file_index] = files[file_index] \o buffer
        /\ \A i \in 0 .. file_index - 1 : f[i] = files[i]
    BY <1>1, <2>1
  <2>3. [i \in 1 .. file_index |-> f[i - 1]] = front
    <3>1. \A i \in 1 .. file_index : i - 1 \in 0 .. file_index - 1
      BY <1>1
    <3> QED BY <2>2, <3>1
  <2>4. \A i \in 0 .. file_index : f[i] \in Seq(FrameId)
    <3>1. files[file_index] \o buffer \in Seq(FrameId)
      BY <1>1, ConcatProperties
    <3>2. \A i \in 0 .. file_index : i = file_index \/ i \in 0 .. file_index - 1
      BY <1>1
    <3> QED BY <1>1, <2>2, <3>1, <3>2
  <2> HIDE DEF f
  <2>5. FlattenSeq(RunFiles(f, file_index)) = FlattenSeq(front) \o (files[file_index] \o buffer)
    <3>1. FlattenSeq(RunFiles(f, file_index))
            = FlattenSeq([i \in 1 .. file_index |-> f[i - 1]]) \o f[file_index]
      BY <1>1, <2>4, RunFilesSplit
    <3> HIDE DEF front
    <3> QED BY <2>2, <2>3, <3>1
  <2>6. /\ FlattenSeq(RunFiles(files, file_index)) = FlattenSeq(front) \o files[file_index]
        /\ FlattenSeq(front) \in Seq(FrameId)
    BY <1>1, RunFilesSplit, FlattenType
  <2> HIDE DEF front
  <2>7. FlattenSeq(RunFiles(f, file_index)) = FlattenSeq(RunFiles(files, file_index)) \o buffer
    <3>1. files[file_index] \in Seq(FrameId)
      BY <1>1
    <3> QED
      BY <1>1, <2>5, <2>6, <3>1, ConcatAssociative
  <2>8. starts > 0 => written' = FlattenSeq(RunFiles(f, file_index))
    BY <2>1, <2>7 DEF FilesHoldRun, RunFiles
  <2> QED
    BY <2>1, <2>8 DEF FilesHoldRun, RunFiles, f
<1>6. CASE CopyFrame
  BY <1>6 DEF CopyFrame, disk, FilesHoldRun
<1>7. CASE \/ Publish \/ Kill \/ DecodeThrows \/ RecvTimeout \/ Recv \/ Decode
           \/ SameFile \/ CopyOverrun \/ UNCHANGED vars
  BY <1>7, StepsAside DEF Aside, FilesHoldRun
<1> QED
  BY <1>3, <1>4, <1>5, <1>6, <1>7 DEF Next

(* The files of a run, one after the other, are what was written since the  *)
(* start, whatever earlier runs have left on the disk.                      *)
THEOREM FilesHoldRunCorrect == Spec => []FilesHoldRun
<1>1. Init => FilesHoldRun
  BY DEF Init, FilesHoldRun
<1>2. Base /\ FilesHoldRun /\ [Next]_vars => Base' /\ FilesHoldRun'
  BY StepBase, StepFilesHoldRun
<1> QED
  BY <1>1, <1>2, InitBase, PTL DEF Spec

-----------------------------------------------------------------------------
(* What a kill loses *)

\* Ledger, also once the program is dead: the message at hand is decoded or not.
Held ==
  \/ received = written \o buffer
  \/ event \in FrameId /\ received = Append(written \o buffer, event)

Dead == pc = "dead"

LEMMA LedgerHeld ==
  ASSUME Inv, ~ Dead
  PROVE  Held
<1>1. written \o buffer \in Seq(FrameId)
  BY ConcatProperties DEF Inv, TypeOK
<1>2. received = (written \o buffer) \o InHand
  BY DEF Inv, Ledger, Dead
<1>3. CASE pc \in {"full", "write", "copy", "undefined"}
  <2>1. event \in FrameId /\ InHand = <<event>>
    BY <1>3 DEF Inv, Holding, InHand
  <2> QED
    BY <1>1, <1>2, <2>1, AppendIsConcat DEF Held
<1>4. CASE pc \notin {"full", "write", "copy", "undefined"}
  BY <1>1, <1>2, <1>4, ConcatEmptySeq DEF InHand, Held
<1> QED
  BY <1>3, <1>4

\* Only a step that ends the program has to be looked at: it moves no frame.
LEMMA DeathHolds ==
  ASSUME Inv, Held, [Next]_vars, Dead'
  PROVE  Held'
<1>1. UNCHANGED <<received, written, buffer, event>>
  BY DEF Dead, Inv, TypeOK, Next, Publish, Start, Kill, RecvTimeout, Recv, DecodeThrows, Decode,
         NextFile, SameFile, WriteBuffer, CopyFrame, CopyOverrun, Die, vars, ram, disk
<1> QED
  BY <1>1 DEF Held

LEMMA HeldBounds ==
  ASSUME Base, Held
  PROVE  LossBounded
<1>1. /\ written \in Seq(FrameId) /\ buffer \in Seq(FrameId) /\ received \in Seq(FrameId)
      /\ written \o buffer \in Seq(FrameId)
  BY ConcatProperties DEF Base, Inv, TypeOK
<1>2. /\ Bytes(written) \in Nat /\ Bytes(buffer) \in Nat
      /\ Bytes(written \o buffer) = Bytes(written) + Bytes(buffer)
  BY <1>1, BytesType, BytesConcat
<1>3. Bytes(buffer) <= buffer_size /\ buffer_size \in Nat
  BY SizesAssumption DEF Base, Inv, BufferFits, CountersAgree
<1>4. /\ Len(written) <= Len(written \o buffer) /\ Len(written) \in Nat
      /\ Len(written \o buffer) \in Nat
      /\ \A i \in 1 .. Len(written) : (written \o buffer)[i] = written[i]
  BY <1>1, ConcatProperties, LenProperties
<1>5. CASE received = written \o buffer
  <2>1. IsPrefix(written, received)
    BY <1>1, <1>4, <1>5 DEF IsPrefix
  <2>2. event \in FrameId \cup {NoFrame} /\ NoFrame \notin FrameId
    BY SizesAssumption DEF Base, Inv, TypeOK, FrameId, NoFrame
  <2>3. event # NoFrame => FrameSize[event] \in Nat
    BY <2>2, FrameFits
  <2> QED
    BY <1>2, <1>3, <1>5, <2>1, <2>3 DEF LossBounded
<1>6. CASE event \in FrameId /\ received = Append(written \o buffer, event)
  <2>1. /\ Len(received) = Len(written \o buffer) + 1
        /\ \A i \in 1 .. Len(written \o buffer) : received[i] = (written \o buffer)[i]
    BY <1>1, <1>6, AppendProperties
  <2>2. IsPrefix(written, received)
    <3>1. Len(written) <= Len(received) /\ \A i \in 1 .. Len(written) : received[i] = written[i]
      BY <1>4, <2>1
    <3> QED
      BY <1>1, <1>4, <3>1 DEF IsPrefix
  <2>3. event # NoFrame /\ FrameSize[event] \in Nat
    BY <1>6, FrameFits, SizesAssumption DEF FrameId, NoFrame
  <2>4. Bytes(received) = (Bytes(written) + Bytes(buffer)) + FrameSize[event]
    BY <1>1, <1>2, <1>6, BytesAppend
  <2> QED
    BY <1>2, <1>3, <2>2, <2>3, <2>4 DEF LossBounded
<1> QED
  BY <1>5, <1>6 DEF Held

(* A kill, or a message that is no frame, loses a buffer and the frame in   *)
(* hand at most, at whatever point of the loop and for all sizes.           *)
THEOREM LossCorrect == Spec => []LossBounded
<1>1. Init => Held
  <2>1. <<>> \o <<>> = <<>>
    OBVIOUS
  <2> QED BY <2>1 DEF Init, Held
<1>2. Base /\ ~ Dead => Held
  BY LedgerHeld DEF Base
<1>3. Base /\ Held /\ [Next]_vars /\ Dead' => Held'
  BY DeathHolds DEF Base
<1>4. Base /\ [Next]_vars => Base'
  BY StepBase
<1>5. Base /\ Held => LossBounded
  BY HeldBounds
<1> QED
  BY <1>1, <1>2, <1>3, <1>4, <1>5, InitBase, PTL DEF Spec
=============================================================================
