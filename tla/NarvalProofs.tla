---------------------------- MODULE NarvalProofs ----------------------------
(***************************************************************************)
(* Theorems about NarvalReceiver, for every number of events and runs, all *)
(* event sizes and all buffer sizes.                                       *)
(***************************************************************************)
EXTENDS NarvalReceiver, SequenceTheorems, TLAPS

-----------------------------------------------------------------------------
\* Where the actor keeps the message it holds.
Holding ==
  /\ send_last_event => pc = "idle"
  /\ send_last_event \/ pc = "copy" => event \in EventId
  /\ pc = "idle" => block = <<>>

Inv == TypeOK /\ Holding /\ Ledger /\ BlockFits

LEMMA InitInv == Init => Inv
<1> SUFFICES ASSUME Init PROVE Inv
  OBVIOUS
<1>1. TypeOK
  <2>1. send_last_event \in BOOLEAN
    BY Zenon DEF Init
  <2>2. <<>> \in Seq(EventId)
    OBVIOUS
  <2>3. /\ next_event \in Nat /\ runs \in Nat
        /\ size_of_output_buffer \in Nat /\ used_size_of_output_buffer \in Nat
    BY DEF Init
  <2> QED
    BY <2>1, <2>2, <2>3, Zenon DEF Init, TypeOK
<1>2. Held = <<>>
  BY DEF Init, Held
<1>3. <<>> \o <<>> = <<>>
  <2>1. <<>> \in Seq(EventId)
    OBVIOUS
  <2> QED
    BY <2>1, ConcatEmptySeq
<1>4. (delivered \o block) \o Held = <<>>
  BY <1>2, <1>3 DEF Init
<1>5. Ledger
  BY <1>4 DEF Init, Ledger
<1>6. Holding /\ BlockFits
  BY DEF Init, Holding, BlockFits
<1> QED
  BY <1>1, <1>5, <1>6 DEF Inv

LEMMA QueueHead ==
  ASSUME TypeOK, queue # <<>>
  PROVE  Head(queue) \in EventId /\ Tail(queue) \in Seq(EventId)
BY HeadTailProperties DEF TypeOK

LEMMA StepType ==
  ASSUME Inv, [Next]_vars
  PROVE  TypeOK' /\ Holding' /\ BlockFits'
<1> USE DEF Inv
<1>1. CASE Publish
  <2>1. next_event \in EventId /\ queue \in Seq(EventId)
    BY <1>1 DEF Publish, TypeOK
  <2>2. queue' \in Seq(EventId)
    BY <1>1, <2>1, AppendProperties DEF Publish
  <2> QED
    BY <1>1, <2>1, <2>2
    DEF Publish, TypeOK, Holding, BlockFits, socket, globals, call, history
<1>2. CASE process_start
  BY <1>2 DEF process_start, TypeOK, Holding, BlockFits, globals, call, history
<1>3. CASE process_stop
  BY <1>3 DEF process_stop, TypeOK, Holding, BlockFits, globals, call, history
<1>4. ASSUME NEW size \in BufferSizes, process_block(size)
      PROVE  TypeOK' /\ Holding' /\ BlockFits'
  <2>1. size \in Nat
    BY NarvalAssumption
  <2> QED
    <3>1. TypeOK'
      BY <1>4, <2>1 DEF process_block, TypeOK, socket, history
    <3>2. Holding'
      BY <1>4 DEF process_block, Holding
    <3>3. BlockFits'
      BY <1>4, <2>1 DEF process_block, BlockFits
    <3> QED
      BY <3>1, <3>2, <3>3
<1>5. CASE Recv
  <2>0. accepted \in Seq(EventId) /\ Head(queue) \in EventId
    BY <1>5, QueueHead DEF Recv, TypeOK
  <2>1. accepted' \in Seq(EventId)
    BY <1>5, <2>0, AppendProperties DEF Recv
  <2> QED
    BY <1>5, <2>1, QueueHead DEF Recv, TypeOK, Holding, BlockFits, socket, call
<1>6. CASE CopyEvent
  <2>1. event \in EventId /\ EventSize[event] \in Nat
    BY <1>6, NarvalAssumption DEF CopyEvent, Holding
  <2>2. block' \in Seq(EventId)
    BY <1>6, <2>1, AppendProperties DEF CopyEvent, TypeOK
  <2> QED
    BY <1>6, <2>1, <2>2
    DEF CopyEvent, TypeOK, Holding, BlockFits, socket, globals, history
<1>7. CASE RecvTimeout \/ SetAside
  <2>1. delivered' \in Seq(EventId)
    BY <1>7, ConcatProperties DEF RecvTimeout, SetAside, Return, TypeOK
  <2>2. CASE RecvTimeout
    BY <2>1, <2>2 DEF RecvTimeout, Return, TypeOK, Holding, BlockFits, socket
  <2>3. CASE SetAside
    BY <2>1, <2>3 DEF SetAside, Return, TypeOK, Holding, BlockFits, socket
  <2> QED
    BY <1>7, <2>2, <2>3
<1>8. CASE UNCHANGED vars
  <2>1. /\ UNCHANGED <<next_event, runs, pub, queue, event, send_last_event, pc>>
        /\ UNCHANGED <<size_of_output_buffer, used_size_of_output_buffer, block>>
        /\ UNCHANGED <<accepted, delivered>>
    BY <1>8 DEF vars, socket, globals, call, history
  <2>2. TypeOK'
    BY <2>1, Zenon DEF TypeOK
  <2>3. Holding'
    BY <2>1, Zenon DEF Holding
  <2>4. BlockFits'
    BY <2>1 DEF BlockFits
  <2> QED
    BY <2>2, <2>3, <2>4
<1> QED
  BY <1>1, <1>2, <1>3, <1>4, <1>5, <1>6, <1>7, <1>8 DEF Next

LEMMA StepLedger ==
  ASSUME Inv, [Next]_vars
  PROVE  Ledger'
<1> USE DEF Inv
<1>a. /\ accepted \in Seq(EventId) /\ delivered \in Seq(EventId)
      /\ block \in Seq(EventId)
  BY DEF TypeOK
<1>0. /\ accepted \in Seq(EventId) /\ delivered \in Seq(EventId)
      /\ block \in Seq(EventId) /\ delivered \o block \in Seq(EventId)
  BY <1>a, ConcatProperties
<1>1. CASE Publish \/ process_start \/ process_stop \/ UNCHANGED vars
  <2>1. UNCHANGED <<event, send_last_event, pc, block, accepted, delivered>>
    BY <1>1 DEF Publish, process_start, process_stop, vars, globals, call, history
  <2> QED
    BY <2>1 DEF Ledger, Held
<1>2. ASSUME NEW size \in BufferSizes, process_block(size) PROVE Ledger'
  <2>1. Held' = Held
    BY <1>2 DEF process_block, Held
  <2> QED
    BY <1>2, <2>1 DEF process_block, Ledger, history
<1>3. CASE Recv
  <2>1. Head(queue) \in EventId
    BY <1>3, QueueHead DEF Recv
  <2>2. Held = <<>> /\ Held' = <<Head(queue)>>
    BY <1>3 DEF Recv, Held, Holding
  <2>3. accepted = delivered \o block
    BY <1>0, <2>2, ConcatEmptySeq DEF Ledger
  <2>4. accepted' = accepted \o <<Head(queue)>>
    BY <1>0, <1>3, <2>1, AppendIsConcat DEF Recv
  <2> QED
    BY <1>3, <2>2, <2>3, <2>4 DEF Recv, Ledger, call
<1>4. CASE CopyEvent
  <2>1. event \in EventId /\ <<event>> \in Seq(EventId)
    BY <1>4 DEF CopyEvent, Holding
  <2>2. Held = <<event>> /\ Held' = <<>>
    BY <1>4 DEF CopyEvent, Held, Holding, globals
  <2>3. block' = block \o <<event>> /\ block' \in Seq(EventId)
    BY <1>0, <1>4, <2>1, AppendIsConcat, AppendProperties DEF CopyEvent
  <2>4. delivered \o block' = accepted
    BY <1>0, <2>1, <2>2, <2>3, ConcatAssociative DEF Ledger
  <2>5. (delivered \o block') \o <<>> = accepted
    BY <1>0, <2>4, ConcatEmptySeq
  <2> QED
    BY <1>4, <2>2, <2>5 DEF CopyEvent, Ledger, history
<1>5. CASE RecvTimeout \/ SetAside
  <2>1. Held' = Held
    BY <1>5 DEF RecvTimeout, SetAside, Return, Held, Holding
  <2>2. delivered' \o block' = delivered \o block
    BY <1>0, <1>5, ConcatEmptySeq DEF RecvTimeout, SetAside, Return
  <2> QED
    BY <1>5, <2>1, <2>2 DEF RecvTimeout, SetAside, Return, Ledger
<1> QED
  BY <1>1, <1>2, <1>3, <1>4, <1>5 DEF Next

LEMMA StepInv == Inv /\ [Next]_vars => Inv'
BY StepType, StepLedger DEF Inv

(* The state has its types in every reachable state.                        *)
THEOREM TypeCorrect == Spec => []TypeOK
<1>1. Inv => TypeOK
  BY DEF Inv
<1> QED
  BY <1>1, InitInv, StepInv, PTL DEF Spec

(* No message is lost or doubled between recv and Narval, whatever the      *)
(* sizes, the timeouts and the stops and starts.                            *)
THEOREM LedgerCorrect == Spec => []Ledger
<1>1. Inv => Ledger
  BY DEF Inv
<1> QED
  BY <1>1, InitInv, StepInv, PTL DEF Spec

(* Narval's buffer is never written past its end.                           *)
THEOREM BlockFitsCorrect == Spec => []BlockFits
<1>1. Inv => BlockFits
  BY DEF Inv
<1> QED
  BY <1>1, InitInv, StepInv, PTL DEF Spec

-----------------------------------------------------------------------------
(* The actor implements EventRelay *)

LEMMA FrontOfConcat ==
  ASSUME NEW S, NEW s \in Seq(S), NEW t \in Seq(S)
  PROVE  SubSeq(s \o t, 1, Len(s)) = s
<1>1. s \o t \in Seq(S) /\ Len(s) \in Nat /\ Len(s \o t) = Len(s) + Len(t)
  BY ConcatProperties
<1>2. \A i \in 1 .. Len(s) : (s \o t)[i] = s[i] /\ s[i] \in S
  BY ConcatProperties
<1>3. /\ SubSeq(s \o t, 1, Len(s)) \in Seq(S)
      /\ Len(SubSeq(s \o t, 1, Len(s))) = Len(s)
      /\ \A i \in 1 .. Len(s) : SubSeq(s \o t, 1, Len(s))[i] = (s \o t)[i]
  BY <1>1, <1>2, SubSeqProperties
<1> QED
  BY <1>1, <1>2, <1>3, SeqEqual

LEMMA StepRelay ==
  ASSUME Inv, [Next]_vars
  PROVE  [Relay!Next]_<<accepted, delivered>>
<1> USE DEF Inv
<1>1. CASE Recv
  BY <1>1, QueueHead DEF Recv, Relay!Next, Relay!Take
<1>2. CASE RecvTimeout \/ SetAside
  <2>1. /\ delivered \in Seq(EventId) /\ block \in Seq(EventId)
        /\ Held \in Seq(EventId)
        /\ Len(delivered) \in Nat /\ Len(block) \in Nat /\ Len(Held) \in Nat
    BY DEF TypeOK, Held, Holding
  <2>2. /\ delivered \o block \in Seq(EventId)
        /\ Len(delivered \o block) = Len(delivered) + Len(block)
        /\ Len(accepted) = Len(delivered \o block) + Len(Held)
    BY <2>1, ConcatProperties DEF Ledger
  <2>3. delivered' = SubSeq(accepted, 1, Len(delivered \o block))
    BY <1>2, <2>1, <2>2, FrontOfConcat DEF RecvTimeout, SetAside, Return, Ledger
  <2>4. accepted' = accepted
    BY <1>2 DEF RecvTimeout, SetAside, Return
  <2>5. CASE block = <<>>
    <3>1. delivered' = delivered
      BY <1>2, <2>1, <2>5, ConcatEmptySeq DEF RecvTimeout, SetAside, Return
    <3> QED
      BY <2>4, <3>1
  <2>6. CASE block # <<>>
    <3>1. Len(block) > 0
      BY <2>1, <2>6
    <3>2. Len(delivered \o block) \in Len(delivered) + 1 .. Len(accepted)
      BY <2>1, <2>2, <3>1
    <3> QED
      BY <2>3, <2>4, <3>2 DEF Relay!Next, Relay!Give
  <2> QED
    BY <2>5, <2>6
<1>3. CASE UNCHANGED <<accepted, delivered>>
  BY <1>3
<1> QED
  BY <1>1, <1>2, <1>3
  DEF Next, Publish, process_start, process_stop, process_block, CopyEvent, vars,
      history

(* The actor is an EventRelay: what Narval is given is always the           *)
(* beginning of what recv returned, and only grows.                         *)
THEOREM RelayCorrect == Spec => ImplementsRelay
<1>1. Init => Relay!Init
  BY DEF Init, Relay!Init
<1>2. Inv /\ [Next]_vars => [Relay!Next]_<<accepted, delivered>>
  BY StepRelay
<1> QED
  BY <1>1, <1>2, InitInv, StepInv, PTL DEF Spec, ImplementsRelay, Relay!Spec

-----------------------------------------------------------------------------
(* Order, over stops and starts *)

Increasing(s) == \A i, j \in 1 .. Len(s) : i < j => s[i] < s[j]

\* What was accepted came before what waits, and that before what is still
\* to be published.
Ordered ==
  /\ Increasing(accepted)
  /\ Increasing(queue)
  /\ \A i \in 1 .. Len(accepted) : \A j \in 1 .. Len(queue) : accepted[i] < queue[j]
  /\ \A i \in 1 .. Len(accepted) : accepted[i] < next_event
  /\ \A j \in 1 .. Len(queue) : queue[j] < next_event

LEMMA Numbers ==
  ASSUME Inv
  PROVE  /\ accepted \in Seq(Nat) /\ queue \in Seq(Nat) /\ next_event \in Nat
         /\ Len(accepted) \in Nat /\ Len(queue) \in Nat
<1>1. EventId \subseteq Nat
  BY NarvalAssumption DEF EventId
<1>2. accepted \in Seq(EventId) /\ queue \in Seq(EventId) /\ next_event \in Nat
  BY DEF Inv, TypeOK
<1>3. accepted \in Seq(Nat) /\ queue \in Seq(Nat)
  BY <1>1, <1>2, SeqMonotonic, Zenon
<1> QED
  BY <1>2, <1>3

LEMMA StepOrdered ==
  ASSUME Inv, Ordered, [Next]_vars
  PROVE  Ordered'
<1>0. /\ accepted \in Seq(Nat) /\ queue \in Seq(Nat) /\ next_event \in Nat
      /\ Len(accepted) \in Nat /\ Len(queue) \in Nat
  BY Numbers
<1>1. CASE Publish
  <2>1. accepted' = accepted /\ next_event' = next_event + 1
    BY <1>1 DEF Publish, history
  <2>2. CASE queue' = queue
    <3>1. \A m \in Nat : m < next_event => m < next_event + 1
      BY <1>0
    <3>2. /\ \A i \in 1 .. Len(accepted) : accepted[i] \in Nat
          /\ \A i \in 1 .. Len(queue) : queue[i] \in Nat
      BY <1>0
    <3> QED
      BY <2>1, <2>2, <3>1, <3>2 DEF Ordered
  <2>3. CASE queue' = Append(queue, next_event)
    <3>1. /\ Len(queue') = Len(queue) + 1
          /\ queue'[Len(queue) + 1] = next_event
          /\ \A i \in 1 .. Len(queue) : queue'[i] = queue[i]
      BY <1>0, <2>3, AppendProperties
    <3>2. \A i \in 1 .. Len(queue') : i \in 1 .. Len(queue) \/ i = Len(queue) + 1
      BY <1>0, <3>1
    <3>3. Increasing(queue')
      <4> SUFFICES ASSUME NEW i \in 1 .. Len(queue'), NEW j \in 1 .. Len(queue'), i < j
                   PROVE  queue'[i] < queue'[j]
        BY DEF Increasing
      <4>1. i \in 1 .. Len(queue)
        BY <1>0, <3>1
      <4>2. CASE j = Len(queue) + 1
        BY <3>1, <4>1, <4>2 DEF Ordered
      <4>3. CASE j \in 1 .. Len(queue)
        BY <3>1, <4>1, <4>3 DEF Ordered, Increasing
      <4> QED
        BY <3>2, <4>2, <4>3
    <3>4. \A j \in 1 .. Len(queue') : queue'[j] < next_event + 1
      <4> TAKE j \in 1 .. Len(queue')
      <4>1. CASE j = Len(queue) + 1
        BY <1>0, <3>1, <4>1
      <4>2. CASE j \in 1 .. Len(queue)
        <5>1. queue[j] \in Nat /\ queue[j] < next_event
          BY <1>0, <4>2 DEF Ordered
        <5> QED
          BY <1>0, <3>1, <4>2, <5>1
      <4> QED
        BY <3>2, <4>1, <4>2
    <3>5. \A i \in 1 .. Len(accepted) : \A j \in 1 .. Len(queue') : accepted[i] < queue'[j]
      <4> TAKE i \in 1 .. Len(accepted)
      <4> TAKE j \in 1 .. Len(queue')
      <4>1. CASE j = Len(queue) + 1
        BY <3>1, <4>1 DEF Ordered
      <4>2. CASE j \in 1 .. Len(queue)
        BY <3>1, <4>2 DEF Ordered
      <4> QED
        BY <3>2, <4>1, <4>2
    <3>6. \A i \in 1 .. Len(accepted) : accepted[i] < next_event + 1
      <4> TAKE i \in 1 .. Len(accepted)
      <4>1. accepted[i] \in Nat /\ accepted[i] < next_event
        BY <1>0 DEF Ordered
      <4> QED
        BY <1>0, <4>1
    <3> QED
      BY <2>1, <3>3, <3>4, <3>5, <3>6 DEF Ordered
  <2> QED
    BY <1>1, <2>2, <2>3 DEF Publish
<1>2. CASE process_start \/ process_stop
  <2>1. queue' = <<>> /\ accepted' = accepted /\ next_event' = next_event
    BY <1>2 DEF process_start, process_stop, history
  <2>2. Len(queue') = 0
    BY <2>1
  <2> QED
    BY <1>0, <2>1, <2>2 DEF Ordered, Increasing
<1>3. CASE Recv
  <2>1. queue # <<>> /\ next_event' = next_event
        /\ accepted' = Append(accepted, Head(queue)) /\ queue' = Tail(queue)
    BY <1>3 DEF Recv
  <2>2. /\ Len(accepted') = Len(accepted) + 1
        /\ accepted'[Len(accepted) + 1] = queue[1]
        /\ \A i \in 1 .. Len(accepted) : accepted'[i] = accepted[i]
    BY <1>0, <2>1, AppendProperties
  <2>3. /\ Len(queue) > 0
        /\ Len(queue') = Len(queue) - 1
        /\ \A i \in 1 .. Len(queue') : queue'[i] = queue[i + 1]
    BY <1>0, <2>1, HeadTailProperties
  <2>4. \A j \in 1 .. Len(queue') : j + 1 \in 1 .. Len(queue) /\ 1 < j + 1
    BY <1>0, <2>3
  <2>5. 1 \in 1 .. Len(queue)
    BY <1>0, <2>3
  <2>6. \A i \in 1 .. Len(accepted') : i \in 1 .. Len(accepted) \/ i = Len(accepted) + 1
    BY <1>0, <2>2
  <2>7. Increasing(accepted')
    <3> SUFFICES ASSUME NEW i \in 1 .. Len(accepted'), NEW j \in 1 .. Len(accepted'), i < j
                 PROVE  accepted'[i] < accepted'[j]
      BY DEF Increasing
    <3>1. i \in 1 .. Len(accepted)
      BY <1>0, <2>2
    <3>2. CASE j = Len(accepted) + 1
      BY <2>2, <2>5, <3>1, <3>2 DEF Ordered
    <3>3. CASE j \in 1 .. Len(accepted)
      BY <2>2, <3>1, <3>3 DEF Ordered, Increasing
    <3> QED
      BY <2>6, <3>2, <3>3
  <2>8. Increasing(queue')
    <3> SUFFICES ASSUME NEW i \in 1 .. Len(queue'), NEW j \in 1 .. Len(queue'), i < j
                 PROVE  queue'[i] < queue'[j]
      BY DEF Increasing
    <3>1. i + 1 < j + 1
      BY <1>0, <2>3
    <3> QED
      BY <2>3, <2>4, <3>1 DEF Ordered, Increasing
  <2>9. \A i \in 1 .. Len(accepted') : \A j \in 1 .. Len(queue') : accepted'[i] < queue'[j]
    <3> TAKE i \in 1 .. Len(accepted')
    <3> TAKE j \in 1 .. Len(queue')
    <3>1. CASE i = Len(accepted) + 1
      BY <2>2, <2>3, <2>4, <2>5, <3>1 DEF Ordered, Increasing
    <3>2. CASE i \in 1 .. Len(accepted)
      BY <2>2, <2>3, <2>4, <3>2 DEF Ordered
    <3> QED
      BY <2>6, <3>1, <3>2
  <2>10. \A i \in 1 .. Len(accepted') : accepted'[i] < next_event'
    BY <2>1, <2>2, <2>5, <2>6 DEF Ordered
  <2>11. \A j \in 1 .. Len(queue') : queue'[j] < next_event'
    BY <2>1, <2>3, <2>4 DEF Ordered
  <2> QED
    BY <2>7, <2>8, <2>9, <2>10, <2>11 DEF Ordered
<1>4. CASE UNCHANGED <<accepted, queue, next_event>>
  BY <1>4 DEF Ordered, Increasing
<1> QED
  BY <1>1, <1>2, <1>3, <1>4
  DEF Next, process_block, CopyEvent, RecvTimeout, SetAside, Return, vars, history

(* Narval sees the events in the order of their publication, none twice,    *)
(* over all the stops and starts, although every stop drops the queue and   *)
(* leaves the message that was set aside in place.                          *)
THEOREM OrderCorrect == Spec => []PublishedOrder
<1>1. Init => Ordered
  BY DEF Init, Ordered, Increasing
<1>2. Inv /\ Ordered => PublishedOrder
  <2> SUFFICES ASSUME Inv, Ordered,
                      NEW i \in DOMAIN delivered, NEW j \in DOMAIN delivered, i < j
               PROVE  delivered[i] < delivered[j]
    BY DEF PublishedOrder
  <2>1. delivered \in Seq(EventId) /\ block \in Seq(EventId) /\ Held \in Seq(EventId)
    BY DEF Inv, TypeOK, Held, Holding
  <2>2. /\ delivered \o block \in Seq(EventId)
        /\ Len(delivered) \in Nat /\ Len(block) \in Nat /\ Len(Held) \in Nat
        /\ Len(delivered \o block) = Len(delivered) + Len(block)
        /\ \A k \in 1 .. Len(delivered) : (delivered \o block)[k] = delivered[k]
    BY <2>1, ConcatProperties
  <2>3. /\ Len(accepted) = Len(delivered) + Len(block) + Len(Held)
        /\ \A k \in 1 .. Len(delivered) : accepted[k] = delivered[k]
    BY <2>1, <2>2, ConcatProperties DEF Inv, Ledger
  <2>4. i \in 1 .. Len(delivered) /\ j \in 1 .. Len(delivered)
    BY <2>1
  <2> QED
    BY <2>2, <2>3, <2>4 DEF Ordered, Increasing
<1> QED
  BY <1>1, <1>2, InitInv, StepInv, StepOrdered, PTL DEF Spec
=============================================================================
