--------------------------- MODULE NarvalReceiver ---------------------------
(***************************************************************************)
(* narval/zmq_narval_receiver.cpp: the Narval actor that fills Narval's    *)
(* output buffers with the MFM frames published by the transmitter.        *)
(*                                                                         *)
(* Narval (external) starts and stops the actor and, while it runs, calls  *)
(* process_block again and again with an output buffer; it makes one call  *)
(* at a time.  Between calls the actor keeps its state in globals: the     *)
(* socket, the last message and send_last_event, which says that the last  *)
(* message did not fit and is to begin the next buffer.                    *)
(***************************************************************************)
EXTENDS Sequences, Naturals

CONSTANTS
  MaxEvents,      \* bound: events the transmitter publishes
  MaxRuns,        \* bound: times Narval starts the actor
  QueueMax,       \* messages the SUB socket holds (its high water mark)
  EventSize,      \* function: the size in bytes of each event
  BufferSizes     \* sizes of the output buffers Narval may offer

EventId == 1 .. MaxEvents
NoEvent == 0                       \* the empty message of a fresh message_t

ASSUME NarvalAssumption ==
  /\ MaxEvents \in Nat /\ MaxRuns \in Nat /\ QueueMax \in Nat \ {0}
  /\ EventSize \in [EventId -> Nat]
  /\ BufferSizes \subseteq Nat

VARIABLES
  next_event,                  \* what the transmitter publishes next
  runs,                        \* times the actor was started
  pub,                         \* "none", "open" or "closed"
  queue,                       \* messages waiting in the socket
  event, send_last_event,
  pc,                          \* "idle", or where process_block is
  size_of_output_buffer, used_size_of_output_buffer,
  block,                       \* the events in the output buffer
  accepted,                    \* history: the events recv returned
  delivered                    \* history: the events of the buffers returned

socket == <<runs, pub>>
globals == <<event, send_last_event>>
call == <<size_of_output_buffer, used_size_of_output_buffer, block>>
history == <<accepted, delivered>>
vars == <<next_event, socket, queue, globals, pc, call, history>>

Init ==
  /\ next_event = 1
  /\ runs = 0
  /\ pub = "none"
  /\ queue = <<>>
  /\ event = NoEvent
  /\ send_last_event = FALSE
  /\ pc = "idle"
  /\ size_of_output_buffer = 0
  /\ used_size_of_output_buffer = 0
  /\ block = <<>>
  /\ accepted = <<>>
  /\ delivered = <<>>

-----------------------------------------------------------------------------
(* The transmitter's PUB socket drops an event that has no subscriber, or   *)
(* whose subscriber's queue is full.                                        *)
Publish ==
  /\ next_event \in EventId
  /\ next_event' = next_event + 1
  /\ queue' = IF pub = "open" /\ Len(queue) < QueueMax
              THEN Append(queue, next_event) ELSE queue
  /\ UNCHANGED <<socket, globals, pc, call, history>>

-----------------------------------------------------------------------------
(* Narval's state machine *)

\* Mutant: the message set aside is forgotten.
StartAfresh ==
  /\ pc = "idle" /\ pub # "open" /\ runs < MaxRuns
  /\ pub' = "open"
  /\ queue' = <<>>
  /\ runs' = runs + 1
  /\ send_last_event' = FALSE
  /\ UNCHANGED <<next_event, event, pc, call, history>>

\* A new socket each time; the message and its flag are not touched.
process_start ==
  /\ pc = "idle" /\ pub # "open" /\ runs < MaxRuns
  /\ pub' = "open"
  /\ queue' = <<>>
  /\ runs' = runs + 1
  /\ UNCHANGED <<next_event, globals, pc, call, history>>

\* Closing the socket discards what it holds.  The last run is not stopped.
process_stop ==
  /\ pc = "idle" /\ pub = "open" /\ runs < MaxRuns
  /\ pub' = "closed"
  /\ queue' = <<>>
  /\ UNCHANGED <<next_event, runs, globals, pc, call, history>>

-----------------------------------------------------------------------------
(* process_block *)

\* Mutant: the flag is not reset.
BlockWithOldFlag(size) ==
  /\ pc = "idle" /\ pub = "open"
  /\ size_of_output_buffer' = size
  /\ used_size_of_output_buffer' = 0
  /\ pc' = IF send_last_event THEN "copy" ELSE "first"
  /\ UNCHANGED <<next_event, socket, queue, globals, block, history>>

\* A message set aside is taken up without recv.
process_block(size) ==
  /\ pc = "idle" /\ pub = "open"
  /\ size_of_output_buffer' = size
  /\ used_size_of_output_buffer' = 0
  /\ pc' = IF send_last_event THEN "copy" ELSE "first"
  /\ send_last_event' = FALSE
  /\ UNCHANGED <<next_event, socket, queue, event, block, history>>

\* recv, for the first message of the buffer or the next one.
Recv ==
  /\ pc \in {"first", "next"} /\ queue # <<>>
  /\ event' = Head(queue)
  /\ queue' = Tail(queue)
  /\ accepted' = Append(accepted, Head(queue))
  /\ pc' = "copy"
  /\ UNCHANGED <<next_event, socket, send_last_event, call, delivered>>

\* Mutant: room for one more byte is taken for room for the event.
CopyWhileRoom ==
  /\ pc = "copy"
  /\ used_size_of_output_buffer < size_of_output_buffer
  /\ block' = Append(block, event)
  /\ used_size_of_output_buffer' = used_size_of_output_buffer + EventSize[event]
  /\ pc' = "next"
  /\ UNCHANGED <<next_event, socket, queue, globals, size_of_output_buffer, history>>

CopyEvent ==
  /\ pc = "copy"
  /\ used_size_of_output_buffer + EventSize[event] <= size_of_output_buffer
  /\ block' = Append(block, event)
  /\ used_size_of_output_buffer' = used_size_of_output_buffer + EventSize[event]
  /\ pc' = "next"
  /\ UNCHANGED <<next_event, socket, queue, globals, size_of_output_buffer, history>>

\* Narval takes the buffer with what is in it.
Return ==
  /\ delivered' = delivered \o block
  /\ block' = <<>>
  /\ pc' = "idle"
  /\ UNCHANGED <<next_event, socket, queue, event, size_of_output_buffer,
                 used_size_of_output_buffer, accepted>>

\* Mutant: the result of recv is not looked at.
TimeoutIsEvent ==
  /\ pc \in {"first", "next"} /\ queue = <<>>
  /\ event' = NoEvent
  /\ accepted' = Append(accepted, NoEvent)
  /\ pc' = "copy"
  /\ UNCHANGED <<next_event, socket, queue, send_last_event, call, delivered>>

\* Nothing for 500 ms.
RecvTimeout ==
  /\ pc \in {"first", "next"} /\ queue = <<>>
  /\ Return
  /\ UNCHANGED send_last_event

\* Mutants: the event that does not fit is dropped; the buffer is not returned.
DropOversize ==
  /\ pc = "copy"
  /\ used_size_of_output_buffer + EventSize[event] > size_of_output_buffer
  /\ Return
  /\ UNCHANGED send_last_event
SetAsideAndGoOn ==
  /\ pc = "copy"
  /\ used_size_of_output_buffer + EventSize[event] > size_of_output_buffer
  /\ send_last_event' = TRUE
  /\ pc' = "next"
  /\ UNCHANGED <<next_event, socket, queue, event, call, history>>

SetAside ==
  /\ pc = "copy"
  /\ used_size_of_output_buffer + EventSize[event] > size_of_output_buffer
  /\ send_last_event' = TRUE
  /\ Return

Next ==
  \/ Publish
  \/ process_start \/ process_stop
  \/ \E size \in BufferSizes : process_block(size)
  \/ Recv \/ RecvTimeout \/ CopyEvent \/ SetAside

Spec == Init /\ [][Next]_vars

\* Narval, once started, keeps calling; process_block does not stop halfway.
FairSpec ==
  /\ Spec
  /\ WF_vars(process_start)
  /\ WF_vars(\E size \in BufferSizes : process_block(size))
  /\ WF_vars(Recv \/ RecvTimeout \/ CopyEvent \/ SetAside)

-----------------------------------------------------------------------------
\* The message the actor has and has not put in a buffer.
Held == IF send_last_event \/ pc = "copy" THEN <<event>> ELSE <<>>

(* The state's types. *)
TypeOK ==
  /\ next_event \in Nat
  /\ runs \in Nat
  /\ pub \in {"none", "open", "closed"}
  /\ queue \in Seq(EventId)
  /\ event \in EventId \cup {NoEvent}
  /\ send_last_event \in BOOLEAN
  /\ pc \in {"idle", "first", "copy", "next"}
  /\ size_of_output_buffer \in Nat
  /\ used_size_of_output_buffer \in Nat
  /\ block \in Seq(EventId)
  /\ accepted \in Seq(EventId)
  /\ delivered \in Seq(EventId)

(* Every message recv returned is in a buffer given to Narval, in the       *)
(* buffer being filled, or set aside, once and in order (send_last_event    *)
(* and the global message across calls, stops and starts).                  *)
Ledger == accepted = delivered \o block \o Held

(* memcpy never writes past the end of Narval's buffer. *)
BlockFits == used_size_of_output_buffer <= size_of_output_buffer

(* The actor hands on what it took, in order and without gaps. *)
Relay == INSTANCE EventRelay
           WITH Item <- EventId, taken <- accepted, given <- delivered
ImplementsRelay == Relay!Spec

\* The order in which the transmitter published, over stops and starts.
(* Narval never sees an event twice, nor one published before another that  *)
(* it has seen already, although the queue is dropped at every stop and the *)
(* message set aside is not.                                                *)
PublishedOrder ==
  \A i, j \in DOMAIN delivered : i < j => delivered[i] < delivered[j]

(* "put current event at start of next output buffer, this one is full"     *)
(* (process_block): a message set aside reaches Narval.                     *)
SetAsideIsDelivered ==
  \A e \in EventId :
    (send_last_event /\ event = e) ~> (\E i \in DOMAIN delivered : delivered[i] = e)

(* Whatever recv returned reaches Narval.                                   *)
AcceptedIsDelivered ==
  \A e \in EventId :
    (\E i \in DOMAIN accepted : accepted[i] = e)
      ~> (\E i \in DOMAIN delivered : delivered[i] = e)
=============================================================================
