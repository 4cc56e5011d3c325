---------------------------- MODULE FrameDecoder ----------------------------
(***************************************************************************)
(* What mesytec::buffer_reader promises: for each frame it is given, the   *)
(* analysis gets one event with the frame's modules and their hits.  It    *)
(* gets none for a frame with an unknown revision or an unknown module.    *)
(*                                                                         *)
(* One frame has no influence on the next.  BufferReader implements this.  *)
(***************************************************************************)
EXTENDS FrameFormat

CONSTANTS Frames, Indeterminate

VARIABLES
  done,       \* the frames read or given up
  events      \* the events the analysis was called with

vars == <<done, events>>

-----------------------------------------------------------------------------
\* Revision 1 leaves out the modules without data, revision 0 does not.
Modules(f) ==
  IF f.revision = 0 THEN f.modules
  ELSE Picked(f.modules, {m \in Range(f.modules) : m.hits # <<>>})

Readable(f) ==
  /\ f.revision \in {0, 1}
  /\ \A i \in DOMAIN Modules(f) : module_id(Modules(f)[i].header) \in DOMAIN Crate

\* What the analysis gets of a hit; it gets the words of a scaler as they are.
Item(mod, h) ==
  IF h.type = "raw" THEN [data_word |-> HitWord(mod, h)]
  ELSE [data_word |-> HitWord(mod, h), data_type |-> h.type, bus_number |-> h.bus,
        channel |-> h.channel, data |-> h.data]

IsItem(mod, h) == \/ h.type \in DataType
                  \/ h.type = "raw" /\ mod.firmware = "MVLC_SCALER"

\* Revision 0 has no reading of scalers.
ItemHits(f, m) ==
  {h \in Range(m.hits) : /\ IsItem(Crate[module_id(m.header)], h)
                         /\ f.revision = 0 => h.type # "raw"}
Items(f, m) ==
  LET hits == Picked(m.hits, ItemHits(f, m))
  IN  [i \in DOMAIN hits |-> Item(Crate[module_id(m.header)], hits[i])]

\* Revision 0 keeps the counter of the word that ended the module.
Read(f, m) ==
  [module_id     |-> module_id(m.header),
   header_word   |-> m.header,
   event_counter |-> IF f.revision = 0 THEN event_counter(m.marker[1]) ELSE 0,
   data          |-> Items(f, m)]

ReadModules(f) == [i \in DOMAIN Modules(f) |-> Read(f, Modules(f)[i])]

\* The event's own counter is set by revision 0 only.
Counters(f) == IF f.revision = 0 /\ f.modules # <<>>
               THEN {event_counter(Last(f.modules).marker[1])} ELSE Indeterminate

-----------------------------------------------------------------------------
Init == done = <<>> /\ events = <<>>

Decode(f) ==
  /\ done' = Append(done, f)
  /\ IF Readable(f)
     THEN \E n \in Counters(f) :
            events' = Append(events, [modules |-> ReadModules(f), event_counter |-> n])
     ELSE UNCHANGED events

Next == \E f \in Frames : Decode(f)

Spec == Init /\ [][Next]_vars
=============================================================================
