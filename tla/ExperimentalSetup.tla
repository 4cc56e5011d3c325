------------------------- MODULE ExperimentalSetup -------------------------
(***************************************************************************)
(* mesytec::experimental_setup (lib/mesytec_experimental_setup.h, .cpp):   *)
(* what buffer_reader and mvlc_parser_buffer_reader know of the crate.     *)
(*                                                                         *)
(* One object reads crate maps and detector correspondences in any order.  *)
(* Both readers throw in the middle of a file, and the fast_lookup_map is  *)
(* changed as the file is read, so the files are followed line by line.    *)
(* Where the code reaches past the end of a vector the machine stops in    *)
(* "undefined": nothing is claimed of a program that did.                  *)
(***************************************************************************)
EXTENDS CrateFile, FastLookupMap

CONSTANTS
  MapFiles,        \* the crate maps there may be
  DetectorFiles,   \* the detector correspondences there may be
  MaxCalls         \* bound: files opened

\* A line of a detector correspondence has one or two numbers.
ASSUME FilesAssumption ==
  /\ MaxCalls \in Nat
  /\ \A f \in MapFiles \cup DetectorFiles : f.found \in BOOLEAN /\ f.terminated \in BOOLEAN
  /\ \A f \in MapFiles :
       f.lines \in Seq([id : Nat \cup {Garbled}, nchan : Nat \cup {Garbled}, firm : STRING])
  /\ \A f \in DetectorFiles :
       /\ f.lines \in Seq([id : Nat \cup {Garbled}, nums : Seq(Nat \cup {Garbled}),
                           name : STRING])
       /\ \A i \in DOMAIN f.lines : Len(f.lines[i].nums) \in {1, 2}

VARIABLES
  pc,            \* "idle", "map", "detectors" or "undefined"
  file, line,    \* the file being read, or read last, and the line to read next
  modmap,        \* local to read_crate_map
  crate_map,
  outcome,       \* how the last call ended
  calls,         \* history: files opened
  aborted        \* history: crate maps given up in the middle

reading == <<file, line>>
history == <<calls, aborted>>
vars == <<pc, reading, modmap, crate_map, outcome, history>>

Init ==
  /\ pc = "idle"
  /\ file = [found |-> FALSE, lines |-> <<>>, terminated |-> TRUE] /\ line = 1
  /\ modmap = EmptyMap
  /\ crate_map = empty_map
  /\ outcome = "none"
  /\ calls = 0 /\ aborted = 0

-----------------------------------------------------------------------------
Open(f) ==
  /\ pc = "idle" /\ calls < MaxCalls
  /\ file' = f /\ line' = 1
  /\ calls' = calls + 1
  /\ UNCHANGED <<crate_map, aborted>>

Reading(what) == pc = what /\ line \in DOMAIN file.lines
AtEnd(what) == pc = what /\ line \notin DOMAIN file.lines
next_line == file.lines[line]

NextLine == line' = line + 1 /\ UNCHANGED <<pc, file, outcome, history>>

Leave(how) ==
  /\ pc' = "idle" /\ outcome' = how
  /\ UNCHANGED <<reading, calls>>

\* A vector is read or written past its end.
Overrun ==
  /\ pc' = "undefined"
  /\ UNCHANGED <<reading, modmap, crate_map, outcome, history>>

-----------------------------------------------------------------------------
(* read_crate_map *)

OpenCrateMap(f) ==
  /\ Open(f) /\ f.found
  /\ pc' = "map" /\ modmap' = EmptyMap
  /\ UNCHANGED outcome

CrateMapNotFound(f) ==
  /\ Open(f) /\ ~f.found
  /\ outcome' = "crate_map_not_found"
  /\ UNCHANGED <<pc, modmap>>

MapLineThrows ==
  /\ Reading("map") /\ ~LegibleLine(file, line)
  /\ aborted' = aborted + 1
  /\ Leave("exception")
  /\ UNCHANGED <<modmap, crate_map>>

PassLine ==
  /\ Reading("map") /\ LegibleLine(file, line) /\ ~Counts(file, line)
  /\ NextLine
  /\ UNCHANGED <<modmap, crate_map>>

TakeLine ==
  /\ Reading("map") /\ LegibleLine(file, line) /\ Counts(file, line)
  /\ modmap' = Put(modmap, uint8_t(next_line.id), Module(next_line))
  /\ crate_map' = add_id(crate_map, uint8_t(next_line.id))
  /\ NextLine

\* The objects are added, and an iteration prints the ids it has.
Stored == add_objects(crate_map, modmap)
AddDefined == \A id \in DOMAIN modmap : HasSlot(Stored, id)
PrintThrows == LookupDefined(Stored, Stored.id_list[FirstMissing(Stored)])

FinishMap ==
  /\ AtEnd("map") /\ AddDefined /\ Missing(Stored) = {}
  /\ crate_map' = Stored
  /\ Leave("map read")
  /\ UNCHANGED <<modmap, aborted>>

FinishMapThrows ==
  /\ AtEnd("map") /\ AddDefined /\ Missing(Stored) # {} /\ PrintThrows
  /\ crate_map' = Stored
  /\ Leave("exception")
  /\ UNCHANGED <<modmap, aborted>>

FinishMapOverrun ==
  /\ AtEnd("map")
  /\ AddDefined => Missing(Stored) # {} /\ ~PrintThrows
  /\ Overrun

-----------------------------------------------------------------------------
(* read_detector_correspondence *)

\* A file that is not there is read as if it were empty.
OpenDetectors(f) ==
  /\ Open(f)
  /\ pc' = "detectors"
  /\ UNCHANGED <<modmap, outcome>>

detector_id  == uint8_t(next_line.id)
Known        == next_line.id # Garbled /\ LookupDefined(crate_map, detector_id)
get_module   == crate_map.objects[detector_id]
address      == Address(get_module, next_line)

\* No number, no such module (get_module throws), or a number missing.
DetectorThrows ==
  /\ Reading("detectors")
  /\ \/ next_line.id = Garbled
     \/ Known /\ ~has_object(crate_map, detector_id)
     \/ Known /\ has_object(crate_map, detector_id) /\ ~LegibleAddress(address)
  /\ Leave("exception")
  /\ UNCHANGED <<modmap, crate_map, aborted>>

\* The module has been found and its channel can be read.
Addressed == /\ Reading("detectors") /\ Known
             /\ has_object(crate_map, detector_id) /\ LegibleAddress(address)

PassDetector ==
  /\ Addressed /\ ~Complete(file, line)
  /\ NextLine
  /\ UNCHANGED <<modmap, crate_map>>

\* Mutant: bus and channel are swapped.
SwappedName(mod, a) == WithName(mod, <<uint8_t(a.chan), uint8_t(a.bus)>>, a.name)

set_detector(mod, a) == WithName(mod, Channel(a), a.name)

NameDetector ==
  /\ Addressed /\ Complete(file, line) /\ HasChannel(get_module, Channel(address))
  /\ crate_map' =
       [crate_map EXCEPT !.objects[detector_id] = set_detector(get_module, address)]
  /\ NextLine
  /\ UNCHANGED modmap

DetectorOverrun ==
  /\ Reading("detectors")
  /\ \/ next_line.id # Garbled /\ ~LookupDefined(crate_map, detector_id)
     \/ Addressed /\ Complete(file, line) /\ ~HasChannel(get_module, Channel(address))
  /\ Overrun

EndDetectors ==
  /\ AtEnd("detectors")
  /\ Leave("detectors read")
  /\ UNCHANGED <<modmap, crate_map, aborted>>

-----------------------------------------------------------------------------
\* has_module or get_module, called by a reader with an id of the data stream,
\* reads past the vector.  A lookup that does not changes nothing.
LookUpOverrun ==
  /\ pc = "idle" /\ \E id \in 0 .. 255 : ~LookupDefined(crate_map, id)
  /\ Overrun

NoMoreCalls ==
  /\ pc = "undefined" \/ (pc = "idle" /\ calls = MaxCalls)
  /\ UNCHANGED vars

Next ==
  \/ \E f \in MapFiles : OpenCrateMap(f) \/ CrateMapNotFound(f)
  \/ MapLineThrows \/ PassLine \/ TakeLine
  \/ FinishMap \/ FinishMapThrows \/ FinishMapOverrun
  \/ \E f \in DetectorFiles : OpenDetectors(f)
  \/ DetectorThrows \/ PassDetector \/ NameDetector \/ DetectorOverrun \/ EndDetectors
  \/ LookUpOverrun
  \/ NoMoreCalls

Spec == Init /\ [][Next]_vars

-----------------------------------------------------------------------------
(* The state's types. *)
TypeOK ==
  /\ pc \in {"idle", "map", "detectors", "undefined"}
  /\ line \in Nat \ {0}
  /\ DOMAIN modmap \subseteq 0 .. 255
  /\ crate_map.id_list \in Seq(0 .. 255)
  /\ DOMAIN crate_map.objects \subseteq 0 .. 255
  /\ crate_map.slots \in 0 .. 256
  /\ crate_map.maxindex \in 0 .. 255
  /\ crate_map.initialized \in BOOLEAN
  /\ outcome \in {"none", "map read", "detectors read", "crate_map_not_found", "exception"}
  /\ calls \in 0 .. MaxCalls
  /\ aborted \in Nat

\* No module has been stored, and the vector has no slot at all.
NoModuleYet == pc # "map" /\ DOMAIN crate_map.objects = {}

\* A crate map has a module with a larger id than all that are stored.
LargerId ==
  /\ pc = "map" /\ DOMAIN crate_map.objects # {}
  /\ \E id \in DOMAIN modmap : \A stored \in DOMAIN crate_map.objects : stored < id

\* A line names a channel that its module does not have.
NoSuchChannel ==
  Addressed /\ Complete(file, line) /\ ~HasChannel(get_module, Channel(address))

(* As long as no crate map was given up in the middle, the program reaches  *)
(* past the end of a vector in three cases alone: an id is looked up before *)
(* any module was stored, a later crate map has a module whose id is larger *)
(* than all those stored before it (the vector got its size with the        *)
(* first), and a channel is named that its module does not have.  It never  *)
(* does so in a lookup once a module is stored, whatever the id, nor for a  *)
(* first crate map, nor for a later one whose ids stay below the largest.   *)
OverrunHasCause ==
  [][(pc # "undefined" /\ pc' = "undefined" /\ aborted = 0) =>
       NoModuleYet \/ LargerId \/ NoSuchChannel]_vars

(* A crate map that the caller may read, one with a line for each module,   *)
(* is read: read_crate_map returns or throws.                               *)
CrateMapsAreRead == [][pc = "map" => pc' # "undefined"]_vars

(* Between two calls an iteration (print()) finds an object for each id of  *)
(* id_list and leaves no object out, and read_crate_map has not thrown      *)
(* after storing all it read.  It takes crate maps that were read to their  *)
(* end: the ids added before an exception stay in id_list.  Of a program    *)
(* that wrote past the end of the vector it says nothing.                   *)
IterationFindsAll ==
  (pc = "idle" /\ aborted = 0) => Range(crate_map.id_list) = DOMAIN crate_map.objects

\* The lines that name channel c of module id.
LinesOf(id, c) ==
  {i \in DOMAIN file.lines :
     /\ Complete(file, i) /\ uint8_t(file.lines[i].id) = id
     /\ Channel(Address(crate_map.objects[id], file.lines[i])) = c}

\* get_detector: the name of a channel, which is made up of its numbers while no
\* other was set (<<>>).
get_detector(id, c) ==
  LET names == crate_map.objects[id].names
  IN  IF c \in DOMAIN names THEN names[c] ELSE <<>>

(* When read_detector_correspondence has returned, each channel that the    *)
(* file names has the name of the last line that does so: a VMMR's bus and  *)
(* channel, an MDPP's channel alone, both cut to eight bits.                *)
NamesAsRead ==
  (pc = "idle" /\ outcome = "detectors read") =>
    \A i \in DOMAIN file.lines : Complete(file, i) =>
      LET id == uint8_t(file.lines[i].id)
          a  == Address(crate_map.objects[id], file.lines[i])
          last == CHOOSE k \in LinesOf(id, Channel(a)) :
                    \A j \in LinesOf(id, Channel(a)) : j <= k
      IN  get_detector(id, Channel(a)) = Address(crate_map.objects[id], file.lines[last]).name

-----------------------------------------------------------------------------
Description == INSTANCE CrateDescription WITH setup <- crate_map.objects

(* The line-by-line reader builds what CrateDescription says: an exception  *)
(* in a crate map leaves the modules as they were, a crate map that is read *)
(* to its end is taken whole, also by a call that then throws, with the     *)
(* last line of an id; a module that is described again loses its           *)
(* detectors' names; and names go to channels that there are.               *)
ImplementsDescription == Description!Spec
=============================================================================
