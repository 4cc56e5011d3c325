---------------------- MODULE ExperimentalSetupProofs ----------------------
(***************************************************************************)
(* Theorems about ExperimentalSetup, for all files and any number of       *)
(* calls: where vectors are overrun, that iterations find all objects,     *)
(* that the line-by-line reader implements CrateDescription, and that      *)
(* names are what a detector correspondence says.                          *)
(***************************************************************************)
EXTENDS ExperimentalSetup, SequenceTheorems, TLAPS

-----------------------------------------------------------------------------
(* The maps *)

IsMap(f) == f = [k \in DOMAIN f |-> f[k]]
Id == 0 .. 255

LEMMA OverlayMap ==
  ASSUME NEW f, NEW g
  PROVE  /\ IsMap(Overlay(f, g))
         /\ DOMAIN Overlay(f, g) = DOMAIN f \cup DOMAIN g
         /\ \A k \in DOMAIN f : Overlay(f, g)[k] = f[k]
         /\ \A k \in DOMAIN g \ DOMAIN f : Overlay(f, g)[k] = g[k]
BY DEF Overlay, IsMap

LEMMA PutMap ==
  ASSUME NEW f, NEW x, NEW v
  PROVE  /\ IsMap(Put(f, x, v))
         /\ DOMAIN Put(f, x, v) = {x} \cup DOMAIN f
         /\ Put(f, x, v)[x] = v
         /\ \A k \in DOMAIN f \ {x} : Put(f, x, v)[k] = f[k]
BY DEF Put, IsMap

LEMMA EmptyMapIsMap == IsMap(EmptyMap) /\ DOMAIN EmptyMap = {}
BY DEF IsMap, EmptyMap

LEMMA OverlayEmpty ==
  ASSUME NEW f, NEW g, IsMap(g), DOMAIN f = {}
  PROVE  Overlay(f, g) = g
BY DEF Overlay, IsMap

LEMMA AppendRange ==
  ASSUME NEW S, NEW s \in Seq(S), NEW x \in S
  PROVE  /\ Append(s, x) \in Seq(S)
         /\ Range(Append(s, x)) = Range(s) \cup {x}
<1>1. Append(s, x) \in Seq(S) /\ DOMAIN Append(s, x) = 1 .. Len(s) + 1
  BY AppendProperties
<1>2. /\ \A i \in DOMAIN s : Append(s, x)[i] = s[i]
      /\ Append(s, x)[Len(s) + 1] = x
      /\ DOMAIN s = 1 .. Len(s) /\ Len(s) \in Nat
  BY AppendProperties
<1>3. Range(Append(s, x)) \subseteq Range(s) \cup {x}
  BY <1>1, <1>2 DEF Range
<1>4. Range(s) \cup {x} \subseteq Range(Append(s, x))
  <2>1. DOMAIN s \subseteq DOMAIN Append(s, x) /\ Len(s) + 1 \in DOMAIN Append(s, x)
    BY <1>1, <1>2
  <2> QED
    BY <1>2, <2>1 DEF Range
<1> QED
  BY <1>1, <1>3, <1>4

-----------------------------------------------------------------------------
(* fast_lookup_map *)

\* A value of fast_lookup_map<uint8_t, module>.
IsLookupMap(m) ==
  /\ m \in [id_list : Seq(Id), objects : {m.objects}, slots : 0 .. 256,
            maxindex : Id, initialized : BOOLEAN]
  /\ IsMap(m.objects) /\ DOMAIN m.objects \subseteq Id

\* The ids listed are bounded by maxindex, which is one of them; an object
\* has a slot, and its id is listed; there are slots once there is an object.
Consistent(m) ==
  /\ \A id \in Range(m.id_list) : id <= m.maxindex
  /\ m.id_list # <<>> => m.maxindex \in Range(m.id_list)
  /\ m.id_list = <<>> => m.maxindex = 0
  /\ DOMAIN m.objects \subseteq Range(m.id_list)
  /\ \A id \in DOMAIN m.objects : HasSlot(m, id)
  /\ ~m.initialized => m.slots = 0
  /\ m.initialized => DOMAIN m.objects # {}

LEMMA LookupMapType ==
  ASSUME NEW m, IsLookupMap(m)
  PROVE  /\ m.id_list \in Seq(0 .. 255)
         /\ DOMAIN m.objects \subseteq 0 .. 255
         /\ m.slots \in 0 .. 256
         /\ m.maxindex \in 0 .. 255
         /\ m.initialized \in BOOLEAN
<1> DEFINE ids == 0 .. 255
<1> HIDE DEF ids
<1>1. Id = ids
  BY DEF Id, ids
<1>2. /\ m.id_list \in Seq(ids) /\ DOMAIN m.objects \subseteq ids
      /\ m.slots \in 0 .. 256 /\ m.maxindex \in ids
  BY <1>1 DEF IsLookupMap
<1>3. m.initialized \in BOOLEAN
  BY DEF IsLookupMap
<1> QED
  BY <1>2, <1>3 DEF ids

LEMMA EmptyLookupMap == IsLookupMap(empty_map) /\ Consistent(empty_map)
<1>1. Range(<<>>) = {} /\ <<>> \in Seq(Id)
  BY DEF Range
<1> QED
  BY <1>1, EmptyMapIsMap DEF IsLookupMap, Consistent, empty_map, Id

LEMMA AddId ==
  ASSUME NEW m, NEW id \in Id, IsLookupMap(m), Consistent(m)
  PROVE  /\ IsLookupMap(add_id(m, id)) /\ Consistent(add_id(m, id))
         /\ Range(add_id(m, id).id_list) = Range(m.id_list) \cup {id}
         /\ add_id(m, id).objects = m.objects
<1> DEFINE n == add_id(m, id)
<1>1. /\ n.id_list = Append(m.id_list, id)
      /\ n.objects = m.objects /\ n.slots = m.slots /\ n.initialized = m.initialized
      /\ n.maxindex = IF id > m.maxindex THEN id ELSE m.maxindex
  BY DEF add_id, IsLookupMap
<1>2. n \in [id_list : {n.id_list}, objects : {n.objects}, slots : {n.slots},
             maxindex : {n.maxindex}, initialized : {n.initialized}]
  BY DEF add_id, IsLookupMap
<1> HIDE DEF n
<1>3. n.id_list \in Seq(Id) /\ Range(n.id_list) = Range(m.id_list) \cup {id}
  BY <1>1, AppendRange DEF IsLookupMap
<1>4. IsLookupMap(n)
  <2>1. n.slots \in 0 .. 256 /\ n.maxindex \in Id /\ n.initialized \in BOOLEAN
    BY <1>1 DEF IsLookupMap
  <2>2. IsMap(n.objects) /\ DOMAIN n.objects \subseteq Id
    BY <1>1 DEF IsLookupMap
  <2> QED
    BY <1>2, <1>3, <2>1, <2>2 DEF IsLookupMap
<1>5. Range(m.id_list) \subseteq Id /\ (m.id_list = <<>> => Range(m.id_list) = {})
  BY DEF IsLookupMap, Range
<1>6. /\ m.maxindex \in Int /\ id \in Int /\ m.maxindex >= 0 /\ id >= 0
      /\ n.maxindex = m.maxindex \/ n.maxindex = id
      /\ n.maxindex \in Int /\ id <= n.maxindex /\ m.maxindex <= n.maxindex
  <2>1. m.maxindex \in Id
    BY DEF IsLookupMap
  <2>2. n.maxindex = IF id > m.maxindex THEN id ELSE m.maxindex
    BY <1>1
  <2>3. m.maxindex \in Int /\ id \in Int /\ m.maxindex >= 0 /\ id >= 0
    BY <2>1 DEF Id
  <2>4. CASE id > m.maxindex
    BY <2>2, <2>3, <2>4
  <2>5. CASE ~(id > m.maxindex)
    BY <2>2, <2>3, <2>5
  <2> QED
    BY <2>4, <2>5
<1>7. ASSUME NEW k \in Range(n.id_list) PROVE k <= n.maxindex
  <2>1. CASE k = id
    BY <1>6, <2>1
  <2>2. CASE k \in Range(m.id_list)
    <3>1. k \in Id /\ k <= m.maxindex
      BY <1>5, <2>2 DEF Consistent
    <3> QED
      BY <1>6, <3>1 DEF Id
  <2> QED
    BY <1>3, <2>1, <2>2
<1>8. n.id_list # <<>> /\ n.maxindex \in Range(n.id_list)
  <2>1. n.id_list # <<>> /\ id \in Range(n.id_list)
    BY <1>3 DEF Range
  <2>2. CASE n.maxindex = id
    BY <2>1, <2>2
  <2>3. CASE n.maxindex # id
    <3>1. m.id_list # <<>>
      <4>1. SUFFICES ASSUME m.id_list = <<>> PROVE n.maxindex = id
        BY <2>3
      <4>2. m.maxindex = 0
        BY <4>1 DEF Consistent
      <4> QED
        BY <1>6, <4>2
    <3>2. m.maxindex \in Range(m.id_list) /\ n.maxindex = m.maxindex
      BY <1>6, <2>3, <3>1 DEF Consistent
    <3> QED
      BY <1>3, <2>1, <3>2
  <2> QED
    BY <2>2, <2>3
<1>9. /\ DOMAIN n.objects \subseteq Range(n.id_list)
      /\ \A k \in DOMAIN n.objects : HasSlot(n, k)
      /\ ~n.initialized => n.slots = 0
      /\ n.initialized => DOMAIN n.objects # {}
  BY <1>1, <1>3 DEF Consistent, HasSlot
<1> QED
  BY <1>1, <1>3, <1>4, <1>7, <1>8, <1>9 DEF Consistent, n

LEMMA InitializeStorage ==
  ASSUME NEW m, IsLookupMap(m), Consistent(m)
  PROVE  LET i == initialize_object_storage(m)
         IN  /\ IsLookupMap(i)
             /\ i.id_list = m.id_list /\ i.objects = m.objects
             /\ i.maxindex = m.maxindex /\ i.initialized = TRUE
             /\ \A id \in DOMAIN m.objects : HasSlot(i, id)
<1> DEFINE i == initialize_object_storage(m)
<1>1. CASE m.initialized
  BY <1>1 DEF initialize_object_storage, IsLookupMap, Consistent
<1>2. CASE ~m.initialized
  <2>1. i = [m EXCEPT !.slots = m.maxindex + 1, !.initialized = TRUE]
    BY <1>2 DEF initialize_object_storage
  <2>2. m.maxindex + 1 \in 0 .. 256
    <3>1. m.maxindex \in Id
      BY DEF IsLookupMap
    <3> QED
      BY <3>1 DEF Id
  <2>3. /\ i.id_list = m.id_list /\ i.objects = m.objects /\ i.slots = m.maxindex + 1
        /\ i.maxindex = m.maxindex /\ i.initialized = TRUE
    BY <2>1 DEF IsLookupMap
  <2>4. i \in [id_list : {i.id_list}, objects : {i.objects}, slots : {i.slots},
               maxindex : {i.maxindex}, initialized : {i.initialized}]
    BY <2>1 DEF IsLookupMap
  <2> HIDE DEF i
  <2>5. IsLookupMap(i)
    <3>1. i.id_list \in Seq(Id) /\ i.slots \in 0 .. 256 /\ i.maxindex \in Id
      BY <2>2, <2>3 DEF IsLookupMap
    <3>2. IsMap(i.objects) /\ DOMAIN i.objects \subseteq Id
      BY <2>3 DEF IsLookupMap
    <3> QED
      BY <2>3, <2>4, <3>1, <3>2 DEF IsLookupMap
  <2>6. DOMAIN m.objects = {}
    <3>1. m.slots = 0 /\ DOMAIN m.objects \subseteq Id
      BY <1>2 DEF Consistent, IsLookupMap
    <3>2. ASSUME NEW id \in DOMAIN m.objects PROVE id < 0
      BY <3>1 DEF Consistent, HasSlot
    <3>3. ASSUME NEW id \in DOMAIN m.objects PROVE id \in Id
      BY <3>1
    <3> QED
      BY <3>2, <3>3 DEF Id
  <2> QED
    BY <2>3, <2>5, <2>6 DEF i
<1>3. m.initialized \in BOOLEAN
  BY DEF IsLookupMap
<1> QED
  BY <1>1, <1>2, <1>3

\* If each of the new objects has a slot, they are all stored.
LEMMA AddObjects ==
  ASSUME NEW m, NEW new, IsLookupMap(m), Consistent(m),
         DOMAIN new \subseteq Range(m.id_list),
         \A id \in DOMAIN new : HasSlot(add_objects(m, new), id)
  PROVE  LET s == add_objects(m, new)
         IN  /\ IsLookupMap(s) /\ Consistent(s)
             /\ s.id_list = m.id_list /\ s.maxindex = m.maxindex
             /\ s.objects = Overlay(new, m.objects)
<1> DEFINE s == add_objects(m, new)
           i == initialize_object_storage(m)
<1>1. Range(m.id_list) \subseteq Id
  BY DEF IsLookupMap, Range
<1>2. CASE DOMAIN new = {}
  <2>1. s = m /\ IsMap(m.objects)
    BY <1>2 DEF add_objects, IsLookupMap
  <2> QED
    BY <1>2, <2>1, OverlayEmpty
<1>3. CASE DOMAIN new # {}
  <2>1. s = [i EXCEPT !.objects = Overlay(new, i.objects)]
    BY <1>3 DEF add_objects
  <2>2. /\ IsLookupMap(i)
        /\ i.id_list = m.id_list /\ i.objects = m.objects
        /\ i.maxindex = m.maxindex /\ i.initialized = TRUE
        /\ \A id \in DOMAIN m.objects : HasSlot(i, id)
    BY InitializeStorage
  <2> HIDE DEF i
  <2>3. /\ s.id_list = m.id_list /\ s.objects = Overlay(new, m.objects)
        /\ s.slots = i.slots /\ s.maxindex = m.maxindex /\ s.initialized = TRUE
    BY <2>1, <2>2 DEF IsLookupMap
  <2>4. s \in [id_list : {s.id_list}, objects : {s.objects}, slots : {s.slots},
               maxindex : {s.maxindex}, initialized : {s.initialized}]
    BY <2>1, <2>2 DEF IsLookupMap
  <2> HIDE DEF s
  <2>5. IsMap(s.objects) /\ DOMAIN s.objects = DOMAIN new \cup DOMAIN m.objects
    <3>1. /\ IsMap(Overlay(new, m.objects))
          /\ DOMAIN Overlay(new, m.objects) = DOMAIN new \cup DOMAIN m.objects
      BY OverlayMap
    <3> QED
      BY <2>3, <3>1
  <2>6. IsLookupMap(s)
    <3>1. s.id_list \in Seq(Id) /\ s.slots \in 0 .. 256 /\ s.maxindex \in Id
      BY <2>2, <2>3 DEF IsLookupMap
    <3>2. DOMAIN s.objects \subseteq Id
      BY <1>1, <2>5 DEF IsLookupMap
    <3> QED
      BY <2>3, <2>4, <2>5, <3>1, <3>2 DEF IsLookupMap
  <2>7. ASSUME NEW id \in DOMAIN s.objects PROVE HasSlot(s, id)
    <3>1. CASE id \in DOMAIN new
      BY <3>1 DEF s
    <3>2. CASE id \in DOMAIN m.objects
      BY <2>2, <2>3, <3>2 DEF HasSlot
    <3> QED
      BY <2>5, <3>1, <3>2
  <2>8. Consistent(s)
    BY <1>3, <2>3, <2>5, <2>7 DEF Consistent
  <2> QED
    BY <2>3, <2>6, <2>8 DEF s
<1> QED
  BY <1>2, <1>3

-----------------------------------------------------------------------------
(* What CrateDescription makes of the lines read so far *)

\* CrateDescription reads lines with the operators of its own CrateFile.
LEMMA SameNumbers ==
  /\ \A n : Description!uint8_t(n) = uint8_t(n)
  /\ \A f, i : Description!Complete(f, i) <=> Complete(f, i)
  /\ Description!Garbled = Garbled
BY DEF Description!uint8_t, uint8_t, Description!Complete, Complete,
       Description!Garbled, Garbled

LEMMA SameFirmware ==
  /\ \A x : Description!firmware_of(x) = firmware_of(x)
  /\ \A x : Description!IsMdpp(x) <=> IsMdpp(x)
  /\ Description!Markers = Markers
<1>1. /\ Description!Firmware = Firmware /\ Description!Markers = Markers
      /\ Description!Aliases = Aliases
  BY DEF Description!Firmware, Firmware, Description!Markers, Markers,
         Description!Aliases, Aliases
<1>2. \A x : Description!firmware_of(x) = firmware_of(x)
  BY <1>1 DEF Description!firmware_of, firmware_of
<1>3. \A x : Description!IsMdpp(x) <=> IsMdpp(x)
  BY DEF Description!IsMdpp, IsMdpp
<1> QED
  BY <1>1, <1>2, <1>3

LEMMA SameLines ==
  /\ \A f, i : Description!Counts(f, i) <=> Counts(f, i)
  /\ \A f, i : Description!LegibleLine(f, i) <=> LegibleLine(f, i)
  /\ \A l : Description!Module(l) = Module(l)
<1>1. \A f, i : Description!Counts(f, i) <=> Counts(f, i)
  BY SameNumbers, SameFirmware
  DEF Description!Counts, Counts, Description!IsMarker, IsMarker
<1>2. \A l : Description!CanBeModule(l) <=> CanBeModule(l)
  BY SameNumbers, SameFirmware DEF Description!CanBeModule, CanBeModule
<1>3. \A f, i : Description!LegibleLine(f, i) <=> LegibleLine(f, i)
  BY <1>2, SameNumbers DEF Description!LegibleLine, LegibleLine
<1>4. \A l : Description!Module(l) = Module(l)
  <2>1. Description!EmptyMap = EmptyMap
    BY DEF Description!EmptyMap, EmptyMap
  <2> QED
    BY <2>1, SameNumbers, SameFirmware DEF Description!Module, Module
<1> QED
  BY <1>1, <1>3, <1>4

LEMMA SameAddresses ==
  /\ \A mod, l : Description!Address(mod, l) = Address(mod, l)
  /\ \A a : Description!LegibleAddress(a) <=> LegibleAddress(a)
  /\ \A a : Description!Channel(a) = Channel(a)
  /\ \A mod, c : Description!HasChannel(mod, c) <=> HasChannel(mod, c)
  /\ \A mod, c, n : Description!WithName(mod, c, n) = WithName(mod, c, n)
<1>1. \A mod, l : Description!Address(mod, l) = Address(mod, l)
  BY SameNumbers DEF Description!Address, Address
<1>2. \A a : Description!LegibleAddress(a) <=> LegibleAddress(a)
  BY SameNumbers DEF Description!LegibleAddress, LegibleAddress
<1>3. \A a : Description!Channel(a) = Channel(a)
  BY SameNumbers DEF Description!Channel, Channel
<1>4. \A mod, c : Description!HasChannel(mod, c) <=> HasChannel(mod, c)
  BY DEF Description!HasChannel, HasChannel
<1>5. \A mod, c, n : Description!WithName(mod, c, n) = WithName(mod, c, n)
  BY DEF Description!WithName, WithName, Description!Put, Put
<1> QED
  BY <1>1, <1>2, <1>3, <1>4, <1>5

LEMMA DescribedNothing ==
  ASSUME NEW f
  PROVE  Description!Described(f, 0) = EmptyMap
BY DEF Description!Described, Description!Named, EmptyMap

LEMMA DescribedMore ==
  ASSUME NEW f, NEW n \in Nat
  PROVE  LET l  == f.lines[n + 1]
             id == uint8_t(l.id)
         IN  /\ Counts(f, n + 1) =>
                  Description!Described(f, n + 1)
                    = Put(Description!Described(f, n), id, Module(l))
             /\ ~Counts(f, n + 1) =>
                  Description!Described(f, n + 1) = Description!Described(f, n)
<1> DEFINE l  == f.lines[n + 1]
           id == uint8_t(l.id)
           D(m) == Description!Described(f, m)
<1>0. 1 .. n + 1 = 1 .. n \cup {n + 1} /\ n + 1 \notin 1 .. n
  OBVIOUS
<1>1. ASSUME ~Counts(f, n + 1) PROVE D(n + 1) = D(n)
  <2>1. {k \in 1 .. n + 1 : Counts(f, k)} = {k \in 1 .. n : Counts(f, k)}
    BY <1>0, <1>1
  <2>2. Description!Named(f, n + 1) = Description!Named(f, n)
    BY <2>1, SameLines DEF Description!Named
  <2>3. ASSUME NEW j PROVE Description!Naming(f, n + 1, j) = Description!Naming(f, n, j)
    BY <1>0, <1>1, SameLines DEF Description!Naming
  <2>4. ASSUME NEW j
        PROVE  Description!LastNaming(f, n + 1, j) = Description!LastNaming(f, n, j)
    BY <2>3 DEF Description!LastNaming
  <2> QED
    BY <2>2, <2>4 DEF Description!Described
<1>2. ASSUME Counts(f, n + 1) PROVE D(n + 1) = Put(D(n), id, Module(l))
  <2>1. Description!Named(f, n + 1) = {id} \cup Description!Named(f, n)
    <3>1. {k \in 1 .. n + 1 : Counts(f, k)} = {k \in 1 .. n : Counts(f, k)} \cup {n + 1}
      BY <1>0, <1>2
    <3> QED
      BY <3>1, SameLines, SameNumbers DEF Description!Named
  <2>2. Description!LastNaming(f, n + 1, id) = n + 1
    <3> DEFINE N == Description!Naming(f, n + 1, id)
    <3>1. n + 1 \in N /\ \A j \in N : j \in 1 .. n + 1
      BY <1>0, <1>2, SameLines, SameNumbers DEF Description!Naming
    <3>2. \A j \in N : j <= n + 1
      BY <3>1
    <3>3. ASSUME NEW i \in N, \A j \in N : j <= i PROVE i = n + 1
      BY <3>1, <3>2, <3>3
    <3> HIDE DEF N
    <3>4. Description!LastNaming(f, n + 1, id)
            = CHOOSE i \in N : \A j \in N : j <= i
      BY DEF Description!LastNaming, N
    <3> QED
      BY <3>1, <3>2, <3>3, <3>4
  <2>3. ASSUME NEW j, j # id
        PROVE  Description!LastNaming(f, n + 1, j) = Description!LastNaming(f, n, j)
    <3>1. Description!Naming(f, n + 1, j) = Description!Naming(f, n, j)
      BY <1>0, <2>3, SameNumbers DEF Description!Naming
    <3> QED
      BY <3>1 DEF Description!LastNaming
  <2>4. /\ DOMAIN D(n) = Description!Named(f, n)
        /\ \A j \in DOMAIN D(n) :
             D(n)[j] = Module(f.lines[Description!LastNaming(f, n, j)])
    BY SameLines DEF Description!Described
  <2>5. D(n + 1) = [j \in {id} \cup Description!Named(f, n) |->
                      Module(f.lines[Description!LastNaming(f, n + 1, j)])]
    BY <2>1, SameLines DEF Description!Described
  <2> HIDE DEF D, id
  <2> QED
    BY <2>2, <2>3, <2>4, <2>5 DEF Put
<1> QED
  BY <1>1, <1>2

-----------------------------------------------------------------------------
(* The inductive invariant *)

\* A crate map is being read: what came of its first lines.
MapRead ==
  /\ file \in MapFiles /\ file.found
  /\ line - 1 \in 0 .. Len(file.lines)
  /\ \A i \in 1 .. line - 1 : LegibleLine(file, i)
  /\ modmap = Description!Described(file, line - 1)
  /\ DOMAIN modmap \subseteq Range(crate_map.id_list)

\* While no crate map was given up, the ids listed are those of the objects
\* and of the modules about to be added.
Whole ==
  Range(crate_map.id_list) =
    DOMAIN crate_map.objects \cup (IF pc = "map" THEN DOMAIN modmap ELSE {})

\* Between two crate maps the vector reaches up to maxindex.
Roomy == (pc # "map" /\ crate_map.id_list # <<>>) => HasSlot(crate_map, crate_map.maxindex)

\* The types besides crate_map's.
OtherTypes ==
  /\ pc \in {"idle", "map", "detectors", "undefined"}
  /\ line \in Nat \ {0}
  /\ DOMAIN modmap \subseteq 0 .. 255
  /\ outcome \in {"none", "map read", "detectors read", "crate_map_not_found", "exception"}
  /\ calls \in 0 .. MaxCalls
  /\ aborted \in Nat

Inv ==
  /\ OtherTypes
  /\ IsLookupMap(crate_map) /\ Consistent(crate_map)
  /\ pc = "map" => MapRead
  /\ pc = "detectors" => file \in DetectorFiles
  /\ (aborted = 0 /\ pc # "undefined") => Whole /\ Roomy

LEMMA InvTypes == Inv => TypeOK
<1> SUFFICES ASSUME Inv PROVE TypeOK
  OBVIOUS
<1>1. OtherTypes /\ IsLookupMap(crate_map)
  BY DEF Inv
<1>2. /\ crate_map.id_list \in Seq(0 .. 255)
      /\ DOMAIN crate_map.objects \subseteq 0 .. 255
      /\ crate_map.slots \in 0 .. 256
      /\ crate_map.maxindex \in 0 .. 255
      /\ crate_map.initialized \in BOOLEAN
  BY <1>1, LookupMapType
<1> QED
  BY <1>1, <1>2, Zenon DEF OtherTypes, TypeOK

LEMMA InitInv == Init => Inv
<1> SUFFICES ASSUME Init PROVE Inv
  OBVIOUS
<1>1. IsLookupMap(crate_map) /\ Consistent(crate_map)
  BY EmptyLookupMap DEF Init
<1>2. crate_map.id_list = <<>> /\ crate_map.objects = EmptyMap
  BY DEF Init, empty_map
<1>3. Range(<<>>) = {}
  BY DEF Range
<1>4. OtherTypes
  <2>1. calls \in 0 .. MaxCalls
    BY FilesAssumption DEF Init
  <2>2. DOMAIN modmap \subseteq 0 .. 255
    BY EmptyMapIsMap DEF Init
  <2> QED
    BY <2>1, <2>2 DEF Init, OtherTypes
<1>5. Whole /\ Roomy
  BY <1>2, <1>3, EmptyMapIsMap DEF Init, Whole, Roomy
<1> QED
  BY <1>1, <1>4, <1>5 DEF Init, Inv

\* What Inv says after a step that leaves crate_map alone.
LEMMA KeepMap ==
  ASSUME Inv, UNCHANGED crate_map
  PROVE  /\ IsLookupMap(crate_map)' /\ Consistent(crate_map)'
         /\ (aborted = 0 /\ pc \in {"idle", "detectors"} /\ pc' \in {"idle", "detectors"})
              => Whole' /\ Roomy'
<1>1. IsLookupMap(crate_map') /\ Consistent(crate_map')
  BY DEF Inv
<1>2. ASSUME aborted = 0, pc \in {"idle", "detectors"}, pc' \in {"idle", "detectors"}
      PROVE  Whole' /\ Roomy'
  BY <1>2 DEF Inv, Whole, Roomy
<1> QED
  BY <1>1, <1>2

LEMMA KeepTypes ==
  ASSUME OtherTypes, pc' = "map", line' \in Nat \ {0}, DOMAIN modmap' \subseteq 0 .. 255,
         UNCHANGED <<outcome, calls, aborted>>
  PROVE  OtherTypes'
BY DEF OtherTypes

LEMMA StepOpen ==
  ASSUME Inv,
         \/ \E f \in MapFiles : OpenCrateMap(f) \/ CrateMapNotFound(f)
         \/ \E f \in DetectorFiles : OpenDetectors(f)
  PROVE  Inv'
<1>0. OtherTypes /\ MaxCalls \in Nat
  BY FilesAssumption DEF Inv
<1>1. /\ UNCHANGED crate_map /\ UNCHANGED aborted /\ pc = "idle" /\ line' = 1
      /\ calls' \in 0 .. MaxCalls /\ line' \in Nat \ {0}
  <2>1. /\ UNCHANGED <<crate_map, aborted>> /\ pc = "idle" /\ line' = 1
        /\ calls < MaxCalls /\ calls' = calls + 1
    BY DEF OpenCrateMap, CrateMapNotFound, OpenDetectors, Open
  <2>2. calls \in 0 .. MaxCalls
    BY <1>0 DEF OtherTypes
  <2> QED
    BY <1>0, <2>1, <2>2
<1>2. IsLookupMap(crate_map)' /\ Consistent(crate_map)'
  BY <1>1, KeepMap
<1>3. ASSUME NEW f \in MapFiles, OpenCrateMap(f) PROVE Inv'
  <2>1. pc' = "map" /\ modmap' = EmptyMap /\ file' = f /\ f.found /\ UNCHANGED outcome
    BY <1>3 DEF OpenCrateMap, Open
  <2>2. OtherTypes'
    <3>1. DOMAIN modmap' \subseteq 0 .. 255
      BY <2>1, EmptyMapIsMap
    <3> QED
      BY <1>0, <1>1, <2>1, <3>1, Zenon DEF OtherTypes
  <2>3. MapRead'
    <3>1. line' - 1 = 0
      BY <1>1
    <3>2. Len(f.lines) \in Nat
      BY <1>3, FilesAssumption
    <3>3. Description!Described(file', line' - 1) = EmptyMap
      BY <3>1, DescribedNothing
    <3>4. DOMAIN modmap' \subseteq Range(crate_map'.id_list)
      BY <2>1, EmptyMapIsMap
    <3>5. \A i \in 1 .. line' - 1 : LegibleLine(file', i)
      BY <3>1
    <3> QED
      BY <2>1, <3>1, <3>2, <3>3, <3>4, <3>5 DEF MapRead
  <2>4. aborted' = 0 => Whole' /\ Roomy'
    BY <1>1, <2>1, EmptyMapIsMap DEF Inv, Whole, Roomy
  <2> QED
    BY <1>2, <2>1, <2>2, <2>3, <2>4 DEF Inv
<1>4. ASSUME NEW f \in MapFiles, CrateMapNotFound(f) PROVE Inv'
  <2>1. pc' = "idle" /\ outcome' = "crate_map_not_found" /\ UNCHANGED modmap
    BY <1>1, <1>4 DEF CrateMapNotFound
  <2>2. OtherTypes'
    BY <1>0, <1>1, <2>1, Zenon DEF OtherTypes
  <2> QED
    BY <1>1, <1>2, <2>1, <2>2, KeepMap DEF Inv
<1>5. ASSUME NEW f \in DetectorFiles, OpenDetectors(f) PROVE Inv'
  <2>1. pc' = "detectors" /\ file' = f /\ UNCHANGED <<modmap, outcome>>
    BY <1>5 DEF OpenDetectors, Open
  <2>2. OtherTypes'
    BY <1>0, <1>1, <2>1, Zenon DEF OtherTypes
  <2> QED
    BY <1>1, <1>2, <1>5, <2>1, <2>2, KeepMap DEF Inv
<1> QED
  BY <1>3, <1>4, <1>5

\* Nothing is claimed of what comes after an overrun.
LEMMA AfterOverrun ==
  ASSUME Inv, Overrun
  PROVE  Inv'
<1>1. /\ pc' = "undefined" /\ OtherTypes
      /\ UNCHANGED <<line, modmap, crate_map, outcome, calls, aborted>>
  BY DEF Inv, Overrun, reading, history
<1>2. OtherTypes'
  BY <1>1, Zenon DEF OtherTypes
<1> QED
  BY <1>1, <1>2, KeepMap DEF Inv

\* Where a crate map is read.
LEMMA MapLine ==
  ASSUME Inv, pc = "map"
  PROVE  /\ file \in MapFiles /\ MapRead /\ OtherTypes
         /\ Len(file.lines) \in Nat /\ DOMAIN file.lines = 1 .. Len(file.lines)
         /\ line \in DOMAIN file.lines => line - 1 \in Nat /\ (line - 1) + 1 = line
         /\ line \notin DOMAIN file.lines => line - 1 = Len(file.lines)
         /\ line \in DOMAIN file.lines /\ LegibleLine(file, line)
              => uint8_t(next_line.id) \in Id
<1>1. file \in MapFiles /\ MapRead /\ OtherTypes /\ line - 1 \in 0 .. Len(file.lines)
  BY DEF Inv, MapRead
<1>2. file.lines \in Seq([id : Nat \cup {Garbled}, nchan : Nat \cup {Garbled}, firm : STRING])
  BY <1>1, FilesAssumption
<1>3. Len(file.lines) \in Nat /\ DOMAIN file.lines = 1 .. Len(file.lines)
  BY <1>2
<1>4. line \in Nat \ {0}
  BY <1>1 DEF OtherTypes
<1>5. ASSUME line \in DOMAIN file.lines, LegibleLine(file, line)
      PROVE  uint8_t(next_line.id) \in Id
  <2> DEFINE Lines == [id : Nat \cup {Garbled}, nchan : Nat \cup {Garbled}, firm : STRING]
  <2>1. file.lines[line] \in Lines
    <3> HIDE DEF Lines
    <3> QED
      BY <1>2, <1>3, <1>5, ElementOfSeq DEF Lines
  <2>2. next_line.id \in Nat \cup {Garbled}
    BY <2>1 DEF next_line
  <2>3. next_line.id # Garbled
    BY <1>5, Zenon DEF LegibleLine, next_line
  <2> QED
    BY <2>2, <2>3 DEF uint8_t, Id
<1>6. line \in DOMAIN file.lines => line - 1 \in Nat /\ (line - 1) + 1 = line
  BY <1>4
<1>7. line \notin DOMAIN file.lines => line - 1 = Len(file.lines)
  BY <1>1, <1>3, <1>4
<1> QED
  BY <1>1, <1>3, <1>5, <1>6, <1>7, Zenon

LEMMA StepLine ==
  ASSUME Inv, MapLineThrows \/ PassLine \/ TakeLine
  PROVE  Inv'
<1>1. /\ pc = "map" /\ line \in DOMAIN file.lines
      /\ file \in MapFiles /\ MapRead /\ OtherTypes
      /\ Len(file.lines) \in Nat /\ DOMAIN file.lines = 1 .. Len(file.lines)
      /\ line - 1 \in Nat /\ (line - 1) + 1 = line
  BY MapLine DEF MapLineThrows, PassLine, TakeLine, Reading
<1>2. LegibleLine(file, line) => uint8_t(next_line.id) \in Id
  BY <1>1, MapLine
<1>3. IsLookupMap(crate_map) /\ Consistent(crate_map)
  BY DEF Inv
<1>4. CASE MapLineThrows
  <2>1. /\ pc' = "idle" /\ outcome' = "exception" /\ aborted' = aborted + 1
        /\ UNCHANGED <<file, line, calls, modmap, crate_map>>
    BY <1>4 DEF MapLineThrows, Leave, reading
  <2>2. aborted' \in Nat /\ aborted' # 0
    <3>1. aborted \in Nat
      BY <1>1 DEF OtherTypes
    <3> QED
      BY <2>1, <3>1
  <2>3. OtherTypes'
    BY <1>1, <2>1, <2>2, Zenon DEF OtherTypes
  <2> QED
    BY <2>1, <2>2, <2>3, KeepMap DEF Inv
<1>5. ASSUME PassLine \/ TakeLine
      PROVE  /\ LegibleLine(file, line) /\ line' = line + 1
             /\ pc' = "map" /\ UNCHANGED <<file, outcome, calls, aborted>>
             /\ line' \in Nat \ {0} /\ line' - 1 = line
             /\ line' - 1 \in 0 .. Len(file.lines)
             /\ \A i \in 1 .. line' - 1 : LegibleLine(file', i)
  <2>1. /\ LegibleLine(file, line) /\ line' = line + 1
        /\ pc' = "map" /\ UNCHANGED <<file, outcome, calls, aborted>>
    BY <1>1, <1>5 DEF PassLine, TakeLine, NextLine, history
  <2>2. line \in Nat
    BY <1>1 DEF OtherTypes
  <2>3. \A i \in 1 .. line : LegibleLine(file, i)
    <3>1. \A i \in 1 .. line - 1 : LegibleLine(file, i)
      BY <1>1 DEF MapRead
    <3>2. \A i \in 1 .. line : i = line \/ i \in 1 .. line - 1
      BY <2>2
    <3> QED
      BY <2>1, <3>1, <3>2
  <2>4. line' - 1 = line
    BY <2>1, <2>2
  <2> QED
    BY <1>1, <2>1, <2>2, <2>3, <2>4
<1>6. CASE PassLine
  <2>1. ~Counts(file, line) /\ UNCHANGED <<modmap, crate_map>>
    BY <1>6 DEF PassLine
  <2>2. modmap' = Description!Described(file', line' - 1)
    <3>1. modmap = Description!Described(file, line - 1)
      BY <1>1 DEF MapRead
    <3>2. Description!Described(file, (line - 1) + 1) = Description!Described(file, line - 1)
      BY <1>1, <2>1, DescribedMore
    <3> QED
      BY <1>1, <1>5, <1>6, <2>1, <3>1, <3>2
  <2>3. MapRead'
    BY <1>1, <1>5, <1>6, <2>1, <2>2 DEF MapRead
  <2>4. OtherTypes'
    <3>1. DOMAIN modmap' \subseteq 0 .. 255
      BY <1>1, <2>1 DEF OtherTypes
    <3> QED
      BY <1>1, <1>5, <1>6, <3>1, KeepTypes
  <2>5. aborted' = 0 => Whole' /\ Roomy'
    BY <1>1, <1>5, <1>6, <2>1 DEF Inv, Whole, Roomy
  <2> QED
    BY <1>3, <1>5, <1>6, <2>1, <2>3, <2>4, <2>5 DEF Inv
<1>7. CASE TakeLine
  <2> DEFINE id == uint8_t(next_line.id)
  <2>1. /\ Counts(file, line) /\ id \in Id
        /\ modmap' = Put(modmap, id, Module(next_line))
        /\ crate_map' = add_id(crate_map, id)
    BY <1>2, <1>5, <1>7 DEF TakeLine
  <2>2. modmap' = Description!Described(file', line' - 1)
    <3>1. modmap = Description!Described(file, line - 1)
      BY <1>1 DEF MapRead
    <3>2. Description!Described(file, (line - 1) + 1)
            = Put(Description!Described(file, line - 1), id, Module(next_line))
      BY <1>1, <2>1, DescribedMore DEF next_line
    <3> QED
      BY <1>1, <1>5, <1>7, <2>1, <3>1, <3>2
  <2> HIDE DEF id
  <2>3. /\ IsLookupMap(crate_map') /\ Consistent(crate_map')
        /\ Range(crate_map'.id_list) = Range(crate_map.id_list) \cup {id}
        /\ crate_map'.objects = crate_map.objects
    BY <1>3, <2>1, AddId
  <2>4. DOMAIN modmap' = {id} \cup DOMAIN modmap
    BY <2>1, PutMap
  <2>5. MapRead'
    <3>1. DOMAIN modmap' \subseteq Range(crate_map'.id_list)
      BY <1>1, <2>3, <2>4 DEF MapRead
    <3> QED
      BY <1>1, <1>5, <1>7, <2>2, <3>1 DEF MapRead
  <2>6. OtherTypes'
    <3>1. DOMAIN modmap' \subseteq 0 .. 255
      BY <1>1, <2>1, <2>4 DEF OtherTypes, Id
    <3> QED
      BY <1>1, <1>5, <1>7, <3>1, KeepTypes
  <2>7. aborted' = 0 => Whole' /\ Roomy'
    BY <1>1, <1>5, <1>7, <2>3, <2>4 DEF Inv, Whole, Roomy
  <2> QED
    BY <1>5, <1>7, <2>3, <2>5, <2>6, <2>7 DEF Inv
<1> QED
  BY <1>4, <1>6, <1>7

\* The end of a crate map whose modules all have a slot.
LEMMA StoreModules ==
  ASSUME Inv, AtEnd("map"), AddDefined
  PROVE  /\ IsLookupMap(Stored) /\ Consistent(Stored)
         /\ Stored.id_list = crate_map.id_list
         /\ Stored.objects = Overlay(modmap, crate_map.objects)
         /\ aborted = 0 => Range(Stored.id_list) = DOMAIN Stored.objects
<1>1. pc = "map"
  BY DEF AtEnd
<1>2. IsLookupMap(crate_map) /\ Consistent(crate_map) /\ (aborted = 0 => Whole)
  BY <1>1 DEF Inv
<1>3. DOMAIN modmap \subseteq Range(crate_map.id_list)
  BY <1>1 DEF Inv, MapRead
<1>4. \A id \in DOMAIN modmap : HasSlot(add_objects(crate_map, modmap), id)
  BY DEF AddDefined, Stored
<1>5. /\ IsLookupMap(Stored) /\ Consistent(Stored)
      /\ Stored.id_list = crate_map.id_list
      /\ Stored.objects = Overlay(modmap, crate_map.objects)
  BY <1>2, <1>3, <1>4, AddObjects DEF Stored
<1>6. DOMAIN Overlay(modmap, crate_map.objects) = DOMAIN modmap \cup DOMAIN crate_map.objects
  BY OverlayMap
<1>7. ASSUME aborted = 0 PROVE Range(Stored.id_list) = DOMAIN Stored.objects
  BY <1>1, <1>2, <1>5, <1>6, <1>7 DEF Whole
<1> QED
  BY <1>5, <1>7

LEMMA NothingMissing ==
  ASSUME NEW m
  PROVE  Missing(m) = {} <=> Range(m.id_list) \subseteq DOMAIN m.objects
BY DEF Missing, Range

LEMMA StepFinish ==
  ASSUME Inv, FinishMap \/ FinishMapThrows \/ FinishMapOverrun
  PROVE  Inv'
<1>1. OtherTypes /\ AtEnd("map")
  BY DEF Inv, FinishMap, FinishMapThrows, FinishMapOverrun
<1>2. CASE FinishMap
  <2>1. /\ AddDefined /\ Missing(Stored) = {} /\ crate_map' = Stored
        /\ pc' = "idle" /\ outcome' = "map read"
        /\ UNCHANGED <<line, modmap, calls, aborted>>
    BY <1>2 DEF FinishMap, Leave, reading
  <2>2. IsLookupMap(crate_map') /\ Consistent(crate_map')
    BY <1>1, <2>1, StoreModules
  <2>3. OtherTypes'
    BY <1>1, <2>1, Zenon DEF OtherTypes
  <2>4. ASSUME aborted' = 0 PROVE Whole' /\ Roomy'
    <3>1. Range(crate_map'.id_list) = DOMAIN crate_map'.objects
      BY <1>1, <2>1, <2>4, StoreModules
    <3>2. ASSUME crate_map'.id_list # <<>> PROVE HasSlot(crate_map', crate_map'.maxindex)
      BY <2>2, <3>1, <3>2 DEF Consistent
    <3> QED
      BY <2>1, <3>1, <3>2 DEF Whole, Roomy
  <2> QED
    BY <2>1, <2>2, <2>3, <2>4 DEF Inv
<1>3. CASE FinishMapThrows
  <2>1. /\ AddDefined /\ Missing(Stored) # {} /\ crate_map' = Stored
        /\ pc' = "idle" /\ outcome' = "exception"
        /\ UNCHANGED <<line, modmap, calls, aborted>>
    BY <1>3 DEF FinishMapThrows, Leave, reading
  <2>2. IsLookupMap(crate_map') /\ Consistent(crate_map')
    BY <1>1, <2>1, StoreModules
  <2>3. OtherTypes'
    BY <1>1, <2>1, Zenon DEF OtherTypes
  <2>4. aborted' # 0
    BY <1>1, <2>1, StoreModules, NothingMissing
  <2> QED
    BY <2>1, <2>2, <2>3, <2>4 DEF Inv
<1>4. CASE FinishMapOverrun
  BY <1>4, AfterOverrun DEF FinishMapOverrun
<1> QED
  BY <1>2, <1>3, <1>4

\* An object is replaced.
LEMMA SetObject ==
  ASSUME NEW m, NEW id, NEW o, IsLookupMap(m), Consistent(m)
  PROVE  LET n == [m EXCEPT !.objects[id] = o]
         IN  /\ IsLookupMap(n) /\ Consistent(n)
             /\ n.id_list = m.id_list /\ n.slots = m.slots /\ n.maxindex = m.maxindex
             /\ n.objects = [m.objects EXCEPT ![id] = o]
             /\ DOMAIN n.objects = DOMAIN m.objects
<1> DEFINE n == [m EXCEPT !.objects[id] = o]
           new == [m.objects EXCEPT ![id] = o]
<1>1. /\ n.id_list = m.id_list /\ n.slots = m.slots /\ n.maxindex = m.maxindex
      /\ n.initialized = m.initialized /\ n.objects = new
  BY DEF IsLookupMap
<1>2. n \in [id_list : {n.id_list}, objects : {n.objects}, slots : {n.slots},
             maxindex : {n.maxindex}, initialized : {n.initialized}]
  BY DEF IsLookupMap
<1>3. DOMAIN new = DOMAIN m.objects /\ IsMap(new)
  BY DEF IsMap, IsLookupMap
<1> HIDE DEF n
<1>4. IsLookupMap(n)
  <2>1. n.id_list \in Seq(Id) /\ n.slots \in 0 .. 256 /\ n.maxindex \in Id
    BY <1>1 DEF IsLookupMap
  <2>2. DOMAIN n.objects \subseteq Id /\ n.initialized \in BOOLEAN
    BY <1>1, <1>3 DEF IsLookupMap
  <2> QED
    BY <1>1, <1>2, <1>3, <2>1, <2>2 DEF IsLookupMap
<1>5. Consistent(n)
  BY <1>1, <1>3 DEF Consistent, HasSlot
<1> QED
  BY <1>1, <1>3, <1>4, <1>5 DEF n

LEMMA StepDetectors ==
  ASSUME Inv,
         DetectorThrows \/ PassDetector \/ NameDetector \/ DetectorOverrun \/ EndDetectors
  PROVE  Inv'
<1>1. pc = "detectors" /\ OtherTypes /\ file \in DetectorFiles
  BY DEF Inv, DetectorThrows, PassDetector, NameDetector, DetectorOverrun, EndDetectors,
         Addressed, Reading, AtEnd
<1>2. line \in Nat /\ line + 1 \in Nat \ {0}
  <2>1. line \in Nat \ {0}
    BY <1>1 DEF OtherTypes
  <2> QED
    BY <2>1
<1>3. CASE DetectorThrows \/ EndDetectors
  <2>1. /\ pc' = "idle" /\ outcome' \in {"exception", "detectors read"}
        /\ UNCHANGED <<line, modmap, crate_map, calls, aborted>>
    BY <1>3 DEF DetectorThrows, EndDetectors, Leave, reading
  <2>2. OtherTypes'
    BY <1>1, <2>1, Zenon DEF OtherTypes
  <2> QED
    BY <1>1, <2>1, <2>2, KeepMap DEF Inv
<1>4. CASE PassDetector
  <2>1. /\ pc' = "detectors" /\ line' = line + 1
        /\ UNCHANGED <<file, modmap, crate_map, outcome, calls, aborted>>
    BY <1>1, <1>4 DEF PassDetector, NextLine, history
  <2>2. OtherTypes'
    BY <1>1, <1>2, <2>1, Zenon DEF OtherTypes
  <2> QED
    BY <1>1, <2>1, <2>2, KeepMap DEF Inv
<1>5. CASE NameDetector
  <2>1. /\ pc' = "detectors" /\ line' = line + 1
        /\ crate_map' =
             [crate_map EXCEPT !.objects[detector_id] = set_detector(get_module, address)]
        /\ UNCHANGED <<file, modmap, outcome, calls, aborted>>
    BY <1>1, <1>5 DEF NameDetector, NextLine, history
  <2>2. OtherTypes'
    BY <1>1, <1>2, <2>1, Zenon DEF OtherTypes
  <2>3. IsLookupMap(crate_map) /\ Consistent(crate_map)
    BY DEF Inv
  <2>4. /\ IsLookupMap(crate_map') /\ Consistent(crate_map')
        /\ crate_map'.id_list = crate_map.id_list /\ crate_map'.slots = crate_map.slots
        /\ crate_map'.maxindex = crate_map.maxindex
        /\ DOMAIN crate_map'.objects = DOMAIN crate_map.objects
    BY <2>1, <2>3, SetObject
  <2>5. aborted' = 0 => Whole' /\ Roomy'
    BY <1>1, <2>1, <2>4 DEF Inv, Whole, Roomy, HasSlot
  <2> QED
    BY <1>1, <2>1, <2>2, <2>4, <2>5 DEF Inv
<1>6. CASE DetectorOverrun
  BY <1>6, AfterOverrun DEF DetectorOverrun
<1> QED
  BY <1>3, <1>4, <1>5, <1>6

LEMMA StepInv == Inv /\ [Next]_vars => Inv'
<1> SUFFICES ASSUME Inv, [Next]_vars PROVE Inv'
  OBVIOUS
<1>1. CASE UNCHANGED vars
  <2>1. UNCHANGED <<pc, file, line, modmap, crate_map, outcome, calls, aborted>>
    BY <1>1 DEF vars, reading, history
  <2>2. OtherTypes'
    BY <2>1, Zenon DEF Inv, OtherTypes
  <2>3. /\ IsLookupMap(crate_map)' /\ Consistent(crate_map)'
        /\ (pc = "map" => MapRead)' /\ (pc = "detectors" => file \in DetectorFiles)'
    BY <2>1 DEF Inv, MapRead
  <2>4. (aborted = 0 /\ pc # "undefined" => Whole /\ Roomy)'
    BY <2>1 DEF Inv, Whole, Roomy
  <2> QED
    BY <2>2, <2>3, <2>4 DEF Inv
<1>2. CASE LookUpOverrun
  BY <1>2, AfterOverrun DEF LookUpOverrun
<1> QED
  BY <1>1, <1>2, StepOpen, StepLine, StepFinish, StepDetectors DEF Next, NoMoreCalls

-----------------------------------------------------------------------------
(* Theorems *)

(* The variables keep their types. *)
THEOREM TypeCorrect == Spec => []TypeOK
BY InitInv, StepInv, InvTypes, PTL DEF Spec

\* The id of a line of a detector correspondence has eight bits.
LEMMA DetectorId ==
  ASSUME Inv, pc = "detectors", line \in DOMAIN file.lines, next_line.id # Garbled
  PROVE  detector_id \in 0 .. 255
<1> DEFINE Lines == [id : Nat \cup {Garbled}, nums : Seq(Nat \cup {Garbled}), name : STRING]
<1>1. file.lines \in Seq(Lines)
  BY FilesAssumption DEF Inv
<1>2. file.lines[line] \in Lines
  <2> HIDE DEF Lines
  <2> QED
    BY <1>1, ElementOfSeq, LenProperties
<1>3. next_line.id \in Nat
  BY <1>2 DEF next_line
<1> QED
  BY <1>3 DEF detector_id, uint8_t

\* A lookup is in bounds, once a module was stored.
LEMMA LookupInBounds ==
  ASSUME Inv, aborted = 0, pc \in {"idle", "detectors"},
         NEW id \in 0 .. 255, ~LookupDefined(crate_map, id)
  PROVE  NoModuleYet
<1>1. IsLookupMap(crate_map) /\ Whole /\ Roomy
  BY DEF Inv
<1>2. CASE crate_map.id_list = <<>>
  <2>1. DOMAIN crate_map.objects = {}
    BY <1>1, <1>2 DEF Whole, Range
  <2> QED
    BY <2>1 DEF NoModuleYet
<1>3. CASE crate_map.id_list # <<>>
  <2>1. crate_map.maxindex < crate_map.slots
    BY <1>1, <1>3 DEF Roomy, HasSlot
  <2>2. crate_map.maxindex \in Int /\ crate_map.slots \in Int /\ id \in Int
    <3>1. crate_map.maxindex \in 0 .. 255 /\ crate_map.slots \in 0 .. 256
      BY <1>1, LookupMapType
    <3> QED
      BY <3>1
  <2>3. id <= crate_map.maxindex => id < crate_map.slots
    BY <2>1, <2>2
  <2> QED
    BY <2>3 DEF LookupDefined, HasSlot
<1> QED
  BY <1>2, <1>3

\* A crate map whose modules do not all have a slot has one with a larger id.
LEMMA NoSlotLeft ==
  ASSUME Inv, AtEnd("map"), ~AddDefined
  PROVE  LargerId
<1> DEFINE i == initialize_object_storage(crate_map)
<1>1. pc = "map" /\ IsLookupMap(crate_map) /\ Consistent(crate_map)
  BY DEF Inv, AtEnd
<1>2. DOMAIN modmap \subseteq Range(crate_map.id_list) /\ Range(crate_map.id_list) \subseteq Id
  BY <1>1 DEF Inv, MapRead, IsLookupMap, Range
<1>3. PICK id \in DOMAIN modmap : ~HasSlot(Stored, id)
  BY DEF AddDefined
<1>4. Stored = [i EXCEPT !.objects = Overlay(modmap, i.objects)]
  BY <1>3 DEF Stored, add_objects
<1>5. IsLookupMap(i) /\ (\A j \in DOMAIN crate_map.objects : HasSlot(i, j))
  BY <1>1, InitializeStorage
<1>6. Stored.slots = i.slots
  BY <1>4, <1>5 DEF IsLookupMap
<1>7. id \in Int /\ id <= crate_map.maxindex
  <2>1. id \in Range(crate_map.id_list) /\ id \in Id
    BY <1>2, <1>3
  <2>2. id <= crate_map.maxindex
    BY <1>1, <2>1 DEF Consistent
  <2> QED
    BY <2>1, <2>2 DEF Id
<1>8. ~(id < i.slots)
  BY <1>3, <1>6 DEF HasSlot
<1>9. crate_map.initialized
  <2>1. SUFFICES ASSUME ~crate_map.initialized PROVE FALSE
    OBVIOUS
  <2>2. i = [crate_map EXCEPT !.slots = crate_map.maxindex + 1, !.initialized = TRUE]
    BY <2>1 DEF initialize_object_storage
  <2>3. i.slots = crate_map.maxindex + 1
    BY <1>1, <2>2 DEF IsLookupMap
  <2>4. crate_map.maxindex \in Int
    <3>1. crate_map.maxindex \in 0 .. 255
      BY <1>1, LookupMapType
    <3> QED
      BY <3>1
  <2> HIDE DEF i
  <2> QED
    BY <1>7, <1>8, <2>3, <2>4
<1>10. DOMAIN crate_map.objects # {}
  BY <1>1, <1>9 DEF Consistent
<1>11. ASSUME NEW stored \in DOMAIN crate_map.objects PROVE stored < id
  <2>1. stored < i.slots
    BY <1>5 DEF HasSlot
  <2> HIDE DEF i
  <2>2. i.slots \in Int /\ stored \in Int
    <3>1. i.slots \in 0 .. 256
      BY <1>5, LookupMapType
    <3>2. stored \in Id
      BY <1>1 DEF IsLookupMap
    <3> QED
      BY <3>1, <3>2 DEF Id
  <2> QED
    BY <1>7, <1>8, <2>1, <2>2
<1> QED
  BY <1>1, <1>3, <1>10, <1>11 DEF LargerId

(* Whatever files are read, in whatever order: no vector is overrun but in  *)
(* the three cases, while no crate map was given up in the middle.          *)
THEOREM OverrunCorrect == Spec => OverrunHasCause
<1>1. ASSUME Inv, [Next]_vars, pc # "undefined", pc' = "undefined", aborted = 0
      PROVE  NoModuleYet \/ LargerId \/ NoSuchChannel
  <2>1. CASE LookUpOverrun
    BY <1>1, <2>1, LookupInBounds DEF LookUpOverrun
  <2>2. CASE FinishMapOverrun
    <3>1. AtEnd("map")
      BY <2>2 DEF FinishMapOverrun
    <3>2. SUFFICES ASSUME AddDefined PROVE FALSE
      BY <1>1, <3>1, NoSlotLeft
    <3>3. Missing(Stored) = {}
      BY <1>1, <3>1, <3>2, StoreModules, NothingMissing
    <3> QED
      BY <2>2, <3>2, <3>3 DEF FinishMapOverrun
  <2>3. CASE DetectorOverrun
    <3>1. pc = "detectors" /\ line \in DOMAIN file.lines
      BY <2>3 DEF DetectorOverrun, Reading
    <3>2. CASE next_line.id # Garbled /\ ~LookupDefined(crate_map, detector_id)
      <4>1. detector_id \in 0 .. 255
        BY <1>1, <3>1, <3>2, DetectorId
      <4> QED
        BY <1>1, <3>1, <3>2, <4>1, LookupInBounds
    <3>3. CASE Addressed /\ Complete(file, line) /\ ~HasChannel(get_module, Channel(address))
      BY <3>3 DEF NoSuchChannel
    <3> QED
      BY <2>3, <3>2, <3>3 DEF DetectorOverrun
  <2> QED
    BY <1>1, <2>1, <2>2, <2>3
    DEF Next, OpenCrateMap, CrateMapNotFound, OpenDetectors, Open, MapLineThrows, PassLine,
        TakeLine, NextLine, FinishMap, FinishMapThrows, DetectorThrows, PassDetector,
        NameDetector, EndDetectors, Leave, NoMoreCalls, vars
<1> QED
  BY <1>1, InitInv, StepInv, PTL DEF Spec, OverrunHasCause

(* And an iteration finds an object for each id, and every object, between  *)
(* two calls of a program without an overrun.                               *)
THEOREM IterationCorrect == Spec => []IterationFindsAll
<1>1. Inv => IterationFindsAll
  BY DEF Inv, Whole, IterationFindsAll
<1> QED
  BY <1>1, InitInv, StepInv, PTL DEF Spec

\* A crate map that was read to its end is one step of CrateDescription.
LEMMA FinishInstalls ==
  ASSUME Inv, AtEnd("map"), AddDefined, crate_map' = Stored
  PROVE  \E f \in MapFiles : Description!Install(f)
<1>1. pc = "map" /\ line \notin DOMAIN file.lines
  BY DEF AtEnd
<1>2. /\ file \in MapFiles /\ MapRead /\ line - 1 = Len(file.lines)
      /\ DOMAIN file.lines = 1 .. Len(file.lines)
  BY <1>1, MapLine
<1>3. Description!Legible(file)
  BY <1>2, SameLines DEF MapRead, Description!Legible
<1>4. crate_map'.objects = Overlay(modmap, crate_map.objects)
  BY StoreModules
<1>5. crate_map'.objects
        = Description!Overlay(Description!Described(file, Len(file.lines)), crate_map.objects)
  BY <1>2, <1>4 DEF MapRead, Overlay, Description!Overlay
<1> QED
  BY <1>2, <1>3, <1>5 DEF MapRead, Description!Install

LEMMA NameIsGiven ==
  ASSUME Inv, NameDetector
  PROVE  \E f \in DetectorFiles : \E i \in DOMAIN f.lines : Description!NameChannel(f.lines[i])
<1>1. /\ pc = "detectors" /\ line \in DOMAIN file.lines /\ has_object(crate_map, detector_id)
      /\ LegibleAddress(address) /\ HasChannel(get_module, Channel(address))
      /\ crate_map' =
           [crate_map EXCEPT !.objects[detector_id] = set_detector(get_module, address)]
  BY DEF NameDetector, Addressed, Reading
<1>2. file \in DetectorFiles /\ IsLookupMap(crate_map) /\ Consistent(crate_map)
  BY <1>1 DEF Inv
<1>3. crate_map'.objects =
        [crate_map.objects EXCEPT ![detector_id] = set_detector(get_module, address)]
  BY <1>1, <1>2, SetObject
<1>4. detector_id \in DOMAIN crate_map.objects
  BY <1>1 DEF has_object
<1>5. Description!NameChannel(file.lines[line])
  BY <1>1, <1>3, <1>4, SameNumbers, SameAddresses
  DEF Description!NameChannel, detector_id, get_module, address, set_detector, next_line
<1> QED
  BY <1>1, <1>2, <1>5

(* The line-by-line reader implements CrateDescription, for all files:      *)
(* crate maps are taken whole or not at all.                                *)
THEOREM DescriptionCorrect == Spec => ImplementsDescription
<1>1. Init => Description!Init
  BY DEF Init, empty_map, Description!Init, EmptyMap, Description!EmptyMap
<1>2. Inv /\ [Next]_vars => [Description!Next]_(crate_map.objects)
  <2> SUFFICES ASSUME Inv, [Next]_vars
               PROVE  Description!Next \/ UNCHANGED crate_map.objects
    OBVIOUS
  <2>1. CASE FinishMap \/ FinishMapThrows
    BY <2>1, FinishInstalls DEF FinishMap, FinishMapThrows, Description!Next
  <2>2. CASE NameDetector
    BY <2>2, NameIsGiven DEF Description!Next
  <2>3. CASE TakeLine
    <3>1. pc = "map" /\ line \in DOMAIN file.lines /\ LegibleLine(file, line)
          /\ crate_map' = add_id(crate_map, uint8_t(next_line.id))
      BY <2>3 DEF TakeLine, Reading
    <3>2. uint8_t(next_line.id) \in Id /\ IsLookupMap(crate_map) /\ Consistent(crate_map)
      BY <3>1, MapLine DEF Inv
    <3> QED
      BY <3>1, <3>2, AddId
  <2>4. CASE UNCHANGED crate_map
    BY <2>4
  <2> QED
    BY <2>1, <2>2, <2>3, <2>4
    DEF Next, OpenCrateMap, CrateMapNotFound, OpenDetectors, Open, MapLineThrows, PassLine,
        FinishMapOverrun, DetectorThrows, PassDetector, DetectorOverrun, LookUpOverrun,
        Overrun, EndDetectors, NoMoreCalls, vars
<1> QED
  BY <1>1, <1>2, InitInv, StepInv, PTL DEF Spec, ImplementsDescription, Description!Spec

-----------------------------------------------------------------------------
(* Modules are records *)

IsModule(o) ==
  o \in [id : {o.id}, firmware : {o.firmware}, buses : {o.buses},
         channels : {o.channels}, names : {o.names}]

Modules ==
  /\ \A id \in DOMAIN crate_map.objects : IsModule(crate_map.objects[id])
  /\ \A id \in DOMAIN modmap : IsModule(modmap[id])

LEMMA ModuleIsModule == \A l : IsModule(Module(l))
BY DEF Module, IsModule

LEMMA ModuleNamed ==
  ASSUME NEW o, NEW c, NEW n, IsModule(o)
  PROVE  /\ IsModule(WithName(o, c, n))
         /\ WithName(o, c, n).firmware = o.firmware
         /\ WithName(o, c, n).names = Put(o.names, c, n)
BY DEF WithName, IsModule

LEMMA ModulesOverlaid ==
  ASSUME NEW f, NEW g,
         \A j \in DOMAIN f : IsModule(f[j]), \A j \in DOMAIN g : IsModule(g[j])
  PROVE  \A j \in DOMAIN Overlay(f, g) : IsModule(Overlay(f, g)[j])
<1> SUFFICES ASSUME NEW j \in DOMAIN f \cup DOMAIN g PROVE IsModule(Overlay(f, g)[j])
  BY OverlayMap
<1> QED
  BY DEF Overlay

LEMMA ModulePut ==
  ASSUME NEW f, NEW x, NEW o, \A j \in DOMAIN f : IsModule(f[j]), IsModule(o)
  PROVE  \A j \in DOMAIN Put(f, x, o) : IsModule(Put(f, x, o)[j])
<1>1. DOMAIN Put(f, x, o) = {x} \cup DOMAIN f
  BY PutMap
<1>2. ASSUME NEW j \in {x} \cup DOMAIN f PROVE IsModule(Put(f, x, o)[j])
  BY <1>2 DEF Put
<1> QED
  BY <1>1, <1>2

\* What NameDetector does to the modules.
LEMMA Renamed ==
  ASSUME Inv, Modules, NameDetector
  PROVE  LET o == crate_map.objects[detector_id]
             p == WithName(o, Channel(address), address.name)
         IN  /\ detector_id \in DOMAIN crate_map.objects
             /\ crate_map'.objects = [crate_map.objects EXCEPT ![detector_id] = p]
             /\ IsModule(p) /\ p.firmware = o.firmware
             /\ p.names = Put(o.names, Channel(address), address.name)
<1>1. /\ detector_id \in DOMAIN crate_map.objects
      /\ crate_map' =
           [crate_map EXCEPT !.objects[detector_id] = set_detector(get_module, address)]
  BY DEF NameDetector, Addressed, has_object
<1>2. IsLookupMap(crate_map) /\ Consistent(crate_map)
  BY DEF Inv
<1>3. crate_map'.objects =
        [crate_map.objects EXCEPT ![detector_id] = set_detector(get_module, address)]
  BY <1>1, <1>2, SetObject
<1>4. set_detector(get_module, address)
        = WithName(crate_map.objects[detector_id], Channel(address), address.name)
  BY DEF set_detector, get_module
<1>5. IsModule(crate_map.objects[detector_id])
  BY <1>1 DEF Modules
<1> QED
  BY <1>1, <1>3, <1>4, <1>5, ModuleNamed

LEMMA StepModules ==
  ASSUME Inv, Modules, [Next]_vars
  PROVE  Modules'
<1>1. CASE UNCHANGED <<modmap, crate_map>>
  BY <1>1 DEF Modules
<1>2. ASSUME NEW f \in MapFiles, OpenCrateMap(f) PROVE Modules'
  <2>1. modmap' = EmptyMap /\ UNCHANGED crate_map
    BY <1>2 DEF OpenCrateMap, Open
  <2> QED
    BY <2>1, EmptyMapIsMap DEF Modules
<1>3. CASE TakeLine
  <2> DEFINE id == uint8_t(next_line.id)
  <2>1. /\ pc = "map" /\ line \in DOMAIN file.lines /\ LegibleLine(file, line)
        /\ modmap' = Put(modmap, id, Module(next_line)) /\ crate_map' = add_id(crate_map, id)
    BY <1>3 DEF TakeLine, Reading
  <2>2. id \in Id /\ IsLookupMap(crate_map) /\ Consistent(crate_map)
    BY <2>1, MapLine DEF Inv
  <2> HIDE DEF id
  <2>3. crate_map'.objects = crate_map.objects
    BY <2>1, <2>2, AddId
  <2>4. \A j \in DOMAIN modmap' : IsModule(modmap'[j])
    BY <2>1, ModulePut, ModuleIsModule DEF Modules
  <2> QED
    BY <2>3, <2>4 DEF Modules
<1>4. CASE FinishMap \/ FinishMapThrows
  <2>1. AtEnd("map") /\ AddDefined /\ crate_map' = Stored /\ UNCHANGED modmap
    BY <1>4 DEF FinishMap, FinishMapThrows
  <2>2. crate_map'.objects = Overlay(modmap, crate_map.objects)
    BY <2>1, StoreModules
  <2>3. \A j \in DOMAIN crate_map'.objects : IsModule(crate_map'.objects[j])
    BY <2>2, ModulesOverlaid DEF Modules
  <2> QED
    BY <2>1, <2>3 DEF Modules
<1>5. CASE NameDetector
  <2>1. UNCHANGED modmap
    BY <1>5 DEF NameDetector
  <2>2. \A j \in DOMAIN crate_map'.objects : IsModule(crate_map'.objects[j])
    BY <1>5, Renamed DEF Modules
  <2> QED
    BY <2>1, <2>2 DEF Modules
<1> QED
  BY <1>1, <1>2, <1>3, <1>4, <1>5
  DEF Next, CrateMapNotFound, OpenDetectors, Open, MapLineThrows, PassLine,
      FinishMapOverrun, DetectorThrows, PassDetector, DetectorOverrun, LookUpOverrun,
      Overrun, EndDetectors, NoMoreCalls, vars

-----------------------------------------------------------------------------
(* The lines read so far *)

IdOf(i) == uint8_t(file.lines[i].id)
AddressOf(i) == Address(crate_map.objects[IdOf(i)], file.lines[i])
ChannelOf(i) == Channel(AddressOf(i))

\* Line k is the last of the first n - 1 lines that name the channel of line i.
LastBefore(n, k, i) ==
  /\ k \in LinesOf(IdOf(i), ChannelOf(i)) /\ k < n
  /\ \A j \in LinesOf(IdOf(i), ChannelOf(i)) : j < n => j <= k

NamedBefore(n) ==
  \A i \in DOMAIN file.lines : (i < n /\ Complete(file, i)) =>
    /\ IdOf(i) \in DOMAIN crate_map.objects
    /\ \E k \in DOMAIN file.lines :
         LastBefore(n, k, i) /\ get_detector(IdOf(i), ChannelOf(i)) = AddressOf(k).name

AllNamed ==
  /\ DOMAIN file.lines \subseteq Int
  /\ \A i \in DOMAIN file.lines : Complete(file, i) =>
       \E k \in LinesOf(IdOf(i), ChannelOf(i)) :
         /\ \A j \in LinesOf(IdOf(i), ChannelOf(i)) : j <= k
         /\ get_detector(IdOf(i), ChannelOf(i)) = AddressOf(k).name

DInv ==
  /\ Inv /\ Modules
  /\ pc = "detectors" => NamedBefore(line)
  /\ (pc = "idle" /\ outcome = "detectors read") => AllNamed

\* A line is at a place of the file.
LEMMA DetectorLines ==
  ASSUME Inv, pc = "detectors"
  PROVE  /\ line \in Nat \ {0}
         /\ Len(file.lines) \in Nat /\ DOMAIN file.lines = 1 .. Len(file.lines)
<1>1. file \in DetectorFiles /\ OtherTypes
  BY DEF Inv
<1>2. file.lines \in Seq([id : Nat \cup {Garbled}, nums : Seq(Nat \cup {Garbled}),
                          name : STRING])
  BY <1>1, FilesAssumption
<1>3. Len(file.lines) \in Nat /\ DOMAIN file.lines = 1 .. Len(file.lines)
  BY <1>2, LenProperties
<1>4. line \in Nat \ {0}
  BY <1>1 DEF OtherTypes
<1> QED
  BY <1>3, <1>4

LEMMA Unchanged ==
  ASSUME UNCHANGED <<file, line, crate_map>>
  PROVE  /\ NamedBefore(line) => NamedBefore(line)'
         /\ AllNamed => AllNamed'
<1>1. ASSUME NEW id, NEW c
      PROVE  LinesOf(id, c)' = LinesOf(id, c) /\ get_detector(id, c)' = get_detector(id, c)
  BY DEF LinesOf, get_detector
<1>2. ASSUME NEW i
      PROVE  IdOf(i)' = IdOf(i) /\ AddressOf(i)' = AddressOf(i) /\ ChannelOf(i)' = ChannelOf(i)
  BY DEF IdOf, AddressOf, ChannelOf
<1>3. \A n, k, i : LastBefore(n, k, i)' <=> LastBefore(n, k, i)
  BY <1>1, <1>2 DEF LastBefore
<1> QED
  BY <1>1, <1>2, <1>3 DEF NamedBefore, AllNamed

LEMMA NamesPass ==
  ASSUME DInv, PassDetector
  PROVE  NamedBefore(line)'
<1>1. /\ pc = "detectors" /\ line' = line + 1 /\ ~Complete(file, line)
      /\ UNCHANGED <<file, crate_map>> /\ NamedBefore(line)
  BY DEF PassDetector, Addressed, Reading, NextLine, DInv
<1>2. /\ line \in Nat /\ DOMAIN file.lines \subseteq Nat
  BY <1>1, DetectorLines DEF DInv
<1>3. \A i \in DOMAIN file.lines : Complete(file, i) => (i < line + 1 <=> i < line)
  BY <1>1, <1>2
<1>4. ASSUME NEW id, NEW c
      PROVE  LinesOf(id, c)' = LinesOf(id, c) /\ \A j \in LinesOf(id, c) : j < line + 1 <=> j < line
  BY <1>1, <1>3 DEF LinesOf
<1>5. ASSUME NEW i
      PROVE  IdOf(i)' = IdOf(i) /\ AddressOf(i)' = AddressOf(i) /\ ChannelOf(i)' = ChannelOf(i)
  BY <1>1 DEF IdOf, AddressOf, ChannelOf
<1>6. ASSUME NEW k, NEW i, LastBefore(line, k, i) PROVE LastBefore(line, k, i)'
  <2>1. LinesOf(IdOf(i), ChannelOf(i))' = LinesOf(IdOf(i), ChannelOf(i))
    BY <1>4, <1>5
  <2> QED
    BY <1>1, <1>4, <1>6, <2>1 DEF LastBefore
<1>7. ASSUME NEW id, NEW c PROVE get_detector(id, c)' = get_detector(id, c)
  BY <1>1 DEF get_detector
<1> QED
  BY <1>1, <1>3, <1>5, <1>6, <1>7 DEF NamedBefore

LEMMA NamesGiven ==
  ASSUME DInv, NameDetector
  PROVE  NamedBefore(line)'
<1> DEFINE o == crate_map.objects[detector_id]
           ch == Channel(address)
<1>1. /\ pc = "detectors" /\ line' = line + 1 /\ Complete(file, line)
      /\ line \in DOMAIN file.lines /\ UNCHANGED file /\ NamedBefore(line)
      /\ Inv /\ Modules
  BY DEF NameDetector, Addressed, Reading, NextLine, DInv
<1>2. /\ line \in Nat /\ DOMAIN file.lines \subseteq Nat
  BY <1>1, DetectorLines
<1>3. PICK p : /\ detector_id \in DOMAIN crate_map.objects
               /\ crate_map'.objects = [crate_map.objects EXCEPT ![detector_id] = p]
               /\ p.firmware = o.firmware /\ p.names = Put(o.names, ch, address.name)
  BY <1>1, Renamed
<1>4. /\ detector_id = IdOf(line) /\ address = AddressOf(line) /\ ch = ChannelOf(line)
  BY DEF detector_id, next_line, IdOf, address, AddressOf, ChannelOf, get_module
<1>5. ASSUME NEW i, IdOf(i) \in DOMAIN crate_map.objects
      PROVE  IdOf(i)' = IdOf(i) /\ AddressOf(i)' = AddressOf(i) /\ ChannelOf(i)' = ChannelOf(i)
  <2>1. IdOf(i)' = IdOf(i)
    BY <1>1 DEF IdOf
  <2>2. crate_map'.objects[IdOf(i)].firmware = crate_map.objects[IdOf(i)].firmware
    BY <1>3, <1>5
  <2>3. AddressOf(i)' = AddressOf(i)
    BY <1>1, <2>1, <2>2 DEF AddressOf, Address
  <2> QED
    BY <2>1, <2>3 DEF ChannelOf
<1>6. ASSUME NEW id \in DOMAIN crate_map.objects, NEW c PROVE LinesOf(id, c)' = LinesOf(id, c)
  <2>1. crate_map'.objects[id].firmware = crate_map.objects[id].firmware
    BY <1>3
  <2>2. \A l : Address(crate_map'.objects[id], l) = Address(crate_map.objects[id], l)
    BY <2>1 DEF Address
  <2> QED
    BY <1>1, <2>2 DEF LinesOf
<1>7. line \in LinesOf(detector_id, ch)
  BY <1>1, <1>4 DEF LinesOf, IdOf, AddressOf, ChannelOf
<1>8. ASSUME NEW id, NEW c, id = detector_id, c = ch
      PROVE  get_detector(id, c)' = address.name
  <2>1. crate_map'.objects[id].names = Put(o.names, c, address.name)
    BY <1>3, <1>8
  <2>2. \A f, x, v : x \in DOMAIN Put(f, x, v) /\ Put(f, x, v)[x] = v
    BY DEF Put
  <2> QED
    BY <2>1, <2>2 DEF get_detector
<1>9. ASSUME NEW id \in DOMAIN crate_map.objects, NEW c, id # detector_id \/ c # ch
      PROVE  get_detector(id, c)' = get_detector(id, c)
  <2>1. CASE id # detector_id
    BY <1>3, <2>1 DEF get_detector
  <2>2. CASE id = detector_id /\ c # ch
    <3>1. crate_map'.objects[id].names = Put(o.names, ch, address.name)
      BY <1>3, <2>2
    <3>2. \A f, x, v, y : y # x => /\ y \in DOMAIN Put(f, x, v) <=> y \in DOMAIN f
                                   /\ y \in DOMAIN f => Put(f, x, v)[y] = f[y]
      BY DEF Put
    <3>3. crate_map.objects[id].names = o.names
      BY <2>2
    <3> HIDE DEF o, ch
    <3> QED
      BY <2>2, <3>1, <3>2, <3>3 DEF get_detector
  <2> QED
    BY <1>9, <2>1, <2>2
<1> HIDE DEF o, ch
<1>10. DOMAIN crate_map'.objects = DOMAIN crate_map.objects
  BY <1>3
<1> SUFFICES ASSUME NEW i \in DOMAIN file.lines, i < line + 1, Complete(file, i)
             PROVE  /\ IdOf(i) \in DOMAIN crate_map.objects
                    /\ \E k \in DOMAIN file.lines :
                         /\ LastBefore(line, k, i)'
                         /\ get_detector(IdOf(i), ChannelOf(i))' = AddressOf(k).name
                         /\ IdOf(k) = IdOf(i)
  <2> SUFFICES ASSUME NEW i \in DOMAIN file.lines, i < line + 1, Complete(file, i)
               PROVE  /\ IdOf(i)' \in DOMAIN crate_map'.objects
                      /\ \E k \in DOMAIN file.lines :
                           /\ LastBefore(line, k, i)'
                           /\ get_detector(IdOf(i), ChannelOf(i))' = AddressOf(k)'.name
    BY <1>1 DEF NamedBefore
  <2>1. PICK k \in DOMAIN file.lines :
          /\ LastBefore(line, k, i)'
          /\ get_detector(IdOf(i), ChannelOf(i))' = AddressOf(k).name
          /\ IdOf(k) = IdOf(i) /\ IdOf(i) \in DOMAIN crate_map.objects
    OBVIOUS
  <2>2. AddressOf(k)' = AddressOf(k) /\ IdOf(i)' = IdOf(i)
    BY <1>5, <2>1
  <2> QED
    BY <1>10, <2>1, <2>2
<1>11. CASE IdOf(i) = detector_id /\ ChannelOf(i) = ch
  <2>1. IdOf(i) \in DOMAIN crate_map.objects
    BY <1>3, <1>11
  <2>2. PICK k \in DOMAIN file.lines : k = line
    BY <1>1
  <2>3. LinesOf(IdOf(i), ChannelOf(i))' = LinesOf(IdOf(i), ChannelOf(i))
    BY <1>5, <1>6, <2>1
  <2>4. LinesOf(IdOf(i), ChannelOf(i)) \subseteq Nat
    BY <1>2 DEF LinesOf
  <2>5. k \in LinesOf(IdOf(i), ChannelOf(i))
    BY <1>7, <1>11, <2>2
  <2>6. LastBefore(line, k, i)'
    BY <1>1, <1>2, <2>2, <2>3, <2>4, <2>5 DEF LastBefore
  <2>7. get_detector(IdOf(i), ChannelOf(i))' = AddressOf(k).name
    BY <1>4, <1>5, <1>8, <1>11, <2>1, <2>2
  <2>8. IdOf(k) = IdOf(i)
    BY <1>4, <1>11, <2>2
  <2> QED
    BY <2>1, <2>6, <2>7, <2>8
<1>12. CASE ~(IdOf(i) = detector_id /\ ChannelOf(i) = ch)
  <2>1. i < line
    BY <1>2, <1>4, <1>12
  <2>2. IdOf(i) \in DOMAIN crate_map.objects
    BY <1>1, <2>1 DEF NamedBefore
  <2>3. PICK k \in DOMAIN file.lines :
          /\ LastBefore(line, k, i)
          /\ get_detector(IdOf(i), ChannelOf(i)) = AddressOf(k).name
    BY <1>1, <2>1 DEF NamedBefore
  <2>4. LinesOf(IdOf(i), ChannelOf(i))' = LinesOf(IdOf(i), ChannelOf(i))
    BY <1>5, <1>6, <2>2
  <2>5. \A j \in LinesOf(IdOf(i), ChannelOf(i)) : j # line /\ j \in Nat
    BY <1>2, <1>4, <1>12 DEF LinesOf, IdOf, ChannelOf, AddressOf
  <2>6. LastBefore(line, k, i)'
    BY <1>1, <1>2, <2>3, <2>4, <2>5 DEF LastBefore
  <2>7. get_detector(IdOf(i), ChannelOf(i))' = get_detector(IdOf(i), ChannelOf(i))
    BY <1>5, <1>9, <1>12, <2>2
  <2>8. IdOf(k) = IdOf(i)
    BY <2>3 DEF LastBefore, LinesOf, IdOf
  <2> QED
    BY <2>2, <2>3, <2>6, <2>7, <2>8
<1> QED
  BY <1>11, <1>12

\* At the end of the file, all its lines have been read.
LEMMA NamesComplete ==
  ASSUME DInv, EndDetectors
  PROVE  AllNamed'
<1>1. /\ pc = "detectors" /\ line \notin DOMAIN file.lines
      /\ UNCHANGED <<file, line, crate_map>> /\ NamedBefore(line) /\ Inv
  BY DEF EndDetectors, AtEnd, Leave, reading, DInv
<1>2. /\ DOMAIN file.lines \subseteq Int /\ \A i \in DOMAIN file.lines : i < line
  BY <1>1, DetectorLines
<1>3. \A id, c : LinesOf(id, c) \subseteq DOMAIN file.lines
  BY DEF LinesOf
<1>4. AllNamed
  BY <1>1, <1>2, <1>3 DEF NamedBefore, LastBefore, AllNamed
<1> QED
  BY <1>1, <1>4, Unchanged

\* Nothing else changes a file, a module or a name that the invariant speaks of.
LEMMA StepDInv == DInv /\ [Next]_vars => DInv'
<1> SUFFICES ASSUME DInv, [Next]_vars PROVE DInv'
  OBVIOUS
<1>1. Inv' /\ Modules'
  BY StepInv, StepModules DEF DInv
<1>2. CASE PassDetector \/ NameDetector
  <2>1. pc' = "detectors"
    BY <1>2 DEF PassDetector, NameDetector, Addressed, Reading, NextLine
  <2> QED
    BY <1>1, <1>2, <2>1, NamesPass, NamesGiven DEF DInv
<1>3. CASE EndDetectors
  <2>1. pc' = "idle"
    BY <1>3 DEF EndDetectors, Leave
  <2> QED
    BY <1>1, <1>3, <2>1, NamesComplete DEF DInv
<1>4. ASSUME NEW f \in DetectorFiles, OpenDetectors(f) PROVE DInv'
  <2>1. pc' = "detectors" /\ line' = 1 /\ file' = f
    BY <1>4 DEF OpenDetectors, Open
  <2>2. DOMAIN f.lines = 1 .. Len(f.lines) /\ Len(f.lines) \in Nat
    BY <1>4, FilesAssumption
  <2>3. NamedBefore(line)'
    BY <2>1, <2>2 DEF NamedBefore
  <2> QED
    BY <1>1, <2>1, <2>3 DEF DInv
<1>5. CASE UNCHANGED vars
  <2>1. UNCHANGED <<pc, file, line, crate_map, outcome>>
    BY <1>5 DEF vars, reading
  <2>2. (pc = "detectors" => NamedBefore(line))'
    BY <2>1, Unchanged DEF DInv
  <2>3. (pc = "idle" /\ outcome = "detectors read" => AllNamed)'
    BY <2>1, Unchanged DEF DInv
  <2> QED
    BY <1>1, <2>2, <2>3 DEF DInv
<1>6. ASSUME pc' # "detectors", pc' # "idle" \/ outcome' # "detectors read" PROVE DInv'
  BY <1>1, <1>6 DEF DInv
<1>7. ASSUME NEW f \in MapFiles, OpenCrateMap(f) \/ CrateMapNotFound(f) PROVE DInv'
  <2>1. CASE OpenCrateMap(f)
    BY <1>6, <2>1 DEF OpenCrateMap
  <2>2. CASE CrateMapNotFound(f)
    <3>1. pc' = "idle" /\ outcome' = "crate_map_not_found"
      BY <2>2 DEF CrateMapNotFound, Open
    <3> QED
      BY <1>6, <3>1
  <2> QED
    BY <1>7, <2>1, <2>2
<1>8. CASE MapLineThrows \/ PassLine \/ TakeLine \/ FinishMap \/ FinishMapThrows
           \/ FinishMapOverrun \/ DetectorThrows \/ DetectorOverrun \/ LookUpOverrun
  BY <1>6, <1>8
  DEF MapLineThrows, PassLine, TakeLine, Reading, NextLine, FinishMap, FinishMapThrows,
      FinishMapOverrun, DetectorThrows, DetectorOverrun, LookUpOverrun, Leave, Overrun
<1> QED
  BY <1>2, <1>3, <1>4, <1>5, <1>7, <1>8 DEF Next, NoMoreCalls

LEMMA InitDInv == Init => DInv
<1> SUFFICES ASSUME Init PROVE DInv
  OBVIOUS
<1>1. DOMAIN crate_map.objects = {} /\ DOMAIN modmap = {}
  BY EmptyMapIsMap DEF Init, empty_map
<1> QED
  BY <1>1, InitInv DEF Init, DInv, Modules

-----------------------------------------------------------------------------
(* When a detector correspondence has been read, each channel it names has  *)
(* the name of the last of its lines that does so, whatever names and crate *)
(* maps were read before, for all files.                                    *)
THEOREM NamesCorrect == Spec => []NamesAsRead
<1>1. DInv => NamesAsRead
  <2> SUFFICES ASSUME AllNamed, NEW i \in DOMAIN file.lines, Complete(file, i)
               PROVE  LET id == uint8_t(file.lines[i].id)
                          a  == Address(crate_map.objects[id], file.lines[i])
                          last == CHOOSE k \in LinesOf(id, Channel(a)) :
                                    \A j \in LinesOf(id, Channel(a)) : j <= k
                      IN  get_detector(id, Channel(a))
                            = Address(crate_map.objects[id], file.lines[last]).name
    BY DEF DInv, NamesAsRead
  <2> DEFINE L == LinesOf(IdOf(i), ChannelOf(i))
             last == CHOOSE k \in L : \A j \in L : j <= k
  <2>1. PICK k \in L : /\ \A j \in L : j <= k
                       /\ get_detector(IdOf(i), ChannelOf(i)) = AddressOf(k).name
    BY DEF AllNamed
  <2>2. L \subseteq Int
    BY DEF AllNamed, LinesOf
  <2>3. \A m \in L : IdOf(m) = IdOf(i)
    BY DEF LinesOf, IdOf
  <2> HIDE DEF L
  <2>4. last \in L /\ \A j \in L : j <= last
    BY <2>1
  <2> HIDE DEF last
  <2>5. last = k
    BY <2>1, <2>2, <2>4
  <2>6. IdOf(k) = IdOf(i)
    BY <2>1, <2>3
  <2> QED
    BY <2>1, <2>5, <2>6 DEF L, last, IdOf, ChannelOf, AddressOf
<1> QED
  BY <1>1, InitDInv, StepDInv, PTL DEF Spec
=============================================================================
