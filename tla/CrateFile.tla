----------------------------- MODULE CrateFile -----------------------------
(***************************************************************************)
(* The two text files that describe an experiment, as                      *)
(* experimental_setup (lib/mesytec_experimental_setup.cpp) reads them, and *)
(* the mesytec::module a line of the crate map stands for.                 *)
(*                                                                         *)
(* A file is [found, lines, terminated]: whether it can be opened, its     *)
(* lines, and whether the last of them ends in a newline.                  *)
(*   - A line of the crate map is [id, nchan, firm].                       *)
(*   - A line of the detector correspondence is [id, nums, name]: the one  *)
(*     or two numbers that follow the id, and the rest of the line.        *)
(* Numbers have no sign; Garbled is a field that std::stoi throws at.      *)
(***************************************************************************)
EXTENDS MesytecWords, Maps, Integers, SequencesExt

Garbled == -1

\* Mutant: the number is kept as it is.
Untruncated(n) == n

\* An int assigned to a uint8_t.
uint8_t(n) == n % 256

\* getline leaves the stream good unless the file ends before the newline.
Complete(f, i) == i < Len(f.lines) \/ f.terminated

-----------------------------------------------------------------------------
(* The crate map *)

\* "will silently ignore"
Markers == {"START_READOUT", "END_READOUT"}
Aliases == [SCP |-> "MDPP_SCP", QDC |-> "MDPP_QDC", CSI |-> "MDPP_CSI"]

firmware_of(firm) ==
  CASE firm \in Firmware \cup Markers -> firm
    [] firm \in DOMAIN Aliases        -> Aliases[firm]
    [] OTHER                          -> "UNKNOWN"

IsMarker(l) == firmware_of(l.firm) \in Markers

\* The constructor of module throws at an MDPP that has not 16 or 32 channels.
CanBeModule(l) ==
  /\ firmware_of(l.firm) # "UNKNOWN"
  /\ IsMdpp(firmware_of(l.firm)) => uint8_t(l.nchan) \in {16, 32}

LegibleLine(f, i) ==
  LET l == f.lines[i]
  IN  /\ l.id # Garbled /\ l.nchan # Garbled
      /\ Complete(f, i) => CanBeModule(l)

\* The lines that become modules.
Counts(f, i) == Complete(f, i) /\ ~IsMarker(f.lines[i])

\* A module has buses 0 .. buses - 1 of the same number of channels, each
\* with the name of its detector ("names" has those that were set).
Module(l) ==
  LET firmware == firmware_of(l.firm)
      nchan    == uint8_t(l.nchan)
  IN  [id       |-> uint8_t(l.id),
       firmware |-> firmware,
       buses    |-> IF IsMdpp(firmware) THEN 1 ELSE IF firmware = "VMMR" THEN nchan ELSE 0,
       channels |-> IF IsMdpp(firmware) THEN nchan ELSE IF firmware = "VMMR" THEN 128 ELSE 0,
       names    |-> EmptyMap]

-----------------------------------------------------------------------------
(* The detector correspondence *)

\* The bus and the channel that a line gives for a module, and the name: a
\* VMMR's lines name a bus, and what follows the channel is the name.  The
\* second number that a VMMR's line lacks is sought in the name.
Address(mod, l) ==
  IF mod.firmware = "VMMR"
  THEN [bus  |-> l.nums[1],
        chan |-> IF Len(l.nums) = 2 THEN l.nums[2] ELSE Garbled,
        name |-> <<l.name>>]
  ELSE [bus |-> 0, chan |-> l.nums[1], name |-> Append(Tail(l.nums), l.name)]

LegibleAddress(a) == a.bus # Garbled /\ a.chan # Garbled

\* The channel an address means.
Channel(a) == <<uint8_t(a.bus), uint8_t(a.chan)>>

HasChannel(mod, c) == c[1] < mod.buses /\ c[2] < mod.channels

WithName(mod, c, name) == [mod EXCEPT !.names = Put(@, c, name)]
=============================================================================
