------------------------ MODULE ExperimentalSetupMC ------------------------
(***************************************************************************)
(* An instance of ExperimentalSetup for TLC: crate maps and detector       *)
(* correspondences, whole and broken.                                      *)
(***************************************************************************)
EXTENDS ExperimentalSetup

MapLine(id, nchan, firm) == [id |-> id, nchan |-> nchan, firm |-> firm]
Det(id, nums, name) == [id |-> id, nums |-> nums, name |-> name]
File(lines) == [found |-> TRUE, lines |-> lines, terminated |-> TRUE]
Cut(f) == [f EXCEPT !.terminated = FALSE]
NoFile == [found |-> FALSE, lines |-> <<>>, terminated |-> TRUE]

\* The example of read_crate_map's documentation, with a TGV (ids 0, 16, 32, 48).
Example == <<MapLine(0, 16, "MDPP_SCP"), MapLine(16, 32, "QDC"),
             MapLine(32, 8, "VMMR"), MapLine(48, 0, "TGV")>>

MCMapFiles ==
  {File(Example),
   \* Twice the same id, the second time cut to eight bits, and the last line
   \* without a newline.
   Cut(File(<<MapLine(16, 32, "MDPP_QDC"), MapLine(272, 16, "SCP"), MapLine(99, 16, "SCP")>>)),
   \* Given up in the middle, for each of the reasons.
   File(<<MapLine(64, 1, "VMMR"), MapLine(1, 8, "MDPP_SCP")>>),
   File(<<MapLine(7, 16, "CSI"), MapLine(8, 16, "MDPP")>>),
   File(<<MapLine(2, 0, "MVLC_SCALER"), MapLine(Garbled, 16, "SCP")>>),
   \* A larger id than the example's; no module at all.
   File(<<MapLine(0, 0, "START_READOUT"), MapLine(200, 16, "SCP")>>),
   File(<<MapLine(0, 0, "START_READOUT"), MapLine(0, 0, "END_READOUT")>>),
   NoFile}

\* Crate maps without a fault, and no detector correspondence.
LegibleMapFiles ==
  {File(Example), File(<<MapLine(0, 16, "SCP"), MapLine(16, 32, "QDC")>>),
   File(<<MapLine(0, 0, "START_READOUT"), MapLine(200, 16, "SCP")>>),
   File(<<MapLine(5, 16, "SCP")>>)}
NoFiles == {}

MCDetectorFiles ==
  {\* The example of the documentation; a name given twice.
   File(<<Det(0, <<0>>, "SI_0601"), Det(16, <<2>>, "CSI_0603"),
          Det(32, <<1, 63>>, "PISTA_DE_63"), Det(288, <<257, 319>>, "PISTA_DE_64")>>),
   \* A bus given to an MDPP, the last line without a newline.
   Cut(File(<<Det(16, <<1, 3>>, "SI_0602"), Det(16, <<0>>, "SI_0603")>>)),
   \* No bus given to a VMMR, a module that is in no crate map, no number.
   File(<<Det(16, <<4>>, "SI_0604"), Det(32, <<5>>, "PISTA_E_5")>>),
   File(<<Det(16, <<4>>, "SI_0605"), Det(17, <<5>>, "SI_0606")>>),
   File(<<Det(Garbled, <<5>>, "SI_0607")>>),
   \* A channel the module does not have, a module without channels.
   File(<<Det(16, <<40>>, "SI_0608")>>),
   File(<<Det(48, <<0>>, "TGV_0")>>),
   NoFile}

=============================================================================
