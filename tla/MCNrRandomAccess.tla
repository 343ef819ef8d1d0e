-------------------------- MODULE MCNrRandomAccess --------------------------
(***************************************************************************)
(* Rows of contrib/nr/csv/PRACH_configurations.csv for NrRandomAccess, of  *)
(* those with PRACH subframes in every frame.                              *)
(***************************************************************************)
EXTENDS NrRandomAccess

Config(SfN, numSlots, occInSlot, symStart, duration) ==
    [SfN |-> SfN, numSlots |-> numSlots, occInSlot |-> occInSlot,
     symStart |-> symStart, duration |-> duration]

\* Indices 162 and 164 (the latter with two PRACH slots per subframe).
AgreedConfigs == {Config(<<4, 9>>, 1, 1, 2, 12), Config(<<8, 9>>, 2, 1, 0, 12)}

\* Index 163.
SevenNine == {Config(<<7, 9>>, 1, 1, 2, 12)}
=============================================================================
