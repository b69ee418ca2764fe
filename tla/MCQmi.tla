-------------------------------- MODULE MCQmi --------------------------------
(* The mask loc.cpp gives to loc_eng_init, with the sentences from the     *)
(* modem and with those loc_eng makes itself (NMEA_1HZ taken away).        *)
EXTENDS QmiMessages

LocEngMask   == {0, 1, 2, 4, 5, 6, 7, 8}
LocEngNoNmea == LocEngMask \ {2}
MCMasks      == {LocEngMask, LocEngNoNmea}
=============================================================================
