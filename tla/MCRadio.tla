------------------------------- MODULE MCRadio -------------------------------
(* Channels 1 (20 MHz) and 6 (40 MHz, centre below and above) for           *)
(* RadioConfig.                                                             *)
EXTENDS RadioConfig

Def(c, w, f) == [chan |-> c, width |-> w, center_freq1 |-> f]

MCChanDefs == {Def(1, 20, 2412), Def(6, 40, 2427), Def(6, 40, 2447)}
=============================================================================
