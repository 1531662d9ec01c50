------------------------------ MODULE MCRxDeagg ------------------------------
(* Descriptors for TLC: a plain frame, one with groups and an odd length, a  *)
(* bad checksum, a TX status report, an event, and length fields that are too short,   *)
(* too long, too small to go on, or zero.                                    *)
EXTENDS RxDeagg

MCDesc(c, r, k, g, h, f) ==
    [cnt |-> c, real |-> r, kind |-> k, grp |-> g, hdr_offset |-> h, fcs_err |-> f]

MCDescs ==
    { MCDesc(24, 24, "normal", {}, 0, 0),
      MCDesc(63, 63, "normal", {1, 3}, 1, 0),
      MCDesc(31, 31, "normal", {2}, 0, 1),
      MCDesc(24, 24, "txs", {}, 0, 0),
      MCDesc(17, 17, "other", {3}, 0, 0),
      MCDesc(21, 26, "normal", {}, 0, 0),
      MCDesc(48, 30, "normal", {1}, 0, 0),
      MCDesc(8, 8, "txs", {}, 0, 0),
      MCDesc(0, 20, "normal", {}, 0, 0) }
=============================================================================
