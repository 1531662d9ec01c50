------------------------------- MODULE MCMgmt -------------------------------
EXTENDS MgmtFrames

(* Names whose bytes look like element headers, and names around the limit. *)
MCSsids ==
    { <<>>, <<0>>, <<3>>, <<3, 1>>, <<0, 3, 1>>, <<3, 1, 9, 3, 1>>,
      [k \in 1..32 |-> 3], [k \in 1..33 |-> IF k % 2 = 0 THEN 1 ELSE 3] }
=============================================================================
