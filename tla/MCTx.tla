--------------------------------- MODULE MCTx ---------------------------------
(* Frames for TxPath: every header length modulo four that occurs, bodies   *)
(* of every length modulo four, every kind of rate.                         *)
EXTENDS TxPath

Bytes(n) == [k \in 1..n |-> k]

Rate(idx, mcs, sgi, short) ==
    [idx |-> idx, mcs |-> mcs, w40 |-> FALSE, sgi |-> sgi, short |-> short]

NoRate == Rate(-1, FALSE, FALSE, FALSE)

Frame(kind, hdr, body, bm, injected, rate) ==
    [kind |-> kind, data |-> Bytes(hdr + body), hdr |-> hdr, bm |-> bm, no_ack |-> bm,
     injected |-> injected, hw_key |-> FALSE, rate |-> rate]

MCFrames ==
    {Frame("mgmt", 24, b, bm, FALSE, NoRate) : b \in 0..3, bm \in BOOLEAN}
    \cup {Frame("beacon", 24, 5, TRUE, FALSE, NoRate)}
    \cup {Frame("data", h, b, FALSE, FALSE, Rate(0, FALSE, FALSE, TRUE)) :
              h \in {24, 26, 30}, b \in 0..3}
    \cup {[Frame("data", 26, 8, FALSE, TRUE, NoRate) EXCEPT !.no_ack = TRUE]}
    \cup {Frame("data", 26, 1, FALSE, FALSE, Rate(x, FALSE, FALSE, s)) :
              x \in 0..11, s \in BOOLEAN}
    \cup {Frame("data", 26, 1, FALSE, FALSE, Rate(x, TRUE, s, FALSE)) :
              x \in 0..15, s \in BOOLEAN}
=============================================================================
