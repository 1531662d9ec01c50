------------------------------- MODULE RxDeagg -------------------------------
(***************************************************************************)
(* mt7603_rx_complete walking over one bulk-IN transfer, and the descriptor *)
(* parser parse_rx_frame it calls for every subframe.                       *)
(*                                                                          *)
(* A transfer is an aggregate: subframes, each padded to four bytes and     *)
(* followed by a four-byte checksum. Only lengths and the fields that steer *)
(* the walk are kept of the bytes: the device places descriptors (at), the  *)
(* transfer may be cut short, and the length field of a subframe need not   *)
(* be its real length. Where no descriptor was placed the handler reads     *)
(* payload bytes, which may look like any descriptor.                       *)
(***************************************************************************)
EXTENDS Integers, Sequences, FiniteSets

CONSTANTS Descs,         \* the descriptors a subframe may start with
          MaxSubframes,  \* bound on the subframes of a transfer
          Cuts           \* how many bytes may be missing at its end

(* DW0..DW2 of RMAC_RXD: rx_byte_cnt (cnt), the packet type, the valid      *)
(* groups, hdr_offset and fcs_err; real is what the device really placed.   *)
DescType == [cnt  : Nat,
             real : Nat \ {0},
             kind : {"txs", "normal", "other"},
             grp  : SUBSET (1..4),
             hdr_offset : {0, 1},
             fcs_err    : {0, 1}]

ASSUME DescsAssumption == Descs \subseteq DescType
ASSUME CutsAssumption == Cuts \subseteq Nat

VARIABLES
    pc,      \* "air": the device fills the transfer, "walk", "done"
    status,  \* urb->status: "ok" or "error"
    at,      \* at[p]: the descriptor the device placed at position p
    end,     \* what the device has placed so far
    actual,  \* urb->actual_length
    cur,     \* cur_pos
    out,     \* frames handed to ieee80211_rx
    lost     \* positions of frames for which dev_alloc_skb failed

vars == <<pc, status, at, end, actual, cur, out, lost>>

RMAC_RXD_MIN_SIZE == 16

FrameType == [pos : Nat, cnt : Nat, off : 16..82, len : Nat]

(* The index of the walk leaves the transfer by at most its trailer.        *)
TypeOK ==
    /\ pc \in {"air", "walk", "done"}
    /\ status \in {"ok", "error"}
    /\ DOMAIN at \subseteq 0..end /\ \A p \in DOMAIN at : at[p] \in Descs
    /\ end \in Nat
    /\ actual \in 0..end
    /\ cur \in 0..(actual + 7)
    /\ out \in Seq(FrameType)
    /\ lost \subseteq 0..end

Init ==
    /\ pc = "air" /\ status = "ok"
    /\ at = [p \in {} |-> CHOOSE d \in Descs : TRUE]
    /\ end = 0 /\ actual = 0 /\ cur = 0
    /\ out = <<>> /\ lost = {}

-----------------------------------------------------------------------------
(* External: the device fills the transfer.                                 *)

Padded(n) == n + ((4 - (n % 4)) % 4)

DevStride(n) == Padded(n) + 4

DevAppend ==
    /\ pc = "air" /\ Cardinality(DOMAIN at) < MaxSubframes
    /\ \E d \in Descs :
          /\ at' = [p \in DOMAIN at \cup {end} |-> IF p = end THEN d ELSE at[p]]
          /\ end' = end + DevStride(d.real)
    /\ UNCHANGED <<pc, status, actual, cur, out, lost>>

-----------------------------------------------------------------------------
(* parse_rx_frame.                                                          *)

(* Where Group 3 (the RX vector with rate and RSSI) starts.                 *)
Grp3Off(d) ==
    RMAC_RXD_MIN_SIZE + (IF 4 \in d.grp THEN 16 ELSE 0)
                      + (IF 1 \in d.grp THEN 16 ELSE 0)
                      + (IF 2 \in d.grp THEN 8 ELSE 0)

RmacInfoLen(d) ==
    Grp3Off(d) + (IF 3 \in d.grp THEN 24 ELSE 0) + 2 * d.hdr_offset

SaturatingSub(a, b) == IF a < b THEN 0 ELSE a - b

(* A plausible slip: the frame is taken to fill the rest of the buffer.     *)
PktLenOfBuffer(d, len) ==
    IF d.kind # "normal" \/ len < RmacInfoLen(d) THEN 0
    ELSE SaturatingSub(len, RmacInfoLen(d))

(* pkt_len of the RxInfo; an error return counts as 0, since the caller     *)
(* hands up neither.                                                        *)
PktLen(d, len) ==
    IF d.kind # "normal" \/ len < RmacInfoLen(d) THEN 0
    ELSE SaturatingSub(IF d.cnt <= len /\ d.cnt > 0 THEN d.cnt ELSE len, RmacInfoLen(d))

-----------------------------------------------------------------------------
(* mt7603_rx_complete.                                                      *)

(* The URB completes, whole, cut short, or with an error status.            *)
Complete ==
    /\ pc = "air"
    /\ \/ /\ \E t \in Cuts : t <= end /\ actual' = end - t
          /\ pc' = (IF actual' >= 16 THEN "walk" ELSE "done")
          /\ UNCHANGED status
       \/ /\ status' = "error" /\ pc' = "done"
          /\ UNCHANGED actual
    /\ UNCHANGED <<at, end, cur, out, lost>>

Remaining == actual - cur

(* What the bytes at cur_pos say.                                           *)
Here == IF cur \in DOMAIN at THEN {at[cur]} ELSE Descs

GoodLengthUnchecked(d) == d.cnt # 0

GoodLength(d) == d.cnt # 0 /\ d.cnt <= Remaining

(* The loop's condition fails, or the length field makes it break.          *)
WalkEnd ==
    /\ pc = "walk"
    /\ \/ cur + 16 > actual
       \/ \E d \in Here : cur + 16 <= actual /\ ~GoodLength(d)
    /\ pc' = "done"
    /\ UNCHANGED <<status, at, end, actual, cur, out, lost>>

SubframeLenNoTrailer(n) == Padded(n)

SubframeLenNoPadding(n) == n + 4

SubframeLen(n) == Padded(n) + 4

AdvanceRetries(d) ==
    IF SubframeLen(d.cnt) < 16 THEN UNCHANGED <<pc, cur>>
    ELSE cur' = cur + SubframeLen(d.cnt) /\ UNCHANGED pc

AdvanceByPayload(d) ==
    /\ cur' = cur + IF PktLen(d, Remaining) = 0 THEN 16 ELSE PktLen(d, Remaining)
    /\ UNCHANGED pc

Advance(d) ==
    IF SubframeLen(d.cnt) < 16 THEN pc' = "done" /\ UNCHANGED cur
    ELSE cur' = cur + SubframeLen(d.cnt) /\ UNCHANGED pc

(* TXS reports are only logged; a parsed frame with more than four bytes    *)
(* and a good checksum is copied into an skb and handed up.                 *)
HandedUp(d) ==
    /\ PktLen(d, Remaining) > 4 /\ d.fcs_err = 0
    /\ RmacInfoLen(d) + PktLen(d, Remaining) <= Remaining

Subframe ==
    /\ pc = "walk" /\ cur + 16 <= actual
    /\ \E d \in Here :
          /\ GoodLength(d)
          /\ \/ /\ HandedUp(d)
                /\ out' = Append(out, [pos |-> cur, cnt |-> d.cnt, off |-> RmacInfoLen(d),
                                       len |-> PktLen(d, Remaining)])
                /\ UNCHANGED lost
             \/ HandedUp(d) /\ lost' = lost \cup {cur} /\ UNCHANGED out
             \/ ~HandedUp(d) /\ UNCHANGED <<out, lost>>
          /\ Advance(d)
    /\ UNCHANGED <<status, at, end, actual>>

(* The URB is submitted again and filled anew.                              *)
Resubmit ==
    /\ pc = "done"
    /\ pc' = "air" /\ status' = "ok"
    /\ at' = [p \in {} |-> CHOOSE d \in Descs : TRUE]
    /\ end' = 0 /\ actual' = 0 /\ cur' = 0
    /\ out' = <<>> /\ lost' = {}

Walk == WalkEnd \/ Subframe

Next == DevAppend \/ Complete \/ Walk \/ Resubmit

Spec == Init /\ [][Next]_vars

(* A running handler is not suspended for ever.                             *)
FairSpec == Spec /\ WF_vars(Walk)

-----------------------------------------------------------------------------
(* Properties.                                                              *)

(* A frame handed up, whatever the descriptors say, consists of bytes of    *)
(* its own subframe behind its descriptor, inside the transfer.             *)
OwnBytesOnly ==
    \A i \in 1..Len(out) :
        /\ out[i].off >= RMAC_RXD_MIN_SIZE
        /\ out[i].off + out[i].len <= out[i].cnt
        /\ out[i].pos + out[i].cnt <= actual

(* Frames are handed up in the order of the transfer, each byte once.       *)
OrderedOnce ==
    \A i, j \in 1..Len(out) : i < j => out[i].pos + out[i].cnt <= out[j].pos

(* The subframe at p has an honest length field and is long enough for the  *)
(* walk to go on behind it.                                                 *)
Sound(p) == at[p].cnt = at[p].real /\ at[p].real > 8

(* A subframe that carries a frame for mac80211.                            *)
Carries(d) == d.kind = "normal" /\ d.fcs_err = 0 /\ d.real > RmacInfoLen(d) + 4

Delivered == {out[i].pos : i \in 1..Len(out)}

(* A damaged subframe or a cut costs only what lies behind it: every frame  *)
(* that arrived whole, with sound subframes before it, was handed up, or    *)
(* there was no memory for it.                                              *)
NothingMissed ==
    pc = "done" /\ status = "ok" =>
        \A p \in DOMAIN at :
            /\ \A q \in DOMAIN at : q <= p => Sound(q)
            /\ Carries(at[p])
            /\ p + at[p].real <= actual
            => p \in Delivered \cup lost

(* Payload is taken for a frame only behind a damaged subframe.             *)
NothingInvented ==
    \A p \in Delivered \cup lost :
        (\A q \in DOMAIN at : q < p => Sound(q)) => p \in DOMAIN at

(* The strengthening that makes the invariants above inductive.             *)

(* The device's layout: each subframe ends where the next one starts.       *)
LayoutInv ==
    /\ \A p \in DOMAIN at : p + DevStride(at[p].real) \in DOMAIN at \cup {end}
    /\ \A p \in DOMAIN at : p + DevStride(at[p].real) <= end
    /\ \A p, q \in DOMAIN at : p < q => p + DevStride(at[p].real) <= q

SoundUpTo(n) == \A q \in DOMAIN at : q < n => Sound(q)

(* As long as every subframe passed was sound, the walk is at one's start.  *)
SyncInv ==
    /\ pc = "air" => cur = 0 /\ actual = 0 /\ out = <<>> /\ lost = {} /\ status = "ok"
    /\ SoundUpTo(cur) => cur \in DOMAIN at \cup {end}
    /\ \A i \in 1..Len(out) : out[i].pos + out[i].cnt <= cur
    /\ \A p \in lost : p < cur

Due(p) == SoundUpTo(p) /\ Sound(p) /\ Carries(at[p]) /\ p + at[p].real <= actual

(* What was due behind the walk was handed up; at its end nothing is due.   *)
DueInv ==
    /\ \A p \in DOMAIN at : p < cur /\ Due(p) => p \in Delivered \cup lost
    /\ pc = "done" /\ status = "ok" => \A p \in DOMAIN at : Due(p) => p < cur

DeaggInv ==
    TypeOK /\ LayoutInv /\ SyncInv /\ DueInv /\ OwnBytesOnly /\ OrderedOnce
    /\ NothingInvented

(* The walk ends for every transfer.                                        *)
WalkEnds == pc = "walk" ~> pc = "done"
=============================================================================
