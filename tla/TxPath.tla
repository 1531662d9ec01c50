-------------------------------- MODULE TxPath --------------------------------
(***************************************************************************)
(* A frame's way out and back: mt7603_mac80211_tx, which has build_txwi     *)
(* write the descriptor (TXD) and surrounds the frame with padding, the USB *)
(* transfer, and mt7603_tx_complete, which has to undo all of it before the *)
(* frame goes back to mac80211 with its status.                             *)
(*                                                                          *)
(* Bytes of a frame are numbers, those the driver adds are zeros. The       *)
(* handlers are atomic here; how they interleave with stop and disconnect   *)
(* is the subject of DeviceLifecycle.                                       *)
(***************************************************************************)
EXTENDS Integers, Sequences

CONSTANTS Ids,    \* the frames mac80211 hands over
          Frames  \* what such a frame can be

MaxHdr == 62      \* bound: twice what the five bits of hdr_info can hold
MaxLen == 8192    \* bound: the longest frame; an A-MSDU stays below it

RateType ==
    [idx : -1..15, mcs : BOOLEAN, w40 : BOOLEAN, sgi : BOOLEAN, short : BOOLEAN]

(* hdr is what ieee80211_hdrlen returns; mac80211 asks for no ACK of a      *)
(* broadcast.                                                               *)
ASSUME FramesAssumption ==
    \A f \in Frames :
        /\ f.kind \in {"beacon", "mgmt", "data"}
        /\ f.data \in Seq(Nat)
        /\ f.hdr \in 10..MaxHdr /\ f.hdr % 2 = 0 /\ f.hdr <= Len(f.data)
        /\ f.kind # "data" => f.hdr % 4 = 0
        /\ Len(f.data) <= MaxLen
        /\ f.bm \in BOOLEAN /\ f.no_ack \in BOOLEAN /\ (f.bm => f.no_ack)
        /\ f.injected \in BOOLEAN /\ f.hw_key \in BOOLEAN
        /\ f.rate \in RateType
        /\ f.rate.mcs \/ f.rate.idx < 12

VARIABLES
    running, monitor_count, ap_vif, current_bw,
    frame,  \* the frames to come, by identity
    fate,   \* "new", "flight", "status" (back in mac80211) or "freed"
    urb,    \* descriptor, buffer and saved lengths of the transfer
    back,   \* the bytes given back to mac80211
    acked   \* frames given back as acknowledged

dev  == <<running, monitor_count, ap_vif, current_bw>>
vars == <<dev, frame, fate, urb, back, acked>>

NoUrb == [buf |-> <<>>]

Init ==
    /\ running = FALSE /\ monitor_count = 0 /\ ap_vif = FALSE /\ current_bw = 0
    /\ frame \in [Ids -> Frames]
    /\ fate = [i \in Ids |-> "new"]
    /\ urb = [i \in Ids |-> NoUrb]
    /\ back = [i \in Ids |-> <<>>] /\ acked = {}

-----------------------------------------------------------------------------
(* build_txwi.                                                              *)

TXWI_SIZE == 32

Align4(n) == n + ((4 - (n % 4)) % 4)

(* Mutant: an aligned header gets a word of padding. *)
HdrPadLenUnmasked(h) == 4 - (h % 4)

HdrPadLen(h) == (4 - (h % 4)) % 4

CCK == 0
OFDM == 1
HTMIX == 2

(* Mutant: the table is read one entry too far. *)
OfdmShifted == <<15, 10, 14, 9, 13, 8, 12, 11>>

TMI_OFDM == <<11, 15, 10, 14, 9, 13, 8, 12>>

(* Mutant: the OFDM rates come from the shifted table. *)
TxRateToTmiShifted(mode, mcs, nss, long) ==
    IF mode = OFDM THEN OFDM * 64 + OfdmShifted[mcs + 1] ELSE mcs

(* Bits [5:0] rate, [8:6] mode, [10:9] streams; tables by mode, CCK also by *)
(* preamble. There is no 1 Mbit/s with a short preamble: it goes at 2.      *)
TxRateToTmi(mode, mcs, nss, long) ==
    CASE mode = CCK   -> IF long THEN mcs ELSE <<5, 5, 6, 7>>[mcs + 1]
      [] mode = OFDM  -> OFDM * 64 + TMI_OFDM[mcs + 1]
      [] mode = HTMIX -> ((nss - 1) % 4) * 512 + HTMIX * 64 + mcs

(* The TXD of params p, or an error: tx_byte_cnt is 16 bits (what does not  *)
(* fit would go to eth_type_offset) and hdr_info counts words.              *)
BuildTxwi(p, out_len) ==
    IF out_len < TXWI_SIZE THEN [err |-> -28]
    ELSE IF p.pkt_len + TXWI_SIZE > 65535 \/ p.hdr_len % 2 # 0 THEN [err |-> -22]
    ELSE LET total == p.pkt_len + HdrPadLen(p.hdr_len) + TXWI_SIZE
             ht    == p.rate_mode = HTMIX
         IN  [err |-> 0,
              txd |-> [tx_byte_cnt |-> total % 65536,
                       eth_type_offset |-> total \div 65536,
                       q_idx       |-> p.queue % 16,
                       wlan_idx    |-> p.pid,
                       hdr_info    |-> (p.hdr_len \div 2) % 32,
                       hdr_pad     |-> HdrPadLen(p.hdr_len) % 4,
                       no_ack      |-> p.no_ack,
                       protect_frm |-> p.protect_frm,
                       bc_mc_pkt   |-> p.is_bm,
                       bw          |-> p.bw,
                       tx_rate     |-> TxRateToTmi(p.rate_mode, p.rate_mcs,
                                           IF ht THEN 1 + (p.rate_mcs \div 8) ELSE 1,
                                           p.preamble % 2 = 1),
                       gi          |-> IF ht /\ p.preamble >= 2 THEN 1 ELSE 0]]

(* The FFI entry: pointers and buffer come from the caller's stack.         *)
RustBuildTxwi(p) == BuildTxwi(p, TXWI_SIZE)

-----------------------------------------------------------------------------
(* mt7603_mac80211_tx.                                                      *)

IsMgmt(f) == f.kind # "data"

Bit(b) == IF b THEN 1 ELSE 0

(* With a monitor and no AP every frame counts as injected.                 *)
IsInjected(f) == f.injected \/ (monitor_count > 0 /\ ~ap_vif)

(* Management frames and frames without a rate leave at 1 Mbit/s.           *)
RateParams(f) ==
    CASE ~IsMgmt(f) /\ f.rate.mcs /\ f.rate.idx >= 0 ->
           [mode |-> HTMIX, mcs |-> f.rate.idx % 16,
            bw |-> IF f.rate.w40 THEN 1 ELSE current_bw,
            preamble |-> IF f.rate.sgi THEN 2 ELSE 0]
      [] ~IsMgmt(f) /\ ~f.rate.mcs /\ f.rate.idx \in 0..3 ->
           [mode |-> CCK, mcs |-> f.rate.idx, bw |-> 0,
            preamble |-> IF f.rate.short THEN 0 ELSE 1]
      [] ~IsMgmt(f) /\ ~f.rate.mcs /\ f.rate.idx >= 4 ->
           [mode |-> OFDM, mcs |-> (f.rate.idx - 4) % 8, bw |-> 0, preamble |-> 1]
      [] OTHER ->
           [mode |-> CCK, mcs |-> 0, bw |-> current_bw, preamble |-> 1]

TxParams(f) ==
    LET r == RateParams(f)
    IN  [pid     |-> IF f.bm \/ IsInjected(f) THEN 0 ELSE 1,
         queue   |-> IF IsMgmt(f) \/ IsInjected(f) THEN 4 ELSE 1,
         hdr_len |-> f.hdr,
         is_bm   |-> Bit(f.bm),
         no_ack  |-> Bit(f.bm \/ (IsInjected(f) /\ f.no_ack)),
         rate_mode |-> r.mode, rate_mcs |-> r.mcs, preamble |-> r.preamble, bw |-> r.bw,
         pkt_len |-> Len(f.data) % 65536,
         protect_frm |-> Bit(f.hw_key)]

(* tx pads the frame by its own sum; the TXD states that of build_txwi.     *)
TxHdrPadLen(h) == (4 - (h % 4)) % 4

PadHeader(s, h, p) ==
    [k \in 1..(Len(s) + p) |-> IF k <= h THEN s[k] ELSE IF k <= h + p THEN 0 ELSE s[k - p]]

PushTxd(s) ==
    [k \in 1..(Len(s) + TXWI_SIZE) |-> IF k <= TXWI_SIZE THEN 0 ELSE s[k - TXWI_SIZE]]

PadTail(s, n) == [k \in 1..(Len(s) + n) |-> IF k <= Len(s) THEN s[k] ELSE 0]

(* What is submitted for f: header padding, TXD, for all but management     *)
(* frames an aligned byte count, and alignment and trailer at the tail.     *)
Transfer(f, txd) ==
    LET s == PushTxd(PadHeader(f.data, f.hdr, TxHdrPadLen(f.hdr)))
    IN  [txd |-> IF IsMgmt(f) THEN txd
                 ELSE [txd EXCEPT !.tx_byte_cnt = Align4(Len(s)) % 65536],
         buf |-> PadTail(s, Align4(Len(s)) + 4 - Len(s)),
         ep  |-> IF IsMgmt(f) THEN 8 ELSE 5,
         orig_len |-> Len(f.data) % 65536, hdr_len |-> f.hdr,
         hdr_pad_len |-> TxHdrPadLen(f.hdr)]

(* A frame is freed at once when the device does not run, the descriptor is *)
(* refused, or an allocation or the submission fails (oom).                 *)
Tx(i) ==
    /\ fate[i] = "new"
    /\ LET r == RustBuildTxwi(TxParams(frame[i]))
       IN  \E oom \in BOOLEAN :
              \/ /\ ~running \/ r.err # 0 \/ oom
                 /\ fate' = [fate EXCEPT ![i] = "freed"]
                 /\ UNCHANGED urb
              \/ /\ running /\ r.err = 0 /\ ~oom
                 /\ fate' = [fate EXCEPT ![i] = "flight"]
                 /\ urb' = [urb EXCEPT ![i] = Transfer(frame[i], r.txd)]
    /\ UNCHANGED <<dev, frame, back, acked>>

-----------------------------------------------------------------------------
(* mt7603_tx_complete.                                                      *)

PullTxd(s) ==
    IF Len(s) < TXWI_SIZE THEN s
    ELSE [k \in 1..(Len(s) - TXWI_SIZE) |-> s[k + TXWI_SIZE]]

(* Mutant: the padding is left in the frame. *)
CloseHeaderNot(s, h, p) == s

(* The memmove over the header padding; the length stays.                   *)
CloseHeader(s, h, p) ==
    IF p = 0 \/ Len(s) < h + p THEN s
    ELSE [k \in 1..Len(s) |-> IF k > h /\ k <= Len(s) - p THEN s[k + p] ELSE s[k]]

Trim(s, n) == IF n > 0 /\ Len(s) > n THEN [k \in 1..n |-> s[k]] ELSE s

Recovered(u) ==
    Trim(CloseHeader(PullTxd(u.buf), u.hdr_len, u.hdr_pad_len), u.orig_len)

(* Mutant: a transfer that worked counts as an acknowledgement. *)
MayAckIgnoringFlag(f, ok) == ok

MayAck(f, ok) == ok /\ ~f.no_ack

TxComplete(i) ==
    /\ fate[i] = "flight"
    /\ \E ok \in BOOLEAN :
          IF running /\ frame[i].kind # "beacon"
          THEN /\ fate' = [fate EXCEPT ![i] = "status"]
               /\ back' = [back EXCEPT ![i] = Recovered(urb[i])]
               /\ acked' = IF MayAck(frame[i], ok) THEN acked \cup {i} ELSE acked
          ELSE /\ fate' = [fate EXCEPT ![i] = "freed"]
               /\ UNCHANGED <<back, acked>>
    /\ UNCHANGED <<dev, frame, urb>>

-----------------------------------------------------------------------------
(* The device state tx looks at. stop kills the URBs: they complete while   *)
(* running is already cleared.                                              *)

Start == /\ ~running /\ \A i \in Ids : fate[i] # "flight"
         /\ running' = TRUE /\ current_bw' = 0
         /\ UNCHANGED <<monitor_count, ap_vif, frame, fate, urb, back, acked>>

Stop == /\ running /\ running' = FALSE
        /\ UNCHANGED <<monitor_count, ap_vif, current_bw, frame, fate, urb, back, acked>>

MaxMonitors == 1  \* bound; only whether there is one matters

Interfaces ==
    /\ \/ monitor_count < MaxMonitors /\ monitor_count' = monitor_count + 1 /\ UNCHANGED ap_vif
       \/ monitor_count > 0 /\ monitor_count' = monitor_count - 1 /\ UNCHANGED ap_vif
       \/ ap_vif' = ~ap_vif /\ UNCHANGED monitor_count
    /\ UNCHANGED <<running, current_bw, frame, fate, urb, back, acked>>

(* set_channel_ext: it waits for the transfers in flight, but not for ever. *)
SetChannel ==
    /\ running /\ current_bw' \in {0, 1}
    /\ UNCHANGED <<running, monitor_count, ap_vif, frame, fate, urb, back, acked>>

Next ==
    \/ \E i \in Ids : Tx(i) \/ TxComplete(i)
    \/ Start \/ Stop \/ Interfaces \/ SetChannel

Spec == Init /\ [][Next]_vars

-----------------------------------------------------------------------------
(* External: the chip, and the chip of the station that hears the frame.    *)

(* The frame the chip takes out of a transfer: tx_byte_cnt bytes without    *)
(* the TXD and without the padding after the header.                        *)
OnAir(u) ==
    LET hl == 2 * u.txd.hdr_info
        hp == u.txd.hdr_pad
    IN  [k \in 1..(u.txd.tx_byte_cnt - TXWI_SIZE - hp) |->
            IF k <= hl THEN u.buf[TXWI_SIZE + k] ELSE u.buf[TXWI_SIZE + hp + k]]

(* parse_rx_frame's reading of the RX vector: the rate index of a frame     *)
(* with mode and rate as in tx_rate.                                        *)
ParseRate(tx_rate) ==
    LET mode == (tx_rate \div 64) % 8
        r    == tx_rate % 64
    IN  IF mode >= 2 THEN [mcs |-> TRUE, idx |-> r % 16]
        ELSE IF mode = 1
        THEN [mcs |-> FALSE,
              idx |-> IF \E k \in 1..8 : TMI_OFDM[k] = r % 16
                      THEN 3 + CHOOSE k \in 1..8 : TMI_OFDM[k] = r % 16 ELSE 4]
        ELSE [mcs |-> FALSE, idx |-> r % 4]

-----------------------------------------------------------------------------
(* Properties.                                                              *)

(* What the variables hold; mt7603_remove_interface never takes             *)
(* monitor_count below zero.                                                *)
TypeOK ==
    /\ running \in BOOLEAN /\ ap_vif \in BOOLEAN
    /\ monitor_count \in 0..MaxMonitors /\ current_bw \in {0, 1}
    /\ frame \in [Ids -> Frames]
    /\ fate \in [Ids -> {"new", "flight", "status", "freed"}]
    /\ acked \subseteq Ids

(* mt7603_tx_complete undoes what tx did: the frame mac80211 gets back with *)
(* its status is, byte for byte, the one it handed over.                    *)
ReportedIntact ==
    \A i \in Ids : fate[i] = "status" => back[i] = frame[i].data

(* Descriptor and transfer agree: the transfer ends one word after the      *)
(* aligned byte count, the body starts on a word, and what the chip cuts    *)
(* out is the frame, for data frames with fewer than four bytes to spare.   *)
ChipSeesFrame ==
    \A i \in Ids : fate[i] = "flight" =>
        LET u == urb[i]
            f == frame[i]
            a == OnAir(u)
        IN  /\ u.txd.eth_type_offset = 0
            /\ Len(u.buf) = Align4(u.txd.tx_byte_cnt) + 4
            /\ (2 * u.txd.hdr_info + u.txd.hdr_pad) % 4 = 0
            /\ Len(a) - Len(f.data) \in (IF IsMgmt(f) THEN {0} ELSE 0..3)
            /\ \A k \in 1..Len(f.data) : a[k] = f.data[k]

(* The rate mac80211 chose for a data frame is the one a station with the   *)
(* same chip reads off it; 1 Mbit/s with a short preamble becomes 2.        *)
RateAsRequested ==
    \A i \in Ids :
        LET r == frame[i].rate
        IN  fate[i] = "flight" /\ ~IsMgmt(frame[i]) /\ r.idx >= 0 =>
                ParseRate(urb[i].txd.tx_rate) =
                    [mcs |-> r.mcs,
                     idx |-> IF ~r.mcs /\ r.idx = 0 /\ r.short THEN 1 ELSE r.idx]

(* A frame is reported as acknowledged only if its descriptor let the       *)
(* receiver answer.                                                         *)
AckWasAsked == \A i \in acked : fate[i] = "status" /\ urb[i].txd.no_ack = 0
=============================================================================
