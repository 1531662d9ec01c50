---------------------------- MODULE RxDeagg_proofs ----------------------------
(***************************************************************************)
(* Proofs about RxDeagg, for every set of descriptors, number of subframes *)
(* and cut of the transfer.                                                 *)
(***************************************************************************)
EXTENDS RxDeagg, TLAPS

(* What the padding arithmetic of the walk gives: driver and device agree,  *)
(* a stride covers the subframe, and only short ones stop the walk.         *)
LEMMA Stride ==
    ASSUME NEW n \in Nat
    PROVE  /\ SubframeLen(n) = DevStride(n)
           /\ DevStride(n) \in Nat
           /\ n + 4 <= DevStride(n) /\ DevStride(n) <= n + 7
           /\ n > 8 <=> DevStride(n) >= 16
  BY DEF SubframeLen, DevStride, Padded

(* The descriptor length that parse_rx_frame computes is within 16..82.     *)
LEMMA HeaderLength ==
    ASSUME NEW d \in DescType
    PROVE  RmacInfoLen(d) \in 16..82
  BY DEF DescType, RmacInfoLen, Grp3Off, RMAC_RXD_MIN_SIZE

(* The payload length that parse_rx_frame computes ends with the subframe,  *)
(* and is the whole payload when the subframe carries a frame.              *)
LEMMA PayloadLength ==
    ASSUME NEW d \in DescType, NEW len \in Nat, d.cnt # 0, d.cnt <= len
    PROVE  /\ PktLen(d, len) \in Nat
           /\ PktLen(d, len) > 0 => RmacInfoLen(d) + PktLen(d, len) = d.cnt
           /\ d.cnt = d.real /\ Carries(d) =>
                 PktLen(d, len) > 4 /\ RmacInfoLen(d) + PktLen(d, len) = d.cnt
  <1>1. RmacInfoLen(d) \in 16..82
    BY HeaderLength
  <1>2. d.cnt \in Nat \ {0}
    BY DEF DescType
  <1> QED
    BY <1>1, <1>2 DEF PktLen, SaturatingSub, Carries

(* The empty transfer satisfies the invariant.                              *)
LEMMA EmptyTransfer ==
    ASSUME pc = "air", status = "ok", DOMAIN at = {}, end = 0, actual = 0, cur = 0,
           out = <<>>, lost = {}
    PROVE  DeaggInv
  BY DEF DeaggInv, TypeOK, LayoutInv, SyncInv, DueInv, OwnBytesOnly, OrderedOnce,
         NothingInvented, Delivered

LEMMA InitEstablishes == Init => DeaggInv
  BY EmptyTransfer DEF Init

LEMMA NextPreserves == DeaggInv /\ [Next]_vars => DeaggInv'
  <1> SUFFICES ASSUME DeaggInv, [Next]_vars PROVE DeaggInv'
    OBVIOUS
  <1> USE DEF DeaggInv
  <1>0. \A p \in DOMAIN at : at[p] \in DescType /\ p \in Nat /\ at[p].real \in Nat
    BY DescsAssumption DEF TypeOK, DescType
  <1>1. CASE DevAppend
    <2> USE <1>1 DEF DevAppend
    <2>1. PICK d \in Descs :
            /\ at' = [p \in DOMAIN at \cup {end} |-> IF p = end THEN d ELSE at[p]]
            /\ end' = end + DevStride(d.real)
      OBVIOUS
    <2>2. d.real \in Nat \ {0} /\ DevStride(d.real) \in Nat /\ DevStride(d.real) >= 4
      <3>1. d \in DescType
        BY DescsAssumption
      <3>2. d.real \in Nat \ {0}
        BY <3>1 DEF DescType
      <3> QED
        BY <3>2, Stride
    <2>3. DOMAIN at' = DOMAIN at \cup {end} /\ end \notin DOMAIN at
      <3>1. \A p \in DOMAIN at : DevStride(at[p].real) \in Nat /\ DevStride(at[p].real) >= 4
        BY <1>0, Stride
      <3>2. end \notin DOMAIN at
        <4>1. end \in Nat
          BY DEF TypeOK
        <4>2. \A p \in DOMAIN at : p + DevStride(at[p].real) <= end
          BY DEF LayoutInv
        <4> QED
          BY <4>1, <4>2, <3>1, <1>0
      <3> QED
        BY <2>1, <3>2
    <2>4. at'[end] = d /\ \A p \in DOMAIN at : at'[p] = at[p]
      BY <2>1, <2>3
    <2>5. TypeOK'
      BY <2>1, <2>2, <2>3, <2>4 DEF TypeOK, SyncInv
    <2>6. LayoutInv'
      <3>1. end \in Nat
        BY DEF TypeOK
      <3> QED
        BY <2>1, <2>2, <2>3, <2>4, <1>0, <3>1, Stride DEF LayoutInv
    <2>7. SyncInv' /\ DueInv'
      <3>1. cur = 0 /\ (cur = 0)' /\ out' = <<>> /\ lost' = {} /\ pc' = "air"
        BY DEF SyncInv
      <3>2. 0 \in DOMAIN at' \cup {end'}
        <4>1. CASE DOMAIN at = {}
          <5>1. end = 0
            BY <4>1, <3>1 DEF SyncInv, SoundUpTo
          <5> QED
            BY <5>1, <2>3
        <4>2. CASE DOMAIN at # {}
          <5>1. SoundUpTo(cur)
            BY <3>1, <1>0 DEF SoundUpTo
          <5>2. 0 \in DOMAIN at \cup {end}
            BY <5>1, <3>1 DEF SyncInv
          <5> QED
            BY <5>2, <2>3
        <4> QED
          BY <4>1, <4>2
      <3>3. SyncInv'
        BY <3>1, <3>2 DEF SyncInv
      <3>4. \A p \in DOMAIN at' : p \in Nat
        BY <2>3, <1>0 DEF TypeOK
      <3> QED
        BY <3>1, <3>3, <3>4 DEF DueInv
    <2>8. OwnBytesOnly' /\ OrderedOnce' /\ NothingInvented'
      BY DEF SyncInv, OwnBytesOnly, OrderedOnce, NothingInvented, Delivered
    <2> QED
      BY <2>5, <2>6, <2>7, <2>8
  <1>2. CASE Complete
    <2> USE <1>2 DEF Complete
    <2>1. cur = 0 /\ out = <<>> /\ lost = {} /\ status = "ok" /\ actual = 0
      BY DEF SyncInv
    <2>2. actual' \in 0..end
      BY <2>1, CutsAssumption DEF TypeOK
    <2>3. TypeOK'
      <3>1. pc' \in {"walk", "done"} /\ status' \in {"ok", "error"}
        BY <2>1
      <3>2. cur' \in 0..(actual' + 7)
        <4>1. cur' = 0
          BY <2>1
        <4>2. actual' \in Nat
          BY <2>2 DEF TypeOK
        <4>3. \A n \in Nat : 0 \in 0..(n + 7)
          OBVIOUS
        <4> QED
          BY <4>1, <4>2, <4>3, Zenon
      <3> QED
        BY <2>2, <3>1, <3>2 DEF TypeOK
    <2>4. LayoutInv'
      BY DEF LayoutInv
    <2>5. SyncInv'
      BY DEF SyncInv, SoundUpTo, Sound
    <2>6. pc' = "done" /\ status' = "ok" => \A p \in DOMAIN at : ~Due(p)'
      <3> SUFFICES ASSUME pc' = "done", status' = "ok", NEW p \in DOMAIN at, Due(p)'
                   PROVE  FALSE
        OBVIOUS
      <3>1. actual' < 16
        BY <2>1, <2>2 DEF TypeOK
      <3>2. at[p].real > RmacInfoLen(at[p]) + 4 /\ p + at[p].real <= actual'
        BY DEF Due, Carries, RmacInfoLen, Grp3Off
      <3>3. RmacInfoLen(at[p]) \in 16..82
        BY <1>0, HeaderLength
      <3>4. actual' \in Nat /\ p \in Nat /\ at[p].real \in Nat
        BY <2>2, <1>0 DEF TypeOK
      <3> QED
        BY <3>1, <3>2, <3>3, <3>4
    <2>7. DueInv'
      BY <2>1, <2>6, <1>0 DEF DueInv
    <2>8. OwnBytesOnly' /\ OrderedOnce' /\ NothingInvented'
      BY <2>1 DEF OwnBytesOnly, OrderedOnce, NothingInvented, Delivered
    <2> QED
      BY <2>3, <2>4, <2>5, <2>7, <2>8
  <1>3. CASE WalkEnd
    <2> USE <1>3 DEF WalkEnd
    <2>1. TypeOK' /\ LayoutInv' /\ SyncInv'
      BY DEF TypeOK, LayoutInv, SyncInv, SoundUpTo, Sound
    <2>2. ASSUME NEW p \in DOMAIN at, Due(p), ~(p < cur)
          PROVE  FALSE
      <3>1. cur \in Nat /\ p \in Nat /\ actual \in Nat /\ end \in Nat
        BY <1>0 DEF TypeOK
      <3>2. cur \in DOMAIN at
        <4>1. SoundUpTo(cur)
          BY <2>2, <3>1, <1>0 DEF Due, SoundUpTo
        <4>2. p < end
          <5>1. DevStride(at[p].real) >= 4 /\ p + DevStride(at[p].real) <= end
            BY <1>0, Stride DEF LayoutInv
          <5> QED
            BY <5>1, <3>1, <1>0, Stride
        <4> QED
          BY <4>1, <4>2, <2>2, <3>1 DEF SyncInv
      <3>3. Sound(cur)
        BY <2>2, <3>1, <3>2 DEF Due, SoundUpTo
      <3>4. at[cur].cnt = at[cur].real /\ at[cur].real > 8 /\ at[cur].real \in Nat
        BY <3>2, <3>3, <1>0 DEF Sound
      <3>5. at[p].real > 20 /\ p + at[p].real <= actual
        BY <2>2, <1>0, HeaderLength DEF Due, Carries
      <3>6. cur + 16 <= actual /\ at[cur].cnt <= Remaining
        <4>1. CASE p = cur
          BY <4>1, <3>1, <3>4, <3>5, <1>0 DEF Remaining
        <4>2. CASE cur < p
          <5>1. cur + DevStride(at[cur].real) <= p
            BY <4>2, <3>2 DEF LayoutInv
          <5>2. DevStride(at[cur].real) >= 16 /\ DevStride(at[cur].real) >= at[cur].real
                /\ DevStride(at[cur].real) \in Nat
            BY <3>4, Stride
          <5> QED
            BY <5>1, <5>2, <3>1, <3>4, <3>5, <1>0 DEF Remaining
        <4> QED
          BY <4>1, <4>2, <2>2, <3>1
      <3>7. GoodLength(at[cur])
        BY <3>4, <3>6 DEF GoodLength
      <3> QED
        BY <3>1, <3>2, <3>6, <3>7 DEF Here
    <2>3. DueInv'
      <3>1. \A p : Due(p)' <=> Due(p)
        BY DEF Due, SoundUpTo, Sound, Carries
      <3> QED
        BY <3>1, <2>2 DEF DueInv, Delivered
    <2>4. OwnBytesOnly' /\ OrderedOnce' /\ NothingInvented'
      BY DEF OwnBytesOnly, OrderedOnce, NothingInvented, Delivered, Sound
    <2> QED
      BY <2>1, <2>3, <2>4
  <1>4. CASE Subframe
    <2> USE <1>4 DEF Subframe
    <2>1. PICK d \in Here :
            /\ GoodLength(d)
            /\ \/ /\ HandedUp(d)
                  /\ out' = Append(out, [pos |-> cur, cnt |-> d.cnt,
                                         off |-> RmacInfoLen(d),
                                         len |-> PktLen(d, Remaining)])
                  /\ UNCHANGED lost
               \/ HandedUp(d) /\ lost' = lost \cup {cur} /\ UNCHANGED out
               \/ ~HandedUp(d) /\ UNCHANGED <<out, lost>>
            /\ Advance(d)
      OBVIOUS
    <2> DEFINE f == [pos |-> cur, cnt |-> d.cnt, off |-> RmacInfoLen(d),
                     len |-> PktLen(d, Remaining)]
    <2>2. cur \in Nat /\ actual \in Nat /\ end \in Nat /\ actual <= end
          /\ cur + 16 <= actual /\ Remaining \in Nat /\ Remaining = actual - cur
      BY DEF TypeOK, Remaining
    <2>3. d \in DescType /\ d.cnt \in Nat \ {0} /\ d.cnt <= Remaining
      <3>1. d \in Descs
        BY <2>1 DEF Here, TypeOK
      <3>2. d \in DescType
        BY <3>1, DescsAssumption
      <3> QED
        BY <3>2, <2>1 DEF DescType, GoodLength
    <2>4. /\ RmacInfoLen(d) \in 16..82 /\ PktLen(d, Remaining) \in Nat
          /\ PktLen(d, Remaining) > 0 =>
                RmacInfoLen(d) + PktLen(d, Remaining) = d.cnt
          /\ d.cnt = d.real /\ Carries(d) =>
                PktLen(d, Remaining) > 4
                /\ RmacInfoLen(d) + PktLen(d, Remaining) = d.cnt
      BY <2>2, <2>3, HeaderLength, PayloadLength
    <2>5. /\ SubframeLen(d.cnt) = DevStride(d.cnt) /\ DevStride(d.cnt) \in Nat
          /\ d.cnt + 4 <= DevStride(d.cnt) /\ DevStride(d.cnt) <= d.cnt + 7
          /\ d.cnt > 8 <=> DevStride(d.cnt) >= 16
      BY <2>3, Stride
    <2>6. \/ pc' = "done" /\ cur' = cur /\ d.cnt <= 8
          \/ pc' = "walk" /\ cur' = cur + DevStride(d.cnt) /\ d.cnt > 8
      BY <2>1, <2>3, <2>5 DEF Advance
    <2>7. HandedUp(d) => /\ f \in FrameType /\ f.off + f.len = f.cnt
                         /\ cur' = cur + DevStride(d.cnt)
      <3> SUFFICES ASSUME HandedUp(d)
                   PROVE  f \in FrameType /\ f.off + f.len = f.cnt
                          /\ cur' = cur + DevStride(d.cnt)
        OBVIOUS
      <3>1. PktLen(d, Remaining) > 4 /\ RmacInfoLen(d) + PktLen(d, Remaining) = d.cnt
        BY <2>4 DEF HandedUp
      <3>2. d.cnt > 8
        <4>1. RmacInfoLen(d) \in 16..82 /\ PktLen(d, Remaining) \in Nat
          BY <2>4
        <4> HIDE <1>4 DEF DeaggInv, Subframe
        <4> QED
          BY <4>1, <3>1
      <3> QED
        BY <3>1, <3>2, <2>2, <2>3, <2>4, <2>6 DEF FrameType
    <2>8. cur' \in Nat /\ cur <= cur' /\ (HandedUp(d) => cur < cur')
      BY <2>2, <2>3, <2>5, <2>6, <2>7
    <2>9. out \in Seq(FrameType)
      BY DEF TypeOK
    <2>10. TypeOK'
      <3>1. out' \in Seq(FrameType)
        BY <2>1, <2>7, <2>9
      <3>2. cur' \in 0..(actual + 7)
        BY <2>2, <2>3, <2>5, <2>6
      <3>3. lost' \subseteq 0..end
        <4>1. cur \in 0..end
          BY <2>2
        <4> QED
          BY <4>1, <2>1 DEF TypeOK
      <3> QED
        BY <2>6, <3>1, <3>2, <3>3 DEF TypeOK
    <2>11. LayoutInv'
      BY DEF LayoutInv
    <2>12. \A i \in 1..Len(out) : out[i].pos \in Nat /\ out[i].cnt \in Nat
      <3>1. \A i \in 1..Len(out) : out[i] \in FrameType
        BY <2>9
      <3> QED
        BY <3>1 DEF FrameType
    (* Where the frame, if there is one, goes. *)
    <2>13. /\ OwnBytesOnly' /\ OrderedOnce'
           /\ \A i \in 1..Len(out') : out'[i].pos + out'[i].cnt <= cur'
           /\ \A p \in lost' : p < cur'
           /\ Delivered' \cup lost' = IF HandedUp(d) THEN Delivered \cup lost \cup {cur}
                                      ELSE Delivered \cup lost
      <3>1. \A i \in 1..Len(out) : out[i].pos + out[i].cnt <= cur'
        BY <2>2, <2>8, <2>12 DEF SyncInv
      <3>2. \A p \in lost : p < cur'
        BY <2>2, <2>8 DEF SyncInv, TypeOK
      <3>3. CASE HandedUp(d) /\ out' = Append(out, f) /\ lost' = lost
        <4>1. Len(out') = Len(out) + 1 /\ out'[Len(out) + 1] = f
              /\ (\A i \in 1..Len(out) : out'[i] = out[i]) /\ Len(out) \in Nat
          BY <3>3, <2>9
        <4>2. f.pos = cur /\ f.cnt = d.cnt /\ f.off = RmacInfoLen(d)
              /\ f.off + f.len = f.cnt
          BY <2>7, <3>3
        <4>3. OwnBytesOnly'
          <5>1. f.off >= 16 /\ f.off + f.len <= f.cnt /\ f.pos + f.cnt <= actual
            <6>1. RmacInfoLen(d) \in 16..82 /\ d.cnt \in Nat /\ d.cnt <= Remaining
              BY <2>3, <2>4
            <6> HIDE <1>4 DEF f, DeaggInv, Subframe
            <6> QED
              BY <6>1, <2>2, <4>2
          <5>2. \A i \in 1..Len(out') : i \in 1..Len(out) \/ i = Len(out) + 1
            BY <4>1
          <5> QED
            BY <5>1, <5>2, <4>1 DEF OwnBytesOnly, RMAC_RXD_MIN_SIZE
        <4>4. OrderedOnce'
          <5>1. \A i \in 1..Len(out) : out[i].pos + out[i].cnt <= f.pos
            BY <4>2 DEF SyncInv
          <5> QED
            BY <5>1, <4>1 DEF OrderedOnce
        <4>5. f.pos + f.cnt <= cur'
          BY <2>2, <2>3, <2>5, <2>7, <4>2, <3>3
        <4>6. Delivered' = Delivered \cup {cur}
          <5>1. 1..Len(out') = 1..Len(out) \cup {Len(out) + 1}
            BY <4>1
          <5> QED
            BY <5>1, <4>1, <4>2 DEF Delivered
        <4> QED
          BY <3>1, <3>2, <3>3, <4>1, <4>3, <4>4, <4>5, <4>6
      <3>4. CASE out' = out
        <4>1. OwnBytesOnly' /\ OrderedOnce' /\ Delivered' = Delivered
          BY <3>4 DEF OwnBytesOnly, OrderedOnce, Delivered
        <4>2. lost' = IF HandedUp(d) THEN lost \cup {cur} ELSE lost
          <5>1. Append(out, f) # out
            BY <2>9, <2>1
          <5> QED
            BY <5>1, <2>1, <3>4
        <4> QED
          BY <3>1, <3>2, <3>4, <4>1, <4>2, <2>8
      <3> QED
        BY <2>1, <3>3, <3>4
    (* A walk that passed only sound subframes is at the start of one. *)
    <2>14. SoundUpTo(cur) => cur \in DOMAIN at /\ d = at[cur]
      BY <2>1, <2>2 DEF SyncInv, Here
    <2>15. \A n : SoundUpTo(n)' <=> SoundUpTo(n)
      BY DEF SoundUpTo, Sound
    <2>16. SyncInv'
      <3>1. ASSUME SoundUpTo(cur') PROVE cur' \in DOMAIN at \cup {end}
        <4>1. SoundUpTo(cur)
          BY <3>1, <2>2, <2>8, <1>0 DEF SoundUpTo
        <4>2. CASE cur' = cur
          BY <4>1, <4>2 DEF SyncInv
        <4>3. CASE cur' = cur + DevStride(d.cnt) /\ cur' # cur
          <5>1. cur \in DOMAIN at /\ d = at[cur] /\ cur < cur'
            BY <4>1, <4>3, <2>2, <2>8, <2>14
          <5>2. d.cnt = d.real
            BY <5>1, <3>1 DEF SoundUpTo, Sound
          <5> QED
            BY <5>1, <5>2, <4>3 DEF LayoutInv
        <4> QED
          BY <4>2, <4>3, <2>6
      <3>2. pc' # "air"
        BY <2>6
      <3> QED
        BY <3>1, <3>2, <2>13, <2>15 DEF SyncInv
    <2>17. ASSUME NEW p \in DOMAIN at, Due(p), ~(p < cur)
           PROVE  /\ cur \in DOMAIN at /\ d = at[cur] /\ Sound(cur)
                  /\ d.cnt > 8 /\ cur' = cur + DevStride(d.cnt)
      <3>1. SoundUpTo(cur)
        BY <2>17, <2>2, <1>0 DEF Due, SoundUpTo
      <3>2. Sound(cur)
        BY <3>1, <2>14, <2>17, <2>2, <1>0 DEF Due, SoundUpTo
      <3> QED
        BY <3>1, <3>2, <2>14, <2>6, <2>2, <2>3 DEF Sound
    <2>18. DueInv'
      <3>1. \A p : Due(p)' <=> Due(p)
        BY <2>15 DEF Due, Sound, Carries
      <3>2. ASSUME NEW p \in DOMAIN at, Due(p), p < cur'
            PROVE  p \in Delivered' \cup lost'
        <4>1. CASE p < cur
          BY <4>1, <3>2, <2>13 DEF DueInv
        <4>2. CASE p = cur
          <5>1. d = at[cur] /\ d.cnt = d.real /\ Carries(d)
            BY <4>2, <3>2, <2>17, <2>2 DEF Due, Sound
          <5>2. HandedUp(d)
            BY <5>1, <2>2, <2>3, <2>4 DEF HandedUp, Carries
          <5> QED
            BY <4>2, <5>2, <2>13
        <4>3. CASE cur < p
          <5>1. cur \in DOMAIN at /\ d = at[cur] /\ d.cnt = d.real
                /\ cur' = cur + DevStride(d.cnt)
            BY <4>3, <3>2, <2>17, <2>2, <1>0 DEF Sound
          <5>2. cur' <= p
            BY <5>1, <4>3 DEF LayoutInv
          <5> QED
            BY <5>2, <3>2, <2>8, <1>0
        <4> QED
          BY <4>1, <4>2, <4>3, <2>2, <1>0
      <3>3. ASSUME NEW p \in DOMAIN at, Due(p), pc' = "done"
            PROVE  p < cur'
        BY <3>3, <2>6, <2>17, <2>2, <2>3
      <3> QED
        BY <3>1, <3>2, <3>3 DEF DueInv
    <2>19. NothingInvented'
      <3>1. \A p : (\A q \in DOMAIN at : q < p => Sound(q)) <=> SoundUpTo(p)
        BY DEF SoundUpTo
      <3>2. \A p \in Delivered' \cup lost' : SoundUpTo(p) => p \in DOMAIN at
        BY <3>1, <2>13, <2>14 DEF NothingInvented
      <3> QED
        BY <3>2 DEF NothingInvented, SoundUpTo, Sound
    <2> QED
      BY <2>10, <2>11, <2>13, <2>16, <2>18, <2>19
  <1>5. CASE Resubmit
    <2>1. DOMAIN at' = {}
      BY <1>5 DEF Resubmit
    <2> QED
      BY <1>5, <2>1 DEF Resubmit, TypeOK, LayoutInv, SyncInv, DueInv, OwnBytesOnly,
                        OrderedOnce, NothingInvented, Delivered
  <1>6. CASE UNCHANGED vars
    BY <1>6 DEF vars, TypeOK, LayoutInv, SyncInv, DueInv, OwnBytesOnly, OrderedOnce,
                NothingInvented, Delivered, Due, SoundUpTo, Sound
  <1> QED
    BY <1>1, <1>2, <1>3, <1>4, <1>5, <1>6 DEF Next, Walk

(* The invariant holds in every state of the handler.                       *)
THEOREM DeaggInvariant == Spec => []DeaggInv
  BY InitEstablishes, NextPreserves, PTL DEF Spec

(* Types, and the walk's index leaves the transfer by at most a trailer.    *)
THEOREM TypeCorrect == Spec => []TypeOK
  <1>1. DeaggInv => TypeOK
    BY DEF DeaggInv
  <1> QED
    BY <1>1, DeaggInvariant, PTL

(* No frame handed to mac80211 holds a byte of another subframe, of its     *)
(* descriptor or from behind the transfer.                                  *)
THEOREM FramesOwnTheirBytes == Spec => []OwnBytesOnly
  <1>1. DeaggInv => OwnBytesOnly
    BY DEF DeaggInv
  <1> QED
    BY <1>1, DeaggInvariant, PTL

(* Frames reach mac80211 in order and never twice.                          *)
THEOREM FramesInOrder == Spec => []OrderedOnce
  <1>1. DeaggInv => OrderedOnce
    BY DEF DeaggInv
  <1> QED
    BY <1>1, DeaggInvariant, PTL

(* Payload bytes are taken for a frame only behind a damaged length.        *)
THEOREM NoInventedFrames == Spec => []NothingInvented
  <1>1. DeaggInv => NothingInvented
    BY DEF DeaggInv
  <1> QED
    BY <1>1, DeaggInvariant, PTL

(* The walk hands up every whole frame that has sound subframes before it.  *)
THEOREM NoMissedFrames == Spec => []NothingMissed
  <1>1. DeaggInv => NothingMissed
    <2> SUFFICES ASSUME DeaggInv, pc = "done", status = "ok", NEW p \in DOMAIN at,
                        \A q \in DOMAIN at : q <= p => Sound(q),
                        Carries(at[p]), p + at[p].real <= actual
                 PROVE  p \in Delivered \cup lost
      BY DEF NothingMissed
    <2>1. DOMAIN at \subseteq Nat
      BY DEF DeaggInv, TypeOK
    <2>2. Due(p)
      BY <2>1 DEF Due, SoundUpTo
    <2> QED
      BY <2>2 DEF DeaggInv, DueInv
  <1> QED
    BY <1>1, DeaggInvariant, PTL
=============================================================================
