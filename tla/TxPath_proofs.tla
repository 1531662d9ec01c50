---------------------------- MODULE TxPath_proofs ----------------------------
(* Theorems about TxPath, for every set of frames that satisfies            *)
(* FramesAssumption.                                                        *)
EXTENDS TxPath, TLAPS

(* What the proofs use of a frame.                                          *)
LEMMA FrameFacts ==
  ASSUME NEW f \in Frames
  PROVE  /\ f.data \in Seq(Nat)
         /\ Len(f.data) \in Nat \ {0} /\ Len(f.data) <= 8192
         /\ f.hdr \in Nat /\ f.hdr <= Len(f.data) /\ f.hdr <= 62 /\ f.hdr % 2 = 0
         /\ f.kind # "data" => f.hdr % 4 = 0
<1>1. /\ f.data \in Seq(Nat)
      /\ f.hdr \in 10..MaxHdr /\ f.hdr % 2 = 0 /\ f.hdr <= Len(f.data)
      /\ f.kind # "data" => f.hdr % 4 = 0
      /\ Len(f.data) <= MaxLen
  BY FramesAssumption, Zenon
<1>2. Len(f.data) \in Nat
  BY <1>1
<1>3. /\ Len(f.data) \in Nat \ {0} /\ Len(f.data) <= 8192
      /\ f.hdr \in Nat /\ f.hdr <= Len(f.data) /\ f.hdr <= 62
  <2> DEFINE h == f.hdr
             n == Len(f.data)
  <2>1. h \in 10..62 /\ n \in Nat /\ h <= n /\ n <= 8192
    BY <1>1, <1>2 DEF MaxLen, MaxHdr
  <2> HIDE DEF h, n
  <2>2. n \in Nat \ {0} /\ n <= 8192 /\ h \in Nat /\ h <= n /\ h <= 62
    BY <2>1
  <2> QED BY <2>2 DEF h, n
<1> QED BY <1>1, <1>3

(* Header padding, at most three bytes, completes a word.                   *)
LEMMA PadBounds ==
  ASSUME NEW h \in Nat
  PROVE  TxHdrPadLen(h) \in 0..3 /\ (h + TxHdrPadLen(h)) % 4 = 0 /\ HdrPadLen(h) = TxHdrPadLen(h)
  BY DEF TxHdrPadLen, HdrPadLen

(* Alignment adds at most three bytes.                                      *)
LEMMA AlignBounds ==
  ASSUME NEW n \in Nat
  PROVE  Align4(n) \in n..(n + 3) /\ Align4(n) % 4 = 0
  BY DEF Align4

(* The bytes of the padded transfer, one by one.                            *)
LEMMA TransferBytes ==
  ASSUME NEW f \in Frames, NEW txd
  PROVE  LET u == Transfer(f, txd)
             n == Len(f.data)
             p == TxHdrPadLen(f.hdr)
         IN  /\ Len(u.buf) = Align4(n + p + 32) + 4
             /\ \A k \in 1..f.hdr : u.buf[32 + k] = f.data[k]
             /\ \A k \in (f.hdr + 1)..n : u.buf[32 + p + k] = f.data[k]
             /\ u.hdr_len = f.hdr /\ u.hdr_pad_len = p /\ u.orig_len = n
<1> DEFINE n == Len(f.data)
           h == f.hdr
           p == TxHdrPadLen(h)
           d == f.data
           a == PadHeader(d, h, p)
           s == PushTxd(a)
           e == Align4(Len(s)) + 4 - Len(s)
           t == PadTail(s, e)
<1>1. n \in Nat /\ n <= 8192 /\ h \in Nat /\ h <= n
  BY FrameFacts
<1>2. p \in 0..3
  BY <1>1, PadBounds
<1>3. a = [k \in 1..(n + p) |-> IF k <= h THEN d[k] ELSE IF k <= h + p THEN 0 ELSE d[k - p]]
  BY DEF PadHeader
<1>4. /\ Transfer(f, txd).buf = t
      /\ Transfer(f, txd).hdr_len = h
      /\ Transfer(f, txd).hdr_pad_len = p
      /\ Transfer(f, txd).orig_len = n % 65536
  BY DEF Transfer
<1> HIDE DEF n, h, p, d, a
<1>5. Len(a) = n + p
  BY <1>1, <1>2, <1>3
<1> DEFINE m == n + p + 32
<1>6. s = [k \in 1..m |-> IF k <= 32 THEN 0 ELSE a[k - 32]]
  BY <1>5 DEF PushTxd, TXWI_SIZE
<1> HIDE DEF s
<1>7. m \in Nat /\ Len(s) = m
  BY <1>1, <1>2, <1>6
<1> DEFINE z == Align4(m) + 4
<1> HIDE DEF m
<1>8. z \in Nat /\ z >= m + 4
  <2>1. Align4(m) \in m..(m + 3)
    BY <1>7, AlignBounds
  <2> QED BY <1>7, <2>1
<1>9. t = [k \in 1..(m + (z - m)) |-> IF k <= m THEN s[k] ELSE 0]
  <2>1. e = z - m
    <3>1. Align4(Len(s)) = Align4(m) /\ Align4(m) \in Nat
      BY <1>7 DEF Align4
    <3> QED BY <1>7, <3>1
  <2> HIDE DEF e, z
  <2>2. t = [k \in 1..(Len(s) + e) |-> IF k <= Len(s) THEN s[k] ELSE 0]
    BY DEF PadTail
  <2> HIDE DEF t
  <2> QED BY <1>7, <2>1, <2>2
<1> HIDE DEF t, z, e
<1>10. t = [k \in 1..z |-> IF k <= m THEN s[k] ELSE 0]
  <2>1. m + (z - m) = z
    BY <1>7, <1>8
  <2> QED BY <1>9, <2>1
<1>11. Len(t) = z
  BY <1>8, <1>10
<1>12. ASSUME NEW k \in 1..m PROVE t[k] = s[k]
  <2>1. k \in 1..z /\ k <= m
    BY <1>7, <1>8
  <2> QED BY <1>10, <2>1
<1>13. ASSUME NEW k \in 33..m PROVE s[k] = a[k - 32]
  <2>1. k \in 1..m /\ ~(k <= 32)
    BY <1>7
  <2> QED BY <1>6, <2>1 DEF m
<1>14. ASSUME NEW k \in 1..h PROVE t[32 + k] = d[k]
  <2>1. 32 + k \in 33..m /\ k \in 1..(n + p) /\ k <= h /\ (32 + k) - 32 = k
    BY <1>1, <1>2 DEF m
  <2>2. t[32 + k] = a[k]
    BY <1>7, <1>12, <1>13, <2>1
  <2>3. a[k] = d[k]
    BY <1>3, <2>1
  <2> QED BY <2>2, <2>3
<1>15. ASSUME NEW k \in (h + 1)..n PROVE t[32 + p + k] = d[k]
  <2>1. /\ 32 + p + k \in 33..m /\ p + k \in 1..(n + p) /\ ~(p + k <= h)
        /\ ~(p + k <= h + p) /\ (32 + p + k) - 32 = p + k /\ (p + k) - p = k
    BY <1>1, <1>2 DEF m
  <2>2. t[32 + p + k] = a[p + k]
    BY <1>7, <1>12, <1>13, <2>1
  <2>3. a[p + k] = d[k]
    BY <1>3, <2>1
  <2> QED BY <2>2, <2>3
<1>16. n % 65536 = n
  BY <1>1
<1> DEFINE u == Transfer(f, txd)
<1>17. /\ Len(u.buf) = Align4(n + p + 32) + 4
       /\ \A k \in 1..h : u.buf[32 + k] = d[k]
       /\ \A k \in (h + 1)..n : u.buf[32 + p + k] = d[k]
       /\ u.hdr_len = h /\ u.hdr_pad_len = p /\ u.orig_len = n
  <2> HIDE DEF u
  <2>1. u.buf = t /\ u.hdr_len = h /\ u.hdr_pad_len = p /\ u.orig_len = n
    BY <1>4, <1>16 DEF u
  <2> QED BY <1>11, <1>14, <1>15, <2>1 DEF m, z
<1> QED BY <1>17 DEF n, h, p, d

(* tx_complete undoes tx.                                                   *)
LEMMA RecoveredIsData ==
  ASSUME NEW f \in Frames, NEW txd
  PROVE  Recovered(Transfer(f, txd)) = f.data
<1> DEFINE u == Transfer(f, txd)
           n == Len(f.data)
           h == f.hdr
           p == TxHdrPadLen(f.hdr)
           b == PullTxd(u.buf)
           c == CloseHeader(b, h, p)
<1>1. n \in Nat \ {0} /\ n <= 8192 /\ h \in Nat /\ h <= n /\ f.data \in Seq(Nat)
  BY FrameFacts
<1>2. p \in 0..3
  BY <1>1, PadBounds
<1> DEFINE l == Len(u.buf)
<1>3. /\ l \in Nat /\ l >= n + p + 36
      /\ \A k \in 1..h : u.buf[32 + k] = f.data[k]
      /\ \A k \in (h + 1)..n : u.buf[32 + p + k] = f.data[k]
      /\ u.hdr_len = h /\ u.hdr_pad_len = p /\ u.orig_len = n
  <2>1. n + p + 32 \in Nat
    BY <1>1, <1>2
  <2> DEFINE m == n + p + 32
  <2> HIDE DEF m
  <2>2. Align4(m) \in m..(m + 3)
    BY <2>1, AlignBounds DEF m
  <2>3. /\ l = Align4(m) + 4
        /\ \A k \in 1..h : u.buf[32 + k] = f.data[k]
        /\ \A k \in (h + 1)..n : u.buf[32 + p + k] = f.data[k]
        /\ u.hdr_len = h /\ u.hdr_pad_len = p /\ u.orig_len = n
    <3>1. /\ l = Align4(n + p + 32) + 4
          /\ \A k \in 1..h : u.buf[32 + k] = f.data[k]
          /\ \A k \in (h + 1)..n : u.buf[32 + p + k] = f.data[k]
          /\ u.hdr_len = h /\ u.hdr_pad_len = p /\ u.orig_len = n
      BY TransferBytes, Zenon
    <3> QED BY <3>1, Zenon DEF m
  <2> HIDE DEF l, u, n, p
  <2>4. l \in Nat /\ l >= m + 4
    BY <2>1, <2>2, <2>3 DEF m
  <2>5. l >= n + p + 36
    BY <1>1, <1>2, <2>1, <2>4 DEF m
  <2> QED BY <2>3, <2>4, <2>5
<1> HIDE DEF u, p, h, n, l
<1>4. b = [k \in 1..(l - 32) |-> u.buf[k + 32]] /\ l - 32 \in Nat
  BY <1>1, <1>2, <1>3 DEF PullTxd, TXWI_SIZE, l
<1>5. Len(b) = l - 32
  BY <1>4
<1> DEFINE q == l - 32
<1> HIDE DEF b
<1>6. q \in Nat /\ q >= n + p + 4 /\ Len(b) = q
  BY <1>1, <1>2, <1>3, <1>5
<1> HIDE DEF q
<1>7. /\ \A k \in 1..h : b[k] = f.data[k]
      /\ \A k \in (h + 1)..n : b[k + p] = f.data[k]
  <2>1. ASSUME NEW k \in 1..h PROVE b[k] = f.data[k]
    <3>1. k \in 1..(l - 32) /\ k + 32 = 32 + k
      BY <1>1, <1>2, <1>3
    <3> QED BY <1>3, <1>4, <3>1
  <2>2. ASSUME NEW k \in (h + 1)..n PROVE b[k + p] = f.data[k]
    <3>1. k + p \in 1..(l - 32) /\ (k + p) + 32 = 32 + p + k
      BY <1>1, <1>2, <1>3
    <3> QED BY <1>3, <1>4, <3>1
  <2> QED BY <2>1, <2>2
<1>8. Len(c) = q /\ \A k \in 1..n : c[k] = f.data[k]
  <2>1. CASE p = 0
    <3>1. c = b
      BY <2>1 DEF CloseHeader
    <3>2. ASSUME NEW k \in 1..n PROVE c[k] = f.data[k]
      <4>1. k \in 1..h \/ (k \in (h + 1)..n /\ k + p = k)
        BY <1>1, <2>1
      <4> QED BY <1>7, <3>1, <4>1
    <3> QED BY <1>6, <3>1, <3>2
  <2>2. CASE p # 0
    <3>1. ~(p = 0 \/ Len(b) < h + p)
      BY <1>1, <1>2, <1>6, <2>2
    <3>2. c = [k \in 1..Len(b) |-> IF k > h /\ k <= Len(b) - p THEN b[k + p] ELSE b[k]]
      BY <3>1 DEF CloseHeader
    <3> HIDE DEF c
    <3>3. c = [k \in 1..q |-> IF k > h /\ k <= q - p THEN b[k + p] ELSE b[k]]
      BY <1>6, <3>2
    <3>4. Len(c) = q
      BY <1>6, <3>3
    <3>5. ASSUME NEW k \in 1..n PROVE c[k] = f.data[k]
      <4>1. k \in 1..q /\ k <= q - p
        BY <1>1, <1>2, <1>6
      <4>2. CASE k <= h
        <5>1. k \in 1..h /\ ~(k > h)
          BY <1>1, <4>2
        <5> QED BY <1>7, <3>3, <4>1, <5>1
      <4>3. CASE k > h
        <5>1. k \in (h + 1)..n
          BY <1>1, <4>3
        <5> QED BY <1>7, <3>3, <4>1, <4>3, <5>1
      <4> QED BY <1>1, <4>2, <4>3
    <3> QED BY <3>4, <3>5
  <2> QED BY <2>1, <2>2
<1> HIDE DEF c
<1>9. Trim(c, n) = [k \in 1..n |-> c[k]]
  <2>1. n > 0 /\ Len(c) > n
    BY <1>1, <1>2, <1>6, <1>8
  <2> QED BY <2>1 DEF Trim
<1>10. Recovered(u) = Trim(c, n)
  BY <1>3 DEF Recovered, c, b
<1>11. f.data = [k \in 1..n |-> f.data[k]]
  BY <1>1 DEF n
<1>12. [k \in 1..n |-> c[k]] = [k \in 1..n |-> f.data[k]]
  BY <1>8
<1> QED BY <1>9, <1>10, <1>11, <1>12 DEF u

(* An aligned count is left alone.                                          *)
LEMMA AlignTwice ==
  ASSUME NEW n \in Nat
  PROVE  Align4(Align4(n)) = Align4(n)
<1>1. Align4(n) \in Nat /\ Align4(n) % 4 = 0
  BY AlignBounds
<1> DEFINE m == Align4(n)
<1> HIDE DEF m
<1>2. Align4(m) = m
  BY <1>1 DEF Align4, m
<1> QED BY <1>2 DEF m

-----------------------------------------------------------------------------
(* The descriptor.                                                          *)

(* Length of the padded frame with its TXD.                                 *)
Total(f) == Len(f.data) + TxHdrPadLen(f.hdr) + TXWI_SIZE

(* What a submitted transfer says of its frame.                             *)
Describes(u, f) ==
    /\ \E txd : u = Transfer(f, txd)
    /\ u.txd.eth_type_offset = 0
    /\ u.txd.tx_byte_cnt = IF IsMgmt(f) THEN Total(f) ELSE Align4(Total(f))
    /\ u.txd.hdr_info = f.hdr \div 2
    /\ u.txd.hdr_pad = TxHdrPadLen(f.hdr)
    /\ ~f.no_ack => u.txd.no_ack = 0

(* Frame, padding and TXD fit the 16 bits of tx_byte_cnt.                   *)
LEMMA TotalFacts ==
  ASSUME NEW f \in Frames
  PROVE  /\ Total(f) \in Nat /\ Total(f) < 65536 /\ Align4(Total(f)) < 65536
         /\ Total(f) = Len(f.data) + TxHdrPadLen(f.hdr) + 32
         /\ Align4(Total(f)) \in Total(f)..(Total(f) + 3)
<1> DEFINE n == Len(f.data)
           p == TxHdrPadLen(f.hdr)
<1>1. n \in Nat /\ n <= 8192 /\ f.hdr \in Nat
  BY FrameFacts
<1>2. p \in 0..3
  BY <1>1, PadBounds
<1>3. Total(f) = n + p + 32
  BY DEF Total, TXWI_SIZE
<1> HIDE DEF n, p
<1>4. Total(f) \in Nat /\ Total(f) <= 8227
  BY <1>1, <1>2, <1>3
<1> DEFINE m == Total(f)
<1> HIDE DEF m
<1>5. m \in Nat /\ m <= 8227
  BY <1>4 DEF m
<1>6. Align4(m) \in m..(m + 3)
  BY <1>5, AlignBounds
<1>7. m < 65536 /\ Align4(m) < 65536
  BY <1>5, <1>6
<1> QED BY <1>3, <1>4, <1>6, <1>7 DEF m, n, p

TxdFields == {"tx_byte_cnt", "eth_type_offset", "q_idx", "wlan_idx", "hdr_info", "hdr_pad",
              "no_ack", "protect_frm", "bc_mc_pkt", "bw", "tx_rate", "gi"}

(* What build_txwi writes for a frame of n bytes with a header of h.        *)
LEMMA TxwiFields ==
  ASSUME NEW n \in Nat, n <= 8192, NEW h \in Nat, h <= 62, h % 2 = 0,
         NEW q, q.pkt_len = n, q.hdr_len = h, NEW d, d = RustBuildTxwi(q).txd
  PROVE  /\ DOMAIN d = TxdFields
         /\ d.tx_byte_cnt = n + TxHdrPadLen(h) + 32 /\ d.eth_type_offset = 0
         /\ d.hdr_info = h \div 2 /\ d.hdr_pad = TxHdrPadLen(h) /\ d.no_ack = q.no_ack
         /\ d.tx_rate = TxRateToTmi(q.rate_mode, q.rate_mcs,
                           IF q.rate_mode = HTMIX THEN 1 + (q.rate_mcs \div 8) ELSE 1,
                           q.preamble % 2 = 1)
<1> DEFINE p == HdrPadLen(h)
           tot == n + p + 32
           rate == TxRateToTmi(q.rate_mode, q.rate_mcs,
                       IF q.rate_mode = HTMIX THEN 1 + (q.rate_mcs \div 8) ELSE 1,
                       q.preamble % 2 = 1)
           g == IF q.rate_mode = HTMIX /\ q.preamble >= 2 THEN 1 ELSE 0
<1>1. ~(n + 32 > 65535 \/ h % 2 # 0) /\ ~(32 < 32)
  OBVIOUS
<1>2. d = [tx_byte_cnt |-> tot % 65536, eth_type_offset |-> tot \div 65536,
           q_idx |-> q.queue % 16, wlan_idx |-> q.pid,
           hdr_info |-> (h \div 2) % 32, hdr_pad |-> p % 4,
           no_ack |-> q.no_ack, protect_frm |-> q.protect_frm, bc_mc_pkt |-> q.is_bm,
           bw |-> q.bw, tx_rate |-> rate, gi |-> g]
  BY <1>1 DEF RustBuildTxwi, BuildTxwi, TXWI_SIZE
<1>3. p = TxHdrPadLen(h) /\ p \in 0..3
  BY PadBounds
<1> HIDE DEF rate, g, p
<1>4. tot % 65536 = tot /\ tot \div 65536 = 0 /\ p % 4 = p /\ (h \div 2) % 32 = h \div 2
  BY <1>3
<1> HIDE DEF tot
<1>5. DOMAIN d = TxdFields
  BY <1>2 DEF TxdFields
<1>6. /\ d.tx_byte_cnt = tot /\ d.eth_type_offset = 0
      /\ d.hdr_info = h \div 2 /\ d.hdr_pad = p /\ d.no_ack = q.no_ack
  BY <1>2, <1>4
<1>7. d.tx_rate = rate
  BY <1>2
<1>8. /\ d.tx_byte_cnt = n + TxHdrPadLen(h) + 32
      /\ d.hdr_info = h \div 2 /\ d.hdr_pad = TxHdrPadLen(h)
  BY <1>3, <1>6 DEF tot
<1> QED BY <1>5, <1>6, <1>7, <1>8, Zenon DEF rate

(* The transfer tx submits describes its frame.                             *)
LEMMA TxdDescribes ==
  ASSUME NEW f \in Frames
  PROVE  Describes(Transfer(f, RustBuildTxwi(TxParams(f)).txd), f)
<1> DEFINE q == TxParams(f)
           d == RustBuildTxwi(q).txd
           u == Transfer(f, d)
           b == f.bm \/ (IsInjected(f) /\ f.no_ack)
           n == Len(f.data)
           h == f.hdr
<1>1. n \in Nat /\ n <= 8192 /\ h \in Nat /\ h <= 62 /\ h % 2 = 0
  BY FrameFacts
<1>2. q.pkt_len = n % 65536 /\ q.hdr_len = h
  BY DEF TxParams
<1>3. q.no_ack = Bit(b)
  BY DEF TxParams
<1>4. n % 65536 = n
  <2> HIDE DEF n, h
  <2> QED BY <1>1
<1> HIDE DEF n, h
<1>5. q.pkt_len = n
  <2> HIDE DEF q
  <2> QED BY <1>2, <1>4
<1>6. /\ DOMAIN d = TxdFields
      /\ d.tx_byte_cnt = n + TxHdrPadLen(h) + 32 /\ d.eth_type_offset = 0
      /\ d.hdr_info = h \div 2 /\ d.hdr_pad = TxHdrPadLen(h) /\ d.no_ack = q.no_ack
  <2> HIDE DEF q
  <2> QED BY <1>1, <1>2, <1>5, TxwiFields
<1> HIDE DEF q, d, b
<1>7. Total(f) = n + TxHdrPadLen(h) + 32
  BY TotalFacts DEF n, h
<1>8. Align4(Total(f)) % 65536 = Align4(Total(f))
  <2> DEFINE m == Total(f)
  <2>1. m \in Nat /\ Align4(m) \in m..(m + 3) /\ Align4(m) < 65536
    BY TotalFacts
  <2> HIDE DEF m
  <2>2. Align4(m) \in Nat
    BY <2>1
  <2> QED BY <2>1, <2>2 DEF m
<1>10. ~f.no_ack => Bit(b) = 0
  <2>1. f.bm => f.no_ack
    BY FramesAssumption, Zenon
  <2> QED BY <2>1, Zenon DEF Bit, b
<1>11. Len(PushTxd(PadHeader(f.data, f.hdr, TxHdrPadLen(f.hdr)))) = Total(f)
  <2> DEFINE p == TxHdrPadLen(h)
             a == PadHeader(f.data, h, p)
  <2>1. p \in 0..3
    BY <1>1, PadBounds
  <2>2. a = [k \in 1..(n + p) |-> IF k <= h THEN f.data[k]
                                  ELSE IF k <= h + p THEN 0 ELSE f.data[k - p]]
    BY DEF PadHeader, n
  <2>3. n \in Nat
    BY <1>1
  <2> HIDE DEF p, a
  <2>4. Len(a) = n + p
    BY <2>1, <2>2, <2>3
  <2>5. PushTxd(a) = [k \in 1..(n + p + 32) |-> IF k <= 32 THEN 0 ELSE a[k - 32]]
    BY <2>4 DEF PushTxd, TXWI_SIZE
  <2>6. Len(PushTxd(a)) = n + p + 32
    BY <2>1, <2>3, <2>5
  <2> QED BY <1>7, <2>6 DEF h, p, a
<1>12. u.txd = IF IsMgmt(f) THEN d
               ELSE [d EXCEPT !.tx_byte_cnt = Align4(Total(f)) % 65536]
  BY <1>11 DEF Transfer
<1>13. \E txd : u = Transfer(f, txd)
  OBVIOUS
<1> HIDE DEF u
<1>14. /\ d.eth_type_offset = 0 /\ d.tx_byte_cnt = Total(f)
       /\ d.hdr_info = f.hdr \div 2 /\ d.hdr_pad = TxHdrPadLen(f.hdr)
  BY <1>6, <1>7 DEF h
<1>15. ~f.no_ack => d.no_ack = 0
  BY <1>3, <1>6, <1>10, Zenon
<1>16. CASE IsMgmt(f)
  <2>1. u.txd = d
    BY <1>12, <1>16
  <2>2. Describes(u, f)
    BY <1>13, <1>14, <1>15, <1>16, <2>1, Zenon DEF Describes
  <2> QED BY <2>2 DEF u, d, q
<1>17. CASE ~IsMgmt(f)
  <2> DEFINE e == [d EXCEPT !.tx_byte_cnt = Align4(Total(f)) % 65536]
  <2>1. u.txd = e
    BY <1>12, <1>17
  <2>2. /\ e.eth_type_offset = d.eth_type_offset /\ e.hdr_info = d.hdr_info
        /\ e.hdr_pad = d.hdr_pad /\ e.no_ack = d.no_ack
        /\ e.tx_byte_cnt = Align4(Total(f)) % 65536
    BY <1>6 DEF TxdFields
  <2> HIDE DEF e
  <2>3. e.tx_byte_cnt = Align4(Total(f))
    BY <1>8, <2>2
  <2>4. /\ e.eth_type_offset = 0 /\ e.hdr_info = f.hdr \div 2
        /\ e.hdr_pad = TxHdrPadLen(f.hdr)
    BY <1>14, <2>2
  <2>5. ~f.no_ack => e.no_ack = 0
    <3>1. e.no_ack = d.no_ack
      BY <2>2
    <3> QED BY <1>15, <3>1, Zenon
  <2>6. Describes(u, f)
    BY <1>13, <1>17, <2>1, <2>3, <2>4, <2>5, Zenon DEF Describes
  <2> QED BY <2>6 DEF u, d, q
<1> QED BY <1>16, <1>17

-----------------------------------------------------------------------------
(* The inductive invariant.                                                 *)

(* ReportedIntact is not inductive: what tx_complete gives back comes from  *)
(* the transfer, so the invariant has to say what a transfer holds from its *)
(* submission on.                                                           *)
Inv ==
    /\ TypeOK
    /\ DOMAIN urb = Ids /\ DOMAIN back = Ids
    /\ \A i \in Ids : fate[i] \in {"flight", "status"} => Describes(urb[i], frame[i])
    /\ \A i \in Ids : fate[i] = "status" => back[i] = frame[i].data
    /\ \A i \in acked : fate[i] = "status" /\ ~frame[i].no_ack

(* Initially nothing is in flight.                                          *)
LEMMA InitInv == Init => Inv
<1> SUFFICES ASSUME Init PROVE Inv
  OBVIOUS
<1>1. TypeOK
  <2>1. running \in BOOLEAN /\ ap_vif \in BOOLEAN
    BY Zenon DEF Init
  <2>2. monitor_count \in 0..MaxMonitors /\ current_bw \in {0, 1}
    BY DEF Init, MaxMonitors
  <2>3. frame \in [Ids -> Frames] /\ acked \subseteq Ids
    BY DEF Init
  <2>4. fate \in [Ids -> {"new", "flight", "status", "freed"}]
    BY DEF Init
  <2> QED BY <2>1, <2>2, <2>3, <2>4, Zenon DEF TypeOK
<1>2. DOMAIN urb = Ids /\ DOMAIN back = Ids /\ acked = {}
  BY DEF Init
<1>3. \A i \in Ids : fate[i] = "new"
  BY DEF Init
<1>4. \A i \in Ids : ~(fate[i] \in {"flight", "status"}) /\ fate[i] # "status"
  BY <1>3
<1> QED BY <1>1, <1>2, <1>4, Zenon DEF Inv

(* tx adds a transfer that describes its frame, or frees the frame.         *)
LEMMA TxKeeps ==
  ASSUME Inv, NEW i \in Ids, Tx(i)
  PROVE  Inv'
<1> DEFINE r == RustBuildTxwi(TxParams(frame[i]))
<1>1. frame[i] \in Frames
  BY DEF Inv, TypeOK
<1>2. Describes(Transfer(frame[i], r.txd), frame[i])
  BY <1>1, TxdDescribes
<1>3. /\ fate[i] = "new" /\ UNCHANGED <<dev, frame, back, acked>>
      /\ \/ fate' = [fate EXCEPT ![i] = "freed"] /\ UNCHANGED urb
         \/ /\ fate' = [fate EXCEPT ![i] = "flight"]
            /\ urb' = [urb EXCEPT ![i] = Transfer(frame[i], r.txd)]
  BY DEF Tx
<1> HIDE DEF r
<1>4. TypeOK'
  BY <1>3 DEF Inv, TypeOK, dev
<1>5. (DOMAIN urb = Ids /\ DOMAIN back = Ids)'
  BY <1>3 DEF Inv
<1>6. ASSUME NEW j \in Ids, fate'[j] \in {"flight", "status"}
      PROVE  Describes(urb[j], frame[j])'
  <2>1. Describes(urb'[j], frame[j])
    <3>1. CASE j = i /\ urb' = [urb EXCEPT ![i] = Transfer(frame[i], r.txd)]
      <4>1. urb'[j] = Transfer(frame[i], r.txd)
        BY <3>1 DEF Inv
      <4> QED BY <1>2, <3>1, <4>1 DEF r
    <3>2. CASE ~(j = i /\ urb' = [urb EXCEPT ![i] = Transfer(frame[i], r.txd)])
      <4>1. j # i
        BY <1>3, <1>6, <3>2 DEF Inv, TypeOK
      <4>2. urb'[j] = urb[j] /\ fate'[j] = fate[j]
        BY <1>3, <4>1 DEF Inv, TypeOK
      <4> QED BY <1>6, <4>2 DEF Inv
    <3> QED BY <3>1, <3>2
  <2>2. frame' = frame
    BY <1>3
  <2>3. Describes(urb'[j], frame'[j])
    BY <2>1, <2>2
  <2> QED BY <2>3
<1>7. ASSUME NEW j \in Ids, fate'[j] = "status" PROVE (back[j] = frame[j].data)'
  <2>1. fate[j] = "status"
    BY <1>3, <1>7 DEF Inv, TypeOK
  <2> QED BY <1>3, <2>1 DEF Inv
<1>8. ASSUME NEW j \in acked' PROVE (fate[j] = "status" /\ ~frame[j].no_ack)'
  <2>1. j \in acked /\ j \in Ids /\ j # i
    BY <1>3 DEF Inv, TypeOK
  <2>2. fate'[j] = fate[j] /\ frame' = frame
    BY <1>3, <2>1 DEF Inv, TypeOK
  <2>3. fate[j] = "status" /\ ~frame[j].no_ack
    BY <2>1, Zenon DEF Inv
  <2> QED BY <2>2, <2>3, Zenon
<1> QED BY <1>4, <1>5, <1>6, <1>7, <1>8, Zenon DEF Inv

(* tx_complete gives back what the transfer was made from.                  *)
LEMMA TxCompleteKeeps ==
  ASSUME Inv, NEW i \in Ids, TxComplete(i)
  PROVE  Inv'
<1>1. frame[i] \in Frames /\ Describes(urb[i], frame[i])
  BY DEF TxComplete, Inv, TypeOK
<1>2. /\ fate[i] = "flight" /\ UNCHANGED <<dev, frame, urb>>
      /\ \/ /\ fate' = [fate EXCEPT ![i] = "status"]
            /\ back' = [back EXCEPT ![i] = Recovered(urb[i])]
            /\ acked' = acked \/ (acked' = acked \cup {i} /\ ~frame[i].no_ack)
         \/ fate' = [fate EXCEPT ![i] = "freed"] /\ UNCHANGED <<back, acked>>
  BY Zenon DEF TxComplete, MayAck
<1>3. Recovered(urb[i]) = frame[i].data
  <2>1. PICK txd : urb[i] = Transfer(frame[i], txd)
    BY <1>1 DEF Describes
  <2> QED BY <1>1, <2>1, RecoveredIsData
<1>4. acked' \subseteq acked \cup {i} /\ frame' = frame /\ urb' = urb
  BY <1>2
<1>5. /\ fate' = [fate EXCEPT ![i] = "status"] \/ fate' = [fate EXCEPT ![i] = "freed"]
      /\ UNCHANGED dev
  BY <1>2
<1>6. TypeOK'
  BY <1>4, <1>5 DEF Inv, TypeOK, dev
<1>7. (DOMAIN urb = Ids /\ DOMAIN back = Ids)'
  BY <1>2 DEF Inv
<1>8. ASSUME NEW j \in Ids, fate'[j] \in {"flight", "status"}
      PROVE  Describes(urb[j], frame[j])'
  <2>1. fate[j] \in {"flight", "status"}
    BY <1>2, <1>5, <1>8 DEF Inv, TypeOK
  <2>2. Describes(urb[j], frame[j])
    BY <2>1 DEF Inv
  <2>3. Describes(urb'[j], frame'[j])
    BY <1>4, <2>2
  <2> QED BY <2>3
<1>9. ASSUME NEW j \in Ids, fate'[j] = "status" PROVE (back[j] = frame[j].data)'
  <2>1. CASE j = i
    BY <1>2, <1>3, <1>4, <1>9, <2>1 DEF Inv, TypeOK
  <2>2. CASE j # i
    <3>1. fate'[j] = fate[j] /\ back'[j] = back[j]
      BY <1>2, <2>2 DEF Inv, TypeOK
    <3> QED BY <1>4, <1>9, <3>1 DEF Inv
  <2> QED BY <2>1, <2>2
<1>10. ASSUME NEW j \in acked' PROVE (fate[j] = "status" /\ ~frame[j].no_ack)'
  <2>1. CASE j \in acked
    <3>1. fate[j] = "status" /\ ~frame[j].no_ack
      BY <2>1, Zenon DEF Inv
    <3>2. j # i /\ j \in Ids
      BY <1>2, <2>1, <3>1 DEF Inv, TypeOK
    <3>3. fate'[j] = fate[j]
      BY <1>5, <3>2 DEF Inv, TypeOK
    <3> QED BY <1>4, <3>1, <3>3, Zenon
  <2>2. CASE j \notin acked
    <3>1. /\ j = i /\ ~frame[i].no_ack
          /\ fate' = [fate EXCEPT ![i] = "status"]
      BY <1>2, <2>2, Zenon
    <3>2. fate'[j] = "status"
      BY <3>1 DEF Inv, TypeOK
    <3> QED BY <1>4, <3>1, <3>2, Zenon
  <2> QED BY <2>1, <2>2
<1> QED BY <1>6, <1>7, <1>8, <1>9, <1>10, Zenon DEF Inv

(* The other actions leave frames and transfers alone.                      *)
LEMMA DeviceKeeps ==
  ASSUME Inv, \/ Start \/ Stop \/ Interfaces \/ SetChannel \/ UNCHANGED vars
  PROVE  Inv'
<1>1. UNCHANGED <<frame, fate, urb, back, acked>>
  BY DEF Start, Stop, Interfaces, SetChannel, vars
<1>2. TypeOK'
  <2>1. running' \in BOOLEAN /\ ap_vif' \in BOOLEAN /\ current_bw' \in {0, 1}
    BY DEF Start, Stop, Interfaces, SetChannel, vars, dev, Inv, TypeOK
  <2>2. monitor_count' \in 0..MaxMonitors
    BY DEF Start, Stop, Interfaces, SetChannel, vars, dev, Inv, TypeOK, MaxMonitors
  <2> QED BY <1>1, <2>1, <2>2 DEF Inv, TypeOK
<1>3. \A i \in Ids : Describes(urb[i], frame[i]) => Describes(urb[i], frame[i])'
  <2>1. \A i \in Ids : Describes(urb[i], frame[i]) => Describes(urb'[i], frame'[i])
    BY <1>1
  <2> QED BY <2>1
<1>4. /\ \A i \in Ids : fate[i] \in {"flight", "status"} => Describes(urb[i], frame[i])
      /\ \A i \in Ids : fate[i] = "status" => back[i] = frame[i].data
      /\ \A i \in acked : fate[i] = "status" /\ ~frame[i].no_ack
      /\ DOMAIN urb = Ids /\ DOMAIN back = Ids
  BY DEF Inv
<1> QED BY <1>1, <1>2, <1>3, <1>4, Zenon DEF Inv

(* The invariant is inductive.                                              *)
LEMMA InvHolds == Spec => []Inv
<1>1. Inv /\ [Next]_vars => Inv'
  BY TxKeeps, TxCompleteKeeps, DeviceKeeps DEF Next
<1> QED BY InitInv, <1>1, PTL DEF Spec

-----------------------------------------------------------------------------
(* The theorems.                                                            *)

(* The variables keep their types: in particular monitor_count never drops  *)
(* below zero, whatever order interfaces come and go in.                    *)
THEOREM TypeCorrect == Spec => []TypeOK
  BY InvHolds, PTL DEF Inv

(* Whatever frame mac80211 hands over, mt7603_tx_complete gives back its    *)
(* bytes unchanged.                                                         *)
THEOREM FramesReturnIntact == Spec => []ReportedIntact
<1>1. Inv => ReportedIntact
  BY DEF Inv, ReportedIntact
<1> QED BY InvHolds, <1>1, PTL

(* No acknowledgement is reported for a frame whose descriptor told the     *)
(* receiver not to answer.                                                  *)
THEOREM AcksWereAsked == Spec => []AckWasAsked
<1>1. Inv => AckWasAsked
  <2> SUFFICES ASSUME Inv, NEW i \in acked
               PROVE  fate[i] = "status" /\ urb[i].txd.no_ack = 0
    BY DEF AckWasAsked
  <2>1. i \in Ids
    BY DEF Inv, TypeOK
  <2>2. fate[i] = "status" /\ ~frame[i].no_ack
    BY Zenon DEF Inv
  <2>3. Describes(urb[i], frame[i])
    BY <2>1, <2>2 DEF Inv
  <2> QED BY <2>2, <2>3, Zenon DEF Describes
<1> QED BY InvHolds, <1>1, PTL

(* Descriptor and transfer agree for every frame: the chip finds the frame  *)
(* mac80211 handed over between the TXD and the trailing padding.           *)
THEOREM ChipSeesEveryFrame == Spec => []ChipSeesFrame
<1>1. ASSUME Inv, NEW i \in Ids, fate[i] = "flight"
      PROVE  LET u == urb[i]
                 f == frame[i]
                 a == OnAir(u)
             IN  /\ u.txd.eth_type_offset = 0
                 /\ Len(u.buf) = Align4(u.txd.tx_byte_cnt) + 4
                 /\ (2 * u.txd.hdr_info + u.txd.hdr_pad) % 4 = 0
                 /\ Len(a) - Len(f.data) \in (IF IsMgmt(f) THEN {0} ELSE 0..3)
                 /\ \A k \in 1..Len(f.data) : a[k] = f.data[k]
  <2> DEFINE u == urb[i]
             f == frame[i]
             a == OnAir(u)
             n == Len(f.data)
             h == f.hdr
             p == TxHdrPadLen(f.hdr)
             m == Total(f)
             c == u.txd.tx_byte_cnt
  <2>1. f \in Frames /\ Describes(u, f)
    BY <1>1 DEF Inv, TypeOK
  <2>2. PICK txd : u = Transfer(f, txd)
    BY <2>1 DEF Describes
  <2>3. /\ u.txd.eth_type_offset = 0 /\ u.txd.hdr_info = h \div 2 /\ u.txd.hdr_pad = p
        /\ c = IF IsMgmt(f) THEN m ELSE Align4(m)
    BY <2>1, Zenon DEF Describes
  <2> HIDE DEF u, f
  <2>4. /\ n \in Nat /\ h \in Nat /\ h <= n /\ h % 2 = 0
        /\ f.kind # "data" => h % 4 = 0
    BY <2>1, FrameFacts
  <2>5. m = n + p + 32 /\ Align4(m) \in m..(m + 3)
    BY <2>1, TotalFacts
  <2>6. /\ Len(u.buf) = Align4(n + p + 32) + 4
        /\ \A k \in 1..h : u.buf[32 + k] = f.data[k]
        /\ \A k \in (h + 1)..n : u.buf[32 + p + k] = f.data[k]
    BY <2>1, <2>2, TransferBytes, Zenon
  <2> DEFINE hl == 2 * u.txd.hdr_info
             hp == u.txd.hdr_pad
  <2>7. a = [k \in 1..(c - 32 - hp) |-> IF k <= hl THEN u.buf[32 + k] ELSE u.buf[32 + hp + k]]
    BY DEF OnAir, TXWI_SIZE
  <2>8. IsMgmt(f) => h % 4 = 0
    BY <2>4 DEF IsMgmt
  <2> HIDE DEF n, m, c, a
  <2>9. hl = h /\ hp = p
    <3> HIDE DEF h, p
    <3>1. 2 * (h \div 2) = h
      BY <2>4
    <3> QED BY <2>3, <3>1
  <2>10. /\ p \in 0..3 /\ (h + p) % 4 = 0 /\ (IsMgmt(f) => p = 0)
    <3>1. p \in 0..3 /\ (h + p) % 4 = 0
      BY <2>4, PadBounds
    <3> HIDE DEF h, p
    <3>2. h % 4 = 0 => p = 0
      BY <2>4, <3>1
    <3> QED BY <2>8, <3>1, <3>2
  <2> HIDE DEF hl, hp, h, p
  <2>11. m \in Nat /\ Align4(m) \in Nat /\ Align4(Align4(m)) = Align4(m)
    BY <2>4, <2>5, <2>10, AlignTwice
  <2>12. /\ Align4(c) = Align4(m) /\ c \in Nat
         /\ c - 32 - hp = n + (c - m) /\ c - m \in (IF IsMgmt(f) THEN {0} ELSE 0..3)
    <3>1. CASE IsMgmt(f)
      <4>1. c = m
        BY <2>3, <3>1
      <4> QED BY <2>4, <2>5, <2>9, <2>10, <2>11, <3>1, <4>1
    <3>2. CASE ~IsMgmt(f)
      <4>1. c = Align4(m)
        BY <2>3, <3>2
      <4>2. Align4(c) = Align4(m) /\ c \in Nat /\ c \in m..(m + 3)
        BY <2>5, <2>11, <4>1
      <4> QED BY <2>4, <2>5, <2>9, <2>10, <2>11, <3>2, <4>2
    <3> QED BY <3>1, <3>2
  <2>13. Len(u.buf) = Align4(c) + 4
    BY <2>5, <2>6, <2>12
  <2>14. (2 * u.txd.hdr_info + u.txd.hdr_pad) % 4 = 0
    BY <2>9, <2>10 DEF hl, hp
  <2> DEFINE l == c - 32 - hp
  <2>15. l \in Nat /\ l >= n /\ l - n \in (IF IsMgmt(f) THEN {0} ELSE 0..3)
    <3> DEFINE e == c - m
    <3>1. e \in 0..3 /\ e \in (IF IsMgmt(f) THEN {0} ELSE 0..3) /\ l = n + e
      BY <2>12
    <3> HIDE DEF e, l
    <3>2. l \in Nat /\ l >= n /\ l - n = e
      BY <2>4, <3>1
    <3> QED BY <3>1, <3>2
  <2>16. a = [k \in 1..l |-> IF k <= h THEN u.buf[32 + k] ELSE u.buf[32 + p + k]]
    BY <2>7, <2>9
  <2> HIDE DEF l
  <2>17. Len(a) = l
    BY <2>15, <2>16
  <2>18. ASSUME NEW k \in 1..n PROVE a[k] = f.data[k]
    <3>1. k \in 1..l
      BY <2>4, <2>15
    <3>2. CASE k <= h
      <4>1. k \in 1..h
        BY <2>4, <3>2
      <4> QED BY <2>6, <2>16, <3>1, <3>2, <4>1
    <3>3. CASE ~(k <= h)
      <4>1. k \in (h + 1)..n
        BY <2>4, <3>3
      <4> QED BY <2>6, <2>16, <3>1, <3>3, <4>1
    <3> QED BY <3>2, <3>3
  <2>19. /\ u.txd.eth_type_offset = 0
         /\ Len(u.buf) = Align4(u.txd.tx_byte_cnt) + 4
         /\ (2 * u.txd.hdr_info + u.txd.hdr_pad) % 4 = 0
         /\ Len(a) - n \in (IF IsMgmt(f) THEN {0} ELSE 0..3)
         /\ \A k \in 1..n : a[k] = f.data[k]
    BY <2>3, <2>13, <2>14, <2>15, <2>17, <2>18 DEF c
  <2> QED BY <2>19, Zenon DEF u, f, a, n
<1>2. Inv => ChipSeesFrame
  BY <1>1, Zenon DEF ChipSeesFrame
<1> QED BY InvHolds, <1>2, PTL

-----------------------------------------------------------------------------
(* The rate.                                                                *)

(* The rate index a station has to read off a data frame with rate r.       *)
SentIdx(r) == IF ~r.mcs /\ r.idx = 0 /\ r.short THEN 1 ELSE r.idx

(* What a station reads off a tx_rate word with an HT rate: the streams are *)
(* above the mode and do not disturb it.                                    *)
LEMMA HtRoundTrip ==
  ASSUME NEW k \in 0..15, NEW long
  PROVE  ParseRate(TxRateToTmi(HTMIX, k, 1 + (k \div 8), long)) = [mcs |-> TRUE, idx |-> k]
<1> DEFINE t == TxRateToTmi(HTMIX, k, 1 + (k \div 8), long)
<1>1. t = ((1 + (k \div 8) - 1) % 4) * 512 + 128 + k
  BY DEF TxRateToTmi, HTMIX, CCK, OFDM
<1> HIDE DEF t
<1>2. t \in Nat /\ (t \div 64) % 8 = 2 /\ t % 64 = k
  BY <1>1
<1>3. ParseRate(t) = [mcs |-> TRUE, idx |-> (t % 64) % 16]
  BY <1>2 DEF ParseRate
<1>4. (t % 64) % 16 = k
  BY <1>2
<1> QED BY <1>3, <1>4 DEF t

(* With a short preamble the table has 2 Mbit/s in the place of 1.          *)
LEMMA CckRoundTrip ==
  ASSUME NEW k \in 0..3, NEW long \in BOOLEAN
  PROVE  ParseRate(TxRateToTmi(CCK, k, 1, long)) =
            [mcs |-> FALSE, idx |-> IF ~long /\ k = 0 THEN 1 ELSE k]
<1> DEFINE t == TxRateToTmi(CCK, k, 1, long)
           e == IF ~long /\ k = 0 THEN 1 ELSE k
<1>1. t \in 0..7 /\ t % 4 = e
  <2> DEFINE v == IF long THEN k ELSE <<5, 5, 6, 7>>[k + 1]
  <2>0. t = v
    <3>1. CCK # OFDM /\ CCK # HTMIX
      BY DEF CCK, OFDM, HTMIX
    <3> QED BY <3>1, Zenon DEF TxRateToTmi
  <2>1. CASE long
    <3>1. t = k /\ e = k
      BY <2>0, <2>1, Zenon
    <3> QED BY <3>1
  <2>2. CASE ~long
    <3>1. t = <<5, 5, 6, 7>>[k + 1]
      BY <2>0, <2>2, Zenon
    <3>2. k = 0 \/ k = 1 \/ k = 2 \/ k = 3
      OBVIOUS
    <3> QED BY <2>2, <3>1, <3>2
  <2> QED BY <2>1, <2>2
<1> HIDE DEF t, e
<1>2. (t \div 64) % 8 = 0 /\ (t % 64) % 4 = e
  BY <1>1
<1>3. ParseRate(t) = [mcs |-> FALSE, idx |-> (t % 64) % 4]
  BY <1>2 DEF ParseRate
<1> QED BY <1>2, <1>3 DEF t, e

(* The eight OFDM codes are different, so the receiver finds the entry the  *)
(* sender took.                                                             *)
LEMMA OfdmRoundTrip ==
  ASSUME NEW k \in 0..7, NEW long
  PROVE  ParseRate(TxRateToTmi(OFDM, k, 1, long)) = [mcs |-> FALSE, idx |-> k + 4]
<1> DEFINE t == TxRateToTmi(OFDM, k, 1, long)
           c == TMI_OFDM[k + 1]
           j == CHOOSE j \in 1..8 : TMI_OFDM[j] = c
<1>1. t = 64 + c
  <2>1. t = OFDM * 64 + TMI_OFDM[k + 1]
    <3>1. OFDM # CCK /\ OFDM # HTMIX
      BY DEF OFDM, CCK, HTMIX
    <3> QED BY <3>1, Zenon DEF TxRateToTmi
  <2> QED BY <2>1 DEF OFDM
<1>2. k = 0 \/ k = 1 \/ k = 2 \/ k = 3 \/ k = 4 \/ k = 5 \/ k = 6 \/ k = 7
  OBVIOUS
<1>3. /\ TMI_OFDM[1] = 11 /\ TMI_OFDM[2] = 15 /\ TMI_OFDM[3] = 10 /\ TMI_OFDM[4] = 14
      /\ TMI_OFDM[5] = 9 /\ TMI_OFDM[6] = 13 /\ TMI_OFDM[7] = 8 /\ TMI_OFDM[8] = 12
  BY DEF TMI_OFDM
<1>4. c \in 8..15
  BY <1>2, <1>3
<1>5. k + 1 \in 1..8
  OBVIOUS
<1>6. \A i \in 1..8 : TMI_OFDM[i] = c => i = k + 1
  <2> SUFFICES ASSUME NEW i \in 1..8, TMI_OFDM[i] = c PROVE i = k + 1
    OBVIOUS
  <2>1. i = 1 \/ i = 2 \/ i = 3 \/ i = 4 \/ i = 5 \/ i = 6 \/ i = 7 \/ i = 8
    OBVIOUS
  <2> QED BY <1>2, <1>3, <2>1
<1>7. j = k + 1
  <2> HIDE DEF c
  <2>1. TMI_OFDM[k + 1] = c
    BY DEF c
  <2>2. j \in 1..8 /\ TMI_OFDM[j] = c
    BY <1>5, <2>1
  <2> HIDE DEF j
  <2> QED BY <1>6, <2>2
<1> HIDE DEF t
<1>8. (t \div 64) % 8 = 1 /\ (t % 64) % 16 = c
  <2> HIDE DEF c
  <2> QED BY <1>1, <1>4
<1> DEFINE idx == IF \E i \in 1..8 : TMI_OFDM[i] = (t % 64) % 16
                  THEN 3 + CHOOSE i \in 1..8 : TMI_OFDM[i] = (t % 64) % 16 ELSE 4
<1>9. ParseRate(t) = [mcs |-> FALSE, idx |-> idx]
  <2>1. ~((t \div 64) % 8 >= 2) /\ (t \div 64) % 8 = 1
    BY <1>8
  <2> QED BY <2>1 DEF ParseRate
<1>10. idx = 3 + j
  <2> HIDE DEF j
  <2>1. \E i \in 1..8 : TMI_OFDM[i] = c
    BY <1>5
  <2> QED BY <1>8, <2>1 DEF j
<1> HIDE DEF idx, j
<1>11. idx = k + 4
  BY <1>7, <1>10
<1> QED BY <1>9, <1>11 DEF t

(* The parameters tx passes to build_txwi for a data frame with a rate.     *)
LEMMA RateCases ==
  ASSUME NEW f \in Frames, ~IsMgmt(f), f.rate.idx >= 0
  PROVE  LET q == TxParams(f)
         IN  \/ /\ f.rate.mcs /\ f.rate.idx \in 0..15
                /\ q.rate_mode = HTMIX /\ q.rate_mcs = f.rate.idx
             \/ /\ ~f.rate.mcs /\ f.rate.idx \in 0..3
                /\ q.rate_mode = CCK /\ q.rate_mcs = f.rate.idx
                /\ q.preamble = IF f.rate.short THEN 0 ELSE 1
             \/ /\ ~f.rate.mcs /\ f.rate.idx \in 4..11
                /\ q.rate_mode = OFDM /\ q.rate_mcs = f.rate.idx - 4
<1> DEFINE q == TxParams(f)
           r == RateParams(f)
           x == f.rate.idx
<1>1. f.rate \in RateType /\ (f.rate.mcs \/ x < 12)
  BY FramesAssumption, Zenon
<1>2. x \in -1..15
  BY <1>1 DEF RateType
<1>3. q.rate_mode = r.mode /\ q.rate_mcs = r.mcs /\ q.preamble = r.preamble
  BY DEF TxParams
<1> DEFINE ht == [mode |-> HTMIX, mcs |-> x % 16, bw |-> IF f.rate.w40 THEN 1 ELSE current_bw,
                  preamble |-> IF f.rate.sgi THEN 2 ELSE 0]
           cck == [mode |-> CCK, mcs |-> x, bw |-> 0,
                   preamble |-> IF f.rate.short THEN 0 ELSE 1]
           ofdm == [mode |-> OFDM, mcs |-> (x - 4) % 8, bw |-> 0, preamble |-> 1]
<1> HIDE DEF q
<1>4. CASE f.rate.mcs
  <2>1. r = ht
    BY <1>4, Zenon DEF RateParams
  <2>2. r.mode = HTMIX /\ r.mcs = x % 16
    BY <2>1
  <2>3. x \in 0..15 /\ x % 16 = x
    BY <1>2
  <2> QED BY <1>3, <1>4, <2>2, <2>3, Zenon DEF q
<1>5. CASE ~f.rate.mcs /\ x \in 0..3
  <2>1. r = cck
    BY <1>5 DEF RateParams
  <2> HIDE DEF r
  <2>2. r.mode = CCK /\ r.mcs = x
    BY <2>1
  <2>3. r.preamble = IF f.rate.short THEN 0 ELSE 1
    <3> DEFINE pr == IF f.rate.short THEN 0 ELSE 1
    <3>1. r = [mode |-> CCK, mcs |-> x, bw |-> 0, preamble |-> pr]
      BY <2>1
    <3> HIDE DEF pr
    <3>2. r.preamble = pr
      BY <3>1
    <3> QED BY <3>2 DEF pr
  <2> QED BY <1>3, <1>5, <2>2, <2>3, Zenon DEF q
<1>6. CASE ~f.rate.mcs /\ ~(x \in 0..3)
  <2>1. x < 12
    BY <1>1, <1>6, Zenon
  <2>2. x \in 4..11 /\ x >= 4
    BY <1>2, <1>6, <2>1
  <2>3. r = ofdm
    BY <1>6, <2>2, Zenon DEF RateParams
  <2>4. r.mode = OFDM /\ r.mcs = (x - 4) % 8
    BY <2>3
  <2>5. (x - 4) % 8 = x - 4
    BY <2>2
  <2> QED BY <1>3, <1>6, <2>2, <2>4, <2>5, Zenon DEF q
<1> QED BY <1>4, <1>5, <1>6, Zenon

(* The rate word tx writes into the descriptor of a data frame.             *)
LEMMA SentRate ==
  ASSUME NEW f \in Frames, ~IsMgmt(f), f.rate.idx >= 0
  PROVE  ParseRate(RustBuildTxwi(TxParams(f)).txd.tx_rate) =
            [mcs |-> f.rate.mcs, idx |-> SentIdx(f.rate)]
<1> DEFINE q == TxParams(f)
           n == Len(f.data)
           d == RustBuildTxwi(q).txd
           x == f.rate.idx
           nss == IF q.rate_mode = HTMIX THEN 1 + (q.rate_mcs \div 8) ELSE 1
           long == q.preamble % 2 = 1
           t == TxRateToTmi(q.rate_mode, q.rate_mcs, nss, long)
<1>1. n \in Nat /\ n <= 8192 /\ f.hdr \in Nat /\ f.hdr <= 62 /\ f.hdr % 2 = 0
  BY FrameFacts
<1>2. q.pkt_len = n /\ q.hdr_len = f.hdr
  <2>1. q.pkt_len = n % 65536 /\ q.hdr_len = f.hdr
    BY DEF TxParams
  <2> HIDE DEF n, q
  <2>2. n % 65536 = n
    BY <1>1
  <2> QED BY <2>1, <2>2
<1>3. d.tx_rate = t
  <2> DEFINE h == f.hdr
  <2> HIDE DEF n, q
  <2>1. /\ n \in Nat /\ n <= 8192 /\ h \in Nat /\ h <= 62 /\ h % 2 = 0
        /\ q.pkt_len = n /\ q.hdr_len = h
    BY <1>1, <1>2
  <2> HIDE DEF h
  <2> QED BY <2>1, TxwiFields
<1>4. f.rate \in RateType
  BY FramesAssumption, Zenon
<1>5. f.rate.mcs \in BOOLEAN /\ f.rate.short \in BOOLEAN
  BY <1>4 DEF RateType
<1>6. \/ /\ f.rate.mcs /\ x \in 0..15
         /\ q.rate_mode = HTMIX /\ q.rate_mcs = x
      \/ /\ ~f.rate.mcs /\ x \in 0..3
         /\ q.rate_mode = CCK /\ q.rate_mcs = x
         /\ q.preamble = IF f.rate.short THEN 0 ELSE 1
      \/ /\ ~f.rate.mcs /\ x \in 4..11
         /\ q.rate_mode = OFDM /\ q.rate_mcs = x - 4
  BY RateCases, Zenon
<1> HIDE DEF q
<1>7. HTMIX # CCK /\ HTMIX # OFDM /\ CCK # OFDM
  BY DEF HTMIX, CCK, OFDM
<1>8. ParseRate(t) = [mcs |-> f.rate.mcs, idx |-> SentIdx(f.rate)]
  <2>1. CASE /\ f.rate.mcs /\ x \in 0..15
             /\ q.rate_mode = HTMIX /\ q.rate_mcs = x
    <3>1. ParseRate(t) = [mcs |-> TRUE, idx |-> x]
      <4>1. t = TxRateToTmi(HTMIX, x, 1 + (x \div 8), long)
        BY <2>1, Zenon
      <4>2. ParseRate(TxRateToTmi(HTMIX, x, 1 + (x \div 8), long)) = [mcs |-> TRUE, idx |-> x]
        <5> HIDE DEF x, long
        <5> QED BY <2>1, HtRoundTrip
      <4> QED BY <4>1, <4>2, Zenon
    <3>2. f.rate.mcs = TRUE /\ SentIdx(f.rate) = x
      BY <1>5, <2>1, Zenon DEF SentIdx
    <3> QED BY <3>1, <3>2, Zenon
  <2>2. CASE /\ ~f.rate.mcs /\ x \in 0..3
             /\ q.rate_mode = CCK /\ q.rate_mcs = x
             /\ q.preamble = IF f.rate.short THEN 0 ELSE 1
    <3>1. t = TxRateToTmi(CCK, x, 1, long)
      BY <1>7, <2>2, Zenon
    <3>2. long <=> ~f.rate.short
      <4>1. CASE f.rate.short
        <5>1. q.preamble = 0
          BY <2>2, <4>1, Zenon
        <5>2. ~long
          BY <5>1
        <5> QED BY <4>1, <5>2, Zenon
      <4>2. CASE ~f.rate.short
        <5>1. q.preamble = 1
          BY <2>2, <4>2, Zenon
        <5>2. long
          BY <5>1
        <5> QED BY <4>2, <5>2, Zenon
      <4> QED BY <4>1, <4>2
    <3>3. long \in BOOLEAN
      BY Zenon
    <3> HIDE DEF long
    <3>4. ParseRate(TxRateToTmi(CCK, x, 1, long)) =
             [mcs |-> FALSE, idx |-> IF ~long /\ x = 0 THEN 1 ELSE x]
      BY <2>2, <3>3, CckRoundTrip, Zenon
    <3>5. f.rate.mcs = FALSE /\ SentIdx(f.rate) = IF ~long /\ x = 0 THEN 1 ELSE x
      BY <1>5, <2>2, <3>2, Zenon DEF SentIdx
    <3> QED BY <3>1, <3>4, <3>5, Zenon
  <2>3. CASE /\ ~f.rate.mcs /\ x \in 4..11
             /\ q.rate_mode = OFDM /\ q.rate_mcs = x - 4
    <3>1. t = TxRateToTmi(OFDM, x - 4, 1, long)
      BY <1>7, <2>3, Zenon
    <3>2. x - 4 \in 0..7 /\ (x - 4) + 4 = x /\ x # 0
      BY <2>3
    <3> HIDE DEF long
    <3>3. ParseRate(TxRateToTmi(OFDM, x - 4, 1, long)) = [mcs |-> FALSE, idx |-> (x - 4) + 4]
      BY <3>2, OfdmRoundTrip, Zenon
    <3>4. f.rate.mcs = FALSE /\ SentIdx(f.rate) = x
      BY <1>5, <2>3, <3>2, Zenon DEF SentIdx
    <3> QED BY <3>1, <3>2, <3>3, <3>4, Zenon
  <2> QED BY <1>6, <2>1, <2>2, <2>3, Zenon
<1> HIDE DEF t
<1>9. ParseRate(d.tx_rate) = [mcs |-> f.rate.mcs, idx |-> SentIdx(f.rate)]
  BY <1>3, <1>8, Zenon
<1> QED BY <1>9, Zenon DEF q

(* The aligned byte count of a data frame leaves the rate alone.            *)
LEMMA TransferRate ==
  ASSUME NEW f \in Frames
  PROVE  LET d == RustBuildTxwi(TxParams(f)).txd
         IN  Transfer(f, d).txd.tx_rate = d.tx_rate
<1> DEFINE q == TxParams(f)
           n == Len(f.data)
           d == RustBuildTxwi(q).txd
           s == PushTxd(PadHeader(f.data, f.hdr, TxHdrPadLen(f.hdr)))
           c == Align4(Len(s)) % 65536
<1>1. n \in Nat /\ n <= 8192 /\ f.hdr \in Nat /\ f.hdr <= 62 /\ f.hdr % 2 = 0
  BY FrameFacts
<1>2. q.pkt_len = n /\ q.hdr_len = f.hdr
  <2>1. q.pkt_len = n % 65536 /\ q.hdr_len = f.hdr
    BY DEF TxParams
  <2> HIDE DEF n, q
  <2>2. n % 65536 = n
    BY <1>1
  <2> QED BY <2>1, <2>2
<1>3. DOMAIN d = TxdFields
  <2> DEFINE h == f.hdr
  <2> HIDE DEF n, q
  <2>1. /\ n \in Nat /\ n <= 8192 /\ h \in Nat /\ h <= 62 /\ h % 2 = 0
        /\ q.pkt_len = n /\ q.hdr_len = h
    BY <1>1, <1>2
  <2> HIDE DEF h
  <2> QED BY <2>1, TxwiFields
<1>4. Transfer(f, d).txd = IF IsMgmt(f) THEN d ELSE [d EXCEPT !.tx_byte_cnt = c]
  <2> HIDE DEF d
  <2> QED BY DEF Transfer
<1> HIDE DEF d, c
<1>5. [d EXCEPT !.tx_byte_cnt = c].tx_rate = d.tx_rate
  BY <1>3 DEF TxdFields
<1>6. Transfer(f, d).txd.tx_rate = d.tx_rate
  BY <1>4, <1>5, Zenon
<1> QED BY <1>6, Zenon DEF d, q

RateKept ==
    \A i \in Ids :
        fate[i] = "flight" /\ ~IsMgmt(frame[i]) /\ frame[i].rate.idx >= 0 =>
            ParseRate(urb[i].txd.tx_rate) =
                [mcs |-> frame[i].rate.mcs, idx |-> SentIdx(frame[i].rate)]

(* For every frame the rate mac80211 chose is the one a station with the    *)
(* same chip reads off it: tx_rate_to_tmi and parse_rx_frame are inverse,   *)
(* but for 1 Mbit/s with a short preamble, which becomes 2.                 *)
THEOREM RateIsAsRequested == Spec => []RateAsRequested
<1>1. Init => RateKept
  BY DEF Init, RateKept
<1>2. RateKept /\ Inv /\ [Next]_vars => RateKept'
  <2> SUFFICES ASSUME RateKept, Inv, [Next]_vars PROVE RateKept'
    OBVIOUS
  <2>1. CASE UNCHANGED <<frame, fate, urb>>
    BY <2>1, Zenon DEF RateKept, IsMgmt
  <2>2. ASSUME NEW i \in Ids, Tx(i) \/ TxComplete(i) PROVE RateKept'
    <3> DEFINE d == RustBuildTxwi(TxParams(frame[i])).txd
    <3>1. frame[i] \in Frames /\ DOMAIN fate = Ids /\ DOMAIN urb = Ids
      BY DEF Inv, TypeOK
    <3>2. /\ frame' = frame
          /\ \/ fate' = [fate EXCEPT ![i] = "freed"] /\ urb' = urb
             \/ fate' = [fate EXCEPT ![i] = "status"] /\ urb' = urb
             \/ /\ fate' = [fate EXCEPT ![i] = "flight"]
                /\ urb' = [urb EXCEPT ![i] = Transfer(frame[i], d)]
      BY <2>2 DEF Tx, TxComplete
    <3> SUFFICES ASSUME NEW j \in Ids, fate'[j] = "flight", ~IsMgmt(frame[j]),
                        frame[j].rate.idx >= 0
                 PROVE  ParseRate(urb'[j].txd.tx_rate) =
                           [mcs |-> frame[j].rate.mcs, idx |-> SentIdx(frame[j].rate)]
      BY <3>2, Zenon DEF RateKept, IsMgmt
    <3> HIDE DEF d
    <3>3. CASE j = i
      <4>1. urb' = [urb EXCEPT ![i] = Transfer(frame[i], d)]
        BY <3>1, <3>2, <3>3
      <4>2. urb'[j].txd.tx_rate = d.tx_rate
        <5>1. urb'[j] = Transfer(frame[i], d)
          BY <3>1, <3>3, <4>1
        <5>2. Transfer(frame[i], d).txd.tx_rate = d.tx_rate
          BY <3>1, TransferRate, Zenon DEF d
        <5> QED BY <5>1, <5>2, Zenon
      <4>3. ParseRate(d.tx_rate) =
               [mcs |-> frame[i].rate.mcs, idx |-> SentIdx(frame[i].rate)]
        BY <3>1, <3>3, SentRate, Zenon DEF d
      <4> QED BY <3>3, <4>2, <4>3, Zenon
    <3>4. CASE j # i
      <4>1. urb'[j] = urb[j] /\ fate[j] = "flight"
        BY <3>1, <3>2, <3>4
      <4> QED BY <4>1, Zenon DEF RateKept
    <3> QED BY <3>3, <3>4
  <2> QED BY <2>1, <2>2 DEF Next, Start, Stop, Interfaces, SetChannel, vars
<1>3. RateKept => RateAsRequested
  BY Zenon DEF RateKept, RateAsRequested, SentIdx
<1> QED BY InvHolds, <1>1, <1>2, <1>3, PTL DEF Spec
=============================================================================
