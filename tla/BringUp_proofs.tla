---------------------------- MODULE BringUp_proofs ----------------------------
(* Theorems about BringUp, for every set of images and of eFuse contents,   *)
(* every size of the EEPROM image and every number of failing transfers.    *)
EXTENDS BringUp, SequenceTheorems, NaturalsInduction, WellFoundedInduction, TLAPS

-----------------------------------------------------------------------------
(* The address map.                                                         *)

(* Address a lies in segment r.                                             *)
In(a, r) == r.start <= a /\ a < r.start + r.len

(* No HIF segment of the table overlaps another, and none has the base of   *)
(* another.                                                                 *)
LEMMA RangesApart ==
  ASSUME NEW r \in MAC_CR_RANGES, NEW s \in MAC_CR_RANGES
  PROVE  /\ r.base = s.base => r = s
         /\ \A a \in Nat : In(a, r) /\ In(a, s) => r = s
<1>1. r.base = s.base => r = s
  BY DEF MAC_CR_RANGES, MacCr
<1>2. ASSUME NEW a \in Nat, In(a, r), In(a, s)
      PROVE  r = s
  BY <1>2 DEF MAC_CR_RANGES, MacCr, In
<1> QED BY <1>1, <1>2

(* The bounds of the table's entries.                                       *)
LEMMA RangeTypes ==
  ASSUME NEW r \in MAC_CR_RANGES
  PROVE  /\ r.base \in Nat /\ r.base >= \h6000 /\ r.base <= \h6040
         /\ r.start \in Nat /\ r.start >= \h20000 /\ r.start <= \h2d000
         /\ r.len \in Nat /\ r.len >= 1 /\ r.len <= \h4000
<1>1. r.base \in Nat /\ r.start \in Nat /\ r.len \in Nat
  BY DEF MAC_CR_RANGES, MacCr
<1>2. r.base >= \h6000 /\ r.base <= \h6040
  BY DEF MAC_CR_RANGES, MacCr
<1>3. r.start >= \h20000 /\ r.start <= \h2d000
  BY DEF MAC_CR_RANGES, MacCr
<1>4. r.len >= 1 /\ r.len <= \h4000
  BY DEF MAC_CR_RANGES, MacCr
<1> QED BY <1>1, <1>2, <1>3, <1>4

(* The addresses whose physical ones are kept apart below.                  *)
Mapped ==
    {a \in Nat : \/ \h4000 <= a /\ a < \h10000
                 \/ \hc0000 <= a /\ a < \hc0100
                 \/ \E r \in MAC_CR_RANGES : In(a, r)}

LEMMA LowOffset ==
  ASSUME NEW y \in Nat, NEW d \in Nat, d < 65536
  PROVE  At(y, d) = <<y, d>>
<1>1. d \div 65536 = 0
  OBVIOUS
<1>2. d % 65536 = d
  OBVIOUS
<1> QED BY <1>1, <1>2 DEF At

LEMMA SegmentMap ==
  ASSUME NEW r \in MAC_CR_RANGES, NEW a \in Nat, In(a, r)
  PROVE  PhysicalAddrMap(a) = <<r.base, a - r.start>>
<1>1. /\ r.base \in Nat /\ r.base >= \h6000 /\ r.base <= \h6040
      /\ r.start \in Nat /\ r.start >= \h20000 /\ r.start <= \h2d000
      /\ r.len \in Nat /\ r.len >= 1 /\ r.len <= \h4000
  BY RangeTypes
<1>2. \h20000 <= a /\ a < \h40000
  BY <1>1 DEF In
<1>3. PhysicalAddrMap(a) = MacCrRangeMap(a)
  <2> HIDE DEF MacCrRangeMap
  <2> QED BY <1>2 DEF PhysicalAddrMap
<1> DEFINE c == CHOOSE c \in MAC_CR_RANGES : c.start <= a /\ a < c.start + c.len
<1>4. c = r
  <2>1. c \in MAC_CR_RANGES /\ c.start <= a /\ a < c.start + c.len
    BY Zenon DEF In
  <2> HIDE DEF c
  <2> QED BY <2>1, RangesApart, Zenon DEF In
<1>5. MacCrRangeMap(a) = At(c.base, a - c.start)
  BY Zenon DEF MacCrRangeMap, In
<1> HIDE DEF c
<1>6. At(r.base, a - r.start) = <<r.base, a - r.start>>
  <2>1. a - r.start \in Nat /\ a - r.start < 65536
    <3> DEFINE x == r.start
               l == r.len
    <3>1. x \in Nat /\ l \in Nat /\ l <= \h4000 /\ x <= a /\ a < x + l
      BY <1>1 DEF In
    <3> HIDE DEF x, l
    <3>2. a - x \in Nat /\ a - x < 65536
      BY <3>1
    <3> QED BY <3>2 DEF x
  <2> QED BY <1>1, <2>1, LowOffset
<1> QED BY <1>3, <1>4, <1>5, <1>6

(* Two register addresses never have the same physical one.                 *)
LEMMA MapInjective ==
  ASSUME NEW a \in Mapped, NEW b \in Mapped, PhysicalAddrMap(a) = PhysicalAddrMap(b)
  PROVE  a = b
<1> DEFINE Kind(x, k) ==
       \/ k = 1 /\ \h4000 <= x /\ x < \h8000 /\ PhysicalAddrMap(x) = <<\h5000, x - \h4000>>
       \/ k = 2 /\ \h8000 <= x /\ x < \h10000 /\ PhysicalAddrMap(x) = <<\ha000, x - \h8000>>
       \/ k = 3 /\ \hc0000 <= x /\ x < \hc0100 /\ PhysicalAddrMap(x) = <<\h800c, x - \hc0000>>
       \/ k = 4 /\ \E r \in MAC_CR_RANGES : PhysicalAddrMap(x) = <<r.base, x - r.start>>
<1>1. ASSUME NEW x \in Mapped PROVE x \in Nat /\ \E k \in 1..4 : Kind(x, k)
  <2>1. x \in Nat
    BY DEF Mapped
  <2>2. CASE \h4000 <= x /\ x < \h8000
    <3>1. PhysicalAddrMap(x) = At(\h5000, x - \h4000)
      BY <2>1, <2>2 DEF PhysicalAddrMap
    <3>2. At(\h5000, x - \h4000) = <<\h5000, x - \h4000>>
      BY <2>1, <2>2 DEF At
    <3>3. Kind(x, 1)
      BY <2>2, <3>1, <3>2
    <3> QED BY <2>1, <3>3
  <2>3. CASE \h8000 <= x /\ x < \h10000
    <3>1. PhysicalAddrMap(x) = At(\ha000, x - \h8000)
      BY <2>1, <2>3 DEF PhysicalAddrMap
    <3>2. At(\ha000, x - \h8000) = <<\ha000, x - \h8000>>
      BY <2>1, <2>3 DEF At
    <3>3. Kind(x, 2)
      BY <2>3, <3>1, <3>2
    <3> QED BY <2>1, <3>3
  <2>4. CASE \hc0000 <= x /\ x < \hc0100
    <3>1. PhysicalAddrMap(x) = At(\h800c, x - \hc0000)
      BY <2>1, <2>4 DEF PhysicalAddrMap
    <3>2. At(\h800c, x - \hc0000) = <<\h800c, x - \hc0000>>
      BY <2>1, <2>4 DEF At
    <3>3. Kind(x, 3)
      BY <2>4, <3>1, <3>2
    <3> QED BY <2>1, <3>3
  <2>5. CASE \E r \in MAC_CR_RANGES : In(x, r)
    <3>1. Kind(x, 4)
      BY <2>1, <2>5, SegmentMap
    <3> QED BY <2>1, <3>1
  <2> QED BY <2>1, <2>2, <2>3, <2>4, <2>5 DEF Mapped
<1>2. PICK k \in 1..4 : Kind(a, k)
  BY <1>1
<1>3. PICK l \in 1..4 : Kind(b, l)
  BY <1>1
<1>4. a \in Nat /\ b \in Nat
  BY <1>1
<1>5. \A r \in MAC_CR_RANGES : /\ r.base \in Nat /\ r.base >= \h6000 /\ r.base <= \h6040
                               /\ r.start \in Nat
  BY RangeTypes
<1>6. k = l
  BY <1>2, <1>3, <1>4, <1>5
<1>7. CASE k = 4
  <2>1. PICK r \in MAC_CR_RANGES : PhysicalAddrMap(a) = <<r.base, a - r.start>>
    BY <1>2, <1>7
  <2>2. PICK s \in MAC_CR_RANGES : PhysicalAddrMap(b) = <<s.base, b - s.start>>
    BY <1>3, <1>6, <1>7
  <2>3. r.base = s.base /\ a - r.start = b - s.start
    <3>1. <<r.base, a - r.start>> = <<s.base, b - s.start>>
      BY <2>1, <2>2, Zenon
    <3> QED BY <3>1
  <2>4. r = s
    BY <2>3, RangesApart
  <2> QED BY <1>4, <1>5, <2>3, <2>4
<1>8. CASE k # 4
  BY <1>2, <1>3, <1>4, <1>6, <1>8
<1> QED BY <1>7, <1>8

-----------------------------------------------------------------------------
(* The register sequences.                                                  *)

LEMMA PagesLayout ==
  /\ Len(DmaSchedulerPages) = 38 /\ DOMAIN DmaSchedulerPages = 1..38
  /\ DmaSchedulerPages[7] = Op(MT_SCH_REG_1, \h2000, \h288)
  /\ \A q \in 1..5 : DmaSchedulerPages[8 + q] = Op(MT_PAGE_CNT_0 + 4 * (q - 1), 0, 14)
  /\ DmaSchedulerPages[14] = Op(MT_PAGE_CNT_0 + 20, 0, 32)
  /\ DmaSchedulerPages[15] = Op(MT_PAGE_CNT_0 + 28, 0, 14)
  /\ DmaSchedulerPages[16] = Op(MT_PAGE_CNT_0 + 32, 0, 50)
  /\ DmaSchedulerPages[18] = Op(MT_GROUP_THD_0, 0, \h25a)
  /\ DmaSchedulerPages[19] = Op(MT_GROUP_THD_0 + 4, 0, 14)
  /\ DmaSchedulerPages[20] = Op(MT_BMAP_0, \h0080, \hff5f)
  /\ DmaSchedulerPages[21] = Op(MT_GROUP_THD_0 + 8, 0, 32)
  /\ DmaSchedulerPages[22] = Op(MT_BMAP_1, 0, \h20)
  /\ \A q \in 1..16 : DmaSchedulerPages[22 + q] = Op(MT_TXTIME_THD_0 + 4 * (q - 1), 15, \hffff)
  BY DEF DmaSchedulerPages

(* s is a sequence of n entries.                                            *)
Listed(s, n) == s = [i \in 1..n |-> s[i]]

Follows(u, m, s, n, t) ==
    /\ \A i \in 1..m : u[i] = s[i]
    /\ \A i \in 1..n : u[m + i] = t[i]

LEMMA Joined ==
  ASSUME NEW m \in Nat, NEW n \in Nat, NEW k, k = m + n,
         NEW s, NEW t, Listed(s, m), Listed(t, n)
  PROVE  /\ Len(s \o t) = k /\ DOMAIN (s \o t) = 1..k /\ Listed(s \o t, k)
         /\ Follows(s \o t, m, s, n, t)
<1> DEFINE S == {s[i] : i \in 1..m} \cup {t[i] : i \in 1..n}
<1>1. s \in [1..m -> S] /\ t \in [1..n -> S]
  <2>1. \A i \in 1..m : s[i] \in S
    OBVIOUS
  <2>2. \A i \in 1..n : t[i] \in S
    OBVIOUS
  <2> HIDE DEF S
  <2> QED BY <2>1, <2>2 DEF Listed
<1> HIDE DEF S
<1>2. s \in Seq(S) /\ t \in Seq(S) /\ Len(s) = m /\ Len(t) = n
  BY <1>1
<1>3. /\ s \o t \in Seq(S) /\ Len(s \o t) = m + n
      /\ \A i \in 1..(m + n) : (s \o t)[i] = IF i <= m THEN s[i] ELSE t[i - m]
  BY <1>2, ConcatProperties
<1>4. DOMAIN (s \o t) = 1..(m + n)
  BY <1>3
<1>5. Listed(s \o t, m + n)
  <2> DEFINE u == s \o t
  <2>1. u \in [1..(m + n) -> S]
    BY <1>3, LenProperties
  <2> HIDE DEF u
  <2>2. u = [i \in 1..(m + n) |-> u[i]]
    BY <2>1
  <2> QED BY <2>2, Zenon DEF Listed, u
<1>6. ASSUME NEW i \in 1..m PROVE (s \o t)[i] = s[i]
  BY <1>3
<1>7. ASSUME NEW i \in 1..n PROVE (s \o t)[m + i] = t[i]
  <2>1. m + i \in 1..(m + n) /\ ~(m + i <= m) /\ (m + i) - m = i
    OBVIOUS
  <2> QED BY <1>3, <2>1
<1>8. Follows(s \o t, m, s, n, t)
  BY <1>6, <1>7, Zenon DEF Follows
<1> QED BY <1>3, <1>4, <1>5, <1>8, Zenon

LEMMA ListsAreListed ==
  /\ Listed(<< Op(\h24000, \h18, 0) >>, 1)
  /\ Listed(DmaSchedulerPages, 38) /\ Listed(SchedulerOn, 1)
  /\ Listed(MacEngines, 18) /\ Listed(MacRouting, 9)
<1>1. Listed(<< Op(\h24000, \h18, 0) >>, 1)
  BY DEF Listed
<1>2. Listed(SchedulerOn, 1)
  BY DEF Listed, SchedulerOn
<1>3. Listed(MacEngines, 18)
  BY DEF Listed, MacEngines
<1>4. Listed(MacRouting, 9)
  BY DEF Listed, MacRouting
<1>5. Listed(DmaSchedulerPages, 38)
  BY DEF Listed, DmaSchedulerPages
<1> QED BY <1>1, <1>2, <1>3, <1>4, <1>5

LEMMA InitLayout ==
  /\ Len(MacInitSequence) = 67 /\ DOMAIN MacInitSequence = 1..67
  /\ MacInitSequence[1] = Op(\h24000, \h18, 0)
  /\ \A i \in 1..38 : MacInitSequence[1 + i] = DmaSchedulerPages[i]
  /\ MacInitSequence[40] = Op(SCH_REG4, 0, \h40)
  /\ \A i \in 1..18 : MacInitSequence[40 + i] = MacEngines[i]
  /\ \A i \in 1..9 : MacInitSequence[58 + i] = MacRouting[i]
<1> DEFINE A == << Op(\h24000, \h18, 0) >>
           P == DmaSchedulerPages
           O == SchedulerOn
           E == MacEngines
           R == MacRouting
           B == P \o O
           C == A \o B
           D == C \o E
<1>0. /\ 1 \in Nat /\ 9 \in Nat /\ 18 \in Nat /\ 38 \in Nat /\ 39 \in Nat /\ 40 \in Nat
      /\ 58 \in Nat /\ 39 = 38 + 1 /\ 40 = 1 + 39 /\ 58 = 40 + 18 /\ 67 = 58 + 9
  OBVIOUS
<1>1. A[1] = Op(\h24000, \h18, 0) /\ O[1] = Op(SCH_REG4, 0, \h40)
  BY DEF SchedulerOn
<1>2. MacInitSequence = D \o R
  BY DEF MacInitSequence, DmaScheduler
<1>3. Listed(A, 1) /\ Listed(P, 38) /\ Listed(O, 1) /\ Listed(E, 18) /\ Listed(R, 9)
  BY ListsAreListed
<1> HIDE DEF A, P, O, E, R
<1>4. Listed(B, 39) /\ Follows(B, 38, P, 1, O)
  BY <1>0, <1>3, Joined
<1> HIDE DEF B
<1>5. (\A i \in 1..38 : B[i] = P[i]) /\ B[39] = O[1]
  BY <1>4 DEF Follows
<1>6. Listed(C, 40) /\ Follows(C, 1, A, 39, B)
  BY <1>0, <1>3, <1>4, Joined
<1> HIDE DEF C
<1>7. C[1] = A[1] /\ (\A i \in 1..39 : C[1 + i] = B[i])
  BY <1>6 DEF Follows
<1>8. Listed(D, 58) /\ Follows(D, 40, C, 18, E)
  BY <1>0, <1>3, <1>6, Joined
<1> HIDE DEF D
<1>9. (\A i \in 1..40 : D[i] = C[i]) /\ (\A i \in 1..18 : D[40 + i] = E[i])
  BY <1>8 DEF Follows
<1> DEFINE M == D \o R
<1>10. Len(M) = 67 /\ DOMAIN M = 1..67 /\ Follows(M, 58, D, 9, R)
  <2>1. Len(M) = 67 /\ Listed(M, 67) /\ Follows(M, 58, D, 9, R)
    BY <1>0, <1>3, <1>8, Joined
  <2> HIDE DEF M
  <2>2. DOMAIN M = 1..67
    BY <2>1 DEF Listed
  <2> QED BY <2>1, <2>2
<1> HIDE DEF M
<1>11. (\A i \in 1..58 : M[i] = D[i]) /\ (\A i \in 1..9 : M[58 + i] = R[i])
  BY <1>10 DEF Follows
<1>12. \A i \in 1..38 : M[1 + i] = P[i]
  BY <1>5, <1>7, <1>9, <1>11
<1>13. M[1] = A[1] /\ M[40] = O[1]
  BY <1>5, <1>7, <1>9, <1>11
<1>14. \A i \in 1..18 : M[40 + i] = E[i]
  BY <1>9, <1>11
<1>15. MacInitSequence = M
  BY <1>2 DEF M
<1> QED BY <1>1, <1>10, <1>11, <1>12, <1>13, <1>14, <1>15 DEF P, E, R

(* The position of a scheduler address, so that no two of them are equal.   *)
PageIdx(a) ==
    CASE a = \h8138 -> 1  [] a = \h45bc -> 2  [] a = \h45c0 -> 3  [] a = \h4580 -> 4
      [] a = \h4584 -> 5  [] a = \h45c4 -> 6  [] a = \h4588 -> 7  [] a = \h458c -> 8
      [] a = \h4540 -> 9  [] a = \h4544 -> 10 [] a = \h4548 -> 11 [] a = \h454c -> 12
      [] a = \h4550 -> 13 [] a = \h4554 -> 14 [] a = \h455c -> 15 [] a = \h4560 -> 16
      [] a = \h45c8 -> 17 [] a = \h4598 -> 18 [] a = \h459c -> 19 [] a = \h45b0 -> 20
      [] a = \h45a0 -> 21 [] a = \h45b4 -> 22 [] OTHER -> 23 + ((a - \h4500) \div 4)

LEMMA PageAddrs ==
  ASSUME NEW i \in 1..38
  PROVE  LET a == DmaSchedulerPages[i].addr
         IN  /\ a \in Nat /\ \h4000 <= a /\ a < \h10000 /\ a # SCH_REG4
             /\ PageIdx(a) = i
<1> DEFINE P == DmaSchedulerPages
           a == P[i].addr
<1>1. CASE i \in 23..38
  <2>1. PICK q \in 1..16 : i = 22 + q
    <3>1. i - 22 \in 1..16 /\ i = 22 + (i - 22)
      BY <1>1
    <3> QED BY <3>1
  <2>2. a = \h4500 + 4 * (q - 1)
    BY <2>1, PagesLayout DEF Op, MT_TXTIME_THD_0
  <2> HIDE DEF a
  <2>3. a \in Nat /\ \h4500 <= a /\ a < \h4540 /\ 23 + ((a - \h4500) \div 4) = i
    BY <2>1, <2>2
  <2>4. PageIdx(a) = 23 + ((a - \h4500) \div 4)
    BY <2>3 DEF PageIdx
  <2> QED BY <2>3, <2>4 DEF a, SCH_REG4
<1>2. CASE i \in 9..13
  <2>1. PICK q \in 1..5 : i = 8 + q
    <3>1. i - 8 \in 1..5 /\ i = 8 + (i - 8)
      BY <1>2
    <3> QED BY <3>1
  <2>2. a = \h4540 + 4 * (q - 1)
    BY <2>1, PagesLayout DEF Op, MT_PAGE_CNT_0
  <2> HIDE DEF a
  <2>3. q = 1 \/ q = 2 \/ q = 3 \/ q = 4 \/ q = 5
    OBVIOUS
  <2>4. PageIdx(a) = i
    BY <2>1, <2>2, <2>3 DEF PageIdx
  <2> QED BY <2>2, <2>4 DEF a, SCH_REG4
<1>3. CASE i \in 1..8
  <2>1. /\ P[1].addr = \h8138 /\ P[2].addr = \h45bc /\ P[3].addr = \h45c0 /\ P[4].addr = \h4580
        /\ P[5].addr = \h4584 /\ P[6].addr = \h45c4 /\ P[7].addr = \h4588 /\ P[8].addr = \h458c
    BY DEF DmaSchedulerPages, Op, MT_SCH_REG_1
  <2>2. i = 1 \/ i = 2 \/ i = 3 \/ i = 4 \/ i = 5 \/ i = 6 \/ i = 7 \/ i = 8
    BY <1>3
  <2> HIDE DEF P
  <2>3. PageIdx(a) = i /\ a \in Nat /\ \h4000 <= a /\ a < \h10000 /\ a # \h4594
    BY <2>1, <2>2 DEF PageIdx
  <2> QED BY <2>3 DEF P, SCH_REG4
<1>4. CASE i \in 14..22
  <2>1. /\ P[14].addr = \h4554 /\ P[15].addr = \h455c /\ P[16].addr = \h4560
        /\ P[17].addr = \h45c8 /\ P[18].addr = \h4598 /\ P[19].addr = \h459c
        /\ P[20].addr = \h45b0 /\ P[21].addr = \h45a0 /\ P[22].addr = \h45b4
    <3>1. P[17] = Op(\h45c8, 0, \h288)
      BY DEF DmaSchedulerPages
    <3> HIDE DEF P
    <3> QED BY <3>1, PagesLayout DEF P, Op, MT_PAGE_CNT_0, MT_GROUP_THD_0, MT_BMAP_0, MT_BMAP_1
  <2>2. \/ i = 14 \/ i = 15 \/ i = 16 \/ i = 17 \/ i = 18 \/ i = 19 \/ i = 20 \/ i = 21
        \/ i = 22
    BY <1>4
  <2> HIDE DEF P
  <2>3. PageIdx(a) = i /\ a \in Nat /\ \h4000 <= a /\ a < \h10000 /\ a # \h4594
    BY <2>1, <2>2 DEF PageIdx
  <2> QED BY <2>3 DEF P, SCH_REG4
<1>5. i \in 1..8 \/ i \in 9..13 \/ i \in 14..22 \/ i \in 23..38
  OBVIOUS
<1> QED BY <1>1, <1>2, <1>3, <1>4, <1>5

(* The registers that no entry of the sequence writes, and that start and   *)
(* set_channel_ext write.                                                   *)
OtherAddrs == {\h21824, \h21828, \h21c84, \h21890}

(* MAC CR segments the driver writes to.                                    *)
LEMMA WindowsMapped ==
  ASSUME NEW a \in Nat,
         \/ \h21000 <= a /\ a < \h22000
         \/ \h23000 <= a /\ a < \h23200
         \/ \h24000 <= a /\ a < \h24400
         \/ \hc0000 <= a /\ a < \hc0100
  PROVE  a \in Mapped /\ a >= \h10000
<1> DEFINE Seg(b, t, l) == [base |-> b, start |-> t, len |-> l]
<1>1. /\ Seg(\h6010, \h21000, \h200) \in MAC_CR_RANGES
      /\ Seg(\h6011, \h21200, \h200) \in MAC_CR_RANGES
      /\ Seg(\h6012, \h21400, \h200) \in MAC_CR_RANGES
      /\ Seg(\h6013, \h21600, \h200) \in MAC_CR_RANGES
      /\ Seg(\h6014, \h21800, \h200) \in MAC_CR_RANGES
      /\ Seg(\h6015, \h21a00, \h200) \in MAC_CR_RANGES
      /\ Seg(\h6016, \h21c00, \h200) \in MAC_CR_RANGES
      /\ Seg(\h6017, \h21e00, \h200) \in MAC_CR_RANGES
      /\ Seg(\h6019, \h23000, \h200) \in MAC_CR_RANGES
      /\ Seg(\h6030, \h24000, \h400) \in MAC_CR_RANGES
  BY DEF MAC_CR_RANGES, MacCr
<1>2. ASSUME NEW b, NEW t \in Nat, NEW l \in Nat, Seg(b, t, l) \in MAC_CR_RANGES,
             t <= a, a < t + l
      PROVE  \E r \in MAC_CR_RANGES : In(a, r)
  <2>1. In(a, Seg(b, t, l))
    BY <1>2 DEF In
  <2> QED BY <1>2, <2>1
<1>3. \/ \h21000 <= a /\ a < \h21000 + \h200
      \/ \h21200 <= a /\ a < \h21200 + \h200
      \/ \h21400 <= a /\ a < \h21400 + \h200
      \/ \h21600 <= a /\ a < \h21600 + \h200
      \/ \h21800 <= a /\ a < \h21800 + \h200
      \/ \h21a00 <= a /\ a < \h21a00 + \h200
      \/ \h21c00 <= a /\ a < \h21c00 + \h200
      \/ \h21e00 <= a /\ a < \h21e00 + \h200
      \/ \h23000 <= a /\ a < \h23000 + \h200
      \/ \h24000 <= a /\ a < \h24000 + \h400
      \/ \hc0000 <= a /\ a < \hc0100
  OBVIOUS
<1> HIDE DEF Seg
<1>4. \/ \hc0000 <= a /\ a < \hc0100
      \/ \E r \in MAC_CR_RANGES : In(a, r)
  BY <1>1, <1>2, <1>3
<1>5. a >= \h10000
  OBVIOUS
<1> QED BY <1>4, <1>5 DEF Mapped

LEMMA EngineAddrs ==
  ASSUME NEW i \in 1..18
  PROVE  LET a == MacEngines[i].addr
         IN  /\ a \in Nat /\ a \notin OtherAddrs
             /\ \/ \h21000 <= a /\ a < \h22000
                \/ \hc0000 <= a /\ a < \hc0100
<1> DEFINE E == MacEngines
           a == E[i].addr
<1>1. /\ E[1].addr = \hc0068 /\ E[2].addr = \hc0040 /\ E[3].addr = \hc0044 /\ E[4].addr = \hc0048
      /\ E[5].addr = \hc004c /\ E[6].addr = \hc0050 /\ E[7].addr = \h21600 /\ E[8].addr = \h21608
      /\ E[9].addr = \h2160c /\ E[10].addr = \h21614 /\ E[11].addr = \h21480
      /\ E[12].addr = \h21500 /\ E[13].addr = \h21470 /\ E[14].addr = \h21878
      /\ E[15].addr = \h21898 /\ E[16].addr = \h21800 /\ E[17].addr = \h218a4
      /\ E[18].addr = \h21880
  BY DEF MacEngines, Op
<1>2. \/ i = 1 \/ i = 2 \/ i = 3 \/ i = 4 \/ i = 5 \/ i = 6 \/ i = 7 \/ i = 8 \/ i = 9
      \/ i = 10 \/ i = 11 \/ i = 12 \/ i = 13 \/ i = 14 \/ i = 15 \/ i = 16 \/ i = 17 \/ i = 18
  OBVIOUS
<1> HIDE DEF E
<1>3. /\ a \in Nat /\ a \notin OtherAddrs
      /\ \/ \h21000 <= a /\ a < \h22000
         \/ \hc0000 <= a /\ a < \hc0100
  BY <1>1, <1>2 DEF OtherAddrs
<1> QED BY <1>3 DEF E

LEMMA RoutingAddrs ==
  ASSUME NEW i \in 1..9
  PROVE  LET a == MacRouting[i].addr
         IN  /\ a \in Nat /\ a \notin OtherAddrs
             /\ \/ \h21000 <= a /\ a < \h22000
                \/ \h23000 <= a /\ a < \h23200
                \/ \hc0000 <= a /\ a < \hc0100
<1> DEFINE R == MacRouting
           a == R[i].addr
<1>1. /\ R[1].addr = \h21248 /\ R[2].addr = \h2124c /\ R[3].addr = \h21250
      /\ R[4].addr = \h21254 /\ R[5].addr = \h21c70 /\ R[6].addr = \h21c7c
      /\ R[7].addr = \h21c04 /\ R[8].addr = \h23008 /\ R[9].addr = \hc0068
  BY DEF MacRouting, Op
<1>2. i = 1 \/ i = 2 \/ i = 3 \/ i = 4 \/ i = 5 \/ i = 6 \/ i = 7 \/ i = 8 \/ i = 9
  OBVIOUS
<1> HIDE DEF R
<1>3. /\ a \in Nat /\ a \notin OtherAddrs
      /\ \/ \h21000 <= a /\ a < \h22000
         \/ \h23000 <= a /\ a < \h23200
         \/ \hc0000 <= a /\ a < \hc0100
  BY <1>1, <1>2 DEF OtherAddrs
<1> QED BY <1>3 DEF R

(* What is used of the addresses of the MAC sequence: all are mapped, none  *)
(* is one of the others, and those of the scheduler occur once.             *)
LEMMA InitAddrs ==
  ASSUME NEW i \in 1..67
  PROVE  /\ MacInitSequence[i].addr \in Mapped \ OtherAddrs
         /\ \A j \in 1..67 :
               j <= 40 /\ MacInitSequence[i].addr = MacInitSequence[j].addr /\ j > 1 => i = j
<1> DEFINE M == MacInitSequence
           W(a) == \/ \h21000 <= a /\ a < \h22000
                   \/ \h23000 <= a /\ a < \h23200
                   \/ \h24000 <= a /\ a < \h24400
                   \/ \hc0000 <= a /\ a < \hc0100
           S(a) == \h4000 <= a /\ a < \h10000
           Idx(a) == IF a = SCH_REG4 THEN 39 ELSE PageIdx(a)
<1>1. ASSUME NEW j \in 2..40
      PROVE  M[j].addr \in Nat /\ S(M[j].addr) /\ Idx(M[j].addr) = j - 1
  <2>1. CASE j = 40
    BY <2>1, InitLayout DEF Op, SCH_REG4
  <2>2. CASE j # 40
    <3>1. j - 1 \in 1..38 /\ 1 + (j - 1) = j
      BY <2>2
    <3>2. M[j] = DmaSchedulerPages[j - 1]
      BY <3>1, InitLayout
    <3> QED BY <3>1, <3>2, PageAddrs
  <2> QED BY <2>1, <2>2
<1>2. ASSUME NEW j \in 1..67, j \notin 2..40
      PROVE  M[j].addr \in Nat /\ W(M[j].addr) /\ M[j].addr \notin OtherAddrs
  <2>1. CASE j = 1
    BY <2>1, InitLayout DEF Op, OtherAddrs
  <2>2. CASE j \in 41..58
    <3>1. j - 40 \in 1..18 /\ 40 + (j - 40) = j
      BY <2>2
    <3>2. M[j] = MacEngines[j - 40]
      BY <3>1, InitLayout
    <3> QED BY <3>1, <3>2, EngineAddrs
  <2>3. CASE j \in 59..67
    <3>1. j - 58 \in 1..9 /\ 58 + (j - 58) = j
      BY <2>3
    <3>2. M[j] = MacRouting[j - 58]
      BY <3>1, InitLayout
    <3> QED BY <3>1, <3>2, RoutingAddrs
  <2> QED BY <1>2, <2>1, <2>2, <2>3
<1> HIDE DEF M
<1>3. M[i].addr \in Mapped \ OtherAddrs
  <2>1. CASE i \in 2..40
    BY <1>1, <2>1 DEF Mapped, OtherAddrs
  <2>2. CASE i \notin 2..40
    BY <1>2, <2>2, WindowsMapped
  <2> QED BY <2>1, <2>2
<1>4. ASSUME NEW j \in 1..67, j <= 40, M[i].addr = M[j].addr, j > 1 PROVE i = j
  <2>1. j \in 2..40
    BY <1>4
  <2>2. S(M[i].addr) /\ M[i].addr \in Nat /\ Idx(M[i].addr) = j - 1
    BY <1>1, <1>4, <2>1
  <2>3. ~W(M[i].addr)
    BY <2>2
  <2>4. i \in 2..40
    BY <1>2, <2>3
  <2>5. Idx(M[i].addr) = i - 1
    BY <1>1, <2>4
  <2> HIDE DEF Idx
  <2> QED BY <2>1, <2>2, <2>4, <2>5
<1> QED BY <1>3, <1>4 DEF M

LEMMA OtherMapped == OtherAddrs \subseteq Mapped
  BY WindowsMapped DEF OtherAddrs

-----------------------------------------------------------------------------
(* What executing a sequence does to the registers.                         *)

LEMMA LastOf ==
  ASSUME NEW n \in Nat, NEW S, S \subseteq 1..n, S # {}
  PROVE  Max(S) \in S /\ \A j \in S : j <= Max(S)
<1> DEFINE T == {n - x : x \in S}
           R == OpToRel(<, Nat)
<1>1. T \subseteq Nat /\ T # {}
  <2>1. \A x \in S : x \in Nat /\ x <= n
    OBVIOUS
  <2>2. \A x \in S : n - x \in Nat
    BY <2>1
  <2> QED BY <2>2
<1>2. IsWellFoundedOn(R, Nat)
  BY NatLessThanWellFounded
<1>3. \A x, y \in Nat : <<y, x>> \in R <=> y < x
  BY DEF OpToRel
<1> HIDE DEF R
<1>4. PICK t \in T : \A k \in T : ~ (<<k, t>> \in R)
  <2> HIDE DEF T
  <2> QED BY <1>1, <1>2, WFMin
<1>5. PICK x \in S : t = n - x
  OBVIOUS
<1>6. \A y \in S : x >= y
  <2> SUFFICES ASSUME NEW y \in S PROVE x >= y
    OBVIOUS
  <2>1. x \in Nat /\ y \in Nat /\ x <= n /\ y <= n
    OBVIOUS
  <2>2. n - y \in T
    OBVIOUS
  <2>3. ~ (n - y < n - x)
    BY <1>1, <1>3, <1>4, <1>5, <2>2
  <2> QED BY <2>1, <2>3
<1>7. Max(S) \in S /\ \A y \in S : Max(S) >= y
  BY <1>6, Zenon DEF Max
<1> DEFINE m == Max(S)
<1> HIDE DEF m
<1>8. m \in S /\ \A y \in S : m >= y
  BY <1>7 DEF m
<1>9. m \in Nat /\ \A y \in S : y \in Nat
  <2>1. \A y \in S : y \in 1..n
    BY Zenon
  <2>2. \A y \in S : y \in Nat
    BY <2>1
  <2> QED BY <1>8, <2>2, Zenon
<1>10. \A y \in S : y <= m
  BY <1>8, <1>9
<1> QED BY <1>8, <1>10 DEF m

(* A register that none of the n writes hits is left alone; one that is hit *)
(* holds the value of the last that hits it.                                *)
LastWrite(x, r, ops, n, p) ==
    \/ /\ \A i \in 1..n : PhysicalAddrMap(ops[i].addr) # p
       /\ x[p] = r[p]
    \/ \E i \in 1..n :
          /\ PhysicalAddrMap(ops[i].addr) = p
          /\ \A j \in 1..n : PhysicalAddrMap(ops[j].addr) = p => j <= i
          /\ x[p] = ops[i].val

LEMMA Executed ==
  ASSUME NEW r, NEW ops, NEW n \in Nat
  PROVE  /\ DOMAIN Execute(r, ops, n) = DOMAIN r
         /\ \A p \in DOMAIN r : LastWrite(Execute(r, ops, n), r, ops, n, p)
<1> DEFINE at == [i \in 1..n |-> PhysicalAddrMap(ops[i].addr)]
           hits(p) == {i \in 1..n : at[i] = p}
           x == [p \in DOMAIN r |-> IF hits(p) = {} THEN r[p] ELSE ops[Max(hits(p))].val]
<1>1. Execute(r, ops, n) = x
  BY DEF Execute
<1>2. DOMAIN Execute(r, ops, n) = DOMAIN r
  BY <1>1
<1>3. ASSUME NEW p \in DOMAIN r
      PROVE  LastWrite(Execute(r, ops, n), r, ops, n, p)
  <2>1. \A i \in 1..n : i \in hits(p) <=> PhysicalAddrMap(ops[i].addr) = p
    OBVIOUS
  <2>2. x[p] = IF hits(p) = {} THEN r[p] ELSE ops[Max(hits(p))].val
    OBVIOUS
  <2>3. hits(p) \subseteq 1..n
    OBVIOUS
  <2> DEFINE h == hits(p)
  <2> HIDE DEF x, hits
  <2>4. CASE h = {}
    BY <1>1, <2>1, <2>2, <2>4 DEF LastWrite
  <2>5. CASE h # {}
    <3>1. Max(h) \in h /\ \A j \in h : j <= Max(h)
      BY <2>3, <2>5, LastOf
    <3>2. Max(h) \in 1..n /\ x[p] = ops[Max(h)].val
      BY <2>2, <2>3, <2>5, <3>1
    <3> QED BY <1>1, <2>1, <3>1, <3>2 DEF LastWrite
  <2> QED BY <2>4, <2>5
<1> QED BY <1>2, <1>3

(* The DMA scheduler is off, or on with all its tables in the chip.         *)
SchedOk(r) ==
    LET on == r[PhysicalAddrMap(SCH_REG4)]
    IN  \/ on = Word(0, 0)
        \/ /\ on = Word(0, \h40)
           /\ \A i \in 2..39 :
                 r[PhysicalAddrMap(MacInitSequence[i].addr)] = MacInitSequence[i].val

InForce(r, ops) ==
    \A i \in DOMAIN ops :
        (\A j \in (i + 1)..Len(ops) : ops[j].addr # ops[i].addr) =>
            r[PhysicalAddrMap(ops[i].addr)] = ops[i].val

(* The registers the sequences write are among those of the model.          *)
LEMMA UsedAddrs ==
  /\ \A i \in 1..67 : PhysicalAddrMap(MacInitSequence[i].addr) \in UsedRegs
  /\ \A a \in OtherAddrs : PhysicalAddrMap(a) \in UsedRegs
<1>1. ASSUME NEW i \in 1..67 PROVE PhysicalAddrMap(MacInitSequence[i].addr) \in UsedRegs
  <2>1. MacInitSequence[i] \in Range(MacInitSequence)
    BY InitLayout DEF Range
  <2> QED BY <2>1 DEF UsedRegs
<1>2. PhysicalAddrMap(\h21c84) \in UsedRegs /\ PhysicalAddrMap(\h21890) \in UsedRegs
  <2>1. DMA_TCFR1.addr = \h21c84 /\ RMAC_CHFREQ.addr = \h21890
    BY DEF DMA_TCFR1, RMAC_CHFREQ, Op
  <2> QED BY <2>1 DEF UsedRegs
<1>3. PhysicalAddrMap(\h21824) \in UsedRegs /\ PhysicalAddrMap(\h21828) \in UsedRegs
  <2> DEFINE o == OwnMacSequence(FallbackMac)
  <2>1. /\ DOMAIN o = {1, 2} /\ o[1].addr = \h21824 /\ o[2].addr = \h21828
    BY DEF OwnMacSequence, Op
  <2> HIDE DEF o
  <2>2. o[1] \in Range(o) /\ o[2] \in Range(o)
    BY <2>1 DEF Range
  <2> QED BY <2>1, <2>2 DEF UsedRegs, o
<1> QED BY <1>1, <1>2, <1>3 DEF OtherAddrs

(* The MAC sequence, stopped after n writes.                                *)
LEMMA InitRun ==
  ASSUME NEW r, DOMAIN r = UsedRegs, NEW n \in 0..67
  PROVE  LET x == Execute(r, MacInitSequence, n)
         IN  /\ DOMAIN x = UsedRegs
             /\ SchedOk(r) => SchedOk(x)
             /\ n = 67 => InForce(x, MacInitSequence)
<1> DEFINE M == MacInitSequence
           x == Execute(r, M, n)
           Ph(i) == PhysicalAddrMap(M[i].addr)
<1>1. DOMAIN x = UsedRegs /\ \A p \in DOMAIN r : LastWrite(x, r, M, n, p)
  <2>1. n \in Nat
    OBVIOUS
  <2> QED BY <2>1, Executed, Zenon
<1>2. \A i \in 1..67 : Ph(i) \in DOMAIN r
  BY UsedAddrs
<1>3. \A i, j \in 1..67 : Ph(i) = Ph(j) => M[i].addr = M[j].addr
  BY InitAddrs, MapInjective
<1>4. \A i \in 1..67, j \in 2..40 : Ph(i) = Ph(j) => i = j
  <2> SUFFICES ASSUME NEW i \in 1..67, NEW j \in 2..40, Ph(i) = Ph(j) PROVE i = j
    OBVIOUS
  <2>1. j \in 1..67 /\ j <= 40 /\ j > 1
    OBVIOUS
  <2>2. M[i].addr = M[j].addr
    BY <1>3, <2>1
  <2> QED BY <2>1, <2>2, InitAddrs
<1>5. ASSUME NEW j \in 2..40 PROVE x[Ph(j)] = IF j <= n THEN M[j].val ELSE r[Ph(j)]
  <2>1. j \in 1..67 /\ Ph(j) \in DOMAIN r
    BY <1>2
  <2>2. \A i \in 1..n : i \in 1..67
    OBVIOUS
  <2>3. \/ (\A i \in 1..n : Ph(i) # Ph(j)) /\ x[Ph(j)] = r[Ph(j)]
        \/ \E i \in 1..n : Ph(i) = Ph(j) /\ x[Ph(j)] = M[i].val
    <3>1. LastWrite(x, r, M, n, Ph(j))
      BY <1>1, <2>1, Zenon
    <3> HIDE DEF x
    <3> QED BY <3>1, Zenon DEF LastWrite
  <2> HIDE DEF x, Ph, M
  <2>4. CASE j <= n
    <3>1. j \in 1..n
      BY <2>4
    <3> QED BY <1>4, <2>2, <2>3, <2>4, <3>1
  <2>5. CASE ~(j <= n)
    <3>1. j \notin 1..n
      BY <2>5
    <3> QED BY <1>4, <2>2, <2>3, <2>5, <3>1
  <2> QED BY <2>4, <2>5
<1>6. ASSUME SchedOk(r) PROVE SchedOk(x)
  <2>1. M[40] = Op(SCH_REG4, 0, \h40)
    BY InitLayout
  <2>2. M[40].val = Word(0, \h40) /\ Ph(40) = PhysicalAddrMap(SCH_REG4)
    BY <2>1 DEF Op
  <2> DEFINE Set(y) == \A i \in 2..39 : y[Ph(i)] = M[i].val
             S4 == PhysicalAddrMap(SCH_REG4)
  <2>3. r[S4] = Word(0, 0) \/ (r[S4] = Word(0, \h40) /\ Set(r))
    BY <1>6 DEF SchedOk
  <2>4. x[S4] = IF 40 <= n THEN Word(0, \h40) ELSE r[S4]
    <3>1. x[Ph(40)] = IF 40 <= n THEN M[40].val ELSE r[Ph(40)]
      BY <1>5
    <3> HIDE DEF x, Ph, M
    <3> QED BY <2>2, <3>1
  <2>5. 40 <= n => Set(x)
    <3> HIDE DEF x, Ph, M
    <3> QED BY <1>5
  <2>6. Set(r) => Set(x)
    <3> HIDE DEF x, Ph, M
    <3> QED BY <1>5
  <2>7. x[S4] = Word(0, 0) \/ (x[S4] = Word(0, \h40) /\ Set(x))
    <3> HIDE DEF x, Ph, M, S4, Set
    <3> QED BY <2>3, <2>4, <2>5, <2>6
  <2> QED BY <2>7, Zenon DEF SchedOk
<1>7. ASSUME n = 67 PROVE InForce(x, M)
  <2>1. DOMAIN M = 1..67 /\ Len(M) = 67
    BY InitLayout
  <2> SUFFICES ASSUME NEW i \in 1..67, \A j \in (i + 1)..67 : M[j].addr # M[i].addr
               PROVE  x[Ph(i)] = M[i].val
    BY <2>1 DEF InForce
  <2>2. Ph(i) \in DOMAIN r /\ i \in 1..n
    BY <1>2, <1>7
  <2>3. PICK k \in 1..67 : /\ Ph(k) = Ph(i) /\ x[Ph(i)] = M[k].val
                           /\ \A j \in 1..67 : Ph(j) = Ph(i) => j <= k
    <3>1. LastWrite(x, r, M, n, Ph(i))
      BY <1>1, <2>2, Zenon
    <3>2. \/ \A j \in 1..n : Ph(j) # Ph(i)
          \/ \E k \in 1..n : /\ Ph(k) = Ph(i) /\ x[Ph(i)] = M[k].val
                             /\ \A j \in 1..n : Ph(j) = Ph(i) => j <= k
      <4> HIDE DEF x
      <4> QED BY <3>1, Zenon DEF LastWrite
    <3> HIDE DEF x, Ph, M
    <3> QED BY <1>7, <2>2, <3>2
  <2>4. i <= k /\ M[k].addr = M[i].addr
    BY <1>3, <2>3
  <2>5. k = i
    <3>1. k \notin (i + 1)..67
      BY <2>4
    <3> QED BY <2>4, <3>1
  <2> QED BY <2>3, <2>5
<1> QED BY <1>1, <1>6, <1>7

(* Writes to the other registers leave those of the MAC sequence alone.     *)
LEMMA OtherRun ==
  ASSUME NEW r, DOMAIN r = UsedRegs, NEW ops, NEW n \in Nat,
         \A i \in 1..n : ops[i].addr \in OtherAddrs
  PROVE  LET x == Execute(r, ops, n)
         IN  /\ DOMAIN x = UsedRegs
             /\ SchedOk(r) => SchedOk(x)
             /\ InForce(r, MacInitSequence) => InForce(x, MacInitSequence)
             /\ \A a \in OtherAddrs :
                   (\A i \in 1..n : ops[i].addr # a) =>
                       x[PhysicalAddrMap(a)] = r[PhysicalAddrMap(a)]
<1> DEFINE M == MacInitSequence
           x == Execute(r, ops, n)
           Ph(i) == PhysicalAddrMap(M[i].addr)
<1>1. DOMAIN x = UsedRegs /\ \A p \in DOMAIN r : LastWrite(x, r, ops, n, p)
  BY Executed, Zenon
<1>2. ASSUME NEW a \in Mapped, PhysicalAddrMap(a) \in UsedRegs, \A i \in 1..n : ops[i].addr # a
      PROVE  x[PhysicalAddrMap(a)] = r[PhysicalAddrMap(a)]
  <2>1. ASSUME NEW i \in 1..n PROVE PhysicalAddrMap(ops[i].addr) # PhysicalAddrMap(a)
    BY <1>2, OtherMapped, MapInjective
  <2>2. LastWrite(x, r, ops, n, PhysicalAddrMap(a))
    BY <1>1, <1>2, Zenon
  <2> HIDE DEF x
  <2> QED BY <2>1, <2>2, Zenon DEF LastWrite
<1>3. ASSUME NEW i \in 1..67 PROVE x[Ph(i)] = r[Ph(i)]
  <2>1. M[i].addr \in Mapped \ OtherAddrs /\ Ph(i) \in UsedRegs
    BY InitAddrs, UsedAddrs
  <2>2. \A j \in 1..n : ops[j].addr # M[i].addr
    BY <2>1
  <2> HIDE DEF x, M
  <2> QED BY <1>2, <2>1, <2>2
<1>4. SchedOk(r) => SchedOk(x)
  <2>1. M[40].addr = SCH_REG4
    BY InitLayout DEF Op
  <2>2. x[PhysicalAddrMap(SCH_REG4)] = r[PhysicalAddrMap(SCH_REG4)]
    BY <1>3, <2>1
  <2> HIDE DEF x
  <2> QED BY <1>3, <2>2 DEF SchedOk
<1>5. InForce(r, M) => InForce(x, M)
  <2>1. DOMAIN M = 1..67
    BY InitLayout
  <2> HIDE DEF x, M
  <2> QED BY <1>3, <2>1 DEF InForce
<1>6. \A a \in OtherAddrs : (\A i \in 1..n : ops[i].addr # a) =>
                                x[PhysicalAddrMap(a)] = r[PhysicalAddrMap(a)]
  <2> HIDE DEF x
  <2> QED BY <1>2, OtherMapped, UsedAddrs
<1> QED BY <1>1, <1>4, <1>5, <1>6

(* The writes of start and set_channel_ext after the MAC sequence.          *)
LEMMA OwnLayout ==
  ASSUME NEW mac
  PROVE  LET o == OwnMacSequence(mac)
         IN  Len(o) = 2 /\ DOMAIN o = 1..2 /\ o[1].addr = \h21824 /\ o[2].addr = \h21828
  BY DEF OwnMacSequence, Op

LEMMA OwnRun ==
  ASSUME NEW r, DOMAIN r = UsedRegs, NEW mac, NEW n \in 0..2
  PROVE  LET o == OwnMacSequence(mac)
             x == Execute(r, o, n)
         IN  /\ DOMAIN x = UsedRegs
             /\ SchedOk(r) => SchedOk(x)
             /\ InForce(r, MacInitSequence) => InForce(x, MacInitSequence)
             /\ n = 2 => InForce(x, o)
<1> DEFINE o == OwnMacSequence(mac)
           x == Execute(r, o, n)
           Ph(i) == PhysicalAddrMap(o[i].addr)
<1>1. Len(o) = 2 /\ DOMAIN o = 1..2 /\ o[1].addr = \h21824 /\ o[2].addr = \h21828
  BY OwnLayout
<1> HIDE DEF o
<1>2. \A i \in 1..2 : o[i].addr \in OtherAddrs
  <2>1. \A i \in 1..2 : i = 1 \/ i = 2
    OBVIOUS
  <2> QED BY <1>1, <2>1 DEF OtherAddrs
<1>3. \A i \in 1..n : o[i].addr \in OtherAddrs
  BY <1>2
<1>4. /\ DOMAIN x = UsedRegs
      /\ SchedOk(r) => SchedOk(x)
      /\ InForce(r, MacInitSequence) => InForce(x, MacInitSequence)
  BY <1>3, OtherRun
<1>5. ASSUME n = 2 PROVE InForce(x, o)
  <2>1. \A i, j \in 1..2 : Ph(i) = Ph(j) => i = j
    <3> SUFFICES ASSUME NEW i \in 1..2, NEW j \in 1..2, Ph(i) = Ph(j) PROVE i = j
      OBVIOUS
    <3>1. o[i].addr = o[j].addr
      BY <1>2, OtherMapped, MapInjective
    <3>2. (i = 1 \/ i = 2) /\ (j = 1 \/ j = 2)
      OBVIOUS
    <3> QED BY <1>1, <3>1, <3>2
  <2>2. ASSUME NEW i \in 1..2 PROVE x[Ph(i)] = o[i].val
    <3>1. Ph(i) \in DOMAIN r
      BY <1>2, UsedAddrs
    <3>2. \/ \A j \in 1..n : Ph(j) # Ph(i)
          \/ \E k \in 1..n : Ph(k) = Ph(i) /\ x[Ph(i)] = o[k].val
      <4>1. n \in Nat
        OBVIOUS
      <4>2. LastWrite(x, r, o, n, Ph(i))
        BY <3>1, <4>1, Executed, Zenon
      <4> HIDE DEF x
      <4> QED BY <4>2, Zenon DEF LastWrite
    <3> HIDE DEF x, Ph
    <3> QED BY <1>5, <2>1, <3>2
  <2> HIDE DEF x
  <2> QED BY <1>1, <2>2 DEF InForce
<1> QED BY <1>4, <1>5 DEF o

(* A single write to one of the two registers start sets by itself.         *)
LEMMA SingleRun ==
  ASSUME NEW r, DOMAIN r = UsedRegs, NEW op \in {DMA_TCFR1, RMAC_CHFREQ}, NEW k \in {0, 1}
  PROVE  LET x == Execute(r, <<op>>, k)
         IN  /\ DOMAIN x = UsedRegs
             /\ SchedOk(r) => SchedOk(x)
             /\ InForce(r, MacInitSequence) => InForce(x, MacInitSequence)
             /\ \A mac : InForce(r, OwnMacSequence(mac)) => InForce(x, OwnMacSequence(mac))
<1> DEFINE l == <<op>>
           x == Execute(r, l, k)
<1>1. op.addr \in {\h21c84, \h21890}
  BY DEF DMA_TCFR1, RMAC_CHFREQ, Op
<1>2. \A i \in 1..k : l[i].addr \in {\h21c84, \h21890}
  BY <1>1
<1> HIDE DEF l
<1>3. k \in Nat /\ \A i \in 1..k : l[i].addr \in OtherAddrs
  BY <1>2 DEF OtherAddrs
<1>4. /\ DOMAIN x = UsedRegs
      /\ SchedOk(r) => SchedOk(x)
      /\ InForce(r, MacInitSequence) => InForce(x, MacInitSequence)
      /\ \A a \in OtherAddrs :
            (\A i \in 1..k : l[i].addr # a) => x[PhysicalAddrMap(a)] = r[PhysicalAddrMap(a)]
  BY <1>3, OtherRun
<1>5. /\ x[PhysicalAddrMap(\h21824)] = r[PhysicalAddrMap(\h21824)]
      /\ x[PhysicalAddrMap(\h21828)] = r[PhysicalAddrMap(\h21828)]
  <2> HIDE DEF x
  <2>1. \A i \in 1..k : l[i].addr # \h21824 /\ l[i].addr # \h21828
    BY <1>2
  <2> QED BY <1>4, <2>1 DEF OtherAddrs
<1>6. ASSUME NEW mac, InForce(r, OwnMacSequence(mac)) PROVE InForce(x, OwnMacSequence(mac))
  <2> DEFINE o == OwnMacSequence(mac)
  <2>1. DOMAIN o = 1..2 /\ o[1].addr = \h21824 /\ o[2].addr = \h21828
    BY OwnLayout
  <2>2. \A i \in 1..2 : i = 1 \/ i = 2
    OBVIOUS
  <2> HIDE DEF x, o
  <2>3. \A i \in DOMAIN o : x[PhysicalAddrMap(o[i].addr)] = r[PhysicalAddrMap(o[i].addr)]
    BY <1>5, <2>1, <2>2
  <2>4. InForce(r, o)
    BY <1>6 DEF o
  <2>5. InForce(x, o)
    BY <2>3, <2>4 DEF InForce
  <2> QED BY <2>5 DEF o
<1> QED BY <1>4, <1>6 DEF l

-----------------------------------------------------------------------------
(* The shares of the DMA scheduler.                                         *)

(* The bit maps, written out.                                               *)
LEMMA GroupBits ==
  /\ Bits(\hff5f) = (0..15) \ {5, 7} /\ Bits(\h80) = {7} /\ Bits(\h20) = {5}
  /\ 6 \notin Bits(0)
<1>1. /\ Shl1(0) = 1 /\ Shl1(1) = 2 /\ Shl1(2) = 4 /\ Shl1(3) = 8 /\ Shl1(4) = 16
      /\ Shl1(5) = 32 /\ Shl1(6) = 64 /\ Shl1(7) = 128 /\ Shl1(8) = 256 /\ Shl1(9) = 512
      /\ Shl1(10) = 1024 /\ Shl1(11) = 2048 /\ Shl1(12) = 4096 /\ Shl1(13) = 8192
      /\ Shl1(14) = 16384 /\ Shl1(15) = 32768
  BY DEF Shl1, PowersOfTwo
<1>2. \A b \in 0..15 : \/ b = 0 \/ b = 1 \/ b = 2 \/ b = 3 \/ b = 4 \/ b = 5 \/ b = 6 \/ b = 7
                       \/ b = 8 \/ b = 9 \/ b = 10 \/ b = 11 \/ b = 12 \/ b = 13 \/ b = 14
                       \/ b = 15
  OBVIOUS
<1>3. \A b \in 0..15 : (\hff5f \div Shl1(b)) % 2 = 1 <=> b # 5 /\ b # 7
  BY <1>1, <1>2
<1>4. \A b \in 0..15 : (\h80 \div Shl1(b)) % 2 = 1 <=> b = 7
  BY <1>1, <1>2
<1>5. \A b \in 0..15 : (\h20 \div Shl1(b)) % 2 = 1 <=> b = 5
  BY <1>1, <1>2
<1>6. (0 \div Shl1(6)) % 2 # 1
  BY <1>1
<1>7. Bits(\hff5f) = (0..15) \ {5, 7}
  BY <1>3 DEF Bits
<1>8. Bits(\h80) = {7}
  BY <1>4 DEF Bits
<1>9. Bits(\h20) = {5}
  BY <1>5 DEF Bits
<1>10. 6 \notin Bits(0)
  BY <1>6 DEF Bits
<1> QED BY <1>7, <1>8, <1>9, <1>10

LEMMA SharesFit == SchedOk(reg) => SchedulerPartitioned
<1> SUFFICES ASSUME SchedOk(reg), 6 \in Bits(RegAt(SCH_REG4)[2])
             PROVE  LET group == << Bits(RegAt(MT_BMAP_0)[2]), Bits(RegAt(MT_BMAP_0)[1]),
                                    Bits(RegAt(MT_BMAP_1)[2]) >>
                        thd == [g \in 1..3 |-> RegAt(MT_GROUP_THD_0 + 4 * (g - 1))[2]]
                        page(g, q) ==
                            IF q \in group[g] THEN RegAt(MT_PAGE_CNT_0 + 4 * q)[2] ELSE 0
                    IN  /\ thd[1] + thd[2] + thd[3] = RegAt(MT_SCH_REG_1)[2]
                        /\ group[1] \cup group[2] \cup group[3] = 0..15
                        /\ \A g, h \in 1..3 : g # h => group[g] \cap group[h] = {}
                        /\ \A g \in 1..3 :
                              page(g, 0) + page(g, 1) + page(g, 2) + page(g, 3) + page(g, 4)
                              + page(g, 5) + page(g, 7) + page(g, 8) <= thd[g]
  BY Zenon DEF SchedulerPartitioned
<1> DEFINE M == MacInitSequence
           P == DmaSchedulerPages
<1>1. RegAt(SCH_REG4) # Word(0, 0)
  <2>1. RegAt(SCH_REG4) = Word(0, 0) => RegAt(SCH_REG4)[2] = 0
    BY DEF Word
  <2> QED BY <2>1, GroupBits
<1>2. \A i \in 2..39 : reg[PhysicalAddrMap(M[i].addr)] = M[i].val
  BY <1>1, Zenon DEF SchedOk, RegAt
<1>3. \A i \in 1..38 : RegAt(P[i].addr) = P[i].val
  <2> SUFFICES ASSUME NEW i \in 1..38 PROVE RegAt(P[i].addr) = P[i].val
    OBVIOUS
  <2>1. M[1 + i] = P[i] /\ 1 + i \in 2..39
    BY InitLayout
  <2> HIDE DEF M, P
  <2> QED BY <1>2, <2>1 DEF RegAt
<1>4. /\ P[7] = Op(MT_SCH_REG_1, \h2000, \h288)
      /\ P[9] = Op(MT_PAGE_CNT_0, 0, 14) /\ P[10] = Op(MT_PAGE_CNT_0 + 4, 0, 14)
      /\ P[11] = Op(MT_PAGE_CNT_0 + 8, 0, 14) /\ P[12] = Op(MT_PAGE_CNT_0 + 12, 0, 14)
      /\ P[13] = Op(MT_PAGE_CNT_0 + 16, 0, 14) /\ P[14] = Op(MT_PAGE_CNT_0 + 20, 0, 32)
      /\ P[15] = Op(MT_PAGE_CNT_0 + 28, 0, 14) /\ P[16] = Op(MT_PAGE_CNT_0 + 32, 0, 50)
      /\ P[18] = Op(MT_GROUP_THD_0, 0, \h25a) /\ P[19] = Op(MT_GROUP_THD_0 + 4, 0, 14)
      /\ P[20] = Op(MT_BMAP_0, \h0080, \hff5f)
      /\ P[21] = Op(MT_GROUP_THD_0 + 8, 0, 32) /\ P[22] = Op(MT_BMAP_1, 0, \h20)
  BY PagesLayout DEF MT_PAGE_CNT_0
<1> HIDE DEF P
<1>5. ASSUME NEW i \in 1..38, NEW a, NEW hi, NEW lo, P[i] = Op(a, hi, lo)
      PROVE  RegAt(a)[1] = hi /\ RegAt(a)[2] = lo
  <2>1. P[i].addr = a /\ P[i].val = <<hi, lo>>
    BY <1>5 DEF Op, Word
  <2>2. RegAt(a) = <<hi, lo>>
    BY <1>3, <2>1, Zenon
  <2> QED BY <2>2
<1> DEFINE Lo(a) == RegAt(a)[2]
           Hi(a) == RegAt(a)[1]
<1>6. /\ Lo(MT_SCH_REG_1) = \h288 /\ Lo(MT_BMAP_0) = \hff5f /\ Hi(MT_BMAP_0) = \h80
      /\ Lo(MT_BMAP_1) = \h20
  BY <1>4, <1>5
<1>7. /\ Lo(MT_GROUP_THD_0) = \h25a /\ Lo(MT_GROUP_THD_0 + 4) = 14
      /\ Lo(MT_GROUP_THD_0 + 8) = 32
  BY <1>4, <1>5
<1>8. /\ Lo(MT_PAGE_CNT_0) = 14 /\ Lo(MT_PAGE_CNT_0 + 4) = 14 /\ Lo(MT_PAGE_CNT_0 + 8) = 14
      /\ Lo(MT_PAGE_CNT_0 + 12) = 14 /\ Lo(MT_PAGE_CNT_0 + 16) = 14
      /\ Lo(MT_PAGE_CNT_0 + 20) = 32 /\ Lo(MT_PAGE_CNT_0 + 28) = 14
      /\ Lo(MT_PAGE_CNT_0 + 32) = 50
  BY <1>4, <1>5
<1> DEFINE group == << Bits(RegAt(MT_BMAP_0)[2]), Bits(RegAt(MT_BMAP_0)[1]),
                       Bits(RegAt(MT_BMAP_1)[2]) >>
           thd == [g \in 1..3 |-> RegAt(MT_GROUP_THD_0 + 4 * (g - 1))[2]]
           page(g, q) == IF q \in group[g] THEN RegAt(MT_PAGE_CNT_0 + 4 * q)[2] ELSE 0
           quota(q) == RegAt(MT_PAGE_CNT_0 + 4 * q)[2]
<1>9. group[1] = (0..15) \ {5, 7} /\ group[2] = {7} /\ group[3] = {5}
  BY <1>6, GroupBits
<1>10. thd[1] = \h25a /\ thd[2] = 14 /\ thd[3] = 32
  BY <1>7 DEF MT_GROUP_THD_0
<1>11. /\ quota(0) = 14 /\ quota(1) = 14 /\ quota(2) = 14 /\ quota(3) = 14 /\ quota(4) = 14
       /\ quota(5) = 32 /\ quota(7) = 14 /\ quota(8) = 50
  BY <1>8 DEF MT_PAGE_CNT_0
<1> HIDE DEF group, thd, Lo, Hi
<1>12. \A g \in 1..3 : g = 1 \/ g = 2 \/ g = 3
  OBVIOUS
<1>13. thd[1] + thd[2] + thd[3] = RegAt(MT_SCH_REG_1)[2]
  BY <1>6, <1>10 DEF Lo
<1>14. group[1] \cup group[2] \cup group[3] = 0..15
  BY <1>9
<1>15. \A g, h \in 1..3 : g # h => group[g] \cap group[h] = {}
  BY <1>9, <1>12
<1>16. ASSUME NEW g \in 1..3, NEW q \in Nat
       PROVE  page(g, q) = IF q \in group[g] THEN quota(q) ELSE 0
  OBVIOUS
<1> HIDE DEF page, quota
<1>17. page(1, 0) + page(1, 1) + page(1, 2) + page(1, 3) + page(1, 4)
       + page(1, 5) + page(1, 7) + page(1, 8) <= thd[1]
  <2>1. /\ page(1, 0) = 14 /\ page(1, 1) = 14 /\ page(1, 2) = 14 /\ page(1, 3) = 14
        /\ page(1, 4) = 14 /\ page(1, 5) = 0 /\ page(1, 7) = 0 /\ page(1, 8) = 50
    BY <1>9, <1>11, <1>16
  <2> QED BY <1>10, <2>1
<1>18. page(2, 0) + page(2, 1) + page(2, 2) + page(2, 3) + page(2, 4)
       + page(2, 5) + page(2, 7) + page(2, 8) <= thd[2]
  <2>1. /\ page(2, 0) = 0 /\ page(2, 1) = 0 /\ page(2, 2) = 0 /\ page(2, 3) = 0
        /\ page(2, 4) = 0 /\ page(2, 5) = 0 /\ page(2, 7) = 14 /\ page(2, 8) = 0
    BY <1>9, <1>11, <1>16
  <2> QED BY <1>10, <2>1
<1>19. page(3, 0) + page(3, 1) + page(3, 2) + page(3, 3) + page(3, 4)
       + page(3, 5) + page(3, 7) + page(3, 8) <= thd[3]
  <2>1. /\ page(3, 0) = 0 /\ page(3, 1) = 0 /\ page(3, 2) = 0 /\ page(3, 3) = 0
        /\ page(3, 4) = 0 /\ page(3, 5) = 32 /\ page(3, 7) = 0 /\ page(3, 8) = 0
    BY <1>9, <1>11, <1>16
  <2> QED BY <1>10, <2>1
<1>20. \A g \in 1..3 :
          page(g, 0) + page(g, 1) + page(g, 2) + page(g, 3) + page(g, 4)
          + page(g, 5) + page(g, 7) + page(g, 8) <= thd[g]
  BY <1>12, <1>17, <1>18, <1>19, Zenon
<1> QED BY <1>13, <1>14, <1>15, <1>20, Zenon DEF group, thd, page

-----------------------------------------------------------------------------
(* The command frames.                                                      *)

(* A frame the builder did not refuse, with the fields that matter.         *)
FrameIs(f, cid, ext, h, len, body) ==
    /\ f.err = 0 /\ f.cmd.cid = cid /\ f.cmd.ext = ext /\ f.cmd.hdr = h
    /\ f.cmd.len = len /\ f.cmd.body = body

(* The frame fits the buffer, and its length the header field.              *)
Fits(len, h, out) == /\ len \in Nat /\ h \in Nat /\ out \in Nat
                     /\ len + h <= out /\ out < 65536

LEMMA FrameBuilt ==
  ASSUME NEW cid, NEW sq, NEW ext, NEW seq, NEW rsp, NEW h, NEW len,
         NEW body, NEW out, Fits(len, h, out)
  PROVE  FrameIs(BuildFwTxdFrame(cid, sq, ext, seq, rsp, h, len, body, out),
                 cid, ext, h, len + h, body)
<1> DEFINE na == /\ cid = "EXT" /\ sq \in {CMD_SET, CMD_QUERY}
                 /\ rsp /\ seq # 0
           c == [cid |-> cid, ext |-> ext, seq |-> seq, hdr |-> h,
                 len |-> U16(len + h), need_ack |-> na, body |-> body]
           f == BuildFwTxdFrame(cid, sq, ext, seq, rsp, h, len, body, out)
<1>1. ~(out < len + h) /\ U16(len + h) = len + h
  BY DEF Fits, U16
<1>2. f = [err |-> 0, cmd |-> c]
  BY <1>1, Zenon DEF BuildFwTxdFrame
<1> HIDE DEF f, na
<1>3. f.err = 0 /\ f.cmd = c
  <2> HIDE DEF c
  <2> QED BY <1>2
<1>4. c.cid = cid /\ c.ext = ext /\ c.hdr = h /\ c.len = U16(len + h) /\ c.body = body
  OBVIOUS
<1> HIDE DEF c
<1>5. FrameIs(f, cid, ext, h, len + h, body)
  BY <1>1, <1>3, <1>4, Zenon DEF FrameIs
<1> QED BY <1>5, Zenon DEF f

LEMMA BufferSizes ==
  /\ DlBuf = 4096 /\ FW_SCATTER_MAX_PAYLOAD = 4064 /\ FW_TXD_HDR_SIZE = 12
  /\ FW_TXD_FULL_SIZE = 32 /\ CmdBuf = 1088 /\ ChanBuf = 128
BY DEF DlBuf, FW_SCATTER_MAX_PAYLOAD, FW_TXD_FULL_SIZE, FW_TXD_HDR_SIZE, CmdBuf, ChanBuf

(* The frames of the download, and what the ROM makes of them.              *)
LEMMA RestartFrame ==
  ASSUME NEW r
  PROVE  RomTake(r, BuildRestartDlReq(1, DlBuf).cmd) = r
<1> DEFINE f == BuildRestartDlReq(1, DlBuf)
<1>1. Fits(0, FW_TXD_HDR_SIZE, DlBuf)
  BY BufferSizes DEF Fits
<1>2. FrameIs(f, "RESTART_DL", "NA", FW_TXD_HDR_SIZE, 0 + FW_TXD_HDR_SIZE, <<>>)
  BY <1>1, FrameBuilt, Zenon DEF BuildRestartDlReq
<1> HIDE DEF f
<1>3. f.cmd.cid = "RESTART_DL"
  BY <1>2, Zenon DEF FrameIs
<1>4. RomTake(r, f.cmd) = r
  BY <1>3 DEF RomTake
<1> QED BY <1>4, Zenon DEF f

LEMMA AddrLenFrame ==
  ASSUME NEW r, NEW len, NEW s
  PROVE  LET f == BuildAddrLenReq(MT7603_FW_CODE_START_ADDRESS1, len, s, DlBuf)
         IN  f.err = 0 /\ RomTake(r, f.cmd) = [r EXCEPT !.missing = len]
<1> DEFINE f == BuildAddrLenReq(MT7603_FW_CODE_START_ADDRESS1, len, s, DlBuf)
           b == [address |-> MT7603_FW_CODE_START_ADDRESS1, dl_len |-> len]
<1>1. Fits(12, FW_TXD_HDR_SIZE, DlBuf)
  BY BufferSizes DEF Fits
<1>2. FrameIs(f, "ADDRESS_LEN", "NA", FW_TXD_HDR_SIZE, 12 + FW_TXD_HDR_SIZE, b)
  BY <1>1, FrameBuilt, Zenon DEF BuildAddrLenReq
<1>3. b.dl_len = len
  OBVIOUS
<1> HIDE DEF f, b
<1>4. /\ f.err = 0 /\ f.cmd.cid = "ADDRESS_LEN" /\ f.cmd.hdr = FW_TXD_HDR_SIZE
      /\ f.cmd.body.dl_len = len
  BY <1>2, <1>3, Zenon DEF FrameIs
<1>5. RomTake(r, f.cmd) = [r EXCEPT !.missing = len]
  BY <1>4 DEF RomTake
<1> QED BY <1>4, <1>5 DEF f

LEMMA ScatterFrame ==
  ASSUME NEW r, NEW n \in Nat, n <= FW_SCATTER_MAX_PAYLOAD
  PROVE  LET f == BuildFwScatterFrame(n, DlBuf)
         IN  f.err = 0 /\ RomTake(r, f.cmd) = [r EXCEPT !.missing = r.missing - n]
<1> DEFINE f == BuildFwScatterFrame(n, DlBuf)
           t == BuildFwTxdFrame("FW_SCATTER", CMD_NA, "NA", 0, FALSE, FW_TXD_HDR_SIZE, n,
                                <<>>, DlBuf)
<1>1. Fits(n, FW_TXD_HDR_SIZE, DlBuf) /\ ~(n > FW_SCATTER_MAX_PAYLOAD)
  BY BufferSizes DEF Fits
<1>2. f = t
  BY <1>1, Zenon DEF BuildFwScatterFrame
<1>3. FrameIs(t, "FW_SCATTER", "NA", FW_TXD_HDR_SIZE, n + FW_TXD_HDR_SIZE, <<>>)
  BY <1>1, FrameBuilt, Zenon
<1> HIDE DEF f, t
<1>4. /\ f.err = 0 /\ f.cmd.cid = "FW_SCATTER" /\ f.cmd.hdr = FW_TXD_HDR_SIZE
      /\ f.cmd.len = n + FW_TXD_HDR_SIZE
  BY <1>2, <1>3, Zenon DEF FrameIs
<1>5. RomTake(r, f.cmd) = [r EXCEPT !.missing = r.missing - (f.cmd.len - f.cmd.hdr)]
  BY <1>4 DEF RomTake
<1>6. f.cmd.len - f.cmd.hdr = n
  BY <1>4, BufferSizes
<1> QED BY <1>4, <1>5, <1>6 DEF f

LEMMA StartFrame ==
  ASSUME NEW r, NEW s
  PROVE  LET f == BuildFwStartReq(1, MT7603_FW_CODE_START_ADDRESS1, s, DlBuf)
         IN  f.err = 0 /\ RomTake(r, f.cmd) = [r EXCEPT !.entered = TRUE]
<1> DEFINE f == BuildFwStartReq(1, MT7603_FW_CODE_START_ADDRESS1, s, DlBuf)
           b == [override |-> 1, address |-> MT7603_FW_CODE_START_ADDRESS1]
<1>1. Fits(8, FW_TXD_HDR_SIZE, DlBuf)
  BY BufferSizes DEF Fits
<1>2. FrameIs(f, "FW_START", "NA", FW_TXD_HDR_SIZE, 8 + FW_TXD_HDR_SIZE, b)
  BY <1>1, FrameBuilt, Zenon DEF BuildFwStartReq
<1>3. b.address = MT7603_FW_CODE_START_ADDRESS1
  OBVIOUS
<1> HIDE DEF f, b
<1>4. /\ f.err = 0 /\ f.cmd.cid = "FW_START" /\ f.cmd.hdr = FW_TXD_HDR_SIZE
      /\ f.cmd.body.address = MT7603_FW_CODE_START_ADDRESS1
  BY <1>2, <1>3, Zenon DEF FrameIs
<1>5. RomTake(r, f.cmd) = [r EXCEPT !.entered = TRUE]
  BY <1>4 DEF RomTake
<1> QED BY <1>4, <1>5 DEF f

(* A command for the running firmware that fits its buffer.                 *)
Built(c, e, b) ==
    c.err = 0 /\ c.cmd.hdr = FW_TXD_FULL_SIZE /\ c.cmd.ext = e /\ c.cmd.body = b /\ c.cmd.len # 0

LEMMA ExtBuilt ==
  ASSUME NEW e, NEW seq, NEW len, NEW body, NEW out, Fits(len, FW_TXD_FULL_SIZE, out)
  PROVE  Built(ExtSet(e, seq, len, body, out), e, body)
<1> DEFINE c == ExtSet(e, seq, len, body, out)
<1>1. len + FW_TXD_FULL_SIZE # 0
  BY DEF Fits, FW_TXD_FULL_SIZE
<1>2. FrameIs(c, "EXT", e, FW_TXD_FULL_SIZE, len + FW_TXD_FULL_SIZE, body)
  BY FrameBuilt, Zenon DEF ExtSet
<1> HIDE DEF c
<1>3. Built(c, e, body)
  BY <1>1, <1>2, Zenon DEF Built, FrameIs
<1> QED BY <1>3, Zenon DEF c

(* The payload of the power command, from the image as it is.               *)
PowerBytes ==
    [k \in DOMAIN PowerSource |->
        IF PowerSource[k] \in DOMAIN eeprom THEN eeprom[PowerSource[k]] ELSE 255]

(* Each command fits the buffer its caller has.                             *)
LEMMA CommandsBuilt ==
  ASSUME NEW s, NEW ch
  PROVE  /\ \E b : Built(BuildEfuseBufferModeCmd(s, CmdBuf), "EFUSE_BUFFER_MODE", b)
         /\ \E b : Built(BuildRadioOnOffCmd(TRUE, s, CmdBuf), "RADIO_ON_OFF", b)
         /\ Built(BuildEdcaSetCmd(s, CmdBuf), "EDCA_SET", EdcaParams)
         /\ \E b : Built(BuildChannelSwitchCmd(ch, ch, 0, s, ChanBuf), "CHANNEL_SWITCH", b)
         /\ \E b : /\ Built(BuildTxPowerCtrlCmd(eeprom, ch, s, ChanBuf), "TX_POWER_CTRL", b)
                   /\ b.bytes = PowerBytes
<1>0. /\ Fits(4, FW_TXD_FULL_SIZE, CmdBuf) /\ Fits(4 + 4 * 8, FW_TXD_FULL_SIZE, CmdBuf)
      /\ Fits(4 + 240 * 4, FW_TXD_FULL_SIZE, CmdBuf)
      /\ Fits(36, FW_TXD_FULL_SIZE, ChanBuf) /\ Fits(44, FW_TXD_FULL_SIZE, ChanBuf)
  BY BufferSizes DEF Fits
<1>1. \E b : Built(BuildEfuseBufferModeCmd(s, CmdBuf), "EFUSE_BUFFER_MODE", b)
  <2> DEFINE b == [source |-> 0, count |-> 0]
             l == 4 + 240 * 4
  <2>1. BuildEfuseBufferModeCmd(s, CmdBuf) = ExtSet("EFUSE_BUFFER_MODE", s, l, b, CmdBuf)
    BY DEF BuildEfuseBufferModeCmd
  <2>2. Fits(l, FW_TXD_FULL_SIZE, CmdBuf)
    BY <1>0
  <2> HIDE DEF b, l
  <2>3. Built(ExtSet("EFUSE_BUFFER_MODE", s, l, b, CmdBuf), "EFUSE_BUFFER_MODE", b)
    BY <2>2, ExtBuilt
  <2> QED BY <2>1, <2>3
<1>2. \E b : Built(BuildRadioOnOffCmd(TRUE, s, CmdBuf), "RADIO_ON_OFF", b)
  <2> DEFINE b == [ctrl |-> IF TRUE THEN 1 ELSE 2]
  <2>1. BuildRadioOnOffCmd(TRUE, s, CmdBuf) = ExtSet("RADIO_ON_OFF", s, 4, b, CmdBuf)
    BY Zenon DEF BuildRadioOnOffCmd
  <2> HIDE DEF b
  <2>2. Built(ExtSet("RADIO_ON_OFF", s, 4, b, CmdBuf), "RADIO_ON_OFF", b)
    BY <1>0, ExtBuilt
  <2> QED BY <2>1, <2>2
<1>3. Built(BuildEdcaSetCmd(s, CmdBuf), "EDCA_SET", EdcaParams)
  <2>1. BuildEdcaSetCmd(s, CmdBuf) = ExtSet("EDCA_SET", s, 4 + 4 * 8, EdcaParams, CmdBuf)
    BY DEF BuildEdcaSetCmd
  <2>2. Built(ExtSet("EDCA_SET", s, 4 + 4 * 8, EdcaParams, CmdBuf), "EDCA_SET", EdcaParams)
    BY <1>0, ExtBuilt
  <2> QED BY <2>1, <2>2
<1>4. \E b : Built(BuildChannelSwitchCmd(ch, ch, 0, s, ChanBuf), "CHANNEL_SWITCH", b)
  <2> DEFINE b == [ch |-> ch, central |-> ch, bw |-> 0]
  <2>1. BuildChannelSwitchCmd(ch, ch, 0, s, ChanBuf) = ExtSet("CHANNEL_SWITCH", s, 36, b, ChanBuf)
    BY Zenon DEF BuildChannelSwitchCmd
  <2> HIDE DEF b
  <2>2. Built(ExtSet("CHANNEL_SWITCH", s, 36, b, ChanBuf), "CHANNEL_SWITCH", b)
    BY <1>0, ExtBuilt
  <2> QED BY <2>1, <2>2
<1>5. \E b : /\ Built(BuildTxPowerCtrlCmd(eeprom, ch, s, ChanBuf), "TX_POWER_CTRL", b)
             /\ b.bytes = PowerBytes
  <2> DEFINE b == [ch |-> ch, bytes |-> PowerBytes]
  <2>1. BuildTxPowerCtrlCmd(eeprom, ch, s, ChanBuf) = ExtSet("TX_POWER_CTRL", s, 44, b, ChanBuf)
    BY Zenon DEF BuildTxPowerCtrlCmd, PowerBytes
  <2>2. b.bytes = PowerBytes
    OBVIOUS
  <2> HIDE DEF b
  <2>3. Built(ExtSet("TX_POWER_CTRL", s, 44, b, ChanBuf), "TX_POWER_CTRL", b)
    BY <1>0, ExtBuilt
  <2> QED BY <2>1, <2>2, <2>3
<1> QED BY <1>1, <1>2, <1>3, <1>4, <1>5

-----------------------------------------------------------------------------
(* What the firmware has been told.                                         *)

FwFields == {"got", "tuned_uncalibrated", "lost", "edca", "power"}

GoodFw(f) ==
    /\ DOMAIN f = FwFields
    /\ f.tuned_uncalibrated => ~eeprom_valid \/ f.lost
    /\ f.edca = <<>> \/ f.edca = EdcaParams
    /\ f.power = <<>> \/ f.power = PowerBytes

(* The firmware has command e, unless something was lost.                   *)
Had(f, e) == e \in f.got \/ f.lost

(* One command: what it requires and what holds afterwards.                 *)
LEMMA SendKeeps ==
  ASSUME NEW f, NEW cmds, NEW k \in Nat, NEW drop, NEW e, NEW b,
         GoodFw(f), ~(k > Len(cmds)), Built(cmds[k], e, b),
         e = "CHANNEL_SWITCH" => ~eeprom_valid \/ Had(f, "EFUSE_BUFFER_MODE"),
         e = "EDCA_SET" => b = EdcaParams,
         e = "TX_POWER_CTRL" => b.bytes = PowerBytes
  PROVE  LET g == Send(f, cmds, k, drop)
         IN  GoodFw(g) /\ Had(g, e) /\ \A x : Had(f, x) => Had(g, x)
<1> DEFINE g == Send(f, cmds, k, drop)
           c == cmds[k].cmd
<1>1. ~(k > Len(cmds) \/ RustCommandFrame(cmds[k], 0).written = 0)
  <2> DEFINE w == RustCommandFrame(cmds[k], 0)
             l == IF cmds[k].err = 0 THEN cmds[k].cmd.len ELSE 0
  <2>1. w = [ret |-> cmds[k].err, written |-> l]
    BY DEF RustCommandFrame
  <2>2. l # 0
    BY DEF Built
  <2> HIDE DEF w, l
  <2>3. w.written = l
    BY <2>1
  <2> QED BY <2>2, <2>3 DEF w
<1>2. c.hdr = FW_TXD_FULL_SIZE /\ c.ext = e /\ c.body = b
  BY DEF Built
<1>3. CASE k = drop
  <2>1. g = [f EXCEPT !.lost = TRUE]
    BY <1>1, <1>3, Zenon DEF Send
  <2> HIDE DEF g
  <2>2. /\ DOMAIN g = FwFields /\ g.lost = TRUE /\ g.got = f.got /\ g.edca = f.edca
        /\ g.power = f.power
    BY <2>1 DEF GoodFw, FwFields
  <2>3. GoodFw(g)
    BY <2>2, Zenon DEF GoodFw
  <2>4. Had(g, e) /\ \A x : Had(f, x) => Had(g, x)
    BY <2>2, Zenon DEF Had
  <2> QED BY <2>3, <2>4, Zenon DEF g
<1>4. CASE k # drop
  <2> DEFINE tun == f.tuned_uncalibrated
                    \/ (e = "CHANNEL_SWITCH" /\ "EFUSE_BUFFER_MODE" \notin f.got)
             ed == IF e = "EDCA_SET" THEN b ELSE f.edca
             po == IF e = "TX_POWER_CTRL" THEN b.bytes ELSE f.power
  <2>1. g = [f EXCEPT !.got = f.got \cup {e}, !.tuned_uncalibrated = tun, !.edca = ed, !.power = po]
    <3>1. g = Take(f, c)
      BY <1>1, <1>4, Zenon DEF Send
    <3> HIDE DEF g, c
    <3>2. Take(f, c) = [f EXCEPT !.got = @ \cup {c.ext},
                   !.tuned_uncalibrated =
                       @ \/ (c.ext = "CHANNEL_SWITCH" /\ "EFUSE_BUFFER_MODE" \notin f.got),
                   !.edca  = IF c.ext = "EDCA_SET" THEN c.body ELSE @,
                   !.power = IF c.ext = "TX_POWER_CTRL" THEN c.body.bytes ELSE @]
      BY <1>2, Zenon DEF Take
    <3> QED BY <1>2, <3>1, <3>2 DEF GoodFw, FwFields
  <2> HIDE DEF g, tun, ed, po
  <2>2. /\ DOMAIN g = FwFields /\ g.lost = f.lost /\ g.got = f.got \cup {e} /\ g.edca = ed
        /\ g.power = po /\ g.tuned_uncalibrated = tun
    BY <2>1 DEF GoodFw, FwFields
  <2>3. ed = <<>> \/ ed = EdcaParams
    BY Zenon DEF ed, GoodFw
  <2>4. po = <<>> \/ po = PowerBytes
    BY Zenon DEF po, GoodFw
  <2>5. tun => ~eeprom_valid \/ f.lost
    BY Zenon DEF tun, GoodFw, Had
  <2>6. GoodFw(g)
    BY <2>2, <2>3, <2>4, <2>5, Zenon DEF GoodFw
  <2>7. Had(g, e) /\ \A x : Had(f, x) => Had(g, x)
    <3>1. e \in g.got /\ f.got \subseteq g.got
      BY <2>2
    <3> QED BY <2>2, <3>1, Zenon DEF Had
  <2> QED BY <2>6, <2>7, Zenon DEF g
<1> QED BY <1>3, <1>4

LEMMA SendNone ==
  ASSUME NEW f, NEW cmds, NEW k, NEW drop, k > Len(cmds)
  PROVE  Send(f, cmds, k, drop) = f
BY Zenon DEF Send

Five(u, a, b, c, d, e) ==
    Len(u) = 5 /\ u[1] = a /\ u[2] = b /\ u[3] = c /\ u[4] = d /\ u[5] = e

Four(u, b, c, d, e) ==
    Len(u) = 4 /\ u[1] = b /\ u[2] = c /\ u[3] = d /\ u[4] = e

LEMMA FiveOf ==
  ASSUME NEW a, NEW b, NEW c, NEW d, NEW e
  PROVE  /\ Five((<<a>> \o <<b, c>>) \o <<d, e>>, a, b, c, d, e)
         /\ Four((<<>> \o <<b, c>>) \o <<d, e>>, b, c, d, e)
<1>1. /\ Listed(<<>>, 0) /\ Listed(<<a>>, 1) /\ Listed(<<b, c>>, 2) /\ Listed(<<d, e>>, 2)
  BY DEF Listed
<1> DEFINE x == <<a>>
           y == <<b, c>>
           z == <<d, e>>
           n == <<>>
           xy == x \o y
           ny == n \o y
           u == xy \o z
           v == ny \o z
<1>2. x[1] = a /\ y[1] = b /\ y[2] = c /\ z[1] = d /\ z[2] = e
  OBVIOUS
<1>3. Listed(n, 0) /\ Listed(x, 1) /\ Listed(y, 2) /\ Listed(z, 2)
  BY <1>1
<1> HIDE DEF x, y, z, n
<1>4. Listed(xy, 3) /\ Follows(xy, 1, x, 2, y)
  BY <1>3, Joined
<1>5. Listed(ny, 2) /\ Follows(ny, 0, n, 2, y)
  BY <1>3, Joined
<1> HIDE DEF xy, ny
<1>6. Len(u) = 5 /\ Follows(u, 3, xy, 2, z)
  BY <1>3, <1>4, Joined
<1>7. Len(v) = 4 /\ Follows(v, 2, ny, 2, z)
  BY <1>3, <1>5, Joined
<1> HIDE DEF u, v
<1>8. xy[1] = a /\ xy[2] = b /\ xy[3] = c /\ ny[1] = b /\ ny[2] = c
  BY <1>2, <1>4, <1>5 DEF Follows
<1>9. u[1] = a /\ u[2] = b /\ u[3] = c /\ u[4] = d /\ u[5] = e
  BY <1>2, <1>6, <1>8 DEF Follows
<1>10. v[1] = b /\ v[2] = c /\ v[3] = d /\ v[4] = e
  BY <1>2, <1>7, <1>8 DEF Follows
<1>11. Five(u, a, b, c, d, e) /\ Four(v, b, c, d, e)
  BY <1>6, <1>7, <1>9, <1>10, Zenon DEF Five, Four
<1> QED BY <1>11, Zenon DEF u, v, xy, ny, x, y, z, n

(* What the firmware needs before a channel may be set.                     *)
Calibrated(f) == ~eeprom_valid \/ Had(f, "EFUSE_BUFFER_MODE")

(* Position k of cmds is a command of kind e with the content it must have. *)
Sends(cmds, k, e) ==
    /\ k \in Nat /\ ~(k > Len(cmds))
    /\ \E b : /\ Built(cmds[k], e, b)
              /\ e = "EDCA_SET" => b = EdcaParams
              /\ e = "TX_POWER_CTRL" => b.bytes = PowerBytes

LEMMA SendOne ==
  ASSUME NEW f, NEW cmds, NEW k, NEW drop, NEW e, Sends(cmds, k, e), GoodFw(f),
         e = "CHANNEL_SWITCH" => Calibrated(f)
  PROVE  LET g == Send(f, cmds, k, drop)
         IN  GoodFw(g) /\ Had(g, e) /\ \A x : Had(f, x) => Had(g, x)
<1>1. PICK b : /\ Built(cmds[k], e, b)
               /\ e = "EDCA_SET" => b = EdcaParams
               /\ e = "TX_POWER_CTRL" => b.bytes = PowerBytes
  BY Zenon DEF Sends
<1>2. k \in Nat /\ ~(k > Len(cmds))
  BY Zenon DEF Sends
<1>3. e = "CHANNEL_SWITCH" => ~eeprom_valid \/ Had(f, "EFUSE_BUFFER_MODE")
  BY Zenon DEF Calibrated
<1> QED BY <1>1, <1>2, <1>3, SendKeeps, Zenon

LEMMA ChannelSends ==
  ASSUME NEW ch, NEW s
  PROVE  /\ Len(ChannelCmds(ch, s)) = 2
         /\ Sends(ChannelCmds(ch, s), 1, "CHANNEL_SWITCH")
         /\ Sends(ChannelCmds(ch, s), 2, "TX_POWER_CTRL")
<1> DEFINE a == BuildChannelSwitchCmd(ch, ch, 0, NextSeq(s), ChanBuf)
           b == BuildTxPowerCtrlCmd(eeprom, ch, NextSeq(NextSeq(s)), ChanBuf)
           cmds == ChannelCmds(ch, s)
<1>1. cmds = <<a, b>>
  BY Zenon DEF ChannelCmds
<1>2. /\ \E x : Built(a, "CHANNEL_SWITCH", x)
      /\ \E x : Built(b, "TX_POWER_CTRL", x) /\ x.bytes = PowerBytes
  BY CommandsBuilt, Zenon
<1> HIDE DEF a, b, cmds
<1>3. Len(cmds) = 2 /\ cmds[1] = a /\ cmds[2] = b
  BY <1>1
<1>4. 1 \in Nat /\ 2 \in Nat /\ ~(1 > 2) /\ ~(2 > 2)
  OBVIOUS
<1>5. "CHANNEL_SWITCH" # "EDCA_SET" /\ "CHANNEL_SWITCH" # "TX_POWER_CTRL"
      /\ "TX_POWER_CTRL" # "EDCA_SET"
  OBVIOUS
<1>6. Sends(cmds, 1, "CHANNEL_SWITCH") /\ Sends(cmds, 2, "TX_POWER_CTRL")
  BY <1>2, <1>3, <1>4, <1>5, Zenon DEF Sends
<1> QED BY <1>3, <1>6, Zenon DEF cmds

(* A channel change keeps what the firmware has.                            *)
LEMMA TuneSends ==
  ASSUME NEW f, NEW ch, NEW s, NEW drop, GoodFw(f), Calibrated(f)
  PROVE  LET g == SendAll(f, ChannelCmds(ch, s), drop)
         IN  GoodFw(g) /\ \A x : Had(f, x) => Had(g, x)
<1> DEFINE cmds == ChannelCmds(ch, s)
           f1 == Send(f, cmds, 1, drop)
           f2 == Send(f1, cmds, 2, drop)
           f3 == Send(f2, cmds, 3, drop)
           f4 == Send(f3, cmds, 4, drop)
           g == Send(f4, cmds, 5, drop)
<1>1. SendAll(f, ChannelCmds(ch, s), drop) = g
  BY Zenon DEF SendAll
<1>2. /\ Len(cmds) = 2 /\ Sends(cmds, 1, "CHANNEL_SWITCH") /\ Sends(cmds, 2, "TX_POWER_CTRL")
  BY ChannelSends, Zenon
<1> HIDE DEF cmds
<1>3. 3 > Len(cmds) /\ 4 > Len(cmds) /\ 5 > Len(cmds)
  BY <1>2
<1>4. GoodFw(f1) /\ \A x : Had(f, x) => Had(f1, x)
  BY <1>2, SendOne, Zenon
<1>5. "TX_POWER_CTRL" # "CHANNEL_SWITCH"
  OBVIOUS
<1> HIDE DEF f1
<1>6. GoodFw(f2) /\ \A x : Had(f1, x) => Had(f2, x)
  BY <1>2, <1>4, <1>5, SendOne, Zenon
<1> HIDE DEF f2
<1>7. f3 = f2
  BY <1>3, SendNone, Zenon
<1> HIDE DEF f3
<1>8. f4 = f3
  BY <1>3, SendNone, Zenon
<1> HIDE DEF f4
<1>9. g = f4
  BY <1>3, SendNone, Zenon
<1> HIDE DEF g
<1> QED BY <1>1, <1>4, <1>6, <1>7, <1>8, <1>9, Zenon

(* A start, from any state of the firmware: all commands, calibration first. *)
LEMMA StartSends ==
  ASSUME NEW f, NEW s, NEW drop, GoodFw(f), eeprom_valid \in BOOLEAN
  PROVE  LET g == SendAll(f, StartCmds(s), drop)
         IN  /\ GoodFw(g) /\ Calibrated(g)
             /\ \A x \in {"RADIO_ON_OFF", "EDCA_SET", "CHANNEL_SWITCH", "TX_POWER_CTRL"} :
                   Had(g, x)
<1> DEFINE r == IF eeprom_valid THEN NextSeq(s) ELSE s
           a == BuildEfuseBufferModeCmd(s, CmdBuf)
           b == BuildRadioOnOffCmd(TRUE, r, CmdBuf)
           c == BuildEdcaSetCmd(NextSeq(r), CmdBuf)
           d == BuildChannelSwitchCmd(1, 1, 0, NextSeq(NextSeq(r)), ChanBuf)
           e == BuildTxPowerCtrlCmd(eeprom, 1, NextSeq(NextSeq(NextSeq(r))), ChanBuf)
           cmds == StartCmds(s)
           f1 == Send(f, cmds, 1, drop)
           f2 == Send(f1, cmds, 2, drop)
           f3 == Send(f2, cmds, 3, drop)
           f4 == Send(f3, cmds, 4, drop)
           g == Send(f4, cmds, 5, drop)
<1>1. SendAll(f, StartCmds(s), drop) = g
  BY Zenon DEF SendAll
<1>2. /\ \E x : Built(a, "EFUSE_BUFFER_MODE", x)
      /\ \E x : Built(b, "RADIO_ON_OFF", x)
      /\ Built(c, "EDCA_SET", EdcaParams)
      /\ \E x : Built(d, "CHANNEL_SWITCH", x)
      /\ \E x : Built(e, "TX_POWER_CTRL", x) /\ x.bytes = PowerBytes
  BY CommandsBuilt, Zenon
<1>3. cmds = ((IF eeprom_valid THEN <<a>> ELSE <<>>) \o <<b, c>>) \o <<d, e>>
  BY Zenon DEF StartCmds, ChannelCmds
<1>4. /\ 1 \in Nat /\ 2 \in Nat /\ 3 \in Nat /\ 4 \in Nat /\ 5 \in Nat /\ 5 > 4
      /\ ~(1 > 4) /\ ~(2 > 4) /\ ~(3 > 4) /\ ~(4 > 4)
      /\ ~(1 > 5) /\ ~(2 > 5) /\ ~(3 > 5) /\ ~(4 > 5) /\ ~(5 > 5)
  OBVIOUS
<1> HIDE DEF a, b, c, d, e, cmds, r
<1>7. /\ "EFUSE_BUFFER_MODE" # "CHANNEL_SWITCH" /\ "RADIO_ON_OFF" # "CHANNEL_SWITCH"
      /\ "EDCA_SET" # "CHANNEL_SWITCH" /\ "TX_POWER_CTRL" # "CHANNEL_SWITCH"
  OBVIOUS
<1>5. CASE eeprom_valid
  <2>1. /\ Len(cmds) = 5 /\ cmds[1] = a /\ cmds[2] = b /\ cmds[3] = c /\ cmds[4] = d
        /\ cmds[5] = e
    <3>1. cmds = (<<a>> \o <<b, c>>) \o <<d, e>>
      BY <1>3, <1>5, Zenon
    <3>2. Five(cmds, a, b, c, d, e)
      BY <3>1, FiveOf, Zenon
    <3> QED BY <3>2, Zenon DEF Five
  <2>2. /\ Sends(cmds, 1, "EFUSE_BUFFER_MODE") /\ Sends(cmds, 2, "RADIO_ON_OFF")
        /\ Sends(cmds, 3, "EDCA_SET") /\ Sends(cmds, 4, "CHANNEL_SWITCH")
        /\ Sends(cmds, 5, "TX_POWER_CTRL")
    BY <1>2, <1>4, <2>1, Zenon DEF Sends
  <2>3. GoodFw(f1) /\ Had(f1, "EFUSE_BUFFER_MODE")
    BY <2>2, <1>7, SendOne, Zenon
  <2> HIDE DEF f1
  <2>4. GoodFw(f2) /\ Had(f2, "RADIO_ON_OFF") /\ \A x : Had(f1, x) => Had(f2, x)
    BY <2>2, <2>3, <1>7, SendOne, Zenon
  <2> HIDE DEF f2
  <2>5. GoodFw(f3) /\ Had(f3, "EDCA_SET") /\ \A x : Had(f2, x) => Had(f3, x)
    BY <2>2, <2>4, <1>7, SendOne, Zenon
  <2> HIDE DEF f3
  <2>6. Calibrated(f3)
    BY <2>3, <2>4, <2>5, Zenon DEF Calibrated
  <2>7. GoodFw(f4) /\ Had(f4, "CHANNEL_SWITCH") /\ \A x : Had(f3, x) => Had(f4, x)
    BY <2>2, <2>5, <2>6, <1>7, SendOne, Zenon
  <2> HIDE DEF f4
  <2>8. GoodFw(g) /\ Had(g, "TX_POWER_CTRL") /\ \A x : Had(f4, x) => Had(g, x)
    BY <2>2, <2>7, <1>7, SendOne, Zenon
  <2> HIDE DEF g
  <2>9. /\ Calibrated(g) /\ Had(g, "RADIO_ON_OFF") /\ Had(g, "EDCA_SET")
        /\ Had(g, "CHANNEL_SWITCH")
    BY <2>3, <2>4, <2>5, <2>7, <2>8, Zenon DEF Calibrated
  <2> QED BY <1>1, <2>8, <2>9, Zenon
<1>6. CASE ~eeprom_valid
  <2>1. Len(cmds) = 4 /\ cmds[1] = b /\ cmds[2] = c /\ cmds[3] = d /\ cmds[4] = e
    <3>1. cmds = (<<>> \o <<b, c>>) \o <<d, e>>
      BY <1>3, <1>6, Zenon
    <3>2. Four(cmds, b, c, d, e)
      BY <3>1, FiveOf, Zenon
    <3> QED BY <3>2, Zenon DEF Four
  <2>2. /\ Sends(cmds, 1, "RADIO_ON_OFF") /\ Sends(cmds, 2, "EDCA_SET")
        /\ Sends(cmds, 3, "CHANNEL_SWITCH") /\ Sends(cmds, 4, "TX_POWER_CTRL")
    BY <1>2, <1>4, <2>1, Zenon DEF Sends
  <2>3. GoodFw(f1) /\ Had(f1, "RADIO_ON_OFF")
    BY <2>2, <1>7, SendOne, Zenon
  <2> HIDE DEF f1
  <2>4. GoodFw(f2) /\ Had(f2, "EDCA_SET") /\ \A x : Had(f1, x) => Had(f2, x)
    BY <2>2, <2>3, <1>7, SendOne, Zenon
  <2> HIDE DEF f2
  <2>5. Calibrated(f2) /\ Calibrated(g)
    BY <1>6, Zenon DEF Calibrated
  <2>6. GoodFw(f3) /\ Had(f3, "CHANNEL_SWITCH") /\ \A x : Had(f2, x) => Had(f3, x)
    BY <2>2, <2>4, <2>5, <1>7, SendOne, Zenon
  <2> HIDE DEF f3
  <2>7. GoodFw(f4) /\ Had(f4, "TX_POWER_CTRL") /\ \A x : Had(f3, x) => Had(f4, x)
    BY <2>2, <2>6, <1>7, SendOne, Zenon
  <2> HIDE DEF f4
  <2>8. g = f4
    BY <1>4, <2>1, SendNone, Zenon
  <2> HIDE DEF g
  <2>9. Had(g, "RADIO_ON_OFF") /\ Had(g, "EDCA_SET") /\ Had(g, "CHANNEL_SWITCH")
    BY <2>3, <2>4, <2>6, <2>7, <2>8, Zenon
  <2> QED BY <1>1, <2>5, <2>7, <2>8, <2>9, Zenon
<1> QED BY <1>5, <1>6, Zenon

-----------------------------------------------------------------------------
(* The inductive invariant.                                                 *)

(* The registers: a sequence that was not cut short is in force, and the    *)
(* scheduler runs only on whole tables. Before the first start only probe   *)
(* has written.                                                             *)
RegInv ==
    /\ DOMAIN reg = UsedRegs /\ SchedOk(reg)
    /\ "init" \in done => InForce(reg, MacInitSequence)
    /\ "own" \in done => InForce(reg, OwnMacSequence(mac_addr))
    /\ pc \notin {"idle", "up"} => done \subseteq {"init"}

(* The download: what the ROM still misses is what the loop has left.       *)
DlInv ==
    /\ pc # "failed" /\ DOMAIN rom = {"missing", "entered"}
    /\ dl \in [len : Nat, offset : Nat, seq : Nat]
    /\ pc = "download" => rom.entered = FALSE
    /\ pc = "scatter" => /\ dl.offset <= dl.len /\ rom.missing = dl.len - dl.offset
                         /\ rom.entered = FALSE
    /\ pc \notin {"download", "scatter"} => rom.missing = 0 /\ rom.entered = TRUE

(* The image: a byte is the eFuse's, or still erased where the read has not *)
(* been.                                                                    *)
ImageOk ==
    \A a \in Image : \/ eeprom[a] = FuseImage(a)
                     \/ eeprom[a] = 255 /\ a \div 16 >= block

EfuseStage ==
    /\ eeprom_valid = TRUE => block = NumBlocks
    /\ pc = "efuse" => block < NumBlocks /\ eeprom_valid = FALSE
    /\ pc \in {"download", "scatter", "mac_init"} => block = 0 /\ eeprom_valid = FALSE

(* The firmware: whatever start left out is left out because it was lost.   *)
FwInv ==
    /\ GoodFw(fw)
    /\ pc = "up" => /\ Calibrated(fw)
                    /\ \A x \in {"RADIO_ON_OFF", "EDCA_SET", "CHANNEL_SWITCH", "TX_POWER_CTRL"} :
                          Had(fw, x)
    /\ pc \notin {"idle", "up"} => fw = NoFw

BringInv == TypeOK /\ RegInv /\ DlInv /\ ImageOk /\ EfuseStage /\ FwInv /\ MacUsable

Stages == {"download", "scatter", "mac_init", "efuse", "parse", "idle", "up"}

(* What a step that leaves a part of the state alone keeps.                 *)
LEMMA FuseSame ==
  ASSUME NEW a, fuse' = fuse
  PROVE  FuseImage(a)' = FuseImage(a) /\ FuseByte(a)' = FuseByte(a)
BY DEF FuseImage, FuseByte

LEMMA KeepReg ==
  ASSUME RegInv, UNCHANGED <<reg, done, mac_addr>>,
         pc' \notin {"idle", "up"} => pc \notin {"idle", "up"}
  PROVE  RegInv'
BY Zenon DEF RegInv

LEMMA KeepDl ==
  ASSUME DlInv, UNCHANGED <<dl, rom>>, pc \notin {"download", "scatter"},
         pc' \notin {"download", "scatter", "failed"}
  PROVE  DlInv'
<1>1. pc' # "download" /\ pc' # "scatter" /\ pc' # "failed"
  OBVIOUS
<1> QED BY <1>1, Zenon DEF DlInv

LEMMA KeepImage ==
  ASSUME ImageOk, UNCHANGED <<fuse, eeprom, block>>
  PROVE  ImageOk'
<1>1. \A a : FuseImage(a)' = FuseImage(a)
  BY FuseSame, Zenon
<1> QED BY <1>1 DEF ImageOk

LEMMA KeepStage ==
  ASSUME EfuseStage, UNCHANGED <<eeprom_valid, block>>, pc' # "efuse",
         pc' \in {"download", "scatter", "mac_init"} => pc \in {"download", "scatter", "mac_init"}
  PROVE  EfuseStage'
BY Zenon DEF EfuseStage

LEMMA KeepFw ==
  ASSUME FwInv, UNCHANGED <<fw, eeprom, eeprom_valid>>,
         pc' = "up" => pc = "up", pc' \notin {"idle", "up"} => pc \notin {"idle", "up"}
  PROVE  FwInv'
<1>1. GoodFw(fw)'
  BY Zenon DEF FwInv, GoodFw, PowerBytes
<1>2. Calibrated(fw)' <=> Calibrated(fw)
  BY Zenon DEF Calibrated, Had
<1>3. \A x : Had(fw, x)' <=> Had(fw, x)
  BY Zenon DEF Had
<1> QED BY <1>1, <1>2, <1>3, Zenon DEF FwInv

LEMMA KeepMac ==
  ASSUME MacUsable, UNCHANGED <<fuse, eeprom_valid, mac_addr, rssi_offset_2g>>,
         pc' \in {"idle", "up"} => pc \in {"idle", "up"}
  PROVE  MacUsable'
<1>1. \A a : FuseImage(a)' = FuseImage(a)
  BY FuseSame, Zenon
<1> QED BY <1>1 DEF MacUsable

-----------------------------------------------------------------------------
(* The download.                                                            *)

LEMMA FrameSent ==
  ASSUME NEW r, NEW frame, NEW next, frame.err = 0, DownloadFrame(r, frame, next)
  PROVE  pc' = next /\ rom' = RomTake(r, frame.cmd)
<1> DEFINE x == RustDownloadFrame(frame, 0)
           w == IF frame.err = 0 THEN frame.cmd.len ELSE 0
<1>1. x = [ret |-> frame.err, written |-> w]
  BY Zenon DEF RustDownloadFrame
<1> HIDE DEF x, w
<1>2. ~(x.ret # 0)
  BY <1>1
<1> QED BY <1>2, Zenon DEF DownloadFrame, x

(* A step of the download keeps everything but its own variables.           *)
LEMMA DownloadKeeps ==
  ASSUME BringInv, pc \in {"download", "scatter"}, pc' \in {"scatter", "mac_init"}, DlInv',
         UNCHANGED <<fuse, block, eeprom, eeprom_valid, mac_addr, rssi_offset_2g, cmd_seq, reg,
                     fw, done, faults>>
  PROVE  BringInv'
<1>1. /\ pc \notin {"idle", "up"} /\ pc' \notin {"idle", "up"} /\ pc' # "efuse" /\ pc' # "up"
      /\ pc \in {"download", "scatter", "mac_init"}
      /\ pc' \in {"download", "scatter", "failed", "mac_init", "efuse", "parse", "idle", "up"}
  OBVIOUS
<1>2. TypeOK'
  BY <1>1, Zenon DEF BringInv, TypeOK
<1>3. RegInv'
  BY <1>1, KeepReg, Zenon DEF BringInv
<1>4. ImageOk'
  BY KeepImage, Zenon DEF BringInv
<1>5. EfuseStage'
  BY <1>1, KeepStage, Zenon DEF BringInv
<1>6. FwInv'
  BY <1>1, KeepFw, Zenon DEF BringInv
<1>7. MacUsable'
  BY <1>1, KeepMac, Zenon DEF BringInv
<1> QED BY <1>2, <1>3, <1>4, <1>5, <1>6, <1>7, Zenon DEF BringInv

LEMMA BeginKeeps == BringInv /\ DownloadBegin => BringInv'
<1> SUFFICES ASSUME BringInv, DownloadBegin PROVE BringInv'
  OBVIOUS
<1> DEFINE restart == BuildRestartDlReq(1, DlBuf)
<1>1. PICK dl_len \in DlLens, was_running \in BOOLEAN :
         LET s == IF was_running THEN 2 ELSE 1
         IN  /\ DownloadFrame(IF was_running /\ restart.err = 0 THEN RomTake(rom, restart.cmd)
                              ELSE rom,
                              BuildAddrLenReq(MT7603_FW_CODE_START_ADDRESS1, dl_len, s, DlBuf),
                              "scatter")
             /\ dl' = [len |-> dl_len, offset |-> 0, seq |-> s]
  BY Zenon DEF DownloadBegin
<1>2. RomTake(rom, restart.cmd) = rom
  BY RestartFrame, Zenon
<1> DEFINE s == IF was_running THEN 2 ELSE 1
           f == BuildAddrLenReq(MT7603_FW_CODE_START_ADDRESS1, dl_len, s, DlBuf)
<1>3. DownloadFrame(rom, f, "scatter") /\ dl' = [len |-> dl_len, offset |-> 0, seq |-> s]
  BY <1>1, <1>2, Zenon
<1>4. f.err = 0 /\ RomTake(rom, f.cmd) = [rom EXCEPT !.missing = dl_len]
  BY AddrLenFrame, Zenon
<1>5. dl_len \in Nat /\ s \in Nat
  BY FusesAssumption
<1> HIDE DEF s, f, restart
<1>6. pc' = "scatter" /\ rom' = [rom EXCEPT !.missing = dl_len]
  BY <1>3, <1>4, FrameSent, Zenon
<1>7. pc = "download" /\ DOMAIN rom = {"missing", "entered"} /\ rom.entered = FALSE
  BY Zenon DEF DownloadBegin, BringInv, DlInv
<1>8. DOMAIN rom' = {"missing", "entered"} /\ rom'.missing = dl_len /\ rom'.entered = rom.entered
  BY <1>6, <1>7
<1>9. /\ dl' \in [len : Nat, offset : Nat, seq : Nat] /\ dl'.offset <= dl'.len
      /\ rom'.missing = dl'.len - dl'.offset
  BY <1>3, <1>5, <1>8
<1>10. pc' # "failed" /\ pc' # "download"
  BY <1>6
<1>11. DlInv'
  BY <1>6, <1>7, <1>8, <1>9, <1>10, Zenon DEF DlInv
<1> QED BY <1>6, <1>7, <1>11, DownloadKeeps, Zenon DEF DownloadBegin

LEMMA ScatterKeeps == BringInv /\ DownloadScatter => BringInv'
<1> SUFFICES ASSUME BringInv, DownloadScatter PROVE BringInv'
  OBVIOUS
<1> DEFINE left == dl.len - dl.offset
           chunk_len == IF left > FW_SCATTER_MAX_PAYLOAD THEN FW_SCATTER_MAX_PAYLOAD ELSE left
           f == BuildFwScatterFrame(chunk_len, DlBuf)
<1>1. /\ pc = "scatter" /\ dl.offset < dl.len
      /\ DownloadFrame(rom, f, "scatter")
      /\ dl' = [dl EXCEPT !.offset = @ + chunk_len]
  BY DEF DownloadScatter
<1>2. /\ DOMAIN rom = {"missing", "entered"} /\ rom.entered = FALSE
      /\ dl \in [len : Nat, offset : Nat, seq : Nat]
      /\ rom.missing = dl.len - dl.offset
  BY <1>1, Zenon DEF BringInv, DlInv
<1>3. /\ chunk_len \in Nat /\ chunk_len <= FW_SCATTER_MAX_PAYLOAD
      /\ dl.offset + chunk_len <= dl.len
  BY <1>1, <1>2, BufferSizes
<1> HIDE DEF chunk_len, left
<1>4. f.err = 0 /\ RomTake(rom, f.cmd) = [rom EXCEPT !.missing = rom.missing - chunk_len]
  BY <1>3, ScatterFrame, Zenon
<1> HIDE DEF f
<1>5. pc' = "scatter" /\ rom' = RomTake(rom, f.cmd)
  BY <1>1, <1>4, FrameSent, Zenon
<1>6. /\ DOMAIN rom' = {"missing", "entered"} /\ rom'.missing = rom.missing - chunk_len
      /\ rom'.entered = rom.entered
  BY <1>2, <1>4, <1>5
<1>7. /\ dl' \in [len : Nat, offset : Nat, seq : Nat] /\ dl'.offset <= dl'.len
      /\ rom'.missing = dl'.len - dl'.offset
  BY <1>1, <1>2, <1>3, <1>6
<1>8. pc' # "failed" /\ pc' # "download"
  BY <1>5
<1>9. DlInv'
  BY <1>2, <1>5, <1>6, <1>7, <1>8, Zenon DEF DlInv
<1> QED BY <1>1, <1>5, <1>9, DownloadKeeps, Zenon DEF DownloadScatter

LEMMA EntryKeeps == BringInv /\ DownloadStart => BringInv'
<1> SUFFICES ASSUME BringInv, DownloadStart PROVE BringInv'
  OBVIOUS
<1> DEFINE f == BuildFwStartReq(1, MT7603_FW_CODE_START_ADDRESS1, dl.seq + 1, DlBuf)
<1>1. /\ pc = "scatter" /\ dl.offset >= dl.len /\ DownloadFrame(rom, f, "mac_init")
      /\ dl' = NoDl
  BY Zenon DEF DownloadStart
<1>2. /\ DOMAIN rom = {"missing", "entered"}
      /\ dl \in [len : Nat, offset : Nat, seq : Nat] /\ dl.offset <= dl.len
      /\ rom.missing = dl.len - dl.offset
  BY <1>1, Zenon DEF BringInv, DlInv
<1>3. f.err = 0 /\ RomTake(rom, f.cmd) = [rom EXCEPT !.entered = TRUE]
  BY StartFrame, Zenon
<1> HIDE DEF f
<1>4. pc' = "mac_init" /\ rom' = RomTake(rom, f.cmd)
  BY <1>1, <1>3, FrameSent, Zenon
<1>5. /\ DOMAIN rom' = {"missing", "entered"} /\ rom'.missing = rom.missing
      /\ rom'.entered = TRUE
  BY <1>2, <1>3, <1>4
<1>6. rom'.missing = 0 /\ dl' \in [len : Nat, offset : Nat, seq : Nat]
  BY <1>1, <1>2, <1>5 DEF NoDl
<1>7. pc' # "failed" /\ pc' # "download" /\ pc' # "scatter"
  BY <1>4
<1>8. DlInv'
  BY <1>5, <1>6, <1>7, Zenon DEF DlInv
<1> QED BY <1>1, <1>4, <1>8, DownloadKeeps, Zenon DEF DownloadStart

-----------------------------------------------------------------------------
(* MAC initialisation, eFuse and registration.                              *)

LEMMA InitOps == BuildMacInitSequence(128).ops = MacInitSequence
<1>1. ~(128 < Len(MacInitSequence))
  BY InitLayout
<1>2. BuildMacInitSequence(128) = [err |-> 0, ops |-> MacInitSequence]
  BY <1>1 DEF BuildMacInitSequence
<1> QED BY <1>2

LEMMA FaultsCounted ==
  ASSUME faults \in 0..MaxFaults, NEW n \in Nat, Fail(n)
  PROVE  faults' \in 0..MaxFaults
BY FusesAssumption DEF Fail

LEMMA OneIsSmall ==
  ASSUME NEW b \in BOOLEAN
  PROVE  One(b) \in {0, 1}
BY DEF One

LEMMA ProbeMacInitKeeps == BringInv /\ ProbeMacInit => BringInv'
<1> SUFFICES ASSUME BringInv, ProbeMacInit PROVE BringInv'
  OBVIOUS
<1>1. PICK n \in 0..67 :
         /\ reg' = Execute(reg, MacInitSequence, n)
         /\ done' = {x \in {"init"} : n = 67}
         /\ Fail(One(n < 67))
  <2>1. Len(MacInitSequence) = 67
    BY InitLayout
  <2> QED BY <2>1, InitOps DEF ProbeMacInit
<1>2. /\ pc = "mac_init" /\ pc' = "efuse"
      /\ UNCHANGED <<dl, rom, fuse, block, eeprom, eeprom_valid, mac_addr, rssi_offset_2g,
                     cmd_seq, fw>>
  BY Zenon DEF ProbeMacInit
<1>3. /\ pc \notin {"idle", "up"} /\ pc' \notin {"idle", "up"} /\ pc' # "up"
      /\ pc \notin {"download", "scatter"} /\ pc' \notin {"download", "scatter", "failed"}
      /\ pc' \notin {"download", "scatter", "mac_init"}
      /\ pc \in {"download", "scatter", "mac_init"}
      /\ pc' \in {"download", "scatter", "failed", "mac_init", "efuse", "parse", "idle", "up"}
  BY <1>2
<1>4. RegInv'
  <2>1. DOMAIN reg = UsedRegs /\ SchedOk(reg)
    BY Zenon DEF BringInv, RegInv
  <2>2. DOMAIN reg' = UsedRegs /\ SchedOk(reg') /\ (n = 67 => InForce(reg', MacInitSequence))
    <3> DEFINE y == Execute(reg, MacInitSequence, n)
    <3>1. /\ DOMAIN y = UsedRegs
          /\ SchedOk(reg) => SchedOk(y)
          /\ n = 67 => InForce(y, MacInitSequence)
      BY <2>1, InitRun
    <3> HIDE DEF y
    <3>2. reg' = y
      BY <1>1, Zenon DEF y
    <3> QED BY <2>1, <3>1, <3>2, Zenon
  <2>3. done' \subseteq {"init"} /\ ("init" \in done' => n = 67) /\ "own" \notin done'
    BY <1>1
  <2> QED BY <2>2, <2>3, Zenon DEF RegInv
<1>5. TypeOK'
  <2>1. faults' \in 0..MaxFaults
    <3>1. One(n < 67) \in Nat
      BY DEF One
    <3> QED BY <1>1, <3>1, FaultsCounted, Zenon DEF BringInv, TypeOK
  <2>2. done' \subseteq {"init", "own"}
    BY <1>1
  <2>3. DOMAIN reg' = UsedRegs
    BY <1>4, Zenon DEF RegInv
  <2> QED BY <1>2, <1>3, <2>1, <2>2, <2>3, Zenon DEF BringInv, TypeOK
<1>6. DlInv'
  BY <1>2, <1>3, KeepDl, Zenon DEF BringInv
<1>7. ImageOk'
  BY <1>2, KeepImage, Zenon DEF BringInv
<1>8. EfuseStage'
  <2>1. block = 0 /\ eeprom_valid = FALSE
    BY <1>3, Zenon DEF BringInv, EfuseStage
  <2>2. block' < NumBlocks
    BY <1>2, <2>1, FusesAssumption
  <2>3. eeprom_valid' = FALSE
    BY <1>2, <2>1, Zenon
  <2> QED BY <1>3, <2>2, <2>3, Zenon DEF EfuseStage
<1>9. FwInv'
  BY <1>2, <1>3, KeepFw, Zenon DEF BringInv
<1>10. MacUsable'
  BY <1>2, <1>3, KeepMac, Zenon DEF BringInv
<1> QED BY <1>4, <1>5, <1>6, <1>7, <1>8, <1>9, <1>10, Zenon DEF BringInv

(* The bytes of the eFuse.                                                  *)
LEMMA FuseBytes ==
  ASSUME fuse \in Fuses, NEW a \in Image
  PROVE  /\ FuseByte(a) \in Nat /\ FuseImage(a) \in Nat
         /\ a \in 4..9 => FuseImage(a) \in 0..255
         /\ a = 70 => FuseImage(a) \in 0..255
<1>1. fuse.mac \in [1..6 -> 0..255] /\ fuse.rssi \in -128..127
  BY FusesAssumption
<1>2. a \in Nat
  BY FusesAssumption DEF Image
<1>3. CASE a \in 4..9
  <2>1. FuseByte(a) = fuse.mac[a - 3]
    BY <1>3 DEF FuseByte
  <2>2. fuse.mac[a - 3] \in 0..255
    BY <1>1, <1>3
  <2> QED BY <2>1, <2>2 DEF FuseImage
<1>4. CASE a = 70
  <2>1. FuseByte(a) = fuse.rssi % 256
    BY <1>4 DEF FuseByte
  <2>2. fuse.rssi % 256 \in 0..255
    BY <1>1
  <2> QED BY <2>1, <2>2 DEF FuseImage
<1>5. CASE a \notin 4..9 /\ a # 70
  <2>1. FuseByte(a) = 1000 + a
    BY <1>5 DEF FuseByte
  <2> QED BY <1>2, <1>5, <2>1 DEF FuseImage
<1> QED BY <1>3, <1>4, <1>5

(* A block, or the first words of one, put into the image.                  *)
LEMMA BlockRead ==
  ASSUME TypeOK, ImageOk, NEW w \in 0..4, NEW a \in Image
  PROVE  LET y == BlockBytes(block, w)
         IN  /\ DOMAIN y = Image /\ y[a] \in Nat
             /\ \/ y[a] = FuseImage(a)
                \/ y[a] = 255 /\ a \div 16 >= block
             /\ w = 4 => \/ y[a] = FuseImage(a)
                         \/ y[a] = 255 /\ a \div 16 >= block + 1
<1> DEFINE y == BlockBytes(block, w)
<1>1. /\ fuse \in Fuses /\ block \in Nat /\ eeprom[a] \in Nat
      /\ \/ eeprom[a] = FuseImage(a)
         \/ eeprom[a] = 255 /\ a \div 16 >= block
  BY FusesAssumption DEF TypeOK, ImageOk
<1>2. a \in Nat /\ a \div 16 \in Nat /\ a % 16 < 16
  BY FusesAssumption DEF Image
<1>3. DOMAIN y = Image
  BY DEF BlockBytes
<1>4. y[a] = IF a \div 16 = block /\ a % 16 < 4 * w
             THEN IF block \in fuse.valid THEN FuseByte(a) ELSE 255
             ELSE eeprom[a]
  BY DEF BlockBytes
<1> HIDE DEF y
<1>5. CASE a \div 16 = block /\ a % 16 < 4 * w
  <2>1. y[a] = FuseImage(a)
    BY <1>4, <1>5 DEF FuseImage
  <2> QED BY <1>1, <1>3, <2>1, FuseBytes DEF y
<1>6. CASE ~(a \div 16 = block /\ a % 16 < 4 * w)
  <2>1. y[a] = eeprom[a]
    BY <1>4, <1>6
  <2>2. w = 4 => a \div 16 # block
    BY <1>2, <1>6
  <2> QED BY <1>1, <1>2, <1>3, <2>1, <2>2 DEF y
<1> QED BY <1>5, <1>6

LEMMA ReadEfuseKeeps == BringInv /\ ReadEfuse => BringInv'
<1> SUFFICES ASSUME BringInv, ReadEfuse PROVE BringInv'
  OBVIOUS
<1>1. /\ pc = "efuse"
      /\ UNCHANGED <<dl, rom, fuse, mac_addr, rssi_offset_2g, cmd_seq, reg, fw, done>>
  BY Zenon DEF ReadEfuse
<1>2. TypeOK /\ ImageOk /\ EfuseStage /\ block < NumBlocks /\ eeprom_valid = FALSE
  BY <1>1, Zenon DEF BringInv, EfuseStage
<1>3. block \in Nat /\ NumBlocks \in Nat
  BY <1>2, FusesAssumption DEF TypeOK
<1>4. /\ pc' \in {"parse", "efuse"} /\ block' \in 0..NumBlocks /\ faults' \in 0..MaxFaults
      /\ eeprom_valid' \in BOOLEAN /\ EfuseStage'
      /\ DOMAIN eeprom' = Image /\ \A a \in Image : eeprom'[a] \in Nat
      /\ ImageOk'
  <2>1. CASE /\ block = 0 /\ fuse.empty /\ pc' = "parse"
             /\ UNCHANGED <<block, eeprom, eeprom_valid, faults>>
    <3>1. ImageOk'
      BY <1>1, <1>2, <2>1, KeepImage, Zenon
    <3>2. pc' # "efuse" /\ pc' \notin {"download", "scatter", "mac_init"}
      BY <2>1
    <3>3. EfuseStage'
      BY <1>2, <2>1, <3>2, KeepStage, Zenon
    <3> QED BY <1>2, <2>1, <3>1, <3>3, Zenon DEF TypeOK
  <2>2. CASE \E words \in 0..3 :
                /\ words > 0 => block \in fuse.valid
                /\ eeprom' = BlockBytes(block, words)
                /\ Fail(1) /\ pc' = "parse"
                /\ UNCHANGED <<block, eeprom_valid>>
    <3>1. PICK w \in 0..3 : /\ eeprom' = BlockBytes(block, w)
                            /\ Fail(1) /\ pc' = "parse"
                            /\ UNCHANGED <<block, eeprom_valid>>
      BY <2>2, Zenon
    <3>2. pc' # "efuse" /\ pc' \notin {"download", "scatter", "mac_init"} /\ w \in 0..4
          /\ 1 \in Nat
      BY <3>1
    <3>3. EfuseStage'
      BY <1>2, <3>1, <3>2, KeepStage, Zenon
    <3>4. faults' \in 0..MaxFaults
      BY <1>2, <3>1, <3>2, FaultsCounted, Zenon DEF TypeOK
    <3>5. ASSUME NEW a \in Image
          PROVE  /\ DOMAIN eeprom' = Image /\ eeprom'[a] \in Nat
                 /\ \/ eeprom'[a] = FuseImage(a)
                    \/ eeprom'[a] = 255 /\ a \div 16 >= block
      BY <1>2, <3>1, <3>2, BlockRead
    <3>6. DOMAIN eeprom' = Image
      BY <3>1, Zenon DEF BlockBytes
    <3>7. \A a : FuseImage(a)' = FuseImage(a)
      BY <1>1, FuseSame, Zenon
    <3>8. ImageOk'
      BY <3>1, <3>5, <3>7 DEF ImageOk
    <3> QED BY <1>2, <3>1, <3>3, <3>4, <3>5, <3>6, <3>8, Zenon DEF TypeOK
  <2>3. CASE /\ ~fuse.empty
             /\ eeprom' = BlockBytes(block, 4)
             /\ block' = block + 1
             /\ eeprom_valid' = (block' = NumBlocks)
             /\ pc' = (IF block' = NumBlocks THEN "parse" ELSE "efuse")
             /\ UNCHANGED faults
    <3>1. block' \in 0..NumBlocks /\ (block' # NumBlocks => block' < NumBlocks)
      BY <1>2, <1>3, <2>3
    <3>2. pc' \in {"parse", "efuse"} /\ (pc' = "efuse" => block' # NumBlocks)
      BY <2>3
    <3>3. eeprom_valid' \in BOOLEAN
      BY <2>3, Zenon
    <3>4. (eeprom_valid' = TRUE => block' = NumBlocks)
          /\ (block' # NumBlocks => eeprom_valid' = FALSE)
      BY <2>3, Zenon
    <3>5. pc' \notin {"download", "scatter", "mac_init"}
      BY <3>2
    <3>6. EfuseStage'
      BY <3>1, <3>2, <3>4, <3>5, Zenon DEF EfuseStage
    <3>7. ASSUME NEW a \in Image
          PROVE  /\ DOMAIN eeprom' = Image /\ eeprom'[a] \in Nat
                 /\ \/ eeprom'[a] = FuseImage(a)
                    \/ eeprom'[a] = 255 /\ a \div 16 >= block'
      <4>1. 4 \in 0..4
        OBVIOUS
      <4> QED BY <1>2, <2>3, <4>1, BlockRead
    <3>8. DOMAIN eeprom' = Image
      BY <2>3, Zenon DEF BlockBytes
    <3>9. \A a : FuseImage(a)' = FuseImage(a)
      BY <1>1, FuseSame, Zenon
    <3>10. ImageOk'
      BY <3>7, <3>9 DEF ImageOk
    <3> QED BY <1>2, <2>3, <3>1, <3>2, <3>3, <3>6, <3>7, <3>8, <3>10, Zenon DEF TypeOK
  <2> QED BY <2>1, <2>2, <2>3, Zenon DEF ReadEfuse
<1>5. /\ pc \notin {"idle", "up"} /\ pc' \notin {"idle", "up"} /\ pc' # "up"
      /\ pc \notin {"download", "scatter"} /\ pc' \notin {"download", "scatter", "failed"}
      /\ pc' \in {"download", "scatter", "failed", "mac_init", "efuse", "parse", "idle", "up"}
  BY <1>1, <1>4
<1>6. TypeOK'
  BY <1>1, <1>2, <1>4, <1>5, Zenon DEF TypeOK
<1>7. RegInv'
  BY <1>1, <1>5, KeepReg, Zenon DEF BringInv
<1>8. DlInv'
  BY <1>1, <1>5, KeepDl, Zenon DEF BringInv
<1>9. FwInv'
  <2>1. fw' = NoFw
    BY <1>1, <1>5, Zenon DEF BringInv, FwInv
  <2>2. DOMAIN NoFw = FwFields /\ NoFw.edca = <<>> /\ NoFw.power = <<>>
    BY DEF NoFw, FwFields
  <2>3. NoFw.tuned_uncalibrated = FALSE
    BY DEF NoFw
  <2>4. GoodFw(fw)'
    BY <2>1, <2>2, <2>3, Zenon DEF GoodFw
  <2> QED BY <1>5, <2>1, <2>4, Zenon DEF FwInv
<1>10. MacUsable'
  BY <1>5, Zenon DEF MacUsable
<1> QED BY <1>4, <1>6, <1>7, <1>8, <1>9, <1>10, Zenon DEF BringInv

LEMMA RegisterKeeps == BringInv /\ Register => BringInv'
<1> SUFFICES ASSUME BringInv, Register PROVE BringInv'
  OBVIOUS
<1> DEFINE dummy == [a \in Image |-> IF a \in 4..9 THEN FallbackMac[a - 3] ELSE 255]
           image == IF eeprom_valid THEN eeprom ELSE dummy
           data  == ParseEeprom(image)
<1>1. /\ pc = "parse" /\ pc' = "idle"
      /\ mac_addr' = data.mac_addr
      /\ rssi_offset_2g' = IF eeprom_valid THEN data.rssi_offset_2g ELSE 0
      /\ UNCHANGED <<dl, rom, fuse, block, eeprom, eeprom_valid, cmd_seq, reg, fw, done, faults>>
  BY Zenon DEF Register
<1>2. /\ pc \notin {"idle", "up"} /\ pc' # "up" /\ pc' # "efuse"
      /\ pc \notin {"download", "scatter"} /\ pc' \notin {"download", "scatter", "failed"}
      /\ pc' \notin {"download", "scatter", "mac_init"} /\ pc' \in {"idle", "up"}
      /\ pc' \in {"download", "scatter", "failed", "mac_init", "efuse", "parse", "idle", "up"}
  BY <1>1
<1> DEFINE mac == [k \in 1..6 |-> image[k + 3]]
           rssi == Signed8(image[70])
           m == IF mac \in {Zeros, Ones} THEN FallbackMac ELSE mac
           o == IF rssi \in -10..10 THEN rssi ELSE 0
<1>3. data = [mac_addr |-> m, rssi_offset_2g |-> o]
  BY DEF ParseEeprom
<1>4. data.mac_addr = m /\ data.rssi_offset_2g = o
  <2> HIDE DEF data, m, o
  <2> QED BY <1>3
<1>5. \A k \in 1..6 : k + 3 \in 4..9 /\ k + 3 \in Image /\ (k + 3) - 3 = k
  BY FusesAssumption DEF Image
<1>6. 70 \in Image
  BY FusesAssumption DEF Image
<1>7. TypeOK /\ ImageOk /\ EfuseStage
  BY Zenon DEF BringInv
<1>8. /\ FallbackMac \in [1..6 -> 0..255] /\ FallbackMac \notin {Zeros, Ones}
  <2>1. FallbackMac \in [1..6 -> 0..255]
    BY DEF FallbackMac
  <2>2. FallbackMac[2] = 12 /\ Zeros[2] = 0 /\ Ones[2] = 255
    BY DEF FallbackMac, Zeros, Ones
  <2>3. FallbackMac # Zeros /\ FallbackMac # Ones
    BY <2>2
  <2> QED BY <2>1, <2>3
<1> DEFINE own == [k \in 1..6 |-> FuseImage(k + 3)]
<1>9. /\ mac_addr' \in [1..6 -> 0..255] /\ rssi_offset_2g' \in -10..10
      /\ rssi_offset_2g' =
            IF eeprom_valid /\ Signed8(FuseImage(70)) \in -10..10 THEN Signed8(FuseImage(70)) ELSE 0
      /\ mac_addr' \notin {Zeros, Ones}
      /\ mac_addr' = IF eeprom_valid /\ own \notin {Zeros, Ones} THEN own ELSE FallbackMac
  <2>1. CASE eeprom_valid = TRUE
    <3>1. block = NumBlocks
      BY <1>7, <2>1, Zenon DEF EfuseStage
    <3>2. \A a \in Image : eeprom[a] = FuseImage(a)
      <4> SUFFICES ASSUME NEW a \in Image PROVE eeprom[a] = FuseImage(a)
        OBVIOUS
      <4>1. a \div 16 < NumBlocks /\ a \div 16 \in Nat /\ NumBlocks \in Nat
        BY FusesAssumption DEF Image
      <4>2. ~(a \div 16 >= block)
        BY <3>1, <4>1
      <4> QED BY <1>7, <4>2 DEF ImageOk
    <3>3. image = eeprom
      BY <2>1, Zenon
    <3>4. mac = own
      <4> HIDE DEF image
      <4> QED BY <1>5, <3>2, <3>3
    <3>5. rssi = Signed8(FuseImage(70))
      BY <1>6, <3>2, <3>3, Zenon
    <3>6. fuse \in Fuses
      BY <1>7, Zenon DEF TypeOK
    <3>7. own \in [1..6 -> 0..255]
      <4>1. \A k \in 1..6 : FuseImage(k + 3) \in 0..255
        BY <1>5, <3>6, FuseBytes
      <4> QED BY <4>1
    <3> HIDE DEF own, mac, rssi, image
    <3>8. mac_addr' = IF own \notin {Zeros, Ones} THEN own ELSE FallbackMac
      BY <1>1, <1>4, <3>4, Zenon
    <3>9. rssi_offset_2g' = IF Signed8(FuseImage(70)) \in -10..10 THEN Signed8(FuseImage(70)) ELSE 0
      BY <1>1, <1>4, <2>1, <3>5, Zenon
    <3>10. mac_addr' \in [1..6 -> 0..255] /\ mac_addr' \notin {Zeros, Ones}
      BY <1>8, <3>7, <3>8, Zenon
    <3>11. rssi_offset_2g' \in -10..10
      BY <3>9
    <3> QED BY <2>1, <3>8, <3>9, <3>10, <3>11, Zenon
  <2>2. CASE eeprom_valid = FALSE
    <3>1. image = dummy
      BY <2>2, Zenon
    <3>2. \A k \in 1..6 : dummy[k + 3] = FallbackMac[k]
      BY <1>5
    <3>3. mac = FallbackMac
      <4>1. FallbackMac = [k \in 1..6 |-> FallbackMac[k]]
        BY <1>8
      <4> HIDE DEF image, dummy
      <4> QED BY <3>1, <3>2, <4>1
    <3> HIDE DEF mac, image, own, rssi
    <3>4. mac_addr' = FallbackMac
      BY <1>1, <1>4, <1>8, <3>3, Zenon
    <3>5. rssi_offset_2g' = 0
      BY <1>1, <2>2, Zenon
    <3>6. 0 \in -10..10
      OBVIOUS
    <3> QED BY <1>8, <2>2, <3>4, <3>5, <3>6, Zenon
  <2> QED BY <1>7, <2>1, <2>2, Zenon DEF TypeOK
<1>10. TypeOK'
  BY <1>1, <1>2, <1>7, <1>9, Zenon DEF TypeOK
<1>11. RegInv'
  <2>1. RegInv /\ "own" \notin done
    <3>1. done \subseteq {"init"}
      BY <1>2, Zenon DEF BringInv, RegInv
    <3> QED BY <3>1 DEF BringInv
  <2> QED BY <1>1, <1>2, <2>1, Zenon DEF RegInv
<1>12. DlInv'
  BY <1>1, <1>2, KeepDl, Zenon DEF BringInv
<1>13. ImageOk'
  BY <1>1, KeepImage, Zenon DEF BringInv
<1>14. EfuseStage'
  BY <1>1, <1>2, KeepStage, Zenon DEF BringInv
<1>15. FwInv'
  BY <1>1, <1>2, KeepFw, Zenon DEF BringInv
<1>16. MacUsable'
  <2>1. FuseImage(70)' = FuseImage(70) /\ own' = own
    BY <1>1, FuseSame
  <2> HIDE DEF own, image, dummy, data
  <2> QED BY <1>1, <1>9, <2>1, Zenon DEF MacUsable, own
<1> QED BY <1>10, <1>11, <1>12, <1>13, <1>14, <1>15, <1>16, Zenon DEF BringInv

-----------------------------------------------------------------------------
(* start, config and stop.                                                  *)

LEMMA NumbersCycle ==
  ASSUME NEW n \in Nat
  PROVE  NextSeq(n) \in 1..15 /\ NextSeq(n) \in Nat
BY DEF NextSeq

(* The registers after a start, whatever was cut short.                     *)
LEMMA StartRegs ==
  ASSUME RegInv, NEW n \in 0..67, NEW m \in 0..2, NEW k \in {0, 1}, NEW l \in {0, 1}
  PROVE  LET y == Execute(Execute(Execute(Execute(reg, MacInitSequence, n),
                                          OwnMacSequence(mac_addr), m),
                                  <<DMA_TCFR1>>, k),
                          <<RMAC_CHFREQ>>, l)
         IN  /\ DOMAIN y = UsedRegs /\ SchedOk(y)
             /\ n = 67 => InForce(y, MacInitSequence)
             /\ m = 2 => InForce(y, OwnMacSequence(mac_addr))
<1> DEFINE I == MacInitSequence
           o == OwnMacSequence(mac_addr)
           r1 == Execute(reg, I, n)
           r2 == Execute(r1, o, m)
           r3 == Execute(r2, <<DMA_TCFR1>>, k)
           y == Execute(r3, <<RMAC_CHFREQ>>, l)
<1>1. DOMAIN reg = UsedRegs /\ SchedOk(reg)
  BY Zenon DEF RegInv
<1>2. DOMAIN r1 = UsedRegs /\ SchedOk(r1) /\ (n = 67 => InForce(r1, I))
  <2>1. /\ DOMAIN r1 = UsedRegs
        /\ SchedOk(reg) => SchedOk(r1)
        /\ n = 67 => InForce(r1, I)
    BY <1>1, InitRun, Zenon
  <2> QED BY <1>1, <2>1, Zenon
<1> HIDE DEF r1
<1>3. /\ DOMAIN r2 = UsedRegs /\ SchedOk(r2)
      /\ InForce(r1, I) => InForce(r2, I)
      /\ m = 2 => InForce(r2, o)
  BY <1>2, OwnRun, Zenon
<1> HIDE DEF r2
<1>4. DMA_TCFR1 \in {DMA_TCFR1, RMAC_CHFREQ} /\ RMAC_CHFREQ \in {DMA_TCFR1, RMAC_CHFREQ}
  BY Zenon
<1>5. /\ DOMAIN r3 = UsedRegs /\ SchedOk(r3)
      /\ InForce(r2, I) => InForce(r3, I)
      /\ InForce(r2, o) => InForce(r3, o)
  BY <1>3, <1>4, SingleRun, Zenon
<1> HIDE DEF r3
<1>6. /\ DOMAIN y = UsedRegs /\ SchedOk(y)
      /\ InForce(r3, I) => InForce(y, I)
      /\ InForce(r3, o) => InForce(y, o)
  BY <1>4, <1>5, SingleRun, Zenon
<1>7. /\ DOMAIN y = UsedRegs /\ SchedOk(y) /\ (n = 67 => InForce(y, I))
      /\ (m = 2 => InForce(y, o))
  BY <1>2, <1>3, <1>5, <1>6, Zenon
<1> QED BY <1>7, Zenon DEF r1, r2, r3

LEMMA StartKeeps == BringInv /\ Start => BringInv'
<1> SUFFICES ASSUME BringInv, Start PROVE BringInv'
  OBVIOUS
<1> DEFINE s == NextSeq(cmd_seq)
           cmds == StartCmds(s)
           own == OwnMacSequence(mac_addr)
           init == BuildMacInitSequence(128).ops
<1>1. Len(own) = 2 /\ Len(init) = 67 /\ init = MacInitSequence
  BY OwnLayout, InitLayout, InitOps
<1>2. PICK n \in 0..Len(init), m \in 0..Len(own), tcfr \in BOOLEAN, freq \in BOOLEAN,
           drop \in 0..Len(cmds) :
         /\ Fail(One(n < Len(init)) + One(m < Len(own)) + One(~tcfr) + One(~freq)
                 + One(drop > 0))
         /\ reg' = Execute(Execute(Execute(Execute(reg, init, n), own, m),
                                   <<DMA_TCFR1>>, IF tcfr THEN 1 ELSE 0),
                           <<RMAC_CHFREQ>>, IF freq THEN 1 ELSE 0)
         /\ done' = {x \in {"init", "own"} : \/ x = "init" /\ n = Len(init)
                                             \/ x = "own" /\ m = Len(own)}
         /\ fw' = SendAll(fw, cmds, drop)
         /\ cmd_seq' = NextSeq(NextSeq(NextSeq(IF eeprom_valid THEN NextSeq(s) ELSE s)))
  BY Zenon DEF Start
<1>3. /\ pc = "idle" /\ pc' = "up"
      /\ UNCHANGED <<dl, rom, fuse, block, eeprom, eeprom_valid, mac_addr, rssi_offset_2g>>
  BY Zenon DEF Start
<1>4. /\ pc \in {"idle", "up"} /\ pc' \in {"idle", "up"} /\ pc' # "efuse"
      /\ pc \notin {"download", "scatter"} /\ pc' \notin {"download", "scatter", "failed"}
      /\ pc' \notin {"download", "scatter", "mac_init"}
      /\ pc' \in {"download", "scatter", "failed", "mac_init", "efuse", "parse", "idle", "up"}
  BY <1>3
<1>5. TypeOK /\ RegInv /\ FwInv /\ eeprom_valid \in BOOLEAN
  BY Zenon DEF BringInv, TypeOK
<1>6. RegInv'
  <2>0. n \in 0..67 /\ m \in 0..2
    <3> HIDE DEF cmds, own, init, s
    <3> QED BY <1>1
  <2> DEFINE k == IF tcfr THEN 1 ELSE 0
             l == IF freq THEN 1 ELSE 0
  <2>1. k \in {0, 1} /\ l \in {0, 1}
    BY Zenon
  <2> HIDE DEF k, l, cmds, s, init
  <2>2. reg' = Execute(Execute(Execute(Execute(reg, init, n), own, m), <<DMA_TCFR1>>, k),
                       <<RMAC_CHFREQ>>, l)
    BY <1>2, Zenon DEF k, l
  <2>3. /\ DOMAIN reg' = UsedRegs /\ SchedOk(reg')
        /\ n = 67 => InForce(reg', MacInitSequence)
        /\ m = 2 => InForce(reg', own)
    BY <1>1, <1>5, <2>0, <2>1, <2>2, StartRegs, Zenon
  <2>4. ("init" \in done' => n = 67) /\ ("own" \in done' => m = 2)
    <3> HIDE DEF own, init
    <3> QED BY <1>1, <1>2
  <2> QED BY <1>3, <1>4, <2>3, <2>4, Zenon DEF RegInv
<1>7. cmd_seq' \in 0..15
  <2>1. cmd_seq \in Nat
    BY <1>5 DEF TypeOK
  <2>2. s \in Nat /\ NextSeq(s) \in Nat
    BY <2>1, NumbersCycle, Zenon
  <2> DEFINE t == IF eeprom_valid THEN NextSeq(s) ELSE s
  <2>3. t \in Nat
    BY <2>2, Zenon
  <2> HIDE DEF t, s, cmds
  <2>4. NextSeq(NextSeq(NextSeq(t))) \in 1..15
    BY <2>3, NumbersCycle, Zenon
  <2>5. cmd_seq' \in 1..15
    BY <1>2, <2>4, Zenon DEF t
  <2> QED BY <2>5
<1>8. faults' \in 0..MaxFaults
  <2> DEFINE c1 == One(n < Len(init))
             c2 == One(m < Len(own))
             c3 == One(~tcfr)
             c4 == One(~freq)
             c5 == One(drop > 0)
             x == c1 + c2 + c3 + c4 + c5
  <2>1. c1 \in Nat /\ c2 \in Nat /\ c3 \in Nat /\ c4 \in Nat /\ c5 \in Nat
    BY DEF One
  <2>2. x \in Nat
    <3> HIDE DEF c1, c2, c3, c4, c5
    <3> QED BY <2>1
  <2> HIDE DEF x
  <2>3. Fail(x)
    BY <1>2, Zenon DEF x
  <2> QED BY <1>5, <2>2, <2>3, FaultsCounted, Zenon DEF TypeOK
<1>9. TypeOK'
  <2>1. done' \subseteq {"init", "own"}
    BY <1>2
  <2>2. DOMAIN reg' = UsedRegs
    BY <1>6, Zenon DEF RegInv
  <2> QED BY <1>3, <1>4, <1>5, <1>7, <1>8, <2>1, <2>2, Zenon DEF TypeOK
<1>10. DlInv'
  BY <1>3, <1>4, KeepDl, Zenon DEF BringInv
<1>11. ImageOk'
  BY <1>3, KeepImage, Zenon DEF BringInv
<1>12. EfuseStage'
  BY <1>3, <1>4, KeepStage, Zenon DEF BringInv
<1>13. FwInv'
  <2> HIDE DEF s
  <2>1. GoodFw(fw)
    BY <1>5, Zenon DEF FwInv
  <2>2. /\ GoodFw(fw') /\ Calibrated(fw')
        /\ \A x \in {"RADIO_ON_OFF", "EDCA_SET", "CHANNEL_SWITCH", "TX_POWER_CTRL"} : Had(fw', x)
    BY <1>2, <1>5, <2>1, StartSends, Zenon
  <2>3. GoodFw(fw)' /\ Calibrated(fw)'
    BY <1>3, <2>2, Zenon DEF GoodFw, PowerBytes, Calibrated
  <2> QED BY <1>4, <2>2, <2>3, Zenon DEF FwInv
<1>14. MacUsable'
  BY <1>3, <1>4, KeepMac, Zenon DEF BringInv
<1> QED BY <1>6, <1>9, <1>10, <1>11, <1>12, <1>13, <1>14, Zenon DEF BringInv

LEMMA StartNoMemoryKeeps == BringInv /\ StartNoMemory => BringInv'
<1> SUFFICES ASSUME BringInv, StartNoMemory PROVE BringInv'
  OBVIOUS
<1>1. /\ pc = "idle" /\ Fail(1) /\ cmd_seq' = NextSeq(cmd_seq)
      /\ UNCHANGED <<pc, dl, rom, fuse, block, eeprom, eeprom_valid, mac_addr, rssi_offset_2g,
                     reg, fw, done>>
  BY Zenon DEF StartNoMemory
<1>2. /\ pc \notin {"download", "scatter"} /\ pc' \notin {"download", "scatter", "failed"}
      /\ pc' # "efuse" /\ pc' \notin {"download", "scatter", "mac_init"} /\ 1 \in Nat
  BY <1>1
<1>3. cmd_seq \in Nat /\ faults \in 0..MaxFaults
  BY DEF BringInv, TypeOK
<1>4. cmd_seq' \in 0..15
  BY <1>1, <1>3, NumbersCycle
<1>5. faults' \in 0..MaxFaults
  BY <1>1, <1>2, <1>3, FaultsCounted, Zenon
<1>6. TypeOK'
  BY <1>1, <1>4, <1>5, Zenon DEF BringInv, TypeOK
<1>7. RegInv' /\ ImageOk' /\ FwInv' /\ MacUsable'
  BY <1>1, KeepReg, KeepImage, KeepFw, KeepMac, Zenon DEF BringInv
<1>8. DlInv' /\ EfuseStage'
  BY <1>1, <1>2, KeepDl, KeepStage, Zenon DEF BringInv
<1> QED BY <1>6, <1>7, <1>8, Zenon DEF BringInv

LEMMA TuneKeeps == BringInv /\ Tune => BringInv'
<1> SUFFICES ASSUME BringInv, Tune PROVE BringInv'
  OBVIOUS
<1>1. PICK drop \in 0..2, freq \in BOOLEAN :
         /\ Fail(One(drop > 0) + One(~freq))
         /\ fw' = SendAll(fw, ChannelCmds(6, cmd_seq), drop)
         /\ reg' = Execute(reg, <<RMAC_CHFREQ>>, IF freq THEN 1 ELSE 0)
  BY Zenon DEF Tune
<1>2. /\ pc = "up" /\ cmd_seq' = NextSeq(NextSeq(cmd_seq))
      /\ UNCHANGED <<pc, dl, rom, fuse, block, eeprom, eeprom_valid, mac_addr, rssi_offset_2g,
                     done>>
  BY Zenon DEF Tune
<1>3. /\ pc \in {"idle", "up"} /\ pc' \in {"idle", "up"}
      /\ pc \notin {"download", "scatter"} /\ pc' \notin {"download", "scatter", "failed"}
      /\ pc' # "efuse" /\ pc' \notin {"download", "scatter", "mac_init"}
  BY <1>2
<1>4. TypeOK /\ RegInv /\ FwInv /\ cmd_seq \in Nat /\ faults \in 0..MaxFaults
  <2>1. TypeOK
    BY Zenon DEF BringInv
  <2>2. cmd_seq \in Nat
    BY <2>1 DEF TypeOK
  <2> QED BY <2>1, <2>2, Zenon DEF BringInv, TypeOK
<1>5. RegInv'
  <2> DEFINE k == IF freq THEN 1 ELSE 0
             y == Execute(reg, <<RMAC_CHFREQ>>, k)
  <2>1. k \in {0, 1} /\ RMAC_CHFREQ \in {DMA_TCFR1, RMAC_CHFREQ}
    BY Zenon
  <2>2. reg' = y /\ DOMAIN reg = UsedRegs /\ SchedOk(reg)
    BY <1>1, <1>4, Zenon DEF RegInv
  <2> HIDE DEF k
  <2>3. /\ DOMAIN y = UsedRegs /\ SchedOk(y)
        /\ InForce(reg, MacInitSequence) => InForce(y, MacInitSequence)
        /\ InForce(reg, OwnMacSequence(mac_addr)) => InForce(y, OwnMacSequence(mac_addr))
    BY <2>1, <2>2, SingleRun, Zenon
  <2> HIDE DEF y
  <2> QED BY <1>2, <1>3, <1>4, <2>2, <2>3, Zenon DEF RegInv
<1>6. TypeOK'
  <2>1. cmd_seq' \in 0..15
    <3>1. NextSeq(NextSeq(cmd_seq)) \in 1..15
      BY <1>4, NumbersCycle, Zenon
    <3> QED BY <1>2, <3>1
  <2>2. faults' \in 0..MaxFaults
    <3> DEFINE x == One(drop > 0) + One(~freq)
    <3>1. x \in Nat
      BY DEF One
    <3> HIDE DEF x
    <3> QED BY <1>1, <1>4, <3>1, FaultsCounted, Zenon DEF x
  <2>3. DOMAIN reg' = UsedRegs
    BY <1>5, Zenon DEF RegInv
  <2> QED BY <1>2, <1>4, <2>1, <2>2, <2>3, Zenon DEF TypeOK
<1>7. FwInv'
  <2>1. /\ GoodFw(fw) /\ Calibrated(fw)
        /\ \A x \in {"RADIO_ON_OFF", "EDCA_SET", "CHANNEL_SWITCH", "TX_POWER_CTRL"} : Had(fw, x)
    BY <1>2, <1>4, Zenon DEF FwInv
  <2>2. GoodFw(fw') /\ \A x : Had(fw, x) => Had(fw', x)
    BY <1>1, <2>1, TuneSends, Zenon
  <2>3. Calibrated(fw')
    BY <2>1, <2>2, Zenon DEF Calibrated
  <2>4. GoodFw(fw)' /\ Calibrated(fw)'
    BY <1>2, <2>2, <2>3, Zenon DEF GoodFw, PowerBytes, Calibrated
  <2> QED BY <1>3, <2>1, <2>2, <2>4, Zenon DEF FwInv
<1>8. DlInv' /\ ImageOk' /\ EfuseStage' /\ MacUsable'
  BY <1>2, <1>3, KeepDl, KeepImage, KeepStage, KeepMac, Zenon DEF BringInv
<1> QED BY <1>5, <1>6, <1>7, <1>8, Zenon DEF BringInv

LEMMA StopKeeps == BringInv /\ Stop => BringInv'
<1> SUFFICES ASSUME BringInv, Stop PROVE BringInv'
  OBVIOUS
<1>1. /\ pc = "up" /\ pc' = "idle"
      /\ UNCHANGED <<dl, rom, fuse, block, eeprom, eeprom_valid, mac_addr, rssi_offset_2g,
                     cmd_seq, reg, fw, done, faults>>
  BY Zenon DEF Stop
<1>2. /\ pc \in {"idle", "up"} /\ pc' \in {"idle", "up"} /\ pc' # "up"
      /\ pc \notin {"download", "scatter"} /\ pc' \notin {"download", "scatter", "failed"}
      /\ pc' # "efuse" /\ pc' \notin {"download", "scatter", "mac_init"}
      /\ pc' \in {"download", "scatter", "failed", "mac_init", "efuse", "parse", "idle", "up"}
  BY <1>1
<1>3. TypeOK'
  BY <1>1, <1>2, Zenon DEF BringInv, TypeOK
<1>4. RegInv' /\ ImageOk' /\ FwInv' /\ MacUsable'
  BY <1>1, <1>2, KeepReg, KeepImage, KeepFw, KeepMac, Zenon DEF BringInv
<1>5. DlInv' /\ EfuseStage'
  BY <1>1, <1>2, KeepDl, KeepStage, Zenon DEF BringInv
<1> QED BY <1>3, <1>4, <1>5, Zenon DEF BringInv

-----------------------------------------------------------------------------
(* The theorems.                                                            *)

LEMMA BringInit == Init => BringInv
<1> SUFFICES ASSUME Init PROVE BringInv
  OBVIOUS
<1>1. /\ pc = "download" /\ dl = NoDl /\ rom = [missing |-> 0, entered |-> FALSE]
      /\ fuse \in Fuses /\ block = 0 /\ eeprom = [a \in Image |-> 255]
      /\ mac_addr = Zeros /\ rssi_offset_2g = 0 /\ cmd_seq = 0
      /\ reg = [p \in UsedRegs |-> Word(0, 0)]
      /\ fw = NoFw /\ done = {} /\ faults = 0 /\ eeprom_valid = FALSE
  BY Zenon DEF Init
<1>2. /\ pc # "failed" /\ pc # "scatter" /\ pc # "efuse" /\ pc # "up"
      /\ pc \in {"download", "scatter", "mac_init"} /\ pc \notin {"idle", "up"}
      /\ pc \in {"download", "scatter", "failed", "mac_init", "efuse", "parse", "idle", "up"}
  BY <1>1
<1>3. DOMAIN reg = UsedRegs /\ SchedOk(reg)
  <2>1. DOMAIN reg = UsedRegs
    BY <1>1
  <2>2. PhysicalAddrMap(SCH_REG4) \in UsedRegs
    <3>1. MacInitSequence[40].addr = SCH_REG4
      BY InitLayout DEF Op
    <3>2. 40 \in 1..67
      OBVIOUS
    <3> QED BY <3>1, <3>2, UsedAddrs
  <2>3. reg[PhysicalAddrMap(SCH_REG4)] = Word(0, 0)
    BY <1>1, <2>2
  <2> QED BY <2>1, <2>3, Zenon DEF SchedOk
<1>4. TypeOK
  <2>1. /\ block \in 0..NumBlocks /\ rssi_offset_2g \in -10..10 /\ cmd_seq \in 0..15
        /\ done \subseteq {"init", "own"} /\ faults \in 0..MaxFaults
    BY <1>1, FusesAssumption
  <2>2. DOMAIN eeprom = Image /\ \A a \in Image : eeprom[a] \in Nat
    BY <1>1
  <2>3. mac_addr \in [1..6 -> 0..255]
    BY <1>1 DEF Zeros
  <2>4. eeprom_valid \in BOOLEAN
    BY <1>1, Zenon
  <2> QED BY <1>1, <1>2, <1>3, <2>1, <2>2, <2>3, <2>4, Zenon DEF TypeOK
<1>5. RegInv
  <2>1. "init" \notin done /\ "own" \notin done /\ done \subseteq {"init"}
    BY <1>1
  <2> QED BY <1>3, <2>1, Zenon DEF RegInv
<1>6. DlInv
  <2>1. DOMAIN rom = {"missing", "entered"} /\ rom.entered = FALSE
    BY <1>1
  <2>2. dl \in [len : Nat, offset : Nat, seq : Nat]
    BY <1>1 DEF NoDl
  <2> QED BY <1>1, <1>2, <2>1, <2>2, Zenon DEF DlInv
<1>7. ImageOk
  <2> SUFFICES ASSUME NEW a \in Image PROVE eeprom[a] = 255 /\ a \div 16 >= block
    BY DEF ImageOk
  <2> QED BY <1>1, FusesAssumption DEF Image
<1>8. EfuseStage
  BY <1>1, <1>2, Zenon DEF EfuseStage
<1>9. FwInv
  <2>1. DOMAIN NoFw = FwFields /\ NoFw.edca = <<>> /\ NoFw.power = <<>>
    BY DEF NoFw, FwFields
  <2>2. NoFw.tuned_uncalibrated = FALSE
    BY DEF NoFw
  <2> QED BY <1>1, <1>2, <2>1, <2>2, Zenon DEF FwInv, GoodFw
<1>10. MacUsable
  BY <1>2, Zenon DEF MacUsable
<1> QED BY <1>4, <1>5, <1>6, <1>7, <1>8, <1>9, <1>10, Zenon DEF BringInv

(* A step that changes nothing.                                             *)
LEMMA BringStutters == BringInv /\ UNCHANGED vars => BringInv'
<1> SUFFICES ASSUME BringInv, UNCHANGED vars PROVE BringInv'
  OBVIOUS
<1>1. UNCHANGED <<pc, dl, rom, fuse, block, eeprom, eeprom_valid, mac_addr, rssi_offset_2g,
                  cmd_seq, reg, fw, done, faults>>
  BY Zenon DEF vars
<1>2. TypeOK'
  BY <1>1, Zenon DEF BringInv, TypeOK
<1>3. RegInv' /\ ImageOk' /\ FwInv' /\ MacUsable'
  BY <1>1, KeepReg, KeepImage, KeepFw, KeepMac, Zenon DEF BringInv
<1>4. DlInv' /\ EfuseStage'
  BY <1>1, Zenon DEF BringInv, DlInv, EfuseStage
<1> QED BY <1>2, <1>3, <1>4, Zenon DEF BringInv

(* The inductive invariant of bring-up: the ROM misses what the loop has    *)
(* left, the image holds eFuse bytes or erased ones, the registers carry    *)
(* every sequence that was not cut short, and the firmware has all of a     *)
(* start that was not lost.                                                 *)
THEOREM BringUpInvariant == Spec => []BringInv
<1>1. BringInv /\ [Next]_vars => BringInv'
  <2> SUFFICES ASSUME BringInv, [Next]_vars PROVE BringInv'
    OBVIOUS
  <2>1. CASE DownloadBegin
    BY <2>1, BeginKeeps, Zenon
  <2>2. CASE DownloadScatter
    BY <2>2, ScatterKeeps, Zenon
  <2>3. CASE DownloadStart
    BY <2>3, EntryKeeps, Zenon
  <2>4. CASE ProbeMacInit
    BY <2>4, ProbeMacInitKeeps, Zenon
  <2>5. CASE ReadEfuse
    BY <2>5, ReadEfuseKeeps, Zenon
  <2>6. CASE Register
    BY <2>6, RegisterKeeps, Zenon
  <2>7. CASE Start
    BY <2>7, StartKeeps, Zenon
  <2>8. CASE StartNoMemory
    BY <2>8, StartNoMemoryKeeps, Zenon
  <2>9. CASE Tune
    BY <2>9, TuneKeeps, Zenon
  <2>10. CASE Stop
    BY <2>10, StopKeeps, Zenon
  <2>11. CASE UNCHANGED vars
    BY <2>11, BringStutters, Zenon
  <2> QED BY <2>1, <2>2, <2>3, <2>4, <2>5, <2>6, <2>7, <2>8, <2>9, <2>10, <2>11, Zenon DEF Next
<1> QED BY BringInit, <1>1, PTL DEF Spec

(* mt7603_download_firmware, for every length of the image: no builder      *)
(* refuses a frame, and the ROM enters the image only when it has been sent *)
(* exactly what was announced.                                              *)
THEOREM ImageIsWhole == Spec => []ImageAnnouncedIsSent
<1>1. BringInv => ImageAnnouncedIsSent
  <2> SUFFICES ASSUME DlInv PROVE ImageAnnouncedIsSent
    BY Zenon DEF BringInv
  <2>1. pc = "download" => ~rom.entered
    BY Zenon DEF DlInv
  <2>2. pc = "scatter" => ~rom.entered
    BY Zenon DEF DlInv
  <2>3. pc \notin {"download", "scatter"} => rom.missing = 0 /\ rom.entered
    BY Zenon DEF DlInv
  <2> QED BY <2>1, <2>2, <2>3, Zenon DEF ImageAnnouncedIsSent, DlInv
<1> QED BY <1>1, BringUpInvariant, PTL

(* The bytes of the power command lie within the smallest image.            *)
LEMMA PowerInImage ==
  ASSUME NEW k \in DOMAIN PowerSource
  PROVE  PowerSource[k] \in Image /\ NumBlocks \in Nat
<1>1. NumBlocks \in Nat /\ NumBlocks >= 14
  BY FusesAssumption
<1>2. k \in 1..42
  BY DEF PowerSource
<1>3. PowerSource[k] \in 0..214
  <2> DEFINE v(j) == CASE j = 1          -> 55
                       [] j = 2          -> 54
                       [] j = 3          -> 88
                       [] j = 4          -> 94
                       [] j \in 5..18    -> 160 + (j - 5)
                       [] j = 19         -> 80
                       [] j \in 20..22   -> 89 + (j - 20)
                       [] j \in 23..25   -> 95 + (j - 23)
                       [] j \in 26..42   -> 198 + (j - 26)
  <2>1. PowerSource[k] = v(k)
    BY <1>2, Zenon DEF PowerSource
  <2>2. \/ k = 1 \/ k = 2 \/ k = 3 \/ k = 4 \/ k \in 5..18 \/ k = 19
        \/ k \in 20..22 \/ k \in 23..25 \/ k \in 26..42
    BY <1>2
  <2>3. CASE k \in {1, 2, 3, 4, 19}
    BY <2>1, <2>3
  <2>4. CASE k \in 5..18
    BY <2>1, <2>4
  <2>5. CASE k \in 20..22
    BY <2>1, <2>5
  <2>6. CASE k \in 23..25
    BY <2>1, <2>6
  <2>7. CASE k \in 26..42
    BY <2>1, <2>7
  <2> QED BY <2>2, <2>3, <2>4, <2>5, <2>6, <2>7
<1> HIDE DEF PowerSource
<1> QED BY <1>1, <1>3 DEF Image

(* parse_eeprom and build_tx_power_ctrl_cmd, for every eFuse and every      *)
(* place a read may fail at: address, RSSI offset and power are the chip's  *)
(* own or the fallback.                                                     *)
THEOREM EfuseIsUsedRight == Spec => []EfuseUsedRight
<1>1. BringInv => PowerFromFuse
  <2> SUFFICES ASSUME BringInv, fw.power # <<>>, NEW k \in DOMAIN PowerSource
               PROVE  \/ fw.power[k] = FuseImage(PowerSource[k])
                      \/ ~eeprom_valid /\ fw.power[k] = 255
    BY DEF PowerFromFuse
  <2>1. fw.power = PowerBytes
    BY Zenon DEF BringInv, FwInv, GoodFw
  <2>3. PowerSource[k] \in Image /\ NumBlocks \in Nat
    BY PowerInImage, Zenon
  <2>4. DOMAIN eeprom = Image
    BY Zenon DEF BringInv, TypeOK
  <2>5. fw.power[k] = eeprom[PowerSource[k]]
    <3> HIDE DEF PowerSource
    <3> QED BY <2>1, <2>3, <2>4 DEF PowerBytes
  <2>6. \/ eeprom[PowerSource[k]] = FuseImage(PowerSource[k])
        \/ eeprom[PowerSource[k]] = 255 /\ PowerSource[k] \div 16 >= block
    BY <2>3 DEF BringInv, ImageOk
  <2>7. eeprom_valid \in BOOLEAN /\ (eeprom_valid = TRUE => block = NumBlocks)
    BY Zenon DEF BringInv, TypeOK, EfuseStage
  <2>8. eeprom_valid = TRUE => ~(PowerSource[k] \div 16 >= block)
    <3>1. PowerSource[k] \div 16 \in Nat /\ PowerSource[k] \div 16 < NumBlocks
      BY <2>3 DEF Image
    <3>2. ~(PowerSource[k] \div 16 >= NumBlocks)
      BY <2>3, <3>1
    <3> QED BY <2>7, <3>2, Zenon
  <2>9. CASE eeprom_valid = TRUE
    BY <2>5, <2>6, <2>8, <2>9
  <2>10. CASE eeprom_valid = FALSE
    <3>1. ~eeprom_valid
      BY <2>10, Zenon
    <3> QED BY <2>5, <2>6, <3>1
  <2> QED BY <2>7, <2>9, <2>10, Zenon
<1>2. BringInv => EfuseUsedRight
  BY <1>1, Zenon DEF EfuseUsedRight, BringInv
<1> QED BY <1>2, BringUpInvariant, PTL

(* The table build_edca_set_cmd fills in.                                   *)
LEMMA EdcaOrder ==
  /\ {EdcaParams[q].ac_num : q \in 0..3} = 0..3
  /\ \A q \in 0..2 : EdcaParams[q + 1].aifs + EdcaParams[q + 1].win_min
                     < EdcaParams[q].aifs + EdcaParams[q].win_min
<1> DEFINE ac(q) == CHOOSE a \in 1..4 : WMM_ACI_TO_HW_QUEUE[a] = q
<1>1. /\ WMM_ACI_TO_HW_QUEUE[1] = 1 /\ WMM_ACI_TO_HW_QUEUE[2] = 0
      /\ WMM_ACI_TO_HW_QUEUE[3] = 2 /\ WMM_ACI_TO_HW_QUEUE[4] = 3
  BY DEF WMM_ACI_TO_HW_QUEUE
<1>2. ASSUME NEW a \in 1..4 PROVE a = 1 \/ a = 2 \/ a = 3 \/ a = 4
  OBVIOUS
<1>3. 1 \in 1..4 /\ 2 \in 1..4 /\ 3 \in 1..4 /\ 4 \in 1..4
  OBVIOUS
<1>4. ac(0) = 2
  BY <1>1, <1>2, <1>3
<1>5. ac(1) = 1
  BY <1>1, <1>2, <1>3
<1>6. ac(2) = 3
  BY <1>1, <1>2, <1>3
<1>7. ac(3) = 4
  BY <1>1, <1>2, <1>3
<1>8. /\ Shl1(4) = 16 /\ Shl1(3) = 8 /\ Shl1(2) = 4
  BY DEF Shl1, PowersOfTwo
<1>9. /\ WMM_EDCA_AIFSN[1] = 3 /\ WMM_EDCA_AIFSN[2] = 7 /\ WMM_EDCA_AIFSN[3] = 2
      /\ WMM_EDCA_AIFSN[4] = 2
      /\ WMM_EDCA_CWMIN[1] = 4 /\ WMM_EDCA_CWMIN[2] = 4 /\ WMM_EDCA_CWMIN[3] = 3
      /\ WMM_EDCA_CWMIN[4] = 2
  BY DEF WMM_EDCA_AIFSN, WMM_EDCA_CWMIN
<1>10. ASSUME NEW q \in 0..3
       PROVE  /\ EdcaParams[q].ac_num = ac(q) - 1
              /\ EdcaParams[q].aifs = WMM_EDCA_AIFSN[ac(q)]
              /\ EdcaParams[q].win_min = Shl1(WMM_EDCA_CWMIN[ac(q)]) - 1
  BY DEF EdcaParams
<1> HIDE DEF ac
<1>11. /\ EdcaParams[0].ac_num = 1 /\ EdcaParams[1].ac_num = 0 /\ EdcaParams[2].ac_num = 2
       /\ EdcaParams[3].ac_num = 3
  BY <1>4, <1>5, <1>6, <1>7, <1>10
<1>12. /\ EdcaParams[0].aifs + EdcaParams[0].win_min = 22
       /\ EdcaParams[1].aifs + EdcaParams[1].win_min = 18
       /\ EdcaParams[2].aifs + EdcaParams[2].win_min = 9
       /\ EdcaParams[3].aifs + EdcaParams[3].win_min = 5
  BY <1>4, <1>5, <1>6, <1>7, <1>8, <1>9, <1>10
<1>13. \A q \in 0..2 : q = 0 \/ q = 1 \/ q = 2
  OBVIOUS
<1>14. {EdcaParams[q].ac_num : q \in 0..3} = 0..3
  <2>1. \A q \in 0..3 : q = 0 \/ q = 1 \/ q = 2 \/ q = 3
    OBVIOUS
  <2>2. \A q \in 0..3 : EdcaParams[q].ac_num \in 0..3
    BY <1>11, <2>1
  <2>3. ASSUME NEW x \in 0..3 PROVE \E q \in 0..3 : x = EdcaParams[q].ac_num
    BY <1>11, <2>1
  <2> QED BY <2>2, <2>3
<1> QED BY <1>12, <1>13, <1>14

(* mac80211_start and set_channel_ext, over any sequence of starts, stops,  *)
(* channel changes and lost transfers: calibration first, every command     *)
(* fits its buffer, and the queues are in priority order.                   *)
THEOREM FirmwareIsPrepared == Spec => []FirmwarePrepared
<1>1. BringInv => FirmwarePrepared
  <2> SUFFICES ASSUME BringInv PROVE FirmwarePrepared
    OBVIOUS
  <2>1. CalibratedFirst
    BY Zenon DEF BringInv, FwInv, GoodFw, CalibratedFirst
  <2>2. FirmwareConfigured
    <3> SUFFICES ASSUME pc = "up", ~fw.lost,
                        NEW x \in {"RADIO_ON_OFF", "EDCA_SET", "CHANNEL_SWITCH", "TX_POWER_CTRL"}
                                  \cup {y \in {"EFUSE_BUFFER_MODE"} : eeprom_valid}
                 PROVE  x \in fw.got
      BY DEF FirmwareConfigured
    <3> QED BY Zenon DEF BringInv, FwInv, Calibrated, Had
  <2>3. EdcaInPriorityOrder
    <3>1. fw.edca = <<>> \/ fw.edca = EdcaParams
      BY Zenon DEF BringInv, FwInv, GoodFw
    <3> QED BY <3>1, EdcaOrder, Zenon DEF EdcaInPriorityOrder
  <2> QED BY <2>1, <2>2, <2>3, Zenon DEF FirmwarePrepared
<1> QED BY <1>1, BringUpInvariant, PTL

(* mt7603_execute_reg_ops through physical_addr_map, over sequences that    *)
(* are cut short and run again: the scheduler is on only over complete and  *)
(* consistent tables, and no write lands on a register of a sequence in     *)
(* force.                                                                   *)
THEOREM RegistersStayConsistent == Spec => []RegistersConsistent
<1>1. BringInv => RegistersConsistent
  <2> SUFFICES ASSUME BringInv PROVE RegistersConsistent
    OBVIOUS
  <2>1. TypeOK /\ RegInv
    BY Zenon DEF BringInv
  <2>2. SchedulerPartitioned
    BY <2>1, SharesFit, Zenon DEF RegInv
  <2>3. SequencesInForce
    <3>1. \A x \in done : x = "init" \/ x = "own"
      BY <2>1 DEF TypeOK
    <3>2. "init" # "own"
      OBVIOUS
    <3> QED BY <2>1, <3>1, <3>2, Zenon DEF RegInv, SequencesInForce, InForce, RegAt
  <2> QED BY <2>1, <2>2, <2>3, Zenon DEF RegistersConsistent
<1> QED BY <1>1, BringUpInvariant, PTL
=============================================================================
