-------------------------- MODULE MgmtFrames_proofs --------------------------
(* Theorems about MgmtFrames, for every set of names, channels and damage.  *)
EXTENDS MgmtFrames, SequenceTheorems, WellFoundedInduction, TLAPS

-----------------------------------------------------------------------------
(* Where elements start. StartsFrom is a recursive function; that it obeys  *)
(* its own equation is shown from the least number at which it would not.   *)

LEMMA LeastNumber ==
  ASSUME NEW T, T \subseteq Nat, T # {}
  PROVE  \E m \in T : \A k \in T : m <= k
<1> DEFINE R == OpToRel(<, Nat)
<1>1. IsWellFoundedOn(R, Nat)
  BY NatLessThanWellFounded
<1>2. \A x, y \in Nat : <<y, x>> \in R <=> y < x
  BY DEF OpToRel
<1> HIDE DEF R
<1>3. PICK m \in T : \A k \in T : ~ (<<k, m>> \in R)
  BY <1>1, WFMin
<1>4. \A k \in T : k \in Nat /\ ~ (k < m)
  BY <1>2, <1>3
<1>5. m \in Nat
  OBVIOUS
<1> QED BY <1>4, <1>5

(* f lists, for every p from m to b, the starts from p on, when an element  *)
(* is followed by the one at nx[p] and E are the places without one.        *)
Lists(f, m, b, E, nx) ==
    \A p \in m..b : f[p] = IF p \in E THEN {} ELSE {p} \cup f[nx[p]]

(* Such a list exists, since the walk only goes forward.                    *)
LEMMA ListExists ==
  ASSUME NEW a \in Nat, NEW b \in Nat, a <= b + 1, NEW E, NEW nx,
         \A p \in (a..b) \ E : nx[p] \in (p + 1)..b
  PROVE  \E f : f = [p \in a..b |-> f[p]] /\ Lists(f, a, b, E, nx)
<1> DEFINE Good(m) == \E f : f = [p \in m..b |-> f[p]] /\ Lists(f, m, b, E, nx)
           T == {k \in Nat : k <= b + 1 - a /\ ~Good(b + 1 - k)}
<1>1. Good(b + 1)
  <2> DEFINE f == [p \in (b + 1)..b |-> {}]
  <2>1. \A p \in (b + 1)..b : FALSE
    OBVIOUS
  <2>2. f = [p \in (b + 1)..b |-> f[p]] /\ Lists(f, b + 1, b, E, nx)
    BY <2>1 DEF Lists
  <2> QED BY <2>2
<1>2. ASSUME NEW m \in a..b, Good(m + 1)
      PROVE  Good(m)
  <2>1. PICK f : f = [p \in (m + 1)..b |-> f[p]] /\ Lists(f, m + 1, b, E, nx)
    BY <1>2
  <2> DEFINE first == IF m \in E THEN {} ELSE {m} \cup f[nx[m]]
             g == [p \in m..b |-> IF p = m THEN first ELSE f[p]]
  <2>2. m \notin E => nx[m] \in (m + 1)..b
    OBVIOUS
  <2>3. g[m] = first /\ \A p \in (m + 1)..b : g[p] = f[p]
    OBVIOUS
  <2>4. g[m] = IF m \in E THEN {} ELSE {m} \cup g[nx[m]]
    <3> HIDE DEF g
    <3> QED BY <2>2, <2>3
  <2>5. ASSUME NEW p \in (m + 1)..b
        PROVE  g[p] = IF p \in E THEN {} ELSE {p} \cup g[nx[p]]
    <3>1. p \notin E => nx[p] \in (p + 1)..b
      OBVIOUS
    <3>2. g[p] = f[p] /\ (p \notin E => g[nx[p]] = f[nx[p]])
      BY <3>1
    <3>3. f[p] = IF p \in E THEN {} ELSE {p} \cup f[nx[p]]
      BY <2>1 DEF Lists
    <3> HIDE DEF g
    <3> QED BY <3>2, <3>3
  <2>6. g = [p \in m..b |-> g[p]]
    OBVIOUS
  <2> HIDE DEF g
  <2>7. Lists(g, m, b, E, nx)
    <3>1. \A p \in m..b : p = m \/ p \in (m + 1)..b
      OBVIOUS
    <3> QED BY <2>4, <2>5, <3>1 DEF Lists
  <2> QED BY <2>6, <2>7
<1> HIDE DEF Good
<1>3. T = {}
  <2> SUFFICES ASSUME T # {} PROVE FALSE
    OBVIOUS
  <2>1. T \subseteq Nat
    OBVIOUS
  <2>2. PICK k \in T : \A j \in T : k <= j
    BY <2>1, LeastNumber
  <2>3. k \in Nat /\ k <= b + 1 - a /\ ~Good(b + 1 - k)
    OBVIOUS
  <2>4. k # 0
    BY <1>1, <2>3
  <2>5. k - 1 \in Nat /\ k - 1 <= b + 1 - a /\ k - 1 \notin T
    BY <2>2, <2>3, <2>4
  <2>6. Good(b + 1 - (k - 1))
    BY <2>5
  <2>7. b + 1 - (k - 1) = (b + 1 - k) + 1 /\ b + 1 - k \in a..b
    BY <2>3, <2>4
  <2>8. Good((b + 1 - k) + 1)
    BY <2>6, <2>7
  <2>9. Good(b + 1 - k)
    BY <1>2, <2>7, <2>8
  <2> QED BY <2>3, <2>9
<1>4. b + 1 - a \in Nat /\ b + 1 - (b + 1 - a) = a
  OBVIOUS
<1>5. \A k \in Nat : \A m : k <= b + 1 - a /\ m = b + 1 - k => Good(m)
  BY <1>3
<1>6. Good(a)
  BY <1>4, <1>5
<1> QED BY <1>6 DEF Good

(* A list names no place before the one it starts from.                     *)
LEMMA ListForward ==
  ASSUME NEW a \in Nat, NEW b \in Nat, NEW E, NEW nx,
         \A p \in (a..b) \ E : nx[p] \in (p + 1)..b,
         NEW f, Lists(f, a, b, E, nx), NEW q \in a..b
  PROVE  f[q] \subseteq q..b
<1> DEFINE T == {k \in Nat : k <= b - a /\ ~(f[b - k] \subseteq (b - k)..b)}
<1>1. T = {}
  <2> SUFFICES ASSUME T # {} PROVE FALSE
    OBVIOUS
  <2>1. PICK k \in T : \A j \in T : k <= j
    <3>1. T \subseteq Nat
      OBVIOUS
    <3> HIDE DEF T
    <3> QED BY <3>1, LeastNumber
  <2> DEFINE p == b - k
  <2>2. p \in a..b /\ ~(f[p] \subseteq p..b) /\ k = b - p
    OBVIOUS
  <2>3. f[p] = IF p \in E THEN {} ELSE {p} \cup f[nx[p]]
    BY <2>2 DEF Lists
  <2>4. p \notin E
    BY <2>2, <2>3
  <2>5. nx[p] \in (p + 1)..b
    BY <2>2, <2>4
  <2>6. b - nx[p] \in Nat /\ b - nx[p] <= b - a /\ b - nx[p] < k /\ b - (b - nx[p]) = nx[p]
    BY <2>2, <2>5
  <2>7. b - nx[p] \notin T
    BY <2>1, <2>6
  <2>8. f[nx[p]] \subseteq nx[p]..b
    BY <2>6, <2>7
  <2> HIDE DEF p, T
  <2> QED BY <2>2, <2>3, <2>4, <2>5, <2>8
<1>2. b - q \in Nat /\ b - q <= b - a /\ b - (b - q) = q
  OBVIOUS
<1> QED BY <1>1, <1>2

(* What the walk relies on: StartsFrom unfolds, and never looks back.       *)
LEMMA StartsUnfold ==
  ASSUME buf.len \in Nat, buf.len >= 36, buf.ies \in Seq(Bytes), Len(buf.ies) = buf.len - 36,
         NEW q \in 36..(buf.len + 1)
  PROVE  /\ StartsFrom(q) = IF Ends(q) THEN {} ELSE {q} \cup StartsFrom(q + 2 + buf.ies[q - 34])
         /\ StartsFrom(q) \subseteq q..(buf.len + 1)
<1> DEFINE b == buf.len + 1
           E == {p \in 36..b : Ends(p)}
           nx == [p \in 36..b |-> p + 2 + buf.ies[p - 34]]
           Obeys(f) == f = [p \in 36..(buf.len + 1) |->
                              IF Ends(p) THEN {} ELSE {p} \cup f[p + 2 + buf.ies[p - 34]]]
<1>1. b \in Nat /\ 36 <= b + 1
  OBVIOUS
<1>2. \A p \in (36..b) \ E : nx[p] \in (p + 1)..b
  <2> SUFFICES ASSUME NEW p \in 36..b, ~Ends(p) PROVE p + 2 + buf.ies[p - 34] \in (p + 1)..b
    OBVIOUS
  <2>1. p + 2 <= buf.len
    BY DEF Ends
  <2>2. p - 34 \in 1..Len(buf.ies)
    BY <2>1
  <2> DEFINE n == buf.ies[p - 34]
  <2>3. n \in Bytes
    BY <2>2
  <2>4. ~(p + 2 + n > buf.len)
    BY DEF Ends
  <2> HIDE DEF n
  <2>5. p + 2 + n \in (p + 1)..b
    BY <2>3, <2>4 DEF Bytes
  <2> QED BY <2>5 DEF n
<1>3. PICK f : f = [p \in 36..b |-> f[p]] /\ Lists(f, 36, b, E, nx)
  <2> HIDE DEF b, E, nx
  <2> QED BY <1>1, <1>2, ListExists
<1>4. Obeys(f)
  <2>1. \A p \in 36..b : f[p] = IF Ends(p) THEN {} ELSE {p} \cup f[p + 2 + buf.ies[p - 34]]
    BY <1>3 DEF Lists
  <2> QED BY <1>3, <2>1
<1> DEFINE h == CHOOSE g : Obeys(g)
<1>5. Obeys(h)
  BY <1>4, Zenon
<1>6. \A p : StartsFrom(p) = h[p]
  BY Zenon DEF StartsFrom
<1> HIDE DEF h
<1>7. \A p \in 36..b : h[p] = IF Ends(p) THEN {} ELSE {p} \cup h[p + 2 + buf.ies[p - 34]]
  BY <1>5
<1>8. Lists(h, 36, b, E, nx)
  BY <1>7 DEF Lists
<1>9. h[q] \subseteq q..b
  <2> HIDE DEF b, E, nx
  <2>1. q \in 36..b
    BY DEF b
  <2> QED BY <1>1, <1>2, <1>8, <2>1, ListForward
<1> QED BY <1>6, <1>7, <1>9

-----------------------------------------------------------------------------
(* The inductive invariant.                                                 *)

Names == {"none", "ap", "sta", "broadcast"}
Frames == [fc : 0..255, addr2 : Names, addr3 : Names, len : Nat, ies : Seq(Bytes)]
Kinds == {"none", "beacon", "probe_req", "assoc_resp", "assoc_req"}
Requests == [kind : Kinds, ssid : Seq(Bytes), channel : Bytes, fits : BOOLEAN,
             fate : {"none", "whole", "cut", "damaged"}]
Infos == [bssid : {"none", "ap"}, ssid : Seq(Bytes), channel : Bytes]

ShapeInv == buf \in Frames /\ made \in Requests /\ info \in Infos

(* No byte has been looked at before the parser starts, and a frame leaves  *)
(* whole.                                                                   *)
FreshInv ==
    /\ pc \in {"idle", "sent", "arrived"} => reach = 0
    /\ pc = "sent" => made.fate = "whole"

(* The frame control field tells the kinds apart.                           *)
KindInv ==
    pc # "idle" =>
        /\ made.kind = "beacon" => buf.fc = 128 /\ buf.addr3 = "ap"
        /\ made.kind = "probe_req" => buf.fc = 64
        /\ made.kind = "assoc_resp" => buf.fc = 16
        /\ made.kind = "assoc_req" => buf.addr2 = "sta"
        /\ made.kind # "none"

BeaconIes(ssid, channel) == SsidIe(ssid) \o RatesIe \o DsIe(channel)

(* A beacon on its way: its element bytes fill its length, and those of an  *)
(* undamaged one are the first of what build_beacon wrote.                  *)
BeaconInv ==
    pc # "idle" /\ made.kind = "beacon" =>
        /\ Len(made.ssid) < 256
        /\ Len(buf.ies) = IF buf.len >= 36 THEN buf.len - 36 ELSE 0
        /\ made.fate = "whole" => buf.len = BeaconLen(Len(made.ssid))
        /\ made.fate \in {"whole", "cut"} =>
              \A k \in 1..Len(buf.ies) :
                 /\ k \in DOMAIN BeaconIes(made.ssid, made.channel)
                 /\ buf.ies[k] = BeaconIes(made.ssid, made.channel)[k]

(* A name, a channel and the fields of the header of the elements before p. *)
ReportsUpTo(i, p) ==
    LET names == {q \in ElementsWithId(0) : q < p}
        chans == {q \in ElementsWithId(3) : q < p}
    IN  /\ names = {} <=> i.ssid = <<>>
        /\ \A n \in names : (\A q \in names : n <= q) => i.ssid = First32(Body(n))
        /\ chans = {} => i.channel = 0
        /\ \A n \in chans : (\A q \in chans : q <= n) => i.channel = Body(n)[1]

(* The walk stands where an element may start; what it has found is what    *)
(* the elements before say.                                                 *)
WalkInv ==
    pc = "walk" =>
        /\ parser = "beacon" /\ made.kind = "beacon" /\ info.bssid = "ap"
        /\ buf.len >= 36 /\ pos \in 36..buf.len /\ reach < buf.len
        /\ {q \in Starts : q >= pos} = StartsFrom(pos)
        /\ ReportsUpTo(info, pos)

(* In an undamaged beacon the walk stands at one of its three elements.     *)
StandInv ==
    pc = "walk" /\ made.fate \in {"whole", "cut"} =>
        LET n == Len(made.ssid)
        IN  \/ pos = 36 /\ info.ssid = <<>> /\ info.channel = 0
            \/ n > 0 /\ pos \in {38 + n, 48 + n} /\ info.ssid = First32(made.ssid)
               /\ info.channel = 0
            \/ n > 0 /\ pos = 51 + n /\ info.ssid = First32(made.ssid)
               /\ info.channel = made.channel

FramesInv ==
    /\ TypeOK /\ ShapeInv /\ FreshInv /\ KindInv /\ BeaconInv /\ WalkInv /\ StandInv
    /\ WritesWhatItSums /\ WalkWithinFrame
    /\ IntactIsUnderstood /\ TruncatedNeverLies /\ ReportsItsOwnFrame /\ OnlyRequestsAccepted

-----------------------------------------------------------------------------
(* What the builders write.                                                 *)

LEMMA RatesIeBytes ==
  RatesIe \in Seq(Bytes) /\ Len(RatesIe) = 10 /\ RatesIe[1] = 1 /\ RatesIe[2] = 8
  BY DEF RatesIe, Bytes

LEMMA Joined ==
  ASSUME NEW s \in Seq(Bytes), NEW t \in Seq(Bytes)
  PROVE  /\ s \o t \in Seq(Bytes) /\ Len(s \o t) = Len(s) + Len(t)
         /\ \A i \in 1..Len(s) : (s \o t)[i] = s[i]
         /\ \A i \in 1..Len(t) : (s \o t)[Len(s) + i] = t[i]
<1>1. s \o t \in Seq(Bytes) /\ Len(s \o t) = Len(s) + Len(t)
  OBVIOUS
<1>2. \A i \in 1..Len(s) : (s \o t)[i] = s[i]
  OBVIOUS
<1>3. \A i \in 1..Len(t) : (s \o t)[Len(s) + i] = t[i]
  OBVIOUS
<1> QED BY <1>1, <1>2, <1>3

LEMMA SsidIeBytes ==
  ASSUME NEW ssid \in Seq(Bytes), Len(ssid) < 256
  PROVE  /\ SsidIe(ssid) \in Seq(Bytes) /\ Len(SsidIe(ssid)) = 2 + Len(ssid)
         /\ SsidIe(ssid)[1] = 0 /\ SsidIe(ssid)[2] = Len(ssid)
         /\ \A k \in 1..Len(ssid) : SsidIe(ssid)[2 + k] = ssid[k]
<1> DEFINE head == <<0, Len(ssid)>>
<1>1. CopyBytes(ssid) = ssid
  BY DEF CopyBytes
<1>2. head \in Seq(Bytes) /\ Len(head) = 2 /\ head[1] = 0 /\ head[2] = Len(ssid)
  <2>1. Len(ssid) \in Nat
    OBVIOUS
  <2>2. 0 \in Bytes /\ \A m \in Nat : m < 256 => m \in Bytes
    BY DEF Bytes
  <2>3. Len(ssid) \in Bytes
    BY <2>1, <2>2
  <2> QED BY <2>2, <2>3
<1>3. SsidIe(ssid) = head \o ssid
  <2>1. Len(ssid) \in Nat /\ \A m \in Nat : m < 256 => m % 256 = m
    OBVIOUS
  <2>2. Len(ssid) % 256 = Len(ssid)
    BY <2>1
  <2> QED BY <1>1, <2>2 DEF SsidIe
<1> HIDE DEF head
<1>4. /\ head \o ssid \in Seq(Bytes) /\ Len(head \o ssid) = Len(head) + Len(ssid)
      /\ \A i \in 1..Len(head) : (head \o ssid)[i] = head[i]
      /\ \A i \in 1..Len(ssid) : (head \o ssid)[Len(head) + i] = ssid[i]
  BY <1>2, Joined, Zenon
<1>5. /\ head \o ssid \in Seq(Bytes) /\ Len(head \o ssid) = 2 + Len(ssid)
      /\ \A i \in 1..2 : (head \o ssid)[i] = head[i]
      /\ \A i \in 1..Len(ssid) : (head \o ssid)[2 + i] = ssid[i]
  BY <1>2, <1>4, Zenon
<1> QED BY <1>2, <1>3, <1>5

(* The elements of a beacon: name, rates and channel, one after the other.  *)
LEMMA BeaconIesBytes ==
  ASSUME NEW ssid \in Seq(Bytes), Len(ssid) < 256, NEW channel \in Bytes
  PROVE  LET ies == BeaconIes(ssid, channel)
             n == Len(ssid)
         IN  /\ ies \in Seq(Bytes) /\ Len(ies) = n + 15
             /\ ies[1] = 0 /\ ies[2] = n /\ \A k \in 1..n : ies[2 + k] = ssid[k]
             /\ ies[n + 3] = 1 /\ ies[n + 4] = 8
             /\ ies[n + 13] = 3 /\ ies[n + 14] = 1 /\ ies[n + 15] = channel
<1> DEFINE a == SsidIe(ssid)
           b == RatesIe
           c == DsIe(channel)
           n == Len(ssid)
<1>1. /\ a \in Seq(Bytes) /\ Len(a) = 2 + n /\ a[1] = 0 /\ a[2] = n
      /\ \A k \in 1..n : a[2 + k] = ssid[k]
  BY SsidIeBytes
<1>2. b \in Seq(Bytes) /\ Len(b) = 10 /\ b[1] = 1 /\ b[2] = 8
  BY RatesIeBytes
<1>3. c \in Seq(Bytes) /\ Len(c) = 3 /\ c[1] = 3 /\ c[2] = 1 /\ c[3] = channel
  BY DEF DsIe, Bytes
<1>4. BeaconIes(ssid, channel) = (a \o b) \o c
  BY DEF BeaconIes
<1> HIDE DEF a, b, c
<1> DEFINE ab == a \o b
           ies == ab \o c
<1>5. n \in Nat
  OBVIOUS
<1>6. /\ ab \in Seq(Bytes) /\ Len(ab) = (2 + n) + 10
      /\ \A i \in 1..(2 + n) : ab[i] = a[i]
      /\ \A i \in 1..10 : ab[(2 + n) + i] = b[i]
  <2>1. /\ ab \in Seq(Bytes) /\ Len(ab) = Len(a) + Len(b)
        /\ \A i \in 1..Len(a) : ab[i] = a[i]
        /\ \A i \in 1..Len(b) : ab[Len(a) + i] = b[i]
    BY <1>1, <1>2, Joined, Zenon
  <2> QED BY <1>1, <1>2, <2>1, Zenon
<1> HIDE DEF ab
<1>7. /\ ies \in Seq(Bytes) /\ Len(ies) = ((2 + n) + 10) + 3
      /\ \A i \in 1..((2 + n) + 10) : ies[i] = ab[i]
      /\ \A i \in 1..3 : ies[((2 + n) + 10) + i] = c[i]
  <2>1. /\ ies \in Seq(Bytes) /\ Len(ies) = Len(ab) + Len(c)
        /\ \A i \in 1..Len(ab) : ies[i] = ab[i]
        /\ \A i \in 1..Len(c) : ies[Len(ab) + i] = c[i]
    BY <1>3, <1>6, Joined, Zenon
  <2> QED BY <1>3, <1>6, <2>1, Zenon
<1>8. ies = BeaconIes(ssid, channel)
  BY <1>4 DEF ab
<1> HIDE DEF ies
<1>9. Len(ies) = n + 15
  BY <1>5, <1>7
<1>10. ies[1] = 0 /\ ies[2] = n /\ \A k \in 1..n : ies[2 + k] = ssid[k]
  <2> HIDE DEF n
  <2>1. \A i \in 1..(2 + n) : ies[i] = a[i]
    BY <1>5, <1>6, <1>7
  <2>2. \A k \in 1..n : 2 + k \in 1..(2 + n)
    BY <1>5
  <2>3. 1 \in 1..(2 + n) /\ 2 \in 1..(2 + n)
    BY <1>5
  <2> QED BY <1>1, <2>1, <2>2, <2>3
<1>11. ies[n + 3] = 1 /\ ies[n + 4] = 8
  <2> HIDE DEF n
  <2>1. \A i \in 1..10 : ies[(2 + n) + i] = b[i]
    <3>1. \A i \in 1..10 : (2 + n) + i \in 1..((2 + n) + 10)
      BY <1>5
    <3> QED BY <1>6, <1>7, <3>1, Zenon
  <2>2. (2 + n) + 1 = n + 3 /\ (2 + n) + 2 = n + 4
    BY <1>5
  <2> QED BY <1>2, <2>1, <2>2
<1>12. ies[n + 13] = 3 /\ ies[n + 14] = 1 /\ ies[n + 15] = channel
  <2> HIDE DEF n
  <2>1. ((2 + n) + 10) + 1 = n + 13 /\ ((2 + n) + 10) + 2 = n + 14 /\ ((2 + n) + 10) + 3 = n + 15
    BY <1>5
  <2> QED BY <1>3, <1>7, <2>1
<1> QED BY <1>7, <1>8, <1>9, <1>10, <1>11, <1>12

(* A builder that fills the length it announces keeps the invariant.        *)
LEMMA BuildKeepsInv ==
  ASSUME FramesInv, NEW kind \in Kinds \ {"none"}, NEW ssid \in Seq(Bytes),
         NEW channel \in Bytes, NEW room \in Int, NEW result,
         RustBuild(kind, ssid, channel, room, result),
         result.err \in {0, -28},
         result.err = 0 =>
            /\ result.frame \in Frames
            /\ result.frame.len = Before(kind) + Len(result.frame.ies)
            /\ room >= result.frame.len
            /\ kind = "beacon" =>
                  /\ result.frame.fc = 128 /\ result.frame.addr3 = "ap" /\ Len(ssid) < 256
                  /\ result.frame.len = BeaconLen(Len(ssid))
                  /\ result.frame.ies = BeaconIes(ssid, channel)
            /\ kind = "probe_req" => result.frame.fc = 64
            /\ kind = "assoc_resp" => result.frame.fc = 16
            /\ kind = "assoc_req" => result.frame.addr2 = "sta"
  PROVE  FramesInv'
<1> USE DEF FramesInv
<1>1. UNCHANGED <<pos, info, reach, out, parser>> /\ pc = "idle" /\ ret' = result.err
  BY DEF RustBuild
<1>2. reach = 0
  BY <1>1 DEF FreshInv
<1>3. CASE result.err = 0
  <2>1. buf' = result.frame /\ pc' = "sent"
        /\ made' = [kind |-> kind, ssid |-> ssid, channel |-> channel, fate |-> "whole",
                     fits |-> room >= Before(kind) + Len(result.frame.ies)]
    BY <1>3 DEF RustBuild
  <2>2. buf' \in Frames
    BY <1>3, <2>1
  <2>3. made'.fits
    BY <1>3, <2>1
  <2>4. made' \in Requests
    BY <2>1, <2>3 DEF Requests, Kinds
  <2>5. buf'.len \in Nat /\ made'.fate = "whole" /\ made'.kind = kind /\ made'.ssid = ssid
        /\ made'.channel = channel
    BY <2>1, <2>2 DEF Frames
  <2>6. TypeOK' /\ ShapeInv' /\ FreshInv'
    BY <1>1, <1>2, <2>1, <2>2, <2>4, <2>5, <1>3 DEF TypeOK, ShapeInv, FreshInv
  <2>7. KindInv' /\ WritesWhatItSums'
    BY <1>3, <2>1, <2>3, <2>5 DEF KindInv, WritesWhatItSums
  <2>8. BeaconInv'
    <3> SUFFICES ASSUME kind = "beacon" PROVE BeaconInv'
      BY <2>5 DEF BeaconInv
    <3>1. BeaconIes(ssid, channel) \in Seq(Bytes) /\ Len(BeaconIes(ssid, channel)) = Len(ssid) + 15
      BY <1>3, BeaconIesBytes
    <3>2. buf'.ies = BeaconIes(ssid, channel) /\ buf'.len = Len(ssid) + 51 /\ Len(ssid) < 256
      BY <1>3, <2>1 DEF BeaconLen, HDR, FIXED
    <3>3. buf'.len = BeaconLen(Len(ssid))
      BY <1>3, <2>1
    <3> QED BY <2>5, <3>1, <3>2, <3>3 DEF BeaconInv
  <2>9. /\ WalkInv' /\ StandInv' /\ WalkWithinFrame' /\ IntactIsUnderstood'
        /\ TruncatedNeverLies' /\ ReportsItsOwnFrame' /\ OnlyRequestsAccepted'
    BY <2>1 DEF WalkInv, StandInv, WalkWithinFrame, IntactIsUnderstood, TruncatedNeverLies,
                ReportsItsOwnFrame, OnlyRequestsAccepted
  <2> QED BY <2>6, <2>7, <2>8, <2>9
<1>4. CASE result.err # 0
  <2>1. UNCHANGED <<pc, made, buf>> /\ ret' = -28
    BY <1>1, <1>4 DEF RustBuild
  <2>2. TypeOK' /\ ShapeInv' /\ FreshInv'
    BY <1>1, <1>2, <2>1 DEF TypeOK, ShapeInv, FreshInv
  <2>3. /\ KindInv' /\ BeaconInv' /\ WalkInv' /\ StandInv' /\ WritesWhatItSums' /\ WalkWithinFrame'
        /\ IntactIsUnderstood' /\ TruncatedNeverLies' /\ ReportsItsOwnFrame' /\ OnlyRequestsAccepted'
    BY <1>1, <2>1 DEF KindInv, BeaconInv, WalkInv, StandInv, WritesWhatItSums, WalkWithinFrame,
                IntactIsUnderstood, TruncatedNeverLies, ReportsItsOwnFrame, OnlyRequestsAccepted
  <2> QED BY <2>2, <2>3
<1> QED BY <1>3, <1>4

(* build_beacon, build_probe_request, build_assoc_resp, and the request of  *)
(* a station.                                                               *)
LEMMA SendKeepsInv ==
  ASSUME FramesInv, SendBeacon \/ SendProbeReq \/ SendAssocResp \/ SendAssocReq
  PROVE  FramesInv'
<1>1. \A s \in Ssids : s \in Seq(Bytes) /\ Len(s) < 256 /\ Len(s) \in Nat
  <2> SUFFICES ASSUME NEW s \in Ssids PROVE s \in Seq(Bytes) /\ Len(s) < 256 /\ Len(s) \in Nat
    OBVIOUS
  <2>1. s \in Seq(Bytes) /\ Len(s) < 256
    BY FramesAssumption, Zenon
  <2> QED BY <2>1
<1>2. 0 \in Bytes /\ <<>> \in Seq(Bytes)
  BY DEF Bytes
<1>3. CASE SendBeacon
  <2>0. PICK ssid \in Ssids, channel \in Channels : \E room \in Rooms(BeaconLen(Len(ssid))) :
           RustBuild("beacon", ssid, channel, room, BuildBeacon(ssid, "ap", channel, room))
    BY <1>3 DEF SendBeacon
  <2>1. PICK room \in Rooms(BeaconLen(Len(ssid))) :
           RustBuild("beacon", ssid, channel, room, BuildBeacon(ssid, "ap", channel, room))
    BY <2>0
  <2> DEFINE result == BuildBeacon(ssid, "ap", channel, room)
  <2>2. ssid \in Seq(Bytes) /\ Len(ssid) < 256 /\ Len(ssid) \in Nat /\ channel \in Bytes
    BY <1>1, FramesAssumption
  <2>3. BeaconLen(Len(ssid)) = Len(ssid) + 51 /\ Before("beacon") = 36
    BY <2>2 DEF BeaconLen, HDR, FIXED, Before
  <2>4. room \in Int
    BY <2>2, <2>3 DEF Rooms
  <2>5. /\ BeaconIes(ssid, channel) \in Seq(Bytes)
        /\ Len(BeaconIes(ssid, channel)) = Len(ssid) + 15
    BY <2>2, BeaconIesBytes
  <2>6. result.err \in {0, -28}
    BY DEF BuildBeacon, Refused
  <2>7. ASSUME result.err = 0
        PROVE  /\ result.frame = [fc |-> 128, addr2 |-> "ap", addr3 |-> "ap",
                                   len |-> BeaconLen(Len(ssid)), ies |-> BeaconIes(ssid, channel)]
               /\ room >= BeaconLen(Len(ssid))
    BY <2>2, <2>3, <2>4, <2>7 DEF BuildBeacon, Refused, BeaconIes
  <2>8. ASSUME result.err = 0 PROVE result.frame \in Frames
    BY <2>2, <2>3, <2>5, <2>7, <2>8 DEF Frames, Names
  <2>9. ASSUME result.err = 0
        PROVE  /\ result.frame.len = Before("beacon") + Len(result.frame.ies)
               /\ room >= result.frame.len
               /\ result.frame.fc = 128 /\ result.frame.addr3 = "ap"
               /\ result.frame.len = BeaconLen(Len(ssid))
               /\ result.frame.ies = BeaconIes(ssid, channel)
    BY <2>2, <2>3, <2>5, <2>7, <2>9
  <2>10. "beacon" \in Kinds \ {"none"}
    BY DEF Kinds
  <2>11. RustBuild("beacon", ssid, channel, room, result)
    BY <2>1
  <2> HIDE DEF result
  <2> QED BY <2>2, <2>4, <2>6, <2>8, <2>9, <2>10, <2>11, BuildKeepsInv
<1>4. CASE SendProbeReq
  <2>0. PICK ssid \in Ssids : \E room \in Rooms(HDR + 2 + Len(ssid) + 10) :
           RustBuild("probe_req", ssid, 0, room, BuildProbeRequest(ssid, "sta", room))
    BY <1>4 DEF SendProbeReq
  <2>1. PICK room \in Rooms(HDR + 2 + Len(ssid) + 10) :
           RustBuild("probe_req", ssid, 0, room, BuildProbeRequest(ssid, "sta", room))
    BY <2>0
  <2> DEFINE result == BuildProbeRequest(ssid, "sta", room)
             ies == SsidIe(ssid) \o RatesIe
  <2>2. ssid \in Seq(Bytes) /\ Len(ssid) < 256 /\ Len(ssid) \in Nat
    BY <1>1
  <2>3. Before("probe_req") = 24 /\ HDR + 2 + Len(ssid) + 10 = Len(ssid) + 36
    BY <2>2 DEF HDR, Before
  <2>4. room \in Int
    BY <2>2, <2>3 DEF Rooms
  <2>5. ies \in Seq(Bytes) /\ Len(ies) = Len(ssid) + 12
    <3>1. SsidIe(ssid) \in Seq(Bytes) /\ Len(SsidIe(ssid)) = 2 + Len(ssid)
      BY <2>2, SsidIeBytes
    <3>2. ies \in Seq(Bytes) /\ Len(ies) = Len(SsidIe(ssid)) + Len(RatesIe)
      BY <3>1, RatesIeBytes, Joined, Zenon
    <3> QED BY <2>2, <3>1, <3>2, RatesIeBytes
  <2>6. result.err \in {0, -28}
    BY DEF BuildProbeRequest, Refused
  <2>7. ASSUME result.err = 0
        PROVE  /\ result.frame = [fc |-> 64, addr2 |-> "sta", addr3 |-> "broadcast",
                                   len |-> HDR + 2 + Len(ssid) + 10, ies |-> ies]
               /\ room >= HDR + 2 + Len(ssid) + 10
    BY <2>2, <2>3, <2>4, <2>7 DEF BuildProbeRequest, Refused
  <2> HIDE DEF ies
  <2>8. ASSUME result.err = 0 PROVE result.frame \in Frames
    BY <2>2, <2>3, <2>5, <2>7, <2>8 DEF Frames, Names
  <2>9. ASSUME result.err = 0
        PROVE  /\ result.frame.len = Before("probe_req") + Len(result.frame.ies)
               /\ room >= result.frame.len
               /\ result.frame.fc = 64
    BY <2>2, <2>3, <2>5, <2>7, <2>9
  <2>10. "probe_req" \in Kinds \ {"none"}
    BY DEF Kinds
  <2>11. RustBuild("probe_req", ssid, 0, room, result)
    BY <2>1
  <2> HIDE DEF result
  <2> QED BY <1>2, <2>2, <2>4, <2>6, <2>8, <2>9, <2>10, <2>11, BuildKeepsInv
<1>5. CASE SendAssocResp
  <2>1. PICK room \in Rooms(HDR + 16) :
           RustBuild("assoc_resp", <<>>, 0, room, BuildAssocResp("ap", room))
    BY <1>5 DEF SendAssocResp
  <2> DEFINE result == BuildAssocResp("ap", room)
  <2>2. Before("assoc_resp") = 30 /\ HDR + 16 = 40 /\ HDR + 6 + 10 = 40
    BY DEF HDR, Before
  <2>3. room \in Int
    BY <2>2 DEF Rooms
  <2>4. result.err \in {0, -28}
    BY DEF BuildAssocResp, Refused
  <2>5. ASSUME result.err = 0
        PROVE  /\ result.frame = [fc |-> 16, addr2 |-> "ap", addr3 |-> "ap",
                                   len |-> 40, ies |-> RatesIe]
               /\ room >= 40
    BY <2>2, <2>3, <2>5 DEF BuildAssocResp, Refused
  <2>6. RustBuild("assoc_resp", <<>>, 0, room, result)
    BY <2>1
  <2> HIDE DEF result
  <2>7. ASSUME result.err = 0 PROVE result.frame \in Frames
    BY <2>5, <2>7, RatesIeBytes DEF Frames, Names
  <2>8. ASSUME result.err = 0
        PROVE  /\ result.frame.len = Before("assoc_resp") + Len(result.frame.ies)
               /\ room >= result.frame.len
               /\ result.frame.fc = 16
    <3>1. result.frame.len = 40 /\ result.frame.ies = RatesIe /\ result.frame.fc = 16 /\ room >= 40
      BY <2>5, <2>8
    <3>2. Len(RatesIe) = 10
      BY RatesIeBytes
    <3> QED BY <2>2, <3>1, <3>2
  <2>9. "assoc_resp" \in Kinds \ {"none"}
    BY DEF Kinds
  <2> QED BY <1>2, <2>3, <2>4, <2>6, <2>7, <2>8, <2>9, BuildKeepsInv
<1>6. CASE SendAssocReq
  <2>1. PICK ssid \in Ssids, fc \in {0, 32} :
           RustBuild("assoc_req", ssid, 0, 512, [err |-> 0, frame |-> AssocReq(fc, "sta", ssid)])
    BY <1>6 DEF SendAssocReq
  <2> DEFINE result == [err |-> 0, frame |-> AssocReq(fc, "sta", ssid)]
  <2>2. ssid \in Seq(Bytes) /\ Len(ssid) < 256 /\ Len(ssid) \in Nat
    BY <1>1
  <2>3. Before("assoc_req") = 28 /\ HDR + 4 + 2 + Len(ssid) = Len(ssid) + 30
    BY <2>2 DEF HDR, Before
  <2>4. SsidIe(ssid) \in Seq(Bytes) /\ Len(SsidIe(ssid)) = Len(ssid) + 2
    BY <2>2, SsidIeBytes
  <2>5. result.err = 0
        /\ result.frame = [fc |-> fc, addr2 |-> "sta", addr3 |-> "ap",
                            len |-> HDR + 4 + 2 + Len(ssid), ies |-> SsidIe(ssid)]
    BY DEF AssocReq
  <2>9. RustBuild("assoc_req", ssid, 0, 512, result)
    BY <2>1
  <2> HIDE DEF result
  <2>6. result.frame \in Frames
    BY <2>2, <2>3, <2>4, <2>5 DEF Frames, Names
  <2>7. /\ result.frame.len = Before("assoc_req") + Len(result.frame.ies)
        /\ 512 >= result.frame.len
        /\ result.frame.addr2 = "sta"
    BY <2>2, <2>3, <2>4, <2>5
  <2>8. "assoc_req" \in Kinds \ {"none"} /\ 512 \in Int
    BY DEF Kinds
  <2> QED BY <1>2, <2>2, <2>5, <2>6, <2>7, <2>8, <2>9, BuildKeepsInv
<1> QED BY <1>3, <1>4, <1>5, <1>6

-----------------------------------------------------------------------------
(* The frame travels.                                                       *)

(* A frame that arrives, typed and filled like this, keeps the invariant.   *)
LEMMA ArrivalKeepsInv ==
  ASSUME FramesInv, pc = "sent", pc' = "arrived", UNCHANGED <<pos, info, reach, out, parser, ret>>,
         buf' \in Frames, made' \in Requests, made'.kind = made.kind,
         made'.fate \in {"whole", "cut", "damaged"},
         buf'.fc = buf.fc, buf'.addr2 = buf.addr2, buf'.addr3 = buf.addr3, BeaconInv'
  PROVE  FramesInv'
<1> USE DEF FramesInv
<1>1. reach = 0
  BY DEF FreshInv
<1>2. buf'.len \in Nat
  BY DEF Frames
<1>3. TypeOK' /\ ShapeInv' /\ FreshInv'
  BY <1>1, <1>2 DEF TypeOK, ShapeInv, FreshInv
<1>4. KindInv'
  BY DEF KindInv
<1>5. /\ WalkInv' /\ StandInv' /\ WritesWhatItSums' /\ WalkWithinFrame'
      /\ IntactIsUnderstood' /\ TruncatedNeverLies' /\ ReportsItsOwnFrame' /\ OnlyRequestsAccepted'
  BY DEF WalkInv, StandInv, WritesWhatItSums, WalkWithinFrame,
         IntactIsUnderstood, TruncatedNeverLies, ReportsItsOwnFrame, OnlyRequestsAccepted
<1> QED BY <1>3, <1>4, <1>5

LEMMA ArriveKeepsInv ==
  ASSUME FramesInv, Arrive
  PROVE  FramesInv'
<1> DEFINE before == Before(made.kind)
<1>1. pc = "sent" /\ pc' = "arrived" /\ UNCHANGED <<pos, info, reach, out, parser, ret>>
  BY DEF Arrive
<1>2. buf \in Frames /\ made \in Requests /\ made.fate = "whole" /\ BeaconInv
  BY <1>1 DEF FramesInv, ShapeInv, FreshInv
<1>3. before \in Nat /\ buf.len = before + Len(buf.ies) /\ (made.kind = "beacon" => before = 36)
  <2>1. made.kind \in Kinds \ {"none"}
    BY <1>1, <1>2 DEF FramesInv, KindInv, Requests
  <2>2. before \in Nat /\ (made.kind = "beacon" => before = 36)
    BY <2>1 DEF Before, Kinds, HDR, FIXED
  <2> QED BY <1>1, <2>2 DEF FramesInv, WritesWhatItSums
<1>4. buf.ies \in Seq(Bytes) /\ Len(buf.ies) \in Nat
  BY <1>2 DEF Frames
<1>5. CASE UNCHANGED <<buf, made>>
  <2>1. BeaconInv'
    BY <1>1, <1>2, <1>5 DEF BeaconInv
  <2>2. buf' = buf /\ made' = made
    BY <1>5
  <2> QED BY <1>1, <1>2, <2>1, <2>2, ArrivalKeepsInv
<1>6. CASE \E n \in 0..(buf.len - 1) :
              /\ buf' = [buf EXCEPT !.len = n, !.ies = SubSeq(@, 1, n - before)]
              /\ made' = [made EXCEPT !.fate = "cut"]
  <2>1. PICK n \in 0..(buf.len - 1) :
              /\ buf' = [buf EXCEPT !.len = n, !.ies = SubSeq(@, 1, n - before)]
              /\ made' = [made EXCEPT !.fate = "cut"]
    BY <1>6
  <2> DEFINE short == SubSeq(buf.ies, 1, n - before)
  <2>2. n \in Nat /\ n - before \in Int /\ n - before <= Len(buf.ies)
    BY <1>3, <1>4
  <2>3. \A i \in 1..(n - before) : buf.ies[i] \in Bytes
    BY <1>4, <2>2
  <2>4. /\ short \in Seq(Bytes)
        /\ Len(short) = IF 1 <= n - before THEN (n - before) - 1 + 1 ELSE 0
        /\ \A i \in 1..Len(short) : short[i] = buf.ies[1 + i - 1]
    BY <2>2, <2>3, SubSeqProperties
  <2>5. /\ Len(short) = IF n >= before THEN n - before ELSE 0
        /\ \A i \in 1..Len(short) : short[i] = buf.ies[i]
    BY <1>3, <2>2, <2>4
  <2> HIDE DEF short
  <2>6. /\ buf' = [fc |-> buf.fc, addr2 |-> buf.addr2, addr3 |-> buf.addr3, len |-> n, ies |-> short]
        /\ made' = [kind |-> made.kind, ssid |-> made.ssid, channel |-> made.channel,
                     fits |-> made.fits, fate |-> "cut"]
    BY <1>2, <2>1 DEF Frames, Requests, short
  <2>7. buf' \in Frames
    BY <1>2, <2>2, <2>4, <2>6 DEF Frames
  <2>8. made' \in Requests
    BY <1>2, <2>6 DEF Requests
  <2>9. BeaconInv'
    <3> SUFFICES ASSUME made.kind = "beacon" PROVE BeaconInv'
      BY <2>6 DEF BeaconInv
    <3>1. Len(short) <= Len(buf.ies)
      BY <1>4, <2>2, <2>5, <1>3
    <3>2. Len(made.ssid) < 256
      BY <1>1, <1>2 DEF BeaconInv
    <3>3. \A k \in 1..Len(buf.ies) : /\ k \in DOMAIN BeaconIes(made.ssid, made.channel)
                                   /\ buf.ies[k] = BeaconIes(made.ssid, made.channel)[k]
      BY <1>1, <1>2 DEF BeaconInv
    <3>4. \A k \in 1..Len(short) : k \in 1..Len(buf.ies)
      BY <1>4, <2>4, <3>1
    <3>5. \A k \in 1..Len(short) : /\ k \in DOMAIN BeaconIes(made.ssid, made.channel)
                                 /\ short[k] = BeaconIes(made.ssid, made.channel)[k]
      BY <2>5, <3>3, <3>4
    <3>6. Len(short) = IF n >= 36 THEN n - 36 ELSE 0
      BY <1>3, <2>5
    <3> QED BY <2>6, <3>2, <3>5, <3>6 DEF BeaconInv
  <2> QED BY <1>1, <2>6, <2>7, <2>8, <2>9, ArrivalKeepsInv
<1>7. CASE \E k \in DOMAIN buf.ies, b \in Damage :
              /\ buf' = [buf EXCEPT !.ies[k] = b]
              /\ made' = [made EXCEPT !.fate = "damaged"]
  <2>1. PICK k \in DOMAIN buf.ies, b \in Damage :
              /\ buf' = [buf EXCEPT !.ies[k] = b]
              /\ made' = [made EXCEPT !.fate = "damaged"]
    BY <1>7
  <2> DEFINE hit == [buf.ies EXCEPT ![k] = b]
  <2>2. b \in Bytes /\ k \in 1..Len(buf.ies)
    BY <1>4, FramesAssumption
  <2>3. hit \in Seq(Bytes) /\ Len(hit) = Len(buf.ies)
    BY <1>4, <2>2, ExceptSeq
  <2>4. /\ buf' = [fc |-> buf.fc, addr2 |-> buf.addr2, addr3 |-> buf.addr3, len |-> buf.len,
                   ies |-> hit]
        /\ made' = [kind |-> made.kind, ssid |-> made.ssid, channel |-> made.channel,
                     fits |-> made.fits, fate |-> "damaged"]
    BY <1>2, <2>1 DEF Frames, Requests
  <2> HIDE DEF hit
  <2>5. buf' \in Frames
    BY <1>2, <2>3, <2>4 DEF Frames
  <2>6. made' \in Requests
    BY <1>2, <2>4 DEF Requests
  <2>7. BeaconInv'
    BY <1>1, <1>2, <2>3, <2>4 DEF BeaconInv
  <2> QED BY <1>1, <2>4, <2>5, <2>6, <2>7, ArrivalKeepsInv
<1> QED BY <1>5, <1>6, <1>7 DEF Arrive

-----------------------------------------------------------------------------
(* The parsers.                                                             *)

(* What the reference says depends on the frame alone.                      *)
LEMMA SameFrame ==
  ASSUME UNCHANGED buf
  PROVE  /\ \A q : StartsFrom(q)' = StartsFrom(q)
         /\ Starts' = Starts
         /\ \A id : ElementsWithId(id)' = ElementsWithId(id)
         /\ \A q : Body(q)' = Body(q)
<1>1. \A q : StartsFrom(q)' = StartsFrom(q)
  BY DEF StartsFrom, Ends
<1>2. Starts' = Starts
  BY <1>1 DEF Starts
<1>3. \A id : ElementsWithId(id)' = ElementsWithId(id)
  BY <1>2 DEF ElementsWithId
<1>4. \A q : Body(q)' = Body(q)
  BY DEF Body
<1> QED BY <1>1, <1>2, <1>3, <1>4

LEMMA StartsWithin ==
  ASSUME buf.len \in Nat, buf.len >= 36, buf.ies \in Seq(Bytes), Len(buf.ies) = buf.len - 36
  PROVE  Starts \subseteq 36..(buf.len + 1)
<1>1. 36 \in 36..(buf.len + 1)
  OBVIOUS
<1> QED BY <1>1, StartsUnfold DEF Starts

(* Before the first element nothing is known.                               *)
LEMMA NothingYet ==
  ASSUME buf.len \in Nat, buf.len >= 36, buf.ies \in Seq(Bytes), Len(buf.ies) = buf.len - 36,
         NEW i, i.ssid = <<>>, i.channel = 0
  PROVE  {q \in Starts : q >= 36} = StartsFrom(36) /\ ReportsUpTo(i, 36)
<1>1. \A q \in Starts : q >= 36 /\ ~(q < 36)
  BY StartsWithin
<1>2. {q \in Starts : q >= 36} = StartsFrom(36)
  BY <1>1 DEF Starts
<1>3. {q \in ElementsWithId(0) : q < 36} = {} /\ {q \in ElementsWithId(3) : q < 36} = {}
  BY <1>1 DEF ElementsWithId
<1> QED BY <1>2, <1>3 DEF ReportsUpTo

LEMMA ParseBeaconKeepsInv ==
  ASSUME FramesInv, ParseBeacon
  PROVE  FramesInv'
<1> USE DEF FramesInv
<1>1. pc = "arrived" /\ made.kind = "beacon" /\ parser' = "beacon" /\ UNCHANGED <<made, buf>>
  BY DEF ParseBeacon
<1>2. buf \in Frames /\ made \in Requests /\ info \in Infos /\ reach = 0 /\ BeaconInv /\ KindInv
  BY <1>1 DEF ShapeInv, FreshInv
<1>3. buf.len \in Nat /\ buf.ies \in Seq(Bytes)
  BY <1>2 DEF Frames
<1>4. CASE buf.len < 36 /\ Finish(info, -22) /\ UNCHANGED <<pos, info, reach>>
  <2>1. pc' = "done" /\ ret' = -22 /\ out' = out
    BY <1>4 DEF Finish
  <2>2. TypeOK' /\ ShapeInv' /\ FreshInv'
    BY <1>1, <1>4, <2>1 DEF TypeOK, ShapeInv, FreshInv
  <2>3. KindInv' /\ BeaconInv'
    BY <1>1, <1>2, <2>1 DEF KindInv, BeaconInv
  <2>4. IntactIsUnderstood'
    <3>1. Len(made.ssid) \in Nat
      BY <1>2 DEF Requests
    <3>2. made.fate # "whole"
      BY <1>1, <1>2, <1>4, <3>1 DEF BeaconInv, BeaconLen, HDR, FIXED
    <3> QED BY <1>1, <3>2 DEF IntactIsUnderstood
  <2>5. WalkWithinFrame'
    BY <1>1, <1>2, <1>3, <1>4 DEF WalkWithinFrame
  <2>6. /\ WalkInv' /\ StandInv' /\ WritesWhatItSums' /\ TruncatedNeverLies'
        /\ ReportsItsOwnFrame' /\ OnlyRequestsAccepted'
    BY <1>1, <2>1 DEF WalkInv, StandInv, WritesWhatItSums, TruncatedNeverLies,
                      ReportsItsOwnFrame, OnlyRequestsAccepted
  <2> QED BY <2>2, <2>3, <2>4, <2>5, <2>6
<1>5. CASE /\ buf.len >= 36 /\ pc' = "walk" /\ pos' = 36 /\ reach' = 35
           /\ info' = [NoInfo EXCEPT !.bssid = buf.addr3] /\ UNCHANGED <<out, ret>>
  <2>1. buf.addr3 = "ap" /\ Len(buf.ies) = buf.len - 36
    BY <1>1, <1>2, <1>5 DEF KindInv, BeaconInv
  <2>2. info' = [bssid |-> "ap", ssid |-> <<>>, channel |-> 0]
    BY <1>5, <2>1 DEF NoInfo
  <2>3. <<>> \in Seq(Bytes) /\ 0 \in Bytes /\ Len(<<>>) = 0
    BY DEF Bytes
  <2>4. info'.ssid = <<>> /\ info'.channel = 0 /\ info'.bssid = "ap"
    BY <2>2
  <2>5. info' \in Infos
    BY <2>2, <2>3 DEF Infos
  <2>6. ShapeInv' /\ FreshInv'
    BY <1>1, <1>2, <1>5, <2>5 DEF ShapeInv, FreshInv
  <2>7. TypeOK'
    <3>1. info'.ssid \in Seq(Bytes) /\ Len(info'.ssid) <= 32 /\ info'.channel \in Bytes
      BY <2>3, <2>4
    <3> QED BY <1>1, <1>5, <3>1 DEF TypeOK
  <2>8. KindInv' /\ BeaconInv'
    BY <1>1, <1>2, <1>5 DEF KindInv, BeaconInv
  <2>9. WalkInv'
    <3>1. ({q \in Starts : q >= 36} = StartsFrom(36))'
      BY <1>1, <1>3, <1>5, <2>1, <2>4, NothingYet, SameFrame
    <3>2. ReportsUpTo(info', 36)
      BY <1>3, <1>5, <2>1, <2>4, NothingYet
    <3>3. ReportsUpTo(info, 36)'
      BY <1>1, <3>2, SameFrame DEF ReportsUpTo
    <3>4. 35 < buf.len /\ 36 \in 36..buf.len
      BY <1>3, <1>5
    <3> QED BY <1>1, <1>5, <2>4, <3>1, <3>3, <3>4 DEF WalkInv
  <2>10. StandInv'
    BY <1>5, <2>4 DEF StandInv
  <2>11. WalkWithinFrame'
    BY <1>1, <1>3, <1>5 DEF WalkWithinFrame
  <2>12. /\ WritesWhatItSums' /\ IntactIsUnderstood' /\ TruncatedNeverLies'
         /\ ReportsItsOwnFrame' /\ OnlyRequestsAccepted'
    BY <1>5 DEF WritesWhatItSums, IntactIsUnderstood, TruncatedNeverLies,
                ReportsItsOwnFrame, OnlyRequestsAccepted
  <2> QED BY <2>6, <2>7, <2>8, <2>9, <2>10, <2>11, <2>12
<1> QED BY <1>4, <1>5 DEF ParseBeacon

LEMMA ParseAssocReqKeepsInv ==
  ASSUME FramesInv, ParseAssocReq
  PROVE  FramesInv'
<1> USE DEF FramesInv
<1> DEFINE r == IF buf.len < 28 \/ ~IsAssocReq(buf.fc) THEN -22 ELSE 0
           station == [NoInfo EXCEPT !.bssid = buf.addr2]
<1>1. /\ pc = "arrived" /\ parser' = "assoc_req" /\ pc' = "done" /\ ret' = r
      /\ out' = (IF r = 0 THEN station ELSE out) /\ UNCHANGED <<made, buf, pos, info, reach>>
  BY DEF ParseAssocReq, Finish
<1>2. buf \in Frames /\ made \in Requests /\ reach = 0 /\ BeaconInv /\ KindInv
  BY <1>1 DEF ShapeInv, FreshInv
<1>3. buf.len \in Nat
  BY <1>2 DEF Frames
<1>4. station.ssid = <<>> /\ station.channel = 0 /\ station.bssid = buf.addr2
  BY DEF NoInfo
<1>5. <<>> \in Seq(Bytes) /\ 0 \in Bytes /\ Len(<<>>) = 0
  BY DEF Bytes
<1>6. TypeOK' /\ ShapeInv' /\ FreshInv'
  <2>1. out'.ssid \in Seq(Bytes) /\ Len(out'.ssid) <= 32 /\ out'.channel \in Bytes
    <3> HIDE DEF station
    <3>1. station.ssid \in Seq(Bytes) /\ Len(station.ssid) <= 32 /\ station.channel \in Bytes
      BY <1>4, <1>5
    <3>2. out.ssid \in Seq(Bytes) /\ Len(out.ssid) <= 32 /\ out.channel \in Bytes
      BY DEF TypeOK
    <3>3. out' = station \/ out' = out
      BY <1>1
    <3> QED BY <3>1, <3>2, <3>3
  <2> QED BY <1>1, <2>1 DEF TypeOK, ShapeInv, FreshInv
<1>7. KindInv' /\ BeaconInv'
  BY <1>1, <1>2 DEF KindInv, BeaconInv
<1>8. OnlyRequestsAccepted'
  <2> SUFFICES ASSUME r = 0 PROVE made'.kind = "assoc_req" /\ out'.bssid = "sta"
    BY <1>1 DEF OnlyRequestsAccepted
  <2>1. IsAssocReq(buf.fc)
    OBVIOUS
  <2>2. ~IsAssocReq(128) /\ ~IsAssocReq(64) /\ ~IsAssocReq(16)
    BY DEF IsAssocReq
  <2>3. made.kind \in {"beacon", "probe_req", "assoc_resp", "assoc_req"}
    BY <1>1, <1>2 DEF KindInv, Requests, Kinds
  <2>4. made.kind = "assoc_req" /\ buf.addr2 = "sta"
    BY <1>1, <1>2, <2>1, <2>2, <2>3 DEF KindInv
  <2> QED BY <1>1, <1>4, <2>4
<1>9. WalkWithinFrame'
  BY <1>1, <1>2, <1>3 DEF WalkWithinFrame
<1>10. /\ WalkInv' /\ StandInv' /\ WritesWhatItSums' /\ IntactIsUnderstood'
       /\ TruncatedNeverLies' /\ ReportsItsOwnFrame'
  BY <1>1 DEF WalkInv, StandInv, WritesWhatItSums, IntactIsUnderstood, TruncatedNeverLies,
              ReportsItsOwnFrame
<1> QED BY <1>6, <1>7, <1>8, <1>9, <1>10

LEMMA EmptyShapes == NoFrame \in Frames /\ Nothing \in Requests /\ NoInfo \in Infos
<1>1. <<>> \in Seq(Bytes) /\ 0 \in Bytes
  BY DEF Bytes
<1> QED BY <1>1 DEF NoFrame, Frames, Names, Nothing, Requests, Kinds, NoInfo, Infos

LEMMA ForgetKeepsInv ==
  ASSUME FramesInv, Forget
  PROVE  FramesInv'
<1>1. /\ pc' = "idle" /\ made' = Nothing /\ buf' = NoFrame /\ pos' = 0 /\ info' = NoInfo
      /\ reach' = 0 /\ parser' = "none" /\ ret' = 0 /\ out' = Earlier
  BY DEF Forget
<1>2. <<>> \in Seq(Bytes) /\ 0 \in Bytes /\ Len(<<>>) = 0
  BY DEF Bytes
<1>3. TypeOK'
  BY <1>1, <1>2 DEF TypeOK, Nothing, NoFrame, NoInfo, Earlier
<1>4. ShapeInv' /\ FreshInv'
  BY <1>1, EmptyShapes DEF ShapeInv, FreshInv
<1>5. /\ KindInv' /\ BeaconInv' /\ WalkInv' /\ StandInv' /\ WritesWhatItSums' /\ WalkWithinFrame'
      /\ IntactIsUnderstood' /\ TruncatedNeverLies' /\ ReportsItsOwnFrame' /\ OnlyRequestsAccepted'
  BY <1>1 DEF KindInv, BeaconInv, WalkInv, StandInv, WritesWhatItSums, WalkWithinFrame,
         IntactIsUnderstood, TruncatedNeverLies, ReportsItsOwnFrame, OnlyRequestsAccepted
<1> QED BY <1>3, <1>4, <1>5 DEF FramesInv

LEMMA InitInv == Init => FramesInv
<1> SUFFICES ASSUME Init PROVE FramesInv
  OBVIOUS
<1>1. /\ pc = "idle" /\ made = Nothing /\ buf = NoFrame /\ pos = 0 /\ info = NoInfo
      /\ reach = 0 /\ parser = "none" /\ ret = 0 /\ out = NoInfo
  BY DEF Init
<1>2. <<>> \in Seq(Bytes) /\ 0 \in Bytes /\ Len(<<>>) = 0
  BY DEF Bytes
<1>3. TypeOK
  BY <1>1, <1>2 DEF TypeOK, Nothing, NoFrame, NoInfo
<1>4. ShapeInv /\ FreshInv
  BY <1>1, EmptyShapes DEF ShapeInv, FreshInv
<1>5. /\ KindInv /\ BeaconInv /\ WalkInv /\ StandInv /\ WritesWhatItSums /\ WalkWithinFrame
      /\ IntactIsUnderstood /\ TruncatedNeverLies /\ ReportsItsOwnFrame /\ OnlyRequestsAccepted
  BY <1>1 DEF KindInv, BeaconInv, WalkInv, StandInv, WritesWhatItSums, WalkWithinFrame,
         IntactIsUnderstood, TruncatedNeverLies, ReportsItsOwnFrame, OnlyRequestsAccepted
<1> QED BY <1>3, <1>4, <1>5 DEF FramesInv

-----------------------------------------------------------------------------
(* The element walk.                                                        *)

(* util::copy_bytes of at most 32 bytes of a name.                          *)
LEMMA NameCopied ==
  ASSUME NEW p \in Seq(Bytes)
  PROVE  /\ SubSeq(p, 1, CopyLen(Len(p))) = First32(p)
         /\ First32(p) \in Seq(Bytes) /\ Len(First32(p)) <= 32
         /\ p # <<>> => First32(p) # <<>>
<1>1. Len(p) \in Nat
  OBVIOUS
<1>2. CASE Len(p) <= 32
  <2>1. CopyLen(Len(p)) = Len(p)
    <3>1. \A n \in Nat : n <= 32 => CopyLen(n) = n
      BY DEF CopyLen
    <3> QED BY <1>1, <1>2, <3>1
  <2>2. SubSeq(p, 1, Len(p)) = p
    BY SubSeqFull
  <2>3. First32(p) = p
    BY <1>1, <1>2 DEF First32
  <2> QED BY <1>2, <2>1, <2>2, <2>3
<1>3. CASE Len(p) > 32
  <2>1. CopyLen(Len(p)) = 32
    BY <1>1, <1>3 DEF CopyLen
  <2>2. First32(p) = SubSeq(p, 1, 32)
    BY <1>3 DEF First32
  <2>3. \A i \in 1..32 : p[i] \in Bytes
    BY <1>1, <1>3
  <2>4. SubSeq(p, 1, 32) \in Seq(Bytes) /\ Len(SubSeq(p, 1, 32)) = 32
    BY <2>3, SubSeqProperties
  <2>5. First32(p) # <<>>
    <3>1. Len(<<>>) = 0 /\ 32 # 0
      OBVIOUS
    <3>2. Len(First32(p)) = 32
      BY <2>2, <2>4, Zenon
    <3> QED BY <3>1, <3>2, Zenon
  <2> QED BY <2>1, <2>2, <2>4, <2>5
<1> QED BY <1>1, <1>2, <1>3

(* A beacon the walk is in: its elements are where the reference looks.     *)
InWalk ==
    /\ buf.len \in Nat /\ buf.len >= 36 /\ buf.ies \in Seq(Bytes) /\ Len(buf.ies) = buf.len - 36
    /\ pos \in 36..buf.len

LEMMA AtIs ==
  ASSUME NEW p, NEW i, p < buf.len, p - 35 = i
  PROVE  At(p) = buf.ies[i]
  BY DEF At

(* The test of the loop is that of the reference.                           *)
LEMMA FitsIsEnds ==
  ASSUME InWalk
  PROVE  /\ pos + 2 <= buf.len => /\ At(pos + 1) = buf.ies[pos - 34] /\ At(pos) = buf.ies[pos - 35]
                                  /\ buf.ies[pos - 34] \in 0..255
         /\ (pos + 2 <= buf.len /\ Fits(pos, At(pos + 1))) <=> ~Ends(pos)
<1>1. ASSUME pos + 2 <= buf.len
      PROVE  /\ At(pos + 1) = buf.ies[pos - 34] /\ At(pos) = buf.ies[pos - 35]
             /\ buf.ies[pos - 34] \in 0..255
  <2>1. (pos + 1) < buf.len /\ pos < buf.len /\ (pos + 1) - 35 = pos - 34
    BY <1>1 DEF InWalk
  <2>2. pos - 34 \in 1..Len(buf.ies)
    BY <1>1 DEF InWalk
  <2>3. buf.ies[pos - 34] \in Bytes
    BY <2>2 DEF InWalk
  <2>4. At(pos + 1) = buf.ies[pos - 34] /\ At(pos) = buf.ies[pos - 35]
    BY <2>1, AtIs, Zenon
  <2> QED BY <2>3, <2>4 DEF Bytes
<1>2. (pos + 2 <= buf.len /\ Fits(pos, At(pos + 1))) <=> ~Ends(pos)
  <2>1. CASE pos + 2 <= buf.len
    <3> DEFINE n == buf.ies[pos - 34]
    <3>1. At(pos + 1) = n /\ n \in 0..255
      BY <1>1, <2>1
    <3>2. Ends(pos) <=> n = 0 \/ pos + 2 + n > buf.len
      BY <2>1 DEF Ends, InWalk
    <3> HIDE DEF n
    <3>3. Fits(pos, n) <=> n # 0 /\ pos + (2 + n) <= buf.len
      BY DEF Fits, Advance
    <3> QED BY <2>1, <3>1, <3>2, <3>3 DEF InWalk
  <2>2. CASE pos + 2 > buf.len
    BY <2>2 DEF Ends, InWalk
  <2> QED BY <2>1, <2>2 DEF InWalk
<1> QED BY <1>1, <1>2

(* What the loop takes for the payload is the payload.                      *)
LEMMA PayloadIsBody ==
  ASSUME InWalk, ~Ends(pos)
  PROVE  LET n == buf.ies[pos - 34]
         IN  /\ Payload(pos, n) = Body(pos)
             /\ n \in 1..255 /\ pos + 2 + n <= buf.len
             /\ Body(pos) \in Seq(Bytes) /\ Len(Body(pos)) = n
             /\ \A k \in 1..n : Body(pos)[k] = buf.ies[pos - 34 + k]
<1> DEFINE n == buf.ies[pos - 34]
<1>1. n \in 0..255 /\ pos + 2 <= buf.len /\ n # 0 /\ ~(pos + 2 + n > buf.len)
  <2>1. pos + 2 <= buf.len
    BY DEF Ends, InWalk
  <2> QED BY <2>1, FitsIsEnds DEF Ends
<1>2. Body(pos) = SubSeq(buf.ies, pos - 33, pos - 34 + n)
  BY DEF Body
<1> HIDE DEF n
<1>3. n \in 1..255 /\ pos + 2 + n <= buf.len
  BY <1>1 DEF InWalk
<1>4. pos - 33 \in Int /\ pos - 34 + n \in Int /\ pos - 33 <= pos - 34 + n
      /\ (pos - 34 + n) - (pos - 33) + 1 = n
  BY <1>3 DEF InWalk
<1>5. \A i \in (pos - 33)..(pos - 34 + n) : i \in 1..Len(buf.ies)
  BY <1>3 DEF InWalk
<1>6. \A i \in (pos - 33)..(pos - 34 + n) : buf.ies[i] \in Bytes
  BY <1>5 DEF InWalk
<1>7. /\ Body(pos) \in Seq(Bytes) /\ Len(Body(pos)) = n
      /\ \A i \in 1..n : Body(pos)[i] = buf.ies[(pos - 33) + i - 1]
  BY <1>2, <1>4, <1>6, SubSeqProperties
<1>8. \A k \in 1..n : (pos - 33) + k - 1 = pos - 34 + k
  BY <1>3 DEF InWalk
<1>9. \A k \in 1..n : Body(pos)[k] = buf.ies[pos - 34 + k]
  BY <1>7, <1>8
<1>10. \A k \in 1..n : (pos + 1 + k) < buf.len /\ (pos + 1 + k) - 35 = pos - 34 + k
  BY <1>3 DEF InWalk
<1>11. \A k \in 1..n : At(pos + 1 + k) = Body(pos)[k]
  BY <1>9, <1>10, AtIs, Zenon
<1>12. Payload(pos, n) = [k \in 1..n |-> Body(pos)[k]]
  BY <1>11 DEF Payload
<1>13. Body(pos) = [k \in 1..n |-> Body(pos)[k]]
  BY <1>3, <1>7
<1> QED BY <1>3, <1>7, <1>9, <1>12, <1>13 DEF n

(* One element further, the places before are one more.                     *)
LEMMA OneMoreStart ==
  ASSUME InWalk, ~Ends(pos), {q \in Starts : q >= pos} = StartsFrom(pos)
  PROVE  LET next == pos + 2 + buf.ies[pos - 34]
         IN  /\ next \in 36..buf.len /\ pos \in Starts
             /\ {q \in Starts : q >= next} = StartsFrom(next)
             /\ \A q \in Starts : q < next <=> q < pos \/ q = pos
<1> DEFINE next == pos + 2 + buf.ies[pos - 34]
<1>1. next \in (pos + 1)..buf.len
  <2>1. buf.ies[pos - 34] \in 1..255 /\ pos + 2 + buf.ies[pos - 34] <= buf.len
    BY PayloadIsBody
  <2> DEFINE n == buf.ies[pos - 34]
  <2> HIDE DEF n
  <2>2. n \in 1..255 /\ pos + 2 + n <= buf.len
    BY <2>1 DEF n
  <2>3. pos + 2 + n \in (pos + 1)..buf.len
    BY <2>2 DEF InWalk
  <2> QED BY <2>3 DEF n
<1>2. pos \in 36..(buf.len + 1) /\ StartsFrom(pos) = {pos} \cup StartsFrom(next)
  <2>1. pos \in 36..(buf.len + 1)
    BY DEF InWalk
  <2> QED BY <2>1, StartsUnfold DEF InWalk
<1>3. StartsFrom(next) \subseteq next..(buf.len + 1)
  <2>1. next \in 36..(buf.len + 1)
    BY <1>1 DEF InWalk
  <2> HIDE DEF next
  <2> QED BY <2>1, StartsUnfold DEF InWalk
<1>4. \A q \in Starts : q \in Int
  BY StartsWithin DEF InWalk
<1> HIDE DEF next
<1>5. pos \in Int /\ next \in Int /\ next > pos /\ next \in 36..buf.len
  BY <1>1 DEF InWalk
<1>6. \A q \in StartsFrom(next) : q \in Int /\ q >= next
  BY <1>3, <1>5
<1>7. \A q \in Starts : q >= pos <=> q = pos \/ q \in StartsFrom(next)
  BY <1>2
<1>8. pos \in Starts /\ StartsFrom(next) \subseteq Starts
  BY <1>2
<1>9. \A q \in Starts : q >= next <=> q \in StartsFrom(next)
  BY <1>4, <1>5, <1>6, <1>7
<1>10. \A q \in Starts : q < next <=> q < pos \/ q = pos
  BY <1>4, <1>5, <1>6, <1>7
<1>11. {q \in Starts : q >= next} = StartsFrom(next)
  BY <1>8, <1>9
<1> QED BY <1>5, <1>8, <1>10, <1>11 DEF next

(* An element taken: what is known before the next one.                     *)
LEMMA ReportsExtend ==
  ASSUME NEW S, S \subseteq Nat, NEW p \in S, NEW next \in Nat, p < next,
         \A q \in S : q < next <=> q < p \/ q = p,
         Starts = S, NEW i \in Infos, ReportsUpTo(i, p),
         Body(p) \in Seq(Bytes), Len(Body(p)) \in Nat \ {0}
  PROVE  ReportsUpTo(TakeElement(i, buf.ies[p - 35], Body(p)), next)
         /\ TakeElement(i, buf.ies[p - 35], Body(p)) \in Infos
<1> DEFINE id == buf.ies[p - 35]
           j == TakeElement(i, id, Body(p))
           names == {q \in ElementsWithId(0) : q < p}
           chans == {q \in ElementsWithId(3) : q < p}
           names2 == {q \in ElementsWithId(0) : q < next}
           chans2 == {q \in ElementsWithId(3) : q < next}
<1>1. /\ names = {} <=> i.ssid = <<>>
      /\ \A n \in names : (\A q \in names : n <= q) => i.ssid = First32(Body(n))
      /\ chans = {} => i.channel = 0
      /\ \A n \in chans : (\A q \in chans : q <= n) => i.channel = Body(n)[1]
  BY DEF ReportsUpTo
<1>2. /\ names2 = IF id = 0 THEN names \cup {p} ELSE names
      /\ chans2 = IF id = 3 THEN chans \cup {p} ELSE chans
  BY DEF ElementsWithId
<1>3. /\ \A q \in names : q \in Nat /\ q < p
      /\ \A q \in chans : q \in Nat /\ q < p
  BY DEF ElementsWithId
<1>4. /\ Body(p) # <<>> /\ First32(Body(p)) # <<>> /\ Body(p)[1] \in Bytes
      /\ First32(Body(p)) \in Seq(Bytes)
      /\ SubSeq(Body(p), 1, CopyLen(Len(Body(p)))) = First32(Body(p))
  <2>1. Body(p) # <<>> /\ 1 \in 1..Len(Body(p))
    OBVIOUS
  <2>2. Body(p)[1] \in Bytes
    BY <2>1
  <2> QED BY <2>1, <2>2, NameCopied
<1>5. CASE id = 0 /\ i.ssid = <<>>
  <2>1. j = [bssid |-> i.bssid, ssid |-> First32(Body(p)), channel |-> i.channel]
    BY <1>4, <1>5 DEF TakeElement, Infos
  <2>2. j.ssid = First32(Body(p)) /\ j.channel = i.channel /\ j \in Infos
    BY <1>4, <2>1 DEF Infos
  <2>3. names2 = {p} /\ chans2 = chans
    BY <1>1, <1>2, <1>5
  <2> HIDE DEF names, chans, names2, chans2, j, id
  <2>4. ReportsUpTo(j, next)
    BY <1>1, <1>4, <2>2, <2>3 DEF ReportsUpTo, names2, chans2
  <2> QED BY <2>2, <2>4 DEF j, id
<1>6. CASE id = 3
  <2>1. j = [bssid |-> i.bssid, ssid |-> i.ssid, channel |-> Body(p)[1]]
    BY <1>6 DEF TakeElement, Infos
  <2>2. j.ssid = i.ssid /\ j.channel = Body(p)[1] /\ j \in Infos
    BY <1>4, <2>1 DEF Infos
  <2>3. names2 = names /\ chans2 = chans \cup {p}
    BY <1>2, <1>6
  <2> HIDE DEF names, chans, names2, chans2, j, id
  <2>4. \A n \in chans2 : (\A q \in chans2 : q <= n) => n = p
    <3> SUFFICES ASSUME NEW n \in chans2, \A q \in chans2 : q <= n, n # p PROVE FALSE
      OBVIOUS
    <3>1. n \in Nat /\ n < p /\ p \in Nat
      BY <1>3, <2>3
    <3>2. p <= n
      BY <2>3
    <3> QED BY <3>1, <3>2
  <2>5. ReportsUpTo(j, next)
    BY <1>1, <2>2, <2>3, <2>4 DEF ReportsUpTo, names2, chans2
  <2> QED BY <2>2, <2>5 DEF j, id
<1>7. CASE id # 3 /\ ~(id = 0 /\ i.ssid = <<>>)
  <2>1. j = i
    BY <1>7 DEF TakeElement
  <2>2. chans2 = chans
    BY <1>2, <1>7
  <2>3. names2 = names \/ (names2 = names \cup {p} /\ names # {})
    BY <1>1, <1>2, <1>7
  <2> HIDE DEF names, chans, names2, chans2, j, id
  <2>4. names2 = {} <=> names = {}
    BY <2>3
  <2>5. \A n \in names2 : (\A q \in names2 : n <= q) =>
                              n \in names /\ (\A q \in names : n <= q)
    BY <1>3, <2>3
  <2>6. ReportsUpTo(i, next)
    BY <1>1, <2>2, <2>4, <2>5 DEF ReportsUpTo, names2, chans2
  <2> QED BY <2>1, <2>6 DEF j, id
<1> QED BY <1>5, <1>6, <1>7

(* In an undamaged beacon the walk goes from name to rates to channel.      *)
LEMMA StandStep ==
  ASSUME InWalk, ~Ends(pos), made \in Requests, made.fate \in {"whole", "cut"}, Len(made.ssid) < 256,
         info \in Infos,
         \A k \in 1..Len(buf.ies) : /\ k \in DOMAIN BeaconIes(made.ssid, made.channel)
                                  /\ buf.ies[k] = BeaconIes(made.ssid, made.channel)[k],
         LET n == Len(made.ssid)
         IN  \/ pos = 36 /\ info.ssid = <<>> /\ info.channel = 0
             \/ n > 0 /\ pos \in {38 + n, 48 + n} /\ info.ssid = First32(made.ssid)
                /\ info.channel = 0
             \/ n > 0 /\ pos = 51 + n /\ info.ssid = First32(made.ssid)
                /\ info.channel = made.channel
  PROVE  LET n == Len(made.ssid)
             next == pos + 2 + buf.ies[pos - 34]
             found == TakeElement(info, buf.ies[pos - 35], Body(pos))
         IN  \/ n > 0 /\ next \in {38 + n, 48 + n} /\ found.ssid = First32(made.ssid)
                /\ found.channel = 0
             \/ n > 0 /\ next = 51 + n /\ found.ssid = First32(made.ssid)
                /\ found.channel = made.channel
<1> DEFINE n == Len(made.ssid)
           ies == BeaconIes(made.ssid, made.channel)
           m == buf.ies[pos - 34]
           found == TakeElement(info, buf.ies[pos - 35], Body(pos))
<1>1. made.ssid \in Seq(Bytes) /\ made.channel \in Bytes /\ n \in Nat
  BY DEF Requests
<1>2. /\ DOMAIN ies = 1..(n + 15)
      /\ ies[1] = 0 /\ ies[2] = n /\ \A k \in 1..n : ies[2 + k] = made.ssid[k]
      /\ ies[n + 3] = 1 /\ ies[n + 4] = 8
      /\ ies[n + 13] = 3 /\ ies[n + 14] = 1 /\ ies[n + 15] = made.channel
  <2>1. /\ ies \in Seq(Bytes) /\ Len(ies) = n + 15
        /\ ies[1] = 0 /\ ies[2] = n /\ \A k \in 1..n : ies[2 + k] = made.ssid[k]
        /\ ies[n + 3] = 1 /\ ies[n + 4] = 8
        /\ ies[n + 13] = 3 /\ ies[n + 14] = 1 /\ ies[n + 15] = made.channel
    BY <1>1, BeaconIesBytes, Zenon
  <2>2. DOMAIN ies = 1..Len(ies)
    BY <2>1, LenProperties
  <2> QED BY <2>1, <2>2, Zenon
<1> HIDE DEF ies
<1>3. /\ m \in 1..255 /\ pos + 2 + m <= buf.len
      /\ Body(pos) \in Seq(Bytes) /\ Len(Body(pos)) = m
      /\ \A k \in 1..m : Body(pos)[k] = buf.ies[pos - 34 + k]
  BY PayloadIsBody
<1> HIDE DEF m, n
<1>4. /\ pos - 34 \in 1..Len(buf.ies) /\ pos - 35 \in 1..Len(buf.ies)
      /\ \A k \in 1..m : pos - 34 + k \in 1..Len(buf.ies)
  <2> DEFINE len == buf.len
  <2>1. len \in Nat /\ pos \in 36..len /\ Len(buf.ies) = len - 36 /\ pos + 2 + m <= len
    BY <1>3 DEF InWalk
  <2> HIDE DEF len
  <2>2. pos - 34 \in 1..(len - 36) /\ pos - 35 \in 1..(len - 36)
    BY <1>3, <2>1
  <2>3. \A k \in 1..m : pos - 34 + k \in 1..(len - 36)
    BY <1>3, <2>1
  <2> QED BY <2>1, <2>2, <2>3
<1>5. /\ pos - 34 \in 1..(n + 15) /\ m = ies[pos - 34] /\ buf.ies[pos - 35] = ies[pos - 35]
      /\ \A k \in 1..m : Body(pos)[k] = ies[pos - 34 + k]
  <2>1. \A k \in 1..Len(buf.ies) : k \in 1..(n + 15) /\ buf.ies[k] = ies[k]
    BY <1>2 DEF ies
  <2> QED BY <1>3, <1>4, <2>1 DEF m
<1>6. CASE pos = 36 /\ info.ssid = <<>> /\ info.channel = 0
  <2>1. m = n /\ buf.ies[pos - 35] = 0
    BY <1>2, <1>5, <1>6
  <2>2. \A k \in 1..n : Body(pos)[k] = made.ssid[k]
    <3>1. \A k \in 1..n : 36 - 34 + k = 2 + k
      BY <1>1
    <3> QED BY <1>2, <1>5, <1>6, <2>1, <3>1
  <2>3. Body(pos) = made.ssid
    BY <1>1, <1>3, <2>1, <2>2, SeqEqual DEF n
  <2>4. found.ssid = SubSeq(made.ssid, 1, CopyLen(Len(made.ssid))) /\ found.channel = 0
    BY <1>6, <2>1, <2>3 DEF TakeElement, Infos
  <2>5. found.ssid = First32(made.ssid)
    BY <1>1, <2>4, NameCopied
  <2>6. n > 0 /\ pos + 2 + m = 38 + n
    BY <1>1, <1>3, <1>6, <2>1
  <2> QED BY <2>4, <2>5, <2>6 DEF n, m
<1>7. CASE n > 0 /\ pos = 38 + n /\ info.ssid = First32(made.ssid) /\ info.channel = 0
  <2>1. pos - 34 = n + 4 /\ pos - 35 = n + 3
    BY <1>1, <1>7
  <2>2. m = 8 /\ buf.ies[pos - 35] = 1
    BY <1>2, <1>5, <2>1
  <2>3. found = info
    BY <2>2 DEF TakeElement
  <2>4. pos + 2 + m = 48 + n
    BY <1>1, <1>7, <2>2
  <2> QED BY <1>7, <2>3, <2>4 DEF n, m
<1>8. CASE n > 0 /\ pos = 48 + n /\ info.ssid = First32(made.ssid) /\ info.channel = 0
  <2>1. pos - 34 = n + 14 /\ pos - 35 = n + 13 /\ pos - 34 + 1 = n + 15
    BY <1>1, <1>8
  <2>2. m = 1 /\ buf.ies[pos - 35] = 3
    BY <1>2, <1>5, <2>1
  <2>3. Body(pos)[1] = made.channel
    BY <1>2, <1>5, <2>1, <2>2
  <2>4. found.ssid = info.ssid /\ found.channel = made.channel
    BY <2>2, <2>3 DEF TakeElement, Infos
  <2>5. pos + 2 + m = 51 + n
    BY <1>1, <1>8, <2>2
  <2> QED BY <1>8, <2>4, <2>5 DEF n, m
<1>9. CASE pos = 51 + n
  BY <1>1, <1>5, <1>9
<1> QED BY <1>6, <1>7, <1>8, <1>9 DEF n

(* A beacon that arrived whole, with a name, is walked to its end.          *)
LEMMA WholeIsWalked ==
  ASSUME InWalk, Ends(pos), made \in Requests, 0 < Len(made.ssid), Len(made.ssid) < 256,
         buf.len = BeaconLen(Len(made.ssid)),
         \A k \in 1..Len(buf.ies) : /\ k \in DOMAIN BeaconIes(made.ssid, made.channel)
                                  /\ buf.ies[k] = BeaconIes(made.ssid, made.channel)[k]
  PROVE  LET n == Len(made.ssid) IN pos # 36 /\ pos # 38 + n /\ pos # 48 + n
<1> DEFINE n == Len(made.ssid)
           ies == BeaconIes(made.ssid, made.channel)
<1>1. made.ssid \in Seq(Bytes) /\ made.channel \in Bytes /\ n \in Nat
  BY DEF Requests
<1>2. ies[2] = n /\ ies[n + 4] = 8 /\ ies[n + 14] = 1
  BY <1>1, BeaconIesBytes
<1> HIDE DEF ies
<1>3. n > 0 /\ buf.len = 51 + n /\ Len(buf.ies) = 15 + n
  BY <1>1 DEF BeaconLen, HDR, FIXED, InWalk
<1>4. \A k \in 1..(15 + n) : buf.ies[k] = ies[k]
  BY <1>3 DEF ies
<1> HIDE DEF n
<1>5. buf.ies[2] = n /\ buf.ies[n + 4] = 8 /\ buf.ies[n + 14] = 1
  BY <1>1, <1>2, <1>3, <1>4
<1>6. ASSUME pos = 36 PROVE FALSE
  <2>1. pos - 34 = 2
    BY <1>6
  <2> QED BY <1>1, <1>3, <1>5, <1>6, <2>1 DEF Ends
<1>7. ASSUME pos = 38 + n PROVE FALSE
  <2>1. pos - 34 = n + 4
    BY <1>1, <1>7
  <2> QED BY <1>1, <1>3, <1>5, <1>7, <2>1 DEF Ends
<1>8. ASSUME pos = 48 + n PROVE FALSE
  <2>1. pos - 34 = n + 14
    BY <1>1, <1>8
  <2> QED BY <1>1, <1>3, <1>5, <1>8, <2>1 DEF Ends
<1> QED BY <1>6, <1>7, <1>8 DEF n

LEMMA WalkKeepsInv ==
  ASSUME FramesInv, Walk
  PROVE  FramesInv'
<1> USE DEF FramesInv
<1>1. pc = "walk" /\ UNCHANGED <<made, buf, parser>>
  BY DEF Walk
<1>2. /\ buf \in Frames /\ made \in Requests /\ info \in Infos /\ BeaconInv /\ KindInv
      /\ parser = "beacon" /\ made.kind = "beacon" /\ info.bssid = "ap" /\ reach < buf.len
      /\ {q \in Starts : q >= pos} = StartsFrom(pos) /\ ReportsUpTo(info, pos)
  BY <1>1 DEF ShapeInv, WalkInv
<1>3. InWalk
  BY <1>1, <1>2 DEF InWalk, WalkInv, BeaconInv, Frames
<1>4. Starts \subseteq Nat
  <2>1. Starts \subseteq 36..(buf.len + 1)
    BY <1>3, StartsWithin DEF InWalk
  <2> QED BY <1>3, <2>1 DEF InWalk
<1>5. /\ Len(made.ssid) < 256 /\ made.ssid \in Seq(Bytes) /\ made.channel \in Bytes
      /\ made.fate = "whole" => buf.len = BeaconLen(Len(made.ssid))
      /\ made.fate \in {"whole", "cut"} =>
            \A k \in 1..Len(buf.ies) :
               /\ k \in DOMAIN BeaconIes(made.ssid, made.channel)
               /\ buf.ies[k] = BeaconIes(made.ssid, made.channel)[k]
  BY <1>1, <1>2 DEF BeaconInv, Requests
<1>6. CASE ~Ends(pos)
  <2> DEFINE n == buf.ies[pos - 34]
             next == pos + 2 + n
             found == TakeElement(info, buf.ies[pos - 35], Body(pos))
  <2>1. /\ Payload(pos, n) = Body(pos) /\ n \in 1..255 /\ next <= buf.len
        /\ Body(pos) \in Seq(Bytes) /\ Len(Body(pos)) = n
    BY <1>3, <1>6, PayloadIsBody
  <2>2. pos + 2 <= buf.len /\ At(pos + 1) = n /\ At(pos) = buf.ies[pos - 35]
        /\ Fits(pos, At(pos + 1))
    BY <1>3, <1>6, FitsIsEnds
  <2>3. /\ info' = TakeElement(info, At(pos), Payload(pos, At(pos + 1)))
        /\ reach' = pos + 1 + At(pos + 1)
        /\ pos' = pos + Advance(At(pos + 1)) /\ UNCHANGED <<pc, out, ret>>
    <3>1. ~(pos + 2 > buf.len)
      BY <1>3, <2>2 DEF InWalk
    <3> QED BY <2>2, <3>1 DEF Walk
  <2>4. info' = found /\ reach' = pos + 1 + n /\ pos' = next /\ pc' = "walk"
        /\ out' = out /\ ret' = ret
    <3>1. pos + (2 + n) = pos + 2 + n
      <4>1. pos \in Int /\ n \in Int
        BY <1>3, <2>1 DEF InWalk
      <4> HIDE DEF n
      <4> QED BY <4>1
    <3> QED BY <1>1, <2>1, <2>2, <2>3, <3>1 DEF Advance
  <2>5. /\ next \in 36..buf.len /\ pos \in Starts
        /\ {q \in Starts : q >= next} = StartsFrom(next)
        /\ \A q \in Starts : q < next <=> q < pos \/ q = pos
    BY <1>2, <1>3, <1>6, OneMoreStart
  <2>6. found \in Infos /\ ReportsUpTo(found, next)
    <3>1. next \in Nat /\ pos < next /\ Len(Body(pos)) \in Nat \ {0}
      <4> HIDE DEF n
      <4>1. pos \in Nat /\ n \in 1..255
        BY <1>3, <2>1 DEF InWalk
      <4> QED BY <2>1, <4>1
    <3>2. \A q \in Starts : q < next <=> q < pos \/ q = pos
      BY <2>5
    <3> HIDE DEF next
    <3> QED BY <1>2, <1>4, <2>1, <2>5, <3>1, <3>2, ReportsExtend
  <2>7. Len(found.ssid) <= 32 /\ found.bssid = "ap"
    <3>1. info.ssid \in Seq(Bytes) /\ Len(info.ssid) <= 32
      BY DEF TypeOK
    <3>2. Len(First32(Body(pos))) <= 32
          /\ SubSeq(Body(pos), 1, CopyLen(Len(Body(pos)))) = First32(Body(pos))
      BY <2>1, NameCopied
    <3>3. /\ found.ssid \in {info.ssid, SubSeq(Body(pos), 1, CopyLen(Len(Body(pos))))}
          /\ found.bssid = info.bssid
      BY <1>2 DEF TakeElement, Infos
    <3> QED BY <1>2, <3>1, <3>2, <3>3
  <2> HIDE DEF found
  <2>8. reach' < buf.len /\ reach' \in Nat /\ pos' \in Nat
    <3> HIDE DEF n
    <3>1. pos \in Nat /\ n \in 1..255 /\ pos + 2 + n <= buf.len /\ buf.len \in Nat
          /\ reach' = pos + 1 + n /\ pos' = pos + 2 + n
      BY <1>3, <2>1, <2>4 DEF InWalk
    <3> QED BY <3>1
  <2>9. TypeOK'
    <3>1. info'.ssid \in Seq(Bytes) /\ Len(info'.ssid) <= 32 /\ info'.channel \in Bytes
      BY <2>4, <2>6, <2>7 DEF Infos
    <3> QED BY <1>1, <2>4, <2>8, <3>1 DEF TypeOK
  <2>10. ShapeInv' /\ FreshInv'
    BY <1>1, <1>2, <2>4, <2>6 DEF ShapeInv, FreshInv
  <2>11. KindInv' /\ BeaconInv'
    BY <1>1, <1>2, <2>4 DEF KindInv, BeaconInv
  <2> HIDE DEF next
  <2>12. WalkInv'
    <3>1. ({q \in Starts : q >= pos})' = StartsFrom(pos)'
      <4>1. Starts' = Starts /\ pos' = next
        BY <1>1, <2>4, SameFrame
      <4>2. StartsFrom(pos)' = StartsFrom(next)
        BY <1>1, <2>4 DEF StartsFrom, Ends
      <4> QED BY <2>5, <4>1, <4>2
    <3>2. ReportsUpTo(info, pos)'
      BY <1>1, <2>4, <2>6, SameFrame DEF ReportsUpTo
    <3>3. buf'.len >= 36 /\ pos' \in 36..buf'.len /\ reach' < buf'.len
      BY <1>1, <1>3, <2>4, <2>5, <2>8 DEF InWalk
    <3>4. info'.bssid = "ap" /\ parser' = "beacon" /\ made'.kind = "beacon"
      BY <1>1, <1>2, <2>4, <2>7
    <3> QED BY <3>1, <3>2, <3>3, <3>4 DEF WalkInv
  <2>13. StandInv'
    <3> SUFFICES ASSUME made.fate \in {"whole", "cut"} PROVE StandInv'
      BY <1>1 DEF StandInv
    <3> DEFINE l == Len(made.ssid)
    <3>1. \/ pos = 36 /\ info.ssid = <<>> /\ info.channel = 0
          \/ l > 0 /\ pos \in {38 + l, 48 + l} /\ info.ssid = First32(made.ssid)
             /\ info.channel = 0
          \/ l > 0 /\ pos = 51 + l /\ info.ssid = First32(made.ssid)
             /\ info.channel = made.channel
      BY <1>1 DEF StandInv
    <3>2. \/ l > 0 /\ next \in {38 + l, 48 + l} /\ found.ssid = First32(made.ssid)
             /\ found.channel = 0
          \/ l > 0 /\ next = 51 + l /\ found.ssid = First32(made.ssid)
             /\ found.channel = made.channel
      BY <1>2, <1>3, <1>5, <1>6, <3>1, StandStep DEF next, found
    <3>3. First32(made.ssid)' = First32(made.ssid)
      BY <1>1 DEF First32
    <3> QED BY <1>1, <2>4, <3>2, <3>3 DEF StandInv
  <2>14. WalkWithinFrame'
    BY <1>1, <2>8 DEF WalkWithinFrame
  <2>15. /\ WritesWhatItSums' /\ IntactIsUnderstood' /\ TruncatedNeverLies'
         /\ ReportsItsOwnFrame' /\ OnlyRequestsAccepted'
    BY <2>4 DEF WritesWhatItSums, IntactIsUnderstood, TruncatedNeverLies,
                ReportsItsOwnFrame, OnlyRequestsAccepted
  <2> QED BY <2>9, <2>10, <2>11, <2>12, <2>13, <2>14, <2>15
<1>7. CASE Ends(pos)
  <2>1. /\ Finish(info, 0) /\ UNCHANGED <<info, pos>>
        /\ reach' = IF pos + 2 <= buf.len THEN pos + 1 ELSE reach
    <3>1. ~(pos + 2 <= buf.len /\ Fits(pos, At(pos + 1)))
      BY <1>3, <1>7, FitsIsEnds
    <3> QED BY <3>1 DEF Walk
  <2>2. pc' = "done" /\ ret' = 0 /\ out' = info
    BY <2>1 DEF Finish
  <2>3. reach' < buf.len /\ reach' \in Nat
    BY <1>2, <1>3, <2>1 DEF InWalk, TypeOK
  <2>4. TypeOK'
    BY <1>1, <2>1, <2>2, <2>3 DEF TypeOK
  <2>5. ShapeInv' /\ FreshInv' /\ KindInv' /\ BeaconInv'
    BY <1>1, <1>2, <2>1, <2>2 DEF ShapeInv, FreshInv, KindInv, BeaconInv
  <2>6. WalkWithinFrame'
    BY <1>1, <2>3 DEF WalkWithinFrame
  <2>7. ReportsItsOwnFrame'
    <3>1. StartsFrom(pos) = {}
      <4>1. pos \in 36..(buf.len + 1)
        BY <1>3 DEF InWalk
      <4> QED BY <1>3, <1>7, <4>1, StartsUnfold DEF InWalk
    <3>2. \A q \in Starts : q < pos
      <4>1. \A q \in Starts : q \in Nat /\ ~(q >= pos)
        BY <1>2, <1>4, <3>1
      <4>2. pos \in Nat
        BY <1>3 DEF InWalk
      <4> QED BY <4>1, <4>2
    <3>3. \A id : {q \in ElementsWithId(id) : q < pos} = ElementsWithId(id)
      BY <3>2 DEF ElementsWithId
    <3>4. LET names == ElementsWithId(0)
              chans == ElementsWithId(3)
          IN  /\ names = {} => info.ssid = <<>>
              /\ \A n \in names : (\A q \in names : n <= q) => info.ssid = First32(Body(n))
              /\ chans = {} => info.channel = 0
              /\ \A n \in chans : (\A q \in chans : q <= n) => info.channel = Body(n)[1]
      BY <1>2, <3>3 DEF ReportsUpTo
    <3> QED BY <1>1, <1>2, <2>2, <3>4, SameFrame DEF ReportsItsOwnFrame
  <2>8. IntactIsUnderstood'
    <3> SUFFICES ASSUME made.fate = "whole", made.ssid # <<>>
                 PROVE  info = [bssid |-> "ap", channel |-> made.channel, ssid |-> First32(made.ssid)]
      BY <1>1, <2>2 DEF IntactIsUnderstood
    <3> DEFINE l == Len(made.ssid)
    <3>1. l \in Nat /\ 0 < l
      BY <1>5
    <3>2. pos # 36 /\ pos # 38 + l /\ pos # 48 + l
      BY <1>2, <1>3, <1>5, <1>7, <3>1, WholeIsWalked
    <3>3. info.ssid = First32(made.ssid) /\ info.channel = made.channel
      BY <1>1, <3>2 DEF StandInv
    <3> QED BY <1>2, <3>3 DEF Infos
  <2>9. TruncatedNeverLies'
    BY <1>1, <2>2 DEF TruncatedNeverLies, StandInv
  <2>10. WalkInv' /\ StandInv' /\ WritesWhatItSums' /\ OnlyRequestsAccepted'
    BY <1>1, <1>2, <2>2 DEF WalkInv, StandInv, WritesWhatItSums, OnlyRequestsAccepted
  <2> QED BY <2>4, <2>5, <2>6, <2>7, <2>8, <2>9, <2>10
<1> QED BY <1>6, <1>7

-----------------------------------------------------------------------------

(* Builders, travel and parsers keep the invariant.                         *)
THEOREM FramesInvariant == Spec => []FramesInv
<1>1. FramesInv /\ [Next]_vars => FramesInv'
  <2> SUFFICES ASSUME FramesInv, [Next]_vars PROVE FramesInv'
    OBVIOUS
  <2>1. CASE SendBeacon \/ SendProbeReq \/ SendAssocResp \/ SendAssocReq
    BY <2>1, SendKeepsInv
  <2>2. CASE Arrive
    BY <2>2, ArriveKeepsInv
  <2>3. CASE ParseBeacon
    BY <2>3, ParseBeaconKeepsInv
  <2>4. CASE Walk
    BY <2>4, WalkKeepsInv
  <2>5. CASE ParseAssocReq
    BY <2>5, ParseAssocReqKeepsInv
  <2>6. CASE Forget
    BY <2>6, ForgetKeepsInv
  <2>7. CASE UNCHANGED vars
    <3>1. UNCHANGED <<pc, made, buf, pos, info, reach, out, parser, ret>>
      BY <2>7 DEF vars
    <3>2. TypeOK' /\ ShapeInv' /\ FreshInv' /\ KindInv' /\ BeaconInv'
      BY <3>1 DEF FramesInv, TypeOK, ShapeInv, FreshInv, KindInv, BeaconInv
    <3>3. WalkInv'
      <4>1. StartsFrom(pos)' = StartsFrom(pos)
        BY <3>1 DEF StartsFrom, Ends
      <4>2. ReportsUpTo(info, pos)' <=> ReportsUpTo(info, pos)
        BY <3>1, SameFrame DEF ReportsUpTo
      <4> QED BY <3>1, <4>1, <4>2, SameFrame DEF FramesInv, WalkInv
    <3>4. StandInv' /\ IntactIsUnderstood' /\ TruncatedNeverLies'
      BY <3>1 DEF FramesInv, StandInv, IntactIsUnderstood, TruncatedNeverLies, First32
    <3>5. ReportsItsOwnFrame'
      BY <3>1, SameFrame DEF FramesInv, ReportsItsOwnFrame
    <3>6. WritesWhatItSums' /\ WalkWithinFrame' /\ OnlyRequestsAccepted'
      BY <3>1 DEF FramesInv, WritesWhatItSums, WalkWithinFrame, OnlyRequestsAccepted
    <3> QED BY <3>2, <3>3, <3>4, <3>5, <3>6 DEF FramesInv
  <2> QED BY <2>1, <2>2, <2>3, <2>4, <2>5, <2>6, <2>7 DEF Next
<1> QED BY <1>1, InitInv, PTL DEF Spec

(* build_beacon, build_probe_request and build_assoc_resp write as many     *)
(* bytes as they compared with the buffer, for names of every length.       *)
THEOREM BuildersFill == Spec => []WritesWhatItSums
<1>1. FramesInv => WritesWhatItSums
  BY DEF FramesInv
<1> QED BY <1>1, FramesInvariant, PTL

(* parse_beacon reads inside the frame, whatever bytes and lengths it has.  *)
THEOREM WalkStaysInside == Spec => []WalkWithinFrame
<1>1. FramesInv => WalkWithinFrame
  BY DEF FramesInv
<1> QED BY <1>1, FramesInvariant, PTL

(* parse_beacon and parse_assoc_req report what is in the frame they were   *)
(* given, and nothing else, for every name, channel, cut and damage.        *)
THEOREM ParsersAreTruthful == Spec => []ParsersTellTheTruth
<1>1. FramesInv => ParsersTellTheTruth
  BY DEF FramesInv, ParsersTellTheTruth
<1> QED BY <1>1, FramesInvariant, PTL
===============================================================================
