------------------------- MODULE StationTable_proofs -------------------------
(***************************************************************************)
(* Proofs about StationTable, for any stations, keys, key indices and TIDs. *)
(*                                                                          *)
(* The invariant speaks about the accesses a callback has still to make: a  *)
(* goal (a register field and the value it should have) is due if the last  *)
(* pending access that touches the field writes that value or, when none    *)
(* touches it, the register shows it already. What mac80211 asked for is a  *)
(* set of goals that are due at the end of the callback; what an access     *)
(* relies on is a set of goals that are due before it.                      *)
(***************************************************************************)
EXTENDS StationTable, SequenceTheorems, TLAPS

-----------------------------------------------------------------------------
(* Registers and accesses.                                                  *)

(* The value a register can hold, as far as the properties depend on it.    *)
Fits(r, v) ==
    /\ r[1] = "dw0" => v \in DW0
    /\ r[1] = "dw1" => v \in Addrs
    /\ r[1] = "dw2" => v \in DW2
    /\ r[1] = "ba" => v \in SUBSET Tids
    /\ r[1] = "pn" => v \in {0, 1}
    /\ r[1] = "pn_hi" => v = 0
    /\ r[1] = "psm" => v \in BOOLEAN

(* The fields that a read-modify-write replaces.                            *)
Part0 == [rv : {1}, kid : KeyIdx, rkv : {0, 1}] \cup [rkv : {0}, kid : {0}]
Part2 == [cipher : {"ccmp"}, adm : {1}] \cup [cipher : {"none"}]
BaBit == [tid : Tids, enable : BOOLEAN]

Flags   == BOOLEAN
Bits    == {0, 1}
TidSets == SUBSET Tids
Links3  == {Dw3(w) : w \in Wcids}
Links4  == {Dw4(w) : w \in Wcids}

Vals == DW0 \cup DW2 \cup Addrs \cup TidSets \cup Bits \cup Flags \cup Keys
        \cup Links3 \cup Links4 \cup Part0 \cup Part2 \cup BaBit

Sound(o) ==
    /\ o.kind = "write" => Fits(o.reg, o.val)
    /\ o.kind = "modify" => \/ o.reg[1] = "dw0" /\ o.val \in Part0
                            \/ o.reg[1] = "dw2" /\ o.val \in Part2
    /\ o.kind = "ba" => o.reg[1] = "ba" /\ o.val \in BaBit

Accesses ==
    {o \in [kind : {"write", "modify", "ba"}, reg : Regs, val : Vals,
            seq : {"none", "ops", "bssid"}] : Sound(o)}

-----------------------------------------------------------------------------
(* Goals.                                                                   *)

(* Field f of register r ("all" of one without fields) has value v.         *)
Goal(r, f, v) == [reg |-> r, field |-> f, val |-> v]

Get(v, f) == IF f = "all" THEN v ELSE v[f]

Shows(rg, g) == Get(rg[g.reg], g.field) = g.val

Touches(o, g) ==
    /\ o.reg = g.reg
    /\ o.kind = "modify" => g.field \in DOMAIN o.val

Meets(o, g) ==
    /\ o.reg = g.reg
    /\ \/ o.kind = "write" /\ Get(o.val, g.field) = g.val
       \/ o.kind = "modify" /\ g.field \in DOMAIN o.val /\ o.val[g.field] = g.val

(* Of the first n accesses of t, the last one that touches the goal meets   *)
(* it, or none touches it.                                                  *)
Hits(t, n, g) ==
    \E i \in 1..n : Meets(t[i], g) /\ \A j \in (i + 1)..n : ~Touches(t[j], g)

Quiet(t, n, g) == \A j \in 1..n : ~Touches(t[j], g)

Due(t, rg, n, g) == Hits(t, n, g) \/ (Quiet(t, n, g) /\ Shows(rg, g))

PsmSet      == Goal(<<"psm", 0>>, "all", TRUE)
PsmClear    == Goal(<<"psm", 0>>, "all", FALSE)
Cipher(w, c) == Goal(<<"dw2", w>>, "cipher", c)
Word(w, i, k) == Goal(<<"tk", w, i>>, "all", k)
Pn(w)       == Goal(<<"pn", w>>, "all", 1)
PnHi(w)     == Goal(<<"pn_hi", w>>, "all", 0)
Link3(w)    == Goal(<<"dw3", w>>, "all", Dw3(w))
Link4(w)    == Goal(<<"dw4", w>>, "all", Dw4(w))
Kid(i)      == Goal(<<"dw0", 1>>, "kid", i)
Rkv         == Goal(<<"dw0", 1>>, "rkv", 1)
AddrHi(a)   == Goal(<<"dw0", 1>>, "addr", a)
AddrLo(a)   == Goal(<<"dw1", 1>>, "all", a)
Cb(h, a)    == Goal(<<"cb0", h>>, "all", a)
BaWord(b)   == Goal(<<"ba", 1>>, "all", b)

-----------------------------------------------------------------------------
(* The invariant.                                                           *)

(* An access that needs PSM_W_FLAG; one that makes entry w encrypt.         *)
IsLink(o) == o.reg[1] \in {"dw3", "dw4"}
Encrypts(o, w) == o.reg = <<"dw2", w>> /\ o.val.cipher = "ccmp"

(* Before each access, what it relies on is due; h are the keys installed.  *)
Ordered(t, rg, h) ==
    /\ \A i \in 1..Len(t) : IsLink(t[i]) => Due(t, rg, i - 1, PsmSet)
    /\ \A i \in 1..Len(t), w \in Wcids :
          Encrypts(t[i], w) =>
              /\ \A m \in 1..4 : Due(t, rg, i - 1, Word(w, m, h[w].key))
              /\ Due(t, rg, i - 1, Pn(w)) /\ Due(t, rg, i - 1, PnHi(w))

AtEnd(g) == Due(todo, reg, Len(todo), g)

RegInv  == reg = [r \in Regs |-> reg[r]] /\ \A r \in Regs : Fits(r, reg[r])
TodoInv == todo \in Seq(Accesses)

(* What mac80211 knows of its interface.                                    *)
VifInv ==
    /\ vif = "none" => clients = {} /\ hw[0] = NoKey
    /\ vif # "none" => up
    /\ vif = "sta" => clients \subseteq {peer}

(* What was last asked of entry 1 belongs to a client; to the one whose     *)
(* address it has, when that is the only client.                            *)
ClientInv ==
    /\ peer # "zero" => peer \in clients
    /\ \A s \in Stations : s \notin clients => ptk[s] = NoKey /\ sess[s] = {}
    /\ hw[1] # NoKey => \E s \in clients : ptk[s] = hw[1]
    /\ \A t \in ba : \E s \in clients : t \in sess[s]
    /\ clients = {peer} => ptk[peer] = hw[1] /\ sess[peer] = ba

MacInv == VifInv /\ ClientInv

LinkInv == up => /\ \A w \in Wcids : AtEnd(Link3(w)) /\ AtEnd(Link4(w))
                 /\ AtEnd(PsmClear)

KeyInv ==
    /\ \A w \in Wcids : hw[w] = NoKey => AtEnd(Cipher(w, "none"))
    /\ hw[1] # NoKey => /\ AtEnd(Cipher(1, "ccmp")) /\ AtEnd(Kid(hw[1].idx)) /\ AtEnd(Rkv)
                        /\ \A i \in 1..4 : AtEnd(Word(1, i, hw[1].key))

PeerInv == peer # "zero" => AtEnd(AddrHi(peer)) /\ AtEnd(AddrLo(peer))

BssidInv ==
    /\ vif = "ap" => \A h \in {0, 1} : AtEnd(Cb(h, "own"))
    /\ vif = "sta" /\ peer # "zero" => \A h \in {0, 1} : AtEnd(Cb(h, peer))

BaInv ==
    clients # {} =>
        \/ AtEnd(BaWord(ba))
        \/ /\ Len(todo) = 1 /\ todo[1].kind = "ba" /\ todo[1].reg = <<"ba", 1>>
           /\ MergeBa(reg[<<"ba", 1>>], todo[1].val) = ba

GoalInv == Ordered(todo, reg, hw) /\ LinkInv /\ KeyInv /\ PeerInv /\ BssidInv /\ BaInv

StationInv == TypeOK /\ RegInv /\ TodoInv /\ MacInv /\ (~err => GoalInv)

-----------------------------------------------------------------------------
(* One access.                                                              *)

NewVal(old, o) ==
    CASE o.kind = "write"  -> o.val
      [] o.kind = "modify" -> Merge(old, o.val)
      [] o.kind = "ba"     -> MergeBa(old, o.val)

After(rg, o) == [rg EXCEPT ![o.reg] = NewVal(rg[o.reg], o)]

(* A goal names a register and one of its fields.                           *)
GoalOK(g) ==
    /\ g.reg \in Regs
    /\ \/ g.reg[1] = "dw0" /\ g.field \in {"addr", "rv", "rkv", "kid"}
       \/ g.reg[1] = "dw2" /\ g.field \in {"cipher", "adm"}
       \/ g.reg[1] \notin {"dw0", "dw2"} /\ g.field = "all"

Bank(rg) == rg = [r \in Regs |-> rg[r]] /\ \A r \in Regs : Fits(r, rg[r])

LEMMA AccessFields ==
  ASSUME NEW o \in Accesses
  PROVE  o.kind \in {"write", "modify", "ba"} /\ o.reg \in Regs /\ Sound(o)
BY DEF Accesses

(* Replacing some fields keeps the others.                                  *)
LEMMA Merge0 ==
  ASSUME NEW old \in DW0, NEW f \in Part0
  PROVE  /\ Merge(old, f) \in DW0
         /\ \A x \in DOMAIN f : Merge(old, f)[x] = f[x]
         /\ \A x \in {"addr", "rv", "rkv", "kid"} \ DOMAIN f : Merge(old, f)[x] = old[x]
BY DEF DW0, Merge, Part0

LEMMA Merge2 ==
  ASSUME NEW old \in DW2, NEW f \in Part2
  PROVE  /\ Merge(old, f) \in DW2
         /\ \A x \in DOMAIN f : Merge(old, f)[x] = f[x]
         /\ \A x \in {"cipher", "adm"} \ DOMAIN f : Merge(old, f)[x] = old[x]
BY DEF DW2, Merge, Part2

(* A register keeps its kind of value.                                      *)
LEMMA NewFits ==
  ASSUME NEW o \in Accesses, NEW old, Fits(o.reg, old)
  PROVE  Fits(o.reg, NewVal(old, o))
<1>1. o.kind \in {"write", "modify", "ba"} /\ Sound(o)
  BY AccessFields
<1>2. CASE o.kind = "write"
  BY <1>1, <1>2 DEF NewVal, Sound
<1>3. CASE o.kind = "modify"
  <2>1. NewVal(old, o) = Merge(old, o.val)
    BY <1>3 DEF NewVal
  <2>2. CASE o.reg[1] = "dw0" /\ o.val \in Part0
    <3>1. old \in DW0
      BY <2>2 DEF Fits
    <3>2. Merge(old, o.val) \in DW0
      BY <3>1, <2>2, Merge0
    <3> QED BY <2>1, <2>2, <3>2 DEF Fits
  <2>3. CASE o.reg[1] = "dw2" /\ o.val \in Part2
    <3>1. old \in DW2
      BY <2>3 DEF Fits
    <3>2. Merge(old, o.val) \in DW2
      BY <3>1, <2>3, Merge2
    <3> QED BY <2>1, <2>3, <3>2 DEF Fits
  <2> QED BY <1>1, <1>3, <2>2, <2>3 DEF Sound
<1>4. CASE o.kind = "ba"
  <2>1. NewVal(old, o) = MergeBa(old, o.val)
    BY <1>4 DEF NewVal
  <2>2. o.reg[1] = "ba" /\ o.val.tid \in Tids
    BY <1>1, <1>4 DEF Sound, BaBit
  <2>3. old \in SUBSET Tids
    BY <2>2 DEF Fits
  <2>4. MergeBa(old, o.val) \in SUBSET Tids
    BY <2>2, <2>3 DEF MergeBa
  <2> QED BY <2>1, <2>2, <2>4 DEF Fits
<1> QED BY <1>1, <1>2, <1>3, <1>4

LEMMA AfterBank ==
  ASSUME NEW rg, Bank(rg), NEW o \in Accesses
  PROVE  Bank(After(rg, o))
<1>1. o.reg \in Regs
  BY AccessFields
<1>2. Fits(o.reg, NewVal(rg[o.reg], o))
  BY <1>1, NewFits DEF Bank
<1> DEFINE v == NewVal(rg[o.reg], o) 
<1>3. Fits(o.reg, v)
  BY <1>2
<1>4. After(rg, o) = [rg EXCEPT ![o.reg] = v]
  BY DEF After
<1> HIDE DEF v
<1> QED BY <1>1, <1>3, <1>4 DEF Bank

(* An access that meets a goal leaves the register showing it, and one that *)
(* does not touch it leaves what is there.                                  *)
LEMMA AfterShows ==
  ASSUME NEW rg, Bank(rg), NEW o \in Accesses, NEW g, GoalOK(g),
         Meets(o, g) \/ (~Touches(o, g) /\ Shows(rg, g))
  PROVE  Shows(After(rg, o), g)
<1>1. o.kind \in {"write", "modify", "ba"} /\ o.reg \in Regs /\ Sound(o)
  BY AccessFields
<1> DEFINE v == NewVal(rg[o.reg], o) 
<1>2. After(rg, o) = [rg EXCEPT ![o.reg] = v]
  BY DEF After
<1>3. After(rg, o)[o.reg] = v /\ (g.reg # o.reg => After(rg, o)[g.reg] = rg[g.reg])
  <2> HIDE DEF v
  <2> QED BY <1>1, <1>2 DEF Bank, GoalOK
<1>4. CASE o.reg # g.reg
  BY <1>3, <1>4 DEF Meets, Shows
<1>5. CASE o.reg = g.reg /\ o.kind = "write"
  BY <1>3, <1>5 DEF Meets, Touches, Shows, NewVal
<1>6. CASE o.reg = g.reg /\ o.kind = "ba"
  BY <1>6 DEF Meets, Touches
<1>7. CASE o.reg = g.reg /\ o.kind = "modify"
  <2>1. v = Merge(rg[o.reg], o.val)
    BY <1>7 DEF NewVal
  <2>2. Fits(o.reg, rg[o.reg])
    BY <1>1 DEF Bank
  <2>3. \/ g.field \in DOMAIN o.val /\ o.val[g.field] = g.val
        \/ g.field \notin DOMAIN o.val /\ Shows(rg, g)
    BY <1>7 DEF Meets, Touches
  <2>4. CASE o.reg[1] = "dw0" /\ o.val \in Part0
    <3>1. rg[o.reg] \in DW0
      BY <2>2, <2>4 DEF Fits
    <3>2. g.field \in {"addr", "rv", "rkv", "kid"} /\ g.field # "all"
      BY <1>7, <2>4 DEF GoalOK
    <3>3. Merge(rg[o.reg], o.val)[g.field] = g.val
      BY <3>1, <3>2, <2>3, <2>4, <1>7, Merge0 DEF Shows, Get
    <3> QED BY <3>2, <3>3, <2>1, <1>3, <1>7 DEF Shows, Get
  <2>5. CASE o.reg[1] = "dw2" /\ o.val \in Part2
    <3>1. rg[o.reg] \in DW2
      BY <2>2, <2>5 DEF Fits
    <3>2. g.field \in {"cipher", "adm"} /\ g.field # "all"
      BY <1>7, <2>5 DEF GoalOK
    <3>3. Merge(rg[o.reg], o.val)[g.field] = g.val
      BY <3>1, <3>2, <2>3, <2>5, <1>7, Merge2 DEF Shows, Get
    <3> QED BY <3>2, <3>3, <2>1, <1>3, <1>7 DEF Shows, Get
  <2> QED BY <1>1, <1>7, <2>4, <2>5 DEF Sound
<1> QED BY <1>1, <1>4, <1>5, <1>6, <1>7

(* Making the first access keeps what is due.                               *)
LEMMA DueLater ==
  ASSUME NEW t \in Seq(Accesses), t # <<>>, NEW rg, Bank(rg), NEW g, GoalOK(g),
         NEW n \in 1..Len(t), Due(t, rg, n, g)
  PROVE  Due(Tail(t), After(rg, t[1]), n - 1, g)
<1>1. t[1] \in Accesses /\ Len(t) \in Nat /\ Len(t) >= 1
  OBVIOUS
<1>2. \A i \in 1..(n - 1) : Tail(t)[i] = t[i + 1]
  BY <1>1
<1>3. CASE Hits(t, n, g)
  <2>1. PICK i \in 1..n : Meets(t[i], g) /\ \A j \in (i + 1)..n : ~Touches(t[j], g)
    BY <1>3 DEF Hits
  <2>2. CASE i = 1
    <3>1. Shows(After(rg, t[1]), g)
      BY <1>1, <2>1, <2>2, AfterShows
    <3>2. Quiet(Tail(t), n - 1, g)
      BY <1>2, <2>1, <2>2 DEF Quiet
    <3> QED BY <3>1, <3>2 DEF Due
  <2>3. CASE i > 1
    <3>1. i - 1 \in 1..(n - 1) /\ Tail(t)[i - 1] = t[i]
      BY <1>2, <2>3
    <3>2. \A j \in ((i - 1) + 1)..(n - 1) : ~Touches(Tail(t)[j], g)
      BY <1>2, <2>1, <2>3
    <3> QED BY <3>1, <3>2, <2>1 DEF Due, Hits
  <2> QED BY <2>2, <2>3
<1>4. CASE Quiet(t, n, g) /\ Shows(rg, g)
  <2>1. ~Touches(t[1], g)
    BY <1>4 DEF Quiet
  <2>2. Shows(After(rg, t[1]), g)
    BY <1>1, <1>4, <2>1, AfterShows
  <2>3. Quiet(Tail(t), n - 1, g)
    BY <1>2, <1>4 DEF Quiet
  <2> QED BY <2>2, <2>3 DEF Due
<1> QED BY <1>3, <1>4 DEF Due

LEMMA GoalsOK ==
  ASSUME NEW w \in Wcids, NEW i \in 1..4, NEW v
  PROVE  /\ GoalOK(PsmSet) /\ GoalOK(PsmClear)
         /\ GoalOK(Cipher(w, v)) /\ GoalOK(Word(w, i, v)) /\ GoalOK(Pn(w)) /\ GoalOK(PnHi(w))
         /\ GoalOK(Link3(w)) /\ GoalOK(Link4(w)) /\ GoalOK(Kid(v)) /\ GoalOK(Rkv)
         /\ GoalOK(AddrHi(v)) /\ GoalOK(AddrLo(v)) /\ GoalOK(Cb(w, v)) /\ GoalOK(BaWord(v))
<1>1. <<"psm", 0>> \in Regs /\ <<"tk", w, i>> \in Regs
  BY DEF Regs
<1>2. \A x \in {"dw0", "dw1", "dw2", "dw3", "dw4", "ba", "pn", "pn_hi", "cb0"}, u \in Wcids :
        <<x, u>> \in Regs
  BY DEF Regs
<1>3. 1 \in Wcids
  BY DEF Wcids
<1>4. /\ <<"dw0", 1>> \in Regs /\ <<"dw1", 1>> \in Regs /\ <<"ba", 1>> \in Regs
      /\ <<"dw2", w>> \in Regs /\ <<"pn", w>> \in Regs /\ <<"pn_hi", w>> \in Regs
      /\ <<"dw3", w>> \in Regs /\ <<"dw4", w>> \in Regs /\ <<"cb0", w>> \in Regs
  BY <1>2, <1>3
<1>5. GoalOK(PsmSet) /\ GoalOK(PsmClear) /\ GoalOK(Word(w, i, v))
  BY <1>1 DEF GoalOK, Goal, PsmSet, PsmClear, Word
<1>6. GoalOK(Cipher(w, v)) /\ GoalOK(Kid(v)) /\ GoalOK(Rkv) /\ GoalOK(AddrHi(v))
  BY <1>4 DEF GoalOK, Goal, Cipher, Kid, Rkv, AddrHi
<1>7. GoalOK(Pn(w)) /\ GoalOK(PnHi(w)) /\ GoalOK(Link3(w)) /\ GoalOK(Link4(w))
  BY <1>4 DEF GoalOK, Goal, Pn, PnHi, Link3, Link4
<1>8. GoalOK(AddrLo(v)) /\ GoalOK(Cb(w, v)) /\ GoalOK(BaWord(v))
  BY <1>4 DEF GoalOK, Goal, AddrLo, Cb, BaWord
<1> QED BY <1>5, <1>6, <1>7, <1>8

(* With no access left, what is due is there.                               *)
LEMMA DueAtOnce ==
  ASSUME NEW t, NEW rg, NEW g, Due(t, rg, 0, g)
  PROVE  Shows(rg, g)
BY DEF Due, Hits

-----------------------------------------------------------------------------
(* Lists of accesses.                                                       *)

LEMMA Joined ==
  ASSUME NEW s \in Seq(Accesses), NEW t \in Seq(Accesses)
  PROVE  /\ s \o t \in Seq(Accesses)
         /\ Len(s) \in Nat /\ Len(t) \in Nat /\ Len(s \o t) = Len(s) + Len(t)
         /\ \A i \in 1..Len(s) : (s \o t)[i] = s[i]
         /\ \A i \in 1..Len(t) : (s \o t)[Len(s) + i] = t[i]
         /\ \A i \in (Len(s) + 1)..Len(s \o t) : i - Len(s) \in 1..Len(t) /\ (s \o t)[i] = t[i - Len(s)]
OBVIOUS

(* A goal met in the second half is met in the whole list.                  *)
LEMMA HitsRight ==
  ASSUME NEW s \in Seq(Accesses), NEW t \in Seq(Accesses), NEW g, NEW n \in 0..Len(t),
         Hits(t, n, g)
  PROVE  Hits(s \o t, Len(s) + n, g)
<1>1. PICK i \in 1..n : Meets(t[i], g) /\ \A j \in (i + 1)..n : ~Touches(t[j], g)
  BY DEF Hits
<1> DEFINE u == s \o t
<1>2. /\ Len(s) \in Nat /\ Len(t) \in Nat /\ Len(u) = Len(s) + Len(t)
      /\ \A k \in 1..Len(t) : u[Len(s) + k] = t[k]
      /\ \A k \in (Len(s) + 1)..Len(u) : k - Len(s) \in 1..Len(t) /\ u[k] = t[k - Len(s)]
  BY Joined
<1> HIDE DEF u
<1>3. Len(s) + i \in 1..(Len(s) + n) /\ Meets(u[Len(s) + i], g)
  BY <1>1, <1>2
<1>4. \A j \in ((Len(s) + i) + 1)..(Len(s) + n) : ~Touches(u[j], g)
  <2> TAKE j \in ((Len(s) + i) + 1)..(Len(s) + n)
  <2>1. u[j] = t[j - Len(s)] /\ j - Len(s) \in (i + 1)..n
    BY <1>1, <1>2
  <2> QED BY <2>1, <1>1
<1>5. Hits(u, Len(s) + n, g)
  BY <1>3, <1>4 DEF Hits
<1> QED BY <1>5 DEF u

(* A goal met in the first half and not touched in the second.              *)
LEMMA HitsLeft ==
  ASSUME NEW s \in Seq(Accesses), NEW t \in Seq(Accesses), NEW g,
         Hits(s, Len(s), g), Quiet(t, Len(t), g)
  PROVE  Hits(s \o t, Len(s \o t), g)
<1>1. PICK i \in 1..Len(s) : Meets(s[i], g) /\ \A j \in (i + 1)..Len(s) : ~Touches(s[j], g)
  BY DEF Hits
<1> DEFINE u == s \o t
<1>2. /\ Len(s) \in Nat /\ Len(t) \in Nat /\ Len(u) = Len(s) + Len(t)
      /\ \A k \in 1..Len(s) : u[k] = s[k]
      /\ \A k \in (Len(s) + 1)..Len(u) : k - Len(s) \in 1..Len(t) /\ u[k] = t[k - Len(s)]
  BY Joined
<1> HIDE DEF u
<1>3. i \in 1..Len(u) /\ Meets(u[i], g)
  BY <1>1, <1>2
<1>4. \A j \in (i + 1)..Len(u) : ~Touches(u[j], g)
  <2> TAKE j \in (i + 1)..Len(u)
  <2>1. CASE j <= Len(s)
    BY <1>1, <1>2, <2>1
  <2>2. CASE j > Len(s)
    <3>1. j - Len(s) \in 1..Len(t) /\ u[j] = t[j - Len(s)]
      BY <1>2, <2>2
    <3> QED BY <3>1 DEF Quiet
  <2> QED BY <2>1, <2>2, <1>2
<1>5. Hits(u, Len(u), g)
  BY <1>3, <1>4 DEF Hits
<1> QED BY <1>5 DEF u

LEMMA QuietBoth ==
  ASSUME NEW s \in Seq(Accesses), NEW t \in Seq(Accesses), NEW g,
         Quiet(s, Len(s), g), Quiet(t, Len(t), g)
  PROVE  Quiet(s \o t, Len(s \o t), g)
<1> DEFINE u == s \o t
<1>2. /\ Len(s) \in Nat /\ Len(t) \in Nat /\ Len(u) = Len(s) + Len(t)
      /\ \A k \in 1..Len(s) : u[k] = s[k]
      /\ \A k \in (Len(s) + 1)..Len(u) : k - Len(s) \in 1..Len(t) /\ u[k] = t[k - Len(s)]
  BY Joined
<1> HIDE DEF u
<1>3. ASSUME NEW j \in 1..Len(u)
      PROVE  ~Touches(u[j], g)
  <2>1. CASE j <= Len(s)
    BY <1>2, <2>1 DEF Quiet
  <2>2. CASE j > Len(s)
    <3>1. j - Len(s) \in 1..Len(t) /\ u[j] = t[j - Len(s)]
      BY <1>2, <2>2
    <3> QED BY <3>1 DEF Quiet
  <2> QED BY <2>1, <2>2, <1>2
<1>4. Quiet(u, Len(u), g)
  BY <1>3 DEF Quiet
<1> QED BY <1>4 DEF u

(* A list that never makes an entry encrypt and unlocks the links itself.   *)
Ready(t) ==
    \A i \in 1..Len(t) : /\ IsLink(t[i]) => Hits(t, i - 1, PsmSet)
                         /\ \A w \in Wcids : ~Encrypts(t[i], w)

LEMMA ReadyOrdered ==
  ASSUME NEW t, Ready(t), NEW rg, NEW h
  PROVE  Ordered(t, rg, h)
BY DEF Ready, Ordered, Due

LEMMA ReadyBoth ==
  ASSUME NEW s \in Seq(Accesses), NEW t \in Seq(Accesses), Ready(s), Ready(t)
  PROVE  Ready(s \o t)
<1> DEFINE u == s \o t
<1>2. /\ Len(s) \in Nat /\ Len(t) \in Nat /\ Len(u) = Len(s) + Len(t)
      /\ \A k \in 1..Len(s) : u[k] = s[k]
      /\ \A k \in (Len(s) + 1)..Len(u) : k - Len(s) \in 1..Len(t) /\ u[k] = t[k - Len(s)]
  BY Joined
<1>3. \A n \in 0..Len(t) : Hits(t, n, PsmSet) => Hits(u, Len(s) + n, PsmSet)
  BY HitsRight
<1> HIDE DEF u
<1>4. ASSUME NEW i \in 1..Len(u)
      PROVE  /\ IsLink(u[i]) => Hits(u, i - 1, PsmSet)
             /\ \A w \in Wcids : ~Encrypts(u[i], w)
  <2>1. CASE i <= Len(s)
    <3>1. i \in 1..Len(s) /\ u[i] = s[i]
      BY <1>2, <2>1
    <3>2. Hits(s, i - 1, PsmSet) => Hits(u, i - 1, PsmSet)
      BY <1>2, <3>1 DEF Hits
    <3> QED BY <3>1, <3>2 DEF Ready
  <2>2. CASE i > Len(s)
    <3>1. i - Len(s) \in 1..Len(t) /\ u[i] = t[i - Len(s)]
      BY <1>2, <2>2
    <3>2. (i - Len(s)) - 1 \in 0..Len(t) /\ Len(s) + ((i - Len(s)) - 1) = i - 1
      BY <1>2, <3>1
    <3>3. Hits(t, (i - Len(s)) - 1, PsmSet) => Hits(u, i - 1, PsmSet)
      BY <1>3, <3>2
    <3> QED BY <3>1, <3>3 DEF Ready
  <2> QED BY <2>1, <2>2, <1>2
<1>5. Ready(u)
  BY <1>4 DEF Ready
<1> QED BY <1>5 DEF u

-----------------------------------------------------------------------------
(* The lists of the callbacks.                                              *)

LEMMA Single ==
  ASSUME NEW x \in Accesses
  PROVE  <<x>> \in Seq(Accesses) /\ Len(<<x>>) = 1 /\ <<x>>[1] = x
OBVIOUS

(* Appending a list of one, two, three or four accesses.                    *)
LEMMA Join ==
  ASSUME NEW s \in Seq(Accesses), NEW t \in Seq(Accesses), NEW n \in Nat, Len(s) = n
  PROVE  /\ s \o t \in Seq(Accesses) /\ Len(s \o t) = n + Len(t)
         /\ \A i \in 1..n : (s \o t)[i] = s[i]
         /\ Len(t) >= 1 => (s \o t)[n + 1] = t[1]
         /\ Len(t) >= 2 => (s \o t)[n + 2] = t[2]
         /\ Len(t) >= 3 => (s \o t)[n + 3] = t[3]
         /\ Len(t) >= 4 => (s \o t)[n + 4] = t[4]
OBVIOUS

LEMMA IsAccess ==
  ASSUME NEW r \in Regs, NEW v \in Vals, Fits(r, v)
  PROVE  Write(r, v) \in Accesses /\ Op(r, v) \in Accesses
<1>1. /\ Write(r, v) \in [kind : {"write", "modify", "ba"}, reg : Regs, val : Vals,
                         seq : {"none", "ops", "bssid"}]
      /\ Op(r, v) \in [kind : {"write", "modify", "ba"}, reg : Regs, val : Vals,
                      seq : {"none", "ops", "bssid"}]
  BY DEF Write, Op
<1>2. Sound(Write(r, v)) /\ Sound(Op(r, v))
  BY DEF Write, Op, Sound
<1> QED BY <1>1, <1>2 DEF Accesses

LEMMA ValsHold ==
  ASSUME NEW x, \/ x \in DW0 \/ x \in DW2 \/ x \in Addrs \/ x \in TidSets
                \/ x \in Bits \/ x \in Flags \/ x \in Keys
                \/ x \in Links3 \/ x \in Links4
                \/ x \in Part0 \/ x \in Part2 \/ x \in BaBit
  PROVE  x \in Vals
BY DEF Vals

(* The values that the lists write.                                         *)
LEMMA Writable ==
  ASSUME NEW a \in Addrs, NEW w \in Wcids, NEW adm \in {0, 1}, NEW rv \in {0, 1}
  PROVE  /\ [addr |-> a, rv |-> rv, rkv |-> 0, kid |-> 0] \in DW0
         /\ [addr |-> a, rv |-> rv, rkv |-> 0, kid |-> 0] \in Vals
         /\ [cipher |-> "none", adm |-> adm] \in DW2
         /\ [cipher |-> "none", adm |-> adm] \in Vals
         /\ a \in Vals /\ Dw3(w) \in Vals /\ Dw4(w) \in Vals
         /\ TRUE \in Vals /\ FALSE \in Vals /\ {} \in Vals /\ 0 \in Vals /\ 1 \in Vals
<1>1. [addr |-> a, rv |-> rv, rkv |-> 0, kid |-> 0] \in DW0
  BY DEF DW0
<1>2. [cipher |-> "none", adm |-> adm] \in DW2
  BY DEF DW2
<1>3. Dw3(w) \in Links3 /\ Dw4(w) \in Links4
  BY DEF Links3, Links4
<1>4. TRUE \in Flags /\ FALSE \in Flags /\ {} \in TidSets /\ 0 \in Bits /\ 1 \in Bits
  BY DEF Flags, TidSets, Bits
<1>5. Dw3(w) \in Vals /\ Dw4(w) \in Vals
  BY <1>3, ValsHold
<1>6. TRUE \in Vals /\ FALSE \in Vals /\ {} \in Vals /\ 0 \in Vals /\ 1 \in Vals
  BY <1>4, ValsHold, Zenon
<1> QED BY <1>1, <1>2, <1>5, <1>6, ValsHold

LEMMA Registers ==
  ASSUME NEW w \in Wcids
  PROVE  /\ <<"psm", 0>> \in Regs /\ \A i \in 1..4 : <<"tk", w, i>> \in Regs
         /\ <<"dw0", w>> \in Regs /\ <<"dw1", w>> \in Regs /\ <<"dw2", w>> \in Regs
         /\ <<"dw3", w>> \in Regs /\ <<"dw4", w>> \in Regs /\ <<"ba", w>> \in Regs
         /\ <<"pn", w>> \in Regs /\ <<"pn_hi", w>> \in Regs /\ <<"cb0", w>> \in Regs
<1>1. <<"psm", 0>> \in Regs /\ \A i \in 1..4 : <<"tk", w, i>> \in Regs
  BY DEF Regs
<1>2. \A x \in {"dw0", "dw1", "dw2", "dw3", "dw4", "ba", "pn", "pn_hi", "cb0"} :
        <<x, w>> \in Regs
  BY DEF Regs
<1> QED BY <1>1, <1>2

LEMMA EntryList ==
  ASSUME NEW w \in Wcids, NEW a \in Addrs, NEW adm \in {0, 1}
  PROVE  /\ Entry(w, a, adm) \in Seq(Accesses) /\ Len(Entry(w, a, adm)) = 3
         /\ Entry(w, a, adm)[1] = Op(<<"dw0", w>>, [addr |-> a, rv |-> 1, rkv |-> 0, kid |-> 0])
         /\ Entry(w, a, adm)[2] = Op(<<"dw1", w>>, a)
         /\ Entry(w, a, adm)[3] = Op(<<"dw2", w>>, [cipher |-> "none", adm |-> adm])
<1> DEFINE v0 == [addr |-> a, rv |-> 1, rkv |-> 0, kid |-> 0]
           v2 == [cipher |-> "none", adm |-> adm]
<1>1. v0 \in DW0 /\ v0 \in Vals /\ v2 \in DW2 /\ v2 \in Vals /\ a \in Vals
  BY Writable
<1>2. <<"dw0", w>> \in Regs /\ <<"dw1", w>> \in Regs /\ <<"dw2", w>> \in Regs
  BY Registers
<1> HIDE DEF v0, v2
<1>3. Fits(<<"dw0", w>>, v0) /\ Fits(<<"dw1", w>>, a) /\ Fits(<<"dw2", w>>, v2)
  BY <1>1 DEF Fits
<1>4. /\ Op(<<"dw0", w>>, v0) \in Accesses /\ Op(<<"dw1", w>>, a) \in Accesses
      /\ Op(<<"dw2", w>>, v2) \in Accesses
  BY <1>1, <1>2, <1>3, IsAccess
<1>5. Entry(w, a, adm) = << Op(<<"dw0", w>>, v0), Op(<<"dw1", w>>, a), Op(<<"dw2", w>>, v2) >>
  BY DEF Entry, v0, v2
<1>6. /\ Entry(w, a, adm) \in Seq(Accesses) /\ Len(Entry(w, a, adm)) = 3
      /\ Entry(w, a, adm)[1] = Op(<<"dw0", w>>, v0)
      /\ Entry(w, a, adm)[2] = Op(<<"dw1", w>>, a)
      /\ Entry(w, a, adm)[3] = Op(<<"dw2", w>>, v2)
  BY <1>4, <1>5
<1> QED BY <1>6 DEF v0, v2

LEMMA LinkList ==
  ASSUME NEW w \in Wcids
  PROVE  /\ Links(w) \in Seq(Accesses) /\ Len(Links(w)) = 2
         /\ Links(w)[1] = Op(<<"dw3", w>>, Dw3(w))
         /\ Links(w)[2] = Op(<<"dw4", w>>, Dw4(w))
<1>1. Dw3(w) \in Vals /\ Dw4(w) \in Vals
  <2>1. "own" \in Addrs
    BY DEF Addrs
  <2> QED BY <2>1, Writable
<1>2. <<"dw3", w>> \in Regs /\ <<"dw4", w>> \in Regs
  BY Registers
<1>3. \A v : Fits(<<"dw3", w>>, v) /\ Fits(<<"dw4", w>>, v)
  BY DEF Fits
<1>4. Op(<<"dw3", w>>, Dw3(w)) \in Accesses /\ Op(<<"dw4", w>>, Dw4(w)) \in Accesses
  BY <1>1, <1>2, <1>3, IsAccess
<1> QED BY <1>4 DEF Links

LEMMA PsmList ==
  /\ Unlock \in Seq(Accesses) /\ Len(Unlock) = 1 /\ Unlock[1] = Op(<<"psm", 0>>, TRUE)
  /\ Lock \in Seq(Accesses) /\ Len(Lock) = 1 /\ Lock[1] = Op(<<"psm", 0>>, FALSE)
<1>1. TRUE \in Vals /\ FALSE \in Vals
  <2>1. "own" \in Addrs /\ 0 \in Wcids
    BY DEF Addrs, Wcids
  <2> QED BY <2>1, Writable
<1>2. <<"psm", 0>> \in Regs
  BY DEF Regs
<1>3. Fits(<<"psm", 0>>, TRUE) /\ Fits(<<"psm", 0>>, FALSE)
  BY DEF Fits
<1>4. Op(<<"psm", 0>>, TRUE) \in Accesses /\ Op(<<"psm", 0>>, FALSE) \in Accesses
  BY <1>1, <1>2, <1>3, IsAccess
<1> QED BY <1>4, Single, Zenon DEF Unlock, Lock

(* The twelve accesses of build_wtbl_sta_sequence.                          *)
LEMMA WtblList ==
  ASSUME NEW a \in Addrs
  PROVE  /\ WtblSta(a) \in Seq(Accesses) /\ Len(WtblSta(a)) = 12
         /\ WtblSta(a)[1] = Op(<<"dw0", 0>>, [addr |-> "mcast", rv |-> 1, rkv |-> 0, kid |-> 0])
         /\ WtblSta(a)[2] = Op(<<"dw1", 0>>, "mcast")
         /\ WtblSta(a)[3] = Op(<<"dw2", 0>>, [cipher |-> "none", adm |-> 0])
         /\ WtblSta(a)[4] = Op(<<"dw0", 1>>, [addr |-> a, rv |-> 1, rkv |-> 0, kid |-> 0])
         /\ WtblSta(a)[5] = Op(<<"dw1", 1>>, a)
         /\ WtblSta(a)[6] = Op(<<"dw2", 1>>, [cipher |-> "none", adm |-> 1])
         /\ WtblSta(a)[7] = Op(<<"psm", 0>>, TRUE)
         /\ WtblSta(a)[8] = Op(<<"dw3", 0>>, Dw3(0))
         /\ WtblSta(a)[9] = Op(<<"dw4", 0>>, Dw4(0))
         /\ WtblSta(a)[10] = Op(<<"dw3", 1>>, Dw3(1))
         /\ WtblSta(a)[11] = Op(<<"dw4", 1>>, Dw4(1))
         /\ WtblSta(a)[12] = Op(<<"psm", 0>>, FALSE)
<1>1. 0 \in Wcids /\ 1 \in Wcids /\ "mcast" \in Addrs
  BY DEF Wcids, Addrs
<1> DEFINE e0 == Entry(0, "mcast", 0)
           e1 == Entry(1, a, 1)
           l0 == Links(0)
           l1 == Links(1)
           o1 == Op(<<"dw0", 0>>, [addr |-> "mcast", rv |-> 1, rkv |-> 0, kid |-> 0])
           o2 == Op(<<"dw1", 0>>, "mcast")
           o3 == Op(<<"dw2", 0>>, [cipher |-> "none", adm |-> 0])
           o4 == Op(<<"dw0", 1>>, [addr |-> a, rv |-> 1, rkv |-> 0, kid |-> 0])
           o5 == Op(<<"dw1", 1>>, a)
           o6 == Op(<<"dw2", 1>>, [cipher |-> "none", adm |-> 1])
           o7 == Op(<<"psm", 0>>, TRUE)
           o8 == Op(<<"dw3", 0>>, Dw3(0))
           o9 == Op(<<"dw4", 0>>, Dw4(0))
           o10 == Op(<<"dw3", 1>>, Dw3(1))
           o11 == Op(<<"dw4", 1>>, Dw4(1))
           o12 == Op(<<"psm", 0>>, FALSE)
<1>2. e0 \in Seq(Accesses) /\ Len(e0) = 3 /\ e0[1] = o1 /\ e0[2] = o2 /\ e0[3] = o3
  BY <1>1, EntryList
<1>3. e1 \in Seq(Accesses) /\ Len(e1) = 3 /\ e1[1] = o4 /\ e1[2] = o5 /\ e1[3] = o6
  BY <1>1, EntryList
<1>4. l0 \in Seq(Accesses) /\ Len(l0) = 2 /\ l0[1] = o8 /\ l0[2] = o9
  BY <1>1, LinkList
<1>5. l1 \in Seq(Accesses) /\ Len(l1) = 2 /\ l1[1] = o10 /\ l1[2] = o11
  BY <1>1, LinkList
<1>6. /\ Unlock \in Seq(Accesses) /\ Len(Unlock) = 1 /\ Unlock[1] = o7
      /\ Lock \in Seq(Accesses) /\ Len(Lock) = 1 /\ Lock[1] = o12
  BY PsmList
<1> DEFINE u == Unlock
           k == Lock
<1>7. WtblSta(a) = ((((e0 \o e1) \o u) \o l0) \o l1) \o k
  BY DEF WtblSta
<1>8. /\ u \in Seq(Accesses) /\ Len(u) = 1 /\ u[1] = o7
      /\ k \in Seq(Accesses) /\ Len(k) = 1 /\ k[1] = o12
  BY <1>6
<1> HIDE DEF e0, e1, l0, l1, u, k, o1, o2, o3, o4, o5, o6, o7, o8, o9, o10, o11, o12
<1> DEFINE p == e0 \o e1
<1>p. /\ p \in Seq(Accesses) /\ Len(p) = 3 + Len(e1)
      /\ \A i \in 1..3 : p[i] = e0[i]
      /\ Len(e1) >= 1 => p[3 + 1] = e1[1]
      /\ Len(e1) >= 2 => p[3 + 2] = e1[2]
      /\ Len(e1) >= 3 => p[3 + 3] = e1[3]
  <2>1. e0 \in Seq(Accesses) /\ e1 \in Seq(Accesses) /\ 3 \in Nat /\ Len(e0) = 3
    BY <1>2, <1>3
  <2> QED BY <2>1, Join, Zenon
<1> HIDE DEF p
<1>9. /\ p \in Seq(Accesses) /\ Len(p) = 6 /\ p[1] = o1 /\ p[2] = o2 /\ p[3] = o3
      /\ p[4] = o4 /\ p[5] = o5 /\ p[6] = o6
  BY <1>2, <1>3, <1>p
<1> DEFINE q == p \o u
<1>q. /\ q \in Seq(Accesses) /\ Len(q) = 6 + Len(u)
      /\ \A i \in 1..6 : q[i] = p[i]
      /\ Len(u) >= 1 => q[6 + 1] = u[1]
      /\ Len(u) >= 2 => q[6 + 2] = u[2]
      /\ Len(u) >= 3 => q[6 + 3] = u[3]
  <2>1. p \in Seq(Accesses) /\ u \in Seq(Accesses) /\ 6 \in Nat /\ Len(p) = 6
    BY <1>9, <1>8
  <2> QED BY <2>1, Join, Zenon
<1> HIDE DEF q
<1>10. /\ q \in Seq(Accesses) /\ Len(q) = 7 /\ q[1] = o1 /\ q[2] = o2 /\ q[3] = o3
       /\ q[4] = o4 /\ q[5] = o5 /\ q[6] = o6 /\ q[7] = o7
  BY <1>8, <1>9, <1>q
<1> DEFINE r == q \o l0
<1>r. /\ r \in Seq(Accesses) /\ Len(r) = 7 + Len(l0)
      /\ \A i \in 1..7 : r[i] = q[i]
      /\ Len(l0) >= 1 => r[7 + 1] = l0[1]
      /\ Len(l0) >= 2 => r[7 + 2] = l0[2]
      /\ Len(l0) >= 3 => r[7 + 3] = l0[3]
  <2>1. q \in Seq(Accesses) /\ l0 \in Seq(Accesses) /\ 7 \in Nat /\ Len(q) = 7
    BY <1>10, <1>4
  <2> QED BY <2>1, Join, Zenon
<1> HIDE DEF r
<1>11. /\ r \in Seq(Accesses) /\ Len(r) = 9 /\ r[1] = o1 /\ r[2] = o2 /\ r[3] = o3
       /\ r[4] = o4 /\ r[5] = o5 /\ r[6] = o6 /\ r[7] = o7 /\ r[8] = o8 /\ r[9] = o9
  BY <1>4, <1>10, <1>r
<1> DEFINE x == r \o l1
<1>x. /\ x \in Seq(Accesses) /\ Len(x) = 9 + Len(l1)
      /\ \A i \in 1..9 : x[i] = r[i]
      /\ Len(l1) >= 1 => x[9 + 1] = l1[1]
      /\ Len(l1) >= 2 => x[9 + 2] = l1[2]
      /\ Len(l1) >= 3 => x[9 + 3] = l1[3]
  <2>1. r \in Seq(Accesses) /\ l1 \in Seq(Accesses) /\ 9 \in Nat /\ Len(r) = 9
    BY <1>11, <1>5
  <2> QED BY <2>1, Join, Zenon
<1> HIDE DEF x
<1>12. /\ x \in Seq(Accesses) /\ Len(x) = 11 /\ x[1] = o1 /\ x[2] = o2 /\ x[3] = o3
       /\ x[4] = o4 /\ x[5] = o5 /\ x[6] = o6 /\ x[7] = o7 /\ x[8] = o8 /\ x[9] = o9
       /\ x[10] = o10 /\ x[11] = o11
  BY <1>5, <1>11, <1>x
<1> DEFINE y == x \o k
<1>y. /\ y \in Seq(Accesses) /\ Len(y) = 11 + Len(k)
      /\ \A i \in 1..11 : y[i] = x[i]
      /\ Len(k) >= 1 => y[11 + 1] = k[1]
      /\ Len(k) >= 2 => y[11 + 2] = k[2]
      /\ Len(k) >= 3 => y[11 + 3] = k[3]
  <2>1. x \in Seq(Accesses) /\ k \in Seq(Accesses) /\ 11 \in Nat /\ Len(x) = 11
    BY <1>12, <1>8
  <2> QED BY <2>1, Join, Zenon
<1> HIDE DEF y
<1>13. /\ y \in Seq(Accesses) /\ Len(y) = 12 /\ y[1] = o1 /\ y[2] = o2 /\ y[3] = o3
       /\ y[4] = o4 /\ y[5] = o5 /\ y[6] = o6 /\ y[7] = o7 /\ y[8] = o8 /\ y[9] = o9
       /\ y[10] = o10 /\ y[11] = o11 /\ y[12] = o12
  BY <1>8, <1>12, <1>y
<1>14. WtblSta(a) = y
  BY <1>7 DEF p, q, r, x, y
<1> QED BY <1>13, <1>14 DEF o1, o2, o3, o4, o5, o6, o7, o8, o9, o10, o11, o12

LEMMA OpFields ==
  ASSUME NEW r, NEW v
  PROVE  /\ Op(r, v).kind = "write" /\ Op(r, v).reg = r
         /\ Write(r, v).kind = "write" /\ Write(r, v).reg = r
BY DEF Op, Write

(* A write of a register without fields meets the goal it writes.           *)
LEMMA MeetsAll ==
  ASSUME NEW r, NEW v
  PROVE  Meets(Op(r, v), Goal(r, "all", v)) /\ Meets(Write(r, v), Goal(r, "all", v))
BY DEF Meets, Goal, Get, Op, Write

(* What build_wtbl_sta_sequence leaves in the registers.                    *)
LEMMA WtblHits ==
  ASSUME NEW a \in Addrs
  PROVE  /\ \A w \in Wcids : /\ Hits(WtblSta(a), 12, Link3(w)) /\ Hits(WtblSta(a), 12, Link4(w))
                              /\ Hits(WtblSta(a), 12, Cipher(w, "none"))
         /\ Hits(WtblSta(a), 12, PsmClear)
         /\ Hits(WtblSta(a), 12, AddrHi(a)) /\ Hits(WtblSta(a), 12, AddrLo(a))
         /\ \A h, v : Quiet(WtblSta(a), 12, Cb(h, v))
         /\ \A v : Quiet(WtblSta(a), 12, BaWord(v))
         /\ Ready(WtblSta(a))
<1> DEFINE L == WtblSta(a)
<1>1. Len(L) = 12
  BY WtblList
<1>a. /\ L[1] = Op(<<"dw0", 0>>, [addr |-> "mcast", rv |-> 1, rkv |-> 0, kid |-> 0])
      /\ L[2] = Op(<<"dw1", 0>>, "mcast")
      /\ L[3] = Op(<<"dw2", 0>>, [cipher |-> "none", adm |-> 0])
      /\ L[4] = Op(<<"dw0", 1>>, [addr |-> a, rv |-> 1, rkv |-> 0, kid |-> 0])
      /\ L[5] = Op(<<"dw1", 1>>, a)
      /\ L[6] = Op(<<"dw2", 1>>, [cipher |-> "none", adm |-> 1])
      /\ L[8] = Op(<<"dw3", 0>>, Dw3(0))
      /\ L[9] = Op(<<"dw4", 0>>, Dw4(0))
      /\ L[10] = Op(<<"dw3", 1>>, Dw3(1))
      /\ L[11] = Op(<<"dw4", 1>>, Dw4(1))
  BY WtblList, Zenon
<1>b. L[7] = Op(<<"psm", 0>>, TRUE) /\ L[12] = Op(<<"psm", 0>>, FALSE)
  BY WtblList, Zenon
<1>c. /\ L[7].kind = "write" /\ L[7].reg = <<"psm", 0>>
      /\ L[12].kind = "write" /\ L[12].reg = <<"psm", 0>>
  <2>1. Op(<<"psm", 0>>, TRUE).kind = "write" /\ Op(<<"psm", 0>>, TRUE).reg = <<"psm", 0>>
    BY OpFields, Zenon
  <2>2. Op(<<"psm", 0>>, FALSE).kind = "write" /\ Op(<<"psm", 0>>, FALSE).reg = <<"psm", 0>>
    BY OpFields, Zenon
  <2> QED BY <1>b, <2>1, <2>2, Zenon
<1> HIDE DEF L
<1>6. \A j \in 1..12 : j = 1 \/ j = 2 \/ j = 3 \/ j = 4 \/ j = 5 \/ j = 6 \/ j = 7 \/ j = 8 \/ j = 9 \/ j = 10 \/ j = 11 \/ j = 12
  OBVIOUS
<1>2. \A j \in 1..12 : L[j].kind = "write"
  BY <1>a, <1>c, <1>6 DEF Op
<1>3. /\ L[1].reg = <<"dw0", 0>>
      /\ L[2].reg = <<"dw1", 0>>
      /\ L[3].reg = <<"dw2", 0>>
      /\ L[4].reg = <<"dw0", 1>>
      /\ L[5].reg = <<"dw1", 1>>
      /\ L[6].reg = <<"dw2", 1>>
      /\ L[7].reg = <<"psm", 0>>
      /\ L[8].reg = <<"dw3", 0>>
      /\ L[9].reg = <<"dw4", 0>>
      /\ L[10].reg = <<"dw3", 1>>
      /\ L[11].reg = <<"dw4", 1>>
      /\ L[12].reg = <<"psm", 0>>
  BY <1>a, <1>c DEF Op
<1>4. /\ L[3].val.cipher = "none" /\ L[4].val.addr = a /\ L[5].val = a /\ L[6].val.cipher = "none"
      /\ L[8].val = Dw3(0) /\ L[9].val = Dw4(0) /\ L[10].val = Dw3(1) /\ L[11].val = Dw4(1)
  BY <1>a DEF Op
<1>5. Meets(L[7], PsmSet) /\ Meets(L[12], PsmClear)
  BY <1>b, MeetsAll, Zenon DEF PsmSet, PsmClear
<1>7. Hits(L, 12, Link3(0))
  <2>1. Link3(0).reg = <<"dw3", 0>> /\ Link3(0).field = "all"
    BY DEF Link3, Goal
  <2>2. \A j \in (8 + 1)..12 : L[j].reg # <<"dw3", 0>>
    BY <1>3, <1>6
  <2>3. Meets(L[8], Link3(0))
    BY <1>2, <1>3, <1>4, <2>1 DEF Meets, Get, Link3, Goal
  <2> QED BY <2>1, <2>2, <2>3 DEF Hits, Touches
<1>8. Hits(L, 12, Link3(1))
  <2>1. Link3(1).reg = <<"dw3", 1>> /\ Link3(1).field = "all"
    BY DEF Link3, Goal
  <2>2. \A j \in (10 + 1)..12 : L[j].reg # <<"dw3", 1>>
    BY <1>3, <1>6
  <2>3. Meets(L[10], Link3(1))
    BY <1>2, <1>3, <1>4, <2>1 DEF Meets, Get, Link3, Goal
  <2> QED BY <2>1, <2>2, <2>3 DEF Hits, Touches
<1>9. Hits(L, 12, Link4(0))
  <2>1. Link4(0).reg = <<"dw4", 0>> /\ Link4(0).field = "all"
    BY DEF Link4, Goal
  <2>2. \A j \in (9 + 1)..12 : L[j].reg # <<"dw4", 0>>
    BY <1>3, <1>6
  <2>3. Meets(L[9], Link4(0))
    BY <1>2, <1>3, <1>4, <2>1 DEF Meets, Get, Link4, Goal
  <2> QED BY <2>1, <2>2, <2>3 DEF Hits, Touches
<1>10. Hits(L, 12, Link4(1))
  <2>1. Link4(1).reg = <<"dw4", 1>> /\ Link4(1).field = "all"
    BY DEF Link4, Goal
  <2>2. \A j \in (11 + 1)..12 : L[j].reg # <<"dw4", 1>>
    BY <1>3, <1>6
  <2>3. Meets(L[11], Link4(1))
    BY <1>2, <1>3, <1>4, <2>1 DEF Meets, Get, Link4, Goal
  <2> QED BY <2>1, <2>2, <2>3 DEF Hits, Touches
<1>11. Hits(L, 12, Cipher(0, "none"))
  <2>1. Cipher(0, "none").reg = <<"dw2", 0>> /\ Cipher(0, "none").field = "cipher"
    BY DEF Cipher, Goal
  <2>2. \A j \in (3 + 1)..12 : L[j].reg # <<"dw2", 0>>
    BY <1>3, <1>6
  <2>3. Meets(L[3], Cipher(0, "none"))
    BY <1>2, <1>3, <1>4, <2>1 DEF Meets, Get, Cipher, Goal
  <2> QED BY <2>1, <2>2, <2>3 DEF Hits, Touches
<1>12. Hits(L, 12, Cipher(1, "none"))
  <2>1. Cipher(1, "none").reg = <<"dw2", 1>> /\ Cipher(1, "none").field = "cipher"
    BY DEF Cipher, Goal
  <2>2. \A j \in (6 + 1)..12 : L[j].reg # <<"dw2", 1>>
    BY <1>3, <1>6
  <2>3. Meets(L[6], Cipher(1, "none"))
    BY <1>2, <1>3, <1>4, <2>1 DEF Meets, Get, Cipher, Goal
  <2> QED BY <2>1, <2>2, <2>3 DEF Hits, Touches
<1>13. Hits(L, 12, AddrHi(a))
  <2>1. AddrHi(a).reg = <<"dw0", 1>> /\ AddrHi(a).field = "addr"
    BY DEF AddrHi, Goal
  <2>2. \A j \in (4 + 1)..12 : L[j].reg # <<"dw0", 1>>
    BY <1>3, <1>6
  <2>3. Meets(L[4], AddrHi(a))
    BY <1>2, <1>3, <1>4, <2>1 DEF Meets, Get, AddrHi, Goal
  <2> QED BY <2>1, <2>2, <2>3 DEF Hits, Touches
<1>14. Hits(L, 12, AddrLo(a))
  <2>1. AddrLo(a).reg = <<"dw1", 1>> /\ AddrLo(a).field = "all"
    BY DEF AddrLo, Goal
  <2>2. \A j \in (5 + 1)..12 : L[j].reg # <<"dw1", 1>>
    BY <1>3, <1>6
  <2>3. Meets(L[5], AddrLo(a))
    BY <1>2, <1>3, <1>4, <2>1 DEF Meets, Get, AddrLo, Goal
  <2> QED BY <2>1, <2>2, <2>3 DEF Hits, Touches
<1>15. Hits(L, 12, PsmClear)
  <2>1. PsmClear.reg = <<"psm", 0>> /\ PsmClear.field = "all"
    BY DEF PsmClear, Goal
  <2>2. \A j \in (12 + 1)..12 : L[j].reg # <<"psm", 0>>
    BY <1>3, <1>6
  <2>3. Meets(L[12], PsmClear)
    BY <1>5
  <2> QED BY <2>1, <2>2, <2>3 DEF Hits, Touches
<1>16. \A h, v : Quiet(L, 12, Cb(h, v))
  <2>1. \A h : \A j \in 1..12 : L[j].reg # <<"cb0", h>>
    BY <1>3, <1>6
  <2> QED BY <2>1 DEF Quiet, Touches, Cb, Goal
<1>17. \A v : Quiet(L, 12, BaWord(v))
  <2>1. \A j \in 1..12 : L[j].reg # <<"ba", 1>>
    BY <1>3, <1>6
  <2> QED BY <2>1 DEF Quiet, Touches, BaWord, Goal
<1>18. Ready(L)
  <2> SUFFICES ASSUME NEW i \in 1..12
               PROVE  /\ IsLink(L[i]) => Hits(L, i - 1, PsmSet)
                      /\ \A w \in Wcids : ~Encrypts(L[i], w)
    BY <1>1 DEF Ready
  <2>1. \A w \in Wcids : ~Encrypts(L[i], w)
    BY <1>3, <1>4, <1>6 DEF Encrypts
  <2>2. ASSUME IsLink(L[i]) PROVE Hits(L, i - 1, PsmSet)
    <3>1. i \in 8..11
      BY <1>3, <1>6, <2>2 DEF IsLink
    <3>2. Meets(L[7], PsmSet)
      BY <1>5
    <3>3. \A j \in 8..(i - 1) : L[j].reg # <<"psm", 0>>
      BY <3>1, <1>3, <1>6
    <3>4. \A j \in (7 + 1)..(i - 1) : ~Touches(L[j], PsmSet)
      BY <3>3 DEF Touches, PsmSet, Goal
    <3>5. 7 \in 1..(i - 1)
      BY <3>1
    <3> QED BY <3>2, <3>4, <3>5 DEF Hits
  <2> QED BY <2>1, <2>2
<1>19. \A w \in Wcids : w = 0 \/ w = 1
  BY DEF Wcids
<1> QED BY <1>7, <1>8, <1>9, <1>10, <1>11, <1>12, <1>13, <1>14, <1>15, <1>16, <1>17, <1>18, <1>19 DEF L

-----------------------------------------------------------------------------

LEMMA QuietReg ==
  ASSUME NEW t, NEW n, NEW g, \A j \in 1..n : t[j].reg # g.reg
  PROVE  Quiet(t, n, g)
BY DEF Quiet, Touches

(* A pair of writes to the BSSID registers.                                 *)
SetsBssid(t, a) ==
    /\ t \in Seq(Accesses) /\ Len(t) = 2
    /\ t[1].kind = "write" /\ t[1].reg = <<"cb0", 0>> /\ t[1].val = a
    /\ t[2].kind = "write" /\ t[2].reg = <<"cb0", 1>> /\ t[2].val = a

LEMMA TwoAccesses ==
  ASSUME NEW f \in [1..2 -> Accesses]
  PROVE  f \in Seq(Accesses) /\ Len(f) = 2
<1>1. f \in Seq(Accesses)
  BY SeqDef
<1>2. Len(f) \in Nat /\ DOMAIN f = 1..Len(f)
  BY <1>1, LenProperties
<1>3. 1..Len(f) = 1..2
  BY <1>2
<1>4. Len(f) = 2
  <2>1. 2 \in 1..Len(f) /\ (Len(f) >= 1 => Len(f) \in 1..2)
    BY <1>2, <1>3
  <2> QED BY <1>2, <2>1
<1> QED BY <1>1, <1>4

LEMMA BssidList ==
  ASSUME NEW a \in Addrs
  PROVE  SetsBssid(Bssid(a), a) /\ SetsBssid(BssidChecked(a), a)
<1>1. <<"cb0", 0>> \in Regs /\ <<"cb0", 1>> \in Regs
  BY Registers DEF Wcids
<1>2. a \in Vals
  BY ValsHold
<1>3. Fits(<<"cb0", 0>>, a) /\ Fits(<<"cb0", 1>>, a)
  BY DEF Fits
<1>4. Write(<<"cb0", 0>>, a) \in Accesses /\ Write(<<"cb0", 1>>, a) \in Accesses
  BY <1>1, <1>2, <1>3, IsAccess
<1>5. SetsBssid(Bssid(a), a)
  BY <1>4 DEF SetsBssid, Bssid, Write
<1> DEFINE c(r) == [kind |-> "write", reg |-> r, val |-> a, seq |-> "bssid"]
<1>6. c(<<"cb0", 0>>) \in Accesses /\ c(<<"cb0", 1>>) \in Accesses
  <2>1. /\ c(<<"cb0", 0>>) \in [kind : {"write", "modify", "ba"}, reg : Regs, val : Vals,
                                seq : {"none", "ops", "bssid"}]
        /\ c(<<"cb0", 1>>) \in [kind : {"write", "modify", "ba"}, reg : Regs, val : Vals,
                                seq : {"none", "ops", "bssid"}]
    BY <1>1, <1>2
  <2>2. Sound(c(<<"cb0", 0>>)) /\ Sound(c(<<"cb0", 1>>))
    BY <1>3 DEF Sound
  <2> QED BY <2>1, <2>2 DEF Accesses
<1>7. /\ BssidChecked(a) = [i \in 1..2 |-> [Bssid(a)[i] EXCEPT !.seq = "bssid"]]
      /\ [Bssid(a)[1] EXCEPT !.seq = "bssid"] = c(<<"cb0", 0>>)
      /\ [Bssid(a)[2] EXCEPT !.seq = "bssid"] = c(<<"cb0", 1>>)
  BY DEF BssidChecked, Bssid, Write
<1>8. BssidChecked(a) \in [1..2 -> Accesses]
  <2>1. \A i \in 1..2 : i = 1 \/ i = 2
    OBVIOUS
  <2> HIDE DEF c
  <2> QED BY <1>6, <1>7, <2>1
<1>9. BssidChecked(a) \in Seq(Accesses) /\ Len(BssidChecked(a)) = 2
  BY <1>8, TwoAccesses
<1>10. BssidChecked(a)[1] = c(<<"cb0", 0>>) /\ BssidChecked(a)[2] = c(<<"cb0", 1>>)
  <2> HIDE DEF c
  <2> QED BY <1>7
<1>11. SetsBssid(BssidChecked(a), a)
  BY <1>9, <1>10 DEF SetsBssid
<1> QED BY <1>5, <1>11

LEMMA BssidHits ==
  ASSUME NEW t, NEW a, SetsBssid(t, a)
  PROVE  /\ \A h \in {0, 1} : Hits(t, 2, Cb(h, a))
         /\ Ready(t)
         /\ \A g : g.reg[1] # "cb0" => Quiet(t, 2, g)
<1>1. Hits(t, 2, Cb(0, a))
  <2>1. Meets(t[1], Cb(0, a)) /\ ~Touches(t[2], Cb(0, a))
    BY DEF SetsBssid, Meets, Touches, Cb, Goal, Get
  <2>2. \A j \in (1 + 1)..2 : ~Touches(t[j], Cb(0, a))
    <3>1. \A j \in (1 + 1)..2 : j = 2
      OBVIOUS
    <3> QED BY <2>1, <3>1
  <2> QED BY <2>1, <2>2 DEF Hits
<1>2. Hits(t, 2, Cb(1, a))
  <2>1. Meets(t[2], Cb(1, a))
    BY DEF SetsBssid, Meets, Cb, Goal, Get
  <2>2. \A j \in (2 + 1)..2 : ~Touches(t[j], Cb(1, a))
    OBVIOUS
  <2> QED BY <2>1, <2>2 DEF Hits
<1>3. \A j \in 1..2 : j = 1 \/ j = 2
  OBVIOUS
<1>4. Ready(t)
  BY <1>3 DEF Ready, SetsBssid, IsLink, Encrypts
<1>5. ASSUME NEW g, g.reg[1] # "cb0"
      PROVE  Quiet(t, 2, g)
  <2>1. \A j \in 1..2 : t[j].reg # g.reg
    BY <1>3, <1>5 DEF SetsBssid
  <2> QED BY <2>1, QuietReg
<1> QED BY <1>1, <1>2, <1>4, <1>5

LEMMA ClearBaList ==
  /\ ClearBa \in Seq(Accesses) /\ Len(ClearBa) = 1
  /\ Hits(ClearBa, 1, BaWord({})) /\ Ready(ClearBa)
  /\ \A g : g.reg[1] # "ba" => Quiet(ClearBa, 1, g)
<1> DEFINE o == Write(<<"ba", 1>>, {})
<1>1. o \in Accesses
  <2>1. {} \in Vals
    <3>1. {} \in TidSets
      BY DEF TidSets
    <3> QED BY <3>1, ValsHold, Zenon
  <2>2. <<"ba", 1>> \in Regs
    BY Registers DEF Wcids
  <2>3. Fits(<<"ba", 1>>, {})
    BY DEF Fits
  <2> QED BY <2>1, <2>2, <2>3, IsAccess
<1>2. ClearBa \in Seq(Accesses) /\ Len(ClearBa) = 1 /\ ClearBa[1] = o
  BY <1>1, Single DEF ClearBa
<1>3. o.reg = <<"ba", 1>> /\ Meets(o, BaWord({}))
  BY MeetsAll, OpFields DEF BaWord
<1> HIDE DEF o
<1>4. \A j \in 1..1 : j = 1
  OBVIOUS
<1>5. Hits(ClearBa, 1, BaWord({}))
  <2>1. \A j \in (1 + 1)..1 : ~Touches(ClearBa[j], BaWord({}))
    OBVIOUS
  <2> QED BY <1>2, <1>3, <2>1 DEF Hits
<1>6. Ready(ClearBa)
  BY <1>2, <1>3, <1>4 DEF Ready, IsLink, Encrypts
<1>7. ASSUME NEW g, g.reg[1] # "ba"
      PROVE  Quiet(ClearBa, 1, g)
  <2>1. \A j \in 1..1 : ClearBa[j].reg # g.reg
    BY <1>2, <1>3, <1>4, <1>7
  <2> QED BY <2>1, QuietReg
<1> QED BY <1>2, <1>5, <1>6, <1>7

(* The list that clears the peer's entry.                                   *)
LEMMA ClearEntryList ==
  /\ ClearEntry \in Seq(Accesses) /\ Len(ClearEntry) = 3
  /\ Hits(ClearEntry, 3, Cipher(1, "none")) /\ Ready(ClearEntry)
  /\ \A g : g.reg \notin {<<"dw0", 1>>, <<"dw1", 1>>, <<"dw2", 1>>} => Quiet(ClearEntry, 3, g)
<1> DEFINE v0 == [addr |-> "zero", rv |-> 0, rkv |-> 0, kid |-> 0]
           v2 == [cipher |-> "none", adm |-> 0]
           t == ClearEntry
<1>1. 1 \in Wcids /\ "zero" \in Addrs
  BY DEF Wcids, Addrs
<1>2. v0 \in DW0 /\ v0 \in Vals /\ v2 \in DW2 /\ v2 \in Vals /\ "zero" \in Vals
  BY <1>1, Writable
<1>3. <<"dw0", 1>> \in Regs /\ <<"dw1", 1>> \in Regs /\ <<"dw2", 1>> \in Regs
  BY <1>1, Registers
<1>4. t = << Write(<<"dw0", 1>>, v0), Write(<<"dw1", 1>>, "zero"), Write(<<"dw2", 1>>, v2) >>
  BY DEF ClearEntry
<1>5. v2.cipher = "none"
  OBVIOUS
<1> HIDE DEF v0, v2, t
<1>6. Fits(<<"dw0", 1>>, v0) /\ Fits(<<"dw1", 1>>, "zero") /\ Fits(<<"dw2", 1>>, v2)
  BY <1>1, <1>2 DEF Fits
<1>7. /\ Write(<<"dw0", 1>>, v0) \in Accesses /\ Write(<<"dw1", 1>>, "zero") \in Accesses
      /\ Write(<<"dw2", 1>>, v2) \in Accesses
  BY <1>2, <1>3, <1>6, IsAccess
<1>8. /\ t \in Seq(Accesses) /\ Len(t) = 3
      /\ t[1].reg = <<"dw0", 1>> /\ t[2].reg = <<"dw1", 1>> /\ t[3].reg = <<"dw2", 1>>
      /\ t[3].kind = "write" /\ t[3].val = v2
  BY <1>4, <1>7 DEF Write
<1>9. \A j \in 1..3 : j = 1 \/ j = 2 \/ j = 3
  OBVIOUS
<1>10. Hits(t, 3, Cipher(1, "none"))
  <2>1. Meets(t[3], Cipher(1, "none"))
    BY <1>5, <1>8 DEF Meets, Cipher, Goal, Get
  <2>2. \A j \in (3 + 1)..3 : ~Touches(t[j], Cipher(1, "none"))
    OBVIOUS
  <2> QED BY <2>1, <2>2 DEF Hits
<1>11. Ready(t)
  BY <1>5, <1>8, <1>9 DEF Ready, IsLink, Encrypts
<1>12. ASSUME NEW g, g.reg \notin {<<"dw0", 1>>, <<"dw1", 1>>, <<"dw2", 1>>}
       PROVE  Quiet(t, 3, g)
  <2>1. \A j \in 1..3 : t[j].reg # g.reg
    BY <1>8, <1>9, <1>12
  <2> QED BY <2>1, QuietReg
<1> QED BY <1>8, <1>10, <1>11, <1>12 DEF t

(* The list of an association: what X asks of the BSSID registers, then     *)
(* both entries, then the block-ack word.                                   *)
LEMMA AssocList ==
  ASSUME NEW a \in Addrs, NEW X \in Seq(Accesses), Ready(X), Len(X) <= 2,
         NEW L, L = X \o WtblSta(a) \o ClearBa
  PROVE  /\ L \in Seq(Accesses) /\ Len(L) <= 17 /\ Ready(L)
         /\ \A w \in Wcids : /\ Hits(L, Len(L), Link3(w)) /\ Hits(L, Len(L), Link4(w))
                              /\ Hits(L, Len(L), Cipher(w, "none"))
         /\ Hits(L, Len(L), PsmClear)
         /\ Hits(L, Len(L), AddrHi(a)) /\ Hits(L, Len(L), AddrLo(a))
         /\ Hits(L, Len(L), BaWord({}))
         /\ \A h, v : Hits(X, Len(X), Cb(h, v)) => Hits(L, Len(L), Cb(h, v))
         /\ \A h, v : Quiet(X, Len(X), Cb(h, v)) => Quiet(L, Len(L), Cb(h, v))
<1> DEFINE W == WtblSta(a)
           M == X \o W
<1>1. W \in Seq(Accesses) /\ Len(W) = 12 /\ Ready(W)
  BY WtblList, WtblHits
<1>2. ClearBa \in Seq(Accesses) /\ Len(ClearBa) = 1 /\ Ready(ClearBa)
  BY ClearBaList
<1>3. /\ \A w \in Wcids : /\ Hits(W, Len(W), Link3(w)) /\ Hits(W, Len(W), Link4(w))
                           /\ Hits(W, Len(W), Cipher(w, "none"))
      /\ Hits(W, Len(W), PsmClear)
      /\ Hits(W, Len(W), AddrHi(a)) /\ Hits(W, Len(W), AddrLo(a))
      /\ \A h, v : Quiet(W, Len(W), Cb(h, v))
  BY <1>1, WtblHits
<1>4. \A g : g.reg[1] # "ba" => Quiet(ClearBa, Len(ClearBa), g)
  BY <1>2, ClearBaList
<1>5. L = M \o ClearBa
  OBVIOUS
<1> HIDE DEF W
<1>6. M \in Seq(Accesses) /\ Len(M) = Len(X) + Len(W)
  BY <1>1, Joined
<1>7. \A g : Hits(W, Len(W), g) => Hits(M, Len(M), g)
  BY <1>1, <1>6, HitsRight
<1>8. \A g : Hits(X, Len(X), g) /\ Quiet(W, Len(W), g) => Hits(M, Len(M), g)
  BY <1>1, HitsLeft
<1>9. \A g : Quiet(X, Len(X), g) /\ Quiet(W, Len(W), g) => Quiet(M, Len(M), g)
  BY <1>1, QuietBoth
<1>10. Ready(M)
  BY <1>1, ReadyBoth
<1> HIDE DEF M
<1>11. L \in Seq(Accesses) /\ Len(L) = Len(M) + Len(ClearBa)
  <2>1. M \o ClearBa \in Seq(Accesses) /\ Len(M \o ClearBa) = Len(M) + Len(ClearBa)
    BY <1>2, <1>6, Joined
  <2> QED BY <2>1, <1>5
<1>12. Ready(L)
  BY <1>2, <1>5, <1>6, <1>10, ReadyBoth
<1>13. \A g : Hits(M, Len(M), g) /\ g.reg[1] # "ba" => Hits(L, Len(L), g)
  BY <1>2, <1>4, <1>5, <1>6, HitsLeft
<1>14. \A g : Quiet(M, Len(M), g) /\ g.reg[1] # "ba" => Quiet(L, Len(L), g)
  BY <1>2, <1>4, <1>5, <1>6, QuietBoth
<1>15. Hits(L, Len(L), BaWord({}))
  <2>1. Hits(ClearBa, Len(ClearBa), BaWord({}))
    BY <1>2, ClearBaList
  <2>2. Len(ClearBa) \in 0..Len(ClearBa)
    BY <1>2
  <2> QED BY <2>1, <2>2, <1>2, <1>5, <1>6, <1>11, HitsRight
<1>16. /\ \A w, v : /\ Link3(w).reg[1] # "ba" /\ Link4(w).reg[1] # "ba" /\ Cb(w, v).reg[1] # "ba"
                    /\ Cipher(w, v).reg[1] # "ba" /\ AddrHi(v).reg[1] # "ba" /\ AddrLo(v).reg[1] # "ba"
       /\ PsmClear.reg[1] # "ba"
  BY DEF Link3, Link4, Cb, Cipher, AddrHi, AddrLo, PsmClear, Goal
<1>17. Len(L) <= 17
  BY <1>1, <1>2, <1>6, <1>11
<1>18. \A g : Hits(W, Len(W), g) /\ g.reg[1] # "ba" => Hits(L, Len(L), g)
  BY <1>7, <1>13
<1>19. \A h, v : Hits(X, Len(X), Cb(h, v)) => Hits(L, Len(L), Cb(h, v))
  BY <1>3, <1>8, <1>13, <1>16
<1>20. \A h, v : Quiet(X, Len(X), Cb(h, v)) => Quiet(L, Len(L), Cb(h, v))
  BY <1>3, <1>9, <1>14, <1>16
<1>21. /\ \A w \in Wcids : /\ Hits(L, Len(L), Link3(w)) /\ Hits(L, Len(L), Link4(w))
                            /\ Hits(L, Len(L), Cipher(w, "none"))
       /\ Hits(L, Len(L), PsmClear)
       /\ Hits(L, Len(L), AddrHi(a)) /\ Hits(L, Len(L), AddrLo(a))
  BY <1>3, <1>16, <1>18
<1> QED BY <1>11, <1>12, <1>15, <1>17, <1>19, <1>20, <1>21

(* The list that forgets a peer.                                            *)
LEMMA ForgetList ==
  ASSUME NEW X \in Seq(Accesses), Ready(X), Len(X) <= 2,
         \A g : g.reg[1] # "cb0" => Quiet(X, Len(X), g),
         NEW L, L = X \o ClearEntry
  PROVE  /\ L \in Seq(Accesses) /\ Len(L) <= 17 /\ Ready(L)
         /\ Hits(L, Len(L), Cipher(1, "none"))
         /\ Quiet(L, Len(L), PsmClear) /\ \A v : Quiet(L, Len(L), Cipher(0, v))
         /\ \A w \in Wcids : Quiet(L, Len(L), Link3(w)) /\ Quiet(L, Len(L), Link4(w))
         /\ \A h, v : Quiet(X, Len(X), Cb(h, v)) => Quiet(L, Len(L), Cb(h, v))
         /\ \A v : Quiet(L, Len(L), BaWord(v))
<1>1. /\ ClearEntry \in Seq(Accesses) /\ Len(ClearEntry) = 3 /\ Ready(ClearEntry)
      /\ Hits(ClearEntry, Len(ClearEntry), Cipher(1, "none"))
      /\ \A g : g.reg \notin {<<"dw0", 1>>, <<"dw1", 1>>, <<"dw2", 1>>} =>
            Quiet(ClearEntry, Len(ClearEntry), g)
  BY ClearEntryList
<1>2. L \in Seq(Accesses) /\ Len(L) = Len(X) + Len(ClearEntry)
  BY <1>1, Joined
<1>3. Ready(L)
  BY <1>1, ReadyBoth
<1>4. Hits(L, Len(L), Cipher(1, "none"))
  <2>1. Len(ClearEntry) \in 0..Len(ClearEntry)
    BY <1>1
  <2> QED BY <2>1, <1>1, <1>2, HitsRight
<1>5. \A g : /\ g.reg \notin {<<"dw0", 1>>, <<"dw1", 1>>, <<"dw2", 1>>}
             /\ Quiet(X, Len(X), g)
             => Quiet(L, Len(L), g)
  BY <1>1, QuietBoth
<1>6. ASSUME NEW g, g.reg[1] # "cb0", g.reg \notin {<<"dw0", 1>>, <<"dw1", 1>>, <<"dw2", 1>>}
      PROVE  Quiet(L, Len(L), g)
  BY <1>5, <1>6
<1>7. /\ PsmClear.reg = <<"psm", 0>> /\ \A v : Cipher(0, v).reg = <<"dw2", 0>>
      /\ \A w \in Wcids : Link3(w).reg = <<"dw3", w>> /\ Link4(w).reg = <<"dw4", w>>
      /\ \A h, v : Cb(h, v).reg = <<"cb0", h>> /\ BaWord(v).reg = <<"ba", 1>>
  BY DEF PsmClear, Cipher, Link3, Link4, Cb, BaWord, Goal
<1>8. /\ Quiet(L, Len(L), PsmClear) /\ \A v : Quiet(L, Len(L), Cipher(0, v))
      /\ \A v : Quiet(L, Len(L), BaWord(v))
  BY <1>6, <1>7
<1>9. \A w \in Wcids : Quiet(L, Len(L), Link3(w)) /\ Quiet(L, Len(L), Link4(w))
  BY <1>6, <1>7
<1>10. \A h, v : Quiet(X, Len(X), Cb(h, v)) => Quiet(L, Len(L), Cb(h, v))
  BY <1>5, <1>7
<1>11. Len(L) <= 17
  BY <1>1, <1>2
<1> QED BY <1>2, <1>3, <1>4, <1>8, <1>9, <1>10, <1>11

-----------------------------------------------------------------------------
(* The list of set_key. e is the RKV bit that UseKey chooses.               *)

LEMMA KeyWordList ==
  ASSUME NEW w \in Wcids, NEW k \in Keys
  PROVE  /\ KeyWords(w, k) \in Seq(Accesses) /\ Len(KeyWords(w, k)) = 4
         /\ \A m \in 1..4 : KeyWords(w, k)[m] = Write(<<"tk", w, m>>, k)
<1>1. \A m \in 1..4 : Write(<<"tk", w, m>>, k) \in Accesses
  <2> TAKE m \in 1..4
  <2>1. <<"tk", w, m>> \in Regs
    BY Registers
  <2>2. k \in Vals
    BY ValsHold
  <2>3. Fits(<<"tk", w, m>>, k)
    BY DEF Fits
  <2> QED BY <2>1, <2>2, <2>3, IsAccess
<1>2. KeyWords(w, k) = [m \in 1..4 |-> Write(<<"tk", w, m>>, k)]
  BY DEF KeyWords
<1> DEFINE f == KeyWords(w, k)
<1>3. f \in [1..4 -> Accesses] /\ \A m \in 1..4 : f[m] = Write(<<"tk", w, m>>, k)
  BY <1>1, <1>2
<1> HIDE DEF f
<1>4. f \in Seq(Accesses)
  BY <1>3, SeqDef
<1>5. Len(f) \in Nat /\ DOMAIN f = 1..Len(f)
  BY <1>4, LenProperties
<1>6. 1..Len(f) = 1..4
  BY <1>3, <1>5
<1>7. Len(f) = 4
  <2>1. 4 \in 1..Len(f) /\ (Len(f) >= 1 => Len(f) \in 1..4)
    BY <1>5, <1>6
  <2> QED BY <1>5, <2>1
<1> QED BY <1>3, <1>4, <1>7 DEF f

(* The ten accesses of set_key.                                             *)
KeyList(t, w, k, i, e) ==
    /\ t \in Seq(Accesses) /\ Len(t) = 10
    /\ \A m \in 1..4 : t[m].kind = "write" /\ t[m].reg = <<"tk", w, m>> /\ t[m].val = k
    /\ t[5].kind = "write" /\ t[5].reg = <<"pn", w>> /\ t[5].val = 1
    /\ t[6].kind = "write" /\ t[6].reg = <<"pn_hi", w>> /\ t[6].val = 0
    /\ t[7].kind = "modify" /\ t[7].reg = <<"dw0", w>>
    /\ t[7].val = [rv |-> 1, kid |-> i, rkv |-> e]
    /\ t[8].kind = "modify" /\ t[8].reg = <<"dw2", w>>
    /\ t[8].val = [cipher |-> "ccmp", adm |-> 1]
    /\ t[9].reg = <<"psm", 0>>
    /\ t[10].reg = <<"psm", 0>> /\ Meets(t[10], PsmClear)

LEMMA SetKeyList ==
  ASSUME NEW w \in Wcids, NEW k \in Keys, NEW i \in KeyIdx, NEW e,
         e = IF w # 0 \/ vif # "ap" THEN 1 ELSE 0
  PROVE  KeyList(KeyWords(w, k) \o ResetPn(w) \o UseKey(w, i), w, k, i, e)
<1> DEFINE K == KeyWords(w, k)
           P == ResetPn(w)
           U == UseKey(w, i)
           o1 == Write(<<"tk", w, 1>>, k)
           o2 == Write(<<"tk", w, 2>>, k)
           o3 == Write(<<"tk", w, 3>>, k)
           o4 == Write(<<"tk", w, 4>>, k)
           o5 == Write(<<"pn", w>>, 1)
           o6 == Write(<<"pn_hi", w>>, 0)
           v7 == [rv |-> 1, kid |-> i, rkv |-> e]
           v8 == [cipher |-> "ccmp", adm |-> 1]
           o7 == Modify(<<"dw0", w>>, v7)
           o8 == Modify(<<"dw2", w>>, v8)
           o9 == Write(<<"psm", 0>>, TRUE)
           o10 == Write(<<"psm", 0>>, FALSE)
<1>1. /\ <<"pn", w>> \in Regs /\ <<"pn_hi", w>> \in Regs /\ <<"dw0", w>> \in Regs
      /\ <<"dw2", w>> \in Regs /\ <<"psm", 0>> \in Regs
  BY Registers
<1>2. 1 \in Vals /\ 0 \in Vals /\ TRUE \in Vals /\ FALSE \in Vals
  <2>1. TRUE \in Flags /\ FALSE \in Flags /\ 0 \in Bits /\ 1 \in Bits
    BY DEF Flags, Bits
  <2> QED BY <2>1, ValsHold, Zenon
<1>3. v7 \in Part0 /\ v8 \in Part2
  BY DEF Part0, Part2
<1>4. v7 \in Vals /\ v8 \in Vals
  BY <1>3, ValsHold
<1>5. o5 \in Accesses /\ o6 \in Accesses
  <2>1. Fits(<<"pn", w>>, 1) /\ Fits(<<"pn_hi", w>>, 0)
    BY DEF Fits
  <2> QED BY <1>1, <1>2, <2>1, IsAccess
<1>6. o9 \in Accesses /\ o10 \in Accesses
  <2>1. Fits(<<"psm", 0>>, TRUE) /\ Fits(<<"psm", 0>>, FALSE)
    BY DEF Fits
  <2> QED BY <1>1, <1>2, <2>1, IsAccess, Zenon
<1>7. o7 \in Accesses /\ o8 \in Accesses
  <2> HIDE DEF v7, v8
  <2>1. /\ o7 \in [kind : {"write", "modify", "ba"}, reg : Regs, val : Vals,
                   seq : {"none", "ops", "bssid"}]
        /\ o8 \in [kind : {"write", "modify", "ba"}, reg : Regs, val : Vals,
                   seq : {"none", "ops", "bssid"}]
    BY <1>1, <1>4 DEF Modify
  <2>2. Sound(o7) /\ Sound(o8)
    BY <1>3 DEF Sound, Modify
  <2> QED BY <2>1, <2>2 DEF Accesses
<1>8. /\ K \in Seq(Accesses) /\ Len(K) = 4
      /\ K[1] = o1 /\ K[2] = o2 /\ K[3] = o3 /\ K[4] = o4
  BY KeyWordList
<1>9. P = <<o5, o6>>
  BY DEF ResetPn
<1>10. U = <<o7, o8, o9, o10>>
  BY Zenon DEF UseKey
<1>11. /\ o9.reg = <<"psm", 0>> /\ o10.reg = <<"psm", 0>>
  BY OpFields, Zenon
<1>12. Meets(o10, PsmClear)
  BY MeetsAll, Zenon DEF PsmClear
<1> DEFINE L == K \o P \o U
           Q == K \o P
<1>13. L = Q \o U
  OBVIOUS
<1>14. /\ \A m \in 1..4 : /\ Write(<<"tk", w, m>>, k).kind = "write"
                          /\ Write(<<"tk", w, m>>, k).reg = <<"tk", w, m>>
                          /\ Write(<<"tk", w, m>>, k).val = k
       /\ o5.kind = "write" /\ o5.reg = <<"pn", w>> /\ o5.val = 1
       /\ o6.kind = "write" /\ o6.reg = <<"pn_hi", w>> /\ o6.val = 0
  BY DEF Write
<1>15. /\ o7.kind = "modify" /\ o7.reg = <<"dw0", w>> /\ o7.val = v7
       /\ o8.kind = "modify" /\ o8.reg = <<"dw2", w>> /\ o8.val = v8
  BY DEF Modify
<1>16. \A m \in 1..4 : K[m].kind = "write" /\ K[m].reg = <<"tk", w, m>> /\ K[m].val = k
  BY <1>14, KeyWordList
<1> HIDE DEF K, P, U, o1, o2, o3, o4, o5, o6, o7, o8, o9, o10, v7, v8
<1>17. P \in Seq(Accesses) /\ Len(P) = 2 /\ P[1] = o5 /\ P[2] = o6
  BY <1>5, <1>9
<1>18. /\ U \in Seq(Accesses) /\ Len(U) = 4
       /\ U[1] = o7 /\ U[2] = o8 /\ U[3] = o9 /\ U[4] = o10
  BY <1>6, <1>7, <1>10
<1>19. /\ Q \in Seq(Accesses) /\ Len(Q) = 4 + Len(P)
       /\ \A m \in 1..4 : Q[m] = K[m]
       /\ Len(P) >= 1 => Q[4 + 1] = P[1]
       /\ Len(P) >= 2 => Q[4 + 2] = P[2]
  <2>1. K \in Seq(Accesses) /\ P \in Seq(Accesses) /\ 4 \in Nat /\ Len(K) = 4
    BY <1>8, <1>17
  <2> QED BY <2>1, Join, Zenon
<1> HIDE DEF Q
<1>20. /\ Q \in Seq(Accesses) /\ Len(Q) = 6 /\ Q[5] = o5 /\ Q[6] = o6
       /\ \A m \in 1..4 : Q[m] = K[m]
  BY <1>17, <1>19
<1>21. /\ Q \o U \in Seq(Accesses) /\ Len(Q \o U) = 6 + Len(U)
       /\ \A m \in 1..6 : (Q \o U)[m] = Q[m]
       /\ Len(U) >= 1 => (Q \o U)[6 + 1] = U[1]
       /\ Len(U) >= 2 => (Q \o U)[6 + 2] = U[2]
       /\ Len(U) >= 3 => (Q \o U)[6 + 3] = U[3]
       /\ Len(U) >= 4 => (Q \o U)[6 + 4] = U[4]
  <2>1. Q \in Seq(Accesses) /\ U \in Seq(Accesses) /\ 6 \in Nat /\ Len(Q) = 6
    BY <1>18, <1>20
  <2> QED BY <2>1, Join, Zenon
<1> HIDE DEF L
<1>22. /\ L \in Seq(Accesses) /\ Len(L) = 10 /\ L[5] = o5 /\ L[6] = o6
       /\ L[7] = o7 /\ L[8] = o8 /\ L[9] = o9 /\ L[10] = o10
       /\ \A m \in 1..4 : L[m] = K[m]
  BY <1>13, <1>18, <1>20, <1>21
<1>23. KeyList(L, w, k, i, e)
  BY <1>11, <1>12, <1>14, <1>15, <1>16, <1>22 DEF KeyList, v7, v8
<1> QED BY <1>23 DEF L, K, P, U

(* What set_key leaves, and that the cipher comes last.                     *)
LEMMA KeyHits ==
  ASSUME NEW t, NEW w \in Wcids, NEW k, NEW i, NEW e, KeyList(t, w, k, i, e)
  PROVE  /\ \A m \in 1..4 : Hits(t, 10, Word(w, m, k))
         /\ Hits(t, 10, Cipher(w, "ccmp")) /\ Hits(t, 10, PsmClear)
         /\ w = 1 => Hits(t, 10, Kid(i)) /\ (e = 1 => Hits(t, 10, Rkv))
         /\ \A g : /\ g.reg \notin {<<"tk", w, m>> : m \in 1..4}
                   /\ g.reg \notin {<<"pn", w>>, <<"pn_hi", w>>, <<"dw2", w>>, <<"psm", 0>>}
                   /\ g.reg = <<"dw0", w>> => g.field = "addr"
                   => Quiet(t, 10, g)
         /\ \A rg, h : h[w].key = k => Ordered(t, rg, h)
<1>1. /\ Len(t) = 10
      /\ \A m \in 1..4 : t[m].kind = "write" /\ t[m].reg = <<"tk", w, m>> /\ t[m].val = k
      /\ t[5].kind = "write" /\ t[5].reg = <<"pn", w>> /\ t[5].val = 1
      /\ t[6].kind = "write" /\ t[6].reg = <<"pn_hi", w>> /\ t[6].val = 0
      /\ t[7].kind = "modify" /\ t[7].reg = <<"dw0", w>>
      /\ t[8].kind = "modify" /\ t[8].reg = <<"dw2", w>>
      /\ t[9].reg = <<"psm", 0>> /\ t[10].reg = <<"psm", 0>>
  BY DEF KeyList
<1>2. \A j \in 1..10 : j \in 1..4 \/ j = 5 \/ j = 6 \/ j = 7 \/ j = 8 \/ j = 9 \/ j = 10
  OBVIOUS
<1>3. /\ DOMAIN t[7].val = {"rv", "kid", "rkv"} /\ t[7].val["kid"] = i /\ t[7].val["rkv"] = e
      /\ DOMAIN t[8].val = {"cipher", "adm"} /\ t[8].val["cipher"] = "ccmp"
  BY DEF KeyList
<1>4. ASSUME NEW m \in 1..4, NEW n \in 4..10
      PROVE  Hits(t, n, Word(w, m, k))
  <2>1. Meets(t[m], Word(w, m, k))
    BY <1>1 DEF Meets, Get, Word, Goal
  <2>2. \A j \in (m + 1)..10 : t[j].reg # <<"tk", w, m>>
    BY <1>1, <1>2
  <2>3. \A j \in (m + 1)..n : ~Touches(t[j], Word(w, m, k))
    BY <2>2 DEF Touches, Word, Goal
  <2>4. m \in 1..n
    OBVIOUS
  <2> QED BY <2>1, <2>3, <2>4 DEF Hits
<1>5. Hits(t, 7, Pn(w)) /\ Hits(t, 7, PnHi(w))
  <2>1. Meets(t[5], Pn(w)) /\ Meets(t[6], PnHi(w))
    BY <1>1 DEF Meets, Get, Pn, PnHi, Goal
  <2>2. /\ \A j \in (5 + 1)..7 : t[j].reg # <<"pn", w>>
        /\ \A j \in (6 + 1)..7 : t[j].reg # <<"pn_hi", w>>
    BY <1>1, <1>2
  <2>3. /\ \A j \in (5 + 1)..7 : ~Touches(t[j], Pn(w))
        /\ \A j \in (6 + 1)..7 : ~Touches(t[j], PnHi(w))
    BY <2>2 DEF Touches, Pn, PnHi, Goal
  <2> QED BY <2>1, <2>3 DEF Hits
<1>6. Hits(t, 10, Cipher(w, "ccmp"))
  <2>1. Meets(t[8], Cipher(w, "ccmp"))
    BY <1>1, <1>3 DEF Meets, Get, Cipher, Goal
  <2>2. \A j \in (8 + 1)..10 : t[j].reg # t[8].reg
    BY <1>1, <1>2
  <2>3. Cipher(w, "ccmp").reg = t[8].reg
    BY <1>1 DEF Cipher, Goal
  <2> QED BY <2>1, <2>2, <2>3 DEF Hits, Touches
<1>7. Hits(t, 10, PsmClear)
  <2>1. Meets(t[10], PsmClear)
    BY DEF KeyList
  <2>2. \A j \in (10 + 1)..10 : ~Touches(t[j], PsmClear)
    OBVIOUS
  <2> QED BY <2>1, <2>2 DEF Hits
<1>8. ASSUME w = 1
      PROVE  Hits(t, 10, Kid(i)) /\ (e = 1 => Hits(t, 10, Rkv))
  <2>1. Meets(t[7], Kid(i)) /\ (e = 1 => Meets(t[7], Rkv))
    BY <1>1, <1>3, <1>8 DEF Meets, Kid, Rkv, Goal
  <2>2. \A j \in (7 + 1)..10 : t[j].reg # <<"dw0", 1>>
    BY <1>1, <1>2
  <2>3. \A j \in (7 + 1)..10 : ~Touches(t[j], Kid(i)) /\ ~Touches(t[j], Rkv)
    BY <2>2 DEF Touches, Kid, Rkv, Goal
  <2> QED BY <2>1, <2>3 DEF Hits
<1>9. ASSUME NEW g, g.reg \notin {<<"tk", w, m>> : m \in 1..4},
             g.reg \notin {<<"pn", w>>, <<"pn_hi", w>>, <<"dw2", w>>, <<"psm", 0>>},
             g.reg = <<"dw0", w>> => g.field = "addr"
      PROVE  Quiet(t, 10, g)
  <2>1. ~Touches(t[7], g)
    BY <1>1, <1>3, <1>9 DEF Touches
  <2>a. \A j \in 1..4 : t[j].reg # g.reg
    <3> TAKE j \in 1..4
    <3>1. <<"tk", w, j>> \in {<<"tk", w, m>> : m \in 1..4}
      OBVIOUS
    <3>2. t[j].reg = <<"tk", w, j>>
      BY <1>1
    <3> QED BY <3>1, <3>2, <1>9
  <2>b. \A j \in {5, 6, 8, 9, 10} : t[j].reg # g.reg
    BY <1>1, <1>9
  <2>2. \A j \in 1..10 : j # 7 => t[j].reg # g.reg
    BY <1>2, <2>a, <2>b
  <2>3. \A j \in 1..10 : ~Touches(t[j], g)
    BY <2>1, <2>2 DEF Touches
  <2> QED BY <2>3 DEF Quiet
<1>10. ASSUME NEW rg, NEW h, h[w].key = k
       PROVE  Ordered(t, rg, h)
  <2>1. \A j \in 1..10 : ~IsLink(t[j])
    BY <1>1, <1>2 DEF IsLink
  <2>2. \A j \in 1..10, v \in Wcids : Encrypts(t[j], v) => j = 8 /\ v = w
    BY <1>1, <1>2 DEF Encrypts
  <2>3. \A m \in 1..4 : Due(t, rg, 7, Word(w, m, h[w].key))
    BY <1>4, <1>10 DEF Due
  <2>4. Due(t, rg, 7, Pn(w)) /\ Due(t, rg, 7, PnHi(w))
    BY <1>5 DEF Due
  <2>5. 8 - 1 = 7
    OBVIOUS
  <2> QED BY <1>1, <2>1, <2>2, <2>3, <2>4, <2>5 DEF Ordered
<1> QED BY <1>4, <1>6, <1>7, <1>8, <1>9, <1>10

(* The two accesses of the key's removal.                                   *)
DropList(w) == << Modify(<<"dw0", w>>, [rkv |-> 0, kid |-> 0]),
                  Modify(<<"dw2", w>>, [cipher |-> "none"]) >>

LEMMA DropHits ==
  ASSUME NEW w \in Wcids, NEW t, t = DropList(w)
  PROVE  /\ t \in Seq(Accesses) /\ Len(t) = 2 /\ Ready(t)
         /\ Hits(t, 2, Cipher(w, "none"))
         /\ \A g : /\ g.reg # <<"dw2", w>>
                   /\ g.reg = <<"dw0", w>> => g.field = "addr"
                   => Quiet(t, 2, g)
<1> DEFINE v0 == [rkv |-> 0, kid |-> 0]
           v2 == [cipher |-> "none"]
           o1 == Modify(<<"dw0", w>>, v0)
           o2 == Modify(<<"dw2", w>>, v2)
<1>1. v0 \in Part0 /\ v2 \in Part2 /\ <<"dw0", w>> \in Regs /\ <<"dw2", w>> \in Regs
  BY Registers DEF Part0, Part2
<1>2. v0 \in Vals /\ v2 \in Vals
  BY <1>1, ValsHold
<1>3. /\ DOMAIN v0 = {"rkv", "kid"} /\ DOMAIN v2 = {"cipher"}
      /\ v2["cipher"] = "none" /\ v2.cipher = "none"
  OBVIOUS
<1> HIDE DEF v0, v2
<1>4. /\ o1 \in [kind : {"write", "modify", "ba"}, reg : Regs, val : Vals,
                 seq : {"none", "ops", "bssid"}]
      /\ o2 \in [kind : {"write", "modify", "ba"}, reg : Regs, val : Vals,
                 seq : {"none", "ops", "bssid"}]
  BY <1>1, <1>2 DEF Modify
<1>5. Sound(o1) /\ Sound(o2)
  BY <1>1 DEF Sound, Modify
<1>6. o1 \in Accesses /\ o2 \in Accesses
  BY <1>4, <1>5 DEF Accesses
<1>7. t = <<o1, o2>>
  BY DEF DropList, v0, v2
<1>8. /\ t \in Seq(Accesses) /\ Len(t) = 2
      /\ t[1].kind = "modify" /\ t[1].reg = <<"dw0", w>> /\ t[1].val = v0
      /\ t[2].kind = "modify" /\ t[2].reg = <<"dw2", w>> /\ t[2].val = v2
  BY <1>6, <1>7 DEF Modify
<1>9. \A j \in 1..2 : j = 1 \/ j = 2
  OBVIOUS
<1>10. Ready(t)
  BY <1>3, <1>8, <1>9 DEF Ready, IsLink, Encrypts
<1>11. Hits(t, 2, Cipher(w, "none"))
  <2>1. Meets(t[2], Cipher(w, "none"))
    BY <1>3, <1>8 DEF Meets, Cipher, Goal
  <2>2. \A j \in (2 + 1)..2 : ~Touches(t[j], Cipher(w, "none"))
    OBVIOUS
  <2> QED BY <2>1, <2>2 DEF Hits
<1>12. ASSUME NEW g, g.reg # <<"dw2", w>>, g.reg = <<"dw0", w>> => g.field = "addr"
       PROVE  Quiet(t, 2, g)
  <2>1. ~Touches(t[1], g) /\ ~Touches(t[2], g)
    BY <1>3, <1>8, <1>12 DEF Touches
  <2> QED BY <1>9, <2>1 DEF Quiet
<1> QED BY <1>8, <1>10, <1>11, <1>12

-----------------------------------------------------------------------------
(* The steps.                                                               *)

LEMMA FitsMeans ==
  ASSUME RegInv
  PROVE  \A w \in Wcids : /\ reg[<<"dw0", w>>] \in DW0
                          /\ reg[<<"dw1", w>>] \in Addrs
                          /\ reg[<<"dw2", w>>] \in DW2
                          /\ reg[<<"ba", w>>] \subseteq Tids
                          /\ reg[<<"pn", w>>] \in {0, 1}
                          /\ reg[<<"pn_hi", w>>] = 0
<1> TAKE w \in Wcids
<1>1. /\ <<"dw0", w>> \in Regs /\ <<"dw1", w>> \in Regs /\ <<"dw2", w>> \in Regs
      /\ <<"ba", w>> \in Regs /\ <<"pn", w>> \in Regs /\ <<"pn_hi", w>> \in Regs
  BY Registers
<1> QED BY <1>1 DEF RegInv, Fits

MacType ==
    /\ up \in BOOLEAN
    /\ vif \in {"none", "sta", "ap"}
    /\ clients \subseteq Stations
    /\ ptk \in [Stations -> HwKey \cup {NoKey}]
    /\ sess \in [Stations -> SUBSET Tids]
    /\ peer \in Stations \cup {"zero"}
    /\ hw \in [Wcids -> HwKey \cup {NoKey}]
    /\ ba \subseteq Tids

LEMMA TypeFromRegs ==
  ASSUME RegInv', Len(todo') <= 17, err' \in BOOLEAN, MacType'
  PROVE  TypeOK'
<1>1. \A w \in Wcids : /\ reg'[<<"dw0", w>>] \in DW0
                       /\ reg'[<<"dw1", w>>] \in Addrs
                       /\ reg'[<<"dw2", w>>] \in DW2
                       /\ reg'[<<"ba", w>>] \subseteq Tids
                       /\ reg'[<<"pn", w>>] \in {0, 1}
                       /\ reg'[<<"pn_hi", w>>] = 0
  <2> TAKE w \in Wcids
  <2>1. /\ <<"dw0", w>> \in Regs /\ <<"dw1", w>> \in Regs /\ <<"dw2", w>> \in Regs
        /\ <<"ba", w>> \in Regs /\ <<"pn", w>> \in Regs /\ <<"pn_hi", w>> \in Regs
    BY Registers
  <2> QED BY <2>1 DEF RegInv, Fits
<1> QED BY <1>1 DEF TypeOK, MacType

(* Without clients nothing is asked of entry 1.                             *)
LEMMA NoClients ==
  ASSUME ClientInv, clients = {}
  PROVE  peer = "zero" /\ hw[1] = NoKey /\ ba = {}
BY DEF ClientInv

LEMMA InitInv == Init => StationInv
<1> SUFFICES ASSUME Init PROVE StationInv
  OBVIOUS
<1>1. reg = [r \in Regs |-> Zero(r)] /\ todo = <<>> /\ Len(todo) = 0
  BY DEF Init
<1>2. \A r \in Regs : reg[r] = Zero(r)
  BY <1>1
<1>3. \A r \in Regs : Fits(r, Zero(r))
  BY DEF Fits, Zero, DW0, DW2, Addrs
<1>4. RegInv
  BY <1>1, <1>2, <1>3 DEF RegInv
<1>5. TodoInv
  BY <1>1 DEF TodoInv
<1>6. TypeOK
  <2>1. \A w \in Wcids : /\ reg[<<"dw0", w>>] \in DW0
                        /\ reg[<<"dw1", w>>] \in Addrs
                        /\ reg[<<"dw2", w>>] \in DW2
                        /\ reg[<<"ba", w>>] \subseteq Tids
                        /\ reg[<<"pn", w>>] \in {0, 1}
                        /\ reg[<<"pn_hi", w>>] = 0
    BY <1>4, FitsMeans
  <2>2. /\ hw \in [Wcids -> HwKey \cup {NoKey}] /\ ba \subseteq Tids /\ peer \in Stations \cup {"zero"}
        /\ clients \subseteq Stations /\ ptk \in [Stations -> HwKey \cup {NoKey}]
        /\ sess \in [Stations -> SUBSET Tids]
    BY DEF Init
  <2>3. err \in BOOLEAN /\ up \in BOOLEAN
    BY DEF Init
  <2>4. vif \in {"none", "sta", "ap"} /\ Len(todo) <= 17
    BY <1>1 DEF Init
  <2> QED BY <2>1, <2>2, <2>3, <2>4 DEF TypeOK
<1>7. MacInv
  BY DEF MacInv, VifInv, ClientInv, Init, Wcids
<1>8. \A w \in Wcids : AtEnd(Cipher(w, "none"))
  <2> TAKE w \in Wcids
  <2>1. reg[<<"dw2", w>>] = [cipher |-> "none", adm |-> 0]
    <3>1. <<"dw2", w>> \in Regs
      BY Registers
    <3> QED BY <1>2, <3>1 DEF Zero
  <2>2. Shows(reg, Cipher(w, "none"))
    BY <2>1 DEF Shows, Cipher, Goal, Get
  <2>3. Quiet(todo, 0, Cipher(w, "none"))
    BY DEF Quiet
  <2> QED BY <1>1, <2>2, <2>3 DEF AtEnd, Due
<1>9. KeyInv
  BY <1>8 DEF KeyInv, Init, Wcids
<1>10. Ordered(todo, reg, hw)
  BY <1>1 DEF Ordered
<1>11. LinkInv /\ PeerInv /\ BssidInv /\ BaInv
  BY DEF Init, LinkInv, PeerInv, BssidInv, BaInv
<1> QED BY <1>4, <1>5, <1>6, <1>7, <1>9, <1>10, <1>11 DEF StationInv, GoalInv

(* One access of the callback in progress.                                  *)
LEMMA SucceedKeeps ==
  ASSUME StationInv, Succeed
  PROVE  StationInv'
<1>1. todo \in Seq(Accesses) /\ todo # <<>> /\ todo' = Tail(todo)
  BY DEF StationInv, TodoInv, Succeed
<1>2. Bank(reg)
  BY DEF StationInv, RegInv, Bank
<1>3. Head(todo) = todo[1] /\ todo[1] \in Accesses /\ Len(todo) \in Nat /\ Len(todo) >= 1
  BY <1>1
<1>4. Len(todo') = Len(todo) - 1 /\ todo' \in Seq(Accesses) /\ Len(todo) \in 1..Len(todo)
  BY <1>1, <1>3
<1>5. reg' = IF Locked(todo[1].reg) THEN reg ELSE After(reg, todo[1])
  <2>1. todo[1].kind \in {"write", "modify", "ba"}
    BY <1>3, AccessFields
  <2> QED BY <1>3, <2>1 DEF Succeed, Perform, Put, After, NewVal
<1>6. Bank(reg')
  BY <1>2, <1>3, <1>5, AfterBank
<1>7. RegInv'
  BY <1>6 DEF RegInv, Bank
<1>8. TodoInv'
  BY <1>4 DEF TodoInv
<1>9. /\ err' = err /\ vif' = vif /\ up' = up /\ peer' = peer /\ hw' = hw /\ ba' = ba
      /\ clients' = clients /\ ptk' = ptk /\ sess' = sess
  BY DEF Succeed, mac, asked
<1>10. TypeOK'
  <2>1. Len(todo') <= 17
    BY <1>3, <1>4 DEF StationInv, TypeOK
  <2>2. err' \in BOOLEAN /\ MacType'
    BY <1>9 DEF StationInv, TypeOK, MacType
  <2> QED BY <1>7, <2>1, <2>2, TypeFromRegs
<1>11. MacInv'
  BY <1>9 DEF StationInv, MacInv, VifInv, ClientInv
<1>12. ASSUME ~err
       PROVE  GoalInv'
  <2>1. GoalInv
    BY <1>12 DEF StationInv
  <2>2. reg' = After(reg, todo[1])
    <3>1. ASSUME IsLink(todo[1]) PROVE reg[<<"psm", 0>>]
      <4>1. Due(todo, reg, 1 - 1, PsmSet)
        BY <1>4, <2>1, <3>1 DEF GoalInv, Ordered
      <4>2. Shows(reg, PsmSet)
        BY <4>1, DueAtOnce
      <4>3. reg[<<"psm", 0>>] = TRUE
        BY <4>2, Zenon DEF Shows, PsmSet, Goal, Get
      <4> QED BY <4>3
    <3> QED BY <1>5, <3>1 DEF Locked, IsLink
  <2>3. \A g : \A n \in 1..Len(todo) :
          GoalOK(g) /\ Due(todo, reg, n, g) => Due(todo', reg', n - 1, g)
    BY <1>1, <1>2, <2>2, DueLater
  <2>4. \A g : GoalOK(g) /\ AtEnd(g) => Due(todo', reg', Len(todo'), g)
    BY <1>4, <2>3 DEF AtEnd
  <2>5. Ordered(todo', reg', hw')
    <3>1. ASSUME NEW i \in 1..Len(todo')
          PROVE  i + 1 \in 1..Len(todo) /\ i \in 1..Len(todo) /\ todo'[i] = todo[i + 1] /\ (i + 1) - 1 = i
      BY <1>1, <1>3, <1>4
    <3>2. \A v : \A w \in Wcids, m \in 1..4 : /\ GoalOK(PsmSet) /\ GoalOK(Word(w, m, v))
                                              /\ GoalOK(Pn(w)) /\ GoalOK(PnHi(w))
      BY GoalsOK
    <3>3. ASSUME NEW i \in 1..Len(todo'), IsLink(todo'[i])
          PROVE  Due(todo', reg', i - 1, PsmSet)
      <4>1. Due(todo, reg, (i + 1) - 1, PsmSet)
        BY <3>1, <3>3, <2>1 DEF GoalInv, Ordered
      <4>2. GoalOK(PsmSet)
        BY <3>2 DEF Wcids
      <4> QED BY <4>1, <4>2, <3>1, <2>3
    <3>4. ASSUME NEW i \in 1..Len(todo'), NEW w \in Wcids, Encrypts(todo'[i], w)
          PROVE  /\ \A m \in 1..4 : Due(todo', reg', i - 1, Word(w, m, hw'[w].key))
                 /\ Due(todo', reg', i - 1, Pn(w)) /\ Due(todo', reg', i - 1, PnHi(w))
      <4>1. /\ \A m \in 1..4 : Due(todo, reg, (i + 1) - 1, Word(w, m, hw[w].key))
            /\ Due(todo, reg, (i + 1) - 1, Pn(w)) /\ Due(todo, reg, (i + 1) - 1, PnHi(w))
        BY <3>1, <3>4, <2>1 DEF GoalInv, Ordered
      <4>2. \A m \in 1..4 : Due(todo', reg', i - 1, Word(w, m, hw[w].key))
        BY <4>1, <3>1, <3>2, <2>3
      <4>3. Due(todo', reg', i - 1, Pn(w)) /\ Due(todo', reg', i - 1, PnHi(w))
        BY <4>1, <3>1, <3>2, <2>3
      <4> QED BY <4>2, <4>3, <1>9
    <3> QED BY <3>3, <3>4 DEF Ordered
  <2>6. /\ \A v : \A w \in Wcids :
              /\ GoalOK(Cipher(w, v)) /\ GoalOK(Link3(w)) /\ GoalOK(Link4(w))
              /\ GoalOK(Cb(w, v)) /\ \A i \in 1..4 : GoalOK(Word(w, i, v))
        /\ \A v : GoalOK(Kid(v)) /\ GoalOK(AddrHi(v)) /\ GoalOK(AddrLo(v)) /\ GoalOK(BaWord(v))
        /\ GoalOK(PsmClear) /\ GoalOK(Rkv)
    <3>1. 1 \in 1..4 /\ 1 \in Wcids
      BY DEF Wcids
    <3> QED BY <3>1, GoalsOK
  <2>7. LinkInv'
    BY <1>9, <2>1, <2>4, <2>6 DEF GoalInv, LinkInv, AtEnd
  <2>8. KeyInv'
    BY <1>9, <2>1, <2>4, <2>6 DEF GoalInv, KeyInv, AtEnd, Wcids
  <2>9. PeerInv'
    BY <1>9, <2>1, <2>4, <2>6 DEF GoalInv, PeerInv, AtEnd
  <2>10. BssidInv'
    BY <1>9, <2>1, <2>4, <2>6 DEF GoalInv, BssidInv, AtEnd, Wcids
  <2>11. BaInv'
    <3>1. ASSUME clients # {}
          PROVE  Due(todo', reg', Len(todo'), BaWord(ba))
      <4>1. CASE AtEnd(BaWord(ba))
        BY <4>1, <2>4, <2>6
      <4>2. CASE /\ Len(todo) = 1 /\ todo[1].kind = "ba" /\ todo[1].reg = <<"ba", 1>>
                 /\ MergeBa(reg[<<"ba", 1>>], todo[1].val) = ba
        <5>1. <<"ba", 1>> \in Regs
          BY Registers DEF Wcids
        <5>2. reg'[<<"ba", 1>>] = ba
          <6>1. NewVal(reg[<<"ba", 1>>], todo[1]) = ba
            BY <4>2 DEF NewVal
          <6> QED BY <6>1, <5>1, <4>2, <2>2, <1>2 DEF After, Bank
        <5>3. Shows(reg', BaWord(ba)) /\ Len(todo') = 0
          BY <5>2, <4>2, <1>4 DEF Shows, BaWord, Goal, Get
        <5>4. Quiet(todo', 0, BaWord(ba))
          BY DEF Quiet
        <5> QED BY <5>3, <5>4 DEF Due
      <4> QED BY <3>1, <4>1, <4>2, <2>1 DEF GoalInv, BaInv
    <3> QED BY <3>1, <1>9 DEF BaInv, AtEnd
  <2> QED BY <2>5, <2>7, <2>8, <2>9, <2>10, <2>11 DEF GoalInv
<1> QED BY <1>7, <1>8, <1>9, <1>10, <1>11, <1>12 DEF StationInv

(* A failing access: the goals are given up, the types stay.                *)
LEMMA FailKeeps ==
  ASSUME StationInv, Fail
  PROVE  StationInv'
<1>1. todo \in Seq(Accesses) /\ todo # <<>>
  BY DEF StationInv, TodoInv, Fail
<1>2. Bank(reg)
  BY DEF StationInv, RegInv, Bank
<1>3. Head(todo) = todo[1] /\ todo[1] \in Accesses /\ Len(todo) \in Nat /\ Len(todo) >= 1
  BY <1>1
<1>4. todo' \in Seq(Accesses) /\ Len(todo') <= Len(todo)
  <2>1. PICK k \in 2..(Len(todo) + 1) : todo' = SubSeq(todo, k, Len(todo))
    BY DEF Fail
  <2>2. k \in Int /\ 2 <= k /\ k <= Len(todo) + 1
    BY <1>3
  <2> QED BY <1>1, <1>3, <2>1, <2>2
<1>5. Bank(reg')
  <2>1. CASE UNCHANGED reg
    BY <1>2, <2>1
  <2>2. CASE todo[1].kind = "ba" /\ Put(todo[1].reg, MergeBa({}, todo[1].val))
    <3>1. todo[1].reg \in Regs /\ Sound(todo[1])
      BY <1>3, AccessFields
    <3>2. todo[1].reg[1] = "ba" /\ todo[1].val.tid \in Tids
      BY <2>2, <3>1 DEF Sound, BaBit
    <3> DEFINE v == MergeBa({}, todo[1].val)
    <3>3. v \in SUBSET Tids
      BY <3>2 DEF MergeBa
    <3> HIDE DEF v
    <3>4. Fits(todo[1].reg, v)
      BY <3>2, <3>3 DEF Fits
    <3>5. reg' = reg \/ reg' = [reg EXCEPT ![todo[1].reg] = v]
      BY <2>2 DEF Put, v
    <3> QED BY <1>2, <3>1, <3>4, <3>5 DEF Bank
  <2> QED BY <1>3, <2>1, <2>2 DEF Fail
<1>6. RegInv' /\ TodoInv'
  BY <1>4, <1>5 DEF RegInv, Bank, TodoInv
<1>7. err' = TRUE
  BY DEF Fail
<1>8. /\ vif' = vif /\ up' = up /\ peer' = peer /\ hw' = hw /\ ba' = ba
      /\ clients' = clients /\ ptk' = ptk /\ sess' = sess
  BY DEF Fail, mac, asked
<1>9. MacType' /\ MacInv'
  BY <1>8 DEF StationInv, TypeOK, MacType, MacInv, VifInv, ClientInv
<1>10. TypeOK'
  <2>1. Len(todo') <= 17
    <3>1. Len(todo) <= 17 /\ Len(todo') \in Nat
      BY <1>4 DEF StationInv, TypeOK
    <3> QED BY <1>3, <1>4, <3>1
  <2>2. err' \in BOOLEAN
    BY <1>7
  <2> QED BY <1>6, <1>9, <2>1, <2>2, TypeFromRegs
<1> QED BY <1>6, <1>7, <1>9, <1>10 DEF StationInv

(* A callback begins: it names its accesses and changes no register.        *)
LEMMA CallbackKeeps ==
  ASSUME StationInv, reg' = reg, todo' \in Seq(Accesses), Len(todo') <= 17,
         err' \in BOOLEAN, MacType', MacInv', ~err' => GoalInv'
  PROVE  StationInv'
<1>1. RegInv' /\ TodoInv'
  BY DEF StationInv, RegInv, TodoInv
<1>2. TypeOK'
  BY <1>1, TypeFromRegs
<1> QED BY <1>1, <1>2 DEF StationInv

(* Before it, what was asked for is there.                                  *)
LEMMA IdleShows ==
  ASSUME Idle, NEW g, AtEnd(g)
  PROVE  Shows(reg, g)
<1>1. Len(todo) = 0
  BY DEF Idle
<1> QED BY <1>1, DueAtOnce DEF AtEnd

LEMMA StartKeeps ==
  ASSUME StationInv, Start
  PROVE  StationInv'
<1>1. /\ ~up /\ up' = TRUE /\ todo' = WtblSta("mcast") /\ reg' = reg /\ err' = err /\ vif' = vif
      /\ peer' = peer /\ hw' = hw /\ ba' = ba
      /\ clients' = clients /\ ptk' = ptk /\ sess' = sess
  BY DEF Start, Begin, asked
<1>2. vif = "none" /\ clients = {} /\ peer = "zero" /\ hw[0] = NoKey /\ hw[1] = NoKey
  BY <1>1, NoClients DEF StationInv, MacInv, VifInv
<1>3. "mcast" \in Addrs
  BY DEF Addrs
<1>4. todo' \in Seq(Accesses) /\ Len(todo') = 12
  BY <1>1, <1>3, WtblList
<1>5. MacType' /\ MacInv' /\ err' \in BOOLEAN
  <2>1. up' \in BOOLEAN
    BY <1>1
  <2>2. MacType' /\ err' \in BOOLEAN
    BY <1>1, <2>1 DEF StationInv, TypeOK, MacType
  <2> QED BY <1>1, <2>2 DEF StationInv, MacInv, VifInv, ClientInv
<1>6. GoalInv'
  <2>1. /\ \A w \in Wcids : /\ Hits(todo', Len(todo'), Link3(w)) /\ Hits(todo', Len(todo'), Link4(w))
                            /\ Hits(todo', Len(todo'), Cipher(w, "none"))
        /\ Hits(todo', Len(todo'), PsmClear) /\ Ready(todo')
    BY <1>1, <1>3, <1>4, WtblHits
  <2>2. Ordered(todo', reg', hw')
    BY <2>1, ReadyOrdered
  <2>3. LinkInv'
    BY <2>1 DEF LinkInv, AtEnd, Due
  <2>4. KeyInv'
    BY <1>1, <1>2, <2>1 DEF KeyInv, AtEnd, Due, Wcids
  <2>5. PeerInv' /\ BssidInv' /\ BaInv'
    BY <1>1, <1>2 DEF PeerInv, BssidInv, BaInv
  <2> QED BY <2>2, <2>3, <2>4, <2>5 DEF GoalInv
<1>7. Len(todo') <= 17
  BY <1>4
<1> QED BY <1>1, <1>4, <1>5, <1>6, <1>7, CallbackKeeps

(* What is there and not touched stays due.                                 *)
LEMMA QuietKeeps ==
  ASSUME Idle, reg' = reg, NEW g, AtEnd(g), Quiet(todo', Len(todo'), g)
  PROVE  Due(todo', reg', Len(todo'), g)
BY IdleShows DEF Due

LEMMA NothingToDo ==
  ASSUME Idle, reg' = reg, todo' = <<>>
  PROVE  /\ todo' \in Seq(Accesses) /\ Len(todo') <= 17
         /\ Ready(todo')
         /\ \A g : Quiet(todo', Len(todo'), g)
BY DEF Ready, Quiet

(* remove_interface, add_interface of a station.                            *)
LEMMA InterfaceKeeps ==
  ASSUME StationInv, AddInterface \/ RemoveInterface
  PROVE  StationInv'
<1>1. /\ Idle /\ reg' = reg /\ err' = err /\ up' = up /\ peer' = peer /\ hw' = hw /\ ba' = ba
      /\ clients' = clients /\ ptk' = ptk /\ sess' = sess /\ clients = {} /\ up
      /\ \/ todo' = <<>> /\ vif' = "sta"
         \/ todo' = Bssid("own") /\ vif' = "ap"
         \/ todo' = <<>> /\ vif' = "none" /\ hw[0] = NoKey
  BY DEF AddInterface, RemoveInterface, Begin, asked, StationInv, MacInv, VifInv
<1>0. peer = "zero" /\ hw[1] = NoKey
  BY <1>1, NoClients DEF StationInv, MacInv
<1>2. "own" \in Addrs
  BY DEF Addrs
<1>3. /\ todo' \in Seq(Accesses) /\ Len(todo') <= 17 /\ Ready(todo')
      /\ \A g : g.reg[1] # "cb0" => Quiet(todo', Len(todo'), g)
      /\ vif' = "ap" => \A h \in {0, 1} : Hits(todo', Len(todo'), Cb(h, "own"))
  <2>1. CASE todo' = <<>> /\ vif' # "ap"
    BY <1>1, <2>1, NothingToDo
  <2>2. CASE todo' = Bssid("own")
    <3>1. SetsBssid(todo', "own")
      BY <1>2, <2>2, BssidList
    <3>2. todo' \in Seq(Accesses) /\ Len(todo') = 2
      BY <3>1 DEF SetsBssid
    <3> QED BY <3>1, <3>2, BssidHits
  <2> QED BY <1>1, <2>1, <2>2
<1>4. MacType' /\ MacInv' /\ err' \in BOOLEAN
  <2>1. MacType' /\ err' \in BOOLEAN
    BY <1>1 DEF StationInv, TypeOK, MacType
  <2>2. VifInv'
    BY <1>1 DEF VifInv
  <2>3. ClientInv'
    BY <1>1 DEF StationInv, MacInv, ClientInv
  <2> QED BY <2>1, <2>2, <2>3 DEF MacInv
<1>5. ASSUME ~err'
      PROVE  GoalInv'
  <2>1. GoalInv
    BY <1>1, <1>5 DEF StationInv
  <2>2. \A g : AtEnd(g) /\ g.reg[1] # "cb0" => Due(todo', reg', Len(todo'), g)
    BY <1>1, <1>3, QuietKeeps
  <2>3. Ordered(todo', reg', hw')
    BY <1>3, ReadyOrdered
  <2>4. LinkInv'
    <3>1. /\ \A w : Link3(w).reg[1] # "cb0" /\ Link4(w).reg[1] # "cb0"
          /\ PsmClear.reg[1] # "cb0"
      BY DEF Link3, Link4, PsmClear, Goal
    <3> QED BY <1>1, <2>1, <2>2, <3>1 DEF GoalInv, LinkInv, AtEnd
  <2>5. KeyInv'
    <3>1. hw'[1] = NoKey
      BY <1>0, <1>1
    <3>2. \A w, v : Cipher(w, v).reg[1] # "cb0"
      BY DEF Cipher, Goal
    <3> QED BY <1>1, <2>1, <2>2, <3>1, <3>2 DEF GoalInv, KeyInv, AtEnd
  <2>6. PeerInv' /\ BaInv'
    BY <1>0, <1>1 DEF PeerInv, BaInv
  <2>7. BssidInv'
    BY <1>0, <1>1, <1>3 DEF BssidInv, AtEnd, Due
  <2> QED BY <2>3, <2>4, <2>5, <2>6, <2>7 DEF GoalInv
<1> QED BY <1>1, <1>3, <1>4, <1>5, CallbackKeeps

(* The goals after the list of an association with a.                       *)
LEMMA AssocGoals ==
  ASSUME NEW a \in Addrs, NEW X \in Seq(Accesses), Ready(X), Len(X) <= 2,
         todo' = X \o WtblSta(a) \o ClearBa,
         hw'[1] = NoKey, ba' = {}, peer' = a \/ peer' = "zero",
         BssidInv'
  PROVE  todo' \in Seq(Accesses) /\ Len(todo') <= 17 /\ GoalInv'
<1>1. /\ todo' \in Seq(Accesses) /\ Len(todo') <= 17 /\ Ready(todo')
      /\ \A w \in Wcids : /\ Hits(todo', Len(todo'), Link3(w)) /\ Hits(todo', Len(todo'), Link4(w))
                           /\ Hits(todo', Len(todo'), Cipher(w, "none"))
      /\ Hits(todo', Len(todo'), PsmClear)
      /\ Hits(todo', Len(todo'), AddrHi(a)) /\ Hits(todo', Len(todo'), AddrLo(a))
      /\ Hits(todo', Len(todo'), BaWord({}))
  BY AssocList
<1>2. Ordered(todo', reg', hw')
  BY <1>1, ReadyOrdered
<1>3. LinkInv'
  BY <1>1 DEF LinkInv, AtEnd, Due
<1>4. KeyInv'
  BY <1>1 DEF KeyInv, AtEnd, Due
<1>5. PeerInv'
  BY <1>1 DEF PeerInv, AtEnd, Due
<1>6. BaInv'
  BY <1>1 DEF BaInv, AtEnd, Due
<1> QED BY <1>1, <1>2, <1>3, <1>4, <1>5, <1>6 DEF GoalInv

(* mt7603_mac80211_sta_add.                                                 *)
LEMMA StaAddKeeps ==
  ASSUME StationInv, NEW s \in Stations, StaAdd(s)
  PROVE  StationInv'
<1> DEFINE X == IF vif = "ap" THEN <<>> ELSE Bssid(s)
<1>1. /\ vif # "none" /\ s \notin clients /\ (vif = "sta" => clients = {}) /\ Idle
      /\ todo' = X \o WtblSta(s) \o ClearBa
      /\ err' = (err /\ vif = "ap") /\ reg' = reg /\ vif' = vif /\ up' = up /\ ba' = {}
      /\ clients' = clients \cup {s} /\ ptk' = ptk /\ sess' = sess
      /\ peer' = s /\ hw' = [hw EXCEPT ![1] = NoKey]
  BY DEF StaAdd, Begin, MayAdd, GiveEntry
<1>2. s \in Addrs /\ s # "zero"
  BY StationsAssumption DEF Addrs
<1>3. hw'[1] = NoKey /\ hw'[0] = hw[0] /\ hw' \in [Wcids -> HwKey \cup {NoKey}]
  BY <1>1 DEF StationInv, TypeOK, Wcids
<1>4. /\ X \in Seq(Accesses) /\ Ready(X) /\ Len(X) <= 2
      /\ vif = "sta" => \A h \in {0, 1} : Hits(X, Len(X), Cb(h, s))
      /\ vif = "ap" => \A h, v : Quiet(X, Len(X), Cb(h, v))
  <2>1. CASE vif = "ap"
    <3>1. X = <<>>
      BY <2>1
    <3> HIDE DEF X
    <3> QED BY <2>1, <3>1 DEF Ready, Quiet
  <2>2. CASE vif # "ap"
    <3>1. SetsBssid(X, s)
      BY <1>2, <2>2, BssidList
    <3> HIDE DEF X
    <3>2. X \in Seq(Accesses) /\ Len(X) = 2
      BY <3>1 DEF SetsBssid
    <3> QED BY <2>2, <3>1, <3>2, BssidHits
  <2> QED BY <2>1, <2>2
<1> HIDE DEF X
<1>5. MacType' /\ MacInv' /\ err' \in BOOLEAN
  <2>1. MacType'
    BY <1>1, <1>3 DEF StationInv, TypeOK, MacType
  <2>2. err' \in BOOLEAN
    BY <1>1
  <2>3. VifInv'
    BY <1>1 DEF StationInv, MacInv, VifInv
  <2>4. ClientInv'
    <3>1. ptk[s] = NoKey /\ sess[s] = {}
      BY <1>1 DEF StationInv, MacInv, ClientInv
    <3>2. \A x \in Stations : x \notin clients' => ptk'[x] = NoKey /\ sess'[x] = {}
      BY <1>1 DEF StationInv, MacInv, ClientInv
    <3> QED BY <1>1, <1>3, <3>1, <3>2 DEF ClientInv
  <2> QED BY <2>1, <2>2, <2>3, <2>4 DEF MacInv
<1>6. /\ \A h, v : Hits(X, Len(X), Cb(h, v)) => Hits(todo', Len(todo'), Cb(h, v))
      /\ \A h, v : Quiet(X, Len(X), Cb(h, v)) => Quiet(todo', Len(todo'), Cb(h, v))
  BY <1>1, <1>2, <1>4, AssocList
<1>7. ASSUME ~err'
      PROVE  BssidInv'
  <2>1. CASE vif = "sta"
    BY <1>1, <1>4, <1>6, <2>1 DEF BssidInv, AtEnd, Due
  <2>2. CASE vif = "ap"
    <3>1. \A h \in {0, 1} : AtEnd(Cb(h, "own"))
      BY <1>1, <1>7, <2>2 DEF StationInv, GoalInv, BssidInv
    <3>2. \A h \in {0, 1} : Due(todo', reg', Len(todo'), Cb(h, "own"))
      BY <1>1, <1>4, <1>6, <2>2, <3>1, QuietKeeps
    <3> QED BY <1>1, <2>2, <3>2 DEF BssidInv, AtEnd
  <2> QED BY <1>1, <2>1, <2>2 DEF StationInv, TypeOK
<1>8. todo' \in Seq(Accesses) /\ Len(todo') <= 17
  BY <1>1, <1>2, <1>4, AssocList
<1>9. ~err' => GoalInv'
  BY <1>1, <1>2, <1>3, <1>4, <1>7, AssocGoals
<1> QED BY <1>1, <1>5, <1>8, <1>9, CallbackKeeps

(* The goals after a list that clears entry 1, for whichever station.       *)
LEMMA ForgetGoals ==
  ASSUME Idle, GoalInv, NEW X \in Seq(Accesses), Ready(X), Len(X) <= 2,
         \A g : g.reg[1] # "cb0" => Quiet(X, Len(X), g),
         vif = "ap" => \A h, v : Quiet(X, Len(X), Cb(h, v)),
         todo' = X \o ClearEntry, reg' = reg, vif' = vif, up' = up, ba' = ba,
         peer' = "zero", hw'[0] = hw[0], hw'[1] = NoKey, clients' \subseteq clients
  PROVE  GoalInv'
<1>1. /\ Ready(todo')
      /\ Hits(todo', Len(todo'), Cipher(1, "none"))
      /\ Quiet(todo', Len(todo'), PsmClear) /\ \A v : Quiet(todo', Len(todo'), Cipher(0, v))
      /\ \A w \in Wcids : Quiet(todo', Len(todo'), Link3(w)) /\ Quiet(todo', Len(todo'), Link4(w))
      /\ \A h, v : Quiet(X, Len(X), Cb(h, v)) => Quiet(todo', Len(todo'), Cb(h, v))
      /\ \A v : Quiet(todo', Len(todo'), BaWord(v))
  BY ForgetList
<1>2. \A g : AtEnd(g) /\ Quiet(todo', Len(todo'), g) => Due(todo', reg', Len(todo'), g)
  BY QuietKeeps
<1>3. Ordered(todo', reg', hw')
  BY <1>1, ReadyOrdered
<1>4. LinkInv'
  BY <1>1, <1>2 DEF GoalInv, LinkInv, AtEnd
<1>5. KeyInv'
  <2>1. \A w \in Wcids : w = 0 \/ w = 1
    BY DEF Wcids
  <2>2. Due(todo', reg', Len(todo'), Cipher(1, "none"))
    BY <1>1 DEF Due
  <2>3. hw[0] = NoKey => Due(todo', reg', Len(todo'), Cipher(0, "none"))
    BY <1>1, <1>2 DEF GoalInv, KeyInv, Wcids
  <2> QED BY <2>1, <2>2, <2>3 DEF KeyInv, AtEnd
<1>6. BssidInv'
  BY <1>1, <1>2 DEF GoalInv, BssidInv, AtEnd
<1>7. BaInv'
  <2>1. clients # {} => AtEnd(BaWord(ba))
    BY DEF GoalInv, BaInv, Idle
  <2>2. clients' # {} => Due(todo', reg', Len(todo'), BaWord(ba'))
    BY <1>1, <1>2, <2>1
  <2> QED BY <2>2 DEF BaInv, AtEnd
<1>8. PeerInv'
  BY DEF PeerInv
<1> QED BY <1>3, <1>4, <1>5, <1>6, <1>7, <1>8 DEF GoalInv

(* mt7603_mac80211_sta_remove.                                              *)
LEMMA StaRemoveKeeps ==
  ASSUME StationInv, NEW s \in Stations, StaRemove(s)
  PROVE  StationInv'
<1> DEFINE X == IF vif = "ap" THEN <<>> ELSE Bssid("zero")
<1>1. /\ s \in clients /\ ptk[s] = NoKey /\ sess[s] = {} /\ clients' = clients \ {s}
      /\ Idle /\ todo' = X \o ClearEntry /\ peer' = "zero" /\ hw' = [hw EXCEPT ![1] = NoKey]
      /\ reg' = reg /\ err' = err /\ vif' = vif /\ up' = up /\ ba' = ba
      /\ ptk' = ptk /\ sess' = sess
  BY DEF StaRemove, Begin, GiveEntry
<1>2. /\ X \in Seq(Accesses) /\ Ready(X) /\ Len(X) <= 2
      /\ \A g : g.reg[1] # "cb0" => Quiet(X, Len(X), g)
      /\ vif = "ap" => \A h, v : Quiet(X, Len(X), Cb(h, v))
  <2>1. CASE vif = "ap"
    <3>1. X = <<>>
      BY <2>1
    <3> HIDE DEF X
    <3> QED BY <2>1, <3>1 DEF Ready, Quiet
  <2>2. CASE vif # "ap"
    <3>1. SetsBssid(X, "zero")
      BY <2>2, BssidList DEF Addrs
    <3> HIDE DEF X
    <3>2. X \in Seq(Accesses) /\ Len(X) = 2
      BY <3>1 DEF SetsBssid
    <3> QED BY <2>2, <3>1, <3>2, BssidHits
  <2> QED BY <2>1, <2>2
<1> HIDE DEF X
<1>3. todo' \in Seq(Accesses) /\ Len(todo') <= 17
  BY <1>1, <1>2, ForgetList
<1>4. hw'[1] = NoKey /\ hw'[0] = hw[0] /\ hw' \in [Wcids -> HwKey \cup {NoKey}]
  BY <1>1 DEF StationInv, TypeOK, Wcids
<1>5. MacType' /\ MacInv' /\ err' \in BOOLEAN
  <2>1. MacType' /\ err' \in BOOLEAN
    BY <1>1, <1>4 DEF StationInv, TypeOK, MacType
  <2>2. VifInv'
    BY <1>1, <1>4 DEF StationInv, MacInv, VifInv
  <2>3. ClientInv'
    <3>1. "zero" \notin clients'
      BY <1>1, StationsAssumption DEF StationInv, TypeOK
    <3>2. \A x \in Stations : x \notin clients' => ptk[x] = NoKey /\ sess[x] = {}
      BY <1>1 DEF StationInv, MacInv, ClientInv
    <3>3. \A t \in ba : \E x \in clients' : t \in sess[x]
      BY <1>1 DEF StationInv, MacInv, ClientInv
    <3> QED BY <1>1, <1>4, <3>1, <3>2, <3>3 DEF ClientInv
  <2> QED BY <2>1, <2>2, <2>3 DEF MacInv
<1>6. ~err' => GoalInv'
  BY <1>1, <1>2, <1>4, ForgetGoals DEF StationInv
<1> QED BY <1>1, <1>3, <1>5, <1>6, CallbackKeeps

(* mt7603_mac80211_bss_info_changed.                                        *)
LEMMA BssInfoKeeps ==
  ASSUME StationInv, BssInfoChanged
  PROVE  StationInv'
<1>1. /\ Idle /\ reg' = reg /\ err' = err /\ vif' = vif /\ up' = up /\ peer' = peer
      /\ hw' = hw /\ ba' = ba /\ clients' = clients /\ ptk' = ptk /\ sess' = sess
  BY DEF BssInfoChanged, Begin, mac, asked
<1>2. MacType' /\ MacInv' /\ err' \in BOOLEAN
  <2>1. MacType' /\ err' \in BOOLEAN
    BY <1>1 DEF StationInv, TypeOK, MacType
  <2> QED BY <1>1, <2>1 DEF StationInv, MacInv, VifInv, ClientInv
<1>3. todo' \in Seq(Accesses) /\ Len(todo') <= 17 /\ (~err' => GoalInv')
  <2>1. CASE /\ vif = "sta" /\ hw[0] = NoKey
             /\ \A s \in clients : ptk[s] = NoKey /\ sess[s] = {}
             /\ \E a \in IF clients = {} THEN Stations ELSE clients :
                   Begin(BssidChecked(a) \o WtblSta(a) \o ClearBa)
    <3>1. PICK a \in IF clients = {} THEN Stations ELSE clients :
                   Begin(BssidChecked(a) \o WtblSta(a) \o ClearBa)
      BY <2>1
    <3>2. a \in Addrs /\ (peer = a \/ peer = "zero")
      <4>1. CASE clients = {}
        BY <3>1, <4>1, NoClients DEF StationInv, MacInv, Addrs
      <4>2. CASE clients # {}
        BY <2>1, <3>1, <4>2 DEF StationInv, TypeOK, MacInv, VifInv, Addrs
      <4> QED BY <4>1, <4>2
    <3> DEFINE X == BssidChecked(a)
    <3>3. SetsBssid(X, a) /\ todo' = X \o WtblSta(a) \o ClearBa
      BY <3>1, <3>2, BssidList DEF Begin
    <3> HIDE DEF X
    <3>4. X \in Seq(Accesses) /\ Len(X) = 2 /\ Ready(X)
      BY <3>3, BssidHits DEF SetsBssid
    <3>5. \A h \in {0, 1} : Hits(X, Len(X), Cb(h, a))
      BY <3>3, <3>4, BssidHits
    <3>6. Len(X) <= 2
      BY <3>4
    <3>7. /\ todo' \in Seq(Accesses) /\ Len(todo') <= 17
          /\ \A h \in {0, 1} : Hits(todo', Len(todo'), Cb(h, a))
      BY <3>2, <3>3, <3>4, <3>5, <3>6, AssocList
    <3>8. BssidInv'
      BY <1>1, <2>1, <3>2, <3>7 DEF BssidInv, AtEnd, Due
    <3>9. hw'[1] = NoKey /\ ba' = {} /\ (peer' = a \/ peer' = "zero")
      BY <1>1, <2>1, <3>2 DEF StationInv, MacInv, ClientInv
    <3>10. GoalInv'
      BY <3>2, <3>3, <3>4, <3>6, <3>8, <3>9, AssocGoals
    <3> QED BY <3>7, <3>10
  <2>2. CASE vif = "sta" /\ clients = {} /\ Begin(Bssid("zero") \o ClearEntry)
    <3> DEFINE X == Bssid("zero")
    <3>1. SetsBssid(X, "zero") /\ todo' = X \o ClearEntry
      BY <2>2, BssidList DEF Addrs, Begin
    <3> HIDE DEF X
    <3>2. X \in Seq(Accesses) /\ Len(X) = 2
      BY <3>1 DEF SetsBssid
    <3>3. Len(X) <= 2 /\ Ready(X) /\ \A g : g.reg[1] # "cb0" => Quiet(X, Len(X), g)
      BY <3>1, <3>2, BssidHits
    <3>4. todo' \in Seq(Accesses) /\ Len(todo') <= 17
      BY <3>1, <3>2, <3>3, ForgetList
    <3>5. hw[1] = NoKey /\ peer = "zero"
      BY <2>2, NoClients DEF StationInv, MacInv
    <3>6. peer' = "zero" /\ vif # "ap" /\ hw'[0] = hw[0] /\ hw'[1] = NoKey /\ clients' \subseteq clients
      BY <1>1, <2>2, <3>5
    <3>7. ~err' => GoalInv'
      BY <1>1, <3>1, <3>2, <3>3, <3>5, <3>6, ForgetGoals DEF StationInv
    <3> QED BY <3>4, <3>7
  <2>3. CASE vif = "ap" /\ (Begin(BssidChecked("own")) \/ Begin(Bssid("own")))
    <3>1. SetsBssid(todo', "own")
      BY <2>3, BssidList DEF Addrs, Begin
    <3>2. /\ todo' \in Seq(Accesses) /\ Len(todo') = 2 /\ Ready(todo')
          /\ \A h \in {0, 1} : Hits(todo', Len(todo'), Cb(h, "own"))
          /\ \A g : g.reg[1] # "cb0" => Quiet(todo', Len(todo'), g)
      BY <3>1, BssidHits DEF SetsBssid
    <3>3. ASSUME ~err'
          PROVE  GoalInv'
      <4>1. GoalInv
        BY <1>1, <3>3 DEF StationInv
      <4>2. \A g : AtEnd(g) /\ g.reg[1] # "cb0" => Due(todo', reg', Len(todo'), g)
        BY <1>1, <3>2, QuietKeeps
      <4>3. /\ \A w, v : /\ Link3(w).reg[1] # "cb0" /\ Link4(w).reg[1] # "cb0"
                         /\ Cipher(w, v).reg[1] # "cb0" /\ Kid(v).reg[1] # "cb0"
                         /\ AddrHi(v).reg[1] # "cb0" /\ AddrLo(v).reg[1] # "cb0"
                         /\ BaWord(v).reg[1] # "cb0"
            /\ \A w, i, v : Word(w, i, v).reg[1] # "cb0"
            /\ PsmClear.reg[1] # "cb0" /\ Rkv.reg[1] # "cb0"
        BY DEF Link3, Link4, Cipher, Kid, AddrHi, AddrLo, BaWord, Word, PsmClear, Rkv, Goal
      <4>4. Ordered(todo', reg', hw')
        BY <3>2, ReadyOrdered
      <4>5. LinkInv'
        BY <1>1, <4>1, <4>2, <4>3 DEF GoalInv, LinkInv, AtEnd
      <4>6. KeyInv'
        BY <1>1, <4>1, <4>2, <4>3 DEF GoalInv, KeyInv, AtEnd
      <4>7. PeerInv'
        BY <1>1, <4>1, <4>2, <4>3 DEF GoalInv, PeerInv, AtEnd
      <4>8. BaInv'
        <5>1. clients # {} => AtEnd(BaWord(ba))
          BY <1>1, <4>1 DEF GoalInv, BaInv, Idle
        <5> QED BY <1>1, <4>2, <4>3, <5>1 DEF BaInv, AtEnd
      <4>9. BssidInv'
        BY <1>1, <2>3, <3>2 DEF BssidInv, AtEnd, Due
      <4> QED BY <4>4, <4>5, <4>6, <4>7, <4>8, <4>9 DEF GoalInv
    <3> QED BY <3>2, <3>3
  <2> QED BY <2>1, <2>2, <2>3 DEF BssInfoChanged
<1> QED BY <1>1, <1>2, <1>3, CallbackKeeps

(* Where the goals are: what an access to another register leaves alone.    *)
LEMMA GoalRegs ==
  /\ \A w : Link3(w).reg = <<"dw3", w>> /\ Link4(w).reg = <<"dw4", w>>
  /\ \A w, v : Cipher(w, v).reg = <<"dw2", w>> /\ Cb(w, v).reg = <<"cb0", w>>
  /\ \A w, i, v : Word(w, i, v).reg = <<"tk", w, i>>
  /\ \A v : /\ Kid(v).reg = <<"dw0", 1>> /\ AddrLo(v).reg = <<"dw1", 1>>
            /\ BaWord(v).reg = <<"ba", 1>>
            /\ AddrHi(v).reg = <<"dw0", 1>> /\ AddrHi(v).field = "addr"
  /\ PsmClear.reg = <<"psm", 0>> /\ Rkv.reg = <<"dw0", 1>>
BY DEF Link3, Link4, Cipher, Cb, Word, Kid, AddrLo, AddrHi, BaWord, PsmClear, Rkv, Goal

(* Key h is installed or, when it is NoKey, taken out.                      *)
LEMMA InstallKeeps ==
  ASSUME StationInv, NEW s \in Stations \cup {"zero"}, NEW h \in HwKey \cup {NoKey},
         Install(s, h), IF s = "zero" THEN vif # "none" ELSE s \in clients
  PROVE  /\ MacType' /\ MacInv'
         /\ hw'[Wcid(s)] = h /\ \A v \in Wcids : v # Wcid(s) => hw'[v] = hw[v]
<1>1. /\ hw' = [hw EXCEPT ![Wcid(s)] = h]
      /\ ptk' = [x \in Stations |-> IF x = s THEN h ELSE ptk[x]]
      /\ vif' = vif /\ up' = up /\ clients' = clients /\ sess' = sess
      /\ peer' = peer /\ ba' = ba
  BY DEF Install
<1>2. Wcid(s) \in Wcids /\ Wcids = {0, 1} /\ "zero" \notin Stations
  BY StationsAssumption DEF Wcid, Wcids
<1>3. hw'[Wcid(s)] = h /\ \A v \in Wcids : v # Wcid(s) => hw'[v] = hw[v]
  BY <1>1, <1>2 DEF StationInv, TypeOK
<1>4. MacType'
  <2>1. /\ hw' \in [Wcids -> HwKey \cup {NoKey}]
        /\ ptk' \in [Stations -> HwKey \cup {NoKey}]
    BY <1>1 DEF StationInv, TypeOK
  <2> QED BY <1>1, <2>1 DEF StationInv, TypeOK, MacType
<1>5. clients \subseteq Stations /\ VifInv /\ ClientInv /\ ptk \in [Stations -> HwKey \cup {NoKey}]
  BY DEF StationInv, TypeOK, MacInv
<1>6. CASE s = "zero"
  <2>1. hw'[1] = hw[1] /\ vif # "none"
    BY <1>2, <1>3, <1>6 DEF Wcid
  <2>2. ptk' = ptk
    BY <1>1, <1>2, <1>5, <1>6
  <2>3. VifInv'
    BY <1>1, <1>5, <2>1 DEF VifInv
  <2>4. ClientInv'
    BY <1>1, <1>5, <2>1, <2>2 DEF ClientInv
  <2> QED BY <1>3, <1>4, <2>3, <2>4 DEF MacInv
<1>7. CASE s # "zero"
  <2>1. hw'[1] = h /\ hw'[0] = hw[0] /\ s \in clients /\ s \in Stations
    BY <1>2, <1>3, <1>7 DEF Wcid
  <2>2. ptk'[s] = h /\ \A x \in Stations : x # s => ptk'[x] = ptk[x]
    BY <1>1, <2>1
  <2>3. VifInv'
    BY <1>1, <1>5, <2>1 DEF VifInv
  <2>4. ClientInv'
    <3>1. \A x \in Stations : x \notin clients => ptk'[x] = NoKey
      BY <1>5, <2>1, <2>2 DEF ClientInv
    <3>2. clients = {peer} => peer = s
      BY <2>1
    <3> QED BY <1>1, <1>5, <2>1, <2>2, <3>1, <3>2 DEF ClientInv
  <2> QED BY <1>3, <1>4, <2>3, <2>4 DEF MacInv
<1> QED BY <1>6, <1>7

(* mt7603_mac80211_set_key with SET_KEY.                                    *)
LEMMA SetKeyKeeps ==
  ASSUME StationInv, NEW s \in Stations \cup {"zero"}, NEW k \in KeysFor(s),
         NEW i \in KeyIdx, SetKey(s, k, i)
  PROVE  StationInv'
<1> DEFINE w == Wcid(s)
           K == [key |-> k, idx |-> i]
           e == IF w # 0 \/ vif # "ap" THEN 1 ELSE 0
<1>0. w \in Wcids /\ k \in Keys
  BY DEF Wcid, Wcids, KeysFor, Keys
<1>1. /\ MayInstall(s) /\ Idle /\ todo' = KeyWords(w, k) \o ResetPn(w) \o UseKey(w, i)
      /\ Install(s, K)
      /\ reg' = reg /\ err' = err /\ vif' = vif /\ up' = up /\ peer' = peer /\ ba' = ba
      /\ clients' = clients
  BY DEF SetKey, Begin, Install
<1>2. KeyList(todo', w, k, i, e)
  BY <1>0, <1>1, SetKeyList
<1>3. K \in HwKey /\ K # NoKey /\ K.key = k /\ K.idx = i
  BY <1>0, KeysAssumption DEF HwKey, NoKey
<1>4. w = 1 => e = 1
  OBVIOUS
<1>5. w \in {0, 1} /\ Wcids = {0, 1}
  BY <1>0 DEF Wcids
<1>6. /\ hw'[w] = K /\ \A v \in Wcids : v # w => hw'[v] = hw[v]
      /\ MacType' /\ MacInv'
  <2> HIDE DEF K
  <2>1. IF s = "zero" THEN vif # "none" ELSE s \in clients
    BY <1>1 DEF MayInstall
  <2> QED BY <1>1, <1>3, <2>1, InstallKeeps
<1> HIDE DEF w, K, e
<1>7. err' \in BOOLEAN
  BY <1>1 DEF StationInv, TypeOK
<1>10. todo' \in Seq(Accesses) /\ Len(todo') = 10
  BY <1>2 DEF KeyList
<1>11. ASSUME ~err'
       PROVE  GoalInv'
  <2>1. GoalInv
    BY <1>1, <1>11 DEF StationInv
  <2>2. /\ \A m \in 1..4 : Hits(todo', 10, Word(w, m, k))
        /\ Hits(todo', 10, Cipher(w, "ccmp")) /\ Hits(todo', 10, PsmClear)
        /\ w = 1 => Hits(todo', 10, Kid(i)) /\ (e = 1 => Hits(todo', 10, Rkv))
    BY <1>0, <1>2, KeyHits
  <2>3. \A g : /\ AtEnd(g)
               /\ g.reg \notin {<<"tk", w, m>> : m \in 1..4}
               /\ g.reg \notin {<<"pn", w>>, <<"pn_hi", w>>, <<"dw2", w>>, <<"psm", 0>>}
               /\ g.reg = <<"dw0", w>> => g.field = "addr"
               => Due(todo', reg', Len(todo'), g)
    BY <1>0, <1>1, <1>2, <1>10, KeyHits, QuietKeeps
  <2>4. Ordered(todo', reg', hw')
    <3>1. hw'[w].key = k
      BY <1>3, <1>6
    <3> QED BY <1>0, <3>1, <1>2, KeyHits
  <2>5. LinkInv'
    <3>1. \A v \in Wcids : up => /\ Due(todo', reg', Len(todo'), Link3(v))
                                /\ Due(todo', reg', Len(todo'), Link4(v))
      BY <2>1, <2>3, GoalRegs DEF GoalInv, LinkInv
    <3> QED BY <1>1, <1>10, <2>2, <3>1 DEF LinkInv, AtEnd, Due
  <2>6. KeyInv'
    <3>1. ASSUME NEW v \in Wcids, hw'[v] = NoKey
          PROVE  Due(todo', reg', Len(todo'), Cipher(v, "none"))
      <4>1. v # w /\ hw[v] = NoKey
        BY <1>3, <1>6, <3>1
      <4>2. AtEnd(Cipher(v, "none"))
        BY <2>1, <4>1 DEF GoalInv, KeyInv
      <4> QED BY <2>3, <4>1, <4>2, GoalRegs
    <3>2. ASSUME hw'[1] # NoKey
          PROVE  /\ Due(todo', reg', Len(todo'), Cipher(1, "ccmp"))
                 /\ Due(todo', reg', Len(todo'), Kid(hw'[1].idx)) /\ Due(todo', reg', Len(todo'), Rkv)
                 /\ \A m \in 1..4 : Due(todo', reg', Len(todo'), Word(1, m, hw'[1].key))
      <4>1. CASE w = 1
        BY <1>3, <1>4, <1>6, <1>10, <2>2, <4>1 DEF Due
      <4>2. CASE w = 0
        <5>1. hw'[1] = hw[1]
          BY <1>5, <1>6, <4>2
        <5>2. /\ AtEnd(Cipher(1, "ccmp")) /\ AtEnd(Kid(hw[1].idx)) /\ AtEnd(Rkv)
              /\ \A m \in 1..4 : AtEnd(Word(1, m, hw[1].key))
          BY <2>1, <3>2, <5>1 DEF GoalInv, KeyInv
        <5>3. /\ Due(todo', reg', Len(todo'), Cipher(1, "ccmp"))
              /\ Due(todo', reg', Len(todo'), Kid(hw[1].idx)) /\ Due(todo', reg', Len(todo'), Rkv)
          BY <2>3, <4>2, <5>2, GoalRegs
        <5>4. \A m \in 1..4 : Due(todo', reg', Len(todo'), Word(1, m, hw[1].key))
          BY <2>3, <4>2, <5>2, GoalRegs
        <5> QED BY <5>1, <5>3, <5>4
      <4> QED BY <1>5, <4>1, <4>2
    <3> QED BY <3>1, <3>2 DEF KeyInv, AtEnd
  <2>7. PeerInv'
    BY <1>1, <2>1, <2>3, GoalRegs DEF GoalInv, PeerInv, AtEnd
  <2>8. BssidInv'
    BY <1>1, <2>1, <2>3, GoalRegs DEF GoalInv, BssidInv, AtEnd
  <2>9. BaInv'
    <3>1. clients # {} => AtEnd(BaWord(ba))
      BY <1>1, <2>1 DEF GoalInv, BaInv, Idle
    <3> QED BY <1>1, <2>3, <3>1, GoalRegs DEF BaInv, AtEnd
  <2> QED BY <2>4, <2>5, <2>6, <2>7, <2>8, <2>9 DEF GoalInv
<1>12. Len(todo') <= 17
  BY <1>10
<1> QED BY <1>1, <1>6, <1>7, <1>10, <1>11, <1>12, CallbackKeeps

(* The same with DISABLE_KEY.                                               *)
LEMMA DisableKeyKeeps ==
  ASSUME StationInv, NEW s \in Stations \cup {"zero"}, DisableKey(s)
  PROVE  StationInv'
<1> DEFINE w == Wcid(s)
<1>0. w \in Wcids
  BY DEF Wcid, Wcids
<1>1. /\ Installed(s) /\ Idle /\ todo' = DropList(w) /\ Install(s, NoKey)
      /\ reg' = reg /\ err' = err /\ vif' = vif /\ up' = up /\ peer' = peer /\ ba' = ba
      /\ clients' = clients
  BY DEF DisableKey, Begin, DropList, Install
<1>2. /\ todo' \in Seq(Accesses) /\ Len(todo') = 2 /\ Ready(todo')
      /\ Hits(todo', Len(todo'), Cipher(w, "none"))
      /\ \A g : /\ g.reg # <<"dw2", w>>
                /\ g.reg = <<"dw0", w>> => g.field = "addr"
                => Quiet(todo', Len(todo'), g)
  BY <1>0, <1>1, DropHits
<1>3. w \in {0, 1} /\ Wcids = {0, 1}
  BY <1>0 DEF Wcids
<1>4. /\ hw'[w] = NoKey /\ \A v \in Wcids : v # w => hw'[v] = hw[v]
      /\ MacType' /\ MacInv'
  <2>1. IF s = "zero" THEN vif # "none" ELSE s \in clients
    BY <1>1 DEF Installed, StationInv, MacInv, VifInv, ClientInv
  <2> QED BY <1>1, <2>1, InstallKeeps
<1> HIDE DEF w
<1>5. err' \in BOOLEAN
  BY <1>1 DEF StationInv, TypeOK
<1>7. ASSUME ~err'
      PROVE  GoalInv'
  <2>1. GoalInv
    BY <1>1, <1>7 DEF StationInv
  <2>2. \A g : /\ AtEnd(g) /\ g.reg # <<"dw2", w>>
               /\ g.reg = <<"dw0", w>> => g.field = "addr"
               => Due(todo', reg', Len(todo'), g)
    BY <1>1, <1>2, QuietKeeps
  <2>3. Ordered(todo', reg', hw')
    BY <1>2, ReadyOrdered
  <2>4. LinkInv'
    BY <1>1, <2>1, <2>2, GoalRegs DEF GoalInv, LinkInv, AtEnd
  <2>5. KeyInv'
    <3>1. ASSUME NEW v \in Wcids, hw'[v] = NoKey
          PROVE  Due(todo', reg', Len(todo'), Cipher(v, "none"))
      <4>1. CASE v = w
        BY <1>2, <4>1 DEF Due
      <4>2. CASE v # w
        <5>1. AtEnd(Cipher(v, "none"))
          BY <1>4, <2>1, <3>1, <4>2 DEF GoalInv, KeyInv
        <5> QED BY <2>2, <4>2, <5>1, GoalRegs
      <4> QED BY <4>1, <4>2
    <3>2. ASSUME hw'[1] # NoKey
          PROVE  /\ Due(todo', reg', Len(todo'), Cipher(1, "ccmp"))
                 /\ Due(todo', reg', Len(todo'), Kid(hw'[1].idx)) /\ Due(todo', reg', Len(todo'), Rkv)
                 /\ \A m \in 1..4 : Due(todo', reg', Len(todo'), Word(1, m, hw'[1].key))
      <4>1. w = 0 /\ hw'[1] = hw[1]
        BY <1>3, <1>4, <3>2
      <4>2. /\ AtEnd(Cipher(1, "ccmp")) /\ AtEnd(Kid(hw[1].idx)) /\ AtEnd(Rkv)
            /\ \A m \in 1..4 : AtEnd(Word(1, m, hw[1].key))
        BY <2>1, <3>2, <4>1 DEF GoalInv, KeyInv
      <4>3. /\ Due(todo', reg', Len(todo'), Cipher(1, "ccmp"))
            /\ Due(todo', reg', Len(todo'), Kid(hw[1].idx)) /\ Due(todo', reg', Len(todo'), Rkv)
        BY <2>2, <4>1, <4>2, GoalRegs
      <4>4. \A m \in 1..4 : Due(todo', reg', Len(todo'), Word(1, m, hw[1].key))
        BY <2>2, <4>1, <4>2, GoalRegs
      <4> QED BY <4>1, <4>3, <4>4
    <3> QED BY <3>1, <3>2 DEF KeyInv, AtEnd
  <2>6. PeerInv'
    BY <1>1, <2>1, <2>2, GoalRegs DEF GoalInv, PeerInv, AtEnd
  <2>7. BssidInv'
    BY <1>1, <2>1, <2>2, GoalRegs DEF GoalInv, BssidInv, AtEnd
  <2>8. BaInv'
    <3>1. clients # {} => AtEnd(BaWord(ba))
      BY <1>1, <2>1 DEF GoalInv, BaInv, Idle
    <3> QED BY <1>1, <2>2, <3>1, GoalRegs DEF BaInv, AtEnd
  <2> QED BY <2>3, <2>4, <2>5, <2>6, <2>7, <2>8 DEF GoalInv
<1>8. Len(todo') <= 17
  BY <1>2
<1> QED BY <1>1, <1>2, <1>4, <1>5, <1>7, <1>8, CallbackKeeps

(* mt7603_mac80211_ampdu_action.                                            *)
LEMMA AmpduKeeps ==
  ASSUME StationInv, NEW s \in Stations, NEW t \in Tids, NEW on \in BOOLEAN, AmpduTx(s, t, on)
  PROVE  StationInv'
<1> DEFINE f == [tid |-> t, enable |-> on]
           o == SetBa(<<"ba", 1>>, f)
<1>1. /\ s \in clients /\ Idle /\ todo' = <<o>>
      /\ reg' = reg /\ err' = err /\ vif' = vif /\ up' = up /\ peer' = peer /\ hw' = hw
      /\ clients' = clients /\ ptk' = ptk
  BY DEF AmpduTx, Begin
<1>2. ba' = MergeBa(ba, f)
  BY DEF AmpduTx, MergeBa
<1>3. f \in BaBit /\ <<"ba", 1>> \in Regs
  BY Registers DEF BaBit, Wcids
<1>4. f \in Vals
  BY <1>3, ValsHold
<1>5. ba' \subseteq Tids
  <2>1. ba \subseteq Tids
    BY DEF StationInv, TypeOK
  <2> QED BY <2>1 DEF AmpduTx
<1> HIDE DEF f
<1>6. o \in Accesses
  <2>1. o \in [kind : {"write", "modify", "ba"}, reg : Regs, val : Vals,
               seq : {"none", "ops", "bssid"}]
    BY <1>3, <1>4 DEF SetBa
  <2>2. Sound(o)
    BY <1>3 DEF Sound, SetBa
  <2> QED BY <2>1, <2>2 DEF Accesses
<1>7. o.kind = "ba" /\ o.reg = <<"ba", 1>> /\ o.val = f
  BY DEF SetBa
<1> HIDE DEF o
<1>8. todo' \in Seq(Accesses) /\ Len(todo') = 1 /\ todo'[1] = o /\ Len(todo') <= 17
  BY <1>1, <1>6
<1>9. MacType' /\ MacInv' /\ err' \in BOOLEAN
  <2>1. /\ sess \in [Stations -> SUBSET Tids]
        /\ sess' = [sess EXCEPT ![s] = IF on THEN @ \cup {t} ELSE @ \ {t}]
        /\ ba' = IF on THEN ba \cup {t} ELSE ba \ {t}
    BY DEF StationInv, TypeOK, AmpduTx
  <2>2. /\ sess' \in [Stations -> SUBSET Tids]
        /\ sess'[s] = IF on THEN sess[s] \cup {t} ELSE sess[s] \ {t}
        /\ \A x \in Stations : x # s => sess'[x] = sess[x]
    BY <2>1
  <2>3. MacType' /\ err' \in BOOLEAN
    BY <1>1, <1>5, <2>2 DEF StationInv, TypeOK, MacType
  <2>4. VifInv'
    BY <1>1 DEF StationInv, MacInv, VifInv
  <2>5. ClientInv'
    <3>1. clients \subseteq Stations /\ ClientInv
      BY DEF StationInv, TypeOK, MacInv
    <3>2. \A x \in Stations : x \notin clients => ptk[x] = NoKey /\ sess'[x] = {}
      BY <1>1, <2>2, <3>1 DEF ClientInv
    <3>3. \A u \in ba' : \E x \in clients : u \in sess'[x]
      <4> SUFFICES ASSUME NEW u \in ba' PROVE \E x \in clients : u \in sess'[x]
        OBVIOUS
      <4>1. CASE u = t
        BY <1>1, <2>1, <2>2, <4>1
      <4>2. CASE u # t
        <5>1. PICK x \in clients : u \in sess[x]
          BY <2>1, <3>1, <4>2 DEF ClientInv
        <5> QED BY <2>2, <3>1, <4>2, <5>1
      <4> QED BY <4>1, <4>2
    <3>4. clients = {peer} => sess'[peer] = ba'
      BY <1>1, <2>1, <2>2, <3>1 DEF ClientInv
    <3> QED BY <1>1, <3>1, <3>2, <3>3, <3>4 DEF ClientInv
  <2> QED BY <2>3, <2>4, <2>5 DEF MacInv
<1>10. ASSUME ~err'
       PROVE  GoalInv'
  <2>1. GoalInv
    BY <1>1, <1>10 DEF StationInv
  <2>2. \A j \in 1..1 : j = 1
    OBVIOUS
  <2>3. \A g : AtEnd(g) /\ g.reg # <<"ba", 1>> => Due(todo', reg', Len(todo'), g)
    <3> TAKE g
    <3> HAVE AtEnd(g) /\ g.reg # <<"ba", 1>>
    <3>1. \A j \in 1..Len(todo') : todo'[j].reg # g.reg
      BY <1>7, <1>8, <2>2
    <3>2. Quiet(todo', Len(todo'), g)
      BY <3>1, QuietReg
    <3> QED BY <1>1, <3>2, QuietKeeps
  <2>4. Ordered(todo', reg', hw')
    BY <1>7, <1>8, <2>2 DEF Ordered, IsLink, Encrypts
  <2>5. LinkInv'
    BY <1>1, <2>1, <2>3, GoalRegs DEF GoalInv, LinkInv, AtEnd
  <2>6. KeyInv'
    BY <1>1, <2>1, <2>3, GoalRegs DEF GoalInv, KeyInv, AtEnd
  <2>7. PeerInv'
    BY <1>1, <2>1, <2>3, GoalRegs DEF GoalInv, PeerInv, AtEnd
  <2>8. BssidInv'
    BY <1>1, <2>1, <2>3, GoalRegs DEF GoalInv, BssidInv, AtEnd
  <2>9. BaInv'
    <3>1. AtEnd(BaWord(ba))
      BY <1>1, <2>1 DEF GoalInv, BaInv, Idle
    <3>2. reg[<<"ba", 1>>] = ba
      <4>1. Shows(reg, BaWord(ba))
        BY <1>1, <3>1, IdleShows
      <4> QED BY <4>1 DEF Shows, BaWord, Goal, Get
    <3> QED BY <1>1, <1>2, <1>7, <1>8, <3>2 DEF BaInv
  <2> QED BY <2>4, <2>5, <2>6, <2>7, <2>8, <2>9 DEF GoalInv
<1> QED BY <1>1, <1>8, <1>9, <1>10, CallbackKeeps

LEMMA NextKeeps ==
  ASSUME StationInv, [Next]_vars
  PROVE  StationInv'
<1>1. CASE Succeed
  BY <1>1, SucceedKeeps
<1>2. CASE Fail
  BY <1>2, FailKeeps
<1>3. CASE Start
  BY <1>3, StartKeeps
<1>4. CASE AddInterface \/ RemoveInterface
  BY <1>4, InterfaceKeeps
<1>5. CASE BssInfoChanged
  BY <1>5, BssInfoKeeps
<1>6. CASE \E s \in Stations : StaAdd(s)
  BY <1>6, StaAddKeeps
<1>7. CASE \E s \in Stations : StaRemove(s)
  BY <1>7, StaRemoveKeeps
<1>8. CASE \E s \in Stations \cup {"zero"}, i \in KeyIdx : \E k \in KeysFor(s) : SetKey(s, k, i)
  BY <1>8, SetKeyKeeps
<1>9. CASE \E s \in Stations \cup {"zero"} : DisableKey(s)
  BY <1>9, DisableKeyKeeps
<1>10. CASE \E s \in Stations, t \in Tids, on \in BOOLEAN : AmpduTx(s, t, on)
  BY <1>10, AmpduKeeps
<1>11. CASE UNCHANGED vars
  <2>1. /\ reg' = reg /\ todo' = todo /\ err' = err /\ vif' = vif /\ up' = up
        /\ peer' = peer /\ hw' = hw /\ ba' = ba
        /\ clients' = clients /\ ptk' = ptk /\ sess' = sess
    BY <1>11 DEF vars, mac, asked
  <2>2. TypeOK' /\ RegInv' /\ TodoInv' /\ MacInv'
    BY <2>1 DEF StationInv, TypeOK, RegInv, TodoInv, MacInv, VifInv, ClientInv
  <2>3. ASSUME ~err
        PROVE  GoalInv'
    <3>1. GoalInv
      BY <2>3 DEF StationInv
    <3> QED BY <2>1, <3>1 DEF GoalInv, LinkInv, KeyInv, PeerInv, BssidInv, BaInv, AtEnd
  <2> QED BY <2>1, <2>2, <2>3 DEF StationInv
<1> QED BY <1>1, <1>2, <1>3, <1>4, <1>5, <1>6, <1>7, <1>8, <1>9, <1>10, <1>11 DEF Next

-----------------------------------------------------------------------------

(* The callbacks keep the invariant, whichever access fails: whatever is    *)
(* still to be written, it will leave the table as mac80211 asked for it.   *)
THEOREM StationInvariant == Spec => []StationInv
<1>1. StationInv /\ [Next]_vars => StationInv'
  BY NextKeeps
<1> QED BY <1>1, InitInv, PTL DEF Spec

(* What set_key, sta_add, sta_remove and key removal leave between two      *)
(* callbacks, however many clients share entry 1: it encrypts only with a   *)
(* key that one of them has, a lone station's key is in use under its       *)
(* address, and an entry for which no key is held has no cipher.            *)
THEOREM KeysAreAsAsked == Spec => []KeysAsAsked
<1>1. ASSUME StationInv, Settled
      PROVE  /\ hw[1] # NoKey => Holds(1, hw[1]) /\ reg[<<"dw0", 1>>].rkv = 1
             /\ peer # "zero" => reg[<<"dw0", 1>>].addr = peer /\ reg[<<"dw1", 1>>] = peer
             /\ \A w \in Wcids : hw[w] = NoKey => reg[<<"dw2", w>>].cipher = "none"
  <2>1. GoalInv /\ Idle
    BY <1>1 DEF StationInv, Settled
  <2>2. \A g : AtEnd(g) => Shows(reg, g)
    BY <2>1, IdleShows
  <2>3. ASSUME NEW w \in Wcids, hw[w] = NoKey
        PROVE  reg[<<"dw2", w>>].cipher = "none"
    <3>1. Shows(reg, Cipher(w, "none"))
      BY <2>1, <2>2, <2>3 DEF GoalInv, KeyInv
    <3> QED BY <3>1 DEF Shows, Cipher, Goal, Get
  <2>4. ASSUME hw[1] # NoKey
        PROVE  Holds(1, hw[1]) /\ reg[<<"dw0", 1>>].rkv = 1
    <3>1. /\ Shows(reg, Cipher(1, "ccmp")) /\ Shows(reg, Kid(hw[1].idx)) /\ Shows(reg, Rkv)
          /\ \A i \in 1..4 : Shows(reg, Word(1, i, hw[1].key))
      BY <2>1, <2>2, <2>4 DEF GoalInv, KeyInv
    <3>2. /\ reg[<<"dw2", 1>>].cipher = "ccmp" /\ reg[<<"dw0", 1>>].kid = hw[1].idx
          /\ reg[<<"dw0", 1>>].rkv = 1
      BY <3>1 DEF Shows, Cipher, Kid, Rkv, Goal, Get
    <3>3. \A i \in 1..4 : reg[<<"tk", 1, i>>] = hw[1].key
      BY <3>1 DEF Shows, Word, Goal, Get
    <3> QED BY <3>2, <3>3 DEF Holds
  <2>5. ASSUME peer # "zero"
        PROVE  reg[<<"dw0", 1>>].addr = peer /\ reg[<<"dw1", 1>>] = peer
    <3>1. Shows(reg, AddrHi(peer)) /\ Shows(reg, AddrLo(peer))
      BY <2>1, <2>2, <2>5 DEF GoalInv, PeerInv
    <3> QED BY <3>1 DEF Shows, AddrHi, AddrLo, Goal, Get
  <2> QED BY <2>3, <2>4, <2>5
<1>2. StationInv => PairwiseKeyInPlace
  <2> SUFFICES ASSUME StationInv, Settled
               PROVE  /\ reg[<<"dw2", 1>>].cipher = "ccmp" =>
                            \E s \in clients : ptk[s] # NoKey /\ Holds(1, ptk[s])
                      /\ \A s \in Stations :
                            Alone(s) =>
                               /\ reg[<<"dw0", 1>>].addr = s /\ reg[<<"dw1", 1>>] = s
                               /\ ptk[s] # NoKey => Holds(1, ptk[s]) /\ reg[<<"dw0", 1>>].rkv = 1
    BY DEF PairwiseKeyInPlace
  <2>1. ClientInv
    BY DEF StationInv, MacInv
  <2>2. ASSUME reg[<<"dw2", 1>>].cipher = "ccmp"
        PROVE  \E s \in clients : ptk[s] # NoKey /\ Holds(1, ptk[s])
    <3>1. hw[1] # NoKey
      BY <1>1, <2>2 DEF Wcids
    <3>2. PICK s \in clients : ptk[s] = hw[1]
      BY <2>1, <3>1 DEF ClientInv
    <3> QED BY <1>1, <3>1, <3>2
  <2>3. ASSUME NEW s \in Stations, Alone(s)
        PROVE  /\ reg[<<"dw0", 1>>].addr = s /\ reg[<<"dw1", 1>>] = s
               /\ ptk[s] # NoKey => Holds(1, ptk[s]) /\ reg[<<"dw0", 1>>].rkv = 1
    <3>1. peer = s /\ s # "zero" /\ ptk[s] = hw[1]
      BY <2>1, <2>3, StationsAssumption DEF Alone, ClientInv
    <3> QED BY <1>1, <3>1
  <2> QED BY <2>2, <2>3
<1>3. StationInv => NoKeyNoCipher
  <2> SUFFICES ASSUME StationInv, Settled
               PROVE  /\ hw[0] = NoKey => reg[<<"dw2", 0>>].cipher = "none"
                      /\ (\A s \in clients : ptk[s] = NoKey) => reg[<<"dw2", 1>>].cipher = "none"
    BY DEF NoKeyNoCipher
  <2>1. (\A s \in clients : ptk[s] = NoKey) => hw[1] = NoKey
    BY DEF StationInv, MacInv, ClientInv
  <2> QED BY <1>1, <2>1 DEF Wcids
<1>4. StationInv => KeysAsAsked
  BY <1>2, <1>3 DEF KeysAsAsked
<1> QED BY <1>4, StationInvariant, PTL

(* sta_add, sta_remove, bss_info_changed, ampdu_action and the interface    *)
(* callbacks, in any order: links, PSM_W_FLAG, block-ack word and BSSID     *)
(* registers are as asked between callbacks, the block-ack word as far as   *)
(* clients that share it allow.                                             *)
THEOREM TableIsAsAsked == Spec => []TableAsAsked
<1>1. ASSUME StationInv, Settled
      PROVE  LinksProgrammed /\ BaMatchesSessions /\ BssidFollowsRole
  <2>1. GoalInv /\ Idle /\ up
    BY <1>1 DEF StationInv, Settled
  <2>2. \A g : AtEnd(g) => Shows(reg, g)
    BY <2>1, IdleShows
  <2>3. \A w \in Wcids : reg[<<"dw3", w>>] = Dw3(w) /\ reg[<<"dw4", w>>] = Dw4(w)
    <3>1. \A w \in Wcids : Shows(reg, Link3(w)) /\ Shows(reg, Link4(w))
      BY <2>1, <2>2 DEF GoalInv, LinkInv
    <3> QED BY <3>1 DEF Shows, Link3, Link4, Goal, Get
  <2>4. ~reg[<<"psm", 0>>]
    <3>1. Shows(reg, PsmClear)
      BY <2>1, <2>2 DEF GoalInv, LinkInv
    <3>2. reg[<<"psm", 0>>] = FALSE
      BY <3>1, Zenon DEF Shows, PsmClear, Goal, Get
    <3> QED BY <3>2
  <2>5. clients # {} => reg[<<"ba", 1>>] = ba
    <3>1. clients # {} => Shows(reg, BaWord(ba))
      BY <2>1, <2>2 DEF GoalInv, BaInv, Idle
    <3> QED BY <3>1 DEF Shows, BaWord, Goal, Get
  <2>6. /\ vif = "ap" => \A h \in {0, 1} : reg[<<"cb0", h>>] = "own"
        /\ vif = "sta" /\ peer # "zero" => \A h \in {0, 1} : reg[<<"cb0", h>>] = peer
    <3>1. /\ vif = "ap" => \A h \in {0, 1} : Shows(reg, Cb(h, "own"))
          /\ vif = "sta" /\ peer # "zero" => \A h \in {0, 1} : Shows(reg, Cb(h, peer))
      BY <2>1, <2>2 DEF GoalInv, BssidInv
    <3> QED BY <3>1 DEF Shows, Cb, Goal, Get
  <2>7. LinksProgrammed
    BY <2>3, <2>4 DEF LinksProgrammed
  <2>8. VifInv /\ ClientInv /\ clients \subseteq Stations
    BY <1>1 DEF StationInv, TypeOK, MacInv
  <2>9. BaMatchesSessions
    <3>1. \A s \in Stations : Alone(s) => reg[<<"ba", 1>>] = sess[s]
      BY <2>5, <2>8 DEF Alone, ClientInv
    <3>2. clients # {} => \A t \in reg[<<"ba", 1>>] : \E s \in clients : t \in sess[s]
      BY <2>5, <2>8 DEF ClientInv
    <3> QED BY <3>1, <3>2 DEF BaMatchesSessions
  <2>10. BssidFollowsRole
    <3>1. \A s \in clients : vif = "sta" => s = peer /\ peer # "zero"
      BY <2>8, StationsAssumption DEF VifInv
    <3> QED BY <2>6, <3>1 DEF BssidFollowsRole
  <2> QED BY <2>7, <2>9, <2>10
<1>2. StationInv => TableAsAsked
  <2>1. ~Settled => LinksProgrammed /\ BaMatchesSessions /\ BssidFollowsRole
    BY DEF LinksProgrammed, BaMatchesSessions, BssidFollowsRole
  <2> QED BY <1>1, <2>1 DEF TableAsAsked, StationInv
<1> QED BY <1>2, StationInvariant, PTL

(* The accesses of set_key in their order: an entry starts to encrypt only  *)
(* when all four words of its key and a fresh packet number are written.    *)
EncryptsLast ==
    \A w \in Wcids :
        /\ ~err
        /\ reg[<<"dw2", w>>].cipher = "none"
        /\ reg'[<<"dw2", w>>].cipher = "ccmp"
        => /\ \A i \in 1..4 : reg[<<"tk", w, i>>] = hw[w].key
           /\ reg[<<"pn", w>>] = 1 /\ reg[<<"pn_hi", w>>] = 0

(* set_key turns the cipher of an entry on only over a complete key and a   *)
(* fresh packet number.                                                     *)
THEOREM CipherIsLast == Spec => CipherComesLast
<1>1. StationInv /\ [Next]_vars => [EncryptsLast]_vars
  <2> SUFFICES ASSUME StationInv, Next, NEW w \in Wcids, ~err,
                      reg[<<"dw2", w>>].cipher = "none", reg'[<<"dw2", w>>].cipher = "ccmp"
               PROVE  /\ \A i \in 1..4 : reg[<<"tk", w, i>>] = hw[w].key
                      /\ reg[<<"pn", w>>] = 1 /\ reg[<<"pn_hi", w>>] = 0
    BY DEF EncryptsLast
  <2>1. reg' # reg
    OBVIOUS
  <2>2. Bank(reg) /\ <<"dw2", w>> \in Regs
    BY Registers DEF StationInv, RegInv, Bank
  <2>3. CASE Succeed
    <3>1. /\ todo \in Seq(Accesses) /\ todo # <<>> /\ Head(todo) = todo[1]
          /\ todo[1] \in Accesses /\ 1 \in 1..Len(todo)
      BY <2>3 DEF StationInv, TodoInv, Succeed
    <3>2. todo[1].kind \in {"write", "modify", "ba"} /\ todo[1].reg \in Regs /\ Sound(todo[1])
      BY <3>1, AccessFields
    <3>3. reg' = After(reg, todo[1])
      BY <2>1, <2>3, <3>1, <3>2 DEF Succeed, Perform, Put, After, NewVal
    <3>4. todo[1].reg = <<"dw2", w>>
      BY <2>2, <3>2, <3>3 DEF After, Bank
    <3>5. reg'[<<"dw2", w>>] = NewVal(reg[<<"dw2", w>>], todo[1])
      BY <2>2, <3>3, <3>4 DEF After, Bank
    <3>6. Encrypts(todo[1], w)
      <4>1. CASE todo[1].kind = "write"
        BY <3>4, <3>5, <4>1 DEF NewVal, Encrypts
      <4>2. CASE todo[1].kind = "modify"
        <5>1. todo[1].val \in Part2
          BY <3>2, <3>4, <4>2 DEF Sound
        <5>2. reg[<<"dw2", w>>] \in DW2
          BY <2>2 DEF Bank, Fits
        <5>3. "cipher" \in DOMAIN todo[1].val
          BY <5>1 DEF Part2
        <5>4. Merge(reg[<<"dw2", w>>], todo[1].val)["cipher"] = todo[1].val["cipher"]
          BY <5>1, <5>2, <5>3, Merge2
        <5> QED BY <3>4, <3>5, <4>2, <5>4 DEF NewVal, Encrypts
      <4>3. CASE todo[1].kind = "ba"
        BY <3>2, <3>4, <4>3 DEF Sound
      <4> QED BY <3>2, <4>1, <4>2, <4>3
    <3>7. /\ \A m \in 1..4 : Due(todo, reg, 1 - 1, Word(w, m, hw[w].key))
          /\ Due(todo, reg, 1 - 1, Pn(w)) /\ Due(todo, reg, 1 - 1, PnHi(w))
      BY <3>1, <3>6 DEF StationInv, GoalInv, Ordered
    <3>8. /\ \A m \in 1..4 : Shows(reg, Word(w, m, hw[w].key))
          /\ Shows(reg, Pn(w)) /\ Shows(reg, PnHi(w))
      BY <3>7, DueAtOnce
    <3> QED BY <3>8 DEF Shows, Word, Pn, PnHi, Goal, Get
  <2>4. CASE Fail
    <3>1. /\ todo \in Seq(Accesses) /\ todo # <<>> /\ Head(todo) = todo[1] /\ todo[1] \in Accesses
      BY <2>4 DEF StationInv, TodoInv, Fail
    <3>2. todo[1].kind = "ba" /\ Put(todo[1].reg, MergeBa({}, todo[1].val))
      BY <2>1, <2>4, <3>1 DEF Fail
    <3>3. todo[1].reg[1] = "ba" /\ todo[1].reg \in Regs
      BY <3>1, <3>2, AccessFields DEF Sound
    <3>4. reg' = reg \/ reg' = [reg EXCEPT ![todo[1].reg] = MergeBa({}, todo[1].val)]
      BY <3>2 DEF Put
    <3>5. reg'[<<"dw2", w>>] = reg[<<"dw2", w>>]
      BY <2>2, <3>3, <3>4 DEF Bank
    <3> QED BY <3>5
  <2>5. CASE \/ Start \/ AddInterface \/ RemoveInterface \/ BssInfoChanged
             \/ \E s \in Stations : StaAdd(s) \/ StaRemove(s)
             \/ \E s \in Stations \cup {"zero"}, i \in KeyIdx :
                   \E k \in KeysFor(s) : SetKey(s, k, i)
             \/ \E s \in Stations \cup {"zero"} : DisableKey(s)
             \/ \E s \in Stations, t \in Tids, on \in BOOLEAN : AmpduTx(s, t, on)
    <3>1. reg' = reg
      BY <2>5 DEF Start, AddInterface, RemoveInterface, BssInfoChanged, StaRemove, StaAdd,
                  SetKey, DisableKey, Install, AmpduTx
    <3> QED BY <2>1, <3>1
  <2> QED BY <2>3, <2>4, <2>5 DEF Next
<1> QED BY <1>1, StationInvariant, PTL DEF Spec, CipherComesLast, EncryptsLast
=============================================================================
