----------------------------- MODULE StationTable -----------------------------
(***************************************************************************)
(* The WLAN table of the chip (WTBL1 entries 0 and 1, the WTBL3 key memory, *)
(* packet number and block-ack word of WTBL2) and the current-BSSID         *)
(* registers, as the mac80211 callbacks program them: add_interface, start, *)
(* bss_info_changed, sta_add, sta_remove, set_key and ampdu_action.         *)
(*                                                                          *)
(* A callback is the list of register accesses it makes (todo). The wiphy   *)
(* lock keeps callbacks apart, but every access is a step: the chip uses    *)
(* the table meanwhile, and each access can fail. A failing write inside    *)
(* mt7603_execute_reg_ops ends that sequence; a failing read skips its      *)
(* read-modify-write; all other failures are ignored by the code. Bound:    *)
(* one failure between two associations.                                    *)
(*                                                                          *)
(* Entry 0 serves group-addressed frames, entry 1 every unicast peer: an    *)
(* access point has any number of clients, and what a callback asks for one *)
(* of them replaces in entry 1 what it asked for another.                   *)
(***************************************************************************)
EXTENDS Integers, Sequences

CONSTANTS Stations,   \* addresses of peers
          PairwiseKeys, GroupKeys,  \* CCMP temporal keys
          KeyIdx,     \* key indices in use
          Tids        \* traffic identifiers of block-ack sessions

ASSUME StationsAssumption == Stations \cap {"zero", "mcast", "own"} = {}

Keys == PairwiseKeys \cup GroupKeys

ASSUME KeysAssumption == "none" \notin Keys

VARIABLES
    reg,   \* the registers
    todo,  \* accesses left of the callback in progress
    err,   \* an access failed since a station association last wrote it all
    \* What mac80211 knows:
    vif,   \* type of the interface: "none", "sta" or "ap"
    up,       \* start has been called
    clients,  \* the stations it has added
    ptk,      \* ptk[s]: pairwise key it has installed for s, or NoKey
    sess,     \* sess[s]: TIDs with an operational TX block-ack session with s
    \* What the callbacks last asked of the two entries, for whichever station:
    peer,  \* station that entry 1 was last given to, "zero" when cleared since
    hw,    \* hw[w]: key last installed in entry w and not taken out, or NoKey
    ba     \* TIDs last switched on in entry 1

asked == <<peer, hw, ba>>
mac   == <<vif, up, clients, ptk, sess, asked>>
vars  == <<reg, todo, err, mac>>

Wcids == {0, 1}
NoKey == [key |-> "none", idx |-> 0]
HwKey == [key : Keys, idx : KeyIdx]

Addrs == Stations \cup {"zero", "mcast", "own"}
DW0   == [addr : Addrs, rv : {0, 1}, rkv : {0, 1}, kid : KeyIdx \cup {0}]
DW2   == [cipher : {"none", "ccmp"}, adm : {0, 1}]

Idle == todo = <<>>

TypeOK ==
    /\ \A w \in Wcids : /\ reg[<<"dw0", w>>] \in DW0
                        /\ reg[<<"dw1", w>>] \in Addrs
                        /\ reg[<<"dw2", w>>] \in DW2
                        /\ reg[<<"ba", w>>] \subseteq Tids
                        /\ reg[<<"pn", w>>] \in {0, 1}
                        /\ reg[<<"pn_hi", w>>] = 0
    /\ Len(todo) <= 17
    /\ err \in BOOLEAN /\ up \in BOOLEAN
    /\ vif \in {"none", "sta", "ap"}
    /\ clients \subseteq Stations
    /\ ptk \in [Stations -> HwKey \cup {NoKey}]
    /\ sess \in [Stations -> SUBSET Tids]
    /\ peer \in Stations \cup {"zero"}
    /\ hw \in [Wcids -> HwKey \cup {NoKey}]
    /\ ba \subseteq Tids

-----------------------------------------------------------------------------
(* Register accesses.                                                       *)

Write(r, v) == [kind |-> "write", reg |-> r, val |-> v, seq |-> "none"]

(* A write of a sequence that mt7603_execute_reg_ops runs.                  *)
Op(r, v) == [kind |-> "write", reg |-> r, val |-> v, seq |-> "ops"]

(* Read, replace the fields of f, write back.                               *)
Modify(r, f) == [kind |-> "modify", reg |-> r, val |-> f, seq |-> "none"]

(* ampdu_action's update of DW15; a failed read leaves its copy 0.          *)
SetBa(r, f) == [kind |-> "ba", reg |-> r, val |-> f, seq |-> "none"]

(* External: the PSM fields of DW3 and DW4 are locked without PSM_W_FLAG.   *)
Locked(r) == r[1] \in {"dw3", "dw4"} /\ ~reg[<<"psm", 0>>]

Put(r, v) == reg' = IF Locked(r) THEN reg ELSE [reg EXCEPT ![r] = v]

Merge(old, f) == [x \in DOMAIN old |-> IF x \in DOMAIN f THEN f[x] ELSE old[x]]

MergeBaFresh(old, f) == IF f.enable THEN {f.tid} ELSE {}

(* build_ba_session_sequence: only the bit of this TID changes.             *)
MergeBa(old, f) == IF f.enable THEN old \cup {f.tid} ELSE old \ {f.tid}

Perform(o) ==
    CASE o.kind = "write"  -> Put(o.reg, o.val)
      [] o.kind = "modify" -> Put(o.reg, Merge(reg[o.reg], o.val))
      [] o.kind = "ba"     -> Put(o.reg, MergeBa(reg[o.reg], o.val))

Succeed ==
    /\ todo # <<>> /\ Perform(Head(todo))
    /\ todo' = Tail(todo)
    /\ UNCHANGED <<err, mac>>

(* Access i is in the same sequence as the one about to be made.            *)
SameSeq(i) == todo[1].seq # "none" /\ todo[i].seq = todo[1].seq

(* The next access fails, and the rest of its sequence is not made.         *)
Fail ==
    /\ todo # <<>> /\ ~err /\ err' = TRUE
    /\ \/ UNCHANGED reg
       \/ Head(todo).kind = "ba" /\ Put(Head(todo).reg, MergeBa({}, Head(todo).val))
    /\ \E k \in 2..(Len(todo) + 1) :
          /\ \A i \in 2..(k - 1) : SameSeq(i)
          /\ k <= Len(todo) => ~SameSeq(k)
          /\ todo' = SubSeq(todo, k, Len(todo))
    /\ UNCHANGED mac

-----------------------------------------------------------------------------
(* The register lists.                                                      *)

(* wtbl_entry234: page and element of the entries in WTBL2, 3 and 4, which  *)
(* have 2, 2 and 4 elements per page and 64 pages for each of the first two.*)
Entry234(w) == [fid2 |-> w \div 2,         eid2 |-> w % 2,
                fid3 |-> 64 + (w \div 2),  eid3 |-> (w % 2) * 2,
                fid4 |-> 128 + (w \div 4), eid4 |-> w % 4]

(* wtbl_dw3_dw4: DW3 links WTBL2 and the page in WTBL4, DW4 the rest.       *)
Dw3(w) == <<Entry234(w).fid2, Entry234(w).eid2, Entry234(w).fid4>>
Dw4(w) == <<Entry234(w).fid3, Entry234(w).eid3, Entry234(w).eid4>>

Entry(w, a, adm) ==
    << Op(<<"dw0", w>>, [addr |-> a, rv |-> 1, rkv |-> 0, kid |-> 0]),
       Op(<<"dw1", w>>, a),
       Op(<<"dw2", w>>, [cipher |-> "none", adm |-> adm]) >>

Links(w) == << Op(<<"dw3", w>>, Dw3(w)), Op(<<"dw4", w>>, Dw4(w)) >>

Unlock == << Op(<<"psm", 0>>, TRUE) >>
Lock   == << Op(<<"psm", 0>>, FALSE) >>

WtblStaUnlocksLate(a) ==
    Entry(0, "mcast", 0) \o Entry(1, a, 1) \o Links(0) \o Unlock \o Links(1) \o Lock

(* build_wtbl_sta_sequence.                                                 *)
WtblSta(a) ==
    Entry(0, "mcast", 0) \o Entry(1, a, 1) \o Unlock \o Links(0) \o Links(1) \o Lock

(* RMAC_CB0R0 and RMAC_CB0R1.                                               *)
Bssid(a) == << Write(<<"cb0", 0>>, a), Write(<<"cb0", 1>>, a) >>

(* bss_info_changed writes the second half only if the first succeeded.     *)
BssidChecked(a) == [i \in 1..2 |-> [Bssid(a)[i] EXCEPT !.seq = "bssid"]]

ClearBa == << Write(<<"ba", 1>>, {}) >>

ClearEntry ==
    << Write(<<"dw0", 1>>, [addr |-> "zero", rv |-> 0, rkv |-> 0, kid |-> 0]),
       Write(<<"dw1", 1>>, "zero"),
       Write(<<"dw2", 1>>, [cipher |-> "none", adm |-> 0]) >>

KeyWords(w, k) == [i \in 1..4 |-> Write(<<"tk", w, i>>, k)]

ResetPnSwapped(w) == << Write(<<"pn", w>>, 0), Write(<<"pn_hi", w>>, 1) >>

(* The packet number starts at 1: low word, then high word.                 *)
ResetPn(w) == << Write(<<"pn", w>>, 1), Write(<<"pn_hi", w>>, 0) >>

(* In AP mode the group key is used for sending only.                       *)
UseKey(w, i) ==
    << Modify(<<"dw0", w>>, [rv |-> 1, kid |-> i,
                             rkv |-> IF w # 0 \/ vif # "ap" THEN 1 ELSE 0]),
       Modify(<<"dw2", w>>, [cipher |-> "ccmp", adm |-> 1]),
       Write(<<"psm", 0>>, TRUE), Write(<<"psm", 0>>, FALSE) >>

-----------------------------------------------------------------------------
(* The callbacks. Guards on mac80211's own state are external: a station    *)
(* interface has one peer, an access point any number of clients; a station *)
(* has one pairwise key, and its keys and sessions are taken back before it *)
(* is removed; an association changes only before keys exist.               *)

Begin(l) == Idle /\ todo' = l

Zero(r) ==
    CASE r[1] = "dw0" -> [addr |-> "zero", rv |-> 0, rkv |-> 0, kid |-> 0]
      [] r[1] = "dw2" -> [cipher |-> "none", adm |-> 0]
      [] r[1] \in {"dw1", "cb0"} -> "zero"
      [] r[1] \in {"dw3", "dw4"} -> <<0, 0, 0>>
      [] r[1] = "psm" -> FALSE
      [] r[1] = "ba"  -> {}
      [] r[1] = "tk"  -> "none"
      [] OTHER        -> 0

Regs == ({"dw0", "dw1", "dw2", "dw3", "dw4", "ba", "pn", "pn_hi", "cb0"} \X Wcids)
        \cup {<<"psm", 0>>} \cup ({"tk"} \X Wcids \X (1..4))

Init ==
    /\ reg = [r \in Regs |-> Zero(r)]
    /\ todo = <<>> /\ err = FALSE
    /\ vif = "none" /\ up = FALSE /\ clients = {} /\ peer = "zero"
    /\ ptk = [s \in Stations |-> NoKey] /\ sess = [s \in Stations |-> {}]
    /\ hw = [w \in Wcids |-> NoKey] /\ ba = {}

Start ==
    /\ ~up /\ up' = TRUE
    /\ Begin(WtblSta("mcast"))
    /\ UNCHANGED <<reg, err, vif, clients, ptk, sess, asked>>

AddInterface ==
    /\ up /\ vif = "none"
    /\ \/ vif' = "sta" /\ Begin(<<>>)
       \/ vif' = "ap" /\ Begin(Bssid("own"))
    /\ UNCHANGED <<reg, err, up, clients, ptk, sess, asked>>

RemoveInterface ==
    /\ vif # "none" /\ clients = {} /\ hw[0] = NoKey
    /\ vif' = "none" /\ Begin(<<>>)
    /\ UNCHANGED <<reg, err, up, clients, ptk, sess, asked>>

(* bss_info_changed with BSS_CHANGED_BSSID or BSS_CHANGED_ASSOC, and for an *)
(* access point with one of the BEACON flags.                               *)
BssInfoChanged ==
    /\ \/ /\ vif = "sta" /\ hw[0] = NoKey
          /\ \A s \in clients : ptk[s] = NoKey /\ sess[s] = {}
          /\ \E a \in IF clients = {} THEN Stations ELSE clients :
                Begin(BssidChecked(a) \o WtblSta(a) \o ClearBa)
       \/ vif = "sta" /\ clients = {} /\ Begin(Bssid("zero") \o ClearEntry)
       \/ vif = "ap" /\ (Begin(BssidChecked("own")) \/ Begin(Bssid("own")))
    /\ UNCHANGED <<reg, err, mac>>

(* Entry 1 now stands for station s, without a key.                         *)
GiveEntry(s) == peer' = s /\ hw' = [hw EXCEPT ![1] = NoKey]

MayAdd(s) == vif # "none" /\ s \notin clients /\ (vif = "sta" => clients = {})

StaAddBssid(s) ==
    /\ MayAdd(s) /\ clients' = clients \cup {s}
    /\ Begin(Bssid(s) \o WtblSta(s) \o ClearBa)
    /\ GiveEntry(s) /\ ba' = {} /\ err' = (err /\ vif = "ap")
    /\ UNCHANGED <<reg, vif, up, ptk, sess>>

(* mt7603_mac80211_sta_add: entry 1 is rewritten whoever had it.            *)
StaAdd(s) ==
    /\ MayAdd(s) /\ clients' = clients \cup {s}
    /\ Begin((IF vif = "ap" THEN <<>> ELSE Bssid(s)) \o WtblSta(s) \o ClearBa)
    /\ GiveEntry(s) /\ ba' = {} /\ err' = (err /\ vif = "ap")
    /\ UNCHANGED <<reg, vif, up, ptk, sess>>

(* mt7603_mac80211_sta_remove: entry 1 is cleared whichever station leaves. *)
StaRemove(s) ==
    /\ s \in clients /\ ptk[s] = NoKey /\ sess[s] = {}
    /\ clients' = clients \ {s}
    /\ Begin((IF vif = "ap" THEN <<>> ELSE Bssid("zero")) \o ClearEntry)
    /\ GiveEntry("zero")
    /\ UNCHANGED <<reg, err, vif, up, ptk, sess, ba>>

(* WCID 1 for a pairwise key or a key with a station, else ("zero") 0.      *)
Wcid(s) == IF s = "zero" THEN 0 ELSE 1

KeysFor(s) == IF s = "zero" THEN GroupKeys ELSE PairwiseKeys

MayInstall(s) == IF s = "zero" THEN vif # "none" ELSE s \in clients /\ ptk[s] = NoKey

(* mac80211 holds key h for station s, or as group key.                     *)
Install(s, h) ==
    /\ hw' = [hw EXCEPT ![Wcid(s)] = h]
    /\ ptk' = [x \in Stations |-> IF x = s THEN h ELSE ptk[x]]
    /\ UNCHANGED <<reg, err, vif, up, clients, sess, peer, ba>>

SetKeyCipherFirst(s, k, i) ==
    /\ MayInstall(s)
    /\ Begin(UseKey(Wcid(s), i) \o KeyWords(Wcid(s), k) \o ResetPn(Wcid(s)))
    /\ Install(s, [key |-> k, idx |-> i])

SetKeyKeepsKid(s, k, i) ==
    /\ MayInstall(s)
    /\ Begin(KeyWords(Wcid(s), k) \o ResetPn(Wcid(s)) \o UseKey(Wcid(s), 0))
    /\ Install(s, [key |-> k, idx |-> i])

(* mt7603_mac80211_set_key with SET_KEY and CCMP.                           *)
SetKey(s, k, i) ==
    /\ MayInstall(s)
    /\ Begin(KeyWords(Wcid(s), k) \o ResetPn(Wcid(s)) \o UseKey(Wcid(s), i))
    /\ Install(s, [key |-> k, idx |-> i])

Installed(s) == IF s = "zero" THEN hw[0] # NoKey ELSE ptk[s] # NoKey

DisableKeyKeepsCipher(s) ==
    /\ Installed(s)
    /\ Begin(<< Modify(<<"dw0", Wcid(s)>>, [rkv |-> 0, kid |-> 0]) >>)
    /\ Install(s, NoKey)

(* The same with DISABLE_KEY: the key memory is not erased, and whichever   *)
(* client's key entry 1 held, it stops to encrypt.                          *)
DisableKey(s) ==
    /\ Installed(s)
    /\ Begin(<< Modify(<<"dw0", Wcid(s)>>, [rkv |-> 0, kid |-> 0]),
                Modify(<<"dw2", Wcid(s)>>, [cipher |-> "none"]) >>)
    /\ Install(s, NoKey)

(* mt7603_mac80211_ampdu_action, TX_OPERATIONAL and the TX_STOP actions.    *)
AmpduTx(s, t, on) ==
    /\ s \in clients /\ (t \in sess[s]) # on
    /\ Begin(<< SetBa(<<"ba", 1>>, [tid |-> t, enable |-> on]) >>)
    /\ ba' = IF on THEN ba \cup {t} ELSE ba \ {t}
    /\ sess' = [sess EXCEPT ![s] = IF on THEN @ \cup {t} ELSE @ \ {t}]
    /\ UNCHANGED <<reg, err, vif, up, clients, ptk, peer, hw>>

Next ==
    \/ Succeed
    \/ Fail
    \/ Start
    \/ AddInterface
    \/ RemoveInterface
    \/ BssInfoChanged
    \/ \E s \in Stations : StaAdd(s)
    \/ \E s \in Stations : StaRemove(s)
    \/ \E s \in Stations \cup {"zero"}, i \in KeyIdx : \E k \in KeysFor(s) : SetKey(s, k, i)
    \/ \E s \in Stations \cup {"zero"} : DisableKey(s)
    \/ \E s \in Stations, t \in Tids, on \in BOOLEAN : AmpduTx(s, t, on)

Spec == Init /\ [][Next]_vars

-----------------------------------------------------------------------------
(* Properties.                                                              *)

Settled == Idle /\ up /\ ~err

Holds(w, h) ==
    /\ reg[<<"dw2", w>>].cipher = "ccmp"
    /\ reg[<<"dw0", w>>].kid = h.idx
    /\ \A i \in 1..4 : reg[<<"tk", w, i>>] = h.key

(* The station whose sta_add last wrote entry 1 is the only one, and was    *)
(* since then.                                                              *)
Alone(s) == clients = {s} /\ peer = s

(* Between callbacks, entry 1 encrypts only with the whole key of a client  *)
(* that still has one, whatever the others did; and while there is one      *)
(* station only, a pairwise key that set_key accepted is in use, under its  *)
(* address. A failed access does harm until the next sta_add of a station   *)
(* interface at most.                                                       *)
PairwiseKeyInPlace ==
    Settled =>
        /\ reg[<<"dw2", 1>>].cipher = "ccmp" =>
              \E s \in clients : ptk[s] # NoKey /\ Holds(1, ptk[s])
        /\ \A s \in Stations :
              Alone(s) =>
                 /\ reg[<<"dw0", 1>>].addr = s /\ reg[<<"dw1", 1>>] = s
                 /\ ptk[s] # NoKey => Holds(1, ptk[s]) /\ reg[<<"dw0", 1>>].rkv = 1

(* An entry none of whose stations has a key expects plaintext, so that the *)
(* EAPOL frames of a later association are not dropped.                     *)
NoKeyNoCipher ==
    Settled =>
        /\ hw[0] = NoKey => reg[<<"dw2", 0>>].cipher = "none"
        /\ (\A s \in clients : ptk[s] = NoKey) => reg[<<"dw2", 1>>].cipher = "none"

(* An entry starts to encrypt only when the whole key and a fresh packet    *)
(* number are in place, also after a failure in an earlier association.     *)
CipherComesLast ==
    [][\A w \in Wcids :
          /\ ~err
          /\ reg[<<"dw2", w>>].cipher = "none"
          /\ reg'[<<"dw2", w>>].cipher = "ccmp"
          => /\ \A i \in 1..4 : reg[<<"tk", w, i>>] = hw[w].key
             /\ reg[<<"pn", w>>] = 1 /\ reg[<<"pn_hi", w>>] = 0]_vars

(* The links that let the MAC find the keys are written while PSM_W_FLAG is *)
(* set, and the flag does not stay set.                                     *)
LinksProgrammed ==
    Settled => /\ \A w \in Wcids : reg[<<"dw3", w>>] = Dw3(w) /\ reg[<<"dw4", w>>] = Dw4(w)
               /\ ~reg[<<"psm", 0>>]

(* The block-ack word aggregates a TID only if some client has a session    *)
(* for it, and with one station it names exactly its sessions.              *)
BaMatchesSessions ==
    Settled =>
        /\ clients # {} => \A t \in reg[<<"ba", 1>>] : \E s \in clients : t \in sess[s]
        /\ \A s \in Stations : Alone(s) => reg[<<"ba", 1>>] = sess[s]

(* An access point keeps its own address as current BSSID whichever         *)
(* stations come and go; a station has that of its peer.                    *)
BssidFollowsRole ==
    Settled => /\ vif = "ap" => \A h \in {0, 1} : reg[<<"cb0", h>>] = "own"
               /\ vif = "sta" =>
                     \A h \in {0, 1} : \A s \in clients : reg[<<"cb0", h>>] = s

(* In AP mode sta_add updates only the entry of the peer: the group key     *)
(* stays in use when a station joins.                                       *)
GroupKeyKept == Settled /\ vif = "ap" /\ hw[0] # NoKey => Holds(0, hw[0])

(* set_key, sta_add, sta_remove and key removal of any number of clients    *)
(* leave both entries usable: what encrypts is a key in use, a sole         *)
(* station's key is in place, and an entry without a key expects plaintext. *)
KeysAsAsked == PairwiseKeyInPlace /\ NoKeyNoCipher

(* Whatever order sta_add, bss_info_changed, ampdu_action and the interface *)
(* callbacks came in, the rest of the chip's table is what they asked for:  *)
(* links, block-ack word and BSSID registers.                               *)
TableAsAsked == TypeOK /\ LinksProgrammed /\ BaMatchesSessions /\ BssidFollowsRole
=============================================================================
