-------------------------- MODULE RadioConfig_proofs --------------------------
(* Theorems about RadioConfig, for every set of channel definitions and     *)
(* beacon intervals, and for any number of monitors and faults.             *)
EXTENDS RadioConfig, FiniteSetTheorems, TLAPS

RegNames == {"RFCR", "CHFREQ", "ARB_SCR", "BCNQ", "T0TPCR", "MPTCR0"}

-----------------------------------------------------------------------------
(* The inductive invariant.                                                 *)

(* No filter flag reaches the driver.                                       *)
FlagInv == filter_flags = {}

(* Beacons need an access point, and that a started device; so start finds  *)
(* the arbiter as it would set it.                                          *)
RoleInv == (beacon_enabled => ap_vif) /\ (ap_vif => open) /\ (open => running)

(* SyncFollowsBeacon and ReceiverHasFrequency survive stop and start.       *)
SyncInv ==
    "sync" \notin stale =>
        IF beacon_enabled
        THEN /\ reg["T0TPCR"] = beacon_int /\ reg["MPTCR0"] = 153
             /\ reg["ARB_SCR"] = "ap" /\ reg["BCNQ"] = "started"
        ELSE /\ reg["T0TPCR"] = 0 /\ reg["MPTCR0"] = 0
             /\ reg["ARB_SCR"] = "sta" /\ reg["BCNQ"] = "flushed"

FreqInv == "chfreq" \notin stale => reg["CHFREQ"] = 1

RegInv == reg = [r \in RegNames |-> reg[r]]

RadioInv ==
    TypeOK /\ RegInv /\ FlagInv /\ RoleInv /\ FilterFollowsMonitors /\ SyncInv /\ ChannelKnown
    /\ FreqInv

-----------------------------------------------------------------------------
(* What the register sequences do.                                          *)

LEMMA MarkCardinality ==
  ASSUME NEW what, NEW bad
  PROVE  Cardinality(Mark(what, bad)) \in Nat
<1>1. Mark(what, bad) \in {{}, {what}}
  BY DEF Mark
<1>2. Cardinality({}) = 0 /\ Cardinality({what}) = 1
  BY FS_EmptySet, FS_Singleton, Zenon
<1> QED BY <1>1, <1>2

(* A sequence touches no register it does not name.                         *)
LEMMA AppliedElsewhere ==
  ASSUME NEW old, NEW ops, NEW n \in Nat, NEW r \in DOMAIN old,
         \A i \in 1..n : ops[i].reg # r
  PROVE  Applied(old, ops, n)[r] = old[r]
  BY DEF Applied

(* A register that a sequence writes once holds what it wrote.              *)
LEMMA AppliedThere ==
  ASSUME NEW old, NEW ops, NEW n \in Nat, NEW i \in 1..n, ops[i].reg \in DOMAIN old,
         \A j \in 1..n : ops[j].reg = ops[i].reg => j = i
  PROVE  Applied(old, ops, n)[ops[i].reg] = ops[i].val
<1> DEFINE c == CHOOSE j \in 1..n : ops[j].reg = ops[i].reg
<1>1. c \in 1..n /\ ops[c].reg = ops[i].reg
  OBVIOUS
<1>2. c = i
  BY <1>1
<1> QED BY <1>2 DEF Applied

(* After n writes a register holds what it held, or what one of the writes  *)
(* put there; the registers stay the same.                                  *)
LEMMA AppliedCases ==
  ASSUME NEW old, NEW ops, NEW n \in Nat
  PROVE  /\ Applied(old, ops, n) = [r \in DOMAIN old |-> Applied(old, ops, n)[r]]
         /\ \A r \in DOMAIN old :
               \/ Applied(old, ops, n)[r] = old[r]
               \/ \E i \in 1..n : ops[i].reg = r /\ Applied(old, ops, n)[r] = ops[i].val
<1>1. Applied(old, ops, n) = [r \in DOMAIN old |-> Applied(old, ops, n)[r]]
  BY DEF Applied
<1>2. ASSUME NEW r \in DOMAIN old
      PROVE  \/ Applied(old, ops, n)[r] = old[r]
             \/ \E i \in 1..n : ops[i].reg = r /\ Applied(old, ops, n)[r] = ops[i].val
  <2> DEFINE c == CHOOSE j \in 1..n : ops[j].reg = r
  <2>1. CASE \E j \in 1..n : ops[j].reg = r
    <3>1. c \in 1..n /\ ops[c].reg = r
      BY <2>1
    <3>2. Applied(old, ops, n)[r] = ops[c].val
      BY <2>1 DEF Applied
    <3> QED BY <3>1, <3>2
  <2>2. CASE ~ \E j \in 1..n : ops[j].reg = r
    BY <2>2 DEF Applied
  <2> QED BY <2>1, <2>2
<1> QED BY <1>1, <1>2

(* What the accesses of a callback count as failures is a number.           *)
LEMMA FaultBound ==
  ASSUME NEW n \in Nat, faults \in 0..MaxFaults, Fault(n)
  PROVE  faults' \in 0..MaxFaults
  BY BoundsAssumption DEF Fault

FilterValue(promisc, fcs_fail) ==
    IF ~promisc THEN "normal" ELSE IF fcs_fail THEN "promisc_fcsfail" ELSE "promisc"

(* The receive filter sequence is one write.                                *)
LEMMA ProgramFilter ==
  ASSUME TypeOK, RegInv, NEW p \in BOOLEAN, NEW f \in BOOLEAN,
         Program("filter", FilterOps(p, f))
  PROVE  /\ RegInv'
         /\ \A r \in RegNames \ {"RFCR"} : reg'[r] = reg[r]
         /\ reg'["RFCR"] \in {reg["RFCR"], FilterValue(p, f)}
         /\ "filter" \notin stale' => reg'["RFCR"] = FilterValue(p, f)
         /\ stale' \ {"filter"} = stale \ {"filter"}
         /\ faults' \in 0..MaxFaults
<1> DEFINE ops == FilterOps(p, f)
<1>1. Len(ops) = 1 /\ ops[1].reg = "RFCR" /\ ops[1].val = FilterValue(p, f)
  BY DEF FilterOps, Write, FilterValue
<1>2. PICK n \in 0..1 : /\ reg' = Applied(reg, ops, n)
                        /\ stale' = (stale \ {"filter"}) \cup Mark("filter", n < 1)
                        /\ Fault(Cardinality(Mark("filter", n < 1)))
  BY <1>1 DEF Program
<1> HIDE DEF ops
<1>3. DOMAIN reg = RegNames
  BY DEF RegInv
<1>4. \A i \in 1..n : ops[i].reg = "RFCR"
  BY <1>1
<1>5. \A r \in RegNames \ {"RFCR"} : reg'[r] = reg[r]
  BY <1>2, <1>3, <1>4, AppliedElsewhere
<1>6. RegInv'
  BY <1>2, <1>3, AppliedCases DEF RegInv
<1>7. reg'["RFCR"] \in {reg["RFCR"], FilterValue(p, f)}
  <2>1. "RFCR" \in RegNames
    BY DEF RegNames
  <2>2. \/ reg'["RFCR"] = reg["RFCR"]
        \/ \E i \in 1..n : reg'["RFCR"] = ops[i].val
    BY <1>2, <1>3, <2>1, AppliedCases
  <2> QED BY <1>1, <2>2
<1>8. "filter" \notin stale' => reg'["RFCR"] = FilterValue(p, f)
  <2> SUFFICES ASSUME "filter" \notin stale' PROVE reg'["RFCR"] = FilterValue(p, f)
    OBVIOUS
  <2>1. n = 1
    BY <1>2 DEF Mark
  <2>2. ops[1].reg \in DOMAIN reg
    BY <1>1, <1>3 DEF RegNames
  <2>3. Applied(reg, ops, 1)[ops[1].reg] = ops[1].val
    BY <2>2, AppliedThere
  <2> QED BY <1>1, <1>2, <2>1, <2>3
<1>9. stale' \ {"filter"} = stale \ {"filter"}
  BY <1>2 DEF Mark
<1>10. faults' \in 0..MaxFaults
  <2>1. Cardinality(Mark("filter", n < 1)) \in Nat
    BY MarkCardinality, Zenon
  <2> QED BY <1>2, <2>1, FaultBound DEF TypeOK
<1> QED BY <1>5, <1>6, <1>7, <1>8, <1>9, <1>10

(* What the synchronisation registers hold after a whole sequence.          *)
SyncValue(period, enable, r) ==
    CASE r = "T0TPCR"  -> IF ~enable THEN 0 ELSE IF period = 0 THEN 100 ELSE period
      [] r = "MPTCR0"  -> IF enable THEN 153 ELSE 0
      [] r = "ARB_SCR" -> IF enable THEN "ap" ELSE "sta"
      [] r = "BCNQ"    -> IF enable THEN "started" ELSE "flushed"

SyncRegs == {"T0TPCR", "MPTCR0", "ARB_SCR", "BCNQ"}

(* The BssSync sequence is four writes to four registers.                   *)
LEMMA ProgramSync ==
  ASSUME TypeOK, RegInv, NEW p, NEW e \in BOOLEAN, Program("sync", SyncOps(p, e))
  PROVE  /\ RegInv'
         /\ \A r \in RegNames \ SyncRegs : reg'[r] = reg[r]
         /\ \A r \in SyncRegs : reg'[r] \in {reg[r], SyncValue(p, e, r)}
         /\ "sync" \notin stale' => \A r \in SyncRegs : reg'[r] = SyncValue(p, e, r)
         /\ stale' \ {"sync"} = stale \ {"sync"}
         /\ faults' \in 0..MaxFaults
<1> DEFINE ops == SyncOps(p, e)
<1>1. /\ Len(ops) = 4
      /\ ops[1].reg = "T0TPCR" /\ ops[2].reg = "MPTCR0"
      /\ ops[3].reg = "ARB_SCR" /\ ops[4].reg = "BCNQ"
  BY DEF SyncOps, Write
<1>2. \A i \in 1..4 : ops[i].val = SyncValue(p, e, ops[i].reg)
  <2>1. /\ ops[1].val = SyncValue(p, e, "T0TPCR") /\ ops[2].val = SyncValue(p, e, "MPTCR0")
        /\ ops[3].val = SyncValue(p, e, "ARB_SCR") /\ ops[4].val = SyncValue(p, e, "BCNQ")
    BY DEF SyncOps, Write, SyncValue
  <2> HIDE DEF ops
  <2>2. \A i \in 1..4 : i = 1 \/ i = 2 \/ i = 3 \/ i = 4
    OBVIOUS
  <2> QED BY <1>1, <2>1, <2>2
<1>3. PICK n \in 0..4 : /\ reg' = Applied(reg, ops, n)
                        /\ stale' = (stale \ {"sync"}) \cup Mark("sync", n < 4)
                        /\ Fault(Cardinality(Mark("sync", n < 4)))
  BY <1>1 DEF Program
<1> HIDE DEF ops
<1>4. DOMAIN reg = RegNames
  BY DEF RegInv
<1>5. \A i \in 1..n : i \in 1..4 /\ ops[i].reg \in SyncRegs
  <2>1. \A i \in 1..4 : i = 1 \/ i = 2 \/ i = 3 \/ i = 4
    OBVIOUS
  <2>2. \A i \in 1..n : i \in 1..4
    OBVIOUS
  <2> QED BY <1>1, <2>1, <2>2 DEF SyncRegs
<1>6. \A r \in RegNames \ SyncRegs : reg'[r] = reg[r]
  BY <1>3, <1>4, <1>5, AppliedElsewhere
<1>7. RegInv'
  BY <1>3, <1>4, AppliedCases DEF RegInv
<1>8. \A r \in SyncRegs : reg'[r] \in {reg[r], SyncValue(p, e, r)}
  <2>1. \A r \in RegNames : \/ reg'[r] = reg[r]
                            \/ \E i \in 1..n : ops[i].reg = r /\ reg'[r] = ops[i].val
    BY <1>3, <1>4, AppliedCases
  <2> QED BY <1>2, <1>5, <2>1 DEF SyncRegs, RegNames
<1>9. "sync" \notin stale' => \A r \in SyncRegs : reg'[r] = SyncValue(p, e, r)
  <2> SUFFICES ASSUME "sync" \notin stale', NEW r \in SyncRegs
               PROVE  reg'[r] = SyncValue(p, e, r)
    OBVIOUS
  <2>1. n = 4
    BY <1>3 DEF Mark
  <2>2. PICK i \in 1..4 : ops[i].reg = r
    BY <1>1 DEF SyncRegs
  <2>3. \A j \in 1..4 : ops[j].reg = ops[i].reg => j = i
    <3>1. \A j \in 1..4 : j = 1 \/ j = 2 \/ j = 3 \/ j = 4
      OBVIOUS
    <3> QED BY <1>1, <2>2, <3>1
  <2>4. ops[i].reg \in DOMAIN reg
    BY <1>4, <2>2 DEF SyncRegs, RegNames
  <2>5. Applied(reg, ops, 4)[ops[i].reg] = ops[i].val
    BY <2>3, <2>4, AppliedThere
  <2> QED BY <1>2, <1>3, <2>1, <2>2, <2>5
<1>10. stale' \ {"sync"} = stale \ {"sync"}
  BY <1>3 DEF Mark
<1>11. faults' \in 0..MaxFaults
  <2>1. Cardinality(Mark("sync", n < 4)) \in Nat
    BY MarkCardinality, Zenon
  <2> QED BY <1>3, <2>1, FaultBound DEF TypeOK
<1> QED BY <1>6, <1>7, <1>8, <1>9, <1>10, <1>11

(* NextSeq stays within the four bits of a command number.                  *)
LEMMA NextSeqBounds ==
  ASSUME NEW n \in Nat
  PROVE  NextSeq(n) \in 1..15
  BY DEF NextSeq

Goals == {"chan", "chfreq", "power"}

(* mt7603_set_channel_ext: what is remembered is what was asked for; what   *)
(* the firmware and the receiver have is that, or it is stale.              *)
LEMMA ChannelSwitched ==
  ASSUME TypeOK, NEW c \in 1..13, NEW b \in {0, 1}, NEW cen \in 1..14, NEW r,
         r = [x \in RegNames |-> r[x]], NEW earlier, NEW bad \in Nat,
         earlier # <<>> => earlier[Len(earlier)].seq \in 0..15,
         SetChannelExt(c, b, cen, r, earlier, bad)
  PROVE  /\ RegInv'
         /\ \A x \in RegNames \ {"CHFREQ"} : reg'[x] = r[x]
         /\ reg'["CHFREQ"] \in {r["CHFREQ"], 1}
         /\ "chfreq" \notin stale' => reg'["CHFREQ"] = 1
         /\ stale' \ Goals = stale \ Goals
         /\ current_channel' = c /\ current_bw' = b
         /\ radio' \in [ch : 0..14, central : 0..14, bw : {0, 1}, power : 0..14]
         /\ "chan" \notin stale' => radio'.ch = c /\ radio'.central = cen /\ radio'.bw = b
         /\ cmd_seq' \in 0..15 /\ faults' \in 0..MaxFaults
<1> DEFINE s == IF earlier = <<>> THEN cmd_seq ELSE earlier[Len(earlier)].seq
<1>1. ClampChannel(c) = c /\ ClampCentral(cen, c) = cen
  BY DEF ClampChannel, ClampCentral
<1>2. PICK ok \in [Goals -> BOOLEAN] :
        /\ reg' = Applied(r, SwitchOps, IF ok["chfreq"] THEN Len(SwitchOps) ELSE 0)
        /\ radio' = [ch      |-> IF ok["chan"] THEN c ELSE radio.ch,
                     central |-> IF ok["chan"] THEN cen ELSE radio.central,
                     bw      |-> IF ok["chan"] THEN b ELSE radio.bw,
                     power   |-> IF ok["power"] THEN c ELSE radio.power]
        /\ cmd_seq' = NextSeq(NextSeq(s))
        /\ stale' = (stale \ DOMAIN ok) \cup {g \in DOMAIN ok : ~ok[g]}
        /\ Fault(bad + Cardinality({g \in DOMAIN ok : ~ok[g]}))
        /\ current_channel' = c /\ current_bw' = b
  BY <1>1 DEF SetChannelExt, PowerChannel, Goals
<1>3. DOMAIN ok = Goals
  OBVIOUS
<1> DEFINE n == IF ok["chfreq"] THEN 1 ELSE 0
<1>4. n \in Nat /\ Len(SwitchOps) = 1 /\ SwitchOps[1].reg = "CHFREQ" /\ SwitchOps[1].val = 1
  BY DEF SwitchOps, Write
<1>5. reg' = Applied(r, SwitchOps, n) /\ DOMAIN r = RegNames
  BY <1>2, <1>4
<1>6. \A i \in 1..n : SwitchOps[i].reg = "CHFREQ" /\ SwitchOps[i].val = 1
  BY <1>4
<1>7. RegInv' /\ \A x \in RegNames \ {"CHFREQ"} : reg'[x] = r[x]
  <2> HIDE DEF n
  <2>1. \A x \in RegNames \ {"CHFREQ"} : reg'[x] = r[x]
    BY <1>4, <1>5, <1>6, AppliedElsewhere
  <2>2. RegInv'
    BY <1>4, <1>5, AppliedCases DEF RegInv
  <2> QED BY <2>1, <2>2
<1>8. reg'["CHFREQ"] \in {r["CHFREQ"], 1}
  <2> HIDE DEF n
  <2>1. \/ reg'["CHFREQ"] = r["CHFREQ"]
        \/ \E i \in 1..n : reg'["CHFREQ"] = SwitchOps[i].val
    <3>1. "CHFREQ" \in DOMAIN r
      BY <1>5 DEF RegNames
    <3> QED BY <1>4, <1>5, <3>1, AppliedCases
  <2> QED BY <1>6, <2>1
<1>9. "chfreq" \notin stale' => reg'["CHFREQ"] = 1
  <2> SUFFICES ASSUME "chfreq" \notin stale' PROVE reg'["CHFREQ"] = 1
    OBVIOUS
  <2>1. n = 1
    BY <1>2, <1>3 DEF Goals
  <2>2. SwitchOps[1].reg \in DOMAIN r
    BY <1>4, <1>5 DEF RegNames
  <2>3. Applied(r, SwitchOps, 1)[SwitchOps[1].reg] = SwitchOps[1].val
    BY <2>2, AppliedThere
  <2> QED BY <1>4, <1>5, <2>1, <2>3
<1>10. stale' \ Goals = stale \ Goals
  BY <1>2, <1>3
<1>11. radio' \in [ch : 0..14, central : 0..14, bw : {0, 1}, power : 0..14]
  <2>1. radio \in [ch : 0..14, central : 0..14, bw : {0, 1}, power : 0..14]
    BY DEF TypeOK
  <2>2. c \in 0..14 /\ cen \in 0..14
    OBVIOUS
  <2> QED BY <1>2, <2>1, <2>2
<1>12. "chan" \notin stale' => radio'.ch = c /\ radio'.central = cen /\ radio'.bw = b
  BY <1>2, <1>3 DEF Goals
<1>13. cmd_seq' \in 0..15
  <2>1. s \in Nat
    BY DEF TypeOK
  <2>2. NextSeq(s) \in Nat
    BY <2>1, NextSeqBounds
  <2>3. NextSeq(NextSeq(s)) \in 1..15
    BY <2>2, NextSeqBounds
  <2> QED BY <1>2, <2>3
<1>14. faults' \in 0..MaxFaults
  <2> DEFINE lost == {g \in DOMAIN ok : ~ok[g]}
  <2>1. IsFiniteSet(Goals)
    <3>1. Goals = ({"chan"} \cup {"chfreq"}) \cup {"power"}
      BY DEF Goals
    <3>2. IsFiniteSet({"chan"}) /\ IsFiniteSet({"chfreq"}) /\ IsFiniteSet({"power"})
      BY FS_Singleton, Zenon
    <3>3. IsFiniteSet({"chan"} \cup {"chfreq"})
      BY <3>2, FS_Union, Zenon
    <3> QED BY <3>1, <3>2, <3>3, FS_Union, Zenon
  <2>2. lost \subseteq Goals
    BY <1>3
  <2>3. Cardinality(lost) \in Nat
    BY <2>1, <2>2, FS_Subset, FS_CardinalityType
  <2>4. bad + Cardinality(lost) \in Nat
    BY <2>3
  <2>5. Fault(bad + Cardinality(lost))
    BY <1>2
  <2> QED BY <2>4, <2>5, FaultBound DEF TypeOK
<1> QED BY <1>2, <1>7, <1>8, <1>9, <1>10, <1>11, <1>12, <1>13, <1>14

(* mt7603_set_chandef finds the centre two channels off at 40 MHz.          *)
LEMMA CentralOfChandef ==
  ASSUME NEW d \in ChanDefs
  PROVE  /\ d.chan \in 1..13 /\ CentralOf(d) \in 1..14
         /\ CentralOf(d) - d.chan \in IF d.width = 40 THEN {-2, 2} ELSE {0}
<1> DEFINE c == d.chan
           f == d.center_freq1
           x == CentralOf(d)
<1>1. /\ c \in 1..13
      /\ \/ d.width = 20 /\ f = 2407 + 5 * c
         \/ d.width = 40 /\ c >= 3  /\ f = 2407 + 5 * (c - 2)
         \/ d.width = 40 /\ c <= 11 /\ f = 2407 + 5 * (c + 2)
  BY ChanDefsAssumption
<1>2. x = IF d.width = 40 /\ f >= 2412 THEN (f - 2407) \div 5 ELSE c
  BY DEF CentralOf
<1> HIDE DEF c, f, x
<1>3. CASE d.width = 20
  BY <1>1, <1>2, <1>3 DEF c, x
<1>4. CASE d.width = 40 /\ c >= 3 /\ f = 2407 + 5 * (c - 2)
  <2>1. f >= 2412 /\ f - 2407 = 5 * (c - 2)
    BY <1>1, <1>4
  <2>2. x = c - 2
    BY <1>1, <1>2, <1>4, <2>1
  <2> QED BY <1>1, <1>4, <2>2 DEF c, x
<1>5. CASE d.width = 40 /\ c <= 11 /\ f = 2407 + 5 * (c + 2)
  <2>1. f >= 2412 /\ f - 2407 = 5 * (c + 2)
    BY <1>1, <1>5
  <2>2. x = c + 2
    BY <1>1, <1>2, <1>5, <2>1
  <2> QED BY <1>1, <1>5, <2>2 DEF c, x
<1> QED BY <1>1, <1>3, <1>4, <1>5

(* A channel switch by config, bss_info_changed or sta_add.                 *)
LEMMA TuneKeepsInv ==
  ASSUME RadioInv, UNCHANGED dev, NEW c \in 1..13, NEW b \in {0, 1}, NEW cen \in 1..14,
         cen - c \in IF b = 1 THEN {-2, 2} ELSE {0},
         SetChannelExt(c, b, cen, reg, <<>>, 0)
  PROVE  RadioInv'
<1>1. TypeOK /\ RegInv /\ FlagInv /\ RoleInv /\ FilterFollowsMonitors /\ SyncInv /\ FreqInv
  BY DEF RadioInv
<1>2. /\ RegInv'
      /\ \A x \in RegNames \ {"CHFREQ"} : reg'[x] = reg[x]
      /\ reg'["CHFREQ"] \in {reg["CHFREQ"], 1}
      /\ "chfreq" \notin stale' => reg'["CHFREQ"] = 1
      /\ stale' \ Goals = stale \ Goals
      /\ current_channel' = c /\ current_bw' = b
      /\ radio' \in [ch : 0..14, central : 0..14, bw : {0, 1}, power : 0..14]
      /\ "chan" \notin stale' => radio'.ch = c /\ radio'.central = cen /\ radio'.bw = b
      /\ cmd_seq' \in 0..15 /\ faults' \in 0..MaxFaults
  <2>1. reg = [x \in RegNames |-> reg[x]] /\ 0 \in Nat
    BY <1>1 DEF RegInv
  <2> QED BY <1>1, <2>1, ChannelSwitched
<1>3. /\ reg'["RFCR"] = reg["RFCR"] /\ reg'["ARB_SCR"] = reg["ARB_SCR"]
      /\ reg'["BCNQ"] = reg["BCNQ"] /\ reg'["T0TPCR"] = reg["T0TPCR"]
      /\ reg'["MPTCR0"] = reg["MPTCR0"]
  BY <1>2 DEF RegNames
<1>4. /\ "filter" \in stale' <=> "filter" \in stale
      /\ "sync" \in stale' <=> "sync" \in stale
  BY <1>2 DEF Goals
<1>5. TypeOK'
  <2>1. stale' \subseteq {"filter", "sync", "chan", "power", "chfreq"}
    BY <1>1, <1>2 DEF TypeOK, Goals
  <2>2. current_channel' \in 0..14 /\ current_bw' \in {0, 1}
    BY <1>2
  <2>3. reg'["CHFREQ"] \in {0, 1}
    BY <1>1, <1>2 DEF TypeOK
  <2> QED BY <1>1, <1>2, <1>3, <2>1, <2>2, <2>3 DEF TypeOK, dev
<1>6. FlagInv' /\ RoleInv'
  BY <1>1 DEF FlagInv, RoleInv, dev
<1>7. FilterFollowsMonitors'
  BY <1>1, <1>3, <1>4 DEF FilterFollowsMonitors, dev
<1>8. SyncInv'
  BY <1>1, <1>3, <1>4 DEF SyncInv, dev
<1>9. ChannelKnown'
  BY <1>2 DEF ChannelKnown
<1>10. FreqInv'
  BY <1>2 DEF FreqInv
<1> QED BY <1>2, <1>5, <1>6, <1>7, <1>8, <1>9, <1>10 DEF RadioInv

(* What a filter sequence does to registers, marks and faults.              *)
FilterStep(p, f) ==
    /\ RegInv'
    /\ \A r \in RegNames \ {"RFCR"} : reg'[r] = reg[r]
    /\ reg'["RFCR"] \in {reg["RFCR"], FilterValue(p, f)}
    /\ "filter" \notin stale' => reg'["RFCR"] = FilterValue(p, f)
    /\ stale' \ {"filter"} = stale \ {"filter"}
    /\ faults' \in 0..MaxFaults

(* A callback that programs the filter leaves channel and beacons alone.    *)
LEMMA FilterKeepsInv ==
  ASSUME RadioInv, NEW p, NEW f, FilterStep(p, f), FilterFollowsMonitors',
         monitor_count' \in 0..MaxMonitors, filter_flags' = {},
         UNCHANGED <<open, running, ap_vif, beacon_enabled, beacon_int, tune>>
  PROVE  RadioInv'
<1>1. TypeOK /\ FlagInv /\ RoleInv /\ SyncInv /\ ChannelKnown /\ FreqInv
  BY DEF RadioInv
<1>2. /\ reg'["CHFREQ"] = reg["CHFREQ"] /\ reg'["ARB_SCR"] = reg["ARB_SCR"]
      /\ reg'["BCNQ"] = reg["BCNQ"] /\ reg'["T0TPCR"] = reg["T0TPCR"]
      /\ reg'["MPTCR0"] = reg["MPTCR0"]
  BY DEF FilterStep, RegNames
<1>3. \A x \in {"sync", "chan", "chfreq"} : x \in stale' <=> x \in stale
  BY DEF FilterStep
<1>4. TypeOK'
  <2>1. stale' \subseteq {"filter", "sync", "chan", "power", "chfreq"}
    BY <1>1 DEF TypeOK, FilterStep
  <2>2. reg'["RFCR"] \in {"reset", "init", "normal", "promisc", "promisc_fcsfail"}
    BY <1>1 DEF TypeOK, FilterStep, FilterValue
  <2> QED BY <1>1, <1>2, <2>1, <2>2 DEF TypeOK, FilterStep, tune
<1>5. FlagInv' /\ RoleInv'
  BY <1>1 DEF FlagInv, RoleInv
<1>6. SyncInv' /\ ChannelKnown' /\ FreqInv'
  BY <1>1, <1>2, <1>3 DEF SyncInv, ChannelKnown, FreqInv, tune
<1> QED BY <1>4, <1>5, <1>6 DEF RadioInv, FilterStep

(* The same for a BssSync sequence.                                         *)
SyncStep(p, e) ==
    /\ RegInv'
    /\ \A r \in RegNames \ SyncRegs : reg'[r] = reg[r]
    /\ \A r \in SyncRegs : reg'[r] \in {reg[r], SyncValue(p, e, r)}
    /\ "sync" \notin stale' => \A r \in SyncRegs : reg'[r] = SyncValue(p, e, r)
    /\ stale' \ {"sync"} = stale \ {"sync"}
    /\ faults' \in 0..MaxFaults

(* Switching beacons on or off leaves channel and filter alone.             *)
LEMMA SyncKeepsInv ==
  ASSUME RadioInv, NEW p, NEW e \in BOOLEAN, SyncStep(p, e), ap_vif,
         beacon_enabled' = e, beacon_int' \in Intervals \cup {100},
         e => p = beacon_int' /\ p # 0,
         UNCHANGED <<open, running, monitor_count, filter_flags, ap_vif, tune>>
  PROVE  RadioInv'
<1>1. TypeOK /\ FlagInv /\ RoleInv /\ FilterFollowsMonitors /\ SyncInv /\ ChannelKnown /\ FreqInv
  BY DEF RadioInv
<1>2. reg'["CHFREQ"] = reg["CHFREQ"] /\ reg'["RFCR"] = reg["RFCR"]
  BY DEF SyncStep, RegNames, SyncRegs
<1>3. \A x \in {"filter", "chan", "chfreq"} : x \in stale' <=> x \in stale
  BY DEF SyncStep
<1>4. /\ SyncValue(p, e, "T0TPCR") = IF e THEN beacon_int' ELSE 0
      /\ SyncValue(p, e, "MPTCR0") = IF e THEN 153 ELSE 0
      /\ SyncValue(p, e, "ARB_SCR") = IF e THEN "ap" ELSE "sta"
      /\ SyncValue(p, e, "BCNQ") = IF e THEN "started" ELSE "flushed"
  BY DEF SyncValue
<1>5. TypeOK'
  <2>1. stale' \subseteq {"filter", "sync", "chan", "power", "chfreq"}
    BY <1>1 DEF TypeOK, SyncStep
  <2>2. /\ reg'["T0TPCR"] \in {reg["T0TPCR"], SyncValue(p, e, "T0TPCR")}
        /\ reg'["MPTCR0"] \in {reg["MPTCR0"], SyncValue(p, e, "MPTCR0")}
        /\ reg'["ARB_SCR"] \in {reg["ARB_SCR"], SyncValue(p, e, "ARB_SCR")}
        /\ reg'["BCNQ"] \in {reg["BCNQ"], SyncValue(p, e, "BCNQ")}
    BY DEF SyncStep, SyncRegs
  <2>3. /\ reg'["T0TPCR"] \in Intervals \cup {0, 100} /\ reg'["MPTCR0"] \in {0, 153}
        /\ reg'["ARB_SCR"] \in {"sta", "ap"} /\ reg'["BCNQ"] \in {"flushed", "started"}
    BY <1>1, <1>4, <2>2 DEF TypeOK
  <2> QED BY <1>1, <1>2, <2>1, <2>3 DEF TypeOK, SyncStep, tune
<1>6. FlagInv' /\ RoleInv' /\ FilterFollowsMonitors'
  BY <1>1, <1>2, <1>3 DEF FlagInv, RoleInv, FilterFollowsMonitors
<1>7. SyncInv'
  <2>1. "sync" \notin stale' => /\ reg'["T0TPCR"] = SyncValue(p, e, "T0TPCR")
                                /\ reg'["MPTCR0"] = SyncValue(p, e, "MPTCR0")
                                /\ reg'["ARB_SCR"] = SyncValue(p, e, "ARB_SCR")
                                /\ reg'["BCNQ"] = SyncValue(p, e, "BCNQ")
    BY DEF SyncStep, SyncRegs
  <2> QED BY <1>4, <2>1 DEF SyncInv
<1>8. ChannelKnown' /\ FreqInv'
  BY <1>1, <1>2, <1>3 DEF ChannelKnown, FreqInv, tune
<1> QED BY <1>5, <1>6, <1>7, <1>8 DEF RadioInv, SyncStep

LEMMA InitInv == Init => RadioInv
<1> SUFFICES ASSUME Init PROVE RadioInv
  OBVIOUS
<1>1. TypeOK
  <2>1. open \in BOOLEAN /\ running \in BOOLEAN /\ ap_vif \in BOOLEAN /\ beacon_enabled \in BOOLEAN
    BY DEF Init
  <2>2. monitor_count \in 0..MaxMonitors /\ faults \in 0..MaxFaults
    BY BoundsAssumption DEF Init
  <2>3. radio \in [ch : 0..14, central : 0..14, bw : {0, 1}, power : 0..14]
    BY DEF Init
  <2>4. /\ reg["RFCR"] = "reset" /\ reg["CHFREQ"] = 0 /\ reg["ARB_SCR"] = "sta"
        /\ reg["BCNQ"] = "flushed" /\ reg["T0TPCR"] = 0 /\ reg["MPTCR0"] = 0
    BY DEF Init
  <2>5. stale \subseteq {"filter", "sync", "chan", "power", "chfreq"} /\ filter_flags \subseteq Flags
    BY DEF Init
  <2> QED BY <2>1, <2>2, <2>3, <2>4, <2>5 DEF Init, TypeOK
<1>2. RegInv
  BY DEF Init, RegInv, RegNames
<1>3. FlagInv /\ RoleInv /\ FilterFollowsMonitors /\ SyncInv /\ ChannelKnown /\ FreqInv
  BY DEF Init, FlagInv, RoleInv, FilterFollowsMonitors, SyncInv, ChannelKnown, FreqInv
<1> QED BY <1>1, <1>2, <1>3 DEF RadioInv

(* Every callback keeps the invariant.                                      *)
LEMMA NextInv == RadioInv /\ [Next]_vars => RadioInv'
<1> SUFFICES ASSUME RadioInv, [Next]_vars PROVE RadioInv'
  OBVIOUS
<1> DEFINE Others == TypeOK /\ RegInv /\ FlagInv /\ RoleInv /\ FilterFollowsMonitors /\ SyncInv
                     /\ ChannelKnown /\ FreqInv
<1>0. Others
  BY DEF RadioInv
<1>1. CASE Start
  <2>1. PICK n \in 0..Len(MacInitOps), eeprom_valid \in BOOLEAN :
           SetChannelExt(1, 0, 1, Applied(reg, MacInitOps, n), StartCmds(eeprom_valid),
                         IF n < Len(MacInitOps) THEN 1 ELSE 0)
    BY <1>1 DEF Start, SetChannel
  <2> DEFINE r == Applied(reg, MacInitOps, n)
             e == StartCmds(eeprom_valid)
             bad == IF n < Len(MacInitOps) THEN 1 ELSE 0
  <2>2. /\ Len(MacInitOps) = 2
        /\ MacInitOps[1].reg = "ARB_SCR" /\ MacInitOps[1].val = "sta"
        /\ MacInitOps[2].reg = "RFCR" /\ MacInitOps[2].val = "init"
    BY DEF MacInitOps, Write
  <2>3. n \in Nat /\ DOMAIN reg = RegNames
    BY <1>0, <2>2 DEF RegInv
  <2>4. \A i \in 1..n : \/ MacInitOps[i].reg = "ARB_SCR" /\ MacInitOps[i].val = "sta"
                        \/ MacInitOps[i].reg = "RFCR" /\ MacInitOps[i].val = "init"
    BY <2>2
  <2>5. r = [x \in RegNames |-> r[x]]
    BY <2>3, AppliedCases
  <2>6. \A x \in RegNames : \/ r[x] = reg[x]
                            \/ \E i \in 1..n : MacInitOps[i].reg = x /\ r[x] = MacInitOps[i].val
    BY <2>3, AppliedCases
  <2>7. \A x \in {"CHFREQ", "BCNQ", "T0TPCR", "MPTCR0"} : r[x] = reg[x]
    BY <2>4, <2>6 DEF RegNames
  <2>8. r["ARB_SCR"] \in {reg["ARB_SCR"], "sta"} /\ r["RFCR"] \in {reg["RFCR"], "init"}
    BY <2>4, <2>6 DEF RegNames
  <2>9. e # <<>> => e[Len(e)].seq \in 0..15
    <3>1. cmd_seq \in Nat
      BY <1>0 DEF TypeOK
    <3>2. NextSeq(cmd_seq) \in 1..15 /\ NextSeq(NextSeq(cmd_seq)) \in 1..15
          /\ NextSeq(NextSeq(NextSeq(cmd_seq))) \in 1..15
      BY <3>1, NextSeqBounds
    <3>3. e[Len(e)].seq \in {NextSeq(NextSeq(cmd_seq)), NextSeq(NextSeq(NextSeq(cmd_seq)))}
      BY DEF StartCmds
    <3> QED BY <3>2, <3>3
  <2>10. bad \in Nat
    BY <2>2
  <2>11. /\ RegInv'
         /\ \A x \in RegNames \ {"CHFREQ"} : reg'[x] = r[x]
         /\ reg'["CHFREQ"] \in {r["CHFREQ"], 1}
         /\ "chfreq" \notin stale' => reg'["CHFREQ"] = 1
         /\ stale' \ Goals = stale \ Goals
         /\ current_channel' = 1 /\ current_bw' = 0
         /\ radio' \in [ch : 0..14, central : 0..14, bw : {0, 1}, power : 0..14]
         /\ "chan" \notin stale' => radio'.ch = 1 /\ radio'.central = 1 /\ radio'.bw = 0
         /\ cmd_seq' \in 0..15 /\ faults' \in 0..MaxFaults
    <3>1. SetChannelExt(1, 0, 1, r, e, bad)
      BY <2>1
    <3>2. 1 \in 1..13 /\ 0 \in {0, 1} /\ 1 \in 1..14
      OBVIOUS
    <3> HIDE DEF r, e, bad
    <3> QED BY <1>0, <2>5, <2>9, <2>10, <3>1, <3>2, ChannelSwitched, Zenon
  <2> HIDE DEF r, e, bad
  <2>12. /\ reg'["BCNQ"] = reg["BCNQ"] /\ reg'["T0TPCR"] = reg["T0TPCR"]
         /\ reg'["MPTCR0"] = reg["MPTCR0"] /\ reg'["CHFREQ"] \in {reg["CHFREQ"], 1}
         /\ reg'["ARB_SCR"] \in {reg["ARB_SCR"], "sta"} /\ reg'["RFCR"] \in {reg["RFCR"], "init"}
    BY <2>7, <2>8, <2>11 DEF RegNames
  <2>13. /\ "filter" \in stale' <=> "filter" \in stale
         /\ "sync" \in stale' <=> "sync" \in stale
    BY <2>11 DEF Goals
  <2>14. ~beacon_enabled /\ ~ap_vif /\ open' = TRUE /\ running' = TRUE
         /\ UNCHANGED <<monitor_count, filter_flags, ap_vif, beacon_enabled, beacon_int>>
    BY <1>0, <1>1 DEF Start, RoleInv, TypeOK
  <2>15. TypeOK'
    <3>1. stale' \subseteq {"filter", "sync", "chan", "power", "chfreq"}
      BY <1>0, <2>11 DEF TypeOK, Goals
    <3> QED BY <1>0, <2>11, <2>12, <2>14, <3>1 DEF TypeOK
  <2>16. FlagInv' /\ RoleInv' /\ FilterFollowsMonitors'
    BY <1>0, <2>12, <2>13, <2>14 DEF FlagInv, RoleInv, FilterFollowsMonitors
  <2>17. SyncInv'
    BY <1>0, <2>12, <2>13, <2>14 DEF SyncInv
  <2>18. ChannelKnown' /\ FreqInv'
    BY <2>11 DEF ChannelKnown, FreqInv
  <2> QED BY <2>11, <2>15, <2>16, <2>17, <2>18 DEF RadioInv
<1>2. CASE Stop
  <2>1. TypeOK' /\ RegInv'
    <3>1. open' \in BOOLEAN /\ running' \in BOOLEAN /\ beacon_enabled' \in BOOLEAN
      BY <1>2 DEF Stop
    <3> QED BY <1>0, <1>2, <3>1 DEF Stop, TypeOK, RegInv
  <2>2. FlagInv' /\ RoleInv' /\ FilterFollowsMonitors'
    BY <1>0, <1>2 DEF Stop, FlagInv, RoleInv, FilterFollowsMonitors
  <2>3. SyncInv'
    BY <1>0, <1>2 DEF Stop, SyncInv, RoleInv, TypeOK
  <2>4. ChannelKnown' /\ FreqInv'
    BY <1>0, <1>2 DEF Stop, ChannelKnown, FreqInv
  <2> QED BY <2>1, <2>2, <2>3, <2>4 DEF RadioInv
<1>3. CASE \E d \in ChanDefs, changed \in BOOLEAN : Config(d, changed)
  <2>1. PICK d \in ChanDefs : /\ UNCHANGED dev
                              /\ SetChannelExt(d.chan, IF d.width = 40 THEN 1 ELSE 0,
                                               CentralOf(d), reg, <<>>, 0)
    BY <1>3 DEF Config, SetChandef
  <2> DEFINE c == d.chan
             b == IF d.width = 40 THEN 1 ELSE 0
             x == CentralOf(d)
  <2>2. c \in 1..13 /\ x \in 1..14 /\ x - c \in IF b = 1 THEN {-2, 2} ELSE {0}
    BY CentralOfChandef
  <2>3. b \in {0, 1} /\ SetChannelExt(c, b, x, reg, <<>>, 0)
    BY <2>1
  <2> HIDE DEF c, b, x
  <2> QED BY <2>1, <2>2, <2>3, TuneKeepsInv
<1>4. CASE \E d \in ChanDefs : BssTune(d.chan)
  <2>1. PICK d \in ChanDefs : /\ UNCHANGED dev
                              /\ SetChannelExt(d.chan, 0, d.chan, reg, <<>>, 0)
    BY <1>4 DEF BssTune, SetChannel
  <2> DEFINE c == d.chan
  <2>2. c \in 1..13 /\ SetChannelExt(c, 0, c, reg, <<>>, 0)
    BY <2>1, CentralOfChandef
  <2> HIDE DEF c
  <2>3. c \in 1..14 /\ c - c \in IF 0 = 1 THEN {-2, 2} ELSE {0}
    BY <2>2
  <2> QED BY <2>1, <2>2, <2>3, TuneKeepsInv
<1>5. CASE AddMonitor
  <2>1. Program("filter", FilterOps(TRUE, "FCSFAIL" \in filter_flags))
    BY <1>5 DEF AddMonitor
  <2>2. TRUE \in BOOLEAN /\ ("FCSFAIL" \in filter_flags) \in BOOLEAN
    OBVIOUS
  <2> DEFINE p == TRUE
             f == "FCSFAIL" \in filter_flags
  <2>3. FilterStep(p, f)
    BY <1>0, <2>1, <2>2, ProgramFilter, Zenon DEF FilterStep
  <2>4. monitor_count' \in 0..MaxMonitors /\ monitor_count' > 0
    BY <1>0, <1>5, BoundsAssumption DEF AddMonitor, TypeOK
  <2>5. FilterValue(p, f) = "promisc"
    BY <1>0 DEF FilterValue, FlagInv
  <2>6. FilterFollowsMonitors'
    BY <2>3, <2>4, <2>5 DEF FilterStep, FilterFollowsMonitors
  <2>7. UNCHANGED <<open, running, ap_vif, beacon_enabled, beacon_int, tune>>
        /\ filter_flags' = {}
    BY <1>0, <1>5 DEF AddMonitor, FlagInv
  <2> QED BY <2>3, <2>4, <2>6, <2>7, FilterKeepsInv
<1>6. CASE RemoveMonitor
  <2>1. monitor_count' \in 0..MaxMonitors /\ monitor_count > 0
    BY <1>0, <1>6, BoundsAssumption DEF RemoveMonitor, TypeOK
  <2>2. UNCHANGED <<open, running, ap_vif, beacon_enabled, beacon_int, tune>>
        /\ filter_flags' = filter_flags /\ filter_flags' = {}
    BY <1>0, <1>6 DEF RemoveMonitor, FlagInv
  <2>3. CASE monitor_count' = 0 /\ Program("filter", FilterOps(FALSE, FALSE))
    <3>1. FilterStep(FALSE, FALSE)
      BY <1>0, <2>3, ProgramFilter, Zenon DEF FilterStep
    <3>2. FilterFollowsMonitors'
      BY <2>3, <3>1 DEF FilterStep, FilterValue, FilterFollowsMonitors
    <3> QED BY <2>1, <2>2, <3>1, <3>2, FilterKeepsInv
  <2>4. CASE monitor_count' > 0 /\ UNCHANGED <<reg, stale, faults>>
    <3>1. FilterFollowsMonitors'
      BY <1>0, <2>1, <2>2, <2>4 DEF FilterFollowsMonitors
    <3>2. TypeOK' /\ RegInv'
      BY <1>0, <2>1, <2>2, <2>4 DEF TypeOK, RegInv, tune
    <3>3. FlagInv' /\ RoleInv' /\ SyncInv' /\ ChannelKnown' /\ FreqInv'
      BY <1>0, <2>2, <2>4 DEF FlagInv, RoleInv, SyncInv, ChannelKnown, FreqInv, tune
    <3> QED BY <3>1, <3>2, <3>3 DEF RadioInv
  <2> QED BY <1>6, <2>3, <2>4 DEF RemoveMonitor
<1>7. CASE ConfigureFilter
  <2>1. UNCHANGED <<open, running, ap_vif, beacon_enabled, beacon_int, tune>>
        /\ filter_flags' = {} /\ monitor_count' = monitor_count
    BY <1>7 DEF ConfigureFilter, Multicast
  <2>2. monitor_count' \in 0..MaxMonitors
    BY <1>0, <2>1 DEF TypeOK
  <2>3. CASE running /\ Program("filter", FilterOps(Promisc(Multicast), "FCSFAIL" \in Multicast))
    <3> DEFINE p == Promisc(Multicast)
               f == "FCSFAIL" \in Multicast
    <3>1. p \in BOOLEAN /\ f \in BOOLEAN
      BY DEF Promisc
    <3>2. FilterStep(p, f)
      BY <1>0, <2>3, <3>1, ProgramFilter, Zenon DEF FilterStep
    <3>3. FilterValue(p, f) = IF monitor_count > 0 THEN "promisc" ELSE "normal"
      BY DEF FilterValue, Promisc, Multicast
    <3>4. FilterFollowsMonitors'
      BY <2>1, <3>2, <3>3 DEF FilterStep, FilterFollowsMonitors
    <3> QED BY <2>1, <2>2, <3>2, <3>4, FilterKeepsInv
  <2>4. CASE ~running /\ UNCHANGED <<reg, stale, faults>>
    <3>1. FilterFollowsMonitors' /\ FlagInv'
      BY <1>0, <2>1, <2>4 DEF FilterFollowsMonitors, FlagInv
    <3>2. TypeOK' /\ RegInv'
      BY <1>0, <2>1, <2>2, <2>4 DEF TypeOK, RegInv, tune
    <3>3. RoleInv' /\ SyncInv' /\ ChannelKnown' /\ FreqInv'
      BY <1>0, <2>1, <2>4 DEF RoleInv, SyncInv, ChannelKnown, FreqInv, tune
    <3> QED BY <3>1, <3>2, <3>3 DEF RadioInv
  <2> QED BY <1>7, <2>3, <2>4 DEF ConfigureFilter
<1>8. CASE AddAp \/ RemoveAp
  <2>1. /\ UNCHANGED <<open, running, monitor_count, filter_flags, beacon_enabled, beacon_int,
                       tune, reg, stale, faults>>
        /\ ap_vif' \in BOOLEAN /\ (beacon_enabled => ap_vif') /\ (ap_vif' => open)
    BY <1>0, <1>8 DEF AddAp, RemoveAp, RoleInv, TypeOK
  <2>2. TypeOK' /\ RegInv'
    BY <1>0, <2>1 DEF TypeOK, RegInv, tune
  <2>3. FlagInv' /\ RoleInv' /\ FilterFollowsMonitors'
    BY <1>0, <2>1 DEF FlagInv, RoleInv, FilterFollowsMonitors
  <2>4. SyncInv' /\ ChannelKnown' /\ FreqInv'
    BY <1>0, <2>1 DEF SyncInv, ChannelKnown, FreqInv, tune
  <2> QED BY <2>2, <2>3, <2>4 DEF RadioInv
<1>9. CASE \E i \in Intervals : BeaconOn(i)
  <2>1. PICK i \in Intervals : BeaconOn(i)
    BY <1>9
  <2>2. SyncStep(beacon_int', TRUE)
    BY <1>0, <2>1, ProgramSync, Zenon DEF BeaconOn, SyncStep
  <2>3. /\ UNCHANGED <<open, running, monitor_count, filter_flags, ap_vif, tune>> /\ ap_vif
        /\ beacon_enabled' = TRUE /\ beacon_int' \in Intervals \cup {100} /\ beacon_int' # 0
    BY <2>1 DEF BeaconOn
  <2> QED BY <2>2, <2>3, SyncKeepsInv
<1>10. CASE BeaconOff
  <2>1. SyncStep(0, FALSE)
    BY <1>0, <1>10, ProgramSync, Zenon DEF BeaconOff, SyncStep
  <2>2. /\ UNCHANGED <<open, running, monitor_count, filter_flags, ap_vif, tune>> /\ ap_vif
        /\ beacon_enabled' = FALSE /\ beacon_int' \in Intervals \cup {100}
    BY <1>0, <1>10 DEF BeaconOff, TypeOK
  <2> QED BY <2>1, <2>2, SyncKeepsInv
<1>11. CASE StartNoMemory
  <2>1. cmd_seq' \in 1..15 /\ running' \in BOOLEAN
    BY <1>0, <1>11, NextSeqBounds DEF StartNoMemory, TypeOK
  <2>2. TypeOK' /\ RegInv'
    BY <1>0, <1>11, <2>1 DEF StartNoMemory, TypeOK, RegInv
  <2>3. FlagInv' /\ RoleInv' /\ FilterFollowsMonitors'
    BY <1>0, <1>11 DEF StartNoMemory, FlagInv, RoleInv, FilterFollowsMonitors
  <2>4. SyncInv' /\ ChannelKnown' /\ FreqInv'
    BY <1>0, <1>11 DEF StartNoMemory, SyncInv, ChannelKnown, FreqInv
  <2> QED BY <2>2, <2>3, <2>4 DEF RadioInv
<1>12. CASE UNCHANGED vars
  <2>1. TypeOK' /\ RegInv'
    BY <1>0, <1>12 DEF vars, dev, tune, TypeOK, RegInv
  <2>2. FlagInv' /\ RoleInv' /\ FilterFollowsMonitors'
    BY <1>0, <1>12 DEF vars, dev, tune, FlagInv, RoleInv, FilterFollowsMonitors
  <2>3. SyncInv' /\ ChannelKnown' /\ FreqInv'
    BY <1>0, <1>12 DEF vars, dev, tune, SyncInv, ChannelKnown, FreqInv
  <2> QED BY <2>1, <2>2, <2>3 DEF RadioInv
<1> QED BY <1>1, <1>2, <1>3, <1>4, <1>5, <1>6, <1>7, <1>8, <1>9, <1>10, <1>11, <1>12 DEF Next

-----------------------------------------------------------------------------

(* The callbacks keep the invariant, whatever fails in them.                *)
THEOREM RadioInvariant == Spec => []RadioInv
  BY InitInv, NextInv, PTL DEF Spec

(* mt7603_set_channel_ext: over every order of callbacks and failures the   *)
(* driver knows the firmware's channel unless the last switch was lost, and *)
(* the receiver has its frequency bit.                                      *)
THEOREM ChannelIsKnown == Spec => []ReceiverTuned
<1>1. RadioInv => ReceiverTuned
  BY DEF RadioInv, ReceiverTuned, FreqInv, ReceiverHasFrequency
<1> QED BY <1>1, RadioInvariant, PTL

(* configure_filter, add_interface and remove_interface, in any order and   *)
(* over restarts: the receive filter is promiscuous exactly while a monitor *)
(* exists, and never passes frames with a bad checksum.                     *)
THEOREM MonitorsDecideFilter == Spec => []FilterFollowsMonitors
<1>1. RadioInv => FilterFollowsMonitors
  BY DEF RadioInv
<1> QED BY <1>1, RadioInvariant, PTL

(* bss_info_changed: timers, arbiter and beacon queue follow the beacon.    *)
THEOREM SyncIsAsAsked == Spec => []SyncFollowsBeacon
<1>1. RadioInv => SyncFollowsBeacon
  BY DEF RadioInv, SyncInv, SyncFollowsBeacon
<1> QED BY <1>1, RadioInvariant, PTL

-----------------------------------------------------------------------------
(* The numbers of the commands.                                             *)

(* The i-th command after the one with number n.                            *)
Turn(n, i) == ((n + i - 1) % 15) + 1

LEMMA TurnStep ==
  ASSUME NEW n \in 0..15
  PROVE  /\ NextSeq(n) = Turn(n, 1)
         /\ NextSeq(Turn(n, 1)) = Turn(n, 2)
         /\ NextSeq(Turn(n, 2)) = Turn(n, 3)
         /\ NextSeq(Turn(n, 3)) = Turn(n, 4)
         /\ NextSeq(Turn(n, 4)) = Turn(n, 5)
  BY DEF NextSeq, Turn

Cmd(c, n) == [cmd |-> c, seq |-> n]

(* set_channel_ext goes on with the number after that of the last command.  *)
LEMMA SwitchNumbers ==
  ASSUME NEW c, NEW b, NEW cen, NEW r, NEW bad, NEW earlier,
         SetChannelExt(c, b, cen, r, earlier, bad)
  PROVE  LET s == IF earlier = <<>> THEN cmd_seq ELSE earlier[Len(earlier)].seq
         IN  cmds' = earlier \o << Cmd("chan", NextSeq(s)), Cmd("power", NextSeq(NextSeq(s))) >>
  BY DEF SetChannelExt, Cmd

(* What NumbersInTurn asks of a step.                                       *)
InTurn ==
    cmds' # cmds =>
        \A i \in DOMAIN cmds' :
            /\ cmds'[i].seq = ((cmd_seq + i - 1) % 15) + 1
            /\ cmds'[i].cmd = "efuse" => \A j \in DOMAIN cmds' : cmds'[j].cmd = "chan" => i < j

(* A switch outside start sends its two commands.                           *)
LEMMA SwitchInTurn ==
  ASSUME cmd_seq \in 0..15, NEW c, NEW b, NEW cen, NEW r, NEW bad,
         SetChannelExt(c, b, cen, r, <<>>, bad)
  PROVE  InTurn
<1> DEFINE n == cmd_seq
<1>1. cmds' = <<>> \o << Cmd("chan", NextSeq(n)), Cmd("power", NextSeq(NextSeq(n))) >>
  BY SwitchNumbers, Zenon
<1>2. cmds' = << Cmd("chan", Turn(n, 1)), Cmd("power", Turn(n, 2)) >>
  BY <1>1, TurnStep
<1> QED BY <1>2 DEF InTurn, Turn, Cmd

LEMMA JoinTwo ==
  ASSUME NEW S, NEW a \in S, NEW b \in S, NEW c \in S, NEW d \in S, NEW q,
         q = <<a, b>> \o <<c, d>>
  PROVE  /\ DOMAIN q = 1..4
         /\ q[1] = a /\ q[2] = b /\ q[3] = c /\ q[4] = d
<1>1. <<a, b>> \in Seq(S) /\ <<c, d>> \in Seq(S) /\ Len(<<a, b>>) = 2 /\ Len(<<c, d>>) = 2
  OBVIOUS
<1>2. Len(q) = 4 /\ q \in Seq(S)
  BY <1>1
<1> QED BY <1>1, <1>2

LEMMA JoinThree ==
  ASSUME NEW S, NEW a \in S, NEW b \in S, NEW c \in S, NEW d \in S, NEW e \in S, NEW q,
         q = <<a, b, c>> \o <<d, e>>
  PROVE  /\ DOMAIN q = 1..5
         /\ q[1] = a /\ q[2] = b /\ q[3] = c /\ q[4] = d /\ q[5] = e
<1>1. /\ <<a, b, c>> \in Seq(S) /\ <<d, e>> \in Seq(S)
      /\ Len(<<a, b, c>>) = 3 /\ Len(<<d, e>>) = 2
  OBVIOUS
<1>2. Len(q) = 5 /\ q \in Seq(S)
  BY <1>1
<1> QED BY <1>1, <1>2

(* start: calibration if there is any, radio and EDCA come first.           *)
LEMMA StartInTurn ==
  ASSUME cmd_seq \in 0..15, Start
  PROVE  InTurn
<1> DEFINE n == cmd_seq
<1>1. PICK m \in 0..Len(MacInitOps), e \in BOOLEAN :
         SetChannelExt(1, 0, 1, Applied(reg, MacInitOps, m), StartCmds(e),
                       IF m < Len(MacInitOps) THEN 1 ELSE 0)
  BY DEF Start, SetChannel
<1> DEFINE r == Applied(reg, MacInitOps, m)
           bad == IF m < Len(MacInitOps) THEN 1 ELSE 0
<1>2. SetChannelExt(1, 0, 1, r, StartCmds(e), bad)
  BY <1>1
<1> HIDE DEF r, bad
<1>3. LET s == IF StartCmds(e) = <<>> THEN cmd_seq ELSE StartCmds(e)[Len(StartCmds(e))].seq
      IN  cmds' = StartCmds(e) \o << Cmd("chan", NextSeq(s)), Cmd("power", NextSeq(NextSeq(s))) >>
  BY <1>2, SwitchNumbers
<1>4. CASE e
  <2>1. StartCmds(e) = << Cmd("efuse", Turn(n, 1)), Cmd("radio", Turn(n, 2)), Cmd("edca", Turn(n, 3)) >>
    BY <1>4, TurnStep DEF StartCmds, Cmd
  <2>2. StartCmds(e) # <<>> /\ StartCmds(e)[Len(StartCmds(e))].seq = Turn(n, 3)
    BY <2>1 DEF Cmd
  <2>3. cmds' = StartCmds(e) \o << Cmd("chan", Turn(n, 4)), Cmd("power", Turn(n, 5)) >>
    BY <1>3, <2>2, TurnStep
  <2> DEFINE Sent == {Cmd("efuse", Turn(n, 1)), Cmd("radio", Turn(n, 2)), Cmd("edca", Turn(n, 3)),
                      Cmd("chan", Turn(n, 4)), Cmd("power", Turn(n, 5))}
  <2>4. /\ Cmd("efuse", Turn(n, 1)) \in Sent /\ Cmd("radio", Turn(n, 2)) \in Sent
        /\ Cmd("edca", Turn(n, 3)) \in Sent /\ Cmd("chan", Turn(n, 4)) \in Sent
        /\ Cmd("power", Turn(n, 5)) \in Sent
    OBVIOUS
  <2>5. cmds' = << Cmd("efuse", Turn(n, 1)), Cmd("radio", Turn(n, 2)), Cmd("edca", Turn(n, 3)) >>
                \o << Cmd("chan", Turn(n, 4)), Cmd("power", Turn(n, 5)) >>
    BY <2>1, <2>3, Zenon
  <2> HIDE DEF Sent
  <2>6. /\ DOMAIN cmds' = 1..5
        /\ cmds'[1] = Cmd("efuse", Turn(n, 1)) /\ cmds'[2] = Cmd("radio", Turn(n, 2))
        /\ cmds'[3] = Cmd("edca", Turn(n, 3)) /\ cmds'[4] = Cmd("chan", Turn(n, 4))
        /\ cmds'[5] = Cmd("power", Turn(n, 5))
    BY <2>4, <2>5, JoinThree
  <2>7. \A i \in 1..5 : cmds'[i].seq = Turn(n, i)
    BY <2>6 DEF Cmd
  <2>8. \A i \in 1..5 : /\ cmds'[i].cmd = "efuse" => i = 1
                        /\ cmds'[i].cmd = "chan" => i = 4
    BY <2>6 DEF Cmd
  <2>9. \A i \in 1..5 : \A j \in 1..5 :
           cmds'[i].cmd = "efuse" /\ cmds'[j].cmd = "chan" => i < j
    <3> SUFFICES ASSUME NEW i \in 1..5, NEW j \in 1..5,
                        cmds'[i].cmd = "efuse", cmds'[j].cmd = "chan"
                 PROVE  i < j
      OBVIOUS
    <3>1. i = 1 /\ j = 4
      BY <2>8, Zenon
    <3> QED BY <3>1
  <2> QED BY <2>6, <2>7, <2>9 DEF InTurn, Turn
<1>5. CASE ~e
  <2>1. StartCmds(e) = << Cmd("radio", Turn(n, 1)), Cmd("edca", Turn(n, 2)) >>
    BY <1>5, TurnStep DEF StartCmds, Cmd
  <2>2. StartCmds(e) # <<>> /\ StartCmds(e)[Len(StartCmds(e))].seq = Turn(n, 2)
    BY <2>1 DEF Cmd
  <2>3. cmds' = StartCmds(e) \o << Cmd("chan", Turn(n, 3)), Cmd("power", Turn(n, 4)) >>
    BY <1>3, <2>2, TurnStep
  <2> DEFINE Sent == {Cmd("radio", Turn(n, 1)), Cmd("edca", Turn(n, 2)),
                      Cmd("chan", Turn(n, 3)), Cmd("power", Turn(n, 4))}
  <2>4. /\ Cmd("radio", Turn(n, 1)) \in Sent /\ Cmd("edca", Turn(n, 2)) \in Sent
        /\ Cmd("chan", Turn(n, 3)) \in Sent /\ Cmd("power", Turn(n, 4)) \in Sent
    OBVIOUS
  <2>5. cmds' = << Cmd("radio", Turn(n, 1)), Cmd("edca", Turn(n, 2)) >>
                \o << Cmd("chan", Turn(n, 3)), Cmd("power", Turn(n, 4)) >>
    BY <2>1, <2>3, Zenon
  <2> HIDE DEF Sent
  <2>6. /\ DOMAIN cmds' = 1..4
        /\ cmds'[1] = Cmd("radio", Turn(n, 1)) /\ cmds'[2] = Cmd("edca", Turn(n, 2))
        /\ cmds'[3] = Cmd("chan", Turn(n, 3)) /\ cmds'[4] = Cmd("power", Turn(n, 4))
    BY <2>4, <2>5, JoinTwo
  <2>7. \A i \in 1..4 : cmds'[i].seq = Turn(n, i)
    BY <2>6 DEF Cmd
  <2>8. \A i \in 1..4 : cmds'[i].cmd # "efuse"
    BY <2>6 DEF Cmd
  <2> QED BY <2>6, <2>7, <2>8 DEF InTurn, Turn
<1> QED BY <1>4, <1>5

(* The numbers of the MCU commands go round from 1 to 15 over all callbacks *)
(* and restarts, and start sends the calibration before it tunes.           *)
THEOREM CommandsInTurn == Spec => NumbersInTurn
<1>1. RadioInv /\ [Next]_vars => [InTurn]_vars
  <2> SUFFICES ASSUME RadioInv, Next PROVE InTurn
    OBVIOUS
  <2>1. cmd_seq \in 0..15
    BY DEF RadioInv, TypeOK
  <2>2. CASE Start
    BY <2>1, <2>2, StartInTurn
  <2>3. CASE Stop \/ StartNoMemory
    BY <2>3 DEF Stop, StartNoMemory, InTurn
  <2>4. CASE \E d \in ChanDefs, changed \in BOOLEAN : Config(d, changed)
    <3>1. PICK d \in ChanDefs :
             SetChannelExt(d.chan, IF d.width = 40 THEN 1 ELSE 0, CentralOf(d), reg, <<>>, 0)
      BY <2>4 DEF Config, SetChandef
    <3> QED BY <2>1, <3>1, SwitchInTurn
  <2>5. CASE \E d \in ChanDefs : BssTune(d.chan)
    <3>1. PICK d \in ChanDefs : SetChannelExt(d.chan, 0, d.chan, reg, <<>>, 0)
      BY <2>5 DEF BssTune, SetChannel
    <3> QED BY <2>1, <3>1, SwitchInTurn
  <2>6. CASE \/ AddMonitor \/ RemoveMonitor \/ AddAp \/ RemoveAp \/ BeaconOff \/ ConfigureFilter
             \/ \E i \in Intervals : BeaconOn(i)
    <3>1. cmds' = cmds
      BY <2>6 DEF AddMonitor, RemoveMonitor, AddAp, RemoveAp, BeaconOff, ConfigureFilter, BeaconOn, tune
    <3> QED BY <3>1 DEF InTurn
  <2> QED BY <2>2, <2>3, <2>4, <2>5, <2>6 DEF Next
<1> QED BY <1>1, RadioInvariant, PTL DEF Spec, NumbersInTurn, InTurn
===============================================================================
