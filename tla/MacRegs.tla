------------------------------- MODULE MacRegs -------------------------------
(***************************************************************************)
(* The register addresses and sequences of regmap.rs and mac.rs. A 32-bit   *)
(* word is the pair <<bits 31..16, bits 15..0>>, the form in which a USB    *)
(* vendor request carries an address (wValue, wIndex).                      *)
(***************************************************************************)
EXTENDS Integers, Sequences

Word(hi, lo) == <<hi, lo>>

Small(n) == <<n \div 65536, n % 65536>>

At(base_hi, off) == <<base_hi + (off \div 65536), off % 65536>>

(* MAC CR ranges: upper half of the global base (the lower is 0), start and *)
(* length of the HIF segment.                                               *)
MacCr(base, start, len) == [base |-> base, start |-> start, len |-> len]

MAC_CR_RANGES ==
    { MacCr(\h6000, \h20000, \h200),  MacCr(\h6010, \h21000, \h200),
      MacCr(\h6011, \h21200, \h200),  MacCr(\h6012, \h21400, \h200),
      MacCr(\h6013, \h21600, \h200),  MacCr(\h6014, \h21800, \h200),
      MacCr(\h6015, \h21a00, \h200),  MacCr(\h6016, \h21c00, \h200),
      MacCr(\h6017, \h21e00, \h200),  MacCr(\h6018, \h22000, \h1000),
      MacCr(\h6019, \h23000, \h200),  MacCr(\h601a, \h23200, \h200),
      MacCr(\h6030, \h24000, \h400),  MacCr(\h6031, \h24400, \h200),
      MacCr(\h6032, \h28000, \h4000), MacCr(\h6033, \h2c000, \h200),
      MacCr(\h6040, \h2d000, \h200) }

(* Mutant: only 128 bytes of a segment are told apart. *)
MacCrRangeMapNarrow(a) ==
    LET r == CHOOSE r \in MAC_CR_RANGES : r.start <= a /\ a < r.start + r.len
    IN  At(r.base, (a - r.start) % \h80)

(* The ranges are disjoint, so the order of the table does not matter.      *)
MacCrRangeMap(a) ==
    IF \E r \in MAC_CR_RANGES : r.start <= a /\ a < r.start + r.len
    THEN LET r == CHOOSE r \in MAC_CR_RANGES : r.start <= a /\ a < r.start + r.len
         IN  At(r.base, a - r.start)
    ELSE Small(a)

PhysicalAddrMap(a) ==
    CASE a < \h2000  -> At(\h8002, a)
      [] \h2000  <= a /\ a < \h4000  -> At(\h8000, a - \h2000)
      [] \h4000  <= a /\ a < \h8000  -> At(\h5000, a - \h4000)
      [] \h8000  <= a /\ a < \h10000 -> At(\ha000, a - \h8000)
      [] \h10000 <= a /\ a < \h20000 -> At(\h6020, a - \h10000)
      [] \h20000 <= a /\ a < \h40000 -> MacCrRangeMap(a)
      [] \h40000 <= a /\ a < \h80000 -> At(\ha500, a - \h40000)
      [] \hc0000 <= a /\ a < \hc0100 -> At(\h800c, a - \hc0000)
      [] OTHER -> Small(a)

-----------------------------------------------------------------------------
(* Register write sequences.                                                *)

Op(addr, hi, lo) == [addr |-> addr, val |-> Word(hi, lo)]

MT_TXTIME_THD_0 == \h4500
MT_PAGE_CNT_0 == \h4540
MT_SCH_REG_1 == \h4588
SCH_REG4 == \h4594
MT_GROUP_THD_0 == \h4598
MT_BMAP_0 == \h45b0
MT_BMAP_1 == \h45b4

(* The pages of the 0x288 a queue or a group may hold, which queues belong  *)
(* to which group, and, last, the scheduler itself.                         *)
DmaSchedulerPages ==
    << Op(\h8138, 0, \h4037),
       Op(\h45bc, \h5555, \h5555), Op(\h45c0, \h7855, \h5555),
       Op(\h4580, \h2b1a, \h096e), Op(\h4584, \h785f, \h4d3c), Op(\h45c4, \hffff, \hffff),
       Op(MT_SCH_REG_1, \h2000, \h288), Op(\h458c, 0, 14) >>
    \o [q \in 1..5 |-> Op(MT_PAGE_CNT_0 + 4 * (q - 1), 0, 14)]
    \o << Op(MT_PAGE_CNT_0 + 20, 0, 32), Op(MT_PAGE_CNT_0 + 28, 0, 14),
          Op(MT_PAGE_CNT_0 + 32, 0, 50), Op(\h45c8, 0, \h288),
          Op(MT_GROUP_THD_0, 0, \h25a), Op(MT_GROUP_THD_0 + 4, 0, 14),
          Op(MT_BMAP_0, \h0080, \hff5f),
          Op(MT_GROUP_THD_0 + 8, 0, 32), Op(MT_BMAP_1, 0, \h20) >>
    \o [q \in 1..16 |-> Op(MT_TXTIME_THD_0 + 4 * (q - 1), 15, \hffff)]

SchedulerOn == << Op(SCH_REG4, 0, \h40) >>

(* Mutant: the scheduler is switched on before its tables are written. *)
DmaSchedulerOnFirst == SchedulerOn \o DmaSchedulerPages

DmaScheduler == DmaSchedulerPages \o SchedulerOn

(* PSE client, TX and RX engines, arbiter, receive filter.                  *)
MacEngines ==
    << Op(\hc0068, 0, 7), Op(\hc0040, 0, 0), Op(\hc0044, 0, 1), Op(\hc0048, 0, 0),
       Op(\hc004c, 0, \h20), Op(\hc0050, 0, 0),
       Op(\h21600, 4, 1), Op(\h21608, \h30, \he7), Op(\h2160c, 0, 4), Op(\h21614, \h8000, 0),
       Op(\h21480, 0, 0), Op(\h21500, \hffff, \hffff), Op(\h21470, 0, 15),
       Op(\h21878, \h4000, 0), Op(\h21898, \h0e01, \h9000), Op(\h21800, 0, 2),
       Op(\h218a4, 0, 0), Op(\h21880, \hf0, 0) >>

(* Aggregation, DMA routing, RX groups.                                     *)
MacRouting ==
    << Op(\h21248, 0, \h40), Op(\h2124c, \h2a15, \h1410), Op(\h21250, 0, \h10),
       Op(\h21254, \h1515, \h1515), Op(\h21c70, \hc021, 0), Op(\h21c7c, 0, \h2000),
       Op(\h21c04, 0, \h3800), Op(\h23008, \h80, 0), Op(\hc0068, 0, 7) >>

(* build_mac_init_sequence. USB_DMA_CFG (0x24000) comes first.              *)
MacInitSequence ==
    << Op(\h24000, \h18, 0) >> \o DmaScheduler \o MacEngines \o MacRouting

BuildMacInitSequence(max_ops) ==
    IF max_ops < Len(MacInitSequence) THEN [err |-> -28, ops |-> <<>>]
    ELSE [err |-> 0, ops |-> MacInitSequence]

(* build_own_mac_sequence; the address is a tuple of six bytes.             *)
OwnMacSequence(mac) ==
    << Op(\h21824, mac[3] + 256 * mac[4], mac[1] + 256 * mac[2]),
       Op(\h21828, 1, mac[5] + 256 * mac[6]) >>
=============================================================================
