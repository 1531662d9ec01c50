------------------------------- MODULE BringUp -------------------------------
(***************************************************************************)
(* From an unprogrammed chip to a configured radio: the frames of the       *)
(* download, MAC initialisation, eFuse, registration, start, and channel    *)
(* changes, composed of the builders of McuFrames and the registers of      *)
(* MacRegs. What interleaves during the download and during start is in     *)
(* FirmwareDownload and DeviceLifecycle; the WTBL entry start writes is in  *)
(* StationTable. Here it matters what the chip ends up with.                *)
(*                                                                          *)
(* Any transfer after the download may fail; almost every result of one is  *)
(* ignored by the code.                                                     *)
(***************************************************************************)
EXTENDS McuFrames, MacRegs, FiniteSetsExt, Functions

CONSTANTS DlLens,     \* download lengths of firmware images
          Fuses,      \* contents the eFuse of a chip may have
          NumBlocks,  \* bound: 16-byte blocks of the EEPROM image (64 in the code)
          MaxFaults   \* bound on transfers that fail

Image == 0..(16 * NumBlocks - 1)

FallbackMac == <<0, 12, 67, 118, 3, 1>>
Zeros == <<0, 0, 0, 0, 0, 0>>
Ones == <<255, 255, 255, 255, 255, 255>>

(* empty: MT_EFUSE_BASE_CTRL_EMPTY; valid: the blocks with content.         *)
ASSUME FusesAssumption ==
    /\ NumBlocks \in 14..64  \* the last byte a command uses is 0xd6
    /\ DlLens \subseteq Nat \ {0} /\ MaxFaults \in Nat
    /\ \A f \in Fuses : /\ f.empty \in BOOLEAN /\ f.valid \subseteq 0..(NumBlocks - 1)
                        /\ f.empty => f.valid = {}
                        /\ f.mac \in [1..6 -> 0..255] /\ f.rssi \in -128..127

VARIABLES
    pc,        \* "download", "scatter", "failed", "mac_init", "efuse", "parse",
               \* "idle" (registered) or "up"
    dl,        \* dl_len, offset and cmd_seq of mt7603_download_firmware
    rom,       \* external: the bytes announced to the ROM and not yet sent,
               \* and whether it was told to enter the image
    fuse,      \* external: the eFuse
    block,     \* the block to be read next
    eeprom,    \* dev->eeprom
    eeprom_valid,
    mac_addr,
    rssi_offset_2g,
    cmd_seq,
    reg,       \* external: the chip's registers, by physical address
    fw,        \* external: what the firmware has been told
    done,      \* the sequences whose last execution was not cut short
    faults

vars == <<pc, dl, rom, fuse, block, eeprom, eeprom_valid, mac_addr, rssi_offset_2g, cmd_seq,
          reg, fw, done, faults>>

DMA_TCFR1 == Op(\h21c84, 1, 256)
RMAC_CHFREQ == Op(\h21890, 0, 1)

UsedRegs ==
    {PhysicalAddrMap(op.addr) :
        op \in Range(MacInitSequence) \cup Range(OwnMacSequence(FallbackMac))
              \cup {DMA_TCFR1, RMAC_CHFREQ}}

NoDl == [len |-> 0, offset |-> 0, seq |-> 0]

NoFw == [got |-> {}, tuned_uncalibrated |-> FALSE, lost |-> FALSE, edca |-> <<>>, power |-> <<>>]

Init ==
    /\ pc = "download" /\ dl = NoDl /\ rom = [missing |-> 0, entered |-> FALSE]
    /\ fuse \in Fuses /\ block = 0
    /\ eeprom = [a \in Image |-> 255] /\ eeprom_valid = FALSE
    /\ mac_addr = Zeros /\ rssi_offset_2g = 0 /\ cmd_seq = 0
    /\ reg = [p \in UsedRegs |-> Word(0, 0)]
    /\ fw = NoFw /\ done = {} /\ faults = 0

Fail(n) == faults' = faults + n /\ faults' <= MaxFaults

One(b) == IF b THEN 1 ELSE 0

(* mt7603_execute_reg_ops: it stops at the first failure, after n writes. A *)
(* register keeps the last value written to it.                             *)
Execute(r, ops, n) ==
    LET at == [i \in 1..n |-> PhysicalAddrMap(ops[i].addr)]
    IN  [p \in DOMAIN r |->
            LET hits == {i \in 1..n : at[i] = p}
            IN  IF hits = {} THEN r[p] ELSE ops[Max(hits)].val]

-----------------------------------------------------------------------------
(* mt7603_download_firmware: its frames. A frame the builder refuses ends   *)
(* the probe, except the restart, which is then not sent.                   *)

DlBuf == FW_SCATTER_MAX_PAYLOAD + 32
MT7603_FW_CODE_START_ADDRESS1 == \h100000

(* External: the ROM takes a frame with the short header, and the bytes its *)
(* length field covers.                                                     *)
RomTake(r, c) ==
    IF c.hdr # FW_TXD_HDR_SIZE THEN r
    ELSE CASE c.cid = "ADDRESS_LEN" -> [r EXCEPT !.missing = c.body.dl_len]
           [] c.cid = "FW_SCATTER"  -> [r EXCEPT !.missing = @ - (c.len - c.hdr)]
           [] c.cid = "FW_START"    -> [r EXCEPT !.entered =
                                                 (c.body.address = MT7603_FW_CODE_START_ADDRESS1)]
           [] OTHER -> r

(* A frame that was built is sent; on the result of the builder depends     *)
(* what comes next.                                                         *)
DownloadFrame(r, frame, next) ==
    LET refused == RustDownloadFrame(frame, 0).ret # 0
    IN  /\ rom' = IF refused THEN r ELSE RomTake(r, frame.cmd)
        /\ pc' = IF refused THEN "failed" ELSE next

(* The address/length request. was_running: firmware of an earlier probe is *)
(* asked to restart first.                                                  *)
DownloadBegin ==
    /\ pc = "download"
    /\ \E dl_len \in DlLens, was_running \in BOOLEAN :
          LET restart == BuildRestartDlReq(1, DlBuf)
              s == IF was_running THEN 2 ELSE 1
          IN  /\ DownloadFrame(IF was_running /\ restart.err = 0 THEN RomTake(rom, restart.cmd)
                               ELSE rom,
                               BuildAddrLenReq(MT7603_FW_CODE_START_ADDRESS1, dl_len, s, DlBuf),
                               "scatter")
              /\ dl' = [len |-> dl_len, offset |-> 0, seq |-> s]
    /\ UNCHANGED <<fuse, block, eeprom, eeprom_valid, mac_addr, rssi_offset_2g, cmd_seq, reg,
                   fw, done, faults>>

(* One round of the scatter loop: a whole payload, or what is left.         *)
DownloadScatter ==
    /\ pc = "scatter" /\ dl.offset < dl.len
    /\ LET left      == dl.len - dl.offset
           chunk_len == IF left > FW_SCATTER_MAX_PAYLOAD THEN FW_SCATTER_MAX_PAYLOAD ELSE left
       IN  /\ DownloadFrame(rom, BuildFwScatterFrame(chunk_len, DlBuf), "scatter")
           /\ dl' = [dl EXCEPT !.offset = @ + chunk_len]
    /\ UNCHANGED <<fuse, block, eeprom, eeprom_valid, mac_addr, rssi_offset_2g, cmd_seq, reg,
                   fw, done, faults>>

DownloadStart ==
    /\ pc = "scatter" /\ dl.offset >= dl.len
    /\ DownloadFrame(rom, BuildFwStartReq(1, MT7603_FW_CODE_START_ADDRESS1, dl.seq + 1, DlBuf),
                     "mac_init")
    /\ dl' = NoDl
    /\ UNCHANGED <<fuse, block, eeprom, eeprom_valid, mac_addr, rssi_offset_2g, cmd_seq, reg,
                   fw, done, faults>>

-----------------------------------------------------------------------------
(* probe, after the download: a failure is only a notice.                   *)

ProbeMacInit ==
    /\ pc = "mac_init"
    /\ LET seq == BuildMacInitSequence(128)
       IN  \E n \in 0..Len(seq.ops) :
              /\ reg' = Execute(reg, seq.ops, n)
              /\ done' = {x \in {"init"} : n = Len(seq.ops)}
              /\ Fail(One(n < Len(seq.ops)))
    /\ pc' = "efuse"
    /\ UNCHANGED <<dl, rom, fuse, block, eeprom, eeprom_valid, mac_addr, rssi_offset_2g, cmd_seq,
                   fw>>

(* External: the byte the eFuse holds at address a. A byte the driver does  *)
(* not interpret is the tag 1000 + a.                                       *)
FuseByte(a) ==
    CASE a \in 4..9 -> fuse.mac[a - 3]
      [] a = 70     -> fuse.rssi % 256
      [] OTHER      -> 1000 + a

(* Mutant: a block without content is not erased, and the data words still *)
(* hold the block before. *)
BlockBytesStale(b, words) ==
    [a \in Image |-> IF a \div 16 = b /\ a % 16 < 4 * words
                     THEN IF b \in fuse.valid THEN FuseByte(a)
                          ELSE IF b = 0 THEN 255 ELSE FuseByte(a - 16)
                     ELSE eeprom[a]]

(* mt7603_efuse_read_block, after it got words of the four data words.      *)
BlockBytes(b, words) ==
    [a \in Image |-> IF a \div 16 = b /\ a % 16 < 4 * words
                     THEN IF b \in fuse.valid THEN FuseByte(a) ELSE 255
                     ELSE eeprom[a]]

(* mt7603_efuse_read_all: the bank is empty, or one access of it fails or   *)
(* times out, or the next block is read.                                    *)
ReadEfuse ==
    /\ pc = "efuse"
    /\ \/ /\ block = 0 /\ fuse.empty
          /\ pc' = "parse"
          /\ UNCHANGED <<block, eeprom, eeprom_valid, faults>>
       \/ \E words \in 0..3 :
          /\ words > 0 => block \in fuse.valid
          /\ eeprom' = BlockBytes(block, words)
          /\ Fail(1) /\ pc' = "parse"
          /\ UNCHANGED <<block, eeprom_valid>>
       \/ /\ ~fuse.empty
          /\ eeprom' = BlockBytes(block, 4)
          /\ block' = block + 1
          /\ eeprom_valid' = (block' = NumBlocks)
          /\ pc' = (IF block' = NumBlocks THEN "parse" ELSE "efuse")
          /\ UNCHANGED faults
    /\ UNCHANGED <<dl, rom, fuse, mac_addr, rssi_offset_2g, cmd_seq, reg, fw, done>>

Signed8(b) == IF b < 128 THEN b ELSE b - 256

(* Mutant: the address is taken as it is. *)
ParseEepromAnyMac(image) ==
    [mac_addr |-> [k \in 1..6 |-> image[k + 3]], rssi_offset_2g |-> 0]

(* Mutant: the offset is not limited. *)
ParseEepromAnyRssi(image) ==
    [mac_addr |-> FallbackMac, rssi_offset_2g |-> Signed8(image[70])]

(* parse_eeprom; tx_power_2g is filled in and never used.                   *)
ParseEeprom(image) ==
    LET mac  == [k \in 1..6 |-> image[k + 3]]
        rssi == Signed8(image[70])
    IN  [mac_addr |-> IF mac \in {Zeros, Ones} THEN FallbackMac ELSE mac,
         rssi_offset_2g |-> IF rssi \in -10..10 THEN rssi ELSE 0]

(* mt7603_register_mac80211: the image, or one with the fallback address.   *)
Register ==
    /\ pc = "parse"
    /\ LET dummy == [a \in Image |-> IF a \in 4..9 THEN FallbackMac[a - 3] ELSE 255]
           data  == ParseEeprom(IF eeprom_valid THEN eeprom ELSE dummy)
       IN  /\ mac_addr' = data.mac_addr
           /\ rssi_offset_2g' = IF eeprom_valid THEN data.rssi_offset_2g ELSE 0
    /\ pc' = "idle"
    /\ UNCHANGED <<dl, rom, fuse, block, eeprom, eeprom_valid, cmd_seq, reg, fw, done, faults>>

-----------------------------------------------------------------------------
(* start.                                                                   *)

NextSeq(s) == (s % 15) + 1

CmdBuf == 1024 + 64   \* cmd_buf of start

(* Mutant: room for the payload of the larger command, and too little for its header. *)
ChanBufSmall == 44 + 28

ChanBuf == 128        \* cmd_buf of set_channel_ext

(* mt7603_set_channel_ext(channel, 0, channel) from number s on.            *)
ChannelCmds(channel, s) ==
    << BuildChannelSwitchCmd(channel, channel, 0, NextSeq(s), ChanBuf),
       BuildTxPowerCtrlCmd(eeprom, channel, NextSeq(NextSeq(s)), ChanBuf) >>

(* Mutant: the channel is set before the calibration is sent. *)
StartCmdsTuneFirst(s) ==
    ChannelCmds(1, s) \o << BuildRadioOnOffCmd(TRUE, s, CmdBuf), BuildEdcaSetCmd(s, CmdBuf) >>
    \o (IF eeprom_valid THEN << BuildEfuseBufferModeCmd(s, CmdBuf) >> ELSE <<>>)

(* What start builds, in order; s is the number it takes first.             *)
StartCmds(s) ==
    LET r == IF eeprom_valid THEN NextSeq(s) ELSE s
    IN  (IF eeprom_valid THEN << BuildEfuseBufferModeCmd(s, CmdBuf) >> ELSE <<>>)
        \o << BuildRadioOnOffCmd(TRUE, r, CmdBuf), BuildEdcaSetCmd(NextSeq(r), CmdBuf) >>
        \o ChannelCmds(1, NextSeq(r))

(* External: the firmware takes a command with the header of its stage.     *)
Take(f, c) ==
    IF c.hdr # FW_TXD_FULL_SIZE THEN f
    ELSE [f EXCEPT !.got = @ \cup {c.ext},
                   !.tuned_uncalibrated =
                       @ \/ (c.ext = "CHANNEL_SWITCH" /\ "EFUSE_BUFFER_MODE" \notin f.got),
                   !.edca  = IF c.ext = "EDCA_SET" THEN c.body ELSE @,
                   !.power = IF c.ext = "TX_POWER_CTRL" THEN c.body.bytes ELSE @]

(* The command at position k, if there is one. One that was not built is    *)
(* skipped; the one at position drop is lost.                               *)
Send(f, cmds, k, drop) ==
    IF k > Len(cmds) \/ RustCommandFrame(cmds[k], 0).written = 0 THEN f
    ELSE IF k = drop THEN [f EXCEPT !.lost = TRUE]
    ELSE Take(f, cmds[k].cmd)

(* No callback sends more than five.                                        *)
SendAll(f, cmds, drop) ==
    LET f1 == Send(f, cmds, 1, drop)
        f2 == Send(f1, cmds, 2, drop)
        f3 == Send(f2, cmds, 3, drop)
        f4 == Send(f3, cmds, 4, drop)
    IN  Send(f4, cmds, 5, drop)

(* The register sequences stop after n and m writes, tcfr and freq say      *)
(* whether the single writes worked, and command drop is lost.              *)
Start ==
    /\ pc = "idle"
    /\ LET s    == NextSeq(cmd_seq)
           cmds == StartCmds(s)
           own  == OwnMacSequence(mac_addr)
           init == BuildMacInitSequence(128).ops
       IN  \E n \in 0..Len(init), m \in 0..Len(own), tcfr, freq \in BOOLEAN,
              drop \in 0..Len(cmds) :
              /\ Fail(One(n < Len(init)) + One(m < Len(own)) + One(~tcfr) + One(~freq)
                      + One(drop > 0))
              /\ reg' = Execute(Execute(Execute(Execute(reg, init, n), own, m),
                                        <<DMA_TCFR1>>, IF tcfr THEN 1 ELSE 0),
                                <<RMAC_CHFREQ>>, IF freq THEN 1 ELSE 0)
              /\ done' = {x \in {"init", "own"} : \/ x = "init" /\ n = Len(init)
                                                  \/ x = "own" /\ m = Len(own)}
              /\ fw' = SendAll(fw, cmds, drop)
              /\ cmd_seq' = NextSeq(NextSeq(NextSeq(IF eeprom_valid THEN NextSeq(s) ELSE s)))
    /\ pc' = "up"
    /\ UNCHANGED <<dl, rom, fuse, block, eeprom, eeprom_valid, mac_addr, rssi_offset_2g>>

(* No memory for the buffer: a number is spent, and that is all.            *)
StartNoMemory ==
    /\ pc = "idle" /\ Fail(1)
    /\ cmd_seq' = NextSeq(cmd_seq)
    /\ UNCHANGED <<pc, dl, rom, fuse, block, eeprom, eeprom_valid, mac_addr, rssi_offset_2g, reg,
                   fw, done>>

(* config(): another channel.                                               *)
Tune ==
    /\ pc = "up"
    /\ \E drop \in 0..2, freq \in BOOLEAN :
          /\ Fail(One(drop > 0) + One(~freq))
          /\ fw' = SendAll(fw, ChannelCmds(6, cmd_seq), drop)
          /\ reg' = Execute(reg, <<RMAC_CHFREQ>>, IF freq THEN 1 ELSE 0)
    /\ cmd_seq' = NextSeq(NextSeq(cmd_seq))
    /\ UNCHANGED <<pc, dl, rom, fuse, block, eeprom, eeprom_valid, mac_addr, rssi_offset_2g, done>>

(* No command tells the firmware.                                           *)
Stop ==
    /\ pc = "up" /\ pc' = "idle"
    /\ UNCHANGED <<dl, rom, fuse, block, eeprom, eeprom_valid, mac_addr, rssi_offset_2g, cmd_seq,
                   reg, fw, done, faults>>

Next ==
    \/ DownloadBegin \/ DownloadScatter \/ DownloadStart \/ ProbeMacInit \/ ReadEfuse \/ Register
    \/ Start \/ StartNoMemory \/ Tune \/ Stop

Spec == Init /\ [][Next]_vars

-----------------------------------------------------------------------------
(* Properties.                                                              *)

(* The device's fields hold values of their types: in particular the RSSI   *)
(* offset is within the limits parse_eeprom enforces, whatever the eFuse    *)
(* says, and a command number fits the four bits the driver cycles through. *)
TypeOK ==
    /\ pc \in {"download", "scatter", "failed", "mac_init", "efuse", "parse", "idle", "up"}
    /\ fuse \in Fuses /\ block \in 0..NumBlocks /\ eeprom_valid \in BOOLEAN
    /\ DOMAIN eeprom = Image /\ \A a \in Image : eeprom[a] \in Nat
    /\ mac_addr \in [1..6 -> 0..255] /\ rssi_offset_2g \in -10..10
    /\ cmd_seq \in 0..15 /\ done \subseteq {"init", "own"} /\ faults \in 0..MaxFaults
    /\ DOMAIN reg = UsedRegs

(* mt7603_download_firmware: no frame is refused for want of room, and when *)
(* the ROM is told to enter the image it has been sent exactly the bytes    *)
(* that the address/length request announced, also when the last chunk is   *)
(* full.                                                                    *)
ImageAnnouncedIsSent ==
    /\ pc # "failed"
    /\ rom.entered => rom.missing = 0
    /\ pc \notin {"download", "scatter"} => rom.entered

(* What byte a of the eFuse reads as when no access fails.                  *)
FuseImage(a) == IF (a \div 16) \in fuse.valid THEN FuseByte(a) ELSE 255

(* A registered interface has an address that can be used on the air, and   *)
(* it is the eFuse's own whenever the whole image was read and holds one;   *)
(* so is the RSSI offset (mt7603_register_mac80211, parse_eeprom).          *)
MacUsable ==
    pc \in {"idle", "up"} =>
        /\ rssi_offset_2g =
              IF eeprom_valid /\ Signed8(FuseImage(70)) \in -10..10
              THEN Signed8(FuseImage(70)) ELSE 0
        /\ mac_addr \notin {Zeros, Ones}
        /\ LET own == [k \in 1..6 |-> FuseImage(k + 3)]
           IN  mac_addr = IF eeprom_valid /\ own \notin {Zeros, Ones} THEN own ELSE FallbackMac

(* The power the firmware was last given comes from the eFuse bytes of the  *)
(* right addresses; a read that failed half way only leaves bytes at 0xff,  *)
(* never bytes of another block (mt7603_efuse_read_all up to                *)
(* build_tx_power_ctrl_cmd).                                                *)
PowerFromFuse ==
    fw.power # <<>> =>
        \A k \in DOMAIN PowerSource :
            LET a == PowerSource[k]
            IN  \/ fw.power[k] = FuseImage(a)
                \/ ~eeprom_valid /\ fw.power[k] = 255

(* "Must be sent before any channel switch so the BBP uses calibrated RX    *)
(* gain" (mac80211_start): over any sequence of starts, channel changes and *)
(* stops the firmware tunes without calibration only if there is none or a  *)
(* command was lost.                                                        *)
CalibratedFirst == fw.tuned_uncalibrated => ~eeprom_valid \/ fw.lost

(* mac80211_start sends only what was built. Once the interface is up and   *)
(* nothing was lost, the firmware has every command: each one fits the      *)
(* buffer start and set_channel_ext give it.                                *)
FirmwareConfigured ==
    pc = "up" /\ ~fw.lost =>
        {"RADIO_ON_OFF", "EDCA_SET", "CHANNEL_SWITCH", "TX_POWER_CTRL"}
        \cup {x \in {"EFUSE_BUFFER_MODE"} : eeprom_valid} \subseteq fw.got

RegAt(addr) == reg[PhysicalAddrMap(addr)]

Bits(w) == {b \in 0..15 : (w \div Shl1(b)) % 2 = 1}

(* Whenever the DMA scheduler is switched on (SCH_REG4), however often the  *)
(* sequences before were cut short: the group thresholds share out the      *)
(* pages of MT_SCH_REG_1, every queue belongs to exactly one group, and the *)
(* pages reserved for the queues of a group fit its threshold.              *)
SchedulerPartitioned ==
    LET group == << Bits(RegAt(MT_BMAP_0)[2]), Bits(RegAt(MT_BMAP_0)[1]),
                    Bits(RegAt(MT_BMAP_1)[2]) >>
        thd   == [g \in 1..3 |-> RegAt(MT_GROUP_THD_0 + 4 * (g - 1))[2]]
        page(g, q) == IF q \in group[g] THEN RegAt(MT_PAGE_CNT_0 + 4 * q)[2] ELSE 0
    IN  6 \in Bits(RegAt(SCH_REG4)[2]) =>
            /\ thd[1] + thd[2] + thd[3] = RegAt(MT_SCH_REG_1)[2]
            /\ group[1] \cup group[2] \cup group[3] = 0..15
            /\ \A g, h \in 1..3 : g # h => group[g] \cap group[h] = {}
            /\ \A g \in 1..3 :
                  page(g, 0) + page(g, 1) + page(g, 2) + page(g, 3) + page(g, 4)
                  + page(g, 5) + page(g, 7) + page(g, 8) <= thd[g]

(* mt7603_execute_reg_ops through physical_addr_map: a sequence that was    *)
(* not cut short is in force, so no later write of it, of the other one or  *)
(* of a channel change lands on one of its registers.                       *)
SequencesInForce ==
    \A x \in done :
        LET ops == IF x = "init" THEN MacInitSequence ELSE OwnMacSequence(mac_addr)
        IN  \A i \in DOMAIN ops :
                (\A j \in (i + 1)..Len(ops) : ops[j].addr # ops[i].addr) =>
                    RegAt(ops[i].addr) = ops[i].val

(* build_edca_set_cmd: the table is indexed by hardware queue, not by WMM   *)
(* number, so in the table the firmware has, a higher queue never waits     *)
(* longer than a lower one and the four categories are all there.           *)
EdcaInPriorityOrder ==
    fw.edca # <<>> =>
        /\ {fw.edca[q].ac_num : q \in 0..3} = 0..3
        /\ \A q \in 0..2 :
              fw.edca[q + 1].aifs + fw.edca[q + 1].win_min < fw.edca[q].aifs + fw.edca[q].win_min

(* What the driver takes from the eFuse is this chip's or the fallback,     *)
(* never a mixture of blocks, over a read that fails anywhere.              *)
EfuseUsedRight == MacUsable /\ PowerFromFuse

(* Over failed, lost and repeated commands: calibration first, nothing left *)
(* out for want of room, and the queues in priority order.                  *)
FirmwarePrepared == CalibratedFirst /\ FirmwareConfigured /\ EdcaInPriorityOrder

(* Over sequences that are cut short and run again: the scheduler never     *)
(* runs on half a table, and no write undoes another sequence.              *)
RegistersConsistent == TypeOK /\ SchedulerPartitioned /\ SequencesInForce
=============================================================================
