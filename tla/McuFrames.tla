------------------------------ MODULE McuFrames ------------------------------
(***************************************************************************)
(* The MCU command frames of mcu.rs: every builder puts an FW_TXD header    *)
(* before a payload. A frame is kept as the record of its header fields and *)
(* the part of the payload the firmware acts on. A builder that finds the   *)
(* caller's buffer too small returns -28 and writes nothing.                *)
(***************************************************************************)
EXTENDS Integers, Sequences

FW_TXD_HDR_SIZE == 12        \* while the ROM or the downloader listens
FW_TXD_FULL_SIZE == 32       \* once the firmware runs
FW_SCATTER_MAX_PAYLOAD == 4096 - FW_TXD_FULL_SIZE

U16(n) == n % 65536          \* as u16

CMD_QUERY == 0
CMD_SET == 1
CMD_NA == 3

(* need_ack is asked for only by extended commands that carry a number.     *)
BuildFwTxdFrame(cid, set_query, ext_cid, seq, need_rsp, hdr_size, len, body, out_len) ==
    IF out_len < len + hdr_size THEN [err |-> -28]
    ELSE [err |-> 0,
          cmd |-> [cid |-> cid, ext |-> ext_cid, seq |-> seq, hdr |-> hdr_size,
                   len |-> U16(len + hdr_size),
                   need_ack |-> /\ cid = "EXT" /\ set_query \in {CMD_SET, CMD_QUERY}
                                /\ need_rsp /\ seq # 0,
                   body |-> body]]

(* The FFI entries around the builders: an error leaves *out_written as it  *)
(* was. The download entries, and the run-time ones.                        *)
RustDownloadFrame(result, out_written) ==
    [ret |-> result.err, written |-> IF result.err = 0 THEN result.cmd.len ELSE out_written]

RustCommandFrame(result, out_written) ==
    [ret |-> result.err, written |-> IF result.err = 0 THEN result.cmd.len ELSE out_written]

-----------------------------------------------------------------------------
(* Download phase.                                                          *)

BuildAddrLenReq(address, dl_len, seq, out_len) ==
    BuildFwTxdFrame("ADDRESS_LEN", CMD_NA, "NA", seq, TRUE, FW_TXD_HDR_SIZE, 12,
                    [address |-> address, dl_len |-> dl_len], out_len)

BuildFwStartReq(override, address, seq, out_len) ==
    BuildFwTxdFrame("FW_START", CMD_NA, "NA", seq, TRUE, FW_TXD_HDR_SIZE, 8,
                    [override |-> override, address |-> address], out_len)

(* Sent to the running firmware, yet with the short header.                 *)
BuildRestartDlReq(seq, out_len) ==
    BuildFwTxdFrame("RESTART_DL", CMD_NA, "NA", seq, TRUE, FW_TXD_HDR_SIZE, 0, <<>>, out_len)

(* Mutant: a full payload is refused. *)
BuildFwScatterFrameBelow(chunk_len, out_len) ==
    IF chunk_len >= FW_SCATTER_MAX_PAYLOAD THEN [err |-> -22]
    ELSE BuildFwTxdFrame("FW_SCATTER", CMD_NA, "NA", 0, FALSE, FW_TXD_HDR_SIZE, chunk_len,
                         <<>>, out_len)

BuildFwScatterFrame(chunk_len, out_len) ==
    IF chunk_len > FW_SCATTER_MAX_PAYLOAD THEN [err |-> -22]
    ELSE BuildFwTxdFrame("FW_SCATTER", CMD_NA, "NA", 0, FALSE, FW_TXD_HDR_SIZE, chunk_len,
                         <<>>, out_len)

-----------------------------------------------------------------------------
(* Run time.                                                                *)

ExtSet(ext_cid, seq, len, body, out_len) ==
    BuildFwTxdFrame("EXT", CMD_SET, ext_cid, seq, TRUE, FW_TXD_FULL_SIZE, len, body, out_len)

BuildChannelSwitchCmd(ctrl_ch, central_ch, bw, seq, out_len) ==
    ExtSet("CHANNEL_SWITCH", seq, 36,
           [ch |-> ctrl_ch, central |-> central_ch, bw |-> bw], out_len)

(* The EEPROM byte that goes to each byte of the payload after the channel. *)
PowerSource ==
    [k \in 1..42 |->
        CASE k = 1          -> 55                   \* ucTSSIEnable
          [] k = 2          -> 54                   \* ucTempCompEnable
          [] k = 3          -> 88                   \* aucTargetPower
          [] k = 4          -> 94
          [] k \in 5..18    -> 160 + (k - 5)        \* aucRatePowerDelta
          [] k = 19         -> 80                   \* ucBWPowerDelta
          [] k \in 20..22   -> 89 + (k - 20)        \* aucCHPowerDelta
          [] k \in 23..25   -> 95 + (k - 23)
          [] k \in 26..42   -> 198 + (k - 26)]      \* aucTempCompPower

(* eeprom is the image, a function of the byte address; what it does not    *)
(* cover reads as 0xff.                                                     *)
BuildTxPowerCtrlCmd(eeprom, central_ch, seq, out_len) ==
    ExtSet("TX_POWER_CTRL", seq, 44,
           [ch |-> central_ch,
            bytes |-> [k \in DOMAIN PowerSource |->
                          IF PowerSource[k] \in DOMAIN eeprom
                          THEN eeprom[PowerSource[k]] ELSE 255]],
           out_len)

(* ucSourceMode 0: the firmware reads its eFuse itself.                     *)
BuildEfuseBufferModeCmd(seq, out_len) ==
    ExtSet("EFUSE_BUFFER_MODE", seq, 4 + 240 * 4, [source |-> 0, count |-> 0], out_len)

BuildRadioOnOffCmd(on, seq, out_len) ==
    ExtSet("RADIO_ON_OFF", seq, 4, [ctrl |-> IF on THEN 1 ELSE 2], out_len)

(* WMM access categories are numbered BE, BK, VI, VO.                       *)
WMM_EDCA_AIFSN == <<3, 7, 2, 2>>
WMM_EDCA_CWMIN == <<4, 4, 3, 2>>
WMM_EDCA_CWMAX == <<10, 10, 4, 3>>
WMM_EDCA_TXOP  == <<0, 0, 96, 47>>

(* Mutant: the table is in WMM order. *)
AciUnmapped == <<0, 1, 2, 3>>

WMM_ACI_TO_HW_QUEUE == <<1, 0, 2, 3>>

(* 1 << n.                                                                  *)
PowersOfTwo == <<1, 2, 4, 8, 16, 32, 64, 128, 256, 512, 1024, 2048, 4096, 8192, 16384, 32768>>
Shl1(n) == PowersOfTwo[n + 1]

(* rAcParam, by hardware queue.                                             *)
EdcaParams ==
    [q \in 0..3 |->
        LET ac == CHOOSE a \in 1..4 : WMM_ACI_TO_HW_QUEUE[a] = q
        IN  [ac_num  |-> ac - 1,
             aifs    |-> WMM_EDCA_AIFSN[ac],
             win_min |-> Shl1(WMM_EDCA_CWMIN[ac]) - 1,
             win_max |-> Shl1(WMM_EDCA_CWMAX[ac]) - 1,
             txop    |-> WMM_EDCA_TXOP[ac]]]

BuildEdcaSetCmd(seq, out_len) == ExtSet("EDCA_SET", seq, 4 + 4 * 8, EdcaParams, out_len)
=============================================================================
