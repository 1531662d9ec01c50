-------------------------- MODULE FirmwareDownload --------------------------
(***************************************************************************)
(* mt7603u_probe and mt7603_download_firmware: the image is handed to the  *)
(* ROM of the chip in a sequence of commands, over URBs whose completion   *)
(* handlers run concurrently with the downloading thread.                  *)
(*                                                                         *)
(* Actors: the probing thread (pc), the completion handlers of the         *)
(* response URBs (one URB per command that waits for an answer), and the   *)
(* chip. The chip and the USB core are outside src/ and are modelled from  *)
(* how the code uses them: what a command does to the ROM, what TOP_MISC2  *)
(* shows, that a transfer reported as failed may or may not have arrived.  *)
(*                                                                         *)
(* A probe can follow another one on the same powered chip (module reload  *)
(* or a failed probe), so chip and SCH_REG4 state outlive a probe.         *)
(***************************************************************************)
EXTENDS Integers, Sequences

CONSTANTS FwSize,      \* fw->size
          MaxPayload,  \* MT7603_FW_SCATTER_MAX_PAYLOAD
          WordSize,    \* 2^32, the range of the u32 dl_len
          PollMax,     \* MT7603_ROM_READY_POLL_MAX
          Tails,       \* values the last word of a firmware file may have
          GoodTail,    \* the one that matches an image the ROM accepts
          GateValues   \* what the uninitialised rsp.gate may hold

ASSUME FwSizeAssumption == FwSize \in Nat
ASSUME MaxPayloadAssumption == MaxPayload \in Nat \ {0}
ASSUME WordSizeAssumption == WordSize \in Nat \ {0}
ASSUME PollMaxAssumption == PollMax \in Nat \ {0}
ASSUME TailsAssumption == Tails \subseteq 0..(WordSize - 1) /\ GoodTail \in Tails
ASSUME GateAssumption == GateValues \subseteq {"null", "stale"}

VARIABLES
    pc,          \* statement of the probing thread
    ret,         \* ret = 0 ("ok") or negative ("err")
    tail,        \* last word of the firmware file
    offset,      \* upload offset
    polls,       \* iterations done by the current mt7603_poll_top_misc2
    gate,        \* rsp.gate in the stack frame of mt7603_download_firmware
    urb,         \* urb[u]: a response URB and its handler
    done,        \* rsp.done
    gateFired,   \* the gate of mt7603_restart_dl_rsp
    bypass, pse, \* SCH_REG4: bypass mode with forced QID, PSE reset bit
    regErr,      \* an access to SCH_REG4 failed
    mode,        \* chip: "boot", "rom" (ROM ready), "ram" (firmware running)
    image,       \* chip: firmware of an earlier probe ("old") or of this one
    target,      \* chip: length announced by CmdAddressLenReq, or NoTarget
    stream,      \* chip: scatter chunks received since then
    restartReq,  \* chip: CmdRestartDLReq received, not acted on yet
    startReq,    \* chip: CmdFwStartReq received by the ROM
    addrTo,      \* mode of the chip when it got this probe's CmdAddressLenReq
    fault        \* undefined behaviour met by a completion handler

driver == <<ret, tail, offset, polls, gate>>
rsp    == <<urb, done, gateFired>>
sch    == <<bypass, pse, regErr>>
rom    == <<target, stream, startReq>>
chip   == <<mode, image, rom, restartReq>>
vars   == <<pc, driver, rsp, sch, chip, addrTo, fault>>

NoTarget == -1

RestartUrbs == {"restart84", "restart85"}
RspUrbs     == {"addr", "start"}
Urbs        == RestartUrbs \cup RspUrbs

RestartPCs  == {"restart85", "restart_send", "restart_wait", "restart_kill84",
                "restart_kill85"}
UploadPCs   == {"rom_poll", "addr_submit", "addr_send", "addr_wait", "addr_kill",
                "len_check", "scatter", "start_submit", "start_send",
                "start_wait", "start_kill", "ram_poll"}
RestorePCs  == {"restore", "restore_mode", "restore_set", "restore_clear"}
DownloadPCs == {"udma", "check", "restart84", "bypass", "alloc"} \cup RestartPCs
               \cup UploadPCs \cup RestorePCs
ProbePCs    == {"request", "failed", "mac_init", "register", "registered"}

Chunks == [off : Nat, len : Nat]

FlagsOK ==
    /\ done \in BOOLEAN /\ gateFired \in BOOLEAN
    /\ bypass \in BOOLEAN /\ pse \in BOOLEAN /\ regErr \in BOOLEAN
    /\ restartReq \in BOOLEAN /\ startReq \in BOOLEAN

ShapesOK ==
    /\ pc \in DownloadPCs \cup ProbePCs
    /\ ret \in {"ok", "err"}
    /\ tail \in Tails
    /\ offset \in Nat
    /\ polls \in 0..(PollMax - 1)
    /\ gate \in GateValues
    /\ urb \in [Urbs -> {"none", "flight", "handler", "fired"}]
    /\ mode \in {"boot", "rom", "ram"}
    /\ image \in {"none", "old", "new"}
    /\ target \in {NoTarget} \cup 0..(WordSize - 1)
    /\ stream \in Seq(Chunks)
    /\ addrTo \in {"none", "boot", "rom", "ram"}
    /\ fault \in {"none", "dead_stack", "wild_gate"}

TypeOK == FlagsOK /\ ShapesOK

(* A cold chip, or one that still runs the firmware of an earlier load.     *)
Init ==
    /\ pc = "request" /\ ret = "ok"
    /\ tail = GoodTail /\ offset = 0 /\ polls = 0
    /\ gate \in GateValues
    /\ urb = [u \in Urbs |-> "none"]
    /\ done = FALSE /\ gateFired = FALSE
    /\ bypass = FALSE /\ pse = FALSE /\ regErr = FALSE
    /\ \/ mode = "boot" /\ image = "none"
       \/ mode = "ram" /\ image = "old"
    /\ target = NoTarget /\ stream = <<>>
    /\ restartReq = FALSE /\ startReq = FALSE
    /\ addrTo = "none" /\ fault = "none"

-----------------------------------------------------------------------------
(* External: the chip.                                                      *)

(* TOP_MISC2 shows RamRunning in bit 1 and RomReady in bit 0; the running   *)
(* firmware may leave bit 0 set.                                            *)
RamRunning == mode = "ram"
RomReady   == IF mode = "ram" THEN BOOLEAN ELSE {mode = "rom"}

InOrder(s) == \A k \in 1..Len(s) :
                 s[k].off = IF k = 1 THEN 0 ELSE s[k - 1].off + s[k - 1].len

EndOf(s) == IF s = <<>> THEN 0 ELSE s[Len(s)].off + s[Len(s)].len

ChipBoot ==
    /\ mode = "boot" /\ mode' = "rom"
    /\ UNCHANGED <<pc, driver, rsp, sch, image, rom, restartReq, addrTo, fault>>

(* The running firmware acts on CmdRestartDLReq, late or never.             *)
ChipRestart ==
    /\ restartReq
    /\ mode' = "boot" /\ image' = "none" /\ restartReq' = FALSE
    /\ target' = NoTarget /\ stream' = <<>> /\ startReq' = FALSE
    /\ UNCHANGED <<pc, driver, rsp, sch, addrTo, fault>>

(* The ROM starts only a complete image whose checksum matches.             *)
ChipStart ==
    /\ mode = "rom" /\ startReq
    /\ target = GoodTail + 4 /\ InOrder(stream) /\ EndOf(stream) = target
    /\ mode' = "ram" /\ image' = "new" /\ startReq' = FALSE
    /\ UNCHANGED <<pc, driver, rsp, sch, target, stream, restartReq, addrTo, fault>>

RecvRestart ==
    /\ restartReq' = (restartReq \/ mode = "ram")
    /\ UNCHANGED <<mode, image, rom, addrTo>>

RecvAddrLen(n) ==
    /\ addrTo' = mode
    /\ \/ mode = "rom" /\ target' = n /\ stream' = <<>> /\ startReq' = FALSE
       \/ mode # "rom" /\ UNCHANGED rom
    /\ UNCHANGED <<mode, image, restartReq>>

RecvChunk(o, n) ==
    /\ stream' = IF mode = "rom" /\ target # NoTarget
                 THEN Append(stream, [off |-> o, len |-> n]) ELSE stream
    /\ UNCHANGED <<mode, image, target, startReq, restartReq, addrTo>>

RecvStart ==
    /\ startReq' = (mode = "rom")
    /\ UNCHANGED <<mode, image, target, stream, restartReq, addrTo>>

-----------------------------------------------------------------------------
(* Helpers of the probing thread.                                           *)

Goto(l) == pc' = l

(* The ways out of mt7603_download_firmware: a plain return before SCH_REG4  *)
(* is touched, or through the label that restores it.                       *)
Fail(l) == Goto(l) /\ ret' = "err" /\ UNCHANGED <<tail, offset, polls, gate>>

Proceed(l) == Goto(l) /\ UNCHANGED driver

(* mt7603_rust_fw_dl_len: u32 addition, wrapping in the release build.      *)
DlLen == (tail + 4) % WordSize

SmallerOf(a, b) == IF a < b THEN a ELSE b

(* mt7603_usb_send_cmd: a reported success was delivered, a reported        *)
(* failure may have been.                                                   *)
Send(Recv, ok, failed) ==
    \/ Recv /\ Proceed(ok)
    \/ Recv /\ Fail(failed)
    \/ UNCHANGED <<chip, addrTo>> /\ Fail(failed)

(* mt7603_rsp_submit: buffer or URB allocation or the submission can fail.  *)
RspSubmit(u, ok, failed) ==
    \/ /\ urb' = [urb EXCEPT ![u] = "flight"]
       /\ Proceed(ok)
    \/ UNCHANGED urb /\ Fail(failed)

(* usb_kill_urb waits until the handler has run; meanwhile the URB cannot   *)
(* be submitted again.                                                      *)
Killing(u) ==
    \/ u = "restart84" /\ pc = "restart_kill84"
    \/ u = "restart85" /\ pc = "restart_kill85"
    \/ u = "addr" /\ pc = "addr_kill"
    \/ u = "start" /\ pc = "start_kill"

-----------------------------------------------------------------------------
(* mt7603u_probe up to the download.                                        *)

(* request_firmware and mt7603_rust_verify_firmware; either may fail.       *)
ProbeRequest ==
    /\ pc = "request"
    /\ \/ Fail("failed")
       \/ /\ tail' \in Tails /\ gate' \in GateValues
          /\ offset' = 0 /\ polls' = 0 /\ ret' = "ok"
          /\ Goto("udma")
    /\ UNCHANGED <<rsp, sch, chip, addrTo, fault>>

(* mt7603_usb_enable_udma and the first look at TOP_MISC2.                  *)
EnableUdma ==
    /\ pc = "udma"
    /\ Proceed("check") \/ Fail("failed")
    /\ UNCHANGED <<rsp, sch, chip, addrTo, fault>>

CheckRunning ==
    /\ pc = "check"
    /\ Proceed(IF RamRunning THEN "restart84" ELSE "bypass") \/ Fail("failed")
    /\ UNCHANGED <<rsp, sch, chip, addrTo, fault>>

-----------------------------------------------------------------------------
(* mt7603_restart_dl_rsp; its result is ignored by the caller.              *)

RestartSubmit84 ==
    /\ pc = "restart84"
    /\ gateFired' = FALSE
    /\ RspSubmit("restart84", "restart85", "bypass")
    /\ UNCHANGED <<done, sch, chip, addrTo, fault>>

RestartSubmit85 ==
    /\ pc = "restart85"
    /\ RspSubmit("restart85", "restart_send", "restart_kill84")
    /\ UNCHANGED <<done, gateFired, sch, chip, addrTo, fault>>

RestartSend ==
    /\ pc = "restart_send"
    /\ Send(RecvRestart, "restart_wait", "restart_kill84")
    /\ UNCHANGED <<rsp, sch, fault>>

(* Mutant: without an acknowledgement the function waits on. *)
RestartWaitForever ==
    /\ pc = "restart_wait"
    /\ gateFired
    /\ Proceed("restart_kill84")
    /\ UNCHANGED <<rsp, sch, chip, addrTo, fault>>

(* wait_for_completion_timeout: the gate fired or the time is up.           *)
RestartWait ==
    /\ pc = "restart_wait"
    /\ Proceed("restart_kill84")
    /\ UNCHANGED <<rsp, sch, chip, addrTo, fault>>

(* Mutant: only the EP 0x84 URB is killed. *)
RestartKillOne ==
    /\ pc = "restart_kill84" /\ urb["restart84"] = "none"
    /\ Proceed("bypass")
    /\ UNCHANGED <<rsp, sch, chip, addrTo, fault>>

(* Both URBs are killed and freed, one after the other; when the second was *)
(* never submitted its kill returns at once.                                *)
RestartKill ==
    /\ \/ /\ pc = "restart_kill84" /\ urb["restart84"] = "none"
          /\ Proceed("restart_kill85")
       \/ /\ pc = "restart_kill85" /\ urb["restart85"] = "none"
          /\ Proceed("bypass")
    /\ UNCHANGED <<rsp, sch, chip, addrTo, fault>>

-----------------------------------------------------------------------------
(* SCH_REG4 and the polls of TOP_MISC2.                                     *)

(* Read, modify, write; a failure returns at once and may still have been   *)
(* applied by the chip.                                                     *)
SetBypass ==
    /\ pc = "bypass"
    /\ \/ bypass' = TRUE /\ UNCHANGED regErr /\ Proceed("alloc")
       \/ (bypass' = TRUE \/ UNCHANGED bypass) /\ regErr' = TRUE /\ Fail("failed")
    /\ UNCHANGED <<pse, rsp, chip, addrTo, fault>>

AllocCmd ==
    /\ pc = "alloc"
    /\ Proceed("rom_poll") \/ Fail("restore")
    /\ UNCHANGED <<rsp, sch, chip, addrTo, fault>>

(* Mutant: i <= MT7603_ROM_READY_POLL_MAX as loop condition. *)
PollOffByOne(hit, ok, failed) ==
    \/ hit /\ polls' = 0 /\ Goto(ok) /\ ret' = "ok" /\ UNCHANGED <<tail, offset, gate>>
    \/ /\ ~hit /\ polls < PollMax
       /\ polls' = polls + 1 /\ UNCHANGED <<pc, ret, tail, offset, gate>>
    \/ polls' = 0 /\ Goto(failed) /\ ret' = "err" /\ UNCHANGED <<tail, offset, gate>>

(* One iteration of mt7603_poll_top_misc2. It gives up when the register    *)
(* cannot be read, which may happen any time, or after PollMax misses.      *)
Poll(hit, ok, failed) ==
    \/ /\ hit
       /\ polls' = 0 /\ Goto(ok) /\ ret' = "ok"
       /\ UNCHANGED <<tail, offset, gate>>
    \/ /\ ~hit /\ polls < PollMax - 1
       /\ polls' = polls + 1
       /\ UNCHANGED <<pc, ret, tail, offset, gate>>
    \/ /\ polls' = 0 /\ Goto(failed) /\ ret' = "err"
       /\ UNCHANGED <<tail, offset, gate>>

(* Mutant: a ROM that is not ready makes the function return at once. *)
RomPollReturns ==
    /\ pc = "rom_poll"
    /\ \E b \in RomReady : Poll(b, "addr_submit", "failed")
    /\ UNCHANGED <<rsp, sch, chip, addrTo, fault>>

(* Step 3 polls (TOP_MISC2 & 0x01) == 0x01.                                 *)
RomPoll ==
    /\ pc = "rom_poll"
    /\ \E b \in RomReady : Poll(b, "addr_submit", "restore")
    /\ UNCHANGED <<rsp, sch, chip, addrTo, fault>>

(* Mutant: the final poll tests the ROM-ready bit again. *)
RamPollWrongBit ==
    /\ pc = "ram_poll"
    /\ \E b \in RomReady : Poll(b, "restore", "restore")
    /\ UNCHANGED <<rsp, sch, chip, addrTo, fault>>

(* Step 7 polls (TOP_MISC2 & 0x02) == 0x02.                                 *)
RamPoll ==
    /\ pc = "ram_poll"
    /\ Poll(RamRunning, "restore", "restore")
    /\ UNCHANGED <<rsp, sch, chip, addrTo, fault>>

-----------------------------------------------------------------------------
(* CmdAddressLenReq, CmdFwScatter, CmdFwStartReq. The frame builders cannot *)
(* fail here: the command buffer holds the largest frame, and a verified    *)
(* firmware has a last word.                                                *)

AddrLenSubmit ==
    /\ pc = "addr_submit"
    /\ done' = FALSE
    /\ RspSubmit("addr", "addr_send", "restore")
    /\ UNCHANGED <<gateFired, sch, chip, addrTo, fault>>

AddrLenSend ==
    /\ pc = "addr_send"
    /\ Send(RecvAddrLen(DlLen), "addr_wait", "restore")
    /\ UNCHANGED <<rsp, sch, fault>>

(* mt7603_rsp_wait, its result ignored by both callers: the answer came and *)
(* the URB is freed, or the time is up and the URB is killed first.         *)
RspWait(wait, kill, next) ==
    /\ \/ pc = wait /\ done /\ Proceed(next)
       \/ pc = wait /\ Proceed(kill)
       \/ pc = kill /\ urb[IF kill = "addr_kill" THEN "addr" ELSE "start"] = "none"
          /\ Proceed(next)
    /\ UNCHANGED <<rsp, sch, chip, addrTo, fault>>

AddrLenWait == RspWait("addr_wait", "addr_kill", "len_check")

(* Mutant: the length check is missing. *)
CheckLenDropped ==
    /\ pc = "len_check"
    /\ Proceed("scatter")
    /\ UNCHANGED <<rsp, sch, chip, addrTo, fault>>

(* The announced length is checked against the file only after it was sent. *)
CheckLen ==
    /\ pc = "len_check"
    /\ \/ DlLen > FwSize /\ Fail("restore")
       \/ DlLen <= FwSize /\ Proceed("scatter")
    /\ UNCHANGED <<rsp, sch, chip, addrTo, fault>>

(* Mutant: the loop stops before a last, shorter chunk. *)
ScatterDropsTail ==
    LET n == SmallerOf(DlLen - offset, MaxPayload) IN
    /\ pc = "scatter"
    /\ \/ /\ DlLen - offset >= MaxPayload
          /\ RecvChunk(offset, n)
          /\ offset' = offset + n
          /\ UNCHANGED <<pc, ret, tail, polls, gate>>
       \/ /\ DlLen - offset < MaxPayload
          /\ Proceed("start_submit") /\ UNCHANGED <<chip, addrTo>>
    /\ UNCHANGED <<rsp, sch, fault>>

(* One iteration of the scatter loop: a chunk of at most MaxPayload bytes.  *)
Scatter ==
    LET n == SmallerOf(DlLen - offset, MaxPayload) IN
    /\ pc = "scatter"
    /\ \/ /\ offset < DlLen
          /\ RecvChunk(offset, n)
          /\ offset' = offset + n
          /\ UNCHANGED <<pc, ret, tail, polls, gate>>
       \/ /\ offset < DlLen
          /\ RecvChunk(offset, n) \/ UNCHANGED <<chip, addrTo>>
          /\ Fail("restore")
       \/ /\ offset >= DlLen
          /\ Proceed("start_submit") /\ UNCHANGED <<chip, addrTo>>
    /\ UNCHANGED <<rsp, sch, fault>>

StartSubmit ==
    /\ pc = "start_submit"
    /\ done' = FALSE
    /\ RspSubmit("start", "start_send", "restore")
    /\ UNCHANGED <<gateFired, sch, chip, addrTo, fault>>

StartSend ==
    /\ pc = "start_send"
    /\ Send(RecvStart, "start_wait", "restore")
    /\ UNCHANGED <<rsp, sch, fault>>

StartWait == RspWait("start_wait", "start_kill", "ram_poll")

-----------------------------------------------------------------------------
(* The labels free_cmd and restore, and the rest of mt7603u_probe.          *)

AfterDownload == IF ret = "ok" THEN "mac_init" ELSE "failed"

RestoreRead ==
    /\ pc = "restore"
    /\ \/ Proceed("restore_mode") /\ UNCHANGED regErr
       \/ Proceed(AfterDownload) /\ regErr' = TRUE
    /\ UNCHANGED <<bypass, pse, rsp, chip, addrTo, fault>>

(* Three writes whose results are ignored: normal mode, PSE reset set, PSE  *)
(* reset cleared.                                                           *)
WriteSch(b, p) ==
    \/ bypass' = b /\ pse' = p /\ UNCHANGED regErr
    \/ /\ regErr' = TRUE
       /\ (bypass' = b /\ pse' = p) \/ UNCHANGED <<bypass, pse>>

RestoreWrite ==
    /\ \/ pc = "restore_mode" /\ WriteSch(FALSE, pse) /\ Proceed("restore_set")
       \/ pc = "restore_set" /\ WriteSch(FALSE, TRUE) /\ Proceed("restore_clear")
       \/ pc = "restore_clear" /\ WriteSch(FALSE, FALSE) /\ Proceed(AfterDownload)
    /\ UNCHANGED <<rsp, chip, addrTo, fault>>

(* The MAC initialisation writes may fail: probe only logs that. (The       *)
(* sequence always fits its 128 slots: BringUp.) Then                       *)
(* mt7603_register_mac80211 succeeds or not.                                *)
MacInit ==
    /\ pc = "mac_init"
    /\ Proceed("register")
    /\ UNCHANGED <<rsp, sch, chip, addrTo, fault>>

Register ==
    /\ pc = "register"
    /\ Proceed("registered") \/ Fail("failed")
    /\ UNCHANGED <<rsp, sch, chip, addrTo, fault>>

(* External: the driver is bound again, after disconnect or a failed probe. *)
Reprobe ==
    /\ pc \in {"failed", "registered"}
    /\ \A u \in Urbs : urb[u] = "none"
    /\ Goto("request")
    /\ image' = IF image = "new" THEN "old" ELSE image
    /\ addrTo' = "none" /\ ret' = "ok"
    /\ UNCHANGED <<tail, offset, polls, gate, rsp, sch, mode, rom, restartReq, fault>>

-----------------------------------------------------------------------------
(* mt7603_rsp_complete, run by the USB core. Its context is a structure on  *)
(* the stack of the probing thread.                                         *)

FrameGone(u) == IF u \in RestartUrbs THEN pc \notin RestartPCs
                                     ELSE pc \notin DownloadPCs

UrbArrives(u) ==
    /\ urb[u] = "flight"
    /\ urb' = [urb EXCEPT ![u] = "handler"]
    /\ UNCHANGED <<pc, driver, done, gateFired, sch, chip, addrTo, fault>>

(* A leftover data frame: the URB is submitted again.                       *)
HandlerResubmits(u) ==
    /\ urb[u] = "handler" /\ ~FrameGone(u) /\ ~Killing(u)
    /\ urb' = [urb EXCEPT ![u] = "flight"]
    /\ UNCHANGED <<pc, driver, done, gateFired, sch, chip, addrTo, fault>>

(* An event, an error, or a resubmission that failed: complete(&s->done).   *)
HandlerCompletes(u) ==
    /\ urb[u] = "handler" /\ ~FrameGone(u)
    /\ urb' = [urb EXCEPT ![u] = "fired"]
    /\ done' = (done \/ u \in RspUrbs)
    /\ UNCHANGED <<pc, driver, gateFired, sch, chip, addrTo, fault>>

(* Then the gate is read, after the waiter may have gone on.                *)
HandlerGate(u) ==
    /\ urb[u] = "fired" /\ ~FrameGone(u)
    /\ urb' = [urb EXCEPT ![u] = "none"]
    /\ gateFired' = (gateFired \/ u \in RestartUrbs)
    /\ fault' = IF u \in RspUrbs /\ gate = "stale" THEN "wild_gate" ELSE fault
    /\ UNCHANGED <<pc, driver, done, sch, chip, addrTo>>

HandlerInDeadFrame(u) ==
    /\ urb[u] \in {"handler", "fired"} /\ FrameGone(u)
    /\ fault' = "dead_stack"
    /\ UNCHANGED <<pc, driver, rsp, sch, chip, addrTo>>

Handler(u) == HandlerResubmits(u) \/ HandlerCompletes(u) \/ HandlerGate(u)
              \/ HandlerInDeadFrame(u)

-----------------------------------------------------------------------------
ChipStep == ChipBoot \/ ChipRestart \/ ChipStart

RestartStep == RestartSubmit84 \/ RestartSubmit85 \/ RestartSend \/ RestartWait
               \/ RestartKill

UploadStep == RomPoll \/ AddrLenSubmit \/ AddrLenSend \/ AddrLenWait \/ CheckLen
              \/ Scatter \/ StartSubmit \/ StartSend \/ StartWait \/ RamPoll

ProbeStep == ProbeRequest \/ EnableUdma \/ CheckRunning \/ RestartStep \/ SetBypass
             \/ AllocCmd \/ UploadStep \/ RestoreRead \/ RestoreWrite \/ MacInit
             \/ Register

(* After undefined behaviour nothing is promised.                           *)
Undefined == fault # "none" /\ UNCHANGED vars

Next ==
    \/ /\ fault = "none"
       /\ \/ ProbeStep
          \/ Reprobe
          \/ ChipStep
          \/ \E u \in Urbs : UrbArrives(u) \/ Handler(u)
    \/ Undefined

Spec == Init /\ [][Next]_vars

(* The probing thread runs, a killed URB is given back and its handler      *)
(* ends. The chip owes nothing: it may stay silent for ever.                *)
Fairness ==
    /\ WF_vars(fault = "none" /\ ProbeStep)
    /\ \A u \in Urbs : /\ WF_vars(fault = "none" /\ Killing(u) /\ UrbArrives(u))
                       /\ WF_vars(fault = "none" /\ Handler(u))

FairSpec == Spec /\ Fairness

-----------------------------------------------------------------------------
(* Properties.                                                              *)

(* A probe whose image went to the ROM and that goes on to register with    *)
(* mac80211 leaves the chip running that image, not an earlier one.         *)
SuccessRunsNewImage ==
    pc \in {"mac_init", "register", "registered"} /\ addrTo = "rom" =>
        mode = "ram" /\ image = "new"

(* When CmdFwStartReq has been sent to the ROM, the chunks it received are  *)
(* the announced image, every byte once and in order.                       *)
StartFollowsWholeImage ==
    pc \in {"start_wait", "start_kill", "ram_poll"} /\ addrTo = "rom" =>
        target = DlLen /\ InOrder(stream) /\ EndOf(stream) = target

(* No chunk reaches beyond the firmware file, whatever its last word says,  *)
(* and none exceeds a frame, the wrapped lengths included.                  *)
ChunksWithinImage ==
    \A k \in 1..Len(stream) : /\ stream[k].len \in 1..MaxPayload
                              /\ stream[k].off + stream[k].len <= FwSize

(* However the download ended, SCH_REG4 is back in normal mode with the PSE *)
(* reset released, unless an access to SCH_REG4 itself failed.              *)
NormalModeRestored ==
    pc \in {"failed", "mac_init", "register", "registered"} /\ ~regErr =>
        ~bypass /\ ~pse

(* No response URB of mt7603_restart_dl_rsp, nor its handler, outlives the  *)
(* stack frame it points into.                                              *)
RestartUrbsReaped ==
    pc \notin RestartPCs => \A u \in RestartUrbs : urb[u] = "none"

(* The download always returns: every wait is bounded even if the chip      *)
(* never answers and no URB ever completes by itself.                       *)
DownloadReturns ==
    pc = "udma" ~> pc \in {"failed", "mac_init"} \/ fault # "none"

(* The strengthening that makes the invariants above inductive.             *)

(* A response URB of the restart is with the USB core only between its      *)
(* submission and its kill.                                                 *)
RestartInv ==
    /\ urb["restart84"] # "none" => pc \in RestartPCs \ {"restart_kill85"}
    /\ urb["restart85"] # "none" => pc \in RestartPCs \ {"restart85"}

(* What SCH_REG4 holds at each statement, as long as no access failed.      *)
SchInv ==
    ~regErr => /\ bypass => pc \in {"alloc", "restore", "restore_mode"} \cup UploadPCs
               /\ pse => pc = "restore_clear"

(* The loop: nothing is uploaded before it, all of a length that fits is    *)
(* uploaded after it.                                                       *)
OffsetInv ==
    /\ pc \in RestartPCs \cup {"udma", "check", "restart84", "bypass", "alloc",
                             "rom_poll", "addr_submit", "addr_send", "addr_wait",
                             "addr_kill", "len_check"} => offset = 0
    /\ pc \in {"scatter", "start_submit", "start_send"} =>
          offset <= DlLen /\ DlLen <= FwSize
    /\ pc \in {"start_submit", "start_send"} => offset = DlLen

Received(n) == target = DlLen /\ InOrder(stream) /\ EndOf(stream) = n

(* A chip that was in ROM when the length was announced stays there, with   *)
(* what was uploaded so far, until it starts the image.                     *)
RomInv ==
    /\ restartReq => mode = "ram"
    /\ pc \in {"mac_init", "register", "registered"} => ret = "ok"
    /\ addrTo = "rom" =>
        /\ pc \in {"addr_wait", "addr_kill", "len_check", "scatter", "start_submit",
                  "start_send"} => mode = "rom" /\ ~startReq /\ Received(offset)
        /\ pc \in {"start_wait", "start_kill", "ram_poll"} =>
              /\ mode = "rom" \/ (mode = "ram" /\ image = "new" /\ ~restartReq)
              /\ Received(DlLen)
        /\ pc \in RestorePCs \cup {"mac_init", "register", "registered"} /\ ret = "ok"
              => mode = "ram" /\ image = "new" /\ ~restartReq

DownloadInv ==
    TypeOK /\ RestartInv /\ SchInv /\ OffsetInv /\ RomInv /\ ChunksWithinImage

(* The ROM handshake: CmdAddressLenReq reaches the chip only when its ROM   *)
(* is ready and no RAM firmware is running.                                 *)
UploadOnlyToRom == addrTo \in {"none", "rom"}

(* Every response URB that was submitted is waited for: none is left with   *)
(* the USB core when mt7603_download_firmware has returned.                 *)
ResponseUrbAwaited ==
    pc \notin DownloadPCs => \A u \in RspUrbs : urb[u] # "flight"
=============================================================================
