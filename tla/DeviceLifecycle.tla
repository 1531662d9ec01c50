--------------------------- MODULE DeviceLifecycle ---------------------------
(***************************************************************************)
(* The life of one MT7603U device between probe and disconnect: who may    *)
(* own which URB, when the beacon work may run, and how the three teardown *)
(* paths (mac80211 stop, remove_interface, USB disconnect) silence them.   *)
(*                                                                         *)
(* Five kinds of actors interleave:                                        *)
(*   "ctl"   the thread inside a mac80211 callback; mac80211 serialises    *)
(*           these callbacks, so there is one;                             *)
(*   "disc"  the USB core's thread running mt7603u_disconnect, which       *)
(*           shares no lock with "ctl";                                    *)
(*   beacon  the delayed work mt7603_beacon_work;                          *)
(*   TxCallers  contexts inside mt7603_mac80211_tx;                        *)
(*   the URB completion handlers.                                          *)
(* What is outside src/ (USB core, workqueue, mac80211's calling           *)
(* discipline) is modelled from how the driver uses it.                    *)
(***************************************************************************)
EXTENDS Integers

CONSTANTS NumRxUrbs,   \* MT7603_NUM_RX_URBS
          TxCallers,   \* contexts that may call mt7603_mac80211_tx at once
          MaxTxUrbs    \* bound: TX URBs in flight at once (memory)

ASSUME NumRxUrbsAssumption == NumRxUrbs \in Nat \ {0}
ASSUME TxCallersAssumption == "beacon" \notin TxCallers
ASSUME MaxTxUrbsAssumption == MaxTxUrbs \in Nat \ {0}

VARIABLES
    running,         \* dev->running
    beacon_enabled,  \* dev->beacon_enabled
    ap_vif,          \* dev->ap_vif # NULL
    slot,            \* slot[i]: the pointer rx_urbs[i-1].urb, slot[0]: cmd_urb
    ust,             \* ust[i]: what the USB core does with that URB
    txpc,            \* txpc[c]: where caller c is inside mt7603_mac80211_tx
    txFlight,        \* number of TX URBs submitted and not yet completed
    pending,         \* beacon_work is queued
    bpc,             \* where the executing beacon work is
    pc, op, idx,     \* per thread: statement, operation, loop index
    up,              \* mac80211's view: start succeeded, stop not finished
    startFailed,     \* the last start returned -ENOMEM
    epEnabled,       \* the interface's endpoints accept URBs
    fault            \* a freed URB was handed to the USB core or freed again

vars == <<running, beacon_enabled, ap_vif, slot, ust, txpc, txFlight, pending,
          bpc, pc, op, idx, up, startFailed, epEnabled, fault>>

Threads == {"ctl", "disc"}
Slots   == 0..NumRxUrbs
Callers == TxCallers \cup {"beacon"}

Teardown == {"cancel", "cancel_wait", "stop_rx", "kill", "free", "null", "kill_tx"}
PCs == Teardown \cup {"idle", "rx_alloc", "rx_submit", "start_rest", "bss_sched",
                      "flush", "unregister", "unreg_hw", "free_hw", "done"}

FlagsOK ==
    /\ running \in BOOLEAN /\ beacon_enabled \in BOOLEAN /\ ap_vif \in BOOLEAN
    /\ pending \in BOOLEAN /\ up \in BOOLEAN /\ startFailed \in BOOLEAN
    /\ epEnabled \in BOOLEAN /\ fault \in BOOLEAN

ShapesOK ==
    /\ slot \in [Slots -> {"null", "live", "freed"}]
    /\ ust \in [Slots -> {"idle", "flight", "complete", "unlinked", "resubmit"}]
    /\ txpc \in [Callers -> {"out", "enter", "checked", "anchored"}]
    /\ txFlight \in 0..MaxTxUrbs
    /\ bpc \in {"idle", "exec", "get", "tx"}
    /\ pc \in [Threads -> PCs]
    /\ op \in [Threads -> {"none", "start", "stop", "remove", "enable",
                           "disable", "unregister"}]
    /\ idx \in [Threads -> Slots]

TypeOK == FlagsOK /\ ShapesOK

devFlags == <<running, beacon_enabled, ap_vif>>
urbs     == <<slot, ust>>
txState  == <<txpc, txFlight>>
work     == <<pending, bpc>>
ctlState == <<pc, op, idx>>
hwState  == <<up, startFailed, epEnabled>>

(* ieee80211_alloc_hw zeroes the private area; probe has registered the     *)
(* hardware and no interface is up yet.                                     *)
Init ==
    /\ running = FALSE /\ beacon_enabled = FALSE /\ ap_vif = FALSE
    /\ slot = [i \in Slots |-> "null"]
    /\ ust = [i \in Slots |-> "idle"]
    /\ txpc = [c \in Callers |-> "out"]
    /\ txFlight = 0
    /\ pending = FALSE /\ bpc = "idle"
    /\ pc = [t \in Threads |-> "idle"]
    /\ op = [t \in Threads |-> "none"]
    /\ idx = [t \in Threads |-> 0]
    /\ up = FALSE /\ startFailed = FALSE
    /\ epEnabled = TRUE
    /\ fault = FALSE

-----------------------------------------------------------------------------
(* External: mac80211's calling discipline, USB core, workqueue.            *)

(* mac80211 may begin a callback: none is running and the hardware is still *)
(* registered; once ieee80211_unregister_hw runs it only closes interfaces. *)
MayClose == pc["ctl"] = "idle" /\ pc["disc"] \notin {"free_hw", "done"}
MayCall  == MayClose /\ pc["disc"] # "unreg_hw"

Stopping == op["ctl"] = "stop" /\ pc["ctl"] # "idle"

(* usb_kill_urb refuses resubmission while it waits for the handler.        *)
Killed(i) == \E t \in Threads : pc[t] = "kill" /\ idx[t] = i

(* While cancel_delayed_work_sync waits, the work cannot be queued again.   *)
Cancelling == \E t \in Threads : pc[t] = "cancel_wait"

Goto(t, l) == pc' = [pc EXCEPT ![t] = l]

Call(t, o, l) == /\ op' = [op EXCEPT ![t] = o]
                 /\ Goto(t, l)
                 /\ idx' = [idx EXCEPT ![t] = 0]

-----------------------------------------------------------------------------
(* mt7603_mac80211_start and mt7603_start_rx.                               *)

StartBegin ==
    /\ MayCall /\ ~up
    /\ running' = TRUE
    /\ op' = [op EXCEPT !["ctl"] = "start"]
    /\ Goto("ctl", "rx_alloc")
    /\ idx' = [idx EXCEPT !["ctl"] = 1]
    /\ UNCHANGED <<beacon_enabled, ap_vif, urbs, txState, work, hwState, fault>>

(* One slot's buffer and URB are allocated if the pointers are NULL. The    *)
(* result of mt7603_start_rx, -ENOMEM included, is ignored by start. A      *)
(* command URB that is already there is neither filled nor submitted again. *)
StartRxAlloc ==
    LET i == idx["ctl"] IN
    /\ pc["ctl"] = "rx_alloc"
    /\ \/ /\ slot[i] = "null"
          /\ slot' = [slot EXCEPT ![i] = "live"]
          /\ Goto("ctl", "rx_submit")
       \/ /\ slot[i] = "null"
          /\ UNCHANGED slot
          /\ Goto("ctl", "start_rest")
       \/ /\ slot[i] # "null"
          /\ UNCHANGED slot
          /\ Goto("ctl", IF i = 0 THEN "start_rest" ELSE "rx_submit")
    /\ UNCHANGED <<devFlags, ust, txState, work, op, idx, hwState, fault>>

AfterSubmit(i) ==
    /\ Goto("ctl", IF i = 0 THEN "start_rest" ELSE "rx_alloc")
    /\ idx' = [idx EXCEPT !["ctl"] = IF i \in 1..(NumRxUrbs - 1) THEN i + 1 ELSE 0]

(* usb_fill_bulk_urb and usb_submit_urb; a failed submission is only logged, *)
(* and one of a URB that is still in flight fails with -EBUSY.               *)
StartRxSubmit ==
    LET i == idx["ctl"] IN
    /\ pc["ctl"] = "rx_submit"
    /\ \/ /\ slot[i] # "live"
          /\ fault' = TRUE
          /\ UNCHANGED <<ust, pc, idx>>
       \/ /\ slot[i] = "live"
          /\ AfterSubmit(i)
          /\ UNCHANGED fault
          /\ \/ UNCHANGED ust
             \/ /\ ust[i] = "idle" /\ epEnabled /\ ~Killed(i)
                /\ ust' = [ust EXCEPT ![i] = "flight"]
    /\ UNCHANGED <<devFlags, slot, txState, work, op, hwState>>

(* The rest of start: either the command buffer cannot be allocated and     *)
(* start returns -ENOMEM at once, or the commands and registers are written  *)
(* (their failures are ignored) and start returns 0.                        *)
StartRest ==
    /\ pc["ctl"] = "start_rest"
    /\ Goto("ctl", "idle")
    /\ \/ up' = TRUE /\ startFailed' = FALSE
       \/ up' = FALSE /\ startFailed' = TRUE
    /\ UNCHANGED <<devFlags, urbs, txState, work, op, idx, epEnabled, fault>>

-----------------------------------------------------------------------------
(* The callbacks that tear down: stop, remove_interface, beacon off.        *)

(* Mutant: stop forgets the beacon and leaves running set. *)
StopBeginKeepsBeacon ==
    /\ MayClose /\ up
    /\ \A c \in TxCallers : txpc[c] = "out"
    /\ Call("ctl", "stop", "stop_rx")
    /\ UNCHANGED <<devFlags, urbs, txState, work, hwState, fault>>

(* mac80211 calls stop with its TX path quiesced (no caller inside tx).     *)
StopBegin ==
    /\ MayClose /\ up
    /\ \A c \in TxCallers : txpc[c] = "out"
    /\ running' = FALSE /\ beacon_enabled' = FALSE
    /\ Call("ctl", "stop", "cancel")
    /\ UNCHANGED <<ap_vif, urbs, txState, work, hwState, fault>>

(* Mutant: the pointer is cleared before the work is cancelled. *)
RemoveInterfaceClearsFirst ==
    /\ MayClose /\ up /\ ap_vif
    /\ beacon_enabled' = FALSE /\ ap_vif' = FALSE
    /\ Call("ctl", "remove", "cancel")
    /\ UNCHANGED <<running, urbs, txState, work, hwState, fault>>

RemoveInterface ==
    /\ MayClose /\ up /\ ap_vif
    /\ beacon_enabled' = FALSE
    /\ Call("ctl", "remove", "cancel")
    /\ UNCHANGED <<running, ap_vif, urbs, txState, work, hwState, fault>>

(* Mutant: the flag is cleared but the work is not cancelled. *)
BssBeaconOffNoCancel ==
    /\ MayClose /\ up /\ ap_vif
    /\ beacon_enabled' = FALSE
    /\ Call("ctl", "disable", "idle")
    /\ UNCHANGED <<running, ap_vif, urbs, txState, work, hwState, fault>>

(* bss_info_changed with BSS_CHANGED_BEACON_ENABLED and !enable_beacon.     *)
BssBeaconOff ==
    /\ MayClose /\ up /\ ap_vif
    /\ beacon_enabled' = FALSE
    /\ Call("ctl", "disable", "cancel")
    /\ UNCHANGED <<running, ap_vif, urbs, txState, work, hwState, fault>>

(* The callbacks that build up: add_interface for an AP and                 *)
(* bss_info_changed with enable_beacon, which queues the work last.         *)
AddInterface ==
    /\ MayCall /\ up
    /\ ap_vif' = TRUE
    /\ UNCHANGED <<running, beacon_enabled, urbs, txState, work, ctlState, hwState,
                   fault>>

BssBeaconOn ==
    /\ MayCall /\ up /\ ap_vif
    /\ beacon_enabled' = TRUE
    /\ Call("ctl", "enable", "bss_sched")
    /\ UNCHANGED <<running, ap_vif, urbs, txState, work, hwState, fault>>

BssSchedule ==
    /\ pc["ctl"] = "bss_sched"
    /\ pending' = IF Cancelling THEN pending ELSE TRUE
    /\ Goto("ctl", "idle")
    /\ UNCHANGED <<devFlags, urbs, txState, bpc, op, idx, hwState, fault>>

-----------------------------------------------------------------------------
(* mt7603u_disconnect and mt7603_unregister_mac80211.                       *)

(* The driver has no soft_unbind, so the USB core disables the interface's  *)
(* endpoints and flushes their URBs before it calls disconnect.             *)
UnbindBegin ==
    /\ pc["disc"] = "idle"
    /\ epEnabled' = FALSE
    /\ Goto("disc", "flush")
    /\ UNCHANGED <<devFlags, urbs, txState, work, op, idx, up, startFailed, fault>>

UnbindFlushed ==
    /\ pc["disc"] = "flush"
    /\ \A i \in Slots : ust[i] = "idle"
    /\ txFlight = 0
    /\ Goto("disc", "unregister")
    /\ UNCHANGED <<devFlags, urbs, txState, work, op, idx, hwState, fault>>

UnregisterBegin ==
    /\ pc["disc"] = "unregister"
    /\ running' = FALSE /\ beacon_enabled' = FALSE
    /\ Call("disc", "unregister", "cancel")
    /\ UNCHANGED <<ap_vif, urbs, txState, work, hwState, fault>>

(* ieee80211_unregister_hw closes what is open (through stop) and returns   *)
(* with no callback running and none to come.                               *)
UnregisterHw ==
    /\ pc["disc"] = "unreg_hw"
    /\ pc["ctl"] = "idle" /\ ~up
    /\ \A c \in TxCallers : txpc[c] = "out"
    /\ Goto("disc", "free_hw")
    /\ UNCHANGED <<devFlags, urbs, txState, work, op, idx, hwState, fault>>

FreeHw ==
    /\ pc["disc"] = "free_hw"
    /\ Goto("disc", "done")
    /\ UNCHANGED <<devFlags, urbs, txState, work, op, idx, hwState, fault>>

-----------------------------------------------------------------------------
(* Teardown statements, run by either thread.                               *)

CancelBegin(t) ==
    /\ pc[t] = "cancel"
    /\ pending' = FALSE
    /\ Goto(t, "cancel_wait")
    /\ UNCHANGED <<devFlags, urbs, txState, bpc, op, idx, hwState, fault>>

(* Mutant: cancel_delayed_work, which does not wait for an executing work. *)
CancelWaitNoSync(t) ==
    /\ pc[t] = "cancel_wait"
    /\ Goto(t, IF op[t] \in {"stop", "unregister"} THEN "stop_rx" ELSE "idle")
    /\ ap_vif' = IF op[t] = "remove" THEN FALSE ELSE ap_vif
    /\ UNCHANGED <<running, beacon_enabled, urbs, txState, work, op, idx, hwState,
                   fault>>

(* cancel_delayed_work_sync returns once the work is not executing; what    *)
(* the caller does next depends on the operation.                           *)
CancelWait(t) ==
    /\ pc[t] = "cancel_wait"
    /\ bpc = "idle"
    /\ Goto(t, IF op[t] \in {"stop", "unregister"} THEN "stop_rx" ELSE "idle")
    /\ ap_vif' = IF op[t] = "remove" THEN FALSE ELSE ap_vif
    /\ UNCHANGED <<running, beacon_enabled, urbs, txState, work, op, idx, hwState,
                   fault>>

(* Mutant: i <= MT7603_NUM_RX_URBS as loop condition. *)
NextSlotOffByOne(t) ==
    \/ /\ idx[t] <= NumRxUrbs
       /\ idx' = [idx EXCEPT ![t] = @ + 1]
       /\ Goto(t, "stop_rx")
    \/ /\ idx[t] > NumRxUrbs
       /\ Goto(t, "kill_tx")
       /\ UNCHANGED idx

NextSlot(t) ==
    \/ /\ idx[t] < NumRxUrbs
       /\ idx' = [idx EXCEPT ![t] = @ + 1]
       /\ Goto(t, "stop_rx")
    \/ /\ idx[t] = NumRxUrbs
       /\ Goto(t, "kill_tx")
       /\ UNCHANGED idx

(* mt7603_stop_rx: test the pointer, kill the URB, free it, clear the       *)
(* pointer. Each statement reads the pointer afresh.                        *)
StopRxTest(t) ==
    /\ pc[t] = "stop_rx"
    /\ \/ slot[idx[t]] = "null" /\ NextSlot(t)
       \/ slot[idx[t]] # "null" /\ Goto(t, "kill") /\ UNCHANGED idx
    /\ UNCHANGED <<devFlags, urbs, txState, work, op, hwState, fault>>

(* Mutant: usb_unlink_urb, which does not wait for the handler. *)
KillUrbNoWait(t) ==
    /\ pc[t] = "kill"
    /\ slot[idx[t]] # "freed"
    /\ Goto(t, "free")
    /\ UNCHANGED <<devFlags, urbs, txState, work, op, idx, hwState, fault>>

KillUrb(t) ==
    /\ pc[t] = "kill"
    /\ \/ /\ slot[idx[t]] = "freed"
          /\ fault' = TRUE
          /\ UNCHANGED pc
       \/ /\ slot[idx[t]] = "live" => ust[idx[t]] = "idle"
          /\ slot[idx[t]] # "freed"
          /\ UNCHANGED fault
          /\ Goto(t, "free")
    /\ UNCHANGED <<devFlags, urbs, txState, work, op, idx, hwState>>

FreeUrb(t) ==
    /\ pc[t] = "free"
    /\ fault' = IF slot[idx[t]] = "freed" THEN TRUE ELSE fault
    /\ slot' = [slot EXCEPT ![idx[t]] = IF @ = "live" THEN "freed" ELSE @]
    /\ Goto(t, "null")
    /\ UNCHANGED <<devFlags, ust, txState, work, op, idx, hwState>>

NullUrb(t) ==
    /\ pc[t] = "null"
    /\ slot' = [slot EXCEPT ![idx[t]] = "null"]
    /\ NextSlot(t)
    /\ UNCHANGED <<devFlags, ust, txState, work, op, hwState, fault>>

(* Mutant: usb_unlink_anchored_urbs, which does not wait. *)
KillAnchoredNoWait(t) ==
    /\ pc[t] = "kill_tx"
    /\ \/ t = "ctl" /\ Goto(t, "idle") /\ up' = FALSE /\ startFailed' = FALSE
       \/ t = "disc" /\ Goto(t, "unreg_hw") /\ UNCHANGED <<up, startFailed>>
    /\ UNCHANGED <<devFlags, urbs, txState, work, op, idx, epEnabled, fault>>

(* usb_kill_anchored_urbs returns when the anchor is empty; it is the last  *)
(* statement of stop and the last of unregister before                      *)
(* ieee80211_unregister_hw.                                                 *)
KillAnchored(t) ==
    /\ pc[t] = "kill_tx"
    /\ txFlight = 0
    /\ \A c \in Callers : txpc[c] # "anchored"
    /\ \/ t = "ctl" /\ Goto(t, "idle") /\ up' = FALSE /\ startFailed' = FALSE
       \/ t = "disc" /\ Goto(t, "unreg_hw") /\ UNCHANGED <<up, startFailed>>
    /\ UNCHANGED <<devFlags, urbs, txState, work, op, idx, epEnabled, fault>>

TeardownStep(t) ==
    \/ CancelBegin(t)
    \/ CancelWait(t)
    \/ StopRxTest(t)
    \/ KillUrb(t)
    \/ FreeUrb(t)
    \/ NullUrb(t)
    \/ KillAnchored(t)

-----------------------------------------------------------------------------
(* mt7603_mac80211_tx and mt7603_tx_complete.                               *)

TxEnter(c) ==
    /\ up /\ ~Stopping
    /\ pc["disc"] \notin {"unreg_hw", "free_hw", "done"}
    /\ txpc[c] = "out"
    /\ txpc' = [txpc EXCEPT ![c] = "enter"]
    /\ UNCHANGED <<devFlags, urbs, txFlight, work, ctlState, hwState, fault>>

TxCheckRunning(c) ==
    /\ txpc[c] = "enter"
    /\ txpc' = [txpc EXCEPT ![c] = IF running THEN "checked" ELSE "out"]
    /\ UNCHANGED <<devFlags, urbs, txFlight, work, ctlState, hwState, fault>>

(* The frame is prepared (any failure frees it and returns) and its URB     *)
(* anchored.                                                                *)
TxPrepare(c) ==
    /\ txpc[c] = "checked"
    /\ \E l \in {"anchored", "out"} : txpc' = [txpc EXCEPT ![c] = l]
    /\ UNCHANGED <<devFlags, urbs, txFlight, work, ctlState, hwState, fault>>

TxSubmit(c) ==
    /\ txpc[c] = "anchored"
    /\ txpc' = [txpc EXCEPT ![c] = "out"]
    /\ \/ UNCHANGED txFlight
       \/ epEnabled /\ txFlight < MaxTxUrbs /\ txFlight' = txFlight + 1
    /\ UNCHANGED <<devFlags, urbs, work, ctlState, hwState, fault>>

TxStep(c) == TxCheckRunning(c) \/ TxPrepare(c) \/ TxSubmit(c)

TxComplete ==
    /\ txFlight > 0
    /\ txFlight' = txFlight - 1
    /\ UNCHANGED <<devFlags, urbs, txpc, work, ctlState, hwState, fault>>

-----------------------------------------------------------------------------
(* mt7603_beacon_work.                                                      *)

BeaconRun ==
    /\ pending /\ bpc = "idle"
    /\ pending' = FALSE /\ bpc' = "exec"
    /\ UNCHANGED <<devFlags, urbs, txState, ctlState, hwState, fault>>

BeaconCheck ==
    /\ bpc = "exec"
    /\ bpc' = IF running /\ beacon_enabled /\ ap_vif THEN "get" ELSE "idle"
    /\ UNCHANGED <<devFlags, urbs, txState, pending, ctlState, hwState, fault>>

(* ieee80211_beacon_get may return no frame.                                *)
BeaconGet ==
    /\ bpc = "get"
    /\ bpc' = "tx"
    /\ \E l \in {"enter", "out"} : txpc' = [txpc EXCEPT !["beacon"] = l]
    /\ UNCHANGED <<devFlags, urbs, txFlight, pending, ctlState, hwState, fault>>

BeaconRearm ==
    /\ bpc = "tx" /\ txpc["beacon"] = "out"
    /\ bpc' = "idle"
    /\ pending' = IF Cancelling THEN pending ELSE TRUE
    /\ UNCHANGED <<devFlags, urbs, txState, ctlState, hwState, fault>>

BeaconStep == BeaconCheck \/ BeaconGet \/ BeaconRearm

-----------------------------------------------------------------------------
(* RX and command-response URBs.                                            *)

(* Data arrived, or the transfer failed with an ordinary error.             *)
UrbGiveback(i) ==
    /\ ust[i] = "flight"
    /\ ust' = [ust EXCEPT ![i] = "complete"]
    /\ UNCHANGED <<devFlags, slot, txState, work, ctlState, hwState, fault>>

(* The URB was unlinked: status -ENOENT, -ECONNRESET or -ESHUTDOWN.         *)
UrbUnlinked(i) ==
    /\ ust[i] = "flight"
    /\ Killed(i) \/ ~epEnabled
    /\ ust' = [ust EXCEPT ![i] = "unlinked"]
    /\ UNCHANGED <<devFlags, slot, txState, work, ctlState, hwState, fault>>

(* The tails of mt7603_rx_complete and mt7603_cmd_rsp_complete.             *)
UrbComplete(i) ==
    /\ \/ /\ ust[i] = "complete"
          /\ ust' = [ust EXCEPT ![i] = IF running THEN "resubmit" ELSE "idle"]
       \/ /\ ust[i] = "unlinked"
          /\ ust' = [ust EXCEPT ![i] = "idle"]
    /\ UNCHANGED <<devFlags, slot, txState, work, ctlState, hwState, fault>>

(* usb_submit_urb from the handler; a failure leaves the URB idle for good. *)
UrbResubmit(i) ==
    /\ ust[i] = "resubmit"
    /\ \/ ust' = [ust EXCEPT ![i] = "idle"]
       \/ epEnabled /\ ~Killed(i) /\ ust' = [ust EXCEPT ![i] = "flight"]
    /\ UNCHANGED <<devFlags, slot, txState, work, ctlState, hwState, fault>>

-----------------------------------------------------------------------------
CtlCall == StartBegin \/ StopBegin \/ RemoveInterface \/ BssBeaconOff
           \/ AddInterface \/ BssBeaconOn

CtlStep == StartRxAlloc \/ StartRxSubmit \/ StartRest \/ BssSchedule
           \/ TeardownStep("ctl")

DiscStep == UnbindFlushed \/ UnregisterBegin \/ UnregisterHw \/ FreeHw
            \/ TeardownStep("disc")

UrbStep(i) == UrbGiveback(i) \/ UrbUnlinked(i) \/ UrbComplete(i) \/ UrbResubmit(i)

(* After a use of freed memory nothing is promised, and after disconnect    *)
(* nothing is left to do.                                                   *)
Terminated == (fault \/ pc["disc"] = "done") /\ UNCHANGED vars

Next ==
    \/ /\ ~fault
       /\ \/ CtlCall
          \/ CtlStep
          \/ UnbindBegin
          \/ DiscStep
          \/ \E c \in TxCallers : TxEnter(c)
          \/ \E c \in Callers : TxStep(c)
          \/ TxComplete
          \/ BeaconRun
          \/ BeaconStep
          \/ \E i \in Slots : UrbStep(i)
    \/ Terminated

Spec == Init /\ [][Next]_vars

(* What the kernel schedules: a thread inside the driver keeps running, a   *)
(* due work item runs, handlers finish, a killed or flushed URB is given    *)
(* back, and ieee80211_unregister_hw closes an open device after finitely   *)
(* many other callbacks. Nothing obliges mac80211 to call, data to arrive   *)
(* or the device to be unplugged.                                           *)
(* usb_kill_anchored_urbs keeps rescanning the anchor, so on the disconnect *)
(* path, where callers may still be anchoring, it is strongly fair.         *)
Fairness ==
    /\ WF_vars(~fault /\ CtlStep)
    /\ WF_vars(~fault /\ DiscStep)
    /\ SF_vars(~fault /\ KillAnchored("disc"))
    /\ SF_vars(~fault /\ pc["disc"] = "unreg_hw" /\ StopBegin)
    /\ \A c \in Callers : WF_vars(~fault /\ TxStep(c))
    /\ WF_vars(~fault /\ (~epEnabled \/ pc["ctl"] = "kill_tx") /\ TxComplete)
    /\ WF_vars(~fault /\ BeaconStep)
    /\ \A i \in Slots : /\ WF_vars(~fault /\ UrbUnlinked(i))
                        /\ WF_vars(~fault /\ UrbComplete(i))
                        /\ WF_vars(~fault /\ UrbResubmit(i))

FairSpec == Spec /\ Fairness

-----------------------------------------------------------------------------
(* Properties.                                                              *)

(* Nothing of the driver can run again by itself: no URB with the USB core  *)
(* or in a handler, no TX in flight or being submitted, no beacon work      *)
(* queued or executing.                                                     *)
Quiet ==
    /\ \A i \in Slots : ust[i] = "idle"
    /\ txFlight = 0
    /\ \A c \in Callers : txpc[c] = "out"
    /\ ~pending /\ bpc = "idle"

(* When ieee80211_free_hw has released hw->priv, no handler, work item or   *)
(* transmit path can still touch it, whatever raced with the disconnect.    *)
FreedMeansQuiet == pc["disc"] = "done" => Quiet

(* Once mt7603_mac80211_stop has returned, and until the next start, the    *)
(* driver is silent and every RX and command URB has been released.         *)
StopLeavesQuiet ==
    (pc["ctl"] = "idle" /\ ~up /\ ~startFailed /\ ~fault) =>
        Quiet /\ \A i \in Slots : slot[i] # "live"

(* While the beacon work is between its test of ap_vif and the end of its   *)
(* transmission, remove_interface does not clear ap_vif under it.           *)
VifHeldDuringBeacon == bpc \in {"get", "tx"} => ap_vif

(* When beaconing has been switched off and the callback that did so has    *)
(* returned (no disconnect begun), the beacon work is neither queued nor    *)
(* executing: it comes back only through enable_beacon.                     *)
BeaconOffIsOff ==
    (~beacon_enabled /\ pc["ctl"] = "idle" /\ pc["disc"] \in {"idle", "flush", "unregister"})
        => ~pending /\ bpc = "idle"

(* The waits of mt7603_mac80211_stop (beacon work, RX handlers, TX anchor)  *)
(* all end: a stop that was called returns.                                 *)
StopReturns == Stopping ~> (~Stopping \/ fault)

(* An unplugged device is eventually released: disconnect, the teardown and *)
(* the stop that ieee80211_unregister_hw triggers never wait on each other. *)
(* usb_kill_anchored_urbs waits for an empty anchor, so the promise needs   *)
(* that the TX callers do not keep it occupied for ever.                    *)
DisconnectCompletes ==
    []<>(\A c \in Callers : txpc[c] # "anchored") =>
        ((pc["disc"] = "flush") ~> (pc["disc"] = "done" \/ fault))

(* The strengthening that makes the invariants above inductive.             *)
RxTeardown == {"stop_rx", "kill", "free", "null", "kill_tx"}
Starting   == pc["ctl"] \in {"rx_alloc", "rx_submit", "start_rest"}

(* Which statements a thread can be at, and what they say of up and op.     *)
PcInv ==
    /\ pc["ctl"] \in Teardown \cup {"idle", "rx_alloc", "rx_submit",
                                    "start_rest", "bss_sched"}
    /\ pc["disc"] \in Teardown \cup {"idle", "flush", "unregister", "unreg_hw",
                                     "free_hw", "done"}
    /\ pc["ctl"] \in RxTeardown => op["ctl"] = "stop"
    /\ op["ctl"] # "unregister"
    /\ pc["disc"] \in Teardown => op["disc"] = "unregister"
    /\ pc["ctl"] \in Teardown \cup {"bss_sched"} => up
    /\ Starting => ~up /\ op["ctl"] = "start"
    /\ pc["disc"] \in {"free_hw", "done"} => pc["ctl"] = "idle" /\ ~up

(* The USB core has flushed the endpoints before disconnect is called, and  *)
(* a URB the driver no longer holds is not with the USB core.               *)
UrbInv ==
    /\ pc["disc"] # "idle" => ~epEnabled
    /\ pc["disc"] \notin {"idle", "flush"} =>
          (\A i \in Slots : ust[i] = "idle") /\ txFlight = 0
    /\ \A i \in Slots : slot[i] # "live" => ust[i] = "idle"
    /\ \A t \in Threads : pc[t] \in {"free", "null"} => ust[idx[t]] = "idle"

(* How far stop has come: the slots it has passed are NULL.                 *)
ProgressInv ==
    /\ pc["ctl"] \in {"cancel", "cancel_wait"} => idx["ctl"] = 0
    /\ pc["ctl"] \in RxTeardown => \A j \in Slots : j < idx["ctl"] => slot[j] = "null"
    /\ pc["ctl"] = "kill_tx" => \A j \in Slots : slot[j] = "null"
    /\ pc["ctl"] = "idle" /\ ~up /\ ~startFailed => \A j \in Slots : slot[j] # "live"

(* Who keeps the beacon work and the TX path silent.                        *)
SilenceInv ==
    /\ Cancelling => ~pending
    /\ (~up \/ pc["ctl"] \in RxTeardown) => ~pending /\ bpc = "idle"
    /\ (~up \/ Stopping) => \A c \in TxCallers : txpc[c] = "out"
    /\ txpc["beacon"] # "out" => bpc = "tx"
    /\ ~up => txFlight = 0

(* The beacon work is off unless beaconing is on or being switched off.     *)
BeaconInv ==
    pc["disc"] \in {"idle", "flush", "unregister"} =>
        /\ ~beacon_enabled /\ pc["ctl"] \notin {"cancel", "cancel_wait"}
              => ~pending /\ bpc = "idle"
        /\ pc["ctl"] = "bss_sched" => beacon_enabled

LifecycleInv ==
    TypeOK /\ PcInv /\ UrbInv /\ ProgressInv /\ SilenceInv /\ BeaconInv
    /\ VifHeldDuringBeacon

(* Seen from outside, the driver keeps the contract of module               *)
(* DeviceContract: it counts as open from the moment start is called (a     *)
(* start that failed with -ENOMEM leaves it open: running stays set and the *)
(* RX URBs stay submitted) until stop returns, and is gone when             *)
(* ieee80211_free_hw has run.                                               *)
phaseBar ==
    IF pc["disc"] = "done" THEN "gone"
    ELSE IF up \/ startFailed \/ pc["ctl"] # "idle" THEN "up" ELSE "down"

Contract == INSTANCE DeviceContract WITH phase <- phaseBar, busy <- ~Quiet

KeepsContract == Contract!Spec

(* No URB is freed twice or used after it was freed, by any interleaving of *)
(* the teardown paths.                                                      *)
NoUseOfFreedUrb == ~fault
=============================================================================
