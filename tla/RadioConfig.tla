----------------------------- MODULE RadioConfig -----------------------------
(***************************************************************************)
(* What the callbacks make of the radio: the channel (config,               *)
(* bss_info_changed, sta_add and start, all through set_channel_ext), the   *)
(* receive filter (add_interface, remove_interface, configure_filter) and   *)
(* the beacon timing of an access point (bss_info_changed).                 *)
(*                                                                          *)
(* mac80211 keeps callbacks apart, so each is one step. Every command and   *)
(* every register access in it may fail; mt7603_execute_reg_ops stops a     *)
(* sequence at the first failure, and nothing else reacts to one.           *)
(***************************************************************************)
EXTENDS Integers, Sequences, FiniteSets

CONSTANTS ChanDefs,     \* cfg80211 channel definitions mac80211 may ask for
          Intervals,    \* beacon intervals, 0 for none given
          MaxMonitors,  \* bound on the monitor interfaces
          MaxFaults     \* bound on the accesses and commands that fail

(* mt7603_channels_2ghz; the centre of a 40 MHz channel is two away.        *)
ASSUME ChanDefsAssumption ==
    \A d \in ChanDefs :
        /\ d.chan \in 1..13
        /\ \/ d.width = 20 /\ d.center_freq1 = 2407 + 5 * d.chan
           \/ d.width = 40 /\ d.chan >= 3  /\ d.center_freq1 = 2407 + 5 * (d.chan - 2)
           \/ d.width = 40 /\ d.chan <= 11 /\ d.center_freq1 = 2407 + 5 * (d.chan + 2)

Flags == {"BCN_PRBRESP_PROMISC", "FCSFAIL"}

ASSUME BoundsAssumption == MaxMonitors \in Nat /\ MaxFaults \in Nat

VARIABLES
    open,             \* external: mac80211 holds the device started
    running,          \* dev->running
    monitor_count,
    filter_flags,
    ap_vif,           \* an AP interface exists
    beacon_enabled,
    beacon_int,
    current_channel,
    current_bw,
    cmd_seq,
    cmds,    \* commands of the last callback
    reg,     \* registers of the chip
    radio,   \* external: what the firmware is tuned to
    stale,   \* what was not wholly programmed when it was last asked for
    faults   \* how much has failed

dev  == <<open, running, monitor_count, filter_flags, ap_vif, beacon_enabled, beacon_int>>
tune == <<current_channel, current_bw, cmd_seq, cmds, radio>>
vars == <<dev, tune, reg, stale, faults>>

TypeOK ==
    /\ open \in BOOLEAN /\ running \in BOOLEAN /\ ap_vif \in BOOLEAN /\ beacon_enabled \in BOOLEAN
    /\ monitor_count \in 0..MaxMonitors
    /\ filter_flags \subseteq Flags
    /\ beacon_int \in Intervals \cup {100}
    /\ current_channel \in 0..14 /\ current_bw \in {0, 1}
    /\ cmd_seq \in 0..15 /\ faults \in 0..MaxFaults
    /\ radio \in [ch : 0..14, central : 0..14, bw : {0, 1}, power : 0..14]
    /\ stale \subseteq {"filter", "sync", "chan", "power", "chfreq"}
    /\ reg["RFCR"] \in {"reset", "init", "normal", "promisc", "promisc_fcsfail"}
    /\ reg["CHFREQ"] \in {0, 1}
    /\ reg["ARB_SCR"] \in {"sta", "ap"} /\ reg["BCNQ"] \in {"flushed", "started"}
    /\ reg["T0TPCR"] \in Intervals \cup {0, 100} /\ reg["MPTCR0"] \in {0, 153}

Init ==
    /\ open = FALSE /\ running = FALSE /\ monitor_count = 0 /\ filter_flags = {}
    /\ ap_vif = FALSE /\ beacon_enabled = FALSE /\ beacon_int = 100
    /\ current_channel = 0 /\ current_bw = 0 /\ cmd_seq = 0 /\ cmds = <<>>
    /\ reg = [RFCR |-> "reset", CHFREQ |-> 0, ARB_SCR |-> "sta", BCNQ |-> "flushed",
              T0TPCR |-> 0, MPTCR0 |-> 0]
    /\ radio = [ch |-> 0, central |-> 0, bw |-> 0, power |-> 0]
    /\ stale = {"filter", "chan", "power", "chfreq"} /\ faults = 0

-----------------------------------------------------------------------------
(* Sequences of register writes, of which the first n succeed.              *)

Write(r, v) == [reg |-> r, val |-> v]

Applied(old, ops, n) ==
    [r \in DOMAIN old |->
        IF \E i \in 1..n : ops[i].reg = r
        THEN ops[CHOOSE i \in 1..n : ops[i].reg = r].val ELSE old[r]]

Mark(what, bad) == IF bad THEN {what} ELSE {}

Fault(n) == faults + n <= MaxFaults /\ faults' = faults + n

(* build_rx_filter_sequence (RFCR1 is always 0).                            *)
FilterOps(promisc, fcs_fail) ==
    << Write("RFCR", IF ~promisc THEN "normal"
                     ELSE IF fcs_fail THEN "promisc_fcsfail" ELSE "promisc") >>

(* build_ap_bss_sync_sequence, without the two timers that stay as set.     *)
SyncOps(period, enable) ==
    IF enable
    THEN << Write("T0TPCR", IF period = 0 THEN 100 ELSE period), Write("MPTCR0", 153),
            Write("ARB_SCR", "ap"), Write("BCNQ", "started") >>
    ELSE << Write("T0TPCR", 0), Write("MPTCR0", 0),
            Write("ARB_SCR", "sta"), Write("BCNQ", "flushed") >>

(* The writes of build_mac_init_sequence to registers of this module.       *)
MacInitOps == << Write("ARB_SCR", "sta"), Write("RFCR", "init") >>

Program(what, ops) ==
    \E n \in 0..Len(ops) :
        /\ reg' = Applied(reg, ops, n)
        /\ stale' = (stale \ {what}) \cup Mark(what, n < Len(ops))
        /\ Fault(Cardinality(Mark(what, n < Len(ops))))

-----------------------------------------------------------------------------
(* The channel.                                                             *)

NextSeqNoWrap(s) == s + 1

NextSeq(s) == (s % 15) + 1

ClampChannel(c) == IF c < 1 \/ c > 14 THEN 1 ELSE c

ClampCentral(central, ch) == IF central < 1 \/ central > 14 THEN ch ELSE central

SwitchOpsClearArbiter == << Write("CHFREQ", 1), Write("ARB_SCR", "sta") >>

SwitchOpsNone == <<>>

(* No other register: the arbiter belongs to the firmware.                  *)
SwitchOps == << Write("CHFREQ", 1) >>

(* The channel named in the TX power command.                               *)
PowerChannel(ch, central) == ch

(* mt7603_set_channel_ext, with registers r and after the commands earlier, *)
(* and bad failures.                                                        *)
SetChannelExt(channel, bw, central_ch, r, earlier, bad) ==
    LET ch      == ClampChannel(channel)
        central == ClampCentral(central_ch, ch)
        s       == IF earlier = <<>> THEN cmd_seq ELSE earlier[Len(earlier)].seq
    IN  \E ok \in [{"chan", "chfreq", "power"} -> BOOLEAN] :
            /\ reg' = Applied(r, SwitchOps, IF ok["chfreq"] THEN Len(SwitchOps) ELSE 0)
            /\ radio' = [ch      |-> IF ok["chan"] THEN ch ELSE radio.ch,
                         central |-> IF ok["chan"] THEN central ELSE radio.central,
                         bw      |-> IF ok["chan"] THEN bw ELSE radio.bw,
                         power   |-> IF ok["power"] THEN PowerChannel(ch, central)
                                     ELSE radio.power]
            /\ cmds' = earlier \o << [cmd |-> "chan", seq |-> NextSeq(s)],
                                     [cmd |-> "power", seq |-> NextSeq(NextSeq(s))] >>
            /\ cmd_seq' = NextSeq(NextSeq(s))
            /\ stale' = (stale \ DOMAIN ok) \cup {g \in DOMAIN ok : ~ok[g]}
            /\ Fault(bad + Cardinality({g \in DOMAIN ok : ~ok[g]}))
            /\ current_channel' = ch /\ current_bw' = bw

(* mt7603_set_channel: 20 MHz.                                              *)
SetChannel(channel, r, earlier, bad) ==
    SetChannelExt(channel, 0, channel, r, earlier, bad)

CentralOfPrimary(d) == d.chan

CentralOf(d) ==
    IF d.width = 40 /\ d.center_freq1 >= 2412
    THEN (d.center_freq1 - 2407) \div 5 ELSE d.chan

(* mt7603_set_chandef.                                                      *)
SetChandef(d) ==
    SetChannelExt(d.chan, IF d.width = 40 THEN 1 ELSE 0, CentralOf(d), reg, <<>>, 0)

(* config: mac80211 says that the channel changed, or it differs.           *)
Config(d, changed) ==
    /\ open /\ (changed \/ d.chan # current_channel)
    /\ SetChandef(d)
    /\ UNCHANGED dev

(* bss_info_changed and sta_add tune to the channel of the BSS.             *)
BssTune(c) ==
    /\ open /\ c # current_channel
    /\ SetChannel(c, reg, <<>>, 0)
    /\ UNCHANGED dev

-----------------------------------------------------------------------------
(* The interfaces and their filter.                                         *)

StartCmdsReusing(eeprom_valid) ==
    << [cmd |-> "efuse", seq |-> NextSeq(cmd_seq)],
       [cmd |-> "radio", seq |-> NextSeq(cmd_seq)],
       [cmd |-> "edca",  seq |-> NextSeq(NextSeq(cmd_seq))] >>

(* The calibration data goes first, and only if the eFuse could be read.    *)
StartCmds(eeprom_valid) ==
    LET s1 == NextSeq(cmd_seq)
        s2 == NextSeq(s1)
    IN  IF eeprom_valid
        THEN << [cmd |-> "efuse", seq |-> s1], [cmd |-> "radio", seq |-> s2],
                [cmd |-> "edca", seq |-> NextSeq(s2)] >>
        ELSE << [cmd |-> "radio", seq |-> s1], [cmd |-> "edca", seq |-> s2] >>

(* start; the MAC init sequence overwrites the receive filter, which        *)
(* mac80211 then asks for.                                                  *)
Start ==
    /\ ~open /\ open' = TRUE /\ running' = TRUE
    /\ \E n \in 0..Len(MacInitOps), eeprom_valid \in BOOLEAN :
          SetChannel(1, Applied(reg, MacInitOps, n), StartCmds(eeprom_valid),
                     IF n < Len(MacInitOps) THEN 1 ELSE 0)
    /\ UNCHANGED <<monitor_count, filter_flags, ap_vif, beacon_enabled, beacon_int>>

(* start without a command buffer: -ENOMEM, but the device counts as        *)
(* running and a command number is spent.                                   *)
StartNoMemory ==
    /\ ~open /\ running' = TRUE
    /\ cmd_seq' = NextSeq(cmd_seq) /\ cmds' = <<>>
    /\ UNCHANGED <<open, monitor_count, filter_flags, ap_vif, beacon_enabled, beacon_int,
                   current_channel, current_bw, radio, reg, stale, faults>>

(* stop; mac80211 has removed all interfaces before.                        *)
Stop ==
    /\ open /\ monitor_count = 0 /\ ~ap_vif
    /\ open' = FALSE /\ running' = FALSE /\ beacon_enabled' = FALSE
    /\ cmds' = <<>>
    /\ UNCHANGED <<monitor_count, filter_flags, ap_vif, beacon_int, reg, stale, faults,
                   current_channel, current_bw, cmd_seq, radio>>

(* add_interface of a monitor; a device mac80211 holds started is running.  *)
AddMonitor ==
    /\ open /\ monitor_count < MaxMonitors
    /\ monitor_count' = monitor_count + 1
    /\ Program("filter", FilterOps(TRUE, "FCSFAIL" \in filter_flags))
    /\ UNCHANGED <<open, running, filter_flags, ap_vif, beacon_enabled, beacon_int, tune>>

(* remove_interface of a monitor; the last one takes the filter back.       *)
RemoveMonitor ==
    /\ open /\ monitor_count > 0
    /\ monitor_count' = monitor_count - 1
    /\ \/ monitor_count' = 0 /\ Program("filter", FilterOps(FALSE, FALSE))
       \/ monitor_count' > 0 /\ UNCHANGED <<reg, stale, faults>>
    /\ UNCHANGED <<open, running, filter_flags, ap_vif, beacon_enabled, beacon_int, tune>>

(* External: the argument that configure_filter tests is not the FIF flags  *)
(* (those are in *total_flags, which it only masks) but what                *)
(* prepare_multicast returned, and the driver has no prepare_multicast.     *)
Multicast == {}

Promisc(flags) == monitor_count > 0 \/ "BCN_PRBRESP_PROMISC" \in flags

ConfigureFilterFlagsOnly ==
    /\ running /\ filter_flags' = Multicast
    /\ Program("filter", FilterOps("BCN_PRBRESP_PROMISC" \in Multicast, "FCSFAIL" \in Multicast))
    /\ UNCHANGED <<open, running, monitor_count, ap_vif, beacon_enabled, beacon_int, tune>>

(* mt7603_mac80211_configure_filter.                                        *)
ConfigureFilter ==
    /\ filter_flags' = Multicast
    /\ \/ running /\ Program("filter", FilterOps(Promisc(Multicast), "FCSFAIL" \in Multicast))
       \/ ~running /\ UNCHANGED <<reg, stale, faults>>
    /\ UNCHANGED <<open, running, monitor_count, ap_vif, beacon_enabled, beacon_int, tune>>

-----------------------------------------------------------------------------
(* The access point. Its addresses are in StationTable, the beacon work in  *)
(* DeviceLifecycle.                                                         *)

AddAp ==
    /\ open /\ ~ap_vif /\ ap_vif' = TRUE
    /\ UNCHANGED <<open, running, monitor_count, filter_flags, beacon_enabled, beacon_int,
                   tune, reg, stale, faults>>

(* remove_interface; mac80211 has stopped the access point before.          *)
RemoveAp ==
    /\ ap_vif /\ ~beacon_enabled /\ ap_vif' = FALSE
    /\ beacon_enabled' = FALSE
    /\ UNCHANGED <<open, running, monitor_count, filter_flags, beacon_int, tune, reg, stale, faults>>

(* bss_info_changed with a BEACON flag and enable_beacon.                   *)
BeaconOn(i) ==
    /\ ap_vif /\ beacon_enabled' = TRUE
    /\ beacon_int' = IF i = 0 THEN 100 ELSE i
    /\ Program("sync", SyncOps(beacon_int', TRUE))
    /\ UNCHANGED <<open, running, monitor_count, filter_flags, ap_vif, tune>>

(* The same with BEACON_ENABLED and without enable_beacon.                  *)
BeaconOff ==
    /\ ap_vif /\ beacon_enabled /\ beacon_enabled' = FALSE
    /\ Program("sync", SyncOps(0, FALSE))
    /\ UNCHANGED <<open, running, monitor_count, filter_flags, ap_vif, beacon_int, tune>>

Next ==
    \/ Start
    \/ StartNoMemory
    \/ Stop
    \/ \E d \in ChanDefs, changed \in BOOLEAN : Config(d, changed)
    \/ \E d \in ChanDefs : BssTune(d.chan)
    \/ AddMonitor
    \/ RemoveMonitor
    \/ ConfigureFilter
    \/ AddAp
    \/ RemoveAp
    \/ \E i \in Intervals : BeaconOn(i)
    \/ BeaconOff

Spec == Init /\ [][Next]_vars

-----------------------------------------------------------------------------
(* Properties.                                                              *)

(* Once a filter was asked for after start, frames of other networks pass   *)
(* exactly while a monitor exists, and frames with a bad checksum never do, *)
(* in whichever order interfaces came and went and configure_filter ran.    *)
FilterFollowsMonitors ==
    "filter" \notin stale /\ reg["RFCR"] # "init" =>
        reg["RFCR"] = IF monitor_count > 0 THEN "promisc" ELSE "normal"

(* The beacon timer runs with the interval of the beacon work and the       *)
(* arbiter is in AP mode exactly while beacons are enabled: channel         *)
(* switches, filters and restarts leave them alone.                         *)
SyncFollowsBeacon ==
    running /\ "sync" \notin stale =>
        IF beacon_enabled
        THEN /\ reg["T0TPCR"] = beacon_int /\ reg["MPTCR0"] = 153
             /\ reg["ARB_SCR"] = "ap" /\ reg["BCNQ"] = "started"
        ELSE /\ reg["T0TPCR"] = 0 /\ reg["MPTCR0"] = 0
             /\ reg["ARB_SCR"] = "sta" /\ reg["BCNQ"] = "flushed"

(* current_channel, which stamps received frames and decides whether to     *)
(* tune again, is the firmware's channel unless the last switch was lost;   *)
(* the centre lies two channels off at 40 MHz and nowhere else.             *)
ChannelKnown ==
    "chan" \notin stale =>
        /\ radio.ch = current_channel /\ radio.bw = current_bw
        /\ radio.central - radio.ch \in IF radio.bw = 1 THEN {-2, 2} ELSE {0}

(* SPEC-MAC-004: a running receiver has its frequency bit, also when the    *)
(* switch command itself is lost.                                           *)
ReceiverHasFrequency == running /\ "chfreq" \notin stale => reg["CHFREQ"] = 1

(* Commands are numbered 1 to 15 in turn, across callbacks and failed       *)
(* starts, so that no two in a row share a number; calibration precedes the *)
(* first channel switch.                                                    *)
NumbersInTurn ==
    [][cmds' # cmds =>
        \A i \in DOMAIN cmds' :
            /\ cmds'[i].seq = ((cmd_seq + i - 1) % 15) + 1
            /\ cmds'[i].cmd = "efuse" => \A j \in DOMAIN cmds' : cmds'[j].cmd = "chan" => i < j]_vars

(* Driver, firmware and receiver agree about the channel: what              *)
(* set_channel_ext remembers is what the firmware was told, and the         *)
(* receiver has its frequency bit.                                          *)
ReceiverTuned == TypeOK /\ ChannelKnown /\ ReceiverHasFrequency
=============================================================================
