# Verification of the mt7603u driver

This directory holds a TLA+ development for the MT7603U USB Wi-Fi driver: a
Linux kernel module whose C half (`src/c/`) talks to the USB core and mac80211
and whose Rust half (`src/rust/src/`) builds command frames and register
sequences and parses received frames. Paths below are relative to the
repository root.

## 1. The system

### Components, their state and operations

| component | code | state it keeps | operations |
|---|---|---|---|
| probe and firmware download | `src/c/usb.c`, `mcu.rs` | upload offset, response sessions on the stack, `SCH_REG4` of the chip | `mt7603u_probe`, `mt7603_download_firmware`, `mt7603_restart_dl_rsp`, `mt7603_rsp_submit/wait/complete`, `mt7603_poll_top_misc2` |
| device lifecycle | `src/c/mac80211.c`, `usb.c` (disconnect) | `running`, `ap_vif`, `beacon_enabled`, `rx_urbs[]`, `cmd_urb`, `tx_anchor`, `beacon_work` | `start`, `stop`, `add_interface`, `remove_interface`, beacon part of `bss_info_changed`, `mt7603_start_rx/stop_rx`, `tx`, completion handlers, `mt7603_unregister_mac80211`, `mt7603u_disconnect` |
| RX path | `mac80211.c` `mt7603_rx_complete`, `rx.rs` | the position in the current transfer | walk over an aggregate, TXS reports, descriptor parsing, delivery to mac80211 |
| TX path | `mac80211.c` `mt7603_mac80211_tx`, `tx.rs` | none but the anchored URB | header padding, endpoint and queue choice, TXD, status report |
| stations, keys, block-ack | `mac80211.c` `sta_add/sta_remove/set_key/ampdu_action/bss_info_changed`, `sta.rs`, `mac.rs` | WTBL1 entries 0 and 1, key SRAM, packet numbers, BA words, current-BSSID registers (all in the chip) | the callbacks named |
| channel and RX filter | `mac80211.c` `set_channel_ext/config/configure_filter`, `mac.rs` | `current_channel`, `monitor_count`, `filter_flags`, `RMAC_RFCR` | retune, promiscuous and normal filter |
| AP synchronisation | `bss_info_changed`, `ap.rs` | TBTT timers, beacon queue, `beacon_int` | BssSync enable and disable |
| MCU command frames | `mcu.rs` | `cmd_seq` | one builder per command |
| registers, eFuse | `regops.c`, `regmap.rs`, `eeprom.rs` | none | address map, read, write, sequences, eFuse polling |
| management frames | `ap.rs`, `sta.rs` | the position in the frame being parsed | `build_beacon`, `build_probe_request`, `build_assoc_resp`, `parse_beacon`, `parse_assoc_req` |
| FFI surface, module entry, user-space runner | `lib.rs`, `ffi.rs`, `util.rs`, `core.c`, `bin/user_runner.rs` | none | argument checks and layouts |

### How they interact

`mt7603u_probe` downloads the firmware, runs the MAC initialisation and
registers with mac80211. mac80211 then calls `start`, which sets `running` and
submits the RX URBs; the handlers resubmit themselves while `running` is set.
Frames enter the driver in `tx` (from mac80211's TX path, from several contexts
at once) and in the beacon work, a delayed work item that transmits a beacon and
re-arms itself. `stop`, `remove_interface` and `bss_info_changed` undo these, and
`mt7603u_disconnect` runs the same teardown from the USB hub's thread, without a
lock that mac80211's callbacks share. During the download, response URBs
complete in interrupt context into structures that live on the stack of the
probing thread.

### What is hard here

* two teardown paths that share `rx_urbs[]` without a lock;
* handlers and work items that re-arm themselves against code that stops them;
* waits on waits: `unregister_hw` waits for `stop`, which waits for the beacon
  work, the URBs and the TX anchor;
* an answer that arrives after its timeout, a command that failed after its
  response URB was submitted, a chip that acts on a restart late or never;
* error paths of long sequences that must still restore a hardware mode;
* lengths that come from a file, from the device or from the air;
* two computations, one in C and one in Rust, that must agree about the same
  padding and the same byte count;
* sequences of commands and registers whose results are ignored one by one, so
  that a failure shows up much later, if at all.

`PROJECT.json` lists each hazard at its line with the properties that would
catch it going wrong.

## 2. Modules

| module | models |
|---|---|
| `DeviceContract` | what the kernel may rely on: a closed device is silent, a released one stays silent (abstract specification) |
| `DeviceLifecycle` | URB ownership, TX callers, beacon work, every mac80211 callback that opens or closes something, and disconnect |
| `DeviceLifecycle_proofs` | theorems about it, the refinement of `DeviceContract` among them |
| `FirmwareDownload` | probe, download, response sessions, the chip's ROM as the code relies on it |
| `FirmwareDownload_proofs` | theorems about it |
| `RxDeagg`, `MCRxDeagg` | the walk over one bulk-IN transfer and the descriptor parser; descriptors for TLC |
| `RxDeagg_proofs` | theorems about it |
| `StationTable`, `MCStations` | WLAN table, key memory, block-ack word and BSSID registers as the callbacks program them; model values |
| `StationTable_proofs` | theorems about it |
| `RadioConfig`, `MCRadio` | channel, command numbers, receive filter and AP beacon timing; channel definitions |
| `RadioConfig_proofs` | theorems about it |
| `TxPath`, `MCTx` | descriptor, padding, transfer and status report of a frame; frames for TLC |
| `TxPath_proofs` | theorems about it |
| `McuFrames` | the command frames of `mcu.rs`, as header fields and payload |
| `MacRegs` | the address map of `regmap.rs` and the MAC sequences of `mac.rs` |
| `BringUp`, `MCBringUp` | composes the two: from the download's frames over eFuse and registration to a tuned radio; fuses and image lengths |
| `BringUp_proofs` | theorems about it, the address map and the command builders |
| `MgmtFrames`, `MCMgmt` | builders and parsers of management frames; names |
| `MgmtFrames_proofs` | theorems about it |

### DeviceLifecycle

State: `running`, `beacon_enabled`, `ap_vif` are the fields of
`struct mt7603u_dev`. Slot 0 is `cmd_urb`, slots 1..`NumRxUrbs` are `rx_urbs[]`;
`slot` is the pointer with its buffer ("null", "live", "freed"), `ust` is where the
URB is (idle, with the USB core, in its handler before or after the test of
`running`). `pc`, `op`, `idx` are the program counters of the two control threads,
`txpc` those of the TX callers, `bpc` that of the beacon work.

"ctl" stands for mac80211's callbacks, which the wiphy lock serialises; "disc" for
the USB disconnect thread. Every shared-memory access of these threads that another
actor can observe is a step of its own: reading the slot, killing, freeing and
clearing are four. Register and command writes of the callbacks belong to
the modules of the other components.

External behaviour, taken from how the driver uses it:

* USB core: without `soft_unbind` (`usb.c` 614-619) the endpoints are disabled and
  URBs flushed before `disconnect` is called; `usb_kill_urb` refuses resubmission
  and waits for the handler; `usb_kill_anchored_urbs` returns when the anchor is
  empty.
* work queue: `cancel_delayed_work_sync` dequeues the work, refuses re-queueing
  while it waits, and waits for a running execution.
* mac80211: no TX caller is inside `tx` when `stop` begins; `unregister_hw` stops an open device and makes no call afterwards; a
  `start` that returned an error is not followed by `stop`. mac80211 removes its interfaces
  before it calls `stop`; this module does not rely on it (its `stop` may find an AP
  interface and beacons), so the teardown is right without it. `RadioConfig` does rely on it.

`fault` records that a freed URB was used or freed again. This is undefined
behaviour, so a behaviour ends there, and what the passing runs show holds up to
such an event; run `lifecycle_race` shows that it can happen. `startFailed`
records that `start` returned -ENOMEM, which leaves `running` set and the RX URBs in
flight. `running` and `beacon_enabled` are set in one step where the code sets
them without a call in between.

### FirmwareDownload

State: `pc` walks the statements of `mt7603u_probe`, `mt7603_download_firmware` and the
helpers; `offset`, `polls`, `tail` (last word of the file) are its locals; `urb[u]` is
a response URB with its handler; `done`, `gateFired` are the completions.
`bypass`, `pse` stand for the bits of `SCH_REG4` (bypass mode and the forced queue are
set and cleared together). The chip is external: `mode`, `image`, `target`,
`stream`, `restartReq`, `startReq`. It acts on a restart late or never; the ROM starts
only a complete image with the length it expects; running firmware may leave bit 0 of
`TOP_MISC2` set; a transfer reported as failed may have arrived.

`Reprobe` binds the driver again on the same powered chip, whose state persists.
`dl_len = tail + 4` wraps at `WordSize` (2^32 in the code; the release build wraps).
A poll that ends by a read error or by `PollMax` misses takes the same exit.
The frame builders cannot fail here (the buffers are large enough, and
`mt7603u_probe` has verified the file's size), nor can the builder of the MAC sequence, which
fits its 128 slots: the early return at `usb.c` 579-583 has no action. Command sequence numbers are not
modelled. `gate` is uninitialised on the download path, so it holds any of
`GateValues` (section 5); `fault` is "wild_gate" when a handler completes such a pointer and
"dead_stack" when it writes into a stack frame that is gone. A behaviour ends there.

### RxDeagg

State: `at`, `end` are what the device placed in the transfer, `actual` is
`urb->actual_length`, `cur` is `cur_pos`, `out` the frames given to `ieee80211_rx`, `lost`
those without memory. One `Subframe` step is one iteration of the loop with the parser
inside; `WalkEnd` is its condition or a `break`. Bytes are lengths, and a descriptor
is the fields that steer the walk: `cnt` is `rx_byte_cnt`, `real` what was really placed, so
that a length field may lie. At a position without a descriptor the handler
reads payload, which may look like any descriptor. When the parser fails, `rx_info` is
uninitialised and read for a debug message only; that read is left out.

### StationTable

A callback becomes the list of its register accesses (`todo`); `Succeed` and `Fail`
perform them one by one, since the chip uses the table in between. `seq` says
which later accesses a failing one takes along: all of the same
`mt7603_execute_reg_ops` call, or the second half of the BSSID in
`bss_info_changed`. `err` is history: an access failed since a station interface last
rewrote everything in `sta_add`. Of a register only the fields are kept that some
callback distinguishes; an address word is the station it belongs to. The MBSSID
mask, the rate-control bits, the own-MAC registers and the RX part of `ampdu_action`
(a reset request to the chip) are left out.

Entry 0 serves group-addressed frames and entry 1 every unicast peer. `clients`, `ptk` and
`sess` are what mac80211 knows: the stations it has added, each one's pairwise key and its
block-ack sessions. `peer`, `hw` and `ba` are history: what the callbacks last asked of the
entries, for whichever client. With several clients of an access point the two differ: a
second `sta_add` takes entry 1 and its key away from the first client, any `sta_remove` clears
it, and one client's `set_key` puts its key under another's address (section 5). The
properties say what remains true then, and what holds while a station is alone (`Alone`).

External: a station interface has one peer, an access point any number of clients
(`MayAdd`); a station has one pairwise key, and its keys and sessions are taken back before it
is removed; a station's BSSID or association changes only before its keys exist. A group
key may replace another without removal. DW3 and DW4 ignore writes while
`PSM_W_FLAG` is clear. The key memory is not erased when a key is removed.

### RadioConfig

Every callback is one step in which commands and register writes may fail: `Program`
applies a prefix of a register sequence, `SetChannelExt` loses any of its command,
`RMAC_CHFREQ` write and power command. `stale` is history: what was not wholly programmed
when it was last asked for. `radio` is external: what the firmware made of the commands it
received. The tuning that `sta_add` and the association part of `bss_info_changed` do is
`BssTune`. Pre-TBTT interval and TSF mode, which are only ever set to one value, are left
out. `StartNoMemory` is the `-ENOMEM` exit of `start`, which leaves `running` set and a command number
spent while mac80211 counts the device as closed (`open`, external). `configure_filter` takes the
flags it tests from its fourth argument. mac80211 passes there what `prepare_multicast` returned, and
the driver has none, so the argument is 0 (`Multicast`, external); the FIF flags arrive in
`*total_flags`, which the code only masks. External: mac80211 removes interfaces before `stop` and
switches beacons off before it removes an access point.

### TxPath

State: `running`, `monitor_count`, `ap_vif`, `current_bw` are the fields `tx` looks at;
`fate[i]` says where frame `i` is (not yet handed over, in flight, reported to mac80211,
freed), `urb[i]` is its transfer with the lengths the driver saved in it, `back[i]` the
bytes that went back. `Tx` is all of `mt7603_mac80211_tx`: parameters, `build_txwi`,
header padding, TXD, byte count, tail padding; `TxComplete` is `mt7603_tx_complete`,
which undoes them. Header padding is summed up twice, in C for the buffer
(`TxHdrPadLen`) and in Rust for the descriptor (`HdrPadLen`), as in the code. Bytes of
a frame are numbers and what the driver adds is zero, so a byte that is moved or lost
shows. The descriptor is the record of the fields that some property or the chip
distinguishes; the TX-status request bits of data frames are left out. An allocation
that fails and a submission that fails have the same outcome here.

External: `OnAir` is how the chip cuts a frame out of a transfer; `ParseRate` is
`parse_rx_frame` of a station with the same chip, a reference for the rate tables.
`stop` kills the URBs while `running` is already cleared, so they complete as freed.

### McuFrames, MacRegs, BringUp

`McuFrames` has one operator per builder. A command is its header length, total length,
command numbers, and a body with what the firmware acts on; a builder returns an error
when the room it is given is too small, as `mcu.rs` does. `MacRegs` is `physical_addr_map`
and the register sequences, a word being a pair of 16-bit halves.

`BringUp` composes them. `pc` follows `mt7603u_probe` and `mt7603_register_mac80211`:
download, MAC initialisation, eFuse block by block, EEPROM parser, then `start`, channel
changes and `stop` in any order. `reg` is the chip's registers by *physical* address, so
that two addresses the map sends to one register would collide; `fw` is what the firmware
has been told; `rom` is what the boot ROM was announced and sent. An access after the
download may fail: a sequence stops after any number of writes, a command is lost, an
eFuse block is read in part. `done` is history: the sequences whose last execution was
not cut short. The download is walked frame by frame: `dl` holds the length, the offset and
the command number of `mt7603_download_firmware`, and a builder that refuses a frame ends
in `pc = "failed"`. Transfers of the download do not fail here, since their failures are the
subject of `FirmwareDownload`. `Execute` gives every register the last value a sequence
wrote to it, and `SendAll` sends the commands of a callback (five at most) one after the
other, any of which may be lost. The eFuse bytes the driver does not interpret are tags
that name their address.

### MgmtFrames

A frame is its header fields, length and the bytes of its elements. The actions send
one of the four kinds through its builder (with exactly enough room, one byte less, and
plenty), let it arrive whole, cut to any length or with one element byte replaced,
and give it to a parser; `Walk` is one turn of `parse_beacon`'s loop. `Starts` is the
reference: the positions at which a reader that goes from element to element
finds a whole one, independent of what the loop keeps. `reach` is
history: the highest index read. The driver's C half does not call these functions at this commit; the model
takes their callers from the FFI entries in `lib.rs`, which write their result only on success.
Timestamps, capability bits and the address fields no parser reads are left out.

## 3. Runs

| run | expects | shows |
|---|---|---|
| `lifecycle` | pass | after `stop`, `remove_interface`, beacon off or release nothing of the driver can run; `ap_vif` survives the beacon work; the driver implements `DeviceContract`; `stop` returns and an unplugged device is released: no wait is circular |
| `lifecycle_race` | violation | disconnect and a concurrent `start`/`stop` free or use the same URB |
| `firmware` | pass | success means the new image runs; the ROM is told to start only after the whole image in order; chunks stay inside the file; every exit restores `SCH_REG4`; restart URBs never outlive their frame; the download returns even if the chip is silent for ever |
| `firmware_handshake` | violation | the ROM-ready poll ignores RamRunning |
| `firmware_orphan` | violation | a failed command leaves its response URB in flight |
| `rx_walk` | pass | what reaches mac80211 consists of bytes of its own subframe, in order, once; nothing intact is missed, nothing invented; the walk ends |
| `stations` | pass | between callbacks, with any mix of clients sharing entry 1: it encrypts only with the whole key of a client that still has one and its block-ack word names only sessions some client has; a lone station's key, address and sessions are in place; entries without a key expect plaintext; links and BSSID are as asked; encryption is switched on last; an association repairs earlier failures |
| `stations_group_key` | violation | in AP mode a joining station puts the group key out of use |
| `radio` | pass | the driver knows the firmware's channel unless the last switch was lost; the receiver has its frequency bit; commands are numbered in turn, over failed starts too; the filter is promiscuous exactly while a monitor exists and beacon timing follows the last request, in every order of callbacks |
| `tx` | pass | the frame reported to mac80211 is the one it handed over, byte for byte; descriptor, padding and transfer agree, so the chip sends that frame; the rate is the one asked for; only a frame whose descriptor asks for an ACK is reported as acknowledged |
| `bringup` | pass | the ROM is sent what it was announced; the interface's address and the TX power come from this chip's eFuse or from the fallback; no channel is set before the calibration unless one of the two was lost; every command fits its buffer; the DMA scheduler's groups and pages are a partition whenever it is on; completed register sequences stay in force; the EDCA table is in priority order |
| `mgmt_frames` | pass | builders write what they sum up; the element walk ends, stays inside the frame and reports the first name and the last channel of the frame's well-formed elements; a truncated beacon never yields a partial name or a wrong channel; only association requests are accepted as such |

Two properties of `stations`, one of `radio`, three of `bringup` and one of
`mgmt_frames` are conjunctions of named parts that speak about one thing:
`KeysAsAsked` (`PairwiseKeyInPlace`, `NoKeyNoCipher`), `TableAsAsked` (`LinksProgrammed`,
`BaMatchesSessions`, `BssidFollowsRole`), `ReceiverTuned` (`ChannelKnown`,
`ReceiverHasFrequency`), `EfuseUsedRight` (`MacUsable`, `PowerFromFuse`),
`FirmwarePrepared` (`CalibratedFirst`, `FirmwareConfigured`, `EdcaInPriorityOrder`),
`RegistersConsistent` (`SchedulerPartitioned`, `SequencesInForce`) and
`ParsersTellTheTruth` (`IntactIsUnderstood`, `TruncatedNeverLies`, `ReportsItsOwnFrame`,
`OnlyRequestsAccepted`). The parts have mutants of their own. Their modules' type
invariants are checked as part of these conjunctions; that of `TxPath` is proved only.

### Bounds

`lifecycle`: `NumRxUrbs = 2` (with the command URB three slots, so a loop has a first,
a middle and a last one), one TX caller besides the beacon work, `MaxTxUrbs = 1` URB
on the anchor (the theorems hold for any number). The interesting races are between pairs of actors on one slot, which
one slot ahead and one behind suffices to show.
`firmware`: a file of 9 units, 3 per chunk; `Tails` {2, 4, 5, 6, 12, 14} give an
announced length that is an exact multiple of the chunk size, has a short last chunk,
is exactly the file, exceeds it, and wraps to 0 and to 2; `PollMax = 2`.
`rx_walk`: up to three subframes (one before, one damaged, one behind it), nine
descriptors (odd and even lengths, with and without groups, length fields that are
zero, too small to go on, shorter and longer than the truth) and cuts inside the
trailer, at it, and inside a frame.
`stations`: two peers, which an access point may have as clients at the same time, two
pairwise keys and two TIDs (each interchangeable, so symmetry applies), one group key, key index 1
(which differs from the reset value), one failure between associations. Two clients suffice to
show what one callback does to another's entry.
`radio`: channel 1 at 20 MHz and channel 6 at 40 MHz with its centre below and above,
two monitors (so that one can go while another stays), two intervals,
one fault.
`tx`: one frame identity, since frames share no state but the device's fields, which
change around it; frames with header lengths 24, 26 and 30, bodies of every length modulo
four, every legacy rate with both preambles and every MCS with both guard intervals.
`MaxHdr = 62` is what `hdr_info` can hold; `MaxLen = 8192` keeps the byte count inside 16
bits (the code's own test comes close to 65535, where the aligned count would wrap; see
section 5); `MaxMonitors = 1`, since only zero or not is distinguished.
`bringup`: 14 of the 64 eFuse blocks (byte 0xd6, in block 13, is the last one a command
uses), four fuses (empty bank, erased and zeroed address, an address with one usable byte, RSSI
offsets at and beyond the limit, blocks without content), images of 1 byte, of one full
payload, one byte more, and two full payloads, one failing access anywhere.
`mgmt_frames`: names of 0, 1, 2, 3, 5, 32 and 33 bytes, several of which look like element headers,
two channels, every cut, and one damaged byte with the values 0, 3, 254 and 255 (empty
element, channel element, and lengths whose sum with the header is 256 and 257).

### Fairness

`lifecycle`: weak fairness for threads inside the driver, TX callers inside
`tx`, running handlers and work and the giveback of killed or flushed URBs: the
kernel schedules its threads and the USB core gives back what it unlinks. Strong
fairness for the end of `usb_kill_anchored_urbs` on the disconnect path, which
rescans the anchor until it is empty, and for the `stop` that `unregister_hw` owes
after finitely many other callbacks. Nothing obliges mac80211 to call, data to arrive
or anyone to unplug. `DisconnectCompletes` also assumes that TX callers do not keep
the anchor occupied for ever.
`firmware`: the probing thread runs, killed URBs are given back and handlers
end; the chip owes nothing.
`rx_walk`: a completion handler that runs is not suspended for ever.
`mgmt_frames`: the parser's loop, once entered, is executed on.

## 4. Proofs

Every safety property of the passing runs is stated by a theorem, for every value of the
constants that satisfies the named `ASSUME`s of the modules: counts and bounds are naturals
(positive where the code's arrays are), the beacon work is no TX caller, tails are words,
gate values are the two kinds; `FramesAssumption` of TxPath says what a frame handed to `tx`
is (an even header length inside the frame, a multiple of four for management frames, no ACK
asked for a broadcast, a length of at most `MaxLen`, a rate that exists);
`ChanDefsAssumption` that a channel is one of 1..13 and its centre lies on it or two channels beside it;
`StationsAssumption` and `KeysAssumption` that stations and keys differ from the values that
stand for none; `FusesAssumption` that 14 to 64 blocks are read (0xd6 is the last byte a
command uses), that fuses hold bytes and that images are not empty; `FramesAssumption` of
MgmtFrames that names have a length that fits its byte and channels are bytes other than 0.

`LifecycleInv` (DeviceLifecycle) is the inductive invariant behind `TypeOK`,
`FreedMeansQuiet`, `StopLeavesQuiet`, `VifHeldDuringBeacon`, `BeaconOffIsOff` and the
refinement. None of these is inductive alone: that `stop` leaves the driver quiet
needs to know, at each statement of the teardown, which slots are already NULL
(`ProgressInv`), that a URB the driver does not hold is not with the USB core
(`UrbInv`), and who keeps the beacon work and the TX path silent meanwhile
(`SilenceInv`, `BeaconInv`). The proof has one step per action and, under it, one per
conjunct the action can disturb. `Refinement` maps `phase` and `busy` of
`DeviceContract` and shows every step to be a step or a stutter of it.

`DownloadInv` (FirmwareDownload) adds to the properties which URB of the restart can
be outstanding at which statement (`RestartInv`), what `SCH_REG4` holds at each
statement (`SchInv`), where the upload offset stands (`OffsetInv`) and what the ROM has
received so far (`RomInv`). It holds for every file size, payload limit, word size
and poll limit.

`DeaggInv` (RxDeagg) holds for any set of descriptors, any number of subframes and any
cut. `OwnBytesOnly` follows from the guards of one iteration; the other three need the
device's layout (`LayoutInv`: subframes follow each other without overlap), that the walk
stands at the start of a subframe as long as every length field it passed was honest
(`SyncInv`), and that what was due behind it was handed up (`DueInv`).

`Inv` (TxPath) holds for any set of frames that satisfies `FramesAssumption` and any number
of them in flight. That a reported frame is intact says nothing about the transfer it
came from, so it is not inductive; `Describes` supplies the relation between a
transfer and its frame: buffer, saved lengths and descriptor are what `Transfer` makes of the
frame, and a frame that mac80211 wants acknowledged has `no_ack` clear. From it, arithmetic lemmas on padding and
alignment (both sums of the header padding are equal and below four, the aligned count fits 16 bits,
`2 * hdr_info` is the header length) give `ChipSeesFrame`, and undoing the three paddings
one after the other gives `ReportedIntact`.

`RateIsAsRequested` needs the table that encodes a rate and the one that decodes it to be inverse
on the rates that exist: `HtRoundTrip` for every MCS by arithmetic, `CckRoundTrip` and
`OfdmRoundTrip` entry by entry. `Describes` carries the result to frames in flight.

`StationInv` (StationTable). `KeysAsAsked` and `TableAsAsked` speak of the moments between two
callbacks, so they say nothing about a callback in progress and are not inductive. The
invariant speaks of what the rest of the callback still owes. A goal is a
register field with the value it is to have; `Due` says that after the first n remaining accesses
the register shows it: one of them writes the value and none after it touches the
field, or none touches it and it is there already. `LinkInv`, `KeyInv`, `PeerInv`,
`BssidInv` and `BaInv` say that the goals of the table are due at the end of `todo`, and
`Ordered` that, before an access that switches encryption on, the key words and the
packet number are due, and before a write of a link its unlocking. `DueLater` shows that performing the first access keeps what is due; for
each callback, lemmas about its access list (`WtblList`, `WtblHits`, `SetKeyList`, `KeyHits`, ...)
show that it establishes the goals or leaves them alone. With an empty `todo` a goal that is due
is what the register shows, and `CipherComesLast` is `Ordered` at the first access.
All of this holds as long as `err` is clear, as in the properties. It speaks of what the entries
were last asked; the properties speak of the clients. `ClientInv` relates the two: a key or a session that
entry 1 was last asked belongs to some client, and when the station that last joined is the only one,
they are exactly its own. `VifInv` says that a station interface has no client but the entry's.

`RadioInv` (RadioConfig) adds to the properties that `filter_flags` stays the empty
multicast cookie (`FlagInv`), that beacons imply an AP interface, which implies a device that mac80211
holds started, which is running (`RoleInv`; the converse fails after a failed start), and the values of the timing and frequency registers (`SyncInv`, `FreqInv`).
`ProgramFilter`, `ProgramSync` and `ChannelSwitched` say once what a sequence does that may be cut
short after any write; the steps of the proof cite them. `CommandsInTurn` is an action property: every
command list of a step is numbered from `cmd_seq` on, and the calibration precedes the channel.

`BringInv` (BringUp). Its parts:

* `RegInv`: a sequence that was executed whole is still in force although others wrote since, and the
  scheduler is off or has all its groups and pages. It needs the address map to be injective on every
  address the driver writes (`MapInjective`: the ranges of `regmap.rs` are apart, and so are their images),
  so that no sequence reaches another's register through an alias, and that a register holds the last value
  written to it (`Executed`), also when the sequence was cut (`InitRun`: the sequence writes
  `SCH_REG4` once, after the scheduler's tables). `SharesFit` computes the partition from the words of the sequence.
* `DlInv`: during the upload the ROM misses exactly `dl.len - dl.offset` bytes and no builder
  refuses a frame (`RestartFrame`, `AddrLenFrame`, `ScatterFrame`, `StartFrame`: the frame fits the
  buffer the C half passes), so that `pc` is never "failed".
* `ImageOk`, `EfuseStage`: a byte of `dev->eeprom` is the fuse's or, behind the last block read,
  still 0xff; the image counts as valid only after the last block.
* `FwInv`: what the firmware was told comes from the driver's tables and this image, and an open
  device has been told everything or a command was lost. `SendKeeps` shows it for one command,
  `ChannelSends`, `TuneSends` and `StartSends` for the lists the callbacks send.

`FramesInv` (MgmtFrames). The three properties speak about finished parses. During a walk, `WalkInv` says
that the loop stands at the start of an element of the reference list (`Starts`) and has reported
what the elements behind it say; `StandInv` says, for a beacon that is whole or cut, at which of its four element
boundaries the loop stands. `BeaconInv` relates the received bytes to the request. The reference
list is a recursive function; that its equation has a solution (`StartsUnfold`) is shown with the least
number principle, without an induction over data.

Only model-checked are the liveness properties (`StopReturns`, `DisconnectCompletes`, both
`WalkEnds`, `DownloadReturns`): fairness and ENABLED are outside the prover. The four runs that
expect a violation have nothing to prove.

## 5. Findings

`PROJECT.json` quotes the lines. In short: `mt7603_unregister_mac80211` frees RX URBs
before `ieee80211_unregister_hw` and without a lock (`lifecycle_race`); the
ROM-ready poll ignores RamRunning (`firmware_handshake`); a command that fails leaves
its response URB in flight with a context on a stack that goes away
(`firmware_orphan`); `sta_add` of an access point rewrites the broadcast entry and drops
the group key (`stations_group_key`).

Observed while modelling, without a run of their own:

* Firmware: `rsp.gate` is never set on the download path (`usb.c` 377), so the handler
  tests an uninitialised pointer; the model keeps both outcomes (`GateValues`).
* Keys: `set_key` ignores failing register accesses and names the slot anyway
  (`mac80211.c` 1229, against its comments at 1211-1213 and 1267).
* Radio: at 40 MHz the TX power command gets the primary channel (`mac80211.c` 414),
  where `mcu.spec.md` 247 and `mt7603u_rust.h` 81 speak of the central one.
* Filter: `configure_filter` tests mac80211's multicast argument, which is always 0 here, instead
  of `*total_flags` (`mac80211.c` 646-663). `FIF_FCSFAIL` therefore never reaches `RMAC_RFCR`, where
  `specs/schemas/registers.md` 145 gives it a value, and a scan (`FIF_BCN_PRBRESP_PROMISC`) never makes
  the filter promiscuous. `FilterFollowsMonitors` states what the code does: only monitors count.
* Several clients of an access point share entry 1 (`mac80211.c` 1147-1149, 1165-1167, 1187-1193),
  against `README.md` 27 ("multi-client association") and Milestone 3 at `docs/roadmap.md` 40. A second `sta_add`
  gives the entry to the new client, without cipher and without block-ack sessions; any `sta_remove` clears
  it; `set_key` for one client writes its key into the entry that has another's address. `KeysAsAsked`
  and `TableAsAsked` therefore promise a client its key and sessions only while it is alone.
* AP: `remove_interface` and `stop` do not execute the BssSync disable sequence that
  `specs/modules/ap.spec.md` line 46 asks for there; as long as mac80211 switches
  beacons off first and no write fails, the registers end up the same
  (`SyncFollowsBeacon`).
* TX: with a monitor beside a station every frame counts as injected
  (`mac80211.c` 940-946) and leaves through entry 0, also when it is to be encrypted. After
  `usb_submit_urb` the message at 1091 reads `skb->len` of a frame that may be gone.
  `build_txwi` tests `pkt_len + 32` but writes a count that includes the header padding
  (`tx.rs` 63 and 81), and the C half's alignment could wrap 16 bits: both only beyond the
  frame sizes mac80211 uses. Injected data frames use endpoint 5, where a comment
  says 8.
* Registers: `USB_DMA_CFG` (0x24000, `mac.rs` 81) maps into another block than its
  comment suggests; the comment at `regops.c` 60-63 describes a remapping of 0x50029018
  that `regmap.rs` does not do.
* eFuse: a read that fails half way leaves `dev->eeprom` partly filled although the message
  says that a dummy image is used, and the power command reads it (`PowerFromFuse`
  states what remains true: the other bytes are 0xff).
* MCU: `mcu.spec.md`, Scenario 4b, says the restart frame has 32 bytes; the code sends 12.
* Management frames: an empty (hidden) name ends `parse_beacon`'s walk, so the channel
  is not found (`sta.rs` 74; `IntactIsUnderstood` excepts it); `parse_beacon` does not
  look at the frame control field.

## 6. Plan

Done: lifecycle, firmware download, RX walk, station table, radio configuration, TX path,
bring-up (command frames, registers, eFuse), management frames. Next:

1. A composition of `StationTable` with `TxPath`: which entry and key a frame meets
   while a key is being replaced.
2. A theorem about that composition: no data frame leaves unencrypted between the two halves
   of a key replacement, from `Ordered` of `StationTable` and `Describes` of `TxPath`.

## 7. Not modelled, and why

* `core.c` registers the USB driver and keeps no state.
* `bin/user_runner.rs` is a development tool outside the driver: it runs the frame
  builders on a libusb handle once, in a straight line.
* The pointer checks and structure layouts of the FFI (`lib.rs`, `ffi.rs`): stateless, and
  every caller in `src/c` passes pointers to its own objects. The result convention of the
  builders and parsers is modelled (`RustCommandFrame`, `RustDownloadFrame`,
  `RustBuildTxwi`, `RustBuild`, `Finish`).
* `build_ch_privilege_cmd`, which nothing calls.
* Bit positions inside the TXD and the command headers (layout), debug output and messages.
* Continued reception after failed resubmissions, and frames in flight during a channel
  change: the code makes no promise about either (see the hazards' notes).
