------------------------------ MODULE MgmtFrames ------------------------------
(***************************************************************************)
(* The management frames of ap.rs and sta.rs: the builders of beacons,      *)
(* probe requests and association responses, and the two parsers. A frame   *)
(* is built, travels, may arrive cut short or with a damaged element byte,  *)
(* and is parsed; the element walk of parse_beacon takes one element a step.*)
(*                                                                          *)
(* A frame is its header fields, its total length and the bytes from the    *)
(* first element on; the element bytes of a whole frame fill its length.    *)
(***************************************************************************)
EXTENDS Integers, Sequences

CONSTANTS Ssids,        \* names, as sequences of bytes
          Channels,
          Damage        \* values a damaged byte may take

Bytes == 0..255

ASSUME FramesAssumption ==
    /\ Channels \subseteq Bytes \ {0} /\ Damage \subseteq Bytes
    /\ \A s \in Ssids : s \in Seq(Bytes) /\ Len(s) < 256

VARIABLES
    pc,      \* "idle", "sent", "arrived", "walk" or "done"
    made,    \* what the sender asked for, and what happened to the frame
    buf,     \* frame_buf
    pos,     \* parse_beacon: the element to be looked at
    info,    \* parse_beacon: its result so far
    reach,   \* highest index of the frame that was read
    out,     \* *out_info, or the station parse_assoc_req reports
    parser,  \* which parser the frame was given to
    ret

vars == <<pc, made, buf, pos, info, reach, out, parser, ret>>

NoInfo == [bssid |-> "none", ssid |-> <<>>, channel |-> 0]
Earlier == [NoInfo EXCEPT !.bssid = "earlier"]
NoFrame == [fc |-> 0, addr2 |-> "none", addr3 |-> "none", len |-> 0, ies |-> <<>>]
Nothing == [kind |-> "none", ssid |-> <<>>, channel |-> 0, fits |-> TRUE, fate |-> "none"]

Init ==
    /\ pc = "idle" /\ made = Nothing /\ buf = NoFrame /\ pos = 0 /\ info = NoInfo
    /\ reach = 0 /\ out = NoInfo /\ parser = "none" /\ ret = 0

-----------------------------------------------------------------------------
(* Builders. An element is its number, its length and its payload.          *)

HDR == 24
FIXED == 12   \* timestamp, interval and capability of a beacon

(* util::copy_bytes, into a destination of the same length.                 *)
CopyBytes(src) == [k \in 1..Len(src) |-> src[k]]

(* The length byte is the length as u8.                                     *)
SsidIe(ssid) == <<0, Len(ssid) % 256>> \o CopyBytes(ssid)

RatesIe == <<1, 8, 130, 132, 139, 150, 36, 48, 72, 108>>

(* Mutant: the length of the channel element counts its own length byte. *)
DsIeLong(channel) == <<3, 2, channel>>

DsIe(channel) == <<3, 1, channel>>

Refused == [err |-> -28]

(* Mutant: the channel element is forgotten in the sum. *)
BeaconLenShort(n) == HDR + FIXED + 2 + n + 10

BeaconLen(n) == HDR + FIXED + 2 + n + 10 + 3

BuildBeacon(ssid, bssid, channel, room) ==
    IF room < BeaconLen(Len(ssid)) THEN Refused
    ELSE [err |-> 0,
          frame |-> [fc |-> 128, addr2 |-> bssid, addr3 |-> bssid, len |-> BeaconLen(Len(ssid)),
                     ies |-> SsidIe(ssid) \o RatesIe \o DsIe(channel)]]

(* The elements follow the header: there are no fixed fields.               *)
BuildProbeRequest(ssid, src, room) ==
    LET total == HDR + 2 + Len(ssid) + 10
    IN  IF room < total THEN Refused
        ELSE [err |-> 0, frame |-> [fc |-> 64, addr2 |-> src, addr3 |-> "broadcast",
                                    len |-> total, ies |-> SsidIe(ssid) \o RatesIe]]

(* Capability, status and association number make six bytes.                *)
BuildAssocResp(bssid, room) ==
    LET total == HDR + 6 + 10
    IN  IF room < total THEN Refused
        ELSE [err |-> 0, frame |-> [fc |-> 16, addr2 |-> bssid, addr3 |-> bssid,
                                    len |-> total, ies |-> RatesIe]]

(* External: a station's association (0x00) or reassociation (0x20) request.*)
AssocReq(fc, src, ssid) ==
    [fc |-> fc, addr2 |-> src, addr3 |-> "ap", len |-> HDR + 4 + 2 + Len(ssid),
     ies |-> SsidIe(ssid)]

(* The bytes before the elements.                                           *)
Before(kind) ==
    CASE kind = "beacon" -> HDR + FIXED
      [] kind = "probe_req" -> HDR
      [] kind = "assoc_resp" -> HDR + 6
      [] kind = "assoc_req" -> HDR + 4

(* The FFI builders: the frame goes out only when ret is 0.                 *)
RustBuild(kind, ssid, channel, room, result) ==
    /\ pc = "idle"
    /\ ret' = result.err
    /\ \/ /\ result.err = 0
          /\ buf' = result.frame /\ pc' = "sent"
          /\ made' = [kind |-> kind, ssid |-> ssid, channel |-> channel, fate |-> "whole",
                      fits |-> room >= Before(kind) + Len(result.frame.ies)]
       \/ result.err # 0 /\ UNCHANGED <<pc, made, buf>>
    /\ UNCHANGED <<pos, info, reach, out, parser>>

Rooms(total) == {total - 1, total, 512}

SendBeacon ==
    \E ssid \in Ssids, channel \in Channels : \E room \in Rooms(BeaconLen(Len(ssid))) :
        RustBuild("beacon", ssid, channel, room, BuildBeacon(ssid, "ap", channel, room))

SendProbeReq ==
    \E ssid \in Ssids : \E room \in Rooms(HDR + 2 + Len(ssid) + 10) :
        RustBuild("probe_req", ssid, 0, room, BuildProbeRequest(ssid, "sta", room))

SendAssocResp ==
    \E room \in Rooms(HDR + 16) :
        RustBuild("assoc_resp", <<>>, 0, room, BuildAssocResp("ap", room))

SendAssocReq ==
    \E ssid \in Ssids, fc \in {0, 32} :
        RustBuild("assoc_req", ssid, 0, 512, [err |-> 0, frame |-> AssocReq(fc, "sta", ssid)])

-----------------------------------------------------------------------------
(* External: the frame arrives whole, cut to n bytes, or with one byte of   *)
(* its elements replaced.                                                   *)

Arrive ==
    /\ pc = "sent" /\ pc' = "arrived"
    /\ LET before == Before(made.kind)
       IN  \/ UNCHANGED <<buf, made>>
           \/ \E n \in 0..(buf.len - 1) :
                 /\ buf' = [buf EXCEPT !.len = n,
                                       !.ies = SubSeq(@, 1, n - before)]
                 /\ made' = [made EXCEPT !.fate = "cut"]
           \/ \E k \in DOMAIN buf.ies, b \in Damage :
                 /\ buf' = [buf EXCEPT !.ies[k] = b]
                 /\ made' = [made EXCEPT !.fate = "damaged"]
    /\ UNCHANGED <<pos, info, reach, out, parser, ret>>

-----------------------------------------------------------------------------
(* parse_beacon.                                                            *)

(* Byte p of a frame whose elements start at 36; past the end it is no byte.*)
At(p) == IF p < buf.len THEN buf.ies[p - 35] ELSE 256

(* Mutant: the length is added in eight bits. *)
AdvanceWraps(ie_len) == (2 + ie_len) % 256

(* Mutant: the element's own two bytes are forgotten. *)
AdvanceNoHeader(ie_len) == ie_len

Advance(ie_len) == 2 + ie_len

(* Mutant: the element's own two bytes are forgotten in the check. *)
FitsLoose(p, ie_len) == ie_len # 0 /\ p + ie_len <= buf.len

Fits(p, ie_len) == ie_len # 0 /\ p + Advance(ie_len) <= buf.len

Payload(p, n) == [k \in 1..n |-> At(p + 1 + k)]

(* Mutant: a longer name is copied whole. *)
CopyLenUncapped(n) == n

CopyLen(n) == IF n < 32 THEN n ELSE 32

(* Mutant: the last name wins. *)
TakeElementLastSsid(i, ie_id, payload) ==
    IF ie_id = 0 THEN [i EXCEPT !.ssid = SubSeq(payload, 1, CopyLen(Len(payload)))]
    ELSE IF ie_id = 3 THEN [i EXCEPT !.channel = payload[1]]
    ELSE i

(* A second name falls through to the test for the channel element.         *)
TakeElement(i, ie_id, payload) ==
    IF ie_id = 0 /\ i.ssid = <<>>
    THEN [i EXCEPT !.ssid = SubSeq(payload, 1, CopyLen(Len(payload)))]
    ELSE IF ie_id = 3 THEN [i EXCEPT !.channel = payload[1]]
    ELSE i

(* mt7603_rust_parse_beacon: out_info is written only on success.           *)
Finish(result, r) ==
    /\ pc' = "done" /\ ret' = r
    /\ out' = IF r = 0 THEN result ELSE out

ParseBeacon ==
    /\ pc = "arrived" /\ made.kind = "beacon" /\ parser' = "beacon"
    /\ \/ /\ buf.len < 36
          /\ Finish(info, -22)
          /\ UNCHANGED <<pos, info, reach>>
       \/ /\ buf.len >= 36
          /\ pc' = "walk" /\ pos' = 36 /\ reach' = 35
          /\ info' = [NoInfo EXCEPT !.bssid = buf.addr3]
          /\ UNCHANGED <<out, ret>>
    /\ UNCHANGED <<made, buf>>

(* One turn of the loop: an element is taken, or the walk is over.          *)
Walk ==
    /\ pc = "walk"
    /\ LET ie_len == At(pos + 1)
       IN  \/ /\ pos + 2 <= buf.len /\ Fits(pos, ie_len)
              /\ info' = TakeElement(info, At(pos), Payload(pos, ie_len))
              /\ reach' = pos + 1 + ie_len
              /\ pos' = pos + Advance(ie_len)
              /\ UNCHANGED <<pc, out, ret>>
           \/ /\ pos + 2 > buf.len \/ ~Fits(pos, ie_len)
              /\ Finish(info, 0)
              /\ reach' = IF pos + 2 <= buf.len THEN pos + 1 ELSE reach
              /\ UNCHANGED <<info, pos>>
    /\ UNCHANGED <<made, buf, parser>>

(* Mutant: only the frame type is compared, not the subtype. *)
IsAssocReqAnyMgmt(fc) == (fc \div 4) % 4 = 0

(* fc & 0x00fc is 0x00 or 0x20.                                             *)
IsAssocReq(fc) == 4 * ((fc % 256) \div 4) \in {0, 32}

(* parse_assoc_req and its FFI entry; every received frame may be tried.    *)
ParseAssocReq ==
    /\ pc = "arrived" /\ parser' = "assoc_req"
    /\ Finish([NoInfo EXCEPT !.bssid = buf.addr2],
              IF buf.len < 28 \/ ~IsAssocReq(buf.fc) THEN -22 ELSE 0)
    /\ UNCHANGED <<made, buf, pos, info, reach>>

(* The caller is through with the frame; what the parser wrote stays, and   *)
(* of it only that it is from an earlier frame.                             *)
Forget ==
    /\ pc = "done" /\ pc' = "idle"
    /\ made' = Nothing /\ buf' = NoFrame /\ pos' = 0 /\ info' = NoInfo /\ reach' = 0
    /\ parser' = "none" /\ ret' = 0 /\ out' = Earlier

Next ==
    \/ SendBeacon \/ SendProbeReq \/ SendAssocResp \/ SendAssocReq
    \/ Arrive \/ ParseBeacon \/ Walk \/ ParseAssocReq \/ Forget

(* The walk is a loop of the parser's own thread.                           *)
Spec == Init /\ [][Next]_vars /\ WF_vars(Walk)

-----------------------------------------------------------------------------
(* Properties.                                                              *)

(* Types; a name is never longer than the 32 bytes of StaBssInfo.ssid.      *)
TypeOK ==
    /\ pc \in {"idle", "sent", "arrived", "walk", "done"} /\ ret \in {0, -22, -28}
    /\ made.fate \in {"none", "whole", "cut", "damaged"}
    /\ pos \in Nat /\ reach \in Nat /\ buf.len \in Nat
    /\ \A i \in {info, out} : /\ i.ssid \in Seq(Bytes) /\ Len(i.ssid) <= 32
                              /\ i.channel \in Bytes

(* A builder's total_len, which it compares with the buffer, is the length  *)
(* of what it then writes, so it never writes past the room it was given    *)
(* (build_beacon, build_probe_request, build_assoc_resp).                   *)
WritesWhatItSums ==
    pc = "sent" => /\ buf.len = Before(made.kind) + Len(buf.ies)
                   /\ made.fits

(* The walk of parse_beacon reads no byte outside the frame it was given,   *)
(* whatever lengths the elements claim.                                     *)
WalkWithinFrame == pc \in {"walk", "done"} /\ buf.len > 0 => reach < buf.len

First32(s) == IF Len(s) > 32 THEN SubSeq(s, 1, 32) ELSE s

(* A beacon of build_beacon that arrives whole is understood: name (at most *)
(* 32 bytes of it), channel and BSSID. An empty name is excepted: its       *)
(* element has length 0, which ends the walk.                               *)
IntactIsUnderstood ==
    pc = "done" /\ parser = "beacon" /\ made.fate = "whole" /\ made.ssid # <<>> =>
        /\ ret = 0
        /\ out = [bssid |-> "ap", channel |-> made.channel,
                  ssid |-> First32(made.ssid)]

(* A beacon that was cut short anywhere never yields part of a name or a    *)
(* channel nobody announced, even when the name's bytes look like elements. *)
TruncatedNeverLies ==
    pc = "done" /\ parser = "beacon" /\ made.fate = "cut" /\ ret = 0 =>
        /\ out.channel \in {0, made.channel}
        /\ out.ssid \in {<<>>, First32(made.ssid)}

(* No well formed element of the received frame starts at byte p.           *)
Ends(p) ==
    \/ p + 2 > buf.len
    \/ buf.ies[p - 34] = 0
    \/ p + 2 + buf.ies[p - 34] > buf.len

(* Where the elements of the received frame start, from byte q on and as    *)
(* far as they are well formed: the reference the walk is compared with.    *)
StartsFrom(q) ==
    LET from[p \in 36..(buf.len + 1)] ==
            IF Ends(p) THEN {} ELSE {p} \cup from[p + 2 + buf.ies[p - 34]]
    IN  from[q]

Starts == StartsFrom(36)

ElementsWithId(id) == {p \in Starts : buf.ies[p - 35] = id}

(* The payload of the element that starts at p.                             *)
Body(p) == SubSeq(buf.ies, p - 33, p - 34 + buf.ies[p - 34])

(* parse_beacon reports, for any damage and whatever it reported before,    *)
(* the first name and the last channel among the well formed elements.      *)
ReportsItsOwnFrame ==
    pc = "done" /\ parser = "beacon" /\ ret = 0 =>
        LET names == ElementsWithId(0)
            chans == ElementsWithId(3)
        IN  /\ out.bssid = "ap"
            /\ names = {} => out.ssid = <<>>
            /\ \A p \in names : (\A q \in names : p <= q) => out.ssid = First32(Body(p))
            /\ chans = {} => out.channel = 0
            /\ \A p \in chans : (\A q \in chans : q <= p) => out.channel = Body(p)[1]

(* parse_assoc_req accepts association and reassociation requests only: not *)
(* the access point's own responses and beacons, nor a probe request, cut   *)
(* or whole; and it reports the station that sent the request.              *)
OnlyRequestsAccepted ==
    pc = "done" /\ parser = "assoc_req" /\ ret = 0 =>
        made.kind = "assoc_req" /\ out.bssid = "sta"

(* The walk ends on every frame: no length an element can claim makes it    *)
(* stand still.                                                             *)
WalkEnds == pc = "walk" ~> pc = "done"

(* The parsers tell the truth about whole, cut and damaged frames.          *)
ParsersTellTheTruth ==
    TypeOK /\ IntactIsUnderstood /\ TruncatedNeverLies /\ ReportsItsOwnFrame
    /\ OnlyRequestsAccepted
===============================================================================
