----------------------- MODULE FirmwareDownload_proofs -----------------------
(***************************************************************************)
(* Proofs about FirmwareDownload for every firmware size, payload limit,   *)
(* word size and poll limit. DownloadInv is the inductive invariant; each  *)
(* of its parts is preserved by a lemma of its own, with one step per      *)
(* group of actions.                                                       *)
(***************************************************************************)
EXTENDS FirmwareDownload, TLAPS

(* The download length is a u32.                                            *)
LEMMA DlLenType == ASSUME tail \in Tails PROVE DlLen \in 0..(WordSize - 1)
    BY TailsAssumption, WordSizeAssumption DEF DlLen

(* Nothing has been received yet.                                           *)
LEMMA EmptyStream == <<>> \in Seq(Chunks) /\ InOrder(<<>>) /\ EndOf(<<>>) = 0
    BY DEF InOrder, EndOf

(* A chunk appended at the end of an ordered stream keeps it ordered.       *)
LEMMA AppendInOrder ==
    ASSUME NEW s \in Seq(Chunks), NEW n \in Nat, InOrder(s)
    PROVE  LET t == Append(s, [off |-> EndOf(s), len |-> n])
           IN  t \in Seq(Chunks) /\ InOrder(t) /\ EndOf(t) = EndOf(s) + n
<1> DEFINE t == Append(s, [off |-> EndOf(s), len |-> n])
<1>1. EndOf(s) \in Nat
    <2>1. CASE s = <<>>
        BY <2>1 DEF EndOf
    <2>2. CASE s # <<>>
        <3>1. s[Len(s)] \in Chunks
            BY <2>2
        <3>2. QED
            BY <2>2, <3>1 DEF EndOf, Chunks
    <2>3. QED
        BY <2>1, <2>2
<1>2. t \in Seq(Chunks) /\ Len(t) = Len(s) + 1 /\ t # <<>>
    BY <1>1 DEF Chunks
<1>3. \A k \in 1..Len(s) : t[k] = s[k]
    BY <1>1 DEF Chunks
<1>4. t[Len(t)] = [off |-> EndOf(s), len |-> n]
    BY <1>1, <1>2
<1>5. EndOf(t) = EndOf(s) + n
    BY <1>2, <1>4 DEF EndOf
<1>6. ASSUME NEW k \in 1..Len(t)
      PROVE  t[k].off = IF k = 1 THEN 0 ELSE t[k - 1].off + t[k - 1].len
    <2>1. CASE k \in 1..Len(s)
        BY <1>3, <2>1 DEF InOrder
    <2>2. CASE k = Len(s) + 1 /\ s = <<>>
        BY <1>2, <1>4, <2>2 DEF EndOf
    <2>3. CASE k = Len(s) + 1 /\ s # <<>>
        <3>1. k # 1 /\ k - 1 \in 1..Len(s) /\ k - 1 = Len(s)
            BY <2>3
        <3>2. t[k].off = s[Len(s)].off + s[Len(s)].len
            BY <1>2, <1>4, <2>3 DEF EndOf
        <3>3. QED
            BY <1>3, <3>1, <3>2
    <2>4. QED
        BY <1>2, <2>1, <2>2, <2>3
<1>7. QED
    BY <1>2, <1>5, <1>6 DEF InOrder

(* The flags stay Boolean.                                                  *)
LEMMA FlagsStep == FlagsOK /\ [Next]_vars => FlagsOK'
<1> SUFFICES ASSUME FlagsOK, [Next]_vars PROVE FlagsOK'
    OBVIOUS
<1> USE DEF Goto, Proceed, Fail, driver, rsp, sch, rom, chip
<1>1. CASE ProbeRequest \/ EnableUdma \/ CheckRunning
    BY <1>1, Zenon
    DEF FlagsOK, ProbeRequest, EnableUdma, CheckRunning
<1>2. CASE RestartStep
    BY <1>2, Zenon
    DEF FlagsOK, RestartStep, RestartSubmit84, RestartSubmit85, RestartSend,
           RestartWait, RestartKill, RspSubmit, Send, RecvRestart
<1>3. CASE SetBypass \/ AllocCmd
    BY <1>3, Zenon
    DEF FlagsOK, SetBypass, AllocCmd
<1>4. CASE RomPoll \/ RamPoll
    BY <1>4, Zenon
    DEF FlagsOK, RomPoll, RamPoll, Poll, RomReady, RamRunning
<1>5. CASE AddrLenSubmit \/ StartSubmit
    BY <1>5, Zenon
    DEF FlagsOK, AddrLenSubmit, StartSubmit, RspSubmit
<1>6. CASE AddrLenSend
    BY <1>6, Zenon
    DEF FlagsOK, AddrLenSend, Send, RecvAddrLen
<1>7. CASE AddrLenWait \/ StartWait \/ CheckLen
    BY <1>7, Zenon
    DEF FlagsOK, AddrLenWait, StartWait, RspWait, CheckLen
<1>8. CASE Scatter
    BY <1>8, Zenon
    DEF FlagsOK, Scatter, RecvChunk, SmallerOf
<1>9. CASE StartSend
    BY <1>9, Zenon
    DEF FlagsOK, StartSend, Send, RecvStart
<1>10. CASE RestoreRead \/ RestoreWrite
    BY <1>10, Zenon
    DEF FlagsOK, RestoreRead, RestoreWrite, WriteSch, AfterDownload
<1>11. CASE MacInit \/ Register \/ Reprobe
    BY <1>11, Zenon
    DEF FlagsOK, MacInit, Register, Reprobe
<1>12. CASE ChipStep
    BY <1>12, Zenon
    DEF FlagsOK, ChipStep, ChipBoot, ChipRestart, ChipStart
<1>13. CASE \E u \in Urbs : UrbArrives(u) \/ Handler(u)
    BY <1>13, Zenon
    DEF FlagsOK, UrbArrives, Handler, HandlerResubmits, HandlerCompletes,
           HandlerGate, HandlerInDeadFrame
<1>14. CASE UNCHANGED vars
    BY <1>14, Zenon
    DEF FlagsOK, vars
<1>15. QED
    BY <1>1, <1>2, <1>3, <1>4, <1>5, <1>6, <1>7, <1>8, <1>9, <1>10, <1>11,
           <1>12, <1>13, <1>14 DEF Next, ProbeStep, UploadStep, Undefined

(* Every other variable keeps its range.                                    *)
LEMMA ShapesStep == ShapesOK /\ [Next]_vars => ShapesOK'
<1> SUFFICES ASSUME ShapesOK, [Next]_vars PROVE ShapesOK'
    OBVIOUS
<1> USE DEF Goto, Proceed, Fail, driver, rsp, sch, rom, chip
<1>1. CASE ProbeRequest \/ EnableUdma \/ CheckRunning
    BY <1>1, PollMaxAssumption DEF ShapesOK, Urbs, RestartUrbs, RspUrbs,
           NoTarget, RestartPCs, UploadPCs, RestorePCs, DownloadPCs, ProbePCs,
           ProbeRequest, EnableUdma, CheckRunning
<1>2. CASE RestartStep
    BY <1>2 DEF ShapesOK, Urbs, RestartUrbs, RspUrbs, NoTarget, RestartPCs,
           UploadPCs, RestorePCs, DownloadPCs, ProbePCs, RestartStep,
           RestartSubmit84, RestartSubmit85, RestartSend, RestartWait,
           RestartKill, RspSubmit, Send, RecvRestart
<1>3. CASE SetBypass \/ AllocCmd
    BY <1>3 DEF ShapesOK, Urbs, RestartUrbs, RspUrbs, NoTarget, RestartPCs,
           UploadPCs, RestorePCs, DownloadPCs, ProbePCs, SetBypass, AllocCmd
<1>4. CASE RomPoll \/ RamPoll
    BY <1>4, PollMaxAssumption DEF ShapesOK, Urbs, RestartUrbs, RspUrbs,
           NoTarget, RestartPCs, UploadPCs, RestorePCs, DownloadPCs, ProbePCs,
           RomPoll, RamPoll, Poll, RomReady, RamRunning
<1>5. CASE AddrLenSubmit \/ StartSubmit
    BY <1>5 DEF ShapesOK, Urbs, RestartUrbs, RspUrbs, NoTarget, RestartPCs,
           UploadPCs, RestorePCs, DownloadPCs, ProbePCs, AddrLenSubmit,
           StartSubmit, RspSubmit
<1>6. CASE AddrLenSend
    <2>1. target' \in {NoTarget} \cup 0..(WordSize - 1) /\ stream' \in Seq(Chunks)
        BY <1>6, DlLenType, EmptyStream
        DEF ShapesOK, AddrLenSend, Send, RecvAddrLen
    <2>2. QED
        BY <1>6, <2>1
        DEF ShapesOK, RestartPCs, UploadPCs, RestorePCs, DownloadPCs, ProbePCs,
            AddrLenSend, Send, RecvAddrLen
<1>7. CASE AddrLenWait \/ StartWait \/ CheckLen
    BY <1>7 DEF ShapesOK, Urbs, RestartUrbs, RspUrbs, NoTarget, RestartPCs,
           UploadPCs, RestorePCs, DownloadPCs, ProbePCs, AddrLenWait,
           StartWait, RspWait, CheckLen
<1>8. CASE Scatter
    <2>1. DlLen \in Nat
        BY DlLenType, WordSizeAssumption DEF ShapesOK
    <2>2. CASE offset < DlLen
        <3> DEFINE n == SmallerOf(DlLen - offset, MaxPayload)
        <3>1. n \in Nat /\ offset \in Nat
            BY <2>1, <2>2, MaxPayloadAssumption DEF SmallerOf, ShapesOK
        <3>2. Append(stream, [off |-> offset, len |-> n]) \in Seq(Chunks)
            BY <3>1 DEF Chunks, ShapesOK
        <3>3. stream' \in Seq(Chunks)
            BY <1>8, <2>2, <3>2 DEF Scatter, RecvChunk, ShapesOK
        <3>4. offset' \in Nat
            BY <1>8, <2>1, <2>2, <3>1 DEF Scatter
        <3>5. QED
            BY <1>8, <2>2, <3>3, <3>4
            DEF ShapesOK, RestartPCs, UploadPCs, RestorePCs, DownloadPCs, ProbePCs,
                Scatter, RecvChunk
    <2>3. CASE ~(offset < DlLen)
        BY <1>8, <2>3
        DEF ShapesOK, RestartPCs, UploadPCs, RestorePCs, DownloadPCs, ProbePCs,
            Scatter
    <2>4. QED
        BY <2>2, <2>3
<1>9. CASE StartSend
    BY <1>9 DEF ShapesOK, Urbs, RestartUrbs, RspUrbs, NoTarget, RestartPCs,
           UploadPCs, RestorePCs, DownloadPCs, ProbePCs, StartSend, Send,
           RecvStart
<1>10. CASE RestoreRead \/ RestoreWrite
    BY <1>10 DEF ShapesOK, Urbs, RestartUrbs, RspUrbs, NoTarget, RestartPCs,
           UploadPCs, RestorePCs, DownloadPCs, ProbePCs, RestoreRead,
           RestoreWrite, WriteSch, AfterDownload
<1>11. CASE MacInit \/ Register \/ Reprobe
    BY <1>11 DEF ShapesOK, Urbs, RestartUrbs, RspUrbs, NoTarget, RestartPCs,
           UploadPCs, RestorePCs, DownloadPCs, ProbePCs, MacInit, Register,
           Reprobe
<1>12. CASE ChipStep
    <2>1. target' \in {NoTarget} \cup 0..(WordSize - 1) /\ stream' \in Seq(Chunks)
        BY <1>12, EmptyStream
        DEF ShapesOK, ChipStep, ChipBoot, ChipRestart, ChipStart
    <2>2. QED
        BY <1>12, <2>1
        DEF ShapesOK, ChipStep, ChipBoot, ChipRestart, ChipStart
<1>13. CASE \E u \in Urbs : UrbArrives(u) \/ Handler(u)
    BY <1>13 DEF ShapesOK, Urbs, RestartUrbs, RspUrbs, NoTarget, RestartPCs,
           UploadPCs, RestorePCs, DownloadPCs, ProbePCs, UrbArrives, Handler,
           HandlerResubmits, HandlerCompletes, HandlerGate, HandlerInDeadFrame
<1>14. CASE UNCHANGED vars
    BY <1>14 DEF ShapesOK, Urbs, RestartUrbs, RspUrbs, NoTarget, RestartPCs,
           UploadPCs, RestorePCs, DownloadPCs, ProbePCs, vars
<1>15. QED
    BY <1>1, <1>2, <1>3, <1>4, <1>5, <1>6, <1>7, <1>8, <1>9, <1>10, <1>11,
           <1>12, <1>13, <1>14 DEF Next, ProbeStep, UploadStep, Undefined

(* mt7603_restart_dl_rsp kills what it submitted.                           *)
LEMMA RestartStepInv == ShapesOK /\ RestartInv /\ [Next]_vars => RestartInv'
<1> SUFFICES ASSUME ShapesOK, RestartInv, [Next]_vars PROVE RestartInv'
    OBVIOUS
<1> USE DEF Goto, Proceed, Fail, driver, rsp, sch, rom, chip
<1>1. CASE ProbeRequest \/ EnableUdma \/ CheckRunning
    BY <1>1 DEF ShapesOK, RestartInv, Urbs, RestartUrbs, RspUrbs, RestartPCs,
           UploadPCs, RestorePCs, DownloadPCs, ProbePCs, ProbeRequest,
           EnableUdma, CheckRunning
<1>2. CASE RestartStep
    BY <1>2 DEF ShapesOK, RestartInv, Urbs, RestartUrbs, RspUrbs, RestartPCs,
           UploadPCs, RestorePCs, DownloadPCs, ProbePCs, RestartStep,
           RestartSubmit84, RestartSubmit85, RestartSend, RestartWait,
           RestartKill, RspSubmit, Send, RecvRestart
<1>3. CASE SetBypass \/ AllocCmd
    BY <1>3 DEF ShapesOK, RestartInv, Urbs, RestartUrbs, RspUrbs, RestartPCs,
           UploadPCs, RestorePCs, DownloadPCs, ProbePCs, SetBypass, AllocCmd
<1>4. CASE RomPoll \/ RamPoll
    BY <1>4 DEF ShapesOK, RestartInv, Urbs, RestartUrbs, RspUrbs, RestartPCs,
           UploadPCs, RestorePCs, DownloadPCs, ProbePCs, RomPoll, RamPoll,
           Poll, RomReady, RamRunning
<1>5. CASE AddrLenSubmit \/ StartSubmit
    BY <1>5 DEF ShapesOK, RestartInv, Urbs, RestartUrbs, RspUrbs, RestartPCs,
           UploadPCs, RestorePCs, DownloadPCs, ProbePCs, AddrLenSubmit,
           StartSubmit, RspSubmit
<1>6. CASE AddrLenSend
    BY <1>6 DEF ShapesOK, RestartInv, Urbs, RestartUrbs, RspUrbs, RestartPCs,
           UploadPCs, RestorePCs, DownloadPCs, ProbePCs, AddrLenSend, Send,
           RecvAddrLen
<1>7. CASE AddrLenWait \/ StartWait \/ CheckLen
    BY <1>7 DEF ShapesOK, RestartInv, Urbs, RestartUrbs, RspUrbs, RestartPCs,
           UploadPCs, RestorePCs, DownloadPCs, ProbePCs, AddrLenWait,
           StartWait, RspWait, CheckLen
<1>8. CASE Scatter
    BY <1>8 DEF ShapesOK, RestartInv, Urbs, RestartUrbs, RspUrbs, RestartPCs,
           UploadPCs, RestorePCs, DownloadPCs, ProbePCs, Scatter, RecvChunk,
           SmallerOf
<1>9. CASE StartSend
    BY <1>9 DEF ShapesOK, RestartInv, Urbs, RestartUrbs, RspUrbs, RestartPCs,
           UploadPCs, RestorePCs, DownloadPCs, ProbePCs, StartSend, Send,
           RecvStart
<1>10. CASE RestoreRead \/ RestoreWrite
    BY <1>10 DEF ShapesOK, RestartInv, Urbs, RestartUrbs, RspUrbs, RestartPCs,
           UploadPCs, RestorePCs, DownloadPCs, ProbePCs, RestoreRead,
           RestoreWrite, WriteSch, AfterDownload
<1>11. CASE MacInit \/ Register \/ Reprobe
    BY <1>11 DEF ShapesOK, RestartInv, Urbs, RestartUrbs, RspUrbs, RestartPCs,
           UploadPCs, RestorePCs, DownloadPCs, ProbePCs, MacInit, Register,
           Reprobe
<1>12. CASE ChipStep
    BY <1>12 DEF ShapesOK, RestartInv, Urbs, RestartUrbs, RspUrbs, RestartPCs,
           UploadPCs, RestorePCs, DownloadPCs, ProbePCs, ChipStep, ChipBoot,
           ChipRestart, ChipStart
<1>13. CASE \E u \in Urbs : UrbArrives(u) \/ Handler(u)
    BY <1>13 DEF ShapesOK, RestartInv, Urbs, RestartUrbs, RspUrbs, RestartPCs,
           UploadPCs, RestorePCs, DownloadPCs, ProbePCs, UrbArrives, Handler,
           HandlerResubmits, HandlerCompletes, HandlerGate, HandlerInDeadFrame
<1>14. CASE UNCHANGED vars
    BY <1>14 DEF ShapesOK, RestartInv, Urbs, RestartUrbs, RspUrbs, RestartPCs,
           UploadPCs, RestorePCs, DownloadPCs, ProbePCs, vars
<1>15. QED
    BY <1>1, <1>2, <1>3, <1>4, <1>5, <1>6, <1>7, <1>8, <1>9, <1>10, <1>11,
           <1>12, <1>13, <1>14 DEF Next, ProbeStep, UploadStep, Undefined

(* SCH_REG4 follows the statements of the download.                         *)
LEMMA SchStep == ShapesOK /\ SchInv /\ [Next]_vars => SchInv'
<1> SUFFICES ASSUME ShapesOK, SchInv, [Next]_vars PROVE SchInv'
    OBVIOUS
<1> USE DEF Goto, Proceed, Fail, driver, rsp, sch, rom, chip
<1>1. CASE ProbeRequest \/ EnableUdma \/ CheckRunning
    BY <1>1 DEF SchInv, RestartPCs, UploadPCs, RestorePCs, DownloadPCs,
           ProbePCs, ProbeRequest, EnableUdma, CheckRunning
<1>2. CASE RestartStep
    BY <1>2 DEF SchInv, RestartPCs, UploadPCs, RestorePCs, DownloadPCs,
           ProbePCs, RestartStep, RestartSubmit84, RestartSubmit85,
           RestartSend, RestartWait, RestartKill, RspSubmit, Send, RecvRestart
<1>3. CASE SetBypass \/ AllocCmd
    BY <1>3 DEF SchInv, RestartPCs, UploadPCs, RestorePCs, DownloadPCs,
           ProbePCs, SetBypass, AllocCmd
<1>4. CASE RomPoll \/ RamPoll
    BY <1>4 DEF SchInv, RestartPCs, UploadPCs, RestorePCs, DownloadPCs,
           ProbePCs, RomPoll, RamPoll, Poll, RomReady, RamRunning
<1>5. CASE AddrLenSubmit \/ StartSubmit
    BY <1>5 DEF SchInv, RestartPCs, UploadPCs, RestorePCs, DownloadPCs,
           ProbePCs, AddrLenSubmit, StartSubmit, RspSubmit
<1>6. CASE AddrLenSend
    BY <1>6 DEF SchInv, RestartPCs, UploadPCs, RestorePCs, DownloadPCs,
           ProbePCs, AddrLenSend, Send, RecvAddrLen
<1>7. CASE AddrLenWait \/ StartWait \/ CheckLen
    BY <1>7 DEF SchInv, RestartPCs, UploadPCs, RestorePCs, DownloadPCs,
           ProbePCs, AddrLenWait, StartWait, RspWait, CheckLen
<1>8. CASE Scatter
    BY <1>8 DEF SchInv, RestartPCs, UploadPCs, RestorePCs, DownloadPCs,
           ProbePCs, Scatter, RecvChunk, SmallerOf
<1>9. CASE StartSend
    BY <1>9 DEF SchInv, RestartPCs, UploadPCs, RestorePCs, DownloadPCs,
           ProbePCs, StartSend, Send, RecvStart
<1>10. CASE RestoreRead \/ RestoreWrite
    BY <1>10 DEF SchInv, RestartPCs, UploadPCs, RestorePCs, DownloadPCs,
           ProbePCs, RestoreRead, RestoreWrite, WriteSch, AfterDownload
<1>11. CASE MacInit \/ Register \/ Reprobe
    BY <1>11 DEF SchInv, RestartPCs, UploadPCs, RestorePCs, DownloadPCs,
           ProbePCs, MacInit, Register, Reprobe
<1>12. CASE ChipStep
    BY <1>12 DEF SchInv, RestartPCs, UploadPCs, RestorePCs, DownloadPCs,
           ProbePCs, ChipStep, ChipBoot, ChipRestart, ChipStart
<1>13. CASE \E u \in Urbs : UrbArrives(u) \/ Handler(u)
    BY <1>13 DEF SchInv, RestartPCs, UploadPCs, RestorePCs, DownloadPCs,
           ProbePCs, UrbArrives, Handler, HandlerResubmits, HandlerCompletes,
           HandlerGate, HandlerInDeadFrame
<1>14. CASE UNCHANGED vars
    BY <1>14 DEF SchInv, RestartPCs, UploadPCs, RestorePCs, DownloadPCs,
           ProbePCs, vars
<1>15. QED
    BY <1>1, <1>2, <1>3, <1>4, <1>5, <1>6, <1>7, <1>8, <1>9, <1>10, <1>11,
           <1>12, <1>13, <1>14 DEF Next, ProbeStep, UploadStep, Undefined

(* The loop ends exactly at the announced length.                           *)
LEMMA OffsetStep == ShapesOK /\ OffsetInv /\ [Next]_vars => OffsetInv'
<1> SUFFICES ASSUME ShapesOK, OffsetInv, [Next]_vars PROVE OffsetInv'
    OBVIOUS
<1> USE DEF Goto, Proceed, Fail, driver, rsp, sch, rom, chip
<1>1. CASE ProbeRequest \/ EnableUdma \/ CheckRunning
    BY <1>1 DEF ShapesOK, OffsetInv, DlLen, RestartPCs, UploadPCs, RestorePCs,
           DownloadPCs, ProbePCs, ProbeRequest, EnableUdma, CheckRunning
<1>2. CASE RestartStep
    BY <1>2 DEF ShapesOK, OffsetInv, DlLen, RestartPCs, UploadPCs, RestorePCs,
           DownloadPCs, ProbePCs, RestartStep, RestartSubmit84,
           RestartSubmit85, RestartSend, RestartWait, RestartKill, RspSubmit,
           Send, RecvRestart
<1>3. CASE SetBypass \/ AllocCmd
    BY <1>3 DEF ShapesOK, OffsetInv, DlLen, RestartPCs, UploadPCs, RestorePCs,
           DownloadPCs, ProbePCs, SetBypass, AllocCmd
<1>4. CASE RomPoll \/ RamPoll
    BY <1>4 DEF ShapesOK, OffsetInv, DlLen, RestartPCs, UploadPCs, RestorePCs,
           DownloadPCs, ProbePCs, RomPoll, RamPoll, Poll, RomReady, RamRunning
<1>5. CASE AddrLenSubmit \/ StartSubmit
    BY <1>5 DEF ShapesOK, OffsetInv, DlLen, RestartPCs, UploadPCs, RestorePCs,
           DownloadPCs, ProbePCs, AddrLenSubmit, StartSubmit, RspSubmit
<1>6. CASE AddrLenSend
    BY <1>6 DEF ShapesOK, OffsetInv, DlLen, RestartPCs, UploadPCs, RestorePCs,
           DownloadPCs, ProbePCs, AddrLenSend, Send, RecvAddrLen
<1>7. CASE AddrLenWait \/ StartWait \/ CheckLen
    BY <1>7, DlLenType, WordSizeAssumption, FwSizeAssumption DEF ShapesOK,
           OffsetInv, DlLen, RestartPCs, UploadPCs, RestorePCs, DownloadPCs,
           ProbePCs, AddrLenWait, StartWait, RspWait, CheckLen
<1>8. CASE Scatter
    <2>1. DlLen \in Nat /\ offset \in Nat /\ DlLen' = DlLen
        BY <1>8, DlLenType, WordSizeAssumption
        DEF ShapesOK, DlLen, Scatter
    <2>2. offset <= DlLen /\ DlLen <= FwSize
        BY <1>8 DEF Scatter, OffsetInv
    <2>3. CASE UNCHANGED pc /\ offset < DlLen
        <3>1. offset' <= DlLen
            BY <1>8, <2>1, <2>3, MaxPayloadAssumption
            DEF Scatter, SmallerOf
        <3>2. QED
            BY <1>8, <2>1, <2>2, <2>3, <3>1 DEF Scatter, OffsetInv, RestartPCs
    <2>4. CASE pc' = "restore"
        BY <2>4 DEF OffsetInv, RestartPCs
    <2>5. CASE offset >= DlLen /\ Proceed("start_submit")
        BY <2>1, <2>2, <2>5 DEF OffsetInv, RestartPCs
    <2>6. QED
        BY <1>8, <2>3, <2>4, <2>5 DEF Scatter
<1>9. CASE StartSend
    BY <1>9 DEF ShapesOK, OffsetInv, DlLen, RestartPCs, UploadPCs, RestorePCs,
           DownloadPCs, ProbePCs, StartSend, Send, RecvStart
<1>10. CASE RestoreRead \/ RestoreWrite
    BY <1>10 DEF ShapesOK, OffsetInv, DlLen, RestartPCs, UploadPCs,
           RestorePCs, DownloadPCs, ProbePCs, RestoreRead, RestoreWrite,
           WriteSch, AfterDownload
<1>11. CASE MacInit \/ Register \/ Reprobe
    BY <1>11 DEF ShapesOK, OffsetInv, DlLen, RestartPCs, UploadPCs,
           RestorePCs, DownloadPCs, ProbePCs, MacInit, Register, Reprobe
<1>12. CASE ChipStep
    BY <1>12 DEF ShapesOK, OffsetInv, DlLen, RestartPCs, UploadPCs,
           RestorePCs, DownloadPCs, ProbePCs, ChipStep, ChipBoot, ChipRestart,
           ChipStart
<1>13. CASE \E u \in Urbs : UrbArrives(u) \/ Handler(u)
    BY <1>13 DEF ShapesOK, OffsetInv, DlLen, RestartPCs, UploadPCs,
           RestorePCs, DownloadPCs, ProbePCs, UrbArrives, Handler,
           HandlerResubmits, HandlerCompletes, HandlerGate, HandlerInDeadFrame
<1>14. CASE UNCHANGED vars
    BY <1>14 DEF ShapesOK, OffsetInv, DlLen, RestartPCs, UploadPCs,
           RestorePCs, DownloadPCs, ProbePCs, vars
<1>15. QED
    BY <1>1, <1>2, <1>3, <1>4, <1>5, <1>6, <1>7, <1>8, <1>9, <1>10, <1>11,
           <1>12, <1>13, <1>14 DEF Next, ProbeStep, UploadStep, Undefined

(* The ROM holds what was uploaded so far.                                  *)
LEMMA RomStep == ShapesOK /\ OffsetInv /\ RomInv /\ [Next]_vars => RomInv'
<1> SUFFICES ASSUME ShapesOK, OffsetInv, RomInv, [Next]_vars PROVE RomInv'
    OBVIOUS
<1> USE DEF Goto, Proceed, Fail, driver, rsp, sch, rom, chip
<1>1. CASE ProbeRequest \/ EnableUdma \/ CheckRunning
    BY <1>1 DEF ShapesOK, OffsetInv, RomInv, Received, DlLen, RestartPCs,
           UploadPCs, RestorePCs, DownloadPCs, ProbePCs, ProbeRequest,
           EnableUdma, CheckRunning
<1>2. CASE RestartStep
    <2>1. restartReq' => mode' = "ram"
        BY <1>2, Zenon
        DEF RomInv, RestartStep, RestartSubmit84, RestartSubmit85, RestartSend,
            RestartWait, RestartKill, Send, RecvRestart
    <2>2. pc' \in RestartPCs \cup {"bypass"}
        BY <1>2
        DEF RestartStep, RestartSubmit84, RestartSubmit85, RestartSend, RestartWait,
            RestartKill, RspSubmit, Send, RestartPCs
    <2>3. QED
        BY <2>1, <2>2 DEF RomInv, RestartPCs, RestorePCs
<1>3. CASE SetBypass \/ AllocCmd
    BY <1>3 DEF ShapesOK, OffsetInv, RomInv, Received, DlLen, RestartPCs,
           UploadPCs, RestorePCs, DownloadPCs, ProbePCs, SetBypass, AllocCmd
<1>4. CASE RomPoll \/ RamPoll
    BY <1>4 DEF ShapesOK, OffsetInv, RomInv, Received, DlLen, RestartPCs,
           UploadPCs, RestorePCs, DownloadPCs, ProbePCs, RomPoll, RamPoll,
           Poll, RomReady, RamRunning
<1>5. CASE AddrLenSubmit \/ StartSubmit
    BY <1>5 DEF ShapesOK, OffsetInv, RomInv, Received, DlLen, RestartPCs,
           UploadPCs, RestorePCs, DownloadPCs, ProbePCs, AddrLenSubmit,
           StartSubmit, RspSubmit
<1>6. CASE AddrLenSend
    <2>1. pc' \in {"addr_wait", "restore"} /\ (pc' = "restore" => ret' = "err")
        BY <1>6 DEF AddrLenSend, Send
    <2>2. restartReq' => mode' = "ram"
        BY <1>6 DEF AddrLenSend, Send, RecvAddrLen, RomInv
    <2>3. ASSUME pc' = "addr_wait", addrTo' = "rom"
          PROVE  mode' = "rom" /\ ~startReq' /\ Received(offset)'
        <3>1. RecvAddrLen(DlLen) /\ Proceed("addr_wait") /\ mode = "rom"
            BY <1>6, <2>3 DEF AddrLenSend, Send, RecvAddrLen
        <3>2. target' = DlLen /\ DlLen' = DlLen /\ stream' = <<>> /\ offset' = 0
            BY <1>6, <3>1
            DEF RecvAddrLen, DlLen, AddrLenSend, OffsetInv
        <3>3. QED
            BY <3>1, <3>2, EmptyStream DEF RecvAddrLen, Received
    <2>4. QED
        BY <2>1, <2>2, <2>3 DEF RomInv, RestorePCs
<1>7. CASE AddrLenWait \/ StartWait \/ CheckLen
    BY <1>7 DEF ShapesOK, OffsetInv, RomInv, Received, DlLen, RestartPCs,
           UploadPCs, RestorePCs, DownloadPCs, ProbePCs, AddrLenWait,
           StartWait, RspWait, CheckLen
<1>8. CASE Scatter
    <2>1. pc = "scatter" /\ DlLen' = DlLen /\ UNCHANGED <<addrTo, mode, restartReq>>
        BY <1>8 DEF Scatter, RecvChunk, DlLen
    <2>2. CASE pc' = "restore"
        BY <1>8, <2>1, <2>2 DEF RomInv, RestorePCs, Scatter
    <2>3. CASE Proceed("start_submit") /\ UNCHANGED <<chip, addrTo>>
        BY <2>1, <2>3
        DEF RomInv, RestorePCs, Received
    <2>4. CASE UNCHANGED pc /\ offset < DlLen
        <3> DEFINE n == SmallerOf(DlLen - offset, MaxPayload)
        <3>1. ASSUME addrTo = "rom"
              PROVE  /\ mode = "rom" /\ ~startReq' /\ target' = DlLen
                     /\ InOrder(stream') /\ EndOf(stream') = offset'
            <4>1. RecvChunk(offset, n) /\ offset' = offset + n
                BY <1>8, <2>1, <2>4 DEF Scatter
            <4>2. mode = "rom" /\ ~startReq /\ Received(offset)
                BY <2>1, <3>1 DEF RomInv
            <4>3. DlLen \in Nat /\ offset \in Nat /\ n \in Nat
                BY <2>4, DlLenType, WordSizeAssumption, MaxPayloadAssumption
                DEF ShapesOK, SmallerOf
            <4>4. target # NoTarget
                BY <4>2, <4>3 DEF Received, NoTarget
            <4>5. stream' = Append(stream, [off |-> EndOf(stream), len |-> n])
                BY <4>1, <4>2, <4>4 DEF RecvChunk, Received
            <4>6. InOrder(stream') /\ EndOf(stream') = EndOf(stream) + n
                BY <4>2, <4>3, <4>5, AppendInOrder DEF Received, ShapesOK
            <4>7. QED
                BY <4>1, <4>2, <4>6 DEF RecvChunk, Received
        <3>2. QED
            BY <2>1, <2>4, <3>1 DEF RomInv, RestorePCs, Received
    <2>5. QED
        BY <1>8, <2>2, <2>3, <2>4 DEF Scatter
<1>9. CASE StartSend
    BY <1>9 DEF ShapesOK, OffsetInv, RomInv, Received, DlLen, RestartPCs,
           UploadPCs, RestorePCs, DownloadPCs, ProbePCs, StartSend, Send,
           RecvStart
<1>10. CASE RestoreRead \/ RestoreWrite
    BY <1>10 DEF ShapesOK, OffsetInv, RomInv, Received, DlLen, RestartPCs,
           UploadPCs, RestorePCs, DownloadPCs, ProbePCs, RestoreRead,
           RestoreWrite, WriteSch, AfterDownload
<1>11. CASE MacInit \/ Register \/ Reprobe
    BY <1>11 DEF ShapesOK, OffsetInv, RomInv, Received, DlLen, RestartPCs,
           UploadPCs, RestorePCs, DownloadPCs, ProbePCs, MacInit, Register,
           Reprobe
<1>12. CASE ChipStep
    BY <1>12 DEF ShapesOK, OffsetInv, RomInv, Received, DlLen, RestartPCs,
           UploadPCs, RestorePCs, DownloadPCs, ProbePCs, ChipStep, ChipBoot,
           ChipRestart, ChipStart
<1>13. CASE \E u \in Urbs : UrbArrives(u) \/ Handler(u)
    BY <1>13 DEF ShapesOK, OffsetInv, RomInv, Received, DlLen, RestartPCs,
           UploadPCs, RestorePCs, DownloadPCs, ProbePCs, UrbArrives, Handler,
           HandlerResubmits, HandlerCompletes, HandlerGate, HandlerInDeadFrame
<1>14. CASE UNCHANGED vars
    BY <1>14 DEF ShapesOK, OffsetInv, RomInv, Received, DlLen, RestartPCs,
           UploadPCs, RestorePCs, DownloadPCs, ProbePCs, vars
<1>15. QED
    BY <1>1, <1>2, <1>3, <1>4, <1>5, <1>6, <1>7, <1>8, <1>9, <1>10, <1>11,
           <1>12, <1>13, <1>14 DEF Next, ProbeStep, UploadStep, Undefined

(* Chunks stay within the file.                                             *)
LEMMA ChunksStep == ShapesOK /\ OffsetInv /\ ChunksWithinImage /\ [Next]_vars => ChunksWithinImage'
<1> SUFFICES ASSUME ShapesOK, OffsetInv, ChunksWithinImage, [Next]_vars PROVE ChunksWithinImage'
    OBVIOUS
<1> USE DEF Goto, Proceed, Fail, driver, rsp, sch, rom, chip
<1>1. CASE ProbeRequest \/ EnableUdma \/ CheckRunning
    BY <1>1 DEF ChunksWithinImage, ProbeRequest, EnableUdma, CheckRunning
<1>2. CASE RestartStep
    BY <1>2 DEF ChunksWithinImage, RestartStep, RestartSubmit84,
           RestartSubmit85, RestartSend, RestartWait, RestartKill, RspSubmit,
           Send, RecvRestart
<1>3. CASE SetBypass \/ AllocCmd
    BY <1>3 DEF ChunksWithinImage, SetBypass, AllocCmd
<1>4. CASE RomPoll \/ RamPoll
    BY <1>4 DEF ChunksWithinImage, RomPoll, RamPoll, Poll, RomReady,
           RamRunning
<1>5. CASE AddrLenSubmit \/ StartSubmit
    BY <1>5 DEF ChunksWithinImage, AddrLenSubmit, StartSubmit, RspSubmit
<1>6. CASE AddrLenSend
    <2>1. stream' = <<>> \/ stream' = stream
        BY <1>6 DEF AddrLenSend, Send, RecvAddrLen
    <2>2. QED
        BY <2>1 DEF ChunksWithinImage
<1>7. CASE AddrLenWait \/ StartWait \/ CheckLen
    BY <1>7 DEF ChunksWithinImage, AddrLenWait, StartWait, RspWait, CheckLen
<1>8. CASE Scatter
    <2>1. CASE UNCHANGED stream
        BY <2>1 DEF ChunksWithinImage
    <2>2. CASE offset < DlLen /\ RecvChunk(offset, SmallerOf(DlLen - offset, MaxPayload))
        <3> DEFINE n == SmallerOf(DlLen - offset, MaxPayload)
                   c == [off |-> offset, len |-> n]
        <3>1. DlLen \in Nat /\ offset \in Nat /\ DlLen <= FwSize
            BY <1>8, DlLenType, WordSizeAssumption DEF ShapesOK, Scatter, OffsetInv
        <3>2. n \in 1..MaxPayload /\ offset + n <= FwSize
            BY <2>2, <3>1, MaxPayloadAssumption, FwSizeAssumption DEF SmallerOf
        <3>3. c \in Chunks
            BY <3>1, <3>2, MaxPayloadAssumption DEF Chunks
        <3>4. CASE stream' = Append(stream, c)
            <4>1. ASSUME NEW k \in 1..Len(stream')
                  PROVE  stream'[k].len \in 1..MaxPayload
                         /\ stream'[k].off + stream'[k].len <= FwSize
                <5>1. CASE k \in 1..Len(stream)
                    BY <3>3, <3>4, <5>1 DEF ShapesOK, ChunksWithinImage
                <5>2. CASE k = Len(stream) + 1
                    BY <3>2, <3>3, <3>4, <5>2 DEF ShapesOK
                <5>3. QED
                    BY <3>3, <3>4, <5>1, <5>2 DEF ShapesOK
            <4>2. QED
                BY <4>1 DEF ChunksWithinImage
        <3>5. QED
            BY <2>1, <2>2, <3>4 DEF RecvChunk
    <2>3. QED
        BY <1>8, <2>1, <2>2 DEF Scatter
<1>9. CASE StartSend
    BY <1>9 DEF ChunksWithinImage, StartSend, Send, RecvStart
<1>10. CASE RestoreRead \/ RestoreWrite
    BY <1>10 DEF ChunksWithinImage, RestoreRead, RestoreWrite, WriteSch,
           AfterDownload
<1>11. CASE MacInit \/ Register \/ Reprobe
    BY <1>11 DEF ChunksWithinImage, MacInit, Register, Reprobe
<1>12. CASE ChipStep
    BY <1>12 DEF ChunksWithinImage, ChipStep, ChipBoot, ChipRestart, ChipStart
<1>13. CASE \E u \in Urbs : UrbArrives(u) \/ Handler(u)
    BY <1>13 DEF ChunksWithinImage, UrbArrives, Handler, HandlerResubmits,
           HandlerCompletes, HandlerGate, HandlerInDeadFrame
<1>14. CASE UNCHANGED vars
    BY <1>14 DEF ChunksWithinImage, vars
<1>15. QED
    BY <1>1, <1>2, <1>3, <1>4, <1>5, <1>6, <1>7, <1>8, <1>9, <1>10, <1>11,
           <1>12, <1>13, <1>14 DEF Next, ProbeStep, UploadStep, Undefined

-----------------------------------------------------------------------------
(* DownloadInv holds initially and no step of any actor breaks it.          *)
THEOREM DownloadInvariant == Spec => []DownloadInv
<1>1. Init => DownloadInv
    <2> SUFFICES ASSUME Init PROVE DownloadInv
        OBVIOUS
    <2>1. FlagsOK
        BY Zenon DEF Init, FlagsOK
    <2>2. ShapesOK
        BY EmptyStream, PollMaxAssumption, TailsAssumption
        DEF Init, ShapesOK, ProbePCs, NoTarget
    <2>3. RestartInv /\ SchInv
        BY DEF Init, RestartInv, SchInv, Urbs, RestartUrbs
    <2>4. OffsetInv /\ RomInv
        BY DEF Init, OffsetInv, RomInv, RestartPCs, RestorePCs
    <2>5. ChunksWithinImage
        BY DEF Init, ChunksWithinImage
    <2>6. QED
        BY <2>1, <2>2, <2>3, <2>4, <2>5 DEF DownloadInv, TypeOK
<1>2. DownloadInv /\ [Next]_vars => DownloadInv'
    BY FlagsStep, ShapesStep, RestartStepInv, SchStep, OffsetStep, RomStep, ChunksStep
    DEF DownloadInv, TypeOK
<1>3. QED
    BY <1>1, <1>2, PTL DEF Spec

(* Types: in particular the poll counter stays below the poll limit and the *)
(* announced length is a u32.                                               *)
THEOREM TypeCorrect == Spec => []TypeOK
<1>1. DownloadInv => TypeOK
    BY DEF DownloadInv
<1>2. QED
    BY <1>1, DownloadInvariant, PTL

(* A registered device runs the image this probe sent to its ROM.           *)
THEOREM NewImageRuns == Spec => []SuccessRunsNewImage
<1>1. DownloadInv => SuccessRunsNewImage
    BY DEF DownloadInv, RomInv, SuccessRunsNewImage
<1>2. QED
    BY <1>1, DownloadInvariant, PTL

(* The ROM has the whole image, in order, when it is told to start it.      *)
THEOREM WholeImageBeforeStart == Spec => []StartFollowsWholeImage
<1>1. DownloadInv => StartFollowsWholeImage
    BY DEF DownloadInv, RomInv, Received, StartFollowsWholeImage
<1>2. QED
    BY <1>1, DownloadInvariant, PTL

(* The scatter loop never reads beyond the firmware file, for every last    *)
(* word, the ones whose length wraps included.                              *)
THEOREM ChunksInBounds == Spec => []ChunksWithinImage
<1>1. DownloadInv => ChunksWithinImage
    BY DEF DownloadInv
<1>2. QED
    BY <1>1, DownloadInvariant, PTL

(* SCH_REG4 is restored on every way out of the download.                   *)
THEOREM SchRestored == Spec => []NormalModeRestored
<1>1. DownloadInv => NormalModeRestored
    BY DEF DownloadInv, SchInv, NormalModeRestored, UploadPCs
<1>2. QED
    BY <1>1, DownloadInvariant, PTL

(* The restart's response URBs do not outlive its stack frame.              *)
THEOREM RestartReaped == Spec => []RestartUrbsReaped
<1>1. DownloadInv => RestartUrbsReaped
    BY DEF DownloadInv, RestartInv, RestartUrbsReaped, RestartUrbs, RestartPCs
<1>2. QED
    BY <1>1, DownloadInvariant, PTL
=============================================================================
