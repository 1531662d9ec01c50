------------------------ MODULE DeviceLifecycle_proofs ------------------------
(***************************************************************************)
(* Proofs about DeviceLifecycle for any number of RX URBs, any set of TX   *)
(* callers and any bound on TX URBs.                                       *)
(*                                                                         *)
(* LifecycleInv is inductive. Each of its conjuncts has a lemma saying that *)
(* one step of any actor preserves it; the actors that leave the conjunct's *)
(* variables alone share one case. The safety properties follow from it,   *)
(* and so does the step simulation of DeviceContract.                      *)
(***************************************************************************)
EXTENDS DeviceLifecycle, TLAPS

(* The flags stay Boolean: each actor assigns a truth value or nothing.     *)
LEMMA FlagsStep == FlagsOK /\ [Next]_vars => FlagsOK'
<1> SUFFICES ASSUME FlagsOK, [Next]_vars
             PROVE  FlagsOK'
    OBVIOUS
<1> USE DEF FlagsOK, devFlags, urbs, txState, work, ctlState, hwState
<1>1. CASE StartBegin
    BY <1>1, Zenon DEF StartBegin
<1>2. CASE StartRxSubmit
    BY <1>2, Zenon DEF StartRxSubmit, AfterSubmit
<1>3. CASE StartRest
    BY <1>3, Zenon DEF StartRest
<1>4. CASE StopBegin
    BY <1>4, Zenon DEF StopBegin
<1>5. CASE RemoveInterface
    BY <1>5, Zenon DEF RemoveInterface
<1>6. CASE BssBeaconOff
    BY <1>6, Zenon DEF BssBeaconOff
<1>7. CASE AddInterface
    BY <1>7, Zenon DEF AddInterface
<1>8. CASE BssBeaconOn
    BY <1>8, Zenon DEF BssBeaconOn
<1>9. CASE BssSchedule
    BY <1>9, Zenon DEF BssSchedule
<1>10. CASE UnbindBegin
    BY <1>10, Zenon DEF UnbindBegin
<1>11. CASE UnregisterBegin
    BY <1>11, Zenon DEF UnregisterBegin
<1>12. ASSUME NEW t \in Threads, CancelBegin(t)
       PROVE  FlagsOK'
    BY <1>12, Zenon DEF CancelBegin
<1>13. ASSUME NEW t \in Threads, CancelWait(t)
       PROVE  FlagsOK'
    BY <1>13, Zenon DEF CancelWait
<1>14. ASSUME NEW t \in Threads, KillUrb(t)
       PROVE  FlagsOK'
    BY <1>14, Zenon DEF KillUrb
<1>15. ASSUME NEW t \in Threads, FreeUrb(t)
       PROVE  FlagsOK'
    BY <1>15, Zenon DEF FreeUrb
<1>16. ASSUME NEW t \in Threads, KillAnchored(t)
       PROVE  FlagsOK'
    BY <1>16, Zenon DEF KillAnchored
<1>17. CASE BeaconRun
    BY <1>17, Zenon DEF BeaconRun
<1>18. CASE BeaconRearm
    BY <1>18, Zenon DEF BeaconRearm
<1>19. CASE \/ StartRxAlloc
            \/ UnbindFlushed
            \/ UnregisterHw
            \/ FreeHw
            \/ \E t \in Threads : StopRxTest(t)
            \/ \E t \in Threads : NullUrb(t)
            \/ \E c \in TxCallers : TxEnter(c)
            \/ \E c \in Callers : TxStep(c)
            \/ TxComplete
            \/ BeaconCheck
            \/ BeaconGet
            \/ \E i \in Slots : UrbStep(i)
            \/ UNCHANGED vars
    <2>1. UNCHANGED <<running, beacon_enabled, ap_vif, pending, up,
                        startFailed, epEnabled, fault>>
        BY <1>19
        DEF StartRxAlloc, UnbindFlushed, UnregisterHw, FreeHw, StopRxTest,
            NextSlot, NullUrb, NextSlot, TxEnter, TxStep, TxCheckRunning,
            TxPrepare, TxSubmit, TxComplete, BeaconCheck, BeaconGet, UrbStep,
            UrbGiveback, UrbUnlinked, UrbComplete, UrbResubmit, vars
    <2>2. QED
        BY <2>1
<1>20. QED
    BY <1>1, <1>2, <1>3, <1>4, <1>5, <1>6, <1>7, <1>8, <1>9, <1>10, <1>11,
       <1>12, <1>13, <1>14, <1>15, <1>16, <1>17, <1>18, <1>19
    DEF Next, CtlCall, CtlStep, DiscStep, TeardownStep, BeaconStep, Terminated,
        Threads

(* Program counters, slots and counters keep their ranges; for the loop      *)
(* index of stop_rx and start_rx this is the bound on rx_urbs[].             *)
LEMMA ShapesStep == ShapesOK /\ [Next]_vars => ShapesOK'
<1> SUFFICES ASSUME ShapesOK, [Next]_vars
             PROVE  ShapesOK'
    OBVIOUS
<1> USE NumRxUrbsAssumption, MaxTxUrbsAssumption
    DEF ShapesOK, Slots, Threads, Callers, PCs, Teardown, Goto, Call,
        devFlags, urbs, txState, work, ctlState, hwState
<1>1. CASE StartBegin
    BY <1>1 DEF StartBegin
<1>2. CASE StartRxAlloc
    BY <1>2 DEF StartRxAlloc
<1>3. CASE StartRxSubmit
    <2>1. idx["ctl"] \in 0..NumRxUrbs /\ NumRxUrbs \in Nat
        OBVIOUS
    <2>2. CASE UNCHANGED <<pc, idx>>
        BY <2>2, <1>3 DEF StartRxSubmit
    <2>3. CASE AfterSubmit(idx["ctl"])
        <3>1. idx' \in [Threads -> Slots]
            BY <2>1, <2>3 DEF AfterSubmit
        <3>2. pc' \in [Threads -> PCs]
            BY <2>3 DEF AfterSubmit
        <3>3. QED
            BY <3>1, <3>2, <1>3 DEF StartRxSubmit
    <2>4. QED
        BY <2>2, <2>3, <1>3 DEF StartRxSubmit
<1>4. CASE StartRest
    BY <1>4 DEF StartRest
<1>5. CASE StopBegin
    BY <1>5 DEF StopBegin
<1>6. CASE RemoveInterface
    BY <1>6 DEF RemoveInterface
<1>7. CASE BssBeaconOff
    BY <1>7 DEF BssBeaconOff
<1>8. CASE AddInterface
    BY <1>8 DEF AddInterface
<1>9. CASE BssBeaconOn
    BY <1>9 DEF BssBeaconOn
<1>10. CASE BssSchedule
    BY <1>10 DEF BssSchedule
<1>11. CASE UnbindBegin
    BY <1>11 DEF UnbindBegin
<1>12. CASE UnbindFlushed
    BY <1>12 DEF UnbindFlushed
<1>13. CASE UnregisterBegin
    BY <1>13 DEF UnregisterBegin
<1>14. CASE UnregisterHw
    BY <1>14 DEF UnregisterHw
<1>15. CASE FreeHw
    BY <1>15 DEF FreeHw
<1>16. ASSUME NEW t \in Threads, CancelBegin(t)
       PROVE  ShapesOK'
    BY <1>16 DEF CancelBegin
<1>17. ASSUME NEW t \in Threads, CancelWait(t)
       PROVE  ShapesOK'
    BY <1>17 DEF CancelWait
<1>18. ASSUME NEW t \in Threads, StopRxTest(t)
       PROVE  ShapesOK'
    BY <1>18 DEF StopRxTest, NextSlot
<1>19. ASSUME NEW t \in Threads, KillUrb(t)
       PROVE  ShapesOK'
    BY <1>19 DEF KillUrb
<1>20. ASSUME NEW t \in Threads, FreeUrb(t)
       PROVE  ShapesOK'
    BY <1>20 DEF FreeUrb
<1>21. ASSUME NEW t \in Threads, NullUrb(t)
       PROVE  ShapesOK'
    BY <1>21 DEF NullUrb, NextSlot
<1>22. ASSUME NEW t \in Threads, KillAnchored(t)
       PROVE  ShapesOK'
    BY <1>22 DEF KillAnchored
<1>23. ASSUME NEW c \in TxCallers, TxEnter(c)
       PROVE  ShapesOK'
    BY <1>23 DEF TxEnter
<1>24. ASSUME NEW c \in Callers, TxStep(c)
       PROVE  ShapesOK'
    BY <1>24 DEF TxStep, TxCheckRunning, TxPrepare, TxSubmit
<1>25. CASE TxComplete
    BY <1>25 DEF TxComplete
<1>26. CASE BeaconRun
    BY <1>26 DEF BeaconRun
<1>27. CASE BeaconCheck
    BY <1>27 DEF BeaconCheck
<1>28. CASE BeaconGet
    BY <1>28 DEF BeaconGet
<1>29. CASE BeaconRearm
    BY <1>29 DEF BeaconRearm
<1>30. ASSUME NEW i \in Slots, UrbStep(i)
       PROVE  ShapesOK'
    BY <1>30 DEF UrbStep, UrbGiveback, UrbUnlinked, UrbComplete, UrbResubmit
<1>31. CASE UNCHANGED vars
    BY <1>31 DEF vars
<1>32. QED
    BY <1>1, <1>2, <1>3, <1>4, <1>5, <1>6, <1>7, <1>8, <1>9, <1>10, <1>11,
       <1>12, <1>13, <1>14, <1>15, <1>16, <1>17, <1>18, <1>19, <1>20, <1>21,
       <1>22, <1>23, <1>24, <1>25, <1>26, <1>27, <1>28, <1>29, <1>30, <1>31
    DEF Next, CtlCall, CtlStep, DiscStep, TeardownStep, BeaconStep, Terminated

(* The statements the threads can be at, and what they say of up and op.    *)
LEMMA PcInvStep == LifecycleInv /\ [Next]_vars => PcInv'
<1> SUFFICES ASSUME ShapesOK, PcInv, UrbInv, ProgressInv, SilenceInv, BeaconInv,
                    VifHeldDuringBeacon, [Next]_vars
             PROVE  PcInv'
    BY DEF LifecycleInv, TypeOK
<1> USE NumRxUrbsAssumption, TxCallersAssumption
    DEF ShapesOK, Slots, Threads, Callers, PCs, Teardown, Goto, Call,
        devFlags, urbs, txState, work, ctlState, hwState, MayCall, MayClose,
        PcInv, RxTeardown, Starting
<1>1. CASE StartBegin
    BY <1>1 DEF StartBegin
<1>2. CASE StartRxAlloc
    BY <1>2 DEF StartRxAlloc
<1>3. CASE StartRxSubmit
    BY <1>3 DEF StartRxSubmit, AfterSubmit
<1>4. CASE StartRest
    BY <1>4 DEF StartRest
<1>5. CASE StopBegin
    BY <1>5 DEF StopBegin
<1>6. CASE RemoveInterface
    BY <1>6 DEF RemoveInterface
<1>7. CASE BssBeaconOff
    BY <1>7 DEF BssBeaconOff
<1>8. CASE BssBeaconOn
    BY <1>8 DEF BssBeaconOn
<1>9. CASE BssSchedule
    BY <1>9 DEF BssSchedule
<1>10. CASE UnbindBegin
    BY <1>10 DEF UnbindBegin
<1>11. CASE UnbindFlushed
    BY <1>11 DEF UnbindFlushed
<1>12. CASE UnregisterBegin
    BY <1>12 DEF UnregisterBegin
<1>13. CASE UnregisterHw
    BY <1>13 DEF UnregisterHw
<1>14. CASE FreeHw
    BY <1>14 DEF FreeHw
<1>15. ASSUME NEW t \in Threads, CancelBegin(t)
       PROVE  PcInv'
    BY <1>15 DEF CancelBegin
<1>16. ASSUME NEW t \in Threads, CancelWait(t)
       PROVE  PcInv'
    BY <1>16 DEF CancelWait
<1>17. ASSUME NEW t \in Threads, StopRxTest(t)
       PROVE  PcInv'
    BY <1>17 DEF StopRxTest, NextSlot
<1>18. ASSUME NEW t \in Threads, KillUrb(t)
       PROVE  PcInv'
    BY <1>18 DEF KillUrb
<1>19. ASSUME NEW t \in Threads, FreeUrb(t)
       PROVE  PcInv'
    BY <1>19 DEF FreeUrb
<1>20. ASSUME NEW t \in Threads, NullUrb(t)
       PROVE  PcInv'
    BY <1>20 DEF NullUrb, NextSlot
<1>21. ASSUME NEW t \in Threads, KillAnchored(t)
       PROVE  PcInv'
    BY <1>21 DEF KillAnchored
<1>22. CASE \/ AddInterface
            \/ \E c \in TxCallers : TxEnter(c)
            \/ \E c \in Callers : TxStep(c)
            \/ TxComplete
            \/ BeaconRun
            \/ BeaconCheck
            \/ BeaconGet
            \/ BeaconRearm
            \/ \E i \in Slots : UrbStep(i)
            \/ UNCHANGED vars
    <2>1. UNCHANGED <<pc, op, up>>
        BY <1>22
        DEF AddInterface, TxEnter, TxStep, TxCheckRunning, TxPrepare,
            TxSubmit, TxComplete, BeaconRun, BeaconCheck, BeaconGet,
            BeaconRearm, UrbStep, UrbGiveback, UrbUnlinked, UrbComplete,
            UrbResubmit, vars
    <2>2. QED
        BY <2>1
<1>23. QED
    BY <1>1, <1>2, <1>3, <1>4, <1>5, <1>6, <1>7, <1>8, <1>9, <1>10, <1>11,
       <1>12, <1>13, <1>14, <1>15, <1>16, <1>17, <1>18, <1>19, <1>20, <1>21,
       <1>22
    DEF Next, CtlCall, CtlStep, DiscStep, TeardownStep, BeaconStep, Terminated

(* URBs with the USB core are held by the driver, and none is left once     *)
(* disconnect has been called.                                              *)
LEMMA UrbInvStep == LifecycleInv /\ [Next]_vars => UrbInv'
<1> SUFFICES ASSUME ShapesOK, PcInv, UrbInv, ProgressInv, SilenceInv, BeaconInv,
                    VifHeldDuringBeacon, [Next]_vars
             PROVE  UrbInv'
    BY DEF LifecycleInv, TypeOK
<1> USE NumRxUrbsAssumption, TxCallersAssumption
    DEF ShapesOK, Slots, Threads, Callers, PCs, Teardown, Goto, Call,
        devFlags, urbs, txState, work, ctlState, hwState, MayCall, MayClose,
        UrbInv, PcInv, Killed
<1>1. CASE StartBegin
    BY <1>1 DEF StartBegin
<1>2. CASE StartRxAlloc
    BY <1>2 DEF StartRxAlloc
<1>3. CASE StartRxSubmit
    BY <1>3 DEF StartRxSubmit, AfterSubmit
<1>4. CASE StartRest
    BY <1>4 DEF StartRest
<1>5. CASE StopBegin
    BY <1>5 DEF StopBegin
<1>6. CASE RemoveInterface
    BY <1>6 DEF RemoveInterface
<1>7. CASE BssBeaconOff
    BY <1>7 DEF BssBeaconOff
<1>8. CASE BssBeaconOn
    BY <1>8 DEF BssBeaconOn
<1>9. CASE BssSchedule
    BY <1>9 DEF BssSchedule
<1>10. CASE UnbindBegin
    BY <1>10 DEF UnbindBegin
<1>11. CASE UnbindFlushed
    BY <1>11 DEF UnbindFlushed
<1>12. CASE UnregisterBegin
    BY <1>12 DEF UnregisterBegin
<1>13. CASE UnregisterHw
    BY <1>13 DEF UnregisterHw
<1>14. CASE FreeHw
    BY <1>14 DEF FreeHw
<1>15. ASSUME NEW t \in Threads, CancelBegin(t)
       PROVE  UrbInv'
    BY <1>15 DEF CancelBegin
<1>16. ASSUME NEW t \in Threads, CancelWait(t)
       PROVE  UrbInv'
    BY <1>16 DEF CancelWait
<1>17. ASSUME NEW t \in Threads, StopRxTest(t)
       PROVE  UrbInv'
    BY <1>17 DEF StopRxTest, NextSlot
<1>18. ASSUME NEW t \in Threads, KillUrb(t)
       PROVE  UrbInv'
    BY <1>18 DEF KillUrb
<1>19. ASSUME NEW t \in Threads, FreeUrb(t)
       PROVE  UrbInv'
    BY <1>19 DEF FreeUrb
<1>20. ASSUME NEW t \in Threads, NullUrb(t)
       PROVE  UrbInv'
    BY <1>20 DEF NullUrb, NextSlot
<1>21. ASSUME NEW t \in Threads, KillAnchored(t)
       PROVE  UrbInv'
    BY <1>21 DEF KillAnchored
<1>22. ASSUME NEW c \in Callers, TxStep(c)
       PROVE  UrbInv'
    BY <1>22 DEF TxStep, TxCheckRunning, TxPrepare, TxSubmit
<1>23. CASE TxComplete
    BY <1>23 DEF TxComplete
<1>24. ASSUME NEW i \in Slots, UrbStep(i)
       PROVE  UrbInv'
    BY <1>24 DEF UrbStep, UrbGiveback, UrbUnlinked, UrbComplete, UrbResubmit
<1>25. CASE \/ AddInterface
            \/ \E c \in TxCallers : TxEnter(c)
            \/ BeaconRun
            \/ BeaconCheck
            \/ BeaconGet
            \/ BeaconRearm
            \/ UNCHANGED vars
    <2>1. UNCHANGED <<pc, idx, slot, ust, epEnabled, txFlight>>
        BY <1>25
        DEF AddInterface, TxEnter, BeaconRun, BeaconCheck, BeaconGet,
            BeaconRearm, vars
    <2>2. QED
        BY <2>1
<1>26. QED
    BY <1>1, <1>2, <1>3, <1>4, <1>5, <1>6, <1>7, <1>8, <1>9, <1>10, <1>11,
       <1>12, <1>13, <1>14, <1>15, <1>16, <1>17, <1>18, <1>19, <1>20, <1>21,
       <1>22, <1>23, <1>24, <1>25
    DEF Next, CtlCall, CtlStep, DiscStep, TeardownStep, BeaconStep, Terminated

(* The slots stop has passed are NULL, and stay so.                         *)
LEMMA ProgressInvStep == LifecycleInv /\ [Next]_vars => ProgressInv'
<1> SUFFICES ASSUME ShapesOK, PcInv, UrbInv, ProgressInv, SilenceInv, BeaconInv,
                    VifHeldDuringBeacon, [Next]_vars
             PROVE  ProgressInv'
    BY DEF LifecycleInv, TypeOK
<1> USE NumRxUrbsAssumption, TxCallersAssumption
    DEF ShapesOK, Slots, Threads, Callers, PCs, Teardown, Goto, Call,
        devFlags, urbs, txState, work, ctlState, hwState, MayCall, MayClose,
        ProgressInv, PcInv, RxTeardown, Starting
<1>1. CASE StartBegin
    BY <1>1 DEF StartBegin
<1>2. CASE StartRxAlloc
    BY <1>2 DEF StartRxAlloc
<1>3. CASE StartRxSubmit
    BY <1>3 DEF StartRxSubmit, AfterSubmit
<1>4. CASE StartRest
    BY <1>4 DEF StartRest
<1>5. CASE StopBegin
    BY <1>5 DEF StopBegin
<1>6. CASE RemoveInterface
    BY <1>6 DEF RemoveInterface
<1>7. CASE BssBeaconOff
    BY <1>7 DEF BssBeaconOff
<1>8. CASE BssBeaconOn
    BY <1>8 DEF BssBeaconOn
<1>9. CASE BssSchedule
    BY <1>9 DEF BssSchedule
<1>10. CASE UnbindBegin
    BY <1>10 DEF UnbindBegin
<1>11. CASE UnbindFlushed
    BY <1>11 DEF UnbindFlushed
<1>12. CASE UnregisterBegin
    BY <1>12 DEF UnregisterBegin
<1>13. CASE UnregisterHw
    BY <1>13 DEF UnregisterHw
<1>14. CASE FreeHw
    BY <1>14 DEF FreeHw
<1>15. ASSUME NEW t \in Threads, CancelBegin(t)
       PROVE  ProgressInv'
    BY <1>15 DEF CancelBegin
<1>16. ASSUME NEW t \in Threads, CancelWait(t)
       PROVE  ProgressInv'
    BY <1>16 DEF CancelWait
<1>17. ASSUME NEW t \in Threads, StopRxTest(t)
       PROVE  ProgressInv'
    BY <1>17 DEF StopRxTest, NextSlot
<1>18. ASSUME NEW t \in Threads, KillUrb(t)
       PROVE  ProgressInv'
    BY <1>18 DEF KillUrb
<1>19. ASSUME NEW t \in Threads, FreeUrb(t)
       PROVE  ProgressInv'
    BY <1>19 DEF FreeUrb
<1>20. ASSUME NEW t \in Threads, NullUrb(t)
       PROVE  ProgressInv'
    BY <1>20 DEF NullUrb, NextSlot
<1>21. ASSUME NEW t \in Threads, KillAnchored(t)
       PROVE  ProgressInv'
    BY <1>21 DEF KillAnchored
<1>22. CASE \/ AddInterface
            \/ \E c \in TxCallers : TxEnter(c)
            \/ \E c \in Callers : TxStep(c)
            \/ TxComplete
            \/ BeaconRun
            \/ BeaconCheck
            \/ BeaconGet
            \/ BeaconRearm
            \/ \E i \in Slots : UrbStep(i)
            \/ UNCHANGED vars
    <2>1. UNCHANGED <<pc, idx, slot, up, startFailed>>
        BY <1>22
        DEF AddInterface, TxEnter, TxStep, TxCheckRunning, TxPrepare,
            TxSubmit, TxComplete, BeaconRun, BeaconCheck, BeaconGet,
            BeaconRearm, UrbStep, UrbGiveback, UrbUnlinked, UrbComplete,
            UrbResubmit, vars
    <2>2. QED
        BY <2>1
<1>23. QED
    BY <1>1, <1>2, <1>3, <1>4, <1>5, <1>6, <1>7, <1>8, <1>9, <1>10, <1>11,
       <1>12, <1>13, <1>14, <1>15, <1>16, <1>17, <1>18, <1>19, <1>20, <1>21,
       <1>22
    DEF Next, CtlCall, CtlStep, DiscStep, TeardownStep, BeaconStep, Terminated

(* Once cancelled, the beacon work is not queued again by anyone, and       *)
(* once mac80211 has quiesced TX nobody transmits.                          *)
LEMMA SilenceInvStep == LifecycleInv /\ [Next]_vars => SilenceInv'
<1> SUFFICES ASSUME ShapesOK, PcInv, UrbInv, ProgressInv, SilenceInv, BeaconInv,
                    VifHeldDuringBeacon, [Next]_vars
             PROVE  SilenceInv'
    BY DEF LifecycleInv, TypeOK
<1> USE NumRxUrbsAssumption, TxCallersAssumption
    DEF ShapesOK, Slots, Threads, Callers, PCs, Teardown, Goto, Call,
        devFlags, urbs, txState, work, ctlState, hwState, MayCall, MayClose,
        SilenceInv, PcInv, RxTeardown, Starting, Stopping,
        Cancelling
<1>1. CASE StartBegin
    BY <1>1 DEF StartBegin
<1>2. CASE StartRxAlloc
    BY <1>2 DEF StartRxAlloc
<1>3. CASE StartRxSubmit
    BY <1>3 DEF StartRxSubmit, AfterSubmit
<1>4. CASE StartRest
    BY <1>4 DEF StartRest
<1>5. CASE StopBegin
    BY <1>5 DEF StopBegin
<1>6. CASE RemoveInterface
    BY <1>6 DEF RemoveInterface
<1>7. CASE BssBeaconOff
    BY <1>7 DEF BssBeaconOff
<1>8. CASE BssBeaconOn
    BY <1>8 DEF BssBeaconOn
<1>9. CASE BssSchedule
    BY <1>9 DEF BssSchedule
<1>10. CASE UnbindBegin
    BY <1>10 DEF UnbindBegin
<1>11. CASE UnbindFlushed
    BY <1>11 DEF UnbindFlushed
<1>12. CASE UnregisterBegin
    BY <1>12 DEF UnregisterBegin
<1>13. CASE UnregisterHw
    BY <1>13 DEF UnregisterHw
<1>14. CASE FreeHw
    BY <1>14 DEF FreeHw
<1>15. ASSUME NEW t \in Threads, CancelBegin(t)
       PROVE  SilenceInv'
    BY <1>15 DEF CancelBegin
<1>16. ASSUME NEW t \in Threads, CancelWait(t)
       PROVE  SilenceInv'
    BY <1>16 DEF CancelWait
<1>17. ASSUME NEW t \in Threads, StopRxTest(t)
       PROVE  SilenceInv'
    BY <1>17 DEF StopRxTest, NextSlot
<1>18. ASSUME NEW t \in Threads, KillUrb(t)
       PROVE  SilenceInv'
    BY <1>18 DEF KillUrb
<1>19. ASSUME NEW t \in Threads, FreeUrb(t)
       PROVE  SilenceInv'
    BY <1>19 DEF FreeUrb
<1>20. ASSUME NEW t \in Threads, NullUrb(t)
       PROVE  SilenceInv'
    BY <1>20 DEF NullUrb, NextSlot
<1>21. ASSUME NEW t \in Threads, KillAnchored(t)
       PROVE  SilenceInv'
    BY <1>21 DEF KillAnchored
<1>22. ASSUME NEW c \in TxCallers, TxEnter(c)
       PROVE  SilenceInv'
    BY <1>22 DEF TxEnter
<1>23. ASSUME NEW c \in Callers, TxStep(c)
       PROVE  SilenceInv'
    BY <1>23 DEF TxStep, TxCheckRunning, TxPrepare, TxSubmit
<1>24. CASE TxComplete
    BY <1>24 DEF TxComplete
<1>25. CASE BeaconRun
    BY <1>25 DEF BeaconRun
<1>26. CASE BeaconCheck
    BY <1>26 DEF BeaconCheck
<1>27. CASE BeaconGet
    BY <1>27 DEF BeaconGet
<1>28. CASE BeaconRearm
    BY <1>28 DEF BeaconRearm
<1>29. CASE \/ AddInterface
            \/ \E i \in Slots : UrbStep(i)
            \/ UNCHANGED vars
    <2>1. UNCHANGED <<pc, op, up, pending, bpc, txpc, txFlight>>
        BY <1>29
        DEF AddInterface, UrbStep, UrbGiveback, UrbUnlinked, UrbComplete,
            UrbResubmit, vars
    <2>2. QED
        BY <2>1
<1>30. QED
    BY <1>1, <1>2, <1>3, <1>4, <1>5, <1>6, <1>7, <1>8, <1>9, <1>10, <1>11,
       <1>12, <1>13, <1>14, <1>15, <1>16, <1>17, <1>18, <1>19, <1>20, <1>21,
       <1>22, <1>23, <1>24, <1>25, <1>26, <1>27, <1>28, <1>29
    DEF Next, CtlCall, CtlStep, DiscStep, TeardownStep, BeaconStep, Terminated

(* Beaconing that is off stays off until it is enabled again.               *)
LEMMA BeaconInvStep == LifecycleInv /\ [Next]_vars => BeaconInv'
<1> SUFFICES ASSUME ShapesOK, PcInv, UrbInv, ProgressInv, SilenceInv, BeaconInv,
                    VifHeldDuringBeacon, [Next]_vars
             PROVE  BeaconInv'
    BY DEF LifecycleInv, TypeOK
<1> USE NumRxUrbsAssumption, TxCallersAssumption
    DEF ShapesOK, Slots, Threads, Callers, PCs, Teardown, Goto, Call,
        devFlags, urbs, txState, work, ctlState, hwState, MayCall, MayClose,
        BeaconInv, PcInv, SilenceInv, Cancelling
<1>1. CASE StartBegin
    BY <1>1 DEF StartBegin
<1>2. CASE StartRxAlloc
    BY <1>2 DEF StartRxAlloc
<1>3. CASE StartRxSubmit
    BY <1>3 DEF StartRxSubmit, AfterSubmit
<1>4. CASE StartRest
    BY <1>4 DEF StartRest
<1>5. CASE StopBegin
    BY <1>5 DEF StopBegin
<1>6. CASE RemoveInterface
    BY <1>6 DEF RemoveInterface
<1>7. CASE BssBeaconOff
    BY <1>7 DEF BssBeaconOff
<1>8. CASE BssBeaconOn
    BY <1>8 DEF BssBeaconOn
<1>9. CASE BssSchedule
    BY <1>9 DEF BssSchedule
<1>10. CASE UnbindBegin
    BY <1>10 DEF UnbindBegin
<1>11. CASE UnbindFlushed
    BY <1>11 DEF UnbindFlushed
<1>12. CASE UnregisterBegin
    BY <1>12 DEF UnregisterBegin
<1>13. CASE UnregisterHw
    BY <1>13 DEF UnregisterHw
<1>14. CASE FreeHw
    BY <1>14 DEF FreeHw
<1>15. ASSUME NEW t \in Threads, CancelBegin(t)
       PROVE  BeaconInv'
    BY <1>15 DEF CancelBegin
<1>16. ASSUME NEW t \in Threads, CancelWait(t)
       PROVE  BeaconInv'
    BY <1>16 DEF CancelWait
<1>17. ASSUME NEW t \in Threads, StopRxTest(t)
       PROVE  BeaconInv'
    BY <1>17 DEF StopRxTest, NextSlot
<1>18. ASSUME NEW t \in Threads, KillUrb(t)
       PROVE  BeaconInv'
    BY <1>18 DEF KillUrb
<1>19. ASSUME NEW t \in Threads, FreeUrb(t)
       PROVE  BeaconInv'
    BY <1>19 DEF FreeUrb
<1>20. ASSUME NEW t \in Threads, NullUrb(t)
       PROVE  BeaconInv'
    BY <1>20 DEF NullUrb, NextSlot
<1>21. ASSUME NEW t \in Threads, KillAnchored(t)
       PROVE  BeaconInv'
    BY <1>21 DEF KillAnchored
<1>22. CASE BeaconRun
    BY <1>22 DEF BeaconRun
<1>23. CASE BeaconCheck
    BY <1>23 DEF BeaconCheck
<1>24. CASE BeaconGet
    BY <1>24 DEF BeaconGet
<1>25. CASE BeaconRearm
    BY <1>25 DEF BeaconRearm
<1>26. CASE \/ AddInterface
            \/ \E c \in TxCallers : TxEnter(c)
            \/ \E c \in Callers : TxStep(c)
            \/ TxComplete
            \/ \E i \in Slots : UrbStep(i)
            \/ UNCHANGED vars
    <2>1. UNCHANGED <<pc, beacon_enabled, pending, bpc>>
        BY <1>26
        DEF AddInterface, TxEnter, TxStep, TxCheckRunning, TxPrepare,
            TxSubmit, TxComplete, UrbStep, UrbGiveback, UrbUnlinked,
            UrbComplete, UrbResubmit, vars
    <2>2. QED
        BY <2>1
<1>27. QED
    BY <1>1, <1>2, <1>3, <1>4, <1>5, <1>6, <1>7, <1>8, <1>9, <1>10, <1>11,
       <1>12, <1>13, <1>14, <1>15, <1>16, <1>17, <1>18, <1>19, <1>20, <1>21,
       <1>22, <1>23, <1>24, <1>25, <1>26
    DEF Next, CtlCall, CtlStep, DiscStep, TeardownStep, BeaconStep, Terminated

(* ap_vif is cleared only when the beacon work is not executing.            *)
LEMMA VifHeldStep == LifecycleInv /\ [Next]_vars => VifHeldDuringBeacon'
<1> SUFFICES ASSUME ShapesOK, PcInv, UrbInv, ProgressInv, SilenceInv, BeaconInv,
                    VifHeldDuringBeacon, [Next]_vars
             PROVE  VifHeldDuringBeacon'
    BY DEF LifecycleInv, TypeOK
<1> USE NumRxUrbsAssumption, TxCallersAssumption
    DEF ShapesOK, Slots, Threads, Callers, PCs, Teardown, Goto, Call,
        devFlags, urbs, txState, work, ctlState, hwState, MayCall, MayClose,
        VifHeldDuringBeacon
<1>1. CASE StartBegin
    BY <1>1 DEF StartBegin
<1>2. CASE StartRxAlloc
    BY <1>2 DEF StartRxAlloc
<1>3. CASE StartRxSubmit
    BY <1>3 DEF StartRxSubmit, AfterSubmit
<1>4. CASE StopBegin
    BY <1>4 DEF StopBegin
<1>5. CASE RemoveInterface
    BY <1>5 DEF RemoveInterface
<1>6. CASE BssBeaconOff
    BY <1>6 DEF BssBeaconOff
<1>7. CASE AddInterface
    BY <1>7 DEF AddInterface
<1>8. CASE BssBeaconOn
    BY <1>8 DEF BssBeaconOn
<1>9. CASE BssSchedule
    BY <1>9 DEF BssSchedule
<1>10. CASE UnregisterBegin
    BY <1>10 DEF UnregisterBegin
<1>11. ASSUME NEW t \in Threads, CancelBegin(t)
       PROVE  VifHeldDuringBeacon'
    BY <1>11 DEF CancelBegin
<1>12. ASSUME NEW t \in Threads, CancelWait(t)
       PROVE  VifHeldDuringBeacon'
    BY <1>12 DEF CancelWait
<1>13. ASSUME NEW t \in Threads, StopRxTest(t)
       PROVE  VifHeldDuringBeacon'
    BY <1>13 DEF StopRxTest, NextSlot
<1>14. ASSUME NEW t \in Threads, KillUrb(t)
       PROVE  VifHeldDuringBeacon'
    BY <1>14 DEF KillUrb
<1>15. ASSUME NEW t \in Threads, FreeUrb(t)
       PROVE  VifHeldDuringBeacon'
    BY <1>15 DEF FreeUrb
<1>16. ASSUME NEW t \in Threads, NullUrb(t)
       PROVE  VifHeldDuringBeacon'
    BY <1>16 DEF NullUrb, NextSlot
<1>17. ASSUME NEW t \in Threads, KillAnchored(t)
       PROVE  VifHeldDuringBeacon'
    BY <1>17 DEF KillAnchored
<1>18. CASE BeaconRun
    BY <1>18 DEF BeaconRun
<1>19. CASE BeaconCheck
    BY <1>19 DEF BeaconCheck
<1>20. CASE BeaconGet
    BY <1>20 DEF BeaconGet
<1>21. CASE BeaconRearm
    BY <1>21 DEF BeaconRearm
<1>22. CASE \/ UnbindBegin
            \/ UnbindFlushed
            \/ UnregisterHw
            \/ FreeHw
            \/ StartRest
            \/ \E c \in TxCallers : TxEnter(c)
            \/ \E c \in Callers : TxStep(c)
            \/ TxComplete
            \/ \E i \in Slots : UrbStep(i)
            \/ UNCHANGED vars
    <2>1. UNCHANGED <<bpc, ap_vif>>
        BY <1>22
        DEF UnbindBegin, UnbindFlushed, UnregisterHw, FreeHw, StartRest,
            TxEnter, TxStep, TxCheckRunning, TxPrepare, TxSubmit, TxComplete,
            UrbStep, UrbGiveback, UrbUnlinked, UrbComplete, UrbResubmit, vars
    <2>2. QED
        BY <2>1
<1>23. QED
    BY <1>1, <1>2, <1>3, <1>4, <1>5, <1>6, <1>7, <1>8, <1>9, <1>10, <1>11,
       <1>12, <1>13, <1>14, <1>15, <1>16, <1>17, <1>18, <1>19, <1>20, <1>21,
       <1>22
    DEF Next, CtlCall, CtlStep, DiscStep, TeardownStep, BeaconStep, Terminated

-----------------------------------------------------------------------------
(* LifecycleInv holds in every reachable state: of any interleaving of the   *)
(* mac80211 callbacks, disconnect, the beacon work, TX and URB handlers.     *)
THEOREM LifecycleInvariant == Spec => []LifecycleInv
<1>1. Init => LifecycleInv
    <2> SUFFICES ASSUME Init
                 PROVE  LifecycleInv
        OBVIOUS
    <2>1. FlagsOK
        BY Zenon DEF Init, FlagsOK
    <2>2. ShapesOK
        BY NumRxUrbsAssumption, MaxTxUrbsAssumption
        DEF Init, ShapesOK, Slots, Threads, Callers, PCs, Teardown
    <2>3. PcInv /\ UrbInv /\ ProgressInv
        BY NumRxUrbsAssumption
        DEF Init, PcInv, UrbInv, ProgressInv, Slots, Threads, Teardown, RxTeardown,
            Starting
    <2>4. SilenceInv /\ BeaconInv /\ VifHeldDuringBeacon
        BY DEF Init, SilenceInv, BeaconInv, VifHeldDuringBeacon, Threads, Callers,
               RxTeardown, Stopping, Cancelling
    <2>5. QED
        BY <2>1, <2>2, <2>3, <2>4 DEF LifecycleInv, TypeOK
<1>2. LifecycleInv /\ [Next]_vars => LifecycleInv'
    <2> SUFFICES ASSUME LifecycleInv, [Next]_vars
                 PROVE  LifecycleInv'
        OBVIOUS
    <2>1. TypeOK'
        BY FlagsStep, ShapesStep DEF LifecycleInv, TypeOK
    <2>2. PcInv' /\ UrbInv' /\ ProgressInv'
        BY PcInvStep, UrbInvStep, ProgressInvStep
    <2>3. SilenceInv' /\ BeaconInv' /\ VifHeldDuringBeacon'
        BY SilenceInvStep, BeaconInvStep, VifHeldStep
    <2>4. QED
        BY <2>1, <2>2, <2>3 DEF LifecycleInv
<1>3. QED
    BY <1>1, <1>2, PTL DEF Spec

(* The driver's state keeps its types and the URB loops stay in range.       *)
THEOREM TypeCorrect == Spec => []TypeOK
<1>1. LifecycleInv => TypeOK
    BY DEF LifecycleInv
<1>2. QED
    BY <1>1, LifecycleInvariant, PTL

(* ieee80211_free_hw never releases hw->priv under a handler, the beacon     *)
(* work or a transmitter.                                                    *)
THEOREM FreeIsSafe == Spec => []FreedMeansQuiet
<1>1. LifecycleInv => FreedMeansQuiet
    BY DEF LifecycleInv, PcInv, UrbInv, SilenceInv, FreedMeansQuiet, Quiet, Callers
<1>2. QED
    BY <1>1, LifecycleInvariant, PTL

(* When mt7603_mac80211_stop has returned nothing of the driver is active    *)
(* and its RX and command URBs are released.                                 *)
THEOREM StopIsComplete == Spec => []StopLeavesQuiet
<1>1. LifecycleInv => StopLeavesQuiet
    BY DEF LifecycleInv, UrbInv, ProgressInv, SilenceInv, StopLeavesQuiet, Quiet,
           Callers
<1>2. QED
    BY <1>1, LifecycleInvariant, PTL

(* remove_interface never clears ap_vif under the executing beacon work.     *)
THEOREM VifOutlivesBeacon == Spec => []VifHeldDuringBeacon
<1>1. LifecycleInv => VifHeldDuringBeacon
    BY DEF LifecycleInv
<1>2. QED
    BY <1>1, LifecycleInvariant, PTL

(* Beaconing that was switched off does not come back by itself.             *)
THEOREM BeaconStaysOff == Spec => []BeaconOffIsOff
<1>1. LifecycleInv => BeaconOffIsOff
    BY DEF LifecycleInv, BeaconInv, BeaconOffIsOff
<1>2. QED
    BY <1>1, LifecycleInvariant, PTL

-----------------------------------------------------------------------------
(* A device that is closed in the sense of the contract is quiet.            *)
LEMMA DownIsQuiet == LifecycleInv /\ phaseBar # "up" => Quiet
    BY DEF LifecycleInv, phaseBar, PcInv, UrbInv, ProgressInv, SilenceInv, Quiet,
           Callers

(* A released device does not come back.                                     *)
LEMMA GoneStays == LifecycleInv /\ [Next]_vars /\ pc["disc"] = "done" => pc["disc"]' = "done"
<1> SUFFICES ASSUME LifecycleInv, [Next]_vars, pc["disc"] = "done"
             PROVE  pc'["disc"] = "done"
    OBVIOUS
<1>1. pc["ctl"] = "idle"
    BY DEF LifecycleInv, PcInv
<1>2. CASE CtlCall
    BY <1>2 DEF CtlCall, StartBegin, StopBegin, RemoveInterface, BssBeaconOff,
                AddInterface, BssBeaconOn, MayCall, MayClose
<1>3. CASE CtlStep
    BY <1>1, <1>3 DEF CtlStep, StartRxAlloc, StartRxSubmit, StartRest, BssSchedule,
                TeardownStep, CancelBegin, CancelWait, StopRxTest, KillUrb, FreeUrb,
                NullUrb, KillAnchored
<1>4. CASE UnbindBegin \/ DiscStep
    BY <1>4 DEF UnbindBegin, DiscStep, UnbindFlushed, UnregisterBegin, UnregisterHw,
                FreeHw, TeardownStep, CancelBegin, CancelWait, StopRxTest, KillUrb,
                FreeUrb, NullUrb, KillAnchored, LifecycleInv, TypeOK, ShapesOK,
                Threads, Goto
<1>5. CASE (\E c \in TxCallers : TxEnter(c)) \/ (\E c \in Callers : TxStep(c)) \/ TxComplete
    BY <1>5 DEF TxEnter, TxStep, TxCheckRunning, TxPrepare, TxSubmit, TxComplete,
                ctlState
<1>6. CASE BeaconRun \/ BeaconStep
    BY <1>6 DEF BeaconRun, BeaconStep, BeaconCheck, BeaconGet, BeaconRearm, ctlState
<1>7. CASE \E i \in Slots : UrbStep(i)
    BY <1>7 DEF UrbStep, UrbGiveback, UrbUnlinked, UrbComplete, UrbResubmit, ctlState
<1>8. CASE UNCHANGED vars
    BY <1>8 DEF vars
<1>9. QED
    BY <1>2, <1>3, <1>4, <1>5, <1>6, <1>7, <1>8 DEF Next, Terminated

(* The driver implements the contract: a closed device is silent, and a      *)
(* released one was silent when ieee80211_free_hw ran and stays so.          *)
THEOREM Refinement == Spec => KeepsContract
<1>1. Init => Contract!Init
    BY DEF Init, Contract!Init, phaseBar, Quiet, Threads, Callers
<1>2. LifecycleInv /\ LifecycleInv' /\ [Next]_vars => [Contract!Next]_(Contract!vars)
    <2> SUFFICES ASSUME LifecycleInv, LifecycleInv', [Next]_vars
                 PROVE  [Contract!Next]_(Contract!vars)
        OBVIOUS
    <2>1. (~Quiet) \in BOOLEAN /\ (~Quiet)' \in BOOLEAN
        OBVIOUS
    <2>2. phaseBar \in {"up", "down", "gone"} /\ phaseBar' \in {"up", "down", "gone"}
        BY DEF phaseBar
    <2>3. phaseBar # "up" => Quiet
        BY DownIsQuiet
    <2>4. phaseBar' # "up" => Quiet'
        BY DEF LifecycleInv, phaseBar, PcInv, UrbInv, ProgressInv, SilenceInv, Quiet,
               Callers
    <2>5. phaseBar = "gone" => phaseBar' = "gone"
        BY GoneStays DEF phaseBar
    <2>6. QED
        BY <2>1, <2>2, <2>3, <2>4, <2>5
        DEF Contract!Next, Contract!Open, Contract!Work, Contract!Close,
            Contract!Release, Contract!vars
<1>3. QED
    BY <1>1, <1>2, LifecycleInvariant, PTL
    DEF Spec, KeepsContract, Contract!Spec
=============================================================================
