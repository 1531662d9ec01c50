---------------------------- MODULE DeviceContract ----------------------------
(***************************************************************************)
(* What the rest of the kernel may rely on, whatever the driver does        *)
(* inside: a device that is closed is silent, and a device that is gone was *)
(* silent when it went and stays so.                                        *)
(***************************************************************************)
VARIABLES phase,  \* "down": closed, "up": open or opening, "gone": released
          busy    \* something of the driver is running or may run by itself

vars == <<phase, busy>>

Init == phase = "down" /\ busy = FALSE

Open == phase = "down" /\ phase' = "up" /\ busy' \in BOOLEAN

Work == phase = "up" /\ phase' = "up" /\ busy' \in BOOLEAN

Close == phase = "up" /\ phase' = "down" /\ busy' = FALSE

Release == phase \in {"up", "down"} /\ phase' = "gone" /\ busy' = FALSE

Next == Open \/ Work \/ Close \/ Release

Spec == Init /\ [][Next]_vars
=============================================================================
