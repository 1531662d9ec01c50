------------------------------ MODULE MCBringUp ------------------------------
EXTENDS BringUp

MCBlocks == 14

(* Image lengths around the payload of one and of two scatter frames.       *)
MCDlLens == {1, FW_SCATTER_MAX_PAYLOAD, FW_SCATTER_MAX_PAYLOAD + 1, 2 * FW_SCATTER_MAX_PAYLOAD}

(* An empty bank, erased and zeroed addresses, an address with one usable   *)
(* byte, RSSI offsets at and beyond the limit, a block without content.     *)
MCFuses ==
    { [empty |-> TRUE, valid |-> {}, mac |-> Ones, rssi |-> -1],
      [empty |-> FALSE, valid |-> 0..(MCBlocks - 1), mac |-> Zeros, rssi |-> -10],
      [empty |-> FALSE, valid |-> (0..(MCBlocks - 1)) \ {0, 5, 10}, mac |-> Ones, rssi |-> 10],
      [empty |-> FALSE, valid |-> (0..(MCBlocks - 1)) \ {12},
       mac |-> <<0, 0, 0, 0, 0, 1>>, rssi |-> 11] }
=============================================================================
