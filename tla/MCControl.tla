----------------------------- MODULE MCControl ------------------------------
(***************************************************************************)
(* What the user controls, for TLC: the settings in the config file, the   *)
(* order and the tree of the rows, and the keyboard share no state, so a   *)
(* behaviour follows one of them and leaves the others at rest.            *)
(***************************************************************************)
EXTENDS MCConfigStore, MCProcessRows, MCKeyboard

VARIABLE part \* what this behaviour follows

StoreAtRest ==
  /\ file = <<>> /\ Init
RowsAtRest ==
  /\ sort = "Cpu" /\ direction = -1 /\ RowsInit
KeysAtRest ==
  /\ session = {"Esc", "[", "9", "F10", "Press", "q"} /\ refresh = 100 /\ KeyboardInit

ControlInit ==
  \/ part = "store" /\ Init /\ RowsAtRest /\ KeysAtRest
  \/ part = "rows" /\ StoreAtRest /\ RowsInit /\ KeysAtRest
  \/ part = "keys" /\ StoreAtRest /\ RowsAtRest /\ KeyboardInit

\* mtop has stopped.
HasQuit == ~running /\ UNCHANGED keyboardVars

ControlNext ==
  /\ \/ part = "store" /\ Next /\ UNCHANGED <<rowVars, keyboardVars>>
     \/ part = "rows" /\ RowsNext /\ UNCHANGED <<vars, keyboardVars>>
     \/ part = "keys" /\ (KeyboardNext \/ HasQuit) /\ UNCHANGED <<vars, rowVars>>
  /\ UNCHANGED part

ControlSpec == ControlInit /\ [][ControlNext]_<<vars, rowVars, keyboardVars, part>>
=============================================================================
