------------------------------ MODULE MCSession ------------------------------
(***************************************************************************)
(* Session for TLC.  The window is 0 and the restart limit 1 instead of 32 *)
(* and 100: their order is what the code relies on, and with counters up   *)
(* to 2 one packet may be late beyond the window, another look like a      *)
(* restart, and a third be neither.                                        *)
(***************************************************************************)
EXTENDS Session

MCWindow == 0
MCRestartLimit == 1

=============================================================================
