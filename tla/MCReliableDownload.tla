------------------------- MODULE MCReliableDownload -------------------------
(***************************************************************************)
(* Small instances of ReliableDownload.  Where the lengths of time matter  *)
(* a tick is 100 ms: a timeout of 7, a heartbeat of 50.  Two chunks of the *)
(* longer text are alike.                                                  *)
(***************************************************************************)
EXTENDS ReliableDownload

TwoChunks == <<"a", "b">>

(* With a timeout of 7, delays up to 7 and a heartbeat of 50 there is      *)
(* enough time for five requests lost in a row, and not for seven.         *)
ASSUME TimeForFiveLosses == Urgent => (EnoughTime <=> MaxLost <= 5)
=============================================================================
