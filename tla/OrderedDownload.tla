-------------------------- MODULE OrderedDownload --------------------------
(***************************************************************************)
(* What a download promises, whatever its protocol: the output file only   *)
(* grows, and is at every moment a beginning of the server's text.         *)
(***************************************************************************)
EXTENDS Integers, Sequences

CONSTANT
  Text     \* the chunks of the file on the server, a sequence

VARIABLE file

Init == file = <<>>

(* Some chunks more are written, the next ones of the text. *)
Grow ==
  \E n \in (Len(file) + 1)..Len(Text) : file' = [i \in 1..n |-> Text[i]]

Spec == Init /\ [][Grow]_file
=============================================================================
