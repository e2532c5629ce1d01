---------------------------- MODULE MCToxMailbox ----------------------------
(* ToxMailbox with two interchangeable posters, for the runs that overlap  *)
(* the UI thread with a GTK dialog thread.                                 *)
EXTENDS ToxMailbox, TLC

CONSTANTS ui, dialog

Symm == Permutations({ui, dialog})
=============================================================================
