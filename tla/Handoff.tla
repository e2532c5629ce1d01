------------------------------ MODULE Handoff ------------------------------
(***************************************************************************)
(* What a caller of postmessage_toxcore relies on: a hand-off cell between *)
(* the posting side and one reader.  A posted message waits in the cell    *)
(* until the reader takes it, nothing is posted over it, and the reader    *)
(* takes whole messages, each exactly once and in the order of posting.    *)
(***************************************************************************)
EXTENDS Sequences

CONSTANT Message

VARIABLES cell,       \* <<>> or <<m>>: the message waiting for the reader
          delivered   \* the messages the reader has taken, in order

hvars == <<cell, delivered>>

HInit == cell = <<>> /\ delivered = <<>>

Put(m) ==
    /\ cell = <<>>
    /\ cell' = <<m>>
    /\ UNCHANGED delivered

Take ==
    /\ cell # <<>>
    /\ delivered' = Append(delivered, cell[1])
    /\ cell' = <<>>

HNext == Take \/ \E m \in Message : Put(m)

HSpec == HInit /\ [][HNext]_hvars
=============================================================================
