------------------------------ MODULE Delivery ------------------------------
(***************************************************************************)
(* What the user relies on when he sends files to a friend.  A file is     *)
(* sent once and is in one place at a time: underway, waiting to be sent   *)
(* again after the transfer was broken off, over, or lost.  What is over   *)
(* or lost stays so.  Files end one by one, and the end of one touches no  *)
(* other; a transfer that begins may cost the file whose place it takes    *)
(* and the one that waits for that place.                                  *)
(***************************************************************************)

CONSTANT File

VARIABLES sent,        \* files the user has sent
          underway,    \* those that a transfer is for
          waiting,     \* those to be sent again
          over         \* those completed or cancelled

dvars == <<sent, underway, waiting, over>>

DInit == sent = {} /\ underway = {} /\ waiting = {} /\ over = {}

\* A transfer begins in the place that g may have and h may wait for.
Send(f, g, h) ==
    /\ f \notin sent
    /\ sent' = sent \cup {f}
    /\ underway' = (underway \ {g}) \cup {f}
    /\ waiting' = waiting \ {h}
    /\ UNCHANGED over

Resume(f, g, h) ==
    /\ f \in waiting
    /\ underway' = (underway \ {g}) \cup {f}
    /\ waiting' = waiting \ {f, h}
    /\ UNCHANGED <<sent, over>>

\* What begins is no file that the user sent, or only the place is cleared.
GiveWay(g, h) ==
    /\ underway' = underway \ {g}
    /\ waiting' = waiting \ {h}
    /\ UNCHANGED <<sent, over>>

Finish(f) ==
    /\ f \in underway
    /\ underway' = underway \ {f}
    /\ over' = over \cup {f}
    /\ UNCHANGED <<sent, waiting>>

\* Any number of transfers is broken off; not all of them leave something to
\* go on with.
BreakOff ==
    /\ underway' \subseteq underway
    /\ waiting \subseteq waiting'
    /\ waiting' \subseteq waiting \cup (underway \ underway')
    /\ UNCHANGED <<sent, over>>

DNext ==
    \/ \E f, g, h \in File : Send(f, g, h) \/ Resume(f, g, h)
    \/ \E g, h \in File : GiveWay(g, h)
    \/ \E f \in File : Finish(f)
    \/ BreakOff

DSpec == DInit /\ [][DNext]_dvars
=============================================================================
