---------------------------- MODULE Conversation ----------------------------
(***************************************************************************)
(* What the user relies on when he writes to a friend: his texts reach the *)
(* friend only after he wrote them, a text is shown as confirmed only once *)
(* the friend has it, one confirmation at a time, and what the log says of *)
(* it outlives the program.  That a text is sent again takes its mark from *)
(* the screen until the next receipt, never from the log; the log loses    *)
(* its marks only when the user clears it.                                 *)
(***************************************************************************)
EXTENDS Naturals

CONSTANT MaxTexts     \* how many texts the user writes

VARIABLES written,    \* how many texts he has written
          received,   \* those that the friend has
          shown,      \* those that are shown as confirmed
          noted       \* those that the log has as confirmed

cvars == <<written, received, shown, noted>>

CInit == written = 0 /\ received = {} /\ shown = {} /\ noted = {}

Write ==
    /\ written < MaxTexts
    /\ written' = written + 1
    /\ UNCHANGED <<received, shown, noted>>

Receive ==
    /\ \E t \in 1..written : received' = received \cup {t}
    /\ UNCHANGED <<written, shown, noted>>

\* The mark in the log is made with the one on the screen, or not at all.
Confirm ==
    /\ \E t \in received :
         /\ shown' = shown \cup {t}
         /\ noted' \in {noted, noted \cup {t}}
    /\ UNCHANGED <<written, received>>

\* A text is sent again, or is too old to stay on the screen.
Unshow ==
    /\ shown' \subseteq shown
    /\ UNCHANGED <<written, received, noted>>

ClearLog ==
    /\ noted' = {}
    /\ UNCHANGED <<written, received, shown>>

\* The program is started again.
Reload ==
    /\ shown' \subseteq noted
    /\ UNCHANGED <<written, received, noted>>

CNext == Write \/ Receive \/ Confirm \/ Unshow \/ ClearLog \/ Reload

CSpec == CInit /\ [][CNext]_cvars
=============================================================================
