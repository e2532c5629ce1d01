--------------------------- MODULE MCContactList ---------------------------
(***************************************************************************)
(* The contact list of two people, or three, with the odd events one at a  *)
(* time.                                                                   *)
(***************************************************************************)
EXTENDS ContactList, TLC

CONSTANTS p1, p2, p3

ThreePeople == {p1, p2, p3}
Symm == Permutations(ThreePeople)

\* Two requests and two messages at once where nothing odd happens; one request
\* and one message for what is odd within a Tox instance, and for a restart; two
\* messages for a declined request and a number taken again, and for a restart
\* that crosses one; two requests for the odd event that needs two; three messages
\* for a FRIEND that moves while it waits to be freed.
Bounds ==
    { [requests |-> 2, queue |-> 2, odd |-> {}],
      [requests |-> 1, queue |-> 1, odd |-> OddEvent \ {"raced", "crossed"}],
      [requests |-> 1, queue |-> 2, odd |-> {"declined", "reused"}],
      [requests |-> 0, queue |-> 2, odd |-> {"restart", "crossed"}],
      [requests |-> 2, queue |-> 1, odd |-> {"raced"}],
      [requests |-> 0, queue |-> 3, odd |-> {"reused"}] }

\* Three people for a friend whose number is beyond the list.
FewLimits ==
    { [people |-> pair, requests |-> b.requests, queue |-> b.queue, odd |-> b.odd] :
          pair \in kSubset(2, ThreePeople), b \in Bounds }
    \cup { [people |-> ThreePeople, requests |-> 0, queue |-> 2, odd |-> {"beyond"}] }
=============================================================================
