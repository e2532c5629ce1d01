---------------------------- MODULE ToxMailbox ----------------------------
(***************************************************************************)
(* The one-slot mailbox between the threads that call postmessage_toxcore  *)
(* and the toxcore thread: the struct tox_msg and the flag tox_thread_msg. *)
(* There is no lock.  A poster polls the flag until it is down, writes the *)
(* struct member by member, then raises the flag; after 500 polls it stops *)
(* waiting and writes all the same.  The reader polls the flag, handles    *)
(* the message through a pointer to the slot, lowers the flag and then     *)
(* reads the slot's tag once more (typing_state.sent).                     *)
(*                                                                         *)
(* TOX_KILL, which ends the reader's loop, is modelled in ToxThread.       *)
(***************************************************************************)
EXTENDS Naturals, Sequences

CONSTANTS Posters,    \* threads that call postmessage_toxcore
          MaxCalls,   \* bound: calls a poster makes
          GivesUp     \* whether a message may take longer than 500 polls

ASSUME MailboxAssumption ==
    /\ MaxCalls \in Nat
    /\ GivesUp \in BOOLEAN

\* TOX_SEND_ACTION is as TOX_SEND_MESSAGE here, and any other tag behaves as
\* TOX_SEND_TYPING does, except that it ignores what "sent" says.
Kind == {"TOX_SEND_MESSAGE", "TOX_SEND_TYPING"}
Message == [from : Posters, seq : 1..MaxCalls, kind : Kind]

\* The struct tox_msg: its member msg, and param1, param2 and data together.
\* A message stands for the values its poster writes; NoMessage for zeroes.
NoMessage == [from |-> "nobody", seq |-> 0, kind |-> "none"]

VARIABLES
    tox_thread_init,   \* whether the instance is up
    tox_thread_msg,    \* the flag
    tox_msg,           \* the slot
    sent,              \* typing_state.sent
    pc,                \* where each poster is in postmessage_toxcore
    msg,               \* the message of each poster's current call
    calls,             \* how many calls each poster has made
    reader             \* where toxcore_thread is in its loop

\* History: what was posted and what was handled, and what went wrong.
VARIABLES
    posted,            \* the messages the flag was raised for, in order
    handled,           \* what the handler was called with, in order
    overran,           \* some poster stopped waiting
    crowded            \* some poster passed the flag while another was writing

slotVars   == <<tox_thread_init, tox_thread_msg, tox_msg>>
posterVars == <<pc, msg, calls>>
history    == <<posted, handled, overran, crowded>>
vars == <<slotVars, sent, posterVars, reader, history>>

Init ==
    /\ tox_thread_init = FALSE
    /\ tox_thread_msg = FALSE
    /\ tox_msg = [msg |-> NoMessage, data |-> NoMessage]
    /\ sent = FALSE
    /\ pc = [p \in Posters |-> "idle"]
    /\ msg = [p \in Posters |-> NoMessage]
    /\ calls = [p \in Posters |-> 0]
    /\ reader = "start"
    /\ posted = <<>>
    /\ handled = <<>>
    /\ overran = FALSE
    /\ crowded = FALSE

Writing(p) == pc[p] \in {"tag", "rest", "raise"}

-----------------------------------------------------------------------------
\* postmessage_toxcore

Call(p) ==
    /\ pc[p] = "idle"
    /\ calls[p] < MaxCalls
    /\ calls' = [calls EXCEPT ![p] = @ + 1]
    /\ \E k \in Kind :
         msg' = [msg EXCEPT ![p] = [from |-> p, seq |-> calls[p] + 1, kind |-> k]]
    /\ pc' = [pc EXCEPT ![p] = "wait"]
    /\ UNCHANGED <<slotVars, sent, reader, history>>

\* Leaving the wait, then the test that drops the message while Tox is down.
Enter(p) ==
    /\ pc' = [pc EXCEPT ![p] = IF tox_thread_init THEN "tag" ELSE "idle"]
    /\ crowded' = (crowded \/ (tox_thread_init /\ \E q \in Posters : Writing(q)))
    /\ UNCHANGED <<slotVars, sent, msg, calls, reader, posted, handled>>

FlagDown(p) ==
    /\ pc[p] = "wait"
    /\ ~tox_thread_msg
    /\ Enter(p)
    /\ UNCHANGED overran

GiveUp(p) ==
    /\ GivesUp
    /\ pc[p] = "wait"
    /\ tox_thread_msg
    /\ Enter(p)
    /\ overran' = TRUE

WriteTag(p) ==
    /\ pc[p] = "tag"
    /\ tox_msg' = [tox_msg EXCEPT !.msg = msg[p]]
    /\ pc' = [pc EXCEPT ![p] = "rest"]
    /\ UNCHANGED <<tox_thread_init, tox_thread_msg, sent, msg, calls, reader, history>>

WriteRest(p) ==
    /\ pc[p] = "rest"
    /\ tox_msg' = [tox_msg EXCEPT !.data = msg[p]]
    /\ pc' = [pc EXCEPT ![p] = "raise"]
    /\ UNCHANGED <<tox_thread_init, tox_thread_msg, sent, msg, calls, reader, history>>

RaiseFlag(p) ==
    /\ pc[p] = "raise"
    /\ tox_thread_msg' = TRUE
    /\ posted' = Append(posted, msg[p])
    /\ pc' = [pc EXCEPT ![p] = "idle"]
    /\ UNCHANGED <<tox_thread_init, tox_msg, sent, msg, calls, reader,
                   handled, overran, crowded>>

-----------------------------------------------------------------------------
\* toxcore_thread

Start ==
    /\ reader = "start"
    /\ tox_thread_init' = TRUE
    /\ reader' = "poll"
    /\ UNCHANGED <<tox_thread_msg, tox_msg, sent, posterVars, history>>

PollMutLowersFirst ==
    /\ reader = "poll"
    /\ tox_thread_msg
    /\ tox_thread_msg' = FALSE
    /\ reader' = "handle"
    /\ UNCHANGED <<tox_thread_init, tox_msg, sent, posterVars, history>>

PollMutSkipsTyping ==
    /\ reader = "poll"
    /\ tox_thread_msg
    /\ reader' = IF tox_msg.msg.kind = "TOX_SEND_TYPING" THEN "poll" ELSE "handle"
    /\ UNCHANGED <<slotVars, sent, posterVars, history>>

Poll ==
    /\ reader = "poll"
    /\ tox_thread_msg
    /\ reader' = "handle"
    /\ UNCHANGED <<slotVars, sent, posterVars, history>>

\* tox_thread_message; for TOX_SEND_TYPING, stop tells whether the handler
\* sets the time that makes the friend see typing end.
Handle ==
    /\ reader = "handle"
    /\ handled' = Append(handled, [msg |-> tox_msg.msg, data |-> tox_msg.data,
                                   stop |-> sent])
    /\ reader' = "lower"
    /\ UNCHANGED <<slotVars, sent, posterVars, posted, overran, crowded>>

LowerFlag ==
    /\ reader = "lower"
    /\ tox_thread_msg' = FALSE
    /\ reader' = "note"
    /\ UNCHANGED <<tox_thread_init, tox_msg, sent, posterVars, history>>

\* The slot is read again here, after the flag went down.
NoteSentMutLowersAgain ==
    /\ reader = "note"
    /\ sent' = (tox_msg.msg.kind = "TOX_SEND_MESSAGE")
    /\ tox_thread_msg' = FALSE
    /\ reader' = "poll"
    /\ UNCHANGED <<tox_thread_init, tox_msg, posterVars, history>>

NoteSent ==
    /\ reader = "note"
    /\ sent' = (tox_msg.msg.kind = "TOX_SEND_MESSAGE")
    /\ reader' = "poll"
    /\ UNCHANGED <<slotVars, posterVars, history>>

-----------------------------------------------------------------------------
Post(p) == Call(p) \/ FlagDown(p) \/ GiveUp(p) \/ WriteTag(p) \/ WriteRest(p) \/ RaiseFlag(p)
Read == Start \/ Poll \/ Handle \/ LowerFlag \/ NoteSent

Next == Read \/ \E p \in Posters : Post(p)

\* Threads run: a poster inside postmessage_toxcore goes on polling and
\* writing, and toxcore_thread goes round its loop.  Nobody has to call.
Proceed(p) == FlagDown(p) \/ WriteTag(p) \/ WriteRest(p) \/ RaiseFlag(p)
Fairness == WF_vars(Read) /\ \A p \in Posters : WF_vars(Proceed(p))

Spec == Init /\ [][Next]_vars
FairSpec == Spec /\ Fairness

-----------------------------------------------------------------------------
TypeOK ==
    /\ tox_thread_init \in BOOLEAN
    /\ tox_thread_msg \in BOOLEAN
    /\ tox_msg \in [msg : Message \cup {NoMessage}, data : Message \cup {NoMessage}]
    /\ sent \in BOOLEAN
    /\ pc \in [Posters -> {"idle", "wait", "tag", "rest", "raise"}]
    /\ msg \in [Posters -> Message \cup {NoMessage}]
    /\ calls \in [Posters -> 0..MaxCalls]
    /\ reader \in {"start", "poll", "handle", "lower", "note"}
    /\ posted \in Seq(Message)
    /\ handled \in Seq([msg : Message \cup {NoMessage}, data : Message \cup {NoMessage},
                        stop : BOOLEAN])
    /\ overran \in BOOLEAN
    /\ crowded \in BOOLEAN

\* No poster gave up waiting, and no two were past the flag at once.
Serialised == ~overran /\ ~crowded

\* Every message of postmessage_toxcore reaches tox_thread_message whole
\* (tag and parameters of one call), once, and in the order of the calls,
\* unless a poster gave up waiting or two posters were past the flag at once:
\* those two are the only ways the mailbox can lose, tear, repeat or reorder.
ExactlyOnceInOrder ==
    Serialised =>
      /\ Len(handled) \in {Len(posted), Len(posted) - 1}
      /\ \A i \in 1..Len(handled) :
           handled[i].msg = posted[i] /\ handled[i].data = posted[i]

\* The reader never looks at a slot that a poster is writing, as long as no
\* poster gave up and no two overlapped: the flag alone does the work of a lock.
NoDataRace ==
    Serialised => \A p \in Posters : Writing(p) => reader \notin {"handle", "lower"}

\* postmessage_toxcore returns to its caller (the UI thread draws nothing
\* while it is inside).
CallReturns == \A p \in Posters : pc[p] # "idle" ~> pc[p] = "idle"

\* What a caller relies on: with one poster that never gives up, the slot
\* with its flag is a Handoff (posting is the raised flag, taking is the call
\* of the handler).
inSlot == IF Len(posted) = Len(handled) THEN <<>> ELSE <<posted[Len(posted)]>>
taken  == [i \in 1..Len(handled) |-> handled[i].msg]
Cell == INSTANCE Handoff WITH cell <- inSlot, delivered <- taken
HandoffSpec == Cell!HSpec
=============================================================================
