-------------------------- MODULE ToxMailboxProofs --------------------------
(***************************************************************************)
(* For any number of posters and calls: types, the exactly-once delivery   *)
(* of a serialised mailbox and the absence of races on its slot; and, for  *)
(* one poster that never gives up, that the mailbox implements Handoff.    *)
(***************************************************************************)
EXTENDS ToxMailbox, SequenceTheorems, TLAPS

\* A call in progress carries a message of its own poster.
CallInv == \A p \in Posters : pc[p] # "idle" => msg[p] \in Message

\* The slot's protocol, conjunct by conjunct: one writer at a time, who
\* writes under a lowered flag; the halves it has written are its message's;
\* the reader holds the flag up while it looks at the slot.
OneWriter ==
    \A p, q \in Posters : Writing(p) /\ Writing(q) => p = q
WriterUnderLoweredFlag ==
    \A p \in Posters : Writing(p) => ~tox_thread_msg
Written ==
    \A p \in Posters :
      /\ pc[p] \in {"rest", "raise"} => tox_msg.msg = msg[p]
      /\ pc[p] = "raise" => tox_msg.data = msg[p]
ReaderUnderRaisedFlag ==
    reader \in {"handle", "lower"} => tox_thread_msg
Waiting == tox_thread_msg /\ reader # "lower"
Outstanding ==
    /\ Waiting => /\ Len(posted) = Len(handled) + 1
                  /\ tox_msg.msg = posted[Len(posted)]
                  /\ tox_msg.data = posted[Len(posted)]
    /\ ~Waiting => Len(posted) = Len(handled)
Faithful ==
    \A i \in 1..Len(handled) :
      handled[i].msg = posted[i] /\ handled[i].data = posted[i]

SlotProtocol ==
    /\ OneWriter
    /\ WriterUnderLoweredFlag
    /\ Written
    /\ ReaderUnderRaisedFlag
    /\ Outstanding
    /\ Faithful

SlotInv == Serialised => SlotProtocol
MailboxInv == TypeOK /\ CallInv /\ SlotInv

-----------------------------------------------------------------------------
\* Every variable keeps its type, and a call in progress carries a message.
THEOREM TypeCorrect == Spec => [](TypeOK /\ CallInv)
<1> USE MailboxAssumption DEF TypeOK, CallInv
<1>1. Init => TypeOK /\ CallInv
  <2> SUFFICES ASSUME Init PROVE TypeOK /\ CallInv
    OBVIOUS
  <2> USE DEF Init
  <2>1. posted \in Seq(Message)
    OBVIOUS
  <2>2. handled \in Seq([msg : Message \cup {NoMessage}, data : Message \cup {NoMessage},
                         stop : BOOLEAN])
    OBVIOUS
  <2>3. 0 \in 0..MaxCalls
    OBVIOUS
  <2>4. tox_msg \in [msg : Message \cup {NoMessage}, data : Message \cup {NoMessage}]
    OBVIOUS
  <2>5. /\ pc \in [Posters -> {"idle", "wait", "tag", "rest", "raise"}]
        /\ msg \in [Posters -> Message \cup {NoMessage}]
        /\ calls \in [Posters -> 0..MaxCalls]
    BY <2>3
  <2>6. CallInv
    OBVIOUS
  <2> QED
    BY <2>1, <2>2, <2>4, <2>5, <2>6
<1>2. TypeOK /\ CallInv /\ [Next]_vars => TypeOK' /\ CallInv'
  <2> SUFFICES ASSUME TypeOK, CallInv, [Next]_vars PROVE TypeOK' /\ CallInv'
    OBVIOUS
  <2> USE DEF slotVars, posterVars, history
  <2>1. ASSUME NEW p \in Posters, Call(p) PROVE TypeOK' /\ CallInv'
    BY <2>1 DEF Call, Message, Kind
  <2>2. ASSUME NEW p \in Posters, FlagDown(p) PROVE TypeOK' /\ CallInv'
    BY <2>2 DEF FlagDown, Enter
  <2>3. ASSUME NEW p \in Posters, GiveUp(p) PROVE TypeOK' /\ CallInv'
    BY <2>3 DEF GiveUp, Enter
  <2>4. ASSUME NEW p \in Posters, WriteTag(p) PROVE TypeOK' /\ CallInv'
    BY <2>4 DEF WriteTag
  <2>5. ASSUME NEW p \in Posters, WriteRest(p) PROVE TypeOK' /\ CallInv'
    BY <2>5 DEF WriteRest
  <2>6. ASSUME NEW p \in Posters, RaiseFlag(p) PROVE TypeOK' /\ CallInv'
    BY <2>6 DEF RaiseFlag
  <2>7. CASE Start
    BY <2>7 DEF Start
  <2>8. CASE Poll
    BY <2>8 DEF Poll
  <2>9. CASE Handle
    BY <2>9 DEF Handle
  <2>10. CASE LowerFlag
    BY <2>10 DEF LowerFlag
  <2>11. CASE NoteSent
    BY <2>11 DEF NoteSent
  <2>12. CASE UNCHANGED vars
    BY <2>12 DEF vars
  <2> QED
    BY <2>1, <2>2, <2>3, <2>4, <2>5, <2>6, <2>7, <2>8, <2>9, <2>10, <2>11, <2>12
       DEF Next, Read, Post
<1>3. QED
  BY <1>1, <1>2, PTL DEF Spec

\* The slot's protocol holds as long as no poster gave up and none overlapped.
THEOREM SlotProtocolHolds == Spec => []MailboxInv
<1>1. Init => SlotInv
  BY DEF Init, SlotInv, SlotProtocol, OneWriter, WriterUnderLoweredFlag, Written,
         ReaderUnderRaisedFlag, Outstanding, Waiting, Faithful, Writing
<1>2. TypeOK /\ CallInv /\ SlotInv /\ [Next]_vars => SlotInv'
  <2> SUFFICES ASSUME TypeOK, CallInv, SlotInv, [Next]_vars, Serialised'
               PROVE  SlotProtocol'
    BY DEF SlotInv
  <2> USE DEF slotVars, posterVars, history
  <2>0. Serialised /\ SlotProtocol
    <3>1. overran => overran'
      BY DEF Next, Read, Post, Call, FlagDown, GiveUp, Enter, WriteTag, WriteRest,
             RaiseFlag, Start, Poll, Handle, LowerFlag, NoteSent, vars
    <3>2. crowded => crowded'
      BY DEF Next, Read, Post, Call, FlagDown, GiveUp, Enter, WriteTag, WriteRest,
             RaiseFlag, Start, Poll, Handle, LowerFlag, NoteSent, vars
    <3> QED
      BY <3>1, <3>2 DEF SlotInv, Serialised
  <2> USE <2>0
  <2>1. ASSUME NEW p \in Posters, Call(p) PROVE SlotProtocol'
    <3>1. \A q \in Posters : Writing(q)' <=> Writing(q)
      BY <2>1 DEF Call, Writing, TypeOK
    <3>2. \A q \in Posters : Writing(q) => msg'[q] = msg[q] /\ pc'[q] = pc[q]
      BY <2>1 DEF Call, Writing, TypeOK
    <3>3. Written'
      BY <2>1, <3>1, <3>2 DEF Call, Writing, SlotProtocol, Written
    <3> QED
      BY <2>1, <3>1, <3>3
         DEF Call, SlotProtocol, OneWriter, WriterUnderLoweredFlag,
             ReaderUnderRaisedFlag, Outstanding, Waiting, Faithful
  <2>2. ASSUME NEW p \in Posters, FlagDown(p) PROVE SlotProtocol'
    <3>1. CASE ~tox_thread_init
      <4>1. \A q \in Posters : pc'[q] = IF q = p THEN "idle" ELSE pc[q]
        BY <2>2, <3>1 DEF FlagDown, Enter, TypeOK
      <4> QED
        BY <2>2, <4>1
           DEF FlagDown, Enter, SlotProtocol, OneWriter, WriterUnderLoweredFlag,
               Written, Writing, ReaderUnderRaisedFlag, Outstanding, Waiting, Faithful
    <3>2. CASE tox_thread_init
      <4>1. \A q \in Posters : ~Writing(q)
        BY <2>2, <3>2 DEF FlagDown, Enter, Serialised
      <4>2. \A q \in Posters : pc'[q] = IF q = p THEN "tag" ELSE pc[q]
        BY <2>2, <3>2 DEF FlagDown, Enter, TypeOK
      <4> QED
        BY <2>2, <4>1, <4>2
           DEF FlagDown, Enter, SlotProtocol, OneWriter, WriterUnderLoweredFlag,
               Written, Writing, ReaderUnderRaisedFlag, Outstanding, Waiting, Faithful
    <3> QED
      BY <3>1, <3>2 DEF TypeOK
  <2>3. ASSUME NEW p \in Posters, GiveUp(p) PROVE SlotProtocol'
    BY <2>3 DEF GiveUp, Serialised
  <2>4. ASSUME NEW p \in Posters, WriteTag(p) PROVE SlotProtocol'
    <3>1. \A q \in Posters : pc'[q] = IF q = p THEN "rest" ELSE pc[q]
      BY <2>4 DEF WriteTag, TypeOK
    <3>2. Writing(p) /\ \A q \in Posters : Writing(q) => q = p
      BY <2>4 DEF WriteTag, Writing, SlotProtocol, OneWriter
    <3>3. tox_msg'.msg = msg[p] /\ msg' = msg
      BY <2>4 DEF WriteTag, TypeOK
    <3>4. Written'
      BY <3>1, <3>2, <3>3 DEF Written, Writing
    <3>5. ~tox_thread_msg
      BY <3>2 DEF SlotProtocol, WriterUnderLoweredFlag
    <3> QED
      BY <2>4, <3>1, <3>2, <3>4, <3>5
         DEF WriteTag, Writing, SlotProtocol, OneWriter, WriterUnderLoweredFlag,
             ReaderUnderRaisedFlag, Outstanding, Waiting, Faithful
  <2>5. ASSUME NEW p \in Posters, WriteRest(p) PROVE SlotProtocol'
    <3>1. \A q \in Posters : pc'[q] = IF q = p THEN "raise" ELSE pc[q]
      BY <2>5 DEF WriteRest, TypeOK
    <3>2. Writing(p) /\ \A q \in Posters : Writing(q) => q = p
      BY <2>5 DEF WriteRest, Writing, SlotProtocol, OneWriter
    <3>3. tox_msg'.msg = msg[p] /\ tox_msg'.data = msg[p] /\ msg' = msg
      BY <2>5 DEF WriteRest, TypeOK, SlotProtocol, Written
    <3>4. Written'
      BY <3>1, <3>2, <3>3 DEF Written, Writing
    <3>5. ~tox_thread_msg
      BY <3>2 DEF SlotProtocol, WriterUnderLoweredFlag
    <3> QED
      BY <2>5, <3>1, <3>2, <3>4, <3>5
         DEF WriteRest, Writing, SlotProtocol, OneWriter, WriterUnderLoweredFlag,
             ReaderUnderRaisedFlag, Outstanding, Waiting, Faithful
  <2>6. ASSUME NEW p \in Posters, RaiseFlag(p) PROVE SlotProtocol'
    <3>1. \A q \in Posters : pc'[q] = IF q = p THEN "idle" ELSE pc[q]
      BY <2>6 DEF RaiseFlag, TypeOK
    <3>2. Writing(p) /\ \A q \in Posters : Writing(q) => q = p
      BY <2>6 DEF RaiseFlag, Writing, SlotProtocol, OneWriter
    <3>3. ~tox_thread_msg /\ reader \notin {"handle", "lower"}
      BY <3>2 DEF SlotProtocol, WriterUnderLoweredFlag, ReaderUnderRaisedFlag
    <3>4. tox_msg.msg = msg[p] /\ tox_msg.data = msg[p]
      BY <2>6 DEF RaiseFlag, SlotProtocol, Written
    <3>5. \A q \in Posters : ~Writing(q)'
      BY <3>1, <3>2 DEF Writing
    <3>6. msg[p] \in Message /\ posted \in Seq(Message)
      BY <2>6 DEF RaiseFlag, CallInv, TypeOK
    <3>7. /\ Len(posted') = Len(posted) + 1
          /\ posted'[Len(posted')] = msg[p]
          /\ \A i \in 1..Len(posted) : posted'[i] = posted[i]
      BY <2>6, <3>6 DEF RaiseFlag
    <3>8. Len(posted) = Len(handled) /\ Len(handled) \in Nat
      BY <3>3 DEF SlotProtocol, Outstanding, Waiting, TypeOK
    <3>9. Outstanding'
      BY <2>6, <3>3, <3>4, <3>7, <3>8 DEF RaiseFlag, Outstanding, Waiting
    <3>10. Faithful'
      BY <2>6, <3>7, <3>8 DEF RaiseFlag, SlotProtocol, Faithful
    <3>11. Written'
      BY <3>5 DEF Written, Writing
    <3> QED
      BY <2>6, <3>3, <3>5, <3>9, <3>10, <3>11
         DEF RaiseFlag, SlotProtocol, OneWriter, WriterUnderLoweredFlag,
             ReaderUnderRaisedFlag
  <2>7. CASE Start
    BY <2>7 DEF Start, SlotProtocol, OneWriter, WriterUnderLoweredFlag, Written,
         Writing, ReaderUnderRaisedFlag, Outstanding, Waiting, Faithful
  <2>8. CASE Poll
    BY <2>8 DEF Poll, SlotProtocol, OneWriter, WriterUnderLoweredFlag, Written,
         Writing, ReaderUnderRaisedFlag, Outstanding, Waiting, Faithful
  <2>9. CASE Handle
    <3>1. Waiting /\ ~Waiting'
      BY <2>9 DEF Handle, Waiting, SlotProtocol, ReaderUnderRaisedFlag
    <3> DEFINE h == [msg |-> tox_msg.msg, data |-> tox_msg.data, stop |-> sent]
    <3>2. /\ Len(handled') = Len(handled) + 1
          /\ handled'[Len(handled')] = h
          /\ \A i \in 1..Len(handled) : handled'[i] = handled[i]
      BY <2>9 DEF Handle, TypeOK
    <3>3. Len(handled) \in Nat
      BY DEF TypeOK
    <3>4. Len(posted) = Len(handled) + 1 /\ h.msg = posted[Len(posted)]
                                        /\ h.data = posted[Len(posted)]
      BY <3>1 DEF SlotProtocol, Outstanding
    <3>5. Outstanding'
      BY <2>9, <3>1, <3>2, <3>4 DEF Handle, Outstanding
    <3>6. Faithful'
      <4> SUFFICES ASSUME NEW i \in 1..Len(handled')
                   PROVE  handled'[i].msg = posted[i] /\ handled'[i].data = posted[i]
        BY <2>9 DEF Handle, Faithful
      <4>1. CASE i = Len(handled')
        BY <4>1, <3>2, <3>3, <3>4
      <4>2. CASE i \in 1..Len(handled)
        BY <4>2, <3>2 DEF SlotProtocol, Faithful
      <4> QED
        BY <4>1, <4>2, <3>2, <3>3
    <3> QED
      BY <2>9, <3>1, <3>5, <3>6
         DEF Handle, SlotProtocol, OneWriter, WriterUnderLoweredFlag, Written,
             Writing, ReaderUnderRaisedFlag, Waiting
  <2>10. CASE LowerFlag
    BY <2>10 DEF LowerFlag, SlotProtocol, OneWriter, WriterUnderLoweredFlag, Written,
         Writing, ReaderUnderRaisedFlag, Outstanding, Waiting, Faithful
  <2>11. CASE NoteSent
    BY <2>11 DEF NoteSent, SlotProtocol, OneWriter, WriterUnderLoweredFlag, Written,
         Writing, ReaderUnderRaisedFlag, Outstanding, Waiting, Faithful
  <2>12. CASE UNCHANGED vars
    BY <2>12 DEF vars, SlotProtocol, OneWriter, WriterUnderLoweredFlag, Written,
         Writing, ReaderUnderRaisedFlag, Outstanding, Waiting, Faithful
  <2> QED
    BY <2>1, <2>2, <2>3, <2>4, <2>5, <2>6, <2>7, <2>8, <2>9, <2>10, <2>11, <2>12
       DEF Next, Read, Post
<1>3. QED
  BY <1>1, <1>2, TypeCorrect, PTL DEF Spec, MailboxInv

\* ExactlyOnceInOrder, for any number of posters and calls.
THEOREM ExactlyOnce == Spec => []ExactlyOnceInOrder
<1>1. MailboxInv => ExactlyOnceInOrder
  BY DEF MailboxInv, TypeOK, SlotInv, SlotProtocol, Outstanding, Faithful,
         ExactlyOnceInOrder
<1>2. QED
  BY <1>1, SlotProtocolHolds, PTL

\* NoDataRace, for any number of posters and calls.
THEOREM RaceFree == Spec => []NoDataRace
<1>1. MailboxInv => NoDataRace
  BY DEF MailboxInv, SlotInv, SlotProtocol, WriterUnderLoweredFlag,
         ReaderUnderRaisedFlag, NoDataRace
<1>2. QED
  BY <1>1, SlotProtocolHolds, PTL

-----------------------------------------------------------------------------
\* One poster that never gives up is serialised by the flag alone.
LEMMA OnePosterSerialised ==
    ASSUME NEW u, Posters = {u}, GivesUp = FALSE
    PROVE  Spec => []Serialised
<1>1. Init => Serialised
  BY DEF Init, Serialised
<1>2. Serialised /\ [Next]_vars => Serialised'
  <2> SUFFICES ASSUME Serialised, [Next]_vars PROVE Serialised'
    OBVIOUS
  <2>1. ASSUME NEW p \in Posters, FlagDown(p) PROVE Serialised'
    BY <2>1 DEF FlagDown, Enter, Serialised, Writing
  <2>2. ASSUME NEW p \in Posters, GiveUp(p) PROVE FALSE
    BY <2>2 DEF GiveUp
  <2> QED
    BY <2>1, <2>2
       DEF Serialised, Next, Read, Post, Call, WriteTag, WriteRest, RaiseFlag,
           Start, Poll, Handle, LowerFlag, NoteSent, vars, history
<1>3. QED
  BY <1>1, <1>2, PTL DEF Spec

\* With one poster that never gives up, the flag and the slot implement the
\* lossless, ordered hand-off that the callers of postmessage_toxcore assume.
THEOREM MailboxImplementsHandoff ==
    ASSUME NEW u, Posters = {u}, GivesUp = FALSE
    PROVE  Spec => HandoffSpec
<1>1. Init => Cell!HInit
  BY DEF Init, Cell!HInit, inSlot, taken
<1>2. /\ MailboxInv /\ Serialised /\ MailboxInv' /\ Serialised'
      /\ [Next]_vars
      => [Cell!HNext]_(Cell!hvars)
  <2> SUFFICES ASSUME MailboxInv, Serialised, MailboxInv', Serialised', [Next]_vars
               PROVE  [Cell!HNext]_(Cell!hvars)
    OBVIOUS
  <2> USE DEF slotVars, posterVars, history
  <2>0. /\ posted \in Seq(Message) /\ Len(posted) \in Nat /\ Len(handled) \in Nat
        /\ SlotProtocol /\ SlotProtocol'
    BY DEF MailboxInv, TypeOK, SlotInv
  <2>1. ASSUME UNCHANGED <<posted, handled>> PROVE UNCHANGED Cell!hvars
    BY <2>1 DEF Cell!hvars, inSlot, taken
  <2>2. ASSUME NEW p \in Posters, RaiseFlag(p) PROVE Cell!HNext
    <3>1. msg[p] \in Message
      BY <2>2 DEF RaiseFlag, MailboxInv, CallInv
    <3>2. ~Waiting
      BY <2>0, <2>2 DEF RaiseFlag, Writing, SlotProtocol, WriterUnderLoweredFlag, Waiting
    <3>3. Len(posted) = Len(handled)
      BY <2>0, <3>2 DEF SlotProtocol, Outstanding
    <3>4. Len(posted') = Len(posted) + 1 /\ posted'[Len(posted')] = msg[p]
      BY <2>0, <2>2, <3>1 DEF RaiseFlag
    <3>5. inSlot = <<>> /\ inSlot' = <<msg[p]>> /\ handled' = handled
      BY <2>0, <2>2, <3>3, <3>4 DEF RaiseFlag, inSlot
    <3>6. taken' = taken
      BY <3>5 DEF taken
    <3>7. Cell!Put(msg[p])
      BY <3>5, <3>6 DEF Cell!Put
    <3> QED
      BY <3>1, <3>7 DEF Cell!HNext
  <2>3. ASSUME Handle PROVE Cell!HNext
    <3> DEFINE h == [msg |-> tox_msg.msg, data |-> tox_msg.data, stop |-> sent]
               m == posted[Len(posted)]
    <3>1. Waiting
      BY <2>0, <2>3 DEF Handle, SlotProtocol, ReaderUnderRaisedFlag, Waiting
    <3>2. Len(posted) = Len(handled) + 1 /\ h.msg = m
      BY <2>0, <3>1 DEF SlotProtocol, Outstanding
    <3>3. /\ Len(handled') = Len(handled) + 1
          /\ handled'[Len(handled')] = h
          /\ \A i \in 1..Len(handled) : handled'[i] = handled[i]
          /\ posted' = posted
      BY <2>3 DEF Handle, MailboxInv, TypeOK
    <3>4. inSlot = <<m>> /\ inSlot' = <<>>
      BY <2>0, <3>2, <3>3 DEF inSlot
    <3> DEFINE S == Message \cup {NoMessage}
    <3>5. /\ taken \in Seq(S) /\ Len(taken) = Len(handled)
          /\ taken' \in Seq(S) /\ Len(taken') = Len(handled) + 1
      <4>1. /\ \A i \in 1..Len(handled) : handled[i].msg \in S
            /\ \A i \in 1..Len(handled') : handled'[i].msg \in S
        <5> DEFINE R == [msg : S, data : S, stop : BOOLEAN]
        <5>1. handled \in Seq(R) /\ handled' \in Seq(R)
          BY DEF MailboxInv, TypeOK
        <5>2. \A r \in R : r.msg \in S
          OBVIOUS
        <5> HIDE DEF R
        <5> QED
          BY <5>1, <5>2
      <4>2. taken \in Seq(S) /\ Len(taken) = Len(handled)
        BY <2>0, <4>1 DEF taken
      <4>3. taken' \in Seq(S) /\ Len(taken') = Len(handled')
        BY <2>0, <3>3, <4>1 DEF taken
      <4> QED
        BY <3>3, <4>2, <4>3
    <3>6. /\ \A i \in 1..Len(taken) : taken'[i] = taken[i]
          /\ taken'[Len(taken) + 1] = m
      BY <2>0, <3>2, <3>3, <3>5 DEF taken
    <3>7. taken' = Append(taken, m)
      <4>1. m \in S
        BY <2>0, <3>2
      <4>2. /\ Append(taken, m) \in Seq(S)
            /\ Len(Append(taken, m)) = Len(taken) + 1
            /\ \A i \in 1..Len(taken) : Append(taken, m)[i] = taken[i]
            /\ Append(taken, m)[Len(taken) + 1] = m
        BY <3>5, <4>1, AppendProperties
      <4>3. \A i \in 1..Len(taken') : taken'[i] = Append(taken, m)[i]
        BY <2>0, <3>5, <3>6, <4>2
      <4> HIDE DEF S, m
      <4> QED
        BY <3>5, <4>2, <4>3, SeqEqual
    <3>8. Cell!Take
      BY <3>4, <3>7 DEF Cell!Take
    <3> QED
      BY <3>8 DEF Cell!HNext
  <2> QED
    BY <2>1, <2>2, <2>3
       DEF Next, Read, Post, Call, FlagDown, GiveUp, Enter, WriteTag, WriteRest,
           Start, Poll, LowerFlag, NoteSent, vars
<1>3. QED
  BY <1>1, <1>2, SlotProtocolHolds, OnePosterSerialised, PTL
     DEF Spec, HandoffSpec, Cell!HSpec
=============================================================================
