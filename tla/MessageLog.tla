---------------------------- MODULE MessageLog ----------------------------
(***************************************************************************)
(* The conversation with one friend: the MESSAGES of a FRIEND in memory,   *)
(* their log on disk, and the way of a text from the user to the friend    *)
(* and of its receipt back.                                                *)
(*                                                                         *)
(* Two threads work on it.  The UI thread adds what the user types, posts  *)
(* it to the toxcore thread, goes through the unconfirmed messages when    *)
(* the friend's connection changes, and clears the history.  The toxcore   *)
(* thread adds what arrives, sends what is posted and notes receipts.      *)
(* messages_lock protects the list; nothing protects the log, and the lock *)
(* is held while messages_send_from_queue waits for the mailbox.           *)
(*                                                                         *)
(* Left out: notices, images and files in the list, messages that are not  *)
(* logged, texts that are sent in several parts, selection and heights.    *)
(***************************************************************************)
EXTENDS Integers, FiniteSets, Sequences

CONSTANTS Own,           \* bound: texts the user types
          Incoming,      \* bound: texts the friend sends
          Backlog,       \* UTOX_MAX_BACKLOG_MESSAGES
          SeekBack,      \* entries the queue looks back over (25)
          SeekSkip,      \* confirmed messages it passes on the way (3)
          MaxSent,       \* messages it goes on after (25)
          MaxLinks,      \* bound: changes of the friend's connection
          MaxStarts,     \* bound: restarts of the program
          Clears         \* whether the user clears the history

ASSUME MessageLogAssumption ==
    /\ Own \in Nat /\ Incoming \in Nat
    /\ Backlog \in Nat \ {0}
    /\ SeekBack \in Nat /\ SeekSkip \in Nat /\ MaxSent \in Nat
    /\ MaxLinks \in Nat /\ MaxStarts \in Nat
    /\ Clears \in BOOLEAN

\* The queue never stops before the end of what it has looked back over: both
\* limits are 25.
ASSUME QueueAssumption == SeekBack <= MaxSent

Mine == 1..Own
Text == 1..(Own + Incoming)
DayNotice == 0           \* MSG_TYPE_NOTICE_DAY_CHANGE, first in a loaded list
Nobody == -1             \* no message in the slot; also the receipt -1

Thread == {"ui", "core"}

\* What a MSG_HEADER says of a text: its receipt number, whether receipt_time
\* is set, and where its record starts (offsets count records).
Header == [receipt : Int, acked : BOOLEAN, offset : Nat]
\* A record: whose text it holds, whose lengths are in its header, and
\* whether it is marked as received.
Record == [text : Text, lengths : Text, receipt : BOOLEAN]
\* Where a thread is, with the message (or, in the queue, the position; for a
\* receipt, its number) and how many messages the queue has sent so far.
Place == {"idle", "save", "post", "add", "queue", "remove", "receipt"}
Work == [at : Place, id : Nat, count : Nat]

VARIABLES
    list,       \* m->data
    msg,        \* the MSG_HEADER of each text
    allocated,  \* texts whose MSG_HEADER has not been freed
    log         \* the chat log on disk

VARIABLES
    doing,      \* what each thread is in the middle of
    lock,       \* who holds messages_lock
    slot,       \* the message in the mailbox of the toxcore thread
    events,     \* FRIEND_ONLINE messages the UI has not handled
    typed,      \* texts the user has typed
    starts      \* restarts of the program

\* External: toxcore's connection to the friend.
VARIABLES
    link,       \* whether tox_friend_get_connection_status is not NONE
    links,      \* changes of it
    number,     \* the last message number toxcore gave out
    sent,       \* packets that the friend has not got
    receipts,   \* receipts on their way back
    arrived     \* texts that the friend has sent

\* History.
VARIABLES
    got,          \* texts of ours that the friend has received
    overwritten,  \* texts overwritten in the mailbox by a poster that gave up
    garbled       \* two saves have written to the same place in the log

memory  == <<list, msg, allocated>>
network == <<link, links, number, sent, receipts, arrived>>
history == <<got, overwritten, garbled>>
vars == <<memory, log, doing, lock, slot, events, typed, starts, network, history>>

Step(at, id, count) == [at |-> at, id |-> id, count |-> count]
Idle == Step("idle", 0, 0)
Fresh(offset) == [receipt |-> 0, acked |-> FALSE, offset |-> offset]

Init ==
    /\ list = <<>>
    /\ msg = [t \in Text |-> Fresh(0)]
    /\ allocated = {}
    /\ log = <<>>
    /\ doing = [t \in Thread |-> Idle]
    /\ lock = "none"
    /\ slot = Nobody
    /\ events = 0
    /\ typed = 0
    /\ starts = 0
    /\ link = FALSE
    /\ links = 0
    /\ number = 0
    /\ sent = {}
    /\ receipts = {}
    /\ arrived = 0
    /\ got = {}
    /\ overwritten = {}
    /\ garbled = FALSE

Is(t, at) == doing[t].at = at
Now(t, step) == doing' = [doing EXCEPT ![t] = step]

-----------------------------------------------------------------------------
\* message_add_type_text, by either thread: the log, the mailbox, the list

\* utox_save_chatlog up to ftello: the record will go to the end of the file.
Begin(t, m) ==
    /\ msg' = [msg EXCEPT ![m] = Fresh(Len(log))]
    /\ allocated' = allocated \cup {m}
    /\ Now(t, Step("save", m, 0))

Type ==
    /\ Is("ui", "idle")
    /\ typed < Own
    /\ typed' = typed + 1
    /\ Begin("ui", typed + 1)
    /\ UNCHANGED <<list, log, lock, slot, events, starts, network, history>>

Arrive ==
    /\ Is("core", "idle")
    /\ link
    /\ arrived < Incoming
    /\ arrived' = arrived + 1
    /\ Begin("core", Own + arrived + 1)
    /\ UNCHANGED <<list, log, lock, slot, events, typed, starts,
                   link, links, number, sent, receipts, history>>

RecordOf(m) == [text |-> m, lengths |-> m, receipt |-> msg[m].acked]

\* The fwrite: another thread may have found the same end of the file.
Save(t) ==
    /\ Is(t, "save")
    /\ LET m == doing[t].id
           k == msg[m].offset IN
       /\ log' = IF k = Len(log) THEN Append(log, RecordOf(m))
                                 ELSE [log EXCEPT ![k + 1] = RecordOf(m)]
       /\ garbled' = (garbled \/ k # Len(log))
       /\ Now(t, Step(IF m \in Mine THEN "post" ELSE "add", m, 0))
    /\ UNCHANGED <<memory, lock, slot, events, typed, starts, network, got, overwritten>>

PutMutWaitsForEver(m) ==
    /\ slot = Nobody
    /\ slot' = m
    /\ UNCHANGED overwritten

\* postmessage_toxcore: it waits for the slot, and in the end stops waiting.
Put(m) ==
    /\ slot' = m
    /\ overwritten' = overwritten \cup ({slot} \cap Mine)

Post ==
    /\ Is("ui", "post")
    /\ Put(doing["ui"].id)
    /\ Now("ui", Step("add", doing["ui"].id, 0))
    /\ UNCHANGED <<memory, log, lock, events, typed, starts, network, got, garbled>>

\* message_add: a full list loses its oldest entry.
Add(t) ==
    /\ Is(t, "add")
    /\ lock = "none"
    /\ LET full == Len(list) >= Backlog
           kept == IF full THEN Tail(list) ELSE list IN
       /\ list' = Append(kept, doing[t].id)
       /\ allocated' = IF full THEN allocated \ {list[1]} ELSE allocated
    /\ Now(t, Idle)
    /\ UNCHANGED <<msg, log, lock, slot, events, typed, starts, network, history>>

-----------------------------------------------------------------------------
\* messages_send_from_queue, in the UI thread on every FRIEND_ONLINE

Positions == 1..Len(list)
Pending == {i \in Positions : list[i] \in Mine /\ ~msg[list[i]].acked}
Confirmed == {i \in Positions : list[i] \in Mine /\ msg[list[i]].acked}
After(i, S) == {j \in S : j > i}

\* Where the search back through the list stops: no entry further back than
\* SeekBack, no confirmed message but the SeekSkip last ones is passed.
Barrier(i) ==
    \/ Cardinality(After(i, Positions)) >= SeekBack
    \/ i \in Confirmed /\ Cardinality(After(i, Confirmed)) >= SeekSkip
Searched == {i \in Positions : \A j \in After(i, Positions) : ~Barrier(j)}

StartQueueMutOneLate ==
    /\ Is("ui", "idle")
    /\ events > 0
    /\ lock = "none"
    /\ events' = events - 1
    /\ lock' = "ui"
    /\ Now("ui", Step("queue", 2 + Len(list) - Cardinality(Searched), 0))
    /\ UNCHANGED <<memory, log, slot, typed, starts, network, history>>

StartQueue ==
    /\ Is("ui", "idle")
    /\ events > 0
    /\ lock = "none"
    /\ events' = events - 1
    /\ lock' = "ui"
    /\ Now("ui", Step("queue", 1 + Len(list) - Cardinality(Searched), 0))
    /\ UNCHANGED <<memory, log, slot, typed, starts, network, history>>

Ahead == {i \in Pending : i >= doing["ui"].id}

PostNext ==
    /\ Is("ui", "queue")
    /\ doing["ui"].count <= MaxSent
    /\ \E i \in Ahead :
         /\ \A j \in Ahead : i <= j
         /\ Put(list[i])
         /\ Now("ui", Step("queue", i + 1, doing["ui"].count + 1))
    /\ UNCHANGED <<memory, log, lock, events, typed, starts, network, got, garbled>>

EndQueue ==
    /\ Is("ui", "queue")
    /\ Ahead = {} \/ doing["ui"].count > MaxSent
    /\ lock' = "none"
    /\ Now("ui", Idle)
    /\ UNCHANGED <<memory, log, slot, events, typed, starts, network, history>>

-----------------------------------------------------------------------------
\* friend_history_clear, in the UI thread

ClearList ==
    /\ Clears
    /\ Is("ui", "idle")
    /\ lock = "none"
    /\ list # <<>>
    /\ list' = <<>>
    /\ allocated' = {t \in allocated : \A i \in Positions : list[i] # t}
    /\ Now("ui", Step("remove", 0, 0))
    /\ UNCHANGED <<msg, log, lock, slot, events, typed, starts, network, history>>

\* A record that the toxcore thread is writing goes to the removed file.
RemoveLog ==
    /\ Is("ui", "remove")
    /\ log' = <<>>
    /\ doing' = [doing EXCEPT !["ui"] = Idle,
                              !["core"].at = IF @ = "save" THEN "add" ELSE @]
    /\ UNCHANGED <<memory, lock, slot, events, typed, starts, network, history>>

-----------------------------------------------------------------------------
\* The toxcore thread

\* TOX_SEND_MESSAGE.  A message that was freed meanwhile is sent as whatever
\* its memory holds.
Send ==
    /\ Is("core", "idle")
    /\ slot # Nobody
    /\ slot' = Nobody
    /\ IF link
         THEN /\ number' = number + 1
              /\ sent' = IF slot \in allocated
                           THEN sent \cup {[number |-> number + 1, text |-> slot]}
                           ELSE sent
         ELSE UNCHANGED <<number, sent>>
    /\ msg' = IF slot \in allocated
                THEN [msg EXCEPT ![slot] =
                        [@ EXCEPT !.receipt = IF link THEN number + 1 ELSE 0, !.acked = FALSE]]
                ELSE msg
    /\ UNCHANGED <<list, allocated, log, doing, lock, events, typed, starts,
                   link, links, receipts, arrived, history>>

\* callback_connection_status.  A change between UDP and TCP, where link stays
\* up, loses nothing.
ChangeLink ==
    /\ Is("core", "idle")
    /\ links < MaxLinks
    /\ links' = links + 1
    /\ link' \in {TRUE, ~link}
    /\ events' = events + 1
    /\ sent' = IF link' THEN sent ELSE {}
    /\ receipts' = IF link' THEN receipts ELSE {}
    /\ UNCHANGED <<memory, log, doing, lock, slot, typed, starts, number, arrived, history>>

\* The friend gets a packet; they arrive in order (external).
Deliver ==
    \E p \in sent :
        /\ \A q \in sent : p.number <= q.number
        /\ sent' = sent \ {p}
        /\ got' = got \cup {p.text}
        /\ receipts' = receipts \cup {p.number}
        /\ UNCHANGED <<memory, log, doing, lock, slot, events, typed, starts,
                       link, links, number, arrived, overwritten, garbled>>

\* callback_read_receipt, up to the lock.
TakeReceipt ==
    /\ Is("core", "idle")
    /\ \E n \in receipts :
         /\ \A k \in receipts : n <= k
         /\ receipts' = receipts \ {n}
         /\ Now("core", Step("receipt", n, 0))
    /\ UNCHANGED <<memory, log, lock, slot, events, typed, starts,
                   link, links, number, sent, arrived, history>>

Matching(n) == {i \in Positions : list[i] # DayNotice /\ msg[list[i]].receipt = n}

\* Whether the record of the message at position i can be told from the one
\* of a message that was never saved, whose offset is 0 as well.
Locatable(i, n) == msg[list[i]].offset # 0 \/ (i <= 2 /\ n = 1)

Updated(m) ==
    [log EXCEPT ![msg[m].offset + 1] = [@ EXCEPT !.receipt = TRUE, !.lengths = m]]

ClearReceiptMutAnyNumber ==
    /\ Is("core", "receipt")
    /\ lock = "none"
    /\ \/ /\ Pending = {}
          /\ UNCHANGED <<msg, log>>
       \/ \E i \in Pending :
            /\ After(i, Pending) = {}
            /\ msg' = [msg EXCEPT ![list[i]] = [@ EXCEPT !.receipt = Nobody, !.acked = TRUE]]
            /\ log' = Updated(list[i])
    /\ Now("core", Idle)
    /\ UNCHANGED <<list, allocated, lock, slot, events, typed, starts, network, history>>

\* messages_clear_receipt: the last message with this number.
ClearReceipt ==
    /\ Is("core", "receipt")
    /\ lock = "none"
    /\ LET n == doing["core"].id IN
       \/ /\ Matching(n) = {}
          /\ UNCHANGED <<msg, log>>
       \/ \E i \in Matching(n) :
            /\ After(i, Matching(n)) = {}
            /\ msg' = [msg EXCEPT ![list[i]] = [@ EXCEPT !.receipt = Nobody, !.acked = TRUE]]
            /\ log' = IF Locatable(i, n) THEN Updated(list[i]) ELSE log
    /\ Now("core", Idle)
    /\ UNCHANGED <<list, allocated, lock, slot, events, typed, starts, network, history>>

-----------------------------------------------------------------------------
\* The end of the program at any point, and messages_read_from_log

Last(n, s) == SubSeq(s, IF Len(s) > n THEN Len(s) - n + 1 ELSE 1, Len(s))
RecordedAtMutNextOffset(k) == [receipt |-> 0, acked |-> log[k].receipt, offset |-> k]

RecordedAt(k) == [receipt |-> 0, acked |-> log[k].receipt, offset |-> k - 1]

Loaded ==
    LET size == IF Len(log) < Backlog THEN Len(log) ELSE Backlog
        from == Len(log) - size
        texts == [i \in 1..size |-> log[from + i].text] IN
    /\ list' = Last(Backlog, (IF log = <<>> THEN <<>> ELSE <<DayNotice>>) \o texts)
    /\ allocated' = {texts[i] : i \in 1..size}
    /\ msg' = [t \in Text |->
                 IF \E i \in 1..size : texts[i] = t
                   THEN RecordedAt(from + (CHOOSE i \in 1..size : texts[i] = t))
                   ELSE Fresh(0)]

Restart ==
    /\ starts < MaxStarts
    /\ starts' = starts + 1
    /\ Loaded
    /\ doing' = [t \in Thread |-> Idle]
    /\ lock' = "none"
    /\ slot' = Nobody
    /\ events' = 0
    /\ link' = FALSE
    /\ number' = 0
    /\ sent' = {}
    /\ receipts' = {}
    /\ UNCHANGED <<log, typed, links, arrived, history>>

-----------------------------------------------------------------------------
UserStep == Type \/ ClearList
UIStep == Save("ui") \/ Post \/ Add("ui") \/ StartQueue \/ PostNext \/ EndQueue \/ RemoveLog
CoreStep == Save("core") \/ Add("core") \/ Send \/ TakeReceipt \/ ClearReceipt
Network == Arrive \/ ChangeLink

Next == UserStep \/ UIStep \/ CoreStep \/ Network \/ Deliver \/ Restart

Spec == Init /\ [][Next]_vars
-----------------------------------------------------------------------------
\* Properties

MemoryTypes ==
    /\ list \in Seq(Text \cup {DayNotice}) /\ Len(list) <= Backlog
    /\ msg \in [Text -> Header]
    /\ allocated \subseteq Text
    /\ log \in Seq(Record)
WorkTypes ==
    /\ doing \in [Thread -> Work]
    /\ lock \in {"none", "ui"}
    /\ slot \in Mine \cup {Nobody}
    /\ events \in Nat
    /\ typed \in 0..Own
    /\ starts \in 0..MaxStarts
NetworkTypes ==
    /\ link \in BOOLEAN
    /\ links \in 0..MaxLinks
    /\ number \in Nat
    /\ sent \subseteq [number : Nat, text : Mine]
    /\ receipts \subseteq Nat
    /\ arrived \in 0..Incoming
HistoryTypes ==
    /\ got \subseteq Mine
    /\ overwritten \subseteq Mine
    /\ garbled \in BOOLEAN

\* The variables keep their types, and the list its limit.
TypeOK == MemoryTypes /\ WorkTypes /\ NetworkTypes /\ HistoryTypes

\* A message that is shown as confirmed has been received by the friend, over
\* resends, reconnections, restarts and late receipts (messages_clear_receipt).
MarkedWasReceived ==
    \A m \in Mine \cap allocated : msg[m].acked => m \in got

\* A message of ours whose record has been written.
Saved(m) == m \in Mine \cap allocated /\ ~(Is("ui", "save") /\ doing["ui"].id = m)

\* Unless two saves overlapped, the log stays readable and true: a header
\* keeps the lengths of its own text, a record marked as received was
\* received, each message of ours is where its disk_offset says, and the mark
\* of a message past the first record is on disk (utox_update_chatlog).
LogTellsTruth ==
    garbled \/
    /\ \A k \in DOMAIN log :
         /\ log[k].lengths = log[k].text
         /\ log[k].receipt => log[k].text \in got
    /\ \A m \in Mine : Saved(m) =>
         /\ msg[m].offset < Len(log)
         /\ log[msg[m].offset + 1].text = m
         /\ msg[m].acked /\ msg[m].offset # 0 => log[msg[m].offset + 1].receipt

\* The threads never wait for each other for good: the UI thread for the
\* mailbox with messages_lock in its hand (messages_send_from_queue), the toxcore
\* thread, which should read the mailbox, for the lock (messages_clear_receipt,
\* message_add).  As every operation is finite, each then ends.
NoDeadlock ==
    \/ ENABLED UIStep \/ ENABLED CoreStep
    \/ lock = "none" /\ \A t \in Thread : Is(t, "idle")

\* Nothing is under way in either thread, the mailbox or toxcore.
AtRest ==
    /\ \A t \in Thread : Is(t, "idle")
    /\ slot = Nobody /\ events = 0 /\ sent = {} /\ receipts = {}

\* What the user wrote, while the friend was away or as he came and went, has
\* reached a friend who is back once everything has come to rest, unless it
\* is too far back in the list (25 entries, or 3 confirmed messages) or a
\* poster that gave up wrote over it (messages_send_from_queue).
NothingLeftBehind ==
    AtRest /\ link =>
      \A i \in Pending \cap Searched : list[i] \in got \cup overwritten

\* What the user sees and what the log says: of our texts those that are shown
\* as confirmed, and those with a record that is marked.
Shown == {m \in Mine \cap allocated : msg[m].acked}
Noted == {m \in Mine : \E k \in DOMAIN log : log[k].text = m /\ log[k].receipt}

\* The conversation is what its user relies on: a mark comes to the screen one
\* text at a time and only for one that the friend has, is noted in the log
\* with it or not at all, leaves the log only when the user clears it, even
\* where two saves write to the same place, and a restart shows no other ones
\* than the log has (messages_clear_receipt, utox_save_chatlog,
\* messages_read_from_log).
User == INSTANCE Conversation WITH
    MaxTexts <- Own, written <- typed, received <- got, shown <- Shown, noted <- Noted
ConversationSpec == User!CSpec
=============================================================================
