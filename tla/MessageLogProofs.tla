-------------------------- MODULE MessageLogProofs --------------------------
(***************************************************************************)
(* For any number of texts, connections and restarts, and any limits of    *)
(* the list and the queue: the types of MessageLog, that a message that is *)
(* shown as confirmed has been received, that the log is true, that        *)
(* nothing the user wrote is left behind, that the two threads never wait  *)
(* for each other, and that the whole keeps a Conversation.                *)
(***************************************************************************)
EXTENDS MessageLog, FiniteSetTheorems, SequenceTheorems, TLAPS

\* What a thread is working on, by place.
Places ==
    /\ doing["ui"].at \in {"idle", "save", "post", "add", "queue", "remove"}
    /\ doing["core"].at \in {"idle", "save", "add", "receipt"}
    /\ doing["ui"].at \in {"save", "post", "add"} => doing["ui"].id \in 1..typed
    /\ doing["core"].at \in {"save", "add"} => doing["core"].id \in Text \ Mine

\* The receipts that messages_clear_receipt will still see.
Coming == receipts \cup (IF Is("core", "receipt") THEN {doing["core"].id} ELSE {})

\* No number is given out twice, and a message bears the number of its own
\* packet: when a receipt comes back, the message that bears its number is
\* the one that the friend has got.
Numbers ==
    /\ \A p \in sent : p.number \in 1..number
    /\ \A n \in Coming : n \in 1..number
    /\ \A t \in Text : msg[t].receipt <= number
    /\ \A p \in sent, t \in Text : msg[t].receipt = p.number => t = p.text
    /\ \A n \in Coming, t \in Text : msg[t].receipt = n => t \in got

\* Messages of ours that are in the list, or on their way there from the log.
Held == {t \in Mine : \/ \E i \in Positions : list[i] = t
                      \/ doing["ui"].at \in {"post", "add"} /\ doing["ui"].id = t}

\* Where such a message's record was written there is that record, or one of
\* the friend's that was written over it.  Hence no mark on disk gets to the
\* wrong message of ours.
Records ==
    /\ \A t \in Held : t <= typed
    /\ \A k \in DOMAIN log : log[k].text \in Mine => log[k].text <= typed
    /\ \A t \in Held : msg[t].offset + 1 \in DOMAIN log
    /\ \A t \in Held : log[msg[t].offset + 1].text \in {t} \cup (Text \ Mine)
    /\ Is("ui", "save") =>
         /\ doing["ui"].id \notin Held
         /\ msg[doing["ui"].id].offset <= Len(log)
         /\ \A t \in Held : msg[t].offset < msg[doing["ui"].id].offset
    /\ Is("ui", "remove") => Held = {}

Marks ==
    /\ \A t \in Mine : msg[t].acked => t \in got
    /\ \A k \in DOMAIN log :
         log[k].receipt /\ log[k].text \in Mine => log[k].text \in got

\* What has been saved and not freed is held.
AllocatedHeld == \A m \in Mine : Saved(m) => m \in Held

\* As long as no two saves overlapped: a mark, in memory or on disk, is on a
\* message that was received, and what is held is where its offset says.
LogTrue ==
    ~garbled =>
      /\ \A k \in DOMAIN log : /\ log[k].lengths = log[k].text
                               /\ log[k].receipt => log[k].text \in got
      /\ \A t \in Text : msg[t].acked => t \in got
      /\ \A t \in Held :
           /\ log[msg[t].offset + 1].text = t
           /\ msg[t].acked /\ msg[t].offset # 0 => log[msg[t].offset + 1].receipt

LEMMA TextsAreNumbered ==
    /\ Own \in Nat /\ Incoming \in Nat /\ Backlog \in Nat /\ Backlog > 0
    /\ Mine \subseteq Text
    /\ Text \subseteq Nat
    /\ 0 \notin Text
  BY MessageLogAssumption DEF Mine, Text

LEMMA NowMoves ==
    ASSUME WorkTypes, NEW t \in Thread,
           NEW at \in Place, NEW id \in Nat, NEW count \in Nat,
           Now(t, Step(at, id, count))
    PROVE  /\ doing' \in [Thread -> Work]
           /\ doing'[t].at = at /\ doing'[t].id = id /\ doing'[t].count = count
           /\ \A u \in Thread : u # t => doing'[u] = doing[u]
  BY DEF WorkTypes, Now, Step, Work

LEMMA HeaderChanged ==
    ASSUME NEW h \in Header, NEW n \in Int, NEW b \in BOOLEAN
    PROVE  /\ [h EXCEPT !.receipt = n, !.acked = b] \in Header
           /\ [h EXCEPT !.receipt = n, !.acked = b].receipt = n
           /\ [h EXCEPT !.receipt = n, !.acked = b].acked = b
           /\ [h EXCEPT !.receipt = n, !.acked = b].offset = h.offset
  BY DEF Header

LEMMA SearchedIsPart ==
    ASSUME list \in Seq(Text \cup {DayNotice})
    PROVE  Cardinality(Searched) \in 0..Len(list)
<1>1. Len(list) \in Nat
  OBVIOUS
<1>2. IsFiniteSet(1..Len(list)) /\ Cardinality(1..Len(list)) = Len(list)
  <2> DEFINE n == Len(list)
  <2>1. 1 \in Int /\ n \in Int /\ n >= 0
    BY <1>1
  <2> HIDE DEF n
  <2>2. /\ IsFiniteSet(1..n)
        /\ Cardinality(1..n) = IF 1 > n THEN 0 ELSE n - 1 + 1
    BY <2>1, FS_Interval
  <2>3. (IF 1 > n THEN 0 ELSE n - 1 + 1) = n
    BY <2>1
  <2> QED
    BY <2>2, <2>3 DEF n
<1>3. Searched \in SUBSET (1..Len(list))
  BY DEF Searched, Positions
<1>4. IsFiniteSet(Searched) /\ Cardinality(Searched) <= Len(list)
  BY <1>2, <1>3, FS_Subset
<1>5. Cardinality(Searched) \in Nat
  BY <1>4, FS_CardinalityType
<1> QED
  BY <1>1, <1>4, <1>5

-----------------------------------------------------------------------------
\* What Restart loads.
LEMMA LoadedTypes ==
    ASSUME TypeOK, Loaded
    PROVE  /\ list' \in Seq(Text \cup {DayNotice}) /\ Len(list') <= Backlog
           /\ msg' \in [Text -> Header]
           /\ allocated' \subseteq Text
<1> DEFINE size == IF Len(log) < Backlog THEN Len(log) ELSE Backlog
           from == Len(log) - size
           texts == [i \in 1..size |-> log[from + i].text]
           first == IF log = <<>> THEN <<>> ELSE <<DayNotice>>
           all == first \o texts
<1>1. log \in Seq(Record) /\ Len(log) \in Nat
  BY DEF TypeOK, MemoryTypes
<1>2. size \in 0..Len(log) /\ from \in Nat /\ from + size = Len(log)
  BY <1>1, TextsAreNumbered
<1>3. \A i \in 1..size : from + i \in 1..Len(log) /\ log[from + i] \in Record
  BY <1>1, <1>2
<1>4. texts \in Seq(Text) /\ Len(texts) = size /\ \A i \in 1..size : texts[i] \in Text
  BY <1>2, <1>3 DEF Record
<1>5. first \in Seq(Text \cup {DayNotice})
  <2>1. <<>> \in Seq(Text \cup {DayNotice}) /\ <<DayNotice>> \in Seq(Text \cup {DayNotice})
    BY EmptySeq
  <2> QED
    BY <2>1
<1>6. all \in Seq(Text \cup {DayNotice}) /\ Len(all) \in Nat
  <2>1. texts \in Seq(Text \cup {DayNotice})
    BY <1>4, SeqMonotonic
  <2> HIDE DEF texts, first
  <2> QED
    BY <1>5, <2>1, ConcatProperties, LenProperties
<1> HIDE DEF all
<1>7. /\ Last(Backlog, all) \in Seq(Text \cup {DayNotice})
      /\ Len(Last(Backlog, all)) <= Backlog
  BY <1>6, TextsAreNumbered DEF Last
<1>8. list' = Last(Backlog, all)
  BY DEF Loaded, all
<1>9. allocated' \subseteq Text
  BY <1>4 DEF Loaded
<1>10. msg' \in [Text -> Header]
  <2>1. \A k \in 1..Len(log) : RecordedAt(k) \in Header
    <3> TAKE k \in 1..Len(log)
    <3>1. log[k] \in Record /\ k - 1 \in Nat
      BY <1>1
    <3> QED
      BY <3>1 DEF RecordedAt, Header, Record
  <2>2. Fresh(0) \in Header
    BY DEF Fresh, Header
  <2>3. ASSUME NEW t \in Text, \E i \in 1..size : texts[i] = t
        PROVE  from + (CHOOSE i \in 1..size : texts[i] = t) \in 1..Len(log)
    BY <2>3, <1>2, <1>3
  <2> QED
    BY <2>1, <2>2, <2>3 DEF Loaded
<1> QED
  BY <1>7, <1>8, <1>9, <1>10

LEMMA NextCases ==
    ASSUME [Next]_vars
    PROVE  \/ Type \/ Arrive \/ (\E t \in Thread : Save(t) \/ Add(t)) \/ Post
           \/ StartQueue \/ PostNext \/ EndQueue \/ ClearList \/ RemoveLog
           \/ Send \/ ChangeLink \/ Deliver \/ TakeReceipt \/ ClearReceipt
           \/ Restart \/ UNCHANGED vars
  BY DEF Next, UserStep, UIStep, CoreStep, Network, Thread

\* The list, the messages and the log.
LEMMA MemoryInductive == TypeOK /\ Places /\ [Next]_vars => MemoryTypes'
<1> SUFFICES ASSUME TypeOK, Places, [Next]_vars PROVE MemoryTypes'
  OBVIOUS
<1> USE TextsAreNumbered DEF TypeOK, MemoryTypes, memory
<1>0. Len(log) \in Nat /\ Len(list) \in Nat
  OBVIOUS
<1>1. ASSUME NEW t \in Thread, NEW m \in Text, Begin(t, m), UNCHANGED <<list, log>>
      PROVE  MemoryTypes'
  <2>1. Fresh(Len(log)) \in Header
    BY <1>0 DEF Fresh, Header
  <2> QED
    BY <1>1, <2>1 DEF Begin
<1>2. CASE Type
  <2>1. typed + 1 \in Text
    BY <1>2 DEF Type, WorkTypes, Mine, Text
  <2> QED
    BY <1>1, <1>2, <2>1 DEF Type, Thread
<1>3. CASE Arrive
  <2>1. Own + arrived + 1 \in Text
    BY <1>3 DEF Arrive, NetworkTypes, Text
  <2> QED
    BY <1>1, <1>3, <2>1 DEF Arrive, Thread
<1>4. ASSUME NEW t \in Thread, Save(t) PROVE MemoryTypes'
  <2>1. doing[t].id \in Text
    BY <1>4 DEF Save, Is, Places, WorkTypes, Thread, Mine, Text
  <2>2. RecordOf(doing[t].id) \in Record
    BY <2>1 DEF RecordOf, Record, Header
  <2>3. log' \in Seq(Record)
    <3>1. CASE msg[doing[t].id].offset = Len(log)
      BY <1>4, <2>2, <3>1 DEF Save
    <3>2. CASE msg[doing[t].id].offset # Len(log)
      <4> DEFINE k == msg[doing[t].id].offset + 1
      <4>1. log' = [log EXCEPT ![k] = RecordOf(doing[t].id)]
        BY <1>4, <3>2 DEF Save
      <4>2. CASE k \in 1..Len(log)
        BY <2>2, <4>1, <4>2, ExceptSeq
      <4>3. CASE k \notin DOMAIN log
        <5>1. log' = log
          BY <4>1, <4>3
        <5> QED
          BY <5>1
      <4> QED
        BY <4>2, <4>3, LenProperties
    <3> QED
      BY <3>1, <3>2
  <2> QED
    BY <1>4, <2>3 DEF Save
<1>5. ASSUME NEW t \in Thread, Add(t) PROVE MemoryTypes'
  <2>1. doing[t].id \in Text
    BY <1>5 DEF Add, Is, Places, WorkTypes, Thread, Mine, Text
  <2>2. list' \in Seq(Text \cup {DayNotice}) /\ Len(list') <= Backlog
    BY <1>5, <2>1 DEF Add
  <2> QED
    BY <1>5, <2>2 DEF Add
<1>6. CASE ClearList
  <2>1. list' = <<>> /\ allocated' \subseteq allocated /\ UNCHANGED <<msg, log>>
    BY <1>6 DEF ClearList
  <2>2. <<>> \in Seq(Text \cup {DayNotice}) /\ Len(<<>>) = 0
    BY EmptySeq
  <2> QED
    BY <2>1, <2>2
<1>7. CASE RemoveLog
  BY <1>7, EmptySeq DEF RemoveLog
<1>8. CASE Send
  <2>1. CASE slot \in allocated
    <3>1. msg[slot] \in Header /\ slot \in Text
      BY <2>1
    <3>2. (IF link THEN number + 1 ELSE 0) \in Int
      BY DEF NetworkTypes
    <3>3. [msg[slot] EXCEPT !.receipt = IF link THEN number + 1 ELSE 0, !.acked = FALSE] \in Header
      BY <3>1, <3>2, HeaderChanged
    <3>4. msg' \in [Text -> Header]
      BY <1>8, <2>1, <3>1, <3>3 DEF Send
    <3> QED
      BY <1>8, <3>4 DEF Send
  <2>2. CASE slot \notin allocated
    BY <1>8, <2>2 DEF Send
  <2> QED
    BY <2>1, <2>2
<1>9. CASE ClearReceipt
  <2>1. ASSUME NEW i \in 1..Len(list), list[i] # DayNotice,
               msg' = [msg EXCEPT ![list[i]] = [@ EXCEPT !.receipt = Nobody, !.acked = TRUE]],
               log' \in {log, Updated(list[i])}
        PROVE  msg' \in [Text -> Header] /\ log' \in Seq(Record)
    <3>1. list[i] \in Text
      BY <2>1
    <3>2. msg' \in [Text -> Header]
      <4>1. msg[list[i]] \in Header
        BY <3>1
      <4>2. [msg[list[i]] EXCEPT !.receipt = Nobody, !.acked = TRUE] \in Header
        <5>1. Nobody \in Int /\ TRUE \in BOOLEAN
          BY DEF Nobody
        <5> QED
          BY <4>1, <5>1, HeaderChanged
      <4> QED
        BY <2>1, <3>1, <4>2
    <3>3. Updated(list[i]) \in Seq(Record)
      <4> DEFINE k == msg[list[i]].offset + 1
      <4>1. CASE k \in DOMAIN log
        <5>1. log[k] \in Record
          BY <4>1
        <5>2. [log[k] EXCEPT !.receipt = TRUE, !.lengths = list[i]] \in Record
          BY <3>1, <5>1 DEF Record
        <5> QED
          BY <4>1, <5>2 DEF Updated
      <4>2. CASE k \notin DOMAIN log
        <5>1. Updated(list[i]) = log
          BY <4>2 DEF Updated
        <5> QED
          BY <5>1
      <4> QED
        BY <4>1, <4>2
    <3> QED
      BY <2>1, <3>2, <3>3
  <2> QED
    BY <1>9, <2>1 DEF ClearReceipt, Matching, Positions
<1>10. CASE Restart
  BY <1>10, LoadedTypes DEF Restart
<1>11. CASE UNCHANGED <<memory, log>>
  BY <1>11
<1> QED
  BY <1>2, <1>3, <1>4, <1>5, <1>6, <1>7, <1>8, <1>9, <1>10, <1>11, NextCases
     DEF Post, StartQueue, PostNext, EndQueue, ChangeLink, Deliver, TakeReceipt, vars

\* Where the threads are, and what is between them.
LEMMA WorkInductive == TypeOK /\ Places /\ [Next]_vars => WorkTypes' /\ Places'
<1> SUFFICES ASSUME TypeOK, Places, [Next]_vars PROVE WorkTypes' /\ Places'
  OBVIOUS
<1> DEFINE Else == <<lock, slot, events, typed, starts>>
<1> USE TextsAreNumbered DEF TypeOK
<1>1. Thread = {"ui", "core"} /\ \A t \in Thread : doing[t] \in Work
  BY DEF Thread, WorkTypes
<1>2. CASE Type
  <2>1. typed + 1 \in Nat /\ typed + 1 \in 1..typed' /\ typed' \in 0..Own
    BY <1>2 DEF Type, WorkTypes
  <2>2. Now("ui", Step("save", typed + 1, 0))
    BY <1>2 DEF Type, Begin
  <2>3. /\ doing' \in [Thread -> Work] /\ doing'["core"] = doing["core"]
        /\ doing'["ui"].at = "save" /\ doing'["ui"].id = typed + 1
    <3>1. "save" \in Place /\ 0 \in Nat
      BY DEF Place
    <3> QED
      BY <1>1, <2>1, <2>2, <3>1, NowMoves
  <2>4. UNCHANGED <<lock, slot, events, starts>>
    BY <1>2 DEF Type
  <2> QED
    BY <2>1, <2>3, <2>4 DEF WorkTypes, Places
<1>3. CASE Arrive
  <2>1. Own + arrived + 1 \in Text \ Mine
    BY <1>3 DEF Arrive, NetworkTypes, Text, Mine
  <2>2. Now("core", Step("save", Own + arrived + 1, 0))
    BY <1>3 DEF Arrive, Begin
  <2>3. /\ doing' \in [Thread -> Work] /\ doing'["ui"] = doing["ui"]
        /\ doing'["core"].at = "save" /\ doing'["core"].id = Own + arrived + 1
    <3>1. "save" \in Place /\ 0 \in Nat /\ Own + arrived + 1 \in Nat
      BY <2>1 DEF Place
    <3> HIDE DEF TypeOK
    <3> QED
      BY <1>1, <2>2, <3>1, NowMoves DEF TypeOK
  <2>4. UNCHANGED Else
    BY <1>3 DEF Arrive
  <2> QED
    BY <2>1, <2>3, <2>4 DEF WorkTypes, Places
<1>4. ASSUME NEW t \in Thread, Save(t) PROVE WorkTypes' /\ Places'
  <2> DEFINE m == doing[t].id
             next == IF m \in Mine THEN "post" ELSE "add"
  <2>1. Now(t, Step(next, m, 0)) /\ UNCHANGED Else /\ doing[t].at = "save"
    BY <1>4 DEF Save, Is
  <2>2. next \in Place /\ m \in Nat
    BY <1>1 DEF Place, Work
  <2>3. t = "core" => next = "add"
    BY <2>1 DEF Places
  <2> HIDE DEF next, m
  <2>4. /\ doing' \in [Thread -> Work] /\ doing'[t].at = next /\ doing'[t].id = m
        /\ \A u \in Thread : u # t => doing'[u] = doing[u]
    BY <2>1, <2>2, NowMoves
  <2>5. next \in {"post", "add"}
    BY DEF next
  <2>6. m = doing[t].id
    BY DEF m
  <2> QED
    BY <1>1, <2>1, <2>3, <2>4, <2>5, <2>6 DEF WorkTypes, Places
<1>5. CASE Post
  <2>1. Now("ui", Step("add", doing["ui"].id, 0)) /\ slot' = doing["ui"].id
        /\ doing["ui"].at = "post" /\ UNCHANGED <<lock, events, typed, starts>>
    BY <1>5 DEF Post, Put, Is
  <2>2. doing["ui"].id \in 1..typed /\ doing["ui"].id \in Mine /\ doing["ui"].id \in Nat
    BY <2>1 DEF Places, WorkTypes, Mine
  <2> QED
    BY <1>1, <2>1, <2>2, NowMoves DEF WorkTypes, Places, Place
<1>6. ASSUME NEW t \in Thread, Add(t) PROVE WorkTypes' /\ Places'
  <2>1. Now(t, Step("idle", 0, 0)) /\ UNCHANGED Else
    BY <1>6 DEF Add, Idle
  <2> QED
    BY <1>1, <2>1, NowMoves DEF WorkTypes, Places, Place
<1>7. CASE StartQueue
  <2>1. Len(list) \in Nat
    BY DEF MemoryTypes
  <2>2. 1 + Len(list) - Cardinality(Searched) \in Nat
    BY <2>1, SearchedIsPart DEF MemoryTypes
  <2>3. events' \in Nat
    BY <1>7 DEF StartQueue, WorkTypes
  <2> QED
    BY <1>1, <1>7, <2>2, <2>3, NowMoves DEF StartQueue, WorkTypes, Places, Place
<1>8. CASE PostNext
  <2>1. PICK i \in Ahead :
            /\ slot' = list[i]
            /\ Now("ui", Step("queue", i + 1, doing["ui"].count + 1))
    BY <1>8 DEF PostNext, Put
  <2>2. i + 1 \in Nat /\ list[i] \in Mine
    BY DEF Ahead, Pending, Positions, MemoryTypes
  <2>3. doing["ui"].count + 1 \in Nat
    BY <1>1 DEF Work
  <2> QED
    BY <1>1, <1>8, <2>1, <2>2, <2>3, NowMoves DEF PostNext, WorkTypes, Places, Place
<1>9. CASE EndQueue
  <2>1. Now("ui", Step("idle", 0, 0))
    BY <1>9 DEF EndQueue, Idle
  <2> QED
    BY <1>1, <1>9, <2>1, NowMoves DEF EndQueue, WorkTypes, Places, Place
<1>10. CASE ClearList
  BY <1>1, <1>10, NowMoves DEF ClearList, WorkTypes, Places, Place
<1>11. CASE RemoveLog
  <2>1. doing' \in [Thread -> Work]
    BY <1>1, <1>11 DEF RemoveLog, WorkTypes, Work, Place, Idle, Step
  <2>2. doing'["ui"] = Idle
    BY <1>1, <1>11 DEF RemoveLog, WorkTypes
  <2>3. /\ doing'["core"].id = doing["core"].id
        /\ doing'["core"].at = IF doing["core"].at = "save" THEN "add" ELSE doing["core"].at
    BY <1>1, <1>11 DEF RemoveLog, WorkTypes, Work
  <2>4. WorkTypes'
    BY <1>11, <2>1 DEF RemoveLog, WorkTypes
  <2> QED
    BY <1>11, <2>2, <2>3, <2>4 DEF RemoveLog, Places, Idle, Step
<1>12. CASE Send
  BY <1>12 DEF Send, WorkTypes, Places
<1>13. CASE ChangeLink
  BY <1>13 DEF ChangeLink, WorkTypes, Places
<1>14. CASE Deliver
  BY <1>14 DEF Deliver, WorkTypes, Places
<1>15. CASE TakeReceipt
  <2>1. PICK n \in receipts : Now("core", Step("receipt", n, 0))
    BY <1>15 DEF TakeReceipt
  <2> QED
    BY <1>1, <1>15, <2>1, NowMoves DEF TakeReceipt, NetworkTypes, WorkTypes, Places, Place
<1>16. CASE ClearReceipt
  <2>1. Now("core", Step("idle", 0, 0))
    BY <1>16 DEF ClearReceipt, Idle
  <2> QED
    BY <1>1, <1>16, <2>1, NowMoves DEF ClearReceipt, WorkTypes, Places, Place
<1>17. CASE Restart
  <2>1. doing' = [t \in Thread |-> [at |-> "idle", id |-> 0, count |-> 0]]
    BY <1>17 DEF Restart, Idle, Step
  <2> QED
    BY <1>1, <1>17, <2>1, MessageLogAssumption
       DEF Restart, WorkTypes, Places, Place, Work
<1>18. CASE UNCHANGED vars
  BY <1>18 DEF vars, WorkTypes, Places
<1> QED
  BY <1>2, <1>3, <1>4, <1>5, <1>6, <1>7, <1>8, <1>9, <1>10, <1>11, <1>12, <1>13,
     <1>14, <1>15, <1>16, <1>17, <1>18, NextCases

\* Toxcore and the histories.
LEMMA NetworkInductive ==
    TypeOK /\ Places /\ [Next]_vars => NetworkTypes' /\ HistoryTypes'
<1> SUFFICES ASSUME TypeOK, Places, [Next]_vars PROVE NetworkTypes' /\ HistoryTypes'
  OBVIOUS
<1> USE TextsAreNumbered DEF TypeOK, NetworkTypes, HistoryTypes, network, history
<1>1. CASE Arrive
  BY <1>1 DEF Arrive
<1>2. ASSUME NEW t \in Thread, Save(t) PROVE NetworkTypes' /\ HistoryTypes'
  BY <1>2 DEF Save
<1>3. CASE Post \/ PostNext
  BY <1>3 DEF Post, PostNext, Put
<1>4. CASE Send
  <2>1. slot \in Mine
    BY <1>4 DEF Send, WorkTypes
  <2> QED
    BY <1>4, <2>1 DEF Send
<1>5. CASE ChangeLink
  <2>1. links' \in 0..MaxLinks /\ link' \in BOOLEAN
    <3>1. links' \in 0..MaxLinks
      BY <1>5, MessageLogAssumption DEF ChangeLink
    <3>2. link' \in {TRUE, ~link}
      BY <1>5 DEF ChangeLink
    <3> QED
      BY <3>1, <3>2
  <2>2. sent' \in {sent, {}} /\ receipts' \in {receipts, {}}
    BY <1>5 DEF ChangeLink
  <2> QED
    BY <1>5, <2>1, <2>2 DEF ChangeLink
<1>6. CASE Deliver
  BY <1>6 DEF Deliver
<1>7. CASE TakeReceipt
  BY <1>7 DEF TakeReceipt
<1>8. CASE Restart
  BY <1>8 DEF Restart
<1>9. CASE UNCHANGED <<network, history>>
  BY <1>9
<1> QED
  BY <1>1, <1>2, <1>3, <1>4, <1>5, <1>6, <1>7, <1>8, <1>9, NextCases
     DEF Type, Add, StartQueue, EndQueue, ClearList, RemoveLog, ClearReceipt, vars

LEMMA TypesInductive == TypeOK /\ Places /\ [Next]_vars => TypeOK' /\ Places'
  BY MemoryInductive, WorkInductive, NetworkInductive DEF TypeOK

LEMMA TypesHoldInitially == Init => TypeOK /\ Places
<1> SUFFICES ASSUME Init PROVE TypeOK /\ Places
  OBVIOUS
<1> USE TextsAreNumbered, MessageLogAssumption DEF Init
<1>1. MemoryTypes
  BY EmptySeq DEF MemoryTypes, Fresh, Header
<1>2. WorkTypes /\ Places
  BY DEF WorkTypes, Places, Work, Place, Thread, Idle, Step
<1>3. NetworkTypes /\ HistoryTypes
  <2>1. 0 \in 0..MaxLinks /\ 0 \in 0..Incoming
    OBVIOUS
  <2> QED
    BY <2>1, Zenon DEF NetworkTypes, HistoryTypes
<1> QED
  BY <1>1, <1>2, <1>3 DEF TypeOK

\* The variables keep their types, and the list its limit (message_add).
THEOREM TypeCorrect == Spec => []TypeOK
  BY TypesHoldInitially, TypesInductive, PTL DEF Spec

-----------------------------------------------------------------------------
\* Numbers

\* What keeps Numbers: nothing new under way, and no message gets a number.
LEMMA NumbersKept ==
    ASSUME TypeOK, TypeOK', Numbers,
           number' = number, sent' \subseteq sent, Coming' \subseteq Coming,
           got \subseteq got',
           \A t \in Text : msg'[t].receipt \in {msg[t].receipt, 0, Nobody}
    PROVE  Numbers'
<1>1. number \in Nat
  BY DEF TypeOK, NetworkTypes
<1>2. \A t \in Text : msg'[t].receipt = msg[t].receipt \/ msg'[t].receipt < 1
  BY DEF Nobody
<1>3. \A t \in Text : msg[t].receipt \in Int /\ msg'[t].receipt \in Int
  BY DEF TypeOK, MemoryTypes, Header
<1>4. \A p \in sent' : p.number \in 1..number'
  BY DEF Numbers
<1>5. \A n \in Coming' : n \in 1..number'
  BY DEF Numbers
<1>6. \A t \in Text : msg'[t].receipt <= number'
  BY <1>1, <1>2, <1>3 DEF Numbers
<1>7. \A p \in sent', t \in Text : msg'[t].receipt = p.number => t = p.text
  BY <1>2, <1>3, <1>4 DEF Numbers
<1>8. \A n \in Coming', t \in Text : msg'[t].receipt = n => t \in got'
  BY <1>2, <1>3, <1>5 DEF Numbers
<1> QED
  BY <1>4, <1>5, <1>6, <1>7, <1>8 DEF Numbers

LEMMA ComingKept ==
    ASSUME TypeOK, TypeOK', receipts' \subseteq receipts,
           \/ doing'["core"] = doing["core"]
           \/ doing'["core"].at # "receipt"
    PROVE  Coming' \subseteq Coming
  BY DEF Coming, Is

LEMMA Begun ==
    ASSUME TypeOK, NEW t \in Thread, NEW m \in Text, Begin(t, m)
    PROVE  /\ msg'[m] = Fresh(Len(log))
           /\ \A u \in Text : u # m => msg'[u] = msg[u]
           /\ doing'[t].at = "save" /\ doing'[t].id = m
           /\ \A u \in Thread : u # t => doing'[u] = doing[u]
<1>1. m \in Nat /\ "save" \in Place
  BY TextsAreNumbered DEF Place
<1>2. Now(t, Step("save", m, 0))
  BY DEF Begin
<1>3. /\ doing'[t].at = "save" /\ doing'[t].id = m
      /\ \A u \in Thread : u # t => doing'[u] = doing[u]
  BY <1>1, <1>2, NowMoves DEF TypeOK
<1>4. /\ msg'[m] = Fresh(Len(log))
      /\ \A u \in Text : u # m => msg'[u] = msg[u]
  BY DEF Begin, TypeOK, MemoryTypes
<1> QED
  BY <1>3, <1>4

\* The new text is one of ours that is not known yet, or one of the friend's.
LEMMA TypeBegins ==
    ASSUME TypeOK, Type
    PROVE  /\ typed + 1 \in Mine /\ typed' = typed + 1 /\ typed \in Nat
           /\ Begin("ui", typed + 1) /\ doing["ui"].at = "idle"
           /\ UNCHANGED <<list, log, number, sent, receipts, got>>
<1>1. typed + 1 \in Mine /\ typed \in Nat
  BY MessageLogAssumption DEF Type, TypeOK, WorkTypes, Mine
<1>2. typed' = typed + 1 /\ Begin("ui", typed + 1) /\ doing["ui"].at = "idle"
  BY DEF Type, Is
<1>3. UNCHANGED <<list, log, number, sent, receipts, got>>
  BY DEF Type, network, history
<1> QED
  BY <1>1, <1>2, <1>3

LEMMA ArriveBegins ==
    ASSUME TypeOK, Arrive
    PROVE  /\ Own + arrived + 1 \in Text \ Mine
           /\ Begin("core", Own + arrived + 1) /\ doing["core"].at = "idle"
           /\ UNCHANGED <<list, log, typed, number, sent, receipts, got>>
  BY TextsAreNumbered DEF Arrive, Is, TypeOK, NetworkTypes, Text, Mine, history

\* The step of Save, by what becomes of the thread.
LEMMA Saving ==
    ASSUME TypeOK, Places, NEW t \in Thread, Save(t)
    PROVE  /\ doing[t].at = "save" /\ doing[t].id \in Text
           /\ doing'[t].at = IF doing[t].id \in Mine THEN "post" ELSE "add"
           /\ doing'[t].id = doing[t].id
           /\ \A u \in Thread : u # t => doing'[u] = doing[u]
           /\ UNCHANGED <<memory, typed, network, got>>
<1> DEFINE next == IF doing[t].id \in Mine THEN "post" ELSE "add"
<1>1. doing[t].at = "save" /\ Now(t, Step(next, doing[t].id, 0))
      /\ UNCHANGED <<memory, typed, network, got>>
  BY DEF Save, Is
<1>2. doing[t].id \in Text
  BY <1>1, TextsAreNumbered DEF Places, TypeOK, WorkTypes, Thread, Mine, Text
<1>3. doing[t].id \in Nat /\ next \in Place
  BY <1>2, TextsAreNumbered DEF Place
<1> HIDE DEF next
<1>4. /\ doing'[t].at = next /\ doing'[t].id = doing[t].id
      /\ \A u \in Thread : u # t => doing'[u] = doing[u]
  BY <1>1, <1>3, NowMoves DEF TypeOK
<1> QED
  BY <1>1, <1>2, <1>4 DEF next

\* Threads that become idle.
LEMMA Idling ==
    ASSUME TypeOK, NEW t \in Thread, Now(t, Idle)
    PROVE  /\ doing'[t].at = "idle"
           /\ \A u \in Thread : u # t => doing'[u] = doing[u]
<1>1. Now(t, Step("idle", 0, 0)) /\ "idle" \in Place
  BY DEF Idle, Place
<1> QED
  BY <1>1, NowMoves DEF TypeOK

\* What messages_clear_receipt does to the message it finds.
LEMMA Clearing ==
    ASSUME TypeOK, Places, Numbers, ClearReceipt
    PROVE  /\ doing'["core"].at = "idle" /\ doing'["ui"] = doing["ui"]
           /\ UNCHANGED <<list, allocated, typed, network, got>>
           /\ \/ msg' = msg /\ log' = log
              \/ \E i \in Positions :
                   /\ list[i] \in Held /\ list[i] \in got
                   /\ msg' = [msg EXCEPT ![list[i]] = [@ EXCEPT !.receipt = Nobody, !.acked = TRUE]]
                   /\ log' \in {log, Updated(list[i])}
                   /\ msg[list[i]].offset # 0 => log' = Updated(list[i])
<1> DEFINE n == doing["core"].id
<1>1. n \in Coming
  BY DEF ClearReceipt, Coming
<1>2. Now("core", Idle) /\ UNCHANGED <<list, allocated, typed, network, got>>
  BY DEF ClearReceipt, history
<1>3. doing'["core"].at = "idle" /\ doing'["ui"] = doing["ui"]
  BY <1>2, Idling DEF Thread
<1>4. ASSUME NEW i \in Matching(n)
      PROVE  i \in Positions /\ list[i] \in Held /\ list[i] \in got
  <2>1. i \in Positions /\ list[i] \in Text /\ msg[list[i]].receipt = n
    BY DEF Matching, Positions, TypeOK, MemoryTypes
  <2>2. list[i] \in got
    BY <1>1, <2>1 DEF Numbers
  <2>3. list[i] \in Mine
    BY <2>2 DEF TypeOK, HistoryTypes
  <2> QED
    BY <2>1, <2>2, <2>3 DEF Held
<1>5. \/ msg' = msg /\ log' = log
      \/ \E i \in Matching(n) :
            /\ msg' = [msg EXCEPT ![list[i]] = [@ EXCEPT !.receipt = Nobody, !.acked = TRUE]]
            /\ log' \in {log, Updated(list[i])}
            /\ msg[list[i]].offset # 0 => log' = Updated(list[i])
  BY DEF ClearReceipt, Locatable
<1> QED
  BY <1>2, <1>3, <1>4, <1>5

LEMMA Marked ==
    ASSUME TypeOK, NEW m \in Text,
           msg' = [msg EXCEPT ![m] = [@ EXCEPT !.receipt = Nobody, !.acked = TRUE]]
    PROVE  /\ msg'[m].receipt = Nobody /\ msg'[m].acked = TRUE
           /\ msg'[m].offset = msg[m].offset
           /\ \A u \in Text : u # m => msg'[u] = msg[u]
<1>1. msg[m] \in Header /\ Nobody \in Int /\ TRUE \in BOOLEAN
  BY DEF TypeOK, MemoryTypes, Nobody
<1>2. /\ msg'[m] = [msg[m] EXCEPT !.receipt = Nobody, !.acked = TRUE]
      /\ \A u \in Text : u # m => msg'[u] = msg[u]
  BY DEF TypeOK, MemoryTypes
<1>3. /\ [msg[m] EXCEPT !.receipt = Nobody, !.acked = TRUE].receipt = Nobody
      /\ [msg[m] EXCEPT !.receipt = Nobody, !.acked = TRUE].acked = TRUE
      /\ [msg[m] EXCEPT !.receipt = Nobody, !.acked = TRUE].offset = msg[m].offset
  BY <1>1, HeaderChanged
<1> QED
  BY <1>2, <1>3

\* What Send does to the message, if it is still there.
LEMMA Sending ==
    ASSUME TypeOK, Send
    PROVE  /\ slot \in Mine /\ slot \in Text
           /\ UNCHANGED <<list, allocated, log, doing, typed, receipts, got>>
           /\ number' = IF link THEN number + 1 ELSE number
           /\ sent' \subseteq sent \cup {[number |-> number + 1, text |-> slot]}
           /\ sent' \subseteq sent \/ (link /\ slot \in allocated)
           /\ \A u \in Text : u # slot => msg'[u] = msg[u]
           /\ \/ msg'[slot] = msg[slot] /\ slot \notin allocated
              \/ /\ msg'[slot].receipt = IF link THEN number + 1 ELSE 0
                 /\ msg'[slot].acked = FALSE
                 /\ msg'[slot].offset = msg[slot].offset
<1> DEFINE n == IF link THEN number + 1 ELSE 0
<1>1. slot \in Mine /\ slot \in Text
  BY TextsAreNumbered DEF Send, TypeOK, WorkTypes
<1>2. msg[slot] \in Header /\ n \in Int /\ FALSE \in BOOLEAN
  BY <1>1 DEF TypeOK, MemoryTypes, NetworkTypes
<1>3. msg' = IF slot \in allocated
               THEN [msg EXCEPT ![slot] = [@ EXCEPT !.receipt = n, !.acked = FALSE]]
               ELSE msg
  BY DEF Send
<1> HIDE DEF n
<1>4. /\ [msg[slot] EXCEPT !.receipt = n, !.acked = FALSE].receipt = n
      /\ [msg[slot] EXCEPT !.receipt = n, !.acked = FALSE].acked = FALSE
      /\ [msg[slot] EXCEPT !.receipt = n, !.acked = FALSE].offset = msg[slot].offset
  BY <1>2, HeaderChanged
<1>5. \A u \in Text : u # slot => msg'[u] = msg[u]
  BY <1>1, <1>3 DEF TypeOK, MemoryTypes
<1>6. \/ msg'[slot] = msg[slot] /\ slot \notin allocated
      \/ /\ msg'[slot].receipt = n
         /\ msg'[slot].acked = FALSE
         /\ msg'[slot].offset = msg[slot].offset
  BY <1>1, <1>3, <1>4 DEF TypeOK, MemoryTypes
<1>7. /\ UNCHANGED <<list, allocated, log, doing, typed, receipts, got>>
      /\ number' = IF link THEN number + 1 ELSE number
      /\ sent' \subseteq sent \cup {[number |-> number + 1, text |-> slot]}
      /\ sent' \subseteq sent \/ (link /\ slot \in allocated)
  BY DEF Send, history
<1> QED
  BY <1>1, <1>5, <1>6, <1>7 DEF n

\* What becomes of the messages at a restart: the ones that are loaded have
\* their place in the log and its mark, the other ones are blank.
LEMMA Restarting ==
    ASSUME TypeOK, Restart
    PROVE  /\ \A t \in Text :
                \/ msg'[t] = Fresh(0) /\ \A i \in DOMAIN list' : list'[i] # t
                \/ \E k \in DOMAIN log : log[k].text = t /\ msg'[t] = RecordedAt(k)
           /\ \A u \in Thread : doing'[u].at = "idle"
           /\ number' = 0 /\ sent' = {} /\ receipts' = {}
           /\ UNCHANGED <<log, typed, got>>
<1> DEFINE size == IF Len(log) < Backlog THEN Len(log) ELSE Backlog
           from == Len(log) - size
           texts == [i \in 1..size |-> log[from + i].text]
           first == IF log = <<>> THEN <<>> ELSE <<DayNotice>>
           all == first \o texts
<1>1. log \in Seq(Record) /\ Len(log) \in Nat
  BY DEF TypeOK, MemoryTypes
<1>2. size \in 0..Len(log) /\ from \in Nat /\ from + size = Len(log)
  BY <1>1, TextsAreNumbered
<1>3. \A i \in 1..size : from + i \in DOMAIN log
  BY <1>1, <1>2
<1>4. /\ list' = Last(Backlog, all)
      /\ msg' = [t \in Text |->
                  IF \E i \in 1..size : texts[i] = t
                    THEN RecordedAt(from + (CHOOSE i \in 1..size : texts[i] = t))
                    ELSE Fresh(0)]
  BY DEF Restart, Loaded
<1>5. ASSUME NEW t \in Text, \E i \in 1..size : texts[i] = t
      PROVE  \E k \in DOMAIN log : log[k].text = t /\ msg'[t] = RecordedAt(k)
  <2> DEFINE c == CHOOSE i \in 1..size : texts[i] = t
  <2>1. c \in 1..size /\ texts[c] = t
    BY <1>5
  <2>2. msg'[t] = RecordedAt(from + c)
    BY <1>4, <1>5
  <2> HIDE DEF c
  <2>3. from + c \in DOMAIN log /\ log[from + c].text = t
    BY <2>1, <1>3
  <2> QED
    BY <2>2, <2>3
<1>6. ASSUME NEW t \in Text, ~ \E i \in 1..size : texts[i] = t
      PROVE  msg'[t] = Fresh(0) /\ \A i \in DOMAIN list' : list'[i] # t
  <2>1. msg'[t] = Fresh(0)
    BY <1>4, <1>6
  <2>2. first \in Seq(Text \cup {DayNotice}) /\ \A i \in 1..Len(first) : first[i] = DayNotice
    <3>1. <<>> \in Seq(Text \cup {DayNotice}) /\ Len(<<>>) = 0
      BY EmptySeq
    <3>2. <<DayNotice>> \in Seq(Text \cup {DayNotice}) /\ Len(<<DayNotice>>) = 1
          /\ \A i \in 1..1 : <<DayNotice>>[i] = DayNotice
      OBVIOUS
    <3>3. CASE log = <<>>
      <4>1. first = <<>>
        BY <3>3
      <4> QED
        BY <4>1, <3>1
    <3>4. CASE log # <<>>
      <4>1. first = <<DayNotice>>
        BY <3>4
      <4> QED
        BY <4>1, <3>2
    <3> QED
      BY <3>3, <3>4
  <2>3. texts \in Seq(Text) /\ Len(texts) = size
    <3>1. \A k \in DOMAIN log : log[k].text \in Text
      <4>1. \A k \in DOMAIN log : log[k] \in Record
        BY <1>1
      <4>2. \A r \in Record : r.text \in Text
        BY DEF Record
      <4> QED
        BY <4>1, <4>2
    <3>2. \A i \in 1..size : texts[i] \in Text
      BY <1>3, <3>1
    <3>3. size \in Nat /\ texts = [i \in 1..size |-> texts[i]]
      BY <1>2
    <3> HIDE DEF texts, size
    <3> QED
      BY <3>2, <3>3
  <2>4. t # DayNotice
    BY TextsAreNumbered DEF DayNotice
  <2>5. \A i \in 1..size : texts[i] # t
    BY <1>6
  <2> HIDE DEF texts, first, size
  <2>6. texts \in Seq(Text \cup {DayNotice})
    BY <2>3, SeqMonotonic
  <2>7. /\ all \in Seq(Text \cup {DayNotice}) /\ Len(all) = Len(first) + size
        /\ \A j \in 1..Len(first) + size :
             all[j] = IF j <= Len(first) THEN first[j] ELSE texts[j - Len(first)]
    BY <2>2, <2>3, <2>6, ConcatProperties
  <2> HIDE DEF all
  <2>8. \A j \in 1..Len(all) : all[j] # t
    <3> SUFFICES ASSUME NEW j \in 1..Len(all) PROVE all[j] # t
      OBVIOUS
    <3>1. Len(first) \in Nat /\ size \in Nat
      BY <2>2, <2>3
    <3>2. CASE j <= Len(first)
      BY <3>1, <3>2, <2>2, <2>4, <2>7
    <3>3. CASE ~(j <= Len(first))
      <4>1. j - Len(first) \in 1..size /\ all[j] = texts[j - Len(first)]
        BY <3>1, <3>3, <2>7
      <4> QED
        BY <4>1, <2>5
    <3> QED
      BY <3>2, <3>3
  <2>9. \A i \in DOMAIN list' : list'[i] # t
    <3>1. Len(all) \in Nat
      BY <2>7
    <3> DEFINE start == IF Len(all) > Backlog THEN Len(all) - Backlog + 1 ELSE 1
    <3>2. start \in 1..(Len(all) + 1)
      BY <3>1, TextsAreNumbered
    <3>3. Last(Backlog, all) = SubSeq(all, start, Len(all))
      BY DEF Last
    <3> HIDE DEF start
    <3>4. \A i \in DOMAIN Last(Backlog, all) :
             start + i - 1 \in 1..Len(all) /\ Last(Backlog, all)[i] = all[start + i - 1]
      BY <2>7, <3>1, <3>2, <3>3
    <3> QED
      BY <3>4, <2>8, <1>4
  <2> QED
    BY <2>1, <2>9
<1>7. /\ \A u \in Thread : doing'[u].at = "idle"
      /\ number' = 0 /\ sent' = {} /\ receipts' = {}
      /\ UNCHANGED <<log, typed, got>>
  BY DEF Restart, Idle, Step, history
<1> QED
  BY <1>5, <1>6, <1>7

LEMMA NumbersInductive == TypeOK /\ Places /\ Numbers /\ [Next]_vars => Numbers'
<1> SUFFICES ASSUME TypeOK, Places, Numbers, [Next]_vars PROVE Numbers'
  OBVIOUS
<1>0. TypeOK' /\ Places'
  BY TypesInductive
<1>1. ASSUME NEW t \in Thread, NEW m \in Text, Begin(t, m), doing[t].at = "idle",
             UNCHANGED <<number, sent, receipts, got>>
      PROVE  Numbers'
  <2>1. /\ msg'[m] = Fresh(Len(log))
        /\ \A u \in Text : u # m => msg'[u] = msg[u]
        /\ doing'[t].at = "save"
        /\ \A u \in Thread : u # t => doing'[u] = doing[u]
    BY <1>1, Begun
  <2>2. \A u \in Text : msg'[u].receipt \in {msg[u].receipt, 0, Nobody}
    BY <2>1 DEF Fresh
  <2>3. doing'["core"] = doing["core"] \/ doing'["core"].at # "receipt"
    BY <2>1 DEF Thread
  <2> QED
    BY <1>0, <1>1, <2>2, <2>3, ComingKept, NumbersKept
<1>2. ASSUME UNCHANGED <<msg, number, sent, receipts, got>>,
             doing'["core"] = doing["core"] \/ doing'["core"].at # "receipt"
      PROVE  Numbers'
  BY <1>0, <1>2, ComingKept, NumbersKept
<1>3. CASE Type
  BY <1>1, <1>3, TypeBegins, TextsAreNumbered DEF Thread
<1>4. CASE Arrive
  BY <1>1, <1>4, ArriveBegins DEF Thread
<1>5. ASSUME NEW t \in Thread, Save(t) PROVE Numbers'
  <2>1. doing'["core"] = doing["core"] \/ doing'["core"].at # "receipt"
    BY <1>5, Saving DEF Thread
  <2>2. UNCHANGED <<msg, number, sent, receipts, got>>
    BY <1>5, Saving DEF memory, network
  <2> QED
    BY <1>2, <2>1, <2>2
<1>6. ASSUME NEW t \in Thread, Now(t, Idle), UNCHANGED <<msg, number, sent, receipts, got>>
      PROVE  Numbers'
  <2>1. doing'["core"] = doing["core"] \/ doing'["core"].at # "receipt"
    BY <1>6, Idling DEF Thread
  <2> QED
    BY <1>2, <1>6, <2>1
<1>7. ASSUME NEW t \in Thread, Add(t) PROVE Numbers'
  BY <1>6, <1>7 DEF Add, network, history
<1>8. CASE EndQueue
  BY <1>6, <1>8 DEF EndQueue, network, history, memory, Thread
<1>9. ASSUME NEW at, NEW id, NEW count, Now("ui", Step(at, id, count)),
             UNCHANGED <<msg, number, sent, receipts, got>>
      PROVE  Numbers'
  <2>1. doing'["core"] = doing["core"]
    BY <1>9 DEF Now, TypeOK, WorkTypes, Thread
  <2> QED
    BY <1>2, <1>9, <2>1
<1>10. CASE Post
  BY <1>9, <1>10 DEF Post, network, memory
<1>11. CASE StartQueue
  BY <1>9, <1>11 DEF StartQueue, network, memory, history
<1>12. CASE PostNext
  <2>1. \E i \in Ahead : Now("ui", Step("queue", i + 1, doing["ui"].count + 1))
    BY <1>12 DEF PostNext
  <2>2. UNCHANGED <<msg, number, sent, receipts, got>>
    BY <1>12 DEF PostNext, network, memory
  <2> QED
    BY <1>9, <2>1, <2>2
<1>13. CASE ClearList
  BY <1>9, <1>13 DEF ClearList, network, history
<1>14. CASE RemoveLog
  <2>1. doing'["core"] = doing["core"] \/ doing'["core"].at # "receipt"
    BY <1>14 DEF RemoveLog, TypeOK, WorkTypes, Thread, Work
  <2>2. UNCHANGED <<msg, number, sent, receipts, got>>
    BY <1>14 DEF RemoveLog, network, memory, history
  <2> QED
    BY <1>2, <2>1, <2>2
<1>15. CASE Send
  <2>1. number \in Nat /\ receipts \subseteq Nat
    BY DEF TypeOK, NetworkTypes
  <2>2. Coming' = Coming /\ got' = got /\ slot \in Text
    BY <1>15, Sending DEF Coming, Is
  <2>3. number' \in {number, number + 1}
    BY <1>15, Sending
  <2>4. \A n \in Coming' : n \in 1..number /\ n \in 1..number'
    BY <2>1, <2>2, <2>3 DEF Numbers
  <2>5. \A p \in sent' :
           \/ p \in sent /\ p.number \in 1..number
           \/ p.number = number + 1 /\ p.text = slot /\ link /\ slot \in allocated
    <3>1. \A p \in sent : p.number \in 1..number
      BY DEF Numbers
    <3> QED
      BY <1>15, <3>1, Sending
  <2>6. \A p \in sent' : p.number \in 1..number'
    BY <2>1, <2>3, <2>5, <1>15, Sending
  <2>7. \A t \in Text :
           \/ /\ msg'[t].receipt = msg[t].receipt /\ msg[t].receipt <= number
              /\ t = slot => slot \notin allocated
           \/ t = slot /\ msg'[t].receipt = IF link THEN number + 1 ELSE 0
    <3>1. /\ slot \in Text
          /\ \A u \in Text : u # slot => msg'[u] = msg[u]
          /\ \/ msg'[slot] = msg[slot] /\ slot \notin allocated
             \/ msg'[slot].receipt = IF link THEN number + 1 ELSE 0
      BY <1>15, Sending
    <3>2. \A t \in Text : msg[t].receipt <= number
      BY DEF Numbers
    <3> QED
      BY <3>1, <3>2
  <2>8. \A t \in Text : msg'[t].receipt \in Int /\ msg[t].receipt \in Int
    BY <1>0 DEF TypeOK, MemoryTypes, Header
  <2>9. \A t \in Text : msg'[t].receipt <= number'
    BY <1>15, Sending, <2>1, <2>7, <2>8
  <2>10. \A p \in sent', t \in Text : msg'[t].receipt = p.number => t = p.text
    <3> SUFFICES ASSUME NEW p \in sent', NEW t \in Text, msg'[t].receipt = p.number
                 PROVE  t = p.text
      OBVIOUS
    <3>1. CASE p \in sent /\ p.number \in 1..number
      BY <3>1, <2>1, <2>7 DEF Numbers
    <3>2. CASE p.number = number + 1 /\ p.text = slot
      BY <3>2, <2>1, <2>7, <2>8
    <3> QED
      BY <2>5, <3>1, <3>2
  <2>11. \A n \in Coming', t \in Text : msg'[t].receipt = n => t \in got'
    BY <2>1, <2>2, <2>4, <2>7 DEF Numbers
  <2> QED
    BY <2>4, <2>6, <2>9, <2>10, <2>11 DEF Numbers
<1>16. CASE ChangeLink
  <2>1. sent' \subseteq sent /\ receipts' \subseteq receipts
    BY <1>16 DEF ChangeLink
  <2>2. UNCHANGED <<msg, doing, number, got>>
    BY <1>16 DEF ChangeLink, memory, history
  <2> QED
    BY <1>0, <2>1, <2>2, ComingKept, NumbersKept
<1>17. CASE Deliver
  <2>1. PICK p \in sent : /\ sent' = sent \ {p}
                          /\ got' = got \cup {p.text}
                          /\ receipts' = receipts \cup {p.number}
    BY <1>17 DEF Deliver
  <2>2. UNCHANGED <<msg, doing, number>>
    BY <1>17 DEF Deliver, memory
  <2>3. Coming' = Coming \cup {p.number}
    BY <2>1, <2>2 DEF Coming, Is
  <2> QED
    BY <2>1, <2>2, <2>3 DEF Numbers
<1>18. CASE TakeReceipt
  <2>1. PICK n \in receipts : /\ receipts' = receipts \ {n}
                              /\ Now("core", Step("receipt", n, 0))
    BY <1>18 DEF TakeReceipt
  <2>2. UNCHANGED <<msg, number, sent, got>> /\ doing["core"].at = "idle"
    BY <1>18 DEF TakeReceipt, memory, history, Is
  <2>3. n \in Nat /\ "receipt" \in Place
    BY <2>1 DEF TypeOK, NetworkTypes, Place
  <2>4. doing'["core"].at = "receipt" /\ doing'["core"].id = n
    BY <2>1, <2>3, NowMoves DEF TypeOK, Thread
  <2>5. Coming' \subseteq Coming
    BY <2>1, <2>2, <2>4 DEF Coming, Is
  <2> QED
    BY <1>0, <2>2, <2>5, NumbersKept
<1>19. CASE ClearReceipt
  <2>1. /\ doing'["core"].at = "idle"
        /\ UNCHANGED <<number, sent, receipts, got>>
        /\ \/ msg' = msg
           \/ \E i \in Positions :
                /\ list[i] \in Held
                /\ msg' = [msg EXCEPT ![list[i]] = [@ EXCEPT !.receipt = Nobody, !.acked = TRUE]]
    BY <1>19, Clearing DEF network
  <2>2. Coming' \subseteq Coming
    BY <2>1, <1>0, ComingKept
  <2>3. \A t \in Text : msg'[t].receipt \in {msg[t].receipt, 0, Nobody}
    <3>1. ASSUME NEW i \in Positions, list[i] \in Held,
                 msg' = [msg EXCEPT ![list[i]] = [@ EXCEPT !.receipt = Nobody, !.acked = TRUE]]
          PROVE  \A t \in Text : msg'[t].receipt \in {msg[t].receipt, Nobody}
      <4>1. list[i] \in Text
        BY <3>1, TextsAreNumbered DEF Held
      <4> QED
        BY <3>1, <4>1, Marked
    <3> QED
      BY <2>1, <3>1
  <2> QED
    BY <1>0, <2>1, <2>2, <2>3, NumbersKept
<1>20. CASE Restart
  <2>1. /\ \A u \in Text : \/ msg'[u] = Fresh(0)
                           \/ \E k \in DOMAIN log : msg'[u] = RecordedAt(k)
        /\ doing'["core"].at = "idle" /\ number' = 0 /\ sent' = {} /\ receipts' = {}
    BY <1>20, Restarting DEF Thread
  <2>2. \A u \in Text : msg'[u].receipt = 0
    <3>1. Fresh(0).receipt = 0 /\ \A k : RecordedAt(k).receipt = 0
      BY DEF Fresh, RecordedAt
    <3> QED
      BY <2>1, <3>1
  <2>3. Coming' = {}
    BY <2>1 DEF Coming, Is
  <2> QED
    BY <2>1, <2>2, <2>3 DEF Numbers
<1>21. CASE UNCHANGED vars
  BY <1>2, <1>21 DEF vars, memory, network, history
<1> QED
  BY <1>3, <1>4, <1>5, <1>7, <1>8, <1>10, <1>11, <1>12, <1>13, <1>14, <1>15, <1>16,
     <1>17, <1>18, <1>19, <1>20, <1>21, NextCases

-----------------------------------------------------------------------------
\* Records and Marks

\* What Save writes, and where.
LEMMA Written ==
    ASSUME TypeOK, Places, NEW t \in Thread, Save(t)
    PROVE  LET m == doing[t].id
               k == msg[m].offset + 1 IN
           /\ DOMAIN log \subseteq DOMAIN log' /\ Len(log) <= Len(log')
           /\ \A j \in DOMAIN log' :
                \/ j = k /\ log'[j] = RecordOf(m)
                \/ j # k /\ j \in DOMAIN log /\ log'[j] = log[j]
           /\ k <= Len(log) + 1 => k \in DOMAIN log'
<1> DEFINE m == doing[t].id
           k == msg[m].offset
           r == RecordOf(m)
<1>1. log \in Seq(Record) /\ Len(log) \in Nat /\ m \in Text /\ k \in Nat
  BY Saving DEF TypeOK, MemoryTypes, Header
<1>2. log' = IF k = Len(log) THEN Append(log, r) ELSE [log EXCEPT ![k + 1] = r]
  BY DEF Save
<1>3. r \in Record
  BY <1>1 DEF RecordOf, Record, TypeOK, MemoryTypes, Header
<1> HIDE DEF r, k
<1>4. /\ DOMAIN log \subseteq DOMAIN log' /\ Len(log) <= Len(log')
      /\ \A j \in DOMAIN log' :
           \/ j = k + 1 /\ log'[j] = r
           \/ j # k + 1 /\ j \in DOMAIN log /\ log'[j] = log[j]
      /\ k + 1 <= Len(log) + 1 => k + 1 \in DOMAIN log'
  <2>1. CASE k = Len(log)
    BY <1>1, <1>2, <1>3, <2>1
  <2>2. CASE k + 1 \in 1..Len(log)
    <3>1. log' = [log EXCEPT ![k + 1] = r]
      BY <1>1, <1>2, <2>2
    <3>2. /\ log' \in Seq(Record) /\ Len(log') = Len(log)
          /\ \A j \in 1..Len(log) : log'[j] = IF j = k + 1 THEN r ELSE log[j]
      BY <1>1, <1>3, <2>2, <3>1, ExceptSeq
    <3>3. DOMAIN log' = 1..Len(log) /\ DOMAIN log = 1..Len(log)
      BY <1>1, <3>2
    <3> QED
      BY <1>1, <2>2, <3>2, <3>3
  <2>3. CASE k # Len(log) /\ k + 1 \notin 1..Len(log)
    <3>1. log' = log
      BY <1>1, <1>2, <2>3
    <3>2. ~(k + 1 <= Len(log) + 1)
      BY <1>1, <2>3
    <3>3. \A j \in DOMAIN log : j # k + 1
      BY <1>1, <2>3
    <3> QED
      BY <1>1, <3>1, <3>2, <3>3
  <2> QED
    BY <1>1, <2>1, <2>2, <2>3
<1> QED
  BY <1>4 DEF r, k

\* The mark of messages_clear_receipt changes no text in the log.
LEMMA Marking ==
    ASSUME TypeOK, NEW m \in Text, log' \in {log, Updated(m)}
    PROVE  /\ DOMAIN log' = DOMAIN log /\ Len(log') = Len(log)
           /\ \A k \in DOMAIN log : log'[k].text = log[k].text
           /\ \A k \in DOMAIN log :
                k = msg[m].offset + 1 \/ log'[k].receipt = log[k].receipt
<1>1. log \in Seq(Record)
  BY DEF TypeOK, MemoryTypes
<1> DEFINE k == msg[m].offset + 1
           marked == [log[k] EXCEPT !.receipt = TRUE, !.lengths = m]
<1>2. ASSUME log' = [log EXCEPT ![k] = marked], k \in DOMAIN log
      PROVE  /\ DOMAIN log' = DOMAIN log /\ Len(log') = Len(log)
             /\ \A j \in DOMAIN log : log'[j].text = log[j].text
             /\ \A j \in DOMAIN log : j = k \/ log'[j].receipt = log[j].receipt
  <2>1. log[k] \in Record
    BY <1>1, <1>2
  <2>2. marked.text = log[k].text /\ marked \in Record
    BY <2>1 DEF Record
  <2> HIDE DEF marked, k
  <2>3. DOMAIN log' = DOMAIN log /\ log' \in Seq(Record)
    BY <1>1, <1>2, <2>2
  <2>4. \A j \in DOMAIN log : log'[j] = IF j = k THEN marked ELSE log[j]
    BY <1>1, <1>2
  <2> QED
    BY <1>1, <2>2, <2>3, <2>4
<1>3. ASSUME log' = [log EXCEPT ![k] = marked], k \notin DOMAIN log
      PROVE  log' = log
  BY <1>1, <1>3
<1>4. log' \in {log, [log EXCEPT ![k] = marked]}
  BY DEF Updated
<1> HIDE DEF marked, k
<1> QED
  BY <1>2, <1>3, <1>4 DEF k

\* What keeps Records: the texts in the log, and where the messages are that
\* are still in the list.
LEMMA RecordsKept ==
    ASSUME TypeOK, TypeOK', Records, typed' = typed,
           DOMAIN log' = DOMAIN log, Len(log') = Len(log),
           \A k \in DOMAIN log : log'[k].text = log[k].text,
           Held' \subseteq Held,
           \A t \in Mine : msg'[t].offset = msg[t].offset,
           \/ doing'["ui"] = doing["ui"] /\ doing["ui"].at = "save" /\ doing["ui"].id \in Mine
           \/ doing'["ui"].at \notin {"save", "remove"}
           \/ Held' = {} /\ doing'["ui"].at = "remove"
    PROVE  Records'
<1>1. Held' \subseteq Mine
  BY DEF Held
<1>2. \A t \in Held' : t <= typed'
  BY DEF Records
<1>3. \A k \in DOMAIN log' : log'[k].text \in Mine => log'[k].text <= typed'
  BY DEF Records
<1>4. \A t \in Held' : /\ msg'[t].offset + 1 \in DOMAIN log'
                       /\ log'[msg'[t].offset + 1].text \in {t} \cup (Text \ Mine)
  BY <1>1 DEF Records
<1>5. Is("ui", "save")' =>
        /\ doing'["ui"].id \notin Held'
        /\ msg'[doing'["ui"].id].offset <= Len(log')
        /\ \A t \in Held' : msg'[t].offset < msg'[doing'["ui"].id].offset
  BY <1>1 DEF Records, Is
<1>6. Is("ui", "remove")' => Held' = {}
  BY DEF Is
<1> QED
  BY <1>2, <1>3, <1>4, <1>5, <1>6 DEF Records

LEMMA HeldKept ==
    ASSUME list' = list, 
           \/ doing'["ui"] = doing["ui"]
           \/ doing'["ui"].at \notin {"post", "add"}
           \/ doing["ui"].at = "post" /\ doing'["ui"].id = doing["ui"].id
    PROVE  Held' \subseteq Held
  BY DEF Held, Positions

\* message_add lets no message of ours go but the oldest, and takes no other in.
LEMMA AddingHolds ==
    ASSUME TypeOK, Places, NEW t \in Thread, Add(t)
    PROVE  Held' \subseteq Held
<1>1. /\ doing[t].at = "add" /\ doing'[t].at = "idle"
      /\ \A u \in Thread : u # t => doing'[u] = doing[u]
  BY Idling DEF Add, Is
<1>2. \A i \in 1..Len(list') : list'[i] = doing[t].id \/ \E j \in Positions : list'[i] = list[j]
  <2>1. list \in Seq(Text \cup {DayNotice}) /\ Len(list) \in Nat
    BY DEF TypeOK, MemoryTypes
  <2>2. list' = Append(IF Len(list) >= Backlog THEN Tail(list) ELSE list, doing[t].id)
    BY DEF Add
  <2>3. CASE Len(list) >= Backlog
    <3>1. /\ Tail(list) \in Seq(Text \cup {DayNotice}) /\ Len(Tail(list)) = Len(list) - 1
          /\ \A i \in 1..(Len(list) - 1) : Tail(list)[i] = list[i + 1]
      BY <2>1, <2>3, TextsAreNumbered
    <3>2. list' = Append(Tail(list), doing[t].id)
      BY <2>2, <2>3
    <3>3. \A i \in 1..(Len(list) - 1) : i + 1 \in Positions
      BY <2>1 DEF Positions
    <3>4. /\ Len(list') = Len(list)
          /\ \A i \in 1..Len(list) :
               \/ i \in 1..(Len(list) - 1) /\ list'[i] = Tail(list)[i]
               \/ list'[i] = doing[t].id
      <4>1. doing[t].id \in Nat /\ Len(list) > 0
        BY <2>1, <2>3, TextsAreNumbered DEF TypeOK, WorkTypes, Work
      <4>2. Tail(list) \in Seq(Nat)
        <5>1. Text \cup {DayNotice} \subseteq Nat
          BY TextsAreNumbered DEF DayNotice
        <5> QED
          BY <3>1, <5>1, SeqMonotonic
      <4>3. /\ Len(list') = Len(list)
            /\ \A i \in 1..(Len(list) - 1) : list'[i] = Tail(list)[i]
            /\ list'[Len(list)] = doing[t].id
        <5> DEFINE s == Tail(list)
        <5>1. Len(s) + 1 = Len(list)
          BY <2>1, <3>1
        <5> HIDE DEF s
        <5> QED
          BY <3>1, <3>2, <4>1, <4>2, <5>1, AppendProperties DEF s
      <4>4. \A i \in 1..Len(list) : i \in 1..(Len(list) - 1) \/ i = Len(list)
        BY <2>1
      <4> QED
        BY <4>3, <4>4
    <3> QED
      BY <3>1, <3>3, <3>4
  <2>4. CASE ~(Len(list) >= Backlog)
    BY <2>1, <2>2, <2>4 DEF Positions
  <2> QED
    BY <2>3, <2>4
<1>3. Held' \subseteq Held
  <2> SUFFICES ASSUME NEW u \in Held' PROVE u \in Held
    OBVIOUS
  <2>1. u \in Mine
    BY DEF Held
  <2>2. CASE t = "ui"
    BY <1>1, <1>2, <2>1, <2>2 DEF Held, Positions
  <2>3. CASE t = "core"
    <3>1. doing["core"].id \notin Mine /\ doing'["ui"] = doing["ui"]
      BY <1>1, <2>3 DEF Places, Thread
    <3> QED
      BY <1>1, <1>2, <2>1, <2>3, <3>1 DEF Held, Positions
  <2> QED
    BY <2>2, <2>3 DEF Thread
<1> QED
  BY <1>3

LEMMA RecordsInductive == TypeOK /\ Places /\ Numbers /\ Records /\ [Next]_vars => Records'
<1> SUFFICES ASSUME TypeOK, Places, Numbers, Records, [Next]_vars PROVE Records'
  OBVIOUS
<1>0. /\ TypeOK' /\ Places' /\ typed \in Nat /\ Len(log) \in Nat
      /\ doing["ui"].at = "save" => doing["ui"].id \in 1..typed /\ doing["ui"].id \in Mine
  <2>1. TypeOK' /\ Places'
    BY TypesInductive
  <2>2. typed \in 0..Own /\ log \in Seq(Record)
    BY DEF TypeOK, WorkTypes, MemoryTypes
  <2>3. doing["ui"].at = "save" => doing["ui"].id \in 1..typed
    BY DEF Places
  <2>4. \A i \in 1..typed : i \in Mine
    BY <2>2, MessageLogAssumption DEF Mine
  <2> QED
    BY <2>1, <2>2, <2>3, <2>4
<1>1. ASSUME UNCHANGED <<list, log, typed>>,
             \A t \in Mine : msg'[t].offset = msg[t].offset,
             \/ doing'["ui"] = doing["ui"]
             \/ /\ doing["ui"].at = "post" /\ doing'["ui"].at = "add"
                /\ doing'["ui"].id = doing["ui"].id
             \/ doing'["ui"].at \in {"idle", "queue"}
      PROVE  Records'
  <2>1. Held' \subseteq Held
    BY <1>1, HeldKept
  <2>2. doing["ui"].at = "remove" => Held' = {}
    BY <2>1 DEF Records, Is
  <2> QED
    BY <1>0, <1>1, <2>1, <2>2, RecordsKept
<1>2. ASSUME UNCHANGED <<list, msg, log, typed, doing>> PROVE Records'
  BY <1>1, <1>2
<1>3. CASE Type
  <2> DEFINE m == typed + 1
  <2>1. /\ m \in Mine /\ m \in Text /\ typed' = typed + 1
        /\ UNCHANGED <<list, log>> /\ doing["ui"].at = "idle"
    BY <1>3, TypeBegins, TextsAreNumbered
  <2>2. /\ msg'[m] = Fresh(Len(log))
        /\ \A u \in Text : u # m => msg'[u] = msg[u]
        /\ doing'["ui"].at = "save" /\ doing'["ui"].id = m
    BY <1>3, <2>1, TypeBegins, Begun DEF Thread
  <2>3. Held' = Held
    BY <2>1, <2>2 DEF Held, Positions
  <2>4. \A t \in Held : t # m /\ t \in Text /\ t \in Nat
    BY <1>0, TextsAreNumbered DEF Records, Held
  <2>5. \A t \in Held : msg'[t] = msg[t] /\ t <= typed'
    BY <1>0, <2>1, <2>2, <2>4 DEF Records
  <2>6. \A t \in Held : msg[t].offset < Len(log)
    BY <1>0, <2>4 DEF Records, TypeOK, MemoryTypes, Header
  <2>7. \A k \in DOMAIN log' : log'[k].text \in Mine => log'[k].text <= typed'
    BY <1>0, <2>1 DEF Records, Mine
  <2>8. msg'[m].offset = Len(log')
    BY <2>1, <2>2 DEF Fresh
  <2> HIDE DEF m
  <2> QED
    BY <1>0, <2>1, <2>2, <2>3, <2>4, <2>5, <2>6, <2>7, <2>8 DEF Records, Is
<1>4. CASE Arrive
  <2>1. /\ \A t \in Mine : msg'[t] = msg[t]
        /\ doing'["ui"] = doing["ui"]
        /\ UNCHANGED <<list, log, typed>>
    BY <1>4, ArriveBegins, Begun, TextsAreNumbered DEF Thread
  <2> QED
    BY <1>1, <2>1
<1>5. CASE Save("ui")
  <2> DEFINE m == doing["ui"].id
             k == msg[m].offset + 1
  <2>1. /\ doing["ui"].at = "save" /\ m \in 1..typed /\ m \in Mine
        /\ doing'["ui"].at = "post" /\ doing'["ui"].id = m
        /\ UNCHANGED <<list, msg, typed>>
    BY <1>0, <1>5, Saving DEF Thread, memory
  <2>2. Held' \subseteq Held \cup {m}
    BY <2>1 DEF Held, Positions
  <2>3. /\ DOMAIN log \subseteq DOMAIN log' /\ Len(log) <= Len(log')
        /\ \A j \in DOMAIN log' :
             \/ j = k /\ log'[j] = RecordOf(m)
             \/ j # k /\ j \in DOMAIN log /\ log'[j] = log[j]
        /\ k <= Len(log) + 1 => k \in DOMAIN log'
    BY <1>5, Written DEF Thread
  <2>4. RecordOf(m).text = m
    BY DEF RecordOf
  <2>5. k \in DOMAIN log' /\ log'[k].text = m
    <3>1. msg[m].offset <= Len(log) /\ msg[m].offset \in Nat
      BY <2>1, TextsAreNumbered DEF Records, Is, TypeOK, MemoryTypes, Header
    <3>2. k <= Len(log) + 1
      BY <1>0, <3>1
    <3> QED
      BY <2>3, <2>4, <3>2
  <2>6. \A t \in Held : t # m /\ msg[t].offset + 1 # k
    <3>1. m \notin Held /\ \A t \in Held : msg[t].offset < msg[m].offset
      BY <2>1 DEF Records, Is
    <3>2. \A t \in Text : msg[t].offset \in Nat
      BY DEF TypeOK, MemoryTypes, Header
    <3>3. Held \subseteq Text /\ m \in Text
      BY <2>1, TextsAreNumbered DEF Held
    <3> TAKE t \in Held
    <3>4. msg[t].offset \in Nat /\ msg[m].offset \in Nat
      BY <3>2, <3>3
    <3> QED
      BY <3>1, <3>4
  <2>7. \A t \in Held' : /\ t <= typed'
                         /\ msg'[t].offset + 1 \in DOMAIN log'
                         /\ log'[msg'[t].offset + 1].text \in {t} \cup (Text \ Mine)
    <3> TAKE t \in Held'
    <3>1. CASE t = m
      BY <3>1, <2>1, <2>5
    <3>2. CASE t \in Held
      <4>1. /\ msg[t].offset + 1 \in DOMAIN log /\ msg[t].offset + 1 # k /\ t <= typed
            /\ log[msg[t].offset + 1].text \in {t} \cup (Text \ Mine)
        BY <3>2, <2>6 DEF Records
      <4> QED
        BY <4>1, <2>1, <2>3
    <3> QED
      BY <2>2, <3>1, <3>2
  <2>8. \A j \in DOMAIN log' : log'[j].text \in Mine => log'[j].text <= typed'
    BY <2>1, <2>3, <2>4 DEF Records
  <2> QED
    BY <2>1, <2>7, <2>8 DEF Records, Is
<1>6. CASE Save("core")
  <2> DEFINE m == doing["core"].id
             k == msg[m].offset + 1
  <2>1. /\ m \in Text \ Mine
        /\ doing'["ui"] = doing["ui"]
        /\ UNCHANGED <<list, msg, typed>>
    BY <1>6, Saving DEF Thread, Places, memory
  <2>2. Held' = Held
    BY <2>1 DEF Held, Positions
  <2>3. /\ DOMAIN log \subseteq DOMAIN log' /\ Len(log) <= Len(log')
        /\ \A j \in DOMAIN log' :
             \/ j = k /\ log'[j] = RecordOf(m)
             \/ j # k /\ j \in DOMAIN log /\ log'[j] = log[j]
    BY <1>6, Written DEF Thread
  <2>4. RecordOf(m).text = m
    BY DEF RecordOf
  <2>5. \A j \in DOMAIN log' :
           \/ log'[j].text \in Text \ Mine
           \/ j \in DOMAIN log /\ log'[j].text = log[j].text
    BY <2>1, <2>3, <2>4
  <2>6. Is("ui", "save") => msg[doing["ui"].id].offset <= Len(log')
    <3>1. Is("ui", "save") => doing["ui"].id \in Text
      BY <1>0, TextsAreNumbered DEF Places, TypeOK, WorkTypes, Is
    <3>2. Len(log') \in Nat
      BY <1>0 DEF TypeOK, MemoryTypes
    <3> QED
      BY <1>0, <2>3, <3>1, <3>2 DEF Records, TypeOK, MemoryTypes, Header
  <2>7. \A t \in Held' : /\ t <= typed'
                         /\ msg'[t].offset + 1 \in DOMAIN log'
                         /\ log'[msg'[t].offset + 1].text \in {t} \cup (Text \ Mine)
    BY <2>1, <2>2, <2>3, <2>5 DEF Records
  <2>8. \A j \in DOMAIN log' : log'[j].text \in Mine => log'[j].text <= typed'
    BY <2>1, <2>5 DEF Records
  <2> QED
    BY <2>1, <2>2, <2>6, <2>7, <2>8 DEF Records, Is
<1>7. CASE Post
  <2>1. "add" \in Place /\ doing["ui"].id \in Nat /\ 0 \in Nat
    BY DEF TypeOK, WorkTypes, Work, Thread, Place
  <2>2. doing'["ui"].at = "add" /\ doing'["ui"].id = doing["ui"].id
    BY <1>7, <2>1, NowMoves DEF Post, TypeOK, Thread
  <2> QED
    BY <1>1, <1>7, <2>2 DEF Post, memory, Is
<1>8. ASSUME NEW t \in Thread, Add(t) PROVE Records'
  <2>1. /\ doing[t].at = "add" /\ doing'[t].at = "idle"
        /\ \A u \in Thread : u # t => doing'[u] = doing[u]
        /\ UNCHANGED <<msg, log, typed>>
    BY <1>8, Idling DEF Add, Is
  <2>3. Held' \subseteq Held
    BY <1>8, AddingHolds
  <2>4. doing'["ui"] = doing["ui"] \/ doing'["ui"].at = "idle"
    BY <2>1 DEF Thread
  <2>5. doing["ui"].at = "remove" => Held' = {}
    BY <2>3 DEF Records, Is
  <2> QED
    BY <1>0, <2>1, <2>3, <2>4, <2>5, RecordsKept
<1>9. CASE StartQueue \/ EndQueue
  <2>1. "queue" \in Place /\ 1 + Len(list) - Cardinality(Searched) \in Nat /\ 0 \in Nat
    BY SearchedIsPart DEF TypeOK, MemoryTypes, Place
  <2>2. doing'["ui"].at \in {"idle", "queue"}
    BY <1>9, <2>1, Idling, NowMoves DEF StartQueue, EndQueue, TypeOK, Thread
  <2> QED
    BY <1>1, <1>9, <2>2 DEF StartQueue, EndQueue, memory
<1>10. CASE PostNext
  <2>1. PICK i \in Ahead : Now("ui", Step("queue", i + 1, doing["ui"].count + 1))
    BY <1>10 DEF PostNext
  <2>2. i + 1 \in Nat /\ doing["ui"].count + 1 \in Nat /\ "queue" \in Place
    BY <2>1 DEF Ahead, Pending, Positions, TypeOK, MemoryTypes, WorkTypes, Work, Thread, Place
  <2>3. doing'["ui"].at = "queue"
    BY <2>1, <2>2, NowMoves DEF TypeOK, Thread
  <2> QED
    BY <1>1, <1>10, <2>3 DEF PostNext, memory
<1>11. CASE ClearList
  <2>1. "remove" \in Place /\ 0 \in Nat
    BY DEF Place
  <2>2. doing'["ui"].at = "remove"
    BY <1>11, <2>1, NowMoves DEF ClearList, TypeOK, Thread
  <2>3. list' = <<>> /\ UNCHANGED <<msg, log, typed>>
    BY <1>11 DEF ClearList
  <2>4. Held' = {}
    BY <2>2, <2>3 DEF Held, Positions
  <2> QED
    BY <1>0, <2>2, <2>3, <2>4, RecordsKept
<1>12. CASE RemoveLog
  <2>1. /\ doing["ui"].at = "remove" /\ doing'["ui"].at = "idle"
        /\ log' = <<>> /\ UNCHANGED <<list, typed>>
    BY <1>12 DEF RemoveLog, Is, memory, TypeOK, WorkTypes, Work, Thread, Idle, Step
  <2>2. Held' = {}
    BY <2>1, HeldKept DEF Records, Is
  <2> QED
    BY <2>1, <2>2 DEF Records, Is
<1>13. CASE Send
  <2>1. \A t \in Mine : msg'[t].offset = msg[t].offset
    BY <1>13, Sending, TextsAreNumbered
  <2> QED
    BY <1>1, <1>13, <2>1, Sending
<1>14. CASE ChangeLink \/ Deliver
  BY <1>2, <1>14 DEF ChangeLink, Deliver, memory
<1>15. CASE TakeReceipt
  <2>1. doing'["ui"] = doing["ui"]
    BY <1>15 DEF TakeReceipt, Now, TypeOK, WorkTypes, Thread
  <2> QED
    BY <1>1, <1>15, <2>1 DEF TakeReceipt, memory
<1>16. CASE ClearReceipt
  <2>1. doing'["ui"] = doing["ui"] /\ UNCHANGED <<list, typed>>
    BY <1>16, Clearing
  <2>2. \/ msg' = msg /\ log' = log
        \/ \E i \in Positions :
             /\ list[i] \in Held
             /\ msg' = [msg EXCEPT ![list[i]] = [@ EXCEPT !.receipt = Nobody, !.acked = TRUE]]
             /\ log' \in {log, Updated(list[i])}
    BY <1>16, Clearing
  <2>3. CASE msg' = msg /\ log' = log
    BY <1>1, <2>1, <2>3
  <2>4. ASSUME NEW m \in Held,
               msg' = [msg EXCEPT ![m] = [@ EXCEPT !.receipt = Nobody, !.acked = TRUE]],
               log' \in {log, Updated(m)}
        PROVE  Records'
    <3>1. m \in Text
      BY TextsAreNumbered DEF Held
    <3>2. \A t \in Mine : msg'[t].offset = msg[t].offset
      BY <2>4, <3>1, Marked, TextsAreNumbered
    <3>3. /\ DOMAIN log' = DOMAIN log /\ Len(log') = Len(log)
          /\ \A k \in DOMAIN log : log'[k].text = log[k].text
      BY <2>4, <3>1, Marking
    <3>4. Held' \subseteq Held
      BY <2>1, HeldKept
    <3>5. doing["ui"].at = "remove" => Held' = {}
      BY <3>4 DEF Records, Is
    <3> QED
      BY <1>0, <2>1, <3>2, <3>3, <3>4, <3>5, RecordsKept
  <2> QED
    BY <2>2, <2>3, <2>4
<1>17. CASE Restart
  <2>1. /\ \A t \in Text :
             \/ \A i \in DOMAIN list' : list'[i] # t
             \/ \E k \in DOMAIN log : log[k].text = t /\ msg'[t] = RecordedAt(k)
        /\ doing'["ui"].at = "idle" /\ UNCHANGED <<log, typed>>
    BY <1>17, Restarting DEF Thread
  <2>2. \A t \in Held' : t \in Mine /\ t \in Text /\ \E i \in DOMAIN list' : list'[i] = t
    BY <1>0, <2>1, TextsAreNumbered DEF Held, Positions, TypeOK, MemoryTypes
  <2>3. \A k \in DOMAIN log : RecordedAt(k).offset = k - 1 /\ k \in Nat
    BY DEF RecordedAt, TypeOK, MemoryTypes
  <2>4. \A t \in Held' : \E k \in DOMAIN log : log[k].text = t /\ msg'[t].offset + 1 = k
    BY <2>1, <2>2, <2>3
  <2>5. \A t \in Held' : t <= typed
    BY <2>2, <2>4 DEF Records
  <2> QED
    BY <2>1, <2>2, <2>4, <2>5 DEF Records, Is
<1>18. CASE UNCHANGED vars
  BY <1>2, <1>18 DEF vars, memory
<1> QED
  BY <1>3, <1>4, <1>5, <1>6, <1>7, <1>8, <1>9, <1>10, <1>11, <1>12, <1>13, <1>14,
     <1>15, <1>16, <1>17, <1>18, NextCases DEF Thread

\* What keeps Marks: no new mark, in memory or in the log.
LEMMA MarksKept ==
    ASSUME Marks, got \subseteq got',
           \A t \in Mine : msg'[t].acked => t \in got',
           \A k \in DOMAIN log' :
             log'[k].receipt /\ log'[k].text \in Mine =>
               \/ log'[k].text \in got'
               \/ k \in DOMAIN log /\ log[k].receipt /\ log[k].text = log'[k].text
    PROVE  Marks'
  BY DEF Marks

LEMMA MarksInductive ==
    TypeOK /\ Places /\ Numbers /\ Records /\ Marks /\ [Next]_vars => Marks'
<1> SUFFICES ASSUME TypeOK, Places, Numbers, Records, Marks, [Next]_vars PROVE Marks'
  OBVIOUS
<1>1. ASSUME UNCHANGED log, got \subseteq got',
             \A t \in Mine : msg'[t].acked \in {msg[t].acked, FALSE}
      PROVE  Marks'
  <2>1. \A t \in Mine : msg'[t].acked => t \in got'
    BY <1>1 DEF Marks
  <2> QED
    BY <1>1, <2>1, MarksKept
<1>2. ASSUME UNCHANGED <<msg, log, got>> PROVE Marks'
  BY <1>1, <1>2
<1>3. ASSUME NEW t \in Thread, NEW m \in Text, Begin(t, m), UNCHANGED <<log, got>>
      PROVE  Marks'
  <2>1. msg'[m].acked = FALSE /\ \A u \in Text : u # m => msg'[u] = msg[u]
    BY <1>3, Begun DEF Fresh
  <2>2. \A u \in Mine : msg'[u].acked \in {msg[u].acked, FALSE}
    BY <2>1, TextsAreNumbered
  <2> QED
    BY <1>1, <1>3, <2>2
<1>4. CASE Type \/ Arrive
  BY <1>3, <1>4, TypeBegins, ArriveBegins, TextsAreNumbered DEF Thread
<1>5. ASSUME NEW t \in Thread, Save(t) PROVE Marks'
  <2> DEFINE m == doing[t].id
             k == msg[m].offset + 1
  <2>1. UNCHANGED <<msg, got>> /\ m \in Text
    BY <1>5, Saving DEF memory
  <2>2. \A j \in DOMAIN log' :
           \/ j = k /\ log'[j] = RecordOf(m)
           \/ j # k /\ j \in DOMAIN log /\ log'[j] = log[j]
    BY <1>5, Written
  <2>3. RecordOf(m).text = m /\ RecordOf(m).receipt = msg[m].acked
    BY DEF RecordOf
  <2>4. m \in Mine /\ msg[m].acked => m \in got
    BY DEF Marks
  <2>5. \A t1 \in Mine : msg'[t1].acked => t1 \in got'
    BY <2>1 DEF Marks
  <2>6. \A j \in DOMAIN log' :
           log'[j].receipt /\ log'[j].text \in Mine =>
             \/ log'[j].text \in got'
             \/ j \in DOMAIN log /\ log[j].receipt /\ log[j].text = log'[j].text
    BY <2>1, <2>2, <2>3, <2>4
  <2> QED
    BY <2>1, <2>5, <2>6, MarksKept
<1>6. ASSUME NEW t \in Thread, Add(t) PROVE Marks'
  BY <1>2, <1>6 DEF Add, history
<1>7. CASE Post \/ StartQueue \/ PostNext \/ EndQueue \/ ClearList \/ ChangeLink \/ TakeReceipt
  BY <1>2, <1>7 DEF Post, StartQueue, PostNext, EndQueue, ClearList, ChangeLink, TakeReceipt,
                    memory, history
<1>8. CASE RemoveLog
  <2>1. log' = <<>> /\ UNCHANGED <<msg, got>>
    BY <1>8 DEF RemoveLog, memory, history
  <2> QED
    BY <2>1 DEF Marks
<1>9. CASE Send
  <2>1. \A u \in Text : msg'[u] = msg[u] \/ msg'[u].acked = FALSE
    BY <1>9, Sending
  <2> QED
    BY <1>1, <1>9, <2>1, Sending, TextsAreNumbered
<1>10. CASE Deliver
  BY <1>1, <1>10 DEF Deliver, memory
<1>11. CASE ClearReceipt
  <2>1. /\ got' = got
        /\ \/ msg' = msg /\ log' = log
           \/ \E i \in Positions :
                /\ list[i] \in Held /\ list[i] \in got
                /\ msg' = [msg EXCEPT ![list[i]] = [@ EXCEPT !.receipt = Nobody, !.acked = TRUE]]
                /\ log' \in {log, Updated(list[i])}
    BY <1>11, Clearing
  <2>2. CASE msg' = msg /\ log' = log
    BY <1>2, <2>1, <2>2
  <2>3. ASSUME NEW m \in Held, m \in got,
               msg' = [msg EXCEPT ![m] = [@ EXCEPT !.receipt = Nobody, !.acked = TRUE]],
               log' \in {log, Updated(m)}
        PROVE  Marks'
    <3>1. m \in Text /\ m \in Mine
      BY TextsAreNumbered DEF Held
    <3>2. \A t \in Mine : msg'[t].acked => t \in got'
      BY <2>1, <2>3, <3>1, Marked, TextsAreNumbered DEF Marks
    <3>3. /\ DOMAIN log' = DOMAIN log
          /\ \A k \in DOMAIN log : log'[k].text = log[k].text
          /\ \A k \in DOMAIN log :
               k = msg[m].offset + 1 \/ log'[k].receipt = log[k].receipt
      BY <2>3, <3>1, Marking
    <3>4. log[msg[m].offset + 1].text \in {m} \cup (Text \ Mine)
      BY DEF Records
    <3>5. \A k \in DOMAIN log' :
             log'[k].receipt /\ log'[k].text \in Mine =>
               \/ log'[k].text \in got'
               \/ k \in DOMAIN log /\ log[k].receipt /\ log[k].text = log'[k].text
      BY <2>1, <2>3, <3>3, <3>4
    <3> QED
      BY <2>1, <3>2, <3>5, MarksKept
  <2> QED
    BY <2>1, <2>2, <2>3
<1>12. CASE Restart
  <2>1. /\ \A t \in Text :
             \/ msg'[t] = Fresh(0)
             \/ \E k \in DOMAIN log : log[k].text = t /\ msg'[t] = RecordedAt(k)
        /\ UNCHANGED <<log, got>>
    BY <1>12, Restarting
  <2>2. Fresh(0).acked = FALSE /\ \A k : RecordedAt(k).acked = log[k].receipt
    BY DEF Fresh, RecordedAt
  <2>3. \A t \in Mine : msg'[t].acked => t \in got'
    BY <2>1, <2>2, TextsAreNumbered DEF Marks
  <2> QED
    BY <2>1, <2>3, MarksKept
<1>13. CASE UNCHANGED vars
  BY <1>2, <1>13 DEF vars, memory, history
<1> QED
  BY <1>4, <1>5, <1>6, <1>7, <1>8, <1>9, <1>10, <1>11, <1>12, <1>13, NextCases

-----------------------------------------------------------------------------
(* What is saved is held, and where its record is *)

\* message_add takes the oldest entry out of a full list, and frees it.
LEMMA Adding ==
    ASSUME TypeOK, Places, NEW t \in Thread, Add(t)
    PROVE  /\ doing[t].at = "add" /\ doing'[t].at = "idle"
           /\ \A u \in Thread : u # t => doing'[u] = doing[u]
           /\ UNCHANGED <<msg, log, typed, got, garbled>> /\ allocated' \subseteq allocated
           /\ \E i \in 1..Len(list') : list'[i] = doing[t].id
           /\ \A j \in Positions :
                \/ list[j] \notin allocated'
                \/ \E i \in 1..Len(list') : list'[i] = list[j]
<1>1. /\ doing[t].at = "add" /\ doing'[t].at = "idle"
      /\ \A u \in Thread : u # t => doing'[u] = doing[u]
      /\ UNCHANGED <<msg, log, typed, got, garbled>> /\ allocated' \subseteq allocated
  BY Idling DEF Add, Is, history
<1>2. list \in Seq(Text \cup {DayNotice}) /\ Len(list) \in Nat
  BY DEF TypeOK, MemoryTypes
<1>3. doing[t].id \in Text
  BY <1>1, TextsAreNumbered DEF Places, TypeOK, WorkTypes, Thread, Mine, Text
<1>4. CASE Len(list) >= Backlog
  <2>1. PICK s : s = Tail(list)
    OBVIOUS
  <2>2. /\ s \in Seq(Text \cup {DayNotice}) /\ Len(s) = Len(list) - 1
        /\ \A i \in 1..(Len(list) - 1) : s[i] = list[i + 1]
    BY <1>2, <1>4, <2>1, TextsAreNumbered
  <2>3. list' = Append(s, doing[t].id) /\ allocated' = allocated \ {list[1]}
    BY <1>4, <2>1 DEF Add
  <2>4. /\ Len(list') = Len(list) /\ list'[Len(list)] = doing[t].id
        /\ \A i \in 1..(Len(list) - 1) : list'[i] = s[i]
    <3>1. doing[t].id \in Text \cup {DayNotice} /\ Len(s) + 1 = Len(list)
      BY <1>2, <1>3, <2>2
    <3> QED
      BY <2>2, <2>3, <3>1, AppendProperties
  <2>5. ASSUME NEW j \in Positions
        PROVE  \/ list[j] \notin allocated'
               \/ \E i \in 1..Len(list') : list'[i] = list[j]
    <3>1. CASE j = 1
      BY <2>3, <3>1
    <3>2. CASE j # 1
      <4>1. j - 1 \in 1..(Len(list) - 1) /\ j - 1 \in 1..Len(list')
        BY <1>2, <2>4, <2>5, <3>2 DEF Positions
      <4>2. s[j - 1] = list[j]
        BY <1>2, <2>2, <2>5, <4>1 DEF Positions
      <4> QED
        BY <2>4, <4>1, <4>2
    <3> QED
      BY <3>1, <3>2
  <2>6. Len(list) \in 1..Len(list')
    BY <1>2, <1>4, <2>4, TextsAreNumbered
  <2> QED
    BY <1>1, <2>4, <2>5, <2>6
<1>5. CASE ~(Len(list) >= Backlog)
  <2>1. list' = Append(list, doing[t].id)
    BY <1>5 DEF Add
  <2>2. /\ Len(list') = Len(list) + 1 /\ list'[Len(list) + 1] = doing[t].id
        /\ \A i \in Positions : i \in 1..Len(list') /\ list'[i] = list[i]
    BY <1>2, <1>3, <2>1 DEF Positions
  <2> QED
    BY <1>1, <1>2, <2>2
<1> QED
  BY <1>4, <1>5

\* The texts that are loaded are all in the list: of a full one it is the notice
\* of the day that is left out.
LEMMA LoadedAreListed ==
    ASSUME TypeOK, Loaded
    PROVE  \A t \in allocated' : \E i \in 1..Len(list') : list'[i] = t
<1> DEFINE size == IF Len(log) < Backlog THEN Len(log) ELSE Backlog
           from == Len(log) - size
           texts == [i \in 1..size |-> log[from + i].text]
           first == IF log = <<>> THEN <<>> ELSE <<DayNotice>>
           all == first \o texts
<1>1. log \in Seq(Record) /\ Len(log) \in Nat
  BY DEF TypeOK, MemoryTypes
<1>2. /\ size \in 0..Len(log) /\ size <= Backlog
      /\ from \in Nat /\ from + size = Len(log)
  BY <1>1, TextsAreNumbered
<1>3. \A i \in 1..size : from + i \in 1..Len(log) /\ log[from + i] \in Record
  BY <1>1, <1>2
<1>4. texts \in Seq(Text) /\ Len(texts) = size
  <2>1. \A r \in Record : r.text \in Text
    BY DEF Record
  <2>2. \A i \in 1..size : texts[i] \in Text
    BY <1>3, <2>1
  <2>3. size \in Nat /\ texts = [i \in 1..size |-> texts[i]]
    BY <1>2
  <2> HIDE DEF texts, size
  <2> QED
    BY <2>2, <2>3
<1>5. first \in Seq(Text \cup {DayNotice}) /\ Len(first) \in 0..1
  <2>1. <<>> \in Seq(Text \cup {DayNotice}) /\ Len(<<>>) \in 0..1
    BY EmptySeq
  <2>2. <<DayNotice>> \in Seq(Text \cup {DayNotice}) /\ Len(<<DayNotice>>) \in 0..1
    OBVIOUS
  <2>3. first = <<>> \/ first = <<DayNotice>>
    OBVIOUS
  <2> QED
    BY <2>1, <2>2, <2>3
<1>6. list' = Last(Backlog, all) /\ allocated' = {texts[i] : i \in 1..size}
  BY DEF Loaded
<1> HIDE DEF texts, first, size
<1>7. /\ all \in Seq(Text \cup {DayNotice}) /\ Len(all) = Len(first) + size
      /\ \A j \in 1..Len(first) + size :
           all[j] = IF j <= Len(first) THEN first[j] ELSE texts[j - Len(first)]
  <2>1. texts \in Seq(Text \cup {DayNotice})
    BY <1>4, SeqMonotonic
  <2> QED
    BY <1>4, <1>5, <2>1, ConcatProperties
<1> HIDE DEF all
<1> DEFINE start == IF Len(all) > Backlog THEN Len(all) - Backlog + 1 ELSE 1
<1>8. start \in 1..(Len(all) + 1) /\ start <= Len(first) + 1 /\ Len(all) \in Nat
  BY <1>2, <1>5, <1>7, TextsAreNumbered
<1>9. list' = SubSeq(all, start, Len(all))
  BY <1>6 DEF Last
<1> HIDE DEF start
<1>10. \A j \in start..Len(all) :
          j - start + 1 \in 1..Len(list') /\ list'[j - start + 1] = all[j]
  BY <1>7, <1>8, <1>9
<1>11. ASSUME NEW i \in 1..size PROVE \E k \in 1..Len(list') : list'[k] = texts[i]
  <2>1. /\ Len(first) + i \in start..Len(all)
        /\ Len(first) + i \in 1..(Len(first) + size)
        /\ ~(Len(first) + i <= Len(first)) /\ (Len(first) + i) - Len(first) = i
    BY <1>2, <1>5, <1>7, <1>8
  <2>2. all[Len(first) + i] = texts[i]
    BY <1>7, <2>1
  <2> QED
    BY <1>10, <2>1, <2>2
<1> QED
  BY <1>6, <1>11

\* What keeps AllocatedHeld: nothing is allocated, and nothing is let go.
LEMMA AllocatedKept ==
    ASSUME TypeOK, AllocatedHeld, UNCHANGED list,
           \A m \in Mine : m \in allocated' => m \in allocated,
           \/ doing'["ui"] = doing["ui"]
           \/ /\ doing["ui"].at \notin {"save", "post", "add"}
              /\ doing'["ui"].at # "save"
           \/ /\ doing["ui"].at = "post" /\ doing'["ui"].at = "add"
              /\ doing'["ui"].id = doing["ui"].id
    PROVE  AllocatedHeld'
<1> SUFFICES ASSUME NEW m \in Mine, Saved(m)' PROVE m \in Held'
  BY DEF AllocatedHeld
<1>1. Saved(m)
  BY DEF Saved, Is
<1>2. m \in Held
  BY <1>1 DEF AllocatedHeld
<1> QED
  BY <1>2 DEF Held, Positions

LEMMA AllocatedHeldInductive ==
    TypeOK /\ Places /\ AllocatedHeld /\ [Next]_vars => AllocatedHeld'
<1> SUFFICES ASSUME TypeOK, Places, AllocatedHeld, [Next]_vars PROVE AllocatedHeld'
  OBVIOUS
<1>1. list' \in Seq(Text \cup {DayNotice})
  BY TypesInductive DEF TypeOK, MemoryTypes
<1>2. CASE Type
  <2>1. /\ doing["ui"].at = "idle" /\ UNCHANGED list
        /\ allocated' = allocated \cup {typed + 1}
        /\ doing'["ui"].at = "save" /\ doing'["ui"].id = typed + 1
    BY <1>2, TypeBegins, Begun, TextsAreNumbered DEF Begin, Thread
  <2>2. ASSUME NEW m \in Mine, Saved(m)' PROVE Saved(m)
    BY <2>1, <2>2 DEF Saved, Is
  <2>3. \A m \in Held : m \in Held'
    BY <2>1 DEF Held, Positions
  <2> QED
    BY <2>2, <2>3 DEF AllocatedHeld
<1>3. CASE Arrive
  <2>1. /\ doing'["ui"] = doing["ui"] /\ UNCHANGED list
        /\ allocated' = allocated \cup {Own + arrived + 1}
        /\ Own + arrived + 1 \notin Mine
    BY <1>3, ArriveBegins, Begun DEF Begin, Thread
  <2> QED
    BY <2>1, AllocatedKept
<1>4. CASE Save("ui")
  <2>1. /\ doing["ui"].at = "save" /\ doing["ui"].id \in Mine
        /\ doing'["ui"].at = "post" /\ doing'["ui"].id = doing["ui"].id
        /\ UNCHANGED <<list, allocated>>
    <3>1. doing["ui"].at = "save" => doing["ui"].id \in 1..typed
      BY DEF Places
    <3>2. \A i \in 1..typed : i \in Mine
      BY MessageLogAssumption DEF TypeOK, WorkTypes, Mine
    <3> QED
      BY <1>4, <3>1, <3>2, Saving DEF Thread, memory
  <2>2. ASSUME NEW m \in Mine, Saved(m)' PROVE m \in Held'
    <3>1. CASE m = doing["ui"].id
      BY <2>1, <3>1 DEF Held
    <3>2. CASE m # doing["ui"].id
      <4>1. Saved(m)
        BY <2>1, <2>2, <3>2 DEF Saved, Is
      <4>2. m \in Held
        BY <4>1 DEF AllocatedHeld
      <4> QED
        BY <2>1, <4>2 DEF Held, Positions
    <3> QED
      BY <3>1, <3>2
  <2> QED
    BY <2>2 DEF AllocatedHeld
<1>5. CASE Save("core")
  BY <1>5, Saving, AllocatedKept DEF Thread, memory
<1>6. CASE Post
  <2>1. "add" \in Place /\ doing["ui"].id \in Nat /\ 0 \in Nat
    BY DEF TypeOK, WorkTypes, Work, Thread, Place
  <2>2. doing'["ui"].at = "add" /\ doing'["ui"].id = doing["ui"].id
    BY <1>6, <2>1, NowMoves DEF Post, TypeOK, Thread
  <2> QED
    BY <1>6, <2>2, AllocatedKept DEF Post, memory, Is
<1>7. ASSUME NEW t \in Thread, Add(t) PROVE AllocatedHeld'
  <2>1. /\ doing[t].at = "add" /\ doing'[t].at = "idle"
        /\ \A u \in Thread : u # t => doing'[u] = doing[u]
        /\ allocated' \subseteq allocated
        /\ \E i \in 1..Len(list') : list'[i] = doing[t].id
        /\ \A j \in Positions :
             \/ list[j] \notin allocated'
             \/ \E i \in 1..Len(list') : list'[i] = list[j]
    BY <1>7, Adding
  <2>2. ASSUME NEW m \in Mine, Saved(m)' PROVE m \in Held'
    <3>1. Saved(m)
      <4>1. CASE t = "ui"
        BY <2>1, <2>2, <4>1 DEF Saved, Is
      <4>2. CASE t = "core"
        BY <2>1, <2>2, <4>2 DEF Saved, Is, Thread
      <4> QED
        BY <4>1, <4>2 DEF Thread
    <3>2. m \in Held /\ m \in allocated'
      BY <2>2, <3>1 DEF AllocatedHeld, Saved
    <3>3. CASE \E i \in Positions : list[i] = m
      BY <2>1, <3>2, <3>3 DEF Held, Positions
    <3>4. CASE doing["ui"].at \in {"post", "add"} /\ doing["ui"].id = m
      <4>1. CASE t = "ui"
        BY <2>1, <3>4, <4>1 DEF Held, Positions
      <4>2. CASE t = "core"
        BY <2>1, <3>4, <4>2 DEF Held, Thread
      <4> QED
        BY <4>1, <4>2 DEF Thread
    <3> QED
      BY <3>2, <3>3, <3>4 DEF Held
  <2> QED
    BY <2>2 DEF AllocatedHeld
<1>8. CASE StartQueue \/ EndQueue
  <2>1. "queue" \in Place /\ 1 + Len(list) - Cardinality(Searched) \in Nat /\ 0 \in Nat
    BY SearchedIsPart DEF TypeOK, MemoryTypes, Place
  <2>2. doing'["ui"].at \in {"idle", "queue"}
    BY <1>8, <2>1, Idling, NowMoves DEF StartQueue, EndQueue, TypeOK, Thread
  <2> QED
    BY <1>8, <2>2, AllocatedKept DEF StartQueue, EndQueue, memory, Is
<1>9. CASE PostNext
  <2>1. PICK i \in Ahead : Now("ui", Step("queue", i + 1, doing["ui"].count + 1))
    BY <1>9 DEF PostNext
  <2>2. i + 1 \in Nat /\ doing["ui"].count + 1 \in Nat /\ "queue" \in Place
    BY <2>1 DEF Ahead, Pending, Positions, TypeOK, MemoryTypes, WorkTypes, Work, Thread, Place
  <2>3. doing'["ui"].at = "queue"
    BY <2>1, <2>2, NowMoves DEF TypeOK, Thread
  <2> QED
    BY <1>9, <2>3, AllocatedKept DEF PostNext, memory, Is
<1>10. CASE ClearList
  <2>1. /\ doing["ui"].at = "idle"
        /\ allocated' = {t \in allocated : \A i \in Positions : list[i] # t}
    BY <1>10 DEF ClearList, Is
  <2>2. ASSUME NEW m \in Mine, Saved(m)' PROVE FALSE
    <3>1. Saved(m)
      BY <2>1, <2>2 DEF Saved, Is
    <3>2. m \in Held
      BY <3>1 DEF AllocatedHeld
    <3> QED
      BY <2>1, <2>2, <3>2 DEF Held, Saved
  <2> QED
    BY <2>2 DEF AllocatedHeld
<1>11. CASE RemoveLog
  <2>1. /\ doing["ui"].at = "remove" /\ doing'["ui"].at = "idle"
        /\ UNCHANGED <<list, allocated>>
    BY <1>11 DEF RemoveLog, Is, memory, TypeOK, WorkTypes, Work, Thread, Idle, Step
  <2> QED
    BY <2>1, AllocatedKept
<1>12. CASE Send
  BY <1>12, Sending, AllocatedKept
<1>13. CASE ChangeLink \/ Deliver
  BY <1>13, AllocatedKept DEF ChangeLink, Deliver, memory
<1>14. CASE TakeReceipt
  <2>1. doing'["ui"] = doing["ui"]
    BY <1>14 DEF TakeReceipt, Now, TypeOK, WorkTypes, Thread
  <2> QED
    BY <1>14, <2>1, AllocatedKept DEF TakeReceipt, memory
<1>15. CASE ClearReceipt
  <2>1. doing'["ui"] = doing["ui"]
    BY <1>15, Idling DEF ClearReceipt, Thread
  <2> QED
    BY <1>15, <2>1, AllocatedKept DEF ClearReceipt
<1>16. CASE Restart
  <2>1. \A t \in allocated' : \E i \in 1..Len(list') : list'[i] = t
    BY <1>16, LoadedAreListed DEF Restart
  <2> QED
    BY <2>1 DEF AllocatedHeld, Saved, Held, Positions
<1>17. CASE UNCHANGED vars
  BY <1>17, AllocatedKept DEF vars, memory
<1> QED
  BY <1>2, <1>3, <1>4, <1>5, <1>6, <1>7, <1>8, <1>9, <1>10, <1>11, <1>12, <1>13,
     <1>14, <1>15, <1>16, <1>17, NextCases DEF Thread

\* Where no other save came in between, a record goes to the end of the log.
LEMMA Appended ==
    ASSUME TypeOK, Places, NEW t \in Thread, Save(t), ~garbled'
    PROVE  LET m == doing[t].id
               k == msg[m].offset + 1 IN
           /\ ~garbled /\ k \in DOMAIN log'
           /\ log'[k].text = m /\ log'[k].lengths = m
           /\ log'[k].receipt = msg[m].acked
           /\ \A j \in DOMAIN log : j # k /\ j \in DOMAIN log' /\ log'[j] = log[j]
           /\ \A j \in DOMAIN log' : j = k \/ j \in DOMAIN log
<1> DEFINE m == doing[t].id
           r == RecordOf(m)
<1>1. log \in Seq(Record) /\ Len(log) \in Nat /\ m \in Text
  BY Saving DEF TypeOK, MemoryTypes
<1>2. garbled' = (garbled \/ msg[m].offset # Len(log))
  BY DEF Save
<1>3. ~garbled /\ msg[m].offset = Len(log)
  BY <1>2
<1>4. log' = Append(log, r)
  BY <1>3 DEF Save
<1>5. /\ r \in Record /\ r.text = m /\ r.lengths = m /\ r.receipt = msg[m].acked
  BY <1>1 DEF RecordOf, Record, TypeOK, MemoryTypes, Header
<1> HIDE DEF r
<1>6. /\ Len(log) + 1 \in DOMAIN log' /\ log'[Len(log) + 1] = r
      /\ \A j \in DOMAIN log : j # Len(log) + 1 /\ j \in DOMAIN log' /\ log'[j] = log[j]
      /\ \A j \in DOMAIN log' : j = Len(log) + 1 \/ j \in DOMAIN log
  BY <1>1, <1>4, <1>5
<1> QED
  BY <1>3, <1>5, <1>6

\* utox_update_chatlog, where there is a record at the offset.
LEMMA MarkedOnDisk ==
    ASSUME TypeOK, NEW m \in Text, log' = Updated(m), msg[m].offset + 1 \in DOMAIN log
    PROVE  LET k == msg[m].offset + 1 IN
           /\ DOMAIN log' = DOMAIN log
           /\ log'[k].text = log[k].text /\ log'[k].lengths = m /\ log'[k].receipt = TRUE
           /\ \A j \in DOMAIN log : j # k => log'[j] = log[j]
<1> DEFINE k == msg[m].offset + 1
           marked == [log[k] EXCEPT !.receipt = TRUE, !.lengths = m]
<1>1. log \in Seq(Record) /\ log[k] \in Record
  BY DEF TypeOK, MemoryTypes
<1>2. marked.text = log[k].text /\ marked.lengths = m /\ marked.receipt = TRUE
  BY <1>1 DEF Record
<1>3. log' = [log EXCEPT ![k] = marked]
  BY DEF Updated
<1> HIDE DEF marked
<1> QED
  BY <1>1, <1>2, <1>3

\* What keeps LogTrue: no record, no mark and nothing more that is held.
LEMMA TruthKept ==
    ASSUME LogTrue, UNCHANGED <<log, garbled>>, got \subseteq got', Held' \subseteq Held,
           \A t \in Text : msg'[t].acked => msg[t].acked,
           \A t \in Held : msg'[t].offset = msg[t].offset
    PROVE  LogTrue'
<1> SUFFICES ASSUME ~garbled PROVE LogTrue'
  BY DEF LogTrue
<1>1. Held \subseteq Text
  BY TextsAreNumbered DEF Held
<1>2. \A k \in DOMAIN log' : /\ log'[k].lengths = log'[k].text
                             /\ log'[k].receipt => log'[k].text \in got'
  BY DEF LogTrue
<1>3. \A t \in Text : msg'[t].acked => t \in got'
  BY DEF LogTrue
<1>4. ASSUME NEW t \in Held'
      PROVE  /\ log'[msg'[t].offset + 1].text = t
             /\ (msg'[t].acked /\ msg'[t].offset # 0) => log'[msg'[t].offset + 1].receipt
  BY <1>1, <1>4 DEF LogTrue
<1> QED
  BY <1>2, <1>3, <1>4 DEF LogTrue

LEMMA LogTrueInductive ==
    TypeOK /\ Places /\ Numbers /\ Records /\ LogTrue /\ [Next]_vars => LogTrue'
<1> SUFFICES ASSUME TypeOK, Places, Numbers, Records, LogTrue, [Next]_vars PROVE LogTrue'
  OBVIOUS
<1>0. Held \subseteq Text /\ Held \subseteq Mine
  BY TextsAreNumbered DEF Held
<1>1. ASSUME UNCHANGED <<msg, log, garbled>>, got \subseteq got', Held' \subseteq Held
      PROVE  LogTrue'
  BY <1>1, TruthKept
<1>2. CASE Type
  <2>1. /\ typed + 1 \in Text /\ UNCHANGED <<list, log, got, garbled>>
        /\ doing["ui"].at = "idle" /\ doing'["ui"].at = "save"
        /\ msg'[typed + 1] = Fresh(Len(log))
        /\ \A u \in Text : u # typed + 1 => msg'[u] = msg[u]
    BY <1>2, TypeBegins, Begun, TextsAreNumbered DEF Thread, Type, history
  <2>2. Held' \subseteq Held
    BY <2>1, HeldKept
  <2>3. \A t \in Held : t # typed + 1
    <3>1. typed \in Nat
      BY DEF TypeOK, WorkTypes
    <3>2. \A t \in Held : t \in Nat /\ t <= typed
      BY <1>0, TextsAreNumbered DEF Records
    <3> QED
      BY <3>1, <3>2
  <2>4. Fresh(Len(log)).acked = FALSE
    BY DEF Fresh
  <2>5. \A t \in Text : msg'[t].acked => msg[t].acked
    BY <2>1, <2>4
  <2>6. \A t \in Held : msg'[t].offset = msg[t].offset
    BY <1>0, <2>1, <2>3
  <2> QED
    BY <2>1, <2>2, <2>5, <2>6, TruthKept
<1>3. CASE Arrive
  <2>1. PICK m \in Text \ Mine : m = Own + arrived + 1
    BY <1>3, ArriveBegins
  <2>2. /\ UNCHANGED <<list, log, got, garbled>> /\ doing'["ui"] = doing["ui"]
        /\ msg'[m] = Fresh(Len(log))
        /\ \A u \in Text : u # m => msg'[u] = msg[u]
    BY <1>3, <2>1, ArriveBegins, Begun DEF Thread, Arrive, history
  <2>3. Held' \subseteq Held
    BY <2>2, HeldKept
  <2>4. Fresh(Len(log)).acked = FALSE
    BY DEF Fresh
  <2>5. \A t \in Text : msg'[t].acked => msg[t].acked
    BY <2>2, <2>4
  <2>6. \A t \in Held : msg'[t].offset = msg[t].offset
    BY <1>0, <2>1, <2>2
  <2> QED
    BY <2>2, <2>3, <2>5, <2>6, TruthKept
<1>4. ASSUME NEW t \in Thread, Save(t) PROVE LogTrue'
  <2> SUFFICES ASSUME ~garbled' PROVE LogTrue'
    BY DEF LogTrue
  <2>1. PICK m \in Text : m = doing[t].id
    BY <1>4, Saving
  <2>2. PICK k : k = msg[m].offset + 1
    OBVIOUS
  <2>3. /\ ~garbled /\ k \in DOMAIN log'
        /\ log'[k].text = m /\ log'[k].lengths = m
        /\ log'[k].receipt = msg[m].acked
        /\ \A j \in DOMAIN log : j # k /\ j \in DOMAIN log' /\ log'[j] = log[j]
        /\ \A j \in DOMAIN log' : j = k \/ j \in DOMAIN log
    BY <1>4, <2>1, <2>2, Appended
  <2>4. UNCHANGED <<list, msg, got>>
    BY <1>4, Saving DEF memory
  <2>5. Held' \subseteq Held \cup {m}
    <3>1. CASE t = "ui"
      BY <1>4, <2>1, <2>4, <3>1, Saving DEF Held, Positions
    <3>2. CASE t = "core"
      BY <1>4, <2>4, <3>2, Saving DEF Held, Positions, Thread
    <3> QED
      BY <3>1, <3>2 DEF Thread
  <2>6. \A j \in DOMAIN log' : /\ log'[j].lengths = log'[j].text
                               /\ log'[j].receipt => log'[j].text \in got'
    <3> TAKE j \in DOMAIN log'
    <3>1. CASE j = k
      BY <2>1, <2>3, <2>4, <3>1 DEF LogTrue
    <3>2. CASE j \in DOMAIN log
      BY <2>3, <2>4, <3>2 DEF LogTrue
    <3> QED
      BY <2>3, <3>1, <3>2
  <2>7. \A u \in Text : msg'[u].acked => u \in got'
    BY <2>3, <2>4 DEF LogTrue
  <2>8. ASSUME NEW u \in Held'
        PROVE  /\ log'[msg'[u].offset + 1].text = u
               /\ (msg'[u].acked /\ msg'[u].offset # 0) => log'[msg'[u].offset + 1].receipt
    <3>1. CASE u = m
      BY <2>2, <2>3, <2>4, <3>1
    <3>2. CASE u \in Held
      <4>1. msg[u].offset + 1 \in DOMAIN log
        BY <3>2 DEF Records
      <4> QED
        BY <2>3, <2>4, <3>2, <4>1 DEF LogTrue
    <3> QED
      BY <2>5, <3>1, <3>2
  <2> QED
    BY <2>6, <2>7, <2>8 DEF LogTrue
<1>5. CASE Post
  <2>1. "add" \in Place /\ doing["ui"].id \in Nat /\ 0 \in Nat
    BY DEF TypeOK, WorkTypes, Work, Thread, Place
  <2>2. doing'["ui"].at = "add" /\ doing'["ui"].id = doing["ui"].id
    BY <1>5, <2>1, NowMoves DEF Post, TypeOK, Thread
  <2>3. Held' \subseteq Held
    BY <1>5, <2>2, HeldKept DEF Post, memory, Is
  <2> QED
    BY <1>1, <1>5, <2>3 DEF Post, memory
<1>6. ASSUME NEW t \in Thread, Add(t) PROVE LogTrue'
  <2>1. Held' \subseteq Held
    BY <1>6, AddingHolds
  <2> QED
    BY <1>1, <1>6, <2>1, Adding
<1>7. CASE StartQueue \/ EndQueue
  <2>1. "queue" \in Place /\ 1 + Len(list) - Cardinality(Searched) \in Nat /\ 0 \in Nat
    BY SearchedIsPart DEF TypeOK, MemoryTypes, Place
  <2>2. doing'["ui"].at \in {"idle", "queue"}
    BY <1>7, <2>1, Idling, NowMoves DEF StartQueue, EndQueue, TypeOK, Thread
  <2>3. Held' \subseteq Held
    BY <1>7, <2>2, HeldKept DEF StartQueue, EndQueue, memory
  <2> QED
    BY <1>1, <1>7, <2>3 DEF StartQueue, EndQueue, memory, history
<1>8. CASE PostNext
  <2>1. PICK i \in Ahead : Now("ui", Step("queue", i + 1, doing["ui"].count + 1))
    BY <1>8 DEF PostNext
  <2>2. i + 1 \in Nat /\ doing["ui"].count + 1 \in Nat /\ "queue" \in Place
    BY <2>1 DEF Ahead, Pending, Positions, TypeOK, MemoryTypes, WorkTypes, Work, Thread, Place
  <2>3. doing'["ui"].at = "queue"
    BY <2>1, <2>2, NowMoves DEF TypeOK, Thread
  <2>4. Held' \subseteq Held
    BY <1>8, <2>3, HeldKept DEF PostNext, memory
  <2> QED
    BY <1>1, <1>8, <2>4 DEF PostNext, memory
<1>9. CASE ClearList
  <2>1. "remove" \in Place /\ 0 \in Nat
    BY DEF Place
  <2>2. doing'["ui"].at = "remove"
    BY <1>9, <2>1, NowMoves DEF ClearList, TypeOK, Thread
  <2>3. Held' = {}
    BY <1>9, <2>2 DEF ClearList, Held, Positions
  <2> QED
    BY <1>1, <1>9, <2>3 DEF ClearList, history
<1>10. CASE RemoveLog
  <2>1. /\ doing["ui"].at = "remove" /\ doing'["ui"].at = "idle"
        /\ log' = <<>> /\ UNCHANGED <<list, msg, got, garbled>>
    BY <1>10 DEF RemoveLog, Is, memory, history, TypeOK, WorkTypes, Work, Thread, Idle, Step
  <2>2. Held' = {}
    BY <2>1, HeldKept DEF Records, Is
  <2> QED
    BY <2>1, <2>2 DEF LogTrue
<1>11. CASE Send
  <2>1. /\ UNCHANGED <<list, log, doing, got, garbled>>
        /\ \A t \in Text : msg'[t].acked => msg[t].acked
        /\ \A t \in Text : msg'[t].offset = msg[t].offset
    BY <1>11, Sending DEF Send, history
  <2>2. Held' \subseteq Held
    BY <2>1, HeldKept
  <2> QED
    BY <1>0, <2>1, <2>2, TruthKept
<1>12. CASE ChangeLink \/ Deliver
  <2>1. Held' \subseteq Held
    BY <1>12, HeldKept DEF ChangeLink, Deliver, memory
  <2> QED
    BY <1>1, <1>12, <2>1 DEF ChangeLink, Deliver, memory, history
<1>13. CASE TakeReceipt
  <2>1. doing'["ui"] = doing["ui"]
    BY <1>13 DEF TakeReceipt, Now, TypeOK, WorkTypes, Thread
  <2>2. Held' \subseteq Held
    BY <1>13, <2>1, HeldKept DEF TakeReceipt, memory
  <2> QED
    BY <1>1, <1>13, <2>2 DEF TakeReceipt, memory, history
<1>14. CASE ClearReceipt
  <2>1. /\ doing'["ui"] = doing["ui"] /\ UNCHANGED <<list, got, garbled>>
        /\ \/ msg' = msg /\ log' = log
           \/ \E i \in Positions :
                /\ list[i] \in Held /\ list[i] \in got
                /\ msg' = [msg EXCEPT ![list[i]] = [@ EXCEPT !.receipt = Nobody, !.acked = TRUE]]
                /\ log' \in {log, Updated(list[i])}
                /\ msg[list[i]].offset # 0 => log' = Updated(list[i])
    BY <1>14, Clearing DEF ClearReceipt, history
  <2>2. Held' \subseteq Held
    BY <2>1, HeldKept
  <2>3. CASE msg' = msg /\ log' = log
    BY <1>1, <2>1, <2>2, <2>3
  <2>4. ASSUME NEW m \in Held, m \in got,
               msg' = [msg EXCEPT ![m] = [@ EXCEPT !.receipt = Nobody, !.acked = TRUE]],
               log' \in {log, Updated(m)},
               msg[m].offset # 0 => log' = Updated(m)
        PROVE  LogTrue'
    <3> SUFFICES ASSUME ~garbled PROVE LogTrue'
      BY <2>1 DEF LogTrue
    <3>1. /\ msg'[m].offset = msg[m].offset /\ m \in Text
          /\ \A u \in Text : u # m => msg'[u] = msg[u]
      BY <1>0, <2>4, Marked
    <3>2. PICK k : k = msg[m].offset + 1
      OBVIOUS
    <3>3. k \in DOMAIN log /\ log[k].text = m /\ log[k].lengths = m
      BY <3>2 DEF Records, LogTrue
    <3>4. /\ DOMAIN log' = DOMAIN log
          /\ log'[k].text = m /\ log'[k].lengths = m
          /\ msg[m].offset # 0 => log'[k].receipt
          /\ \A j \in DOMAIN log : j # k => log'[j] = log[j]
      <4>1. CASE log' = log /\ msg[m].offset = 0
        BY <3>3, <4>1
      <4>2. CASE log' = Updated(m)
        BY <3>1, <3>2, <3>3, <4>2, MarkedOnDisk
      <4> QED
        BY <2>4, <4>1, <4>2
    <3>5. \A j \in DOMAIN log' : /\ log'[j].lengths = log'[j].text
                                 /\ log'[j].receipt => log'[j].text \in got'
      BY <2>1, <2>4, <3>4 DEF LogTrue
    <3>6. \A u \in Text : msg'[u].acked => u \in got'
      BY <2>1, <2>4, <3>1 DEF LogTrue
    <3>7. ASSUME NEW u \in Held'
          PROVE  /\ log'[msg'[u].offset + 1].text = u
                 /\ (msg'[u].acked /\ msg'[u].offset # 0) => log'[msg'[u].offset + 1].receipt
      <4>1. CASE u = m
        BY <3>1, <3>2, <3>4, <4>1
      <4>2. CASE u # m
        <5>1. u \in Held /\ msg'[u] = msg[u]
          BY <1>0, <2>2, <3>1, <3>7, <4>2
        <5>2. /\ msg[u].offset + 1 \in DOMAIN log /\ log[msg[u].offset + 1].text = u
              /\ (msg[u].acked /\ msg[u].offset # 0) => log[msg[u].offset + 1].receipt
          BY <5>1 DEF Records, LogTrue
        <5>3. log'[msg[u].offset + 1] = log[msg[u].offset + 1]
          BY <3>3, <3>4, <4>2, <5>2
        <5> QED
          BY <5>1, <5>2, <5>3
      <4> QED
        BY <4>1, <4>2
    <3> QED
      BY <3>5, <3>6, <3>7 DEF LogTrue
  <2> QED
    BY <2>1, <2>3, <2>4
<1>15. CASE Restart
  <2> SUFFICES ASSUME ~garbled PROVE LogTrue'
    BY <1>15 DEF LogTrue, Restart, history
  <2>1. /\ \A t \in Text :
             \/ msg'[t] = Fresh(0) /\ \A i \in DOMAIN list' : list'[i] # t
             \/ \E k \in DOMAIN log : log[k].text = t /\ msg'[t] = RecordedAt(k)
        /\ doing'["ui"].at = "idle" /\ UNCHANGED <<log, got>>
    BY <1>15, Restarting DEF Thread
  <2>2. /\ Fresh(0).acked = FALSE
        /\ \A k \in DOMAIN log : /\ RecordedAt(k).acked = log[k].receipt
                                 /\ RecordedAt(k).offset + 1 = k
    BY DEF Fresh, RecordedAt, TypeOK, MemoryTypes
  <2>3. \A t \in Text : msg'[t].acked => t \in got'
    BY <2>1, <2>2 DEF LogTrue
  <2>4. \A t \in Held' : t \in Text /\ \E i \in DOMAIN list' : list'[i] = t
    <3>1. list' \in Seq(Text \cup {DayNotice})
      BY TypesInductive DEF TypeOK, MemoryTypes
    <3> QED
      BY <2>1, <3>1, TextsAreNumbered DEF Held, Positions
  <2>5. ASSUME NEW t \in Held'
        PROVE  /\ log'[msg'[t].offset + 1].text = t
               /\ (msg'[t].acked /\ msg'[t].offset # 0) => log'[msg'[t].offset + 1].receipt
    BY <2>1, <2>2, <2>4, <2>5
  <2>6. \A k \in DOMAIN log' : /\ log'[k].lengths = log'[k].text
                               /\ log'[k].receipt => log'[k].text \in got'
    BY <2>1 DEF LogTrue
  <2> QED
    BY <2>3, <2>5, <2>6 DEF LogTrue
<1>16. CASE UNCHANGED vars
  <2>1. Held' \subseteq Held
    BY <1>16, HeldKept DEF vars, memory
  <2> QED
    BY <1>1, <1>16, <2>1 DEF vars, memory, history
<1> QED
  BY <1>2, <1>3, <1>4, <1>5, <1>6, <1>7, <1>8, <1>9, <1>10, <1>11, <1>12, <1>13,
     <1>14, <1>15, <1>16, NextCases


-----------------------------------------------------------------------------
(* The invariant, and what follows from it *)

MessageInv ==
    TypeOK /\ Places /\ Numbers /\ Records /\ Marks /\ AllocatedHeld /\ LogTrue

LEMMA InvHoldsInitially == Init => MessageInv
<1> SUFFICES ASSUME Init PROVE MessageInv
  OBVIOUS
<1>1. TypeOK /\ Places
  BY TypesHoldInitially
<1>2. \A t \in Text : msg[t] = Fresh(0)
  BY DEF Init
<1>3. list = <<>> /\ log = <<>> /\ number = 0 /\ sent = {} /\ receipts = {}
      /\ \A t \in Thread : doing[t].at = "idle"
  BY DEF Init, Idle, Step
<1>4. Coming = {} /\ Held = {}
  BY <1>3 DEF Coming, Held, Is, Positions, Thread
<1>5. Numbers
  BY <1>2, <1>3, <1>4 DEF Numbers, Fresh
<1>6. Records
  BY <1>3, <1>4 DEF Records, Is, Thread
<1>7. Marks
  BY <1>2, <1>3, TextsAreNumbered DEF Marks, Fresh
<1>8. AllocatedHeld
  BY DEF AllocatedHeld, Saved, Init
<1>9. LogTrue
  BY <1>2, <1>3, <1>4 DEF LogTrue, Fresh
<1> QED
  BY <1>1, <1>5, <1>6, <1>7, <1>8, <1>9 DEF MessageInv

LEMMA InvHolds == Spec => []MessageInv
<1>1. MessageInv /\ [Next]_vars => MessageInv'
  BY TypesInductive, NumbersInductive, RecordsInductive, MarksInductive,
     AllocatedHeldInductive, LogTrueInductive DEF MessageInv
<1> QED
  BY <1>1, InvHoldsInitially, PTL DEF Spec

\* A message that is shown as confirmed has been received by the friend: a
\* receipt finds the message whose packet it is for, and a mark on disk is on
\* the record of a message that was received (messages_clear_receipt).
THEOREM ConfirmedWasReceived == Spec => []MarkedWasReceived
<1>1. MessageInv => MarkedWasReceived
  BY DEF MessageInv, MarkedWasReceived, Marks
<1> QED
  BY <1>1, InvHolds, PTL

\* Unless two saves overlapped, the log is readable and true to what the friend
\* has received, each message of ours is where its disk_offset says, and what is
\* marked in memory is marked there, but for the first record: over restarts,
\* resends and a cleared history (utox_save_chatlog, utox_update_chatlog).
THEOREM LogAlwaysTellsTruth == Spec => []LogTellsTruth
<1>1. MessageInv => LogTellsTruth
  <2> SUFFICES ASSUME MessageInv, ~garbled PROVE LogTellsTruth
    BY DEF LogTellsTruth
  <2>1. \A k \in DOMAIN log : /\ log[k].lengths = log[k].text
                              /\ log[k].receipt => log[k].text \in got
    BY DEF MessageInv, LogTrue
  <2>2. ASSUME NEW m \in Mine, Saved(m)
        PROVE  /\ msg[m].offset < Len(log)
               /\ log[msg[m].offset + 1].text = m
               /\ msg[m].acked /\ msg[m].offset # 0 => log[msg[m].offset + 1].receipt
    <3>1. m \in Held /\ msg[m].offset + 1 \in DOMAIN log
      BY <2>2 DEF MessageInv, AllocatedHeld, Records
    <3>2. msg[m].offset \in Nat /\ log \in Seq(Record)
      BY TextsAreNumbered DEF MessageInv, TypeOK, MemoryTypes, Header
    <3>3. msg[m].offset < Len(log)
      BY <3>1, <3>2
    <3> QED
      BY <3>1, <3>3 DEF MessageInv, LogTrue
  <2> QED
    BY <2>1, <2>2 DEF LogTellsTruth
<1> QED
  BY <1>1, InvHolds, PTL

-----------------------------------------------------------------------------
(* What the friend has not got is looked after *)

\* No text of ours is twice in the list or twice in the log, or is listed or
\* recorded too early; hence message_add frees none that is still listed.
Once ==
    /\ \A i, j \in Positions : list[i] = list[j] /\ list[i] \in Mine => i = j
    /\ \A i \in Positions : list[i] \in Mine => list[i] \in allocated
    /\ doing["ui"].at \in {"save", "post", "add"} =>
         /\ doing["ui"].id \in allocated
         /\ \A i \in Positions : list[i] # doing["ui"].id
    /\ \A k, l \in DOMAIN log : log[k].text = log[l].text /\ log[k].text \in Mine => k = l
    /\ Is("ui", "save") => \A k \in DOMAIN log : log[k].text # doing["ui"].id

\* No two messages bear the same number.
OneBearer ==
    \A t, u \in Text : msg[t].receipt = msg[u].receipt /\ msg[t].receipt > 0 => t = u

\* The queue holds the lock, and has sent at most one message for every
\* entry that it has passed since it started, SeekBack entries back at most.
QueueAdvances ==
    Is("ui", "queue") =>
      /\ lock = "ui"
      /\ doing["ui"].id >= Len(list) - SeekBack + doing["ui"].count

\* The messages of ours that are confirmed, or will be as soon as what is on
\* its way has arrived: what is sent again from the mailbox is not confirmed
\* in between.
Numbered == {p.number : p \in sent} \cup Coming
Sure == {i \in Positions : /\ list[i] \in Mine
                           /\ msg[list[i]].acked \/ msg[list[i]].receipt \in Numbered}

\* The messages of ours that the queue would come to, with these as the
\* confirmed ones.
Stop(i) ==
    \/ Cardinality(After(i, Positions)) >= SeekBack
    \/ i \in Sure /\ Cardinality(After(i, Sure)) >= SeekSkip
Sought == {i \in Positions : list[i] \in Mine /\ \A j \in After(i, Positions) : ~Stop(j)}

OnItsWay(t) ==
    \/ t \in got \cup overwritten
    \/ slot = t
    \/ \E p \in sent : p.text = t

\* While the friend is there, each of them is on its way, or the queue is to
\* start, or has not come to it yet.
LookedAfter == link =>
    /\ \A i \in Sought :
         \/ events > 0
         \/ OnItsWay(list[i])
         \/ Is("ui", "queue") /\ doing["ui"].id <= i
    /\ Is("ui", "add") => events > 0 \/ OnItsWay(doing["ui"].id)

LEMMA ListFacts ==
    ASSUME TypeOK
    PROVE  /\ list \in Seq(Text \cup {DayNotice}) /\ Len(list) \in Nat
           /\ Positions = 1..Len(list)
           /\ log \in Seq(Record) /\ Len(log) \in Nat /\ DOMAIN log = 1..Len(log)
           /\ IsFiniteSet(Positions)
<1>1. list \in Seq(Text \cup {DayNotice}) /\ Len(list) \in Nat /\ Positions = 1..Len(list)
  BY DEF TypeOK, MemoryTypes, Positions
<1>2. log \in Seq(Record) /\ Len(log) \in Nat /\ DOMAIN log = 1..Len(log)
  BY DEF TypeOK, MemoryTypes
<1>3. IsFiniteSet(Positions)
  BY <1>1, FS_Interval
<1> QED
  BY <1>1, <1>2, <1>3

\* The list after message_add: what stays has moved by d.
LEMMA AddingAt ==
    ASSUME TypeOK, Places, NEW t \in Thread, Add(t)
    PROVE  \E d \in {0, 1} :
             /\ Len(list') \in Nat /\ Len(list') >= 1 /\ Len(list') + d = Len(list) + 1
             /\ list'[Len(list')] = doing[t].id
             /\ \A i \in 1..(Len(list') - 1) : i + d \in Positions /\ list'[i] = list[i + d]
             /\ allocated' = IF d = 1 THEN allocated \ {list[1]} ELSE allocated
<1>1. list \in Seq(Text \cup {DayNotice}) /\ Len(list) \in Nat /\ Positions = 1..Len(list)
  BY ListFacts
<1>2. doing[t].id \in Text
  BY Adding, TextsAreNumbered DEF Places, TypeOK, WorkTypes, Thread, Mine, Text
<1>3. doing[t].id \in Text \cup {DayNotice}
  BY <1>2
<1>4. CASE Len(list) >= Backlog
  <2>1. PICK s : s = Tail(list)
    OBVIOUS
  <2>2. /\ s \in Seq(Text \cup {DayNotice}) /\ Len(s) = Len(list) - 1
        /\ \A i \in 1..(Len(list) - 1) : s[i] = list[i + 1]
    BY <1>1, <1>4, <2>1, TextsAreNumbered
  <2>3. list' = Append(s, doing[t].id) /\ allocated' = allocated \ {list[1]}
    BY <1>4, <2>1 DEF Add
  <2>4. Len(s) + 1 = Len(list)
    BY <1>1, <2>2
  <2>5. /\ Len(list') = Len(list) /\ list'[Len(list)] = doing[t].id
        /\ \A i \in 1..(Len(list) - 1) : list'[i] = s[i]
    BY <1>3, <2>2, <2>3, <2>4, AppendProperties
  <2>6. /\ Len(list') \in Nat /\ Len(list') >= 1 /\ Len(list') + 1 = Len(list) + 1
        /\ list'[Len(list')] = doing[t].id
    BY <1>1, <1>4, <2>5, TextsAreNumbered
  <2>7. \A i \in 1..(Len(list') - 1) : i + 1 \in Positions /\ list'[i] = list[i + 1]
    BY <1>1, <2>2, <2>5
  <2> QED
    BY <2>3, <2>6, <2>7
<1>5. CASE ~(Len(list) >= Backlog)
  <2>1. list' = Append(list, doing[t].id) /\ allocated' = allocated
    BY <1>5 DEF Add
  <2>2. /\ Len(list') = Len(list) + 1 /\ list'[Len(list) + 1] = doing[t].id
        /\ \A i \in 1..Len(list) : list'[i] = list[i]
    BY <1>1, <1>3, <2>1, AppendProperties
  <2>3. /\ Len(list') \in Nat /\ Len(list') >= 1 /\ Len(list') + 0 = Len(list) + 1
        /\ list'[Len(list')] = doing[t].id
    BY <1>1, <2>2
  <2>4. \A i \in 1..(Len(list') - 1) : i + 0 \in Positions /\ list'[i] = list[i + 0]
    BY <1>1, <2>2
  <2> QED
    BY <2>1, <2>3, <2>4
<1> QED
  BY <1>4, <1>5

\* The list that is loaded has the end of the log, in its order.
LEMMA LoadedAt ==
    ASSUME TypeOK, Loaded
    PROVE  /\ Len(list') \in Nat
           /\ \A i \in 1..Len(list') : list'[i] # DayNotice =>
                LET k == Len(log) - Len(list') + i IN
                k \in DOMAIN log /\ list'[i] = log[k].text /\ list'[i] \in allocated'
<1> DEFINE size == IF Len(log) < Backlog THEN Len(log) ELSE Backlog
           from == Len(log) - size
           texts == [i \in 1..size |-> log[from + i].text]
           first == IF log = <<>> THEN <<>> ELSE <<DayNotice>>
           all == first \o texts
<1>1. log \in Seq(Record) /\ Len(log) \in Nat /\ DOMAIN log = 1..Len(log)
  BY ListFacts
<1>2. size \in 0..Len(log) /\ from \in Nat /\ from = Len(log) - size
  BY <1>1, TextsAreNumbered
<1>3. \A i \in 1..size : from + i \in 1..Len(log) /\ log[from + i] \in Record
  BY <1>1, <1>2
<1>4. /\ texts \in Seq(Text) /\ Len(texts) = size
      /\ \A i \in 1..size : texts[i] = log[from + i].text
  <2>1. \A r \in Record : r.text \in Text
    BY DEF Record
  <2>2. \A i \in 1..size : texts[i] \in Text /\ texts[i] = log[from + i].text
    BY <1>3, <2>1
  <2>3. size \in Nat /\ texts = [i \in 1..size |-> texts[i]]
    BY <1>2
  <2> HIDE DEF texts, size, from
  <2> QED
    BY <2>2, <2>3
<1>5. /\ first \in Seq(Text \cup {DayNotice}) /\ Len(first) \in 0..1
      /\ \A i \in 1..Len(first) : first[i] = DayNotice
  <2>1. <<>> \in Seq(Text \cup {DayNotice}) /\ Len(<<>>) = 0
    BY EmptySeq
  <2>2. /\ <<DayNotice>> \in Seq(Text \cup {DayNotice}) /\ Len(<<DayNotice>>) = 1
        /\ \A i \in 1..1 : <<DayNotice>>[i] = DayNotice
    OBVIOUS
  <2>3. CASE log = <<>>
    <3>1. first = <<>>
      BY <2>3
    <3> QED
      BY <2>1, <3>1
  <2>4. CASE log # <<>>
    <3>1. first = <<DayNotice>>
      BY <2>4
    <3>2. Len(first) = 1 /\ first \in Seq(Text \cup {DayNotice})
      BY <2>2, <3>1
    <3>3. \A i \in 1..1 : first[i] = DayNotice
      BY <3>1
    <3> HIDE DEF first
    <3> QED
      BY <3>2, <3>3
  <2> QED
    BY <2>3, <2>4
<1>6. list' = Last(Backlog, all) /\ allocated' = {texts[i] : i \in 1..size}
  BY DEF Loaded
<1> HIDE DEF texts, first, size, from
<1>7. /\ all \in Seq(Text \cup {DayNotice}) /\ Len(all) = Len(first) + size
      /\ \A j \in 1..Len(first) + size :
           all[j] = IF j <= Len(first) THEN first[j] ELSE texts[j - Len(first)]
  <2>1. texts \in Seq(Text \cup {DayNotice})
    BY <1>4, SeqMonotonic
  <2> QED
    BY <1>4, <1>5, <2>1, ConcatProperties
<1> HIDE DEF all
<1> DEFINE start == IF Len(all) > Backlog THEN Len(all) - Backlog + 1 ELSE 1
<1>8. start \in 1..(Len(all) + 1) /\ Len(all) \in Nat /\ Len(first) \in Nat /\ size \in Nat
  BY <1>2, <1>5, <1>7, TextsAreNumbered
<1>9. list' = SubSeq(all, start, Len(all))
  BY <1>6 DEF Last
<1> HIDE DEF start
<1>10. /\ Len(list') = Len(all) - start + 1
       /\ \A i \in 1..Len(list') : start + i - 1 \in 1..Len(all) /\ list'[i] = all[start + i - 1]
  <2>1. \A i \in start..Len(all) : all[i] \in Text \cup {DayNotice}
    BY <1>7, <1>8
  <2>2. /\ Len(SubSeq(all, start, Len(all))) = Len(all) - start + 1
        /\ \A i \in 1..(Len(all) - start + 1) :
             SubSeq(all, start, Len(all))[i] = all[start + i - 1]
    BY <1>8, <2>1, SubSeqProperties
  <2>3. \A i \in 1..(Len(all) - start + 1) : start + i - 1 \in 1..Len(all)
    BY <1>8
  <2> QED
    BY <1>9, <2>2, <2>3
<1>11. ASSUME NEW i \in 1..Len(list'), list'[i] # DayNotice
       PROVE  LET k == Len(log) - Len(list') + i IN
              k \in DOMAIN log /\ list'[i] = log[k].text /\ list'[i] \in allocated'
  <2> DEFINE j == start + i - 1
  <2>1. /\ j \in 1..Len(first) + size /\ list'[i] = all[j]
        /\ Len(log) - Len(list') + i = from + (j - Len(first))
    BY <1>1, <1>2, <1>7, <1>8, <1>10
  <2> HIDE DEF j
  <2>2. ~(j <= Len(first))
    BY <1>5, <1>7, <1>8, <1>11, <2>1
  <2>3. j - Len(first) \in 1..size /\ all[j] = texts[j - Len(first)]
    BY <1>7, <1>8, <2>1, <2>2
  <2>4. from + (j - Len(first)) \in DOMAIN log /\ texts[j - Len(first)] \in allocated'
    BY <1>1, <1>3, <1>6, <2>3
  <2> QED
    BY <1>4, <2>1, <2>3, <2>4
<1>12. Len(list') \in Nat
  BY <1>8, <1>10
<1> QED
  BY <1>11, <1>12

\* What keeps Once: nothing is listed, recorded, begun or freed.
LEMMA OnceKept ==
    ASSUME TypeOK, Once, UNCHANGED list, allocated \subseteq allocated',
           DOMAIN log' = DOMAIN log, \A k \in DOMAIN log : log'[k].text = log[k].text,
           \/ doing'["ui"] = doing["ui"]
           \/ doing'["ui"].at \notin {"save", "post", "add"}
           \/ /\ doing["ui"].at = "post" /\ doing'["ui"].at = "add"
              /\ doing'["ui"].id = doing["ui"].id
    PROVE  Once'
<1>1. Positions' = Positions
  BY DEF Positions
<1>2. /\ \A i, j \in Positions : list'[i] = list'[j] /\ list'[i] \in Mine => i = j
      /\ \A i \in Positions : list'[i] \in Mine => list'[i] \in allocated'
  BY DEF Once
<1>3. doing'["ui"].at \in {"save", "post", "add"} =>
        /\ doing'["ui"].id \in allocated'
        /\ \A i \in Positions : list'[i] # doing'["ui"].id
  BY DEF Once
<1>4. \A k, l \in DOMAIN log' : log'[k].text = log'[l].text /\ log'[k].text \in Mine => k = l
  BY DEF Once
<1>5. doing'["ui"].at = "save" => \A k \in DOMAIN log' : log'[k].text # doing'["ui"].id
  BY DEF Once, Is
<1> QED
  BY <1>1, <1>2, <1>3, <1>4, <1>5 DEF Once, Is

LEMMA SaveKeepsOnce ==
    ASSUME TypeOK, Places, Once, NEW t \in Thread, Save(t)
    PROVE  Once'
<1> DEFINE m == doing[t].id
           k == msg[m].offset + 1
<1>1. /\ doing[t].at = "save" /\ m \in Text /\ UNCHANGED <<list, allocated>>
      /\ doing'[t].at = IF m \in Mine THEN "post" ELSE "add"
      /\ doing'[t].id = m /\ \A u \in Thread : u # t => doing'[u] = doing[u]
  BY Saving DEF memory
<1>2. \A j \in DOMAIN log' : \/ j = k /\ log'[j].text = m
                             \/ j # k /\ j \in DOMAIN log /\ log'[j] = log[j]
  BY Written DEF RecordOf
<1> HIDE DEF k, m
<1>3. t = "ui" => m \in Mine
  <2>1. \A i \in 1..typed : i \in Mine
    BY MessageLogAssumption DEF TypeOK, WorkTypes, Mine
  <2> QED
    BY <1>1, <2>1 DEF Places, m
<1>4. t = "core" => m \notin Mine
  BY <1>1 DEF Places, m
<1>5. m \in Mine => \A j \in DOMAIN log : log[j].text # m
  BY <1>1, <1>3, <1>4 DEF Once, Is, Thread, m
<1>6. \A j, l \in DOMAIN log' : log'[j].text = log'[l].text /\ log'[j].text \in Mine => j = l
  BY <1>2, <1>5 DEF Once
<1>7. Positions' = Positions
  BY <1>1 DEF Positions
<1>8. /\ \A i, j \in Positions : list'[i] = list'[j] /\ list'[i] \in Mine => i = j
      /\ \A i \in Positions : list'[i] \in Mine => list'[i] \in allocated'
  BY <1>1 DEF Once
<1>9. CASE t = "ui"
  <2>1. doing["ui"].at = "save" /\ doing'["ui"].at = "post" /\ doing'["ui"].id = doing["ui"].id
    BY <1>1, <1>3, <1>9 DEF m
  <2>2. /\ doing'["ui"].id \in allocated'
        /\ \A i \in Positions : list'[i] # doing'["ui"].id
    BY <1>1, <2>1 DEF Once
  <2> QED
    BY <1>6, <1>7, <1>8, <2>1, <2>2 DEF Once, Is
<1>10. CASE t = "core"
  <2>1. doing'["ui"] = doing["ui"]
    BY <1>1, <1>10 DEF Thread
  <2>2. doing'["ui"].at \in {"save", "post", "add"} =>
          /\ doing'["ui"].id \in allocated'
          /\ \A i \in Positions : list'[i] # doing'["ui"].id
    BY <1>1, <2>1 DEF Once
  <2>3. doing'["ui"].at = "save" => doing'["ui"].id # m
    <3>1. \A i \in 1..typed : i \in Mine
      BY MessageLogAssumption DEF TypeOK, WorkTypes, Mine
    <3> QED
      BY <1>4, <1>10, <2>1, <3>1 DEF Places
  <2>4. doing'["ui"].at = "save" => \A j \in DOMAIN log' : log'[j].text # doing'["ui"].id
    BY <1>2, <2>1, <2>3 DEF Once, Is
  <2> QED
    BY <1>6, <1>7, <1>8, <2>2, <2>4 DEF Once, Is
<1> QED
  BY <1>9, <1>10 DEF Thread

LEMMA AddKeepsOnce ==
    ASSUME TypeOK, TypeOK', Places, Once, NEW t \in Thread, Add(t)
    PROVE  Once'
<1> DEFINE m == doing[t].id
<1>1. PICK d \in {0, 1} :
        /\ Len(list') \in Nat /\ Len(list') >= 1 /\ Len(list') + d = Len(list) + 1
        /\ list'[Len(list')] = m
        /\ \A i \in 1..(Len(list') - 1) : i + d \in Positions /\ list'[i] = list[i + d]
        /\ allocated' = IF d = 1 THEN allocated \ {list[1]} ELSE allocated
  BY AddingAt
<1>2. /\ doing[t].at = "add" /\ doing'[t].at = "idle"
      /\ \A u \in Thread : u # t => doing'[u] = doing[u]
      /\ UNCHANGED log
  BY Adding
<1>3. Positions' = 1..Len(list') /\ Positions = 1..Len(list) /\ Len(list) \in Nat
  BY ListFacts, TypeOK' DEF Positions
<1>4. \/ t = "ui"
      \/ t = "core" /\ m \notin Mine
  BY <1>2 DEF Places, Thread
<1>5. t = "ui" => m \in allocated /\ \A i \in Positions : list[i] # m
  BY <1>2 DEF Once
<1> HIDE DEF m
<1>6. \A i \in 1..Len(list') : i = Len(list') \/ i \in 1..(Len(list') - 1)
  BY <1>1
<1>7. ASSUME NEW i \in 1..Len(list'), NEW j \in 1..Len(list'),
             list'[i] = list'[j], list'[i] \in Mine
      PROVE  i = j
  <2>1. CASE i \in 1..(Len(list') - 1) /\ j \in 1..(Len(list') - 1)
    <3>1. i + d = j + d
      BY <1>1, <1>7, <2>1 DEF Once
    <3> QED
      BY <3>1
  <2>2. CASE i = Len(list') /\ j \in 1..(Len(list') - 1)
    BY <1>1, <1>4, <1>5, <1>7, <2>2
  <2>3. CASE j = Len(list') /\ i \in 1..(Len(list') - 1)
    BY <1>1, <1>4, <1>5, <1>7, <2>3
  <2> QED
    BY <1>6, <2>1, <2>2, <2>3
<1>8. ASSUME NEW i \in 1..Len(list'), list'[i] \in Mine PROVE list'[i] \in allocated'
  <2>1. CASE i \in 1..(Len(list') - 1)
    <3>1. i + d \in Positions /\ list'[i] = list[i + d] /\ list[i + d] \in allocated
      BY <1>1, <1>8, <2>1 DEF Once
    <3>2. d = 1 => list[1] # list[i + d]
      <4>1. d = 1 => 1 \in Positions /\ i + d # 1
        BY <1>1, <1>3, <2>1, <3>1
      <4> QED
        BY <1>8, <3>1, <4>1 DEF Once
    <3> QED
      BY <1>1, <3>1, <3>2
  <2>2. CASE i = Len(list')
    <3>1. t = "ui" /\ list'[i] = m
      BY <1>1, <1>4, <1>8, <2>2
    <3>2. d = 1 => 1 \in Positions
      BY <1>1, <1>3
    <3> QED
      BY <1>1, <1>5, <3>1, <3>2
  <2> QED
    BY <1>6, <2>1, <2>2
<1>9. ASSUME doing'["ui"].at \in {"save", "post", "add"}
      PROVE  /\ doing'["ui"].id \in allocated'
             /\ \A i \in 1..Len(list') : list'[i] # doing'["ui"].id
  <2>1. t = "core" /\ doing'["ui"] = doing["ui"] /\ m \notin Mine
    BY <1>2, <1>4, <1>9 DEF Thread
  <2>2. /\ doing["ui"].id \in allocated
        /\ \A i \in Positions : list[i] # doing["ui"].id
    BY <1>9, <2>1 DEF Once
  <2>3. doing["ui"].id \in Mine
    <3>1. \A i \in 1..typed : i \in Mine
      BY MessageLogAssumption DEF TypeOK, WorkTypes, Mine
    <3> QED
      BY <1>9, <2>1, <3>1 DEF Places
  <2>4. d = 1 => 1 \in Positions
    BY <1>1, <1>3
  <2>5. doing["ui"].id \in allocated'
    BY <1>1, <2>2, <2>4
  <2>6. \A i \in 1..Len(list') : list'[i] # doing["ui"].id
    BY <1>1, <1>6, <2>1, <2>2, <2>3
  <2> QED
    BY <2>1, <2>5, <2>6
<1>10. /\ \A k, l \in DOMAIN log' : log'[k].text = log'[l].text /\ log'[k].text \in Mine => k = l
       /\ doing'["ui"].at = "save" => \A k \in DOMAIN log' : log'[k].text # doing'["ui"].id
  <2>1. doing'["ui"].at = "save" => doing'["ui"] = doing["ui"]
    BY <1>2 DEF Thread
  <2> QED
    BY <1>2, <2>1 DEF Once, Is
<1> QED
  BY <1>3, <1>7, <1>8, <1>9, <1>10 DEF Once, Is

LEMMA LoadKeepsOnce ==
    ASSUME TypeOK, TypeOK', Once, Restart
    PROVE  Once'
<1>1. /\ UNCHANGED log /\ Loaded
      /\ doing'["ui"].at = "idle"
  BY Restarting DEF Restart, Thread
<1>2. /\ Len(list') \in Nat /\ Len(log) \in Nat
      /\ \A i \in 1..Len(list') : list'[i] # DayNotice =>
           /\ Len(log) - Len(list') + i \in DOMAIN log
           /\ list'[i] = log[Len(log) - Len(list') + i].text
           /\ list'[i] \in allocated'
  BY <1>1, LoadedAt, ListFacts
<1>3. DayNotice \notin Mine
  BY TextsAreNumbered DEF DayNotice
<1>4. ASSUME NEW i \in 1..Len(list'), NEW j \in 1..Len(list'),
             list'[i] = list'[j], list'[i] \in Mine
      PROVE  i = j
  <2>1. list'[i] # DayNotice /\ list'[j] # DayNotice
    BY <1>3, <1>4
  <2>2. Len(log) - Len(list') + i = Len(log) - Len(list') + j
    BY <1>2, <1>4, <2>1 DEF Once
  <2> QED
    BY <1>2, <2>2
<1>5. \A i \in 1..Len(list') : list'[i] \in Mine => list'[i] \in allocated'
  BY <1>2, <1>3
<1>6. \A k, l \in DOMAIN log' : log'[k].text = log'[l].text /\ log'[k].text \in Mine => k = l
  BY <1>1 DEF Once
<1> QED
  BY <1>1, <1>4, <1>5, <1>6 DEF Once, Is, Positions

LEMMA OnceInductive ==
    TypeOK /\ Places /\ Numbers /\ Records /\ Once /\ [Next]_vars => Once'
<1> SUFFICES ASSUME TypeOK, Places, Numbers, Records, Once, [Next]_vars PROVE Once'
  OBVIOUS
<1>0. TypeOK'
  BY TypesInductive
<1>1. CASE Type
  <2> DEFINE m == typed + 1
  <2>1. /\ m \in Mine /\ typed \in Nat /\ UNCHANGED <<list, log>>
        /\ allocated' = allocated \cup {m}
        /\ doing'["ui"].at = "save" /\ doing'["ui"].id = m
    BY <1>1, TypeBegins, Begun, TextsAreNumbered DEF Begin, Thread
  <2>2. \A i \in Positions : list[i] # m
    <3>1. \A i \in Positions : list[i] = m => m \in Held
      BY <2>1 DEF Held
    <3>2. m \notin Held
      BY <2>1 DEF Records
    <3> QED
      BY <3>1, <3>2
  <2>3. \A k \in DOMAIN log : log[k].text # m
    BY <2>1 DEF Records
  <2> HIDE DEF m
  <2>4. Positions' = Positions
    BY <2>1 DEF Positions
  <2>5. /\ \A i, j \in Positions : list'[i] = list'[j] /\ list'[i] \in Mine => i = j
        /\ \A i \in Positions : list'[i] \in Mine => list'[i] \in allocated'
    BY <2>1 DEF Once
  <2>6. \A k, l \in DOMAIN log' : log'[k].text = log'[l].text /\ log'[k].text \in Mine => k = l
    BY <2>1 DEF Once
  <2> QED
    BY <2>1, <2>2, <2>3, <2>4, <2>5, <2>6 DEF Once, Is
<1>2. CASE Arrive
  <2>1. /\ doing'["ui"] = doing["ui"] /\ UNCHANGED <<list, log>>
        /\ allocated \subseteq allocated'
    BY <1>2, ArriveBegins, Begun DEF Begin, Thread
  <2> QED
    BY <2>1, OnceKept
<1>3. ASSUME NEW t \in Thread, Save(t) PROVE Once'
  BY <1>3, SaveKeepsOnce
<1>4. ASSUME NEW t \in Thread, Add(t) PROVE Once'
  BY <1>0, <1>4, AddKeepsOnce
<1>5. CASE Post
  <2>1. "add" \in Place /\ doing["ui"].id \in Nat /\ 0 \in Nat
    BY DEF TypeOK, WorkTypes, Work, Thread, Place
  <2>2. doing'["ui"].at = "add" /\ doing'["ui"].id = doing["ui"].id
    BY <1>5, <2>1, NowMoves DEF Post, TypeOK, Thread
  <2> QED
    BY <1>5, <2>2, OnceKept DEF Post, memory, Is
<1>6. CASE StartQueue \/ EndQueue
  <2>1. "queue" \in Place /\ 1 + Len(list) - Cardinality(Searched) \in Nat /\ 0 \in Nat
    BY SearchedIsPart DEF TypeOK, MemoryTypes, Place
  <2>2. doing'["ui"].at \in {"idle", "queue"}
    BY <1>6, <2>1, Idling, NowMoves DEF StartQueue, EndQueue, TypeOK, Thread
  <2> QED
    BY <1>6, <2>2, OnceKept DEF StartQueue, EndQueue, memory
<1>7. CASE PostNext
  <2>1. PICK i \in Ahead : Now("ui", Step("queue", i + 1, doing["ui"].count + 1))
    BY <1>7 DEF PostNext
  <2>2. i + 1 \in Nat /\ doing["ui"].count + 1 \in Nat /\ "queue" \in Place
    BY <2>1 DEF Ahead, Pending, Positions, TypeOK, MemoryTypes, WorkTypes, Work, Thread, Place
  <2>3. doing'["ui"].at = "queue"
    BY <2>1, <2>2, NowMoves DEF TypeOK, Thread
  <2> QED
    BY <1>7, <2>3, OnceKept DEF PostNext, memory
<1>8. CASE ClearList
  <2>1. list' = <<>> /\ UNCHANGED log /\ doing'["ui"].at = "remove"
    <3>1. "remove" \in Place /\ 0 \in Nat
      BY DEF Place
    <3> QED
      BY <1>8, <3>1, NowMoves DEF ClearList, TypeOK, Thread
  <2>2. Positions' = {}
    BY <2>1 DEF Positions
  <2> QED
    BY <2>1, <2>2 DEF Once, Is
<1>9. CASE RemoveLog
  <2>1. /\ doing'["ui"].at = "idle" /\ UNCHANGED <<list, allocated>> /\ log' = <<>>
    BY <1>9 DEF RemoveLog, Is, memory, TypeOK, WorkTypes, Work, Thread, Idle, Step
  <2>2. DOMAIN log' = {} /\ Positions' = Positions
    BY <2>1 DEF Positions
  <2>3. /\ \A i, j \in Positions : list'[i] = list'[j] /\ list'[i] \in Mine => i = j
        /\ \A i \in Positions : list'[i] \in Mine => list'[i] \in allocated'
    BY <2>1 DEF Once
  <2> QED
    BY <2>1, <2>2, <2>3 DEF Once, Is
<1>10. CASE Send
  BY <1>10, Sending, OnceKept
<1>11. CASE ChangeLink \/ Deliver
  BY <1>11, OnceKept DEF ChangeLink, Deliver, memory
<1>12. CASE TakeReceipt
  <2>1. doing'["ui"] = doing["ui"]
    BY <1>12 DEF TakeReceipt, Now, TypeOK, WorkTypes, Thread
  <2> QED
    BY <1>12, <2>1, OnceKept DEF TakeReceipt, memory
<1>13. CASE ClearReceipt
  <2>1. doing'["ui"] = doing["ui"] /\ UNCHANGED <<list, allocated>>
    BY <1>13, Clearing
  <2>2. DOMAIN log' = DOMAIN log /\ \A k \in DOMAIN log : log'[k].text = log[k].text
    <3>1. log' = log \/ \E i \in Positions : list[i] \in Held /\ log' \in {log, Updated(list[i])}
      BY <1>13, Clearing
    <3>2. Held \subseteq Text
      BY TextsAreNumbered DEF Held
    <3> QED
      BY <3>1, <3>2, Marking
  <2> QED
    BY <2>1, <2>2, OnceKept
<1>14. CASE Restart
  BY <1>0, <1>14, LoadKeepsOnce
<1>15. CASE UNCHANGED vars
  BY <1>15, OnceKept DEF vars, memory
<1> QED
  BY <1>1, <1>2, <1>3, <1>4, <1>5, <1>6, <1>7, <1>8, <1>9, <1>10, <1>11, <1>12, <1>13,
     <1>14, <1>15, NextCases DEF Thread

LEMMA OneBearerKept ==
    ASSUME TypeOK, OneBearer,
           \A t \in Text : msg'[t].receipt \in {msg[t].receipt, 0, Nobody}
    PROVE  OneBearer'
<1>1. \A t \in Text : msg'[t].receipt > 0 => msg'[t].receipt = msg[t].receipt
  BY DEF Nobody
<1> QED
  BY <1>1 DEF OneBearer

LEMMA OneBearerInductive ==
    TypeOK /\ Places /\ Numbers /\ OneBearer /\ [Next]_vars => OneBearer'
<1> SUFFICES ASSUME TypeOK, Places, Numbers, OneBearer, [Next]_vars PROVE OneBearer'
  OBVIOUS
<1>1. CASE msg' = msg
  BY <1>1, OneBearerKept
<1>2. ASSUME NEW t \in Thread, NEW m \in Text, Begin(t, m) PROVE OneBearer'
  <2>1. \A u \in Text : msg'[u].receipt \in {msg[u].receipt, 0, Nobody}
    BY <1>2, Begun DEF Fresh
  <2> QED
    BY <2>1, OneBearerKept
<1>3. CASE Type \/ Arrive
  BY <1>2, <1>3, TypeBegins, ArriveBegins, TextsAreNumbered DEF Thread
<1>4. CASE Send
  <2>1. number \in Nat /\ \A t \in Text : msg[t].receipt \in Int /\ msg[t].receipt <= number
    BY DEF TypeOK, NetworkTypes, MemoryTypes, Header, Numbers
  <2>2. \A t \in Text : \/ msg'[t].receipt = msg[t].receipt
                        \/ t = slot /\ msg'[t].receipt = IF link THEN number + 1 ELSE 0
    BY <1>4, Sending
  <2>3. ASSUME NEW t \in Text, NEW u \in Text,
               msg'[t].receipt = msg'[u].receipt, msg'[t].receipt > 0
        PROVE  t = u
    <3>1. CASE msg'[t].receipt = number + 1
      <4>1. msg'[t].receipt # msg[t].receipt /\ msg'[u].receipt # msg[u].receipt
        BY <2>1, <2>3, <3>1
      <4> QED
        BY <2>2, <4>1
    <3>2. CASE msg'[t].receipt # number + 1
      <4>1. msg'[t].receipt = msg[t].receipt /\ msg'[u].receipt = msg[u].receipt
        BY <2>1, <2>2, <2>3, <3>2
      <4> QED
        BY <2>3, <4>1 DEF OneBearer
    <3> QED
      BY <3>1, <3>2
  <2> QED
    BY <2>3 DEF OneBearer
<1>5. CASE ClearReceipt
  <2>1. CASE msg' = msg
    BY <1>1, <2>1
  <2>2. ASSUME NEW i \in Positions, list[i] \in Held,
               msg' = [msg EXCEPT ![list[i]] = [@ EXCEPT !.receipt = Nobody, !.acked = TRUE]]
        PROVE  OneBearer'
    <3>1. list[i] \in Text
      BY <2>2, TextsAreNumbered DEF Held
    <3>2. \A u \in Text : msg'[u].receipt \in {msg[u].receipt, 0, Nobody}
      BY <2>2, <3>1, Marked
    <3> QED
      BY <3>2, OneBearerKept
  <2> QED
    BY <1>5, <2>1, <2>2, Clearing
<1>6. CASE Restart
  <2>1. \A t \in Text : msg'[t].receipt = 0
    <3>1. Fresh(0).receipt = 0 /\ \A k : RecordedAt(k).receipt = 0
      BY DEF Fresh, RecordedAt
    <3>2. \A t \in Text : \/ msg'[t] = Fresh(0)
                           \/ \E k \in DOMAIN log : msg'[t] = RecordedAt(k)
      BY <1>6, Restarting
    <3> QED
      BY <3>1, <3>2
  <2> QED
    BY <2>1 DEF OneBearer
<1>7. (\E t \in Thread : Save(t) \/ Add(t)) => msg' = msg
  BY DEF Save, Add, memory
<1>8. StartQueue \/ PostNext \/ EndQueue \/ Post \/ ClearList \/ RemoveLog => msg' = msg
  BY DEF StartQueue, PostNext, EndQueue, Post, ClearList, RemoveLog, memory
<1>9. ChangeLink \/ Deliver \/ TakeReceipt \/ UNCHANGED vars => msg' = msg
  BY DEF ChangeLink, Deliver, TakeReceipt, memory, vars
<1> QED
  BY <1>1, <1>3, <1>4, <1>5, <1>6, <1>7, <1>8, <1>9, NextCases

-----------------------------------------------------------------------------
\* The queue

LEMMA CountAfter ==
    ASSUME NEW n \in Nat, NEW i \in 1..n
    PROVE  Cardinality(After(i, 1..n)) = n - i
<1>1. After(i, 1..n) = (i + 1)..n
  BY DEF After
<1>2. Cardinality((i + 1)..n) = IF i + 1 > n THEN 0 ELSE n - (i + 1) + 1
  BY FS_Interval
<1> QED
  BY <1>1, <1>2

\* The entries that the queue finds by looking back: the end of the list, and
\* no more than SeekBack of them and one.
LEMMA SearchedFrom ==
    ASSUME TypeOK
    PROVE  /\ Cardinality(Searched) \in Nat /\ Cardinality(Searched) <= SeekBack + 1
           /\ \A i \in Searched : i >= 1 + Len(list) - Cardinality(Searched)
<1> DEFINE n == Len(list)
<1>1. n \in Nat /\ Positions = 1..n /\ SeekBack \in Nat
  BY ListFacts, MessageLogAssumption
<1>2. Cardinality(Searched) \in 0..n
  BY SearchedIsPart, ListFacts
<1>3. Searched \subseteq 1..n /\ IsFiniteSet(Searched)
  <2>1. Searched \in SUBSET (1..n) /\ IsFiniteSet(1..n)
    BY <1>1, FS_Interval DEF Searched
  <2> QED
    BY <2>1, FS_Subset
<1>4. \A i \in Searched : i >= n - SeekBack
  <2> SUFFICES ASSUME NEW i \in Searched, i < n - SeekBack PROVE FALSE
    BY <1>1, <1>3
  <2>1. i \in 1..n /\ i + 1 \in 1..n /\ i + 1 \in After(i, Positions)
    BY <1>1, <1>3 DEF After
  <2>2. Cardinality(After(i + 1, Positions)) = n - (i + 1)
    BY <1>1, <2>1, CountAfter
  <2>3. n - (i + 1) >= SeekBack
    BY <1>1, <2>1
  <2> QED
    BY <2>1, <2>2, <2>3 DEF Searched, Barrier
<1>5. Cardinality(Searched) <= SeekBack + 1
  <2> DEFINE low == n - SeekBack
  <2>1. low \in Int /\ Searched \in SUBSET (low..n)
    BY <1>1, <1>3, <1>4
  <2>2. IsFiniteSet(low..n) /\ Cardinality(low..n) = IF low > n THEN 0 ELSE n - low + 1
    BY <1>1, <2>1, FS_Interval
  <2>3. Cardinality(Searched) <= Cardinality(low..n)
    BY <2>1, <2>2, FS_Subset
  <2>4. Cardinality(low..n) = SeekBack + 1
    BY <1>1, <2>2
  <2> QED
    BY <2>3, <2>4
<1>6. ASSUME NEW i \in Searched PROVE i >= 1 + n - Cardinality(Searched)
  <2>1. i \in 1..n
    BY <1>3
  <2>2. \A j \in i..n : j \in Searched
    BY <1>1, <2>1 DEF Searched, After
  <2>3. i..n \in SUBSET Searched
    BY <2>2
  <2>4. Cardinality(i..n) <= Cardinality(Searched)
    BY <1>3, <2>3, FS_Subset
  <2>5. Cardinality(i..n) = n - i + 1
    <3>1. Cardinality(i..n) = IF i > n THEN 0 ELSE n - i + 1
      BY <1>1, <2>1, FS_Interval
    <3> QED
      BY <1>1, <2>1, <3>1
  <2> QED
    BY <1>1, <1>2, <2>1, <2>4, <2>5
<1> QED
  BY <1>2, <1>5, <1>6

LEMMA QueueStarts ==
    ASSUME TypeOK, StartQueue
    PROVE  /\ doing'["ui"].at = "queue" /\ doing'["ui"].count = 0
           /\ doing'["ui"].id = 1 + Len(list) - Cardinality(Searched)
           /\ doing'["core"] = doing["core"]
           /\ doing["ui"].at = "idle" /\ lock' = "ui"
           /\ UNCHANGED <<memory, log, slot, network, got, overwritten>>
<1>1. "queue" \in Place /\ 1 + Len(list) - Cardinality(Searched) \in Nat /\ 0 \in Nat
  BY SearchedIsPart DEF TypeOK, MemoryTypes, Place
<1>2. Now("ui", Step("queue", 1 + Len(list) - Cardinality(Searched), 0))
  BY DEF StartQueue
<1>3. /\ doing'["ui"].at = "queue" /\ doing'["ui"].count = 0
      /\ doing'["ui"].id = 1 + Len(list) - Cardinality(Searched)
      /\ doing'["core"] = doing["core"]
  BY <1>1, <1>2, NowMoves DEF TypeOK, Thread
<1>4. /\ doing["ui"].at = "idle" /\ lock' = "ui"
      /\ UNCHANGED <<memory, log, slot, network, got, overwritten>>
  BY DEF StartQueue, Is, history
<1> QED
  BY <1>3, <1>4

LEMMA QueuePosts ==
    ASSUME TypeOK, PostNext
    PROVE  \E i \in Ahead :
             /\ \A j \in Ahead : i <= j
             /\ Put(list[i])
             /\ doing'["ui"].at = "queue" /\ doing'["ui"].id = i + 1
             /\ doing'["ui"].count = doing["ui"].count + 1
             /\ doing'["core"] = doing["core"] /\ doing["ui"].at = "queue"
             /\ UNCHANGED <<memory, log, lock, events, network, got>>
<1>1. PICK i \in Ahead : /\ \A j \in Ahead : i <= j
                         /\ Put(list[i])
                         /\ Now("ui", Step("queue", i + 1, doing["ui"].count + 1))
  BY DEF PostNext
<1>2. i + 1 \in Nat /\ doing["ui"].count + 1 \in Nat /\ "queue" \in Place
  BY DEF Ahead, Pending, Positions, TypeOK, MemoryTypes, WorkTypes, Work, Thread, Place
<1>3. /\ doing'["ui"].at = "queue" /\ doing'["ui"].id = i + 1
      /\ doing'["ui"].count = doing["ui"].count + 1
      /\ doing'["core"] = doing["core"]
  BY <1>1, <1>2, NowMoves DEF TypeOK, Thread
<1>4. doing["ui"].at = "queue" /\ UNCHANGED <<memory, log, lock, events, network, got>>
  BY DEF PostNext, Is
<1> QED
  BY <1>1, <1>3, <1>4

LEMMA QueueKept ==
    ASSUME QueueAdvances,
           \/ doing'["ui"].at # "queue"
           \/ doing'["ui"] = doing["ui"] /\ UNCHANGED <<list, lock>>
    PROVE  QueueAdvances'
  BY DEF QueueAdvances, Is

LEMMA QueueInductive ==
    TypeOK /\ Places /\ QueueAdvances /\ [Next]_vars => QueueAdvances'
<1> SUFFICES ASSUME TypeOK, Places, QueueAdvances, [Next]_vars PROVE QueueAdvances'
  OBVIOUS
<1>1. CASE Type
  <2>1. doing'["ui"].at = "save"
    BY <1>1, TypeBegins, Begun, TextsAreNumbered DEF Thread
  <2> QED
    BY <2>1, QueueKept
<1>2. CASE Arrive
  <2>1. doing'["ui"] = doing["ui"] /\ UNCHANGED list
    BY <1>2, ArriveBegins, Begun DEF Thread
  <2> QED
    BY <1>2, <2>1, QueueKept DEF Arrive
<1>3. ASSUME NEW t \in Thread, Save(t) PROVE QueueAdvances'
  <2>1. UNCHANGED <<list, lock>>
    BY <1>3 DEF Save, memory
  <2>2. CASE t = "core"
    <3>1. doing'["ui"] = doing["ui"]
      BY <1>3, <2>2, Saving DEF Thread
    <3> QED
      BY <2>1, <3>1, QueueKept
  <2>3. CASE t = "ui"
    <3>1. doing'["ui"].at \in {"post", "add"}
      BY <1>3, <2>3, Saving DEF Thread
    <3> QED
      BY <3>1, QueueKept
  <2> QED
    BY <2>2, <2>3 DEF Thread
<1>4. ASSUME NEW t \in Thread, Add(t) PROVE QueueAdvances'
  <2>1. lock = "none"
    BY <1>4 DEF Add
  <2>2. doing["ui"].at # "queue"
    BY <2>1 DEF QueueAdvances, Is
  <2>3. doing'["ui"].at # "queue"
    <3>1. /\ doing'[t].at = "idle"
          /\ \A u \in Thread : u # t => doing'[u] = doing[u]
      BY <1>4, Adding
    <3> QED
      BY <2>2, <3>1 DEF Thread
  <2> QED
    BY <2>3, QueueKept
<1>5. CASE Post
  <2>1. "add" \in Place /\ doing["ui"].id \in Nat /\ 0 \in Nat
    BY DEF TypeOK, WorkTypes, Work, Thread, Place
  <2>2. doing'["ui"].at = "add"
    BY <1>5, <2>1, NowMoves DEF Post, TypeOK, Thread
  <2> QED
    BY <2>2, QueueKept
<1>6. CASE StartQueue
  <2>1. Cardinality(Searched) \in Nat /\ Cardinality(Searched) <= SeekBack + 1
    BY SearchedFrom
  <2>2. Len(list) \in Nat /\ SeekBack \in Nat
    BY ListFacts, MessageLogAssumption
  <2>3. 1 + Len(list) - Cardinality(Searched) >= Len(list) - SeekBack + 0
    BY <2>1, <2>2
  <2>4. list' = list
    BY <1>6, QueueStarts DEF memory
  <2> QED
    BY <1>6, <2>3, <2>4, QueueStarts DEF QueueAdvances
<1>7. CASE PostNext
  <2>1. PICK i \in Ahead :
          /\ doing'["ui"].at = "queue" /\ doing'["ui"].id = i + 1
          /\ doing'["ui"].count = doing["ui"].count + 1
          /\ doing["ui"].at = "queue" /\ UNCHANGED <<memory, lock>>
    BY <1>7, QueuePosts
  <2>2. i \in Nat /\ i >= doing["ui"].id
    BY ListFacts DEF Ahead, Pending
  <2>3. /\ doing["ui"].id \in Nat /\ doing["ui"].count \in Nat
        /\ Len(list) \in Nat /\ SeekBack \in Nat
    BY ListFacts, MessageLogAssumption DEF TypeOK, WorkTypes, Work, Thread
  <2>4. lock = "ui" /\ doing["ui"].id >= Len(list) - SeekBack + doing["ui"].count
    BY <2>1 DEF QueueAdvances, Is
  <2>5. i + 1 >= Len(list) - SeekBack + (doing["ui"].count + 1)
    BY <2>2, <2>3, <2>4
  <2>6. list' = list /\ lock' = "ui"
    BY <2>1, <2>4 DEF memory
  <2> QED
    BY <2>1, <2>5, <2>6 DEF QueueAdvances
<1>8. CASE EndQueue
  <2>1. doing'["ui"].at = "idle"
    BY <1>8, Idling DEF EndQueue, Thread
  <2> QED
    BY <2>1, QueueKept
<1>9. CASE ClearList
  <2>1. "remove" \in Place /\ 0 \in Nat
    BY DEF Place
  <2>2. doing'["ui"].at = "remove"
    BY <1>9, <2>1, NowMoves DEF ClearList, TypeOK, Thread
  <2> QED
    BY <2>2, QueueKept
<1>10. CASE RemoveLog
  <2>1. doing'["ui"].at = "idle"
    BY <1>10 DEF RemoveLog, TypeOK, WorkTypes, Work, Thread, Idle, Step
  <2> QED
    BY <2>1, QueueKept
<1>11. CASE Send \/ ChangeLink \/ Deliver
  <2>1. UNCHANGED <<doing, list, lock>>
    BY <1>11 DEF Send, ChangeLink, Deliver, memory
  <2> QED
    BY <2>1, QueueKept
<1>12. CASE TakeReceipt
  <2>1. doing'["ui"] = doing["ui"]
    BY <1>12 DEF TakeReceipt, Now, TypeOK, WorkTypes, Thread
  <2> QED
    BY <1>12, <2>1, QueueKept DEF TakeReceipt, memory
<1>13. CASE ClearReceipt
  <2>1. doing'["ui"] = doing["ui"]
    BY <1>13, Idling DEF ClearReceipt, Thread
  <2> QED
    BY <1>13, <2>1, QueueKept DEF ClearReceipt
<1>14. CASE Restart
  <2>1. doing'["ui"].at = "idle"
    BY <1>14, Restarting DEF Thread
  <2> QED
    BY <2>1, QueueKept
<1>15. CASE UNCHANGED vars
  BY <1>15, QueueKept DEF vars, memory
<1> QED
  BY <1>1, <1>2, <1>3, <1>4, <1>5, <1>6, <1>7, <1>8, <1>9, <1>10, <1>11, <1>12, <1>13,
     <1>14, <1>15, NextCases DEF Thread

-----------------------------------------------------------------------------
\* What is looked after stays so

LEMMA SureFinite ==
    ASSUME TypeOK
    PROVE  \A i : /\ IsFiniteSet(After(i, Sure)) /\ Cardinality(After(i, Sure)) \in Nat
                  /\ IsFiniteSet(After(i, Confirmed)) /\ Cardinality(After(i, Confirmed)) \in Nat
                  /\ After(i, Confirmed) \in SUBSET After(i, Sure)
<1> TAKE i
<1>1. IsFiniteSet(Positions)
  BY ListFacts
<1>2. After(i, Sure) \in SUBSET Positions /\ After(i, Confirmed) \in SUBSET Positions
  BY DEF After, Sure, Confirmed
<1>3. IsFiniteSet(After(i, Sure)) /\ IsFiniteSet(After(i, Confirmed))
  BY <1>1, <1>2, FS_Subset
<1>4. After(i, Confirmed) \in SUBSET After(i, Sure)
  BY DEF After, Sure, Confirmed
<1> QED
  BY <1>3, <1>4, FS_CardinalityType

\* The queue finds all that is sought.
LEMMA SoughtIsSearched ==
    ASSUME TypeOK
    PROVE  Sought \subseteq Searched
<1> SUFFICES ASSUME NEW i \in Sought, NEW j \in After(i, Positions), Barrier(j) PROVE FALSE
  BY DEF Sought, Searched
<1>1. ~Stop(j)
  BY DEF Sought
<1>2. j \in Confirmed /\ Cardinality(After(j, Confirmed)) >= SeekSkip
  BY <1>1 DEF Stop, Barrier
<1>3. j \in Sure
  BY <1>2 DEF Sure, Confirmed
<1>4. Cardinality(After(j, Confirmed)) <= Cardinality(After(j, Sure))
  BY SureFinite, FS_Subset
<1>5. /\ Cardinality(After(j, Confirmed)) \in Nat /\ Cardinality(After(j, Sure)) \in Nat
      /\ SeekSkip \in Nat
  BY SureFinite, MessageLogAssumption
<1>6. Cardinality(After(j, Sure)) >= SeekSkip
  BY <1>2, <1>4, <1>5
<1> QED
  BY <1>1, <1>3, <1>6 DEF Stop

LEMMA SoughtShrinks ==
    ASSUME TypeOK, TypeOK', UNCHANGED list, Sure \subseteq Sure'
    PROVE  Sought' \subseteq Sought
<1>1. Positions' = Positions
  BY DEF Positions
<1> SUFFICES ASSUME NEW i \in Sought', NEW j \in After(i, Positions), Stop(j) PROVE FALSE
  BY <1>1 DEF Sought
<1>2. ~Stop(j)' /\ After(j, Positions)' = After(j, Positions)
  BY <1>1 DEF Sought, After
<1>3. ~(Cardinality(After(j, Positions)) >= SeekBack)
  BY <1>2 DEF Stop
<1>4. j \in Sure /\ Cardinality(After(j, Sure)) >= SeekSkip
  BY <1>3 DEF Stop
<1>5. /\ IsFiniteSet(After(j, Sure)') /\ Cardinality(After(j, Sure)') \in Nat
      /\ Cardinality(After(j, Sure)) \in Nat
  <2>1. IsFiniteSet(Positions) /\ After(j, Sure)' \in SUBSET Positions
    BY <1>1, ListFacts DEF After, Sure
  <2>2. IsFiniteSet(After(j, Sure)')
    BY <2>1, FS_Subset
  <2>3. Cardinality(After(j, Sure)') \in Nat
    BY <2>2, FS_CardinalityType
  <2> QED
    BY <2>2, <2>3, SureFinite
<1>6. After(j, Sure) \in SUBSET After(j, Sure)'
  BY DEF After
<1>7. Cardinality(After(j, Sure)) <= Cardinality(After(j, Sure)')
  BY <1>5, <1>6, FS_Subset
<1>8. Cardinality(After(j, Sure)') >= SeekSkip
  BY <1>4, <1>5, <1>7, MessageLogAssumption
<1>9. j \in Sure'
  BY <1>4
<1> QED
  BY <1>2, <1>8, <1>9 DEF Stop

\* What stays in the list is sought only if it was.
LEMMA AddedSought ==
    ASSUME TypeOK, TypeOK', UNCHANGED msg, Numbered' = Numbered, NEW d \in {0, 1},
           Len(list') + d = Len(list) + 1,
           \A i \in 1..(Len(list') - 1) : i + d \in Positions /\ list'[i] = list[i + d],
           NEW i \in Sought', i # Len(list')
    PROVE  i + d \in Sought
<1>1. Positions = 1..Len(list) /\ Len(list) \in Nat /\ Positions' = 1..Len(list')
  BY ListFacts DEF Positions
<1>2. Len(list') \in Nat /\ IsFiniteSet(Positions')
  BY TypeOK', ListFacts, FS_Interval, <1>1 DEF TypeOK, MemoryTypes
<1>3. i \in 1..(Len(list') - 1) /\ list'[i] \in Mine
  BY <1>1, <1>2 DEF Sought
<1>4. i + d \in Positions /\ list[i + d] \in Mine
  BY <1>3
<1>5. ASSUME NEW k \in Positions, k > d
      PROVE  k - d \in 1..(Len(list') - 1) /\ list'[k - d] = list[k]
  <2>1. k - d \in 1..(Len(list') - 1) /\ (k - d) + d = k
    BY <1>1, <1>2, <1>5
  <2> QED
    BY <2>1
<1>6. \A k \in Sure : k > d => k - d \in Sure'
  <2> SUFFICES ASSUME NEW k \in Sure, k > d PROVE k - d \in Sure'
    OBVIOUS
  <2>1. k \in Positions
    BY DEF Sure
  <2>2. k - d \in Positions' /\ list'[k - d] = list[k]
    BY <1>1, <1>2, <1>5, <2>1
  <2> QED
    BY <2>2 DEF Sure
<1>7. ASSUME NEW j \in After(i + d, Positions), Stop(j) PROVE FALSE
  <2>1. j \in Positions /\ j > i + d /\ j > d /\ j \in 1..Len(list)
    BY <1>1, <1>3, <1>7 DEF After
  <2> DEFINE b == j - d
  <2>2. b \in Positions' /\ b > i /\ b \in 1..Len(list') /\ b \in Int
    BY <1>1, <1>2, <1>3, <1>5, <2>1
  <2>3. ~Stop(b)'
    <3>1. b \in After(i, Positions)'
      BY <2>2 DEF After
    <3> QED
      BY <3>1 DEF Sought
  <2>4. Cardinality(After(j, Positions)) = Len(list) - j
    BY <1>1, <2>1, CountAfter
  <2>5. Cardinality(After(b, Positions)') = Len(list') - b
    <3>1. After(b, Positions)' = After(b, 1..Len(list'))
      BY <1>1 DEF After
    <3> HIDE DEF b
    <3> QED
      BY <1>2, <2>2, <3>1, CountAfter
  <2>6. ~(Cardinality(After(j, Positions)) >= SeekBack)
    <3>1. ~(Cardinality(After(b, Positions)') >= SeekBack)
      BY <2>3 DEF Stop
    <3>2. Len(list') - b = Len(list) - j + 1
      BY <1>1, <1>2, <2>1
    <3> HIDE DEF b
    <3> QED
      BY <1>1, <2>1, <2>4, <2>5, <3>1, <3>2, MessageLogAssumption
  <2>7. j \in Sure /\ Cardinality(After(j, Sure)) >= SeekSkip
    BY <1>7, <2>6 DEF Stop
  <2>8. b \in Sure'
    BY <1>6, <2>1, <2>7
  <2> DEFINE S == After(j, Sure)
             T == After(b, Sure)'
             f == [k \in S |-> k - d]
  <2>9. IsFiniteSet(T) /\ Cardinality(T) \in Nat /\ Cardinality(S) \in Nat
    <3>1. T \in SUBSET Positions'
      BY DEF After, Sure
    <3>2. IsFiniteSet(T)
      BY <1>2, <3>1, FS_Subset
    <3> QED
      BY <3>2, FS_CardinalityType, SureFinite
  <2>10. \A k \in S : k \in Int /\ k > j /\ k > d /\ k - d \in T
    <3> SUFFICES ASSUME NEW k \in S PROVE k \in Int /\ k > j /\ k > d /\ k - d \in T
      OBVIOUS
    <3>1. k \in Sure /\ k > j /\ k \in 1..Len(list)
      BY <1>1 DEF After, Sure
    <3>2. k > d /\ k - d > b
      BY <2>1, <3>1
    <3>3. k - d \in Sure'
      BY <1>6, <3>1, <3>2
    <3> QED
      BY <3>1, <3>2, <3>3 DEF After
  <2> HIDE DEF S, T, b
  <2>11. f \in Injection(S, T)
    <3>1. f \in [S -> T]
      BY <2>10
    <3>2. \A k, l \in S : f[k] = f[l] => k = l
      BY <2>10
    <3> QED
      BY <3>1, <3>2 DEF Injection, IsInjective
  <2> HIDE DEF f
  <2>12. Cardinality(S) <= Cardinality(T)
    BY <2>9, <2>11, FS_Injection
  <2>13. Cardinality(T) >= SeekSkip
    BY <2>7, <2>9, <2>12, MessageLogAssumption DEF S
  <2> QED
    BY <2>3, <2>8, <2>13 DEF Stop, T
<1> QED
  BY <1>4, <1>7 DEF Sought

LEMMA NumberedKept ==
    ASSUME sent \subseteq sent', receipts \subseteq receipts',
           doing'["core"] = doing["core"] \/ doing["core"].at # "receipt"
    PROVE  Numbered \subseteq Numbered'
  BY DEF Numbered, Coming, Is

LEMMA SureKept ==
    ASSUME TypeOK, UNCHANGED list, Numbered \subseteq Numbered',
           \A i \in Positions : list[i] \in Mine => msg'[list[i]] = msg[list[i]]
    PROVE  Sure \subseteq Sure'
  BY DEF Sure, Positions

\* What keeps LookedAfter: nothing is added, unconfirmed or lost, and the queue
\* stays where it is.
LEMMA LookedAfterKept ==
    ASSUME TypeOK, TypeOK', Once, LookedAfter, UNCHANGED list,
           link' => /\ link /\ Sure \subseteq Sure'
                    /\ \A t \in allocated : OnItsWay(t) => OnItsWay(t)',
           events > 0 => events' > 0,
           \/ doing'["ui"] = doing["ui"]
           \/ /\ doing["ui"].at # "queue"
              /\ doing'["ui"].at = "add" => OnItsWay(doing["ui"].id)'
    PROVE  LookedAfter'
<1> SUFFICES ASSUME link' PROVE LookedAfter'
  BY DEF LookedAfter
<1>1. /\ link /\ Sought' \subseteq Sought
      /\ \A t \in allocated : OnItsWay(t) => OnItsWay(t)'
  BY SoughtShrinks
<1>2. ASSUME NEW i \in Sought'
      PROVE  \/ events' > 0 \/ OnItsWay(list[i])'
             \/ Is("ui", "queue")' /\ doing'["ui"].id <= i
  <2>1. i \in Sought /\ list[i] \in allocated
    BY <1>1 DEF Once, Sought
  <2>2. PICK t : t = list[i]
    OBVIOUS
  <2>3. OnItsWay(t) => OnItsWay(t)'
    BY <1>1, <2>1, <2>2
  <2>4. list'[i] = t
    BY <2>2
  <2>5. \/ events > 0 \/ OnItsWay(t)
        \/ doing["ui"].at = "queue" /\ doing["ui"].id <= i
    BY <1>1, <2>1, <2>2 DEF LookedAfter, Is
  <2>6. OnItsWay(t)' => OnItsWay(list[i])'
    BY <2>4 DEF OnItsWay
  <2> QED
    BY <2>3, <2>5, <2>6 DEF Is
<1>3. ASSUME Is("ui", "add")' PROVE events' > 0 \/ OnItsWay(doing["ui"].id)'
  <2>1. CASE doing'["ui"] = doing["ui"]
    <3>1. doing["ui"].at = "add" /\ doing["ui"].id \in allocated
      BY <1>3, <2>1 DEF Is, Once
    <3>2. PICK t : t = doing["ui"].id
      OBVIOUS
    <3>3. events > 0 \/ OnItsWay(t)
      BY <1>1, <3>1, <3>2 DEF LookedAfter, Is
    <3>4. OnItsWay(t) => OnItsWay(t)'
      BY <1>1, <3>1, <3>2
    <3>5. OnItsWay(t)' => OnItsWay(doing["ui"].id)'
      BY <2>1, <3>2 DEF OnItsWay
    <3> QED
      BY <3>3, <3>4, <3>5
  <2>2. CASE doing'["ui"] # doing["ui"]
    BY <1>3, <2>2 DEF Is
  <2> QED
    BY <2>1, <2>2
<1> QED
  BY <1>2, <1>3 DEF LookedAfter

\* The packet of a message that is sent again stands for its receipt.
LEMMA SendKeepsLookedAfter ==
    ASSUME TypeOK, TypeOK', Numbers, Once, LookedAfter, Send
    PROVE  LookedAfter'
<1>1. /\ slot \in Mine /\ slot \in Text
      /\ UNCHANGED <<list, doing, receipts, got>>
      /\ \A u \in Text : u # slot => msg'[u] = msg[u]
      /\ slot \in allocated => msg'[slot].receipt = IF link THEN number + 1 ELSE 0
  BY Sending
<1>2. UNCHANGED <<events, link, overwritten>>
  BY DEF Send, history
<1>3. ASSUME link PROVE Sure \subseteq Sure'
  <2>1. /\ sent \subseteq sent'
        /\ slot \in allocated => [number |-> number + 1, text |-> slot] \in sent'
    BY <1>3 DEF Send
  <2>2. Numbered \subseteq Numbered'
    BY <1>1, <2>1, NumberedKept
  <2>3. slot \in allocated => number + 1 \in Numbered'
    <3>1. [number |-> number + 1, text |-> slot].number = number + 1
      OBVIOUS
    <3> QED
      BY <2>1, <3>1 DEF Numbered
  <2>4. Positions' = Positions
    BY <1>1 DEF Positions
  <2> SUFFICES ASSUME NEW i \in Sure PROVE i \in Sure'
    OBVIOUS
  <2>5. /\ i \in Positions /\ list[i] \in Mine /\ list[i] \in Text /\ list[i] \in allocated
        /\ msg[list[i]].acked \/ msg[list[i]].receipt \in Numbered
    BY TextsAreNumbered DEF Sure, Once
  <2>6. CASE list[i] = slot
    <3>1. msg'[slot].receipt \in Numbered'
      BY <1>1, <1>3, <2>3, <2>5, <2>6
    <3> QED
      BY <1>1, <2>4, <2>5, <2>6, <3>1 DEF Sure
  <2>7. CASE list[i] # slot
    <3>1. msg'[list[i]] = msg[list[i]]
      BY <1>1, <2>5, <2>7
    <3> QED
      BY <1>1, <2>2, <2>4, <2>5, <3>1 DEF Sure
  <2> QED
    BY <2>6, <2>7
<1>4. ASSUME link, NEW t \in allocated, OnItsWay(t) PROVE OnItsWay(t)'
  <2>1. /\ sent \subseteq sent'
        /\ slot \in allocated => [number |-> number + 1, text |-> slot] \in sent'
    BY <1>4 DEF Send
  <2>2. CASE t = slot
    <3>1. [number |-> number + 1, text |-> slot].text = t
      BY <2>2
    <3> QED
      BY <1>4, <2>1, <2>2, <3>1 DEF OnItsWay
  <2>3. CASE t # slot
    BY <1>1, <1>2, <1>4, <2>1, <2>3 DEF OnItsWay
  <2> QED
    BY <2>2, <2>3
<1> QED
  BY <1>1, <1>2, <1>3, <1>4, LookedAfterKept

\* A receipt confirms the message that bears its number.
LEMMA ReceiptKeepsLookedAfter ==
    ASSUME TypeOK, TypeOK', Places, Numbers, Once, OneBearer, LookedAfter, ClearReceipt
    PROVE  LookedAfter'
<1> DEFINE n == doing["core"].id
<1>1. /\ doing'["ui"] = doing["ui"] /\ doing'["core"].at = "idle" /\ doing["core"].at = "receipt"
      /\ UNCHANGED <<list, allocated, network, got>>
  BY Clearing DEF ClearReceipt, Is
<1>2. UNCHANGED <<events, slot, overwritten>>
  BY DEF ClearReceipt, history
<1>3. /\ n \in Coming /\ n \in 1..number
      /\ \A k \in Numbered : k = n \/ k \in Numbered'
  <2>1. n \in Coming
    BY <1>1 DEF Coming, Is
  <2>2. n \in 1..number
    BY <2>1 DEF Numbers
  <2>3. \A k \in Numbered : k = n \/ k \in Numbered'
    BY <1>1 DEF Numbered, Coming, Is, network
  <2> QED
    BY <2>1, <2>2, <2>3
<1>4. n > 0
  BY <1>3 DEF TypeOK, NetworkTypes
<1>5. Positions' = Positions
  BY <1>1 DEF Positions
<1> HIDE DEF n
<1>6. ASSUME NEW i \in Sure PROVE i \in Sure'
  <2>1. /\ i \in Positions /\ list[i] \in Mine /\ list[i] \in Text /\ list[i] # DayNotice
        /\ msg[list[i]].acked \/ msg[list[i]].receipt \in Numbered
    BY TextsAreNumbered DEF Sure, DayNotice
  <2>2. CASE Matching(n) = {} /\ msg' = msg
    <3>1. msg[list[i]].receipt # n
      BY <2>1, <2>2 DEF Matching
    <3>2. msg'[list[i]].acked \/ msg'[list[i]].receipt \in Numbered'
      BY <1>3, <2>1, <2>2, <3>1
    <3> QED
      BY <1>1, <1>5, <2>1, <3>2 DEF Sure
  <2>3. ASSUME NEW k \in Matching(n),
               msg' = [msg EXCEPT ![list[k]] = [@ EXCEPT !.receipt = Nobody, !.acked = TRUE]]
        PROVE  i \in Sure'
    <3>1. list[k] \in Text /\ msg[list[k]].receipt = n
      BY ListFacts DEF Matching
    <3>2. msg'[list[k]].acked /\ \A u \in Text : u # list[k] => msg'[u] = msg[u]
      BY <2>3, <3>1, Marked
    <3>3. CASE list[i] = list[k]
      BY <1>1, <1>5, <2>1, <3>2, <3>3 DEF Sure
    <3>4. CASE list[i] # list[k]
      <4>1. msg[list[i]].receipt # n
        BY <1>4, <2>1, <3>1, <3>4 DEF OneBearer
      <4>2. msg'[list[i]] = msg[list[i]]
        BY <2>1, <3>2, <3>4
      <4>3. msg'[list[i]].acked \/ msg'[list[i]].receipt \in Numbered'
        BY <1>3, <2>1, <4>1, <4>2
      <4> QED
        BY <1>1, <1>5, <2>1, <4>3 DEF Sure
    <3> QED
      BY <3>3, <3>4
  <2>4. \/ Matching(n) = {} /\ msg' = msg
        \/ \E k \in Matching(n) :
             msg' = [msg EXCEPT ![list[k]] = [@ EXCEPT !.receipt = Nobody, !.acked = TRUE]]
    BY DEF ClearReceipt, n
  <2> QED
    BY <2>2, <2>3, <2>4
<1>7. \A t \in allocated : OnItsWay(t) => OnItsWay(t)'
  BY <1>1, <1>2 DEF OnItsWay, network
<1>8. link' = link
  BY <1>1 DEF network
<1> QED
  BY <1>1, <1>2, <1>6, <1>7, <1>8, LookedAfterKept

\* message_add, in either thread: the new entry is on its way if it is ours.
LEMMA AddKeepsLookedAfter ==
    ASSUME TypeOK, TypeOK', Places, Once, QueueAdvances, LookedAfter, NEW t \in Thread, Add(t)
    PROVE  LookedAfter'
<1> SUFFICES ASSUME link' PROVE LookedAfter'
  BY DEF LookedAfter
<1>1. UNCHANGED <<slot, events, network, got, overwritten, msg>> /\ lock = "none"
  BY DEF Add, history
<1>2. link /\ UNCHANGED <<sent, receipts>>
  BY <1>1 DEF network
<1>3. /\ doing[t].at = "add" /\ doing'[t].at = "idle"
      /\ \A u \in Thread : u # t => doing'[u] = doing[u]
  BY Adding
<1>4. doing["ui"].at # "queue"
  BY <1>1 DEF QueueAdvances, Is
<1>5. Numbered' = Numbered
  <2>1. \/ doing'["core"].at # "receipt" /\ doing["core"].at # "receipt"
        \/ doing'["core"] = doing["core"]
    BY <1>3 DEF Thread
  <2> QED
    BY <1>2, <2>1 DEF Numbered, Coming, Is
<1>6. PICK d \in {0, 1} :
        /\ Len(list') \in Nat /\ Len(list') >= 1 /\ Len(list') + d = Len(list) + 1
        /\ list'[Len(list')] = doing[t].id
        /\ \A i \in 1..(Len(list') - 1) : i + d \in Positions /\ list'[i] = list[i + d]
  BY AddingAt
<1>7. \A x : OnItsWay(x) => OnItsWay(x)'
  BY <1>1, <1>2 DEF OnItsWay
<1>8. ASSUME NEW i \in Sought'
      PROVE  events' > 0 \/ OnItsWay(list[i])'
  <2>1. i \in 1..Len(list') /\ list'[i] \in Mine
    BY DEF Sought, Positions
  <2>2. CASE i = Len(list')
    <3>1. t = "ui"
      BY <1>3, <1>6, <2>1, <2>2 DEF Places, Thread
    <3>2. events > 0 \/ OnItsWay(doing["ui"].id)
      BY <1>2, <1>3, <3>1 DEF LookedAfter, Is
    <3>3. list'[i] = doing["ui"].id
      BY <1>6, <2>2, <3>1
    <3> QED
      BY <1>1, <1>2, <3>2, <3>3 DEF OnItsWay
  <2>3. CASE i # Len(list')
    <3>1. i + d \in Sought
      BY <1>1, <1>5, <1>6, <2>3, AddedSought
    <3>2. events > 0 \/ OnItsWay(list[i + d])
      BY <1>2, <1>4, <3>1 DEF LookedAfter, Is
    <3>3. i \in 1..(Len(list') - 1)
      BY <1>6, <2>1, <2>3
    <3>4. list'[i] = list[i + d]
      BY <1>6, <3>3
    <3> QED
      BY <1>1, <1>2, <3>2, <3>4 DEF OnItsWay
  <2> QED
    BY <2>2, <2>3
<1>9. ASSUME Is("ui", "add")' PROVE events' > 0 \/ OnItsWay(doing["ui"].id)'
  <2>1. doing'["ui"] = doing["ui"] /\ doing["ui"].at = "add"
    BY <1>3, <1>9 DEF Is, Thread
  <2>2. events > 0 \/ OnItsWay(doing["ui"].id)
    BY <1>2, <2>1 DEF LookedAfter, Is
  <2> QED
    BY <1>1, <1>2, <2>1, <2>2 DEF OnItsWay
<1> QED
  BY <1>8, <1>9 DEF LookedAfter

\* The mailbox loses nothing without a trace.
LEMMA PutKeeps ==
    ASSUME TypeOK, NEW m, Put(m), UNCHANGED <<sent, got>>, NEW x \in Text, OnItsWay(x)
    PROVE  OnItsWay(x)'
<1>1. slot \in Mine \cup {Nobody} /\ x # Nobody
  BY TextsAreNumbered DEF TypeOK, WorkTypes, Nobody
<1> QED
  BY <1>1 DEF Put, OnItsWay

\* messages_send_from_queue comes to all that is sought, and misses nothing.
LEMMA QueueKeepsLookedAfter ==
    ASSUME TypeOK, TypeOK', Marks, Once, QueueAdvances, LookedAfter,
           StartQueue \/ PostNext \/ EndQueue
    PROVE  LookedAfter'
<1>0. doing["ui"].id \in Nat /\ doing["ui"].count \in Nat
  BY DEF TypeOK, WorkTypes, Work, Thread
<1>1. CASE StartQueue
  <2>1. /\ doing'["ui"].at = "queue"
        /\ doing'["ui"].id = 1 + Len(list) - Cardinality(Searched)
        /\ doing'["core"] = doing["core"]
        /\ UNCHANGED <<memory, slot, network, got, overwritten>>
    BY <1>1, QueueStarts
  <2>2. UNCHANGED <<list, msg, link, sent, receipts>>
    BY <2>1 DEF memory, network
  <2>3. Sought' \subseteq Sought
    BY <2>1, <2>2, NumberedKept, SureKept, SoughtShrinks
  <2>4. \A i \in Sought' : doing'["ui"].id <= i
    <3>1. \A i \in Sought' : i \in Nat /\ i >= 1 + Len(list) - Cardinality(Searched)
      BY <2>3, SearchedFrom, SoughtIsSearched, ListFacts DEF Sought
    <3>2. 1 + Len(list) - Cardinality(Searched) \in Int
      BY SearchedFrom, ListFacts
    <3> QED
      BY <2>1, <3>1, <3>2
  <2> QED
    BY <2>1, <2>4 DEF LookedAfter, Is
<1>2. ASSUME NEW k \in Sought, k \notin Ahead, doing["ui"].id <= k PROVE list[k] \in got
  <2>1. k \in Positions /\ list[k] \in Mine
    BY DEF Sought
  <2>2. k >= doing["ui"].id
    BY <1>0, <1>2, <2>1, ListFacts
  <2>3. k \notin Pending
    BY <1>2, <2>2 DEF Ahead
  <2> QED
    BY <2>1, <2>3 DEF Pending, Marks
<1>3. CASE PostNext
  <2>1. PICK i \in Ahead :
          /\ \A j \in Ahead : i <= j
          /\ Put(list[i])
          /\ doing'["ui"].at = "queue" /\ doing'["ui"].id = i + 1
          /\ doing'["core"] = doing["core"] /\ doing["ui"].at = "queue"
          /\ UNCHANGED <<memory, events, network, got>>
    BY <1>3, QueuePosts
  <2>2. UNCHANGED <<list, msg, link, sent, receipts>>
    BY <2>1 DEF memory, network
  <2>3. Sought' \subseteq Sought
    BY <2>1, <2>2, NumberedKept, SureKept, SoughtShrinks
  <2>4. i \in Nat
    BY ListFacts DEF Ahead, Pending
  <2>5. ASSUME link', NEW k \in Sought'
        PROVE  \/ events' > 0 \/ OnItsWay(list[k])'
               \/ Is("ui", "queue")' /\ doing'["ui"].id <= k
    <3>1. k \in Sought /\ k \in Nat /\ list[k] \in Text
      <4>1. k \in Sought /\ k \in Positions /\ list[k] \in Mine
        BY <2>3 DEF Sought
      <4>2. k \in Nat
        BY <4>1, ListFacts
      <4> QED
        BY <4>1, <4>2, TextsAreNumbered
    <3>2. CASE events > 0
      BY <2>1, <3>2
    <3>3. CASE OnItsWay(list[k])
      <4>1. PICK x : x = list[k]
        OBVIOUS
      <4>2. OnItsWay(x)'
        BY <2>1, <2>2, <3>1, <3>3, <4>1, PutKeeps
      <4> QED
        BY <2>2, <4>1, <4>2 DEF OnItsWay
    <3>4. CASE doing["ui"].id <= k
      <4>1. CASE k \notin Ahead
        <5>1. list[k] \in got
          BY <1>2, <3>1, <3>4, <4>1
        <5> QED
          BY <2>1, <2>2, <5>1 DEF OnItsWay
      <4>2. CASE k = i
        BY <2>1, <2>2, <4>2 DEF Put, OnItsWay
      <4>3. CASE k \in Ahead /\ k # i
        <5>1. i + 1 <= k
          BY <2>1, <2>4, <3>1, <4>3
        <5> QED
          BY <2>1, <5>1 DEF Is
      <4> QED
        BY <4>1, <4>2, <4>3
    <3>5. events > 0 \/ OnItsWay(list[k]) \/ doing["ui"].id <= k
      BY <2>2, <2>5, <3>1 DEF LookedAfter
    <3> QED
      BY <3>2, <3>3, <3>4, <3>5
  <2> QED
    BY <2>1, <2>5 DEF LookedAfter, Is
<1>4. CASE EndQueue
  <2>1. doing'["ui"].at = "idle" /\ doing'["core"] = doing["core"]
    BY <1>4, Idling DEF EndQueue, Thread
  <2>2. UNCHANGED <<list, msg, link, sent, receipts, slot, events, got, overwritten>>
    BY <1>4 DEF EndQueue, memory, network, history
  <2>3. Sought' \subseteq Sought
    BY <2>1, <2>2, NumberedKept, SureKept, SoughtShrinks
  <2>4. \A k \in Positions : doing["ui"].id <= k => k \notin Ahead
    <3>1. CASE Ahead = {}
      BY <3>1
    <3>2. CASE doing["ui"].count > MaxSent
      <4>1. doing["ui"].id >= Len(list) - SeekBack + doing["ui"].count
        BY <1>4 DEF EndQueue, QueueAdvances, Is
      <4>2. doing["ui"].id > Len(list)
        BY <1>0, <3>2, <4>1, ListFacts, MessageLogAssumption, QueueAssumption
      <4> QED
        BY <1>0, <4>2, ListFacts
    <3> QED
      BY <1>4, <3>1, <3>2 DEF EndQueue
  <2>5. ASSUME link', NEW k \in Sought' PROVE events' > 0 \/ OnItsWay(list[k])'
    <3>1. k \in Sought /\ k \in Positions
      BY <2>3 DEF Sought
    <3>2. events > 0 \/ OnItsWay(list[k]) \/ doing["ui"].id <= k
      BY <2>2, <2>5, <3>1 DEF LookedAfter
    <3>3. doing["ui"].id <= k => list[k] \in got
      BY <1>2, <2>4, <3>1
    <3> QED
      BY <2>2, <3>2, <3>3 DEF OnItsWay
  <2> QED
    BY <2>1, <2>5 DEF LookedAfter, Is
<1> QED
  BY <1>1, <1>3, <1>4

LEMMA LookedAfterInductive ==
    /\ TypeOK /\ Places /\ Numbers /\ Records /\ Marks
    /\ Once /\ OneBearer /\ QueueAdvances /\ LookedAfter /\ [Next]_vars
    => LookedAfter'
<1> SUFFICES ASSUME TypeOK, Places, Numbers, Records, Marks,
                    Once, OneBearer, QueueAdvances, LookedAfter, [Next]_vars
             PROVE  LookedAfter'
  OBVIOUS
<1>0. TypeOK' /\ Once'
  BY TypesInductive, OnceInductive
<1>1. ASSUME UNCHANGED <<memory, slot, events, network, got, overwritten>>,
             doing'["core"] = doing["core"] \/ doing["core"].at # "receipt",
             \/ doing'["ui"] = doing["ui"]
             \/ doing["ui"].at # "queue" /\ doing'["ui"].at # "add"
      PROVE  LookedAfter'
  <2>1. UNCHANGED <<list, msg, link, sent, receipts>>
    BY <1>1 DEF memory, network
  <2>2. Sure \subseteq Sure'
    BY <1>1, <2>1, NumberedKept, SureKept
  <2>3. \A t \in allocated : OnItsWay(t) => OnItsWay(t)'
    BY <1>1, <2>1 DEF OnItsWay
  <2> QED
    BY <1>0, <1>1, <2>1, <2>2, <2>3, LookedAfterKept
<1>2. ASSUME NEW t \in Thread, NEW m \in Text, Begin(t, m), doing[t].at = "idle",
             \A i \in Positions : list[i] # m,
             UNCHANGED <<list, slot, events, link, sent, receipts, got, overwritten>>
      PROVE  LookedAfter'
  <2>1. /\ \A u \in Text : u # m => msg'[u] = msg[u]
        /\ doing'[t].at = "save"
        /\ \A u \in Thread : u # t => doing'[u] = doing[u]
    BY <1>2, Begun
  <2>2. doing'["core"] = doing["core"] \/ doing["core"].at # "receipt"
    BY <1>2, <2>1 DEF Thread
  <2>3. \/ doing'["ui"] = doing["ui"]
        \/ doing["ui"].at # "queue" /\ doing'["ui"].at # "add"
    BY <1>2, <2>1 DEF Thread
  <2>4. \A i \in Positions : list[i] \in Mine => msg'[list[i]] = msg[list[i]]
    BY <1>2, <2>1, TextsAreNumbered
  <2>5. Sure \subseteq Sure'
    BY <1>2, <2>2, <2>4, NumberedKept, SureKept
  <2>6. \A u \in allocated : OnItsWay(u) => OnItsWay(u)'
    BY <1>2 DEF OnItsWay
  <2> QED
    BY <1>0, <1>2, <2>3, <2>5, <2>6, LookedAfterKept
<1>3. CASE Type
  <2>1. /\ typed + 1 \in Mine /\ Begin("ui", typed + 1) /\ doing["ui"].at = "idle"
        /\ UNCHANGED <<list, sent, receipts, got>>
    BY <1>3, TypeBegins
  <2>2. UNCHANGED <<slot, events, link, overwritten>>
    BY <1>3 DEF Type, network, history
  <2>3. \A i \in Positions : list[i] # typed + 1
    <3>1. doing'["ui"].at = "save" /\ doing'["ui"].id = typed + 1
      BY <2>1, Begun, TextsAreNumbered DEF Thread
    <3> QED
      BY <1>0, <2>1, <3>1 DEF Once, Positions
  <2> QED
    BY <1>2, <2>1, <2>2, <2>3, TextsAreNumbered DEF Thread
<1>4. CASE Arrive
  <2> DEFINE m == Own + arrived + 1
  <2>1. /\ m \in Text \ Mine /\ Begin("core", m) /\ doing["core"].at = "idle"
        /\ UNCHANGED <<list, sent, receipts, got>>
    BY <1>4, ArriveBegins
  <2>2. UNCHANGED <<slot, events, link, overwritten>>
    BY <1>4 DEF Arrive, history
  <2> HIDE DEF m
  <2>3. /\ \A u \in Text : u # m => msg'[u] = msg[u]
        /\ doing'["ui"] = doing["ui"]
    BY <2>1, Begun DEF Thread
  <2>4. \A i \in Positions : list[i] \in Mine => msg'[list[i]] = msg[list[i]]
    BY <2>1, <2>3, TextsAreNumbered
  <2>5. Sure \subseteq Sure'
    BY <2>1, <2>4, NumberedKept, SureKept
  <2>6. \A u \in allocated : OnItsWay(u) => OnItsWay(u)'
    BY <2>1, <2>2 DEF OnItsWay
  <2> QED
    BY <1>0, <2>1, <2>2, <2>3, <2>5, <2>6, LookedAfterKept
<1>5. ASSUME NEW t \in Thread, Save(t) PROVE LookedAfter'
  <2>1. /\ doing[t].at = "save" /\ doing[t].id \in Text
        /\ doing'[t].at = IF doing[t].id \in Mine THEN "post" ELSE "add"
        /\ \A u \in Thread : u # t => doing'[u] = doing[u]
        /\ UNCHANGED <<memory, network, got>>
    BY <1>5, Saving
  <2>2. UNCHANGED <<slot, events, overwritten>>
    BY <1>5 DEF Save
  <2>3. doing'["core"] = doing["core"] \/ doing["core"].at # "receipt"
    BY <2>1 DEF Thread
  <2>4. \/ doing'["ui"] = doing["ui"]
        \/ doing["ui"].at # "queue" /\ doing'["ui"].at # "add"
    <3>1. CASE t = "core"
      BY <2>1, <3>1 DEF Thread
    <3>2. CASE t = "ui"
      <4>1. doing["ui"].id \in Mine
        <5>1. \A i \in 1..typed : i \in Mine
          BY MessageLogAssumption DEF TypeOK, WorkTypes, Mine
        <5> QED
          BY <2>1, <3>2, <5>1 DEF Places
      <4> QED
        BY <2>1, <3>2, <4>1
    <3> QED
      BY <3>1, <3>2 DEF Thread
  <2> QED
    BY <1>1, <2>1, <2>2, <2>3, <2>4
<1>6. ASSUME NEW t \in Thread, Add(t) PROVE LookedAfter'
  BY <1>0, <1>6, AddKeepsLookedAfter
<1>7. CASE Post
  <2>1. "add" \in Place /\ doing["ui"].id \in Nat /\ 0 \in Nat
    BY DEF TypeOK, WorkTypes, Work, Thread, Place
  <2>2. /\ doing'["ui"].at = "add" /\ doing'["ui"].id = doing["ui"].id
        /\ doing'["core"] = doing["core"] /\ doing["ui"].at = "post"
    BY <1>7, <2>1, NowMoves DEF Post, TypeOK, Thread, Is
  <2>3. UNCHANGED <<list, msg, link, sent, receipts, got, events>> /\ Put(doing["ui"].id)
    BY <1>7 DEF Post, memory, network
  <2>4. Sure \subseteq Sure'
    BY <2>2, <2>3, NumberedKept, SureKept
  <2>5. ASSUME NEW x \in allocated, OnItsWay(x) PROVE OnItsWay(x)'
    <3>1. x \in Text
      BY DEF TypeOK, MemoryTypes
    <3> QED
      BY <2>3, <2>5, <3>1, PutKeeps
  <2>6. OnItsWay(doing["ui"].id)'
    BY <2>2, <2>3 DEF Put, OnItsWay
  <2> QED
    BY <1>0, <2>2, <2>3, <2>4, <2>5, <2>6, LookedAfterKept
<1>8. CASE StartQueue \/ PostNext \/ EndQueue
  BY <1>0, <1>8, QueueKeepsLookedAfter
<1>9. CASE ClearList
  <2>1. "remove" \in Place /\ 0 \in Nat
    BY DEF Place
  <2>2. doing'["ui"].at = "remove" /\ list' = <<>>
    BY <1>9, <2>1, NowMoves DEF ClearList, TypeOK, Thread
  <2>3. Sought' = {}
    BY <2>2 DEF Sought, Positions
  <2> QED
    BY <2>2, <2>3 DEF LookedAfter, Is
<1>10. CASE RemoveLog
  <2>1. /\ doing["ui"].at = "remove" /\ doing'["ui"].at = "idle"
        /\ UNCHANGED <<memory, slot, events, network, got, overwritten>>
    BY <1>10 DEF RemoveLog, Is, TypeOK, WorkTypes, Work, Thread, Idle, Step, history
  <2>2. doing'["core"] = doing["core"] \/ doing["core"].at # "receipt"
    BY <1>10 DEF RemoveLog, TypeOK, WorkTypes, Work, Thread
  <2> QED
    BY <1>1, <2>1, <2>2
<1>11. CASE Send
  BY <1>0, <1>11, SendKeepsLookedAfter
<1>12. CASE ChangeLink
  <2>1. events' > 0
    BY <1>12 DEF ChangeLink, TypeOK, WorkTypes
  <2> QED
    BY <2>1 DEF LookedAfter
<1>13. CASE Deliver
  <2>1. PICK p \in sent : /\ sent' = sent \ {p}
                          /\ got' = got \cup {p.text}
                          /\ receipts' = receipts \cup {p.number}
    BY <1>13 DEF Deliver
  <2>2. UNCHANGED <<list, msg, doing, slot, events, link, overwritten>>
    BY <1>13 DEF Deliver, memory
  <2>3. Numbered \subseteq Numbered'
    BY <2>1, <2>2 DEF Numbered, Coming, Is
  <2>4. Sure \subseteq Sure'
    BY <2>2, <2>3, SureKept
  <2>5. \A t \in allocated : OnItsWay(t) => OnItsWay(t)'
    BY <2>1, <2>2 DEF OnItsWay
  <2> QED
    BY <1>0, <2>2, <2>4, <2>5, LookedAfterKept
<1>14. CASE TakeReceipt
  <2>1. PICK n \in receipts : /\ receipts' = receipts \ {n}
                              /\ Now("core", Step("receipt", n, 0))
    BY <1>14 DEF TakeReceipt
  <2>2. /\ UNCHANGED <<list, msg, slot, events, link, sent, got, overwritten>>
        /\ doing["core"].at = "idle"
    BY <1>14 DEF TakeReceipt, memory, history, Is
  <2>3. /\ doing'["core"].at = "receipt" /\ doing'["core"].id = n
        /\ doing'["ui"] = doing["ui"]
    <3>1. n \in Nat /\ 0 \in Nat /\ "receipt" \in Place
      BY DEF TypeOK, NetworkTypes, Place
    <3> QED
      BY <2>1, <3>1, NowMoves DEF TypeOK, Thread
  <2>4. Numbered \subseteq Numbered'
    BY <2>1, <2>2, <2>3 DEF Numbered, Coming, Is
  <2>5. Sure \subseteq Sure'
    BY <2>2, <2>4, SureKept
  <2>6. \A t \in allocated : OnItsWay(t) => OnItsWay(t)'
    BY <2>2 DEF OnItsWay
  <2> QED
    BY <1>0, <2>2, <2>3, <2>5, <2>6, LookedAfterKept
<1>15. CASE ClearReceipt
  BY <1>0, <1>15, ReceiptKeepsLookedAfter
<1>16. CASE Restart
  <2>1. ~link'
    BY <1>16 DEF Restart
  <2> QED
    BY <2>1 DEF LookedAfter
<1>17. CASE UNCHANGED vars
  <2>1. UNCHANGED <<memory, slot, events, network, got, overwritten>> /\ doing' = doing
    BY <1>17 DEF vars, history
  <2> QED
    BY <1>1, <2>1
<1> QED
  BY <1>3, <1>4, <1>5, <1>6, <1>7, <1>8, <1>9, <1>10, <1>11, <1>12, <1>13, <1>14, <1>15,
     <1>16, <1>17, NextCases

ResendInv == Once /\ OneBearer /\ QueueAdvances /\ LookedAfter

LEMMA ResendHoldsInitially == Init => ResendInv
<1> SUFFICES ASSUME Init PROVE ResendInv
  OBVIOUS
<1>1. /\ list = <<>> /\ log = <<>> /\ ~link /\ Positions = {}
      /\ doing["ui"].at = "idle" /\ \A t \in Text : msg[t].receipt = 0
  BY DEF Init, Idle, Step, Fresh, Positions, Thread
<1>2. Once
  BY <1>1 DEF Once, Is
<1>3. OneBearer
  BY <1>1 DEF OneBearer
<1>4. QueueAdvances /\ LookedAfter
  BY <1>1 DEF QueueAdvances, LookedAfter, Is
<1> QED
  BY <1>2, <1>3, <1>4 DEF ResendInv

LEMMA AtRestSame ==
    ASSUME TypeOK, AtRest
    PROVE  Pending \cap Searched \subseteq Sought
<1>1. Numbered = {}
  BY DEF AtRest, Numbered, Coming, Is, Thread
<1>2. Sure = Confirmed
  BY <1>1 DEF Sure, Confirmed
<1>3. \A j : Stop(j) => Barrier(j)
  BY <1>2 DEF Stop, Barrier
<1> QED
  BY <1>3 DEF Sought, Searched, Pending

\* What the user wrote has reached a friend who is back once everything has
\* come to rest, unless it is too far back in the list or a poster that gave up
\* wrote over it: whatever is neither received nor on its way is in front of the
\* queue or of a change of the connection (messages_send_from_queue).
THEOREM NothingStaysBehind == Spec => []NothingLeftBehind
<1>1. MessageInv /\ ResendInv /\ [Next]_vars => ResendInv'
  BY OnceInductive, OneBearerInductive, QueueInductive, LookedAfterInductive
  DEF MessageInv, ResendInv
<1>2. MessageInv /\ ResendInv => NothingLeftBehind
  <2> SUFFICES ASSUME MessageInv, ResendInv, AtRest, link, NEW i \in Pending \cap Searched
               PROVE  list[i] \in got \cup overwritten
    BY DEF NothingLeftBehind
  <2>1. i \in Sought /\ list[i] \in Mine
    BY AtRestSame DEF MessageInv, Pending
  <2>2. \/ events > 0 \/ OnItsWay(list[i])
        \/ Is("ui", "queue")
    BY <2>1 DEF ResendInv, LookedAfter
  <2>3. events = 0 /\ slot = Nobody /\ sent = {} /\ ~Is("ui", "queue")
    BY DEF AtRest, Is, Thread
  <2>4. list[i] # Nobody
    BY <2>1, TextsAreNumbered DEF Nobody
  <2> QED
    BY <2>2, <2>3, <2>4 DEF OnItsWay
<1> QED
  BY <1>1, <1>2, InvHolds, ResendHoldsInitially, PTL DEF Spec

-----------------------------------------------------------------------------
(* No thread waits for the other one for good *)

\* Nobody but the queue holds messages_lock, and it never posts on for ever.
LockHeld ==
    /\ lock = "ui" => Is("ui", "queue")
    /\ Is("ui", "queue") => doing["ui"].count <= MaxSent + 1

\* The guards of the steps of each thread, which ENABLED would tell.
UICanStep ==
    \/ doing["ui"].at \in {"save", "post", "remove"}
    \/ Is("ui", "add") /\ lock = "none"
    \/ Is("ui", "idle") /\ events > 0 /\ lock = "none"
    \/ /\ Is("ui", "queue")
       /\ \/ Ahead = {} \/ doing["ui"].count > MaxSent
          \/ \E i \in Ahead : \A j \in Ahead : i <= j
CoreCanStep ==
    \/ Is("core", "save")
    \/ Is("core", "add") /\ lock = "none"
    \/ Is("core", "idle") /\ slot # Nobody
    \/ Is("core", "idle") /\ \E n \in receipts : \A k \in receipts : n <= k
    \/ /\ Is("core", "receipt") /\ lock = "none"
       /\ LET S == Matching(doing["core"].id) IN S = {} \/ \E i \in S : After(i, S) = {}

\* Who holds the lock is never kept from going on; while nobody does, each
\* thread that is in the middle of something, or has something to do, can.
WaitsForNobody ==
    /\ lock = "ui" => UICanStep
    /\ lock = "none" => /\ ~Is("ui", "idle") \/ events > 0 => UICanStep
                        /\ ~Is("core", "idle") \/ slot # Nobody \/ receipts # {} => CoreCanStep

\* A step of the queue ends it, or it has one of at most MaxSent + 1 messages
\* less to send and one position less to look at.
QueueMovesOn ==
    Is("ui", "queue") /\ doing'["ui"] # doing["ui"] =>
      \/ lock' = "none" /\ Is("ui", "idle")'
      \/ /\ doing'["ui"].count = doing["ui"].count + 1 /\ doing'["ui"].count <= MaxSent + 1
         /\ doing'["ui"].id > doing["ui"].id

\* Of finitely many numbers there are a first and a last one: of the sets of
\* those before a number, and after it, one has none of the others as a part.
LEMMA FirstAndLast ==
    ASSUME NEW n \in Nat, NEW S \in SUBSET (1..n), S # {}
    PROVE  /\ \E i \in S : \A j \in S : i <= j
           /\ \E i \in S : \A j \in S : j <= i
<1>1. IsFiniteSet(1..n)
  BY FS_Interval
<1>2. ASSUME NEW f, f \in [1..n -> SUBSET (1..n)]
      PROVE  \E i \in S : \A j \in S : ~(f[j] \subseteq f[i] /\ f[j] # f[i])
  <2> DEFINE T == {f[i] : i \in S}
  <2>1. T \subseteq FiniteSubsetsOf(1..n) /\ T # {}
    <3>1. \A i \in S : f[i] \in SUBSET (1..n) /\ IsFiniteSet(f[i])
      BY <1>1, <1>2, FS_Subset
    <3> QED
      BY <3>1 DEF FiniteSubsetsOf
  <2>2. PICK t \in T : \A u \in T : <<u, t>> \notin StrictSubsetOrdering(1..n)
    <3> HIDE DEF T
    <3> QED
      BY <1>1, <2>1, WFMin, FS_StrictSubsetOrderingWellFounded
  <2>3. PICK i \in S : t = f[i]
    BY <2>2
  <2>4. ASSUME NEW j \in S, f[j] \subseteq f[i], f[j] # f[i] PROVE FALSE
    <3>1. <<f[j], f[i]>> \in StrictSubsetOrdering(1..n)
      BY <1>2, <2>4 DEF StrictSubsetOrdering
    <3> QED
      BY <2>2, <2>3, <3>1
  <2> QED
    BY <2>4
<1>3. \E i \in S : \A j \in S : i <= j
  <2> DEFINE f == [i \in 1..n |-> {k \in 1..n : k < i}]
  <2>1. PICK i \in S : \A j \in S : ~(f[j] \subseteq f[i] /\ f[j] # f[i])
    BY <1>2
  <2>2. ASSUME NEW j \in S, ~(i <= j) PROVE FALSE
    <3>1. i \in 1..n /\ j \in 1..n /\ j < i
      BY <2>2
    <3>2. f[i] = {k \in 1..n : k < i} /\ f[j] = {k \in 1..n : k < j}
      BY <3>1
    <3> HIDE DEF f
    <3>3. f[j] \subseteq f[i]
      BY <3>1, <3>2
    <3>4. j \in f[i] /\ j \notin f[j]
      BY <3>1, <3>2
    <3> QED
      BY <2>1, <3>3, <3>4
  <2> QED
    BY <2>2
<1>4. \E i \in S : \A j \in S : j <= i
  <2> DEFINE f == [i \in 1..n |-> {k \in 1..n : k > i}]
  <2>1. PICK i \in S : \A j \in S : ~(f[j] \subseteq f[i] /\ f[j] # f[i])
    BY <1>2
  <2>2. ASSUME NEW j \in S, ~(j <= i) PROVE FALSE
    <3>1. i \in 1..n /\ j \in 1..n /\ j > i
      BY <2>2
    <3>2. f[i] = {k \in 1..n : k > i} /\ f[j] = {k \in 1..n : k > j}
      BY <3>1
    <3> HIDE DEF f
    <3>3. f[j] \subseteq f[i]
      BY <3>1, <3>2
    <3>4. j \in f[i] /\ j \notin f[j]
      BY <3>1, <3>2
    <3> QED
      BY <2>1, <3>3, <3>4
  <2> QED
    BY <2>2
<1> QED
  BY <1>3, <1>4

LEMMA LockHeldInductive == TypeOK /\ Places /\ LockHeld /\ [Next]_vars => LockHeld'
<1> SUFFICES ASSUME TypeOK, Places, LockHeld, [Next]_vars PROVE LockHeld'
  OBVIOUS
<1>0. MaxSent \in Nat
  BY MessageLogAssumption
<1>1. ASSUME lock' = lock, doing'["ui"] = doing["ui"] PROVE LockHeld'
  BY <1>1 DEF LockHeld, Is
<1>2. ASSUME lock' = lock, doing["ui"].at # "queue", doing'["ui"].at # "queue" PROVE LockHeld'
  BY <1>2 DEF LockHeld, Is
<1>3. CASE Type
  BY <1>2, <1>3, TypeBegins, Begun, TextsAreNumbered DEF Type, Thread
<1>4. CASE Arrive
  BY <1>1, <1>4, ArriveBegins, Begun DEF Arrive, Thread
<1>5. ASSUME NEW t \in Thread, Save(t) PROVE LockHeld'
  <2>1. /\ doing[t].at = "save" /\ doing'[t].at \in {"post", "add"}
        /\ \A u \in Thread : u # t => doing'[u] = doing[u]
        /\ lock' = lock
    BY <1>5, Saving DEF Save
  <2> QED
    BY <1>1, <1>2, <2>1 DEF Thread
<1>6. ASSUME NEW t \in Thread, Add(t) PROVE LockHeld'
  <2>1. /\ doing[t].at = "add" /\ doing'[t].at = "idle"
        /\ \A u \in Thread : u # t => doing'[u] = doing[u]
        /\ lock' = lock
    BY <1>6, Adding DEF Add
  <2> QED
    BY <1>1, <1>2, <2>1 DEF Thread
<1>7. CASE Post
  <2>1. "add" \in Place /\ doing["ui"].id \in Nat /\ 0 \in Nat
    BY DEF TypeOK, WorkTypes, Work, Thread, Place
  <2>2. doing'["ui"].at = "add"
    BY <1>7, <2>1, NowMoves DEF Post, TypeOK, Thread
  <2> QED
    BY <1>2, <1>7, <2>2 DEF Post, Is
<1>8. CASE StartQueue
  BY <1>0, <1>8, QueueStarts DEF LockHeld, Is
<1>9. CASE PostNext
  <2>1. /\ doing'["ui"].at = "queue" /\ doing'["ui"].count = doing["ui"].count + 1
        /\ lock' = lock
    BY <1>9, QueuePosts
  <2>2. doing["ui"].count <= MaxSent /\ doing["ui"].count \in Nat
    BY <1>9 DEF PostNext, TypeOK, WorkTypes, Work, Thread
  <2> QED
    BY <1>0, <2>1, <2>2 DEF LockHeld, Is
<1>10. CASE EndQueue
  BY <1>10, Idling DEF EndQueue, Thread, LockHeld, Is
<1>11. CASE ClearList
  <2>1. "remove" \in Place /\ 0 \in Nat
    BY DEF Place
  <2>2. doing'["ui"].at = "remove"
    BY <1>11, <2>1, NowMoves DEF ClearList, TypeOK, Thread
  <2> QED
    BY <1>2, <1>11, <2>2 DEF ClearList, Is
<1>12. CASE RemoveLog
  <2>1. doing'["ui"].at = "idle" /\ doing["ui"].at = "remove" /\ lock' = lock
    BY <1>12 DEF RemoveLog, Is, Idle, Step, TypeOK, WorkTypes, Thread
  <2> QED
    BY <1>2, <2>1
<1>13. CASE Send \/ ChangeLink \/ Deliver \/ UNCHANGED vars
  BY <1>1, <1>13 DEF Send, ChangeLink, Deliver, vars
<1>14. CASE TakeReceipt
  <2>1. PICK n \in receipts : Now("core", Step("receipt", n, 0))
    BY <1>14 DEF TakeReceipt
  <2>2. n \in Nat /\ "receipt" \in Place
    BY DEF TypeOK, NetworkTypes, Place
  <2>3. doing'["ui"] = doing["ui"]
    BY <2>1, <2>2, NowMoves DEF TypeOK, Thread
  <2> QED
    BY <1>1, <1>14, <2>3 DEF TakeReceipt
<1>15. CASE ClearReceipt
  BY <1>1, <1>15, Idling DEF ClearReceipt, Thread
<1>16. CASE Restart
  BY <1>16 DEF Restart, LockHeld, Is, Idle, Step, Thread
<1> QED
  BY <1>3, <1>4, <1>5, <1>6, <1>7, <1>8, <1>9, <1>10, <1>11, <1>12, <1>13, <1>14, <1>15,
     <1>16, NextCases

\* There is a first message ahead of the queue, a first receipt and a last
\* message that bears its number, if there are any.
LEMMA Extremes ==
    ASSUME TypeOK, Numbers
    PROVE  /\ Ahead = {} \/ \E i \in Ahead : \A j \in Ahead : i <= j
           /\ receipts = {} \/ \E n \in receipts : \A k \in receipts : n <= k
           /\ \A n : Matching(n) = {} \/ \E i \in Matching(n) : After(i, Matching(n)) = {}
<1>1. Len(list) \in Nat /\ Positions = 1..Len(list)
  BY ListFacts
<1>2. Ahead = {} \/ \E i \in Ahead : \A j \in Ahead : i <= j
  <2>1. Ahead \in SUBSET (1..Len(list))
    BY <1>1 DEF Ahead, Pending
  <2> QED
    BY <1>1, <2>1, FirstAndLast
<1>3. receipts = {} \/ \E n \in receipts : \A k \in receipts : n <= k
  <2>1. receipts \in SUBSET (1..number) /\ number \in Nat
    BY DEF Numbers, Coming, TypeOK, NetworkTypes
  <2> QED
    BY <2>1, FirstAndLast
<1>4. ASSUME NEW n, Matching(n) # {}
      PROVE  \E i \in Matching(n) : After(i, Matching(n)) = {}
  <2>1. Matching(n) \in SUBSET (1..Len(list))
    BY <1>1 DEF Matching
  <2>2. PICK i \in Matching(n) : \A j \in Matching(n) : j <= i
    BY <1>1, <1>4, <2>1, FirstAndLast
  <2>3. \A j \in Matching(n) : ~(j > i)
    BY <2>1, <2>2
  <2> QED
    BY <2>3 DEF After
<1> QED
  BY <1>2, <1>3, <1>4

\* The threads never wait for each other for good, as far as this can be said
\* without ENABLED: the UI thread, which alone holds messages_lock over several
\* steps, can take the next of at most MaxSent + 2 of them whatever the mailbox
\* holds, and then each thread can go on (messages_send_from_queue,
\* messages_clear_receipt, message_add, postmessage_toxcore).
THEOREM ThreadsNeverWait == Spec => [](WaitsForNobody) /\ [][QueueMovesOn]_vars
<1> DEFINE Inv == MessageInv /\ QueueAdvances /\ LockHeld
<1>1. Init => Inv
  BY InvHoldsInitially, ResendHoldsInitially DEF Init, LockHeld, ResendInv, Is, Idle, Step, Thread
<1>2. Inv /\ [Next]_vars => Inv'
  BY TypesInductive, NumbersInductive, RecordsInductive, MarksInductive,
     AllocatedHeldInductive, LogTrueInductive, QueueInductive, LockHeldInductive DEF MessageInv
<1>3. Inv => WaitsForNobody
  <2> SUFFICES ASSUME Inv PROVE WaitsForNobody
    OBVIOUS
  <2>1. TypeOK /\ Numbers /\ Places /\ LockHeld
    BY DEF MessageInv
  <2>2. Is("ui", "queue") => UICanStep
    BY <2>1, Extremes DEF UICanStep
  <2>3. CASE lock = "ui"
    BY <2>1, <2>2, <2>3 DEF LockHeld, WaitsForNobody
  <2>4. CASE lock = "none"
    <3>1. ~Is("ui", "idle") \/ events > 0 => UICanStep
      BY <2>1, <2>2, <2>4 DEF UICanStep, Places, Is
    <3>2. ~Is("core", "idle") \/ slot # Nobody \/ receipts # {} => CoreCanStep
      BY <2>1, <2>4, Extremes DEF CoreCanStep, Places, Is
    <3> QED
      BY <2>4, <3>1, <3>2 DEF WaitsForNobody
  <2> QED
    BY <2>1, <2>3, <2>4 DEF TypeOK, WorkTypes
<1>4. Inv /\ [Next]_vars => [QueueMovesOn]_vars
  <2> SUFFICES ASSUME Inv, [Next]_vars, Is("ui", "queue"), doing'["ui"] # doing["ui"]
               PROVE  QueueMovesOn
    BY DEF QueueMovesOn
  <2>0. TypeOK /\ Places /\ LockHeld' /\ MaxSent \in Nat
    BY LockHeldInductive, MessageLogAssumption DEF MessageInv
  <2>1. CASE PostNext
    <3>1. PICK i \in Ahead : /\ doing'["ui"].at = "queue" /\ doing'["ui"].id = i + 1
                             /\ doing'["ui"].count = doing["ui"].count + 1
      BY <2>0, <2>1, QueuePosts
    <3>2. i \in Nat /\ i >= doing["ui"].id /\ doing["ui"].id \in Nat
      BY <2>0, ListFacts DEF Ahead, Pending, TypeOK, WorkTypes, Work, Thread
    <3> QED
      BY <2>0, <3>1, <3>2 DEF QueueMovesOn, LockHeld, Is
  <2>2. CASE EndQueue
    BY <2>0, <2>2, Idling DEF EndQueue, QueueMovesOn, Is, Thread
  <2>3. CASE Restart
    BY <2>3 DEF Restart, Idle, Step, QueueMovesOn, Is, Thread
  <2>4. ASSUME NEW t \in Thread, Save(t) \/ Add(t) PROVE FALSE
    <3>1. CASE t = "core"
      BY <2>0, <2>4, <3>1, Saving, Adding DEF Thread
    <3>2. CASE t = "ui"
      BY <2>4, <3>2 DEF Save, Add, Is
    <3> QED
      BY <3>1, <3>2 DEF Thread
  <2>5. CASE Type \/ Post \/ StartQueue \/ ClearList \/ RemoveLog
    BY <2>5 DEF Type, Post, StartQueue, ClearList, RemoveLog, Is
  <2>6. CASE Arrive
    BY <2>0, <2>6, ArriveBegins, Begun DEF Thread
  <2>7. CASE TakeReceipt \/ ClearReceipt
    <3>1. \E s : Now("core", s)
      BY <2>7 DEF TakeReceipt, ClearReceipt
    <3> QED
      BY <2>0, <3>1 DEF Now, TypeOK, WorkTypes, Thread
  <2>8. CASE Send \/ ChangeLink \/ Deliver \/ UNCHANGED vars
    BY <2>8 DEF Send, ChangeLink, Deliver, vars
  <2> QED
    BY <2>1, <2>2, <2>3, <2>4, <2>5, <2>6, <2>7, <2>8, NextCases
<1> HIDE DEF Inv
<1> QED
  BY <1>1, <1>2, <1>3, <1>4, PTL DEF Spec

-----------------------------------------------------------------------------
(* The conversation, as its user sees it *)

\* Nothing of what the user has not typed yet is on its way or received.
WrittenFirst ==
    /\ slot \in Mine => slot <= typed
    /\ \A p \in sent : p.text <= typed
    /\ \A t \in got : t <= typed

\* A save that overwrites a record takes no mark out of the log: past the place
\* that the toxcore thread has found for a text of the friend's there are none
\* of ours that are marked, and past the one of the UI thread none of ours.
SavesApart ==
    /\ Is("core", "save") =>
         \A k \in DOMAIN log :
            k > msg[doing["core"].id].offset /\ log[k].text \in Mine => ~log[k].receipt
    /\ Is("ui", "save") =>
         /\ ~msg[doing["ui"].id].acked
         /\ \A k \in DOMAIN log : k > msg[doing["ui"].id].offset => log[k].text \notin Mine

LEMMA WrittenFirstInductive ==
    TypeOK /\ Places /\ Records /\ WrittenFirst /\ [Next]_vars => WrittenFirst'
<1> SUFFICES ASSUME TypeOK, Places, Records, WrittenFirst, [Next]_vars PROVE WrittenFirst'
  OBVIOUS
<1>0. typed \in Nat /\ Mine \subseteq Nat /\ Nobody \notin Mine
  BY TextsAreNumbered DEF TypeOK, WorkTypes, Nobody
<1>1. ASSUME UNCHANGED <<slot, typed, sent, got>> PROVE WrittenFirst'
  BY <1>1 DEF WrittenFirst
<1>2. ASSUME NEW m \in Mine, m <= typed, Put(m), UNCHANGED <<typed, sent, got>>
      PROVE  WrittenFirst'
  BY <1>2 DEF WrittenFirst, Put
<1>3. CASE Type
  <2>1. typed' = typed + 1 /\ UNCHANGED <<slot, sent, got>>
    BY <1>3 DEF Type, network, history
  <2>2. slot \in Mine => slot <= typed + 1
    BY <1>0 DEF WrittenFirst
  <2>3. \A p \in sent : p.text <= typed + 1
    <3>1. \A p \in sent : p.text \in Nat
      BY <1>0 DEF TypeOK, NetworkTypes
    <3> QED
      BY <1>0, <3>1 DEF WrittenFirst
  <2>4. \A t \in got : t <= typed + 1
    BY <1>0 DEF TypeOK, HistoryTypes, WrittenFirst
  <2> QED
    BY <2>1, <2>2, <2>3, <2>4 DEF WrittenFirst
<1>4. CASE Post
  <2>1. doing["ui"].id \in Mine /\ doing["ui"].id <= typed
    BY <1>4, MessageLogAssumption DEF Post, Is, Places, Mine, TypeOK, WorkTypes
  <2> QED
    BY <1>2, <1>4, <2>1 DEF Post, network
<1>5. CASE PostNext
  <2>1. PICK i \in Ahead : Put(list[i])
    BY <1>5 DEF PostNext
  <2>2. list[i] \in Mine /\ list[i] \in Held
    BY DEF Ahead, Pending, Held
  <2>3. list[i] <= typed
    BY <2>2 DEF Records
  <2> QED
    BY <1>2, <1>5, <2>1, <2>2, <2>3 DEF PostNext, network
<1>6. CASE Send
  <2>1. /\ slot' = Nobody /\ typed' = typed /\ got' = got /\ slot \in Mine
        /\ \A p \in sent' : p \in sent \/ p = [number |-> number + 1, text |-> slot]
    BY <1>6, Sending DEF Send
  <2>2. \A p \in sent' : p.text <= typed
    BY <2>1 DEF WrittenFirst
  <2> QED
    BY <1>0, <2>1, <2>2 DEF WrittenFirst
<1>7. CASE ChangeLink
  BY <1>7 DEF ChangeLink, history, WrittenFirst
<1>8. CASE Deliver
  BY <1>8 DEF Deliver, WrittenFirst
<1>9. CASE Restart
  BY <1>0, <1>9 DEF Restart, history, WrittenFirst
<1>10. CASE TakeReceipt \/ ClearReceipt
  BY <1>1, <1>10 DEF TakeReceipt, ClearReceipt, network, history
<1>11. ASSUME NEW t \in Thread, Save(t) \/ Add(t) PROVE WrittenFirst'
  BY <1>1, <1>11 DEF Save, Add, network, history
<1>12. CASE Arrive \/ StartQueue \/ EndQueue \/ ClearList \/ RemoveLog \/ UNCHANGED vars
  BY <1>1, <1>12 DEF Arrive, StartQueue, EndQueue, ClearList, RemoveLog, vars, network, history
<1> QED
  BY <1>3, <1>4, <1>5, <1>6, <1>7, <1>8, <1>9, <1>10, <1>11, <1>12, NextCases

\* What keeps SavesApart: the same texts in the log, and no more marks.
LEMMA SavesApartKept ==
    ASSUME SavesApart, DOMAIN log' = DOMAIN log,
           \A k \in DOMAIN log : log'[k].text = log[k].text,
           Is("core", "save")' =>
             /\ doing'["core"] = doing["core"]
             /\ msg'[doing["core"].id].offset = msg[doing["core"].id].offset
             /\ log' = log,
           Is("ui", "save")' =>
             /\ doing'["ui"] = doing["ui"]
             /\ msg'[doing["ui"].id].offset = msg[doing["ui"].id].offset
             /\ msg'[doing["ui"].id].acked => msg[doing["ui"].id].acked
    PROVE  SavesApart'
<1>1. CASE Is("core", "save")' /\ Is("ui", "save")'
  BY <1>1 DEF SavesApart, Is
<1>2. CASE Is("core", "save")' /\ ~Is("ui", "save")'
  BY <1>2 DEF SavesApart, Is
<1>3. CASE ~Is("core", "save")' /\ Is("ui", "save")'
  BY <1>3 DEF SavesApart, Is
<1>4. CASE ~Is("core", "save")' /\ ~Is("ui", "save")'
  BY <1>4 DEF SavesApart
<1> QED
  BY <1>1, <1>2, <1>3, <1>4

LEMMA SavesApartInductive ==
    TypeOK /\ Places /\ Numbers /\ Records /\ SavesApart /\ [Next]_vars => SavesApart'
<1> SUFFICES ASSUME TypeOK, Places, Numbers, Records, SavesApart, [Next]_vars PROVE SavesApart'
  OBVIOUS
<1>0. /\ \A t \in Thread : doing[t].at = "save" => doing[t].id \in Text
      /\ doing["ui"].at = "save" => doing["ui"].id \in Mine
      /\ doing["core"].at = "save" => doing["core"].id \in Text \ Mine
      /\ Mine \subseteq Text
      /\ \A u \in Text : msg[u].offset \in Nat
  <2>1. doing["ui"].at = "save" => doing["ui"].id \in Mine
    BY MessageLogAssumption DEF Places, TypeOK, WorkTypes, Mine
  <2>2. doing["core"].at = "save" => doing["core"].id \in Text \ Mine
    BY DEF Places
  <2>3. \A u \in Text : msg[u].offset \in Nat
    BY DEF TypeOK, MemoryTypes, Header
  <2> QED
    BY <2>1, <2>2, <2>3, TextsAreNumbered DEF Thread
<1>1. ASSUME UNCHANGED <<msg, log>>,
             doing'["core"] = doing["core"] \/ doing'["core"].at # "save",
             doing'["ui"] = doing["ui"] \/ doing'["ui"].at # "save"
      PROVE  SavesApart'
  BY <1>1, SavesApartKept DEF Is
<1>2. CASE Type
  <2> DEFINE m == typed + 1
  <2>1. /\ m \in Mine /\ m \in Text /\ UNCHANGED log
        /\ msg'[m] = Fresh(Len(log)) /\ \A u \in Text : u # m => msg'[u] = msg[u]
        /\ doing'["ui"].at = "save" /\ doing'["ui"].id = m
        /\ doing'["core"] = doing["core"]
    BY <1>2, TypeBegins, Begun, TextsAreNumbered DEF Thread
  <2>2. msg'[m].offset = Len(log) /\ ~msg'[m].acked
    BY <2>1 DEF Fresh
  <2> HIDE DEF m
  <2>3. \A k \in DOMAIN log' : ~(k > msg'[m].offset)
    BY <2>1, <2>2, ListFacts
  <2>4. doing["core"].at = "save" => msg'[doing["core"].id] = msg[doing["core"].id]
    BY <1>0, <2>1 DEF Thread
  <2> QED
    BY <2>1, <2>2, <2>3, <2>4 DEF SavesApart, Is
<1>3. CASE Arrive
  <2> DEFINE m == Own + arrived + 1
  <2>1. /\ m \in Text \ Mine /\ UNCHANGED log
        /\ msg'[m] = Fresh(Len(log)) /\ \A u \in Text : u # m => msg'[u] = msg[u]
        /\ doing'["core"].at = "save" /\ doing'["core"].id = m
        /\ doing'["ui"] = doing["ui"]
    BY <1>3, ArriveBegins, Begun DEF Thread
  <2>2. msg'[m].offset = Len(log)
    BY <2>1 DEF Fresh
  <2> HIDE DEF m
  <2>3. \A k \in DOMAIN log' : ~(k > msg'[m].offset)
    BY <2>1, <2>2, ListFacts
  <2>4. doing["ui"].at = "save" => msg'[doing["ui"].id] = msg[doing["ui"].id]
    BY <1>0, <2>1 DEF Thread
  <2> QED
    BY <2>1, <2>3, <2>4 DEF SavesApart, Is
<1>4. CASE Save("ui")
  <2> DEFINE m == doing["ui"].id
  <2>1. /\ m \in Mine /\ ~msg[m].acked /\ doing'["ui"].at = "post"
        /\ doing'["core"] = doing["core"] /\ msg' = msg
    BY <1>0, <1>4, Saving DEF Thread, memory, SavesApart, Is
  <2>2. \A j \in DOMAIN log' :
           \/ log'[j] = RecordOf(m)
           \/ j \in DOMAIN log /\ log'[j] = log[j]
    BY <1>4, Written DEF Thread
  <2>3. ~RecordOf(m).receipt
    BY <2>1 DEF RecordOf
  <2> QED
    BY <2>1, <2>2, <2>3 DEF SavesApart, Is
<1>5. CASE Save("core")
  <2> DEFINE m == doing["core"].id
  <2>1. /\ m \in Text \ Mine /\ doing'["core"].at = "add"
        /\ doing'["ui"] = doing["ui"] /\ msg' = msg
    BY <1>0, <1>5, Saving DEF Thread, memory
  <2>2. \A j \in DOMAIN log' :
           \/ log'[j] = RecordOf(m)
           \/ j \in DOMAIN log /\ log'[j] = log[j]
    BY <1>5, Written DEF Thread
  <2>3. RecordOf(m).text \notin Mine
    BY <2>1 DEF RecordOf
  <2> QED
    BY <2>1, <2>2, <2>3 DEF SavesApart, Is
<1>6. ASSUME NEW t \in Thread, Add(t) PROVE SavesApart'
  <2>1. doing'[t].at = "idle" /\ \A u \in Thread : u # t => doing'[u] = doing[u]
    BY <1>6, Adding
  <2> QED
    BY <1>1, <1>6, <2>1, Adding DEF Thread
<1>7. CASE Post
  <2>1. "add" \in Place /\ doing["ui"].id \in Nat /\ 0 \in Nat
    BY DEF TypeOK, WorkTypes, Work, Thread, Place
  <2>2. doing'["ui"].at = "add" /\ doing'["core"] = doing["core"]
    BY <1>7, <2>1, NowMoves DEF Post, TypeOK, Thread
  <2> QED
    BY <1>1, <1>7, <2>2 DEF Post, memory
<1>8. CASE StartQueue
  <2>1. /\ doing'["ui"].at = "queue" /\ doing'["core"] = doing["core"]
        /\ UNCHANGED <<memory, log>>
    BY <1>8, QueueStarts
  <2> QED
    BY <1>1, <2>1 DEF memory
<1>9. CASE PostNext
  <2>1. /\ doing'["ui"].at = "queue" /\ doing'["core"] = doing["core"]
        /\ UNCHANGED <<memory, log>>
    BY <1>9, QueuePosts
  <2> QED
    BY <1>1, <2>1 DEF memory
<1>10. CASE EndQueue
  <2>1. doing'["ui"].at = "idle" /\ doing'["core"] = doing["core"]
    BY <1>10, Idling DEF EndQueue, Thread
  <2> QED
    BY <1>1, <1>10, <2>1 DEF EndQueue, memory
<1>11. CASE ClearList
  <2>1. "remove" \in Place /\ 0 \in Nat
    BY DEF Place
  <2>2. doing'["ui"].at = "remove" /\ doing'["core"] = doing["core"]
    BY <1>11, <2>1, NowMoves DEF ClearList, TypeOK, Thread
  <2> QED
    BY <1>1, <1>11, <2>2 DEF ClearList
<1>12. CASE RemoveLog
  <2>1. log' = <<>> /\ ~Is("core", "save")' /\ ~Is("ui", "save")'
    BY <1>12 DEF RemoveLog, Is, Idle, Step, TypeOK, WorkTypes, Thread, Work
  <2> QED
    BY <2>1 DEF SavesApart
<1>13. CASE Send
  <2>1. /\ UNCHANGED <<log, doing>> /\ doing["core"].at = "idle"
        /\ \A u \in Text : msg'[u].offset = msg[u].offset
        /\ \A u \in Text : msg'[u].acked => msg[u].acked
    BY <1>13, Sending DEF Send, Is
  <2> QED
    BY <1>0, <2>1, SavesApartKept DEF Is, Thread
<1>14. CASE ChangeLink \/ Deliver \/ UNCHANGED vars
  BY <1>1, <1>14 DEF ChangeLink, Deliver, vars, memory
<1>15. CASE TakeReceipt
  <2>1. doing'["core"].at = "receipt" /\ doing'["ui"] = doing["ui"]
    <3>1. PICK n \in receipts : Now("core", Step("receipt", n, 0))
      BY <1>15 DEF TakeReceipt
    <3>2. n \in Nat /\ "receipt" \in Place
      BY DEF TypeOK, NetworkTypes, Place
    <3> QED
      BY <3>1, <3>2, NowMoves DEF TypeOK, Thread
  <2> QED
    BY <1>1, <1>15, <2>1 DEF TakeReceipt, memory
<1>16. CASE ClearReceipt
  <2>1. doing'["core"].at = "idle" /\ doing'["ui"] = doing["ui"]
    BY <1>16, Clearing
  <2>2. CASE msg' = msg /\ log' = log
    BY <1>1, <2>1, <2>2
  <2>3. ASSUME NEW i \in Positions, list[i] \in Held, log' \in {log, Updated(list[i])},
               msg' = [msg EXCEPT ![list[i]] = [@ EXCEPT !.receipt = Nobody, !.acked = TRUE]]
        PROVE  SavesApart'
    <3>1. list[i] \in Text
      BY <1>0, <2>3 DEF Held
    <3>2. /\ DOMAIN log' = DOMAIN log
          /\ \A k \in DOMAIN log : log'[k].text = log[k].text
      BY <2>3, <3>1, Marking
    <3>3. \A u \in Text : u # list[i] => msg'[u] = msg[u]
      BY <2>3, <3>1, Marked
    <3>4. doing["ui"].at = "save" => doing["ui"].id # list[i]
      BY <2>3 DEF Records, Is
    <3> QED
      BY <1>0, <2>1, <3>2, <3>3, <3>4, SavesApartKept DEF Is, Thread
  <2> QED
    BY <1>16, <2>2, <2>3, Clearing
<1>17. CASE Restart
  <2>1. \A u \in Thread : doing'[u].at = "idle"
    BY <1>17, Restarting
  <2> QED
    BY <2>1 DEF SavesApart, Is, Thread
<1> QED
  BY <1>2, <1>3, <1>4, <1>5, <1>6, <1>7, <1>8, <1>9, <1>10, <1>11, <1>12, <1>13, <1>14,
     <1>15, <1>16, <1>17, NextCases DEF Thread

ConversationInv == MessageInv /\ ResendInv /\ WrittenFirst /\ SavesApart

LEMMA ConversationInvHolds == Spec => []ConversationInv
<1>1. Init => ConversationInv
  <2> SUFFICES ASSUME Init PROVE ConversationInv
    OBVIOUS
  <2>1. WrittenFirst
    BY TextsAreNumbered DEF Init, WrittenFirst, Nobody
  <2>2. SavesApart
    BY DEF Init, SavesApart, Is, Idle, Step, Thread
  <2> QED
    BY <2>1, <2>2, InvHoldsInitially, ResendHoldsInitially DEF ConversationInv
<1>2. ConversationInv /\ [Next]_vars => ConversationInv'
  BY TypesInductive, NumbersInductive, RecordsInductive, MarksInductive,
     AllocatedHeldInductive, LogTrueInductive, OnceInductive, OneBearerInductive,
     QueueInductive, LookedAfterInductive, WrittenFirstInductive, SavesApartInductive
  DEF ConversationInv, MessageInv, ResendInv
<1> QED
  BY <1>1, <1>2, PTL DEF Spec

LEMMA NothingSeen ==
    ASSUME UNCHANGED <<msg, log, typed, got>>,
           allocated' \cap Mine = allocated \cap Mine
    PROVE  UNCHANGED User!cvars
<1>1. Shown' = Shown /\ Noted' = Noted
  BY DEF Shown, Noted
<1> QED
  BY <1>1 DEF User!cvars

\* Fewer marks in memory, the same log.
LEMMA Unshown ==
    ASSUME UNCHANGED <<log, typed, got>>,
           allocated' \subseteq allocated,
           \A t \in Mine : msg'[t].acked => msg[t].acked
    PROVE  User!Unshow
<1>1. Shown' \subseteq Shown /\ Noted' = Noted
  BY DEF Shown, Noted
<1> QED
  BY <1>1 DEF User!Unshow

LEMMA TypeMaps ==
    ASSUME ConversationInv, Type
    PROVE  User!Write
<1> DEFINE m == typed + 1
<1>1. /\ typed < Own /\ typed' = m /\ m \in Mine /\ m \in Text /\ typed \in Nat
      /\ UNCHANGED <<log, got>> /\ allocated' = allocated \cup {m}
      /\ ~msg'[m].acked /\ \A u \in Text : u # m => msg'[u] = msg[u]
  <2>1. TypeOK
    BY DEF ConversationInv, MessageInv
  <2>2. /\ typed' = m /\ m \in Mine /\ m \in Text /\ typed \in Nat
        /\ UNCHANGED <<log, got>> /\ Begin("ui", m)
    BY <2>1, TypeBegins, TextsAreNumbered
  <2>3. msg'[m] = Fresh(Len(log)) /\ \A u \in Text : u # m => msg'[u] = msg[u]
    BY <2>1, <2>2, Begun DEF Thread
  <2> QED
    BY <2>2, <2>3 DEF Type, Begin, Fresh
<1>2. ~msg[m].acked
  <2>1. m \notin got
    BY <1>1 DEF ConversationInv, WrittenFirst
  <2> QED
    BY <1>1, <2>1 DEF ConversationInv, MessageInv, Marks
<1> HIDE DEF m
<1>3. Shown' = Shown
  BY <1>1, <1>2, TextsAreNumbered DEF Shown
<1>4. Noted' = Noted
  BY <1>1 DEF Noted
<1> QED
  BY <1>1, <1>3, <1>4 DEF User!Write, m

LEMMA SaveMaps ==
    ASSUME ConversationInv, NEW t \in Thread, Save(t)
    PROVE  UNCHANGED User!cvars
<1> DEFINE m == doing[t].id
           k == msg[m].offset + 1
<1>1. /\ m \in Text /\ UNCHANGED <<memory, typed, got>> /\ doing[t].at = "save"
      /\ t = "core" => m \notin Mine
      /\ DOMAIN log \subseteq DOMAIN log'
      /\ \A j \in DOMAIN log' :
            \/ j = k /\ log'[j] = RecordOf(m)
            \/ j # k /\ j \in DOMAIN log /\ log'[j] = log[j]
  BY Saving, Written DEF ConversationInv, MessageInv, Places
<1>2. RecordOf(m).text = m /\ RecordOf(m).receipt = msg[m].acked
  BY DEF RecordOf
<1>3. \A j \in DOMAIN log : j = k => j > msg[m].offset
  <2>1. msg[m].offset \in Nat
    BY <1>1 DEF ConversationInv, MessageInv, TypeOK, MemoryTypes, Header
  <2> QED
    BY <2>1
<1>4. m \in Mine => ~msg[m].acked
  BY <1>1 DEF ConversationInv, SavesApart, Is, Thread
<1>5. k \in DOMAIN log => ~(log[k].text \in Mine /\ log[k].receipt)
  BY <1>1, <1>3 DEF ConversationInv, SavesApart, Is, Thread
<1> HIDE DEF m, k
<1>6. Noted' \subseteq Noted
  BY <1>1, <1>2, <1>4 DEF Noted
<1>7. Noted \subseteq Noted'
  <2> SUFFICES ASSUME NEW u \in Mine, NEW j \in DOMAIN log, log[j].text = u, log[j].receipt
               PROVE  \E l \in DOMAIN log' : log'[l].text = u /\ log'[l].receipt
    BY DEF Noted
  <2>1. j # k /\ j \in DOMAIN log'
    BY <1>1, <1>5
  <2> QED
    BY <1>1, <2>1
<1>8. Shown' = Shown
  BY <1>1 DEF Shown, memory
<1> QED
  BY <1>1, <1>6, <1>7, <1>8 DEF User!cvars

\* messages_clear_receipt: the friend has the text, and the mark in the log, if
\* one is made, is on its record or on one of the friend's.
LEMMA ClearReceiptMaps ==
    ASSUME ConversationInv, ClearReceipt
    PROVE  User!Confirm \/ UNCHANGED User!cvars
<1> USE DEF ConversationInv, MessageInv
<1>1. UNCHANGED <<list, allocated, typed, got>>
  BY Clearing DEF network
<1>2. CASE msg' = msg /\ log' = log
  BY <1>1, <1>2, NothingSeen
<1>3. ASSUME NEW i \in Positions, list[i] \in Held, list[i] \in got,
             log' \in {log, Updated(list[i])},
             msg' = [msg EXCEPT ![list[i]] = [@ EXCEPT !.receipt = Nobody, !.acked = TRUE]]
      PROVE  User!Confirm
  <2> DEFINE m == list[i]
             k == msg[m].offset + 1
  <2>1. m \in Mine /\ m \in Text /\ m \in allocated
    BY <1>3, TextsAreNumbered DEF Held, ResendInv, Once
  <2>2. msg'[m].acked /\ \A u \in Text : u # m => msg'[u] = msg[u]
    BY <1>3, <2>1, Marked
  <2>3. Shown' = Shown \cup {m}
    BY <1>1, <2>1, <2>2, TextsAreNumbered DEF Shown
  <2>4. CASE log' = log
    <3>1. Noted' = Noted
      BY <2>4 DEF Noted
    <3> QED
      BY <1>1, <1>3, <2>3, <3>1 DEF User!Confirm
  <2>5. CASE log' = Updated(m)
    <3>1. k \in DOMAIN log /\ log[k].text \in {m} \cup (Text \ Mine)
      BY <1>3 DEF Records
    <3>2. /\ DOMAIN log' = DOMAIN log
          /\ log'[k].text = log[k].text /\ log'[k].receipt = TRUE
          /\ \A j \in DOMAIN log : j # k => log'[j] = log[j]
      BY <2>1, <2>5, <3>1, MarkedOnDisk
    <3> HIDE DEF k
    <3>3. CASE log[k].text = m
      <4>1. Noted' = Noted \cup {m}
        BY <2>1, <3>1, <3>2, <3>3 DEF Noted
      <4> QED
        BY <1>1, <1>3, <2>3, <4>1 DEF User!Confirm
    <3>4. CASE log[k].text \notin Mine
      <4>1. Noted' = Noted
        BY <3>1, <3>2, <3>4 DEF Noted
      <4> QED
        BY <1>1, <1>3, <2>3, <4>1 DEF User!Confirm
    <3> QED
      BY <2>1, <3>1, <3>3, <3>4
  <2> QED
    BY <1>3, <2>4, <2>5
<1> QED
  BY <1>2, <1>3, Clearing

LEMMA RestartMaps ==
    ASSUME ConversationInv, Restart
    PROVE  User!Reload
<1>1. /\ \A t \in Text :
           \/ msg'[t] = Fresh(0)
           \/ \E k \in DOMAIN log : log[k].text = t /\ msg'[t] = RecordedAt(k)
      /\ UNCHANGED <<log, typed, got>>
  BY Restarting DEF ConversationInv, MessageInv
<1>2. Shown' \subseteq Noted
  <2> SUFFICES ASSUME NEW t \in Mine, msg'[t].acked
               PROVE  \E k \in DOMAIN log : log[k].text = t /\ log[k].receipt
    BY DEF Shown, Noted
  <2>1. msg'[t] # Fresh(0)
    BY DEF Fresh
  <2>2. PICK k \in DOMAIN log : log[k].text = t /\ msg'[t] = RecordedAt(k)
    BY <1>1, <2>1, TextsAreNumbered
  <2> QED
    BY <2>2 DEF RecordedAt
<1>3. Noted' = Noted
  BY <1>1 DEF Noted
<1> QED
  BY <1>1, <1>2, <1>3 DEF User!Reload

\* The two threads, the mailbox, toxcore and the file keep what the user relies
\* on: no text reaches the friend before it is written, a mark appears on the
\* screen one text at a time and for a text that the friend has, the log never
\* loses a mark but when it is cleared, not even where two saves overlap, and
\* what a restart shows as confirmed is what the log had.
THEOREM LogKeepsConversation == Spec => ConversationSpec
<1>1. Init => User!CInit
  <2> SUFFICES ASSUME Init PROVE User!CInit
    OBVIOUS
  <2>1. Shown = {} /\ Noted = {}
    BY DEF Init, Shown, Noted
  <2> QED
    BY <2>1 DEF Init, User!CInit
<1>2. ConversationInv /\ [Next]_vars => [User!CNext]_(User!cvars)
  <2> SUFFICES ASSUME ConversationInv, [Next]_vars
               PROVE  User!CNext \/ UNCHANGED User!cvars
    OBVIOUS
  <2>0. TypeOK /\ Places
    BY DEF ConversationInv, MessageInv
  <2>1. CASE Type
    BY <2>1, TypeMaps DEF User!CNext
  <2>2. CASE Arrive
    <3>1. /\ UNCHANGED <<log, typed, got>>
          /\ Own + arrived + 1 \in Text \ Mine
          /\ allocated' = allocated \cup {Own + arrived + 1}
          /\ \A u \in Text : u # Own + arrived + 1 => msg'[u] = msg[u]
      BY <2>0, <2>2, ArriveBegins, Begun DEF Begin, Thread
    <3>2. \A u \in Mine : u \in Text /\ u # Own + arrived + 1
      BY <3>1, TextsAreNumbered
    <3>3. Shown' = Shown /\ Noted' = Noted
      BY <3>1, <3>2 DEF Shown, Noted
    <3> QED
      BY <3>1, <3>3 DEF User!cvars
  <2>3. ASSUME NEW t \in Thread, Save(t)
        PROVE  UNCHANGED User!cvars
    BY <2>3, SaveMaps
  <2>4. ASSUME NEW t \in Thread, Add(t)
        PROVE  User!CNext
    BY <2>0, <2>4, Adding, Unshown DEF User!CNext
  <2>5. CASE Post \/ StartQueue \/ PostNext \/ EndQueue \/ ChangeLink \/ TakeReceipt
             \/ UNCHANGED vars
    BY <2>5, NothingSeen
    DEF Post, StartQueue, PostNext, EndQueue, ChangeLink, TakeReceipt, memory, history, vars
  <2>6. CASE ClearList
    <3>1. UNCHANGED <<msg, log, typed, got>> /\ allocated' \subseteq allocated
      BY <2>6 DEF ClearList, history
    <3> QED
      BY <3>1, Unshown DEF User!CNext
  <2>7. CASE RemoveLog
    <3>1. log' = <<>> /\ UNCHANGED <<memory, typed, got>>
      BY <2>7 DEF RemoveLog, history
    <3>2. Noted' = {} /\ Shown' = Shown
      BY <3>1 DEF Noted, Shown, memory
    <3> QED
      BY <3>1, <3>2 DEF User!CNext, User!ClearLog
  <2>8. CASE Send
    <3>1. /\ UNCHANGED <<allocated, log, typed, got>> /\ slot \in Text
          /\ \A u \in Text : msg'[u].acked => msg[u].acked
      BY <2>0, <2>8, Sending
    <3> QED
      BY <3>1, Unshown, TextsAreNumbered DEF User!CNext
  <2>9. CASE Deliver
    <3>1. PICK p \in sent : got' = got \cup {p.text}
      BY <2>9 DEF Deliver
    <3>2. p.text \in 1..typed
      <4>1. p.text \in Mine /\ typed \in Nat
        BY <2>0 DEF TypeOK, NetworkTypes, WorkTypes
      <4>2. p.text <= typed
        BY DEF ConversationInv, WrittenFirst
      <4> QED
        BY <4>1, <4>2 DEF Mine
    <3>3. UNCHANGED <<memory, log, typed>>
      BY <2>9 DEF Deliver
    <3>4. Shown' = Shown /\ Noted' = Noted
      BY <3>3 DEF Shown, Noted, memory
    <3> QED
      BY <3>1, <3>2, <3>3, <3>4 DEF User!CNext, User!Receive
  <2>10. CASE ClearReceipt
    BY <2>10, ClearReceiptMaps DEF User!CNext
  <2>11. CASE Restart
    BY <2>11, RestartMaps DEF User!CNext
  <2> QED
    BY <2>1, <2>2, <2>3, <2>4, <2>5, <2>6, <2>7, <2>8, <2>9, <2>10, <2>11, NextCases
<1> QED
  BY <1>1, <1>2, ConversationInvHolds, PTL DEF Spec, ConversationSpec, User!CSpec
=============================================================================
