------------------------- MODULE ContactListProofs -------------------------
(***************************************************************************)
(* Theorems about ContactList, for any number of people, and any length of *)
(* the arrays and the queue.                                               *)
(***************************************************************************)
EXTENDS ContactList, FiniteSetTheorems, TLAPS

USE DEF friendVars, mouseVars, pageVars, messageVars, histVars, requestVars

-----------------------------------------------------------------------------
(* The shape of the list *)

\* The last entry is no friend and no request; the list is only gone while Tox
\* restarts, when no menu is open and nobody asks anything of toxcore.
ListShape ==
    /\ item # <<>> => item[Len(item)] \in {CreateGroup, Spare}
    /\ item = <<>> => "restart" \in odd
    /\ selected_item <= Len(item) /\ selected_item # 0
    /\ menu # "closed" => item # <<>>
    /\ tox # "run" \/ mailbox.tag = "KILL" => item = <<>>
    /\ tox = "down" => mailbox = Empty
    /\ mailbox.tag \in {"DELETE", "KILL"} => tox = "run"

\* The button that accepts is only there for a request.
RequestPanel ==
    "request" \in panels => Listed(selected_item) /\ item[selected_item].type = "request"

FriendEntries == {i \in DOMAIN item : item[i].type = "friend"}
OnTheWay == {k \in DOMAIN uiq : uiq[k].tag \in {"ADDED", "ACCEPTED", "REMOVE"}}

\* Friends that friend_list_count counts: in the list or on their way to or from it.
Owed ==
    Cardinality(FriendEntries) + Cardinality(OnTheWay)
    + (IF mailbox.tag = "DELETE" THEN 1 ELSE 0) + (IF tox = "up" THEN friend_list_size ELSE 0)

CountCovers == friend_list_count >= Owed

Base == TypeOK /\ ListShape /\ RequestPanel /\ CountCovers

-----------------------------------------------------------------------------
(* Constants, entries and messages *)

Panels == {"friend", "confirm", "request", "create"}

LEMMA Constants ==
    /\ IsFiniteSet(Number) /\ Cardinality(Number) = Cardinality(Person)
    /\ Cardinality(Person) \in Nat \ {0} /\ Number = 0 .. Cardinality(Person) - 1
    /\ 0 \in Number /\ Number \subseteq Nat /\ Nobody \notin Person
<1>1. Cardinality(Person) \in Nat
  BY FS_CardinalityType, ContactListAssumption
<1>2. Cardinality(Person) # 0
  BY FS_EmptySet, ContactListAssumption
<1>3. IsFiniteSet(Number) /\ Cardinality(Number) = Cardinality(Person)
  BY <1>1, <1>2, FS_Interval DEF Number
<1> QED
  BY <1>1, <1>2, <1>3, ContactListAssumption DEF Number

LEMMA EntryFacts ==
    ASSUME NEW e \in Entry
    PROVE  /\ e.type \in {"friend", "request", "create", "none"}
           /\ e.type = "friend" => e.id \in Number /\ e = Friend(e.id)
           /\ e.type = "request" => e.id \in Nat \ {0} /\ e = Request(e.id)
           /\ e.type = "create" => e = CreateGroup
           /\ e.type = "none" => e = Spare
           /\ e \in {CreateGroup, Spare} <=> e.type \notin {"friend", "request"}
  BY DEF Entry, Friend, Request, CreateGroup, Spare

LEMMA NewEntries ==
    /\ CreateGroup \in Entry /\ Spare \in Entry
    /\ CreateGroup.type = "create" /\ Spare.type = "none" /\ CreateGroup # Spare
    /\ \A n : /\ Friend(n).type = "friend" /\ Friend(n).id = n
              /\ n \in Number => Friend(n) \in Entry
    /\ \A r : /\ Request(r).type = "request" /\ Request(r).id = r
              /\ r \in Nat \ {0} => Request(r) \in Entry
  BY DEF Entry, Friend, Request, CreateGroup, Spare

LEMMA MessageFacts ==
    ASSUME NEW m \in Message
    PROVE  /\ m.tag \in {"INCOMING", "ADDED", "ACCEPTED", "REMOVE"}
           /\ m.tag = "INCOMING" => m.at \in Nat \ {0}
           /\ m.tag = "ADDED" => m.number \in Number /\ m.who \in Person
           /\ m.tag = "ACCEPTED" => m.number \in Number /\ m.at \in {Dangling} \cup (Nat \ {0})
           /\ m.tag = "REMOVE" => m.at \in Number \cup {Dangling, Leaked}
  BY DEF Message

LEMMA NewMessages ==
    /\ \A r \in Nat \ {0} : [tag |-> "INCOMING", at |-> r] \in Message
    /\ \A n \in Number, p \in Person : [tag |-> "ADDED", number |-> n, who |-> p] \in Message
    /\ \A n \in Number, r \in {Dangling} \cup (Nat \ {0}) :
          [tag |-> "ACCEPTED", number |-> n, at |-> r] \in Message
    /\ \A p \in Number \cup {Dangling, Leaked} : [tag |-> "REMOVE", at |-> p] \in Message
  BY DEF Message

LEMMA CommandFacts ==
    ASSUME NEW c \in Command
    PROVE  /\ c.tag \in {"none", "ADD", "ACCEPT", "DELETE", "KILL"}
           /\ c.tag = "none" => c = Empty
           /\ c.tag = "ADD" => c.who \in Person
           /\ c.tag = "ACCEPT" => c.at \in {Dangling} \cup Nat
           /\ c.tag = "DELETE" => c.number \in Number /\ c.at \in Number
  BY DEF Command, Empty

LEMMA NewCommands ==
    /\ Empty \in Command /\ Empty.tag = "none"
    /\ \A p \in Person : [tag |-> "ADD", who |-> p] \in Command
    /\ \A r \in {Dangling} \cup Nat : [tag |-> "ACCEPT", at |-> r] \in Command
    /\ \A n, m \in Number : [tag |-> "DELETE", number |-> n, at |-> m] \in Command
    /\ [tag |-> "KILL"] \in Command
  BY DEF Command, Empty

-----------------------------------------------------------------------------
(* Sequences *)

LEMMA ConcatFacts ==
    ASSUME NEW S, NEW s \in Seq(S), NEW u \in Seq(S)
    PROVE  /\ s \o u \in Seq(S) /\ Len(s \o u) = Len(s) + Len(u)
           /\ \A k \in 1 .. Len(s) : (s \o u)[k] = s[k]
           /\ \A k \in 1 .. Len(u) : (s \o u)[Len(s) + k] = u[k]
  OBVIOUS

LEMMA PrefixFacts ==
    ASSUME NEW S, NEW s \in Seq(S), NEW n \in 0 .. Len(s)
    PROVE  /\ SubSeq(s, 1, n) \in Seq(S) /\ Len(SubSeq(s, 1, n)) = n
           /\ \A k \in 1 .. n : SubSeq(s, 1, n)[k] = s[k]
<1>1. Len(s) \in Nat /\ n \in Nat /\ n <= Len(s)
  OBVIOUS
<1>2. /\ SubSeq(s, 1, n) = [k \in 1 .. n |-> s[k]]
      /\ \A k \in 1 .. n : s[k] \in S
  BY <1>1
<1>3. SubSeq(s, 1, n) \in Seq(S)
  BY <1>1, <1>2
<1>4. Len(SubSeq(s, 1, n)) = n
  BY <1>1, <1>2
<1> QED
  BY <1>1, <1>2, <1>3, <1>4

LEMMA FrontFacts ==
    ASSUME NEW S, NEW s \in Seq(S), s # <<>>
    PROVE  /\ Len(s) \in Nat \ {0}
           /\ SubSeq(s, 1, Len(s) - 1) \in Seq(S)
           /\ Len(SubSeq(s, 1, Len(s) - 1)) = Len(s) - 1
           /\ \A k \in 1 .. Len(s) - 1 : SubSeq(s, 1, Len(s) - 1)[k] = s[k]
<1>1. Len(s) \in Nat \ {0}
  OBVIOUS
<1>2. Len(s) - 1 \in 0 .. Len(s)
  BY <1>1
<1> QED
  BY <1>1, <1>2, PrefixFacts

LEMMA GrownFacts ==
    ASSUME NEW entry \in Entry, item \in Seq(Entry), item # <<>>
    PROVE  /\ Grown(entry) \in Seq(Entry)
           /\ Len(Grown(entry)) = Len(item) + 1
           /\ \A i \in 1 .. Len(item) - 1 : Grown(entry)[i] = item[i]
           /\ Grown(entry)[Len(item)] = entry
           /\ Grown(entry)[Len(item) + 1] = CreateGroup
<1> DEFINE front == SubSeq(item, 1, Len(item) - 1)
           new == <<entry, CreateGroup>>
<1>1. Len(item) \in Nat \ {0}
  OBVIOUS
<1>2. /\ front \in Seq(Entry) /\ Len(front) = Len(item) - 1
      /\ \A i \in 1 .. Len(item) - 1 : front[i] = item[i]
  BY FrontFacts
<1>3. new \in Seq(Entry) /\ Len(new) = 2 /\ new[1] = entry /\ new[2] = CreateGroup
  BY NewEntries
<1>4. Grown(entry) = front \o new
  BY DEF Grown
<1> HIDE DEF front, new
<1> QED
  <2>1. /\ front \o new \in Seq(Entry) /\ Len(front \o new) = Len(front) + Len(new)
        /\ \A k \in 1 .. Len(front) : (front \o new)[k] = front[k]
        /\ \A k \in 1 .. Len(new) : (front \o new)[Len(front) + k] = new[k]
    <3>1. front \in Seq(Entry)
      BY <1>2
    <3>2. new \in Seq(Entry)
      BY <1>3
    <3> QED
      BY <3>1, <3>2, ConcatFacts
  <2>2. 1 \in 1 .. Len(new) /\ 2 \in 1 .. Len(new) /\ Len(front) + 1 = Len(item)
        /\ Len(front) + 2 = Len(item) + 1
    BY <1>1, <1>2, <1>3
  <2> QED
    BY <1>1, <1>2, <1>3, <1>4, <2>1, <2>2

LEMMA RemoveFacts ==
    ASSUME NEW S, NEW s \in Seq(S), NEW i \in 1 .. Len(s)
    PROVE  /\ RemoveAt(s, i) \in Seq(S)
           /\ Len(RemoveAt(s, i)) = Len(s) - 1
           /\ \A k \in 1 .. Len(s) - 1 : RemoveAt(s, i)[k] = IF k < i THEN s[k] ELSE s[k + 1]
<1> DEFINE a == SubSeq(s, 1, i - 1)
           b == SubSeq(s, i + 1, Len(s))
<1>1. Len(s) \in Nat /\ i \in Nat \ {0} /\ i <= Len(s)
  OBVIOUS
<1>2. a \in Seq(S) /\ Len(a) = i - 1 /\ \A k \in 1 .. i - 1 : a[k] = s[k]
  <2>1. a = [k \in 1 .. i - 1 |-> s[k]] /\ \A k \in 1 .. i - 1 : s[k] \in S
    BY <1>1
  <2> QED
    BY <1>1, <2>1
<1>3. b \in Seq(S) /\ Len(b) = Len(s) - i /\ \A k \in 1 .. Len(s) - i : b[k] = s[i + k]
  <2>1. b = [k \in 1 .. Len(s) - i |-> s[i + k]] /\ \A k \in 1 .. Len(s) - i : s[i + k] \in S
    BY <1>1
  <2> QED
    BY <1>1, <2>1
<1>4. RemoveAt(s, i) = a \o b
  BY DEF RemoveAt
<1> HIDE DEF a, b
<1>c. /\ a \o b \in Seq(S) /\ Len(a \o b) = Len(a) + Len(b)
      /\ \A k \in 1 .. Len(a) : (a \o b)[k] = a[k]
      /\ \A k \in 1 .. Len(b) : (a \o b)[Len(a) + k] = b[k]
  <2>1. a \in Seq(S)
    BY <1>2
  <2>2. b \in Seq(S)
    BY <1>3
  <2> QED
    BY <2>1, <2>2, ConcatFacts
<1>5. RemoveAt(s, i) \in Seq(S) /\ Len(RemoveAt(s, i)) = Len(s) - 1
  BY <1>1, <1>2, <1>3, <1>4, <1>c
<1>6. ASSUME NEW k \in 1 .. Len(s) - 1 PROVE RemoveAt(s, i)[k] = IF k < i THEN s[k] ELSE s[k + 1]
  <2>1. CASE k < i
    BY <1>1, <1>2, <1>3, <1>4, <2>1, <1>c
  <2>2. CASE k >= i
    <3>1. k - i + 1 \in 1 .. Len(b) /\ Len(a) + (k - i + 1) = k /\ b[k - i + 1] = s[k + 1]
      BY <1>1, <1>2, <1>3, <2>2
    <3>2. (a \o b)[Len(a) + (k - i + 1)] = b[k - i + 1]
      BY <1>2, <1>3, <3>1, <1>c
    <3>3. RemoveAt(s, i)[k] = s[k + 1]
      BY <1>4, <3>1, <3>2
    <3>4. ~(k < i)
      BY <1>1, <2>2
    <3> QED
      BY <3>3, <3>4
  <2> QED
    BY <1>1, <2>1, <2>2
<1> QED
  BY <1>5, <1>6

LEMMA TailFacts ==
    ASSUME NEW S, NEW q \in Seq(S), q # <<>>
    PROVE  /\ Len(q) \in Nat \ {0} /\ Head(q) \in S /\ Head(q) = q[1]
           /\ Tail(q) \in Seq(S) /\ Len(Tail(q)) = Len(q) - 1
           /\ \A k \in 1 .. Len(q) - 1 : Tail(q)[k] = q[k + 1]
  OBVIOUS

LEMMA AppendFacts ==
    ASSUME NEW S, NEW q \in Seq(S), NEW m \in S
    PROVE  /\ Append(q, m) \in Seq(S) /\ Len(Append(q, m)) = Len(q) + 1
           /\ \A k \in 1 .. Len(q) : Append(q, m)[k] = q[k]
           /\ Append(q, m)[Len(q) + 1] = m
  OBVIOUS

-----------------------------------------------------------------------------
(* Pages *)

Conversations == Number \cup {NoFriend, Dangling, Leaked}

LEMMA OpensFacts ==
    ASSUME NEW e \in Entry
    PROVE  /\ Opens(e) \subseteq Panels \ {"confirm"}
           /\ e.type # "none" => Opens(e) = {e.type}
           /\ e.type = "none" => Opens(e) = {}
<1>1. e.type = "none" <=> e = Spare
  BY EntryFacts, NewEntries
<1>2. e.type \in {"friend", "request", "create", "none"}
  BY EntryFacts
<1> QED
  BY <1>1, <1>2 DEF Opens, Panels

LEMMA ClosesFacts ==
    ASSUME NEW list \in Seq(Entry), NEW i
    PROVE  /\ i \notin 1 .. Len(list) => Closes(list, i) = {}
           /\ i \in 1 .. Len(list) =>
                /\ list[i] \in Entry
                /\ list[i].type = "friend" => Closes(list, i) = {"friend", "confirm", "request"}
                /\ list[i].type = "request" => Closes(list, i) = {"request"}
                /\ list[i].type \in {"create", "none"} => Closes(list, i) = Opens(list[i])
  BY DEF Closes

LEMMA ShowPageFacts ==
    ASSUME NEW list \in Seq(Entry), NEW i \in 1 .. Len(list), ShowPage(list, i),
           panels \subseteq Panels, messages_friend \in Conversations
    PROVE  /\ panels' \subseteq Panels /\ messages_friend' \in Conversations
           /\ selected_item' = i
           /\ ("request" \in panels => /\ selected_item \in 1 .. Len(list)
                                       /\ list[selected_item].type \in {"friend", "request"})
              => ("request" \in panels' => list[i].type = "request")
<1>1. list[i] \in Entry
  OBVIOUS
<1>2. /\ panels' = (panels \ Closes(list, selected_item)) \cup Opens(list[i])
      /\ messages_friend' = IF list[i].type = "friend" THEN list[i].id ELSE messages_friend
      /\ selected_item' = i
  BY DEF ShowPage
<1>3. panels' \subseteq Panels
  BY <1>1, <1>2, OpensFacts
<1>4. messages_friend' \in Conversations
  BY <1>1, <1>2, EntryFacts DEF Conversations
<1>5. ASSUME "request" \in panels => /\ selected_item \in 1 .. Len(list)
                                     /\ list[selected_item].type \in {"friend", "request"},
             "request" \in panels'
      PROVE  list[i].type = "request"
  <2>1. "request" \notin panels \ Closes(list, selected_item)
    BY <1>5, ClosesFacts
  <2>2. "request" \in Opens(list[i])
    BY <1>2, <1>5, <2>1
  <2> QED
    BY <1>1, <2>2, OpensFacts, EntryFacts
<1> QED
  BY <1>2, <1>3, <1>4, <1>5

-----------------------------------------------------------------------------
(* Steps that leave the list alone *)

LEMMA OwedSame ==
    ASSUME UNCHANGED <<item, uiq, tox, friend_list_size>>,
           mailbox'.tag = "DELETE" <=> mailbox.tag = "DELETE"
    PROVE  Owed' = Owed
  BY DEF Owed, FriendEntries, OnTheWay

\* Of such a step, what concerns the invariant.
Stays ==
    /\ UNCHANGED <<core, tox, friendVars, item, uiq, limits>>
    /\ frequests' \in Seq(Person) /\ frequests_freed' \in BOOLEAN
    /\ \/ mailbox' = mailbox
       \/ /\ mailbox = Empty /\ tox # "down"
          /\ mailbox' \in Command /\ mailbox'.tag \in {"ADD", "ACCEPT"}
    /\ selected_item' \in Page /\ selected_item' <= Len(item) /\ selected_item' # 0
    /\ right_mouse_item' \in {Dangling} \cup Nat
    /\ menu' \in {"closed", "friend", "request"} /\ (menu' # "closed" => item # <<>>)
    /\ panels' \subseteq Panels /\ messages_friend' \in Conversations
    /\ ui' \in {"loop", "spin", "shrink"} /\ wanted' \subseteq Person
    /\ crashed' \in {"no", "ITEM", "NULL", "FREQUEST", "FRIEND", "freed"}
    /\ odd \subseteq odd' /\ odd' \subseteq OddEvent
    /\ "request" \in panels' => /\ selected_item' \in 1 .. Len(item)
                                /\ item[selected_item'].type = "request"

LEMMA StaysBase ==
    ASSUME Base, Stays
    PROVE  Base'
<1>1. TypeOK'
  BY DEF Base, TypeOK, Stays, Panels, Conversations
<1>2. ListShape'
  BY DEF Base, ListShape, Stays
<1>3. RequestPanel'
  BY DEF Stays, RequestPanel, Listed
<1>4. CountCovers'
  <2>1. mailbox'.tag = "DELETE" <=> mailbox.tag = "DELETE"
    BY NewCommands DEF Stays
  <2> QED
    BY <2>1, OwedSame DEF Base, CountCovers, Stays
<1> QED
  BY <1>1, <1>2, <1>3, <1>4 DEF Base

\* What Base says, without its definitions.
BaseFacts ==
    /\ item \in Seq(Entry) /\ Len(item) \in Nat
    /\ selected_item \in Page /\ selected_item <= Len(item) /\ selected_item # 0
    /\ right_mouse_item \in {Dangling} \cup Nat
    /\ menu \in {"closed", "friend", "request"} /\ (menu # "closed" => item # <<>>)
    /\ panels \subseteq Panels /\ messages_friend \in Conversations
    /\ ui \in {"loop", "spin", "shrink"} /\ wanted \subseteq Person
    /\ crashed \in {"no", "ITEM", "NULL", "FREQUEST", "FRIEND", "freed"}
    /\ odd \subseteq OddEvent /\ limits \in Limits
    /\ frequests \in Seq(Person) /\ frequests_freed \in BOOLEAN
    /\ mailbox \in Command /\ uiq \in Seq(Message) /\ tox \in {"run", "down", "up"}
    /\ core \in [Number -> Person \cup {Nobody}]
    /\ friend \in [Number -> [who : Person \cup {Nobody}, number : Number]]
    /\ friend_list_size \in 0 .. Cardinality(Person) /\ friend_list_count \in Nat
    /\ "request" \in panels => /\ selected_item \in 1 .. Len(item)
                               /\ item[selected_item].type = "request"

LEMMA BaseGives == ASSUME Base PROVE BaseFacts
  BY DEF Base, BaseFacts, TypeOK, ListShape, RequestPanel, Listed, Panels, Conversations

LEMMA HappensFacts ==
    ASSUME NEW events, Happens(events), BaseFacts
    PROVE  odd' = odd \cup events /\ odd' \subseteq OddEvent /\ odd \subseteq odd'
<1>1. limits.odd \subseteq OddEvent
  BY ContactListAssumption DEF BaseFacts
<1> QED
  BY <1>1 DEF Happens

LEMMA ShowItemStays ==
    ASSUME BaseFacts, NEW i \in 1 .. Len(item), ShowPage(item, i)
    PROVE  /\ panels' \subseteq Panels /\ messages_friend' \in Conversations
           /\ selected_item' = i /\ i \in Page /\ i <= Len(item) /\ i # 0
           /\ "request" \in panels' => item[i].type = "request"
<1>1. i \in Page /\ i <= Len(item) /\ i # 0
  BY DEF BaseFacts, Page
<1>2. "request" \in panels => /\ selected_item \in 1 .. Len(item)
                              /\ item[selected_item].type \in {"friend", "request"}
  BY DEF BaseFacts
<1>3. item \in Seq(Entry) /\ panels \subseteq Panels /\ messages_friend \in Conversations
  BY DEF BaseFacts
<1> QED
  BY <1>1, <1>2, <1>3, ShowPageFacts

LEMMA ClickStays ==
    ASSUME BaseFacts, NEW i \in 1 .. Len(item), Click(i)
    PROVE  Stays
  BY ShowItemStays DEF Click, BaseFacts, Stays

LEMMA ChangeTabStays ==
    ASSUME BaseFacts, NEW i \in 1 .. Len(item), ChangeTab(i)
    PROVE  Stays
<1>1. odd \subseteq odd' /\ odd' \subseteq OddEvent
  BY HappensFacts DEF ChangeTab
<1> QED
  BY <1>1, ShowItemStays DEF ChangeTab, BaseFacts, Stays

LEMMA AtFacts ==
    ASSUME BaseFacts, ListShape, item # <<>>, NEW i
    PROVE  /\ At(i) \in Entry
           /\ At(i).type \in {"friend", "request"} => i \in 1 .. Len(item) /\ At(i) = item[i]
<1>1. item[Len(item)] \in {CreateGroup, Spare} /\ Last(item) = item[Len(item)]
  BY DEF ListShape, Last
<1>2. Last(item).type \notin {"friend", "request"}
  BY <1>1, NewEntries
<1> QED
  BY <1>1, <1>2, NewEntries DEF At, Listed, BaseFacts

LEMMA RightPressStays ==
    ASSUME BaseFacts, ListShape, item # <<>>, NEW i \in 1 .. Len(item) + 1, RightPress(i)
    PROVE  Stays
<1>1. At(i) \in Entry
      /\ (At(i).type \in {"friend", "request"} => i \in 1 .. Len(item) /\ At(i) = item[i])
  BY AtFacts
<1>2. menu' \in {"closed", "friend", "request"}
  BY <1>1, EntryFacts DEF RightPress, BaseFacts
<1>3. right_mouse_item' \in {Dangling} \cup Nat
  BY DEF RightPress, BaseFacts
<1>4. CASE At(i).type = "friend"
  BY <1>1, <1>2, <1>3, <1>4, ShowItemStays DEF RightPress, BaseFacts, Stays
<1>5. CASE At(i).type # "friend"
  BY <1>1, <1>2, <1>3, <1>5 DEF RightPress, BaseFacts, Stays
<1> QED
  BY <1>4, <1>5

LEMMA FaultStays ==
    ASSUME BaseFacts, MouseFault \/ DrawFault
    PROVE  Stays
  BY DEF BaseFacts, Stays, MouseFault, DrawFault, Fault

LEMMA DenyStays ==
    ASSUME BaseFacts, DenyDeletion
    PROVE  Stays
  BY DEF BaseFacts, Stays, DenyDeletion

LEMMA StaticStays ==
    ASSUME BaseFacts, NEW page \in {SettingsPage, AddPage}, SelectStatic(page)
    PROVE  Stays
<1>1. page \in Page /\ page <= Len(item) /\ page # 0
  BY DEF BaseFacts, Page, SettingsPage, AddPage
<1>2. panels' = panels \ Closes(item, selected_item) /\ selected_item' = page
      /\ messages_friend' = messages_friend
  BY DEF SelectStatic, ShowStatic
<1>3. "request" \notin panels'
  BY <1>2, ClosesFacts DEF BaseFacts
<1> QED
  BY <1>1, <1>2, <1>3 DEF SelectStatic, BaseFacts, Stays

LEMMA LeaveSpinStays ==
    ASSUME BaseFacts, LeaveSpin
    PROVE  Stays
  BY DEF BaseFacts, Stays, LeaveSpin

LEMMA SendStays ==
    ASSUME BaseFacts, NEW p \in Person, SendRequest(p)
    PROVE  Stays
<1>1. mailbox = Empty /\ tox # "down" /\ mailbox' = [tag |-> "ADD", who |-> p]
  BY DEF SendRequest, Post
<1>2. mailbox' \in Command /\ mailbox'.tag = "ADD"
  BY <1>1, NewCommands
<1> QED
  BY <1>1, <1>2 DEF SendRequest, BaseFacts, Stays

LEMMA AcceptFacts ==
    ASSUME BaseFacts, NEW r \in Nat \ {0}, Accept(r)
    PROVE  /\ mailbox = Empty /\ tox # "down" /\ mailbox' \in Command /\ mailbox'.tag = "ACCEPT"
           /\ mailbox'.at = r /\ r <= Len(frequests) /\ frequests[r] \in Person
           /\ wanted' = wanted \cup {frequests[r]} /\ wanted' \subseteq Person
<1>1. mailbox = Empty /\ tox # "down" /\ mailbox' = [tag |-> "ACCEPT", at |-> r]
      /\ r <= Len(frequests) /\ wanted' = wanted \cup {frequests[r]}
  BY DEF Accept, Post
<1>2. frequests[r] \in Person
  BY <1>1 DEF BaseFacts
<1> QED
  BY <1>1, <1>2, NewCommands DEF BaseFacts

LEMMA AcceptFriendStays ==
    ASSUME BaseFacts, AcceptFriend
    PROVE  Stays
<1> DEFINE entry == item[selected_item]
<1>1. panels' = panels \ {"request"}
  BY DEF AcceptFriend
<1>2. /\ mailbox = Empty /\ tox # "down" /\ mailbox' \in Command /\ mailbox'.tag = "ACCEPT"
      /\ wanted' \subseteq Person
  <2>1. CASE Listed(selected_item) /\ entry.type = "request" /\ entry.id <= Len(frequests)
    <3>1. entry \in Entry
      BY <2>1 DEF Listed, BaseFacts
    <3>2. entry.id \in Nat \ {0}
      BY <2>1, <3>1, EntryFacts
    <3>3. Accept(entry.id)
      BY <2>1 DEF AcceptFriend
    <3> QED
      BY <3>2, <3>3, AcceptFacts
  <2>2. CASE ~(Listed(selected_item) /\ entry.type = "request" /\ entry.id <= Len(frequests))
    <3>1. mailbox = Empty /\ tox # "down" /\ mailbox' = [tag |-> "ACCEPT", at |-> Null]
          /\ wanted' = wanted
      BY <2>2 DEF AcceptFriend, Post
    <3> QED
      BY <3>1, NewCommands DEF Null, BaseFacts
  <2> QED
    BY <2>1, <2>2
<1> QED
  BY <1>1, <1>2 DEF AcceptFriend, BaseFacts, Stays

LEMMA MenuSelectStays ==
    ASSUME BaseFacts, ListShape, MenuSelect
    PROVE  Stays
<1>1. item # <<>> /\ menu' = "closed"
      /\ UNCHANGED <<core, tox, friendVars, requestVars, uiq, limits, crashed>>
  BY DEF MenuSelect, BaseFacts
<1>2. CASE /\ panels' = panels \cup {"confirm"}
           /\ UNCHANGED <<item, right_mouse_item, selected_item, messages_friend, mailbox, ui,
                          wanted, odd>>
  BY <1>1, <1>2 DEF BaseFacts, Stays, Panels
<1>3. CASE /\ At(right_mouse_item).type = "request"
           /\ Accept(At(right_mouse_item).id)
           /\ UNCHANGED <<item, right_mouse_item, pageVars, ui, odd>>
  <2>1. At(right_mouse_item).id \in Nat \ {0}
    BY <1>1, <1>3, AtFacts, EntryFacts
  <2>2. /\ mailbox = Empty /\ tox # "down" /\ mailbox' \in Command /\ mailbox'.tag = "ACCEPT"
        /\ wanted' \subseteq Person
    BY <1>3, <2>1, AcceptFacts
  <2> QED
    BY <1>1, <1>3, <2>2 DEF BaseFacts, Stays
<1>4. CASE UNCHANGED <<item, right_mouse_item, pageVars, mailbox, ui, wanted, odd>>
  BY <1>1, <1>4 DEF BaseFacts, Stays
<1> QED
  BY <1>2, <1>3, <1>4 DEF MenuSelect

LEMMA ShrinkStays ==
    ASSUME BaseFacts, Shrink
    PROVE  Stays
<1>1. frequests' \in Seq(Person) /\ frequests_freed' \in BOOLEAN
  <2>1. CASE Len(frequests) > 1
    <3>1. frequests' = SubSeq(frequests, 1, Len(frequests) - 1) /\ frequests # <<>>
      BY <2>1 DEF Shrink, Front, BaseFacts
    <3> QED
      BY <2>1, <3>1, FrontFacts DEF Shrink, BaseFacts
  <2>2. CASE ~(Len(frequests) > 1)
    BY <2>2 DEF Shrink, BaseFacts
  <2> QED
    BY <2>1, <2>2
<1> QED
  BY <1>1 DEF Shrink, BaseFacts, Stays

(* Counting *)

\* Of the places up to n, i is taken away, and those behind it move.
Shifted(A, B, n, i) ==
    /\ n \in Nat /\ i \in 1 .. n /\ A \subseteq 1 .. n
    /\ B = {k \in 1 .. n - 1 : (IF k < i THEN k ELSE k + 1) \in A}

LEMMA ShiftedCount ==
    ASSUME NEW A, NEW B, NEW n, NEW i, Shifted(A, B, n, i)
    PROVE  /\ IsFiniteSet(A) /\ Cardinality(A) \in Nat
           /\ i \in A => Cardinality(A) # 0
           /\ Cardinality(B) = IF i \in A THEN Cardinality(A) - 1 ELSE Cardinality(A)
<1> DEFINE R == A \ {i}
           f == [k \in B |-> IF k < i THEN k ELSE k + 1]
<1>a. n \in Nat /\ i \in 1 .. n /\ A \subseteq 1 .. n
      /\ B = {k \in 1 .. n - 1 : (IF k < i THEN k ELSE k + 1) \in A}
  BY DEF Shifted
<1>b. IsFiniteSet(1 .. n) /\ IsFiniteSet(1 .. n - 1) /\ B \subseteq 1 .. n - 1
  BY <1>a, FS_Interval
<1>1. IsFiniteSet(A)
  BY <1>a, <1>b, FS_Subset
<1>2. /\ IsFiniteSet(R)
      /\ Cardinality(R) = IF i \in A THEN Cardinality(A) - 1 ELSE Cardinality(A)
      /\ Cardinality(A) \in Nat /\ Cardinality(R) \in Nat
  BY <1>1, FS_RemoveElement, FS_CardinalityType
<1>3. f \in Bijection(B, R)
  <2>1. f \in [B -> R]
    BY <1>a
  <2>2. \A x, y \in B : f[x] = f[y] => x = y
    BY <1>a
  <2>3. ASSUME NEW y \in R PROVE \E x \in B : f[x] = y
    <3>1. y \in 1 .. n /\ y \in A /\ y # i
      BY <1>a
    <3>2. CASE y < i
      <4>1. y \in B /\ f[y] = y
        BY <1>a, <3>1, <3>2
      <4> QED
        BY <4>1
    <3>3. CASE y > i
      <4>1. y - 1 \in B /\ f[y - 1] = y
        BY <1>a, <3>1, <3>3
      <4> QED
        BY <4>1
    <3>4. y < i \/ y > i
      BY <1>a, <3>1
    <3> QED
      BY <3>2, <3>3, <3>4
  <2> HIDE DEF f, R
  <2> QED
    BY <2>1, <2>2, <2>3 DEF Bijection, Injection, Surjection, IsInjective
<1>4. IsFiniteSet(B)
  BY <1>b, FS_Subset
<1>5. Cardinality(B) = Cardinality(R)
  <2> HIDE DEF f, R
  <2> QED
    BY <1>3, <1>4, FS_Bijection DEF ExistsBijection
<1> QED
  BY <1>1, <1>2, <1>5

LEMMA CountTypes ==
    ASSUME BaseFacts
    PROVE  /\ IsFiniteSet(FriendEntries) /\ Cardinality(FriendEntries) \in Nat
           /\ IsFiniteSet(OnTheWay) /\ Cardinality(OnTheWay) \in Nat
           /\ Owed \in Nat
<1>1. FriendEntries \subseteq 1 .. Len(item) /\ Len(item) \in Nat
  BY DEF FriendEntries, BaseFacts
<1>2. OnTheWay \subseteq 1 .. Len(uiq) /\ Len(uiq) \in Nat
  BY DEF OnTheWay, BaseFacts
<1>3. friend_list_size \in Nat
  BY Constants DEF BaseFacts
<1>4. IsFiniteSet(FriendEntries) /\ IsFiniteSet(OnTheWay)
  <2>1. IsFiniteSet(1 .. Len(item)) /\ IsFiniteSet(1 .. Len(uiq))
    BY <1>1, <1>2, FS_Interval
  <2> QED
    BY <1>1, <1>2, <2>1, FS_Subset
<1>5. Cardinality(FriendEntries) \in Nat /\ Cardinality(OnTheWay) \in Nat
  BY <1>4, FS_CardinalityType
<1> QED
  BY <1>3, <1>4, <1>5 DEF Owed

LEMMA RemovedEntries ==
    ASSUME BaseFacts, NEW i \in 1 .. Len(item), item' = RemoveAt(item, i)
    PROVE  Cardinality(FriendEntries')
             = IF item[i].type = "friend" THEN Cardinality(FriendEntries) - 1
               ELSE Cardinality(FriendEntries)
<1>1. /\ item' \in Seq(Entry) /\ Len(item') = Len(item) - 1
      /\ \A k \in 1 .. Len(item) - 1 : item'[k] = IF k < i THEN item[k] ELSE item[k + 1]
  <2>1. item \in Seq(Entry)
    BY DEF BaseFacts
  <2> QED
    BY <2>1, RemoveFacts
<1>2. Len(item) \in Nat /\ FriendEntries \subseteq 1 .. Len(item)
      /\ (i \in FriendEntries <=> item[i].type = "friend")
  BY DEF FriendEntries, BaseFacts
<1>3. FriendEntries'
        = {k \in 1 .. Len(item) - 1 : (IF k < i THEN k ELSE k + 1) \in FriendEntries}
  <2>1. FriendEntries' = {k \in 1 .. Len(item) - 1 : item'[k].type = "friend"}
    BY <1>1, <1>2 DEF FriendEntries
  <2>2. ASSUME NEW k \in 1 .. Len(item) - 1
        PROVE  item'[k].type = "friend" <=> (IF k < i THEN k ELSE k + 1) \in FriendEntries
    BY <1>1, <1>2 DEF FriendEntries
  <2> QED
    BY <2>1, <2>2
<1>4. Shifted(FriendEntries, FriendEntries', Len(item), i)
  BY <1>2, <1>3 DEF Shifted
<1> QED
  BY <1>2, <1>4, ShiftedCount

LEMMA TailWay ==
    ASSUME BaseFacts, uiq # <<>>, uiq' = Tail(uiq)
    PROVE  Cardinality(OnTheWay')
             = IF Head(uiq).tag = "INCOMING" THEN Cardinality(OnTheWay)
               ELSE Cardinality(OnTheWay) - 1
<1>1. /\ Len(uiq) \in Nat \ {0} /\ uiq' \in Seq(Message) /\ Len(uiq') = Len(uiq) - 1
      /\ \A k \in 1 .. Len(uiq) - 1 : uiq'[k] = uiq[k + 1]
      /\ Head(uiq) = uiq[1] /\ Head(uiq) \in Message
  BY TailFacts DEF BaseFacts
<1>2. OnTheWay \subseteq 1 .. Len(uiq) /\ 1 \in 1 .. Len(uiq)
      /\ (1 \in OnTheWay <=> Head(uiq).tag # "INCOMING")
  BY <1>1, MessageFacts DEF OnTheWay, BaseFacts
<1>3. OnTheWay' = {k \in 1 .. Len(uiq) - 1 : (IF k < 1 THEN k ELSE k + 1) \in OnTheWay}
  BY <1>1 DEF OnTheWay, BaseFacts
<1>4. Shifted(OnTheWay, OnTheWay', Len(uiq), 1)
  BY <1>1, <1>2, <1>3 DEF Shifted
<1> QED
  BY <1>2, <1>4, ShiftedCount

-----------------------------------------------------------------------------
(* Deleting entries *)

\* What the steps that delete an entry of a friend or a request have in common.
Deletes(i) ==
    /\ i \in 1 .. Len(item) - 1 /\ item[i].type \in {"friend", "request"}
    /\ FreeEntry(item[i])
    /\ item' = RemoveAt(item, i) /\ right_mouse_item' = Null
    /\ UNCHANGED <<core, tox, friendVars, requestVars, uiq, limits, crashed>>
    /\ selected_item' = IF selected_item > i THEN selected_item - 1 ELSE selected_item
    /\ i = selected_item =>
         /\ LET shown == (panels \ Closes(item, i)) \cup Opens(item[i + 1])
            IN \/ panels' = shown
               \/ panels' = shown \ {"request"} /\ item[i].type = "request"
         /\ messages_friend' = IF item[i + 1].type = "friend" THEN item[i + 1].id
                               ELSE messages_friend
    /\ i # selected_item => UNCHANGED <<panels, messages_friend>>

\* Of "create group", deleteitem only leaves the page.
Leaves ==
    /\ Looping /\ menu = "closed" /\ menu' = menu /\ right_mouse_item' = Null
    /\ UNCHANGED <<core, tox, friendVars, requestVars, item, ui, messageVars, histVars>>
    /\ \/ UNCHANGED pageVars
       \/ \E i \in 1 .. Len(item) : ShowPage(item, i)
       \/ ShowStatic(AddPage)

LEMMA EntryPlaces ==
    ASSUME BaseFacts, ListShape, NEW i \in 1 .. Len(item)
    PROVE  /\ item[i] \in Entry /\ i \in Nat \ {0} /\ i <= Len(item) /\ item # <<>>
           /\ item[i].type \in {"friend", "request"} => i \in 1 .. Len(item) - 1
           /\ item[Len(item)].type \notin {"friend", "request"}
           /\ item[i] \in {CreateGroup, Spare} <=> item[i].type \notin {"friend", "request"}
<1>1. item[Len(item)] \in {CreateGroup, Spare} /\ item[i] \in Entry /\ item # <<>>
  BY DEF ListShape, BaseFacts
<1>2. item[Len(item)].type \notin {"friend", "request"}
  BY <1>1, NewEntries
<1>3. item[i] \in {CreateGroup, Spare} <=> item[i].type \notin {"friend", "request"}
  BY <1>1, EntryFacts
<1> QED
  BY <1>1, <1>2, <1>3 DEF BaseFacts

LEMMA DeleteItemDeletes ==
    ASSUME BaseFacts, ListShape, NEW i \in 1 .. Len(item), DeleteItem(i)
    PROVE  \/ Deletes(i)
           \/ /\ item[i].type \notin {"friend", "request"} /\ right_mouse_item' = Null
              /\ UNCHANGED <<core, tox, friendVars, requestVars, item, ui, messageVars, histVars>>
              /\ \/ UNCHANGED pageVars
                 \/ \E k \in 1 .. Len(item) : ShowPage(item, k)
                 \/ ShowStatic(AddPage)
<1>1. /\ item[i] \in Entry /\ i \in Nat \ {0} /\ i <= Len(item) /\ Len(item) \in Nat
      /\ item[i].type \in {"friend", "request"} => i \in 1 .. Len(item) - 1
      /\ item[i] \in {CreateGroup, Spare} <=> item[i].type \notin {"friend", "request"}
  BY EntryPlaces DEF BaseFacts
<1>2. selected_item \in Int
  BY DEF BaseFacts, Page, SettingsPage, AddPage
<1>3. CASE item[i] \in {CreateGroup, Spare}
  <2>1. /\ right_mouse_item' = Null /\ ShowNeighbour(i) /\ selected_item' = Neighbour(i)
        /\ UNCHANGED <<core, tox, friendVars, requestVars, item, ui, messageVars, histVars>>
    BY <1>3 DEF DeleteItem
  <2>2. CASE i # selected_item
    BY <1>1, <1>3, <2>1, <2>2 DEF ShowNeighbour, Neighbour
  <2>3. CASE i = selected_item /\ Neighbour(i) = AddPage
    BY <1>1, <1>3, <2>1, <2>3 DEF ShowNeighbour, ShowStatic
  <2>4. CASE i = selected_item /\ Neighbour(i) # AddPage
    <3>1. Neighbour(i) \in 1 .. Len(item)
      BY <1>1, <2>4 DEF Neighbour
    <3>2. ShowPage(item, Neighbour(i))
      BY <2>1, <2>4 DEF ShowNeighbour, ShowPage
    <3> QED
      BY <1>1, <1>3, <2>1, <3>1, <3>2
  <2> QED
    BY <2>2, <2>3, <2>4
<1>4. CASE item[i] \notin {CreateGroup, Spare}
  <2>1. /\ right_mouse_item' = Null /\ ShowNeighbour(i)
        /\ FreeEntry(item[i]) /\ item' = RemoveAt(item, i)
        /\ selected_item' = IF Neighbour(i) > i THEN Neighbour(i) - 1 ELSE Neighbour(i)
        /\ UNCHANGED <<core, tox, friendVars, requestVars, uiq, limits, crashed>>
    BY <1>4 DEF DeleteItem
  <2>2. CASE i # selected_item
    BY <1>1, <1>2, <1>4, <2>1, <2>2 DEF Deletes, ShowNeighbour, Neighbour
  <2>3. CASE i = selected_item
    <3>1. Neighbour(i) = i + 1 /\ Neighbour(i) # AddPage
      BY <1>1, <1>4, <2>3 DEF Neighbour, AddPage
    <3>2. /\ panels' = (panels \ Closes(item, i)) \cup Opens(item[i + 1])
          /\ messages_friend' = IF item[i + 1].type = "friend" THEN item[i + 1].id
                                ELSE messages_friend
      BY <2>1, <2>3, <3>1 DEF ShowNeighbour
    <3>3. selected_item' = selected_item
      BY <1>1, <2>1, <2>3, <3>1
    <3> QED
      BY <1>1, <1>2, <1>4, <2>1, <2>3, <3>2, <3>3 DEF Deletes
  <2> QED
    BY <2>2, <2>3
<1> QED
  BY <1>3, <1>4

LEMMA DeclineDeletes ==
    ASSUME BaseFacts, ListShape, Decline
    PROVE  Deletes(right_mouse_item) /\ menu # "closed" /\ menu' = "closed" /\ Looping
<1>1. right_mouse_item \in 1 .. Len(item) /\ item[right_mouse_item].type = "request"
      /\ menu # "closed" /\ menu' = "closed" /\ Looping /\ DeleteItem(right_mouse_item)
  BY DEF Decline, Listed
<1> QED
  BY <1>1, DeleteItemDeletes

LEMMA ConfirmDeletes ==
    ASSUME BaseFacts, ListShape, ConfirmDeletion
    PROVE  \/ Deletes(right_mouse_item) /\ menu = "closed" /\ menu' = menu /\ Looping
           \/ Leaves
<1>1. right_mouse_item \in 1 .. Len(item) /\ DeleteItem(right_mouse_item)
      /\ menu = "closed" /\ menu' = menu /\ Looping
  BY DEF ConfirmDeletion, Listed
<1> QED
  BY <1>1, DeleteItemDeletes DEF Leaves

LEMMA IgnoreDeletes ==
    ASSUME BaseFacts, ListShape, IgnoreFriend
    PROVE  /\ Deletes(selected_item) /\ item[selected_item].type = "request"
           /\ menu = "closed" /\ menu' = menu /\ Looping
<1>1. /\ selected_item \in 1 .. Len(item) /\ item[selected_item].type = "request"
      /\ menu = "closed" /\ menu' = menu /\ Looping
      /\ right_mouse_item' = Null /\ FreeEntry(item[selected_item])
      /\ item' = RemoveAt(item, selected_item) /\ selected_item' = selected_item
      /\ UNCHANGED <<core, tox, friendVars, requestVars, uiq, limits, crashed>>
  BY DEF IgnoreFriend, Listed
<1>2. /\ panels' = (panels \cup Opens(item[selected_item + 1])) \ {"request"}
      /\ messages_friend' = IF item[selected_item + 1].type = "friend"
                            THEN item[selected_item + 1].id ELSE messages_friend
  BY DEF IgnoreFriend
<1>3. Closes(item, selected_item) = {"request"} /\ selected_item \in 1 .. Len(item) - 1
  BY <1>1, EntryPlaces, ClosesFacts DEF BaseFacts
<1>4. panels' = ((panels \ Closes(item, selected_item)) \cup Opens(item[selected_item + 1]))
                  \ {"request"}
  BY <1>2, <1>3
<1> QED
  BY <1>1, <1>2, <1>3, <1>4 DEF Deletes

LEMMA FreeEntryFacts ==
    ASSUME BaseFacts, ListShape, NEW i \in 1 .. Len(item) - 1,
           item[i].type \in {"friend", "request"}, FreeEntry(item[i])
    PROVE  /\ item[i] \in Entry /\ item # <<>> /\ tox = "run" /\ mailbox.tag # "KILL"
           /\ odd \subseteq odd' /\ odd' \subseteq OddEvent
           /\ mailbox' \in Command /\ ui' \in {"loop", "spin", "shrink"} /\ wanted' \subseteq Person
           /\ item[i].type = "friend" =>
                /\ item[i].id \in Number
                /\ mailbox = Empty /\ ui' = ui /\ odd' = odd
                /\ mailbox' = [tag |-> "DELETE", number |-> friend[item[i].id].number,
                               at |-> item[i].id]
                /\ wanted' = wanted \ {friend[item[i].id].who}
           /\ item[i].type = "request" =>
                /\ item[i].id \in Nat \ {0}
                /\ mailbox' = mailbox /\ wanted' = wanted
                /\ ui' = IF item[i].id = Len(frequests) THEN "shrink" ELSE ui
                /\ odd' = odd \cup (IF Accepting(item[i].id) THEN {"declined"} ELSE {})
<1>1. item[i] \in Entry /\ item # <<>>
  BY DEF BaseFacts
<1>2. tox = "run" /\ mailbox.tag # "KILL"
  BY <1>1 DEF ListShape, BaseFacts
<1>3. CASE item[i].type = "friend"
  <2>1. item[i].id \in Number
    BY <1>1, <1>3, EntryFacts
  <2>2. /\ mailbox = Empty /\ ui' = ui /\ odd' = odd
        /\ mailbox' = [tag |-> "DELETE", number |-> friend[item[i].id].number, at |-> item[i].id]
        /\ wanted' = wanted \ {friend[item[i].id].who}
    BY <1>3 DEF FreeEntry, Post
  <2>3. friend[item[i].id].number \in Number
    BY <2>1 DEF BaseFacts
  <2>4. mailbox' \in Command
    BY <2>1, <2>2, <2>3, NewCommands
  <2> QED
    BY <1>1, <1>2, <1>3, <2>1, <2>2, <2>4 DEF BaseFacts
<1>4. CASE item[i].type = "request"
  <2>1. item[i].id \in Nat \ {0}
    BY <1>1, <1>4, EntryFacts
  <2>2. /\ ui' = IF item[i].id = Len(frequests) THEN "shrink" ELSE ui
        /\ Happens(IF Accepting(item[i].id) THEN {"declined"} ELSE {})
        /\ mailbox' = mailbox /\ wanted' = wanted
    BY <1>4 DEF FreeEntry, IsLast
  <2>3. /\ odd' = odd \cup (IF Accepting(item[i].id) THEN {"declined"} ELSE {})
        /\ odd \subseteq odd' /\ odd' \subseteq OddEvent
    BY <2>2, HappensFacts
  <2> QED
    BY <1>1, <1>2, <1>4, <2>1, <2>2, <2>3 DEF BaseFacts
<1> QED
  BY <1>3, <1>4

\* The page after an entry is deleted is that of the same entry, or the next one's.
LEMMA DeletedPage ==
    ASSUME BaseFacts, ListShape, NEW i, Deletes(i)
    PROVE  /\ item' \in Seq(Entry) /\ Len(item') = Len(item) - 1 /\ Len(item) >= 2
           /\ \A k \in 1 .. Len(item) - 1 : item'[k] = IF k < i THEN item[k] ELSE item[k + 1]
           /\ selected_item' \in Page /\ selected_item' <= Len(item') /\ selected_item' # 0
           /\ panels' \subseteq Panels /\ messages_friend' \in Conversations
           /\ i # selected_item /\ selected_item \in 1 .. Len(item) =>
                selected_item' \in 1 .. Len(item') /\ item'[selected_item'] = item[selected_item]
           /\ i # selected_item /\ selected_item \notin 1 .. Len(item) =>
                selected_item' = selected_item /\ selected_item' \notin 1 .. Len(item')
           /\ i = selected_item =>
                /\ selected_item' = i /\ item'[i] = item[i + 1] /\ item[i + 1] \in Entry
                /\ i \in 1 .. Len(item')
<1>1. /\ i \in 1 .. Len(item) - 1 /\ i \in 1 .. Len(item) /\ item' = RemoveAt(item, i)
      /\ Len(item) \in Nat /\ i \in Nat
      /\ selected_item' = IF selected_item > i THEN selected_item - 1 ELSE selected_item
  BY DEF Deletes, BaseFacts
<1>2. item \in Seq(Entry)
  BY DEF BaseFacts
<1>3. /\ item' \in Seq(Entry) /\ Len(item') = Len(item) - 1 /\ Len(item) >= 2
      /\ \A k \in 1 .. Len(item) - 1 : item'[k] = IF k < i THEN item[k] ELSE item[k + 1]
  <2>1. Len(item) >= 2
    BY <1>1
  <2>2. /\ RemoveAt(item, i) \in Seq(Entry) /\ Len(RemoveAt(item, i)) = Len(item) - 1
        /\ \A k \in 1 .. Len(item) - 1 :
              RemoveAt(item, i)[k] = IF k < i THEN item[k] ELSE item[k + 1]
    BY <1>1, <1>2, RemoveFacts
  <2> QED
    BY <1>1, <2>1, <2>2
<1>4. selected_item \in {SettingsPage, AddPage} \cup Nat /\ selected_item <= Len(item)
      /\ selected_item # 0
  BY DEF BaseFacts, Page
<1>5. selected_item' \in Page /\ selected_item' <= Len(item') /\ selected_item' # 0
  BY <1>1, <1>3, <1>4 DEF Page, SettingsPage, AddPage
<1>6. ASSUME i # selected_item, selected_item \in 1 .. Len(item)
      PROVE  selected_item' \in 1 .. Len(item') /\ item'[selected_item'] = item[selected_item]
  BY <1>1, <1>3, <1>6
<1>7. ASSUME i # selected_item, selected_item \notin 1 .. Len(item)
      PROVE  selected_item' = selected_item /\ selected_item' \notin 1 .. Len(item')
  BY <1>1, <1>3, <1>4, <1>7 DEF SettingsPage, AddPage
<1>8. ASSUME i = selected_item
      PROVE  /\ selected_item' = i /\ item'[i] = item[i + 1] /\ item[i + 1] \in Entry
             /\ i \in 1 .. Len(item')
  BY <1>1, <1>2, <1>3, <1>8
<1>9. panels' \subseteq Panels /\ messages_friend' \in Conversations
  <2>1. CASE i # selected_item
    BY <2>1 DEF Deletes, BaseFacts
  <2>2. CASE i = selected_item
    <3>1. panels' \subseteq (panels \ Closes(item, i)) \cup Opens(item[i + 1])
          /\ messages_friend' = IF item[i + 1].type = "friend" THEN item[i + 1].id
                                ELSE messages_friend
      BY <2>2 DEF Deletes
    <3>2. Opens(item[i + 1]) \subseteq Panels
      BY <1>8, <2>2, OpensFacts
    <3>3. item[i + 1].type = "friend" => item[i + 1].id \in Number
      BY <1>8, <2>2, EntryFacts
    <3> QED
      BY <3>1, <3>2, <3>3 DEF BaseFacts, Conversations
  <2> QED
    BY <2>1, <2>2
<1> QED
  BY <1>3, <1>5, <1>6, <1>7, <1>8, <1>9

LEMMA DeletesBase ==
    ASSUME Base, NEW i, Deletes(i), menu' \in {menu, "closed"}
    PROVE  Base'
<1>1. BaseFacts /\ ListShape /\ CountCovers
  BY BaseGives DEF Base
<1>2. i \in 1 .. Len(item) - 1 /\ item[i].type \in {"friend", "request"} /\ FreeEntry(item[i])
      /\ right_mouse_item' = Null
      /\ UNCHANGED <<core, tox, friendVars, requestVars, uiq, limits, crashed>>
  BY DEF Deletes
<1>3. /\ item' \in Seq(Entry) /\ Len(item') = Len(item) - 1 /\ Len(item) >= 2
      /\ \A k \in 1 .. Len(item) - 1 : item'[k] = IF k < i THEN item[k] ELSE item[k + 1]
      /\ selected_item' \in Page /\ selected_item' <= Len(item') /\ selected_item' # 0
      /\ panels' \subseteq Panels /\ messages_friend' \in Conversations
  BY <1>1, DeletedPage
<1>4. /\ item # <<>> /\ tox = "run" /\ mailbox.tag # "KILL"
      /\ odd \subseteq odd' /\ odd' \subseteq OddEvent
      /\ mailbox' \in Command /\ ui' \in {"loop", "spin", "shrink"} /\ wanted' \subseteq Person
  BY <1>1, <1>2, FreeEntryFacts
<1>5. TypeOK'
  BY <1>1, <1>2, <1>3, <1>4 DEF TypeOK, Base, BaseFacts, Panels, Conversations, Null
<1>6. ListShape'
  <2>1. item'[Len(item')] = item[Len(item)] /\ item' # <<>>
    <3>1. Len(item) \in Nat /\ i \in Nat /\ i <= Len(item) - 1 /\ Len(item') \in 1 .. Len(item) - 1
          /\ ~(Len(item') < i) /\ Len(item') + 1 = Len(item)
      BY <1>1, <1>2, <1>3 DEF BaseFacts
    <3>2. item' # <<>>
      BY <1>3, <3>1
    <3> QED
      BY <1>3, <3>1, <3>2
  <2>2. mailbox'.tag # "KILL"
    <3>1. CASE item[i].type = "friend"
      BY <1>1, <1>2, <3>1, FreeEntryFacts
    <3>2. CASE item[i].type = "request"
      BY <1>1, <1>2, <1>4, <3>2, FreeEntryFacts
    <3> QED
      BY <1>2, <3>1, <3>2
  <2> QED
    BY <1>1, <1>2, <1>3, <1>4, <2>1, <2>2 DEF ListShape
<1>7. RequestPanel'
  <2>1. CASE i # selected_item
    <3>1. panels' = panels
      BY <2>1 DEF Deletes
    <3> QED
      BY <1>1, <2>1, <3>1, DeletedPage DEF RequestPanel, Listed, BaseFacts
  <2>2. CASE i = selected_item
    <3>1. "request" \in panels' => "request" \in Opens(item[i + 1])
      <4>1. "request" \in Closes(item, i)
        BY <1>1, <1>2, ClosesFacts DEF BaseFacts
      <4> QED
        BY <2>2, <4>1 DEF Deletes
    <3>2. selected_item' = i /\ item'[i] = item[i + 1] /\ item[i + 1] \in Entry
          /\ i \in 1 .. Len(item')
      BY <1>1, <2>2, DeletedPage
    <3>3. "request" \in Opens(item[i + 1]) => item[i + 1].type = "request"
      BY <3>2, OpensFacts, EntryFacts
    <3> QED
      BY <3>1, <3>2, <3>3 DEF RequestPanel, Listed
  <2> QED
    BY <2>1, <2>2
<1>8. CountCovers'
  <2>1. Cardinality(FriendEntries') = IF item[i].type = "friend" THEN Cardinality(FriendEntries) - 1
                                      ELSE Cardinality(FriendEntries)
    BY <1>1, <1>2, RemovedEntries DEF Deletes, BaseFacts
  <2>2. OnTheWay' = OnTheWay
    BY <1>2 DEF OnTheWay
  <2>3. (IF mailbox'.tag = "DELETE" THEN 1 ELSE 0)
          = (IF mailbox.tag = "DELETE" THEN 1 ELSE 0) + (IF item[i].type = "friend" THEN 1 ELSE 0)
    <3>1. CASE item[i].type = "friend"
      BY <1>1, <1>2, <3>1, FreeEntryFacts, NewCommands
    <3>2. CASE item[i].type = "request"
      BY <1>1, <1>2, <3>2, FreeEntryFacts
    <3> QED
      BY <1>2, <3>1, <3>2
  <2>4. Owed' = Owed
    BY <1>1, <1>2, <1>4, <2>1, <2>2, <2>3, CountTypes DEF Owed
  <2> QED
    BY <1>1, <1>2, <2>4 DEF CountCovers
<1> QED
  BY <1>5, <1>6, <1>7, <1>8 DEF Base

LEMMA LeavesStays ==
    ASSUME BaseFacts, Leaves
    PROVE  Stays
<1>1. /\ menu' = menu /\ right_mouse_item' = Null
      /\ UNCHANGED <<core, tox, friendVars, requestVars, item, ui, messageVars, histVars>>
  BY DEF Leaves
<1>2. CASE UNCHANGED pageVars
  BY <1>1, <1>2 DEF BaseFacts, Stays, Null
<1>3. CASE \E i \in 1 .. Len(item) : ShowPage(item, i)
  BY <1>1, <1>3, ShowItemStays DEF BaseFacts, Stays, Null
<1>4. CASE ShowStatic(AddPage)
  <2>1. AddPage \in Page /\ AddPage <= Len(item) /\ AddPage # 0
    BY DEF BaseFacts, Page, SettingsPage, AddPage
  <2>2. panels' = panels \ Closes(item, selected_item) /\ selected_item' = AddPage
        /\ messages_friend' = messages_friend
    BY <1>4 DEF ShowStatic
  <2>3. "request" \notin panels'
    BY <2>2, ClosesFacts DEF BaseFacts
  <2> QED
    BY <1>1, <2>1, <2>2, <2>3 DEF BaseFacts, Stays, Null
<1> QED
  BY <1>2, <1>3, <1>4 DEF Leaves

(* Messages to the UI thread *)

\* The message is taken, and nothing else happens but, perhaps, a fault.
Dropped ==
    /\ uiq # <<>> /\ uiq' = Tail(uiq)
    /\ UNCHANGED <<core, tox, friendVars, requestVars, item, mouseVars, pageVars, ui, mailbox,
                   wanted, limits, odd>>
    /\ crashed' \in {crashed, "NULL", "FREQUEST", "FRIEND"}

\* A request or a new friend is put in the place before the last one.
Put(entry) ==
    /\ uiq # <<>> /\ uiq' = Tail(uiq) /\ item # <<>> /\ Looping
    /\ item' = Grown(entry)
    /\ right_mouse_item' \in {right_mouse_item, Stale(right_mouse_item)}
    /\ UNCHANGED <<core, tox, requestVars, ui, mailbox, wanted, limits, menu, crashed,
                   friend_list_size, friend_list_count>>

PutsRequest ==
    /\ Head(uiq).tag = "INCOMING" /\ Head(uiq).at <= Len(frequests) /\ ~frequests_freed
    /\ Put(Request(Head(uiq).at)) /\ odd' = odd \cup Displaces
    /\ UNCHANGED <<pageVars, friendVars>>

PutsFriend ==
    LET msg == Head(uiq)
        number == friend[msg.number].number
        list == Grown(Friend(number))
    IN /\ msg.tag = "ADDED" /\ msg.number < friend_list_size
       /\ Put(Friend(number))
       /\ friend' = [friend EXCEPT ![msg.number].who = msg.who]
       /\ odd' = odd \cup Displaces \cup Jumps
                 \cup (IF number + 1 > Len(list) THEN {"beyond"} ELSE {})
       /\ IF number + 1 <= Len(list) THEN ShowPage(list, number + 1) ELSE UNCHANGED pageVars

\* The place of a request in the list.
PlaceOf(r) == {i \in DOMAIN item : item[i] = Request(r) /\ \A k \in 1 .. i - 1 : item[k] # item[i]}

Turns ==
    LET msg == Head(uiq)
    IN /\ Looping /\ uiq # <<>> /\ uiq' = Tail(uiq)
       /\ msg.tag = "ACCEPTED" /\ msg.number < friend_list_size
       /\ msg.at \in 1 .. Len(frequests) /\ ~frequests_freed
       /\ item' = [i \in 1 .. Len(item) |-> IF i \in PlaceOf(msg.at)
                                            THEN Friend(friend[msg.number].number) ELSE item[i]]
       /\ IF selected_item > 0 THEN ShowPage(item', selected_item) ELSE UNCHANGED pageVars
       /\ UNCHANGED <<core, tox, requestVars, ui, mailbox, wanted, limits, mouseVars, friendVars,
                      crashed, odd>>

Freed ==
    LET msg == Head(uiq)
    IN /\ Looping /\ uiq # <<>> /\ uiq' = Tail(uiq)
       /\ msg.tag = "REMOVE" /\ msg.at # Dangling
       /\ friend' = IF msg.at = Leaked THEN friend ELSE [friend EXCEPT ![msg.at] = Zeroed]
       /\ friend_list_count' = friend_list_count - 1
       /\ odd' = odd \cup (IF msg.at # Leaked /\ core[msg.at] # Nobody THEN {"reused"} ELSE {})
       /\ UNCHANGED <<core, tox, requestVars, ui, mailbox, wanted, limits, item, mouseVars, pageVars,
                      friend_list_size, crashed>>

\* Why a message is dropped.
DropCause ==
    LET msg == Head(uiq)
    IN \/ /\ msg.tag = "INCOMING" /\ crashed' = "NULL"
          /\ item = <<>> \/ msg.at > Len(frequests) \/ frequests_freed
       \/ /\ msg.tag = "ADDED" /\ crashed' = "NULL" /\ item = <<>>
       \/ /\ msg.tag \in {"ADDED", "ACCEPTED"} /\ msg.number >= friend_list_size
          /\ crashed' = crashed
       \/ /\ msg.tag = "ACCEPTED" /\ crashed' = "FREQUEST"
       \/ /\ msg.tag = "REMOVE" /\ crashed' = "FRIEND"

LEMMA ReceiveCases ==
    ASSUME BaseFacts, Receive
    PROVE  /\ Head(uiq) \in Message /\ Looping /\ uiq # <<>> /\ uiq' = Tail(uiq)
           /\ \/ Dropped /\ DropCause
              \/ PutsRequest
              \/ PutsFriend
              \/ Turns
              \/ Freed
<1> DEFINE msg == Head(uiq)
<1>1. /\ Looping /\ uiq # <<>> /\ uiq' = Tail(uiq) /\ msg \in Message
      /\ UNCHANGED <<core, tox, requestVars, ui, mailbox, wanted, limits>>
  BY TailFacts DEF Receive, BaseFacts
<1>2. /\ msg.tag = "INCOMING" => Incoming(msg)
      /\ msg.tag = "ADDED" => Added(msg)
      /\ msg.tag = "ACCEPTED" => Accepted(msg)
      /\ msg.tag = "REMOVE" => Removed(msg)
  BY DEF Receive
<1>3. msg.tag \in {"INCOMING", "ADDED", "ACCEPTED", "REMOVE"}
  BY <1>1, MessageFacts
<1>4. CASE msg.tag = "INCOMING"
  <2>1. Incoming(msg)
    BY <1>2, <1>4
  <2>2. CASE item = <<>> \/ msg.at > Len(frequests) \/ frequests_freed
    <3>1. Dropped
      BY <1>1, <2>1, <2>2 DEF Incoming, Dropped
    <3>2. crashed' = "NULL"
      BY <2>1, <2>2 DEF Incoming
    <3> QED
      BY <1>1, <1>4, <2>2, <3>1, <3>2 DEF DropCause
  <2>3. CASE ~(item = <<>> \/ msg.at > Len(frequests) \/ frequests_freed)
    <3>1. /\ NewItem(Request(msg.at)) /\ Happens(Displaces)
          /\ UNCHANGED <<menu, pageVars, friendVars, crashed>>
      BY <2>1, <2>3 DEF Incoming
    <3>2. msg.at \in Nat /\ Len(frequests) \in Nat
      BY <1>1, <1>4, MessageFacts DEF BaseFacts
    <3> QED
      BY <1>1, <1>4, <2>3, <3>1, <3>2, HappensFacts DEF PutsRequest, Put, NewItem
  <2> QED
    BY <2>2, <2>3
<1>5. CASE msg.tag = "ADDED"
  <2>1. Added(msg) /\ msg.number \in Number /\ friend_list_size \in Nat /\ msg.number \in Nat
    BY <1>1, <1>2, <1>5, MessageFacts, Constants DEF BaseFacts
  <2>2. CASE msg.number >= friend_list_size
    BY <1>1, <1>5, <2>1, <2>2 DEF Added, Dropped, DropCause
  <2>3. CASE msg.number < friend_list_size /\ item = <<>>
    BY <1>1, <1>5, <2>1, <2>3 DEF Added, Dropped, DropCause
  <2>4. CASE msg.number < friend_list_size /\ item # <<>>
    <3> DEFINE number == friend[msg.number].number
               list == Grown(Friend(number))
               beyond == IF number + 1 > Len(list) THEN {"beyond"} ELSE {}
    <3>1. /\ friend' = [friend EXCEPT ![msg.number].who = msg.who]
          /\ NewItem(Friend(number))
          /\ IF number + 1 <= Len(list) THEN ShowPage(list, number + 1) ELSE UNCHANGED pageVars
          /\ Happens(Displaces \cup Jumps \cup beyond)
          /\ UNCHANGED <<menu, friend_list_size, friend_list_count, crashed>>
      BY <2>1, <2>4 DEF Added
    <3>2. odd' = odd \cup (Displaces \cup Jumps \cup beyond)
      BY <3>1, HappensFacts
    <3> HIDE DEF beyond, list, number
    <3>3. odd' = odd \cup Displaces \cup Jumps \cup beyond
      BY <3>2
    <3>4. Put(Friend(number))
      BY <1>1, <2>4, <3>1 DEF Put, NewItem
    <3> USE DEF beyond, list, number
    <3> QED
      BY <1>1, <1>5, <2>4, <3>1, <3>3, <3>4 DEF PutsFriend
  <2> QED
    BY <2>1, <2>2, <2>3, <2>4
<1>6. CASE msg.tag = "ACCEPTED"
  <2>1. Accepted(msg) /\ msg.number \in Number /\ friend_list_size \in Nat /\ msg.number \in Nat
        /\ msg.at \in {Dangling} \cup (Nat \ {0}) /\ Len(frequests) \in Nat
    BY <1>1, <1>2, <1>6, MessageFacts, Constants DEF BaseFacts
  <2>2. CASE msg.number >= friend_list_size
    BY <1>1, <1>6, <2>1, <2>2 DEF Accepted, Dropped, DropCause
  <2>3. CASE msg.number < friend_list_size
             /\ (msg.at = Dangling \/ msg.at > Len(frequests) \/ frequests_freed)
    BY <1>1, <1>6, <2>1, <2>3 DEF Accepted, Dropped, DropCause
  <2>4. CASE msg.number < friend_list_size
             /\ ~(msg.at = Dangling \/ msg.at > Len(frequests) \/ frequests_freed)
    <3> DEFINE list == [i \in 1 .. Len(item) |->
                          IF item[i] = Request(msg.at) /\ \A k \in 1 .. i - 1 : item[k] # item[i]
                          THEN Friend(friend[msg.number].number) ELSE item[i]]
               turned == [i \in 1 .. Len(item) |-> IF i \in PlaceOf(msg.at)
                                       THEN Friend(friend[msg.number].number) ELSE item[i]]
    <3>1. /\ item' = list
          /\ IF selected_item > 0 THEN ShowPage(list, selected_item) ELSE UNCHANGED pageVars
          /\ UNCHANGED <<mouseVars, friendVars, crashed, odd>>
      BY <2>1, <2>4 DEF Accepted
    <3>2. list = turned
      <4>1. ASSUME NEW i \in 1 .. Len(item)
            PROVE  i \in PlaceOf(msg.at)
                     <=> (item[i] = Request(msg.at) /\ \A k \in 1 .. i - 1 : item[k] # item[i])
        BY DEF PlaceOf, BaseFacts
      <4> QED
        BY <4>1
    <3>3. msg.at \in 1 .. Len(frequests) /\ ~frequests_freed
      BY <2>1, <2>4
    <3> HIDE DEF list
    <3>4. /\ item' = turned
          /\ IF selected_item > 0 THEN ShowPage(item', selected_item) ELSE UNCHANGED pageVars
      BY <3>1, <3>2
    <3> QED
      BY <1>1, <1>6, <2>4, <3>1, <3>3, <3>4 DEF Turns
  <2> QED
    BY <2>1, <2>2, <2>3, <2>4
<1>7. CASE msg.tag = "REMOVE"
  <2>1. Removed(msg)
    BY <1>2, <1>7
  <2>2. CASE msg.at = Dangling
    BY <1>1, <1>7, <2>1, <2>2 DEF Removed, Dropped, DropCause
  <2>3. CASE msg.at # Dangling
    BY <1>1, <1>7, <2>1, <2>3, HappensFacts DEF Removed, Freed
  <2> QED
    BY <2>2, <2>3
<1> QED
  BY <1>1, <1>3, <1>4, <1>5, <1>6, <1>7

LEMMA PutFacts ==
    ASSUME BaseFacts, ListShape, NEW entry \in Entry, Put(entry)
    PROVE  /\ Len(item) \in Nat \ {0} /\ item' \in Seq(Entry) /\ Len(item') = Len(item) + 1
           /\ \A k \in 1 .. Len(item) - 1 : item'[k] = item[k]
           /\ item'[Len(item)] = entry /\ item'[Len(item) + 1] = CreateGroup
           /\ item[Len(item)].type \notin {"friend", "request"}
           /\ right_mouse_item' \in {right_mouse_item, Dangling}
           /\ right_mouse_item' \in {Dangling} \cup Nat
           /\ selected_item \in 1 .. Len(item) - 1 =>
                selected_item \in 1 .. Len(item') /\ item'[selected_item] = item[selected_item]
<1>1. item \in Seq(Entry) /\ item # <<>> /\ item' = Grown(entry)
  BY DEF Put, BaseFacts
<1>2. Len(item) \in Nat \ {0} /\ item[Len(item)].type \notin {"friend", "request"}
  <2>1. Len(item) \in Nat \ {0} /\ Len(item) \in 1 .. Len(item)
    BY <1>1
  <2> QED
    BY <2>1, EntryPlaces
<1>3. /\ Grown(entry) \in Seq(Entry) /\ Len(Grown(entry)) = Len(item) + 1
      /\ \A k \in 1 .. Len(item) - 1 : Grown(entry)[k] = item[k]
      /\ Grown(entry)[Len(item)] = entry /\ Grown(entry)[Len(item) + 1] = CreateGroup
  BY <1>1, GrownFacts
<1>4. right_mouse_item' \in {right_mouse_item, Dangling}
  BY DEF Put, Stale
<1>5. ASSUME selected_item \in 1 .. Len(item) - 1
      PROVE  selected_item \in 1 .. Len(item') /\ item'[selected_item] = item[selected_item]
  <2>1. selected_item \in 1 .. Len(item) + 1
    BY <1>2, <1>5
  <2> QED
    BY <1>1, <1>3, <1>5, <2>1
<1>6. right_mouse_item' \in {Dangling} \cup Nat
  BY <1>4 DEF BaseFacts
<1> QED
  BY <1>1, <1>2, <1>3, <1>4, <1>5, <1>6

LEMMA PutEntries ==
    ASSUME BaseFacts, ListShape, NEW entry \in Entry, Put(entry)
    PROVE  /\ entry.type = "friend" => Cardinality(FriendEntries') = Cardinality(FriendEntries) + 1
           /\ entry.type # "friend" => Cardinality(FriendEntries') = Cardinality(FriendEntries)
<1>1. /\ Len(item) \in Nat \ {0} /\ item' \in Seq(Entry) /\ Len(item') = Len(item) + 1
      /\ \A k \in 1 .. Len(item) - 1 : item'[k] = item[k]
      /\ item'[Len(item)] = entry /\ item'[Len(item) + 1] = CreateGroup
      /\ item[Len(item)].type \notin {"friend", "request"}
  BY PutFacts
<1>2. FriendEntries = {k \in 1 .. Len(item) - 1 : item[k].type = "friend"}
      /\ Len(item) \notin FriendEntries
  BY <1>1 DEF FriendEntries, BaseFacts
<1>3. item'[Len(item) + 1].type # "friend"
  BY <1>1, NewEntries
<1>4. FriendEntries' = {k \in 1 .. Len(item) + 1 : item'[k].type = "friend"}
  BY <1>1 DEF FriendEntries
<1>5. entry.type = "friend" => FriendEntries' = FriendEntries \cup {Len(item)}
  BY <1>1, <1>2, <1>3, <1>4
<1>6. entry.type # "friend" => FriendEntries' = FriendEntries
  BY <1>1, <1>2, <1>3, <1>4
<1>7. IsFiniteSet(FriendEntries) /\ Cardinality(FriendEntries) \in Nat
  BY CountTypes
<1> QED
  BY <1>2, <1>5, <1>6, <1>7, FS_AddElement

LEMMA PlaceAlone ==
    ASSUME BaseFacts, NEW r, NEW i \in PlaceOf(r), NEW j \in PlaceOf(r)
    PROVE  i = j
<1>1. i \in Nat /\ j \in Nat /\ i >= 1 /\ j >= 1
      /\ item[i] = Request(r) /\ item[j] = Request(r)
      /\ (\A k \in 1 .. i - 1 : item[k] # item[i]) /\ (\A k \in 1 .. j - 1 : item[k] # item[j])
  BY DEF PlaceOf, BaseFacts
<1>2. ~(i < j)
  <2>1. i < j => i \in 1 .. j - 1
    BY <1>1
  <2> QED
    BY <1>1, <2>1
<1>3. ~(j < i)
  <2>1. j < i => j \in 1 .. i - 1
    BY <1>1
  <2> QED
    BY <1>1, <2>1
<1> QED
  BY <1>1, <1>2, <1>3

LEMMA TurnsFacts ==
    ASSUME BaseFacts, Turns
    PROVE  /\ item' \in Seq(Entry) /\ Len(item') = Len(item)
           /\ \A i \in 1 .. Len(item) :
                /\ i \in PlaceOf(Head(uiq).at) =>
                     /\ item[i].type = "request" /\ item[i] = Request(Head(uiq).at)
                     /\ item'[i] = Friend(friend[Head(uiq).number].number)
                     /\ item'[i].type = "friend"
                     /\ item'[i].id = friend[Head(uiq).number].number
                /\ i \notin PlaceOf(Head(uiq).at) => item'[i] = item[i]
           /\ friend[Head(uiq).number].number \in Number /\ Head(uiq).number \in Number
<1>1. Head(uiq) \in Message /\ Head(uiq).tag = "ACCEPTED"
      /\ item' = [i \in 1 .. Len(item) |->
                    IF i \in PlaceOf(Head(uiq).at)
                    THEN Friend(friend[Head(uiq).number].number) ELSE item[i]]
  BY TailFacts DEF Turns, BaseFacts
<1>2. Head(uiq).number \in Number
  BY <1>1, MessageFacts
<1>3. friend[Head(uiq).number].number \in Number
  BY <1>2 DEF BaseFacts
<1>4. Friend(friend[Head(uiq).number].number) \in Entry
  BY <1>3, NewEntries
<1>5. item' \in Seq(Entry)
  BY <1>1, <1>4 DEF BaseFacts
<1>6. Len(item') = Len(item)
  BY <1>1, <1>5 DEF BaseFacts
<1>7. ASSUME NEW i \in 1 .. Len(item), i \in PlaceOf(Head(uiq).at)
      PROVE  /\ item[i].type = "request" /\ item[i] = Request(Head(uiq).at)
             /\ item'[i] = Friend(friend[Head(uiq).number].number)
             /\ item'[i].type = "friend"
             /\ item'[i].id = friend[Head(uiq).number].number
  BY <1>1, <1>7, NewEntries DEF PlaceOf
<1> QED
  BY <1>1, <1>2, <1>3, <1>5, <1>6, <1>7

LEMMA TurnsEntries ==
    ASSUME BaseFacts, Turns
    PROVE  /\ Cardinality(FriendEntries') <= Cardinality(FriendEntries) + 1
           /\ PlaceOf(Head(uiq).at) # {} =>
                Cardinality(FriendEntries') = Cardinality(FriendEntries) + 1
<1> DEFINE place == PlaceOf(Head(uiq).at)
<1>1. /\ Len(item') = Len(item) /\ Len(item) \in Nat
      /\ \A i \in 1 .. Len(item) :
           /\ i \in place => item[i].type = "request" /\ item'[i].type = "friend"
           /\ i \notin place => item'[i] = item[i]
  BY TurnsFacts DEF BaseFacts
<1>2. /\ FriendEntries = {i \in 1 .. Len(item) : item[i].type = "friend"}
      /\ FriendEntries' = {i \in 1 .. Len(item) : item'[i].type = "friend"}
      /\ place \subseteq 1 .. Len(item)
  BY <1>1, TurnsFacts DEF FriendEntries, BaseFacts, PlaceOf
<1> HIDE DEF place
<1>3. IsFiniteSet(FriendEntries) /\ Cardinality(FriendEntries) \in Nat
  BY CountTypes
<1>4. CASE place = {}
  <2>1. FriendEntries' = FriendEntries
    BY <1>1, <1>2, <1>4
  <2> QED
    BY <1>3, <1>4, <2>1 DEF place
<1>5. CASE place # {}
  <2>1. PICK i \in place : TRUE
    BY <1>5
  <2>2. place = {i}
    BY <2>1, PlaceAlone DEF place
  <2>3. FriendEntries' = FriendEntries \cup {i} /\ i \notin FriendEntries
    BY <1>1, <1>2, <2>1, <2>2
  <2> QED
    BY <1>3, <2>3, FS_AddElement
<1> QED
  BY <1>4, <1>5

\* Of a message that is taken, what concerns the types and the order.
LEMMA TakenType ==
    ASSUME Base, uiq # <<>>, uiq' = Tail(uiq),
           UNCHANGED <<core, tox, requestVars, ui, mailbox, wanted, limits>>
    PROVE  /\ core' \in [Number -> Person \cup {Nobody}] /\ tox' \in {"run", "down", "up"}
           /\ frequests' \in Seq(Person) /\ frequests_freed' \in BOOLEAN
           /\ ui' \in {"loop", "spin", "shrink"} /\ mailbox' \in Command /\ uiq' \in Seq(Message)
           /\ wanted' \subseteq Person /\ limits' \in Limits
<1>1. uiq' \in Seq(Message)
  BY TailFacts DEF Base, TypeOK
<1> QED
  BY <1>1 DEF Base, TypeOK

LEMMA DroppedBase ==
    ASSUME Base, Dropped
    PROVE  Base'
<1>1. BaseFacts
  BY BaseGives
<1>2. /\ uiq # <<>> /\ uiq' = Tail(uiq)
      /\ UNCHANGED <<core, tox, friendVars, requestVars, item, mouseVars, pageVars, ui, mailbox,
                     wanted, limits, odd>>
      /\ crashed' \in {crashed, "NULL", "FREQUEST", "FRIEND"}
  BY DEF Dropped
<1>3. TypeOK'
  BY <1>2, TakenType DEF Base, TypeOK
<1>4. ListShape' /\ RequestPanel'
  BY <1>2 DEF Base, ListShape, RequestPanel, Listed
<1>5. CountCovers'
  <2>1. Cardinality(OnTheWay') <= Cardinality(OnTheWay) /\ Cardinality(OnTheWay') \in Int
    BY <1>1, <1>2, TailWay, CountTypes
  <2>2. FriendEntries' = FriendEntries
    BY <1>2 DEF FriendEntries
  <2>3. /\ friend_list_size \in Nat /\ friend_list_count \in Nat /\ friend_list_count >= Owed
        /\ UNCHANGED <<mailbox, tox, friend_list_size, friend_list_count>>
    BY <1>1, <1>2, Constants DEF Base, CountCovers, BaseFacts, friendVars
  <2>4. Cardinality(FriendEntries) \in Nat /\ Cardinality(OnTheWay) \in Nat /\ Owed \in Nat
    BY <1>1, CountTypes
  <2>5. Owed' <= Owed /\ Owed' \in Int
    BY <2>1, <2>2, <2>3, <2>4 DEF Owed
  <2>6. friend_list_count' >= Owed'
    BY <2>3, <2>4, <2>5
  <2> QED
    BY <2>6 DEF CountCovers
<1> QED
  BY <1>3, <1>4, <1>5 DEF Base

LEMMA PutsRequestBase ==
    ASSUME Base, PutsRequest, Head(uiq) \in Message
    PROVE  Base'
<1> DEFINE entry == Request(Head(uiq).at)
<1>1. BaseFacts /\ ListShape
  BY BaseGives DEF Base
<1>2. /\ uiq # <<>> /\ uiq' = Tail(uiq) /\ item # <<>> /\ Put(entry)
      /\ UNCHANGED <<core, tox, requestVars, ui, mailbox, wanted, limits>>
      /\ UNCHANGED <<menu, crashed, friendVars, pageVars>>
      /\ odd' = odd \cup Displaces /\ Head(uiq).tag = "INCOMING"
  BY DEF PutsRequest, Put
<1>3. entry \in Entry /\ entry.type = "request"
  BY <1>2, MessageFacts, NewEntries
<1> HIDE DEF entry
<1>4. /\ Len(item) \in Nat \ {0} /\ item' \in Seq(Entry) /\ Len(item') = Len(item) + 1
      /\ item'[Len(item) + 1] = CreateGroup
      /\ item[Len(item)].type \notin {"friend", "request"}
      /\ right_mouse_item' \in {Dangling} \cup Nat
      /\ selected_item \in 1 .. Len(item) - 1 =>
           selected_item \in 1 .. Len(item') /\ item'[selected_item] = item[selected_item]
  BY <1>1, <1>2, <1>3, PutFacts
<1>5. odd' \subseteq OddEvent /\ odd \subseteq odd'
  BY <1>1, <1>2 DEF Displaces, OddEvent, BaseFacts
<1>6. TypeOK'
  BY <1>2, <1>4, <1>5, TakenType DEF Base, TypeOK
<1>7. ListShape'
  <2>1. item' # <<>> /\ item'[Len(item')] = CreateGroup /\ tox = "run" /\ mailbox.tag # "KILL"
    BY <1>1, <1>2, <1>4 DEF ListShape, BaseFacts
  <2>2. selected_item' <= Len(item') /\ selected_item' # 0
    <3>1. selected_item <= Len(item) /\ selected_item # 0 /\ selected_item \in Int
      BY <1>1 DEF BaseFacts, Page, SettingsPage, AddPage
    <3> QED
      BY <1>2, <1>4, <3>1
  <2> QED
    BY <1>1, <1>2, <1>5, <2>1, <2>2 DEF ListShape
<1>8. RequestPanel'
  <2>1. "request" \in panels => selected_item \in 1 .. Len(item) - 1
    BY <1>1, <1>4 DEF BaseFacts
  <2> QED
    BY <1>1, <1>2, <1>4, <2>1 DEF RequestPanel, Listed, BaseFacts
<1>9. CountCovers'
  <2>1. Cardinality(OnTheWay') = Cardinality(OnTheWay)
    BY <1>1, <1>2, TailWay
  <2>2. Cardinality(FriendEntries') = Cardinality(FriendEntries)
    BY <1>1, <1>2, <1>3, PutEntries
  <2> QED
    BY <1>2, <2>1, <2>2 DEF Base, CountCovers, Owed
<1> QED
  BY <1>6, <1>7, <1>8, <1>9 DEF Base

LEMMA PutsFriendFacts ==
    ASSUME BaseFacts, ListShape, PutsFriend, Head(uiq) \in Message
    PROVE  LET number == friend[Head(uiq).number].number
           IN /\ number \in Number /\ Friend(number) \in Entry /\ Put(Friend(number))
              /\ Head(uiq).tag = "ADDED" /\ Head(uiq).number \in Number
              /\ Head(uiq).number < friend_list_size
              /\ friend' \in [Number -> [who : Person \cup {Nobody}, number : Number]]
              /\ friend' = [friend EXCEPT ![Head(uiq).number].who = Head(uiq).who]
              /\ odd \subseteq odd' /\ odd' \subseteq OddEvent
              /\ \/ number + 1 > Len(item') /\ "beyond" \in odd' /\ UNCHANGED pageVars
                 \/ number + 1 \in 1 .. Len(item') /\ ShowPage(item', number + 1)
<1> DEFINE number == friend[Head(uiq).number].number
<1>1. Head(uiq).tag = "ADDED" /\ Head(uiq).number \in Number /\ Head(uiq).who \in Person
  BY MessageFacts DEF PutsFriend
<1>2. number \in Number /\ Friend(number) \in Entry
  BY <1>1, NewEntries DEF BaseFacts
<1>3. Put(Friend(number)) /\ item' = Grown(Friend(number)) /\ Head(uiq).number < friend_list_size
  BY DEF PutsFriend, Put
<1>4. friend' = [friend EXCEPT ![Head(uiq).number].who = Head(uiq).who]
      /\ friend' \in [Number -> [who : Person \cup {Nobody}, number : Number]]
  BY <1>1 DEF PutsFriend, BaseFacts
<1>5. odd' = odd \cup Displaces \cup Jumps
                 \cup (IF number + 1 > Len(item') THEN {"beyond"} ELSE {})
  BY <1>3 DEF PutsFriend
<1>6. odd \subseteq odd' /\ odd' \subseteq OddEvent
  BY <1>5 DEF Displaces, Jumps, OddEvent, BaseFacts
<1>7. number + 1 \in Nat \ {0} /\ Len(item') \in Nat
  <2>1. number \in Nat
    BY <1>2, Constants
  <2>2. Len(item') = Len(item) + 1
    BY <1>2, <1>3, PutFacts
  <2> QED
    BY <2>1, <2>2 DEF BaseFacts
<1>8. IF number + 1 <= Len(item') THEN ShowPage(item', number + 1) ELSE UNCHANGED pageVars
  BY <1>3 DEF PutsFriend
<1> HIDE DEF number
<1>9. \/ number + 1 > Len(item') /\ "beyond" \in odd' /\ UNCHANGED pageVars
      \/ number + 1 \in 1 .. Len(item') /\ ShowPage(item', number + 1)
  BY <1>5, <1>7, <1>8
<1> USE DEF number
<1> QED
  BY <1>1, <1>2, <1>3, <1>4, <1>6, <1>9

LEMMA PutsFriendBase ==
    ASSUME Base, PutsFriend, Head(uiq) \in Message
    PROVE  Base'
<1> DEFINE number == friend[Head(uiq).number].number
           entry == Friend(number)
<1>1. BaseFacts /\ ListShape
  BY BaseGives DEF Base
<1>2. /\ number \in Number /\ entry \in Entry /\ Put(entry) /\ Head(uiq).tag = "ADDED"
      /\ friend' \in [Number -> [who : Person \cup {Nobody}, number : Number]]
      /\ odd \subseteq odd' /\ odd' \subseteq OddEvent
      /\ \/ UNCHANGED pageVars
         \/ number + 1 \in 1 .. Len(item') /\ ShowPage(item', number + 1)
  BY <1>1, PutsFriendFacts
<1>3. entry.type = "friend"
  BY NewEntries
<1> HIDE DEF number, entry
<1>4. /\ uiq # <<>> /\ uiq' = Tail(uiq) /\ item # <<>>
      /\ UNCHANGED <<core, tox, requestVars, ui, mailbox, wanted, limits>>
      /\ UNCHANGED <<menu, crashed, friend_list_size, friend_list_count>>
  BY <1>2 DEF Put
<1>5. /\ Len(item) \in Nat \ {0} /\ item' \in Seq(Entry) /\ Len(item') = Len(item) + 1
      /\ item'[Len(item) + 1] = CreateGroup
      /\ item[Len(item)].type \notin {"friend", "request"}
      /\ right_mouse_item' \in {Dangling} \cup Nat
      /\ selected_item \in 1 .. Len(item) - 1 =>
           selected_item \in 1 .. Len(item') /\ item'[selected_item] = item[selected_item]
  BY <1>1, <1>2, PutFacts
<1>6. "request" \in panels => /\ selected_item \in 1 .. Len(item')
                              /\ item'[selected_item].type = "request"
  <2>1. "request" \in panels => selected_item \in 1 .. Len(item) - 1
    BY <1>1, <1>5 DEF BaseFacts
  <2> QED
    BY <1>1, <1>5, <2>1 DEF BaseFacts
<1>7. /\ panels' \subseteq Panels /\ messages_friend' \in Conversations
      /\ selected_item' \in Page /\ selected_item' <= Len(item') /\ selected_item' # 0
      /\ "request" \in panels' => /\ selected_item' \in 1 .. Len(item')
                                  /\ item'[selected_item'].type = "request"
  <2>1. CASE UNCHANGED pageVars
    BY <1>1, <1>5, <1>6, <2>1 DEF BaseFacts, Page, SettingsPage, AddPage
  <2>2. CASE number + 1 \in 1 .. Len(item') /\ ShowPage(item', number + 1)
    <3>1. panels \subseteq Panels /\ messages_friend \in Conversations
      BY <1>1 DEF BaseFacts
    <3>2. /\ panels' \subseteq Panels /\ messages_friend' \in Conversations
          /\ selected_item' = number + 1
          /\ "request" \in panels' => item'[number + 1].type = "request"
      BY <1>5, <1>6, <2>2, <3>1, ShowPageFacts
    <3> QED
      BY <2>2, <3>2 DEF Page
  <2> QED
    BY <1>2, <2>1, <2>2
<1>8. TypeOK'
  BY <1>2, <1>4, <1>5, <1>7, TakenType DEF Base, TypeOK, Panels, Conversations
<1>9. ListShape'
  BY <1>1, <1>2, <1>4, <1>5, <1>7, NewEntries DEF ListShape
<1>10. RequestPanel'
  BY <1>7 DEF RequestPanel, Listed
<1>11. CountCovers'
  <2>1. Cardinality(OnTheWay') = Cardinality(OnTheWay) - 1
    BY <1>1, <1>2, <1>4, TailWay
  <2>2. Cardinality(FriendEntries') = Cardinality(FriendEntries) + 1
    BY <1>1, <1>2, <1>3, PutEntries
  <2> QED
    BY <1>1, <1>4, <2>1, <2>2, CountTypes DEF Base, CountCovers, Owed
<1> QED
  BY <1>8, <1>9, <1>10, <1>11 DEF Base

LEMMA TurnsBase ==
    ASSUME Base, Turns
    PROVE  Base'
<1>1. BaseFacts /\ ListShape
  BY BaseGives DEF Base
<1>2. /\ uiq # <<>> /\ uiq' = Tail(uiq) /\ Head(uiq).tag = "ACCEPTED"
      /\ IF selected_item > 0 THEN ShowPage(item', selected_item) ELSE UNCHANGED pageVars
      /\ UNCHANGED <<core, tox, requestVars, ui, mailbox, wanted, limits>>
      /\ UNCHANGED <<mouseVars, friendVars, crashed, odd>>
  BY DEF Turns
<1>3. /\ item' \in Seq(Entry) /\ Len(item') = Len(item) /\ Len(item) \in Nat
      /\ \A i \in 1 .. Len(item) : \/ item'[i] = item[i]
                                   \/ item[i].type = "request" /\ item'[i].type = "friend"
  BY <1>1, TurnsFacts DEF BaseFacts
<1>4. "request" \in panels => /\ selected_item \in 1 .. Len(item')
                              /\ item'[selected_item].type \in {"friend", "request"}
  BY <1>1, <1>3 DEF BaseFacts
<1>5. /\ panels' \subseteq Panels /\ messages_friend' \in Conversations
      /\ selected_item' = selected_item
      /\ "request" \in panels' => /\ selected_item' \in 1 .. Len(item')
                                  /\ item'[selected_item'].type = "request"
  <2>1. panels \subseteq Panels /\ messages_friend \in Conversations
        /\ selected_item \in {SettingsPage, AddPage} \cup Nat
        /\ selected_item <= Len(item')
    BY <1>1, <1>3 DEF BaseFacts, Page
  <2>2. CASE selected_item > 0
    <3>1. selected_item \in 1 .. Len(item') /\ ShowPage(item', selected_item)
      BY <1>2, <1>3, <2>1, <2>2 DEF SettingsPage, AddPage
    <3> QED
      BY <1>3, <1>4, <2>1, <3>1, ShowPageFacts
  <2>3. CASE ~(selected_item > 0)
    <3>1. UNCHANGED pageVars /\ "request" \notin panels
      BY <1>2, <1>3, <1>4, <2>3
    <3> QED
      BY <2>1, <3>1
  <2> QED
    BY <2>2, <2>3
<1>6. TypeOK'
  BY <1>2, <1>3, <1>5, TakenType DEF Base, TypeOK, Panels, Conversations
<1>7. ListShape'
  <2>1. item # <<>> => item' # <<>> /\ item'[Len(item')] = item[Len(item)]
    <3>1. ASSUME item # <<>> PROVE Len(item) \in 1 .. Len(item) /\ item' # <<>>
      BY <1>1, <1>3, <3>1 DEF BaseFacts
    <3>2. item # <<>> => item[Len(item)].type # "request"
      BY <1>1, <3>1, EntryPlaces
    <3> QED
      BY <1>3, <3>1, <3>2
  <2>2. item = <<>> => item' = <<>>
    BY <1>3
  <2> QED
    BY <1>1, <1>2, <1>3, <1>5, <2>1, <2>2 DEF ListShape
<1>8. RequestPanel'
  BY <1>5 DEF RequestPanel, Listed
<1>9. CountCovers'
  <2>1. Cardinality(OnTheWay') = Cardinality(OnTheWay) - 1
    BY <1>1, <1>2, TailWay
  <2>2. Cardinality(FriendEntries') <= Cardinality(FriendEntries) + 1
    BY <1>1, TurnsEntries
  <2>3. Cardinality(FriendEntries') \in Nat
    <3>0. Len(item) \in Nat
      BY <1>3
    <3>1. IsFiniteSet(1 .. Len(item))
      BY <3>0, FS_Interval
    <3>2. FriendEntries' \subseteq 1 .. Len(item)
      BY <1>3 DEF FriendEntries
    <3> QED
      BY <3>1, <3>2, FS_Subset, FS_CardinalityType
  <2>4. /\ Cardinality(FriendEntries) \in Nat /\ Cardinality(OnTheWay) \in Nat
        /\ friend_list_size \in Nat /\ friend_list_count \in Nat /\ friend_list_count >= Owed
    BY <1>1, CountTypes, Constants DEF Base, CountCovers, BaseFacts
  <2>5. UNCHANGED <<mailbox, tox, friend_list_size, friend_list_count>>
    BY <1>2
  <2>6. Owed' <= Owed /\ Owed' \in Int /\ Owed \in Int
    BY <2>1, <2>2, <2>3, <2>4, <2>5 DEF Owed
  <2>7. friend_list_count' >= Owed'
    BY <2>4, <2>5, <2>6
  <2> QED
    BY <2>7 DEF CountCovers
<1> QED
  BY <1>6, <1>7, <1>8, <1>9 DEF Base

LEMMA FreedBase ==
    ASSUME Base, Freed, Head(uiq) \in Message
    PROVE  Base'
<1>1. BaseFacts /\ ListShape
  BY BaseGives DEF Base
<1>2. /\ uiq # <<>> /\ uiq' = Tail(uiq) /\ Head(uiq).tag = "REMOVE" /\ Head(uiq).at # Dangling
      /\ friend' = IF Head(uiq).at = Leaked THEN friend
                   ELSE [friend EXCEPT ![Head(uiq).at] = Zeroed]
      /\ friend_list_count' = friend_list_count - 1
      /\ odd' = odd \cup (IF Head(uiq).at # Leaked /\ core[Head(uiq).at] # Nobody
                          THEN {"reused"} ELSE {})
      /\ UNCHANGED <<core, tox, requestVars, ui, mailbox, wanted, limits>>
      /\ UNCHANGED <<item, mouseVars, pageVars, friend_list_size, crashed>>
  BY DEF Freed
<1>3. friend' \in [Number -> [who : Person \cup {Nobody}, number : Number]]
  BY <1>1, <1>2, Constants DEF BaseFacts, Zeroed
<1>4. odd \subseteq odd' /\ odd' \subseteq OddEvent
  BY <1>1, <1>2 DEF BaseFacts, OddEvent
<1>5. CountCovers' /\ friend_list_count' \in Nat
  <2>1. Cardinality(OnTheWay') = Cardinality(OnTheWay) - 1
    BY <1>1, <1>2, TailWay
  <2>2. FriendEntries' = FriendEntries
    BY <1>2 DEF FriendEntries
  <2>3. /\ friend_list_size \in Nat /\ friend_list_count \in Nat
        /\ UNCHANGED <<mailbox, tox, friend_list_size>>
    BY <1>1, <1>2, Constants DEF BaseFacts
  <2>4. Cardinality(FriendEntries) \in Nat /\ Cardinality(OnTheWay) \in Nat /\ Owed \in Nat
    BY <1>1, CountTypes
  <2>5. Owed' = Owed - 1
    BY <2>3, <2>1, <2>2, <2>4 DEF Owed
  <2>6. Owed' \in Nat
    <3>1. Cardinality(OnTheWay') \in Nat
      <4>1. 1 \in OnTheWay
        BY <1>1, <1>2, TailFacts DEF OnTheWay, BaseFacts
      <4>2. Cardinality(OnTheWay) # 0
        BY <1>1, <4>1, CountTypes, FS_EmptySet
      <4> QED
        BY <1>1, <2>1, <4>2, CountTypes
    <3> QED
      BY <2>3, <2>2, <2>4, <3>1 DEF Owed
  <2> QED
    BY <1>2, <2>3, <2>4, <2>5, <2>6 DEF Base, CountCovers
<1>6. TypeOK'
  BY <1>2, <1>3, <1>4, <1>5, TakenType DEF Base, TypeOK
<1>7. ListShape' /\ RequestPanel'
  BY <1>2, <1>4 DEF Base, ListShape, RequestPanel, Listed
<1> QED
  BY <1>5, <1>6, <1>7 DEF Base

LEMMA ReceiveBase ==
    ASSUME Base, Receive
    PROVE  Base'
  BY BaseGives, ReceiveCases, DroppedBase, PutsRequestBase, PutsFriendBase, TurnsBase, FreedBase

-----------------------------------------------------------------------------
(* The toxcore thread *)

\* A message in the queue before and after the arrays of its pointers may have moved.
Moved(old, new) ==
    /\ new \in Message /\ new.tag = old.tag
    /\ old.tag \in {"INCOMING", "ADDED"} => new = old
    /\ old.tag = "ACCEPTED" => new.number = old.number /\ new.at \in {old.at, Dangling}
    /\ old.tag = "REMOVE" => new.at \in {old.at, Dangling, Leaked}

\* The queue after a message, if those before it may have moved.
Told(msg) ==
    /\ uiq' \in Seq(Message) /\ Len(uiq') = Len(uiq) + 1 /\ msg \in Message
    /\ \A k \in 1 .. Len(uiq) : Moved(uiq[k], uiq'[k])
    /\ uiq'[Len(uiq) + 1] = msg

LEMMA StaleMessage ==
    ASSUME NEW m \in Message
    PROVE  Moved(m, StaleAt(m, {"ACCEPT", "ACCEPTED"}))
<1>1. CASE m.tag = "ACCEPTED"
  <2>1. m \in [tag : {"ACCEPTED"}, number : Number, at : {Dangling} \cup (Nat \ {0})]
    BY <1>1 DEF Message
  <2>2. Stale(m.at) \in {m.at, Dangling}
    BY DEF Stale
  <2>3. StaleAt(m, {"ACCEPT", "ACCEPTED"}) = [m EXCEPT !.at = Stale(m.at)]
    BY <1>1 DEF StaleAt
  <2>4. [m EXCEPT !.at = Stale(m.at)]
          \in [tag : {"ACCEPTED"}, number : Number, at : {Dangling} \cup (Nat \ {0})]
        /\ [m EXCEPT !.at = Stale(m.at)].number = m.number
        /\ [m EXCEPT !.at = Stale(m.at)].at = Stale(m.at)
    BY <2>1, <2>2
  <2> QED
    BY <1>1, <2>1, <2>2, <2>3, <2>4 DEF Moved, Message
<1>2. CASE m.tag # "ACCEPTED"
  BY <1>2, MessageFacts DEF Moved, StaleAt
<1> QED
  BY <1>1, <1>2

LEMMA StaleCommand ==
    ASSUME NEW c \in Command
    PROVE  /\ StaleAt(c, {"ACCEPT", "ACCEPTED"}) \in Command
           /\ StaleAt(c, {"ACCEPT", "ACCEPTED"}).tag = c.tag
           /\ c.tag # "ACCEPT" => StaleAt(c, {"ACCEPT", "ACCEPTED"}) = c
           /\ c.tag = "ACCEPT" => StaleAt(c, {"ACCEPT", "ACCEPTED"}).at = Stale(c.at)
<1>1. CASE c.tag = "ACCEPT"
  <2>1. c \in [tag : {"ACCEPT"}, at : {Dangling} \cup Nat]
    BY <1>1 DEF Command, Empty
  <2>2. Stale(c.at) \in {c.at, Dangling}
    BY DEF Stale
  <2>3. StaleAt(c, {"ACCEPT", "ACCEPTED"}) = [c EXCEPT !.at = Stale(c.at)]
    BY <1>1 DEF StaleAt
  <2>4. [c EXCEPT !.at = Stale(c.at)] \in [tag : {"ACCEPT"}, at : {Dangling} \cup Nat]
        /\ [c EXCEPT !.at = Stale(c.at)].at = Stale(c.at)
    BY <2>1, <2>2
  <2> QED
    BY <1>1, <2>3, <2>4 DEF Command
<1>2. CASE c.tag # "ACCEPT"
  BY <1>2, CommandFacts DEF StaleAt
<1> QED
  BY <1>1, <1>2

LEMMA LostMessage ==
    ASSUME NEW m \in Message, m.tag = "REMOVE", NEW p \in {Dangling, Leaked}
    PROVE  Moved(m, [m EXCEPT !.at = p])
<1>1. m \in [tag : {"REMOVE"}, at : Number \cup {Dangling, Leaked}]
  BY DEF Message
<1>2. /\ [m EXCEPT !.at = p] \in [tag : {"REMOVE"}, at : Number \cup {Dangling, Leaked}]
      /\ [m EXCEPT !.at = p].at = p
  BY <1>1
<1> QED
  BY <1>1, <1>2 DEF Moved, Message

LEMMA SameMessage == ASSUME NEW m \in Message PROVE Moved(m, m)
  BY DEF Moved

LEMMA ToldQueue ==
    ASSUME BaseFacts, NEW msg \in Message, NEW moved,
           moved \in [1 .. Len(uiq) -> Message],
           \A k \in 1 .. Len(uiq) : Moved(uiq[k], moved[k]),
           uiq' = Append(moved, msg)
    PROVE  Told(msg)
<1>1. Len(uiq) \in Nat
  BY DEF BaseFacts
<1>2. moved \in Seq(Message) /\ Len(moved) = Len(uiq)
  BY <1>1
<1>3. /\ uiq' \in Seq(Message) /\ Len(uiq') = Len(moved) + 1
      /\ \A k \in 1 .. Len(moved) : uiq'[k] = moved[k]
      /\ uiq'[Len(moved) + 1] = msg
  BY <1>2, AppendFacts
<1> QED
  BY <1>2, <1>3 DEF Told

LEMMA ToldAppend ==
    ASSUME BaseFacts, NEW msg \in Message, uiq' = Append(uiq, msg)
    PROVE  Told(msg)
<1>1. uiq \in Seq(Message) /\ \A k \in 1 .. Len(uiq) : uiq[k] \in Message
  BY DEF BaseFacts
<1>2. \A k \in 1 .. Len(uiq) : Moved(uiq[k], uiq[k])
  BY <1>1, SameMessage
<1>3. uiq' \in Seq(Message) /\ Len(uiq') = Len(uiq) + 1
      /\ (\A k \in 1 .. Len(uiq) : uiq'[k] = uiq[k])
      /\ uiq'[Len(uiq) + 1] = msg
  BY <1>1, AppendFacts
<1> QED
  BY <1>2, <1>3 DEF Told

LEMMA ToldWay ==
    ASSUME BaseFacts, NEW msg, Told(msg)
    PROVE  Cardinality(OnTheWay') = IF msg.tag = "INCOMING" THEN Cardinality(OnTheWay)
                                    ELSE Cardinality(OnTheWay) + 1
<1>1. /\ uiq' \in Seq(Message) /\ Len(uiq') = Len(uiq) + 1 /\ Len(uiq) \in Nat
      /\ \A k \in 1 .. Len(uiq) : uiq'[k].tag = uiq[k].tag
      /\ uiq'[Len(uiq) + 1] = msg
      /\ (msg.tag # "INCOMING" => msg.tag \in {"ADDED", "ACCEPTED", "REMOVE"})
  BY MessageFacts DEF Told, Moved, BaseFacts
<1>2. OnTheWay = {k \in 1 .. Len(uiq) : uiq[k].tag \in {"ADDED", "ACCEPTED", "REMOVE"}}
      /\ OnTheWay' = {k \in 1 .. Len(uiq) + 1 : uiq'[k].tag \in {"ADDED", "ACCEPTED", "REMOVE"}}
  BY <1>1 DEF OnTheWay, BaseFacts
<1>3. msg.tag = "INCOMING" => OnTheWay' = OnTheWay
  BY <1>1, <1>2
<1>4. msg.tag # "INCOMING" => OnTheWay' = OnTheWay \cup {Len(uiq) + 1}
  BY <1>1, <1>2
<1>5. Len(uiq) + 1 \notin OnTheWay
  BY <1>1, <1>2
<1> QED
  BY <1>3, <1>4, <1>5, CountTypes, FS_AddElement

LEMMA FriendRequestFacts ==
    ASSUME BaseFacts, NEW p \in Person, FriendRequest(p)
    PROVE  /\ ToxRuns
           /\ UNCHANGED <<core, tox, friendVars, frequests_freed, item, mouseVars, pageVars, ui,
                          wanted, limits>>
           /\ \/ frequests_freed /\ crashed' = "freed" /\ UNCHANGED <<frequests, mailbox, uiq, odd>>
              \/ /\ ~frequests_freed /\ crashed' = crashed
                 /\ frequests' = Append(frequests, p)
                 /\ Told([tag |-> "INCOMING", at |-> Len(frequests) + 1])
                 /\ mailbox' \in Command /\ mailbox'.tag = mailbox.tag
                 /\ mailbox.tag # "ACCEPT" => mailbox' = mailbox
                 /\ mailbox.tag = "ACCEPT" => mailbox'.at \in {mailbox.at, Stale(mailbox.at)}
                 /\ odd' = odd \cup (IF ui = "shrink" THEN {"raced"} ELSE {})
<1> DEFINE msg == [tag |-> "INCOMING", at |-> Len(frequests) + 1]
           stale(m) == StaleAt(m, {"ACCEPT", "ACCEPTED"})
<1>1. /\ ToxRuns
      /\ UNCHANGED <<core, tox, friendVars, frequests_freed, item, mouseVars, pageVars, ui,
                     wanted, limits>>
  BY DEF FriendRequest
<1>2. CASE frequests_freed
  BY <1>1, <1>2 DEF FriendRequest
<1>3. CASE ~frequests_freed
  <2>1. /\ frequests' = Append(frequests, p) /\ crashed' = crashed
        /\ \/ mailbox' = mailbox /\ uiq' = Append([k \in 1 .. Len(uiq) |-> uiq[k]], msg)
           \/ /\ mailbox' = stale(mailbox)
              /\ uiq' = Append([k \in 1 .. Len(uiq) |-> stale(uiq[k])], msg)
        /\ Happens(IF ui = "shrink" THEN {"raced"} ELSE {})
    BY <1>3 DEF FriendRequest
  <2>2. msg \in Message
    <3>1. Len(frequests) + 1 \in Nat \ {0}
      BY DEF BaseFacts
    <3> QED
      BY <3>1, NewMessages
  <2>3. \A k \in 1 .. Len(uiq) : uiq[k] \in Message
    BY DEF BaseFacts
  <2>4. odd' = odd \cup (IF ui = "shrink" THEN {"raced"} ELSE {})
    BY <2>1, HappensFacts
  <2>5. mailbox \in Command
    BY DEF BaseFacts
  <2>6. CASE mailbox' = mailbox /\ uiq' = Append([k \in 1 .. Len(uiq) |-> uiq[k]], msg)
    <3>1. Told(msg)
      <4>1. \A k \in 1 .. Len(uiq) : Moved(uiq[k], uiq[k])
        BY <2>3, SameMessage
      <4> DEFINE moved == [k \in 1 .. Len(uiq) |-> uiq[k]]
      <4>2. moved \in [1 .. Len(uiq) -> Message]
            /\ \A k \in 1 .. Len(uiq) : Moved(uiq[k], moved[k])
        BY <2>3, <4>1
      <4> HIDE DEF moved, msg
      <4>3. uiq' = Append(moved, msg)
        BY <2>6 DEF moved
      <4> QED
        BY <2>2, <4>2, <4>3, ToldQueue
    <3> QED
      BY <1>1, <1>3, <2>1, <2>4, <2>5, <2>6, <3>1
  <2>7. CASE /\ mailbox' = stale(mailbox)
             /\ uiq' = Append([k \in 1 .. Len(uiq) |-> stale(uiq[k])], msg)
    <3>1. Told(msg)
      <4>1. \A k \in 1 .. Len(uiq) : Moved(uiq[k], stale(uiq[k]))
        BY <2>3, StaleMessage
      <4> DEFINE moved == [k \in 1 .. Len(uiq) |-> stale(uiq[k])]
      <4>a. \A k \in 1 .. Len(uiq) : stale(uiq[k]) \in Message
        BY <4>1 DEF Moved
      <4> HIDE DEF stale
      <4>2. moved \in [1 .. Len(uiq) -> Message]
            /\ \A k \in 1 .. Len(uiq) : Moved(uiq[k], moved[k])
        BY <4>a, <4>1
      <4> HIDE DEF moved, msg
      <4>3. uiq' = Append(moved, msg)
        BY <2>7 DEF moved
      <4> QED
        BY <2>2, <4>2, <4>3, ToldQueue
    <3>2. /\ mailbox' \in Command /\ mailbox'.tag = mailbox.tag
          /\ mailbox.tag # "ACCEPT" => mailbox' = mailbox
          /\ mailbox.tag = "ACCEPT" => mailbox'.at \in {mailbox.at, Stale(mailbox.at)}
      BY <2>5, <2>7, StaleCommand
    <3> QED
      BY <1>1, <1>3, <2>1, <2>4, <3>1, <3>2
  <2> QED
    BY <2>1, <2>6, <2>7
<1> QED
  BY <1>2, <1>3

LEMMA FriendRequestBase ==
    ASSUME Base, NEW p \in Person, FriendRequest(p)
    PROVE  Base'
<1>1. BaseFacts
  BY BaseGives
<1>2. /\ ToxRuns
      /\ UNCHANGED <<core, tox, friendVars, frequests_freed, item, mouseVars, pageVars, ui,
                     wanted, limits>>
  BY <1>1, FriendRequestFacts
<1>3. CASE frequests_freed /\ crashed' = "freed" /\ UNCHANGED <<frequests, mailbox, uiq, odd>>
  <2>1. TypeOK'
    BY <1>2, <1>3 DEF Base, TypeOK
  <2>2. ListShape' /\ RequestPanel' /\ CountCovers'
    BY <1>2, <1>3 DEF Base, ListShape, RequestPanel, Listed, CountCovers, Owed, FriendEntries,
                      OnTheWay
  <2> QED
    BY <2>1, <2>2 DEF Base
<1>4. CASE /\ crashed' = crashed /\ frequests' = Append(frequests, p)
           /\ Told([tag |-> "INCOMING", at |-> Len(frequests) + 1])
           /\ mailbox' \in Command /\ mailbox'.tag = mailbox.tag
           /\ odd' = odd \cup (IF ui = "shrink" THEN {"raced"} ELSE {})
  <2>1. uiq' \in Seq(Message) /\ frequests' \in Seq(Person) /\ odd' \subseteq OddEvent
        /\ odd \subseteq odd'
    BY <1>1, <1>4 DEF Told, BaseFacts, OddEvent
  <2>2. TypeOK'
    BY <1>2, <1>4, <2>1 DEF Base, TypeOK
  <2>3. ListShape' /\ RequestPanel'
    <3>1. tox' = "run"
      BY <1>2 DEF ToxRuns
    <3> QED
      BY <1>2, <1>4, <2>1, <3>1 DEF Base, ListShape, RequestPanel, Listed
  <2>4. CountCovers'
    <3>1. Cardinality(OnTheWay') = Cardinality(OnTheWay)
      BY <1>1, <1>4, ToldWay
    <3> QED
      BY <1>2, <1>4, <3>1 DEF Base, CountCovers, Owed, FriendEntries
  <2> QED
    BY <2>2, <2>3, <2>4 DEF Base
<1> QED
  BY <1>1, <1>3, <1>4, FriendRequestFacts

\* Of a friend that toxcore takes.
Befriended(p, n, msg) ==
    /\ Free(n)
    /\ core' = [core EXCEPT ![n] = p]
    /\ friend' = [friend EXCEPT ![n] = [who |-> p, number |-> n]]
    /\ friend_list_count' = friend_list_count + 1
    /\ friend_list_size' = IF n < friend_list_size THEN friend_list_size ELSE n + 1
    /\ Told(msg)
    /\ \/ messages_friend' = messages_friend
       \/ /\ n >= friend_list_size
          /\ messages_friend' = IF messages_friend \in Number THEN Dangling ELSE messages_friend

LEMMA BefriendFacts ==
    ASSUME BaseFacts, NEW p, NEW n, NEW msg \in Message, Free(n), Befriend(p, n, msg)
    PROVE  Befriended(p, n, msg)
<1>1. /\ core' = [core EXCEPT ![n] = p]
      /\ friend' = [friend EXCEPT ![n] = [who |-> p, number |-> n]]
      /\ friend_list_count' = friend_list_count + 1
      /\ friend_list_size' = IF n < friend_list_size THEN friend_list_size ELSE n + 1
  BY DEF Befriend, Counted
<1>2. CASE uiq' = Append(uiq, msg) /\ UNCHANGED messages_friend
  BY <1>1, <1>2, ToldAppend DEF Befriended
<1> DEFINE moved == [k \in 1 .. Len(uiq) |->
                       IF uiq[k].tag = "REMOVE" /\ uiq[k].at # Leaked
                       THEN [uiq[k] EXCEPT !.at = Dangling] ELSE uiq[k]]
<1>3. CASE /\ n >= friend_list_size
           /\ uiq' = Append(moved, msg)
           /\ messages_friend' = IF messages_friend \in Number THEN Dangling ELSE messages_friend
  <2>1. ASSUME NEW k \in 1 .. Len(uiq)
        PROVE  Moved(uiq[k], moved[k]) /\ moved[k] \in Message
    <3>1. uiq[k] \in Message
      BY DEF BaseFacts
    <3>2. Moved(uiq[k], moved[k])
      BY <3>1, SameMessage, LostMessage
    <3> QED
      BY <3>2 DEF Moved
  <2>2. moved \in [1 .. Len(uiq) -> Message]
        /\ \A k \in 1 .. Len(uiq) : Moved(uiq[k], moved[k])
    BY <2>1
  <2> HIDE DEF moved
  <2>3. Told(msg)
    BY <1>3, <2>2, ToldQueue
  <2> QED
    BY <1>1, <1>3, <2>3 DEF Befriended
<1> QED
  BY <1>2, <1>3 DEF Befriend

LEMMA BefriendedBase ==
    ASSUME Base, ToxRuns, NEW p \in Person, NEW n \in Number, NEW msg, Befriended(p, n, msg),
           msg.tag \in {"ADDED", "ACCEPTED"},
           mailbox.tag \in {"ADD", "ACCEPT"}, mailbox' = Empty,
           UNCHANGED <<tox, requestVars, item, mouseVars, selected_item, panels, ui, histVars>>
    PROVE  Base'
<1>1. BaseFacts /\ ListShape /\ CountCovers
  BY BaseGives DEF Base
<1>2. uiq' \in Seq(Message)
  BY DEF Befriended, Told
<1>3. friend_list_size' \in 0 .. Cardinality(Person) /\ friend_list_count' \in Nat
  BY <1>1, Constants DEF Befriended, BaseFacts
<1>4. core' \in [Number -> Person \cup {Nobody}]
      /\ friend' \in [Number -> [who : Person \cup {Nobody}, number : Number]]
  BY <1>1 DEF Befriended, BaseFacts
<1>5. messages_friend' \in Conversations
  BY <1>1 DEF Befriended, BaseFacts, Conversations
<1>6. TypeOK'
  BY <1>2, <1>3, <1>4, <1>5, NewCommands DEF Base, TypeOK, Conversations
<1>7. ListShape' /\ RequestPanel'
  BY <1>1, NewCommands DEF Base, ListShape, RequestPanel, Listed, ToxRuns
<1>8. CountCovers'
  <2>1. Cardinality(OnTheWay') = Cardinality(OnTheWay) + 1
    BY <1>1, ToldWay DEF Befriended
  <2>2. Owed' = Owed + 1 /\ Owed \in Nat
    BY <1>1, <2>1, CountTypes, NewCommands DEF Owed, FriendEntries, ToxRuns
  <2>3. friend_list_count' = friend_list_count + 1 /\ friend_list_count \in Nat
    BY <1>1 DEF Befriended, BaseFacts
  <2> QED
    BY <1>1, <2>2, <2>3 DEF CountCovers
<1> QED
  BY <1>6, <1>7, <1>8 DEF Base

\* The message is taken, and no friend.
Handled ==
    /\ ToxRuns /\ mailbox.tag \in {"ADD", "ACCEPT"} /\ mailbox' = Empty
    /\ crashed' \in {crashed, "NULL", "FREQUEST"}
    /\ UNCHANGED <<core, friendVars, uiq, messages_friend>>
    /\ UNCHANGED <<tox, requestVars, item, mouseVars, selected_item, panels, ui, wanted, limits,
                   odd>>

LEMMA HandledBase ==
    ASSUME Base, Handled
    PROVE  Base'
<1>1. TypeOK'
  BY NewCommands DEF Base, TypeOK, Handled
<1>2. ListShape' /\ RequestPanel'
  BY NewCommands DEF Base, Handled, ListShape, RequestPanel, Listed, ToxRuns
<1>3. CountCovers'
  <2>1. Owed' = Owed
    BY NewCommands DEF Handled, Owed, FriendEntries, OnTheWay
  <2> QED
    BY <2>1 DEF Base, Handled, CountCovers
<1> QED
  BY <1>1, <1>2, <1>3 DEF Base

LEMMA HandleNewCases ==
    ASSUME BaseFacts, HandleNew
    PROVE  /\ ToxRuns /\ mailbox.tag = "ADD" /\ mailbox' = Empty /\ mailbox.who \in Person
           /\ UNCHANGED <<tox, requestVars, item, mouseVars, selected_item, panels, ui, histVars>>
           /\ \/ mailbox.who \in Friends /\ Handled
              \/ /\ mailbox.who \notin Friends
                 /\ \E n \in Number : Befriended(mailbox.who, n,
                        [tag |-> "ADDED", number |-> n, who |-> mailbox.who])
<1>1. /\ ToxRuns /\ mailbox.tag = "ADD" /\ mailbox' = Empty /\ mailbox.who \in Person
      /\ UNCHANGED <<tox, requestVars, item, mouseVars, selected_item, panels, ui, histVars>>
  BY CommandFacts DEF HandleNew, BaseFacts
<1>2. CASE mailbox.who \in Friends
  BY <1>1, <1>2 DEF HandleNew, Handled
<1>3. CASE mailbox.who \notin Friends
  <2>1. PICK n \in Number : Free(n) /\ Befriend(mailbox.who, n,
                                [tag |-> "ADDED", number |-> n, who |-> mailbox.who])
    BY <1>3 DEF HandleNew
  <2>2. [tag |-> "ADDED", number |-> n, who |-> mailbox.who] \in Message
    BY <1>1, NewMessages
  <2> QED
    BY <1>1, <1>3, <2>1, <2>2, BefriendFacts
<1> QED
  BY <1>2, <1>3

LEMMA HandleAcceptCases ==
    ASSUME BaseFacts, HandleAccept
    PROVE  /\ ToxRuns /\ mailbox.tag = "ACCEPT" /\ mailbox' = Empty
           /\ UNCHANGED <<tox, requestVars, item, mouseVars, selected_item, panels, ui, wanted,
                          limits, odd>>
           /\ \/ Handled /\ crashed' = (IF mailbox.at = Null THEN "NULL" ELSE "FREQUEST")
              \/ /\ mailbox.at \in 1 .. Len(frequests) /\ ~frequests_freed
                 /\ frequests[mailbox.at] \in Person /\ crashed' = crashed
                 /\ \/ frequests[mailbox.at] \in Friends /\ Handled
                    \/ /\ frequests[mailbox.at] \notin Friends
                       /\ \E n \in Number : Befriended(frequests[mailbox.at], n,
                              [tag |-> "ACCEPTED", number |-> n, at |-> mailbox.at])
<1> DEFINE r == mailbox.at
<1>1. /\ ToxRuns /\ mailbox.tag = "ACCEPT" /\ mailbox' = Empty
      /\ UNCHANGED <<tox, requestVars, item, mouseVars, selected_item, panels, ui, wanted,
                     limits, odd>>
  BY DEF HandleAccept
<1>2. r \in {Dangling} \cup Nat
  BY <1>1, CommandFacts DEF BaseFacts
<1>3. CASE r \in {Null, Dangling} \/ r > Len(frequests) \/ frequests_freed
  BY <1>1, <1>3 DEF HandleAccept, Handled
<1>4. CASE ~(r \in {Null, Dangling} \/ r > Len(frequests) \/ frequests_freed)
  <2>1. r \in 1 .. Len(frequests) /\ ~frequests_freed
    BY <1>2, <1>4 DEF BaseFacts, Null
  <2>2. frequests[r] \in Person
    BY <2>1 DEF BaseFacts
  <2>3. crashed' = crashed
    BY <1>4 DEF HandleAccept
  <2>4. CASE frequests[r] \in Friends
    BY <1>1, <1>4, <2>1, <2>2, <2>3, <2>4 DEF HandleAccept, Handled
  <2>5. CASE frequests[r] \notin Friends
    <3>1. PICK n \in Number : Free(n) /\ Befriend(frequests[r], n,
                                  [tag |-> "ACCEPTED", number |-> n, at |-> r])
      BY <1>4, <2>5 DEF HandleAccept
    <3>2. [tag |-> "ACCEPTED", number |-> n, at |-> r] \in Message
      BY <2>1, NewMessages
    <3> QED
      BY <1>1, <2>1, <2>2, <2>3, <2>5, <3>1, <3>2, BefriendFacts
  <2> QED
    BY <2>4, <2>5
<1> QED
  BY <1>3, <1>4

LEMMA HandleAddBase ==
    ASSUME Base, HandleNew \/ HandleAccept
    PROVE  Base'
<1>1. BaseFacts
  BY BaseGives
<1>2. CASE HandleNew
  <2>1. CASE Handled
    BY <2>1, HandledBase
  <2>2. CASE \E n \in Number : Befriended(mailbox.who, n,
                 [tag |-> "ADDED", number |-> n, who |-> mailbox.who])
    BY <1>1, <1>2, <2>2, HandleNewCases, BefriendedBase
  <2> QED
    BY <1>1, <1>2, <2>1, <2>2, HandleNewCases
<1>3. CASE HandleAccept
  <2>1. CASE Handled
    BY <2>1, HandledBase
  <2>2. CASE /\ crashed' = crashed /\ frequests[mailbox.at] \in Person
             /\ \E n \in Number : Befriended(frequests[mailbox.at], n,
                    [tag |-> "ACCEPTED", number |-> n, at |-> mailbox.at])
    BY <1>1, <1>3, <2>2, HandleAcceptCases, BefriendedBase
  <2> QED
    BY <1>1, <1>3, <2>1, <2>2, HandleAcceptCases
<1> QED
  BY <1>2, <1>3

LEMMA HandleDeleteBase ==
    ASSUME Base, HandleDelete
    PROVE  Base'
<1> DEFINE msg == [tag |-> "REMOVE", at |-> mailbox.at]
<1>1. BaseFacts
  BY BaseGives
<1>2. /\ ToxRuns /\ mailbox.tag = "DELETE" /\ mailbox' = Empty /\ uiq' = Append(uiq, msg)
      /\ core' = [core EXCEPT ![mailbox.number] = Nobody]
      /\ UNCHANGED <<tox, friendVars, requestVars, item, mouseVars, pageVars, ui, histVars>>
  BY DEF HandleDelete, Tell
<1>3. msg \in Message /\ mailbox.number \in Number
  BY <1>1, <1>2, CommandFacts, NewMessages DEF BaseFacts
<1>4. Told(msg)
  BY <1>1, <1>2, <1>3, ToldAppend
<1>5. TypeOK'
  BY <1>2, <1>3, <1>4, NewCommands DEF Base, TypeOK, Told
<1>6. ListShape' /\ RequestPanel'
  BY <1>2, NewCommands DEF Base, ListShape, RequestPanel, Listed, ToxRuns
<1>7. CountCovers'
  <2>1. Cardinality(OnTheWay') = Cardinality(OnTheWay) + 1
    BY <1>1, <1>4, ToldWay
  <2>2. Owed' = Owed
    BY <1>1, <1>2, <2>1, CountTypes, NewCommands DEF Owed, FriendEntries, ToxRuns
  <2> QED
    BY <1>2, <2>2 DEF Base, CountCovers
<1> QED
  BY <1>5, <1>6, <1>7 DEF Base

LEMMA HandleKillBase ==
    ASSUME Base, HandleKill
    PROVE  Base'
<1>1. /\ tox = "run" /\ mailbox.tag = "KILL" /\ mailbox' = Empty /\ tox' = "down"
      /\ UNCHANGED <<core, friendVars, requestVars, item, mouseVars, pageVars, ui, uiq, histVars>>
  BY DEF HandleKill, ToxRuns
<1>2. TypeOK'
  BY <1>1, NewCommands DEF Base, TypeOK
<1>3. ListShape' /\ RequestPanel'
  BY <1>1, NewCommands DEF Base, ListShape, RequestPanel, Listed
<1>4. CountCovers'
  <2>1. Owed' = Owed
    BY <1>1, NewCommands DEF Owed, FriendEntries, OnTheWay
  <2> QED
    BY <1>1, <2>1 DEF Base, CountCovers
<1> QED
  BY <1>2, <1>3, <1>4 DEF Base

-----------------------------------------------------------------------------
(* A restart *)

LEMMA SettingsFacts ==
    ASSUME BaseFacts, ChangeSettings
    PROVE  /\ Looping /\ selected_item = SettingsPage /\ menu = "closed"
           /\ mailbox = Empty /\ tox # "down" /\ mailbox' = [tag |-> "KILL"]
           /\ friend' = [n \in Number |-> IF n \in ListedFriends THEN Zeroed ELSE friend[n]]
           /\ friend_list_count' = friend_list_count - Cardinality(FriendEntries)
           /\ \E n \in 0 .. Len(frequests) : frequests' = SubSeq(frequests, 1, n)
           /\ frequests_freed' \in BOOLEAN /\ (frequests_freed => frequests_freed')
           /\ item' = <<>> /\ right_mouse_item' = Stale(right_mouse_item) /\ ui' = "spin"
           /\ odd' = odd \cup {"restart"}
                     \cup (IF \E k \in 1 .. Len(uiq) : uiq[k].tag # "INCOMING"
                           THEN {"crossed"} ELSE {})
           /\ "restart" \notin odd
           /\ UNCHANGED <<core, tox, friend_list_size, menu, pageVars, uiq, wanted, crashed, limits>>
<1>1. /\ Looping /\ selected_item = SettingsPage /\ menu = "closed" /\ "restart" \notin odd
      /\ mailbox = Empty /\ tox # "down" /\ mailbox' = [tag |-> "KILL"]
      /\ friend' = [n \in Number |-> IF n \in ListedFriends THEN Zeroed ELSE friend[n]]
      /\ item' = <<>> /\ right_mouse_item' = Stale(right_mouse_item) /\ ui' = "spin"
      /\ UNCHANGED <<core, tox, friend_list_size, menu, pageVars, uiq, wanted, crashed, limits>>
  BY DEF ChangeSettings, Post
<1>2. friend_list_count' = friend_list_count - Cardinality(FriendEntries)
  <2>1. FriendEntries = {i \in 1 .. Len(item) : item[i].type = "friend"}
    BY DEF FriendEntries, BaseFacts
  <2> QED
    BY <2>1 DEF ChangeSettings
<1>3. /\ \E n \in 0 .. Len(frequests) : frequests' = SubSeq(frequests, 1, n)
      /\ frequests_freed' \in BOOLEAN /\ (frequests_freed => frequests_freed')
  <2>1. PICK r \in 1 .. Len(frequests) + 1 :
          LET frees == r = 1 /\ frequests # <<>>
          IN /\ frequests' = SubSeq(frequests, 1, IF frees THEN 1 ELSE r - 1)
             /\ frequests_freed' = (frequests_freed \/ frees)
    BY DEF ChangeSettings
  <2> DEFINE frees == r = 1 /\ frequests # <<>>
             n == IF frees THEN 1 ELSE r - 1
  <2>2. n \in 0 .. Len(frequests)
    BY DEF BaseFacts
  <2>3. frequests' = SubSeq(frequests, 1, n) /\ frequests_freed' = (frequests_freed \/ frees)
    BY <2>1
  <2>4. frequests_freed \in BOOLEAN /\ frees \in BOOLEAN
    BY DEF BaseFacts
  <2> HIDE DEF frees, n
  <2> QED
    BY <2>2, <2>3, <2>4
<1>4. odd' = odd \cup {"restart"}
             \cup (IF \E k \in 1 .. Len(uiq) : uiq[k].tag # "INCOMING"
                   THEN {"crossed"} ELSE {})
  <2> DEFINE crossed == IF \E k \in 1 .. Len(uiq) : uiq[k].tag # "INCOMING"
                        THEN {"crossed"} ELSE {}
  <2>1. Happens({"restart"} \cup crossed)
    BY DEF ChangeSettings
  <2> HIDE DEF crossed
  <2>2. odd' = odd \cup ({"restart"} \cup crossed)
    BY <2>1, HappensFacts
  <2>3. odd' = odd \cup {"restart"} \cup crossed
    BY <2>2
  <2> QED
    BY <2>3 DEF crossed
<1> QED
  BY <1>1, <1>2, <1>3, <1>4

LEMMA SettingsBase ==
    ASSUME Base, ChangeSettings
    PROVE  Base'
<1>1. BaseFacts /\ ListShape /\ CountCovers
  BY BaseGives DEF Base
<1>2. /\ selected_item = SettingsPage /\ menu = "closed"
      /\ mailbox = Empty /\ tox # "down" /\ mailbox' = [tag |-> "KILL"]
      /\ friend' = [n \in Number |-> IF n \in ListedFriends THEN Zeroed ELSE friend[n]]
      /\ friend_list_count' = friend_list_count - Cardinality(FriendEntries)
      /\ \E n \in 0 .. Len(frequests) : frequests' = SubSeq(frequests, 1, n)
      /\ frequests_freed' \in BOOLEAN
      /\ item' = <<>> /\ right_mouse_item' = Stale(right_mouse_item) /\ ui' = "spin"
      /\ UNCHANGED <<core, tox, friend_list_size, menu, pageVars, uiq, wanted, crashed, limits>>
  BY <1>1, SettingsFacts
<1>3. odd \subseteq odd' /\ odd' \subseteq OddEvent /\ "restart" \in odd'
  BY <1>1, SettingsFacts DEF BaseFacts, OddEvent
<1>4. frequests' \in Seq(Person)
  <2>1. frequests \in Seq(Person)
    BY <1>1 DEF BaseFacts
  <2> QED
    BY <1>2, <2>1, PrefixFacts
<1>5. friend' \in [Number -> [who : Person \cup {Nobody}, number : Number]]
  BY <1>1, <1>2, Constants DEF BaseFacts, Zeroed
<1>6. right_mouse_item' \in {Dangling} \cup Nat /\ mailbox' \in Command
      /\ mailbox'.tag = "KILL" /\ item' \in Seq(Entry) /\ Len(item') = 0
  BY <1>1, <1>2, NewCommands DEF Stale, BaseFacts
<1>7. CountCovers' /\ friend_list_count' \in Nat
  <2>1. FriendEntries' = {} /\ OnTheWay' = OnTheWay
    BY <1>2, <1>6 DEF FriendEntries, OnTheWay
  <2>2. Cardinality(FriendEntries') = 0
    BY <2>1, FS_EmptySet
  <2>3. Cardinality(FriendEntries) \in Nat /\ Owed \in Nat /\ friend_list_count \in Nat
    BY <1>1, CountTypes DEF BaseFacts
  <2>4. (mailbox'.tag = "DELETE") = FALSE /\ (mailbox.tag = "DELETE") = FALSE
    BY <1>2, <1>6, NewCommands
  <2>5. Cardinality(OnTheWay) \in Nat /\ friend_list_size \in Nat
    BY <1>1, CountTypes, Constants DEF BaseFacts
  <2>6. Owed' = Owed - Cardinality(FriendEntries) /\ Owed' \in Nat
    BY <1>2, <2>1, <2>2, <2>3, <2>4, <2>5 DEF Owed
  <2> QED
    BY <1>1, <1>2, <2>3, <2>6 DEF CountCovers
<1>8. TypeOK'
  BY <1>2, <1>3, <1>4, <1>5, <1>6, <1>7 DEF Base, TypeOK
<1>9. ListShape'
  <2>1. item # <<>> /\ tox = "run"
    BY <1>1, <1>2, SettingsFacts DEF ListShape, BaseFacts
  <2> QED
    BY <1>2, <1>3, <1>6, <2>1 DEF ListShape, SettingsPage
<1>10. RequestPanel'
  <2>1. "request" \notin panels
    BY <1>1, <1>2 DEF BaseFacts, SettingsPage
  <2> QED
    BY <1>2, <2>1 DEF RequestPanel
<1> QED
  BY <1>7, <1>8, <1>9, <1>10 DEF Base

LEMMA TakenCount ==
    ASSUME core \in [Number -> Person \cup {Nobody}]
    PROVE  /\ IsFiniteSet(Taken) /\ Taken \subseteq Number
           /\ Cardinality(Taken) \in 0 .. Cardinality(Person)
           /\ \A n : n \in 0 .. Cardinality(Taken) - 1 => n \in Number
<1>1. Taken \subseteq Number
  BY DEF Taken
<1>2. IsFiniteSet(Taken) /\ Cardinality(Taken) \in Nat
      /\ Cardinality(Taken) <= Cardinality(Number)
  BY <1>1, Constants, FS_Subset, FS_CardinalityType
<1> QED
  BY <1>1, <1>2, Constants

LEMMA InitFacts ==
    ASSUME BaseFacts, InitTox
    PROVE  /\ Alive /\ tox = "down" /\ tox' = "up"
           /\ \E at \in Saved :
                /\ core' = [n \in Number |-> IF n \in DOMAIN at THEN core[at[n]] ELSE Nobody]
                /\ friend' = [n \in Number |-> IF n \in DOMAIN at
                                               THEN [who |-> core[at[n]], number |-> n] ELSE Zeroed]
                /\ DOMAIN at = 0 .. Cardinality(Taken) - 1
                /\ \A n \in DOMAIN at : at[n] \in Taken /\ core[at[n]] \in Person
           /\ friend_list_size' = Cardinality(Taken)
           /\ friend_list_count' = friend_list_count + Cardinality(Taken)
           /\ uiq' \in Seq(Message) /\ Len(uiq') = Len(uiq)
           /\ \A k \in 1 .. Len(uiq) : Moved(uiq[k], uiq'[k])
           /\ messages_friend' = IF messages_friend = NoFriend THEN NoFriend ELSE Leaked
           /\ UNCHANGED <<requestVars, item, mouseVars, selected_item, panels, ui, mailbox, histVars>>
<1>1. /\ Alive /\ tox = "down" /\ tox' = "up"
      /\ friend_list_size' = Cardinality(Taken)
      /\ friend_list_count' = friend_list_count + Cardinality(Taken)
      /\ messages_friend' = IF messages_friend = NoFriend THEN NoFriend ELSE Leaked
      /\ UNCHANGED <<requestVars, item, mouseVars, selected_item, panels, ui, mailbox, histVars>>
  BY DEF InitTox
<1>2. PICK at \in Saved :
        /\ core' = [n \in Number |-> IF n \in DOMAIN at THEN core[at[n]] ELSE Nobody]
        /\ friend' = LoadedFriends(at)
  BY DEF InitTox
<1>3. DOMAIN at = 0 .. Cardinality(Taken) - 1 /\ \A n \in DOMAIN at : at[n] \in Taken
  BY DEF Saved, Bijection, Injection
<1>4. \A n \in DOMAIN at : core[at[n]] \in Person
  BY <1>3 DEF Taken, BaseFacts
<1> DEFINE lost == [k \in 1 .. Len(uiq) |-> IF uiq[k].tag = "REMOVE"
                                            THEN [uiq[k] EXCEPT !.at = Leaked] ELSE uiq[k]]
<1>5. ASSUME NEW k \in 1 .. Len(uiq) PROVE Moved(uiq[k], lost[k]) /\ lost[k] \in Message
  <2>1. uiq[k] \in Message
    BY DEF BaseFacts
  <2>2. Moved(uiq[k], lost[k])
    BY <2>1, SameMessage, LostMessage
  <2> QED
    BY <2>2 DEF Moved
<1>6. uiq' = lost
  BY DEF InitTox
<1>7. lost \in [1 .. Len(uiq) -> Message] /\ \A k \in 1 .. Len(uiq) : Moved(uiq[k], lost[k])
  BY <1>5
<1> HIDE DEF lost
<1>8. /\ uiq' \in Seq(Message) /\ Len(uiq') = Len(uiq)
      /\ \A k \in 1 .. Len(uiq) : Moved(uiq[k], uiq'[k])
  BY <1>6, <1>7 DEF BaseFacts
<1> QED
  BY <1>1, <1>2, <1>3, <1>4, <1>8 DEF LoadedFriends

LEMMA InitBase ==
    ASSUME Base, InitTox
    PROVE  Base'
<1>1. BaseFacts /\ ListShape /\ CountCovers
  BY BaseGives DEF Base
<1>2. /\ tox = "down" /\ tox' = "up" /\ mailbox = Empty
      /\ friend_list_size' = Cardinality(Taken)
      /\ friend_list_count' = friend_list_count + Cardinality(Taken)
      /\ uiq' \in Seq(Message) /\ Len(uiq') = Len(uiq)
      /\ \A k \in 1 .. Len(uiq) : uiq'[k].tag = uiq[k].tag
      /\ messages_friend' = IF messages_friend = NoFriend THEN NoFriend ELSE Leaked
      /\ UNCHANGED <<requestVars, item, mouseVars, selected_item, panels, ui, mailbox, histVars>>
  BY <1>1, InitFacts DEF Moved, ListShape
<1>3. PICK at \in Saved :
        /\ core' = [n \in Number |-> IF n \in DOMAIN at THEN core[at[n]] ELSE Nobody]
        /\ friend' = [n \in Number |-> IF n \in DOMAIN at
                                       THEN [who |-> core[at[n]], number |-> n] ELSE Zeroed]
        /\ \A n \in DOMAIN at : core[at[n]] \in Person
  BY <1>1, InitFacts
<1>4. core' \in [Number -> Person \cup {Nobody}]
      /\ friend' \in [Number -> [who : Person \cup {Nobody}, number : Number]]
  BY <1>3, Constants DEF Zeroed
<1>5. Cardinality(Taken) \in 0 .. Cardinality(Person) /\ Cardinality(Taken) \in Nat
  BY <1>1, TakenCount, Constants DEF BaseFacts
<1>6. messages_friend' \in Conversations
  BY <1>2 DEF Conversations
<1>7. TypeOK'
  BY <1>2, <1>4, <1>5, <1>6 DEF Base, TypeOK, Conversations
<1>8. ListShape' /\ RequestPanel'
  BY <1>1, <1>2, NewCommands DEF Base, ListShape, RequestPanel, Listed
<1>9. CountCovers'
  <2>1. OnTheWay' = OnTheWay /\ FriendEntries' = FriendEntries
    BY <1>1, <1>2 DEF OnTheWay, FriendEntries, BaseFacts
  <2>2. Owed' = Owed + Cardinality(Taken) /\ Owed \in Nat
    BY <1>1, <1>2, <1>5, <2>1, CountTypes DEF Owed
  <2> QED
    BY <1>1, <1>2, <1>5, <2>2 DEF CountCovers, BaseFacts
<1> QED
  BY <1>7, <1>8, <1>9 DEF Base

LEMMA StartFacts ==
    ASSUME BaseFacts, ListShape, CountCovers, FlistStart
    PROVE  /\ Alive /\ tox = "up" /\ tox' = "run" /\ item = <<>>
           /\ selected_item' = SettingsPage
           /\ item' \in Seq(Entry) /\ Len(item') = friend_list_count + 1
           /\ friend_list_size \in Nat /\ friend_list_size <= friend_list_count
           /\ \A k \in 1 .. friend_list_size :
                 item'[k] = Friend(friend[k - 1].number) /\ k - 1 \in Number
           /\ item'[friend_list_size + 1] = CreateGroup
           /\ \A k \in friend_list_size + 2 .. Len(item') : item'[k] = Spare
           /\ UNCHANGED <<core, friendVars, requestVars, mouseVars, panels, messages_friend, ui,
                          messageVars, histVars>>
<1>1. Alive /\ tox = "up" /\ tox' = "run" /\ selected_item' = SettingsPage /\ item = <<>>
      /\ UNCHANGED <<core, friendVars, requestVars, mouseVars, panels, messages_friend, ui,
                     messageVars, histVars>>
  BY DEF FlistStart, ListShape
<1>2. friend_list_size \in Nat /\ friend_list_count \in Nat
      /\ friend_list_size <= Cardinality(Person) /\ Cardinality(Person) \in Nat
  BY Constants DEF BaseFacts
<1>3. friend_list_size <= friend_list_count
  BY <1>1, <1>2, CountTypes DEF CountCovers, Owed
<1> DEFINE rest == friend_list_count - friend_list_size
           friends == [k \in 1 .. friend_list_size |-> Friend(friend[k - 1].number)]
           spares == [k \in 1 .. rest |-> Spare]
<1>4. item' = friends \o <<CreateGroup>> \o spares
  BY <1>2, <1>3 DEF FlistStart
<1>5. \A k \in 1 .. friend_list_size : k - 1 \in Number /\ Friend(friend[k - 1].number) \in Entry
  <2>1. ASSUME NEW k \in 1 .. friend_list_size PROVE k - 1 \in Number
    BY <1>2 DEF Number
  <2> QED
    BY <2>1, NewEntries DEF BaseFacts
<1>6. friends \in Seq(Entry) /\ Len(friends) = friend_list_size
      /\ \A k \in 1 .. friend_list_size : friends[k] = Friend(friend[k - 1].number)
  BY <1>2, <1>5
<1>7. rest \in Nat /\ spares \in Seq(Entry) /\ Len(spares) = rest
      /\ \A k \in 1 .. rest : spares[k] = Spare
  BY <1>2, <1>3, NewEntries
<1>8. <<CreateGroup>> \in Seq(Entry) /\ Len(<<CreateGroup>>) = 1 /\ <<CreateGroup>>[1] = CreateGroup
  BY NewEntries
<1> HIDE DEF friends, spares
<1> DEFINE most == friends \o <<CreateGroup>>
<1>9. /\ most \in Seq(Entry) /\ Len(most) = friend_list_size + 1
      /\ \A k \in 1 .. friend_list_size : most[k] = friends[k]
      /\ most[friend_list_size + 1] = CreateGroup
  BY <1>2, <1>6, <1>8
<1>10. item' = most \o spares
  BY <1>4
<1> HIDE DEF most
<1>11. /\ item' \in Seq(Entry) /\ Len(item') = Len(most) + Len(spares)
       /\ \A k \in 1 .. Len(most) : item'[k] = most[k]
       /\ \A k \in 1 .. Len(spares) : item'[Len(most) + k] = spares[k]
  <2>1. most \in Seq(Entry)
    BY <1>9
  <2>2. spares \in Seq(Entry)
    BY <1>7
  <2> QED
    BY <1>10, <2>1, <2>2, ConcatFacts
<1>12. Len(item') = friend_list_count + 1
  BY <1>2, <1>7, <1>9, <1>11
<1>13. \A k \in 1 .. friend_list_size : item'[k] = Friend(friend[k - 1].number)
  BY <1>2, <1>6, <1>9, <1>11
<1>14. item'[friend_list_size + 1] = CreateGroup
  BY <1>2, <1>9, <1>11
<1>15. ASSUME NEW k \in friend_list_size + 2 .. Len(item') PROVE item'[k] = Spare
  <2>1. k - (friend_list_size + 1) \in 1 .. rest
        /\ Len(most) + (k - (friend_list_size + 1)) = k
    BY <1>2, <1>3, <1>9, <1>12
  <2> HIDE DEF rest
  <2> QED
    BY <1>7, <1>11, <2>1
<1> QED
  BY <1>1, <1>2, <1>3, <1>5, <1>11, <1>12, <1>13, <1>14, <1>15

LEMMA StartBase ==
    ASSUME Base, FlistStart
    PROVE  Base'
<1>1. BaseFacts /\ ListShape /\ CountCovers
  BY BaseGives DEF Base
<1>2. /\ tox = "up" /\ tox' = "run" /\ item = <<>>
      /\ selected_item' = SettingsPage
      /\ item' \in Seq(Entry) /\ Len(item') = friend_list_count + 1
      /\ friend_list_size \in Nat /\ friend_list_size <= friend_list_count
      /\ \A k \in 1 .. friend_list_size : item'[k] = Friend(friend[k - 1].number)
      /\ item'[friend_list_size + 1] = CreateGroup
      /\ \A k \in friend_list_size + 2 .. Len(item') : item'[k] = Spare
      /\ UNCHANGED <<core, friendVars, requestVars, mouseVars, panels, messages_friend, ui,
                     messageVars, histVars>>
  BY <1>1, StartFacts
<1>3. TypeOK'
  BY <1>2 DEF Base, TypeOK, Page
<1>4. ListShape'
  <2>1. item' # <<>> /\ item'[Len(item')] \in {CreateGroup, Spare}
    BY <1>1, <1>2 DEF BaseFacts
  <2>2. menu = "closed" /\ mailbox.tag \notin {"DELETE", "KILL"}
    BY <1>1, <1>2 DEF ListShape
  <2> QED
    BY <1>1, <1>2, <2>1, <2>2 DEF ListShape, SettingsPage, BaseFacts
<1>5. RequestPanel'
  <2>1. "request" \notin panels
    BY <1>1, <1>2 DEF BaseFacts
  <2> QED
    BY <1>2, <2>1 DEF RequestPanel
<1>6. CountCovers'
  <2>1. FriendEntries' = 1 .. friend_list_size
    <3>1. \A k \in 1 .. friend_list_size : item'[k].type = "friend"
      BY <1>2, NewEntries
    <3>2. \A k \in friend_list_size + 1 .. Len(item') : item'[k].type # "friend"
      BY <1>2, NewEntries
    <3>3. 1 .. friend_list_size \subseteq 1 .. Len(item')
          /\ 1 .. Len(item')
               = (1 .. friend_list_size) \cup (friend_list_size + 1 .. Len(item'))
      BY <1>1, <1>2 DEF BaseFacts
    <3>4. DOMAIN item' = 1 .. Len(item')
      BY <1>2
    <3> QED
      BY <3>1, <3>2, <3>3, <3>4 DEF FriendEntries
  <2>2. Cardinality(FriendEntries') = friend_list_size
    BY <1>2, <2>1, FS_Interval
  <2>3. FriendEntries = {} /\ OnTheWay' = OnTheWay
    BY <1>2 DEF FriendEntries, OnTheWay
  <2>4. Cardinality(FriendEntries) = 0
    BY <2>3, FS_EmptySet
  <2>5. Owed' = Owed
    BY <1>1, <1>2, <2>2, <2>3, <2>4, CountTypes DEF Owed
  <2> QED
    BY <1>1, <1>2, <2>5 DEF CountCovers
<1> QED
  BY <1>3, <1>4, <1>5, <1>6 DEF Base

-----------------------------------------------------------------------------
(* Every step *)

LEMMA FirstBase == Init => Base
<1> SUFFICES ASSUME Init PROVE Base
  OBVIOUS
<1>1. TypeOK
  <2>1. core \in [Number -> Person \cup {Nobody}] /\ tox \in {"run", "down", "up"}
        /\ friend \in [Number -> [who : Person \cup {Nobody}, number : Number]]
    BY Constants DEF Init, Zeroed
  <2>2. friend_list_size \in 0 .. Cardinality(Person) /\ friend_list_count \in Nat
    BY Constants DEF Init
  <2>3. item \in Seq(Entry) /\ frequests \in Seq(Person) /\ uiq \in Seq(Message)
    BY NewEntries DEF Init
  <2>4. selected_item \in Page /\ right_mouse_item \in {Dangling} \cup Nat
        /\ messages_friend \in Number \cup {NoFriend, Dangling, Leaked}
    BY DEF Init, Page, Null
  <2> QED
    BY <2>1, <2>2, <2>3, <2>4, NewCommands DEF Init, TypeOK
<1>2. ListShape /\ RequestPanel
  BY NewCommands DEF Init, ListShape, RequestPanel, SettingsPage
<1>3. CountCovers
  <2>1. FriendEntries = {} /\ OnTheWay = {}
    BY NewEntries DEF Init, FriendEntries, OnTheWay
  <2>2. Owed = 0
    BY <2>1, FS_EmptySet, NewCommands DEF Init, Owed
  <2> QED
    BY <2>2 DEF Init, CountCovers
<1> QED
  BY <1>1, <1>2, <1>3 DEF Base

\* A step takes back an entry, keeps the list, or is one of those that change it.
LEMMA UserCases ==
    ASSUME BaseFacts, ListShape, UserStep
    PROVE  \/ Stays
           \/ \E i \in Int : Deletes(i) /\ Looping /\ menu' = "closed"
           \/ \E i, j \in 1 .. Len(item) : Drag(i, j)
           \/ ChangeSettings
<1>1. CASE \E i \in 1 .. Len(item) : Click(i) \/ ChangeTab(i)
  BY <1>1, ClickStays, ChangeTabStays
<1>2. CASE \E i \in 1 .. Len(item) + 1 : item # <<>> /\ RightPress(i)
  BY <1>2, RightPressStays
<1>3. CASE MouseFault
  BY <1>3, FaultStays
<1>4. CASE MenuSelect
  BY <1>4, MenuSelectStays
<1>5. CASE Decline
  BY <1>5, DeclineDeletes DEF BaseFacts, Dangling
<1>6. CASE ConfirmDeletion
  BY <1>6, ConfirmDeletes, LeavesStays DEF BaseFacts, Dangling
<1>7. CASE DenyDeletion
  BY <1>7, DenyStays
<1>8. CASE AcceptFriend
  BY <1>8, AcceptFriendStays
<1>9. CASE IgnoreFriend
  BY <1>9, IgnoreDeletes DEF BaseFacts, Page, SettingsPage, AddPage
<1>10. CASE \E page \in {SettingsPage, AddPage} : SelectStatic(page)
  BY <1>10, StaticStays
<1>11. CASE \E p \in Person : SendRequest(p)
  BY <1>11, SendStays
<1> QED
  BY <1>1, <1>2, <1>3, <1>4, <1>5, <1>6, <1>7, <1>8, <1>9, <1>10, <1>11 DEF UserStep

LEMMA DragFacts ==
    ASSUME BaseFacts, NEW i \in 1 .. Len(item), NEW j \in 1 .. Len(item), Drag(i, j)
    PROVE  /\ item' \in Seq(Entry) /\ Len(item') = Len(item)
           /\ \A k \in 1 .. Len(item) :
                 item'[k] = IF k = i THEN item[j] ELSE IF k = j THEN item[i] ELSE item[k]
           /\ item[i].type = "friend" /\ item[j].type = "friend" /\ i # j
           /\ ShowPage(item', j) /\ Looping /\ menu = "closed"
           /\ UNCHANGED <<core, tox, friendVars, requestVars, mouseVars, ui, messageVars, histVars>>
<1>1. /\ item' = [item EXCEPT ![i] = item[j], ![j] = item[i]]
      /\ item[i].type = "friend" /\ item[j].type = "friend" /\ i # j
      /\ ShowPage(item', j) /\ Looping /\ menu = "closed"
      /\ UNCHANGED <<core, tox, friendVars, requestVars, mouseVars, ui, messageVars, histVars>>
  BY DEF Drag
<1>2. item' \in Seq(Entry) /\ Len(item') = Len(item)
  BY <1>1 DEF BaseFacts
<1>3. \A k \in 1 .. Len(item) :
         item'[k] = IF k = i THEN item[j] ELSE IF k = j THEN item[i] ELSE item[k]
  BY <1>1 DEF BaseFacts
<1> QED
  BY <1>1, <1>2, <1>3

LEMMA DragBase ==
    ASSUME Base, NEW i \in 1 .. Len(item), NEW j \in 1 .. Len(item), Drag(i, j)
    PROVE  Base'
<1>1. BaseFacts /\ ListShape /\ CountCovers
  BY BaseGives DEF Base
<1>2. /\ item' \in Seq(Entry) /\ Len(item') = Len(item) /\ Len(item) \in Nat
      /\ \A k \in 1 .. Len(item) :
            item'[k] = IF k = i THEN item[j] ELSE IF k = j THEN item[i] ELSE item[k]
      /\ item[i].type = "friend" /\ item[j].type = "friend" /\ i # j
      /\ ShowPage(item', j) /\ menu = "closed"
      /\ UNCHANGED <<core, tox, friendVars, requestVars, mouseVars, ui, messageVars, histVars>>
  BY <1>1, DragFacts DEF BaseFacts
<1>3. item' # <<>> /\ item # <<>> /\ item'[Len(item')] = item[Len(item)]
  <2>1. item[Len(item)].type \notin {"friend", "request"} /\ item # <<>>
    BY <1>1, EntryPlaces
  <2>2. i # Len(item) /\ j # Len(item) /\ Len(item) \in 1 .. Len(item)
    BY <1>2, <2>1
  <2> QED
    BY <1>2, <2>1, <2>2
<1>4. /\ panels' \subseteq Panels /\ messages_friend' \in Conversations
      /\ selected_item' = j /\ j \in Nat \ {0} /\ j <= Len(item')
      /\ "request" \in panels' => item'[j].type = "request"
  <2>1. "request" \in panels => /\ selected_item \in 1 .. Len(item')
                                /\ item'[selected_item].type \in {"friend", "request"}
    BY <1>1, <1>2 DEF BaseFacts
  <2>2. panels \subseteq Panels /\ messages_friend \in Conversations
        /\ j \in 1 .. Len(item')
    BY <1>1, <1>2 DEF BaseFacts
  <2>3. item' \in Seq(Entry) /\ ShowPage(item', j)
    BY <1>2
  <2>4. /\ panels' \subseteq Panels /\ messages_friend' \in Conversations
        /\ selected_item' = j
        /\ "request" \in panels' => item'[j].type = "request"
    BY <2>1, <2>2, <2>3, ShowPageFacts
  <2> QED
    BY <1>2, <2>2, <2>4
<1>5. TypeOK'
  BY <1>2, <1>4 DEF Base, TypeOK, Page, Panels, Conversations
<1>6. ListShape'
  BY <1>1, <1>2, <1>3, <1>4 DEF ListShape
<1>7. RequestPanel'
  BY <1>2, <1>4 DEF RequestPanel, Listed
<1>8. CountCovers'
  <2>1. FriendEntries' = FriendEntries
    BY <1>1, <1>2 DEF FriendEntries, BaseFacts
  <2>2. Owed' = Owed
    BY <1>2, <2>1 DEF Owed, OnTheWay
  <2> QED
    BY <1>1, <1>2, <2>2 DEF CountCovers
<1> QED
  BY <1>5, <1>6, <1>7, <1>8 DEF Base

LEMMA StepBase == Base /\ [Next]_vars => Base'
<1> SUFFICES ASSUME Base, [Next]_vars PROVE Base'
  OBVIOUS
<1>0. BaseFacts /\ ListShape
  BY BaseGives DEF Base
<1>1. CASE UserStep
  <2>1. CASE Stays
    BY <2>1, StaysBase
  <2>2. CASE \E i \in Int : Deletes(i) /\ Looping /\ menu' = "closed"
    BY <2>2, DeletesBase
  <2>3. CASE \E i, j \in 1 .. Len(item) : Drag(i, j)
    BY <2>3, DragBase
  <2>4. CASE ChangeSettings
    BY <2>4, SettingsBase
  <2> QED
    BY <1>0, <1>1, <2>1, <2>2, <2>3, <2>4, UserCases
<1>2. CASE Receive
  BY <1>2, ReceiveBase
<1>3. CASE DrawFault
  BY <1>0, <1>3, FaultStays, StaysBase
<1>4. CASE Shrink
  BY <1>0, <1>4, ShrinkStays, StaysBase
<1>5. CASE LeaveSpin
  BY <1>0, <1>5, LeaveSpinStays, StaysBase
<1>6. CASE ToxStep
  BY <1>6, FriendRequestBase, HandleAddBase, HandleDeleteBase, HandleKillBase, InitBase, StartBase
     DEF ToxStep
<1>7. CASE UNCHANGED vars
  <2>1. TypeOK' /\ ListShape' /\ RequestPanel'
    BY <1>7 DEF Base, vars, TypeOK, ListShape, RequestPanel, Listed
  <2>2. CountCovers'
    BY <1>7 DEF Base, vars, CountCovers, Owed, FriendEntries, OnTheWay
  <2> QED
    BY <2>1, <2>2 DEF Base
<1> QED
  BY <1>1, <1>2, <1>3, <1>4, <1>5, <1>6, <1>7 DEF Next

\* At every moment the list ends with an entry that is no friend and no request,
\* the button that accepts is only there for a request, and friend_list_count
\* covers the friends that are listed or on their way (flist.c, friend.c).
THEOREM AlwaysBase == Spec => []Base
  BY FirstBase, StepBase, PTL DEF Spec

\* Every variable stays in its type, through drags, deletions and restarts: above
\* all, friend_list_count never falls below zero, because it counts at least the
\* friends that are listed or on their way to or from the list.
THEOREM TypeCorrect == Spec => []TypeOK
  BY AlwaysBase, PTL DEF Base

-----------------------------------------------------------------------------
(* Requests *)

\* The request r is in frequests, and stays there when the array has shrunk.
Kept(r) ==
    /\ r <= (IF ui = "shrink" THEN Len(frequests) - 1 ELSE Len(frequests))
    /\ ~frequests_freed

\* Of the state after a step.
KeptNext(r) ==
    /\ r <= (IF ui' = "shrink" THEN Len(frequests') - 1 ELSE Len(frequests'))
    /\ ~frequests_freed'

\* A request has one entry, or one message that will make it one.
OnceEach ==
    /\ \A i, j \in 1 .. Len(item) : item[i].type = "request" /\ item[j] = item[i] => i = j
    /\ \A k, l \in 1 .. Len(uiq) : uiq[k].tag = "INCOMING" /\ uiq[l] = uiq[k] => k = l
    /\ \A i \in 1 .. Len(item), k \in 1 .. Len(uiq) :
          uiq[k].tag = "INCOMING" => item[i] # Request(uiq[k].at)

AllKept ==
    /\ \A i \in 1 .. Len(item) : item[i].type = "request" => Kept(item[i].id)
    /\ \A k \in 1 .. Len(uiq) : uiq[k].tag = "INCOMING" => Kept(uiq[k].at)

NoneMissed ==
    /\ mailbox.tag = "ACCEPT" => mailbox.at # Null
    /\ crashed = "NULL" => "restart" \in odd

RequestsApart == "raced" \notin odd => OnceEach /\ AllKept /\ NoneMissed

\* Where the entries of friends and requests, and the messages, were before the
\* step, but for the new ones.
EntriesFrom(f, new) ==
    /\ \A k \in 1 .. Len(item') : item'[k].type \in {"friend", "request"} /\ k \notin new =>
          f[k] \in 1 .. Len(item) /\ item'[k] = item[f[k]]
    /\ \A k, l \in 1 .. Len(item') : f[k] = f[l] => k = l

MessagesFrom(g, new) ==
    /\ \A k \in 1 .. Len(uiq') : k \notin new => g[k] \in 1 .. Len(uiq) /\ Moved(uiq[g[k]], uiq'[k])
    /\ \A k, l \in 1 .. Len(uiq') : g[k] = g[l] => k = l

\* The request r is listed, or on its way, after the step.
Remains(r) ==
    \/ \E i \in 1 .. Len(item') : item'[i] = Request(r)
    \/ \E k \in 1 .. Len(uiq') : uiq'[k].tag = "INCOMING" /\ uiq'[k].at = r

LEMMA RequestsFrom ==
    ASSUME OnceEach, AllKept, NEW f, NEW g, NEW places, NEW ends,
           EntriesFrom(f, places), MessagesFrom(g, ends),
           \A k \in 1 .. Len(item') : k \in places => item'[k].type # "request",
           \A k \in 1 .. Len(uiq') : k \in ends => uiq'[k].tag # "INCOMING",
           \A r \in Nat : Kept(r) /\ Remains(r) => KeptNext(r),
           BaseFacts, BaseFacts'
    PROVE  OnceEach' /\ AllKept'
<1>a. ASSUME NEW k \in 1 .. Len(item'), item'[k].type = "request"
      PROVE  f[k] \in 1 .. Len(item) /\ item'[k] = item[f[k]]
  BY <1>a DEF EntriesFrom
<1>b. ASSUME NEW k \in 1 .. Len(uiq'), uiq'[k].tag = "INCOMING"
      PROVE  g[k] \in 1 .. Len(uiq) /\ uiq'[k] = uiq[g[k]]
  BY <1>b DEF MessagesFrom, Moved
<1>1. ASSUME NEW i \in 1 .. Len(item'), NEW j \in 1 .. Len(item'), item'[i].type = "request",
             item'[j] = item'[i]
      PROVE  i = j
  <2>1. /\ f[i] \in 1 .. Len(item) /\ item'[i] = item[f[i]]
        /\ f[j] \in 1 .. Len(item) /\ item'[j] = item[f[j]]
    BY <1>1, <1>a
  <2>2. f[i] = f[j]
    BY <1>1, <2>1 DEF OnceEach
  <2> QED
    BY <2>2 DEF EntriesFrom
<1>2. ASSUME NEW k \in 1 .. Len(uiq'), NEW l \in 1 .. Len(uiq'), uiq'[k].tag = "INCOMING",
             uiq'[l] = uiq'[k]
      PROVE  k = l
  <2>1. /\ g[k] \in 1 .. Len(uiq) /\ uiq'[k] = uiq[g[k]]
        /\ g[l] \in 1 .. Len(uiq) /\ uiq'[l] = uiq[g[l]]
    BY <1>2, <1>b
  <2>2. g[k] = g[l]
    BY <1>2, <2>1 DEF OnceEach
  <2> QED
    BY <2>2 DEF MessagesFrom
<1>3. ASSUME NEW i \in 1 .. Len(item'), NEW k \in 1 .. Len(uiq'), uiq'[k].tag = "INCOMING",
             item'[i] = Request(uiq'[k].at)
      PROVE  FALSE
  <2>1. g[k] \in 1 .. Len(uiq) /\ uiq'[k] = uiq[g[k]]
    BY <1>3, <1>b
  <2>2. item'[i].type = "request"
    BY <1>3, NewEntries
  <2>3. f[i] \in 1 .. Len(item) /\ item'[i] = item[f[i]]
    BY <2>2, <1>a
  <2> QED
    BY <1>3, <2>1, <2>3 DEF OnceEach
<1>4. ASSUME NEW i \in 1 .. Len(item'), item'[i].type = "request"
      PROVE  KeptNext(item'[i].id)
  <2>1. f[i] \in 1 .. Len(item) /\ item'[i] = item[f[i]]
    BY <1>4, <1>a
  <2>2. item[f[i]].id \in Nat
    BY <1>4, <2>1, EntryFacts DEF BaseFacts
  <2>3. Kept(item[f[i]].id)
    BY <1>4, <2>1 DEF AllKept
  <2>4. Remains(item[f[i]].id)
    <3>1. item'[i] = Request(item[f[i]].id)
      BY <1>4, <2>1, EntryFacts DEF BaseFacts
    <3> QED
      BY <3>1 DEF Remains
  <2> QED
    BY <2>1, <2>2, <2>3, <2>4
<1>5. ASSUME NEW k \in 1 .. Len(uiq'), uiq'[k].tag = "INCOMING"
      PROVE  KeptNext(uiq'[k].at)
  <2>1. g[k] \in 1 .. Len(uiq) /\ uiq'[k] = uiq[g[k]]
    BY <1>5, <1>b
  <2>2. uiq[g[k]].at \in Nat
    BY <1>5, <2>1, MessageFacts DEF BaseFacts
  <2>3. Kept(uiq[g[k]].at)
    BY <1>5, <2>1 DEF AllKept
  <2>4. Remains(uiq[g[k]].at)
    BY <1>5, <2>1 DEF Remains
  <2> QED
    BY <2>1, <2>2, <2>3, <2>4
<1>6. OnceEach'
  BY <1>1, <1>2, <1>3 DEF OnceEach
<1>7. AllKept'
  BY <1>4, <1>5 DEF AllKept, Kept, KeptNext
<1> QED
  BY <1>6, <1>7

\* The maps.
Same == [k \in Int |-> k]
Skips(i) == [k \in Int |-> IF k < i THEN k ELSE k + 1]
Swaps(i, j) == [k \in Int |-> IF k = i THEN j ELSE IF k = j THEN i ELSE k]

LEMMA SameEntries == ASSUME BaseFacts, item' = item PROVE EntriesFrom(Same, {})
  BY DEF EntriesFrom, Same, BaseFacts

LEMMA NoEntries == ASSUME item' = <<>> PROVE EntriesFrom(Same, {})
  BY DEF EntriesFrom

LEMMA DeletedFrom == ASSUME BaseFacts, ListShape, NEW i, Deletes(i) PROVE EntriesFrom(Skips(i), {})
<1>1. /\ Len(item') = Len(item) - 1 /\ Len(item) \in Nat /\ i \in 1 .. Len(item) - 1
      /\ \A k \in 1 .. Len(item) - 1 : item'[k] = IF k < i THEN item[k] ELSE item[k + 1]
  BY DeletedPage DEF Deletes, BaseFacts
<1> QED
  BY <1>1 DEF EntriesFrom, Skips

LEMMA DraggedFrom ==
    ASSUME BaseFacts, NEW i \in 1 .. Len(item), NEW j \in 1 .. Len(item), Drag(i, j)
    PROVE  EntriesFrom(Swaps(i, j), {})
<1>1. /\ Len(item') = Len(item) /\ Len(item) \in Nat /\ i # j
      /\ \A k \in 1 .. Len(item) :
            item'[k] = IF k = i THEN item[j] ELSE IF k = j THEN item[i] ELSE item[k]
  BY DragFacts DEF BaseFacts
<1> QED
  BY <1>1 DEF EntriesFrom, Swaps

LEMMA PutFrom ==
    ASSUME BaseFacts, ListShape, NEW entry \in Entry, Put(entry)
    PROVE  EntriesFrom(Same, {Len(item)})
<1>1. /\ Len(item) \in Nat \ {0} /\ Len(item') = Len(item) + 1
      /\ \A k \in 1 .. Len(item) - 1 : item'[k] = item[k]
      /\ item'[Len(item) + 1].type \notin {"friend", "request"}
  BY PutFacts, NewEntries
<1>2. ASSUME NEW k \in 1 .. Len(item'), item'[k].type \in {"friend", "request"}, k # Len(item)
      PROVE  k \in 1 .. Len(item) - 1
  BY <1>1, <1>2
<1> QED
  BY <1>1, <1>2 DEF EntriesFrom, Same

LEMMA TurnedFrom ==
    ASSUME BaseFacts, Turns
    PROVE  EntriesFrom(Same, PlaceOf(Head(uiq).at))
<1>1. /\ Len(item') = Len(item) /\ Len(item) \in Nat
      /\ \A i \in 1 .. Len(item) : i \notin PlaceOf(Head(uiq).at) => item'[i] = item[i]
  BY TurnsFacts DEF BaseFacts
<1> QED
  BY <1>1 DEF EntriesFrom, Same

LEMMA SameMessages == ASSUME BaseFacts, uiq' = uiq PROVE MessagesFrom(Same, {})
<1>1. \A k \in 1 .. Len(uiq) : Moved(uiq[k], uiq[k])
  BY SameMessage DEF BaseFacts
<1> QED
  BY <1>1 DEF MessagesFrom, Same, BaseFacts

LEMMA TailFrom ==
    ASSUME BaseFacts, uiq # <<>>, uiq' = Tail(uiq)
    PROVE  MessagesFrom(Skips(1), {})
<1>1. /\ Len(uiq) \in Nat \ {0} /\ Len(uiq') = Len(uiq) - 1
      /\ \A k \in 1 .. Len(uiq) - 1 : uiq'[k] = uiq[k + 1]
  BY TailFacts DEF BaseFacts
<1>2. \A k \in 1 .. Len(uiq) : Moved(uiq[k], uiq[k])
  BY SameMessage DEF BaseFacts
<1>3. ASSUME NEW k \in 1 .. Len(uiq')
      PROVE  Skips(1)[k] = k + 1 /\ k + 1 \in 1 .. Len(uiq) /\ uiq'[k] = uiq[k + 1]
  BY <1>1 DEF Skips
<1> QED
  BY <1>1, <1>2, <1>3 DEF MessagesFrom

LEMMA ToldFrom ==
    ASSUME BaseFacts, NEW msg, Told(msg)
    PROVE  MessagesFrom(Same, {Len(uiq) + 1})
  BY DEF Told, MessagesFrom, Same, BaseFacts

LEMMA LoadedFrom ==
    ASSUME BaseFacts, InitTox
    PROVE  MessagesFrom(Same, {})
<1>1. Len(uiq') = Len(uiq) /\ \A k \in 1 .. Len(uiq) : Moved(uiq[k], uiq'[k])
  BY InitFacts
<1> QED
  BY <1>1 DEF MessagesFrom, Same

LEMMA BaseGivesNext == ASSUME Base' PROVE BaseFacts'
  BY DEF Base, BaseFacts, TypeOK, ListShape, RequestPanel, Listed, Panels, Conversations

\* What a step of the user that keeps the list asks of toxcore.
Asked ==
    \/ UNCHANGED <<mailbox, wanted>>
    \/ \E p \in Person : Post([tag |-> "ADD", who |-> p]) /\ wanted' = wanted \cup {p}
    \/ \E i \in 1 .. Len(item) : item[i].type = "request" /\ Accept(item[i].id)
    \/ /\ Post([tag |-> "ACCEPT", at |-> Null]) /\ wanted' = wanted
       /\ \E i \in 1 .. Len(item) : item[i].type = "request" /\ item[i].id > Len(frequests)

Minds ==
    /\ UNCHANGED <<core, tox, friendVars, requestVars, item, uiq, ui, limits>>
    /\ Asked
    /\ crashed' \in {crashed, "ITEM", "FRIEND"} /\ (odd' = odd \/ odd' = odd \cup {"jumped"})
    /\ Alive

\* What it does to the page and the menu.
Shows ==
    /\ \/ /\ UNCHANGED pageVars
          /\ \/ UNCHANGED mouseVars
             \/ menu' = "closed" /\ right_mouse_item' \in {right_mouse_item, Null}
             \/ /\ At(right_mouse_item').type # "friend"
                /\ menu' = IF At(right_mouse_item').type = "request" THEN "request" ELSE menu
       \/ /\ \E i \in 1 .. Len(item) :
                /\ ShowPage(item, i)
                /\ \/ menu = "closed" /\ menu' = "closed"
                   \/ menu # "closed" /\ "jumped" \in odd' /\ UNCHANGED mouseVars
                   \/ menu' = "friend" /\ right_mouse_item' = i /\ item[i].type = "friend"
       \/ /\ \E page \in {SettingsPage, AddPage} : ShowStatic(page)
          /\ menu' = "closed"
       \/ /\ panels' = panels \cup {"confirm"} /\ menu = "friend" /\ menu' = "closed"
          /\ UNCHANGED <<right_mouse_item, selected_item, messages_friend>>
       \/ /\ panels' \in {panels \ {"confirm"}, panels \ {"request"}} /\ menu' = "closed"
          /\ UNCHANGED <<right_mouse_item, selected_item, messages_friend>>
    /\ mailbox' = mailbox \/ menu' = "closed"

LEMMA UserMinds ==
    ASSUME BaseFacts, ListShape, UserStep
    PROVE  \/ Minds /\ Shows
           \/ \E i \in Int : Deletes(i) /\ Looping /\ menu' = "closed"
           \/ \E i, j \in 1 .. Len(item) : Drag(i, j)
           \/ ChangeSettings
<1> USE DEF Minds, Asked, Looping, Shows
<1>1. CASE \E i \in 1 .. Len(item) : Click(i)
  BY <1>1 DEF Click
<1>2. CASE \E i \in 1 .. Len(item) : ChangeTab(i)
  <2>1. PICK i \in 1 .. Len(item) : ChangeTab(i)
    BY <1>2
  <2>2. odd' = odd \cup Jumps
    BY <2>1, HappensFacts DEF ChangeTab
  <2>3. /\ odd' = odd \/ odd' = odd \cup {"jumped"}
        /\ menu # "closed" => "jumped" \in odd'
    BY <2>2 DEF Jumps
  <2>4. /\ UNCHANGED <<core, tox, friendVars, requestVars, item, mouseVars, ui, messageVars,
                        wanted, limits, crashed>>
        /\ ShowPage(item, i) /\ Alive
    BY <2>1 DEF ChangeTab
  <2>5. Shows
    BY <2>3, <2>4
  <2> QED
    BY <2>3, <2>4, <2>5 DEF Minds
<1>3. CASE \E i \in 1 .. Len(item) + 1 : item # <<>> /\ RightPress(i)
  <2>1. PICK i \in 1 .. Len(item) + 1 : item # <<>> /\ RightPress(i)
    BY <1>3
  <2>2. /\ At(i) \in Entry
        /\ At(i).type \in {"friend", "request"} => i \in 1 .. Len(item) /\ At(i) = item[i]
    BY <2>1, AtFacts
  <2>3. /\ UNCHANGED <<core, tox, friendVars, requestVars, item, ui, messageVars, histVars>>
        /\ right_mouse_item' = i /\ Alive
        /\ IF At(i).type = "friend" THEN ShowPage(item, i) ELSE UNCHANGED pageVars
        /\ menu' = IF At(i) \in {CreateGroup, Spare} THEN menu ELSE At(i).type
    BY <2>1 DEF RightPress
  <2>4. Minds
    BY <2>3 DEF Minds
  <2>5. CASE At(i).type = "friend"
    <3>1. menu' = "friend" /\ i \in 1 .. Len(item) /\ item[i].type = "friend"
      BY <2>2, <2>3, <2>5, EntryFacts
    <3>2. Shows
      BY <2>3, <2>5, <3>1
    <3> QED
      BY <2>4, <3>2
  <2>6. CASE At(i).type # "friend"
    <3>1. menu' = IF At(i).type = "request" THEN "request" ELSE menu
      BY <2>2, <2>3, <2>6, EntryFacts
    <3>2. Shows
      BY <2>3, <2>6, <3>1
    <3> QED
      BY <2>4, <3>2
  <2> QED
    BY <2>5, <2>6
<1>4. CASE MouseFault
  BY <1>4 DEF MouseFault, Fault
<1>5. CASE MenuSelect
  <2>1. /\ UNCHANGED <<core, tox, friendVars, requestVars, uiq, limits, crashed>>
        /\ item # <<>> /\ Looping /\ menu' = "closed"
    BY <1>5 DEF MenuSelect, BaseFacts
  <2>2. CASE At(right_mouse_item).type = "request" /\ Accept(At(right_mouse_item).id)
             /\ UNCHANGED <<item, right_mouse_item, pageVars, ui, odd>>
    <3>1. right_mouse_item \in 1 .. Len(item) /\ At(right_mouse_item) = item[right_mouse_item]
      BY <2>1, <2>2, AtFacts
    <3> QED
      BY <2>1, <2>2, <3>1
  <2>3. CASE /\ UNCHANGED <<item, right_mouse_item, mailbox, ui, wanted, odd>>
             /\ \/ UNCHANGED pageVars
                \/ /\ panels' = panels \cup {"confirm"} /\ menu = "friend"
                   /\ UNCHANGED <<selected_item, messages_friend>>
    BY <2>1, <2>3
  <2> QED
    BY <1>5, <2>2, <2>3 DEF MenuSelect
<1>6. CASE Decline
  BY <1>6, DeclineDeletes DEF BaseFacts, Dangling
<1>7. CASE ConfirmDeletion
  BY <1>7, ConfirmDeletes DEF BaseFacts, Dangling, Leaves
<1>8. CASE DenyDeletion
  BY <1>8 DEF DenyDeletion
<1>9. CASE AcceptFriend
  <2> DEFINE entry == item[selected_item]
  <2>1. /\ selected_item \in 1 .. Len(item) /\ entry.type = "request"
        /\ UNCHANGED <<core, tox, friendVars, requestVars, item, ui, uiq, limits, crashed, odd>>
        /\ Looping /\ panels' = panels \ {"request"} /\ menu' = "closed"
        /\ UNCHANGED <<mouseVars, selected_item, messages_friend>>
    BY <1>9 DEF AcceptFriend, BaseFacts
  <2>2. CASE entry.id <= Len(frequests)
    <3>1. Accept(entry.id)
      BY <1>9, <2>1, <2>2 DEF AcceptFriend, Listed
    <3> QED
      BY <2>1, <3>1
  <2>3. CASE ~(entry.id <= Len(frequests))
    <3>1. Post([tag |-> "ACCEPT", at |-> Null]) /\ wanted' = wanted
      BY <1>9, <2>3 DEF AcceptFriend
    <3>2. entry.id > Len(frequests)
      <4>1. entry.id \in Nat /\ Len(frequests) \in Nat
        BY <2>1, EntryFacts DEF BaseFacts
      <4> QED
        BY <2>3, <4>1
    <3> QED
      BY <2>1, <3>1, <3>2
  <2> QED
    BY <2>2, <2>3
<1>10. CASE IgnoreFriend
  BY <1>10, IgnoreDeletes DEF BaseFacts, Page, SettingsPage, AddPage
<1>11. CASE \E page \in {SettingsPage, AddPage} : SelectStatic(page)
  BY <1>11 DEF SelectStatic
<1>12. CASE \E p \in Person : SendRequest(p)
  BY <1>12 DEF SendRequest
<1> QED
  BY <1>1, <1>2, <1>3, <1>4, <1>5, <1>6, <1>7, <1>8, <1>9, <1>10, <1>11, <1>12 DEF UserStep

LEMMA FaultMinds == ASSUME DrawFault PROVE Minds /\ Shows
  BY DEF DrawFault, Fault, Minds, Shows, Asked, Looping

\* What the user has asked of toxcore is a request that is there.
LEMMA AskedKept ==
    ASSUME BaseFacts, AllKept, NoneMissed, Asked
    PROVE  mailbox'.tag = "ACCEPT" => mailbox'.at # Null
<1>1. CASE UNCHANGED <<mailbox, wanted>>
  BY <1>1 DEF NoneMissed
<1>2. CASE \E p \in Person : Post([tag |-> "ADD", who |-> p])
  BY <1>2 DEF Post
<1>3. CASE \E i \in 1 .. Len(item) : item[i].type = "request" /\ Accept(item[i].id)
  <2>1. PICK i \in 1 .. Len(item) : item[i].type = "request" /\ Accept(item[i].id)
    BY <1>3
  <2>2. item[i].id \in Nat \ {0}
    BY <2>1, EntryFacts DEF BaseFacts
  <2> QED
    BY <2>1, <2>2, AcceptFacts DEF Null
<1>4. CASE \E i \in 1 .. Len(item) : item[i].type = "request" /\ item[i].id > Len(frequests)
  <2>1. PICK i \in 1 .. Len(item) : item[i].type = "request" /\ item[i].id > Len(frequests)
    BY <1>4
  <2>2. item[i].id \in Nat /\ Len(frequests) \in Nat
    BY <2>1, EntryFacts DEF BaseFacts
  <2> QED
    BY <2>1, <2>2 DEF AllKept, Kept
<1> QED
  BY <1>1, <1>2, <1>3, <1>4 DEF Asked

Apart == OnceEach /\ AllKept /\ NoneMissed

LEMMA KeptLonger ==
    ASSUME NEW r, Kept(r), frequests_freed' = frequests_freed, ui' = ui,
           Len(frequests') = Len(frequests)
    PROVE  KeptNext(r)
  BY DEF Kept, KeptNext

LEMMA MindsApart ==
    ASSUME BaseFacts, BaseFacts', Apart, Minds
    PROVE  Apart'
<1>1. OnceEach' /\ AllKept'
  <2>1. \A r \in Nat : Kept(r) /\ Remains(r) => KeptNext(r)
    BY KeptLonger DEF Minds
  <2>2. EntriesFrom(Same, {}) /\ MessagesFrom(Same, {})
    BY SameEntries, SameMessages DEF Minds
  <2> QED
    BY <2>1, <2>2, RequestsFrom DEF Apart
<1>2. NoneMissed'
  BY AskedKept DEF Apart, NoneMissed, Minds
<1> QED
  BY <1>1, <1>2 DEF Apart

LEMMA LeaveSpinApart ==
    ASSUME BaseFacts, BaseFacts', Apart, LeaveSpin
    PROVE  Apart'
<1>1. OnceEach' /\ AllKept'
  <2>1. \A r \in Nat : Kept(r) /\ Remains(r) => KeptNext(r)
    BY DEF LeaveSpin, Kept, KeptNext
  <2>2. EntriesFrom(Same, {}) /\ MessagesFrom(Same, {})
    BY SameEntries, SameMessages DEF LeaveSpin
  <2> QED
    BY <2>1, <2>2, RequestsFrom DEF Apart
<1>2. NoneMissed'
  BY DEF Apart, NoneMissed, LeaveSpin
<1> QED
  BY <1>1, <1>2 DEF Apart

LEMMA ShrinkApart ==
    ASSUME BaseFacts, BaseFacts', Apart, Shrink
    PROVE  Apart'
<1>1. ASSUME NEW r \in Nat, Kept(r), Remains(r) PROVE KeptNext(r)
  <2>1. r >= 1
    <3>1. CASE \E i \in 1 .. Len(item') : item'[i] = Request(r)
      BY <3>1, NewEntries, EntryFacts DEF BaseFacts
    <3>2. CASE \E k \in 1 .. Len(uiq') : uiq'[k].tag = "INCOMING" /\ uiq'[k].at = r
      BY <3>2, MessageFacts DEF BaseFacts
    <3> QED
      BY <1>1, <3>1, <3>2 DEF Remains
  <2>2. r <= Len(frequests) - 1 /\ ~frequests_freed /\ Len(frequests) \in Nat
        /\ ui' = "loop"
    BY <1>1 DEF Kept, Shrink, BaseFacts
  <2>3. Len(frequests) > 1
    BY <2>1, <2>2
  <2>4. frequests' = SubSeq(frequests, 1, Len(frequests) - 1) /\ frequests # <<>>
        /\ frequests_freed' = frequests_freed
    BY <2>3 DEF Shrink, Front
  <2>5. Len(frequests') = Len(frequests) - 1
    BY <2>4, FrontFacts DEF BaseFacts
  <2> QED
    BY <2>2, <2>4, <2>5 DEF KeptNext
<1>2. OnceEach' /\ AllKept'
  <2>1. EntriesFrom(Same, {}) /\ MessagesFrom(Same, {})
    BY SameEntries, SameMessages DEF Shrink
  <2> QED
    BY <1>1, <2>1, RequestsFrom DEF Apart
<1>3. NoneMissed'
  BY DEF Apart, NoneMissed, Shrink
<1> QED
  BY <1>2, <1>3 DEF Apart

LEMMA DeletesApart ==
    ASSUME BaseFacts, BaseFacts', ListShape, Apart, NEW i, Deletes(i), Looping
    PROVE  Apart'
<1>1. /\ i \in 1 .. Len(item) - 1 /\ i \in 1 .. Len(item) /\ item[i].type \in {"friend", "request"}
      /\ FreeEntry(item[i]) /\ UNCHANGED <<requestVars, uiq, crashed>>
      /\ ui = "loop" /\ Len(item) \in Nat
  BY DEF Deletes, Looping, BaseFacts
<1>2. /\ odd \subseteq odd'
      /\ item[i].type = "friend" =>
           /\ ui' = ui
           /\ mailbox' = [tag |-> "DELETE", number |-> friend[item[i].id].number,
                          at |-> item[i].id]
      /\ item[i].type = "request" =>
           /\ item[i].id \in Nat \ {0} /\ item[i] = Request(item[i].id)
           /\ mailbox' = mailbox /\ ui' = IF item[i].id = Len(frequests) THEN "shrink" ELSE ui
  BY <1>1, FreeEntryFacts, EntryFacts
<1>3. EntriesFrom(Skips(i), {}) /\ MessagesFrom(Same, {})
  BY <1>1, DeletedFrom, SameMessages
<1>4. ASSUME NEW r \in Nat, Kept(r), Remains(r) PROVE KeptNext(r)
  <2>1. CASE ui' = ui
    BY <1>1, <1>4, <2>1, KeptLonger
  <2>2. CASE item[i].type = "request" /\ item[i].id = Len(frequests)
    <3>1. r # item[i].id
      <4>1. CASE \E k \in 1 .. Len(item') : item'[k] = Request(r)
        <5>1. PICK k \in 1 .. Len(item') : item'[k] = Request(r)
          BY <4>1
        <5>2. Skips(i)[k] \in 1 .. Len(item) /\ item[Skips(i)[k]] = Request(r)
          BY <1>3, <5>1, NewEntries DEF EntriesFrom
        <5>3. Skips(i)[k] # i
          BY <1>1 DEF Skips, BaseFacts
        <5>4. item[Skips(i)[k]] # item[i]
          BY <1>1, <2>2, <5>2, <5>3 DEF Apart, OnceEach
        <5> QED
          BY <1>2, <2>2, <5>2, <5>4
      <4>2. CASE \E k \in 1 .. Len(uiq') : uiq'[k].tag = "INCOMING" /\ uiq'[k].at = r
        BY <1>1, <1>2, <2>2, <4>2 DEF Apart, OnceEach
      <4> QED
        BY <1>4, <4>1, <4>2 DEF Remains
    <3>2. r <= Len(frequests) /\ ~frequests_freed /\ Len(frequests) \in Nat
      BY <1>1, <1>4 DEF Kept, BaseFacts
    <3> QED
      BY <1>1, <1>2, <2>2, <3>1, <3>2 DEF KeptNext
  <2> QED
    BY <1>1, <1>2, <2>1, <2>2
<1>5. OnceEach' /\ AllKept'
  BY <1>3, <1>4, RequestsFrom DEF Apart
<1>6. NoneMissed'
  <2>1. CASE item[i].type = "friend"
    BY <1>1, <1>2, <2>1 DEF Apart, NoneMissed
  <2>2. CASE item[i].type = "request"
    BY <1>1, <1>2, <2>2 DEF Apart, NoneMissed
  <2> QED
    BY <1>1, <2>1, <2>2
<1> QED
  BY <1>5, <1>6 DEF Apart

LEMMA DragApart ==
    ASSUME BaseFacts, BaseFacts', Apart,
           NEW i \in 1 .. Len(item), NEW j \in 1 .. Len(item), Drag(i, j)
    PROVE  Apart'
<1>1. UNCHANGED <<requestVars, uiq, ui, mailbox, crashed, odd>>
  BY DragFacts
<1>2. \A r \in Nat : Kept(r) /\ Remains(r) => KeptNext(r)
  BY <1>1, KeptLonger
<1>3. EntriesFrom(Swaps(i, j), {}) /\ MessagesFrom(Same, {})
  BY <1>1, DraggedFrom, SameMessages
<1>4. OnceEach' /\ AllKept'
  BY <1>2, <1>3, RequestsFrom DEF Apart
<1> QED
  BY <1>1, <1>4 DEF Apart, NoneMissed

LEMMA SettingsApart ==
    ASSUME BaseFacts, BaseFacts', Apart, ChangeSettings
    PROVE  Apart'
<1>1. /\ ui = "loop" /\ ui' = "spin" /\ item' = <<>> /\ uiq' = uiq /\ crashed' = crashed
      /\ mailbox' = [tag |-> "KILL"] /\ "restart" \in odd'
  BY SettingsFacts DEF Looping
<1>2. PICK n \in 1 .. Len(frequests) + 1 :
        /\ Shortens(n)
        /\ LET frees == n = 1 /\ frequests # <<>>
           IN /\ frequests' = SubSeq(frequests, 1, IF frees THEN 1 ELSE n - 1)
              /\ frequests_freed' = (frequests_freed \/ frees)
  BY DEF ChangeSettings
<1>3. ASSUME NEW r \in Nat, Kept(r), Remains(r) PROVE KeptNext(r)
  <2>1. PICK k \in 1 .. Len(uiq) : uiq[k].tag = "INCOMING" /\ uiq[k].at = r
    BY <1>1, <1>3 DEF Remains
  <2>2. r \in 1 .. Len(frequests) /\ ~frequests_freed /\ Len(frequests) \in Nat
    BY <1>1, <1>3, <2>1, MessageFacts DEF Kept, BaseFacts
  <2>3. ~(r >= n)
    <3>1. SUFFICES ASSUME r >= n PROVE FALSE
      OBVIOUS
    <3>2. PICK at \in [n .. Len(frequests) -> 1 .. Len(item)] :
            \A m \in n .. Len(frequests) : item[at[m]] = Request(m)
      BY <1>2 DEF Shortens
    <3>3. r \in n .. Len(frequests)
      BY <2>2, <3>1
    <3> QED
      BY <2>1, <3>2, <3>3 DEF Apart, OnceEach
  <2>4. n # 1 /\ r <= n - 1 /\ n - 1 \in 0 .. Len(frequests)
    BY <2>2, <2>3
  <2>5. frequests' = SubSeq(frequests, 1, n - 1) /\ ~frequests_freed'
    BY <1>2, <2>2, <2>4
  <2>6. Len(frequests') = n - 1
    BY <2>4, <2>5, PrefixFacts DEF BaseFacts
  <2> QED
    BY <1>1, <2>4, <2>5, <2>6 DEF KeptNext
<1>4. EntriesFrom(Same, {}) /\ MessagesFrom(Same, {})
  BY <1>1, NoEntries, SameMessages
<1>5. OnceEach' /\ AllKept'
  BY <1>3, <1>4, RequestsFrom DEF Apart
<1> QED
  BY <1>1, <1>5 DEF Apart, NoneMissed

LEMMA DroppedApart ==
    ASSUME BaseFacts, BaseFacts', ListShape, Apart, Dropped, DropCause, Head(uiq) \in Message
    PROVE  Apart'
<1>1. /\ uiq # <<>> /\ uiq' = Tail(uiq)
      /\ UNCHANGED <<item, requestVars, ui, mailbox, odd>>
  BY DEF Dropped
<1>2. \A r \in Nat : Kept(r) /\ Remains(r) => KeptNext(r)
  BY <1>1, KeptLonger
<1>3. EntriesFrom(Same, {}) /\ MessagesFrom(Skips(1), {})
  BY <1>1, SameEntries, TailFrom
<1>4. OnceEach' /\ AllKept'
  BY <1>2, <1>3, RequestsFrom DEF Apart
<1>5. crashed' = "NULL" => "restart" \in odd
  <2>1. CASE Head(uiq).tag = "INCOMING"
    <3>1. Head(uiq).at \in Nat \ {0} /\ Len(frequests) \in Nat /\ Kept(Head(uiq).at)
      <4>1. Head(uiq) = uiq[1] /\ 1 \in 1 .. Len(uiq)
        BY <1>1, TailFacts DEF BaseFacts
      <4> QED
        BY <2>1, <4>1, MessageFacts DEF Apart, AllKept, BaseFacts
    <3>2. Head(uiq).at <= Len(frequests) /\ ~frequests_freed
      BY <3>1 DEF Kept
    <3>3. item = <<>>
      BY <2>1, <3>1, <3>2 DEF DropCause
    <3> QED
      BY <3>3 DEF ListShape
  <2>2. CASE Head(uiq).tag # "INCOMING"
    BY <2>2 DEF DropCause, Apart, NoneMissed, ListShape
  <2> QED
    BY <2>1, <2>2
<1> QED
  BY <1>1, <1>4, <1>5 DEF Apart, NoneMissed

LEMMA PutsFriendApart ==
    ASSUME BaseFacts, BaseFacts', ListShape, Apart, PutsFriend, Head(uiq) \in Message
    PROVE  Apart'
<1> DEFINE entry == Friend(friend[Head(uiq).number].number)
<1>1. entry \in Entry /\ Put(entry) /\ entry.type = "friend" /\ odd \subseteq odd'
  BY PutsFriendFacts, NewEntries
<1> HIDE DEF entry
<1>2. /\ uiq # <<>> /\ uiq' = Tail(uiq)
      /\ UNCHANGED <<requestVars, ui, mailbox, crashed>>
  BY <1>1 DEF Put
<1>3. EntriesFrom(Same, {Len(item)}) /\ MessagesFrom(Skips(1), {})
  BY <1>1, <1>2, PutFrom, TailFrom
<1>4. \A r \in Nat : Kept(r) /\ Remains(r) => KeptNext(r)
  BY <1>2, KeptLonger
<1>5. \A k \in 1 .. Len(item') : k \in {Len(item)} => item'[k].type # "request"
  BY <1>1, PutFacts
<1>6. OnceEach' /\ AllKept'
  BY <1>3, <1>4, <1>5, RequestsFrom DEF Apart
<1> QED
  BY <1>1, <1>2, <1>6 DEF Apart, NoneMissed

LEMMA TurnsApart ==
    ASSUME BaseFacts, BaseFacts', Apart, Turns
    PROVE  Apart'
<1>1. /\ uiq # <<>> /\ uiq' = Tail(uiq)
      /\ UNCHANGED <<requestVars, ui, mailbox, crashed, odd>>
  BY DEF Turns
<1>2. EntriesFrom(Same, PlaceOf(Head(uiq).at)) /\ MessagesFrom(Skips(1), {})
  BY <1>1, TurnedFrom, TailFrom
<1>3. \A r \in Nat : Kept(r) /\ Remains(r) => KeptNext(r)
  BY <1>1, KeptLonger
<1>4. \A k \in 1 .. Len(item') : k \in PlaceOf(Head(uiq).at) => item'[k].type # "request"
  BY TurnsFacts
<1>5. OnceEach' /\ AllKept'
  BY <1>2, <1>3, <1>4, RequestsFrom DEF Apart
<1> QED
  BY <1>1, <1>5 DEF Apart, NoneMissed

LEMMA FreedApart ==
    ASSUME BaseFacts, BaseFacts', Apart, Freed
    PROVE  Apart'
<1>1. /\ uiq # <<>> /\ uiq' = Tail(uiq) /\ odd \subseteq odd'
      /\ UNCHANGED <<item, requestVars, ui, mailbox, crashed>>
  BY DEF Freed
<1>2. EntriesFrom(Same, {}) /\ MessagesFrom(Skips(1), {})
  BY <1>1, SameEntries, TailFrom
<1>3. \A r \in Nat : Kept(r) /\ Remains(r) => KeptNext(r)
  BY <1>1, KeptLonger
<1>4. OnceEach' /\ AllKept'
  BY <1>2, <1>3, RequestsFrom DEF Apart
<1> QED
  BY <1>1, <1>4 DEF Apart, NoneMissed

\* The request leaves the queue for the list.
LEMMA PutsRequestApart ==
    ASSUME BaseFacts, BaseFacts', ListShape, Apart, PutsRequest, Head(uiq) \in Message
    PROVE  Apart'
<1> DEFINE r == Head(uiq).at
           entry == Request(r)
<1>1. /\ Head(uiq).tag = "INCOMING" /\ Put(entry) /\ r \in Nat \ {0} /\ odd' = odd \cup Displaces
  BY MessageFacts DEF PutsRequest
<1>2. entry \in Entry /\ entry.type = "request" /\ entry.id = r
  BY <1>1, NewEntries
<1>3. /\ uiq # <<>> /\ uiq' = Tail(uiq)
      /\ UNCHANGED <<requestVars, ui, mailbox, crashed>>
  BY <1>1 DEF Put
<1>4. /\ Len(uiq) \in Nat \ {0} /\ Len(uiq') = Len(uiq) - 1 /\ Head(uiq) = uiq[1]
      /\ \A k \in 1 .. Len(uiq) - 1 : uiq'[k] = uiq[k + 1]
  BY <1>3, TailFacts DEF BaseFacts
<1>5. ASSUME NEW k \in 1 .. Len(uiq')
      PROVE  k + 1 \in 1 .. Len(uiq) /\ uiq'[k] = uiq[k + 1] /\ k + 1 # 1 /\ 1 \in 1 .. Len(uiq)
  BY <1>4
<1>6. ASSUME NEW k \in 1 .. Len(uiq'), uiq'[k].tag = "INCOMING" PROVE uiq'[k].at # r
  <2>1. uiq'[k] # Head(uiq)
    BY <1>1, <1>4, <1>5, <1>6 DEF Apart, OnceEach
  <2>2. uiq'[k] \in Message
    BY DEF BaseFacts
  <2> QED
    BY <1>1, <1>6, <2>1, <2>2 DEF Message
<1> HIDE DEF entry
<1>7. /\ Len(item) \in Nat \ {0} /\ Len(item') = Len(item) + 1
      /\ \A k \in 1 .. Len(item) - 1 : item'[k] = item[k]
      /\ item'[Len(item)] = entry /\ item'[Len(item) + 1] = CreateGroup
  BY <1>1, <1>2, PutFacts
<1>8. ASSUME NEW k \in 1 .. Len(item'), item'[k].type = "request"
      PROVE  \/ k = Len(item) /\ item'[k] = entry
             \/ k \in 1 .. Len(item) /\ item'[k] = item[k] /\ item'[k] # entry
  <2>1. k # Len(item) + 1
    BY <1>7, <1>8, NewEntries
  <2>2. CASE k = Len(item)
    BY <1>7, <2>2
  <2>3. CASE k # Len(item)
    <3>1. k \in 1 .. Len(item) - 1 /\ k \in 1 .. Len(item)
      BY <1>7, <2>1, <2>3
    <3>2. item'[k] = item[k]
      BY <1>7, <3>1
    <3>3. item[k] # entry
      BY <1>1, <1>4, <3>1, <1>5 DEF Apart, OnceEach, entry
    <3> QED
      BY <3>1, <3>2, <3>3
  <2> QED
    BY <2>2, <2>3
<1>9. OnceEach'
  <2>1. ASSUME NEW i \in 1 .. Len(item'), NEW j \in 1 .. Len(item'), item'[i].type = "request",
               item'[j] = item'[i]
        PROVE  i = j
    BY <1>8, <2>1 DEF Apart, OnceEach
  <2>2. ASSUME NEW k \in 1 .. Len(uiq'), NEW l \in 1 .. Len(uiq'), uiq'[k].tag = "INCOMING",
               uiq'[l] = uiq'[k]
        PROVE  k = l
    <3>1. k + 1 = l + 1
      BY <1>5, <2>2 DEF Apart, OnceEach
    <3> QED
      BY <3>1
  <2>3. ASSUME NEW i \in 1 .. Len(item'), NEW k \in 1 .. Len(uiq'), uiq'[k].tag = "INCOMING",
               item'[i] = Request(uiq'[k].at)
        PROVE  FALSE
    <3>1. item'[i].type = "request"
      BY <2>3, NewEntries
    <3>2. CASE item'[i] = entry
      <4>1. uiq'[k].at = r
        BY <2>3, <3>2 DEF entry, Request
      <4> QED
        BY <1>6, <2>3, <4>1
    <3>3. CASE i \in 1 .. Len(item) /\ item'[i] = item[i]
      <4>1. k + 1 \in 1 .. Len(uiq) /\ uiq[k + 1] = uiq'[k]
        BY <1>5, <2>3
      <4>2. uiq[k + 1].tag = "INCOMING" /\ item[i] = Request(uiq[k + 1].at)
        BY <2>3, <3>3, <4>1
      <4> QED
        BY <3>3, <4>1, <4>2 DEF Apart, OnceEach
    <3> QED
      BY <1>8, <3>1, <3>2, <3>3
  <2> QED
    BY <2>1, <2>2, <2>3 DEF OnceEach
<1>10. AllKept'
  <2>1. ASSUME NEW q, Kept(q) PROVE KeptNext(q)
    BY <1>3, <2>1, KeptLonger
  <2>2. ASSUME NEW k \in 1 .. Len(item'), item'[k].type = "request" PROVE KeptNext(item'[k].id)
    <3>1. CASE item'[k] = entry
      <4>1. Kept(r)
        BY <1>1, <1>4 DEF Apart, AllKept
      <4> QED
        BY <1>2, <2>1, <3>1, <4>1
    <3>2. CASE k \in 1 .. Len(item) /\ item'[k] = item[k]
      BY <2>1, <2>2, <3>2 DEF Apart, AllKept
    <3> QED
      BY <1>8, <2>2, <3>1, <3>2
  <2>3. ASSUME NEW k \in 1 .. Len(uiq'), uiq'[k].tag = "INCOMING" PROVE KeptNext(uiq'[k].at)
    BY <1>5, <2>1, <2>3 DEF Apart, AllKept
  <2> QED
    BY <2>2, <2>3 DEF AllKept, Kept, KeptNext
<1> QED
  BY <1>1, <1>3, <1>9, <1>10 DEF Apart, NoneMissed

\* A request comes.
LEMMA FriendRequestApart ==
    ASSUME BaseFacts, BaseFacts', Apart, NEW p \in Person, FriendRequest(p), "raced" \notin odd'
    PROVE  Apart'
<1> DEFINE r == Len(frequests) + 1
           msg == [tag |-> "INCOMING", at |-> r]
<1>1. UNCHANGED <<frequests_freed, item, ui>>
  BY FriendRequestFacts
<1>2. CASE frequests_freed /\ crashed' = "freed" /\ UNCHANGED <<frequests, mailbox, uiq, odd>>
  BY <1>1, <1>2 DEF Apart, OnceEach, AllKept, Kept, NoneMissed
<1>3. CASE /\ ~frequests_freed /\ crashed' = crashed /\ frequests' = Append(frequests, p)
           /\ Told(msg) /\ mailbox'.tag = mailbox.tag
           /\ mailbox.tag # "ACCEPT" => mailbox' = mailbox
           /\ mailbox.tag = "ACCEPT" => mailbox'.at \in {mailbox.at, Stale(mailbox.at)}
           /\ odd' = odd \cup (IF ui = "shrink" THEN {"raced"} ELSE {})
  <2>1. ui # "shrink" /\ ui' # "shrink"
    BY <1>1, <1>3
  <2>2. Len(frequests') = Len(frequests) + 1 /\ Len(frequests) \in Nat /\ r \in Nat \ {0}
    BY <1>3 DEF BaseFacts
  <2>3. ASSUME NEW q \in Nat, Kept(q) PROVE KeptNext(q) /\ q # r
    <3>1. q <= Len(frequests)
      BY <2>1, <2>3 DEF Kept
    <3> QED
      BY <1>1, <1>3, <2>1, <2>2, <3>1 DEF KeptNext
  <2>4. KeptNext(r)
    BY <1>1, <1>3, <2>1, <2>2 DEF KeptNext
  <2>5. \A k \in 1 .. Len(item) : item[k].type = "request" =>
           item[k].id \in Nat /\ Kept(item[k].id) /\ item[k].id # r
    BY <2>3, EntryFacts DEF Apart, AllKept, BaseFacts
  <2>6. \A k \in 1 .. Len(uiq) : uiq[k].tag = "INCOMING" =>
           uiq[k].at \in Nat /\ Kept(uiq[k].at) /\ uiq[k].at # r
    BY <2>3, MessageFacts DEF Apart, AllKept, BaseFacts
  <2>7. msg.tag = "INCOMING" /\ msg.at = r
    OBVIOUS
  <2> HIDE DEF msg, r
  <2>8. Len(uiq) \in Nat /\ Len(uiq') = Len(uiq) + 1 /\ uiq'[Len(uiq) + 1] = msg
        /\ \A k \in 1 .. Len(uiq) :
              uiq'[k].tag = uiq[k].tag /\ (uiq[k].tag = "INCOMING" => uiq'[k] = uiq[k])
    BY <1>3 DEF Told, Moved, BaseFacts
  <2>9. ASSUME NEW k \in 1 .. Len(uiq'), uiq'[k].tag = "INCOMING"
        PROVE  \/ k = Len(uiq) + 1 /\ uiq'[k] = msg
               \/ /\ k \in 1 .. Len(uiq) /\ uiq'[k] = uiq[k] /\ uiq[k].tag = "INCOMING"
                  /\ uiq[k].at # r
    <3>1. k = Len(uiq) + 1 \/ k \in 1 .. Len(uiq)
      BY <2>8
    <3> QED
      BY <2>6, <2>8, <2>9, <3>1
  <2>10. OnceEach'
    <3>1. \A i, j \in 1 .. Len(item) : item[i].type = "request" /\ item[j] = item[i] => i = j
      BY DEF Apart, OnceEach
    <3>2. ASSUME NEW k \in 1 .. Len(uiq'), NEW l \in 1 .. Len(uiq'), uiq'[k].tag = "INCOMING",
                 uiq'[l] = uiq'[k]
          PROVE  k = l
      BY <2>7, <2>9, <3>2 DEF Apart, OnceEach
    <3>3. ASSUME NEW i \in 1 .. Len(item), NEW k \in 1 .. Len(uiq'), uiq'[k].tag = "INCOMING",
                 item[i] = Request(uiq'[k].at)
          PROVE  FALSE
      <4>1. item[i].type = "request" /\ item[i].id = uiq'[k].at
        BY <3>3, NewEntries
      <4>2. item[i].id # r
        BY <2>5, <4>1
      <4> QED
        BY <2>7, <2>9, <3>3, <4>1, <4>2 DEF Apart, OnceEach
    <3> QED
      BY <1>1, <3>1, <3>2, <3>3 DEF OnceEach
  <2>11. AllKept'
    <3>1. \A k \in 1 .. Len(item') : item'[k].type = "request" => KeptNext(item'[k].id)
      BY <1>1, <2>3, <2>5
    <3>2. ASSUME NEW k \in 1 .. Len(uiq'), uiq'[k].tag = "INCOMING" PROVE KeptNext(uiq'[k].at)
      BY <2>3, <2>4, <2>6, <2>7, <2>9, <3>2
    <3> QED
      BY <3>1, <3>2 DEF AllKept, Kept, KeptNext
  <2>12. NoneMissed'
    BY <1>3, <2>1 DEF Apart, NoneMissed, Stale, Null, Dangling
  <2> QED
    BY <2>10, <2>11, <2>12 DEF Apart
<1> QED
  BY <1>2, <1>3, FriendRequestFacts

LEMMA ToldApart ==
    ASSUME BaseFacts, BaseFacts', Apart, NEW msg, Told(msg), msg.tag # "INCOMING",
           UNCHANGED <<requestVars, item, ui, crashed, odd>>, mailbox' = Empty
    PROVE  Apart'
<1>1. EntriesFrom(Same, {}) /\ MessagesFrom(Same, {Len(uiq) + 1})
  BY SameEntries, ToldFrom
<1>2. \A r \in Nat : Kept(r) /\ Remains(r) => KeptNext(r)
  BY KeptLonger
<1>3. \A k \in 1 .. Len(uiq') : k \in {Len(uiq) + 1} => uiq'[k].tag # "INCOMING"
  BY DEF Told
<1>4. OnceEach' /\ AllKept'
  BY <1>1, <1>2, <1>3, RequestsFrom DEF Apart
<1> QED
  BY <1>4, NewCommands DEF Apart, NoneMissed

LEMMA HandledApart ==
    ASSUME BaseFacts, BaseFacts', Apart, Handled, crashed' # "NULL" \/ crashed' = crashed
    PROVE  Apart'
<1>1. UNCHANGED <<requestVars, item, ui, uiq, odd>> /\ mailbox' = Empty
  BY DEF Handled
<1>2. EntriesFrom(Same, {}) /\ MessagesFrom(Same, {})
  BY <1>1, SameEntries, SameMessages
<1>3. \A r \in Nat : Kept(r) /\ Remains(r) => KeptNext(r)
  BY <1>1, KeptLonger
<1>4. OnceEach' /\ AllKept'
  BY <1>2, <1>3, RequestsFrom DEF Apart
<1> QED
  BY <1>1, <1>4, NewCommands DEF Apart, NoneMissed

LEMMA HandleAddApart ==
    ASSUME BaseFacts, BaseFacts', Apart, HandleNew \/ HandleAccept
    PROVE  Apart'
<1>1. CASE HandleNew
  <2>1. mailbox' = Empty /\ UNCHANGED <<requestVars, item, ui, crashed, odd>>
    BY <1>1, HandleNewCases
  <2>2. CASE Handled
    BY <2>1, <2>2, HandledApart
  <2>3. CASE \E n \in Number : Befriended(mailbox.who, n,
                 [tag |-> "ADDED", number |-> n, who |-> mailbox.who])
    BY <2>1, <2>3, ToldApart DEF Befriended
  <2> QED
    BY <1>1, <2>2, <2>3, HandleNewCases
<1>2. CASE HandleAccept
  <2>1. /\ mailbox' = Empty /\ UNCHANGED <<requestVars, item, ui, odd>>
        /\ mailbox.tag = "ACCEPT" /\ mailbox.at # Null
    BY <1>2, HandleAcceptCases DEF Apart, NoneMissed
  <2>2. CASE Handled /\ (crashed' # "NULL" \/ crashed' = crashed)
    BY <2>2, HandledApart
  <2>3. CASE /\ crashed' = crashed
             /\ \E n \in Number : Befriended(frequests[mailbox.at], n,
                    [tag |-> "ACCEPTED", number |-> n, at |-> mailbox.at])
    BY <2>1, <2>3, ToldApart DEF Befriended
  <2> QED
    BY <1>2, <2>1, <2>2, <2>3, HandleAcceptCases
<1> QED
  BY <1>1, <1>2

LEMMA HandleDeleteApart ==
    ASSUME BaseFacts, BaseFacts', Apart, HandleDelete
    PROVE  Apart'
<1> DEFINE msg == [tag |-> "REMOVE", at |-> mailbox.at]
<1>1. /\ mailbox.tag = "DELETE" /\ mailbox' = Empty /\ uiq' = Append(uiq, msg)
      /\ UNCHANGED <<requestVars, item, ui, crashed, odd>>
  BY DEF HandleDelete, Tell
<1>2. msg \in Message /\ msg.tag # "INCOMING"
  BY <1>1, CommandFacts, NewMessages DEF BaseFacts
<1> HIDE DEF msg
<1>3. Told(msg)
  BY <1>1, <1>2, ToldAppend
<1> QED
  BY <1>1, <1>2, <1>3, ToldApart

LEMMA HandleKillApart ==
    ASSUME BaseFacts, BaseFacts', Apart, HandleKill
    PROVE  Apart'
<1>1. UNCHANGED <<requestVars, item, ui, uiq, odd, crashed>> /\ mailbox' = Empty
  BY DEF HandleKill
<1>2. EntriesFrom(Same, {}) /\ MessagesFrom(Same, {})
  BY <1>1, SameEntries, SameMessages
<1>3. \A r \in Nat : Kept(r) /\ Remains(r) => KeptNext(r)
  BY <1>1, KeptLonger
<1>4. OnceEach' /\ AllKept'
  BY <1>2, <1>3, RequestsFrom DEF Apart
<1> QED
  BY <1>1, <1>4, NewCommands DEF Apart, NoneMissed

LEMMA LoadApart ==
    ASSUME BaseFacts, BaseFacts', ListShape, CountCovers, Apart, InitTox \/ FlistStart
    PROVE  Apart'
<1>1. UNCHANGED <<requestVars, ui, mailbox, crashed, odd>>
  BY DEF InitTox, FlistStart
<1>2. \A r \in Nat : Kept(r) /\ Remains(r) => KeptNext(r)
  BY <1>1, KeptLonger
<1>3. CASE InitTox
  <2>1. item' = item
    BY <1>3 DEF InitTox
  <2>2. EntriesFrom(Same, {}) /\ MessagesFrom(Same, {})
    BY <1>3, <2>1, SameEntries, LoadedFrom
  <2>3. OnceEach' /\ AllKept'
    BY <1>2, <2>2, RequestsFrom DEF Apart
  <2> QED
    BY <1>1, <2>3 DEF Apart, NoneMissed
<1>4. CASE FlistStart
  <2>1. uiq' = uiq /\ \A k \in 1 .. Len(item') : item'[k].type # "request"
    <3>1. /\ uiq' = uiq /\ Len(item') = friend_list_count + 1 /\ friend_list_count \in Nat
          /\ friend_list_size \in Nat
          /\ \A k \in 1 .. friend_list_size : item'[k] = Friend(friend[k - 1].number)
          /\ item'[friend_list_size + 1] = CreateGroup
          /\ \A k \in friend_list_size + 2 .. Len(item') : item'[k] = Spare
      BY <1>4, StartFacts DEF BaseFacts
    <3>2. ASSUME NEW k \in 1 .. Len(item')
          PROVE  k \in 1 .. friend_list_size \/ k = friend_list_size + 1
                 \/ k \in friend_list_size + 2 .. Len(item')
      BY <3>1
    <3> QED
      BY <3>1, <3>2, NewEntries
  <2>2. EntriesFrom(Same, 1 .. Len(item'))
    BY DEF EntriesFrom, Same
  <2>3. MessagesFrom(Same, {})
    BY <2>1, SameMessages
  <2>4. OnceEach' /\ AllKept'
    BY <1>2, <2>1, <2>2, <2>3, RequestsFrom DEF Apart
  <2> QED
    BY <1>1, <2>4 DEF Apart, NoneMissed
<1> QED
  BY <1>3, <1>4

LEMMA OddGrows == ASSUME BaseFacts, ListShape, [Next]_vars PROVE odd \subseteq odd'
<1>1. CASE UserStep
  <2>1. CASE Minds
    BY <2>1 DEF Minds
  <2>2. CASE \E i \in Int : Deletes(i)
    BY <2>2, FreeEntryFacts DEF Deletes
  <2>3. CASE \E i, j \in 1 .. Len(item) : Drag(i, j)
    BY <2>3, DragFacts
  <2>4. CASE ChangeSettings
    BY <2>4, SettingsFacts
  <2> QED
    BY <1>1, <2>1, <2>2, <2>3, <2>4, UserMinds
<1>2. CASE Receive
  BY <1>2, ReceiveCases DEF Dropped, PutsRequest, PutsFriend, Turns, Freed
<1>3. CASE DrawFault \/ Shrink \/ LeaveSpin
  BY <1>3 DEF DrawFault, Fault, Shrink, LeaveSpin
<1>4. CASE ToxStep
  <2>1. CASE \E p \in Person : FriendRequest(p)
    BY <2>1, FriendRequestFacts
  <2> QED
    BY <1>4, <2>1 DEF ToxStep, HandleNew, HandleAccept, HandleDelete, HandleKill, InitTox,
                      FlistStart
<1>5. CASE UNCHANGED vars
  BY <1>5 DEF vars
<1> QED
  BY <1>1, <1>2, <1>3, <1>4, <1>5 DEF Next

LEMMA StepApart == Base /\ Base' /\ RequestsApart /\ [Next]_vars => RequestsApart'
<1> SUFFICES ASSUME Base, Base', RequestsApart, [Next]_vars, "raced" \notin odd' PROVE Apart'
  BY DEF RequestsApart, Apart
<1>0. BaseFacts /\ BaseFacts' /\ ListShape /\ CountCovers
  BY BaseGives, BaseGivesNext DEF Base
<1>a. Apart
  BY <1>0, OddGrows DEF RequestsApart, Apart
<1>1. CASE UserStep
  <2>1. CASE Minds
    BY <1>0, <1>a, <2>1, MindsApart
  <2>2. CASE \E i \in Int : Deletes(i) /\ Looping
    BY <1>0, <1>a, <2>2, DeletesApart
  <2>3. CASE \E i, j \in 1 .. Len(item) : Drag(i, j)
    BY <1>0, <1>a, <2>3, DragApart
  <2>4. CASE ChangeSettings
    BY <1>0, <1>a, <2>4, SettingsApart
  <2> QED
    BY <1>0, <1>1, <2>1, <2>2, <2>3, <2>4, UserMinds
<1>2. CASE Receive
  BY <1>0, <1>a, <1>2, ReceiveCases, DroppedApart, PutsRequestApart, PutsFriendApart, TurnsApart,
     FreedApart
<1>3. CASE DrawFault \/ Shrink \/ LeaveSpin
  BY <1>0, <1>a, <1>3, FaultMinds, MindsApart, ShrinkApart, LeaveSpinApart
<1>4. CASE ToxStep
  BY <1>0, <1>a, <1>4, FriendRequestApart, HandleAddApart, HandleDeleteApart, HandleKillApart,
     LoadApart DEF ToxStep
<1>5. CASE UNCHANGED vars
  BY <1>a, <1>5 DEF vars, Apart, OnceEach, AllKept, Kept, NoneMissed
<1> QED
  BY <1>1, <1>2, <1>3, <1>4, <1>5 DEF Next

LEMMA FirstApart == Init => RequestsApart
  BY NewEntries, NewCommands DEF Init, RequestsApart, OnceEach, AllKept, NoneMissed

\* Each request that is listed is in frequests, although both threads change its
\* length, and no message finds it or the list gone, unless a request came while
\* friend_request_free shrank the array.
THEOREM RequestsStay == Spec => []RequestsKept
<1>1. Init => Base /\ RequestsApart
  BY FirstBase, FirstApart
<1>2. Base /\ RequestsApart /\ [Next]_vars => (Base /\ RequestsApart)'
  BY StepBase, StepApart
<1>3. Base /\ RequestsApart => RequestsKept
  <2> SUFFICES ASSUME Base, RequestsApart PROVE RequestsKept
    OBVIOUS
  <2>0. BaseFacts
    BY BaseGives
  <2>1. ASSUME "raced" \notin odd, NEW i \in 1 .. Len(item), item[i].type = "request"
        PROVE  item[i].id <= Len(frequests) /\ ~frequests_freed
    <3>1. Kept(item[i].id) /\ item[i].id \in Nat /\ Len(frequests) \in Nat
      BY <2>0, <2>1, EntryFacts DEF RequestsApart, AllKept, BaseFacts
    <3> QED
      BY <3>1 DEF Kept
  <2> QED
    BY <2>1 DEF RequestsKept, RequestsApart, NoneMissed
<1> QED
  BY <1>1, <1>2, <1>3, PTL DEF Spec

-----------------------------------------------------------------------------
(* The page on display *)

\* The panels are those of the entry.
PanelsOf(entry, shown) ==
    /\ shown \subseteq {entry.type} \cup (IF entry.type = "friend" THEN {"confirm"} ELSE {})
    /\ entry.type \notin {"request", "none"} => entry.type \in shown

PanelsRight == IF Listed(selected_item) THEN PanelsOf(item[selected_item], panels) ELSE panels = {}

\* The menu was opened for a friend, of whom the page is.
MenuRight == menu = "friend" => Listed(selected_item) /\ item[selected_item].type = "friend"

PageShown == odd \cap {"displaced", "jumped"} = {} => PanelsRight /\ MenuRight

LEMMA AllClosed ==
    ASSUME NEW list \in Seq(Entry), NEW i \in 1 .. Len(list), panels \subseteq Panels,
           PanelsOf(list[i], panels)
    PROVE  panels \ Closes(list, i) = {}
<1>1. list[i] \in Entry
  OBVIOUS
<1>2. list[i].type \in {"friend", "request", "create", "none"}
  BY <1>1, EntryFacts
<1>3. CASE list[i].type = "friend"
  BY <1>3, ClosesFacts DEF PanelsOf
<1>4. CASE list[i].type = "request"
  BY <1>4, ClosesFacts DEF PanelsOf
<1>5. CASE list[i].type = "create"
  <2>1. Closes(list, i) = {"create"}
    BY <1>1, <1>5, ClosesFacts, OpensFacts
  <2> QED
    BY <1>5, <2>1 DEF PanelsOf
<1>6. CASE list[i].type = "none"
  BY <1>6 DEF PanelsOf, Panels
<1> QED
  BY <1>2, <1>3, <1>4, <1>5, <1>6

LEMMA OpenedRight ==
    ASSUME NEW e \in Entry, NEW shown, shown = Opens(e) \/ shown = Opens(e) \ {"request"}
    PROVE  PanelsOf(e, shown)
<1>1. e.type \in {"friend", "request", "create", "none"}
  BY EntryFacts
<1> QED
  BY <1>1, OpensFacts DEF PanelsOf

LEMMA ShownRight ==
    ASSUME NEW list \in Seq(Entry), NEW i \in 1 .. Len(list), ShowPage(list, i),
           panels \ Closes(list, selected_item) = {}
    PROVE  PanelsOf(list[i], panels') /\ selected_item' = i
<1>1. panels' = Opens(list[i]) /\ selected_item' = i /\ list[i] \in Entry
  BY DEF ShowPage
<1> QED
  BY <1>1, OpenedRight

LEMMA ClosedHere ==
    ASSUME BaseFacts, PanelsRight
    PROVE  panels \ Closes(item, selected_item) = {}
  BY AllClosed DEF PanelsRight, Listed, BaseFacts

LEMMA MindsShown ==
    ASSUME BaseFacts, ListShape, Minds, Shows, PanelsRight, MenuRight, "jumped" \notin odd'
    PROVE  PanelsRight' /\ MenuRight'
<1>0. item' = item /\ item \in Seq(Entry)
  BY DEF Minds, BaseFacts
<1>1. CASE /\ UNCHANGED pageVars
           /\ \/ UNCHANGED mouseVars
              \/ menu' = "closed"
              \/ menu' = IF At(right_mouse_item').type = "request" THEN "request" ELSE menu
  BY <1>0, <1>1 DEF PanelsRight, MenuRight, Listed
<1>2. CASE \E i \in 1 .. Len(item) :
             /\ ShowPage(item, i)
             /\ \/ menu = "closed" /\ menu' = "closed"
                \/ menu # "closed" /\ "jumped" \in odd' /\ UNCHANGED mouseVars
                \/ menu' = "friend" /\ right_mouse_item' = i /\ item[i].type = "friend"
  <2>1. PICK i \in 1 .. Len(item) :
          /\ ShowPage(item, i)
          /\ menu' = "closed" \/ item[i].type = "friend"
    BY <1>2
  <2>2. PanelsOf(item[i], panels') /\ selected_item' = i
    BY <1>0, <2>1, ClosedHere, ShownRight
  <2> QED
    BY <1>0, <2>1, <2>2 DEF PanelsRight, MenuRight, Listed
<1>3. CASE menu' = "closed" /\ \E page \in {SettingsPage, AddPage} : ShowStatic(page)
  <2>1. PICK page \in {SettingsPage, AddPage} : ShowStatic(page)
    BY <1>3
  <2>2. panels' = {} /\ selected_item' = page
    BY <2>1, ClosedHere DEF ShowStatic
  <2>3. ~Listed(page)
    BY DEF Listed, SettingsPage, AddPage, BaseFacts
  <2> QED
    BY <1>0, <1>3, <2>2, <2>3 DEF PanelsRight, MenuRight, Listed
<1>4. CASE /\ panels' = panels \cup {"confirm"} /\ menu = "friend" /\ menu' = "closed"
           /\ UNCHANGED <<right_mouse_item, selected_item, messages_friend>>
  <2>1. Listed(selected_item) /\ item[selected_item].type = "friend"
    BY <1>4 DEF MenuRight
  <2>2. PanelsOf(item[selected_item], panels')
    BY <1>4, <2>1 DEF PanelsRight, PanelsOf
  <2> QED
    BY <1>0, <1>4, <2>1, <2>2 DEF PanelsRight, MenuRight, Listed
<1>5. CASE /\ panels' \in {panels \ {"confirm"}, panels \ {"request"}} /\ menu' = "closed"
           /\ UNCHANGED <<right_mouse_item, selected_item, messages_friend>>
  <2>1. CASE Listed(selected_item)
    <3>1. item[selected_item].type \in {"friend", "request", "create", "none"}
      BY <1>0, <2>1, EntryFacts DEF Listed
    <3>2. PanelsOf(item[selected_item], panels')
      BY <1>5, <2>1, <3>1 DEF PanelsRight, PanelsOf
    <3> QED
      BY <1>0, <1>5, <2>1, <3>2 DEF PanelsRight, MenuRight, Listed
  <2>2. CASE ~Listed(selected_item)
    BY <1>0, <1>5, <2>2 DEF PanelsRight, MenuRight, Listed
  <2> QED
    BY <2>1, <2>2
<1> QED
  BY <1>1, <1>2, <1>3, <1>4, <1>5 DEF Shows

LEMMA DeletesShown ==
    ASSUME BaseFacts, ListShape, NEW i, Deletes(i), menu' = "closed", PanelsRight
    PROVE  PanelsRight' /\ MenuRight'
<1>1. MenuRight'
  BY DEF MenuRight
<1>2. CASE i # selected_item
  <2>1. panels' = panels
    BY <1>2 DEF Deletes
  <2> QED
    BY <1>1, <1>2, <2>1, DeletedPage DEF PanelsRight, Listed
<1>3. CASE i = selected_item
  <2>1. selected_item' = i /\ item'[i] = item[i + 1] /\ item[i + 1] \in Entry
        /\ i \in 1 .. Len(item')
    BY <1>3, DeletedPage
  <2>2. panels \ Closes(item, i) = {}
    BY <1>3, ClosedHere
  <2>3. panels' = Opens(item[i + 1]) \/ panels' = Opens(item[i + 1]) \ {"request"}
    BY <1>3, <2>2 DEF Deletes
  <2>4. PanelsOf(item[i + 1], panels')
    BY <2>1, <2>3, OpenedRight
  <2> QED
    BY <1>1, <2>1, <2>4 DEF PanelsRight, Listed
<1> QED
  BY <1>2, <1>3

LEMMA DragShown ==
    ASSUME BaseFacts, NEW i \in 1 .. Len(item), NEW j \in 1 .. Len(item), Drag(i, j), PanelsRight
    PROVE  PanelsRight' /\ MenuRight'
<1>1. /\ item' \in Seq(Entry) /\ Len(item') = Len(item) /\ Len(item) \in Nat
      /\ \A k \in 1 .. Len(item) :
            item'[k] = IF k = i THEN item[j] ELSE IF k = j THEN item[i] ELSE item[k]
      /\ item[i].type = "friend" /\ item[j].type = "friend"
      /\ ShowPage(item', j) /\ menu = "closed" /\ menu' = menu
  BY DragFacts DEF BaseFacts
<1>2. Closes(item', selected_item) = Closes(item, selected_item)
  <2>1. CASE selected_item \in 1 .. Len(item)
    <3>1. \/ item'[selected_item] = item[selected_item]
          \/ /\ item'[selected_item].type = "friend"
             /\ item[selected_item].type = "friend"
      BY <1>1, <2>1
    <3> QED
      BY <1>1, <2>1, <3>1 DEF Closes
  <2>2. CASE selected_item \notin 1 .. Len(item)
    BY <1>1, <2>2 DEF Closes
  <2> QED
    BY <2>1, <2>2
<1>3. panels \ Closes(item', selected_item) = {}
  BY <1>2, ClosedHere
<1>4. PanelsOf(item'[j], panels') /\ selected_item' = j
  BY <1>1, <1>3, ShownRight
<1> QED
  BY <1>1, <1>4 DEF PanelsRight, MenuRight, Listed

\* An entry that is put behind the selected one leaves its page.
LEMMA PutUnder ==
    ASSUME BaseFacts, ListShape, NEW entry \in Entry, Put(entry), selected_item # Len(item)
    PROVE  /\ Listed(selected_item)' <=> selected_item' \in 1 .. Len(item')
           /\ selected_item \in 1 .. Len(item') <=> selected_item \in 1 .. Len(item)
           /\ selected_item \in 1 .. Len(item) => item'[selected_item] = item[selected_item]
<1>1. /\ Len(item) \in Nat \ {0} /\ Len(item') = Len(item) + 1
      /\ \A k \in 1 .. Len(item) - 1 : item'[k] = item[k]
  BY PutFacts
<1>2. selected_item \in {SettingsPage, AddPage} \cup Nat /\ selected_item <= Len(item)
  BY DEF BaseFacts, Page
<1> QED
  BY <1>1, <1>2 DEF Listed, SettingsPage, AddPage

LEMMA PutsRequestShown ==
    ASSUME BaseFacts, ListShape, PutsRequest, Head(uiq) \in Message, PanelsRight, MenuRight,
           "displaced" \notin odd'
    PROVE  PanelsRight' /\ MenuRight'
<1> DEFINE entry == Request(Head(uiq).at)
<1>1. Put(entry) /\ entry \in Entry /\ UNCHANGED <<pageVars, menu>> /\ selected_item # Len(item)
  BY MessageFacts, NewEntries DEF PutsRequest, Put, Displaces
<1> HIDE DEF entry
<1> QED
  BY <1>1, PutUnder DEF PanelsRight, MenuRight, Listed

LEMMA PutsFriendShown ==
    ASSUME BaseFacts, ListShape, PutsFriend, Head(uiq) \in Message, PanelsRight, MenuRight,
           odd' \cap {"displaced", "jumped"} = {}
    PROVE  PanelsRight' /\ MenuRight'
<1> DEFINE number == friend[Head(uiq).number].number
           entry == Friend(number)
<1>1. /\ Put(entry) /\ entry \in Entry
      /\ \/ UNCHANGED pageVars
         \/ number + 1 \in 1 .. Len(item') /\ ShowPage(item', number + 1)
  BY PutsFriendFacts
<1>2. selected_item # Len(item) /\ menu = "closed"
  BY DEF PutsFriend, Displaces, Jumps
<1> HIDE DEF number, entry
<1>3. menu' = "closed" /\ item' \in Seq(Entry)
  BY <1>1, <1>2, PutFacts DEF Put
<1>4. CASE UNCHANGED pageVars
  BY <1>1, <1>2, <1>3, <1>4, PutUnder DEF PanelsRight, MenuRight, Listed
<1>5. CASE number + 1 \in 1 .. Len(item') /\ ShowPage(item', number + 1)
  <2>1. Closes(item', selected_item) = Closes(item, selected_item)
    BY <1>1, <1>2, PutUnder DEF Closes
  <2>2. panels \ Closes(item', selected_item) = {}
    BY <2>1, ClosedHere
  <2>3. PanelsOf(item'[number + 1], panels') /\ selected_item' = number + 1
    BY <1>3, <1>5, <2>2, ShownRight
  <2> QED
    BY <1>3, <1>5, <2>3 DEF PanelsRight, MenuRight, Listed
<1> QED
  BY <1>1, <1>4, <1>5

LEMMA TurnsShown ==
    ASSUME BaseFacts, Turns, PanelsRight, MenuRight
    PROVE  PanelsRight' /\ MenuRight'
<1>1. /\ item' \in Seq(Entry) /\ Len(item') = Len(item) /\ Len(item) \in Nat
      /\ \A i \in 1 .. Len(item) : \/ item'[i] = item[i]
                                   \/ item[i].type = "request" /\ item'[i].type = "friend"
  BY TurnsFacts DEF BaseFacts
<1>2. /\ IF selected_item > 0 THEN ShowPage(item', selected_item) ELSE UNCHANGED pageVars
      /\ menu' = menu
  BY DEF Turns
<1>3. CASE selected_item \in 1 .. Len(item)
  <2>1. PanelsOf(item[selected_item], panels)
    BY <1>3 DEF PanelsRight, Listed
  <2>2. panels \ Closes(item', selected_item) = {}
    <3>1. CASE item'[selected_item] = item[selected_item]
      <4>1. Closes(item', selected_item) = Closes(item, selected_item)
        BY <1>1, <3>1 DEF Closes
      <4> QED
        BY <4>1, ClosedHere
    <3>2. CASE item[selected_item].type = "request" /\ item'[selected_item].type = "friend"
      BY <1>1, <1>3, <2>1, <3>2, ClosesFacts DEF PanelsOf
    <3> QED
      BY <1>1, <1>3, <3>1, <3>2
  <2>3. ShowPage(item', selected_item) /\ selected_item \in 1 .. Len(item')
    BY <1>1, <1>2, <1>3
  <2>4. PanelsOf(item'[selected_item], panels') /\ selected_item' = selected_item
    BY <1>1, <2>2, <2>3, ShownRight
  <2>5. item[selected_item].type = "friend" => item'[selected_item].type = "friend"
    BY <1>1, <1>3
  <2> QED
    BY <1>2, <2>3, <2>4, <2>5 DEF PanelsRight, MenuRight, Listed
<1>4. CASE selected_item \notin 1 .. Len(item)
  <2>1. ~(selected_item > 0)
    BY <1>1, <1>4 DEF BaseFacts, Page, SettingsPage, AddPage
  <2> QED
    BY <1>1, <1>2, <1>4, <2>1 DEF PanelsRight, MenuRight, Listed
<1> QED
  BY <1>3, <1>4

LEMMA StepShown == Base /\ PageShown /\ [Next]_vars => PageShown'
<1> SUFFICES ASSUME Base, PageShown, [Next]_vars, odd' \cap {"displaced", "jumped"} = {}
             PROVE  PanelsRight' /\ MenuRight'
  BY DEF PageShown
<1>0. BaseFacts /\ ListShape /\ CountCovers
  BY BaseGives DEF Base
<1>a. PanelsRight /\ MenuRight
  BY <1>0, OddGrows DEF PageShown
<1>b. ASSUME UNCHANGED <<item, pageVars, menu>> PROVE PanelsRight' /\ MenuRight'
  BY <1>a, <1>b DEF PanelsRight, MenuRight, Listed
<1>1. CASE UserStep
  <2>1. CASE Minds /\ Shows
    BY <1>0, <1>a, <2>1, MindsShown
  <2>2. CASE \E i \in Int : Deletes(i) /\ Looping /\ menu' = "closed"
    BY <1>0, <1>a, <2>2, DeletesShown
  <2>3. CASE \E i, j \in 1 .. Len(item) : Drag(i, j)
    BY <1>0, <1>a, <2>3, DragShown
  <2>4. CASE ChangeSettings
    <3>1. /\ selected_item = SettingsPage /\ menu = "closed" /\ item' = <<>>
          /\ UNCHANGED <<pageVars, menu>>
      BY <1>0, <2>4, SettingsFacts
    <3>2. ~Listed(selected_item)
      BY <1>0, <3>1 DEF Listed, SettingsPage, BaseFacts
    <3> QED
      BY <1>a, <3>1, <3>2 DEF PanelsRight, MenuRight, Listed
  <2> QED
    BY <1>0, <1>1, <2>1, <2>2, <2>3, <2>4, UserMinds
<1>2. CASE Receive
  <2>1. CASE Dropped \/ Freed
    BY <1>b, <2>1 DEF Dropped, Freed
  <2> QED
    BY <1>0, <1>a, <1>2, <2>1, ReceiveCases, PutsRequestShown, PutsFriendShown, TurnsShown
<1>3. CASE DrawFault \/ Shrink \/ LeaveSpin
  BY <1>b, <1>3 DEF DrawFault, Fault, Shrink, LeaveSpin
<1>4. CASE ToxStep
  <2>1. CASE FlistStart
    <3>1. /\ selected_item' = SettingsPage /\ item = <<>> /\ tox = "up" /\ UNCHANGED <<panels, menu>>
          /\ item' \in Seq(Entry)
      BY <1>0, <2>1, StartFacts
    <3>2. panels = {} /\ menu = "closed"
      BY <1>0, <1>a, <3>1 DEF PanelsRight, Listed, BaseFacts
    <3>3. SettingsPage \notin 1 .. Len(item')
      BY <3>1 DEF SettingsPage
    <3> QED
      BY <3>1, <3>2, <3>3 DEF PanelsRight, MenuRight, Listed
  <2>2. CASE UNCHANGED <<item, selected_item, panels, menu>>
    BY <1>a, <2>2 DEF PanelsRight, MenuRight, Listed
  <2> QED
    BY <1>4, <2>1, <2>2 DEF ToxStep, FriendRequest, HandleNew, HandleAccept, HandleDelete,
                            HandleKill, InitTox
<1>5. CASE UNCHANGED vars
  BY <1>b, <1>5 DEF vars
<1> QED
  BY <1>1, <1>2, <1>3, <1>4, <1>5 DEF Next

LEMMA FirstShown == Init => PageShown
  BY DEF Init, PageShown, PanelsRight, MenuRight, Listed, SettingsPage

-----------------------------------------------------------------------------
(* The conversation on display *)

\* A friend has been added whom the UI thread will show when it is told.
Soon ==
    \E k \in 1 .. Len(uiq) : uiq[k].tag \in {"ADDED", "ACCEPTED"} /\ uiq[k].number < friend_list_size

ConversationRight ==
    Listed(selected_item) /\ item[selected_item].type = "friend" =>
        \/ messages_friend = item[selected_item].id
        \/ messages_friend = Dangling /\ Soon

Conversation == Alive /\ "beyond" \notin odd => ConversationRight

LEMMA SameConversation ==
    ASSUME ConversationRight, messages_friend' = messages_friend, Soon => Soon',
           selected_item' \in 1 .. Len(item') /\ item'[selected_item'].type = "friend" =>
               selected_item \in 1 .. Len(item) /\ item'[selected_item'] = item[selected_item]
    PROVE  ConversationRight'
  BY DEF ConversationRight, Listed

LEMMA ShownConversation ==
    ASSUME NEW list, NEW i, ShowPage(list, i), item' = list
    PROVE  ConversationRight'
  BY DEF ShowPage, ConversationRight

LEMMA SoonTail ==
    ASSUME BaseFacts, uiq # <<>>, uiq' = Tail(uiq), friend_list_size' = friend_list_size,
           Head(uiq).tag \in {"ADDED", "ACCEPTED"} => Head(uiq).number >= friend_list_size
    PROVE  Soon => Soon'
<1>1. /\ Len(uiq) \in Nat \ {0} /\ Len(uiq') = Len(uiq) - 1
      /\ \A k \in 1 .. Len(uiq) - 1 : uiq'[k] = uiq[k + 1]
      /\ Head(uiq) = uiq[1] /\ Head(uiq) \in Message
  BY TailFacts DEF BaseFacts
<1> SUFFICES ASSUME NEW k \in 1 .. Len(uiq), uiq[k].tag \in {"ADDED", "ACCEPTED"},
                    uiq[k].number < friend_list_size
             PROVE  Soon'
  BY DEF Soon
<1>2. uiq[k].number \in Nat /\ friend_list_size \in Nat
  BY MessageFacts, Constants DEF BaseFacts
<1>3. k # 1
  BY <1>1, <1>2
<1>4. k - 1 \in 1 .. Len(uiq') /\ uiq'[k - 1] = uiq[k]
  BY <1>1, <1>3
<1> QED
  BY <1>4 DEF Soon

LEMMA SoonTold ==
    ASSUME BaseFacts, NEW msg, Told(msg), friend_list_size' \in Nat,
           friend_list_size' >= friend_list_size
    PROVE  Soon => Soon'
<1> SUFFICES ASSUME NEW k \in 1 .. Len(uiq), uiq[k].tag \in {"ADDED", "ACCEPTED"},
                    uiq[k].number < friend_list_size
             PROVE  Soon'
  BY DEF Soon
<1>1. uiq[k].number \in Nat /\ friend_list_size \in Nat /\ Len(uiq) \in Nat
  BY MessageFacts, Constants DEF BaseFacts
<1>2. uiq'[k].tag = uiq[k].tag /\ uiq'[k].number = uiq[k].number /\ k \in 1 .. Len(uiq')
  BY <1>1 DEF Told, Moved
<1> QED
  BY <1>1, <1>2 DEF Soon

LEMMA MindsConversation ==
    ASSUME BaseFacts, Minds, Shows, ConversationRight
    PROVE  ConversationRight'
<1>0. item' = item /\ (Soon => Soon')
  BY DEF Minds, Soon
<1>1. CASE UNCHANGED <<selected_item, messages_friend>>
  BY <1>0, <1>1, SameConversation
<1>2. CASE \E i \in 1 .. Len(item) : ShowPage(item, i)
  BY <1>0, <1>2, ShownConversation
<1>3. CASE \E page \in {SettingsPage, AddPage} : ShowStatic(page)
  <2>1. PICK page \in {SettingsPage, AddPage} : ShowStatic(page)
    BY <1>3
  <2>2. selected_item' = page /\ page \notin 1 .. Len(item')
    BY <2>1 DEF ShowStatic, SettingsPage, AddPage
  <2> QED
    BY <2>2 DEF ConversationRight, Listed
<1> QED
  BY <1>1, <1>2, <1>3 DEF Shows

LEMMA DeletesConversation ==
    ASSUME BaseFacts, ListShape, NEW i, Deletes(i), ConversationRight
    PROVE  ConversationRight'
<1>0. Soon => Soon'
  BY DEF Deletes, Soon
<1>1. CASE i # selected_item
  <2>1. messages_friend' = messages_friend
    BY <1>1 DEF Deletes
  <2> QED
    BY <1>0, <1>1, <2>1, DeletedPage, SameConversation
<1>2. CASE i = selected_item
  <2>1. selected_item' = i /\ item'[i] = item[i + 1]
    BY <1>2, DeletedPage
  <2>2. item[i + 1].type = "friend" => messages_friend' = item[i + 1].id
    BY <1>2 DEF Deletes
  <2> QED
    BY <2>1, <2>2 DEF ConversationRight
<1> QED
  BY <1>1, <1>2

LEMMA ReceiveConversation ==
    ASSUME BaseFacts, ListShape, Receive, ConversationRight, Alive', "beyond" \notin odd'
    PROVE  ConversationRight'
<1>0. Head(uiq) \in Message /\ uiq # <<>> /\ uiq' = Tail(uiq)
  BY ReceiveCases
<1>1. CASE Dropped /\ DropCause
  <2>1. Head(uiq).tag \in {"ADDED", "ACCEPTED"} => Head(uiq).number >= friend_list_size
    BY <1>1 DEF DropCause, Alive
  <2>2. Soon => Soon'
    BY <1>0, <1>1, <2>1, SoonTail DEF Dropped
  <2> QED
    BY <1>1, <2>2, SameConversation DEF Dropped
<1>2. CASE PutsRequest
  <2> DEFINE entry == Request(Head(uiq).at)
  <2>1. Put(entry) /\ entry \in Entry /\ entry.type = "request" /\ UNCHANGED pageVars
    BY <1>0, <1>2, MessageFacts, NewEntries DEF PutsRequest
  <2>2. Soon => Soon'
    BY <1>0, <1>2, SoonTail DEF PutsRequest
  <2> HIDE DEF entry
  <2>3. CASE selected_item = Len(item)
    BY <2>1, <2>3, PutFacts DEF ConversationRight
  <2>4. CASE selected_item # Len(item)
    BY <2>1, <2>2, <2>4, PutUnder, SameConversation
  <2> QED
    BY <2>3, <2>4
<1>3. CASE PutsFriend
  BY <1>0, <1>3, PutsFriendFacts, ShownConversation
<1>4. CASE Turns
  <2>1. Len(item') = Len(item)
    BY <1>4, TurnsFacts
  <2>2. CASE selected_item > 0
    BY <1>4, <2>2, ShownConversation DEF Turns
  <2>3. CASE ~(selected_item > 0)
    <3>1. selected_item' = selected_item /\ selected_item \notin 1 .. Len(item')
      BY <1>4, <2>3 DEF Turns
    <3> QED
      BY <3>1 DEF ConversationRight, Listed
  <2> QED
    BY <2>2, <2>3
<1>5. CASE Freed
  <2>1. Soon => Soon'
    BY <1>0, <1>5, SoonTail DEF Freed
  <2> QED
    BY <1>5, <2>1, SameConversation DEF Freed
<1> QED
  BY <1>1, <1>2, <1>3, <1>4, <1>5, ReceiveCases

LEMMA BefriendedConversation ==
    ASSUME BaseFacts, NEW p, NEW n \in Number, NEW msg, Befriended(p, n, msg), ConversationRight,
           msg.tag \in {"ADDED", "ACCEPTED"}, msg.number = n, UNCHANGED <<item, selected_item>>
    PROVE  ConversationRight'
<1>1. friend_list_size \in Nat /\ n \in Nat /\ Len(uiq) \in Nat
  BY Constants DEF BaseFacts
<1>2. n < friend_list_size'
  BY <1>1 DEF Befriended
<1>3. Soon'
  BY <1>1, <1>2 DEF Befriended, Told, Soon
<1> QED
  BY <1>3 DEF Befriended, ConversationRight, Listed

LEMMA ToxConversation ==
    ASSUME BaseFacts, ListShape, CountCovers, ToxStep, ConversationRight
    PROVE  ConversationRight'
<1>a. friend_list_size \in Nat
  BY Constants DEF BaseFacts
<1>b. ASSUME UNCHANGED <<item, selected_item, messages_friend, friend_list_size>>,
             uiq' = uiq \/ \E msg : Told(msg)
      PROVE  ConversationRight'
  <2>1. Soon => Soon'
    BY <1>a, <1>b, SoonTold DEF Soon
  <2> QED
    BY <1>b, <2>1, SameConversation
<1>1. CASE \E p \in Person : FriendRequest(p)
  BY <1>b, <1>1, FriendRequestFacts
<1>2. CASE HandleNew
  <2>1. CASE Handled
    BY <1>b, <1>2, <2>1, HandleNewCases DEF Handled
  <2>2. CASE ~Handled
    <3>1. PICK n \in Number : Befriended(mailbox.who, n,
              [tag |-> "ADDED", number |-> n, who |-> mailbox.who])
      BY <1>2, <2>2, HandleNewCases
    <3> QED
      BY <1>2, <3>1, HandleNewCases, BefriendedConversation
  <2> QED
    BY <2>1, <2>2
<1>3. CASE HandleAccept
  <2>1. CASE Handled
    BY <1>b, <1>3, <2>1, HandleAcceptCases DEF Handled
  <2>2. CASE ~Handled
    <3>1. PICK n \in Number : Befriended(frequests[mailbox.at], n,
              [tag |-> "ACCEPTED", number |-> n, at |-> mailbox.at])
      BY <1>3, <2>2, HandleAcceptCases
    <3> QED
      BY <1>3, <3>1, HandleAcceptCases, BefriendedConversation
  <2> QED
    BY <2>1, <2>2
<1>4. CASE HandleDelete
  <2>1. mailbox.at \in Number
    BY <1>4, CommandFacts DEF HandleDelete, BaseFacts
  <2>2. [tag |-> "REMOVE", at |-> mailbox.at] \in Message
    BY <2>1, NewMessages
  <2> QED
    BY <1>b, <1>4, <2>2, ToldAppend DEF HandleDelete, Tell
<1>5. CASE HandleKill
  BY <1>b, <1>5 DEF HandleKill
<1>6. CASE InitTox
  <2>1. item' = <<>>
    BY <1>6, InitFacts DEF ListShape
  <2> QED
    BY <2>1 DEF ConversationRight, Listed
<1>7. CASE FlistStart
  <2>1. selected_item' = SettingsPage /\ SettingsPage \notin 1 .. Len(item')
    BY <1>7, StartFacts DEF SettingsPage
  <2> QED
    BY <2>1 DEF ConversationRight, Listed
<1> QED
  BY <1>1, <1>2, <1>3, <1>4, <1>5, <1>6, <1>7 DEF ToxStep

LEMMA StepConversation == Base /\ Conversation /\ [Next]_vars => Conversation'
<1> SUFFICES ASSUME Base, Conversation, [Next]_vars, Alive', "beyond" \notin odd'
             PROVE  ConversationRight'
  BY DEF Conversation
<1>0. BaseFacts /\ ListShape /\ CountCovers /\ "beyond" \notin odd
  BY BaseGives, OddGrows DEF Base
<1>a. Alive => ConversationRight
  BY <1>0 DEF Conversation
<1>b. ASSUME UNCHANGED <<item, selected_item, messages_friend, uiq, friend_list_size, crashed>>
      PROVE  ConversationRight'
  BY <1>a, <1>b DEF ConversationRight, Listed, Soon, Alive
<1>1. CASE UserStep
  <2>1. CASE Minds /\ Shows
    BY <1>0, <1>a, <2>1, MindsConversation DEF Minds
  <2>2. CASE \E i \in Int : Deletes(i) /\ Looping /\ menu' = "closed"
    BY <1>0, <1>a, <2>2, DeletesConversation DEF Looping
  <2>3. CASE \E i, j \in 1 .. Len(item) : Drag(i, j)
    BY <2>3, ShownConversation DEF Drag
  <2>4. CASE ChangeSettings
    <3>1. item' = <<>>
      BY <1>0, <2>4, SettingsFacts
    <3> QED
      BY <3>1 DEF ConversationRight, Listed
  <2> QED
    BY <1>0, <1>1, <2>1, <2>2, <2>3, <2>4, UserMinds
<1>2. CASE Receive
  BY <1>0, <1>a, <1>2, ReceiveConversation DEF Receive, Looping
<1>3. CASE DrawFault
  BY <1>0, <1>a, <1>3, FaultMinds, MindsConversation DEF Minds
<1>4. CASE Shrink \/ LeaveSpin
  BY <1>b, <1>4 DEF Shrink, LeaveSpin
<1>5. CASE ToxStep
  <2>1. Alive
    BY <1>5 DEF ToxStep, FriendRequest, HandleNew, HandleAccept, HandleDelete, HandleKill, InitTox,
                FlistStart, ToxRuns
  <2> QED
    BY <1>0, <1>a, <1>5, <2>1, ToxConversation
<1>6. CASE UNCHANGED vars
  BY <1>b, <1>6 DEF vars
<1> QED
  BY <1>1, <1>2, <1>3, <1>4, <1>5, <1>6 DEF Next

LEMMA FirstConversation == Init => Conversation
  BY DEF Init, Conversation, ConversationRight, Listed, SettingsPage

\* The page on display is that of the selected entry: through selections, drags
\* and deletions, and the messages that put entries into the list or turn a
\* request into a friend, its panels are those that page_open enables for the
\* entry, and the conversation it shows is the friend's own, once the UI thread
\* has been told of all new friends.
THEOREM PageAlwaysMatches == Spec => []PageMatches
<1>1. Init => Base /\ PageShown /\ Conversation
  BY FirstBase, FirstShown, FirstConversation
<1>2. Base /\ PageShown /\ Conversation /\ [Next]_vars => (Base /\ PageShown /\ Conversation)'
  BY StepBase, StepShown, StepConversation
<1>3. Base /\ PageShown /\ Conversation => PageMatches
  BY DEF PageMatches, PageShown, PanelsRight, PanelsOf, Conversation, ConversationRight, Soon
<1> QED
  BY <1>1, <1>2, <1>3, PTL DEF Spec

-----------------------------------------------------------------------------
(* Acceptances come after the requests they accept *)

MailKept == mailbox.tag = "ACCEPT" /\ mailbox.at > 0 => Kept(mailbox.at)

MailApart ==
    \A k \in 1 .. Len(uiq) :
        uiq[k].tag = "INCOMING" => ~(mailbox.tag = "ACCEPT" /\ mailbox.at = uiq[k].at)

QueueOrder ==
    \A k, l \in 1 .. Len(uiq) :
        uiq[k].tag = "INCOMING" /\ uiq[l].tag = "ACCEPTED" /\ uiq[l].at = uiq[k].at => l < k

Ordered == MailKept /\ MailApart /\ QueueOrder

AcceptsInOrder == odd \cap {"declined", "raced"} = {} => Ordered

\* An acceptance that was in the slot before the step, if it is there after it.
MailOld ==
    mailbox'.tag = "ACCEPT" => mailbox.tag = "ACCEPT" /\ mailbox'.at \in {mailbox.at, Dangling}

Rising(g) == \A k, l \in 1 .. Len(uiq') : g[l] < g[k] => l < k

LEMMA OldMail ==
    ASSUME BaseFacts, BaseFacts', MailApart, MailOld, NEW g, NEW ends, MessagesFrom(g, ends),
           NEW k \in 1 .. Len(uiq'), k \notin ends, uiq'[k].tag = "INCOMING"
    PROVE  ~(mailbox'.tag = "ACCEPT" /\ mailbox'.at = uiq'[k].at)
<1>1. g[k] \in 1 .. Len(uiq) /\ uiq'[k] = uiq[g[k]]
  BY DEF MessagesFrom, Moved
<1>2. uiq'[k].at # Dangling
  BY MessageFacts DEF BaseFacts, Dangling
<1> QED
  BY <1>1, <1>2 DEF MailApart, MailOld

LEMMA OldOrder ==
    ASSUME BaseFacts, BaseFacts', QueueOrder, NEW g, NEW ends, MessagesFrom(g, ends), Rising(g),
           NEW k \in 1 .. Len(uiq'), k \notin ends, uiq'[k].tag = "INCOMING",
           NEW l \in 1 .. Len(uiq'), l \notin ends, uiq'[l].tag = "ACCEPTED",
           uiq'[l].at = uiq'[k].at
    PROVE  l < k
<1>1. g[k] \in 1 .. Len(uiq) /\ uiq'[k] = uiq[g[k]]
  BY DEF MessagesFrom, Moved
<1>2. g[l] \in 1 .. Len(uiq) /\ Moved(uiq[g[l]], uiq'[l])
  BY DEF MessagesFrom
<1>3. uiq'[k].at # Dangling
  BY MessageFacts DEF BaseFacts, Dangling
<1>4. uiq[g[l]].tag = "ACCEPTED" /\ uiq[g[l]].at = uiq'[l].at
  BY <1>2, <1>3 DEF Moved
<1>5. g[l] < g[k]
  BY <1>1, <1>2, <1>4 DEF QueueOrder
<1> QED
  BY <1>5 DEF Rising

LEMMA OrderedFrom ==
    ASSUME BaseFacts, BaseFacts', Ordered, NEW g, NEW ends, MessagesFrom(g, ends), Rising(g),
           \A k \in 1 .. Len(uiq') : k \in ends => uiq'[k].tag \notin {"INCOMING", "ACCEPTED"},
           MailOld, \A r \in Nat \ {0} : Kept(r) /\ mailbox'.tag = "ACCEPT" /\ mailbox'.at = r
                                            => KeptNext(r)
    PROVE  Ordered'
<1>1. MailKept'
  <2> SUFFICES ASSUME mailbox'.tag = "ACCEPT", mailbox'.at > 0 PROVE KeptNext(mailbox'.at)
    BY DEF MailKept, Kept, KeptNext
  <2>1. mailbox'.at \in Nat \ {0}
    BY CommandFacts DEF BaseFacts, Dangling
  <2>2. mailbox.tag = "ACCEPT" /\ mailbox.at = mailbox'.at
    BY <2>1 DEF MailOld, Dangling
  <2>3. Kept(mailbox'.at)
    BY <2>1, <2>2 DEF Ordered, MailKept
  <2> QED
    BY <2>1, <2>3
<1>2. MailApart'
  <2>1. ASSUME NEW k \in 1 .. Len(uiq'), uiq'[k].tag = "INCOMING"
        PROVE  ~(mailbox'.tag = "ACCEPT" /\ mailbox'.at = uiq'[k].at)
    BY <2>1, OldMail DEF Ordered
  <2> QED
    BY <2>1 DEF MailApart
<1>3. QueueOrder'
  <2>1. ASSUME NEW k \in 1 .. Len(uiq'), uiq'[k].tag = "INCOMING",
               NEW l \in 1 .. Len(uiq'), uiq'[l].tag = "ACCEPTED", uiq'[l].at = uiq'[k].at
        PROVE  l < k
    BY <2>1, OldOrder DEF Ordered
  <2> QED
    BY <2>1 DEF QueueOrder
<1> QED
  BY <1>1, <1>2, <1>3 DEF Ordered

LEMMA SameRising == ASSUME BaseFacts' PROVE Rising(Same)
  BY DEF Rising, Same, BaseFacts

LEMMA SkipsRising == ASSUME BaseFacts' PROVE Rising(Skips(1))
<1>1. \A k \in 1 .. Len(uiq') : Skips(1)[k] = k + 1
  BY DEF Skips, BaseFacts
<1> QED
  BY <1>1 DEF Rising, BaseFacts

\* The steps that leave the messages.
LEMMA SameOrdered ==
    ASSUME BaseFacts, BaseFacts', Ordered, uiq' = uiq, MailOld,
           \A r \in Nat \ {0} : Kept(r) /\ mailbox'.tag = "ACCEPT" /\ mailbox'.at = r => KeptNext(r)
    PROVE  Ordered'
<1>1. MessagesFrom(Same, {}) /\ Rising(Same)
  BY SameMessages, SameRising
<1> QED
  BY <1>1, OrderedFrom

LEMMA MindsOrdered ==
    ASSUME BaseFacts, BaseFacts', Apart, Ordered, Minds
    PROVE  Ordered'
<1>0. uiq' = uiq /\ Asked /\ \A r : Kept(r) => KeptNext(r)
  BY KeptLonger DEF Minds
<1>1. CASE UNCHANGED <<mailbox, wanted>>
  BY <1>0, <1>1, SameOrdered DEF MailOld
<1>2. CASE \E p \in Person : Post([tag |-> "ADD", who |-> p])
  <2>1. mailbox'.tag # "ACCEPT"
    BY <1>2 DEF Post
  <2> QED
    BY <1>0, <2>1, SameOrdered DEF MailOld
<1>3. CASE \E i \in 1 .. Len(item) : item[i].type = "request" /\ Accept(item[i].id)
  <2>1. PICK i \in 1 .. Len(item) : item[i].type = "request" /\ Accept(item[i].id)
    BY <1>3
  <2>2. item[i].id \in Nat \ {0} /\ item[i] = Request(item[i].id)
    BY <2>1, EntryFacts DEF BaseFacts
  <2>3. mailbox'.tag = "ACCEPT" /\ mailbox'.at = item[i].id
    BY <2>1, <2>2, AcceptFacts
  <2>4. KeptNext(item[i].id)
    BY <1>0, <2>1 DEF Apart, AllKept
  <2>5. \A k \in 1 .. Len(uiq) : uiq[k].tag = "INCOMING" => uiq[k].at # item[i].id
    BY <2>1, <2>2 DEF Apart, OnceEach
  <2> QED
    BY <1>0, <2>3, <2>4, <2>5
    DEF Ordered, MailKept, MailApart, QueueOrder, Kept, KeptNext
<1>4. CASE Post([tag |-> "ACCEPT", at |-> Null])
  <2>1. mailbox'.at = 0
    BY <1>4 DEF Post, Null
  <2>2. \A k \in 1 .. Len(uiq) : uiq[k].tag = "INCOMING" => uiq[k].at # 0
    BY MessageFacts DEF BaseFacts
  <2> QED
    BY <1>0, <2>1, <2>2 DEF Ordered, MailKept, MailApart, QueueOrder
<1> QED
  BY <1>0, <1>1, <1>2, <1>3, <1>4 DEF Asked

LEMMA DeletesOrdered ==
    ASSUME BaseFacts, BaseFacts', ListShape, Ordered, NEW i, Deletes(i), Looping,
           "declined" \notin odd'
    PROVE  Ordered'
<1>1. /\ i \in 1 .. Len(item) - 1 /\ i \in 1 .. Len(item) /\ item[i].type \in {"friend", "request"}
      /\ FreeEntry(item[i]) /\ UNCHANGED <<requestVars, uiq>> /\ ui = "loop"
  BY DEF Deletes, Looping, BaseFacts
<1>2. CASE item[i].type = "friend"
  <2>1. mailbox'.tag = "DELETE"
    BY <1>1, <1>2, FreeEntryFacts
  <2> QED
    BY <1>1, <2>1, SameOrdered DEF MailOld
<1>3. CASE item[i].type = "request"
  <2>1. /\ mailbox' = mailbox /\ ui' = IF item[i].id = Len(frequests) THEN "shrink" ELSE ui
        /\ item[i].id \in Nat
    BY <1>1, <1>3, FreeEntryFacts
  <2>2. ~Accepting(item[i].id)
    BY <1>1, <1>3, HappensFacts DEF FreeEntry
  <2>3. ASSUME NEW r \in Nat \ {0}, Kept(r), mailbox'.tag = "ACCEPT", mailbox'.at = r
        PROVE  KeptNext(r)
    <3>1. r # item[i].id
      BY <2>1, <2>2, <2>3 DEF Accepting
    <3>2. r <= Len(frequests) /\ ~frequests_freed /\ Len(frequests) \in Nat
      BY <1>1, <2>3 DEF Kept, BaseFacts
    <3> QED
      BY <1>1, <2>1, <3>1, <3>2 DEF KeptNext
  <2> QED
    BY <1>1, <2>1, <2>3, SameOrdered DEF MailOld
<1> QED
  BY <1>1, <1>2, <1>3

LEMMA ReceiveOrdered ==
    ASSUME BaseFacts, BaseFacts', Ordered, Receive
    PROVE  Ordered'
<1>1. uiq # <<>> /\ uiq' = Tail(uiq) /\ UNCHANGED <<requestVars, ui, mailbox>>
  BY DEF Receive
<1>2. \A r : Kept(r) => KeptNext(r)
  BY <1>1, KeptLonger
<1>3. MessagesFrom(Skips(1), {}) /\ Rising(Skips(1))
  BY <1>1, TailFrom, SkipsRising
<1> QED
  BY <1>1, <1>2, <1>3, OrderedFrom DEF MailOld

LEMMA ShrinkOrdered ==
    ASSUME BaseFacts, BaseFacts', Ordered, Shrink
    PROVE  Ordered'
<1>1. ASSUME NEW r \in Nat \ {0}, Kept(r) PROVE KeptNext(r)
  <2>1. /\ r <= Len(frequests) - 1 /\ ~frequests_freed /\ Len(frequests) \in Nat
        /\ ui' = "loop"
    BY <1>1 DEF Kept, Shrink, BaseFacts
  <2>2. Len(frequests) > 1
    BY <2>1
  <2>3. frequests' = SubSeq(frequests, 1, Len(frequests) - 1) /\ frequests # <<>>
        /\ frequests_freed' = frequests_freed
    BY <2>2 DEF Shrink, Front
  <2>4. Len(frequests') = Len(frequests) - 1
    BY <2>3, FrontFacts DEF BaseFacts
  <2> QED
    BY <2>1, <2>3, <2>4 DEF KeptNext
<1> QED
  BY <1>1, SameOrdered DEF Shrink, MailOld

LEMMA FriendRequestOrdered ==
    ASSUME BaseFacts, BaseFacts', Ordered, NEW p \in Person, FriendRequest(p)
    PROVE  Ordered'
<1> DEFINE r == Len(frequests) + 1
           msg == [tag |-> "INCOMING", at |-> r]
<1>1. UNCHANGED <<frequests_freed, ui>>
  BY FriendRequestFacts
<1>2. CASE UNCHANGED <<frequests, mailbox, uiq>>
  <2>1. \A q : Kept(q) => KeptNext(q)
    BY <1>1, <1>2, KeptLonger
  <2> QED
    BY <1>2, <2>1, SameOrdered DEF MailOld
<1>3. CASE /\ frequests' = Append(frequests, p) /\ Told(msg) /\ mailbox'.tag = mailbox.tag
           /\ mailbox.tag # "ACCEPT" => mailbox' = mailbox
           /\ mailbox.tag = "ACCEPT" => mailbox'.at \in {mailbox.at, Stale(mailbox.at)}
  <2>1. MailOld
    BY <1>3 DEF MailOld, Stale
  <2>2. MessagesFrom(Same, {Len(uiq) + 1}) /\ Rising(Same)
    BY <1>3, ToldFrom, SameRising
  <2>3. /\ Len(uiq) \in Nat /\ Len(frequests) \in Nat /\ Len(uiq') = Len(uiq) + 1
        /\ uiq'[Len(uiq) + 1].tag = "INCOMING" /\ uiq'[Len(uiq) + 1].at = r
    BY <1>3 DEF Told, BaseFacts
  <2>4. Len(frequests') = Len(frequests) + 1
    BY <1>3, AppendFacts DEF BaseFacts
  <2>5. ASSUME NEW q, Kept(q), q \in Int PROVE KeptNext(q) /\ q # r
    BY <1>1, <2>3, <2>4, <2>5 DEF Kept, KeptNext
  <2>6. ASSUME mailbox'.tag = "ACCEPT", mailbox'.at > 0
        PROVE  KeptNext(mailbox'.at) /\ mailbox'.at # r
    <3>1. mailbox'.at \in Nat \ {0}
      BY <2>6, CommandFacts DEF BaseFacts, Dangling
    <3>2. mailbox.tag = "ACCEPT" /\ mailbox.at = mailbox'.at
      BY <2>1, <2>6, <3>1 DEF MailOld, Dangling
    <3> QED
      BY <2>5, <3>1, <3>2 DEF Ordered, MailKept
  <2> HIDE DEF r
  <2>7. MailKept'
    BY <2>6 DEF MailKept, Kept, KeptNext
  <2>8. MailApart'
    <3>1. ASSUME NEW k \in 1 .. Len(uiq'), uiq'[k].tag = "INCOMING"
          PROVE  ~(mailbox'.tag = "ACCEPT" /\ mailbox'.at = uiq'[k].at)
      <4>1. CASE k = Len(uiq) + 1
        <5>1. r > 0
          BY <2>3 DEF r
        <5> QED
          BY <2>3, <2>6, <4>1, <5>1
      <4>2. CASE k # Len(uiq) + 1
        BY <2>1, <2>2, <3>1, <4>2, OldMail DEF Ordered
      <4> QED
        BY <4>1, <4>2
    <3> QED
      BY <3>1 DEF MailApart
  <2>9. QueueOrder'
    <3>1. ASSUME NEW k \in 1 .. Len(uiq'), uiq'[k].tag = "INCOMING",
                 NEW l \in 1 .. Len(uiq'), uiq'[l].tag = "ACCEPTED", uiq'[l].at = uiq'[k].at
          PROVE  l < k
      <4>1. l # Len(uiq) + 1
        BY <2>3, <3>1
      <4>2. CASE k = Len(uiq) + 1
        BY <2>3, <4>1, <4>2
      <4>3. CASE k # Len(uiq) + 1
        BY <2>2, <3>1, <4>1, <4>3, OldOrder DEF Ordered
      <4> QED
        BY <4>2, <4>3
    <3> QED
      BY <3>1 DEF QueueOrder
  <2> QED
    BY <2>7, <2>8, <2>9 DEF Ordered
<1> QED
  BY <1>2, <1>3, FriendRequestFacts

\* toxcore takes a message from the slot, and may tell of it.
LEMMA TakesOrdered ==
    ASSUME BaseFacts, BaseFacts', Ordered, mailbox' = Empty, NEW msg, Told(msg),
           msg.tag # "INCOMING",
           msg.tag = "ACCEPTED" => mailbox.tag = "ACCEPT" /\ msg.at = mailbox.at
    PROVE  Ordered'
<1>1. mailbox'.tag # "ACCEPT"
  BY NewCommands
<1>2. MessagesFrom(Same, {Len(uiq) + 1}) /\ Rising(Same)
  BY ToldFrom, SameRising
<1>3. Len(uiq) \in Nat /\ Len(uiq') = Len(uiq) + 1 /\ uiq'[Len(uiq) + 1] = msg
  BY DEF Told, BaseFacts
<1>4. ASSUME NEW k \in 1 .. Len(uiq'), uiq'[k].tag = "INCOMING",
             NEW l \in 1 .. Len(uiq'), uiq'[l].tag = "ACCEPTED", uiq'[l].at = uiq'[k].at
      PROVE  l < k
  <2>1. k # Len(uiq) + 1
    BY <1>3, <1>4
  <2>2. CASE l = Len(uiq) + 1
    <3>1. k \in 1 .. Len(uiq) /\ uiq'[k] = uiq[k]
      BY <1>3, <1>4, <2>1 DEF Told, Moved
    <3> QED
      BY <1>3, <1>4, <2>2, <3>1 DEF Ordered, MailApart
  <2>3. CASE l # Len(uiq) + 1
    BY <1>2, <1>4, <2>1, <2>3, OldOrder DEF Ordered
  <2> QED
    BY <2>2, <2>3
<1> QED
  BY <1>1, <1>4 DEF Ordered, MailKept, MailApart, QueueOrder

LEMMA ToxOrdered ==
    ASSUME BaseFacts, BaseFacts', Ordered, ToxStep
    PROVE  Ordered'
<1>1. CASE \E p \in Person : FriendRequest(p)
  BY <1>1, FriendRequestOrdered
<1>a. ASSUME Handled PROVE Ordered'
  BY <1>a, SameOrdered, NewCommands DEF Handled, MailOld
<1>2. CASE HandleNew
  <2>1. CASE \E n \in Number : Befriended(mailbox.who, n,
                [tag |-> "ADDED", number |-> n, who |-> mailbox.who])
    <3>1. \E msg : Told(msg) /\ msg.tag = "ADDED"
      BY <2>1 DEF Befriended
    <3> QED
      BY <1>2, <3>1, HandleNewCases, TakesOrdered
  <2> QED
    BY <1>a, <1>2, <2>1, HandleNewCases
<1>3. CASE HandleAccept
  <2>1. CASE \E n \in Number : Befriended(frequests[mailbox.at], n,
                [tag |-> "ACCEPTED", number |-> n, at |-> mailbox.at])
    <3>1. \E msg : Told(msg) /\ msg.tag = "ACCEPTED" /\ msg.at = mailbox.at
      BY <2>1 DEF Befriended
    <3> QED
      BY <1>3, <3>1, HandleAcceptCases, TakesOrdered
  <2> QED
    BY <1>a, <1>3, <2>1, HandleAcceptCases
<1>4. CASE HandleDelete
  <2>1. mailbox.at \in Number
    BY <1>4, CommandFacts DEF HandleDelete, BaseFacts
  <2>2. [tag |-> "REMOVE", at |-> mailbox.at] \in Message
    BY <2>1, NewMessages
  <2>3. Told([tag |-> "REMOVE", at |-> mailbox.at]) /\ mailbox' = Empty
    BY <1>4, <2>2, ToldAppend DEF HandleDelete, Tell
  <2> QED
    BY <2>3, TakesOrdered
<1>5. CASE HandleKill
  BY <1>5, SameOrdered, NewCommands DEF HandleKill, MailOld
<1>6. CASE InitTox
  <2>1. MessagesFrom(Same, {}) /\ Rising(Same) /\ UNCHANGED <<requestVars, ui, mailbox>>
    BY <1>6, LoadedFrom, InitFacts, SameRising
  <2>2. \A r : Kept(r) => KeptNext(r)
    BY <2>1, KeptLonger
  <2> QED
    BY <2>1, <2>2, OrderedFrom DEF MailOld
<1>7. CASE FlistStart
  <2>1. \A r : Kept(r) => KeptNext(r)
    BY <1>7, KeptLonger DEF FlistStart
  <2> QED
    BY <1>7, <2>1, SameOrdered DEF FlistStart, MailOld
<1> QED
  BY <1>1, <1>2, <1>3, <1>4, <1>5, <1>6, <1>7 DEF ToxStep

LEMMA StepOrdered == Base /\ Base' /\ RequestsApart /\ AcceptsInOrder /\ [Next]_vars => AcceptsInOrder'
<1> SUFFICES ASSUME Base, Base', RequestsApart, AcceptsInOrder, [Next]_vars,
                    odd' \cap {"declined", "raced"} = {}
             PROVE  Ordered'
  BY DEF AcceptsInOrder
<1>0. BaseFacts /\ BaseFacts' /\ ListShape /\ CountCovers
  BY BaseGives, BaseGivesNext DEF Base
<1>a. Apart /\ Ordered
  BY <1>0, OddGrows DEF RequestsApart, Apart, AcceptsInOrder
<1>b. ASSUME UNCHANGED <<requestVars, ui, uiq>>, MailOld PROVE Ordered'
  <2>1. \A r : Kept(r) => KeptNext(r)
    BY <1>b, KeptLonger
  <2> QED
    BY <1>0, <1>a, <1>b, <2>1, SameOrdered
<1>1. CASE UserStep
  <2>1. CASE Minds
    BY <1>0, <1>a, <2>1, MindsOrdered
  <2>2. CASE \E i \in Int : Deletes(i) /\ Looping
    BY <1>0, <1>a, <2>2, DeletesOrdered
  <2>3. CASE \E i, j \in 1 .. Len(item) : Drag(i, j)
    BY <1>b, <2>3 DEF Drag, MailOld
  <2>4. CASE ChangeSettings
    <3>1. mailbox'.tag # "ACCEPT" /\ uiq' = uiq
      BY <1>0, <2>4, SettingsFacts
    <3> QED
      BY <1>0, <1>a, <3>1, SameOrdered DEF MailOld
  <2> QED
    BY <1>0, <1>1, <2>1, <2>2, <2>3, <2>4, UserMinds
<1>2. CASE Receive
  BY <1>0, <1>a, <1>2, ReceiveOrdered
<1>3. CASE DrawFault
  BY <1>0, <1>a, <1>3, FaultMinds, MindsOrdered
<1>4. CASE Shrink
  BY <1>0, <1>a, <1>4, ShrinkOrdered
<1>5. CASE LeaveSpin
  <2>1. \A r : Kept(r) => KeptNext(r)
    BY <1>5 DEF LeaveSpin, Kept, KeptNext
  <2> QED
    BY <1>0, <1>a, <1>5, <2>1, SameOrdered DEF LeaveSpin, MailOld
<1>6. CASE ToxStep
  BY <1>0, <1>a, <1>6, ToxOrdered
<1>7. CASE UNCHANGED vars
  BY <1>b, <1>7 DEF vars, MailOld
<1> QED
  BY <1>1, <1>2, <1>3, <1>4, <1>5, <1>6, <1>7 DEF Next

LEMMA FirstOrdered == Init => AcceptsInOrder
  BY NewCommands DEF Init, AcceptsInOrder, Ordered, MailKept, MailApart, QueueOrder

-----------------------------------------------------------------------------
(* Whom the user is asked about *)

\* The friend on display is the one that was pressed, while the menu is open or
\* the question asked, but for an entry that was left behind or is no friend.
RightFriend ==
    "confirm" \in panels \/ menu = "friend" =>
        /\ Listed(selected_item) /\ item[selected_item].type = "friend"
        /\ Listed(right_mouse_item) /\ item[right_mouse_item].type = "friend"
              => right_mouse_item = selected_item

\* An entry that is no friend will not become one under the menu.
NoneTurns ==
    menu = "friend" /\ Listed(right_mouse_item) /\ item[right_mouse_item].type = "request"
        => ~Accepting(item[right_mouse_item].id)

AsksRight == RightFriend /\ NoneTurns

AskedRight == odd \cap {"jumped", "beyond", "declined", "raced"} = {} => AsksRight

\* Of the state after a step.
AcceptingNext(r) ==
    \/ mailbox'.tag = "ACCEPT" /\ mailbox'.at = r
    \/ \E k \in 1 .. Len(uiq') : uiq'[k].tag = "ACCEPTED" /\ uiq'[k].at = r

LEMMA NothingAsked == ASSUME "confirm" \notin panels', menu' # "friend" PROVE AsksRight'
  BY DEF AsksRight, RightFriend, NoneTurns

LEMMA AcceptingFrom ==
    ASSUME NEW g, NEW ends, MessagesFrom(g, ends), MailOld,
           \A k \in 1 .. Len(uiq') :
               k \in ends /\ uiq'[k].tag = "ACCEPTED" => Accepting(uiq'[k].at),
           NEW r \in Nat \ {0}, AcceptingNext(r)
    PROVE  Accepting(r)
<1>0. r # Dangling
  BY DEF Dangling
<1>1. CASE mailbox'.tag = "ACCEPT" /\ mailbox'.at = r
  BY <1>0, <1>1 DEF MailOld, Accepting
<1>2. CASE \E k \in 1 .. Len(uiq') : uiq'[k].tag = "ACCEPTED" /\ uiq'[k].at = r
  <2>1. PICK k \in 1 .. Len(uiq') : uiq'[k].tag = "ACCEPTED" /\ uiq'[k].at = r
    BY <1>2
  <2>2. CASE k \in ends
    BY <2>1, <2>2
  <2>3. CASE k \notin ends
    <3>1. g[k] \in 1 .. Len(uiq) /\ Moved(uiq[g[k]], uiq'[k])
      BY <2>3 DEF MessagesFrom
    <3> QED
      BY <1>0, <2>1, <3>1 DEF Moved, Accepting
  <2> QED
    BY <2>2, <2>3
<1> QED
  BY <1>1, <1>2 DEF AcceptingNext

\* The steps that leave the list, the page and the mouse.
LEMMA SameAsked ==
    ASSUME BaseFacts, AsksRight, UNCHANGED <<item, mouseVars, selected_item, panels>>,
           \A r \in Nat \ {0} : AcceptingNext(r) => Accepting(r)
    PROVE  AsksRight'
<1>1. RightFriend'
  BY DEF AsksRight, RightFriend, Listed
<1>2. NoneTurns'
  <2> SUFFICES ASSUME menu = "friend", right_mouse_item \in 1 .. Len(item),
                      item[right_mouse_item].type = "request"
               PROVE  ~AcceptingNext(item[right_mouse_item].id)
    BY DEF NoneTurns, Listed, Accepting, AcceptingNext
  <2>1. item[right_mouse_item].id \in Nat \ {0}
    BY EntryFacts DEF BaseFacts
  <2> QED
    BY <2>1 DEF AsksRight, NoneTurns, Listed
<1> QED
  BY <1>1, <1>2 DEF AsksRight

\* A page that is shown in place of the friend's takes the question away.
LEMMA ClosesQuestion ==
    ASSUME NEW list \in Seq(Entry), NEW i \in 1 .. Len(list), ShowPage(list, i),
           "confirm" \in panels => /\ selected_item \in 1 .. Len(list)
                                   /\ list[selected_item].type = "friend"
    PROVE  "confirm" \notin panels'
<1>1. panels' = (panels \ Closes(list, selected_item)) \cup Opens(list[i]) /\ list[i] \in Entry
  BY DEF ShowPage
<1>2. "confirm" \notin Opens(list[i])
  BY <1>1, OpensFacts
<1>3. "confirm" \in panels => "confirm" \in Closes(list, selected_item)
  BY ClosesFacts
<1> QED
  BY <1>1, <1>2, <1>3

LEMMA QuestionHere ==
    ASSUME AsksRight, "confirm" \in panels
    PROVE  selected_item \in 1 .. Len(item) /\ item[selected_item].type = "friend"
  BY DEF AsksRight, RightFriend, Listed

LEMMA MindsAsked ==
    ASSUME BaseFacts, AsksRight, Minds, Shows, "jumped" \notin odd'
    PROVE  AsksRight'
<1>0. item' = item /\ uiq' = uiq /\ item \in Seq(Entry)
  BY DEF Minds, BaseFacts
<1>a. menu' = "friend" => mailbox' = mailbox
  BY DEF Shows
<1>1. CASE UNCHANGED <<pageVars, mouseVars>>
  <2>1. RightFriend'
    BY <1>0, <1>1 DEF AsksRight, RightFriend, Listed
  <2>2. NoneTurns'
    BY <1>0, <1>1, <1>a DEF AsksRight, NoneTurns, Listed, Accepting
  <2> QED
    BY <2>1, <2>2 DEF AsksRight
<1>2. CASE /\ UNCHANGED pageVars /\ menu' = "closed"
           /\ right_mouse_item' \in {right_mouse_item, Null}
  <2>1. ~Listed(Null)
    BY DEF Listed, Null
  <2> QED
    BY <1>0, <1>2, <2>1 DEF AsksRight, RightFriend, NoneTurns, Listed
<1>3. CASE /\ UNCHANGED pageVars /\ At(right_mouse_item').type # "friend"
           /\ menu' = IF At(right_mouse_item').type = "request" THEN "request" ELSE menu
  <2>1. Listed(right_mouse_item') => item[right_mouse_item'].type # "friend"
    BY <1>3 DEF At
  <2>2. menu' = "friend" =>
          menu = "friend" /\ (Listed(right_mouse_item') => item[right_mouse_item'].type # "request")
    BY <1>3 DEF At
  <2>3. RightFriend'
    BY <1>0, <1>3, <2>1, <2>2 DEF AsksRight, RightFriend, Listed
  <2>4. NoneTurns'
    BY <1>0, <2>2 DEF NoneTurns, Listed
  <2> QED
    BY <2>3, <2>4 DEF AsksRight
<1>4. CASE \E i \in 1 .. Len(item) :
             /\ ShowPage(item, i)
             /\ \/ menu = "closed" /\ menu' = "closed"
                \/ menu # "closed" /\ "jumped" \in odd' /\ UNCHANGED mouseVars
                \/ menu' = "friend" /\ right_mouse_item' = i /\ item[i].type = "friend"
  <2>1. PICK i \in 1 .. Len(item) :
          /\ ShowPage(item, i)
          /\ menu' = "closed" \/ (right_mouse_item' = i /\ item[i].type = "friend")
    BY <1>4
  <2>2. "confirm" \notin panels' /\ selected_item' = i
    BY <1>0, <2>1, QuestionHere, ClosesQuestion DEF ShowPage
  <2> QED
    BY <1>0, <2>1, <2>2 DEF AsksRight, RightFriend, NoneTurns, Listed
<1>5. CASE menu' = "closed" /\ \E page \in {SettingsPage, AddPage} : ShowStatic(page)
  <2>1. panels' = panels \ Closes(item, selected_item)
    BY <1>5 DEF ShowStatic
  <2>2. "confirm" \notin panels'
    BY <1>0, <2>1, QuestionHere, ClosesFacts
  <2> QED
    BY <1>5, <2>2, NothingAsked
<1>6. CASE /\ menu = "friend" /\ menu' = "closed"
           /\ UNCHANGED <<right_mouse_item, selected_item>>
  BY <1>0, <1>6 DEF AsksRight, RightFriend, NoneTurns, Listed
<1>7. CASE /\ panels' \in {panels \ {"confirm"}, panels \ {"request"}} /\ menu' = "closed"
           /\ UNCHANGED <<right_mouse_item, selected_item>>
  BY <1>0, <1>7 DEF AsksRight, RightFriend, NoneTurns, Listed
<1> QED
  BY <1>1, <1>2, <1>3, <1>4, <1>5, <1>6, <1>7 DEF Shows

LEMMA DeletesAsked ==
    ASSUME BaseFacts, ListShape, AsksRight, NEW i, Deletes(i), menu' = "closed"
    PROVE  AsksRight'
<1>1. right_mouse_item' \notin 1 .. Len(item')
  BY DEF Deletes, Null
<1>2. "confirm" \in panels' =>
        selected_item' \in 1 .. Len(item') /\ item'[selected_item'].type = "friend"
  <2>1. CASE i # selected_item
    <3>1. panels' = panels
      BY <2>1 DEF Deletes
    <3> QED
      BY <2>1, <3>1, QuestionHere, DeletedPage
  <2>2. CASE i = selected_item
    <3>1. /\ panels' \subseteq (panels \ Closes(item, i)) \cup Opens(item[i + 1])
          /\ item[i + 1] \in Entry /\ item \in Seq(Entry)
      BY <2>2, DeletedPage DEF Deletes, BaseFacts
    <3> QED
      BY <2>2, <3>1, QuestionHere, ClosesFacts, OpensFacts
  <2> QED
    BY <2>1, <2>2
<1> QED
  BY <1>1, <1>2 DEF AsksRight, RightFriend, NoneTurns, Listed

LEMMA DragAsked ==
    ASSUME BaseFacts, AsksRight,
           NEW i \in 1 .. Len(item), NEW j \in 1 .. Len(item), Drag(i, j)
    PROVE  AsksRight'
<1>1. /\ item' \in Seq(Entry) /\ Len(item') = Len(item) /\ ShowPage(item', j) /\ menu' = "closed"
      /\ \A k \in 1 .. Len(item) :
            item'[k] = IF k = i THEN item[j] ELSE IF k = j THEN item[i] ELSE item[k]
      /\ item[i].type = "friend" /\ item[j].type = "friend"
  BY DragFacts
<1>2. "confirm" \in panels => /\ selected_item \in 1 .. Len(item')
                              /\ item'[selected_item].type = "friend"
  BY <1>1, QuestionHere
<1>3. "confirm" \notin panels'
  BY <1>1, <1>2, ClosesQuestion
<1> QED
  BY <1>1, <1>3, NothingAsked

LEMMA AcceptingTail ==
    ASSUME BaseFacts, uiq # <<>>, uiq' = Tail(uiq), mailbox' = mailbox,
           NEW r \in Nat \ {0}, AcceptingNext(r)
    PROVE  Accepting(r)
  BY TailFrom, AcceptingFrom DEF MailOld

LEMMA PutsRequestAsked ==
    ASSUME BaseFacts, ListShape, AsksRight, Ordered, PutsRequest, Head(uiq) \in Message
    PROVE  AsksRight'
<1> DEFINE r == Head(uiq).at
           entry == Request(r)
<1>1. Put(entry) /\ entry \in Entry /\ entry.type = "request" /\ entry.id = r /\ UNCHANGED pageVars
  BY MessageFacts, NewEntries DEF PutsRequest
<1>2. /\ uiq # <<>> /\ uiq' = Tail(uiq) /\ mailbox' = mailbox /\ menu' = menu
      /\ Head(uiq).tag = "INCOMING" /\ r \in Nat \ {0}
  BY <1>1, MessageFacts DEF Put, PutsRequest
<1>3. ~AcceptingNext(r)
  <2>1. /\ Len(uiq) \in Nat \ {0} /\ Len(uiq') = Len(uiq) - 1 /\ Head(uiq) = uiq[1]
        /\ \A k \in 1 .. Len(uiq) - 1 : uiq'[k] = uiq[k + 1]
    BY <1>2, TailFacts DEF BaseFacts
  <2>2. 1 \in 1 .. Len(uiq)
    BY <2>1
  <2>3. ASSUME NEW k \in 1 .. Len(uiq'), uiq'[k].tag = "ACCEPTED", uiq'[k].at = r
        PROVE  FALSE
    <3>1. k + 1 \in 1 .. Len(uiq) /\ uiq'[k] = uiq[k + 1] /\ ~(k + 1 < 1)
      BY <2>1
    <3> QED
      BY <1>2, <2>1, <2>2, <2>3, <3>1 DEF Ordered, QueueOrder
  <2>4. ~(mailbox.tag = "ACCEPT" /\ mailbox.at = r)
    BY <1>2, <2>1, <2>2 DEF Ordered, MailApart
  <2> QED
    BY <1>2, <2>3, <2>4 DEF AcceptingNext
<1> HIDE DEF entry, r
<1>4. /\ Len(item) \in Nat \ {0} /\ Len(item') = Len(item) + 1
      /\ \A k \in 1 .. Len(item) - 1 : item'[k] = item[k]
      /\ item'[Len(item)] = entry /\ item'[Len(item) + 1] = CreateGroup
      /\ item[Len(item)].type \notin {"friend", "request"}
      /\ right_mouse_item' \in {right_mouse_item, Dangling}
  BY <1>1, PutFacts
<1>5. ASSUME right_mouse_item' \in 1 .. Len(item'),
             item'[right_mouse_item'].type \in {"friend", "request"}
      PROVE  \/ item'[right_mouse_item'] = entry
             \/ /\ right_mouse_item' = right_mouse_item /\ right_mouse_item \in 1 .. Len(item)
                /\ item'[right_mouse_item'] = item[right_mouse_item]
  <2>1. right_mouse_item' = right_mouse_item
    BY <1>4, <1>5 DEF Dangling
  <2>2. right_mouse_item # Len(item) + 1
    BY <1>4, <1>5, <2>1, NewEntries
  <2>3. right_mouse_item = Len(item) \/ right_mouse_item \in 1 .. Len(item) - 1
    BY <1>4, <1>5, <2>1, <2>2
  <2>4. right_mouse_item \in 1 .. Len(item) - 1 => right_mouse_item \in 1 .. Len(item)
    BY <1>4
  <2> QED
    BY <1>4, <2>1, <2>3, <2>4
<1>6. CASE selected_item = Len(item)
  BY <1>1, <1>2, <1>4, <1>6, NothingAsked DEF AsksRight, RightFriend
<1>7. CASE selected_item # Len(item)
  <2>1. selected_item \in 1 .. Len(item) =>
          selected_item \in 1 .. Len(item') /\ item'[selected_item] = item[selected_item]
    BY <1>1, <1>7, PutUnder
  <2>2. RightFriend'
    BY <1>1, <1>2, <1>5, <2>1 DEF AsksRight, RightFriend, Listed
  <2>3. NoneTurns'
    <3> SUFFICES ASSUME menu' = "friend", right_mouse_item' \in 1 .. Len(item'),
                        item'[right_mouse_item'].type = "request"
                 PROVE  ~AcceptingNext(item'[right_mouse_item'].id)
      BY DEF NoneTurns, Listed, Accepting, AcceptingNext
    <3>1. CASE item'[right_mouse_item'] = entry
      BY <1>1, <1>3, <3>1
    <3>2. CASE /\ right_mouse_item \in 1 .. Len(item)
               /\ item'[right_mouse_item'] = item[right_mouse_item]
      <4>1. item[right_mouse_item].id \in Nat \ {0}
        BY <3>2, EntryFacts DEF BaseFacts
      <4>2. ~Accepting(item[right_mouse_item].id)
        BY <1>2, <3>2 DEF AsksRight, NoneTurns, Listed
      <4> QED
        BY <1>2, <3>2, <4>1, <4>2, AcceptingTail
    <3> QED
      BY <1>5, <3>1, <3>2
  <2> QED
    BY <2>2, <2>3 DEF AsksRight
<1> QED
  BY <1>6, <1>7

LEMMA PutsFriendAsked ==
    ASSUME BaseFacts, ListShape, AsksRight, PutsFriend, Head(uiq) \in Message,
           odd' \cap {"jumped", "beyond"} = {}
    PROVE  AsksRight'
<1> DEFINE number == friend[Head(uiq).number].number
           entry == Friend(number)
<1>1. /\ Put(entry) /\ entry \in Entry
      /\ number + 1 \in 1 .. Len(item') /\ ShowPage(item', number + 1)
  BY PutsFriendFacts
<1>2. menu = "closed"
  BY DEF PutsFriend, Jumps
<1> HIDE DEF number, entry
<1>3. /\ menu' = "closed" /\ item' \in Seq(Entry)
      /\ item[Len(item)].type \notin {"friend", "request"}
  BY <1>1, <1>2, PutFacts DEF Put
<1>4. "confirm" \in panels => /\ selected_item \in 1 .. Len(item')
                              /\ item'[selected_item].type = "friend"
  <2> SUFFICES ASSUME "confirm" \in panels
               PROVE  selected_item \in 1 .. Len(item') /\ item'[selected_item].type = "friend"
    OBVIOUS
  <2>1. selected_item \in 1 .. Len(item) /\ item[selected_item].type = "friend"
    BY QuestionHere
  <2>2. selected_item # Len(item)
    BY <1>3, <2>1
  <2> QED
    BY <1>1, <2>1, <2>2, PutUnder
<1>5. "confirm" \notin panels'
  BY <1>1, <1>3, <1>4, ClosesQuestion
<1> QED
  BY <1>3, <1>5, NothingAsked

LEMMA TurnsAsked ==
    ASSUME BaseFacts, AsksRight, Turns
    PROVE  AsksRight'
<1> DEFINE r == Head(uiq).at
<1>1. /\ item' \in Seq(Entry) /\ Len(item') = Len(item)
      /\ \A i \in 1 .. Len(item) :
            /\ i \in PlaceOf(r) =>
                 /\ item[i].type = "request" /\ item[i] = Request(r)
                 /\ item'[i].type = "friend"
            /\ i \notin PlaceOf(r) => item'[i] = item[i]
  BY TurnsFacts
<1>2. /\ IF selected_item > 0 THEN ShowPage(item', selected_item) ELSE UNCHANGED pageVars
      /\ UNCHANGED <<mouseVars, mailbox>> /\ uiq # <<>> /\ uiq' = Tail(uiq)
      /\ Head(uiq).tag = "ACCEPTED"
  BY DEF Turns
<1>3. Accepting(r)
  <2>1. 1 \in 1 .. Len(uiq) /\ Head(uiq) = uiq[1]
    BY <1>2, TailFacts DEF BaseFacts
  <2> QED
    BY <1>2, <2>1 DEF Accepting
<1> HIDE DEF r
<1>4. \A i \in 1 .. Len(item) : item[i].type = "friend" => item'[i].type = "friend"
  BY <1>1
<1>5. "confirm" \notin panels' /\ selected_item' = selected_item
  <2>1. CASE selected_item > 0
    <3>1. selected_item \in 1 .. Len(item') /\ ShowPage(item', selected_item)
      BY <1>1, <1>2, <2>1 DEF BaseFacts, Page, SettingsPage, AddPage
    <3>2. "confirm" \in panels => item'[selected_item].type = "friend"
      BY <1>4, QuestionHere
    <3> QED
      BY <1>1, <3>1, <3>2, ClosesQuestion DEF ShowPage
  <2>2. CASE ~(selected_item > 0)
    BY <1>2, <2>2, QuestionHere
  <2> QED
    BY <2>1, <2>2
<1>6. CASE menu = "friend"
  <2>1. selected_item \in 1 .. Len(item) /\ item[selected_item].type = "friend"
    BY <1>6 DEF AsksRight, RightFriend, Listed
  <2>2. ASSUME right_mouse_item \in 1 .. Len(item) PROVE right_mouse_item \notin PlaceOf(r)
    <3> SUFFICES ASSUME right_mouse_item \in PlaceOf(r) PROVE FALSE
      OBVIOUS
    <3>1. item[right_mouse_item].type = "request" /\ item[right_mouse_item].id = r
      BY <1>1, <2>2, NewEntries
    <3> QED
      BY <1>3, <1>6, <2>2, <3>1 DEF AsksRight, NoneTurns, Listed
  <2>3. right_mouse_item \in 1 .. Len(item) => item'[right_mouse_item] = item[right_mouse_item]
    BY <1>1, <2>2
  <2>4. RightFriend'
    BY <1>1, <1>2, <1>4, <1>5, <1>6, <2>1, <2>3 DEF AsksRight, RightFriend, Listed
  <2>5. NoneTurns'
    <3> SUFFICES ASSUME right_mouse_item \in 1 .. Len(item),
                        item[right_mouse_item].type = "request"
                 PROVE  ~AcceptingNext(item[right_mouse_item].id)
      BY <1>1, <1>2, <2>3 DEF NoneTurns, Listed, Accepting, AcceptingNext
    <3>1. item[right_mouse_item].id \in Nat \ {0}
      BY EntryFacts DEF BaseFacts
    <3>2. ~Accepting(item[right_mouse_item].id)
      BY <1>6 DEF AsksRight, NoneTurns, Listed
    <3> QED
      BY <1>2, <3>1, <3>2, AcceptingTail
  <2> QED
    BY <2>4, <2>5 DEF AsksRight
<1>7. CASE menu # "friend"
  BY <1>2, <1>5, <1>7, NothingAsked
<1> QED
  BY <1>6, <1>7

LEMMA ToxAsked ==
    ASSUME BaseFacts, ListShape, CountCovers, AsksRight, ToxStep
    PROVE  AsksRight'
<1>a. ASSUME UNCHANGED <<item, mouseVars, selected_item, panels>>, MailOld,
             \/ uiq' = uiq
             \/ \E msg : /\ Told(msg)
                         /\ msg.tag = "ACCEPTED" => mailbox.tag = "ACCEPT" /\ msg.at = mailbox.at
      PROVE  AsksRight'
  <2>1. CASE uiq' = uiq
    <3>1. MessagesFrom(Same, {})
      BY <2>1, SameMessages
    <3>2. \A r \in Nat \ {0} : AcceptingNext(r) => Accepting(r)
      BY <1>a, <3>1, AcceptingFrom
    <3> QED
      BY <1>a, <3>2, SameAsked
  <2>2. CASE \E msg : /\ Told(msg)
                      /\ msg.tag = "ACCEPTED" => mailbox.tag = "ACCEPT" /\ msg.at = mailbox.at
    <3>1. PICK msg : /\ Told(msg)
                     /\ msg.tag = "ACCEPTED" => mailbox.tag = "ACCEPT" /\ msg.at = mailbox.at
      BY <2>2
    <3>2. MessagesFrom(Same, {Len(uiq) + 1}) /\ uiq'[Len(uiq) + 1] = msg
      BY <3>1, ToldFrom DEF Told
    <3>3. \A k \in 1 .. Len(uiq') : k \in {Len(uiq) + 1} /\ uiq'[k].tag = "ACCEPTED"
                                      => Accepting(uiq'[k].at)
      BY <3>1, <3>2 DEF Accepting
    <3>4. \A r \in Nat \ {0} : AcceptingNext(r) => Accepting(r)
      BY <1>a, <3>2, <3>3, AcceptingFrom
    <3> QED
      BY <1>a, <3>4, SameAsked
  <2> QED
    BY <1>a, <2>1, <2>2
<1>b. mailbox' = Empty => MailOld
  BY NewCommands DEF MailOld
<1>1. CASE \E p \in Person : FriendRequest(p)
  <2>1. /\ UNCHANGED <<item, mouseVars, selected_item, panels>>
        /\ \/ UNCHANGED <<mailbox, uiq>>
           \/ /\ \E msg : Told(msg) /\ msg.tag = "INCOMING"
              /\ mailbox'.tag = mailbox.tag
              /\ mailbox.tag = "ACCEPT" => mailbox'.at \in {mailbox.at, Stale(mailbox.at)}
    BY <1>1, FriendRequestFacts
  <2> QED
    BY <1>a, <2>1 DEF MailOld, Stale
<1>2. CASE HandleNew
  <2>1. CASE Handled
    BY <1>a, <1>b, <2>1 DEF Handled
  <2>2. CASE ~Handled
    <3>1. PICK n \in Number : Befriended(mailbox.who, n,
              [tag |-> "ADDED", number |-> n, who |-> mailbox.who])
      BY <1>2, <2>2, HandleNewCases
    <3>2. \E msg : Told(msg) /\ msg.tag = "ADDED"
      BY <3>1 DEF Befriended
    <3>3. UNCHANGED <<item, mouseVars, selected_item, panels>> /\ mailbox' = Empty
      BY <1>2, HandleNewCases
    <3> QED
      BY <1>a, <1>b, <3>2, <3>3
  <2> QED
    BY <2>1, <2>2
<1>3. CASE HandleAccept
  <2>1. CASE Handled
    BY <1>a, <1>b, <2>1 DEF Handled
  <2>2. CASE ~Handled
    <3>1. PICK n \in Number : Befriended(frequests[mailbox.at], n,
              [tag |-> "ACCEPTED", number |-> n, at |-> mailbox.at])
      BY <1>3, <2>2, HandleAcceptCases
    <3>2. \E msg : Told(msg) /\ msg.at = mailbox.at
      BY <3>1 DEF Befriended
    <3>3. /\ UNCHANGED <<item, mouseVars, selected_item, panels>> /\ mailbox' = Empty
          /\ mailbox.tag = "ACCEPT"
      BY <1>3, HandleAcceptCases
    <3> QED
      BY <1>a, <1>b, <3>2, <3>3
  <2> QED
    BY <2>1, <2>2
<1>4. CASE HandleDelete
  <2>1. mailbox.at \in Number
    BY <1>4, CommandFacts DEF HandleDelete, BaseFacts
  <2>2. [tag |-> "REMOVE", at |-> mailbox.at] \in Message
    BY <2>1, NewMessages
  <2>3. Told([tag |-> "REMOVE", at |-> mailbox.at])
    BY <1>4, <2>2, ToldAppend DEF HandleDelete, Tell
  <2>4. \E msg : Told(msg) /\ msg.tag = "REMOVE"
    BY <2>3
  <2> QED
    BY <1>4, <1>a, <1>b, <2>4 DEF HandleDelete
<1>5. CASE HandleKill
  BY <1>a, <1>b, <1>5 DEF HandleKill
<1>6. CASE InitTox
  <2>1. UNCHANGED <<item, mouseVars, selected_item, panels, mailbox>>
    BY <1>6, InitFacts
  <2>2. MailOld
    BY <2>1 DEF MailOld
  <2>3. \A r \in Nat \ {0} : AcceptingNext(r) => Accepting(r)
    BY <1>6, <2>2, LoadedFrom, AcceptingFrom
  <2> QED
    BY <2>1, <2>3, SameAsked
<1>7. CASE FlistStart
  <2>1. item = <<>> /\ panels' = panels /\ menu' = menu
    BY <1>7, StartFacts
  <2>2. "confirm" \notin panels /\ menu # "friend"
    BY <2>1 DEF AsksRight, RightFriend, Listed
  <2> QED
    BY <2>1, <2>2, NothingAsked
<1> QED
  BY <1>1, <1>2, <1>3, <1>4, <1>5, <1>6, <1>7 DEF ToxStep

LEMMA StepAsked ==
    Base /\ RequestsApart /\ AcceptsInOrder /\ AskedRight /\ [Next]_vars => AskedRight'
<1> SUFFICES ASSUME Base, RequestsApart, AcceptsInOrder, AskedRight, [Next]_vars,
                    odd' \cap {"jumped", "beyond", "declined", "raced"} = {}
             PROVE  AsksRight'
  BY DEF AskedRight
<1>0. BaseFacts /\ ListShape /\ CountCovers
  BY BaseGives DEF Base
<1>a. Ordered /\ AsksRight
  BY <1>0, OddGrows DEF AcceptsInOrder, AskedRight
<1>b. ASSUME UNCHANGED <<item, mouseVars, selected_item, panels, messageVars>>
      PROVE  AsksRight'
  BY <1>0, <1>a, <1>b, SameAsked DEF Accepting, AcceptingNext
<1>1. CASE UserStep
  <2>1. CASE Minds /\ Shows
    BY <1>0, <1>a, <2>1, MindsAsked
  <2>2. CASE \E i \in Int : Deletes(i) /\ Looping /\ menu' = "closed"
    BY <1>0, <1>a, <2>2, DeletesAsked
  <2>3. CASE \E i, j \in 1 .. Len(item) : Drag(i, j)
    BY <1>0, <1>a, <2>3, DragAsked
  <2>4. CASE ChangeSettings
    <3>1. selected_item \notin 1 .. Len(item) /\ menu' = "closed" /\ panels' = panels
      BY <1>0, <2>4, SettingsFacts DEF SettingsPage
    <3> QED
      BY <1>a, <3>1, QuestionHere, NothingAsked
  <2> QED
    BY <1>0, <1>1, <2>1, <2>2, <2>3, <2>4, UserMinds
<1>2. CASE Receive
  <2>0. Head(uiq) \in Message /\ uiq # <<>> /\ uiq' = Tail(uiq) /\ mailbox' = mailbox
    BY <1>0, <1>2, ReceiveCases DEF Receive
  <2>1. CASE Dropped \/ Freed
    <3>1. UNCHANGED <<item, mouseVars, selected_item, panels>>
      BY <2>1 DEF Dropped, Freed
    <3>2. \A r \in Nat \ {0} : AcceptingNext(r) => Accepting(r)
      BY <1>0, <2>0, AcceptingTail
    <3> QED
      BY <1>0, <1>a, <3>1, <3>2, SameAsked
  <2>2. CASE PutsRequest
    BY <1>0, <1>a, <2>0, <2>2, PutsRequestAsked
  <2>3. CASE PutsFriend
    BY <1>0, <1>a, <2>0, <2>3, PutsFriendAsked
  <2>4. CASE Turns
    BY <1>0, <1>a, <2>4, TurnsAsked
  <2> QED
    BY <1>0, <1>2, <2>1, <2>2, <2>3, <2>4, ReceiveCases
<1>3. CASE DrawFault
  BY <1>0, <1>a, <1>3, FaultMinds, MindsAsked
<1>4. CASE Shrink \/ LeaveSpin
  BY <1>b, <1>4 DEF Shrink, LeaveSpin
<1>5. CASE ToxStep
  BY <1>0, <1>a, <1>5, ToxAsked
<1>6. CASE UNCHANGED vars
  BY <1>b, <1>6 DEF vars
<1> QED
  BY <1>1, <1>2, <1>3, <1>4, <1>5, <1>6 DEF Next

LEMMA FirstAsked == Init => AskedRight
  BY DEF Init, AskedRight, AsksRight, RightFriend, NoneTurns

\* "Delete friend?" names the friend that was pressed, and button_confirm_deletion
\* deletes that one: whatever comes, is deleted or accepted while the menu is open
\* or the question asked, but for the odd events that AsksForTheRight names.
THEOREM AlwaysAsksForTheRight == Spec => []AsksForTheRight
<1>1. Init => Base /\ RequestsApart /\ AcceptsInOrder /\ AskedRight
  BY FirstBase, FirstApart, FirstOrdered, FirstAsked
<1>2. Base /\ RequestsApart /\ AcceptsInOrder /\ AskedRight /\ [Next]_vars
        => (Base /\ RequestsApart /\ AcceptsInOrder /\ AskedRight)'
  BY StepBase, StepApart, StepOrdered, StepAsked
<1>3. AskedRight => AsksForTheRight
  BY DEF AskedRight, AsksRight, RightFriend, AsksForTheRight
<1> QED
  BY <1>1, <1>2, <1>3, PTL DEF Spec

-----------------------------------------------------------------------------
(* Friend numbers *)

\* The FRIEND of that number is the friend's.
Matches(n) ==
    core[n] # Nobody /\ n < friend_list_size /\ friend[n] = [who |-> core[n], number |-> n]

\* Who claims a number: the entries of the list, by their places, the messages that
\* will make one, by their places below zero, and the deletion in the slot, by zero.
Claim(x) ==
    \/ x \in 1 .. Len(item) /\ item[x].type = "friend"
    \/ -x \in 1 .. Len(uiq) /\ uiq[-x].tag \in {"ADDED", "ACCEPTED"}
    \/ x = 0 /\ mailbox.tag = "DELETE"

NumberAt(x) ==
    IF x > 0 THEN item[x].id ELSE IF x < 0 THEN uiq[-x].number ELSE mailbox.number

\* Of the state after a step.
MatchesNext(n) ==
    core'[n] # Nobody /\ n < friend_list_size' /\ friend'[n] = [who |-> core'[n], number |-> n]

ClaimNext(x) ==
    \/ x \in 1 .. Len(item') /\ item'[x].type = "friend"
    \/ -x \in 1 .. Len(uiq') /\ uiq'[-x].tag \in {"ADDED", "ACCEPTED"}
    \/ x = 0 /\ mailbox'.tag = "DELETE"

NumberNext(x) ==
    IF x > 0 THEN item'[x].id ELSE IF x < 0 THEN uiq'[-x].number ELSE mailbox'.number

Once == \A x, y \in Int : Claim(x) /\ Claim(y) /\ NumberAt(x) = NumberAt(y) => x = y

Match == \A x \in Int : Claim(x) => Matches(NumberAt(x))

AddedRight ==
    \A k \in 1 .. Len(uiq) : uiq[k].tag = "ADDED" => uiq[k].who = core[uiq[k].number]

GoneRight == mailbox.tag = "DELETE" => core[mailbox.number] \notin wanted

\* While toxcore restarts, no friend is on the way, and then the FRIENDs are right.
Restarting ==
    /\ tox # "run" \/ mailbox.tag = "KILL" =>
          \A k \in 1 .. Len(uiq) : uiq[k].tag \notin {"ADDED", "ACCEPTED", "REMOVE"}
    /\ tox = "up" => \A n \in Number : n < friend_list_size => Matches(n)

Claims == Once /\ Match /\ AddedRight /\ GoneRight
Numbers == Claims /\ Restarting

Numbered == odd \cap {"reused", "crossed"} = {} => Numbers

LEMMA ClaimNumber ==
    ASSUME BaseFacts, NEW x \in Int, Claim(x)
    PROVE  NumberAt(x) \in Number
<1>1. CASE x \in 1 .. Len(item) /\ item[x].type = "friend"
  <2>1. item[x] \in Entry /\ x > 0
    BY <1>1 DEF BaseFacts
  <2> QED
    BY <1>1, <2>1, EntryFacts DEF NumberAt
<1>2. CASE -x \in 1 .. Len(uiq) /\ uiq[-x].tag \in {"ADDED", "ACCEPTED"}
  <2>1. uiq[-x] \in Message /\ x < 0
    BY <1>2 DEF BaseFacts
  <2> QED
    BY <1>2, <2>1, MessageFacts DEF NumberAt
<1>3. CASE x = 0 /\ mailbox.tag = "DELETE"
  BY <1>3, CommandFacts DEF NumberAt, BaseFacts
<1> QED
  BY <1>1, <1>2, <1>3 DEF Claim

\* Where the claims were before the step.
ClaimsFrom(h) ==
    /\ \A x \in Int : ClaimNext(x) =>
          h[x] \in Int /\ Claim(h[x]) /\ NumberNext(x) = NumberAt(h[x])
    /\ \A x, y \in Int : ClaimNext(x) /\ ClaimNext(y) /\ h[x] = h[y] => x = y

\* The friends that are claimed stay.
FriendsStay ==
    \A x \in Int : ClaimNext(x) /\ Matches(NumberNext(x)) =>
        MatchesNext(NumberNext(x)) /\ core'[NumberNext(x)] = core[NumberNext(x)]

LEMMA OnceFrom ==
    ASSUME Once, Match, NEW h, ClaimsFrom(h), FriendsStay
    PROVE  Once' /\ Match'
<1>1. ASSUME NEW x \in Int, NEW y \in Int, ClaimNext(x), ClaimNext(y), NumberNext(x) = NumberNext(y)
      PROVE  x = y
  <2>1. h[x] = h[y]
    BY <1>1 DEF ClaimsFrom, Once
  <2> QED
    BY <1>1, <2>1 DEF ClaimsFrom
<1>2. ASSUME NEW x \in Int, ClaimNext(x) PROVE MatchesNext(NumberNext(x))
  BY <1>2 DEF ClaimsFrom, Match, FriendsStay
<1>3. Once'
  BY <1>1 DEF Once, Claim, NumberAt, ClaimNext, NumberNext
<1>4. Match'
  BY <1>2 DEF Match, Claim, NumberAt, Matches, ClaimNext, NumberNext, MatchesNext
<1> QED
  BY <1>3, <1>4

\* Of a step that brings no claim.
Kinds(f, g) == [x \in Int |-> IF x > 0 THEN f[x] ELSE IF x < 0 THEN -g[-x] ELSE 0]

LEMMA SameClaims ==
    ASSUME BaseFacts, BaseFacts', NEW f, NEW g, NEW places, NEW ends,
           EntriesFrom(f, places), MessagesFrom(g, ends),
           \A k \in 1 .. Len(item') : k \in places => item'[k].type # "friend",
           \A k \in 1 .. Len(uiq') : k \in ends => uiq'[k].tag \notin {"ADDED", "ACCEPTED"},
           mailbox'.tag = "DELETE" => mailbox' = mailbox
    PROVE  ClaimsFrom(Kinds(f, g))
<1> DEFINE h == Kinds(f, g)
<1>0. Len(item) \in Nat /\ Len(item') \in Nat /\ Len(uiq) \in Nat /\ Len(uiq') \in Nat
  BY DEF BaseFacts
<1>1. ASSUME NEW x \in Int, ClaimNext(x)
      PROVE  \/ /\ x > 0 /\ x \in 1 .. Len(item') /\ h[x] = f[x] /\ f[x] \in 1 .. Len(item)
                /\ item'[x] = item[f[x]] /\ item'[x].type = "friend"
             \/ /\ x < 0 /\ -x \in 1 .. Len(uiq') /\ h[x] = -g[-x] /\ g[-x] \in 1 .. Len(uiq)
                /\ Moved(uiq[g[-x]], uiq'[-x]) /\ uiq'[-x].tag \in {"ADDED", "ACCEPTED"}
             \/ x = 0 /\ h[x] = 0 /\ mailbox' = mailbox /\ mailbox.tag = "DELETE"
  <2>1. CASE x \in 1 .. Len(item') /\ item'[x].type = "friend"
    <3>1. x \notin places /\ x > 0
      BY <2>1
    <3> QED
      BY <2>1, <3>1 DEF EntriesFrom, Kinds
  <2>2. CASE -x \in 1 .. Len(uiq') /\ uiq'[-x].tag \in {"ADDED", "ACCEPTED"}
    <3>1. -x \notin ends /\ x < 0
      BY <2>2
    <3>2. h[x] = -g[-x]
      BY <3>1 DEF Kinds
    <3> QED
      BY <2>2, <3>1, <3>2 DEF MessagesFrom
  <2>3. CASE x = 0 /\ mailbox'.tag = "DELETE"
    BY <2>3 DEF Kinds
  <2> QED
    BY <1>1, <2>1, <2>2, <2>3 DEF ClaimNext
<1> HIDE DEF h
<1>2. ASSUME NEW x \in Int, ClaimNext(x)
      PROVE  h[x] \in Int /\ Claim(h[x]) /\ NumberNext(x) = NumberAt(h[x])
  <2>1. CASE /\ x > 0 /\ h[x] = f[x] /\ f[x] \in 1 .. Len(item)
             /\ item'[x] = item[f[x]] /\ item'[x].type = "friend"
    <3>1. h[x] > 0 /\ h[x] \in Int
      BY <2>1
    <3> QED
      BY <2>1, <3>1 DEF Claim, NumberAt, NumberNext
  <2>2. CASE /\ x < 0 /\ h[x] = -g[-x] /\ g[-x] \in 1 .. Len(uiq)
             /\ Moved(uiq[g[-x]], uiq'[-x]) /\ uiq'[-x].tag \in {"ADDED", "ACCEPTED"}
    <3>1. h[x] < 0 /\ h[x] \in Int /\ -h[x] = g[-x]
      BY <2>2
    <3>2. /\ uiq[g[-x]].tag \in {"ADDED", "ACCEPTED"}
          /\ uiq'[-x].number = uiq[g[-x]].number
      BY <2>2 DEF Moved
    <3> QED
      BY <2>2, <3>1, <3>2 DEF Claim, NumberAt, NumberNext
  <2>3. CASE x = 0 /\ h[x] = 0 /\ mailbox' = mailbox /\ mailbox.tag = "DELETE"
    BY <2>3 DEF Claim, NumberAt, NumberNext
  <2> QED
    BY <1>1, <1>2, <2>1, <2>2, <2>3
<1>4. ASSUME NEW x \in Int, ClaimNext(x)
      PROVE  \/ x > 0 /\ h[x] > 0 /\ h[x] = f[x] /\ x \in 1 .. Len(item')
             \/ /\ x < 0 /\ h[x] < 0 /\ h[x] = -g[-x] /\ g[-x] \in Int
                /\ -x \in 1 .. Len(uiq')
             \/ x = 0 /\ h[x] = 0
  <2>1. f[x] \in 1 .. Len(item) => f[x] > 0
    BY <1>0
  <2>2. g[-x] \in 1 .. Len(uiq) => g[-x] \in Int /\ -g[-x] < 0
    BY <1>0
  <2> QED
    BY <1>1, <1>4, <2>1, <2>2
<1>3. ASSUME NEW x \in Int, NEW y \in Int, ClaimNext(x), ClaimNext(y), h[x] = h[y]
      PROVE  x = y
  <2>1. CASE x > 0 /\ y > 0
    <3>1. f[x] = f[y] /\ x \in 1 .. Len(item') /\ y \in 1 .. Len(item')
      BY <1>3, <1>4, <2>1
    <3> QED
      BY <3>1 DEF EntriesFrom
  <2>2. CASE x < 0 /\ y < 0
    <3>1. -g[-x] = -g[-y] /\ g[-x] \in Int /\ g[-y] \in Int
          /\ -x \in 1 .. Len(uiq') /\ -y \in 1 .. Len(uiq')
      BY <1>3, <1>4, <2>2
    <3>2. g[-x] = g[-y]
      BY <3>1
    <3>3. -x = -y
      BY <3>1, <3>2 DEF MessagesFrom
    <3> QED
      BY <3>3
  <2>3. (x > 0 /\ y > 0) \/ (x < 0 /\ y < 0) \/ x = y
    <3>1. (x > 0 <=> h[x] > 0) /\ (x < 0 <=> h[x] < 0) /\ (x = 0 <=> h[x] = 0)
      BY <1>2, <1>3, <1>4
    <3>2. (y > 0 <=> h[y] > 0) /\ (y < 0 <=> h[y] < 0) /\ (y = 0 <=> h[y] = 0)
      BY <1>2, <1>3, <1>4
    <3> QED
      BY <1>3, <3>1, <3>2
  <2> QED
    BY <2>1, <2>2, <2>3
<1> QED
  BY <1>2, <1>3 DEF ClaimsFrom, h

LEMMA AddedStays ==
    ASSUME BaseFacts', Match, AddedRight, NEW h, ClaimsFrom(h), FriendsStay,
           NEW g, NEW ends, MessagesFrom(g, ends),
           \A k \in 1 .. Len(uiq') : k \in ends => uiq'[k].tag # "ADDED"
    PROVE  AddedRight'
<1> SUFFICES ASSUME NEW k \in 1 .. Len(uiq'), uiq'[k].tag = "ADDED"
             PROVE  uiq'[k].who = core'[uiq'[k].number]
  BY DEF AddedRight
<1>1. g[k] \in 1 .. Len(uiq) /\ uiq'[k] = uiq[g[k]]
  BY DEF MessagesFrom, Moved
<1>2. uiq'[k].who = core[uiq'[k].number]
  BY <1>1 DEF AddedRight
<1>3. -k \in Int /\ -k < 0 /\ -(-k) = k
  BY DEF BaseFacts
<1>4. ClaimNext(-k) /\ NumberNext(-k) = uiq'[k].number
  BY <1>3 DEF ClaimNext, NumberNext
<1>5. Matches(NumberNext(-k))
  BY <1>3, <1>4 DEF ClaimsFrom, Match
<1> QED
  BY <1>2, <1>3, <1>4, <1>5 DEF FriendsStay

LEMMA GoneStays ==
    ASSUME Match, GoneRight, NEW h, ClaimsFrom(h), FriendsStay,
           mailbox'.tag = "DELETE" => mailbox' = mailbox /\ wanted' = wanted
    PROVE  GoneRight'
<1> SUFFICES ASSUME mailbox'.tag = "DELETE" PROVE core'[mailbox'.number] \notin wanted'
  BY DEF GoneRight
<1>1. ClaimNext(0) /\ NumberNext(0) = mailbox'.number
  BY DEF ClaimNext, NumberNext
<1>2. Matches(NumberNext(0))
  BY <1>1 DEF ClaimsFrom, Match
<1> QED
  BY <1>1, <1>2 DEF FriendsStay, GoneRight

LEMMA ClaimsStay ==
    ASSUME BaseFacts, BaseFacts', Claims, NEW f, NEW g, NEW places, NEW ends,
           EntriesFrom(f, places), MessagesFrom(g, ends),
           \A k \in 1 .. Len(item') : k \in places => item'[k].type # "friend",
           \A k \in 1 .. Len(uiq') : k \in ends => uiq'[k].tag \notin {"ADDED", "ACCEPTED"},
           mailbox'.tag = "DELETE" => mailbox' = mailbox /\ wanted' = wanted,
           FriendsStay
    PROVE  Claims'
<1>1. ClaimsFrom(Kinds(f, g))
  BY SameClaims
<1>2. Once' /\ Match'
  BY <1>1, OnceFrom DEF Claims
<1>3. AddedRight'
  BY <1>1, AddedStays DEF Claims
<1>4. GoneRight'
  BY <1>1, GoneStays DEF Claims
<1> QED
  BY <1>2, <1>3, <1>4 DEF Claims

LEMMA UnchangedFriends ==
    ASSUME UNCHANGED <<core, friend, friend_list_size>>
    PROVE  FriendsStay
  BY DEF FriendsStay, Matches, MatchesNext

\* The message at the head of the queue becomes an entry.
Becomes(f, places) ==
    [x \in Int |-> IF x > 0 THEN (IF x \in places THEN -1 ELSE f[x])
                   ELSE IF x < 0 THEN x - 1 ELSE 0]

LEMMA EntryClaims ==
    ASSUME BaseFacts, BaseFacts', NEW f, NEW places, EntriesFrom(f, places),
           \A k, l \in places : k = l,
           uiq # <<>>, uiq' = Tail(uiq), Head(uiq).tag \in {"ADDED", "ACCEPTED"},
           \A k \in 1 .. Len(item') : k \in places => item'[k] = Friend(Head(uiq).number),
           mailbox' = mailbox
    PROVE  ClaimsFrom(Becomes(f, places))
<1> DEFINE h == Becomes(f, places)
<1>0. /\ Len(item) \in Nat /\ Len(item') \in Nat /\ Len(uiq) \in Nat \ {0} /\ Len(uiq') = Len(uiq) - 1
      /\ Head(uiq) = uiq[1] /\ \A k \in 1 .. Len(uiq) - 1 : uiq'[k] = uiq[k + 1]
  BY TailFacts DEF BaseFacts
<1>1. ASSUME NEW x \in Int, ClaimNext(x)
      PROVE  \/ x > 0 /\ x \in 1 .. Len(item') /\ x \in places /\ h[x] = -1
             \/ /\ x > 0 /\ x \in 1 .. Len(item') /\ h[x] = f[x] /\ f[x] \in 1 .. Len(item)
                /\ item'[x] = item[f[x]] /\ item'[x].type = "friend"
             \/ /\ x < 0 /\ h[x] = x - 1 /\ -x + 1 \in 1 .. Len(uiq) /\ uiq'[-x] = uiq[-x + 1]
                /\ uiq'[-x].tag \in {"ADDED", "ACCEPTED"}
             \/ x = 0 /\ h[x] = 0 /\ mailbox.tag = "DELETE"
  <2>1. CASE x \in 1 .. Len(item') /\ item'[x].type = "friend"
    <3>1. x > 0
      BY <2>1
    <3>2. h[x] = IF x \in places THEN -1 ELSE f[x]
      BY <3>1 DEF Becomes
    <3> QED
      BY <2>1, <3>1, <3>2 DEF EntriesFrom
  <2>2. CASE -x \in 1 .. Len(uiq') /\ uiq'[-x].tag \in {"ADDED", "ACCEPTED"}
    <3>1. x < 0 /\ -x \in 1 .. Len(uiq) - 1 /\ -x + 1 \in 1 .. Len(uiq)
      BY <1>0, <2>2
    <3>2. h[x] = x - 1
      BY <3>1 DEF Becomes
    <3> QED
      BY <1>0, <2>2, <3>1, <3>2
  <2>3. CASE x = 0 /\ mailbox'.tag = "DELETE"
    BY <2>3 DEF Becomes
  <2> QED
    BY <1>1, <2>1, <2>2, <2>3 DEF ClaimNext
<1> HIDE DEF h
<1>2. ASSUME NEW x \in Int, ClaimNext(x)
      PROVE  h[x] \in Int /\ Claim(h[x]) /\ NumberNext(x) = NumberAt(h[x])
  <2>1. CASE x > 0 /\ x \in 1 .. Len(item') /\ x \in places /\ h[x] = -1
    <3>1. Claim(-1) /\ NumberAt(-1) = Head(uiq).number
      <4>1. 1 \in 1 .. Len(uiq)
        BY <1>0
      <4>2. \E z \in Int : z = -1 /\ z < 0 /\ -z = 1
        OBVIOUS
      <4> QED
        BY <1>0, <4>1, <4>2 DEF Claim, NumberAt
    <3>2. NumberNext(x) = Head(uiq).number
      BY <2>1, NewEntries DEF NumberNext
    <3> QED
      BY <2>1, <3>1, <3>2
  <2>2. CASE /\ x > 0 /\ h[x] = f[x] /\ f[x] \in 1 .. Len(item)
             /\ item'[x] = item[f[x]] /\ item'[x].type = "friend"
    <3>1. h[x] > 0 /\ h[x] \in Int
      BY <2>2
    <3> QED
      BY <2>2, <3>1 DEF Claim, NumberAt, NumberNext
  <2>3. CASE /\ x < 0 /\ h[x] = x - 1 /\ -x + 1 \in 1 .. Len(uiq) /\ uiq'[-x] = uiq[-x + 1]
             /\ uiq'[-x].tag \in {"ADDED", "ACCEPTED"}
    <3>1. h[x] < 0 /\ h[x] \in Int /\ -h[x] = -x + 1
      BY <2>3
    <3> QED
      BY <2>3, <3>1 DEF Claim, NumberAt, NumberNext
  <2>4. CASE x = 0 /\ h[x] = 0 /\ mailbox.tag = "DELETE"
    BY <2>4 DEF Claim, NumberAt, NumberNext
  <2> QED
    BY <1>1, <1>2, <2>1, <2>2, <2>3, <2>4
<1>3. ASSUME NEW x \in Int, ClaimNext(x)
      PROVE  \/ x \in places /\ h[x] = -1
             \/ /\ x \in 1 .. Len(item') /\ h[x] > 0 /\ h[x] = f[x] /\ h[x] \in Int
             \/ x < 0 /\ h[x] = x - 1 /\ h[x] < -1
             \/ x = 0 /\ h[x] = 0
  <2>1. f[x] \in 1 .. Len(item) => f[x] > 0
    BY <1>0
  <2> QED
    BY <1>1, <1>3, <2>1
<1>4. ASSUME NEW x \in Int, NEW y \in Int, ClaimNext(x), ClaimNext(y), h[x] = h[y]
      PROVE  x = y
  <2>1. CASE x \in places /\ y \in places
    BY <2>1
  <2>2. CASE x \in 1 .. Len(item') /\ y \in 1 .. Len(item') /\ f[x] = f[y]
    BY <2>2 DEF EntriesFrom
  <2>3. CASE h[x] = x - 1 /\ h[y] = y - 1
    <3>1. x - 1 = y - 1
      BY <1>4, <2>3
    <3> QED
      BY <3>1
  <2>4. CASE x = 0 /\ y = 0
    BY <2>4
  <2>5. \/ x \in places /\ y \in places
        \/ x \in 1 .. Len(item') /\ y \in 1 .. Len(item') /\ f[x] = f[y]
        \/ h[x] = x - 1 /\ h[y] = y - 1
        \/ x = 0 /\ y = 0
    BY <1>3, <1>4
  <2> QED
    BY <2>1, <2>2, <2>3, <2>4, <2>5
<1> QED
  BY <1>2, <1>4 DEF ClaimsFrom, h


\* A step after which nothing claims a number.
LEMMA NoClaims ==
    ASSUME BaseFacts', item' = <<>>, mailbox'.tag # "DELETE",
           \A k \in 1 .. Len(uiq') : uiq'[k].tag \notin {"ADDED", "ACCEPTED"}
    PROVE  Claims'
<1>1. \A x \in Int : ~ClaimNext(x)
  BY DEF ClaimNext
<1> QED
  BY <1>1 DEF Claims, Once, Match, AddedRight, GoneRight, Claim, ClaimNext

LEMMA RestartingStays ==
    ASSUME Restarting, NEW g, NEW ends, MessagesFrom(g, ends), tox' = tox,
           mailbox'.tag = "KILL" => mailbox.tag = "KILL",
           tox # "run" \/ mailbox.tag = "KILL" =>
               \A k \in 1 .. Len(uiq') : k \in ends => uiq'[k].tag = "INCOMING",
           tox = "up" => UNCHANGED <<core, friend, friend_list_size>>
    PROVE  Restarting'
<1>1. ASSUME tox' # "run" \/ mailbox'.tag = "KILL", NEW k \in 1 .. Len(uiq')
      PROVE  uiq'[k].tag \notin {"ADDED", "ACCEPTED", "REMOVE"}
  <2>1. CASE k \in ends
    BY <1>1, <2>1
  <2>2. CASE k \notin ends
    <3>1. g[k] \in 1 .. Len(uiq) /\ uiq'[k].tag = uiq[g[k]].tag
      BY <2>2 DEF MessagesFrom, Moved
    <3> QED
      BY <1>1, <3>1 DEF Restarting
  <2> QED
    BY <2>1, <2>2
<1>2. ASSUME tox' = "up" PROVE \A n \in Number : n < friend_list_size' => Matches(n)'
  BY <1>2 DEF Restarting, Matches
<1> QED
  BY <1>1, <1>2 DEF Restarting

LEMMA MindsNumbers ==
    ASSUME BaseFacts, BaseFacts', Numbers, Minds
    PROVE  Numbers'
<1>1. EntriesFrom(Same, {}) /\ MessagesFrom(Same, {})
  BY SameEntries, SameMessages DEF Minds
<1>2. \/ UNCHANGED <<mailbox, wanted>>
      \/ mailbox'.tag \in {"ADD", "ACCEPT"}
  BY DEF Minds, Asked, Post, Accept
<1>3. FriendsStay
  BY UnchangedFriends DEF Minds
<1>4. Claims'
  BY <1>1, <1>2, <1>3, ClaimsStay DEF Numbers
<1>5. Restarting'
  BY <1>1, <1>2, RestartingStays DEF Minds, Numbers
<1> QED
  BY <1>4, <1>5 DEF Numbers

LEMMA DragNumbers ==
    ASSUME BaseFacts, BaseFacts', Numbers,
           NEW i \in 1 .. Len(item), NEW j \in 1 .. Len(item), Drag(i, j)
    PROVE  Numbers'
<1>1. EntriesFrom(Swaps(i, j), {}) /\ MessagesFrom(Same, {})
  BY DraggedFrom, SameMessages DEF Drag
<1>2. UNCHANGED <<mailbox, wanted, tox, core, friend, friend_list_size>>
  BY DEF Drag
<1>3. FriendsStay
  BY <1>2, UnchangedFriends
<1>4. Claims'
  BY <1>1, <1>2, <1>3, ClaimsStay DEF Numbers
<1>5. Restarting'
  BY <1>1, <1>2, RestartingStays DEF Numbers
<1> QED
  BY <1>4, <1>5 DEF Numbers

LEMMA SettingsNumbers ==
    ASSUME BaseFacts, BaseFacts', ListShape', Numbers, ChangeSettings, "crossed" \notin odd'
    PROVE  Numbers'
<1>1. /\ item' = <<>> /\ mailbox' = [tag |-> "KILL"] /\ uiq' = uiq
      /\ \A k \in 1 .. Len(uiq) : uiq[k].tag = "INCOMING"
  BY SettingsFacts
<1>2. mailbox'.tag = "KILL"
  BY <1>1
<1>3. Claims'
  BY <1>1, <1>2, NoClaims
<1>4. tox' = "run"
  BY <1>2 DEF ListShape
<1>5. Restarting'
  BY <1>1, <1>4 DEF Restarting
<1> QED
  BY <1>3, <1>5 DEF Numbers

\* Of a step that leaves the friends alone.
LEMMA PlainNumbers ==
    ASSUME BaseFacts, BaseFacts', Numbers, NEW f, NEW g, NEW places, NEW ends,
           EntriesFrom(f, places), MessagesFrom(g, ends),
           \A k \in 1 .. Len(item') : k \in places => item'[k].type # "friend",
           \A k \in 1 .. Len(uiq') : k \in ends => uiq'[k].tag = "INCOMING",
           mailbox'.tag \in {"DELETE", "KILL"} => mailbox' = mailbox, wanted' = wanted,
           UNCHANGED <<core, tox, friend, friend_list_size>>
    PROVE  Numbers'
<1>1. FriendsStay
  BY UnchangedFriends
<1>2. \A k \in 1 .. Len(uiq') : k \in ends => uiq'[k].tag \notin {"ADDED", "ACCEPTED"}
  OBVIOUS
<1>3. Claims'
  BY <1>1, <1>2, ClaimsStay DEF Numbers
<1>4. Restarting'
  BY RestartingStays DEF Numbers
<1> QED
  BY <1>3, <1>4 DEF Numbers

LEMMA DroppedNumbers ==
    ASSUME BaseFacts, BaseFacts', Numbers, Dropped
    PROVE  Numbers'
<1>1. EntriesFrom(Same, {}) /\ MessagesFrom(Skips(1), {})
  BY SameEntries, TailFrom DEF Dropped
<1> QED
  BY <1>1, PlainNumbers DEF Dropped

LEMMA PutsRequestNumbers ==
    ASSUME BaseFacts, BaseFacts', ListShape, Numbers, PutsRequest, Head(uiq) \in Message
    PROVE  Numbers'
<1> DEFINE entry == Request(Head(uiq).at)
<1>1. entry \in Entry /\ entry.type = "request"
  BY MessageFacts, NewEntries DEF PutsRequest
<1>2. Put(entry)
  BY DEF PutsRequest
<1> HIDE DEF entry
<1>3. EntriesFrom(Same, {Len(item)}) /\ item'[Len(item)] = entry
  BY <1>1, <1>2, PutFrom, PutFacts
<1>4. MessagesFrom(Skips(1), {})
  BY <1>2, TailFrom DEF Put
<1>5. UNCHANGED <<mailbox, wanted, core, tox, friend, friend_list_size>>
  BY <1>2 DEF PutsRequest, Put
<1> QED
  BY <1>1, <1>3, <1>4, <1>5, PlainNumbers

LEMMA SameNumbers ==
    ASSUME BaseFacts, BaseFacts', Numbers, UNCHANGED <<item, uiq>>,
           mailbox'.tag \in {"DELETE", "KILL"} => mailbox' = mailbox, wanted' = wanted,
           UNCHANGED <<core, tox, friend, friend_list_size>>
    PROVE  Numbers'
<1>1. EntriesFrom(Same, {}) /\ MessagesFrom(Same, {})
  BY SameEntries, SameMessages
<1> QED
  BY <1>1, PlainNumbers

LEMMA FriendRequestNumbers ==
    ASSUME BaseFacts, BaseFacts', Numbers, NEW p \in Person, FriendRequest(p)
    PROVE  Numbers'
<1>1. UNCHANGED <<core, tox, friend, friend_list_size, item, wanted>>
  BY FriendRequestFacts
<1>2. CASE UNCHANGED <<mailbox, uiq>>
  BY <1>1, <1>2, SameNumbers
<1>3. CASE Told([tag |-> "INCOMING", at |-> Len(frequests) + 1])
           /\ mailbox'.tag = mailbox.tag /\ (mailbox.tag # "ACCEPT" => mailbox' = mailbox)
  <2> DEFINE msg == [tag |-> "INCOMING", at |-> Len(frequests) + 1]
  <2>1. Told(msg) /\ msg.tag = "INCOMING"
    BY <1>3
  <2> HIDE DEF msg
  <2>2. EntriesFrom(Same, {}) /\ MessagesFrom(Same, {Len(uiq) + 1})
    BY <1>1, <2>1, SameEntries, ToldFrom
  <2>3. uiq'[Len(uiq) + 1].tag = "INCOMING"
    BY <2>1 DEF Told
  <2> QED
    BY <1>1, <1>3, <2>2, <2>3, PlainNumbers
<1> QED
  BY <1>2, <1>3, FriendRequestFacts

LEMMA RequestDeletedNumbers ==
    ASSUME BaseFacts, BaseFacts', ListShape, Numbers, NEW i, Deletes(i), item[i].type = "request"
    PROVE  Numbers'
<1>1. EntriesFrom(Skips(i), {}) /\ MessagesFrom(Same, {})
  BY DeletedFrom, SameMessages DEF Deletes
<1>2. mailbox' = mailbox /\ wanted' = wanted
  BY FreeEntryFacts DEF Deletes
<1> QED
  BY <1>1, <1>2, PlainNumbers DEF Deletes

LEMMA FreedNumbers ==
    ASSUME BaseFacts, BaseFacts', Numbers, Freed, "reused" \notin odd'
    PROVE  Numbers'
<1>1. EntriesFrom(Same, {}) /\ MessagesFrom(Skips(1), {})
  BY SameEntries, TailFrom DEF Freed
<1>2. UNCHANGED <<core, tox, friend_list_size, mailbox, wanted>>
  BY DEF Freed
<1>3. \A n : Matches(n) => MatchesNext(n)
  <2> SUFFICES ASSUME NEW n, Matches(n) PROVE MatchesNext(n)
    OBVIOUS
  <2>1. Head(uiq).at = Leaked \/ core[Head(uiq).at] = Nobody
    BY DEF Freed
  <2>2. friend'[n] = friend[n]
    BY <2>1 DEF Freed, Matches, BaseFacts
  <2> QED
    BY <1>2, <2>2 DEF Matches, MatchesNext
<1>4. FriendsStay
  BY <1>2, <1>3 DEF FriendsStay
<1>5. Claims'
  BY <1>1, <1>2, <1>4, ClaimsStay DEF Numbers
<1>6. tox = "run"
  <2>1. Head(uiq) = uiq[1] /\ 1 \in 1 .. Len(uiq)
    BY TailFacts DEF Freed, BaseFacts
  <2> QED
    BY <2>1 DEF Freed, Numbers, Restarting
<1>7. Restarting'
  BY <1>1, <1>2, <1>6, RestartingStays DEF Numbers
<1> QED
  BY <1>5, <1>7 DEF Numbers

LEMMA HandledNumbers ==
    ASSUME BaseFacts, BaseFacts', Numbers, Handled
    PROVE  Numbers'
  BY SameNumbers, NewCommands DEF Handled

LEMMA HandleKillNumbers ==
    ASSUME BaseFacts, BaseFacts', ListShape', Numbers, HandleKill
    PROVE  Numbers'
<1>1. /\ UNCHANGED <<core, friend, friend_list_size, item, uiq, wanted>>
      /\ mailbox' = Empty /\ mailbox.tag = "KILL" /\ tox' = "down"
  BY DEF HandleKill
<1>2. \A k \in 1 .. Len(uiq') : uiq'[k].tag \notin {"ADDED", "ACCEPTED", "REMOVE"}
  BY <1>1 DEF Numbers, Restarting
<1>3. item' = <<>> /\ mailbox'.tag # "DELETE"
  BY <1>1, NewCommands DEF ListShape
<1>4. Claims'
  BY <1>2, <1>3, NoClaims
<1>5. Restarting'
  BY <1>1, <1>2 DEF Restarting
<1> QED
  BY <1>4, <1>5 DEF Numbers

LEMMA HandleDeleteNumbers ==
    ASSUME BaseFacts, BaseFacts', Numbers, HandleDelete
    PROVE  Numbers'
<1> DEFINE msg == [tag |-> "REMOVE", at |-> mailbox.at]
<1>1. /\ UNCHANGED <<tox, friend, friend_list_size, item, wanted>>
      /\ mailbox' = Empty /\ mailbox.tag = "DELETE" /\ tox = "run"
      /\ core' = [core EXCEPT ![mailbox.number] = Nobody]
  BY DEF HandleDelete, ToxRuns
<1>2. mailbox.number \in Number /\ mailbox.at \in Number
  BY <1>1, CommandFacts DEF BaseFacts
<1>3. msg \in Message /\ msg.tag = "REMOVE"
  BY <1>2, NewMessages
<1>4. uiq' = Append(uiq, msg)
  BY DEF HandleDelete, Tell
<1> HIDE DEF msg
<1>5. Told(msg)
  BY <1>3, <1>4, ToldAppend
<1>6. EntriesFrom(Same, {}) /\ MessagesFrom(Same, {Len(uiq) + 1})
  BY <1>1, <1>5, SameEntries, ToldFrom
<1>7. uiq'[Len(uiq) + 1].tag = "REMOVE" /\ mailbox'.tag = "none"
  BY <1>1, <1>3, <1>5, NewCommands DEF Told
<1>8. ClaimsFrom(Kinds(Same, Same))
  BY <1>6, <1>7, SameClaims
<1>9. FriendsStay
  <2> SUFFICES ASSUME NEW x \in Int, ClaimNext(x), Matches(NumberNext(x))
               PROVE  /\ MatchesNext(NumberNext(x))
                      /\ core'[NumberNext(x)] = core[NumberNext(x)]
    BY DEF FriendsStay
  <2> DEFINE h == Kinds(Same, Same)
  <2>1. h[x] \in Int /\ Claim(h[x]) /\ NumberNext(x) = NumberAt(h[x])
    BY <1>8 DEF ClaimsFrom
  <2>2. h[x] # 0
    <3>1. x # 0
      BY <1>7 DEF ClaimNext, BaseFacts
    <3> QED
      BY <3>1 DEF Kinds, Same
  <2> HIDE DEF h
  <2>3. Claim(0) /\ NumberAt(0) = mailbox.number
    BY <1>1 DEF Claim, NumberAt
  <2>4. NumberNext(x) # mailbox.number
    BY <2>1, <2>2, <2>3 DEF Numbers, Claims, Once
  <2>5. NumberNext(x) \in Number
    BY <2>1, ClaimNumber
  <2>6. core'[NumberNext(x)] = core[NumberNext(x)]
    BY <1>1, <2>4, <2>5 DEF BaseFacts
  <2> QED
    BY <1>1, <2>6 DEF Matches, MatchesNext
<1>10. Once' /\ Match'
  BY <1>8, <1>9, OnceFrom DEF Numbers, Claims
<1>11. AddedRight'
  BY <1>6, <1>7, <1>8, <1>9, AddedStays DEF Numbers, Claims
<1>12. GoneRight'
  BY <1>7 DEF GoneRight
<1>13. Restarting'
  BY <1>1, <1>6, <1>7, RestartingStays DEF Numbers
<1> QED
  BY <1>10, <1>11, <1>12, <1>13 DEF Numbers, Claims

LEMMA InitNumbers ==
    ASSUME BaseFacts, BaseFacts', ListShape, Numbers, InitTox
    PROVE  Numbers'
<1>1. /\ tox = "down" /\ tox' = "up" /\ item' = item /\ mailbox' = mailbox
      /\ friend_list_size' = Cardinality(Taken)
      /\ Len(uiq') = Len(uiq) /\ \A k \in 1 .. Len(uiq) : uiq'[k].tag = uiq[k].tag
  BY InitFacts DEF Moved
<1>2. PICK at \in Saved :
        /\ core' = [n \in Number |-> IF n \in DOMAIN at THEN core[at[n]] ELSE Nobody]
        /\ friend' = [n \in Number |-> IF n \in DOMAIN at
                                       THEN [who |-> core[at[n]], number |-> n] ELSE Zeroed]
        /\ DOMAIN at = 0 .. Cardinality(Taken) - 1
        /\ \A n \in DOMAIN at : at[n] \in Taken /\ core[at[n]] \in Person
  BY InitFacts
<1>3. \A k \in 1 .. Len(uiq') : uiq'[k].tag \notin {"ADDED", "ACCEPTED", "REMOVE"}
  BY <1>1 DEF Numbers, Restarting
<1>4. item' = <<>> /\ mailbox'.tag # "DELETE"
  BY <1>1, NewCommands DEF ListShape
<1>5. Claims'
  BY <1>3, <1>4, NoClaims
<1>6. ASSUME NEW n \in Number, n < friend_list_size' PROVE Matches(n)'
  <2>1. n \in DOMAIN at
    BY <1>1, <1>2, <1>6, TakenCount DEF Number, BaseFacts
  <2> QED
    BY <1>2, <1>6, <2>1, Constants DEF Matches
<1>7. Restarting'
  BY <1>3, <1>6 DEF Restarting
<1> QED
  BY <1>5, <1>7 DEF Numbers

LEMMA StartNumbers ==
    ASSUME BaseFacts, BaseFacts', ListShape, CountCovers, Numbers, FlistStart
    PROVE  Numbers'
<1>1. /\ tox = "up" /\ tox' = "run"
      /\ Len(item') = friend_list_count + 1 /\ friend_list_count \in Nat
      /\ friend_list_size \in Nat /\ friend_list_size <= friend_list_count
      /\ \A k \in 1 .. friend_list_size :
            item'[k] = Friend(friend[k - 1].number) /\ k - 1 \in Number
      /\ item'[friend_list_size + 1] = CreateGroup
      /\ \A k \in friend_list_size + 2 .. Len(item') : item'[k] = Spare
      /\ UNCHANGED <<core, friend, friend_list_size, mailbox, uiq>>
  BY StartFacts DEF BaseFacts
<1>2. \A k \in 1 .. Len(uiq') : uiq'[k].tag \notin {"ADDED", "ACCEPTED", "REMOVE"}
  BY <1>1 DEF Numbers, Restarting
<1>3. mailbox'.tag \notin {"DELETE", "KILL"}
  BY <1>1 DEF ListShape
<1>4. ASSUME NEW k \in 1 .. Len(item'), item'[k].type = "friend"
      PROVE  item'[k] = Friend(k - 1) /\ Matches(k - 1)
  <2>1. k \in 1 .. friend_list_size
    BY <1>1, <1>4, NewEntries
  <2>2. Matches(k - 1)
    BY <1>1, <2>1 DEF Numbers, Restarting
  <2> QED
    BY <1>1, <2>1, <2>2 DEF Matches
<1>5. ASSUME NEW x \in Int, ClaimNext(x)
      PROVE  NumberNext(x) = x - 1 /\ Matches(x - 1)
  <2>1. x \in 1 .. Len(item') /\ item'[x].type = "friend" /\ x > 0
    BY <1>2, <1>3, <1>5 DEF ClaimNext
  <2> QED
    BY <1>4, <2>1, NewEntries DEF NumberNext
<1>6. Once'
  <2>1. ASSUME NEW x \in Int, NEW y \in Int, ClaimNext(x), ClaimNext(y), NumberNext(x) = NumberNext(y)
        PROVE  x = y
    <3>1. x - 1 = y - 1
      BY <1>5, <2>1
    <3> QED
      BY <3>1
  <2> QED
    BY <2>1 DEF Once, Claim, NumberAt, ClaimNext, NumberNext
<1>7. Match'
  <2>1. ASSUME NEW x \in Int, ClaimNext(x) PROVE MatchesNext(NumberNext(x))
    BY <1>1, <1>5, <2>1 DEF Matches, MatchesNext
  <2> QED
    BY <2>1 DEF Match, Matches, Claim, NumberAt, MatchesNext, ClaimNext, NumberNext
<1>8. AddedRight' /\ GoneRight' /\ Restarting'
  BY <1>1, <1>2, <1>3 DEF AddedRight, GoneRight, Restarting
<1> QED
  BY <1>6, <1>7, <1>8 DEF Numbers, Claims

\* A friend has come whose number nobody claimed.
LEMMA BefriendedNumbers ==
    ASSUME BaseFacts, BaseFacts', Numbers, tox = "run", tox' = "run",
           NEW p \in Person, NEW n \in Number, NEW msg, Befriended(p, n, msg),
           msg.tag \in {"ADDED", "ACCEPTED"}, msg.number = n, msg.tag = "ADDED" => msg.who = p,
           mailbox.tag \in {"ADD", "ACCEPT"}, mailbox' = Empty, item' = item
    PROVE  Numbers'
<1> DEFINE last == Len(uiq) + 1
<1>1. /\ core[n] = Nobody /\ core' = [core EXCEPT ![n] = p]
      /\ friend' = [friend EXCEPT ![n] = [who |-> p, number |-> n]]
      /\ friend_list_size' = IF n < friend_list_size THEN friend_list_size ELSE n + 1
      /\ Told(msg)
  BY DEF Befriended, Free
<1>2. /\ Len(uiq) \in Nat /\ Len(uiq') = last /\ uiq'[last] = msg
      /\ \A k \in 1 .. Len(uiq) : Moved(uiq[k], uiq'[k])
      /\ n \in Nat /\ friend_list_size \in Nat
  BY <1>1, Constants DEF Told, BaseFacts
<1>3. mailbox'.tag = "none"
  BY NewCommands
<1>4. ASSUME NEW m \in Number, Matches(m)
      PROVE  m # n /\ MatchesNext(m) /\ core'[m] = core[m]
  <2>1. m # n
    BY <1>1, <1>4 DEF Matches
  <2>2. core'[m] = core[m] /\ friend'[m] = friend[m]
    BY <1>1, <2>1 DEF BaseFacts
  <2>3. m < friend_list_size'
    BY <1>1, <1>2, <1>4 DEF Matches, Number
  <2> QED
    BY <1>4, <2>1, <2>2, <2>3 DEF Matches, MatchesNext
<1>5. MatchesNext(n) /\ core'[n] = p
  <2>1. n < friend_list_size'
    BY <1>1, <1>2
  <2> QED
    BY <1>1, <2>1, Constants DEF MatchesNext, BaseFacts
<1>6. ASSUME NEW x \in Int, ClaimNext(x)
      PROVE  \/ x = -last /\ NumberNext(x) = n
             \/ Claim(x) /\ NumberNext(x) = NumberAt(x) /\ Matches(NumberAt(x)) /\ NumberAt(x) \in Number
  <2>1. CASE x = -last
    <3>1. x < 0 /\ -x = last
      BY <1>2, <2>1
    <3> QED
      BY <1>2, <2>1, <3>1 DEF NumberNext
  <2>2. CASE x # -last
    <3>1. CASE x \in 1 .. Len(item') /\ item'[x].type = "friend"
      <4>1. x > 0
        BY <3>1
      <4>2. Claim(x) /\ NumberNext(x) = NumberAt(x)
        BY <3>1, <4>1 DEF Claim, NumberNext, NumberAt
      <4> QED
        BY <4>2, ClaimNumber DEF Numbers, Claims, Match
    <3>2. CASE -x \in 1 .. Len(uiq') /\ uiq'[-x].tag \in {"ADDED", "ACCEPTED"}
      <4>1. x < 0 /\ -x \in 1 .. Len(uiq)
        BY <1>2, <2>2, <3>2
      <4>2. uiq[-x].tag \in {"ADDED", "ACCEPTED"} /\ uiq'[-x].number = uiq[-x].number
        BY <1>2, <3>2, <4>1 DEF Moved
      <4>3. Claim(x) /\ NumberNext(x) = NumberAt(x)
        BY <4>1, <4>2 DEF Claim, NumberNext, NumberAt
      <4> QED
        BY <4>3, ClaimNumber DEF Numbers, Claims, Match
    <3> QED
      BY <1>3, <1>6, <3>1, <3>2 DEF ClaimNext
  <2> QED
    BY <2>1, <2>2
<1>7. Once'
  <2>1. ASSUME NEW x \in Int, NEW y \in Int, ClaimNext(x), ClaimNext(y), NumberNext(x) = NumberNext(y)
        PROVE  x = y
    BY <1>4, <1>6, <2>1 DEF Numbers, Claims, Once
  <2> QED
    BY <2>1 DEF Once, Claim, NumberAt, ClaimNext, NumberNext
<1>8. Match'
  <2>1. ASSUME NEW x \in Int, ClaimNext(x) PROVE MatchesNext(NumberNext(x))
    BY <1>4, <1>5, <1>6, <2>1
  <2> QED
    BY <2>1 DEF Match, Matches, Claim, NumberAt, MatchesNext, ClaimNext, NumberNext
<1>9. AddedRight'
  <2> SUFFICES ASSUME NEW k \in 1 .. Len(uiq'), uiq'[k].tag = "ADDED"
               PROVE  uiq'[k].who = core'[uiq'[k].number]
    BY DEF AddedRight
  <2>1. CASE k = last
    BY <1>2, <1>5, <2>1
  <2>2. CASE k # last
    <3>1. k \in 1 .. Len(uiq) /\ uiq'[k] = uiq[k]
      BY <1>2, <2>2 DEF Moved
    <3>2. -k \in Int /\ -k < 0 /\ -(-k) = k
      BY <1>2
    <3>3. Claim(-k) /\ NumberAt(-k) = uiq[k].number
      BY <3>1, <3>2 DEF Claim, NumberAt
    <3>4. Matches(uiq[k].number) /\ uiq[k].number \in Number
      BY <3>2, <3>3, ClaimNumber DEF Numbers, Claims, Match
    <3> QED
      BY <1>4, <3>1, <3>4 DEF Numbers, Claims, AddedRight
  <2> QED
    BY <2>1, <2>2
<1>10. GoneRight' /\ Restarting'
  BY <1>3 DEF GoneRight, Restarting
<1> QED
  BY <1>7, <1>8, <1>9, <1>10 DEF Numbers, Claims

\* The deletion of a friend takes over the claim of the entry.
Passes(i) == [x \in Int |-> IF x > 0 THEN Skips(i)[x] ELSE IF x = 0 THEN i ELSE x]

LEMMA FriendDeletedNumbers ==
    ASSUME BaseFacts, BaseFacts', ListShape, Numbers, NEW i, Deletes(i), item[i].type = "friend"
    PROVE  Numbers'
<1> DEFINE h == Passes(i)
<1>1. /\ i \in 1 .. Len(item) /\ i > 0 /\ item[i].id \in Number /\ tox = "run"
      /\ mailbox' = [tag |-> "DELETE", number |-> friend[item[i].id].number, at |-> item[i].id]
      /\ wanted' = wanted \ {friend[item[i].id].who}
      /\ UNCHANGED <<core, tox, friend, friend_list_size, uiq>>
  BY FreeEntryFacts DEF Deletes, BaseFacts
<1>2. Claim(i) /\ NumberAt(i) = item[i].id
  BY <1>1 DEF Claim, NumberAt
<1>3. friend[item[i].id] = [who |-> core[item[i].id], number |-> item[i].id]
  BY <1>1, <1>2 DEF Numbers, Claims, Match, Matches
<1>4. /\ mailbox'.tag = "DELETE" /\ mailbox'.number = item[i].id
      /\ wanted' = wanted \ {core[item[i].id]}
  BY <1>1, <1>3
<1>5. /\ Len(item') = Len(item) - 1 /\ Len(item) \in Nat
      /\ \A k \in 1 .. Len(item) - 1 : item'[k] = IF k < i THEN item[k] ELSE item[k + 1]
  BY DeletedPage DEF BaseFacts
<1>6. ASSUME NEW x \in Int, ClaimNext(x)
      PROVE  \/ /\ x \in 1 .. Len(item') /\ h[x] = (IF x < i THEN x ELSE x + 1)
                /\ h[x] \in 1 .. Len(item) /\ item'[x] = item[h[x]] /\ item'[x].type = "friend"
             \/ /\ x < 0 /\ h[x] = x /\ -x \in 1 .. Len(uiq)
                /\ uiq[-x].tag \in {"ADDED", "ACCEPTED"}
             \/ x = 0 /\ h[x] = i
  <2>1. CASE x \in 1 .. Len(item') /\ item'[x].type = "friend"
    <3>0. x > 0
      BY <2>1
    <3>1. h[x] = IF x < i THEN x ELSE x + 1
      BY <3>0 DEF Passes, Skips
    <3> QED
      BY <1>1, <1>5, <2>1, <3>1
  <2>2. CASE -x \in 1 .. Len(uiq') /\ uiq'[-x].tag \in {"ADDED", "ACCEPTED"}
    <3>1. x < 0
      BY <2>2
    <3> QED
      BY <1>1, <2>2, <3>1 DEF Passes
  <2>3. CASE x = 0
    BY <2>3 DEF Passes
  <2> QED
    BY <1>6, <2>1, <2>2, <2>3 DEF ClaimNext
<1> HIDE DEF h
<1>7. ASSUME NEW x \in Int, ClaimNext(x)
      PROVE  h[x] \in Int /\ Claim(h[x]) /\ NumberNext(x) = NumberAt(h[x])
  <2>1. CASE /\ x \in 1 .. Len(item') /\ h[x] \in 1 .. Len(item)
             /\ item'[x] = item[h[x]] /\ item'[x].type = "friend"
    <3>1. x > 0 /\ h[x] > 0 /\ h[x] \in Int
      BY <2>1
    <3> QED
      BY <2>1, <3>1 DEF Claim, NumberAt, NumberNext
  <2>2. CASE x < 0 /\ h[x] = x /\ -x \in 1 .. Len(uiq) /\ uiq[-x].tag \in {"ADDED", "ACCEPTED"}
    BY <1>1, <2>2 DEF Claim, NumberAt, NumberNext
  <2>3. CASE x = 0 /\ h[x] = i
    BY <1>1, <1>2, <1>4, <2>3 DEF NumberNext
  <2> QED
    BY <1>6, <1>7, <2>1, <2>2, <2>3
<1>8. ASSUME NEW x \in Int, NEW y \in Int, ClaimNext(x), ClaimNext(y), h[x] = h[y]
      PROVE  x = y
  <2>1. \/ x > 0 /\ h[x] = (IF x < i THEN x ELSE x + 1)
        \/ x < 0 /\ h[x] = x
        \/ x = 0 /\ h[x] = i
    BY <1>6, <1>8
  <2>2. \/ y > 0 /\ h[y] = (IF y < i THEN y ELSE y + 1)
        \/ y < 0 /\ h[y] = y
        \/ y = 0 /\ h[y] = i
    BY <1>6, <1>8
  <2> QED
    BY <1>1, <1>5, <1>8, <2>1, <2>2
<1>9. ClaimsFrom(h)
  BY <1>7, <1>8 DEF ClaimsFrom
<1>10. FriendsStay
  BY <1>1, UnchangedFriends
<1>11. Once' /\ Match'
  BY <1>9, <1>10, OnceFrom DEF Numbers, Claims
<1>12. AddedRight'
  BY <1>1 DEF AddedRight, Numbers, Claims
<1>13. GoneRight'
  BY <1>1, <1>4 DEF GoneRight
<1>14. Restarting'
  BY <1>1, <1>4 DEF Restarting
<1> QED
  BY <1>11, <1>12, <1>13, <1>14 DEF Numbers, Claims

\* The message at the head has a claim.
LEMMA HeadClaims ==
    ASSUME BaseFacts, Numbers, uiq # <<>>, Head(uiq).tag \in {"ADDED", "ACCEPTED"}
    PROVE  /\ Matches(Head(uiq).number) /\ Head(uiq).number \in Number /\ tox = "run"
           /\ Head(uiq).tag = "ADDED" => Head(uiq).who = core[Head(uiq).number]
<1>1. Len(uiq) \in Nat \ {0} /\ Head(uiq) = uiq[1]
  BY TailFacts DEF BaseFacts
<1>2. PICK z \in Int : z = -1 /\ z < 0 /\ -z = 1
  OBVIOUS
<1>3. 1 \in 1 .. Len(uiq)
  BY <1>1
<1>4. Claim(z) /\ NumberAt(z) = Head(uiq).number
  BY <1>1, <1>2, <1>3 DEF Claim, NumberAt
<1>5. Matches(Head(uiq).number) /\ Head(uiq).number \in Number
  BY <1>4, ClaimNumber DEF Numbers, Claims, Match
<1> QED
  BY <1>1, <1>3, <1>5 DEF Numbers, Claims, AddedRight, Restarting

LEMMA EntryNumbers ==
    ASSUME BaseFacts, BaseFacts', Numbers, NEW f, NEW places, EntriesFrom(f, places),
           \A k, l \in places : k = l,
           uiq # <<>>, uiq' = Tail(uiq), Head(uiq).tag \in {"ADDED", "ACCEPTED"},
           \A k \in 1 .. Len(item') : k \in places => item'[k] = Friend(Head(uiq).number),
           UNCHANGED <<mailbox, wanted, core, friend, friend_list_size, tox>>
    PROVE  Numbers'
<1>1. ClaimsFrom(Becomes(f, places))
  BY EntryClaims
<1>2. FriendsStay
  BY UnchangedFriends
<1>3. Once' /\ Match'
  BY <1>1, <1>2, OnceFrom DEF Numbers, Claims
<1>4. MessagesFrom(Skips(1), {})
  BY TailFrom
<1>5. AddedRight'
  BY <1>1, <1>2, <1>4, AddedStays DEF Numbers, Claims
<1>6. GoneRight'
  BY DEF GoneRight, Numbers, Claims
<1>7. Restarting'
  BY <1>4, RestartingStays DEF Numbers
<1> QED
  BY <1>3, <1>5, <1>6, <1>7 DEF Numbers, Claims

LEMMA PutsFriendNumbers ==
    ASSUME BaseFacts, BaseFacts', ListShape, Numbers, PutsFriend, Head(uiq) \in Message
    PROVE  Numbers'
<1> DEFINE n == Head(uiq).number
<1>1. /\ friend[n].number \in Number /\ Friend(friend[n].number) \in Entry
      /\ Put(Friend(friend[n].number)) /\ Head(uiq).tag = "ADDED"
      /\ friend' = [friend EXCEPT ![n].who = Head(uiq).who]
  BY PutsFriendFacts
<1>2. /\ uiq # <<>> /\ uiq' = Tail(uiq)
      /\ UNCHANGED <<mailbox, wanted, core, friend_list_size, tox>>
  BY <1>1 DEF Put
<1>3. /\ n \in Number /\ friend[n] = [who |-> core[n], number |-> n] /\ Head(uiq).who = core[n]
  BY <1>1, <1>2, HeadClaims DEF Matches
<1>4. friend' = friend
  BY <1>1, <1>3 DEF BaseFacts
<1>5. EntriesFrom(Same, {Len(item)}) /\ item'[Len(item)] = Friend(n)
  <2> DEFINE entry == Friend(friend[n].number)
  <2>1. entry \in Entry /\ Put(entry)
    BY <1>1
  <2>2. entry = Friend(n)
    BY <1>3
  <2> HIDE DEF entry
  <2> QED
    BY <2>1, <2>2, PutFrom, PutFacts
<1> HIDE DEF n
<1>6. \A k \in 1 .. Len(item') : k \in {Len(item)} => item'[k] = Friend(Head(uiq).number)
  BY <1>5 DEF n
<1> QED
  BY <1>1, <1>2, <1>4, <1>5, <1>6, EntryNumbers

LEMMA TurnsNumbers ==
    ASSUME BaseFacts, BaseFacts', Numbers, Turns
    PROVE  Numbers'
<1> DEFINE places == PlaceOf(Head(uiq).at)
<1>1. EntriesFrom(Same, places)
  BY TurnedFrom
<1>2. \A k, l \in places : k = l
  BY PlaceAlone
<1>3. /\ uiq # <<>> /\ uiq' = Tail(uiq) /\ Head(uiq).tag = "ACCEPTED"
      /\ UNCHANGED <<mailbox, wanted, core, friend, friend_list_size, tox>>
  BY DEF Turns
<1>4. friend[Head(uiq).number].number = Head(uiq).number
  BY <1>3, HeadClaims DEF Matches
<1>5. \A k \in 1 .. Len(item') : k \in places => item'[k] = Friend(Head(uiq).number)
  BY <1>4, TurnsFacts
<1> HIDE DEF places
<1> QED
  BY <1>1, <1>2, <1>3, <1>5, EntryNumbers

LEMMA StepNumbered == Base /\ Base' /\ Numbered /\ [Next]_vars => Numbered'
<1> SUFFICES ASSUME Base, Base', Numbered, [Next]_vars, odd' \cap {"reused", "crossed"} = {}
             PROVE  Numbers'
  BY DEF Numbered
<1>0. BaseFacts /\ BaseFacts' /\ ListShape /\ ListShape' /\ CountCovers
  BY BaseGives, BaseGivesNext DEF Base
<1>a. Numbers
  BY <1>0, OddGrows DEF Numbered
<1>1. CASE UserStep
  <2>1. CASE Minds
    BY <1>0, <1>a, <2>1, MindsNumbers
  <2>2. CASE \E i \in Int : Deletes(i)
    <3>1. PICK i \in Int : Deletes(i)
      BY <2>2
    <3>2. item[i].type \in {"friend", "request"}
      BY <3>1 DEF Deletes
    <3> QED
      BY <1>0, <1>a, <3>1, <3>2, FriendDeletedNumbers, RequestDeletedNumbers
  <2>3. CASE \E i, j \in 1 .. Len(item) : Drag(i, j)
    BY <1>0, <1>a, <2>3, DragNumbers
  <2>4. CASE ChangeSettings
    BY <1>0, <1>a, <2>4, SettingsNumbers
  <2> QED
    BY <1>0, <1>1, <2>1, <2>2, <2>3, <2>4, UserMinds
<1>2. CASE Receive
  <2>1. Head(uiq) \in Message
    BY <1>0, <1>2, ReceiveCases
  <2>2. CASE Dropped
    BY <1>0, <1>a, <2>2, DroppedNumbers
  <2>3. CASE PutsRequest
    BY <1>0, <1>a, <2>1, <2>3, PutsRequestNumbers
  <2>4. CASE PutsFriend
    BY <1>0, <1>a, <2>1, <2>4, PutsFriendNumbers
  <2>5. CASE Turns
    BY <1>0, <1>a, <2>5, TurnsNumbers
  <2>6. CASE Freed
    BY <1>0, <1>a, <2>6, FreedNumbers
  <2> QED
    BY <1>0, <1>2, <2>2, <2>3, <2>4, <2>5, <2>6, ReceiveCases
<1>3. CASE DrawFault
  BY <1>0, <1>a, <1>3, FaultMinds, MindsNumbers
<1>4. CASE Shrink \/ LeaveSpin \/ UNCHANGED vars
  BY <1>0, <1>a, <1>4, SameNumbers DEF Shrink, LeaveSpin, vars
<1>5. CASE ToxStep
  <2>1. CASE \E p \in Person : FriendRequest(p)
    BY <1>0, <1>a, <2>1, FriendRequestNumbers
  <2>2. CASE HandleNew
    <3> DEFINE msg(n) == [tag |-> "ADDED", number |-> n, who |-> mailbox.who]
    <3>1. CASE \E n \in Number : Befriended(mailbox.who, n, msg(n))
      <4>1. PICK n \in Number : Befriended(mailbox.who, n, msg(n))
        BY <3>1
      <4>2. msg(n).tag = "ADDED" /\ msg(n).number = n /\ msg(n).who = mailbox.who
        OBVIOUS
      <4>3. tox = "run" /\ tox' = "run" /\ mailbox.who \in Person /\ mailbox.tag = "ADD"
            /\ mailbox' = Empty /\ item' = item
        BY <1>0, <2>2, HandleNewCases DEF ToxRuns
      <4> HIDE DEF msg
      <4> QED
        BY <1>0, <1>a, <4>1, <4>2, <4>3, BefriendedNumbers
    <3> QED
      BY <1>0, <1>a, <2>2, <3>1, HandleNewCases, HandledNumbers
  <2>3. CASE HandleAccept
    <3> DEFINE p == frequests[mailbox.at]
               msg(n) == [tag |-> "ACCEPTED", number |-> n, at |-> mailbox.at]
    <3>1. CASE p \in Person /\ \E n \in Number : Befriended(p, n, msg(n))
      <4>1. PICK n \in Number : Befriended(p, n, msg(n))
        BY <3>1
      <4>2. msg(n).tag = "ACCEPTED" /\ msg(n).number = n
        OBVIOUS
      <4>3. tox = "run" /\ tox' = "run" /\ mailbox.tag = "ACCEPT" /\ mailbox' = Empty /\ item' = item
        BY <1>0, <2>3, HandleAcceptCases DEF HandleAccept, ToxRuns
      <4> HIDE DEF msg, p
      <4> QED
        BY <1>0, <1>a, <3>1, <4>1, <4>2, <4>3, BefriendedNumbers
    <3> QED
      BY <1>0, <1>a, <2>3, <3>1, HandleAcceptCases, HandledNumbers
  <2>4. CASE HandleDelete
    BY <1>0, <1>a, <2>4, HandleDeleteNumbers
  <2>5. CASE HandleKill
    BY <1>0, <1>a, <2>5, HandleKillNumbers
  <2>6. CASE InitTox
    BY <1>0, <1>a, <2>6, InitNumbers
  <2>7. CASE FlistStart
    BY <1>0, <1>a, <2>7, StartNumbers
  <2> QED
    BY <1>5, <2>1, <2>2, <2>3, <2>4, <2>5, <2>6, <2>7 DEF ToxStep
<1> QED
  BY <1>1, <1>2, <1>3, <1>4, <1>5 DEF Next

LEMMA FirstNumbered == Init => Numbered
<1> SUFFICES ASSUME Init PROVE Numbers
  BY DEF Numbered
<1>1. /\ item = <<CreateGroup>> /\ uiq = <<>> /\ mailbox = Empty /\ tox = "run"
      /\ Len(item) = 1 /\ item[1] = CreateGroup
  BY DEF Init
<1>2. \A x \in Int : ~Claim(x)
  BY <1>1, NewEntries, NewCommands DEF Claim
<1>3. mailbox.tag = "none"
  BY <1>1, NewCommands
<1> QED
  BY <1>1, <1>2, <1>3 DEF Numbers, Claims, Once, Match, AddedRight, GoneRight, Restarting

\* A friend that toxcore loses is the one whose deletion was posted.
LEMMA LostChosen ==
    ASSUME Base, Numbers, Next, NEW p \in Friends \ Friends'
    PROVE  p \notin wanted
<1>0. BaseFacts /\ ListShape
  BY BaseGives DEF Base
<1>1. PICK n \in Number : core[n] = p /\ p # Nobody
  BY DEF Friends
<1>2. core'[n] # p
  BY <1>1 DEF Friends
<1>3. ASSUME NEW q, NEW m \in Number, core[m] = Nobody, core' = [core EXCEPT ![m] = q] PROVE FALSE
  BY <1>0, <1>1, <1>2, <1>3 DEF BaseFacts
<1>4. ASSUME HandleDelete PROVE p \notin wanted
  <2>1. mailbox.tag = "DELETE" /\ core' = [core EXCEPT ![mailbox.number] = Nobody]
    BY <1>4 DEF HandleDelete
  <2>2. n = mailbox.number
    BY <1>0, <1>1, <1>2, <2>1 DEF BaseFacts
  <2> QED
    BY <1>1, <2>1, <2>2 DEF Numbers, Claims, GoneRight
<1>5. ASSUME InitTox PROVE FALSE
  <2>1. PICK at \in Saved :
          core' = [m \in Number |-> IF m \in DOMAIN at THEN core[at[m]] ELSE Nobody]
    BY <1>0, <1>5, InitFacts
  <2>2. n \in Taken
    BY <1>1 DEF Taken
  <2>3. PICK m \in 0 .. Cardinality(Taken) - 1 : at[m] = n
    BY <2>2 DEF Saved, Bijection, Surjection
  <2>4. m \in DOMAIN at
    BY DEF Saved, Bijection, Injection
  <2>5. m \in Number
    BY <1>0, TakenCount DEF BaseFacts
  <2>6. core'[m] = p
    BY <1>1, <2>1, <2>3, <2>4, <2>5
  <2> QED
    BY <1>1, <2>5, <2>6 DEF Friends
<1>6. ASSUME HandleNew PROVE FALSE
  <2>1. CASE Handled
    BY <1>1, <1>2, <2>1 DEF Handled
  <2>2. CASE \E m \in Number : Befriended(mailbox.who, m,
                [tag |-> "ADDED", number |-> m, who |-> mailbox.who])
    BY <1>3, <2>2 DEF Befriended, Free
  <2> QED
    BY <1>0, <1>6, <2>1, <2>2, HandleNewCases
<1>7. ASSUME HandleAccept PROVE FALSE
  <2>1. CASE Handled
    BY <1>1, <1>2, <2>1 DEF Handled
  <2>2. CASE \E m \in Number : Befriended(frequests[mailbox.at], m,
                [tag |-> "ACCEPTED", number |-> m, at |-> mailbox.at])
    BY <1>3, <2>2 DEF Befriended, Free
  <2> QED
    BY <1>0, <1>7, <2>1, <2>2, HandleAcceptCases
<1>8. core' # core
  BY <1>1, <1>2
<1>9. ASSUME UserStep PROVE FALSE
  <2>1. CASE Minds
    BY <1>8, <2>1 DEF Minds
  <2>2. CASE \E i \in Int : Deletes(i)
    BY <1>8, <2>2 DEF Deletes
  <2>3. CASE \E i, j \in 1 .. Len(item) : Drag(i, j)
    BY <1>8, <2>3 DEF Drag
  <2>4. CASE ChangeSettings
    BY <1>8, <2>4 DEF ChangeSettings
  <2> QED
    BY <1>0, <1>9, <2>1, <2>2, <2>3, <2>4, UserMinds
<1>10. ASSUME Receive \/ DrawFault \/ Shrink \/ LeaveSpin PROVE FALSE
  BY <1>8, <1>10 DEF Receive, DrawFault, Fault, Shrink, LeaveSpin
<1>11. ASSUME (\E q \in Person : FriendRequest(q)) \/ HandleKill \/ FlistStart PROVE FALSE
  BY <1>8, <1>11 DEF FriendRequest, HandleKill, FlistStart
<1> QED
  BY <1>4, <1>5, <1>6, <1>7, <1>9, <1>10, <1>11 DEF Next, ToxStep

LEMMA StepChosen ==
    Base /\ Numbered /\ [Next]_vars =>
        [\A p \in Friends \ Friends' : p \notin wanted \/ odd \cap {"reused", "crossed"} # {}]_vars
<1> SUFFICES ASSUME Base, Numbered, Next, odd \cap {"reused", "crossed"} = {},
                    NEW p \in Friends \ Friends'
             PROVE  p \notin wanted
  OBVIOUS
<1> QED
  BY LostChosen DEF Numbered

\* toxcore only loses friends that the user chose to delete, whatever is on its way
\* between the threads when the user does: the FRIEND that deleteitem takes the
\* number from is the friend's, whoever came or left since the entry was made.
THEOREM OnlyTheChosenGo == Spec => OnlyTheChosen
<1>1. Init => Base /\ Numbered
  BY FirstBase, FirstNumbered
<1>2. Base /\ Numbered /\ [Next]_vars => (Base /\ Numbered)'
  BY StepBase, StepNumbered
<1> QED
  BY <1>1, <1>2, StepChosen, PTL DEF Spec, OnlyTheChosen

-----------------------------------------------------------------------------
(* The list, the FRIENDs and toxcore's friends *)

\* Nothing odd has happened that makes them differ for good.
Calm == Alive /\ odd \subseteq {"restart", "jumped", "displaced", "beyond"}

\* A number is a friend's: an entry, a message that will make one, or the deletion.
Has(n) ==
    \/ \E i \in 1 .. Len(item) : item[i] = Friend(n)
    \/ \E k \in 1 .. Len(uiq) : uiq[k].tag \in {"ADDED", "ACCEPTED"} /\ uiq[k].number = n
    \/ mailbox.tag = "DELETE" /\ mailbox.number = n

HasNext(n) ==
    \/ \E i \in 1 .. Len(item') : item'[i] = Friend(n)
    \/ \E k \in 1 .. Len(uiq') : uiq'[k].tag \in {"ADDED", "ACCEPTED"} /\ uiq'[k].number = n
    \/ mailbox'.tag = "DELETE" /\ mailbox'.number = n

\* No friend is forgotten.
NoneForgotten ==
    /\ tox = "run" /\ mailbox.tag # "KILL" => \A n \in Number : core[n] # Nobody => Has(n)
    /\ tox = "up" => \A n \in Number : core[n] # Nobody => n < friend_list_size

\* No one is a friend twice.
FriendsDiffer == \A m, n \in Number : core[m] = core[n] /\ core[m] # Nobody => m = n

RequestListed(r) == \E i \in 1 .. Len(item) : item[i] = Request(r)

\* The request that is accepted is listed until its friend takes the entry.
AcceptsListed ==
    /\ mailbox.tag = "ACCEPT" /\ mailbox.at > 0 =>
          RequestListed(mailbox.at) \/ frequests[mailbox.at] \in Friends
    /\ \A k \in 1 .. Len(uiq) : uiq[k].tag = "ACCEPTED" /\ uiq[k].at # Dangling =>
          RequestListed(uiq[k].at) /\ frequests[uiq[k].at] = core[uiq[k].number]

\* Who comes and who goes when the message in the slot is handled.
Comes(p) ==
    \/ mailbox.tag = "ADD" /\ p = mailbox.who
    \/ mailbox.tag = "ACCEPT" /\ mailbox.at > 0 /\ p = frequests[mailbox.at]
Goes(p) == mailbox.tag = "DELETE" /\ p = core[mailbox.number]

\* The user gets the friends that were asked for.
WantedComes ==
    \/ mailbox.tag = "ACCEPT" /\ mailbox.at = Dangling
    \/ \A p \in Person : p \in wanted <=> (p \in Friends /\ ~Goes(p)) \/ Comes(p)

CountExact == friend_list_count = Owed

Agree == FriendsDiffer /\ NoneForgotten /\ AcceptsListed /\ WantedComes /\ CountExact

Agreed == Calm => Agree

LEMMA CalmBefore ==
    ASSUME BaseFacts, ListShape, [Next]_vars, Calm'
    PROVE  Calm
<1>1. odd \subseteq odd'
  BY OddGrows
<1>2. ASSUME Next PROVE Alive
  <2>1. ASSUME UserStep PROVE Alive
    <3>1. CASE Minds
      BY <3>1 DEF Minds
    <3>2. CASE \E i \in Int : Deletes(i) /\ Looping
      BY <3>2 DEF Looping
    <3>3. CASE \E i, j \in 1 .. Len(item) : Drag(i, j)
      BY <3>3 DEF Drag, Looping
    <3>4. CASE ChangeSettings
      BY <3>4 DEF ChangeSettings, Looping
    <3> QED
      BY <2>1, <3>1, <3>2, <3>3, <3>4, UserMinds
  <2>2. ASSUME Receive \/ DrawFault \/ Shrink \/ LeaveSpin PROVE Alive
    BY <2>2 DEF Receive, DrawFault, Shrink, LeaveSpin, Looping
  <2>3. ASSUME ToxStep PROVE Alive
    BY <2>3 DEF ToxStep, FriendRequest, HandleNew, HandleAccept, HandleDelete, HandleKill, InitTox,
            FlistStart, ToxRuns
  <2> QED
    BY <1>2, <2>1, <2>2, <2>3 DEF Next
<1>3. Alive
  <2>1. CASE UNCHANGED vars
    BY <2>1 DEF vars, Calm, Alive
  <2> QED
    BY <1>2, <2>1
<1> QED
  BY <1>1, <1>3 DEF Calm

-----------------------------------------------------------------------------
(* No friend is forgotten *)

\* The entries and the messages that stay.
EntriesGoOn ==
    \A i \in 1 .. Len(item) : item[i].type \in {"friend", "request"} =>
        \E j \in 1 .. Len(item') : item'[j] = item[i]
MessagesGoOn ==
    \A k \in 1 .. Len(uiq) : uiq[k].tag \in {"ADDED", "ACCEPTED"} =>
        \E l \in 1 .. Len(uiq') : Moved(uiq[k], uiq'[l])

LEMMA HasStill ==
    ASSUME EntriesGoOn, MessagesGoOn, mailbox.tag = "DELETE" => mailbox' = mailbox,
           NEW n, Has(n)
    PROVE  HasNext(n)
<1>1. CASE \E i \in 1 .. Len(item) : item[i] = Friend(n)
  BY <1>1, NewEntries DEF EntriesGoOn, HasNext
<1>2. CASE \E k \in 1 .. Len(uiq) : uiq[k].tag \in {"ADDED", "ACCEPTED"} /\ uiq[k].number = n
  <2>1. PICK k \in 1 .. Len(uiq) : uiq[k].tag \in {"ADDED", "ACCEPTED"} /\ uiq[k].number = n
    BY <1>2
  <2>2. PICK l \in 1 .. Len(uiq') : Moved(uiq[k], uiq'[l])
    BY <2>1 DEF MessagesGoOn
  <2>3. uiq'[l].tag \in {"ADDED", "ACCEPTED"} /\ uiq'[l].number = n
    BY <2>1, <2>2 DEF Moved
  <2> QED
    BY <2>3 DEF HasNext
<1>3. CASE mailbox.tag = "DELETE" /\ mailbox.number = n
  BY <1>3 DEF HasNext
<1> QED
  BY <1>1, <1>2, <1>3 DEF Has

LEMMA ForgottenNone ==
    ASSUME NoneForgotten, UNCHANGED <<core, tox, friend_list_size>>,
           mailbox.tag = "KILL" => mailbox'.tag = "KILL",
           \A n \in Number : Has(n) => HasNext(n)
    PROVE  NoneForgotten'
<1>1. ASSUME tox' = "run", mailbox'.tag # "KILL", NEW n \in Number, core'[n] # Nobody
      PROVE  HasNext(n)
  BY <1>1 DEF NoneForgotten
<1>2. ASSUME tox' = "up", NEW n \in Number, core'[n] # Nobody
      PROVE  n < friend_list_size'
  BY <1>2 DEF NoneForgotten
<1> QED
  BY <1>1, <1>2 DEF NoneForgotten, Has, HasNext

LEMMA AllGoOn == ASSUME item' = item PROVE EntriesGoOn
  BY DEF EntriesGoOn

LEMMA QueueGoesOn == ASSUME BaseFacts, uiq' = uiq PROVE MessagesGoOn
  BY SameMessage DEF MessagesGoOn, BaseFacts

LEMMA TailGoesOn ==
    ASSUME BaseFacts, uiq # <<>>, uiq' = Tail(uiq), Head(uiq).tag \notin {"ADDED", "ACCEPTED"}
    PROVE  MessagesGoOn
<1> SUFFICES ASSUME NEW k \in 1 .. Len(uiq), uiq[k].tag \in {"ADDED", "ACCEPTED"}
             PROVE  \E l \in 1 .. Len(uiq') : Moved(uiq[k], uiq'[l])
  BY DEF MessagesGoOn
<1>1. /\ Len(uiq) \in Nat /\ Len(uiq') = Len(uiq) - 1 /\ Head(uiq) = uiq[1]
      /\ \A l \in 1 .. Len(uiq) - 1 : uiq'[l] = uiq[l + 1]
  BY TailFacts DEF BaseFacts
<1>2. k - 1 \in 1 .. Len(uiq) - 1 /\ (k - 1) + 1 = k
  BY <1>1
<1>3. uiq'[k - 1] = uiq[k]
  BY <1>1, <1>2
<1>4. Moved(uiq[k], uiq[k])
  BY SameMessage DEF BaseFacts
<1> QED
  BY <1>1, <1>2, <1>3, <1>4

LEMMA ToldGoesOn ==
    ASSUME BaseFacts, NEW msg, Told(msg)
    PROVE  MessagesGoOn
  BY DEF Told, MessagesGoOn, BaseFacts

LEMMA DeletedGoOn ==
    ASSUME BaseFacts, ListShape, NEW i, Deletes(i), NEW k \in 1 .. Len(item), k # i
    PROVE  \E j \in 1 .. Len(item') : item'[j] = item[k]
<1>1. /\ i \in 1 .. Len(item) - 1 /\ Len(item) \in Nat /\ Len(item') = Len(item) - 1
      /\ \A j \in 1 .. Len(item) - 1 : item'[j] = IF j < i THEN item[j] ELSE item[j + 1]
  BY DeletedPage DEF Deletes, BaseFacts
<1>2. CASE k < i
  BY <1>1, <1>2
<1>3. CASE k > i
  <2>1. k - 1 \in 1 .. Len(item') /\ ~(k - 1 < i) /\ (k - 1) + 1 = k
    BY <1>1, <1>3
  <2>2. item'[k - 1] = item[k]
    BY <1>1, <2>1
  <2> QED
    BY <2>1, <2>2
<1> QED
  BY <1>1, <1>2, <1>3

LEMMA DraggedGoOn ==
    ASSUME BaseFacts, NEW i \in 1 .. Len(item), NEW j \in 1 .. Len(item), Drag(i, j)
    PROVE  EntriesGoOn
<1> SUFFICES ASSUME NEW k \in 1 .. Len(item) PROVE \E l \in 1 .. Len(item') : item'[l] = item[k]
  BY DEF EntriesGoOn
<1>1. /\ Len(item') = Len(item) /\ i # j
      /\ \A l \in 1 .. Len(item) :
            item'[l] = IF l = i THEN item[j] ELSE IF l = j THEN item[i] ELSE item[l]
  BY DragFacts
<1>2. CASE k = i
  BY <1>1, <1>2
<1>3. CASE k = j
  BY <1>1, <1>3
<1>4. CASE k # i /\ k # j
  BY <1>1, <1>4
<1> QED
  BY <1>2, <1>3, <1>4

LEMMA PutGoesOn ==
    ASSUME BaseFacts, ListShape, NEW entry \in Entry, Put(entry)
    PROVE  EntriesGoOn
<1> SUFFICES ASSUME NEW k \in 1 .. Len(item), item[k].type \in {"friend", "request"}
             PROVE  \E l \in 1 .. Len(item') : item'[l] = item[k]
  BY DEF EntriesGoOn
<1>1. /\ Len(item) \in Nat \ {0} /\ Len(item') = Len(item) + 1
      /\ \A l \in 1 .. Len(item) - 1 : item'[l] = item[l]
      /\ item[Len(item)].type \notin {"friend", "request"}
  BY PutFacts
<1>2. k \in 1 .. Len(item) - 1
  BY <1>1
<1> QED
  BY <1>1, <1>2

-----------------------------------------------------------------------------
(* The requests that are accepted, and whom the user wants *)

RequestListedNext(r) == \E i \in 1 .. Len(item') : item'[i] = Request(r)

FrequestsGoOn == \A r \in Nat \ {0} : Kept(r) => frequests'[r] = frequests[r]

\* An ACCEPT in the slot may have lost its request.
MailMoves ==
    \/ mailbox' = mailbox
    \/ mailbox.tag = "ACCEPT" /\ mailbox'.tag = "ACCEPT" /\ mailbox'.at \in {mailbox.at, Dangling}

LEMMA ListedStill ==
    ASSUME EntriesGoOn, NEW r, RequestListed(r)
    PROVE  RequestListedNext(r)
  BY NewEntries DEF EntriesGoOn, RequestListed, RequestListedNext

LEMMA ListedKept ==
    ASSUME BaseFacts, AllKept, NEW r, RequestListed(r)
    PROVE  Kept(r)
  BY NewEntries DEF RequestListed, AllKept

LEMMA AcceptsStay ==
    ASSUME BaseFacts, BaseFacts', AllKept, MailKept, AcceptsListed, core' = core,
           \A r \in Nat \ {0} : RequestListed(r) /\ AcceptingNext(r) => RequestListedNext(r),
           FrequestsGoOn, MailOld, NEW g, NEW ends, MessagesFrom(g, ends),
           \A k \in 1 .. Len(uiq') : k \in ends => uiq'[k].tag # "ACCEPTED"
    PROVE  AcceptsListed'
<1>1. ASSUME mailbox'.tag = "ACCEPT", mailbox'.at > 0
      PROVE  RequestListedNext(mailbox'.at) \/ frequests'[mailbox'.at] \in Friends'
  <2>1. mailbox.tag = "ACCEPT" /\ mailbox'.at = mailbox.at /\ mailbox.at \in Nat \ {0}
    BY <1>1, CommandFacts DEF MailOld, Dangling, BaseFacts
  <2>2. frequests'[mailbox.at] = frequests[mailbox.at]
    BY <2>1 DEF MailKept, FrequestsGoOn
  <2>3. AcceptingNext(mailbox.at)
    BY <1>1, <2>1 DEF AcceptingNext
  <2> QED
    BY <2>1, <2>2, <2>3 DEF AcceptsListed, Friends
<1>2. ASSUME NEW k \in 1 .. Len(uiq'), uiq'[k].tag = "ACCEPTED", uiq'[k].at # Dangling
      PROVE  RequestListedNext(uiq'[k].at) /\ frequests'[uiq'[k].at] = core'[uiq'[k].number]
  <2>1. g[k] \in 1 .. Len(uiq) /\ Moved(uiq[g[k]], uiq'[k])
    BY <1>2 DEF MessagesFrom
  <2>2. /\ uiq[g[k]].tag = "ACCEPTED" /\ uiq'[k].at = uiq[g[k]].at
        /\ uiq'[k].number = uiq[g[k]].number
    BY <1>2, <2>1 DEF Moved
  <2>3. uiq'[k].at \in Nat \ {0}
    BY <1>2, MessageFacts DEF BaseFacts
  <2>4. RequestListed(uiq'[k].at) /\ frequests[uiq'[k].at] = core[uiq'[k].number]
    BY <1>2, <2>1, <2>2 DEF AcceptsListed
  <2>5. frequests'[uiq'[k].at] = frequests[uiq'[k].at]
    BY <2>3, <2>4, ListedKept DEF FrequestsGoOn
  <2>6. AcceptingNext(uiq'[k].at)
    BY <1>2 DEF AcceptingNext
  <2> QED
    BY <2>3, <2>4, <2>5, <2>6
<1> QED
  BY <1>1, <1>2 DEF AcceptsListed, RequestListed, RequestListedNext

LEMMA WantedStay ==
    ASSUME BaseFacts, MailKept, WantedComes, UNCHANGED <<core, wanted>>, MailMoves, FrequestsGoOn
    PROVE  WantedComes'
<1>1. CASE mailbox.tag = "ACCEPT" /\ mailbox.at = Dangling
  BY <1>1 DEF MailMoves, WantedComes
<1>2. CASE mailbox'.tag = "ACCEPT" /\ mailbox'.at = Dangling
  BY <1>2 DEF WantedComes
<1>3. CASE /\ mailbox'.tag = mailbox.tag /\ mailbox.tag = "ACCEPT" /\ mailbox'.at = mailbox.at
           /\ mailbox.at # Dangling
  <2>1. mailbox.at \in Nat
    BY <1>3, CommandFacts DEF BaseFacts
  <2>2. mailbox.at > 0 => frequests'[mailbox.at] = frequests[mailbox.at]
    BY <1>3, <2>1 DEF MailKept, FrequestsGoOn
  <2> QED
    BY <1>3, <2>2 DEF WantedComes, Comes, Goes, Friends
<1>4. CASE mailbox' = mailbox /\ mailbox.tag # "ACCEPT"
  BY <1>4 DEF WantedComes, Comes, Goes, Friends
<1> QED
  BY <1>1, <1>2, <1>3, <1>4 DEF MailMoves

\* Of a step that leaves the friends alone.
LEMMA PlainAgree ==
    ASSUME BaseFacts, BaseFacts', AllKept, MailKept, Agree, EntriesGoOn, MessagesGoOn,
           FrequestsGoOn, MailMoves, NEW g, NEW ends, MessagesFrom(g, ends),
           \A k \in 1 .. Len(uiq') : k \in ends => uiq'[k].tag # "ACCEPTED",
           UNCHANGED <<core, tox, friend_list_size, wanted>>, CountExact'
    PROVE  Agree'
<1>1. FriendsDiffer'
  BY DEF Agree, FriendsDiffer
<1>2. NoneForgotten'
  <2>1. \A n \in Number : Has(n) => HasNext(n)
    BY HasStill DEF MailMoves
  <2> QED
    BY <2>1, ForgottenNone DEF MailMoves, Agree
<1>3. AcceptsListed'
  <2>1. MailOld
    BY DEF MailMoves, MailOld
  <2> QED
    BY <2>1, ListedStill, AcceptsStay DEF Agree
<1>4. WantedComes'
  BY WantedStay DEF Agree
<1> QED
  BY <1>1, <1>2, <1>3, <1>4 DEF Agree

LEMMA FrequestsSame == ASSUME frequests' = frequests PROVE FrequestsGoOn
  BY DEF FrequestsGoOn

LEMMA SameAgree ==
    ASSUME BaseFacts, BaseFacts', AllKept, MailKept, Agree, FrequestsGoOn,
           UNCHANGED <<core, tox, friend_list_size, friend_list_count, wanted, item, uiq, mailbox>>
    PROVE  Agree'
<1>1. EntriesGoOn /\ MessagesGoOn /\ MessagesFrom(Same, {}) /\ MailMoves
  BY AllGoOn, QueueGoesOn, SameMessages DEF MailMoves
<1>2. CountExact'
  BY OwedSame DEF Agree, CountExact
<1> QED
  BY <1>1, <1>2, PlainAgree

LEMMA ShrinkAgree ==
    ASSUME BaseFacts, BaseFacts', AllKept, MailKept, Agree, Shrink
    PROVE  Agree'
<1>1. FrequestsGoOn
  <2>1. CASE Len(frequests) > 1
    <3>1. frequests' = SubSeq(frequests, 1, Len(frequests) - 1) /\ ui = "shrink"
      BY <2>1 DEF Shrink, Front
    <3>2. frequests # <<>>
      BY <2>1
    <3>3. /\ Len(frequests) \in Nat
          /\ \A r \in 1 .. Len(frequests) - 1 : frequests'[r] = frequests[r]
      BY <3>1, <3>2, FrontFacts DEF BaseFacts
    <3> QED
      BY <3>1, <3>3 DEF FrequestsGoOn, Kept
  <2>2. CASE ~(Len(frequests) > 1)
    BY <2>2 DEF Shrink, FrequestsGoOn
  <2> QED
    BY <2>1, <2>2
<1> QED
  BY <1>1, SameAgree DEF Shrink

LEMMA DragAgree ==
    ASSUME BaseFacts, BaseFacts', AllKept, MailKept, Agree,
           NEW i \in 1 .. Len(item), NEW j \in 1 .. Len(item), Drag(i, j)
    PROVE  Agree'
<1>1. UNCHANGED <<core, tox, friend_list_size, friend_list_count, wanted, uiq, mailbox, frequests>>
  BY DragFacts
<1>2. EntriesGoOn /\ MessagesGoOn /\ MessagesFrom(Same, {}) /\ MailMoves /\ FrequestsGoOn
  BY <1>1, DraggedGoOn, QueueGoesOn, SameMessages, FrequestsSame DEF MailMoves
<1>3. CountExact'
  <2>0. /\ item' \in Seq(Entry) /\ Len(item') = Len(item)
        /\ item[i].type = "friend" /\ item[j].type = "friend" /\ i # j
        /\ \A k \in 1 .. Len(item) :
              item'[k] = IF k = i THEN item[j] ELSE IF k = j THEN item[i] ELSE item[k]
    BY DragFacts
  <2>1. DOMAIN item = 1 .. Len(item) /\ DOMAIN item' = 1 .. Len(item)
    BY <2>0 DEF BaseFacts
  <2>2. \A k \in 1 .. Len(item) : item'[k].type = "friend" <=> item[k].type = "friend"
    <3>1. TAKE k \in 1 .. Len(item)
    <3>3. CASE k = i
      BY <2>0, <3>3
    <3>4. CASE k # i /\ k = j
      BY <2>0, <3>4
    <3>5. CASE k # i /\ k # j
      BY <2>0, <3>5
    <3> QED
      BY <3>3, <3>4, <3>5
  <2>3. FriendEntries' = FriendEntries
    BY <2>1, <2>2 DEF FriendEntries
  <2> QED
    BY <1>1, <2>3 DEF Owed, OnTheWay, CountExact, Agree
<1> QED
  BY <1>1, <1>2, <1>3, PlainAgree

LEMMA PutsRequestAgree ==
    ASSUME BaseFacts, BaseFacts', ListShape, AllKept, MailKept, Agree, PutsRequest, Head(uiq) \in Message
    PROVE  Agree'
<1> DEFINE entry == Request(Head(uiq).at)
<1>1. entry \in Entry /\ entry.type = "request"
  BY MessageFacts, NewEntries DEF PutsRequest
<1>2. Put(entry) /\ Head(uiq).tag = "INCOMING"
  BY DEF PutsRequest
<1> HIDE DEF entry
<1>3. /\ uiq # <<>> /\ uiq' = Tail(uiq)
      /\ UNCHANGED <<core, tox, friend_list_size, friend_list_count, wanted, mailbox, frequests>>
  BY <1>2 DEF Put
<1>4. EntriesGoOn /\ MessagesGoOn /\ MessagesFrom(Skips(1), {}) /\ MailMoves /\ FrequestsGoOn
  BY <1>1, <1>2, <1>3, PutGoesOn, TailGoesOn, TailFrom, FrequestsSame DEF MailMoves
<1>5. CountExact'
  <2>1. Cardinality(OnTheWay') = Cardinality(OnTheWay)
    BY <1>2, <1>3, TailWay
  <2>2. Cardinality(FriendEntries') = Cardinality(FriendEntries)
    BY <1>1, <1>2, PutEntries
  <2> QED
    BY <1>3, <2>1, <2>2 DEF CountExact, Owed, Agree
<1> QED
  BY <1>3, <1>4, <1>5, PlainAgree

LEMMA FreedAgree ==
    ASSUME BaseFacts, BaseFacts', AllKept, MailKept, Agree, Freed
    PROVE  Agree'
<1>1. /\ uiq # <<>> /\ uiq' = Tail(uiq) /\ Head(uiq).tag = "REMOVE"
      /\ friend_list_count' = friend_list_count - 1
      /\ UNCHANGED <<core, tox, friend_list_size, wanted, mailbox, frequests, item>>
  BY DEF Freed
<1>2. EntriesGoOn /\ MessagesGoOn /\ MessagesFrom(Skips(1), {}) /\ MailMoves /\ FrequestsGoOn
  BY <1>1, AllGoOn, TailGoesOn, TailFrom, FrequestsSame DEF MailMoves
<1>3. CountExact'
  <2>1. Cardinality(OnTheWay') = Cardinality(OnTheWay) - 1
    BY <1>1, TailWay
  <2>2. FriendEntries' = FriendEntries
    BY <1>1 DEF FriendEntries
  <2>4. /\ Cardinality(FriendEntries) \in Nat /\ Cardinality(OnTheWay) \in Nat
        /\ friend_list_size \in Nat
    BY CountTypes, Constants DEF BaseFacts
  <2>3. Owed' = Owed - 1
    BY <1>1, <2>1, <2>2, <2>4 DEF Owed
  <2> QED
    BY <1>1, <2>3 DEF CountExact, Agree
<1> QED
  BY <1>1, <1>2, <1>3, PlainAgree

LEMMA FriendRequestAgree ==
    ASSUME BaseFacts, BaseFacts', AllKept, MailKept, Agree, NEW p \in Person, FriendRequest(p), Alive'
    PROVE  Agree'
<1> DEFINE msg == [tag |-> "INCOMING", at |-> Len(frequests) + 1]
<1>1. /\ UNCHANGED <<core, tox, friend_list_size, friend_list_count, item, wanted>>
      /\ frequests' = Append(frequests, p)
      /\ Told(msg) /\ mailbox'.tag = mailbox.tag
      /\ mailbox.tag # "ACCEPT" => mailbox' = mailbox
      /\ mailbox.tag = "ACCEPT" => mailbox'.at \in {mailbox.at, Stale(mailbox.at)}
  BY FriendRequestFacts DEF Alive
<1>2. msg.tag = "INCOMING"
  OBVIOUS
<1> HIDE DEF msg
<1>3. MailMoves
  BY <1>1 DEF MailMoves, Stale
<1>4. FrequestsGoOn
  <2>1. Len(frequests) \in Nat /\ \A r \in 1 .. Len(frequests) : frequests'[r] = frequests[r]
    BY <1>1, AppendFacts DEF BaseFacts
  <2> QED
    BY <2>1 DEF FrequestsGoOn, Kept
<1>5. EntriesGoOn /\ MessagesGoOn /\ MessagesFrom(Same, {Len(uiq) + 1})
  BY <1>1, AllGoOn, ToldGoesOn, ToldFrom
<1>6. uiq'[Len(uiq) + 1].tag # "ACCEPTED"
  BY <1>1, <1>2 DEF Told
<1>7. CountExact'
  <2>1. Cardinality(OnTheWay') = Cardinality(OnTheWay)
    BY <1>1, <1>2, ToldWay
  <2> QED
    BY <1>1, <2>1 DEF CountExact, Owed, FriendEntries, Agree
<1> QED
  BY <1>1, <1>3, <1>4, <1>5, <1>6, <1>7, PlainAgree

\* While nothing is in the slot, the friends are those that the user wants.
LEMMA NoneComes ==
    ASSUME WantedComes, mailbox.tag \in {"none", "KILL"}
    PROVE  \A p \in Person : p \in wanted <=> p \in Friends
  BY DEF WantedComes, Comes, Goes

LEMMA MindsAgree ==
    ASSUME BaseFacts, BaseFacts', AllKept, MailKept, Agree, Minds
    PROVE  Agree'
<1>1. /\ UNCHANGED <<core, tox, friend_list_size, friend_list_count, frequests, item, uiq>>
      /\ \/ UNCHANGED <<mailbox, wanted>>
         \/ \E p \in Person : Post([tag |-> "ADD", who |-> p]) /\ wanted' = wanted \cup {p}
         \/ \E i \in 1 .. Len(item) : item[i].type = "request" /\ Accept(item[i].id)
         \/ Post([tag |-> "ACCEPT", at |-> Null]) /\ wanted' = wanted
  BY DEF Minds, Asked
<1>2. CASE UNCHANGED <<mailbox, wanted>>
  BY <1>1, <1>2, FrequestsSame, SameAgree
<1>3. ASSUME mailbox = Empty, mailbox'.tag \in {"ADD", "ACCEPT"},
             mailbox'.tag = "ACCEPT" /\ mailbox'.at > 0 => RequestListed(mailbox'.at),
             WantedComes'
      PROVE  Agree'
  <2>1. mailbox.tag = "none"
    BY <1>3, NewCommands
  <2>2. FriendsDiffer'
    BY <1>1 DEF Agree, FriendsDiffer
  <2>3. NoneForgotten'
    <3>1. \A n \in Number : Has(n) => HasNext(n)
      BY <1>1, <2>1 DEF Has, HasNext
    <3> QED
      BY <1>1, <2>1, <3>1, ForgottenNone DEF Agree
  <2>4. AcceptsListed'
    BY <1>1, <1>3 DEF Agree, AcceptsListed, RequestListed
  <2>5. CountExact'
    BY <1>1, <1>3, <2>1, OwedSame DEF Agree, CountExact
  <2> QED
    BY <1>3, <2>2, <2>3, <2>4, <2>5 DEF Agree
<1>4. CASE \E p \in Person : Post([tag |-> "ADD", who |-> p]) /\ wanted' = wanted \cup {p}
  <2>1. PICK p \in Person : Post([tag |-> "ADD", who |-> p]) /\ wanted' = wanted \cup {p}
    BY <1>4
  <2>2. mailbox = Empty /\ mailbox'.tag = "ADD" /\ mailbox'.who = p
    BY <2>1 DEF Post
  <2>3. WantedComes'
    <3>1. \A q \in Person : q \in wanted <=> q \in Friends
      BY <2>2, NoneComes, NewCommands DEF Agree
    <3> QED
      BY <1>1, <2>1, <2>2, <3>1 DEF WantedComes, Comes, Goes, Friends
  <2> QED
    BY <1>3, <2>2, <2>3
<1>5. CASE \E i \in 1 .. Len(item) : item[i].type = "request" /\ Accept(item[i].id)
  <2>1. PICK i \in 1 .. Len(item) : item[i].type = "request" /\ Accept(item[i].id)
    BY <1>5
  <2>2. item[i].id \in Nat \ {0} /\ item[i] = Request(item[i].id)
    BY <2>1, EntryFacts DEF BaseFacts
  <2>3. /\ mailbox = Empty /\ mailbox'.tag = "ACCEPT" /\ mailbox'.at = item[i].id
        /\ wanted' = wanted \cup {frequests[item[i].id]}
    BY <2>1, <2>2, AcceptFacts
  <2>4. RequestListed(mailbox'.at)
    BY <2>2, <2>3 DEF RequestListed
  <2>5. WantedComes'
    <3>1. \A q \in Person : q \in wanted <=> q \in Friends
      BY <2>3, NoneComes, NewCommands DEF Agree
    <3>2. item[i].id > 0
      BY <2>2
    <3> QED
      BY <1>1, <2>3, <3>1, <3>2 DEF WantedComes, Comes, Goes, Friends
  <2> QED
    BY <1>3, <2>3, <2>4, <2>5
<1>6. CASE Post([tag |-> "ACCEPT", at |-> Null]) /\ wanted' = wanted
  <2>1. mailbox = Empty /\ mailbox'.tag = "ACCEPT" /\ mailbox'.at = 0
    BY <1>6 DEF Post, Null
  <2>2. WantedComes'
    <3>1. \A q \in Person : q \in wanted <=> q \in Friends
      BY <2>1, NoneComes, NewCommands DEF Agree
    <3> QED
      BY <1>1, <1>6, <2>1, <3>1 DEF WantedComes, Comes, Goes, Friends
  <2> QED
    BY <1>3, <2>1, <2>2
<1> QED
  BY <1>1, <1>2, <1>4, <1>5, <1>6

LEMMA DeletesExact ==
    ASSUME BaseFacts, ListShape, CountExact, NEW i, Deletes(i)
    PROVE  CountExact'
<1>1. /\ i \in 1 .. Len(item) - 1 /\ i \in 1 .. Len(item) /\ item[i].type \in {"friend", "request"}
      /\ FreeEntry(item[i]) /\ item' = RemoveAt(item, i)
      /\ UNCHANGED <<tox, friend_list_size, friend_list_count, uiq>>
  BY DEF Deletes, BaseFacts
<1>2. Cardinality(FriendEntries') = IF item[i].type = "friend" THEN Cardinality(FriendEntries) - 1
                                    ELSE Cardinality(FriendEntries)
  BY <1>1, RemovedEntries
<1>3. OnTheWay' = OnTheWay
  BY <1>1 DEF OnTheWay
<1>4. (IF mailbox'.tag = "DELETE" THEN 1 ELSE 0)
        = (IF mailbox.tag = "DELETE" THEN 1 ELSE 0) + (IF item[i].type = "friend" THEN 1 ELSE 0)
  <2>1. CASE item[i].type = "friend"
    BY <1>1, <2>1, FreeEntryFacts, NewCommands
  <2>2. CASE item[i].type = "request"
    BY <1>1, <2>2, FreeEntryFacts
  <2> QED
    BY <1>1, <2>1, <2>2
<1>5. Owed' = Owed
  BY <1>1, <1>2, <1>3, <1>4, CountTypes DEF Owed
<1> QED
  BY <1>1, <1>5 DEF CountExact

LEMMA FriendDeletedAgree ==
    ASSUME BaseFacts, BaseFacts', ListShape, AllKept, MailKept, Numbers, Agree,
           NEW i, Deletes(i), item[i].type = "friend"
    PROVE  Agree'
<1>1. /\ i \in 1 .. Len(item) /\ i > 0 /\ item[i] = Friend(item[i].id) /\ item[i].id \in Number
      /\ mailbox = Empty
      /\ mailbox' = [tag |-> "DELETE", number |-> friend[item[i].id].number, at |-> item[i].id]
      /\ wanted' = wanted \ {friend[item[i].id].who}
      /\ UNCHANGED <<core, tox, friend, friend_list_size, frequests, uiq>>
  BY FreeEntryFacts, EntryFacts DEF Deletes, BaseFacts
<1>2. Claim(i) /\ NumberAt(i) = item[i].id
  BY <1>1 DEF Claim, NumberAt
<1>3. friend[item[i].id] = [who |-> core[item[i].id], number |-> item[i].id]
  BY <1>1, <1>2 DEF Numbers, Claims, Match, Matches
<1>4. /\ mailbox.tag = "none" /\ mailbox'.tag = "DELETE" /\ mailbox'.number = item[i].id
      /\ wanted' = wanted \ {core[item[i].id]}
  BY <1>1, <1>3, NewCommands
<1>5. FriendsDiffer'
  BY <1>1 DEF Agree, FriendsDiffer
<1>6. NoneForgotten'
  <2>1. ASSUME NEW n \in Number, Has(n) PROVE HasNext(n)
    <3>1. CASE \E k \in 1 .. Len(item) : item[k] = Friend(n)
      <4>1. PICK k \in 1 .. Len(item) : item[k] = Friend(n)
        BY <3>1
      <4>2. CASE k = i
        BY <1>4, <4>1, <4>2, NewEntries DEF HasNext
      <4>3. CASE k # i
        <5>1. \E j \in 1 .. Len(item') : item'[j] = item[k]
          BY <4>3, DeletedGoOn
        <5> QED
          BY <4>1, <5>1 DEF HasNext
      <4> QED
        BY <4>2, <4>3
    <3>2. CASE \E k \in 1 .. Len(uiq) : uiq[k].tag \in {"ADDED", "ACCEPTED"} /\ uiq[k].number = n
      BY <1>1, <3>2 DEF HasNext
    <3> QED
      BY <1>4, <2>1, <3>1, <3>2 DEF Has
  <2> QED
    BY <1>1, <1>4, <2>1, ForgottenNone DEF Agree
<1>7. AcceptsListed'
  <2>1. ASSUME NEW r \in Nat \ {0}, RequestListed(r) PROVE RequestListedNext(r)
    <3>1. PICK k \in 1 .. Len(item) : item[k] = Request(r)
      BY <2>1 DEF RequestListed
    <3>2. k # i
      BY <3>1, NewEntries
    <3>3. \E j \in 1 .. Len(item') : item'[j] = item[k]
      BY <3>2, DeletedGoOn
    <3> QED
      BY <3>1, <3>3 DEF RequestListedNext
  <2>2. MessagesFrom(Same, {}) /\ FrequestsGoOn /\ MailOld
    BY <1>1, <1>4, SameMessages, FrequestsSame DEF MailOld
  <2> QED
    BY <1>1, <2>1, <2>2, AcceptsStay DEF Agree
<1>8. WantedComes'
  <2>1. \A p \in Person : p \in wanted <=> p \in Friends
    BY <1>4, NoneComes DEF Agree
  <2> QED
    BY <1>1, <1>4, <2>1 DEF WantedComes, Comes, Goes, Friends
<1>9. CountExact'
  BY DeletesExact DEF Agree
<1> QED
  BY <1>5, <1>6, <1>7, <1>8, <1>9 DEF Agree

LEMMA RequestDeletedAgree ==
    ASSUME BaseFacts, BaseFacts', ListShape, AllKept, MailKept, Agree,
           NEW i, Deletes(i), item[i].type = "request", "declined" \notin odd'
    PROVE  Agree'
<1>1. /\ i \in 1 .. Len(item) /\ item[i] = Request(item[i].id)
      /\ ~Accepting(item[i].id)
      /\ UNCHANGED <<core, tox, friend, friend_list_size, frequests, uiq, mailbox, wanted>>
  <2>1. /\ i \in 1 .. Len(item) - 1 /\ i \in 1 .. Len(item) /\ FreeEntry(item[i])
        /\ UNCHANGED <<core, tox, friend, friend_list_size, frequests, uiq>>
    BY DEF Deletes, BaseFacts
  <2>2. /\ item[i] \in Entry /\ mailbox' = mailbox /\ wanted' = wanted
        /\ odd' = odd \cup (IF Accepting(item[i].id) THEN {"declined"} ELSE {})
    BY <2>1, FreeEntryFacts
  <2>3. item[i] = Request(item[i].id)
    BY <2>2, EntryFacts
  <2>4. ~Accepting(item[i].id)
    BY <2>2
  <2> QED
    BY <2>1, <2>2, <2>3, <2>4
<1>2. FriendsDiffer'
  BY <1>1 DEF Agree, FriendsDiffer
<1>3. ASSUME NEW k \in 1 .. Len(item), item[k] # item[i]
      PROVE  \E j \in 1 .. Len(item') : item'[j] = item[k]
  <2>1. k # i
    BY <1>3
  <2> QED
    BY <2>1, DeletedGoOn
<1>4. NoneForgotten'
  <2>1. ASSUME NEW n \in Number, Has(n) PROVE HasNext(n)
    <3>1. CASE \E k \in 1 .. Len(item) : item[k] = Friend(n)
      <4>1. PICK k \in 1 .. Len(item) : item[k] = Friend(n)
        BY <3>1
      <4>2. item[k] # item[i]
        BY <1>1, <4>1, NewEntries
      <4> QED
        BY <1>3, <4>1, <4>2 DEF HasNext
    <3> QED
      BY <1>1, <2>1, <3>1 DEF Has, HasNext
  <2> QED
    BY <1>1, <2>1, ForgottenNone DEF Agree
<1>5. AcceptsListed'
  <2>1. ASSUME NEW r \in Nat \ {0}, RequestListed(r), AcceptingNext(r) PROVE RequestListedNext(r)
    <3>1. PICK k \in 1 .. Len(item) : item[k] = Request(r)
      BY <2>1 DEF RequestListed
    <3>2. Accepting(r)
      BY <1>1, <2>1 DEF Accepting, AcceptingNext
    <3>3. item[k] # item[i]
      BY <1>1, <3>1, <3>2, NewEntries
    <3> QED
      BY <1>3, <3>1, <3>3 DEF RequestListedNext
  <2>2. MessagesFrom(Same, {}) /\ FrequestsGoOn /\ MailOld
    BY <1>1, SameMessages, FrequestsSame DEF MailOld
  <2> QED
    BY <1>1, <2>1, <2>2, AcceptsStay DEF Agree
<1>6. WantedComes'
  BY <1>1, WantedStay, FrequestsSame DEF Agree, MailMoves
<1>7. CountExact'
  BY DeletesExact DEF Agree
<1> QED
  BY <1>2, <1>4, <1>5, <1>6, <1>7 DEF Agree


LEMMA SettingsAgree ==
    ASSUME BaseFacts, ListShape', Agree, ChangeSettings, "crossed" \notin odd'
    PROVE  Agree'
<1>1. /\ mailbox = Empty /\ mailbox' = [tag |-> "KILL"] /\ item' = <<>>
      /\ friend_list_count' = friend_list_count - Cardinality(FriendEntries)
      /\ UNCHANGED <<core, tox, friend_list_size, uiq, wanted>>
      /\ \A k \in 1 .. Len(uiq) : uiq[k].tag = "INCOMING"
  BY SettingsFacts
<1>2. mailbox.tag = "none" /\ mailbox'.tag = "KILL" /\ tox' = "run"
  BY <1>1, NewCommands DEF ListShape
<1>3. FriendsDiffer'
  BY <1>1 DEF Agree, FriendsDiffer
<1>4. NoneForgotten'
  BY <1>2 DEF NoneForgotten
<1>5. AcceptsListed'
  BY <1>1, <1>2 DEF AcceptsListed
<1>6. WantedComes'
  <2>1. \A p \in Person : p \in wanted <=> p \in Friends
    BY <1>2, NoneComes DEF Agree
  <2> QED
    BY <1>1, <1>2, <2>1 DEF WantedComes, Comes, Goes, Friends
<1>7. CountExact'
  <2>1. FriendEntries' = {} /\ OnTheWay' = OnTheWay
    BY <1>1 DEF FriendEntries, OnTheWay
  <2>2. Cardinality(FriendEntries') = 0
    BY <2>1, FS_EmptySet
  <2>3. Cardinality(FriendEntries) \in Nat /\ Cardinality(OnTheWay) \in Nat
        /\ friend_list_size \in Nat
    BY CountTypes, Constants DEF BaseFacts
  <2>4. Owed' = Owed - Cardinality(FriendEntries)
    BY <1>1, <1>2, <2>1, <2>2, <2>3 DEF Owed
  <2> QED
    BY <1>1, <2>4 DEF CountExact, Agree
<1> QED
  BY <1>3, <1>4, <1>5, <1>6, <1>7 DEF Agree

LEMMA PutsFriendAgree ==
    ASSUME BaseFacts, BaseFacts', ListShape, AllKept, MailKept, Numbers, Agree, PutsFriend,
           Head(uiq) \in Message
    PROVE  Agree'
<1> DEFINE n == Head(uiq).number
           entry == Friend(n)
<1>1. /\ Head(uiq).tag = "ADDED" /\ uiq # <<>> /\ Put(Friend(friend[n].number))
      /\ friend[n].number \in Number
  BY PutsFriendFacts DEF Put
<1>2. Matches(n) /\ n \in Number
  BY <1>1, HeadClaims
<1>3. friend[n].number = n
  BY <1>2 DEF Matches
<1>4. Put(entry) /\ entry \in Entry /\ entry.type = "friend"
  BY <1>1, <1>2, <1>3, NewEntries
<1> HIDE DEF entry
<1>5. /\ uiq' = Tail(uiq)
      /\ UNCHANGED <<core, tox, friend_list_size, friend_list_count, wanted, mailbox, frequests>>
  BY <1>4 DEF Put
<1>6. EntriesGoOn /\ MessagesFrom(Skips(1), {}) /\ MailMoves /\ FrequestsGoOn
  BY <1>1, <1>4, <1>5, PutGoesOn, TailFrom, FrequestsSame DEF MailMoves
<1>7. FriendsDiffer'
  BY <1>5 DEF Agree, FriendsDiffer
<1>8. NoneForgotten'
  <2>1. ASSUME NEW m \in Number, Has(m) PROVE HasNext(m)
    <3>1. CASE \E i \in 1 .. Len(item) : item[i] = Friend(m)
      BY <1>6, <3>1, NewEntries DEF EntriesGoOn, HasNext
    <3>2. CASE \E k \in 1 .. Len(uiq) : uiq[k].tag \in {"ADDED", "ACCEPTED"} /\ uiq[k].number = m
      <4>1. PICK k \in 1 .. Len(uiq) : uiq[k].tag \in {"ADDED", "ACCEPTED"} /\ uiq[k].number = m
        BY <3>2
      <4>2. /\ Len(uiq) \in Nat /\ Len(uiq') = Len(uiq) - 1 /\ Head(uiq) = uiq[1]
            /\ \A l \in 1 .. Len(uiq) - 1 : uiq'[l] = uiq[l + 1]
        BY <1>1, <1>5, TailFacts DEF BaseFacts
      <4>3. CASE k = 1
        <5>1. m = n
          BY <4>1, <4>2, <4>3
        <5>2. /\ item'[Len(item)] = entry /\ Len(item) \in Nat \ {0}
              /\ Len(item') = Len(item) + 1
          BY <1>4, PutFacts
        <5>3. Len(item) \in 1 .. Len(item') /\ item'[Len(item)] = Friend(m)
          BY <5>1, <5>2 DEF entry
        <5> QED
          BY <5>3 DEF HasNext
      <4>4. CASE k # 1
        <5>1. k - 1 \in 1 .. Len(uiq) - 1 /\ (k - 1) + 1 = k
          BY <4>1, <4>2, <4>4
        <5>2. k - 1 \in 1 .. Len(uiq') /\ uiq'[k - 1] = uiq[k]
          BY <4>2, <5>1
        <5> QED
          BY <4>1, <5>2 DEF HasNext
      <4> QED
        BY <4>3, <4>4
    <3>3. CASE mailbox.tag = "DELETE" /\ mailbox.number = m
      BY <1>5, <3>3 DEF HasNext
    <3> QED
      BY <2>1, <3>1, <3>2, <3>3 DEF Has
  <2> QED
    BY <1>5, <2>1, ForgottenNone DEF Agree
<1>9. AcceptsListed'
  <2>1. MailOld
    BY <1>6 DEF MailMoves, MailOld
  <2> QED
    BY <1>5, <1>6, <2>1, ListedStill, AcceptsStay DEF Agree
<1>10. WantedComes'
  BY <1>5, <1>6, WantedStay DEF Agree
<1>11. CountExact'
  <2>1. Cardinality(OnTheWay') = Cardinality(OnTheWay) - 1
    BY <1>1, <1>5, TailWay
  <2>2. Cardinality(FriendEntries') = Cardinality(FriendEntries) + 1
    BY <1>4, PutEntries
  <2>3. Cardinality(FriendEntries) \in Nat /\ Cardinality(OnTheWay) \in Nat
    BY CountTypes
  <2>4. friend_list_size \in Nat
    BY Constants DEF BaseFacts
  <2>5. (Cardinality(FriendEntries) + 1) + (Cardinality(OnTheWay) - 1)
            = Cardinality(FriendEntries) + Cardinality(OnTheWay)
    BY <2>3
  <2>6. Owed' = Owed
    BY <1>5, <2>1, <2>2, <2>5 DEF Owed
  <2> QED
    BY <1>5, <2>6 DEF CountExact, Agree
<1> QED
  BY <1>7, <1>8, <1>9, <1>10, <1>11 DEF Agree


LEMMA MessageClaims ==
    ASSUME BaseFacts, Numbers, NEW k \in 1 .. Len(uiq), uiq[k].tag \in {"ADDED", "ACCEPTED"}
    PROVE  /\ -k \in Int /\ -k < 0 /\ Claim(-k) /\ NumberAt(-k) = uiq[k].number
           /\ uiq[k].number \in Number /\ Matches(uiq[k].number)
<1>1. -k \in Int /\ -k < 0 /\ -(-k) = k
  BY DEF BaseFacts
<1>2. Claim(-k) /\ NumberAt(-k) = uiq[k].number
  BY <1>1 DEF Claim, NumberAt
<1> QED
  BY <1>1, <1>2, ClaimNumber DEF Numbers, Claims, Match

LEMMA TurnsAgree ==
    ASSUME BaseFacts, BaseFacts', OnceEach, AllKept, MailKept, Numbers, Agree, Turns
    PROVE  Agree'
<1> DEFINE n == Head(uiq).number
           r == Head(uiq).at
<1>1. /\ Head(uiq).tag = "ACCEPTED" /\ uiq # <<>> /\ uiq' = Tail(uiq)
      /\ r \in 1 .. Len(frequests)
      /\ UNCHANGED <<core, tox, friend_list_size, friend_list_count, wanted, mailbox, frequests>>
  BY DEF Turns
<1>2. /\ Len(uiq) \in Nat \ {0} /\ Len(uiq') = Len(uiq) - 1 /\ Head(uiq) = uiq[1]
      /\ \A l \in 1 .. Len(uiq) - 1 : uiq'[l] = uiq[l + 1]
  BY <1>1, TailFacts DEF BaseFacts
<1>3. /\ Matches(n) /\ n \in Number /\ friend[n].number = n /\ core[n] # Nobody
      /\ core[n] \in Person
  BY <1>1, HeadClaims DEF Matches, BaseFacts
<1>4. RequestListed(r) /\ frequests[r] = core[n] /\ r \in Nat \ {0}
  <2>1. r \in Nat \ {0} /\ r # Dangling
    BY <1>1 DEF Dangling, BaseFacts
  <2>2. 1 \in 1 .. Len(uiq) /\ uiq[1].tag = "ACCEPTED" /\ uiq[1].at = r /\ uiq[1].number = n
    BY <1>1, <1>2
  <2> QED
    BY <2>1, <2>2 DEF Agree, AcceptsListed
<1>5. PICK i \in 1 .. Len(item) : item[i] = Request(r)
  BY <1>4 DEF RequestListed
<1>6. i \in PlaceOf(r)
  <2>1. item[i].type = "request"
    BY <1>5, NewEntries
  <2>2. \A k \in 1 .. i - 1 : item[k] # item[i]
    BY <1>5, <2>1 DEF OnceEach, BaseFacts
  <2>3. i \in DOMAIN item
    BY <1>5 DEF BaseFacts
  <2> QED
    BY <1>5, <2>2, <2>3 DEF PlaceOf
<1>7. /\ Len(item') = Len(item) /\ item'[i] = Friend(n)
      /\ \A k \in 1 .. Len(item) : item[k] # Request(r) => item'[k] = item[k]
  <2>1. PlaceOf(r) \subseteq {k \in DOMAIN item : item[k] = Request(r)}
    BY DEF PlaceOf
  <2> QED
    BY <1>3, <1>5, <1>6, <2>1, TurnsFacts
<1>8. \A q : RequestListed(q) /\ q # r => RequestListedNext(q)
  <2> SUFFICES ASSUME NEW q, RequestListed(q), q # r PROVE RequestListedNext(q)
    OBVIOUS
  <2>1. PICK k \in 1 .. Len(item) : item[k] = Request(q)
    BY DEF RequestListed
  <2>2. item[k] # Request(r)
    BY <2>1, NewEntries
  <2> QED
    BY <1>7, <2>1, <2>2 DEF RequestListedNext
<1> HIDE DEF n, r
<1>9. FriendsDiffer'
  BY <1>1 DEF Agree, FriendsDiffer
<1>10. NoneForgotten'
  <2>1. ASSUME NEW m \in Number, Has(m) PROVE HasNext(m)
    <3>1. CASE \E k \in 1 .. Len(item) : item[k] = Friend(m)
      <4>1. PICK k \in 1 .. Len(item) : item[k] = Friend(m)
        BY <3>1
      <4>2. item[k] # Request(r)
        BY <4>1, NewEntries
      <4> QED
        BY <1>7, <4>1, <4>2 DEF HasNext
    <3>2. CASE \E k \in 1 .. Len(uiq) : uiq[k].tag \in {"ADDED", "ACCEPTED"} /\ uiq[k].number = m
      <4>1. PICK k \in 1 .. Len(uiq) : uiq[k].tag \in {"ADDED", "ACCEPTED"} /\ uiq[k].number = m
        BY <3>2
      <4>2. CASE k = 1
        <5>1. m = n
          BY <1>2, <4>1, <4>2 DEF n
        <5> QED
          BY <1>5, <1>7, <5>1 DEF HasNext
      <4>3. CASE k # 1
        <5>1. k - 1 \in 1 .. Len(uiq) - 1 /\ (k - 1) + 1 = k
          BY <1>2, <4>1, <4>3
        <5>2. k - 1 \in 1 .. Len(uiq') /\ uiq'[k - 1] = uiq[k]
          BY <1>2, <5>1
        <5> QED
          BY <4>1, <5>2 DEF HasNext
      <4> QED
        BY <4>2, <4>3
    <3>3. CASE mailbox.tag = "DELETE" /\ mailbox.number = m
      BY <1>1, <3>3 DEF HasNext
    <3> QED
      BY <2>1, <3>1, <3>2, <3>3 DEF Has
  <2> QED
    BY <1>1, <2>1, ForgottenNone DEF Agree
<1>11. AcceptsListed'
  <2>1. ASSUME mailbox'.tag = "ACCEPT", mailbox'.at > 0
        PROVE  RequestListedNext(mailbox'.at) \/ frequests'[mailbox'.at] \in Friends'
    <3>1. CASE mailbox.at = r
      <4>1. frequests[r] \in Friends
        BY <1>3, <1>4 DEF Friends
      <4> QED
        BY <1>1, <3>1, <4>1 DEF Friends
    <3>2. CASE mailbox.at # r
      BY <1>1, <1>8, <2>1, <3>2 DEF Agree, AcceptsListed, Friends
    <3> QED
      BY <3>1, <3>2
  <2>2. ASSUME NEW k \in 1 .. Len(uiq'), uiq'[k].tag = "ACCEPTED", uiq'[k].at # Dangling
        PROVE  RequestListedNext(uiq'[k].at) /\ frequests'[uiq'[k].at] = core'[uiq'[k].number]
    <3>1. k + 1 \in 1 .. Len(uiq) /\ k + 1 # 1 /\ uiq'[k] = uiq[k + 1]
      BY <1>2
    <3>2. PICK l \in 1 .. Len(uiq) : l # 1 /\ uiq'[k] = uiq[l]
      BY <3>1
    <3>3. RequestListed(uiq[l].at) /\ frequests[uiq[l].at] = core[uiq[l].number]
      BY <2>2, <3>2 DEF Agree, AcceptsListed
    <3>4. /\ -l \in Int /\ Claim(-l) /\ NumberAt(-l) = uiq[l].number /\ uiq[l].number \in Number
          /\ -1 \in Int /\ Claim(-1) /\ NumberAt(-1) = n
      BY <1>1, <1>2, <2>2, <3>2, MessageClaims DEF n
    <3>5. -l # -1
      BY <1>2, <3>2
    <3>6. uiq[l].number # n
      BY <3>4, <3>5 DEF Numbers, Claims, Once
    <3>7. uiq[l].at # r
      BY <1>3, <1>4, <3>3, <3>4, <3>6 DEF Agree, FriendsDiffer
    <3> QED
      BY <1>1, <1>8, <3>2, <3>3, <3>7
  <2> QED
    BY <2>1, <2>2 DEF AcceptsListed, RequestListed, RequestListedNext
<1>12. WantedComes'
  BY <1>1, WantedStay, FrequestsSame DEF MailMoves, Agree
<1>13. CountExact'
  <2>1. Cardinality(OnTheWay') = Cardinality(OnTheWay) - 1
    BY <1>1, TailWay
  <2>2. Cardinality(FriendEntries') = Cardinality(FriendEntries) + 1
    BY <1>6, TurnsEntries DEF r
  <2>3. Cardinality(FriendEntries) \in Nat /\ Cardinality(OnTheWay) \in Nat
    BY CountTypes
  <2>4. (Cardinality(FriendEntries) + 1) + (Cardinality(OnTheWay) - 1)
            = Cardinality(FriendEntries) + Cardinality(OnTheWay)
    BY <2>3
  <2>5. Owed' = Owed
    BY <1>1, <2>1, <2>2, <2>4 DEF Owed
  <2> QED
    BY <1>1, <2>5 DEF CountExact, Agree
<1> QED
  BY <1>9, <1>10, <1>11, <1>12, <1>13 DEF Agree

\* The message is taken, and who would come is a friend already.
LEMMA HandledAgree ==
    ASSUME BaseFacts, Agree, Handled, mailbox.tag = "ACCEPT" => mailbox.at # Dangling,
           \A p \in Person : Comes(p) => p \in Friends
    PROVE  Agree'
<1>1. /\ mailbox.tag \in {"ADD", "ACCEPT"} /\ mailbox' = Empty /\ mailbox'.tag = "none"
      /\ UNCHANGED <<core, tox, friend_list_size, friend_list_count, frequests, item, uiq, wanted>>
  BY NewCommands DEF Handled
<1>2. FriendsDiffer'
  BY <1>1 DEF Agree, FriendsDiffer
<1>3. NoneForgotten'
  <2>1. \A n \in Number : Has(n) => HasNext(n)
    BY <1>1 DEF Has, HasNext
  <2> QED
    BY <1>1, <2>1, ForgottenNone DEF Agree
<1>4. AcceptsListed'
  BY <1>1 DEF Agree, AcceptsListed, RequestListed
<1>5. WantedComes'
  <2>1. \A p \in Person : p \in wanted <=> p \in Friends
    BY <1>1 DEF Agree, WantedComes, Goes
  <2> QED
    BY <1>1, <2>1 DEF WantedComes, Comes, Goes, Friends
<1>6. CountExact'
  BY <1>1, OwedSame DEF Agree, CountExact
<1> QED
  BY <1>2, <1>3, <1>4, <1>5, <1>6 DEF Agree

LEMMA BefriendedAgree ==
    ASSUME BaseFacts, BaseFacts', Agree, Numbers, tox = "run",
           NEW p \in Person, NEW n \in Number, NEW msg, Befriended(p, n, msg), p \notin Friends,
           msg.tag \in {"ADDED", "ACCEPTED"}, msg.number = n,
           mailbox.tag \in {"ADD", "ACCEPT"}, mailbox' = Empty,
           msg.tag = "ACCEPTED" =>
               /\ mailbox.tag = "ACCEPT" /\ msg.at = mailbox.at
               /\ mailbox.at > 0 /\ frequests[mailbox.at] = p,
           mailbox.tag = "ACCEPT" => mailbox.at # Dangling,
           \A q \in Person : Comes(q) <=> q = p,
           UNCHANGED <<tox, frequests, item, wanted>>
    PROVE  Agree'
<1> DEFINE last == Len(uiq) + 1
<1>1. /\ core[n] = Nobody /\ core' = [core EXCEPT ![n] = p]
      /\ friend_list_count' = friend_list_count + 1
      /\ Told(msg)
  BY DEF Befriended, Free
<1>2. /\ Len(uiq) \in Nat /\ Len(uiq') = last /\ uiq'[last] = msg
      /\ \A k \in 1 .. Len(uiq) : Moved(uiq[k], uiq'[k])
  BY <1>1 DEF Told, BaseFacts
<1>3. mailbox'.tag = "none"
  BY NewCommands
<1>4. /\ core'[n] = p /\ p # Nobody /\ core \in [Number -> Person \cup {Nobody}]
      /\ \A m \in Number : m # n => core'[m] = core[m] /\ core[m] # p
  BY <1>1, Constants DEF BaseFacts, Friends
<1>5. FriendsDiffer'
  BY <1>4 DEF Agree, FriendsDiffer
<1>6. NoneForgotten'
  <2>1. EntriesGoOn /\ MessagesGoOn
    BY <1>1, AllGoOn, ToldGoesOn
  <2>2. ASSUME NEW m \in Number, core'[m] # Nobody PROVE HasNext(m)
    <3>1. CASE m = n
      BY <1>2, <3>1 DEF HasNext
    <3>2. CASE m # n
      <4>1. Has(m)
        BY <1>4, <2>2, <3>2 DEF Agree, NoneForgotten
      <4> QED
        BY <2>1, <4>1, HasStill
    <3> QED
      BY <3>1, <3>2
  <2> QED
    BY <2>2 DEF NoneForgotten, Has, HasNext
<1>7. AcceptsListed'
  <2> SUFFICES ASSUME NEW k \in 1 .. Len(uiq'), uiq'[k].tag = "ACCEPTED", uiq'[k].at # Dangling
               PROVE  /\ RequestListed(uiq'[k].at)
                      /\ frequests[uiq'[k].at] = core'[uiq'[k].number]
    BY <1>3 DEF AcceptsListed, RequestListed
  <2>1. CASE k = last
    BY <1>2, <1>4, <2>1 DEF Agree, AcceptsListed
  <2>2. CASE k # last
    <3>1. k \in 1 .. Len(uiq)
      BY <1>2, <2>2
    <3>2. /\ uiq[k].tag = "ACCEPTED" /\ uiq'[k].number = uiq[k].number
          /\ uiq'[k].at = uiq[k].at
      BY <1>2, <3>1 DEF Moved
    <3>3. uiq[k].number \in Number /\ core[uiq[k].number] # Nobody
      BY <3>1, <3>2, MessageClaims DEF Matches
    <3>4. core'[uiq[k].number] = core[uiq[k].number]
      BY <1>1, <1>4, <3>3
    <3> QED
      BY <3>1, <3>2, <3>4 DEF Agree, AcceptsListed
  <2> QED
    BY <2>1, <2>2
<1>8. WantedComes'
  <2>1. \A q \in Person : q \in wanted <=> q \in Friends \/ q = p
    BY DEF Agree, WantedComes, Goes
  <2>2. Friends' = Friends \cup {p}
    <3>1. ASSUME NEW q \in Friends PROVE q \in Friends'
      <4>1. PICK m \in Number : core[m] = q /\ q # Nobody
        BY <3>1 DEF Friends
      <4>2. m # n
        BY <1>1, <4>1
      <4> QED
        BY <1>4, <4>1, <4>2 DEF Friends
    <3>2. p \in Friends'
      BY <1>4 DEF Friends
    <3>3. ASSUME NEW q \in Friends' PROVE q \in Friends \cup {p}
      <4>1. PICK m \in Number : core'[m] = q /\ q # Nobody
        BY <3>3 DEF Friends
      <4> QED
        BY <1>4, <4>1 DEF Friends
    <3> QED
      BY <3>1, <3>2, <3>3
  <2> QED
    BY <1>3, <2>1, <2>2 DEF WantedComes, Comes, Goes
<1>9. CountExact'
  <2>1. Cardinality(OnTheWay') = Cardinality(OnTheWay) + 1
    BY <1>1, ToldWay
  <2>2. Cardinality(FriendEntries) \in Nat /\ Cardinality(OnTheWay) \in Nat
    BY CountTypes
  <2>3. Cardinality(FriendEntries) + (Cardinality(OnTheWay) + 1)
            = (Cardinality(FriendEntries) + Cardinality(OnTheWay)) + 1
    BY <2>2
  <2>4. FriendEntries' = FriendEntries
    BY DEF FriendEntries
  <2>5. Owed' = Cardinality(FriendEntries) + (Cardinality(OnTheWay) + 1)
    BY <1>3, <2>1, <2>2, <2>4 DEF Owed
  <2>6. Owed = Cardinality(FriendEntries) + Cardinality(OnTheWay)
    BY <2>2 DEF Owed
  <2> QED
    BY <1>1, <2>3, <2>5, <2>6 DEF CountExact, Agree
<1> QED
  BY <1>5, <1>6, <1>7, <1>8, <1>9 DEF Agree

LEMMA HandleDeleteAgree ==
    ASSUME BaseFacts, BaseFacts', Agree, Numbers, HandleDelete
    PROVE  Agree'
<1> DEFINE msg == [tag |-> "REMOVE", at |-> mailbox.at]
           d == mailbox.number
<1>1. /\ UNCHANGED <<tox, friend_list_size, friend_list_count, item, wanted, frequests>>
      /\ mailbox' = Empty /\ mailbox.tag = "DELETE" /\ tox = "run"
      /\ core' = [core EXCEPT ![d] = Nobody] /\ uiq' = Append(uiq, msg)
  BY DEF HandleDelete, ToxRuns, Tell
<1>2. d \in Number /\ mailbox.at \in Number
  BY <1>1, CommandFacts DEF BaseFacts
<1>3. msg \in Message /\ msg.tag = "REMOVE"
  BY <1>2, NewMessages
<1> HIDE DEF msg
<1>4. Told(msg)
  BY <1>1, <1>3, ToldAppend
<1>5. mailbox'.tag = "none"
  BY <1>1, NewCommands
<1>6. core'[d] = Nobody /\ \A m \in Number : m # d => core'[m] = core[m]
  BY <1>1, <1>2 DEF BaseFacts
<1> HIDE DEF d
<1>7. FriendsDiffer'
  BY <1>6 DEF Agree, FriendsDiffer
<1>8. NoneForgotten'
  <2>1. MessagesGoOn
    BY <1>4, ToldGoesOn
  <2>2. ASSUME NEW m \in Number, core'[m] # Nobody PROVE HasNext(m)
    <3>1. m # d /\ core[m] # Nobody
      BY <1>6, <2>2
    <3>2. Has(m)
      BY <1>1, <3>1 DEF Agree, NoneForgotten
    <3>3. CASE \E i \in 1 .. Len(item) : item[i] = Friend(m)
      BY <1>1, <3>3 DEF HasNext
    <3>4. CASE \E k \in 1 .. Len(uiq) : uiq[k].tag \in {"ADDED", "ACCEPTED"} /\ uiq[k].number = m
      <4>1. PICK k \in 1 .. Len(uiq) : uiq[k].tag \in {"ADDED", "ACCEPTED"} /\ uiq[k].number = m
        BY <3>4
      <4>2. PICK l \in 1 .. Len(uiq') : Moved(uiq[k], uiq'[l])
        BY <2>1, <4>1 DEF MessagesGoOn
      <4>3. uiq'[l].tag \in {"ADDED", "ACCEPTED"} /\ uiq'[l].number = m
        BY <4>1, <4>2 DEF Moved
      <4> QED
        BY <4>3 DEF HasNext
    <3> QED
      BY <3>1, <3>2, <3>3, <3>4 DEF Has, d
  <2> QED
    BY <1>1, <2>2 DEF NoneForgotten, Has, HasNext
<1>9. AcceptsListed'
  <2> SUFFICES ASSUME NEW k \in 1 .. Len(uiq'), uiq'[k].tag = "ACCEPTED", uiq'[k].at # Dangling
               PROVE  /\ RequestListed(uiq'[k].at)
                      /\ frequests[uiq'[k].at] = core'[uiq'[k].number]
    BY <1>1, <1>5 DEF AcceptsListed, RequestListed
  <2>1. k \in 1 .. Len(uiq)
    BY <1>3, <1>4 DEF Told, BaseFacts
  <2>2. /\ uiq[k].tag = "ACCEPTED" /\ uiq'[k].number = uiq[k].number
        /\ uiq'[k].at = uiq[k].at
    BY <1>4, <2>1 DEF Told, Moved
  <2>3. /\ -k \in Int /\ -k < 0 /\ Claim(-k) /\ NumberAt(-k) = uiq[k].number
        /\ uiq[k].number \in Number
    BY <2>1, <2>2, MessageClaims
  <2>4. Claim(0) /\ NumberAt(0) = d
    BY <1>1 DEF Claim, NumberAt, d
  <2>5. uiq[k].number # d
    BY <2>3, <2>4 DEF Numbers, Claims, Once
  <2>6. core'[uiq[k].number] = core[uiq[k].number]
    BY <1>6, <2>3, <2>5
  <2> QED
    BY <2>1, <2>2, <2>6 DEF Agree, AcceptsListed
<1>10. WantedComes'
  <2>1. \A q \in Person : q \in wanted <=> q \in Friends /\ q # core[d]
    BY <1>1 DEF Agree, WantedComes, Comes, Goes, d
  <2>2. \A q \in Person : q \in Friends' <=> q \in Friends /\ q # core[d]
    <3>1. ASSUME NEW q \in Friends, q # core[d] PROVE q \in Friends'
      <4>1. PICK m \in Number : core[m] = q /\ q # Nobody
        BY DEF Friends
      <4>2. core'[m] = q
        BY <1>6, <3>1, <4>1
      <4> QED
        BY <4>1, <4>2 DEF Friends
    <3>2. ASSUME NEW q \in Friends' PROVE q \in Friends /\ q # core[d]
      <4>1. PICK m \in Number : core'[m] = q /\ q # Nobody
        BY DEF Friends
      <4>2. m # d /\ core[m] = q
        BY <1>6, <4>1
      <4> QED
        BY <1>2, <4>1, <4>2 DEF Friends, Agree, FriendsDiffer, d
    <3> QED
      BY <3>1, <3>2
  <2> QED
    BY <1>1, <1>5, <2>1, <2>2 DEF WantedComes, Comes, Goes
<1>11. CountExact'
  <2>1. Cardinality(OnTheWay') = Cardinality(OnTheWay) + 1
    BY <1>3, <1>4, ToldWay
  <2>2. Cardinality(FriendEntries) \in Nat /\ Cardinality(OnTheWay) \in Nat
    BY CountTypes
  <2>3. Owed' = Owed
    BY <1>1, <1>5, <2>1, <2>2 DEF Owed, FriendEntries
  <2> QED
    BY <1>1, <2>3 DEF CountExact, Agree
<1> QED
  BY <1>7, <1>8, <1>9, <1>10, <1>11 DEF Agree

LEMMA HandleKillAgree ==
    ASSUME BaseFacts, Agree, Numbers, HandleKill
    PROVE  Agree'
<1>1. /\ UNCHANGED <<core, friend_list_size, friend_list_count, item, uiq, wanted>>
      /\ tox = "run" /\ mailbox.tag = "KILL" /\ mailbox' = Empty /\ tox' = "down"
      /\ mailbox'.tag = "none"
  BY NewCommands DEF HandleKill, ToxRuns
<1>2. FriendsDiffer' /\ NoneForgotten'
  BY <1>1 DEF Agree, FriendsDiffer, NoneForgotten
<1>3. AcceptsListed'
  BY <1>1 DEF AcceptsListed, Numbers, Restarting
<1>4. WantedComes'
  <2>1. \A p \in Person : p \in wanted <=> p \in Friends
    BY <1>1, NoneComes DEF Agree
  <2> QED
    BY <1>1, <2>1 DEF WantedComes, Comes, Goes, Friends
<1>5. CountExact'
  <2>1. Owed' = Owed
    BY <1>1 DEF Owed, FriendEntries, OnTheWay
  <2> QED
    BY <1>1, <2>1 DEF CountExact, Agree
<1> QED
  BY <1>2, <1>3, <1>4, <1>5 DEF Agree

LEMMA InitAgree ==
    ASSUME BaseFacts, BaseFacts', ListShape, Agree, Numbers, InitTox
    PROVE  Agree'
<1>1. /\ tox = "down" /\ tox' = "up" /\ mailbox' = mailbox
      /\ friend_list_size' = Cardinality(Taken)
      /\ friend_list_count' = friend_list_count + Cardinality(Taken)
      /\ Len(uiq') = Len(uiq) /\ \A k \in 1 .. Len(uiq) : uiq'[k].tag = uiq[k].tag
      /\ UNCHANGED <<item, wanted>>
  BY InitFacts DEF Moved
<1>2. PICK at \in Saved :
        /\ core' = [n \in Number |-> IF n \in DOMAIN at THEN core[at[n]] ELSE Nobody]
        /\ DOMAIN at = 0 .. Cardinality(Taken) - 1
        /\ \A n \in DOMAIN at : at[n] \in Taken /\ core[at[n]] \in Person
  BY InitFacts
<1>3. mailbox.tag = "none"
  BY <1>1, NewCommands DEF ListShape
<1>4. \A k \in 1 .. Len(uiq') : uiq'[k].tag \notin {"ADDED", "ACCEPTED", "REMOVE"}
  BY <1>1 DEF Numbers, Restarting
<1>5. \A m, n \in DOMAIN at : at[m] = at[n] => m = n
  BY DEF Saved, Bijection, Injection, IsInjective
<1>6. Taken \subseteq Number /\ Cardinality(Taken) \in Nat /\ DOMAIN at \subseteq Number
  <2>1. Taken \subseteq Number /\ Cardinality(Taken) \in 0 .. Cardinality(Person)
        /\ \A n : n \in 0 .. Cardinality(Taken) - 1 => n \in Number
    BY TakenCount DEF BaseFacts
  <2> QED
    BY <1>2, <2>1, Constants
<1>7. \A n \in Number : core'[n] # Nobody => n \in DOMAIN at /\ core'[n] = core[at[n]]
  BY <1>2
<1>8. FriendsDiffer'
  <2>1. ASSUME NEW m \in Number, NEW n \in Number, core'[m] = core'[n], core'[m] # Nobody
        PROVE  m = n
    <3>1. /\ m \in DOMAIN at /\ n \in DOMAIN at /\ core[at[m]] = core[at[n]]
          /\ core[at[m]] # Nobody /\ at[m] \in Number /\ at[n] \in Number
      BY <1>2, <1>6, <1>7, <2>1
    <3>2. at[m] = at[n]
      BY <3>1 DEF Agree, FriendsDiffer
    <3> QED
      BY <1>5, <3>1, <3>2
  <2> QED
    BY <2>1 DEF FriendsDiffer
<1>9. NoneForgotten'
  <2>1. ASSUME NEW n \in Number, core'[n] # Nobody PROVE n < friend_list_size'
    BY <1>1, <1>2, <1>6, <1>7, <2>1
  <2> QED
    BY <1>1, <2>1 DEF NoneForgotten
<1>10. AcceptsListed'
  BY <1>1, <1>3, <1>4 DEF AcceptsListed
<1>11. WantedComes'
  <2>1. \A p \in Person : p \in wanted <=> p \in Friends
    BY <1>3, NoneComes DEF Agree
  <2>2. Friends' = Friends
    <3>1. ASSUME NEW q \in Friends PROVE q \in Friends'
      <4>1. PICK n \in Number : core[n] = q /\ q # Nobody
        BY DEF Friends
      <4>2. n \in Taken
        BY <4>1 DEF Taken
      <4>3. PICK m \in 0 .. Cardinality(Taken) - 1 : at[m] = n
        BY <4>2 DEF Saved, Bijection, Surjection
      <4>4. m \in DOMAIN at /\ m \in Number
        BY <1>2, <1>6
      <4>5. core'[m] = q
        BY <1>2, <4>1, <4>3, <4>4
      <4> QED
        BY <4>1, <4>4, <4>5 DEF Friends
    <3>2. ASSUME NEW q \in Friends' PROVE q \in Friends
      <4>1. PICK n \in Number : core'[n] = q /\ q # Nobody
        BY DEF Friends
      <4>2. at[n] \in Number /\ core[at[n]] = q
        BY <1>2, <1>6, <1>7, <4>1
      <4> QED
        BY <4>1, <4>2 DEF Friends
    <3> QED
      BY <3>1, <3>2
  <2> QED
    BY <1>1, <1>3, <2>1, <2>2 DEF WantedComes, Comes, Goes
<1>12. CountExact'
  <2>1. OnTheWay' = OnTheWay /\ FriendEntries' = FriendEntries
    BY <1>1 DEF OnTheWay, FriendEntries, BaseFacts
  <2>2. Owed' = Owed + Cardinality(Taken)
    BY <1>1, <1>3, <1>6, <2>1, CountTypes DEF Owed
  <2> QED
    BY <1>1, <2>2 DEF CountExact, Agree
<1> QED
  BY <1>8, <1>9, <1>10, <1>11, <1>12 DEF Agree

LEMMA StartAgree ==
    ASSUME BaseFacts, BaseFacts', ListShape, CountCovers, AllKept, MailKept, Agree, Numbers,
           FlistStart
    PROVE  Agree'
<1>1. /\ tox = "up" /\ tox' = "run" /\ item = <<>>
      /\ Len(item') = friend_list_count + 1 /\ friend_list_count \in Nat
      /\ friend_list_size \in Nat /\ friend_list_size <= friend_list_count
      /\ \A k \in 1 .. friend_list_size :
            item'[k] = Friend(friend[k - 1].number) /\ k - 1 \in Number
      /\ item'[friend_list_size + 1] = CreateGroup
      /\ \A k \in friend_list_size + 2 .. Len(item') : item'[k] = Spare
      /\ UNCHANGED <<core, friend, friend_list_size, friend_list_count, frequests, mailbox, uiq,
                     wanted>>
  BY StartFacts DEF BaseFacts
<1>2. /\ \A k \in 1 .. Len(uiq') : uiq'[k].tag \notin {"ADDED", "ACCEPTED", "REMOVE"}
      /\ mailbox.tag \notin {"DELETE", "KILL"} /\ mailbox'.tag \notin {"DELETE", "KILL"}
  BY <1>1 DEF Numbers, Restarting, ListShape
<1>3. FriendsDiffer'
  BY <1>1 DEF Agree, FriendsDiffer
<1>4. NoneForgotten'
  <2>1. ASSUME NEW n \in Number, core'[n] # Nobody PROVE HasNext(n)
    <3>1. n < friend_list_size /\ n \in Nat
      BY <1>1, <2>1, Constants DEF Agree, NoneForgotten
    <3>2. Matches(n)
      BY <1>1, <3>1 DEF Numbers, Restarting
    <3>3. n + 1 \in 1 .. friend_list_size /\ (n + 1) - 1 = n /\ n + 1 \in 1 .. Len(item')
      BY <1>1, <3>1
    <3>4. item'[n + 1] = Friend(n)
      BY <1>1, <3>2, <3>3 DEF Matches
    <3> QED
      BY <3>3, <3>4 DEF HasNext
  <2> QED
    BY <1>1, <2>1 DEF NoneForgotten, Has, HasNext
<1>5. AcceptsListed'
  <2>1. ASSUME mailbox.tag = "ACCEPT", mailbox.at > 0 PROVE frequests[mailbox.at] \in Friends
    <3>1. ~RequestListed(mailbox.at)
      BY <1>1 DEF RequestListed
    <3> QED
      BY <2>1, <3>1 DEF Agree, AcceptsListed
  <2> QED
    BY <1>1, <1>2, <2>1 DEF AcceptsListed, Friends
<1>6. WantedComes'
  BY <1>1, WantedStay, FrequestsSame DEF MailMoves, Agree
<1>7. CountExact'
  <2>1. FriendEntries' = 1 .. friend_list_size
    <3>1. \A k \in 1 .. friend_list_size : item'[k].type = "friend"
      BY <1>1, NewEntries
    <3>2. \A k \in friend_list_size + 1 .. Len(item') : item'[k].type # "friend"
      BY <1>1, NewEntries
    <3>3. 1 .. friend_list_size \subseteq 1 .. Len(item')
          /\ 1 .. Len(item')
               = (1 .. friend_list_size) \cup (friend_list_size + 1 .. Len(item'))
      BY <1>1
    <3>4. DOMAIN item' = 1 .. Len(item')
      BY DEF BaseFacts
    <3> QED
      BY <3>1, <3>2, <3>3, <3>4 DEF FriendEntries
  <2>2. Cardinality(FriendEntries') = friend_list_size
    BY <1>1, <2>1, FS_Interval
  <2>3. FriendEntries = {} /\ OnTheWay' = OnTheWay
    BY <1>1 DEF FriendEntries, OnTheWay
  <2>4. Cardinality(FriendEntries) = 0
    BY <2>3, FS_EmptySet
  <2>5. Owed' = Owed
    BY <1>1, <2>2, <2>3, <2>4, CountTypes DEF Owed
  <2> QED
    BY <1>1, <2>5 DEF CountExact, Agree
<1> QED
  BY <1>3, <1>4, <1>5, <1>6, <1>7 DEF Agree

LEMMA ReceiveAgree ==
    ASSUME BaseFacts, BaseFacts', ListShape, OnceEach, AllKept, MailKept, Numbers, Agree,
           Receive, Alive'
    PROVE  Agree'
<1>1. Head(uiq) \in Message
  BY ReceiveCases
<1>2. ~(Dropped /\ DropCause)
  <2> SUFFICES ASSUME Dropped, DropCause PROVE FALSE
    OBVIOUS
  <2>1. uiq # <<>> /\ crashed' = "no"
    BY DEF Dropped, Alive
  <2>2. Head(uiq).tag \in {"ADDED", "ACCEPTED"} /\ Head(uiq).number >= friend_list_size
    BY <2>1 DEF DropCause
  <2>3. Head(uiq).number \in Number /\ Head(uiq).number < friend_list_size
    BY <2>1, <2>2, HeadClaims DEF Matches
  <2> QED
    BY <2>2, <2>3, Constants DEF BaseFacts
<1>3. CASE PutsRequest
  BY <1>1, <1>3, PutsRequestAgree
<1>4. CASE PutsFriend
  BY <1>1, <1>4, PutsFriendAgree
<1>5. CASE Turns
  BY <1>5, TurnsAgree
<1>6. CASE Freed
  BY <1>6, FreedAgree
<1> QED
  BY <1>2, <1>3, <1>4, <1>5, <1>6, ReceiveCases

LEMMA HandleNewAgree ==
    ASSUME BaseFacts, BaseFacts', Numbers, Agree, HandleNew
    PROVE  Agree'
<1> DEFINE msg(n) == [tag |-> "ADDED", number |-> n, who |-> mailbox.who]
<1>1. /\ tox = "run" /\ mailbox.tag = "ADD" /\ mailbox' = Empty /\ mailbox.who \in Person
      /\ UNCHANGED <<tox, frequests, item, wanted>>
  BY HandleNewCases DEF ToxRuns
<1>2. \A q \in Person : Comes(q) <=> q = mailbox.who
  BY <1>1 DEF Comes
<1>3. CASE mailbox.who \in Friends /\ Handled
  BY <1>1, <1>2, <1>3, HandledAgree
<1>4. CASE mailbox.who \notin Friends /\ \E n \in Number : Befriended(mailbox.who, n, msg(n))
  <2>1. PICK n \in Number : Befriended(mailbox.who, n, msg(n))
    BY <1>4
  <2>2. msg(n).tag = "ADDED" /\ msg(n).number = n
    OBVIOUS
  <2> HIDE DEF msg
  <2> QED
    BY <1>1, <1>2, <1>4, <2>1, <2>2, BefriendedAgree
<1> QED
  BY <1>3, <1>4, HandleNewCases

LEMMA HandleAcceptAgree ==
    ASSUME BaseFacts, BaseFacts', Numbers, Agree, HandleAccept, Alive'
    PROVE  Agree'
<1> DEFINE p == frequests[mailbox.at]
           msg(n) == [tag |-> "ACCEPTED", number |-> n, at |-> mailbox.at]
<1>1. /\ tox = "run" /\ mailbox.tag = "ACCEPT" /\ mailbox' = Empty
      /\ UNCHANGED <<tox, frequests, item, wanted>>
  BY HandleAcceptCases DEF HandleAccept, ToxRuns
<1>2. /\ mailbox.at \in 1 .. Len(frequests) /\ p \in Person
      /\ \/ p \in Friends /\ Handled
         \/ p \notin Friends /\ \E n \in Number : Befriended(p, n, msg(n))
  BY HandleAcceptCases DEF Alive
<1>3. mailbox.at > 0 /\ mailbox.at # Dangling
  BY <1>2 DEF Dangling, BaseFacts
<1>4. \A q \in Person : Comes(q) <=> q = p
  BY <1>1, <1>3 DEF Comes
<1>5. CASE p \in Friends /\ Handled
  BY <1>3, <1>4, <1>5, HandledAgree
<1>6. CASE p \notin Friends /\ \E n \in Number : Befriended(p, n, msg(n))
  <2>1. PICK n \in Number : Befriended(p, n, msg(n))
    BY <1>6
  <2>2. msg(n).tag = "ACCEPTED" /\ msg(n).number = n /\ msg(n).at = mailbox.at
    OBVIOUS
  <2>3. p = frequests[mailbox.at]
    OBVIOUS
  <2> HIDE DEF msg, p
  <2> QED
    BY <1>1, <1>2, <1>3, <1>4, <1>6, <2>1, <2>2, <2>3, BefriendedAgree
<1> QED
  BY <1>2, <1>5, <1>6

LEMMA StepAgreed ==
    Base /\ Base' /\ RequestsApart /\ AcceptsInOrder /\ Numbered /\ Agreed /\ [Next]_vars
        => Agreed'
<1> SUFFICES ASSUME Base, Base', RequestsApart, AcceptsInOrder, Numbered, Agreed, [Next]_vars, Calm'
             PROVE  Agree'
  BY DEF Agreed
<1>0. BaseFacts /\ BaseFacts' /\ ListShape /\ ListShape' /\ CountCovers
  BY BaseGives, BaseGivesNext DEF Base
<1>1. Calm /\ Alive' /\ odd' \cap {"declined", "raced", "reused", "crossed"} = {}
  BY <1>0, CalmBefore DEF Calm
<1>2. odd \cap {"declined", "raced", "reused", "crossed"} = {}
  BY <1>1 DEF Calm
<1>3. Agree /\ OnceEach /\ AllKept /\ MailKept /\ Numbers
  BY <1>1, <1>2 DEF Agreed, RequestsApart, AcceptsInOrder, Ordered, Numbered
<1>4. CASE UserStep
  <2>1. CASE Minds
    BY <1>0, <1>3, <2>1, MindsAgree
  <2>2. CASE \E i \in Int : Deletes(i)
    <3>1. PICK i \in Int : Deletes(i)
      BY <2>2
    <3>2. item[i].type \in {"friend", "request"} /\ "declined" \notin odd'
      BY <1>1, <3>1 DEF Deletes
    <3> QED
      BY <1>0, <1>3, <3>1, <3>2, FriendDeletedAgree, RequestDeletedAgree
  <2>3. CASE \E i, j \in 1 .. Len(item) : Drag(i, j)
    BY <1>0, <1>3, <2>3, DragAgree
  <2>4. CASE ChangeSettings
    BY <1>0, <1>1, <1>3, <2>4, SettingsAgree
  <2> QED
    BY <1>0, <1>4, <2>1, <2>2, <2>3, <2>4, UserMinds
<1>5. CASE Receive
  BY <1>0, <1>1, <1>3, <1>5, ReceiveAgree
<1>6. CASE DrawFault
  BY <1>0, <1>3, <1>6, FaultMinds, MindsAgree
<1>7. CASE Shrink
  BY <1>0, <1>3, <1>7, ShrinkAgree
<1>8. CASE LeaveSpin \/ UNCHANGED vars
  BY <1>0, <1>3, <1>8, SameAgree, FrequestsSame DEF LeaveSpin, vars
<1>9. CASE ToxStep
  <2>1. CASE \E p \in Person : FriendRequest(p)
    BY <1>0, <1>1, <1>3, <2>1, FriendRequestAgree
  <2>2. CASE HandleNew
    BY <1>0, <1>3, <2>2, HandleNewAgree
  <2>3. CASE HandleAccept
    BY <1>0, <1>1, <1>3, <2>3, HandleAcceptAgree
  <2>4. CASE HandleDelete
    BY <1>0, <1>3, <2>4, HandleDeleteAgree
  <2>5. CASE HandleKill
    BY <1>0, <1>3, <2>5, HandleKillAgree
  <2>6. CASE InitTox
    BY <1>0, <1>3, <2>6, InitAgree
  <2>7. CASE FlistStart
    BY <1>0, <1>3, <2>7, StartAgree
  <2> QED
    BY <1>9, <2>1, <2>2, <2>3, <2>4, <2>5, <2>6, <2>7 DEF ToxStep
<1> QED
  BY <1>4, <1>5, <1>6, <1>7, <1>8, <1>9 DEF Next

LEMMA FirstAgreed == Init => Agreed
<1> SUFFICES ASSUME Init PROVE Agree
  BY DEF Agreed
<1>1. /\ core = [n \in Number |-> Nobody] /\ tox = "run" /\ friend_list_count = 0
      /\ item = <<CreateGroup>> /\ uiq = <<>> /\ mailbox = Empty /\ wanted = {}
      /\ Len(item) = 1 /\ item[1] = CreateGroup /\ mailbox.tag = "none" /\ Len(uiq) = 0
  BY NewCommands DEF Init
<1>2. FriendsDiffer /\ NoneForgotten
  BY <1>1 DEF FriendsDiffer, NoneForgotten
<1>3. AcceptsListed /\ WantedComes
  BY <1>1 DEF AcceptsListed, WantedComes, Comes, Goes, Friends
<1>4. CountExact
  <2>1. FriendEntries = {} /\ OnTheWay = {}
    BY <1>1, NewEntries DEF FriendEntries, OnTheWay
  <2>2. Cardinality(FriendEntries) = 0 /\ Cardinality(OnTheWay) = 0
    BY <2>1, FS_EmptySet
  <2> QED
    BY <1>1, <2>2 DEF CountExact, Owed
<1> QED
  BY <1>2, <1>3, <1>4 DEF Agree

\* Where nothing is on its way, who has an entry is who is wanted, and once.
LEMMA QuietAgrees ==
    ASSUME Base, Numbered, Agreed
    PROVE  ListIsTrue
<1> SUFFICES ASSUME Quiet, odd \subseteq {"restart", "jumped", "displaced", "beyond"}
             PROVE  /\ Friends = wanted
                    /\ \A n \in Number :
                          /\ core[n] # Nobody =>
                               n < friend_list_size /\ friend[n] = [who |-> core[n], number |-> n]
                          /\ Cardinality({i \in 1 .. Len(item) : item[i] = Friend(n)})
                               = IF core[n] # Nobody THEN 1 ELSE 0
                    /\ friend_list_count = Cardinality(wanted)
  BY DEF ListIsTrue
<1>0. BaseFacts
  BY BaseGives
<1>1. /\ tox = "run" /\ mailbox = Empty /\ uiq = <<>> /\ mailbox.tag = "none" /\ Len(uiq) = 0
  BY NewCommands DEF Quiet
<1>2. Agree /\ Once /\ Match
  BY DEF Quiet, Alive, Calm, Agreed, Numbered, Numbers, Claims
<1>3. \A i \in 1 .. Len(item), n \in Number :
        item[i] = Friend(n) => i \in Int /\ i > 0 /\ Claim(i) /\ NumberAt(i) = n /\ Matches(n)
  <2> SUFFICES ASSUME NEW i \in 1 .. Len(item), NEW n \in Number, item[i] = Friend(n)
               PROVE  i \in Int /\ i > 0 /\ Claim(i) /\ NumberAt(i) = n /\ Matches(n)
    OBVIOUS
  <2>1. i \in Int /\ i > 0 /\ Claim(i) /\ NumberAt(i) = n
    BY NewEntries DEF Claim, NumberAt
  <2> QED
    BY <1>2, <2>1 DEF Match
<1>4. ASSUME NEW n \in Number, core[n] # Nobody
      PROVE  \E i \in 1 .. Len(item) : item[i] = Friend(n)
  BY <1>1, <1>2, <1>4 DEF Agree, NoneForgotten, Has
<1>5. Friends = wanted
  <2>1. \A p \in Person : p \in wanted <=> p \in Friends
    BY <1>1, <1>2, NoneComes DEF Agree
  <2>2. Friends \subseteq Person /\ wanted \subseteq Person
    BY <1>0 DEF Friends, BaseFacts
  <2> QED
    BY <2>1, <2>2
<1>6. ASSUME NEW n \in Number
      PROVE  /\ core[n] # Nobody =>
                  n < friend_list_size /\ friend[n] = [who |-> core[n], number |-> n]
             /\ Cardinality({i \in 1 .. Len(item) : item[i] = Friend(n)})
                  = IF core[n] # Nobody THEN 1 ELSE 0
  <2> DEFINE places == {i \in 1 .. Len(item) : item[i] = Friend(n)}
  <2>1. CASE core[n] # Nobody
    <3>1. PICK i \in 1 .. Len(item) : item[i] = Friend(n)
      BY <1>4, <2>1
    <3>2. Matches(n)
      BY <1>3, <3>1
    <3>3. ASSUME NEW j \in places PROVE j = i
      BY <1>2, <1>3, <3>1 DEF Once
    <3>4. places = {i}
      BY <3>1, <3>3
    <3>5. Cardinality(places) = 1
      BY <3>4, FS_Singleton
    <3> QED
      BY <2>1, <3>2, <3>5 DEF Matches
  <2>2. CASE core[n] = Nobody
    <3>1. places = {}
      BY <1>3, <2>2 DEF Matches
    <3>2. Cardinality(places) = 0
      BY <3>1, FS_EmptySet
    <3> QED
      BY <2>2, <3>2
  <2> QED
    BY <2>1, <2>2
<1>7. friend_list_count = Cardinality(wanted)
  <2>1. friend_list_count = Cardinality(FriendEntries)
    <3>1. OnTheWay = {}
      BY <1>1 DEF OnTheWay
    <3>2. Cardinality(OnTheWay) = 0 /\ Cardinality(FriendEntries) \in Nat
      BY <1>0, <3>1, FS_EmptySet, CountTypes
    <3> QED
      BY <1>1, <1>2, <3>2 DEF Agree, CountExact, Owed
  <2> DEFINE who == [i \in FriendEntries |-> core[item[i].id]]
  <2>2. ASSUME NEW i \in FriendEntries
        PROVE  /\ i \in 1 .. Len(item) /\ item[i].id \in Number /\ item[i] = Friend(item[i].id)
               /\ core[item[i].id] \in Friends
    <3>1. i \in 1 .. Len(item) /\ item[i].type = "friend"
      BY <1>0 DEF FriendEntries, BaseFacts
    <3>2. item[i].id \in Number /\ item[i] = Friend(item[i].id)
      BY <1>0, <3>1, EntryFacts DEF BaseFacts
    <3>3. core[item[i].id] # Nobody
      BY <1>3, <3>1, <3>2 DEF Matches
    <3> QED
      BY <3>1, <3>2, <3>3 DEF Friends
  <2>3. ASSUME NEW i \in FriendEntries, NEW j \in FriendEntries, core[item[i].id] = core[item[j].id]
        PROVE  i = j
    <3>1. item[i].id = item[j].id
      BY <1>2, <2>2, <2>3 DEF Agree, FriendsDiffer, Friends
    <3> QED
      BY <1>2, <1>3, <2>2, <3>1 DEF Once
  <2>4. ASSUME NEW p \in Friends PROVE \E i \in FriendEntries : core[item[i].id] = p
    <3>1. PICK n \in Number : core[n] = p /\ p # Nobody
      BY DEF Friends
    <3>2. PICK i \in 1 .. Len(item) : item[i] = Friend(n)
      BY <1>4, <3>1
    <3>3. i \in FriendEntries /\ item[i].id = n
      BY <1>0, <3>2, NewEntries DEF FriendEntries, BaseFacts
    <3> QED
      BY <3>1, <3>3
  <2>5. who \in Bijection(FriendEntries, Friends)
    BY <2>2, <2>3, <2>4 DEF Bijection, Injection, Surjection, IsInjective
  <2>6. IsFiniteSet(FriendEntries)
    BY <1>0, CountTypes
  <2> HIDE DEF who
  <2>7. Cardinality(Friends) = Cardinality(FriendEntries)
    BY <2>5, <2>6, FS_Bijection DEF ExistsBijection
  <2> QED
    BY <1>5, <2>1, <2>7
<1> QED
  BY <1>5, <1>6, <1>7

\* The friends of toxcore, the FRIENDs with their count and the entries of the list
\* are kept by the handlers of two threads, through messages that cross each other
\* and a restart: whenever nothing is on its way they agree, and are the friends
\* that the user wants, unless an odd event that the property names has happened.
THEOREM ListAlwaysTrue == Spec => []ListIsTrue
<1> DEFINE All == Base /\ RequestsApart /\ AcceptsInOrder /\ Numbered /\ Agreed
<1>1. Init => All
  BY FirstBase, FirstApart, FirstOrdered, FirstNumbered, FirstAgreed
<1>2. All /\ [Next]_vars => All'
  BY StepBase, StepApart, StepOrdered, StepNumbered, StepAgreed
<1>3. All => ListIsTrue
  BY QuietAgrees
<1> QED
  BY <1>1, <1>2, <1>3, PTL DEF Spec

=============================================================================
