----------------------------- MODULE ContactList -----------------------------
(***************************************************************************)
(* The contact list: the entries that the UI thread draws, selects, drags  *)
(* and deletes (flist.c, layout/friend.c, utox.c), and the arrays of       *)
(* FRIENDs and FREQUESTs (friend.c), which the toxcore thread grows.       *)
(*                                                                         *)
(* Pointers into an array are indices.  A realloc that moves the array     *)
(* leaves those that are kept Dangling; to use one is a fault, and a fault *)
(* ends the behavior.  Groups have entries too (see Groups); here the list *)
(* has friends, requests and, at its end, "create group".  The filter and  *)
(* the search are left out: all entries are shown.  The mouse moves where  *)
(* it is pressed or dragged to in one step, so that of the pointers that   *)
(* it keeps between messages, all of which newitem leaves behind when the  *)
(* list moves, only that of the menu is here.  A handler of the UI thread  *)
(* is one step, but for friend_request_free, which shrinks an array that   *)
(* the toxcore thread may be growing.                                      *)
(***************************************************************************)
EXTENDS Integers, Sequences, FiniteSets, SequencesExt

CONSTANTS
    Person,          \* those who can be friends, by public key
    Nobody,
    Limits           \* bounds, of which each behavior takes one: who takes part,
                     \* the length of frequests and of the queue to the UI
                     \* thread, and what odd event may happen

\* What the code does not count on: a request is declined while its acceptance is
\* on its way; another request comes while one is freed; an entry is selected
\* while the menu is open; the entry of "create group" is selected and a new one
\* takes its place; a new friend is not shown, having a number beyond the list; a
\* friend's number is taken again before its FRIEND is freed;
\* toxcore restarts; a message about a friend is on its way when it does.
OddEvent == {"declined", "raced", "jumped", "displaced", "beyond", "reused", "restart", "crossed"}

ASSUME ContactListAssumption ==
    /\ IsFiniteSet(Person) /\ Person # {} /\ Nobody \notin Person
    /\ Limits \subseteq [people : SUBSET Person, requests : Nat, queue : Nat \ {0},
                         odd : SUBSET OddEvent]

\* Friend numbers; toxcore takes the lowest that is free.
Number == 0 .. Cardinality(Person) - 1

\* Pointers that are not an index.
Null == 0
Dangling == -1
SettingsPage == -2      \* &item_settings
AddPage == -3           \* &item_add
Leaked == -4            \* into the FRIENDs of an earlier Tox instance
NoFriend == -5

Friend(n) == [type |-> "friend", id |-> n]
Request(r) == [type |-> "request", id |-> r]
CreateGroup == [type |-> "create", id |-> 0]
Spare == [type |-> "none", id |-> 0]        \* a place that calloc has zeroed

\* memset(f, 0, sizeof(FRIEND))
Zeroed == [who |-> Nobody, number |-> 0]

VARIABLES
    core,                \* toxcore's friends (external)
    tox,                 \* toxcore thread: "run", "down", or "up", before flist_start
    \* friend.c
    friend, friend_list_size, friend_list_count,
    frequests,           \* their numbers are one less than their place here
    frequests_freed,     \* frequests points to what realloc has freed
    \* flist.c
    item, selected_item, right_mouse_item,
    \* the UI
    menu,                \* the context menu: "closed", or of what it was opened for
    panels,              \* the panels that are enabled, of those an entry has
    messages_friend,     \* the FRIEND that messages_friend.object belongs to
    ui,                  \* UI thread: "loop", "spin", or "shrink" in friend_request_free
    \* messages
    mailbox,             \* the slot of postmessage_toxcore
    uiq,                 \* messages on their way to the UI thread
    \* histories
    wanted,              \* whom the user has added or accepted, and not deleted
    crashed,             \* "no", or what was used after it was moved or freed, or NULL
    odd,                 \* the odd events that have happened
    limits

friendVars == <<friend, friend_list_size, friend_list_count>>
mouseVars == <<right_mouse_item, menu>>
pageVars == <<selected_item, panels, messages_friend>>
messageVars == <<mailbox, uiq>>
histVars == <<wanted, crashed, odd, limits>>
requestVars == <<frequests, frequests_freed>>
vars == <<core, tox, friendVars, requestVars, item, mouseVars, pageVars, ui, messageVars, histVars>>

Empty == [tag |-> "none"]

\* postmessage_toxcore.  Bound: nobody posts while the slot is full (see ToxMailbox)
\* or toxcore is down, when the message would be dropped.
Post(msg) == mailbox = Empty /\ tox # "down" /\ mailbox' = msg

\* A fault ends both threads.
Alive == crashed = "no"
Looping == Alive /\ ui = "loop"
ToxRuns == Alive /\ tox = "run"

\* Bound: one kind of odd event to a behavior, besides a message that crosses a restart.
Happens(events) ==
    /\ odd' = odd \cup events
    /\ odd' \subseteq limits.odd /\ Cardinality(odd' \ {"crossed"}) <= 1

Init ==
    /\ core = [n \in Number |-> Nobody] /\ tox = "run"
    /\ friend = [n \in Number |-> Zeroed] /\ friend_list_size = 0 /\ friend_list_count = 0
    /\ frequests = <<>> /\ frequests_freed = FALSE
    /\ item = <<CreateGroup>> /\ selected_item = SettingsPage
    /\ right_mouse_item = Null
    /\ menu = "closed" /\ panels = {} /\ messages_friend = NoFriend
    /\ ui = "loop" /\ mailbox = Empty /\ uiq = <<>>
    /\ wanted = {} /\ crashed = "no" /\ odd = {} /\ limits \in Limits

\* What is used after it was moved or freed, or NULL, is named.
Fault(what) ==
    /\ crashed' = what
    /\ UNCHANGED <<core, tox, friendVars, requestVars, item, mouseVars, pageVars, ui,
                   messageVars, wanted, limits, odd>>

-----------------------------------------------------------------------------
(* Pages *)

Listed(i) == i \in 1 .. Len(item)

\* An entry just behind the list is what memmove left there of the last one.
At(i) == IF Listed(i) THEN item[i] ELSE Last(item)

\* The panel that page_open enables.
Opens(entry) == IF entry = Spare THEN {} ELSE {entry.type}

\* A bug: the page of a friend leaves the question open.
ClosesMutKeepsQuestion(list, i) ==
    IF i \notin 1 .. Len(list) THEN {}
    ELSE CASE list[i].type = "friend"  -> {"friend", "request"}
           [] list[i].type = "request" -> {"request"}
           [] OTHER                    -> Opens(list[i])

\* The panels that page_close disables.
Closes(list, i) ==
    IF i \notin 1 .. Len(list) THEN {}
    ELSE CASE list[i].type = "friend"  -> {"friend", "confirm", "request"}
           [] list[i].type = "request" -> {"request"}
           [] OTHER                    -> Opens(list[i])

\* show_page of an entry: page_close, page_open, and the selection.
ShowPage(list, i) ==
    /\ panels' = (panels \ Closes(list, selected_item)) \cup Opens(list[i])
    /\ messages_friend' = IF list[i].type = "friend" THEN list[i].id ELSE messages_friend
    /\ selected_item' = i

ShowStatic(page) ==
    /\ panels' = panels \ Closes(item, selected_item)
    /\ selected_item' = page
    /\ UNCHANGED messages_friend

-----------------------------------------------------------------------------
(* The mouse in the list *)

\* flist_mdown and flist_mup.  mouse_down of X11 moves before it presses.
Click(i) ==
    /\ Looping /\ menu = "closed"
    /\ ShowPage(item, i)
    /\ UNCHANGED <<core, tox, friendVars, requestVars, item, mouseVars, ui, messageVars, histVars>>

\* The entry i is selected when it has been dragged by 5 pixels, and changes
\* places with j where the button is released.
Drag(i, j) ==
    /\ Looping /\ menu = "closed" /\ i # j /\ item[i].type = "friend" /\ item[j].type = "friend"
    /\ item' = [item EXCEPT ![i] = item[j], ![j] = item[i]]
    /\ ShowPage(item', j)
    /\ UNCHANGED <<core, tox, friendVars, requestVars, mouseVars, ui, messageVars, histVars>>

\* A bug: the menu is opened without the page.
RightPressMutNoPage(i) ==
    /\ Looping /\ right_mouse_item' = i
    /\ menu' = IF At(i) \in {CreateGroup, Spare} THEN menu ELSE At(i).type
    /\ UNCHANGED <<core, tox, friendVars, requestVars, item, pageVars, ui, messageVars, histVars>>

\* flist_mright of mouseover_item, which it does not determine anew: where the
\* list has become shorter, i may be just behind it.
RightPress(i) ==
    /\ Looping /\ right_mouse_item' = i
    /\ menu' = IF At(i) \in {CreateGroup, Spare} THEN menu ELSE At(i).type
    /\ IF At(i).type = "friend" THEN ShowPage(item, i) ELSE UNCHANGED pageVars
    /\ UNCHANGED <<core, tox, friendVars, requestVars, item, ui, messageVars, histVars>>

\* An entry is selected while the menu is open.
Jumps == IF menu = "closed" THEN {} ELSE {"jumped"}

\* flist_previous_tab, flist_next_tab, flist_first_tab, flist_last_tab.
ChangeTab(i) ==
    /\ Looping
    /\ \/ /\ Listed(selected_item)
          /\ i \in {(selected_item % Len(item)) + 1,
                    ((selected_item + Len(item) - 2) % Len(item)) + 1}
       \/ i = 1 /\ Len(item) >= 1
       \/ i = Len(item) - 1 /\ Len(item) >= 2
    /\ ShowPage(item, i) /\ Happens(Jumps)
    /\ UNCHANGED <<core, tox, friendVars, requestVars, item, mouseVars, ui, messageVars, wanted,
                   limits, crashed>>

\* The menu uses the pointer to what it was opened for, which newitem has left
\* behind.
MouseFault ==
    /\ Looping /\ menu # "closed" /\ right_mouse_item = Dangling
    /\ Fault("ITEM")

-----------------------------------------------------------------------------
(* Deleting *)

\* The accept of a request is on its way to the toxcore thread or back.
Accepting(r) ==
    \/ mailbox.tag = "ACCEPT" /\ mailbox.at = r
    \/ \E k \in 1 .. Len(uiq) : uiq[k].tag = "ACCEPTED" /\ uiq[k].at = r

\* A bug: the array shrinks for the last request but one, too.
IsLastMutOffByOne(r) == r + 1 >= Len(frequests)

IsLast(r) == r = Len(frequests)

\* deleteitem posts or, in friend_request_free, finds that the array can shrink.
FreeEntry(entry) ==
    \/ /\ entry.type = "friend"
       /\ Post([tag |-> "DELETE", number |-> friend[entry.id].number, at |-> entry.id])
       /\ wanted' = wanted \ {friend[entry.id].who}
       /\ UNCHANGED <<ui, odd>>
    \/ /\ entry.type = "request"
       /\ ui' = IF IsLast(entry.id) THEN "shrink" ELSE ui
       /\ Happens(IF Accepting(entry.id) THEN {"declined"} ELSE {})
       /\ UNCHANGED <<mailbox, wanted>>

\* The page that deleteitem shows in place of the deleted one.
Neighbour(i) ==
    IF i # selected_item THEN selected_item
    ELSE IF i < Len(item) THEN i + 1 ELSE IF i > 1 THEN i - 1 ELSE AddPage

ShowNeighbour(i) ==
    IF i # selected_item THEN UNCHANGED <<panels, messages_friend>>
    ELSE IF Neighbour(i) = AddPage
         THEN panels' = panels \ Closes(item, i) /\ UNCHANGED messages_friend
         ELSE LET entry == item[Neighbour(i)]
              IN /\ panels' = (panels \ Closes(item, i)) \cup Opens(entry)
                 /\ messages_friend' = IF entry.type = "friend" THEN entry.id ELSE messages_friend

DeleteItem(i) ==
    /\ right_mouse_item' = Null
    /\ ShowNeighbour(i)
    /\ IF item[i] \in {CreateGroup, Spare}
       THEN selected_item' = Neighbour(i) /\ UNCHANGED <<item, mailbox, ui, wanted, odd>>
       ELSE /\ FreeEntry(item[i])
            /\ item' = RemoveAt(item, i)
            /\ selected_item' = IF Neighbour(i) > i THEN Neighbour(i) - 1 ELSE Neighbour(i)
    /\ UNCHANGED <<core, tox, friendVars, requestVars, uiq, limits, crashed>>

\* The rest of friend_request_free: the length is read once more.  realloc to
\* no bytes frees the array and returns NULL, and then the array and its length
\* stay as they are.
Shrink ==
    /\ Alive /\ ui = "shrink" /\ ui' = "loop"
    /\ IF Len(frequests) > 1
       THEN frequests' = Front(frequests) /\ UNCHANGED frequests_freed
       ELSE frequests_freed' = TRUE /\ UNCHANGED frequests
    /\ UNCHANGED <<core, tox, friendVars, item, mouseVars, pageVars, messageVars, histVars>>

Accept(r) ==
    /\ r <= Len(frequests)
    /\ Post([tag |-> "ACCEPT", at |-> r])
    /\ wanted' = wanted \cup {frequests[r]}

\* The user releases over an option (contextmenu_list_onselect): of the four
\* options for a friend only "remove" matters here.
MenuSelect ==
    /\ Looping /\ menu # "closed" /\ right_mouse_item # Dangling
    /\ menu' = "closed"
    /\ \/ /\ At(right_mouse_item).type = "friend" /\ menu = "friend"
          /\ panels' = panels \cup {"confirm"}
          /\ UNCHANGED <<item, right_mouse_item, selected_item, messages_friend, mailbox, ui,
                         wanted, odd>>
       \/ /\ At(right_mouse_item).type = "request"
          /\ Accept(At(right_mouse_item).id)
          /\ UNCHANGED <<item, right_mouse_item, pageVars, ui, odd>>
       \/ UNCHANGED <<item, right_mouse_item, pageVars, mailbox, ui, wanted, odd>>
    /\ UNCHANGED <<core, tox, friendVars, requestVars, uiq, limits, crashed>>

Decline ==
    /\ Looping /\ menu # "closed"
    /\ Listed(right_mouse_item) /\ item[right_mouse_item].type = "request"
    /\ menu' = "closed"
    /\ DeleteItem(right_mouse_item)

Asks == "confirm" \in panels /\ "friend" \in panels

\* button_confirm_deletion.  A pointer that newitem has left behind is not in the
\* list, so that nothing happens.
ConfirmDeletion ==
    /\ Looping /\ Asks /\ menu = "closed"
    /\ Listed(right_mouse_item) /\ DeleteItem(right_mouse_item)
    /\ UNCHANGED menu

DenyDeletion ==
    /\ Looping /\ Asks /\ menu = "closed"
    /\ panels' = panels \ {"confirm"}
    /\ UNCHANGED <<core, tox, friendVars, requestVars, item, mouseVars, selected_item,
                   messages_friend, ui, messageVars, histVars>>

-----------------------------------------------------------------------------
(* Buttons that add a friend, and the settings *)

\* button_accept_friend: of what is selected, which may be no request any more.
AcceptFriend ==
    /\ Looping /\ "request" \in panels /\ menu = "closed"
    /\ panels' = panels \ {"request"}
    /\ LET entry == item[selected_item]
       IN IF Listed(selected_item) /\ entry.type = "request" /\ entry.id <= Len(frequests)
          THEN Accept(entry.id)
          ELSE Post([tag |-> "ACCEPT", at |-> Null]) /\ UNCHANGED wanted
    /\ UNCHANGED <<core, tox, friendVars, requestVars, item, mouseVars, selected_item,
                   messages_friend, ui, uiq, limits, crashed, odd>>

\* button_ignore_friend.  The page that follows may be a request too: its panel
\* is disabled with the one that is left.
IgnoreFriend ==
    /\ Looping /\ "request" \in panels /\ menu = "closed"
    /\ Listed(selected_item) /\ item[selected_item].type = "request"
    /\ item[selected_item].id <= Len(frequests)
    /\ right_mouse_item' = Null
    /\ FreeEntry(item[selected_item])
    /\ item' = RemoveAt(item, selected_item)
    /\ LET next == item[selected_item + 1]
       IN /\ panels' = (panels \cup Opens(next)) \ {"request"}
          /\ messages_friend' = IF next.type = "friend" THEN next.id ELSE messages_friend
    /\ UNCHANGED <<core, tox, friendVars, requestVars, menu, selected_item, uiq,
                   limits, crashed>>

\* button_add_new_contact and button_settings.
SelectStatic(page) ==
    /\ Looping /\ menu = "closed" /\ page # selected_item
    /\ ShowStatic(page)
    /\ UNCHANGED <<core, tox, friendVars, requestVars, item, mouseVars, ui, messageVars, histVars>>

\* friend_add.
SendRequest(p) ==
    /\ Looping /\ selected_item = AddPage /\ menu = "closed" /\ p \in limits.people
    /\ Post([tag |-> "ADD", who |-> p])
    /\ wanted' = wanted \cup {p}
    /\ UNCHANGED <<core, tox, friendVars, requestVars, item, mouseVars, pageVars, ui, uiq,
                   limits, crashed, odd>>

ListedFriends == {item[i].id : i \in {j \in 1 .. Len(item) : item[j].type = "friend"}}

\* A pointer into the list, after the list was moved or freed.
Stale(p) == IF p > 0 THEN Dangling ELSE p

\* flist_freeall frees the requests as they are listed, and each shortens the
\* array that is then its last: those from r on go one after the other.
Shortens(r) ==
    \E at \in [r .. Len(frequests) -> 1 .. Len(item)] :
        /\ \A k \in r .. Len(frequests) : item[at[k]] = Request(k)
        /\ \A k \in r .. Len(frequests) - 1 : at[k + 1] < at[k]

\* tox_settingschanged up to its wait: flist_freeall, and the message.  The first
\* request does not shorten the array but frees it.
ChangeSettings ==
    /\ Looping /\ selected_item = SettingsPage /\ menu = "closed"
    /\ "restart" \notin odd
    /\ Post([tag |-> "KILL"])
    /\ friend' = [n \in Number |-> IF n \in ListedFriends THEN Zeroed ELSE friend[n]]
    /\ friend_list_count' = friend_list_count
         - Cardinality({i \in 1 .. Len(item) : item[i].type = "friend"})
    /\ \E r \in 1 .. Len(frequests) + 1 :
         /\ Shortens(r) /\ ~Shortens(r - 1)
         /\ LET frees == r = 1 /\ frequests # <<>>
            IN /\ frequests' = SubSeq(frequests, 1, IF frees THEN 1 ELSE r - 1)
               /\ frequests_freed' = (frequests_freed \/ frees)
    /\ item' = <<>> /\ right_mouse_item' = Stale(right_mouse_item)
    /\ ui' = "spin"
    /\ Happens({"restart"} \cup IF \E k \in 1 .. Len(uiq) : uiq[k].tag # "INCOMING"
                               THEN {"crossed"} ELSE {})
    /\ UNCHANGED <<core, tox, friend_list_size, menu, pageVars, uiq, wanted, crashed, limits>>

LeaveSpin ==
    /\ Alive /\ ui = "spin" /\ tox # "down" /\ ui' = "loop"
    /\ UNCHANGED <<core, tox, friendVars, requestVars, item, mouseVars, pageVars, messageVars,
                   histVars>>

-----------------------------------------------------------------------------
(* Messages to the UI thread *)

\* newitem: the new entry takes the place of "create group", which moves on.
Grown(entry) == SubSeq(item, 1, Len(item) - 1) \o <<entry, CreateGroup>>

NewItem(entry) ==
    /\ item' = Grown(entry)
    /\ right_mouse_item' \in {right_mouse_item, Stale(right_mouse_item)}

Displaces == IF selected_item = Len(item) THEN {"displaced"} ELSE {}

Incoming(msg) ==
    IF item = <<>> \/ msg.at > Len(frequests) \/ frequests_freed
    THEN crashed' = "NULL" /\ UNCHANGED <<item, mouseVars, pageVars, friendVars, odd>>
    ELSE /\ NewItem(Request(msg.at)) /\ Happens(Displaces)
         /\ UNCHANGED <<menu, pageVars, friendVars, crashed>>

\* FRIEND_SEND_REQUEST of a friend that was added.  flist_selectchat takes the
\* friend's number for its place in the list.
Added(msg) ==
    IF msg.number >= friend_list_size
    THEN UNCHANGED <<item, mouseVars, pageVars, friendVars, crashed, odd>>
    ELSE IF item = <<>>
    THEN crashed' = "NULL" /\ UNCHANGED <<item, mouseVars, pageVars, friendVars, odd>>
    ELSE LET f == friend[msg.number]
             list == Grown(Friend(f.number))
         IN /\ friend' = [friend EXCEPT ![msg.number].who = msg.who]
            /\ NewItem(Friend(f.number))
            /\ IF f.number + 1 <= Len(list) THEN ShowPage(list, f.number + 1)
               ELSE UNCHANGED pageVars
            /\ Happens(Displaces \cup Jumps
                       \cup IF f.number + 1 > Len(list) THEN {"beyond"} ELSE {})
            /\ UNCHANGED <<menu, friend_list_size, friend_list_count, crashed>>

\* FRIEND_ACCEPT_REQUEST: the entry of the request becomes the friend's.
Accepted(msg) ==
    IF msg.number >= friend_list_size
    THEN UNCHANGED <<item, mouseVars, pageVars, friendVars, crashed, odd>>
    ELSE IF msg.at = Dangling \/ msg.at > Len(frequests) \/ frequests_freed
    THEN crashed' = "FREQUEST" /\ UNCHANGED <<item, mouseVars, pageVars, friendVars, odd>>
    ELSE LET list == [i \in 1 .. Len(item) |->
                        IF item[i] = Request(msg.at) /\ \A k \in 1 .. i - 1 : item[k] # item[i]
                        THEN Friend(friend[msg.number].number) ELSE item[i]]
         IN /\ item' = list
            /\ IF selected_item > 0 THEN ShowPage(list, selected_item) ELSE UNCHANGED pageVars
            /\ UNCHANGED <<mouseVars, friendVars, crashed, odd>>

\* A bug: friend_free leaves the count.
RemovedMutCounted(msg) ==
    /\ IF msg.at = Dangling THEN crashed' = "FRIEND" /\ UNCHANGED <<friendVars, odd>>
       ELSE /\ friend' = IF msg.at = Leaked THEN friend ELSE [friend EXCEPT ![msg.at] = Zeroed]
            /\ Happens(IF msg.at # Leaked /\ core[msg.at] # Nobody THEN {"reused"} ELSE {})
            /\ UNCHANGED <<friend_list_size, friend_list_count, crashed>>
    /\ UNCHANGED <<item, mouseVars, pageVars>>

\* FRIEND_REMOVE: friend_free.  The number may be another friend's by now.
Removed(msg) ==
    /\ IF msg.at = Dangling THEN crashed' = "FRIEND" /\ UNCHANGED <<friendVars, odd>>
       ELSE /\ friend' = IF msg.at = Leaked THEN friend ELSE [friend EXCEPT ![msg.at] = Zeroed]
            /\ friend_list_count' = friend_list_count - 1
            /\ Happens(IF msg.at # Leaked /\ core[msg.at] # Nobody THEN {"reused"} ELSE {})
            /\ UNCHANGED <<friend_list_size, crashed>>
    /\ UNCHANGED <<item, mouseVars, pageVars>>

Receive ==
    /\ Looping /\ uiq # <<>> /\ uiq' = Tail(uiq)
    /\ LET msg == Head(uiq)
       IN CASE msg.tag = "INCOMING" -> Incoming(msg)
            [] msg.tag = "ADDED"    -> Added(msg)
            [] msg.tag = "ACCEPTED" -> Accepted(msg)
            [] msg.tag = "REMOVE"   -> Removed(msg)
    /\ UNCHANGED <<core, tox, requestVars, ui, mailbox, wanted, limits>>

\* The page of a friend is drawn from what page_open has left.
DrawFault ==
    /\ Looping /\ "friend" \in panels /\ messages_friend = Dangling
    /\ Fault("FRIEND")

-----------------------------------------------------------------------------
(* The toxcore thread *)

Tell(msg) == Len(uiq) < limits.queue /\ uiq' = Append(uiq, msg)

\* Pointers into frequests or friend, on their way, after the array has moved.
StaleAt(msg, tags) == IF msg.tag \in tags THEN [msg EXCEPT !.at = Stale(@)] ELSE msg

Friends == {core[n] : n \in Number} \ {Nobody}

\* callback_friend_request.
FriendRequest(p) ==
    /\ ToxRuns /\ p \in limits.people \ Friends /\ Len(frequests) < limits.requests
    /\ IF frequests_freed
       THEN crashed' = "freed" /\ UNCHANGED <<frequests, messageVars, odd>>
       ELSE /\ frequests' = Append(frequests, p) /\ Len(uiq) < limits.queue
            /\ \E moved \in BOOLEAN :
                 LET Now(msg) == IF moved THEN StaleAt(msg, {"ACCEPT", "ACCEPTED"}) ELSE msg
                 IN /\ mailbox' = Now(mailbox)
                    /\ uiq' = Append([k \in 1 .. Len(uiq) |-> Now(uiq[k])],
                                     [tag |-> "INCOMING", at |-> Len(frequests) + 1])
            /\ Happens(IF ui = "shrink" THEN {"raced"} ELSE {})
            /\ UNCHANGED crashed
    /\ UNCHANGED <<core, tox, friendVars, frequests_freed, item, mouseVars, pageVars, ui, wanted,
                   limits>>

\* tox_friend_add and tox_friend_add_norequest (external) take the lowest number.
Free(n) == core[n] = Nobody /\ \A m \in 0 .. n - 1 : core[m] # Nobody

\* A bug: friends are counted only where the array grows.
CountedMutOnlyGrown(n) == IF n < friend_list_size THEN friend_list_count ELSE friend_list_count + 1

Counted(n) == friend_list_count + 1

\* utox_friend_init, where friend_make may move the array, and the message after it.
Befriend(p, n, msg) ==
    /\ core' = [core EXCEPT ![n] = p]
    /\ friend' = [friend EXCEPT ![n] = [who |-> p, number |-> n]]
    /\ friend_list_count' = Counted(n)
    /\ friend_list_size' = IF n < friend_list_size THEN friend_list_size ELSE n + 1
    /\ Len(uiq) < limits.queue
    /\ \/ uiq' = Append(uiq, msg) /\ UNCHANGED messages_friend
       \/ /\ n >= friend_list_size
          /\ uiq' = Append([k \in 1 .. Len(uiq) |->
                              IF uiq[k].tag = "REMOVE" /\ uiq[k].at # Leaked
                              THEN [uiq[k] EXCEPT !.at = Dangling] ELSE uiq[k]], msg)
          /\ messages_friend' = IF messages_friend \in Number THEN Dangling ELSE messages_friend

\* Errors only show as a status of the page that adds friends.
HandleNew ==
    /\ ToxRuns /\ mailbox.tag = "ADD" /\ mailbox' = Empty
    /\ IF mailbox.who \in Friends
       THEN UNCHANGED <<core, friendVars, uiq, messages_friend>>
       ELSE \E n \in Number : Free(n) /\ Befriend(mailbox.who, n,
                [tag |-> "ADDED", number |-> n, who |-> mailbox.who])
    /\ UNCHANGED <<tox, requestVars, item, mouseVars, selected_item, panels, ui, histVars>>

HandleAccept ==
    /\ ToxRuns /\ mailbox.tag = "ACCEPT" /\ mailbox' = Empty
    /\ LET r == mailbox.at
       IN IF r \in {Null, Dangling} \/ r > Len(frequests) \/ frequests_freed
          THEN /\ crashed' = IF r = Null THEN "NULL" ELSE "FREQUEST"
               /\ UNCHANGED <<core, friendVars, uiq, messages_friend>>
          ELSE /\ UNCHANGED crashed
               /\ IF frequests[r] \in Friends
                  THEN UNCHANGED <<core, friendVars, uiq, messages_friend>>
                  ELSE \E n \in Number : Free(n) /\ Befriend(frequests[r], n,
                           [tag |-> "ACCEPTED", number |-> n, at |-> r])
    /\ UNCHANGED <<tox, requestVars, item, mouseVars, selected_item, panels, ui, wanted, limits,
                   odd>>

HandleDelete ==
    /\ ToxRuns /\ mailbox.tag = "DELETE" /\ mailbox' = Empty
    /\ core' = [core EXCEPT ![mailbox.number] = Nobody]
    /\ Tell([tag |-> "REMOVE", at |-> mailbox.at])
    /\ UNCHANGED <<tox, friendVars, requestVars, item, mouseVars, pageVars, ui, histVars>>

HandleKill ==
    /\ ToxRuns /\ mailbox.tag = "KILL" /\ mailbox' = Empty /\ tox' = "down"
    /\ UNCHANGED <<core, friendVars, requestVars, item, mouseVars, pageVars, ui, uiq, histVars>>

Taken == {n \in Number : core[n] # Nobody}

\* The numbers that are taken, in their order, are what a save keeps of them.
Saved ==
    {at \in Bijection(0 .. Cardinality(Taken) - 1, Taken) :
        \A m, n \in DOMAIN at : m < n => at[m] < at[n]}

\* A bug: the FRIENDs of the last instance are kept.
LoadedFriendsMutOld(at) == friend

LoadedFriends(at) ==
    [n \in Number |-> IF n \in DOMAIN at THEN [who |-> core[at[n]], number |-> n] ELSE Zeroed]

\* utox_friend_list_init: what was saved is loaded without gaps, in a new array.
\* It does not set the count to zero before utox_friend_init adds to it.
InitTox ==
    /\ Alive /\ tox = "down" /\ tox' = "up"
    /\ \E at \in Saved :
         /\ core' = [n \in Number |-> IF n \in DOMAIN at THEN core[at[n]] ELSE Nobody]
         /\ friend' = LoadedFriends(at)
    /\ friend_list_size' = Cardinality(Taken)
    /\ friend_list_count' = friend_list_count + Cardinality(Taken)
    /\ uiq' = [k \in 1 .. Len(uiq) |-> IF uiq[k].tag = "REMOVE" THEN [uiq[k] EXCEPT !.at = Leaked]
                                       ELSE uiq[k]]
    /\ messages_friend' = IF messages_friend = NoFriend THEN NoFriend ELSE Leaked
    /\ UNCHANGED <<requestVars, item, mouseVars, selected_item, panels, ui, mailbox, histVars>>

\* flist_start, which runs while the UI thread does.
FlistStart ==
    /\ Alive /\ tox = "up" /\ tox' = "run"
    /\ selected_item' = SettingsPage
    /\ LET found == IF friend_list_count < friend_list_size
                    THEN friend_list_count ELSE friend_list_size
       IN item' = [k \in 1 .. found |-> Friend(friend[k - 1].number)] \o <<CreateGroup>>
                  \o [k \in 1 .. friend_list_count - found |-> Spare]
    /\ UNCHANGED <<core, friendVars, requestVars, mouseVars, panels, messages_friend, ui,
                   messageVars, histVars>>

-----------------------------------------------------------------------------
UserStep ==
    \/ \E i \in 1 .. Len(item) : Click(i) \/ ChangeTab(i)
    \/ \E i, j \in 1 .. Len(item) : Drag(i, j)
    \/ \E i \in 1 .. Len(item) + 1 : item # <<>> /\ RightPress(i)
    \/ MouseFault
    \/ MenuSelect
    \/ Decline
    \/ ConfirmDeletion
    \/ DenyDeletion
    \/ AcceptFriend
    \/ IgnoreFriend
    \/ \E page \in {SettingsPage, AddPage} : SelectStatic(page)
    \/ \E p \in Person : SendRequest(p)
    \/ ChangeSettings

ToxStep ==
    \/ \E p \in Person : FriendRequest(p)
    \/ HandleNew \/ HandleAccept \/ HandleDelete \/ HandleKill \/ InitTox \/ FlistStart

Next == UserStep \/ Receive \/ DrawFault \/ Shrink \/ LeaveSpin \/ ToxStep

Spec == Init /\ [][Next]_vars

-----------------------------------------------------------------------------
Entry == [type : {"friend"}, id : Number] \cup [type : {"request"}, id : Nat \ {0}] \cup {CreateGroup, Spare}
Page == {SettingsPage, AddPage} \cup Nat
Message ==
    [tag : {"INCOMING"}, at : Nat \ {0}] \cup [tag : {"ADDED"}, number : Number, who : Person]
    \cup [tag : {"ACCEPTED"}, number : Number, at : {Dangling} \cup (Nat \ {0})]
    \cup [tag : {"REMOVE"}, at : Number \cup {Dangling, Leaked}]
Command ==
    {Empty} \cup [tag : {"ADD"}, who : Person] \cup [tag : {"ACCEPT"}, at : {Dangling} \cup Nat]
    \cup [tag : {"DELETE"}, number : Number, at : Number] \cup [tag : {"KILL"}]

TypeOK ==
    /\ core \in [Number -> Person \cup {Nobody}] /\ tox \in {"run", "down", "up"}
    /\ friend \in [Number -> [who : Person \cup {Nobody}, number : Number]]
    /\ friend_list_size \in 0 .. Cardinality(Person) /\ friend_list_count \in Nat
    /\ frequests \in Seq(Person) /\ frequests_freed \in BOOLEAN
    /\ item \in Seq(Entry) /\ selected_item \in Page
    /\ right_mouse_item \in {Dangling} \cup Nat
    /\ menu \in {"closed", "friend", "request"}
    /\ panels \subseteq {"friend", "confirm", "request", "create"}
    /\ messages_friend \in Number \cup {NoFriend, Dangling, Leaked}
    /\ ui \in {"loop", "spin", "shrink"} /\ mailbox \in Command /\ uiq \in Seq(Message)
    /\ wanted \subseteq Person
    /\ crashed \in {"no", "ITEM", "NULL", "FREQUEST", "FRIEND", "freed"}
    /\ odd \subseteq OddEvent /\ limits \in Limits

\* The page on display is that of the selected entry.  Its panels are, unless an
\* entry took the place of "create group" while that was selected, or the page was
\* changed under an open menu.  Its conversation is, once the UI thread has been
\* told of all friends and shown them (page_close and page_open in flist.c).
PageMatches ==
    LET type == item[selected_item].type
        id == item[selected_item].id
    IN /\ odd \cap {"displaced", "jumped"} = {} =>
            IF Listed(selected_item)
            THEN /\ panels \subseteq {type} \cup (IF type = "friend" THEN {"confirm"} ELSE {})
                 /\ type \notin {"request", "none"} => type \in panels
            ELSE panels = {}
       /\ /\ Alive /\ Listed(selected_item) /\ type = "friend"
          /\ ~\E k \in 1 .. Len(uiq) : uiq[k].tag \in {"ADDED", "ACCEPTED"}
          /\ "beyond" \notin odd
          => messages_friend = id

\* "Delete friend?" is asked of the friend on display, and that one is deleted by
\* button_confirm_deletion, unless an entry was selected under an open menu, a new
\* friend took the place that was pressed and was not shown, or the entry behind
\* the menu came from a request handled twice (flist.c).
AsksForTheRight ==
    /\ "confirm" \in panels /\ Listed(right_mouse_item)
    /\ item[right_mouse_item].type = "friend"
    /\ odd \cap {"jumped", "beyond", "declined", "raced"} = {}
    => right_mouse_item = selected_item

Quiet == ui = "loop" /\ tox = "run" /\ mailbox = Empty /\ uiq = <<>> /\ crashed = "no"

\* When nothing is on its way, toxcore's friends, the FRIENDs with their count and
\* the entries of the list agree, and are those that the user wants (flist.c,
\* friend.c): through drags, deletions, acceptances and restarts, unless messages
\* overtook each other as the odd events say.
ListIsTrue ==
    Quiet /\ odd \subseteq {"restart", "jumped", "displaced", "beyond"} =>
      /\ Friends = wanted
      /\ \A n \in Number :
           /\ core[n] # Nobody =>
                n < friend_list_size /\ friend[n] = [who |-> core[n], number |-> n]
           /\ Cardinality({i \in 1 .. Len(item) : item[i] = Friend(n)})
                = IF core[n] # Nobody THEN 1 ELSE 0
      /\ friend_list_count = Cardinality(wanted)

\* Each request that the list shows is in frequests, although both threads change
\* its length, unless one came while another was freed.  But for that and for a
\* restart, no message finds a request or the list gone (get_frequest, newitem).
RequestsKept ==
    "raced" \notin odd =>
      /\ \A i \in 1 .. Len(item) :
           item[i].type = "request" => item[i].id <= Len(frequests) /\ ~frequests_freed
      /\ crashed = "NULL" => "restart" \in odd

\* toxcore loses a friend only when the user has deleted that one, unless a FRIEND
\* was freed for its successor, or friends are listed twice after a restart
\* (deleteitem, TOX_FRIEND_DELETE).
OnlyTheChosen ==
    [][\A p \in Friends \ Friends' : p \notin wanted \/ odd \cap {"reused", "crossed"} # {}]_vars
==============================================================================
