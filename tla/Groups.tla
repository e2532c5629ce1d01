------------------------------- MODULE Groups -------------------------------
(***************************************************************************)
(* Group chats: the array of groupchats that the toxcore thread fills      *)
(* (groups.c, tox_callbacks.c, TOX_GROUP_CREATE, TOX_GROUP_PART) and the   *)
(* UI thread lists, draws and frees (flist.c, layout/group.c).             *)
(*                                                                         *)
(* messages_lock keeps the functions of the toxcore thread apart from the  *)
(* drawing of messages, but neither group_free nor draw_group takes it, so *)
(* it is left out; what is read before and used after is kept.  A number   *)
(* of a conference is the lowest that is free in toxcore, and the index of *)
(* its slot in the array.  Slots are never given back: group_free clears   *)
(* one and leaves it where it is.  A fault ends the behavior.              *)
(***************************************************************************)
EXTENDS Integers, Sequences, FiniteSets

CONSTANTS
    MaxGroups,       \* bound: conferences at the same time
    MaxPeers,        \* bound: peers of a conference
    GroupPeers,      \* UTOX_MAX_GROUP_PEERS
    MaxJoins         \* bound: conferences created or joined

ASSUME GroupsAssumption ==
    /\ MaxGroups \in Nat \ {0} /\ MaxPeers \in Nat \ {0}
    /\ GroupPeers \in Nat \ {0} /\ MaxJoins \in Nat

Numbers == 0 .. MaxGroups - 1
Peers == 0 .. MaxPeers - 1
None == MaxGroups

\* What may be in the mailbox besides the number of a group to part from.
NoMsg == MaxGroups
AskMsg == MaxGroups + 1

VARIABLES
    conf,              \* toxcore: how many peers each conference has; 0: none
    \* the array
    groups_list_size, groups_list_count, slot,
    \* the toxcore thread: where it is, and the group and peer it works on
    pc, at, who, ours,
    toxcore_msg,       \* its mailbox
    \* the UI thread
    utox_msgs,         \* GROUP_ADD messages on their way to it
    listed,            \* how often a group stands in the contact list
    view,              \* the group that messages_group.object is of
    viewStale,         \* it points into an array that was moved since
    ui, uiAt,
    \* histories
    joins, crashed,
    freed,             \* the slots group_free was called for
    overtaken          \* a slot was taken again before it was freed

coreVars == <<pc, at, who, ours>>
arrayVars == <<groups_list_size, groups_list_count, slot>>
viewVars == <<view, viewStale>>
uiVars == <<ui, uiAt>>
histVars == <<freed, overtaken>>
vars == <<conf, arrayVars, coreVars, toxcore_msg, utox_msgs, listed, viewVars,
          uiVars, joins, crashed, histVars>>

\* memset(g, 0, sizeof(GROUPCHAT)); the array `peer` has as many entries as
\* `peer` says, those in `known` are not NULL.
Cleared == [tox |-> FALSE, peer |-> 0, known |-> {}, peer_count |-> 0]
\* Mutant: group_create forgets g->tox.
MadeMutNoTox == Cleared

Made == [Cleared EXCEPT !.tox = TRUE]

\* After tox_init: the saved conferences, ourselves in each, listed by
\* flist_start.
Init ==
    /\ groups_list_size \in 0 .. MaxGroups
    /\ groups_list_count = groups_list_size
    /\ conf = [g \in Numbers |-> IF g < groups_list_size THEN 1 ELSE 0]
    /\ slot = [g \in Numbers |-> IF g < groups_list_size
                                 THEN [Made EXCEPT !.peer = GroupPeers]
                                 ELSE Cleared]
    /\ listed = [g \in Numbers |-> IF g < groups_list_size THEN 1 ELSE 0]
    /\ pc = "idle" /\ at = 0 /\ who = 0 /\ ours = FALSE
    /\ toxcore_msg = NoMsg /\ utox_msgs = <<>>
    /\ view = None /\ viewStale = FALSE /\ ui = "idle" /\ uiAt = 0
    /\ joins = 0 /\ crashed = "no" /\ freed = {} /\ overtaken = FALSE

Idle == pc = "idle" /\ crashed = "no"
At(p) == pc = p /\ crashed = "no"

Crash(why) ==
    /\ crashed' = why
    /\ UNCHANGED <<conf, arrayVars, coreVars, toxcore_msg, utox_msgs, listed,
                   viewVars, uiVars, joins, histVars>>

-----------------------------------------------------------------------------
(* A conference comes and goes *)

\* group_make: a new slot at the end moves the array.
Make(n) ==
    IF n >= groups_list_size
    THEN /\ groups_list_size' = groups_list_size + 1
         /\ slot' = [slot EXCEPT ![n] = Made]
         /\ viewStale' = (view # None)
    ELSE UNCHANGED <<groups_list_size, slot, viewStale>>

\* tox_conference_new or tox_conference_join, then get_group and, for a new
\* number, group_make.
Join(own) ==
    /\ Idle /\ joins < MaxJoins /\ joins' = joins + 1
    /\ \E n \in Numbers :
          /\ conf[n] = 0 /\ \A m \in Numbers : conf[m] = 0 => n <= m
          /\ conf' = [conf EXCEPT ![n] = 1]
          /\ at' = n
          /\ Make(n)
          /\ overtaken' = (overtaken \/ (ui = "free" /\ uiAt = n))
    /\ pc' = "init" /\ ours' = own /\ who' = 0
    /\ UNCHANGED <<groups_list_count, utox_msgs, listed, view, uiVars, crashed,
                   freed>>

\* TOX_GROUP_CREATE.
Create == toxcore_msg = AskMsg /\ Join(TRUE) /\ toxcore_msg' = NoMsg

\* callback_group_invite.
Invited == Join(FALSE) /\ UNCHANGED toxcore_msg

\* group_init reads the log of the conference with the slot's Tox, which a
\* slot that is used again does not have; then GROUP_ADD.
GroupInit ==
    /\ At("init")
    /\ IF ~slot[at].tox
       THEN Crash("noTox")
       ELSE /\ slot' = [slot EXCEPT ![at].peer = IF @ = 0 THEN GroupPeers ELSE @]
            /\ groups_list_count' = groups_list_count + 1
            /\ utox_msgs' = Append(utox_msgs, at)
            /\ pc' = IF ours THEN "add" ELSE "idle"
            /\ UNCHANGED <<conf, groups_list_size, at, who, ours, toxcore_msg,
                           listed, viewVars, uiVars, joins, crashed, histVars>>

\* group_peer_add(g, 0).
PeerAdd ==
    /\ At("add")
    /\ slot' = [slot EXCEPT ![at].peer = IF @ = 0 THEN GroupPeers ELSE @,
                            ![at].known = @ \cup {0},
                            ![at].peer_count = @ + 1]
    /\ pc' = "name"
    /\ UNCHANGED <<conf, groups_list_size, groups_list_count, at, who, ours,
                   toxcore_msg, utox_msgs, listed, viewVars, uiVars, joins,
                   crashed, histVars>>

\* Mutant: tox_conference_delete is not called.
PartMutStays ==
    /\ Idle /\ toxcore_msg \in Numbers
    /\ toxcore_msg' = NoMsg
    /\ UNCHANGED <<conf, arrayVars, coreVars, utox_msgs, listed, viewVars, uiVars,
                   joins, crashed, histVars>>

\* TOX_GROUP_PART.
Part ==
    /\ Idle /\ toxcore_msg \in Numbers
    /\ conf' = [conf EXCEPT ![toxcore_msg] = 0]
    /\ toxcore_msg' = NoMsg
    /\ UNCHANGED <<arrayVars, coreVars, utox_msgs, listed, viewVars, uiVars,
                   joins, crashed, histVars>>

-----------------------------------------------------------------------------
(* Callbacks of toxcore for a peer p of the conference g *)

GoTo(p) ==
    /\ pc' = p
    /\ UNCHANGED <<conf, arrayVars, at, who, ours, toxcore_msg, utox_msgs,
                   listed, viewVars, uiVars, joins, crashed, histVars>>

Start(p, g, n) ==
    /\ Idle /\ conf[g] > 0
    /\ pc' = p /\ at' = g /\ who' = n
    /\ UNCHANGED <<arrayVars, ours, toxcore_msg, utox_msgs, listed, viewVars,
                   uiVars, joins, crashed, histVars>>

\* callback_group_message.
Message(g, n) == n < conf[g] /\ Start("look", g, n) /\ UNCHANGED conf

\* callback_group_peer_name_change, up to its call of group_peer_name_change.
NameChange(g, n) ==
    /\ n < conf[g] /\ UNCHANGED conf
    /\ slot[g].peer > 0 => n \in slot[g].known
    /\ Start("name", g, n)

\* group_peer_name_change: a slot without peers is left alone, a missing peer
\* ends the program.
ChangeName ==
    /\ At("name")
    /\ \/ slot[at].peer = 0 /\ GoTo("idle")
       \/ slot[at].peer > 0 /\ who \notin slot[at].known /\ Crash("noPeer")
       \/ who \in slot[at].known /\ GoTo("id")

\* ... its tox_conference_get_id.
ConferenceId ==
    /\ At("id")
    /\ IF slot[at].tox THEN GoTo("look") ELSE Crash("noTox")

\* group_add_message, up to its read of the peer.
LookUp ==
    /\ At("look")
    /\ \/ who >= GroupPeers /\ GoTo("idle")
       \/ who < GroupPeers /\ who >= slot[at].peer /\ Crash("noPeers")
       \/ /\ who < GroupPeers /\ who < slot[at].peer
          /\ GoTo(IF who \in slot[at].known THEN "copy" ELSE "idle")

\* The rest of it copies the name of the peer and asks the slot's Tox for the
\* peer's key.
CopyPeer ==
    /\ At("copy")
    /\ IF slot[at].tox THEN GoTo("idle") ELSE Crash("noTox")

\* callback_group_peer_list_changed, when the conference has n peers: every
\* peer is freed ...
ListChanged(g, n) ==
    /\ Idle /\ conf[g] > 0
    /\ conf' = [conf EXCEPT ![g] = n]
    /\ slot' = [slot EXCEPT ![g].peer = 0, ![g].known = {}]
    /\ pc' = "fill" /\ at' = g
    /\ ui' = IF ui = "draw" /\ uiAt = g THEN "torn" ELSE ui
    /\ UNCHANGED <<groups_list_size, groups_list_count, who, ours, toxcore_msg,
                   utox_msgs, listed, viewVars, uiAt, joins, crashed, histVars>>

\* Mutant: the new array is one too short.
FillMutOneShort ==
    /\ At("fill")
    /\ slot' = [slot EXCEPT ![at].peer = conf[at] - 1,
                            ![at].known = 0 .. conf[at] - 2]
    /\ pc' = "count"
    /\ UNCHANGED <<conf, groups_list_size, groups_list_count, at, who, ours,
                   toxcore_msg, utox_msgs, listed, viewVars, uiVars, joins,
                   crashed, histVars>>

\* Mutant: the loop over the peers stops one too early.
FillMutSkipsLast ==
    /\ At("fill")
    /\ slot' = [slot EXCEPT ![at].peer = conf[at],
                            ![at].known = 0 .. conf[at] - 2]
    /\ pc' = "count"
    /\ UNCHANGED <<conf, groups_list_size, groups_list_count, at, who, ours,
                   toxcore_msg, utox_msgs, listed, viewVars, uiVars, joins,
                   crashed, histVars>>

\* ... a new array is filled ...
Fill ==
    /\ At("fill")
    /\ slot' = [slot EXCEPT ![at].peer = conf[at],
                            ![at].known = 0 .. conf[at] - 1]
    /\ pc' = "count"
    /\ UNCHANGED <<conf, groups_list_size, groups_list_count, at, who, ours,
                   toxcore_msg, utox_msgs, listed, viewVars, uiVars, joins,
                   crashed, histVars>>

\* ... and counted.
CountPeers ==
    /\ At("count")
    /\ slot' = [slot EXCEPT ![at].peer_count = conf[at]]
    /\ pc' = "idle"
    /\ UNCHANGED <<conf, groups_list_size, groups_list_count, at, who, ours,
                   toxcore_msg, utox_msgs, listed, viewVars, uiVars, joins,
                   crashed, histVars>>

-----------------------------------------------------------------------------
(* The UI thread *)

Listed == {g \in Numbers : listed[g] > 0}
UIFree == ui = "idle" /\ crashed = "no"

\* The button that makes a group.  The UI waits until its message is taken.
AskCreate ==
    /\ UIFree /\ toxcore_msg = NoMsg /\ toxcore_msg' = AskMsg
    /\ UNCHANGED <<conf, arrayVars, coreVars, utox_msgs, listed, viewVars,
                   uiVars, joins, crashed, histVars>>

\* deleteitem of a group: another page is shown if this one was, PART ...
RemoveItem(g) ==
    /\ UIFree /\ toxcore_msg = NoMsg /\ g \in Listed
    /\ toxcore_msg' = g
    /\ \E v \in (Listed \ {g}) \cup {None} :
          IF view = g THEN view' = v /\ viewStale' = FALSE
                      ELSE UNCHANGED viewVars
    /\ listed' = [listed EXCEPT ![g] = @ - 1]
    /\ ui' = "free" /\ uiAt' = g
    /\ UNCHANGED <<conf, arrayVars, coreVars, utox_msgs, joins, crashed,
                   histVars>>

\* Mutant: the slot is cleared, but still counted.
GroupFreeMutNotCounted ==
    /\ ui = "free" /\ crashed = "no"
    /\ slot' = [slot EXCEPT ![uiAt] = Cleared]
    /\ ui' = "idle" /\ freed' = freed \cup {uiAt}
    /\ UNCHANGED <<conf, groups_list_size, groups_list_count, coreVars,
                   toxcore_msg, utox_msgs, listed, viewVars, uiAt, joins,
                   crashed, overtaken>>

\* ... and group_free, whatever the toxcore thread is doing with the slot.
GroupFree ==
    /\ ui = "free" /\ crashed = "no"
    /\ slot' = [slot EXCEPT ![uiAt] = Cleared]
    /\ groups_list_count' = groups_list_count - 1
    /\ ui' = "idle" /\ freed' = freed \cup {uiAt}
    /\ UNCHANGED <<conf, groups_list_size, coreVars, toxcore_msg, utox_msgs,
                   listed, viewVars, uiAt, joins, crashed, overtaken>>

\* Another page: a group (flist_selectitem takes the address of its messages)
\* or anything else.
Select(v) ==
    /\ UIFree /\ v \in Listed \cup {None}
    /\ view' = v /\ viewStale' = FALSE
    /\ UNCHANGED <<conf, arrayVars, coreVars, toxcore_msg, utox_msgs, listed,
                   uiVars, joins, crashed, histVars>>

\* GROUP_ADD: the new item takes its number from the slot, and is shown.
GroupAdd ==
    /\ UIFree /\ utox_msgs # <<>>
    /\ utox_msgs' = Tail(utox_msgs)
    /\ LET g == Head(utox_msgs)
           number == IF slot[g].tox THEN g ELSE 0
       IN listed' = [listed EXCEPT ![number] = @ + 1] /\ view' = number
    /\ viewStale' = FALSE
    /\ UNCHANGED <<conf, arrayVars, coreVars, toxcore_msg, uiVars, joins,
                   crashed, histVars>>

\* draw_group reads the address of a peer ...
DrawPeer(p) ==
    /\ UIFree /\ view # None /\ p < slot[view].peer_count
    /\ \/ p >= slot[view].peer /\ Crash("draw")
       \/ /\ p \in slot[view].known
          /\ ui' = "draw" /\ uiAt' = view
          /\ UNCHANGED <<conf, arrayVars, coreVars, toxcore_msg, utox_msgs,
                         listed, viewVars, joins, crashed, histVars>>

\* ... and draws its name.
DrawName ==
    /\ ui \in {"draw", "torn"} /\ crashed = "no"
    /\ IF ui = "torn"
       THEN Crash("draw")
       ELSE /\ ui' = "idle"
            /\ UNCHANGED <<conf, arrayVars, coreVars, toxcore_msg, utox_msgs,
                           listed, viewVars, uiAt, joins, crashed, histVars>>

-----------------------------------------------------------------------------
ToxStep ==
    \/ Create \/ GroupInit \/ PeerAdd \/ Part \/ ChangeName \/ ConferenceId
    \/ LookUp \/ CopyPeer \/ Fill \/ CountPeers

Callback ==
    \/ Invited
    \/ \E g \in Numbers, n \in Peers : Message(g, n) \/ NameChange(g, n)
    \/ \E g \in Numbers, n \in 1 .. MaxPeers : ListChanged(g, n)

UIStep ==
    \/ AskCreate
    \/ \E g \in Numbers : RemoveItem(g)
    \/ \E v \in Numbers \cup {None} : Select(v)
    \/ \E p \in Peers : DrawPeer(p)

UIGoesOn == GroupFree \/ GroupAdd \/ DrawName

Next == ToxStep \/ Callback \/ UIStep \/ UIGoesOn

Spec == Init /\ [][Next]_vars

\* Both threads go on with what they have begun.  A message is taken in the
\* end although callbacks come in between: toxcore_thread polls after every
\* tox_iterate, so taking one is fair on its own and strongly.
Fairness ==
    /\ WF_vars(ToxStep) /\ SF_vars(Part) /\ SF_vars(Create)
    /\ WF_vars(GroupFree) /\ WF_vars(DrawName) /\ SF_vars(GroupAdd)

FairSpec == Spec /\ Fairness

-----------------------------------------------------------------------------
SlotType == [tox : BOOLEAN, peer : 0 .. (MaxPeers + GroupPeers),
             known : SUBSET Peers, peer_count : Nat]

TypeOK ==
    /\ conf \in [Numbers -> 0 .. MaxPeers]
    /\ groups_list_size \in 0 .. MaxGroups /\ groups_list_count \in Int
    /\ slot \in [Numbers -> SlotType]
    /\ pc \in {"idle", "init", "add", "name", "id", "look", "copy", "fill",
               "count"}
    /\ at \in Numbers /\ who \in Peers /\ ours \in BOOLEAN
    /\ toxcore_msg \in Numbers \cup {NoMsg, AskMsg}
    /\ utox_msgs \in Seq(Numbers) /\ listed \in [Numbers -> Int]
    /\ view \in Numbers \cup {None} /\ viewStale \in BOOLEAN
    /\ ui \in {"idle", "free", "draw", "torn"} /\ uiAt \in Numbers
    /\ joins \in 0 .. MaxJoins
    /\ crashed \in {"no", "noTox", "noPeers", "noPeer", "draw"}
    /\ freed \subseteq Numbers /\ overtaken \in BOOLEAN

\* Every conference of toxcore has a slot.  callback_group_message relies on
\* it (tox_callbacks.c:245): it does not look whether get_group found one.
SlotForEach == \A g \in Numbers : conf[g] > 0 => g < groups_list_size

\* The callbacks of toxcore find the Tox, the peers and the peer they use
\* (groups.c:231, 261, 368), unless the user removed the group whose number it
\* was: group_free clears the slot before toxcore hears of it (flist.c:791),
\* and a slot that is used again stays without a Tox (tox_callbacks.c:238).
FaultsOnlyWhereFreed ==
    crashed \in {"noTox", "noPeers", "noPeer"} => at \in freed

\* Except while the list of its peers is made anew, a group that the user kept
\* has no more peers than its array, which draw_group goes through by
\* peer_count (layout/group.c:52) and group_reset_peerlist too.
CountFitsArray ==
    \A g \in Numbers :
       \/ slot[g].peer_count <= slot[g].peer
       \/ pc \in {"fill", "count"} /\ at = g
       \/ g \in freed

\* Once its peers are known, a group has those that toxcore has, although
\* the first one of an own group is added by hand (tox.c:1261).
PeersAgree ==
    (pc = "idle" /\ ~overtaken) =>
        \A g \in Numbers :
           (conf[g] > 0 /\ slot[g].tox /\ slot[g].known # {}) =>
               /\ slot[g].known = 0 .. conf[g] - 1
               /\ slot[g].peer_count = conf[g]

\* When nothing is under way the contact list shows every conference once,
\* and nothing else, and groups_list_count counts them.  A group that is
\* joined under the number of one that is being removed (flist.c:791) is
\* the exception.
Quiet ==
    /\ pc = "idle" /\ toxcore_msg = NoMsg /\ utox_msgs = <<>>
    /\ ui = "idle" /\ crashed = "no" /\ ~overtaken
ListAgrees ==
    Quiet =>
        /\ \A g \in Numbers : listed[g] = IF conf[g] > 0 THEN 1 ELSE 0
        /\ groups_list_count = Cardinality({g \in Numbers : conf[g] > 0})

\* What the UI shows lies in an array that was given back only until the
\* GROUP_ADD is handled that shows the new group instead (groups.c:49).
StaleOnlyUntilAdd == viewStale => (pc = "init" \/ utox_msgs # <<>>)

\* What the UI thread draws of a group is there: the array of the groups, and
\* as many peers as it goes through.
DrawnIsThere == CountFitsArray /\ StaleOnlyUntilAdd

\* The callbacks of toxcore find the slot of the group and what they use of it.
CallbacksFindTheirs == SlotForEach /\ FaultsOnlyWhereFreed

\* A group that was removed from the list is left in the end.
RemovedIsLeft ==
    \A g \in Numbers :
       (toxcore_msg = g) ~> (conf[g] = 0 \/ crashed # "no")

=============================================================================
