---------------------------- MODULE GroupsProofs ----------------------------
(***************************************************************************)
(* Theorems about Groups, for any number of conferences and peers.         *)
(*                                                                         *)
(* The inductive invariant says what lies where.  What the two threads     *)
(* work on is in the array (InArray).  A slot has a Tox until it is freed, *)
(* and a conference that is gone has been freed, or is about to be         *)
(* (Removal); hence a conference that is made by the user gets a new slot  *)
(* or a freed one (Fresh).  The peers that are known fit the array of a    *)
(* slot, which is as large as the conference (PeersFit), and a callback    *)
(* holds a peer of that array (Working), both unless the slot was freed.   *)
(* A conference is being made, on its way to the contact list, or in it    *)
(* (Listing).                                                              *)
(***************************************************************************)
EXTENDS Groups, FiniteSetTheorems, TLAPS

USE DEF arrayVars, coreVars, viewVars, uiVars, histVars

\* What the two threads work on is in the array, and so is what was freed.
InArray ==
    /\ pc # "idle" => at < groups_list_size
    /\ \A g \in Numbers : listed[g] > 0 => g < groups_list_size
    /\ \A i \in DOMAIN utox_msgs : utox_msgs[i] < groups_list_size
    /\ ui = "free" => uiAt < groups_list_size
    /\ \A g \in freed : g < groups_list_size

\* A slot has a Tox from its making until it is freed.
ToxKept ==
    \A g \in Numbers : slot[g].tox <=> (g < groups_list_size /\ g \notin freed)

\* A conference that is gone has been removed by the user, whose next step it
\* is to free the slot unless he has; he asks for no other one before.
Removal ==
    /\ \A g \in Numbers :
         (conf[g] = 0 /\ g < groups_list_size /\ g \notin freed)
            => (ui = "free" /\ uiAt = g)
    /\ toxcore_msg \in Numbers =>
         (toxcore_msg \in freed \/ (ui = "free" /\ uiAt = toxcore_msg))
    /\ toxcore_msg = AskMsg => ui # "free"

\* A conference that has just been made has one peer, ourselves; its slot has
\* none yet, unless it was joined under a number that is still being removed.
Fresh ==
    pc \in {"init", "add"} =>
      /\ who = 0 /\ conf[at] = 1 /\ (pc = "add" => ours)
      /\ (at \notin freed /\ (ours \/ ~overtaken)) =>
           (slot[at].known = {} /\ slot[at].peer_count = 0)

\* The peers that are known are in the slot's array.
KnownFit ==
    \A g \in Numbers : \A k \in slot[g].known : k < slot[g].peer

\* The array of a slot in use is as large as the conference, or as its limit.
PeersFit ==
    \A g \in Numbers :
      (/\ g < groups_list_size /\ g \notin freed
       /\ ~(pc \in {"init", "fill"} /\ at = g))
        => /\ slot[g].peer > 0
           /\ conf[g] <= slot[g].peer \/ GroupPeers <= slot[g].peer

\* What a function of the toxcore thread relies on for its next step.
Working ==
    /\ pc = "name" =>
         (at \in freed \/ slot[at].peer = 0 \/ who \in slot[at].known)
    /\ pc = "id" => (at \in freed \/ who \in slot[at].known)
    /\ pc = "look" =>
         (at \in freed \/ who >= GroupPeers \/ who < slot[at].peer)
    /\ pc \in {"fill", "count"} => conf[at] > 0
    /\ pc = "count" =>
         (\/ at \in freed
          \/ /\ slot[at].peer = conf[at]
             /\ slot[at].known = 0 .. conf[at] - 1)

\* Whatever the toxcore thread is doing, a slot agrees with its conference once
\* it has peers, but for a count that is about to be set.
Agreeing ==
    ~overtaken =>
      \A g \in Numbers :
        (/\ conf[g] > 0 /\ slot[g].tox /\ slot[g].known # {}
         /\ ~(pc = "count" /\ at = g))
          => /\ slot[g].known = 0 .. conf[g] - 1
             /\ slot[g].peer_count = conf[g]

GroupsInv ==
    /\ TypeOK /\ SlotForEach /\ InArray /\ ToxKept /\ Removal /\ Fresh
    /\ KnownFit /\ PeersFit /\ Working

-----------------------------------------------------------------------------
\* What the constants are.
LEMMA Constants ==
    /\ MaxGroups \in Nat \ {0} /\ MaxPeers \in Nat \ {0}
    /\ GroupPeers \in Nat \ {0} /\ MaxJoins \in Nat
    /\ 0 \in Numbers /\ 0 \in Peers
    /\ Numbers \subseteq Nat /\ Peers \subseteq Nat
    /\ None \notin Numbers /\ NoMsg \notin Numbers /\ AskMsg \notin Numbers
    /\ NoMsg # AskMsg
BY GroupsAssumption DEF Numbers, Peers, None, NoMsg, AskMsg

\* A conference is made under the lowest number that is free, which is at most
\* the size of the array.
LEMMA JoinInArray ==
    ASSUME TypeOK, SlotForEach, NEW n \in Numbers,
           \A m \in Numbers : conf[m] = 0 => n <= m
    PROVE  n <= groups_list_size
<1>1. SUFFICES ASSUME n > groups_list_size PROVE FALSE
  BY Constants DEF TypeOK
<1>2. groups_list_size \in Numbers
  BY <1>1, Constants DEF TypeOK, Numbers
<1>3. conf[groups_list_size] > 0
  <2>1. conf[groups_list_size] # 0 /\ conf[groups_list_size] \in 0 .. MaxPeers
    BY <1>1, <1>2, Constants DEF TypeOK
  <2> QED
    BY <2>1, Constants
<1> QED
  BY <1>2, <1>3, Constants DEF SlotForEach, TypeOK


-----------------------------------------------------------------------------
(* What a step does to the slots, field by field *)

Same(g) == slot'[g] = slot[g]

JoinEffect(own) ==
    /\ pc = "idle" /\ crashed = "no" /\ at' \in Numbers /\ conf[at'] = 0
    /\ conf'[at'] = 1
    /\ \A g \in Numbers : g # at' => conf'[g] = conf[g]
    /\ pc' = "init" /\ ours' = own /\ who' = 0
    /\ overtaken' = (overtaken \/ (ui = "free" /\ uiAt = at'))
    /\ \A g \in Numbers : g # at' => Same(g)
    /\ \/ /\ at' = groups_list_size
          /\ groups_list_size' = groups_list_size + 1
          /\ slot'[at'].tox = TRUE /\ slot'[at'].peer = 0
          /\ slot'[at'].known = {} /\ slot'[at'].peer_count = 0
       \/ /\ at' < groups_list_size
          /\ UNCHANGED groups_list_size /\ Same(at')
    /\ UNCHANGED <<groups_list_count, utox_msgs, listed, view, uiVars,
                   crashed, freed>>

JoinTypes ==
    /\ conf' \in [Numbers -> 0 .. MaxPeers]
    /\ slot' \in [Numbers -> SlotType]
    /\ groups_list_size' \in 0 .. MaxGroups
    /\ joins' \in 0 .. MaxJoins
    /\ viewStale' \in BOOLEAN

SlotsTyped == slot' \in [Numbers -> SlotType]
ConfTyped == conf' \in [Numbers -> 0 .. MaxPeers]
ListTyped == listed' \in [Numbers -> Int]

InitEffect ==
    /\ \A g \in Numbers : g # at => Same(g)
    /\ slot'[at].peer = IF slot[at].peer = 0 THEN GroupPeers
                                             ELSE slot[at].peer
    /\ slot'[at].tox = slot[at].tox
    /\ slot'[at].known = slot[at].known
    /\ slot'[at].peer_count = slot[at].peer_count
    /\ pc = "init" /\ pc' = (IF ours THEN "add" ELSE "idle")
    /\ groups_list_count' = groups_list_count + 1
    /\ UNCHANGED <<conf, groups_list_size, at, who, ours, toxcore_msg,
                   listed, viewVars, uiVars, joins, crashed, histVars>>

AddEffect ==
    /\ \A g \in Numbers : g # at => Same(g)
    /\ slot'[at].peer = IF slot[at].peer = 0 THEN GroupPeers
                                             ELSE slot[at].peer
    /\ slot'[at].tox = slot[at].tox
    /\ slot'[at].known = slot[at].known \cup {0}
    /\ slot'[at].peer_count = slot[at].peer_count + 1
    /\ pc = "add" /\ pc' = "name"
    /\ UNCHANGED <<conf, groups_list_size, groups_list_count, at, who, ours,
                   toxcore_msg, utox_msgs, listed, viewVars, uiVars, joins,
                   crashed, histVars>>

FillEffect ==
    /\ \A g \in Numbers : g # at => Same(g)
    /\ slot'[at].peer = conf[at]
    /\ slot'[at].tox = slot[at].tox
    /\ slot'[at].known = 0 .. conf[at] - 1
    /\ slot'[at].peer_count = slot[at].peer_count
    /\ pc = "fill" /\ pc' = "count"
    /\ UNCHANGED <<conf, groups_list_size, groups_list_count, at, who, ours,
                   toxcore_msg, utox_msgs, listed, viewVars, uiVars, joins,
                   crashed, histVars>>

CountEffect ==
    /\ \A g \in Numbers : g # at => Same(g)
    /\ slot'[at].peer = slot[at].peer
    /\ slot'[at].tox = slot[at].tox
    /\ slot'[at].known = slot[at].known
    /\ slot'[at].peer_count = conf[at]
    /\ pc = "count" /\ pc' = "idle"
    /\ UNCHANGED <<conf, groups_list_size, groups_list_count, at, who, ours,
                   toxcore_msg, utox_msgs, listed, viewVars, uiVars, joins,
                   crashed, histVars>>

ListEffect(g, n) ==
    /\ \A h \in Numbers : h # g => Same(h)
    /\ slot'[g].peer = 0
    /\ slot'[g].tox = slot[g].tox
    /\ slot'[g].known = {}
    /\ slot'[g].peer_count = slot[g].peer_count
    /\ conf'[g] = n
    /\ \A h \in Numbers : h # g => conf'[h] = conf[h]
    /\ pc = "idle" /\ crashed = "no" /\ conf[g] > 0 /\ pc' = "fill" /\ at' = g
    /\ (ui' = ui \/ (ui = "draw" /\ ui' = "torn"))
    /\ UNCHANGED <<groups_list_size, groups_list_count, who, ours, toxcore_msg,
                   utox_msgs, listed, viewVars, uiAt, joins, crashed,
                   histVars>>

FreeEffect ==
    /\ \A g \in Numbers : g # uiAt => Same(g)
    /\ slot'[uiAt].peer = 0
    /\ slot'[uiAt].tox = FALSE
    /\ slot'[uiAt].known = {}
    /\ slot'[uiAt].peer_count = 0
    /\ ui = "free" /\ ui' = "idle" /\ freed' = freed \cup {uiAt}
    /\ groups_list_count' = groups_list_count - 1
    /\ UNCHANGED <<conf, groups_list_size, coreVars, toxcore_msg, utox_msgs,
                   listed, viewVars, uiAt, joins, crashed, overtaken>>

PartEffect(g) ==
    /\ g \in Numbers /\ conf'[g] = 0
    /\ \A h \in Numbers : h # g => conf'[h] = conf[h]
    /\ pc = "idle" /\ toxcore_msg \in Numbers /\ toxcore_msg' = NoMsg
    /\ UNCHANGED <<arrayVars, coreVars, utox_msgs, listed, viewVars, uiVars,
                   joins, crashed, histVars>>

RemoveEffect(g) ==
    /\ listed[g] > 0
    /\ listed'[g] = listed[g] - 1
    /\ \A h \in Numbers : h # g => listed'[h] = listed[h]
    /\ ui = "idle" /\ toxcore_msg = NoMsg /\ toxcore_msg' = g
    /\ ui' = "free" /\ uiAt' = g
    /\ UNCHANGED <<conf, arrayVars, coreVars, utox_msgs, joins, crashed,
                   histVars>>

\* A message to the UI that is n or was there before.
IsOrWas(m, n) == m = n \/ \E j \in DOMAIN utox_msgs : m = utox_msgs[j]

SentEffect(n) ==
    /\ \A i \in DOMAIN utox_msgs' : IsOrWas(utox_msgs'[i], n)

ShownEffect(n) ==
    /\ n \in Numbers /\ (n = 0 \/ n = utox_msgs[1]) /\ 1 \in DOMAIN utox_msgs
    /\ \A i \in DOMAIN utox_msgs' : \E j \in DOMAIN utox_msgs :
          utox_msgs'[i] = utox_msgs[j]
    /\ listed'[n] = listed[n] + 1
    /\ \A h \in Numbers : h # n => listed'[h] = listed[h]
    /\ view' = n /\ viewStale' = FALSE

\* What the later proofs need of the types.
Basic ==
    /\ at \in Numbers /\ uiAt \in Numbers /\ who \in Nat
    /\ groups_list_size \in Nat
    /\ \A g \in Numbers :
         /\ conf[g] \in Nat /\ slot[g].peer \in Nat
         /\ slot[g].known \subseteq Nat
         /\ slot[g].peer_count \in Nat /\ listed[g] \in Int
    /\ freed \subseteq Numbers
    /\ \A i \in DOMAIN utox_msgs : utox_msgs[i] \in Numbers

\* The members of a slot.
LEMMA Fields ==
    ASSUME TypeOK, NEW g \in Numbers
    PROVE  /\ slot[g].tox \in BOOLEAN /\ slot[g].known \in SUBSET Peers
           /\ slot[g].peer \in 0 .. (MaxPeers + GroupPeers)
           /\ slot[g].peer_count \in Nat
BY DEF TypeOK, SlotType

\* The sizes an array of peers can have.
LEMMA Sizes ==
    /\ 0 \in 0 .. (MaxPeers + GroupPeers)
    /\ GroupPeers \in 0 .. (MaxPeers + GroupPeers)
    /\ 0 .. MaxPeers \subseteq 0 .. (MaxPeers + GroupPeers)
BY Constants

LEMMA Basics ==
    ASSUME TypeOK PROVE Basic
<1>1. ASSUME NEW g \in Numbers
      PROVE  /\ slot[g].peer \in Nat /\ slot[g].known \subseteq Nat
             /\ slot[g].peer_count \in Nat
  <2>1. /\ slot[g].known \in SUBSET Peers /\ slot[g].peer_count \in Nat
        /\ slot[g].peer \in 0 .. (MaxPeers + GroupPeers)
    BY <1>1, Fields
  <2>2. Peers \subseteq Nat /\ slot[g].peer \in Nat
    BY <2>1, Constants
  <2> QED
    BY <2>1, <2>2
<1>2. ASSUME NEW g \in Numbers PROVE conf[g] \in Nat /\ listed[g] \in Int
  BY <1>2, Constants DEF TypeOK
<1>3. /\ at \in Numbers /\ uiAt \in Numbers /\ who \in Nat
      /\ groups_list_size \in Nat /\ freed \subseteq Numbers
  BY Constants DEF TypeOK
<1>4. \A i \in DOMAIN utox_msgs : utox_msgs[i] \in Numbers
  BY DEF TypeOK
<1> QED
  BY <1>1, <1>2, <1>3, <1>4 DEF Basic

\* group_make adds a slot at the end of the array, or leaves all as they are.
LEMMA JoinSlot ==
    ASSUME TypeOK, SlotForEach, NEW own \in BOOLEAN, Join(own)
    PROVE  JoinEffect(own) /\ JoinTypes
<1>1. PICK n \in Numbers :
         /\ conf[n] = 0 /\ \A m \in Numbers : conf[m] = 0 => n <= m
         /\ conf' = [conf EXCEPT ![n] = 1]
         /\ at' = n
         /\ Make(n)
         /\ overtaken' = (overtaken \/ (ui = "free" /\ uiAt = n))
  BY DEF Join
<1>2. n <= groups_list_size
  BY <1>1, JoinInArray
<1>3. Made \in SlotType /\ Made.tox = TRUE /\ Made.peer = 0
      /\ Made.known = {} /\ Made.peer_count = 0
  BY Sizes DEF Made, Cleared, SlotType
<1>4. /\ \A g \in Numbers : g # n => Same(g)
      /\ slot' \in [Numbers -> SlotType]
  BY <1>1, <1>3 DEF Make, TypeOK, Same
<1>5. \/ /\ n = groups_list_size
         /\ groups_list_size' = groups_list_size + 1
         /\ slot'[n] = Made
      \/ /\ n < groups_list_size
         /\ UNCHANGED groups_list_size /\ Same(n)
  BY <1>1, <1>2, Constants DEF Make, TypeOK, Same
<1>6. groups_list_size' \in 0 .. MaxGroups
  BY SMTT(30), <1>5, Constants DEF TypeOK, Numbers
<1>7. joins' \in 0 .. MaxJoins
  BY Constants DEF Join, TypeOK
<1>8. viewStale' \in BOOLEAN
  BY <1>1 DEF Make, TypeOK
<1>9. /\ conf' \in [Numbers -> 0 .. MaxPeers] /\ conf'[n] = 1
      /\ \A g \in Numbers : g # n => conf'[g] = conf[g]
  BY <1>1, Constants DEF TypeOK
<1> QED
  BY <1>1, <1>3, <1>4, <1>5, <1>6, <1>7, <1>8, <1>9
     DEF JoinEffect, JoinTypes, Join, Idle

\* The others change one slot.
LEMMA InitSlot ==
    ASSUME TypeOK, GroupInit, slot[at].tox
    PROVE  InitEffect /\ SlotsTyped
<1>1. slot' = [slot EXCEPT ![at].peer = IF @ = 0 THEN GroupPeers ELSE @]
  BY DEF GroupInit
<1>a. at \in Numbers
  BY DEF TypeOK
<1>b. PICK x \in 0 .. (MaxPeers + GroupPeers) :
         x = (IF slot[at].peer = 0 THEN GroupPeers ELSE slot[at].peer)
  BY <1>a, Fields, Sizes
<1>2. slot' = [slot EXCEPT ![at] = [slot[at] EXCEPT !.peer = x]]
  BY <1>1, <1>b DEF TypeOK
<1>f. /\ pc = "init" /\ pc' = (IF ours THEN "add" ELSE "idle")
      /\ groups_list_count' = groups_list_count + 1
      /\ UNCHANGED <<conf, groups_list_size, at, who, ours, toxcore_msg,
                     listed, viewVars, uiVars, joins, crashed, histVars>>
  BY DEF GroupInit, At
<1>3. /\ slot'[at] = [slot[at] EXCEPT !.peer = x] /\ slot[at] \in SlotType
      /\ \A g \in Numbers : g # at => slot'[g] = slot[g]
  BY <1>2, <1>a DEF TypeOK
<1>4. slot'[at] \in SlotType
  BY <1>3, <1>b DEF SlotType
<1>5. SlotsTyped
  BY <1>2, <1>4, <1>a DEF SlotsTyped, TypeOK
<1>6. /\ slot'[at].peer = x /\ slot'[at].tox = slot[at].tox
      /\ slot'[at].known = slot[at].known
      /\ slot'[at].peer_count = slot[at].peer_count
  BY <1>3 DEF SlotType
<1> QED
  BY <1>f, <1>3, <1>5, <1>6, <1>b DEF InitEffect, Same

LEMMA AddSlot ==
    ASSUME TypeOK, PeerAdd
    PROVE  AddEffect /\ SlotsTyped
<1>a. at \in Numbers
  BY DEF TypeOK
<1>1. PICK x \in 0 .. (MaxPeers + GroupPeers) :
         x = (IF slot[at].peer = 0 THEN GroupPeers ELSE slot[at].peer)
  BY <1>a, Fields, Sizes
<1>2. slot' = [slot EXCEPT ![at] =
                 [slot[at] EXCEPT !.peer = x, !.known = slot[at].known \cup {0},
                                  !.peer_count = slot[at].peer_count + 1]]
  BY <1>1 DEF PeerAdd, TypeOK, SlotType
<1>3. slot[at].known \cup {0} \in SUBSET Peers
      /\ slot[at].peer_count + 1 \in Nat
  BY <1>a, Fields, Constants
<1>f. /\ pc = "add" /\ pc' = "name"
      /\ UNCHANGED <<conf, groups_list_size, groups_list_count, at, who, ours,
                     toxcore_msg, utox_msgs, listed, viewVars, uiVars, joins,
                     crashed, histVars>>
  BY DEF PeerAdd, At
<1>4. /\ slot'[at] = [slot[at] EXCEPT
                         !.peer = x, !.known = slot[at].known \cup {0},
                         !.peer_count = slot[at].peer_count + 1]
      /\ slot[at] \in SlotType
      /\ \A g \in Numbers : g # at => slot'[g] = slot[g]
  BY <1>2, <1>a DEF TypeOK
<1>5. slot'[at] \in SlotType
  BY <1>1, <1>3, <1>4 DEF SlotType
<1>6. SlotsTyped
  BY <1>2, <1>5, <1>a DEF SlotsTyped, TypeOK
<1>7. /\ slot'[at].peer = x /\ slot'[at].tox = slot[at].tox
      /\ slot'[at].known = slot[at].known \cup {0}
      /\ slot'[at].peer_count = slot[at].peer_count + 1
  BY <1>4 DEF SlotType
<1> QED
  BY <1>f, <1>1, <1>4, <1>6, <1>7 DEF AddEffect, Same

LEMMA FillSlot ==
    ASSUME TypeOK, Fill
    PROVE  FillEffect /\ SlotsTyped
<1>1. slot' = [slot EXCEPT ![at] =
                 [slot[at] EXCEPT !.peer = conf[at],
                                  !.known = 0 .. conf[at] - 1]]
  BY DEF Fill, TypeOK, SlotType
<1>2. /\ 0 .. conf[at] - 1 \in SUBSET Peers
      /\ conf[at] \in 0 .. (MaxPeers + GroupPeers)
  <2>1. conf[at] \in 0 .. MaxPeers /\ MaxPeers \in Nat
    BY Constants DEF TypeOK
  <2> QED
    BY <2>1, Sizes DEF Peers
<1>f. /\ pc = "fill" /\ pc' = "count"
      /\ UNCHANGED <<conf, groups_list_size, groups_list_count, at, who, ours,
                     toxcore_msg, utox_msgs, listed, viewVars, uiVars, joins,
                     crashed, histVars>>
  BY DEF Fill, At
<1> QED
  BY <1>f, <1>1, <1>2 DEF FillEffect, SlotsTyped, TypeOK, SlotType, Same

LEMMA CountSlot ==
    ASSUME TypeOK, CountPeers
    PROVE  CountEffect /\ SlotsTyped
<1>1. slot' = [slot EXCEPT ![at] = [slot[at] EXCEPT !.peer_count = conf[at]]]
  BY DEF CountPeers, TypeOK, SlotType
<1>2. conf[at] \in Nat
  BY Constants DEF TypeOK
<1>f. /\ pc = "count" /\ pc' = "idle"
      /\ UNCHANGED <<conf, groups_list_size, groups_list_count, at, who, ours,
                     toxcore_msg, utox_msgs, listed, viewVars, uiVars, joins,
                     crashed, histVars>>
  BY DEF CountPeers, At
<1> QED
  BY <1>f, <1>1, <1>2 DEF CountEffect, SlotsTyped, TypeOK, SlotType, Same

LEMMA ListSlot ==
    ASSUME TypeOK, NEW g \in Numbers, NEW n \in 1 .. MaxPeers, ListChanged(g, n)
    PROVE  ListEffect(g, n) /\ SlotsTyped /\ ConfTyped
<1>1. slot' = [slot EXCEPT ![g] = [slot[g] EXCEPT !.peer = 0, !.known = {}]]
  BY DEF ListChanged, TypeOK, SlotType
<1>2. 0 \in 0 .. (MaxPeers + GroupPeers) /\ n \in 0 .. MaxPeers
  BY Constants
<1>3. conf' = [conf EXCEPT ![g] = n]
  BY DEF ListChanged
<1>f. /\ pc = "idle" /\ crashed = "no" /\ conf[g] > 0 /\ pc' = "fill" /\ at' = g
      /\ (ui' = ui \/ (ui = "draw" /\ ui' = "torn"))
      /\ UNCHANGED <<groups_list_size, groups_list_count, who, ours,
                     toxcore_msg, utox_msgs, listed, viewVars, uiAt, joins,
                     crashed, histVars>>
  BY DEF ListChanged, Idle
<1> QED
  BY <1>f, <1>1, <1>2, <1>3
     DEF ListEffect, SlotsTyped, ConfTyped, TypeOK, SlotType, Same

LEMMA FreeSlot ==
    ASSUME TypeOK, GroupFree
    PROVE  FreeEffect /\ SlotsTyped
<1>1. Cleared \in SlotType
  BY Constants DEF Cleared, SlotType
<1>f. /\ ui = "free" /\ ui' = "idle" /\ freed' = freed \cup {uiAt}
      /\ groups_list_count' = groups_list_count - 1
      /\ UNCHANGED <<conf, groups_list_size, coreVars, toxcore_msg, utox_msgs,
                     listed, viewVars, uiAt, joins, crashed, overtaken>>
  BY DEF GroupFree
<1> QED
  BY <1>f, <1>1 DEF FreeEffect, SlotsTyped, GroupFree, Cleared, TypeOK, Same

\* What the other steps do to the conferences, the list and the messages.
LEMMA PartConference ==
    ASSUME TypeOK, Part
    PROVE  PartEffect(toxcore_msg) /\ ConfTyped
<1>1. toxcore_msg \in Numbers /\ conf' = [conf EXCEPT ![toxcore_msg] = 0]
  BY DEF Part
<1>f. /\ pc = "idle" /\ toxcore_msg \in Numbers /\ toxcore_msg' = NoMsg
      /\ UNCHANGED <<arrayVars, coreVars, utox_msgs, listed, viewVars, uiVars,
                     joins, crashed, histVars>>
  BY DEF Part, Idle
<1> QED
  BY <1>f, <1>1, Constants DEF PartEffect, ConfTyped, TypeOK

LEMMA RemoveListed ==
    ASSUME TypeOK, NEW g \in Numbers, RemoveItem(g)
    PROVE  /\ RemoveEffect(g) /\ ListTyped
           /\ view' \in Numbers \cup {None} /\ viewStale' \in BOOLEAN
<1>1. listed' = [listed EXCEPT ![g] = listed[g] - 1] /\ listed[g] > 0
  BY DEF RemoveItem, Listed
<1>2. view' \in Numbers \cup {None} /\ viewStale' \in BOOLEAN
  BY DEF RemoveItem, Listed, TypeOK
<1>3. listed[g] - 1 \in Int
  BY DEF TypeOK
<1>f. /\ ui = "idle" /\ toxcore_msg = NoMsg /\ toxcore_msg' = g
      /\ ui' = "free" /\ uiAt' = g
      /\ UNCHANGED <<conf, arrayVars, coreVars, utox_msgs, joins, crashed,
                     histVars>>
  BY DEF RemoveItem, UIFree
<1> QED
  BY <1>f, <1>1, <1>2, <1>3 DEF RemoveEffect, ListTyped, TypeOK

LEMMA InitSent ==
    ASSUME TypeOK, GroupInit, slot[at].tox
    PROVE  SentEffect(at) /\ utox_msgs' \in Seq(Numbers)
<1>1. utox_msgs' = Append(utox_msgs, at) /\ at \in Numbers
  BY DEF GroupInit, TypeOK
<1>2. utox_msgs \in Seq(Numbers)
  BY DEF TypeOK
<1>3. utox_msgs' \in Seq(Numbers) /\ DOMAIN utox_msgs = 1 .. Len(utox_msgs)
      /\ DOMAIN utox_msgs' = 1 .. Len(utox_msgs) + 1 /\ Len(utox_msgs) \in Nat
  BY <1>1, <1>2
<1>4. ASSUME NEW k \in DOMAIN utox_msgs'
      PROVE  IsOrWas(utox_msgs'[k], at)
  <2>1. CASE k \in DOMAIN utox_msgs
    <3>1. utox_msgs'[k] = utox_msgs[k]
      BY <1>1, <1>2, <1>3, <2>1
    <3> QED
      BY <2>1, <3>1 DEF IsOrWas
  <2>2. CASE k \notin DOMAIN utox_msgs
    <3>1. k = Len(utox_msgs) + 1
      BY <1>3, <1>4, <2>2
    <3>2. utox_msgs'[k] = at
      BY <1>1, <1>2, <3>1
    <3> QED
      BY <3>2 DEF IsOrWas
  <2> QED
    BY <2>1, <2>2
<1> QED
  BY <1>3, <1>4 DEF SentEffect

LEMMA AddShown ==
    ASSUME TypeOK, GroupAdd
    PROVE  /\ \E n \in Numbers : ShownEffect(n)
           /\ ListTyped /\ utox_msgs' \in Seq(Numbers)
<1>1. utox_msgs \in Seq(Numbers) /\ utox_msgs # <<>>
  BY DEF GroupAdd, TypeOK
<1>2. /\ Head(utox_msgs) = utox_msgs[1] /\ Head(utox_msgs) \in Numbers
      /\ 1 \in DOMAIN utox_msgs
  BY <1>1
<1>3. PICK n : /\ n = IF slot[utox_msgs[1]].tox THEN utox_msgs[1] ELSE 0
               /\ listed' = [listed EXCEPT ![n] = listed[n] + 1] /\ view' = n
  BY <1>2 DEF GroupAdd
<1>4. n \in Numbers /\ (n = 0 \/ n = utox_msgs[1])
  BY <1>2, <1>3, Constants
<1>5. /\ utox_msgs' \in Seq(Numbers)
      /\ \A k \in DOMAIN utox_msgs' : \E j \in DOMAIN utox_msgs :
            utox_msgs'[k] = utox_msgs[j]
  <2>1. utox_msgs' = Tail(utox_msgs)
    BY DEF GroupAdd
  <2>2. /\ utox_msgs' \in Seq(Numbers) /\ Len(utox_msgs) \in Nat
        /\ DOMAIN utox_msgs = 1 .. Len(utox_msgs)
        /\ DOMAIN utox_msgs' = 1 .. Len(utox_msgs) - 1
    BY <1>1, <2>1
  <2>3. ASSUME NEW k \in DOMAIN utox_msgs'
        PROVE  k + 1 \in DOMAIN utox_msgs /\ utox_msgs'[k] = utox_msgs[k + 1]
    BY <1>1, <2>1, <2>2, <2>3
  <2> QED
    BY <2>2, <2>3
<1>6. listed[n] + 1 \in Int /\ viewStale' = FALSE
  BY <1>4 DEF TypeOK, GroupAdd
<1> QED
  BY <1>2, <1>3, <1>4, <1>5, <1>6 DEF ShownEffect, ListTyped, TypeOK

\* The types of the variables are preserved by every step.
LEMMA TypesInductive ==
    ASSUME TypeOK, SlotForEach, [Next]_vars PROVE TypeOK'
<1>a. UNCHANGED vars => TypeOK'
  BY DEF vars, TypeOK
<1>1. CASE Create
  <2>1. JoinEffect(TRUE) /\ JoinTypes
    BY <1>1, JoinSlot DEF Create
  <2>2. toxcore_msg = AskMsg /\ toxcore_msg' = NoMsg
    BY <1>1 DEF Create, Idle
  <2> QED
    BY <2>1, <2>2, Constants
       DEF TypeOK, JoinEffect, Same, JoinTypes
<1>2. CASE Invited
  <2>1. JoinEffect(FALSE) /\ JoinTypes
    BY <1>2, JoinSlot DEF Invited
  <2>2. UNCHANGED toxcore_msg
    BY <1>2 DEF Invited, Idle
  <2> QED
    BY <2>1, <2>2, Constants
       DEF TypeOK, JoinEffect, Same, JoinTypes
<1>3. CASE GroupInit
  <2>1. CASE slot[at].tox
    <3>1. /\ InitEffect /\ SentEffect(at) /\ SlotsTyped
          /\ utox_msgs' \in Seq(Numbers)
      BY <1>3, <2>1, InitSlot, InitSent
    <3>3. groups_list_count' \in Int
      BY <3>1 DEF TypeOK, InitEffect
    <3> QED
      BY <3>1, <3>3, Constants DEF TypeOK, SlotsTyped, InitEffect
  <2>2. CASE ~slot[at].tox
    BY <1>3, <2>2 DEF TypeOK, GroupInit, At, Crash
  <2> QED
    BY <2>1, <2>2
<1>4. CASE PeerAdd
  <2>1. AddEffect /\ SlotsTyped
    BY <1>4, AddSlot
  <2> QED
    BY <2>1, Constants
       DEF TypeOK, AddEffect, Same, SlotsTyped
<1>5. CASE Part
  <2>1. PartEffect(toxcore_msg) /\ ConfTyped
    BY <1>5, PartConference
  <2> QED
    BY <2>1, Constants
       DEF TypeOK, PartEffect, Same, ConfTyped
<1>6. CASE ChangeName
  BY <1>6, Constants
     DEF TypeOK, ChangeName, At, GoTo, Crash
<1>7. CASE ConferenceId
  BY <1>7, Constants
     DEF TypeOK, ConferenceId, At, GoTo, Crash
<1>8. CASE LookUp
  BY <1>8, Constants
     DEF TypeOK, LookUp, At, GoTo, Crash
<1>9. CASE CopyPeer
  BY <1>9, Constants
     DEF TypeOK, CopyPeer, At, GoTo, Crash
<1>10. CASE Fill
  <2>1. FillEffect /\ SlotsTyped
    BY <1>10, FillSlot
  <2> QED
    BY <2>1, Constants
       DEF TypeOK, FillEffect, Same, SlotsTyped
<1>11. CASE CountPeers
  <2>1. CountEffect /\ SlotsTyped
    BY <1>11, CountSlot
  <2> QED
    BY <2>1, Constants
       DEF TypeOK, CountEffect, Same, SlotsTyped
<1>12. ASSUME NEW g \in Numbers, NEW n \in Peers, Message(g, n)
      PROVE  TypeOK'
  BY <1>12, Constants
     DEF TypeOK, Message, Start, Idle
<1>13. ASSUME NEW g \in Numbers, NEW n \in Peers, NameChange(g, n)
      PROVE  TypeOK'
  BY <1>13, Constants
     DEF TypeOK, NameChange, Start, Idle
<1>14. ASSUME NEW g \in Numbers, NEW n \in 1 .. MaxPeers, ListChanged(g, n)
      PROVE  TypeOK'
  <2>1. ListEffect(g, n) /\ SlotsTyped /\ ConfTyped
    BY <1>14, ListSlot
  <2> QED
    BY <2>1, Constants
       DEF TypeOK, ListEffect, Same, SlotsTyped, ConfTyped
<1>15. CASE AskCreate
  BY <1>15, Constants
     DEF TypeOK, AskCreate, UIFree
<1>16. ASSUME NEW g \in Numbers, RemoveItem(g)
      PROVE  TypeOK'
  <2>1. RemoveEffect(g) /\ ListTyped
      /\ view' \in Numbers \cup {None} /\ viewStale' \in BOOLEAN
    BY <1>16, RemoveListed
  <2> QED
    BY <2>1, Constants
       DEF TypeOK, RemoveEffect, Same, ListTyped
<1>17. ASSUME NEW v \in Numbers \cup {None}, Select(v)
      PROVE  TypeOK'
  BY <1>17, Constants
     DEF TypeOK, Select, UIFree, Listed
<1>18. ASSUME NEW p \in Peers, DrawPeer(p)
      PROVE  TypeOK'
  BY <1>18, Constants
     DEF TypeOK, DrawPeer, UIFree, Crash
<1>19. CASE GroupFree
  <2>1. FreeEffect /\ SlotsTyped
    BY <1>19, FreeSlot
  <2>3. groups_list_count' \in Int /\ freed' \subseteq Numbers
    BY <2>1 DEF TypeOK, FreeEffect
  <2>4. ui' = "idle" /\ UNCHANGED <<conf, groups_list_size, coreVars,
                     toxcore_msg, utox_msgs, listed, viewVars, uiAt, joins,
                     crashed, overtaken>>
    BY <2>1 DEF FreeEffect
  <2>5. /\ conf' \in [Numbers -> 0 .. MaxPeers]
        /\ groups_list_size' \in 0 .. MaxGroups /\ uiAt' \in Numbers
        /\ pc' \in {"idle", "init", "add", "name", "id", "look", "copy", "fill",
                   "count"}
        /\ at' \in Numbers /\ who' \in Peers /\ ours' \in BOOLEAN
    BY <2>4 DEF TypeOK
  <2>6. /\ toxcore_msg' \in Numbers \cup {NoMsg, AskMsg}
        /\ utox_msgs' \in Seq(Numbers) /\ listed' \in [Numbers -> Int]
        /\ view' \in Numbers \cup {None} /\ viewStale' \in BOOLEAN
        /\ joins' \in 0 .. MaxJoins /\ overtaken' \in BOOLEAN
        /\ crashed' \in {"no", "noTox", "noPeers", "noPeer", "draw"}
    BY <2>4 DEF TypeOK
  <2>7. slot' \in [Numbers -> SlotType] /\ ui' = "idle"
    BY <2>1, <2>4 DEF SlotsTyped
  <2> QED
    BY <2>3, <2>5, <2>6, <2>7 DEF TypeOK
<1>20. CASE GroupAdd
  <2>1. PICK n \in Numbers : ShownEffect(n)
    BY <1>20, AddShown
  <2>2. UNCHANGED <<conf, arrayVars, coreVars, toxcore_msg, uiVars, joins,
                    crashed, histVars>>
    BY <1>20 DEF GroupAdd
  <2>3. ListTyped /\ utox_msgs' \in Seq(Numbers)
    BY <1>20, AddShown
  <2>4. view' \in Numbers \cup {None} /\ viewStale' \in BOOLEAN
    BY <2>1 DEF ShownEffect
  <2>5. /\ conf' \in [Numbers -> 0 .. MaxPeers]
        /\ groups_list_size' \in 0 .. MaxGroups /\ uiAt' \in Numbers
        /\ groups_list_count' \in Int /\ slot' \in [Numbers -> SlotType]
        /\ pc' \in {"idle", "init", "add", "name", "id", "look", "copy", "fill",
                   "count"}
        /\ at' \in Numbers /\ who' \in Peers /\ ours' \in BOOLEAN
    BY <2>2 DEF TypeOK
  <2>6. /\ toxcore_msg' \in Numbers \cup {NoMsg, AskMsg}
        /\ ui' \in {"idle", "free", "draw", "torn"}
        /\ joins' \in 0 .. MaxJoins /\ overtaken' \in BOOLEAN
        /\ crashed' \in {"no", "noTox", "noPeers", "noPeer", "draw"}
        /\ freed' \subseteq Numbers
    BY <2>2 DEF TypeOK
  <2>7. listed' \in [Numbers -> Int] /\ utox_msgs' \in Seq(Numbers)
    BY <2>3 DEF ListTyped
  <2> QED
    BY <2>4, <2>5, <2>6, <2>7 DEF TypeOK
<1>21. CASE DrawName
  BY <1>21, Constants
     DEF TypeOK, DrawName, Crash
<1> QED
  BY <1>a, <1>1, <1>2, <1>3, <1>4, <1>5, <1>6, <1>7, <1>8, <1>9, <1>10, <1>11,
     <1>12, <1>13, <1>14, <1>15, <1>16, <1>17, <1>18, <1>19, <1>20, <1>21
     DEF Next, ToxStep, Callback, UIStep, UIGoesOn

\* A conference always has a slot: a new one takes the lowest free number.
LEMMA SlotsInductive ==
    ASSUME TypeOK, SlotForEach, [Next]_vars PROVE SlotForEach'
<1>b. Basic
  BY Basics
<1>a. UNCHANGED vars => SlotForEach'
  BY DEF vars, TypeOK, SlotForEach
<1>1. CASE Create
  <2>1. JoinEffect(TRUE)
    BY <1>1, JoinSlot DEF Create
  <2>2. toxcore_msg = AskMsg /\ toxcore_msg' = NoMsg
    BY <1>1 DEF Create, Idle
  <2>3. ASSUME at' = groups_list_size, groups_list_size' = groups_list_size + 1,
               slot'[at'].tox = TRUE, slot'[at'].peer = 0,
               slot'[at'].known = {}, slot'[at'].peer_count = 0
        PROVE  SlotForEach'
    BY <2>1, <2>2, <2>3, <1>b, Constants
       DEF SlotForEach, Basic, JoinEffect, Same
  <2>4. ASSUME at' < groups_list_size, UNCHANGED groups_list_size, Same(at')
        PROVE  SlotForEach'
    BY <2>1, <2>2, <2>4, <1>b, Constants
       DEF SlotForEach, Basic, JoinEffect, Same
  <2> QED
    BY <2>1, <2>3, <2>4 DEF JoinEffect
<1>2. CASE Invited
  <2>1. JoinEffect(FALSE)
    BY <1>2, JoinSlot DEF Invited
  <2>2. UNCHANGED toxcore_msg
    BY <1>2 DEF Invited, Idle
  <2>3. ASSUME at' = groups_list_size, groups_list_size' = groups_list_size + 1,
               slot'[at'].tox = TRUE, slot'[at'].peer = 0,
               slot'[at'].known = {}, slot'[at'].peer_count = 0
        PROVE  SlotForEach'
    BY <2>1, <2>2, <2>3, <1>b, Constants
       DEF SlotForEach, Basic, JoinEffect, Same
  <2>4. ASSUME at' < groups_list_size, UNCHANGED groups_list_size, Same(at')
        PROVE  SlotForEach'
    BY <2>1, <2>2, <2>4, <1>b, Constants
       DEF SlotForEach, Basic, JoinEffect, Same
  <2> QED
    BY <2>1, <2>3, <2>4 DEF JoinEffect
<1>3. CASE GroupInit
  <2>1. CASE slot[at].tox
    <3>1. InitEffect /\ SentEffect(at)
      BY <1>3, <2>1, InitSlot, InitSent
    <3> QED
      BY <3>1, <1>b, Constants
         DEF SlotForEach, Basic, InitEffect, SentEffect, IsOrWas, Same
  <2>2. CASE ~slot[at].tox
    BY <1>3, <2>2, <1>b DEF TypeOK, SlotForEach, GroupInit, At, Crash
  <2> QED
    BY <2>1, <2>2
<1>4. CASE PeerAdd
  <2>1. AddEffect
    BY <1>4, AddSlot
  <2> QED
    BY <2>1, <1>b, Constants
       DEF SlotForEach, Basic, AddEffect, Same
<1>5. CASE Part
  <2>1. PartEffect(toxcore_msg)
    BY <1>5, PartConference
  <2> QED
    BY <2>1, <1>b, Constants
       DEF SlotForEach, Basic, PartEffect, Same
<1>6. CASE ChangeName
  BY <1>6, <1>b, Constants
     DEF SlotForEach, Basic, ChangeName, At, GoTo, Crash
<1>7. CASE ConferenceId
  BY <1>7, <1>b, Constants
     DEF SlotForEach, Basic, ConferenceId, At, GoTo, Crash
<1>8. CASE LookUp
  BY <1>8, <1>b, Constants
     DEF SlotForEach, Basic, LookUp, At, GoTo, Crash
<1>9. CASE CopyPeer
  BY <1>9, <1>b, Constants
     DEF SlotForEach, Basic, CopyPeer, At, GoTo, Crash
<1>10. CASE Fill
  <2>1. FillEffect
    BY <1>10, FillSlot
  <2> QED
    BY <2>1, <1>b, Constants
       DEF SlotForEach, Basic, FillEffect, Same
<1>11. CASE CountPeers
  <2>1. CountEffect
    BY <1>11, CountSlot
  <2> QED
    BY <2>1, <1>b, Constants
       DEF SlotForEach, Basic, CountEffect, Same
<1>12. ASSUME NEW g \in Numbers, NEW n \in Peers, Message(g, n)
      PROVE  SlotForEach'
  BY <1>12, <1>b, Constants
     DEF SlotForEach, Basic, Message, Start, Idle
<1>13. ASSUME NEW g \in Numbers, NEW n \in Peers, NameChange(g, n)
      PROVE  SlotForEach'
  BY <1>13, <1>b, Constants
     DEF SlotForEach, Basic, NameChange, Start, Idle
<1>14. ASSUME NEW g \in Numbers, NEW n \in 1 .. MaxPeers, ListChanged(g, n)
      PROVE  SlotForEach'
  <2>1. ListEffect(g, n)
    BY <1>14, ListSlot
  <2> QED
    BY <2>1, <1>b, Constants
       DEF SlotForEach, Basic, ListEffect, Same
<1>15. CASE AskCreate
  BY <1>15, <1>b, Constants
     DEF SlotForEach, Basic, AskCreate, UIFree
<1>16. ASSUME NEW g \in Numbers, RemoveItem(g)
      PROVE  SlotForEach'
  <2>1. RemoveEffect(g)
    BY <1>16, RemoveListed
  <2> QED
    BY <2>1, <1>b, Constants
       DEF SlotForEach, Basic, RemoveEffect, Same
<1>17. ASSUME NEW v \in Numbers \cup {None}, Select(v)
      PROVE  SlotForEach'
  BY <1>17, <1>b, Constants
     DEF SlotForEach, Basic, Select, UIFree, Listed
<1>18. ASSUME NEW p \in Peers, DrawPeer(p)
      PROVE  SlotForEach'
  BY <1>18, <1>b, Constants
     DEF SlotForEach, Basic, DrawPeer, UIFree, Crash
<1>19. CASE GroupFree
  <2>1. FreeEffect
    BY <1>19, FreeSlot
  <2> QED
    BY <2>1, <1>b, Constants
       DEF SlotForEach, Basic, FreeEffect, Same
<1>20. CASE GroupAdd
  <2>1. PICK n \in Numbers : ShownEffect(n)
    BY <1>20, AddShown
  <2>2. UNCHANGED <<conf, arrayVars, coreVars, toxcore_msg, uiVars, joins,
                    crashed, histVars>>
    BY <1>20 DEF GroupAdd
  <2> QED
    BY <2>1, <2>2, <1>b, Constants DEF SlotForEach, Basic, ShownEffect
<1>21. CASE DrawName
  BY <1>21, <1>b, Constants
     DEF SlotForEach, Basic, DrawName, Crash
<1> QED
  BY <1>a, <1>1, <1>2, <1>3, <1>4, <1>5, <1>6, <1>7, <1>8, <1>9, <1>10, <1>11,
     <1>12, <1>13, <1>14, <1>15, <1>16, <1>17, <1>18, <1>19, <1>20, <1>21
     DEF Next, ToxStep, Callback, UIStep, UIGoesOn

\* Nothing shrinks the array, and what is new in hand is in it.
LEMMA InArrayInductive ==
    ASSUME TypeOK, SlotForEach, InArray, [Next]_vars PROVE InArray'
<1>b. Basic
  BY Basics
<1>a. UNCHANGED vars => InArray'
  BY DEF vars, TypeOK, SlotForEach, InArray
<1>1. CASE Create
  <2>1. JoinEffect(TRUE)
    BY <1>1, JoinSlot DEF Create
  <2>2. toxcore_msg = AskMsg /\ toxcore_msg' = NoMsg
    BY <1>1 DEF Create, Idle
  <2>3. /\ groups_list_size <= groups_list_size' /\ at' < groups_list_size'
        /\ groups_list_size' \in Nat /\ at' \in Numbers
    BY <2>1, <1>b, Constants DEF JoinEffect, Basic
  <2>4. pc' = "init" /\ UNCHANGED <<utox_msgs, listed, uiVars, freed>>
    BY <2>1 DEF JoinEffect
  <2>5. \A k \in Numbers : k < groups_list_size => k < groups_list_size'
    BY <2>3, <1>b, Constants DEF Basic
  <2> QED
    BY <2>3, <2>4, <2>5, <1>b DEF InArray, Basic
<1>2. CASE Invited
  <2>1. JoinEffect(FALSE)
    BY <1>2, JoinSlot DEF Invited
  <2>2. UNCHANGED toxcore_msg
    BY <1>2 DEF Invited, Idle
  <2>3. /\ groups_list_size <= groups_list_size' /\ at' < groups_list_size'
        /\ groups_list_size' \in Nat /\ at' \in Numbers
    BY <2>1, <1>b, Constants DEF JoinEffect, Basic
  <2>4. pc' = "init" /\ UNCHANGED <<utox_msgs, listed, uiVars, freed>>
    BY <2>1 DEF JoinEffect
  <2>5. \A k \in Numbers : k < groups_list_size => k < groups_list_size'
    BY <2>3, <1>b, Constants DEF Basic
  <2> QED
    BY <2>3, <2>4, <2>5, <1>b DEF InArray, Basic
<1>3. CASE GroupInit
  <2>1. CASE slot[at].tox
    <3>1. InitEffect /\ SentEffect(at)
      BY <1>3, <2>1, InitSlot, InitSent
    <3> QED
      BY <3>1, <1>b, Constants
         DEF SlotForEach, InArray, Basic, InitEffect, SentEffect, IsOrWas, Same
  <2>2. CASE ~slot[at].tox
    BY <1>3, <2>2, <1>b DEF TypeOK, SlotForEach, InArray, GroupInit, At, Crash
  <2> QED
    BY <2>1, <2>2
<1>4. CASE PeerAdd
  <2>1. AddEffect
    BY <1>4, AddSlot
  <2> QED
    BY <2>1, <1>b, Constants
       DEF SlotForEach, InArray, Basic, AddEffect, Same
<1>5. CASE Part
  <2>1. PartEffect(toxcore_msg)
    BY <1>5, PartConference
  <2> QED
    BY <2>1, <1>b, Constants
       DEF SlotForEach, InArray, Basic, PartEffect, Same
<1>6. CASE ChangeName
  BY <1>6, <1>b, Constants
     DEF SlotForEach, InArray, Basic, ChangeName, At, GoTo, Crash
<1>7. CASE ConferenceId
  BY <1>7, <1>b, Constants
     DEF SlotForEach, InArray, Basic, ConferenceId, At, GoTo, Crash
<1>8. CASE LookUp
  BY <1>8, <1>b, Constants
     DEF SlotForEach, InArray, Basic, LookUp, At, GoTo, Crash
<1>9. CASE CopyPeer
  BY <1>9, <1>b, Constants
     DEF SlotForEach, InArray, Basic, CopyPeer, At, GoTo, Crash
<1>10. CASE Fill
  <2>1. FillEffect
    BY <1>10, FillSlot
  <2> QED
    BY <2>1, <1>b, Constants
       DEF SlotForEach, InArray, Basic, FillEffect, Same
<1>11. CASE CountPeers
  <2>1. CountEffect
    BY <1>11, CountSlot
  <2> QED
    BY <2>1, <1>b, Constants
       DEF SlotForEach, InArray, Basic, CountEffect, Same
<1>12. ASSUME NEW g \in Numbers, NEW n \in Peers, Message(g, n)
      PROVE  InArray'
  BY <1>12, <1>b, Constants
     DEF SlotForEach, InArray, Basic, Message, Start, Idle
<1>13. ASSUME NEW g \in Numbers, NEW n \in Peers, NameChange(g, n)
      PROVE  InArray'
  BY <1>13, <1>b, Constants
     DEF SlotForEach, InArray, Basic, NameChange, Start, Idle
<1>14. ASSUME NEW g \in Numbers, NEW n \in 1 .. MaxPeers, ListChanged(g, n)
      PROVE  InArray'
  <2>1. ListEffect(g, n)
    BY <1>14, ListSlot
  <2> QED
    BY <2>1, <1>b, Constants
       DEF SlotForEach, InArray, Basic, ListEffect, Same
<1>15. CASE AskCreate
  BY <1>15, <1>b, Constants
     DEF SlotForEach, InArray, Basic, AskCreate, UIFree
<1>16. ASSUME NEW g \in Numbers, RemoveItem(g)
      PROVE  InArray'
  <2>1. RemoveEffect(g)
    BY <1>16, RemoveListed
  <2> QED
    BY <2>1, <1>b, Constants
       DEF SlotForEach, InArray, Basic, RemoveEffect, Same
<1>17. ASSUME NEW v \in Numbers \cup {None}, Select(v)
      PROVE  InArray'
  BY <1>17, <1>b, Constants
     DEF SlotForEach, InArray, Basic, Select, UIFree, Listed
<1>18. ASSUME NEW p \in Peers, DrawPeer(p)
      PROVE  InArray'
  BY <1>18, <1>b, Constants
     DEF SlotForEach, InArray, Basic, DrawPeer, UIFree, Crash
<1>19. CASE GroupFree
  <2>1. FreeEffect
    BY <1>19, FreeSlot
  <2> QED
    BY <2>1, <1>b, Constants
       DEF SlotForEach, InArray, Basic, FreeEffect, Same
<1>20. CASE GroupAdd
  <2>1. PICK n \in Numbers : ShownEffect(n)
    BY <1>20, AddShown
  <2>2. UNCHANGED <<conf, arrayVars, coreVars, toxcore_msg, uiVars, joins,
                    crashed, histVars>>
    BY <1>20 DEF GroupAdd
  <2>3. n < groups_list_size
    <3>1. utox_msgs[1] < groups_list_size /\ utox_msgs[1] \in Numbers
      BY <2>1, <1>b DEF InArray, Basic, ShownEffect
    <3>2. PICK m \in Nat : m < groups_list_size /\ groups_list_size \in Nat
      BY <3>1, <1>b, Constants DEF Basic
    <3>3. 0 < groups_list_size
      BY <3>2
    <3> QED
      BY <2>1, <3>1, <3>3 DEF ShownEffect
  <2> QED
    BY <2>1, <2>2, <2>3, <1>b, Constants DEF InArray, Basic, ShownEffect
<1>21. CASE DrawName
  BY <1>21, <1>b, Constants
     DEF SlotForEach, InArray, Basic, DrawName, Crash
<1> QED
  BY <1>a, <1>1, <1>2, <1>3, <1>4, <1>5, <1>6, <1>7, <1>8, <1>9, <1>10, <1>11,
     <1>12, <1>13, <1>14, <1>15, <1>16, <1>17, <1>18, <1>19, <1>20, <1>21
     DEF Next, ToxStep, Callback, UIStep, UIGoesOn

\* Only group_make gives a slot its Tox, and only group_free takes it.
LEMMA ToxKeptInductive ==
    ASSUME TypeOK, SlotForEach, InArray, ToxKept, [Next]_vars PROVE ToxKept'
<1>b. Basic
  BY Basics
<1>a. UNCHANGED vars => ToxKept'
  BY DEF vars, TypeOK, InArray, ToxKept
<1>1. CASE Create
  <2>1. JoinEffect(TRUE)
    BY <1>1, JoinSlot DEF Create
  <2>2. toxcore_msg = AskMsg /\ toxcore_msg' = NoMsg
    BY <1>1 DEF Create, Idle
  <2>3. ASSUME at' = groups_list_size, groups_list_size' = groups_list_size + 1,
               slot'[at'].tox = TRUE, slot'[at'].peer = 0,
               slot'[at'].known = {}, slot'[at'].peer_count = 0
        PROVE  ToxKept'
    BY <2>1, <2>2, <2>3, <1>b, Constants
       DEF InArray, ToxKept, Basic, JoinEffect, Same
  <2>4. ASSUME at' < groups_list_size, UNCHANGED groups_list_size, Same(at')
        PROVE  ToxKept'
    BY <2>1, <2>2, <2>4, <1>b, Constants
       DEF InArray, ToxKept, Basic, JoinEffect, Same
  <2> QED
    BY <2>1, <2>3, <2>4 DEF JoinEffect
<1>2. CASE Invited
  <2>1. JoinEffect(FALSE)
    BY <1>2, JoinSlot DEF Invited
  <2>2. UNCHANGED toxcore_msg
    BY <1>2 DEF Invited, Idle
  <2>3. ASSUME at' = groups_list_size, groups_list_size' = groups_list_size + 1,
               slot'[at'].tox = TRUE, slot'[at'].peer = 0,
               slot'[at'].known = {}, slot'[at'].peer_count = 0
        PROVE  ToxKept'
    BY <2>1, <2>2, <2>3, <1>b, Constants
       DEF InArray, ToxKept, Basic, JoinEffect, Same
  <2>4. ASSUME at' < groups_list_size, UNCHANGED groups_list_size, Same(at')
        PROVE  ToxKept'
    BY <2>1, <2>2, <2>4, <1>b, Constants
       DEF InArray, ToxKept, Basic, JoinEffect, Same
  <2> QED
    BY <2>1, <2>3, <2>4 DEF JoinEffect
<1>3. CASE GroupInit
  <2>1. CASE slot[at].tox
    <3>1. InitEffect /\ SentEffect(at)
      BY <1>3, <2>1, InitSlot, InitSent
    <3> QED
      BY <3>1, <1>b, Constants
         DEF InArray, ToxKept, Basic, InitEffect, SentEffect, IsOrWas, Same
  <2>2. CASE ~slot[at].tox
    BY <1>3, <2>2, <1>b DEF TypeOK, InArray, ToxKept, GroupInit, At, Crash
  <2> QED
    BY <2>1, <2>2
<1>4. CASE PeerAdd
  <2>1. AddEffect
    BY <1>4, AddSlot
  <2> QED
    BY <2>1, <1>b, Constants
       DEF InArray, ToxKept, Basic, AddEffect, Same
<1>5. CASE Part
  <2>1. PartEffect(toxcore_msg)
    BY <1>5, PartConference
  <2> QED
    BY <2>1, <1>b, Constants
       DEF InArray, ToxKept, Basic, PartEffect, Same
<1>6. CASE ChangeName
  BY <1>6, <1>b, Constants
     DEF InArray, ToxKept, Basic, ChangeName, At, GoTo, Crash
<1>7. CASE ConferenceId
  BY <1>7, <1>b, Constants
     DEF InArray, ToxKept, Basic, ConferenceId, At, GoTo, Crash
<1>8. CASE LookUp
  BY <1>8, <1>b, Constants
     DEF InArray, ToxKept, Basic, LookUp, At, GoTo, Crash
<1>9. CASE CopyPeer
  BY <1>9, <1>b, Constants
     DEF InArray, ToxKept, Basic, CopyPeer, At, GoTo, Crash
<1>10. CASE Fill
  <2>1. FillEffect
    BY <1>10, FillSlot
  <2> QED
    BY <2>1, <1>b, Constants
       DEF InArray, ToxKept, Basic, FillEffect, Same
<1>11. CASE CountPeers
  <2>1. CountEffect
    BY <1>11, CountSlot
  <2> QED
    BY <2>1, <1>b, Constants
       DEF InArray, ToxKept, Basic, CountEffect, Same
<1>12. ASSUME NEW g \in Numbers, NEW n \in Peers, Message(g, n)
      PROVE  ToxKept'
  BY <1>12, <1>b, Constants
     DEF InArray, ToxKept, Basic, Message, Start, Idle
<1>13. ASSUME NEW g \in Numbers, NEW n \in Peers, NameChange(g, n)
      PROVE  ToxKept'
  BY <1>13, <1>b, Constants
     DEF InArray, ToxKept, Basic, NameChange, Start, Idle
<1>14. ASSUME NEW g \in Numbers, NEW n \in 1 .. MaxPeers, ListChanged(g, n)
      PROVE  ToxKept'
  <2>1. ListEffect(g, n)
    BY <1>14, ListSlot
  <2> QED
    BY <2>1, <1>b, Constants
       DEF InArray, ToxKept, Basic, ListEffect, Same
<1>15. CASE AskCreate
  BY <1>15, <1>b, Constants
     DEF InArray, ToxKept, Basic, AskCreate, UIFree
<1>16. ASSUME NEW g \in Numbers, RemoveItem(g)
      PROVE  ToxKept'
  <2>1. RemoveEffect(g)
    BY <1>16, RemoveListed
  <2> QED
    BY <2>1, <1>b, Constants
       DEF InArray, ToxKept, Basic, RemoveEffect, Same
<1>17. ASSUME NEW v \in Numbers \cup {None}, Select(v)
      PROVE  ToxKept'
  BY <1>17, <1>b, Constants
     DEF InArray, ToxKept, Basic, Select, UIFree, Listed
<1>18. ASSUME NEW p \in Peers, DrawPeer(p)
      PROVE  ToxKept'
  BY <1>18, <1>b, Constants
     DEF InArray, ToxKept, Basic, DrawPeer, UIFree, Crash
<1>19. CASE GroupFree
  <2>1. FreeEffect
    BY <1>19, FreeSlot
  <2> QED
    BY <2>1, <1>b, Constants
       DEF InArray, ToxKept, Basic, FreeEffect, Same
<1>20. CASE GroupAdd
  <2>1. PICK n \in Numbers : ShownEffect(n)
    BY <1>20, AddShown
  <2>2. UNCHANGED <<conf, arrayVars, coreVars, toxcore_msg, uiVars, joins,
                    crashed, histVars>>
    BY <1>20 DEF GroupAdd
  <2> QED
    BY <2>1, <2>2, <1>b, Constants DEF InArray, ToxKept, Basic, ShownEffect
<1>21. CASE DrawName
  BY <1>21, <1>b, Constants
     DEF InArray, ToxKept, Basic, DrawName, Crash
<1> QED
  BY <1>a, <1>1, <1>2, <1>3, <1>4, <1>5, <1>6, <1>7, <1>8, <1>9, <1>10, <1>11,
     <1>12, <1>13, <1>14, <1>15, <1>16, <1>17, <1>18, <1>19, <1>20, <1>21
     DEF Next, ToxStep, Callback, UIStep, UIGoesOn

\* A conference goes with TOX_GROUP_PART only, which deleteitem posts.
LEMMA RemovalInductive ==
    ASSUME TypeOK, SlotForEach, InArray, Removal, [Next]_vars PROVE Removal'
<1>b. Basic
  BY Basics
<1>a. UNCHANGED vars => Removal'
  BY DEF vars, TypeOK, Removal
<1>1. CASE Create
  <2>1. JoinEffect(TRUE)
    BY <1>1, JoinSlot DEF Create
  <2>2. toxcore_msg = AskMsg /\ toxcore_msg' = NoMsg
    BY <1>1 DEF Create, Idle
  <2>3. ASSUME at' = groups_list_size, groups_list_size' = groups_list_size + 1,
               slot'[at'].tox = TRUE, slot'[at'].peer = 0,
               slot'[at'].known = {}, slot'[at'].peer_count = 0
        PROVE  Removal'
    BY <2>1, <2>2, <2>3, <1>b, Constants
       DEF SlotForEach, InArray, Removal, Basic, JoinEffect, Same
  <2>4. ASSUME at' < groups_list_size, UNCHANGED groups_list_size, Same(at')
        PROVE  Removal'
    BY <2>1, <2>2, <2>4, <1>b, Constants
       DEF SlotForEach, InArray, Removal, Basic, JoinEffect, Same
  <2> QED
    BY <2>1, <2>3, <2>4 DEF JoinEffect
<1>2. CASE Invited
  <2>1. JoinEffect(FALSE)
    BY <1>2, JoinSlot DEF Invited
  <2>2. UNCHANGED toxcore_msg
    BY <1>2 DEF Invited, Idle
  <2>3. ASSUME at' = groups_list_size, groups_list_size' = groups_list_size + 1,
               slot'[at'].tox = TRUE, slot'[at'].peer = 0,
               slot'[at'].known = {}, slot'[at'].peer_count = 0
        PROVE  Removal'
    BY <2>1, <2>2, <2>3, <1>b, Constants
       DEF SlotForEach, InArray, Removal, Basic, JoinEffect, Same
  <2>4. ASSUME at' < groups_list_size, UNCHANGED groups_list_size, Same(at')
        PROVE  Removal'
    BY <2>1, <2>2, <2>4, <1>b, Constants
       DEF SlotForEach, InArray, Removal, Basic, JoinEffect, Same
  <2> QED
    BY <2>1, <2>3, <2>4 DEF JoinEffect
<1>3. CASE GroupInit
  <2>1. CASE slot[at].tox
    <3>1. InitEffect /\ SentEffect(at)
      BY <1>3, <2>1, InitSlot, InitSent
    <3> QED
      BY <3>1, <1>b, Constants
         DEF Removal, Basic, InitEffect, SentEffect, IsOrWas, Same
  <2>2. CASE ~slot[at].tox
    BY <1>3, <2>2, <1>b DEF TypeOK, Removal, GroupInit, At, Crash
  <2> QED
    BY <2>1, <2>2
<1>4. CASE PeerAdd
  <2>1. AddEffect
    BY <1>4, AddSlot
  <2> QED
    BY <2>1, <1>b, Constants
       DEF Removal, Basic, AddEffect, Same
<1>5. CASE Part
  <2>1. PartEffect(toxcore_msg)
    BY <1>5, PartConference
  <2> QED
    BY <2>1, <1>b, Constants
       DEF Removal, Basic, PartEffect, Same
<1>6. CASE ChangeName
  BY <1>6, <1>b, Constants
     DEF Removal, Basic, ChangeName, At, GoTo, Crash
<1>7. CASE ConferenceId
  BY <1>7, <1>b, Constants
     DEF Removal, Basic, ConferenceId, At, GoTo, Crash
<1>8. CASE LookUp
  BY <1>8, <1>b, Constants
     DEF Removal, Basic, LookUp, At, GoTo, Crash
<1>9. CASE CopyPeer
  BY <1>9, <1>b, Constants
     DEF Removal, Basic, CopyPeer, At, GoTo, Crash
<1>10. CASE Fill
  <2>1. FillEffect
    BY <1>10, FillSlot
  <2> QED
    BY <2>1, <1>b, Constants
       DEF Removal, Basic, FillEffect, Same
<1>11. CASE CountPeers
  <2>1. CountEffect
    BY <1>11, CountSlot
  <2> QED
    BY <2>1, <1>b, Constants
       DEF Removal, Basic, CountEffect, Same
<1>12. ASSUME NEW g \in Numbers, NEW n \in Peers, Message(g, n)
      PROVE  Removal'
  BY <1>12, <1>b, Constants
     DEF Removal, Basic, Message, Start, Idle
<1>13. ASSUME NEW g \in Numbers, NEW n \in Peers, NameChange(g, n)
      PROVE  Removal'
  BY <1>13, <1>b, Constants
     DEF Removal, Basic, NameChange, Start, Idle
<1>14. ASSUME NEW g \in Numbers, NEW n \in 1 .. MaxPeers, ListChanged(g, n)
      PROVE  Removal'
  <2>1. ListEffect(g, n)
    BY <1>14, ListSlot
  <2> QED
    BY <2>1, <1>b, Constants
       DEF Removal, Basic, ListEffect, Same
<1>15. CASE AskCreate
  BY <1>15, <1>b, Constants
     DEF Removal, Basic, AskCreate, UIFree
<1>16. ASSUME NEW g \in Numbers, RemoveItem(g)
      PROVE  Removal'
  <2>1. RemoveEffect(g)
    BY <1>16, RemoveListed
  <2> QED
    BY <2>1, <1>b, Constants
       DEF Removal, Basic, RemoveEffect, Same
<1>17. ASSUME NEW v \in Numbers \cup {None}, Select(v)
      PROVE  Removal'
  BY <1>17, <1>b, Constants
     DEF Removal, Basic, Select, UIFree, Listed
<1>18. ASSUME NEW p \in Peers, DrawPeer(p)
      PROVE  Removal'
  BY <1>18, <1>b, Constants
     DEF Removal, Basic, DrawPeer, UIFree, Crash
<1>19. CASE GroupFree
  <2>1. FreeEffect
    BY <1>19, FreeSlot
  <2> QED
    BY <2>1, <1>b, Constants
       DEF Removal, Basic, FreeEffect, Same
<1>20. CASE GroupAdd
  <2>1. PICK n \in Numbers : ShownEffect(n)
    BY <1>20, AddShown
  <2>2. UNCHANGED <<conf, arrayVars, coreVars, toxcore_msg, uiVars, joins,
                    crashed, histVars>>
    BY <1>20 DEF GroupAdd
  <2> QED
    BY <2>1, <2>2, <1>b, Constants DEF Removal, Basic, ShownEffect
<1>21. CASE DrawName
  BY <1>21, <1>b, Constants
     DEF Removal, Basic, DrawName, Crash
<1> QED
  BY <1>a, <1>1, <1>2, <1>3, <1>4, <1>5, <1>6, <1>7, <1>8, <1>9, <1>10, <1>11,
     <1>12, <1>13, <1>14, <1>15, <1>16, <1>17, <1>18, <1>19, <1>20, <1>21
     DEF Next, ToxStep, Callback, UIStep, UIGoesOn

\* The slot of a new conference is new, freed or about to be freed.
LEMMA FreshInductive ==
    ASSUME TypeOK, SlotForEach, InArray, Removal, Fresh, [Next]_vars
    PROVE  Fresh'
<1>b. Basic
  BY Basics
<1>a. UNCHANGED vars => Fresh'
  BY DEF vars, TypeOK, InArray, Removal, Fresh
<1>1. CASE Create
  <2>1. JoinEffect(TRUE)
    BY <1>1, JoinSlot DEF Create
  <2>2. toxcore_msg = AskMsg /\ toxcore_msg' = NoMsg
    BY <1>1 DEF Create, Idle
  <2>3. ASSUME at' = groups_list_size, groups_list_size' = groups_list_size + 1,
               slot'[at'].tox = TRUE, slot'[at'].peer = 0,
               slot'[at'].known = {}, slot'[at'].peer_count = 0
        PROVE  Fresh'
    BY <2>1, <2>2, <2>3, <1>b, Constants
       DEF InArray, Removal, Fresh, Basic, JoinEffect, Same
  <2>4. ASSUME at' < groups_list_size, UNCHANGED groups_list_size, Same(at')
        PROVE  Fresh'
    BY <2>1, <2>2, <2>4, <1>b, Constants
       DEF InArray, Removal, Fresh, Basic, JoinEffect, Same
  <2> QED
    BY <2>1, <2>3, <2>4 DEF JoinEffect
<1>2. CASE Invited
  <2>1. JoinEffect(FALSE)
    BY <1>2, JoinSlot DEF Invited
  <2>2. UNCHANGED toxcore_msg
    BY <1>2 DEF Invited, Idle
  <2>3. ASSUME at' = groups_list_size, groups_list_size' = groups_list_size + 1,
               slot'[at'].tox = TRUE, slot'[at'].peer = 0,
               slot'[at'].known = {}, slot'[at'].peer_count = 0
        PROVE  Fresh'
    BY <2>1, <2>2, <2>3, <1>b, Constants
       DEF InArray, Removal, Fresh, Basic, JoinEffect, Same
  <2>4. ASSUME at' < groups_list_size, UNCHANGED groups_list_size, Same(at')
        PROVE  Fresh'
    BY <2>1, <2>2, <2>4, <1>b, Constants
       DEF InArray, Removal, Fresh, Basic, JoinEffect, Same
  <2> QED
    BY <2>1, <2>3, <2>4 DEF JoinEffect
<1>3. CASE GroupInit
  <2>1. CASE slot[at].tox
    <3>1. InitEffect /\ SentEffect(at)
      BY <1>3, <2>1, InitSlot, InitSent
    <3> QED
      BY <3>1, <1>b, Constants
         DEF InArray, Removal, Fresh, Basic, InitEffect, SentEffect, IsOrWas,
             Same
  <2>2. CASE ~slot[at].tox
    BY <1>3, <2>2, <1>b
       DEF TypeOK, InArray, Removal, Fresh, GroupInit, At, Crash
  <2> QED
    BY <2>1, <2>2
<1>4. CASE PeerAdd
  <2>1. AddEffect
    BY <1>4, AddSlot
  <2> QED
    BY <2>1, <1>b, Constants
       DEF InArray, Removal, Fresh, Basic, AddEffect, Same
<1>5. CASE Part
  <2>1. PartEffect(toxcore_msg)
    BY <1>5, PartConference
  <2> QED
    BY <2>1, <1>b, Constants
       DEF InArray, Removal, Fresh, Basic, PartEffect, Same
<1>6. CASE ChangeName
  BY <1>6, <1>b, Constants
     DEF InArray, Removal, Fresh, Basic, ChangeName, At, GoTo, Crash
<1>7. CASE ConferenceId
  BY <1>7, <1>b, Constants
     DEF InArray, Removal, Fresh, Basic, ConferenceId, At, GoTo, Crash
<1>8. CASE LookUp
  BY <1>8, <1>b, Constants
     DEF InArray, Removal, Fresh, Basic, LookUp, At, GoTo, Crash
<1>9. CASE CopyPeer
  BY <1>9, <1>b, Constants
     DEF InArray, Removal, Fresh, Basic, CopyPeer, At, GoTo, Crash
<1>10. CASE Fill
  <2>1. FillEffect
    BY <1>10, FillSlot
  <2> QED
    BY <2>1, <1>b, Constants
       DEF InArray, Removal, Fresh, Basic, FillEffect, Same
<1>11. CASE CountPeers
  <2>1. CountEffect
    BY <1>11, CountSlot
  <2> QED
    BY <2>1, <1>b, Constants
       DEF InArray, Removal, Fresh, Basic, CountEffect, Same
<1>12. ASSUME NEW g \in Numbers, NEW n \in Peers, Message(g, n)
      PROVE  Fresh'
  BY <1>12, <1>b, Constants
     DEF InArray, Removal, Fresh, Basic, Message, Start, Idle
<1>13. ASSUME NEW g \in Numbers, NEW n \in Peers, NameChange(g, n)
      PROVE  Fresh'
  BY <1>13, <1>b, Constants
     DEF InArray, Removal, Fresh, Basic, NameChange, Start, Idle
<1>14. ASSUME NEW g \in Numbers, NEW n \in 1 .. MaxPeers, ListChanged(g, n)
      PROVE  Fresh'
  <2>1. ListEffect(g, n)
    BY <1>14, ListSlot
  <2> QED
    BY <2>1, <1>b, Constants
       DEF InArray, Removal, Fresh, Basic, ListEffect, Same
<1>15. CASE AskCreate
  BY <1>15, <1>b, Constants
     DEF InArray, Removal, Fresh, Basic, AskCreate, UIFree
<1>16. ASSUME NEW g \in Numbers, RemoveItem(g)
      PROVE  Fresh'
  <2>1. RemoveEffect(g)
    BY <1>16, RemoveListed
  <2> QED
    BY <2>1, <1>b, Constants
       DEF InArray, Removal, Fresh, Basic, RemoveEffect, Same
<1>17. ASSUME NEW v \in Numbers \cup {None}, Select(v)
      PROVE  Fresh'
  BY <1>17, <1>b, Constants
     DEF InArray, Removal, Fresh, Basic, Select, UIFree, Listed
<1>18. ASSUME NEW p \in Peers, DrawPeer(p)
      PROVE  Fresh'
  BY <1>18, <1>b, Constants
     DEF InArray, Removal, Fresh, Basic, DrawPeer, UIFree, Crash
<1>19. CASE GroupFree
  <2>1. FreeEffect
    BY <1>19, FreeSlot
  <2> QED
    BY <2>1, <1>b, Constants
       DEF InArray, Removal, Fresh, Basic, FreeEffect, Same
<1>20. CASE GroupAdd
  <2>1. PICK n \in Numbers : ShownEffect(n)
    BY <1>20, AddShown
  <2>2. UNCHANGED <<conf, arrayVars, coreVars, toxcore_msg, uiVars, joins,
                    crashed, histVars>>
    BY <1>20 DEF GroupAdd
  <2> QED
    BY <2>1, <2>2, <1>b, Constants
       DEF InArray, Removal, Fresh, Basic, ShownEffect
<1>21. CASE DrawName
  BY <1>21, <1>b, Constants
     DEF InArray, Removal, Fresh, Basic, DrawName, Crash
<1> QED
  BY <1>a, <1>1, <1>2, <1>3, <1>4, <1>5, <1>6, <1>7, <1>8, <1>9, <1>10, <1>11,
     <1>12, <1>13, <1>14, <1>15, <1>16, <1>17, <1>18, <1>19, <1>20, <1>21
     DEF Next, ToxStep, Callback, UIStep, UIGoesOn

\* Peers are put where the array has room for them.
LEMMA KnownFitInductive ==
    ASSUME TypeOK, SlotForEach, Fresh, KnownFit, [Next]_vars PROVE KnownFit'
<1>b. Basic
  BY Basics
<1>a. UNCHANGED vars => KnownFit'
  BY DEF vars, TypeOK, Fresh, KnownFit
<1>1. CASE Create
  <2>1. JoinEffect(TRUE)
    BY <1>1, JoinSlot DEF Create
  <2>2. toxcore_msg = AskMsg /\ toxcore_msg' = NoMsg
    BY <1>1 DEF Create, Idle
  <2>3. ASSUME at' = groups_list_size, groups_list_size' = groups_list_size + 1,
               slot'[at'].tox = TRUE, slot'[at'].peer = 0,
               slot'[at'].known = {}, slot'[at'].peer_count = 0
        PROVE  KnownFit'
    BY <2>1, <2>2, <2>3, <1>b, Constants
       DEF KnownFit, Basic, JoinEffect, Same
  <2>4. ASSUME at' < groups_list_size, UNCHANGED groups_list_size, Same(at')
        PROVE  KnownFit'
    BY <2>1, <2>2, <2>4, <1>b, Constants
       DEF KnownFit, Basic, JoinEffect, Same
  <2> QED
    BY <2>1, <2>3, <2>4 DEF JoinEffect
<1>2. CASE Invited
  <2>1. JoinEffect(FALSE)
    BY <1>2, JoinSlot DEF Invited
  <2>2. UNCHANGED toxcore_msg
    BY <1>2 DEF Invited, Idle
  <2>3. ASSUME at' = groups_list_size, groups_list_size' = groups_list_size + 1,
               slot'[at'].tox = TRUE, slot'[at'].peer = 0,
               slot'[at'].known = {}, slot'[at'].peer_count = 0
        PROVE  KnownFit'
    BY <2>1, <2>2, <2>3, <1>b, Constants
       DEF KnownFit, Basic, JoinEffect, Same
  <2>4. ASSUME at' < groups_list_size, UNCHANGED groups_list_size, Same(at')
        PROVE  KnownFit'
    BY <2>1, <2>2, <2>4, <1>b, Constants
       DEF KnownFit, Basic, JoinEffect, Same
  <2> QED
    BY <2>1, <2>3, <2>4 DEF JoinEffect
<1>3. CASE GroupInit
  <2>1. CASE slot[at].tox
    <3>1. InitEffect /\ SentEffect(at)
      BY <1>3, <2>1, InitSlot, InitSent
    <3> QED
      BY <3>1, <1>b, Constants
         DEF KnownFit, Basic, InitEffect, SentEffect, IsOrWas, Same
  <2>2. CASE ~slot[at].tox
    BY <1>3, <2>2, <1>b DEF KnownFit, GroupInit, At, Crash
  <2> QED
    BY <2>1, <2>2
<1>4. CASE PeerAdd
  <2>1. AddEffect
    BY <1>4, AddSlot
  <2> QED
    BY <2>1, <1>b, Constants
       DEF KnownFit, Basic, AddEffect, Same
<1>5. CASE Part
  <2>1. PartEffect(toxcore_msg)
    BY <1>5, PartConference
  <2> QED
    BY <2>1, <1>b, Constants
       DEF KnownFit, Basic, PartEffect, Same
<1>6. CASE ChangeName
  BY <1>6, <1>b, Constants
     DEF KnownFit, Basic, ChangeName, At, GoTo, Crash
<1>7. CASE ConferenceId
  BY <1>7, <1>b, Constants
     DEF KnownFit, Basic, ConferenceId, At, GoTo, Crash
<1>8. CASE LookUp
  BY <1>8, <1>b, Constants
     DEF KnownFit, Basic, LookUp, At, GoTo, Crash
<1>9. CASE CopyPeer
  BY <1>9, <1>b, Constants
     DEF KnownFit, Basic, CopyPeer, At, GoTo, Crash
<1>10. CASE Fill
  <2>1. FillEffect
    BY <1>10, FillSlot
  <2>2. \A k \in slot'[at].known : k < slot'[at].peer
    BY <2>1, <1>b DEF FillEffect, Basic
  <2>3. at' = at /\ \A h \in Numbers : h # at => slot'[h] = slot[h]
    BY <2>1 DEF FillEffect, Same
  <2> QED
    BY <2>2, <2>3 DEF KnownFit
<1>11. CASE CountPeers
  <2>1. CountEffect
    BY <1>11, CountSlot
  <2> QED
    BY <2>1, <1>b, Constants
       DEF KnownFit, Basic, CountEffect, Same
<1>12. ASSUME NEW g \in Numbers, NEW n \in Peers, Message(g, n)
      PROVE  KnownFit'
  BY <1>12, <1>b, Constants
     DEF KnownFit, Basic, Message, Start, Idle
<1>13. ASSUME NEW g \in Numbers, NEW n \in Peers, NameChange(g, n)
      PROVE  KnownFit'
  BY <1>13, <1>b, Constants
     DEF KnownFit, Basic, NameChange, Start, Idle
<1>14. ASSUME NEW g \in Numbers, NEW n \in 1 .. MaxPeers, ListChanged(g, n)
      PROVE  KnownFit'
  <2>1. ListEffect(g, n)
    BY <1>14, ListSlot
  <2> QED
    BY <2>1, <1>b, Constants
       DEF KnownFit, Basic, ListEffect, Same
<1>15. CASE AskCreate
  BY <1>15, <1>b, Constants
     DEF KnownFit, Basic, AskCreate, UIFree
<1>16. ASSUME NEW g \in Numbers, RemoveItem(g)
      PROVE  KnownFit'
  <2>1. RemoveEffect(g)
    BY <1>16, RemoveListed
  <2> QED
    BY <2>1, <1>b, Constants
       DEF KnownFit, Basic, RemoveEffect, Same
<1>17. ASSUME NEW v \in Numbers \cup {None}, Select(v)
      PROVE  KnownFit'
  BY <1>17, <1>b, Constants
     DEF KnownFit, Basic, Select, UIFree, Listed
<1>18. ASSUME NEW p \in Peers, DrawPeer(p)
      PROVE  KnownFit'
  BY <1>18, <1>b, Constants
     DEF KnownFit, Basic, DrawPeer, UIFree, Crash
<1>19. CASE GroupFree
  <2>1. FreeEffect
    BY <1>19, FreeSlot
  <2> QED
    BY <2>1, <1>b, Constants
       DEF KnownFit, Basic, FreeEffect, Same
<1>20. CASE GroupAdd
  <2>1. PICK n \in Numbers : ShownEffect(n)
    BY <1>20, AddShown
  <2>2. UNCHANGED <<conf, arrayVars, coreVars, toxcore_msg, uiVars, joins,
                    crashed, histVars>>
    BY <1>20 DEF GroupAdd
  <2> QED
    BY <2>1, <2>2, <1>b, Constants DEF KnownFit, Basic, ShownEffect
<1>21. CASE DrawName
  BY <1>21, <1>b, Constants
     DEF KnownFit, Basic, DrawName, Crash
<1> QED
  BY <1>a, <1>1, <1>2, <1>3, <1>4, <1>5, <1>6, <1>7, <1>8, <1>9, <1>10, <1>11,
     <1>12, <1>13, <1>14, <1>15, <1>16, <1>17, <1>18, <1>19, <1>20, <1>21
     DEF Next, ToxStep, Callback, UIStep, UIGoesOn

\* An array is made for the peers there are, and grows never too late.
LEMMA PeersFitInductive ==
    ASSUME TypeOK, SlotForEach, InArray, Removal, Fresh, PeersFit, Working,
           [Next]_vars
    PROVE  PeersFit'
<1>b. Basic
  BY Basics
<1>a. UNCHANGED vars => PeersFit'
  BY DEF vars, TypeOK, InArray, Removal, Fresh, PeersFit, Working
<1>1. CASE Create
  <2>1. JoinEffect(TRUE)
    BY <1>1, JoinSlot DEF Create
  <2>2. toxcore_msg = AskMsg /\ toxcore_msg' = NoMsg
    BY <1>1 DEF Create, Idle
  <2>3. ASSUME at' = groups_list_size, groups_list_size' = groups_list_size + 1,
               slot'[at'].tox = TRUE, slot'[at'].peer = 0,
               slot'[at'].known = {}, slot'[at'].peer_count = 0
        PROVE  PeersFit'
    BY <2>1, <2>2, <2>3, <1>b, Constants
       DEF InArray, PeersFit, Basic, JoinEffect, Same
  <2>4. ASSUME at' < groups_list_size, UNCHANGED groups_list_size, Same(at')
        PROVE  PeersFit'
    BY <2>1, <2>2, <2>4, <1>b, Constants
       DEF InArray, PeersFit, Basic, JoinEffect, Same
  <2> QED
    BY <2>1, <2>3, <2>4 DEF JoinEffect
<1>2. CASE Invited
  <2>1. JoinEffect(FALSE)
    BY <1>2, JoinSlot DEF Invited
  <2>2. UNCHANGED toxcore_msg
    BY <1>2 DEF Invited, Idle
  <2>3. ASSUME at' = groups_list_size, groups_list_size' = groups_list_size + 1,
               slot'[at'].tox = TRUE, slot'[at'].peer = 0,
               slot'[at'].known = {}, slot'[at'].peer_count = 0
        PROVE  PeersFit'
    BY <2>1, <2>2, <2>3, <1>b, Constants
       DEF InArray, PeersFit, Basic, JoinEffect, Same
  <2>4. ASSUME at' < groups_list_size, UNCHANGED groups_list_size, Same(at')
        PROVE  PeersFit'
    BY <2>1, <2>2, <2>4, <1>b, Constants
       DEF InArray, PeersFit, Basic, JoinEffect, Same
  <2> QED
    BY <2>1, <2>3, <2>4 DEF JoinEffect
<1>3. CASE GroupInit
  <2>1. CASE slot[at].tox
    <3>1. InitEffect /\ SentEffect(at)
      BY <1>3, <2>1, InitSlot, InitSent
    <3> QED
      BY <3>1, <1>b, Constants
         DEF Fresh, PeersFit, Basic, InitEffect, SentEffect, IsOrWas, Same
  <2>2. CASE ~slot[at].tox
    BY <1>3, <2>2, <1>b DEF Fresh, PeersFit, GroupInit, At, Crash
  <2> QED
    BY <2>1, <2>2
<1>4. CASE PeerAdd
  <2>1. AddEffect
    BY <1>4, AddSlot
  <2> QED
    BY <2>1, <1>b, Constants
       DEF PeersFit, Basic, AddEffect, Same
<1>5. CASE Part
  <2>1. PartEffect(toxcore_msg)
    BY <1>5, PartConference
  <2> QED
    BY <2>1, <1>b, Constants
       DEF PeersFit, Basic, PartEffect, Same
<1>6. CASE ChangeName
  BY <1>6, <1>b, Constants
     DEF PeersFit, Basic, ChangeName, At, GoTo, Crash
<1>7. CASE ConferenceId
  BY <1>7, <1>b, Constants
     DEF PeersFit, Basic, ConferenceId, At, GoTo, Crash
<1>8. CASE LookUp
  BY <1>8, <1>b, Constants
     DEF PeersFit, Basic, LookUp, At, GoTo, Crash
<1>9. CASE CopyPeer
  BY <1>9, <1>b, Constants
     DEF PeersFit, Basic, CopyPeer, At, GoTo, Crash
<1>10. CASE Fill
  <2>1. FillEffect
    BY <1>10, FillSlot
  <2> QED
    BY <2>1, <1>b, Constants
       DEF PeersFit, Working, Basic, FillEffect, Same
<1>11. CASE CountPeers
  <2>1. CountEffect
    BY <1>11, CountSlot
  <2> QED
    BY <2>1, <1>b, Constants
       DEF PeersFit, Basic, CountEffect, Same
<1>12. ASSUME NEW g \in Numbers, NEW n \in Peers, Message(g, n)
      PROVE  PeersFit'
  BY <1>12, <1>b, Constants
     DEF PeersFit, Basic, Message, Start, Idle
<1>13. ASSUME NEW g \in Numbers, NEW n \in Peers, NameChange(g, n)
      PROVE  PeersFit'
  BY <1>13, <1>b, Constants
     DEF PeersFit, Basic, NameChange, Start, Idle
<1>14. ASSUME NEW g \in Numbers, NEW n \in 1 .. MaxPeers, ListChanged(g, n)
      PROVE  PeersFit'
  <2>1. ListEffect(g, n)
    BY <1>14, ListSlot
  <2> QED
    BY <2>1, <1>b, Constants
       DEF PeersFit, Basic, ListEffect, Same
<1>15. CASE AskCreate
  BY <1>15, <1>b, Constants
     DEF PeersFit, Basic, AskCreate, UIFree
<1>16. ASSUME NEW g \in Numbers, RemoveItem(g)
      PROVE  PeersFit'
  <2>1. RemoveEffect(g)
    BY <1>16, RemoveListed
  <2> QED
    BY <2>1, <1>b, Constants
       DEF PeersFit, Basic, RemoveEffect, Same
<1>17. ASSUME NEW v \in Numbers \cup {None}, Select(v)
      PROVE  PeersFit'
  BY <1>17, <1>b, Constants
     DEF PeersFit, Basic, Select, UIFree, Listed
<1>18. ASSUME NEW p \in Peers, DrawPeer(p)
      PROVE  PeersFit'
  BY <1>18, <1>b, Constants
     DEF PeersFit, Basic, DrawPeer, UIFree, Crash
<1>19. CASE GroupFree
  <2>1. FreeEffect
    BY <1>19, FreeSlot
  <2> QED
    BY <2>1, <1>b, Constants
       DEF PeersFit, Basic, FreeEffect, Same
<1>20. CASE GroupAdd
  <2>1. PICK n \in Numbers : ShownEffect(n)
    BY <1>20, AddShown
  <2>2. UNCHANGED <<conf, arrayVars, coreVars, toxcore_msg, uiVars, joins,
                    crashed, histVars>>
    BY <1>20 DEF GroupAdd
  <2> QED
    BY <2>1, <2>2, <1>b, Constants DEF PeersFit, Basic, ShownEffect
<1>21. CASE DrawName
  BY <1>21, <1>b, Constants
     DEF PeersFit, Basic, DrawName, Crash
<1> QED
  BY <1>a, <1>1, <1>2, <1>3, <1>4, <1>5, <1>6, <1>7, <1>8, <1>9, <1>10, <1>11,
     <1>12, <1>13, <1>14, <1>15, <1>16, <1>17, <1>18, <1>19, <1>20, <1>21
     DEF Next, ToxStep, Callback, UIStep, UIGoesOn

\* What a function relies on for its next step stays true up to it.
LEMMA WorkingInductive ==
    ASSUME GroupsInv, [Next]_vars PROVE Working'
<1> USE DEF GroupsInv
<1>b. Basic
  BY Basics
<1>a. UNCHANGED vars => Working'
  BY DEF vars, GroupsInv, TypeOK, InArray, Fresh, KnownFit, PeersFit, Working
<1>1. CASE Create
  <2>1. JoinEffect(TRUE)
    BY <1>1, JoinSlot DEF Create
  <2>2. toxcore_msg = AskMsg /\ toxcore_msg' = NoMsg
    BY <1>1 DEF Create, Idle
  <2>3. ASSUME at' = groups_list_size, groups_list_size' = groups_list_size + 1,
               slot'[at'].tox = TRUE, slot'[at'].peer = 0,
               slot'[at'].known = {}, slot'[at'].peer_count = 0
        PROVE  Working'
    BY <2>1, <2>2, <2>3, <1>b, Constants
       DEF Working, Basic, JoinEffect, Same
  <2>4. ASSUME at' < groups_list_size, UNCHANGED groups_list_size, Same(at')
        PROVE  Working'
    BY <2>1, <2>2, <2>4, <1>b, Constants
       DEF Working, Basic, JoinEffect, Same
  <2> QED
    BY <2>1, <2>3, <2>4 DEF JoinEffect
<1>2. CASE Invited
  <2>1. JoinEffect(FALSE)
    BY <1>2, JoinSlot DEF Invited
  <2>2. UNCHANGED toxcore_msg
    BY <1>2 DEF Invited, Idle
  <2>3. ASSUME at' = groups_list_size, groups_list_size' = groups_list_size + 1,
               slot'[at'].tox = TRUE, slot'[at'].peer = 0,
               slot'[at'].known = {}, slot'[at'].peer_count = 0
        PROVE  Working'
    BY <2>1, <2>2, <2>3, <1>b, Constants
       DEF Working, Basic, JoinEffect, Same
  <2>4. ASSUME at' < groups_list_size, UNCHANGED groups_list_size, Same(at')
        PROVE  Working'
    BY <2>1, <2>2, <2>4, <1>b, Constants
       DEF Working, Basic, JoinEffect, Same
  <2> QED
    BY <2>1, <2>3, <2>4 DEF JoinEffect
<1>3. CASE GroupInit
  <2>1. CASE slot[at].tox
    <3>1. InitEffect /\ SentEffect(at)
      BY <1>3, <2>1, InitSlot, InitSent
    <3> QED
      BY <3>1, <1>b, Constants
         DEF InArray, Fresh, KnownFit, PeersFit, Working, Basic, InitEffect,
             SentEffect, IsOrWas, Same
  <2>2. CASE ~slot[at].tox
    BY <1>3, <2>2, <1>b
       DEF GroupsInv, TypeOK, InArray, Fresh, KnownFit, PeersFit, Working,
           GroupInit, At, Crash
  <2> QED
    BY <2>1, <2>2
<1>4. CASE PeerAdd
  <2>1. AddEffect
    BY <1>4, AddSlot
  <2> QED
    BY <2>1, <1>b, Constants
       DEF InArray, Fresh, KnownFit, PeersFit, Working, Basic, AddEffect, Same
<1>5. CASE Part
  <2>1. PartEffect(toxcore_msg)
    BY <1>5, PartConference
  <2> QED
    BY <2>1, <1>b, Constants
       DEF InArray, Fresh, KnownFit, PeersFit, Working, Basic, PartEffect, Same
<1>6. CASE ChangeName
  BY <1>6, <1>b, Constants
     DEF InArray, Fresh, KnownFit, PeersFit, Working, Basic, ChangeName, At,
         GoTo, Crash
<1>7. CASE ConferenceId
  BY <1>7, <1>b, Constants
     DEF InArray, Fresh, KnownFit, PeersFit, Working, Basic, ConferenceId, At,
         GoTo, Crash
<1>8. CASE LookUp
  BY <1>8, <1>b, Constants
     DEF InArray, Fresh, KnownFit, PeersFit, Working, Basic, LookUp, At, GoTo,
         Crash
<1>9. CASE CopyPeer
  BY <1>9, <1>b, Constants
     DEF InArray, Fresh, KnownFit, PeersFit, Working, Basic, CopyPeer, At,
         GoTo, Crash
<1>10. CASE Fill
  <2>1. FillEffect
    BY <1>10, FillSlot
  <2> QED
    BY <2>1, <1>b, Constants
       DEF InArray, Fresh, KnownFit, PeersFit, Working, Basic, FillEffect, Same
<1>11. CASE CountPeers
  <2>1. CountEffect
    BY <1>11, CountSlot
  <2> QED
    BY <2>1, <1>b, Constants
       DEF InArray, Fresh, KnownFit, PeersFit, Working, Basic, CountEffect, Same
<1>12. ASSUME NEW g \in Numbers, NEW n \in Peers, Message(g, n)
      PROVE  Working'
  <2>1. /\ n < conf[g] /\ pc = "idle" /\ pc' = "look" /\ at' = g /\ who' = n
        /\ UNCHANGED <<slot, conf, freed>>
    BY <1>12 DEF Message, Start, Idle
  <2>2. g < groups_list_size
    BY <1>12, <2>1, <1>b, Constants DEF SlotForEach, Basic
  <2> QED
    BY <1>12, <2>1, <2>2, <1>b, Constants DEF PeersFit, Working, Basic
<1>13. ASSUME NEW g \in Numbers, NEW n \in Peers, NameChange(g, n)
      PROVE  Working'
  BY <1>13, <1>b, Constants
     DEF InArray, Fresh, KnownFit, PeersFit, Working, Basic, NameChange, Start,
         Idle
<1>14. ASSUME NEW g \in Numbers, NEW n \in 1 .. MaxPeers, ListChanged(g, n)
      PROVE  Working'
  <2>1. ListEffect(g, n)
    BY <1>14, ListSlot
  <2> QED
    BY <2>1, <1>b, Constants
       DEF InArray, Fresh, KnownFit, PeersFit, Working, Basic, ListEffect, Same
<1>15. CASE AskCreate
  BY <1>15, <1>b, Constants
     DEF InArray, Fresh, KnownFit, PeersFit, Working, Basic, AskCreate, UIFree
<1>16. ASSUME NEW g \in Numbers, RemoveItem(g)
      PROVE  Working'
  <2>1. RemoveEffect(g)
    BY <1>16, RemoveListed
  <2> QED
    BY <2>1, <1>b, Constants
       DEF InArray, Fresh, KnownFit, PeersFit, Working, Basic, RemoveEffect,
           Same
<1>17. ASSUME NEW v \in Numbers \cup {None}, Select(v)
      PROVE  Working'
  BY <1>17, <1>b, Constants
     DEF InArray, Fresh, KnownFit, PeersFit, Working, Basic, Select, UIFree,
         Listed
<1>18. ASSUME NEW p \in Peers, DrawPeer(p)
      PROVE  Working'
  BY <1>18, <1>b, Constants
     DEF InArray, Fresh, KnownFit, PeersFit, Working, Basic, DrawPeer, UIFree,
         Crash
<1>19. CASE GroupFree
  <2>1. FreeEffect
    BY <1>19, FreeSlot
  <2> QED
    BY <2>1, <1>b, Constants
       DEF InArray, Fresh, KnownFit, PeersFit, Working, Basic, FreeEffect, Same
<1>20. CASE GroupAdd
  <2>1. PICK n \in Numbers : ShownEffect(n)
    BY <1>20, AddShown
  <2>2. UNCHANGED <<conf, arrayVars, coreVars, toxcore_msg, uiVars, joins,
                    crashed, histVars>>
    BY <1>20 DEF GroupAdd
  <2> QED
    BY <2>1, <2>2, <1>b, Constants
       DEF InArray, Fresh, KnownFit, PeersFit, Working, Basic, ShownEffect
<1>21. CASE DrawName
  BY <1>21, <1>b, Constants
     DEF InArray, Fresh, KnownFit, PeersFit, Working, Basic, DrawName, Crash
<1> QED
  BY <1>a, <1>1, <1>2, <1>3, <1>4, <1>5, <1>6, <1>7, <1>8, <1>9, <1>10, <1>11,
     <1>12, <1>13, <1>14, <1>15, <1>16, <1>17, <1>18, <1>19, <1>20, <1>21
     DEF Next, ToxStep, Callback, UIStep, UIGoesOn

\* A new conference has a slot without peers, or one without a Tox, unless its
\* number is being removed.
LEMMA JoinAgrees ==
    ASSUME GroupsInv, Agreeing, NEW own \in BOOLEAN, JoinEffect(own)
    PROVE  Agreeing'
<1>b. Basic
  BY Basics DEF GroupsInv
<1>1. SUFFICES ASSUME ~overtaken', NEW g \in Numbers, conf'[g] > 0,
                      slot'[g].tox, slot'[g].known # {}
               PROVE  /\ slot'[g].known = 0 .. conf'[g] - 1
                      /\ slot'[g].peer_count = conf'[g]
  BY DEF Agreeing
<1>2. CASE g = at'
  <2>1. /\ at' < groups_list_size /\ slot'[g] = slot[g] /\ conf[g] = 0
        /\ ~(ui = "free" /\ uiAt = g)
    BY <1>1, <1>2 DEF JoinEffect, Same
  <2>2. g \notin freed
    BY <1>1, <2>1 DEF GroupsInv, ToxKept
  <2> QED
    BY <1>2, <2>1, <2>2 DEF GroupsInv, Removal
<1>3. CASE g # at'
  <2>1. /\ slot'[g] = slot[g] /\ conf'[g] = conf[g] /\ pc = "idle"
        /\ ~overtaken
    BY <1>1, <1>3 DEF JoinEffect, Same
  <2> QED
    BY <1>1, <2>1 DEF Agreeing
<1> QED
  BY <1>2, <1>3

\* The peers of a slot come from its conference, whichever way they do.
LEMMA AgreeingInductive ==
    ASSUME GroupsInv, Agreeing, [Next]_vars PROVE Agreeing'
<1> USE DEF GroupsInv
<1>b. Basic
  BY Basics
<1>a. UNCHANGED vars => Agreeing'
  BY DEF vars, InArray, ToxKept, Removal, Fresh, Working, Agreeing
<1>1. CASE Create
  <2>1. JoinEffect(TRUE)
    BY <1>1, JoinSlot DEF Create
  <2> QED
    BY <2>1, JoinAgrees
<1>2. CASE Invited
  <2>1. JoinEffect(FALSE)
    BY <1>2, JoinSlot DEF Invited
  <2> QED
    BY <2>1, JoinAgrees
<1>3. CASE GroupInit
  <2>1. CASE slot[at].tox
    <3>1. InitEffect /\ SentEffect(at)
      BY <1>3, <2>1, InitSlot, InitSent
    <3> QED
      BY <3>1, <1>b, Constants
         DEF Agreeing, Basic, InitEffect, SentEffect, IsOrWas, Same
  <2>2. CASE ~slot[at].tox
    BY <1>3, <2>2, <1>b DEF Agreeing, GroupInit, At, Crash
  <2> QED
    BY <2>1, <2>2
<1>4. CASE PeerAdd
  <2>1. AddEffect
    BY <1>4, AddSlot
  <2>3. slot[at].tox => (slot[at].known = {} /\ slot[at].peer_count = 0)
    BY <2>1, <1>b DEF AddEffect, Fresh, ToxKept, Basic
  <2>4. 0 .. conf[at] - 1 = {0} /\ conf[at] = 1
    BY <2>1, Constants DEF AddEffect, Fresh
  <2>5. slot[at].tox => /\ slot'[at].known = 0 .. conf'[at] - 1
                        /\ slot'[at].peer_count = conf'[at]
    BY <2>1, <2>3, <2>4, <1>b DEF AddEffect, Basic
  <2>6. /\ pc' # "count" /\ UNCHANGED <<conf, at, overtaken>>
        /\ slot'[at].tox = slot[at].tox
        /\ \A h \in Numbers : h # at => slot'[h] = slot[h]
    BY <2>1 DEF AddEffect, Same
  <2> QED
    BY <2>5, <2>6, <1>b DEF Agreeing, Basic
<1>5. CASE Part
  <2>1. PartEffect(toxcore_msg)
    BY <1>5, PartConference
  <2>2. /\ conf'[toxcore_msg] = 0 /\ UNCHANGED <<slot, pc, at, overtaken>>
        /\ \A h \in Numbers : h # toxcore_msg => conf'[h] = conf[h]
    BY <2>1 DEF PartEffect
  <2> QED
    BY <2>2 DEF Agreeing
<1>6. CASE ChangeName
  BY <1>6, <1>b, Constants
     DEF Agreeing, Basic, ChangeName, At, GoTo, Crash
<1>7. CASE ConferenceId
  BY <1>7, <1>b, Constants
     DEF Agreeing, Basic, ConferenceId, At, GoTo, Crash
<1>8. CASE LookUp
  BY <1>8, <1>b, Constants
     DEF Agreeing, Basic, LookUp, At, GoTo, Crash
<1>9. CASE CopyPeer
  BY <1>9, <1>b, Constants
     DEF Agreeing, Basic, CopyPeer, At, GoTo, Crash
<1>10. CASE Fill
  <2>1. FillEffect
    BY <1>10, FillSlot
  <2> QED
    BY <2>1, <1>b, Constants
       DEF Agreeing, Working, Basic, FillEffect, Same
<1>11. CASE CountPeers
  <2>1. CountEffect
    BY <1>11, CountSlot
  <2> QED
    BY <2>1, <1>b, Constants
       DEF ToxKept, Working, Agreeing, Basic, CountEffect, Same
<1>12. ASSUME NEW g \in Numbers, NEW n \in Peers, Message(g, n)
      PROVE  Agreeing'
  BY <1>12, <1>b, Constants
     DEF Agreeing, Basic, Message, Start, Idle
<1>13. ASSUME NEW g \in Numbers, NEW n \in Peers, NameChange(g, n)
      PROVE  Agreeing'
  BY <1>13, <1>b, Constants
     DEF Agreeing, Basic, NameChange, Start, Idle
<1>14. ASSUME NEW g \in Numbers, NEW n \in 1 .. MaxPeers, ListChanged(g, n)
      PROVE  Agreeing'
  <2>1. ListEffect(g, n)
    BY <1>14, ListSlot
  <2>3. slot'[g].known = {} /\ \A h \in Numbers : h # g =>
            (slot'[h] = slot[h] /\ conf'[h] = conf[h])
    BY <2>1 DEF ListEffect, Same
  <2>4. pc # "count" /\ pc' # "count" /\ UNCHANGED overtaken
    BY <2>1 DEF ListEffect
  <2> QED
    BY <2>3, <2>4 DEF Agreeing
<1>15. CASE AskCreate
  BY <1>15, <1>b, Constants
     DEF Agreeing, Basic, AskCreate, UIFree
<1>16. ASSUME NEW g \in Numbers, RemoveItem(g)
      PROVE  Agreeing'
  <2>1. RemoveEffect(g)
    BY <1>16, RemoveListed
  <2> QED
    BY <2>1, <1>b, Constants
       DEF Agreeing, Basic, RemoveEffect, Same
<1>17. ASSUME NEW v \in Numbers \cup {None}, Select(v)
      PROVE  Agreeing'
  BY <1>17, <1>b, Constants
     DEF Agreeing, Basic, Select, UIFree, Listed
<1>18. ASSUME NEW p \in Peers, DrawPeer(p)
      PROVE  Agreeing'
  <2>1. UNCHANGED <<conf, slot, pc, at, overtaken>>
    BY <1>18 DEF DrawPeer, Crash
  <2> QED
    BY <2>1 DEF Agreeing
<1>19. CASE GroupFree
  <2>1. FreeEffect
    BY <1>19, FreeSlot
  <2> QED
    BY <2>1, <1>b, Constants
       DEF Agreeing, Basic, FreeEffect, Same
<1>20. CASE GroupAdd
  <2>1. PICK n \in Numbers : ShownEffect(n)
    BY <1>20, AddShown
  <2>2. UNCHANGED <<conf, arrayVars, coreVars, toxcore_msg, uiVars, joins,
                    crashed, histVars>>
    BY <1>20 DEF GroupAdd
  <2> QED
    BY <2>1, <2>2, <1>b, Constants DEF Agreeing, Basic, ShownEffect
<1>21. CASE DrawName
  BY <1>21, <1>b, Constants
     DEF Agreeing, Basic, DrawName, Crash
<1> QED
  BY <1>a, <1>1, <1>2, <1>3, <1>4, <1>5, <1>6, <1>7, <1>8, <1>9, <1>10, <1>11,
     <1>12, <1>13, <1>14, <1>15, <1>16, <1>17, <1>18, <1>19, <1>20, <1>21
     DEF Next, ToxStep, Callback, UIStep, UIGoesOn

\* A fault that is to come is in a slot that was freed.
LEMMA FaultsInductive ==
    ASSUME GroupsInv, FaultsOnlyWhereFreed, [Next]_vars
    PROVE  FaultsOnlyWhereFreed'
<1> USE DEF GroupsInv
<1>b. Basic
  BY Basics
<1>a. UNCHANGED vars => FaultsOnlyWhereFreed'
  BY DEF vars, InArray, ToxKept, Working, FaultsOnlyWhereFreed
<1>1. CASE Create
  <2>1. JoinEffect(TRUE)
    BY <1>1, JoinSlot DEF Create
  <2>2. toxcore_msg = AskMsg /\ toxcore_msg' = NoMsg
    BY <1>1 DEF Create, Idle
  <2> QED
    BY <2>1, <2>2, <1>b, Constants
       DEF FaultsOnlyWhereFreed, Basic, JoinEffect, Same
<1>2. CASE Invited
  <2>1. JoinEffect(FALSE)
    BY <1>2, JoinSlot DEF Invited
  <2>2. UNCHANGED toxcore_msg
    BY <1>2 DEF Invited, Idle
  <2> QED
    BY <2>1, <2>2, <1>b, Constants
       DEF FaultsOnlyWhereFreed, Basic, JoinEffect, Same
<1>3. CASE GroupInit
  <2>1. CASE slot[at].tox
    <3>1. InitEffect /\ SentEffect(at)
      BY <1>3, <2>1, InitSlot, InitSent
    <3> QED
      BY <3>1, <1>b, Constants
         DEF Basic, InArray, ToxKept, FaultsOnlyWhereFreed, Basic, InitEffect,
             SentEffect, IsOrWas, Same
  <2>2. CASE ~slot[at].tox
    BY <1>3, <2>2, <1>b
       DEF Basic, InArray, ToxKept, FaultsOnlyWhereFreed, GroupInit, At, Crash
  <2> QED
    BY <2>1, <2>2
<1>4. CASE PeerAdd
  <2>1. AddEffect
    BY <1>4, AddSlot
  <2> QED
    BY <2>1, <1>b, Constants
       DEF FaultsOnlyWhereFreed, Basic, AddEffect, Same
<1>5. CASE Part
  <2>1. PartEffect(toxcore_msg)
    BY <1>5, PartConference
  <2> QED
    BY <2>1, <1>b, Constants
       DEF FaultsOnlyWhereFreed, Basic, PartEffect, Same
<1>6. CASE ChangeName
  BY <1>6, <1>b, Constants
     DEF Working, FaultsOnlyWhereFreed, Basic, ChangeName, At, GoTo, Crash
<1>7. CASE ConferenceId
  BY <1>7, <1>b, Constants
     DEF InArray, ToxKept, FaultsOnlyWhereFreed, Basic, ConferenceId, At, GoTo,
         Crash
<1>8. CASE LookUp
  BY <1>8, <1>b, Constants
     DEF Working, FaultsOnlyWhereFreed, Basic, LookUp, At, GoTo, Crash
<1>9. CASE CopyPeer
  BY <1>9, <1>b, Constants
     DEF InArray, ToxKept, FaultsOnlyWhereFreed, Basic, CopyPeer, At, GoTo,
         Crash
<1>10. CASE Fill
  <2>1. FillEffect
    BY <1>10, FillSlot
  <2> QED
    BY <2>1, <1>b, Constants
       DEF FaultsOnlyWhereFreed, Basic, FillEffect, Same
<1>11. CASE CountPeers
  <2>1. CountEffect
    BY <1>11, CountSlot
  <2> QED
    BY <2>1, <1>b, Constants
       DEF FaultsOnlyWhereFreed, Basic, CountEffect, Same
<1>12. ASSUME NEW g \in Numbers, NEW n \in Peers, Message(g, n)
      PROVE  FaultsOnlyWhereFreed'
  BY <1>12, <1>b, Constants
     DEF FaultsOnlyWhereFreed, Basic, Message, Start, Idle
<1>13. ASSUME NEW g \in Numbers, NEW n \in Peers, NameChange(g, n)
      PROVE  FaultsOnlyWhereFreed'
  BY <1>13, <1>b, Constants
     DEF FaultsOnlyWhereFreed, Basic, NameChange, Start, Idle
<1>14. ASSUME NEW g \in Numbers, NEW n \in 1 .. MaxPeers, ListChanged(g, n)
      PROVE  FaultsOnlyWhereFreed'
  <2>1. ListEffect(g, n)
    BY <1>14, ListSlot
  <2> QED
    BY <2>1, <1>b, Constants
       DEF FaultsOnlyWhereFreed, Basic, ListEffect, Same
<1>15. CASE AskCreate
  BY <1>15, <1>b, Constants
     DEF FaultsOnlyWhereFreed, Basic, AskCreate, UIFree
<1>16. ASSUME NEW g \in Numbers, RemoveItem(g)
      PROVE  FaultsOnlyWhereFreed'
  <2>1. RemoveEffect(g)
    BY <1>16, RemoveListed
  <2> QED
    BY <2>1, <1>b, Constants
       DEF FaultsOnlyWhereFreed, Basic, RemoveEffect, Same
<1>17. ASSUME NEW v \in Numbers \cup {None}, Select(v)
      PROVE  FaultsOnlyWhereFreed'
  BY <1>17, <1>b, Constants
     DEF FaultsOnlyWhereFreed, Basic, Select, UIFree, Listed
<1>18. ASSUME NEW p \in Peers, DrawPeer(p)
      PROVE  FaultsOnlyWhereFreed'
  BY <1>18, <1>b, Constants
     DEF FaultsOnlyWhereFreed, Basic, DrawPeer, UIFree, Crash
<1>19. CASE GroupFree
  <2>1. FreeEffect
    BY <1>19, FreeSlot
  <2> QED
    BY <2>1, <1>b, Constants
       DEF FaultsOnlyWhereFreed, Basic, FreeEffect, Same
<1>20. CASE GroupAdd
  <2>1. PICK n \in Numbers : ShownEffect(n)
    BY <1>20, AddShown
  <2>2. UNCHANGED <<conf, arrayVars, coreVars, toxcore_msg, uiVars, joins,
                    crashed, histVars>>
    BY <1>20 DEF GroupAdd
  <2> QED
    BY <2>1, <2>2, <1>b, Constants DEF FaultsOnlyWhereFreed, Basic, ShownEffect
<1>21. CASE DrawName
  BY <1>21, <1>b, Constants
     DEF FaultsOnlyWhereFreed, Basic, DrawName, Crash
<1> QED
  BY <1>a, <1>1, <1>2, <1>3, <1>4, <1>5, <1>6, <1>7, <1>8, <1>9, <1>10, <1>11,
     <1>12, <1>13, <1>14, <1>15, <1>16, <1>17, <1>18, <1>19, <1>20, <1>21
     DEF Next, ToxStep, Callback, UIStep, UIGoesOn

\* The count of a slot's peers does not outgrow their array.
LEMMA CountFitsInductive ==
    ASSUME GroupsInv, CountFitsArray, [Next]_vars PROVE CountFitsArray'
<1> USE DEF GroupsInv
<1>b. Basic
  BY Basics
<1>a. UNCHANGED vars => CountFitsArray'
  BY DEF vars, Fresh, Working, CountFitsArray
<1>1. CASE Create
  <2>1. JoinEffect(TRUE)
    BY <1>1, JoinSlot DEF Create
  <2>2. toxcore_msg = AskMsg /\ toxcore_msg' = NoMsg
    BY <1>1 DEF Create, Idle
  <2>3. ASSUME at' = groups_list_size, groups_list_size' = groups_list_size + 1,
               slot'[at'].tox = TRUE, slot'[at'].peer = 0,
               slot'[at'].known = {}, slot'[at'].peer_count = 0
        PROVE  CountFitsArray'
    BY <2>1, <2>2, <2>3, <1>b, Constants
       DEF CountFitsArray, Basic, JoinEffect, Same
  <2>4. ASSUME at' < groups_list_size, UNCHANGED groups_list_size, Same(at')
        PROVE  CountFitsArray'
    BY <2>1, <2>2, <2>4, <1>b, Constants
       DEF CountFitsArray, Basic, JoinEffect, Same
  <2> QED
    BY <2>1, <2>3, <2>4 DEF JoinEffect
<1>2. CASE Invited
  <2>1. JoinEffect(FALSE)
    BY <1>2, JoinSlot DEF Invited
  <2>2. UNCHANGED toxcore_msg
    BY <1>2 DEF Invited, Idle
  <2>3. ASSUME at' = groups_list_size, groups_list_size' = groups_list_size + 1,
               slot'[at'].tox = TRUE, slot'[at'].peer = 0,
               slot'[at'].known = {}, slot'[at'].peer_count = 0
        PROVE  CountFitsArray'
    BY <2>1, <2>2, <2>3, <1>b, Constants
       DEF CountFitsArray, Basic, JoinEffect, Same
  <2>4. ASSUME at' < groups_list_size, UNCHANGED groups_list_size, Same(at')
        PROVE  CountFitsArray'
    BY <2>1, <2>2, <2>4, <1>b, Constants
       DEF CountFitsArray, Basic, JoinEffect, Same
  <2> QED
    BY <2>1, <2>3, <2>4 DEF JoinEffect
<1>3. CASE GroupInit
  <2>1. CASE slot[at].tox
    <3>1. InitEffect /\ SentEffect(at)
      BY <1>3, <2>1, InitSlot, InitSent
    <3> QED
      BY <3>1, <1>b, Constants
         DEF CountFitsArray, Basic, InitEffect, SentEffect, IsOrWas, Same
  <2>2. CASE ~slot[at].tox
    BY <1>3, <2>2, <1>b DEF CountFitsArray, GroupInit, At, Crash
  <2> QED
    BY <2>1, <2>2
<1>4. CASE PeerAdd
  <2>1. AddEffect
    BY <1>4, AddSlot
  <2> QED
    BY <2>1, <1>b, Constants
       DEF Fresh, CountFitsArray, Basic, AddEffect, Same
<1>5. CASE Part
  <2>1. PartEffect(toxcore_msg)
    BY <1>5, PartConference
  <2> QED
    BY <2>1, <1>b, Constants
       DEF CountFitsArray, Basic, PartEffect, Same
<1>6. CASE ChangeName
  BY <1>6, <1>b, Constants
     DEF CountFitsArray, Basic, ChangeName, At, GoTo, Crash
<1>7. CASE ConferenceId
  BY <1>7, <1>b, Constants
     DEF CountFitsArray, Basic, ConferenceId, At, GoTo, Crash
<1>8. CASE LookUp
  BY <1>8, <1>b, Constants
     DEF CountFitsArray, Basic, LookUp, At, GoTo, Crash
<1>9. CASE CopyPeer
  BY <1>9, <1>b, Constants
     DEF CountFitsArray, Basic, CopyPeer, At, GoTo, Crash
<1>10. CASE Fill
  <2>1. FillEffect
    BY <1>10, FillSlot
  <2> QED
    BY <2>1, <1>b, Constants
       DEF CountFitsArray, Basic, FillEffect, Same
<1>11. CASE CountPeers
  <2>1. CountEffect
    BY <1>11, CountSlot
  <2> QED
    BY <2>1, <1>b, Constants
       DEF Working, CountFitsArray, Basic, CountEffect, Same
<1>12. ASSUME NEW g \in Numbers, NEW n \in Peers, Message(g, n)
      PROVE  CountFitsArray'
  BY <1>12, <1>b, Constants
     DEF CountFitsArray, Basic, Message, Start, Idle
<1>13. ASSUME NEW g \in Numbers, NEW n \in Peers, NameChange(g, n)
      PROVE  CountFitsArray'
  BY <1>13, <1>b, Constants
     DEF CountFitsArray, Basic, NameChange, Start, Idle
<1>14. ASSUME NEW g \in Numbers, NEW n \in 1 .. MaxPeers, ListChanged(g, n)
      PROVE  CountFitsArray'
  <2>1. ListEffect(g, n)
    BY <1>14, ListSlot
  <2> QED
    BY <2>1, <1>b, Constants
       DEF CountFitsArray, Basic, ListEffect, Same
<1>15. CASE AskCreate
  BY <1>15, <1>b, Constants
     DEF CountFitsArray, Basic, AskCreate, UIFree
<1>16. ASSUME NEW g \in Numbers, RemoveItem(g)
      PROVE  CountFitsArray'
  <2>1. RemoveEffect(g)
    BY <1>16, RemoveListed
  <2> QED
    BY <2>1, <1>b, Constants
       DEF CountFitsArray, Basic, RemoveEffect, Same
<1>17. ASSUME NEW v \in Numbers \cup {None}, Select(v)
      PROVE  CountFitsArray'
  BY <1>17, <1>b, Constants
     DEF CountFitsArray, Basic, Select, UIFree, Listed
<1>18. ASSUME NEW p \in Peers, DrawPeer(p)
      PROVE  CountFitsArray'
  BY <1>18, <1>b, Constants
     DEF CountFitsArray, Basic, DrawPeer, UIFree, Crash
<1>19. CASE GroupFree
  <2>1. FreeEffect
    BY <1>19, FreeSlot
  <2> QED
    BY <2>1, <1>b, Constants
       DEF CountFitsArray, Basic, FreeEffect, Same
<1>20. CASE GroupAdd
  <2>1. PICK n \in Numbers : ShownEffect(n)
    BY <1>20, AddShown
  <2>2. UNCHANGED <<conf, arrayVars, coreVars, toxcore_msg, uiVars, joins,
                    crashed, histVars>>
    BY <1>20 DEF GroupAdd
  <2> QED
    BY <2>1, <2>2, <1>b, Constants DEF CountFitsArray, Basic, ShownEffect
<1>21. CASE DrawName
  BY <1>21, <1>b, Constants
     DEF CountFitsArray, Basic, DrawName, Crash
<1> QED
  BY <1>a, <1>1, <1>2, <1>3, <1>4, <1>5, <1>6, <1>7, <1>8, <1>9, <1>10, <1>11,
     <1>12, <1>13, <1>14, <1>15, <1>16, <1>17, <1>18, <1>19, <1>20, <1>21
     DEF Next, ToxStep, Callback, UIStep, UIGoesOn

\* What moves the array also brings the message that shows the new group.
LEMMA StaleInductive ==
    ASSUME TypeOK, SlotForEach, StaleOnlyUntilAdd, [Next]_vars
    PROVE  StaleOnlyUntilAdd'
<1>b. Basic
  BY Basics
<1>a. UNCHANGED vars => StaleOnlyUntilAdd'
  BY DEF vars, StaleOnlyUntilAdd
<1>1. CASE Create
  <2>1. JoinEffect(TRUE)
    BY <1>1, JoinSlot DEF Create
  <2>2. toxcore_msg = AskMsg /\ toxcore_msg' = NoMsg
    BY <1>1 DEF Create, Idle
  <2> QED
    BY <2>1, <2>2, <1>b, Constants
       DEF StaleOnlyUntilAdd, Basic, JoinEffect, Same
<1>2. CASE Invited
  <2>1. JoinEffect(FALSE)
    BY <1>2, JoinSlot DEF Invited
  <2>2. UNCHANGED toxcore_msg
    BY <1>2 DEF Invited, Idle
  <2> QED
    BY <2>1, <2>2, <1>b, Constants
       DEF StaleOnlyUntilAdd, Basic, JoinEffect, Same
<1>3. CASE GroupInit
  <2>1. CASE slot[at].tox
    <3>1. InitEffect /\ SentEffect(at)
      BY <1>3, <2>1, InitSlot, InitSent
    <3>3. utox_msgs' # <<>>
      BY <1>3, <2>1 DEF GroupInit, TypeOK
    <3> QED
      BY <3>3 DEF StaleOnlyUntilAdd
  <2>2. CASE ~slot[at].tox
    BY <1>3, <2>2, <1>b DEF StaleOnlyUntilAdd, GroupInit, At, Crash
  <2> QED
    BY <2>1, <2>2
<1>4. CASE PeerAdd
  <2>1. AddEffect
    BY <1>4, AddSlot
  <2> QED
    BY <2>1, <1>b, Constants
       DEF StaleOnlyUntilAdd, Basic, AddEffect, Same
<1>5. CASE Part
  <2>1. PartEffect(toxcore_msg)
    BY <1>5, PartConference
  <2> QED
    BY <2>1, <1>b, Constants
       DEF StaleOnlyUntilAdd, Basic, PartEffect, Same
<1>6. CASE ChangeName
  BY <1>6, <1>b, Constants
     DEF StaleOnlyUntilAdd, Basic, ChangeName, At, GoTo, Crash
<1>7. CASE ConferenceId
  BY <1>7, <1>b, Constants
     DEF StaleOnlyUntilAdd, Basic, ConferenceId, At, GoTo, Crash
<1>8. CASE LookUp
  BY <1>8, <1>b, Constants
     DEF StaleOnlyUntilAdd, Basic, LookUp, At, GoTo, Crash
<1>9. CASE CopyPeer
  BY <1>9, <1>b, Constants
     DEF StaleOnlyUntilAdd, Basic, CopyPeer, At, GoTo, Crash
<1>10. CASE Fill
  <2>1. FillEffect
    BY <1>10, FillSlot
  <2> QED
    BY <2>1, <1>b, Constants
       DEF StaleOnlyUntilAdd, Basic, FillEffect, Same
<1>11. CASE CountPeers
  <2>1. CountEffect
    BY <1>11, CountSlot
  <2> QED
    BY <2>1, <1>b, Constants
       DEF StaleOnlyUntilAdd, Basic, CountEffect, Same
<1>12. ASSUME NEW g \in Numbers, NEW n \in Peers, Message(g, n)
      PROVE  StaleOnlyUntilAdd'
  BY <1>12, <1>b, Constants
     DEF StaleOnlyUntilAdd, Basic, Message, Start, Idle
<1>13. ASSUME NEW g \in Numbers, NEW n \in Peers, NameChange(g, n)
      PROVE  StaleOnlyUntilAdd'
  BY <1>13, <1>b, Constants
     DEF StaleOnlyUntilAdd, Basic, NameChange, Start, Idle
<1>14. ASSUME NEW g \in Numbers, NEW n \in 1 .. MaxPeers, ListChanged(g, n)
      PROVE  StaleOnlyUntilAdd'
  <2>1. ListEffect(g, n)
    BY <1>14, ListSlot
  <2> QED
    BY <2>1, <1>b, Constants
       DEF StaleOnlyUntilAdd, Basic, ListEffect, Same
<1>15. CASE AskCreate
  BY <1>15, <1>b, Constants
     DEF StaleOnlyUntilAdd, Basic, AskCreate, UIFree
<1>16. ASSUME NEW g \in Numbers, RemoveItem(g)
      PROVE  StaleOnlyUntilAdd'
  <2>1. RemoveEffect(g)
    BY <1>16, RemoveListed
  <2>3. viewStale' = FALSE \/ viewStale' = viewStale
    BY <1>16 DEF RemoveItem
  <2> QED
    BY <2>1, <2>3 DEF StaleOnlyUntilAdd, RemoveEffect
<1>17. ASSUME NEW v \in Numbers \cup {None}, Select(v)
      PROVE  StaleOnlyUntilAdd'
  BY <1>17, <1>b, Constants
     DEF StaleOnlyUntilAdd, Basic, Select, UIFree, Listed
<1>18. ASSUME NEW p \in Peers, DrawPeer(p)
      PROVE  StaleOnlyUntilAdd'
  BY <1>18, <1>b, Constants
     DEF StaleOnlyUntilAdd, Basic, DrawPeer, UIFree, Crash
<1>19. CASE GroupFree
  <2>1. FreeEffect
    BY <1>19, FreeSlot
  <2> QED
    BY <2>1, <1>b, Constants
       DEF StaleOnlyUntilAdd, Basic, FreeEffect, Same
<1>20. CASE GroupAdd
  <2>1. PICK n \in Numbers : ShownEffect(n)
    BY <1>20, AddShown
  <2>2. UNCHANGED <<conf, arrayVars, coreVars, toxcore_msg, uiVars, joins,
                    crashed, histVars>>
    BY <1>20 DEF GroupAdd
  <2> QED
    BY <2>1, <2>2, <1>b, Constants DEF StaleOnlyUntilAdd, Basic, ShownEffect
<1>21. CASE DrawName
  BY <1>21, <1>b, Constants
     DEF StaleOnlyUntilAdd, Basic, DrawName, Crash
<1> QED
  BY <1>a, <1>1, <1>2, <1>3, <1>4, <1>5, <1>6, <1>7, <1>8, <1>9, <1>10, <1>11,
     <1>12, <1>13, <1>14, <1>15, <1>16, <1>17, <1>18, <1>19, <1>20, <1>21
     DEF Next, ToxStep, Callback, UIStep, UIGoesOn

-----------------------------------------------------------------------------
(* The contact list and the count *)

Has(q, x) == \E i \in DOMAIN q : q[i] = x
Distinct(q) == \A i, j \in DOMAIN q : q[i] = q[j] => i = j

\* A group is on its way into the list: it is being made, or GROUP_ADD was sent.
Making(g) == pc = "init" /\ at = g
Sent(g) == Has(utox_msgs, g)

\* A conference that is not about to be parted from.
Kept(g) == conf[g] > 0 /\ toxcore_msg # g

\* The groups that groups_list_count counts: those until group_free.
Counted == {g \in Numbers : (Kept(g) /\ ~Making(g)) \/ (ui = "free" /\ uiAt = g)}

\* Every conference that is kept is in one of three places, and only once.
Placed(g) ==
    /\ listed[g] \in {0, 1}
    /\ Kept(g) <=> (listed[g] = 1 \/ Sent(g) \/ Making(g))
    /\ ~(listed[g] = 1 /\ Sent(g)) /\ ~(listed[g] = 1 /\ Making(g)) /\ ~(Sent(g) /\ Making(g))
    /\ Sent(g) => g \notin freed

Listing ==
    ~overtaken =>
      /\ Distinct(utox_msgs) /\ \A g \in Numbers : Placed(g)
      /\ toxcore_msg \in Numbers => conf[toxcore_msg] > 0
      /\ ui = "free" => ~Kept(uiAt)
      /\ groups_list_count = Cardinality(Counted)

\* Adding to the messages, and taking the first.
LEMMA AppendHas ==
    ASSUME NEW S, NEW q \in Seq(S), NEW x \in S
    PROVE  /\ \A y : Has(Append(q, x), y) <=> (Has(q, y) \/ y = x)
           /\ Distinct(q) /\ ~Has(q, x) => Distinct(Append(q, x))
<1>1. /\ Append(q, x) \in Seq(S) /\ Len(q) \in Nat
      /\ DOMAIN q = 1 .. Len(q) /\ DOMAIN Append(q, x) = 1 .. Len(q) + 1
      /\ \A i \in 1 .. Len(q) : Append(q, x)[i] = q[i]
      /\ Append(q, x)[Len(q) + 1] = x
  OBVIOUS
<1>2. \A i \in DOMAIN Append(q, x) : i \in DOMAIN q \/ i = Len(q) + 1
  BY <1>1
<1>3. DOMAIN q \subseteq DOMAIN Append(q, x) /\ Len(q) + 1 \in DOMAIN Append(q, x)
  BY <1>1
<1>4. \A y : Has(Append(q, x), y) <=> (Has(q, y) \/ y = x)
  BY <1>1, <1>2, <1>3 DEF Has
<1>5. ASSUME Distinct(q), ~Has(q, x) PROVE Distinct(Append(q, x))
  BY <1>1, <1>2, <1>5 DEF Has, Distinct
<1> QED
  BY <1>4, <1>5

LEMMA TailHas ==
    ASSUME NEW S, NEW q \in Seq(S), q # <<>>, Distinct(q)
    PROVE  /\ Distinct(Tail(q)) /\ Has(q, Head(q))
           /\ \A y : Has(Tail(q), y) <=> (Has(q, y) /\ y # Head(q))
<1>1. /\ Len(q) \in Nat \ {0} /\ DOMAIN q = 1 .. Len(q)
      /\ DOMAIN Tail(q) = 1 .. Len(q) - 1 /\ Head(q) = q[1]
      /\ \A i \in 1 .. Len(q) - 1 : Tail(q)[i] = q[i + 1]
  OBVIOUS
<1>2. /\ 1 \in DOMAIN q
      /\ \A i \in DOMAIN Tail(q) :
           i + 1 \in DOMAIN q /\ i + 1 # 1 /\ Tail(q)[i] = q[i + 1]
  BY <1>1
<1>3. ASSUME NEW i \in DOMAIN Tail(q), NEW j \in DOMAIN Tail(q), Tail(q)[i] = Tail(q)[j] PROVE i = j
  <2>1. i + 1 = j + 1
    BY <1>2, <1>3 DEF Distinct
  <2> QED
    BY <1>1, <2>1
<1>4. ASSUME NEW i \in DOMAIN q, i # 1 PROVE Has(Tail(q), q[i])
  <2>1. i - 1 \in DOMAIN Tail(q) /\ Tail(q)[i - 1] = q[i]
    BY <1>1, <1>4
  <2> QED
    BY <2>1 DEF Has
<1>5. \A i \in DOMAIN Tail(q) : Tail(q)[i] # Head(q)
  BY <1>1, <1>2 DEF Distinct
<1>6. ASSUME NEW y PROVE Has(Tail(q), y) <=> (Has(q, y) /\ y # Head(q))
  <2>1. ASSUME Has(Tail(q), y) PROVE Has(q, y) /\ y # Head(q)
    BY <1>2, <1>5, <2>1 DEF Has
  <2>2. ASSUME Has(q, y), y # Head(q) PROVE Has(Tail(q), y)
    <3>1. PICK i \in DOMAIN q : q[i] = y
      BY <2>2 DEF Has
    <3>2. i # 1
      BY <1>1, <2>2, <3>1
    <3> QED
      BY <1>4, <3>1, <3>2
  <2> QED
    BY <2>1, <2>2
<1> QED
  BY <1>1, <1>2, <1>3, <1>6 DEF Distinct, Has

\* Sets of numbers are finite.
LEMMA CountedFinite == IsFiniteSet(Counted) /\ IsFiniteSet(Counted')
<1>1. IsFiniteSet(Numbers)
  BY FS_Interval, GroupsAssumption DEF Numbers
<1> QED
  BY <1>1, FS_Subset DEF Counted

\* Steps that bring no conference and no item.
LEMMA ListingStays ==
    ASSUME Listing, Basic, UNCHANGED <<utox_msgs, listed, groups_list_count, freed, overtaken>>,
           \A g \in Numbers : /\ conf'[g] > 0 <=> conf[g] > 0
                              /\ toxcore_msg' = g <=> toxcore_msg = g,
           pc' = "init" <=> pc = "init", pc = "init" => at' = at,
           ui' = "free" <=> ui = "free", uiAt' = uiAt \/ ui # "free"
    PROVE  Listing'
<1>1. \A g \in Numbers : /\ Kept(g)' <=> Kept(g)
                         /\ Making(g)' <=> Making(g)
                         /\ Sent(g)' <=> Sent(g)
  BY DEF Kept, Making, Sent
<1>2. Counted' = Counted
  BY <1>1 DEF Counted
<1>3. (\A g \in Numbers : Placed(g)) => \A g \in Numbers : Placed(g)'
  BY <1>1 DEF Placed
<1>4. (ui = "free" => ~Kept(uiAt)) => (ui' = "free" => ~Kept(uiAt)')
  <2>1. uiAt \in Numbers
    BY DEF Basic
  <2>2. ui' = "free" => ui = "free" /\ uiAt' = uiAt
    OBVIOUS
  <2>3. Kept(uiAt') <=> Kept(uiAt')
    OBVIOUS
  <2> QED
    BY <1>1, <2>1, <2>2 DEF Kept
<1>5. (toxcore_msg \in Numbers => conf[toxcore_msg] > 0)
         => (toxcore_msg' \in Numbers => conf'[toxcore_msg'] > 0)
  OBVIOUS
<1> QED
  BY <1>2, <1>3, <1>4, <1>5 DEF Listing

\* A conference is made or joined under a number that is in no place yet.
LEMMA JoinListing ==
    ASSUME Listing, Basic, TypeOK, NEW own, JoinEffect(own),
           \A g \in Numbers : toxcore_msg' = g <=> toxcore_msg = g
    PROVE  Listing'
<1> SUFFICES ASSUME ~overtaken' PROVE Listing'
  BY DEF Listing
<1>1. /\ ~overtaken /\ ~(ui = "free" /\ uiAt = at') /\ at' \in Numbers /\ uiAt \in Numbers
      /\ conf[at'] = 0 /\ conf'[at'] = 1 /\ pc = "idle" /\ pc' = "init"
      /\ UNCHANGED <<groups_list_count, utox_msgs, listed, ui, uiAt, freed>>
  BY DEF JoinEffect, Basic, TypeOK
<1>2. \A g \in Numbers : g # at' => conf'[g] = conf[g]
  BY DEF JoinEffect
<1>3. /\ Distinct(utox_msgs) /\ \A g \in Numbers : Placed(g)
      /\ toxcore_msg \in Numbers => conf[toxcore_msg] > 0
      /\ ui = "free" => ~Kept(uiAt)
      /\ groups_list_count = Cardinality(Counted)
  BY <1>1 DEF Listing
<1>4. toxcore_msg # at' /\ toxcore_msg' # at'
  BY <1>1, <1>3
<1>5. ASSUME NEW g \in Numbers, g # at'
      PROVE  /\ Kept(g)' <=> Kept(g)
             /\ ~Making(g) /\ ~Making(g)'
             /\ Sent(g)' <=> Sent(g)
  BY <1>1, <1>2, <1>5 DEF Kept, Making, Sent
<1>6. /\ ~Kept(at') /\ conf'[at'] > 0 /\ toxcore_msg' # at'
      /\ pc' = "init" /\ pc # "init"
  BY <1>1, <1>4 DEF Kept
<1>7. ASSUME NEW g \in Numbers PROVE Placed(g)'
  <2>1. Placed(g)
    BY <1>3
  <2>2. CASE g = at'
    <3>1. listed[g] = 0 /\ ~Sent(g)
      BY <1>6, <2>1, <2>2 DEF Placed
    <3>2. Kept(g)' /\ Making(g)' /\ ~Sent(g)'
      BY <1>1, <1>6, <2>2, <3>1 DEF Kept, Making, Sent
    <3> QED
      BY <1>1, <3>1, <3>2 DEF Placed
  <2>3. CASE g # at'
    BY <1>1, <1>5, <2>1, <2>3 DEF Placed
  <2> QED
    BY <2>2, <2>3
<1>8. ASSUME NEW g \in Numbers PROVE g \in Counted' <=> g \in Counted
  <2>1. CASE g = at'
    <3>1. Making(g)' /\ ~Kept(g)
      BY <1>6, <2>1 DEF Making
    <3> QED
      BY <1>1, <2>1, <3>1 DEF Counted
  <2>2. CASE g # at'
    BY <1>1, <1>5, <2>2 DEF Counted
  <2> QED
    BY <2>1, <2>2
<1>9. Counted' = Counted
  BY <1>8 DEF Counted
<1>10. ui' = "free" => ~Kept(uiAt)'
  BY <1>1, <1>2, <1>3, <1>5 DEF Kept
<1>11. toxcore_msg' \in Numbers => conf'[toxcore_msg'] > 0
  BY <1>2, <1>3, <1>4
<1> QED
  BY <1>1, <1>3, <1>7, <1>9, <1>10, <1>11 DEF Listing

\* group_init: what was being made is sent to the list, and counted.
LEMMA InitListing ==
    ASSUME TypeOK, ToxKept, Listing, GroupInit, slot[at].tox PROVE Listing'
<1> SUFFICES ASSUME ~overtaken' PROVE Listing'
  BY DEF Listing
<1>1. /\ pc = "init" /\ pc' # "init"
      /\ groups_list_count' = groups_list_count + 1
      /\ UNCHANGED <<conf, at, toxcore_msg, listed, ui, uiAt, freed, overtaken>>
  BY InitSlot DEF InitEffect
<1>2. /\ Distinct(utox_msgs) /\ \A g \in Numbers : Placed(g)
      /\ toxcore_msg \in Numbers => conf[toxcore_msg] > 0
      /\ ui = "free" => ~Kept(uiAt)
      /\ groups_list_count = Cardinality(Counted)
  BY <1>1 DEF Listing
<1>3. /\ utox_msgs' = Append(utox_msgs, at) /\ utox_msgs \in Seq(Numbers)
      /\ at \in Numbers /\ uiAt \in Numbers
  BY DEF GroupInit, TypeOK
<1>4. /\ Making(at) /\ Kept(at) /\ ~Sent(at) /\ listed[at] = 0
      /\ at \notin freed
  <2>1. Making(at) /\ Placed(at)
    BY <1>1, <1>2, <1>3 DEF Making
  <2> QED
    BY <1>3, <2>1 DEF Placed, ToxKept
<1>5. /\ \A g : Has(utox_msgs', g) <=> (Has(utox_msgs, g) \/ g = at)
      /\ Distinct(utox_msgs')
  BY <1>2, <1>3, <1>4, AppendHas DEF Sent
<1>6. ASSUME NEW g \in Numbers
      PROVE  /\ Kept(g)' <=> Kept(g)
             /\ ~Making(g)' /\ (Making(g) <=> g = at)
             /\ Sent(g)' <=> (Sent(g) \/ g = at)
  BY <1>1, <1>5 DEF Kept, Making, Sent
<1>7. ASSUME NEW g \in Numbers PROVE Placed(g)'
  <2>1. Placed(g)
    BY <1>2
  <2> QED
    BY <1>1, <1>4, <1>6, <2>1 DEF Placed
<1>8. ui' = "free" => ~Kept(uiAt)'
  BY <1>1, <1>2, <1>3, <1>6
<1>9. Counted' = Counted \cup {at} /\ at \notin Counted
  <2>1. ~(ui = "free" /\ uiAt = at)
    BY <1>2, <1>4
  <2>2. at \notin Counted
    BY <1>4, <2>1 DEF Counted
  <2>3. ASSUME NEW g \in Numbers PROVE g \in Counted' <=> g \in Counted \/ g = at
    BY <1>1, <1>4, <1>6 DEF Counted
  <2>4. Counted \subseteq Numbers /\ Counted' \subseteq Numbers
    BY DEF Counted
  <2> QED
    BY <1>3, <2>2, <2>3, <2>4
<1>10. groups_list_count' = Cardinality(Counted')
  <2>1. Cardinality(Counted') = Cardinality(Counted) + 1
    BY <1>9, CountedFinite, FS_AddElement
  <2> QED
    BY <1>1, <1>2, <2>1
<1> QED
  BY <1>1, <1>2, <1>5, <1>7, <1>8, <1>10 DEF Listing

\* TOX_GROUP_PART: the conference was not kept before.
LEMMA PartListing ==
    ASSUME TypeOK, Listing, Part PROVE Listing'
<1> SUFFICES ASSUME ~overtaken' PROVE Listing'
  BY DEF Listing
<1>1. /\ conf'[toxcore_msg] = 0 /\ toxcore_msg \in Numbers
      /\ \A g \in Numbers : g # toxcore_msg => conf'[g] = conf[g]
      /\ pc = "idle" /\ toxcore_msg' = NoMsg
      /\ UNCHANGED <<pc, at, groups_list_count, utox_msgs, listed, ui, uiAt,
                     freed, overtaken>>
  BY PartConference DEF PartEffect
<1>2. /\ Distinct(utox_msgs) /\ \A g \in Numbers : Placed(g)
      /\ ui = "free" => ~Kept(uiAt)
      /\ groups_list_count = Cardinality(Counted)
  BY <1>1 DEF Listing
<1>3. ASSUME NEW g \in Numbers
      PROVE  /\ Kept(g)' <=> Kept(g)
             /\ Making(g)' <=> Making(g)
             /\ Sent(g)' <=> Sent(g)
  <2>1. toxcore_msg' # g
    BY <1>1, Constants
  <2>2. Kept(g)' <=> Kept(g)
    BY <1>1, <2>1 DEF Kept
  <2> QED
    BY <1>1, <2>2 DEF Making, Sent
<1>4. \A g \in Numbers : Placed(g)'
  BY <1>1, <1>2, <1>3 DEF Placed
<1>5. Counted' = Counted
  BY <1>1, <1>3 DEF Counted
<1>6. ui' = "free" => ~Kept(uiAt)'
  <2>1. uiAt \in Numbers
    BY DEF TypeOK
  <2> QED
    BY <1>1, <1>2, <1>3, <2>1
<1>7. toxcore_msg' \notin Numbers
  BY <1>1, Constants
<1> QED
  BY <1>1, <1>2, <1>4, <1>5, <1>6, <1>7 DEF Listing

\* deleteitem: the group is no longer kept, but counted until group_free.
LEMMA RemoveListing ==
    ASSUME TypeOK, Listing, NEW g \in Numbers, RemoveItem(g) PROVE Listing'
<1> SUFFICES ASSUME ~overtaken' PROVE Listing'
  BY DEF Listing
<1>1. /\ listed[g] > 0 /\ listed'[g] = listed[g] - 1
      /\ \A h \in Numbers : h # g => listed'[h] = listed[h]
      /\ ui = "idle" /\ toxcore_msg = NoMsg /\ toxcore_msg' = g
      /\ ui' = "free" /\ uiAt' = g
      /\ UNCHANGED <<conf, pc, at, groups_list_count, utox_msgs, freed,
                     overtaken>>
  BY RemoveListed DEF RemoveEffect
<1>2. /\ Distinct(utox_msgs) /\ \A h \in Numbers : Placed(h)
      /\ groups_list_count = Cardinality(Counted)
  BY <1>1 DEF Listing
<1>3. /\ listed[g] = 1 /\ Kept(g) /\ ~Sent(g) /\ ~Making(g)
  <2>1. Placed(g)
    BY <1>2
  <2> QED
    BY <1>1, <2>1 DEF Placed
<1>4. conf[g] > 0 /\ ~Kept(g)' /\ ~Sent(g)' /\ ~Making(g)'
  BY <1>1, <1>3 DEF Kept, Sent, Making
<1>5. ASSUME NEW h \in Numbers, h # g
      PROVE  /\ Kept(h)' <=> Kept(h)
             /\ Making(h)' <=> Making(h)
             /\ Sent(h)' <=> Sent(h)
  <2>1. toxcore_msg # h /\ toxcore_msg' # h
    BY <1>1, <1>5, Constants
  <2> QED
    BY <1>1, <2>1 DEF Kept, Making, Sent
<1>6. ASSUME NEW h \in Numbers PROVE Placed(h)'
  <2>1. CASE h = g
    <3>1. listed'[g] = 0
      BY <1>1, <1>3
    <3> QED
      BY <1>4, <2>1, <3>1 DEF Placed
  <2>2. CASE h # g
    <3>1. Placed(h)
      BY <1>2
    <3> QED
      BY <1>1, <1>5, <2>2, <3>1 DEF Placed
  <2> QED
    BY <2>1, <2>2
<1>7. Counted' = Counted
  <2>1. ASSUME NEW h \in Numbers PROVE h \in Counted' <=> h \in Counted
    BY <1>1, <1>3, <1>5 DEF Counted
  <2> QED
    BY <2>1 DEF Counted
<1>8. ~Kept(uiAt)'
  BY <1>1 DEF Kept
<1>9. conf'[toxcore_msg'] > 0
  BY <1>1, <1>4
<1> QED
  BY <1>1, <1>2, <1>6, <1>7, <1>8, <1>9 DEF Listing

\* group_free: what is freed is no longer counted, nor on its way to the list.
LEMMA FreeListing ==
    ASSUME TypeOK, Listing, GroupFree PROVE Listing'
<1> SUFFICES ASSUME ~overtaken' PROVE Listing'
  BY DEF Listing
<1>1. /\ ui = "free" /\ ui' = "idle" /\ freed' = freed \cup {uiAt}
      /\ groups_list_count' = groups_list_count - 1 /\ uiAt \in Numbers
      /\ UNCHANGED <<conf, pc, at, toxcore_msg, utox_msgs, listed, uiAt,
                     overtaken>>
  BY FreeSlot DEF FreeEffect, TypeOK
<1>2. /\ Distinct(utox_msgs) /\ \A g \in Numbers : Placed(g)
      /\ toxcore_msg \in Numbers => conf[toxcore_msg] > 0
      /\ ~Kept(uiAt)
      /\ groups_list_count = Cardinality(Counted)
  BY <1>1 DEF Listing
<1>3. ASSUME NEW g \in Numbers
      PROVE  /\ Kept(g)' <=> Kept(g)
             /\ Making(g)' <=> Making(g)
             /\ Sent(g)' <=> Sent(g)
  BY <1>1 DEF Kept, Making, Sent
<1>4. ~Sent(uiAt)
  <2>1. Placed(uiAt)
    BY <1>1, <1>2
  <2> QED
    BY <1>2, <2>1 DEF Placed
<1>5. ASSUME NEW g \in Numbers PROVE Placed(g)'
  <2>1. Placed(g)
    BY <1>2
  <2>2. Sent(g) => g \notin freed'
    BY <1>1, <1>4, <2>1 DEF Placed
  <2> QED
    BY <1>1, <1>3, <2>1, <2>2 DEF Placed
<1>6. Counted' = Counted \ {uiAt} /\ uiAt \in Counted
  <2>1. uiAt \in Counted
    BY <1>1 DEF Counted
  <2>2. ASSUME NEW g \in Numbers
        PROVE  g \in Counted' <=> (g \in Counted /\ g # uiAt)
    BY <1>1, <1>2, <1>3 DEF Counted
  <2>3. Counted \subseteq Numbers /\ Counted' \subseteq Numbers
    BY DEF Counted
  <2> QED
    BY <2>1, <2>2, <2>3
<1>7. groups_list_count' = Cardinality(Counted')
  <2>1. Cardinality(Counted') = Cardinality(Counted) - 1
    BY <1>6, CountedFinite, FS_RemoveElement
  <2> QED
    BY <1>1, <1>2, <2>1
<1> QED
  BY <1>1, <1>2, <1>5, <1>7 DEF Listing

\* GROUP_ADD: the slot of the group was not freed, so the item takes its number.
LEMMA AddListing ==
    ASSUME TypeOK, InArray, ToxKept, Listing, GroupAdd PROVE Listing'
<1> SUFFICES ASSUME ~overtaken' PROVE Listing'
  BY DEF Listing
<1>1. /\ utox_msgs # <<>> /\ utox_msgs \in Seq(Numbers)
      /\ utox_msgs' = Tail(utox_msgs)
      /\ UNCHANGED <<conf, pc, at, groups_list_count, toxcore_msg, ui, uiAt,
                     freed, overtaken>>
  BY DEF GroupAdd, TypeOK
<1>2. /\ Distinct(utox_msgs) /\ \A g \in Numbers : Placed(g)
      /\ toxcore_msg \in Numbers => conf[toxcore_msg] > 0
      /\ ui = "free" => ~Kept(uiAt)
      /\ groups_list_count = Cardinality(Counted)
  BY <1>1 DEF Listing
<1>3. PICK h \in Numbers : h = Head(utox_msgs)
  BY <1>1
<1>4. /\ Distinct(utox_msgs') /\ Has(utox_msgs, h)
      /\ \A y : Has(utox_msgs', y) <=> (Has(utox_msgs, y) /\ y # h)
  BY <1>1, <1>2, <1>3, TailHas
<1>5. Placed(h) /\ Sent(h)
  BY <1>2, <1>4 DEF Sent
<1>6. slot[h].tox
  <2>1. h < groups_list_size
    BY <1>4 DEF InArray, Has
  <2>2. h \notin freed
    BY <1>5 DEF Placed
  <2> QED
    BY <2>1, <2>2 DEF ToxKept
<1>7. listed' = [listed EXCEPT ![h] = listed[h] + 1]
  BY <1>3, <1>6 DEF GroupAdd
<1>8. /\ listed[h] = 0 /\ Kept(h) /\ ~Making(h)
  BY <1>5 DEF Placed
<1>9. /\ listed'[h] = 1
      /\ \A g \in Numbers : g # h => listed'[g] = listed[g]
  BY <1>7, <1>8 DEF TypeOK
<1>10. ASSUME NEW g \in Numbers
       PROVE  /\ Kept(g)' <=> Kept(g)
              /\ Making(g)' <=> Making(g)
              /\ Sent(g)' <=> (Sent(g) /\ g # h)
  BY <1>1, <1>4 DEF Kept, Making, Sent
<1>11. ASSUME NEW g \in Numbers PROVE Placed(g)'
  <2>1. Placed(g)
    BY <1>2
  <2>2. CASE g = h
    BY <1>8, <1>9, <1>10, <2>2 DEF Placed
  <2>3. CASE g # h
    BY <1>1, <1>9, <1>10, <2>1, <2>3 DEF Placed
  <2> QED
    BY <2>2, <2>3
<1>12. Counted' = Counted
  BY <1>1, <1>10 DEF Counted
<1>13. ui' = "free" => ~Kept(uiAt)'
  <2>1. uiAt \in Numbers
    BY DEF TypeOK
  <2> QED
    BY <1>1, <1>2, <1>10, <2>1
<1> QED
  BY <1>1, <1>2, <1>4, <1>11, <1>12, <1>13 DEF Listing

\* Every step keeps the list, the messages on their way and the count in step.
LEMMA ListingInductive ==
    ASSUME TypeOK, SlotForEach, InArray, ToxKept, Listing, [Next]_vars
    PROVE  Listing'
<1>b. Basic
  BY Basics
<1>a. CASE UNCHANGED vars
  BY <1>a, <1>b, ListingStays DEF vars
<1>1. CASE Create
  <2>1. JoinEffect(TRUE)
    BY <1>1, JoinSlot DEF Create
  <2>2. \A g \in Numbers : toxcore_msg # g /\ toxcore_msg' # g
    BY <1>1, Constants DEF Create
  <2> QED
    BY <2>1, <2>2, <1>b, JoinListing
<1>2. CASE Invited
  <2>1. JoinEffect(FALSE)
    BY <1>2, JoinSlot DEF Invited
  <2> QED
    BY <2>1, <1>2, <1>b, JoinListing DEF Invited
<1>3. CASE GroupInit
  <2>1. CASE slot[at].tox
    BY <1>3, <2>1, InitListing
  <2>2. CASE ~slot[at].tox
    BY <1>3, <2>2, <1>b, ListingStays DEF GroupInit, Crash
  <2> QED
    BY <2>1, <2>2
<1>4. CASE PeerAdd
  <2>1. AddEffect
    BY <1>4, AddSlot
  <2> QED
    BY <2>1, <1>b, ListingStays DEF AddEffect
<1>5. CASE Part
  BY <1>5, PartListing
<1>6. CASE ChangeName
  BY <1>6, <1>b, ListingStays DEF ChangeName, At, GoTo, Crash
<1>7. CASE ConferenceId
  BY <1>7, <1>b, ListingStays DEF ConferenceId, At, GoTo, Crash
<1>8. CASE LookUp
  BY <1>8, <1>b, ListingStays DEF LookUp, At, GoTo, Crash
<1>9. CASE CopyPeer
  BY <1>9, <1>b, ListingStays DEF CopyPeer, At, GoTo, Crash
<1>10. CASE Fill
  <2>1. FillEffect
    BY <1>10, FillSlot
  <2> QED
    BY <2>1, <1>b, ListingStays DEF FillEffect
<1>11. CASE CountPeers
  <2>1. CountEffect
    BY <1>11, CountSlot
  <2> QED
    BY <2>1, <1>b, ListingStays DEF CountEffect
<1>12. ASSUME NEW g \in Numbers, NEW n \in Peers, Message(g, n)
      PROVE  Listing'
  BY <1>12, <1>b, ListingStays DEF Message, Start, Idle
<1>13. ASSUME NEW g \in Numbers, NEW n \in Peers, NameChange(g, n)
      PROVE  Listing'
  BY <1>13, <1>b, ListingStays DEF NameChange, Start, Idle
<1>14. ASSUME NEW g \in Numbers, NEW n \in 1 .. MaxPeers, ListChanged(g, n)
      PROVE  Listing'
  <2>1. ListEffect(g, n) /\ n > 0
    BY <1>14, ListSlot, Constants
  <2>2. \A h \in Numbers : conf'[h] > 0 <=> conf[h] > 0
    BY <2>1 DEF ListEffect
  <2> QED
    BY <2>1, <2>2, <1>b, ListingStays DEF ListEffect
<1>15. CASE AskCreate
  <2>1. \A g \in Numbers : toxcore_msg # g /\ toxcore_msg' # g
    BY <1>15, Constants DEF AskCreate
  <2> QED
    BY <1>15, <2>1, <1>b, ListingStays DEF AskCreate, UIFree
<1>16. ASSUME NEW g \in Numbers, RemoveItem(g)
      PROVE  Listing'
  BY <1>16, RemoveListing
<1>17. ASSUME NEW v \in Numbers \cup {None}, Select(v)
      PROVE  Listing'
  BY <1>17, <1>b, ListingStays DEF Select
<1>18. ASSUME NEW p \in Peers, DrawPeer(p)
      PROVE  Listing'
  BY <1>18, <1>b, ListingStays DEF DrawPeer, UIFree, Crash
<1>19. CASE GroupFree
  BY <1>19, FreeListing
<1>20. CASE GroupAdd
  BY <1>20, AddListing
<1>21. CASE DrawName
  BY <1>21, <1>b, ListingStays DEF DrawName, Crash
<1> QED
  BY <1>a, <1>1, <1>2, <1>3, <1>4, <1>5, <1>6, <1>7, <1>8, <1>9, <1>10, <1>11,
     <1>12, <1>13, <1>14, <1>15, <1>16, <1>17, <1>18, <1>19, <1>20, <1>21
     DEF Next, ToxStep, Callback, UIStep, UIGoesOn

-----------------------------------------------------------------------------
(* The invariant, and what follows from it *)

AllInv ==
    /\ GroupsInv /\ Agreeing /\ FaultsOnlyWhereFreed /\ CountFitsArray
    /\ StaleOnlyUntilAdd /\ Listing

\* It holds when the saved conferences have been listed.
LEMMA InitHolds == Init => AllInv
<1> SUFFICES ASSUME Init PROVE AllInv
  OBVIOUS
<1>1. /\ groups_list_size \in 0 .. MaxGroups /\ groups_list_size \in Nat
      /\ pc = "idle" /\ ui = "idle" /\ toxcore_msg = NoMsg /\ utox_msgs = <<>>
      /\ viewStale = FALSE /\ crashed = "no" /\ freed = {}
  BY Constants DEF Init
<1>2. ASSUME NEW g \in Numbers
      PROVE  \/ /\ g < groups_list_size /\ conf[g] = 1 /\ listed[g] = 1
                /\ slot[g] = [Made EXCEPT !.peer = GroupPeers]
             \/ /\ ~(g < groups_list_size) /\ conf[g] = 0 /\ listed[g] = 0
                /\ slot[g] = Cleared
  BY <1>2 DEF Init
<1>3. ASSUME NEW g \in Numbers
      PROVE  /\ slot[g].tox <=> g < groups_list_size
             /\ slot[g].known = {} /\ slot[g].peer_count = 0
             /\ slot[g].peer = IF g < groups_list_size THEN GroupPeers ELSE 0
             /\ slot[g] \in SlotType
  <2>1. /\ Made \in SlotType /\ Made.tox = TRUE /\ Made.peer = 0
        /\ Made.known = {} /\ Made.peer_count = 0
    BY Sizes DEF Made, Cleared, SlotType
  <2>2. /\ Cleared \in SlotType /\ Cleared.tox = FALSE /\ Cleared.peer = 0
        /\ Cleared.known = {} /\ Cleared.peer_count = 0
    BY Sizes DEF Cleared, SlotType
  <2>3. PICK m : m = [Made EXCEPT !.peer = GroupPeers]
    OBVIOUS
  <2>4. /\ m \in SlotType /\ m.tox = TRUE /\ m.peer = GroupPeers
        /\ m.known = {} /\ m.peer_count = 0
    BY <2>1, <2>3, Sizes DEF SlotType
  <2> QED
    BY <1>2, <1>3, <2>2, <2>3, <2>4
<1>4. TypeOK
  <2>1. conf \in [Numbers -> 0 .. MaxPeers]
    BY Constants DEF Init
  <2>2. slot \in [Numbers -> SlotType]
    BY <1>3 DEF Init
  <2>3. listed \in [Numbers -> Int]
    BY DEF Init
  <2>4. /\ joins \in 0 .. MaxJoins /\ view = None
        /\ at = 0 /\ who = 0 /\ uiAt = 0
        /\ ours = FALSE /\ overtaken = FALSE /\ groups_list_count \in Int
    BY Constants DEF Init
  <2>5. utox_msgs \in Seq(Numbers)
    BY <1>1
  <2> QED
    BY <1>1, <2>1, <2>2, <2>3, <2>4, <2>5, Constants DEF TypeOK
<1>5. SlotForEach /\ InArray /\ ToxKept
  BY <1>1, <1>2, <1>3 DEF SlotForEach, InArray, ToxKept
<1>6. Removal /\ Fresh
  BY <1>1, <1>2, Constants DEF Removal, Fresh
<1>7. KnownFit /\ Working /\ Agreeing
  BY <1>1, <1>3 DEF KnownFit, Working, Agreeing
<1>8. PeersFit
  BY <1>1, <1>2, <1>3, Constants DEF PeersFit
<1>9. FaultsOnlyWhereFreed /\ StaleOnlyUntilAdd
  BY <1>1 DEF FaultsOnlyWhereFreed, StaleOnlyUntilAdd
<1>10. CountFitsArray
  BY <1>3, Constants DEF CountFitsArray
<1>11. Listing
  <2>1. ASSUME NEW g \in Numbers
        PROVE  /\ listed[g] \in {0, 1} /\ (Kept(g) <=> listed[g] = 1)
               /\ (Kept(g) <=> g < groups_list_size)
               /\ ~Sent(g) /\ ~Making(g)
    <3>1. toxcore_msg # g
      BY <1>1, Constants
    <3>2. ~Sent(g) /\ ~Making(g)
      BY <1>1 DEF Sent, Has, Making
    <3> QED
      BY <1>1, <1>2, <3>1, <3>2 DEF Kept
  <2>2. \A g \in Numbers : Placed(g)
    BY <2>1 DEF Placed
  <2>3. groups_list_count = Cardinality(Counted)
    <3>1. \A g \in Numbers : g \in Counted <=> g < groups_list_size
      BY <1>1, <2>1 DEF Counted
    <3>2. Counted = 0 .. groups_list_size - 1
      BY <1>1, <3>1, Constants DEF Counted, Numbers
    <3>3. Cardinality(0 .. groups_list_size - 1) = groups_list_size
      BY <1>1, FS_Interval
    <3> QED
      BY <3>2, <3>3 DEF Init
  <2>4. Distinct(utox_msgs)
    BY <1>1 DEF Distinct
  <2> QED
    BY <1>1, <2>2, <2>3, <2>4, Constants DEF Listing
<1> QED
  BY <1>4, <1>5, <1>6, <1>7, <1>8, <1>9, <1>10, <1>11 DEF AllInv, GroupsInv

\* Every step keeps it.
LEMMA StepKeeps == AllInv /\ [Next]_vars => AllInv'
<1> SUFFICES ASSUME AllInv, [Next]_vars PROVE AllInv'
  OBVIOUS
<1>1. TypeOK' /\ SlotForEach' /\ InArray'
  BY TypesInductive, SlotsInductive, InArrayInductive DEF AllInv, GroupsInv
<1>2. ToxKept' /\ Removal' /\ Fresh'
  BY ToxKeptInductive, RemovalInductive, FreshInductive DEF AllInv, GroupsInv
<1>3. KnownFit' /\ PeersFit' /\ Working'
  BY KnownFitInductive, PeersFitInductive, WorkingInductive
     DEF AllInv, GroupsInv
<1>4. Agreeing' /\ FaultsOnlyWhereFreed'
  BY AgreeingInductive, FaultsInductive DEF AllInv
<1>5. CountFitsArray' /\ StaleOnlyUntilAdd'
  BY CountFitsInductive, StaleInductive DEF AllInv, GroupsInv
<1>6. Listing'
  BY ListingInductive DEF AllInv, GroupsInv
<1> QED
  BY <1>1, <1>2, <1>3, <1>4, <1>5, <1>6 DEF AllInv, GroupsInv

LEMMA InvHolds == Spec => []AllInv
BY InitHolds, StepKeeps, PTL DEF Spec

\* The variables of groups.c, of the mailboxes and of the contact list keep
\* their types, for any limits.
THEOREM TypeCorrect == Spec => []TypeOK
<1>1. AllInv => TypeOK
  BY DEF AllInv, GroupsInv
<1> QED
  BY <1>1, InvHolds, PTL

\* A callback of toxcore finds the slot of its group (tox_callbacks.c:245), and
\* the Tox, the peers and the peer it goes on to use (groups.c), for any number
\* of conferences and peers, but for a group whose slot group_free cleared.
THEOREM CallbacksFind == Spec => []CallbacksFindTheirs
<1>1. AllInv => CallbacksFindTheirs
  BY DEF AllInv, GroupsInv, CallbacksFindTheirs
<1> QED
  BY <1>1, InvHolds, PTL

\* What draw_group goes through is there (layout/group.c:52), and what it is
\* shown in points into the present array once the new group is shown.
THEOREM DrawingFinds == Spec => []DrawnIsThere
<1>1. AllInv => DrawnIsThere
  BY DEF AllInv, DrawnIsThere
<1> QED
  BY <1>1, InvHolds, PTL

\* A group whose peers are known has those that toxcore has, and counts them.
THEOREM PeersAlwaysAgree == Spec => []PeersAgree
<1>1. AllInv => PeersAgree
  BY DEF AllInv, Agreeing, PeersAgree
<1> QED
  BY <1>1, InvHolds, PTL

\* When nothing is under way the contact list shows every conference of toxcore
\* once (flist.c, GROUP_ADD), and groups_list_count, which the toxcore thread
\* raises and the UI thread lowers, is their number.
THEOREM ListAlwaysAgrees == Spec => []ListAgrees
<1>1. AllInv => ListAgrees
  <2> SUFFICES ASSUME AllInv, Quiet PROVE ListAgrees
    BY DEF ListAgrees
  <2>1. /\ pc # "init" /\ toxcore_msg \notin Numbers /\ utox_msgs = <<>>
        /\ ui # "free" /\ \A g \in Numbers : Placed(g)
        /\ groups_list_count = Cardinality(Counted)
    BY Constants DEF Quiet, AllInv, Listing
  <2>2. ASSUME NEW g \in Numbers
        PROVE  /\ Kept(g) <=> conf[g] > 0
               /\ ~Making(g) /\ ~Sent(g)
    BY <2>1 DEF Kept, Making, Sent, Has
  <2>3. ASSUME NEW g \in Numbers
        PROVE  listed[g] = IF conf[g] > 0 THEN 1 ELSE 0
    BY <2>1, <2>2 DEF Placed
  <2>4. Counted = {g \in Numbers : conf[g] > 0}
    BY <2>1, <2>2 DEF Counted
  <2> QED
    BY <2>1, <2>3, <2>4 DEF ListAgrees
<1> QED
  BY <1>1, InvHolds, PTL

=============================================================================
