---------------------------- MODULE VideoProofs ----------------------------
(***************************************************************************)
(* Theorems about Video, for any number of friends, send threads, cameras  *)
(* and resets.                                                             *)
(*                                                                         *)
(* The inductive invariant has four parts besides the types.  What a       *)
(* counter counts is bounded by the counter, which is bounded by its       *)
(* limit; as long as the semaphores are not made anew within a pass, at    *)
(* most one send thread has yet to let the video thread go on, only while  *)
(* the video thread waits for it, and that thread's arguments stand in     *)
(* args2; and what is open is the current device.                          *)
(***************************************************************************)
EXTENDS Video, FiniteSetTheorems, TLAPS

USE DEF cameraVars, passVars, sendVars, countVars, frameVars

-----------------------------------------------------------------------------
(* How the set of counted threads changes *)

\* There are finitely many threads to count.
LEMMA CountedFinite == IsFiniteSet(Counted) /\ Cardinality(Counted) \in Nat
<1>1. Counted \in SUBSET Threads
  BY DEF Counted
<1> QED
  BY <1>1, FS_Subset, FS_CardinalityType, VideoAssumption

\* A step that leaves the threads alone leaves their number alone.
LEMMA CountedSame == ASSUME sender' = sender PROVE Counted' = Counted
BY DEF Counted

\* A thread that is made is counted.
LEMMA CountedMore ==
    ASSUME TypeOK, NEW s \in Threads, sender[s] = "none",
           sender' = [sender EXCEPT ![s] = "made"]
    PROVE  Cardinality(Counted') = Cardinality(Counted) + 1
<1>1. Counted' = Counted \cup {s} /\ s \notin Counted
  BY DEF Counted, TypeOK
<1> QED
  BY <1>1, CountedFinite, FS_AddElement

\* A thread that goes on from copying to sending stays counted.
LEMMA CountedOn ==
    ASSUME TypeOK, NEW s \in Threads, sender[s] = "made",
           sender' = [sender EXCEPT ![s] = "sending"]
    PROVE  Counted' = Counted
BY DEF Counted, TypeOK

\* A thread that counts itself out is not counted any more.
LEMMA CountedLess ==
    ASSUME TypeOK, NEW s \in Threads, sender[s] \in {"made", "sending"},
           NEW w \in {"none", "refused"}, sender' = [sender EXCEPT ![s] = w]
    PROVE  Cardinality(Counted') = Cardinality(Counted) - 1
<1>1. Counted' = Counted \ {s} /\ s \in Counted
  BY DEF Counted, TypeOK
<1> QED
  BY <1>1, CountedFinite, FS_RemoveElement

\* A thread that was refused was not counted any more when it ends.
LEMMA CountedRefused ==
    ASSUME TypeOK, NEW s \in Threads, sender[s] = "refused",
           sender' = [sender EXCEPT ![s] = "none"]
    PROVE  Counted' = Counted
BY DEF Counted, TypeOK

-----------------------------------------------------------------------------
(* Types *)

\* While a frame is handed over there is a friend to whom it goes.
TypesInv == TypeOK /\ (pc \in {"claimed", "handed"} => i < FriendCount)

\* The types of the variables are preserved by every step.
LEMMA TypesInductive == TypesInv /\ [Next]_vars => TypesInv'
<1> SUFFICES ASSUME TypesInv, [Next]_vars PROVE TypesInv'
  OBVIOUS
<1>a. /\ Cardinality(Counted) + Claimed \in Nat
      /\ frames + Posting \in Nat
  BY CountedFinite DEF TypesInv, TypeOK, Claimed, Posting
<1>b. /\ FriendCount \in Nat /\ NoFriend \in 0 .. FriendCount
      /\ MaxResets \in Nat /\ None \in Devices
  BY VideoAssumption DEF NoFriend, Devices, None
<1>1. CASE Poll
  BY <1>1, <1>b
     DEF TypesInv, TypeOK, Poll
<1>2. CASE NewInstance
  <2>1. planes' \in BOOLEAN /\ abandoned' \in BOOLEAN /\ remade' \in BOOLEAN
    BY <1>2 DEF TypesInv, TypeOK, NewInstance, DeviceInit, DeviceInitFails
  <2>2. /\ video_active' \in BOOLEAN /\ video_preview' \in BOOLEAN
        /\ lost' \in BOOLEAN
    BY <1>2 DEF TypesInv, TypeOK, NewInstance, DeviceInit, DeviceInitFails
  <2> QED
    BY <1>2, <2>1, <2>2, <1>a, <1>b
       DEF TypesInv, TypeOK, NewInstance, DeviceInit, DeviceInitFails
<1>3. CASE Exit
  BY <1>3, <1>b
     DEF TypesInv, TypeOK, Exit
<1>4. CASE TestActive
  BY <1>4, <1>b
     DEF TypesInv, TypeOK, TestActive
<1>5. CASE BeginPass
  BY <1>5, <1>b
     DEF TypesInv, TypeOK, BeginPass
<1>6. CASE Grab
  BY <1>6, <1>b
     DEF TypesInv, TypeOK, Grab
<1>7. CASE PostPreview
  BY <1>7, <1>b
     DEF TypesInv, TypeOK, PostPreview
<1>8. CASE SkipFriend
  BY <1>8, <1>b
     DEF TypesInv, TypeOK, SkipFriend
<1>9. CASE Claim
  BY <1>9, <1>b
     DEF TypesInv, TypeOK, Claim
<1>10. CASE HandOver
  BY <1>10, <1>b
     DEF TypesInv, TypeOK, HandOver, Less
<1>11. CASE NextFriend
  BY <1>11, <1>b
     DEF TypesInv, TypeOK, NextFriend
<1>12. CASE EndPass
  BY <1>12, <1>b
     DEF TypesInv, TypeOK, EndPass
<1>13. ASSUME NEW preview \in BOOLEAN, StartInit(preview)
      PROVE  TypesInv'
  <2>1. /\ video_preview' \in BOOLEAN /\ remade' \in BOOLEAN
        /\ video_active' \in BOOLEAN
    BY <1>13 DEF TypesInv, TypeOK, StartInit, DeviceInit, DeviceInitFails
  <2>2. /\ planes' \in BOOLEAN /\ lost' \in BOOLEAN
        /\ abandoned' \in BOOLEAN /\ opened' \subseteq Cameras
    BY <1>13 DEF TypesInv, TypeOK, StartInit, DeviceInit, DeviceInitFails
  <2>3. /\ video_play_lock_' \in Nat /\ count_video_play_threads_int' \in Nat
        /\ leftover' \in Nat /\ resets' \in 0 .. MaxResets
    BY <1>13, <1>a, <1>b
       DEF TypesInv, TypeOK, StartInit, DeviceInit, DeviceInitFails
  <2> QED
    BY <1>13, <2>1, <2>2, <2>3 DEF TypesInv, TypeOK, StartInit
<1>14. CASE StartRead
  BY <1>14, <1>b
     DEF TypesInv, TypeOK, StartRead
<1>15. CASE StopBegin
  BY <1>15, <1>b
     DEF TypesInv, TypeOK, StopBegin
<1>16. CASE StopClose
  BY <1>16, <1>b
     DEF TypesInv, TypeOK, StopClose, CloseDevice
<1>17. CASE ChangeToNone
  <2>1. /\ abandoned' \in BOOLEAN /\ planes' \in BOOLEAN
        /\ video_active' \in BOOLEAN /\ video_preview' \in BOOLEAN
    BY <1>17 DEF TypesInv, TypeOK, ChangeToNone, CloseDevice
  <2> QED
    BY <1>17, <2>1, <1>b DEF TypesInv, TypeOK, ChangeToNone, CloseDevice
<1>18. ASSUME NEW d \in Devices, ChangeDevice(d)
      PROVE  TypesInv'
  <2>1. planes' \in BOOLEAN /\ remade' \in BOOLEAN
    BY <1>18 DEF TypesInv, TypeOK, ChangeDevice, DeviceInit, DeviceInitFails
  <2>2. /\ video_active' \in BOOLEAN /\ video_preview' \in BOOLEAN
        /\ lost' \in BOOLEAN /\ abandoned' \in BOOLEAN
        /\ opened' \subseteq Cameras
    BY <1>18 DEF TypesInv, TypeOK, ChangeDevice, DeviceInit, DeviceInitFails
  <2>3. /\ video_play_lock_' \in Nat /\ count_video_play_threads_int' \in Nat
        /\ leftover' \in Nat /\ resets' \in 0 .. MaxResets
    BY <1>18, <1>a, <1>b
       DEF TypesInv, TypeOK, ChangeDevice, DeviceInit, DeviceInitFails
  <2> QED
    BY <1>18, <2>1, <2>2, <2>3 DEF TypesInv, TypeOK, ChangeDevice
<1>19. ASSUME NEW m \in {"new", "kill"}, PostVideo(m)
      PROVE  TypesInv'
  BY <1>19, <1>b
     DEF TypesInv, TypeOK, PostVideo
<1>20. CASE CountIncoming
  BY <1>20, <1>b
     DEF TypesInv, TypeOK, CountIncoming
<1>21. CASE PostIncoming
  BY <1>21, <1>b
     DEF TypesInv, TypeOK, PostIncoming
<1>22. CASE ShowFrame
  BY <1>22, <1>b
     DEF TypesInv, TypeOK, ShowFrame, Less
<1>23. CASE ResetFrames
  BY <1>23, <1>a, <1>b
     DEF TypesInv, TypeOK, ResetFrames
<1>24. ASSUME NEW s \in Threads, Copy(s)
      PROVE  TypesInv'
  BY <1>24, <1>b
     DEF TypesInv, TypeOK, Copy
<1>25. ASSUME NEW s \in Threads, Refuse(s)
      PROVE  TypesInv'
  BY <1>25, <1>b
     DEF TypesInv, TypeOK, Refuse, Less
<1>26. ASSUME NEW s \in Threads, EndRefused(s)
      PROVE  TypesInv'
  BY <1>26, <1>b
     DEF TypesInv, TypeOK, EndRefused
<1>27. ASSUME NEW s \in Threads, EndSent(s)
      PROVE  TypesInv'
  BY <1>27, <1>b
     DEF TypesInv, TypeOK, EndSent, Less
<1>28. CASE UNCHANGED vars
  BY <1>28, <1>b DEF TypesInv, TypeOK, vars
<1> QED
  BY <1>1, <1>2, <1>3, <1>4, <1>5, <1>6, <1>7, <1>8, <1>9, <1>10, <1>11,
     <1>12, <1>13, <1>14, <1>15, <1>16, <1>17, <1>18, <1>19, <1>20, <1>21,
     <1>22, <1>23, <1>24, <1>25, <1>26, <1>27, <1>28
     DEF Next, VideoThread, SendThread, ControlThread, UIThread

\* TypeOK is an invariant.
THEOREM TypeCorrect == Spec => []TypeOK
<1>1. Init => TypesInv
  <2>1. 0 \in 0 .. FriendCount /\ FriendCount \in 0 .. FriendCount
    BY VideoAssumption
  <2>2. 0 \in 0 .. MaxResets
    BY VideoAssumption
  <2> SUFFICES ASSUME Init PROVE TypesInv
    OBVIOUS
  <2>3. /\ video_active \in BOOLEAN /\ video_preview \in BOOLEAN
        /\ planes \in BOOLEAN /\ remade \in BOOLEAN /\ lost \in BOOLEAN
        /\ abandoned \in BOOLEAN
    BY DEF Init
  <2>4. /\ sender \in [Threads -> {"none", "made", "refused", "sending"}]
        /\ for \in [Threads -> 0 .. FriendCount]
        /\ i \in 0 .. FriendCount /\ args2 \in 0 .. FriendCount
    BY <2>1 DEF Init, NoFriend
  <2>5. /\ video_device_current \in Devices /\ opened \subseteq Cameras
        /\ pc = "poll" /\ video_thread_msg = "none" /\ ctrl = "idle"
        /\ resets \in 0 .. MaxResets
    BY <2>2 DEF Init
  <2>6. /\ video_play_lock_ \in Nat /\ count_video_play_threads_int \in Nat
        /\ count_video_frames_x11_messages \in Nat /\ frames \in Nat
        /\ leftover \in Nat /\ leftframes \in Nat
    BY DEF Init
  <2> QED
    BY <2>3, <2>4, <2>5, <2>6 DEF TypesInv, TypeOK
<1>2. TypesInv => TypeOK
  BY DEF TypesInv
<1> QED
  BY <1>1, <1>2, TypesInductive, PTL DEF Spec

-----------------------------------------------------------------------------
(* Send threads *)

\* The threads that were made since the counter was last set back are at most
\* as many as it says, and it stays within its limit.
SendersInv ==
    /\ count_video_play_threads_int <= MaxSenders
    /\ Cardinality(Counted) + Claimed
          <= count_video_play_threads_int + leftover

LEMMA SendersInductive ==
    TypeOK /\ SendersInv /\ [Next]_vars => SendersInv'
<1> SUFFICES ASSUME TypeOK, SendersInv, [Next]_vars PROVE SendersInv'
  OBVIOUS
<1>a. Cardinality(Counted) \in Nat
  BY CountedFinite
<1>b. /\ count_video_play_threads_int \in Nat /\ leftover \in Nat
      /\ MaxSenders \in Nat /\ MaxSenders > 0
  BY VideoAssumption DEF TypeOK
<1>c. sender' = sender => Cardinality(Counted') = Cardinality(Counted)
  BY CountedSame
<1> USE <1>a, <1>b DEF SendersInv, Claimed
<1>1. CASE Poll
  BY <1>1, <1>c
     DEF Poll
<1>2. CASE NewInstance
  BY <1>2, <1>c
     DEF NewInstance, DeviceInit, DeviceInitFails
<1>3. CASE Exit
  BY <1>3, <1>c
     DEF Exit
<1>4. CASE TestActive
  BY <1>4, <1>c
     DEF TestActive
<1>5. CASE BeginPass
  BY <1>5, <1>c
     DEF BeginPass
<1>6. CASE Grab
  BY <1>6, <1>c
     DEF Grab
<1>7. CASE PostPreview
  BY <1>7, <1>c
     DEF PostPreview
<1>8. CASE SkipFriend
  BY <1>8, <1>c
     DEF SkipFriend
<1>9. CASE Claim
  BY <1>9, <1>c
     DEF Claim
<1>10. CASE HandOver
  <2>1. ASSUME NEW s \in Threads, sender[s] = "none",
               sender' = [sender EXCEPT ![s] = "made"]
        PROVE  Cardinality(Counted') = Cardinality(Counted) + 1
    BY <2>1, CountedMore
  <2> QED
    BY <1>10, <2>1, <1>c DEF HandOver, Less
<1>11. CASE NextFriend
  BY <1>11, <1>c
     DEF NextFriend
<1>12. CASE EndPass
  BY <1>12, <1>c
     DEF EndPass
<1>13. ASSUME NEW preview \in BOOLEAN, StartInit(preview)
      PROVE  SendersInv'
  BY <1>13, <1>c
     DEF StartInit, DeviceInit, DeviceInitFails
<1>14. CASE StartRead
  BY <1>14, <1>c
     DEF StartRead
<1>15. CASE StopBegin
  BY <1>15, <1>c
     DEF StopBegin
<1>16. CASE StopClose
  BY <1>16, <1>c
     DEF StopClose, CloseDevice
<1>17. CASE ChangeToNone
  BY <1>17, <1>c
     DEF ChangeToNone, CloseDevice
<1>18. ASSUME NEW d \in Devices, ChangeDevice(d)
      PROVE  SendersInv'
  BY <1>18, <1>c
     DEF ChangeDevice, DeviceInit, DeviceInitFails
<1>19. ASSUME NEW m \in {"new", "kill"}, PostVideo(m)
      PROVE  SendersInv'
  BY <1>19, <1>c
     DEF PostVideo
<1>20. CASE CountIncoming
  BY <1>20, <1>c
     DEF CountIncoming
<1>21. CASE PostIncoming
  BY <1>21, <1>c
     DEF PostIncoming
<1>22. CASE ShowFrame
  BY <1>22, <1>c
     DEF ShowFrame, Less
<1>23. CASE ResetFrames
  BY <1>23, <1>c
     DEF ResetFrames
<1>24. ASSUME NEW s \in Threads, Copy(s)
      PROVE  SendersInv'
  <2>1. Cardinality(Counted') = Cardinality(Counted)
    BY <1>24, CountedOn DEF Copy
  <2> QED
    BY <1>24, <2>1 DEF Copy
<1>25. ASSUME NEW s \in Threads, Refuse(s)
      PROVE  SendersInv'
  <2>1. Cardinality(Counted') = Cardinality(Counted) - 1
    BY <1>25, CountedLess DEF Refuse
  <2> QED
    BY <1>25, <2>1 DEF Refuse, Less
<1>26. ASSUME NEW s \in Threads, EndRefused(s)
      PROVE  SendersInv'
  <2>1. Cardinality(Counted') = Cardinality(Counted)
    BY <1>26, CountedRefused DEF EndRefused
  <2> QED
    BY <1>26, <2>1 DEF EndRefused
<1>27. ASSUME NEW s \in Threads, EndSent(s)
      PROVE  SendersInv'
  <2>1. Cardinality(Counted') = Cardinality(Counted) - 1
    BY <1>27, CountedLess DEF EndSent
  <2> QED
    BY <1>27, <2>1 DEF EndSent, Less
<1>28. CASE UNCHANGED vars
  BY <1>28, <1>c DEF vars
<1> QED
  BY <1>1, <1>2, <1>3, <1>4, <1>5, <1>6, <1>7, <1>8, <1>9, <1>10, <1>11,
     <1>12, <1>13, <1>14, <1>15, <1>16, <1>17, <1>18, <1>19, <1>20, <1>21,
     <1>22, <1>23, <1>24, <1>25, <1>26, <1>27, <1>28
     DEF Next, VideoThread, SendThread, ControlThread, UIThread

\* No more than MaxSenders threads send, except for those that were under way
\* when the camera was opened anew.
THEOREM SendersStayBounded == Spec => []SendersBounded
<1>1. Init => SendersInv
  <2> SUFFICES ASSUME Init PROVE SendersInv
    OBVIOUS
  <2>1. Counted = {} /\ Claimed = 0
    BY DEF Init, Counted, Claimed
  <2> QED
    BY <2>1, FS_EmptySet, VideoAssumption DEF Init, SendersInv
<1>2. TypeOK /\ SendersInv => SendersBounded
  BY CountedFinite, VideoAssumption
     DEF TypeOK, SendersInv, SendersBounded, Claimed
<1> QED
  BY <1>1, <1>2, TypeCorrect, SendersInductive, PTL DEF Spec

-----------------------------------------------------------------------------
(* Frames on their way to the UI *)

\* The counter lies between what was counted since it was last set back and
\* all that is under way.
FramesInv ==
    /\ count_video_frames_x11_messages <= MaxFrames
    /\ frames + Posting <= count_video_frames_x11_messages + leftframes
    /\ count_video_frames_x11_messages <= frames + Posting

LEMMA FramesInductive ==
    TypeOK /\ FramesInv /\ [Next]_vars => FramesInv'
<1> SUFFICES ASSUME TypeOK, FramesInv, [Next]_vars PROVE FramesInv'
  OBVIOUS
<1>a. /\ count_video_frames_x11_messages \in Nat
      /\ frames \in Nat /\ leftframes \in Nat
      /\ MaxFrames \in Nat /\ MaxFrames > 0
  BY VideoAssumption DEF TypeOK
<1> USE <1>a DEF FramesInv, Posting
<1>1. CASE Poll
  BY <1>1
     DEF Poll
<1>2. CASE NewInstance
  BY <1>2
     DEF NewInstance, DeviceInit, DeviceInitFails
<1>3. CASE Exit
  BY <1>3
     DEF Exit
<1>4. CASE TestActive
  BY <1>4
     DEF TestActive
<1>5. CASE BeginPass
  BY <1>5
     DEF BeginPass
<1>6. CASE Grab
  BY <1>6
     DEF Grab
<1>7. CASE PostPreview
  BY <1>7
     DEF PostPreview
<1>8. CASE SkipFriend
  BY <1>8
     DEF SkipFriend
<1>9. CASE Claim
  BY <1>9
     DEF Claim
<1>10. CASE HandOver
  BY <1>10
     DEF HandOver, Less
<1>11. CASE NextFriend
  BY <1>11
     DEF NextFriend
<1>12. CASE EndPass
  BY <1>12
     DEF EndPass
<1>13. ASSUME NEW preview \in BOOLEAN, StartInit(preview)
      PROVE  FramesInv'
  BY <1>13
     DEF StartInit, DeviceInit, DeviceInitFails
<1>14. CASE StartRead
  BY <1>14
     DEF StartRead
<1>15. CASE StopBegin
  BY <1>15
     DEF StopBegin
<1>16. CASE StopClose
  BY <1>16
     DEF StopClose, CloseDevice
<1>17. CASE ChangeToNone
  BY <1>17
     DEF ChangeToNone, CloseDevice
<1>18. ASSUME NEW d \in Devices, ChangeDevice(d)
      PROVE  FramesInv'
  BY <1>18
     DEF ChangeDevice, DeviceInit, DeviceInitFails
<1>19. ASSUME NEW m \in {"new", "kill"}, PostVideo(m)
      PROVE  FramesInv'
  BY <1>19
     DEF PostVideo
<1>20. CASE CountIncoming
  BY <1>20
     DEF CountIncoming
<1>21. CASE PostIncoming
  BY <1>21
     DEF PostIncoming
<1>22. CASE ShowFrame
  BY <1>22
     DEF ShowFrame, Less
<1>23. CASE ResetFrames
  BY <1>23
     DEF ResetFrames
<1>24. ASSUME NEW s \in Threads, Copy(s)
      PROVE  FramesInv'
  BY <1>24
     DEF Copy
<1>25. ASSUME NEW s \in Threads, Refuse(s)
      PROVE  FramesInv'
  BY <1>25
     DEF Refuse, Less
<1>26. ASSUME NEW s \in Threads, EndRefused(s)
      PROVE  FramesInv'
  BY <1>26
     DEF EndRefused
<1>27. ASSUME NEW s \in Threads, EndSent(s)
      PROVE  FramesInv'
  BY <1>27
     DEF EndSent, Less
<1>28. CASE UNCHANGED vars
  BY <1>28 DEF vars
<1> QED
  BY <1>1, <1>2, <1>3, <1>4, <1>5, <1>6, <1>7, <1>8, <1>9, <1>10, <1>11,
     <1>12, <1>13, <1>14, <1>15, <1>16, <1>17, <1>18, <1>19, <1>20, <1>21,
     <1>22, <1>23, <1>24, <1>25, <1>26, <1>27, <1>28
     DEF Next, VideoThread, SendThread, ControlThread, UIThread

LEMMA FramesInvariant == Spec => [](TypeOK /\ FramesInv)
<1>1. Init => FramesInv
  BY VideoAssumption DEF Init, FramesInv, Posting
<1> QED
  BY <1>1, TypeCorrect, FramesInductive, PTL DEF Spec

\* No more than MaxFrames frames wait for the UI, except for those that were
\* under way when a call set the counter back.
THEOREM FramesStayBounded == Spec => []FramesBounded
<1>1. TypeOK /\ FramesInv => FramesBounded
  BY VideoAssumption DEF TypeOK, FramesInv, FramesBounded, Posting
<1> QED
  BY <1>1, FramesInvariant, PTL

\* The counter never says more than there is, so it gets back to zero.
THEOREM CounterComesBack == Spec => []CounterDrains
<1>1. FramesInv => CounterDrains
  BY DEF FramesInv, CounterDrains
<1> QED
  BY <1>1, FramesInvariant, PTL

\* For any limits, friends and number of send threads: the counters of video.c
\* and utox_av.c keep the send threads and the frames within their limits and
\* come back to zero.
THEOREM CountersStayKept == Spec => []CountersKept
<1>1. SendersBounded /\ FramesBounded /\ CounterDrains => CountersKept
  BY DEF CountersKept
<1> QED
  BY <1>1, SendersStayBounded, FramesStayBounded, CounterComesBack, PTL

-----------------------------------------------------------------------------
(* The arguments and the planes that are handed over *)

\* s has yet to let the video thread go on.
Holds(s) == sender[s] \in {"made", "refused"}

HandOverInv ==
    ~remade =>
        /\ \/ video_play_lock_ = 1 /\ \A s \in Threads : ~Holds(s)
           \/ /\ pc = "handed" /\ video_play_lock_ = 0
              /\ \A s, t \in Threads : Holds(s) /\ Holds(t) => s = t
        /\ \A s \in Threads : sender[s] = "made" => args2 = for[s]

LEMMA HandOverInductive ==
    TypeOK /\ HandOverInv /\ [Next]_vars => HandOverInv'
<1> SUFFICES ASSUME TypeOK, HandOverInv, [Next]_vars, ~remade'
             PROVE  HandOverInv'
  BY DEF HandOverInv
<1>a. /\ sender \in [Threads -> {"none", "made", "refused", "sending"}]
      /\ for \in [Threads -> 0 .. FriendCount]
      /\ remade \in BOOLEAN
  BY DEF TypeOK
<1> USE <1>a DEF HandOverInv, Holds, InPass
<1>1. CASE Poll
  BY <1>1
     DEF Poll
<1>2. CASE NewInstance
  BY <1>2
     DEF NewInstance, DeviceInit, DeviceInitFails
<1>3. CASE Exit
  BY <1>3
     DEF Exit
<1>4. CASE TestActive
  BY <1>4
     DEF TestActive
<1>5. CASE BeginPass
  BY <1>5
     DEF BeginPass
<1>6. CASE Grab
  BY <1>6
     DEF Grab
<1>7. CASE PostPreview
  BY <1>7
     DEF PostPreview
<1>8. CASE SkipFriend
  BY <1>8
     DEF SkipFriend
<1>9. CASE Claim
  BY <1>9
     DEF Claim
<1>10. CASE HandOver
  BY <1>10
     DEF HandOver, Less
<1>11. CASE NextFriend
  BY <1>11
     DEF NextFriend
<1>12. CASE EndPass
  BY <1>12
     DEF EndPass
<1>13. ASSUME NEW preview \in BOOLEAN, StartInit(preview)
      PROVE  HandOverInv'
  <2>1. CASE ~InPass
    BY <1>13, <2>1 DEF StartInit, DeviceInit, DeviceInitFails
  <2>2. CASE InPass
    <3>1. UNCHANGED <<sender, for, pc, args2, remade, video_play_lock_>>
      BY <1>13, <2>2 DEF StartInit, DeviceInit, DeviceInitFails
    <3> QED
      BY <3>1
  <2> QED
    BY <2>1, <2>2
<1>14. CASE StartRead
  BY <1>14
     DEF StartRead
<1>15. CASE StopBegin
  BY <1>15
     DEF StopBegin
<1>16. CASE StopClose
  BY <1>16
     DEF StopClose, CloseDevice
<1>17. CASE ChangeToNone
  BY <1>17
     DEF ChangeToNone, CloseDevice
<1>18. ASSUME NEW d \in Devices, ChangeDevice(d)
      PROVE  HandOverInv'
  BY <1>18
     DEF ChangeDevice, DeviceInit, DeviceInitFails
<1>19. ASSUME NEW m \in {"new", "kill"}, PostVideo(m)
      PROVE  HandOverInv'
  BY <1>19
     DEF PostVideo
<1>20. CASE CountIncoming
  BY <1>20
     DEF CountIncoming
<1>21. CASE PostIncoming
  BY <1>21
     DEF PostIncoming
<1>22. CASE ShowFrame
  BY <1>22
     DEF ShowFrame, Less
<1>23. CASE ResetFrames
  BY <1>23
     DEF ResetFrames
<1>24. ASSUME NEW s \in Threads, Copy(s)
      PROVE  HandOverInv'
  BY <1>24
     DEF Copy
<1>25. ASSUME NEW s \in Threads, Refuse(s)
      PROVE  HandOverInv'
  BY <1>25
     DEF Refuse, Less
<1>26. ASSUME NEW s \in Threads, EndRefused(s)
      PROVE  HandOverInv'
  BY <1>26
     DEF EndRefused
<1>27. ASSUME NEW s \in Threads, EndSent(s)
      PROVE  HandOverInv'
  BY <1>27
     DEF EndSent, Less
<1>28. CASE UNCHANGED vars
  BY <1>28 DEF vars
<1> QED
  BY <1>1, <1>2, <1>3, <1>4, <1>5, <1>6, <1>7, <1>8, <1>9, <1>10, <1>11,
     <1>12, <1>13, <1>14, <1>15, <1>16, <1>17, <1>18, <1>19, <1>20, <1>21,
     <1>22, <1>23, <1>24, <1>25, <1>26, <1>27, <1>28
     DEF Next, VideoThread, SendThread, ControlThread, UIThread

LEMMA HandOverInvariant == Spec => [](TypeOK /\ HandOverInv)
<1>1. Init => HandOverInv
  BY DEF Init, HandOverInv, Holds
<1> QED
  BY <1>1, TypeCorrect, HandOverInductive, PTL DEF Spec

\* A send thread copies the arguments that were made for it.
THEOREM RightArguments == Spec => []RightFriend
<1>1. HandOverInv => RightFriend
  BY DEF HandOverInv, RightFriend
<1> QED
  BY <1>1, HandOverInvariant, PTL

\* While a send thread has yet to copy the planes, nothing but a stop of the
\* camera frees them.
THEOREM PlanesAreKept == Spec => FreedOnlyByStop
<1>1. TypeOK /\ HandOverInv /\ [Next]_vars =>
         [\A s \in Threads :
             (~remade /\ sender[s] = "made" /\ planes /\ ~planes')
                => ctrl = "stop"]_vars
  <2> SUFFICES ASSUME TypeOK, HandOverInv, Next, NEW s \in Threads,
                      ~remade, sender[s] = "made", planes, ~planes'
               PROVE  ctrl = "stop"
    BY DEF vars
  <2>1. pc = "handed" /\ InPass
    BY DEF HandOverInv, Holds, InPass
  <2>2. VideoThread => planes' = planes
    BY <2>1 DEF VideoThread, Poll, NewInstance, Exit, TestActive, BeginPass,
       Grab, PostPreview, SkipFriend, Claim, HandOver, NextFriend, EndPass
  <2>3. \A t \in Threads : SendThread(t) => planes' = planes
    BY DEF SendThread, Copy, Refuse, EndRefused, EndSent
  <2>4. UIThread => planes' = planes
    BY DEF UIThread, ShowFrame, ResetFrames
  <2>5. ControlThread => ctrl = "stop"
    BY <2>1 DEF ControlThread, StartInit, StartRead, StopBegin, StopClose,
       ChangeToNone, ChangeDevice, PostVideo, CountIncoming, PostIncoming
  <2> QED
    BY <2>2, <2>3, <2>4, <2>5 DEF Next
<1> QED
  BY <1>1, HandOverInvariant, PTL DEF Spec, FreedOnlyByStop

-----------------------------------------------------------------------------
(* Open cameras *)

\* Only the current device is open, and only while it is in use or about to
\* be, until another device is made the current one.
OpenInv ==
    (pc # "exited" /\ ~abandoned) =>
        /\ opened \subseteq {video_device_current}
        /\ ctrl \in {"idle", "frame", "exit"} /\ opened # {} => video_active

LEMMA OpenInductive == TypeOK /\ OpenInv /\ [Next]_vars => OpenInv'
<1> SUFFICES ASSUME TypeOK, OpenInv, [Next]_vars, pc' # "exited", ~abandoned'
             PROVE  OpenInv'
  BY DEF OpenInv
<1>a. opened \subseteq Cameras /\ video_active \in BOOLEAN
  BY DEF TypeOK
<1> USE <1>a DEF OpenInv
<1>1. CASE Poll
  BY <1>1
     DEF Poll
<1>2. CASE NewInstance
  BY <1>2
     DEF NewInstance, DeviceInit, DeviceInitFails
<1>3. CASE Exit
  BY <1>3
     DEF Exit
<1>4. CASE TestActive
  BY <1>4
     DEF TestActive
<1>5. CASE BeginPass
  BY <1>5
     DEF BeginPass
<1>6. CASE Grab
  BY <1>6
     DEF Grab
<1>7. CASE PostPreview
  BY <1>7
     DEF PostPreview
<1>8. CASE SkipFriend
  BY <1>8
     DEF SkipFriend
<1>9. CASE Claim
  BY <1>9
     DEF Claim
<1>10. CASE HandOver
  BY <1>10
     DEF HandOver, Less
<1>11. CASE NextFriend
  BY <1>11
     DEF NextFriend
<1>12. CASE EndPass
  BY <1>12
     DEF EndPass
<1>13. ASSUME NEW preview \in BOOLEAN, StartInit(preview)
      PROVE  OpenInv'
  BY <1>13
     DEF StartInit, DeviceInit, DeviceInitFails
<1>14. CASE StartRead
  BY <1>14
     DEF StartRead
<1>15. CASE StopBegin
  BY <1>15
     DEF StopBegin
<1>16. CASE StopClose
  BY <1>16
     DEF StopClose, CloseDevice
<1>17. CASE ChangeToNone
  BY <1>17
     DEF ChangeToNone, CloseDevice
<1>18. ASSUME NEW d \in Devices, ChangeDevice(d)
      PROVE  OpenInv'
  BY <1>18
     DEF ChangeDevice, DeviceInit, DeviceInitFails
<1>19. ASSUME NEW m \in {"new", "kill"}, PostVideo(m)
      PROVE  OpenInv'
  BY <1>19
     DEF PostVideo
<1>20. CASE CountIncoming
  BY <1>20
     DEF CountIncoming
<1>21. CASE PostIncoming
  BY <1>21
     DEF PostIncoming
<1>22. CASE ShowFrame
  BY <1>22
     DEF ShowFrame, Less
<1>23. CASE ResetFrames
  BY <1>23
     DEF ResetFrames
<1>24. ASSUME NEW s \in Threads, Copy(s)
      PROVE  OpenInv'
  BY <1>24
     DEF Copy
<1>25. ASSUME NEW s \in Threads, Refuse(s)
      PROVE  OpenInv'
  BY <1>25
     DEF Refuse, Less
<1>26. ASSUME NEW s \in Threads, EndRefused(s)
      PROVE  OpenInv'
  BY <1>26
     DEF EndRefused
<1>27. ASSUME NEW s \in Threads, EndSent(s)
      PROVE  OpenInv'
  BY <1>27
     DEF EndSent, Less
<1>28. CASE UNCHANGED vars
  BY <1>28 DEF vars
<1> QED
  BY <1>1, <1>2, <1>3, <1>4, <1>5, <1>6, <1>7, <1>8, <1>9, <1>10, <1>11,
     <1>12, <1>13, <1>14, <1>15, <1>16, <1>17, <1>18, <1>19, <1>20, <1>21,
     <1>22, <1>23, <1>24, <1>25, <1>26, <1>27, <1>28
     DEF Next, VideoThread, SendThread, ControlThread, UIThread

\* No camera is left open that is not in use, unless another device became the
\* current one.
THEOREM NotLeftOpen == Spec => []OpenOnlyInUse
<1>1. Init => OpenInv
  BY DEF Init, OpenInv
<1>2. OpenInv => OpenOnlyInUse
  BY DEF OpenInv, OpenOnlyInUse
<1> QED
  BY <1>1, <1>2, TypeCorrect, OpenInductive, PTL DEF Spec
=============================================================================
