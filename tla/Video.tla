------------------------------- MODULE Video -------------------------------
(***************************************************************************)
(* The video thread of av/video.c, the threads it makes to send a frame to *)
(* each friend, the A/V control thread that starts, stops and changes the  *)
(* camera, and the UI thread that shows frames.                            *)
(*                                                                         *)
(* One pass of the video thread holds video_thread_lock.  Starting and     *)
(* stopping the camera does not take that lock, changing the device does.  *)
(* A send thread is given the address of args2, a variable on the stack of *)
(* the video thread, and of the planes of the one captured frame; the      *)
(* semaphore video_play_lock_ tells the video thread when the send thread  *)
(* has copied both.                                                        *)
(***************************************************************************)
EXTENDS Naturals, FiniteSets

CONSTANTS
    FriendCount,     \* self.friend_list_count
    Threads,         \* names for send threads
    MaxSenders,      \* MAX_VIDEO_PLAY_THREADS
    MaxFrames,       \* MAX_VIDEO_FRAMES_X11_MSGS
    Cameras,         \* numbers of real devices; 0 is "none", 1 the desktop
    MaxResets        \* bound: how often a counter is set back to zero

ASSUME VideoAssumption ==
    /\ FriendCount \in Nat /\ MaxResets \in Nat
    /\ MaxSenders \in Nat \ {0} /\ MaxFrames \in Nat \ {0}
    /\ IsFiniteSet(Threads)
    /\ Cameras \subseteq Nat \ {0, 1}

None == 0
Devices == {None, 1} \cup Cameras

VARIABLES
    \* the camera
    video_active, video_device_current, video_preview,
    opened,          \* the cameras that native_video_init has opened
    planes,          \* whether the planes of `input` are allocated
    \* the video thread
    pc, i, args2, video_thread_msg,
    \* the semaphore and the counter of the send threads
    video_play_lock_, count_video_play_threads_int,
    sender,          \* what each send thread is doing
    \* frames on their way to the UI
    count_video_frames_x11_messages, frames,
    \* the control thread
    ctrl,
    \* histories
    resets,          \* how often a counter was set back to zero
    for,             \* the friend for whom a send thread was made that has
                     \* not copied its arguments yet
    leftover,        \* send threads under way when their counter was reset
    leftframes,      \* frames under way when theirs was
    remade,          \* the semaphores were made anew during a pass
    lost,            \* ... and the sleeping video thread is not woken again
    abandoned        \* another device became current while a camera was open

cameraVars == <<video_active, video_device_current, video_preview, opened,
                planes>>
passVars == <<pc, i, args2>>
sendVars == <<sender, for>>
countVars == <<video_play_lock_, count_video_play_threads_int, leftover,
               remade, lost>>
frameVars == <<count_video_frames_x11_messages, frames, leftframes>>
vars == <<cameraVars, passVars, sendVars, countVars, frameVars, ctrl, resets,
          abandoned, video_thread_msg>>

NoFriend == FriendCount

InPass == pc \notin {"poll", "check", "lock", "exited"}
\* The threads that count_video_play_threads_int is to count: those made that
\* have not counted themselves out, and one that is counted but not made yet.
Counted == {s \in Threads : sender[s] \in {"made", "sending"}}
Claimed == IF pc = "claimed" THEN 1 ELSE 0
\* Frames that are counted but not posted yet.
Posting == (IF pc = "preview" THEN 1 ELSE 0) + (IF ctrl = "frame" THEN 1 ELSE 0)

Less(n) == IF n > 0 THEN n - 1 ELSE 0

Init ==
    /\ video_active = FALSE /\ video_device_current \in Devices
    /\ video_preview = FALSE /\ opened = {} /\ planes = FALSE
    /\ pc = "poll" /\ i = 0 /\ args2 = NoFriend /\ video_thread_msg = "none"
    /\ video_play_lock_ = 1 /\ count_video_play_threads_int = 0
    /\ sender = [s \in Threads |-> "none"]
    /\ for = [s \in Threads |-> NoFriend]
    /\ count_video_frames_x11_messages = 0 /\ frames = 0
    /\ ctrl = "idle" /\ resets = 0
    /\ leftover = 0 /\ leftframes = 0
    /\ remade = FALSE /\ lost = FALSE /\ abandoned = FALSE

-----------------------------------------------------------------------------
(* The camera *)

\* video_device_init when it succeeds: it cannot open a camera twice; it makes
\* semaphores and counter anew, whoever is using them.  A thread that sleeps in
\* sem_wait then may or may not be woken by the next sem_post.
DeviceInit(d, alreadyOpen) ==
    /\ d # None /\ d \notin alreadyOpen
    /\ resets < MaxResets /\ resets' = resets + 1
    /\ video_play_lock_' = 1
    /\ count_video_play_threads_int' = 0
    /\ leftover' = Cardinality(Counted) + Claimed
    /\ remade' = (remade \/ InPass)
    /\ \/ UNCHANGED lost
       \/ pc \in {"claimed", "handed"} /\ video_play_lock_ = 0 /\ lost' = TRUE

DeviceInitFails == UNCHANGED <<resets, countVars>>

\* utox_video_start, up to the result of video_device_init.
StartInit(preview) ==
    /\ ctrl = "idle" /\ ~video_active /\ video_device_current # None
    /\ video_preview' = (video_preview \/ preview)
    /\ \/ /\ DeviceInit(video_device_current, opened)
          /\ opened' = opened \cup ({video_device_current} \cap Cameras)
          /\ planes' = TRUE
          /\ ctrl' = "start"
       \/ DeviceInitFails /\ UNCHANGED <<opened, planes, ctrl>>
    /\ UNCHANGED <<video_active, video_device_current, frameVars, sendVars,
                   passVars, abandoned, video_thread_msg>>

\* The rest of it, video_device_start.
StartRead ==
    /\ ctrl = "start" /\ ctrl' = "idle"
    /\ video_active' = TRUE
    /\ UNCHANGED <<video_device_current, video_preview, opened, planes,
                   passVars, sendVars, countVars, frameVars, resets,
                   abandoned, video_thread_msg>>

\* utox_video_stop, up to its call of video_device_stop.
StopBegin ==
    /\ ctrl = "idle" /\ video_active
    /\ video_active' = FALSE /\ video_preview' = FALSE
    /\ ctrl' = "stop"
    /\ UNCHANGED <<video_device_current, opened, planes, passVars, sendVars,
                   countVars, frameVars, resets, abandoned, video_thread_msg>>

\* Mutant: the camera is not closed.
CloseDeviceMutKeepsOpen(d) ==
    /\ opened' = opened
    /\ planes' = (planes /\ d \notin Cameras)

\* close_video_device: only a real camera is closed and its planes freed.  The
\* semaphores it destroys keep their values in the C library.
CloseDevice(d) ==
    /\ opened' = opened \ {d}
    /\ planes' = (planes /\ d \notin Cameras)

\* The rest of utox_video_stop, whatever the video thread is doing.
StopClose ==
    /\ ctrl = "stop" /\ ctrl' = "idle"
    /\ CloseDevice(video_device_current)
    /\ UNCHANGED <<video_active, video_device_current, video_preview, passVars,
                   sendVars, countVars, frameVars, resets, abandoned,
                   video_thread_msg>>

\* utox_video_change_device(0): the current device is forgotten before what
\* was meant to be that device is closed.
ChangeToNone ==
    /\ ctrl = "idle" /\ ~InPass
    /\ video_device_current' = None
    /\ IF video_active
       THEN /\ video_active' = FALSE /\ video_preview' = FALSE
            /\ CloseDevice(None)
            /\ abandoned' = (abandoned \/ opened # {})
       ELSE UNCHANGED <<video_active, video_preview, opened, planes, abandoned>>
    /\ UNCHANGED <<passVars, sendVars, countVars, frameVars, ctrl, resets,
                   video_thread_msg>>

\* Mutant: the device is changed without the lock.
ChangeDeviceMutNoLock(d) ==
    /\ ctrl = "idle" /\ d # None
    /\ video_device_current' = d
    /\ LET closed == IF video_active THEN opened \ {video_device_current}
                     ELSE opened
       IN \/ /\ DeviceInit(d, closed)
             /\ opened' = IF video_active THEN closed \cup ({d} \cap Cameras)
                          ELSE closed
             /\ planes' = (video_active \/ d \notin Cameras)
             /\ UNCHANGED video_active
          \/ /\ DeviceInitFails
             /\ opened' = closed
             /\ planes' = (planes /\ ~(video_active
                                        /\ video_device_current \in Cameras))
             /\ video_active' = FALSE
    /\ UNCHANGED <<video_preview, passVars, sendVars, frameVars, ctrl,
                   abandoned, video_thread_msg>>

\* utox_video_change_device(d): with the camera on, the old device is closed
\* and the new one started; with the camera off, the new one is opened for its
\* frame size and closed again.
ChangeDevice(d) ==
    /\ ctrl = "idle" /\ ~InPass /\ d # None
    /\ video_device_current' = d
    /\ LET closed == IF video_active THEN opened \ {video_device_current}
                     ELSE opened
       IN \/ /\ DeviceInit(d, closed)
             /\ opened' = IF video_active THEN closed \cup ({d} \cap Cameras)
                          ELSE closed
             /\ planes' = (video_active \/ d \notin Cameras)
             /\ UNCHANGED video_active
          \/ /\ DeviceInitFails
             /\ opened' = closed
             /\ planes' = (planes /\ ~(video_active
                                        /\ video_device_current \in Cameras))
             /\ video_active' = FALSE
    /\ UNCHANGED <<video_preview, passVars, sendVars, frameVars, ctrl,
                   abandoned, video_thread_msg>>

-----------------------------------------------------------------------------
(* The video thread *)

\* postmessage_video writes over a message that is not read in time.
PostVideo(m) ==
    /\ ctrl = "idle"
    /\ video_thread_msg' = m
    /\ ctrl' = IF m = "kill" THEN "exit" ELSE ctrl
    /\ UNCHANGED <<cameraVars, passVars, sendVars, countVars, frameVars,
                   resets, abandoned>>

Poll ==
    /\ pc = "poll" /\ video_thread_msg = "none" /\ pc' = "check"
    /\ UNCHANGED <<cameraVars, i, args2, sendVars, countVars, frameVars, ctrl,
                   resets, abandoned, video_thread_msg>>

\* UTOXVIDEO_NEW_AV_INSTANCE: init_video_devices makes the device it detects
\* last the current one, opens it and closes it, whether or not one is in use.
NewInstance ==
    /\ pc = "poll" /\ video_thread_msg = "new"
    /\ \E d \in Devices \ {None} :
          /\ video_device_current' = d
          /\ abandoned' = (abandoned \/ opened \ {d} # {})
          /\ \/ /\ DeviceInit(d, opened)
                /\ planes' = (d \notin Cameras)
             \/ DeviceInitFails /\ UNCHANGED planes
    /\ video_thread_msg' = "none" /\ pc' = "check"
    /\ UNCHANGED <<video_active, video_preview, opened, i, args2, sendVars,
                   frameVars, ctrl>>

\* UTOXVIDEO_KILL and what follows the loop.
Exit ==
    /\ pc = "poll" /\ video_thread_msg = "kill"
    /\ pc' = "exited" /\ video_thread_msg' = "none"
    /\ video_active' = FALSE /\ video_device_current' = None
    /\ UNCHANGED <<video_preview, opened, planes, i, args2, sendVars,
                   countVars, frameVars, ctrl, resets, abandoned>>

\* if (video_active) ...
TestActive ==
    /\ pc = "check"
    /\ pc' = IF video_active THEN "lock" ELSE "poll"
    /\ UNCHANGED <<cameraVars, i, args2, sendVars, countVars, frameVars, ctrl,
                   resets, abandoned, video_thread_msg>>

\* ... and the lock, which only a change of the device holds, too.
BeginPass ==
    /\ pc = "lock" /\ pc' = "grab"
    /\ UNCHANGED <<cameraVars, i, args2, sendVars, countVars, frameVars, ctrl,
                   resets, abandoned, video_thread_msg>>

\* native_video_getframe: it may fail, which ends the pass.  A frame of a
\* camera is counted for the preview unless too many are under way.
Grab ==
    /\ pc = "grab"
    /\ \/ pc' = "poll" /\ UNCHANGED <<i, frameVars>>
       \/ /\ i' = 0
          /\ IF /\ video_preview /\ video_device_current \in Cameras
                /\ count_video_frames_x11_messages < MaxFrames
             THEN /\ count_video_frames_x11_messages' =
                         count_video_frames_x11_messages + 1
                  /\ pc' = "preview"
             ELSE pc' = "send" /\ UNCHANGED count_video_frames_x11_messages
          /\ UNCHANGED <<frames, leftframes>>
    /\ UNCHANGED <<cameraVars, args2, sendVars, countVars, ctrl, resets,
                   abandoned, video_thread_msg>>

PostPreview ==
    /\ pc = "preview" /\ pc' = "send"
    /\ frames' = frames + 1
    /\ UNCHANGED <<cameraVars, i, args2, sendVars, countVars, ctrl, resets,
                   count_video_frames_x11_messages, leftframes, abandoned,
                   video_thread_msg>>

\* A friend who is in no video call, or enough threads already.
SkipFriend ==
    /\ pc = "send" /\ i < FriendCount /\ i' = i + 1
    /\ UNCHANGED <<cameraVars, pc, args2, sendVars, countVars, frameVars, ctrl,
                   resets, abandoned, video_thread_msg>>

Claim ==
    /\ pc = "send" /\ i < FriendCount
    /\ count_video_play_threads_int < MaxSenders
    /\ count_video_play_threads_int' = count_video_play_threads_int + 1
    /\ pc' = "claimed"
    /\ UNCHANGED <<cameraVars, i, args2, sendVars, video_play_lock_, leftover,
                   remade, lost, frameVars, ctrl, resets, abandoned,
                   video_thread_msg>>

\* sem_wait, the arguments, pthread_create.
HandOver ==
    /\ pc = "claimed" /\ video_play_lock_ > 0 /\ ~lost
    /\ \/ \E s \in Threads :
             /\ sender[s] = "none"
             /\ sender' = [sender EXCEPT ![s] = "made"]
             /\ for' = [for EXCEPT ![s] = i]
             /\ video_play_lock_' = video_play_lock_ - 1
             /\ pc' = "handed"
             /\ args2' = i
             /\ UNCHANGED <<i, count_video_play_threads_int>>
       \/ /\ count_video_play_threads_int' = Less(count_video_play_threads_int)
          /\ i' = i + 1 /\ pc' = "send"
          /\ UNCHANGED <<args2, sendVars, video_play_lock_>>
    /\ UNCHANGED <<cameraVars, leftover, remade, lost, frameVars, ctrl, resets,
                   abandoned, video_thread_msg>>

\* Mutant: the video thread does not wait for the copy.
NextFriendMutNoWait ==
    /\ pc = "handed" /\ ~lost
    /\ i' = i + 1 /\ pc' = "send" /\ args2' = NoFriend
    /\ UNCHANGED <<cameraVars, sendVars, countVars, frameVars, ctrl,
                   resets, abandoned, video_thread_msg>>

\* sem_wait and sem_post: the send thread has copied; args2 goes out of scope.
NextFriend ==
    /\ pc = "handed" /\ video_play_lock_ > 0 /\ ~lost
    /\ i' = i + 1 /\ pc' = "send" /\ args2' = NoFriend
    /\ UNCHANGED <<cameraVars, sendVars, countVars, frameVars, ctrl,
                   resets, abandoned, video_thread_msg>>

EndPass ==
    /\ pc = "send" /\ i = FriendCount /\ pc' = "poll" /\ i' = 0
    /\ UNCHANGED <<cameraVars, args2, sendVars, countVars, frameVars, ctrl,
                   resets, abandoned, video_thread_msg>>

-----------------------------------------------------------------------------
(* video_play, one thread for each frame and friend *)

\* It copies its arguments and the frame.
Copy(s) ==
    /\ sender[s] = "made"
    /\ sender' = [sender EXCEPT ![s] = "sending"]
    /\ for' = [for EXCEPT ![s] = NoFriend]
    /\ video_play_lock_' = video_play_lock_ + 1
    /\ UNCHANGED <<cameraVars, passVars, count_video_play_threads_int,
                   leftover, remade, lost, frameVars, ctrl, resets, abandoned,
                   video_thread_msg>>

\* A frame of no sensible size, or no screen image: counted out first, ...
Refuse(s) ==
    /\ sender[s] = "made"
    /\ sender' = [sender EXCEPT ![s] = "refused"]
    /\ for' = [for EXCEPT ![s] = NoFriend]
    /\ count_video_play_threads_int' = Less(count_video_play_threads_int)
    /\ UNCHANGED <<cameraVars, passVars, video_play_lock_, leftover,
                   remade, lost, frameVars, ctrl, resets, abandoned,
                   video_thread_msg>>

\* Mutant: the early return forgets sem_post.
EndRefusedMutNoPost(s) ==
    /\ sender[s] = "refused"
    /\ sender' = [sender EXCEPT ![s] = "none"]
    /\ UNCHANGED video_play_lock_
    /\ UNCHANGED <<cameraVars, passVars, for,
                   count_video_play_threads_int, leftover, remade, lost, frameVars,
                   ctrl, resets, abandoned, video_thread_msg>>

\* ... then the video thread is let go on.
EndRefused(s) ==
    /\ sender[s] = "refused"
    /\ sender' = [sender EXCEPT ![s] = "none"]
    /\ video_play_lock_' = video_play_lock_ + 1
    /\ UNCHANGED <<cameraVars, passVars, for,
                   count_video_play_threads_int, leftover, remade, lost, frameVars,
                   ctrl, resets, abandoned, video_thread_msg>>

\* toxav_video_send_frame_age has returned.
EndSent(s) ==
    /\ sender[s] = "sending"
    /\ sender' = [sender EXCEPT ![s] = "none"]
    /\ count_video_play_threads_int' = Less(count_video_play_threads_int)
    /\ UNCHANGED <<cameraVars, passVars, for, video_play_lock_, leftover,
                   remade, lost, frameVars, ctrl, resets, abandoned,
                   video_thread_msg>>

-----------------------------------------------------------------------------
(* Frames of friends, and the UI thread *)

\* utox_av_incoming_frame_v, in the control thread: a frame is counted ...
CountIncoming ==
    /\ ctrl = "idle" /\ count_video_frames_x11_messages < MaxFrames
    /\ count_video_frames_x11_messages' = count_video_frames_x11_messages + 1
    /\ ctrl' = "frame"
    /\ UNCHANGED <<cameraVars, passVars, sendVars, countVars, frames,
                   leftframes, resets, abandoned, video_thread_msg>>

\* ... and posted.
PostIncoming ==
    /\ ctrl = "frame" /\ ctrl' = "idle"
    /\ frames' = frames + 1
    /\ UNCHANGED <<cameraVars, passVars, sendVars, countVars, leftframes,
                   count_video_frames_x11_messages, resets, abandoned,
                   video_thread_msg>>

\* Mutant: a frame that was shown is not counted out.
ShowFrameMutNotCounted ==
    /\ frames > 0 /\ frames' = frames - 1
    /\ UNCHANGED count_video_frames_x11_messages
    /\ UNCHANGED <<cameraVars, passVars, sendVars, countVars, leftframes, ctrl,
                   resets, abandoned, video_thread_msg>>

\* AV_VIDEO_FRAME.
ShowFrame ==
    /\ frames > 0 /\ frames' = frames - 1
    /\ count_video_frames_x11_messages' = Less(count_video_frames_x11_messages)
    /\ UNCHANGED <<cameraVars, passVars, sendVars, countVars, leftframes, ctrl,
                   resets, abandoned, video_thread_msg>>

\* AV_CALL_INCOMING and AV_CALL_ACCEPTED.
ResetFrames ==
    /\ resets < MaxResets /\ resets' = resets + 1
    /\ count_video_frames_x11_messages' = 0
    /\ leftframes' = frames + Posting
    /\ UNCHANGED <<cameraVars, passVars, sendVars, countVars, frames, ctrl,
                   abandoned, video_thread_msg>>

-----------------------------------------------------------------------------
VideoThread ==
    \/ Poll \/ NewInstance \/ Exit \/ TestActive \/ BeginPass \/ Grab \/ PostPreview
    \/ SkipFriend \/ Claim \/ HandOver \/ NextFriend \/ EndPass

SendThread(s) == Copy(s) \/ Refuse(s) \/ EndRefused(s) \/ EndSent(s)

ControlThread ==
    \/ \E preview \in BOOLEAN : StartInit(preview)
    \/ StartRead \/ StopBegin \/ StopClose \/ ChangeToNone
    \/ \E d \in Devices : ChangeDevice(d)
    \/ \E m \in {"new", "kill"} : PostVideo(m)
    \/ CountIncoming \/ PostIncoming

UIThread == ShowFrame \/ ResetFrames

Next ==
    \/ VideoThread
    \/ \E s \in Threads : SendThread(s)
    \/ ControlThread
    \/ UIThread

Spec == Init /\ [][Next]_vars

\* Every thread goes on when it can; a camera delivers or fails.
Fairness ==
    /\ WF_vars(VideoThread)
    /\ \A s \in Threads : WF_vars(SendThread(s))

FairSpec == Spec /\ Fairness

-----------------------------------------------------------------------------
TypeOK ==
    /\ video_active \in BOOLEAN /\ video_device_current \in Devices
    /\ video_preview \in BOOLEAN /\ opened \subseteq Cameras
    /\ planes \in BOOLEAN
    /\ pc \in {"poll", "check", "lock", "grab", "preview", "send", "claimed", "handed",
               "exited"}
    /\ i \in 0 .. FriendCount /\ args2 \in 0 .. FriendCount
    /\ video_thread_msg \in {"none", "new", "kill"}
    /\ video_play_lock_ \in Nat /\ count_video_play_threads_int \in Nat
    /\ sender \in [Threads -> {"none", "made", "refused", "sending"}]
    /\ for \in [Threads -> 0 .. FriendCount]
    /\ count_video_frames_x11_messages \in Nat /\ frames \in Nat
    /\ ctrl \in {"idle", "start", "stop", "frame", "exit"}
    /\ resets \in 0 .. MaxResets /\ leftover \in Nat /\ leftframes \in Nat
    /\ remade \in BOOLEAN /\ lost \in BOOLEAN /\ abandoned \in BOOLEAN

\* The limit of five send threads (video.c:783) is kept, except for those that
\* were under way when video_device_init set their counter back (video.c:213).
SendersBounded == Cardinality(Counted) + Claimed <= MaxSenders + leftover

\* A send thread copies the arguments made for it (video.c:827): the variable
\* on the video thread's stack is not written again before.  Only a camera that
\* is started anew within a pass, which makes the semaphore free, upsets this.
RightFriend ==
    ~remade => \A s \in Threads : sender[s] = "made" => args2 = for[s]

\* The planes a send thread is still to copy from (video.c:527) are freed by
\* nothing but a stop of the camera, which does not wait for the lock
\* (video.c:396): never by a change of the device.
FreedOnlyByStop ==
    [][\A s \in Threads :
          (~remade /\ sender[s] = "made" /\ planes /\ ~planes') => ctrl = "stop"]_vars

\* A camera is open only while it is in use, unless another device was made
\* the current one in the meantime (video.c:304).
OpenOnlyInUse ==
    (ctrl \in {"idle", "frame", "exit"} /\ opened # {} /\ pc # "exited")
        => (video_active \/ abandoned)

\* At most five frames wait for the UI (utox_av.c:558, video.c:753), except
\* those that were under way when a call set their counter back (utox.c:579).
FramesBounded == frames + Posting <= MaxFrames + leftframes

\* Once the UI has caught up the counter is zero: the limit never shuts the
\* video off for good.
CounterDrains == count_video_frames_x11_messages <= frames + Posting

\* The counters that are kept by hand, without a lock, do their work: the
\* limits hold, and neither shuts the video off for good.
CountersKept == SendersBounded /\ FramesBounded /\ CounterDrains

\* A pass ends and lets go of the lock: no send thread keeps the video thread
\* waiting for video_play_lock_, whichever way it returns (video.c:827).
PassEnds == (InPass /\ ~lost) ~> (~InPass \/ lost)
=============================================================================
