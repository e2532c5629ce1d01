------------------------------- MODULE Calls --------------------------------
(***************************************************************************)
(* Calls: what toxav has, what a FRIEND says of it, and what the devices   *)
(* do, over four threads.  The toxcore thread (tox.c, and the callbacks of *)
(* toxav, which msi runs within tox_iterate) and the UI thread post to the *)
(* one-slot mailbox of the control thread (utox_av.c), which posts to the  *)
(* one of the audio thread (audio.c).  A friend's fields are written by    *)
(* the toxcore thread and the control thread, without a lock.              *)
(*                                                                         *)
(* A behavior ends when a message is lost: a poster waits for 500 polls    *)
(* and then writes, two posters write to one slot, or the control thread   *)
(* lowers its flag over a message it has not seen.                         *)
(*                                                                         *)
(* Left out: the speakers, notification tones, the video preview, the      *)
(* notices in the log, and the giving up of postmessage_toxcore (see       *)
(* ToxMailbox).  Tones are not switched off; the camera starts if asked    *)
(* (see Video).                                                            *)
(***************************************************************************)
EXTENDS Integers, Sequences, FiniteSets

CONSTANTS
    Friends,
    Videos,          \* whether calls may be made with video: a set of BOOLEAN
    CountModulus,    \* 2^32: call_count is a uint32_t
    MaxEvents        \* bound: what users, here and there, do

ASSUME CallsAssumption ==
    /\ Friends # {} /\ "nobody" \notin Friends
    /\ Videos \subseteq BOOLEAN /\ Videos # {}
    /\ CountModulus \in Nat /\ CountModulus > 2 /\ MaxEvents \in Nat

VARIABLES
    toxav,                \* external: the call with a friend
    \* FRIEND
    call_state_self, call_state_friend, audio_dest,
    \* commands of the user, and group calls on their way back to the UI
    pressed, toxcore_msg, utox_msgs,
    \* the mailbox of the control thread; who has seen its flag down
    toxav_msg, past,
    work,                 \* what the two posters have still to do
    \* the control thread: place, message, what it has still to do
    pc, now, orders,
    call_count, video_active,
    \* the mailbox of the audio thread, and its devices
    audio_msg, microphone_count, audio_in_open, ringtone,
    \* the UI: the preview of the microphone, the call in a group
    audio_preview, active_call,
    \* histories
    events, lost,
    odd                   \* what happened that nobody counted on

friendVars == <<call_state_self, call_state_friend>>
uiVars == <<pressed, utox_msgs, audio_preview, active_call>>
boxVars == <<toxav_msg, past>>
ctrlVars == <<pc, now, orders, call_count, video_active>>
audioVars == <<audio_dest, audio_msg, microphone_count, audio_in_open, ringtone>>
histVars == <<events, lost, odd>>
vars == <<toxav, friendVars, uiVars, toxcore_msg, boxVars, work, ctrlVars,
          audioVars, histVars>>

Msg(m, f, v) == [msg |-> m, friend |-> f, video |-> v]
Nobody == "nobody"
General(m) == Msg(m, Nobody, FALSE)

\* What is left to do of a handler: to post a message, or something else.
Post(m, f, v) == [do |-> "post", arg |-> Msg(m, f, v)]
Do(what, f, v) == [do |-> what, arg |-> Msg(what, f, v)]

Set(table, f, x) == [g \in Friends |-> IF g = f THEN x ELSE table[g]]

Init ==
    /\ toxav = [f \in Friends |-> "none"]
    /\ call_state_self = [f \in Friends |-> {}]
    /\ call_state_friend = [f \in Friends |-> {}]
    /\ audio_dest = [f \in Friends |-> FALSE]
    /\ pressed = <<>> /\ toxcore_msg = <<>> /\ utox_msgs = <<>>
    /\ toxav_msg = <<>> /\ past = {}
    /\ work = [p \in {"core", "ui"} |-> <<>>]
    /\ pc = "poll" /\ now = General("none") /\ orders = <<>>
    /\ call_count = 0 /\ video_active = FALSE
    /\ audio_msg = <<>> /\ microphone_count = 0 /\ audio_in_open = FALSE
    /\ ringtone = FALSE /\ audio_preview = FALSE /\ active_call = FALSE
    /\ events = 0 /\ lost = FALSE /\ odd = {}

Up == ~lost
Event == events < MaxEvents /\ events' = events + 1

-----------------------------------------------------------------------------
(* postmessage_utoxav, called by the toxcore thread and the UI thread *)

Posting(p) == Up /\ work[p] # <<>> /\ Head(work[p]).do = "post"

\* The waiting loop sees the flag down.
SeeFlagDown(p) ==
    /\ Posting(p) /\ p \notin past /\ toxav_msg = <<>>
    /\ past' = past \cup {p}
    /\ UNCHANGED <<toxav, friendVars, uiVars, toxcore_msg, toxav_msg, work,
                   ctrlVars, audioVars, histVars>>

\* The message is written and the flag raised.
WriteMessage(p) ==
    /\ Posting(p) /\ p \in past
    /\ lost' = (toxav_msg # <<>>)
    /\ toxav_msg' = <<Head(work[p]).arg>> /\ past' = past \ {p}
    /\ work' = [work EXCEPT ![p] = Tail(@)]
    /\ UNCHANGED <<toxav, friendVars, uiVars, toxcore_msg, ctrlVars, audioVars,
                   events, odd>>

\* ... or the wait runs out.
GiveUp(p) ==
    /\ Posting(p) /\ p \notin past /\ toxav_msg # <<>>
    /\ lost' = TRUE
    /\ UNCHANGED <<toxav, friendVars, uiVars, toxcore_msg, boxVars, work,
                   ctrlVars, audioVars, events, odd>>

-----------------------------------------------------------------------------
(* The toxcore thread: the user's commands *)

CoreIdle == Up /\ work["core"] = <<>>

\* The handler of a command changes toxav's call and leaves steps to take; it
\* ends by lowering tox_thread_msg.
Command(c, f, v, call, steps) ==
    /\ CoreIdle /\ toxcore_msg = <<Msg(c, f, v)>>
    /\ toxav' = Set(toxav, f, call)
    /\ work' = [work EXCEPT !["core"] = steps \o <<Do("done", f, v)>>]

\* TOX_CALL_SEND.
CallSend(f, v) ==
    /\ Command("TOX_CALL_SEND", f, v, toxav[f],
               <<Post("OUTGOING_CALL_PENDING", f, v), Do("call", f, v)>>)
    /\ UNCHANGED <<friendVars, uiVars, toxcore_msg, boxVars, ctrlVars,
                   audioVars, histVars>>

\* ... toxav_call may fail, and a call that came in meanwhile is answered.
PlaceCall ==
    /\ Up /\ work["core"] # <<>> /\ Head(work["core"]).do = "call"
    /\ LET f == Head(work["core"]).arg.friend
           v == Head(work["core"]).arg.video
       IN /\ \/ toxav[f] = "none" /\ toxav' = [toxav EXCEPT ![f] = "out"]
             \/ toxav[f] = "in" /\ toxav' = [toxav EXCEPT ![f] = "active"]
             \/ toxav[f] # "in" /\ UNCHANGED toxav
          /\ odd' = IF toxav'[f] = "none" THEN odd \cup {"failed"} ELSE odd
          /\ work' = [work EXCEPT !["core"] =
                        (IF toxav[f] = "in"
                         THEN <<Post("OUTGOING_CALL_ACCEPTED", f, v)>>
                         ELSE <<>>) \o Tail(@)]
    /\ UNCHANGED <<friendVars, uiVars, toxcore_msg, boxVars, ctrlVars,
                   audioVars, events, lost>>

\* TOX_CALL_ANSWER.
CallAnswer(f, v) ==
    /\ LET answered == toxav[f] = "in"
       IN Command("TOX_CALL_ANSWER", f, v,
                  IF answered THEN "active" ELSE toxav[f],
                  IF answered THEN <<Post("INCOMING_CALL_ANSWER", f, v)>>
                              ELSE <<>>)
    /\ UNCHANGED <<friendVars, uiVars, toxcore_msg, boxVars, ctrlVars,
                   audioVars, histVars>>

\* TOX_CALL_DISCONNECT: utox_av_local_disconnect clears the FRIEND first.
CallDisconnect(f) ==
    /\ Command("TOX_CALL_DISCONNECT", f, FALSE, "none",
               <<Post("CALL_END", f, FALSE)>>)
    /\ call_state_self' = Set(call_state_self, f, {})
    /\ call_state_friend' = Set(call_state_friend, f, {})
    /\ UNCHANGED <<uiVars, toxcore_msg, boxVars, ctrlVars, audioVars, histVars>>

\* TOX_CALL_PAUSE_VIDEO and TOX_CALL_RESUME_VIDEO: utox_av_local_call_control
\* does nothing if toxav refuses, the second of them marks the FRIEND anyway.
PauseVideo(f, agreed) ==
    /\ agreed => toxav[f] = "active"
    /\ Command("TOX_CALL_PAUSE_VIDEO", f, TRUE, toxav[f],
               IF agreed
               THEN <<Post("STOP_VIDEO", f, FALSE), Do("hide", f, TRUE)>>
               ELSE <<>>)
    /\ UNCHANGED <<friendVars, uiVars, toxcore_msg, boxVars, ctrlVars,
                   audioVars, histVars>>

ResumeVideo(f, agreed) ==
    /\ agreed => toxav[f] = "active"
    /\ Command("TOX_CALL_RESUME_VIDEO", f, TRUE, toxav[f],
               (IF agreed THEN <<Post("START_VIDEO", f, FALSE)>> ELSE <<>>)
               \o <<Do("show", f, TRUE)>>)
    /\ UNCHANGED <<friendVars, uiVars, toxcore_msg, boxVars, ctrlVars,
                   audioVars, histVars>>

\* TOX_GROUP_AUDIO_START and TOX_GROUP_AUDIO_END only pass on to the UI.
GroupAudio(c) ==
    /\ Command(c, Nobody, FALSE, "none", <<>>)
    /\ utox_msgs' = Append(utox_msgs, c)
    /\ UNCHANGED <<friendVars, pressed, audio_preview, active_call, toxcore_msg,
                   boxVars, ctrlVars, audioVars, histVars>>

\* What follows a post: the bits of a FRIEND, the end of the command.
Changed(what, bits) ==
    CASE what = "hide"  -> bits \ {"SV"}
      [] what = "show"  -> bits \cup {"SV", "AV"}
      [] what = "clear" -> {}
      [] OTHER -> bits

CoreStep ==
    /\ Up /\ work["core"] # <<>>
    /\ Head(work["core"]).do \in {"hide", "show", "clear", "done"}
    /\ LET what == Head(work["core"]).do
           f == Head(work["core"]).arg.friend
       IN /\ call_state_self' = [g \in Friends |->
               IF g = f THEN Changed(what, call_state_self[g]) ELSE call_state_self[g]]
          /\ call_state_friend' = IF what = "clear"
               THEN Set(call_state_friend, f, {}) ELSE call_state_friend
          /\ toxcore_msg' = IF what = "done" THEN <<>> ELSE toxcore_msg
    /\ work' = [work EXCEPT !["core"] = Tail(@)]
    /\ UNCHANGED <<toxav, uiVars, boxVars, ctrlVars, audioVars, histVars>>

-----------------------------------------------------------------------------
(* The toxcore thread: callbacks of toxav *)

Callback(f, call, steps) ==
    /\ CoreIdle /\ Event
    /\ toxav' = Set(toxav, f, call)
    /\ work' = [work EXCEPT !["core"] = steps]
    /\ UNCHANGED <<uiVars, toxcore_msg, boxVars, ctrlVars, audioVars, lost>>

\* utox_av_incoming_call.
IncomingCall(f, v) ==
    /\ toxav[f] = "none"
    /\ Callback(f, "in", <<Post("INCOMING_CALL_PENDING", f, FALSE)>>)
    /\ call_state_self' = Set(call_state_self, f, {})
    /\ call_state_friend' =
         Set(call_state_friend, f, IF v THEN {"A", "V"} ELSE {"A"})
    /\ UNCHANGED odd

\* utox_audio_friend_accepted, for the first state after none, and for any
\* state that follows an empty one: a friend who goes on after a pause is
\* taken for one who accepts again.
Accept(f, state, agreed) ==
    (IF agreed /\ "SV" \in call_state_self[f] /\ "V" \notin state
     THEN <<Post("STOP_VIDEO", f, FALSE), Do("hide", f, TRUE)>> ELSE <<>>)
    \o <<Post("OUTGOING_CALL_ACCEPTED", f, FALSE)>>

\* utox_callback_av_change_state, when the friend accepts or changes what he
\* sends and takes.
ChangeState(f, state, agreed) ==
    /\ \/ toxav[f] = "out" /\ state # {}
       \/ toxav[f] = "active" /\ state # call_state_friend[f]
    /\ LET accepted == call_state_friend[f] = {}
       IN /\ Callback(f, "active",
                        IF accepted THEN Accept(f, state, agreed) ELSE <<>>)
          /\ odd' = IF accepted /\ toxav[f] = "active" THEN odd \cup {"resumed"}
                    ELSE odd
    /\ call_state_friend' = Set(call_state_friend, f, state)
    /\ UNCHANGED call_state_self

\* ... when the call has ended or failed: utox_av_remote_disconnect clears the
\* FRIEND last.
Finish(f) ==
    /\ toxav[f] # "none"
    /\ Callback(f, "none", <<Post("CALL_END", f, FALSE), Do("clear", f, FALSE)>>)
    /\ UNCHANGED <<friendVars, odd>>

\* callback_connection_status of a friend who has left: the call is ended here,
\* without toxav, and then once more if toxav has it still.
Offline(f) ==
    /\ call_state_self[f] \cup call_state_friend[f] # {}
    /\ Callback(f, "none",
                <<Post("CALL_END", f, FALSE)>> \o
                (IF toxav[f] = "none" THEN <<>>
                 ELSE <<Post("CALL_END", f, FALSE), Do("clear", f, FALSE)>>))
    /\ call_state_self' = Set(call_state_self, f, {})
    /\ call_state_friend' = Set(call_state_friend, f, {})
    /\ UNCHANGED odd

-----------------------------------------------------------------------------
(* The UI thread *)

UIIdle == Up /\ work["ui"] = <<>> /\ pressed = <<>>

\* A button reads the FRIEND, and then waits for the toxcore thread.
Press(m) ==
    /\ UIIdle /\ Event /\ pressed' = <<m>>
    /\ UNCHANGED <<toxav, friendVars, utox_msgs, audio_preview, active_call,
                   toxcore_msg, boxVars, work, ctrlVars, audioVars, lost, odd>>

PressAudio(f) ==
    Press(Msg(IF call_state_self[f] # {} THEN "TOX_CALL_DISCONNECT"
              ELSE IF "A" \in call_state_friend[f] THEN "TOX_CALL_ANSWER"
              ELSE "TOX_CALL_SEND", f, FALSE))

PressVideo(f) ==
    \/ /\ call_state_self[f] # {}
       /\ Press(CASE "AV" \in call_state_self[f] ->
                       Msg("TOX_CALL_PAUSE_VIDEO", f, TRUE)
                  [] OTHER -> Msg("TOX_CALL_RESUME_VIDEO", f, TRUE))
    \/ /\ call_state_self[f] = {}
       /\ Press(Msg(IF call_state_friend[f] # {} THEN "TOX_CALL_ANSWER"
                    ELSE "TOX_CALL_SEND", f, TRUE))

PressDecline(f) ==
    /\ call_state_friend[f] # {}
    /\ Press(Msg("TOX_CALL_DISCONNECT", f, FALSE))

PressGroup ==
    Press(General(IF active_call THEN "TOX_GROUP_AUDIO_END"
                                 ELSE "TOX_GROUP_AUDIO_START"))

PostCommand ==
    /\ Up /\ pressed # <<>> /\ toxcore_msg = <<>>
    /\ toxcore_msg' = pressed /\ pressed' = <<>>
    /\ UNCHANGED <<toxav, friendVars, utox_msgs, audio_preview, active_call,
                   boxVars, work, ctrlVars, audioVars, histVars>>

\* The button of the settings that lets the user hear himself.
PressPreview ==
    /\ UIIdle /\ Event
    /\ work' = [work EXCEPT !["ui"] =
                  <<Post(IF audio_preview THEN "STOP_AUDIO" ELSE "START_AUDIO",
                         Nobody, FALSE)>>]
    /\ audio_preview' = ~audio_preview
    /\ UNCHANGED <<toxav, friendVars, pressed, utox_msgs, active_call,
                   toxcore_msg, boxVars, ctrlVars, audioVars, lost, odd>>

\* The list of microphones; "same" is the one in use.
SelectAudioIn(same) ==
    /\ UIIdle /\ Event
    /\ work' = [work EXCEPT !["ui"] = <<Post("SET_AUDIO_IN", Nobody, same)>>]
    /\ UNCHANGED <<toxav, friendVars, uiVars, toxcore_msg, boxVars, ctrlVars,
                   audioVars, lost, odd>>

\* GROUP_AUDIO_START and GROUP_AUDIO_END are dispatched.
GroupMessage ==
    /\ UIIdle /\ utox_msgs # <<>>
    /\ utox_msgs' = Tail(utox_msgs)
    /\ LET start == Head(utox_msgs) = "TOX_GROUP_AUDIO_START"
       IN /\ active_call' = start
          /\ work' = [work EXCEPT !["ui"] =
                        <<Post(IF start THEN "GROUPCALL_START"
                                        ELSE "GROUPCALL_END", Nobody, FALSE)>>]
          /\ odd' = IF start /\ active_call THEN odd \cup {"twice"} ELSE odd
    /\ UNCHANGED <<toxav, friendVars, pressed, audio_preview, toxcore_msg,
                   boxVars, ctrlVars, audioVars, events, lost>>

-----------------------------------------------------------------------------
(* The control thread *)

\* What the handlers do with call_count, and have to do besides.
Added(m) ==
    CASE m \in {"INCOMING_CALL_PENDING", "OUTGOING_CALL_PENDING",
                "GROUPCALL_START"} -> 1
      [] m = "START_AUDIO" -> 2
      [] m \in {"CALL_END", "GROUPCALL_END", "STOP_AUDIO"} -> -1
      [] OTHER -> 0

\* Mutants: an end leaves the source, or an answer does not set the state.
OrdersMutKeepsSource(m) ==
    CASE m = "OUTGOING_CALL_PENDING" -> <<"PLAY_RINGTONE", "state">>
      [] m = "OUTGOING_CALL_ACCEPTED" -> <<"START_FRIEND", "STOP_RINGTONE">>
      [] m = "CALL_END" -> <<"video_off", "STOP_RINGTONE">>
      [] OTHER -> <<>>

OrdersMutNoState(m) ==
    CASE m = "INCOMING_CALL_ANSWER" -> <<"STOP_RINGTONE", "START_FRIEND">>
      [] m = "INCOMING_CALL_PENDING" -> <<"PLAY_RINGTONE">>
      [] OTHER -> <<>>

Orders(m) ==
    CASE m = "INCOMING_CALL_PENDING" -> <<"PLAY_RINGTONE">>
      [] m = "INCOMING_CALL_ANSWER" ->
           <<"STOP_RINGTONE", "START_FRIEND", "state">>
      [] m = "OUTGOING_CALL_PENDING" -> <<"PLAY_RINGTONE", "state">>
      [] m = "OUTGOING_CALL_ACCEPTED" -> <<"START_FRIEND", "STOP_RINGTONE">>
      [] m = "CALL_END" -> <<"video_off", "STOP_FRIEND", "STOP_RINGTONE">>
      [] m = "GROUPCALL_START" -> <<"GROUPCHAT_START">>
      [] m = "GROUPCALL_END" -> <<"GROUPCHAT_STOP">>
      [] m = "START_AUDIO" -> <<"START_PREVIEW">>
      [] m = "STOP_AUDIO" -> <<"STOP_PREVIEW">>
      [] m = "START_VIDEO" -> <<"video_on">>
      [] m = "STOP_VIDEO" -> <<"video_off">>
      [] m = "SET_AUDIO_IN" -> <<"device">>

\* An end without a call to end is ignored.
Refused(m) == call_count = 0 /\ m \in {"GROUPCALL_END", "STOP_AUDIO"}

TakeMessage ==
    /\ Up /\ pc = "poll" /\ toxav_msg # <<>>
    /\ LET m == Head(toxav_msg).msg
       IN /\ now' = Head(toxav_msg)
          /\ orders' = IF Refused(m) THEN <<>> ELSE Orders(m)
          /\ call_count' = IF Refused(m) THEN call_count
                           ELSE (call_count + Added(m)) % CountModulus
          /\ odd' = IF Refused(m) THEN odd \cup {"refused"} ELSE odd
    /\ pc' = "work"
    /\ UNCHANGED <<toxav, friendVars, uiVars, toxcore_msg, boxVars, work,
                   video_active, audioVars, events, lost>>

NoMessage ==
    /\ Up /\ pc = "poll" /\ toxav_msg = <<>>
    /\ pc' = "lower"
    /\ UNCHANGED <<toxav, friendVars, uiVars, toxcore_msg, boxVars, work, now,
                   orders, call_count, video_active, audioVars, histVars>>

Ordered(os) == Up /\ pc = "work" /\ orders # <<>> /\ Head(orders) \in os

\* postmessage_audio, with the same wait.
AudioOrders == {"PLAY_RINGTONE", "STOP_RINGTONE", "START_FRIEND", "STOP_FRIEND",
                "GROUPCHAT_START", "GROUPCHAT_STOP", "START_PREVIEW",
                "STOP_PREVIEW"}

PostAudio ==
    /\ Ordered(AudioOrders) /\ audio_msg = <<>>
    /\ audio_msg' = <<Msg(Head(orders), now.friend, FALSE)>>
    /\ orders' = Tail(orders)
    /\ UNCHANGED <<toxav, friendVars, uiVars, toxcore_msg, boxVars, work, pc,
                   now, call_count, video_active, audio_dest, microphone_count,
                   audio_in_open, ringtone, histVars>>

GiveUpAudio ==
    /\ Ordered(AudioOrders) /\ audio_msg # <<>>
    /\ lost' = TRUE
    /\ UNCHANGED <<toxav, friendVars, uiVars, toxcore_msg, boxVars, work,
                   ctrlVars, audioVars, events, odd>>

\* The state of a call answered or placed, and its camera.
SetState ==
    /\ Ordered({"state"})
    /\ call_state_self' =
         Set(call_state_self, now.friend,
             IF now.video THEN {"A", "SV", "AV"} ELSE {"A"})
    /\ video_active' = (video_active \/ now.video)
    /\ orders' = Tail(orders)
    /\ UNCHANGED <<toxav, call_state_friend, uiVars, toxcore_msg, boxVars, work,
                   pc, now, call_count, audioVars, histVars>>

SwitchVideo ==
    /\ Ordered({"video_on", "video_off"})
    /\ video_active' = (Head(orders) = "video_on")
    /\ orders' = Tail(orders)
    /\ UNCHANGED <<toxav, friendVars, uiVars, toxcore_msg, boxVars, work, pc,
                   now, call_count, audioVars, histVars>>

\* utox_audio_in_device_set refuses while the microphone is on, and
\* utox_audio_in_device_get has no device before the first call.
SetAudioIn ==
    /\ Ordered({"device"})
    /\ call_count' = IF \/ microphone_count > 0 /\ ~now.video
                        \/ ~audio_in_open
                     THEN 0 ELSE call_count
    /\ orders' = Tail(orders)
    /\ UNCHANGED <<toxav, friendVars, uiVars, toxcore_msg, boxVars, work, pc,
                   now, video_active, audioVars, histVars>>

\* The flag is lowered, message or not.
Lower ==
    /\ Up /\ (pc = "lower" \/ (pc = "work" /\ orders = <<>>))
    /\ lost' = (toxav_msg # <<>> /\ now.msg = "none")
    /\ toxav_msg' = <<>> /\ now' = General("none") /\ pc' = "poll"
    /\ UNCHANGED <<toxav, friendVars, uiVars, toxcore_msg, past, work, orders,
                   call_count, video_active, audioVars, events, odd>>

-----------------------------------------------------------------------------
(* The audio thread *)

\* audio_in_listen and audio_in_ignore.
Listen == microphone_count' = microphone_count + 1 /\ audio_in_open' = TRUE
\* Mutant: the count goes below zero.
IgnoreMutNoFloor ==
    /\ microphone_count' = microphone_count - 1
    /\ UNCHANGED audio_in_open

Ignore ==
    /\ microphone_count' = IF microphone_count > 0 THEN microphone_count - 1 ELSE 0
    /\ UNCHANGED audio_in_open

Heard(ms) == Up /\ audio_msg # <<>> /\ Head(audio_msg).msg \in ms
             /\ audio_msg' = <<>>

StartFriend ==
    /\ Heard({"START_FRIEND"}) /\ Listen
    /\ audio_dest' = Set(audio_dest, Head(audio_msg).friend, TRUE)
    /\ UNCHANGED <<toxav, friendVars, uiVars, toxcore_msg, boxVars, work,
                   ctrlVars, ringtone, histVars>>

StopFriend ==
    /\ Heard({"STOP_FRIEND"}) /\ Ignore
    /\ audio_dest' = Set(audio_dest, Head(audio_msg).friend, FALSE)
    /\ UNCHANGED <<toxav, friendVars, uiVars, toxcore_msg, boxVars, work,
                   ctrlVars, ringtone, histVars>>

StartOther ==
    /\ Heard({"GROUPCHAT_START", "START_PREVIEW"}) /\ Listen
    /\ UNCHANGED <<toxav, friendVars, uiVars, toxcore_msg, boxVars, work,
                   ctrlVars, audio_dest, ringtone, histVars>>

\* Mutant: audio_in_ignore is left out, as audio_out_device_close is.
StopOtherMutKeepsOpen ==
    /\ Heard({"GROUPCHAT_STOP", "STOP_PREVIEW"})
    /\ UNCHANGED <<toxav, friendVars, uiVars, toxcore_msg, boxVars, work,
                   ctrlVars, audio_dest, microphone_count, audio_in_open,
                   ringtone, histVars>>

StopOther ==
    /\ Heard({"GROUPCHAT_STOP", "STOP_PREVIEW"}) /\ Ignore
    /\ UNCHANGED <<toxav, friendVars, uiVars, toxcore_msg, boxVars, work,
                   ctrlVars, audio_dest, ringtone, histVars>>

Ring ==
    /\ Heard({"PLAY_RINGTONE", "STOP_RINGTONE"})
    /\ ringtone' = (Head(audio_msg).msg = "PLAY_RINGTONE")
    /\ UNCHANGED <<toxav, friendVars, uiVars, toxcore_msg, boxVars, work,
                   ctrlVars, audio_dest, microphone_count, audio_in_open,
                   histVars>>

-----------------------------------------------------------------------------
CommandStep ==
    \/ \E f \in Friends, v \in Videos : CallSend(f, v) \/ CallAnswer(f, v)
    \/ \E f \in Friends : CallDisconnect(f)
    \/ \E f \in Friends, agreed \in BOOLEAN :
         PauseVideo(f, agreed) \/ ResumeVideo(f, agreed)
    \/ \E c \in {"TOX_GROUP_AUDIO_START", "TOX_GROUP_AUDIO_END"} : GroupAudio(c)
    \/ PlaceCall \/ CoreStep

\* What a friend can send and take: sound, or nothing, or video too.
FriendStates == {{}, {"A"}} \cup (IF TRUE \in Videos THEN {{"A", "V"}} ELSE {})

CallbackStep ==
    \/ \E f \in Friends, v \in Videos : IncomingCall(f, v)
    \/ \E f \in Friends, state \in FriendStates, agreed \in BOOLEAN :
         ChangeState(f, state, agreed)
    \/ \E f \in Friends : Finish(f) \/ Offline(f)

UIStep ==
    \/ \E f \in Friends : PressAudio(f) \/ PressDecline(f)
    \/ TRUE \in Videos /\ \E f \in Friends : PressVideo(f)
    \/ \E same \in BOOLEAN : SelectAudioIn(same)
    \/ PressGroup \/ PostCommand \/ PressPreview \/ GroupMessage

PostStep == \E p \in {"core", "ui"} : SeeFlagDown(p) \/ WriteMessage(p) \/ GiveUp(p)

ControlStep ==
    \/ TakeMessage \/ NoMessage \/ PostAudio \/ GiveUpAudio \/ SetState
    \/ SwitchVideo \/ SetAudioIn \/ Lower

AudioStep == StartFriend \/ StopFriend \/ StartOther \/ StopOther \/ Ring

Next == CommandStep \/ CallbackStep \/ UIStep \/ PostStep \/ ControlStep \/ AudioStep

Spec == Init /\ [][Next]_vars

-----------------------------------------------------------------------------
(* Properties *)

Commands == {"TOX_CALL_SEND", "TOX_CALL_ANSWER", "TOX_CALL_DISCONNECT",
             "TOX_CALL_PAUSE_VIDEO", "TOX_CALL_RESUME_VIDEO",
             "TOX_GROUP_AUDIO_START", "TOX_GROUP_AUDIO_END"}
Orderable == {"INCOMING_CALL_PENDING", "INCOMING_CALL_ANSWER",
              "OUTGOING_CALL_PENDING", "OUTGOING_CALL_ACCEPTED", "CALL_END",
              "GROUPCALL_START", "GROUPCALL_END", "START_AUDIO", "STOP_AUDIO",
              "START_VIDEO", "STOP_VIDEO", "SET_AUDIO_IN"}
AtMostOne(S) == {<<>>} \cup {<<x>> : x \in S}
Messages(names) == [msg : names, friend : Friends \cup {Nobody}, video : BOOLEAN]

\* The types; call_count stays within its 32 bits.
TypeOK ==
    /\ toxav \in [Friends -> {"none", "in", "out", "active"}]
    /\ call_state_self \in [Friends -> SUBSET {"A", "SV", "AV"}]
    /\ call_state_friend \in [Friends -> SUBSET {"A", "V"}]
    /\ audio_dest \in [Friends -> BOOLEAN]
    /\ pressed \in AtMostOne(Messages(Commands))
    /\ toxcore_msg \in AtMostOne(Messages(Commands))
    /\ \A i \in DOMAIN utox_msgs : utox_msgs[i] \in Commands
    /\ toxav_msg \in AtMostOne(Messages(Orderable))
    /\ past \subseteq {"core", "ui"}
    /\ \A p \in {"core", "ui"} : \A i \in DOMAIN work[p] :
         work[p][i] \in [do : {"post", "call", "hide", "show", "clear", "done"},
                         arg : Messages(Orderable \cup
                                          {"call", "hide", "show", "clear", "done"})]
    /\ pc \in {"poll", "work", "lower"}
    /\ now \in Messages(Orderable \cup {"none"})
    /\ \A i \in DOMAIN orders :
         orders[i] \in AudioOrders \cup {"state", "video_on", "video_off", "device"}
    /\ call_count \in 0 .. CountModulus - 1 /\ video_active \in BOOLEAN
    /\ audio_msg \in AtMostOne(Messages(AudioOrders))
    /\ microphone_count \in Nat /\ audio_in_open \in BOOLEAN
    /\ ringtone \in BOOLEAN /\ audio_preview \in BOOLEAN /\ active_call \in BOOLEAN
    /\ events \in 0 .. MaxEvents /\ lost \in BOOLEAN
    /\ odd \subseteq {"resumed", "twice", "refused", "failed"}

\* No thread has anything to do.
Quiet ==
    /\ Up /\ pressed = <<>> /\ toxcore_msg = <<>> /\ utox_msgs = <<>>
    /\ \A p \in {"core", "ui"} : work[p] = <<>>
    /\ toxav_msg = <<>> /\ pc # "work" /\ audio_msg = <<>>

\* Once all is quiet, a FRIEND has a source to play what he sends exactly when
\* toxav has a call with him: an end does not overtake its start on the way
\* over the two mailboxes, nor a callback the answer of the user.
AudioMatchesCalls ==
    Quiet => \A f \in Friends : audio_dest[f] = (toxav[f] = "active")

\* Once all is quiet, the buttons of a friend show every call toxav has with
\* him: the control thread, which writes call_state_self after the toxcore
\* thread has gone on to other calls, never leaves one that cannot be ended.
CallsAreShown ==
    Quiet => \A f \in Friends :
      /\ toxav[f] \in {"out", "active"} => call_state_self[f] # {}
      /\ toxav[f] = "in" => call_state_friend[f] # {}

\* Once all is quiet, the microphone, the camera and the ringtone are on only
\* for something the user sees: for the microphone a call, a call in a group or
\* the preview, for the others a call.  Not counting a friend who paused and
\* went on, a group's button pressed twice, an end that was refused, and a call
\* toxav could not place.  (That the call is shown as one with video is not
\* promised: a second press, before the first has set call_state_self, does so
\* again without.)
NothingUnseen ==
    (Quiet /\ odd = {}) =>
      LET shown == {f \in Friends : call_state_self[f] # {}}
          ringing == {f \in Friends : call_state_friend[f] # {}}
      IN /\ microphone_count > 0 => shown # {} \/ audio_preview \/ active_call
         /\ video_active => shown # {}
         /\ ringtone => shown \cup ringing # {}

=============================================================================
