----------------------------- MODULE ToxThread -----------------------------
(***************************************************************************)
(* The life of the toxcore thread: starting a Tox instance, the password   *)
(* and error states, the message loop, saving the profile, restarting on a *)
(* settings change and shutting down; with the UI thread that posts to it  *)
(* and waits for it, and the t_tc_iter thread that runs tox_iterate.       *)
(*                                                                         *)
(* A message is a tag here, written and raised in one step: the members of *)
(* tox_msg one by one are the subject of ToxMailbox.                       *)
(***************************************************************************)
EXTENDS Naturals

CONSTANTS MaxOps,        \* bound: commands the user gives
          UsesPassword,  \* whether the user ever sets a profile password
          ToxFails,      \* whether tox_new may fail (bad proxy, no socket)
          DiskFails,     \* whether writing tox_save.tox may fail
          HQAV,          \* built with UTOX_USAGE__HQAV_APPLICATION: tox_iterate
                         \* has a thread of its own (otherwise toxcore_thread
                         \* calls it, between two messages)
          GivesUp,       \* whether waits of 500 polls may run out
          Prompt         \* whether a runnable thread is scheduled within the
                         \* 300 ms that the shutdown sleeps

ASSUME ToxThreadAssumption ==
    /\ MaxOps \in Nat
    /\ UsesPassword \in BOOLEAN /\ ToxFails \in BOOLEAN /\ DiskFails \in BOOLEAN
    /\ HQAV \in BOOLEAN /\ GivesUp \in BOOLEAN /\ Prompt \in BOOLEAN

Kill == {"KILL_RECONFIG", "KILL_EXIT"}              \* TOX_KILL, param1 = 1, 0
Command == {"TOX_SELF_SET_NAME", "TOX_SAVE"}
Tag == Kill \cup Command
NoProfile == 0                                      \* an empty tox_save.tox

VARIABLES
    tox,              \* where toxcore_thread is
    reconfig,
    tox_thread_init,
    tox_thread_msg,
    tox_msg,
    save_needed,
    instance,         \* Tox instances created so far
    alive             \* the last one has not been passed to tox_kill

VARIABLES
    starting,         \* instances whose toxcore_iter_thread is yet to run
    iterating,        \* instances whose toxcore_iter_thread is in its loop
    do_tox_iterate

VARIABLES
    ui,               \* where the UI thread is
    uimsg,            \* the message it is posting
    ops,              \* commands given so far
    password,         \* edit_profile_password holds the profile's password
    passwordPanel,    \* the password panel replaces the settings panel
    global_shutdown,
    saveLockLeaked    \* save_file_write_lock was left locked

VARIABLES
    mem,              \* version of the profile in the Tox instance
    disk,             \* version in tox_save.tox
    encrypted         \* whether that file is encrypted

mailbox  == <<tox_thread_msg, tox_msg>>
iterVars == <<starting, iterating, do_tox_iterate>>
uiVars   == <<ui, uimsg, ops>>
saveVars == <<save_needed, saveLockLeaked, disk, encrypted>>
vars == <<tox, reconfig, tox_thread_init, mailbox, instance, alive, iterVars,
          uiVars, password, passwordPanel, global_shutdown, saveVars, mem>>

Init ==
    /\ tox = "init"
    /\ reconfig = TRUE
    /\ tox_thread_init = "NONE"
    /\ tox_thread_msg = FALSE
    /\ tox_msg = "TOX_SAVE"
    /\ save_needed = TRUE
    /\ instance = 0
    /\ alive = FALSE
    /\ starting = {}
    /\ iterating = {}
    /\ do_tox_iterate = FALSE
    /\ ui = "idle"
    /\ uimsg = "TOX_SAVE"
    /\ ops = 0
    /\ password = FALSE
    /\ passwordPanel = FALSE
    /\ global_shutdown = FALSE
    /\ saveLockLeaked = FALSE
    /\ mem = 1
    /\ disk = 1
    /\ encrypted \in {FALSE, UsesPassword}

\* main has returned and taken every thread with it.
Exited == ui = "gone"

-----------------------------------------------------------------------------
(* write_save and utox_data_save_tox *)

SkipSave ==
    /\ global_shutdown
    /\ save_needed' = FALSE
    /\ saveLockLeaked' = TRUE
    /\ UNCHANGED <<disk, encrypted>>

WriteFile ==
    /\ ~global_shutdown
    /\ disk' = mem
    /\ encrypted' = password
    /\ save_needed' = FALSE
    /\ UNCHANGED saveLockLeaked

\* fopen fails, or fwrite does after fopen has emptied the file
FailToWriteMutReportsSuccess ==
    /\ ~global_shutdown
    /\ DiskFails
    /\ \/ UNCHANGED <<disk, encrypted>>
       \/ disk' = NoProfile /\ encrypted' = FALSE
    /\ save_needed' = FALSE
    /\ UNCHANGED saveLockLeaked

FailToWrite ==
    /\ ~global_shutdown
    /\ DiskFails
    /\ \/ UNCHANGED <<disk, encrypted>>
       \/ disk' = NoProfile /\ encrypted' = FALSE
    /\ save_needed' = TRUE
    /\ UNCHANGED saveLockLeaked

WriteSave == ~saveLockLeaked /\ (SkipSave \/ WriteFile \/ FailToWrite)

-----------------------------------------------------------------------------
(* toxcore_thread *)

BeginInit ==
    /\ tox = "init"
    /\ reconfig' = FALSE
    /\ tox_thread_init' = "NONE"
    /\ saveLockLeaked' = FALSE
    /\ tox' = "load"
    /\ UNCHANGED <<mailbox, instance, alive, iterVars, uiVars, password,
                   passwordPanel, global_shutdown, save_needed, disk, encrypted, mem>>

\* load_toxcore_save cannot decrypt: init_toxcore returns -1
NeedPassword ==
    /\ tox = "load"
    /\ encrypted /\ ~password
    /\ passwordPanel' = TRUE
    /\ tox' = "await"
    /\ UNCHANGED <<reconfig, tox_thread_init, mailbox, instance, alive, iterVars,
                   uiVars, password, global_shutdown, saveVars, mem>>

DiscardAndRetry ==
    /\ tox = "await"
    /\ tox_thread_init' = "NONE"
    /\ tox_thread_msg' = FALSE
    /\ reconfig' = TRUE
    /\ tox' = "init"
    /\ UNCHANGED <<tox_msg, instance, alive, iterVars, uiVars, password,
                   passwordPanel, global_shutdown, saveVars, mem>>

\* tox_new returns NULL: init_toxcore returns -2
FailToStartMutStaysDown ==
    /\ tox = "load"
    /\ ~(encrypted /\ ~password)
    /\ ToxFails
    /\ passwordPanel' = FALSE
    /\ tox' = "error"
    /\ UNCHANGED <<reconfig, tox_thread_init, mailbox, instance, alive, iterVars,
                   uiVars, password, global_shutdown, saveVars, mem>>

FailToStart ==
    /\ tox = "load"
    /\ ~(encrypted /\ ~password)
    /\ ToxFails
    /\ tox_thread_init' = "ERROR"
    /\ passwordPanel' = FALSE
    /\ tox' = "error"
    /\ UNCHANGED <<reconfig, mailbox, instance, alive, iterVars, uiVars, password,
                   global_shutdown, saveVars, mem>>

ReadInErrorState ==
    /\ tox = "error"
    /\ tox_thread_msg
    /\ tox_thread_msg' = FALSE
    /\ \/ /\ tox_msg \in Kill
          /\ reconfig' = (tox_msg = "KILL_RECONFIG")
          /\ tox_thread_init' = "NONE"
          /\ tox' = IF reconfig' THEN "init" ELSE "error"
       \/ /\ tox_msg \notin Kill
          /\ UNCHANGED <<reconfig, tox_thread_init, tox>>
    /\ UNCHANGED <<tox_msg, instance, alive, iterVars, uiVars, password,
                   passwordPanel, global_shutdown, saveVars, mem>>

\* tox_new and tox_after_load
StartTox ==
    /\ tox = "load"
    /\ ~(encrypted /\ ~password)
    /\ instance' = instance + 1
    /\ alive' = TRUE
    /\ mem' = disk
    /\ passwordPanel' = FALSE
    /\ tox' = "attach"
    /\ UNCHANGED <<reconfig, tox_thread_init, mailbox, iterVars, uiVars, password,
                   global_shutdown, saveVars>>

GoOnline ==
    /\ tox = "attach"
    /\ tox_thread_init' = "SUCCESS"
    /\ starting' = IF HQAV THEN starting \cup {instance} ELSE starting
    /\ tox' = "loop"
    /\ UNCHANGED <<reconfig, mailbox, instance, alive, iterating, do_tox_iterate, uiVars,
                   password, passwordPanel, global_shutdown, saveVars, mem>>

\* Ten seconds have passed and a save is due, or a thousand have.
PeriodicSave ==
    /\ tox = "loop"
    /\ WriteSave
    /\ UNCHANGED <<tox, reconfig, tox_thread_init, mailbox, instance, alive,
                   iterVars, uiVars, password, passwordPanel, global_shutdown, mem>>

HandleCommand ==
    /\ tox = "loop"
    /\ tox_thread_msg
    /\ tox_msg \in Command
    /\ mem' = IF tox_msg = "TOX_SELF_SET_NAME" THEN mem + 1 ELSE mem
    /\ save_needed' = TRUE
    /\ tox_thread_msg' = FALSE
    /\ UNCHANGED <<tox, reconfig, tox_thread_init, tox_msg, instance, alive, iterVars,
                   uiVars, password, passwordPanel, global_shutdown, saveLockLeaked, disk, encrypted>>

\* TOX_KILL: the flag is lowered first, tox_thread_init after it.
TakeKill ==
    /\ tox = "loop"
    /\ tox_thread_msg
    /\ tox_msg \in Kill
    /\ Prompt => starting = {}
    /\ reconfig' = (tox_msg = "KILL_RECONFIG")
    /\ tox_thread_msg' = FALSE
    /\ tox' = "down"
    /\ UNCHANGED <<tox_thread_init, tox_msg, instance, alive, iterVars, uiVars,
                   password, passwordPanel, global_shutdown, saveVars, mem>>

GoOffline ==
    /\ tox = "down"
    /\ tox_thread_init' = "NONE"
    /\ tox' = "stop"
    /\ UNCHANGED <<reconfig, mailbox, instance, alive, iterVars, uiVars, password,
                   passwordPanel, global_shutdown, saveVars, mem>>

StopIteratingMutForgets ==
    /\ tox = "stop"
    /\ tox' = "save"
    /\ UNCHANGED <<reconfig, tox_thread_init, mailbox, instance, alive, iterVars,
                   uiVars, password, passwordPanel, global_shutdown, saveVars, mem>>

StopIterating ==
    /\ tox = "stop"
    /\ do_tox_iterate' = FALSE
    /\ tox' = "save"
    /\ UNCHANGED <<reconfig, tox_thread_init, mailbox, instance, alive, starting,
                   iterating, uiVars, password, passwordPanel, global_shutdown, saveVars, mem>>

FinalSaveMutAfterClearing ==
    /\ tox = "save"
    /\ password' = FALSE
    /\ ~saveLockLeaked
    /\ disk' = mem
    /\ encrypted' = password'
    /\ save_needed' = FALSE
    /\ tox' = "clear"
    /\ UNCHANGED <<reconfig, tox_thread_init, mailbox, instance, alive, iterVars,
                   uiVars, passwordPanel, global_shutdown, saveLockLeaked, mem>>

FinalSave ==
    /\ tox = "save"
    /\ WriteSave
    /\ tox' = "clear"
    /\ UNCHANGED <<reconfig, tox_thread_init, mailbox, instance, alive, iterVars,
                   uiVars, password, passwordPanel, global_shutdown, mem>>

ClearPassword ==
    /\ tox = "clear"
    /\ password' = FALSE
    /\ tox' = "avkill"
    /\ UNCHANGED <<reconfig, tox_thread_init, mailbox, instance, alive, iterVars,
                   uiVars, passwordPanel, global_shutdown, saveVars, mem>>

\* The bounded wait for utox_av_ctrl_thread, the sleep of 300 ms, tox_kill;
\* then round the outer loop, or the end of the thread.
KillToxMutLeaks ==
    /\ tox = "avkill"
    /\ Prompt => iterating = {} \/ do_tox_iterate
    /\ \/ reconfig /\ tox' = "init" /\ UNCHANGED tox_thread_init
       \/ ~reconfig /\ tox' = "end" /\ tox_thread_init' = "NONE"
    /\ UNCHANGED <<reconfig, mailbox, instance, alive, iterVars, uiVars, password,
                   passwordPanel, global_shutdown, saveVars, mem>>

KillTox ==
    /\ tox = "avkill"
    /\ Prompt => iterating = {} \/ do_tox_iterate
    /\ alive' = FALSE
    /\ \/ reconfig /\ tox' = "init" /\ UNCHANGED tox_thread_init
       \/ ~reconfig /\ tox' = "end" /\ tox_thread_init' = "NONE"
    /\ UNCHANGED <<reconfig, mailbox, instance, iterVars, uiVars, password,
                   passwordPanel, global_shutdown, saveVars, mem>>

ToxStep ==
    /\ ~Exited
    /\ \/ BeginInit \/ NeedPassword \/ DiscardAndRetry
       \/ FailToStart \/ ReadInErrorState \/ StartTox \/ GoOnline
       \/ PeriodicSave \/ HandleCommand
       \/ TakeKill \/ GoOffline \/ StopIterating \/ FinalSave \/ ClearPassword \/ KillTox

-----------------------------------------------------------------------------
(* toxcore_iter_thread *)

IterStart(i) ==
    /\ do_tox_iterate' = TRUE
    /\ starting' = starting \ {i}
    /\ iterating' = iterating \cup {i}

\* It calls tox_iterate on its instance, again and again while the flag is up.
IterStop(i) ==
    /\ ~do_tox_iterate
    /\ iterating' = iterating \ {i}
    /\ UNCHANGED <<starting, do_tox_iterate>>

IterStep ==
    /\ ~Exited
    /\ (\E i \in starting : IterStart(i)) \/ (\E i \in iterating : IterStop(i))
    /\ UNCHANGED <<tox, reconfig, tox_thread_init, mailbox, instance, alive, uiVars,
                   password, passwordPanel, global_shutdown, saveVars, mem>>

-----------------------------------------------------------------------------
(* The UI thread *)

toxSide == <<tox, reconfig, instance, alive, iterVars, saveVars, mem>>

BeginPost(m) ==
    /\ ui = "idle"
    /\ ops < MaxOps
    /\ ops' = ops + 1
    /\ uimsg' = m
    /\ ui' = "wait"

\* An ordinary command; tox_settingschanged; or leaving the main loop.
UserCommand ==
    /\ \E m \in Tag : BeginPost(m) /\ (m = "KILL_EXIT" \/ ~passwordPanel)
    /\ UNCHANGED <<toxSide, tox_thread_init, mailbox, password, passwordPanel, global_shutdown>>

\* The password box loses focus: edit_profile_password_update
TypePassword ==
    /\ UsesPassword
    /\ ui = "idle"
    /\ ~password
    /\ password' = TRUE
    /\ \/ tox_thread_init # "NONE" /\ BeginPost("TOX_SAVE")
       \/ tox_thread_init = "NONE" /\ UNCHANGED uiVars
    /\ UNCHANGED <<toxSide, tox_thread_init, mailbox, passwordPanel, global_shutdown>>

\* What the caller of postmessage_toxcore does next.
Posted == CASE uimsg = "KILL_RECONFIG" -> "spin"
            [] uimsg = "KILL_EXIT"     -> "quit"
            [] OTHER                   -> "idle"

LeaveWait ==
    /\ ui = "wait"
    /\ ~tox_thread_msg \/ GivesUp
    /\ ui' = IF tox_thread_init = "NONE" THEN Posted ELSE "write"
    /\ UNCHANGED <<toxSide, tox_thread_init, mailbox, uimsg, ops, password, passwordPanel, global_shutdown>>

WriteMessage ==
    /\ ui = "write"
    /\ tox_msg' = uimsg
    /\ tox_thread_msg' = TRUE
    /\ ui' = Posted
    /\ UNCHANGED <<toxSide, tox_thread_init, uimsg, ops, password, passwordPanel, global_shutdown>>

\* tox_settingschanged returns
LeaveSpin ==
    /\ ui = "spin"
    /\ tox_thread_init # "NONE"
    /\ ui' = "idle"
    /\ UNCHANGED <<toxSide, tox_thread_init, mailbox, uimsg, ops, password, passwordPanel, global_shutdown>>

\* The end of main: wait for the thread, then forbid further saves.
LeaveQuit ==
    /\ ui = "quit"
    /\ tox_thread_init = "NONE" \/ GivesUp
    /\ ~saveLockLeaked
    /\ global_shutdown' = TRUE
    /\ ui' = "leaving"
    /\ UNCHANGED <<toxSide, tox_thread_init, mailbox, uimsg, ops, password, passwordPanel>>

ReturnFromMain ==
    /\ ui = "leaving"
    /\ ui' = "gone"
    /\ UNCHANGED <<toxSide, tox_thread_init, mailbox, uimsg, ops, password, passwordPanel, global_shutdown>>

UIProceed == LeaveWait \/ WriteMessage \/ LeaveSpin \/ LeaveQuit \/ ReturnFromMain
UIStep == UserCommand \/ TypePassword \/ UIProceed

-----------------------------------------------------------------------------
Next == ToxStep \/ IterStep \/ UIStep

\* The threads run.  PeriodicSave leaves toxcore_thread in its loop, which
\* reads the mailbox every time round, so reading it has a fairness of its own.
Fairness ==
    /\ WF_vars(ToxStep)
    /\ WF_vars(ToxStep /\ (HandleCommand \/ TakeKill))
    /\ WF_vars(IterStep)
    /\ WF_vars(UIProceed)

Spec == Init /\ [][Next]_vars
FairSpec == Spec /\ Fairness

-----------------------------------------------------------------------------
ThreadTypes ==
    /\ tox \in {"init", "load", "await", "error", "attach", "loop", "down", "stop",
                "save", "clear", "avkill", "end"}
    /\ tox_thread_init \in {"NONE", "SUCCESS", "ERROR"}
    /\ tox_msg \in Tag
    /\ instance \in Nat
    /\ starting \in SUBSET Nat /\ iterating \in SUBSET Nat

UITypes ==
    /\ ui \in {"idle", "wait", "write", "spin", "quit", "leaving", "gone"}
    /\ uimsg \in Tag
    /\ ops \in 0..MaxOps
    /\ mem \in Nat /\ disk \in Nat

FlagTypes ==
    /\ reconfig \in BOOLEAN /\ tox_thread_msg \in BOOLEAN /\ save_needed \in BOOLEAN
    /\ alive \in BOOLEAN /\ do_tox_iterate \in BOOLEAN /\ password \in BOOLEAN
    /\ global_shutdown \in BOOLEAN /\ saveLockLeaked \in BOOLEAN
    /\ encrypted \in BOOLEAN /\ passwordPanel \in BOOLEAN

TypeOK == ThreadTypes /\ UITypes /\ FlagTypes

\* Whatever fails while saving, a change of the profile that tox_save.tox does
\* not have is marked by save_needed, so that a later round of the loop writes
\* it, until main forbids saves on its way out (global_shutdown).
UnsavedIsFlagged == alive /\ mem # disk => save_needed \/ global_shutdown

\* A profile saved under a password is never written back in clear text: the
\* password box is cleared only after the last save of an instance, and no
\* instance starts from an encrypted file without it.
StaysEncrypted == [][encrypted => encrypted' \/ disk' = NoProfile]_vars

\* tox_iterate never runs on a Tox instance that tox_kill has freed, when
\* threads are scheduled promptly (do_tox_iterate is a plain flag that the
\* iterating thread itself raises, and nobody joins that thread).
IteratesLiveTox ==
    \A i \in iterating : alive /\ i = instance

\* What the user relies on is kept: the instances of Tox that toxcore_thread
\* starts and kills are the openings and closings of a Profile, whose last save
\* is the one behind the loop (tox.c:731), with nothing in between that would
\* change it, and with the password still in its box.
Phase ==
    IF ~alive THEN "closed" ELSE IF tox \in {"clear", "avkill"} THEN "saved" ELSE "open"
User == INSTANCE Profile WITH
    phase <- Phase, profile <- mem, file <- disk, secret <- encrypted,
    quitting <- global_shutdown
ProfileSpec == User!PSpec

\* The one thing that can keep the UI in tox_settingschanged is a profile that
\* waits for its password (tox.c:632; the error state raises tox_thread_init
\* "because other code is waiting for it", tox.c:609); a Tox that cannot start,
\* a disk that cannot be written and a mailbox that overruns do not.
OnlyPasswordKeepsUI == ui = "spin" ~> ui # "spin" \/ (encrypted /\ ~password)

\* A settings change or a quit that reached the mailbox takes the running
\* instance down, unless the program ends first or a poster that has stopped
\* waiting writes another message over it.
KillIsObeyed ==
    tox = "loop" /\ tox_thread_msg /\ tox_msg \in Kill
      ~> \/ Exited \/ tox_msg \notin Kill
         \/ ~alive /\ tox \in {"init", "load", "end"}

\* The main function of xlib ends after it has waited "for tox_thread to exit"
\* (xlib/main.c:966), which on any exit is to "write the save" (tox.c:729):
\* no change of the profile is lost by quitting.
SavedBeforeExit == Exited => disk = mem
=============================================================================
