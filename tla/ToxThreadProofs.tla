-------------------------- MODULE ToxThreadProofs --------------------------
(***************************************************************************)
(* For any number of user commands: the types, that unsaved changes stay   *)
(* marked, that an encrypted profile stays encrypted, that tox_iterate     *)
(* never runs on a freed instance when threads are scheduled promptly, and *)
(* that toxcore_thread keeps a Profile.                                    *)
(***************************************************************************)
EXTENDS ToxThread, TLAPS

\* An instance that runs on an encrypted profile has its password.
HoldsPassword ==
    encrypted /\ tox \in {"attach", "loop", "down", "stop", "save"} => password

SaveInv == TypeOK /\ UnsavedIsFlagged /\ HoldsPassword

\* From GoOnline to KillTox there is an instance to iterate.
HasInstance == tox \in {"loop", "down", "stop", "save", "clear", "avkill"}

IterInv ==
    /\ HasInstance \/ tox = "attach" => alive
    /\ tox # "loop" => starting = {}
    /\ ~HasInstance => iterating = {}
    /\ tox \in {"save", "clear", "avkill"} => ~do_tox_iterate
    /\ \A i \in starting : i = instance
    /\ \A i \in iterating : i = instance

\* The actions of toxcore_thread, for the case splits below.
LEMMA ToxStepCases ==
    ASSUME ToxStep
    PROVE  \/ BeginInit \/ NeedPassword \/ DiscardAndRetry
           \/ FailToStart \/ ReadInErrorState \/ StartTox \/ GoOnline
           \/ PeriodicSave \/ HandleCommand
           \/ TakeKill \/ GoOffline \/ StopIterating \/ FinalSave
           \/ ClearPassword \/ KillTox
  BY DEF ToxStep

LEMMA SaveIsTag == "TOX_SAVE" \in Tag
  BY DEF Tag, Command

-----------------------------------------------------------------------------
\* The types are preserved, group by group.
LEMMA TypesInductive == TypeOK /\ [Next]_vars => TypeOK'
<1> SUFFICES ASSUME TypeOK, [Next]_vars PROVE TypeOK'
  OBVIOUS
<1> USE ToxThreadAssumption, SaveIsTag
    DEF TypeOK, mailbox, iterVars, uiVars, saveVars, toxSide
<1>1. CASE ToxStep
  <2>1. ThreadTypes'
    <3>1. CASE GoOnline
      <4>1. starting' \in SUBSET Nat
        BY <3>1 DEF ThreadTypes, GoOnline
      <4> QED
        BY <3>1, <4>1 DEF ThreadTypes, GoOnline
    <3>2. CASE BeginInit \/ NeedPassword \/ DiscardAndRetry
      BY <3>2 DEF ThreadTypes, BeginInit, NeedPassword, DiscardAndRetry
    <3>3. CASE FailToStart \/ ReadInErrorState
      BY <3>3 DEF ThreadTypes, FailToStart, ReadInErrorState
    <3>4. CASE StartTox
      BY <3>4 DEF ThreadTypes, StartTox
    <3>5. CASE PeriodicSave \/ HandleCommand
      BY <3>5 DEF ThreadTypes, PeriodicSave, HandleCommand,
         WriteSave, SkipSave, WriteFile, FailToWrite, NoProfile
    <3>6. CASE FinalSave
      BY <3>6 DEF ThreadTypes, FinalSave,
         WriteSave, SkipSave, WriteFile, FailToWrite, NoProfile
    <3>7. CASE TakeKill \/ GoOffline \/ StopIterating
      BY <3>7 DEF ThreadTypes, TakeKill, GoOffline, StopIterating
    <3>8. CASE ClearPassword \/ KillTox
      BY <3>8 DEF ThreadTypes, ClearPassword, KillTox
    <3> QED
      BY <1>1, <3>1, <3>2, <3>3, <3>4, <3>5, <3>6, <3>7, <3>8, ToxStepCases
  <2>2. UITypes'
    <3>1. CASE BeginInit \/ NeedPassword \/ DiscardAndRetry
      BY <3>1 DEF UITypes, BeginInit, NeedPassword, DiscardAndRetry
    <3>2. CASE FailToStart \/ ReadInErrorState
      BY <3>2 DEF UITypes, FailToStart, ReadInErrorState
    <3>3. CASE StartTox \/ GoOnline
      BY <3>3 DEF UITypes, StartTox, GoOnline
    <3>4. CASE PeriodicSave \/ HandleCommand
      BY <3>4 DEF UITypes, PeriodicSave, HandleCommand,
         WriteSave, SkipSave, WriteFile, FailToWrite, NoProfile
    <3>5. CASE FinalSave
      BY <3>5 DEF UITypes, FinalSave,
         WriteSave, SkipSave, WriteFile, FailToWrite, NoProfile
    <3>6. CASE TakeKill \/ GoOffline \/ StopIterating
      BY <3>6 DEF UITypes, TakeKill, GoOffline, StopIterating
    <3>7. CASE ClearPassword \/ KillTox
      BY <3>7 DEF UITypes, ClearPassword, KillTox
    <3> QED
      BY <1>1, <3>1, <3>2, <3>3, <3>4, <3>5, <3>6, <3>7, ToxStepCases
  <2>3. FlagTypes'
    <3>1. CASE BeginInit
      BY <3>1 DEF FlagTypes, BeginInit
    <3>2. CASE NeedPassword
      BY <3>2 DEF FlagTypes, NeedPassword
    <3>3. CASE DiscardAndRetry
      BY <3>3 DEF FlagTypes, DiscardAndRetry
    <3>4. CASE FailToStart
      BY <3>4 DEF FlagTypes, FailToStart
    <3>5. CASE ReadInErrorState
      BY <3>5 DEF FlagTypes, ReadInErrorState
    <3>6. CASE StartTox
      BY <3>6 DEF FlagTypes, StartTox
    <3>7. CASE GoOnline
      BY <3>7 DEF FlagTypes, GoOnline
    <3>8. CASE PeriodicSave
      BY <3>8 DEF FlagTypes, PeriodicSave,
         WriteSave, SkipSave, WriteFile, FailToWrite, NoProfile
    <3>9. CASE HandleCommand
      BY <3>9 DEF FlagTypes, HandleCommand
    <3>10. CASE FinalSave
      BY <3>10 DEF FlagTypes, FinalSave,
         WriteSave, SkipSave, WriteFile, FailToWrite, NoProfile
    <3>11. CASE TakeKill
      BY <3>11 DEF FlagTypes, TakeKill
    <3>12. CASE GoOffline
      BY <3>12 DEF FlagTypes, GoOffline
    <3>13. CASE StopIterating
      BY <3>13 DEF FlagTypes, StopIterating
    <3>14. CASE ClearPassword
      BY <3>14 DEF FlagTypes, ClearPassword
    <3>15. CASE KillTox
      BY <3>15 DEF FlagTypes, KillTox
    <3> QED
      BY <1>1, <3>1, <3>2, <3>3, <3>4, <3>5, <3>6, <3>7, <3>8,
         <3>9, <3>10, <3>11, <3>12, <3>13, <3>14, <3>15, ToxStepCases
  <2> QED
    BY <2>1, <2>2, <2>3
<1>2. CASE IterStep
  <2>1. ThreadTypes'
    BY <1>2 DEF ThreadTypes, IterStep, IterStart, IterStop
  <2>2. UITypes'
    BY <1>2 DEF UITypes, IterStep, IterStart, IterStop
  <2>3. FlagTypes'
    BY <1>2 DEF FlagTypes, IterStep, IterStart, IterStop
  <2> QED
    BY <2>1, <2>2, <2>3
<1>3. CASE UIStep
  <2>1. ThreadTypes'
    <3>1. CASE UserCommand
      BY <3>1 DEF ThreadTypes, UserCommand, BeginPost, Posted
    <3>2. CASE TypePassword
      BY <3>2 DEF ThreadTypes, TypePassword, BeginPost
    <3>3. CASE LeaveWait \/ LeaveSpin
      BY <3>3 DEF ThreadTypes, LeaveWait, LeaveSpin, Posted
    <3>4. CASE WriteMessage
      BY <3>4 DEF ThreadTypes, WriteMessage, Posted, UITypes
    <3>5. CASE LeaveQuit
      BY <3>5 DEF ThreadTypes, LeaveQuit
    <3>6. CASE ReturnFromMain
      BY <3>6 DEF ThreadTypes, ReturnFromMain
    <3> QED
      BY <1>3, <3>1, <3>2, <3>3, <3>4, <3>5, <3>6 DEF UIStep, UIProceed
  <2>2. UITypes'
    <3>1. CASE UserCommand
      BY <3>1 DEF UITypes, UserCommand, BeginPost, Posted
    <3>2. CASE TypePassword
      BY <3>2 DEF UITypes, TypePassword, BeginPost
    <3>3. CASE LeaveWait \/ LeaveSpin
      BY <3>3 DEF UITypes, LeaveWait, LeaveSpin, Posted
    <3>4. CASE WriteMessage
      BY <3>4 DEF UITypes, WriteMessage, Posted
    <3>5. CASE LeaveQuit
      BY <3>5 DEF UITypes, LeaveQuit
    <3>6. CASE ReturnFromMain
      BY <3>6 DEF UITypes, ReturnFromMain
    <3> QED
      BY <1>3, <3>1, <3>2, <3>3, <3>4, <3>5, <3>6 DEF UIStep, UIProceed
  <2>3. FlagTypes'
    <3>1. CASE UserCommand
      BY <3>1 DEF FlagTypes, UserCommand, BeginPost, Posted
    <3>2. CASE TypePassword
      BY <3>2 DEF FlagTypes, TypePassword, BeginPost
    <3>3. CASE LeaveWait
      BY <3>3 DEF FlagTypes, LeaveWait
    <3>4. CASE LeaveSpin
      BY <3>4 DEF FlagTypes, LeaveSpin
    <3>5. CASE WriteMessage
      BY <3>5 DEF FlagTypes, WriteMessage
    <3>6. CASE LeaveQuit
      BY <3>6 DEF FlagTypes, LeaveQuit
    <3>7. CASE ReturnFromMain
      BY <3>7 DEF FlagTypes, ReturnFromMain
    <3> QED
      BY <1>3, <3>1, <3>2, <3>3, <3>4, <3>5, <3>6, <3>7 DEF UIStep, UIProceed
  <2> QED
    BY <2>1, <2>2, <2>3
<1>4. CASE UNCHANGED vars
  BY <1>4 DEF vars, ThreadTypes, UITypes, FlagTypes
<1> QED
  BY <1>1, <1>2, <1>3, <1>4 DEF Next

\* The marking of unsaved changes and the password of a running instance are
\* preserved together with the types.
LEMMA SaveInvInductive == SaveInv /\ [Next]_vars => SaveInv'
<1> SUFFICES ASSUME SaveInv, [Next]_vars PROVE SaveInv'
  OBVIOUS
<1> USE DEF UnsavedIsFlagged, HoldsPassword, NoProfile, mailbox, iterVars, uiVars,
        saveVars, toxSide
<1>1. TypeOK'
  BY TypesInductive DEF SaveInv
<1>2. UnsavedIsFlagged' /\ HoldsPassword'
  <2> USE DEF SaveInv
  <2>1. CASE PeriodicSave
    BY <2>1 DEF PeriodicSave, WriteSave, SkipSave, WriteFile, FailToWrite
  <2>2. CASE FinalSave
    BY <2>2 DEF FinalSave, WriteSave, SkipSave, WriteFile, FailToWrite
  <2>3. CASE HandleCommand
    BY <2>3 DEF HandleCommand
  <2>4. CASE StartTox \/ GoOnline
    BY <2>4 DEF StartTox, GoOnline
  <2>5. CASE BeginInit \/ NeedPassword \/ DiscardAndRetry \/ FailToStart
             \/ ReadInErrorState
    BY <2>5 DEF BeginInit, NeedPassword, DiscardAndRetry, FailToStart, ReadInErrorState
  <2>6. CASE TakeKill \/ GoOffline \/ StopIterating \/ ClearPassword \/ KillTox
    BY <2>6 DEF TakeKill, GoOffline, StopIterating, ClearPassword, KillTox
  <2>7. CASE IterStep
    BY <2>7 DEF IterStep
  <2>8. CASE UIStep
    BY <2>8 DEF UIStep, UIProceed, UserCommand, TypePassword, LeaveWait, WriteMessage,
       LeaveSpin, LeaveQuit, ReturnFromMain
  <2>9. CASE UNCHANGED vars
    BY <2>9 DEF vars
  <2> QED
    BY <2>1, <2>2, <2>3, <2>4, <2>5, <2>6, <2>7, <2>8, <2>9, ToxStepCases DEF Next
<1> QED
  BY <1>1, <1>2 DEF SaveInv

LEMMA SaveInvHolds == Spec => []SaveInv
<1>1. Init => SaveInv
  <2> SUFFICES ASSUME Init PROVE SaveInv
    OBVIOUS
  <2>1. ThreadTypes /\ UITypes
    BY ToxThreadAssumption, SaveIsTag DEF Init, ThreadTypes, UITypes
  <2>2. FlagTypes /\ UnsavedIsFlagged /\ HoldsPassword
    BY ToxThreadAssumption DEF Init, FlagTypes, UnsavedIsFlagged, HoldsPassword
  <2> QED
    BY <2>1, <2>2 DEF SaveInv, TypeOK
<1>2. QED
  BY <1>1, SaveInvInductive, PTL DEF Spec

\* Every variable keeps its type, for any number of commands.
THEOREM TypeCorrect == Spec => []TypeOK
  BY SaveInvHolds, PTL DEF SaveInv

\* UnsavedIsFlagged, for any number of commands and failures.
THEOREM UnsavedFlagged == Spec => []UnsavedIsFlagged
  BY SaveInvHolds, PTL DEF SaveInv

\* StaysEncrypted, for any number of commands, restarts and failures: the file
\* is written only in the loop and at its end, where HoldsPassword applies.
THEOREM EncryptedForGood == Spec => StaysEncrypted
<1>1. SaveInv /\ [Next]_vars => [encrypted => encrypted' \/ disk' = NoProfile]_vars
  <2> SUFFICES ASSUME SaveInv, Next, encrypted PROVE encrypted' \/ disk' = NoProfile
    OBVIOUS
  <2>1. CASE PeriodicSave \/ FinalSave
    BY <2>1 DEF PeriodicSave, FinalSave, WriteSave, SkipSave, WriteFile, FailToWrite,
       SaveInv, HoldsPassword, saveVars
  <2>2. CASE ~(PeriodicSave \/ FinalSave)
    BY <2>2 DEF Next, ToxStep, BeginInit, NeedPassword, DiscardAndRetry, FailToStart,
       ReadInErrorState, StartTox, GoOnline, HandleCommand, TakeKill, GoOffline,
       StopIterating, ClearPassword, KillTox, IterStep, UIStep, UIProceed, UserCommand,
       TypePassword, LeaveWait, WriteMessage, LeaveSpin, LeaveQuit, ReturnFromMain,
       toxSide, saveVars
  <2> QED
    BY <2>1, <2>2
<1>2. QED
  BY <1>1, SaveInvHolds, PTL DEF Spec, StaysEncrypted

-----------------------------------------------------------------------------
\* IteratesLiveTox, for any number of restarts, when threads are scheduled
\* promptly: do_tox_iterate is down from StopIterating on and no thread is
\* left that could raise it, so the loop of the old instance ends before
\* tox_kill and none of it reaches the next instance.
THEOREM NeverIteratesFreedTox == ASSUME Prompt PROVE Spec => []IteratesLiveTox
<1> USE DEF IterInv, HasInstance, mailbox, iterVars, uiVars, saveVars, toxSide
<1>1. Init => IterInv
  BY DEF Init
<1>2. IterInv /\ [Next]_vars => IterInv'
  <2> SUFFICES ASSUME IterInv, [Next]_vars PROVE IterInv'
    OBVIOUS
  <2>1. CASE ToxStep
    <3>1. CASE StartTox
      BY <3>1 DEF StartTox
    <3>2. CASE GoOnline
      BY <3>2 DEF GoOnline
    <3>3. CASE TakeKill \/ StopIterating \/ KillTox
      BY <3>3 DEF TakeKill, StopIterating, KillTox
    <3>4. CASE BeginInit \/ NeedPassword \/ DiscardAndRetry \/ FailToStart
               \/ ReadInErrorState
      BY <3>4 DEF BeginInit, NeedPassword, DiscardAndRetry, FailToStart, ReadInErrorState
    <3>5. CASE PeriodicSave \/ HandleCommand \/ GoOffline \/ FinalSave \/ ClearPassword
      BY <3>5 DEF PeriodicSave, HandleCommand, GoOffline, FinalSave, ClearPassword
    <3> QED
      BY <2>1, <3>1, <3>2, <3>3, <3>4, <3>5, ToxStepCases
  <2>2. CASE IterStep
    BY <2>2 DEF IterStep, IterStart, IterStop
  <2>3. CASE UIStep
    BY <2>3 DEF UIStep, UIProceed, UserCommand, TypePassword, LeaveWait, WriteMessage,
       LeaveSpin, LeaveQuit, ReturnFromMain
  <2>4. CASE UNCHANGED vars
    BY <2>4 DEF vars
  <2> QED
    BY <2>1, <2>2, <2>3, <2>4 DEF Next
<1>3. IterInv => IteratesLiveTox
  BY DEF IteratesLiveTox
<1>4. QED
  BY <1>1, <1>2, <1>3, PTL DEF Spec
-----------------------------------------------------------------------------
\* toxcore_thread has an instance from tox_new to tox_kill.
AliveByPlace == alive = (tox = "attach" \/ HasInstance)

LEMMA AliveInductive == AliveByPlace /\ [Next]_vars => AliveByPlace'
<1> SUFFICES ASSUME AliveByPlace, [Next]_vars PROVE AliveByPlace'
  OBVIOUS
<1> USE DEF AliveByPlace, HasInstance, mailbox, iterVars, uiVars, saveVars, toxSide
<1>1. CASE ToxStep
  <2>1. CASE StartTox \/ GoOnline
    BY <2>1 DEF StartTox, GoOnline
  <2>2. CASE TakeKill \/ GoOffline \/ StopIterating
    BY <2>2 DEF TakeKill, GoOffline, StopIterating
  <2>3. CASE FinalSave \/ ClearPassword \/ KillTox
    BY <2>3 DEF FinalSave, ClearPassword, KillTox
  <2>4. CASE BeginInit \/ NeedPassword \/ DiscardAndRetry
    BY <2>4 DEF BeginInit, NeedPassword, DiscardAndRetry
  <2>5. CASE FailToStart \/ ReadInErrorState
    BY <2>5 DEF FailToStart, ReadInErrorState
  <2>6. CASE PeriodicSave \/ HandleCommand
    BY <2>6 DEF PeriodicSave, HandleCommand
  <2> QED
    BY <1>1, <2>1, <2>2, <2>3, <2>4, <2>5, <2>6, ToxStepCases
<1>2. CASE IterStep
  BY <1>2 DEF IterStep
<1>3. CASE UIStep
  BY <1>3 DEF UIStep, UIProceed, UserCommand, TypePassword, LeaveWait, WriteMessage,
     LeaveSpin, LeaveQuit, ReturnFromMain
<1>4. CASE UNCHANGED vars
  BY <1>4 DEF vars
<1> QED
  BY <1>1, <1>2, <1>3, <1>4 DEF Next

\* The save behind the loop is the last attempt of the profile's life, one within
\* the loop leaves it open.
LEMMA AttemptMaps ==
    ASSUME TypeOK, WriteSave, encrypted => password, UNCHANGED <<mem, global_shutdown>>,
           Phase = "open", Phase' \in {"open", "saved"}
    PROVE  User!Save \/ User!FailToSave \/ User!SkipSave
<1>1. User!Attempt
  BY DEF User!Attempt
<1>2. CASE SkipSave
  BY <1>1, <1>2 DEF SkipSave, User!SkipSave
<1>3. CASE WriteFile
  BY <1>1, <1>3 DEF WriteFile, TypeOK, FlagTypes, User!Save
<1>4. CASE FailToWrite
  BY <1>1, <1>4 DEF FailToWrite, User!FailToSave
<1> QED
  BY <1>2, <1>3, <1>4 DEF WriteSave

\* The program keeps the profile as its user relies on: each step of the
\* threads is one in the life of the Profile, or none.
THEOREM ThreadKeepsProfile == Spec => ProfileSpec
<1>1. Init => AliveByPlace
  BY DEF Init, AliveByPlace, HasInstance
<1>2. Init => User!PInit
  <2> SUFFICES ASSUME Init PROVE User!PInit
    OBVIOUS
  <2>1. Phase = "closed" /\ mem = disk /\ disk \in Nat /\ global_shutdown = FALSE
    BY DEF Init, Phase
  <2>2. encrypted \in BOOLEAN
    BY ToxThreadAssumption DEF Init
  <2> QED
    BY <2>1, <2>2 DEF User!PInit
<1>3. SaveInv /\ AliveByPlace /\ [Next]_vars => [User!PNext]_(User!pvars)
  <2> SUFFICES ASSUME SaveInv, AliveByPlace, [Next]_vars
               PROVE  User!PNext \/ UNCHANGED User!pvars
    OBVIOUS
  <2>0. TypeOK /\ HoldsPassword
    BY DEF SaveInv
  <2> USE DEF AliveByPlace, HasInstance, Phase
  <2>1. CASE StartTox
    BY <2>1 DEF StartTox, saveVars, User!PNext, User!Open
  <2>2. CASE HandleCommand
    <3>1. Phase = "open" /\ UNCHANGED <<Phase, disk, encrypted, global_shutdown>>
      BY <2>2 DEF HandleCommand
    <3>2. mem' = mem + 1 \/ mem' = mem
      BY <2>2 DEF HandleCommand
    <3> QED
      BY <3>1, <3>2 DEF User!PNext, User!Change, User!pvars
  <2>3. CASE PeriodicSave \/ FinalSave
    <3>1. Phase = "open" /\ Phase' \in {"open", "saved"}
      BY <2>3 DEF PeriodicSave, FinalSave
    <3>2. WriteSave /\ UNCHANGED <<mem, global_shutdown>>
      BY <2>3 DEF PeriodicSave, FinalSave
    <3>3. encrypted => password
      BY <2>0, <2>3 DEF PeriodicSave, FinalSave, HoldsPassword
    <3> QED
      BY <2>0, <3>1, <3>2, <3>3, AttemptMaps DEF User!PNext
  <2>4. CASE KillTox
    BY <2>4 DEF KillTox, saveVars, User!PNext, User!Close
  <2>5. CASE LeaveQuit
    BY <2>5 DEF LeaveQuit, toxSide, saveVars, User!PNext, User!Quit
  <2>6. CASE BeginInit \/ NeedPassword \/ DiscardAndRetry \/ FailToStart
             \/ ReadInErrorState
    <3>1. UNCHANGED <<alive, mem, disk, encrypted, global_shutdown>>
      BY <2>6 DEF BeginInit, NeedPassword, DiscardAndRetry, FailToStart, ReadInErrorState,
         saveVars
    <3>2. ~alive
      BY <2>6 DEF BeginInit, NeedPassword, DiscardAndRetry, FailToStart, ReadInErrorState
    <3> QED
      BY <3>1, <3>2 DEF User!pvars
  <2>7. CASE GoOnline \/ TakeKill \/ GoOffline \/ StopIterating \/ ClearPassword
    <3>1. UNCHANGED <<alive, mem, disk, encrypted, global_shutdown>>
      BY <2>7 DEF GoOnline, TakeKill, GoOffline, StopIterating, ClearPassword, saveVars
    <3>2. (tox \in {"clear", "avkill"}) = (tox' \in {"clear", "avkill"})
      BY <2>7 DEF GoOnline, TakeKill, GoOffline, StopIterating, ClearPassword
    <3> QED
      BY <3>1, <3>2 DEF User!pvars
  <2>8. CASE IterStep \/ (UIStep /\ ~LeaveQuit) \/ UNCHANGED vars
    <3>1. UNCHANGED <<tox, alive, mem, disk, encrypted, global_shutdown>>
      <4>1. CASE IterStep
        BY <4>1 DEF IterStep, saveVars
      <4>2. CASE UIStep /\ ~LeaveQuit
        BY <4>2 DEF UIStep, UIProceed, UserCommand, TypePassword, LeaveWait, WriteMessage,
           LeaveSpin, ReturnFromMain, toxSide, saveVars
      <4>3. CASE UNCHANGED vars
        BY <4>3 DEF vars, saveVars
      <4> QED
        BY <2>8, <4>1, <4>2, <4>3
    <3> QED
      BY <3>1 DEF User!pvars
  <2> QED
    BY <2>1, <2>2, <2>3, <2>4, <2>5, <2>6, <2>7, <2>8, ToxStepCases DEF Next
<1> QED
  BY <1>1, <1>2, <1>3, AliveInductive, SaveInvHolds, PTL DEF Spec, ProfileSpec, User!PSpec
=============================================================================
