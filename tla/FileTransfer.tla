---------------------------- MODULE FileTransfer ----------------------------
(***************************************************************************)
(* The file transfers with friend number 0: the slots of ft_incoming and   *)
(* ft_outgoing and their counters, the controls of both sides, completion  *)
(* with the toxcore thread waiting for the UI (decon_wait), the resume     *)
(* files on disk, and what happens when the friend goes offline and comes  *)
(* back, when Tox restarts and when the program dies.                      *)
(*                                                                         *)
(* The build without UTOX_USAGE__HQAV_APPLICATION: tox_iterate runs in     *)
(* toxcore_thread, so a handler runs whole except where ft_decon waits.    *)
(* toxcore's own file pipes (core) are external.                           *)
(*                                                                         *)
(* A slot that is not in use is zeroed and so names friend 0 and file 0:   *)
(* ft_decon, told to free what such a slot names, frees the first outgoing *)
(* transfer of friend 0.  That is why this friend is the one modelled.     *)
(***************************************************************************)
EXTENDS Integers, SequencesExt

CONSTANTS OutFile,       \* files the user sends, each once
          InFile,        \* files the friend offers, known by their hash
          LastNumber,    \* bound: largest file number toxcore gives out
          MaxTransfers,  \* MAX_FILE_TRANSFERS
          MaxIncoming,   \* MAX_INCOMING_COUNT
          Extras,        \* whether avatars and inline images are sent too
          MaxQueue,      \* bound: messages waiting for the UI
          UIPrompt,      \* the UI has handled FRIEND_ONLINE before the
                         \* connection changes again
          Others,        \* whether other friends go offline meanwhile
          Reconfigures,  \* whether the user changes settings (tox_settingschanged)
          Crashes,       \* whether the program may die and be started again
          NoFile

ASSUME FileTransferAssumption ==
    /\ LastNumber \in Nat /\ MaxIncoming \in Nat
    /\ MaxQueue \in Nat \ {0} /\ MaxTransfers \in 1..LastNumber + 1
    /\ OutFile \cap InFile = {} /\ NoFile \notin OutFile \cup InFile
    /\ {Extras, Others, UIPrompt, Reconfigures, Crashes} \subseteq BOOLEAN

Dir == {"out", "in"}
Number == 0..LastNumber
Status == {"NONE", "ACTIVE", "PAUSED_US", "PAUSED_BOTH", "PAUSED_THEM", "BROKEN",
           "COMPLETED", "KILLED"}

\* What is kept of a FILE_TRANSFER.  resume_file is "linked" while the open
\* file is the one its name finds on disk, and "unlinked" once that is deleted.
Slot == [in_use : BOOLEAN, file : OutFile \cup InFile \cup {NoFile},
         kind : {"file", "avatar", "memory"}, status : Status, resumeable : BOOLEAN,
         resume_file : {"NULL", "linked", "unlinked"},
         path : BOOLEAN, via_file : BOOLEAN, decon_wait : BOOLEAN]

Zeroed == [in_use |-> FALSE, file |-> NoFile, kind |-> "file", status |-> "NONE",
           resumeable |-> FALSE, resume_file |-> "NULL", path |-> FALSE,
           via_file |-> FALSE, decon_wait |-> FALSE]

\* A .ftinfo or .ftoutfo file: the FILE_TRANSFER written to it, and whether it
\* has the path of the file that is sent or written.
Record == [file : OutFile \cup InFile \cup {NoFile}, resumeable : BOOLEAN,
           path : BOOLEAN, status : Status]
NoRecord == [file |-> NoFile, resumeable |-> FALSE, path |-> FALSE, status |-> "NONE"]

\* toxcore's pipe for a file number, and who has paused it.
Pipe == [state : {"none", "offered", "open"}, us : BOOLEAN, them : BOOLEAN]
NoPipe == [state |-> "none", us |-> FALSE, them |-> FALSE]
Offered == [NoPipe EXCEPT !.state = "offered"]

\* A slot's place, and the place a zeroed slot names.
Place == [dir : Dir, number : Number]
Stray == [dir |-> "out", number |-> 0]

Request == [tag : {"none", "TOX_FILE_ACCEPT", "TOX_FILE_RESUME", "TOX_FILE_PAUSE",
                   "TOX_FILE_CANCEL"}, dir : Dir, number : Number]
NoRequest == [tag |-> "none", dir |-> "out", number |-> 0]

Message == [tag : {"FRIEND_ONLINE"}, status : BOOLEAN]
             \cup [tag : {"FILE_STATUS_UPDATE_DATA"}, dir : Dir, number : Number]

VARIABLES
    ft,         \* ft_outgoing and ft_incoming
    size,       \* ft_outgoing_size and ft_incoming_size
    active,     \* ft_outgoing_active_count and ft_incoming_active_count
    online,     \* f->online, which the UI thread sets
    disk,       \* resume files: .ftoutfo by file number, .ftinfo by hash
    thread,     \* toxcore_thread: free, in ft_decon, or in ft_friend_online
    request,    \* the UI's last message to toxcore_thread
    uiq,        \* messages to the UI that matter here
    ui,         \* the UI thread: its loop, or tox_settingschanged
    rows,       \* rows of the message list that a click acts on
    connected,  \* toxcore sees the friend
    core        \* toxcore's pipes

\* History
VARIABLES
    sent,         \* OutFile the user has sent
    finished,     \* OutFile done with: completed or cancelled
    interrupted,  \* OutFile broken off by the friend going offline
    accepted      \* InFile held when a TOX_FILE_ACCEPT was handled

friendVars == <<ft, size, active>>
uiVars     == <<online, request, uiq, ui, rows>>
coreVars   == <<connected, core>>
history    == <<sent, finished, interrupted, accepted>>
vars == <<friendVars, uiVars, disk, thread, coreVars, history>>

AllFree == [d \in Dir |-> [n \in Number |-> NoPipe]]
Idle == [at |-> "free", dir |-> "out", number |-> 0]

Init ==
    /\ ft = [d \in Dir |-> [n \in Number |-> Zeroed]]
    /\ size = [d \in Dir |-> 0]
    /\ active = [d \in Dir |-> 0]
    /\ online = FALSE
    /\ disk = [out |-> [n \in Number |-> NoRecord], in |-> [f \in InFile |-> NoRecord]]
    /\ thread = Idle
    /\ request = NoRequest
    /\ uiq = <<>>
    /\ ui = "loop"
    /\ rows = {}
    /\ connected = FALSE
    /\ core = AllFree
    /\ sent = {} /\ finished = {} /\ interrupted = {} /\ accepted = {}

\* toxcore_thread is between two handlers.
Free == thread.at = "free"

-----------------------------------------------------------------------------
(* The resume files *)

Name(d, n, s) == IF d = "out" THEN n ELSE s.file
Written(s) ==
    [file |-> s.file, resumeable |-> s.resumeable, path |-> s.path, status |-> s.status]

\* ft_init_resumable writes the struct before resumeable is set in it.
Created(dk, d, n, s) == [dk EXCEPT ![d][Name(d, n, s)] = Written(s)]
InitResumable(s) == [s EXCEPT !.resumeable = TRUE, !.resume_file = "linked"]

\* ft_update_resumable
Updated(dk, d, n, s) ==
    IF s.resume_file = "linked" THEN [dk EXCEPT ![d][Name(d, n, s)] = Written(s)] ELSE dk

\* ft_decon_resumable, of a resumeable transfer
Removed(dk, d, n, s) ==
    IF s.resumeable THEN [dk EXCEPT ![d][Name(d, n, s)] = NoRecord] ELSE dk

-----------------------------------------------------------------------------
(* The status changes *)

\* run_file_local; "free" incoming slots never reach ft_init_resumable there
RunLocal(status) ==
    CASE status \in {"NONE", "PAUSED_US"} -> "ACTIVE"
      [] status = "PAUSED_BOTH"           -> "PAUSED_THEM"
      [] OTHER                            -> status

RunRemote(status) ==
    CASE status = "PAUSED_BOTH"              -> "PAUSED_US"
      [] status \in {"PAUSED_THEM", "BROKEN"} -> "ACTIVE"
      [] OTHER                               -> status

PauseLocal(status, incoming) ==
    CASE status = "NONE"        -> IF incoming THEN "NONE" ELSE "PAUSED_THEM"
      [] status = "ACTIVE"      -> "PAUSED_US"
      [] status = "PAUSED_THEM" -> "PAUSED_BOTH"
      [] OTHER                  -> status

PauseRemote(status, incoming) ==
    CASE status = "NONE"      -> IF incoming THEN "NONE" ELSE "PAUSED_THEM"
      [] status = "ACTIVE"    -> "PAUSED_THEM"
      [] status = "PAUSED_US" -> "PAUSED_BOTH"
      [] OTHER                -> status

\* tox_file_control: what toxcore makes of our RESUME and PAUSE
PipeResumed(d, p) ==
    IF p.state = "open" \/ (d = "in" /\ p.state = "offered")
    THEN [p EXCEPT !.state = "open", !.us = FALSE] ELSE p
PipePaused(p) == IF p.state = "open" THEN [p EXCEPT !.us = TRUE] ELSE p

Running(d, n) == core[d][n].state = "open" /\ ~core[d][n].us /\ ~core[d][n].them

-----------------------------------------------------------------------------
(* Ending a transfer: kill_file and ft_decon *)

Ended(d, n) == IF d = "out" /\ ft[d][n].in_use THEN {ft[d][n].file} \ {NoFile} ELSE {}

\* The slot that ft_decon finds under a slot's own numbers.
Named(d, n) == IF ft[d][n].in_use THEN [dir |-> d, number |-> n] ELSE Stray

UncountedMutNotInUse(places) ==
    [d \in Dir |-> active[d] - Cardinality({p \in places : p.dir = d})]

Uncounted(places) ==
    [d \in Dir |-> active[d] - Cardinality({p \in places : p.dir = d /\ ft[d][p.number].in_use})]

DeconMutStillCounted(p) ==
    /\ active' = active
    /\ ft' = [ft EXCEPT ![p.dir][p.number] = Zeroed]
    /\ UNCHANGED size

Decon(p) ==
    /\ active' = Uncounted({p})
    /\ ft' = [ft EXCEPT ![p.dir][p.number] = Zeroed]
    /\ UNCHANGED size

\* A bug: the slot is not given back.
KillMutNotFreed(d, n) ==
    /\ ft' = [ft EXCEPT ![d][n].status = "KILLED"]
    /\ disk' = Removed(disk, d, n, ft[d][n])
    /\ finished' = finished \cup Ended(d, n)
    /\ interrupted' = interrupted \ Ended(d, n)
    /\ UNCHANGED <<size, active, sent, accepted>>

\* kill_file, of a slot that is not killed yet
Kill(d, n) ==
    /\ active' = Uncounted({Named(d, n)})
    /\ ft' = [ft EXCEPT ![d][n].status = "KILLED",
                        ![Named(d, n).dir][Named(d, n).number] = Zeroed]
    /\ disk' = Removed(disk, d, n, ft[d][n])
    /\ finished' = finished \cup Ended(d, n)
    /\ interrupted' = interrupted \ Ended(d, n)
    /\ UNCHANGED <<size, sent, accepted>>

-----------------------------------------------------------------------------
(* ft_local_control *)

LocalResume(d, n) ==
    /\ core' = [core EXCEPT ![d][n] =
                  IF ft[d][n].status # "ACTIVE" /\ size["out"] < MaxTransfers
                  THEN PipeResumed(d, @) ELSE @]
    /\ ft' = [ft EXCEPT ![d][n].status = RunLocal(@)]
    /\ UNCHANGED <<size, active, disk, history>>

LocalPause(d, n) ==
    /\ core' = [core EXCEPT ![d][n] =
                  IF ft[d][n].status \notin {"PAUSED_US", "PAUSED_BOTH"}
                  THEN PipePaused(@) ELSE @]
    /\ ft' = [ft EXCEPT ![d][n].status = PauseLocal(@, d = "in" /\ ft[d][n].in_use)]
    /\ UNCHANGED <<size, active, disk, history>>

LocalCancel(d, n) ==
    \/ /\ ft[d][n].status # "KILLED"
       /\ core' = [core EXCEPT ![d][n] = NoPipe]
       /\ Kill(d, n)
    \/ /\ ft[d][n].status = "KILLED"
       /\ UNCHANGED <<friendVars, disk, core, history>>

-----------------------------------------------------------------------------
(* The user's commands, handled by tox_thread_message *)

\* The file number is read from the slot the row points to when the message
\* is handled: a zeroed slot says 0, which is an outgoing file.
Target == Named(request.dir, request.number)

\* get_file_transfer
Known(d, n) == size[d] > 0 /\ size[d] >= n

Control ==
    /\ Free
    /\ request.tag \in {"TOX_FILE_RESUME", "TOX_FILE_PAUSE", "TOX_FILE_CANCEL"}
    /\ LET d == Target.dir
           n == Target.number
       IN \/ Known(d, n) /\ request.tag = "TOX_FILE_RESUME" /\ LocalResume(d, n)
          \/ Known(d, n) /\ request.tag = "TOX_FILE_PAUSE" /\ LocalPause(d, n)
          \/ Known(d, n) /\ request.tag = "TOX_FILE_CANCEL" /\ LocalCancel(d, n)
          \/ ~Known(d, n) /\ UNCHANGED <<friendVars, disk, core, history>>
    /\ request' = NoRequest
    /\ UNCHANGED <<online, uiq, ui, rows, thread, connected>>

\* utox_file_start_write opens the file to write, and ft_local_control resumes.
Opened(s, d) == [s EXCEPT !.path = TRUE, !.via_file = TRUE,
                          !.file = IF d = "out" THEN NoFile ELSE @]

StartWrite(d, n) ==
    /\ core' = [core EXCEPT ![d][n] =
                  IF ft[d][n].status # "ACTIVE" /\ size["out"] < MaxTransfers
                  THEN PipeResumed(d, @) ELSE @]
    /\ ft' = [ft EXCEPT ![d][n] =
                [Opened(ft[d][n], d) EXCEPT !.status = RunLocal(ft[d][n].status)]]
    /\ UNCHANGED <<size, active, disk>>

\* It cannot open it: break_file frees the slot (a status of NONE is killed),
\* and ft_local_control then cancels what by now is a zeroed slot.
FailToWriteFile(d, n) ==
    LET s == ft[d][n]
    IN \/ s.status = "KILLED" /\ UNCHANGED <<friendVars, disk, core>>
       \/ /\ s.status # "KILLED"
          /\ active' = Uncounted({[dir |-> d, number |-> n], Stray})
          /\ ft' = [ft EXCEPT ![d][n] = [(IF s.in_use THEN Zeroed ELSE s) EXCEPT !.status = "KILLED"],
                              !["out"][0] = Zeroed]
          /\ disk' = IF s.status = "NONE" THEN Removed(disk, d, n, s)
                     ELSE IF s.resumeable
                     THEN Updated(disk, d, n, [Opened(s, d) EXCEPT !.status = "BROKEN"])
                     ELSE disk
          /\ core' = [core EXCEPT ![d][n] = IF s.in_use \/ s.status # "NONE" THEN NoPipe ELSE @]
          /\ UNCHANGED size

\* The number is the row's, or with the GTK dialog the slot's by now.
Accept ==
    /\ Free
    /\ request.tag = "TOX_FILE_ACCEPT"
    /\ \E p \in {Target, [dir |-> request.dir, number |-> request.number]} :
         LET d == p.dir
             n == p.number
         IN \/ /\ Known(d, n)
               /\ StartWrite(d, n) \/ FailToWriteFile(d, n)
               /\ accepted' = IF d = "in" THEN accepted \cup ({ft[d][n].file} \ {NoFile})
                              ELSE accepted
            \/ ~Known(d, n) /\ UNCHANGED <<friendVars, disk, core, accepted>>
    /\ request' = NoRequest
    /\ UNCHANGED <<online, uiq, ui, rows, thread, connected, sent, finished, interrupted>>

\* ft_send_file, ft_send_data and ft_send_avatar: the slot for the number
\* that toxcore gives out, and the files on disk afterwards.
FreeNumber == {n \in Number : core["out"][n].state = "none"}
NextNumber == Min(FreeNumber)

NewSlot(f, kind) ==
    [Zeroed EXCEPT !.in_use = TRUE, !.file = f, !.kind = kind,
                   !.path = (kind = "file"), !.via_file = (kind = "file")]

TakeNumber ==
    /\ connected
    /\ FreeNumber # {}
    /\ core' = [core EXCEPT !["out"][NextNumber] = Offered]
    /\ active' = [active EXCEPT !["out"] = @ + 1]
    /\ size' = [size EXCEPT !["out"] = Max({@, NextNumber + 1})]

Sent(f, kind) ==
    [ft EXCEPT !["out"][NextNumber] =
       LET s == NewSlot(f, kind)
       IN [(IF kind = "file" THEN InitResumable(s) ELSE s) EXCEPT !.status = "PAUSED_THEM"]]

DiskAfter(f, kind) ==
    IF kind = "file" THEN Created(disk, "out", NextNumber, NewSlot(f, kind)) ELSE disk

RowsAfter(f) == rows \cup {[dir |-> "out", number |-> NextNumber, file |-> f]}

\* TOX_FILE_SEND_NEW and TOX_FILE_SEND_NEW_INLINE
SendNew(f, kind) ==
    /\ Free
    /\ ui = "loop"
    /\ f \notin sent
    /\ \/ kind = "file" /\ active["out"] <= MaxTransfers
       \/ kind = "memory" /\ Extras /\ active["out"] < MaxTransfers
    /\ TakeNumber
    /\ ft' = Sent(f, kind)
    /\ disk' = DiskAfter(f, kind)
    /\ rows' = RowsAfter(f)
    /\ sent' = sent \cup {f}
    /\ UNCHANGED <<online, request, uiq, ui, thread, connected, finished, interrupted,
                   accepted>>

-----------------------------------------------------------------------------
(* Callbacks from tox_iterate *)

\* incoming_file_callback_request
Arrive(n, s, running) ==
    /\ ft' = [ft EXCEPT !["in"][n] = s]
    /\ size' = [size EXCEPT !["in"] = Max({@, n + 1})]
    /\ active' = [active EXCEPT !["in"] = @ + 1]
    /\ core' = [core EXCEPT !["in"][n] =
                  IF running /\ size["out"] < MaxTransfers THEN PipeResumed("in", Offered)
                  ELSE Offered]

IncomingFileMutNoPath(n, f) ==
    LET r == disk["in"][f]
        s == [Zeroed EXCEPT !.in_use = TRUE, !.file = f]
        known == [InitResumable(s) EXCEPT !.status = r.status, !.path = r.path]
    IN \/ /\ ~r.resumeable
          /\ Arrive(n, InitResumable(s), FALSE)
          /\ disk' = Created(disk, "in", n, s)
       \* the file it was written to is still there: go on with it
       \/ /\ r.resumeable
          /\ LET t == [known EXCEPT !.status = "ACTIVE", !.via_file = TRUE]
             IN Arrive(n, t, TRUE) /\ disk' = Created(disk, "in", n, t)
       \* toxcore cannot seek to where it was: cancel
       \/ /\ r.resumeable /\ r.path
          /\ disk' = [disk EXCEPT !["in"][f] = NoRecord]
          /\ ft' = [ft EXCEPT !["in"][n] = Zeroed]
          /\ size' = [size EXCEPT !["in"] = Max({@, n + 1})]
          /\ UNCHANGED <<active, core>>
       \* the file is gone: fall back to a new transfer
       \/ /\ r.resumeable
          /\ Arrive(n, known, FALSE)
          /\ disk' = Created(disk, "in", n, known)

IncomingFile(n, f) ==
    LET r == disk["in"][f]
        s == [Zeroed EXCEPT !.in_use = TRUE, !.file = f]
        known == [InitResumable(s) EXCEPT !.status = r.status, !.path = r.path]
    IN \/ /\ ~r.resumeable
          /\ Arrive(n, InitResumable(s), FALSE)
          /\ disk' = Created(disk, "in", n, s)
       \* the file it was written to is still there: go on with it
       \/ /\ r.resumeable /\ r.path
          /\ LET t == [known EXCEPT !.status = "ACTIVE", !.via_file = TRUE]
             IN Arrive(n, t, TRUE) /\ disk' = Created(disk, "in", n, t)
       \* toxcore cannot seek to where it was: cancel
       \/ /\ r.resumeable /\ r.path
          /\ disk' = [disk EXCEPT !["in"][f] = NoRecord]
          /\ ft' = [ft EXCEPT !["in"][n] = Zeroed]
          /\ size' = [size EXCEPT !["in"] = Max({@, n + 1})]
          /\ UNCHANGED <<active, core>>
       \* the file is gone: fall back to a new transfer
       \/ /\ r.resumeable
          /\ Arrive(n, known, FALSE)
          /\ disk' = Created(disk, "in", n, known)

\* Offers beyond MAX_INCOMING_COUNT are cancelled and change nothing.
IncomingRequest(n) ==
    /\ Free
    /\ connected
    /\ core["in"][n].state = "none"
    /\ active["in"] < MaxIncoming
    /\ \/ \E f \in InFile :
            /\ \A m \in Number : ft["in"][m].file # f
            /\ IncomingFile(n, f)
            /\ rows' = rows \cup {[dir |-> "in", number |-> n, file |-> f]}
       \/ /\ Extras
          /\ ui = "loop"    \* friend_free has taken the avatar away
          /\ \E kind \in {"avatar", "memory"} :
               Arrive(n, [Zeroed EXCEPT !.in_use = TRUE, !.kind = kind, !.status = "ACTIVE"], TRUE)
          /\ UNCHANGED <<disk, rows>>
    /\ UNCHANGED <<online, request, uiq, ui, thread, connected, history>>

\* incoming_avatar refuses the picture it has with ft_local_control: with no
\* slot for the number toxcore's pipe stays, with an unused one it is
\* cancelled, and kill_file goes by what the unused slot names.
RefuseAvatar(n) ==
    /\ Free
    /\ Extras
    /\ ui = "loop"
    /\ connected
    /\ core["in"][n].state = "none"
    /\ active["in"] < MaxIncoming
    /\ \/ /\ Known("in", n)
          /\ \/ ft["in"][n].status # "KILLED" /\ Kill("in", n) /\ UNCHANGED core
             \/ /\ ft["in"][n].status = "KILLED"
                /\ core' = [core EXCEPT !["in"][n] = Offered]
                /\ UNCHANGED <<friendVars, disk, history>>
       \/ /\ ~Known("in", n)
          /\ core' = [core EXCEPT !["in"][n] = Offered]
          /\ UNCHANGED <<friendVars, disk, history>>
    /\ UNCHANGED <<uiVars, thread, connected>>

\* incoming_file_callback_chunk; of the chunks that do not update the resume
\* file there is nothing to see
Chunk(n) ==
    /\ Free
    /\ Running("in", n)
    /\ ft["in"][n].in_use
    /\ ft["in"][n].kind = "file"
    /\ \/ /\ ft["in"][n].via_file
          /\ disk' = Updated(disk, "in", n, ft["in"][n])
          /\ UNCHANGED <<friendVars, core, history>>
       \/ LocalCancel("in", n)   \* fwrite failed, or there is no file
    /\ UNCHANGED <<uiVars, thread, connected>>

\* outgoing_file_callback_chunk cannot read the file
ReadFails(n) ==
    /\ Free
    /\ Running("out", n)
    /\ ft["out"][n].kind = "file" /\ ft["out"][n].via_file
    /\ LocalCancel("out", n)
    /\ UNCHANGED <<uiVars, thread, connected>>

\* utox_complete_file, up to the wait in ft_decon: toxcore has sent or
\* received the last byte and the slot is in use.
Complete(d, n) ==
    /\ Free
    /\ Running(d, n)
    /\ ft[d][n].in_use
    /\ ft[d][n].status = "ACTIVE"
    /\ Len(uiq) < MaxQueue
    /\ ft' = [ft EXCEPT ![d][n].status = "COMPLETED", ![d][n].decon_wait = TRUE]
    /\ uiq' = Append(uiq, [tag |-> "FILE_STATUS_UPDATE_DATA", dir |-> d, number |-> n])
    /\ disk' = Removed(disk, d, n, ft[d][n])
    /\ thread' = [at |-> "decon", dir |-> d, number |-> n]
    /\ finished' = finished \cup Ended(d, n)
    /\ interrupted' = interrupted \ Ended(d, n)
    /\ rows' = rows \ {[dir |-> d, number |-> n, file |-> ft[d][n].file]}
    /\ UNCHANGED <<size, active, online, request, ui, coreVars, sent, accepted>>

\* Any other status, or an unused slot, for which the UI is not waited for:
\* the transfer ends without having been completed.
CompleteInactive(d, n) ==
    /\ Free
    /\ Running(d, n)
    /\ ~(ft[d][n].in_use /\ ft[d][n].status = "ACTIVE")
    /\ ft[d][n].in_use \/ (d = "out" /\ Known(d, n))
    /\ Decon(Named(d, n))
    /\ disk' = Removed(disk, d, n, ft[d][n])
    /\ finished' = finished \cup Ended(d, n)
    /\ interrupted' = interrupted \ Ended(d, n)
    /\ UNCHANGED <<sent, accepted>>
    /\ core' = [core EXCEPT ![d][n] = NoPipe]
    /\ UNCHANGED <<uiVars, thread, connected>>

EndDeconMutNoWait ==
    /\ thread.at = "decon"
    /\ Decon([dir |-> thread.dir, number |-> thread.number])
    /\ core' = [core EXCEPT ![thread.dir][thread.number] = NoPipe]
    /\ thread' = Idle
    /\ UNCHANGED <<uiVars, disk, connected, history>>

\* ft_decon goes on once the UI has the data; toxcore then frees the pipe.
EndDecon ==
    /\ thread.at = "decon"
    /\ ~ft[thread.dir][thread.number].decon_wait
    /\ Decon([dir |-> thread.dir, number |-> thread.number])
    /\ core' = [core EXCEPT ![thread.dir][thread.number] = NoPipe]
    /\ thread' = Idle
    /\ UNCHANGED <<uiVars, disk, connected, history>>

\* file_transfer_callback_control, after toxcore has changed its pipe
RemoteResume(d, n) ==
    /\ \/ d = "out" /\ core[d][n].state = "offered"
       \/ core[d][n].them
    /\ core' = [core EXCEPT ![d][n].state = "open", ![d][n].them = FALSE]
    /\ ft' = [ft EXCEPT ![d][n].status = IF ft[d][n].in_use THEN RunRemote(@) ELSE @]
    /\ UNCHANGED <<size, active, disk, history>>

RemotePause(d, n) ==
    /\ core[d][n].state = "open" /\ ~core[d][n].them
    /\ core' = [core EXCEPT ![d][n].them = TRUE]
    /\ ft' = [ft EXCEPT ![d][n].status =
                IF ft[d][n].in_use THEN PauseRemote(@, d = "in") ELSE @]
    /\ UNCHANGED <<size, active, disk, history>>

RemoteCancel(d, n) ==
    /\ core[d][n].state # "none"
    /\ core' = [core EXCEPT ![d][n] = NoPipe]
    /\ \/ ft[d][n].in_use /\ Kill(d, n)
       \/ ~ft[d][n].in_use /\ UNCHANGED <<friendVars, disk, history>>

RemoteControl(d, n) ==
    /\ Free
    /\ RemoteResume(d, n) \/ RemotePause(d, n) \/ RemoteCancel(d, n)
    /\ UNCHANGED <<uiVars, thread, connected>>

-----------------------------------------------------------------------------
(* The friend's connection: callback_connection_status *)

Online(b) == [tag |-> "FRIEND_ONLINE", status |-> b]
Told(b) == uiq' = Append(uiq, Online(b))

MayFlip ==
    /\ Free
    /\ Len(uiq) < MaxQueue
    /\ UIPrompt => {Online(TRUE), Online(FALSE)} \cap ToSet(uiq) = {}

\* break_file on every slot; a status of NONE is killed instead.
Broken(d, n) == ft[d][n].status # "NONE"
AfterBreak(d, n, dk) ==
    IF Broken(d, n) THEN IF ft[d][n].resumeable
                         THEN Updated(dk, d, n, [ft[d][n] EXCEPT !.status = "BROKEN"])
                         ELSE dk
    ELSE Removed(dk, d, n, ft[d][n])

\* What is left of a slot; one that was not in use only gets the status.
Left(d, n) ==
    LET s == ft[d][n]
    IN IF s.in_use \/ n >= size[d] \/ [dir |-> d, number |-> n] = Stray THEN Zeroed
       ELSE [s EXCEPT !.status = IF @ \in {"NONE", "KILLED"} THEN "KILLED" ELSE "BROKEN"]

\* ft_friend_offline
BreakAllMutOneShort ==
    /\ ft' = [d \in Dir |-> [n \in Number |-> IF n + 1 = size[d] THEN ft[d][n] ELSE Left(d, n)]]
    /\ active' = Uncounted({p \in Place : p.number + 1 # size[p.dir]})
    /\ UNCHANGED <<size, disk, history>>

BreakAll ==
    /\ ft' = [d \in Dir |-> [n \in Number |-> Left(d, n)]]
    /\ active' = Uncounted(Place)
    /\ disk' = [out |-> [n \in Number |-> AfterBreak("out", n, disk).out[n]],
                in  |-> [f \in InFile |->
                           LET holds == {n \in Number : ft["in"][n].file = f}
                           IN IF holds = {} THEN disk["in"][f]
                              ELSE AfterBreak("in", Min(holds), disk).in[f]]]
    /\ interrupted' = interrupted \cup
         ({ft["out"][n].file : n \in {m \in Number : ft["out"][m].resumeable}} \ {NoFile})
    /\ UNCHANGED <<size, sent, finished, accepted>>

\* Another friend goes offline, who has a slot that is not in use.
OtherOffline ==
    /\ Others
    /\ Free
    /\ Decon(Stray)
    /\ UNCHANGED <<uiVars, disk, thread, coreVars, history>>

\* toxcore drops the pipes of a friend it has lost.
Disconnect ==
    /\ MayFlip
    /\ connected
    /\ connected' = FALSE
    /\ core' = AllFree
    /\ Told(FALSE)
    /\ \/ online /\ BreakAll
       \/ ~online /\ UNCHANGED <<friendVars, disk, history>>
    /\ UNCHANGED <<online, request, ui, rows, thread>>

\* A lost friend takes more than one tox_iterate to be back, and a control in
\* the mailbox waits no longer than that (an accept may be in its dialog).
Connect ==
    /\ MayFlip
    /\ ~connected
    /\ request.tag \in {"none", "TOX_FILE_ACCEPT"}
    /\ connected' = TRUE
    /\ \/ ~online /\ thread' = [at |-> "online", dir |-> "out", number |-> 0] /\ UNCHANGED uiq
       \/ online /\ Told(TRUE) /\ UNCHANGED thread
    /\ UNCHANGED <<friendVars, online, request, ui, rows, disk, core, history>>

\* One round of ft_friend_online: what the i-th .ftoutfo tells of is sent
\* again under whatever number toxcore has, then that .ftoutfo is deleted.
Unlinked(fts, i) ==
    [fts EXCEPT !["out"][i].resume_file = IF @ = "linked" THEN "unlinked" ELSE @]

DropRecord(i) ==
    /\ disk' = [disk EXCEPT !["out"][i] = NoRecord]
    /\ ft' = Unlinked(ft, i)
    /\ UNCHANGED <<size, active, core, rows, history>>

SendAgain(i) ==
    LET f == disk["out"][i].file
    IN /\ TakeNumber
       /\ ft' = Unlinked(Sent(f, "file"), i)
       /\ disk' = [DiskAfter(f, "file") EXCEPT !["out"][i] = NoRecord]
       /\ rows' = RowsAfter(f)
       /\ interrupted' = interrupted \ {f}
       /\ UNCHANGED <<sent, finished, accepted>>

\* The file itself is taken to be where it was: fopen finds it.
CanSendAgain(i) ==
    disk["out"][i].resumeable /\ active["out"] <= MaxTransfers /\ FreeNumber # {}

ResumeNext ==
    /\ thread.at = "online"
    /\ thread.number < MaxTransfers
    /\ LET i == thread.number
       IN \/ CanSendAgain(i) /\ SendAgain(i)
          \/ ~CanSendAgain(i) /\ DropRecord(i)
    /\ thread' = [thread EXCEPT !.number = @ + 1]
    /\ UNCHANGED <<online, request, uiq, ui, connected>>

\* The avatar is sent last (avatar_on_friend_online), if there is one.
FinishOnline ==
    /\ thread.at = "online"
    /\ thread.number = MaxTransfers
    /\ Len(uiq) < MaxQueue
    /\ \/ /\ Extras
          /\ active["out"] <= MaxTransfers
          /\ TakeNumber
          /\ ft' = Sent(NoFile, "avatar")
       \/ UNCHANGED <<friendVars, core>>
    /\ Told(TRUE)
    /\ thread' = Idle
    /\ UNCHANGED <<online, request, ui, rows, disk, connected, history>>

-----------------------------------------------------------------------------
(* The UI thread *)

HandleMutForgets ==
    /\ ui = "loop"
    /\ uiq # <<>>
    /\ LET m == Head(uiq)
       IN \/ /\ m.tag = "FRIEND_ONLINE"
             /\ online' = m.status
             /\ UNCHANGED ft
          \/ /\ m.tag = "FILE_STATUS_UPDATE_DATA"
             /\ UNCHANGED ft
             /\ UNCHANGED online
    /\ uiq' = Tail(uiq)
    /\ UNCHANGED <<size, active, request, ui, rows, disk, thread, coreVars, history>>

\* utox_message_dispatch
Handle ==
    /\ ui = "loop"
    /\ uiq # <<>>
    /\ LET m == Head(uiq)
       IN \/ /\ m.tag = "FRIEND_ONLINE"
             /\ online' = m.status
             /\ UNCHANGED ft
          \/ /\ m.tag = "FILE_STATUS_UPDATE_DATA"
             /\ ft' = [ft EXCEPT ![m.dir][m.number].decon_wait = FALSE]
             /\ UNCHANGED online
    /\ uiq' = Tail(uiq)
    /\ UNCHANGED <<size, active, request, ui, rows, disk, thread, coreVars, history>>

\* The status a row shows.  That of a transfer that is over is its last one;
\* a completed one is opened by a click and is no longer among the rows.
Shown(r) == LET s == ft[r.dir][r.number]
            IN IF s.in_use /\ s.file = r.file THEN s.status ELSE "over"

Asks(r) ==
    {"TOX_FILE_CANCEL"} \cup
    CASE Shown(r) = "ACTIVE"                -> {"TOX_FILE_PAUSE"}
      [] Shown(r) = "NONE" /\ r.dir = "in" -> {"TOX_FILE_ACCEPT"}
      [] OTHER                              -> {"TOX_FILE_RESUME"}

\* A click on a row (messages_mup), or the answer to its dialog.  By the time
\* toxcore_thread has the message the transfer may be another one.
Click ==
    /\ ui = "loop"
    /\ request = NoRequest
    /\ \E r \in rows : \E tag \in Asks(r) :
         /\ request' = [tag |-> tag, dir |-> r.dir, number |-> r.number]
    /\ UNCHANGED <<friendVars, online, uiq, ui, rows, disk, thread, coreVars, history>>

\* The FRIEND is zeroed, and its messages are freed.
FreshFriend ==
    /\ size' = [d \in Dir |-> 0]
    /\ active' = [d \in Dir |-> 0]
    /\ online' = FALSE
    /\ rows' = {}

\* tox_settingschanged: free the friends, post TOX_KILL and spin until Tox is
\* up again.  ft_decon goes on waiting on the slot it has, which is leaked.
SettingsChanged ==
    /\ Reconfigures
    /\ ui = "loop"
    /\ request = NoRequest
    /\ ui' = "spin"
    /\ FreshFriend
    /\ ft' = [d \in Dir |-> [n \in Number |-> 
                 IF thread.at = "decon" /\ thread.dir = d /\ thread.number = n
                 THEN ft[d][n] ELSE Zeroed]]
    /\ UNCHANGED <<request, uiq, disk, thread, coreVars, history>>

\* The friends of a new Tox instance.
NewInstance ==
    /\ FreshFriend
    /\ ft' = [d \in Dir |-> [n \in Number |-> Zeroed]]
    /\ connected' = FALSE
    /\ core' = AllFree
    /\ thread' = Idle
    /\ ui' = "loop"
    /\ UNCHANGED <<disk, history>>

\* TOX_KILL is read, and init_toxcore brings up a new instance.
Restart ==
    /\ Free
    /\ ui = "spin"
    /\ NewInstance
    /\ UNCHANGED <<request, uiq>>

\* The program dies and is started again; the resume files survive.
Crash ==
    /\ Crashes
    /\ NewInstance
    /\ request' = NoRequest
    /\ uiq' = <<>>

-----------------------------------------------------------------------------
Callback ==
    \/ \E n \in Number : IncomingRequest(n) \/ RefuseAvatar(n) \/ Chunk(n) \/ ReadFails(n)
    \/ \E d \in Dir, n \in Number : Complete(d, n) \/ CompleteInactive(d, n) \/ RemoteControl(d, n)
    \/ Connect \/ Disconnect \/ OtherOffline

Command == Control \/ Accept \/ \E f \in OutFile, kind \in {"file", "memory"} : SendNew(f, kind)
GoOn == EndDecon \/ ResumeNext \/ FinishOnline \/ Restart

Next == Callback \/ Command \/ GoOn \/ Handle \/ Click \/ SettingsChanged \/ Crash

\* toxcore_thread goes on with what it has begun and the UI empties its queue;
\* users, friends and networks owe nothing.
Fairness == WF_vars(GoOn) /\ WF_vars(Handle)

Spec == Init /\ [][Next]_vars
FairSpec == Spec /\ Fairness

-----------------------------------------------------------------------------
FriendTypes ==
    /\ ft \in [Dir -> [Number -> Slot]]
    /\ size \in [Dir -> 0..LastNumber + 1]
    /\ active \in [Dir -> Int]

UITypes ==
    /\ online \in BOOLEAN
    /\ request \in Request
    /\ uiq \in Seq(Message) /\ Len(uiq) <= MaxQueue
    /\ ui \in {"loop", "spin"}
    /\ rows \subseteq [dir : Dir, number : Number, file : OutFile \cup InFile \cup {NoFile}]

DiskTypes == disk \in [out : [Number -> Record], in : [InFile -> Record]]

ThreadTypes ==
    /\ thread \in [at : {"free", "decon", "online"}, dir : Dir, number : 0..LastNumber + 1]
    /\ thread.at = "decon" => thread.number \in Number

CoreTypes == connected \in BOOLEAN /\ core \in [Dir -> [Number -> Pipe]]

HistoryTypes ==
    sent \subseteq OutFile /\ finished \subseteq sent /\ interrupted \subseteq sent
    /\ accepted \subseteq InFile

TypeOK == FriendTypes /\ UITypes /\ DiskTypes /\ ThreadTypes /\ CoreTypes /\ HistoryTypes

InUse(d) == Cardinality({n \in Number : ft[d][n].in_use})

\* ft_incoming_active_count and ft_outgoing_active_count, which the limits on
\* transfers are tested against, count the slots in use: no order of controls,
\* completions, losses of the friend and resumptions makes them drift, as long
\* as the UI keeps up with the friend's connection.  (Between flist_freeall and
\* the next Tox instance the friend is zeroed and nothing counts.)
CountsSlots == ui = "loop" => \A d \in Dir : active[d] = InUse(d)

\* Even when the UI lags behind, the counters (uint16_t) never go below the
\* number of slots in use, so none of them can wrap around and shut the
\* friend out of transfers until the next start.
NeverUndercounts == ui = "loop" => \A d \in Dir : active[d] >= InUse(d)

\* A file that was completed or cancelled is not sent again: no slot holds it
\* and no .ftoutfo would make ft_friend_online send it.
FinishedForGood ==
    \A n \in Number :
      /\ ft["out"][n].file \in finished => ft["out"][n].status = "COMPLETED"
      /\ disk["out"][n].resumeable => disk["out"][n].file \notin finished

\* The files that slots hold, but for the one that ft_decon is about to free,
\* and those that ft_friend_online would send from an .ftoutfo.
Underway ==
    {ft["out"][n].file : n \in {m \in Number : thread # [at |-> "decon", dir |-> "out", number |-> m]}}
      \ {NoFile}
Waiting == {disk["out"][i].file : i \in {j \in Number : disk["out"][j].resumeable}} \ {NoFile}

\* The slots and resume files keep the promises of Delivery: a file is in one
\* of them at most, whatever breaks transfers off, and one that was completed,
\* cancelled or lost is never sent again.  No end of a transfer, not even one
\* that frees the slot a zeroed one names, takes the resume file of another.
Promise == INSTANCE Delivery WITH
    File <- OutFile, underway <- Underway, waiting <- Waiting, over <- finished

DeliverySpec == Promise!DSpec

\* No file on disk is opened to take in an offer unless a TOX_FILE_ACCEPT was
\* handled for that offer, now or before an interruption: what a crash or a
\* broken transfer leaves in an .ftinfo never makes up for one.
OpenedOnlyIfAccepted ==
    \A n \in Number :
      LET s == ft["in"][n]
      IN s.in_use /\ s.kind = "file" /\ s.via_file => s.file \in accepted

\* While FILE_STATUS_UPDATE_DATA waits for the UI, the slot it points to still
\* holds the completed transfer.
DataKeptForUI ==
    \A i \in 1..Len(uiq) :
      uiq[i].tag = "FILE_STATUS_UPDATE_DATA" =>
        /\ thread.at = "decon" /\ thread.dir = uiq[i].dir /\ thread.number = uiq[i].number
        /\ ft[uiq[i].dir][uiq[i].number].in_use
        /\ ft[uiq[i].dir][uiq[i].number].status = "COMPLETED"

\* file_transfers.h:66 says of decon_wait that it is used "to pause" the
\* clean-up: the pause ends, and toxcore_thread goes on.
PauseEnds == thread.at = "decon" ~> thread.at = "free"

\* file_transfers.c:588, "Friend has come online, restart our outgoing
\* transfers to this friend": once ft_friend_online is through, no file that
\* an earlier loss of the friend broke off is left behind.
RestartedWhenOnline == connected /\ Free => interrupted = {}

\* Nothing is in use while the friend is away, when the UI has handled
\* FRIEND_ONLINE before the connection changes again (UIPrompt).  Without that
\* callback_connection_status takes a friend who is lost for one who was never
\* there, as f->online is set by the UI thread.
BrokenWhenOffline == UIPrompt /\ ui = "loop" /\ ~connected => \A d \in Dir : InUse(d) = 0
=============================================================================
