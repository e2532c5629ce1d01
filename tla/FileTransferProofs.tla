------------------------- MODULE FileTransferProofs -------------------------
(***************************************************************************)
(* Theorems about FileTransfer, for any files, slots, limits and settings. *)
(*                                                                         *)
(* The inductive invariant says, besides the types, where files can be: an *)
(* outgoing file in one slot or in one .ftoutfo that counts, a finished    *)
(* one only in the slot ft_decon is about to free, a place to write to     *)
(* only in the slots and .ftinfo files of offers that were accepted; and   *)
(* that there is at most one message ft_decon can be waiting for.          *)
(*                                                                         *)
(* Most steps bring no file anywhere (Quiet); those that do have a lemma   *)
(* of their own.  That each step is one of Delivery, or none, rests on the *)
(* same division: what is left alone (Calm), ends, breaks off or begins.   *)
(***************************************************************************)
EXTENDS FileTransfer, FiniteSetTheorems, WellFoundedInduction, TLAPS

USE FileTransferAssumption
USE DEF friendVars, uiVars, coreVars, history

-----------------------------------------------------------------------------
(* Numbers and counters *)

Below(n) == {k \in Number : k < n}

\* Every nonempty set of file numbers has a least one: of the finite sets of
\* the numbers below its members one has none of the others as a part.
LEMMA Least == ASSUME NEW S \in SUBSET Number, S # {} PROVE Min(S) \in S
<1> DEFINE T == {Below(n) : n \in S}
<1>1. IsFiniteSet(Number)
  BY FS_Interval DEF Number
<1>2. T \subseteq FiniteSubsetsOf(Number) /\ T # {}
  <2>1. \A n \in S : Below(n) \in SUBSET Number /\ IsFiniteSet(Below(n))
    BY <1>1, FS_Subset DEF Below
  <2> QED
    BY <2>1 DEF FiniteSubsetsOf
<1>3. PICK t \in T : \A u \in T : <<u, t>> \notin StrictSubsetOrdering(Number)
  <2> HIDE DEF T
  <2> QED
    BY <1>2, WFMin, FS_StrictSubsetOrderingWellFounded
<1>4. PICK x \in S : t = Below(x)
  BY <1>3
<1>5. \A y \in S : x =< y
  <2> SUFFICES ASSUME NEW y \in S, ~(x =< y) PROVE FALSE
    OBVIOUS
  <2> x \in Int /\ y \in Int /\ y < x
    BY DEF Number
  <2>1. Below(y) \subseteq Below(x) /\ y \in Below(x) /\ y \notin Below(y)
    BY DEF Below, Number
  <2>2. <<Below(y), Below(x)>> \in StrictSubsetOrdering(Number)
    BY <2>1 DEF StrictSubsetOrdering, Below
  <2> QED
    BY <1>3, <1>4, <2>2
<1> QED
  BY <1>5 DEF Min

LEMMA NextFree == ASSUME FreeNumber # {} PROVE NextNumber \in FreeNumber
BY Least DEF NextNumber, FreeNumber

LEMMA Larger == ASSUME NEW i \in Int, NEW j \in Int PROVE Max({i, j}) = IF i < j THEN j ELSE i
<1>1. CASE i < j
  BY <1>1 DEF Max
<1>2. CASE ~(i < j)
  BY <1>2 DEF Max
<1> QED
  BY <1>1, <1>2

LEMMA LargerType ==
    ASSUME NEW i \in 0..LastNumber + 1, NEW n \in Number
    PROVE  Max({i, n + 1}) \in 0..LastNumber + 1
<1>1. i \in Int /\ n + 1 \in 0..LastNumber + 1 /\ n + 1 \in Int
  BY DEF Number
<1> QED
  BY <1>1, Larger

LEMMA PlaceFinite == IsFiniteSet(Place)
<1> DEFINE N == LastNumber + 1
           S == 0..2 * N - 1
           F == [i \in S |-> IF i < N THEN [dir |-> "out", number |-> i]
                             ELSE [dir |-> "in", number |-> i - N]]
<1>1. F \in [S -> Place]
  BY DEF Place, Dir, Number
<1>2. ASSUME NEW p \in Place PROVE \E i \in S : F[i] = p
  <2>1. p.number \in 0..LastNumber /\ p = [dir |-> p.dir, number |-> p.number] /\ p.dir \in Dir
    BY DEF Place, Number
  <2>2. CASE p.dir = "out"
    <3>1. p.number \in S /\ F[p.number] = p
      BY <2>1, <2>2
    <3> QED
      BY <3>1
  <2>3. CASE p.dir = "in"
    <3>1. p.number + N \in S /\ F[p.number + N] = p
      BY <2>1, <2>3
    <3> QED
      BY <3>1
  <2> QED
    BY <2>1, <2>2, <2>3 DEF Dir
<1>3. IsFiniteSet(S)
  BY FS_Interval
<1>4. F \in Surjection(S, Place)
  BY <1>1, <1>2 DEF Surjection
<1> QED
  BY <1>3, <1>4, FS_Surjection

LEMMA UncountedInt ==
    ASSUME FriendTypes, NEW places \in SUBSET Place
    PROVE  Uncounted(places) \in [Dir -> Int]
<1>1. ASSUME NEW d \in Dir
      PROVE  Cardinality({p \in places : p.dir = d /\ ft[d][p.number].in_use}) \in Int
  BY PlaceFinite, FS_Subset, FS_CardinalityType
<1> QED
  BY <1>1 DEF Uncounted, FriendTypes

-----------------------------------------------------------------------------
(* The types of what the helpers give *)

Disk == [out : [Number -> Record], in : [InFile -> Record]]

\* What the files that slots and resume files name are.
FilesKnown ==
    \A n \in Number : /\ ft["out"][n].file \in sent \cup {NoFile}
                      /\ ft["in"][n].file \in InFile \cup {NoFile}
                      /\ disk["out"][n].file \in sent \cup {NoFile}

LEMMA StatusTypes ==
    ASSUME NEW s \in Status, NEW b \in BOOLEAN
    PROVE  /\ RunLocal(s) \in Status /\ RunRemote(s) \in Status
           /\ PauseLocal(s, b) \in Status /\ PauseRemote(s, b) \in Status
BY DEF RunLocal, RunRemote, PauseLocal, PauseRemote, Status

LEMMA PipeTypes ==
    ASSUME NEW p \in Pipe, NEW d \in Dir
    PROVE  PipeResumed(d, p) \in Pipe /\ PipePaused(p) \in Pipe
BY DEF PipeResumed, PipePaused, Pipe

LEMMA NoPipeType == NoPipe \in Pipe /\ Offered \in Pipe
BY DEF NoPipe, Offered, Pipe

LEMMA ZeroedType == Zeroed \in Slot /\ NoRecord \in Record /\ Stray \in Place
BY DEF Zeroed, Slot, NoRecord, Record, Stray, Place, Dir, Number, Status

LEMMA SlotStatus ==
    ASSUME NEW s \in Slot, NEW v \in Status PROVE [s EXCEPT !.status = v] \in Slot
BY DEF Slot

LEMMA WrittenType == ASSUME NEW s \in Slot PROVE Written(s) \in Record
BY DEF Written, Slot, Record

\* A write to a resume file changes at most that file.
LEMMA DiskType ==
    ASSUME NEW dk \in Disk, NEW d \in Dir, NEW k, NEW r \in Record
    PROVE  [dk EXCEPT ![d][k] = r] \in Disk
<1>1. CASE d = "out"
  BY <1>1 DEF Disk
<1>2. CASE d = "in"
  BY <1>2 DEF Disk
<1> QED
  BY <1>1, <1>2 DEF Dir

LEMMA ResumeFileTypes ==
    ASSUME NEW dk \in Disk, NEW d \in Dir, NEW n, NEW s \in Slot
    PROVE  Created(dk, d, n, s) \in Disk /\ Updated(dk, d, n, s) \in Disk
           /\ Removed(dk, d, n, s) \in Disk
BY DiskType, WrittenType, ZeroedType DEF Created, Updated, Removed

LEMMA NamedType ==
    ASSUME NEW d \in Dir, NEW n \in Number PROVE Named(d, n) \in Place
BY ZeroedType DEF Named, Place

-----------------------------------------------------------------------------
(* The types after each part of a handler *)

LEMMA EndedType ==
    ASSUME FilesKnown, NEW d \in Dir, NEW n \in Number PROVE Ended(d, n) \subseteq sent
BY DEF Ended, FilesKnown, Dir

LEMMA DeconTypes ==
    ASSUME FriendTypes, NEW p \in Place, Decon(p) PROVE FriendTypes'
<1>1. active' \in [Dir -> Int]
  BY UncountedInt DEF Decon
<1>2. ft' \in [Dir -> [Number -> Slot]] /\ size' = size
  BY ZeroedType DEF Decon, FriendTypes, Place
<1> QED
  BY <1>1, <1>2 DEF FriendTypes

LEMMA KillTypes ==
    ASSUME TypeOK, FilesKnown, NEW d \in Dir, NEW n \in Number, Kill(d, n)
    PROVE  FriendTypes' /\ DiskTypes' /\ HistoryTypes'
<1>1. active' \in [Dir -> Int]
  BY UncountedInt, NamedType DEF Kill, TypeOK
<1>2. ft' \in [Dir -> [Number -> Slot]] /\ size' = size
  <2>1. ft[d][n] \in Slot /\ "KILLED" \in Status
    BY DEF TypeOK, FriendTypes, Status
  <2>2. [ft[d][n] EXCEPT !.status = "KILLED"] \in Slot
    BY <2>1, SlotStatus
  <2> QED
    BY <2>2, ZeroedType, NamedType DEF Kill, TypeOK, FriendTypes, Place
<1>3. disk' \in Disk
  BY ResumeFileTypes DEF Kill, TypeOK, FriendTypes, DiskTypes, Disk
<1>4. HistoryTypes'
  BY EndedType DEF Kill, TypeOK, HistoryTypes
<1> QED
  BY <1>1, <1>2, <1>3, <1>4 DEF TypeOK, FriendTypes, DiskTypes, Disk

\* A control changes the status of one slot and one of toxcore's pipes.
LEMMA StatusType ==
    ASSUME FriendTypes, NEW d \in Dir, NEW n \in Number, NEW s \in Status
    PROVE  [ft EXCEPT ![d][n].status = s] \in [Dir -> [Number -> Slot]]
<1>1. [ft[d][n] EXCEPT !.status = s] \in Slot
  BY SlotStatus DEF FriendTypes
<1> QED
  BY <1>1 DEF FriendTypes

LEMMA SlotType ==
    ASSUME FriendTypes, NEW d \in Dir, NEW n \in Number, NEW s \in Slot
    PROVE  [ft EXCEPT ![d][n] = s] \in [Dir -> [Number -> Slot]]
BY DEF FriendTypes

LEMMA CoreType ==
    ASSUME CoreTypes, NEW d \in Dir, NEW n \in Number, NEW p \in Pipe
    PROVE  [core EXCEPT ![d][n] = p] \in [Dir -> [Number -> Pipe]]
BY DEF CoreTypes

LEMMA LocalControlTypes ==
    ASSUME TypeOK, FilesKnown, NEW d \in Dir, NEW n \in Number,
           LocalResume(d, n) \/ LocalPause(d, n) \/ LocalCancel(d, n), UNCHANGED connected
    PROVE  FriendTypes' /\ DiskTypes' /\ CoreTypes' /\ HistoryTypes'
<1> USE DEF TypeOK
<1>0. ft[d][n] \in Slot /\ ft[d][n].status \in Status /\ core[d][n] \in Pipe
  BY DEF FriendTypes, CoreTypes, Slot
<1>1. CASE LocalResume(d, n)
  <2>1. ft' \in [Dir -> [Number -> Slot]]
    BY <1>0, <1>1, StatusTypes, StatusType DEF LocalResume
  <2>2. core' \in [Dir -> [Number -> Pipe]]
    BY <1>0, <1>1, PipeTypes, CoreType DEF LocalResume
  <2> QED
    BY <1>1, <2>1, <2>2 DEF LocalResume, FriendTypes, DiskTypes, CoreTypes, HistoryTypes
<1>2. CASE LocalPause(d, n)
  <2>1. ft' \in [Dir -> [Number -> Slot]]
    BY <1>0, <1>2, StatusTypes, StatusType DEF LocalPause, Slot
  <2>2. core' \in [Dir -> [Number -> Pipe]]
    BY <1>0, <1>2, PipeTypes, CoreType DEF LocalPause
  <2> QED
    BY <1>2, <2>1, <2>2 DEF LocalPause, FriendTypes, DiskTypes, CoreTypes, HistoryTypes
<1>3. CASE LocalCancel(d, n)
  <2>1. CASE Kill(d, n) /\ core' = [core EXCEPT ![d][n] = NoPipe]
    BY <2>1, KillTypes, NoPipeType, CoreType DEF CoreTypes
  <2>2. CASE UNCHANGED <<friendVars, disk, core, history>>
    BY <2>2 DEF FriendTypes, DiskTypes, CoreTypes, HistoryTypes
  <2> QED
    BY <1>3, <2>1, <2>2 DEF LocalCancel
<1> QED
  BY <1>1, <1>2, <1>3

LEMMA RemoteControlTypes ==
    ASSUME TypeOK, FilesKnown, NEW d \in Dir, NEW n \in Number,
           RemoteResume(d, n) \/ RemotePause(d, n) \/ RemoteCancel(d, n), UNCHANGED connected
    PROVE  FriendTypes' /\ DiskTypes' /\ CoreTypes' /\ HistoryTypes'
<1> USE DEF TypeOK
<1>0. ft[d][n] \in Slot /\ ft[d][n].status \in Status /\ core[d][n] \in Pipe
  BY DEF FriendTypes, CoreTypes, Slot
<1>1. CASE RemoteResume(d, n)
  <2>1. ft' \in [Dir -> [Number -> Slot]]
    BY <1>0, <1>1, StatusTypes, StatusType DEF RemoteResume
  <2>2. core' \in [Dir -> [Number -> Pipe]]
    BY <1>0, <1>1 DEF RemoteResume, CoreTypes, Pipe
  <2> QED
    BY <1>1, <2>1, <2>2 DEF RemoteResume, FriendTypes, DiskTypes, CoreTypes, HistoryTypes
<1>2. CASE RemotePause(d, n)
  <2>1. ft' \in [Dir -> [Number -> Slot]]
    BY <1>0, <1>2, StatusTypes, StatusType DEF RemotePause
  <2>2. core' \in [Dir -> [Number -> Pipe]]
    BY <1>0, <1>2 DEF RemotePause, CoreTypes, Pipe
  <2> QED
    BY <1>2, <2>1, <2>2 DEF RemotePause, FriendTypes, DiskTypes, CoreTypes, HistoryTypes
<1>3. CASE RemoteCancel(d, n)
  <2>1. core' \in [Dir -> [Number -> Pipe]]
    BY <1>3, NoPipeType, CoreType DEF RemoteCancel
  <2>2. CASE Kill(d, n)
    BY <2>1, <2>2, KillTypes DEF CoreTypes
  <2>3. CASE UNCHANGED <<friendVars, disk, history>>
    BY <2>1, <2>3 DEF FriendTypes, DiskTypes, CoreTypes, HistoryTypes
  <2> QED
    BY <1>3, <2>2, <2>3 DEF RemoteCancel
<1> QED
  BY <1>1, <1>2, <1>3

LEMMA AcceptTypes ==
    ASSUME TypeOK, FilesKnown, NEW d \in Dir, NEW n \in Number,
           StartWrite(d, n) \/ FailToWriteFile(d, n), UNCHANGED connected
    PROVE  FriendTypes' /\ DiskTypes' /\ CoreTypes'
<1> USE DEF TypeOK
<1>0. /\ ft[d][n] \in Slot /\ ft[d][n].status \in Status /\ core[d][n] \in Pipe
      /\ [dir |-> d, number |-> n] \in Place /\ Stray \in Place
  BY ZeroedType DEF FriendTypes, CoreTypes, Slot, Place
<1>1. Opened(ft[d][n], d) \in Slot
  BY <1>0 DEF Opened, Slot
<1>2. CASE StartWrite(d, n)
  <2>1. [Opened(ft[d][n], d) EXCEPT !.status = RunLocal(ft[d][n].status)] \in Slot
    BY <1>0, <1>1, StatusTypes, SlotStatus
  <2>2. ft' \in [Dir -> [Number -> Slot]]
    BY <1>2, <2>1, SlotType DEF StartWrite
  <2>3. core' \in [Dir -> [Number -> Pipe]]
    BY <1>0, <1>2, PipeTypes, CoreType DEF StartWrite
  <2> QED
    BY <1>2, <2>2, <2>3 DEF StartWrite, FriendTypes, DiskTypes, CoreTypes
<1>3. CASE FailToWriteFile(d, n) /\ ft[d][n].status = "KILLED"
  BY <1>3 DEF FailToWriteFile, FriendTypes, DiskTypes, CoreTypes
<1>4. CASE FailToWriteFile(d, n) /\ ft[d][n].status # "KILLED"
  <2>1. active' \in [Dir -> Int] /\ size' = size
    BY <1>0, <1>4, UncountedInt DEF FailToWriteFile
  <2>2. [(IF ft[d][n].in_use THEN Zeroed ELSE ft[d][n]) EXCEPT !.status = "KILLED"] \in Slot
    BY <1>0, SlotStatus, ZeroedType DEF Status
  <2>3. ft' \in [Dir -> [Number -> Slot]]
    <3> DEFINE s == [(IF ft[d][n].in_use THEN Zeroed ELSE ft[d][n]) EXCEPT !.status = "KILLED"]
    <3>1. ft' = [ft EXCEPT ![d][n] = s, !["out"][0] = Zeroed]
      BY <1>4 DEF FailToWriteFile
    <3>2. 0 \in Number /\ "out" \in Dir /\ s \in Slot
      BY <2>2 DEF Number, Dir
    <3> HIDE DEF s
    <3> QED
      BY <3>1, <3>2, ZeroedType DEF FriendTypes
  <2>4. core' \in [Dir -> [Number -> Pipe]]
    <3> DEFINE p == IF ft[d][n].in_use \/ ft[d][n].status # "NONE" THEN NoPipe ELSE core[d][n]
    <3>1. core' = [core EXCEPT ![d][n] = p] /\ p \in Pipe
      BY <1>0, <1>4, NoPipeType DEF FailToWriteFile
    <3> HIDE DEF p
    <3> QED
      BY <3>1, CoreType
  <2>5. [Opened(ft[d][n], d) EXCEPT !.status = "BROKEN"] \in Slot
    BY <1>1, SlotStatus DEF Status
  <2>6. disk' \in Disk
    BY <1>0, <1>4, <2>5, ResumeFileTypes DEF FailToWriteFile, DiskTypes, Disk
  <2> QED
    BY <2>1, <2>3, <2>4, <2>6 DEF FriendTypes, DiskTypes, Disk, CoreTypes
<1> QED
  BY <1>2, <1>3, <1>4

\* toxcore gives out the least number that is free.
LEMMA TakeNumberTypes ==
    ASSUME FriendTypes, CoreTypes, TakeNumber
    PROVE  /\ NextNumber \in Number
           /\ size' \in [Dir -> 0..LastNumber + 1] /\ active' \in [Dir -> Int]
           /\ core' \in [Dir -> [Number -> Pipe]]
<1>1. NextNumber \in Number
  BY NextFree DEF TakeNumber, FreeNumber
<1>2. size' \in [Dir -> 0..LastNumber + 1]
  <2>1. Max({size["out"], NextNumber + 1}) \in 0..LastNumber + 1
    BY <1>1, LargerType DEF FriendTypes, Dir
  <2> QED
    BY <2>1 DEF TakeNumber, FriendTypes
<1>3. active' \in [Dir -> Int]
  BY DEF TakeNumber, FriendTypes, Dir
<1>4. core' \in [Dir -> [Number -> Pipe]]
  BY <1>1, NoPipeType, CoreType DEF TakeNumber, Dir
<1> QED
  BY <1>1, <1>2, <1>3, <1>4

LEMMA NewSlotTypes ==
    ASSUME NEW f \in OutFile \cup {NoFile}, NEW kind \in {"file", "avatar", "memory"}
    PROVE  NewSlot(f, kind) \in Slot /\ InitResumable(NewSlot(f, kind)) \in Slot
BY DEF NewSlot, InitResumable, Zeroed, Slot, Status

LEMMA SentTypes ==
    ASSUME FriendTypes, DiskTypes, NEW f \in OutFile \cup {NoFile},
           NEW kind \in {"file", "avatar", "memory"}, NextNumber \in Number
    PROVE  Sent(f, kind) \in [Dir -> [Number -> Slot]] /\ DiskAfter(f, kind) \in Disk
<1>1. [(IF kind = "file" THEN InitResumable(NewSlot(f, kind)) ELSE NewSlot(f, kind))
          EXCEPT !.status = "PAUSED_THEM"] \in Slot
  BY NewSlotTypes, SlotStatus DEF Status
<1>2. Sent(f, kind) \in [Dir -> [Number -> Slot]]
  BY <1>1, SlotType DEF Sent, Dir
<1>3. DiskAfter(f, kind) \in Disk
  BY NewSlotTypes, ResumeFileTypes DEF DiskAfter, DiskTypes, Disk, Dir
<1> QED
  BY <1>2, <1>3

LEMMA ArriveTypes ==
    ASSUME FriendTypes, CoreTypes, NEW n \in Number, NEW s \in Slot, NEW running \in BOOLEAN,
           Arrive(n, s, running), UNCHANGED connected
    PROVE  FriendTypes' /\ CoreTypes'
<1>1. ft' \in [Dir -> [Number -> Slot]]
  BY SlotType DEF Arrive, Dir
<1>2. size' \in [Dir -> 0..LastNumber + 1]
  <2>1. Max({size["in"], n + 1}) \in 0..LastNumber + 1
    BY LargerType DEF FriendTypes, Dir
  <2> QED
    BY <2>1 DEF Arrive, FriendTypes
<1>3. active' \in [Dir -> Int]
  BY DEF Arrive, FriendTypes, Dir
<1>4. core' \in [Dir -> [Number -> Pipe]]
  <2>1. PipeResumed("in", Offered) \in Pipe /\ Offered \in Pipe
    BY PipeTypes, NoPipeType DEF Dir
  <2> QED
    BY <2>1, CoreType DEF Arrive, Dir
<1> QED
  BY <1>1, <1>2, <1>3, <1>4 DEF FriendTypes, CoreTypes

LEMMA IncomingFileTypes ==
    ASSUME FriendTypes, CoreTypes, DiskTypes, NEW n \in Number, NEW f \in InFile,
           IncomingFile(n, f), UNCHANGED connected
    PROVE  FriendTypes' /\ CoreTypes' /\ DiskTypes'
<1> DEFINE r == disk["in"][f]
           s == [Zeroed EXCEPT !.in_use = TRUE, !.file = f]
           known == [InitResumable(s) EXCEPT !.status = r.status, !.path = r.path]
           t == [known EXCEPT !.status = "ACTIVE", !.via_file = TRUE]
<1>1. r \in Record
  BY DEF DiskTypes
<1>2. s \in Slot /\ InitResumable(s) \in Slot
  BY DEF Zeroed, InitResumable, Slot, Status
<1>3. known \in Slot
  BY <1>1, <1>2 DEF Slot, Record
<1>4. t \in Slot
  BY <1>3 DEF Slot, Status
<1>5. "in" \in Dir /\ disk \in Disk
  BY DEF Dir, DiskTypes, Disk
<1>6. CASE Arrive(n, InitResumable(s), FALSE) /\ disk' = Created(disk, "in", n, s)
  <2> HIDE DEF s
  <2> QED
    BY <1>2, <1>5, <1>6, ArriveTypes, ResumeFileTypes DEF DiskTypes, Disk
<1>7. CASE Arrive(n, t, TRUE) /\ disk' = Created(disk, "in", n, t)
  <2> HIDE DEF t
  <2> QED
    BY <1>4, <1>5, <1>7, ArriveTypes, ResumeFileTypes DEF DiskTypes, Disk
<1>8. CASE Arrive(n, known, FALSE) /\ disk' = Created(disk, "in", n, known)
  <2> HIDE DEF known
  <2> QED
    BY <1>3, <1>5, <1>8, ArriveTypes, ResumeFileTypes DEF DiskTypes, Disk
<1>9. CASE /\ disk' = [disk EXCEPT !["in"][f] = NoRecord]
           /\ ft' = [ft EXCEPT !["in"][n] = Zeroed]
           /\ size' = [size EXCEPT !["in"] = Max({@, n + 1})]
           /\ UNCHANGED <<active, core>>
  <2>1. disk' \in Disk
    BY <1>5, <1>9, DiskType, ZeroedType
  <2>2. ft' \in [Dir -> [Number -> Slot]]
    BY <1>5, <1>9, SlotType, ZeroedType
  <2>3. Max({size["in"], n + 1}) \in 0..LastNumber + 1
    BY LargerType DEF FriendTypes, Dir
  <2>4. size' \in [Dir -> 0..LastNumber + 1]
    BY <1>9, <2>3 DEF FriendTypes
  <2> QED
    BY <1>9, <2>1, <2>2, <2>4 DEF FriendTypes, DiskTypes, Disk, CoreTypes
<1> QED
  BY <1>6, <1>7, <1>8, <1>9 DEF IncomingFile

\* Some slot holds a file that slots hold, namely the first one.
LEMMA FirstHolder ==
    ASSUME NEW f \in InFile, {n \in Number : ft["in"][n].file = f} # {}
    PROVE  /\ Min({n \in Number : ft["in"][n].file = f}) \in Number
           /\ ft["in"][Min({n \in Number : ft["in"][n].file = f})].file = f
<1> DEFINE S == {n \in Number : ft["in"][n].file = f}
<1>1. Min(S) \in S
  BY Least
<1> QED
  BY <1>1

LEMMA AfterBreakType ==
    ASSUME FriendTypes, DiskTypes, NEW d \in Dir, NEW n \in Number
    PROVE  AfterBreak(d, n, disk) \in Disk
<1>0. ft[d][n] \in Slot /\ "BROKEN" \in Status
  BY DEF FriendTypes, Status
<1>1. [ft[d][n] EXCEPT !.status = "BROKEN"] \in Slot
  BY <1>0, SlotStatus
<1> QED
  BY <1>0, <1>1, ResumeFileTypes DEF AfterBreak, DiskTypes, Disk

LEMMA BreakAllTypes ==
    ASSUME TypeOK, FilesKnown, BreakAll
    PROVE  FriendTypes' /\ DiskTypes' /\ HistoryTypes'
<1> USE DEF TypeOK
<1>1. active' \in [Dir -> Int] /\ size' = size
  BY UncountedInt DEF BreakAll
<1>2. ASSUME NEW d \in Dir, NEW n \in Number PROVE Left(d, n) \in Slot
  <2>1. ft[d][n] \in Slot
    BY DEF FriendTypes
  <2>2. Zeroed \in Slot /\ {"KILLED", "BROKEN"} \subseteq Status
    BY ZeroedType DEF Status
  <2> QED
    BY <2>1, <2>2, SlotStatus DEF Left
<1>3. ft' \in [Dir -> [Number -> Slot]]
  BY <1>2 DEF BreakAll
<1>4. disk' \in Disk
  <2>1. ASSUME NEW n \in Number PROVE AfterBreak("out", n, disk).out[n] \in Record
    BY AfterBreakType DEF Disk, Dir
  <2>2. ASSUME NEW f \in InFile
        PROVE  LET holds == {n \in Number : ft["in"][n].file = f}
               IN (IF holds = {} THEN disk["in"][f]
                   ELSE AfterBreak("in", Min(holds), disk).in[f]) \in Record
    <3>1. disk["in"][f] \in Record
      BY DEF DiskTypes
    <3>2. CASE {n \in Number : ft["in"][n].file = f} # {}
      <4>1. AfterBreak("in", Min({n \in Number : ft["in"][n].file = f}), disk) \in Disk
        BY <3>2, FirstHolder, AfterBreakType DEF Dir
      <4> QED
        BY <3>1, <4>1 DEF Disk
    <3> QED
      BY <3>1, <3>2
  <2> QED
    BY <2>1, <2>2 DEF BreakAll, Disk
<1>5. HistoryTypes'
  BY DEF BreakAll, HistoryTypes, FilesKnown
<1> QED
  BY <1>1, <1>3, <1>4, <1>5 DEF FriendTypes, DiskTypes, Disk

-----------------------------------------------------------------------------
(* Every action keeps the types *)

LEMMA MessageTypes ==
    /\ \A b \in BOOLEAN : Online(b) \in Message
    /\ \A d \in Dir, n \in Number :
         [tag |-> "FILE_STATUS_UPDATE_DATA", dir |-> d, number |-> n] \in Message
BY DEF Online, Message

LEMMA AppendTypes ==
    ASSUME UITypes, NEW m \in Message, Len(uiq) < MaxQueue
    PROVE  Append(uiq, m) \in Seq(Message) /\ Len(Append(uiq, m)) <= MaxQueue
BY DEF UITypes

LEMMA RequestType == NoRequest \in Request
BY DEF NoRequest, Request, Dir, Number

LEMMA NewInstanceTypes ==
    ASSUME TypeOK, NewInstance
    PROVE  /\ FriendTypes' /\ DiskTypes' /\ ThreadTypes' /\ CoreTypes' /\ HistoryTypes'
           /\ online' = FALSE /\ rows' = {} /\ ui' = "loop"
<1>1. FriendTypes'
  BY ZeroedType DEF NewInstance, FreshFriend, FriendTypes
<1>2. CoreTypes'
  BY NoPipeType DEF NewInstance, AllFree, CoreTypes
<1>3. ThreadTypes'
  BY DEF NewInstance, Idle, ThreadTypes, Dir
<1> QED
  BY <1>1, <1>2, <1>3 DEF NewInstance, FreshFriend, TypeOK, DiskTypes, HistoryTypes

LEMMA CommandTypes == ASSUME TypeOK, FilesKnown, Command PROVE TypeOK'
<1> USE DEF TypeOK
<1>1. CASE Control
  <2>1. Target.dir \in Dir /\ Target.number \in Number
    BY NamedType DEF Target, UITypes, Request, Place
  <2>2. FriendTypes' /\ DiskTypes' /\ CoreTypes' /\ HistoryTypes'
    <3>1. CASE UNCHANGED <<friendVars, disk, core, history>>
      BY <1>1, <3>1 DEF Control, FriendTypes, DiskTypes, CoreTypes, HistoryTypes
    <3>2. CASE \/ LocalResume(Target.dir, Target.number)
               \/ LocalPause(Target.dir, Target.number)
               \/ LocalCancel(Target.dir, Target.number)
      BY <1>1, <2>1, <3>2, LocalControlTypes DEF Control
    <3> QED
      BY <1>1, <3>1, <3>2 DEF Control
  <2> QED
    BY <1>1, <2>2, RequestType DEF Control, UITypes, ThreadTypes
<1>2. CASE Accept
  <2>1. PICK p \in {Target, [dir |-> request.dir, number |-> request.number]} :
          \/ /\ StartWrite(p.dir, p.number) \/ FailToWriteFile(p.dir, p.number)
             /\ accepted' = IF p.dir = "in" THEN accepted \cup ({ft[p.dir][p.number].file} \ {NoFile})
                            ELSE accepted
          \/ UNCHANGED <<friendVars, disk, core, accepted>>
    BY <1>2 DEF Accept
  <2>2. p.dir \in Dir /\ p.number \in Number
    BY NamedType DEF Target, UITypes, Request, Place
  <2>3. FriendTypes' /\ DiskTypes' /\ CoreTypes'
    <3>1. CASE StartWrite(p.dir, p.number) \/ FailToWriteFile(p.dir, p.number)
      BY <1>2, <2>2, <3>1, AcceptTypes DEF Accept
    <3>2. CASE UNCHANGED <<friendVars, disk, core, accepted>>
      BY <1>2, <3>2 DEF Accept, FriendTypes, DiskTypes, CoreTypes
    <3> QED
      BY <2>1, <3>1, <3>2
  <2>4. accepted' \subseteq InFile
    BY <2>1, <2>2 DEF FilesKnown, HistoryTypes
  <2> QED
    BY <1>2, <2>3, <2>4, RequestType DEF Accept, UITypes, ThreadTypes, HistoryTypes
<1>3. ASSUME NEW f \in OutFile, NEW kind \in {"file", "memory"}, SendNew(f, kind) PROVE TypeOK'
  <2>1. /\ NextNumber \in Number
        /\ size' \in [Dir -> 0..LastNumber + 1] /\ active' \in [Dir -> Int]
        /\ core' \in [Dir -> [Number -> Pipe]]
    BY <1>3, TakeNumberTypes DEF SendNew
  <2>2. ft' \in [Dir -> [Number -> Slot]] /\ disk' \in Disk
    BY <1>3, <2>1, SentTypes DEF SendNew
  <2>3. rows' \subseteq [dir : Dir, number : Number, file : OutFile \cup InFile \cup {NoFile}]
    BY <1>3, <2>1 DEF SendNew, RowsAfter, UITypes, Dir
  <2> QED
    BY <1>3, <2>1, <2>2, <2>3
    DEF SendNew, FriendTypes, DiskTypes, Disk, CoreTypes, UITypes, ThreadTypes, HistoryTypes
<1> QED
  BY <1>1, <1>2, <1>3 DEF Command

LEMMA GoOnTypes == ASSUME TypeOK, FilesKnown, GoOn PROVE TypeOK'
<1> USE DEF TypeOK
<1>1. CASE EndDecon
  <2>1. thread.dir \in Dir /\ thread.number \in Number
    BY <1>1 DEF EndDecon, ThreadTypes
  <2>2. FriendTypes'
    BY <1>1, <2>1, DeconTypes DEF EndDecon, Place
  <2>3. CoreTypes'
    BY <1>1, <2>1, NoPipeType, CoreType DEF EndDecon, CoreTypes
  <2> QED
    BY <1>1, <2>2, <2>3 DEF EndDecon, Idle, UITypes, DiskTypes, ThreadTypes, HistoryTypes, Dir
<1>2. CASE ResumeNext
  <2> DEFINE i == thread.number
  <2>1. i \in Number /\ i + 1 \in 0..LastNumber + 1 /\ thread.at = "online"
    BY <1>2 DEF ResumeNext, ThreadTypes, Number
  <2>2. ThreadTypes'
    BY <1>2, <2>1 DEF ResumeNext, ThreadTypes
  <2>3. ASSUME NEW fts \in [Dir -> [Number -> Slot]]
        PROVE  Unlinked(fts, i) \in [Dir -> [Number -> Slot]]
    <3>1. [fts["out"][i] EXCEPT !.resume_file = IF @ = "linked" THEN "unlinked" ELSE @] \in Slot
      BY <2>1 DEF Dir, Slot
    <3> QED
      BY <2>1, <3>1 DEF Unlinked
  <2>4. ASSUME NEW dk \in Disk PROVE [dk EXCEPT !["out"][i] = NoRecord] \in Disk
    BY DiskType, ZeroedType DEF Dir
  <2>5. CASE SendAgain(i)
    <3>1. disk["out"][i].file \in sent \cup {NoFile} /\ disk["out"][i].file \in OutFile \cup {NoFile}
      BY <2>1 DEF FilesKnown, HistoryTypes
    <3>2. /\ NextNumber \in Number
          /\ size' \in [Dir -> 0..LastNumber + 1] /\ active' \in [Dir -> Int]
          /\ core' \in [Dir -> [Number -> Pipe]]
      BY <2>5, TakeNumberTypes DEF SendAgain
    <3>3. ft' \in [Dir -> [Number -> Slot]] /\ disk' \in Disk
      BY <2>3, <2>4, <2>5, <3>1, <3>2, SentTypes DEF SendAgain
    <3>4. rows' \subseteq [dir : Dir, number : Number, file : OutFile \cup InFile \cup {NoFile}]
      BY <2>5, <3>1, <3>2 DEF SendAgain, RowsAfter, UITypes, Dir
    <3> QED
      BY <1>2, <2>2, <2>5, <3>2, <3>3, <3>4
      DEF ResumeNext, SendAgain, FriendTypes, DiskTypes, Disk, CoreTypes, UITypes, HistoryTypes
  <2>6. CASE DropRecord(i)
    <3>1. ft' \in [Dir -> [Number -> Slot]]
      BY <2>3, <2>6 DEF DropRecord, FriendTypes
    <3>2. disk' \in Disk
      BY <2>4, <2>6 DEF DropRecord, DiskTypes, Disk
    <3> QED
      BY <1>2, <2>2, <2>6, <3>1, <3>2
      DEF ResumeNext, DropRecord, FriendTypes, DiskTypes, Disk, CoreTypes, UITypes, HistoryTypes
  <2> QED
    BY <1>2, <2>5, <2>6 DEF ResumeNext
<1>3. CASE FinishOnline
  <2>1. FriendTypes' /\ CoreTypes'
    <3>1. CASE TakeNumber /\ ft' = Sent(NoFile, "avatar")
      BY <1>3, <3>1, TakeNumberTypes, SentTypes DEF FinishOnline, FriendTypes, CoreTypes
    <3>2. CASE UNCHANGED <<friendVars, core>>
      BY <1>3, <3>2 DEF FinishOnline, FriendTypes, CoreTypes
    <3> QED
      BY <1>3, <3>1, <3>2 DEF FinishOnline
  <2>2. uiq' \in Seq(Message) /\ Len(uiq') <= MaxQueue
    BY <1>3, MessageTypes, AppendTypes DEF FinishOnline, Told
  <2> QED
    BY <1>3, <2>1, <2>2 DEF FinishOnline, Idle, UITypes, DiskTypes, ThreadTypes, HistoryTypes, Dir
<1>4. CASE Restart
  BY <1>4, NewInstanceTypes DEF Restart, UITypes
<1> QED
  BY <1>1, <1>2, <1>3, <1>4 DEF GoOn

LEMMA IncomingTypes ==
    ASSUME TypeOK, FilesKnown, NEW n \in Number,
           IncomingRequest(n) \/ RefuseAvatar(n) \/ Chunk(n) \/ ReadFails(n)
    PROVE  TypeOK'
<1> USE DEF TypeOK
<1>1. CASE IncomingRequest(n)
  <2>1. CASE \E f \in InFile : /\ IncomingFile(n, f)
                               /\ rows' = rows \cup {[dir |-> "in", number |-> n, file |-> f]}
    <3>1. FriendTypes' /\ CoreTypes' /\ DiskTypes'
      BY <1>1, <2>1, IncomingFileTypes DEF IncomingRequest
    <3>2. rows' \subseteq [dir : Dir, number : Number, file : OutFile \cup InFile \cup {NoFile}]
      BY <2>1 DEF UITypes, Dir
    <3> QED
      BY <1>1, <3>1, <3>2 DEF IncomingRequest, UITypes, ThreadTypes, HistoryTypes
  <2>2. CASE /\ UNCHANGED <<disk, rows>>
             /\ \E kind \in {"avatar", "memory"} :
                  Arrive(n, [Zeroed EXCEPT !.in_use = TRUE, !.kind = kind, !.status = "ACTIVE"], TRUE)
    <3>1. ASSUME NEW kind \in {"avatar", "memory"}
          PROVE  [Zeroed EXCEPT !.in_use = TRUE, !.kind = kind, !.status = "ACTIVE"] \in Slot
      BY DEF Zeroed, Slot, Status
    <3>2. FriendTypes' /\ CoreTypes'
      BY <1>1, <2>2, <3>1, ArriveTypes DEF IncomingRequest
    <3> QED
      BY <1>1, <2>2, <3>2 DEF IncomingRequest, UITypes, DiskTypes, ThreadTypes, HistoryTypes
  <2> QED
    BY <1>1, <2>1, <2>2 DEF IncomingRequest
<1>2. CASE RefuseAvatar(n)
  <2>1. CASE Kill("in", n) /\ UNCHANGED core
    <3>1. FriendTypes' /\ DiskTypes' /\ HistoryTypes'
      BY <2>1, KillTypes DEF Dir
    <3> QED
      BY <1>2, <2>1, <3>1 DEF RefuseAvatar, UITypes, CoreTypes, ThreadTypes
  <2>2. CASE /\ core' = [core EXCEPT !["in"][n] = Offered]
             /\ UNCHANGED <<friendVars, disk, history>>
    <3>1. core' \in [Dir -> [Number -> Pipe]]
      BY <2>2, NoPipeType, CoreType DEF Dir
    <3> QED
      BY <1>2, <2>2, <3>1
      DEF RefuseAvatar, FriendTypes, UITypes, DiskTypes, CoreTypes, ThreadTypes, HistoryTypes
  <2> QED
    BY <1>2, <2>1, <2>2 DEF RefuseAvatar
<1>3. CASE Chunk(n)
  <2>1. CASE disk' = Updated(disk, "in", n, ft["in"][n]) /\ UNCHANGED <<friendVars, core, history>>
    <3>1. disk' \in Disk
      BY <2>1, ResumeFileTypes DEF FriendTypes, DiskTypes, Disk, Dir
    <3> QED
      BY <1>3, <2>1, <3>1
      DEF Chunk, FriendTypes, UITypes, DiskTypes, Disk, CoreTypes, ThreadTypes, HistoryTypes
  <2>2. CASE LocalCancel("in", n)
    BY <1>3, <2>2, LocalControlTypes DEF Chunk, UITypes, ThreadTypes, Dir
  <2> QED
    BY <1>3, <2>1, <2>2 DEF Chunk
<1>4. CASE ReadFails(n)
  BY <1>4, LocalControlTypes DEF ReadFails, UITypes, ThreadTypes, Dir
<1> QED
  BY <1>1, <1>2, <1>3, <1>4

LEMMA CompleteTypes ==
    ASSUME TypeOK, FilesKnown, NEW d \in Dir, NEW n \in Number,
           Complete(d, n) \/ CompleteInactive(d, n) \/ RemoteControl(d, n)
    PROVE  TypeOK'
<1> USE DEF TypeOK
<1>0. ft[d][n] \in Slot /\ Removed(disk, d, n, ft[d][n]) \in Disk
  BY ResumeFileTypes DEF FriendTypes, DiskTypes, Disk
<1>1. CASE Complete(d, n)
  <2>1. [ft[d][n] EXCEPT !.status = "COMPLETED", !.decon_wait = TRUE] \in Slot
    BY <1>0 DEF Slot, Status
  <2>2. FriendTypes'
    BY <1>1, <2>1 DEF Complete, FriendTypes
  <2>3. uiq' \in Seq(Message) /\ Len(uiq') <= MaxQueue
    BY <1>1, MessageTypes, AppendTypes DEF Complete
  <2>4. UITypes'
    BY <1>1, <2>3 DEF Complete, UITypes
  <2>5. ThreadTypes'
    BY <1>1 DEF Complete, ThreadTypes, Number
  <2>6. HistoryTypes' /\ DiskTypes' /\ CoreTypes'
    BY <1>0, <1>1, EndedType DEF Complete, HistoryTypes, DiskTypes, Disk, CoreTypes
  <2> QED
    BY <2>2, <2>4, <2>5, <2>6
<1>2. CASE CompleteInactive(d, n)
  <2>1. FriendTypes'
    BY <1>2, NamedType, DeconTypes DEF CompleteInactive
  <2>2. core' \in [Dir -> [Number -> Pipe]]
    BY <1>2, NoPipeType, CoreType DEF CompleteInactive
  <2> QED
    BY <1>0, <1>2, <2>1, <2>2, EndedType
    DEF CompleteInactive, HistoryTypes, DiskTypes, Disk, CoreTypes, UITypes, ThreadTypes
<1>3. CASE RemoteControl(d, n)
  BY <1>3, RemoteControlTypes DEF RemoteControl, UITypes, ThreadTypes
<1> QED
  BY <1>1, <1>2, <1>3

LEMMA ConnectionTypes ==
    ASSUME TypeOK, FilesKnown, Connect \/ Disconnect \/ OtherOffline PROVE TypeOK'
<1> USE DEF TypeOK
<1>1. CASE Connect
  <2>1. uiq' \in Seq(Message) /\ Len(uiq') <= MaxQueue
    BY <1>1, MessageTypes, AppendTypes DEF Connect, MayFlip, Told, UITypes
  <2>2. ThreadTypes'
    <3>1. \/ thread' = [at |-> "online", dir |-> "out", number |-> 0]
          \/ UNCHANGED thread
      BY <1>1 DEF Connect
    <3>2. CASE thread' = [at |-> "online", dir |-> "out", number |-> 0]
      BY <3>2 DEF ThreadTypes, Dir
    <3> QED
      BY <3>1, <3>2 DEF ThreadTypes
  <2> QED
    BY <1>1, <2>1, <2>2 DEF Connect, FriendTypes, UITypes, DiskTypes, CoreTypes, HistoryTypes
<1>2. CASE Disconnect
  <2>1. uiq' \in Seq(Message) /\ Len(uiq') <= MaxQueue
    BY <1>2, MessageTypes, AppendTypes DEF Disconnect, MayFlip, Told
  <2>2. FriendTypes' /\ DiskTypes' /\ HistoryTypes'
    BY <1>2, BreakAllTypes DEF Disconnect, FriendTypes, DiskTypes, HistoryTypes
  <2>3. core' \in [Dir -> [Number -> Pipe]]
    BY <1>2, NoPipeType DEF Disconnect, AllFree
  <2> QED
    BY <1>2, <2>1, <2>2, <2>3 DEF Disconnect, UITypes, CoreTypes, ThreadTypes
<1>3. CASE OtherOffline
  <2>1. FriendTypes'
    BY <1>3, ZeroedType, DeconTypes DEF OtherOffline
  <2> QED
    BY <1>3, <2>1 DEF OtherOffline, UITypes, DiskTypes, CoreTypes, ThreadTypes, HistoryTypes
<1> QED
  BY <1>1, <1>2, <1>3

LEMMA HeadType ==
    ASSUME UITypes, uiq # <<>>
    PROVE  Head(uiq) \in Message /\ Tail(uiq) \in Seq(Message) /\ Len(Tail(uiq)) <= MaxQueue
BY DEF UITypes

LEMMA UserTypes ==
    ASSUME TypeOK, Handle \/ Click \/ SettingsChanged \/ Crash PROVE TypeOK'
<1> USE DEF TypeOK
<1>1. CASE Handle
  <2> DEFINE m == Head(uiq)
  <2>1. m \in Message /\ uiq' \in Seq(Message) /\ Len(uiq') <= MaxQueue
    BY <1>1, HeadType DEF Handle
  <2>2. CASE m.tag = "FRIEND_ONLINE" /\ online' = m.status /\ UNCHANGED ft
    <3>1. m.status \in BOOLEAN
      BY <2>1, <2>2 DEF Message
    <3> QED
      BY <1>1, <2>1, <2>2, <3>1
      DEF Handle, FriendTypes, UITypes, DiskTypes, ThreadTypes, CoreTypes, HistoryTypes
  <2>3. CASE /\ m.tag = "FILE_STATUS_UPDATE_DATA" /\ UNCHANGED online
             /\ ft' = [ft EXCEPT ![m.dir][m.number].decon_wait = FALSE]
    <3>1. m.dir \in Dir /\ m.number \in Number
      BY <2>1, <2>3 DEF Message
    <3>2. ft[m.dir][m.number] \in Slot
      BY <3>1 DEF FriendTypes
    <3>3. [ft[m.dir][m.number] EXCEPT !.decon_wait = FALSE] \in Slot
      BY <3>2 DEF Slot
    <3>4. ft' \in [Dir -> [Number -> Slot]]
      BY <2>3, <3>1, <3>3 DEF FriendTypes
    <3> QED
      BY <1>1, <2>1, <2>3, <3>4
      DEF Handle, FriendTypes, UITypes, DiskTypes, ThreadTypes, CoreTypes, HistoryTypes
  <2> QED
    BY <1>1, <2>2, <2>3 DEF Handle
<1>2. CASE Click
  <2>1. PICK r \in rows, tag \in {"TOX_FILE_CANCEL", "TOX_FILE_PAUSE", "TOX_FILE_ACCEPT", "TOX_FILE_RESUME"} :
          request' = [tag |-> tag, dir |-> r.dir, number |-> r.number]
    BY <1>2 DEF Click, Asks
  <2>2. request' \in Request
    BY <2>1 DEF UITypes, Request
  <2> QED
    BY <1>2, <2>2 DEF Click, FriendTypes, UITypes, DiskTypes, ThreadTypes, CoreTypes, HistoryTypes
<1>3. CASE SettingsChanged
  <2>1. FriendTypes'
    BY <1>3, ZeroedType DEF SettingsChanged, FreshFriend, FriendTypes
  <2> QED
    BY <1>3, <2>1
    DEF SettingsChanged, FreshFriend, UITypes, DiskTypes, ThreadTypes, CoreTypes, HistoryTypes
<1>4. CASE Crash
  <2>1. uiq' \in Seq(Message) /\ Len(uiq') <= MaxQueue
    BY <1>4 DEF Crash
  <2> QED
    BY <1>4, <2>1, NewInstanceTypes, RequestType DEF Crash, UITypes
<1> QED
  BY <1>1, <1>2, <1>3, <1>4

LEMMA TypesStep == ASSUME TypeOK, FilesKnown, [Next]_vars PROVE TypeOK'
<1>1. CASE Next
  BY <1>1, CommandTypes, GoOnTypes, IncomingTypes, CompleteTypes, ConnectionTypes, UserTypes
  DEF Next, Callback
<1>2. CASE UNCHANGED vars
  BY <1>2 DEF vars, TypeOK, FriendTypes, UITypes, DiskTypes, ThreadTypes, CoreTypes, HistoryTypes
<1> QED
  BY <1>1, <1>2

LEMMA TypesInit == Init => TypeOK /\ FilesKnown
<1> SUFFICES ASSUME Init PROVE TypeOK /\ FilesKnown
  OBVIOUS
<1>1. FriendTypes
  BY ZeroedType DEF Init, FriendTypes
<1>2. UITypes
  <2>1. uiq \in Seq(Message) /\ Len(uiq) <= MaxQueue
    BY DEF Init
  <2> QED
    BY <2>1, RequestType DEF Init, UITypes
<1>3. DiskTypes
  BY ZeroedType DEF Init, DiskTypes
<1>4. ThreadTypes
  BY DEF Init, Idle, ThreadTypes, Dir
<1>5. CoreTypes
  BY NoPipeType DEF Init, AllFree, CoreTypes
<1>6. HistoryTypes
  BY DEF Init, HistoryTypes
<1>7. FilesKnown
  BY DEF Init, FilesKnown, Zeroed, NoRecord, Dir
<1> QED
  BY <1>1, <1>2, <1>3, <1>4, <1>5, <1>6, <1>7 DEF TypeOK

-----------------------------------------------------------------------------
(* The invariant *)

\* A slot that takes in a file knows which one, and has somewhere to write it
\* to only if it was accepted; so has an .ftinfo.
AcceptedFirst ==
    /\ \A n \in Number :
         LET s == ft["in"][n]
         IN /\ s.in_use /\ s.kind = "file" => s.file # NoFile
            /\ s.file # NoFile /\ (s.path \/ s.via_file) => s.file \in accepted
    /\ \A f \in InFile : disk["in"][f].path => f \in accepted

\* An outgoing file is in one place only: one slot, or one .ftoutfo that
\* ft_friend_online will send it from.
HeldOnce ==
    /\ \A n \in Number : ft["out"][n].file # NoFile => ft["out"][n].in_use
    /\ \A m, n \in Number :
         ft["out"][m].file = ft["out"][n].file /\ ft["out"][n].file # NoFile => m = n
    /\ \A i, n \in Number :
         disk["out"][i].resumeable /\ disk["out"][i].file = ft["out"][n].file
           => ft["out"][n].file = NoFile
    /\ \A i, j \in Number :
         /\ disk["out"][i].resumeable /\ disk["out"][j].resumeable
         /\ disk["out"][i].file = disk["out"][j].file
         /\ disk["out"][j].file # NoFile
         => i = j

\* A finished file is in no place but the slot that ft_decon is about to free.
FinishedHeld ==
    /\ \A n \in Number :
         ft["out"][n].file \in finished =>
           /\ thread.at = "decon" /\ thread.dir = "out" /\ thread.number = n
           /\ ft["out"][n].status = "COMPLETED"
    /\ \A n \in Number : disk["out"][n].resumeable => disk["out"][n].file \notin finished

Files == FilesKnown /\ AcceptedFirst /\ HeldOnce /\ FinishedHeld

-----------------------------------------------------------------------------
(* Steps that bring no file anywhere *)

KeptOut(t, s) == t.file # NoFile => t.file = s.file /\ (s.in_use => t.in_use)

KeptIn(t, s) ==
    /\ t.file # NoFile => t.file = s.file
    /\ t.in_use /\ t.kind = "file" => s.in_use /\ s.kind = "file" /\ t.file = s.file
    /\ t.file # NoFile /\ (t.path \/ t.via_file) => s.path \/ s.via_file \/ s.file \in accepted'

QuietOut ==
    /\ \A n \in Number : KeptOut(ft'["out"][n], ft["out"][n])
    /\ \A i \in Number :
         /\ disk'["out"][i].file \in {disk["out"][i].file, ft["out"][i].file, NoFile}
         /\ disk'["out"][i].resumeable /\ disk'["out"][i].file # NoFile
              => disk'["out"][i] = disk["out"][i]

QuietIn ==
    /\ \A n \in Number : KeptIn(ft'["in"][n], ft["in"][n])
    /\ \A f \in InFile : disk'["in"][f].path => f \in accepted'
    /\ accepted \subseteq accepted'

\* What is finished by the step was in a slot that has it no longer.
QuietEnd ==
    /\ finished \subseteq finished' /\ sent' = sent
    /\ \A f \in finished' \ finished :
         f # NoFile /\ \E m \in Number : ft["out"][m].file = f /\ ft'["out"][m].file = NoFile
    /\ \A n \in Number : ft["out"][n].file \in finished =>
         \/ ft'["out"][n].file = NoFile
         \/ UNCHANGED thread /\ ft'["out"][n].status = "COMPLETED"

LEMMA NotFinished == ASSUME HistoryTypes PROVE NoFile \notin finished
BY DEF HistoryTypes

LEMMA QuietFilesKnown ==
    ASSUME TypeOK, Files, QuietOut, QuietIn, sent' = sent PROVE FilesKnown'
BY DEF Files, FilesKnown, QuietOut, QuietIn, KeptOut, KeptIn

LEMMA QuietAccepted ==
    ASSUME TypeOK, Files, QuietIn PROVE AcceptedFirst'
<1>1. ASSUME NEW n \in Number
      PROVE  LET s == ft'["in"][n]
             IN /\ s.in_use /\ s.kind = "file" => s.file # NoFile
                /\ s.file # NoFile /\ (s.path \/ s.via_file) => s.file \in accepted'
  BY DEF Files, AcceptedFirst, QuietIn, KeptIn
<1> QED
  BY <1>1 DEF AcceptedFirst, QuietIn

LEMMA QuietHeldOnce ==
    ASSUME TypeOK, Files, QuietOut PROVE HeldOnce'
BY DEF Files, HeldOnce, QuietOut, KeptOut

LEMMA QuietFinished ==
    ASSUME TypeOK, Files, QuietOut, QuietEnd PROVE FinishedHeld'
<1>1. ASSUME NEW n \in Number, ft'["out"][n].file \in finished'
      PROVE  /\ thread'.at = "decon" /\ thread'.dir = "out" /\ thread'.number = n
             /\ ft'["out"][n].status = "COMPLETED"
  <2>1. CASE ft'["out"][n].file \in finished
    BY <1>1, <2>1, NotFinished DEF TypeOK, Files, FinishedHeld, QuietOut, QuietEnd, KeptOut
  <2>2. CASE ft'["out"][n].file \in finished' \ finished
    BY <1>1, <2>2 DEF Files, HeldOnce, QuietOut, QuietEnd, KeptOut
  <2> QED
    BY <1>1, <2>1, <2>2
<1>2. ASSUME NEW n \in Number, disk'["out"][n].resumeable, disk'["out"][n].file \in finished'
      PROVE  FALSE
  <2>1. disk'["out"][n].file # NoFile /\ disk'["out"][n] = disk["out"][n]
    BY <1>2, NotFinished DEF TypeOK, QuietOut, QuietEnd
  <2>2. disk["out"][n].file \in finished' \ finished
    BY <1>2, <2>1 DEF Files, FinishedHeld
  <2> QED
    BY <1>2, <2>1, <2>2 DEF Files, HeldOnce, QuietEnd
<1> QED
  BY <1>1, <1>2 DEF FinishedHeld

LEMMA Quiet ==
    ASSUME TypeOK, Files, QuietOut, QuietIn, QuietEnd PROVE Files'
BY QuietFilesKnown, QuietAccepted, QuietHeldOnce, QuietFinished DEF Files, QuietEnd

\* What is left of a slot that a step frees, or only changes the status of.
Rest(s) == {s, Zeroed} \cup {[r EXCEPT !.status = v] : r \in {s, Zeroed}, v \in Status}

LEMMA RestKept ==
    ASSUME NEW s \in Slot, NEW t \in Rest(s)
    PROVE  /\ KeptOut(t, s) /\ KeptIn(t, s)
           /\ t.file = NoFile \/ t.file = s.file
BY DEF Rest, KeptOut, KeptIn, Slot, Zeroed

Settled == \A d \in Dir, n \in Number : ft'[d][n] \in Rest(ft[d][n])

LEMMA SettledKept ==
    ASSUME FriendTypes, Settled
    PROVE  /\ \A n \in Number : KeptOut(ft'["out"][n], ft["out"][n])
           /\ \A n \in Number : KeptIn(ft'["in"][n], ft["in"][n])
<1>1. \A d \in Dir, n \in Number : ft[d][n] \in Slot
  BY DEF FriendTypes
<1> QED
  BY <1>1, RestKept DEF Settled, Dir

LEMMA KillSettled ==
    ASSUME FriendTypes, NEW d \in Dir, NEW n \in Number, Kill(d, n)
    PROVE  Settled /\ (ft[d][n].in_use => ft'[d][n] = Zeroed)
<1>1. Named(d, n) \in Place /\ (ft[d][n].in_use => Named(d, n) = [dir |-> d, number |-> n])
  BY NamedType DEF Named
<1>2. "KILLED" \in Status
  BY DEF Status
<1> DEFINE p == Named(d, n)
<1>3. ft' = [ft EXCEPT ![d][n].status = "KILLED", ![p.dir][p.number] = Zeroed]
  BY DEF Kill
<1>4. p.dir \in Dir /\ p.number \in Number
  BY <1>1 DEF Place
<1> HIDE DEF p
<1>5. ft'[p.dir][p.number] = Zeroed
  BY <1>3, <1>4 DEF FriendTypes
<1>6. ASSUME NEW e \in Dir, NEW m \in Number, ~(e = p.dir /\ m = p.number)
      PROVE  ft'[e][m] = IF e = d /\ m = n THEN [ft[d][n] EXCEPT !.status = "KILLED"] ELSE ft[e][m]
  BY <1>3, <1>4, <1>6 DEF FriendTypes
<1>7. Settled
  BY <1>2, <1>5, <1>6 DEF Settled, Rest
<1> QED
  BY <1>1, <1>5, <1>7 DEF p

\* ft_decon_resumable deletes the file that is named.
LEMMA RemovedFiles ==
    ASSUME TypeOK, Files, NEW d \in Dir, NEW n \in Number
    PROVE  /\ \A i \in Number : Removed(disk, d, n, ft[d][n])["out"][i] \in {disk["out"][i], NoRecord}
           /\ \A f \in InFile : Removed(disk, d, n, ft[d][n])["in"][f] \in {disk["in"][f], NoRecord}
<1>1. CASE d = "out"
  BY <1>1 DEF Removed, Name, TypeOK, DiskTypes
<1>2. CASE d = "in"
  BY <1>2 DEF Removed, Name, TypeOK, DiskTypes
<1> QED
  BY <1>1, <1>2 DEF Dir

LEMMA RemovedQuiet ==
    ASSUME TypeOK, Files, UNCHANGED accepted,
           \A i \in Number : disk'["out"][i] \in {disk["out"][i], NoRecord},
           \A f \in InFile : disk'["in"][f] \in {disk["in"][f], NoRecord},
           Settled
    PROVE  QuietOut /\ QuietIn
<1>1. NoRecord.file = NoFile /\ NoRecord.path = FALSE
  BY DEF NoRecord
<1> QED
  BY <1>1, SettledKept DEF QuietOut, QuietIn, TypeOK, Files, AcceptedFirst

\* toxcore_thread, where it is not in ft_decon, meets no finished file.
NoneDone == \A n \in Number : ft["out"][n].file \notin finished

LEMMA FreeNoneDone == ASSUME Files, thread.at # "decon" PROVE NoneDone
BY DEF Files, FinishedHeld, NoneDone

LEMMA KillQuiet ==
    ASSUME TypeOK, Files, NoneDone, NEW d \in Dir, NEW n \in Number, Kill(d, n)
    PROVE  QuietOut /\ QuietIn /\ QuietEnd
<1>1. Settled /\ (ft[d][n].in_use => ft'[d][n] = Zeroed)
  BY KillSettled DEF TypeOK
<1>2. QuietOut /\ QuietIn
  BY <1>1, RemovedFiles, RemovedQuiet DEF Kill
<1>3. Ended(d, n) # {} => d = "out" /\ ft[d][n].in_use /\ Ended(d, n) \subseteq {ft["out"][n].file} \ {NoFile}
  BY DEF Ended
<1>4. finished' = finished \cup Ended(d, n) /\ sent' = sent
  BY DEF Kill
<1>5. ASSUME NEW f \in Ended(d, n)
      PROVE  f # NoFile /\ ft["out"][n].file = f /\ ft'["out"][n].file = NoFile
  BY <1>1, <1>3 DEF Zeroed
<1>6. QuietEnd
  BY <1>4, <1>5 DEF QuietEnd, NoneDone
<1> QED
  BY <1>2, <1>6

LEMMA SettledQuiet ==
    ASSUME TypeOK, Files, NoneDone, Settled, UNCHANGED <<disk, history>>
    PROVE  QuietOut /\ QuietIn /\ QuietEnd
<1>1. QuietOut /\ QuietIn
  BY RemovedQuiet
<1> QED
  BY <1>1 DEF QuietEnd, NoneDone

LEMMA StatusSettled ==
    ASSUME FriendTypes, NEW d \in Dir, NEW n \in Number, NEW v \in Status,
           ft' = [ft EXCEPT ![d][n].status = v]
    PROVE  Settled
BY DEF Settled, Rest, FriendTypes

LEMMA SameSettled == ASSUME UNCHANGED ft PROVE Settled
BY DEF Settled, Rest

LEMMA LocalControlQuiet ==
    ASSUME TypeOK, Files, NoneDone, NEW d \in Dir, NEW n \in Number,
           LocalResume(d, n) \/ LocalPause(d, n) \/ LocalCancel(d, n)
    PROVE  QuietOut /\ QuietIn /\ QuietEnd
<1>0. ft[d][n] \in Slot /\ ft[d][n].status \in Status /\ FriendTypes
  BY DEF TypeOK, FriendTypes, Slot
<1>1. CASE LocalResume(d, n)
  <2>1. Settled
    BY <1>0, <1>1, StatusTypes, StatusSettled DEF LocalResume
  <2> QED
    BY <1>1, <2>1, SettledQuiet DEF LocalResume
<1>2. CASE LocalPause(d, n)
  <2>1. Settled
    BY <1>0, <1>2, StatusTypes, StatusSettled DEF LocalPause, Slot
  <2> QED
    BY <1>2, <2>1, SettledQuiet DEF LocalPause
<1>3. CASE LocalCancel(d, n)
  BY <1>3, KillQuiet, SameSettled, SettledQuiet DEF LocalCancel
<1> QED
  BY <1>1, <1>2, <1>3

LEMMA RemoteControlQuiet ==
    ASSUME TypeOK, Files, NoneDone, NEW d \in Dir, NEW n \in Number,
           RemoteResume(d, n) \/ RemotePause(d, n) \/ RemoteCancel(d, n)
    PROVE  QuietOut /\ QuietIn /\ QuietEnd
<1>0. ft[d][n] \in Slot /\ ft[d][n].status \in Status /\ FriendTypes
  BY DEF TypeOK, FriendTypes, Slot
<1>1. CASE RemoteResume(d, n)
  <2>1. Settled
    BY <1>0, <1>1, StatusTypes, StatusSettled DEF RemoteResume
  <2> QED
    BY <1>1, <2>1, SettledQuiet DEF RemoteResume
<1>2. CASE RemotePause(d, n)
  <2>1. Settled
    BY <1>0, <1>2, StatusTypes, StatusSettled DEF RemotePause
  <2> QED
    BY <1>2, <2>1, SettledQuiet DEF RemotePause
<1>3. CASE RemoteCancel(d, n)
  BY <1>3, KillQuiet, SameSettled, SettledQuiet DEF RemoteCancel
<1> QED
  BY <1>1, <1>2, <1>3

LEMMA AcceptQuiet ==
    ASSUME TypeOK, Files, NoneDone, NEW d \in Dir, NEW n \in Number,
           StartWrite(d, n) \/ FailToWriteFile(d, n),
           accepted' = IF d = "in" THEN accepted \cup ({ft[d][n].file} \ {NoFile}) ELSE accepted,
           UNCHANGED <<sent, finished>>
    PROVE  QuietOut /\ QuietIn /\ QuietEnd
<1>0. /\ FriendTypes /\ ft[d][n] \in Slot /\ disk \in Disk
      /\ "BROKEN" \in Status /\ "KILLED" \in Status
  BY DEF TypeOK, FriendTypes, DiskTypes, Disk, Status
<1>1. QuietEnd
  BY DEF QuietEnd, NoneDone
<1>2. CASE StartWrite(d, n)
  <2> DEFINE t == [Opened(ft[d][n], d) EXCEPT !.status = RunLocal(ft[d][n].status)]
  <2>1. ft' = [ft EXCEPT ![d][n] = t] /\ disk' = disk
    BY <1>2 DEF StartWrite
  <2>2. /\ t.in_use = ft[d][n].in_use /\ t.kind = ft[d][n].kind
        /\ t.file = IF d = "out" THEN NoFile ELSE ft[d][n].file
    BY <1>0 DEF Opened, Slot
  <2> HIDE DEF t
  <2>3. QuietOut
    BY <1>0, <2>1, <2>2 DEF QuietOut, KeptOut, FriendTypes, Dir
  <2>4. QuietIn
    BY <1>0, <2>1, <2>2 DEF QuietIn, KeptIn, FriendTypes, Files, AcceptedFirst, Dir
  <2> QED
    BY <1>1, <2>3, <2>4
<1>3. CASE FailToWriteFile(d, n)
  <2>1. Settled
    <3>1. CASE UNCHANGED ft
      BY <3>1, SameSettled
    <3>2. CASE ft[d][n].status # "KILLED"
      <4> DEFINE t == [(IF ft[d][n].in_use THEN Zeroed ELSE ft[d][n]) EXCEPT !.status = "KILLED"]
      <4>1. ft' = [ft EXCEPT ![d][n] = t, !["out"][0] = Zeroed]
        BY <1>3, <3>2 DEF FailToWriteFile
      <4>2. t \in Rest(ft[d][n])
        BY <1>0 DEF Rest
      <4>3. 0 \in Number /\ "out" \in Dir
        BY DEF Number, Dir
      <4> HIDE DEF t
      <4>4. ASSUME NEW e \in Dir, NEW m \in Number
            PROVE  ft'[e][m] = IF e = "out" /\ m = 0 THEN Zeroed
                               ELSE IF e = d /\ m = n THEN t ELSE ft[e][m]
        BY <1>0, <4>1, <4>3 DEF FriendTypes
      <4> QED
        BY <4>2, <4>4 DEF Settled, Rest
    <3> QED
      BY <1>3, <3>1, <3>2 DEF FailToWriteFile
  <2>2. /\ \A m \in Number : KeptOut(ft'["out"][m], ft["out"][m])
        /\ \A m \in Number : KeptIn(ft'["in"][m], ft["in"][m])
    BY <1>0, <2>1, SettledKept
  <2> DEFINE t == [Opened(ft[d][n], d) EXCEPT !.status = "BROKEN"]
  <2>3. t.file = IF d = "out" THEN NoFile ELSE ft[d][n].file
    BY <1>0 DEF Opened, Slot
  <2>4. disk' \in {disk, Removed(disk, d, n, ft[d][n]), Updated(disk, d, n, t)}
    BY <1>3 DEF FailToWriteFile
  <2> HIDE DEF t
  <2>5. CASE disk' \in {disk, Removed(disk, d, n, ft[d][n])}
    <3>1. /\ \A i \in Number : disk'["out"][i] \in {disk["out"][i], NoRecord}
          /\ \A f \in InFile : disk'["in"][f] \in {disk["in"][f], NoRecord}
      BY <2>5, RemovedFiles
    <3>2. NoRecord.file = NoFile /\ NoRecord.path = FALSE
      BY DEF NoRecord
    <3>3. accepted \subseteq accepted'
      OBVIOUS
    <3> QED
      BY <1>1, <2>2, <3>1, <3>2, <3>3 DEF QuietOut, QuietIn, Files, AcceptedFirst
  <2>6. CASE disk' = Updated(disk, d, n, t)
    <3>1. \A i \in Number : disk'["out"][i] = disk["out"][i] \/ disk'["out"][i].file = NoFile
      BY <1>0, <2>3, <2>6 DEF Updated, Written, Name, Disk, Dir
    <3>2. \A f \in InFile : disk'["in"][f] = disk["in"][f] \/ f \in accepted'
      <4>1. CASE d = "out"
        BY <1>0, <2>6, <4>1 DEF Updated, Disk
      <4>2. CASE d = "in"
        <5>1. \A f \in InFile : disk'["in"][f] = disk["in"][f] \/ f = ft[d][n].file
          BY <1>0, <2>3, <2>6, <4>2 DEF Updated, Name, Disk
        <5> QED
          BY <4>2, <5>1
      <4> QED
        BY <4>1, <4>2 DEF Dir
    <3> QED
      BY <1>1, <2>2, <3>1, <3>2 DEF QuietOut, QuietIn, Files, AcceptedFirst
  <2> QED
    BY <2>4, <2>5, <2>6
<1> QED
  BY <1>2, <1>3

LEMMA CompleteInactiveQuiet ==
    ASSUME TypeOK, Files, NoneDone, NEW d \in Dir, NEW n \in Number, CompleteInactive(d, n)
    PROVE  QuietOut /\ QuietIn /\ QuietEnd
<1>1. Named(d, n) \in Place /\ (ft[d][n].in_use => Named(d, n) = [dir |-> d, number |-> n])
  BY NamedType DEF Named
<1> DEFINE p == Named(d, n)
<1>2. ft' = [ft EXCEPT ![p.dir][p.number] = Zeroed]
  BY DEF CompleteInactive, Decon
<1>3. p.dir \in Dir /\ p.number \in Number
  BY <1>1 DEF Place
<1> HIDE DEF p
<1>4. Settled /\ ft'[p.dir][p.number] = Zeroed
  BY <1>2, <1>3 DEF Settled, Rest, TypeOK, FriendTypes
<1>5. QuietOut /\ QuietIn
  BY <1>4, RemovedFiles, RemovedQuiet DEF CompleteInactive
<1>6. ASSUME NEW f \in Ended(d, n)
      PROVE  f # NoFile /\ ft["out"][n].file = f /\ ft'["out"][n].file = NoFile
  BY <1>1, <1>4 DEF Ended, Zeroed, p
<1>7. finished' = finished \cup Ended(d, n) /\ sent' = sent
  BY DEF CompleteInactive
<1>8. QuietEnd
  BY <1>6, <1>7 DEF QuietEnd, NoneDone
<1> QED
  BY <1>5, <1>8

LEMMA EndDeconQuiet ==
    ASSUME TypeOK, Files, EndDecon PROVE QuietOut /\ QuietIn /\ QuietEnd
<1>1. /\ thread.dir \in Dir /\ thread.number \in Number
      /\ ft' = [ft EXCEPT ![thread.dir][thread.number] = Zeroed]
  BY DEF EndDecon, Decon, TypeOK, ThreadTypes
<1>2. Settled
  BY <1>1 DEF Settled, Rest, TypeOK, FriendTypes
<1>3. QuietOut /\ QuietIn
  BY <1>2, RemovedQuiet DEF EndDecon
<1>4. \A n \in Number : ft["out"][n].file \in finished => ft'["out"][n].file = NoFile
  <2>1. Zeroed.file = NoFile
    BY DEF Zeroed
  <2> QED
    BY <1>1, <2>1 DEF Files, FinishedHeld, TypeOK, FriendTypes
<1> QED
  BY <1>3, <1>4 DEF QuietEnd, EndDecon

-----------------------------------------------------------------------------
(* Steps that write an .ftoutfo to send from, send a file, take one in or  *)
(* finish one                                                              *)

\* The friend is lost: the files leave the slots for the resume files.
LEMMA BreakAllFiles == ASSUME TypeOK, Files, NoneDone, BreakAll PROVE Files'
<1>0. FriendTypes /\ disk \in Disk
  BY DEF TypeOK, DiskTypes, Disk
<1>1. Settled
  <2>1. ASSUME NEW d \in Dir, NEW n \in Number PROVE Left(d, n) \in Rest(ft[d][n])
    <3>1. {"KILLED", "BROKEN"} \subseteq Status
      BY DEF Status
    <3> QED
      BY <3>1 DEF Left, Rest
  <2> QED
    BY <2>1 DEF BreakAll, Settled
<1>2. \A n \in Number : ft'["out"][n].file = NoFile
  <2>1. ASSUME NEW n \in Number PROVE ft'["out"][n].file = NoFile
    <3>1. ft'["out"][n] = Left("out", n) /\ ft["out"][n] \in Slot
      BY <1>0 DEF BreakAll, FriendTypes, Dir
    <3>2. ft["out"][n].in_use \/ ft["out"][n].file = NoFile
      BY DEF Files, HeldOnce
    <3> QED
      BY <3>1, <3>2 DEF Left, Zeroed, Slot
  <2> QED
    BY <2>1
<1>3. ASSUME NEW n \in Number
      PROVE  \/ disk'["out"][n] \in {disk["out"][n], NoRecord}
             \/ disk'["out"][n].file = ft["out"][n].file
  <2>1. disk'["out"][n] = AfterBreak("out", n, disk)["out"][n]
    BY DEF BreakAll
  <2>2. CASE AfterBreak("out", n, disk) = Updated(disk, "out", n, [ft["out"][n] EXCEPT !.status = "BROKEN"])
    <3>1. [ft["out"][n] EXCEPT !.status = "BROKEN"].file = ft["out"][n].file
      BY <1>0 DEF FriendTypes, Slot, Dir
    <3> QED
      BY <1>0, <2>1, <2>2, <3>1 DEF Updated, Written, Name, Disk
  <2>3. CASE AfterBreak("out", n, disk) \in {disk, Removed(disk, "out", n, ft["out"][n])}
    BY <2>1, <2>3, RemovedFiles DEF Dir
  <2> QED
    BY <2>2, <2>3 DEF AfterBreak
<1>4. NoRecord.file = NoFile /\ ~NoRecord.resumeable /\ NoFile \notin finished
  BY NotFinished DEF NoRecord, TypeOK
<1>5. HeldOnce'
  BY <1>2, <1>3, <1>4 DEF HeldOnce, Files
<1>6. FinishedHeld'
  <2>1. finished' = finished
    BY DEF BreakAll
  <2>2. \A n \in Number : disk'["out"][n].resumeable => disk'["out"][n].file \notin finished
    BY <1>3, <1>4 DEF FinishedHeld, Files, NoneDone
  <2> QED
    BY <1>2, <1>4, <2>1, <2>2 DEF FinishedHeld
<1>7. QuietIn
  <2>1. \A n \in Number : KeptIn(ft'["in"][n], ft["in"][n])
    BY <1>0, <1>1, SettledKept
  <2>2. ASSUME NEW f \in InFile, disk'["in"][f].path PROVE f \in accepted
    <3> DEFINE holds == {n \in Number : ft["in"][n].file = f}
    <3>1. disk'["in"][f] = IF holds = {} THEN disk["in"][f] ELSE AfterBreak("in", Min(holds), disk)["in"][f]
      BY DEF BreakAll
    <3>2. CASE disk'["in"][f] = disk["in"][f]
      BY <2>2, <3>2 DEF Files, AcceptedFirst
    <3>3. CASE holds # {}
      <4> PICK n \in Number : ft["in"][n].file = f /\ disk'["in"][f] = AfterBreak("in", n, disk)["in"][f]
        BY <3>1, <3>3, FirstHolder
      <4>1. CASE AfterBreak("in", n, disk) = Updated(disk, "in", n, [ft["in"][n] EXCEPT !.status = "BROKEN"])
        <5>1. /\ [ft["in"][n] EXCEPT !.status = "BROKEN"].file = f
              /\ [ft["in"][n] EXCEPT !.status = "BROKEN"].path = ft["in"][n].path
          BY <1>0 DEF FriendTypes, Slot, Dir
        <5>2. disk'["in"][f] = disk["in"][f] \/ disk'["in"][f].path = ft["in"][n].path
          BY <1>0, <4>1, <5>1 DEF Updated, Written, Name, Disk
        <5>3. f # NoFile
          BY FileTransferAssumption
        <5> QED
          BY <2>2, <5>2, <5>3 DEF Files, AcceptedFirst
      <4>2. CASE AfterBreak("in", n, disk) \in {disk, Removed(disk, "in", n, ft["in"][n])}
        <5>1. disk'["in"][f] \in {disk["in"][f], NoRecord}
          BY <4>2, RemovedFiles DEF Dir
        <5> QED
          BY <2>2, <5>1 DEF Files, AcceptedFirst, NoRecord
      <4> QED
        BY <4>1, <4>2 DEF AfterBreak
    <3> QED
      BY <3>1, <3>2, <3>3
  <2> QED
    BY <2>1, <2>2 DEF QuietIn, BreakAll
<1>8. FilesKnown'
  <2>1. \A n \in Number : ft'["in"][n].file \in {ft["in"][n].file, NoFile}
    BY <1>7 DEF QuietIn, KeptIn
  <2> QED
    BY <1>2, <1>3, <1>4, <2>1 DEF FilesKnown, Files, BreakAll
<1> QED
  BY <1>5, <1>6, <1>7, <1>8, QuietAccepted DEF Files

\* A transfer that completes is the one slot that ft_decon waits with.
LEMMA CompleteFiles ==
    ASSUME TypeOK, Files, NEW d \in Dir, NEW n \in Number, Complete(d, n) PROVE Files'
<1>0. /\ FriendTypes /\ ft[d][n] \in Slot /\ UNCHANGED <<sent, accepted>>
      /\ NoneDone
  BY FreeNoneDone DEF TypeOK, FriendTypes, Complete, Free
<1> DEFINE t == [ft[d][n] EXCEPT !.status = "COMPLETED", !.decon_wait = TRUE]
<1>1. ft' = [ft EXCEPT ![d][n] = t]
  BY <1>0 DEF Complete, FriendTypes
<1>2. /\ t.file = ft[d][n].file /\ t.in_use = ft[d][n].in_use /\ t.kind = ft[d][n].kind
      /\ t.path = ft[d][n].path /\ t.via_file = ft[d][n].via_file /\ t.status = "COMPLETED"
  BY <1>0 DEF Slot
<1> HIDE DEF t
<1>3. /\ \A i \in Number : disk'["out"][i] \in {disk["out"][i], NoRecord}
      /\ \A f \in InFile : disk'["in"][f] \in {disk["in"][f], NoRecord}
  BY RemovedFiles DEF Complete
<1>4. NoRecord.file = NoFile /\ ~NoRecord.path /\ ~NoRecord.resumeable
  BY DEF NoRecord
<1>5. \A m \in Number : KeptOut(ft'["out"][m], ft["out"][m]) /\ ft'["out"][m].file = ft["out"][m].file
  BY <1>0, <1>1, <1>2 DEF KeptOut, FriendTypes, Dir
<1>6. \A m \in Number : KeptIn(ft'["in"][m], ft["in"][m])
  BY <1>0, <1>1, <1>2 DEF KeptIn, FriendTypes, Dir
<1>7. QuietOut /\ QuietIn
  BY <1>0, <1>3, <1>4, <1>5, <1>6 DEF QuietOut, QuietIn, Files, AcceptedFirst
<1>8. ASSUME NEW f \in Ended(d, n) PROVE d = "out" /\ f = ft["out"][n].file /\ f # NoFile
  BY DEF Ended
<1>9. FinishedHeld'
  <2>1. finished' = finished \cup Ended(d, n) /\ thread' = [at |-> "decon", dir |-> d, number |-> n]
    BY DEF Complete
  <2>2. ASSUME NEW m \in Number, ft'["out"][m].file \in finished'
        PROVE  /\ thread'.at = "decon" /\ thread'.dir = "out" /\ thread'.number = m
               /\ ft'["out"][m].status = "COMPLETED"
    <3>1. ft["out"][m].file \in Ended(d, n)
      BY <1>0, <1>5, <2>1, <2>2 DEF NoneDone
    <3>2. d = "out" /\ m = n
      BY <1>8, <3>1 DEF Files, HeldOnce
    <3> QED
      BY <1>0, <1>1, <1>2, <2>1, <3>2 DEF FriendTypes
  <2>3. ASSUME NEW m \in Number, disk'["out"][m].resumeable, disk'["out"][m].file \in finished'
        PROVE  FALSE
    <3>1. disk'["out"][m] = disk["out"][m]
      BY <1>3, <1>4, <2>3
    <3>2. disk["out"][m].file \in Ended(d, n)
      BY <2>1, <2>3, <3>1 DEF Files, FinishedHeld
    <3> QED
      BY <1>8, <2>3, <3>1, <3>2 DEF Files, HeldOnce
  <2> QED
    BY <2>2, <2>3 DEF FinishedHeld
<1> QED
  BY <1>0, <1>7, <1>9, QuietFilesKnown, QuietAccepted, QuietHeldOnce DEF Files

\* A file that is in no place is put into a slot, and its .ftoutfo does not
\* count yet.
LEMMA PutFiles ==
    ASSUME TypeOK, Files, NoneDone, QuietIn, finished' = finished, sent \subseteq sent',
           NEW k \in Number, NEW f,
           f \in sent' \cup {NoFile}, f \notin finished,
           ft'["out"][k].file = f, ft'["out"][k].in_use,
           \A n \in Number \ {k} : KeptOut(ft'["out"][n], ft["out"][n]),
           f # NoFile => \A n \in Number : ft["out"][n].file # f,
           \A i \in Number :
             \/ ~disk'["out"][i].resumeable /\ disk'["out"][i].file \in {f, NoFile}
             \/ disk'["out"][i] = disk["out"][i] /\ (disk["out"][i].file # f \/ f = NoFile
                                                      \/ ~disk["out"][i].resumeable)
    PROVE  Files'
<1>1. FilesKnown'
  BY DEF Files, FilesKnown, QuietIn, KeptIn, KeptOut
<1>2. HeldOnce'
  BY DEF Files, HeldOnce, KeptOut
<1>3. FinishedHeld'
  <2>1. \A n \in Number : ft'["out"][n].file \notin finished
    BY NotFinished DEF NoneDone, KeptOut, TypeOK
  <2> QED
    BY <2>1 DEF Files, FinishedHeld
<1> QED
  BY <1>1, <1>2, <1>3, QuietAccepted DEF Files

LEMMA SentSlot ==
    ASSUME FriendTypes, NEW f \in OutFile \cup {NoFile},
           NEW kind \in {"file", "avatar", "memory"}, NextNumber \in Number
    PROVE  /\ Sent(f, kind)["out"][NextNumber].file = f
           /\ Sent(f, kind)["out"][NextNumber].in_use
           /\ \A n \in Number \ {NextNumber} : Sent(f, kind)["out"][n] = ft["out"][n]
           /\ Sent(f, kind)["in"] = ft["in"]
<1> DEFINE s == NewSlot(f, kind)
           t == [(IF kind = "file" THEN InitResumable(s) ELSE s) EXCEPT !.status = "PAUSED_THEM"]
<1>1. t.file = f /\ t.in_use
  BY DEF NewSlot, InitResumable, Zeroed
<1>2. Sent(f, kind) = [ft EXCEPT !["out"][NextNumber] = t]
  BY DEF Sent
<1> HIDE DEF t
<1> QED
  BY <1>1, <1>2 DEF FriendTypes, Dir

LEMMA SentDisk ==
    ASSUME TypeOK, NEW f \in OutFile \cup {NoFile}, NEW kind \in {"file", "memory"},
           NextNumber \in Number
    PROVE  /\ DiskAfter(f, kind)["in"] = disk["in"]
           /\ \A i \in Number :
                \/ /\ ~DiskAfter(f, kind)["out"][i].resumeable
                   /\ DiskAfter(f, kind)["out"][i].file = f
                \/ DiskAfter(f, kind)["out"][i] = disk["out"][i]
<1> DEFINE w == Written(NewSlot(f, kind))
<1>1. w.file = f /\ ~w.resumeable
  BY DEF Written, NewSlot, Zeroed
<1>2. DiskAfter(f, kind) \in {disk, [disk EXCEPT !["out"][NextNumber] = w]}
  BY DEF DiskAfter, Created, Name
<1> HIDE DEF w
<1> QED
  BY <1>1, <1>2 DEF TypeOK, DiskTypes

LEMMA SameIn ==
    ASSUME Files, ft'["in"] = ft["in"], disk'["in"] = disk["in"], UNCHANGED accepted
    PROVE  QuietIn
BY DEF QuietIn, KeptIn, Files, AcceptedFirst

LEMMA SendNewFiles ==
    ASSUME TypeOK, Files, NEW f \in OutFile, NEW kind \in {"file", "memory"}, SendNew(f, kind)
    PROVE  Files'
<1>1. /\ NextNumber \in Number /\ NoneDone
      /\ ft' = Sent(f, kind) /\ disk' = DiskAfter(f, kind) /\ sent' = sent \cup {f}
      /\ f \notin sent /\ f # NoFile /\ f \notin finished /\ UNCHANGED <<finished, accepted>>
  BY TakeNumberTypes, FreeNoneDone, FileTransferAssumption DEF SendNew, Free, TypeOK, HistoryTypes
<1>2. /\ ft'["out"][NextNumber].file = f /\ ft'["out"][NextNumber].in_use
      /\ \A n \in Number \ {NextNumber} : ft'["out"][n] = ft["out"][n]
      /\ ft'["in"] = ft["in"]
  BY <1>1, SentSlot DEF TypeOK
<1>3. /\ disk'["in"] = disk["in"]
      /\ \A i \in Number : \/ ~disk'["out"][i].resumeable /\ disk'["out"][i].file = f
                           \/ disk'["out"][i] = disk["out"][i]
  BY <1>1, SentDisk
<1>4. \A n \in Number : ft["out"][n].file # f /\ disk["out"][n].file # f
  BY <1>1 DEF Files, FilesKnown
<1>5. QuietIn
  BY <1>1, <1>2, <1>3, SameIn
<1>6. \A n \in Number \ {NextNumber} : KeptOut(ft'["out"][n], ft["out"][n])
  BY <1>2 DEF KeptOut
<1> QED
  BY <1>1, <1>2, <1>3, <1>4, <1>5, <1>6, PutFiles

LEMMA UnlinkedSame ==
    ASSUME NEW fts \in [Dir -> [Number -> Slot]], NEW i \in Number
    PROVE  /\ \A n \in Number : /\ Unlinked(fts, i)["out"][n].file = fts["out"][n].file
                                /\ Unlinked(fts, i)["out"][n].in_use = fts["out"][n].in_use
           /\ Unlinked(fts, i)["in"] = fts["in"]
<1> DEFINE r == IF fts["out"][i].resume_file = "linked" THEN "unlinked"
                ELSE fts["out"][i].resume_file
<1>1. Unlinked(fts, i) = [fts EXCEPT !["out"][i].resume_file = r]
  BY DEF Unlinked
<1> HIDE DEF r
<1>2. fts["out"][i] \in Slot
  BY DEF Dir
<1>3. /\ [fts["out"][i] EXCEPT !.resume_file = r].file = fts["out"][i].file
      /\ [fts["out"][i] EXCEPT !.resume_file = r].in_use = fts["out"][i].in_use
  BY <1>2 DEF Slot
<1> QED
  BY <1>1, <1>3 DEF Dir

LEMMA ResumeNextFiles == ASSUME TypeOK, Files, ResumeNext PROVE Files'
<1> DEFINE i == thread.number
           f == disk["out"][i].file
<1>1. i \in Number /\ NoneDone /\ FriendTypes
  BY FreeNoneDone DEF ResumeNext, TypeOK, ThreadTypes, Number
<1>2. NoRecord.file = NoFile /\ ~NoRecord.resumeable
  BY DEF NoRecord
<1>3. CASE CanSendAgain(i) /\ SendAgain(i)
  <2>1. f \in sent \cup {NoFile} /\ f \notin finished /\ f \in OutFile \cup {NoFile}
        /\ disk["out"][i].resumeable
    BY <1>1, <1>3 DEF CanSendAgain, Files, FilesKnown, FinishedHeld, TypeOK, HistoryTypes
  <2>2. /\ NextNumber \in Number /\ ft' = Unlinked(Sent(f, "file"), i)
        /\ disk' = [DiskAfter(f, "file") EXCEPT !["out"][i] = NoRecord]
        /\ UNCHANGED <<sent, finished, accepted>>
    BY <1>3, TakeNumberTypes DEF SendAgain, TypeOK
  <2>3. Sent(f, "file") \in [Dir -> [Number -> Slot]] /\ DiskAfter(f, "file") \in Disk
    BY <2>1, <2>2, SentTypes DEF TypeOK
  <2>4. /\ ft'["out"][NextNumber].file = f /\ ft'["out"][NextNumber].in_use
        /\ \A n \in Number \ {NextNumber} : KeptOut(ft'["out"][n], ft["out"][n])
        /\ ft'["in"] = ft["in"]
    <3> DEFINE fts == Sent(f, "file")
    <3>1. /\ fts["out"][NextNumber].file = f /\ fts["out"][NextNumber].in_use
          /\ \A n \in Number \ {NextNumber} : fts["out"][n] = ft["out"][n]
          /\ fts["in"] = ft["in"]
      BY <1>1, <2>1, <2>2, SentSlot
    <3>2. ft' = Unlinked(fts, i) /\ fts \in [Dir -> [Number -> Slot]]
      BY <2>2, <2>3
    <3> HIDE DEF fts, i, f
    <3>3. /\ \A n \in Number : /\ ft'["out"][n].file = fts["out"][n].file
                              /\ ft'["out"][n].in_use = fts["out"][n].in_use
          /\ ft'["in"] = fts["in"]
      BY <1>1, <3>2, UnlinkedSame
    <3> QED
      BY <2>2, <3>1, <3>3 DEF KeptOut
  <2>5. /\ disk'["in"] = disk["in"]
        /\ disk'["out"][i] = NoRecord
        /\ \A j \in Number \ {i} : \/ (~disk'["out"][j].resumeable /\ disk'["out"][j].file = f)
                                   \/ disk'["out"][j] = disk["out"][j]
    BY <1>1, <2>1, <2>2, <2>3, SentDisk DEF Disk
  <2>6. f # NoFile => \A n \in Number : ft["out"][n].file # f
    BY <1>1, <2>1 DEF Files, HeldOnce
  <2>7. \A j \in Number \ {i} : disk["out"][j].file # f \/ f = NoFile \/ ~disk["out"][j].resumeable
    BY <1>1, <2>1 DEF Files, HeldOnce
  <2>8. QuietIn
    BY <2>2, <2>4, <2>5, SameIn
  <2> HIDE DEF i, f
  <2> QED
    BY <1>1, <1>2, <2>1, <2>2, <2>4, <2>5, <2>6, <2>7, <2>8, PutFiles
<1>4. CASE DropRecord(i)
  <2>1. /\ ft' = Unlinked(ft, i) /\ disk' = [disk EXCEPT !["out"][i] = NoRecord]
        /\ UNCHANGED history
    BY <1>4 DEF DropRecord
  <2>2. /\ ft'["in"] = ft["in"]
        /\ \A n \in Number : KeptOut(ft'["out"][n], ft["out"][n])
    BY <1>1, <2>1, UnlinkedSame DEF FriendTypes, KeptOut
  <2>3. /\ disk'["in"] = disk["in"]
        /\ \A j \in Number : disk'["out"][j] \in {disk["out"][j], NoRecord}
    BY <1>1, <2>1 DEF TypeOK, DiskTypes
  <2>4. QuietOut /\ QuietIn /\ QuietEnd
    BY <1>1, <1>2, <2>1, <2>2, <2>3, SameIn DEF QuietOut, QuietEnd, NoneDone
  <2> QED
    BY <2>4, Quiet
<1> QED
  BY <1>3, <1>4 DEF ResumeNext

LEMMA FinishOnlineQuiet ==
    ASSUME TypeOK, Files, FinishOnline PROVE QuietOut /\ QuietIn /\ QuietEnd
<1>1. NoneDone
  BY FreeNoneDone DEF FinishOnline
<1>2. CASE UNCHANGED ft
  BY <1>1, <1>2, SameSettled, SettledQuiet DEF FinishOnline
<1>3. CASE TakeNumber /\ ft' = Sent(NoFile, "avatar")
  <2>1. NextNumber \in Number
    BY <1>3, TakeNumberTypes DEF TypeOK
  <2>2. /\ \A n \in Number : KeptOut(ft'["out"][n], ft["out"][n])
        /\ ft'["in"] = ft["in"]
    BY <1>3, <2>1, SentSlot DEF TypeOK, KeptOut
  <2> QED
    BY <1>1, <2>2, SameIn DEF FinishOnline, QuietOut, QuietEnd, NoneDone
<1> QED
  BY <1>2, <1>3 DEF FinishOnline

\* An offer: the slot it comes to, and what its .ftinfo then tells.
LEMMA OfferFiles ==
    ASSUME TypeOK, Files, NoneDone, NEW n \in Number,
           ft' = [ft EXCEPT !["in"][n] = ft'["in"][n]],
           LET s == ft'["in"][n]
           IN /\ s.file \in InFile \cup {NoFile}
              /\ s.in_use /\ s.kind = "file" => s.file # NoFile
              /\ s.file # NoFile /\ (s.path \/ s.via_file) => s.file \in accepted,
           disk'["out"] = disk["out"],
           \A f \in InFile : disk'["in"][f].path => f \in accepted,
           UNCHANGED history
    PROVE  Files'
<1>1. \A m \in Number \ {n} : ft'["in"][m] = ft["in"][m]
  BY DEF TypeOK, FriendTypes, Dir
<1>2. ft'["out"] = ft["out"]
  BY DEF TypeOK, FriendTypes, Dir
<1>3. QuietOut
  BY <1>2 DEF QuietOut, KeptOut
<1>4. QuietEnd
  BY DEF QuietEnd, NoneDone
<1>5. AcceptedFirst'
  BY <1>1 DEF AcceptedFirst, Files
<1>6. FilesKnown'
  BY <1>1, <1>2 DEF FilesKnown, Files
<1> QED
  BY <1>3, <1>4, <1>5, <1>6, QuietHeldOnce, QuietFinished DEF Files

LEMMA IncomingFileFiles ==
    ASSUME TypeOK, Files, NoneDone, NEW n \in Number, NEW f \in InFile, IncomingFile(n, f),
           UNCHANGED history
    PROVE  Files'
<1> DEFINE r == disk["in"][f]
           s == [Zeroed EXCEPT !.in_use = TRUE, !.file = f]
           known == [InitResumable(s) EXCEPT !.status = r.status, !.path = r.path]
           t == [known EXCEPT !.status = "ACTIVE", !.via_file = TRUE]
<1>0. /\ r.path => f \in accepted
      /\ f # NoFile /\ disk \in Disk /\ FriendTypes
      /\ \A g \in InFile : disk["in"][g].path => g \in accepted
  BY FileTransferAssumption DEF Files, AcceptedFirst, TypeOK, DiskTypes, Disk
<1>1. ASSUME NEW u, u.file = f, u.path \/ u.via_file => f \in accepted,
             ft' = [ft EXCEPT !["in"][n] = u], disk' = Created(disk, "in", n, u)
      PROVE  Files'
  <2>1. ft'["in"][n] = u
    BY <1>0, <1>1 DEF FriendTypes, Dir
  <2>2. disk' = [disk EXCEPT !["in"][f] = Written(u)] /\ Written(u).path = u.path
    BY <1>1 DEF Created, Name, Written
  <2>3. disk'["out"] = disk["out"] /\ \A g \in InFile : disk'["in"][g].path => g \in accepted
    BY <1>0, <1>1, <2>2 DEF Disk
  <2> QED
    BY <1>0, <1>1, <2>1, <2>3, OfferFiles
<1>2. CASE Arrive(n, InitResumable(s), FALSE) /\ disk' = Created(disk, "in", n, s)
  <2> DEFINE u == InitResumable(s)
  <2>1. u.file = f /\ ~u.path /\ ~u.via_file /\ Written(s).path = FALSE /\ s.file = f
    BY DEF InitResumable, Zeroed, Written
  <2> HIDE DEF s, u
  <2>2. ft' = [ft EXCEPT !["in"][n] = u] /\ disk' = [disk EXCEPT !["in"][f] = Written(s)]
    BY <1>2, <2>1 DEF Arrive, Created, Name, u
  <2>3. ft'["in"][n] = u
    BY <1>0, <2>2 DEF FriendTypes, Dir
  <2>4. disk'["out"] = disk["out"] /\ \A g \in InFile : disk'["in"][g].path => g \in accepted
    BY <1>0, <2>1, <2>2 DEF Disk
  <2> QED
    BY <1>0, <2>1, <2>2, <2>3, <2>4, OfferFiles
<1>3. CASE r.path /\ Arrive(n, t, TRUE) /\ disk' = Created(disk, "in", n, t)
  <2>1. t.file = f
    BY DEF InitResumable, Zeroed
  <2> HIDE DEF t
  <2> QED
    BY <1>0, <1>1, <1>3, <2>1 DEF Arrive
<1>4. CASE Arrive(n, known, FALSE) /\ disk' = Created(disk, "in", n, known)
  <2>1. known.file = f /\ known.path = r.path /\ ~known.via_file
    BY DEF InitResumable, Zeroed
  <2> HIDE DEF known
  <2> QED
    BY <1>0, <1>1, <1>4, <2>1 DEF Arrive
<1>5. CASE /\ disk' = [disk EXCEPT !["in"][f] = NoRecord]
           /\ ft' = [ft EXCEPT !["in"][n] = Zeroed]
  <2>1. ft'["in"][n] = Zeroed
    BY <1>0, <1>5 DEF FriendTypes, Dir
  <2>2. disk'["out"] = disk["out"] /\ \A g \in InFile : disk'["in"][g] \in {disk["in"][g], NoRecord}
    BY <1>0, <1>5 DEF Disk
  <2>3. Zeroed.file = NoFile /\ ~Zeroed.in_use /\ ~NoRecord.path
    BY DEF Zeroed, NoRecord
  <2> QED
    BY <1>0, <1>5, <2>1, <2>2, <2>3, OfferFiles
<1> QED
  BY <1>2, <1>3, <1>4, <1>5 DEF IncomingFile

LEMMA IncomingFiles ==
    ASSUME TypeOK, Files, NEW n \in Number,
           IncomingRequest(n) \/ RefuseAvatar(n) \/ Chunk(n) \/ ReadFails(n)
    PROVE  Files'
<1>0. NoneDone
  BY FreeNoneDone DEF IncomingRequest, RefuseAvatar, Chunk, ReadFails, Free
<1>1. CASE IncomingRequest(n)
  <2>1. CASE \E f \in InFile : IncomingFile(n, f)
    BY <1>0, <1>1, <2>1, IncomingFileFiles DEF IncomingRequest
  <2>2. CASE UNCHANGED disk /\ \E kind \in {"avatar", "memory"} :
               Arrive(n, [Zeroed EXCEPT !.in_use = TRUE, !.kind = kind, !.status = "ACTIVE"], TRUE)
    <3> PICK kind \in {"avatar", "memory"} :
          Arrive(n, [Zeroed EXCEPT !.in_use = TRUE, !.kind = kind, !.status = "ACTIVE"], TRUE)
      BY <2>2
    <3> DEFINE u == [Zeroed EXCEPT !.in_use = TRUE, !.kind = kind, !.status = "ACTIVE"]
    <3>1. u.file = NoFile /\ u.kind # "file"
      BY DEF Zeroed
    <3>2. ft' = [ft EXCEPT !["in"][n] = u]
      BY DEF Arrive
    <3> HIDE DEF u
    <3>3. ft'["in"][n] = u
      BY <3>2 DEF TypeOK, FriendTypes, Dir
    <3>4. \A f \in InFile : disk'["in"][f].path => f \in accepted
      BY <2>2 DEF Files, AcceptedFirst
    <3> QED
      BY <1>0, <1>1, <2>2, <3>1, <3>2, <3>3, <3>4, OfferFiles DEF IncomingRequest
  <2> QED
    BY <1>1, <2>1, <2>2 DEF IncomingRequest
<1>2. CASE RefuseAvatar(n)
  BY <1>0, <1>2, KillQuiet, SameSettled, SettledQuiet, Quiet DEF RefuseAvatar, Dir
<1>3. CASE Chunk(n)
  <2>1. CASE LocalCancel("in", n)
    BY <1>0, <2>1, LocalControlQuiet, Quiet DEF Dir
  <2>2. CASE disk' = Updated(disk, "in", n, ft["in"][n]) /\ UNCHANGED <<friendVars, history>>
    <3>1. disk'["out"] = disk["out"]
      BY <2>2 DEF Updated, TypeOK, DiskTypes
    <3>2. ASSUME NEW f \in InFile, disk'["in"][f].path PROVE f \in accepted'
      <4>1. disk'["in"][f] = disk["in"][f] \/ (f = ft["in"][n].file /\ disk'["in"][f].path = ft["in"][n].path)
        BY <2>2 DEF Updated, Written, Name, TypeOK, DiskTypes
      <4> QED
        BY <2>2, <3>2, <4>1, FileTransferAssumption DEF Files, AcceptedFirst
    <3>3. QuietOut /\ QuietIn /\ QuietEnd
      BY <1>0, <2>2, <3>1, <3>2 DEF QuietOut, QuietIn, QuietEnd, KeptOut, KeptIn, NoneDone
    <3> QED
      BY <3>3, Quiet
  <2> QED
    BY <1>3, <2>1, <2>2 DEF Chunk
<1>4. CASE ReadFails(n)
  BY <1>0, <1>4, LocalControlQuiet, Quiet DEF ReadFails, Dir
<1> QED
  BY <1>1, <1>2, <1>3, <1>4

LEMMA CommandFiles == ASSUME TypeOK, Files, Command PROVE Files'
<1>1. CASE Control
  <2>1. NoneDone /\ Target.dir \in Dir /\ Target.number \in Number
    BY <1>1, FreeNoneDone, NamedType DEF Control, Free, Target, TypeOK, UITypes, Request, Place
  <2>2. CASE UNCHANGED <<friendVars, disk, core, history>>
    BY <2>1, <2>2, SameSettled, SettledQuiet, Quiet
  <2>3. CASE \/ LocalResume(Target.dir, Target.number)
             \/ LocalPause(Target.dir, Target.number)
             \/ LocalCancel(Target.dir, Target.number)
    BY <2>1, <2>3, LocalControlQuiet, Quiet
  <2> QED
    BY <1>1, <2>2, <2>3 DEF Control
<1>2. CASE Accept
  <2>1. PICK p \in {Target, [dir |-> request.dir, number |-> request.number]} :
          \/ /\ StartWrite(p.dir, p.number) \/ FailToWriteFile(p.dir, p.number)
             /\ accepted' = IF p.dir = "in" THEN accepted \cup ({ft[p.dir][p.number].file} \ {NoFile})
                            ELSE accepted
          \/ UNCHANGED <<friendVars, disk, core, accepted>>
    BY <1>2 DEF Accept
  <2>2. NoneDone /\ p.dir \in Dir /\ p.number \in Number /\ UNCHANGED <<sent, finished>>
    BY <1>2, FreeNoneDone, NamedType DEF Accept, Free, Target, TypeOK, UITypes, Request, Place
  <2>3. CASE /\ StartWrite(p.dir, p.number) \/ FailToWriteFile(p.dir, p.number)
             /\ accepted' = IF p.dir = "in" THEN accepted \cup ({ft[p.dir][p.number].file} \ {NoFile})
                            ELSE accepted
    BY <2>2, <2>3, AcceptQuiet, Quiet
  <2>4. CASE UNCHANGED <<friendVars, disk, core, accepted>>
    BY <1>2, <2>2, <2>4, SameSettled, SettledQuiet, Quiet DEF Accept
  <2> QED
    BY <2>1, <2>3, <2>4
<1> QED
  BY <1>1, <1>2, SendNewFiles DEF Command

LEMMA NewInstanceQuiet ==
    ASSUME TypeOK, Files, NewInstance PROVE QuietOut /\ QuietIn /\ QuietEnd
<1>1. Settled /\ \A n \in Number : ft'["out"][n].file = NoFile
  BY DEF NewInstance, Settled, Rest, Zeroed, Dir
<1>2. QuietOut /\ QuietIn
  BY <1>1, RemovedQuiet DEF NewInstance
<1> QED
  BY <1>1, <1>2 DEF NewInstance, QuietEnd

LEMMA GoOnFiles == ASSUME TypeOK, Files, GoOn PROVE Files'
BY EndDeconQuiet, FinishOnlineQuiet, ResumeNextFiles, NewInstanceQuiet, Quiet DEF GoOn, Restart

LEMMA CallbackFiles == ASSUME TypeOK, Files, Callback PROVE Files'
<1>1. ASSUME NEW d \in Dir, NEW n \in Number, CompleteInactive(d, n) \/ RemoteControl(d, n)
      PROVE  Files'
  <2>1. NoneDone
    BY <1>1, FreeNoneDone DEF CompleteInactive, RemoteControl, Free
  <2> QED
    BY <1>1, <2>1, CompleteInactiveQuiet, RemoteControlQuiet, Quiet DEF RemoteControl
<1>2. CASE Connect
  <2>1. NoneDone
    BY <1>2, FreeNoneDone DEF Connect, MayFlip, Free
  <2> QED
    BY <1>2, <2>1, SameSettled, SettledQuiet, Quiet DEF Connect
<1>3. CASE Disconnect
  <2>1. NoneDone
    BY <1>3, FreeNoneDone DEF Disconnect, MayFlip, Free
  <2> QED
    BY <1>3, <2>1, BreakAllFiles, SameSettled, SettledQuiet, Quiet DEF Disconnect
<1>4. CASE OtherOffline
  <2>1. NoneDone
    BY <1>4, FreeNoneDone DEF OtherOffline, Free
  <2>2. Settled
    BY <1>4, ZeroedType DEF OtherOffline, Decon, Settled, Rest, TypeOK, FriendTypes, Place
  <2> QED
    BY <1>4, <2>1, <2>2, SettledQuiet, Quiet DEF OtherOffline
<1> QED
  BY <1>1, <1>2, <1>3, <1>4, IncomingFiles, CompleteFiles DEF Callback

LEMMA UserFiles ==
    ASSUME TypeOK, Files, Handle \/ Click \/ SettingsChanged \/ Crash PROVE Files'
<1>1. CASE Handle
  <2>1. UNCHANGED <<disk, thread, history>>
    BY <1>1 DEF Handle
  <2>2. CASE UNCHANGED ft
    BY <2>1, <2>2 DEF Files, FilesKnown, AcceptedFirst, HeldOnce, FinishedHeld
  <2>3. CASE ft' = [ft EXCEPT ![Head(uiq).dir][Head(uiq).number].decon_wait = FALSE]
    <3>1. ASSUME NEW d \in Dir, NEW n \in Number
          PROVE  ft'[d][n] \in {ft[d][n], [ft[d][n] EXCEPT !.decon_wait = FALSE]}
      BY <2>3 DEF TypeOK, FriendTypes
    <3>2. ASSUME NEW d \in Dir, NEW n \in Number
          PROVE  LET s == ft[d][n]
                     t == ft'[d][n]
                 IN /\ t.in_use = s.in_use /\ t.file = s.file /\ t.kind = s.kind
                    /\ t.path = s.path /\ t.via_file = s.via_file /\ t.status = s.status
      <4>1. ft[d][n] \in Slot
        BY DEF TypeOK, FriendTypes
      <4> QED
        BY <3>1, <4>1 DEF Slot
    <3> QED
      BY <2>1, <3>2 DEF Files, FilesKnown, AcceptedFirst, HeldOnce, FinishedHeld, Dir
  <2> QED
    BY <1>1, <2>2, <2>3 DEF Handle
<1>2. CASE Click
  BY <1>2 DEF Click, Files, FilesKnown, AcceptedFirst, HeldOnce, FinishedHeld
<1>3. CASE SettingsChanged
  <2>1. Settled /\ \A n \in Number : ft'["out"][n] = ft["out"][n] \/ ft'["out"][n].file = NoFile
    BY <1>3 DEF SettingsChanged, Settled, Rest, Zeroed, Dir
  <2>2. QuietOut /\ QuietIn
    BY <1>3, <2>1, RemovedQuiet DEF SettingsChanged
  <2>3. QuietEnd
    BY <1>3, <2>1 DEF SettingsChanged, QuietEnd, Files, FinishedHeld
  <2> QED
    BY <2>2, <2>3, Quiet
<1>4. CASE Crash
  BY <1>4, NewInstanceQuiet, Quiet DEF Crash
<1> QED
  BY <1>1, <1>2, <1>3, <1>4

LEMMA FilesStep == ASSUME TypeOK, Files, [Next]_vars PROVE Files'
<1>1. CASE Next
  BY <1>1, CommandFiles, GoOnFiles, CallbackFiles, UserFiles DEF Next
<1>2. CASE UNCHANGED vars
  BY <1>2 DEF vars, Files, FilesKnown, AcceptedFirst, HeldOnce, FinishedHeld
<1> QED
  BY <1>1, <1>2

LEMMA FilesInit == Init => Files
<1> SUFFICES ASSUME Init PROVE Files
  OBVIOUS
<1>1. \A d \in Dir, n \in Number : ft[d][n] = Zeroed
  BY DEF Init
<1>2. Zeroed.file = NoFile /\ ~Zeroed.in_use /\ ~NoRecord.path /\ ~NoRecord.resumeable
  BY DEF Zeroed, NoRecord
<1>3. AcceptedFirst
  BY <1>1, <1>2 DEF Init, AcceptedFirst, Dir
<1>4. HeldOnce
  BY <1>1, <1>2 DEF Init, HeldOnce, Dir
<1>5. FinishedHeld
  BY <1>1, <1>2 DEF Init, FinishedHeld, Dir
<1> QED
  BY <1>3, <1>4, <1>5, TypesInit DEF Files

-----------------------------------------------------------------------------
(* What the UI is to look at *)

Update(m) == m.tag = "FILE_STATUS_UPDATE_DATA"

\* ft_decon waits for the one such message there is.
Waits ==
    /\ \A i \in 1..Len(uiq) : Update(uiq[i]) =>
         /\ thread.at = "decon" /\ thread.dir = uiq[i].dir /\ thread.number = uiq[i].number
         /\ ft[uiq[i].dir][uiq[i].number].in_use
         /\ ft[uiq[i].dir][uiq[i].number].status = "COMPLETED"
         /\ ft[uiq[i].dir][uiq[i].number].decon_wait
    /\ \A i, j \in 1..Len(uiq) : Update(uiq[i]) /\ Update(uiq[j]) => i = j

NoUpdate(q) == \A i \in 1..Len(q) : ~Update(q[i])

LEMMA NoneToUpdate == ASSUME Waits, thread.at # "decon" PROVE NoUpdate(uiq)
BY DEF Waits, NoUpdate

LEMMA NothingWaits == ASSUME NoUpdate(uiq') PROVE Waits'
BY DEF Waits, NoUpdate

LEMMA ToldNoUpdate ==
    ASSUME UITypes, NoUpdate(uiq), NEW b, UNCHANGED uiq \/ Told(b) PROVE NoUpdate(uiq')
<1>1. ~Update(Online(b))
  BY DEF Update, Online
<1>2. CASE UNCHANGED uiq
  BY <1>2 DEF NoUpdate
<1>3. CASE Told(b)
  <2>1. uiq \in Seq(Message) /\ uiq' = Append(uiq, Online(b))
    BY <1>3 DEF UITypes, Told
  <2>2. \A i \in 1..Len(uiq') : uiq'[i] = IF i <= Len(uiq) THEN uiq[i] ELSE Online(b)
    BY <2>1
  <2> QED
    BY <1>1, <2>1, <2>2 DEF NoUpdate
<1> QED
  BY <1>2, <1>3

\* Between two handlers, and in ft_friend_online, only FRIEND_ONLINE is posted.
LEMMA QuietWaits ==
    ASSUME TypeOK, Waits, thread.at # "decon",
           UNCHANGED uiq \/ \E b \in BOOLEAN : Told(b)
    PROVE  Waits'
<1>1. NoUpdate(uiq) /\ UITypes
  BY NoneToUpdate DEF TypeOK
<1>2. NoUpdate(uiq')
  BY <1>1, ToldNoUpdate DEF NoUpdate
<1> QED
  BY <1>2, NothingWaits

LEMMA CompleteWaits ==
    ASSUME TypeOK, Waits, NEW d \in Dir, NEW n \in Number, Complete(d, n) PROVE Waits'
<1> DEFINE m == [tag |-> "FILE_STATUS_UPDATE_DATA", dir |-> d, number |-> n]
<1>1. NoUpdate(uiq) /\ uiq \in Seq(Message) /\ uiq' = Append(uiq, m)
  BY NoneToUpdate DEF Complete, Free, TypeOK, UITypes
<1>2. /\ m.dir = d /\ m.number = n
      /\ thread' = [at |-> "decon", dir |-> d, number |-> n]
  BY DEF Complete
<1>3. /\ ft'[d][n].in_use /\ ft'[d][n].status = "COMPLETED" /\ ft'[d][n].decon_wait
  <2>1. ft[d][n] \in Slot /\ ft[d][n].in_use
    BY DEF Complete, TypeOK, FriendTypes
  <2>2. ft'[d][n] = [ft[d][n] EXCEPT !.status = "COMPLETED", !.decon_wait = TRUE]
    BY DEF Complete, TypeOK, FriendTypes
  <2> QED
    BY <2>1, <2>2 DEF Slot
<1> HIDE DEF m
<1>4. \A i \in 1..Len(uiq') : uiq'[i] = IF i <= Len(uiq) THEN uiq[i] ELSE m
  BY <1>1
<1>5. Len(uiq') = Len(uiq) + 1 /\ Len(uiq) \in Nat
  BY <1>1
<1>6. \A i \in 1..Len(uiq') : Update(uiq'[i]) => i = Len(uiq') /\ uiq'[i] = m
  BY <1>1, <1>4, <1>5 DEF NoUpdate
<1> QED
  BY <1>2, <1>3, <1>6 DEF Waits

LEMMA HandleWaits == ASSUME TypeOK, Waits, Handle PROVE Waits'
<1>1. /\ uiq \in Seq(Message) /\ uiq # <<>> /\ uiq' = Tail(uiq) /\ UNCHANGED thread
  BY DEF Handle, TypeOK, UITypes
<1>2. /\ \A i \in 1..Len(uiq') : i + 1 \in 1..Len(uiq) /\ uiq'[i] = uiq[i + 1]
      /\ 1 \in 1..Len(uiq) /\ Head(uiq) = uiq[1]
  BY <1>1
<1>3. CASE UNCHANGED ft
  <2>1. ASSUME NEW i \in 1..Len(uiq'), Update(uiq'[i])
        PROVE  /\ thread'.at = "decon" /\ thread'.dir = uiq'[i].dir /\ thread'.number = uiq'[i].number
               /\ ft'[uiq'[i].dir][uiq'[i].number].in_use
               /\ ft'[uiq'[i].dir][uiq'[i].number].status = "COMPLETED"
               /\ ft'[uiq'[i].dir][uiq'[i].number].decon_wait
    BY <1>1, <1>2, <1>3, <2>1 DEF Waits
  <2>2. ASSUME NEW i \in 1..Len(uiq'), NEW j \in 1..Len(uiq'), Update(uiq'[i]), Update(uiq'[j])
        PROVE  i = j
    <3>1. i + 1 = j + 1
      BY <1>2, <2>2 DEF Waits
    <3> QED
      BY <3>1
  <2> QED
    BY <2>1, <2>2 DEF Waits
<1>4. CASE Head(uiq).tag = "FILE_STATUS_UPDATE_DATA"
  <2>1. ASSUME NEW i \in 1..Len(uiq'), Update(uiq'[i]) PROVE FALSE
    <3>1. i + 1 = 1
      BY <1>2, <1>4, <2>1 DEF Waits, Update
    <3> QED
      BY <3>1
  <2> QED
    BY <2>1, NothingWaits DEF NoUpdate
<1> QED
  BY <1>3, <1>4 DEF Handle

LEMMA WaitsStep == ASSUME TypeOK, Waits, [Next]_vars PROVE Waits'
<1>1. CASE Callback
  <2>1. ASSUME NEW n \in Number, IncomingRequest(n) \/ RefuseAvatar(n) \/ Chunk(n) \/ ReadFails(n)
        PROVE  Waits'
    BY <2>1, QuietWaits DEF IncomingRequest, RefuseAvatar, Chunk, ReadFails, Free
  <2>2. ASSUME NEW d \in Dir, NEW n \in Number, CompleteInactive(d, n) \/ RemoteControl(d, n)
        PROVE  Waits'
    BY <2>2, QuietWaits DEF CompleteInactive, RemoteControl, Free
  <2>3. CASE Connect \/ Disconnect \/ OtherOffline
    BY <2>3, QuietWaits DEF Connect, Disconnect, OtherOffline, MayFlip, Free
  <2> QED
    BY <1>1, <2>1, <2>2, <2>3, CompleteWaits DEF Callback
<1>2. CASE Command
  <2>1. thread.at # "decon" /\ UNCHANGED uiq
    BY <1>2 DEF Command, Control, Accept, SendNew, Free
  <2> QED
    BY <2>1, QuietWaits
<1>3. CASE ResumeNext \/ FinishOnline \/ Restart
  BY <1>3, QuietWaits DEF ResumeNext, FinishOnline, Restart, Free
<1>4. CASE EndDecon
  <2>1. NoUpdate(uiq) /\ UNCHANGED uiq
    BY <1>4 DEF EndDecon, Waits, NoUpdate
  <2> QED
    BY <2>1, NothingWaits DEF NoUpdate
<1>5. CASE Click \/ UNCHANGED vars
  BY <1>5 DEF Click, vars, Waits
<1>6. CASE SettingsChanged
  <2>1. UNCHANGED <<uiq, thread>>
    BY <1>6 DEF SettingsChanged
  <2>2. ASSUME NEW i \in 1..Len(uiq), Update(uiq[i])
        PROVE  ft'[uiq[i].dir][uiq[i].number] = ft[uiq[i].dir][uiq[i].number]
    <3>1. uiq[i] \in Message
      BY DEF TypeOK, UITypes
    <3>2. uiq[i].dir \in Dir /\ uiq[i].number \in Number
      BY <2>2, <3>1 DEF Message, Update
    <3> QED
      BY <1>6, <2>2, <3>2 DEF SettingsChanged, Waits
  <2> QED
    BY <2>1, <2>2 DEF Waits
<1>7. CASE Crash
  <2>1. Len(uiq') = 0
    BY <1>7 DEF Crash
  <2> QED
    BY <2>1, NothingWaits DEF NoUpdate
<1> QED
  BY <1>1, <1>2, <1>3, <1>4, <1>5, <1>6, <1>7, HandleWaits DEF Next, GoOn

LEMMA WaitsInit == Init => Waits
<1> SUFFICES ASSUME Init PROVE Waits
  OBVIOUS
<1>1. Len(uiq) = 0
  BY DEF Init
<1> QED
  BY <1>1 DEF Waits

-----------------------------------------------------------------------------
(* The counters *)

UsedSlots(d) == {n \in Number : ft[d][n].in_use}

LEMMA UsedFinite ==
    ASSUME NEW d \in Dir
    PROVE  /\ IsFiniteSet(UsedSlots(d)) /\ Cardinality(UsedSlots(d)) \in Nat
           /\ IsFiniteSet(UsedSlots(d)') /\ Cardinality(UsedSlots(d)') \in Nat
           /\ InUse(d) = Cardinality(UsedSlots(d)) /\ InUse(d)' = Cardinality(UsedSlots(d)')
<1>1. IsFiniteSet(Number)
  BY FS_Interval DEF Number
<1>2. UsedSlots(d) \in SUBSET Number /\ UsedSlots(d)' \in SUBSET Number
  BY DEF UsedSlots
<1>3. InUse(d) = Cardinality(UsedSlots(d)) /\ InUse(d)' = Cardinality(UsedSlots(d)')
  BY DEF InUse, UsedSlots
<1> QED
  BY <1>1, <1>2, <1>3, FS_Subset, FS_CardinalityType

\* What a step does to the slots in use and to their counters: the slots in
\* use stay the same, some of them are counted out, the slot of a number that
\* toxcore just gives out is counted in, or that slot is zeroed.
Keeps ==
    /\ active' = active
    /\ \A d \in Dir, n \in Number : ft'[d][n].in_use <=> ft[d][n].in_use

Drops(places) ==
    /\ active' = Uncounted(places)
    /\ \A d \in Dir, n \in Number :
         ft'[d][n].in_use <=> ft[d][n].in_use /\ [dir |-> d, number |-> n] \notin places

Takes(e, k) ==
    /\ active' = [active EXCEPT ![e] = @ + 1]
    /\ \A d \in Dir, n \in Number :
         ft'[d][n].in_use <=> ft[d][n].in_use \/ (d = e /\ n = k)
    /\ core[e][k].state = "none"

Clears(e, k) ==
    /\ active' = active
    /\ \A d \in Dir, n \in Number :
         ft'[d][n].in_use <=> ft[d][n].in_use /\ ~(d = e /\ n = k)
    /\ core[e][k].state = "none"

Shifts ==
    \/ Keeps
    \/ \E places \in SUBSET Place : Drops(places)
    \/ \E e \in Dir, k \in Number : Takes(e, k) \/ Clears(e, k)

NoneTaken == \A d \in Dir, n \in Number : ft'[d][n].in_use => ft[d][n].in_use

\* Every slot in use is that of a transfer toxcore has.
SlotsPiped == \A d \in Dir, n \in Number : ft[d][n].in_use => core[d][n].state # "none"

\* By how much a counter is above the slots in use.
Excess(d) == active[d] - InUse(d)

\* Taking a slot: one that was in use already makes the counter too high.
LEMMA TakesExcess ==
    ASSUME FriendTypes, NEW e \in Dir, NEW k \in Number, Takes(e, k), NEW d \in Dir
    PROVE  Excess(d)' >= Excess(d) /\ (SlotsPiped => Excess(d)' = Excess(d))
<1>1. active[d] \in Int /\ active'[d] = IF d = e THEN active[d] + 1 ELSE active[d]
  BY DEF FriendTypes, Takes
<1>2. CASE d = e
  <2>1. UsedSlots(d)' = UsedSlots(d) \cup {k} /\ (SlotsPiped => k \notin UsedSlots(d))
    BY <1>2 DEF UsedSlots, Takes, SlotsPiped
  <2>2. Cardinality(UsedSlots(d) \cup {k}) =
          IF k \in UsedSlots(d) THEN Cardinality(UsedSlots(d)) ELSE Cardinality(UsedSlots(d)) + 1
    BY UsedFinite, FS_AddElement
  <2>3. InUse(d) = Cardinality(UsedSlots(d)) /\ InUse(d)' = Cardinality(UsedSlots(d)')
    BY UsedFinite
  <2>4. InUse(d)' = IF k \in UsedSlots(d) THEN InUse(d) ELSE InUse(d) + 1
    BY <2>1, <2>2, <2>3
  <2>5. InUse(d) \in Nat
    BY UsedFinite
  <2> QED
    BY <1>1, <1>2, <2>1, <2>4, <2>5 DEF Excess
<1>3. CASE d # e
  <2>1. UsedSlots(d)' = UsedSlots(d)
    BY <1>3 DEF UsedSlots, Takes
  <2> QED
    BY <1>1, <1>3, <2>1, UsedFinite DEF Excess
<1> QED
  BY <1>2, <1>3

LEMMA ClearsExcess ==
    ASSUME FriendTypes, NEW e \in Dir, NEW k \in Number, Clears(e, k), NEW d \in Dir
    PROVE  Excess(d)' >= Excess(d) /\ (SlotsPiped => Excess(d)' = Excess(d))
<1>1. active[d] \in Int /\ active'[d] = active[d]
  BY DEF FriendTypes, Clears
<1>2. UsedSlots(d)' \in SUBSET UsedSlots(d) /\ (SlotsPiped => UsedSlots(d)' = UsedSlots(d))
  BY DEF UsedSlots, Clears, SlotsPiped
<1>3. Cardinality(UsedSlots(d)') <= Cardinality(UsedSlots(d))
  BY <1>2, UsedFinite, FS_Subset
<1> QED
  BY <1>1, <1>2, <1>3, UsedFinite DEF Excess

\* Slots go out of use, and those that were in use are counted out.
LEMMA DropsExcess ==
    ASSUME FriendTypes, NEW places \in SUBSET Place, Drops(places), NEW d \in Dir
    PROVE  Excess(d)' = Excess(d)
<1> DEFINE P == {p \in places : p.dir = d /\ ft[d][p.number].in_use}
           N == {n \in Number : [dir |-> d, number |-> n] \in P}
           F == [p \in P |-> p.number]
           U == UsedSlots(d)
<1>1. active[d] \in Int /\ active'[d] = active[d] - Cardinality(P)
  BY DEF FriendTypes, Uncounted, Drops
<1>2. N \in SUBSET U /\ UsedSlots(d)' = U \ N
  BY DEF UsedSlots, Drops
<1>3. IsFiniteSet(P)
  BY PlaceFinite, FS_Subset
<1>4. \A p \in P : p.number \in N /\ p = [dir |-> d, number |-> p.number]
  BY DEF Place
<1>5. F \in Bijection(P, N)
  <2>1. F \in [P -> N]
    BY <1>4
  <2>2. \A p, q \in P : F[p] = F[q] => p = q
    <3> SUFFICES ASSUME NEW p \in P, NEW q \in P, F[p] = F[q] PROVE p = q
      OBVIOUS
    <3>1. p.number = q.number
      OBVIOUS
    <3> HIDE DEF P, F
    <3> QED
      BY <1>4, <3>1
  <2>3. \A n \in N : \E p \in P : F[p] = n
    <3> SUFFICES ASSUME NEW n \in N PROVE \E p \in P : F[p] = n
      OBVIOUS
    <3>1. [dir |-> d, number |-> n] \in P /\ F[[dir |-> d, number |-> n]] = n
      OBVIOUS
    <3> QED
      BY <3>1
  <2> HIDE DEF P, N, F
  <2> QED
    BY <2>1, <2>2, <2>3 DEF Bijection, Injection, Surjection, IsInjective
<1> HIDE DEF P, N, F, U
<1>6. IsFiniteSet(N) /\ Cardinality(N) = Cardinality(P) /\ Cardinality(N) \in Nat
  BY <1>3, <1>5, FS_Bijection, FS_CardinalityType DEF ExistsBijection
<1>7. /\ IsFiniteSet(U) /\ Cardinality(U) \in Nat /\ Cardinality(U) = InUse(d)
      /\ Cardinality(U \ N) \in Nat /\ Cardinality(U \ N) = InUse(d)'
  BY <1>2, UsedFinite DEF U
<1>8. IsFiniteSet(U \ N)
  BY <1>7, FS_Subset
<1>9. Cardinality(U) = Cardinality(U \ N) + Cardinality(N)
  <2>1. (U \ N) \cup N = U /\ (U \ N) \cap N = {}
    BY <1>2
  <2>2. Cardinality((U \ N) \cup N)
          = Cardinality(U \ N) + Cardinality(N) - Cardinality((U \ N) \cap N)
    BY <1>6, <1>8, FS_Union
  <2>3. Cardinality((U \ N) \cap N) = 0
    BY <2>1, FS_EmptySet
  <2>4. Cardinality((U \ N) \cup N) = Cardinality(U)
    BY <2>1
  <2> QED
    BY <1>6, <1>7, <2>2, <2>3, <2>4
<1> QED
  BY <1>1, <1>6, <1>7, <1>9 DEF Excess

\* No step lowers a counter more than it frees slots, and only a step that
\* overwrites a slot in use changes what a counter is off by.
LEMMA ShiftsExcess ==
    ASSUME FriendTypes, Shifts, NEW d \in Dir
    PROVE  Excess(d)' >= Excess(d) /\ (SlotsPiped => Excess(d)' = Excess(d))
<1>1. CASE Keeps
  <2>1. UsedSlots(d)' = UsedSlots(d) /\ active'[d] = active[d] /\ active[d] \in Int
    BY <1>1 DEF UsedSlots, Keeps, FriendTypes
  <2> QED
    BY <2>1, UsedFinite DEF Excess
<1>2. ASSUME NEW places \in SUBSET Place, Drops(places) PROVE Excess(d)' = Excess(d)
  BY <1>2, DropsExcess
<1>3. active[d] \in Int /\ InUse(d) \in Nat /\ Excess(d) >= Excess(d)
  BY UsedFinite DEF FriendTypes, Excess
<1> QED
  BY <1>1, <1>2, <1>3, TakesExcess, ClearsExcess DEF Shifts

LEMMA KillShifts ==
    ASSUME FriendTypes, NEW d \in Dir, NEW n \in Number, Kill(d, n)
    PROVE  Shifts /\ NoneTaken /\ ~ft'[d][n].in_use
<1>1. Named(d, n) \in Place /\ (ft[d][n].in_use => Named(d, n) = [dir |-> d, number |-> n])
  BY NamedType DEF Named
<1> DEFINE p == Named(d, n)
<1>2. /\ ft' = [ft EXCEPT ![d][n].status = "KILLED", ![p.dir][p.number] = Zeroed]
      /\ active' = Uncounted({p})
  BY DEF Kill
<1>3. p.dir \in Dir /\ p.number \in Number /\ ~Zeroed.in_use
  BY <1>1 DEF Place, Zeroed
<1> HIDE DEF p
<1>4. ASSUME NEW e \in Dir, NEW m \in Number
      PROVE  ft'[e][m].in_use <=> ft[e][m].in_use /\ ~(e = p.dir /\ m = p.number)
  <2> DEFINE killed == [ft EXCEPT ![d][n].status = "KILLED"]
  <2>1. ft[d][n] \in Slot /\ ft \in [Dir -> [Number -> Slot]]
    BY DEF FriendTypes
  <2>2. [ft[d][n] EXCEPT !.status = "KILLED"].in_use = ft[d][n].in_use
    BY <2>1 DEF Slot
  <2>3. killed[e][m].in_use = ft[e][m].in_use
    BY <2>1, <2>2
  <2>4. killed \in [Dir -> [Number -> Slot]]
    BY <2>1, SlotStatus, SlotType DEF Status
  <2>5. ft' = [killed EXCEPT ![p.dir][p.number] = Zeroed]
    BY <1>2
  <2> HIDE DEF killed
  <2>6. ft'[e][m] = IF e = p.dir /\ m = p.number THEN Zeroed ELSE killed[e][m]
    BY <1>3, <2>4, <2>5
  <2> QED
    BY <1>3, <2>3, <2>6
<1>5. \A e \in Dir, m \in Number : [dir |-> e, number |-> m] \in {p} <=> e = p.dir /\ m = p.number
  BY <1>1 DEF p, Place
<1>6. {p} \in SUBSET Place
  BY <1>1 DEF p
<1>7. Drops({p})
  <2>1. \A e \in Dir, m \in Number :
          ft'[e][m].in_use <=> ft[e][m].in_use /\ [dir |-> e, number |-> m] \notin {p}
    BY <1>4, <1>5
  <2>2. active' = Uncounted({p})
    BY <1>2
  <2> QED
    BY <2>1, <2>2 DEF Drops
<1>8. NoneTaken /\ ~ft'[d][n].in_use
  BY <1>1, <1>4 DEF NoneTaken, p
<1> QED
  BY <1>6, <1>7, <1>8 DEF Shifts

LEMMA DeconShifts ==
    ASSUME FriendTypes, NEW p \in Place, Decon(p)
    PROVE  Shifts /\ NoneTaken /\ ~ft'[p.dir][p.number].in_use
<1>1. p.dir \in Dir /\ p.number \in Number /\ ~Zeroed.in_use
  BY DEF Place, Zeroed
<1>2. \A e \in Dir, m \in Number : ft'[e][m].in_use <=>
        ft[e][m].in_use /\ ~(e = p.dir /\ m = p.number)
  BY <1>1 DEF Decon, FriendTypes
<1>3. \A e \in Dir, m \in Number : [dir |-> e, number |-> m] \in {p} <=> e = p.dir /\ m = p.number
  BY DEF Place
<1>4. Drops({p})
  BY <1>2, <1>3 DEF Drops, Decon
<1> QED
  BY <1>1, <1>2, <1>4 DEF Shifts, NoneTaken

LEMMA StatusShifts ==
    ASSUME FriendTypes, UNCHANGED active, NEW d \in Dir, NEW n \in Number, NEW v,
           ft' = [ft EXCEPT ![d][n].status = v]
    PROVE  Shifts /\ NoneTaken
<1>1. ft[d][n] \in Slot
  BY DEF FriendTypes
<1>2. \A e \in Dir, m \in Number : ft'[e][m].in_use <=> ft[e][m].in_use
  BY <1>1 DEF FriendTypes, Slot
<1> QED
  BY <1>2 DEF Shifts, Keeps, NoneTaken

LEMMA UntouchedShifts == ASSUME UNCHANGED <<ft, active>> PROVE Shifts /\ NoneTaken
BY DEF Shifts, Keeps, NoneTaken

LEMMA ControlShifts ==
    ASSUME FriendTypes, NEW d \in Dir, NEW n \in Number,
           \/ LocalResume(d, n) \/ LocalPause(d, n) \/ LocalCancel(d, n)
           \/ RemoteResume(d, n) \/ RemotePause(d, n) \/ RemoteCancel(d, n)
    PROVE  Shifts
<1>1. CASE LocalResume(d, n)
  BY <1>1, StatusShifts DEF LocalResume
<1>2. CASE LocalPause(d, n)
  BY <1>2, StatusShifts DEF LocalPause
<1>3. CASE LocalCancel(d, n)
  BY <1>3, KillShifts, UntouchedShifts DEF LocalCancel, friendVars
<1>4. CASE RemoteResume(d, n)
  BY <1>4, StatusShifts DEF RemoteResume
<1>5. CASE RemotePause(d, n)
  BY <1>5, StatusShifts DEF RemotePause
<1>6. CASE RemoteCancel(d, n)
  BY <1>6, KillShifts, UntouchedShifts DEF RemoteCancel, friendVars
<1> QED
  BY <1>1, <1>2, <1>3, <1>4, <1>5, <1>6

LEMMA AcceptShifts ==
    ASSUME FriendTypes, NEW d \in Dir, NEW n \in Number, StartWrite(d, n) \/ FailToWriteFile(d, n)
    PROVE  Shifts /\ NoneTaken /\ (StartWrite(d, n) \/ ~ft'[d][n].in_use \/ UNCHANGED core)
<1>0. ft[d][n] \in Slot
  BY DEF FriendTypes
<1>1. CASE StartWrite(d, n)
  <2> DEFINE t == [Opened(ft[d][n], d) EXCEPT !.status = RunLocal(ft[d][n].status)]
  <2>1. ft' = [ft EXCEPT ![d][n] = t] /\ UNCHANGED active
    BY <1>1 DEF StartWrite
  <2>2. t.in_use = ft[d][n].in_use
    BY <1>0 DEF Opened, Slot
  <2> HIDE DEF t
  <2>3. \A e \in Dir, m \in Number : ft'[e][m].in_use <=> ft[e][m].in_use
    BY <2>1, <2>2 DEF FriendTypes
  <2> QED
    BY <1>1, <2>1, <2>3 DEF Shifts, Keeps, NoneTaken
<1>2. CASE UNCHANGED <<friendVars, core>>
  BY <1>2, UntouchedShifts DEF friendVars
<1>3. CASE FailToWriteFile(d, n) /\ ft[d][n].status # "KILLED"
  <2> DEFINE t == [(IF ft[d][n].in_use THEN Zeroed ELSE ft[d][n]) EXCEPT !.status = "KILLED"]
             places == {[dir |-> d, number |-> n], Stray}
  <2>1. ft' = [ft EXCEPT ![d][n] = t, !["out"][0] = Zeroed] /\ active' = Uncounted(places)
    BY <1>3 DEF FailToWriteFile
  <2>2. ~t.in_use /\ ~Zeroed.in_use /\ 0 \in Number /\ "out" \in Dir
    BY <1>0 DEF Zeroed, Slot, Number, Dir
  <2> HIDE DEF t
  <2>3. \A e \in Dir, m \in Number : ft'[e][m].in_use <=>
          ft[e][m].in_use /\ ~(e = d /\ m = n) /\ ~(e = "out" /\ m = 0)
    BY <2>1, <2>2 DEF FriendTypes
  <2>4. \A e \in Dir, m \in Number : [dir |-> e, number |-> m] \in places <=>
          (e = d /\ m = n) \/ (e = "out" /\ m = 0)
    BY DEF Stray
  <2>5. places \in SUBSET Place
    BY ZeroedType DEF Place
  <2> HIDE DEF places
  <2>6. Drops(places)
    BY <2>1, <2>3, <2>4 DEF Drops
  <2> QED
    BY <2>3, <2>5, <2>6 DEF Shifts, NoneTaken
<1> QED
  BY <1>1, <1>2, <1>3 DEF FailToWriteFile

LEMMA BreakAllShifts ==
    ASSUME FriendTypes, BreakAll
    PROVE  Shifts /\ \A d \in Dir, n \in Number : ~ft'[d][n].in_use
<1>1. ASSUME NEW d \in Dir, NEW n \in Number PROVE ~ft'[d][n].in_use
  <2>1. ft'[d][n] = Left(d, n) /\ ft[d][n] \in Slot
    BY DEF BreakAll, FriendTypes
  <2> QED
    BY <2>1 DEF Left, Zeroed, Slot
<1>2. active' = Uncounted(Place) /\ \A d \in Dir, n \in Number : [dir |-> d, number |-> n] \in Place
  BY DEF BreakAll, Place
<1>3. Drops(Place)
  BY <1>1, <1>2 DEF Drops
<1> QED
  BY <1>1, <1>3 DEF Shifts

LEMMA NumberTakenShifts ==
    ASSUME FriendTypes, CoreTypes, TakeNumber,
           \A d \in Dir, n \in Number :
             ft'[d][n].in_use <=> ft[d][n].in_use \/ (d = "out" /\ n = NextNumber)
    PROVE  Shifts
<1>1. NextNumber \in Number /\ "out" \in Dir /\ core["out"][NextNumber].state = "none"
  BY NextFree DEF TakeNumber, FreeNumber, Dir
<1>2. Takes("out", NextNumber)
  BY <1>1 DEF TakeNumber, Takes
<1> QED
  BY <1>1, <1>2 DEF Shifts

LEMMA SentShifts ==
    ASSUME FriendTypes, CoreTypes, TakeNumber, NEW f \in OutFile \cup {NoFile},
           NEW kind \in {"file", "avatar", "memory"},
           \A d \in Dir, n \in Number : ft'[d][n].in_use <=> Sent(f, kind)[d][n].in_use
    PROVE  Shifts
<1>1. NextNumber \in Number
  BY TakeNumberTypes
<1>2. \A d \in Dir, n \in Number :
        ft'[d][n].in_use <=> ft[d][n].in_use \/ (d = "out" /\ n = NextNumber)
  BY <1>1, SentSlot DEF Dir
<1> QED
  BY <1>2, NumberTakenShifts

LEMMA SendAgainSlots ==
    ASSUME TypeOK, NEW i \in Number, disk["out"][i].file \in OutFile \cup {NoFile}, SendAgain(i)
    PROVE  \A d \in Dir, n \in Number :
             ft'[d][n].in_use <=> Sent(disk["out"][i].file, "file")[d][n].in_use
<1> DEFINE f == disk["out"][i].file
<1>1. TakeNumber /\ ft' = Unlinked(Sent(f, "file"), i)
  BY DEF SendAgain
<1>2. Sent(f, "file") \in [Dir -> [Number -> Slot]]
  BY <1>1, TakeNumberTypes, SentTypes DEF TypeOK
<1> HIDE DEF f
<1>3. \A d \in Dir, n \in Number : ft'[d][n].in_use <=> Sent(f, "file")[d][n].in_use
  BY <1>1, <1>2, UnlinkedSame DEF Dir
<1> QED
  BY <1>3 DEF f

LEMMA ArriveShifts ==
    ASSUME FriendTypes, NEW n \in Number, NEW s, NEW b, s.in_use, Arrive(n, s, b),
           core["in"][n].state = "none"
    PROVE  Shifts
<1>1. "in" \in Dir /\ active' = [active EXCEPT !["in"] = @ + 1]
  BY DEF Arrive, Dir
<1>2. \A d \in Dir, m \in Number : ft'[d][m].in_use <=> ft[d][m].in_use \/ (d = "in" /\ m = n)
  BY <1>1 DEF Arrive, FriendTypes
<1>3. Takes("in", n)
  BY <1>1, <1>2 DEF Takes
<1> QED
  BY <1>1, <1>3 DEF Shifts

\* What an offered file makes of the slot and of toxcore's pipe.
LEMMA IncomingFileCases ==
    ASSUME NEW n \in Number, NEW f \in InFile, IncomingFile(n, f)
    PROVE  \/ \E s, b : s.in_use /\ Arrive(n, s, b)
           \/ ft' = [ft EXCEPT !["in"][n] = Zeroed] /\ UNCHANGED <<active, core>>
<1> DEFINE r == disk["in"][f]
           s == [Zeroed EXCEPT !.in_use = TRUE, !.file = f]
           known == [InitResumable(s) EXCEPT !.status = r.status, !.path = r.path]
           t == [known EXCEPT !.status = "ACTIVE", !.via_file = TRUE]
<1>1. InitResumable(s).in_use /\ known.in_use /\ t.in_use
  BY DEF InitResumable, Zeroed
<1>2. \/ Arrive(n, InitResumable(s), FALSE) \/ Arrive(n, t, TRUE) \/ Arrive(n, known, FALSE)
      \/ ft' = [ft EXCEPT !["in"][n] = Zeroed] /\ UNCHANGED <<active, core>>
  BY DEF IncomingFile
<1> HIDE DEF t, known, s
<1> QED
  BY <1>1, <1>2

LEMMA IncomingCases ==
    ASSUME NEW n \in Number, IncomingRequest(n)
    PROVE  /\ core["in"][n].state = "none" /\ connected
           /\ \/ \E s, b : s.in_use /\ Arrive(n, s, b)
              \/ ft' = [ft EXCEPT !["in"][n] = Zeroed] /\ UNCHANGED <<active, core>>
<1>1. ASSUME NEW kind,
             Arrive(n, [Zeroed EXCEPT !.in_use = TRUE, !.kind = kind, !.status = "ACTIVE"], TRUE)
      PROVE  \E s, b : s.in_use /\ Arrive(n, s, b)
  <2>1. [Zeroed EXCEPT !.in_use = TRUE, !.kind = kind, !.status = "ACTIVE"].in_use
    BY DEF Zeroed
  <2> QED
    BY <1>1, <2>1
<1> QED
  BY <1>1, IncomingFileCases DEF IncomingRequest

LEMMA IncomingShifts == ASSUME FriendTypes, NEW n \in Number, IncomingRequest(n) PROVE Shifts
<1>1. CASE \E s, b : s.in_use /\ Arrive(n, s, b)
  BY <1>1, IncomingCases, ArriveShifts
<1>2. CASE ft' = [ft EXCEPT !["in"][n] = Zeroed] /\ UNCHANGED active
  <2>1. \A d \in Dir, m \in Number :
          ft'[d][m].in_use <=> ft[d][m].in_use /\ ~(d = "in" /\ m = n)
    BY <1>2 DEF FriendTypes, Zeroed, Dir
  <2>2. Clears("in", n)
    BY <1>2, <2>1, IncomingCases DEF Clears
  <2> QED
    BY <2>2 DEF Shifts, Dir
<1> QED
  BY <1>1, <1>2, IncomingCases

LEMMA CompleteShifts ==
    ASSUME FriendTypes, NEW d \in Dir, NEW n \in Number, Complete(d, n) PROVE Keeps
<1>1. ft[d][n] \in Slot
  BY DEF FriendTypes
<1> DEFINE t == [ft[d][n] EXCEPT !.status = "COMPLETED", !.decon_wait = TRUE]
<1>2. ft' = [ft EXCEPT ![d][n] = t]
  BY DEF Complete, FriendTypes
<1>3. t.in_use = ft[d][n].in_use
  BY <1>1 DEF Slot
<1>4. UNCHANGED active
  BY DEF Complete
<1> HIDE DEF t
<1>5. \A e \in Dir, m \in Number : ft'[e][m].in_use <=> ft[e][m].in_use
  BY <1>2, <1>3 DEF FriendTypes
<1> QED
  BY <1>4, <1>5 DEF Keeps

LEMMA CallbackShifts == ASSUME TypeOK, Callback PROVE Shifts
<1> USE DEF TypeOK
<1>1. ASSUME NEW n \in Number, IncomingRequest(n) PROVE Shifts
  BY <1>1, IncomingShifts
<1>2. ASSUME NEW n \in Number, RefuseAvatar(n) \/ Chunk(n) \/ ReadFails(n) PROVE Shifts
  BY <1>2, KillShifts, ControlShifts, UntouchedShifts
  DEF RefuseAvatar, Chunk, ReadFails, Dir, friendVars
<1>3. ASSUME NEW d \in Dir, NEW n \in Number, Complete(d, n) PROVE Shifts
  BY <1>3, CompleteShifts DEF Shifts
<1>4. ASSUME NEW d \in Dir, NEW n \in Number, CompleteInactive(d, n) \/ RemoteControl(d, n)
      PROVE  Shifts
  BY <1>4, NamedType, DeconShifts, ControlShifts DEF CompleteInactive, RemoteControl
<1>5. CASE Connect
  BY <1>5, UntouchedShifts DEF Connect, friendVars
<1>6. CASE Disconnect
  BY <1>6, BreakAllShifts, UntouchedShifts DEF Disconnect, friendVars
<1>7. CASE OtherOffline
  BY <1>7, ZeroedType, DeconShifts DEF OtherOffline
<1> QED
  BY <1>1, <1>2, <1>3, <1>4, <1>5, <1>6, <1>7 DEF Callback

LEMMA CommandShifts == ASSUME TypeOK, Command PROVE Shifts
<1> USE DEF TypeOK
<1>1. CASE Control
  <2>1. Target.dir \in Dir /\ Target.number \in Number
    BY NamedType DEF Target, UITypes, Request, Place
  <2> QED
    BY <1>1, <2>1, ControlShifts, UntouchedShifts DEF Control, friendVars
<1>2. CASE Accept
  <2>1. PICK p \in {Target, [dir |-> request.dir, number |-> request.number]} :
          \/ StartWrite(p.dir, p.number) \/ FailToWriteFile(p.dir, p.number)
          \/ UNCHANGED friendVars
    BY <1>2 DEF Accept
  <2>2. p.dir \in Dir /\ p.number \in Number
    BY NamedType DEF Target, UITypes, Request, Place
  <2> QED
    BY <2>1, <2>2, AcceptShifts, UntouchedShifts DEF friendVars
<1>3. ASSUME NEW f \in OutFile, NEW kind \in {"file", "memory"}, SendNew(f, kind) PROVE Shifts
  BY <1>3, SentShifts DEF SendNew
<1> QED
  BY <1>1, <1>2, <1>3 DEF Command

LEMMA ResumedFile ==
    ASSUME TypeOK, FilesKnown, ResumeNext
    PROVE  thread.number \in Number /\ disk["out"][thread.number].file \in OutFile \cup {NoFile}
<1>1. thread.number \in Number
  BY DEF TypeOK, ResumeNext, ThreadTypes, Number
<1> QED
  BY <1>1 DEF FilesKnown, HistoryTypes, TypeOK

LEMMA GoOnShifts ==
    ASSUME TypeOK, FilesKnown, EndDecon \/ ResumeNext \/ FinishOnline PROVE Shifts
<1> USE DEF TypeOK
<1>1. CASE EndDecon
  BY <1>1, DeconShifts DEF EndDecon, ThreadTypes, Place
<1>2. CASE ResumeNext
  <2> DEFINE i == thread.number
             f == disk["out"][i].file
  <2>1. i \in Number /\ f \in OutFile \cup {NoFile}
    BY <1>2, ResumedFile
  <2>2. CASE SendAgain(i)
    <3>1. TakeNumber
      BY <2>2 DEF SendAgain
    <3>2. \A d \in Dir, n \in Number : ft'[d][n].in_use <=> Sent(f, "file")[d][n].in_use
      BY <2>1, <2>2, SendAgainSlots
    <3> HIDE DEF f, i
    <3> QED
      BY <2>1, <3>1, <3>2, SentShifts
  <2>3. CASE DropRecord(i)
    <3>1. \A d \in Dir, n \in Number : ft'[d][n].in_use <=> ft[d][n].in_use
      BY <2>1, <2>3, UnlinkedSame DEF DropRecord, FriendTypes, Dir
    <3> QED
      BY <2>3, <3>1 DEF DropRecord, Shifts, Keeps
  <2> QED
    BY <1>2, <2>2, <2>3 DEF ResumeNext
<1>3. CASE FinishOnline
  BY <1>3, SentShifts, UntouchedShifts DEF FinishOnline, friendVars
<1> QED
  BY <1>1, <1>2, <1>3

LEMMA HandleShifts == ASSUME TypeOK, Handle PROVE Keeps
<1>1. \A d \in Dir, n \in Number : ft'[d][n].in_use <=> ft[d][n].in_use
  <2>1. ASSUME NEW d \in Dir, NEW n \in Number
        PROVE  ft'[d][n] \in {ft[d][n], [ft[d][n] EXCEPT !.decon_wait = FALSE]}
    <3>1. CASE UNCHANGED ft
      BY <3>1
    <3>2. CASE ft' = [ft EXCEPT ![Head(uiq).dir][Head(uiq).number].decon_wait = FALSE]
      BY <3>2 DEF TypeOK, FriendTypes
    <3> QED
      BY <3>1, <3>2 DEF Handle
  <2>2. \A d \in Dir, n \in Number : ft[d][n] \in Slot
    BY DEF TypeOK, FriendTypes
  <2> QED
    BY <2>1, <2>2 DEF Slot
<1> QED
  BY <1>1 DEF Handle, Keeps

\* With a new instance, and in the beginning, no slot is in use.
Cleared == /\ \A d \in Dir, n \in Number : ~ft[d][n].in_use
           /\ \A d \in Dir : active[d] = 0

LEMMA ClearedExcess ==
    ASSUME NEW d \in Dir
    PROVE  (Cleared => Excess(d) = 0) /\ (Cleared' => Excess(d)' = 0)
<1>1. Cardinality({}) = 0
  BY FS_EmptySet
<1>2. ASSUME Cleared PROVE Excess(d) = 0
  <2>1. UsedSlots(d) = {}
    BY <1>2 DEF Cleared, UsedSlots
  <2>2. InUse(d) = 0 /\ active[d] = 0
    BY <1>1, <1>2, <2>1, UsedFinite DEF Cleared
  <2> QED
    BY <2>2 DEF Excess
<1>3. ASSUME Cleared' PROVE Excess(d)' = 0
  <2>1. UsedSlots(d)' = {}
    BY <1>3 DEF Cleared, UsedSlots
  <2>2. InUse(d)' = 0 /\ active'[d] = 0
    BY <1>1, <1>3, <2>1, UsedFinite DEF Cleared
  <2> QED
    BY <2>2 DEF Excess
<1> QED
  BY <1>2, <1>3

LEMMA NewInstanceClears == ASSUME NewInstance PROVE Cleared'
BY DEF NewInstance, FreshFriend, Cleared, Zeroed

LEMMA InitClears == Init => Cleared
BY DEF Init, Cleared, Zeroed

LEMMA LoopKept ==
    ASSUME Callback \/ Command \/ EndDecon \/ ResumeNext \/ FinishOnline \/ Handle \/ Click
    PROVE  ui' = ui
<1>1. CASE \E n \in Number : IncomingRequest(n) \/ RefuseAvatar(n) \/ Chunk(n) \/ ReadFails(n)
  BY <1>1 DEF IncomingRequest, RefuseAvatar, Chunk, ReadFails
<1>2. CASE \E d \in Dir, n \in Number :
             Complete(d, n) \/ CompleteInactive(d, n) \/ RemoteControl(d, n)
  BY <1>2 DEF Complete, CompleteInactive, RemoteControl
<1>3. CASE Connect \/ Disconnect \/ OtherOffline
  BY <1>3 DEF Connect, Disconnect, OtherOffline
<1>4. CASE Command
  BY <1>4 DEF Command, Control, Accept, SendNew
<1>5. CASE EndDecon \/ ResumeNext \/ FinishOnline
  BY <1>5 DEF EndDecon, ResumeNext, FinishOnline
<1>6. CASE Handle \/ Click
  BY <1>6 DEF Handle, Click
<1> QED
  BY <1>1, <1>2, <1>3, <1>4, <1>5, <1>6 DEF Callback

\* A step the UI thread is in its loop before and after: the slots shift.
LEMMA LoopShifts ==
    ASSUME TypeOK, FilesKnown, [Next]_vars, ui = "loop", ui' = "loop" PROVE Shifts \/ Cleared'
<1>1. CASE Restart \/ Crash
  BY <1>1, NewInstanceClears DEF Restart, Crash
<1>2. CASE SettingsChanged
  BY <1>2 DEF SettingsChanged
<1>3. CASE Callback \/ Command \/ EndDecon \/ ResumeNext \/ FinishOnline \/ Handle
  BY <1>3, CallbackShifts, CommandShifts, GoOnShifts, HandleShifts DEF Shifts
<1>4. CASE Click \/ UNCHANGED vars
  BY <1>4, UntouchedShifts DEF Click, vars, friendVars
<1> QED
  BY <1>1, <1>2, <1>3, <1>4 DEF Next, GoOn

\* The UI thread gets into its loop with a new instance only.
LEMMA LoopEntered ==
    ASSUME [Next]_vars, ui # "loop", ui' = "loop" PROVE Cleared' /\ NewInstance
<1>1. CASE Restart \/ Crash
  BY <1>1, NewInstanceClears DEF Restart, Crash
<1>2. CASE ~(Restart \/ Crash \/ SettingsChanged)
  BY <1>2, LoopKept DEF Next, GoOn, vars, uiVars
<1> QED
  BY <1>1, <1>2 DEF SettingsChanged

LEMMA CountedStep ==
    ASSUME TypeOK, FilesKnown, NeverUndercounts, [Next]_vars PROVE NeverUndercounts'
<1> SUFFICES ASSUME ui' = "loop", NEW d \in Dir PROVE active'[d] >= InUse(d)'
  BY DEF NeverUndercounts
<1>1. active[d] \in Int /\ active'[d] \in Int /\ InUse(d) \in Nat /\ InUse(d)' \in Nat
  BY UsedFinite, TypesStep DEF TypeOK, FriendTypes
<1>2. CASE Cleared'
  BY <1>1, <1>2, ClearedExcess DEF Excess
<1>3. CASE ui = "loop" /\ Shifts
  <2>1. Excess(d)' >= Excess(d)
    BY <1>3, ShiftsExcess DEF TypeOK
  <2> QED
    BY <1>1, <1>3, <2>1 DEF Excess, NeverUndercounts
<1> QED
  BY <1>2, <1>3, LoopShifts, LoopEntered

LEMMA CountedInit == Init => NeverUndercounts
<1> SUFFICES ASSUME Init, NEW d \in Dir PROVE active[d] >= InUse(d)
  BY DEF NeverUndercounts
<1>1. Excess(d) = 0 /\ active[d] = 0 /\ InUse(d) \in Nat
  BY InitClears, ClearedExcess, UsedFinite DEF Init
<1> QED
  BY <1>1 DEF Excess

-----------------------------------------------------------------------------
(* Slots and toxcore's pipes *)

\* One pipe changes, and is there if its slot is in use.
LEMMA PutPiped ==
    ASSUME CoreTypes, SlotsPiped, NEW d \in Dir, NEW n \in Number, NEW q,
           core' = [core EXCEPT ![d][n] = q], ft'[d][n].in_use => q.state # "none",
           \A e \in Dir, m \in Number : ft'[e][m].in_use => ft[e][m].in_use \/ (e = d /\ m = n)
    PROVE  SlotsPiped'
<1> SUFFICES ASSUME NEW e \in Dir, NEW m \in Number, ft'[e][m].in_use
             PROVE  core'[e][m].state # "none"
  BY DEF SlotsPiped
<1>1. core'[e][m] = IF e = d /\ m = n THEN q ELSE core[e][m]
  BY DEF CoreTypes
<1> QED
  BY <1>1 DEF SlotsPiped

LEMMA SamePiped == ASSUME SlotsPiped, NoneTaken, UNCHANGED core PROVE SlotsPiped'
BY DEF SlotsPiped, NoneTaken

\* RESUME and PAUSE, of either side, leave every pipe where it is.
LEMMA ResumedPipe ==
    ASSUME NEW p \in Pipe, NEW d \in Dir
    PROVE  /\ p.state # "none" => PipeResumed(d, p).state # "none" /\ PipePaused(p).state # "none"
           /\ p = NoPipe => PipeResumed(d, p) = NoPipe /\ PipePaused(p) = NoPipe
           /\ Offered.state # "none" /\ PipeResumed("in", Offered).state # "none"
<1>1. p.state # "none" => PipeResumed(d, p).state # "none" /\ PipePaused(p).state # "none"
  BY DEF PipeResumed, PipePaused, Pipe
<1>2. p = NoPipe => PipeResumed(d, p) = NoPipe /\ PipePaused(p) = NoPipe
  BY DEF PipeResumed, PipePaused, NoPipe
<1>3. Offered.state = "offered" /\ Offered \in Pipe
  BY DEF Offered, NoPipe, Pipe
<1>4. PipeResumed("in", Offered).state # "none"
  BY <1>3 DEF PipeResumed, Pipe
<1> QED
  BY <1>1, <1>2, <1>3, <1>4

LEMMA LocalControlPiped ==
    ASSUME FriendTypes, CoreTypes, SlotsPiped, NEW d \in Dir, NEW n \in Number,
           LocalResume(d, n) \/ LocalPause(d, n) \/ LocalCancel(d, n)
    PROVE  SlotsPiped'
<1>1. core[d][n] \in Pipe
  BY DEF CoreTypes
<1>2. CASE LocalResume(d, n)
  <2>1. PICK q \in {core[d][n], PipeResumed(d, core[d][n])} : core' = [core EXCEPT ![d][n] = q]
    BY <1>2 DEF LocalResume, CoreTypes
  <2>2. NoneTaken
    BY <1>2, StatusShifts DEF LocalResume
  <2>3. ft'[d][n].in_use => q.state # "none"
    BY <1>1, <2>2, ResumedPipe DEF NoneTaken, SlotsPiped
  <2> QED
    BY <2>1, <2>2, <2>3, PutPiped DEF NoneTaken
<1>3. CASE LocalPause(d, n)
  <2>1. PICK q \in {core[d][n], PipePaused(core[d][n])} : core' = [core EXCEPT ![d][n] = q]
    BY <1>3 DEF LocalPause, CoreTypes
  <2>2. NoneTaken
    BY <1>3, StatusShifts DEF LocalPause
  <2>3. ft'[d][n].in_use => q.state # "none"
    BY <1>1, <2>2, ResumedPipe DEF NoneTaken, SlotsPiped
  <2> QED
    BY <2>1, <2>2, <2>3, PutPiped DEF NoneTaken
<1>4. CASE LocalCancel(d, n)
  <2>1. CASE core' = [core EXCEPT ![d][n] = NoPipe] /\ Kill(d, n)
    BY <2>1, KillShifts, PutPiped DEF NoneTaken
  <2>2. CASE UNCHANGED <<friendVars, core>>
    BY <2>2, UntouchedShifts, SamePiped DEF friendVars
  <2> QED
    BY <1>4, <2>1, <2>2 DEF LocalCancel
<1> QED
  BY <1>2, <1>3, <1>4

LEMMA RemoteControlPiped ==
    ASSUME FriendTypes, CoreTypes, SlotsPiped, NEW d \in Dir, NEW n \in Number,
           RemoteResume(d, n) \/ RemotePause(d, n) \/ RemoteCancel(d, n)
    PROVE  SlotsPiped'
<1>1. core[d][n] \in Pipe
  BY DEF CoreTypes
<1>2. CASE RemoteResume(d, n)
  <2> DEFINE q == [core[d][n] EXCEPT !.state = "open", !.them = FALSE]
  <2>1. core' = [core EXCEPT ![d][n] = q] /\ q.state # "none"
    BY <1>1, <1>2 DEF RemoteResume, CoreTypes, Pipe
  <2>2. NoneTaken
    BY <1>2, StatusShifts DEF RemoteResume
  <2> HIDE DEF q
  <2> QED
    BY <2>1, <2>2, PutPiped DEF NoneTaken
<1>3. CASE RemotePause(d, n)
  <2> DEFINE q == [core[d][n] EXCEPT !.them = TRUE]
  <2>1. core' = [core EXCEPT ![d][n] = q] /\ q.state # "none"
    BY <1>1, <1>3 DEF RemotePause, CoreTypes, Pipe
  <2>2. NoneTaken
    BY <1>3, StatusShifts DEF RemotePause
  <2> HIDE DEF q
  <2> QED
    BY <2>1, <2>2, PutPiped DEF NoneTaken
<1>4. CASE RemoteCancel(d, n)
  <2>1. core' = [core EXCEPT ![d][n] = NoPipe] /\ NoneTaken /\ ~ft'[d][n].in_use
    BY <1>4, KillShifts, UntouchedShifts DEF RemoteCancel, friendVars
  <2> QED
    BY <2>1, PutPiped DEF NoneTaken
<1> QED
  BY <1>2, <1>3, <1>4

LEMMA AcceptPiped ==
    ASSUME FriendTypes, CoreTypes, SlotsPiped, NEW d \in Dir, NEW n \in Number,
           StartWrite(d, n) \/ FailToWriteFile(d, n)
    PROVE  SlotsPiped'
<1>1. core[d][n] \in Pipe
  BY DEF CoreTypes
<1>2. NoneTaken
  BY AcceptShifts
<1>3. CASE StartWrite(d, n)
  <2>1. PICK q \in {core[d][n], PipeResumed(d, core[d][n])} : core' = [core EXCEPT ![d][n] = q]
    BY <1>3 DEF StartWrite, CoreTypes
  <2>2. ft'[d][n].in_use => q.state # "none"
    BY <1>1, <1>2, ResumedPipe DEF NoneTaken, SlotsPiped
  <2> QED
    BY <1>2, <2>1, <2>2, PutPiped DEF NoneTaken
<1>4. CASE FailToWriteFile(d, n) /\ ~ft'[d][n].in_use /\ core # core'
  <2>1. PICK q : core' = [core EXCEPT ![d][n] = q]
    BY <1>4 DEF FailToWriteFile
  <2> QED
    BY <1>2, <1>4, <2>1, PutPiped DEF NoneTaken
<1> QED
  BY <1>2, <1>3, <1>4, AcceptShifts, SamePiped

LEMMA OutPiped ==
    ASSUME CoreTypes, SlotsPiped, NEW n \in Number, NEW q, q.state # "none",
           core' = [core EXCEPT !["out"][n] = q],
           \A d \in Dir, m \in Number : ft'[d][m].in_use => ft[d][m].in_use \/ (d = "out" /\ m = n)
    PROVE  SlotsPiped'
BY PutPiped DEF Dir

LEMMA SentPiped ==
    ASSUME FriendTypes, CoreTypes, SlotsPiped, TakeNumber, NEW f \in OutFile \cup {NoFile},
           NEW kind \in {"file", "avatar", "memory"},
           \A d \in Dir, n \in Number : ft'[d][n].in_use <=> Sent(f, kind)[d][n].in_use
    PROVE  SlotsPiped'
<1>1. NextNumber \in Number /\ "out" \in Dir /\ Offered.state # "none"
  BY TakeNumberTypes DEF Dir, Offered, NoPipe
<1>2. \A d \in Dir, n \in Number :
        ft'[d][n].in_use => ft[d][n].in_use \/ (d = "out" /\ n = NextNumber)
  BY <1>1, SentSlot DEF Dir
<1>3. core' = [core EXCEPT !["out"][NextNumber] = Offered]
  BY DEF TakeNumber
<1> QED
  BY <1>1, <1>2, <1>3, OutPiped

LEMMA IncomingPiped ==
    ASSUME FriendTypes, CoreTypes, SlotsPiped, NEW n \in Number, IncomingRequest(n)
    PROVE  SlotsPiped'
<1>0. "in" \in Dir
  BY DEF Dir
<1>1. ASSUME NEW s, NEW b, Arrive(n, s, b) PROVE SlotsPiped'
  <2>1. PICK q \in {Offered, PipeResumed("in", Offered)} : core' = [core EXCEPT !["in"][n] = q]
    BY <1>1 DEF Arrive
  <2>2. q.state # "none"
    BY <1>0, PipeTypes, NoPipeType, ResumedPipe
  <2>3. \A d \in Dir, m \in Number : ft'[d][m].in_use => ft[d][m].in_use \/ (d = "in" /\ m = n)
    BY <1>1 DEF Arrive, FriendTypes
  <2> QED
    BY <1>0, <2>1, <2>2, <2>3, PutPiped
<1>2. CASE ft' = [ft EXCEPT !["in"][n] = Zeroed] /\ UNCHANGED core
  <2>1. NoneTaken
    BY <1>2 DEF FriendTypes, Zeroed, NoneTaken
  <2> QED
    BY <1>2, <2>1, SamePiped
<1> QED
  BY <1>1, <1>2, IncomingCases

-----------------------------------------------------------------------------
(* What the UI thread knows of the connection *)

\* A friend toxcore has lost has no pipes.
NoPipesAway == ~connected => core = AllFree

\* When the UI keeps up, f->online is right about a friend who is there as soon
\* as ft_friend_online is through and FRIEND_ONLINE is handled.
OnlineInTime ==
    UIPrompt =>
      /\ connected => Online(FALSE) \notin ToSet(uiq)
      /\ ui = "loop" /\ connected /\ ~online =>
           thread.at = "online" \/ Online(TRUE) \in ToSet(uiq)

PipedInTime == UIPrompt /\ ui = "loop" => SlotsPiped

LEMMA ToSetAppend ==
    ASSUME NEW q \in Seq(Message), NEW m
    PROVE  ToSet(Append(q, m)) = ToSet(q) \cup {m}
<1>1. /\ DOMAIN q = 1..Len(q) /\ DOMAIN Append(q, m) = 1..(Len(q) + 1) /\ Len(q) \in Nat
      /\ \A i \in 1..Len(q) : Append(q, m)[i] = q[i]
      /\ Append(q, m)[Len(q) + 1] = m
  OBVIOUS
<1>2. \A i \in 1..(Len(q) + 1) : i \in 1..Len(q) \/ i = Len(q) + 1
  BY <1>1
<1>3. Len(q) + 1 \in 1..(Len(q) + 1) /\ 1..Len(q) \subseteq 1..(Len(q) + 1)
  BY <1>1
<1> QED
  BY <1>1, <1>2, <1>3 DEF ToSet

LEMMA ToSetTail ==
    ASSUME NEW q \in Seq(Message), q # <<>>
    PROVE  ToSet(q) = ToSet(Tail(q)) \cup {Head(q)}
<1>1. /\ Len(q) \in Nat \ {0} /\ Head(q) = q[1] /\ DOMAIN q = 1..Len(q)
      /\ DOMAIN Tail(q) = 1..(Len(q) - 1)
      /\ \A i \in 1..(Len(q) - 1) : Tail(q)[i] = q[i + 1]
  OBVIOUS
<1>2. ASSUME NEW i \in 1..Len(q) PROVE q[i] \in ToSet(Tail(q)) \cup {Head(q)}
  <2>1. CASE i = 1
    BY <1>1, <2>1
  <2>2. CASE i # 1
    <3>1. i - 1 \in 1..(Len(q) - 1) /\ Tail(q)[i - 1] = q[i]
      BY <1>1, <2>2
    <3> QED
      BY <1>1, <3>1 DEF ToSet
  <2> QED
    BY <2>1, <2>2
<1>3. ASSUME NEW i \in 1..(Len(q) - 1) PROVE Tail(q)[i] \in ToSet(q)
  <2>1. i + 1 \in 1..Len(q)
    BY <1>1
  <2> QED
    BY <1>1, <2>1 DEF ToSet
<1>4. Head(q) \in ToSet(q)
  BY <1>1 DEF ToSet
<1> QED
  BY <1>1, <1>2, <1>3, <1>4 DEF ToSet

LEMMA PutNoPipe ==
    ASSUME NEW d \in Dir, NEW n \in Number PROVE [AllFree EXCEPT ![d][n] = NoPipe] = AllFree
BY DEF AllFree

\* Nothing gives a pipe to a friend who is away.
LEMMA ControlAway ==
    ASSUME core = AllFree, NEW d \in Dir, NEW n \in Number,
           \/ LocalResume(d, n) \/ LocalPause(d, n) \/ LocalCancel(d, n)
           \/ RemoteResume(d, n) \/ RemotePause(d, n) \/ RemoteCancel(d, n)
           \/ StartWrite(d, n) \/ FailToWriteFile(d, n)
    PROVE  core' = AllFree
<1>1. core[d][n] = NoPipe /\ NoPipe.state = "none" /\ ~NoPipe.them
  BY DEF AllFree, NoPipe
<1>2. PipeResumed(d, NoPipe) = NoPipe /\ PipePaused(NoPipe) = NoPipe
  BY NoPipeType, ResumedPipe
<1>3. ~RemoteResume(d, n) /\ ~RemotePause(d, n) /\ ~RemoteCancel(d, n)
  BY <1>1 DEF RemoteResume, RemotePause, RemoteCancel
<1>4. core' \in {core, [core EXCEPT ![d][n] = NoPipe]}
  <2>1. CASE LocalResume(d, n) \/ StartWrite(d, n)
    BY <1>1, <1>2, <2>1 DEF LocalResume, StartWrite, AllFree
  <2>2. CASE LocalPause(d, n)
    BY <1>1, <1>2, <2>2 DEF LocalPause, AllFree
  <2>3. CASE LocalCancel(d, n)
    BY <2>3 DEF LocalCancel
  <2>4. CASE FailToWriteFile(d, n)
    BY <1>1, <2>4 DEF FailToWriteFile, AllFree
  <2> QED
    BY <1>3, <2>1, <2>2, <2>3, <2>4
<1> QED
  BY <1>4, PutNoPipe

LEMMA RunningPiped == ASSUME NEW d \in Dir, NEW n \in Number, Running(d, n) PROVE core # AllFree
BY DEF Running, AllFree, NoPipe

LEMMA PipesAwayStep ==
    ASSUME TypeOK, NoPipesAway, [Next]_vars PROVE NoPipesAway'
<1> USE DEF TypeOK
<1>1. CASE Connect \/ Disconnect \/ Restart \/ Crash
  BY <1>1 DEF Connect, Disconnect, Restart, Crash, NewInstance, NoPipesAway
<1> SUFFICES ASSUME ~(Connect \/ Disconnect \/ Restart \/ Crash), ~connected, core = AllFree
             PROVE  core' = AllFree
  <2>1. ASSUME ~(Connect \/ Disconnect \/ Restart \/ Crash) PROVE connected' = connected
    <3>1. CASE Callback
      <4>1. ASSUME NEW n \in Number, IncomingRequest(n) \/ RefuseAvatar(n) \/ Chunk(n) \/ ReadFails(n)
            PROVE  connected' = connected
        BY <4>1 DEF IncomingRequest, RefuseAvatar, Chunk, ReadFails
      <4>2. ASSUME NEW d \in Dir, NEW n \in Number,
                   Complete(d, n) \/ CompleteInactive(d, n) \/ RemoteControl(d, n)
            PROVE  connected' = connected
        BY <4>2 DEF Complete, CompleteInactive, RemoteControl
      <4>3. CASE OtherOffline
        BY <4>3 DEF OtherOffline, coreVars
      <4> QED
        BY <2>1, <3>1, <4>1, <4>2, <4>3 DEF Callback
    <3>2. CASE Command \/ EndDecon \/ ResumeNext \/ FinishOnline
      BY <3>2 DEF Command, Control, Accept, SendNew, EndDecon, ResumeNext, FinishOnline
    <3>3. CASE Handle \/ Click \/ SettingsChanged \/ UNCHANGED vars
      BY <3>3 DEF Handle, Click, SettingsChanged, vars, coreVars
    <3> QED
      BY <2>1, <3>1, <3>2, <3>3 DEF Next, GoOn
  <2> QED
    BY <1>1, <2>1 DEF NoPipesAway
<1>2. CASE Callback
  <2>1. ASSUME NEW n \in Number, IncomingRequest(n) \/ RefuseAvatar(n) PROVE FALSE
    BY <2>1 DEF IncomingRequest, RefuseAvatar
  <2>2. ASSUME NEW n \in Number, Chunk(n) \/ ReadFails(n) PROVE FALSE
    BY <2>2, RunningPiped DEF Chunk, ReadFails, Dir
  <2>3. ASSUME NEW d \in Dir, NEW n \in Number, Complete(d, n) \/ CompleteInactive(d, n)
        PROVE  FALSE
    BY <2>3, RunningPiped DEF Complete, CompleteInactive
  <2>4. ASSUME NEW d \in Dir, NEW n \in Number, RemoteControl(d, n) PROVE core' = AllFree
    BY <2>4, ControlAway DEF RemoteControl
  <2>5. CASE OtherOffline
    BY <2>5 DEF OtherOffline, coreVars
  <2> QED
    BY <1>2, <2>1, <2>2, <2>3, <2>4, <2>5 DEF Callback
<1>3. CASE Control
  <2>1. Target.dir \in Dir /\ Target.number \in Number
    BY NamedType DEF Target, UITypes, Request, Place
  <2> QED
    BY <1>3, <2>1, ControlAway DEF Control
<1>4. CASE Accept
  <2>1. PICK p \in {Target, [dir |-> request.dir, number |-> request.number]} :
          \/ StartWrite(p.dir, p.number) \/ FailToWriteFile(p.dir, p.number)
          \/ UNCHANGED core
    BY <1>4 DEF Accept
  <2>2. p.dir \in Dir /\ p.number \in Number
    BY NamedType DEF Target, UITypes, Request, Place
  <2> QED
    BY <2>1, <2>2, ControlAway
<1>5. CASE \E f \in OutFile, kind \in {"file", "memory"} : SendNew(f, kind)
  BY <1>5 DEF SendNew, TakeNumber
<1>6. CASE EndDecon
  BY <1>6, PutNoPipe DEF EndDecon, ThreadTypes
<1>7. CASE ResumeNext \/ FinishOnline
  BY <1>7 DEF ResumeNext, SendAgain, DropRecord, FinishOnline, TakeNumber
<1>8. CASE Handle \/ Click \/ SettingsChanged \/ UNCHANGED vars
  BY <1>8 DEF Handle, Click, SettingsChanged, vars, coreVars
<1> QED
  BY <1>2, <1>3, <1>4, <1>5, <1>6, <1>7, <1>8 DEF Next, GoOn, Command

\* Steps that leave the connection alone, and that add no FRIEND_ONLINE.
LEMMA OnlineKept ==
    ASSUME UITypes, OnlineInTime, UNCHANGED <<online, ui, connected>>,
           thread.at = "online" => thread'.at = "online",
           \/ UNCHANGED uiq
           \/ \E m : m.tag = "FILE_STATUS_UPDATE_DATA" /\ uiq' = Append(uiq, m)
    PROVE  OnlineInTime'
<1>1. CASE UNCHANGED uiq
  BY <1>1 DEF OnlineInTime
<1>2. ASSUME NEW m, m.tag = "FILE_STATUS_UPDATE_DATA", uiq' = Append(uiq, m) PROVE OnlineInTime'
  <2>1. ToSet(uiq') = ToSet(uiq) \cup {m}
    BY <1>2, ToSetAppend DEF UITypes
  <2>2. m # Online(FALSE) /\ m # Online(TRUE)
    BY <1>2 DEF Online
  <2> QED
    BY <2>1, <2>2 DEF OnlineInTime
<1> QED
  BY <1>1, <1>2

LEMMA OnlineStep == ASSUME TypeOK, OnlineInTime, [Next]_vars PROVE OnlineInTime'
<1> USE DEF TypeOK
<1>0. uiq \in Seq(Message) /\ Online(TRUE) # Online(FALSE)
  BY DEF UITypes, Online
<1>1. CASE Connect
  <2>1. UIPrompt => Online(FALSE) \notin ToSet(uiq)
    BY <1>1 DEF Connect, MayFlip
  <2>2. CASE thread'.at = "online" /\ UNCHANGED uiq
    BY <2>1, <2>2 DEF OnlineInTime
  <2>3. CASE uiq' = Append(uiq, Online(TRUE))
    <3>1. ToSet(uiq') = ToSet(uiq) \cup {Online(TRUE)}
      BY <1>0, <2>3, ToSetAppend
    <3> QED
      BY <1>0, <2>1, <3>1 DEF OnlineInTime
  <2>4. (thread'.at = "online" /\ UNCHANGED uiq) \/ uiq' = Append(uiq, Online(TRUE))
    BY <1>1 DEF Connect, Told, Online
  <2> QED
    BY <2>2, <2>3, <2>4
<1>2. CASE Disconnect
  BY <1>2 DEF Disconnect, OnlineInTime
<1>3. CASE Restart \/ Crash
  BY <1>3 DEF Restart, Crash, NewInstance, OnlineInTime
<1>4. CASE FinishOnline
  <2>1. ToSet(uiq') = ToSet(uiq) \cup {Online(TRUE)} /\ UNCHANGED connected
    BY <1>0, <1>4, ToSetAppend DEF FinishOnline, Told
  <2> QED
    BY <1>0, <2>1 DEF OnlineInTime
<1>5. CASE Handle
  <2>1. /\ ToSet(uiq) = ToSet(uiq') \cup {Head(uiq)} /\ UNCHANGED <<ui, connected, thread>>
    BY <1>0, <1>5, ToSetTail DEF Handle, coreVars
  <2>2. Head(uiq) \in Message
    BY <1>0, <1>5 DEF Handle
  <2>3. CASE Head(uiq).tag = "FRIEND_ONLINE"
    <3>1. Head(uiq) \in {Online(TRUE), Online(FALSE)} /\ online' = Head(uiq).status
      BY <1>5, <2>2, <2>3 DEF Message, Online, Handle
    <3>2. Online(TRUE).status
      BY DEF Online
    <3> QED
      BY <2>1, <3>1, <3>2 DEF OnlineInTime
  <2>4. CASE Head(uiq).tag = "FILE_STATUS_UPDATE_DATA"
    <3>1. Head(uiq) # Online(TRUE) /\ UNCHANGED online
      BY <1>5, <2>4 DEF Online, Handle
    <3> QED
      BY <2>1, <3>1 DEF OnlineInTime
  <2> QED
    BY <1>5, <2>3, <2>4 DEF Handle
<1>6. CASE SettingsChanged
  BY <1>6 DEF SettingsChanged, OnlineInTime, coreVars
<1>7. ASSUME NEW d \in Dir, NEW n \in Number, Complete(d, n) PROVE OnlineInTime'
  <2> DEFINE m == [tag |-> "FILE_STATUS_UPDATE_DATA", dir |-> d, number |-> n]
  <2>1. m.tag = "FILE_STATUS_UPDATE_DATA" /\ uiq' = Append(uiq, m)
    BY <1>7 DEF Complete
  <2> HIDE DEF m
  <2>2. thread.at = "free" /\ UNCHANGED <<online, ui, connected>>
    BY <1>7 DEF Complete, Free, coreVars
  <2> QED
    BY <2>1, <2>2, OnlineKept
<1>8. CASE \/ \E n \in Number : IncomingRequest(n) \/ RefuseAvatar(n) \/ Chunk(n) \/ ReadFails(n)
           \/ \E d \in Dir, n \in Number : CompleteInactive(d, n) \/ RemoteControl(d, n)
           \/ OtherOffline
  BY <1>8, OnlineKept DEF IncomingRequest, RefuseAvatar, Chunk, ReadFails, CompleteInactive,
                          RemoteControl, OtherOffline, uiVars, coreVars
<1>9. CASE Command
  BY <1>9, OnlineKept DEF Command, Control, Accept, SendNew
<1>10. CASE EndDecon \/ ResumeNext
  BY <1>10, OnlineKept DEF EndDecon, ResumeNext, uiVars, ThreadTypes
<1>11. CASE Click \/ UNCHANGED vars
  BY <1>11, OnlineKept DEF Click, vars, uiVars, coreVars
<1> QED
  BY <1>1, <1>2, <1>3, <1>4, <1>5, <1>6, <1>7, <1>8, <1>9, <1>10, <1>11
  DEF Next, Callback, GoOn

LEMMA CallbackPiped ==
    ASSUME TypeOK, UIPrompt, OnlineInTime, ui = "loop", SlotsPiped, Callback PROVE SlotsPiped'
<1> USE DEF TypeOK
<1>1. ASSUME NEW n \in Number, IncomingRequest(n) PROVE SlotsPiped'
  BY <1>1, IncomingPiped
<1>2. ASSUME NEW n \in Number, RefuseAvatar(n) PROVE SlotsPiped'
  <2>1. PICK q : core' = [core EXCEPT !["in"][n] = q] /\ (core' = core \/ q = Offered)
    <3>1. core = [core EXCEPT !["in"][n] = @]
      BY DEF CoreTypes
    <3> QED
      BY <1>2, <3>1 DEF RefuseAvatar
  <2>2. NoneTaken
    BY <1>2, KillShifts, UntouchedShifts DEF RefuseAvatar, friendVars, Dir
  <2>3. CASE core' = core
    BY <2>2, <2>3, SamePiped
  <2>4. CASE q = Offered
    <3>1. q.state # "none"
      BY <2>4 DEF Offered, NoPipe
    <3> QED
      BY <2>1, <2>2, <3>1, PutPiped DEF NoneTaken, Dir
  <2> QED
    BY <2>1, <2>3, <2>4
<1>3. ASSUME NEW n \in Number, Chunk(n) \/ ReadFails(n) PROVE SlotsPiped'
  BY <1>3, LocalControlPiped, UntouchedShifts, SamePiped DEF Chunk, ReadFails, Dir, friendVars
<1>4. ASSUME NEW d \in Dir, NEW n \in Number, Complete(d, n) PROVE SlotsPiped'
  BY <1>4, CompleteShifts, SamePiped DEF Complete, Keeps, NoneTaken, coreVars
<1>5. ASSUME NEW d \in Dir, NEW n \in Number, CompleteInactive(d, n) PROVE SlotsPiped'
  <2>1. NoneTaken /\ ~ft'[Named(d, n).dir][Named(d, n).number].in_use
    BY <1>5, NamedType, DeconShifts DEF CompleteInactive
  <2>2. ~ft'[d][n].in_use
    BY <2>1 DEF NoneTaken, Named
  <2>3. core' = [core EXCEPT ![d][n] = NoPipe]
    BY <1>5 DEF CompleteInactive
  <2> QED
    BY <2>1, <2>2, <2>3, PutPiped DEF NoneTaken
<1>6. ASSUME NEW d \in Dir, NEW n \in Number, RemoteControl(d, n) PROVE SlotsPiped'
  BY <1>6, RemoteControlPiped DEF RemoteControl
<1>7. CASE Connect
  BY <1>7, UntouchedShifts, SamePiped DEF Connect, friendVars
<1>8. CASE Disconnect
  <2>1. online
    BY <1>8 DEF Disconnect, MayFlip, Free, OnlineInTime
  <2> QED
    BY <1>8, <2>1, BreakAllShifts DEF Disconnect, SlotsPiped
<1>9. CASE OtherOffline
  BY <1>9, ZeroedType, DeconShifts, SamePiped DEF OtherOffline, coreVars
<1> QED
  BY <1>1, <1>2, <1>3, <1>4, <1>5, <1>6, <1>7, <1>8, <1>9 DEF Callback

LEMMA CommandPiped == ASSUME TypeOK, SlotsPiped, Command PROVE SlotsPiped'
<1> USE DEF TypeOK
<1>1. CASE Control
  <2>1. Target.dir \in Dir /\ Target.number \in Number
    BY NamedType DEF Target, UITypes, Request, Place
  <2> QED
    BY <1>1, <2>1, LocalControlPiped, UntouchedShifts, SamePiped DEF Control, friendVars
<1>2. CASE Accept
  <2>1. PICK p \in {Target, [dir |-> request.dir, number |-> request.number]} :
          \/ StartWrite(p.dir, p.number) \/ FailToWriteFile(p.dir, p.number)
          \/ UNCHANGED <<friendVars, core>>
    BY <1>2 DEF Accept
  <2>2. p.dir \in Dir /\ p.number \in Number
    BY NamedType DEF Target, UITypes, Request, Place
  <2> QED
    BY <2>1, <2>2, AcceptPiped, UntouchedShifts, SamePiped DEF friendVars
<1>3. ASSUME NEW f \in OutFile, NEW kind \in {"file", "memory"}, SendNew(f, kind)
      PROVE  SlotsPiped'
  BY <1>3, SentPiped DEF SendNew
<1> QED
  BY <1>1, <1>2, <1>3 DEF Command

LEMMA GoOnPiped ==
    ASSUME TypeOK, FilesKnown, SlotsPiped, EndDecon \/ ResumeNext \/ FinishOnline
    PROVE  SlotsPiped'
<1> USE DEF TypeOK
<1>1. CASE EndDecon
  <2>1. thread.dir \in Dir /\ thread.number \in Number
    BY <1>1 DEF EndDecon, ThreadTypes
  <2>2. NoneTaken /\ ~ft'[thread.dir][thread.number].in_use
    BY <1>1, <2>1, DeconShifts DEF EndDecon, Place
  <2>3. core' = [core EXCEPT ![thread.dir][thread.number] = NoPipe]
    BY <1>1 DEF EndDecon
  <2> QED
    BY <2>1, <2>2, <2>3, PutPiped DEF NoneTaken
<1>2. CASE ResumeNext
  <2>1. thread.number \in Number /\ disk["out"][thread.number].file \in OutFile \cup {NoFile}
    BY <1>2, ResumedFile
  <2>2. CASE SendAgain(thread.number)
    BY <2>1, <2>2, SendAgainSlots, SentPiped DEF SendAgain
  <2>3. CASE DropRecord(thread.number)
    <3>1. NoneTaken
      BY <2>1, <2>3, UnlinkedSame DEF DropRecord, FriendTypes, Dir, NoneTaken
    <3> QED
      BY <2>3, <3>1, SamePiped DEF DropRecord
  <2> QED
    BY <1>2, <2>2, <2>3 DEF ResumeNext
<1>3. CASE FinishOnline
  BY <1>3, SentPiped, UntouchedShifts, SamePiped DEF FinishOnline, friendVars
<1> QED
  BY <1>1, <1>2, <1>3

LEMMA PipedStep ==
    ASSUME TypeOK, FilesKnown, OnlineInTime, PipedInTime, [Next]_vars PROVE PipedInTime'
<1> SUFFICES ASSUME UIPrompt, ui' = "loop" PROVE SlotsPiped'
  BY DEF PipedInTime
<1>1. CASE Cleared'
  BY <1>1 DEF Cleared, SlotsPiped
<1>2. CASE ui # "loop"
  BY <1>1, <1>2, LoopEntered
<1>3. CASE ui = "loop"
  <2>1. SlotsPiped
    BY <1>3 DEF PipedInTime
  <2>2. CASE Restart \/ Crash
    BY <1>1, <2>2, NewInstanceClears DEF Restart, Crash
  <2>3. CASE Callback \/ Command \/ EndDecon \/ ResumeNext \/ FinishOnline
    BY <1>3, <2>1, <2>3, CallbackPiped, CommandPiped, GoOnPiped
  <2>4. CASE Handle
    BY <2>1, <2>4, HandleShifts, SamePiped DEF Handle, Keeps, NoneTaken, coreVars
  <2>5. CASE Click \/ UNCHANGED vars
    BY <2>1, <2>5, UntouchedShifts, SamePiped DEF Click, vars, friendVars, coreVars
  <2>6. ~SettingsChanged
    BY DEF SettingsChanged
  <2> QED
    BY <2>2, <2>3, <2>4, <2>5, <2>6 DEF Next, GoOn
<1> QED
  BY <1>2, <1>3

\* The counters, exactly.
CountedInTime == UIPrompt => CountsSlots

LEMMA ExactStep ==
    ASSUME TypeOK, FilesKnown, PipedInTime, CountedInTime, [Next]_vars PROVE CountedInTime'
<1> SUFFICES ASSUME UIPrompt, ui' = "loop", NEW d \in Dir PROVE active'[d] = InUse(d)'
  BY DEF CountedInTime, CountsSlots
<1>1. active[d] \in Int /\ active'[d] \in Int /\ InUse(d) \in Nat /\ InUse(d)' \in Nat
  BY UsedFinite, TypesStep DEF TypeOK, FriendTypes
<1>2. CASE Cleared'
  BY <1>1, <1>2, ClearedExcess DEF Excess
<1>3. CASE ui = "loop" /\ Shifts
  <2>1. Excess(d)' = Excess(d)
    BY <1>3, ShiftsExcess DEF TypeOK, PipedInTime
  <2>2. active[d] = InUse(d)
    BY <1>3 DEF CountedInTime, CountsSlots
  <2> QED
    BY <1>1, <2>1, <2>2 DEF Excess
<1> QED
  BY <1>2, <1>3, LoopShifts, LoopEntered

LEMMA ExactInit == Init => CountedInTime /\ NoPipesAway /\ OnlineInTime /\ PipedInTime
<1> SUFFICES ASSUME Init PROVE CountedInTime /\ NoPipesAway /\ OnlineInTime /\ PipedInTime
  OBVIOUS
<1>1. ASSUME NEW d \in Dir PROVE active[d] = InUse(d)
  <2>1. Excess(d) = 0 /\ active[d] = 0 /\ InUse(d) \in Nat
    BY InitClears, ClearedExcess, UsedFinite DEF Init
  <2> QED
    BY <2>1 DEF Excess
<1>2. NoPipesAway /\ OnlineInTime
  BY DEF Init, NoPipesAway, OnlineInTime, ToSet
<1>3. PipedInTime
  BY InitClears DEF Cleared, PipedInTime, SlotsPiped
<1> QED
  BY <1>1, <1>2, <1>3 DEF CountedInTime, CountsSlots

-----------------------------------------------------------------------------
(* The slots and resume files as a Delivery *)

\* While a transfer has its resume file, nothing is sent from that; and
\* ft_decon frees a slot only of a file that is over.
OwnRecord ==
    \A n \in Number : ft["out"][n].resumeable => ft["out"][n].in_use /\ ~disk["out"][n].resumeable

OverFirst ==
    thread.at = "decon" /\ thread.dir = "out" => ft["out"][thread.number].file \in finished \cup {NoFile}

Placed == OwnRecord /\ OverFirst

Held == {ft["out"][n].file : n \in Number} \ {NoFile}

LEMMA HeldUnderway == TypeOK /\ Files /\ OverFirst => Underway = Held \ finished
<1> SUFFICES ASSUME TypeOK, Files, OverFirst PROVE Underway = Held \ finished
  OBVIOUS
<1>1. ASSUME NEW n \in Number, ft["out"][n].file # NoFile
      PROVE  thread = [at |-> "decon", dir |-> "out", number |-> n] <=> ft["out"][n].file \in finished
  <2>1. ft["out"][n].file \in finished => thread = [at |-> "decon", dir |-> "out", number |-> n]
    BY DEF Files, FinishedHeld, TypeOK, ThreadTypes
  <2>2. thread = [at |-> "decon", dir |-> "out", number |-> n] => ft["out"][n].file \in finished
    BY <1>1 DEF OverFirst
  <2> QED
    BY <2>1, <2>2
<1>2. ASSUME NEW f PROVE f \in Underway <=> f \in Held \ finished
  BY <1>1 DEF Underway, Held
<1> QED
  BY <1>2

LEMMA HeldFiles ==
    ASSUME TypeOK, Files PROVE Held \subseteq OutFile /\ Waiting \subseteq OutFile /\ Held \cap Waiting = {}
<1>1. Held \subseteq OutFile /\ Waiting \subseteq OutFile
  BY DEF TypeOK, HistoryTypes, Files, FilesKnown, Held, Waiting
<1>2. Held \cap Waiting = {}
  BY DEF Files, HeldOnce, Held, Waiting
<1> QED
  BY <1>1, <1>2

Promised == Promise!DNext \/ UNCHANGED <<sent, Underway, Waiting, finished>>

LEMMA BreakOffPromised ==
    ASSUME TypeOK, TypeOK', Files, Files', OverFirst, OverFirst', UNCHANGED <<sent, finished>>,
           Held' \subseteq Held, Waiting \subseteq Waiting', Waiting' \subseteq Waiting \cup (Underway \ Underway')
    PROVE  Promised
<1>1. Underway = Held \ finished /\ (Underway = Held \ finished)'
  BY HeldUnderway, PTL
<1>2. Promise!BreakOff
  BY <1>1 DEF Promise!BreakOff
<1> QED
  BY <1>2 DEF Promised, Promise!DNext

LEMMA FinishPromised ==
    ASSUME TypeOK, TypeOK', Files, Files', OverFirst, OverFirst', NEW f \in Held \ finished,
           sent' = sent, finished' = finished \cup {f}, Waiting' = Waiting,
           Held' \subseteq Held, Held \ {f} \subseteq Held'
    PROVE  Promised
<1>1. Underway = Held \ finished /\ (Underway = Held \ finished)'
  BY HeldUnderway, PTL
<1>2. Promise!Finish(f) /\ f \in OutFile
  BY <1>1, HeldFiles DEF Promise!Finish
<1> QED
  BY <1>2 DEF Promised, Promise!DNext

\* What a step does that begins no transfer and leaves alone what is sent from.
Calm ==
    /\ \A n \in Number : ft'["out"][n].resumeable => ft["out"][n].resumeable /\ ft'["out"][n].in_use
    /\ \A i \in Number : disk["out"][i].resumeable => disk'["out"][i] = disk["out"][i]
    /\ \A i \in Number :
         ft'["out"][i].resumeable /\ disk'["out"][i].resumeable => disk["out"][i].resumeable

\* toxcore_thread does not begin to wait in ft_decon.
NoDecon == UNCHANGED thread \/ thread'.at # "decon"

LEMMA CalmPlaced ==
    ASSUME TypeOK, Placed, QuietOut, Calm, finished \subseteq finished', NoDecon
    PROVE  Placed'
<1>1. OwnRecord'
  BY DEF OwnRecord, Placed, Calm
<1>2. OverFirst'
  <2>1. CASE thread'.at # "decon"
    BY <2>1 DEF OverFirst
  <2>2. CASE UNCHANGED thread /\ thread.at = "decon" /\ thread.dir = "out"
    <3>1. thread.number \in Number /\ KeptOut(ft'["out"][thread.number], ft["out"][thread.number])
      BY <2>2 DEF TypeOK, ThreadTypes, QuietOut
    <3> QED
      BY <2>2, <3>1 DEF OverFirst, Placed, KeptOut
  <2> QED
    BY <2>1, <2>2 DEF OverFirst, NoDecon
<1> QED
  BY <1>1, <1>2 DEF Placed

LEMMA QuietHeld ==
    ASSUME QuietOut, Calm PROVE Held' \subseteq Held /\ Waiting' = Waiting
<1>1. Held' \subseteq Held
  BY DEF QuietOut, KeptOut, Held
<1>2. Waiting' \subseteq Waiting
  BY DEF QuietOut, Waiting
<1>3. Waiting \subseteq Waiting'
  BY DEF Calm, Waiting
<1> QED
  BY <1>1, <1>2, <1>3

LEMMA CalmPromised ==
    ASSUME TypeOK, TypeOK', Files, Files', Placed, QuietOut, Calm, NoDecon,
           UNCHANGED <<sent, finished>>
    PROVE  Placed' /\ Promised
<1>1. Placed'
  BY CalmPlaced
<1> QED
  BY <1>1, QuietHeld, BreakOffPromised DEF Placed

\* What ends with the slot that it frees, or completes.
LEMMA EndPromised ==
    ASSUME TypeOK, TypeOK', Files, Files', Placed, Placed', QuietOut, Calm, NoneDone,
           NEW d \in Dir, NEW n \in Number,
           sent' = sent, finished' = finished \cup Ended(d, n),
           d = "out" /\ ft["out"][n].in_use =>
             \A m \in Number \ {n} : ft'["out"][m].file = ft["out"][m].file
    PROVE  Promised
<1>1. CASE Ended(d, n) = {}
  BY <1>1, QuietHeld, BreakOffPromised DEF Placed
<1>2. CASE Ended(d, n) # {}
  <2> DEFINE f == ft["out"][n].file
  <2>1. d = "out" /\ ft["out"][n].in_use /\ Ended(d, n) = {f} /\ f # NoFile
    BY <1>2 DEF Ended
  <2>2. f \in Held \ finished
    BY <2>1 DEF Held, NoneDone
  <2>3. Held \ {f} \subseteq Held'
    BY <2>1 DEF Held
  <2> HIDE DEF f
  <2> QED
    BY <2>1, <2>2, <2>3, QuietHeld, FinishPromised DEF Placed
<1> QED
  BY <1>1, <1>2

LEMMA RestCalm ==
    ASSUME NEW s \in Slot, NEW t \in Rest(s), t.resumeable
    PROVE  s.resumeable /\ t.in_use = s.in_use
BY DEF Rest, Slot, Zeroed

LEMMA SettledCalm ==
    ASSUME TypeOK, Placed, Settled,
           \A i \in Number : disk'["out"][i] = disk["out"][i] \/ ~disk["out"][i].resumeable,
           \A i \in Number : ft'["out"][i].resumeable /\ disk'["out"][i].resumeable
                               => disk["out"][i].resumeable
    PROVE  Calm
<1>1. ASSUME NEW n \in Number, ft'["out"][n].resumeable
      PROVE  ft["out"][n].resumeable /\ ft'["out"][n].in_use
  <2>1. ft["out"][n] \in Slot /\ ft'["out"][n] \in Rest(ft["out"][n])
    BY DEF TypeOK, FriendTypes, Settled, Dir
  <2>2. ft["out"][n].resumeable /\ ft'["out"][n].in_use = ft["out"][n].in_use
    BY <1>1, <2>1, RestCalm
  <2> QED
    BY <2>2 DEF Placed, OwnRecord
<1> QED
  BY <1>1 DEF Calm

\* A transfer has nothing but its own resume file to delete.
LEMMA RemovedOwn ==
    ASSUME TypeOK, Files, Placed, NEW d \in Dir, NEW n \in Number, NEW i \in Number,
           disk["out"][i].resumeable
    PROVE  Removed(disk, d, n, ft[d][n])["out"][i] = disk["out"][i]
<1>1. CASE d = "out"
  BY <1>1 DEF Removed, Name, Placed, OwnRecord, TypeOK, DiskTypes
<1>2. CASE d = "in"
  BY <1>2 DEF Removed, TypeOK, DiskTypes
<1> QED
  BY <1>1, <1>2 DEF Dir

LEMMA RemovedCalm ==
    ASSUME TypeOK, Files, Placed, Settled, NEW d \in Dir, NEW n \in Number,
           disk' \in {disk, Removed(disk, d, n, ft[d][n])}
    PROVE  Calm
<1>1. \A i \in Number : disk'["out"][i] \in {disk["out"][i], NoRecord}
  BY RemovedFiles
<1>2. \A i \in Number : disk["out"][i].resumeable => disk'["out"][i] = disk["out"][i]
  BY RemovedOwn
<1> QED
  BY <1>1, <1>2, SettledCalm DEF NoRecord

\* A step that frees slots, or changes their status, and ends nothing.
LEMMA SettledPromised ==
    ASSUME TypeOK, TypeOK', Files, Files', Placed, Settled, NoDecon,
           UNCHANGED <<disk, history>>
    PROVE  Placed' /\ Promised
<1>1. QuietOut
  BY RemovedQuiet
<1>2. Calm
  BY SettledCalm
<1> QED
  BY <1>1, <1>2, CalmPromised

LEMMA KillPromised ==
    ASSUME TypeOK, TypeOK', Files, Files', Placed, NoneDone, NoDecon,
           NEW d \in Dir, NEW n \in Number, Kill(d, n)
    PROVE  Placed' /\ Promised
<1>1. Settled /\ QuietOut
  BY KillSettled, KillQuiet DEF TypeOK
<1>2. Calm
  BY <1>1, RemovedCalm DEF Kill
<1>3. ASSUME d = "out", ft["out"][n].in_use, NEW m \in Number \ {n}
      PROVE  ft'["out"][m] = ft["out"][m]
  <2>1. Named(d, n).dir = "out" /\ Named(d, n).number = n
    BY <1>3 DEF Named
  <2>2. ft' = [ft EXCEPT !["out"][n].status = "KILLED", !["out"][n] = Zeroed]
    BY <1>3, <2>1 DEF Kill
  <2> QED
    BY <2>2 DEF TypeOK, FriendTypes, Dir
<1>4. sent' = sent /\ finished' = finished \cup Ended(d, n)
  BY DEF Kill
<1> QED
  BY <1>1, <1>2, <1>3, <1>4, CalmPlaced, EndPromised

LEMMA LocalControlPromised ==
    ASSUME TypeOK, TypeOK', Files, Files', Placed, NoneDone, NoDecon,
           NEW d \in Dir, NEW n \in Number,
           LocalResume(d, n) \/ LocalPause(d, n) \/ LocalCancel(d, n)
    PROVE  Placed' /\ Promised
<1>0. ft[d][n] \in Slot /\ ft[d][n].status \in Status /\ FriendTypes
  BY DEF TypeOK, FriendTypes, Slot
<1>1. CASE LocalResume(d, n)
  <2>1. Settled
    BY <1>0, <1>1, StatusTypes, StatusSettled DEF LocalResume
  <2> QED
    BY <1>1, <2>1, SettledPromised DEF LocalResume
<1>2. CASE LocalPause(d, n)
  <2>1. Settled
    BY <1>0, <1>2, StatusTypes, StatusSettled DEF LocalPause, Slot
  <2> QED
    BY <1>2, <2>1, SettledPromised DEF LocalPause
<1>3. CASE LocalCancel(d, n)
  BY <1>3, KillPromised, SameSettled, SettledPromised DEF LocalCancel
<1> QED
  BY <1>1, <1>2, <1>3

LEMMA RemoteControlPromised ==
    ASSUME TypeOK, TypeOK', Files, Files', Placed, NEW d \in Dir, NEW n \in Number,
           RemoteControl(d, n)
    PROVE  Placed' /\ Promised
<1>0. /\ ft[d][n] \in Slot /\ ft[d][n].status \in Status /\ FriendTypes
      /\ NoneDone /\ NoDecon
  BY FreeNoneDone DEF TypeOK, FriendTypes, Slot, RemoteControl, Free, NoDecon
<1>1. CASE RemoteResume(d, n)
  <2>1. Settled
    BY <1>0, <1>1, StatusTypes, StatusSettled DEF RemoteResume
  <2> QED
    BY <1>0, <1>1, <2>1, SettledPromised DEF RemoteResume
<1>2. CASE RemotePause(d, n)
  <2>1. Settled
    BY <1>0, <1>2, StatusTypes, StatusSettled DEF RemotePause
  <2> QED
    BY <1>0, <1>2, <2>1, SettledPromised DEF RemotePause
<1>3. CASE RemoteCancel(d, n)
  BY <1>0, <1>3, KillPromised, SameSettled, SettledPromised DEF RemoteCancel
<1> QED
  BY <1>1, <1>2, <1>3 DEF RemoteControl

LEMMA AcceptPromised ==
    ASSUME TypeOK, TypeOK', Files, Files', Placed, NoneDone, NoDecon,
           NEW d \in Dir, NEW n \in Number,
           StartWrite(d, n) \/ FailToWriteFile(d, n),
           accepted' = IF d = "in" THEN accepted \cup ({ft[d][n].file} \ {NoFile}) ELSE accepted,
           UNCHANGED <<sent, finished>>
    PROVE  Placed' /\ Promised
<1>0. /\ FriendTypes /\ ft[d][n] \in Slot /\ disk \in Disk
      /\ "BROKEN" \in Status /\ "KILLED" \in Status
  BY DEF TypeOK, FriendTypes, DiskTypes, Disk, Status
<1>1. QuietOut
  BY AcceptQuiet
<1>2. Calm
  <2>1. CASE StartWrite(d, n)
    <3> DEFINE t == [Opened(ft[d][n], d) EXCEPT !.status = RunLocal(ft[d][n].status)]
    <3>1. ft' = [ft EXCEPT ![d][n] = t] /\ disk' = disk
      BY <2>1 DEF StartWrite
    <3>2. t.in_use = ft[d][n].in_use /\ t.resumeable = ft[d][n].resumeable
      BY <1>0 DEF Opened, Slot
    <3> HIDE DEF t
    <3> QED
      BY <1>0, <3>1, <3>2 DEF Calm, Placed, OwnRecord, FriendTypes, Dir
  <2>2. CASE FailToWriteFile(d, n) /\ ft[d][n].status # "KILLED"
    <3> DEFINE t == [(IF ft[d][n].in_use THEN Zeroed ELSE ft[d][n]) EXCEPT !.status = "KILLED"]
    <3>1. ft' = [ft EXCEPT ![d][n] = t, !["out"][0] = Zeroed]
      BY <2>2 DEF FailToWriteFile
    <3>2. t \in Rest(ft[d][n]) /\ (d = "out" => ~t.resumeable)
      <4>1. t \in Rest(ft[d][n])
        BY <1>0 DEF Rest
      <4>2. CASE ft[d][n].in_use
        BY <4>1, <4>2 DEF Zeroed
      <4>3. CASE ~ft[d][n].in_use
        <5>1. t.resumeable = ft[d][n].resumeable
          BY <1>0, <4>3 DEF Slot
        <5> QED
          BY <4>1, <4>3, <5>1 DEF Placed, OwnRecord
      <4> QED
        BY <4>2, <4>3
    <3>3. 0 \in Number /\ "out" \in Dir
      BY DEF Number, Dir
    <3> HIDE DEF t
    <3>4. ASSUME NEW e \in Dir, NEW m \in Number
          PROVE  ft'[e][m] = IF e = "out" /\ m = 0 THEN Zeroed
                             ELSE IF e = d /\ m = n THEN t ELSE ft[e][m]
      BY <1>0, <3>1, <3>3 DEF FriendTypes
    <3>5. Settled /\ (d = "out" => ~ft'["out"][n].resumeable)
      <4>1. Settled
        BY <3>2, <3>4 DEF Settled, Rest
      <4>2. d = "out" => ft'["out"][n] \in {Zeroed, t}
        BY <3>4
      <4> QED
        BY <3>2, <4>1, <4>2 DEF Zeroed
    <3> DEFINE u == [Opened(ft[d][n], d) EXCEPT !.status = "BROKEN"]
    <3>6. CASE disk' \in {disk, Removed(disk, d, n, ft[d][n])}
      BY <3>5, <3>6, RemovedCalm
    <3>7. CASE ft[d][n].resumeable /\ disk' = Updated(disk, d, n, u)
      <4> HIDE DEF u
      <4>1. \A i \in Number : disk'["out"][i] = disk["out"][i] \/ (d = "out" /\ i = n)
        BY <1>0, <3>7 DEF Updated, Name, Disk, Dir
      <4>2. d = "out" => ~disk["out"][n].resumeable
        BY <3>7 DEF Placed, OwnRecord
      <4> QED
        BY <3>5, <4>1, <4>2, SettledCalm
    <3> QED
      BY <2>2, <3>6, <3>7 DEF FailToWriteFile
  <2>3. CASE UNCHANGED <<ft, disk>>
    BY <2>3, SameSettled, SettledCalm
  <2> QED
    BY <2>1, <2>2, <2>3 DEF FailToWriteFile
<1> QED
  BY <1>1, <1>2, CalmPromised

LEMMA CompleteInactivePromised ==
    ASSUME TypeOK, TypeOK', Files, Files', Placed, NEW d \in Dir, NEW n \in Number,
           CompleteInactive(d, n)
    PROVE  Placed' /\ Promised
<1>0. NoneDone /\ NoDecon
  BY FreeNoneDone DEF CompleteInactive, Free, NoDecon
<1> DEFINE p == Named(d, n)
<1>1. p \in Place /\ (d = "out" /\ ft[d][n].in_use => p.dir = "out" /\ p.number = n)
  BY NamedType DEF Named
<1>2. ft' = [ft EXCEPT ![p.dir][p.number] = Zeroed]
  BY DEF CompleteInactive, Decon
<1> HIDE DEF p
<1>3. Settled
  BY <1>1, <1>2 DEF Settled, Rest, TypeOK, FriendTypes, Place
<1>4. QuietOut
  BY <1>0, CompleteInactiveQuiet
<1>5. Calm
  BY <1>3, RemovedCalm DEF CompleteInactive
<1>6. ASSUME d = "out", ft["out"][n].in_use, NEW m \in Number \ {n}
      PROVE  ft'["out"][m] = ft["out"][m]
  BY <1>1, <1>2, <1>6 DEF TypeOK, FriendTypes, Dir
<1>7. sent' = sent /\ finished' = finished \cup Ended(d, n)
  BY DEF CompleteInactive
<1> QED
  BY <1>0, <1>4, <1>5, <1>6, <1>7, CalmPlaced, EndPromised

LEMMA CompletePromised ==
    ASSUME TypeOK, TypeOK', Files, Files', Placed, NEW d \in Dir, NEW n \in Number,
           Complete(d, n)
    PROVE  Placed' /\ Promised
<1>0. /\ FriendTypes /\ ft[d][n] \in Slot /\ sent' = sent /\ finished' = finished \cup Ended(d, n)
      /\ NoneDone
  BY FreeNoneDone DEF TypeOK, FriendTypes, Complete, Free
<1> DEFINE t == [ft[d][n] EXCEPT !.status = "COMPLETED", !.decon_wait = TRUE]
<1>1. ft' = [ft EXCEPT ![d][n] = t]
  BY <1>0 DEF Complete, FriendTypes
<1>2. t.file = ft[d][n].file /\ t.in_use = ft[d][n].in_use /\ t.resumeable = ft[d][n].resumeable
  BY <1>0 DEF Slot
<1> HIDE DEF t
<1>3. \A m \in Number : /\ ft'["out"][m].file = ft["out"][m].file
                        /\ ft'["out"][m].in_use = ft["out"][m].in_use
                        /\ ft'["out"][m].resumeable = ft["out"][m].resumeable
  BY <1>0, <1>1, <1>2 DEF FriendTypes, Dir
<1>4. /\ \A i \in Number : disk'["out"][i] \in {disk["out"][i], NoRecord}
      /\ \A i \in Number : disk["out"][i].resumeable => disk'["out"][i] = disk["out"][i]
  BY RemovedFiles, RemovedOwn DEF Complete
<1>5. NoRecord.file = NoFile /\ ~NoRecord.resumeable
  BY DEF NoRecord
<1>6. QuietOut /\ Calm
  BY <1>3, <1>4, <1>5 DEF QuietOut, Calm, KeptOut, Placed, OwnRecord
<1>7. OwnRecord'
  BY <1>3, <1>4, <1>5 DEF Placed, OwnRecord
<1>8. OverFirst'
  <2>1. thread' = [at |-> "decon", dir |-> d, number |-> n] /\ ft[d][n].in_use
    BY DEF Complete
  <2>2. CASE d = "out"
    <3>1. ft["out"][n].file \in Ended(d, n) \cup {NoFile}
      BY <2>1, <2>2 DEF Ended
    <3> QED
      BY <1>0, <1>3, <2>1, <2>2, <3>1 DEF OverFirst
  <2> QED
    BY <2>1, <2>2 DEF OverFirst
<1> QED
  BY <1>0, <1>3, <1>6, <1>7, <1>8, EndPromised DEF Placed

\* A step that only concerns what the friend sends.
LEMMA SameOutPromised ==
    ASSUME TypeOK, TypeOK', Files, Files', Placed, NoDecon, UNCHANGED <<sent, finished>>,
           ft'["out"] = ft["out"], disk'["out"] = disk["out"]
    PROVE  Placed' /\ Promised
<1>1. QuietOut /\ Calm
  BY DEF QuietOut, Calm, KeptOut, Placed, OwnRecord
<1> QED
  BY <1>1, CalmPromised

LEMMA OfferSame ==
    ASSUME TypeOK, NEW n \in Number, NEW f \in InFile, IncomingFile(n, f)
    PROVE  ft'["out"] = ft["out"] /\ disk'["out"] = disk["out"]
<1>1. ASSUME NEW s, NEW b, Arrive(n, s, b) PROVE ft'["out"] = ft["out"]
  BY <1>1 DEF Arrive, TypeOK, FriendTypes, Dir
<1>2. ASSUME NEW s PROVE Created(disk, "in", n, s)["out"] = disk["out"]
  BY DEF Created, TypeOK, DiskTypes
<1>3. CASE /\ disk' = [disk EXCEPT !["in"][f] = NoRecord]
           /\ ft' = [ft EXCEPT !["in"][n] = Zeroed]
  BY <1>3 DEF TypeOK, DiskTypes, FriendTypes, Dir
<1> QED
  BY <1>1, <1>2, <1>3 DEF IncomingFile

LEMMA IncomingPromised ==
    ASSUME TypeOK, TypeOK', Files, Files', Placed, NEW n \in Number,
           IncomingRequest(n) \/ RefuseAvatar(n) \/ Chunk(n) \/ ReadFails(n)
    PROVE  Placed' /\ Promised
<1>0. NoneDone /\ NoDecon
  BY FreeNoneDone DEF IncomingRequest, RefuseAvatar, Chunk, ReadFails, Free, NoDecon
<1>1. CASE IncomingRequest(n)
  <2>1. ASSUME NEW s, NEW b, Arrive(n, s, b) PROVE ft'["out"] = ft["out"]
    BY <2>1 DEF Arrive, TypeOK, FriendTypes, Dir
  <2>2. ft'["out"] = ft["out"] /\ disk'["out"] = disk["out"]
    BY <1>1, <2>1, OfferSame DEF IncomingRequest
  <2> QED
    BY <1>0, <1>1, <2>2, SameOutPromised DEF IncomingRequest
<1>2. CASE RefuseAvatar(n)
  BY <1>0, <1>2, KillPromised, SameSettled, SettledPromised DEF RefuseAvatar, Dir
<1>3. CASE Chunk(n)
  <2>1. CASE LocalCancel("in", n)
    BY <1>0, <2>1, LocalControlPromised DEF Dir
  <2>2. CASE disk' = Updated(disk, "in", n, ft["in"][n]) /\ UNCHANGED <<friendVars, history>>
    <3>1. disk'["out"] = disk["out"]
      BY <2>2 DEF Updated, TypeOK, DiskTypes
    <3> QED
      BY <1>0, <2>2, <3>1, SameOutPromised
  <2> QED
    BY <1>3, <2>1, <2>2 DEF Chunk
<1>4. CASE ReadFails(n)
  BY <1>0, <1>4, LocalControlPromised DEF ReadFails, Dir
<1> QED
  BY <1>1, <1>2, <1>3, <1>4

\* The friend is lost: a file waits with what its slot had a resume file for.
LEMMA BreakAllPromised ==
    ASSUME TypeOK, TypeOK', Files, Files', Placed, NoneDone, BreakAll, thread'.at # "decon"
    PROVE  Placed' /\ Promised
<1>0. FriendTypes /\ disk \in Disk
  BY DEF TypeOK, DiskTypes, Disk
<1>1. ASSUME NEW n \in Number PROVE ft'["out"][n].file = NoFile /\ ~ft'["out"][n].resumeable
  <2>1. ft'["out"][n] = Left("out", n) /\ ft["out"][n] \in Slot
    BY <1>0 DEF BreakAll, FriendTypes, Dir
  <2>2. CASE ft["out"][n].in_use
    BY <2>1, <2>2 DEF Left, Zeroed
  <2>3. CASE ~ft["out"][n].in_use
    <3>1. ft["out"][n].file = NoFile /\ ~ft["out"][n].resumeable
      BY <2>3 DEF Files, HeldOnce, Placed, OwnRecord
    <3> QED
      BY <2>1, <3>1 DEF Left, Zeroed, Slot
  <2> QED
    BY <2>2, <2>3
<1>2. ASSUME NEW n \in Number
      PROVE  /\ disk["out"][n].resumeable => disk'["out"][n] = disk["out"][n]
             /\ \/ disk'["out"][n] \in {disk["out"][n], NoRecord}
                \/ disk'["out"][n].file = ft["out"][n].file
  <2> DEFINE u == [ft["out"][n] EXCEPT !.status = "BROKEN"]
  <2>1. disk'["out"][n] = AfterBreak("out", n, disk)["out"][n]
    BY DEF BreakAll
  <2>2. CASE ft["out"][n].resumeable /\ AfterBreak("out", n, disk) = Updated(disk, "out", n, u)
    <3>1. u.file = ft["out"][n].file
      BY <1>0 DEF FriendTypes, Slot, Dir
    <3> HIDE DEF u
    <3> QED
      BY <1>0, <2>1, <2>2, <3>1 DEF Updated, Written, Name, Disk, Placed, OwnRecord
  <2>3. CASE AfterBreak("out", n, disk) \in {disk, Removed(disk, "out", n, ft["out"][n])}
    BY <2>1, <2>3, RemovedFiles, RemovedOwn DEF Dir
  <2> QED
    BY <2>2, <2>3 DEF AfterBreak
<1>3. NoRecord.file = NoFile /\ ~NoRecord.resumeable
  BY DEF NoRecord
<1>4. Placed'
  BY <1>1 DEF Placed, OwnRecord, OverFirst
<1>5. Held' = {} /\ Underway = Held
  BY <1>1, HeldUnderway DEF Held, NoneDone, Placed
<1>6. Underway' = {}
  BY <1>1 DEF Underway
<1>7. Waiting \subseteq Waiting'
  BY <1>2 DEF Waiting
<1>8. Waiting' \subseteq Waiting \cup Held
  BY <1>2, <1>3 DEF Waiting, Held
<1> QED
  BY <1>4, <1>5, <1>6, <1>7, <1>8, BreakOffPromised DEF Placed, BreakAll

LEMMA SamePromised ==
    ASSUME TypeOK, TypeOK', Files, Files', Placed, NoDecon, UNCHANGED <<ft, disk, history>>
    PROVE  Placed' /\ Promised
BY SameOutPromised

LEMMA ConnectionPromised ==
    ASSUME TypeOK, TypeOK', Files, Files', Placed, Connect \/ Disconnect \/ OtherOffline
    PROVE  Placed' /\ Promised
<1>1. CASE Connect
  <2>1. UNCHANGED thread \/ thread' = [at |-> "online", dir |-> "out", number |-> 0]
    BY <1>1 DEF Connect
  <2>2. NoDecon
    BY <2>1 DEF NoDecon
  <2> QED
    BY <1>1, <2>2, SamePromised DEF Connect
<1>2. CASE Disconnect
  <2>1. NoneDone /\ UNCHANGED thread /\ thread.at # "decon"
    BY <1>2, FreeNoneDone DEF Disconnect, MayFlip, Free
  <2> QED
    BY <1>2, <2>1, BreakAllPromised, SamePromised DEF Disconnect, NoDecon
<1>3. CASE OtherOffline
  <2>1. Settled
    BY <1>3, ZeroedType DEF OtherOffline, Decon, Settled, Rest, TypeOK, FriendTypes, Place
  <2> QED
    BY <1>3, <2>1, SettledPromised DEF OtherOffline, NoDecon
<1> QED
  BY <1>1, <1>2, <1>3

LEMMA CallbackPromised ==
    ASSUME TypeOK, TypeOK', Files, Files', Placed, Callback PROVE Placed' /\ Promised
BY CompletePromised, CompleteInactivePromised, RemoteControlPromised, IncomingPromised,
   ConnectionPromised DEF Callback

LEMMA RequestPromised ==
    ASSUME TypeOK, TypeOK', Files, Files', Placed, Control \/ Accept PROVE Placed' /\ Promised
<1>0. NoneDone /\ NoDecon /\ Target \in Place /\ request.dir \in Dir /\ request.number \in Number
  BY FreeNoneDone, NamedType DEF Control, Accept, Free, NoDecon, Target, TypeOK, UITypes, Request
<1>1. CASE Control
  <2>1. CASE UNCHANGED <<friendVars, disk, core, history>>
    BY <1>0, <2>1, SamePromised
  <2>2. CASE \/ LocalResume(Target.dir, Target.number)
             \/ LocalPause(Target.dir, Target.number)
             \/ LocalCancel(Target.dir, Target.number)
    BY <1>0, <2>2, LocalControlPromised DEF Place
  <2> QED
    BY <1>1, <2>1, <2>2 DEF Control
<1>2. CASE Accept
  <2>1. PICK p \in {Target, [dir |-> request.dir, number |-> request.number]} :
          \/ /\ StartWrite(p.dir, p.number) \/ FailToWriteFile(p.dir, p.number)
             /\ accepted' = IF p.dir = "in" THEN accepted \cup ({ft[p.dir][p.number].file} \ {NoFile})
                            ELSE accepted
          \/ UNCHANGED <<friendVars, disk, core, accepted>>
    BY <1>2 DEF Accept
  <2>2. p.dir \in Dir /\ p.number \in Number /\ UNCHANGED <<sent, finished, interrupted>>
    BY <1>0, <1>2 DEF Accept, Place
  <2> QED
    BY <1>0, <2>1, <2>2, AcceptPromised, SamePromised
<1> QED
  BY <1>1, <1>2

LEMMA UserPromised ==
    ASSUME TypeOK, TypeOK', Files, Files', Placed, Handle \/ Click \/ SettingsChanged \/ Crash
    PROVE  Placed' /\ Promised
<1>1. CASE Handle
  <2>1. NoDecon /\ UNCHANGED <<disk, history>>
    BY <1>1 DEF Handle, NoDecon
  <2>2. CASE UNCHANGED ft
    BY <2>1, <2>2, SamePromised
  <2>3. CASE ft' = [ft EXCEPT ![Head(uiq).dir][Head(uiq).number].decon_wait = FALSE]
    <3>1. ASSUME NEW n \in Number
          PROVE  /\ ft'["out"][n].in_use = ft["out"][n].in_use
                 /\ ft'["out"][n].file = ft["out"][n].file
                 /\ ft'["out"][n].resumeable = ft["out"][n].resumeable
      <4>1. ft["out"][n] \in Slot
        BY DEF TypeOK, FriendTypes, Dir
      <4>2. ft'["out"][n] \in {ft["out"][n], [ft["out"][n] EXCEPT !.decon_wait = FALSE]}
        BY <2>3 DEF TypeOK, FriendTypes, Dir
      <4> QED
        BY <4>1, <4>2 DEF Slot
    <3>2. QuietOut /\ Calm
      BY <2>1, <3>1 DEF QuietOut, Calm, KeptOut, Placed, OwnRecord
    <3> QED
      BY <2>1, <3>2, CalmPromised
  <2> QED
    BY <1>1, <2>2, <2>3 DEF Handle
<1>2. CASE Click
  BY <1>2, SamePromised DEF Click, NoDecon
<1>3. CASE SettingsChanged
  <2>1. Settled
    BY <1>3 DEF SettingsChanged, Settled, Rest
  <2> QED
    BY <1>3, <2>1, SettledPromised DEF SettingsChanged, NoDecon
<1>4. CASE Crash
  <2>1. Settled
    BY <1>4 DEF Crash, NewInstance, Settled, Rest
  <2> QED
    BY <1>4, <2>1, SettledPromised DEF Crash, NewInstance, Idle, NoDecon
<1> QED
  BY <1>1, <1>2, <1>3, <1>4

-----------------------------------------------------------------------------
(* Steps that begin a transfer *)

\* The transfer of f begins under the number k.
Begins(k, f) ==
    /\ ft'["out"][k].file = f
    /\ \A n \in Number \ {k} : ft'["out"][n].file = ft["out"][n].file
    /\ \A i \in Number : disk'["out"][i].resumeable =>
         /\ disk'["out"][i] = disk["out"][i]
         /\ f # NoFile => disk["out"][i].file # f
    /\ \A i \in Number \ {k} :
         disk["out"][i].resumeable /\ disk["out"][i].file # f => disk'["out"][i] = disk["out"][i]

LEMMA BeginHeld ==
    ASSUME TypeOK, Files, NEW k \in Number, NEW f, Begins(k, f)
    PROVE  \E g \in Held \cup {f} : Held' = (Held \ {g}) \cup ({f} \ {NoFile})
<1> DEFINE e == ft["out"][k].file
           g == IF e = NoFile THEN f ELSE e
<1>1. \A n \in Number \ {k} : ft["out"][n].file # NoFile => ft["out"][n].file # e
  BY DEF Files, HeldOnce
<1>2. e # NoFile => e \in Held
  BY DEF Held
<1>3. Held' = (Held \ {e}) \cup ({f} \ {NoFile})
  BY <1>1 DEF Begins, Held
<1>4. NoFile \notin Held
  BY DEF Held
<1>5. CASE e # NoFile
  BY <1>2, <1>3, <1>5
<1>6. CASE e = NoFile /\ f # NoFile
  <2>1. (Held \ {f}) \cup {f} = (Held \ {e}) \cup {f}
    BY <1>4, <1>6
  <2> QED
    BY <1>3, <1>6, <2>1
<1>7. CASE e = NoFile /\ f = NoFile
  BY <1>3, <1>7
<1> QED
  BY <1>5, <1>6, <1>7

LEMMA BeginWaiting ==
    ASSUME TypeOK, Files, NEW k \in Number, NEW f, Begins(k, f)
    PROVE  \E h \in Waiting \cup {f} : Waiting' = Waiting \ {f, h}
<1>1. CASE disk["out"][k].resumeable /\ disk'["out"][k] # disk["out"][k] /\ disk["out"][k].file # NoFile
  <2> DEFINE h == disk["out"][k].file
  <2>1. h \in Waiting
    BY <1>1 DEF Waiting
  <2>2. \A i \in Number \ {k} : disk["out"][i].resumeable => disk["out"][i].file # h
    BY <1>1 DEF Files, HeldOnce
  <2>3. ~disk'["out"][k].resumeable
    BY <1>1 DEF Begins
  <2>4. Waiting' \subseteq Waiting \ {f, h}
    BY <2>2, <2>3 DEF Begins, Waiting
  <2>5. Waiting \ {f, h} \subseteq Waiting'
    BY DEF Begins, Waiting
  <2> HIDE DEF h
  <2> QED
    BY <2>1, <2>4, <2>5
<1>2. CASE ~(disk["out"][k].resumeable /\ disk'["out"][k] # disk["out"][k] /\ disk["out"][k].file # NoFile)
  <2>1. Waiting' \subseteq Waiting \ {f}
    BY DEF Begins, Waiting
  <2>2. Waiting \ {f} \subseteq Waiting'
    BY <1>2 DEF Begins, Waiting
  <2> QED
    BY <2>1, <2>2
<1> QED
  BY <1>1, <1>2

LEMMA BeginPromised ==
    ASSUME TypeOK, TypeOK', Files, Files', Placed, Placed', thread.at # "decon", thread'.at # "decon",
           NEW k \in Number, NEW f, Begins(k, f), finished' = finished,
           \/ f \in OutFile \ sent /\ sent' = sent \cup {f}
           \/ f \in Waiting \cup {NoFile} /\ sent' = sent
    PROVE  Promised
<1>1. Underway = Held /\ Underway' = Held'
  <2>1. ASSUME thread.at # "decon" PROVE Underway = Held
    BY <2>1 DEF Underway, Held
  <2>2. thread'.at # "decon" => Underway' = Held'
    BY DEF Underway, Held
  <2> QED
    BY <2>1, <2>2
<1>2. PICK g \in Held \cup {f} : Held' = (Held \ {g}) \cup ({f} \ {NoFile})
  BY BeginHeld
<1>3. PICK h \in Waiting \cup {f} : Waiting' = Waiting \ {f, h}
  BY BeginWaiting
<1>4. Held \subseteq OutFile /\ Waiting \subseteq OutFile /\ Held \cap Waiting = {} /\ Waiting \subseteq sent
  BY HeldFiles DEF Waiting, Files, FilesKnown
<1>5. CASE f \in OutFile \ sent /\ sent' = sent \cup {f}
  <2>1. Promise!Send(f, g, h)
    BY <1>1, <1>2, <1>3, <1>4, <1>5 DEF Promise!Send
  <2> QED
    BY <1>2, <1>3, <1>4, <1>5, <2>1 DEF Promised, Promise!DNext
<1>6. CASE f \in Waiting /\ sent' = sent
  <2>1. Promise!Resume(f, g, h)
    BY <1>1, <1>2, <1>3, <1>4, <1>6 DEF Promise!Resume
  <2> QED
    BY <1>2, <1>3, <1>4, <1>6, <2>1 DEF Promised, Promise!DNext
<1>7. CASE f = NoFile /\ sent' = sent
  <2>0. NoFile \notin Held \cup Waiting
    BY <1>4
  <2>1. CASE g = f /\ h = f
    <3>1. Waiting' = Waiting /\ Held' = Held
      BY <1>2, <1>3, <1>7, <2>0, <2>1
    <3> QED
      BY <1>1, <1>7, <3>1 DEF Promised
  <2>2. CASE g \in Held \/ h \in Waiting
    <3>1. PICK x \in OutFile, y \in OutFile : Held' = Held \ {x} /\ Waiting' = Waiting \ {y}
      <4>1. CASE g \in Held /\ h \in Waiting
        BY <1>2, <1>3, <1>4, <1>7, <2>0, <4>1
      <4>2. CASE g \in Held /\ h = f
        <5>1. Waiting' = Waiting \ {g} /\ Held' = Held \ {g}
          BY <1>2, <1>3, <1>4, <1>7, <2>0, <4>2
        <5> QED
          BY <1>4, <4>2, <5>1
      <4>3. CASE g = f /\ h \in Waiting
        <5>1. Waiting' = Waiting \ {h} /\ Held' = Held \ {h}
          BY <1>2, <1>3, <1>4, <1>7, <2>0, <4>3
        <5> QED
          BY <1>4, <4>3, <5>1
      <4> QED
        BY <2>2, <4>1, <4>2, <4>3
    <3>2. Promise!GiveWay(x, y)
      BY <1>1, <1>7, <3>1 DEF Promise!GiveWay
    <3> QED
      BY <3>2 DEF Promised, Promise!DNext
  <2> QED
    BY <2>1, <2>2
<1> QED
  BY <1>5, <1>6, <1>7

\* Of what a slot is given, only a file has a resume file; it does not count
\* before the transfer is broken off.
LEMMA SentOwn ==
    ASSUME TypeOK, NEW f \in OutFile \cup {NoFile}, NEW kind \in {"file", "avatar", "memory"},
           NextNumber \in Number
    PROVE  /\ Sent(f, kind)["out"][NextNumber].resumeable => kind = "file"
           /\ kind = "file" => ~DiskAfter(f, kind)["out"][NextNumber].resumeable
           /\ \A i \in Number \ {NextNumber} : DiskAfter(f, kind)["out"][i] = disk["out"][i]
<1> DEFINE s == NewSlot(f, kind)
           t == [(IF kind = "file" THEN InitResumable(s) ELSE s) EXCEPT !.status = "PAUSED_THEM"]
<1>1. t.resumeable => kind = "file"
  BY DEF NewSlot, InitResumable, Zeroed
<1>2. Sent(f, kind) = [ft EXCEPT !["out"][NextNumber] = t]
  BY DEF Sent
<1>3. ~Written(s).resumeable
  BY DEF Written, NewSlot, Zeroed
<1>4. DiskAfter(f, kind) = IF kind = "file" THEN [disk EXCEPT !["out"][NextNumber] = Written(s)] ELSE disk
  BY DEF DiskAfter, Created, Name
<1> HIDE DEF s, t
<1> QED
  BY <1>1, <1>2, <1>3, <1>4 DEF TypeOK, FriendTypes, DiskTypes, Dir

LEMMA SendNewPromised ==
    ASSUME TypeOK, TypeOK', Files, Files', Placed,
           NEW f \in OutFile, NEW kind \in {"file", "memory"}, SendNew(f, kind)
    PROVE  Placed' /\ Promised
<1> DEFINE k == NextNumber
<1>1. /\ k \in Number /\ UNCHANGED <<thread, finished>> /\ thread.at # "decon"
      /\ ft' = Sent(f, kind) /\ disk' = DiskAfter(f, kind)
      /\ f \notin sent /\ sent' = sent \cup {f} /\ f # NoFile
  BY TakeNumberTypes DEF SendNew, Free, TypeOK
<1>2. /\ ft'["out"][k].file = f /\ ft'["out"][k].in_use
      /\ ft'["out"][k].resumeable => kind = "file"
      /\ \A n \in Number \ {k} : ft'["out"][n] = ft["out"][n]
  BY <1>1, SentSlot, SentOwn DEF TypeOK
<1>3. /\ kind = "file" => ~disk'["out"][k].resumeable
      /\ \A i \in Number \ {k} : disk'["out"][i] = disk["out"][i]
      /\ \A i \in Number : disk'["out"][i].resumeable => disk'["out"][i] = disk["out"][i]
  BY <1>1, SentOwn, SentDisk
<1>4. \A n \in Number : disk["out"][n].file # f
  BY <1>1 DEF Files, FilesKnown
<1> HIDE DEF k
<1>5. Placed'
  BY <1>1, <1>2, <1>3 DEF Placed, OwnRecord, OverFirst
<1>6. Begins(k, f)
  BY <1>2, <1>3, <1>4 DEF Begins
<1> QED
  BY <1>1, <1>5, <1>6, BeginPromised

LEMMA UnlinkedOwn ==
    ASSUME NEW fts \in [Dir -> [Number -> Slot]], NEW i \in Number, NEW n \in Number
    PROVE  Unlinked(fts, i)["out"][n].resumeable = fts["out"][n].resumeable
<1> DEFINE r == IF fts["out"][i].resume_file = "linked" THEN "unlinked"
                ELSE fts["out"][i].resume_file
<1>1. Unlinked(fts, i) = [fts EXCEPT !["out"][i].resume_file = r]
  BY DEF Unlinked
<1> HIDE DEF r
<1>2. fts["out"][i] \in Slot
  BY DEF Dir
<1>3. [fts["out"][i] EXCEPT !.resume_file = r].resumeable = fts["out"][i].resumeable
  BY <1>2 DEF Slot
<1> QED
  BY <1>1, <1>3 DEF Dir

LEMMA SendAgainPromised ==
    ASSUME TypeOK, TypeOK', Files, Files', Placed, thread.at # "decon", thread'.at # "decon",
           NEW i \in Number, CanSendAgain(i), SendAgain(i)
    PROVE  Placed' /\ Promised
<1> DEFINE f == disk["out"][i].file
           k == NextNumber
           fts == Sent(f, "file")
<1>1. /\ disk["out"][i].resumeable /\ f \in sent \cup {NoFile} /\ f \in OutFile \cup {NoFile}
      /\ f # NoFile => f \in Waiting
  BY DEF CanSendAgain, Files, FilesKnown, TypeOK, HistoryTypes, Waiting
<1>2. /\ k \in Number /\ ft' = Unlinked(fts, i)
      /\ disk' = [DiskAfter(f, "file") EXCEPT !["out"][i] = NoRecord]
      /\ UNCHANGED <<sent, finished>>
  BY TakeNumberTypes DEF SendAgain, TypeOK
<1>3. fts \in [Dir -> [Number -> Slot]] /\ DiskAfter(f, "file") \in Disk
  BY <1>1, <1>2, SentTypes DEF TypeOK
<1>4. /\ fts["out"][k].file = f /\ fts["out"][k].in_use
      /\ \A n \in Number \ {k} : fts["out"][n] = ft["out"][n]
  BY <1>1, <1>2, SentSlot DEF TypeOK
<1>5. /\ ~DiskAfter(f, "file")["out"][k].resumeable
      /\ \A j \in Number \ {k} : DiskAfter(f, "file")["out"][j] = disk["out"][j]
  BY <1>1, <1>2, SentOwn
<1> HIDE DEF fts, k, f
<1>6. \A n \in Number : /\ ft'["out"][n].file = fts["out"][n].file
                        /\ ft'["out"][n].in_use = fts["out"][n].in_use
                        /\ ft'["out"][n].resumeable = fts["out"][n].resumeable
  BY <1>2, <1>3, UnlinkedSame, UnlinkedOwn
<1>7. ~NoRecord.resumeable
  BY DEF NoRecord
<1>8. /\ ~disk'["out"][k].resumeable /\ ~disk'["out"][i].resumeable
      /\ \A j \in Number \ {k, i} : disk'["out"][j] = disk["out"][j]
  BY <1>2, <1>3, <1>5, <1>7 DEF Disk
<1>9. Placed'
  <2>1. OwnRecord'
    BY <1>4, <1>6, <1>8 DEF Placed, OwnRecord
  <2> QED
    BY <2>1 DEF Placed, OverFirst
<1>10. \A j \in Number \ {i} : disk["out"][j].resumeable /\ f # NoFile => disk["out"][j].file # f
  BY <1>1 DEF Files, HeldOnce, f
<1>11. Begins(k, f)
  <2>1. disk["out"][i].file = f
    BY DEF f
  <2>2. /\ ft'["out"][k].file = f
        /\ \A n \in Number \ {k} : ft'["out"][n].file = ft["out"][n].file
    BY <1>2, <1>4, <1>6
  <2>3. \A j \in Number : disk'["out"][j].resumeable => j \notin {k, i}
    BY <1>8
  <2>4. \A j \in Number : disk'["out"][j].resumeable =>
          disk'["out"][j] = disk["out"][j] /\ (f # NoFile => disk["out"][j].file # f)
    BY <1>8, <1>10, <2>3
  <2>5. \A j \in Number \ {k} :
          disk["out"][j].resumeable /\ disk["out"][j].file # f => disk'["out"][j] = disk["out"][j]
    BY <1>8, <2>1
  <2> QED
    BY <2>2, <2>4, <2>5 DEF Begins
<1> QED
  BY <1>1, <1>2, <1>9, <1>11, BeginPromised

LEMMA DropRecordPromised ==
    ASSUME TypeOK, TypeOK', Files, Files', Placed, thread.at # "decon", thread'.at # "decon",
           NEW i \in Number, DropRecord(i)
    PROVE  Placed' /\ Promised
<1> DEFINE h == disk["out"][i].file
<1>1. /\ ft' = Unlinked(ft, i) /\ disk' = [disk EXCEPT !["out"][i] = NoRecord]
      /\ UNCHANGED history
  BY DEF DropRecord
<1>2. \A n \in Number : /\ ft'["out"][n].file = ft["out"][n].file
                        /\ ft'["out"][n].in_use = ft["out"][n].in_use
                        /\ ft'["out"][n].resumeable = ft["out"][n].resumeable
  BY <1>1, UnlinkedSame, UnlinkedOwn DEF TypeOK, FriendTypes
<1>3. NoRecord.file = NoFile /\ ~NoRecord.resumeable
  BY DEF NoRecord
<1>4. disk'["out"][i] = NoRecord /\ \A j \in Number \ {i} : disk'["out"][j] = disk["out"][j]
  BY <1>1 DEF TypeOK, DiskTypes
<1>5. Placed'
  BY <1>2, <1>3, <1>4 DEF Placed, OwnRecord, OverFirst
<1>6. Held' = Held
  BY <1>2 DEF Held
<1>7. Underway = Held /\ Underway' = Held'
  <2>1. thread.at # "decon" => Underway = Held
    BY DEF Underway, Held
  <2>2. thread'.at # "decon" => Underway' = Held'
    BY DEF Underway, Held
  <2> QED
    BY <2>1, <2>2
<1>8. CASE ~disk["out"][i].resumeable \/ h = NoFile
  <2>1. Waiting' = Waiting
    BY <1>3, <1>4, <1>8 DEF Waiting
  <2> QED
    BY <1>1, <1>5, <1>6, <1>7, <2>1 DEF Promised
<1>9. CASE disk["out"][i].resumeable /\ h # NoFile
  <2>1. \A j \in Number \ {i} : disk["out"][j].resumeable => disk["out"][j].file # h
    BY <1>9 DEF Files, HeldOnce
  <2>2. Waiting' = Waiting \ {h} /\ h \in Waiting
    BY <1>3, <1>4, <1>9, <2>1 DEF Waiting
  <2>3. h \in OutFile /\ h \notin Held
    BY <2>2, HeldFiles
  <2>4. Promise!GiveWay(h, h)
    BY <1>1, <1>6, <1>7, <2>2, <2>3 DEF Promise!GiveWay
  <2> QED
    BY <1>5, <2>3, <2>4 DEF Promised, Promise!DNext
<1> QED
  BY <1>8, <1>9

LEMMA ResumeNextPromised ==
    ASSUME TypeOK, TypeOK', Files, Files', Placed, ResumeNext PROVE Placed' /\ Promised
<1>1. /\ thread.number \in Number /\ thread.at # "decon"
      /\ thread' = [thread EXCEPT !.number = @ + 1]
  BY DEF ResumeNext, TypeOK, ThreadTypes, Number
<1>2. thread'.at # "decon"
  BY <1>1 DEF TypeOK, ThreadTypes
<1> QED
  BY <1>1, <1>2, SendAgainPromised, DropRecordPromised DEF ResumeNext

LEMMA GoOnPromised ==
    ASSUME TypeOK, TypeOK', Files, Files', Placed, GoOn PROVE Placed' /\ Promised
<1>1. CASE EndDecon
  <2>1. Settled
    BY <1>1 DEF EndDecon, Decon, Settled, Rest, TypeOK, FriendTypes, ThreadTypes
  <2>2. NoDecon
    BY <1>1 DEF EndDecon, Idle, NoDecon
  <2> QED
    BY <1>1, <2>1, <2>2, SettledPromised DEF EndDecon
<1>2. CASE FinishOnline
  <2>1. thread' = Idle /\ thread.at # "decon" /\ UNCHANGED <<disk, history>>
    BY <1>2 DEF FinishOnline
  <2>2. NoDecon /\ thread'.at # "decon"
    BY <2>1 DEF Idle, NoDecon
  <2>3. CASE UNCHANGED friendVars
    BY <2>1, <2>2, <2>3, SamePromised
  <2>4. CASE TakeNumber /\ ft' = Sent(NoFile, "avatar")
    <3> DEFINE k == NextNumber
    <3>1. k \in Number
      BY <2>4, TakeNumberTypes DEF TypeOK
    <3>2. /\ ft'["out"][k].file = NoFile /\ ~ft'["out"][k].resumeable
          /\ \A n \in Number \ {k} : ft'["out"][n] = ft["out"][n]
      BY <2>4, <3>1, SentSlot, SentOwn DEF TypeOK
    <3> HIDE DEF k
    <3>3. Placed'
      BY <2>1, <2>2, <3>2 DEF Placed, OwnRecord, OverFirst
    <3>4. Begins(k, NoFile)
      BY <2>1, <3>2 DEF Begins
    <3> QED
      BY <2>1, <2>2, <3>1, <3>3, <3>4, BeginPromised
  <2> QED
    BY <1>2, <2>3, <2>4 DEF FinishOnline
<1>3. CASE Restart
  <2>1. Settled
    BY <1>3 DEF Restart, NewInstance, Settled, Rest
  <2> QED
    BY <1>3, <2>1, SettledPromised DEF Restart, NewInstance, Idle, NoDecon
<1> QED
  BY <1>1, <1>2, <1>3, ResumeNextPromised DEF GoOn

LEMMA NextPromised ==
    ASSUME TypeOK, TypeOK', Files, Files', Placed, [Next]_vars PROVE Placed' /\ Promised
<1>1. CASE Next
  BY <1>1, CallbackPromised, RequestPromised, SendNewPromised, GoOnPromised, UserPromised
     DEF Next, Command
<1>2. CASE UNCHANGED vars
  BY <1>2, SamePromised DEF vars, NoDecon
<1> QED
  BY <1>1, <1>2

-----------------------------------------------------------------------------
(* The theorems *)

Inv ==
    /\ TypeOK /\ Files /\ Waits /\ NeverUndercounts
    /\ NoPipesAway /\ OnlineInTime /\ PipedInTime /\ CountedInTime

\* The inductive invariant: the types, where files are, the one message that
\* ft_decon waits for, the counters, and that slots, toxcore's pipes and
\* f->online agree as far as the UI keeps up.
THEOREM Invariant == Spec => []Inv
<1>1. Init => Inv
  BY TypesInit, FilesInit, WaitsInit, CountedInit, ExactInit DEF Inv
<1>2. Inv /\ [Next]_vars => Inv'
  <2> SUFFICES ASSUME Inv, [Next]_vars PROVE Inv'
    OBVIOUS
  <2>1. TypeOK' /\ Files' /\ Waits' /\ NeverUndercounts'
    BY TypesStep, FilesStep, WaitsStep, CountedStep DEF Inv, Files
  <2>2. NoPipesAway' /\ OnlineInTime' /\ PipedInTime' /\ CountedInTime'
    BY PipesAwayStep, OnlineStep, PipedStep, ExactStep DEF Inv, Files
  <2> QED
    BY <2>1, <2>2 DEF Inv
<1> QED
  BY <1>1, <1>2, PTL DEF Spec

\* The file transfers keep their types: numbers stay within the arrays, and
\* every slot, resume file, pipe and message is one of the kinds listed.
THEOREM TypeCorrect == Spec => []TypeOK
<1>1. Inv => TypeOK
  BY DEF Inv
<1> QED
  BY <1>1, Invariant, PTL

\* A file that was completed or cancelled is never sent again, whatever is
\* lost, resumed, reconfigured or restarted after that.
THEOREM FinishedStaysOver == Spec => []FinishedForGood
<1>1. Inv => FinishedForGood
  BY DEF Inv, Files, FinishedHeld, FinishedForGood
<1> QED
  BY <1>1, Invariant, PTL

\* Nothing is opened to write an offer to that was not accepted, whatever an
\* .ftinfo has kept over a crash or the loss of the friend.
THEOREM AcceptedBeforeOpened == Spec => []OpenedOnlyIfAccepted
<1>1. Inv => OpenedOnlyIfAccepted
  BY DEF Inv, Files, AcceptedFirst, OpenedOnlyIfAccepted
<1> QED
  BY <1>1, Invariant, PTL

\* What FILE_STATUS_UPDATE_DATA points to is there when the UI looks at it.
THEOREM UIFindsData == Spec => []DataKeptForUI
<1>1. Inv => DataKeptForUI
  BY DEF Inv, Waits, Update, DataKeptForUI
<1> QED
  BY <1>1, Invariant, PTL

\* The counters that limit transfers never fall below the slots in use, even
\* when the UI lags behind the friend's connection.
THEOREM CountersCover == Spec => []NeverUndercounts
<1>1. Inv => NeverUndercounts
  BY DEF Inv
<1> QED
  BY <1>1, Invariant, PTL

\* As long as the UI handles FRIEND_ONLINE before the connection changes again,
\* the counters are the numbers of slots in use, through any number of offers,
\* cancellations, losses of the friend, resumptions and restarts.
THEOREM CountersExact == ASSUME UIPrompt PROVE Spec => []CountsSlots
<1>1. Inv => CountsSlots
  BY DEF Inv, CountedInTime
<1> QED
  BY <1>1, Invariant, PTL

\* Under the same condition nothing is in use while the friend is away.
THEOREM NothingKeptOffline == Spec => []BrokenWhenOffline
<1>1. ASSUME Inv, UIPrompt, ui = "loop", ~connected, NEW d \in Dir PROVE InUse(d) = 0
  <2>1. UsedSlots(d) = {}
    BY <1>1 DEF Inv, NoPipesAway, PipedInTime, SlotsPiped, AllFree, NoPipe, UsedSlots
  <2>2. Cardinality({}) = 0
    BY FS_EmptySet
  <2> QED
    BY <2>1, <2>2, UsedFinite
<1>2. Inv => BrokenWhenOffline
  BY <1>1 DEF BrokenWhenOffline
<1> QED
  BY <1>2, Invariant, PTL

\* The file transfers are a Delivery: sent once, held in one place, ended one
\* by one and for good, for any files and numbers and through any losses of
\* the friend, controls of both sides, settings changes and crashes.
THEOREM TransfersDeliver == Spec => DeliverySpec
<1>1. Init => Promise!DInit /\ Placed
  <2> SUFFICES ASSUME Init PROVE Promise!DInit /\ Placed
    OBVIOUS
  <2>1. \A n \in Number : ft["out"][n] = Zeroed /\ disk["out"][n] = NoRecord
    BY DEF Init, Dir
  <2>2. Zeroed.file = NoFile /\ ~Zeroed.resumeable /\ ~NoRecord.resumeable /\ thread.at # "decon"
    BY DEF Init, Idle, Zeroed, NoRecord
  <2>3. Underway = {} /\ Waiting = {}
    BY <2>1, <2>2 DEF Underway, Waiting
  <2> QED
    BY <2>1, <2>2, <2>3 DEF Init, Promise!DInit, Placed, OwnRecord, OverFirst
<1>2. Inv /\ Inv' /\ Placed /\ [Next]_vars => Placed' /\ [Promise!DNext]_(Promise!dvars)
  BY NextPromised DEF Inv, Promised, Promise!dvars
<1> QED
  BY <1>1, <1>2, Invariant, PTL DEF Spec, DeliverySpec, Promise!DSpec
=============================================================================
