------------------------------ MODULE Profile ------------------------------
(***************************************************************************)
(* What the user relies on when the program keeps his profile.  It is      *)
(* opened as the file has it, by one Tox instance at a time, and changed   *)
(* only while it is open.  It is closed only after a last attempt to save  *)
(* it, behind which nothing changes it any more: the file then is the      *)
(* profile, unless that write failed or the program is quitting and no     *)
(* longer saves.  A failed write leaves the old file or an empty one, and  *)
(* what was once encrypted is not written in clear text.                   *)
(***************************************************************************)
EXTENDS Naturals

CONSTANT NoProfile    \* the version an empty file has

VARIABLES phase,      \* of the profile: closed, open, or saved for the last time
          profile,    \* its version in the program
          file,       \* its version in the file
          secret,     \* whether the file is encrypted
          quitting    \* whether the program has ceased to save

pvars == <<phase, profile, file, secret, quitting>>

PInit ==
    /\ phase = "closed"
    /\ file \in Nat /\ profile = file
    /\ secret \in BOOLEAN
    /\ quitting = FALSE

Open ==
    /\ phase = "closed"
    /\ phase' = "open"
    /\ profile' = file
    /\ UNCHANGED <<file, secret, quitting>>

Change ==
    /\ phase = "open"
    /\ profile' = profile + 1
    /\ UNCHANGED <<phase, file, secret, quitting>>

\* An attempt to save: in the middle of the profile's life, or the last one.
Attempt ==
    /\ phase = "open"
    /\ phase' \in {"open", "saved"}
    /\ UNCHANGED <<profile, quitting>>

Save ==
    /\ Attempt
    /\ ~quitting
    /\ file' = profile
    /\ secret' \in {TRUE, secret}

FailToSave ==
    /\ Attempt
    /\ ~quitting
    /\ \/ file' = NoProfile /\ secret' = FALSE
       \/ UNCHANGED <<file, secret>>

\* The file stays as it is.
SkipSave ==
    /\ Attempt
    /\ quitting
    /\ UNCHANGED <<file, secret>>

Close ==
    /\ phase = "saved"
    /\ phase' = "closed"
    /\ UNCHANGED <<profile, file, secret, quitting>>

Quit ==
    /\ quitting' = TRUE
    /\ UNCHANGED <<phase, profile, file, secret>>

PNext == Open \/ Change \/ Save \/ FailToSave \/ SkipSave \/ Close \/ Quit

PSpec == PInit /\ [][PNext]_pvars
=============================================================================
