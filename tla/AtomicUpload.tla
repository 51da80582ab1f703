---------------------------- MODULE AtomicUpload ----------------------------
(***************************************************************************)
(* What an upload promises about the remote file at its destination.       *)
(*                                                                         *)
(* The file is absent, partial, or one whole version.  Uploading to a free *)
(* name may show a partial file until the upload ends or is given up; a    *)
(* whole version is only ever replaced by another whole version, in one    *)
(* step; and the user is told of a version only while it is in place.      *)
(***************************************************************************)
CONSTANTS
    Version,   \* the versions that may be stored at the destination
    Old,       \* the version that may be there before the first upload
    None,      \* there is no file
    Partial    \* there is a file that is no whole version

VARIABLES
    file,      \* None, Partial or a version
    told       \* the versions the user was told are stored

vars == <<file, told>>

Init == file \in {None, Old} /\ told = {}

\* A name that was free is taken by an empty file.
Create == file = None /\ file' = Partial /\ UNCHANGED told

\* A partial file is given up.
Abandon == file = Partial /\ file' = None /\ UNCHANGED told

\* A whole version takes the place of whatever was there.
Publish(v) == file' = v /\ UNCHANGED told

\* The user is told that v is stored, and it is.
Tell(v) == file = v /\ told' = told \union {v} /\ UNCHANGED file

Next == Create \/ Abandon \/ \E v \in Version : Publish(v) \/ Tell(v)

Spec == Init /\ [][Next]_vars
=============================================================================
