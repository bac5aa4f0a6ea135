----------------------------- MODULE AtomicRestore -----------------------------
(***************************************************************************)
(* What an account is to its owner: its records and the attachments they   *)
(* show, which always belong together.  Writing, restoring a backup,       *)
(* deleting the account and signing up again under the same name are       *)
(* single steps.                                                           *)
(***************************************************************************)
EXTENDS Naturals

CONSTANTS
    Versions,   \* contents an account can have
    Bare,       \* the contents without attachments
    Blank,      \* the content of a new account
    NoOne,      \* nobody has the name
    Nothing     \* no attachments, or no records

VARIABLES
    owner,      \* user id that has the name, or NoOne
    data,       \* the account's records
    files       \* the account's attachments

avars == <<owner, data, files>>

FilesOf(v) == IF v \in Bare THEN Nothing ELSE v

(* A write of the user, or a restore, that takes effect.                   *)
Become(v) ==
    /\ owner # NoOne
    /\ data' = v
    /\ files' = FilesOf(v)
    /\ UNCHANGED owner

Delete ==
    /\ owner # NoOne
    /\ owner' = NoOne /\ data' = Nothing /\ files' = Nothing

SignUp ==
    /\ owner = NoOne
    /\ owner' \in Nat
    /\ data' = Blank
    /\ files' = FilesOf(Blank)

AInit == owner \in Nat /\ data \in Versions /\ files = FilesOf(data)
ANext == (\E v \in Versions : Become(v)) \/ Delete \/ SignUp
ASpec == AInit /\ [][ANext]_avars
=============================================================================
