-------------------------- MODULE MCRestoreRecovery --------------------------
(* One name with up to two accounts after each other, two restores, two    *)
(* crashes; contents with (v1, v2) and without (v0) attachments.           *)
EXTENDS RestoreRecovery

CONSTANTS v0, v1, v2

MCVersions == {v0, v1, v2}
MCAttached == {v1, v2}
MCBare == {v0}
=============================================================================
