----------------------------- MODULE MCBackupOps -----------------------------
(* Instances of BackupOps for TLC.                                          *)
EXTENDS BackupOps

CONSTANTS s1, s2, u1, u2, org, own

\* Two backups of the busy scope and one of the other let the gate make a nightly
\* run of both and try the busy one again.
MCMaxBackups == (s1 :> 2) @@ (s2 :> 1)

\* The configuration of the program both are events of, and of one of them.
MCCovers == (org :> {s1, s2}) @@ (own :> {s1})

MCMembers == (s1 :> {u1}) @@ (s2 :> {u2})
=============================================================================
