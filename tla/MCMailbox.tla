----------------------------- MODULE MCMailbox -----------------------------
(***************************************************************************)
(* A mailbox on a small instance: one letter, which expires after a bucket, *)
(* and two dummies at a time, of the member's sessions or of a peer's.      *)
(***************************************************************************)
EXTENDS Mailbox, TLC

CONSTANTS m1, d1, d2

MCMails   == {m1}
MCDummies == {d1, d2}
MCLives   == {1}
=============================================================================
