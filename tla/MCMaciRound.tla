---------------------------- MODULE MCMaciRound ----------------------------
(***************************************************************************)
(* A round of one member, who gave a sign-up key away, and two crankers.    *)
(***************************************************************************)
EXTENDS MaciRound

CONSTANTS ana, c1, c2

MCOneMember   == {ana}
MCSurrendered == {ana}
MCCrankers    == {c1, c2}
=============================================================================
