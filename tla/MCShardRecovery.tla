-------------------------- MODULE MCShardRecovery --------------------------
(***************************************************************************)
(* The member's phone; when it is lost another one takes its place.        *)
(***************************************************************************)
EXTENDS ShardRecovery, TLC

CONSTANT phone

MCPhone == {phone}
=============================================================================
