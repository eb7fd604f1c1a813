----------------------------- MODULE MCLottery -----------------------------
(* Instances of Lottery for TLC; see the .cfg files.                        *)
EXTENDS Lottery
=============================================================================
