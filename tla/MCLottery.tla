------------------------------ MODULE MCLottery ------------------------------
(* Instances of the kernel with the lottery scheduler.                      *)
EXTENDS Lottery

AllSeeds == (-99)..99
=============================================================================
