--------------------------- MODULE MCJobScheduler ---------------------------
(***************************************************************************)
(* Small jobs for the scheduler: f0 and f1 end after one round.            *)
(***************************************************************************)
EXTENDS JobScheduler

MCLow0 == -2
MCLow1 == -3
=============================================================================
