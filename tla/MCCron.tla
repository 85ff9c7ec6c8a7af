------------------------------- MODULE MCCron -------------------------------
(* Small instances of CronTriggers for TLC.                                *)
EXTENDS CronTriggers, TLC

CONSTANTS t1, t2, c1, c2, c3

OneOrTwo == (c1 :> t1) @@ (c2 :> t2) @@ (c3 :> t1)
=============================================================================
