----------------------------- MODULE MCScheduler -----------------------------
(* Instances of SchedulerScan for TLC, and the properties the runs check.     *)
EXTENDS SchedulerProperties, TLC

CONSTANTS m1, t1, t2, t3

\* The queries of a run over the tables an instance has rows in.
MCStages == <<Records, "chatgpt_export", "visible_turns">>

MCTables == [i \in Rows |-> IF i = m1 THEN Records ELSE "visible_turns"]
=============================================================================
