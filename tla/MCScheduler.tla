----------------------------- MODULE MCScheduler -----------------------------
(* schedule_overlaps() for every relation of four filters to three places. *)
EXTENDS Scheduler
=============================================================================
