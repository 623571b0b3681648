------------------------------- MODULE MCCron -------------------------------
(* Instances of Cron for TLC. *)
EXTENDS Cron

\* A one-shot job that is deleted, a recurring job and a one-shot job that is kept.
MCSchedule3 ==
  << [kind |-> "at",    arg |-> 2, delete |-> TRUE],
     [kind |-> "every", arg |-> 1, delete |-> FALSE],
     [kind |-> "at",    arg |-> 3, delete |-> FALSE] >>

\* A one-shot job that is kept, a cron expression, and one that never matches.
MCScheduleEdited ==
  << [kind |-> "at",   arg |-> 2, delete |-> FALSE],
     [kind |-> "cron", arg |-> 2, delete |-> FALSE],
     [kind |-> "cron", arg |-> 0, delete |-> FALSE] >>

MCSchedule2 == <<MCSchedule3[1], MCSchedule3[2]>>
=============================================================================
