-------------------------- MODULE MCSchedulerControl --------------------------
(***************************************************************************)
(* SchedulerControl for TLC: posts and cron runs are model values.         *)
(***************************************************************************)
EXTENDS SchedulerControl

CONSTANT second   \* the post that joins another

\* Two scenes in one run: the alarm's and the cron's runs overlap over one post
\* while the second lies in the future and nothing names it; or the alarm's runs
\* have both posts to choose from.
Alone ==
  /\ row[second] = "future"
  /\ second \notin control.allowed \cup retrying
  /\ \A r \in Runs : second \notin seen[r].allowed \cup batch[r] \cup current[r]
Scene == Alone \/ \A r \in CronRuns : step[r] = "idle"

ScenesSpec == Init /\ [][Next /\ Scene']_vars
=============================================================================
