-------------------------- MODULE IntervalReports --------------------------
(***************************************************************************)
(* What a monitored connection promises the telemetry it collects: time is *)
(* cut into intervals, a sample belongs to the interval in which it was    *)
(* submitted, and each interval is reported once, whole, before the next   *)
(* one is cut.  There is no action that drops a sample or reports it twice.*)
(* ConnStats implements this with two sets of histograms and a generation  *)
(* counter.                                                                *)
(***************************************************************************)
CONSTANT Sample

VARIABLES
  open,     \* samples of the interval that is still being written
  closed,   \* samples of the interval that was cut and is being reported
  reported  \* samples of the intervals already handed to the reporter

vars == <<open, closed, reported>>

Init == open = {} /\ closed = {} /\ reported = {}

Submit ==
  \E s \in Sample \ (open \cup closed \cup reported) :
    /\ open' = open \cup {s}
    /\ UNCHANGED <<closed, reported>>

Cut ==
  /\ closed = {}
  /\ closed' = open
  /\ open' = {}
  /\ UNCHANGED reported

Deliver ==
  /\ reported' = reported \cup closed
  /\ closed' = {}
  /\ UNCHANGED open

Next == Submit \/ Cut \/ Deliver

Spec == Init /\ [][Next]_vars
=============================================================================
