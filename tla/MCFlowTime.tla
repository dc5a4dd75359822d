----------------------------- MODULE MCFlowTime ----------------------------
(* A small instance of FlowTime: a second of 3 ms of 2 ns each, a day of     *)
(* 12 ms, a month of 5 days.  The uptime wraps after 97 ms, which is no      *)
(* whole number of seconds and, like the 49.7 days of the code, about 1.6    *)
(* months.                                                                   *)
EXTENDS FlowTime

\* The exporter starts at 13 ms; one restart each in its second and fourth day.
Restarts == {18, 40}
=============================================================================
