----------------------------- MODULE MCDayStore -----------------------------
(* Small instances of DayStore for TLC; the other values are in the cfgs.   *)
EXTENDS DayStore

AllFields == <<"hflow", "nflow", "sum">>
TwoFields == <<"hflow", "sum">>

\* No daylight saving time.
NoSkip == {}
=============================================================================
