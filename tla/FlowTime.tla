------------------------------ MODULE FlowTime ------------------------------
(***************************************************************************)
(* When a flow began, and the cell of ipTable it is counted in.  Exporters *)
(* state the start of a flow as an uptime, which wraps after 2^32 ms, next *)
(* to the uptime and the wall clock of the datagram; ftltime makes a Unix  *)
(* time of them, ConvertNfTime a local time, and InsertNfInfoToIpTable     *)
(* counts the flow in the hour of that time if the day is today's.         *)
(*                                                                         *)
(* The clock ticks in milliseconds; the exporter and the daemon agree on   *)
(* it, and the nanoseconds of a header lie between two ticks.  The         *)
(* local time zone is a whole number of days off (none is interesting).    *)
(***************************************************************************)
EXTENDS Integers, FiniteSets

CONSTANTS
    Milli,          \* 1000: milliseconds per second
    Nano,           \* 1000000: nanoseconds per millisecond
    Word,           \* 2^32: what a uint32_t holds
    HourSecs,       \* 3600
    HoursPerDay,    \* 24
    DaysPerMonth,   \* about 31: tm_mday starts again after so many days
    WideTime,       \* time_t is 8 bytes (of a little-endian machine), not 4
    Epoch,          \* when the exporter starts for the first time
    Reboots,        \* bound: when it may start again
    MaxTime,        \* bound: the end of the model
    MaxAge,         \* environment: a flow is exported after at most so long
    MaxDelay        \* environment: a datagram is read after at most so long

ASSUME FlowTimeAssumption ==
    /\ Milli \in Nat \ {0} /\ Nano \in Nat \ {0} /\ Word \in Nat /\ Word > 2 * Milli
    /\ HourSecs \in Nat \ {0} /\ HoursPerDay \in Nat \ {0}
    /\ DaysPerMonth \in Nat \ {0}
    /\ WideTime \in BOOLEAN
    /\ {Epoch, MaxTime, MaxAge, MaxDelay} \subseteq Nat
    /\ Epoch >= Milli /\ Reboots \subseteq Nat

\* Where an end of a flow lies: in ipTable, in myNetwork, or neither.
Place == {"table", "mynet", "outside"}
Direction == {"UPLOAD", "DOWNLOAD"}
Cell == [hour : 0 .. HoursPerDay - 1, dir : Direction]

Flow == [start : Nat, src : Place, dst : Place]

Nsecs == 0 .. Milli * Nano - 1

\* A datagram with one record.  flow, at and wrapped are history: the flow, the
\* time of the export, and whether the uptime wrapped while the flow went on.
Datagram == [version : {5, 9}, SysUptime : 0 .. Word - 1,
             UnixSecs : 0 .. Word - 1, UnixNsecs : Nsecs,
             First : 0 .. Word - 1, flow : Flow, at : Nat, wrapped : BOOLEAN]

VARIABLES
    clock,      \* the time
    boot,       \* when the exporter was started
    flows,      \* flows the exporter has not reported yet
    datagrams,  \* datagrams under way
    inserted    \* the record the last step looked at, when, and what of it

vars == <<clock, boot, flows, datagrams, inserted>>

-----------------------------------------------------------------------------
(* The exporter *)

Uptime(t) == (t - boot) % Word

Pass ==
    /\ clock < MaxTime
    /\ \A f \in flows : clock < f.start + MaxAge
    /\ \A d \in datagrams : clock < d.at + MaxDelay
    /\ clock' = clock + 1
    /\ inserted' = {}
    /\ UNCHANGED <<boot, flows, datagrams>>

\* Bound: one flow or datagram at a time (they do not meet in the code).
Observe ==
    /\ flows = {} /\ datagrams = {}
    /\ \E s, t \in Place : flows' = {[start |-> clock, src |-> s, dst |-> t]}
    /\ inserted' = {}
    /\ UNCHANGED <<clock, boot, datagrams>>

\* The header of version 9 has no nanoseconds: its handler takes 0 for them.  rest
\* are those since the last millisecond.
Header(v, rest) ==
    [SysUptime |-> Uptime(clock),
     UnixSecs  |-> (clock \div Milli) % Word,
     UnixNsecs |-> IF v = 5 THEN Nano * (clock % Milli) + rest ELSE 0]

Export ==
    /\ \E f \in flows, v \in {5, 9}, rest \in 0 .. Nano - 1 :
         /\ datagrams' =
              {[version   |-> v,
                SysUptime |-> Header(v, rest).SysUptime,
                UnixSecs  |-> Header(v, rest).UnixSecs,
                UnixNsecs |-> Header(v, rest).UnixNsecs,
                First     |-> Uptime(f.start),
                flow      |-> f,
                at        |-> clock,
                wrapped   |-> (f.start - boot) \div Word # (clock - boot) \div Word]}
         /\ flows' = flows \ {f}
    /\ inserted' = {}
    /\ UNCHANGED <<clock, boot>>

\* The flow cache and the uptime are gone.
Reboot ==
    /\ clock \in Reboots
    /\ boot' = clock
    /\ flows' = {}
    /\ inserted' = {}
    /\ UNCHANGED <<clock, datagrams>>

Lose ==
    /\ \E d \in datagrams : datagrams' = datagrams \ {d}
    /\ inserted' = {}
    /\ UNCHANGED <<clock, boot, flows>>

-----------------------------------------------------------------------------
(* The daemon *)

\* Mutant of ftltime: the second is borrowed when nothing is missing, too.
ftltime_Borrow(sys, secs, nsecs, t) ==
    LET ms == (nsecs \div Nano) + Milli - (sys % Milli) + (t % Milli)
    IN  [secs  |-> (secs - (sys \div Milli) - 1 + (t \div Milli)) % Word,
         msecs |-> ms]

\* sys and t are milliseconds.  Only the last value of secs matters, so that it
\* wraps once.
ftltime(sys, secs, nsecs, t) ==
    LET msecs  == nsecs \div Nano
        borrow == IF sys % Milli > msecs THEN 1 ELSE 0
        ms     == msecs + borrow * Milli - (sys % Milli) + (t % Milli)
        carry  == IF ms >= Milli THEN 1 ELSE 0
    IN  [secs  |-> (secs - (sys \div Milli) - borrow + (t \div Milli) + carry) % Word,
         msecs |-> ms - carry * Milli]

\* &ftt.secs as a time_t: with 8 bytes, msecs is read as the upper half.
AsTime(ftt) == IF WideTime THEN ftt.secs + Word * ftt.msecs ELSE ftt.secs

DaySecs == HourSecs * HoursPerDay

\* Mutant of localtime: the hours are counted from 1.
localtime_From1(s) == [tm_mday |-> (s \div DaySecs) % DaysPerMonth,
                       tm_hour |-> ((s \div HourSecs) % HoursPerDay) + 1]

localtime(s) == [tm_mday |-> (s \div DaySecs) % DaysPerMonth,
                 tm_hour |-> (s \div HourSecs) % HoursPerDay]

ConvertNfTime(d) ==
    localtime(AsTime(ftltime(d.SysUptime, d.UnixSecs, d.UnixNsecs, d.First)))

Way(f) ==
    {dir \in Direction :
       \/ dir = "UPLOAD" /\ f.src = "table" /\ f.dst = "outside"
       \/ dir = "DOWNLOAD" /\ f.dst = "table" /\ f.src = "outside"}

\* Mutant of Cells: the day is not compared.
Cells_AnyDay(d, localtm) ==
    {[hour |-> ConvertNfTime(d).tm_hour, dir |-> x] : x \in Way(d.flow)}

\* The cells of the entry that InsertNfInfoToIpTable adds the bytes to.
Cells(d, localtm) ==
    {[hour |-> ConvertNfTime(d).tm_hour, dir |-> x] :
       x \in {y \in Way(d.flow) : ConvertNfTime(d).tm_mday = localtm.tm_mday}}

\* Mutant of Decode: version 5 records that began at boot are dropped as well.
Decode_Zero(d) == d.First # 0

\* The version 9 handler takes a start of 0 for a missing one.
Decode(d) == d.version = 9 => d.First # 0

\* main() sets localtm when it takes the datagram.
Receive ==
    /\ \E d \in datagrams :
         /\ inserted' =
              {[d     |-> d,
                at    |-> clock,
                secs  |-> ftltime(d.SysUptime, d.UnixSecs, d.UnixNsecs, d.First).secs,
                cells |-> IF Decode(d) THEN Cells(d, localtime(clock \div Milli))
                          ELSE {}]}
         /\ datagrams' = datagrams \ {d}
    /\ UNCHANGED <<clock, boot, flows>>

-----------------------------------------------------------------------------

Init ==
    /\ clock = Epoch
    /\ boot = Epoch
    /\ flows = {}
    /\ datagrams = {}
    /\ inserted = {}

Next == Pass \/ Observe \/ Export \/ Reboot \/ Lose \/ Receive

Spec == Init /\ [][Next]_vars

TypeOK ==
    /\ clock \in Nat
    /\ boot \in Nat
    /\ flows \subseteq Flow
    /\ datagrams \subseteq Datagram
    /\ inserted \subseteq [d : Datagram, at : Nat, secs : 0 .. Word - 1,
                           cells : SUBSET Cell]

-----------------------------------------------------------------------------
(* Properties *)

\* The start as the datagram states it: the version 9 header cuts off the
\* fraction of the second, and the start moves back with it.
Stated(d) == d.flow.start - (IF d.version = 9 THEN d.at % Milli ELSE 0)

DayOf(t) == (t \div Milli) \div DaySecs
HourOf(t) == ((t \div Milli) \div HourSecs) % HoursPerDay

\* ftltime, with its borrow and its carry, finds the second in which the flow
\* began, unless the uptime wrapped between the start and the export.
StartFound ==
    \A r \in inserted :
        ~r.d.wrapped => r.secs = (Stated(r.d) \div Milli) % Word

\* A flow is only ever counted on the day it began, and in its hour: not even a
\* wrapped uptime, which moves it by 49 days, makes it pass for a flow of today,
\* although only the day of the month is compared.
CountedWhereItBegan ==
    \A r \in inserted : \A c \in r.cells :
        /\ DayOf(r.at) = DayOf(Stated(r.d))
        /\ c.hour = HourOf(Stated(r.d))

\* What InsertNfInfoToIpTable leaves out is a flow of another day, a flow inside
\* or outside the networks, one across a wrap of the uptime, or one of version
\* 9 that began with the uptime at 0.
MissedForAReason ==
    \A r \in inserted : r.cells = {} =>
        \/ DayOf(r.at) # DayOf(Stated(r.d))
        \/ "table" \notin {r.d.flow.src, r.d.flow.dst}
        \/ "outside" \notin {r.d.flow.src, r.d.flow.dst}
        \/ r.d.wrapped
        \/ r.d.version = 9 /\ r.d.First = 0

=============================================================================
