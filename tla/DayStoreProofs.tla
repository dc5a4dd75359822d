--------------------------- MODULE DayStoreProofs ---------------------------
(***************************************************************************)
(* Proofs about DayStore for every value of its constants, by inductive    *)
(* invariants:                                                             *)
(*   ClockInv  types, localtm never ahead of the clock, preHour in step;   *)
(*   PastInv   nothing anywhere holds a flow of a later day;               *)
(*   DayInv    with traffic in every hour and signals kept away from       *)
(*             midnight, everything holds the flows of one day only;       *)
(*   TornInv   whatever happens, the counters of a table disagree about    *)
(*             flows that a signal or a cut file tore, and no others.      *)
(* PastInv and TornInv add to ClockInv, DayInv to PastInv.                 *)
(***************************************************************************)
EXTENDS DayStore, TLAPS

-----------------------------------------------------------------------------
(* ClockInv *)

NotAfter(s, t) == \/ s.day < t.day
                  \/ s.day = t.day /\ s.hour <= t.hour

ClockInv ==
    /\ TypeOK
    /\ NotAfter(localtm, now)
    /\ pc \in {"import", "loop"} => preHour = localtm.hour

\* What a cut file brings is part of what was saved.
LEMMA PrefixWithin ==
    ASSUME NEW tab \in Table, NEW u \in Prefix(tab)
    PROVE  u \in Table /\ Within(u, tab)
<1>1. u \in [Counter -> SUBSET UNION {tab[c] : c \in Counter}]
      /\ \A c \in Counter : u[c] \subseteq tab[c]
  BY DEF Prefix
<1>2. \A c \in Counter : tab[c] \subseteq Flow
  BY DEF Table
<1> QED
  BY <1>1, <1>2 DEF Table, Within

\* The clock moves on by at least an hour, to an hour of the day.
LEMMA LaterType ==
    ASSUME NEW t \in Stamp, Later(t).day <= MaxDay
    PROVE  Later(t) \in Stamp /\ NotAfter(t, Later(t))
<1>1. t.day \in Nat /\ t.hour \in 0 .. HoursPerDay - 1 /\ HoursPerDay > 1
      /\ HoursPerDay \in Nat /\ MaxDay \in Nat
  BY DayStoreAssumption DEF Stamp, Day, Hour
<1> DEFINE u == HourAfter(t)
           v == HourAfter(u)
<1>2. /\ u = [day |-> u.day, hour |-> u.hour]
      /\ u.day \in Nat /\ u.hour \in 0 .. HoursPerDay - 1 /\ NotAfter(t, u)
  BY <1>1 DEF HourAfter, NotAfter
<1>3. /\ v = [day |-> v.day, hour |-> v.hour]
      /\ v.day \in Nat /\ v.hour \in 0 .. HoursPerDay - 1 /\ NotAfter(u, v)
  BY <1>1, <1>2 DEF HourAfter, NotAfter
<1> HIDE DEF u, v
<1>4. NotAfter(t, v)
  BY <1>1, <1>2, <1>3 DEF NotAfter
<1>5. Later(t) \in {u, v}
  BY DEF Later, u, v
<1>6. Later(t).day \in 0 .. MaxDay
  BY <1>1, <1>2, <1>3, <1>5
<1> QED
  BY <1>2, <1>3, <1>4, <1>5, <1>6 DEF Stamp, Day, Hour

\* At the rollover the clock has passed midnight since the last datagram, and
\* the name that ExportRecord(YESTERDAY) makes is a day's.
LEMMA MidnightPassed ==
    ASSUME ClockInv, pc = "loop", Midnight
    PROVE  localtm.day < now.day /\ Yesterday \in Day
<1>1. /\ now \in Stamp /\ localtm \in Stamp
      /\ localtm.hour = HoursPerDay - 1 /\ now.hour = 0 /\ NotAfter(localtm, now)
  BY DEF ClockInv, TypeOK, Midnight
<1>2. localtm.day < now.day /\ now.day \in Day /\ localtm.day \in Day
  BY <1>1, DayStoreAssumption DEF NotAfter, Stamp, Hour, Day
<1>3. Yesterday \in Day
  <2>1. CASE \E s \in Skipped : s.day + 1 = now.day
    <3>1. PICK s \in Skipped : s.day + 1 = now.day
      BY <2>1
    <3>2. s.day \in Day \ {0}
      BY <3>1, DayStoreAssumption
    <3> QED
      BY <3>1, <3>2, <2>1, <1>2, DayStoreAssumption DEF Yesterday, Day
  <2>2. CASE ~ \E s \in Skipped : s.day + 1 = now.day
    BY <2>2, <1>2, DayStoreAssumption DEF Yesterday, Day
  <2> QED
    BY <2>1, <2>2
<1> QED
  BY <1>2, <1>3

\* A cleared ipTable is a table.
LEMMA EmptyType == Empty \in Table
  BY DEF Empty, Table

\* localtm before main() sets it, and the first hour and day, are of their types.
LEMMA UnsetType == Unset \in Stamp /\ 0 \in Hour /\ 0 \in Day
  BY DayStoreAssumption DEF Unset, Stamp, Day, Hour

\* Opening an export keeps the types of the writers and of the files.
LEMMA OpenType ==
    ASSUME TypeOK, NEW who \in {"main", "exits", "hup"}, NEW d \in Day,
           NEW tab \in Table, OpenExport(who, d, tab)
    PROVE  /\ writers' \in SUBSET Writer
           /\ files' \in [Day -> SUBSET (Table \cup {Corrupt})]
<1>1. writers' \in SUBSET Writer
  BY DEF TypeOK, OpenExport, Writer
<1>2. {w.tab : w \in {x \in writers' : x.day = d}} \subseteq Table
  BY <1>1 DEF Writer
<1> QED
  BY <1>1, <1>2 DEF TypeOK, OpenExport

\* Closing an export keeps the types of the writers and of the files.
LEMMA CloseType ==
    ASSUME TypeOK, NEW w \in writers, CloseExport(w)
    PROVE  files' \in [Day -> SUBSET (Table \cup {Corrupt})]
  BY DEF TypeOK, CloseExport, Writer

\* The end of the daemon in the middle of an export keeps the types too.
LEMMA DieType ==
    ASSUME TypeOK, Die
    PROVE  /\ pc' = "down" /\ localtm' \in Stamp /\ preHour' \in Hour
           /\ ipTable' \in Table /\ todo' \in SUBSET (Counter \X Flow)
           /\ writers' \in SUBSET Writer
           /\ localtm' = Unset
  BY EmptyType, UnsetType DEF TypeOK, Die

\* localtm before main() sets it is not ahead of the clock.
LEMMA UnsetNotAfter ==
    ASSUME NEW t \in Stamp
    PROVE  NotAfter(Unset, t)
  BY DayStoreAssumption DEF Unset, NotAfter, Stamp, Day, Hour

\* The clock invariant holds before the daemon is started.
LEMMA ClockInit == Init => ClockInv
<1> SUFFICES ASSUME Init PROVE ClockInv
  OBVIOUS
<1>1. now \in Stamp
  BY DayStoreAssumption DEF Init, Stamp, Day
<1>2. TypeOK
  <2>1. /\ received \in 0 .. MaxFlows /\ starts \in 0 .. MaxStarts
        /\ files \in [Day -> SUBSET (Table \cup {Corrupt})]
    BY DayStoreAssumption DEF Init
  <2> QED
    BY <1>1, <2>1, EmptyType, UnsetType DEF Init, TypeOK
<1> QED
  BY <1>1, <1>2, UnsetNotAfter DEF Init, ClockInv

\* Every step of the daemon, its child and the clock keeps the clock invariant.
LEMMA ClockNext == ClockInv /\ [Next]_vars => ClockInv'
<1> SUFFICES ASSUME ClockInv, [Next]_vars PROVE ClockInv'
  OBVIOUS
<1> USE DEF ClockInv
<1>1. CASE Tick
  <2>1. now' \in Stamp /\ NotAfter(now, now')
    BY <1>1, LaterType DEF Tick, TypeOK
  <2>2. NotAfter(localtm', now')
    BY <1>1, <2>1, DayStoreAssumption
    DEF Tick, NotAfter, TypeOK, Stamp, Day, Hour
  <2> QED
    BY <1>1, <2>1, <2>2 DEF Tick, TypeOK
<1>2. CASE Start
  BY <1>2, DayStoreAssumption DEF Start, TypeOK, NotAfter, Stamp, Day, Hour
<1>3. CASE Import
  <2>1. ipTable' \in Table
    <3>1. Saved(localtm.day) \subseteq Table
      BY DEF TypeOK, Saved, Stamp
    <3> QED
      BY <1>3, <3>1, PrefixWithin DEF Import, TypeOK
  <2>2. torn' \subseteq Flow
    BY <1>3 DEF Import, Imbalance, TypeOK
  <2> QED
    BY <1>3, <2>1, <2>2 DEF Import, TypeOK
<1>4. CASE ImportDiep
  BY <1>4, DieType, UnsetNotAfter DEF ImportDiep, TypeOK
<1>5. CASE Recv
  <2>1. /\ pc = "loop" /\ localtm' = now
        /\ todo' \in SUBSET (Counter \X Flow) /\ received' \in 0 .. MaxFlows
    <3>1. pc = "loop" /\ localtm' = now /\ todo = {}
      BY <1>5 DEF Recv, Receive
    <3>2. received \in 0 .. MaxFlows
      BY DEF TypeOK
    <3>3. ASSUME NEW d \in StartDay, received < MaxFlows,
                 todo' = Additions([id |-> received + 1, day |-> d]),
                 received' = IF todo' = {} THEN received ELSE received + 1
          PROVE  todo' \in SUBSET (Counter \X Flow) /\ received' \in 0 .. MaxFlows
      <4>1. [id |-> received + 1, day |-> d] \in Flow
        BY <3>2, <3>3, DayStoreAssumption DEF Flow, StartDay
      <4>2. todo' \in SUBSET (Counter \X Flow)
        BY <3>3, <4>1 DEF Additions
      <4>3. received' \in 0 .. MaxFlows
        BY <3>2, <3>3, DayStoreAssumption
      <4> QED
        BY <4>2, <4>3
    <3>4. CASE UNCHANGED <<todo, received>>
      BY <3>1, <3>2, <3>4
    <3> QED
      BY <1>5, <3>1, <3>3, <3>4 DEF Recv, Receive
  <2>2. NotAfter(localtm', now') /\ localtm' \in Stamp /\ now' \in Stamp
    BY <1>5, <2>1, DayStoreAssumption
    DEF Recv, NotAfter, TypeOK, Stamp, Day, Hour
  <2>3. CASE Midnight
    <3>1. OpenExport("main", Yesterday, ipTable) /\ Yesterday \in Day
      BY <1>5, <2>1, <2>3, MidnightPassed DEF Recv
    <3>2. /\ writers' \in SUBSET Writer
          /\ files' \in [Day -> SUBSET (Table \cup {Corrupt})]
      BY <3>1, OpenType DEF TypeOK
    <3> QED
      BY <1>5, <2>1, <2>2, <2>3, <3>2 DEF Recv, TypeOK
  <2>4. CASE ~Midnight
    BY <1>5, <2>1, <2>2, <2>4 DEF Recv, TypeOK, Stamp
  <2> QED
    BY <2>3, <2>4
<1>6. CASE RecvDiep
  BY <1>6, DieType, UnsetNotAfter DEF RecvDiep, TypeOK
<1>7. CASE CloseRollover
  BY <1>7, CloseType DEF CloseRollover, TypeOK
<1>8. CASE Clear
  BY <1>8, EmptyType DEF Clear, TypeOK, Stamp
<1>9. CASE Add
  <2>1. ipTable' \in Table
    BY <1>9 DEF Add, TypeOK, Table
  <2> QED
    BY <1>9, <2>1 DEF Add, TypeOK
<1>10. CASE Exits
  <2>1. localtm.day \in Day
    BY DEF TypeOK, Stamp
  <2>2. /\ writers' \in SUBSET Writer
        /\ files' \in [Day -> SUBSET (Table \cup {Corrupt})]
    BY <1>10, <2>1, OpenType DEF Exits, TypeOK
  <2> QED
    BY <1>10, <2>2 DEF Exits, TypeOK, Imbalance
<1>11. CASE CloseExits
  BY <1>11, CloseType, DieType, UnsetNotAfter DEF CloseExits, TypeOK
<1>12. CASE Update
  BY <1>12 DEF Update, TypeOK, Imbalance
<1>13. CASE UpdateBadConfig
  BY <1>13, DieType, UnsetNotAfter DEF UpdateBadConfig, TypeOK
<1>14. CASE OpenUpdate
  <2>1. PICK t \in hup : OpenExport("hup", now.day, t)
    BY <1>14 DEF OpenUpdate
  <2>2. now.day \in Day /\ t \in Table
    BY DEF TypeOK, Stamp
  <2>3. /\ writers' \in SUBSET Writer
        /\ files' \in [Day -> SUBSET (Table \cup {Corrupt})]
    BY <2>1, <2>2, OpenType
  <2> QED
    BY <1>14, <2>3 DEF OpenUpdate, TypeOK
<1>15. CASE CloseUpdate
  BY <1>15, CloseType DEF CloseUpdate, TypeOK
<1>16. CASE Kill
  BY <1>16, DieType, UnsetNotAfter DEF Kill, TypeOK
<1>17. CASE KillChild
  BY <1>17 DEF KillChild, TypeOK
<1>18. CASE UNCHANGED vars
  BY <1>18 DEF vars, TypeOK
<1> QED
  BY <1>1, <1>2, <1>3, <1>4, <1>5, <1>6, <1>7, <1>8, <1>9, <1>10, <1>11,
     <1>12, <1>13, <1>14, <1>15, <1>16, <1>17, <1>18 DEF Next

\* The daemon's variables keep their types, and the clock invariant holds.
THEOREM ClockInvariant == Spec => []ClockInv
  BY ClockInit, ClockNext, PTL DEF Spec

\* Every reachable state is well typed: in particular the rollover never
\* names a file of a day before the first one, whatever hours are skipped.
THEOREM TypeCorrect == Spec => []TypeOK
<1>1. ClockInv => TypeOK
  BY DEF ClockInv
<1> QED
  BY <1>1, ClockInvariant, PTL

-----------------------------------------------------------------------------
(* PastInv: where no hour is skipped, traffic never moves back in time.     *)

PastInv ==
    /\ ClockInv
    /\ NoFutureFlows
    /\ pc \in {"down", "import"} => ipTable = Empty /\ todo = {}
    /\ \A a \in todo : a[2].day <= localtm.day
    /\ \A w \in writers : Upto(w.tab, w.day)
    /\ \A t \in hup : Upto(t, now.day)

\* What holds no flow of a later day today holds none tomorrow.
LEMMA UptoMono ==
    ASSUME NEW tab \in Table, NEW d \in Day, NEW e \in Day, d <= e, Upto(tab, d)
    PROVE  Upto(tab, e)
<1> SUFFICES ASSUME NEW c \in Counter, NEW f \in tab[c] PROVE f.day <= e
  BY DEF Upto
<1>1. f.day \in Day /\ f.day <= d
  BY DEF Table, Flow, Upto
<1> QED
  BY <1>1, DayStoreAssumption DEF Day

\* A cleared ipTable holds no flow of a later day.
LEMMA UptoEmpty ==
    ASSUME NEW d
    PROVE  Upto(Empty, d)
  BY DEF Upto, Empty

\* gzopen("wb") leaves nothing of a later day in the files.
LEMMA OpenUpto ==
    ASSUME TypeOK, NEW who, NEW d \in Day, NEW tab \in Table,
           \A w \in writers : Upto(w.tab, w.day),
           \A e \in Day : \A t \in Saved(e) : Upto(t, e),
           Upto(tab, d), OpenExport(who, d, tab)
    PROVE  /\ \A w \in writers' : Upto(w.tab, w.day)
           /\ \A e \in Day : \A t \in Saved(e)' : Upto(t, e)
<1>1. \A w \in writers' : Upto(w.tab, w.day)
  BY DEF OpenExport
<1>2. ASSUME NEW e \in Day, NEW t \in Saved(e)'
      PROVE  Upto(t, e)
  <2>1. CASE e = d
    BY <1>1, <1>2, <2>1 DEF OpenExport, Saved, TypeOK
  <2>2. CASE e # d
    BY <1>2, <2>2 DEF OpenExport, Saved, TypeOK
  <2> QED
    BY <2>1, <2>2
<1> QED
  BY <1>1, <1>2

\* gzwrite and gzclose of a table without later flows leave none in the files.
LEMMA CloseUpto ==
    ASSUME TypeOK, NEW w \in writers, CloseExport(w),
           \A x \in writers : Upto(x.tab, x.day),
           \A e \in Day : \A t \in Saved(e) : Upto(t, e)
    PROVE  \A e \in Day : \A t \in Saved(e)' : Upto(t, e)
  BY DEF CloseExport, Saved, TypeOK

\* Nothing is of a later day before the daemon is started.
LEMMA PastInit == Init => PastInv
  BY ClockInit, UptoEmpty DEF Init, PastInv, NoFutureFlows, Saved

\* The end of the daemon brings nothing of a later day.
LEMMA DiePast ==
    ASSUME PastInv, Die
    PROVE  /\ Upto(ipTable, localtm.day)' /\ ipTable' = Empty /\ todo' = {}
           /\ \A w \in writers' : Upto(w.tab, w.day)
  BY UptoEmpty DEF Die, PastInv

\* Where no hour is skipped, no step brings in a flow of a later day.
LEMMA PastNext ==
    ASSUME Skipped = {}
    PROVE  PastInv /\ [Next]_vars => PastInv'
<1> SUFFICES ASSUME PastInv, [Next]_vars PROVE PastInv'
  OBVIOUS
<1>0. ClockInv /\ ClockInv' /\ TypeOK
  BY ClockNext DEF PastInv, ClockInv
<1>a. /\ now \in Stamp /\ now.day \in Day /\ localtm \in Stamp
      /\ localtm.day \in Day /\ localtm.day <= now.day
  BY <1>0, DayStoreAssumption DEF ClockInv, TypeOK, NotAfter, Stamp, Day
<1> USE DEF PastInv
<1>1. CASE Tick
  <2>1. now'.day \in Day /\ now.day <= now'.day
    BY <1>0, <1>a, <1>1, LaterType, DayStoreAssumption
    DEF Tick, NotAfter, Stamp, Day
  <2>2. \A t \in hup : Upto(t, now'.day)
    BY <1>0, <1>a, <2>1, UptoMono DEF TypeOK
  <2> QED
    BY <1>0, <1>1, <2>2 DEF Tick, NoFutureFlows, Saved
<1>2. CASE Start
  BY <1>0, <1>2, UptoEmpty DEF Start, NoFutureFlows, Saved
<1>3. CASE Import
  <2>1. Upto(ipTable', localtm.day)
    <3>1. \A t \in Saved(localtm.day) : t \in Table /\ Upto(t, localtm.day)
      BY <1>0, <1>a DEF NoFutureFlows, TypeOK, Saved
    <3>2. \A t \in Saved(localtm.day) : \A u \in Prefix(t) : Upto(u, localtm.day)
      BY <3>1, PrefixWithin DEF Upto, Within
    <3> QED
      BY <1>a, <1>3, <3>1, <3>2 DEF Import, NoFutureFlows
  <2> QED
    BY <1>0, <1>3, <2>1 DEF Import, NoFutureFlows, Saved
<1>4. CASE ImportDiep
  BY <1>0, <1>4, DiePast DEF ImportDiep, NoFutureFlows, Saved
<1>5. CASE Recv
  <2>1. pc = "loop" /\ localtm' = now
    BY <1>5 DEF Recv, Receive
  <2>2. \A a \in todo' : a[2].day <= now.day
    BY <1>5, <1>a, DayStoreAssumption DEF Recv, Receive, Additions, Day
  <2>3. Upto(ipTable, now.day)
    BY <1>0, <1>a, UptoMono DEF TypeOK, NoFutureFlows
  <2>4. /\ \A w \in writers' : Upto(w.tab, w.day)
        /\ \A e \in Day : \A t \in Saved(e)' : Upto(t, e)
    <3>1. CASE Midnight
      <4>1. Yesterday = now.day - 1 /\ Yesterday \in Day /\ localtm.day <= Yesterday
        BY <1>0, <1>a, <2>1, <3>1, MidnightPassed, DayStoreAssumption
        DEF Yesterday, Day
      <4>2. Upto(ipTable, Yesterday)
        <5>1. ipTable \in Table /\ Upto(ipTable, localtm.day)
          BY <1>0, <1>a DEF TypeOK, NoFutureFlows
        <5>2. localtm.day \in Day /\ Yesterday \in Day
          BY <1>0, <1>a, <4>1, DayStoreAssumption DEF Day, Stamp, TypeOK
        <5> QED
          BY <4>1, <5>1, <5>2, UptoMono
      <4>3. OpenExport("main", Yesterday, ipTable)
        BY <1>5, <3>1 DEF Recv
      <4> QED
        BY <1>0, <4>1, <4>2, <4>3, OpenUpto DEF TypeOK, NoFutureFlows
    <3>2. CASE ~Midnight
      BY <1>5, <3>2 DEF Recv, NoFutureFlows, Saved
    <3> QED
      BY <3>1, <3>2
  <2>5. pc' \in {"loop", "rollover"}
    BY <1>5, <2>1 DEF Recv
  <2> QED
    BY <1>0, <1>5, <2>1, <2>2, <2>3, <2>4, <2>5 DEF Recv, NoFutureFlows
<1>6. CASE RecvDiep
  BY <1>0, <1>6, DiePast DEF RecvDiep, NoFutureFlows, Saved
<1>7. CASE CloseRollover
  <2>1. PICK w \in writers : CloseExport(w) /\ writers' = writers \ {w}
    BY <1>7 DEF CloseRollover
  <2>2. \A e \in Day : \A t \in Saved(e)' : Upto(t, e)
    BY <1>0, <2>1, CloseUpto DEF NoFutureFlows
  <2> QED
    BY <1>0, <1>7, <2>1, <2>2 DEF CloseRollover, NoFutureFlows
<1>8. CASE Clear
  BY <1>0, <1>8, UptoEmpty DEF Clear, NoFutureFlows, Saved
<1>9. CASE Add
  <2>1. Upto(ipTable', localtm.day)
    BY <1>0, <1>9 DEF Add, NoFutureFlows, Upto, TypeOK, Table
  <2> QED
    BY <1>0, <1>9, <2>1 DEF Add, NoFutureFlows, Saved
<1>10. CASE Exits
  <2>1. OpenExport("exits", localtm.day, ipTable)
    BY <1>10 DEF Exits
  <2>2. /\ \A w \in writers' : Upto(w.tab, w.day)
        /\ \A e \in Day : \A t \in Saved(e)' : Upto(t, e)
    BY <1>0, <1>a, <2>1, OpenUpto DEF TypeOK, NoFutureFlows
  <2> QED
    BY <1>0, <1>10, <2>2 DEF Exits, NoFutureFlows
<1>11. CASE CloseExits
  <2>1. \A e \in Day : \A t \in Saved(e)' : Upto(t, e)
    BY <1>0, <1>11, CloseUpto DEF CloseExits, NoFutureFlows
  <2> QED
    BY <1>0, <1>11, <2>1, DiePast DEF CloseExits, NoFutureFlows
<1>12. CASE Update
  <2>1. \A t \in hup' : Upto(t, now.day)
    BY <1>0, <1>a, <1>12, UptoMono DEF Update, TypeOK, NoFutureFlows
  <2> QED
    BY <1>0, <1>12, <2>1 DEF Update, NoFutureFlows, Saved
<1>13. CASE UpdateBadConfig
  BY <1>0, <1>13, DiePast DEF UpdateBadConfig, NoFutureFlows, Saved
<1>14. CASE OpenUpdate
  <2>1. PICK t \in hup : OpenExport("hup", now.day, t)
    BY <1>14 DEF OpenUpdate
  <2>2. /\ \A w \in writers' : Upto(w.tab, w.day)
        /\ \A e \in Day : \A s \in Saved(e)' : Upto(s, e)
    BY <1>0, <1>a, <2>1, OpenUpto DEF TypeOK, NoFutureFlows
  <2> QED
    BY <1>0, <1>14, <2>2 DEF OpenUpdate, NoFutureFlows
<1>15. CASE CloseUpdate
  <2>1. PICK w \in writers : CloseExport(w) /\ writers' = writers \ {w}
    BY <1>15 DEF CloseUpdate
  <2>2. \A e \in Day : \A t \in Saved(e)' : Upto(t, e)
    BY <1>0, <2>1, CloseUpto DEF NoFutureFlows
  <2> QED
    BY <1>0, <1>15, <2>1, <2>2 DEF CloseUpdate, NoFutureFlows
<1>16. CASE Kill
  BY <1>0, <1>16, DiePast DEF Kill, NoFutureFlows, Saved
<1>17. CASE KillChild
  BY <1>0, <1>17 DEF KillChild, NoFutureFlows, Saved
<1>18. CASE UNCHANGED vars
  BY <1>0, <1>18 DEF vars, NoFutureFlows, Saved
<1> QED
  BY <1>1, <1>2, <1>3, <1>4, <1>5, <1>6, <1>7, <1>8, <1>9, <1>10, <1>11,
     <1>12, <1>13, <1>14, <1>15, <1>16, <1>17, <1>18 DEF Next

\* Whatever signals, crashes, gaps in the traffic and disk errors happen, no
\* table and no file holds a flow of a later day than its own, as long as the
\* clocks are never put forward (ExportRecord goes back 86400 seconds).
THEOREM NothingFromTheFuture ==
    ASSUME Skipped = {}
    PROVE  Spec => []NoFutureFlows
<1>1. PastInv => NoFutureFlows
  BY DEF PastInv
<1> QED
  BY <1>1, PastInit, PastNext, PTL DEF Spec

-----------------------------------------------------------------------------
(* DayInv: with a datagram in every hour, signals away from midnight and no *)
(* skipped hour, a table is one day's.                                      *)

DayInv ==
    /\ ClockInv
    /\ Alive => now \in {localtm, Later(localtm)}
    /\ pc \in {"down", "import"} => ipTable = Empty /\ todo = {}
    /\ OneDayInMemory
    /\ pc \in {"rollover", "clear"} => OnDay(ipTable, localtm.day - 1)
    /\ \A a \in todo : a[2].day = localtm.day
    /\ OneDayPerFile
    /\ \A w \in writers : OnDay(w.tab, w.day)
    /\ \A t \in hup : OnDay(t, now.day)

\* A cleared ipTable holds flows of any one day.
LEMMA OnDayEmpty ==
    ASSUME NEW d
    PROVE  OnDay(Empty, d)
  BY DEF OnDay, Empty

\* gzopen("wb") leaves each file to one day.
LEMMA OpenOnDay ==
    ASSUME TypeOK, NEW who, NEW d \in Day, NEW tab \in Table,
           \A w \in writers : OnDay(w.tab, w.day), OneDayPerFile,
           OnDay(tab, d), OpenExport(who, d, tab)
    PROVE  (\A w \in writers' : OnDay(w.tab, w.day)) /\ OneDayPerFile'
<1>1. \A w \in writers' : OnDay(w.tab, w.day)
  BY DEF OpenExport
<1>2. ASSUME NEW e \in Day, NEW t \in Saved(e)'
      PROVE  OnDay(t, e)
  <2>1. CASE e = d
    BY <1>1, <1>2, <2>1 DEF OpenExport, Saved, TypeOK
  <2>2. CASE e # d
    BY <1>2, <2>2 DEF OpenExport, Saved, TypeOK, OneDayPerFile
  <2> QED
    BY <2>1, <2>2
<1> QED
  BY <1>1, <1>2 DEF OneDayPerFile

\* gzwrite and gzclose of a table of one day to that day's file keep the files so.
LEMMA CloseOnDay ==
    ASSUME TypeOK, NEW w \in writers, CloseExport(w), OneDayPerFile,
           \A x \in writers : OnDay(x.tab, x.day)
    PROVE  OneDayPerFile'
  BY DEF CloseExport, Saved, TypeOK, OneDayPerFile

\* The end of the daemon keeps each file to one day.
LEMMA DieOnDay ==
    ASSUME DayInv, Die
    PROVE  /\ ~Alive' /\ OneDayInMemory' /\ ipTable' = Empty /\ todo' = {}
           /\ pc' \notin {"rollover", "clear"}
           /\ \A w \in writers' : OnDay(w.tab, w.day)
  BY DEF Die, DayInv, Alive, OneDayInMemory

\* Every file is of one day before the daemon is started.
LEMMA DayInit == Init => DayInv
  BY ClockInit
  DEF Init, DayInv, Alive, OneDayInMemory, OneDayPerFile, Saved

\* The first datagram of a day finds preHour at the last hour of the day
\* before; any other finds localtm on its own day.
LEMMA MidnightOrSameDay ==
    ASSUME Skipped = {}, ClockInv, pc = "loop",
           now \in {localtm, Later(localtm)}
    PROVE  /\ Midnight => localtm.day = now.day - 1
           /\ ~Midnight => localtm.day = now.day
<1>1. localtm \in Stamp /\ preHour = localtm.hour
  BY DEF ClockInv, TypeOK
<1>2. Later(localtm) = HourAfter(localtm)
  BY DEF Later
<1>3. localtm.day \in Nat /\ localtm.hour \in 0 .. HoursPerDay - 1
      /\ HoursPerDay \in Nat /\ HoursPerDay > 1
  BY <1>1, DayStoreAssumption DEF Stamp, Day, Hour
<1>4. CASE now = localtm
  BY <1>1, <1>3, <1>4 DEF Midnight
<1>5. CASE now = HourAfter(localtm)
  BY <1>1, <1>3, <1>5 DEF Midnight, HourAfter
<1> QED
  BY <1>2, <1>4, <1>5

\* With traffic in every hour and calm signals, every step keeps tables and files to one day.
LEMMA DayNext ==
    ASSUME Skipped = {}, HourlyTraffic, CalmSignals
    PROVE  DayInv /\ [Next]_vars => DayInv'
<1> SUFFICES ASSUME DayInv, [Next]_vars PROVE DayInv'
  OBVIOUS
<1>0. ClockInv /\ ClockInv' /\ TypeOK
  BY ClockNext DEF DayInv, ClockInv
<1>a. /\ now \in Stamp /\ now.day \in Day /\ localtm \in Stamp
      /\ localtm.day \in Day
  BY <1>0 DEF TypeOK, Stamp
<1> USE DEF DayInv, Alive
<1>1. CASE Tick
  <2>1. pc # "down" => now' \in {localtm, Later(localtm)}
    BY <1>1 DEF Tick
  <2>2. \A t \in hup : OnDay(t, now'.day)
    BY <1>1 DEF Tick, Exporting
  <2> QED
    BY <1>0, <1>1, <2>1, <2>2
    DEF Tick, OneDayInMemory, OneDayPerFile, Saved
<1>2. CASE Start
  BY <1>0, <1>2 DEF Start, OneDayInMemory, OneDayPerFile, Saved
<1>3. CASE Import
  <2>1. OnDay(ipTable', localtm.day)
    <3>1. CASE files[localtm.day] = {} /\ UNCHANGED ipTable
      BY <1>3, <3>1, OnDayEmpty DEF Import
    <3>2. \A t \in Saved(localtm.day) : t \in Table /\ OnDay(t, localtm.day)
      BY <1>0, <1>a DEF OneDayPerFile, TypeOK, Saved
    <3>3. \A t \in Saved(localtm.day) : \A u \in Prefix(t) : OnDay(u, localtm.day)
      BY <3>2, PrefixWithin DEF OnDay, Within
    <3> QED
      BY <1>3, <3>1, <3>2, <3>3 DEF Import
  <2> QED
    BY <1>0, <1>3, <2>1 DEF Import, OneDayInMemory, OneDayPerFile, Saved
<1>4. CASE ImportDiep
  BY <1>0, <1>4, DieOnDay DEF ImportDiep, OneDayPerFile, Saved
<1>5. CASE Recv
  <2>1. pc = "loop" /\ localtm' = now /\ OnDay(ipTable, localtm.day)
    BY <1>5 DEF Recv, Receive, OneDayInMemory
  <2>2. \A a \in todo' : a[2].day = now.day
    BY <1>5 DEF Recv, Receive, Additions
  <2>3. CASE Midnight
    <3>1. Yesterday = now.day - 1 /\ localtm.day = Yesterday
      BY <1>0, <2>1, <2>3, MidnightOrSameDay DEF Yesterday
    <3>2. OpenExport("main", Yesterday, ipTable) /\ pc' = "rollover"
      BY <1>5, <2>3 DEF Recv
    <3>3. (\A w \in writers' : OnDay(w.tab, w.day)) /\ OneDayPerFile'
      BY <1>0, <1>a, <2>1, <3>1, <3>2, OpenOnDay DEF TypeOK
    <3> QED
      BY <1>0, <1>5, <2>1, <2>2, <3>1, <3>2, <3>3 DEF Recv, OneDayInMemory
  <2>4. CASE ~Midnight
    <3>1. OnDay(ipTable, now.day)
      BY <1>0, <2>1, <2>4, MidnightOrSameDay
    <3> QED
      BY <1>0, <1>5, <2>1, <2>2, <2>4, <3>1
      DEF Recv, OneDayInMemory, OneDayPerFile, Saved
  <2> QED
    BY <2>3, <2>4
<1>6. CASE RecvDiep
  BY <1>0, <1>6, DieOnDay DEF RecvDiep, OneDayPerFile, Saved
<1>7. CASE CloseRollover
  <2>1. PICK w \in writers : CloseExport(w) /\ writers' = writers \ {w}
    BY <1>7 DEF CloseRollover
  <2>2. OneDayPerFile'
    BY <1>0, <2>1, CloseOnDay
  <2> QED
    BY <1>0, <1>7, <2>1, <2>2 DEF CloseRollover, OneDayInMemory
<1>8. CASE Clear
  BY <1>0, <1>8, OnDayEmpty DEF Clear, OneDayInMemory, OneDayPerFile, Saved
<1>9. CASE Add
  <2>1. OnDay(ipTable', localtm.day)
    BY <1>0, <1>9 DEF Add, OneDayInMemory, OnDay, TypeOK, Table
  <2> QED
    BY <1>0, <1>9, <2>1 DEF Add, OneDayInMemory, OneDayPerFile, Saved
<1>10. CASE Exits
  <2>1. /\ OpenExport("exits", localtm.day, ipTable)
        /\ OnDay(ipTable, localtm.day)
    BY <1>10 DEF Exits, SignalAllowed, OneDayInMemory
  <2>2. (\A w \in writers' : OnDay(w.tab, w.day)) /\ OneDayPerFile'
    BY <1>0, <1>a, <2>1, OpenOnDay DEF TypeOK
  <2> QED
    BY <1>0, <1>10, <2>1, <2>2 DEF Exits, SignalAllowed, OneDayInMemory
<1>11. CASE CloseExits
  <2>1. OneDayPerFile'
    BY <1>0, <1>11, CloseOnDay DEF CloseExits
  <2> QED
    BY <1>0, <1>11, <2>1, DieOnDay DEF CloseExits
<1>12. CASE Update
  BY <1>0, <1>12
  DEF Update, SignalAllowed, OneDayInMemory, OneDayPerFile, Saved
<1>13. CASE UpdateBadConfig
  BY <1>0, <1>13, DieOnDay DEF UpdateBadConfig, OneDayPerFile, Saved
<1>14. CASE OpenUpdate
  <2>1. PICK t \in hup : OpenExport("hup", now.day, t)
    BY <1>14 DEF OpenUpdate
  <2>2. (\A w \in writers' : OnDay(w.tab, w.day)) /\ OneDayPerFile'
    BY <1>0, <1>a, <2>1, OpenOnDay DEF TypeOK
  <2> QED
    BY <1>0, <1>14, <2>2 DEF OpenUpdate, OneDayInMemory
<1>15. CASE CloseUpdate
  <2>1. PICK w \in writers : CloseExport(w) /\ writers' = writers \ {w}
    BY <1>15 DEF CloseUpdate
  <2>2. OneDayPerFile'
    BY <1>0, <2>1, CloseOnDay
  <2> QED
    BY <1>0, <1>15, <2>1, <2>2 DEF CloseUpdate, OneDayInMemory
<1>16. CASE Kill
  BY <1>0, <1>16, DieOnDay DEF Kill, OneDayPerFile, Saved
<1>17. CASE KillChild
  BY <1>0, <1>17 DEF KillChild, OneDayInMemory, OneDayPerFile, Saved
<1>18. CASE UNCHANGED vars
  BY <1>0, <1>18 DEF vars, OneDayInMemory, OneDayPerFile, Saved
<1> QED
  BY <1>1, <1>2, <1>3, <1>4, <1>5, <1>6, <1>7, <1>8, <1>9, <1>10, <1>11,
     <1>12, <1>13, <1>14, <1>15, <1>16, <1>17, <1>18 DEF Next

\* With a datagram in every hour, no skipped hour and signals kept away from
\* midnight, every file of the data directory holds one day's traffic,
\* through any number of rollovers, restarts and crashes.
THEOREM FilesHoldOneDay ==
    ASSUME Skipped = {}, HourlyTraffic, CalmSignals
    PROVE  Spec => []OneDayPerFile
<1>1. DayInv => OneDayPerFile
  BY DEF DayInv
<1> QED
  BY <1>1, DayInit, DayNext, PTL DEF Spec

\* Under the same conditions, what the daemon counts into is one day's.
THEOREM MemoryHoldsOneDay ==
    ASSUME Skipped = {}, HourlyTraffic, CalmSignals
    PROVE  Spec => []OneDayInMemory
<1>1. DayInv => OneDayInMemory
  BY DEF DayInv
<1> QED
  BY <1>1, DayInit, DayNext, PTL DEF Spec

-----------------------------------------------------------------------------
(* TornInv: whatever happens, counters disagree only about torn flows.      *)

\* A flow that is being added is, for each counter, still to be added or added;
\* while main() saves and clears the table, it is still to be added everywhere.
InFlight ==
    \A a \in todo : \A c \in Counter :
        \/ <<c, a[2]>> \in todo
        \/ a[2] \in ipTable[c] /\ pc \notin {"rollover", "clear"}

TornInv ==
    /\ ClockInv
    /\ ImbalanceIsTorn
    /\ pc \in {"down", "import"} => ipTable = Empty /\ todo = {}
    /\ InFlight
    /\ \A w \in writers : Imbalance(w.tab) \subseteq torn
    /\ \A t \in hup : Imbalance(t) \subseteq torn

TornFiles == \A d \in Day : \A t \in Saved(d) : Imbalance(t) \subseteq torn

\* No counter of a cleared table disagrees with another.
LEMMA EmptyBalanced == Imbalance(Empty) = {}
  BY DEF Imbalance, Empty

\* gzopen("wb") of a table that disagrees about torn flows only.
LEMMA OpenTorn ==
    ASSUME TypeOK, TornFiles, \A w \in writers : Imbalance(w.tab) \subseteq torn,
           NEW who, NEW d \in Day, NEW tab \in Table,
           OpenExport(who, d, tab),
           torn \subseteq torn', Imbalance(tab) \subseteq torn'
    PROVE  /\ \A w \in writers' : Imbalance(w.tab) \subseteq torn'
           /\ TornFiles'
<1>1. \A w \in writers' : Imbalance(w.tab) \subseteq torn'
  BY DEF OpenExport
<1>2. ASSUME NEW e \in Day, NEW t \in Saved(e)'
      PROVE  Imbalance(t) \subseteq torn'
  <2>1. CASE e = d
    <3>1. \E w \in writers' : t = w.tab
      BY <1>2, <2>1 DEF OpenExport, Saved, TypeOK
    <3> QED
      BY <3>1, <1>1
  <2>2. CASE e # d
    <3>1. t \in Saved(e)
      BY <1>2, <2>2 DEF OpenExport, Saved, TypeOK
    <3> QED
      BY <3>1 DEF TornFiles
  <2> QED
    BY <2>1, <2>2
<1>3. \A e \in Day : \A t \in Saved(e)' : Imbalance(t) \subseteq torn'
  BY <1>2
<1> QED
  BY <1>1, <1>3 DEF TornFiles, Imbalance

\* gzclose leaves one of the tables that were written, or changes nothing.
LEMMA CloseTorn ==
    ASSUME TypeOK, TornFiles, NEW w \in writers, CloseExport(w),
           Imbalance(w.tab) \subseteq torn, torn' = torn
    PROVE  TornFiles'
<1>1. ASSUME NEW e \in Day, NEW t \in Saved(e)'
      PROVE  Imbalance(t) \subseteq torn
  <2>1. t = w.tab \/ t \in Saved(e)
    BY <1>1 DEF CloseExport, Saved, TypeOK
  <2> QED
    BY <2>1 DEF TornFiles
<1>2. \A e \in Day : \A t \in Saved(e)' : Imbalance(t) \subseteq torn'
  BY <1>1
<1> QED
  BY <1>2 DEF TornFiles, Imbalance

\* The end of the daemon leaves nothing half inserted.
LEMMA DieTorn ==
    ASSUME Die, \A w \in writers : Imbalance(w.tab) \subseteq torn
    PROVE  /\ pc' = "down" /\ ipTable' = Empty /\ todo' = {}
           /\ Imbalance(ipTable') = {} /\ InFlight'
           /\ \A w \in writers' : Imbalance(w.tab) \subseteq torn
  BY EmptyBalanced DEF Die, InFlight

\* One += of an insertion: once the last is made, the counters agree again.
LEMMA AddTorn ==
    ASSUME TornInv, Add
    PROVE  /\ Imbalance(ipTable') \subseteq torn \cup {b[2] : b \in todo'}
           /\ InFlight'
<1>1. PICK a \in todo :
        /\ ipTable' = [ipTable EXCEPT ![a[1]] = @ \cup {a[2]}]
        /\ todo' = todo \ {a}
  BY DEF Add
<1>2. /\ ipTable \in Table /\ todo \subseteq Counter \X Flow
      /\ pc = "loop" /\ pc' = pc /\ InFlight
      /\ Imbalance(ipTable) \subseteq torn \cup {b[2] : b \in todo}
  BY DEF TornInv, ClockInv, TypeOK, ImbalanceIsTorn, Add
<1>3. a[1] \in Counter /\ a[2] \in Flow /\ a = <<a[1], a[2]>>
  BY <1>1, <1>2
<1>4. \A c \in Counter :
        ipTable'[c] = IF c = a[1] THEN ipTable[c] \cup {a[2]} ELSE ipTable[c]
  BY <1>1, <1>2 DEF Table
<1>5. InFlight'
  <2> SUFFICES ASSUME NEW b \in todo', NEW c \in Counter, <<c, b[2]>> \notin todo'
               PROVE  b[2] \in ipTable'[c]
    BY <1>2 DEF InFlight
  <2>1. CASE <<c, b[2]>> = a
    BY <2>1, <1>3, <1>4
  <2>2. CASE <<c, b[2]>> # a
    BY <2>2, <1>1, <1>2, <1>4 DEF InFlight
  <2> QED
    BY <2>1, <2>2
<1>6. ASSUME NEW f \in Imbalance(ipTable'), f \notin torn
      PROVE  \E b \in todo' : f = b[2]
  <2>1. PICK c1 \in Counter, c2 \in Counter : f \in ipTable'[c1] /\ f \notin ipTable'[c2]
    BY <1>6 DEF Imbalance
  <2>2. f \in Flow
    BY <1>6 DEF Imbalance
  <2>3. CASE f = a[2]
    <3>1. <<c2, f>> \in todo
      BY <2>1, <2>3, <1>2, <1>3, <1>4 DEF InFlight
    <3>2. c2 # a[1]
      BY <2>1, <2>3, <1>4
    <3>3. <<c2, f>> # a
      BY <3>2
    <3> QED
      BY <3>1, <3>3, <1>1
  <2>4. CASE f # a[2]
    <3>1. f \in Imbalance(ipTable)
      <4>1. f \in ipTable[c1] /\ f \notin ipTable[c2]
        BY <2>1, <2>4, <1>4
      <4> QED
        BY <4>1, <2>2 DEF Imbalance
    <3>2. PICK b \in todo : f = b[2]
      BY <3>1, <1>2, <1>6
    <3> QED
      BY <3>2, <2>4, <1>1
  <2> QED
    BY <2>3, <2>4
<1> QED
  BY <1>5, <1>6

\* Nothing is half inserted before the daemon is started.
LEMMA TornInit == Init => TornInv
  BY ClockInit, EmptyBalanced DEF Init, TornInv, ImbalanceIsTorn, InFlight, Saved

\* No step makes counters disagree about a flow that nothing tore.
LEMMA TornNext == TornInv /\ [Next]_vars => TornInv'
<1> SUFFICES ASSUME TornInv, [Next]_vars PROVE TornInv'
  OBVIOUS
<1>0. /\ ClockInv' /\ TypeOK
      /\ ipTable \in Table /\ todo \subseteq Counter \X Flow
      /\ localtm.day \in Day /\ now.day \in Day /\ TornFiles /\ InFlight
      /\ Imbalance(ipTable) \subseteq torn \cup {a[2] : a \in todo}
      /\ \A w \in writers : Imbalance(w.tab) \subseteq torn
      /\ \A t \in hup : Imbalance(t) \subseteq torn
      /\ pc \in {"down", "import"} => ipTable = Empty /\ todo = {}
  BY ClockNext DEF TornInv, ClockInv, TypeOK, Stamp, ImbalanceIsTorn, TornFiles
\* What is left to show of a step.
<1> SUFFICES /\ TornFiles'
             /\ Imbalance(ipTable') \subseteq torn' \cup {a[2] : a \in todo'}
             /\ pc' \in {"down", "import"} => ipTable' = Empty /\ todo' = {}
             /\ InFlight'
             /\ \A w \in writers' : Imbalance(w.tab) \subseteq torn'
             /\ \A t \in hup' : Imbalance(t) \subseteq torn'
  BY <1>0 DEF TornInv, ImbalanceIsTorn, TornFiles, Imbalance
<1>1. CASE Tick
  BY <1>0, <1>1 DEF Tick, TornFiles, Saved, InFlight
<1>2. CASE Start
  BY <1>0, <1>2 DEF Start, TornFiles, Saved, InFlight
<1>3. CASE Import
  <2>1. torn \subseteq torn' /\ Imbalance(ipTable') \subseteq torn'
    <3>1. CASE UNCHANGED <<ipTable, torn>>
      BY <1>0, <1>3, <3>1, EmptyBalanced DEF Import
    <3>2. CASE ipTable' \in Saved(localtm.day) /\ UNCHANGED torn
      BY <1>0, <3>2 DEF TornFiles
    <3>3. CASE torn' = torn \cup Imbalance(ipTable')
      BY <3>3
    <3> QED
      BY <1>3, <3>1, <3>2, <3>3 DEF Import
  <2>2. todo' = {} /\ TornFiles' /\ InFlight'
    BY <1>0, <1>3, <2>1 DEF Import, TornFiles, Saved, InFlight
  <2> QED
    BY <1>0, <1>3, <2>1, <2>2 DEF Import
<1>4. CASE ImportDiep
  BY <1>0, <1>4, DieTorn DEF ImportDiep, TornFiles, Saved
<1>5. CASE Recv
  <2>1. /\ pc = "loop" /\ todo = {} /\ pc' \in {"loop", "rollover"}
        /\ UNCHANGED <<ipTable, hup, torn>>
        /\ \E f : todo' = Counter \X {f} \/ todo' = {}
    BY <1>5 DEF Recv, Receive, Additions
  <2>2. InFlight'
    BY <2>1 DEF InFlight
  <2>3. Imbalance(ipTable) \subseteq torn
    BY <1>0, <2>1
  <2>4. TornFiles' /\ \A w \in writers' : Imbalance(w.tab) \subseteq torn'
    <3>1. CASE Midnight
      <4>1. OpenExport("main", Yesterday, ipTable) /\ Yesterday \in Day
        BY <1>5, <2>1, <3>1, MidnightPassed DEF Recv, TornInv
      <4> QED
        BY <1>0, <2>1, <2>3, <4>1, OpenTorn
    <3>2. CASE ~Midnight
      BY <1>0, <1>5, <2>1, <3>2 DEF Recv, TornFiles, Saved
    <3> QED
      BY <3>1, <3>2
  <2> QED
    BY <1>0, <2>1, <2>2, <2>3, <2>4
<1>6. CASE RecvDiep
  BY <1>0, <1>6, DieTorn DEF RecvDiep, TornFiles, Saved
<1>7. CASE CloseRollover
  <2>1. PICK w \in writers : CloseExport(w) /\ writers' = writers \ {w}
    BY <1>7 DEF CloseRollover
  <2>2. TornFiles'
    BY <1>0, <1>7, <2>1, CloseTorn DEF CloseRollover
  <2> QED
    BY <1>0, <1>7, <2>1, <2>2 DEF CloseRollover, InFlight
<1>8. CASE Clear
  BY <1>0, <1>8, EmptyBalanced DEF Clear, TornFiles, Saved, InFlight
<1>9. CASE Add
  BY <1>0, <1>9, AddTorn DEF Add, TornFiles, Saved
<1>10. CASE Exits
  <2>1. OpenExport("exits", localtm.day, ipTable) /\ torn' = torn \cup Imbalance(ipTable)
    BY <1>10 DEF Exits
  <2>2. TornFiles' /\ \A w \in writers' : Imbalance(w.tab) \subseteq torn'
    BY <1>0, <2>1, OpenTorn
  <2> QED
    BY <1>0, <1>10, <2>1, <2>2 DEF Exits, InFlight
<1>11. CASE CloseExits
  <2>1. TornFiles'
    BY <1>0, <1>11, CloseTorn DEF CloseExits
  <2> QED
    BY <1>0, <1>11, <2>1, DieTorn DEF CloseExits
<1>12. CASE Update
  BY <1>0, <1>12 DEF Update, TornFiles, Saved, InFlight, Alive
<1>13. CASE UpdateBadConfig
  BY <1>0, <1>13, DieTorn DEF UpdateBadConfig, TornFiles, Saved
<1>14. CASE OpenUpdate
  <2>1. PICK t \in hup : OpenExport("hup", now.day, t)
    BY <1>14 DEF OpenUpdate
  <2>2. t \in Table /\ torn' = torn
    BY <1>0, <1>14 DEF OpenUpdate, TypeOK
  <2>3. TornFiles' /\ \A w \in writers' : Imbalance(w.tab) \subseteq torn'
    BY <1>0, <2>1, <2>2, OpenTorn
  <2> QED
    BY <1>0, <1>14, <2>2, <2>3 DEF OpenUpdate, InFlight
<1>15. CASE CloseUpdate
  <2>1. PICK w \in writers : CloseExport(w) /\ writers' = writers \ {w}
    BY <1>15 DEF CloseUpdate
  <2>2. TornFiles'
    BY <1>0, <1>15, <2>1, CloseTorn DEF CloseUpdate
  <2> QED
    BY <1>0, <1>15, <2>1, <2>2 DEF CloseUpdate, InFlight
<1>16. CASE Kill
  BY <1>0, <1>16, DieTorn DEF Kill, TornFiles, Saved
<1>17. CASE KillChild
  BY <1>0, <1>17 DEF KillChild, TornFiles, Saved, InFlight
<1>18. CASE UNCHANGED vars
  BY <1>0, <1>18 DEF vars, TornFiles, Saved, InFlight
<1> QED
  BY <1>1, <1>2, <1>3, <1>4, <1>5, <1>6, <1>7, <1>8, <1>9, <1>10, <1>11,
     <1>12, <1>13, <1>14, <1>15, <1>16, <1>17, <1>18 DEF Next

\* Whatever signals, crashes and disk errors happen, and at whatever byte a file
\* is cut: hourly counters and totals, in memory and in every file, disagree only
\* about flows whose insertion a signal interrupted and about those of the entry
\* in which an imported file ended.
THEOREM OnlyTornDisagree == Spec => []ImbalanceIsTorn
<1>1. TornInv => ImbalanceIsTorn
  BY DEF TornInv
<1> QED
  BY <1>1, TornInit, TornNext, PTL DEF Spec
=============================================================================
