---------------------------- MODULE LedgerProofs ----------------------------
(***************************************************************************)
(* DayStore implements DayLedger, for any number of days, hours, flows and *)
(* restarts: with traffic in every hour, signals kept away from midnight   *)
(* and from each other, and a disk that works.  On top of DayInv, the      *)
(* invariant says who may be writing what: at most one export at a time,   *)
(* of the table in memory if it is the daemon's own.                       *)
(***************************************************************************)
EXTENDS DayStoreProofs

Calm == Skipped = {} /\ HourlyTraffic /\ CalmSignals /\ DiskOK /\ Counter # {}

-----------------------------------------------------------------------------
(* The invariant *)

\* There is at most one export, and its file is cut.
OneExport ==
    /\ \A v, w \in writers : v = w
    /\ hup = {} \/ writers = {}
    /\ \A w \in writers : files[w.day] = {Corrupt, w.tab}
    /\ Exporting /\ Alive => now.day = localtm.day

\* Whose export it is tells where the daemon is and what is written.
ExportFits ==
    \A w \in writers :
       /\ w.who = "hup" => w.day = now.day /\ pc \notin {"rollover", "clear", "exits"}
       /\ w.who = "main" => /\ pc = "rollover"
                            /\ w.day = localtm.day - 1 /\ w.tab = ipTable
       /\ w.who = "exits" => /\ pc = "exits"
                             /\ w.day = localtm.day /\ w.tab = ipTable

\* The rollover is over before the next day is, and saves before it clears.
RolloverFits ==
    /\ pc \in {"rollover", "clear", "exits"} => hup = {}
    /\ pc \in {"rollover", "clear"} =>
         /\ localtm.hour = 0 /\ localtm.day = now.day
         /\ localtm.day - 1 \in Day
    /\ pc = "clear" => writers = {} /\ files[localtm.day - 1] = {ipTable}

\* A file that is not cut holds one table.
FilesWhole == \A d \in Day : Corrupt \in files[d] \/ \A t, u \in files[d] : t = u

LedgerInv == DayInv /\ OneExport /\ ExportFits /\ RolloverFits /\ FilesWhole

-----------------------------------------------------------------------------
(* The invariant is inductive *)

\* What a calm operator and the datagrams of every hour leave of the clock: a
\* tick is to the next hour, from the hour of the last datagram.
LEMMA CalmTick ==
    ASSUME Calm, DayInv, RolloverFits, Tick
    PROVE  /\ Alive => localtm = now
           /\ now'.day = now.day \/ (now'.day = now.day + 1 /\ ~Exporting)
           /\ pc \in {"rollover", "clear"} => now'.day = now.day
<1>1. /\ now' = HourAfter(now) /\ (Alive => localtm = now)
      /\ (now'.day # now.day => ~Exporting)
  BY DEF Calm, Tick, Later
<1>2. /\ now \in Stamp /\ now.day \in Nat /\ now.hour \in Nat
      /\ HoursPerDay \in Nat /\ HoursPerDay > 1
  BY DayStoreAssumption DEF DayInv, ClockInv, TypeOK, Stamp, Day, Hour
<1>3. now'.day \in {now.day, now.day + 1}
      /\ (now'.day = now.day + 1 => now.hour = HoursPerDay - 1)
  BY <1>1, <1>2 DEF HourAfter
<1>4. pc \in {"rollover", "clear"} => localtm.hour = 0 /\ localtm = now
  BY <1>1 DEF RolloverFits, Alive
<1>5. now'.day # now.day => now'.day = now.day + 1
  BY <1>3
<1> QED
  BY <1>1, <1>2, <1>3, <1>4, <1>5

\* Opening an export where there is none cuts its file and no other.
LEMMA OpensAlone ==
    ASSUME TypeOK, writers = {}, NEW who, NEW d \in Day, NEW tab,
           OpenExport(who, d, tab)
    PROVE  /\ writers' = {[who |-> who, day |-> d, tab |-> tab]}
           /\ files' = [files EXCEPT ![d] = {Corrupt, tab}]
<1>1. writers' = {[who |-> who, day |-> d, tab |-> tab]}
  BY DEF OpenExport
<1>2. {w.tab : w \in {x \in writers' : x.day = d}} = {tab}
  <2> DEFINE r == [who |-> who, day |-> d, tab |-> tab]
  <2>1. r.day = d /\ r.tab = tab /\ writers' = {r}
    BY <1>1
  <2> HIDE DEF r
  <2>2. {x \in writers' : x.day = d} = {r}
    BY <2>1
  <2> QED
    BY <2>1, <2>2
<1> QED
  BY <1>1, <1>2 DEF OpenExport

\* An export that is alone on its file and meets no error is saved whole.
LEMMA ClosesWhole ==
    ASSUME Calm, OneExport, NEW w \in writers, CloseExport(w)
    PROVE  /\ files' = [files EXCEPT ![w.day] = {w.tab}]
           /\ writers = {w}
<1>1. AloneOn(w) /\ DiskOK /\ files[w.day] = {Corrupt, w.tab}
  BY DEF OneExport, AloneOn, Calm
<1> QED
  BY <1>1 DEF CloseExport, OneExport

\* The daemon's end leaves the child's export, if there is one.
LEMMA DieLedger ==
    ASSUME LedgerInv, Die, UNCHANGED <<now, hup, files>>
    PROVE  OneExport' /\ ExportFits' /\ RolloverFits' /\ FilesWhole'
<1>1. /\ pc' = "down" /\ writers' = {w \in writers : w.who = "hup"}
      /\ now' = now /\ hup' = hup /\ files' = files
  BY DEF Die, ByChild
<1>2. OneExport'
  BY <1>1 DEF LedgerInv, OneExport, Exporting, Alive
<1>3. ExportFits'
  BY <1>1 DEF LedgerInv, ExportFits
<1>4. RolloverFits' /\ FilesWhole'
  BY <1>1 DEF LedgerInv, RolloverFits, FilesWhole
<1> QED
  BY <1>2, <1>3, <1>4

\* Before the daemon is started nothing is written.
LEMMA LedgerInvInit == Init => LedgerInv
<1> SUFFICES ASSUME Init PROVE LedgerInv
  OBVIOUS
<1>1. OneExport /\ ExportFits /\ RolloverFits /\ FilesWhole
  BY DEF Init, OneExport, ExportFits, RolloverFits, FilesWhole, Exporting, Alive
<1> QED
  BY <1>1, DayInit DEF LedgerInv

\* Opening an export with nobody else at work keeps files and exports in order.
LEMMA OpenLedger ==
    ASSUME LedgerInv, NEW who \in {"main", "exits", "hup"}, NEW d \in Day,
           writers = {}, hup' = {}, NEW tab \in Table,
           OpenExport(who, d, tab), now'.day = localtm'.day \/ ~Alive'
    PROVE  /\ OneExport' /\ FilesWhole'
           /\ writers' = {[who |-> who, day |-> d, tab |-> tab]}
<1>1. TypeOK
  BY DEF LedgerInv, DayInv, ClockInv
<1>2. /\ writers' = {[who |-> who, day |-> d, tab |-> tab]}
      /\ files' = [files EXCEPT ![d] = {Corrupt, tab}]
  BY <1>1, OpensAlone
<1>3. files \in [Day -> SUBSET (Table \cup {Corrupt})]
  BY <1>1 DEF TypeOK
<1>4. OneExport'
  BY <1>2, <1>3 DEF OneExport, Alive
<1>5. FilesWhole'
  BY <1>2, <1>3 DEF LedgerInv, FilesWhole
<1> QED
  BY <1>2, <1>4, <1>5

\* Closing the one export keeps files and exports in order.
LEMMA CloseLedger ==
    ASSUME LedgerInv, Calm, NEW w \in writers, CloseExport(w), hup' = hup,
           writers' = {}
    PROVE  /\ OneExport' /\ ExportFits' /\ FilesWhole'
           /\ files' = [files EXCEPT ![w.day] = {w.tab}]
           /\ w.day \in Day /\ hup = {}
<1>1. TypeOK
  BY DEF LedgerInv, DayInv, ClockInv
<1>2. /\ files' = [files EXCEPT ![w.day] = {w.tab}]
      /\ w.day \in Day /\ hup = {}
      /\ files \in [Day -> SUBSET (Table \cup {Corrupt})]
  BY <1>1, ClosesWhole DEF LedgerInv, OneExport, TypeOK, Writer
<1>3. OneExport' /\ ExportFits'
  BY <1>2 DEF OneExport, ExportFits, Exporting
<1>4. FilesWhole'
  BY <1>2 DEF LedgerInv, FilesWhole
<1> QED
  BY <1>2, <1>3, <1>4

\* With calm surroundings, every step keeps the exports in order.
LEMMA LedgerInvNext ==
    ASSUME Calm
    PROVE  LedgerInv /\ [Next]_vars => LedgerInv'
<1> SUFFICES ASSUME LedgerInv, [Next]_vars PROVE LedgerInv'
  OBVIOUS
<1>0. DayInv /\ DayInv' /\ TypeOK /\ TypeOK' /\ ClockInv
  BY DayNext DEF LedgerInv, Calm, DayInv, ClockInv
<1>a. /\ now \in Stamp /\ now.day \in Day /\ localtm \in Stamp
      /\ localtm.day \in Day /\ ipTable \in Table
  BY <1>0 DEF TypeOK, Stamp
<1> USE DEF LedgerInv
<1>1. CASE Tick
  <2>1. /\ UNCHANGED <<pc, localtm, ipTable, hup, writers, files>>
        /\ Alive => localtm = now
        /\ Exporting => now'.day = now.day
        /\ pc \in {"rollover", "clear"} => now'.day = now.day
    <3>1. now.day + 1 # now.day
      BY <1>a, DayStoreAssumption DEF Day
    <3> QED
      BY <1>0, <1>1, <3>1, CalmTick DEF Tick
  <2>2. OneExport' /\ FilesWhole'
    BY <2>1 DEF OneExport, FilesWhole, Exporting, Alive
  <2>3. ExportFits' /\ RolloverFits'
    BY <2>1 DEF ExportFits, RolloverFits, Exporting
  <2> QED
    BY <1>0, <2>2, <2>3
<1>2. CASE Start
  BY <1>0, <1>2
  DEF Start, OneExport, ExportFits, RolloverFits, FilesWhole, Exporting, Alive
<1>3. CASE Import
  BY <1>0, <1>3
  DEF Import, OneExport, ExportFits, RolloverFits, FilesWhole, Exporting, Alive
<1>4. CASE ImportDiep
  BY <1>0, <1>4, DieLedger DEF ImportDiep
<1>5. CASE Recv
  <2>1. pc = "loop" /\ localtm' = now /\ now' = now /\ hup' = hup /\ ipTable' = ipTable
    BY <1>5 DEF Recv, Receive
  <2>2. /\ Midnight => localtm.day = now.day - 1
        /\ ~Midnight => localtm.day = now.day
    BY <1>0, <2>1, MidnightOrSameDay DEF Calm, DayInv, Alive
  <2>3. CASE Midnight
    <3>1. now.day \in Nat /\ localtm.day \in Nat /\ Yesterday = now.day - 1
      BY <1>a, <1>0, DayStoreAssumption DEF Day, Yesterday, Calm
    <3>2. localtm.day # now.day /\ Yesterday = localtm.day
      BY <2>2, <2>3, <3>1
    <3>3. hup = {} /\ writers = {}
      BY <2>1, <3>2 DEF OneExport, Exporting, Alive
    <3>4. OpenExport("main", localtm.day, ipTable) /\ pc' = "rollover"
      BY <1>5, <2>3, <3>2 DEF Recv
    <3>5. OneExport' /\ FilesWhole'
          /\ writers' = {[who |-> "main", day |-> localtm.day, tab |-> ipTable]}
      BY <1>a, <2>1, <3>3, <3>4, OpenLedger
    <3>6. ExportFits'
      BY <2>1, <3>1, <3>2, <3>4, <3>5 DEF ExportFits
    <3>7. localtm'.hour = 0 /\ localtm'.day = now'.day /\ localtm'.day - 1 \in Day
      BY <1>a, <2>1, <2>3, <3>1, <3>2 DEF Midnight
    <3>8. RolloverFits'
      BY <2>1, <3>3, <3>4, <3>7 DEF RolloverFits
    <3> QED
      BY <1>0, <3>5, <3>6, <3>8
  <2>4. CASE ~Midnight
    BY <1>0, <1>5, <2>1, <2>2, <2>4
    DEF Recv, OneExport, ExportFits, RolloverFits, FilesWhole, Exporting, Alive
  <2> QED
    BY <2>3, <2>4
<1>6. CASE RecvDiep
  BY <1>6 DEF RecvDiep, Calm
<1>7. CASE CloseRollover
  <2>1. PICK w \in writers :
          /\ w.who = "main" /\ CloseExport(w) /\ writers' = writers \ {w}
    BY <1>7 DEF CloseRollover
  <2>2. /\ pc = "rollover" /\ pc' = "clear"
        /\ UNCHANGED <<now, localtm, ipTable, hup>>
    BY <1>7 DEF CloseRollover
  <2>3. w.day = localtm.day - 1 /\ w.tab = ipTable /\ writers' = {}
    BY <2>1 DEF ExportFits, OneExport
  <2>4. /\ OneExport' /\ ExportFits' /\ FilesWhole'
        /\ files' = [files EXCEPT ![w.day] = {w.tab}] /\ w.day \in Day /\ hup = {}
    BY <2>1, <2>2, <2>3, CloseLedger
  <2>5. files'[localtm.day - 1] = {ipTable}
    BY <1>0, <2>3, <2>4 DEF TypeOK
  <2>6. RolloverFits'
    BY <2>2, <2>3, <2>4, <2>5 DEF RolloverFits
  <2> QED
    BY <1>0, <2>4, <2>6
<1>8. CASE Clear
  BY <1>0, <1>8
  DEF Clear, OneExport, ExportFits, RolloverFits, FilesWhole, Exporting, Alive
<1>9. CASE Add
  BY <1>0, <1>9
  DEF Add, OneExport, ExportFits, RolloverFits, FilesWhole, Exporting, Alive
<1>10. CASE Exits
  <2>1. /\ pc = "loop" /\ hup = {} /\ writers = {} /\ now.day = localtm.day
        /\ pc' = "exits" /\ OpenExport("exits", localtm.day, ipTable)
        /\ UNCHANGED <<now, localtm, ipTable, hup>>
    BY <1>10 DEF Exits, SignalAllowed, Calm, Exporting
  <2>2. OneExport' /\ FilesWhole'
        /\ writers' = {[who |-> "exits", day |-> localtm.day, tab |-> ipTable]}
    BY <1>a, <2>1, OpenLedger
  <2>3. ExportFits' /\ RolloverFits'
    BY <2>1, <2>2 DEF ExportFits, RolloverFits
  <2> QED
    BY <1>0, <2>2, <2>3
<1>11. CASE CloseExits
  <2>1. PICK w \in writers : w.who = "exits" /\ CloseExport(w)
    BY <1>11 DEF CloseExits
  <2>2. pc' = "down" /\ now' = now /\ hup' = hup /\ writers' = {}
    BY <1>11, <2>1 DEF CloseExits, Die, ByChild, OneExport
  <2>3. OneExport' /\ ExportFits' /\ FilesWhole'
    BY <2>1, <2>2, CloseLedger
  <2>4. RolloverFits'
    BY <2>2 DEF RolloverFits
  <2> QED
    BY <1>0, <2>3, <2>4
<1>12. CASE Update
  BY <1>0, <1>12
  DEF Update, SignalAllowed, Calm, OneExport, ExportFits, RolloverFits, FilesWhole,
      Exporting, Alive
<1>13. CASE UpdateBadConfig
  BY <1>0, <1>13, DieLedger DEF UpdateBadConfig
<1>14. CASE OpenUpdate
  <2>1. PICK t \in hup : OpenExport("hup", now.day, t)
    BY <1>14 DEF OpenUpdate
  <2>2. /\ hup' = {} /\ UNCHANGED <<now, pc, localtm, ipTable>>
        /\ t \in Table /\ writers = {}
    BY <1>0, <1>14, <2>1 DEF OpenUpdate, TypeOK, OneExport
  <2>3. now'.day = localtm'.day \/ ~Alive'
    BY <2>1, <2>2 DEF OneExport, Exporting, Alive
  <2>4. OneExport' /\ FilesWhole'
        /\ writers' = {[who |-> "hup", day |-> now.day, tab |-> t]}
    BY <1>a, <2>1, <2>2, <2>3, OpenLedger
  <2>5. pc \notin {"rollover", "clear", "exits"}
    BY <2>1 DEF RolloverFits
  <2>6. ExportFits' /\ RolloverFits'
    BY <2>2, <2>4, <2>5 DEF ExportFits, RolloverFits
  <2> QED
    BY <1>0, <2>4, <2>6
<1>15. CASE CloseUpdate
  <2>1. PICK w \in writers :
          w.who = "hup" /\ CloseExport(w) /\ writers' = writers \ {w}
    BY <1>15 DEF CloseUpdate, ByChild
  <2>2. /\ UNCHANGED <<now, pc, localtm, ipTable, hup>> /\ writers' = {}
        /\ pc \notin {"rollover", "clear", "exits"}
    BY <1>15, <2>1 DEF CloseUpdate, OneExport, ExportFits
  <2>3. OneExport' /\ ExportFits' /\ FilesWhole'
    BY <2>1, <2>2, CloseLedger
  <2>4. RolloverFits'
    BY <2>2 DEF RolloverFits
  <2> QED
    BY <1>0, <2>3, <2>4
<1>16. CASE Kill
  BY <1>0, <1>16, DieLedger DEF Kill
<1>17. CASE KillChild
  BY <1>0, <1>17
  DEF KillChild, ByChild, OneExport, ExportFits, RolloverFits, FilesWhole,
      Exporting, Alive
<1>18. CASE UNCHANGED vars
  BY <1>0, <1>18
  DEF vars, OneExport, ExportFits, RolloverFits, FilesWhole, Exporting, Alive
<1> QED
  BY <1>1, <1>2, <1>3, <1>4, <1>5, <1>6, <1>7, <1>8, <1>9, <1>10, <1>11,
     <1>12, <1>13, <1>14, <1>15, <1>16, <1>17, <1>18 DEF Next

\* Where the surroundings are calm, who writes what is always in order.
LEMMA LedgerInvariant ==
    ASSUME Calm
    PROVE  Spec => []LedgerInv
  BY LedgerInvInit, LedgerInvNext, PTL DEF Spec

-----------------------------------------------------------------------------
(* What leaves memory is on disk, and past days are final *)

\* The memset at midnight, the end of Exits and every other step but a crash
\* discard no flow that is not saved whole under its day.
THEOREM NothingIsDiscarded ==
    ASSUME Calm
    PROVE  Spec => NothingDiscarded
<1> DEFINE Kept == \A c \in Counter : \A f \in ipTable[c] :
                     f \in ipTable'[c] \/ files'[f.day] = {ipTable}
<1>1. ASSUME LedgerInv, [Next]_vars
      PROVE  Kill \/ UpdateBadConfig \/ Kept \/ UNCHANGED vars
  <2>0. TypeOK /\ DayInv /\ DiskOK
    BY <1>1 DEF LedgerInv, DayInv, ClockInv, Calm
  <2>1. CASE UNCHANGED ipTable
    BY <2>1
  <2>2. CASE ipTable = Empty
    BY <2>2 DEF Empty
  <2>3. CASE Import \/ ImportDiep
    <3>1. ipTable = Empty
      BY <2>0, <2>3 DEF Import, ImportDiep, DayInv
    <3> QED
      BY <3>1 DEF Empty
  <2>4. CASE Clear
    <3>1. files'[localtm.day - 1] = {ipTable} /\ OnDay(ipTable, localtm.day - 1)
      BY <1>1, <2>0, <2>4 DEF Clear, LedgerInv, RolloverFits, DayInv
    <3> QED
      BY <3>1 DEF OnDay
  <2>5. CASE Add
    BY <2>0, <2>5 DEF Add, TypeOK, Table
  <2>6. CASE CloseExits
    <3>1. PICK w \in writers : w.who = "exits" /\ CloseExport(w)
      BY <2>6 DEF CloseExits
    <3>2. /\ w.day = localtm.day /\ w.tab = ipTable /\ pc = "exits"
          /\ files' = [files EXCEPT ![w.day] = {w.tab}] /\ localtm.day \in Day
      BY <1>1, <2>0, <3>1, ClosesWhole DEF LedgerInv, ExportFits, TypeOK, Stamp
    <3>3. files'[localtm.day] = {ipTable} /\ OnDay(ipTable, localtm.day)
      BY <2>0, <3>2 DEF TypeOK, DayInv, OneDayInMemory
    <3> QED
      BY <3>3 DEF OnDay
  <2>7. CASE RecvDiep
    BY <2>0, <2>7 DEF RecvDiep
  <2>8. \/ UNCHANGED ipTable \/ Import \/ ImportDiep \/ Clear \/ Add
        \/ CloseExits \/ RecvDiep \/ Kill \/ UpdateBadConfig \/ UNCHANGED vars
    BY <1>1
    DEF Next, Tick, Start, Recv, CloseRollover, Exits, Update, OpenUpdate,
        CloseUpdate, KillChild
  <2> QED
    BY <2>1, <2>3, <2>4, <2>5, <2>6, <2>7, <2>8
<1>2. LedgerInv /\ [Next]_vars => [Kill \/ UpdateBadConfig \/ Kept]_vars
  BY <1>1
<1> QED
  BY <1>2, LedgerInvariant, PTL DEF Spec, NothingDiscarded

\* While the daemon counts for a day, nobody opens or closes the file of an
\* earlier one.
THEOREM PastIsSettled ==
    ASSUME Calm
    PROVE  Spec => PastDaysSettled
<1> DEFINE Settled == \A d \in Day : d < localtm.day => files'[d] = files[d]
<1>1. ASSUME LedgerInv, [Next]_vars, pc = "loop"
      PROVE  Settled
  <2>0. /\ TypeOK /\ DayInv /\ ClockInv /\ localtm.day \in Day /\ now.day \in Day
        /\ (Exporting => now.day = localtm.day)
    BY <1>1 DEF LedgerInv, DayInv, ClockInv, TypeOK, Stamp, OneExport, Alive
  <2>1. ASSUME NEW e \in Day, NEW new, files' = [files EXCEPT ![e] = new],
               e = localtm.day
        PROVE  Settled
    BY <2>0, <2>1, DayStoreAssumption DEF TypeOK, Day
  <2>2. CASE UNCHANGED files
    BY <2>2
  <2>3. CASE Recv
    <3>1. CASE Midnight
      <4>1. localtm.day = now.day - 1 /\ Yesterday = now.day - 1
        BY <1>1, <2>0, <3>1, MidnightOrSameDay
        DEF DayInv, Alive, Calm, Yesterday
      <4>2. OpenExport("main", Yesterday, ipTable)
        BY <2>3, <3>1 DEF Recv
      <4> QED
        BY <2>0, <2>1, <4>1, <4>2 DEF OpenExport
    <3>2. CASE ~Midnight
      BY <2>2, <2>3, <3>2 DEF Recv
    <3> QED
      BY <3>1, <3>2
  <2>4. CASE Exits
    BY <2>0, <2>1, <2>4 DEF Exits, OpenExport
  <2>5. CASE OpenUpdate
    <3>1. PICK t \in hup : OpenExport("hup", now.day, t)
      BY <2>5 DEF OpenUpdate
    <3>2. now.day = localtm.day
      BY <2>0, <3>1 DEF Exporting
    <3> QED
      BY <2>0, <2>1, <3>1, <3>2 DEF OpenExport
  <2>6. CASE CloseUpdate
    <3>1. PICK w \in writers : w.who = "hup" /\ CloseExport(w)
      BY <2>6 DEF CloseUpdate, ByChild
    <3>2. w.day = localtm.day /\ files' = [files EXCEPT ![w.day] = {w.tab}]
      BY <1>1, <2>0, <3>1, ClosesWhole DEF LedgerInv, ExportFits, Exporting
    <3> QED
      BY <2>0, <2>1, <3>2
  <2>7. CASE UNCHANGED vars
    BY <2>2, <2>7 DEF vars
  <2> QED
    BY <1>1, <2>2, <2>3, <2>4, <2>5, <2>6, <2>7
    DEF Next, Tick, Start, Import, ImportDiep, RecvDiep, CloseRollover, Clear,
        Add, CloseExits, Update, UpdateBadConfig, Kill, KillChild
<1>2. LedgerInv /\ [Next]_vars => [pc = "loop" => Settled]_vars
  BY <1>1
<1> QED
  BY <1>2, LedgerInvariant, PTL DEF Spec, PastDaysSettled

-----------------------------------------------------------------------------
(* What is saved is not overwritten by less *)

\* The days to come, and the day that the rollover begins.
Ahead(d) ==
    \/ d > now.day
    \/ Alive /\ d > localtm.day
    \/ pc \in {"rollover", "clear"} /\ d = localtm.day

\* They have no files.
BlankAhead == \A d \in Day : Ahead(d) => files[d] = {}

\* Memory has what the day's file has, and what the child has that will write it.
MemoryKeeps ==
    ~overlap =>
       /\ pc = "import" => ~Exporting
       /\ pc = "loop" => /\ Covers(ipTable, localtm.day)
                         /\ \A t \in hup : Within(t, ipTable)
                         /\ \A w \in writers : Within(w.tab, ipTable)
       /\ \A t \in hup : Covers(t, now.day)

GrowInv == LedgerInv /\ BlankAhead /\ MemoryKeeps

\* Before the daemon is started there are no files, no exports and no restart.
LEMMA GrowInit == Init => GrowInv
<1> SUFFICES ASSUME Init PROVE GrowInv
  OBVIOUS
<1>1. BlankAhead /\ MemoryKeeps
  BY DEF Init, BlankAhead, MemoryKeeps, Exporting
<1> QED
  BY <1>1, LedgerInvInit DEF GrowInv

\* What the clock and localtm are, while the surroundings are calm.
LEMMA DaysInOrder ==
    ASSUME LedgerInv
    PROVE  /\ TypeOK /\ now.day \in Day /\ localtm.day \in Day
           /\ now.day \in Nat /\ localtm.day \in Nat /\ localtm.day <= now.day
           /\ \A d \in Day : d \in Nat
<1>1. TypeOK /\ NotAfter(localtm, now)
  BY DEF LedgerInv, DayInv, ClockInv
<1>2. now.day \in Day /\ localtm.day \in Day
  BY <1>1 DEF TypeOK, Stamp
<1> QED
  BY <1>1, <1>2, DayStoreAssumption DEF NotAfter, Day

\* Writing to the file of a day that is not ahead leaves those ahead blank.
LEMMA BlankStays ==
    ASSUME TypeOK, BlankAhead, NEW d \in Day, NEW new,
           files' = [files EXCEPT ![d] = new], ~Ahead(d)',
           \A e \in Day : Ahead(e)' => Ahead(e)
    PROVE  BlankAhead'
<1>1. ASSUME NEW e \in Day, Ahead(e)'
      PROVE  files'[e] = {}
  <2>1. e # d /\ files[e] = {}
    BY <1>1 DEF BlankAhead
  <2> QED
    BY <2>1 DEF TypeOK
<1> QED
  BY <1>1 DEF BlankAhead

\* No day comes to lie ahead again.
LEMMA AheadShrinks ==
    ASSUME Calm, LedgerInv, [Next]_vars, NEW e \in Day, Ahead(e)'
    PROVE  Ahead(e)
<1>0. /\ DayInv /\ ClockInv /\ RolloverFits /\ TypeOK
      /\ now.day \in Nat /\ localtm.day \in Nat /\ localtm.day <= now.day /\ e \in Nat
  BY DaysInOrder DEF LedgerInv, DayInv
<1>1. CASE Tick
  <2>1. /\ now'.day = now.day \/ now'.day = now.day + 1
        /\ UNCHANGED <<pc, localtm>>
    BY <1>0, <1>1, CalmTick DEF Tick
  <2>2. e > now'.day => e > now.day
    BY <1>0, <2>1
  <2> QED
    BY <2>1, <2>2 DEF Ahead, Alive
<1>2. CASE Start
  <2>1. pc = "down" /\ pc' = "import" /\ localtm' = now /\ now' = now
    BY <1>2 DEF Start
  <2> QED
    BY <2>1 DEF Ahead
<1>3. CASE Recv
  <2>1. pc = "loop" /\ localtm' = now /\ now' = now /\ pc' \in {"loop", "rollover"}
    BY <1>3 DEF Recv, Receive
  <2>2. CASE Midnight
    <3>1. localtm.day < now.day
      BY <1>0, <2>1, <2>2, MidnightPassed
    <3>2. e >= now.day
      BY <1>0, <2>1 DEF Ahead
    <3>3. e > localtm.day
      BY <1>0, <3>1, <3>2
    <3> QED
      BY <2>1, <3>3 DEF Ahead, Alive
  <2>3. CASE ~Midnight
    <3>1. pc' = "loop"
      BY <1>3, <2>1, <2>3 DEF Recv
    <3> QED
      BY <2>1, <3>1 DEF Ahead, Alive
  <2> QED
    BY <2>2, <2>3
<1>4. CASE pc' = "down" /\ now' = now
  BY <1>4 DEF Ahead, Alive
<1>5. CASE UNCHANGED <<pc, now, localtm>>
  BY <1>5 DEF Ahead, Alive
<1>6. CASE Import \/ CloseRollover \/ Clear
  BY <1>6 DEF Import, CloseRollover, Clear, Ahead, Alive
<1>7. CASE Exits
  BY <1>7 DEF Exits, Ahead, Alive
<1>8. CASE ImportDiep \/ RecvDiep \/ CloseExits \/ UpdateBadConfig \/ Kill
  BY <1>4, <1>8 DEF ImportDiep, RecvDiep, CloseExits, UpdateBadConfig, Kill, Die
<1>9. CASE Add \/ Update \/ OpenUpdate \/ CloseUpdate \/ KillChild \/ UNCHANGED vars
  BY <1>5, <1>9 DEF Add, Update, OpenUpdate, CloseUpdate, KillChild, vars
<1> QED
  BY <1>1, <1>2, <1>3, <1>6, <1>7, <1>8, <1>9 DEF Next

\* Whoever writes a file, the files ahead stay blank.
LEMMA BlankNext ==
    ASSUME Calm, LedgerInv, BlankAhead, [Next]_vars
    PROVE  BlankAhead'
<1>0. /\ DayInv /\ ClockInv /\ TypeOK /\ OneExport /\ ExportFits /\ RolloverFits
      /\ now.day \in Day /\ localtm.day \in Day
      /\ now.day \in Nat /\ localtm.day \in Nat /\ localtm.day <= now.day
  BY DaysInOrder DEF LedgerInv, DayInv
<1>a. \A e \in Day : Ahead(e)' => Ahead(e)
  BY AheadShrinks
<1>1. ASSUME NEW d \in Day, NEW new, files' = [files EXCEPT ![d] = new], ~Ahead(d)'
      PROVE  BlankAhead'
  BY <1>0, <1>a, <1>1, BlankStays
<1>2. CASE UNCHANGED files
  BY <1>a, <1>2 DEF BlankAhead
<1>3. CASE Recv
  <2>1. CASE Midnight
    <3>1. /\ pc = "loop" /\ localtm' = now /\ now' = now
          /\ localtm.day = now.day - 1 /\ Yesterday = localtm.day
      BY <1>0, <1>3, <2>1, MidnightOrSameDay
      DEF Recv, Receive, Calm, DayInv, Alive, Yesterday
    <3>2. PICK d \in Day : d = localtm.day
      BY <1>0
    <3>3. OpenExport("main", d, ipTable)
      BY <1>3, <2>1, <3>1, <3>2 DEF Recv
    <3>4. ~Ahead(d)'
      BY <1>0, <3>1, <3>2 DEF Ahead
    <3> QED
      BY <1>1, <3>3, <3>4 DEF OpenExport
  <2>2. CASE ~Midnight
    BY <1>2, <1>3, <2>2 DEF Recv
  <2> QED
    BY <2>1, <2>2
<1>4. CASE CloseRollover
  <2>1. PICK w \in writers : w.who = "main" /\ CloseExport(w)
    BY <1>4 DEF CloseRollover
  <2>2. /\ w.day = localtm.day - 1 /\ w.day \in Day
        /\ files' = [files EXCEPT ![w.day] = {w.tab}]
        /\ UNCHANGED <<now, localtm>>
    BY <1>0, <1>4, <2>1, ClosesWhole DEF CloseRollover, ExportFits, TypeOK, Writer
  <2>3. ~Ahead(w.day)'
    BY <1>0, <2>2 DEF Ahead
  <2> QED
    BY <1>1, <2>2, <2>3
<1>5. CASE Exits
  <2>1. PICK d \in Day : d = localtm.day
    BY <1>0
  <2>2. /\ OpenExport("exits", d, ipTable) /\ pc' = "exits"
        /\ UNCHANGED <<now, localtm>>
    BY <1>5, <2>1 DEF Exits
  <2>3. ~Ahead(d)'
    BY <1>0, <2>1, <2>2 DEF Ahead
  <2> QED
    BY <1>1, <2>2, <2>3 DEF OpenExport
<1>6. CASE CloseExits
  <2>1. PICK w \in writers : w.who = "exits" /\ CloseExport(w)
    BY <1>6 DEF CloseExits
  <2>2. /\ w.day = localtm.day /\ files' = [files EXCEPT ![w.day] = {w.tab}]
        /\ pc' = "down" /\ now' = now
    BY <1>0, <1>6, <2>1, ClosesWhole DEF CloseExits, ExportFits, Die
  <2>3. ~Ahead(w.day)'
    BY <1>0, <2>2 DEF Ahead, Alive
  <2> QED
    BY <1>0, <1>1, <2>2, <2>3
<1>7. CASE OpenUpdate
  <2>1. PICK d \in Day : d = now.day
    BY <1>0
  <2>2. PICK t \in hup : OpenExport("hup", d, t)
    BY <1>7, <2>1 DEF OpenUpdate
  <2>3. ~Ahead(d)'
    BY <1>0, <1>7, <2>1, <2>2
    DEF OpenUpdate, OneExport, RolloverFits, Exporting, Ahead, Alive
  <2> QED
    BY <1>1, <2>2, <2>3 DEF OpenExport
<1>8. CASE CloseUpdate
  <2>1. PICK w \in writers : w.who = "hup" /\ CloseExport(w)
    BY <1>8 DEF CloseUpdate, ByChild
  <2>2. w.day = now.day /\ files' = [files EXCEPT ![w.day] = {w.tab}]
    BY <1>0, <2>1, ClosesWhole DEF ExportFits
  <2>3. ~Ahead(w.day)'
    BY <1>0, <1>8, <2>1, <2>2 DEF CloseUpdate, OneExport, ExportFits, Exporting, Ahead, Alive
  <2> QED
    BY <1>0, <1>1, <2>2, <2>3
<1> QED
  BY <1>2, <1>3, <1>4, <1>5, <1>6, <1>7, <1>8
  DEF Next, vars, Tick, Start, Import, ImportDiep, RecvDiep, Clear, Add, Update,
      UpdateBadConfig, Kill, KillChild

\* A table has what is in it, and nothing takes away from a table that is added to.
LEMMA WithinItself ==
    ASSUME NEW t
    PROVE  /\ Within(t, t)
           /\ \A s, u : Within(s, t) /\ Within(t, u) => Within(s, u)
  BY DEF Within

\* A calm daemon loses nothing from memory that a file, or the child, has.
LEMMA MemoryNext ==
    ASSUME Calm, GrowInv, LedgerInv', [Next]_vars
    PROVE  MemoryKeeps'
<1>0. /\ LedgerInv /\ DayInv /\ ClockInv /\ TypeOK /\ OneExport /\ ExportFits
      /\ RolloverFits /\ FilesWhole /\ BlankAhead /\ MemoryKeeps
      /\ now.day \in Day /\ localtm.day \in Day
      /\ now.day \in Nat /\ localtm.day \in Nat /\ localtm.day <= now.day
  BY DaysInOrder DEF GrowInv, LedgerInv, DayInv
<1>1. CASE Tick
  <2>1. /\ UNCHANGED <<pc, localtm, ipTable, hup, writers, files, overlap>>
        /\ Exporting => now'.day = now.day
    <3>1. now.day + 1 # now.day
      BY <1>0
    <3> QED
      BY <1>0, <1>1, <3>1, CalmTick DEF Tick
  <2> QED
    BY <1>0, <2>1 DEF MemoryKeeps, Covers, Exporting
<1>2. CASE Start
  BY <1>0, <1>2 DEF Start, MemoryKeeps, Covers, Exporting
<1>3. CASE Import
  <2>1. /\ pc = "import" /\ UNCHANGED <<now, localtm, hup, writers, files, overlap>>
        /\ pc' = "loop"
    BY <1>3 DEF Import
  <2>2. ASSUME ~overlap
        PROVE  Covers(ipTable', localtm.day) /\ hup = {} /\ writers = {}
    <3>1. hup = {} /\ writers = {}
      BY <1>0, <2>1, <2>2 DEF MemoryKeeps, Exporting
    <3>2. ASSUME Corrupt \notin files[localtm.day], NEW s \in files[localtm.day]
          PROVE  Within(s, ipTable')
      <4>1. PICK t \in Saved(localtm.day) : ipTable' = t
        BY <1>3, <3>2 DEF Import
      <4>2. t = s
        BY <1>0, <3>2, <4>1 DEF FilesWhole, Saved
      <4> QED
        BY <4>1, <4>2, WithinItself
    <3> QED
      BY <3>1, <3>2 DEF Covers
  <2> QED
    BY <2>1, <2>2 DEF MemoryKeeps, Covers
<1>4. CASE Recv
  <2>1. /\ pc = "loop" /\ localtm' = now
        /\ UNCHANGED <<now, ipTable, hup, overlap>>
    BY <1>4 DEF Recv, Receive
  <2>2. CASE Midnight
    <3>1. pc' = "rollover" /\ localtm.day # now.day
      BY <1>0, <1>4, <2>1, <2>2, MidnightPassed DEF Recv
    <3>2. hup = {}
      BY <1>0, <2>1, <3>1 DEF OneExport, Exporting, Alive
    <3> QED
      BY <2>1, <3>1, <3>2 DEF MemoryKeeps
  <2>3. CASE ~Midnight
    <3>1. localtm.day = now.day /\ UNCHANGED <<pc, writers, files>>
      BY <1>0, <1>4, <2>1, <2>3, MidnightOrSameDay DEF Recv, Calm, DayInv, Alive
    <3> QED
      BY <1>0, <2>1, <3>1 DEF MemoryKeeps, Covers
  <2> QED
    BY <2>2, <2>3
<1>5. CASE CloseRollover
  BY <1>0, <1>5 DEF CloseRollover, RolloverFits, MemoryKeeps
<1>6. CASE Clear
  <2>1. files[localtm.day] = {} /\ hup = {} /\ writers = {}
    BY <1>0, <1>6 DEF Clear, RolloverFits, BlankAhead, Ahead
  <2> QED
    BY <1>6, <2>1 DEF Clear, MemoryKeeps, Covers
<1>7. CASE Add
  <2>1. /\ pc = "loop" /\ UNCHANGED <<now, pc, localtm, hup, writers, files, overlap>>
        /\ Within(ipTable, ipTable')
    <3>1. PICK a \in todo : ipTable' = [ipTable EXCEPT ![a[1]] = @ \cup {a[2]}]
      BY <1>7 DEF Add
    <3>2. \A c \in Counter : ipTable[c] \subseteq ipTable'[c]
      BY <1>0, <3>1 DEF TypeOK, Table
    <3> QED
      BY <1>7, <3>2 DEF Add, Within
  <2>2. \A s : Within(s, ipTable) => Within(s, ipTable')
    BY <2>1, WithinItself
  <2> QED
    BY <1>0, <2>1, <2>2 DEF MemoryKeeps, Covers
<1>8. CASE Exits
  <2>1. pc' = "exits" /\ hup = {} /\ hup' = {}
    BY <1>8 DEF Exits, SignalAllowed, Calm, Exporting
  <2> QED
    BY <2>1 DEF MemoryKeeps
<1>9. CASE Update
  <2>1. /\ pc = "loop" /\ now.day = localtm.day /\ hup' = {ipTable} /\ writers = {}
        /\ UNCHANGED <<now, pc, localtm, ipTable, writers, files, overlap>>
    BY <1>9 DEF Update, SignalAllowed, Calm, Exporting
  <2>2. Within(ipTable, ipTable)
    BY WithinItself
  <2> QED
    BY <1>0, <2>1, <2>2 DEF MemoryKeeps, Covers
<1>10. CASE OpenUpdate
  <2>1. PICK t \in hup : OpenExport("hup", now.day, t)
    BY <1>10 DEF OpenUpdate
  <2>2. /\ hup' = {} /\ UNCHANGED <<now, pc, localtm, ipTable, overlap>>
        /\ writers = {} /\ (Alive => now.day = localtm.day)
    BY <1>0, <1>10, <2>1 DEF OpenUpdate, OneExport, Exporting
  <2>3. /\ \A w \in writers' : w.tab = t
        /\ Corrupt \in files'[now.day]
    <3>1. /\ writers' = {[who |-> "hup", day |-> now.day, tab |-> t]}
          /\ files' = [files EXCEPT ![now.day] = {Corrupt, t}]
      BY <1>0, <2>1, <2>2, OpensAlone
    <3>2. Corrupt \in files'[now.day]
      BY <1>0, <3>1 DEF TypeOK
    <3> QED
      BY <3>1, <3>2
  <2>4. ~overlap => pc # "import"
    BY <1>0, <2>1 DEF MemoryKeeps, Exporting
  <2>5. pc = "loop" /\ ~overlap => Within(t, ipTable)
    BY <1>0, <2>1 DEF MemoryKeeps
  <2> QED
    BY <2>2, <2>3, <2>4, <2>5 DEF MemoryKeeps, Covers, Alive
<1>11. CASE CloseUpdate
  <2>1. PICK w \in writers :
          w.who = "hup" /\ CloseExport(w) /\ writers' = writers \ {w}
    BY <1>11 DEF CloseUpdate, ByChild
  <2>2. /\ UNCHANGED <<now, pc, localtm, ipTable, hup, overlap>>
        /\ hup = {} /\ writers' = {}
        /\ files' = [files EXCEPT ![w.day] = {w.tab}]
        /\ w.day = now.day /\ (Alive => now.day = localtm.day)
    BY <1>0, <1>11, <2>1, ClosesWhole
    DEF CloseUpdate, OneExport, ExportFits, Exporting
  <2>3. files'[now.day] = {w.tab}
    BY <1>0, <2>2 DEF TypeOK
  <2>4. /\ pc = "loop" /\ ~overlap => Within(w.tab, ipTable)
        /\ ~overlap => pc # "import"
    BY <1>0, <2>1 DEF MemoryKeeps, Exporting
  <2>5. pc = "loop" /\ ~overlap => Covers(ipTable, localtm.day)'
    BY <2>2, <2>3, <2>4 DEF Covers, Alive
  <2> QED
    BY <2>2, <2>4, <2>5 DEF MemoryKeeps
<1>12. CASE KillChild
  BY <1>0, <1>12 DEF KillChild, MemoryKeeps, Covers, Exporting
<1>13. CASE CloseExits
  <2>1. PICK w \in writers : w.who = "exits"
    BY <1>13 DEF CloseExits
  <2>2. pc' = "down" /\ hup' = {}
    BY <1>0, <1>13, <2>1 DEF CloseExits, Die, OneExport
  <2> QED
    BY <2>2 DEF MemoryKeeps
<1>14. CASE ImportDiep \/ RecvDiep \/ UpdateBadConfig \/ Kill
  <2>1. pc' = "down" /\ UNCHANGED <<now, hup, files, overlap>>
    BY <1>14 DEF ImportDiep, RecvDiep, UpdateBadConfig, Kill, Die
  <2> QED
    BY <1>0, <2>1 DEF MemoryKeeps, Covers
<1>15. CASE UNCHANGED vars
  BY <1>0, <1>15 DEF vars, MemoryKeeps, Covers, Exporting
<1> QED
  BY <1>1, <1>2, <1>3, <1>4, <1>5, <1>6, <1>7, <1>8, <1>9, <1>10, <1>11,
     <1>12, <1>13, <1>14, <1>15 DEF Next

\* Every step keeps what memory and the files have of each other.
LEMMA GrowInvariant ==
    ASSUME Calm
    PROVE  Spec => []GrowInv
<1>1. GrowInv /\ [Next]_vars => GrowInv'
  BY LedgerInvNext, BlankNext, MemoryNext DEF GrowInv
<1> QED
  BY <1>1, GrowInit, PTL DEF Spec

\* Unless the daemon is started while a child of its predecessor still writes,
\* no export takes anything away from a file that was saved whole.
THEOREM NothingIsOverwritten ==
    ASSUME Calm
    PROVE  Spec => NothingOverwritten
<1> DEFINE Gained == ~overlap => \A w \in writers' \ writers : Covers(w.tab, w.day)
<1>1. ASSUME GrowInv, [Next]_vars
      PROVE  Gained
  <2>0. /\ DayInv /\ ClockInv /\ TypeOK /\ OneExport /\ MemoryKeeps
        /\ now.day \in Day /\ localtm.day \in Day
    BY <1>1, DaysInOrder DEF GrowInv, LedgerInv, DayInv
  <2>1. CASE writers' \subseteq writers
    BY <2>1
  <2>2. ASSUME NEW who, NEW d, NEW tab, OpenExport(who, d, tab), ~overlap => Covers(tab, d)
        PROVE  Gained
    BY <2>2 DEF OpenExport
  <2>3. CASE Recv
    <3>1. CASE Midnight
      <4>1. pc = "loop" /\ Yesterday = localtm.day /\ OpenExport("main", Yesterday, ipTable)
        BY <1>1, <2>0, <2>3, <3>1, MidnightOrSameDay
        DEF Recv, Receive, Calm, DayInv, Alive, Yesterday
      <4> QED
        BY <2>0, <2>2, <4>1 DEF MemoryKeeps
    <3>2. CASE ~Midnight
      BY <2>1, <2>3, <3>2 DEF Recv
    <3> QED
      BY <3>1, <3>2
  <2>4. CASE Exits
    <3>1. pc = "loop" /\ OpenExport("exits", localtm.day, ipTable)
      BY <2>4 DEF Exits, SignalAllowed, Calm
    <3> QED
      BY <2>0, <2>2, <3>1 DEF MemoryKeeps
  <2>5. CASE OpenUpdate
    <3>1. PICK t \in hup : OpenExport("hup", now.day, t)
      BY <2>5 DEF OpenUpdate
    <3> QED
      BY <2>0, <2>2, <3>1 DEF MemoryKeeps
  <2>6. CASE UNCHANGED vars
    BY <2>1, <2>6 DEF vars
  <2> QED
    BY <1>1, <2>1, <2>3, <2>4, <2>5, <2>6
    DEF Next, Tick, Start, Import, ImportDiep, RecvDiep, CloseRollover, Clear,
        Add, CloseExits, Update, UpdateBadConfig, CloseUpdate, Kill, KillChild, Die
<1>2. GrowInv /\ [Next]_vars => [Gained]_vars
  BY <1>1
<1> QED
  BY <1>2, GrowInvariant, PTL DEF Spec, NothingOverwritten

-----------------------------------------------------------------------------
(* Every step is a step of the ledger *)

\* A file that is not touched leaves its page in the book.
LEMMA BookKept ==
    ASSUME files' = files
    PROVE  Book' = Book
  BY DEF Book

\* gzopen("wb") cuts the saved page of its day.
LEMMA BookCut ==
    ASSUME TypeOK, NEW d \in Day, NEW tab, files' = [files EXCEPT ![d] = {Corrupt, tab}]
    PROVE  Book' = [Book EXCEPT ![d] = {}]
<1>1. \A e \in Day : files'[e] = IF e = d THEN {Corrupt, tab} ELSE files[e]
  BY DEF TypeOK
<1>2. Corrupt \in files'[d]
  BY <1>1
<1>3. \A e \in Day : e # d => files'[e] = files[e]
  BY <1>1
<1> QED
  BY <1>2, <1>3 DEF Book

\* gzclose saves the page as it was written.
LEMMA BookSaved ==
    ASSUME TypeOK, NEW d \in Day, NEW tab \in Table, files' = [files EXCEPT ![d] = {tab}]
    PROVE  Book' = [Book EXCEPT ![d] = {Whole(tab)}]
<1>1. \A e \in Day : files'[e] = IF e = d THEN {tab} ELSE files[e]
  BY DEF TypeOK
<1>2. Corrupt \notin {tab} /\ {Whole(t) : t \in {tab}} = {Whole(tab)} /\ {tab} # {}
  BY DayStoreAssumption
<1> QED
  BY <1>1, <1>2 DEF Book

\* The flows that all counters of a table of one day have are of that day; a
\* cleared table has none.
LEMMA PageOfDay ==
    ASSUME Calm, NEW tab \in Table, NEW d, OnDay(tab, d)
    PROVE  Whole(tab) \subseteq Ledger!Of(d)
  BY DEF Calm, OnDay, Whole, Ledger!Of

\* A cleared table is an empty page.
LEMMA EmptyPage ==
    ASSUME Calm
    PROVE  Whole(Empty) = {}
  BY DEF Calm, Whole, Empty

\* The ledger starts closed, and empty.
LEMMA LedgerStarts ==
    ASSUME Calm, Init
    PROVE  Ledger!Init
<1>1. now.day = 0 /\ OpenPage = {} /\ Book = [d \in Day |-> {{}}]
  BY DEF Init, OpenPage, Book
<1>2. Whole(ipTable) = {}
  BY EmptyPage DEF Init
<1> QED
  BY <1>1, <1>2 DEF Ledger!Init

\* The page that goes with the daemon.
LEMMA DieCloses ==
    ASSUME Calm, Die
    PROVE  OpenPage' = {} /\ Whole(ipTable') = {}
  BY EmptyPage DEF Die, OpenPage

\* Of the steps that leave the files alone.
LEMMA PageStep ==
    ASSUME Calm, LedgerInv, LedgerInv', UNCHANGED files,
           \/ Tick \/ Start \/ Import \/ ImportDiep \/ Clear \/ Add
           \/ Update \/ UpdateBadConfig \/ Kill \/ KillChild
    PROVE  Ledger!Next \/ UNCHANGED Ledger!lvars
<1>0. /\ DayInv /\ DayInv' /\ TypeOK /\ TypeOK' /\ ClockInv /\ Book' = Book
  BY BookKept DEF LedgerInv, DayInv, ClockInv
<1>a. /\ now \in Stamp /\ now.day \in Day /\ localtm \in Stamp
      /\ localtm.day \in Day /\ ipTable \in Table /\ now.day \in Nat
      /\ localtm.day \in Nat /\ localtm.day <= now.day
  BY <1>0, DayStoreAssumption DEF ClockInv, NotAfter, TypeOK, Stamp, Day
<1> USE DEF Ledger!lvars, Ledger!Next
<1>1. CASE Tick
  <2>1. /\ UNCHANGED <<pc, localtm, ipTable>>
        /\ Alive => localtm = now
        /\ now'.day = now.day \/ now'.day = now.day + 1
        /\ pc \in {"rollover", "clear"} => now'.day = now.day
    BY <1>0, <1>1, CalmTick DEF Tick, LedgerInv
  <2>2. UNCHANGED OpenPage
    BY <2>1 DEF OpenPage
  <2>3. CASE now'.day = now.day
    BY <1>0, <2>1, <2>2, <2>3
  <2>4. CASE now'.day = now.day + 1
    <3>1. now.day + 1 \in Day
      BY <1>0, <2>4 DEF TypeOK, Stamp
    <3>2. now'.day # now.day
      BY <1>a, <2>4
    <3>3. OpenPage \subseteq {now.day}
      BY <2>1, <3>2 DEF OpenPage, Alive
    <3> QED
      BY <1>0, <2>1, <2>2, <2>4, <3>1, <3>3 DEF Ledger!Midnight
  <2> QED
    BY <2>1, <2>3, <2>4
<1>2. CASE Start
  BY <1>0, <1>2 DEF Start, OpenPage
<1>3. CASE Import
  <2>1. /\ OpenPage = {} /\ OpenPage' = {localtm.day} /\ now' = now
        /\ localtm' = localtm /\ ipTable = Empty /\ pc = "import" /\ pc' = "loop"
    BY <1>0, <1>3 DEF Import, OpenPage, DayInv
  <2>2. now.day <= localtm.day + 1
    <3>1. now \in {localtm, HourAfter(localtm)}
      BY <1>0, <2>1 DEF DayInv, Alive, Calm, Later
    <3> QED
      BY <1>a, <3>1 DEF HourAfter
  <2>3. Whole(ipTable') \subseteq Ledger!Of(localtm.day)
    BY <1>0, <2>1, PageOfDay DEF DayInv, OneDayInMemory, TypeOK
  <2>4. ASSUME NEW saved \in Book[localtm.day]
        PROVE  Whole(ipTable') = saved
    <3>1. Corrupt \notin files[localtm.day]
      BY <1>a, <2>4 DEF Book
    <3>2. CASE files[localtm.day] = {}
      BY <1>3, <1>a, <2>1, <2>4, <3>1, <3>2, EmptyPage DEF Book, Import, Saved
    <3>3. CASE files[localtm.day] # {}
      <4>1. PICK t \in files[localtm.day] : ipTable' = t
        BY <1>3, <3>1, <3>3 DEF Import, Saved
      <4>2. PICK u \in files[localtm.day] : saved = Whole(u)
        BY <1>a, <2>4, <3>1, <3>3 DEF Book
      <4>3. t = u
        BY <1>a, <3>1, <4>1, <4>2 DEF LedgerInv, FilesWhole
      <4> QED
        BY <4>1, <4>2, <4>3
    <3> QED
      BY <3>2, <3>3
  <2> QED
    BY <1>0, <1>a, <2>1, <2>2, <2>3, <2>4 DEF Ledger!Open
<1>4. CASE ImportDiep
  <2>1. ipTable = Empty /\ OpenPage = {} /\ now' = now /\ Die
    BY <1>0, <1>4 DEF ImportDiep, DayInv, OpenPage
  <2> QED
    BY <1>0, <2>1, DieCloses, EmptyPage
<1>5. CASE Clear
  <2> DEFINE d == localtm.day - 1
  <2>1. /\ OpenPage = {d} /\ OpenPage' = {localtm.day} /\ now' = now
        /\ Whole(ipTable') = {} /\ files[d] = {ipTable} /\ d \in Day
        /\ now.day = localtm.day
    BY <1>5, EmptyPage DEF Clear, OpenPage, LedgerInv, RolloverFits
  <2>2. Book[d] = {Whole(ipTable)}
    BY <1>a, <2>1, DayStoreAssumption DEF Book
  <2>3. d + 1 = localtm.day
    BY <1>a
  <2> HIDE DEF d
  <2> QED
    BY <1>0, <2>1, <2>2, <2>3 DEF Ledger!TurnPage
<1>6. CASE Add
  <2>1. PICK a \in todo : ipTable' = [ipTable EXCEPT ![a[1]] = @ \cup {a[2]}]
    BY <1>6 DEF Add
  <2>2. /\ a \in Counter \X Flow /\ a[2].day = localtm.day
        /\ pc = "loop" /\ UNCHANGED <<now, pc, localtm>>
    BY <1>0, <1>6, <2>1 DEF Add, TypeOK, DayInv
  <2>3. OpenPage = {localtm.day} /\ OpenPage' = OpenPage
    BY <2>2 DEF OpenPage
  <2>4. a[1] \in Counter /\ a[2] \in Flow /\ a[2] \in Ledger!Of(localtm.day)
    BY <2>2 DEF Ledger!Of
  <2>5. \A c \in Counter : ipTable'[c] = IF c = a[1] THEN ipTable[c] \cup {a[2]} ELSE ipTable[c]
    BY <1>a, <2>1, <2>4 DEF Table
  <2>6. Whole(ipTable') \in {Whole(ipTable), Whole(ipTable) \cup {a[2]}}
    <3>1. Whole(ipTable) \subseteq Whole(ipTable')
      BY <2>5 DEF Whole
    <3>2. Whole(ipTable') \subseteq Whole(ipTable) \cup {a[2]}
      BY <2>5 DEF Whole
    <3> QED
      BY <3>1, <3>2
  <2> QED
    BY <1>0, <2>2, <2>3, <2>4, <2>6 DEF Ledger!Enter
<1>7. CASE Update
  BY <1>0, <1>7 DEF Update, OpenPage
<1>8. CASE UpdateBadConfig \/ Kill
  <2>1. Die /\ now' = now
    BY <1>8 DEF UpdateBadConfig, Kill
  <2>2. CASE OpenPage = {}
    <3>1. Whole(ipTable) = {}
      BY <1>0, <2>2, EmptyPage DEF OpenPage, DayInv, TypeOK
    <3> QED
      BY <1>0, <2>1, <2>2, <3>1, DieCloses
  <2>3. CASE OpenPage # {}
    BY <1>0, <2>1, <2>3, DieCloses DEF Ledger!Crash
  <2> QED
    BY <2>2, <2>3
<1>9. CASE KillChild
  BY <1>0, <1>9 DEF KillChild, OpenPage
<1> QED
  BY <1>1, <1>2, <1>3, <1>4, <1>5, <1>6, <1>7, <1>8, <1>9

\* An export begins with the page of its day cut out of the book ...
LEMMA SaveBegins ==
    ASSUME TypeOK, writers = {}, NEW who, NEW d \in Day, NEW tab,
           OpenExport(who, d, tab), d \in Ledger!Writable,
           UNCHANGED <<now, OpenPage, ipTable>>
    PROVE  Ledger!BeginSave
<1>1. Book' = [Book EXCEPT ![d] = {}]
  BY OpensAlone, BookCut
<1>2. Whole(ipTable') = Whole(ipTable)
  OBVIOUS
<1> QED
  BY <1>1, <1>2 DEF Ledger!BeginSave

\* ... and ends with the whole table in its place.
LEMMA SaveIsWhole ==
    ASSUME Calm, TypeOK, OneExport, NEW w \in writers, CloseExport(w)
    PROVE  /\ w.day \in Day /\ w.tab \in Table
           /\ Book[w.day] = {}
           /\ Book' = [Book EXCEPT ![w.day] = {Whole(w.tab)}]
<1>1. w.day \in Day /\ w.tab \in Table
  BY DEF TypeOK, Writer
<1>2. Corrupt \in files[w.day]
  BY DEF OneExport
<1>3. Book[w.day] = {}
  BY <1>1, <1>2 DEF Book
<1>4. Book' = [Book EXCEPT ![w.day] = {Whole(w.tab)}]
  BY <1>1, ClosesWhole, BookSaved
<1> QED
  BY <1>1, <1>3, <1>4

\* An export that leaves the table in memory alone ends as a save of its page.
LEMMA SaveEnds ==
    ASSUME Calm, DayInv, OneExport, NEW w \in writers, CloseExport(w),
           w.day \in Ledger!Writable, UNCHANGED <<now, OpenPage, ipTable>>
    PROVE  Ledger!EndSave
<1>1. /\ w.day \in Day /\ w.tab \in Table /\ Book[w.day] = {}
      /\ Book' = [Book EXCEPT ![w.day] = {Whole(w.tab)}]
  BY SaveIsWhole DEF DayInv, ClockInv
<1>2. Whole(w.tab) \in SUBSET Ledger!Of(w.day)
  BY <1>1, PageOfDay DEF DayInv
<1>3. Whole(ipTable') = Whole(ipTable)
  OBVIOUS
<1> QED
  BY <1>1, <1>2, <1>3 DEF Ledger!EndSave

\* Of the steps that write to the files.
LEMMA FileStep ==
    ASSUME Calm, LedgerInv,
           \/ Recv \/ RecvDiep \/ CloseRollover \/ Exits \/ CloseExits
           \/ OpenUpdate \/ CloseUpdate
    PROVE  Ledger!Next \/ UNCHANGED Ledger!lvars
<1>0. DayInv /\ TypeOK /\ ClockInv /\ OneExport /\ ExportFits /\ RolloverFits
  BY DEF LedgerInv, DayInv, ClockInv
<1>a. /\ now.day \in Day /\ localtm.day \in Day
      /\ now.day \in Nat /\ localtm.day \in Nat
  BY <1>0, DayStoreAssumption DEF TypeOK, Stamp, Day
<1> USE DEF Ledger!Next
<1>1. CASE Recv
  <2>1. /\ pc = "loop" /\ localtm' = now
        /\ UNCHANGED <<now, ipTable>> /\ OpenPage = {localtm.day}
    BY <1>1 DEF Recv, Receive, OpenPage
  <2>2. /\ Midnight => localtm.day = now.day - 1
        /\ ~Midnight => localtm.day = now.day
    BY <1>0, <2>1, MidnightOrSameDay DEF Calm, DayInv, Alive
  <2>3. CASE Midnight
    <3>1. localtm.day = now.day - 1 /\ Yesterday = localtm.day
      BY <2>2, <2>3 DEF Yesterday, Calm
    <3>2. now.day # localtm.day
      BY <1>a, <3>1
    <3>3. writers = {}
      BY <1>0, <2>1, <3>2 DEF OneExport, Exporting, Alive
    <3>4. OpenExport("main", localtm.day, ipTable) /\ pc' = "rollover"
      BY <1>1, <2>3, <3>1 DEF Recv
    <3>5. OpenPage' = {localtm.day}
      BY <2>1, <3>1, <3>4 DEF OpenPage
    <3> QED
      BY <1>0, <1>a, <2>1, <3>3, <3>4, <3>5, SaveBegins DEF Ledger!Writable
  <2>4. CASE ~Midnight
    <3>1. pc' = "loop" /\ files' = files /\ localtm'.day = localtm.day
      BY <1>1, <2>1, <2>2, <2>4 DEF Recv
    <3>2. OpenPage' = OpenPage /\ Book' = Book /\ Whole(ipTable') = Whole(ipTable)
      BY <2>1, <3>1, BookKept DEF OpenPage
    <3> QED
      BY <2>1, <3>2 DEF Ledger!lvars
  <2> QED
    BY <2>3, <2>4
<1>2. CASE RecvDiep
  BY <1>2 DEF RecvDiep, Calm
<1>3. CASE CloseRollover
  <2>1. PICK w \in writers : w.who = "main" /\ CloseExport(w)
    BY <1>3 DEF CloseRollover
  <2>2. w.day = localtm.day - 1 /\ OpenPage = {localtm.day - 1}
        /\ UNCHANGED <<now, OpenPage, ipTable>>
    BY <1>0, <1>3, <2>1 DEF CloseRollover, OpenPage, ExportFits
  <2> QED
    BY <1>0, <2>1, <2>2, SaveEnds DEF Ledger!Writable
<1>4. CASE Exits
  <2>1. /\ pc = "loop" /\ writers = {} /\ OpenPage = {localtm.day}
        /\ OpenExport("exits", localtm.day, ipTable)
        /\ UNCHANGED <<now, OpenPage, ipTable>>
    BY <1>4 DEF Exits, SignalAllowed, Calm, Exporting, OpenPage
  <2> QED
    BY <1>0, <1>a, <2>1, SaveBegins DEF Ledger!Writable
<1>5. CASE CloseExits
  <2>1. PICK w \in writers : w.who = "exits" /\ CloseExport(w)
    BY <1>5 DEF CloseExits
  <2>2. /\ w.day = localtm.day /\ w.tab = ipTable /\ pc = "exits"
        /\ Book[w.day] = {} /\ Book' = [Book EXCEPT ![w.day] = {Whole(w.tab)}]
    BY <1>0, <2>1, SaveIsWhole DEF ExportFits
  <2>3. OpenPage = {localtm.day} /\ now' = now /\ OpenPage' = {} /\ Whole(ipTable') = {}
    BY <1>5, <2>2, DieCloses DEF CloseExits, OpenPage
  <2> QED
    BY <2>2, <2>3 DEF Ledger!Close
<1>6. CASE OpenUpdate
  <2>1. PICK t \in hup : OpenExport("hup", now.day, t)
    BY <1>6 DEF OpenUpdate
  <2>2. /\ writers = {} /\ pc \notin {"rollover", "clear", "exits"}
        /\ Alive => now.day = localtm.day
    BY <1>0, <2>1 DEF OneExport, RolloverFits, Exporting
  <2>3. now.day \in Ledger!Writable /\ UNCHANGED <<now, OpenPage, ipTable>>
    BY <1>6, <2>2 DEF OpenUpdate, OpenPage, Ledger!Writable, Alive
  <2> QED
    BY <1>0, <1>a, <2>1, <2>2, <2>3, SaveBegins
<1>7. CASE CloseUpdate
  <2>1. PICK w \in writers : w.who = "hup" /\ CloseExport(w)
    BY <1>7 DEF CloseUpdate, ByChild
  <2>2. /\ w.day = now.day /\ pc \notin {"rollover", "clear", "exits"}
        /\ Alive => now.day = localtm.day
    BY <1>0, <2>1 DEF OneExport, ExportFits, Exporting
  <2>3. w.day \in Ledger!Writable /\ UNCHANGED <<now, OpenPage, ipTable>>
    BY <1>7, <2>2 DEF CloseUpdate, OpenPage, Ledger!Writable, Alive
  <2> QED
    BY <1>0, <2>1, <2>3, SaveEnds
<1> QED
  BY <1>1, <1>2, <1>3, <1>4, <1>5, <1>6, <1>7

\* The daemon, its handlers and its children implement the ledger.
THEOREM ImplementsLedger ==
    ASSUME Calm
    PROVE  Spec => KeepsLedger
<1>1. ASSUME LedgerInv, LedgerInv', [Next]_vars
      PROVE  Ledger!Next \/ UNCHANGED Ledger!lvars
  <2>1. CASE UNCHANGED vars
    BY <2>1, BookKept DEF vars, Ledger!lvars, OpenPage
  <2>2. CASE UNCHANGED files /\ (\/ Tick \/ Start \/ Import \/ ImportDiep \/ Clear
                                 \/ Add \/ Update \/ UpdateBadConfig \/ Kill
                                 \/ KillChild)
    BY <1>1, <2>2, PageStep
  <2>3. CASE \/ Recv \/ RecvDiep \/ CloseRollover \/ Exits \/ CloseExits
             \/ OpenUpdate \/ CloseUpdate
    BY <1>1, <2>3, FileStep
  <2> QED
    BY <1>1, <2>1, <2>2, <2>3
    DEF Next, Tick, Start, Import, ImportDiep, Clear, Add, Update,
        UpdateBadConfig, Kill, KillChild
<1>2. LedgerInv /\ LedgerInv' /\ [Next]_vars => [Ledger!Next]_(Ledger!lvars)
  BY <1>1
<1>3. Init => Ledger!Init
  BY LedgerStarts
<1> QED
  BY <1>2, <1>3, LedgerInvariant, PTL DEF Spec, KeepsLedger, Ledger!Spec

=============================================================================
