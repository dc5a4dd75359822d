------------------------------ MODULE DayStore ------------------------------
(***************************************************************************)
(* The daily life of flowstatd: the main loop counts flows into ipTable,   *)
(* saves the table under the finished day's name and clears it when the    *)
(* first datagram after midnight arrives, SIGTERM/SIGINT (Exits) and       *)
(* SIGHUP (Update) save it too, and a restart loads the day's file again.  *)
(*                                                                         *)
(* A counter is the set of the flows that were added to it, so that what a *)
(* sum is made of stays visible.  Time is a day and an hour.  A file is    *)
(* the set of the tables a reader of it may get: {} if there is no file,   *)
(* {t} if t was saved whole, and with Corrupt in it while it is being      *)
(* written or was left cut short.                                          *)
(***************************************************************************)
EXTENDS Naturals, Sequences

CONSTANTS
    HoursPerDay,    \* 24 in the code
    MaxDay,         \* bound: the last day of the model
    MaxFlows,       \* bound: how many flows are counted
    MaxStarts,      \* bound: how often the daemon is started
    Fields,         \* the fields of struct hostflow, in their order, that one +=
                    \*   each goes to: hflow, nflow, sum
    Skipped,        \* the hours that local time skips (clocks put forward)
    Corrupt,        \* what a cut or mixed gzip stream may read as
    HourlyTraffic,  \* environment: a datagram arrives in every hour
    CalmSignals,    \* environment: signals only far from midnight and other exports
    DiskOK          \* environment: gzopen and gzwrite succeed

Counter == {Fields[i] : i \in 1 .. Len(Fields)}
Before(c, d) == \E i, j \in 1 .. Len(Fields) : i < j /\ c = Fields[i] /\ d = Fields[j]

Day == 0 .. MaxDay
Hour == 0 .. HoursPerDay - 1
Stamp == [day : Day, hour : Hour]
Flow == [id : 1 .. MaxFlows, day : Day]
Table == [Counter -> SUBSET Flow]
Writer == [who : {"main", "exits", "hup"}, day : Day, tab : Table]

ASSUME DayStoreAssumption ==
    /\ HoursPerDay \in Nat /\ HoursPerDay > 1
    /\ MaxDay \in Nat
    /\ MaxFlows \in Nat
    /\ MaxStarts \in Nat
    /\ Skipped \subseteq [day : Day \ {0}, hour : Hour]
    /\ \A s, t \in Skipped : s.day = t.day => s = t
    /\ Corrupt \notin Table
    /\ {HourlyTraffic, CalmSignals, DiskOK} \subseteq BOOLEAN

VARIABLES
    now,        \* wall clock
    pc,         \* where the daemon is: down, import, loop, rollover, clear, exits
    localtm,    \* the global localtm: when the last datagram was taken
    preHour,    \* main()'s preHour
    ipTable,    \* the table in the daemon's memory
    todo,       \* additions InsertNfInfoToIpTable still has to make
    received,   \* number of flows counted so far
    starts,     \* number of times the daemon was started
    hup,        \* table of an Update() child that has not opened its file yet
    writers,    \* exports between gzopen and gzclose
    files,      \* the data directory
    torn,       \* history: flows a signal caught half inserted, or of which a
                \*   cut file brought some of the counters
    overlap     \* history: the daemon was started while a child of its
                \*   predecessor was still exporting

vars == <<now, pc, localtm, preHour, ipTable, todo, received, starts, hup,
          writers, files, torn, overlap>>

Empty == [c \in Counter |-> {}]

TypeOK ==
    /\ now \in Stamp
    /\ pc \in {"down", "import", "loop", "rollover", "clear", "exits"}
    /\ localtm \in Stamp
    /\ preHour \in Hour
    /\ ipTable \in Table
    /\ todo \in SUBSET (Counter \X Flow)
    /\ received \in 0 .. MaxFlows
    /\ starts \in 0 .. MaxStarts
    /\ hup \in SUBSET Table
    /\ writers \in SUBSET Writer
    /\ files \in [Day -> SUBSET (Table \cup {Corrupt})]
    /\ torn \in SUBSET Flow
    /\ overlap \in BOOLEAN

-----------------------------------------------------------------------------
(* Time *)

HourAfter(t) == IF t.hour = HoursPerDay - 1
                THEN [day |-> t.day + 1, hour |-> 0]
                ELSE [day |-> t.day, hour |-> t.hour + 1]

Later(t) == IF HourAfter(t) \in Skipped THEN HourAfter(HourAfter(t))
                                        ELSE HourAfter(t)

\* The day that ExportRecord(YESTERDAY) finds by going back 86400 seconds
\* during hour 0: too far back if the day before was an hour short.
Yesterday == IF \E s \in Skipped : s.day + 1 = now.day
             THEN now.day - 2 ELSE now.day - 1

Alive == pc # "down"
Exporting == hup # {} \/ writers # {}

\* The operator keeps clear of midnight and of exports that are under way.
SignalAllowed ==
    CalmSignals => /\ ~Exporting
                   /\ pc = "loop"
                   /\ now.day = localtm.day

Tick ==
    /\ Later(now).day <= MaxDay
    /\ HourlyTraffic /\ Alive => localtm = now
    /\ CalmSignals /\ Later(now).day # now.day => ~Exporting
    /\ now' = Later(now)
    /\ UNCHANGED <<pc, localtm, preHour, ipTable, todo, received, starts,
                   hup, writers, files, torn, overlap>>

-----------------------------------------------------------------------------
(* ExportRecord: gzopen("wb") cuts the file, gzclose leaves it whole unless *)
(* another process wrote to it meanwhile or the disk was full.              *)

OpenExport(who, d, tab) ==
    /\ writers' = writers \cup {[who |-> who, day |-> d, tab |-> tab]}
    /\ files' = [files EXCEPT ![d] =
                    {Corrupt} \cup {w.tab : w \in {x \in writers' : x.day = d}}]

\* The tables that a reader of day d's file may find whole.
Saved(d) == files[d] \ {Corrupt}

AloneOn(w) == \A x \in writers \ {w} : x.day # w.day

\* Mutant of CloseExport: gzclose is forgotten.
CloseExport_NoClose(w) == w \in writers /\ UNCHANGED files

\* What gzclose leaves behind; the caller says which writers remain.
CloseExport(w) ==
    \/ /\ AloneOn(w)
       /\ files' = [files EXCEPT ![w.day] = {w.tab}]
    \/ /\ AloneOn(w) => ~DiskOK \/ files[w.day] # {Corrupt, w.tab}
       /\ UNCHANGED files

Imbalance(tab) == {f \in Flow : \E c1, c2 \in Counter : f \in tab[c1] \ tab[c2]}

ByChild(w) == w.who = "hup"

Unset == [day |-> 0, hour |-> 0]

\* The daemon is gone: its memory is lost and what it was writing is left cut.
Die ==
    /\ pc' = "down"
    /\ localtm' = Unset
    /\ preHour' = 0
    /\ ipTable' = Empty
    /\ todo' = {}
    /\ writers' = {w \in writers : ByChild(w)}

-----------------------------------------------------------------------------
(* The main process *)

Start ==
    /\ pc = "down"
    /\ starts < MaxStarts
    /\ starts' = starts + 1
    /\ pc' = "import"
    /\ localtm' = now
    /\ preHour' = now.hour
    /\ overlap' = (overlap \/ Exporting)
    /\ UNCHANGED <<now, ipTable, todo, received, hup, writers, files, torn>>

\* What gzread brings of a table that is cut at any byte: counters up to some
\* place, which may lie within an entry, where it separates them.
Prefix(tab) ==
    {u \in [Counter -> SUBSET UNION {tab[c] : c \in Counter}] :
        \A c \in Counter :
            /\ u[c] \subseteq tab[c]
            /\ \A d \in Counter : Before(c, d) => u[d] \cap tab[c] \subseteq u[c]}

\* Mutant of Import: a table that was saved is not loaded again.
Import_None ==
    /\ pc = "import"
    /\ pc' = "loop"
    /\ UNCHANGED <<now, localtm, preHour, ipTable, todo, received, starts, hup,
                   writers, files, torn, overlap>>

\* ImportRecord of today's file.  Nothing checks how much gzread returned: of
\* a cut file only a part gets into memory, and no one is told.
Import ==
    /\ pc = "import"
    /\ \/ /\ files[localtm.day] = {}
          /\ UNCHANGED ipTable
          /\ UNCHANGED torn
       \/ /\ ipTable' \in Saved(localtm.day)
          /\ UNCHANGED torn
       \/ /\ Corrupt \in files[localtm.day]
          /\ \E t \in Saved(localtm.day) : ipTable' \in Prefix(t)
          /\ torn' = torn \cup Imbalance(ipTable')
    /\ pc' = "loop"
    /\ UNCHANGED <<now, localtm, preHour, todo, received, starts, hup,
                   writers, files, overlap>>

\* A cut header leaves tmpVal uninitialized; it may exceed MAX_SUBNET.
ImportDiep ==
    /\ pc = "import"
    /\ Corrupt \in files[localtm.day]
    /\ Die
    /\ UNCHANGED <<now, received, starts, hup, files, torn, overlap>>

\* A flow counts only if it started on the day of its datagram.
Additions(f) == IF f.day = now.day THEN Counter \X {f} ELSE {}

\* Exporters report flows that started today or yesterday.
StartDay == {d \in Day : d <= now.day /\ now.day <= d + 1}

\* The datagram that arrives next; it carries one flow, or only flows that are
\* not from or to the stated networks.
Receive ==
    /\ pc = "loop"
    /\ todo = {}
    /\ \/ \E d \in StartDay :
            /\ received < MaxFlows
            /\ todo' = Additions([id |-> received + 1, day |-> d])
            /\ received' = IF todo' = {} THEN received ELSE received + 1
       \/ UNCHANGED <<todo, received>>
    /\ localtm' = now

\* Mutant of Midnight: hour 24 for hour 23.
Midnight_24 == preHour = HoursPerDay /\ now.hour = 0

Midnight == preHour = HoursPerDay - 1 /\ now.hour = 0

Recv ==
    /\ Receive
    /\ IF Midnight
       THEN /\ pc' = "rollover"
            /\ OpenExport("main", Yesterday, ipTable)
            /\ UNCHANGED preHour
       ELSE /\ preHour' = now.hour
            /\ UNCHANGED <<pc, writers, files>>
    /\ UNCHANGED <<now, ipTable, starts, hup, torn, overlap>>

\* gzopen fails at midnight: Diep ends the daemon, with no second export.
RecvDiep ==
    /\ ~DiskOK
    /\ pc = "loop"
    /\ todo = {}
    /\ Midnight
    /\ Die
    /\ UNCHANGED <<now, received, starts, hup, files, torn, overlap>>

CloseRollover ==
    /\ pc = "rollover"
    /\ \E w \in writers :
         /\ w.who = "main"
         /\ CloseExport(w)
         /\ writers' = writers \ {w}
    /\ pc' = "clear"
    /\ UNCHANGED <<now, localtm, preHour, ipTable, todo, received, starts,
                   hup, torn, overlap>>

\* Mutants of Clear: no memset; a memset of some of the fields; preHour of
\* the day that ended.
Clear_NoMemset ==
    /\ pc = "clear"
    /\ preHour' = localtm.hour
    /\ pc' = "loop"
    /\ UNCHANGED <<now, localtm, ipTable, todo, received, starts, hup, writers,
                   files, torn, overlap>>

Clear_Short ==
    /\ pc = "clear"
    /\ ipTable' = [ipTable EXCEPT !["hflow"] = {}]
    /\ preHour' = localtm.hour
    /\ pc' = "loop"
    /\ UNCHANGED <<now, localtm, todo, received, starts, hup, writers, files,
                   torn, overlap>>

Clear_PreHour ==
    /\ pc = "clear"
    /\ ipTable' = Empty
    /\ preHour' = preHour + 1
    /\ pc' = "loop"
    /\ UNCHANGED <<now, localtm, todo, received, starts, hup, writers, files,
                   torn, overlap>>

Clear ==
    /\ pc = "clear"
    /\ ipTable' = Empty
    /\ preHour' = localtm.hour
    /\ pc' = "loop"
    /\ UNCHANGED <<now, localtm, todo, received, starts, hup, writers,
                   files, torn, overlap>>

\* One of the three += of InsertNfInfoToIpTable; nothing orders them for a
\* signal handler, so the compiler may emit them in any order.
Add ==
    /\ pc = "loop"
    /\ \E a \in todo :
         /\ ipTable' = [ipTable EXCEPT ![a[1]] = @ \cup {a[2]}]
         /\ todo' = todo \ {a}
    /\ UNCHANGED <<now, pc, localtm, preHour, received, starts, hup,
                   writers, files, torn, overlap>>

-----------------------------------------------------------------------------
(* Signals and failures *)

\* Mutant of Exits: ExportRecord(YESTERDAY).
Exits_Yesterday ==
    /\ pc \in {"loop", "rollover", "clear"}
    /\ SignalAllowed
    /\ now.day > 0
    /\ pc' = "exits"
    /\ OpenExport("exits", Yesterday, ipTable)
    /\ torn' = torn \cup Imbalance(ipTable)
    /\ UNCHANGED <<now, localtm, preHour, ipTable, todo, received, starts, hup,
                   overlap>>

\* SIGTERM or SIGINT once the sockets are up: Exits saves under localtm's day.
Exits ==
    /\ pc \in {"loop", "rollover", "clear"}
    /\ SignalAllowed
    /\ pc' = "exits"
    /\ OpenExport("exits", localtm.day, ipTable)
    /\ torn' = torn \cup Imbalance(ipTable)
    /\ UNCHANGED <<now, localtm, preHour, ipTable, todo, received, starts,
                   hup, overlap>>

CloseExits ==
    /\ pc = "exits"
    /\ \E w \in writers : w.who = "exits" /\ CloseExport(w)
    /\ Die
    /\ UNCHANGED <<now, received, starts, hup, torn, overlap>>

\* SIGHUP: Update reloads the whitelist and forks a child with a copy of the
\* table.  Bound: one such child at a time.
Update ==
    /\ Alive
    /\ SignalAllowed
    /\ ~\E w \in writers : ByChild(w)
    /\ hup = {}
    /\ hup' = {ipTable}
    /\ torn' = torn \cup Imbalance(ipTable)
    /\ UNCHANGED <<now, pc, localtm, preHour, ipTable, todo, received,
                   starts, writers, files, overlap>>

\* SIGHUP with a config that does not parse: LoadWhitelist ends the daemon.
UpdateBadConfig ==
    /\ Alive
    /\ SignalAllowed
    /\ Die
    /\ UNCHANGED <<now, received, starts, hup, files, torn, overlap>>

\* Mutant of OpenUpdate: ExportRecord(YESTERDAY).
OpenUpdate_Yesterday ==
    /\ now.day > 0
    /\ \E t \in hup : OpenExport("hup", Yesterday, t)
    /\ hup' = {}
    /\ UNCHANGED <<now, pc, localtm, preHour, ipTable, todo, received, starts,
                   torn, overlap>>

\* The child reads the clock itself before it names the file.
OpenUpdate ==
    /\ \E t \in hup : OpenExport("hup", now.day, t)
    /\ hup' = {}
    /\ UNCHANGED <<now, pc, localtm, preHour, ipTable, todo, received,
                   starts, torn, overlap>>

CloseUpdate ==
    /\ \E w \in writers :
         /\ ByChild(w)
         /\ CloseExport(w)
         /\ writers' = writers \ {w}
    /\ UNCHANGED <<now, pc, localtm, preHour, ipTable, todo, received,
                   starts, hup, torn, overlap>>

\* kill -9, a failed accept(), a gzopen that fails in Exits, SIGTERM during
\* start-up: no export is made.
Kill ==
    /\ Alive
    /\ Die
    /\ UNCHANGED <<now, received, starts, hup, files, torn, overlap>>

KillChild ==
    /\ Exporting
    /\ hup' = {}
    /\ writers' = {w \in writers : ~ByChild(w)}
    /\ UNCHANGED <<now, pc, localtm, preHour, ipTable, todo, received,
                   starts, files, torn, overlap>>

-----------------------------------------------------------------------------

Init ==
    /\ now \in [day : {0}, hour : Hour]
    /\ pc = "down"
    /\ localtm = Unset
    /\ preHour = 0
    /\ ipTable = Empty
    /\ todo = {}
    /\ received = 0
    /\ starts = 0
    /\ hup = {}
    /\ writers = {}
    /\ files = [d \in Day |-> {}]
    /\ torn = {}
    /\ overlap = FALSE

Next ==
    \/ Tick
    \/ Start \/ Import \/ ImportDiep
    \/ Recv \/ RecvDiep \/ CloseRollover \/ Clear \/ Add
    \/ Exits \/ CloseExits
    \/ Update \/ UpdateBadConfig \/ OpenUpdate \/ CloseUpdate
    \/ Kill \/ KillChild

Spec == Init /\ [][Next]_vars

-----------------------------------------------------------------------------
(* Properties *)

Upto(tab, d) == \A c \in Counter : \A f \in tab[c] : f.day <= d
OnDay(tab, d) == \A c \in Counter : \A f \in tab[c] : f.day = d

\* No table, in memory or in any file, ever holds a flow of a later day than
\* the one it stands for: neither the YESTERDAY name of ExportRecord nor an
\* import after a restart can move traffic back in time.
NoFutureFlows ==
    /\ Upto(ipTable, localtm.day)
    /\ \A d \in Day : \A t \in Saved(d) : Upto(t, d)

\* README: "Calculate each IP's flow day by day".  A day's file holds the
\* traffic of that day only, whoever wrote it: main, Exits or an Update child.
OneDayPerFile == \A d \in Day : \A t \in Saved(d) : OnDay(t, d)

\* ... and what the daemon serves as "today" is the traffic of one day.
OneDayInMemory == pc \in {"loop", "exits"} => OnDay(ipTable, localtm.day)

\* The hourly counters and the totals disagree only about flows whose insertion
\* a signal interrupted, and about those of the entry in which a file ends that
\* was cut short and then imported: rollovers, exports, imports of whole files
\* and crashes add none.
ImbalanceIsTorn ==
    /\ \A d \in Day : \A t \in Saved(d) : Imbalance(t) \subseteq torn
    /\ Imbalance(ipTable) \subseteq torn \cup {a[2] : a \in todo}

\* Whatever leaves memory other than by a crash is whole on disk, under the
\* day of its flows: memset at midnight and the end of Exits discard nothing.
NothingDiscarded ==
    [][ \/ Kill \/ UpdateBadConfig
        \/ \A c \in Counter : \A f \in ipTable[c] :
              f \in ipTable'[c] \/ files'[f.day] = {ipTable} ]_vars

Within(t, u) == \A c \in Counter : t[c] \subseteq u[c]

\* Nothing is lost if t takes the place of day d's file, unless that is cut.
Covers(t, d) == Corrupt \in files[d] \/ \A s \in files[d] : Within(s, t)

\* No export replaces a file that was saved whole by a table with less in it:
\* neither a child's, nor that of Exits or of a daemon that was started again.
\* (Only one that is started while a child still writes, and so reads the file
\* from before, later undoes what that child saved.)
NothingOverwritten ==
    [][~overlap => \A w \in writers' \ writers : Covers(w.tab, w.day)]_vars

\* Once the daemon counts for a day, the files of the days before are final:
\* no late export touches them.
PastDaysSettled ==
    [][ pc = "loop" => \A d \in Day : d < localtm.day => files'[d] = files[d] ]_vars

-----------------------------------------------------------------------------
(* The ledger that the table and the files implement *)

\* The flows that every counter of a table has.
Whole(tab) == {f \in Flow : \A c \in Counter : f \in tab[c]}

\* The page changes with the memset, not with the datagram that calls for it.
OpenPage ==
    IF pc \in {"loop", "exits"} THEN {localtm.day}
    ELSE IF pc \in {"rollover", "clear"} THEN {localtm.day - 1}
    ELSE {}

Book == [d \in Day |-> IF Corrupt \in files[d] THEN {}
                       ELSE IF files[d] = {} THEN {{}}
                       ELSE {Whole(t) : t \in files[d]}]

Ledger == INSTANCE DayLedger WITH
    today <- now.day, open <- OpenPage, page <- Whole(ipTable), book <- Book

\* README: "Calculate each IP's flow day by day".  Every step of the daemon, of
\* its handlers and of their children is a step of the ledger: nothing else
\* ever enters, leaves or moves between the pages.
KeepsLedger == Ledger!Spec

=============================================================================
