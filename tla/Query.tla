-------------------------------- MODULE Query -------------------------------
(***************************************************************************)
(* One query, in the child that main() forked for it: parseCmd takes the   *)
(* copy of today's table or imports another day's, GetByIP, GetByFlow and  *)
(* GetByTopN walk the table and leave out what the whitelist hides.  A     *)
(* SIGHUP that reaches the child makes its inherited handler load the      *)
(* whitelist again in the middle of that.                                  *)
(*                                                                         *)
(* An entry of the table is an address (0 if nothing was counted), a total *)
(* and, as history, the day the total is of.  A file that a crash has cut  *)
(* short is imported as far as it goes (module DayStore says how it comes  *)
(* to be).  What the reload's own child does to the files is in module     *)
(* Server.                                                                 *)
(***************************************************************************)
EXTENDS Whitelist, Integers

CONSTANTS
    Today,          \* today's networks: [nets, slots]; slots are the addresses that
                    \*   the indices of the table stand for, 0 where no lookup leads
    TodaysTotals,   \* what may have been counted: a set of [index -> total]
    Days,           \* other days' files, whole: a set of [nets, slots, totals]
    CutLists,       \* what a file that ends before its networks do leaves in force:
                    \*   a set of [nets, slots, count]; slots may go on behind the
                    \*   table, count is what is in tmpVal when the table's size is
                    \*   asked for (module IpIndex says which lists these are)
    Rubbish,        \* what may be in memory that realloc() adds: [addr, total]
    MBYTES,         \* 1000000
    UINT,           \* 2^32
    Args,           \* ip, overValue or limit of a query
    Bad,            \* one that is missing or of the wrong type
    MaxReloads      \* bound: how often SIGHUP reaches the child

ASSUME QueryAssumption ==
    /\ \A f \in Days \cup {Today} : /\ f.nets \in [Addr -> Nat]
                                   /\ f.slots \in Seq(Entry) /\ f.slots # <<>>
    /\ \A f \in Days : f.totals \in [DOMAIN f.slots -> Nat]
    /\ \A t \in TodaysTotals : t \in [DOMAIN Today.slots -> Nat]
    /\ \A c \in CutLists : /\ c.nets \in [Addr -> Nat]
                           /\ c.slots \in Seq(Entry) /\ c.count \in Nat
    /\ \A e \in Rubbish : e.addr \in Entry /\ e.total \in Nat
    /\ MBYTES \in Nat \ {0} /\ UINT \in Nat \ {0}
    /\ Args \subseteq Int \cup {Bad}
    /\ MaxReloads \in Nat

Command == {"getFlow", "showOverList", "showTopList", "other", "unparsable"}
Question == [cmd : Command, date : {"today", "file", "nofile", "bad"},
             arg : Args, showAll : BOOLEAN]
HostFlow == [addr : Entry, total : Nat, day : {"today", "file", "none"}]
Status == {"E_INVALID_COMMAND", "E_INVALID_PARAM", "E_NO_DATA", "S_OK"}

VARIABLES
    pc,         \* start, parsed, walk, filter, answered, overrun, dead
    query,      \* the question
    ipTable,    \* the child's table, from index 0
    slots,      \* the addresses its indices stand for: rcvNetList
    at,         \* GetByFlow's and GetByTopN's i; for GetByIP the index
    j,          \* position in the whitelist
    rows,       \* what the answer shows
    status,     \* its return code
    whole,      \* history: no file was imported, or one that was whole
    reloads,    \* number of SIGHUPs so far
    inForce     \* history: what was hidden at some time during the query

qvars == <<pc, query, ipTable, slots, at, j, rows, status, whole>>
vars == <<wvars, qvars, reloads, inForce>>

sumIpCount == Cardinality(DOMAIN ipTable)

QueryType ==
    /\ pc \in {"start", "parsed", "walk", "filter", "answered", "overrun", "dead"}
    /\ query \in Question
    /\ ipTable \in [0 .. sumIpCount - 1 -> HostFlow]
    /\ slots \in Seq(Entry)
    /\ at \in 0 .. sumIpCount
    /\ j \in 0 .. MAX_WHITELIST
    /\ rows \in Seq(HostFlow)
    /\ status \in Status
    /\ whole \in BOOLEAN

\* The table at index k: an entry that counted nothing has no address.
HostFlowOf(s, totals, k, d) ==
    [addr |-> IF totals[k + 1] = 0 THEN 0 ELSE s[k + 1],
     total |-> totals[k + 1], day |-> d]

\* A handler runs to its end before the code it interrupts goes on.
Runs(at_pc) ==
    /\ ~loading
    /\ pc = at_pc
    /\ UNCHANGED <<whitelist, loading, whitelistIps, i, reloads, inForce>>

Answer(s) ==
    /\ pc' = "answered"
    /\ status' = s
    /\ UNCHANGED <<query, whole, ipTable, nets, slots, at, j, rows>>

-----------------------------------------------------------------------------
(* parseCmd *)

Reject ==
    /\ Runs("start")
    /\ query.cmd = "unparsable" \/ query.date = "bad"
    /\ Answer("E_INVALID_COMMAND")

NoFile ==
    /\ Runs("start")
    /\ query.cmd # "unparsable" /\ query.date = "nofile"
    /\ Answer("E_NO_DATA")

UseToday ==
    /\ Runs("start")
    /\ query.cmd # "unparsable" /\ query.date = "today"
    /\ pc' = "parsed"
    /\ UNCHANGED <<query, whole, ipTable, nets, slots, at, j, rows, status>>

\* Mutant of Import: the table shrinks to the file's, its rest is kept.
Import_Appends ==
    /\ Runs("start")
    /\ query.cmd # "unparsable" /\ query.date = "file"
    /\ \E f \in Days :
         /\ slots' = f.slots
         /\ nets' = f.nets
         /\ ipTable' = [k \in 0 .. Len(f.slots) |->
                          IF k > 0 THEN HostFlowOf(f.slots, f.totals, k - 1, "file")
                          ELSE ipTable[k]]
    /\ pc' = "parsed"
    /\ UNCHANGED <<query, at, j, rows, status, whole>>

AsksForFile == query.cmd # "unparsable" /\ query.date = "file"

FileEntry(f, k) == HostFlowOf(f.slots, f.totals, k, "file")

\* ImportRecord: the table only ever grows, and a file with fewer entries leaves
\* the rest as it is.
Import ==
    /\ Runs("start") /\ AsksForFile
    /\ \E f \in Days :
         /\ slots' = f.slots
         /\ nets' = f.nets
         /\ ipTable' = [k \in DOMAIN ipTable \cup 0 .. Len(f.slots) - 1 |->
                          IF k < Len(f.slots) THEN FileEntry(f, k) ELSE ipTable[k]]
    /\ pc' = "parsed"
    /\ UNCHANGED <<query, at, j, rows, status, whole>>

\* The table after realloc(), before anything is read into it.
Grown(count) ==
    {[k \in DOMAIN ipTable \cup 0 .. count - 1 |->
        IF k \in DOMAIN ipTable THEN ipTable[k]
        ELSE [addr |-> r[k].addr, total |-> r[k].total, day |-> "none"]] :
       r \in [0 .. count - 1 \ DOMAIN ipTable -> Rubbish]}

\* Nothing looks at what gzread() returns.  Of a file that is cut in its table the
\* first m entries are read; of entry m, whose total comes last, at most the
\* address; from there on the table stays what it was.
ImportCutTable ==
    /\ Runs("start") /\ AsksForFile
    /\ \E f \in Days : \E t \in Grown(Len(f.slots)), m \in 0 .. Len(f.slots) - 1 :
         /\ slots' = f.slots
         /\ nets' = f.nets
         /\ \E a \in {t[m].addr, FileEntry(f, m).addr} :
              ipTable' = [k \in DOMAIN t |-> IF k < m THEN FileEntry(f, k)
                                            ELSE IF k = m THEN [t[m] EXCEPT !.addr = a]
                                            ELSE t[k]]
    /\ whole' = FALSE
    /\ pc' = "parsed"
    /\ UNCHANGED <<query, at, j, rows, status>>

\* Of one that is cut before that nothing of the table is read.
ImportCutList ==
    /\ Runs("start") /\ AsksForFile
    /\ \E c \in CutLists :
         /\ slots' = c.slots
         /\ nets' = c.nets
         /\ ipTable' \in Grown(c.count)
    /\ whole' = FALSE
    /\ pc' = "parsed"
    /\ UNCHANGED <<query, at, j, rows, status>>

\* Of one without a header tmpVal was never set, and may be over MAX_SUBNET.
ImportDiep ==
    /\ Runs("start") /\ AsksForFile
    /\ whole' = FALSE
    /\ pc' = "dead"
    /\ UNCHANGED <<query, ipTable, nets, slots, at, j, rows, status>>

\* command.c declares the array secretKey as a pointer: the comparison follows
\* the first bytes of the key.  If that does not end the child, it finds some
\* other bytes than the key, and isShowAll stays FALSE.
ShowAll ==
    /\ Runs("parsed")
    /\ query.showAll
    /\ pc' = "dead"
    /\ UNCHANGED <<query, whole, ipTable, nets, slots, at, j, rows, status>>

Unknown ==
    /\ Runs("parsed")
    /\ query.cmd = "other" \/ query.arg = Bad
    /\ Answer("E_INVALID_COMMAND")

-----------------------------------------------------------------------------
(* GetByIP, GetByFlow, GetByTopN up to their loops *)

Asked(c) == Runs("parsed") /\ query.cmd = c /\ query.arg # Bad

\* overMB and topN are unsigned.
n == query.arg % UINT

\* The index that getIPIdx finds in the networks in force (module IpIndex).
SlotOf(a) == {k \in 0 .. Len(slots) - 1 : a \in Addr /\ slots[k + 1] = a}

NotOurs ==
    /\ Asked("getFlow")
    /\ SlotOf(query.arg) = {}
    /\ Answer("E_NO_DATA")

\* The index is not compared with the table's size.
GetByIPBehind ==
    /\ Asked("getFlow")
    /\ \E k \in SlotOf(query.arg) : k >= sumIpCount
    /\ pc' = "overrun"
    /\ UNCHANGED <<query, whole, ipTable, nets, slots, at, j, rows, status>>

\* Mutant of GetByIP: the address is not looked for in the networks first.
GetByIP_NoCheck ==
    /\ Asked("getFlow")
    /\ at' \in IF SlotOf(query.arg) = {} THEN {-2} ELSE SlotOf(query.arg)
    /\ j' = 0
    /\ pc' = "filter"
    /\ UNCHANGED <<query, whole, ipTable, nets, slots, rows, status>>

GetByIP ==
    /\ Asked("getFlow")
    /\ at' \in SlotOf(query.arg) \cap DOMAIN ipTable
    /\ j' = 0
    /\ pc' = "filter"
    /\ UNCHANGED <<query, whole, ipTable, nets, slots, rows, status>>

\* Mutant of TopAccepted: all entries may be asked for.
TopAccepted_All == n > 0 /\ n <= sumIpCount

TopAccepted == n > 0 /\ n < sumIpCount

InvalidParam ==
    \/ Asked("showOverList") /\ n = 0 /\ Answer("E_INVALID_PARAM")
    \/ Asked("showTopList") /\ ~TopAccepted /\ Answer("E_INVALID_PARAM")

\* Mutant of HostFlowCmp: the smallest first.
HostFlowCmp_Up(a, b) == a.total - b.total

\* Positive if b belongs before a.
HostFlowCmp(a, b) == b.total - a.total

\* A table qsort may return: it is not stable.
QsortOf(t) ==
    {u \in [DOMAIN t -> {t[k] : k \in DOMAIN t}] :
       /\ \A k \in DOMAIN t : k > 0 => HostFlowCmp(u[k - 1], u[k]) <= 0
       /\ \A e \in {t[k] : k \in DOMAIN t} :
            Cardinality({k \in DOMAIN t : u[k] = e}) = Cardinality({k \in DOMAIN t : t[k] = e})}

Sort ==
    /\ \/ Asked("showOverList") /\ n > 0
       \/ Asked("showTopList") /\ TopAccepted
    /\ ipTable' \in QsortOf(ipTable)
    /\ at' = 0
    /\ pc' = "walk"
    /\ UNCHANGED <<query, whole, nets, slots, j, rows, status>>

-----------------------------------------------------------------------------
(* Their loops *)

\* The condition of the while loop, where there is an entry to look at.
Goes ==
    \/ query.cmd = "showOverList" /\ ipTable[at].total \div MBYTES >= n
    \/ query.cmd = "showTopList" /\ Len(rows) < n

\* Neither loop asks whether the table has ended: what lies behind is read.
Overrun ==
    /\ Runs("walk")
    /\ at = sumIpCount
    /\ query.cmd = "showTopList" => Len(rows) < n
    /\ pc' = "overrun"
    /\ UNCHANGED <<query, whole, ipTable, nets, slots, at, j, rows, status>>

\* Mutant of Look: the scan of the whitelist goes on where the last one ended.
Look_Further ==
    /\ Runs("walk")
    /\ at < sumIpCount /\ Goes
    /\ pc' = "filter"
    /\ UNCHANGED <<query, whole, ipTable, nets, slots, at, j, rows, status>>

Look ==
    /\ Runs("walk")
    /\ at < sumIpCount /\ Goes
    /\ j' = 0
    /\ pc' = "filter"
    /\ UNCHANGED <<query, whole, ipTable, nets, slots, at, rows, status>>

Finish ==
    /\ Runs("walk")
    /\ at < sumIpCount => ~Goes
    /\ at = sumIpCount => query.cmd = "showTopList" /\ Len(rows) = n
    /\ Answer("S_OK")

Scanning == Runs("filter") /\ j < MAX_WHITELIST /\ whitelist[j] # 0

Compare ==
    /\ Scanning
    /\ whitelist[j] # (IF query.cmd = "getFlow" THEN query.arg ELSE ipTable[at].addr)
    /\ j' = j + 1
    /\ UNCHANGED <<pc, query, whole, ipTable, nets, slots, at, rows, status>>

\* The answer to getFlow has zeroes in it; a list goes on with the next entry.
Hide ==
    /\ Scanning
    /\ whitelist[j] = (IF query.cmd = "getFlow" THEN query.arg ELSE ipTable[at].addr)
    /\ IF query.cmd = "getFlow"
       THEN /\ rows' = <<[ipTable[at] EXCEPT !.addr = query.arg, !.total = 0]>>
            /\ status' = "S_OK" /\ pc' = "answered" /\ UNCHANGED at
       ELSE /\ at' = at + 1
            /\ pc' = "walk" /\ UNCHANGED <<rows, status>>
    /\ UNCHANGED <<query, whole, ipTable, nets, slots, j>>

\* Mutant of Show: a list does not move on.
Show_Stays ==
    /\ Runs("filter")
    /\ j < MAX_WHITELIST => whitelist[j] = 0
    /\ pc' = "walk"
    /\ UNCHANGED <<query, whole, ipTable, nets, slots, j, at, rows, status>>

Show ==
    /\ Runs("filter")
    /\ j < MAX_WHITELIST => whitelist[j] = 0
    /\ IF query.cmd = "getFlow"
       THEN /\ rows' = <<[ipTable[at] EXCEPT !.addr = query.arg]>>
            /\ status' = "S_OK" /\ pc' = "answered" /\ UNCHANGED at
       ELSE /\ rows' = Append(rows, ipTable[at])
            /\ at' = at + 1
            /\ pc' = "walk" /\ UNCHANGED status
    /\ UNCHANGED <<query, whole, ipTable, nets, slots, j>>

-----------------------------------------------------------------------------
(* SIGHUP *)

Busy == pc \in {"start", "parsed", "walk", "filter"}

Reload ==
    /\ Busy
    /\ reloads < MaxReloads
    /\ Load
    /\ reloads' = reloads + 1
    /\ UNCHANGED <<qvars, inForce>>

\* A configuration that does not parse: exit().
BadReload ==
    /\ Busy /\ ~loading
    /\ reloads < MaxReloads
    /\ reloads' = reloads + 1
    /\ pc' = "dead"
    /\ UNCHANGED <<wvars, query, whole, ipTable, slots, at, j, rows, status, inForce>>

ReloadStep ==
    /\ LoadEntry
    /\ UNCHANGED <<qvars, reloads, inForce>>

ReloadDone ==
    /\ LoadDone
    /\ inForce' = inForce \cup {Hidden}
    /\ UNCHANGED <<qvars, reloads>>

Init ==
    /\ WhitelistStart
    /\ pc = "start"
    /\ query \in Question
    /\ \E t \in TodaysTotals :
         ipTable = [k \in 0 .. Len(Today.slots) - 1 |->
                      HostFlowOf(Today.slots, t, k, "today")]
    /\ nets = Today.nets
    /\ slots = Today.slots
    /\ at = 0 /\ j = 0
    /\ rows = <<>>
    /\ whole = TRUE
    /\ status = "E_INVALID_COMMAND"
    /\ reloads = 0
    /\ inForce = {}

Child ==
    \/ Reject \/ NoFile \/ UseToday
    \/ Import \/ ImportCutTable \/ ImportCutList \/ ImportDiep
    \/ ShowAll \/ Unknown
    \/ NotOurs \/ GetByIP \/ GetByIPBehind \/ InvalidParam \/ Sort
    \/ Overrun \/ Look \/ Finish \/ Compare \/ Hide \/ Show
    \/ ReloadStep \/ ReloadDone

Next == Child \/ Reload \/ BadReload

Spec == Init /\ [][Next]_vars /\ WF_vars(Child)

TypeOK == WhitelistType /\ QueryType /\ inForce \subseteq SUBSET Addr

-----------------------------------------------------------------------------
(* Properties *)

OfLists == query.cmd \in {"showOverList", "showTopList"}
Done == pc = "answered" /\ status = "S_OK"
Twice == \E k, l \in DOMAIN ipTable : k # l /\ ipTable[k].addr = ipTable[l].addr
                                      /\ ipTable[k].addr # 0

\* What is behind the table is read only if every entry is over the value asked
\* for; if more than one entry of a top list is hidden: the limit is below the
\* number of entries and a whitelist hides one address, so this takes a reload in
\* the middle of the walk or an address that stands twice in the table; or if one
\* address is looked up in the networks that a cut file has left.
OverrunHasCause ==
    pc = "overrun" =>
       \/ /\ query.cmd = "showOverList"
          /\ \A k \in DOMAIN ipTable : ipTable[k].total \div MBYTES >= n
       \/ /\ query.cmd = "showTopList"
          /\ reloads > 0 \/ Twice
       \/ query.cmd = "getFlow" /\ ~whole

Over(k) == ipTable[k].total \div MBYTES >= n

\* README: "Can list top flow's IP addresses", "list overflow IP addresses".  If
\* the whitelist is not loaded meanwhile, a list is what it is asked for: the
\* visible entries over the value, or as many of the largest visible ones.  (A
\* scan that goes on in a new array may hide what neither array hides.)
ListIsRight ==
    Done /\ OfLists /\ reloads = 0 =>
       LET visible == {k \in DOMAIN ipTable : ipTable[k].addr \notin Hidden}
           shown   == {rows[r] : r \in DOMAIN rows}
       IN  /\ \A r \in DOMAIN rows : \A s \in 1 .. r : rows[s].total >= rows[r].total
           /\ query.cmd = "showOverList" =>
                /\ shown = {ipTable[k] : k \in {x \in visible : Over(x)}}
                /\ Len(rows) = Cardinality({x \in visible : Over(x)})
           /\ query.cmd = "showTopList" =>
                /\ Len(rows) = n
                /\ shown \subseteq {ipTable[k] : k \in visible}
                /\ \A k \in visible : ipTable[k] \in shown \/
                     \A e \in shown : e.total >= ipTable[k].total

\* An address that was hidden all through the query is not shown, whenever the
\* whitelist was loaded again.
HiddenAllAlong ==
    Done => \A r \in DOMAIN rows :
        (\A H \in inForce : rows[r].addr \in H) => rows[r].total = 0 /\ ~OfLists

\* An answer about today shows today's traffic.  One about another day shows that
\* day's if its file is whole and, for a list, has no fewer entries than the table
\* of today: of a file that a crash has cut, today's entries stay behind what was
\* read, and getFlow shows them too.
OfTheDayAsked ==
    Done => \A r \in DOMAIN rows :
       /\ query.date = "today" => rows[r].day = "today"
       /\ query.date = "file" /\ whole /\ (OfLists => sumIpCount = Len(slots)) => rows[r].day = "file"

\* README: "Provide white list which can hide some IP addresses' record".  No
\* list shows an address of the whitelist.
WhitelistHides ==
    Done /\ OfLists => \A r \in DOMAIN rows : \A k \in DOMAIN whitelistIps :
        rows[r].total > 0 => rows[r].addr # whitelistIps[k]

\* Every query is answered, or ends the child, or runs off the table: neither
\* loop stands still, also if the handler runs in the middle of it.
QueryEnds == <>(~Busy)

=============================================================================
