# flowstatd, specified and checked

flowstatd receives NetFlow datagrams, counts the traffic of every address of
some configured networks per hour and day, answers queries about it over TCP,
and keeps one gzipped file per day. This directory holds TLA+ models of it, the
TLC configurations that check them, and proofs for TLAPS. Paths such as
`flowstatd.c:525` are relative to `src/src/`.

    tlc -workers 2 -config day_calm.cfg MCDayStore     one run
    tlapm LedgerProofs.tla                             the proofs of one module

`PROJECT.json` lists the parts of the system, the runs, the mutants that show
each property to be sensitive to the code, the source lines of every
definition, the hazards, the disagreements found and the theorems.

## 1. The system

One process, no threads. `main()` reads the configuration, sorts the networks,
imports today's file if there is one, installs signal handlers, and loops over
`select()`. Concurrency comes from four places: signal handlers that may run
between any two instructions, children that `fork()` gives a copy of all
memory, other processes' files (a child and the daemon write the same names),
and the network.

| Component | State | Operations | Hard behaviour | What makes it correct |
|---|---|---|---|---|
| Daily accounting and persistence (`flowstatd.c`, `socket.c` handlers, `netflow.c:122-175`) | `ipTable`, `localtm`, `preHour`, files | add a flow, rollover, `ExportRecord`, `ImportRecord`, `Exits`, `Update` | signals inside the rollover or between three `+=`; a child that reads the clock later; crashes while writing; files cut at any byte; quiet hours; short days | a file and the table hold one day; what leaves memory is on disk; old files are final |
| Address index (`netflow.c:83-119`, `flowstatd.c:281-398`, `command.c:42-110`) | `rcvNetList`, `nSubnet`, `sumIpCount` | `LoadConfig`, `qsort`, `getIPIdx`, import of another list | arithmetic on network-order addresses; a sort whose comparator overflows; prefixes no check rejects; an imported list, whole or cut | no address is missed, none shares an entry, entries are in the table: for which lists |
| NetFlow handlers (`netflow.c`, `netflow_handler_v5.c`, `netflow_handler_v9.c`) | `g_templateTable` | version dispatch, v5 records, v9 templates, options, data | UDP; data before its template; collisions in the template table; restarts; templates and flowsets without a length | a record is decoded with its own layout, none is lost or made up, the handler returns |
| Flow time conversion (`fttime.c`, `netflow.c:122-175`) | none | `ftltime`, `ConvertNfTime`, the choice of hour and direction | 32-bit borrow and carry, uptimes that wrap, word size, days of the month | a flow is counted in the hour it began, or for a known reason not at all |
| Server loop, query processes, signals (`flowstatd.c:470-571`, `socket.c`, `multiplex.c`) | descriptors, children, socket buffers | `select`, `recvfrom`, `accept`, `fork`, alarm, handlers | both sockets ready at once; silent and slow clients; alarm during the answer; signals that reach children | answers are latest, nobody blocks the daemon, children end |
| Query commands (`command.c`) | the child's table | `parseCmd`, `GetByIP`, `GetByFlow`, `GetByTopN` | files with fewer or more entries than the table, or cut; loops over the sorted table without a bound; a reload in between | a list is the right one; loops stay in the table or leave it for a known reason; a query ends |
| Whitelist (`flowstatd.c:50-100`) | `whitelist` | load at start and at SIGHUP | an index advanced in two loops, zero as the end mark | what is listed is hidden |
| Configuration, logging, JSON, scripts in `utils/` | none that changes later | | | not modelled (section 7) |

How they meet: a datagram goes from `main()` (which first updates `localtm` and
perhaps rolls over) to `AddFlowData`, to a version's handler, to
`InsertNfInfoToIpTable`, which asks `ftltime` for the hour and `getIPIdx` for
the entry. A query goes from `accept` to a child, `parseCmd`, and `GetBy...`,
which may import another day's file over its copy of the table or sort it, and
leave out what the whitelist hides.

## 2. The modules

Each component is one module with its state, one action per step that another
actor can observe or interrupt, and its properties at the end. Definitions
named `X_Something` right before `X` are mutants: plausible bugs of `X`, used
only to show that a property notices them. `MC...` modules hold the values of
constants that a `.cfg` cannot express.

**`DayStore`** (`MCDayStore`, `DayStoreProofs`, `LedgerProofs`). Days, hours,
the table and the files. A counter is the *set* of flows added to it, so that a
merged or torn sum stays visible. A file is the set of tables its reader may
get: `{}` without a file, `{t}` if saved whole, with `Corrupt` in it while
`gzopen("wb")` has cut it or if the writer died. Actions and code: `Recv` is
`recvfrom`, `localtm`, the rollover test and, at midnight, the first half of
`ExportRecord` (`flowstatd.c:513-526`); `CloseRollover`, `Clear` the rest of
the rollover; `Add` one `+=` of `InsertNfInfoToIpTable`; `Exits`/`CloseExits`
and `Update`/`OpenUpdate`/`CloseUpdate` the handlers and the child, split where
the code opens and closes the file; `Import`/`ImportDiep` `ImportRecord`, which
takes of a cut file any `Prefix` of a table, also one that ends within an entry,
between its hourly counters and its totals;
`Kill`, `RecvDiep`, `UpdateBadConfig`, `KillChild` the ways to die. Exports are
split because a signal, a child or a crash can come in between. `overlap` is
history: the daemon was started while a child of its predecessor was still
writing. It imported the file from before then, and its next export undoes
what the child saved, so `NothingOverwritten` excludes that case.

**`DayLedger`** is what the daemon promises with all that: a ledger with one
page per day. Flows of a day are entered on its open page, in memory; a page
may be saved at any time (and is cut while it is); only a page that is in the
book as it stands makes room for the next one; an orderly end saves the whole
page; a crash loses the open page and, in the middle of a save, what the book
had of it. `DayStore!KeepsLedger` maps to it with `INSTANCE ... WITH`:

| `DayLedger` | `DayStore` |
|---|---|
| `today` | `now.day` |
| `open` | `localtm.day` while the daemon counts, the day before it in the rollover, `{}` while it is down or importing |
| `page` | the flows that all counters of `ipTable` have |
| `book[d]` | `{}` while the file is cut, else the flows of the table in it |

The page therefore turns with the `memset`, not with the datagram that calls
for the rollover, and a flow is entered with the last of its three `+=`.

**`IpIndex`** (`MCIpIndex`, `IpIndexProofs`). Addresses are the integers the
code computes with on a little-endian machine, first octet least significant,
with `Octets` octets of `OctetBits` bits, and `uint` and `int` have that width:
`sumIpCount` wraps, `idx` comes back as an `int` (`AsInt`). `LoadConfig` takes
any prefix, since the check in the code rejects none; what a shift by the word's
width or more does is undefined and the constant `ShiftWraps`. `RcvNetListCmp`
wraps like the `int` of the code; `Sort` leaves any order `qsort` may leave for
that comparator; `GoLeft`, `GoRight`, `Hit`, `Miss` are the iterations of
`getIPIdx`. An import only ever grows the table, and there are four: of a whole
file (`Import`); of one that ends in its header or is empty (`ImportCutHeader`:
the numbers it lacks are what `tmpVal` held, any of `Garbage`); of one that ends
in its list (`ImportCutList`: the subnets behind the end are those that were
there, or zeroes, and one may be half new); and `ImportDiep`, where the count
is above `MAX_SUBNET`. `whole` is history: the list in force is not one of a
cut file. `NoFalseMiss`, `EntryInTable` and `OneEntryPerAddress` are stated for
such lists only, because they do not hold of the others; `LookupEnds` is stated
for all.

**`Netflow`** (`MCNetflow`, `NetflowProofs`). `network` is the set of all
datagrams ever sent: a datagram that is never received is lost, one that is
received again was duplicated, and any order is possible. `Receive` is `memset`
and `recvfrom` (`filled` says how far `buf` holds something else than zeroes),
then comes one step per flowset. `InsertFlowEntryV5` hands over the second to
the last record and what `buf` holds behind the last, as the code does.
`StayAtUnsized` is the turn of the loop over the flowsets that meets a length
field of 0 and stays where it is. `Decoded` is the loop of `_HandleData` with its end
condition, header and padding included; what an uninitialized start time lets
through is a choice. A layout of length 0 keeps that loop where it is.

**`FlowTime`** (`MCFlowTime`, `FlowTimeProofs`). An exporter with a clock and
an uptime that wraps and starts again, one flow and datagram at a time, a
network that delays and loses, and the daemon's arithmetic: `ftltime` with its
borrow and carry modulo `Word` and its division of the header's nanoseconds by
`Nano`, the 32-bit seconds read as a `time_t`
(`WideTime` says how wide that is), `localtime`, and the rules by which
`InsertNfInfoToIpTable` picks hour and direction. Each datagram carries, as
history, the flow it stands for.

**`Whitelist`** (`WhitelistProofs`). `LoadWhitelist`, one turn of its outer
loop per step. `Hidden` is what a reader of the array finds. It has a
specification of its own, which `Query` implements.

**`Query`** (`MCQuery`, `QueryProofs`) extends `Whitelist` with a whole query in its child:
`parseCmd`'s checks, the import of another day, `GetByIP`, `GetByFlow` and
`GetByTopN` step by step with the scan of the whitelist as the inner loop. The
inherited SIGHUP handler may load the whitelist again between any two steps. An
entry of the table is an address, a total and, as history, the day it is of
(`none` for what `realloc` brings). `Import` reads a whole file;
`ImportCutTable` one that ends in its table, behind which today's entries stay;
`ImportCutList` one that ends before that, so that the table is today's and the
networks are one of `CutLists`; `ImportDiep` ends the child. `Overrun` and
`GetByIPBehind` are the steps that read behind the table: the list commands'
loops, and `getFlow` with an index that `getIPIdx` found in a cut list.

**`Server`** (`MCServer`, `ServerProofs`). The loop of `main()` with what
`select()` found and the inner loop's remaining iterations, the socket's
buffer, the queue of `listen`, one child per client, its alarm and whether its
socket buffer is full, and the signal handlers in daemon and children. A table
is reduced to the day it is about, the datagrams it covers and whether it is in
index order; its contents are DayStore's. `select()` is one look at both
sockets.

Apart from `Query` and `Whitelist`, and `DayStore` and `DayLedger`, the modules
are not composed into one specification. What they hand each other is small and
stated at the border: `Server.Recv` adds one datagram to the table (that is
`Netflow` followed by `DayStore.Receive`/`Add`); `Server.Saved` is
`DayStore.OpenExport` to `CloseExport`; `Netflow.inserted` is what `FlowTime`
places and `DayStore.Receive` starts from, `IpIndex.Entry` is where it is
added, and `Query.SlotOf` takes that entry as found.

## 3. Runs that pass

| Run | Question | Properties |
|---|---|---|
| `day_calm` | In a friendly environment (traffic in every hour, signals away from midnight and from other exports, a working disk), with restarts and crashes: is accounting per day right? | `OneDayPerFile`, `OneDayInMemory`, `NothingDiscarded`, `NothingOverwritten`, `PastDaysSettled`, `KeepsLedger` |
| `day_storm` | In a hostile one (quiet hours, signals at any instant, failing disk): what remains true? | `NoFutureFlows`, `ImbalanceIsTorn` |
| `ip_index` | Networks of one length in one half of the address space, odd prefixes, imports of whole and cut files: is every address found, once, in the table, and does the search end? | `NoFalseMiss`, `EntryInTable`, `OneEntryPerAddress`, `LookupEnds` |
| `netflow` | Lost, repeated, reordered datagrams, colliding template ids, a reconfigured exporter, a template and a flowset without a length, restarts | `MisreadHasCause`, `NoPhantomRecord`, `DataCounted`, `HandlerReturns` |
| `flow_time` | Wrapping uptimes, restarted exporters, delays over midnight: where is a flow counted? | `StartFound`, `CountedWhereItBegan`, `MissedForAReason` |
| `server` | Silent, slow and vanishing clients, alarms, signals to the daemon or the group | `AnswersAreLatest`, `DatagramsAreRead`, `AcceptedOrBlocked`, `ChildrenEnd` |
| `query` | Every query, about today or a file of another size or a cut one, with a reload in the middle of it | `OverrunHasCause`, `ListIsRight`, `HiddenAllAlong`, `OfTheDayAsked`, `OnlyFirstHidden`, `QueryEnds` |

Each also checks its module's `TypeOK`, except `day_storm`: `DayStoreProofs`
proves DayStore's for all values.

Bounds, and why they are enough:

- `day_calm`: 3 days of 3 hours, so that there is a first hour, a last hour and
  one that is neither; two midnights; 2 flows, so that one can be counted
  before and one after a rollover or crash; 3 starts, so that a run is
  restarted from a file that a restarted run wrote. Two of the three `+=`.
- `day_storm`: 2 hours a day, all three `+=`, 2 starts and 1 flow. Both its
  properties speak of one flow at a time (its day, the counters it is in), and
  flows do not influence each other except through the clock.
- `ip_index`: addresses of 2 octets of 3 bits, every list of up to 3 networks
  of one octet (0, 1, and 9, which is 1 with host bits set); three is the least
  length at which the search can turn both ways. Also lists of single addresses;
  prefixes of 0 and of more than the width; and two networks whose sizes add up
  to the whole address space, so that `sumIpCount` wraps to 0. Two imports: one
  of a cut file, and one of a whole file behind it or before it. `Garbage` has
  a small, a fitting and a large number; the large one is above `MaxSubnet`.
- `netflow`: two exporters and two template ids that share a slot, four
  layouts (complete, without a start, without a destination, without bytes), 2
  records per flowset or version 5 datagram, so that a long one can come before
  a short one, padding 0 and 3 (the extremes), 3 datagrams: enough for
  a template, a template that replaces it and data that meets the wrong one,
  each repeated at will.
- `flow_time`: a millisecond of 2 ns, a second of 3 ms, an hour of 2 seconds, a day of 2 hours, a
  month of 5 days, a word of 97 ms: no whole number of seconds and about 1.6
  months, as 2^32 ms are. 125 ms let an uptime wrap whether or not the
  exporter is restarted in its second day (a restart in its fourth sets it back
  before it wraps); every boundary of
  second, hour, day, month and word is met by starts on either side of it.
  Flows last up to a day, datagrams travel up to a second.
- `query`: a table of 4 entries with equal totals and an entry that counted
  nothing, an address that two networks contain, files with as many entries,
  fewer and more, each whole or cut behind any of its entries; three lists that
  a file cut before its table leaves, some of which lead behind the table; new
  memory that looks like an address and its total; a whitelist array of 3 and
  lists of none to three addresses
  (with an unparsable one, one in two networks and one in none), limits from
  below 0 to the size of the table, one SIGHUP. One reload shows everything a
  reload does to a scan; more would only repeat it.
- `server`: 2 clients and 2 datagrams: two datagrams and a client make the
  rounds with both sockets ready, two clients make one wait while the other is
  served. The backlog (3, what Linux makes of `listen(sockfd, 2)`) is more
  than the clients can fill; a client connects once.

Deadlock is checked where the system never stops (`ip_index`, `netflow`). The
clocks of DayStore and FlowTime end with the model and the daemon may stay
down; in `server` every client may have been served and the daemon ended; a
query's child ends. Those cfgs say `CHECK_DEADLOCK FALSE`.

The environment assumptions of `day_calm` are constants of the module, and not
idle: without `HourlyTraffic` see `missed_rollover`; without `CalmSignals` the
child of a SIGHUP just before midnight writes yesterday's table to today's
file; without `DiskOK` a full disk loses a day. `Skipped` is the set of hours
daylight saving time leaves out, empty in all runs: with one, `Yesterday` (86400
seconds before hour 0, `flowstatd.c:118`) is the day before yesterday, and
`NoFutureFlows` is the property that breaks.

### Fairness

- `IpIndex!FairSpec`: `WF(Search)`; `Netflow!FairSpec`: `WF(AddFlowData)`.
  Loops of a running process; nothing in them waits. `HandlerReturns` names the
  two cases in which that is not enough: a slot whose layout has length 0, and a
  flowset whose length field is 0.
- `Query!Spec`: `WF(Child)`, the child and its handler run. Nothing is assumed
  of the operator, who may or may not send SIGHUP.
- `Server!FairSpec`: weak fairness of `main()`, of each child and of its alarm:
  the operating system runs what can run and a timer goes off. Nothing is
  assumed of clients, exporters or operators. `DatagramsAreRead` and
  `AcceptedOrBlocked` therefore also hold against clients that never write or
  read. Where the daemon waits inside `recvfrom`, `Main` is not enabled.

The other properties are safety properties of `Spec` alone.

## 4. Runs that show a disagreement

Each states what the documentation says, and TLC finds it violated.
`PROJECT.json` quotes the line.

| Run | Statement | What happens |
|---|---|---|
| `missed_rollover` | `OneDayInMemory`, without traffic in every hour | the rollover needs one datagram in hour 23 and the next in hour 0; else two days are counted as one (`flowstatd.c:525`) |
| `v5_lost` | `Version5Counted` | the first record of every version 5 datagram is stepped over (`netflow_handler_v5.c:80`) |
| `ctrl_c` | `TodaysFileIsToday` | a child asked about another day, or for a top list, saves *its* table as today's when Ctrl-C (the daemon runs in the foreground by default) or killall reaches it (`flowstatd.c:546`) |
| `whitelist` | `WhitelistHides` | `whitelist[i++]` in the inner loop and `++i` in the outer one leave a zero after every address; readers stop there, and only the first address of the list is ever hidden (`flowstatd.c:91`) |
| `wide_time` | `CountedWhereItBegan`, with a `time_t` of 8 bytes | the milliseconds are read as the upper half of the start time (`netflow.c:138`): flows are counted on days and in hours in which they did not begin |

The models contain more that no run is spent on, each reached by changing a
constant or stating one property: a day of 23 hours (above); the comparator of
`qsort`, which overflows for networks 2^31 apart, after which `NoFalseMiss`
fails (`flowstatd.c:397`); a /25, whose shifted host part sends two addresses
to one entry (`netflow.c:105`); a second `recvfrom` on an empty socket, which
keeps the daemon from a waiting client (`flowstatd.c:511`, the exception in
`AcceptedOrBlocked`); an import of a cut file, after which `getIPIdx` returns
indices outside the table (`EntryInTable` without `whole` in `Sound`, by
`ImportCutList`, `flowstatd.c:177`) and `getFlow` shows today's traffic for
another day (`OfTheDayAsked` without `whole`).

## 5. Proofs

TLAPS checks these for every value of the constants; the only assumptions are
the named `ASSUME`s of the modules (types of the constants; an hour count above
1; at most one skipped hour a day; a word of more than two seconds; for
`IpIndex` three facts of arithmetic that the provers lack, `2^1 = 2`, `2^k > 0`
and `2^(j+k) = 2^j * 2^k` up to the width of an address) and the hypotheses written
in the theorems.

- `DayStoreProofs!ClockInvariant`, `TypeCorrect`. `ClockInv` is `TypeOK` with
  what makes it inductive: `localtm` is never ahead of the clock, and outside
  the rollover `preHour` is `localtm`'s hour. Without it `Yesterday` could be
  day -1: the rollover happens only if `preHour` was the last hour, so that
  the clock has passed a midnight (`MidnightPassed`).
- `NothingFromTheFuture` (`NoFutureFlows`, hypothesis: no hour is skipped).
  `PastInv` adds the tables in the hands of the writers and of the SIGHUP child
  and the flows still to be added: every copy that can reach a file later is
  bounded by the day it will be saved under. Nothing is assumed about traffic,
  signals or the disk.
- `FilesHoldOneDay`, `MemoryHoldsOneDay` (hypotheses: hourly traffic, calm
  signals, no skipped hour). `DayInv` replaces "no later" by "exactly", and
  needs that the daemon's `localtm` is at most one hour behind the clock and
  that in the rollover the table is of the day before.
- `OnlyTornDisagree` (`ImbalanceIsTorn`, no hypothesis: any signal, crash, cut
  file, skipped hour). `TornInv` says of a flow under way that each counter has
  it or has it still to come, all of them while `main()` is in the rollover, and
  that every copy of a table that can reach a file, in the hands of a writer or
  a child, disagrees about torn flows only. What a reader gets of a cut file may
  end within an entry; the flows that this separates are torn from then on, so
  that the theorem says of an import what it may add: nothing if the file is
  whole, and flows of one entry if it is not.
- `LedgerProofs!NothingIsDiscarded`, `PastIsSettled`, `NothingIsOverwritten`,
  `ImplementsLedger`
  (hypotheses `Calm`: those of `FilesHoldOneDay`, a working disk, at least one
  counter). `LedgerInv` adds to `DayInv` who may be writing what: at most one
  export at a time, whose file is cut (`OneExport`); the daemon's own export is
  of the table in memory, under the day it is of (`ExportFits`); the rollover
  is over before the clock reaches another day, and by the `memset` the file
  holds the table (`RolloverFits`). `NothingIsDiscarded` and `PastIsSettled`
  are the two halves of "committed before forgotten, and then left alone".
  For `NothingIsOverwritten`, `GrowInv` adds that days to come have no files
  (`BlankAhead`) and that memory has all that today's file has, and all that the
  child has which will write it (`MemoryKeeps`).
  `ImplementsLedger` is the refinement: `PageStep` maps the steps that leave the
  files alone, `FileStep` those that open and close them, by way of what they
  do to `Book` (`BookCut`, `BookSaved`).
- `IpIndexProofs!SearchFindsAll` (`NoFalseMiss`, for lists of one prefix length
  whose differences do not wrap, that came whole). The loop invariant: every network left of
  `leftPos` or right of `rightPos` is not the one looked for. It rests on the
  sortedness of what `qsort` leaves; the comparator orders *neighbours*, and
  `NeighboursAscend` goes from there to all pairs by a least counterexample,
  since induction over an operator is not available to the provers.
- `IpIndexProofs!TypeCorrect`, `EntryAlwaysInTable` (`EntryInTable`), without a
  hypothesis: which lists the property is about is part of it (`Sound`: from the
  configuration or a whole file, no mask of zeroes, at most half the address
  space in all, so that `idx` is not negative). `TableInv` adds that such a list
  needs no more entries than the table has (`Base(rcvNetList, nSubnet) <=
  sumIpCount`), which imports keep because the table only grows: an import of a
  cut file leaves the size of the table unknown, but the next whole one makes it
  large enough again. Where the sum of the addresses wraps, this says nothing,
  and nothing is claimed. The lemmas about `Base`, a sum over the list that the
  code computes as it goes, say what a step adds (`BaseStep`), that it grows
  (`BaseGrows`), that it is the same for a list and the array that holds it
  (`BaseReplace`) and that the order `qsort` leaves does not change it
  (`QsortKeeps`); the host index stays below the size of its network because the
  mask clears exactly that many bits, and the shift takes off some of them
  (`HostIndexBelow`).
- `IpIndexProofs!AddressesApart` (`OneEntryPerAddress`; hypothesis: every mask
  is of whole octets). The entries of different networks are apart by
  `EntryRange`; within one network the masked bits are the low ones
  (`MaskedOctets`), so that an address is its network and its host index
  together. With a /25 this is false, and so is the property (section 4).
- `IpIndexProofs!SearchNarrows`: each step of `getIPIdx` ends the search or
  shrinks the interval, whatever list a short read has left. This is the safety part of `LookupEnds`.
- `NetflowProofs!TypeCorrect`, `MisreadsAreCollisions`, `NoRecordMadeUp`,
  `AllRecordsCounted`. `CacheInv`: every datagram under way holds its
  exporter's own layouts, every slot of the cache holds a layout that one of
  the exporters sharing the slot uses, and `buf` is zero behind the records of
  the version 5 datagram in it, whatever longer ones came before. `NoRecordMadeUp` assumes that a layout
  with both addresses and the bytes is longer than 7 bytes, which two 4-byte
  addresses alone are; `AllRecordsCounted` assumes nothing. Both reduce the end
  condition of the loop to an inequality about multiples of the record length.
- `FlowTimeProofs!TypeCorrect`, `StartIsFound`, `MissesAreExplained`. `TimeInv`
  says what a datagram in flight tells of the exporter's clock and uptime; from
  it the borrow and the carry of `ftltime` cancel out, for any length of second
  and word; `InMillis` and `OfMillis` say that the division of the nanoseconds
  gives the milliseconds. `MissesAreExplained` assumes a `time_t` of 4 bytes and that Unix
  time fits in the word, and adds that all starts lie in that range.
- `FlowTimeProofs!CountedOnTheirDay` (`CountedWhereItBegan`). Without a wrap the
  start that `ftltime` gives is the start; with one it seems a word later, and
  the flow must not be counted. `CountInv` bounds how old a flow is when it is
  reported and how late a datagram arrives, so that the uptime wrapped once at
  most (`OneWrap`). What rejects the flow is that `InsertNfInfoToIpTable`
  compares the *day of the month*, and this is enough only by the ratio of word
  and month, hypothesis `NoAlias`: the word is more than a whole number of
  months, one day and the delays, and less than one month more without a day.
  2^32 ms are 49.7 days: more than 32 and, for exporters that report within two
  weeks, also with the waiting; less than 61. With a month of 49 days flows
  would be counted on the wrong day. The other hypotheses are the `time_t` of 4
  bytes (`wide_time` is the run without it) and that seconds fit in the word.
- `WhitelistProofs!OnlyTheFirst` (for any list, networks and array size),
  `QueryImplementsWhitelist`, and their consequence for queries,
  `QueriesHideTheFirst`. `LoadInv`: once the first entry of the list is done, it
  fills as many places from the start as networks contain it (none, perhaps),
  the place behind them holds a zero, and the index is past that.
- `QueryProofs!QueryTypes`, with `ShapeInv`: a position that is looked at is
  inside the table, one that is walked to is not beyond its end, and a walk has
  a number to compare with.
- `QueryProofs!AnswersForTheDay` (`OfTheDayAsked`), with `DayInv`: if the file is
  whole, then until the answer is begun the entries of the networks in force are
  of the day asked for; those behind them, which `ImportRecord` leaves, are
  reached by lists only. Of a cut file nothing is promised: what it did not bring
  is today's, for lists and for `getFlow`.
- `QueryProofs!HiddenNotShown` (`HiddenAllAlong`), for any number of reloads at
  any points. `SeenInv`: `whitelist` holds one address up to its first zero, at
  every instant of a load (from `WhitelistProofs`), so an address that got past
  the first place was not hidden by the array of that time, which is in the
  history. That each array hides one address at most is what makes a scan that
  goes on in another array harmless.
- `QueryProofs!OverrunCauses` (`OverrunHasCause`). `OverInv`: an over list has
  only entries over the value behind it; a top list has a row for each entry
  behind it but one, since a second hidden entry would be the same address
  twice (`HiddenIsFirst`); `n < sumIpCount` does the rest. `WholeInv`: in the
  networks of a whole file nothing leads behind the table, so that `getFlow`
  leaves it after a cut file only.
- `QueryProofs!ListsAreRight` (`ListIsRight`), the most there is to say of a
  list. `CalmInv`: without a reload, what a scan has passed is neither zero nor
  the address it looks for, so that it ends with a match exactly if the address
  is hidden (`ScanIsRight`). `WalkInv`: the rows are the visible entries walked,
  as many and in descending order. At the end of the loop nothing that follows
  can belong to the answer: `qsort` orders neighbours, `NeighboursDescend` all
  pairs, and dividing by `MBYTES` keeps the order (`DivMono`).
- `ServerProofs!TypeCorrect`, `AnswersCoverArrivals` (`AnswersAreLatest`). `LatestInv`: every
  datagram that arrived is in the table or in the socket (`Counted`); in a
  round that will accept, the table covers all that had arrived when the
  waiting client connected (`Rounds`); a child starts with a table of today
  (`StartsToday`). It says in one place why answering from a forked copy is not
  answering from a stale one.

Checked by TLC only: the liveness properties (`LookupEnds`, `HandlerReturns`,
`QueryEnds`, `DatagramsAreRead`, `AcceptedOrBlocked`, `ChildrenEnd`), since
fairness and `ENABLED` are outside the prover. Every safety property of a run
that passes is also a theorem, for every value of the constants under the
hypotheses given here. The invariants of the proofs were checked by TLC on the
constants of the runs before they were proved.

## 6. Limits of the models

- A gzip stream that two processes write at once, or that was cut, reads as one
  of the tables written to it, as the beginning of one up to any counter, or not
  at all; mixtures of two, and a cut within the eight bytes of one counter, whose
  value is then a sum nobody counted, are not enumerated.
- `IpIndex`: of a subnet that is cut the fields are read or not; the bytes of a
  field are not told apart. A file that a run saves while it has the list of a
  cut file in force counts as cut. `Garbage` and `ShiftWraps` are constants.
  Nothing is written outside the table by the model: what an index beyond it
  does to other memory is not followed.
- One SIGHUP child at a time: in `day_calm` because the operator waits for it,
  in `day_storm` as a bound. A SIGHUP during the import forks an empty table;
  a second copy of the table in the half-imported state is not enumerated.
- At most one flow that counts per datagram in DayStore; flows started today or
  yesterday.
- `FlowTime`: the clocks of exporter and daemon agree, the time zone is whole
  days off, one flow is under way at a time.
- `Query`: `qsort` gives any order its comparator allows; a handler runs to its
  end; writes of `LoadWhitelist` behind the array go to other variables and are
  not followed; what lies behind the table is not either (`Overrun` ends the
  query). The index that `getIPIdx` finds is taken from the list in force. A
  scan that a reload interrupts may hide an address that neither list hides;
  lists show entries that counted nothing as 0.0.0.0 when limit or value let
  them. Which lists a cut file leaves is the constant `CutLists`; a total that is
  cut within its bytes stays as it was. After `secretKey`'s comparison follows a pointer made of the key's
  bytes (`command.c:312`), the child ends or goes on as if the key were wrong.
- `Server`: a failing `recvfrom` and an interrupted `select` change nothing and
  are left out; a client connects once; a child's answer is one part before and
  one after the point where its socket buffer fills.
- `Netflow`: the length field of a flowset is that of its contents, or 0; other
  wrong lengths are left out. The record behind the last of a version 5 datagram
  of 170 records lies partly behind `buf`; its addresses are still inside, and
  zero. What the handler hands over with addresses of zero counts for nobody,
  unless a network contains 0.0.0.0, which is not modelled. Templates have at
  most the 128 fields that `Template` can hold; data flowsets that belong to an
  options template are left out; addresses of the template table but not its
  memory.

## 7. Not modelled

Logging (`liblogger`) and JSON (`jansson`): their sources are submodules and
not in the repository. The scripts in `utils/`: they read the files outside the
daemon. The `kqueue` variant of the multiplexer, compiled only with
`USE_KQUEUE`: it looks at the same two sockets, and both variants in `Server`
are too many states for one run. `bigsockbuf`, which sets a buffer size.
Reading of ports, paths, keys and log settings: no state that changes later.

## 8. What remains

1. Several SIGHUP children at once, and Exits against them: which export wins.
2. The `kqueue` loop as a module of its own that shares `Server`'s children.
3. Flowset lengths other than 0 that disagree with their contents, and what a template of
   more than 128 fields leaves in the cache.
4. The safety parts of the other liveness properties, as `SearchNarrows` is one
   of `LookupEnds`: a measure that every step of a walk, of a datagram's
   flowsets and of a load of the whitelist makes smaller.
