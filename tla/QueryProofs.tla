----------------------------- MODULE QueryProofs ----------------------------
(***************************************************************************)
(* Proofs about Query, for every table, whitelist, file and question, and  *)
(* any number of reloads in the middle of the query.                       *)
(*                                                                         *)
(* ShapeInv is about types.  DayInv is about the day of every entry and    *)
(* row, SeenInv about what was compared with the array at the beginning of *)
(* a scan.  CalmInv says how far a scan has come that no reload disturbs,  *)
(* OverInv what a list has passed by, WalkInv what it shows.               *)
(***************************************************************************)
EXTENDS WhitelistProofs, FiniteSetTheorems

\* Where the loops of GetByIP, GetByFlow and GetByTopN are.
Walking == pc \in {"walk", "filter", "overrun"}

Shape ==
    /\ pc \in {"start", "parsed", "walk", "filter", "answered", "overrun", "dead"}
    /\ query \in Question
    /\ \E m \in Nat : ipTable \in [0 .. m - 1 -> HostFlow]
    /\ slots \in Seq(Entry)
    /\ at \in 0 .. sumIpCount
    /\ j \in 0 .. MAX_WHITELIST
    /\ rows \in Seq(HostFlow)
    /\ status \in Status
    /\ inForce \subseteq SUBSET Addr
    /\ pc = "filter" => at < sumIpCount
    /\ Walking => /\ query.arg # Bad
                  /\ OfLists \/ (pc # "walk" /\ query.cmd = "getFlow" /\ query.arg \in Addr)

ShapeInv == LoadInv /\ Shape

\* An import of a file that is cut short.
ImportCut == ImportCutTable \/ ImportCutList \/ ImportDiep

\* The number of entries of a table.
LEMMA SizeOf ==
    ASSUME NEW m \in Nat, NEW t, DOMAIN t = 0 .. m - 1
    PROVE  Cardinality(DOMAIN t) = m
<1>1. Cardinality(0 .. m - 1) = IF 0 > m - 1 THEN 0 ELSE m - 1 - 0 + 1
  BY FS_Interval
<1> QED
  BY <1>1

LEMMA TableSize ==
    ASSUME Shape
    PROVE  /\ sumIpCount \in Nat /\ IsFiniteSet(DOMAIN ipTable)
           /\ ipTable \in [0 .. sumIpCount - 1 -> HostFlow]
           /\ DOMAIN ipTable = 0 .. sumIpCount - 1
<1>1. PICK m \in Nat : ipTable \in [0 .. m - 1 -> HostFlow]
  BY DEF Shape
<1>2. sumIpCount = m
  BY <1>1, SizeOf DEF sumIpCount
<1> QED
  BY <1>1, <1>2, FS_Interval

\* The arguments of the queries that are answered.
LEMMA ArgType ==
    ASSUME Shape, query.arg # Bad
    PROVE  query.arg \in Int /\ n \in Nat
<1>1. query.arg \in Int
  BY QueryAssumption DEF Shape, Question
<1> QED
  BY <1>1, QueryAssumption DEF n

\* An entry of a table that is taken from a file or copied from the daemon.
LEMMA HostFlowOfType ==
    ASSUME NEW s \in Seq(Entry), NEW t \in [DOMAIN s -> Nat],
           NEW k \in 0 .. Len(s) - 1, NEW d \in {"today", "file"}
    PROVE  HostFlowOf(s, t, k, d) \in HostFlow /\ HostFlowOf(s, t, k, d).day = d
<1>1. k + 1 \in DOMAIN s /\ s[k + 1] \in Entry /\ t[k + 1] \in Nat /\ 0 \in Entry
  BY DEF Entry
<1> QED
  BY <1>1 DEF HostFlowOf, HostFlow

\* What a query child starts with.
LEMMA ShapeInit == Init => ShapeInv
<1> SUFFICES ASSUME Init PROVE Shape
  BY QueryInit, LoadInvInit DEF ShapeInv
<1>1. Today.slots \in Seq(Entry)
  BY QueryAssumption
<1>2. PICK t \in TodaysTotals :
        ipTable = [k \in 0 .. Len(Today.slots) - 1 |-> HostFlowOf(Today.slots, t, k, "today")]
  BY DEF Init
<1>3. t \in [DOMAIN Today.slots -> Nat]
  BY QueryAssumption
<1>4. Len(Today.slots) \in Nat /\ ipTable \in [0 .. Len(Today.slots) - 1 -> HostFlow]
  BY <1>1, <1>2, <1>3, HostFlowOfType
<1>5. sumIpCount \in Nat
  BY <1>4, SizeOf DEF sumIpCount
<1>6. 0 \in 0 .. MAX_WHITELIST
  BY WhitelistAssumption
<1> QED
  BY <1>1, <1>4, <1>5, <1>6 DEF Init, Shape, Walking, Status

\* The entry that GetByIP takes lies in the table.
LEMMA SlotType ==
    ASSUME Shape, NEW a, NEW k \in SlotOf(a)
    PROVE  /\ a \in Addr /\ k \in Nat /\ k < Len(slots)
           /\ k \in DOMAIN ipTable => k \in 0 .. sumIpCount - 1
<1>1. slots \in Seq(Entry)
  BY DEF Shape
<1>2. Len(slots) \in Nat
  BY <1>1
<1> QED
  BY <1>2, TableSize DEF SlotOf

\* qsort returns a table of the same size and type.
LEMMA QsortType ==
    ASSUME NEW m \in Nat, NEW t \in [0 .. m - 1 -> HostFlow], NEW u \in QsortOf(t)
    PROVE  /\ u \in [0 .. m - 1 -> HostFlow]
           /\ \A k \in 0 .. m - 1 : \E l \in 0 .. m - 1 : u[k] = t[l]
           /\ \A k \in 1 .. m - 1 : u[k - 1].total >= u[k].total
<1>1. /\ u \in [0 .. m - 1 -> {t[k] : k \in 0 .. m - 1}]
      /\ \A k \in 0 .. m - 1 : k > 0 => HostFlowCmp(u[k - 1], u[k]) <= 0
  BY DEF QsortOf
<1>2. \A k \in 0 .. m - 1 : \E l \in 0 .. m - 1 : u[k] = t[l]
  BY <1>1
<1>3. \A k \in 0 .. m - 1 : u[k] \in HostFlow
  BY <1>2
<1>4. ASSUME NEW k \in 1 .. m - 1
      PROVE  u[k - 1].total >= u[k].total
  <2>1. k \in 0 .. m - 1 /\ k - 1 \in 0 .. m - 1 /\ k > 0
    OBVIOUS
  <2>2. u[k - 1].total \in Nat /\ u[k].total \in Nat
    BY <1>3, <2>1 DEF HostFlow
  <2>3. HostFlowCmp(u[k - 1], u[k]) <= 0
    BY <1>1, <2>1, Zenon
  <2>4. u[k].total - u[k - 1].total <= 0
    BY <2>3, Zenon DEF HostFlowCmp
  <2> QED
    BY <2>2, <2>4
<1> QED
  BY <1>1, <1>2, <1>3, <1>4

\* The table after an import of another day: it only grows, and the networks of
\* the file stand at its beginning.
LEMMA ImportTable ==
    ASSUME Shape, Import
    PROVE  /\ \E m \in Nat : ipTable' \in [0 .. m - 1 -> HostFlow]
           /\ sumIpCount' \in Nat /\ sumIpCount <= sumIpCount'
           /\ slots' \in Seq(Entry) /\ Len(slots') <= sumIpCount'
           /\ \A k \in 0 .. Len(slots') - 1 : ipTable'[k].day = "file"
<1>1. PICK f \in Days :
        /\ slots' = f.slots
        /\ ipTable' = [k \in DOMAIN ipTable \cup 0 .. Len(f.slots) - 1 |->
                         IF k < Len(f.slots) THEN HostFlowOf(f.slots, f.totals, k, "file")
                         ELSE ipTable[k]]
  BY DEF Import, FileEntry
<1>2. f.slots \in Seq(Entry) /\ f.totals \in [DOMAIN f.slots -> Nat]
  BY QueryAssumption
<1> DEFINE m == sumIpCount
           l == Len(f.slots)
           b == IF m >= l THEN m ELSE l
<1>3. m \in Nat /\ l \in Nat /\ b \in Nat /\ m <= b /\ l <= b
      /\ ipTable \in [0 .. m - 1 -> HostFlow] /\ DOMAIN ipTable = 0 .. m - 1
  BY <1>2, TableSize
<1> HIDE DEF m
<1>4. DOMAIN ipTable \cup 0 .. l - 1 = 0 .. b - 1
  BY <1>3
<1>5. ASSUME NEW k \in 0 .. b - 1
      PROVE  /\ ipTable'[k] \in HostFlow
             /\ k < l => ipTable'[k].day = "file"
  <2>1. ipTable'[k] = IF k < l THEN HostFlowOf(f.slots, f.totals, k, "file") ELSE ipTable[k]
    <3>1. k \in DOMAIN ipTable \cup 0 .. l - 1
      BY <1>4
    <3> QED
      BY <1>1, <3>1, Zenon
  <2>2. CASE k < l
    <3>1. k \in 0 .. l - 1
      BY <1>3, <2>2
    <3>2. /\ HostFlowOf(f.slots, f.totals, k, "file") \in HostFlow
          /\ HostFlowOf(f.slots, f.totals, k, "file").day = "file"
      BY <1>2, <3>1, HostFlowOfType, Zenon
    <3> QED
      BY <2>1, <2>2, <3>2, Zenon
  <2>3. CASE ~(k < l)
    <3>1. k \in 0 .. m - 1
      BY <1>3, <2>3
    <3>2. ipTable[k] \in HostFlow
      BY <1>3, <3>1, Zenon
    <3> QED
      BY <2>1, <2>3, <3>2, Zenon
  <2> QED
    BY <2>2, <2>3
<1>6. ipTable' \in [0 .. b - 1 -> HostFlow]
  BY <1>1, <1>4, <1>5
<1>7. sumIpCount' = b
  BY <1>3, <1>6, SizeOf DEF sumIpCount
<1>8. Len(slots') = l /\ slots' \in Seq(Entry)
  BY <1>1, <1>2
<1> HIDE DEF l, b
<1>9. \E x \in Nat : ipTable' \in [0 .. x - 1 -> HostFlow]
  BY <1>3, <1>6
<1>10. sumIpCount' \in Nat /\ sumIpCount <= sumIpCount' /\ Len(slots') <= sumIpCount'
  BY <1>3, <1>7, <1>8 DEF m
<1>11. \A k \in 0 .. Len(slots') - 1 : ipTable'[k].day = "file"
  BY <1>3, <1>5, <1>8
<1> QED
  BY <1>8, <1>9, <1>10, <1>11

\* The table after realloc(): it has no fewer entries than before, nor than it
\* was asked to have.
LEMMA GrownType ==
    ASSUME Shape, NEW count \in Nat, NEW t \in Grown(count)
    PROVE  \E m \in Nat : /\ t \in [0 .. m - 1 -> HostFlow] /\ DOMAIN t = 0 .. m - 1
                         /\ sumIpCount <= m /\ count <= m
<1>1. PICK r \in [0 .. count - 1 \ DOMAIN ipTable -> Rubbish] :
        t = [k \in DOMAIN ipTable \cup 0 .. count - 1 |->
               IF k \in DOMAIN ipTable THEN ipTable[k]
               ELSE [addr |-> r[k].addr, total |-> r[k].total, day |-> "none"]]
  BY DEF Grown
<1> DEFINE m == sumIpCount
           b == IF m >= count THEN m ELSE count
<1>2. m \in Nat /\ b \in Nat /\ m <= b /\ count <= b
      /\ ipTable \in [0 .. m - 1 -> HostFlow] /\ DOMAIN ipTable = 0 .. m - 1
  BY TableSize
<1> HIDE DEF m
<1>3. DOMAIN ipTable \cup 0 .. count - 1 = 0 .. b - 1
  BY <1>2
<1>4. ASSUME NEW k \in 0 .. b - 1
      PROVE  t[k] \in HostFlow
  <2>1. t[k] = IF k \in DOMAIN ipTable THEN ipTable[k]
               ELSE [addr |-> r[k].addr, total |-> r[k].total, day |-> "none"]
    <3>1. k \in DOMAIN ipTable \cup 0 .. count - 1
      BY <1>3
    <3> QED
      BY <1>1, <3>1, Zenon
  <2>2. CASE k \in DOMAIN ipTable
    <3>1. ipTable[k] \in HostFlow
      BY <1>2, <2>2
    <3> QED
      BY <2>1, <2>2, <3>1, Zenon
  <2>3. CASE k \notin DOMAIN ipTable
    <3>1. k \in 0 .. count - 1 \ DOMAIN ipTable
      BY <1>3, <2>3
    <3>2. r[k] \in Rubbish
      BY <1>1, <3>1, Zenon
    <3>3. r[k].addr \in Entry /\ r[k].total \in Nat
      BY <3>2, QueryAssumption, Zenon
    <3>4. [addr |-> r[k].addr, total |-> r[k].total, day |-> "none"] \in HostFlow
      BY <3>3 DEF HostFlow
    <3> QED
      BY <2>1, <2>3, <3>4, Zenon
  <2> QED
    BY <2>2, <2>3
<1>5. t \in [0 .. b - 1 -> HostFlow] /\ DOMAIN t = 0 .. b - 1
  BY <1>1, <1>3, <1>4
<1> HIDE DEF b
<1> QED
  BY <1>2, <1>5 DEF m

\* The table after an import of a file that is cut short.
LEMMA ImportCutsTable ==
    ASSUME Shape, ImportCutTable \/ ImportCutList
    PROVE  /\ \E m \in Nat : ipTable' \in [0 .. m - 1 -> HostFlow]
           /\ sumIpCount' \in Nat /\ sumIpCount <= sumIpCount'
           /\ slots' \in Seq(Entry)
<1>1. \E m \in Nat : ipTable' \in [0 .. m - 1 -> HostFlow] /\ sumIpCount <= m
  <2>1. CASE ImportCutTable
    <3>1. PICK f \in Days : \E t \in Grown(Len(f.slots)), p \in 0 .. Len(f.slots) - 1 :
            \E a \in {t[p].addr, FileEntry(f, p).addr} :
              ipTable' = [k \in DOMAIN t |-> IF k < p THEN FileEntry(f, k)
                                            ELSE IF k = p THEN [t[p] EXCEPT !.addr = a]
                                            ELSE t[k]]
      BY <2>1 DEF ImportCutTable
    <3>2. PICK t \in Grown(Len(f.slots)), p \in 0 .. Len(f.slots) - 1 :
            \E a \in {t[p].addr, FileEntry(f, p).addr} :
              ipTable' = [k \in DOMAIN t |-> IF k < p THEN FileEntry(f, k)
                                            ELSE IF k = p THEN [t[p] EXCEPT !.addr = a]
                                            ELSE t[k]]
      BY <3>1
    <3>3. PICK a \in {t[p].addr, FileEntry(f, p).addr} :
              ipTable' = [k \in DOMAIN t |-> IF k < p THEN FileEntry(f, k)
                                            ELSE IF k = p THEN [t[p] EXCEPT !.addr = a]
                                            ELSE t[k]]
      BY <3>2
    <3>4. f.slots \in Seq(Entry) /\ f.totals \in [DOMAIN f.slots -> Nat]
          /\ Len(f.slots) \in Nat
      BY QueryAssumption
    <3>5. PICK m \in Nat : /\ t \in [0 .. m - 1 -> HostFlow] /\ DOMAIN t = 0 .. m - 1
                          /\ sumIpCount <= m /\ Len(f.slots) <= m
      BY <3>4, GrownType
    <3>6. ASSUME NEW k \in 0 .. Len(f.slots) - 1
          PROVE  FileEntry(f, k) \in HostFlow
      <4>1. HostFlowOf(f.slots, f.totals, k, "file") \in HostFlow
        BY <3>4, HostFlowOfType
      <4> QED
        BY <4>1 DEF FileEntry
    <3>7. p \in 0 .. m - 1 /\ p \in Nat
      BY <3>4, <3>5
    <3>8. t[p] \in HostFlow /\ a \in Entry
      <4>1. t[p] \in HostFlow /\ FileEntry(f, p) \in HostFlow
        BY <3>5, <3>6, <3>7
      <4> QED
        BY <4>1, <3>3 DEF HostFlow
    <3>9. [t[p] EXCEPT !.addr = a] \in HostFlow
      BY <3>8 DEF HostFlow
    <3>10. ASSUME NEW k \in 0 .. m - 1
           PROVE  (IF k < p THEN FileEntry(f, k)
                   ELSE IF k = p THEN [t[p] EXCEPT !.addr = a] ELSE t[k]) \in HostFlow
      <4>1. k < p => k \in 0 .. Len(f.slots) - 1
        BY <3>4
      <4>2. k < p => FileEntry(f, k) \in HostFlow
        BY <3>6, <4>1
      <4>3. t[k] \in HostFlow
        BY <3>5
      <4> QED
        BY <3>9, <4>2, <4>3, Zenon
    <3>11. ipTable' \in [0 .. m - 1 -> HostFlow]
      BY <3>3, <3>5, <3>10, Zenon
    <3> QED
      BY <3>5, <3>11
  <2>2. CASE ImportCutList
    <3>1. PICK c \in CutLists : ipTable' \in Grown(c.count)
      BY <2>2 DEF ImportCutList
    <3>2. c.count \in Nat
      BY QueryAssumption
    <3> QED
      BY <3>1, <3>2, GrownType
  <2> QED
    BY <2>1, <2>2
<1>2. PICK m \in Nat : ipTable' \in [0 .. m - 1 -> HostFlow] /\ sumIpCount <= m
  BY <1>1
<1>3. sumIpCount' = m
  BY <1>2, SizeOf DEF sumIpCount
<1>4. slots' \in Seq(Entry)
  <2>1. CASE ImportCutTable
    <3>1. PICK f \in Days : slots' = f.slots
      BY <2>1 DEF ImportCutTable
    <3> QED
      BY <3>1, QueryAssumption
  <2>2. CASE ImportCutList
    <3>1. PICK c \in CutLists : slots' = c.slots
      BY <2>2 DEF ImportCutList
    <3> QED
      BY <3>1, QueryAssumption
  <2> QED
    BY <2>1, <2>2
<1> HIDE DEF sumIpCount
<1> QED
  BY <1>2, <1>3, <1>4

\* Sequences of one element more.
LEMMA AppendType ==
    ASSUME NEW S, NEW s \in Seq(S), NEW e \in S
    PROVE  <<e>> \in Seq(S) /\ Append(s, e) \in Seq(S)
  OBVIOUS

\* Every step of a query keeps the types.
LEMMA ShapeNext == ShapeInv /\ [Next]_vars => ShapeInv'
<1> SUFFICES ASSUME ShapeInv, [Next]_vars PROVE Shape'
  BY QueryNext, LoadInvNext DEF ShapeInv
<1>0. /\ Shape /\ sumIpCount \in Nat /\ ipTable \in [0 .. sumIpCount - 1 -> HostFlow]
      /\ WhitelistType /\ at \in Nat /\ at <= sumIpCount
  <2>1. Shape /\ WhitelistType
    BY DEF ShapeInv, LoadInv
  <2>2. sumIpCount \in Nat /\ ipTable \in [0 .. sumIpCount - 1 -> HostFlow]
    BY <2>1, TableSize
  <2>3. at \in 0 .. sumIpCount
    BY <2>1, Zenon DEF Shape
  <2> QED
    BY <2>1, <2>2, <2>3
<1>1. CASE \/ Reject \/ NoFile \/ UseToday \/ ImportDiep \/ ShowAll \/ Unknown
           \/ NotOurs \/ InvalidParam \/ Finish
  <2>1. /\ pc' \in {"parsed", "answered", "dead"} /\ status' \in Status
        /\ UNCHANGED <<query, ipTable, slots, at, j, rows, inForce>>
    BY <1>0, <1>1
    DEF Reject, NoFile, UseToday, ImportDiep, ShowAll, Unknown, NotOurs, InvalidParam, Finish,
        Answer, Asked, Runs, Status, Shape
  <2>2. sumIpCount' = sumIpCount
    BY <2>1 DEF sumIpCount
  <2> QED
    BY <1>0, <2>1, <2>2 DEF Shape, Walking
<1>2. CASE Import \/ ImportCutTable \/ ImportCutList
  <2>1. /\ \E m \in Nat : ipTable' \in [0 .. m - 1 -> HostFlow]
        /\ sumIpCount' \in Nat /\ sumIpCount <= sumIpCount'
        /\ slots' \in Seq(Entry)
    BY <1>0, <1>2, ImportTable, ImportCutsTable
  <2>2. at \in 0 .. sumIpCount'
    BY <1>0, <2>1
  <2>3. pc' = "parsed" /\ UNCHANGED <<query, at, j, rows, status, inForce>>
    BY <1>2 DEF Import, ImportCutTable, ImportCutList, Runs
  <2> QED
    BY <1>0, <2>1, <2>2, <2>3 DEF Shape, Walking
<1>3. CASE GetByIP
  <2>1. /\ at' \in SlotOf(query.arg) \cap DOMAIN ipTable /\ j' = 0 /\ pc' = "filter"
        /\ query.cmd = "getFlow" /\ query.arg # Bad
        /\ UNCHANGED <<query, ipTable, slots, rows, status, inForce>>
    BY <1>3 DEF GetByIP, Asked, Runs
  <2>2. query.arg \in Addr /\ at' \in 0 .. sumIpCount - 1
    BY <1>0, <2>1, SlotType
  <2>3. at' \in 0 .. sumIpCount /\ at' < sumIpCount /\ 0 \in 0 .. MAX_WHITELIST
    BY <1>0, <2>2, WhitelistAssumption
  <2>4. sumIpCount' = sumIpCount
    BY <2>1 DEF sumIpCount
  <2> QED
    BY <1>0, <2>1, <2>2, <2>3, <2>4 DEF Shape, Walking
<1>4. CASE Sort
  <2>1. /\ ipTable' \in QsortOf(ipTable) /\ at' = 0 /\ pc' = "walk"
        /\ OfLists /\ query.arg # Bad
        /\ UNCHANGED <<query, slots, j, rows, status, inForce>>
    BY <1>4 DEF Sort, Asked, Runs, OfLists
  <2>2. ipTable' \in [0 .. sumIpCount - 1 -> HostFlow]
    BY <1>0, <2>1, QsortType
  <2>3. sumIpCount' = sumIpCount
    BY <1>0, <2>2, SizeOf DEF sumIpCount
  <2>4. OfLists' /\ 0 \in 0 .. sumIpCount
    BY <1>0, <2>1 DEF OfLists
  <2> QED
    BY <1>0, <2>1, <2>2, <2>3, <2>4 DEF Shape, Walking
<1>5. CASE Overrun \/ Look \/ Compare
  <2>1. /\ pc' \in {"overrun", "filter"} /\ j' \in 0 .. MAX_WHITELIST
        /\ pc' = "filter" => at < sumIpCount
        /\ pc' = "overrun" => OfLists
        /\ UNCHANGED <<query, ipTable, slots, at, rows, status, inForce>>
        /\ Walking
    <3>1. MAX_WHITELIST \in Nat \ {0} /\ j \in Nat /\ j <= MAX_WHITELIST
      BY <1>0, WhitelistAssumption DEF Shape
    <3>2. Scanning => j + 1 \in 0 .. MAX_WHITELIST
      BY <3>1 DEF Scanning
    <3>3. 0 \in 0 .. MAX_WHITELIST
      BY <3>1
    <3> QED
      BY <1>0, <1>5, <3>2, <3>3 DEF Overrun, Look, Compare, Scanning, Runs, Shape, Walking
  <2>2. sumIpCount' = sumIpCount /\ OfLists' = OfLists
    BY <2>1 DEF sumIpCount, OfLists
  <2>3. pc' = "filter" /\ ~OfLists => query.cmd = "getFlow" /\ query.arg \in Addr
    BY <1>0, <2>1 DEF Shape
  <2> QED
    BY <1>0, <2>1, <2>2, <2>3 DEF Shape, Walking
<1>6. CASE Hide \/ Show
  <2>1. pc = "filter" /\ at < sumIpCount /\ UNCHANGED <<query, ipTable, slots, j, inForce>>
    BY <1>0, <1>6 DEF Hide, Show, Scanning, Runs, Shape
  <2>2. at \in 0 .. sumIpCount - 1 /\ at + 1 \in 0 .. sumIpCount
        /\ at \in 0 .. sumIpCount /\ sumIpCount' = sumIpCount
    BY <1>0, <2>1 DEF sumIpCount
  <2>3. ipTable[at] \in HostFlow
    BY <1>0, <2>2
  <2>4. CASE query.cmd = "getFlow"
    <3>1. query.arg \in Entry
      BY <1>0, <2>1, <2>4 DEF Shape, Walking, OfLists, Entry
    <3>2. /\ [ipTable[at] EXCEPT !.addr = query.arg, !.total = 0] \in HostFlow
          /\ [ipTable[at] EXCEPT !.addr = query.arg] \in HostFlow
      BY <2>3, <3>1 DEF HostFlow
    <3>3. /\ pc' = "answered" /\ status' \in Status /\ at' = at
          /\ \/ rows' = <<[ipTable[at] EXCEPT !.addr = query.arg, !.total = 0]>>
             \/ rows' = <<[ipTable[at] EXCEPT !.addr = query.arg]>>
      BY <1>6, <2>4, Zenon DEF Hide, Show, Status
    <3>4. rows' \in Seq(HostFlow)
      <4>1. rows \in Seq(HostFlow)
        BY <1>0 DEF Shape
      <4> QED
        BY <3>2, <3>3, <4>1, AppendType, Zenon
    <3> QED
      BY <1>0, <2>1, <2>2, <3>3, <3>4 DEF Shape, Walking
  <2>5. CASE query.cmd # "getFlow"
    <3>1. /\ pc' = "walk" /\ status' = status /\ at' = at + 1
          /\ rows' = rows \/ rows' = Append(rows, ipTable[at])
      BY <1>6, <2>5, Zenon DEF Hide, Show
    <3>2. OfLists' = OfLists
      BY <2>1 DEF OfLists
    <3>3. rows \in Seq(HostFlow)
      BY <1>0 DEF Shape
    <3>4. rows' \in Seq(HostFlow)
      BY <2>3, <3>1, <3>3, AppendType, Zenon
    <3> QED
      BY <1>0, <2>1, <2>2, <2>5, <3>1, <3>2, <3>4 DEF Shape, Walking
  <2> QED
    BY <2>4, <2>5
<1>7. CASE ReloadStep \/ ReloadDone \/ Reload \/ BadReload \/ UNCHANGED vars
  <2>1. /\ pc' \in {pc, "dead"} /\ UNCHANGED <<query, ipTable, slots, at, j, rows, status>>
        /\ inForce' \in {inForce, inForce \cup {Hidden}}
    BY <1>7 DEF ReloadStep, ReloadDone, Reload, BadReload, vars, qvars
  <2>2. sumIpCount' = sumIpCount /\ OfLists' = OfLists /\ Hidden \subseteq Addr
    BY <2>1 DEF sumIpCount, OfLists, Hidden
  <2>3. inForce' \subseteq SUBSET Addr
    BY <1>0, <2>1, <2>2 DEF Shape
  <2> QED
    BY <1>0, <2>1, <2>2, <2>3 DEF Shape, Walking
<1>8. CASE GetByIPBehind
  <2>1. /\ pc' = "overrun" /\ query.cmd = "getFlow" /\ query.arg # Bad
        /\ SlotOf(query.arg) # {}
        /\ UNCHANGED <<query, ipTable, slots, at, j, rows, status, inForce>>
    BY <1>8 DEF GetByIPBehind, Asked, Runs
  <2>2. query.arg \in Addr
    BY <1>0, <2>1, SlotType
  <2>3. sumIpCount' = sumIpCount
    BY <2>1 DEF sumIpCount
  <2> QED
    BY <1>0, <2>1, <2>2, <2>3 DEF Shape, Walking
<1> QED
  BY <1>1, <1>2, <1>3, <1>4, <1>5, <1>6, <1>7, <1>8 DEF Next, Child

\* Whether a file was whole is known before anything is looked up.
WholeInv ==
    /\ whole \in BOOLEAN
    /\ whole => Len(slots) <= sumIpCount
    /\ pc = "overrun" /\ query.cmd = "getFlow" => ~whole

\* Nothing was imported when a query starts.
LEMMA WholeInit == Init => WholeInv
<1> SUFFICES ASSUME Init PROVE WholeInv
  OBVIOUS
<1>1. Today.slots \in Seq(Entry) /\ Len(Today.slots) \in Nat
  BY QueryAssumption
<1>2. whole = TRUE /\ slots = Today.slots /\ pc = "start"
      /\ DOMAIN ipTable = 0 .. Len(Today.slots) - 1
  BY DEF Init
<1>3. sumIpCount = Len(Today.slots)
  BY <1>1, <1>2, SizeOf DEF sumIpCount
<1> QED
  BY <1>1, <1>2, <1>3 DEF WholeInv

\* In the networks of the daemon, or of a file that was whole, nothing leads
\* behind the table.
LEMMA WholeNext == ShapeInv /\ WholeInv /\ [Next]_vars => WholeInv'
<1> SUFFICES ASSUME ShapeInv, WholeInv, [Next]_vars PROVE WholeInv'
  OBVIOUS
<1>0. Shape /\ sumIpCount \in Nat /\ ipTable \in [0 .. sumIpCount - 1 -> HostFlow]
      /\ DOMAIN ipTable = 0 .. sumIpCount - 1
  BY TableSize DEF ShapeInv
<1>1. CASE ImportCut
  <2>1. whole' = FALSE
    BY <1>1 DEF ImportCut, ImportCutTable, ImportCutList, ImportDiep
  <2> QED
    BY <2>1 DEF WholeInv
<1>2. CASE Import
  <2>1. pc' = "parsed" /\ whole' = whole
    BY <1>2 DEF Import
  <2>2. Len(slots') <= sumIpCount'
    BY <1>0, <1>2, ImportTable
  <2> QED
    BY <2>1, <2>2 DEF WholeInv
<1>3. CASE GetByIPBehind
  <2>1. UNCHANGED <<whole, slots, ipTable>>
    BY <1>3 DEF GetByIPBehind
  <2>2. PICK k \in SlotOf(query.arg) : k >= sumIpCount
    BY <1>3 DEF GetByIPBehind
  <2>3. k \in Nat /\ k < Len(slots) /\ slots \in Seq(Entry)
    BY <1>0, <2>2, SlotType DEF Shape
  <2>4. ~(Len(slots) <= sumIpCount)
    BY <1>0, <2>2, <2>3
  <2>5. ~whole
    BY <2>4 DEF WholeInv
  <2> QED
    BY <2>1, <2>5 DEF WholeInv
<1>4. CASE Sort
  <2>1. /\ ipTable' \in QsortOf(ipTable) /\ pc' = "walk" /\ UNCHANGED <<whole, slots>>
    BY <1>4 DEF Sort
  <2>2. ipTable' \in [0 .. sumIpCount - 1 -> HostFlow]
    BY <1>0, <2>1, QsortType
  <2>3. sumIpCount' = sumIpCount
    BY <1>0, <2>2, SizeOf DEF sumIpCount
  <2> QED
    BY <2>1, <2>3 DEF WholeInv
<1>5. CASE Overrun
  <2>1. pc = "walk" /\ UNCHANGED <<query, whole, slots, ipTable>>
    BY <1>5 DEF Overrun, Runs
  <2>2. query.cmd # "getFlow"
    BY <1>0, <2>1 DEF Shape, Walking, OfLists
  <2>3. sumIpCount' = sumIpCount
    BY <2>1 DEF sumIpCount
  <2> QED
    BY <2>1, <2>2, <2>3 DEF WholeInv
<1>6. CASE \/ Reject \/ NoFile \/ UseToday \/ ShowAll \/ Unknown \/ NotOurs \/ InvalidParam
           \/ GetByIP \/ Finish \/ Look \/ Compare \/ Hide \/ Show
           \/ ReloadStep \/ ReloadDone \/ Reload \/ BadReload \/ UNCHANGED vars
  <2>1. pc' # "overrun" \/ pc' = pc
    BY <1>6
    DEF Reject, NoFile, UseToday, ShowAll, Unknown, NotOurs, InvalidParam, GetByIP, Finish,
        Look, Compare, Hide, Show, Answer, ReloadStep, ReloadDone, Reload, BadReload,
        vars, qvars
  <2>2. UNCHANGED <<query, whole, slots, ipTable>>
    BY <1>6
    DEF Reject, NoFile, UseToday, ShowAll, Unknown, NotOurs, InvalidParam, GetByIP, Finish,
        Look, Compare, Hide, Show, Answer, ReloadStep, ReloadDone, Reload, BadReload,
        vars, qvars
  <2>3. sumIpCount' = sumIpCount
    BY <2>2 DEF sumIpCount
  <2> QED
    BY <2>1, <2>2, <2>3 DEF WholeInv
<1> QED
  BY <1>1, <1>2, <1>3, <1>4, <1>5, <1>6 DEF Next, Child, ImportCut

\* The types of the table, the whitelist, the positions in them and the answer.
THEOREM QueryTypes == Spec => []TypeOK
<1>1. ShapeInv /\ WholeInv => TypeOK
  <2> SUFFICES ASSUME ShapeInv, WholeInv PROVE TypeOK
    OBVIOUS
  <2>1. whole \in BOOLEAN
    BY DEF WholeInv
  <2> QED
    BY <2>1, TableSize DEF ShapeInv, LoadInv, Shape, TypeOK, QueryType
<1> QED
  BY <1>1, ShapeInit, ShapeNext, WholeInit, WholeNext, PTL DEF Spec

-----------------------------------------------------------------------------

\* Until an answer is begun the table is that of the day asked for, up to the
\* end of the networks; a list looks behind it too, unless there is nothing.  Of a
\* cut file that is not known.
DayInv ==
    /\ pc \in {"start", "parsed"} => rows = <<>>
    /\ pc = "start" \/ query.date = "today" =>
         \A k \in DOMAIN ipTable : ipTable[k].day = "today"
    /\ query.date = "file" /\ whole /\ (pc = "parsed" \/ (pc = "filter" /\ ~OfLists)) =>
         /\ Len(slots) <= sumIpCount
         /\ \A k \in 0 .. Len(slots) - 1 : ipTable[k].day = "file"
    /\ query.date = "file" /\ whole /\ pc \in {"walk", "filter"} /\ OfLists
         /\ sumIpCount = Len(slots) =>
         \A k \in DOMAIN ipTable : ipTable[k].day = "file"
    /\ pc = "filter" /\ ~OfLists => at < Len(slots)
    /\ \A r \in DOMAIN rows :
         /\ query.date = "today" => rows[r].day = "today"
         /\ query.date = "file" /\ whole /\ (OfLists => sumIpCount = Len(slots)) =>
              rows[r].day = "file"

\* The table of the daemon is today's.
LEMMA DayInit == Init => DayInv
<1> SUFFICES ASSUME Init PROVE DayInv
  OBVIOUS
<1>1. PICK t \in TodaysTotals :
        ipTable = [k \in 0 .. Len(Today.slots) - 1 |-> HostFlowOf(Today.slots, t, k, "today")]
  BY DEF Init
<1>2. Today.slots \in Seq(Entry) /\ t \in [DOMAIN Today.slots -> Nat]
  BY QueryAssumption
<1>3. \A k \in DOMAIN ipTable : ipTable[k].day = "today"
  BY <1>1, <1>2, HostFlowOfType
<1>4. pc = "start" /\ rows = <<>> /\ DOMAIN rows = {}
  BY DEF Init
<1> QED
  BY <1>3, <1>4 DEF DayInv

\* A row that is added shows the day of the entry it is taken from.
LEMMA DayOfRow ==
    ASSUME ShapeInv, DayInv, Hide \/ Show
    PROVE  \A r \in DOMAIN rows' :
             /\ query.date = "today" => rows'[r].day = "today"
             /\ query.date = "file" /\ whole /\ (OfLists => sumIpCount = Len(slots)) =>
                  rows'[r].day = "file"
<1>1. Shape /\ pc = "filter" /\ at < sumIpCount
  BY DEF ShapeInv, Shape, Hide, Show, Scanning, Runs
<1>2. sumIpCount \in Nat /\ ipTable \in [0 .. sumIpCount - 1 -> HostFlow]
      /\ at \in 0 .. sumIpCount - 1 /\ at \in DOMAIN ipTable
  <2>1. sumIpCount \in Nat /\ ipTable \in [0 .. sumIpCount - 1 -> HostFlow]
    BY <1>1, TableSize
  <2>2. at \in 0 .. sumIpCount
    BY <1>1, Zenon DEF Shape
  <2> QED
    BY <1>1, <2>1, <2>2
<1>3. query.date = "today" => ipTable[at].day = "today"
  BY <1>2 DEF DayInv
<1>4. query.date = "file" /\ whole /\ (OfLists => sumIpCount = Len(slots)) => ipTable[at].day = "file"
  <2>1. OfLists /\ query.date = "file" /\ whole /\ sumIpCount = Len(slots) =>
          ipTable[at].day = "file"
    BY <1>1, <1>2 DEF DayInv
  <2>2. ~OfLists /\ query.date = "file" /\ whole => ipTable[at].day = "file"
    <3> SUFFICES ASSUME ~OfLists, query.date = "file", whole
                 PROVE  ipTable[at].day = "file"
      OBVIOUS
    <3>1. at < Len(slots) /\ \A k \in 0 .. Len(slots) - 1 : ipTable[k].day = "file"
      BY <1>1 DEF DayInv
    <3>2. slots \in Seq(Entry)
      BY <1>1 DEF Shape
    <3>3. Len(slots) \in Nat
      BY <3>2
    <3> QED
      BY <1>2, <3>1, <3>3
  <2> QED
    BY <2>1, <2>2
<1>5. CASE query.cmd = "getFlow"
  <2>1. \/ rows' = <<[ipTable[at] EXCEPT !.addr = query.arg, !.total = 0]>>
        \/ rows' = <<[ipTable[at] EXCEPT !.addr = query.arg]>>
    BY <1>5, Zenon DEF Hide, Show
  <2>2. ipTable[at] \in HostFlow
    BY <1>2
  <2>3. /\ [ipTable[at] EXCEPT !.addr = query.arg, !.total = 0].day = ipTable[at].day
        /\ [ipTable[at] EXCEPT !.addr = query.arg].day = ipTable[at].day
    BY <2>2 DEF HostFlow
  <2>4. ASSUME NEW r \in DOMAIN rows'
        PROVE  rows'[r].day = ipTable[at].day
    <3>1. PICK e : rows' = <<e>> /\ e.day = ipTable[at].day
      BY <2>1, <2>3
    <3> QED
      BY <3>1
  <2> QED
    BY <1>3, <1>4, <2>4
<1>6. CASE query.cmd # "getFlow"
  <2>1. rows' = rows \/ rows' = Append(rows, ipTable[at])
    BY <1>6, Zenon DEF Hide, Show
  <2>2. rows \in Seq(HostFlow)
    BY <1>1 DEF Shape
  <2>3. ASSUME NEW r \in DOMAIN rows'
        PROVE  (r \in DOMAIN rows /\ rows'[r] = rows[r]) \/ rows'[r] = ipTable[at]
    BY <2>1, <2>2
  <2> QED
    BY <1>3, <1>4, <2>3 DEF DayInv
<1> QED
  BY <1>5, <1>6

\* Every step keeps what is known of the days.
LEMMA DayNext == ShapeInv /\ DayInv /\ [Next]_vars => DayInv'
<1> SUFFICES ASSUME ShapeInv, DayInv, [Next]_vars PROVE DayInv'
  OBVIOUS
<1>0. /\ Shape /\ sumIpCount \in Nat /\ ipTable \in [0 .. sumIpCount - 1 -> HostFlow]
      /\ (Walking => OfLists \/ pc # "walk")
  <2>1. Shape
    BY DEF ShapeInv
  <2>2. Walking => OfLists \/ pc # "walk"
    BY <2>1, Zenon DEF Shape
  <2> QED
    BY <2>1, <2>2, TableSize
<1>1. CASE \/ Reject \/ NoFile \/ UseToday \/ ShowAll \/ Unknown \/ NotOurs
           \/ InvalidParam \/ Finish
  <2>1. /\ pc' \in {"answered", "dead"} \/ (pc = "start" /\ pc' = "parsed" /\ query.date = "today")
        /\ UNCHANGED <<query, ipTable, slots, at, rows, whole>>
    BY <1>1
    DEF Reject, NoFile, UseToday, ShowAll, Unknown, NotOurs, InvalidParam, Finish,
        Answer, Asked, Runs
  <2>2. sumIpCount' = sumIpCount /\ OfLists' = OfLists
    BY <2>1 DEF sumIpCount, OfLists
  <2> QED
    BY <2>1, <2>2 DEF DayInv
<1>2. CASE Import
  <2>1. /\ Len(slots') <= sumIpCount'
        /\ \A k \in 0 .. Len(slots') - 1 : ipTable'[k].day = "file"
    BY <1>0, <1>2, ImportTable
  <2>2. /\ pc = "start" /\ pc' = "parsed" /\ query.date = "file"
        /\ UNCHANGED <<query, at, rows>>
    BY <1>2 DEF Import, Runs, AsksForFile
  <2>3. rows' = <<>> /\ DOMAIN rows' = {}
    BY <2>2 DEF DayInv
  <2> QED
    BY <2>1, <2>2, <2>3 DEF DayInv
<1>3. CASE GetByIP
  <2>1. /\ at' \in SlotOf(query.arg) \cap DOMAIN ipTable /\ pc = "parsed" /\ pc' = "filter"
        /\ query.cmd = "getFlow"
        /\ UNCHANGED <<query, ipTable, slots, rows, whole>>
    BY <1>3 DEF GetByIP, Asked, Runs
  <2>2. at' < Len(slots)
    BY <1>0, <2>1, SlotType
  <2>3. sumIpCount' = sumIpCount /\ OfLists' = OfLists /\ ~OfLists
    BY <2>1 DEF sumIpCount, OfLists
  <2> QED
    BY <2>1, <2>2, <2>3 DEF DayInv
<1>4. CASE Sort
  <2>1. /\ ipTable' \in QsortOf(ipTable) /\ pc = "parsed" /\ pc' = "walk"
        /\ UNCHANGED <<query, slots, rows, whole>>
    BY <1>4 DEF Sort, Asked, Runs
  <2>2. /\ ipTable' \in [0 .. sumIpCount - 1 -> HostFlow]
        /\ \A k \in 0 .. sumIpCount - 1 : \E l \in 0 .. sumIpCount - 1 : ipTable'[k] = ipTable[l]
    BY <1>0, <2>1, QsortType
  <2>3. sumIpCount' = sumIpCount
    BY <1>0, <2>2, SizeOf DEF sumIpCount
  <2>4. rows' = <<>> /\ DOMAIN rows' = {}
    BY <2>1 DEF DayInv
  <2>5. query.date = "today" => \A k \in 0 .. sumIpCount - 1 : ipTable'[k].day = "today"
    BY <1>0, <2>2 DEF DayInv
  <2>6. query.date = "file" /\ whole /\ sumIpCount = Len(slots) =>
          \A k \in 0 .. sumIpCount - 1 : ipTable'[k].day = "file"
    <3>1. query.date = "file" /\ whole => \A k \in 0 .. Len(slots) - 1 : ipTable[k].day = "file"
      BY <2>1, Zenon DEF DayInv
    <3> HIDE DEF sumIpCount
    <3> QED
      BY <2>2, <3>1
  <2>7. DOMAIN ipTable' = 0 .. sumIpCount - 1 /\ OfLists' = OfLists
    BY <2>1, <2>2 DEF OfLists
  <2> HIDE DEF sumIpCount
  <2> QED
    BY <2>1, <2>3, <2>4, <2>5, <2>6, <2>7 DEF DayInv
<1>5. CASE Overrun \/ Look \/ Compare
  <2>1. /\ \/ pc = "walk" /\ pc' \in {"overrun", "filter"}
           \/ pc = "filter" /\ pc' = "filter"
        /\ UNCHANGED <<query, ipTable, slots, at, rows, whole>>
    <3>1. Compare => pc = "filter" /\ pc' = "filter" /\ UNCHANGED <<query, ipTable, slots, at, rows, whole>>
      BY DEF Compare, Scanning, Runs
    <3>2. Overrun \/ Look => pc = "walk" /\ pc' \in {"overrun", "filter"}
                             /\ UNCHANGED <<query, ipTable, slots, at, rows, whole>>
      BY DEF Overrun, Look, Runs
    <3> QED
      BY <1>5, <3>1, <3>2
  <2>2. sumIpCount' = sumIpCount /\ OfLists' = OfLists
    BY <2>1 DEF sumIpCount, OfLists
  <2>3. pc = "walk" => OfLists
    BY <1>0 DEF Walking
  <2> QED
    BY <2>1, <2>2, <2>3 DEF DayInv
<1>6. CASE Hide \/ Show
  <2>1. /\ pc = "filter" /\ UNCHANGED <<query, ipTable, slots, whole>>
        /\ pc' = "answered" \/ (pc' = "walk" /\ query.cmd # "getFlow")
    BY <1>6 DEF Hide, Show, Scanning, Runs
  <2>2. sumIpCount' = sumIpCount /\ OfLists' = OfLists
    BY <2>1 DEF sumIpCount, OfLists
  <2>3. \A r \in DOMAIN rows' :
             /\ query.date = "today" => rows'[r].day = "today"
             /\ query.date = "file" /\ whole /\ (OfLists => sumIpCount = Len(slots)) =>
                  rows'[r].day = "file"
    BY <1>6, DayOfRow
  <2>4. pc' = "walk" /\ query.date = "file" /\ whole /\ OfLists /\ sumIpCount = Len(slots) =>
          \A k \in DOMAIN ipTable : ipTable[k].day = "file"
    BY <2>1 DEF DayInv
  <2>5. query.date = "today" => \A k \in DOMAIN ipTable : ipTable[k].day = "today"
    BY DEF DayInv
  <2> HIDE DEF sumIpCount
  <2> QED
    BY <2>1, <2>2, <2>3, <2>4, <2>5 DEF DayInv
<1>7. CASE ReloadStep \/ ReloadDone \/ Reload \/ BadReload \/ UNCHANGED vars
  <2>1. /\ pc' \in {pc, "dead"} /\ UNCHANGED <<query, ipTable, slots, at, rows, whole>>
    BY <1>7 DEF ReloadStep, ReloadDone, Reload, BadReload, vars, qvars
  <2>2. sumIpCount' = sumIpCount /\ OfLists' = OfLists
    BY <2>1 DEF sumIpCount, OfLists
  <2> QED
    BY <2>1, <2>2 DEF DayInv
<1>8. CASE ImportCut
  <2>1. /\ pc = "start" /\ pc' \in {"parsed", "dead"} /\ query.date = "file"
        /\ UNCHANGED <<query, rows>>
    BY <1>8 DEF ImportCut, ImportCutTable, ImportCutList, ImportDiep, Runs, AsksForFile
  <2>2. ~whole'
    BY <1>8 DEF ImportCut, ImportCutTable, ImportCutList, ImportDiep
  <2>3. rows' = <<>> /\ DOMAIN rows' = {}
    BY <2>1 DEF DayInv
  <2> QED
    BY <2>1, <2>2, <2>3 DEF DayInv
<1>9. CASE GetByIPBehind
  <2>1. /\ pc = "parsed" /\ pc' = "overrun"
        /\ UNCHANGED <<query, ipTable, slots, at, rows, whole>>
    BY <1>9 DEF GetByIPBehind, Asked, Runs
  <2>2. sumIpCount' = sumIpCount /\ OfLists' = OfLists
    BY <2>1 DEF sumIpCount, OfLists
  <2> QED
    BY <2>1, <2>2 DEF DayInv
<1> QED
  BY <1>1, <1>2, <1>3, <1>4, <1>5, <1>6, <1>7, <1>8, <1>9 DEF Next, Child, ImportCut

\* For all tables, files and whitelists, and wherever a file is cut: an answer about
\* today shows today's traffic, and one about another day that day's, but for a list
\* from a file with fewer entries than the table, and but for a file that is cut.
THEOREM AnswersForTheDay == Spec => []OfTheDayAsked
<1>1. DayInv => OfTheDayAsked
  BY DEF DayInv, OfTheDayAsked
<1> QED
  BY <1>1, ShapeInit, ShapeNext, DayInit, DayNext, PTL DEF Spec

-----------------------------------------------------------------------------

\* The address that a scan of the whitelist looks for.
Scanned == IF query.cmd = "getFlow" THEN query.arg ELSE ipTable[at].addr

\* Up to its first zero, the array holds one address.
OneAddress ==
    \A p \in Index : (\A q \in 0 .. p : whitelist[q] # 0) => whitelist[p] = whitelist[0]

\* An address that was compared with the first place of the array was not
\* hidden at that time.
SeenInv ==
    /\ OneAddress
    /\ ~loading => Hidden \in inForce
    /\ pc = "filter" /\ j > 0 => \E H \in inForce : Scanned \notin H
    /\ \A r \in DOMAIN rows :
         \/ \E H \in inForce : rows[r].addr \notin H
         \/ rows[r].total = 0 /\ ~OfLists

\* While it is loaded, the array holds one address up to its first zero.
LEMMA LoadedOne ==
    ASSUME WhitelistType, Loaded
    PROVE  OneAddress
<1> SUFFICES ASSUME NEW p \in Index, \A q \in 0 .. p : whitelist[q] # 0
             PROVE  whitelist[p] = whitelist[0]
  BY DEF OneAddress
<1>1. MAX_WHITELIST \in Nat \ {0} /\ p \in Nat /\ p < MAX_WHITELIST /\ 0 \in Index
  BY WhitelistAssumption DEF Index
<1>2. CASE whitelist = Zeroes
  BY <1>1, <1>2 DEF Zeroes
<1>3. CASE \A q \in Index :
             /\ q < Matches(whitelistIps[1]) => whitelist[q] = whitelistIps[1]
             /\ q = Matches(whitelistIps[1]) => whitelist[q] = 0
  <2> DEFINE k == Matches(whitelistIps[1])
             f == whitelistIps[1]
  <2>1. k \in Nat
    BY MatchesType
  <2>2. \A q \in Index : (q < k => whitelist[q] = f) /\ (q = k => whitelist[q] = 0)
    BY <1>3
  <2> HIDE DEF k, f
  <2>3. p < k
    <3> SUFFICES ASSUME k <= p PROVE FALSE
      BY <1>1, <2>1
    <3>1. k \in Index /\ k \in 0 .. p
      BY <1>1, <2>1 DEF Index
    <3> QED
      BY <2>2, <3>1
  <2>4. 0 < k
    BY <1>1, <2>1, <2>3
  <2> QED
    BY <1>1, <2>2, <2>3, <2>4
<1> QED
  BY <1>2, <1>3 DEF Loaded

\* So no other address than the first is hidden.
LEMMA HiddenIsFirst ==
    ASSUME OneAddress, NEW a \in Hidden
    PROVE  a = whitelist[0] /\ a \in Addr /\ a # 0
<1>1. PICK p \in Index : whitelist[p] = a /\ \A q \in 0 .. p : whitelist[q] # 0
  BY DEF Hidden
<1>2. a \in Addr /\ a # 0
  BY WhitelistAssumption DEF Hidden
<1> QED
  BY <1>1, <1>2 DEF OneAddress

\* Nothing is compared, and nothing is in force, when a query starts.
LEMMA SeenInit == Init => SeenInv
<1> SUFFICES ASSUME Init PROVE SeenInv
  OBVIOUS
<1>1. LoadInv /\ loading /\ pc = "start" /\ rows = <<>> /\ DOMAIN rows = {}
  BY QueryInit, LoadInvInit DEF Init, WhitelistStart
<1>2. OneAddress
  BY <1>1, LoadedOne DEF LoadInv
<1> QED
  BY <1>1, <1>2 DEF SeenInv

\* When a scan ends with no match, its address was not hidden at some time.
LEMMA ShownIsSeen ==
    ASSUME ShapeInv, SeenInv, Show
    PROVE  \E H \in inForce : Scanned \notin H
<1>1. ~loading /\ pc = "filter" /\ (j < MAX_WHITELIST => whitelist[j] = 0)
  BY DEF Show, Runs
<1>2. CASE j = 0
  <2>1. whitelist[0] = 0
    BY <1>1, <1>2, WhitelistAssumption
  <2>2. Scanned \notin Hidden
    BY <2>1, HiddenIsFirst DEF SeenInv
  <2> QED
    BY <1>1, <2>2 DEF SeenInv
<1>3. CASE j # 0
  <2>1. j \in 0 .. MAX_WHITELIST
    BY Zenon DEF ShapeInv, Shape
  <2>2. j > 0
    BY <1>3, <2>1, WhitelistAssumption
  <2> QED
    BY <1>1, <2>2 DEF SeenInv
<1> QED
  BY <1>2, <1>3

\* A step of the query itself leaves the array and its history alone.
Keeps == UNCHANGED <<whitelist, loading, whitelistIps, i, reloads, inForce>>

LEMMA KeepsHidden ==
    ASSUME Keeps
    PROVE  /\ Hidden' = Hidden /\ OneAddress' = OneAddress
           /\ loading' = loading /\ inForce' = inForce
  BY DEF Keeps, Hidden, OneAddress

\* Every step keeps what is known of the scans and the rows.
LEMMA SeenNext == ShapeInv /\ SeenInv /\ [Next]_vars => SeenInv'
<1> SUFFICES ASSUME ShapeInv, SeenInv, [Next]_vars PROVE SeenInv'
  OBVIOUS
<1>0. /\ LoadInv /\ LoadInv' /\ rows \in Seq(HostFlow)
  BY ShapeNext DEF ShapeInv, Shape
<1>1. CASE \/ Reject \/ NoFile \/ UseToday \/ Import \/ ImportCut \/ ShowAll \/ Unknown
           \/ NotOurs \/ GetByIP \/ GetByIPBehind \/ InvalidParam \/ Sort \/ Overrun \/ Look \/ Finish
  <2>1. /\ Keeps /\ UNCHANGED <<query, rows>>
        /\ pc' = "filter" => j' = 0
    BY <1>1
    DEF Reject, NoFile, UseToday, Import, ImportCut, ImportCutTable, ImportCutList,
        ImportDiep, ShowAll, Unknown, NotOurs, GetByIP, GetByIPBehind, InvalidParam, Sort, Overrun, Look, Finish, Answer, Asked, Runs, Keeps
  <2>2. OfLists' = OfLists
    BY <2>1 DEF OfLists
  <2>3. ~(pc' = "filter" /\ j' > 0)
    BY <2>1
  <2> QED
    BY <2>1, <2>2, <2>3, KeepsHidden DEF SeenInv
<1>2. CASE Compare
  <2>1. /\ Keeps /\ pc = "filter" /\ ~loading /\ j' = j + 1 /\ whitelist[j] # Scanned
        /\ UNCHANGED <<pc, query, ipTable, at, rows>>
    BY <1>2 DEF Compare, Scanning, Runs, Keeps, Scanned
  <2>2. OfLists' = OfLists /\ Scanned' = Scanned
    BY <2>1 DEF OfLists, Scanned
  <2>3. \E H \in inForce : Scanned \notin H
    <3>1. CASE j = 0
      <4>1. Scanned \notin Hidden
        BY <2>1, <3>1, HiddenIsFirst DEF SeenInv
      <4> QED
        BY <2>1, <4>1 DEF SeenInv
    <3>2. CASE j # 0
      <4>1. j \in 0 .. MAX_WHITELIST
        BY Zenon DEF ShapeInv, Shape
      <4>2. j > 0
        BY <3>2, <4>1, WhitelistAssumption
      <4> QED
        BY <2>1, <4>2 DEF SeenInv
    <3> QED
      BY <3>1, <3>2
  <2> QED
    BY <2>1, <2>2, <2>3, KeepsHidden DEF SeenInv
<1>3. CASE Hide
  <2>1. Keeps /\ UNCHANGED query /\ pc = "filter" /\ pc' # "filter"
    BY <1>3 DEF Hide, Scanning, Runs, Keeps
  <2>2. OfLists' = OfLists
    BY <2>1 DEF OfLists
  <2>3. CASE query.cmd = "getFlow"
    <3>1. rows' = <<[ipTable[at] EXCEPT !.addr = query.arg, !.total = 0]>>
      BY <1>3, <2>3, Zenon DEF Hide
    <3>2. at \in 0 .. sumIpCount - 1 /\ ipTable \in [0 .. sumIpCount - 1 -> HostFlow]
      <4>1. Shape
        BY DEF ShapeInv
      <4>2. at \in 0 .. sumIpCount /\ at < sumIpCount
        BY <2>1, <4>1, Zenon DEF Shape
      <4>3. sumIpCount \in Nat /\ ipTable \in [0 .. sumIpCount - 1 -> HostFlow]
        BY <4>1, TableSize
      <4> QED
        BY <4>2, <4>3
    <3>3. [ipTable[at] EXCEPT !.addr = query.arg, !.total = 0].total = 0
      BY <3>2 DEF HostFlow
    <3>4. \A r \in DOMAIN rows' : rows'[r].total = 0
      <4>1. PICK e : rows' = <<e>> /\ e.total = 0
        BY <3>1, <3>3
      <4> QED
        BY <4>1
    <3>5. ~OfLists
      BY <2>3 DEF OfLists
    <3> QED
      BY <2>1, <2>2, <3>4, <3>5, KeepsHidden DEF SeenInv
  <2>4. CASE query.cmd # "getFlow"
    <3>1. rows' = rows
      BY <1>3, <2>4 DEF Hide
    <3> QED
      BY <2>1, <2>2, <3>1, KeepsHidden DEF SeenInv
  <2> QED
    BY <2>3, <2>4
<1>4. CASE Show
  <2>1. Keeps /\ UNCHANGED query /\ pc = "filter" /\ pc' # "filter"
    BY <1>4 DEF Show, Runs, Keeps
  <2>2. OfLists' = OfLists
    BY <2>1 DEF OfLists
  <2>3. PICK H \in inForce : Scanned \notin H
    BY <1>4, ShownIsSeen
  <2>4. \A r \in DOMAIN rows' : (r \in DOMAIN rows /\ rows'[r] = rows[r]) \/ rows'[r].addr = Scanned
    <3>1. CASE query.cmd = "getFlow"
      <4>1. rows' = <<[ipTable[at] EXCEPT !.addr = query.arg]>>
        BY <1>4, <3>1, Zenon DEF Show
      <4>2. at \in 0 .. sumIpCount - 1 /\ ipTable \in [0 .. sumIpCount - 1 -> HostFlow]
        <5>1. Shape
          BY DEF ShapeInv
        <5>2. at \in 0 .. sumIpCount /\ at < sumIpCount
          BY <2>1, <5>1, Zenon DEF Shape
        <5>3. sumIpCount \in Nat /\ ipTable \in [0 .. sumIpCount - 1 -> HostFlow]
          BY <5>1, TableSize
        <5> QED
          BY <5>2, <5>3
      <4>3. [ipTable[at] EXCEPT !.addr = query.arg].addr = query.arg
        BY <4>2 DEF HostFlow
      <4>4. PICK e : rows' = <<e>> /\ e.addr = query.arg
        BY <4>1, <4>3
      <4> QED
        BY <3>1, <4>4 DEF Scanned
    <3>2. CASE query.cmd # "getFlow"
      <4>1. rows' = Append(rows, ipTable[at])
        BY <1>4, <3>2, Zenon DEF Show
      <4>2. Scanned = ipTable[at].addr
        BY <3>2 DEF Scanned
      <4> DEFINE e == ipTable[at]
      <4>3. rows' = Append(rows, e) /\ Scanned = e.addr
        BY <4>1, <4>2
      <4> HIDE DEF e
      <4> QED
        BY <1>0, <4>3
    <3> QED
      BY <3>1, <3>2
  <2> QED
    BY <2>1, <2>2, <2>3, <2>4, KeepsHidden DEF SeenInv
<1>5. CASE Reload
  <2>1. loading' /\ UNCHANGED <<qvars, inForce>>
    BY <1>5 DEF Reload, Load
  <2>2. Scanned' = Scanned /\ OfLists' = OfLists
    BY <2>1 DEF qvars, Scanned, OfLists
  <2>3. OneAddress'
    BY <1>5, WhitelistAssumption DEF Reload, Load, Zeroes, OneAddress, Index
  <2> QED
    BY <2>1, <2>2, <2>3 DEF SeenInv, qvars
<1>6. CASE ReloadStep
  <2>1. loading' /\ UNCHANGED <<qvars, inForce>>
    BY <1>6 DEF ReloadStep, LoadEntry
  <2>2. Scanned' = Scanned /\ OfLists' = OfLists
    BY <2>1 DEF qvars, Scanned, OfLists
  <2>3. WhitelistType' /\ Loaded'
    BY <1>0, <1>6, LoadEntryKeeps DEF ReloadStep
  <2>4. OneAddress'
    <3>1. OneAddress' \/ ~(WhitelistType /\ Loaded)'
      BY LoadedOne, PTL
    <3> QED
      BY <2>3, <3>1
  <2> QED
    BY <2>1, <2>2, <2>4 DEF SeenInv, qvars
<1>7. CASE ReloadDone
  <2>1. UNCHANGED <<qvars, whitelist>> /\ inForce' = inForce \cup {Hidden}
    BY <1>7 DEF ReloadDone, LoadDone
  <2>2. Scanned' = Scanned /\ OfLists' = OfLists /\ Hidden' = Hidden /\ OneAddress' = OneAddress
    BY <2>1 DEF qvars, Scanned, OfLists, Hidden, OneAddress
  <2> QED
    BY <2>1, <2>2 DEF SeenInv, qvars
<1>8. CASE BadReload \/ UNCHANGED vars
  <2>1. /\ UNCHANGED <<whitelist, loading, query, ipTable, at, j, rows, inForce>>
        /\ pc' \in {pc, "dead"}
    BY <1>8 DEF BadReload, vars, wvars, qvars
  <2>2. Scanned' = Scanned /\ OfLists' = OfLists /\ Hidden' = Hidden /\ OneAddress' = OneAddress
    BY <2>1 DEF Scanned, OfLists, Hidden, OneAddress
  <2> QED
    BY <2>1, <2>2 DEF SeenInv
<1> QED
  BY <1>1, <1>2, <1>3, <1>4, <1>5, <1>6, <1>7, <1>8 DEF Next, Child, ImportCut

\* For every list and any number of reloads between any two steps: an address
\* that each loaded array hid is in no list, and has no traffic in getFlow.
THEOREM HiddenNotShown == Spec => []HiddenAllAlong
<1>1. SeenInv => HiddenAllAlong
  BY DEF SeenInv, HiddenAllAlong
<1> QED
  BY <1>1, ShapeInit, ShapeNext, SeenInit, SeenNext, PTL DEF Spec

-----------------------------------------------------------------------------

\* Until a signal reaches the child the array stays as it was loaded, and a scan
\* has come as far as it does if it ends with a match or a zero.
CalmInv ==
    /\ reloads \in Nat
    /\ pc \notin {"start", "dead"} /\ reloads = 0 => ~loading
    /\ pc = "filter" /\ reloads = 0 =>
         \A q \in 0 .. j - 1 : whitelist[q] # 0 /\ whitelist[q] # Scanned

LEMMA CalmInit == Init => CalmInv
  BY DEF Init, CalmInv

\* Every step keeps that.
LEMMA CalmNext == ShapeInv /\ CalmInv /\ [Next]_vars => CalmInv'
<1> SUFFICES ASSUME ShapeInv, CalmInv, [Next]_vars PROVE CalmInv'
  OBVIOUS
<1>1. CASE \/ Reject \/ NoFile \/ UseToday \/ Import \/ ImportCut \/ ShowAll \/ Unknown
           \/ NotOurs \/ GetByIP \/ GetByIPBehind \/ InvalidParam \/ Sort \/ Overrun \/ Look \/ Finish \/ Hide \/ Show
  <2>1. /\ ~loading' /\ UNCHANGED reloads
        /\ pc' = "filter" => j' = 0
    BY <1>1
    DEF Reject, NoFile, UseToday, Import, ImportCut, ImportCutTable, ImportCutList,
        ImportDiep, ShowAll, Unknown, NotOurs, GetByIP, GetByIPBehind, InvalidParam, Sort, Overrun, Look, Finish, Hide, Show, Scanning, Answer, Asked, Runs
  <2> QED
    BY <2>1 DEF CalmInv
<1>2. CASE Compare
  <2>1. /\ ~loading /\ pc = "filter" /\ j' = j + 1 /\ whitelist[j] # 0 /\ whitelist[j] # Scanned
        /\ UNCHANGED <<whitelist, loading, reloads, pc, query, ipTable, at>>
    BY <1>2 DEF Compare, Scanning, Runs, Scanned
  <2>2. Scanned' = Scanned
    BY <2>1 DEF Scanned
  <2>3. j \in Nat
    <3>1. j \in 0 .. MAX_WHITELIST
      BY Zenon DEF ShapeInv, Shape
    <3> QED
      BY <3>1
  <2>4. \A q \in 0 .. j' - 1 : q = j \/ q \in 0 .. j - 1
    BY <2>1, <2>3
  <2> QED
    BY <2>1, <2>2, <2>4 DEF CalmInv
<1>3. CASE Reload \/ BadReload
  <2>1. reloads' = reloads + 1
    BY <1>3 DEF Reload, BadReload
  <2> QED
    BY <2>1 DEF CalmInv
<1>4. CASE ReloadStep \/ ReloadDone
  <2>1. loading /\ UNCHANGED <<pc, reloads>>
    BY <1>4 DEF ReloadStep, ReloadDone, LoadEntry, LoadDone, qvars
  <2> QED
    BY <2>1 DEF CalmInv
<1>5. CASE UNCHANGED vars
  <2>1. UNCHANGED <<whitelist, loading, reloads, pc, query, ipTable, at, j>>
    BY <1>5 DEF vars, wvars, qvars
  <2>2. Scanned' = Scanned
    BY <2>1 DEF Scanned
  <2> QED
    BY <2>1, <2>2 DEF CalmInv
<1> QED
  BY <1>1, <1>2, <1>3, <1>4, <1>5 DEF Next, Child, ImportCut

\* What a list leaves out is hidden, and what it shows is not.
LEMMA ScanIsRight ==
    ASSUME ShapeInv, CalmInv, reloads = 0
    PROVE  /\ Hide /\ query.cmd # "getFlow" => ipTable[at].addr \in Hidden
           /\ Show => Scanned \notin Hidden
<1>1. j \in 0 .. MAX_WHITELIST /\ MAX_WHITELIST \in Nat \ {0}
  BY WhitelistAssumption, Zenon DEF ShapeInv, Shape
<1>2. ASSUME Hide, query.cmd # "getFlow"
      PROVE  ipTable[at].addr \in Hidden
  <2>1. /\ pc = "filter" /\ j < MAX_WHITELIST /\ whitelist[j] # 0
        /\ whitelist[j] = ipTable[at].addr
    BY <1>2, Zenon DEF Hide, Scanning, Runs
  <2>2. j \in Index /\ \A q \in 0 .. j : q = j \/ q \in 0 .. j - 1
    BY <1>1, <2>1 DEF Index
  <2>3. whitelist[j] \in Addr
    <3>1. whitelist \in [Index -> Entry]
      BY DEF ShapeInv, LoadInv, WhitelistType
    <3> QED
      BY <2>1, <2>2, <3>1 DEF Entry
  <2>4. \A q \in 0 .. j : whitelist[q] # 0
    BY <2>1, <2>2 DEF CalmInv
  <2> QED
    BY <2>1, <2>2, <2>3, <2>4 DEF Hidden
<1>3. ASSUME Show, Scanned \in Hidden
      PROVE  FALSE
  <2>1. pc = "filter" /\ (j < MAX_WHITELIST => whitelist[j] = 0)
    BY <1>3 DEF Show, Runs
  <2>2. PICK p \in Index : whitelist[p] = Scanned /\ \A q \in 0 .. p : whitelist[q] # 0
    BY <1>3 DEF Hidden
  <2>3. p \in 0 .. j - 1 \/ (j < MAX_WHITELIST /\ j \in 0 .. p)
    BY <1>1 DEF Index
  <2> QED
    BY <2>1, <2>2, <2>3 DEF CalmInv
<1> QED
  BY <1>2, <1>3

-----------------------------------------------------------------------------

\* What a list has passed by: the over list nothing below the value, the top
\* list, if it is not disturbed, one hidden entry at most.
OverInv ==
    /\ pc = "overrun" /\ OfLists => at = sumIpCount
    /\ pc = "overrun" /\ query.cmd = "showTopList" => Len(rows) < n
    /\ Walking /\ query.cmd = "showOverList" => \A k \in 0 .. at - 1 : Over(k)
    /\ pc = "filter" /\ query.cmd = "showOverList" => Over(at)
    /\ Walking /\ query.cmd = "showTopList" => n < sumIpCount
    /\ Walking /\ query.cmd = "showTopList" /\ reloads = 0 /\ ~Twice =>
         \/ Len(rows) = at
         \/ Len(rows) = at - 1 /\ \E k \in 0 .. at - 1 : ipTable[k].addr \in Hidden

LEMMA OverInit == Init => OverInv
  BY DEF Init, OverInv, Walking

\* The walk goes on by one entry.
LEMMA OverWalk ==
    ASSUME ShapeInv, CalmInv, SeenInv, OverInv, Hide \/ Show, query.cmd # "getFlow"
    PROVE  OverInv'
<1>1. /\ pc = "filter" /\ pc' = "walk" /\ Keeps /\ UNCHANGED <<query, ipTable>> /\ at' = at + 1
      /\ Walking
  BY DEF Hide, Show, Scanning, Runs, Keeps, Walking
<1>2. /\ sumIpCount' = sumIpCount /\ n' = n /\ Twice' = Twice /\ Hidden' = Hidden
      /\ \A k : Over(k)' = Over(k)
  BY <1>1, KeepsHidden DEF sumIpCount, n, Twice, Over
<1>3. Shape /\ at \in 0 .. sumIpCount /\ at < sumIpCount /\ rows \in Seq(HostFlow)
  BY <1>1, Zenon DEF ShapeInv, Shape
<1>4. at \in Nat /\ Len(rows) \in Nat /\ at \in DOMAIN ipTable
      /\ \A k \in 0 .. at - 1 : k \in DOMAIN ipTable /\ k # at
  <2>1. sumIpCount \in Nat /\ DOMAIN ipTable = 0 .. sumIpCount - 1
    BY <1>3, TableSize
  <2> QED
    BY <1>3, <2>1
<1>5. \A k \in 0 .. at' - 1 : k = at \/ k \in 0 .. at - 1
  BY <1>1, <1>4
<1>6. query.cmd = "showOverList" => \A k \in 0 .. at' - 1 : Over(k)
  BY <1>1, <1>5 DEF OverInv
<1>7. ASSUME query.cmd = "showTopList", reloads = 0, ~Twice
      PROVE  \/ Len(rows') = at'
             \/ Len(rows') = at' - 1 /\ \E k \in 0 .. at' - 1 : ipTable[k].addr \in Hidden
  <2>1. \/ Len(rows) = at
        \/ Len(rows) = at - 1 /\ \E k \in 0 .. at - 1 : ipTable[k].addr \in Hidden
    BY <1>1, <1>7 DEF OverInv
  <2>2. CASE Show
    <3>1. rows' = Append(rows, ipTable[at])
      BY <1>7, <2>2, Zenon DEF Show
    <3>2. Len(rows') = Len(rows) + 1
      BY <1>3, <3>1
    <3>3. \A k \in 0 .. at - 1 : k \in 0 .. at' - 1
      BY <1>1, <1>4
    <3> QED
      BY <1>1, <1>4, <2>1, <3>2, <3>3
  <2>3. CASE Hide
    <3>1. rows' = rows
      BY <1>7, <2>3 DEF Hide
    <3>2. ipTable[at].addr \in Hidden
      BY <1>7, <2>3, ScanIsRight
    <3>3. ASSUME NEW k \in 0 .. at - 1, ipTable[k].addr \in Hidden
          PROVE  FALSE
      <4>1. /\ ipTable[k].addr = whitelist[0] /\ ipTable[at].addr = whitelist[0]
            /\ ipTable[k].addr # 0
        BY <3>2, <3>3, HiddenIsFirst DEF SeenInv
      <4> QED
        BY <1>4, <1>7, <4>1 DEF Twice
    <3>4. at \in 0 .. at' - 1 /\ at' - 1 = at
      BY <1>1, <1>4
    <3> QED
      BY <2>1, <3>1, <3>2, <3>3, <3>4
  <2> QED
    BY <2>2, <2>3
<1>8. reloads' = reloads
  BY <1>1 DEF Keeps
<1>9. query.cmd = "showTopList" => n < sumIpCount
  BY <1>1 DEF OverInv
<1> QED
  BY <1>1, <1>2, <1>6, <1>7, <1>8, <1>9 DEF OverInv

\* Every step keeps what is known of the entries passed by.
LEMMA OverNext ==
    ShapeInv /\ DayInv /\ CalmInv /\ SeenInv /\ OverInv /\ [Next]_vars => OverInv'
<1> SUFFICES ASSUME ShapeInv, DayInv, CalmInv, SeenInv, OverInv, [Next]_vars
             PROVE  OverInv'
  OBVIOUS
<1>0. Shape /\ sumIpCount \in Nat /\ ipTable \in [0 .. sumIpCount - 1 -> HostFlow]
  BY TableSize DEF ShapeInv
<1>1. CASE \/ Reject \/ NoFile \/ UseToday \/ Import \/ ImportCut \/ ShowAll \/ Unknown
           \/ NotOurs \/ InvalidParam \/ Finish
  <2>1. pc' \in {"parsed", "answered", "dead"}
    BY <1>1
    DEF Reject, NoFile, UseToday, Import, ImportCut, ImportCutTable, ImportCutList,
        ImportDiep, ShowAll, Unknown, NotOurs, InvalidParam, Finish, Answer
  <2> QED
    BY <2>1 DEF OverInv, Walking
<1>2. CASE GetByIP \/ GetByIPBehind
  <2>1. query'.cmd = "getFlow"
    BY <1>2 DEF GetByIP, GetByIPBehind, Asked
  <2>2. ~OfLists'
    BY <2>1 DEF OfLists
  <2> QED
    BY <2>1, <2>2 DEF OverInv
<1>3. CASE Sort
  <2>1. /\ at' = 0 /\ pc = "parsed" /\ pc' = "walk" /\ ipTable' \in QsortOf(ipTable)
        /\ UNCHANGED <<query, rows>> /\ (query.cmd = "showTopList" => TopAccepted)
    BY <1>3 DEF Sort, Asked, Runs
  <2>2. ipTable' \in [0 .. sumIpCount - 1 -> HostFlow]
    BY <1>0, <2>1, QsortType
  <2>3. sumIpCount' = sumIpCount /\ n' = n
    BY <1>0, <2>1, <2>2, SizeOf DEF sumIpCount, n
  <2>4. Len(rows') = 0
    BY <2>1 DEF DayInv
  <2>5. \A k \in 0 .. at' - 1 : FALSE
    BY <2>1
  <2>6. query.cmd = "showTopList" => n < sumIpCount
    BY <2>1 DEF TopAccepted
  <2> QED
    BY <2>1, <2>3, <2>4, <2>5, <2>6 DEF OverInv
<1>4. CASE Overrun \/ Look \/ Compare
  <2>1. /\ Keeps /\ UNCHANGED <<query, ipTable, at, rows>> /\ Walking
        /\ pc' \in {"overrun", "filter"}
        /\ pc' = "overrun" => at = sumIpCount /\ (query.cmd = "showTopList" => Len(rows) < n)
        /\ pc' = "filter" /\ query.cmd = "showOverList" => Over(at)
    <3>1. Overrun => /\ Keeps /\ UNCHANGED <<query, ipTable, at, rows>> /\ Walking
                     /\ pc' = "overrun" /\ at = sumIpCount
                     /\ query.cmd = "showTopList" => Len(rows) < n
      BY DEF Overrun, Runs, Keeps, Walking
    <3>2. Look => /\ Keeps /\ UNCHANGED <<query, ipTable, at, rows>> /\ Walking
                  /\ pc' = "filter"
                  /\ query.cmd = "showOverList" => Over(at)
      BY DEF Look, Goes, Runs, Keeps, Walking, Over
    <3>3. Compare => /\ Keeps /\ UNCHANGED <<query, ipTable, at, rows>> /\ Walking
                     /\ pc' = "filter"
                     /\ query.cmd = "showOverList" => Over(at)
      BY DEF Compare, Scanning, Runs, Keeps, Walking, OverInv
    <3> QED
      BY <1>4, <3>1, <3>2, <3>3
  <2>2. /\ sumIpCount' = sumIpCount /\ n' = n /\ Twice' = Twice /\ Hidden' = Hidden
        /\ \A k : Over(k)' = Over(k)
    BY <2>1, KeepsHidden DEF sumIpCount, n, Twice, Over
  <2>3. Over(at)' = Over(at) /\ reloads' = reloads
    BY <2>1 DEF Over, n, Keeps
  <2> QED
    BY <2>1, <2>2, <2>3 DEF OverInv
<1>5. CASE (Hide \/ Show) /\ query.cmd # "getFlow"
  BY <1>5, OverWalk
<1>6. CASE (Hide \/ Show) /\ query.cmd = "getFlow"
  <2>1. pc' = "answered"
    BY <1>6 DEF Hide, Show
  <2> QED
    BY <2>1 DEF OverInv, Walking
<1>7. CASE ReloadStep \/ ReloadDone \/ Reload \/ BadReload \/ UNCHANGED vars
  <2>1. /\ UNCHANGED <<query, ipTable, at, rows>> /\ pc' \in {pc, "dead"}
        /\ reloads' = reloads + 1 \/ loading \/ UNCHANGED <<whitelist, reloads>>
        /\ reloads' \in {reloads, reloads + 1}
    BY <1>7 DEF ReloadStep, ReloadDone, Reload, BadReload, LoadEntry, LoadDone, vars, wvars, qvars
  <2>2. /\ sumIpCount' = sumIpCount /\ n' = n /\ Twice' = Twice /\ OfLists' = OfLists
        /\ \A k : Over(k)' = Over(k)
    BY <2>1 DEF sumIpCount, n, Twice, Over, OfLists
  <2>3. Over(at)' = Over(at)
    BY <2>1 DEF Over, n
  <2>4. Walking /\ reloads' = 0 => reloads = 0 /\ Hidden' = Hidden
    <3> SUFFICES ASSUME Walking, reloads' = 0 PROVE reloads = 0 /\ Hidden' = Hidden
      OBVIOUS
    <3>1. reloads = 0
      BY <2>1 DEF CalmInv
    <3>2. ~loading
      BY <3>1 DEF CalmInv, Walking
    <3>3. UNCHANGED whitelist
      BY <2>1, <3>1, <3>2
    <3> QED
      BY <3>1, <3>3 DEF Hidden
  <2>5. Walking' => Walking /\ pc' = pc
    BY <2>1 DEF Walking
  <2> QED
    BY <2>1, <2>2, <2>3, <2>4, <2>5 DEF OverInv
<1> QED
  BY <1>1, <1>2, <1>3, <1>4, <1>5, <1>6, <1>7 DEF Next, Child, ImportCut

\* What is behind the table is read for one of three reasons.
LEMMA OverHasCause == ShapeInv /\ WholeInv /\ CalmInv /\ OverInv => OverrunHasCause
<1> SUFFICES ASSUME ShapeInv, WholeInv, CalmInv, OverInv, pc = "overrun"
             PROVE  OverrunHasCause
  BY DEF OverrunHasCause
<1>1. CASE query.cmd = "getFlow"
  BY <1>1 DEF WholeInv, OverrunHasCause
<1> SUFFICES ASSUME query.cmd # "getFlow" PROVE OverrunHasCause
  BY <1>1
<1>2. /\ Shape /\ sumIpCount \in Nat /\ DOMAIN ipTable = 0 .. sumIpCount - 1
      /\ Walking /\ at = sumIpCount /\ OfLists /\ query.arg # Bad
  <2>1. Shape /\ Walking
    BY DEF ShapeInv, Walking
  <2>2. OfLists /\ query.arg # Bad
    BY <2>1, Zenon DEF Shape
  <2> QED
    BY <2>1, <2>2, TableSize DEF OverInv
<1>3. CASE query.cmd = "showOverList"
  BY <1>2, <1>3 DEF OverInv, OverrunHasCause, Over
<1>4. CASE query.cmd = "showTopList"
  <2> SUFFICES ASSUME ~(reloads > 0), ~Twice PROVE FALSE
    BY <1>4 DEF OverrunHasCause
  <2>1. n \in Nat /\ Len(rows) \in Nat
    BY <1>2, ArgType DEF Shape
  <2>2. Len(rows) < n /\ n < sumIpCount
    BY <1>2, <1>4 DEF OverInv
  <2>3. reloads = 0
    BY DEF CalmInv
  <2>4. Len(rows) = at \/ Len(rows) = at - 1
    BY <1>2, <1>4, <2>3 DEF OverInv
  <2> QED
    BY <1>2, <2>1, <2>2, <2>4
<1> QED
  BY <1>2, <1>3, <1>4 DEF OfLists

\* For every table, value and limit: a list runs off the end of the table only if
\* everything in it is over the value, or if a reload or an address that stands
\* twice hides a second entry of a top list; one address is looked up behind it only
\* in the networks of a file that is cut.
THEOREM OverrunCauses == Spec => []OverrunHasCause
  BY ShapeInit, ShapeNext, WholeInit, WholeNext, DayInit, DayNext, CalmInit, CalmNext,
     SeenInit, SeenNext, OverInit, OverNext, OverHasCause, PTL DEF Spec
-----------------------------------------------------------------------------

\* A nonempty set of naturals has a least element.
LEMMA LeastNatural ==
    ASSUME NEW T, T \subseteq Nat, T # {}
    PROVE  \E x \in T : \A y \in T : x <= y
<1>1. PICK x \in T : \A y \in T : ~ (<<y, x>> \in OpToRel(<, Nat))
  BY NatLessThanWellFounded, WFMin, Zenon
<1>2. \A y \in T : ~ (y < x)
  BY <1>1 DEF OpToRel
<1> QED
  BY <1>2, SMT

\* A quotient does not shrink with its dividend.
LEMMA DivMono ==
    ASSUME NEW a \in Nat, NEW b \in Nat, NEW m \in Nat \ {0}, a <= b
    PROVE  a \div m <= b \div m
<1> DEFINE p == a \div m
           q == b \div m
<1>1. /\ p \in Nat /\ a % m \in 0 .. m - 1 /\ a = m * p + (a % m)
      /\ q \in Nat /\ b % m \in 0 .. m - 1 /\ b = m * q + (b % m)
  OBVIOUS
<1> DEFINE u == a % m
           v == b % m
<1>2. u \in Nat /\ v \in Nat /\ v < m /\ a = m * p + u /\ b = m * q + v
  BY <1>1
<1> HIDE DEF p, q, u, v
<1> SUFFICES ASSUME q < p PROVE FALSE
  BY <1>1 DEF p, q
<1>3. q + 1 <= p
  BY <1>1
<1>4. m * (q + 1) <= m * p /\ m * (q + 1) = m * q + m
  <2>1. \A x, y, z \in Nat : x <= y => z * x <= z * y
    OBVIOUS
  <2>2. \A x, y \in Nat : y * (x + 1) = y * x + y
    OBVIOUS
  <2> QED
    BY <1>1, <1>3, <2>1, <2>2
<1>5. m * p \in Nat /\ m * q \in Nat
  BY <1>1
<1> QED
  BY <1>2, <1>4, <1>5

Descending == \A k, l \in DOMAIN ipTable : k <= l => ipTable[k].total >= ipTable[l].total

\* A table whose neighbours descend descends.
LEMMA NeighboursDescend ==
    ASSUME NEW m \in Nat, NEW t \in [0 .. m - 1 -> HostFlow],
           \A k \in 1 .. m - 1 : t[k - 1].total >= t[k].total,
           NEW k \in 0 .. m - 1, NEW l \in 0 .. m - 1, k <= l
    PROVE  t[k].total >= t[l].total
<1> DEFINE T == {x \in k .. m - 1 : ~(t[k].total >= t[x].total)}
<1> SUFFICES ASSUME T # {} PROVE FALSE
  BY l \in k .. m - 1
<1>1. PICK x \in T : \A y \in T : x <= y
  BY LeastNatural, T \subseteq Nat
<1>2. \A y \in 0 .. m - 1 : t[y].total \in Nat
  BY DEF HostFlow
<1>3. x \in k .. m - 1 /\ ~(t[k].total >= t[x].total) /\ x # k
  BY <1>1, <1>2
<1>4. x - 1 \in k .. m - 1 /\ x - 1 \in 0 .. m - 1 /\ x \in 1 .. m - 1 /\ x \in 0 .. m - 1
      /\ x - 1 \notin T
  BY <1>1, <1>3
<1> QED
  BY <1>2, <1>3, <1>4

-----------------------------------------------------------------------------

\* The entries before a position that are not hidden.
Visible(end) == {k \in 0 .. end - 1 : ipTable[k].addr \notin Hidden}

Shown == {rows[r] : r \in DOMAIN rows}

\* Of the entries walked, the rows are the visible ones, in their order.
RowsRight ==
    /\ Descending
    /\ Len(rows) = Cardinality(Visible(at))
    /\ Shown = {ipTable[k] : k \in Visible(at)}
    /\ \A r \in DOMAIN rows : \A s \in 1 .. r : rows[s].total >= rows[r].total

\* A list that no reload disturbs shows what is visible of the entries walked.
WalkInv ==
    /\ pc \in {"walk", "filter"} /\ OfLists /\ reloads = 0 =>
         RowsRight /\ (query.cmd = "showTopList" => Len(rows) <= n)
    /\ pc = "filter" /\ query.cmd = "showTopList" /\ reloads = 0 => Len(rows) < n
    /\ ListIsRight

LEMMA WalkInit == Init => WalkInv
  BY DEF Init, WalkInv, ListIsRight, Done

\* The entry at hand is one more that is visible, or none.
LEMMA VisibleStep ==
    ASSUME NEW m \in Nat
    PROVE  /\ IsFiniteSet(Visible(m)) /\ Cardinality(Visible(m)) \in Nat
           /\ ipTable[m].addr \in Hidden => Visible(m + 1) = Visible(m)
           /\ ipTable[m].addr \notin Hidden =>
                /\ Visible(m + 1) = Visible(m) \cup {m}
                /\ Cardinality(Visible(m + 1)) = Cardinality(Visible(m)) + 1
<1>1. IsFiniteSet(0 .. m - 1)
  BY FS_Interval
<1>2. Visible(m) \subseteq 0 .. m - 1
  BY DEF Visible
<1>3. IsFiniteSet(Visible(m)) /\ Cardinality(Visible(m)) \in Nat
  BY <1>1, <1>2, FS_Subset, FS_CardinalityType
<1>4. 0 .. m + 1 - 1 = (0 .. m - 1) \cup {m} /\ m \notin 0 .. m - 1
  OBVIOUS
<1>5. ipTable[m].addr \in Hidden => Visible(m + 1) = Visible(m)
  BY <1>4 DEF Visible
<1>6. ASSUME ipTable[m].addr \notin Hidden
      PROVE  /\ Visible(m + 1) = Visible(m) \cup {m}
             /\ Cardinality(Visible(m + 1)) = Cardinality(Visible(m)) + 1
  <2>1. Visible(m + 1) = Visible(m) \cup {m}
    BY <1>4, <1>6 DEF Visible
  <2>2. m \notin Visible(m)
    BY <1>2, <1>4
  <2> QED
    BY <1>3, <2>1, <2>2, FS_AddElement
<1> QED
  BY <1>3, <1>5, <1>6

\* One more row.
LEMMA AppendShows ==
    ASSUME NEW S, NEW s \in Seq(S), NEW e \in S
    PROVE  /\ Len(Append(s, e)) = Len(s) + 1
           /\ {Append(s, e)[r] : r \in DOMAIN Append(s, e)} = {s[r] : r \in DOMAIN s} \cup {e}
           /\ \A r \in DOMAIN Append(s, e) :
                \/ r \in DOMAIN s /\ Append(s, e)[r] = s[r]
                \/ r = Len(s) + 1 /\ Append(s, e)[r] = e
           /\ DOMAIN s = 1 .. Len(s) /\ Len(s) \in Nat
<1> DEFINE t == Append(s, e)
<1>1. /\ t \in Seq(S) /\ Len(t) = Len(s) + 1 /\ Len(s) \in Nat
      /\ DOMAIN t = 1 .. Len(s) + 1 /\ DOMAIN s = 1 .. Len(s)
      /\ \A r \in 1 .. Len(s) : t[r] = s[r]
      /\ t[Len(s) + 1] = e
  OBVIOUS
<1> HIDE DEF t
<1>2. \A r \in DOMAIN t : \/ r \in DOMAIN s /\ t[r] = s[r]
                          \/ r = Len(s) + 1 /\ t[r] = e
  BY <1>1
<1>3. Len(s) + 1 \in DOMAIN t /\ \A r \in DOMAIN s : r \in DOMAIN t
  BY <1>1
<1>4. {t[r] : r \in DOMAIN t} \subseteq {s[r] : r \in DOMAIN s} \cup {e}
  BY <1>2
<1>5. {s[r] : r \in DOMAIN s} \cup {e} \subseteq {t[r] : r \in DOMAIN t}
  BY <1>1, <1>3
<1> QED
  BY <1>1, <1>2, <1>4, <1>5 DEF t

\* What ListIsRight says of a finished list.
IsRight ==
    LET over == {x \in Visible(sumIpCount) : Over(x)}
    IN  /\ \A r \in DOMAIN rows : \A s \in 1 .. r : rows[s].total >= rows[r].total
        /\ query.cmd = "showOverList" =>
             /\ Shown = {ipTable[k] : k \in over}
             /\ Len(rows) = Cardinality(over)
        /\ query.cmd = "showTopList" =>
             /\ Len(rows) = n
             /\ Shown \subseteq {ipTable[k] : k \in Visible(sumIpCount)}
             /\ \A k \in Visible(sumIpCount) : ipTable[k] \in Shown \/
                  \A e \in Shown : e.total >= ipTable[k].total

LEMMA ListMeans ==
    ASSUME Shape
    PROVE  (Done /\ OfLists /\ reloads = 0 => IsRight) => ListIsRight
<1>1. {k \in DOMAIN ipTable : ipTable[k].addr \notin Hidden} = Visible(sumIpCount)
  BY TableSize DEF Visible
<1> QED
  BY <1>1 DEF IsRight, ListIsRight, Shown

\* A list that ends where its loop does is what it is asked for.
LEMMA FinishRight ==
    ASSUME ShapeInv, OverInv, WalkInv, Finish, OfLists, reloads = 0
    PROVE  IsRight
<1>1. /\ Shape /\ pc = "walk" /\ RowsRight /\ Walking
      /\ query.cmd = "showTopList" => Len(rows) <= n
      /\ at < sumIpCount => ~Goes
      /\ at = sumIpCount => query.cmd = "showTopList" /\ Len(rows) = n
  BY DEF ShapeInv, Finish, Runs, WalkInv, Walking
<1>2. /\ sumIpCount \in Nat /\ ipTable \in [0 .. sumIpCount - 1 -> HostFlow]
      /\ DOMAIN ipTable = 0 .. sumIpCount - 1
  BY <1>1, TableSize
<1>3. at \in Nat /\ at <= sumIpCount
  <2>1. at \in 0 .. sumIpCount
    BY <1>1, Zenon DEF Shape
  <2> QED
    BY <1>2, <2>1
<1>4. n \in Nat /\ Len(rows) \in Nat
  <2>1. query.arg # Bad /\ rows \in Seq(HostFlow)
    BY <1>1, Zenon DEF Shape
  <2> QED
    BY <1>1, <2>1, ArgType
<1>5. ASSUME NEW k \in 0 .. sumIpCount - 1
      PROVE  ipTable[k].total \in Nat
  BY <1>2 DEF HostFlow
<1>6. /\ Visible(at) \subseteq Visible(sumIpCount) /\ Visible(sumIpCount) \subseteq DOMAIN ipTable
      /\ \A k \in Visible(sumIpCount) : k < at => k \in Visible(at)
      /\ \A k \in Visible(at) : k \in DOMAIN ipTable /\ k < at
  BY <1>2, <1>3 DEF Visible
<1>7. CASE query.cmd = "showOverList"
  <2>1. at < sumIpCount /\ ~Over(at) /\ at \in 0 .. sumIpCount - 1
    BY <1>1, <1>2, <1>3, <1>7 DEF Goes, Over
  <2>2. ASSUME NEW k \in 0 .. sumIpCount - 1, Over(k)
        PROVE  k < at
    <3> SUFFICES ASSUME at <= k PROVE FALSE
      BY <1>3
    <3>1. ipTable[at].total >= ipTable[k].total
      BY <1>1, <1>2, <2>1 DEF RowsRight, Descending
    <3>2. ipTable[at].total \in Nat /\ ipTable[k].total \in Nat
      BY <1>5, <2>1
    <3>3. ipTable[k].total \div MBYTES <= ipTable[at].total \div MBYTES
      BY <3>1, <3>2, DivMono, QueryAssumption
    <3>4. ipTable[k].total \div MBYTES \in Int /\ ipTable[at].total \div MBYTES \in Int
      BY <3>2, QueryAssumption
    <3> QED
      BY <1>4, <2>1, <2>2, <3>3, <3>4 DEF Over
  <2>3. \A k \in 0 .. at - 1 : Over(k)
    BY <1>1, <1>7 DEF OverInv
  <2>4. {x \in Visible(sumIpCount) : Over(x)} = Visible(at)
    <3>1. \A x \in Visible(sumIpCount) : Over(x) => x \in Visible(at)
      BY <1>2, <1>6, <2>2
    <3>2. \A x \in Visible(at) : x \in 0 .. at - 1
      BY DEF Visible
    <3> QED
      BY <1>6, <2>3, <3>1, <3>2
  <2> QED
    BY <1>1, <1>7, <2>4 DEF IsRight, RowsRight
<1>8. CASE query.cmd = "showTopList"
  <2>1. Len(rows) = n
    <3>1. at < sumIpCount => ~(Len(rows) < n)
      BY <1>1, <1>8, Zenon DEF Goes
    <3>2. at < sumIpCount \/ at = sumIpCount
      BY <1>2, <1>3
    <3> QED
      BY <1>1, <1>4, <1>8, <3>1, <3>2
  <2>2. Shown \subseteq {ipTable[k] : k \in Visible(sumIpCount)}
    BY <1>1, <1>6 DEF RowsRight
  <2>3. ASSUME NEW k \in Visible(sumIpCount), ipTable[k] \notin Shown, NEW e \in Shown
        PROVE  e.total >= ipTable[k].total
    <3>1. PICK l \in Visible(at) : e = ipTable[l]
      BY <1>1, <2>3 DEF RowsRight
    <3>2. k \notin Visible(at)
      BY <1>1, <2>3 DEF RowsRight
    <3>3. l \in DOMAIN ipTable /\ l < at /\ k \in DOMAIN ipTable /\ ~(k < at)
      BY <1>6, <3>2, Zenon
    <3>4. l <= k
      BY <1>2, <1>3, <3>3
    <3> QED
      BY <1>1, <3>1, <3>3, <3>4 DEF RowsRight, Descending
  <2> QED
    BY <1>1, <1>8, <2>1, <2>2, <2>3 DEF IsRight, RowsRight
<1> QED
  BY <1>7, <1>8 DEF OfLists

\* One step of a walk that no reload disturbs: the entry is a row, or is hidden.
LEMMA WalkRows ==
    ASSUME ShapeInv, CalmInv, WalkInv, Hide \/ Show, OfLists, reloads = 0
    PROVE  RowsRight' /\ (query.cmd = "showTopList" => Len(rows') <= n)
<1>1. /\ pc = "filter" /\ Keeps /\ UNCHANGED <<query, ipTable>> /\ at' = at + 1
      /\ query.cmd # "getFlow"
  BY DEF Hide, Show, Scanning, Runs, Keeps, OfLists
<1>2. RowsRight /\ (query.cmd = "showTopList" => Len(rows) < n)
  BY <1>1 DEF WalkInv
<1>3. /\ Shape /\ sumIpCount \in Nat /\ ipTable \in [0 .. sumIpCount - 1 -> HostFlow]
      /\ at \in 0 .. sumIpCount /\ at < sumIpCount /\ rows \in Seq(HostFlow)
      /\ query.arg # Bad
  <2>1. Shape /\ Walking
    BY <1>1 DEF ShapeInv, Walking
  <2>2. /\ at \in 0 .. sumIpCount /\ at < sumIpCount /\ rows \in Seq(HostFlow)
        /\ query.arg # Bad
    BY <1>1, <2>1, Zenon DEF Shape
  <2> QED
    BY <2>1, <2>2, TableSize
<1>4. /\ at \in Nat /\ at \in DOMAIN ipTable /\ ipTable[at] \in HostFlow /\ n \in Nat
      /\ DOMAIN ipTable = 0 .. sumIpCount - 1
  <2>1. at \in Nat /\ at \in 0 .. sumIpCount - 1
    BY <1>3
  <2> QED
    BY <1>3, <2>1, ArgType
<1>5. Hidden' = Hidden /\ Descending' = Descending /\ Visible(at)' = Visible(at + 1)
  <2>1. Hidden' = Hidden
    BY <1>1, KeepsHidden
  <2> QED
    BY <1>1, <2>1 DEF Descending, Visible
<1>6. Shown' = {rows'[r] : r \in DOMAIN rows'}
  BY DEF Shown
<1>7. CASE Hide
  <2>1. rows' = rows /\ ipTable[at].addr \in Hidden
    BY <1>1, <1>3, <1>7, ScanIsRight DEF Hide
  <2>2. Visible(at + 1) = Visible(at)
    BY <1>4, <2>1, VisibleStep
  <2>3. Visible(at)' = Visible(at + 1) /\ Shown' = Shown
    BY <1>5, <2>1 DEF Shown
  <2>4. RowsRight'
    BY <1>1, <1>2, <1>5, <2>1, <2>2, <2>3 DEF RowsRight
  <2>5. Len(rows') \in Nat
    BY <1>3, <2>1
  <2> QED
    BY <1>2, <1>4, <2>1, <2>4, <2>5
<1>8. CASE Show
  <2>1. rows' = Append(rows, ipTable[at]) /\ ipTable[at].addr \notin Hidden
    <3>1. Scanned = ipTable[at].addr
      BY <1>1 DEF Scanned
    <3>2. Scanned \notin Hidden
      BY <1>8, ScanIsRight
    <3>3. rows' = Append(rows, ipTable[at])
      BY <1>1, <1>8, Zenon DEF Show
    <3> QED
      BY <3>1, <3>2, <3>3
  <2>2. /\ Visible(at + 1) = Visible(at) \cup {at}
        /\ Cardinality(Visible(at + 1)) = Cardinality(Visible(at)) + 1
    BY <1>4, <2>1, VisibleStep
  <2> DEFINE e == ipTable[at]
  <2>3. /\ Len(rows') = Len(rows) + 1
        /\ {rows'[r] : r \in DOMAIN rows'} = {rows[r] : r \in DOMAIN rows} \cup {e}
        /\ \A r \in DOMAIN rows' :
             \/ r \in DOMAIN rows /\ rows'[r] = rows[r]
             \/ r = Len(rows) + 1 /\ rows'[r] = e
        /\ DOMAIN rows = 1 .. Len(rows) /\ Len(rows) \in Nat
    <3>1. rows \in Seq(HostFlow) /\ e \in HostFlow /\ rows' = Append(rows, e)
      BY <1>3, <1>4, <2>1
    <3> HIDE DEF e
    <3> QED
      BY <3>1, AppendShows
  <2>4. Len(rows') = Cardinality(Visible(at + 1))
    BY <1>2, <2>2, <2>3 DEF RowsRight
  <2>5. Shown' = {ipTable[k] : k \in Visible(at + 1)}
    BY <1>2, <1>6, <2>2, <2>3 DEF RowsRight, Shown
  <2>6. \A r \in DOMAIN rows : rows[r].total >= e.total
    <3> SUFFICES ASSUME NEW r \in DOMAIN rows PROVE rows[r].total >= e.total
      OBVIOUS
    <3>1. PICK k \in Visible(at) : rows[r] = ipTable[k]
      BY <1>2 DEF RowsRight, Shown
    <3>2. k \in 0 .. at - 1
      BY DEF Visible
    <3>3. k \in DOMAIN ipTable /\ k <= at
      BY <1>3, <1>4, <3>2
    <3> QED
      BY <1>2, <1>4, <3>1, <3>3 DEF RowsRight, Descending
  <2>7. e.total >= e.total
    <3>1. e.total \in Nat
      BY <1>4 DEF HostFlow
    <3> QED
      BY <3>1
  <2> HIDE DEF e
  <2>8. \A r \in DOMAIN rows' : \A s \in 1 .. r : rows'[s].total >= rows'[r].total
    <3> SUFFICES ASSUME NEW r \in DOMAIN rows', NEW s \in 1 .. r
                 PROVE  rows'[s].total >= rows'[r].total
      OBVIOUS
    <3>1. CASE r \in DOMAIN rows /\ rows'[r] = rows[r]
      <4>1. s \in DOMAIN rows /\ s # Len(rows) + 1
        BY <2>3, <3>1
      <4>2. DOMAIN rows' = 1 .. Len(rows') /\ s \in DOMAIN rows'
        <5>1. rows' \in Seq(HostFlow)
          BY <1>3, <1>4, <2>1, AppendType
        <5> QED
          BY <2>3, <4>1, <5>1
      <4>3. rows'[s] = rows[s]
        BY <2>3, <4>1, <4>2
      <4> QED
        BY <1>2, <3>1, <4>3 DEF RowsRight
    <3>2. CASE r = Len(rows) + 1 /\ rows'[r] = e
      <4>1. s \in DOMAIN rows'
        <5>1. rows' \in Seq(HostFlow)
          BY <1>3, <1>4, <2>1, AppendType
        <5> QED
          BY <2>3, <3>2, <5>1
      <4>2. rows'[s] = e \/ \E q \in DOMAIN rows : rows'[s] = rows[q]
        BY <2>3, <4>1
      <4> QED
        BY <2>6, <2>7, <3>2, <4>2
    <3> QED
      BY <2>3, <3>1, <3>2
  <2>9. query.cmd = "showTopList" => Len(rows') <= n
    BY <1>2, <1>4, <2>3
  <2>10. Descending'
    BY <1>2, <1>5 DEF RowsRight
  <2>11. at' = at + 1 /\ ipTable' = ipTable
    BY <1>1
  <2>12. RowsRight'
    BY <1>5, <2>4, <2>5, <2>8, <2>10, <2>11 DEF RowsRight
  <2> QED
    BY <2>9, <2>12
<1> QED
  BY <1>7, <1>8

\* The table of a list, after qsort.
LEMMA SortDescends ==
    ASSUME ShapeInv, DayInv, Sort
    PROVE  RowsRight' /\ Len(rows') = 0
<1>1. /\ at' = 0 /\ pc = "parsed" /\ rows' = rows /\ ipTable' \in QsortOf(ipTable)
  BY DEF Sort, Asked, Runs
<1>2. Shape /\ sumIpCount \in Nat /\ ipTable \in [0 .. sumIpCount - 1 -> HostFlow]
  BY TableSize DEF ShapeInv
<1> DEFINE m == sumIpCount
<1>3. /\ ipTable' \in [0 .. m - 1 -> HostFlow] /\ m \in Nat
      /\ \A k \in 1 .. m - 1 : ipTable'[k - 1].total >= ipTable'[k].total
  BY <1>1, <1>2, QsortType
<1> HIDE DEF m
<1>4. \A k, l \in 0 .. m - 1 : k <= l => ipTable'[k].total >= ipTable'[l].total
  BY <1>3, NeighboursDescend
<1>5. Descending'
  BY <1>3, <1>4 DEF Descending
<1>6. rows' = <<>> /\ DOMAIN rows' = {} /\ Len(rows') = 0
  BY <1>1 DEF DayInv
<1>7. Visible(at)' = {}
  BY <1>1 DEF Visible
<1>8. Shown' = {}
  BY <1>6 DEF Shown
<1> QED
  BY <1>5, <1>6, <1>7, <1>8, FS_EmptySet DEF RowsRight

\* Every step keeps a list right.
LEMMA WalkNext ==
    ShapeInv /\ DayInv /\ CalmInv /\ OverInv /\ WalkInv /\ [Next]_vars => WalkInv'
<1> SUFFICES ASSUME ShapeInv, DayInv, CalmInv, OverInv, WalkInv, [Next]_vars
             PROVE  WalkInv'
  OBVIOUS
<1>0. Shape'
  BY ShapeNext DEF ShapeInv
<1>1. CASE \/ Reject \/ NoFile \/ UseToday \/ Import \/ ImportCut \/ ShowAll \/ Unknown
           \/ NotOurs \/ InvalidParam
  <2>1. /\ pc' \in {"parsed", "answered", "dead"}
        /\ pc' = "answered" => status' # "S_OK"
    BY <1>1
    DEF Reject, NoFile, UseToday, Import, ImportCut, ImportCutTable, ImportCutList,
        ImportDiep, ShowAll, Unknown, NotOurs, InvalidParam, Answer
  <2> QED
    BY <2>1 DEF WalkInv, ListIsRight, Done
<1>2. CASE GetByIP \/ GetByIPBehind
  <2>1. pc' \in {"filter", "overrun"} /\ query'.cmd = "getFlow"
    BY <1>2 DEF GetByIP, GetByIPBehind, Asked
  <2> QED
    BY <2>1 DEF WalkInv, ListIsRight, Done, OfLists
<1>3. CASE Sort
  <2>1. RowsRight' /\ Len(rows') = 0
    BY <1>3, SortDescends
  <2>2. pc' = "walk" /\ UNCHANGED query /\ (query.cmd = "showTopList" => TopAccepted)
        /\ pc = "parsed"
    BY <1>3 DEF Sort, Asked, Runs
  <2>3. query.cmd = "showTopList" => Len(rows') <= n'
    <3> SUFFICES ASSUME query.cmd = "showTopList" PROVE Len(rows') <= n'
      OBVIOUS
    <3>1. query.arg # Bad
      BY <1>3 DEF Sort, Asked
    <3>2. n \in Nat
      BY <3>1, ArgType DEF ShapeInv
    <3>3. n' = n
      BY <2>2 DEF n
    <3> QED
      BY <2>1, <3>2, <3>3
  <2> QED
    BY <2>1, <2>2, <2>3 DEF WalkInv, ListIsRight, Done
<1>4. CASE Finish
  <2>1. pc' = "answered" /\ UNCHANGED <<query, ipTable, rows, whitelist, reloads>>
    BY <1>4 DEF Finish, Answer, Runs
  <2>2. OfLists' /\ reloads' = 0 => IsRight'
    <3>1. OfLists' = OfLists /\ IsRight' = IsRight
      BY <2>1 DEF OfLists, IsRight, Visible, Hidden, sumIpCount, Over, n, Shown
    <3> QED
      BY <1>4, <2>1, <3>1, FinishRight
  <2>3. ListIsRight'
    <3>1. Shape' /\ (Done /\ OfLists /\ reloads = 0 => IsRight)' => ListIsRight'
      BY ListMeans, PTL
    <3> QED
      BY <1>0, <2>1, <2>2, <3>1
  <2> QED
    BY <2>1, <2>3 DEF WalkInv
<1>5. CASE Overrun
  <2>1. pc' = "overrun"
    BY <1>5 DEF Overrun
  <2> QED
    BY <2>1 DEF WalkInv, ListIsRight, Done
<1>6. CASE Look \/ Compare
  <2>1. /\ UNCHANGED <<query, ipTable, at, rows, whitelist, reloads>>
        /\ pc \in {"walk", "filter"} /\ pc' = "filter"
    BY <1>6 DEF Look, Compare, Scanning, Runs
  <2>2. RowsRight' = RowsRight /\ n' = n /\ OfLists' = OfLists
    BY <2>1 DEF RowsRight, Descending, Visible, Hidden, Shown, n, OfLists
  <2>3. query.cmd = "showTopList" /\ reloads = 0 => Len(rows) < n
    <3>1. CASE Look
      BY <3>1 DEF Look, Goes
    <3>2. CASE Compare
      BY <3>2 DEF Compare, Scanning, Runs, WalkInv
    <3> QED
      BY <1>6, <3>1, <3>2
  <2> QED
    BY <2>1, <2>2, <2>3 DEF WalkInv, ListIsRight, Done
<1>7. CASE (Hide \/ Show) /\ OfLists
  <2>1. pc' = "walk" /\ UNCHANGED <<query, reloads>>
    BY <1>7 DEF Hide, Show, Scanning, Runs, OfLists
  <2>2. n' = n
    BY <2>1 DEF n
  <2>3. reloads = 0 => RowsRight' /\ (query.cmd = "showTopList" => Len(rows') <= n)
    BY <1>7, WalkRows
  <2> QED
    BY <2>1, <2>2, <2>3 DEF WalkInv, ListIsRight, Done
<1>8. CASE (Hide \/ Show) /\ ~OfLists
  <2>1. Shape /\ Walking /\ pc = "filter"
    BY <1>8 DEF ShapeInv, Walking, Hide, Show, Scanning, Runs
  <2>2. query.cmd = "getFlow"
    BY <1>8, <2>1 DEF Shape
  <2>3. pc' = "answered" /\ UNCHANGED query
    BY <1>8, <2>2 DEF Hide, Show
  <2>4. ~OfLists'
    BY <1>8, <2>3 DEF OfLists
  <2> QED
    BY <2>3, <2>4 DEF WalkInv, ListIsRight
<1>9. CASE Reload \/ BadReload
  <2>1. reloads' = reloads + 1
    BY <1>9 DEF Reload, BadReload
  <2>2. reloads' # 0
    BY <2>1 DEF CalmInv
  <2> QED
    BY <2>2 DEF WalkInv, ListIsRight
<1>10. CASE ReloadStep \/ ReloadDone
  <2>1. loading /\ UNCHANGED <<pc, reloads>>
    BY <1>10 DEF ReloadStep, ReloadDone, LoadEntry, LoadDone, qvars
  <2>2. reloads' = 0 => pc' \in {"start", "dead"}
    BY <2>1 DEF CalmInv
  <2> QED
    BY <2>2 DEF WalkInv, ListIsRight, Done
<1>11. CASE UNCHANGED vars
  <2>1. UNCHANGED <<pc, query, ipTable, at, rows, whitelist, reloads, status>>
    BY <1>11 DEF vars, wvars, qvars
  <2>2. RowsRight' = RowsRight /\ n' = n /\ OfLists' = OfLists
    BY <2>1 DEF RowsRight, Descending, Visible, Hidden, Shown, n, OfLists
  <2>3. ListIsRight' = ListIsRight
    BY <2>1 DEF ListIsRight, Done, OfLists, Hidden, Over, n
  <2> QED
    BY <2>1, <2>2, <2>3 DEF WalkInv
<1> QED
  BY <1>1, <1>2, <1>3, <1>4, <1>5, <1>6, <1>7, <1>8, <1>9, <1>10, <1>11 DEF Next, Child, ImportCut

\* For every table, whitelist, value and limit: unless the whitelist is loaded
\* meanwhile, the answer to showOverList is what is visible and over the value,
\* and that to showTopList as many of the largest visible entries as asked for.
THEOREM ListsAreRight == Spec => []ListIsRight
<1>1. WalkInv => ListIsRight
  BY DEF WalkInv
<1> QED
  BY <1>1, ShapeInit, ShapeNext, DayInit, DayNext, CalmInit, CalmNext, SeenInit, SeenNext,
     OverInit, OverNext, WalkInit, WalkNext, PTL DEF Spec
=============================================================================
