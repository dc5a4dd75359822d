--------------------------- MODULE WhitelistProofs --------------------------
(* Proofs about Whitelist, and that the queries of Query see such an array. *)
EXTENDS Query, TLAPS

\* The array while it is loaded: nothing yet, or the first address as often as
\* there are networks it is in, and a zero behind it that stays.
Loaded ==
    \/ i = 0 /\ whitelist = Zeroes
    \/ /\ whitelistIps # <<>>
       /\ i > Matches(whitelistIps[1])
       /\ \A p \in Index :
            /\ p < Matches(whitelistIps[1]) => whitelist[p] = whitelistIps[1]
            /\ p = Matches(whitelistIps[1]) => whitelist[p] = 0

LoadInv == WhitelistType /\ (loading => Loaded)

\* The number of networks that contain an address.
LEMMA MatchesType ==
    ASSUME WhitelistType, NEW a
    PROVE  Matches(a) \in Nat
  BY DEF Matches, WhitelistType

\* What LoadWhitelist reads from the list is an address or 0.
LEMMA ListEntry ==
    ASSUME WhitelistType
    PROVE  /\ whitelistIps \in Seq(Entry)
           /\ \A k \in 1 .. Len(whitelistIps) : whitelistIps[k] \in Entry
<1>1. whitelistIps \in Seq(Entry)
  BY WhitelistAssumption DEF WhitelistType
<1> QED
  BY <1>1

\* At first the array is all zeroes.
LEMMA LoadInvInit == WhitelistInit => LoadInv
  BY WhitelistAssumption
  DEF WhitelistInit, WhitelistStart, LoadInv, Loaded, WhitelistType, Zeroes, Entry

\* One turn of the loop leaves a zero behind what it writes.
LEMMA LoadEntryKeeps ==
    ASSUME LoadInv, LoadEntry
    PROVE  WhitelistType' /\ Loaded'
<1> DEFINE a == whitelistIps[i + 1]
           m == Matches(a)
<1>1. /\ i \in Nat /\ i < MAX_WHITELIST /\ i < Len(whitelistIps)
      /\ MAX_WHITELIST \in Nat
  BY WhitelistAssumption DEF LoadEntry, LoadInv, WhitelistType
<1>2. a \in Entry /\ Len(whitelistIps) \in Nat
  BY <1>1, ListEntry DEF LoadInv
<1>3. m \in Nat
  BY MatchesType DEF LoadInv
<1>4. /\ whitelist' = [p \in Index |-> IF i <= p /\ p < i + m THEN a ELSE whitelist[p]]
      /\ i' = i + m + 1
      /\ UNCHANGED <<nets, loading, whitelistIps>>
  BY DEF LoadEntry
<1>5. WhitelistType'
  <2> HIDE DEF a, m
  <2> QED
    BY <1>1, <1>2, <1>3, <1>4 DEF LoadInv, WhitelistType
<1>6. Matches(whitelistIps[1])' = Matches(whitelistIps[1])
  BY <1>4 DEF Matches
<1>7. whitelistIps # <<>> /\ Matches(whitelistIps[1]) \in Nat
  BY <1>1, MatchesType, ListEntry DEF LoadInv
<1>8. ASSUME i = 0 PROVE Loaded'
  <2>1. a = whitelistIps[1] /\ m = Matches(whitelistIps[1])
    BY <1>8
  <2>2. whitelist = Zeroes
    BY <1>8, <1>7 DEF LoadInv, LoadEntry, Loaded
  <2> HIDE DEF a, m
  <2>3. /\ i' > m
        /\ \A p \in Index : /\ p < m => whitelist'[p] = a
                            /\ p = m => whitelist'[p] = 0
    BY <1>3, <1>4, <1>8, <2>2 DEF Zeroes, Index
  <2> QED
    <3>1. /\ i' > Matches(whitelistIps[1])'
          /\ \A p \in Index :
               /\ p < Matches(whitelistIps[1])' => whitelist'[p] = whitelistIps'[1]
               /\ p = Matches(whitelistIps[1])' => whitelist'[p] = 0
      BY <1>4, <1>6, <2>1, <2>3
    <3> QED
      BY <3>1, <1>4, <1>7 DEF Loaded
<1>9. ASSUME i # 0 PROVE Loaded'
  <2> DEFINE k == Matches(whitelistIps[1])
  <2>1. /\ i > k
        /\ \A p \in Index : /\ p < k => whitelist[p] = whitelistIps[1]
                            /\ p = k => whitelist[p] = 0
    BY <1>9 DEF LoadInv, LoadEntry, Loaded
  <2>2. k \in Nat
    BY <1>7
  <2> HIDE DEF a, m, k
  <2>3. \A p \in Index : p <= k => whitelist'[p] = whitelist[p]
    BY <1>1, <1>4, <2>1, <2>2 DEF Index
  <2>4. i' > k
    BY <1>1, <1>3, <1>4, <2>1, <2>2
  <2>5. \A p \in Index : /\ p < k => whitelist'[p] = whitelistIps[1]
                         /\ p = k => whitelist'[p] = 0
    BY <1>1, <2>1, <2>2, <2>3 DEF Index
  <2> QED
    <3>1. /\ i' > Matches(whitelistIps[1])'
          /\ \A p \in Index :
               /\ p < Matches(whitelistIps[1])' => whitelist'[p] = whitelistIps'[1]
               /\ p = Matches(whitelistIps[1])' => whitelist'[p] = 0
      BY <1>4, <1>6, <2>4, <2>5 DEF k
    <3> QED
      BY <3>1, <1>4, <1>7 DEF Loaded
<1> QED
  BY <1>5, <1>8, <1>9

\* Every step of loading, and every change of the networks, keeps the invariant.
LEMMA LoadInvNext == LoadInv /\ [WhitelistNext]_wvars => LoadInv'
<1> SUFFICES ASSUME LoadInv, [WhitelistNext]_wvars
             PROVE  LoadInv'
  OBVIOUS
<1>1. CASE Load
  BY <1>1, WhitelistAssumption
  DEF Load, LoadInv, Loaded, WhitelistType, Zeroes, Entry
<1>2. CASE LoadEntry
  BY <1>2, LoadEntryKeeps DEF LoadInv
<1>3. CASE LoadDone
  BY <1>3 DEF LoadDone, LoadInv, WhitelistType
<1>4. CASE NewNets
  BY <1>4 DEF NewNets, LoadInv, WhitelistType
<1>5. CASE UNCHANGED wvars
  BY <1>5 DEF wvars, LoadInv, WhitelistType, Loaded, Matches
<1> QED
  BY <1>1, <1>2, <1>3, <1>4, <1>5 DEF WhitelistNext

\* When the loop has ended, readers find the first address and no other.
LEMMA DoneHidesFirst ==
    ASSUME LoadInv, LoadDone
    PROVE  Hidden' = First'
<1>1. /\ i \in Nat /\ (i >= MAX_WHITELIST \/ i >= Len(whitelistIps)) /\ Loaded
      /\ UNCHANGED <<nets, whitelist, whitelistIps, i>> /\ WhitelistType
  BY DEF LoadDone, LoadInv, WhitelistType
<1>2. Hidden' = Hidden /\ First' = First
  BY <1>1 DEF Hidden, First
<1>3. MAX_WHITELIST \in Nat \ {0} /\ 0 \notin Addr /\ 0 \in Index
  BY WhitelistAssumption DEF Index
<1>4. CASE i = 0 /\ whitelist = Zeroes
  <2>1. Hidden = {}
    BY <1>3, <1>4 DEF Hidden, Zeroes
  <2>2. whitelistIps = <<>> \/ First = {}
    <3>1. Len(whitelistIps) = 0
      BY <1>1, <1>3, <1>4, ListEntry
    <3> QED
      BY <3>1, <1>1, ListEntry
  <2> QED
    BY <1>2, <2>1, <2>2 DEF First
<1>5. CASE /\ whitelistIps # <<>>
           /\ \A p \in Index :
                /\ p < Matches(whitelistIps[1]) => whitelist[p] = whitelistIps[1]
                /\ p = Matches(whitelistIps[1]) => whitelist[p] = 0
  <2> DEFINE f == whitelistIps[1]
             k == Matches(f)
  <2>1. k \in Nat
    BY <1>1, MatchesType
  <2>2. First = IF k > 0 THEN {f} ELSE {}
    BY <1>1, <1>5 DEF First, Matches, WhitelistType
  <2>3. \A a \in Hidden : k > 0 /\ a = f
    <3> SUFFICES ASSUME NEW a \in Addr, NEW p \in Index, whitelist[p] = a,
                        \A q \in 0 .. p : whitelist[q] # 0
                 PROVE  k > 0 /\ a = f
      BY DEF Hidden
    <3>1. p < k
      <4> SUFFICES ASSUME p >= k
                   PROVE  FALSE
        BY <2>1 DEF Index
      <4>1. k \in Index /\ k \in 0 .. p
        BY <2>1, <1>3 DEF Index
      <4> QED
        BY <4>1, <1>5
    <3> QED
      BY <3>1, <2>1, <1>5 DEF Index
  <2>4. k > 0 => f \in Hidden
    <3> SUFFICES ASSUME k > 0
                 PROVE  f \in Hidden
      OBVIOUS
    <3>1. f \in Addr
      BY DEF Matches
    <3>2. whitelist[0] = f /\ f # 0 /\ \A q \in 0 .. 0 : q = 0
      BY <3>1, <1>3, <1>5
    <3> QED
      BY <3>1, <3>2, <1>3 DEF Hidden
  <2> HIDE DEF f, k
  <2> QED
    BY <1>2, <2>2, <2>3, <2>4
<1> QED
  BY <1>1, <1>4, <1>5 DEF Loaded

\* For every list and any networks: after LoadWhitelist, readers of the array
\* find the first address of the list, if it is in a network, and no other.
THEOREM OnlyTheFirst == WhitelistSpec => OnlyFirstHidden
<1>1. LoadInv /\ [WhitelistNext]_wvars => [LoadDone => Hidden' = First']_wvars
  BY DoneHidesFirst
<1> QED
  BY <1>1, LoadInvInit, LoadInvNext, PTL DEF WhitelistSpec, OnlyFirstHidden

-----------------------------------------------------------------------------

\* A query child starts with the load of main().
LEMMA QueryInit == Init => WhitelistInit
<1> SUFFICES ASSUME Init
             PROVE  WhitelistInit
  OBVIOUS
<1>1. nets \in [Addr -> Nat]
  BY QueryAssumption DEF Init
<1> QED
  BY <1>1 DEF Init, WhitelistInit

\* Every step of a query child is a step of Whitelist or leaves the array alone.
LEMMA QueryNext == [Next]_vars => [WhitelistNext]_wvars
<1> SUFFICES ASSUME [Next]_vars
             PROVE  WhitelistNext \/ UNCHANGED wvars
  OBVIOUS
<1>1. CASE Import
  <2>1. \A f \in Days : f.nets \in [Addr -> Nat]
    BY QueryAssumption
  <2>2. nets' \in [Addr -> Nat]
    BY <1>1, <2>1 DEF Import
  <2> QED
    BY <1>1, <2>2 DEF Import, Runs, WhitelistNext, NewNets
<1>2. CASE \/ Reject \/ NoFile \/ UseToday \/ ImportDiep \/ ShowAll \/ Unknown
           \/ NotOurs \/ GetByIP \/ GetByIPBehind \/ InvalidParam \/ Sort
           \/ Overrun \/ Look \/ Finish \/ Compare \/ Hide \/ Show
  BY <1>2
  DEF Reject, NoFile, UseToday, ImportDiep, ShowAll, Unknown, NotOurs, GetByIP,
      GetByIPBehind, InvalidParam, Sort, Overrun, Look, Finish, Compare, Hide, Show, Scanning, Asked, Answer,
      Runs, wvars
<1>3. CASE ReloadStep \/ ReloadDone \/ Reload
  BY <1>3 DEF ReloadStep, ReloadDone, Reload, WhitelistNext
<1>4. CASE BadReload
  BY <1>4 DEF BadReload, wvars
<1>5. CASE UNCHANGED vars
  BY <1>5 DEF vars, wvars
<1>6. CASE ImportCutTable
  <2>1. \A f \in Days : f.nets \in [Addr -> Nat]
    BY QueryAssumption
  <2>2. nets' \in [Addr -> Nat]
    BY <1>6, <2>1 DEF ImportCutTable
  <2> QED
    BY <1>6, <2>2 DEF ImportCutTable, Runs, WhitelistNext, NewNets
<1>7. CASE ImportCutList
  <2>1. \A c \in CutLists : c.nets \in [Addr -> Nat]
    BY QueryAssumption
  <2>2. nets' \in [Addr -> Nat]
    BY <1>7, <2>1 DEF ImportCutList
  <2> QED
    BY <1>7, <2>2 DEF ImportCutList, Runs, WhitelistNext, NewNets
<1> QED
  BY <1>1, <1>2, <1>3, <1>4, <1>5, <1>6, <1>7 DEF Next, Child

\* The whitelist of a query child is loaded as Whitelist describes, whatever
\* the child is doing when the signal reaches it.
THEOREM QueryImplementsWhitelist == Spec => WhitelistSpec
  BY QueryInit, QueryNext, PTL DEF Spec, WhitelistSpec

\* So what its answers leave out is one address at most.
THEOREM QueriesHideTheFirst == Spec => OnlyFirstHidden
  BY QueryImplementsWhitelist, OnlyTheFirst, PTL
=============================================================================
