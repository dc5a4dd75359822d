------------------------------- MODULE IpIndex ------------------------------
(***************************************************************************)
(* Which entry of ipTable an address is counted in: the subnets LoadConfig *)
(* reads, their qsort, the binary search of getIPIdx, and the replacement  *)
(* of the list by the one an imported file holds, whole or cut short.      *)
(*                                                                         *)
(* An address is the in_addr_t the code computes with on a little-endian   *)
(* machine: its first octet is the least significant one.  Words (in_addr_t*)
(* and uint) have the width of an address.                                 *)
(***************************************************************************)
EXTENDS Integers, FiniteSets

CONSTANTS
    OctetBits,      \* 8 in the code
    Octets,         \* 4 in the code
    MaxSubnet,      \* MAX_SUBNET
    Configs,        \* the statedNetworks lists to load
    MyNet,          \* myNetwork
    Lookups,        \* the addresses to look up
    Garbage,        \* what a number in a cut header may come out as
    ShiftWraps,     \* shifts by the word's width and more, which C leaves
                    \*   undefined: by the amount modulo the width (x86), or
                    \*   all bits out
    MaxImports      \* bound: imports of a process, main's and its command's

W == OctetBits * Octets
Space == 2 ^ W
Addr == 0 .. Space - 1
\* No check rejects a prefix: 0 and those above 32 get in (maskBits is a uchar).
Network == [net : Addr, prefix : 0 .. 255]
\* struct subnet; its mask is known by the number of its leading ones.
Subnet == [net : Addr, len : 0 .. W, maskBits : 0 .. 255, ipCount : Addr]
Zero == [net |-> 0, len |-> 0, maskBits |-> 0, ipCount |-> 0]

RET_IN_MYNET == -1
RET_NOT_IN_MYNET == -2

\* ip & htonl(0xffffffff << (32 - n)): the first n bits in network order.
Masked(ip, n) ==
    LET high  == 2 ^ (OctetBits * (n \div OctetBits))
        low   == 2 ^ (OctetBits - (n % OctetBits))
        octet == (ip \div high) % (2 ^ OctetBits)
    IN  (ip % high) + high * (octet - (octet % low))

\* 0xffffffff << (32 - p)
MaskLen(p) ==
    IF ~(p \in 1 .. W \/ ShiftWraps) THEN 0 ELSE IF p % W = 0 THEN W ELSE p % W

\* x >> k
Shifted(x, k) == IF k < W \/ ShiftWraps THEN x \div (2 ^ (k % W)) ELSE 0

ASSUME IpIndexAssumption ==
    /\ OctetBits \in Nat \ {0} /\ Octets \in Nat \ {0}
    /\ MaxSubnet \in Nat /\ MaxImports \in Nat
    /\ \A c \in Configs : \E n \in 1 .. MaxSubnet : c \in [0 .. n - 1 -> Network]
    /\ MyNet \in Network
    /\ Lookups \subseteq Addr /\ Garbage \subseteq Addr
    \* Facts of arithmetic: the provers know nothing of powers.
    /\ 2 ^ 1 = 2
    /\ \A k \in 0 .. W : 2 ^ k \in Nat \ {0}
    /\ \A j \in 0 .. W : \A k \in 0 .. W - j : 2 ^ (j + k) = 2 ^ j * 2 ^ k

VARIABLES
    pc,         \* load, sort, idle, search
    rcvNetList, \* the global array, from index 0
    nSubnet,
    sumIpCount, \* entries of ipTable
    imports,    \* files imported by this process
    whole,      \* the list is that of the configuration or of a whole file
    ip,         \* argument of getIPIdx
    leftPos, rightPos,
    ret,        \* what the last getIPIdx returned
    seen        \* an address that was found in this list, and its entry

vars == <<pc, rcvNetList, nSubnet, sumIpCount, imports, whole, ip, leftPos,
          rightPos, ret, seen>>

Array == [0 .. MaxSubnet - 1 -> Subnet]

TypeOK ==
    /\ pc \in {"load", "sort", "idle", "search"}
    /\ nSubnet \in 0 .. MaxSubnet
    /\ rcvNetList \in Array
    /\ sumIpCount \in Addr
    /\ imports \in 0 .. MaxImports /\ whole \in BOOLEAN
    /\ ip \in Addr
    /\ leftPos \in 0 .. MaxSubnet
    /\ rightPos \in -1 .. MaxSubnet - 1
    /\ ret \in Int
    /\ seen \in {<<>>} \cup (Addr \X Int)

\* Addresses in the first k subnets of a list.
Base(list, k) ==
    LET sum[j \in 0 .. k] == IF j = 0 THEN 0 ELSE sum[j - 1] + list[j - 1].ipCount
    IN  sum[k]

\* The first n subnets of the array are overwritten.
Over(list, n) ==
    [k \in 0 .. MaxSubnet - 1 |-> IF k < n THEN list[k] ELSE rcvNetList[k]]

-----------------------------------------------------------------------------
(* Start-up *)

\* ipCount is (mask ^ 0xffffffff) + 1.
Loaded(c) ==
    [k \in DOMAIN c |->
       LET len == MaskLen(c[k].prefix)
       IN  [net |-> c[k].net, len |-> len, maskBits |-> c[k].prefix,
            ipCount |-> (2 ^ (W - len)) % Space]]

\* LoadConfig keeps the entries that parse, in order, as they are written; the
\* sum of their addresses is a word.
LoadConfig ==
    /\ pc = "load"
    /\ \E c \in Configs : \E n \in 1 .. MaxSubnet :
         /\ c \in [0 .. n - 1 -> Network]
         /\ rcvNetList' = Over(Loaded(c), n)
         /\ nSubnet' = n
         /\ sumIpCount' = Base(Loaded(c), n) % Space
    /\ pc' = "sort"
    /\ UNCHANGED <<imports, whole, ip, leftPos, rightPos, ret, seen>>

\* (int) tmpA->net - tmpB->net: the unsigned difference as a signed int.
RcvNetListCmp(a, b) ==
    LET d == a.net - b.net
    IN  IF 2 * d >= Space THEN d - Space
        ELSE IF 2 * d < -Space THEN d + Space
        ELSE d

\* Mutant of QsortOf: the list is left as it was loaded.
QsortOf_None(list, n) == IF n \in Nat THEN {list} ELSE {}

\* What qsort may leave: a reordering in which no element is greater than the
\* next one by RcvNetListCmp.
QsortOf(list, n) ==
    LET idx == 0 .. n - 1
    IN  {[i \in idx |-> list[p[i]]] : p \in
            {q \in [idx -> idx] :
                /\ \A i, j \in idx : q[i] = q[j] => i = j
                /\ \A j \in idx : \E i \in idx : q[i] = j
                /\ \A i \in 0 .. n - 2 :
                     RcvNetListCmp(list[q[i]], list[q[i + 1]]) <= 0}}

Sort ==
    /\ pc = "sort"
    /\ \E list \in QsortOf(rcvNetList, nSubnet) : rcvNetList' = Over(list, nSubnet)
    /\ pc' = "idle"
    /\ UNCHANGED <<nSubnet, sumIpCount, imports, whole, ip, leftPos, rightPos, ret, seen>>

\* The lists of n networks that runs save: each under its own configuration.
Saved ==
    [n \in 1 .. MaxSubnet |->
       UNION {QsortOf(Loaded(c), n) : c \in {x \in Configs : DOMAIN x = 0 .. n - 1}}]

\* The table never shrinks.
Larger(v) == IF v > sumIpCount THEN v ELSE sumIpCount

ToImport ==
    /\ pc = "idle"
    /\ imports < MaxImports
    /\ imports' = imports + 1
    /\ seen' = <<>>

\* Mutant of Import: the size of the file's table is not looked at.
Import_NoGrow ==
    /\ ToImport
    /\ \E n \in 1 .. MaxSubnet : \E list \in Saved[n] :
         /\ nSubnet' = n
         /\ rcvNetList' = Over(list, n)
    /\ whole' = TRUE
    /\ UNCHANGED <<sumIpCount, pc, ip, leftPos, rightPos, ret>>

\* ImportRecord takes the number of subnets, the size of the table and the list
\* from a whole file.
Import ==
    /\ ToImport
    /\ \E n \in 1 .. MaxSubnet : \E list \in Saved[n] :
         /\ nSubnet' = n
         /\ sumIpCount' = Larger(Base(list, n) % Space)
         /\ rcvNetList' = Over(list, n)
    /\ whole' = TRUE
    /\ UNCHANGED <<pc, ip, leftPos, rightPos, ret>>

\* The file ends within its header, or is empty: what gzread does not bring of a
\* number is what tmpVal held before, at first whatever the stack held.
ImportCutHeader ==
    /\ ToImport
    /\ nSubnet' \in Garbage /\ nSubnet' <= MaxSubnet
    /\ \E v \in Garbage : sumIpCount' = Larger(v)
    /\ whole' = FALSE
    /\ UNCHANGED <<pc, rcvNetList, ip, leftPos, rightPos, ret>>

\* A subnet of which the first f fields were read.
Mixed(new, old, f) ==
    [net |-> IF f >= 1 THEN new.net ELSE old.net,
     len |-> IF f >= 2 THEN new.len ELSE old.len,
     maskBits |-> IF f >= 3 THEN new.maskBits ELSE old.maskBits,
     ipCount |-> old.ipCount]

\* It ends within its list: of the subnets from i on the array keeps the old
\* ones, zeroes behind those there ever were, and of the i-th a part.
ImportCutList ==
    /\ ToImport
    /\ \E n \in 1 .. MaxSubnet : \E list \in Saved[n] :
         /\ nSubnet' = n
         /\ sumIpCount' = Larger(Base(list, n) % Space)
         /\ \E i \in 0 .. n - 1, f \in 0 .. 3 :
              rcvNetList' = [Over(list, i) EXCEPT ![i] = Mixed(list[i], @, f)]
    /\ whole' = FALSE
    /\ UNCHANGED <<pc, ip, leftPos, rightPos, ret>>

Zeroes == [k \in 0 .. MaxSubnet - 1 |-> Zero]

\* The number of subnets in a cut header exceeds MAX_SUBNET: Diep.  The daemon
\* is started again.
ImportDiep ==
    /\ pc = "idle"
    /\ imports < MaxImports
    /\ \E v \in Garbage : v > MaxSubnet
    /\ pc' = "load"
    /\ rcvNetList' = Zeroes /\ nSubnet' = 0 /\ sumIpCount' = 0
    /\ imports' = 0 /\ whole' = TRUE
    /\ ret' = RET_NOT_IN_MYNET /\ seen' = <<>>
    /\ UNCHANGED <<ip, leftPos, rightPos>>

-----------------------------------------------------------------------------
(* getIPIdx *)

Lookup ==
    /\ pc = "idle"
    /\ ip' \in Lookups
    /\ leftPos' = 0
    /\ rightPos' = nSubnet - 1
    /\ pc' = "search"
    /\ ret' = RET_NOT_IN_MYNET
    /\ UNCHANGED <<rcvNetList, nSubnet, sumIpCount, imports, whole, seen>>

midPos == leftPos + (rightPos - leftPos) \div 2
ipAddrNet == Masked(ip, rcvNetList[midPos].len)
Searching == pc = "search" /\ leftPos <= rightPos

\* Mutant of GoRight: leftPos = midPos.
GoRight_Stuck ==
    /\ Searching
    /\ ipAddrNet > rcvNetList[midPos].net
    /\ leftPos' = midPos
    /\ UNCHANGED <<pc, rcvNetList, nSubnet, sumIpCount, imports, whole, ip, rightPos, ret, seen>>

GoRight ==
    /\ Searching
    /\ ipAddrNet > rcvNetList[midPos].net
    /\ leftPos' = midPos + 1
    /\ UNCHANGED <<pc, rcvNetList, nSubnet, sumIpCount, imports, whole, ip, rightPos, ret, seen>>

\* Mutant of GoLeft: rightPos = midPos - 2.
GoLeft_Far ==
    /\ Searching
    /\ ipAddrNet < rcvNetList[midPos].net
    /\ rightPos' = midPos - 2
    /\ UNCHANGED <<pc, rcvNetList, nSubnet, sumIpCount, imports, whole, ip, leftPos, ret, seen>>

GoLeft ==
    /\ Searching
    /\ ipAddrNet < rcvNetList[midPos].net
    /\ rightPos' = midPos - 1
    /\ UNCHANGED <<pc, rcvNetList, nSubnet, sumIpCount, imports, whole, ip, leftPos, ret, seen>>

\* Mutant of HostIndex: the mask for its complement.
HostIndex_Mask(a, s) == Shifted(Masked(a, s.len), s.maskBits)

\* (ip & ~mask) >> maskBits
HostIndex(a, s) == Shifted(a - Masked(a, s.len), s.maskBits)

\* A uint that is returned as an int.
AsInt(x) == IF 2 * x >= Space THEN x - Space ELSE x

Entry(list, k, a) == AsInt((Base(list, k) + HostIndex(a, list[k])) % Space)

\* The locals are gone.
Return(r) ==
    /\ ret' = r
    /\ pc' = "idle"
    /\ ip' = 0 /\ leftPos' = 0 /\ rightPos' = -1
    /\ UNCHANGED <<rcvNetList, nSubnet, sumIpCount, imports, whole>>

\* Found: InsertNfInfoToIpTable writes the address and its bytes to this entry.
Hit ==
    /\ Searching
    /\ ipAddrNet = rcvNetList[midPos].net
    /\ Return(Entry(rcvNetList, midPos, ip))
    /\ seen' \in IF whole THEN {seen, <<ip, ret'>>} ELSE {seen}

Miss ==
    /\ pc = "search"
    /\ leftPos > rightPos
    /\ Return(IF MyNet.net # 0 /\ MyNet.net = Masked(ip, MaskLen(MyNet.prefix))
              THEN RET_IN_MYNET ELSE RET_NOT_IN_MYNET)
    /\ UNCHANGED seen

Init ==
    /\ pc = "load"
    /\ rcvNetList = Zeroes /\ nSubnet = 0 /\ sumIpCount = 0
    /\ imports = 0 /\ whole = TRUE
    /\ ip = 0 /\ leftPos = 0 /\ rightPos = -1 /\ ret = RET_NOT_IN_MYNET
    /\ seen = <<>>

Search == GoRight \/ GoLeft \/ Hit \/ Miss

Next ==
    \/ LoadConfig \/ Sort
    \/ Import \/ ImportCutHeader \/ ImportCutList \/ ImportDiep
    \/ Lookup \/ GoRight \/ GoLeft \/ Hit \/ Miss

Spec == Init /\ [][Next]_vars

\* getIPIdx is a loop of the running process.
FairSpec == Spec /\ WF_vars(Search)

-----------------------------------------------------------------------------
(* Properties *)

Contains(s, a) == Masked(a, s.len) = s.net

\* GetByIP's own scan of the list.
isOurNet(a) == \E k \in 0 .. nSubnet - 1 : Contains(rcvNetList[k], a)

\* "Sort rcvNetList for binary search": when the search gives up, no subnet of
\* the list contains the address, if the list is that of the configuration or
\* of a file that was read whole; after a short read it need not be sorted.
\* GetByIP relies on it too: after its own scan it uses what getIPIdx returns
\* as an index without looking at it.
NoFalseMiss == whole /\ pc = "search" /\ leftPos > rightPos => ~isOurNet(ip)

\* A list that came whole, without a mask of zeroes (as of a prefix of 0 or above
\* 32 where shifts do not wrap), of so few addresses that idx fits an int.
Sound ==
    /\ whole
    /\ \A k \in 0 .. nSubnet - 1 : rcvNetList[k].len > 0
    /\ 2 * Base(rcvNetList, nSubnet) <= Space

\* With a sound list, the configuration's or that of a whole file, which the table
\* has grown for, every address that is found has an entry inside the table.  Not
\* so after a short read: the zero networks behind the list match every address,
\* with the address for index.
EntryInTable == [][Hit /\ Sound => ret' \in 0 .. sumIpCount - 1]_vars

\* README: "Calculate each IP's flow": with a sound list two addresses never
\* share an entry.
OneEntryPerAddress ==
    [][Hit /\ Sound /\ seen # <<>> /\ seen[1] # ip => ret' # seen[2]]_vars

\* Every lookup comes to an end, also in a list that a short read left unsorted
\* or without networks.
LookupEnds == pc = "search" ~> pc = "idle"

=============================================================================
