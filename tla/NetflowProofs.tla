---------------------------- MODULE NetflowProofs ---------------------------
(***************************************************************************)
(* Proofs about Netflow, for any exporters, hashes, templates and any      *)
(* network: what the template cache may hold, and that the record loop of  *)
(* _HandleData ends neither early nor late.                                *)
(***************************************************************************)
EXTENDS Netflow, TLAPS, SequenceTheorems

-----------------------------------------------------------------------------
(* Slots *)

\* Quotient and remainder of an integer, as the provers need them.
LEMMA DivMod ==
    ASSUME NEW a \in Int, NEW m \in Nat \ {0}
    PROVE  /\ a \div m \in Int
           /\ a % m \in 0 .. m - 1
           /\ a = m * (a \div m) + (a % m)
  OBVIOUS

\* The remainder is determined by its defining equation.
LEMMA ModUnique ==
    ASSUME NEW m \in Nat \ {0}, NEW q \in Int, NEW r \in 0 .. m - 1,
           NEW a \in Int, a = m * q + r
    PROVE  a % m = r
  BY DivMod

\* Numbers that have the same remainder when both are less by k have the same.
LEMMA SameMod ==
    ASSUME NEW m \in Nat \ {0}, NEW x \in Int, NEW y \in Int, NEW k \in Int,
           (x - k) % m = (y - k) % m
    PROVE  x % m = y % m
<1> DEFINE p == (x - k) \div m
           q == (y - k) \div m
           r == (x - k) % m
           a == x \div m
           v == x % m
           P == m * p
           Q == m * q
           A == m * a
           w == a + (q - p)
<1>1. x - k \in Int /\ y - k \in Int
  OBVIOUS
<1>2. p \in Int /\ r \in 0 .. m - 1 /\ x - k = P + r
  BY <1>1, DivMod
<1>3. q \in Int /\ y - k = Q + r
  BY <1>1, DivMod
<1>4. a \in Int /\ v \in 0 .. m - 1 /\ x = A + v
  BY DivMod
<1> HIDE DEF p, q, r, a, v
<1>5. P \in Int /\ Q \in Int /\ A \in Int
  BY <1>2, <1>3, <1>4
<1>6. w \in Int /\ m * w = A + (Q - P)
  BY <1>2, <1>3, <1>4
<1> HIDE DEF P, Q, A, w
<1>7. y = A + (Q - P) + v
  BY <1>2, <1>3, <1>4, <1>5
<1>8. y = m * w + v
  BY <1>6, <1>7
<1>9. y % m = v
  BY <1>4, <1>6, <1>8, ModUnique
<1> QED
  BY <1>9 DEF v

\* Who stores a template in the slot of s and t collides with them.
LEMMA SlotShared ==
    ASSUME NEW s \in Source, NEW t \in TemplateId,
           NEW u \in Source, NEW v \in TemplateId, SlotOf(s, t) = SlotOf(u, v)
    PROVE  <<u, v>> \in Colliding(s, t)
<1>1. t \in Int /\ v \in Int /\ TEMPLATES_PER_SOURCE \in Nat \ {0}
  BY NetflowAssumption
<1>2. /\ SourceHash[u] = SourceHash[s]
      /\ (v - 256) % TEMPLATES_PER_SOURCE = (t - 256) % TEMPLATES_PER_SOURCE
  BY DEF SlotOf, _HashingTemplateId
<1>3. v % TEMPLATES_PER_SOURCE = t % TEMPLATES_PER_SOURCE
  <2> DEFINE first == 256
  <2>1. /\ first \in Int
        /\ (v - first) % TEMPLATES_PER_SOURCE = (t - first) % TEMPLATES_PER_SOURCE
    BY <1>2
  <2> HIDE DEF first
  <2> QED
    BY <1>1, <2>1, SameMod
<1> QED
  BY <1>2, <1>3 DEF Colliding

-----------------------------------------------------------------------------
(* The cache *)

\* Templates in a sequence of flowsets are those of source s.
Own(s, fs) ==
    \A i \in DOMAIN fs : fs[i].kind = "template" =>
        fs[i].tid \in TemplateId /\ fs[i].layout \in Uses[<<s, fs[i].tid>>]

\* Every datagram comes from its exporter, behind the records of one of version 5
\* buf is zero, and every slot of the cache holds a
\* layout that one of the exporters that share the slot uses.
CacheInv ==
    /\ TypeOK
    /\ \A d \in network : d.version = 9 => Own(d.src, d.flowsets)
    /\ packet # None /\ packet.version = 9 => Own(packet.src, rest)
    /\ packet # None /\ packet.version = 5 => filled = packet.n
    /\ \A s \in Source, t \in TemplateId :
         templateTable[SlotOf(s, t)] # None =>
           \E x \in Colliding(s, t) : templateTable[SlotOf(s, t)] \in Uses[x]

\* Taking the first of a datagram's flowsets leaves flowsets of that datagram.
LEMMA TakeFirst ==
    ASSUME NEW fs \in {<<>>} \cup FlowsetLists, fs # <<>>, NEW s
    PROVE  /\ Head(fs) \in Flowset
           /\ Tail(fs) \in {<<>>} \cup FlowsetLists
           /\ Own(s, fs) => Own(s, Tail(fs))
           /\ Own(s, fs) /\ Head(fs).kind = "template" =>
                Head(fs).tid \in TemplateId /\ Head(fs).layout \in Uses[<<s, Head(fs).tid>>]
<1>1. PICK k \in 1 .. 2 : fs \in [1 .. k -> Flowset]
  BY DEF FlowsetLists
<1>2. fs \in Seq(Flowset) /\ Len(fs) = k /\ DOMAIN fs = 1 .. k
  BY <1>1
<1>3. /\ Head(fs) = fs[1] /\ 1 \in DOMAIN fs /\ Head(fs) \in Flowset
      /\ Tail(fs) \in Seq(Flowset) /\ Len(Tail(fs)) = k - 1
      /\ \A i \in 1 .. Len(Tail(fs)) : Tail(fs)[i] = fs[i + 1]
  BY <1>1, <1>2, HeadTailProperties
<1>4. DOMAIN Tail(fs) = 1 .. k - 1 /\ Tail(fs) \in [1 .. k - 1 -> Flowset]
  BY <1>3, LenProperties
<1>5. Tail(fs) \in {<<>>} \cup FlowsetLists
  <2>1. CASE k = 1
    <3>1. Len(Tail(fs)) = 0
      BY <1>3, <2>1
    <3> QED
      BY <1>3, <3>1, EmptySeq
  <2>2. CASE k = 2
    BY <1>4, <2>2 DEF FlowsetLists
  <2> QED
    BY <2>1, <2>2
<1>6. \A i \in DOMAIN Tail(fs) : i + 1 \in DOMAIN fs /\ Tail(fs)[i] = fs[i + 1]
  BY <1>2, <1>3, <1>4
<1> QED
  BY <1>3, <1>5, <1>6 DEF Own

\* At first nothing was sent and the cache is empty.
LEMMA CacheInit == Init => CacheInv
<1>1. MaxRecords \in Nat
  BY NetflowAssumption
<1> QED
  BY <1>1 DEF Init, CacheInv, TypeOK, Slot, Own

\* What exporters send is typed, and has their own templates in it.
LEMMA SentOwn ==
    ASSUME NEW s \in Source, NEW t \in TemplateId, NEW n \in 1 .. MaxRecords,
           NEW p \in Padding, NEW y \in Uses[<<s, t>>],
           NEW fs \in Version9Flowsets(t, y, n, p)
    PROVE  /\ [version |-> 9, src |-> s, flowsets |-> fs] \in Version9
           /\ Own(s, fs)
<1> DEFINE template == [kind |-> "template", tid |-> t, layout |-> y]
           data == [kind |-> "data", tid |-> t, layout |-> y, n |-> n, pad |-> p]
           options == [kind |-> "options"]
           unsized == [kind |-> "unsized"]
<1>1. y \in Layout
  BY NetflowAssumption
<1>2. template \in Flowset /\ data \in Flowset /\ options \in Flowset
      /\ unsized \in Flowset
  BY <1>1 DEF Flowset, Template, Data, Options, Unsized
<1>3. /\ template.kind = "template" /\ template.tid = t /\ template.layout = y
      /\ data.kind = "data" /\ options.kind = "options"
      /\ unsized.kind = "unsized"
  OBVIOUS
<1> HIDE DEF template, data, options, unsized
<1>4. fs \in {<<template>>, <<data>>, <<template, data>>, <<options>>, <<unsized>>}
  BY DEF template, data, options, unsized, Version9Flowsets
<1>5. CASE fs \in {<<template>>, <<data>>, <<options>>, <<unsized>>}
  <2>1. fs \in [1 .. 1 -> Flowset] /\ fs[1] \in {template, data, options, unsized}
        /\ DOMAIN fs = {1}
    BY <1>2, <1>5
  <2> QED
    BY <1>3, <2>1 DEF Version9, FlowsetLists, Own
<1>6. CASE fs = <<template, data>>
  <2>1. fs \in [1 .. 2 -> Flowset] /\ fs[1] = template /\ fs[2] = data
        /\ DOMAIN fs = {1, 2}
    BY <1>2, <1>6
  <2> QED
    BY <1>3, <2>1 DEF Version9, FlowsetLists, Own
<1> QED
  BY <1>4, <1>5, <1>6

\* Exporters keep the invariant.
LEMMA SendCache ==
    ASSUME CacheInv, SendVersion9 \/ SendVersion5 \/ SendUnknown
    PROVE  CacheInv'
<1>1. PICK d \in Datagram :
        Send(d) /\ (d.version = 9 => Own(d.src, d.flowsets))
  <2>1. CASE SendVersion9
    <3>1. PICK s \in Source, t \in TemplateId, n \in 1 .. MaxRecords, p \in Padding :
            \E y \in Uses[<<s, t>>] : \E fs \in Version9Flowsets(t, y, n, p) :
              Send([version |-> 9, src |-> s, flowsets |-> fs])
      BY <2>1 DEF SendVersion9
    <3>2. PICK y \in Uses[<<s, t>>] : \E fs \in Version9Flowsets(t, y, n, p) :
            Send([version |-> 9, src |-> s, flowsets |-> fs])
      BY <3>1
    <3>3. PICK fs \in Version9Flowsets(t, y, n, p) :
            Send([version |-> 9, src |-> s, flowsets |-> fs])
      BY <3>2
    <3>4. /\ [version |-> 9, src |-> s, flowsets |-> fs] \in Version9
          /\ Own(s, fs)
      BY <3>3, SentOwn
    <3> QED
      BY <3>3, <3>4 DEF Datagram
  <2>2. CASE SendVersion5
    BY <2>2 DEF SendVersion5, Version5, Datagram
  <2>3. CASE SendUnknown
    BY <2>3 DEF SendUnknown, Unknown, Datagram
  <2> QED
    BY <2>1, <2>2, <2>3
<1>2. network' = network \cup {d}
      /\ UNCHANGED <<packet, filled, rest, templateTable, inserted>>
  BY <1>1 DEF Send
<1>3. TypeOK'
  BY <1>2 DEF CacheInv, TypeOK
<1> QED
  BY <1>1, <1>2, <1>3 DEF CacheInv

\* recvfrom takes a datagram as it was sent.
LEMMA ReceiveCache ==
    ASSUME CacheInv, Receive
    PROVE  CacheInv'
<1>1. PICK d \in network :
        packet' = d /\ rest' = IF d.version = 9 THEN d.flowsets ELSE <<>>
  BY DEF Receive
<1>2. d \in Datagram /\ (d.version = 9 => Own(d.src, d.flowsets))
  BY DEF CacheInv, TypeOK
<1>3. d.version = 9 => d \in Version9
  BY <1>2 DEF Datagram, Version5, Unknown
<1>4. d.version = 9 => d.flowsets \in FlowsetLists
  BY <1>3 DEF Version9
<1>6. Places(d) \in 0 .. MaxRecords + 1
  <2>1. MaxRecords \in Nat
    BY NetflowAssumption
  <2>2. d.version = 5 => d.n \in 1 .. MaxRecords
    BY <1>2 DEF Datagram, Version9, Version5, Unknown
  <2> QED
    BY <2>1, <2>2 DEF Places
<1>5. TypeOK'
  BY <1>1, <1>2, <1>3, <1>4, <1>6 DEF CacheInv, TypeOK, Receive
<1> QED
  BY <1>1, <1>2, <1>5 DEF CacheInv, Receive, Places

\* What a step that takes a flowset finds.
LEMMA TakesFlowset ==
    ASSUME CacheInv, NEW kind, InFlowset(kind)
    PROVE  /\ packet \in Version9 /\ packet.src \in Source
           /\ Head(rest) \in Flowset
           /\ rest' \in {<<>>} \cup FlowsetLists
           /\ packet' = packet /\ network' = network /\ filled' = filled
           /\ Own(packet.src, rest')
           /\ Head(rest).kind = "template" =>
                /\ Head(rest).tid \in TemplateId
                /\ Head(rest).layout \in Uses[<<packet.src, Head(rest).tid>>]
<1>1. rest # <<>> /\ rest' = Tail(rest) /\ packet \in Version9
      /\ rest \in {<<>>} \cup FlowsetLists /\ Own(packet.src, rest)
  BY DEF InFlowset, AtFlowset, CacheInv, TypeOK
<1>2. packet.src \in Source
  BY <1>1 DEF Version9
<1> QED
  BY <1>1, <1>2, TakeFirst DEF InFlowset

\* _SaveTemplate stores the exporter's own layout.
LEMMA SaveCache ==
    ASSUME CacheInv, SaveTemplate
    PROVE  CacheInv'
<1> DEFINE h == Head(rest)
           u == packet.src
<1>1. /\ packet \in Version9 /\ u \in Source /\ rest' \in {<<>>} \cup FlowsetLists
      /\ packet' = packet /\ network' = network /\ filled' = filled
      /\ Own(u, rest')
      /\ h.tid \in TemplateId /\ h.layout \in Uses[<<u, h.tid>>]
  BY TakesFlowset DEF SaveTemplate, InFlowset, AtFlowset
<1>2. /\ templateTable' = [templateTable EXCEPT ![SlotOf(u, h.tid)] = h.layout]
      /\ inserted' = {}
  BY DEF SaveTemplate
<1>3. h.layout \in Layout /\ SlotOf(u, h.tid) \in Slot
  BY <1>1, NetflowAssumption DEF Slot
<1> HIDE DEF h, u
<1>4. TypeOK'
  BY <1>1, <1>2, <1>3 DEF CacheInv, TypeOK
<1>5. ASSUME NEW s \in Source, NEW t \in TemplateId,
             templateTable'[SlotOf(s, t)] # None
      PROVE  \E x \in Colliding(s, t) : templateTable'[SlotOf(s, t)] \in Uses[x]
  <2>1. SlotOf(s, t) \in Slot /\ templateTable \in [Slot -> Layout \cup {None}]
    BY DEF Slot, CacheInv, TypeOK
  <2>2. CASE SlotOf(s, t) = SlotOf(u, h.tid)
    <3>1. <<u, h.tid>> \in Colliding(s, t)
      BY <1>1, <2>2, SlotShared
    <3>2. templateTable'[SlotOf(s, t)] = h.layout
      BY <1>2, <2>1, <2>2
    <3> QED
      BY <1>1, <3>1, <3>2
  <2>3. CASE SlotOf(s, t) # SlotOf(u, h.tid)
    <3>1. templateTable'[SlotOf(s, t)] = templateTable[SlotOf(s, t)]
      BY <1>2, <2>1, <2>3
    <3> QED
      BY <1>5, <3>1 DEF CacheInv
  <2> QED
    BY <2>2, <2>3
<1>6. packet' # None /\ packet'.version = 9 => Own(packet'.src, rest')
  BY <1>1 DEF u
<1> QED
  BY <1>1, <1>4, <1>5, <1>6 DEF CacheInv

\* What _HandleData may insert, and from which template.
LEMMA HandleFacts ==
    ASSUME CacheInv, HandleData
    PROVE  /\ packet.src \in Source /\ Head(rest) \in Data
           /\ LET d == Head(rest)
                  y == templateTable[SlotOf(packet.src, d.tid)]
              IN  /\ y \in Layout /\ y # None /\ y.length > 0
                  /\ inserted' \subseteq [rec : Decoded(d, y), by : {y}]
                  /\ inserted' # {} => {"src", "dst", "bytes"} \subseteq y.fields
                  /\ y = d.layout /\ y.fields = Field =>
                       inserted' = [rec : Decoded(d, y), by : {y}]
<1>1. InFlowset("data") /\ Head(rest).kind = "data"
  BY DEF HandleData, InFlowset, AtFlowset
<1>2. packet.src \in Source /\ Head(rest) \in Flowset
  BY <1>1, TakesFlowset
<1>3. Head(rest) \in Data
  BY <1>1, <1>2 DEF Flowset, Template, Data, Options, Unsized
<1> DEFINE d == Head(rest)
           y == templateTable[SlotOf(packet.src, d.tid)]
           recs == [rec : Decoded(d, y), by : {y}]
<1>4. d.tid \in TemplateId
  BY <1>3 DEF Data
<1>5. y \in Layout \cup {None}
  BY <1>2, <1>4 DEF CacheInv, TypeOK, Slot
<1>6. /\ y # None /\ y.length > 0
      /\ inserted' \in IF ~({"src", "dst", "bytes"} \subseteq y.fields) THEN {{}}
                       ELSE IF y = d.layout /\ y.fields = Field THEN {recs}
                       ELSE SUBSET recs
  BY DEF HandleData
<1>7. Field = {"src", "dst", "bytes", "first"}
  BY DEF Field
<1> HIDE DEF d, y, recs
<1>8. /\ inserted' \subseteq recs
      /\ inserted' # {} => {"src", "dst", "bytes"} \subseteq y.fields
      /\ y = d.layout /\ y.fields = Field => inserted' = recs
  BY <1>6, <1>7
<1> QED
  BY <1>2, <1>3, <1>5, <1>6, <1>8 DEF d, y, recs

\* The numbers in a data flowset.
LEMMA DataNumbers ==
    ASSUME NEW d \in Data
    PROVE  /\ d.n \in Nat /\ d.pad \in 0 .. 3
           /\ d.layout \in Layout /\ d.layout.length \in Nat
<1>1. d.n \in 1 .. MaxRecords /\ d.pad \in Padding /\ d.layout \in Layout
  BY DEF Data
<1>2. MaxRecords \in Nat /\ Padding \subseteq 0 .. 3
      /\ \A y \in Layout : y.length \in Nat
  BY NetflowAssumption
<1>3. d.n \in Nat
  BY <1>1, <1>2
<1>4. d.layout.length \in Nat /\ d.pad \in 0 .. 3
  BY <1>1, <1>2
<1> QED
  BY <1>1, <1>3, <1>4

\* The positions of decoded records are numbers.
LEMMA DecodedType ==
    ASSUME NEW d \in Data, NEW y \in Layout
    PROVE  Decoded(d, y) \subseteq Nat
<1>1. d.n \in Nat /\ d.layout.length \in Nat /\ d.pad \in Nat
  BY DataNumbers
<1>2. d.n * d.layout.length \in Nat
  BY <1>1
<1>3. FLOWSET_HEADER + d.n * d.layout.length + d.pad \in Nat
  BY <1>1, <1>2 DEF FLOWSET_HEADER
<1> QED
  BY <1>3 DEF Decoded

\* Decoding leaves the cache alone.
LEMMA HandleCache ==
    ASSUME CacheInv, HandleData
    PROVE  CacheInv'
<1> DEFINE d == Head(rest)
           y == templateTable[SlotOf(packet.src, d.tid)]
<1>1. InFlowset("data") /\ UNCHANGED templateTable
  BY DEF HandleData
<1>2. /\ packet \in Version9 /\ rest' \in {<<>>} \cup FlowsetLists
      /\ packet' = packet /\ network' = network /\ filled' = filled
      /\ Own(packet.src, rest')
  BY <1>1, TakesFlowset
<1>3. /\ d \in Data /\ y \in Layout
      /\ inserted' \subseteq [rec : Decoded(d, y), by : {y}]
  BY HandleFacts
<1> HIDE DEF d, y
<1>4. inserted' \subseteq Record
  BY <1>3, DecodedType DEF Record
<1>5. TypeOK'
  BY <1>1, <1>2, <1>4 DEF CacheInv, TypeOK
<1> QED
  BY <1>1, <1>2, <1>5 DEF CacheInv

\* Flowsets that are passed over leave the cache alone.
LEMMA PassCache ==
    ASSUME CacheInv, NoTemplate \/ SkipOptions
    PROVE  CacheInv'
<1>1. PICK kind \in {"data", "options"} : InFlowset(kind)
  BY DEF NoTemplate, SkipOptions
<1>2. /\ packet \in Version9 /\ rest' \in {<<>>} \cup FlowsetLists
      /\ packet' = packet /\ network' = network /\ filled' = filled
      /\ Own(packet.src, rest')
  BY <1>1, TakesFlowset
<1>3. templateTable' = templateTable /\ inserted' = {}
  BY DEF NoTemplate, SkipOptions
<1>4. TypeOK'
  BY <1>2, <1>3 DEF CacheInv, TypeOK
<1> QED
  BY <1>2, <1>3, <1>4 DEF CacheInv

\* Every step of exporters and handlers keeps the cache in order.
LEMMA CacheNext == CacheInv /\ [Next]_vars => CacheInv'
<1> SUFFICES ASSUME CacheInv, [Next]_vars PROVE CacheInv'
  OBVIOUS
<1>1. CASE SendVersion9 \/ SendVersion5 \/ SendUnknown
  BY <1>1, SendCache
<1>2. CASE Receive
  BY <1>2, ReceiveCache
<1>3. CASE Drop \/ Done
  <2>1. /\ packet' = None /\ inserted' = {} /\ UNCHANGED <<network, filled, templateTable>>
        /\ rest' = rest
    BY <1>3 DEF Drop, Done
  <2>2. rest = <<>>
    <3>1. CASE Done
      BY <3>1 DEF Done
    <3>2. CASE Drop
      <4>1. packet.version # 9 /\ (rest # <<>> => packet \in Version9)
        BY <3>2 DEF Drop, CacheInv, TypeOK
      <4> QED
        BY <4>1 DEF Version9
    <3> QED
      BY <1>3, <3>1, <3>2
  <2>3. TypeOK'
    BY <2>1, <2>2 DEF CacheInv, TypeOK
  <2> QED
    BY <2>1, <2>3 DEF CacheInv
<1>4. CASE InsertFlowEntryV5
  <2>1. packet \in Version5
    BY <1>4 DEF InsertFlowEntryV5, CacheInv, TypeOK, Datagram, Version9, Unknown
  <2>2. packet.n \in Int
    BY <2>1 DEF Version5
  <2>3. inserted' \subseteq Record
    <3>1. 2 .. packet.n + 1 \subseteq Nat
      BY <2>2
    <3> QED
      BY <1>4, <3>1 DEF InsertFlowEntryV5, Record
  <2>4. packet' = None /\ UNCHANGED <<network, filled, rest, templateTable>>
    BY <1>4 DEF InsertFlowEntryV5
  <2>5. rest = <<>>
    BY <2>1 DEF CacheInv, TypeOK, Version5, Version9
  <2>6. TypeOK'
    BY <2>3, <2>4, <2>5 DEF CacheInv, TypeOK
  <2> QED
    BY <2>4, <2>6 DEF CacheInv
<1>5. CASE SaveTemplate
  BY <1>5, SaveCache
<1>6. CASE SkipOptions \/ NoTemplate
  BY <1>6, PassCache
<1>7. CASE HandleData
  BY <1>7, HandleCache
<1>10. CASE StayAtUnsized
  BY <1>10 DEF StayAtUnsized, CacheInv, TypeOK
<1>8. CASE Restart
  <2>1. MaxRecords \in Nat
    BY NetflowAssumption
  <2> QED
    BY <1>8, <2>1 DEF Restart, CacheInv, TypeOK, Slot
<1>9. CASE UNCHANGED vars
  BY <1>9 DEF vars, CacheInv, TypeOK
<1> QED
  BY <1>1, <1>2, <1>3, <1>4, <1>5, <1>6, <1>7, <1>8, <1>9, <1>10 DEF Next, AddFlowData

\* Every datagram is its exporter's, and every cached layout is that of an
\* exporter and a template that share the slot.
LEMMA CacheInvariant == Spec => []CacheInv
  BY CacheInit, CacheNext, PTL DEF Spec

\* Datagrams, the rest of the one at work, the cache and what is inserted stay
\* in their types, for any network.
THEOREM TypeCorrect == Spec => []TypeOK
<1>1. CacheInv => TypeOK
  BY DEF CacheInv
<1> QED
  BY <1>1, CacheInvariant, PTL

\* For any number of exporters and templates, any hash and any loss, repetition
\* and order: a record is decoded with a layout of the exporter's template, or
\* of one that collides with it.
THEOREM MisreadsAreCollisions == Spec => MisreadHasCause
<1>1. ASSUME CacheInv, NEW s \in Source, NEW t \in TemplateId, HandleData,
             packet.src = s, Head(rest).tid = t, NEW r \in inserted'
      PROVE  \E x \in Colliding(s, t) : r.by \in Uses[x]
  <2> DEFINE y == templateTable[SlotOf(s, t)]
  <2>1. y # None /\ inserted' \subseteq [rec : Decoded(Head(rest), y), by : {y}]
    BY <1>1, HandleFacts
  <2>2. r.by = y
    BY <1>1, <2>1
  <2>3. PICK x \in Colliding(s, t) : y \in Uses[x]
    BY <1>1, <2>1 DEF CacheInv
  <2> QED
    BY <2>2, <2>3
<1>2. CacheInv /\ [Next]_vars =>
        [\A s \in Source, t \in TemplateId :
           HandleData /\ packet.src = s /\ Head(rest).tid = t =>
             \A r \in inserted' :
               \E x \in Colliding(s, t) : r.by \in Uses[x]]_vars
  BY <1>1
<1> QED
  BY <1>2, CacheInvariant, PTL DEF Spec, MisreadHasCause

-----------------------------------------------------------------------------
(* The record loop *)

\* A number over n is over it by a whole record.
LEMMA NextRecord ==
    ASSUME NEW k \in Nat, NEW n \in Nat, NEW l \in Nat, k > n
    PROVE  k * l >= n * l + l
<1> DEFINE e == k - (n + 1)
<1>1. e \in Nat /\ k = e + (n + 1)
  OBVIOUS
<1> HIDE DEF e
<1>2. (e + (n + 1)) * l = e * l + n * l + l /\ e * l \in Nat /\ n * l \in Nat
  BY <1>1
<1> QED
  BY <1>1, <1>2

\* The first records lie within those that follow.
LEMMA FirstRecords ==
    ASSUME NEW k \in Nat, NEW n \in Nat, NEW l \in Nat, k <= n
    PROVE  k * l <= n * l
<1> DEFINE e == n - k
<1>1. e \in Nat /\ n = e + k
  OBVIOUS
<1> HIDE DEF e
<1>2. (e + k) * l = e * l + k * l /\ e * l \in Nat /\ k * l \in Nat
  BY <1>1
<1> QED
  BY <1>1, <1>2

\* If every layout with addresses and bytes is longer than a flowset's header
\* and the most padding (as those fields alone are), then no record is decoded
\* behind the last one of a flowset.  What version 5 hands over behind the last
\* record is zero, for any order of datagrams and however long the last was:
\* main zeroes buf, so that no record of an earlier datagram is counted again.
THEOREM NoRecordMadeUp ==
    ASSUME \A y \in Layout : {"src", "dst", "bytes"} \subseteq y.fields =>
              y.length > FLOWSET_HEADER + 3
    PROVE  Spec => NoPhantomRecord
<1>1. ASSUME CacheInv, InsertFlowEntryV5, NEW r \in inserted'
      PROVE  r.by = V5 <=> r.rec <= packet.n
  <2>1. filled = packet.n
    BY <1>1 DEF InsertFlowEntryV5, CacheInv
  <2>2. PICK k \in 2 .. packet.n + 1 :
          r = [rec |-> k, by |-> IF k <= packet.n THEN V5 ELSE Zeroes]
    BY <1>1, <2>1 DEF InsertFlowEntryV5
  <2> QED
    BY <2>2, NetflowAssumption
<1>2. ASSUME CacheInv, HandleData, NEW r \in inserted', r.by = Head(rest).layout
      PROVE  r.rec <= Head(rest).n
  <2> DEFINE d == Head(rest)
             y == templateTable[SlotOf(packet.src, d.tid)]
             l == y.length
             k == r.rec
             n == d.n
  <2>1. /\ d \in Data /\ y \in Layout
        /\ inserted' \subseteq [rec : Decoded(d, y), by : {y}]
        /\ inserted' # {} => {"src", "dst", "bytes"} \subseteq y.fields
    BY <1>2, HandleFacts
  <2>2. k \in Decoded(d, y) /\ y = d.layout /\ l > FLOWSET_HEADER + 3
    BY <1>2, <2>1
  <2>3. d.pad \in 0 .. 3 /\ n \in Nat /\ l \in Nat /\ k \in Nat
    <3>1. d.pad \in 0 .. 3 /\ n \in Nat
      BY <2>1, DataNumbers
    <3>2. l \in Nat
      BY <2>1, NetflowAssumption
    <3>3. k \in Nat
      BY <2>1, <2>2, DecodedType
    <3> QED
      BY <3>1, <3>2, <3>3
  <2>4. k * l < FLOWSET_HEADER + n * l + d.pad
    BY <2>2 DEF Decoded
  <2>5. n * l \in Nat /\ k * l \in Nat
    BY <2>3
  <2> HIDE DEF d, y, l, k, n
  <2>6. k > n => k * l >= n * l + l
    BY <2>3, NextRecord
  <2>7. ~(k > n)
    BY <2>2, <2>3, <2>4, <2>5, <2>6 DEF FLOWSET_HEADER
  <2>8. k <= n
    BY <2>3, <2>7
  <2> QED
    BY <2>8 DEF d, k, n
<1>3. CacheInv /\ [Next]_vars =>
        [/\ InsertFlowEntryV5 => \A r \in inserted' :
              r.by = V5 <=> r.rec <= packet.n
         /\ HandleData => \A r \in inserted' :
              r.by = Head(rest).layout => r.rec <= Head(rest).n]_vars
  BY <1>1, <1>2
<1> QED
  BY <1>3, CacheInvariant, PTL DEF Spec, NoPhantomRecord

\* Data that meets its own, complete template is read to the last record,
\* whatever the length of a record and the padding.
THEOREM AllRecordsCounted == Spec => DataCounted
<1>1. ASSUME CacheInv, HandleData,
             templateTable[SlotOf(packet.src, Head(rest).tid)] = Head(rest).layout,
             Head(rest).layout.fields = Field
      PROVE  [rec : 1 .. Head(rest).n, by : {Head(rest).layout}] \subseteq inserted'
  <2> DEFINE d == Head(rest)
             y == d.layout
             l == y.length
             n == d.n
             len == FLOWSET_HEADER + n * l + d.pad
  <2>1. d \in Data /\ y \in Layout /\ l > 0 /\ inserted' = [rec : Decoded(d, y), by : {y}]
    BY <1>1, HandleFacts
  <2>2. d.pad \in 0 .. 3 /\ n \in Nat /\ l \in Nat
    BY <2>1, DataNumbers
  <2>3. Decoded(d, y) = {k \in 1 .. len : k * l < len}
    BY DEF Decoded
  <2>4. n * l \in Nat /\ 1 <= l
    BY <2>1, <2>2
  <2>5. len = 4 + n * l + d.pad
    BY DEF FLOWSET_HEADER
  <2> HIDE DEF d, y, l, n, len
  <2>6. ASSUME NEW k \in 1 .. n
        PROVE  k \in 1 .. len /\ k * l < len
    <3>1. k \in Nat /\ k >= 1 /\ k <= n
      BY <2>2
    <3>2. k * l <= n * l /\ k * l \in Nat
      BY <2>2, <3>1, FirstRecords
    <3>3. k <= k * l
      <4>1. k * 1 <= k * l
        BY <2>2, <2>4, <3>1, FirstRecords
      <4> QED
        BY <3>1, <4>1
    <3> QED
      BY <2>2, <2>4, <2>5, <3>1, <3>2, <3>3
  <2>7. 1 .. n \subseteq Decoded(d, y)
    BY <2>3, <2>6
  <2>8. [rec : 1 .. n, by : {y}] \subseteq inserted'
    BY <2>1, <2>7
  <2> QED
    BY <2>8 DEF d, y, n
<1>2. CacheInv /\ [Next]_vars =>
        [HandleData =>
          LET d == Head(rest)
          IN  templateTable[SlotOf(packet.src, d.tid)] = d.layout /\ d.layout.fields = Field =>
               [rec : 1 .. d.n, by : {d.layout}] \subseteq inserted']_vars
  BY <1>1
<1> QED
  BY <1>2, CacheInvariant, PTL DEF Spec, DataCounted

=============================================================================
