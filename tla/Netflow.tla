------------------------------- MODULE Netflow ------------------------------
(***************************************************************************)
(* From exporters to InsertNfInfoToIpTable: NetFlow datagrams cross UDP,   *)
(* which loses, duplicates and reorders them; AddFlowData hands each to    *)
(* the version 5 handler, or to the version 9 handler, which decodes data  *)
(* with the templates it has cached.                                       *)
(*                                                                         *)
(* A layout (what a version 9 template says) is the length of a record and *)
(* the fields that matter.  A decoded record is known by its datagram, its *)
(* position in it and the layout it was decoded with.                      *)
(*                                                                         *)
(* Data and template flowsets hold one template each: several templates in *)
(* one flowset are handled like as many flowsets.  The length field of a   *)
(* flowset is that of its bytes, or 0.                                     *)
(***************************************************************************)
EXTENDS Naturals, Sequences, FiniteSets

CONSTANTS
    Source,         \* exporters: address and source id
    SourceHash,     \* _HashingSourceInfo: [Source -> bucket]
    TemplateId,     \* template ids in use, at least 256
    TEMPLATES_PER_SOURCE,
    Layout,         \* record layouts in use
    Uses,           \* [Source \X TemplateId -> the layouts the exporter gives
                    \*   that template id, before and after it is reconfigured]
    None,           \* an empty slot of g_templateTable
    V5,             \* the fixed layout of version 5 records
    Zeroes,         \* the bytes of buf that no datagram has written
    MaxRecords,     \* bound: records per flowset
    MaxSent,        \* bound: datagrams sent
    Padding         \* padding bytes at the end of a flowset

Field == {"src", "dst", "bytes", "first"}
FLOWSET_HEADER == 4

ASSUME NetflowAssumption ==
    /\ \A t \in TemplateId : t \in Nat /\ t >= 256
    /\ TEMPLATES_PER_SOURCE \in Nat \ {0}
    /\ \A y \in Layout : y.length \in Nat /\ y.fields \subseteq Field
    /\ None \notin Layout /\ V5 \notin Layout /\ Zeroes # V5
    /\ Uses \in [Source \X TemplateId -> SUBSET Layout]
    /\ MaxRecords \in Nat /\ MaxSent \in Nat /\ Padding \subseteq 0 .. 3

Template == [kind : {"template"}, tid : TemplateId, layout : Layout]
Data == [kind : {"data"}, tid : TemplateId, layout : Layout,
         n : 1 .. MaxRecords, pad : Padding]
Options == [kind : {"options"}]
Unsized == [kind : {"unsized"}]     \* of any id, with a length field of 0
Flowset == Template \cup Data \cup Options \cup Unsized
FlowsetLists == [1 .. 1 -> Flowset] \cup [1 .. 2 -> Flowset]
Version9 == [version : {9}, src : Source, flowsets : FlowsetLists]
Version5 == [version : {5}, n : 1 .. MaxRecords, count : 1 .. MaxRecords]
Unknown == [version : {7}]
Datagram == Version9 \cup Version5 \cup Unknown

VARIABLES
    network,        \* datagrams sent; one that is never received is lost, one
                    \*   that is received again was duplicated
    packet,         \* the datagram AddFlowData is working on, or None
    filled,         \* buf: the places of version 5 records that are not zero
    rest,           \* its flowsets that are still to be handled
    templateTable,  \* g_templateTable: slot -> layout
    inserted        \* records the last step handed to InsertNfInfoToIpTable

vars == <<network, packet, filled, rest, templateTable, inserted>>

_HashingTemplateId(t) == (t - 256) % TEMPLATES_PER_SOURCE

\* Mutant of SlotOf: the source is left out.
SlotOf_NoSource(s, t) ==
    IF s \in Source THEN <<0, _HashingTemplateId(t)>> ELSE <<0, 0>>

SlotOf(s, t) == <<SourceHash[s], _HashingTemplateId(t)>>

Slot == {SlotOf(s, t) : s \in Source, t \in TemplateId}

Record == [rec : Nat, by : Layout \cup {V5, Zeroes}]

TypeOK ==
    /\ network \subseteq Datagram
    /\ packet \in Datagram \cup {None}
    /\ filled \in 0 .. MaxRecords + 1
    /\ rest \in {<<>>} \cup FlowsetLists
    /\ rest # <<>> => packet \in Version9
    /\ templateTable \in [Slot -> Layout \cup {None}]
    /\ inserted \subseteq Record

-----------------------------------------------------------------------------
(* Exporters and the network *)

Send(d) ==
    /\ Cardinality(network) < MaxSent
    /\ network' = network \cup {d}
    /\ UNCHANGED <<packet, filled, rest, templateTable, inserted>>

\* An exporter sends a template, data, or a template with data, or options, or
\* a flowset whose length field is 0, as zeroes behind the last flowset are.
Version9Flowsets(t, y, n, p) ==
    LET template == [kind |-> "template", tid |-> t, layout |-> y]
        data == [kind |-> "data", tid |-> t, layout |-> y, n |-> n, pad |-> p]
        options == [kind |-> "options"]
        unsized == [kind |-> "unsized"]
    IN  {<<template>>, <<data>>, <<template, data>>, <<options>>, <<unsized>>}

\* It sends no data with a template that has no bytes.
SendVersion9 ==
    \E s \in Source, t \in TemplateId, n \in 1 .. MaxRecords, p \in Padding :
      \E y \in Uses[<<s, t>>] : \E fs \in Version9Flowsets(t, y, n, p) :
        /\ y.length = 0 => \A i \in DOMAIN fs : fs[i].kind # "data"
        /\ Send([version |-> 9, src |-> s, flowsets |-> fs])

\* A datagram may lie about the number of its records.
SendVersion5 == \E d \in Version5 : Send(d)

SendUnknown == \E d \in Unknown : Send(d)

-----------------------------------------------------------------------------
(* AddFlowData *)

Idle == packet = None

\* The places of buf that a datagram fills: one of version 5 those of its
\* records, the others more than any of version 5.
Places(d) == IF d.version = 5 THEN d.n ELSE MaxRecords + 1

\* Mutant of Receive: buf is not zeroed before recvfrom.
Receive_Stale ==
    /\ Idle
    /\ \E d \in network :
         /\ packet' = d
         /\ filled' = IF Places(d) > filled THEN Places(d) ELSE filled
         /\ rest' = IF d.version = 9 THEN d.flowsets ELSE <<>>
    /\ inserted' = {}
    /\ UNCHANGED <<network, templateTable>>

\* main zeroes buf, then recvfrom.
Receive ==
    /\ Idle
    /\ \E d \in network :
         /\ packet' = d
         /\ filled' = Places(d)
         /\ rest' = IF d.version = 9 THEN d.flowsets ELSE <<>>
    /\ inserted' = {}
    /\ UNCHANGED <<network, templateTable>>

\* The record count of the header must be the one that the length gives.
IsValidPacket(d) == d.count = d.n

\* AddFlowData knows no other version; AddFlowDataV5Impl drops the invalid.
Drop ==
    /\ packet # None /\ packet.version # 9
    /\ packet.version = 5 => ~IsValidPacket(packet)
    /\ packet' = None
    /\ inserted' = {}
    /\ UNCHANGED <<network, filled, rest, templateTable>>

\* The version 5 handler steps over a record before it reads one: it hands over
\* the second to the last, and what buf holds behind the last.
InsertFlowEntryV5 ==
    /\ packet # None /\ packet.version = 5
    /\ IsValidPacket(packet)
    /\ inserted' = {[rec |-> k, by |-> IF k <= filled THEN V5 ELSE Zeroes] :
                      k \in 2 .. packet.n + 1}
    /\ packet' = None
    /\ UNCHANGED <<network, filled, rest, templateTable>>

AtFlowset(kind) ==
    /\ packet # None /\ packet.version = 9
    /\ rest # <<>>
    /\ Head(rest).kind = kind

\* flowSetPos moves on by the length field of the flowset.
InFlowset(kind) ==
    /\ AtFlowset(kind)
    /\ rest' = Tail(rest)
    /\ UNCHANGED <<network, packet, filled>>

\* With a length field of 0 it stays where it is: the lengths of the template
\* and of the data come out as -4 and 0, and the loop meets the flowset again.
StayAtUnsized ==
    /\ AtFlowset("unsized")
    /\ inserted' = {}
    /\ UNCHANGED <<network, packet, filled, rest, templateTable>>

\* A source collision is logged, and the template is stored all the same.
SaveTemplate ==
    /\ InFlowset("template")
    /\ templateTable' = [templateTable EXCEPT
         ![SlotOf(packet.src, Head(rest).tid)] = Head(rest).layout]
    /\ inserted' = {}

\* Mutant of Decoded: the flowset header is not counted in.
Decoded_NoHeader(d, y) ==
    {k \in 1 .. MaxRecords * 2 : k * y.length < d.n * d.layout.length + d.pad}

\* The records that the loop of _HandleData reads from flowset d with layout y:
\* dataLen is the flowset's length with its header, but reading starts behind it.
Decoded(d, y) ==
    LET dataLen == FLOWSET_HEADER + d.n * d.layout.length + d.pad
    IN  {k \in 1 .. dataLen : k * y.length < dataLen}

NoTemplate ==
    /\ InFlowset("data")
    /\ templateTable[SlotOf(packet.src, Head(rest).tid)] = None
    /\ inserted' = {}
    /\ UNCHANGED templateTable

\* Mutant of SkipOptions: flowSetPos moves on for templates and data only.
SkipOptions_Stays ==
    /\ AtFlowset("options")
    /\ inserted' = {}
    /\ UNCHANGED <<network, packet, filled, rest, templateTable>>

SkipOptions ==
    /\ InFlowset("options")
    /\ inserted' = {}
    /\ UNCHANGED templateTable

\* A record is inserted if addresses, bytes and start are not zero, as those of
\* a record are when it is read with its own layout.  A start that the layout
\* does not have is whatever the stack holds (nfTimeInfo is not initialized).
\* With records of length 0 the loop does not end, and this step never comes.
HandleData ==
    /\ InFlowset("data")
    /\ LET d == Head(rest)
           y == templateTable[SlotOf(packet.src, d.tid)]
           recs == [rec : Decoded(d, y), by : {y}]
       IN  /\ y # None /\ y.length > 0
           /\ inserted' \in IF ~({"src", "dst", "bytes"} \subseteq y.fields) THEN {{}}
                            ELSE IF y = d.layout /\ y.fields = Field THEN {recs}
                            ELSE SUBSET recs
    /\ UNCHANGED templateTable

\* Mutant of Done: the loop over the flowsets ends one early.
Done_Early ==
    /\ packet # None /\ packet.version = 9
    /\ Len(rest) <= 1
    /\ packet' = None
    /\ inserted' = {}
    /\ UNCHANGED <<network, filled, rest, templateTable>>

Done ==
    /\ packet # None /\ packet.version = 9
    /\ rest = <<>>
    /\ packet' = None
    /\ inserted' = {}
    /\ UNCHANGED <<network, filled, rest, templateTable>>

\* A new daemon starts with no template, and with buf as the stack has it.
Restart ==
    /\ packet' = None
    /\ filled' = MaxRecords + 1
    /\ rest' = <<>>
    /\ templateTable' = [x \in Slot |-> None]
    /\ inserted' = {}
    /\ UNCHANGED <<network>>

Init ==
    /\ network = {}
    /\ packet = None
    /\ filled = MaxRecords + 1
    /\ rest = <<>>
    /\ templateTable = [x \in Slot |-> None]
    /\ inserted = {}

AddFlowData ==
    Drop \/ InsertFlowEntryV5
    \/ SaveTemplate \/ SkipOptions \/ NoTemplate \/ HandleData
    \/ StayAtUnsized \/ Done

Next ==
    \/ SendVersion9 \/ SendVersion5 \/ SendUnknown
    \/ Receive \/ AddFlowData \/ Restart

Spec == Init /\ [][Next]_vars

\* The process runs; nothing in AddFlowData waits.
FairSpec == Spec /\ WF_vars(AddFlowData)

-----------------------------------------------------------------------------
(* Properties *)

\* The template ids that share a slot with template t of source s.
Colliding(s, t) ==
    {x \in Source \X TemplateId :
       /\ SourceHash[x[1]] = SourceHash[s]
       /\ x[2] % TEMPLATES_PER_SOURCE = t % TEMPLATES_PER_SOURCE}

\* Whatever the network does, data is decoded with a layout that the exporter
\* itself uses for that template, or one that collides with it in the table:
\* if nothing collides and nothing is redefined, nothing is misread.
MisreadHasCause ==
    [][\A s \in Source, t \in TemplateId :
         HandleData /\ packet.src = s /\ Head(rest).tid = t =>
           \A r \in inserted' :
             \E x \in Colliding(s, t) : r.by \in Uses[x]]_vars

\* No record is made up of bytes that are not the datagram's: with the layout
\* that was used to write the data, the loop ends at its last record, however
\* the flowset is padded; and what the version 5 handler hands over from behind
\* the last record is zero, whatever came before it in buf: addresses 0.0.0.0,
\* which InsertNfInfoToIpTable counts for nobody unless a network contains them.
NoPhantomRecord ==
    [][/\ InsertFlowEntryV5 => \A r \in inserted' :
            r.by = V5 <=> r.rec <= packet.n
       /\ HandleData => \A r \in inserted' :
            r.by = Head(rest).layout => r.rec <= Head(rest).n]_vars

\* Data that meets its own, complete template is counted to the last record.
DataCounted ==
    [][HandleData =>
         LET d == Head(rest)
         IN  templateTable[SlotOf(packet.src, d.tid)] = d.layout /\ d.layout.fields = Field =>
               [rec : 1 .. d.n, by : {d.layout}] \subseteq inserted']_vars

\* The next flowset has a length field of 0, or the slot it is decoded with
\* holds a template without any bytes: the cases in which the loop over the
\* flowsets, or the one over the records, stands still.
Stuck ==
    \/ AtFlowset("unsized")
    \/ /\ AtFlowset("data")
       /\ LET y == templateTable[SlotOf(packet.src, Head(rest).tid)]
          IN  y # None /\ y.length = 0

\* AddFlowData comes to the end of every datagram and the daemon to the next:
\* of those whose lengths agree only a template that has no bytes holds it up,
\* the exporter's own or one that collides with it; a length of 0 does, too.
HandlerReturns == packet # None ~> packet = None \/ Stuck

\* README: "Calculate each IP's flow".  Every record of a version 5 datagram
\* is handed to InsertNfInfoToIpTable.
Version5Counted ==
    [][InsertFlowEntryV5 =>
         [rec : 1 .. packet.n, by : {V5}] \subseteq inserted']_vars

=============================================================================
