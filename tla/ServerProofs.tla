---------------------------- MODULE ServerProofs ----------------------------
(***************************************************************************)
(* Proof, for any clients, queries, traffic and buffer sizes, that answers *)
(* cover what had arrived when the client connected.                       *)
(***************************************************************************)
EXTENDS Server, TLAPS, FiniteSetTheorems, SequenceTheorems

\* Nothing is between the socket and the table.
Counted == pc # "down" => ipTable.covers + udp = arrived

\* A round in which the daemon will accept() began with an empty netflow
\* socket, when its first client had connected already.
Rounds ==
    pc = "event" =>
      /\ left \in 1 .. 2
      /\ "netflow" \notin chlist =>
           /\ left = 1
           /\ backlog # <<>>
           /\ since[Head(backlog)] <= ipTable.covers

\* Who waits or is served has connected before, and connects no more.
Connected ==
    /\ \A c \in Client : since[c] <= arrived
    /\ \A i \in 1 .. Len(backlog) : client[backlog[i]] # "idle"
    /\ \A c \in Client : Alive(c) => client[c] # "idle"

\* A child starts out with a table of today.
StartsToday ==
    /\ ipTable.today
    /\ \A c \in Client : Alive(c) /\ child[c].pc = "recv" => child[c].tab.today

LatestInv ==
    TypeOK /\ Counted /\ Rounds /\ Connected /\ StartsToday /\ AnswersAreLatest

\* What EXCEPT changes in a function.
LEMMA ExceptOne ==
    ASSUME NEW S, NEW T, NEW f \in [S -> T], NEW a \in S, NEW v \in T,
           NEW g, g = [f EXCEPT ![a] = v]
    PROVE  /\ g \in [S -> T]
           /\ \A x \in S : g[x] = f[x] \/ (x = a /\ g[x] = v)
  OBVIOUS

\* The invariant holds when main() enters its loop.
LEMMA LatestInit == Init => LatestInv
<1> SUFFICES ASSUME Init PROVE LatestInv
  OBVIOUS
<1>1. TypeOK
  BY ServerAssumption DEF Init, TypeOK, Table
<1> QED
  BY <1>1 DEF Init, LatestInv, Counted, Rounds, Connected, StartsToday,
              AnswersAreLatest, Alive

-----------------------------------------------------------------------------
(* The network *)

\* A datagram that arrives leaves what children must cover as it was.
LEMMA ArriveLatest == LatestInv /\ Arrive => LatestInv'
<1> SUFFICES ASSUME LatestInv, Arrive PROVE LatestInv'
  OBVIOUS
<1>0. arrived \in 0 .. MaxDatagrams /\ udp \in 0 .. SocketBuffer
      /\ MaxDatagrams \in Nat /\ SocketBuffer \in Nat
      /\ ipTable.covers \in Nat /\ since \in [Client -> 0 .. MaxDatagrams]
  BY ServerAssumption DEF LatestInv, TypeOK, Table
<1>1. TypeOK'
  BY <1>0 DEF LatestInv, TypeOK, Arrive
<1>2. Counted' /\ Connected'
  BY <1>0 DEF LatestInv, Counted, Connected, Arrive, Alive
<1>3. Rounds' /\ StartsToday' /\ AnswersAreLatest'
  BY DEF LatestInv, Rounds, StartsToday, AnswersAreLatest, Arrive, Alive
<1> QED
  BY <1>1, <1>2, <1>3 DEF LatestInv

\* A client that connects is new: no child serves it, and it waits last.
LEMMA ConnectLatest ==
    ASSUME NEW c \in Client, LatestInv, Connect(c)
    PROVE  LatestInv'
<1>0. /\ backlog \in Seq(Client) /\ Len(backlog) < Backlog /\ Backlog \in Nat
      /\ backlog' = Append(backlog, c)
      /\ client \in [Client -> {"idle", "silent", "sent", "reading", "gone"}]
      /\ since \in [Client -> 0 .. MaxDatagrams]
      /\ arrived \in 0 .. MaxDatagrams /\ MaxDatagrams \in Nat
  BY ServerAssumption DEF LatestInv, TypeOK, Connect
<1>1. /\ backlog' \in Seq(Client) /\ backlog' # <<>>
      /\ Len(backlog') = Len(backlog) + 1
      /\ \A i \in 1 .. Len(backlog) : backlog'[i] = backlog[i]
      /\ backlog'[Len(backlog) + 1] = c
  BY <1>0, AppendProperties
<1>2. backlog # <<>> => Head(backlog') = Head(backlog)
  BY <1>0, HeadTailAppend
<1>3. TypeOK'
  BY <1>0, <1>1 DEF LatestInv, TypeOK, Connect
<1>4. Counted' /\ StartsToday'
  BY DEF LatestInv, Counted, StartsToday, Connect, Alive
<1>5. Connected'
  <2>1. \A d \in Client : since'[d] <= arrived'
    BY <1>0 DEF LatestInv, Connected, Connect
  <2>2. ASSUME NEW i \in 1 .. Len(backlog') PROVE client'[backlog'[i]] # "idle"
    <3>1. CASE i = Len(backlog) + 1
      BY <1>0, <1>1, <3>1 DEF Connect
    <3>2. CASE i \in 1 .. Len(backlog)
      BY <1>0, <1>1, <3>2 DEF LatestInv, Connected, Connect
    <3> QED
      BY <1>0, <1>1, <2>2, <3>1, <3>2
  <2>3. \A d \in Client : Alive(d)' => client'[d] # "idle"
    BY <1>0 DEF LatestInv, Connected, Connect, Alive
  <2> QED
    BY <2>1, <2>2, <2>3 DEF Connected
<1>6. Rounds'
  <2> SUFFICES ASSUME pc = "event", "netflow" \notin chlist
               PROVE  since'[Head(backlog')] <= ipTable.covers
    BY <1>1 DEF LatestInv, Rounds, Connect
  <2>1. backlog # <<>> /\ since[Head(backlog)] <= ipTable.covers
    BY DEF LatestInv, Rounds
  <2>2. Head(backlog) = backlog[1] /\ 1 \in 1 .. Len(backlog) /\ Head(backlog) \in Client
    BY <1>0, <2>1, EmptySeq, HeadTailProperties
  <2>3. Head(backlog) # c
    BY <2>2 DEF LatestInv, Connected, Connect
  <2> QED
    BY <1>0, <1>2, <2>1, <2>2, <2>3 DEF Connect
<1>7. AnswersAreLatest'
  BY <1>0 DEF LatestInv, Connected, AnswersAreLatest, Connect, Alive
<1> QED
  BY <1>3, <1>4, <1>5, <1>6, <1>7 DEF LatestInv

\* What clients send, read or close does not touch the tables.
LEMMA ClientStepLatest ==
    ASSUME NEW c \in Client, LatestInv, ClientStep(c)
    PROVE  LatestInv'
<1>1. client' \in [Client -> {"idle", "silent", "sent", "reading", "gone"}]
      /\ \A d \in Client : client[d] # "idle" => client'[d] # "idle"
  BY DEF LatestInv, TypeOK, ClientStep
<1>2. TypeOK'
  BY <1>1 DEF LatestInv, TypeOK, ClientStep
<1>3. \A i \in 1 .. Len(backlog) : backlog[i] \in Client
  BY DEF LatestInv, TypeOK
<1>4. Connected'
  BY <1>1, <1>3 DEF LatestInv, Connected, ClientStep, Alive
<1>5. Counted' /\ Rounds' /\ StartsToday' /\ AnswersAreLatest'
  BY DEF LatestInv, Counted, Rounds, StartsToday, AnswersAreLatest, ClientStep, Alive
<1> QED
  BY <1>2, <1>4, <1>5 DEF LatestInv

-----------------------------------------------------------------------------
(* main() *)

\* What select() may find.
LEMMA ReadyCount ==
    /\ Ready \subseteq {"netflow", "command"}
    /\ Ready # {} => Cardinality(Ready) \in 1 .. 2
    /\ Ready # {} /\ "netflow" \notin Ready =>
         Cardinality(Ready) = 1 /\ backlog # <<>> /\ ~(udp > 0)
<1>1. Ready \subseteq {"netflow", "command"}
  BY DEF Ready
<1>2. Cardinality({"netflow"}) = 1 /\ Cardinality({"command"}) = 1
      /\ IsFiniteSet({"netflow"})
  BY FS_Singleton
<1>3. Cardinality({"netflow"} \cup {"command"}) = 2
  BY <1>2, FS_AddElement
<1>4. Ready # {} => \/ Ready = {"netflow"}
                    \/ Ready = {"command"}
                    \/ Ready = {"netflow"} \cup {"command"}
  BY <1>1
<1>5. "netflow" \notin Ready => ~(udp > 0)
  BY DEF Ready
<1>6. "command" \in Ready => backlog # <<>>
  BY DEF Ready
<1>7. Ready # {} => Cardinality(Ready) \in 1 .. 2
  BY <1>2, <1>3, <1>4
<1>8. Ready # {} /\ "netflow" \notin Ready => Ready = {"command"}
  BY <1>1
<1> QED
  BY <1>1, <1>2, <1>5, <1>6, <1>7, <1>8

\* A select() that finds no datagram finds all that arrived in ipTable.
LEMMA SelectLatest == LatestInv /\ Select => LatestInv'
<1> SUFFICES ASSUME LatestInv, Select PROVE LatestInv'
  OBVIOUS
<1>1. /\ chlist' \subseteq {"netflow", "command"} /\ left' \in 1 .. 2
      /\ "netflow" \notin chlist' => left' = 1 /\ backlog # <<>> /\ ~(udp > 0)
  BY ReadyCount DEF Select
<1>2. TypeOK'
  BY <1>1 DEF LatestInv, TypeOK, Select, env
<1>3. Counted' /\ Connected' /\ StartsToday' /\ AnswersAreLatest'
  BY DEF LatestInv, Counted, Connected, StartsToday, AnswersAreLatest, Select, env, Alive
<1>4. Rounds'
  <2> SUFFICES ASSUME "netflow" \notin chlist'
               PROVE  since[Head(backlog)] <= ipTable.covers
    BY <1>1 DEF Rounds, Select, env
  <2>1. Head(backlog) \in Client
    BY <1>1, HeadTailProperties DEF LatestInv, TypeOK
  <2>2. ipTable.covers = arrived
    BY <1>1, ServerAssumption DEF LatestInv, Counted, TypeOK, Table, Select
  <2> QED
    BY <2>1, <2>2 DEF LatestInv, Connected
<1> QED
  BY <1>2, <1>3, <1>4 DEF LatestInv

\* A datagram moves from the socket to ipTable.
LEMMA RecvLatest == LatestInv /\ Recv => LatestInv'
<1> SUFFICES ASSUME LatestInv, Recv PROVE LatestInv'
  OBVIOUS
<1>0. /\ udp \in 0 .. SocketBuffer /\ udp > 0 /\ SocketBuffer \in Nat
      /\ arrived \in 0 .. MaxDatagrams /\ MaxDatagrams \in Nat
      /\ ipTable \in Table /\ ipTable.covers \in Nat
      /\ ipTable.covers + udp = arrived
      /\ left \in 1 .. 2
  BY ServerAssumption DEF LatestInv, TypeOK, Table, Counted, Rounds, Recv
<1>1. /\ udp' = udp - 1 /\ left' = left - 1
      /\ ipTable' = [ipTable EXCEPT !.covers = ipTable.covers + 1]
  BY DEF Recv, NextEvent
<1>2. ipTable' \in Table /\ ipTable'.covers = ipTable.covers + 1
      /\ ipTable'.today = ipTable.today
  BY <1>0, <1>1 DEF Table
<1>3. TypeOK'
  BY <1>0, <1>1, <1>2 DEF LatestInv, TypeOK, Recv, NextEvent
<1>4. Counted'
  BY <1>0, <1>1, <1>2 DEF Counted, Recv
<1>5. Rounds'
  BY <1>0, <1>1 DEF LatestInv, Rounds, Recv, NextEvent
<1>6. Connected' /\ StartsToday' /\ AnswersAreLatest'
  BY <1>2 DEF LatestInv, Connected, StartsToday, AnswersAreLatest, Recv, Alive
<1> QED
  BY <1>3, <1>4, <1>5, <1>6 DEF LatestInv

\* The copy of ipTable that fork() makes covers what its client may expect.
LEMMA AcceptLatest == LatestInv /\ Accept => LatestInv'
<1> SUFFICES ASSUME LatestInv, Accept PROVE LatestInv'
  OBVIOUS
<1> DEFINE h == Head(backlog)
           born == [pc |-> "recv", full |-> FALSE, armed |-> TRUE, tab |-> ipTable]
<1>0. /\ backlog \in Seq(Client) /\ backlog # <<>> /\ left = 1
      /\ Len(backlog) <= Backlog /\ Backlog \in Nat
      /\ since[h] <= ipTable.covers
  BY ServerAssumption DEF LatestInv, TypeOK, Rounds, Accept
<1>1. /\ h \in Client /\ h = backlog[1] /\ 1 \in 1 .. Len(backlog)
      /\ Tail(backlog) \in Seq(Client) /\ Len(Tail(backlog)) = Len(backlog) - 1
      /\ \A i \in 1 .. Len(Tail(backlog)) : Tail(backlog)[i] = backlog[i + 1]
  BY <1>0, HeadTailProperties, EmptySeq
<1>2. client[h] # "idle"
  BY <1>1 DEF LatestInv, Connected
<1>3. /\ backlog' = Tail(backlog) /\ pc' = "select" /\ left' = 0 /\ chlist' = {}
      /\ UNCHANGED <<udp, arrived, since, ipTable, file>>
  BY <1>0 DEF Accept, NextEvent
<1>4. born \in Child
  BY DEF LatestInv, TypeOK, Child
<1>a. \/ child' = [child EXCEPT ![h] = born] /\ client' = client
      \/ child' = child /\ client' = [client EXCEPT ![h] = "gone"]
  BY DEF Accept
<1> HIDE DEF born
<1>5. /\ child' \in [Client -> Child \cup {None}]
      /\ client' \in [Client -> {"idle", "silent", "sent", "reading", "gone"}]
      /\ \A d \in Client : client'[d] \in {client[d], "gone"}
      /\ \A d \in Client : child'[d] = child[d] \/ (d = h /\ child'[d] = born)
  <2>1. /\ child \in [Client -> Child \cup {None}]
        /\ client \in [Client -> {"idle", "silent", "sent", "reading", "gone"}]
    BY DEF LatestInv, TypeOK
  <2>2. CASE child' = [child EXCEPT ![h] = born] /\ client' = client
    BY <1>1, <1>4, <2>1, <2>2, ExceptOne
  <2>3. CASE child' = child /\ client' = [client EXCEPT ![h] = "gone"]
    <3>1. /\ client' \in [Client -> {"idle", "silent", "sent", "reading", "gone"}]
          /\ \A d \in Client : client'[d] = client[d] \/ client'[d] = "gone"
      BY <1>1, <2>1, <2>3
    <3> QED
      BY <2>1, <2>3, <3>1
  <2> QED
    BY <1>a, <2>2, <2>3
<1>6. TypeOK'
  BY <1>0, <1>1, <1>3, <1>5 DEF LatestInv, TypeOK
<1>7. Counted' /\ Rounds'
  BY <1>3 DEF LatestInv, Counted, Rounds, Accept
<1>8. Connected'
  <2>1. ASSUME NEW i \in 1 .. Len(backlog') PROVE client'[backlog'[i]] # "idle"
    <3>1. i + 1 \in 1 .. Len(backlog) /\ backlog'[i] = backlog[i + 1]
      BY <1>0, <1>1, <1>3
    <3>2. backlog[i + 1] \in Client /\ client[backlog[i + 1]] # "idle"
      BY <1>0, <3>1 DEF LatestInv, Connected
    <3> QED
      BY <1>5, <3>1, <3>2
  <2>2. \A d \in Client : Alive(d)' => client'[d] # "idle"
    BY <1>2, <1>5 DEF LatestInv, Connected, Alive
  <2> QED
    BY <1>3, <2>1, <2>2 DEF LatestInv, Connected
<1>9. StartsToday' /\ AnswersAreLatest'
  <2>1. born.tab = ipTable
    BY DEF born
  <2> QED
    BY <1>0, <1>1, <1>3, <1>5, <2>1 DEF LatestInv, StartsToday, AnswersAreLatest, Alive
<1> QED
  BY <1>6, <1>7, <1>8, <1>9 DEF LatestInv

-----------------------------------------------------------------------------
(* Children and signals *)

\* A child that goes on keeps its client, and its table unless it answers.
LEMMA ChildGoesLatest ==
    ASSUME NEW c \in Client, NEW from, NEW to \in Child,
           LatestInv, ChildGoes(c, from, to),
           to.pc # "recv",
           to.tab.today => to.tab.covers >= since[c]
    PROVE  LatestInv'
<1>1. /\ child' = [child EXCEPT ![c] = to] /\ Alive(c)
      /\ UNCHANGED <<pc, chlist, left, udp, arrived, backlog, client, since,
                     ipTable, file>>
  BY DEF ChildGoes, env
<1>2. /\ child' \in [Client -> Child \cup {None}]
      /\ \A d \in Client : child'[d] = child[d] \/ (d = c /\ child'[d] = to)
  <2>1. child \in [Client -> Child \cup {None}]
    BY DEF LatestInv, TypeOK
  <2> QED
    BY <1>1, <2>1, ExceptOne
<1>3. TypeOK'
  BY <1>1, <1>2 DEF LatestInv, TypeOK
<1>4. Counted' /\ Rounds'
  BY <1>1 DEF LatestInv, Counted, Rounds
<1>5. Connected' /\ StartsToday' /\ AnswersAreLatest'
  BY <1>1, <1>2 DEF LatestInv, Connected, StartsToday, AnswersAreLatest, Alive
<1> QED
  BY <1>3, <1>4, <1>5 DEF LatestInv

\* parseCmd keeps the table of today, or leaves it for another day's.
LEMMA ChildAnswerLatest ==
    ASSUME NEW c \in Client, LatestInv, ChildAnswer(c)
    PROVE  LatestInv'
<1>1. PICK t \in Answered(child[c].tab, Asks[c]) :
        ChildGoes(c, "recv", [child[c] EXCEPT !.pc = "send", !.tab = t,
                                              !.full = client[c] = "sent"])
  BY DEF ChildAnswer
<1>2. child[c] \in Child /\ child[c].pc = "recv" /\ child[c].tab \in Table
  BY <1>1 DEF LatestInv, TypeOK, ChildGoes, Alive, Child
<1>3. child[c].tab.today /\ child[c].tab.covers >= since[c]
  BY <1>1, <1>2 DEF LatestInv, StartsToday, AnswersAreLatest, ChildGoes
<1>4. Asks[c] \in Query /\ MaxDatagrams \in Nat
  BY ServerAssumption
<1>5. t \in Table /\ (t.today => t.covers >= since[c])
  <2> DEFINE tab == child[c].tab
             q == Asks[c]
             n == IF q.today THEN tab.covers ELSE 0
  <2>1. /\ tab.today \in BOOLEAN /\ tab.covers \in 0 .. MaxDatagrams
        /\ q.today \in BOOLEAN /\ (~q.list) \in BOOLEAN
        /\ 0 \in 0 .. MaxDatagrams
    <3>1. MaxDatagrams \in Nat => 0 \in 0 .. MaxDatagrams
      OBVIOUS
    <3> HIDE DEF q
    <3>2. q \in Query
      BY <1>4 DEF q
    <3>3. q.today \in BOOLEAN /\ (~q.list) \in BOOLEAN
      BY <3>2 DEF Query
    <3> HIDE DEF tab
    <3>4. tab \in Table
      BY <1>2 DEF tab
    <3>5. tab.today \in BOOLEAN /\ tab.covers \in 0 .. MaxDatagrams
      BY <3>4 DEF Table
    <3> QED
      BY <1>4, <3>1, <3>3, <3>5
  <2>2. CASE t = tab
    BY <1>2, <1>3, <2>2
  <2>3. CASE t # tab
    <3>1. t = [tab EXCEPT !.today = q.today, !.covers = n, !.byIP = ~q.list]
      BY <1>1, <2>3 DEF Answered
    <3>2. tab = [today |-> tab.today, covers |-> tab.covers, byIP |-> tab.byIP]
      BY <1>2 DEF Table
    <3>3. n \in 0 .. MaxDatagrams /\ (q.today => n = tab.covers)
      BY <2>1
    <3> HIDE DEF n, q, tab
    <3>4. t = [today |-> q.today, covers |-> n, byIP |-> ~q.list]
      BY <3>1, <3>2
    <3>5. t \in Table /\ t.today = q.today /\ t.covers = n
      BY <2>1, <3>3, <3>4 DEF Table
    <3> QED
      BY <1>3, <3>3, <3>5 DEF tab
  <2> QED
    BY <2>2, <2>3
<1> DEFINE to == [child[c] EXCEPT !.pc = "send", !.tab = t,
                                  !.full = client[c] = "sent"]
<1>6. to \in Child /\ to.pc # "recv" /\ to.tab = t
  BY <1>2, <1>5 DEF Child
<1> HIDE DEF to
<1>7. ChildGoes(c, "recv", to)
  BY <1>1 DEF to
<1> QED
  BY <1>5, <1>6, <1>7, ChildGoesLatest

\* SIGALRM leaves the child's table alone.
LEMMA AlarmLatest ==
    ASSUME NEW c \in Client, LatestInv, Alarm(c)
    PROVE  LatestInv'
<1> DEFINE to == [child[c] EXCEPT !.pc = "alarm", !.armed = FALSE]
<1>1. child[c] \in Child /\ Alive(c)
  BY DEF LatestInv, TypeOK, Alarm, Alive
<1>2. to \in Child /\ to.pc # "recv" /\ to.tab = child[c].tab
  BY <1>1 DEF Child
<1>3. to.tab.today => to.tab.covers >= since[c]
  BY <1>1, <1>2 DEF LatestInv, AnswersAreLatest
<1>4. ChildGoes(c, child[c].pc, to)
  BY DEF Alarm
<1> HIDE DEF to
<1> QED
  BY <1>2, <1>3, <1>4, ChildGoesLatest

\* ExportRecord writes the kind of table the file may hold.
LEMMA SavedType ==
    ASSUME NEW t \in Table
    PROVE  Saved(t) \in [today : BOOLEAN, byIP : BOOLEAN]
  BY DEF Saved, Table

\* A child that ends leaves nothing to cover.
LEMMA ChildEndsLatest ==
    ASSUME NEW c \in Client, LatestInv, ChildEnds(c), Alive(c),
           file' \in {file, Saved(child[c].tab)}
    PROVE  LatestInv'
<1>0. child[c].tab \in Table
  BY DEF LatestInv, TypeOK, Alive, Child
<1>1. /\ \A d \in Client : child'[d] = child[d] \/ child'[d] = None
      /\ \A d \in Client : client'[d] \in {client[d], "gone"}
      /\ \A d \in Client : since'[d] \in {since[d], 0}
      /\ \A d \in Client : since'[d] <= since[d] /\ since'[d] \in Nat
      /\ \A d \in Client : since[d] \in Nat
      /\ UNCHANGED <<pc, chlist, left, udp, arrived, backlog, ipTable>>
  BY ServerAssumption DEF LatestInv, TypeOK, ChildEnds
<1>2. TypeOK'
  BY <1>0, SavedType, ServerAssumption DEF LatestInv, TypeOK, ChildEnds
<1>3. Counted' /\ StartsToday'
  BY <1>1 DEF LatestInv, Counted, StartsToday, Alive
<1>4. \A i \in 1 .. Len(backlog) : backlog[i] \in Client
  BY DEF LatestInv, TypeOK
<1>n. arrived \in Nat /\ ipTable.covers \in Nat
      /\ \A d \in Client : Alive(d) => child[d].tab.covers \in Nat
  BY ServerAssumption DEF LatestInv, TypeOK, Table, Child, Alive
<1>5. Connected'
  <2>1. \A d \in Client : since'[d] <= arrived'
    BY <1>1, <1>n DEF LatestInv, Connected
  <2> QED
    BY <1>1, <1>4, <2>1 DEF LatestInv, Connected, Alive
<1>6. Rounds'
  <2>1. backlog # <<>> => Head(backlog) \in Client
    BY HeadTailProperties DEF LatestInv, TypeOK
  <2> QED
    BY <1>1, <1>n, <2>1 DEF LatestInv, Rounds
<1>7. AnswersAreLatest'
  BY <1>1, <1>n DEF LatestInv, AnswersAreLatest, Alive
<1> QED
  BY <1>2, <1>3, <1>5, <1>6, <1>7 DEF LatestInv

\* The daemon's end leaves its children and their tables behind.
LEMMA DownLatest ==
    ASSUME LatestInv, Down, file' \in {file, Saved(ipTable)}
    PROVE  LatestInv'
<1>1. \A d \in Client : client'[d] \in {client[d], "gone"}
  BY DEF Down
<1>2. TypeOK'
  BY SavedType, ServerAssumption DEF LatestInv, TypeOK, Down
<1>3. Counted' /\ Rounds' /\ StartsToday' /\ AnswersAreLatest'
  BY DEF LatestInv, Counted, Rounds, StartsToday, AnswersAreLatest, Down, Alive
<1>4. Connected'
  BY <1>1 DEF LatestInv, Connected, Down, Alive
<1> QED
  BY <1>2, <1>3, <1>4 DEF LatestInv

\* Whoever saves a table changes nothing but the file.
LEMMA SaveLatest ==
    ASSUME LatestInv, file' \in [today : BOOLEAN, byIP : BOOLEAN] \cup {None},
           UNCHANGED <<pc, chlist, left, env, ipTable, child>>
    PROVE  LatestInv'
  BY DEF LatestInv, TypeOK, Counted, Rounds, Connected, StartsToday,
         AnswersAreLatest, Alive, env

-----------------------------------------------------------------------------

\* Every step of daemon, children, clients and exporters keeps the invariant.
LEMMA LatestNext == LatestInv /\ [Next]_vars => LatestInv'
<1> SUFFICES ASSUME LatestInv, [Next]_vars PROVE LatestInv'
  OBVIOUS
<1>1. CASE Arrive
  BY <1>1, ArriveLatest
<1>2. CASE Main
  BY <1>2, SelectLatest, RecvLatest, AcceptLatest DEF Main
<1>3. CASE Exits \/ Die
  BY <1>3, DownLatest DEF Exits, Die
<1>4. CASE Update
  BY <1>4, SaveLatest, SavedType DEF Update, LatestInv, TypeOK
<1>5. ASSUME NEW c \in Client,
             Connect(c) \/ ClientStep(c) \/ ChildStep(c) \/ Alarm(c)
             \/ ChildExits(c) \/ ChildUpdate(c)
      PROVE  LatestInv'
  <2>1. CASE Connect(c)
    BY <2>1, ConnectLatest
  <2>2. CASE ClientStep(c)
    BY <2>2, ClientStepLatest
  <2>3. CASE ChildAnswer(c)
    BY <2>3, ChildAnswerLatest
  <2>4. CASE ChildFinish(c) \/ SockExit(c)
    BY <2>4, ChildEndsLatest DEF ChildFinish, SockExit
  <2>5. CASE Alarm(c)
    BY <2>5, AlarmLatest
  <2>6. CASE ChildExits(c)
    BY <2>6, ChildEndsLatest DEF ChildExits
  <2>7. CASE ChildUpdate(c)
    <3>1. child[c].tab \in Table
      BY <2>7 DEF ChildUpdate, LatestInv, TypeOK, Alive, Child
    <3> QED
      BY <2>7, <3>1, SaveLatest, SavedType DEF ChildUpdate
  <2> QED
    BY <1>5, <2>1, <2>2, <2>3, <2>4, <2>5, <2>6, <2>7 DEF ChildStep
<1>6. CASE UNCHANGED vars
  BY <1>6, SaveLatest DEF vars, env, LatestInv, TypeOK
<1> QED
  BY <1>1, <1>2, <1>3, <1>4, <1>5, <1>6 DEF Next

\* What the daemon answers about today covers every datagram that had arrived
\* when the client connected, for any number of clients and any traffic.
THEOREM AnswersCoverArrivals == Spec => []AnswersAreLatest
<1>1. LatestInv => AnswersAreLatest
  BY DEF LatestInv
<1> QED
  BY <1>1, LatestInit, LatestNext, PTL DEF Spec

\* Any number of clients, queries and signals leaves every variable in its type:
\* no descriptor stays in the list of a round, no socket or backlog overflows.
THEOREM TypeCorrect == Spec => []TypeOK
<1>1. LatestInv => TypeOK
  BY DEF LatestInv
<1> QED
  BY <1>1, LatestInit, LatestNext, PTL DEF Spec
=============================================================================
