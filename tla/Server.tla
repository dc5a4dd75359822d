------------------------------- MODULE Server -------------------------------
(***************************************************************************)
(* One run of the daemon as a server: select() over the NetFlow socket and *)
(* the command socket, a child per query with a copy of ipTable, the alarm *)
(* that ends a child, and the signals that save a process's table.         *)
(*                                                                         *)
(* A table is the day it is about, how many of the datagrams it covers and *)
(* whether its entries still are where getIPIdx looks for them.  What is   *)
(* in it, and the rollover, are the subject of DayStore.                   *)
(***************************************************************************)
EXTENDS Naturals, Sequences, FiniteSets

CONSTANTS
    Client,         \* each connects at most once
    Asks,           \* [Client -> Query]
    None,           \* no child, or no file
    MaxDatagrams,   \* bound: datagrams that arrive
    SocketBuffer,   \* how many of them the socket can hold
    Backlog         \* connections that wait for accept(): listen(sockfd, 2)

Query == [today : BOOLEAN, list : BOOLEAN]

ASSUME ServerAssumption ==
    /\ Asks \in [Client -> Query]
    /\ {MaxDatagrams, SocketBuffer, Backlog} \subseteq Nat \ {0}

Table == [today : BOOLEAN, covers : 0 .. MaxDatagrams, byIP : BOOLEAN]
Child == [pc : {"recv", "send", "alarm"}, full : BOOLEAN, armed : BOOLEAN,
          tab : Table]

VARIABLES
    pc,         \* main(): select, event, down
    chlist,     \* the descriptors the last select() found ready
    left,       \* nev - i: iterations of the inner loop that are left
    udp,        \* datagrams in the socket buffer
    arrived,    \* datagrams that reached it so far
    backlog,    \* clients that wait for accept()
    client,     \* idle, silent, sent (command and end of file), reading, gone
    since,      \* history: the value of arrived when the client connected
                \*   (0 when it is served)
    ipTable,    \* the daemon's table
    child,      \* the process that serves each client; full: its socket
                \*   buffer is, until the client reads
    file        \* what the table in today's file is about, and its order

env == <<udp, arrived, backlog, client, since>>
vars == <<pc, chlist, left, udp, arrived, backlog, client, since, ipTable,
          child, file>>

TypeOK ==
    /\ pc \in {"select", "event", "down"}
    /\ chlist \subseteq {"netflow", "command"}
    /\ left \in 0 .. 2
    /\ udp \in 0 .. SocketBuffer
    /\ arrived \in 0 .. MaxDatagrams
    /\ backlog \in Seq(Client) /\ Len(backlog) <= Backlog
    /\ client \in [Client -> {"idle", "silent", "sent", "reading", "gone"}]
    /\ since \in [Client -> 0 .. MaxDatagrams]
    /\ ipTable \in Table
    /\ child \in [Client -> Child \cup {None}]
    /\ file \in [today : BOOLEAN, byIP : BOOLEAN] \cup {None}

-----------------------------------------------------------------------------
(* The network *)

Arrive ==
    /\ pc # "down"
    /\ arrived < MaxDatagrams
    /\ udp < SocketBuffer
    /\ arrived' = arrived + 1
    /\ udp' = udp + 1
    /\ UNCHANGED <<pc, chlist, left, backlog, client, since, ipTable, child, file>>

Connect(c) ==
    /\ pc # "down"
    /\ client[c] = "idle"
    /\ Len(backlog) < Backlog
    /\ backlog' = Append(backlog, c)
    /\ client' = [client EXCEPT ![c] = "silent"]
    /\ since' = [since EXCEPT ![c] = arrived]
    /\ UNCHANGED <<pc, chlist, left, udp, arrived, ipTable, child, file>>

\* A client that keeps its side open after the command counts as silent.
ClientStep(c) ==
    /\ \/ client[c] = "silent" /\ client' = [client EXCEPT ![c] = "sent"]
       \/ client[c] = "sent" /\ client' = [client EXCEPT ![c] = "reading"]
       \/ client[c] \in {"silent", "sent", "reading"}
          /\ client' = [client EXCEPT ![c] = "gone"]
    /\ UNCHANGED <<pc, chlist, left, udp, arrived, backlog, since, ipTable,
                   child, file>>

-----------------------------------------------------------------------------
(* main() *)

Waits(c) == \E i \in 1 .. Len(backlog) : backlog[i] = c

\* Mutant of Ready: AddToList(flowstatdSockFd) is forgotten.
Ready_NetflowOnly == {fd \in {"netflow"} : udp > 0}

Ready == {fd \in {"netflow", "command"} :
            IF fd = "netflow" THEN udp > 0 ELSE backlog # <<>>}

\* multiplexer->Wait, taken as one look at both sockets.  A select() that a
\* signal interrupts changes nothing: the loop comes round to it again.
Select ==
    /\ pc = "select"
    /\ Ready # {}
    /\ chlist' = Ready
    /\ left' = Cardinality(Ready)
    /\ pc' = "event"
    /\ UNCHANGED <<env, ipTable, child, file>>

NextEvent ==
    /\ left' = left - 1
    /\ pc' = IF left = 1 THEN "select" ELSE "event"
    /\ chlist' = IF left = 1 THEN {} ELSE chlist

\* Mutant of Recv: recvfrom does not wait for a datagram.
Recv_NoWait ==
    /\ pc = "event"
    /\ "netflow" \in chlist
    /\ udp' = udp - 1
    /\ ipTable' = [ipTable EXCEPT !.covers = @ + 1]
    /\ NextEvent
    /\ UNCHANGED <<arrived, backlog, client, since, child, file>>

\* Every iteration reads a datagram if the netflow socket was ready at the
\* select(); recvfrom waits for one if there is none any more.
Recv ==
    /\ pc = "event"
    /\ "netflow" \in chlist
    /\ udp > 0
    /\ udp' = udp - 1
    /\ ipTable' = [ipTable EXCEPT !.covers = @ + 1]
    /\ NextEvent
    /\ UNCHANGED <<arrived, backlog, client, since, child, file>>

\* Mutants of Accept: alarm() is forgotten; the command is read before fork();
\* the command socket goes first; the memory is shared with the child.
Accept_NoAlarm ==
    /\ pc = "event"
    /\ "netflow" \notin chlist
    /\ child' = [child EXCEPT ![Head(backlog)] =
                   [pc |-> "recv", full |-> FALSE, armed |-> FALSE, tab |-> ipTable]]
    /\ backlog' = Tail(backlog)
    /\ NextEvent
    /\ UNCHANGED <<udp, arrived, client, since, ipTable, file>>

Accept_Reads ==
    /\ pc = "event"
    /\ "netflow" \notin chlist
    /\ client[Head(backlog)] # "silent"
    /\ child' = [child EXCEPT ![Head(backlog)] =
                   [pc |-> "recv", full |-> FALSE, armed |-> TRUE, tab |-> ipTable]]
    /\ backlog' = Tail(backlog)
    /\ NextEvent
    /\ UNCHANGED <<udp, arrived, client, since, ipTable, file>>

Accept_First ==
    /\ pc = "event"
    /\ "command" \in chlist /\ backlog # <<>>
    /\ child' = [child EXCEPT ![Head(backlog)] =
                   [pc |-> "recv", full |-> FALSE, armed |-> TRUE, tab |-> ipTable]]
    /\ backlog' = Tail(backlog)
    /\ NextEvent
    /\ UNCHANGED <<udp, arrived, client, since, ipTable, file>>

\* Only if the netflow socket was not ready.  If fork() fails, close(peerFd)
\* drops the client.
Accept ==
    /\ pc = "event"
    /\ "netflow" \notin chlist /\ "command" \in chlist
    /\ \/ /\ child' = [child EXCEPT ![Head(backlog)] =
                         [pc |-> "recv", full |-> FALSE, armed |-> TRUE, tab |-> ipTable]]
          /\ UNCHANGED client
       \/ /\ client' = [client EXCEPT ![Head(backlog)] = "gone"]
          /\ UNCHANGED child
    /\ backlog' = Tail(backlog)
    /\ NextEvent
    /\ UNCHANGED <<udp, arrived, since, ipTable, file>>

-----------------------------------------------------------------------------
(* A child; what it does to its table it does to its own copy. *)

Alive(c) == child[c] # None

ChildGoes(c, from, to) ==
    /\ Alive(c)
    /\ child[c].pc = from
    /\ child' = [child EXCEPT ![c] = to]
    /\ UNCHANGED <<pc, chlist, left, env, ipTable, file>>

\* The end of the process closes the connection.
ChildEnds(c) ==
    /\ child' = [child EXCEPT ![c] = None]
    /\ client' = [client EXCEPT ![c] = "gone"]
    /\ since' = [since EXCEPT ![c] = 0]
    /\ UNCHANGED <<pc, chlist, left, udp, arrived, backlog, ipTable>>

\* What parseCmd does to the table: another day's file replaces it, if there
\* is one, and the lists sort it.  A bad command leaves it alone.
Answered(tab, q) ==
    {tab,
     [tab EXCEPT !.today = q.today,
                 !.covers = IF q.today THEN @ ELSE 0,
                 !.byIP = ~q.list]}

\* recv() until the client ends its side or is gone, parseCmd, and the first
\* part of the answer, which fills the socket buffer until the client reads.
ChildAnswer(c) ==
    /\ Alive(c)
    /\ client[c] # "silent"
    /\ \E t \in Answered(child[c].tab, Asks[c]) :
         ChildGoes(c, "recv", [child[c] EXCEPT !.pc = "send", !.tab = t,
                                               !.full = client[c] = "sent"])

CanSend(c) == ~child[c].full \/ client[c] \in {"reading", "gone"}

\* The rest of the answer, and exit(); or the client is gone (SIGPIPE, Diep).
ChildFinish(c) ==
    /\ Alive(c)
    /\ child[c].pc = "send" /\ CanSend(c)
    /\ ChildEnds(c)
    /\ UNCHANGED file

\* SIGALRM after 30 seconds, wherever the child is: SockExit takes over ...
Alarm(c) ==
    /\ Alive(c) /\ child[c].armed
    /\ ChildGoes(c, child[c].pc, [child[c] EXCEPT !.pc = "alarm", !.armed = FALSE])

\* ... and sends its "Timeout." behind whatever has been sent.
SockExit(c) ==
    /\ Alive(c)
    /\ child[c].pc = "alarm" /\ CanSend(c)
    /\ ChildEnds(c)
    /\ UNCHANGED file

-----------------------------------------------------------------------------
(* Signals *)

\* ExportRecord(TODAY)
Saved(tab) == [today |-> tab.today, byIP |-> tab.byIP]

\* The daemon ends: the kernel closes both sockets.
Down ==
    /\ pc # "down"
    /\ pc' = "down"
    /\ chlist' = {}
    /\ left' = 0
    /\ udp' = 0
    /\ backlog' = <<>>
    /\ client' = [c \in Client |-> IF Waits(c) THEN "gone" ELSE client[c]]
    /\ UNCHANGED <<arrived, since, ipTable, child>>

\* SIGINT or SIGTERM to the daemon.
Exits == Down /\ file' = Saved(ipTable)

\* SIGKILL, or Diep after accept() or gzopen() failed.
Die == Down /\ UNCHANGED file

\* SIGHUP to the daemon: a child without a client saves a copy of the table.
Update ==
    /\ pc # "down"
    /\ file' = Saved(ipTable)
    /\ UNCHANGED <<pc, chlist, left, env, ipTable, child>>

\* A terminal's Ctrl-C and killall reach the children too, which have inherited
\* both handlers: they save their own table.
ChildExits(c) ==
    /\ Alive(c)
    /\ file' = Saved(child[c].tab)
    /\ ChildEnds(c)

ChildUpdate(c) ==
    /\ Alive(c)
    /\ file' = Saved(child[c].tab)
    /\ UNCHANGED <<pc, chlist, left, env, ipTable, child>>

-----------------------------------------------------------------------------

Init ==
    /\ pc = "select"
    /\ chlist = {}
    /\ left = 0
    /\ udp = 0
    /\ arrived = 0
    /\ backlog = <<>>
    /\ client = [c \in Client |-> "idle"]
    /\ since = [c \in Client |-> 0]
    /\ ipTable = [today |-> TRUE, covers |-> 0, byIP |-> TRUE]
    /\ child = [c \in Client |-> None]
    /\ file = None

Main == Select \/ Recv \/ Accept

ChildStep(c) ==
    ChildAnswer(c) \/ ChildFinish(c) \/ SockExit(c)

Next ==
    \/ Arrive \/ Main \/ Exits \/ Update \/ Die
    \/ \E c \in Client :
         Connect(c) \/ ClientStep(c) \/ ChildStep(c) \/ Alarm(c)
         \/ ChildExits(c) \/ ChildUpdate(c)

Spec == Init /\ [][Next]_vars

\* The scheduler runs every process that can go on, and a timer that was armed
\* goes off.  Nothing is assumed of exporters, clients and operators.
FairSpec ==
    /\ Spec
    /\ WF_vars(Main)
    /\ \A c \in Client : WF_vars(ChildStep(c)) /\ WF_vars(Alarm(c))

-----------------------------------------------------------------------------
(* Properties *)

\* README: "all the data queried is latest".  Every datagram that had arrived
\* when a client connected is in the table its child answers from: the command
\* socket is looked at only when select() found no datagram.
AnswersAreLatest ==
    \A c \in Client :
      Alive(c) /\ child[c].tab.today => child[c].tab.covers >= since[c]

\* No client, silent or slow, keeps the daemon from reading its datagrams.
DatagramsAreRead == udp > 0 ~> udp = 0 \/ pc = "down"

InRecvfrom == pc = "event" /\ "netflow" \in chlist /\ udp = 0

\* When traffic stops, a query is accepted, unless the daemon sits in the
\* second recvfrom of a round, for which there is no datagram left.
AcceptedOrBlocked ==
    \A c \in Client : Waits(c) ~> ~Waits(c) \/ InRecvfrom \/ pc = "down"

\* A child does not outlive its alarm, except behind a client that stays
\* connected and does not read: SockExit sends before it exits.
ChildrenEnd ==
    \A c \in Client : Alive(c) ~> ~Alive(c) \/ ~CanSend(c)

\* README: "Calculate each IP's flow day by day".  The file of today, which the
\* next start imports, holds today's traffic at the places where getIPIdx looks
\* for it, whatever the queries are about.
TodaysFileIsToday == file # None => file.today /\ file.byIP

=============================================================================
