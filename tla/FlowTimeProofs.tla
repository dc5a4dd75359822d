--------------------------- MODULE FlowTimeProofs ---------------------------
(* Proofs about FlowTime: ftltime computes the start of a flow for every    *)
(* width of the words, and so does the daemon for every record it decodes.  *)
EXTENDS FlowTime, TLAPS

-----------------------------------------------------------------------------
(* Division *)

\* Quotient and remainder of natural numbers, as the provers need them.
LEMMA DivMod ==
    ASSUME NEW a \in Int, NEW m \in Nat \ {0}
    PROVE  /\ a \div m \in Int
           /\ a % m \in 0 .. m - 1
           /\ a = m * (a \div m) + (a % m)
  OBVIOUS

\* Quotient and remainder are determined by their defining equation.
LEMMA DivUnique ==
    ASSUME NEW m \in Nat \ {0}, NEW q \in Int, NEW r \in 0 .. m - 1,
           NEW a \in Int, a = m * q + r
    PROVE  a \div m = q /\ a % m = r
  BY DivMod

\* The remainder does not change when a multiple of the modulus is added.
LEMMA ModAdd ==
    ASSUME NEW m \in Nat \ {0}, NEW x \in Int, NEW k \in Int
    PROVE  ((x % m) + k) % m = (x + k) % m
<1> DEFINE p == x \div m
           q == (x + k) \div m
           u == x % m
           v == (x + k) % m
<1>1. p \in Int /\ u \in 0 .. m - 1 /\ x = m * p + u
  BY DivMod
<1>2. q \in Int /\ v \in 0 .. m - 1 /\ x + k = m * q + v
  BY DivMod
<1> HIDE DEF p, q, u, v
<1>3. m * (q - p) = m * q - m * p /\ m * q \in Int /\ m * p \in Int
  BY <1>1, <1>2
<1>4. u + k = m * (q - p) + v
  BY <1>1, <1>2, <1>3
<1>5. q - p \in Int /\ u + k \in Int
  BY <1>1, <1>2
<1>6. (u + k) % m = v
  <2> DEFINE w == q - p
             y == u + k
  <2>1. w \in Int /\ y \in Int /\ y = m * w + v
    BY <1>4, <1>5
  <2> HIDE DEF w, y
  <2>2. y % m = v
    BY <2>1, <1>2, DivUnique
  <2> QED
    BY <2>2 DEF y
<1> QED
  BY <1>6 DEF u, v

-----------------------------------------------------------------------------
(* ftltime *)

\* The sizes of a second and of a word.
LEMMA Sizes ==
    Milli \in Nat \ {0} /\ Word \in Nat \ {0} /\ Word > Milli
  BY FlowTimeAssumption

\* A time is whole seconds and milliseconds.
LEMMA InSeconds ==
    ASSUME NEW t \in Nat
    PROVE  /\ t \div Milli \in Int
           /\ t % Milli \in 0 .. Milli - 1
           /\ t = Milli * (t \div Milli) + (t % Milli)
  BY Sizes, DivMod

\* nsecs / 1000000L makes whole milliseconds of nanoseconds.
LEMMA InMillis ==
    ASSUME NEW nsecs \in Nsecs
    PROVE  nsecs \div Nano \in 0 .. Milli - 1
<1> DEFINE q == nsecs \div Nano
           x == nsecs % Nano
<1>1. Milli \in Nat \ {0} /\ Nano \in Nat \ {0}
  BY FlowTimeAssumption
<1>2. Milli * Nano \in Int
  BY <1>1
<1>3. nsecs \in Int /\ 0 <= nsecs /\ nsecs < Milli * Nano
  BY <1>2 DEF Nsecs
<1>4. q \in Int /\ x \in 0 .. Nano - 1 /\ nsecs = Nano * q + x
  BY <1>1, <1>3, DivMod
<1> HIDE DEF q, x
<1>5. q >= 0
  <2> SUFFICES ASSUME q < 0 PROVE FALSE
    BY <1>4
  <2>1. Nano * q <= Nano * (-1)
    BY <1>1, <1>4
  <2> QED
    BY <2>1, <1>1, <1>3, <1>4
<1>6. q < Milli
  <2> SUFFICES ASSUME q >= Milli PROVE FALSE
    BY <1>1, <1>4
  <2>1. Nano * q >= Milli * Nano
    BY <1>1, <1>4
  <2> QED
    BY <2>1, <1>1, <1>3, <1>4
<1>7. q \in 0 .. Milli - 1
  BY <1>1, <1>4, <1>5, <1>6
<1> QED
  BY <1>7 DEF q

\* The nanoseconds of a header, and the milliseconds in them.
LEMMA OfMillis ==
    ASSUME NEW ms \in 0 .. Milli - 1, NEW rest \in 0 .. Nano - 1
    PROVE  Nano * ms + rest \in Nsecs /\ (Nano * ms + rest) \div Nano = ms
<1> DEFINE x == Nano * ms + rest
<1>1. Milli \in Nat \ {0} /\ Nano \in Nat \ {0} /\ ms \in Nat /\ ms <= Milli - 1
  BY FlowTimeAssumption
<1>2. Nano * ms \in Nat /\ Milli * Nano \in Nat /\ Nano * (Milli - 1) = Milli * Nano - Nano
  BY <1>1
<1>3. Nano * ms <= Nano * (Milli - 1)
  BY <1>1
<1>4. x \in Nat /\ x <= Milli * Nano - 1
  BY <1>1, <1>2, <1>3
<1>5. x \div Nano = ms
  BY <1>1, <1>4, DivUnique
<1> HIDE DEF x
<1>6. x \in Nsecs
  BY <1>2, <1>4 DEF Nsecs
<1> QED
  BY <1>5, <1>6 DEF x

\* For an uptime sys at second s and ns milliseconds, ftltime returns the second
\* of the time at which the uptime was t.
LEMMA FtltimeSecond ==
    ASSUME NEW sys \in Nat, NEW s \in Int, NEW ns \in 0 .. Milli - 1,
           NEW nsecs, nsecs \div Nano = ns, NEW t \in Nat
    PROVE  ftltime(sys, s % Word, nsecs, t).secs
             = ((Milli * s + ns - sys + t) \div Milli) % Word
<1> DEFINE borrow == IF sys % Milli > ns THEN 1 ELSE 0
           ms     == ns + borrow * Milli - (sys % Milli) + (t % Milli)
           carry  == IF ms >= Milli THEN 1 ELSE 0
           k      == carry - (sys \div Milli) - borrow + (t \div Milli)
           n      == s + k
           rest   == ms - carry * Milli
           total  == Milli * s + ns - sys + t
<1>1. sys \div Milli \in Int /\ sys % Milli \in 0 .. Milli - 1
      /\ sys = Milli * (sys \div Milli) + (sys % Milli)
  BY DivMod, Sizes
<1>2. t \div Milli \in Int /\ t % Milli \in 0 .. Milli - 1
      /\ t = Milli * (t \div Milli) + (t % Milli)
  BY DivMod, Sizes
<1>3. ms \in Int /\ rest \in 0 .. Milli - 1 /\ borrow \in {0, 1} /\ carry \in {0, 1}
  BY <1>1, <1>2, Sizes
<1>4. k \in Int /\ n \in Int /\ total \in Int
  BY <1>1, <1>2, <1>3, Sizes
<1>5. total = Milli * n + rest
  <2>1. Milli * borrow = borrow * Milli /\ Milli * carry = carry * Milli
    BY <1>3, Sizes
  <2>2. Milli * n = Milli * s + (Milli * carry - Milli * (sys \div Milli)
                      - Milli * borrow + Milli * (t \div Milli))
    <3> HIDE DEF borrow, ms, carry
    <3> DEFINE a == sys \div Milli
               b == t \div Milli
    <3>1. a \in Int /\ b \in Int
      BY <1>1, <1>2
    <3>2. n = s + (carry - a - borrow + b)
      OBVIOUS
    <3> HIDE DEF a, b, n
    <3>3. Milli * (s + (carry - a - borrow + b))
            = Milli * s + (Milli * carry - Milli * a - Milli * borrow + Milli * b)
      BY <3>1, <1>3, Sizes
    <3> QED
      BY <3>2, <3>3 DEF a, b
  <2> QED
    BY <2>1, <2>2, <1>1, <1>2, <1>3, <1>4, Sizes
<1>6. total \div Milli = n
  <2> HIDE DEF total, n, rest
  <2> QED
    BY <1>3, <1>4, <1>5, Sizes, DivUnique
<1>7. ftltime(sys, s % Word, nsecs, t).secs = ((s % Word) + k) % Word
  <2>1. ftltime(sys, s % Word, nsecs, t).secs
          = ((s % Word) - (sys \div Milli) - borrow + (t \div Milli) + carry) % Word
    BY DEF ftltime
  <2>2. s % Word \in Int
    BY DivMod, Sizes
  <2>3. (s % Word) - (sys \div Milli) - borrow + (t \div Milli) + carry
          = (s % Word) + k
    <3> HIDE DEF borrow, carry
    <3> QED
      BY <2>2, <1>1, <1>2, <1>3 DEF k
  <2> QED
    BY <2>1, <2>3
<1>8. ((s % Word) + k) % Word = (s + k) % Word
  <2> HIDE DEF k
  <2> QED
    BY <1>4, Sizes, ModAdd
<1> QED
  BY <1>6, <1>7, <1>8

\* What ftltime returns has the width of the struct.
LEMMA FtltimeType ==
    ASSUME NEW sys \in Nat, NEW secs \in Int, NEW ns \in 0 .. Milli - 1,
           NEW nsecs, nsecs \div Nano = ns, NEW t \in Nat
    PROVE  LET r == ftltime(sys, secs, nsecs, t)
           IN  r.secs \in 0 .. Word - 1 /\ r.msecs \in 0 .. Milli - 1
<1> DEFINE borrow == IF sys % Milli > ns THEN 1 ELSE 0
           ms     == ns + borrow * Milli - (sys % Milli) + (t % Milli)
           carry  == IF ms >= Milli THEN 1 ELSE 0
           whole  == secs - (sys \div Milli) - borrow + (t \div Milli) + carry
<1>1. sys \div Milli \in Int /\ sys % Milli \in 0 .. Milli - 1
  BY DivMod, Sizes
<1>2. t \div Milli \in Int /\ t % Milli \in 0 .. Milli - 1
  BY DivMod, Sizes
<1>3. ms \in Int /\ ms - carry * Milli \in 0 .. Milli - 1 /\ whole \in Int
  BY <1>1, <1>2, Sizes
<1>4. whole % Word \in 0 .. Word - 1
  <2> HIDE DEF whole
  <2> QED
    BY <1>3, Sizes, DivMod
<1> QED
  BY <1>3, <1>4 DEF ftltime

-----------------------------------------------------------------------------
(* The inductive invariant: what a datagram states is what the exporter's   *)
(* clock and uptime were when it was sent.                                  *)

HeaderRight(d) ==
    /\ d.UnixSecs = (d.at \div Milli) % Word
    /\ d.UnixNsecs \div Nano = IF d.version = 5 THEN d.at % Milli ELSE 0
    /\ ~d.wrapped => d.at - d.flow.start = d.SysUptime - d.First

DecodedRight(r) ==
    /\ HeaderRight(r.d)
    /\ r.secs = ftltime(r.d.SysUptime, r.d.UnixSecs, r.d.UnixNsecs, r.d.First).secs

TimeInv ==
    /\ TypeOK
    /\ \A d \in datagrams : HeaderRight(d)
    /\ \A r \in inserted : DecodedRight(r)

\* InsertNfInfoToIpTable adds to hours of the day only.
LEMMA CellsType ==
    ASSUME NEW d \in Datagram, NEW localtm
    PROVE  Cells(d, localtm) \subseteq Cell
<1> DEFINE ftt == ftltime(d.SysUptime, d.UnixSecs, d.UnixNsecs, d.First)
           time == AsTime(ftt)
<1>1. ftt.secs \in 0 .. Word - 1 /\ ftt.msecs \in 0 .. Milli - 1
  <2>1. d.SysUptime \in Nat /\ d.UnixSecs \in Int /\ d.UnixNsecs \div Nano \in 0 .. Milli - 1
        /\ d.First \in Nat
    BY Sizes, InMillis DEF Datagram
  <2> QED
    BY <2>1, FtltimeType
<1>2. time \in Int
  <2> HIDE DEF ftt
  <2>1. Word * ftt.msecs \in Int
    BY <1>1, Sizes
  <2> QED
    BY <1>1, <2>1, Sizes DEF AsTime
<1>3. time \div HourSecs \in Int
  <2> HIDE DEF time
  <2> QED
    BY <1>2, FlowTimeAssumption, DivMod
<1>4. (time \div HourSecs) % HoursPerDay \in 0 .. HoursPerDay - 1
  <2> HIDE DEF time
  <2> QED
    BY <1>3, FlowTimeAssumption, DivMod
<1>5. ConvertNfTime(d).tm_hour = (time \div HourSecs) % HoursPerDay
  BY DEF ConvertNfTime, localtime
<1>6. Way(d.flow) \subseteq Direction
  BY DEF Way
<1> HIDE DEF time
<1> QED
  BY <1>4, <1>5, <1>6 DEF Cells, Cell

\* Nothing is under way at first.
LEMMA TimeInit == Init => TimeInv
  BY FlowTimeAssumption DEF Init, TimeInv, TypeOK

\* The header and the start of an exported record agree with the clocks.
LEMMA ExportRight ==
    ASSUME TimeInv, Export
    PROVE  \A d \in datagrams' : d \in Datagram /\ HeaderRight(d)
<1>1. clock \in Nat /\ boot \in Nat /\ flows \subseteq Flow
  BY DEF TimeInv, TypeOK
<1>2. PICK f \in flows, v \in {5, 9}, rest \in 0 .. Nano - 1 : datagrams' =
              {[version   |-> v,
                SysUptime |-> Header(v, rest).SysUptime,
                UnixSecs  |-> Header(v, rest).UnixSecs,
                UnixNsecs |-> Header(v, rest).UnixNsecs,
                First     |-> Uptime(f.start),
                flow      |-> f,
                at        |-> clock,
                wrapped   |-> (f.start - boot) \div Word # (clock - boot) \div Word]}
  BY DEF Export
<1>3. f \in Flow /\ f.start \in Nat
  BY <1>1 DEF Flow
<1> DEFINE a == clock - boot
           b == f.start - boot
<1>a. a \in Int /\ b \in Int
  BY <1>1, <1>3
<1> HIDE DEF a, b
<1>4. a \in Int /\ a \div Word \in Int /\ a % Word \in 0 .. Word - 1
      /\ a = Word * (a \div Word) + (a % Word)
  BY <1>a, Sizes, DivMod
<1>5. b \in Int /\ b \div Word \in Int /\ b % Word \in 0 .. Word - 1
      /\ b = Word * (b \div Word) + (b % Word)
  BY <1>a, Sizes, DivMod
<1>6. a \div Word = b \div Word => a - b = (a % Word) - (b % Word)
  <2> DEFINE p == a \div Word
             q == b \div Word
             u == a % Word
             w == b % Word
  <2>1. /\ p \in Int /\ q \in Int /\ u \in Int /\ w \in Int
        /\ a = Word * p + u /\ b = Word * q + w
    BY <1>4, <1>5
  <2> HIDE DEF p, q, u, w
  <2>2. p = q => a - b = u - w
    <3>1. Word * p \in Int
      BY <2>1, Sizes
    <3> QED
        BY <2>1, <3>1
  <2> QED
    BY <2>2 DEF p, q, u, w
<1>7. clock - f.start = a - b
  BY <1>1, <1>3 DEF a, b
<1>8. (clock \div Milli) % Word \in 0 .. Word - 1 /\ clock % Milli \in 0 .. Milli - 1
  BY <1>1, Sizes, DivMod
<1>9. Uptime(clock) = a % Word /\ Uptime(f.start) = b % Word
  BY DEF Uptime, a, b
<1>10. ~((f.start - boot) \div Word # (clock - boot) \div Word)
         => clock - f.start = Uptime(clock) - Uptime(f.start)
  BY <1>6, <1>7, <1>9 DEF a, b
<1>11. Uptime(clock) \in 0 .. Word - 1 /\ Uptime(f.start) \in 0 .. Word - 1
  BY <1>4, <1>5, <1>9
<1> DEFINE ns == IF v = 5 THEN Nano * (clock % Milli) + rest ELSE 0
           d == [version   |-> v,
                 SysUptime |-> Uptime(clock),
                 UnixSecs  |-> (clock \div Milli) % Word,
                 UnixNsecs |-> ns,
                 First     |-> Uptime(f.start),
                 flow      |-> f,
                 at        |-> clock,
                 wrapped   |-> (f.start - boot) \div Word # (clock - boot) \div Word]
<1>12. datagrams' = {d}
  BY <1>2 DEF Header
<1>13. /\ ns \in Nsecs
       /\ ns \div Nano = IF v = 5 THEN clock % Milli ELSE 0
  <2>1. /\ Nano * (clock % Milli) + rest \in Nsecs
        /\ (Nano * (clock % Milli) + rest) \div Nano = clock % Milli
    BY <1>8, OfMillis
  <2>2. 0 \in 0 .. Milli - 1 /\ 0 \in 0 .. Nano - 1 /\ Nano * 0 + 0 = 0
    BY Sizes, FlowTimeAssumption
  <2>3. 0 \in Nsecs /\ 0 \div Nano = 0
    BY <2>2, OfMillis
  <2> QED
    BY <2>1, <2>3
<1> HIDE DEF Uptime, ns
<1>14. d \in Datagram
  BY <1>1, <1>3, <1>8, <1>11, <1>13 DEF Datagram
<1>15. HeaderRight(d)
  BY <1>10, <1>13 DEF HeaderRight
<1> QED
  BY <1>12, <1>14, <1>15

\* Every step of the exporter and of the daemon keeps the invariant.
LEMMA TimeNext == TimeInv /\ [Next]_vars => TimeInv'
<1> SUFFICES ASSUME TimeInv, [Next]_vars
             PROVE  TimeInv'
  OBVIOUS
<1>0. /\ clock \in Nat /\ boot \in Nat /\ flows \subseteq Flow
      /\ datagrams \subseteq Datagram
  BY DEF TimeInv, TypeOK
<1>1. CASE Pass
  BY <1>1 DEF Pass, TimeInv, TypeOK
<1>2. CASE Observe
  <2>1. flows' \subseteq Flow
    BY <1>0, <1>2 DEF Observe, Flow
  <2> QED
    BY <1>2, <2>1 DEF Observe, TimeInv, TypeOK
<1>3. CASE Export
  <2>1. UNCHANGED <<clock, boot>> /\ flows' \subseteq flows /\ inserted' = {}
    BY <1>3 DEF Export
  <2> QED
    BY <1>0, <1>3, <2>1, ExportRight DEF TimeInv, TypeOK
<1>4. CASE Reboot
  BY <1>4 DEF Reboot, TimeInv, TypeOK
<1>5. CASE Lose
  BY <1>5 DEF Lose, TimeInv, TypeOK
<1>6. CASE Receive
  <2>1. PICK d \in datagrams :
          /\ inserted' =
               {[d     |-> d,
                 at    |-> clock,
                 secs  |-> ftltime(d.SysUptime, d.UnixSecs, d.UnixNsecs, d.First).secs,
                 cells |-> IF Decode(d) THEN Cells(d, localtime(clock \div Milli))
                           ELSE {}]}
          /\ datagrams' = datagrams \ {d}
    BY <1>6 DEF Receive
  <2>2. d \in Datagram /\ HeaderRight(d)
    BY <1>0 DEF TimeInv
  <2>3. ftltime(d.SysUptime, d.UnixSecs, d.UnixNsecs, d.First).secs \in 0 .. Word - 1
    <3>1. d.SysUptime \in Nat /\ d.UnixSecs \in Int
          /\ d.UnixNsecs \div Nano \in 0 .. Milli - 1 /\ d.First \in Nat
      BY <2>2, Sizes, InMillis DEF Datagram
    <3> QED
      BY <3>1, FtltimeType
  <2>4. Cells(d, localtime(clock \div Milli)) \subseteq Cell
    BY <2>2, CellsType
  <2>5. UNCHANGED <<clock, boot, flows>>
    BY <1>6 DEF Receive
  <2>6. inserted' \subseteq [d : Datagram, at : Nat, secs : 0 .. Word - 1,
                             cells : SUBSET Cell]
    BY <1>0, <2>1, <2>2, <2>3, <2>4
  <2>7. \A r \in inserted' : DecodedRight(r)
    BY <2>1, <2>2 DEF DecodedRight
  <2> QED
    BY <2>1, <2>5, <2>6, <2>7 DEF TimeInv, TypeOK
<1>7. CASE UNCHANGED vars
  BY <1>7 DEF vars, TimeInv, TypeOK
<1> QED
  BY <1>1, <1>2, <1>3, <1>4, <1>5, <1>6, <1>7 DEF Next

\* Datagrams state their times rightly, and the daemon reads them so.
LEMMA TimeInvariant == Spec => []TimeInv
<1> QED
  BY TimeInit, TimeNext, PTL DEF Spec

\* The values of every reachable state lie in the sets TypeOK names.
THEOREM TypeCorrect == Spec => []TypeOK
<1>1. TimeInv => TypeOK
  BY DEF TimeInv
<1> QED
  BY <1>1, TimeInvariant, PTL

\* The second that ftltime finds in a record: the stated start, moved by what
\* the two uptimes are off from the time that passed between them.
LEMMA RecordRead ==
    ASSUME NEW r, r.d \in Datagram, DecodedRight(r),
           NEW off \in Int,
           r.d.at - r.d.flow.start = r.d.SysUptime - r.d.First + off
    PROVE  r.secs = ((Stated(r.d) + off) \div Milli) % Word
<1> DEFINE d == r.d
           s == d.at \div Milli
           ns == d.UnixNsecs \div Nano
           total == Milli * s + ns - d.SysUptime + d.First
<1>1. /\ d.SysUptime \in Nat /\ ns \in 0 .. Milli - 1
      /\ d.First \in Nat /\ d.at \in Nat /\ d.flow.start \in Nat
      /\ d.version \in {5, 9}
  BY InMillis DEF Datagram, Flow
<1>2. /\ d.UnixSecs = s % Word
      /\ ns = IF d.version = 5 THEN d.at % Milli ELSE 0
      /\ d.at - d.flow.start = d.SysUptime - d.First + off
  BY DEF DecodedRight, HeaderRight
<1>3. s \in Int /\ d.at % Milli \in 0 .. Milli - 1 /\ d.at = Milli * s + (d.at % Milli)
  BY <1>1, InSeconds
<1>4. r.secs = (total \div Milli) % Word
  <2>1. r.secs = ftltime(d.SysUptime, s % Word, d.UnixNsecs, d.First).secs
    BY <1>2 DEF DecodedRight
  <2> HIDE DEF d, s
  <2>2. ftltime(d.SysUptime, s % Word, d.UnixNsecs, d.First).secs
          = (total \div Milli) % Word
    <3> DEFINE sys == d.SysUptime
               nsecs == d.UnixNsecs
               first == d.First
    <3>1. sys \in Nat /\ s \in Int /\ ns \in 0 .. Milli - 1 /\ first \in Nat
          /\ nsecs \div Nano = ns
      BY <1>1, <1>3
    <3>2. total = Milli * s + ns - sys + first
      OBVIOUS
    <3> HIDE DEF sys, ns, nsecs, first, total
    <3>3. ftltime(sys, s % Word, nsecs, first).secs
            = ((Milli * s + ns - sys + first) \div Milli) % Word
      BY <3>1, FtltimeSecond
    <3> QED
      BY <3>2, <3>3, Zenon DEF sys, nsecs, first
  <2> QED
    BY <2>1, <2>2
<1>5. total = Stated(d) + off
  <2> HIDE DEF s, ns
  <2>1. Milli * s \in Int
    BY <1>3, Sizes
  <2>2. CASE d.version = 5
    BY <2>1, <2>2, <1>1, <1>2, <1>3 DEF Stated
  <2>3. CASE d.version = 9
    BY <2>1, <2>3, <1>1, <1>2, <1>3 DEF Stated
  <2> QED
    BY <2>2, <2>3, <1>1
<1> QED
  BY <1>4, <1>5

\* ftltime finds the start that a record states, if its uptime did not wrap.
LEMMA RecordFound ==
    ASSUME NEW r, r.d \in Datagram, DecodedRight(r), ~r.d.wrapped
    PROVE  r.secs = (Stated(r.d) \div Milli) % Word
<1>1. r.d.at - r.d.flow.start = r.d.SysUptime - r.d.First + 0
  BY DEF DecodedRight, HeaderRight, Datagram
<1>2. Stated(r.d) + 0 = Stated(r.d)
  <2>1. r.d.at \in Nat /\ r.d.flow.start \in Nat
    BY DEF Datagram, Flow
  <2>2. r.d.at % Milli \in 0 .. Milli - 1
    BY <2>1, InSeconds
  <2> QED
    BY <2>1, <2>2, Sizes DEF Stated
<1> QED
  BY <1>1, <1>2, RecordRead

\* Whatever the widths of second, word and day: unless the uptime wrapped
\* between the start and the export, ftltime finds the second of the start.
THEOREM StartIsFound == Spec => []StartFound
<1>1. TimeInv => StartFound
  BY RecordFound DEF TimeInv, TypeOK, StartFound
<1> QED
  BY <1>1, TimeInvariant, PTL

-----------------------------------------------------------------------------
(* What is left out.  The clock stays inside the 32 bits of a Unix time.    *)

InTime(t) == Epoch <= t /\ t <= MaxTime

CellsRight(r) ==
    /\ InTime(r.d.flow.start)
    /\ r.cells = IF Decode(r.d) THEN Cells(r.d, localtime(r.at \div Milli)) ELSE {}

MissInv ==
    /\ TimeInv
    /\ InTime(clock)
    /\ \A f \in flows : InTime(f.start)
    /\ \A d \in datagrams : InTime(d.flow.start)
    /\ \A r \in inserted : CellsRight(r)

\* The model begins before its end.
LEMMA MissInit == Epoch <= MaxTime /\ Init => MissInv
<1> SUFFICES ASSUME Epoch <= MaxTime, Init
             PROVE  MissInv
  OBVIOUS
<1>1. TimeInv
  BY TimeInit
<1> QED
  BY <1>1, FlowTimeAssumption DEF Init, MissInv, InTime

\* Every step keeps flows within the time of the model.
LEMMA MissNext == MissInv /\ [Next]_vars => MissInv'
<1> SUFFICES ASSUME MissInv, [Next]_vars
             PROVE  MissInv'
  OBVIOUS
<1>0. TimeInv' /\ clock \in Nat
  BY TimeNext DEF MissInv, TimeInv, TypeOK
<1>1. CASE Pass
  <2>1. InTime(clock')
    BY <1>0, <1>1, FlowTimeAssumption DEF Pass, MissInv, InTime
  <2> QED
    BY <1>0, <1>1, <2>1 DEF Pass, MissInv
<1>2. CASE Observe
  <2>1. \A f \in flows' : f.start = clock
    BY <1>2 DEF Observe
  <2> QED
    BY <1>0, <1>2, <2>1 DEF Observe, MissInv
<1>3. CASE Export
  <2>1. UNCHANGED clock /\ flows' \subseteq flows /\ inserted' = {}
    BY <1>3 DEF Export
  <2>2. \A d \in datagrams' : d.flow \in flows
    BY <1>3 DEF Export
  <2> QED
    BY <1>0, <2>1, <2>2 DEF MissInv
<1>4. CASE Reboot
  BY <1>0, <1>4 DEF Reboot, MissInv
<1>5. CASE Lose
  BY <1>0, <1>5 DEF Lose, MissInv
<1>6. CASE Receive
  <2>1. PICK d \in datagrams :
          inserted' =
               {[d     |-> d,
                 at    |-> clock,
                 secs  |-> ftltime(d.SysUptime, d.UnixSecs, d.UnixNsecs, d.First).secs,
                 cells |-> IF Decode(d) THEN Cells(d, localtime(clock \div Milli))
                           ELSE {}]}
    BY <1>6 DEF Receive
  <2>2. UNCHANGED <<clock, boot, flows>> /\ datagrams' \subseteq datagrams
    BY <1>6 DEF Receive
  <2>3. \A r \in inserted' : CellsRight(r)
    BY <2>1 DEF CellsRight, MissInv
  <2> QED
    BY <1>0, <2>2, <2>3 DEF MissInv
<1>7. CASE UNCHANGED vars
  BY <1>0, <1>7 DEF vars, MissInv
<1> QED
  BY <1>1, <1>2, <1>3, <1>4, <1>5, <1>6, <1>7 DEF Next

\* A number below the modulus is its own remainder.
LEMMA SmallMod ==
    ASSUME NEW m \in Nat \ {0}, NEW a \in 0 .. m - 1
    PROVE  a % m = a
<1>1. a = m * 0 + a
  OBVIOUS
<1> QED
  BY <1>1, DivUnique

\* Division keeps the order.
LEMMA SmallDiv ==
    ASSUME NEW m \in Nat \ {0}, NEW a \in Nat, NEW b \in Nat, a <= b
    PROVE  a \div m \in 0 .. (b \div m)
  BY DivMod

\* A record without a cell has one of the reasons that MissedForAReason names.
LEMMA MissReason ==
    ASSUME MissInv, ~WideTime, MaxTime \div Milli < Word
    PROVE  MissedForAReason
<1> SUFFICES ASSUME NEW r \in inserted,
                    DayOf(r.at) = DayOf(Stated(r.d)),
                    "table" \in {r.d.flow.src, r.d.flow.dst},
                    "outside" \in {r.d.flow.src, r.d.flow.dst},
                    ~r.d.wrapped,
                    ~(r.d.version = 9 /\ r.d.First = 0)
             PROVE  r.cells # {}
  BY DEF MissedForAReason
<1> DEFINE d == r.d
           began == Stated(d)
<1>1. /\ d \in Datagram /\ d.flow.start \in Nat /\ d.at \in Nat
      /\ d.flow.start <= MaxTime /\ d.flow.start >= Milli
      /\ DecodedRight(r) /\ MaxTime \in Nat
  <2>1. r.d \in Datagram /\ DecodedRight(r) /\ InTime(r.d.flow.start)
    BY DEF MissInv, TimeInv, TypeOK, CellsRight
  <2>2. r.d.flow.start \in Nat /\ r.d.at \in Nat
    BY <2>1 DEF Datagram, Flow
  <2> QED
    BY <2>1, <2>2, FlowTimeAssumption DEF InTime
<1>2. began \in Nat /\ began <= MaxTime
  <2>1. d.at % Milli \in 0 .. Milli - 1
    BY <1>1, InSeconds
  <2> QED
    BY <2>1, <1>1, Sizes DEF Stated
<1>3. r.secs = began \div Milli
  <2>1. r.secs = (began \div Milli) % Word
    BY <1>1, RecordFound
  <2>2. began \div Milli \in 0 .. (MaxTime \div Milli)
    <3> HIDE DEF began
    <3> QED
      BY <1>1, <1>2, Sizes, SmallDiv
  <2>3. MaxTime \div Milli \in Int
    BY <1>1, Sizes, DivMod
  <2>4. began \div Milli \in 0 .. Word - 1
    <3> HIDE DEF began
    <3> QED
      BY <2>2, <2>3, Sizes
  <2> QED
    BY <2>1, <2>4, Sizes, SmallMod
<1>4. AsTime(ftltime(d.SysUptime, d.UnixSecs, d.UnixNsecs, d.First)) = began \div Milli
  BY <1>1, <1>3 DEF AsTime, DecodedRight
<1>5. ConvertNfTime(d).tm_mday = localtime(r.at \div Milli).tm_mday
  BY <1>4 DEF ConvertNfTime, localtime, DayOf
<1>6. PICK x \in Direction : x \in Way(d.flow)
  BY DEF Way, Direction
<1>7. r.cells = Cells(d, localtime(r.at \div Milli))
  BY DEF MissInv, CellsRight, Decode
<1> QED
  BY <1>5, <1>6, <1>7 DEF Cells

\* With a time_t of 4 bytes, and as long as Unix time fits in them, what
\* InsertNfInfoToIpTable leaves out is left out for one of the stated reasons.
THEOREM MissesAreExplained ==
    ASSUME ~WideTime, Epoch <= MaxTime, MaxTime \div Milli < Word
    PROVE  Spec => []MissedForAReason
<1>1. Init => MissInv
  BY MissInit
<1>2. MissInv => MissedForAReason
  BY MissReason
<1> QED
  BY <1>1, <1>2, MissNext, PTL DEF Spec

-----------------------------------------------------------------------------
(* What is counted.  Only the day of the month is compared, so that it      *)
(* matters how far from now a start can seem to lie.                        *)

\* Multiplication keeps and reflects a strict order.
LEMMA MulLess ==
    ASSUME NEW m \in Nat \ {0}, NEW a \in Int, NEW b \in Int, m * a < m * b
    PROVE  a < b
<1> SUFFICES ASSUME a >= b
             PROVE  FALSE
  OBVIOUS
<1>1. a - b \in Nat
  OBVIOUS
<1>2. m * (a - b) \in Nat
  BY <1>1
<1>3. m * (a - b) = m * a - m * b
  OBVIOUS
<1> QED
  BY <1>2, <1>3

\* Numbers whose distance lies strictly between two multiples of m differ mod m.
LEMMA BetweenMultiples ==
    ASSUME NEW m \in Nat \ {0}, NEW q \in Int, NEW a \in Int, NEW b \in Int,
           m * q < a - b, a - b < m * (q + 1)
    PROVE  a % m # b % m
<1> SUFFICES ASSUME a % m = b % m
             PROVE  FALSE
  OBVIOUS
<1> DEFINE x == a \div m
           y == b \div m
           u == a % m
<1>1. /\ x \in Int /\ y \in Int /\ u \in Int
      /\ a = m * x + u /\ b = m * y + u
  BY DivMod
<1> HIDE DEF x, y, u
<1>2. m * (x - y) = m * x - m * y /\ m * x \in Int /\ m * y \in Int
  BY <1>1
<1>3. a - b = m * (x - y)
  BY <1>1, <1>2
<1>4. x - y \in Int
  BY <1>1
<1>5. q < x - y
  BY <1>3, <1>4, MulLess
<1>6. x - y < q + 1
  BY <1>3, <1>4, MulLess
<1> QED
  BY <1>4, <1>5, <1>6

DayMs == Milli * DaySecs

\* The sizes of a day and of a month.
LEMMA DaySizes ==
    DaySecs \in Nat \ {0} /\ DayMs \in Nat \ {0} /\ DaysPerMonth \in Nat \ {0}
<1>1. \A m, k \in Nat \ {0} : m * k \in Nat \ {0}
  OBVIOUS
<1> QED
  BY <1>1, FlowTimeAssumption DEF DaySecs, DayMs

\* A day begins at a multiple of its length.
LEMMA DayBounds ==
    ASSUME NEW t \in Nat
    PROVE  /\ DayOf(t) \in Int
           /\ DayMs * DayOf(t) <= t /\ t < DayMs * (DayOf(t) + 1)
<1> DEFINE s == t \div Milli
           d == s \div DaySecs
           u == t % Milli
           v == s % DaySecs
<1>1. /\ s \in Int /\ u \in 0 .. Milli - 1
      /\ t = Milli * s + u
  BY InSeconds
<1>2. /\ d \in Int /\ v \in 0 .. DaySecs - 1
      /\ s = DaySecs * d + v
  <2> HIDE DEF s
  <2> QED
    BY <1>1, DaySizes, DivMod
<1>3. DayOf(t) = d
  BY DEF DayOf
<1> HIDE DEF s, d, u, v
<1>4. Milli * s = DayMs * d + Milli * v
  <2>1. Milli * (DaySecs * d) = (Milli * DaySecs) * d
    BY <1>2, Sizes, DaySizes
  <2>2. Milli * (DaySecs * d + v) = Milli * (DaySecs * d) + Milli * v
    BY <1>2, Sizes, DaySizes
  <2> QED
    BY <1>2, <2>1, <2>2 DEF DayMs
<1>5. 0 <= Milli * v /\ Milli * v <= Milli * (DaySecs - 1)
  BY <1>2, Sizes, DaySizes
<1>6. /\ Milli * (DaySecs - 1) = DayMs - Milli
      /\ DayMs * (d + 1) = DayMs * d + DayMs
      /\ DayMs * d \in Int /\ Milli * v \in Int
  BY <1>2, Sizes, DaySizes DEF DayMs
<1> QED
  BY <1>1, <1>2, <1>3, <1>4, <1>5, <1>6, Sizes, DaySizes

\* How long a flow waits for its export and a datagram for its reader, and what
\* a wrap of the uptime adds to the start that a datagram states.
AgeRight(d) ==
    /\ d.at - d.flow.start \in 0 .. MaxAge
    /\ d.wrapped => d.at - d.flow.start = d.SysUptime - d.First + Word

DelayRight(d, t) == t - d.at \in 0 .. MaxDelay

CountInv ==
    /\ MissInv
    /\ \A f \in flows : clock - f.start \in 0 .. MaxAge
    /\ \A d \in datagrams : AgeRight(d) /\ DelayRight(d, clock)
    /\ \A r \in inserted : AgeRight(r.d) /\ DelayRight(r.d, r.at)

\* Of two moments less than a word apart, the uptime wraps between them once.
LEMMA OneWrap ==
    ASSUME NEW a \in Int, NEW b \in Int, a - b \in 0 .. Word - 1,
           a \div Word # b \div Word
    PROVE  a - b = (a % Word) - (b % Word) + Word
<1> DEFINE p == a \div Word
           q == b \div Word
           u == a % Word
           v == b % Word
<1>1. /\ p \in Int /\ u \in 0 .. Word - 1 /\ a = Word * p + u
      /\ q \in Int /\ v \in 0 .. Word - 1 /\ b = Word * q + v
      /\ p # q
  BY Sizes, DivMod
<1> HIDE DEF p, q, u, v
<1>2. /\ Word * (p - q) = Word * p - Word * q /\ p - q \in Int
      /\ Word * p \in Int /\ Word * q \in Int
  BY <1>1, Sizes
<1>3. a - b = Word * (p - q) + (u - v)
  BY <1>1, <1>2
<1>4. Word * (p - q) < Word * 2 /\ Word * (-1) < Word * (p - q)
  BY <1>1, <1>2, <1>3, Sizes
<1>5. p - q < 2 /\ -1 < p - q
  BY <1>2, <1>4, Sizes, MulLess
<1>6. p - q = 1
  BY <1>1, <1>5
<1>7. Word * 1 = Word
  BY Sizes
<1>8. a - b = u - v + Word
  BY <1>1, <1>3, <1>6, <1>7, Sizes
<1> QED
  BY <1>8 DEF u, v

\* What an export takes over of a flow, and what its wrap says of the uptimes.
LEMMA ExportAge ==
    ASSUME CountInv, Export, MaxAge < Word
    PROVE  \A d \in datagrams' : AgeRight(d) /\ DelayRight(d, clock)
<1>1. clock \in Nat /\ boot \in Nat /\ flows \subseteq Flow
  BY DEF CountInv, MissInv, TimeInv, TypeOK
<1>2. PICK f \in flows, v \in {5, 9}, rest \in 0 .. Nano - 1 : datagrams' =
              {[version   |-> v,
                SysUptime |-> Header(v, rest).SysUptime,
                UnixSecs  |-> Header(v, rest).UnixSecs,
                UnixNsecs |-> Header(v, rest).UnixNsecs,
                First     |-> Uptime(f.start),
                flow      |-> f,
                at        |-> clock,
                wrapped   |-> (f.start - boot) \div Word # (clock - boot) \div Word]}
  BY DEF Export
<1>3. f.start \in Nat /\ clock - f.start \in 0 .. MaxAge
  BY <1>1 DEF Flow, CountInv
<1> DEFINE a == clock - boot
           b == f.start - boot
<1>4. a \in Int /\ b \in Int /\ a - b = clock - f.start /\ a - b \in 0 .. Word - 1
  BY <1>1, <1>3, FlowTimeAssumption
<1>5. Uptime(clock) = a % Word /\ Uptime(f.start) = b % Word
  BY DEF Uptime
<1>6. (f.start - boot) \div Word # (clock - boot) \div Word
        => clock - f.start = Uptime(clock) - Uptime(f.start) + Word
  <2> SUFFICES ASSUME b \div Word # a \div Word
               PROVE  a - b = (a % Word) - (b % Word) + Word
    BY <1>4, <1>5
  <2> HIDE DEF a, b
  <2> QED
    BY <1>4, OneWrap
<1>7. clock - clock \in 0 .. MaxDelay
  BY <1>1, FlowTimeAssumption
<1> DEFINE d == [version   |-> v,
                 SysUptime |-> Uptime(clock),
                 UnixSecs  |-> (clock \div Milli) % Word,
                 UnixNsecs |-> IF v = 5 THEN Nano * (clock % Milli) + rest ELSE 0,
                 First     |-> Uptime(f.start),
                 flow      |-> f,
                 at        |-> clock,
                 wrapped   |-> (f.start - boot) \div Word # (clock - boot) \div Word]
<1>8. datagrams' = {d}
  BY <1>2 DEF Header
<1> HIDE DEF a, b
<1>9. AgeRight(d)
  BY <1>3, <1>6 DEF AgeRight
<1>10. DelayRight(d, clock)
  BY <1>7 DEF DelayRight
<1> HIDE DEF d
<1> QED
  BY <1>8, <1>9, <1>10

\* Nothing waits at first.
LEMMA CountInit == Epoch <= MaxTime /\ Init => CountInv
  BY MissInit DEF Init, CountInv

\* The clock does not pass the time at which a flow is exported or read.
LEMMA CountNext ==
    ASSUME MaxAge < Word
    PROVE  CountInv /\ [Next]_vars => CountInv'
<1> SUFFICES ASSUME CountInv, [Next]_vars
             PROVE  CountInv'
  OBVIOUS
<1>0. /\ MissInv' /\ clock \in Nat /\ flows \subseteq Flow /\ datagrams \subseteq Datagram
      /\ MaxAge \in Nat /\ MaxDelay \in Nat
  BY MissNext, FlowTimeAssumption DEF CountInv, MissInv, TimeInv, TypeOK
<1>1. CASE Pass
  <2>1. clock' = clock + 1 /\ UNCHANGED <<flows, datagrams>> /\ inserted' = {}
    BY <1>1 DEF Pass
  <2>2. ASSUME NEW f \in flows PROVE clock' - f.start \in 0 .. MaxAge
    <3>1. f.start \in Nat /\ clock - f.start \in 0 .. MaxAge /\ clock < f.start + MaxAge
      BY <1>0, <1>1 DEF Pass, CountInv, Flow
    <3> QED
      BY <1>0, <2>1, <3>1
  <2>3. ASSUME NEW d \in datagrams PROVE AgeRight(d) /\ DelayRight(d, clock')
    <3>1. d.at \in Nat /\ clock - d.at \in 0 .. MaxDelay /\ clock < d.at + MaxDelay
      BY <1>0, <1>1 DEF Pass, CountInv, DelayRight, Datagram
    <3>2. clock' - d.at \in 0 .. MaxDelay
      BY <1>0, <2>1, <3>1
    <3> QED
      BY <3>2 DEF CountInv, DelayRight
  <2> QED
    BY <1>0, <2>1, <2>2, <2>3 DEF CountInv
<1>2. CASE Observe
  <2>1. \A f \in flows' : f.start = clock
    BY <1>2 DEF Observe
  <2>2. clock - clock \in 0 .. MaxAge
    BY <1>0
  <2> QED
    BY <1>0, <1>2, <2>1, <2>2 DEF Observe, CountInv
<1>3. CASE Export
  <2>1. UNCHANGED clock /\ flows' \subseteq flows /\ inserted' = {}
    BY <1>3 DEF Export
  <2> QED
    BY <1>0, <1>3, <2>1, ExportAge DEF CountInv
<1>4. CASE Reboot
  BY <1>0, <1>4 DEF Reboot, CountInv
<1>5. CASE Lose
  BY <1>0, <1>5 DEF Lose, CountInv
<1>6. CASE Receive
  <2>1. /\ \A r \in inserted' : r.d \in datagrams /\ r.at = clock
        /\ datagrams' \subseteq datagrams /\ UNCHANGED <<clock, boot, flows>>
    BY <1>6 DEF Receive
  <2> QED
    BY <1>0, <2>1 DEF CountInv
<1>7. CASE UNCHANGED vars
  BY <1>0, <1>7 DEF vars, CountInv
<1> QED
  BY <1>1, <1>2, <1>3, <1>4, <1>5, <1>6, <1>7 DEF Next

\* The word, as a time, is no whole number of months: it is more than so many
\* months and a day, and the waiting, and less than another month without a day.
\* (49.7 days, of months of 31; an exporter may wait for more than two weeks.)
NoAlias ==
    \E q \in Nat :
        /\ DayMs * (DaysPerMonth * q + 1) + MaxAge + MaxDelay + Milli <= Word
        /\ Word <= DayMs * (DaysPerMonth * (q + 1) - 1)

\* A record whose uptime wrapped seems to begin a word later, which is no day
\* that the day of the month confuses with today.
LEMMA WrappedIsAnotherDay ==
    ASSUME NoAlias, NEW now \in Nat, NEW t \in Nat,
           t - now <= Word, Word - MaxAge - MaxDelay - Milli < t - now
    PROVE  DayOf(t) % DaysPerMonth # DayOf(now) % DaysPerMonth
<1>1. PICK q \in Nat :
        /\ DayMs * (DaysPerMonth * q + 1) + MaxAge + MaxDelay + Milli <= Word
        /\ Word <= DayMs * (DaysPerMonth * (q + 1) - 1)
  BY DEF NoAlias
<1> DEFINE a == DayOf(t)
           b == DayOf(now)
           x == DaysPerMonth * q
           y == DaysPerMonth * (q + 1)
<1>2. /\ a \in Int /\ DayMs * a <= t /\ t < DayMs * (a + 1)
      /\ b \in Int /\ DayMs * b <= now /\ now < DayMs * (b + 1)
  BY DayBounds
<1>3. x \in Int /\ y \in Int
  BY DaySizes
<1>4. /\ DayMs * (x + 1) + MaxAge + MaxDelay + Milli <= Word
      /\ Word <= DayMs * (y - 1)
  BY <1>1
<1> HIDE DEF a, b, x, y
<1>5. MaxAge \in Int /\ MaxDelay \in Int /\ Milli \in Int /\ Word \in Int /\ DayMs \in Nat \ {0}
  BY FlowTimeAssumption, DaySizes
<1>6. x < a - b
  <2>1. /\ DayMs * (a + 1) \in Int /\ DayMs * b \in Int /\ DayMs * (x + 1) \in Int
        /\ DayMs * (b + (x + 1)) = DayMs * b + DayMs * (x + 1)
    BY <1>2, <1>3, <1>5
  <2>2. DayMs * (b + (x + 1)) < DayMs * (a + 1)
    BY <1>2, <1>4, <1>5, <2>1
  <2>3. b + (x + 1) \in Int /\ a + 1 \in Int
    BY <1>2, <1>3
  <2>4. b + (x + 1) < a + 1
    BY <1>5, <2>2, <2>3, MulLess
  <2> QED
    BY <1>2, <1>3, <2>4
<1>7. a - b < y
  <2>1. /\ DayMs * a \in Int /\ DayMs * (b + 1) \in Int /\ DayMs * (y - 1) \in Int
        /\ DayMs * ((b + 1) + (y - 1)) = DayMs * (b + 1) + DayMs * (y - 1)
    BY <1>2, <1>3, <1>5
  <2>2. DayMs * a < DayMs * ((b + 1) + (y - 1))
    BY <1>2, <1>4, <1>5, <2>1
  <2>3. (b + 1) + (y - 1) \in Int
    BY <1>2, <1>3
  <2>4. a < (b + 1) + (y - 1)
    BY <1>2, <1>5, <2>2, <2>3, MulLess
  <2> QED
    BY <1>2, <1>3, <2>4
<1>8. a % DaysPerMonth # b % DaysPerMonth
  <2>1. DaysPerMonth * q < a - b /\ a - b < DaysPerMonth * (q + 1)
    BY <1>6, <1>7 DEF x, y
  <2>2. a \in Int /\ b \in Int /\ q \in Int /\ DaysPerMonth \in Nat \ {0}
    BY <1>2, DaySizes
  <2> QED
    BY <2>1, <2>2, BetweenMultiples, Zenon
<1> QED
  BY <1>8 DEF a, b

\* Of two moments not further apart than the waiting, the day of the month is
\* the same only if the day is.
LEMMA NearIsSameDay ==
    ASSUME NoAlias, NEW now \in Nat, NEW t \in Nat,
           t <= now, now - t < MaxAge + MaxDelay + Milli,
           DayOf(t) % DaysPerMonth = DayOf(now) % DaysPerMonth
    PROVE  DayOf(t) = DayOf(now)
<1>1. PICK q \in Nat :
        /\ DayMs * (DaysPerMonth * q + 1) + MaxAge + MaxDelay + Milli <= Word
        /\ Word <= DayMs * (DaysPerMonth * (q + 1) - 1)
  BY DEF NoAlias
<1> DEFINE a == DayOf(now)
           b == DayOf(t)
           x == DaysPerMonth * q
           n == DaysPerMonth
<1>2. /\ a \in Int /\ DayMs * a <= now /\ now < DayMs * (a + 1)
      /\ b \in Int /\ DayMs * b <= t /\ t < DayMs * (b + 1)
  BY DayBounds
<1>3. x \in Int /\ n \in Int /\ DaysPerMonth * (q + 1) = x + n
  BY DaySizes
<1>4. /\ DayMs * (x + 1) + MaxAge + MaxDelay + Milli <= Word
      /\ Word <= DayMs * (x + n - 1)
  BY <1>1, <1>3
<1>8. b % n = a % n
  OBVIOUS
<1> HIDE DEF a, b, x, n
<1>5. MaxAge \in Int /\ MaxDelay \in Int /\ Milli \in Int /\ Word \in Int /\ DayMs \in Nat \ {0}
  BY FlowTimeAssumption, DaySizes
<1>6. a - b < n
  <2>1. /\ DayMs * a \in Int /\ DayMs * (b + 1) \in Int /\ DayMs * (x + 1) \in Int
        /\ DayMs * (n - 2) \in Int
        /\ DayMs * (x + n - 1) = DayMs * (x + 1) + DayMs * (n - 2)
        /\ DayMs * ((b + 1) + (n - 2)) = DayMs * (b + 1) + DayMs * (n - 2)
    BY <1>2, <1>3, <1>5
  <2>2. MaxAge + MaxDelay + Milli <= DayMs * (n - 2)
    BY <1>4, <1>5, <2>1
  <2>3. DayMs * a < DayMs * ((b + 1) + (n - 2))
    BY <1>2, <1>5, <2>1, <2>2
  <2>4. (b + 1) + (n - 2) \in Int
    BY <1>2, <1>3
  <2>5. a < (b + 1) + (n - 2)
    BY <1>2, <1>5, <2>3, <2>4, MulLess
  <2> QED
    BY <1>2, <1>3, <2>5
<1>7. b - a < 1
  <2>1. DayMs * b < DayMs * (a + 1)
    BY <1>2, <1>5
  <2>2. b < a + 1
    BY <1>2, <1>5, <2>1, MulLess
  <2> QED
    BY <1>2, <2>2
<1>9. a = b
  <2> SUFFICES ASSUME 0 < a - b
               PROVE  FALSE
    BY <1>2, <1>7
  <2>1. n \in Nat \ {0} /\ n * 0 = 0 /\ n * (0 + 1) = n
    BY DaySizes DEF n
  <2>3. n * 0 < a - b /\ a - b < n * (0 + 1)
    BY <1>6, <2>1
  <2>4. a \in Int /\ b \in Int /\ 0 \in Int
    BY <1>2
  <2>2. a % n # b % n
    BY <2>1, <2>3, <2>4, BetweenMultiples, Zenon
  <2> QED
    BY <1>8, <2>2
<1> QED
  BY <1>9 DEF a, b

\* What is counted is counted on the day and in the hour in which it began.
LEMMA CountedRight ==
    ASSUME CountInv, ~WideTime, (MaxTime + Word) \div Milli < Word, NoAlias
    PROVE  CountedWhereItBegan
<1> SUFFICES ASSUME NEW r \in inserted, NEW c \in r.cells
             PROVE  /\ DayOf(r.at) = DayOf(Stated(r.d))
                    /\ c.hour = HourOf(Stated(r.d))
  BY DEF CountedWhereItBegan
<1> DEFINE d == r.d
           began == Stated(d)
           off == IF d.wrapped THEN Word ELSE 0
           read == began + off
<1>1. /\ d \in Datagram /\ d.flow.start \in Nat /\ d.at \in Nat /\ r.at \in Nat
      /\ d.flow.start <= MaxTime /\ d.flow.start >= Milli
      /\ d.SysUptime \in Nat /\ d.First \in Nat /\ d.wrapped \in BOOLEAN
      /\ DecodedRight(r) /\ AgeRight(d) /\ DelayRight(d, r.at)
      /\ MaxTime \in Nat /\ MaxAge \in Nat /\ MaxDelay \in Nat
  <2>1. r.d \in Datagram /\ r.at \in Nat /\ DecodedRight(r) /\ InTime(r.d.flow.start)
        /\ AgeRight(r.d) /\ DelayRight(r.d, r.at)
    BY DEF CountInv, MissInv, TimeInv, TypeOK, CellsRight
  <2>2. /\ r.d.flow.start \in Nat /\ r.d.at \in Nat /\ r.d.SysUptime \in Nat
        /\ r.d.First \in Nat /\ r.d.wrapped \in BOOLEAN
    BY <2>1 DEF Datagram, Flow
  <2> QED
    BY <2>1, <2>2, FlowTimeAssumption DEF InTime
<1>2. /\ began \in Nat /\ began <= MaxTime
      /\ d.flow.start - began \in 0 .. Milli - 1
  <2>1. d.at % Milli \in 0 .. Milli - 1
    BY <1>1, InSeconds
  <2> QED
    BY <2>1, <1>1, Sizes DEF Stated
<1>3. off \in Int /\ off \in {0, Word} /\ read \in Nat /\ read <= MaxTime + Word
  BY <1>1, <1>2, Sizes
<1>4. d.at - d.flow.start = d.SysUptime - d.First + off
  BY <1>1 DEF DecodedRight, HeaderRight, AgeRight
<1>5. r.secs = read \div Milli
  <2>1. r.secs = (read \div Milli) % Word
    <3> HIDE DEF off
    <3> QED
      BY <1>1, <1>3, <1>4, RecordRead
  <2>2. MaxTime + Word \in Nat
    BY <1>1, Sizes
  <2>3. read \div Milli \in 0 .. ((MaxTime + Word) \div Milli)
    <3> HIDE DEF read
    <3> QED
      BY <1>3, <2>2, Sizes, SmallDiv
  <2>4. (MaxTime + Word) \div Milli \in Int
    BY <2>2, Sizes, DivMod
  <2>5. read \div Milli \in 0 .. Word - 1
    <3> HIDE DEF read
    <3> QED
      BY <2>3, <2>4, Sizes
  <2> QED
    BY <2>1, <2>5, Sizes, SmallMod
<1>6. AsTime(ftltime(d.SysUptime, d.UnixSecs, d.UnixNsecs, d.First)) = read \div Milli
  BY <1>1, <1>5 DEF AsTime, DecodedRight
<1>7. c \in Cells(d, localtime(r.at \div Milli))
  BY DEF CountInv, MissInv, CellsRight
<1>8. /\ DayOf(read) % DaysPerMonth = DayOf(r.at) % DaysPerMonth
      /\ c.hour = HourOf(read)
  BY <1>6, <1>7 DEF Cells, ConvertNfTime, localtime, DayOf, HourOf
<1>9. r.at - began \in 0 .. MaxAge + MaxDelay + Milli - 1
  <2>1. d.at - d.flow.start \in 0 .. MaxAge /\ r.at - d.at \in 0 .. MaxDelay
    BY <1>1 DEF AgeRight, DelayRight
  <2> HIDE DEF began
  <2> QED
    BY <1>1, <1>2, <2>1, Sizes
<1> HIDE DEF began
<1>10. ~d.wrapped
  <2> SUFFICES ASSUME d.wrapped
               PROVE  FALSE
    OBVIOUS
  <2>1. read = began + Word
    OBVIOUS
  <2> HIDE DEF read
  <2>2. read - r.at <= Word /\ Word - MaxAge - MaxDelay - Milli < read - r.at
    BY <1>1, <1>2, <1>9, <2>1, Sizes
  <2> QED
    BY <1>1, <1>3, <1>8, <2>2, WrappedIsAnotherDay
<1>11. read = began
  BY <1>2, <1>10
<1>12. DayOf(began) = DayOf(r.at)
  <2>1. began <= r.at /\ r.at - began < MaxAge + MaxDelay + Milli
    BY <1>1, <1>2, <1>9, Sizes
  <2>2. DayOf(began) % DaysPerMonth = DayOf(r.at) % DaysPerMonth
    BY <1>8, <1>11
  <2> QED
    BY <1>1, <1>2, <2>1, <2>2, NearIsSameDay
<1> QED
  BY <1>8, <1>11, <1>12 DEF began

\* With a time_t of 4 bytes: flows are counted only on the day they began, and
\* in its hour, also across a restart of the exporter or a wrap of its uptime.
THEOREM CountedOnTheirDay ==
    ASSUME ~WideTime, Epoch <= MaxTime, (MaxTime + Word) \div Milli < Word,
           NoAlias
    PROVE  Spec => []CountedWhereItBegan
<1>1. MaxAge < Word
  <2>1. PICK q \in Nat :
          DayMs * (DaysPerMonth * q + 1) + MaxAge + MaxDelay + Milli <= Word
    BY DEF NoAlias
  <2>2. DayMs * (DaysPerMonth * q + 1) \in Nat
    <3>1. \A m, k \in Nat : m * (k + 1) \in Nat
      OBVIOUS
    <3>2. DaysPerMonth * q \in Nat
      BY DaySizes
    <3> QED
      BY <3>1, <3>2, DaySizes
  <2> QED
    BY <2>1, <2>2, FlowTimeAssumption
<1>2. Init => CountInv
  BY CountInit
<1>3. CountInv /\ [Next]_vars => CountInv'
  BY <1>1, CountNext
<1>4. CountInv => CountedWhereItBegan
  BY CountedRight
<1> QED
  BY <1>2, <1>3, <1>4, PTL DEF Spec
=============================================================================
