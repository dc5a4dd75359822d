------------------------------- MODULE MCQuery ------------------------------
(* A small instance of Query: four networks, two of which overlap, and files *)
(* with as many entries as today's table, fewer and more.                    *)
EXTENDS Query

Addresses == {1, 2, 3, 4}

\* 3 lies in two networks, and one of its two entries is never used; 4 lies in
\* none today.
Networks == [nets  |-> [a \in Addresses |-> CASE a = 3 -> 2 [] a = 4 -> 0 [] OTHER -> 1],
             slots |-> <<1, 2, 3, 0>>]

Counted == {<<5, 3, 5, 0>>, <<0, 3, 2, 0>>}

Apart(s) == [a \in Addresses |-> IF \E k \in DOMAIN s : s[k] = a THEN 1 ELSE 0]

Files == {[nets |-> Apart(s), slots |-> s,
           totals |-> [k \in DOMAIN s |-> IF s[k] = 0 THEN 0 ELSE IF k = 2 THEN 5 ELSE 3]] :
            s \in {<<1, 2, 3, 4>>, <<3, 1>>, <<4, 1, 2, 3, 0>>}}

\* A cut before the networks leaves today's (the child's list behind them is of
\* zeroes, and a network of zeroes leads every address behind the table); one in
\* the middle of them the file's first ones and then today's.
Leftovers == {[nets |-> Networks.nets, slots |-> <<1, 2, 3, 0>>, count |-> 5],
              [nets |-> Apart(<<1, 2, 3, 0, 4>>), slots |-> <<1, 2, 3, 0, 4>>, count |-> 0],
              [nets |-> Apart(<<4, 2, 1>>), slots |-> <<4, 2, 0, 0, 0, 1>>, count |-> 5]}
Garbage == {[addr |-> 2, total |-> 4]}

Whitelists == {<<>>, <<1, 2>>, <<3, 1, 2>>, <<0, 2, 3>>}
NegativeOne == -1
Arguments == {NegativeOne, 0, 1, 2, 3, 4, Bad}
=============================================================================
