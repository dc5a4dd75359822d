------------------------------ MODULE MCIpIndex -----------------------------
(* Small instances of IpIndex: addresses of two octets of three bits.       *)
EXTENDS IpIndex

Lists(S, max) == UNION {[0 .. n - 1 -> S] : n \in 1 .. max}
Nets(ns, p) == [net : ns, prefix : {p}]

\* Lists of whole-octet networks of one length: the counterpart of lists of
\* /8, /16 or /24, one network stated twice or written with host bits set (9),
\* and of /32, which a prefix of 0 comes to as well, as one of 40 comes to /8;
\* and two networks whose addresses are as many as there are, as two /1 are.
OctetConfigs ==
    Lists(Nets({0, 1, 9}, 3), 3) \cup Lists(Nets({3, 17}, 6), 2)
    \cup [0 .. 1 -> Nets({0, 1}, 1)] \cup Lists(Nets({5}, 0) \cup Nets({1}, 9), 1)
OctetMyNet == [net |-> 2, prefix |-> 3]

\* The first and the last host of networks, and addresses of none.
Hosts == {0, 1, 3, 5, 9, 17, 26, 56, 57, 63}
=============================================================================
