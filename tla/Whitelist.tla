------------------------------ MODULE Whitelist -----------------------------
(***************************************************************************)
(* LoadWhitelist: the addresses of the configuration that answers hide, as *)
(* the array the queries scan.  The array ends, for a reader, at its first *)
(* zero.                                                                   *)
(*                                                                         *)
(* An entry of the configuration is an address or 0, which stands for      *)
(* whatever is not a string or not an address.                             *)
(***************************************************************************)
EXTENDS Naturals, Sequences, FiniteSets

CONSTANTS
    Addr,           \* addresses, as numbers above 0
    MAX_WHITELIST,  \* 50 in the code
    Lists           \* the values of whitelistIps that are loaded

Entry == Addr \cup {0}
Index == 0 .. MAX_WHITELIST - 1

ASSUME WhitelistAssumption ==
    /\ Addr \subseteq Nat \ {0}
    /\ MAX_WHITELIST \in Nat \ {0}
    /\ Lists \subseteq Seq(Entry)

VARIABLES
    nets,           \* rcvNetList: how many of its networks contain an address
    whitelist,      \* the global array
    loading,        \* LoadWhitelist is running
    whitelistIps,   \* the list it loads, or loaded last
    i               \* its index, into the list and into the array

wvars == <<nets, whitelist, loading, whitelistIps, i>>

Zeroes == [p \in Index |-> 0]

WhitelistType ==
    /\ nets \in [Addr -> Nat]
    /\ whitelist \in [Index -> Entry]
    /\ loading \in BOOLEAN
    /\ whitelistIps \in Lists
    /\ i \in Nat

Matches(a) == IF a \in Addr THEN nets[a] ELSE 0

\* From the memset on; a list that is missing or not an array changes nothing.
Load ==
    /\ ~loading
    /\ loading' = TRUE
    /\ whitelistIps' \in Lists
    /\ whitelist' = Zeroes
    /\ i' = 0
    /\ UNCHANGED nets

\* Mutant of LoadEntry: one place for each address, one step of the index.
LoadEntry_Once ==
    /\ loading
    /\ i < MAX_WHITELIST /\ i < Len(whitelistIps)
    /\ whitelist' = IF Matches(whitelistIps[i + 1]) > 0
                    THEN [whitelist EXCEPT ![i] = whitelistIps[i + 1]]
                    ELSE whitelist
    /\ i' = i + 1
    /\ UNCHANGED <<nets, loading, whitelistIps>>

\* One turn of the loop over the list: the inner loop writes the address once
\* for each network that contains it, and each time moves the index on, before
\* the outer loop does.  (Writes past the array go to other variables.)
LoadEntry ==
    /\ loading
    /\ i < MAX_WHITELIST /\ i < Len(whitelistIps)
    /\ LET a == whitelistIps[i + 1]
       IN  /\ whitelist' = [p \in Index |->
                              IF i <= p /\ p < i + Matches(a) THEN a ELSE whitelist[p]]
           /\ i' = i + Matches(a) + 1
    /\ UNCHANGED <<nets, loading, whitelistIps>>

LoadDone ==
    /\ loading
    /\ i >= MAX_WHITELIST \/ i >= Len(whitelistIps)
    /\ loading' = FALSE
    /\ UNCHANGED <<nets, whitelist, whitelistIps, i>>

\* ImportRecord puts the networks of a file in the place of the stated ones.
NewNets ==
    /\ ~loading
    /\ nets' \in [Addr -> Nat]
    /\ UNCHANGED <<whitelist, loading, whitelistIps, i>>

\* main() loads the list of the configuration first.
WhitelistStart ==
    /\ whitelist = Zeroes
    /\ loading = TRUE
    /\ whitelistIps \in Lists
    /\ i = 0

WhitelistInit == WhitelistStart /\ nets \in [Addr -> Nat]

WhitelistNext == Load \/ LoadEntry \/ LoadDone \/ NewNets

WhitelistSpec == WhitelistInit /\ [][WhitelistNext]_wvars

\* What a reader finds: the addresses before the first zero.
Hidden ==
    {a \in Addr : \E p \in Index :
        /\ whitelist[p] = a
        /\ \A q \in 0 .. p : whitelist[q] # 0}

-----------------------------------------------------------------------------
(* Properties *)

\* The first address of the list, if it lies in a stated network.
First == {a \in Addr : nets[a] > 0 /\ whitelistIps # <<>> /\ whitelistIps[1] = a}

\* The gaps that the twice advanced index leaves end the list for its readers:
\* what is hidden is the first address of the list and no other, however long
\* the list is and however the networks overlap.
OnlyFirstHidden == [][LoadDone => Hidden' = First']_wvars

=============================================================================
