------------------------------ MODULE DayLedger -----------------------------
(***************************************************************************)
(* What flowstatd promises with its table and its files: a ledger with one *)
(* page for each day.  Flows are entered on the open page, which is in     *)
(* memory; pages are saved in the book, at any time and for good before    *)
(* the next page is begun; a crash loses the open page and, if it comes in *)
(* the middle of a save, what the book has of it.                          *)
(*                                                                         *)
(* DayStore implements it (KeepsLedger) where every hour has traffic and   *)
(* signals keep away from midnight and from each other.                    *)
(***************************************************************************)
EXTENDS Naturals

CONSTANTS
    Day,    \* the days, from 0
    Flow    \* records with the day on which the flow began

VARIABLES
    today,  \* the day of the calendar
    open,   \* {the day of the open page}, or {} if the ledger is closed
    page,   \* the flows on the open page
    book    \* [Day -> {the flows of the saved page}, or {} if the save is cut]

lvars == <<today, open, page, book>>

Of(d) == {f \in Flow : f.day = d}

\* The page that may be saved: the open one, or today's if none is open.
Writable == IF open = {} THEN {today} ELSE open

Midnight ==
    /\ today + 1 \in Day
    /\ open \subseteq {today}
    /\ today' = today + 1
    /\ UNCHANGED <<open, page, book>>

\* The open page goes on with what was saved of it; of a cut save, with anything.
Open ==
    /\ open = {}
    /\ \E d \in Day :
         /\ d <= today /\ today <= d + 1
         /\ open' = {d}
         /\ page' \subseteq Of(d)
         /\ \A saved \in book[d] : page' = saved
    /\ UNCHANGED <<today, book>>

Enter ==
    /\ \E d \in open : \E f \in Of(d) : page' = page \cup {f}
    /\ UNCHANGED <<today, open, book>>

BeginSave ==
    /\ \E d \in Writable : book' = [book EXCEPT ![d] = {}]
    /\ UNCHANGED <<today, open, page>>

EndSave ==
    /\ \E d \in Writable : \E saved \in SUBSET Of(d) :
         /\ book[d] = {}
         /\ book' = [book EXCEPT ![d] = {saved}]
    /\ UNCHANGED <<today, open, page>>

\* Only a page that is in the book as it stands makes room for the next.
TurnPage ==
    /\ \E d \in open :
         /\ book[d] = {page}
         /\ open' = {d + 1}
         /\ today = d + 1
    /\ page' = {}
    /\ UNCHANGED <<today, book>>

\* An orderly end saves the whole page.
Close ==
    /\ \E d \in open : book[d] = {} /\ book' = [book EXCEPT ![d] = {page}]
    /\ open' = {}
    /\ page' = {}
    /\ UNCHANGED today

Crash ==
    /\ open # {}
    /\ open' = {}
    /\ page' = {}
    /\ UNCHANGED <<today, book>>

Init ==
    /\ today = 0
    /\ open = {}
    /\ page = {}
    /\ book = [d \in Day |-> {{}}]

Next == Midnight \/ Open \/ Enter \/ BeginSave \/ EndSave \/ TurnPage \/ Close \/ Crash

Spec == Init /\ [][Next]_lvars

=============================================================================
