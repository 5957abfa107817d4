---------------------------- MODULE ResultLedger ----------------------------
(***************************************************************************)
(* What a resumable experiment promises, without threads, files, budget or *)
(* signals: a ledger of answered pairs, and the set of pairs the current   *)
(* process has been given.  A pair that is in the ledger is never given    *)
(* out again.  The ledger only grows, but for one entry at a time that may *)
(* be in doubt: the one a process was recording when it died.              *)
(***************************************************************************)
CONSTANT Pairs          \* the (task, condition) pairs of the experiment

VARIABLES ledger,       \* pairs with a recorded answer
          open,         \* pairs the current process still has to deal with
          doubt         \* entries of the ledger that may yet be lost

vars == <<ledger, open, doubt>>

Init == /\ ledger = {}
        /\ open = {}
        /\ doubt = {}

\* A process starts and is given every pair that has no recorded answer.
Open == /\ open = {}
        /\ open' = Pairs \ ledger
        /\ UNCHANGED <<ledger, doubt>>

\* The answer to an open pair is recorded for good.
Commit(p) == /\ p \in open
             /\ doubt = {}
             /\ ledger' = ledger \cup {p}
             /\ open' = open \ {p}
             /\ UNCHANGED doubt

\* The process dies recording it.
HalfCommit(p) == /\ p \in open
                 /\ doubt = {}
                 /\ ledger' = ledger \cup {p}
                 /\ open' = {}
                 /\ doubt' = {p}

\* Some open pairs are given up: an error row, a cancellation, an exit.
Drop == /\ open' \subseteq open
        /\ UNCHANGED <<ledger, doubt>>

\* Whatever is recorded next takes the entry in doubt with it.
Lose == /\ doubt # {}
        /\ ledger' = ledger \ doubt
        /\ open' \subseteq open
        /\ doubt' = {}

Next == \/ Open
        \/ \E p \in Pairs : Commit(p) \/ HalfCommit(p)
        \/ Drop \/ Lose

Spec == Init /\ [][Next]_vars

=============================================================================
