---------------------------- MODULE JobAttempts ----------------------------
(***************************************************************************)
(* What the refresh scheduler promises of its jobs, without queue, timers, *)
(* goroutines or tables: an attempt is made by one worker; an attempt that *)
(* failed waits for at most one retry, which is of the same symbol and     *)
(* counts one more; the count ends it.  A retry may be lost, and a count   *)
(* starts again when the job's row is gone or cannot be read.              *)
(***************************************************************************)
EXTENDS Naturals

CONSTANTS Jobs, Syms, Limit

VARIABLES
    runs,      \* attempts under way, [job, sym, tries]
    waits      \* failed attempts whose retry is pending

vars == <<runs, waits>>

Attempt(j, s, n) == [job |-> j, sym |-> s, tries |-> n]

Init == runs = {} /\ waits = {}

(* Ids are used again once their attempt is over.                           *)
Free(j) == \A a \in runs \cup waits : a.job # j

Begin(j, s) ==
    /\ Free(j)
    /\ runs' = runs \cup {Attempt(j, s, 0)}
    /\ UNCHANGED waits

Retry(a, j) ==
    /\ a \in waits /\ (Free(j) \/ j = a.job)
    /\ \E n \in {0, a.tries + 1} : runs' = runs \cup {Attempt(j, a.sym, n)}
    /\ waits' = waits \ {a}

End(a) ==
    /\ a \in runs
    /\ runs' = runs \ {a}
    /\ UNCHANGED waits

Fail(a) ==
    /\ a \in runs /\ a.tries < Limit
    /\ runs' = runs \ {a}
    /\ \E n \in {0, a.tries} : waits' = waits \cup {Attempt(a.job, a.sym, n)}

Lose(a) ==
    /\ a \in waits
    /\ waits' = waits \ {a}
    /\ UNCHANGED runs

(* The rows of a symbol are deleted, and with them the counts.              *)
Forget(s) ==
    /\ waits' = {IF a.sym = s THEN Attempt(a.job, s, 0) ELSE a : a \in waits}
    /\ UNCHANGED runs

Crash == runs' = {} /\ waits' = {}

Next ==
    \/ \E j \in Jobs, s \in Syms : Begin(j, s)
    \/ \E a \in waits : Lose(a) \/ \E j \in Jobs : Retry(a, j)
    \/ \E a \in runs : End(a) \/ Fail(a)
    \/ \E s \in Syms : Forget(s)
    \/ Crash

Spec == Init /\ [][Next]_vars

-----------------------------------------------------------------------------
(* A job is under way once, runs or waits but never both, and is attempted  *)
(* again as often as the limit says.                                        *)
Promise ==
    /\ \A a, b \in runs \cup waits : a.job = b.job => a = b
    /\ runs \cap waits = {}
    /\ \A a \in runs : a.tries <= Limit
    /\ \A a \in waits : a.tries < Limit
=============================================================================
