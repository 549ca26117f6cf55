----------------------------- MODULE AtomicMove -----------------------------
(***************************************************************************)
(* What `optix data migrate` promises of a database that is in use,        *)
(* without staging directory, checksums, links and syncs: the destination  *)
(* gets all that was committed when it began in one step or nothing at     *)
(* all, never in the place of another program's database; who is told of   *)
(* a move has it and a copy; and what is sure survives a loss of power.    *)
(***************************************************************************)
EXTENDS Naturals

VARIABLES
    source,     \* commits of the database that is moved, which goes on
    floor,      \* ... when the move began, 0 before
    home,       \* the database at the destination
    sure,       \* would it survive a loss of power
    kept,       \* the copy that is kept beside it
    told        \* what the user was told, or "nothing"; "killed": nobody is left

vars == <<source, floor, home, sure, kept, told>>

Nobody   == [by |-> "nobody", commits |-> 0, whole |-> FALSE]
Others   == [by |-> "other", commits |-> 0, whole |-> TRUE]
Moved(n) == [by |-> "migrate", commits |-> n, whole |-> TRUE]
NoCopy   == [commits |-> 0, whole |-> FALSE]
Copy(n)  == [commits |-> n, whole |-> TRUE]

Init ==
    /\ source = 1 /\ floor = 0 /\ told = "nothing"
    /\ home = Nobody /\ sure = FALSE /\ kept = NoCopy

Commit == source' = source + 1 /\ UNCHANGED <<floor, home, sure, kept, told>>

Begin ==
    /\ told = "nothing" /\ floor = 0 /\ home = Nobody
    /\ floor' = source
    /\ UNCHANGED <<source, home, sure, kept, told>>

Stage(n) ==
    /\ told = "nothing" /\ home.by # "migrate"
    /\ kept' = Copy(n)
    /\ UNCHANGED <<source, floor, home, sure, told>>

Move(n) ==
    /\ told = "nothing" /\ floor > 0 /\ home = Nobody /\ kept = Copy(n)
    /\ home' = Moved(n)
    /\ UNCHANGED <<source, floor, sure, kept, told>>

(* Success, or a warning that the last sync failed.                         *)
Settle ==
    /\ told = "nothing" /\ home.by = "migrate"
    /\ \/ told' = "done" /\ sure' = TRUE
       \/ told' = "unsure" /\ UNCHANGED sure
    /\ UNCHANGED <<source, floor, home, kept>>

Fail ==
    /\ told = "nothing" /\ home.by # "migrate"
    /\ told' = "failed" /\ kept' = NoCopy
    /\ UNCHANGED <<source, floor, home, sure>>

(* The process is killed, or the machine stops.                             *)
Stop ==
    /\ told' = "killed"
    /\ home' \in {home} \cup IF home.by = "migrate" /\ ~sure THEN {Nobody} ELSE {}
    /\ kept' \in {kept, [kept EXCEPT !.whole = FALSE], NoCopy}
    /\ UNCHANGED <<source, floor, sure>>

Take ==
    /\ home = Nobody /\ home' = Others
    /\ UNCHANGED <<source, floor, sure, kept, told>>

Next ==
    \/ Commit \/ Begin \/ Settle \/ Fail \/ Stop \/ Take
    \/ \E n \in floor .. source : Stage(n) \/ Move(n)

Spec == Init /\ [][Next]_vars

-----------------------------------------------------------------------------
(* What a user may conclude, whatever happened since: a database of the     *)
(* move is complete, and has its copy until a crash; an error left none; a  *)
(* success is sure ...                                                      *)
Promise ==
    /\ home.by = "migrate" => home.whole /\ home.commits \in floor .. source
    /\ home.by = "migrate" /\ told # "killed" => kept = Copy(home.commits)
    /\ told = "failed" => home.by # "migrate"
    /\ told \in {"done", "unsure"} => home.by = "migrate"
    /\ told = "done" => sure
    /\ sure => home.by = "migrate"

(* ... and what is sure is there to stay, whatever stops or is started.     *)
Stay == sure => home' = home
Stays == [][Stay]_vars
=============================================================================
