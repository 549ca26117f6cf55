---------------------------- MODULE TradeJournal ----------------------------
(***************************************************************************)
(* The trade journal: the server's ticker, the web UI's sync button and    *)
(* the CLI copy the executions IB still remembers into SQLite and stamp    *)
(* one state row (server/journal_svc.go, datastore/sqlite/journal.go).     *)
(*                                                                         *)
(* IB forgets an execution after its window (seven days); the pages warn   *)
(* when the last stamp is older than the gap (six days).  Time is counted  *)
(* in half days: a sync takes less than one of them.                       *)
(***************************************************************************)
EXTENDS Naturals

CONSTANTS
    Servers,    \* syncs inside the server: its ticker and the web UI's button
    Commands,   \* runs of `optix journal ...`, with a connection of their own
    Execs,      \* executions
    Window,     \* how long IB reports an execution
    Gap,        \* GapWarningHours
    MaxNow      \* bound of the model: last instant of a run

(* "chosen so we warn one full day before IBKR's 7-day execution-history    *)
(* window slips past the last sync": 12 + 2 <= 14.                          *)
ASSUME TimesAssumption ==
    /\ Window \in Nat /\ Gap \in Nat /\ MaxNow \in Nat \ {0}
    /\ Gap + 2 <= Window

Syncers == Servers \cup Commands
Nobody == "nobody"
ASSUME SyncersAssumption == Nobody \notin Syncers
Never == 0      \* time.Time{}: an execution to come, a journal never synced

VARIABLES
    now,
    filled,     \* when an execution happened
    inUse,      \* who holds client ID 0, IB's master: it has no fallback ID
    journal,    \* trade_journal, by exec_id
    row,        \* trade_journal_sync_state: last_sync_at, is there a last_error
    pc, answer, \* of a running SyncExecutions: its place, what IB reported
    read,       \* the last_sync_at that a failing sync carries over
    alive,      \* its context
    late,       \* half days begun since its start
    warned,     \* history: executions in IB's window under a gap warning
    cut         \* history: executions left out by an answer without an error

syncVars == <<pc, answer, read, alive, late>>
vars == <<now, filled, inUse, journal, row, syncVars, warned, cut>>

Remembered(e) == filled[e] # Never /\ now - filled[e] <= Window
GapWarning == row.at = Never \/ now - row.at > Gap

Init ==
    /\ now = 1
    /\ filled = [e \in Execs |-> Never]
    /\ inUse = Nobody
    /\ journal = {}
    /\ row = [at |-> Never, error |-> FALSE]
    /\ pc = [s \in Syncers |-> "idle"]
    /\ answer = [s \in Syncers |-> {}]
    /\ read = [s \in Syncers |-> Never]
    /\ alive = [s \in Syncers |-> TRUE]
    /\ late = [s \in Syncers |-> 0]
    /\ warned = {} /\ cut = {}

Goto(s, place) == pc' = [pc EXCEPT ![s] = place]

(* A command keeps its connection until it ends, the server's adapter for   *)
(* one GetExecutions.                                                       *)
HangUp(s) == inUse' = IF inUse = s THEN Nobody ELSE inUse
HangUpServer(s) == IF s \in Servers THEN HangUp(s) ELSE UNCHANGED inUse

(* SyncExecutions returns, or was never reached.                            *)
Return(s) ==
    /\ Goto(s, "idle") /\ HangUp(s)
    /\ answer' = [answer EXCEPT ![s] = {}]
    /\ read' = [read EXCEPT ![s] = Never]
    /\ alive' = [alive EXCEPT ![s] = TRUE]
    /\ late' = [late EXCEPT ![s] = 0]

-----------------------------------------------------------------------------
Start(s) ==
    /\ pc[s] = "idle"
    /\ Goto(s, "connect")
    /\ UNCHANGED <<filled, inUse, journal, row, answer, read, alive, late, cut>>

(* The ticker's context ends with the server, the button's with the browser. *)
CtxDone(s) ==
    /\ s \in Servers /\ pc[s] # "idle" /\ alive[s]
    /\ alive' = [alive EXCEPT ![s] = FALSE]
    /\ UNCHANGED <<filled, inUse, journal, row, pc, answer, read, late, cut>>

Connect(s) ==
    /\ pc[s] = "connect" /\ alive[s]
    /\ inUse = Nobody
    /\ inUse' = s
    /\ Goto(s, "fetch")
    /\ UNCHANGED <<filled, journal, row, answer, read, alive, late, cut>>

(* Client ID in use, no gateway or a dead context: Yahoo Finance takes over *)
(* and has no executions, or nothing takes over.                            *)
NoGateway(s) ==
    /\ pc[s] = "connect"
    /\ Goto(s, "failed")
    /\ UNCHANGED <<filled, inUse, journal, row, answer, read, alive, late, cut>>

(* A command without any broker ends before SyncExecutions.                 *)
NoBroker(s) ==
    /\ pc[s] = "connect" /\ s \in Commands
    /\ Return(s)
    /\ UNCHANGED <<filled, journal, row, cut>>

(* GetExecutions answers with all IB remembers, or, when an IB error ended  *)
(* the list and its select took done, with what had arrived.                *)
Fetch(s) ==
    /\ pc[s] = "fetch"
    /\ LET reported == {e \in Execs : Remembered(e)}
       IN \E got \in SUBSET reported :
            /\ answer' = [answer EXCEPT ![s] = got]
            /\ cut' = cut \cup (reported \ got)
    /\ HangUpServer(s) /\ Goto(s, "upsert")
    /\ UNCHANGED <<filled, journal, row, read, alive, late>>

FetchFails(s) ==
    /\ pc[s] = "fetch"
    /\ HangUpServer(s) /\ Goto(s, "failed")
    /\ UNCHANGED <<filled, journal, row, answer, read, alive, late, cut>>

(* A failing sync reads the row to keep its last_sync_at; a read that fails *)
(* gives the zero time ...                                                  *)
ReadRow(s) ==
    /\ pc[s] = "failed"
    /\ \/ alive[s] /\ read' = [read EXCEPT ![s] = row.at]
       \/ read' = [read EXCEPT ![s] = Never]
    /\ Goto(s, "report")
    /\ UNCHANGED <<filled, inUse, journal, row, answer, alive, late, cut>>

RowFromNow(s) == row' = [at |-> now, error |-> TRUE]   \* mutant: time.Now()

(* ... and writes it back with the error, unless that fails too.            *)
RowOfFailure(s) == row' = [at |-> read[s], error |-> TRUE]

ReportFailure(s) ==
    /\ pc[s] = "report"
    /\ \/ alive[s] /\ RowOfFailure(s)
       \/ UNCHANGED row
    /\ Return(s)
    /\ UNCHANGED <<filled, journal, cut>>

(* One transaction: all rows or none; nothing to write needs no context.    *)
UpsertExecutions(s) ==
    /\ pc[s] = "upsert" /\ (alive[s] \/ answer[s] = {})
    /\ journal' = journal \cup answer[s]
    /\ Goto(s, "stamp")
    /\ UNCHANGED <<filled, inUse, row, answer, read, alive, late, cut>>

(* An upsert that fails is returned, and the row does not tell.             *)
UpsertFails(s) ==
    /\ pc[s] = "upsert"
    /\ Return(s)
    /\ UNCHANGED <<filled, journal, row, cut>>

Stamp(s) ==
    /\ pc[s] = "stamp"
    /\ \/ alive[s] /\ row' = [at |-> now, error |-> FALSE]
       \/ UNCHANGED row
    /\ Return(s)
    /\ UNCHANGED <<filled, journal, cut>>

Fill(e) ==
    /\ filled[e] = Never
    /\ filled' = [filled EXCEPT ![e] = now]
    /\ UNCHANGED <<inUse, journal, row, syncVars, cut>>

-----------------------------------------------------------------------------
Sync(s) ==
    \/ Start(s) \/ CtxDone(s) \/ Connect(s) \/ NoGateway(s) \/ NoBroker(s)
    \/ Fetch(s) \/ FetchFails(s) \/ ReadRow(s) \/ ReportFailure(s)
    \/ UpsertExecutions(s) \/ UpsertFails(s) \/ Stamp(s)

(* Half a day passes, at most one in a sync (GetExecutions alone has a      *)
(* timeout of 15 seconds).                                                  *)
Busy(s) == pc[s] # "idle"
Tick ==
    /\ now < MaxNow
    /\ \A s \in Syncers : Busy(s) => late[s] = 0
    /\ now' = now + 1
    /\ late' = [s \in Syncers |-> IF Busy(s) THEN 1 ELSE late[s]]
    /\ UNCHANGED <<filled, inUse, journal, row, pc, answer, read, alive, cut>>

Warn == warned' = warned \cup {e \in Execs : Remembered(e)' /\ GapWarning'}

Step ==
    \/ UNCHANGED now /\ \E s \in Syncers : Sync(s)
    \/ UNCHANGED now /\ \E e \in Execs : Fill(e)
    \/ Tick

Next == Step /\ Warn

Spec == Init /\ [][Next]_vars

-----------------------------------------------------------------------------
TypeOK ==
    /\ now \in 1 .. MaxNow
    /\ filled \in [Execs -> 0 .. now]
    /\ inUse \in Syncers \cup {Nobody}
    /\ journal \subseteq Execs
    /\ row \in [at : 0 .. now, error : BOOLEAN]
    /\ pc \in [Syncers -> {"idle", "connect", "fetch", "failed", "report",
                           "upsert", "stamp"}]
    /\ answer \in [Syncers -> SUBSET Execs]
    /\ read \in [Syncers -> 0 .. now]
    /\ alive \in [Syncers -> BOOLEAN]
    /\ late \in [Syncers -> 0 .. 1]
    /\ warned \subseteq Execs /\ cut \subseteq Execs

(* An execution that IB forgot before it reached the journal was preceded   *)
(* by a gap warning while it could still be fetched: whatever syncs overlap *)
(* or fail, last_sync_at never claims more than was fetched.  The exception *)
(* is an answer that an IB error cut short and GetExecutions returned as    *)
(* complete.                                                                *)
NoSilentLoss ==
    \A e \in Execs :
        filled[e] # Never /\ ~Remembered(e) =>
            e \in journal \cup warned \cup cut

(* SyncExecutions: "On broker error, the error is recorded into             *)
(* sync_state.last_error AND returned to the caller."  The step in which it *)
(* returns one leaves the row with an error.                                *)
BrokerErrorsRecorded ==
    [][\A s \in Syncers :
          pc[s] = "report" /\ pc'[s] = "idle" => row'.error]_vars

=============================================================================
