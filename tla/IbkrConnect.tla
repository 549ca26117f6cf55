---------------------------- MODULE IbkrConnect -----------------------------
(***************************************************************************)
(* One FallbackBroker around one ibkr.Client, from Connect to Disconnect.  *)
(*                                                                         *)
(* Client.Connect tries up to three client IDs.  Each attempt dials, then  *)
(* waits for NextValidID within a window cut from what is left of the      *)
(* caller's context, less a reserve; error 326 and a handshake timeout     *)
(* lead to the next client ID.  When all fails, FallbackBroker uses Yahoo  *)
(* Finance, unless the context is done.  Once connected, a watcher turns a *)
(* dropped TCP connection into connected = FALSE.                          *)
(*                                                                         *)
(* Time passes in units, and only while the code waits.                    *)
(***************************************************************************)
EXTENDS Integers

CONSTANTS
    HandshakeTimeout,   \* ibHandshakeTimeout (10s)
    Reserve,            \* fallbackHandshakeReserve (1s)
    MinWindow,          \* minHandshakeWindow (2s)
    RetryWait,          \* waitBeforeConnectRetry (at most 250ms)
    MaxBudget,          \* bound: longest context deadline
    MaxDial             \* bound: longest EClient.Connect

ASSUME TimesAssumption ==
    /\ HandshakeTimeout \in Nat /\ Reserve \in Nat /\ MinWindow \in Nat
    /\ RetryWait \in Nat /\ MaxBudget \in Nat /\ MaxDial \in Nat
    /\ 0 < RetryWait /\ RetryWait < Reserve
    /\ 0 < MinWindow /\ MinWindow <= HandshakeTimeout

MaxTimeoutRetries == 1

VARIABLES
    gateway,    \* how IB answers each client ID
    last,       \* number of client ID candidates (1 for a primary of 0)
    bounded,    \* the context has a deadline
    left,       \* time until that deadline
    aborted,    \* the caller cancelled the context
    pc,
    attempt,
    retries,    \* timeoutRetries
    window,     \* handshake window of this attempt
    timer,      \* what is left of it, or of the delay before a retry
    dialled,    \* how long this attempt's EClient.Connect has taken
    mail,       \* what nextValidID and connectErrors hold
    open,       \* client IDs with an open TCP connection
    result,     \* what FallbackBroker.Connect returned
    connected,  \* Client.connected
    watcher,    \* the watchDisconnect goroutine
    dropMail    \* disconnectCh

ctx     == <<bounded, left, aborted>>
loop    == <<attempt, retries, window, timer, dialled, mail>>
session == <<connected, watcher, dropMail>>
vars == <<gateway, last, ctx, pc, loop, open, result, session>>

(* "mute" is a client ID held by a dead session, or a connection that drops *)
(* at once: TCP connects, and NextValidID comes never or when the timer     *)
(* expires.  A refused dial leaves no connection.                           *)
Answers == {"free", "inUse", "refused", "odd", "mute"}
Free(i) == gateway[i] = "free"
CtxDone == aborted \/ (bounded /\ left = 0)

-----------------------------------------------------------------------------
Init ==
    /\ gateway \in [1 .. 3 -> Answers]
    /\ last \in {1, 3}
    /\ bounded \in BOOLEAN /\ aborted = FALSE
    /\ left \in IF bounded THEN 1 .. MaxBudget ELSE {0}
    /\ pc = "next" /\ attempt = 1 /\ retries = 0
    /\ window = 0 /\ timer = 0 /\ dialled = 0 /\ mail = {}
    /\ open = {} /\ result = "none"
    /\ connected = FALSE /\ watcher = "none" /\ dropMail = FALSE

-----------------------------------------------------------------------------
(* The candidate loop, runClientIDAttempts.                                 *)

Elapse == left' = IF bounded /\ left > 0 THEN left - 1 ELSE left

Abort ==
    /\ ~aborted /\ result = "none"
    /\ aborted' = TRUE
    /\ UNCHANGED <<gateway, last, bounded, left, pc, loop, open, result, session>>

(* perAttemptHandshakeWindow.                                               *)
WindowUnreserved(budget) ==     \* mutant: the whole budget
    IF budget < HandshakeTimeout THEN budget ELSE HandshakeTimeout

Window(budget) ==
    IF budget < HandshakeTimeout + Reserve THEN budget - Reserve
                                           ELSE HandshakeTimeout

HandshakeWindow == IF bounded THEN Window(left) ELSE HandshakeTimeout

StartAttempt ==
    /\ pc = "next" /\ ~CtxDone /\ HandshakeWindow >= MinWindow
    /\ window' = HandshakeWindow
    /\ dialled' = 0 /\ mail' = {}        \* resetAPIClientLocked
    /\ pc' = "dial"
    /\ UNCHANGED <<gateway, last, ctx, attempt, retries, timer, open, result,
                   session>>

(* The context is done, or too little of it is left for an attempt.         *)
NoAttempt ==
    /\ pc = "next" /\ (CtxDone \/ HandshakeWindow < MinWindow)
    /\ pc' = "failed"
    /\ UNCHANGED <<gateway, last, ctx, loop, open, result, session>>

(* EClient.Connect knows nothing of the context.                            *)
Dialling ==
    /\ pc = "dial" /\ dialled < MaxDial
    /\ dialled' = dialled + 1
    /\ Elapse
    /\ UNCHANGED <<gateway, last, bounded, aborted, pc, attempt, retries, window,
                   timer, mail, open, result, session>>

DialSucceeds ==
    /\ pc = "dial" /\ gateway[attempt] # "refused"
    /\ open' = open \cup {attempt}
    /\ timer' = window
    /\ pc' = "handshake"
    /\ UNCHANGED <<gateway, last, ctx, attempt, retries, window, dialled, mail,
                   result, session>>

(* A dial error is not retried.                                             *)
DialFails ==
    /\ pc = "dial" /\ gateway[attempt] = "refused"
    /\ pc' = "failed"
    /\ UNCHANGED <<gateway, last, ctx, loop, open, result, session>>

(* IB answers a client ID that is not mute before the timer expires.        *)
Waiting ==
    /\ pc = "handshake" /\ mail = {} /\ timer > 0
    /\ gateway[attempt] = "mute" \/ timer > 1
    /\ timer' = timer - 1
    /\ Elapse
    /\ UNCHANGED <<gateway, last, bounded, aborted, pc, attempt, retries, window,
                   dialled, mail, open, result, session>>

Reply == IF gateway[attempt] \in {"inUse", "odd"} THEN gateway[attempt] ELSE "valid"

GatewayAnswers ==
    /\ pc = "handshake" /\ mail = {}
    /\ gateway[attempt] = "mute" => timer = 0
    /\ mail' = {Reply}
    /\ UNCHANGED <<gateway, last, ctx, pc, attempt, retries, window, timer,
                   dialled, open, result, session>>

HandshakeDone ==
    /\ pc = "handshake" /\ "valid" \in mail
    /\ mail' = {}
    /\ pc' = "finish"
    /\ UNCHANGED <<gateway, last, ctx, attempt, retries, window, timer, dialled,
                   open, result, session>>

HangUpNot == UNCHANGED open     \* mutant: the attempt's connection is left

HangUp == open' = open \ {attempt}

(* The attempt failed: on to the next client ID, or give up.                *)
Retry ==
    /\ attempt' = attempt + 1
    /\ timer' = RetryWait
    /\ pc' = "wait"

GiveUp == pc' = "failed" /\ UNCHANGED <<attempt, timer>>

(* Error 326 is retried while candidates last; any other error is not.      *)
HandshakeError ==
    /\ pc = "handshake" /\ mail \cap {"inUse", "odd"} # {}
    /\ HangUp
    /\ IF "inUse" \in mail /\ attempt < last THEN Retry ELSE GiveUp
    /\ UNCHANGED <<gateway, last, ctx, retries, window, dialled, mail, result,
                   session>>

MayRetryTimeoutNever == FALSE   \* mutant: a timeout is not retryable

MayRetryTimeoutAlways == retries <= MaxTimeoutRetries   \* mutant: no last candidate

MayRetryTimeout == attempt < last /\ retries < MaxTimeoutRetries

HandshakeExpiresNever == FALSE      \* mutant: no timer

HandshakeExpires ==
    /\ pc = "handshake" /\ timer = 0
    /\ HangUp
    /\ IF MayRetryTimeout THEN Retry /\ retries' = retries + 1
                          ELSE GiveUp /\ UNCHANGED retries
    /\ UNCHANGED <<gateway, last, ctx, window, dialled, mail, result, session>>

HandshakeCancelled ==
    /\ pc = "handshake" /\ CtxDone
    /\ HangUp
    /\ GiveUp
    /\ UNCHANGED <<gateway, last, ctx, retries, window, dialled, mail, result,
                   session>>

RetryDelay ==
    /\ pc = "wait" /\ timer > 0 /\ ~CtxDone
    /\ timer' = timer - 1
    /\ Elapse
    /\ UNCHANGED <<gateway, last, bounded, aborted, pc, attempt, retries, window,
                   dialled, mail, open, result, session>>

RetryNow ==
    /\ pc = "wait" /\ timer = 0
    /\ pc' = "next"
    /\ UNCHANGED <<gateway, last, ctx, loop, open, result, session>>

RetryCancelled ==
    /\ pc = "wait" /\ CtxDone
    /\ pc' = "failed"
    /\ UNCHANGED <<gateway, last, ctx, loop, open, result, session>>

-----------------------------------------------------------------------------
(* FallbackBroker.Connect after Client.Connect failed: Disconnect() of a    *)
(* client that is not connected does nothing; a cancelled context is an     *)
(* error, and Yahoo Finance "connects" without a call.                      *)
FallBack ==
    /\ pc = "failed"
    /\ result' = IF CtxDone THEN "ctxError" ELSE "yfinance"
    /\ pc' = "closed"
    /\ UNCHANGED <<gateway, last, ctx, loop, open, session>>

DrainDropMail == dropMail' = FALSE    \* mutant: clears disconnectCh here

KeepDropMail == UNCHANGED dropMail

(* finishConnectLocked, and the return of FallbackBroker.Connect.           *)
FinishConnect ==
    /\ pc = "finish"
    /\ connected' = TRUE
    /\ watcher' = "running"
    /\ KeepDropMail
    /\ result' = "ibkr"
    /\ pc' = "up"
    /\ UNCHANGED <<gateway, last, ctx, loop, open>>

-----------------------------------------------------------------------------
(* The session.                                                             *)

(* ConnectionClosed puts a message into disconnectCh, unless one is there.  *)
TcpDrops ==
    /\ pc \in {"finish", "up"} /\ attempt \in open
    /\ open' = open \ {attempt}
    /\ dropMail' = TRUE
    /\ UNCHANGED <<gateway, last, ctx, pc, loop, result, connected, watcher>>

WatchDisconnect ==
    /\ watcher = "running" /\ dropMail
    /\ dropMail' = FALSE
    /\ connected' = FALSE
    /\ watcher' = "none"
    /\ UNCHANGED <<gateway, last, ctx, pc, loop, open, result>>

(* watchCancel: select takes either arm when a drop is there as well.       *)
WatchCancelled ==
    /\ watcher = "cancelled"
    /\ watcher' = "none"
    /\ UNCHANGED dropMail \/ dropMail' = FALSE
    /\ UNCHANGED <<gateway, last, ctx, pc, loop, open, result, connected>>

(* Disconnect: nothing to do for a client that noticed the drop; else it    *)
(* cancels the watcher, closes the connection and drains disconnectCh, into *)
(* which ConnectionClosed may write afterwards.                             *)
Disconnect ==
    /\ pc = "up"
    /\ pc' = "closed"
    /\ IF connected
       THEN /\ open' = open \ {attempt}
            /\ connected' = FALSE /\ watcher' = "cancelled"
            /\ dropMail' = FALSE \/ (attempt \in open /\ dropMail' = TRUE)
       ELSE UNCHANGED <<open, session>>
    /\ UNCHANGED <<gateway, last, ctx, loop, result>>

-----------------------------------------------------------------------------
ConnectStep ==
    \/ StartAttempt \/ NoAttempt \/ Dialling \/ DialSucceeds \/ DialFails
    \/ Waiting \/ HandshakeDone \/ HandshakeError \/ HandshakeExpires
    \/ HandshakeCancelled \/ RetryDelay \/ RetryNow \/ RetryCancelled
    \/ FallBack \/ FinishConnect

Next ==
    \/ ConnectStep \/ Abort \/ GatewayAnswers \/ TcpDrops
    \/ WatchDisconnect \/ WatchCancelled \/ Disconnect

Spec == Init /\ [][Next]_vars

(* Connect goes on, time included; IB answers the client IDs that are not   *)
(* mute; the watcher runs.                                                  *)
Fairness ==
    /\ WF_vars(ConnectStep)
    /\ WF_vars(GatewayAnswers /\ gateway[attempt] # "mute")
    /\ WF_vars(WatchDisconnect) /\ WF_vars(WatchCancelled)

FairSpec == Spec /\ Fairness

-----------------------------------------------------------------------------
(* Type invariant.                                                          *)
TypeOK ==
    /\ gateway \in [1 .. 3 -> Answers] /\ last \in {1, 3}
    /\ bounded \in BOOLEAN /\ left \in 0 .. MaxBudget /\ aborted \in BOOLEAN
    /\ pc \in {"next", "dial", "handshake", "wait", "failed", "finish", "up",
               "closed"}
    /\ attempt \in 1 .. last /\ retries \in 0 .. MaxTimeoutRetries
    /\ window \in 0 .. HandshakeTimeout
    /\ timer \in Nat /\ dialled \in 0 .. MaxDial
    /\ mail \in SUBSET {"valid", "inUse", "odd"}
    /\ open \subseteq 1 .. last
    /\ result \in {"none", "ibkr", "yfinance", "ctxError"}
    /\ connected \in BOOLEAN /\ dropMail \in BOOLEAN
    /\ watcher \in {"none", "running", "cancelled"}

(* The reserve "means the caller's ctx is still alive after Connect() gives *)
(* up": a deadline, however near, does not keep FallbackBroker from Yahoo   *)
(* Finance, unless the caller aborts or a dial eats the reserve.            *)
DeadlineFallsBack ==
    result = "ctxError" =>
        aborted \/ dialled + RetryWait >= Reserve

(* At most the attempt under way has a TCP connection, and none outlives a  *)
(* Connect that failed.                                                     *)
NoSessionLeft ==
    /\ open \subseteq {attempt}
    /\ pc \in {"next", "dial", "wait", "failed", "closed"} => open = {}

(* The wedge that the fallback client IDs are for: the primary one is held  *)
(* by a dead session.  "a fresh clientID can succeed immediately against    *)
(* it": with the budget for a full first window, the delay, a smallest      *)
(* window and the reserve, Connect does not end up with delayed data.       *)
ZombiePrimary ==
    /\ pc = "next" /\ attempt = 1 /\ last = 3
    /\ gateway[1] = "mute" /\ Free(2)
    /\ ~bounded \/ left >= HandshakeTimeout + RetryWait + MinWindow + Reserve

ZombieIsOvertaken == ZombiePrimary ~> result = "ibkr" \/ aborted \/ dialled > 0

(* A drop, even before finishConnectLocked starts the watcher, is noticed   *)
(* without waiting for the next Ping.                                       *)
DropIsNoticed == pc = "up" /\ open = {} ~> ~connected
=============================================================================
