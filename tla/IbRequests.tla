----------------------------- MODULE IbRequests -----------------------------
(***************************************************************************)
(* The requests a Client has in flight on its one TWS connection,          *)
(* internal/broker/ibkr/client.go and wrapper.go.                          *)
(*                                                                         *)
(* A call registers a pending request under a fresh reqID, sends it, and   *)
(* selects on the request's done channel, its error channel, a timer and   *)
(* its context.  One reader goroutine of ibapi runs every callback; it     *)
(* finds the request by its reqID.  Error() first puts the error into the  *)
(* error channel and then closes done, so both arms can be ready at once.  *)
(*                                                                         *)
(* The data of a request is reduced to how much of it has arrived: "some"  *)
(* is a usable price, a row, a contract ID.  A callback that finds no      *)
(* request does nothing, so the model sends none for an unregistered reqID *)
(* and may then use that reqID again.  A timer may fire at any moment of   *)
(* the wait it bounds.  IB may stay silent for good, as it does when the   *)
(* TCP connection is a zombie.                                             *)
(***************************************************************************)
EXTENDS Naturals, FiniteSets

CONSTANTS
    Callers,   \* goroutines that call the Client's methods
    Methods,   \* the methods each of them may call
    IDs,       \* request IDs
    Codes      \* error codes IB may send for a request

Ops == {"GetQuote", "GetMarketDepth", "GetHistoricalBars", "GetOptionChain",
        "GetOptionQuoteDetails", "fetchOIForContract", "GetExecutions"}

ASSUME IDsAssumption ==
    /\ IDs \subseteq Nat \ {0} /\ IsFiniteSet(IDs) /\ IsFiniteSet(Callers)
    /\ Cardinality(IDs) > 2 * Cardinality(Callers)
ASSUME MethodsAssumption == Methods \in [Callers -> SUBSET Ops]
ASSUME CodesAssumption == Codes \subseteq Nat \ 0 .. 99

VARIABLES
    up,        \* IsConnected(): FALSE once ConnectionClosed() was called
    pend,      \* the pending requests, by reqID
    lines,     \* subscriptions IB streams to until they are cancelled
    closing,   \* Error() is between its send and its close for this reqID
    op, cur,   \* each caller's method, and the reqID it waits for
    graced,    \* waitOptionMetrics is in its grace period
    answer     \* what the caller's last call returned

vars == <<up, pend, lines, closing, op, cur, graced, answer>>

-----------------------------------------------------------------------------
(* A request collects the ticks of a quote, of an option's metrics or of a  *)
(* book until they are complete, or a list that IB ends by an End callback. *)
Lists == {"bars", "conid", "params", "execs"}
Kinds == {"quote", "option", "oi", "depth"} \cup Lists
Cancelable == Kinds \ {"conid", "params", "execs"}

(* "nothing" is a list IB has ended without a row.                          *)
Amounts == {"none", "some", "all", "nothing"}

NoID == 0
NoError == 0        \* an empty error channel, a nil error
TimedOut == 1       \* context.DeadlineExceeded
Canceled == 2       \* ctx.Err()
NoData == 3         \* IB delivered nothing the caller can use
NotConnected == 4

Pending(kind, c) == [kind |-> kind, by |-> c, data |-> "none",
                     done |-> FALSE, err |-> NoError]

Unregistered == Pending("none", "none")

Registered(id) == pend[id].kind # "none"
Mine(c) == {id \in IDs : Registered(id) /\ pend[id].by = c}
Free == {id \in IDs : ~Registered(id) /\ id # closing}
IsNextReqID(id) == id \in Free /\ \A i \in Free : id <= i
Request(c) == pend[cur[c]]
Waiting(c, kind) == op[c] # "none" /\ Request(c).kind = kind /\ ~graced[c]

FirstKind(o) ==
    CASE o = "GetQuote"              -> "quote"
      [] o = "GetMarketDepth"        -> "depth"
      [] o = "GetHistoricalBars"     -> "bars"
      [] o = "GetOptionChain"        -> "conid"
      [] o = "GetOptionQuoteDetails" -> "option"
      [] o = "fetchOIForContract"    -> "oi"
      [] o = "GetExecutions"         -> "execs"

NoAnswer == [op |-> "none", ok |-> FALSE, data |-> "none", arm |-> "none",
             cause |-> NoError]

Init ==
    /\ up = TRUE
    /\ pend = [id \in IDs |-> Unregistered]
    /\ lines = {}
    /\ closing = NoID
    /\ op = [c \in Callers |-> "none"]
    /\ cur = [c \in Callers |-> NoID]
    /\ graced = [c \in Callers |-> FALSE]
    /\ answer = [c \in Callers |-> NoAnswer]

-----------------------------------------------------------------------------
(* Registering a request and sending it; IB opens a line for the kinds that *)
(* have a Cancel call, and a dead connection swallows the message.          *)
Ask(c, kind, registered, streaming) ==
    \E id \in IDs :
        /\ IsNextReqID(id)
        /\ cur' = [cur EXCEPT ![c] = id]
        /\ pend' = [registered EXCEPT ![id] = Pending(kind, c)]
        /\ lines' = IF up /\ kind \in Cancelable THEN streaming \cup {id}
                                                 ELSE streaming

Call(c, o) ==
    /\ op[c] = "none" /\ up
    /\ op' = [op EXCEPT ![c] = o]
    /\ Ask(c, FirstKind(o), pend, lines)
    /\ answer' = [answer EXCEPT ![c] = NoAnswer]
    /\ UNCHANGED <<up, closing, graced>>

CallRefused(c, o) ==
    /\ op[c] = "none" /\ ~up
    /\ answer' = [answer EXCEPT ![c] =
                    [op |-> o, ok |-> FALSE, data |-> "none", arm |-> "none",
                     cause |-> NotConnected]]
    /\ UNCHANGED <<up, pend, lines, closing, op, cur, graced>>

WithoutNone(c) == lines   \* mutant: the stream is not cancelled

WithoutStream(c) == lines \ {cur[c]}

(* The cancel and unregister calls a method has deferred run as it returns. *)
Return(c, ok, cause, arm) ==
    /\ answer' = [answer EXCEPT ![c] =
                    [op |-> op[c], ok |-> ok, data |-> Request(c).data,
                     arm |-> arm, cause |-> cause]]
    /\ pend' = [id \in IDs |-> IF id \in Mine(c) THEN Unregistered ELSE pend[id]]
    /\ lines' = WithoutStream(c)
    /\ op' = [op EXCEPT ![c] = "none"]
    /\ cur' = [cur EXCEPT ![c] = NoID]
    /\ graced' = [graced EXCEPT ![c] = FALSE]
    /\ UNCHANGED <<up, closing>>

(* Arms of a select: done is closed; an error was routed.                   *)
Done(c) == Request(c).done
Routed(c) == Request(c).err # NoError
Fails(c) == Routed(c) /\ Return(c, FALSE, Request(c).err, "error")

ReturnIf(c, ok, arm) == Return(c, ok, IF ok THEN NoError ELSE NoData, arm)
HasData(c) == Request(c).data \in {"some", "all"}

-----------------------------------------------------------------------------
(* The methods, each from its select on.  Where the caller's context has    *)
(* the effect of a timer it is that timer; else its arm is in CtxDone.      *)

(* The quote stays registered while its fallback waits for the daily bars,  *)
(* but nothing reads it any more.                                           *)
QuoteFromHistory(c) ==
    IF ~up THEN Return(c, FALSE, NotConnected, "history")
    ELSE /\ Ask(c, "bars", [pend EXCEPT ![cur[c]] = Pending("quote", c)],
                WithoutStream(c))
         /\ UNCHANGED <<up, closing, op, graced, answer>>

NoSubscription == {10089, 10090}

(* done, the 5 s timeout and ctx all go on with the ticks collected so far. *)
GetQuote(c) ==
    /\ Waiting(c, "quote")
    /\ \/ HasData(c) /\ Return(c, TRUE, NoError, "done")
       \/ ~HasData(c) /\ QuoteFromHistory(c)
       \/ Request(c).err \in NoSubscription /\ QuoteFromHistory(c)
       \/ Request(c).err \notin NoSubscription /\ Fails(c)

GetHistoricalBars(c) ==
    /\ Waiting(c, "bars")
    /\ \/ Done(c) /\ ReturnIf(c, op[c] = "GetHistoricalBars" \/ HasData(c), "done")
       \/ Fails(c)

(* done, the 3 s timeout and ctx all go on with the rows collected so far.  *)
GetMarketDepth(c) ==
    /\ Waiting(c, "depth")
    /\ ReturnIf(c, HasData(c), "done") \/ Fails(c)

(* GetOptionChain first resolves the contract, then asks for its parameters.*)
GetConID(c) ==
    /\ Waiting(c, "conid")
    /\ \/ /\ Done(c) /\ HasData(c)
          /\ Ask(c, "params", [pend EXCEPT ![cur[c]] = Unregistered], lines)
          /\ UNCHANGED <<up, closing, op, graced, answer>>
       \/ Done(c) /\ ~HasData(c) /\ Return(c, FALSE, NoData, "done")
       \/ Fails(c)

MaterializedAlways(c) == HasData(c)   \* mutant: rows are used without the End

(* Expirations are materialised by the End callback only.                   *)
Materialized(c) == Request(c).data = "all"

(* A requested expiry may not be among them.                                *)
GetOptionChain(c) ==
    /\ Waiting(c, "params")
    /\ \/ Done(c) /\ \E offered \in BOOLEAN :
                        ReturnIf(c, Materialized(c) /\ offered, "done")
       \/ Fails(c)

(* Errors are reported inside the quote, as warnings.                       *)
GetOptionQuoteDetails(c) ==
    /\ Waiting(c, "option")
    /\ \/ Done(c) /\ Return(c, TRUE, Request(c).err, "done")
       \/ Return(c, TRUE, NoError, "timer")
       \/ Routed(c) /\ Return(c, TRUE, Request(c).err, "error")

(* The ticks collected are returned whatever ended the wait; the error that *)
(* closed done is looked up after the grace period.                         *)
WaitOptionMetrics(c) ==
    /\ Waiting(c, "oi")
    /\ \/ /\ Done(c)
          /\ graced' = [graced EXCEPT ![c] = TRUE]
          /\ UNCHANGED <<up, pend, lines, closing, op, cur, answer>>
       \/ Routed(c) /\ Return(c, TRUE, Request(c).err, "error")
       \/ Return(c, TRUE, TimedOut, "timer")

(* Mutant: the error channel is not looked at again.                        *)
WaitOptionMetricsGraceBlind(c) ==
    /\ graced[c] /\ Return(c, TRUE, NoError, "done")

WaitOptionMetricsGrace(c) ==
    /\ graced[c] /\ Return(c, TRUE, Request(c).err, "done")

(* Mutant: the execution wait has no timeout of its own.                    *)
GetExecutionsUntimed(c) ==
    /\ Waiting(c, "execs")
    /\ (Done(c) /\ Return(c, TRUE, NoError, "done")) \/ Fails(c)

GetExecutions(c) ==
    /\ Waiting(c, "execs")
    /\ \/ Done(c) /\ Return(c, TRUE, NoError, "done")
       \/ Fails(c)
       \/ Return(c, FALSE, TimedOut, "timer")

(* Mutant: the wait for bars has no ctx arm.                                *)
CtxDoneNotForBars(c) ==
    \/ \E kind \in {"conid", "params", "option"} :
         Waiting(c, kind) /\ Return(c, FALSE, Canceled, "ctx")
    \/ (Waiting(c, "oi") \/ graced[c]) /\ Return(c, TRUE, Canceled, "ctx")

(* The caller gives up or its deadline passes: only the metrics collected   *)
(* for an option are returned all the same.                                 *)
CtxDone(c) ==
    \/ \E kind \in {"bars", "conid", "params", "option"} :
         Waiting(c, kind) /\ Return(c, FALSE, Canceled, "ctx")
    \/ (Waiting(c, "oi") \/ graced[c]) /\ Return(c, TRUE, Canceled, "ctx")

-----------------------------------------------------------------------------
(* The callbacks, all run by one reader goroutine.                          *)

(* What still comes for a cancelled stream is not read again.               *)
Reading(id, kinds) ==
    /\ up /\ closing = NoID /\ pend[id].kind \in kinds
    /\ pend[id].kind \in Cancelable => id \in lines

Update(id, data, done) ==
    /\ pend' = [pend EXCEPT ![id].data = data, ![id].done = @ \/ done]
    /\ UNCHANGED <<up, lines, closing, op, cur, graced, answer>>

(* TickPrice, TickSize and TickOptionComputation: done is closed once every *)
(* field the request validates has arrived.  (TickSnapshotEnd never comes:  *)
(* no request asks for a snapshot.)                                         *)
Tick(id) ==
    /\ Reading(id, {"quote", "option", "oi"}) /\ pend[id].data # "all"
    /\ Update(id, "some", FALSE) \/ Update(id, "all", TRUE)

(* UpdateMktDepth and UpdateMktDepthL2 insert or delete a level; done stays *)
(* closed once both sides of the book have had the levels wanted.           *)
DepthRow(id) ==
    /\ Reading(id, {"depth"})
    /\ \/ pend[id].data # "all" /\ Update(id, "some", FALSE)
       \/ pend[id].data = "some" /\ Update(id, "all", TRUE)
       \/ pend[id].data \in {"some", "all"}
          /\ \E left \in {"none", "some"} : Update(id, left, FALSE)

(* IB sends neither rows nor an End for a list it has ended or refused.     *)
Listing(id) == Reading(id, Lists) /\ ~pend[id].done /\ pend[id].err = NoError

Row(id) == Listing(id) /\ Update(id, "some", FALSE)

End(id) ==
    /\ Listing(id)
    /\ Update(id, IF pend[id].data = "none" THEN "nothing" ELSE "all", TRUE)

StrictErrorCodes == {200, 162, 300, 321}

(* Mutant: strict routing for every request.                                *)
RoutesAllStrict(kind, code) ==
    /\ ~(kind = "depth" /\ code = 2152)
    /\ code < 2000 => (kind = "depth" /\ code = 309) \/ code \in StrictErrorCodes
    /\ code # 10167

(* Which errors reach the caller: 2152 is a notice to a depth request, most *)
(* codes below 2000 are dropped except for strict requests, and so is 10167.*)
(* The others leave at most a notice, which goes into the answer's warnings.*)
Routes(kind, code) ==
    /\ ~(kind = "depth" /\ code = 2152)
    /\ code < 2000 => \/ kind = "depth" /\ code = 309
                      \/ kind = "option" /\ code \in StrictErrorCodes
    /\ code # 10167

ChannelOfUncoded(r, code) == [r EXCEPT !.err = NoData]   \* mutant: no code

ChannelOf(r, code) == [r EXCEPT !.err = IF @ = NoError THEN code ELSE @]

(* Error() sends into the one-place error channel, which drops a second     *)
(* error.                                                                   *)
ErrorRouted(id, code) ==
    /\ Reading(id, Kinds) /\ Routes(pend[id].kind, code)
    /\ pend' = [pend EXCEPT ![id] = ChannelOf(@, code)]
    /\ closing' = id
    /\ UNCHANGED <<up, lines, op, cur, graced, answer>>

(* ... and then closes done, unless the caller has unregistered meanwhile.  *)
ErrorCloses ==
    /\ closing # NoID
    /\ pend' = [pend EXCEPT ![closing].done =
                  @ \/ pend[closing].kind \in Kinds \ {"depth"}]
    /\ closing' = NoID
    /\ UNCHANGED <<up, lines, op, cur, graced, answer>>

(* No pending request hears of a dropped connection.                        *)
ConnectionClosed ==
    /\ up /\ closing = NoID
    /\ up' = FALSE
    /\ lines' = {}
    /\ UNCHANGED <<pend, closing, op, cur, graced, answer>>

-----------------------------------------------------------------------------
Method(c) ==
    \/ GetQuote(c) \/ GetHistoricalBars(c) \/ GetMarketDepth(c) \/ GetConID(c)
    \/ GetOptionChain(c) \/ GetOptionQuoteDetails(c) \/ WaitOptionMetrics(c)
    \/ WaitOptionMetricsGrace(c) \/ GetExecutions(c)

Callback(id) ==
    \/ Tick(id) \/ DepthRow(id) \/ Row(id) \/ End(id)
    \/ \E code \in Codes : ErrorRouted(id, code)

Next ==
    \/ \E c \in Callers : CtxDone(c) \/ Method(c)
                          \/ \E o \in Methods[c] : Call(c, o) \/ CallRefused(c, o)
    \/ \E id \in IDs : Callback(id)
    \/ ErrorCloses \/ ConnectionClosed

Spec == Init /\ [][Next]_vars

(* A goroutine with a ready arm takes one, and a timer it has set fires.    *)
Fairness == (\A c \in Callers : WF_vars(Method(c))) /\ WF_vars(ErrorCloses)

(* The callers' contexts have a deadline.                                   *)
DeadlinesSet == \A c \in Callers : WF_vars(CtxDone(c))

FairSpec == Spec /\ Fairness

-----------------------------------------------------------------------------
(* Type invariant.                                                          *)
TypeOK ==
    /\ up \in BOOLEAN
    /\ pend \in [IDs -> [kind : Kinds \cup {"none"}, by : Callers \cup {"none"},
                         data : Amounts, done : BOOLEAN,
                         err : Codes \cup {NoError}]]
    /\ lines \subseteq IDs
    /\ closing \in IDs \cup {NoID}
    /\ op \in [Callers -> Ops \cup {"none"}]
    /\ cur \in [Callers -> IDs \cup {NoID}]
    /\ graced \in [Callers -> BOOLEAN]
    /\ answer \in [Callers ->
                     [op : Ops \cup {"none"}, ok : BOOLEAN, data : Amounts,
                      arm : {"none", "done", "error", "timer", "ctx", "history"},
                      cause : Codes \cup {NoError, TimedOut, Canceled, NoData,
                                          NotConnected}]]

(* Every pending request and every line at IB belongs to a call that is     *)
(* still running: no method returns, falls back or moves to its next request*)
(* with a subscription left behind (IB limits the lines of a connection).   *)
NothingLeaks ==
    /\ \A id \in IDs : Registered(id) => op[pend[id].by] # "none"
    /\ lines \subseteq {cur[c] : c \in Callers}

(* "retain the cause whichever select arm wins" (waitOptionMetrics): an     *)
(* option's metrics or quote that are returned incomplete because done was  *)
(* closed carry the error that closed it, in every order of Error()'s two   *)
(* steps and the caller's select.                                           *)
CauseKept ==
    \A c \in Callers :
        /\ answer[c].op \in {"fetchOIForContract", "GetOptionQuoteDetails"}
        /\ answer[c].arm = "done" /\ answer[c].data # "all"
        => answer[c].cause # NoError

(* Every request but GetOptionQuoteDetails tolerates the codes below 2000   *)
(* and 10167 (registerStrictError's comment): none of its calls ever fails  *)
(* with one, whichever request of the call it arrived for, except a depth   *)
(* request that is over IB's limit.                                         *)
TolerantCalls ==
    \A c \in Callers :
        answer[c].op # "GetOptionQuoteDetails" =>
            answer[c].cause \notin StrictErrorCodes \cup {354, 10167}

(* A chain is built from the complete answer of IB, never from the          *)
(* expirations that had arrived when an error ended the request.            *)
ChainIsWhole ==
    \A c \in Callers :
        answer[c].op = "GetOptionChain" /\ answer[c].ok => answer[c].data = "all"

Returns(c, ops) == op[c] \in ops ~> op[c] = "none"

(* These calls end by their own timers, though IB never answers and nobody  *)
(* tells them that the connection is gone.                                  *)
TimedCallsReturn ==
    \A c \in Callers : Returns(c, {"GetMarketDepth", "GetOptionQuoteDetails",
                                   "fetchOIForContract", "GetExecutions"})

(* The others, GetQuote with its history fallback included, end if their    *)
(* caller's context does.                                                   *)
CallsReturn == DeadlinesSet => \A c \in Callers : Returns(c, Ops)
=============================================================================
