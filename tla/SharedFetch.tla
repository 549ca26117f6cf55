---------------------------- MODULE SharedFetch ----------------------------
(***************************************************************************)
(* Requests that share one slow fetch of market data.  Four disciplines of *)
(* the code, one per behaviour:                                            *)
(*   "pulse"    marketdata/pulse.go: singleflight and a cache that a       *)
(*              builder with a dead context does not fill                  *)
(*   "quotes"   webui/quotes.go: singleflight and a cache of whatever came *)
(*              without an error                                           *)
(*   "live"     webui/live.go: singleflight, no cache                      *)
(*   "intraday" intraday/service.go: a cache, everyone fetches for himself *)
(* Each fetch runs with the context of the request that started it.  One   *)
(* key; a fetch of another key is independent of it.                       *)
(***************************************************************************)
EXTENDS Naturals, FiniteSets

CONSTANTS
    Callers,    \* requests; a browser that asks again is another one
    TTL,        \* life of a cache entry
    MaxNow      \* bound of the model

Nobody == "nobody"
ASSUME SharedFetchAssumption ==
    /\ Nobody \notin Callers /\ IsFiniteSet(Callers)
    /\ TTL \in Nat /\ MaxNow \in Nat

(* What a fetch gives: everything, less than that because the source failed *)
(* for some, less than that because the context ended, or an error.         *)
Values == {"whole", "gaps", "cut", "error"}
Kinds == {"pulse", "quotes", "live", "intraday"}

VARIABLES
    kind,
    now,
    alive,      \* the context of a request
    pc, tries,  \* of a request: its place, the flights it saw end
    answer,
    asked,      \* when an intraday request read the clock
    leader,     \* the request that runs the flight, or Nobody
    cache       \* [value, at]: at is when it was set

vars == <<kind, now, alive, pc, tries, answer, asked, leader, cache>>

Empty == [value |-> "none", at |-> 0]

Init ==
    /\ kind \in Kinds
    /\ now = 1
    /\ alive = [c \in Callers |-> TRUE]
    /\ pc = [c \in Callers |-> "idle"]
    /\ tries = [c \in Callers |-> 0]
    /\ answer = [c \in Callers |-> "none"]
    /\ asked = [c \in Callers |-> 0]
    /\ leader = Nobody
    /\ cache = Empty

Goto(c, place) == pc' = [pc EXCEPT ![c] = place]

(* get() of the caches; the quote cache ends before its expiry, the others  *)
(* after it.                                                                *)
Fresh == cache # Empty /\ (now - cache.at < TTL \/ (kind # "quotes" /\ now - cache.at = TTL))

Cached == kind \in {"pulse", "quotes", "intraday"}

-----------------------------------------------------------------------------
Hit(c) ==
    /\ pc[c] = "idle" /\ Cached /\ Fresh
    /\ answer' = [answer EXCEPT ![c] = cache.value]
    /\ Goto(c, "done")
    /\ UNCHANGED <<kind, now, alive, tries, asked, leader, cache>>

Miss(c) ==
    /\ pc[c] = "idle" /\ ~(Cached /\ Fresh)
    /\ Goto(c, IF kind = "intraday" THEN "load" ELSE "do")
    /\ asked' = [asked EXCEPT ![c] = now]
    /\ UNCHANGED <<kind, now, alive, tries, answer, leader, cache>>

(* singleflight.Do: the first one runs the function, the others wait for it *)
(* whatever becomes of their own contexts.                                  *)
Lead(c) ==
    /\ pc[c] = "do" /\ leader = Nobody
    /\ leader' = c /\ Goto(c, "wait")
    /\ UNCHANGED <<kind, now, alive, tries, answer, asked, cache>>

Join(c) ==
    /\ pc[c] = "do" /\ leader # Nobody
    /\ Goto(c, "wait")
    /\ UNCHANGED <<kind, now, alive, tries, answer, asked, leader, cache>>

(* build, doFetchQuickQuotes, doFetchLiveAnalysis, loadMarketDataFresh: what *)
(* the fetch of a request may come to.  A pulse has no error of its own,    *)
(* and a live analysis no parts.                                            *)
Fetched(c) ==
    {"whole"}
    \cup (IF kind # "live" THEN {"gaps"} ELSE {})
    \cup (IF kind \in {"quotes", "live"} THEN {"error"} ELSE {})
    \cup (IF kind # "live" /\ ~alive[c] THEN {"cut"} ELSE {})

StoreAlways(c, value) ==                \* mutant: no look at ctx.Err()
    cache' = [value |-> value, at |-> now]

StorePulse(c, value) ==
    IF alive[c] THEN cache' = [value |-> value, at |-> now] ELSE UNCHANGED cache

StoreQuotes(value) ==
    IF value # "error" THEN cache' = [value |-> value, at |-> now] ELSE UNCHANGED cache

(* A waiter of a pulse flight whose builder died asks once more.            *)
AsksAgain(c) == kind = "pulse" /\ ~alive[leader] /\ alive[c] /\ tries[c] = 0

EndFlight ==
    /\ leader # Nobody
    /\ LET waiting == {c \in Callers : pc[c] = "wait"}
           again == {c \in waiting : AsksAgain(c)}
       IN \E value \in Fetched(leader) :
            /\ CASE kind = "pulse"  -> StorePulse(leader, value)
                 [] kind = "quotes" -> StoreQuotes(value)
                 [] OTHER           -> UNCHANGED cache
            /\ pc' = [c \in Callers |-> IF c \in again THEN "do"
                                        ELSE IF c \in waiting THEN "done" ELSE pc[c]]
            /\ answer' = [c \in Callers |-> IF c \in waiting \ again THEN value ELSE answer[c]]
            /\ tries' = [c \in Callers |-> IF c \in waiting THEN tries[c] + 1 ELSE tries[c]]
    /\ leader' = Nobody
    /\ UNCHANGED <<kind, now, alive, asked>>

(* computeMovers: everyone loads, and stores what it got, good or bad, under *)
(* the time at which it asked.                                              *)
Load(c) ==
    /\ pc[c] = "load"
    /\ \E value \in Fetched(c) :
          /\ cache' = [value |-> value, at |-> asked[c]]
          /\ answer' = [answer EXCEPT ![c] = value]
    /\ Goto(c, "done")
    /\ UNCHANGED <<kind, now, alive, tries, asked, leader>>

(* The browser goes away, or the request's deadline passes.                 *)
CtxDone(c) ==
    /\ pc[c] \in {"do", "wait", "load"} /\ alive[c]
    /\ alive' = [alive EXCEPT ![c] = FALSE]
    /\ UNCHANGED <<kind, now, pc, tries, answer, asked, leader, cache>>

Tick ==
    /\ now < MaxNow
    /\ now' = now + 1
    /\ UNCHANGED <<kind, alive, pc, tries, answer, asked, leader, cache>>

Serve(c) == Hit(c) \/ Miss(c) \/ Lead(c) \/ Join(c) \/ Load(c)
Next == (\E c \in Callers : Serve(c) \/ CtxDone(c)) \/ EndFlight \/ Tick

Spec == Init /\ [][Next]_vars

-----------------------------------------------------------------------------
TypeOK ==
    /\ kind \in Kinds /\ now \in 1 .. MaxNow
    /\ alive \in [Callers -> BOOLEAN]
    /\ pc \in [Callers -> {"idle", "do", "wait", "load", "done"}]
    /\ tries \in [Callers -> 0 .. 2]
    /\ answer \in [Callers -> Values \cup {"none"}]
    /\ asked \in [Callers -> 0 .. now]
    /\ leader \in Callers \cup {Nobody}
    /\ cache \in [value : Values \cup {"none"}, at : 0 .. now]

(* No request that goes away spoils the market pulse of another: what its   *)
(* end cut short is not cached, and reaches a live request only when two    *)
(* builders in a row went away.                                             *)
HealthyIsServed ==
    kind = "pulse" =>
        /\ cache.value # "cut"
        /\ \A c \in Callers :
              alive[c] /\ answer[c] = "cut" => Cardinality({d \in Callers : ~alive[d]}) >= 2

=============================================================================
