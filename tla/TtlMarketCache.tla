--------------------------- MODULE TtlMarketCache ---------------------------
(***************************************************************************)
(* ttlMarketCache of shockintel/source_cache.go: quotes (and, in two more  *)
(* copies of the code, depth and option metrics) under ONE expiry, fetched *)
(* for the ids that are missing, in flights shared by the set of ids.      *)
(* Looking up what is missing, storing and reading are critical sections   *)
(* of their own; each request uses the time at which it began throughout.  *)
(* What a request hands back besides the quotes of the cache is left out:  *)
(* the error, and the partial quotes of an interrupted flight.             *)
(***************************************************************************)
EXTENDS Naturals

CONSTANTS
    Requests,   \* full requests and the short automatic-view probes
    Ids,
    TTL,
    MaxNow      \* bound of the model

VARIABLES
    now,
    quotes,     \* when the cached quote of an id was stored, 0: no quote
    fetched,    \* quoteFetched
    expiry,     \* quoteExpiry, 0: the zero time
    want, began, missing, got,  \* of a request: ids, now(), what it misses, what came
    alive, pc, attempt,
    flights,    \* [ids, by, shared, for]: the caller that runs it, those that wait
    denied      \* history: ids for which a flight that nothing interrupted had no quote

cacheVars == <<quotes, fetched, expiry>>
reqVars == <<want, began, missing, got, alive, pc, attempt>>
vars == <<now, cacheVars, reqVars, flights, denied>>

Init ==
    /\ now = 1
    /\ quotes = [i \in Ids |-> 0] /\ fetched = {} /\ expiry = 0
    /\ want = [r \in Requests |-> {}]
    /\ began = [r \in Requests |-> 0]
    /\ missing = [r \in Requests |-> {}]
    /\ got = [r \in Requests |-> {}]
    /\ alive = [r \in Requests |-> TRUE]
    /\ pc = [r \in Requests |-> "idle"]
    /\ attempt = [r \in Requests |-> 0]
    /\ flights = {}
    /\ denied = {}

Goto(r, place) == pc' = [pc EXCEPT ![r] = place]

(* A call that is over: its variables are gone.                             *)
Forget(r) ==
    /\ want' = [want EXCEPT ![r] = {}]
    /\ began' = [began EXCEPT ![r] = 0]
    /\ missing' = [missing EXCEPT ![r] = {}]
    /\ got' = [got EXCEPT ![r] = {}]

-----------------------------------------------------------------------------
KeepStale == FALSE                      \* mutant: nothing is ever dropped
Outdated == now > expiry

(* missingTTLQuoteIDs: drops everything once the expiry is over.            *)
Look(r, ids) ==
    /\ pc[r] = "idle"
    /\ want' = [want EXCEPT ![r] = ids]
    /\ began' = [began EXCEPT ![r] = now]
    /\ IF Outdated
       THEN quotes' = [i \in Ids |-> 0] /\ fetched' = {}
       ELSE UNCHANGED <<quotes, fetched>>
    /\ missing' = [missing EXCEPT ![r] = ids \ fetched']
    /\ Goto(r, IF ids \subseteq fetched' THEN "read" ELSE "fetch")
    /\ UNCHANGED <<now, expiry, got, alive, attempt, flights, denied>>

(* fetch: DoChan runs the flight in a goroutine of its own, with the        *)
(* context of the request that started it.                                  *)
JoinFlight(r) ==
    /\ pc[r] = "fetch" /\ alive[r]
    /\ LET mine == {f \in flights : f.ids = missing[r]}
       IN IF mine = {}
          THEN flights' = flights \cup
                  {[ids |-> missing[r], by |-> r, shared |-> FALSE, for |-> {r}]}
          ELSE flights' = (flights \ mine) \cup
                  {[f EXCEPT !.for = @ \cup {r}, !.shared = TRUE] : f \in mine}
    /\ Goto(r, "wait")
    /\ UNCHANGED <<now, cacheVars, want, began, missing, got, alive, attempt, denied>>

(* A request whose own context ended does not wait, and stores nothing.     *)
GiveUp(r) ==
    /\ pc[r] \in {"fetch", "wait"} /\ ~alive[r]
    /\ flights' = {[f EXCEPT !.for = @ \ {r}] : f \in flights}
    /\ Goto(r, "done") /\ Forget(r)
    /\ UNCHANGED <<now, cacheVars, alive, attempt, denied>>

StoreInterrupted(interrupted) == TRUE   \* mutant: no requestInterrupted
Storable(interrupted) == ~interrupted

(* A live request that shared an interrupted flight starts over, once.      *)
AsksAgain(r, f, interrupted) == interrupted /\ f.shared /\ attempt[r] = 0 /\ alive[r]

(* A flight ends: cut short by the context it runs with or by a timeout of  *)
(* the source's own, or not.  Everyone who waits for it goes on with it.    *)
Land(f) ==
    /\ f \in flights
    /\ \E result \in SUBSET f.ids, interrupted \in BOOLEAN :
         LET again == {r \in f.for : AsksAgain(r, f, interrupted)}
             next == IF Storable(interrupted) THEN "store" ELSE "done"
         IN /\ alive[f.by] \/ interrupted
            /\ flights' = flights \ {f}
            /\ pc' = [r \in Requests |-> IF r \in again THEN "fetch"
                                         ELSE IF r \in f.for THEN next ELSE pc[r]]
            /\ attempt' = [r \in Requests |-> IF r \in again THEN 1 ELSE attempt[r]]
            /\ got' = [r \in Requests |-> IF r \in f.for \ again THEN result ELSE got[r]]
            /\ denied' = IF interrupted THEN denied ELSE denied \cup (f.ids \ result)
    /\ UNCHANGED <<now, cacheVars, want, began, missing, alive>>

(* storeTTLQuotes: the expiry is that of the last one to store.             *)
Store(r) ==
    /\ pc[r] = "store"
    /\ quotes' = [i \in Ids |-> IF i \in got[r] THEN now ELSE quotes[i]]
    /\ fetched' = fetched \cup missing[r]
    /\ expiry' = began[r] + TTL
    /\ Goto(r, "read")
    /\ UNCHANGED <<now, want, began, missing, got, alive, attempt, flights, denied>>

(* cachedTTLQuotes: nothing, if at its start the cache had expired.         *)
Answer(r) == IF began[r] > expiry THEN {} ELSE {i \in want[r] : quotes[i] # 0}

Read(r) ==
    /\ pc[r] = "read"
    /\ Goto(r, "done") /\ Forget(r)
    /\ UNCHANGED <<now, cacheVars, alive, attempt, flights, denied>>

(* The next poll of the same browser, once its last flight is over.         *)
AskNext(r) ==
    /\ pc[r] = "done"
    /\ \A f \in flights : f.by # r
    /\ Goto(r, "idle") /\ Forget(r)
    /\ alive' = [alive EXCEPT ![r] = TRUE]
    /\ attempt' = [attempt EXCEPT ![r] = 0]
    /\ UNCHANGED <<now, cacheVars, flights, denied>>

CtxDone(r) ==
    /\ pc[r] \in {"fetch", "wait"} /\ alive[r]
    /\ alive' = [alive EXCEPT ![r] = FALSE]
    /\ UNCHANGED <<now, cacheVars, want, began, missing, got, pc, attempt, flights, denied>>

Tick ==
    /\ now < MaxNow
    /\ now' = now + 1
    /\ UNCHANGED <<cacheVars, reqVars, flights, denied>>

Locked(r) == (\E ids \in SUBSET Ids \ {{}} : Look(r, ids)) \/ Store(r) \/ Read(r)
Fetching(r) == JoinFlight(r) \/ GiveUp(r)

Next ==
    \/ \E r \in Requests : Locked(r) \/ Fetching(r) \/ AskNext(r) \/ CtxDone(r)
    \/ \E f \in flights : Land(f)
    \/ Tick

Spec == Init /\ [][Next]_vars

-----------------------------------------------------------------------------
TypeOK ==
    /\ quotes \in [Ids -> 0 .. now] /\ fetched \subseteq Ids
    /\ expiry \in 0 .. MaxNow + TTL
    /\ \A r \in Requests : missing[r] \subseteq want[r] /\ got[r] \subseteq missing[r]
    /\ \A f \in flights : f.ids # {} /\ f.for \subseteq Requests

(* "A short-lived caller ... must not cache its cancellation as missing     *)
(* market data for subsequent full requests": an id is known as fetched     *)
(* and has no quote only when a flight nobody interrupted had none for it.  *)
MissingWasDenied == \A i \in fetched : quotes[i] = 0 => i \in denied

=============================================================================
