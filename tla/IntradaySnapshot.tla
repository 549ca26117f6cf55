-------------------------- MODULE IntradaySnapshot --------------------------
(***************************************************************************)
(* One load of the intraday cards (internal/intraday): the workers that    *)
(* share a broker connection, the budget of this primary part, the batch   *)
(* from Yahoo that fills in, and the rows and warnings made of the rest.   *)
(* The contexts end at any moment; every call may fail on its own.         *)
(***************************************************************************)
EXTENDS Naturals, Sequences, FiniteSetsExt

CONSTANTS
    Symbols,        \* the universe of the load
    Workers         \* min(8, jobs) in the code

VARIABLES
    conn,           \* "none", "ibkr", "yfinance": what Connect() reached
    ctx,            \* "live", "spent" (the budget), "dead" (the caller or 8 s)
    jobs,           \* the channel
    hand,           \* worker |-> the job it runs, or Idle, or Gone
    quotes, bars,   \* the maps of the snapshot
    pc,
    warned,         \* the warnings of the answer
    rows            \* its rows: a set of [id, quote, bar, basis]

vars == <<conn, ctx, jobs, hand, quotes, bars, pc, warned, rows>>

Absent == [from |-> "nobody", val |-> 0]
Idle == [kind |-> "idle", id |-> "none"]
Gone == [kind |-> "gone", id |-> "none"]
Job(kind, id) == [kind |-> kind, id |-> id]

(* A quote is worth something or not; bars are missing, empty, of another   *)
(* session, or of this one.                                                 *)
Quotes(source) == {[from |-> source, val |-> v] : v \in {0, 1}}
Bars(source) == {[from |-> source, val |-> v] : v \in {0, 1, 2}}
Usable(q) == q.val > 0
SomeBars(b) == b.val > 0
OfSession(b) == b.val = 2

Orders == {s \in [1 .. Cardinality(Symbols) -> Symbols] : {s[i] : i \in DOMAIN s} = Symbols}
JobsOf(order) ==                    \* interleaved: a quote, its bars, the next
    [i \in 1 .. 2 * Len(order) |->
        Job(IF i % 2 = 1 THEN "quote" ELSE "bars", order[(i + 1) \div 2])]

Init ==
    /\ conn = "none" /\ ctx = "live" /\ jobs = <<>> /\ hand = [w \in Workers |-> Idle]
    /\ quotes = [s \in Symbols |-> Absent] /\ bars = [s \in Symbols |-> Absent]
    /\ pc = "connect" /\ warned = {} /\ rows = {}

-----------------------------------------------------------------------------
(* BrokerSource.snapshot.  The connection is IBKR's or, when its gateway    *)
(* does not answer, Yahoo's; no connection leaves both maps empty.          *)
Connect ==
    /\ pc = "connect"
    /\ \/ /\ conn' \in {"ibkr", "yfinance"} /\ pc' = "primary"
          /\ \E order \in Orders : jobs' = JobsOf(order)
          /\ UNCHANGED warned
       \/ /\ pc' = "joined" /\ warned' = warned \cup {"degraded"}
          /\ UNCHANGED <<conn, jobs>>
    /\ UNCHANGED <<ctx, hand, quotes, bars, rows>>

Take(w) ==
    /\ pc = "primary" /\ hand[w] = Idle
    /\ IF jobs = <<>>
       THEN hand' = [hand EXCEPT ![w] = Gone] /\ UNCHANGED jobs
       ELSE /\ jobs' = Tail(jobs)
            /\ hand' = [hand EXCEPT ![w] = IF ctx = "live" THEN Head(jobs) ELSE Gone]
    /\ UNCHANGED <<conn, ctx, quotes, bars, pc, warned, rows>>

(* quotesFromBroker and barsFromBroker: an error leaves the symbol out.     *)
QuoteJob(w) ==
    /\ hand[w].kind = "quote"
    /\ \E q \in Quotes(conn) \cup {Absent} : quotes' = [quotes EXCEPT ![hand[w].id] = q]
    /\ hand' = [hand EXCEPT ![w] = Idle]
    /\ UNCHANGED <<conn, ctx, jobs, bars, pc, warned, rows>>

BarsJob(w) ==
    /\ hand[w].kind = "bars"
    /\ \E b \in Bars(conn) \cup {Absent} : bars' = [bars EXCEPT ![hand[w].id] = b]
    /\ hand' = [hand EXCEPT ![w] = Idle]
    /\ UNCHANGED <<conn, ctx, jobs, quotes, pc, warned, rows>>

Join ==
    /\ pc = "primary" /\ \A w \in Workers : hand[w] = Gone
    /\ pc' = "joined"
    /\ UNCHANGED <<conn, ctx, jobs, hand, quotes, bars, warned, rows>>

ContextEnds ==
    /\ pc \in {"connect", "primary", "joined"}
    /\ \/ ctx = "live" /\ ctx' = "spent"
       \/ ctx # "dead" /\ ctx' = "dead"
    /\ UNCHANGED <<conn, jobs, hand, quotes, bars, pc, warned, rows>>

-----------------------------------------------------------------------------
(* BrokerSource.Snapshot: what is incomplete is asked of Yahoo in one batch;*)
(* its marks are the closes of its bars.  A pair is replaced as a whole, and*)
(* what was asked for is an error that becomes a warning.                   *)
Incomplete == {s \in Symbols : ~Usable(quotes[s]) \/ ~SomeBars(bars[s])}

FillEach(q, b) ==                   \* mutant: each of the pair on its own
    /\ quotes' = [s \in Symbols |-> IF s \in Incomplete /\ ~Usable(quotes[s]) /\ Usable(q[s])
                                    THEN q[s] ELSE quotes[s]]
    /\ bars' = [s \in Symbols |-> IF s \in Incomplete /\ ~SomeBars(bars[s]) /\ SomeBars(b[s])
                                  THEN b[s] ELSE bars[s]]
Fill(q, b) ==
    LET filled == {s \in Incomplete : Usable(q[s]) /\ SomeBars(b[s])}
    IN /\ quotes' = [s \in Symbols |-> IF s \in filled THEN q[s] ELSE quotes[s]]
       /\ bars' = [s \in Symbols |-> IF s \in filled THEN b[s] ELSE bars[s]]

FallbackBars == [Symbols -> Bars("yfinance") \cup {Absent}]
Marks(b) == {q \in [Symbols -> Quotes("yfinance") \cup {Absent}] :
                \A s \in Symbols : (q[s] = Absent) = ~SomeBars(b[s])}

Fallback ==
    /\ pc = "joined"
    /\ IF Incomplete = {} \/ ctx = "dead"
       THEN UNCHANGED <<quotes, bars, warned>>
       ELSE /\ \E b \in FallbackBars : \E q \in Marks(b) : Fill(q, b)
            /\ warned' = warned \cup {"degraded"}
    /\ pc' = "loaded"
    /\ UNCHANGED <<conn, ctx, jobs, hand, rows>>

-----------------------------------------------------------------------------
(* partialDataWarnings counts the entries of each map.                      *)
PartialData ==
    {w \in {"quotes", "bars"} :
        \E s \in Symbols : (IF w = "quotes" THEN quotes[s] ELSE bars[s]) = Absent}

BasisOf(source) == IF source = "ibkr" THEN "realtime" ELSE "delayed"

(* computeMovers: nothing at all, or a row for each symbol with a price and *)
(* an open of this session.                                                 *)
Movers ==
    {[id |-> s, quote |-> quotes[s].from, bar |-> bars[s].from,
      basis |-> BasisOf(quotes[s].from)] :
        s \in {s \in Symbols : Usable(quotes[s]) /\ OfSession(bars[s])}}

Compute ==
    /\ pc = "loaded"
    /\ LET load == warned \cup PartialData
           empty == \/ \A s \in Symbols : quotes[s] = Absent
                    \/ \A s \in Symbols : bars[s] = Absent
       IN /\ rows' = IF load # {} /\ empty THEN {} ELSE Movers
          /\ warned' = load \cup (IF rows' = {} /\ ~(load # {} /\ empty) THEN {"no movers"} ELSE {})
    /\ pc' = "done"
    /\ UNCHANGED <<conn, ctx, jobs, hand, quotes, bars>>

Next ==
    \/ Connect \/ Join \/ ContextEnds \/ Fallback \/ Compute
    \/ \E w \in Workers : Take(w) \/ QuoteJob(w) \/ BarsJob(w)

Spec == Init /\ [][Next]_vars

-----------------------------------------------------------------------------
TypeOK ==
    /\ ctx \in {"live", "spent", "dead"}
    /\ warned \subseteq {"degraded", "quotes", "bars", "no movers"}

(* Whatever failed or came late: a row is of one source and carries its     *)
(* basis, so that delayed bars never pass for IBKR's; and a symbol that has *)
(* no row because something of it did not arrive is announced.              *)
RowsAreHonest ==
    pc = "done" =>
        /\ \A r \in rows : r.quote = r.bar /\ (r.basis = "realtime" => r.bar = "ibkr")
        /\ warned = {} => \A s \in Symbols : quotes[s] # Absent /\ bars[s] # Absent

=============================================================================
