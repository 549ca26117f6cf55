--------------------------- MODULE ServicesProofs ---------------------------
(***************************************************************************)
(* The services, for any number of callers, instruments, workers, commits  *)
(* and days.                                                               *)
(*                                                                         *)
(* Each component has an inductive invariant of its own; a step of the     *)
(* composition is a step of the component or leaves its variables alone.   *)
(***************************************************************************)
EXTENDS Services, SumTheorems

-----------------------------------------------------------------------------
(* The shared fetch.  A request that asks again has seen the builder die    *)
(* that it waited for; that one is done and out of the next flight, so a    *)
(* second builder that dies is another.                                     *)

FetchShapes ==
    /\ pc \in [Callers -> {"idle", "do", "wait", "load", "done"}]
    /\ alive \in [Callers -> BOOLEAN]
    /\ tries \in [Callers -> Nat]
    /\ answer = [c \in Callers |-> answer[c]]
    /\ leader \in Callers \cup {Nobody}

DeadAndGone(d) == ~alive[d] /\ pc[d] = "done"

SecondChance ==
    /\ leader # Nobody => pc[leader] = "wait"
    /\ \A c \in Callers : pc[c] # "load"
    /\ \A c \in Callers : pc[c] = "idle" => tries[c] = 0
    /\ \A c \in Callers :
          tries[c] # 0 /\ pc[c] \in {"do", "wait"} => \E d \in Callers : DeadAndGone(d)

TwoDied == \E d, e \in Callers : d # e /\ ~alive[d] /\ ~alive[e]

PulseSafe ==
    /\ FetchShapes
    /\ kind = "pulse" =>
          /\ SecondChance
          /\ cache.value # "cut"
          /\ \A c \in Callers : alive[c] /\ answer[c] = "cut" => TwoDied

LEMMA FetchInit == Init => PulseSafe
<1>1. Init => FetchShapes
  BY DEF Init, FetchShapes
<1>2. Init => SecondChance /\ cache.value # "cut"
  BY DEF Init, SecondChance, Empty
<1>3. Init => \A c \in Callers : answer[c] # "cut"
  BY DEF Init
<1>. QED
  BY <1>1, <1>2, <1>3 DEF PulseSafe

(* Who died stays dead.                                                     *)
LEMMA DeathIsFinal ==
    ASSUME FetchShapes, [Next]_vars
    PROVE  /\ \A c \in Callers : ~alive[c] => ~alive'[c]
           /\ \A c \in Callers : pc[c] = "done" => pc'[c] = "done"
           /\ TwoDied => TwoDied'
<1>1. /\ \A c \in Callers : ~alive[c] => ~alive'[c]
      /\ \A c \in Callers : pc[c] = "done" => pc'[c] = "done"
  <2>1. ASSUME NEW c \in Callers, Serve(c) \/ CtxDone(c)
        PROVE  <1>1!:
    BY <2>1 DEF FetchShapes, Serve, Hit, Miss, Lead, Join, Load, CtxDone, Goto
  <2>2. CASE EndFlight
    BY <2>2 DEF FetchShapes, EndFlight
  <2>3. CASE Tick
    BY <2>3 DEF Tick
  <2>4. CASE UNCHANGED vars
    BY <2>4 DEF vars
  <2>. QED
    BY <2>1, <2>2, <2>3, <2>4 DEF Next
<1>. QED
  BY <1>1 DEF TwoDied

LEMMA FetchShapesKept ==
    ASSUME FetchShapes, [Next]_vars
    PROVE  FetchShapes'
<1>. USE DEF FetchShapes
<1>1. ASSUME NEW c \in Callers, Serve(c) \/ CtxDone(c)
      PROVE  FetchShapes'
  <2>1. CASE Hit(c)
    BY <2>1 DEF Hit, Goto
  <2>2. CASE Miss(c)
    BY <2>2 DEF Miss, Goto
  <2>3. CASE Lead(c)
    BY <2>3 DEF Lead, Goto
  <2>4. CASE Join(c)
    BY <2>4 DEF Join, Goto
  <2>5. CASE Load(c)
    BY <2>5 DEF Load, Goto
  <2>6. CASE CtxDone(c)
    BY <2>6 DEF CtxDone
  <2>. QED
    BY <1>1, <2>1, <2>2, <2>3, <2>4, <2>5, <2>6 DEF Serve
<1>2. CASE EndFlight
  <2>. DEFINE waiting == {c \in Callers : pc[c] = "wait"}
              again == {c \in waiting : AsksAgain(c)}
  <2>1. /\ pc' = [c \in Callers |-> IF c \in again THEN "do"
                                    ELSE IF c \in waiting THEN "done" ELSE pc[c]]
        /\ tries' = [c \in Callers |-> IF c \in waiting THEN tries[c] + 1 ELSE tries[c]]
    BY <1>2, Zenon DEF EndFlight
  <2>2. PICK value : answer' = [c \in Callers |-> IF c \in waiting \ again THEN value
                                                  ELSE answer[c]]
    BY <1>2, Zenon DEF EndFlight
  <2>3. answer' = [c \in Callers |-> answer'[c]]
    BY <2>2
  <2>. QED
    BY <1>2, <2>1, <2>3 DEF EndFlight
<1>3. CASE Tick
  BY <1>3 DEF Tick
<1>4. CASE UNCHANGED vars
  BY <1>4 DEF vars
<1>. QED
  BY <1>1, <1>2, <1>3, <1>4 DEF Next

(* A request that is cut short though it lives was waiting for a second     *)
(* builder that died: of its first it was told to ask again.                *)
LEMMA CutTwice ==
    ASSUME PulseSafe, kind = "pulse", EndFlight,
           NEW c \in Callers, alive[c], answer'[c] = "cut", answer[c] # "cut"
    PROVE  TwoDied
<1>. USE DEF PulseSafe, FetchShapes, SecondChance
<1>. DEFINE waiting == {d \in Callers : pc[d] = "wait"}
            again == {d \in waiting : AsksAgain(d)}
<1>1. PICK value \in Fetched(leader) :
          answer' = [d \in Callers |-> IF d \in waiting \ again THEN value ELSE answer[d]]
  BY Zenon DEF EndFlight
<1>2. c \in waiting /\ c \notin again /\ value = "cut"
  BY <1>1
<1>3. leader \in Callers /\ ~alive[leader] /\ pc[leader] = "wait"
  BY <1>1, <1>2 DEF EndFlight, Fetched
<1>4. tries[c] # 0
  BY <1>2, <1>3 DEF AsksAgain
<1>5. PICK d \in Callers : DeadAndGone(d)
  BY <1>2, <1>4
<1>. QED
  BY <1>3, <1>5 DEF TwoDied, DeadAndGone

LEMMA SecondChanceKept ==
    ASSUME PulseSafe, kind = "pulse", [Next]_vars
    PROVE  SecondChance'
<1>. USE DEF PulseSafe, FetchShapes, SecondChance
<1>1. FetchShapes'
  BY FetchShapesKept
<1>2. \A d \in Callers : DeadAndGone(d) => DeadAndGone(d)'
  BY DeathIsFinal DEF DeadAndGone
<1>3. ASSUME NEW c \in Callers, Serve(c) \/ CtxDone(c)
      PROVE  SecondChance'
  <2>1. CASE Hit(c)
    BY <1>2, <2>1 DEF Hit, Goto
  <2>2. CASE Miss(c)
    BY <1>2, <2>2 DEF Miss, Goto
  <2>3. CASE Lead(c)
    BY <1>2, <2>3, SharedFetchAssumption DEF Lead, Goto
  <2>4. CASE Join(c)
    BY <1>2, <2>4 DEF Join, Goto
  <2>5. CASE CtxDone(c)
    BY <1>2, <2>5 DEF CtxDone
  <2>. QED
    BY <1>3, <2>1, <2>2, <2>3, <2>4, <2>5 DEF Serve, Load
<1>4. CASE EndFlight
  <2>. DEFINE waiting == {c \in Callers : pc[c] = "wait"}
              again == {c \in waiting : AsksAgain(c)}
  <2>1. /\ pc' = [c \in Callers |-> IF c \in again THEN "do"
                                    ELSE IF c \in waiting THEN "done" ELSE pc[c]]
        /\ tries' = [c \in Callers |-> IF c \in waiting THEN tries[c] + 1 ELSE tries[c]]
        /\ leader' = Nobody /\ alive' = alive
    BY <1>4, Zenon DEF EndFlight
  <2>2. again # {} => ~alive[leader]
    BY DEF AsksAgain
  <2>3. leader \in Callers /\ leader \in waiting /\ leader \notin again
    BY <1>4 DEF EndFlight, AsksAgain
  <2>5. PICK d \in Callers : d = leader
    BY <1>4 DEF EndFlight
  <2>6. again # {} => ~alive'[d] /\ pc'[d] = "done"
    BY <1>4, <2>1, <2>2, <2>3, <2>5 DEF EndFlight
  <2>4. ASSUME NEW c \in Callers, tries'[c] # 0, pc'[c] \in {"do", "wait"}
        PROVE  \E e \in Callers : DeadAndGone(e)'
    <3>1. CASE c \in again
      BY <2>6, <3>1 DEF DeadAndGone
    <3>2. CASE c \notin again
      BY <1>2, <2>1, <2>4, <3>2
    <3>. QED
      BY <3>1, <3>2
  <2>. QED
    BY <2>1, <2>4
<1>5. CASE Tick
  BY <1>5 DEF Tick, DeadAndGone
<1>6. CASE UNCHANGED vars
  BY <1>6 DEF vars, DeadAndGone
<1>. QED
  BY <1>3, <1>4, <1>5, <1>6 DEF Next

LEMMA FetchStep ==
    ASSUME PulseSafe, [Next]_vars
    PROVE  PulseSafe'
<1>. USE DEF PulseSafe
<1>1. FetchShapes' /\ kind' = kind
  BY FetchShapesKept DEF Next, Serve, Hit, Miss, Lead, Join, Load, EndFlight, CtxDone, Tick, vars
<1>. SUFFICES ASSUME kind = "pulse"
              PROVE  PulseSafe'
  BY <1>1
<1>2. SecondChance'
  BY SecondChanceKept
<1>3. cache'.value # "cut"
  <2>1. CASE EndFlight
    <3>1. PICK value \in Fetched(leader) :
             StorePulse(leader, value)
      BY <2>1 DEF EndFlight
    <3>. QED
      BY <3>1 DEF StorePulse, Fetched
  <2>2. CASE cache' = cache
    BY <2>2
  <2>. QED
    BY <2>1, <2>2 DEF Next, Serve, Hit, Miss, Lead, Join, Load, CtxDone, Tick, vars,
       SecondChance
<1>4. ASSUME NEW c \in Callers, alive'[c], answer'[c] = "cut"
      PROVE  TwoDied'
  <2>1. alive[c]
    BY <1>4, DeathIsFinal
  <2>2. CASE answer[c] = "cut"
    BY <2>1, <2>2, DeathIsFinal
  <2>3. CASE answer[c] # "cut"
    <3>1. EndFlight
      BY <1>4, <2>3 DEF Next, Serve, Hit, Miss, Lead, Join, Load, CtxDone, Tick, vars,
         SecondChance, FetchShapes
    <3>. QED
      BY <1>4, <2>1, <2>3, <3>1, CutTwice, DeathIsFinal
  <2>. QED
    BY <2>2, <2>3
<1>. QED
  BY <1>1, <1>2, <1>3, <1>4

(* Two that died are at least two.                                          *)
LEMMA TwoAreTwo ==
    TwoDied => Cardinality({d \in Callers : ~alive[d]}) >= 2
<1>. SUFFICES ASSUME NEW d \in Callers, NEW e \in Callers, d # e, ~alive[d], ~alive[e]
              PROVE  Cardinality({x \in Callers : ~alive[x]}) >= 2
  BY DEF TwoDied
<1>1. {d, e} \subseteq {x \in Callers : ~alive[x]}
  OBVIOUS
<1>2. IsFiniteSet({x \in Callers : ~alive[x]})
  BY SharedFetchAssumption, FS_Subset
<1>3. Cardinality({d}) = 1 /\ IsFiniteSet({d})
  BY FS_Singleton
<1>4. Cardinality({d} \cup {e}) = 2
  BY <1>3, FS_AddElement
<1>5. {d} \cup {e} = {d, e}
  OBVIOUS
<1>6. Cardinality({d, e}) <= Cardinality({x \in Callers : ~alive[x]})
  BY <1>1, <1>2, FS_Subset
<1>. QED
  BY <1>2, <1>4, <1>5, <1>6, FS_CardinalityType

LEMMA PulseServed == PulseSafe => HealthyIsServed
BY TwoAreTwo DEF PulseSafe, HealthyIsServed

(* No request that goes away spoils the market pulse of another, unless two *)
(* builders in a row do.                                                    *)
THEOREM PulseOutlivesItsBuilder == ServicesSpec => []HealthyIsServed
<1>1. ServicesInit => PulseSafe
  BY FetchInit DEF ServicesInit, NoFetch
<1>2. PulseSafe /\ [ServicesNext]_allVars => PulseSafe'
  <2>1. [ServicesNext]_allVars => [Next]_vars
    BY DEF ServicesNext, allVars, vars, Fetching, Caching, Migrating, ShuttingDown, Viewing, Loading,
       Alarming, Reporting, Weighing, Analysing
  <2>. QED
    BY <2>1, FetchStep
<1>. QED
  BY <1>1, <1>2, PulseServed, PTL DEF ServicesSpec

(* Whoever waits for a flight waits for one that is under way, whose        *)
(* builder is among those that its end will answer.                         *)
FlightForAll ==
    /\ leader # Nobody => pc[leader] = "wait"
    /\ \A c \in Callers : pc[c] = "wait" => leader # Nobody

(* Nobody waits for a fetch that nobody runs: through ends, joins, second   *)
(* flights and contexts that die, a waiter has a builder (singleflight in   *)
(* marketdata/pulse.go, webui/quotes.go and webui/live.go).                 *)
THEOREM WaitersHaveABuilder == ServicesSpec => []FlightForAll
<1>1. ServicesInit => FetchShapes /\ FlightForAll
  BY FetchInit DEF ServicesInit, NoFetch, Init, PulseSafe, FlightForAll
<1>2. FetchShapes /\ FlightForAll /\ [ServicesNext]_allVars => FetchShapes' /\ FlightForAll'
  <2>. SUFFICES ASSUME FetchShapes, FlightForAll, [ServicesNext]_allVars
                PROVE  FetchShapes' /\ FlightForAll'
    OBVIOUS
  <2>1. [Next]_vars
    BY DEF ServicesNext, allVars, vars, Fetching, Caching, Migrating, ShuttingDown, Viewing, Loading,
       Alarming, Reporting, Weighing, Analysing
  <2>2. FetchShapes'
    BY <2>1, FetchShapesKept
  <2>3. ASSUME NEW c \in Callers, Serve(c) \/ CtxDone(c) PROVE FlightForAll'
    <3>1. CASE Hit(c)
      BY <3>1 DEF Hit, Goto, FetchShapes, FlightForAll
    <3>2. CASE Miss(c)
      BY <3>2 DEF Miss, Goto, FetchShapes, FlightForAll
    <3>3. CASE Lead(c)
      BY <3>3, SharedFetchAssumption DEF Lead, Goto, FetchShapes, FlightForAll
    <3>4. CASE Join(c)
      BY <3>4 DEF Join, Goto, FetchShapes, FlightForAll
    <3>5. CASE Load(c)
      BY <3>5 DEF Load, Goto, FetchShapes, FlightForAll
    <3>6. CASE CtxDone(c)
      BY <3>6 DEF CtxDone, FlightForAll
    <3>. QED
      BY <2>3, <3>1, <3>2, <3>3, <3>4, <3>5, <3>6 DEF Serve
  <2>4. CASE EndFlight
    <3>1. leader' = Nobody /\ \A c \in Callers : pc'[c] # "wait"
      BY <2>4 DEF EndFlight
    <3>. QED
      BY <2>2, <3>1 DEF FlightForAll
  <2>5. CASE Tick \/ UNCHANGED vars
    BY <2>2, <2>5 DEF Tick, vars, FlightForAll
  <2>. QED
    BY <2>1, <2>2, <2>3, <2>4, <2>5 DEF Next
<1>. QED
  BY <1>1, <1>2, PTL DEF ServicesSpec

-----------------------------------------------------------------------------
(* The migration.  Its promise speaks of what is published, StagedWell of   *)
(* the two staged files it comes from: from the snapshot on the backup has  *)
(* what was committed at the start, from the comparison on the pending copy *)
(* is the backup's.  Unpublished: until the link the destination is not     *)
(* Migrate's, whoever else made it.                                         *)

HomeFiles == [by : {"nobody", "migrate", "other"}, commits : Nat, whole : BOOLEAN,
          durable : BOOLEAN]

HomeShapes ==
    /\ commits \in Nat /\ before \in 0 .. commits
    /\ target \in HomeFiles /\ backup \in HomeFiles /\ pending \in HomeFiles

StagedWell ==
    /\ dPc \in {"copy", "compare", "link", "sync", "done", "unsure"} =>
          backup.whole /\ before <= backup.commits
    /\ dPc \in {"compare", "link"} =>
          pending.by = "migrate" /\ pending.commits = backup.commits
    /\ dPc = "link" => pending.whole

Unpublished ==
    /\ dPc \in {"start", "snapshot", "copy", "compare", "link"} => target.by # "migrate"
    /\ dPc = "sync" => target.by = "migrate" /\ target.commits = backup.commits

HomeSafe == HomeShapes /\ StagedWell /\ Unpublished /\ DM!MigrationLosesNothing

-----------------------------------------------------------------------------
(* Nothing is staged, and the destination is nobody's.                      *)
LEMMA HomeInit == DM!Init => HomeSafe
BY DEF DM!Init, HomeSafe, HomeShapes, HomeFiles, DM!NoFile, StagedWell, Unpublished, DM!MigrationLosesNothing

(* An error before the link leaves the destination to whom it belongs.      *)
LEMMA HomeFail ==
    ASSUME HomeSafe, DM!Fail, dPc \in {"start", "snapshot", "copy", "compare", "link"}
    PROVE  HomeSafe'
BY DEF HomeSafe, DM!Fail, HomeShapes, HomeFiles, DM!NoFile, StagedWell, Unpublished, DM!MigrationLosesNothing

(* Each step of Migrate, where it goes on.                                  *)
LEMMA HomeMigrate ==
    ASSUME HomeSafe, DM!Migrate
    PROVE  HomeSafe'
<1> USE DEF HomeSafe, HomeShapes, StagedWell, Unpublished, DM!MigrationLosesNothing
<1>1. CASE DM!Check
  BY <1>1, HomeFail DEF DM!Check
<1>2. CASE DM!Snapshot
  <2>1. CASE backup' = [by |-> "migrate", commits |-> commits, whole |-> TRUE,
                        durable |-> FALSE]
    <3>1. backup' \in HomeFiles /\ backup'.whole /\ backup'.commits = commits
      BY <2>1 DEF HomeFiles
    <3> QED BY <1>2, <2>1, <3>1, HomeFail DEF DM!Snapshot
  <2> QED BY <1>2, <2>1, HomeFail DEF DM!Snapshot
<1>3. CASE DM!Copy
  <2>1. ASSUME NEW whole \in BOOLEAN,
               pending' = [by |-> "migrate", commits |-> backup.commits,
                           whole |-> whole, durable |-> TRUE]
        PROVE  /\ pending' \in HomeFiles /\ pending'.by = "migrate"
               /\ pending'.commits = backup.commits
    <3>1. backup.commits \in Nat
      BY DEF HomeFiles
    <3> QED BY <2>1, <3>1 DEF HomeFiles
  <2> QED BY <1>3, <2>1, HomeFail DEF DM!Copy
<1>4. CASE DM!Compare
  <2>1. backup' = [backup EXCEPT !.durable = TRUE] =>
          backup' \in HomeFiles /\ backup'.whole = backup.whole
            /\ backup'.commits = backup.commits
    BY DEF HomeFiles
  <2> QED BY <1>4, <2>1, HomeFail DEF DM!Compare, DM!ChecksumsAgree
<1>5. CASE DM!Publish
  <2>1. target' = [pending EXCEPT !.durable = FALSE] =>
          /\ target' \in HomeFiles /\ target'.whole = pending.whole
          /\ target'.by = pending.by /\ target'.commits = pending.commits
    BY DEF HomeFiles
  <2>2. DM!NoFile \in HomeFiles /\ DM!NoFile.by = "nobody"
    BY DEF DM!NoFile, HomeFiles
  <2> QED BY <1>5, <2>1, <2>2, HomeFail DEF DM!Publish
<1>6. CASE DM!SyncDir
  <2>1. target' = [target EXCEPT !.durable = TRUE] =>
          /\ target' \in HomeFiles /\ target'.whole = target.whole
          /\ target'.by = target.by /\ target'.commits = target.commits
    BY DEF HomeFiles
  <2> QED BY <1>6, <2>1 DEF DM!SyncDir
<1> QED
  BY <1>1, <1>2, <1>3, <1>4, <1>5, <1>6 DEF DM!Migrate

(* The rest of the world: the end of the process or of the machine, the     *)
(* source's writers, programs that open the destination.                    *)
LEMMA HomeWorld ==
    ASSUME HomeSafe, DM!Kill \/ DM!PowerLoss \/ DM!Commit \/ DM!OtherOpens
    PROVE  HomeSafe'
<1> USE DEF HomeSafe, HomeShapes, StagedWell, Unpublished, DM!MigrationLosesNothing
<1>1. DM!NoFile \in HomeFiles /\ DM!NoFile.by = "nobody"
  BY DEF DM!NoFile, HomeFiles
<1>2. CASE DM!Kill
  BY <1>2 DEF DM!Kill, DM!Running
<1>3. CASE DM!PowerLoss
  <2>1. target' = target \/ (target' = DM!NoFile /\ ~foreign)
    BY <1>3 DEF DM!PowerLoss
  <2>2. [backup EXCEPT !.whole = @ /\ backup.durable] \in HomeFiles
    <3>1. \A f \in HomeFiles, x \in BOOLEAN : [f EXCEPT !.whole = x] \in HomeFiles
      BY DEF HomeFiles
    <3>2. (backup.whole /\ backup.durable) \in BOOLEAN
      BY Zenon
    <3> QED BY <3>1, <3>2, Zenon
  <2>3. backup' \in HomeFiles /\ pending' \in HomeFiles
    BY <1>1, <1>3, <2>2 DEF DM!PowerLoss
  <2> QED BY <1>1, <1>3, <2>1, <2>3 DEF DM!PowerLoss
<1>4. CASE DM!Commit
  BY <1>4 DEF DM!Commit
<1>5. CASE DM!OtherOpens
  <2>1. CASE target = DM!NoFile
    <3>1. target' = [by |-> "other", commits |-> 0, whole |-> TRUE, durable |-> FALSE]
      BY <1>5, <2>1 DEF DM!OtherOpens
    <3>2. target'.by = "other" /\ target' \in HomeFiles
      BY <3>1 DEF HomeFiles
    <3>3. dPc \notin {"sync", "done", "unsure"}
      BY <1>1, <2>1
    <3> QED BY <1>5, <3>2, <3>3 DEF DM!OtherOpens
  <2>2. CASE target # DM!NoFile
    BY <1>5, <2>2 DEF DM!OtherOpens
  <2> QED BY <2>1, <2>2
<1> QED
  BY <1>2, <1>3, <1>4, <1>5

LEMMA HomeStep ==
    ASSUME HomeSafe, [DM!Next]_DM!vars
    PROVE  HomeSafe'
<1>1. CASE UNCHANGED DM!vars
  BY <1>1 DEF DM!vars, HomeSafe, HomeShapes, StagedWell, Unpublished,
     DM!MigrationLosesNothing
<1>. QED
  BY <1>1, HomeMigrate, HomeWorld DEF DM!Next

(* Whatever fails, and wherever the process or the machine stops: what was  *)
(* published is whole and has all that was committed when Migrate began,    *)
(* and no other program's database was replaced.                            *)
THEOREM NothingIsLost == ServicesSpec => []MigrationLosesNothing
<1>1. ServicesInit => HomeSafe
  BY HomeInit DEF ServicesInit, NoMigrate
<1>2. HomeSafe /\ [ServicesNext]_allVars => HomeSafe'
  <2>1. [ServicesNext]_allVars => [DM!Next]_DM!vars
    BY DEF ServicesNext, allVars, dVars, DM!vars, Fetching, Caching, Migrating, ShuttingDown,
       Viewing, Loading, Alarming, Reporting, Weighing, Analysing
  <2>. QED
    BY <2>1, HomeStep
<1>3. HomeSafe => MigrationLosesNothing
  BY DEF HomeSafe, MigrationLosesNothing
<1>. QED
  BY <1>1, <1>2, <1>3, PTL DEF ServicesSpec

(* Seen from outside.  The steps before the link stage a copy, the link is  *)
(* the move; what the contract knows in addition is when the move began     *)
(* (HomeBegun), and that nobody's destination is no file at all and that of *)
(* another program is known to be foreign (HomeOwned).                      *)
HomeBegun ==
    /\ commits > 0 /\ backup.commits <= commits
    /\ dPc = "start" => before = 0
    /\ dPc \in {"snapshot", "copy", "compare", "link"} => before > 0

HomeOwned ==
    /\ target.by = "nobody" => target = DM!NoFile
    /\ target.by = "other" => foreign

HomeKnown == HomeSafe /\ HomeBegun /\ HomeOwned

LEMMA NoFileIs ==
    /\ DM!NoFile \in HomeFiles /\ DM!NoFile.by = "nobody" /\ DM!NoFile.commits = 0
    /\ DM!NoFile.whole = FALSE /\ DM!NoFile.durable = FALSE
BY DEF DM!NoFile, HomeFiles

LEMMA KnownInit == DM!Init => HomeKnown
<1> SUFFICES ASSUME DM!Init PROVE HomeKnown
  OBVIOUS
<1>1. HomeSafe
  BY HomeInit
<1> QED
  BY <1>1, NoFileIs DEF DM!Init, HomeKnown, HomeBegun, HomeOwned

LEMMA KnownStep ==
    ASSUME HomeKnown, [DM!Next]_DM!vars
    PROVE  HomeKnown'
<1>1. HomeSafe'
  BY HomeStep DEF HomeKnown
<1>2. backup \in HomeFiles /\ commits \in Nat /\ before \in Nat
  BY DEF HomeKnown, HomeSafe, HomeShapes
<1> USE DEF HomeKnown, HomeBegun, HomeOwned
<1>3. CASE UNCHANGED DM!vars
  BY <1>1, <1>3 DEF DM!vars
<1>4. CASE DM!Fail /\ dPc # "failed"
  BY <1>1, <1>2, <1>4, NoFileIs DEF DM!Fail
<1>5. CASE DM!Check /\ ~DM!Fail
  BY <1>1, <1>2, <1>5 DEF DM!Check
<1>6. CASE DM!Snapshot /\ ~DM!Fail
  <2>1. backup'.commits = commits
    BY <1>6 DEF DM!Snapshot
  <2> QED BY <1>1, <1>2, <1>6, <2>1 DEF DM!Snapshot
<1>7. CASE DM!Copy /\ ~DM!Fail
  BY <1>1, <1>2, <1>7 DEF DM!Copy
<1>8. CASE DM!Compare /\ ~DM!Fail
  <2>1. backup'.commits = backup.commits
    BY <1>2, <1>8 DEF DM!Compare, HomeFiles
  <2> QED BY <1>1, <1>2, <1>8, <2>1 DEF DM!Compare
<1>9. CASE DM!Publish /\ ~DM!Fail
  <2>1. target'.by = "migrate"
    BY <1>9 DEF DM!Publish, HomeSafe, HomeShapes, HomeFiles, StagedWell
  <2> QED BY <1>1, <1>2, <1>9, <2>1 DEF DM!Publish
<1>10. CASE DM!SyncDir
  <2>1. target'.by = "migrate"
    BY <1>10 DEF DM!SyncDir, HomeSafe, HomeShapes, HomeFiles, Unpublished
  <2> QED BY <1>1, <1>2, <1>10, <2>1 DEF DM!SyncDir
<1>11. CASE DM!Kill
  BY <1>1, <1>2, <1>11 DEF DM!Kill
<1>12. CASE DM!PowerLoss
  <2>1. backup'.commits \in {backup.commits, 0}
    <3>1. [backup EXCEPT !.whole = @ /\ backup.durable].commits = backup.commits
      BY <1>2 DEF HomeFiles
    <3> QED BY <1>12, <3>1, NoFileIs DEF DM!PowerLoss
  <2>2. target' = target \/ target' = DM!NoFile
    BY <1>12 DEF DM!PowerLoss
  <2> QED BY <1>1, <1>2, <1>12, <2>1, <2>2, NoFileIs DEF DM!PowerLoss
<1>13. CASE DM!Commit
  BY <1>1, <1>2, <1>13 DEF DM!Commit, HomeFiles
<1>14. CASE DM!OtherOpens
  BY <1>1, <1>2, <1>14 DEF DM!OtherOpens
<1> QED
  BY <1>3, <1>4, <1>5, <1>6, <1>7, <1>8, <1>9, <1>10, <1>11, <1>12, <1>13, <1>14
     DEF DM!Next, DM!Migrate, DM!Check, DM!Snapshot, DM!Copy, DM!Compare, DM!Publish, DM!Fail

Seen(f) == [by |-> f.by, commits |-> f.commits, whole |-> f.whole]
CopyOf(f) == [commits |-> f.commits, whole |-> f.whole]

(* Each action of the contract, in the terms of the mapping.                *)
LEMMA MoveInit == DM!Init => MV!Init
BY NoFileIs DEF DM!Init, DM!Running, MV!Init, MV!Nobody, MV!NoCopy

(* An error before the link.                                                *)
LEMMA FailMoves ==
    ASSUME HomeKnown, DM!Fail, dPc \in {"start", "snapshot", "copy", "compare", "link"}
    PROVE  MV!Next
<1>1. target.by # "migrate"
  BY DEF HomeKnown, HomeSafe, Unpublished
<1>2. DM!Running /\ ~DM!Running' /\ dPc' = "failed"
  BY DEF DM!Running, DM!Fail
<1>3. CopyOf(backup') = MV!NoCopy
  BY NoFileIs DEF DM!Fail, CopyOf, MV!NoCopy
<1>4. MV!Fail
  BY <1>1, <1>2, <1>3 DEF MV!Fail, DM!Fail, CopyOf
<1> QED
  BY <1>4 DEF MV!Next

LEMMA MigrateMoves ==
    ASSUME HomeKnown, HomeKnown', DM!Migrate
    PROVE  MV!Next \/ UNCHANGED MV!vars
<1>1. /\ target \in HomeFiles /\ backup \in HomeFiles /\ pending \in HomeFiles
      /\ commits \in Nat /\ before \in 0 .. commits
  BY DEF HomeKnown, HomeSafe, HomeShapes
<1>2. CASE DM!Fail /\ dPc \in {"start", "snapshot", "copy", "compare", "link"}
  BY <1>2, FailMoves
<1>3. CASE DM!Check /\ ~DM!Fail
  <2>1. Seen(target) = MV!Nobody
    BY <1>3, NoFileIs DEF DM!Check, Seen, MV!Nobody
  <2>2. DM!Running /\ DM!Running'
    BY <1>3 DEF DM!Check, DM!Running
  <2>3. before = 0
    BY <1>3 DEF DM!Check, HomeKnown, HomeBegun
  <2>4. MV!Begin
    BY <1>3, <2>1, <2>2, <2>3 DEF DM!Check, MV!Begin, Seen
  <2> QED BY <2>4 DEF MV!Next
<1>4. CASE DM!Snapshot /\ ~DM!Fail
  <2>1. CopyOf(backup') = MV!Copy(commits)
    <3>1. backup'.commits = commits /\ backup'.whole = TRUE
      BY <1>4 DEF DM!Snapshot
    <3> QED BY <3>1 DEF CopyOf, MV!Copy
  <2>2. DM!Running /\ DM!Running'
    BY <1>4 DEF DM!Snapshot, DM!Running
  <2>3. before > 0 /\ target.by # "migrate"
    BY <1>4 DEF DM!Snapshot, HomeKnown, HomeBegun, HomeSafe, Unpublished
  <2>4. MV!Stage(commits)
    BY <1>4, <2>1, <2>2, <2>3 DEF DM!Snapshot, MV!Stage, CopyOf
  <2>5. commits \in before .. commits
    BY <1>1
  <2> QED BY <2>4, <2>5 DEF MV!Next
<1>5. CASE DM!Copy /\ ~DM!Fail
  <2>1. DM!Running /\ DM!Running'
    BY <1>5 DEF DM!Copy, DM!Running
  <2> QED BY <1>5, <2>1 DEF DM!Copy, MV!vars
<1>6. CASE DM!Compare /\ ~DM!Fail
  <2>1. DM!Running /\ DM!Running'
    BY <1>6 DEF DM!Compare, DM!Running
  <2>2. backup'.commits = backup.commits /\ backup'.whole = backup.whole
    BY <1>1, <1>6 DEF DM!Compare, HomeFiles
  <2> QED BY <1>6, <2>1, <2>2 DEF DM!Compare, MV!vars
<1>7. CASE DM!Publish /\ ~DM!Fail
  <2>1. DM!Running /\ DM!Running'
    BY <1>7 DEF DM!Publish, DM!Running
  <2>2. Seen(target) = MV!Nobody /\ target.durable = FALSE
    BY <1>7, NoFileIs DEF DM!Publish, Seen, MV!Nobody
  <2>3. target' = [pending EXCEPT !.durable = FALSE]
    BY <1>7 DEF DM!Publish
  <2>4. /\ target'.by = pending.by /\ target'.commits = pending.commits
        /\ target'.whole = pending.whole /\ target'.durable = FALSE
    BY <1>1, <2>3 DEF HomeFiles
  <2>5. /\ pending.by = "migrate" /\ pending.whole = TRUE /\ pending.commits = backup.commits
        /\ backup.whole = TRUE /\ before <= backup.commits /\ before > 0
        /\ backup.commits <= commits /\ backup.commits \in Nat
    BY <1>1, <1>7 DEF DM!Publish, HomeKnown, HomeBegun, HomeSafe, StagedWell, HomeFiles
  <2>6. Seen(target') = MV!Moved(backup.commits) /\ CopyOf(backup) = MV!Copy(backup.commits)
    BY <2>4, <2>5 DEF Seen, CopyOf, MV!Moved, MV!Copy
  <2>7. MV!Move(backup.commits)
    <3>1. UNCHANGED <<commits, before, backup, target.durable>>
      BY <1>7, <2>2, <2>4 DEF DM!Publish
    <3>2. target'.durable = target.durable
      BY <3>1
    <3> QED BY <2>1, <2>2, <2>5, <2>6, <3>1, <3>2, Zenon DEF MV!Move, Seen, CopyOf
  <2>8. backup.commits \in before .. commits
    BY <1>1, <2>5
  <2> QED BY <2>7, <2>8 DEF MV!Next
<1>8. CASE DM!SyncDir
  <2>1. DM!Running /\ ~DM!Running' /\ target.by = "migrate"
    BY <1>8 DEF DM!SyncDir, DM!Running, HomeKnown, HomeSafe, Unpublished
  <2>2. Seen(target') = Seen(target)
    BY <1>1, <1>8 DEF DM!SyncDir, Seen, HomeFiles
  <2>3. \/ dPc' = "done" /\ target'.durable = TRUE
        \/ dPc' = "unsure" /\ target' = target
    BY <1>1, <1>8 DEF DM!SyncDir, HomeFiles
  <2>4. MV!Settle
    BY <1>8, <2>1, <2>2, <2>3 DEF DM!SyncDir, MV!Settle, Seen
  <2> QED BY <2>4 DEF MV!Next
<1> QED
  BY <1>2, <1>3, <1>4, <1>5, <1>6, <1>7, <1>8
     DEF DM!Migrate, DM!Check, DM!Snapshot, DM!Copy, DM!Compare, DM!Publish

LEMMA WorldMoves ==
    ASSUME HomeKnown, DM!Kill \/ DM!PowerLoss \/ DM!Commit \/ DM!OtherOpens
    PROVE  MV!Next \/ UNCHANGED MV!vars
<1>1. target \in HomeFiles /\ backup \in HomeFiles
  BY DEF HomeKnown, HomeSafe, HomeShapes
<1>2. CASE DM!Kill
  <2>1. ~DM!Running' /\ dPc' = "killed"
    BY <1>2 DEF DM!Kill, DM!Running
  <2>2. MV!Stop
    BY <1>2, <2>1 DEF DM!Kill, MV!Stop
  <2> QED BY <2>2 DEF MV!Next
<1>3. CASE DM!PowerLoss
  <2>1. ~DM!Running' /\ dPc' = "killed"
    BY <1>3 DEF DM!PowerLoss, DM!Running
  <2>2. \/ target' = target
        \/ target.by = "migrate" /\ ~target.durable /\ target' = DM!NoFile
    BY <1>1, <1>3 DEF DM!PowerLoss, HomeKnown, HomeOwned, HomeFiles
  <2>3. /\ \/ Seen(target') = Seen(target)
           \/ target.by = "migrate" /\ ~target.durable /\ Seen(target') = MV!Nobody
        /\ target'.durable = target.durable
    BY <1>1, <2>2, NoFileIs DEF Seen, MV!Nobody, HomeFiles
  <2>4. \/ CopyOf(backup') = CopyOf(backup)
        \/ CopyOf(backup') = [CopyOf(backup) EXCEPT !.whole = FALSE]
        \/ CopyOf(backup') = MV!NoCopy
    <3>1. \A x \in BOOLEAN : CopyOf([backup EXCEPT !.whole = x])
                               = [CopyOf(backup) EXCEPT !.whole = x]
      BY <1>1 DEF CopyOf, HomeFiles
    <3>2. (backup.whole /\ backup.durable) \in {backup.whole, FALSE}
      BY <1>1 DEF HomeFiles
    <3>3. backup.whole \in BOOLEAN /\ [CopyOf(backup) EXCEPT !.whole = backup.whole] = CopyOf(backup)
      BY <1>1 DEF CopyOf, HomeFiles
    <3>4. CopyOf(DM!NoFile) = MV!NoCopy
      BY NoFileIs DEF CopyOf, MV!NoCopy
    <3>5. backup' = DM!NoFile \/ \E x \in {backup.whole, FALSE} : backup' = [backup EXCEPT !.whole = x]
      BY <1>3, <3>2 DEF DM!PowerLoss
    <3> QED BY <3>1, <3>3, <3>4, <3>5
  <2>5. UNCHANGED <<commits, before>>
    BY <1>3 DEF DM!PowerLoss
  <2>6. MV!Stop
    BY <2>1, <2>3, <2>4, <2>5, Zenon DEF MV!Stop, Seen, CopyOf
  <2> QED BY <2>6 DEF MV!Next
<1>4. CASE DM!Commit
  <2>1. MV!Commit
    BY <1>4 DEF DM!Commit, DM!Running, MV!Commit
  <2> QED BY <2>1 DEF MV!Next
<1>5. CASE DM!OtherOpens /\ target = DM!NoFile
  <2>1. target' = [by |-> "other", commits |-> 0, whole |-> TRUE, durable |-> FALSE]
    BY <1>5 DEF DM!OtherOpens
  <2>2. Seen(target') = MV!Others /\ Seen(target) = MV!Nobody /\ target'.durable = target.durable
    BY <1>5, <2>1, NoFileIs DEF Seen, MV!Others, MV!Nobody
  <2>3. MV!Take
    BY <1>5, <2>2 DEF DM!OtherOpens, DM!Running, MV!Take, Seen
  <2> QED BY <2>3 DEF MV!Next
<1>6. CASE DM!OtherOpens /\ target # DM!NoFile
  BY <1>6 DEF DM!OtherOpens, DM!Running, MV!vars
<1> QED
  BY <1>2, <1>3, <1>4, <1>5, <1>6

(* Whatever fails, and wherever the process or the machine stops: seen from *)
(* outside the destination gets all that was committed when the migration   *)
(* began in one step or nothing, and what was told to be done stays.        *)
THEOREM MigrationMovesAtOnce == ServicesSpec => MigrationIsAtomic
<1>1. ServicesInit => DM!Init
  BY DEF ServicesInit, NoMigrate
<1>2. [ServicesNext]_allVars => [DM!Next]_DM!vars
  BY DEF ServicesNext, allVars, dVars, DM!vars, Fetching, Caching, Migrating, ShuttingDown,
     Viewing, Loading, Alarming, Reporting, Weighing, Analysing
<1>3. HomeKnown /\ HomeKnown' /\ [DM!Next]_DM!vars => [MV!Next]_MV!vars
  <2>1. CASE UNCHANGED DM!vars
    BY <2>1 DEF DM!vars, MV!vars, DM!Running
  <2> QED BY <2>1, MigrateMoves, WorldMoves DEF DM!Next
<1>4. HomeKnown /\ [DM!Next]_DM!vars => HomeKnown'
  BY KnownStep
<1> QED
  BY <1>1, <1>2, <1>3, <1>4, KnownInit, MoveInit, PTL
     DEF ServicesSpec, MigrationIsAtomic, MV!Spec

(* What a user may conclude from the contract alone.                        *)
LEMMA MoveGoesOn ==
    ASSUME commits \in Nat, before \in Nat, MV!Promise, [MV!Next]_MV!vars
    PROVE  MV!Promise'
<1> USE DEF MV!Promise
<1>1. CASE UNCHANGED MV!vars
  BY <1>1 DEF MV!vars
<1>2. CASE MV!Commit
  BY <1>2 DEF MV!Commit
<1>3. CASE MV!Begin
  BY <1>3 DEF MV!Begin, MV!Nobody
<1>4. CASE MV!Settle
  BY <1>4 DEF MV!Settle
<1>5. CASE MV!Fail
  BY <1>5 DEF MV!Fail
<1>6. CASE MV!Stop
  BY <1>6 DEF MV!Stop, MV!Nobody
<1>7. CASE MV!Take
  BY <1>7 DEF MV!Take, MV!Nobody, MV!Others
<1>8. ASSUME NEW n \in before .. commits, MV!Stage(n) PROVE MV!Promise'
  BY <1>8 DEF MV!Stage
<1>9. ASSUME NEW n \in before .. commits, MV!Move(n) PROVE MV!Promise'
  BY <1>9 DEF MV!Move, MV!Moved, MV!Copy
<1> QED
  BY <1>1, <1>2, <1>3, <1>4, <1>5, <1>6, <1>7, <1>8, <1>9 DEF MV!Next

(* A database that Migrate published is complete, and has its backup until  *)
(* a crash; an error left none, and a success is durable, because the       *)
(* contract says so and Migrate keeps it.                                   *)
THEOREM MovesAreComplete == ServicesSpec => []MV!Promise
<1>1. ServicesInit => DM!Init
  BY DEF ServicesInit, NoMigrate
<1>2. [ServicesNext]_allVars => [DM!Next]_DM!vars
  BY DEF ServicesNext, allVars, dVars, DM!vars, Fetching, Caching, Migrating, ShuttingDown,
     Viewing, Loading, Alarming, Reporting, Weighing, Analysing
<1>3. MV!Init => MV!Promise
  BY DEF MV!Init, MV!Promise, MV!Nobody
<1>4. HomeKnown /\ MV!Promise /\ [MV!Next]_MV!vars => MV!Promise'
  BY MoveGoesOn DEF HomeKnown, HomeSafe, HomeShapes
<1>5. HomeKnown /\ [DM!Next]_DM!vars => HomeKnown'
  BY KnownStep
<1> QED
  BY <1>1, <1>2, <1>3, <1>4, <1>5, KnownInit, MigrationMovesAtOnce, PTL
     DEF ServicesSpec, MigrationIsAtomic, MV!Spec

(* Who was told of a success finds that database at the destination ever    *)
(* after: no loss of power, no later step of Migrate and no other program   *)
(* that opens it takes or replaces what is durable.                         *)
THEOREM SuccessStays == ServicesSpec => MV!Stays
<1>1. MV!Promise /\ [MV!Next]_MV!vars => [MV!Stay]_MV!vars
  BY DEF MV!Promise, MV!Next, MV!vars, MV!Commit, MV!Begin, MV!Stage, MV!Move, MV!Settle,
     MV!Fail, MV!Stop, MV!Take, MV!Nobody, MV!Stay
<1> QED
  BY <1>1, MovesAreComplete, MigrationMovesAtOnce, PTL
     DEF MigrationIsAtomic, MV!Spec, MV!Stays

-----------------------------------------------------------------------------
(* The intraday snapshot.  Until the batch fills in, what a worker read is  *)
(* of the connection they share, and no worker is at it once they were      *)
(* joined; the batch replaces pairs as a whole.                             *)

Readings == [from : {"nobody", "none", "ibkr", "yfinance"}, val : {0, 1, 2}]

RowShapes ==
    /\ conn \in {"none", "ibkr", "yfinance"}
    /\ iQuotes \in [Symbols -> Readings] /\ bars \in [Symbols -> Readings]
    /\ hand = [w \in Workers |-> hand[w]]

AtWork ==
    iPc # "primary" => \A w \in Workers : hand[w].kind \notin {"quote", "bars"}

FromConn ==
    /\ iPc = "connect" =>
          \A s \in Symbols : iQuotes[s] = IS!Absent /\ bars[s] = IS!Absent
    /\ iPc \in {"connect", "primary", "joined"} =>
          \A s \in Symbols :
              /\ iQuotes[s] = IS!Absent \/ iQuotes[s].from = conn
              /\ bars[s] = IS!Absent \/ bars[s].from = conn

OneSource ==
    \A s \in Symbols :
        IS!Usable(iQuotes[s]) /\ IS!SomeBars(bars[s]) => iQuotes[s].from = bars[s].from

RowsSafe == RowShapes /\ AtWork /\ FromConn /\ OneSource /\ RowsAreHonest

LEMMA RowsInit == IS!Init => RowsSafe
<1>1. IS!Absent \in Readings /\ ~ IS!Usable(IS!Absent)
  BY DEF IS!Absent, Readings, IS!Usable
<1>. QED
  BY <1>1 DEF IS!Init, RowsSafe, RowShapes, AtWork, FromConn, OneSource, RowsAreHonest,
     IS!RowsAreHonest, IS!Idle

(* What a source may send is a reading of that source.                      *)
LEMMA SourcesSend ==
    ASSUME NEW source \in {"none", "ibkr", "yfinance"}
    PROVE  /\ \A q \in IS!Quotes(source) : q \in Readings /\ q.from = source
           /\ \A b \in IS!Bars(source) : b \in Readings /\ b.from = source
           /\ IS!Absent \in Readings
BY DEF IS!Quotes, IS!Bars, IS!Absent, Readings

(* The workers and their connection.                                        *)
LEMMA WorkersKeepRows ==
    ASSUME RowsSafe, NEW w \in Workers, IS!Take(w) \/ IS!QuoteJob(w) \/ IS!BarsJob(w)
    PROVE  RowsSafe'
<1>. USE DEF RowsSafe, RowShapes, AtWork, FromConn
<1>1. iPc = "primary" /\ iPc' = "primary" /\ conn' = conn
  BY DEF IS!Take, IS!QuoteJob, IS!BarsJob
<1>2. RowShapes' /\ FromConn'
  <2>1. CASE IS!Take(w)
    BY <1>1, <2>1 DEF IS!Take
  <2>2. CASE IS!QuoteJob(w)
    <3>1. PICK q \in IS!Quotes(conn) \cup {IS!Absent} :
             iQuotes' = [iQuotes EXCEPT ![hand[w].id] = q]
      BY <2>2 DEF IS!QuoteJob
    <3>2. q \in Readings /\ (q = IS!Absent \/ q.from = conn)
      BY SourcesSend
    <3>. QED
      BY <1>1, <2>2, <3>1, <3>2 DEF IS!QuoteJob
  <2>3. CASE IS!BarsJob(w)
    <3>1. PICK b \in IS!Bars(conn) \cup {IS!Absent} :
             bars' = [bars EXCEPT ![hand[w].id] = b]
      BY <2>3 DEF IS!BarsJob
    <3>2. b \in Readings /\ (b = IS!Absent \/ b.from = conn)
      BY SourcesSend
    <3>. QED
      BY <1>1, <2>3, <3>1, <3>2 DEF IS!BarsJob
  <2>. QED
    BY <2>1, <2>2, <2>3
<1>3. OneSource'
  BY <1>1, <1>2 DEF OneSource, IS!Usable, IS!SomeBars, IS!Absent
<1>. QED
  BY <1>1, <1>2, <1>3 DEF RowsAreHonest, IS!RowsAreHonest

(* The batch from Yahoo: each pair is the old one or a new one.             *)
LEMMA FillReplacesPairs ==
    ASSUME RowsSafe, iPc = "joined", IS!Fallback
    PROVE  /\ iQuotes' \in [Symbols -> Readings] /\ bars' \in [Symbols -> Readings]
           /\ OneSource'
<1>. USE DEF RowsSafe, RowShapes, FromConn
<1>1. OneSource
  OBVIOUS
<1>2. CASE UNCHANGED <<iQuotes, bars>>
  BY <1>1, <1>2 DEF OneSource
<1>3. ASSUME NEW b \in IS!FallbackBars, NEW q \in IS!Marks(b), IS!Fill(q, b)
      PROVE  /\ iQuotes' \in [Symbols -> Readings] /\ bars' \in [Symbols -> Readings]
             /\ OneSource'
  <2>1. /\ \A s \in Symbols : b[s] \in Readings /\ (b[s] = IS!Absent \/ b[s].from = "yfinance")
        /\ \A s \in Symbols : q[s] \in Readings /\ (q[s] = IS!Absent \/ q[s].from = "yfinance")
    BY <1>3, SourcesSend DEF IS!FallbackBars, IS!Marks
  <2>. DEFINE filled == {s \in IS!Incomplete : IS!Usable(q[s]) /\ IS!SomeBars(b[s])}
  <2>2. /\ iQuotes' = [s \in Symbols |-> IF s \in filled THEN q[s] ELSE iQuotes[s]]
        /\ bars' = [s \in Symbols |-> IF s \in filled THEN b[s] ELSE bars[s]]
    BY <1>3 DEF IS!Fill
  <2>3. \A s \in filled : q[s].from = "yfinance" /\ b[s].from = "yfinance"
    BY <2>1 DEF IS!Incomplete, IS!Usable, IS!SomeBars, IS!Absent
  <2>4. ASSUME NEW s \in Symbols, IS!Usable(iQuotes'[s]), IS!SomeBars(bars'[s])
        PROVE  iQuotes'[s].from = bars'[s].from
    <3>1. CASE s \in filled
      BY <2>2, <2>3, <3>1
    <3>2. CASE s \notin filled
      BY <1>1, <2>2, <2>4, <3>2 DEF OneSource
    <3>. QED
      BY <3>1, <3>2
  <2>5. OneSource'
    BY <2>4 DEF OneSource, IS!Usable, IS!SomeBars
  <2>. QED
    BY <2>1, <2>2, <2>5
<1>. QED
  BY <1>2, <1>3 DEF IS!Fallback

(* The rows are of the pairs, and what did not come is announced.           *)
LEMMA ComputedRowsAreHonest ==
    ASSUME RowsSafe, IS!Compute
    PROVE  RowsAreHonest'
<1>. USE DEF RowsSafe, RowShapes
<1>1. rows' \subseteq IS!Movers
  BY DEF IS!Compute
<1>2. ASSUME NEW r \in IS!Movers
      PROVE  r.quote = r.bar /\ (r.basis = "realtime" => r.bar = "ibkr")
  <2>1. PICK s \in Symbols :
           /\ IS!Usable(iQuotes[s]) /\ IS!OfSession(bars[s])
           /\ r = [id |-> s, quote |-> iQuotes[s].from, bar |-> bars[s].from,
                   basis |-> IS!BasisOf(iQuotes[s].from)]
    BY <1>2 DEF IS!Movers
  <2>2. iQuotes[s].from = bars[s].from
    BY <2>1 DEF OneSource, IS!OfSession, IS!SomeBars
  <2>. QED
    BY <2>1, <2>2 DEF IS!BasisOf
<1>3. warned' = {} => \A s \in Symbols : iQuotes[s] # IS!Absent /\ bars[s] # IS!Absent
  <2>1. IS!PartialData \subseteq warned'
    BY DEF IS!Compute
  <2>. QED
    BY <2>1 DEF IS!PartialData
<1>4. iQuotes' = iQuotes /\ bars' = bars
  BY DEF IS!Compute
<1>. QED
  BY <1>1, <1>2, <1>3, <1>4 DEF RowsAreHonest, IS!RowsAreHonest

LEMMA RowsStep ==
    ASSUME RowsSafe, [IS!Next]_IS!vars
    PROVE  RowsSafe'
<1>. USE DEF RowsSafe, RowShapes, AtWork, FromConn, OneSource, RowsAreHonest, IS!RowsAreHonest,
     IS!Usable, IS!SomeBars
<1>1. CASE IS!Connect
  BY <1>1 DEF IS!Connect, IS!Absent
<1>2. CASE IS!Join
  BY <1>2 DEF IS!Join, IS!Gone
<1>3. CASE IS!ContextEnds
  BY <1>3 DEF IS!ContextEnds
<1>4. CASE IS!Fallback
  <2>1. iPc = "joined" /\ iPc' = "loaded" /\ UNCHANGED <<conn, hand>>
    BY <1>4 DEF IS!Fallback
  <2>. QED
    BY <1>4, <2>1, FillReplacesPairs
<1>5. CASE IS!Compute
  <2>1. iPc = "loaded" /\ iPc' = "done" /\ UNCHANGED <<conn, hand, iQuotes, bars>>
    BY <1>5 DEF IS!Compute
  <2>. QED
    BY <1>5, <2>1, ComputedRowsAreHonest
<1>6. CASE UNCHANGED IS!vars
  BY <1>6 DEF IS!vars
<1>. QED
  BY <1>1, <1>2, <1>3, <1>4, <1>5, <1>6, WorkersKeepRows DEF IS!Next

(* A row of an intraday snapshot is of one source and bears its basis, and  *)
(* a snapshot without a warning lacks nothing.                              *)
THEOREM RowsSayWhatTheyAre == ServicesSpec => []RowsAreHonest
<1>1. ServicesInit => RowsSafe
  BY RowsInit DEF ServicesInit
<1>2. RowsSafe /\ [ServicesNext]_allVars => RowsSafe'
  <2>1. [ServicesNext]_allVars => [IS!Next]_IS!vars
    BY DEF ServicesNext, allVars, iVars, IS!vars, Fetching, Caching, Migrating, ShuttingDown,
       Viewing, Loading, Alarming, Reporting, Weighing, Analysing
  <2>. QED
    BY <2>1, RowsStep
<1>3. RowsSafe => RowsAreHonest
  BY DEF RowsSafe
<1>. QED
  BY <1>1, <1>2, <1>3, PTL DEF ServicesSpec

-----------------------------------------------------------------------------
(* The market cache.  A quote is no older than a lifetime for each id that  *)
(* is known as fetched, and the time a request that is under way will store *)
(* is no further from it than a lifetime for each of these and of its own:  *)
(* it has one that is not known, or was asked for before the rest was.      *)

Span(S) == Cardinality(S) * TTL

LEMMA Products ==
    ASSUME NEW m \in Nat, NEW n \in Nat, NEW k \in Nat
    PROVE  /\ m * k \in Nat
           /\ m <= n => m * k <= n * k
           /\ m < n => m * k + k <= n * k
<1>1. m * k \in Nat
  OBVIOUS
<1>2. m <= n => m * k <= n * k
  OBVIOUS
<1>3. m < n => m * k + k <= n * k
  OBVIOUS
<1>. QED
  BY <1>1, <1>2, <1>3

(* More ids have more time.                                                 *)
LEMMA SpanGrows ==
    ASSUME NEW S, NEW T, S \subseteq T, T \subseteq Ids
    PROVE  /\ Span(S) \in Nat /\ Span(T) \in Nat
           /\ Span(S) <= Span(T)
           /\ S # T => Span(S) + TTL <= Span(T)
<1>1. IsFiniteSet(T) /\ IsFiniteSet(S)
  BY RequestsAssumption, FS_Subset
<1>2. Cardinality(S) \in Nat /\ Cardinality(T) \in Nat
  BY <1>1, FS_CardinalityType
<1>3. Cardinality(S) <= Cardinality(T) /\ (S # T => Cardinality(S) < Cardinality(T))
  BY <1>1, <1>2, FS_Subset
<1>. QED
  BY <1>2, <1>3, Products, SharedFetchAssumption DEF Span

LEMMA SpanOfSome ==
    ASSUME NEW S, S \subseteq Ids, S # {}
    PROVE  TTL <= Span(S)
<1>1. Span({}) \in Nat /\ Span({}) + TTL <= Span(S)
  BY SpanGrows
<1>. QED
  BY <1>1, SpanGrows, SharedFetchAssumption

CacheShapes ==
    /\ mNow \in Nat \ {0} /\ expiry \in Nat
    /\ mQuotes \in [Ids -> Nat] /\ mFetched \subseteq Ids
    /\ want \in [Requests -> SUBSET Ids] /\ missing \in [Requests -> SUBSET Ids]
    /\ got \in [Requests -> SUBSET Ids] /\ began \in [Requests -> Nat]
    /\ mAlive \in [Requests -> BOOLEAN]
    /\ mPc \in [Requests -> {"idle", "fetch", "wait", "store", "read", "done"}]
    /\ flights \subseteq [ids : SUBSET Ids, by : Requests, shared : BOOLEAN,
                          for : SUBSET Requests]

Asks(r) == mPc[r] \in {"fetch", "wait", "store"}

Asking == \A r \in Requests : Asks(r) => missing[r] # {} /\ began[r] <= mNow

Boarded ==
    /\ \A f \in flights : \A r \in f.for : mPc[r] = "wait" /\ missing[r] = f.ids
    /\ \A f, g \in flights : f.ids = g.ids => f = g

Landed ==
    \A r \in Requests : mPc[r] = "store" =>
        got[r] \subseteq missing[r] /\ missing[r] \ got[r] \subseteq denied

Dated ==
    \A i \in Ids : mQuotes[i] # 0 =>
        /\ expiry <= mQuotes[i] + Span(mFetched)
        /\ \A r \in Requests : Asks(r) =>
              began[r] + TTL <= mQuotes[i] + Span(mFetched \cup missing[r])

CacheSafe ==
    CacheShapes /\ Asking /\ Boarded /\ Landed /\ Dated /\ TC!MissingWasDenied

LEMMA CacheInit == TC!Init => CacheSafe
BY DEF TC!Init, CacheSafe, CacheShapes, Asking, Asks, Boarded, Landed, Dated,
   TC!MissingWasDenied

(* The bound that a reader sees.                                            *)
LEMMA AgesAreBounded == CacheSafe => AgeBounded
<1>. SUFFICES ASSUME CacheSafe, NEW r \in Requests, NEW i \in TC!Answer(r)
              PROVE  began[r] <= mQuotes[i] + Cardinality(Ids) * TTL
  BY DEF AgeBounded
<1>. USE DEF CacheSafe, CacheShapes
<1>1. began[r] <= expiry /\ i \in Ids /\ mQuotes[i] # 0
  BY DEF TC!Answer
<1>2. expiry <= mQuotes[i] + Span(mFetched)
  BY <1>1 DEF Dated
<1>3. Span(mFetched) \in Nat /\ Span(Ids) \in Nat /\ Span(mFetched) <= Span(Ids)
  BY SpanGrows
<1>. QED
  BY <1>1, <1>2, <1>3 DEF Span

(* A call that begins: what it misses is not known, so that there is a      *)
(* lifetime more for it.                                                    *)
LEMMA LookKeepsCache ==
    ASSUME CacheSafe, NEW r \in Requests, NEW ids \in SUBSET Ids, TC!Look(r, ids)
    PROVE  CacheSafe'
<1>. USE DEF CacheSafe, CacheShapes, Asks
<1>1. /\ mPc[r] = "idle" /\ \A x \in Requests : x # r => mPc'[x] = mPc[x]
      /\ \A x \in Requests : x # r => missing'[x] = missing[x] /\ began'[x] = began[x]
      /\ missing'[r] = ids \ mFetched' /\ began'[r] = mNow
      /\ mPc'[r] \in {"read", "fetch"}
      /\ mPc'[r] = "fetch" => missing'[r] # {}
      /\ UNCHANGED <<mNow, expiry, got, mAlive, attempt, flights, denied>>
  BY DEF TC!Look, TC!Goto
<1>2. \/ mNow > expiry /\ mQuotes' = [i \in Ids |-> 0] /\ mFetched' = {}
      \/ mNow <= expiry /\ mQuotes' = mQuotes /\ mFetched' = mFetched
  BY DEF TC!Look, TC!Outdated
<1>3. CacheShapes'
  BY <1>2 DEF TC!Look, TC!Goto
<1>4. Asking'
  BY <1>1 DEF Asking
<1>5. Boarded' /\ Landed'
  BY <1>1 DEF Boarded, Landed
<1>6. TC!MissingWasDenied'
  BY <1>1, <1>2 DEF TC!MissingWasDenied
<1>7. Dated'
  <2>1. ASSUME NEW i \in Ids, mQuotes'[i] # 0
        PROVE  /\ expiry' <= mQuotes'[i] + Span(mFetched')
               /\ \A x \in Requests : Asks(x)' =>
                     began'[x] + TTL <= mQuotes'[i] + Span(mFetched' \cup missing'[x])
    <3>1. mNow <= expiry /\ mQuotes' = mQuotes /\ mFetched' = mFetched
      BY <1>2, <2>1
    <3>2. expiry <= mQuotes[i] + Span(mFetched)
      BY <2>1, <3>1 DEF Dated
    <3>3. ASSUME mPc'[r] = "fetch"
          PROVE  began'[r] + TTL <= mQuotes'[i] + Span(mFetched' \cup missing'[r])
      <4>1. missing'[r] \subseteq Ids /\ mFetched # mFetched \cup missing'[r]
        BY <1>1, <3>1, <3>3
      <4>2. /\ Span(mFetched) \in Nat /\ Span(mFetched \cup missing'[r]) \in Nat
            /\ Span(mFetched) + TTL <= Span(mFetched \cup missing'[r])
        BY <4>1, SpanGrows
      <4>. QED
        BY <1>1, <3>1, <3>2, <4>2, SharedFetchAssumption
    <3>4. ASSUME NEW x \in Requests, x # r, Asks(x)
          PROVE  began'[x] + TTL <= mQuotes'[i] + Span(mFetched' \cup missing'[x])
      BY <1>1, <2>1, <3>1, <3>4 DEF Dated
    <3>. QED
      BY <1>1, <3>1, <3>2, <3>3, <3>4
  <2>. QED
    BY <2>1 DEF Dated, Span
<1>. QED
  BY <1>3, <1>4, <1>5, <1>6, <1>7

(* Storing: the expiry is of the time at which the call began.              *)
LEMMA StoreKeepsCache ==
    ASSUME CacheSafe, NEW r \in Requests, TC!Store(r)
    PROVE  CacheSafe'
<1>. USE DEF CacheSafe, CacheShapes, Asks
<1>1. /\ mPc[r] = "store" /\ mPc' = [mPc EXCEPT ![r] = "read"]
      /\ mQuotes' = [i \in Ids |-> IF i \in got[r] THEN mNow ELSE mQuotes[i]]
      /\ mFetched' = mFetched \cup missing[r]
      /\ expiry' = began[r] + TTL
      /\ UNCHANGED <<mNow, want, began, missing, got, mAlive, attempt, flights, denied>>
  BY DEF TC!Store, TC!Goto
<1>2. missing[r] # {} /\ missing[r] \subseteq Ids /\ began[r] <= mNow
  BY <1>1 DEF Asking
<1>3. CacheShapes'
  BY <1>1, SharedFetchAssumption
<1>4. Asking' /\ Boarded' /\ Landed'
  BY <1>1 DEF Asking, Boarded, Landed
<1>5. TC!MissingWasDenied'
  BY <1>1 DEF TC!MissingWasDenied, Landed
<1>6. Dated'
  <2>1. ASSUME NEW i \in Ids, mQuotes'[i] # 0
        PROVE  /\ expiry' <= mQuotes'[i] + Span(mFetched')
               /\ \A x \in Requests : Asks(x)' =>
                     began'[x] + TTL <= mQuotes'[i] + Span(mFetched' \cup missing'[x])
    <3>1. /\ Span(mFetched') \in Nat /\ TTL <= Span(mFetched')
      BY <1>1, <1>2, SpanGrows, SpanOfSome
    <3>2. ASSUME NEW x \in Requests, Asks(x)
          PROVE  /\ Span(mFetched \cup missing[x]) \in Nat
                 /\ Span(mFetched' \cup missing[x]) \in Nat
                 /\ Span(mFetched \cup missing[x]) <= Span(mFetched' \cup missing[x])
                 /\ TTL <= Span(mFetched' \cup missing[x])
      <4>1. missing[x] # {} /\ missing[x] \subseteq Ids
        BY <3>2 DEF Asking
      <4>. QED
        BY <1>1, <1>2, <4>1, SpanGrows, SpanOfSome
    <3>3. CASE i \in got[r]
      <4>1. mQuotes'[i] = mNow
        BY <1>1, <3>3
      <4>2. ASSUME NEW x \in Requests, Asks(x)
            PROVE  began'[x] + TTL <= mNow + Span(mFetched' \cup missing[x])
        <5>1. began'[x] = began[x] /\ began[x] \in Nat /\ began[x] <= mNow /\ mNow \in Nat
          BY <1>1, <4>2 DEF Asking
        <5>3. /\ Span(mFetched \cup missing[x]) \in Nat
              /\ Span(mFetched' \cup missing[x]) \in Nat
              /\ Span(mFetched \cup missing[x]) <= Span(mFetched' \cup missing[x])
              /\ TTL <= Span(mFetched' \cup missing[x])
          BY <3>2, <4>2, Zenon
        <5>. QED
          BY <5>1, <5>3, SharedFetchAssumption
      <4>. QED
        BY <1>1, <1>2, <3>1, <4>1, <4>2, SharedFetchAssumption
    <3>4. CASE i \notin got[r]
      <4>1. mQuotes'[i] = mQuotes[i] /\ mQuotes[i] # 0
        BY <1>1, <2>1, <3>4
      <4>2. ASSUME NEW x \in Requests, Asks(x)
            PROVE  began'[x] + TTL <= mQuotes[i] + Span(mFetched' \cup missing[x])
        <5>1. began'[x] = began[x] /\ began[x] \in Nat /\ mQuotes[i] \in Nat
          BY <1>1
        <5>2. began[x] + TTL <= mQuotes[i] + Span(mFetched \cup missing[x])
          BY <4>1, <4>2 DEF Dated
        <5>3. /\ Span(mFetched \cup missing[x]) \in Nat
              /\ Span(mFetched' \cup missing[x]) \in Nat
              /\ Span(mFetched \cup missing[x]) <= Span(mFetched' \cup missing[x])
              /\ TTL <= Span(mFetched' \cup missing[x])
          BY <3>2, <4>2, Zenon
        <5>. QED
          BY <5>1, <5>2, <5>3, SharedFetchAssumption
      <4>3. began[r] + TTL <= mQuotes[i] + Span(mFetched')
        BY <1>1, <4>1 DEF Dated
      <4>. QED
        BY <1>1, <4>1, <4>2, <4>3
    <3>. QED
      BY <3>3, <3>4
  <2>. QED
    BY <2>1 DEF Dated, Span
<1>. QED
  BY <1>3, <1>4, <1>5, <1>6

(* The steps that leave the cache alone, and of those that ask none that    *)
(* began later or misses more.                                              *)
LEMMA DatesKept ==
    ASSUME CacheSafe, UNCHANGED <<mQuotes, mFetched, expiry>>, mNow <= mNow', mNow' \in Nat,
           denied \subseteq denied',
           \A x \in Requests : Asks(x)' =>
               Asks(x) /\ began'[x] = began[x] /\ missing'[x] = missing[x]
    PROVE  Asking' /\ Dated' /\ TC!MissingWasDenied'
<1>. USE DEF CacheSafe, CacheShapes
<1>1. Asking'
  BY DEF Asking
<1>2. TC!MissingWasDenied'
  BY DEF TC!MissingWasDenied
<1>3. ASSUME NEW i \in Ids, mQuotes'[i] # 0
      PROVE  /\ expiry' <= mQuotes'[i] + Span(mFetched')
             /\ \A x \in Requests : Asks(x)' =>
                   began'[x] + TTL <= mQuotes'[i] + Span(mFetched' \cup missing'[x])
  BY <1>3 DEF Dated
<1>4. Dated'
  BY <1>3 DEF Dated, Span
<1>. QED
  BY <1>1, <1>2, <1>4

LEMMA JoinFlightKeepsCache ==
    ASSUME CacheSafe, NEW r \in Requests, TC!JoinFlight(r)
    PROVE  CacheSafe'
<1>. USE DEF CacheSafe, CacheShapes, Asks
<1>. DEFINE mine == {f \in flights : f.ids = missing[r]}
            fresh == [ids |-> missing[r], by |-> r, shared |-> FALSE, for |-> {r}]
            Joined(f) == [f EXCEPT !.for = @ \cup {r}, !.shared = TRUE]
<1>1. /\ mPc[r] = "fetch" /\ mPc' = [mPc EXCEPT ![r] = "wait"]
      /\ UNCHANGED <<mNow, mQuotes, mFetched, expiry, want, began, missing, got, mAlive,
                     attempt, denied>>
  BY DEF TC!JoinFlight, TC!Goto, TC!cacheVars
<1>2. \/ mine = {} /\ flights' = flights \cup {fresh}
      \/ flights' = (flights \ mine) \cup {Joined(f) : f \in mine}
  BY DEF TC!JoinFlight
<1>3. \A f \in mine : /\ Joined(f).ids = f.ids /\ Joined(f).for = f.for \cup {r}
                      /\ Joined(f) \in [ids : SUBSET Ids, by : Requests, shared : BOOLEAN,
                                        for : SUBSET Requests]
  OBVIOUS
<1>8. /\ fresh \in [ids : SUBSET Ids, by : Requests, shared : BOOLEAN, for : SUBSET Requests]
      /\ fresh.ids = missing[r] /\ fresh.for = {r}
  OBVIOUS
<1>. HIDE DEF Joined, fresh
<1>4. CacheShapes'
  <2>1. flights' \subseteq [ids : SUBSET Ids, by : Requests, shared : BOOLEAN,
                            for : SUBSET Requests]
    BY <1>2, <1>3, <1>8
  <2>. QED
    BY <1>1, <2>1
<1>5. Boarded'
  <2>1. ASSUME NEW f \in flights', NEW x \in f.for
        PROVE  mPc'[x] = "wait" /\ missing'[x] = f.ids
    <3>1. CASE f \in flights
      BY <1>1, <2>1, <3>1 DEF Boarded
    <3>2. CASE f = fresh
      BY <1>1, <1>8, <2>1, <3>2
    <3>3. ASSUME NEW g \in mine, f = Joined(g)
          PROVE  mPc'[x] = "wait" /\ missing'[x] = f.ids
      BY <1>1, <1>3, <2>1, <3>3 DEF Boarded
    <3>. QED
      BY <1>2, <2>1, <3>1, <3>2, <3>3
  <2>2. ASSUME NEW f \in flights', NEW g \in flights', f.ids = g.ids
        PROVE  f = g
    <3>1. CASE mine = {} /\ flights' = flights \cup {fresh}
      BY <1>8, <2>2, <3>1 DEF Boarded
    <3>2. CASE flights' = (flights \ mine) \cup {Joined(h) : h \in mine}
      BY <1>3, <2>2, <3>2 DEF Boarded
    <3>. QED
      BY <1>2, <3>1, <3>2
  <2>. QED
    BY <2>1, <2>2 DEF Boarded
<1>6. Landed'
  BY <1>1 DEF Landed
<1>7. Asking' /\ Dated' /\ TC!MissingWasDenied'
  BY <1>1, DatesKept
<1>. QED
  BY <1>4, <1>5, <1>6, <1>7

(* A call that is over for any reason but a landing.                        *)
LEMMA LeavingKeepsCache ==
    ASSUME CacheSafe, NEW r \in Requests, TC!GiveUp(r) \/ TC!Read(r) \/ TC!AskNext(r)
    PROVE  CacheSafe'
<1>. USE DEF CacheSafe, CacheShapes, Asks
<1>. DEFINE Left(f) == [f EXCEPT !.for = @ \ {r}]
<1>1. /\ mPc' \in {[mPc EXCEPT ![r] = "done"], [mPc EXCEPT ![r] = "idle"]}
      /\ want' = [want EXCEPT ![r] = {}] /\ missing' = [missing EXCEPT ![r] = {}]
      /\ got' = [got EXCEPT ![r] = {}] /\ began' = [began EXCEPT ![r] = 0]
      /\ mAlive' \in [Requests -> BOOLEAN]
      /\ UNCHANGED <<mNow, mQuotes, mFetched, expiry, denied>>
  BY DEF TC!GiveUp, TC!Read, TC!AskNext, TC!Goto, TC!Forget, TC!cacheVars
<1>2. flights' = {Left(f) : f \in flights} \/ (flights' = flights /\ mPc[r] # "wait")
  BY DEF TC!GiveUp, TC!Read, TC!AskNext
<1>3. \A f \in flights : /\ Left(f).ids = f.ids /\ Left(f).for = f.for \ {r}
                         /\ Left(f) \in [ids : SUBSET Ids, by : Requests, shared : BOOLEAN,
                                         for : SUBSET Requests]
  OBVIOUS
<1>. HIDE DEF Left
<1>4. CacheShapes'
  BY <1>1, <1>2, <1>3
<1>5. Boarded'
  <2>1. CASE flights' = {Left(f) : f \in flights}
    BY <1>1, <1>3, <2>1 DEF Boarded
  <2>2. CASE flights' = flights /\ mPc[r] # "wait"
    BY <1>1, <2>2 DEF Boarded
  <2>. QED
    BY <1>2, <2>1, <2>2
<1>6. Landed'
  BY <1>1 DEF Landed
<1>7. Asking' /\ Dated' /\ TC!MissingWasDenied'
  BY <1>1, DatesKept
<1>. QED
  BY <1>4, <1>5, <1>6, <1>7

(* A flight lands: those of its callers that will store have its ids, and   *)
(* what it had no quote for was denied, since nothing interrupted it.       *)
LEMMA LandKeepsCache ==
    ASSUME CacheSafe, NEW f \in flights, TC!Land(f)
    PROVE  CacheSafe'
<1>. USE DEF CacheSafe, CacheShapes, Asks
<1>1. PICK result \in SUBSET f.ids, interrupted \in BOOLEAN :
        LET again == {r \in f.for : TC!AsksAgain(r, f, interrupted)}
            next == IF TC!Storable(interrupted) THEN "store" ELSE "done"
        IN /\ flights' = flights \ {f}
           /\ mPc' = [r \in Requests |-> IF r \in again THEN "fetch"
                                         ELSE IF r \in f.for THEN next ELSE mPc[r]]
           /\ got' = [r \in Requests |-> IF r \in f.for \ again THEN result ELSE got[r]]
           /\ denied' = IF interrupted THEN denied ELSE denied \cup (f.ids \ result)
  BY Zenon DEF TC!Land
<1>. DEFINE again == {r \in f.for : TC!AsksAgain(r, f, interrupted)}
            next == IF TC!Storable(interrupted) THEN "store" ELSE "done"
<1>2. /\ flights' = flights \ {f}
      /\ mPc' = [r \in Requests |-> IF r \in again THEN "fetch"
                                    ELSE IF r \in f.for THEN next ELSE mPc[r]]
      /\ got' = [r \in Requests |-> IF r \in f.for \ again THEN result ELSE got[r]]
      /\ denied' = IF interrupted THEN denied ELSE denied \cup (f.ids \ result)
  BY <1>1, Zenon
<1>3. UNCHANGED <<mNow, mQuotes, mFetched, expiry, want, began, missing, mAlive>>
  BY DEF TC!Land, TC!cacheVars
<1>4. next \in {"store", "done"} /\ (next = "store" => ~interrupted)
  BY DEF TC!Storable
<1>5. f.ids \subseteq Ids
  OBVIOUS
<1>. HIDE DEF again, next
<1>6. \A r \in Requests : r \in f.for => mPc[r] = "wait" /\ missing[r] = f.ids
  BY DEF Boarded
<1>7. CacheShapes'
  BY <1>2, <1>3, <1>4, <1>5
<1>8. Boarded'
  <2>1. ASSUME NEW g \in flights', NEW r \in g.for
        PROVE  mPc'[r] = "wait" /\ missing'[r] = g.ids
    <3>1. r \in Requests /\ g \in flights /\ g # f
      BY <1>2, <2>1
    <3>2. r \notin f.for /\ r \notin again
      BY <2>1, <3>1 DEF Boarded, again
    <3>. QED
      BY <1>2, <1>3, <2>1, <3>1, <3>2 DEF Boarded
  <2>. QED
    BY <1>2, <2>1 DEF Boarded
<1>9. Landed'
  <2>1. ASSUME NEW r \in Requests, mPc'[r] = "store"
        PROVE  got'[r] \subseteq missing'[r] /\ missing'[r] \ got'[r] \subseteq denied'
    <3>1. CASE r \in f.for
      <4>1. r \notin again /\ ~interrupted
        BY <1>2, <1>4, <2>1, <3>1
      <4>. QED
        BY <1>2, <1>3, <1>6, <3>1, <4>1
    <3>2. CASE r \notin f.for
      <4>1. mPc[r] = "store" /\ got'[r] = got[r]
        BY <1>2, <2>1, <3>2 DEF again
      <4>. QED
        BY <1>2, <1>3, <4>1 DEF Landed
    <3>. QED
      BY <3>1, <3>2
  <2>. QED
    BY <2>1 DEF Landed
<1>10. \A r \in Requests : Asks(r)' => Asks(r)
  BY <1>2, <1>6 DEF again
<1>11. Asking' /\ Dated' /\ TC!MissingWasDenied'
  BY <1>2, <1>3, <1>10, DatesKept
<1>. QED
  BY <1>7, <1>8, <1>9, <1>11

LEMMA CacheStep ==
    ASSUME CacheSafe, [TC!Next]_TC!vars
    PROVE  CacheSafe'
<1>1. ASSUME NEW r \in Requests, TC!CtxDone(r)
      PROVE  CacheSafe'
  <2>1. /\ mAlive' \in [Requests -> BOOLEAN]
        /\ UNCHANGED <<mNow, mQuotes, mFetched, expiry, want, began, missing, got, mPc,
                       flights, denied>>
    BY <1>1 DEF TC!CtxDone, TC!cacheVars, CacheSafe, CacheShapes
  <2>. QED
    BY <2>1 DEF CacheSafe, CacheShapes, Asking, Asks, Boarded, Landed, Dated, Span,
       TC!MissingWasDenied
<1>2. CASE TC!Tick
  <2>1. /\ mNow' = mNow + 1
        /\ UNCHANGED <<mQuotes, mFetched, expiry, want, began, missing, got, mAlive, mPc,
                       flights, denied>>
    BY <1>2 DEF TC!Tick, TC!cacheVars, TC!reqVars
  <2>2. Asking' /\ Dated' /\ TC!MissingWasDenied'
    BY <2>1, DatesKept DEF CacheSafe, CacheShapes, Asks
  <2>. QED
    BY <2>1, <2>2 DEF CacheSafe, CacheShapes, Boarded, Landed
<1>3. CASE UNCHANGED TC!vars
  BY <1>3 DEF TC!vars, TC!cacheVars, TC!reqVars, CacheSafe, CacheShapes, Asking, Asks,
     Boarded, Landed, Dated, Span, TC!MissingWasDenied
<1>. QED
  BY <1>1, <1>2, <1>3, LookKeepsCache, StoreKeepsCache, JoinFlightKeepsCache,
     LeavingKeepsCache, LandKeepsCache DEF TC!Next, TC!Locked, TC!Fetching

(* What the cache says of the market was true of it at most a lifetime for  *)
(* each id ago, and what it says is missing was denied by the market.       *)
THEOREM CacheIsTruthful == ServicesSpec => []CacheTellsTheMarket
<1>1. ServicesInit => CacheSafe
  BY CacheInit DEF ServicesInit
<1>2. CacheSafe /\ [ServicesNext]_allVars => CacheSafe'
  <2>1. [ServicesNext]_allVars => [TC!Next]_TC!vars
    BY DEF ServicesNext, allVars, mVars, TC!vars, TC!cacheVars, TC!reqVars, Fetching, Caching,
       Migrating, ShuttingDown, Viewing, Loading, Alarming, Reporting, Weighing, Analysing
  <2>. QED
    BY <2>1, CacheStep
<1>3. CacheSafe => CacheTellsTheMarket
  BY AgesAreBounded DEF CacheSafe, CacheTellsTheMarket
<1>. QED
  BY <1>1, <1>2, <1>3, PTL DEF ServicesSpec

-----------------------------------------------------------------------------
(* The cards.  All but one are made of what is asked for at the time; the   *)
(* statistics of gaps have been kept, each with the time it is of.          *)

GapsDated ==
    /\ rNow \in Nat
    /\ gapStats = [k \in DOMAIN gapStats |-> gapStats[k]]
    /\ \A k \in DOMAIN gapStats : gapStats[k].asOf \in Nat

CardsSafe == GapsDated /\ MissingIsNamed

(* A set of numbers has a least one.                                        *)
LEMMA LeastOf ==
    ASSUME NEW T, T \subseteq Nat, T # {}
    PROVE  \E m \in T : \A n \in T : m <= n
<1>1. \A m, n \in Nat : n < m => <<n, m>> \in OpToRel(<, Nat)
  BY DEF OpToRel
<1>2. PICK R : /\ IsWellFoundedOn(R, Nat)
               /\ \A m, n \in Nat : n < m => <<n, m>> \in R
  BY <1>1, NatLessThanWellFounded, Zenon
<1>3. \E m \in T : \A n \in T : ~ (<<n, m>> \in R)
  BY <1>2, WFMin, Zenon
<1>4. \E m \in T : \A n \in T : ~ (n < m)
  BY <1>2, <1>3, Zenon
<1>. QED
  BY <1>4

(* The oldest statistics are the oldest.                                    *)
LEMMA OldestIsOldest ==
    ASSUME GapsDated, NEW k \in DOMAIN gapStats
    PROVE  MR!OldestAsOf \in Nat /\ MR!OldestAsOf <= gapStats[k].asOf
<1>1. MR!AsOfs \subseteq Nat /\ gapStats[k].asOf \in MR!AsOfs
  BY DEF GapsDated, MR!AsOfs
<1>2. PICK m \in MR!AsOfs : \A n \in MR!AsOfs : m <= n
  BY <1>1, LeastOf
<1>3. MR!Min(MR!AsOfs) \in MR!AsOfs /\ \A n \in MR!AsOfs : MR!Min(MR!AsOfs) <= n
  BY <1>2 DEF MR!Min
<1>. QED
  BY <1>1, <1>3 DEF MR!OldestAsOf

(* What makes a card name what it lacks.                                    *)
LEMMA ServedWell ==
    ASSUME NEW name, NEW shows, NEW lacks, NEW old, NEW warns,
           MR!Serve(name, shows, lacks, old, warns),
           lacks \subseteq warns, shows = {} => warns # {},
           old = "unread" => warns \ {"ES"} # {}
    PROVE  MissingIsNamed' /\ rNow' = rNow
<1>1. CASE card' = [MR!NoCard EXCEPT !.name = name, !.code = 503]
  <2>1. card'.code = 503
    BY <1>1 DEF MR!NoCard
  <2>. QED
    BY <2>1 DEF MissingIsNamed, MR!MissingIsNamed, MR!Serve
<1>2. CASE card' = [name |-> name, code |-> 200, rows |-> shows, missing |-> lacks,
                    old |-> old, warned |-> warns]
  <2>1. card'.missing = lacks /\ card'.warned = warns /\ card'.rows = shows /\ card'.old = old
    BY <1>2
  <2>2. /\ card'.missing \subseteq card'.warned
        /\ card'.rows = {} => card'.warned # {}
        /\ card'.old = "unread" => card'.warned \ {"ES"} # {}
    BY <2>1
  <2>. QED
    BY <2>2, Zenon DEF MissingIsNamed, MR!MissingIsNamed, MR!Serve
<1>. QED
  BY <1>1, <1>2, Zenon DEF MR!Serve

(* The cards that keep nothing.                                             *)
LEMMA OvernightNames ==
    ASSUME NEW came, MR!Overnight(came)
    PROVE  MissingIsNamed' /\ UNCHANGED <<rNow, gapStats>>
<1>. DEFINE here == {i \in DOMAIN MR!Chain : MR!Chain[i] \in DOMAIN came}
            lacks == {MR!Chain[i] : i \in DOMAIN MR!Chain} \ DOMAIN came
<1>1. PICK row : MR!Serve("overnight", {row[i] : i \in here}, lacks, "no", lacks)
  <2>. DEFINE same == {i \in here : (came[MR!Chain[i]] >= 0) = (came[MR!Chain[MR!Min(here)]] >= 0)}
  <2>1. MR!Serve("overnight",
                 {[id |-> MR!Chain[i], same |-> MR!Cardinality(same), total |-> MR!Cardinality(here)] :
                     i \in here}, lacks, "no", lacks)
    BY Zenon DEF MR!Overnight
  <2>. DEFINE rw == [i \in here |->
                [id |-> MR!Chain[i], same |-> MR!Cardinality(same), total |-> MR!Cardinality(here)]]
  <2>2. {[id |-> MR!Chain[i], same |-> MR!Cardinality(same), total |-> MR!Cardinality(here)] :
                     i \in here} = {rw[i] : i \in here}
    OBVIOUS
  <2>3. MR!Serve("overnight", {rw[i] : i \in here}, lacks, "no", lacks)
    BY <2>1, <2>2, Zenon
  <2>. QED
    BY <2>3, Zenon
<1>2. {row[i] : i \in here} = {} => lacks # {}
  <2>1. MR!Chain = <<"N225", "TSMC_TW", "SX5E", "ES">>
    BY DEF MR!Chain
  <2>2. 1 \in DOMAIN MR!Chain
    BY <2>1
  <2>3. CASE 1 \in here
    BY <2>3
  <2>4. CASE 1 \notin here
    BY <2>2, <2>4
  <2>. QED
    BY <2>3, <2>4
<1>3. MissingIsNamed' /\ rNow' = rNow
  <2>. HIDE DEF here, lacks
  <2>. QED
    BY <1>1, <1>2, ServedWell, Zenon
<1>. QED
  BY <1>3, Zenon DEF MR!Overnight

LEMMA SentimentNames ==
    ASSUME NEW vix, NEW vix3m, NEW pcr, MR!Sentiment(vix, vix3m, pcr)
    PROVE  MissingIsNamed' /\ UNCHANGED <<rNow, gapStats>>
<1>1. PICK row, lacks : MR!Serve("sentiment", {row}, lacks, "no", lacks)
  BY Zenon DEF MR!Sentiment
<1>2. MissingIsNamed' /\ rNow' = rNow
  BY <1>1, ServedWell
<1>. QED
  BY <1>2, Zenon DEF MR!Sentiment

LEMMA MoversName ==
    ASSUME NEW w, NEW feed, NEW at, MR!PremarketMovers(w, feed, at)
    PROVE  MissingIsNamed' /\ UNCHANGED <<rNow, gapStats>>
<1>. DEFINE priced == {s \in MR!Universe(w) \cap DOMAIN feed : MR!PremarketMove(feed[s], at).ok}
            moves == [s \in priced |-> MR!PremarketMove(feed[s], at)]
            ranked == MR!Ranked([s \in priced |-> moves[s].pct])
            row(s) == [id |-> s, pct |-> moves[s].pct, watch |-> s \in w]
            warns == (IF \E s \in priced : ~moves[s].ratio THEN {"volume ratio"} ELSE {})
                     \cup (IF ranked = {} THEN {"no data"} ELSE {})
<1>1. MR!Serve("premarket movers", {row(s) : s \in ranked}, {}, "no", warns)
  BY Zenon DEF MR!PremarketMovers
<1>2. {row(s) : s \in ranked} = {} => warns # {}
  <2>. HIDE DEF priced, moves, ranked
  <2>. QED
    OBVIOUS
<1>3. MissingIsNamed' /\ rNow' = rNow
  <2>. DEFINE rws == {row(s) : s \in ranked}
  <2>1. MR!Serve("premarket movers", rws, {}, "no", warns) /\ (rws = {} => warns # {})
    BY <1>1, <1>2
  <2>. HIDE DEF rws, warns
  <2>. QED
    BY <2>1, ServedWell
<1>. QED
  BY <1>3, Zenon DEF MR!PremarketMovers

LEMMA PostcloseNames ==
    ASSUME NEW w, NEW feed, NEW raw, NEW at, MR!PostcloseCards(w, feed, raw, at)
    PROVE  MissingIsNamed' /\ UNCHANGED <<rNow, gapStats>>
<1>. DEFINE enough == {s \in MR!Universe(w) \cap DOMAIN feed : MR!PostcloseMove(feed[s], at).ok}
            every == [s \in enough |-> MR!PostcloseMove(feed[s], at)]
            ranked == MR!Ranked([s \in enough |-> every[s].combined])
            moves == [s \in ranked |-> every[s]]
            late == {"no after hours" : s \in {s \in enough : ~every[s].hasAfter}}
            reports == MR!Reports(raw, at)
            edges == MR!ReadAcross(moves)
            events == MR!Timeline(reports, moves, at)
            moved == late \cup (IF ranked = {} THEN {"no data"} ELSE {})
            told == IF reports = {} THEN {"no reports"} ELSE {}
            linked == IF edges = {} THEN {"no edges"} ELSE {}
            silent == IF events = {} THEN {"no events"} ELSE {}
            all == moved \cup told \cup linked \cup silent
            ids == {[id |-> s] : s \in ranked}
<1>1. \/ MR!Serve("postclose movers", ids, {}, "no", moved)
      \/ MR!Serve("earnings", reports, {}, "no", told)
      \/ MR!Serve("read across", edges, {}, "no", moved \cup linked)
      \/ MR!Serve("timeline", events, {}, "no", all)
  BY Zenon DEF MR!PostcloseCards
<1>. HIDE DEF enough, every, ranked, moves, late, reports, edges, events
<1>2. /\ ids = {} => moved # {}
      /\ reports = {} => told # {}
      /\ edges = {} => moved \cup linked # {}
      /\ events = {} => all # {}
  OBVIOUS
<1>3. MissingIsNamed' /\ rNow' = rNow
  <2>1. {} \subseteq moved /\ {} \subseteq told /\ {} \subseteq all /\ {} \subseteq moved \cup linked
    OBVIOUS
  <2>. HIDE DEF moved, told, linked, silent, all, ids
  <2>. QED
    BY <1>1, <1>2, <2>1, ServedWell
<1>. QED
  BY <1>3, Zenon DEF MR!PostcloseCards

LEMMA DiffNames ==
    ASSUME NEW prior, NEW current, NEW came, MR!Diff(prior, current, came)
    PROVE  MissingIsNamed' /\ UNCHANGED <<rNow, gapStats>>
<1>1. PICK row, lacks : MR!Serve("diff", {row}, lacks, "no", lacks)
  BY Zenon DEF MR!Diff
<1>2. MissingIsNamed' /\ rNow' = rNow
  BY <1>1, ServedWell
<1>. QED
  BY <1>2, Zenon DEF MR!Diff

(* A report on a list of instruments has a row or names one that lacks.     *)
LEMMA RatesName ==
    ASSUME NEW quoted, NEW barred, MR!Rates(quoted, barred, MR!Rated)
    PROVE  MissingIsNamed' /\ UNCHANGED <<rNow, gapStats>>
<1>1. PICK row, lacks : MR!Serve("rates", {row[i] : i \in MR!Rated \ lacks}, lacks, "no", lacks)
  <2>. DEFINE baseline(i) == IF i \in DOMAIN barred THEN barred[i] ELSE quoted[i]
              lacks == {i \in MR!Rated : i \notin DOMAIN quoted \/ baseline(i) <= 0}
              rw == [i \in MR!Rated \ lacks |->
                        [id |-> i, pct |-> MR!Change(baseline(i), quoted[i])]]
  <2>1. MR!Serve("rates", {[id |-> i, pct |-> MR!Change(baseline(i), quoted[i])] :
                              i \in MR!Rated \ lacks}, lacks, "no", lacks)
    BY Zenon DEF MR!Rates
  <2>2. {[id |-> i, pct |-> MR!Change(baseline(i), quoted[i])] : i \in MR!Rated \ lacks}
        = {rw[i] : i \in MR!Rated \ lacks}
    <3>. HIDE DEF lacks, baseline
    <3>. QED
      OBVIOUS
  <2>3. MR!Serve("rates", {rw[i] : i \in MR!Rated \ lacks}, lacks, "no", lacks)
    BY <2>1, <2>2, Zenon
  <2>. QED
    BY <2>3, Zenon
<1>2. {row[i] : i \in MR!Rated \ lacks} = {} => lacks # {}
  BY DEF MR!Rated
<1>3. MissingIsNamed' /\ rNow' = rNow
  BY <1>1, <1>2, ServedWell, Zenon
<1>. QED
  BY <1>3, Zenon DEF MR!Rates

LEMMA EventsName ==
    ASSUME NEW barred, NEW events, MR!EventCards(barred, MR!Rated, events)
    PROVE  MissingIsNamed' /\ UNCHANGED <<rNow, gapStats>>
<1>1. PICK some, other, lacks, more :
        \/ MR!Serve("patterns", {some[i] : i \in MR!Rated}, lacks, "no", lacks \cup more)
        \/ MR!Serve("sensitivity", {other[i] : i \in MR!Rated}, lacks, "no", lacks \cup more)
  <2>. DEFINE windows == [i \in MR!Rated |->
                  IF i \in DOMAIN barred THEN MR!EventWindows(barred[i], events.dates) ELSE {}]
              lacks == {i \in MR!Rated : windows[i] = {}}
              up(i) == MR!Cardinality({x \in windows[i] : x.move > 0})
              down(i) == MR!Cardinality({x \in windows[i] : x.move < 0})
              one(i) == [id |-> i, n |-> MR!Cardinality(windows[i]), one |-> MR!Max({up(i), down(i)})]
              two(i) == [id |-> i, to |-> [j \in MR!Rated |-> MR!Aligned(windows[i], windows[j])]]
  <2>1. \/ MR!Serve("patterns", {one(i) : i \in MR!Rated}, lacks, "no", lacks \cup events.warned)
        \/ MR!Serve("sensitivity", {two(i) : i \in MR!Rated}, lacks, "no", lacks \cup events.warned)
    BY Zenon DEF MR!EventCards
  <2>. DEFINE some == [i \in MR!Rated |-> one(i)]
              other == [i \in MR!Rated |-> two(i)]
  <2>2. {one(i) : i \in MR!Rated} = {some[i] : i \in MR!Rated}
        /\ {two(i) : i \in MR!Rated} = {other[i] : i \in MR!Rated}
    <3>. HIDE DEF one, two
    <3>. QED
      OBVIOUS
  <2>3. \/ MR!Serve("patterns", {some[i] : i \in MR!Rated}, lacks, "no", lacks \cup events.warned)
        \/ MR!Serve("sensitivity", {other[i] : i \in MR!Rated}, lacks, "no", lacks \cup events.warned)
    <3>. HIDE DEF one, two, some, other, lacks
    <3>. QED
      BY <2>1, <2>2, Zenon
  <2>. HIDE DEF some, other, lacks
  <2>. QED
    BY <2>3, Zenon
<1>2. {some[i] : i \in MR!Rated} # {} /\ {other[i] : i \in MR!Rated} # {}
  BY DEF MR!Rated
<1>3. MissingIsNamed' /\ rNow' = rNow
  <2>. DEFINE these == {some[i] : i \in MR!Rated}
              those == {other[i] : i \in MR!Rated}
              warns == lacks \cup more
  <2>1. these # {} /\ those # {} /\ lacks \subseteq warns
    BY <1>2
  <2>2. \/ MR!Serve("patterns", these, lacks, "no", warns)
        \/ MR!Serve("sensitivity", those, lacks, "no", warns)
    BY <1>1, Zenon
  <2>. HIDE DEF these, those, warns
  <2>. QED
    BY <2>1, <2>2, ServedWell
<1>. QED
  BY <1>3, Zenon DEF MR!EventCards

(* The card of the gaps: statistics that are too old were either asked for  *)
(* in vain, which it says, or asked for and nothing new came.               *)
LEMMA GapsName ==
    ASSUME GapsDated, NEW readOk, NEW barsOk, NEW storeOk, NEW es,
           MR!Gaps(readOk, barsOk, storeOk, es)
    PROVE  GapsDated' /\ MissingIsNamed'
<1>. DEFINE fresh == MR!ComputeGapStats(Windows[rNow])
            fetched == readOk /\ MR!Stale /\ barsOk /\ MR!Len(Windows[rNow]) >= 2 /\ storeOk
            kept == IF ~readOk THEN <<>> ELSE IF fetched /\ fresh # <<>> THEN fresh ELSE gapStats
            implied == IF es = <<>> THEN <<>> ELSE MR!ImpliedGap(es[1]).key
            row(k) == [key |-> k, row |-> kept[k], here |-> k = implied]
            shows == {row(k) : k \in DOMAIN kept}
            lacks == IF es = <<>> THEN {"ES"} ELSE {}
            age == IF \A k \in DOMAIN kept : rNow - kept[k].asOf <= TTL THEN "no"
                   ELSE IF fetched THEN "gapless" ELSE "unread"
            warns == (IF ~readOk \/ (MR!Stale /\ ~fetched) THEN {"gaps"} ELSE {})
                     \cup (IF kept = <<>> THEN {"no statistics"} ELSE {})
                     \cup (IF es = <<>> THEN {"ES"} ELSE {})
<1>1. /\ gapStats' = IF fetched THEN MR!Upsert(fresh) ELSE gapStats
      /\ MR!Serve("gaps", shows, lacks, age, warns)
  BY Zenon DEF MR!Gaps
<1>2. /\ fresh = [k \in DOMAIN fresh |-> fresh[k]]
      /\ \A k \in DOMAIN fresh : fresh[k].asOf = rNow
  BY DEF MR!ComputeGapStats
<1>3. age = "unread" => "gaps" \in warns
  <2>. SUFFICES ASSUME age = "unread" PROVE MR!Stale /\ ~fetched
    OBVIOUS
  <2>1. ~fetched
    OBVIOUS
  <2>2. PICK k \in DOMAIN kept : ~(rNow - kept[k].asOf <= TTL)
    OBVIOUS
  <2>3. CASE ~readOk
    <3>1. DOMAIN kept = {}
      BY <2>3
    <3>. QED
      BY <3>1, <2>2
  <2>4. CASE readOk
    <3>1. kept = gapStats
      BY <2>1, <2>4
    <3>2. k \in DOMAIN gapStats /\ ~(rNow - gapStats[k].asOf <= TTL)
      BY <3>1, <2>2
    <3>. HIDE DEF fresh, fetched, kept, implied, row, shows, lacks, age, warns
    <3>3. MR!OldestAsOf \in Nat /\ MR!OldestAsOf <= gapStats[k].asOf
      BY <3>2, OldestIsOldest
    <3>4. rNow - MR!OldestAsOf > TTL
      BY <3>2, <3>3, SharedFetchAssumption DEF GapsDated, SharedFetchAssumption
    <3>. QED
      BY <3>4, <2>1 DEF MR!Stale
  <2>. QED
    BY <2>3, <2>4
<1>4. shows = {} => warns # {}
  <2>1. CASE kept = <<>>
    BY <2>1
  <2>2. CASE kept # <<>>
    <3>1. kept = [k \in DOMAIN kept |-> kept[k]]
      BY <1>2 DEF GapsDated
    <3>. HIDE DEF fresh, fetched, kept
    <3>2. DOMAIN kept # {}
      BY <3>1, <2>2
    <3>. QED
      BY <3>2
  <2>. QED
    BY <2>1, <2>2
<1>5. lacks \subseteq warns
  OBVIOUS
<1>6. MissingIsNamed' /\ rNow' = rNow
  <2>1. age = "unread" => warns \ {"ES"} # {}
    BY <1>3
  <2>. HIDE DEF fresh, fetched, kept, implied, row, shows, lacks, age, warns
  <2>. QED
    BY <1>1, <1>4, <1>5, <2>1, ServedWell
<1>7. GapsDated'
  <2>. HIDE DEF fresh, fetched, kept, implied, row, shows, lacks, age, warns
  <2>1. CASE fetched
    <3>1. gapStats' = [k \in DOMAIN fresh \cup DOMAIN gapStats |->
                          IF k \in DOMAIN fresh THEN fresh[k] ELSE gapStats[k]]
      BY <1>1, <2>1 DEF MR!Upsert
    <3>2. \A k \in DOMAIN gapStats' : gapStats'[k].asOf \in Nat
      BY <3>1, <1>2 DEF GapsDated
    <3>. QED
      BY <3>1, <3>2, <1>6 DEF GapsDated
  <2>2. CASE ~fetched
    BY <1>1, <1>6, <2>2 DEF GapsDated
  <2>. QED
    BY <2>1, <2>2
<1>. QED
  BY <1>6, <1>7

LEMMA CardsStep == CardsSafe /\ [MR!Next]_rVars => CardsSafe'
<1>. SUFFICES ASSUME CardsSafe, [MR!Next]_rVars PROVE CardsSafe'
  OBVIOUS
<1>. USE DEF CardsSafe
<1>1. ASSUME MissingIsNamed' /\ UNCHANGED <<rNow, gapStats>>
      PROVE  CardsSafe'
  BY <1>1 DEF GapsDated
<1>2. CASE MR!Tick
  BY <1>2 DEF MR!Tick, GapsDated, MissingIsNamed, MR!MissingIsNamed
<1>3. ASSUME NEW readOk, NEW barsOk, NEW storeOk, NEW es,
             MR!Gaps(readOk, barsOk, storeOk, es)
      PROVE  CardsSafe'
  BY <1>3, GapsName
<1>4. ASSUME NEW came, MR!Overnight(came)
      PROVE  CardsSafe'
  BY <1>1, <1>4, OvernightNames, Zenon
<1>5. ASSUME NEW vix, NEW vix3m, NEW pcr, MR!Sentiment(vix, vix3m, pcr)
      PROVE  CardsSafe'
  BY <1>1, <1>5, SentimentNames, Zenon
<1>6. ASSUME NEW w, NEW feed, NEW at,
             MR!PremarketMovers(w, feed, at) \/ \E raw : MR!PostcloseCards(w, feed, raw, at)
      PROVE  CardsSafe'
  BY <1>1, <1>6, MoversName, PostcloseNames, Zenon
<1>7. ASSUME NEW quoted, NEW barred, MR!Rates(quoted, barred, MR!Rated)
      PROVE  CardsSafe'
  BY <1>1, <1>7, RatesName, Zenon
<1>8. ASSUME NEW prior, NEW current, NEW came, MR!Diff(prior, current, came)
      PROVE  CardsSafe'
  BY <1>1, <1>8, DiffNames, Zenon
<1>9. ASSUME NEW barred, NEW events, MR!EventCards(barred, MR!Rated, events)
      PROVE  CardsSafe'
  BY <1>1, <1>9, EventsName, Zenon
<1>10. CASE UNCHANGED rVars
  BY <1>10 DEF rVars, GapsDated, MissingIsNamed, MR!MissingIsNamed
<1>. QED
  <2>1. CASE MR!Next
    <3>1. CASE MR!Tick
      BY <3>1, <1>2
    <3>2. CASE \E readOk, barsOk, storeOk \in BOOLEAN, es \in {<<>>, <<30>>, <<-120>>} :
                  MR!Gaps(readOk, barsOk, storeOk, es)
      BY <3>2, <1>3, Zenon
    <3>3. CASE \E came \in MR!Moves({"N225", "TSMC_TW", "SX5E", "ES"}) : MR!Overnight(came)
      BY <3>3, <1>4, Zenon
    <3>4. CASE \E vix, vix3m \in {0, 18, 20}, pcr \in {0, 80, 100, 120} :
                  MR!Sentiment(vix, vix3m, pcr)
      BY <3>4, <1>5
    <3>5. CASE \E w, feed, at :
                  MR!PremarketMovers(w, feed, at) \/ \E raw : MR!PostcloseCards(w, feed, raw, at)
      BY <3>5, <1>6, Zenon
    <3>6. CASE \E quoted, barred \in MR!Moves(MR!Rated) : MR!Rates(quoted, barred, MR!Rated)
      BY <3>6, <1>7, Zenon
    <3>7. CASE \E prior, current \in Statements, came \in BOOLEAN : MR!Diff(prior, current, came)
      BY <3>7, <1>8, Zenon
    <3>8. CASE \E fed, bls \in SUBSET {2, 3}, c \in {98, 100, 101}, some \in SUBSET MR!Rated :
                  MR!EventCards([i \in some |-> MR!Daily(c)], MR!Rated, MR!EventDates(fed, bls, {2}))
      <4>1. \E barred, events : MR!EventCards(barred, MR!Rated, events)
        BY <3>8, Zenon
      <4>. QED
        BY <4>1, <1>9, Zenon
    <3>9. \A w, feed, at, days :
            (\/ MR!PremarketMovers(w, feed, at)
             \/ \E raw \in days : MR!PostcloseCards(w, feed, raw, at)) =>
            (MR!PremarketMovers(w, feed, at) \/ \E raw : MR!PostcloseCards(w, feed, raw, at))
      BY Zenon
    <3>. QED
      BY <2>1, <3>1, <3>2, <3>3, <3>4, <3>5, <3>6, <3>7, <3>8, <3>9, Zenon DEF MR!Next
  <2>. QED
    BY <2>1, <1>10, Zenon DEF rVars

(* What a card could not use it names: for every history of bars, quotes,   *)
(* feeds, statements and failures (premarket, postclose and event cards).   *)
THEOREM CardsNameWhatTheyLack == ServicesSpec => []MissingIsNamed
<1>1. ServicesInit => CardsSafe
  BY DEF ServicesInit, CardsSafe, GapsDated, MissingIsNamed, MR!MissingIsNamed, MR!Init, MR!NoCard
<1>2. CardsSafe /\ [ServicesNext]_allVars => CardsSafe'
  <2>1. [ServicesNext]_allVars => [MR!Next]_rVars
    BY Zenon DEF ServicesNext, Fetching, Caching, Migrating, ShuttingDown, Viewing, Loading,
       Alarming, Reporting, Weighing, Analysing, allVars
  <2>. QED
    BY <2>1, CardsStep
<1>3. CardsSafe => MissingIsNamed
  BY DEF CardsSafe
<1>. QED
  BY <1>1, <1>2, <1>3, PTL DEF ServicesSpec

-----------------------------------------------------------------------------
(* The views.  Between a time and the boundary that is announced for it     *)
(* there is no other one, so the phase does not change, day after day.      *)

KnownDay(u) == u \in Nat /\ IV!DayOf(u) \in IV!Days
ClockSafe == KnownDay(t)

LEMMA DayAndSlot ==
    ASSUME NEW u \in Nat
    PROVE  /\ IV!DayOf(u) \in Nat /\ IV!Slot(u) \in 0 .. 47
           /\ u = 48 * IV!DayOf(u) + IV!Slot(u)
BY DEF IV!DayOf, IV!Slot, IV!SlotsPerDay

LEMMA SlotOfDay ==
    ASSUME NEW day \in Nat, NEW s \in 0 .. 47
    PROVE  IV!DayOf(48 * day + s) = day /\ IV!Slot(48 * day + s) = s
BY DEF IV!DayOf, IV!Slot, IV!SlotsPerDay

(* The slots of a trading day at which the phase changes.                   *)
Bounds(day) ==
    IF Calendar[day] \in {"weekend", "holiday"} THEN {}
    ELSE {8, 19} \cup (IF Calendar[day] = "half" THEN {26, 34} ELSE {32, 40})

LEMMA BoundariesOfDay ==
    ASSUME NEW u
    PROVE  IV!DayBoundaries(u) = {IV!DayOf(u) * 48 + s : s \in Bounds(IV!DayOf(u))}
<1>1. CASE ~IV!IsTradingDay(u)
  BY <1>1 DEF IV!DayBoundaries, Bounds, IV!IsTradingDay
<1>2. CASE IV!IsTradingDay(u)
  <2>1. IV!DayBoundaries(u) = {IV!DayOf(u) * 48 + s : s \in {8, 19, IV!Close(u), IV!Close(u) + 8}}
    BY <1>2 DEF IV!DayBoundaries, IV!SlotsPerDay, IV!PreOpen, IV!Open
  <2>2. Bounds(IV!DayOf(u)) = {8, 19, IV!Close(u), IV!Close(u) + 8}
    BY <1>2 DEF Bounds, IV!IsTradingDay, IV!Close, IV!EarlyClose
  <2>. QED
    BY <2>1, <2>2
<1>. QED
  BY <1>1, <1>2

(* The phase of a slot of a day.                                            *)
PhaseOf(day, s) ==
    LET close == IF Calendar[day] = "half" THEN 26 ELSE 32
    IN IF Calendar[day] \in {"weekend", "holiday"} \/ s < 8 \/ s >= close + 8 THEN "closed"
       ELSE IF s < 19 THEN "premarket" ELSE IF s < close THEN "intraday" ELSE "postclose"

LEMMA PhaseOfSlot ==
    ASSUME NEW u \in Nat
    PROVE  IV!PhaseAt(u) = PhaseOf(IV!DayOf(u), IV!Slot(u))
<1>1. IV!Slot(u) \in 0 .. 47
  BY DayAndSlot
<1>. QED
  BY <1>1 DEF IV!PhaseAt, PhaseOf, IV!IsTradingDay, IV!Close, IV!EarlyClose, IV!PreOpen, IV!Open

(* From one half hour to the next the phase changes exactly at a boundary.  *)
LEMMA ChangesAtBounds ==
    ASSUME NEW u \in Nat, u # 0
    PROVE  (IV!PhaseAt(u) # IV!PhaseAt(u - 1)) <=> (IV!Slot(u) \in Bounds(IV!DayOf(u)))
<1>1. PICK d, s : d = IV!DayOf(u) /\ s = IV!Slot(u)
  OBVIOUS
<1>2. d \in Nat /\ s \in 0 .. 47 /\ u = 48 * d + s
  BY <1>1, DayAndSlot
<1>3. IV!PhaseAt(u) = PhaseOf(d, s) /\ u - 1 \in Nat
  BY <1>1, PhaseOfSlot
<1>4. CASE s # 0
  <2>1. u - 1 = 48 * d + (s - 1) /\ s - 1 \in 0 .. 47
    BY <1>2, <1>4
  <2>2. IV!DayOf(u - 1) = d /\ IV!Slot(u - 1) = s - 1
    <3>1. PICK s1 \in 0 .. 47 : s1 = s - 1
      BY <2>1
    <3>2. IV!DayOf(48 * d + s1) = d /\ IV!Slot(48 * d + s1) = s1
      BY <1>2, SlotOfDay
    <3>3. u - 1 = 48 * d + s1
      BY <2>1, <3>1
    <3>. QED
      BY <3>1, <3>2, <3>3, Zenon
  <2>3. IV!PhaseAt(u - 1) = PhaseOf(d, s - 1)
    BY <1>3, <2>2, PhaseOfSlot
  <2>. QED
    BY <1>1, <1>2, <1>3, <1>4, <2>3 DEF PhaseOf, Bounds
<1>5. CASE s = 0
  <2>1. d - 1 \in Nat /\ u - 1 = 48 * (d - 1) + 47
    BY <1>2, <1>5
  <2>2. IV!DayOf(u - 1) = d - 1 /\ IV!Slot(u - 1) = 47
    <3>1. PICK d1 \in Nat : d1 = d - 1
      BY <2>1
    <3>2. IV!DayOf(48 * d1 + 47) = d1 /\ IV!Slot(48 * d1 + 47) = 47
      <4>1. 47 \in 0 .. 47
        OBVIOUS
      <4>. QED
        BY <4>1, SlotOfDay
    <3>3. u - 1 = 48 * d1 + 47
      BY <2>1, <3>1
    <3>. QED
      BY <3>1, <3>2, <3>3, Zenon
  <2>3. IV!PhaseAt(u - 1) = PhaseOf(d - 1, 47)
    BY <1>3, <2>2, PhaseOfSlot
  <2>. QED
    BY <1>1, <1>2, <1>3, <1>5, <2>3 DEF PhaseOf, Bounds
<1>. QED
  BY <1>2, <1>4, <1>5

(* The days up to one that is known are known.                              *)
LEMMA DaysBetween ==
    ASSUME NEW u, KnownDay(u), NEW v, KnownDay(v), NEW m \in u .. v
    PROVE  /\ KnownDay(m) /\ IV!DayOf(u) <= IV!DayOf(m) /\ IV!DayOf(m) <= IV!DayOf(v)
<1>1. u \in Nat /\ v \in Nat /\ m \in Nat /\ u <= m /\ m <= v
  BY DEF KnownDay
<1>2. /\ IV!DayOf(u) \in Nat /\ IV!DayOf(m) \in Nat /\ IV!DayOf(v) \in Nat
      /\ IV!DayOf(u) <= IV!DayOf(m) /\ IV!DayOf(m) <= IV!DayOf(v)
  <2>1. /\ IV!DayOf(u) \in Nat /\ IV!Slot(u) \in 0 .. 47 /\ u = 48 * IV!DayOf(u) + IV!Slot(u)
        /\ IV!DayOf(m) \in Nat /\ IV!Slot(m) \in 0 .. 47 /\ m = 48 * IV!DayOf(m) + IV!Slot(m)
        /\ IV!DayOf(v) \in Nat /\ IV!Slot(v) \in 0 .. 47 /\ v = 48 * IV!DayOf(v) + IV!Slot(v)
    BY <1>1, DayAndSlot
  <2>. QED
    BY <1>1, <2>1
<1>3. IV!DayOf(m) \in DOMAIN Calendar
  <2>1. 0 .. IV!DayOf(v) \subseteq DOMAIN Calendar
    BY CalendarAssumption DEF KnownDay, IV!Days, CalendarAssumption
  <2>. QED
    BY <1>2, <2>1
<1>. QED
  BY <1>1, <1>2, <1>3 DEF KnownDay, IV!Days

(* The announcement for any time of a known day.                            *)
LEMMA AnnouncedIsNext ==
    ASSUME NEW u, KnownDay(u), IV!NextTransition(u).at # 0
    PROVE  LET next == IV!NextTransition(u)
           IN /\ \A v \in u .. next.at - 1 : IV!PhaseAt(v) = IV!PhaseAt(u)
              /\ IV!PhaseAt(next.at) = next.phase /\ next.phase # IV!PhaseAt(u)
<1>. DEFINE Offsets == {d \in 0 .. 13 : IV!DayOf(u) + d \in IV!Days}
            ahead == {b \in UNION {IV!DayBoundaries(u + 48 * d) : d \in Offsets} : b > u}
            least == IV!Min(ahead)
<1>1. u \in Nat /\ IV!DayOf(u) \in Nat /\ IV!Slot(u) \in 0 .. 47
      /\ u = 48 * IV!DayOf(u) + IV!Slot(u)
  BY DayAndSlot DEF KnownDay
<1>2. ahead # {} /\ IV!NextTransition(u) = [at |-> least, phase |-> IV!PhaseAt(least)]
  BY DEF IV!NextTransition, IV!SlotsPerDay
(* What is ahead: the boundaries of the next two weeks.                     *)
<1>3. \A d \in Offsets : IV!DayBoundaries(u + 48 * d) =
                          {(IV!DayOf(u) + d) * 48 + s : s \in Bounds(IV!DayOf(u) + d)}
  <2>. SUFFICES ASSUME NEW d \in 0 .. 13
                PROVE  IV!DayBoundaries(u + 48 * d) =
                          {(IV!DayOf(u) + d) * 48 + s : s \in Bounds(IV!DayOf(u) + d)}
    OBVIOUS
  <2>1. PICK e \in Nat : e = IV!DayOf(u) + d
    BY <1>1
  <2>2. u + 48 * d = 48 * e + IV!Slot(u)
    BY <1>1, <2>1
  <2>3. IV!DayOf(48 * e + IV!Slot(u)) = e
    BY <1>1, SlotOfDay
  <2>. QED
    BY <2>1, <2>2, <2>3, BoundariesOfDay
<1>4. \A b : b \in ahead <=> \E d \in Offsets : \E s \in Bounds(IV!DayOf(u) + d) :
                                b = (IV!DayOf(u) + d) * 48 + s /\ b > u
  <2>. HIDE DEF Offsets
  <2>. QED
    BY <1>3
<1>5. \A day : Bounds(day) \subseteq 1 .. 47
  BY DEF Bounds
<1>6. ahead \subseteq Nat
  BY <1>1, <1>4, <1>5
<1>7. least \in ahead /\ \A b \in ahead : least <= b
  <2>1. PICK m \in ahead : \A b \in ahead : m <= b
    BY <1>2, <1>6, LeastOf
  <2>. HIDE DEF ahead
  <2>. QED
    BY <2>1 DEF IV!Min
(* It is at a boundary of its day, and there is none between.               *)
<1>8. PICK d, s : /\ d \in Offsets /\ s \in Bounds(IV!DayOf(u) + d)
            /\ least = (IV!DayOf(u) + d) * 48 + s /\ least > u
            /\ d \in 0 .. 13 /\ IV!DayOf(u) + d \in IV!Days
  <2>. HIDE DEF ahead, least
  <2>. QED
    BY <1>4, <1>7
<1>9. /\ least \in Nat /\ IV!DayOf(least) = IV!DayOf(u) + d /\ IV!Slot(least) = s
      /\ KnownDay(least)
  <2>1. PICK e \in Nat : e = IV!DayOf(u) + d
    BY <1>1, <1>8
  <2>2. s \in 0 .. 47 /\ least = 48 * e + s
    BY <1>5, <1>8, <2>1
  <2>3. IV!DayOf(48 * e + s) = e /\ IV!Slot(48 * e + s) = s
    BY <2>2, SlotOfDay
  <2>4. least \in Nat
    BY <1>6, <1>7
  <2>. HIDE DEF least
  <2>. QED
    BY <1>8, <2>1, <2>2, <2>3, <2>4 DEF KnownDay
<1>10. \A v \in u + 1 .. least - 1 : IV!PhaseAt(v) = IV!PhaseAt(v - 1)
  <2>. SUFFICES ASSUME NEW v \in u + 1 .. least - 1
                PROVE  IV!PhaseAt(v) = IV!PhaseAt(v - 1)
    OBVIOUS
  <2>1. v \in u .. least /\ v < least /\ v > u
    BY <1>1, <1>9
  <2>2. /\ KnownDay(v) /\ IV!DayOf(u) <= IV!DayOf(v) /\ IV!DayOf(v) <= IV!DayOf(least)
    BY <2>1, <1>9, DaysBetween
  <2>3. PICK e : e = IV!DayOf(v) - IV!DayOf(u)
    OBVIOUS
  <2>4. IV!DayOf(v) \in Nat /\ v = 48 * IV!DayOf(v) + IV!Slot(v) /\ IV!Slot(v) \in 0 .. 47
    BY <2>2, DayAndSlot DEF KnownDay
  <2>5. e \in 0 .. 13 /\ IV!DayOf(u) + e = IV!DayOf(v)
    BY <1>1, <1>8, <1>9, <2>2, <2>3, <2>4
  <2>6. e \in Offsets
    BY <2>2, <2>5 DEF KnownDay
  <2>7. ASSUME IV!Slot(v) \in Bounds(IV!DayOf(v)) PROVE FALSE
    <3>1. v = (IV!DayOf(u) + e) * 48 + IV!Slot(v) /\ IV!Slot(v) \in Bounds(IV!DayOf(u) + e)
      BY <2>4, <2>5, <2>7
    <3>2. v \in ahead
      <4>. HIDE DEF ahead, Offsets
      <4>. QED
        BY <1>4, <2>1, <2>6, <3>1
    <3>. HIDE DEF ahead, least
    <3>. QED
      BY <1>7, <1>9, <2>1, <3>2
  <2>8. v \in Nat /\ v # 0
    BY <1>1, <2>1, <2>2 DEF KnownDay
  <2>. QED
    BY <2>7, <2>8, ChangesAtBounds
(* So the phase stays what it is, or there would be a first change.         *)
<1>11. \A v \in u .. least - 1 : IV!PhaseAt(v) = IV!PhaseAt(u)
  <2>. DEFINE changed == {v \in u .. least - 1 : IV!PhaseAt(v) # IV!PhaseAt(u)}
  <2>. SUFFICES ASSUME changed # {} PROVE FALSE
    OBVIOUS
  <2>1. changed \subseteq Nat
    BY <1>1, <1>9
  <2>2. PICK m \in changed : \A v \in changed : m <= v
    BY <2>1, LeastOf
  <2>3. m \in u + 1 .. least - 1 /\ m - 1 \in u .. least - 1 /\ m \in Nat
    <3>. HIDE DEF least
    <3>. QED
      BY <1>1, <1>9, <2>2
  <2>4. m - 1 \notin changed
    <3>. HIDE DEF changed
    <3>. QED
      BY <2>2, <2>3
  <2>. HIDE DEF least
  <2>. QED
    BY <1>10, <2>2, <2>3, <2>4
<1>12. IV!PhaseAt(least) # IV!PhaseAt(u)
  <2>1. least # 0 /\ least - 1 \in u .. least - 1
    BY <1>1, <1>8, <1>9
  <2>2. IV!PhaseAt(least) # IV!PhaseAt(least - 1)
    BY <1>8, <1>9, <2>1, ChangesAtBounds
  <2>. QED
    BY <1>11, <2>1, <2>2
<1>. HIDE DEF least
<1>. QED
  BY <1>2, <1>11, <1>12

(* The transition that a view announces is the next change of its phase,    *)
(* for every calendar (internal/intel/phase.go, NextTransition).            *)
THEOREM AnnouncementsAreTrue == ServicesSpec => []TransitionIsNextChange
<1>1. IV!Times \subseteq {u \in Nat : KnownDay(u)}
  BY DEF IV!Times, KnownDay
<1>2. ServicesInit => ClockSafe
  BY <1>1 DEF ServicesInit, NoView, IV!Init, ClockSafe
<1>3. ClockSafe /\ [ServicesNext]_allVars => ClockSafe'
  <2>. SUFFICES ASSUME ClockSafe, [ServicesNext]_allVars PROVE ClockSafe'
    OBVIOUS
  <2>1. [IV!Next]_vVars
    BY Zenon DEF ServicesNext, Fetching, Caching, Migrating, ShuttingDown, Viewing, Loading,
       Alarming, Reporting, Weighing, Analysing, allVars
  <2>2. t' = t \/ t' \in IV!Times
    BY <2>1, Zenon DEF IV!Next, IV!AutoView, IV!ReadADay, IV!MinutePasses, IV!ClockMoves, vVars
  <2>3. CASE t' = t
    BY <2>3 DEF ClockSafe, KnownDay, IV!DayOf, IV!Days
  <2>4. CASE t' \in IV!Times
    BY <2>4, <1>1 DEF ClockSafe, KnownDay, IV!DayOf, IV!Days
  <2>. QED
    BY <2>2, <2>3, <2>4
<1>4. ClockSafe => TransitionIsNextChange
  BY AnnouncedIsNext DEF ClockSafe, TransitionIsNextChange, IV!TransitionIsNextChange
<1>. QED
  BY <1>2, <1>3, <1>4, PTL DEF ServicesSpec

-----------------------------------------------------------------------------
(* The spot of an analysis: where an answer, a hint and the price of a      *)
(* chain come from, and how many answers are still out.                     *)

Replies == UNION {[price : Prices[s], source : {s}] : s \in AF!Sources}
Quoted(price, source) == price \in IF source = "caller" THEN {request.hint} ELSE Prices[source]

HintFounded(h) ==
    /\ h.source \in {"caller", "ibkr", "yfinance"}
    /\ h.price > 0 => Quoted(h.price, h.source)

AnswersFounded == answers \in Seq(Replies)
SpareFounded == spare > 0 => spare \in Prices["yfinance"]
HintsFounded == hint = <<>> \/ \E h : hint = <<h>> /\ HintFounded(h)
ChainShape == chain = [price |-> chain.price, source |-> chain.source, strikes |-> chain.strikes]
ChainFounded == chain.source # "" => chain.price > 0 /\ Quoted(chain.price, chain.source)

SpotFounded == AnswersFounded /\ SpareFounded /\ HintsFounded /\ ChainShape /\ ChainFounded

AnswersOut ==
    /\ asking \subseteq AF!Sources
    /\ Len(answers) + Cardinality(asking) <= 2
    /\ resolver = "off" => asking = {} /\ answers = <<>>

SpotSafe == SpotFounded /\ AnswersOut

LEMMA TwoSources ==
    /\ IsFiniteSet(AF!Sources) /\ Cardinality(AF!Sources) = 2
    /\ \A S \in SUBSET AF!Sources : IsFiniteSet(S) /\ Cardinality(S) \in Nat
    /\ \A S \in SUBSET AF!Sources : \A s \in S : Cardinality(S \ {s}) = Cardinality(S) - 1
<1>1. IsFiniteSet({"ibkr"}) /\ Cardinality({"ibkr"}) = 1
  BY FS_Singleton
<1>2. AF!Sources = {"ibkr"} \cup {"yfinance"} /\ "yfinance" \notin {"ibkr"}
  BY DEF AF!Sources
<1>3. IsFiniteSet(AF!Sources) /\ Cardinality(AF!Sources) = 2
  BY <1>1, <1>2, FS_AddElement
<1>4. \A S \in SUBSET AF!Sources : IsFiniteSet(S) /\ Cardinality(S) \in Nat
  BY <1>3, FS_Subset, FS_CardinalityType
<1>5. \A S \in SUBSET AF!Sources : \A s \in S : Cardinality(S \ {s}) = Cardinality(S) - 1
  BY <1>4, FS_RemoveElement
<1>. QED
  BY <1>3, <1>4, <1>5

LEMMA SpotInit == AF!Init => SpotSafe
<1>. SUFFICES ASSUME AF!Init PROVE SpotSafe
  OBVIOUS
<1>1. /\ answers = <<>> /\ asking = {} /\ spare = 0 /\ hint = <<>>
      /\ chain = [price |-> 0, source |-> "", strikes |-> <<>>]
  BY Zenon DEF AF!Init, AF!NoChain, AF!None
<1>2. AnswersFounded /\ SpareFounded
  <2>1. <<>> \in Seq(Replies)
    OBVIOUS
  <2>2. AnswersFounded
    BY <1>1, <2>1, Zenon DEF AnswersFounded
  <2>3. SpareFounded
    <3>1. spare = 0
      BY <1>1, Zenon
    <3>. QED
      BY <3>1 DEF SpareFounded
  <2>. QED
    BY <2>2, <2>3
<1>3. HintsFounded /\ ChainShape /\ ChainFounded
  BY <1>1 DEF HintsFounded, ChainShape, ChainFounded
<1>4. AnswersOut
  <2>1. Len(<<>>) = 0 /\ Cardinality({}) = 0
    BY FS_EmptySet
  <2>2. Len(answers) = 0 /\ Cardinality(asking) = 0
    BY <1>1, <2>1, Zenon
  <2>3. Len(answers) + Cardinality(asking) <= 2
    BY <2>2
  <2>. QED
    BY <1>1, <2>3, Zenon DEF AnswersOut
<1>. QED
  BY <1>2, <1>3, <1>4 DEF SpotSafe, SpotFounded

LEMMA SpotFoundedStep ==
    ASSUME SpotSafe, [AF!Next]_aVars
    PROVE  SpotFounded'
<1>. USE DEF SpotSafe, SpotFounded
<1>1. ASSUME UNCHANGED answers PROVE AnswersFounded'
  BY <1>1 DEF AnswersFounded
<1>2. ASSUME UNCHANGED spare PROVE SpareFounded'
  BY <1>2 DEF SpareFounded
<1>3. ASSUME UNCHANGED <<request, hint>> PROVE HintsFounded'
  BY <1>3 DEF HintsFounded, HintFounded, Quoted
<1>4. ASSUME UNCHANGED <<request, chain>> PROVE ChainShape' /\ ChainFounded'
  BY <1>4 DEF ChainShape, ChainFounded, Quoted
<1>5. CASE \/ AF!Quote \/ AF!LoadBars \/ AF!SpotTimesOut \/ AF!Sampled \/ AF!ContextEnds
           \/ (\E w \in Samplers : AF!Works(w)) \/ UNCHANGED aVars
  <2>1. UNCHANGED <<request, answers, spare, hint, chain>>
    BY <1>5, Zenon DEF AF!Quote, AF!LoadBars, AF!SpotTimesOut, AF!Sampled, AF!ContextEnds,
       AF!Works, AF!spotVars, aVars
  <2>. QED
    BY <2>1, <1>1, <1>2, <1>3, <1>4
<1>6. CASE AF!AskSpot
  <2>1. UNCHANGED <<request, answers, spare, chain>>
    BY <1>6, Zenon DEF AF!AskSpot
  <2>2. UNCHANGED hint \/ hint' = <<[price |-> request.hint, source |-> "caller"]>>
    BY <1>6, Zenon DEF AF!AskSpot
  <2>3. HintsFounded'
    BY <2>1, <2>2, <1>3 DEF HintsFounded, HintFounded, Quoted
  <2>. QED
    BY <2>1, <2>3, <1>1, <1>2, <1>4
<1>7. CASE AF!SpotAnswers
  <2>1. UNCHANGED <<request, spare, hint, chain>>
    BY <1>7, Zenon DEF AF!SpotAnswers
  <2>2. PICK s, p : /\ s \in asking /\ p \in Prices[s]
                    /\ answers' = Append(answers, [price |-> p, source |-> s])
    BY <1>7, Zenon DEF AF!SpotAnswers
  <2>3. s \in AF!Sources
    BY <2>2 DEF AnswersOut
  <2>4. PICK a : a = [price |-> p, source |-> s]
    OBVIOUS
  <2>5. a \in Replies
    BY <2>2, <2>3, <2>4 DEF Replies
  <2>6. AnswersFounded'
    BY <2>2, <2>4, <2>5 DEF AnswersFounded
  <2>. QED
    BY <2>1, <2>6, <1>2, <1>3, <1>4
<1>8. CASE AF!ResolverReads
  <2>1. UNCHANGED <<request, chain>> /\ answers' = Tail(answers) /\ answers # <<>>
    BY <1>8, Zenon DEF AF!ResolverReads
  <2>2. Head(answers) \in Replies /\ AnswersFounded'
    BY <2>1 DEF AnswersFounded
  <2>3. PICK r : r = Head(answers)
    OBVIOUS
  <2>4. r.source \in AF!Sources /\ r.price \in Prices[r.source]
    BY <2>2, <2>3 DEF Replies
  <2>5. PICK known : known = IF r.source = "yfinance" /\ r.price > 0 THEN r.price ELSE spare
    OBVIOUS
  <2>6. spare' = known
    BY <1>8, <2>3, <2>5 DEF AF!ResolverReads
  <2>7. known > 0 => known \in Prices["yfinance"]
    BY <2>4, <2>5 DEF SpareFounded
  <2>8. \/ UNCHANGED hint
        \/ hint' = <<[price |-> r.price, source |-> "ibkr"]>> /\ r.source = "ibkr"
        \/ hint' = <<[price |-> known, source |-> "yfinance"]>>
    BY <1>8, <2>3, <2>5 DEF AF!ResolverReads, AF!Hint
  <2>9. HintsFounded'
    BY <2>1, <2>4, <2>7, <2>8, <1>3 DEF HintsFounded, HintFounded, Quoted
  <2>. QED
    BY <2>1, <2>2, <2>6, <2>7, <2>9, <1>4 DEF SpareFounded
<1>9. CASE AF!ResolverGivesUp
  <2>1. /\ UNCHANGED <<request, answers, spare, chain>>
        /\ hint' = <<[price |-> spare, source |-> "yfinance"]>>
    BY <1>9, Zenon DEF AF!ResolverGivesUp, AF!Hint
  <2>2. HintsFounded'
    BY <2>1 DEF HintsFounded, HintFounded, SpareFounded, Quoted
  <2>. QED
    BY <2>1, <2>2, <1>1, <1>2, <1>4
<1>10. CASE AF!Discover \/ AF!Structure
  <2>1. UNCHANGED <<request, answers, spare, hint>>
    BY <1>10, Zenon DEF AF!Discover, AF!Structure, AF!spotVars
  <2>2. UNCHANGED chain \/ \E g : chain' = [AF!NoChain EXCEPT !.strikes = g]
    BY <1>10, Zenon DEF AF!Discover, AF!Structure
  <2>3. ChainShape' /\ ChainFounded'
    BY <2>1, <2>2, <1>4 DEF ChainShape, ChainFounded, AF!NoChain
  <2>. QED
    BY <2>1, <2>3, <1>1, <1>2, <1>3
<1>11. CASE AF!TakeHint
  <2>1. UNCHANGED <<request, answers, spare>> /\ hint # <<>> /\ hint' = <<>>
    BY <1>11, Zenon DEF AF!TakeHint
  <2>2. PICK h : hint = <<h>> /\ HintFounded(h)
    BY <2>1 DEF HintsFounded
  <2>3. \/ UNCHANGED chain \/ chain' = AF!NoChain
        \/ /\ h.price > 0
           /\ chain' = [chain EXCEPT !.price = h.price, !.source = h.source]
    <3>1. Head(hint) = h
      BY <2>2
    <3>. QED
      BY <1>11, <3>1, Zenon DEF AF!TakeHint
  <2>4. ChainShape' /\ ChainFounded'
    <3>1. CASE chain' = AF!NoChain
      BY <3>1 DEF ChainShape, ChainFounded, AF!NoChain
    <3>2. CASE h.price > 0 /\ chain' = [chain EXCEPT !.price = h.price, !.source = h.source]
      <4>1. chain' = [price |-> h.price, source |-> h.source, strikes |-> chain.strikes]
        BY <3>2 DEF ChainShape
      <4>. QED
        BY <4>1, <3>2, <2>1, <2>2 DEF ChainShape, ChainFounded, HintFounded, Quoted
    <3>. QED
      BY <2>1, <2>3, <3>1, <3>2, <1>4
  <2>5. HintsFounded'
    BY <2>1 DEF HintsFounded
  <2>. QED
    BY <2>1, <2>4, <2>5, <1>1, <1>2
<1>12. CASE AF!Backfill
  <2>1. UNCHANGED <<request, answers, spare, hint>>
    BY <1>12, Zenon DEF AF!Backfill, AF!spotVars
  <2>2. PICK p : chain' = [chain EXCEPT !.price = p] /\ (chain.price > 0 => p = chain.price)
    BY <1>12 DEF AF!Backfill
  <2>3. ChainShape' /\ ChainFounded'
    BY <2>1, <2>2 DEF ChainShape, ChainFounded, Quoted
  <2>. QED
    BY <2>1, <2>3, <1>1, <1>2, <1>3
<1>. QED
  BY <1>5, <1>6, <1>7, <1>8, <1>9, <1>10, <1>11, <1>12, Zenon DEF AF!Next

LEMMA AnswersOutStep ==
    ASSUME SpotSafe, [AF!Next]_aVars
    PROVE  AnswersOut'
<1>. USE DEF SpotSafe
<1>1. CASE UNCHANGED <<asking, answers, resolver>>
  BY <1>1 DEF AnswersOut
<1>2. CASE \/ AF!Quote \/ AF!LoadBars \/ AF!SpotTimesOut \/ AF!Sampled \/ AF!ContextEnds
           \/ (\E w \in Samplers : AF!Works(w)) \/ AF!Discover \/ AF!TakeHint
           \/ AF!Structure \/ AF!Backfill \/ UNCHANGED aVars
  BY <1>1, <1>2, Zenon DEF AF!Quote, AF!LoadBars, AF!SpotTimesOut, AF!Sampled, AF!ContextEnds,
     AF!Works, AF!Discover, AF!TakeHint, AF!Structure, AF!Backfill, AF!spotVars, aVars
<1>3. CASE AF!AskSpot
  <2>1. /\ asking = {} /\ answers = <<>> /\ answers' = answers /\ resolver' # "off"
        /\ asking' = asking \/ asking' = AF!Sources
    BY <1>3 DEF AF!AskSpot, AnswersOut
  <2>. QED
    BY <2>1, TwoSources, FS_EmptySet DEF AnswersOut
<1>4. CASE AF!SpotAnswers
  <2>1. PICK s, p : /\ s \in asking /\ asking' = asking \ {s}
                    /\ answers' = Append(answers, [price |-> p, source |-> s])
    BY <1>4, Zenon DEF AF!SpotAnswers
  <2>2. resolver' = resolver /\ resolver # "off"
    BY <1>4, <2>1 DEF AF!SpotAnswers, AnswersOut
  <2>3. Cardinality(asking') = Cardinality(asking) - 1 /\ Cardinality(asking) \in Nat
    BY <2>1, TwoSources DEF AnswersOut
  <2>4. Len(answers') = Len(answers) + 1 /\ Len(answers) \in Nat
    <3>1. answers \in Seq(Replies)
      BY DEF SpotFounded, AnswersFounded
    <3>2. Len(answers) \in Nat
      BY <3>1
    <3>. QED
      BY <2>1, <3>1, <3>2
  <2>. QED
    BY <2>1, <2>2, <2>3, <2>4 DEF AnswersOut
<1>5. CASE AF!ResolverReads \/ AF!ResolverGivesUp
  <2>1. asking' = asking /\ resolver # "off" /\ resolver' \in {"waiting", "sent"}
    BY <1>5 DEF AF!ResolverReads, AF!ResolverGivesUp, AF!Hint
  <2>2. Len(answers') <= Len(answers) /\ Len(answers) \in Nat /\ Len(answers') \in Nat
    <3>1. answers' = answers \/ (answers # <<>> /\ answers' = Tail(answers))
      BY <1>5, Zenon DEF AF!ResolverReads, AF!ResolverGivesUp
    <3>2. answers \in Seq(Replies)
      BY DEF SpotFounded, AnswersFounded
    <3>. QED
      BY <3>1, <3>2
  <2>3. Cardinality(asking) \in Nat
    BY TwoSources DEF AnswersOut
  <2>. QED
    BY <2>1, <2>2, <2>3 DEF AnswersOut
<1>. QED
  BY <1>2, <1>3, <1>4, <1>5, Zenon DEF AF!Next

-----------------------------------------------------------------------------
(* The contracts of an analysis.  Of those in the window, the targets are   *)
(* all, or of a sample the nearest of each side.  While the context lives,  *)
(* a target that IB was not asked for is in the queue or in the hands of a  *)
(* worker that is about to ask, and what is in the queue is behind what is  *)
(* in hands; so when a worker asks, only the others can hold nearer ones.   *)
TargetsOf(what, strikes, price) ==
    LET window == AF!InWindow(strikes, price)
    IN IF what = "sample"
       THEN {c \in window : \A d \in window : d[1] = c[1] /\ d # c => AF!Before(c, d, price)}
       ELSE window

Window == AF!InWindow(chain.strikes, chain.price)
Ahead(c, d) == AF!Before(c, d, chain.price)
Targets == TargetsOf(request.kind, chain.strikes, chain.price)
Waits(c) == \E i \in DOMAIN queue : queue[i] = c
Holds(w, c) == worker[w].at = "took" /\ worker[w].job = c
Nearer(c) ==
    {d \in Window \ queried : AF!Distance(d, chain.price) < AF!Distance(c, chain.price)}

WorkerShape ==
    /\ DOMAIN worker = Samplers
    /\ \A w \in Samplers : worker[w] = [at |-> worker[w].at, job |-> worker[w].job]

Sampling ==
    /\ chain.source # ""
    /\ queue \in Seq(Targets)
    /\ \A w \in Samplers : \A c : Holds(w, c) => c \in Targets
    /\ aCtx = "live" =>
        /\ \A c \in Targets : c \in queried \/ Waits(c) \/ \E w \in Samplers : Holds(w, c)
        /\ \A w \in Samplers : worker[w].at = "off" => queue = <<>>
    /\ request.kind # "sample" =>
        /\ \A i, j \in DOMAIN queue : i < j => Ahead(queue[i], queue[j])
        /\ \A w \in Samplers : \A c : \A i \in DOMAIN queue : Holds(w, c) => Ahead(c, queue[i])

BeforeSampling == aPc \in {"quote", "bars", "chain", "hint", "structure", "failed"}

JobsSafe ==
    /\ request.hint \in Nat /\ request.broker \in AF!Sources
    /\ chain.strikes \in Seq(Nat) /\ chain.price \in Nat
    /\ BeforeSampling => chain.source = ""
    /\ chain.source = "" => queried = {}
    /\ WorkerShape
    /\ queried \subseteq Targets
    /\ request.kind # "sample" => \A c \in queried : Cardinality(Nearer(c)) < Cardinality(Samplers)
    /\ aPc \in {"backfill", "done"} /\ aCtx = "live" /\ chain.source # "" => queried = Targets
    /\ aPc = "metrics" => Sampling

LEMMA StrikesAreNumbers ==
    ASSUME NEW strikes \in Seq(Nat), NEW price \in Nat,
           NEW W, W = AF!InWindow(strikes, price)
    PROVE  /\ IsFiniteSet(W)
           /\ \A c \in W : c = <<c[1], c[2]>> /\ c[1] \in {"C", "P"} /\ c[2] \in Nat
           /\ \A k \in Nat : <<"C", k>> \in W <=> <<"P", k>> \in W
<1>. DEFINE levels == {strikes[i] : i \in DOMAIN strikes}
<1>1. levels \subseteq Nat
  OBVIOUS
<1>2. IsFiniteSet(levels)
  <2>1. PICK n \in Nat : n = Len(strikes) /\ DOMAIN strikes = 1 .. n
    OBVIOUS
  <2>2. 1 \in Int /\ n \in Int
    OBVIOUS
  <2>3. IsFiniteSet(1 .. n)
    BY <2>2, FS_Interval
  <2>4. levels = {strikes[i] : i \in 1 .. n}
    BY <2>1
  <2>. HIDE DEF levels
  <2>. QED
    BY <2>3, <2>4, ImageIsSmaller
<1>3. IsFiniteSet({"C", "P"})
  <2>1. {"C", "P"} = {"C"} \cup {"P"}
    OBVIOUS
  <2>2. IsFiniteSet({"C"})
    BY FS_Singleton
  <2>3. IsFiniteSet({"C"} \cup {"P"})
    BY <2>2, FS_AddElement
  <2>. QED
    BY <2>1, <2>3
<1>4. W \in SUBSET ({"C", "P"} \X levels)
  BY DEF AF!InWindow
<1>5. IsFiniteSet(W)
  <2>. HIDE DEF levels
  <2>1. IsFiniteSet({"C", "P"} \X levels)
    BY <1>2, <1>3, FS_Product
  <2>. QED
    BY <1>4, <2>1, FS_Subset
<1>6. \A c \in {"C", "P"} \X levels : c = <<c[1], c[2]>> /\ c[1] \in {"C", "P"} /\ c[2] \in Nat
  <2>. HIDE DEF levels
  <2>1. \A c \in {"C", "P"} \X levels :
            c = <<c[1], c[2]>> /\ c[1] \in {"C", "P"} /\ c[2] \in levels
    OBVIOUS
  <2>. QED
    BY <1>1, <2>1
<1>7. \A k \in Nat : <<"C", k>> \in W <=> <<"P", k>> \in W
  BY DEF AF!InWindow
<1>. HIDE DEF levels
<1>. QED
  BY <1>4, <1>5, <1>6, <1>7

InFront(W, price) == {p \in W \X W : AF!Before(p[1], p[2], price)}

LEMMA NearestIsAnOrder ==
    ASSUME NEW strikes \in Seq(Nat), NEW price \in Nat,
           NEW W, W = AF!InWindow(strikes, price)
    PROVE  /\ Orders(InFront(W, price), W)
           /\ \A c, d \in W : <<c, d>> \in InFront(W, price) <=> AF!Before(c, d, price)
<1>. DEFINE far(c) == AF!Distance(c, price)
<1>1. \A c \in W : /\ c = <<c[1], c[2]>> /\ c[1] \in {"C", "P"} /\ c[2] \in Nat
                        /\ far(c) \in Int
  BY StrikesAreNumbers DEF AF!Distance
<1>2. \A c, d : AF!Before(c, d, price) <=>
        \/ far(c) < far(d)
        \/ far(c) = far(d) /\ ((c[1] = "C" /\ d[1] = "P") \/ (c[1] = d[1] /\ c[2] < d[2]))
  BY DEF AF!Before
<1>. HIDE DEF far
<1>3. \A c, d \in W : <<c, d>> \in InFront(W, price) <=> AF!Before(c, d, price)
  BY DEF InFront
<1>4. ASSUME NEW c \in W, NEW d \in W, c # d
      PROVE  AF!Before(c, d, price) \/ AF!Before(d, c, price)
  <2>1. c[1] # d[1] \/ c[2] # d[2]
    BY <1>1, <1>4, Zenon
  <2>2. c[1] \in {"C", "P"} /\ d[1] \in {"C", "P"} /\ c[2] \in Nat /\ d[2] \in Nat
        /\ far(c) \in Int /\ far(d) \in Int
    BY <1>1
  <2>. QED
    BY <1>2, <2>1, <2>2
<1>5. \A c \in W : ~AF!Before(c, c, price)
  BY <1>1, <1>2
<1>6. ASSUME NEW c \in W, NEW d \in W, NEW e \in W, AF!Before(c, d, price), AF!Before(d, e, price)
      PROVE  AF!Before(c, e, price)
  <2>1. /\ c[2] \in Nat /\ d[2] \in Nat /\ e[2] \in Nat
        /\ far(c) \in Int /\ far(d) \in Int /\ far(e) \in Int
    BY <1>1
  <2>. QED
    BY <1>2, <1>6, <2>1
<1>7. Orders(InFront(W, price), W)
  BY <1>3, <1>4, <1>5, <1>6, Zenon DEF Orders
<1>. QED
  BY <1>3, <1>7

(* The jobs are the contracts of the window, each once, in that order.      *)
InOrder(list, W, price) ==
    /\ list \in Seq(W) /\ Len(list) = Cardinality(W)
    /\ W = {list[n] : n \in DOMAIN list}
    /\ \A m, n \in DOMAIN list : m < n => AF!Before(list[m], list[n], price)

LEMMA JobsAreSorted ==
    ASSUME NEW strikes \in Seq(Nat), NEW price \in Nat,
           NEW W, W = AF!InWindow(strikes, price), NEW list, list = AF!Prioritized(W, price)
    PROVE  InOrder(list, W, price)
<1>0. PICK R : R = InFront(W, price)
  BY Zenon
<1>1. IsFiniteSet(W) /\ Orders(R, W)
      /\ \A c, d \in W : <<c, d>> \in R <=> AF!Before(c, d, price)
  BY <1>0, StrikesAreNumbers, NearestIsAnOrder
<1>3. \A c \in W : {d \in W : AF!Before(d, c, price)} = Lower(c, R, W)
  BY <1>1 DEF Lower
<1>4. list = [n \in 1 .. Cardinality(W) |->
                CHOOSE c \in W : Rank(c, R, W) = n - 1]
  <2>1. list = [n \in 1 .. Cardinality(W) |->
                CHOOSE c \in W : Cardinality({d \in W : AF!Before(d, c, price)}) = n - 1]
    BY Zenon DEF AF!Prioritized, AF!Cardinality, Cardinality
  <2>2. ASSUME NEW n
        PROVE  (CHOOSE c \in W : Cardinality({d \in W : AF!Before(d, c, price)}) = n - 1)
                = CHOOSE c \in W : Rank(c, R, W) = n - 1
    <3>1. \A c \in W : Cardinality({d \in W : AF!Before(d, c, price)}) = Rank(c, R, W)
      BY <1>3, Zenon DEF Rank
    <3>. QED
      BY <3>1
  <2>. QED
    BY <2>1, <2>2, Zenon
<1>5. Sorts(list, R, W)
  <2>1. \A n \in 1 .. Cardinality(W) : list[n] = CHOOSE c \in W : Rank(c, R, W) = n - 1
    BY <1>4, Zenon
  <2>2. \A n \in 1 .. Cardinality(W) : \E c \in W : Rank(c, R, W) = n - 1
    BY <1>1, EveryRankIsTaken
  <2>3. \A n \in 1 .. Cardinality(W) : list[n] \in W /\ Rank(list[n], R, W) = n - 1
    BY <2>1, <2>2, Zenon
  <2>4. list \in [1 .. Cardinality(W) -> W]
    BY <1>4, <2>3, Zenon
  <2>5. \A n \in 1 .. Cardinality(W) : Rank(list[n], R, W) = n - 1
    BY <2>3
  <2>6. IsFiniteSet(W) /\ Orders(R, W)
    BY <1>1
  <2>. QED
    BY <2>4, <2>5, <2>6, RanksSort, Zenon
<1>6. \A n \in DOMAIN list : list[n] \in W
  BY <1>5 DEF Sorts
<1>. QED
  BY <1>1, <1>5, <1>6 DEF Sorts, InOrder

(* A sample's jobs are the nearest call and the nearest put.                *)
LEMMA SampleIsNearest ==
    ASSUME NEW strikes \in Seq(Nat), NEW price \in Nat,
           NEW W, W = AF!InWindow(strikes, price), W # {},
           NEW two, two = AF!AtmJobs(AF!Prioritized(W, price))
    PROVE  /\ two \in Seq(TargetsOf("sample", strikes, price))
           /\ TargetsOf("sample", strikes, price) = {two[i] : i \in DOMAIN two}
           /\ Cardinality(TargetsOf("sample", strikes, price)) = 2
<1>. DEFINE T == TargetsOf("sample", strikes, price)
<1>1. PICK list : list = AF!Prioritized(W, price)
  BY Zenon
<1>2. /\ list \in Seq(W)
      /\ W = {list[n] : n \in DOMAIN list}
      /\ \A m, n \in DOMAIN list : m < n => AF!Before(list[m], list[n], price)
  <2>1. InOrder(list, W, price)
    BY <1>1, JobsAreSorted, Zenon
  <2>. QED
    BY <2>1 DEF InOrder
<1>3. /\ \A c \in W : c = <<c[1], c[2]>> /\ c[1] \in {"C", "P"} /\ c[2] \in Nat
      /\ \A k \in Nat : <<"C", k>> \in W <=> <<"P", k>> \in W
  BY StrikesAreNumbers
<1>4. \A c, d \in W : AF!Before(c, d, price) => ~AF!Before(d, c, price)
  <2>1. Orders(InFront(W, price), W)
    /\ \A c, d \in W : <<c, d>> \in InFront(W, price) <=> AF!Before(c, d, price)
    BY NearestIsAnOrder
  <2>. QED
    BY <2>1 DEF Orders
<1>. DEFINE first(right) == CHOOSE i \in DOMAIN list :
                list[i][1] = right /\ \A j \in 1 .. (i - 1) : list[j][1] # right
<1>5. T = {c \in W : \A d \in W : d[1] = c[1] /\ d # c => AF!Before(c, d, price)}
  BY DEF TargetsOf
<1>6. ASSUME NEW right \in {"C", "P"}
      PROVE  /\ first(right) \in DOMAIN list
             /\ list[first(right)][1] = right
             /\ \A j \in 1 .. (first(right) - 1) : list[j][1] # right
  <2>. DEFINE P == {i \in DOMAIN list : list[i][1] = right}
  <2>1. PICK c \in W : c[1] = right
    <3>1. PICK d \in W : d = <<d[1], d[2]>> /\ d[1] \in {"C", "P"} /\ d[2] \in Nat
      BY <1>3
    <3>2. <<"C", d[2]>> \in W /\ <<"P", d[2]>> \in W
      BY <1>3, <3>1
    <3>3. <<right, d[2]>> \in W
      BY <3>2
    <3>. QED
      BY <3>3
  <2>2. P \subseteq Nat /\ P # {}
    BY <1>2, <2>1
  <2>3. PICK m \in P : \A n \in P : m <= n
    BY <2>2, LeastNumber
  <2>4. /\ m \in DOMAIN list /\ list[m][1] = right
        /\ \A j \in 1 .. (m - 1) : list[j][1] # right
    <3>1. /\ m \in DOMAIN list /\ list[m][1] = right
          /\ m \in Nat /\ m <= Len(list) /\ Len(list) \in Nat
      BY <1>2
    <3>2. \A j \in 1 .. (m - 1) : j \in DOMAIN list /\ ~(m <= j)
      BY <1>2, <3>1
    <3>. QED
      BY <2>3, <3>1, <3>2
  <2>. QED
    BY <2>4, Zenon
<1>. HIDE DEF first, T
<1>7. ASSUME NEW right \in {"C", "P"}
      PROVE  /\ list[first(right)] \in T
             /\ \A c \in T : c[1] = right => c = list[first(right)]
  <2>. DEFINE a == list[first(right)]
  <2>1. a \in W /\ a[1] = right /\ first(right) \in Nat
    BY <1>2, <1>6
  <2>2. ASSUME NEW d \in W, d[1] = right, d # a PROVE AF!Before(a, d, price)
    <3>1. PICK n \in DOMAIN list : list[n] = d
      BY <1>2
    <3>2. n \in Nat /\ n # first(right) /\ n >= 1
      BY <1>2, <2>2, <3>1
    <3>3. ~(n < first(right))
      <4>1. n < first(right) => n \in 1 .. (first(right) - 1)
        BY <2>1, <3>2
      <4>. QED
        BY <1>6, <2>2, <3>1, <4>1
    <3>4. first(right) < n
      BY <2>1, <3>2, <3>3
    <3>. QED
      BY <1>2, <1>6, <3>1, <3>4
  <2>. HIDE DEF a
  <2>3. a \in T
    BY <1>5, <2>1, <2>2
  <2>4. ASSUME NEW c \in T, c[1] = right, c # a PROVE FALSE
    <3>1. c \in W /\ AF!Before(c, a, price)
      BY <1>5, <2>1, <2>4
    <3>2. AF!Before(a, c, price)
      BY <2>2, <2>4, <3>1
    <3>. QED
      BY <1>4, <2>1, <3>1, <3>2
  <2>. QED
    BY <2>3, <2>4 DEF a
<1>8. two = <<list[first("C")], list[first("P")]>>
  BY <1>1, Zenon DEF AF!AtmJobs, first
<1>9. PICK a, b : a = list[first("C")] /\ b = list[first("P")]
  BY Zenon
<1>10. a \in T /\ b \in T /\ a # b
  BY <1>6, <1>7, <1>9
<1>11. T \subseteq {a, b}
  <2>1. \A c \in T : c[1] \in {"C", "P"}
    BY <1>3, <1>5
  <2>. QED
    BY <1>7, <1>9, <2>1
<1>12. T = {a, b} /\ two = <<a, b>>
  BY <1>8, <1>9, <1>10, <1>11
<1>13. Cardinality({a, b}) = 2
  <2>1. {a, b} = {a} \cup {b} /\ b \notin {a}
    BY <1>10
  <2>2. IsFiniteSet({a}) /\ Cardinality({a}) = 1
    BY FS_Singleton
  <2>3. Cardinality({a} \cup {b}) = Cardinality({a}) + 1
    BY <2>1, <2>2, FS_AddElement, Zenon
  <2>4. Cardinality({a, b}) = 1 + 1
    BY <2>1, <2>2, <2>3, Zenon
  <2>. QED
    BY <2>4
<1>14. two \in Seq(T) /\ T = {two[i] : i \in DOMAIN two}
  BY <1>12
<1>. QED
  BY <1>12, <1>13, <1>14 DEF T

LEMMA JobsInit == AF!Init => JobsSafe
<1>. SUFFICES ASSUME AF!Init PROVE JobsSafe
  OBVIOUS
<1>1. /\ chain = [price |-> 0, source |-> "", strikes |-> <<>>]
      /\ worker = [w \in Samplers |-> AF!Off] /\ queried = {}
      /\ aPc \in {"chain", "quote"} /\ request \in AF!AnalysisRequests
  BY Zenon DEF AF!Init, AF!NoChain, AF!None
<1>2. request.hint \in Nat /\ request.broker \in AF!Sources
  <2>1. request.hint \in {0} \cup Prices["ibkr"] /\ request.broker \in AF!Sources
    BY <1>1 DEF AF!AnalysisRequests, AF!None
  <2>2. Prices["ibkr"] \subseteq Nat
    BY ChainsAssumption
  <2>. QED
    BY <2>1, <2>2
<1>3. chain.strikes = <<>> /\ chain.price = 0 /\ chain.source = ""
  BY <1>1
<1>4. WorkerShape
  <2>1. DOMAIN worker = Samplers /\ \A w \in Samplers : worker[w] = AF!Off
    BY <1>1, Zenon
  <2>2. AF!Off = [at |-> AF!Off.at, job |-> AF!Off.job]
    BY DEF AF!Off
  <2>. QED
    BY <2>1, <2>2, Zenon DEF WorkerShape
<1>5. <<>> \in Seq(Nat) /\ 0 \in Nat
  OBVIOUS
<1>. QED
  BY <1>1, <1>2, <1>3, <1>4, <1>5 DEF JobsSafe

LEMMA SameTargets ==
    ASSUME request' = request, chain' = chain
    PROVE  /\ Window' = Window /\ Targets' = Targets
           /\ \A c, d : Ahead(c, d)' <=> Ahead(c, d)
           /\ queried' = queried => \A c : Nearer(c)' = Nearer(c)
<1>1. Window' = Window
  BY DEF Window
<1>2. Targets' = Targets
  BY DEF Targets
<1>3. \A c, d : Ahead(c, d)' <=> Ahead(c, d)
  BY DEF Ahead
<1>4. queried' = queried => \A c : Nearer(c)' = Nearer(c)
  BY <1>1 DEF Nearer
<1>. QED
  BY <1>1, <1>2, <1>3, <1>4

(* Steps that have nothing to do with the contracts.                        *)
LEMMA ElsewhereKeepsJobs ==
    ASSUME JobsSafe, UNCHANGED <<request, chain, queue, worker, queried>>,
           aCtx' = aCtx \/ aCtx' = "dead", aPc' = aPc \/ (BeforeSampling /\ BeforeSampling')
    PROVE  JobsSafe'
<1>1. /\ Window' = Window /\ Targets' = Targets
      /\ \A c, d : Ahead(c, d)' <=> Ahead(c, d)
      /\ \A c : Nearer(c)' = Nearer(c)
  BY SameTargets
<1>2. /\ \A c : Waits(c)' <=> Waits(c)
      /\ \A w, c : Holds(w, c)' <=> Holds(w, c)
  BY DEF Waits, Holds
<1>3. Sampling => Sampling'
  BY <1>1, <1>2, Zenon DEF Sampling
<1>4. BeforeSampling => aPc \notin {"backfill", "done", "metrics"}
  BY DEF BeforeSampling
<1>5. BeforeSampling' => aPc' \notin {"backfill", "done", "metrics"}
  BY DEF BeforeSampling
<1>6. aPc' = aPc => (BeforeSampling' <=> BeforeSampling)
  BY DEF BeforeSampling
<1>7. WorkerShape'
  BY DEF JobsSafe, WorkerShape
<1>. QED
  BY <1>1, <1>3, <1>4, <1>5, <1>6, <1>7, Zenon DEF JobsSafe

LEMMA NoContractsYet ==
    ASSUME JobsSafe, chain'.source = "", chain'.strikes \in Seq(Nat), chain'.price \in Nat,
           UNCHANGED <<request, worker>>, queried' = {}, aPc' # "metrics"
    PROVE  JobsSafe'
<1>1. WorkerShape'
  BY DEF JobsSafe, WorkerShape
<1>. QED
  BY <1>1 DEF JobsSafe

(* A worker takes the nearest contract that is left, asks or gives up.      *)
LEMMA WorkerKeepsJobs ==
    ASSUME JobsSafe, NEW w \in Samplers, AF!Works(w)
    PROVE  JobsSafe'
<1>1. /\ aPc = "metrics" /\ UNCHANGED <<request, aCtx, aPc, chain>>
  BY Zenon DEF AF!Works
<1>2. Sampling /\ WorkerShape /\ DOMAIN worker = Samplers /\ IsFiniteSet(Samplers)
  BY <1>1, ChainsAssumption DEF JobsSafe, WorkerShape
<1>3. /\ Window' = Window /\ Targets' = Targets
      /\ \A c, d : Ahead(c, d)' <=> Ahead(c, d)
      /\ queried' = queried => \A c : Nearer(c)' = Nearer(c)
  BY <1>1, SameTargets
<1>. DEFINE Queues ==
        /\ \A v \in Samplers : \A c : Holds(v, c)' =>
              \/ Holds(v, c)
              \/ queue # <<>> /\ c = queue[1] /\ queue' = Tail(queue)
        /\ \/ queue' = queue
           \/ queue # <<>> /\ queue' = Tail(queue)
<1>4. ASSUME Queues, queried' = queried, WorkerShape',
             aCtx = "live" =>
                /\ \A c \in Targets : c \in queried \/ Waits(c)' \/ \E v \in Samplers : Holds(v, c)'
                /\ \A v \in Samplers : worker'[v].at = "off" => queue' = <<>>
      PROVE  JobsSafe'
  <2>1. queue \in Seq(Targets)
    BY <1>2 DEF Sampling
  <2>2. /\ queue' \in Seq(Targets)
        /\ \A i \in DOMAIN queue' : \E j \in DOMAIN queue : queue'[i] = queue[j]
              /\ (queue' # queue => j = i + 1)
    BY <1>4, <2>1
  <2>3. \A v \in Samplers : \A c : Holds(v, c)' => c \in Targets
    <3>1. queue # <<>> => queue[1] \in Targets
      BY <2>1
    <3>. QED
      BY <1>2, <1>4, <3>1 DEF Sampling
  <2>4. ASSUME request.kind # "sample"
        PROVE  /\ \A i, j \in DOMAIN queue' : i < j => Ahead(queue'[i], queue'[j])
               /\ \A v \in Samplers : \A c : \A i \in DOMAIN queue' :
                     Holds(v, c)' => Ahead(c, queue'[i])
    <3>1. /\ \A i, j \in DOMAIN queue : i < j => Ahead(queue[i], queue[j])
          /\ \A v \in Samplers : \A c : \A i \in DOMAIN queue : Holds(v, c) => Ahead(c, queue[i])
      BY <1>2, <2>4 DEF Sampling
    <3>2. CASE queue' = queue /\ \A v \in Samplers : \A c : Holds(v, c)' => Holds(v, c)
      BY <3>1, <3>2
    <3>3. CASE queue # <<>> /\ queue' = Tail(queue)
      <4>1. \A i \in DOMAIN queue' :
                i \in Nat /\ i >= 1 /\ i + 1 \in DOMAIN queue /\ queue'[i] = queue[i + 1]
        BY <2>1, <3>3
      <4>2. 1 \in DOMAIN queue
        BY <2>1, <3>3
      <4>3. ASSUME NEW i \in DOMAIN queue', NEW j \in DOMAIN queue', i < j
            PROVE  Ahead(queue'[i], queue'[j])
        <5>1. i + 1 < j + 1
          BY <4>1, <4>3
        <5>. QED
          BY <3>1, <4>1, <5>1
      <4>4. ASSUME NEW v \in Samplers, NEW c, NEW i \in DOMAIN queue', Holds(v, c)'
            PROVE  Ahead(c, queue'[i])
        <5>1. CASE Holds(v, c)
          BY <3>1, <4>1, <5>1
        <5>2. CASE c = queue[1] /\ queue # <<>>
          <6>1. 1 < i + 1
            BY <4>1
          <6>. QED
            BY <3>1, <4>1, <4>2, <5>2, <6>1
        <5>. QED
          BY <1>4, <4>4, <5>1, <5>2
      <4>. QED
        BY <4>3, <4>4
    <3>. QED
      BY <1>4, <3>2, <3>3
  <2>5. Sampling'
    BY <1>1, <1>2, <1>3, <1>4, <2>2, <2>3, <2>4 DEF Sampling
  <2>. QED
    BY <1>1, <1>3, <1>4, <2>5 DEF JobsSafe, BeforeSampling
<1>5. CASE /\ worker[w].at = "idle" /\ queue # <<>>
           /\ worker' = [worker EXCEPT ![w] = [at |-> "took", job |-> Head(queue)]]
           /\ queue' = Tail(queue) /\ UNCHANGED queried
  <2>1. queue \in Seq(Targets)
    BY <1>2 DEF Sampling
  <2>2. /\ worker'[w] = [at |-> "took", job |-> queue[1]]
        /\ \A v \in Samplers \ {w} : worker'[v] = worker[v]
    BY <1>2, <1>5, <2>1
  <2>3. \A v \in Samplers : \A c : Holds(v, c)' <=> Holds(v, c) \/ (v = w /\ c = queue[1])
    <3>1. worker'[w].at = "took" /\ worker'[w].job = queue[1]
      BY <2>2
    <3>. QED
      BY <1>5, <2>2, <3>1 DEF Holds
  <2>4. \A c : Waits(c) => Waits(c)' \/ c = queue[1]
    <3>. SUFFICES ASSUME NEW i \in DOMAIN queue, i # 1
                  PROVE  \E j \in DOMAIN queue' : queue'[j] = queue[i]
      BY DEF Waits
    <3>1. i - 1 \in DOMAIN queue' /\ queue'[i - 1] = queue[(i - 1) + 1] /\ (i - 1) + 1 = i
      BY <1>5, <2>1
    <3>. QED
      BY <3>1
  <2>5. Queues /\ WorkerShape'
    <3>1. DOMAIN worker' = Samplers
      BY <1>2, <1>5
    <3>2. WorkerShape'
      BY <1>2, <2>2, <3>1 DEF WorkerShape
    <3>3. Queues
      BY <1>5, <2>3
    <3>. QED
      BY <3>2, <3>3
  <2>6. ASSUME aCtx = "live", NEW v \in Samplers, worker'[v].at = "off" PROVE queue' = <<>>
    <3>1. v # w
      BY <2>2, <2>6
    <3>2. queue = <<>>
      BY <1>2, <2>2, <2>6, <3>1 DEF Sampling
    <3>. QED
      BY <1>5, <3>2
  <2>7. ASSUME aCtx = "live", NEW c \in Targets
        PROVE  c \in queried \/ Waits(c)' \/ \E v \in Samplers : Holds(v, c)'
    <3>1. c \in queried \/ Waits(c) \/ \E v \in Samplers : Holds(v, c)
      BY <1>2, <2>7 DEF Sampling
    <3>. QED
      BY <2>3, <2>4, <3>1
  <2>. QED
    BY <1>4, <1>5, <2>5, <2>6, <2>7
<1>6. CASE /\ \/ worker[w].at = "idle" /\ queue = <<>> /\ worker' = [worker EXCEPT ![w] = AF!Off]
              \/ worker[w].at = "took" /\ aCtx = "dead" /\ worker' = [worker EXCEPT ![w] = AF!Off]
              \/ worker[w].at = "asks" /\ worker' = [worker EXCEPT ![w] = AF!Idle]
           /\ UNCHANGED <<queue, queried>>
  <2>0. /\ AF!Off.at = "off" /\ AF!Off = [at |-> AF!Off.at, job |-> AF!Off.job]
        /\ AF!Idle.at = "idle" /\ AF!Idle = [at |-> AF!Idle.at, job |-> AF!Idle.job]
    BY DEF AF!Off, AF!Idle
  <2>1. /\ DOMAIN worker' = Samplers /\ \A v \in Samplers \ {w} : worker'[v] = worker[v]
        /\ worker'[w] \in {AF!Off, AF!Idle} /\ worker'[w].at \in {"off", "idle"}
        /\ worker[w].at = "asks" => worker'[w].at = "idle"
    BY <1>2, <1>6, <2>0
  <2>2. \A v \in Samplers : \A c : Holds(v, c)' <=> Holds(v, c) /\ v # w
    BY <2>1 DEF Holds
  <2>3. \A c : Waits(c)' <=> Waits(c)
    BY <1>6 DEF Waits
  <2>4. Queues /\ WorkerShape'
    <3>1. WorkerShape'
      BY <1>2, <2>0, <2>1 DEF WorkerShape
    <3>2. Queues
      BY <1>6, <2>2
    <3>. QED
      BY <3>1, <3>2
  <2>5. ASSUME aCtx = "live", NEW v \in Samplers, worker'[v].at = "off" PROVE queue' = <<>>
    <3>1. CASE v = w
      <4>1. worker[w].at # "asks"
        BY <2>1, <2>5, <3>1
      <4>. QED
        BY <1>6, <2>5, <4>1
    <3>2. CASE v # w
      BY <1>2, <1>6, <2>1, <2>5, <3>2 DEF Sampling
    <3>. QED
      BY <3>1, <3>2
  <2>6. ASSUME aCtx = "live", NEW c \in Targets
        PROVE  c \in queried \/ Waits(c)' \/ \E v \in Samplers : Holds(v, c)'
    <3>1. c \in queried \/ Waits(c) \/ \E v \in Samplers : Holds(v, c)
      BY <1>2, <2>6 DEF Sampling
    <3>2. \A d : ~Holds(w, d)
      BY <1>6, <2>6 DEF Holds
    <3>. QED
      BY <2>2, <2>3, <3>1, <3>2
  <2>. QED
    BY <1>4, <1>6, <2>4, <2>5, <2>6
<1>7. CASE /\ worker[w].at = "took" /\ aCtx = "live"
           /\ worker' = [worker EXCEPT ![w] = [worker[w] EXCEPT !.at = "asks"]]
           /\ queried' = queried \cup {worker[w].job} /\ UNCHANGED queue
  <2>0. PICK c : c = worker[w].job
    BY Zenon
  <2>1. /\ worker'[w] = [at |-> "asks", job |-> worker[w].job]
        /\ \A v \in Samplers \ {w} : worker'[v] = worker[v]
    <3>1. worker'[w] = [worker[w] EXCEPT !.at = "asks"]
      BY <1>2, <1>7
    <3>2. worker[w] = [at |-> worker[w].at, job |-> worker[w].job]
      BY <1>2 DEF WorkerShape
    <3>3. worker'[w] = [at |-> "asks", job |-> worker[w].job]
      BY <3>1, <3>2
    <3>. QED
      BY <1>2, <1>7, <3>3
  <2>2. \A v \in Samplers : \A d : Holds(v, d)' <=> Holds(v, d) /\ v # w
    <3>1. worker'[w].at = "asks"
      BY <2>1
    <3>. QED
      BY <2>1, <3>1 DEF Holds
  <2>3. \A d : Waits(d)' <=> Waits(d)
    BY <1>7 DEF Waits
  <2>4. Holds(w, c) /\ c \in Targets /\ \A d : Holds(w, d) => d = c
    BY <1>2, <1>7, <2>0 DEF Holds, Sampling
  <2>5. WorkerShape'
    BY <1>2, <1>7, <2>1 DEF WorkerShape
  <2>6. Sampling'
    <3>1. ASSUME NEW d \in Targets
          PROVE  d \in queried' \/ Waits(d)' \/ \E v \in Samplers : Holds(v, d)'
      <4>1. d \in queried \/ Waits(d) \/ \E v \in Samplers : Holds(v, d)
        BY <1>2, <1>7 DEF Sampling
      <4>. QED
        BY <1>7, <2>0, <2>2, <2>3, <2>4, <4>1
    <3>2. \A v \in Samplers : worker'[v].at = "off" => queue' = <<>>
      BY <1>2, <1>7, <2>1 DEF Sampling
    <3>. QED
      BY <1>1, <1>2, <1>3, <1>7, <2>2, <3>1, <3>2 DEF Sampling
  <2>7. queried' \subseteq Targets
    BY <1>7, <2>0, <2>4 DEF JobsSafe
  <2>8. ASSUME request.kind # "sample", NEW d \in queried'
        PROVE  Cardinality(Nearer(d)') < Cardinality(Samplers)
    <3>. DEFINE others == {worker[v].job : v \in Samplers \ {w}}
    <3>1. IsFiniteSet(Samplers \ {w}) /\ Cardinality(Samplers \ {w}) = Cardinality(Samplers) - 1
          /\ Cardinality(Samplers) \in Nat
      BY <1>2, FS_RemoveElement, FS_CardinalityType
    <3>2. IsFiniteSet(others) /\ Cardinality(others) <= Cardinality(Samplers \ {w})
      <4>1. PICK f : f = [v \in Samplers \ {w} |-> worker[v].job]
        BY Zenon
      <4>2. others = {f[v] : v \in Samplers \ {w}}
        BY <4>1
      <4>. QED
        BY <3>1, <4>2, ImageIsSmaller
    <3>3. IsFiniteSet(Window) /\ \A e \in Window : AF!Distance(e, chain.price) \in Int
      <4>1. chain.strikes \in Seq(Nat) /\ chain.price \in Nat
        BY DEF JobsSafe
      <4>2. IsFiniteSet(Window) /\ \A e \in Window : e[2] \in Nat
        BY <4>1, StrikesAreNumbers DEF Window
      <4>. QED
        BY <4>1, <4>2 DEF AF!Distance
    <3>4. CASE d = c
      <4>1. ASSUME NEW e \in Nearer(c)' PROVE e \in others
        <5>1. /\ e \in Window /\ e # c /\ e \notin queried
              /\ AF!Distance(e, chain.price) < AF!Distance(c, chain.price)
          BY <1>1, <1>3, <1>7, <2>0, <4>1 DEF Nearer
        <5>2. e \in Targets
          BY <2>8, <5>1 DEF Targets, TargetsOf, Window
        <5>3. ~Waits(e)
          <6>1. ASSUME NEW i \in DOMAIN queue, queue[i] = e PROVE FALSE
            <7>1. Ahead(c, e)
              BY <1>2, <2>4, <2>8, <6>1 DEF Sampling
            <7>2. c \in Window
              BY <2>4, <2>8 DEF Targets, TargetsOf, Window
            <7>3. AF!Distance(c, chain.price) \in Int /\ AF!Distance(e, chain.price) \in Int
              BY <3>3, <5>1, <7>2
            <7>. QED
              BY <5>1, <7>1, <7>3 DEF Ahead, AF!Before
          <6>. QED
            BY <6>1 DEF Waits
        <5>4. PICK v \in Samplers : Holds(v, e)
          BY <1>2, <1>7, <5>1, <5>2, <5>3 DEF Sampling
        <5>. QED
          BY <2>4, <5>1, <5>4 DEF Holds
      <4>2. Nearer(c)' \in SUBSET others
        BY <4>1
      <4>3. Cardinality(Nearer(c)') <= Cardinality(others)
        BY <3>2, <4>2, FS_Subset
      <4>4. Cardinality(Nearer(c)') \in Nat /\ Cardinality(others) \in Nat
        BY <3>2, <4>2, FS_Subset, FS_CardinalityType
      <4>. HIDE DEF others
      <4>. QED
        BY <3>1, <3>2, <3>4, <4>3, <4>4
    <3>5. CASE d # c
      <4>1. d \in queried
        BY <1>7, <2>0, <3>5
      <4>2. Nearer(d)' \in SUBSET Nearer(d)
        BY <1>1, <1>3, <1>7 DEF Nearer
      <4>3. IsFiniteSet(Nearer(d))
        <5>1. Nearer(d) \in SUBSET Window
          BY DEF Nearer
        <5>. QED
          BY <3>3, <5>1, FS_Subset
      <4>4. Cardinality(Nearer(d)') <= Cardinality(Nearer(d))
        BY <4>2, <4>3, FS_Subset
      <4>5. Cardinality(Nearer(d)) < Cardinality(Samplers)
        BY <2>8, <4>1 DEF JobsSafe
      <4>6. Cardinality(Nearer(d)) \in Nat /\ Cardinality(Nearer(d)') \in Nat
        BY <4>2, <4>3, FS_Subset, FS_CardinalityType
      <4>. QED
        BY <3>1, <4>4, <4>5, <4>6
    <3>. QED
      BY <3>4, <3>5
  <2>. QED
    BY <1>1, <1>3, <2>5, <2>6, <2>7, <2>8 DEF JobsSafe, BeforeSampling, Sampling
<1>. QED
  BY <1>5, <1>6, <1>7, Zenon DEF AF!Works, AF!At, AF!Goes

(* The hint starts the workers on the contracts of the window.              *)
LEMMA HintKeepsJobs ==
    ASSUME SpotSafe, JobsSafe, AF!TakeHint
    PROVE  JobsSafe'
<1>1. /\ aPc = "hint" /\ hint # <<>> /\ request' = request /\ queried' = queried
      /\ aCtx' = aCtx
  BY Zenon DEF AF!TakeHint
<1>2. PICK h : hint = <<h>> /\ HintFounded(h)
  BY <1>1 DEF SpotSafe, SpotFounded, HintsFounded
<1>3. Head(hint) = h
  BY <1>2
<1>4. /\ chain.source = "" /\ queried = {} /\ WorkerShape
      /\ chain.strikes \in Seq(Nat) /\ chain.price \in Nat
      /\ request.hint \in Nat /\ request.broker \in AF!Sources
  BY <1>1 DEF JobsSafe, BeforeSampling
<1>5. CASE ~(h.price > 0)
  <2>1. /\ worker' = worker /\ aPc' \in {AF!Returned, AF!Refused}
        /\ chain' = chain \/ chain' = AF!NoChain
    BY <1>3, <1>5, Zenon DEF AF!TakeHint
  <2>2. aPc' # "metrics"
    BY <2>1 DEF AF!Returned, AF!Refused
  <2>3. chain'.source = "" /\ chain'.strikes \in Seq(Nat) /\ chain'.price \in Nat
    <3>1. AF!NoChain.source = "" /\ AF!NoChain.strikes = <<>> /\ AF!NoChain.price = 0
      BY DEF AF!NoChain, AF!None
    <3>2. <<>> \in Seq(Nat) /\ 0 \in Nat
      OBVIOUS
    <3>. QED
      BY <2>1, <3>1, <3>2, <1>4
  <2>. QED
    BY <1>1, <1>4, <2>1, <2>2, <2>3, NoContractsYet
<1>6. CASE h.price > 0
  <2>1. PICK price : price = h.price
    BY Zenon
  <2>2. price \in Nat
    <3>1. Prices["ibkr"] \subseteq Nat /\ Prices["yfinance"] \subseteq Nat
      BY ChainsAssumption
    <3>. QED
      BY <3>1, <2>1, <1>2, <1>4, <1>6 DEF HintFounded, Quoted, AF!Sources
  <2>3. PICK strikes : strikes = chain.strikes
    BY Zenon
  <2>4. PICK W : W = AF!InWindow(strikes, price)
    BY Zenon
  <2>5. PICK list : list = AF!Prioritized(W, price)
    BY Zenon
  <2>6. /\ chain' = [chain EXCEPT !.price = price, !.source = h.source]
        /\ IF W = {} THEN aPc' = AF!Returned /\ UNCHANGED <<queue, worker>>
           ELSE /\ aPc' = "metrics"
                /\ queue' = IF request.kind = "sample" THEN AF!AtmJobs(list) ELSE list
                /\ worker' = [w \in Samplers |-> AF!Idle]
    BY <1>3, <1>6, <2>1, <2>3, <2>4, <2>5, Zenon DEF AF!TakeHint
  <2>7. chain'.strikes = strikes /\ chain'.price = price /\ chain'.source = h.source
    <3>1. chain' = [price |-> price, source |-> h.source, strikes |-> strikes]
      BY <2>3, <2>6 DEF SpotSafe, SpotFounded, ChainShape
    <3>. QED
      BY <3>1
  <2>8. strikes \in Seq(Nat)
    BY <1>4, <2>3
  <2>9. Window' = W
    BY <2>4, <2>7, Zenon DEF Window
  <2>10. CASE W = {}
    <3>1. Targets' = {}
      BY <2>7, <2>4, <2>10, <1>1 DEF Targets, TargetsOf
    <3>2. aPc' # "metrics" /\ ~BeforeSampling'
      BY <2>6, <2>10 DEF AF!Returned, BeforeSampling
    <3>3. WorkerShape'
      BY <1>4, <2>6, <2>10 DEF WorkerShape
    <3>. QED
      BY <1>1, <1>4, <2>2, <2>7, <2>8, <3>1, <3>2, <3>3 DEF JobsSafe
  <2>11. CASE W # {}
    <3>1. /\ aPc' = "metrics" /\ ~BeforeSampling'
          /\ queue' = IF request.kind = "sample" THEN AF!AtmJobs(list) ELSE list
          /\ worker' = [w \in Samplers |-> AF!Idle]
      BY <2>6, <2>11 DEF BeforeSampling
    <3>2. \A w \in Samplers : worker'[w] = AF!Idle
      BY <3>1
    <3>3. AF!Idle = [at |-> AF!Idle.at, job |-> AF!Idle.job] /\ AF!Idle.at = "idle"
      BY DEF AF!Idle
    <3>4. WorkerShape' /\ \A w, c : w \in Samplers => ~Holds(w, c)'
      <4>1. DOMAIN worker' = Samplers
        BY <3>1
      <4>. QED
        BY <4>1, <3>2, <3>3 DEF WorkerShape, Holds
    <3>5. /\ queue' \in Seq(Targets')
          /\ Targets' = {queue'[i] : i \in DOMAIN queue'}
          /\ request.kind # "sample" =>
                \A i, j \in DOMAIN queue' : i < j => AF!Before(queue'[i], queue'[j], price)
      <4>1. CASE request.kind = "sample"
        <5>1. Targets' = TargetsOf("sample", strikes, price)
          BY <1>1, <2>7, <4>1, Zenon DEF Targets
        <5>2. queue' = AF!AtmJobs(AF!Prioritized(W, price))
          BY <2>5, <3>1, <4>1
        <5>3. PICK two : two = AF!AtmJobs(AF!Prioritized(W, price))
          BY Zenon
        <5>4. /\ two \in Seq(TargetsOf("sample", strikes, price))
              /\ TargetsOf("sample", strikes, price) = {two[i] : i \in DOMAIN two}
          BY <2>2, <2>4, <2>8, <2>11, <5>3, SampleIsNearest
        <5>. QED
          BY <4>1, <5>1, <5>2, <5>3, <5>4
      <4>2. CASE request.kind # "sample"
        <5>1. Targets' = W
          BY <1>1, <2>7, <2>4, <4>2 DEF Targets, TargetsOf
        <5>2. queue' = list
          BY <3>1, <4>2
        <5>3. /\ list \in Seq(W)
              /\ W = {list[n] : n \in DOMAIN list}
              /\ \A m, n \in DOMAIN list : m < n => AF!Before(list[m], list[n], price)
          <6>1. InOrder(list, W, price)
            BY <2>2, <2>4, <2>5, <2>8, JobsAreSorted, Zenon
          <6>. QED
            BY <6>1 DEF InOrder
        <5>. QED
          BY <5>1, <5>2, <5>3, Zenon
      <4>. QED
        BY <4>1, <4>2
    <3>6. \A c \in Targets' : Waits(c)'
      BY <3>5 DEF Waits
    <3>10. request.kind # "sample" =>
              \A i, j \in DOMAIN queue' : i < j => AF!Before(queue'[i], queue'[j], chain'.price)
      BY <2>7, <3>5, Zenon
    <3>7. \A w \in Samplers : worker'[w].at # "off"
      BY <3>2, <3>3
    <3>8. chain'.source # ""
      BY <1>2, <1>6, <2>7 DEF HintFounded
    <3>9. Sampling'
      BY <1>1, <3>4, <3>5, <3>6, <3>7, <3>8, <3>10, Zenon DEF Sampling, Ahead
    <3>. QED
      BY <1>1, <1>4, <2>2, <2>7, <2>8, <3>1, <3>4, <3>8, <3>9 DEF JobsSafe
  <2>. QED
    BY <2>10, <2>11
<1>. QED
  BY <1>5, <1>6

LEMMA JobsStep ==
    ASSUME SpotSafe, JobsSafe, [AF!Next]_aVars
    PROVE  JobsSafe'
<1>1. CASE \/ AF!Quote \/ AF!LoadBars \/ AF!AskSpot \/ AF!SpotAnswers \/ AF!ResolverReads
           \/ AF!ResolverGivesUp \/ AF!SpotTimesOut \/ AF!ContextEnds \/ UNCHANGED aVars
  <2>1. UNCHANGED <<request, chain, queue, worker, queried>>
    BY <1>1, Zenon DEF AF!Quote, AF!LoadBars, AF!AskSpot, AF!SpotAnswers, AF!ResolverReads,
       AF!ResolverGivesUp, AF!SpotTimesOut, AF!ContextEnds, AF!spotVars, AF!jobVars, aVars
  <2>2. aCtx' = aCtx \/ aCtx' = "dead"
    BY <1>1, Zenon DEF AF!Quote, AF!LoadBars, AF!AskSpot, AF!SpotAnswers, AF!ResolverReads,
       AF!ResolverGivesUp, AF!SpotTimesOut, AF!ContextEnds, aVars
  <2>3. aPc' = aPc \/ (BeforeSampling /\ BeforeSampling')
    <3>1. CASE AF!Quote
      BY <3>1 DEF AF!Quote, AF!Step, BeforeSampling
    <3>2. CASE AF!LoadBars
      <4>1. aPc = "bars" /\ \E b : aPc' = AF!After(b)
        BY <3>2, Zenon DEF AF!LoadBars
      <4>. QED
        BY <4>1 DEF AF!After, BeforeSampling
    <3>3. CASE ~AF!Quote /\ ~AF!LoadBars
      BY <1>1, <3>3, Zenon DEF AF!AskSpot, AF!SpotAnswers, AF!ResolverReads,
         AF!ResolverGivesUp, AF!SpotTimesOut, AF!ContextEnds, aVars
    <3>. QED
      BY <3>1, <3>2, <3>3
  <2>. QED
    BY <2>1, <2>2, <2>3, ElsewhereKeepsJobs
<1>2. CASE AF!Discover \/ AF!Structure
  <2>1. /\ UNCHANGED <<request, worker, queried, queue>> /\ aCtx' = aCtx
        /\ aPc \in {"chain", "structure"}
        /\ aPc' \in {"hint", "failed", "structure", "backfill", "done"}
        /\ chain' = chain \/ \E g \in Grids : chain' = [AF!NoChain EXCEPT !.strikes = g]
    <3>1. CASE AF!Discover
      <4>1. /\ UNCHANGED <<request, worker, queried, queue>> /\ aCtx' = aCtx /\ aPc = "chain"
            /\ chain' = chain \/ \E g \in Grids : chain' = [AF!NoChain EXCEPT !.strikes = g]
        BY <3>1, Zenon DEF AF!Discover, AF!jobVars
      <4>2. aPc' \in {"hint", AF!Refused, "failed"}
        BY <3>1 DEF AF!Discover
      <4>. QED
        BY <4>1, <4>2 DEF AF!Refused
    <3>2. CASE AF!Structure
      <4>1. /\ UNCHANGED <<request, worker, queried, queue>> /\ aCtx' = aCtx
            /\ aPc \in {"chain", "structure"}
            /\ chain' = chain \/ \E g \in Grids : chain' = [AF!NoChain EXCEPT !.strikes = g]
        <5>1. aPc = "structure" \/ aPc = "chain"
          BY <3>2, Zenon DEF AF!Structure
        <5>. QED
          BY <3>2, <5>1, Zenon DEF AF!Structure, AF!jobVars
      <4>2. aPc' \in {"backfill", "done", AF!Refused, "failed"}
        BY <3>2 DEF AF!Structure
      <4>. QED
        BY <4>1, <4>2 DEF AF!Refused
    <3>. QED
      BY <1>2, <3>1, <3>2
  <2>2. /\ BeforeSampling /\ chain.source = "" /\ queried = {}
        /\ chain.strikes \in Seq(Nat) /\ chain.price \in Nat
    BY <2>1 DEF JobsSafe, BeforeSampling
  <2>3. chain'.source = "" /\ chain'.strikes \in Seq(Nat) /\ chain'.price \in Nat
    <3>1. CASE chain' = chain
      BY <2>2, <3>1
    <3>2. ASSUME NEW g \in Grids, chain' = [AF!NoChain EXCEPT !.strikes = g]
          PROVE  chain'.source = "" /\ chain'.strikes \in Seq(Nat) /\ chain'.price \in Nat
      <4>1. g \in Seq(Nat)
        BY ChainsAssumption
      <4>. QED
        BY <3>2, <4>1 DEF AF!NoChain, AF!None
    <3>. QED
      BY <2>1, <3>1, <3>2
  <2>4. queried' = {} /\ aPc' # "metrics"
    BY <2>1, <2>2
  <2>. QED
    BY <2>1, <2>3, <2>4, NoContractsYet
<1>3. CASE AF!TakeHint
  BY <1>3, HintKeepsJobs
<1>4. CASE AF!Sampled
  <2>1. /\ UNCHANGED <<request, chain, queue, worker, queried, aCtx>>
        /\ aPc = "metrics" /\ \A w \in Samplers : worker[w].at = "off"
        /\ aPc' = AF!Returned
    BY <1>4, Zenon DEF AF!Sampled, AF!jobVars, AF!At
  <2>2. aPc' \in {"backfill", "done"} /\ ~BeforeSampling'
    BY <2>1 DEF AF!Returned, BeforeSampling
  <2>3. Sampling /\ chain.source # ""
    BY <2>1 DEF JobsSafe, Sampling
  <2>4. /\ Window' = Window /\ Targets' = Targets
        /\ \A c : Nearer(c)' = Nearer(c)
    BY <2>1, SameTargets
  <2>5. aCtx = "live" => queried = Targets
    <3>1. ASSUME aCtx = "live", NEW c \in Targets PROVE c \in queried
      <4>1. c \in queried \/ Waits(c) \/ \E w \in Samplers : Holds(w, c)
        BY <2>3, <3>1 DEF Sampling
      <4>2. PICK w \in Samplers : TRUE
        BY ChainsAssumption
      <4>3. queue = <<>>
        BY <2>1, <2>3, <3>1, <4>2 DEF Sampling
      <4>4. ~Waits(c)
        BY <4>3 DEF Waits
      <4>5. \A v \in Samplers : ~Holds(v, c)
        BY <2>1 DEF Holds
      <4>. QED
        BY <4>1, <4>4, <4>5
    <3>. QED
      BY <3>1 DEF JobsSafe
  <2>6. WorkerShape'
    BY <2>1 DEF JobsSafe, WorkerShape
  <2>. QED
    BY <2>1, <2>2, <2>3, <2>4, <2>5, <2>6 DEF JobsSafe
<1>5. CASE AF!Backfill
  <2>1. /\ UNCHANGED <<request, queue, worker, queried, aCtx>>
        /\ aPc = "backfill" /\ aPc' = "done"
    BY <1>5, Zenon DEF AF!Backfill, AF!jobVars, AF!Step
  <2>2. PICK p : /\ chain' = [chain EXCEPT !.price = p]
                 /\ p \in IF chain.price > 0 THEN {chain.price}
                          ELSE {AF!None} \cup (IF aCtx = "live" THEN Prices[request.broker] ELSE {})
    BY <1>5, Zenon DEF AF!Backfill
  <2>3. chain' = [price |-> p, source |-> chain.source, strikes |-> chain.strikes]
    BY <2>2 DEF SpotSafe, SpotFounded, ChainShape
  <2>4. WorkerShape' /\ ~BeforeSampling'
    BY <2>1 DEF JobsSafe, WorkerShape, BeforeSampling
  <2>5. CASE chain.price > 0
    <3>1. chain' = chain
      BY <2>2, <2>3, <2>5 DEF SpotSafe, SpotFounded, ChainShape
    <3>2. /\ Window' = Window /\ Targets' = Targets
          /\ \A c : Nearer(c)' = Nearer(c)
      BY <2>1, <3>1, SameTargets
    <3>. QED
      BY <2>1, <2>4, <3>1, <3>2 DEF JobsSafe
  <2>6. CASE ~(chain.price > 0)
    <3>1. chain.source = "" /\ queried = {} /\ chain.strikes \in Seq(Nat)
      BY <2>6 DEF SpotSafe, SpotFounded, ChainFounded, JobsSafe
    <3>2. p \in Nat
      <4>1. Prices[request.broker] \subseteq Nat
        BY ChainsAssumption DEF JobsSafe, AF!Sources
      <4>. QED
        BY <2>2, <2>6, <4>1 DEF AF!None
    <3>3. chain'.source = "" /\ chain'.strikes \in Seq(Nat) /\ chain'.price \in Nat
      BY <2>3, <3>1, <3>2
    <3>. QED
      BY <2>1, <3>1, <3>3, NoContractsYet
  <2>. QED
    BY <2>5, <2>6
<1>6. CASE \E w \in Samplers : AF!Works(w)
  BY <1>6, WorkerKeepsJobs
<1>. QED
  BY <1>1, <1>2, <1>3, <1>4, <1>5, <1>6, Zenon DEF AF!Next

LEMMA JobsAreNearest == JobsSafe => AF!NearestFirst
<1>. SUFFICES ASSUME JobsSafe PROVE AF!NearestFirst
  OBVIOUS
<1>1. PICK W : W = Window
  BY Zenon
<1>2. PICK strikes, price : strikes = chain.strikes /\ price = chain.price
  BY Zenon
<1>3. strikes \in Seq(Nat) /\ price \in Nat /\ W = AF!InWindow(strikes, price)
  BY <1>1, <1>2 DEF Window, JobsSafe
<1>4. queried \subseteq Targets /\ Targets = TargetsOf(request.kind, strikes, price)
  BY <1>2 DEF JobsSafe, Targets
<1>5. queried \subseteq W /\ Targets \subseteq W
  BY <1>3, <1>4 DEF TargetsOf
<1>6. \A c : Nearer(c) = {d \in W \ queried : AF!Distance(d, price) < AF!Distance(c, price)}
  BY <1>1, <1>2 DEF Nearer
<1>7. request.kind = "oi" =>
        \A c \in queried : AF!Cardinality(Nearer(c)) < AF!Cardinality(Samplers)
  <2>1. request.kind = "oi" => \A c \in queried : Cardinality(Nearer(c)) < Cardinality(Samplers)
    BY DEF JobsSafe
  <2>2. \A S : AF!Cardinality(S) = Cardinality(S)
    BY Zenon DEF AF!Cardinality, Cardinality
  <2>. QED
    BY <2>1, <2>2
<1>8. request.kind = "sample" =>
        \A c \in queried : \A d \in {e \in W : e[1] = c[1]} :
            d # c => d \notin queried /\ AF!Distance(c, price) <= AF!Distance(d, price)
  <2>. SUFFICES ASSUME request.kind = "sample", NEW c \in queried,
                       NEW d \in W, d[1] = c[1], d # c
                PROVE  d \notin queried /\ AF!Distance(c, price) <= AF!Distance(d, price)
    OBVIOUS
  <2>1. \A e \in Targets : \A f \in W : f[1] = e[1] /\ f # e => AF!Before(e, f, price)
    BY <1>3, <1>4 DEF TargetsOf
  <2>2. AF!Before(c, d, price)
    BY <1>4, <2>1
  <2>3. \A e, f \in W : AF!Before(e, f, price) => ~AF!Before(f, e, price)
    <3>1. Orders(InFront(W, price), W)
      /\ \A e, f \in W : <<e, f>> \in InFront(W, price) <=> AF!Before(e, f, price)
      BY <1>3, NearestIsAnOrder
    <3>. QED
      BY <3>1 DEF Orders
  <2>4. d \notin queried
    BY <1>4, <1>5, <2>1, <2>2, <2>3
  <2>5. AF!Distance(c, price) \in Int /\ AF!Distance(d, price) \in Int
    BY <1>3, <1>5, StrikesAreNumbers DEF AF!Distance
  <2>. QED
    BY <2>2, <2>4, <2>5 DEF AF!Before
<1>9. aPc \in {"backfill", "done"} /\ aCtx = "live" /\ chain.source # "" =>
        IF request.kind = "sample" THEN W # {} => AF!Cardinality(queried) = 2 ELSE queried = W
  <2>. SUFFICES ASSUME aPc \in {"backfill", "done"}, aCtx = "live", chain.source # ""
                PROVE  IF request.kind = "sample" THEN W # {} => AF!Cardinality(queried) = 2
                       ELSE queried = W
    OBVIOUS
  <2>1. queried = Targets
    BY DEF JobsSafe
  <2>2. CASE request.kind # "sample"
    BY <1>3, <1>4, <2>1, <2>2 DEF TargetsOf
  <2>3. ASSUME request.kind = "sample", W # {} PROVE AF!Cardinality(queried) = 2
    <3>1. PICK two : two = AF!AtmJobs(AF!Prioritized(W, price))
      BY Zenon
    <3>2. Cardinality(TargetsOf("sample", strikes, price)) = 2
      BY <1>3, <2>3, <3>1, SampleIsNearest
    <3>3. Cardinality(queried) = 2
      BY <1>4, <2>1, <2>3, <3>2
    <3>4. AF!Cardinality(queried) = Cardinality(queried)
      BY Zenon DEF AF!Cardinality, Cardinality
    <3>. QED
      BY <3>3, <3>4
  <2>. QED
    BY <2>2, <2>3
<1>. QED
  BY <1>2, <1>3, <1>5, <1>6, <1>7, <1>8, <1>9, Zenon DEF AF!NearestFirst

(* The contracts nearest the spot are asked for first: when the time is up  *)
(* a worker each may have dropped a nearer one, and if there was time every *)
(* contract of the window was asked for, or of a sample the nearest call    *)
(* and the nearest put.  The spot is a quote of the source that is named    *)
(* for it, and a fetch that has returned leaves no goroutine that cannot    *)
(* hand over its answer.  For any number of workers, any grid of strikes    *)
(* and any prices (getOptionChainWithOI, prioritizeOptionMetricJobs,        *)
(* atmMetricJobs and resolveOptionSpot, broker/ibkr/client.go).             *)
THEOREM NearestAreAskedFirst == ServicesSpec => []ChainIsFounded
<1>1. ServicesInit => SpotSafe /\ JobsSafe
  BY SpotInit, JobsInit, Zenon DEF ServicesInit, NoAnalysis
<1>2. (SpotSafe /\ JobsSafe) /\ [ServicesNext]_allVars => SpotSafe' /\ JobsSafe'
  <2>1. [ServicesNext]_allVars => [AF!Next]_aVars
    BY Zenon DEF ServicesNext, Fetching, Caching, Migrating, ShuttingDown, Viewing, Loading,
       Alarming, Reporting, Weighing, Analysing, allVars
  <2>. QED
    BY <2>1, SpotFoundedStep, AnswersOutStep, JobsStep, Zenon DEF SpotSafe
<1>3. SpotSafe /\ JobsSafe => ChainIsFounded
  <2>1. SpotSafe => AF!SpotIsQuoted
    BY DEF SpotSafe, SpotFounded, ChainFounded, Quoted, AF!SpotIsQuoted
  <2>2. SpotSafe => AF!NobodyIsStuck
    BY DEF SpotSafe, AnswersOut, AF!NobodyIsStuck, AF!ResultsBuffer, AF!Cardinality, Cardinality
  <2>. QED
    BY <2>1, <2>2, JobsAreNearest, Zenon DEF ChainIsFounded
<1>. QED
  BY <1>1, <1>2, <1>3, PTL DEF ServicesSpec

-----------------------------------------------------------------------------
(* The wait of an analysis for its spot.                                    *)

(* While the fetch waits, the spot is in its channel or the resolver will   *)
(* send it, and the resolver itself has an answer to read or somebody whom  *)
(* it asked.                                                                *)
SpotOnItsWay ==
    /\ aPc = "hint" => hint # <<>> \/ resolver = "waiting"
    /\ resolver = "waiting" => answers # <<>> \/ asking # {}

(* Before the fetch reads it, a spot that was sent is in the channel.       *)
NotReadYet == aPc \in {"quote", "bars", "chain", "hint"}

SpotWaited ==
    /\ SpotOnItsWay
    /\ aPc = "hint" => resolver # "off"
    /\ NotReadYet /\ resolver = "sent" => hint # <<>>
    /\ resolver \in {"off", "waiting", "sent"}

LEMMA SpotIsWaited ==
    ASSUME SpotSafe, SpotWaited, [AF!Next]_aVars
    PROVE  SpotWaited'
<1>. USE DEF SpotWaited, SpotOnItsWay, NotReadYet
<1>1. CASE \/ AF!SpotTimesOut \/ AF!ContextEnds \/ AF!Quote \/ AF!LoadBars \/ AF!Sampled
           \/ AF!Structure \/ AF!Backfill \/ (\E w \in Samplers : AF!Works(w))
           \/ UNCHANGED aVars
  <2>1. UNCHANGED <<hint, resolver, answers, asking>>
    BY <1>1, Zenon DEF AF!SpotTimesOut, AF!ContextEnds, AF!Quote, AF!LoadBars, AF!Sampled,
       AF!Structure, AF!Backfill, AF!Works, AF!spotVars, aVars
  <2>2. aPc' # "hint" \/ aPc' = aPc
    BY <1>1 DEF AF!SpotTimesOut, AF!ContextEnds, AF!Quote, AF!LoadBars, AF!Sampled, AF!After,
       AF!Returned, AF!Refused, AF!Step, AF!Structure, AF!Backfill, AF!Works, aVars
  <2>3. aPc' \in {"quote", "bars", "chain", "hint"} => aPc \in {"quote", "bars", "chain", "hint"}
    BY <1>1 DEF AF!SpotTimesOut, AF!ContextEnds, AF!Quote, AF!LoadBars, AF!Sampled, AF!After,
       AF!Returned, AF!Refused, AF!Step, AF!Structure, AF!Backfill, AF!Works, aVars
  <2>. QED
    BY <2>1, <2>2, <2>3
<1>2. CASE AF!AskSpot
  <2>1. "ibkr" \in AF!Sources
    BY DEF AF!Sources
  <2>2. \/ hint' # <<>> /\ resolver' = "sent" /\ answers' = answers
        \/ resolver' = "waiting" /\ asking' = AF!Sources
    BY <1>2 DEF AF!AskSpot
  <2>. QED
    BY <1>2, <2>1, <2>2 DEF AF!AskSpot
<1>3. CASE AF!SpotAnswers
  <2>1. answers' # <<>> /\ UNCHANGED <<aPc, resolver, hint>>
    <3>1. PICK r \in Replies : answers' = Append(answers, r)
      <4>1. PICK s \in asking, p \in Prices["ibkr"] \cup Prices["yfinance"] :
               p \in Prices[s] /\ answers' = Append(answers, [price |-> p, source |-> s])
        BY <1>3, Zenon DEF AF!SpotAnswers
      <4>2. s \in AF!Sources
        BY <4>1 DEF SpotSafe, AnswersOut
      <4>. QED
        BY <4>1, <4>2 DEF Replies
    <3>2. answers \in Seq(Replies)
      BY DEF SpotSafe, SpotFounded, AnswersFounded
    <3>. QED
      BY <1>3, <3>1, <3>2 DEF AF!SpotAnswers
  <2>. QED
    BY <2>1
<1>4. CASE AF!ResolverReads
  <2>1. answers \in Seq(Replies) /\ answers # <<>> /\ answers' = Tail(answers)
    BY <1>4 DEF AF!ResolverReads, SpotSafe, SpotFounded, AnswersFounded
  <2>2. aPc' = aPc /\ asking' = asking
    BY <1>4, Zenon DEF AF!ResolverReads
  <2>3. \/ hint' # <<>> /\ resolver' = "sent"
        \/ /\ UNCHANGED <<hint, resolver>>
           /\ ~(asking = {} /\ Len(answers) = 1)
    BY <1>4 DEF AF!ResolverReads, AF!Hint
  <2>4. Len(answers) # 1 => answers' # <<>>
    <3>1. Len(answers) \in Nat /\ Len(answers) # 0
      BY <2>1
    <3>2. Len(answers') = Len(answers) - 1
      BY <2>1, <3>1
    <3>. QED
      BY <3>1, <3>2
  <2>. QED
    BY <1>4, <2>2, <2>3, <2>4 DEF AF!ResolverReads
<1>5. CASE AF!ResolverGivesUp
  BY <1>5 DEF AF!ResolverGivesUp, AF!Hint
<1>6. CASE AF!Discover
  BY <1>6 DEF AF!Discover
<1>7. CASE AF!TakeHint
  <2>1. UNCHANGED <<resolver, answers, asking>>
    BY <1>7, Zenon DEF AF!TakeHint
  <2>2. aPc' \in {"metrics", AF!Returned, AF!Refused}
    BY <1>7, Zenon DEF AF!TakeHint
  <2>3. aPc' \notin {"quote", "bars", "chain", "hint"}
    BY <2>2 DEF AF!Returned, AF!Refused
  <2>. QED
    BY <2>1, <2>3
<1>. QED
  BY <1>1, <1>2, <1>3, <1>4, <1>5, <1>6, <1>7, Zenon DEF AF!Next

(* An analysis never waits for a spot that nobody will send: whichever      *)
(* source answers, fails or comes late, and in whatever order with the      *)
(* discovery of the chain (resolveOptionSpot and getOptionChainWithOI,      *)
(* broker/ibkr/client.go).                                                  *)
THEOREM SpotsAlwaysCome == ServicesSpec => []SpotOnItsWay
<1>1. ServicesInit => SpotSafe /\ SpotWaited
  <2>1. ServicesInit => AF!Init
    BY Zenon DEF ServicesInit, NoAnalysis
  <2>2. AF!Init => aPc # "hint" /\ resolver = "off"
    BY DEF AF!Init
  <2>. QED
    BY <2>1, <2>2, SpotInit DEF SpotWaited, SpotOnItsWay
<1>2. (SpotSafe /\ SpotWaited) /\ [ServicesNext]_allVars => SpotSafe' /\ SpotWaited'
  <2>1. [ServicesNext]_allVars => [AF!Next]_aVars
    BY Zenon DEF ServicesNext, Fetching, Caching, Migrating, ShuttingDown, Viewing, Loading,
       Alarming, Reporting, Weighing, Analysing, allVars
  <2>. QED
    BY <2>1, SpotFoundedStep, AnswersOutStep, SpotIsWaited, Zenon DEF SpotSafe
<1>. QED
  BY <1>1, <1>2, PTL DEF SpotWaited, ServicesSpec

-----------------------------------------------------------------------------
(* The account commands: the betas a stress report uses.                    *)

BetasSafe ==
    /\ pNow \in Nat
    /\ command = "none" => step = "idle" /\ used = <<>>
    /\ PR!BetasAreRecent

(* A source that is chosen now is recent now.                               *)
LEMMA SourcesAreRecent ==
    ASSUME pNow \in Nat, NEW groups, NEW spy, NEW past
    PROVE  LET sources == PR!BetaSources(groups, spy, past)
           IN \A g \in DOMAIN sources : pNow - sources[g].asOf <= MaxAge
<1>. SUFFICES ASSUME NEW g \in groups
              PROVE  pNow - PR!BetaSources(groups, spy, past)[g].asOf <= MaxAge
  BY DEF PR!BetaSources
<1>1. CASE PR!Cached(g)
  <2>1. PR!BetaSources(groups, spy, past)[g].asOf = betas[g].asOf
    BY <1>1 DEF PR!BetaSources
  <2>. QED
    BY <1>1, <2>1 DEF PR!Cached, PR!Fresh
<1>2. CASE ~PR!Cached(g) /\ g \in PR!Computed(groups, spy, past)
  <2>1. PR!BetaSources(groups, spy, past)[g].asOf = past[g]
    BY <1>2 DEF PR!BetaSources
  <2>. QED
    BY <1>2, <2>1 DEF PR!Computed
<1>3. CASE ~PR!Cached(g) /\ g \notin PR!Computed(groups, spy, past)
  <2>1. PR!BetaSources(groups, spy, past)[g].asOf = pNow
    BY <1>3 DEF PR!BetaSources
  <2>. QED
    BY <2>1, AgesAssumption DEF AgesAssumption
<1>. QED
  BY <1>1, <1>2, <1>3

LEMMA BetasStep ==
    ASSUME BetasSafe, [PR!Next]_pVars
    PROVE  BetasSafe'
<1>. USE DEF BetasSafe
<1>1. ASSUME UNCHANGED <<pNow, used>> PROVE PR!BetasAreRecent'
  BY <1>1 DEF PR!BetasAreRecent
<1>2. CASE \E c \in {"concentration", "greeks", "stress"}, flagsOk \in BOOLEAN,
              lines \in Configs : PR!Run(c, flagsOk, lines)
  <2>1. command' # "none" /\ UNCHANGED <<pNow, used>>
    BY <1>2, Zenon DEF PR!Run, PR!reportVars
  <2>. QED
    BY <2>1, <1>1
<1>3. CASE \/ \E ok : PR!OpenStore(ok)
           \/ \E broker, holdings : PR!Positions(broker, holdings)
           \/ \E marks : PR!Enrich(marks)
           \/ \E flag, mapOk : PR!Concentration(flag, mapOk)
           \/ \E by, mapOk, chains, inverts, engine : PR!Greeks(by, mapOk, chains, inverts, engine)
  <2>1. step # "idle" /\ UNCHANGED <<pNow, command, used>>
    BY <1>3, Zenon DEF PR!OpenStore, PR!Positions, PR!Enrich, PR!Concentration, PR!Greeks,
       PR!reportVars
  <2>. QED
    BY <2>1, <1>1
<1>4. CASE \E spy, past, writable, failsAt : PR!Stress(spy, past, writable, failsAt)
  <2>1. PICK spy, past : /\ used' = PR!BetaSources(DOMAIN greeks.groups, spy, past)
                         /\ step = "greeks" /\ UNCHANGED <<pNow, command>>
    BY <1>4, Zenon DEF PR!Stress
  <2>2. PR!BetasAreRecent'
    BY <2>1, SourcesAreRecent DEF PR!BetasAreRecent
  <2>. QED
    BY <2>1, <2>2
<1>5. CASE PR!Exit
  <2>1. pNow' = pNow /\ step' = "idle" /\ used' = <<>>
    BY <1>5, Zenon DEF PR!Exit
  <2>. QED
    BY <2>1 DEF PR!BetasAreRecent
<1>6. CASE PR!Tick
  <2>1. command = "none" /\ pNow' = pNow + 1 /\ UNCHANGED <<command, step, used>>
    BY <1>6, Zenon DEF PR!Tick, PR!reportVars
  <2>2. used' = <<>>
    BY <2>1
  <2>. QED
    BY <2>1, <2>2 DEF PR!BetasAreRecent
<1>7. CASE UNCHANGED pVars
  BY <1>7, <1>1 DEF pVars
<1>. QED
  BY <1>2, <1>3, <1>4, <1>5, <1>6, <1>7, Zenon DEF PR!Next

(* No stress report uses a beta that was computed too long ago, however     *)
(* long the table has kept it and whatever comes of the bars (internal/cli/ *)
(* stress_beta.go).                                                         *)
LEMMA NoStaleBeta == ServicesSpec => []PR!BetasAreRecent
<1>1. ServicesInit => BetasSafe
  BY DEF ServicesInit, PR!Init, BetasSafe, PR!BetasAreRecent
<1>2. BetasSafe /\ [ServicesNext]_allVars => BetasSafe'
  <2>1. [ServicesNext]_allVars => [PR!Next]_pVars
    BY Zenon DEF ServicesNext, Fetching, Caching, Migrating, ShuttingDown, Viewing, Loading,
       Alarming, Reporting, Weighing, Analysing, allVars
  <2>. QED
    BY <2>1, BetasStep
<1>3. BetasSafe => PR!BetasAreRecent
  BY DEF BetasSafe
<1>. QED
  BY <1>1, <1>2, <1>3, PTL DEF ServicesSpec

-----------------------------------------------------------------------------
(* The portfolio reports.  A report groups the value of the holdings; two   *)
(* of them agree when they count the same book, each holding once.  The     *)
(* groups of a report partition what is held, so the sum of the groups is    *)
(* the sum of the holdings, whether by name or by sector.                    *)
LEMMA SumIsSum == ASSUME NEW f, NEW S PROVE PR!SumFunctionOnSet(f, S) = SumFunctionOnSet(f, S)
BY Zenon DEF PR!SumFunctionOnSet, PR!FoldFunctionOnSet, PR!MapThenFoldSet,
   SumFunctionOnSet, FoldFunctionOnSet, MapThenFoldSet

(* The market value of a holding, of a set of them, and what is held.       *)
Worth(i) == PR!Abs(book[i].mv)
WorthOf(S) == SumFunctionOnSet([i \in PR!Live |-> Worth(i)], S)
Names == {book[i].sym : i \in PR!Live}
HeldIn(n) == {i \in PR!Live : book[i].sym = n}
HeldOf(s) == {i \in PR!Live : Sectors[book[i].sym] = s}
SectorsHeld == {Sectors[n] : n \in Names}

ByName == [n \in Names |-> WorthOf(HeldIn(n))]
BySector == [s \in SectorsHeld |-> WorthOf(HeldOf(s))]

BookTyped ==
    /\ IsFiniteSet(DOMAIN book) /\ book = [i \in DOMAIN book |-> book[i]]
    /\ \A i \in DOMAIN book : book[i].mv \in Int /\ book[i].qty \in Int

LEMMA WorthIsNumber ==
    ASSUME BookTyped
    PROVE  /\ IsFiniteSet(PR!Live)
           /\ \A i \in PR!Live : [j \in PR!Live |-> Worth(j)][i] \in Int
<1>1. PR!Live \subseteq DOMAIN book
  BY DEF PR!Live
<1>2. IsFiniteSet(PR!Live)
  BY <1>1, FS_Subset DEF BookTyped
<1>3. \A i \in PR!Live : Worth(i) \in Int
  BY <1>1 DEF BookTyped, Worth, PR!Abs
<1>. QED
  BY <1>2, <1>3

LEMMA WorthAsSum ==
    ASSUME BookTyped, NEW S, S \subseteq PR!Live
    PROVE  /\ PR!SumFunctionOnSet([i \in S |-> Worth(i)], S) = WorthOf(S)
           /\ IsFiniteSet(S) /\ WorthOf(S) \in Int
<1>1. IsFiniteSet(S)
  BY WorthIsNumber, FS_Subset
<1>2. SumFunctionOnSet([i \in S |-> Worth(i)], S) = WorthOf(S)
  <2>. DEFINE f == [i \in S |-> Worth(i)]
              g == [i \in PR!Live |-> Worth(i)]
  <2>1. \A i \in S : f[i] = g[i]
    OBVIOUS
  <2>. HIDE DEF f, g
  <2>2. SumFunctionOnSet(f, S) = SumFunctionOnSet(g, S)
    BY <1>1, <2>1, SumOfSame
  <2>. QED
    BY <2>2 DEF f, g, WorthOf
<1>3. WorthOf(S) \in Int
  <2>. DEFINE g == [i \in PR!Live |-> Worth(i)]
  <2>1. \A i \in S : g[i] \in Int
    BY WorthIsNumber
  <2>. HIDE DEF g
  <2>2. SumFunctionOnSet(g, S) \in Int
    BY <1>1, <2>1, SumIsNumber
  <2>. QED
    BY <2>2 DEF g, WorthOf
<1>. QED
  BY <1>1, <1>2, <1>3, SumIsSum

LEMMA WorthOfParts ==
    ASSUME BookTyped, NEW S, S \subseteq PR!Live, NEW T, IsFiniteSet(T),
           \A i \in S : book[i].sym \in T
    PROVE  SumFunctionOnSet([n \in T |-> WorthOf({i \in S : book[i].sym = n})], T) = WorthOf(S)
<1>. DEFINE g == [i \in PR!Live |-> Worth(i)]
            key == [i \in PR!Live |-> book[i].sym]
<1>1. IsFiniteSet(S) /\ \A i \in S : g[i] \in Int
  BY WorthAsSum, WorthIsNumber
<1>2. \A i \in S : key[i] \in T
  OBVIOUS
<1>3. \A n \in T : {i \in S : book[i].sym = n} = {i \in S : key[i] = n}
  OBVIOUS
<1>. HIDE DEF g, key
<1>4. SumFunctionOnSet([n \in T |-> SumFunctionOnSet(g, {i \in S : key[i] = n})], T)
        = SumFunctionOnSet(g, S)
  BY <1>1, <1>2, SumOfParts
<1>5. [n \in T |-> WorthOf({i \in S : book[i].sym = n})]
        = [n \in T |-> SumFunctionOnSet(g, {i \in S : key[i] = n})]
  <2>1. \A n \in T : WorthOf({i \in S : book[i].sym = n}) = SumFunctionOnSet(g, {i \in S : key[i] = n})
    BY <1>3, Zenon DEF WorthOf, g
  <2>. QED
    BY <2>1
<1>6. WorthOf(S) = SumFunctionOnSet(g, S)
  BY DEF WorthOf, g
<1>. QED
  BY <1>4, <1>5, <1>6, Zenon

LEMMA NamesAreFinite ==
    ASSUME BookTyped
    PROVE  IsFiniteSet(Names)
<1>1. [i \in PR!Live |-> book[i].sym] \in Surjection(PR!Live, Names)
  <2>. DEFINE g == [i \in PR!Live |-> book[i].sym]
  <2>1. g \in [PR!Live -> Names] /\ \A n \in Names : \E i \in PR!Live : g[i] = n
    BY DEF Names
  <2>. HIDE DEF g
  <2>. QED
    BY <2>1 DEF Surjection, g
<1>. QED
  BY <1>1, WorthIsNumber, FS_Surjection

(* What the concentration report says of the holdings.                      *)
LEMMA ConcentrationIs ==
    ASSUME BookTyped, NEW nlv
    PROVE  /\ PR!Compute(nlv).mv = ByName
           /\ PR!Compute(nlv).nlv = nlv
           /\ PR!Compute(nlv).deployed = WorthOf(PR!Live)
           /\ PR!Compute(nlv).sectors = BySector
<1>. DEFINE mv == [n \in Names |-> PR!SumFunctionOnSet([i \in HeldIn(n) |-> PR!Abs(book[i].mv)], HeldIn(n))]
            of(s) == {n \in Names : Sectors[n] = s}
<1>1. /\ PR!Compute(nlv).mv = mv
      /\ PR!Compute(nlv).nlv = nlv
  BY DEF PR!Compute, PR!Sum, Names, HeldIn
<1>2. PR!Compute(nlv).deployed = PR!SumFunctionOnSet([n \in Names |-> mv[n]], Names)
  BY DEF PR!Compute, PR!Sum, Names, HeldIn
<1>3. PR!Compute(nlv).sectors =
        [s \in SectorsHeld |-> PR!SumFunctionOnSet([n \in of(s) |-> mv[n]], of(s))]
  BY DEF PR!Compute, PR!Sum, Names, HeldIn, SectorsHeld
<1>4. mv = ByName
  <2>1. \A n \in Names : PR!SumFunctionOnSet([i \in HeldIn(n) |-> PR!Abs(book[i].mv)], HeldIn(n))
                            = WorthOf(HeldIn(n))
    <3>1. \A n : HeldIn(n) \subseteq PR!Live
      BY DEF HeldIn
    <3>2. \A n : PR!SumFunctionOnSet([i \in HeldIn(n) |-> Worth(i)], HeldIn(n)) = WorthOf(HeldIn(n))
      BY <3>1, WorthAsSum
    <3>. QED
      BY <3>2, Zenon DEF Worth
  <2>. QED
    BY <2>1, Zenon DEF ByName
<1>5. \A S \in SUBSET Names : [n \in S |-> mv[n]] = [n \in S |-> WorthOf(HeldIn(n))]
  <2>. HIDE DEF mv
  <2>. QED
    BY <1>4 DEF ByName
<1>. HIDE DEF mv
<1>6. PR!Compute(nlv).deployed = WorthOf(PR!Live)
  <2>1. [n \in Names |-> mv[n]] = [n \in Names |-> WorthOf({i \in PR!Live : book[i].sym = n})]
    BY <1>5, Zenon DEF HeldIn
  <2>2. SumFunctionOnSet([n \in Names |-> WorthOf({i \in PR!Live : book[i].sym = n})], Names)
            = WorthOf(PR!Live)
    BY NamesAreFinite, WorthOfParts DEF Names
  <2>. QED
    BY <1>2, <2>1, <2>2, SumIsSum, Zenon
<1>7. PR!Compute(nlv).sectors = BySector
  <2>. SUFFICES ASSUME NEW s \in SectorsHeld
                PROVE  PR!SumFunctionOnSet([n \in of(s) |-> mv[n]], of(s)) = WorthOf(HeldOf(s))
    BY <1>3, Zenon DEF BySector
  <2>1. of(s) \in SUBSET Names /\ IsFiniteSet(of(s))
    BY NamesAreFinite, FS_Subset
  <2>2. \A i \in HeldOf(s) : book[i].sym \in of(s)
    BY DEF HeldOf, Names
  <2>3. \A n \in of(s) : HeldIn(n) = {i \in HeldOf(s) : book[i].sym = n}
    BY DEF HeldOf, HeldIn
  <2>4. HeldOf(s) \subseteq PR!Live
    BY DEF HeldOf
  <2>. HIDE DEF of
  <2>5. [n \in of(s) |-> mv[n]] = [n \in of(s) |-> WorthOf({i \in HeldOf(s) : book[i].sym = n})]
    <3>1. [n \in of(s) |-> mv[n]] = [n \in of(s) |-> WorthOf(HeldIn(n))]
      BY <1>5, <2>1
    <3>2. \A n \in of(s) : WorthOf(HeldIn(n)) = WorthOf({i \in HeldOf(s) : book[i].sym = n})
      BY <2>3, Zenon
    <3>. QED
      BY <3>1, <3>2
  <2>6. SumFunctionOnSet([n \in of(s) |-> WorthOf({i \in HeldOf(s) : book[i].sym = n})], of(s))
            = WorthOf(HeldOf(s))
    BY <2>1, <2>2, <2>4, WorthOfParts
  <2>. QED
    BY <2>5, <2>6, SumIsSum, Zenon
<1>. QED
  BY <1>1, <1>4, <1>6, <1>7
(* What the Greeks count or skip of a group is worth what is held in it.    *)
KeyOf(by, n) == IF by = "sector" THEN Sectors[n] ELSE n
InGroup(by, k, S) == {i \in S : KeyOf(by, book[i].sym) = k}

LEMMA GroupIsWhole ==
    ASSUME BookTyped, NEW by, NEW k
    PROVE  LET counted == {i \in PR!Live \ PR!Legs : book[i].mv # 0}
           IN WorthOf(InGroup(by, k, counted)) + WorthOf(InGroup(by, k, PR!Legs))
                = WorthOf(InGroup(by, k, PR!Live))
<1>. DEFINE counted == {i \in PR!Live \ PR!Legs : book[i].mv # 0}
            A == InGroup(by, k, counted)
            B == InGroup(by, k, PR!Legs)
            Z == InGroup(by, k, (PR!Live \ PR!Legs) \ counted)
            g == [i \in PR!Live |-> Worth(i)]
<1>1. PR!Legs \subseteq PR!Live
  BY DEF PR!Legs
<1>2. /\ A \subseteq PR!Live /\ B \subseteq PR!Live /\ Z \subseteq PR!Live
      /\ A \cap B = {} /\ (A \cup B) \cap Z = {} /\ (A \cup B) \cup Z = InGroup(by, k, PR!Live)
  BY <1>1 DEF InGroup
<1>3. \A i \in Z : g[i] = 0
  <2>1. \A i \in Z : book[i].mv = 0 /\ i \in PR!Live
    BY <1>2 DEF InGroup
  <2>. QED
    BY <2>1 DEF Worth, PR!Abs
<1>4. \A i \in PR!Live : g[i] \in Int
  BY WorthIsNumber
<1>. HIDE DEF A, B, Z, g
<1>5. IsFiniteSet(A) /\ IsFiniteSet(B) /\ IsFiniteSet(Z) /\ IsFiniteSet(A \cup B)
  BY <1>2, WorthAsSum, FS_Union
<1>6. SumFunctionOnSet(g, A \cup B) = SumFunctionOnSet(g, A) + SumFunctionOnSet(g, B)
  BY <1>2, <1>4, <1>5, SumOfUnion
<1>7. SumFunctionOnSet(g, (A \cup B) \cup Z) = SumFunctionOnSet(g, A \cup B) + SumFunctionOnSet(g, Z)
  <2>1. \A i \in (A \cup B) \cup Z : g[i] \in Int
    BY <1>2, <1>4
  <2>. QED
    BY <1>2, <1>5, <2>1, SumOfUnion
<1>8. SumFunctionOnSet(g, Z) = 0
  BY <1>3, <1>5, SumOfZeros
<1>9. SumFunctionOnSet(g, A \cup B) \in Int
  <2>1. \A i \in A \cup B : g[i] \in Int
    BY <1>2, <1>4
  <2>. QED
    BY <1>5, <2>1, SumIsNumber
<1>10. SumFunctionOnSet(g, (A \cup B) \cup Z) = SumFunctionOnSet(g, A) + SumFunctionOnSet(g, B)
  BY <1>6, <1>7, <1>8, <1>9
<1>. QED
  BY <1>2, <1>10, Zenon DEF A, B, g, WorthOf, counted

LEMMA GreeksAre ==
    ASSUME BookTyped, NEW by, NEW chains, NEW inverts, NEW engine
    PROVE  LET groups == PR!AggregateGreeks(by, chains, inverts, engine).groups
           IN [k \in DOMAIN groups |-> groups[k].mv] = IF by = "sector" THEN BySector ELSE ByName
<1>. DEFINE report == PR!AggregateGreeks(by, chains, inverts, engine)
            groups == report.groups
            keys == {KeyOf(by, book[i].sym) : i \in PR!Live}
            counted == {i \in PR!Live \ PR!Legs : book[i].mv # 0}
            A(k) == InGroup(by, k, counted)
            B(k) == InGroup(by, k, PR!Legs)
            leg == [i \in PR!Legs |-> PR!PriceOneLeg(i, chains, inverts, engine[i])]
<1>1. /\ DOMAIN groups = keys
      /\ \A k \in keys : groups[k].mv =
            PR!SumFunctionOnSet([i \in A(k) |-> PR!Abs(book[i].mv)], A(k))
            + PR!SumFunctionOnSet([i \in B(k) |-> leg[i].mv], B(k))
  BY DEF PR!AggregateGreeks, PR!Sum, KeyOf, InGroup
<1>2. \A i \in PR!Legs : leg[i].mv = Worth(i)
  BY DEF PR!PriceOneLeg, PR!LegMV, Worth
<1>. HIDE DEF leg, groups
<1>3. \A k \in keys : groups[k].mv = WorthOf(InGroup(by, k, PR!Live))
  <2>. SUFFICES ASSUME NEW k \in keys PROVE groups[k].mv = WorthOf(InGroup(by, k, PR!Live))
    OBVIOUS
  <2>1. A(k) \subseteq PR!Live /\ B(k) \subseteq PR!Live /\ B(k) \subseteq PR!Legs
    BY DEF InGroup, PR!Legs
  <2>. HIDE DEF A, B
  <2>2. [i \in B(k) |-> leg[i].mv] = [i \in B(k) |-> Worth(i)]
    BY <1>2, <2>1
  <2>3. groups[k].mv = WorthOf(A(k)) + WorthOf(B(k))
    <3>1. PR!SumFunctionOnSet([i \in A(k) |-> Worth(i)], A(k)) = WorthOf(A(k))
      BY <2>1, WorthAsSum
    <3>2. PR!SumFunctionOnSet([i \in B(k) |-> Worth(i)], B(k)) = WorthOf(B(k))
      BY <2>1, WorthAsSum
    <3>. QED
      BY <1>1, <2>2, <3>1, <3>2, Zenon DEF Worth
  <2>. QED
    BY <2>3, GroupIsWhole, Zenon DEF A, B, counted
<1>4. CASE by = "sector"
  <2>1. keys = SectorsHeld /\ \A k : InGroup(by, k, PR!Live) = HeldOf(k)
    BY <1>4 DEF KeyOf, InGroup, HeldOf, SectorsHeld, Names
  <2>2. \A k \in keys : groups[k].mv = WorthOf(HeldOf(k))
    BY <1>3, <2>1, Zenon
  <2>. HIDE DEF keys
  <2>. QED
    BY <1>1, <1>4, <2>1, <2>2, Zenon DEF BySector, groups
<1>5. CASE by # "sector"
  <2>1. keys = Names /\ \A k : InGroup(by, k, PR!Live) = HeldIn(k)
    BY <1>5 DEF KeyOf, InGroup, HeldIn, Names
  <2>2. \A k \in keys : groups[k].mv = WorthOf(HeldIn(k))
    BY <1>3, <2>1, Zenon
  <2>. HIDE DEF keys
  <2>. QED
    BY <1>1, <1>5, <2>1, <2>2, Zenon DEF ByName, groups
<1>. QED
  BY <1>4, <1>5

(* A report says what is held, while the command that made it runs; before  *)
(* that there is none.                                                      *)
Early == {"idle", "configured", "open", "positions", "marked"}
Fields == {"mark", "mv", "sym", "sec", "cur", "qty", "exp"}

RiskSafe ==
    /\ BookTyped /\ \A i \in DOMAIN book : DOMAIN book[i] = Fields
    /\ command = "none" => step = "idle"
    /\ step \in Early => exposure = PR!NoExposure /\ greeks = PR!NoGreeks /\ pnl = <<>>
    /\ exposure # PR!NoExposure => exposure.mv = ByName
    /\ greeks # PR!NoGreeks =>
            [k \in DOMAIN greeks.groups |-> greeks.groups[k].mv] \in {ByName, BySector}
    /\ \A s \in DOMAIN pnl : DOMAIN pnl[s] = DOMAIN greeks.groups

LEMMA SameBook ==
    ASSUME book' = book
    PROVE  /\ ByName' = ByName /\ BySector' = BySector /\ BookTyped' = BookTyped
           /\ (\A i \in DOMAIN book : DOMAIN book[i] = Fields)
                => (\A i \in DOMAIN book : DOMAIN book[i] = Fields)'
<1>1. PR!Live' = PR!Live
  BY DEF PR!Live, PR!Residual, PR!NonUSD
<1>2. \A i : Worth(i)' = Worth(i)
  BY DEF Worth, PR!Abs
<1>3. \A S : WorthOf(S)' = WorthOf(S)
  BY <1>1, <1>2 DEF WorthOf
<1>4. Names' = Names /\ \A n : HeldIn(n)' = HeldIn(n) /\ HeldOf(n)' = HeldOf(n)
  BY <1>1 DEF Names, HeldIn, HeldOf
<1>5. ByName' = ByName
  BY <1>3, <1>4 DEF ByName
<1>6. BySector' = BySector
  BY <1>3, <1>4 DEF BySector, SectorsHeld
<1>7. BookTyped' = BookTyped
  BY DEF BookTyped
<1>. QED
  BY <1>5, <1>6, <1>7

(* What leaves book and reports alone.                                      *)
LEMMA ReportsStand ==
    ASSUME RiskSafe, UNCHANGED <<book, exposure, greeks, pnl>>,
           command' = "none" => step' = "idle",
           step' \in Early => exposure = PR!NoExposure /\ greeks = PR!NoGreeks /\ pnl = <<>>
    PROVE  RiskSafe'
<1>1. /\ ByName' = ByName /\ BySector' = BySector /\ BookTyped'
      /\ (\A i \in DOMAIN book : DOMAIN book[i] = Fields)'
  BY SameBook DEF RiskSafe
<1>. QED
  BY <1>1 DEF RiskSafe, PR!NoExposure, PR!NoGreeks

(* Holdings are read and marked before there is a report.                   *)
LEMMA BookChanges ==
    ASSUME RiskSafe, step \in Early, UNCHANGED <<exposure, greeks, pnl>>,
           command' = "none" => step' = "idle",
           BookTyped', (\A i \in DOMAIN book : DOMAIN book[i] = Fields)'
    PROVE  RiskSafe'
<1>1. exposure' = PR!NoExposure /\ greeks' = PR!NoGreeks /\ pnl' = <<>>
  BY DEF RiskSafe
<1>. QED
  BY <1>1 DEF RiskSafe, PR!NoExposure, PR!NoGreeks

LEMMA RiskStep ==
    ASSUME RiskSafe, [PR!Next]_pVars
    PROVE  RiskSafe'
<1>1. ASSUME NEW c \in {"concentration", "greeks", "stress"}, NEW flagsOk, NEW lines,
             PR!Run(c, flagsOk, lines)
      PROVE  RiskSafe'
  <2>1. /\ command = "none" /\ command' # "none" /\ UNCHANGED <<book, exposure, greeks, pnl>>
    BY <1>1, Zenon DEF PR!Run, PR!reportVars
  <2>2. step = "idle"
    BY <2>1 DEF RiskSafe
  <2>. QED
    BY <2>1, <2>2, ReportsStand DEF RiskSafe, Early
<1>2. ASSUME NEW ok, PR!OpenStore(ok) PROVE RiskSafe'
  <2>1. step = "configured" /\ step' # "idle" /\ UNCHANGED <<command, book, exposure, greeks, pnl>>
    BY <1>2 DEF PR!OpenStore, PR!reportVars
  <2>. QED
    BY <2>1, ReportsStand DEF RiskSafe, Early
<1>3. ASSUME NEW broker, NEW holdings \in Books, PR!Positions(broker, holdings) PROVE RiskSafe'
  <2>1. step = "open" /\ step' # "idle" /\ UNCHANGED <<command, exposure, greeks, pnl>>
    BY <1>3 DEF PR!Positions, PR!reportVars
  <2>2. command' # "none"
    BY <2>1 DEF RiskSafe
  <2>3. CASE book' = book
    BY <2>1, <2>2, <2>3, ReportsStand DEF RiskSafe, Early
  <2>4. CASE book' # book
    <3>1. book' = [i \in DOMAIN holdings |->
                        [mark |-> 0, mv |-> 0, sym |-> holdings[i].sym, sec |-> holdings[i].sec,
                         cur |-> holdings[i].cur, qty |-> holdings[i].qty, exp |-> holdings[i].exp]]
      BY <1>3, <2>4, Zenon DEF PR!Positions
    <3>2. IsFiniteSet(DOMAIN holdings) /\ \A i \in DOMAIN holdings : holdings[i].qty \in Int
      BY BooksAssumption
    <3>3. BookTyped'
      BY <3>1, <3>2 DEF BookTyped
    <3>4. (\A i \in DOMAIN book : DOMAIN book[i] = Fields)'
      BY <3>1 DEF Fields
    <3>. QED
      BY <2>1, <2>2, <3>3, <3>4, BookChanges DEF Early
  <2>. QED
    BY <2>3, <2>4
<1>4. ASSUME NEW marks \in [DOMAIN book -> {0, 3}], PR!Enrich(marks) PROVE RiskSafe'
  <2>1. /\ step = "positions" /\ step' # "idle" /\ UNCHANGED <<command, exposure, greeks, pnl>>
        /\ book' = [i \in DOMAIN book |->
                        [book[i] EXCEPT !.mark = marks[i],
                                        !.mv = book[i].qty * marks[i] * PR!Multiplier(book[i])]]
    BY <1>4 DEF PR!Enrich, PR!reportVars
  <2>2. command' # "none"
    BY <2>1 DEF RiskSafe
  <2>3. ASSUME NEW i \in DOMAIN book
        PROVE  /\ book'[i].mv \in Int /\ book'[i].qty \in Int /\ DOMAIN book'[i] = Fields
    <3>1. DOMAIN book[i] = Fields /\ book[i].qty \in Int
      BY DEF RiskSafe, BookTyped
    <3>2. PICK v \in Int : v = book[i].qty * marks[i] * PR!Multiplier(book[i])
      <4>1. PICK x \in Int, m \in Int, n \in Int :
                x = book[i].qty /\ m = marks[i] /\ n = PR!Multiplier(book[i])
        BY <3>1 DEF PR!Multiplier
      <4>. QED
        BY <4>1
    <3>3. book'[i] = [book[i] EXCEPT !.mark = marks[i], !.mv = v]
      BY <2>1, <3>2, Zenon
    <3>. QED
      BY <3>1, <3>3 DEF Fields
  <2>4. DOMAIN book' = DOMAIN book /\ book' = [i \in DOMAIN book |-> book'[i]]
    BY <2>1
  <2>5. BookTyped' /\ (\A i \in DOMAIN book : DOMAIN book[i] = Fields)'
    BY <2>3, <2>4 DEF BookTyped, RiskSafe
  <2>. QED
    BY <2>1, <2>2, <2>5, BookChanges DEF Early
<1>5. ASSUME NEW flag, NEW mapOk, PR!Concentration(flag, mapOk) PROVE RiskSafe'
  <2>1. /\ step = "marked" /\ step' \in {"exit 0", "exit 1"} /\ UNCHANGED <<command, book, greeks, pnl>>
        /\ exposure' \in {exposure, PR!Compute(PR!Anchor(flag))}
    BY <1>5, Zenon DEF PR!Concentration
  <2>2. command' # "none"
    BY <2>1 DEF RiskSafe
  <2>3. CASE exposure' = exposure
    BY <2>1, <2>2, <2>3, ReportsStand DEF Early
  <2>4. CASE exposure' = PR!Compute(PR!Anchor(flag))
    <3>1. exposure'.mv = ByName
      <4>1. PR!Compute(PR!Anchor(flag)).mv = ByName
        BY ConcentrationIs DEF RiskSafe
      <4>. QED
        BY <2>4, <4>1, Zenon
    <3>2. /\ ByName' = ByName /\ BySector' = BySector /\ BookTyped'
          /\ (\A i \in DOMAIN book : DOMAIN book[i] = Fields)'
      BY <2>1, SameBook DEF RiskSafe
    <3>3. greeks' = PR!NoGreeks /\ pnl' = <<>>
      BY <2>1 DEF RiskSafe, Early
    <3>. QED
      BY <2>1, <2>2, <3>1, <3>2, <3>3 DEF RiskSafe, Early, PR!NoExposure, PR!NoGreeks
  <2>. QED
    BY <2>1, <2>3, <2>4
<1>6. ASSUME NEW by, NEW mapOk, NEW chains, NEW inverts, NEW engine,
             PR!Greeks(by, mapOk, chains, inverts, engine)
      PROVE  RiskSafe'
  <2>1. /\ step = "marked" /\ step' \in {"greeks", "exit 0", "exit 1"}
        /\ UNCHANGED <<command, book, exposure, pnl>>
        /\ greeks' \in {greeks, PR!AggregateGreeks(by, chains, inverts, engine)}
    <3>1. UNCHANGED <<command, book, exposure, pnl>> /\ step = "marked"
      BY <1>6, Zenon DEF PR!Greeks
    <3>. QED
      BY <1>6, <3>1, Zenon DEF PR!Greeks
  <2>2. command' # "none"
    BY <2>1 DEF RiskSafe
  <2>3. CASE greeks' = greeks
    BY <2>1, <2>2, <2>3, ReportsStand DEF Early
  <2>4. CASE greeks' = PR!AggregateGreeks(by, chains, inverts, engine)
    <3>0. PICK groups : groups = PR!AggregateGreeks(by, chains, inverts, engine).groups
      BY Zenon
    <3>1. [k \in DOMAIN groups |-> groups[k].mv] \in {ByName, BySector}
      <4>. DEFINE report == PR!AggregateGreeks(by, chains, inverts, engine)
      <4>1. [k \in DOMAIN report.groups |-> report.groups[k].mv]
                = IF by = "sector" THEN BySector ELSE ByName
        BY GreeksAre DEF RiskSafe
      <4>. HIDE DEF report
      <4>2. groups = report.groups
        BY <3>0, Zenon DEF report
      <4>. QED
        BY <4>1, <4>2
    <3>2. greeks'.groups = groups
      BY <2>4, <3>0, Zenon
    <3>3. /\ ByName' = ByName /\ BySector' = BySector /\ BookTyped'
          /\ (\A i \in DOMAIN book : DOMAIN book[i] = Fields)'
      BY <2>1, SameBook DEF RiskSafe
    <3>4. exposure' = PR!NoExposure /\ pnl' = <<>>
      BY <2>1 DEF RiskSafe, Early
    <3>5. ([k \in DOMAIN greeks.groups |-> greeks.groups[k].mv] \in {ByName, BySector})'
      BY <3>1, <3>2, <3>3, Zenon
    <3>6. step' \notin Early /\ \A s \in DOMAIN pnl' : DOMAIN pnl'[s] = DOMAIN greeks'.groups
      <4>1. DOMAIN pnl' = {}
        BY <3>4
      <4>. QED
        BY <2>1, <4>1 DEF Early
    <3>. HIDE DEF PR!NoExposure
    <3>7. PR!NoExposure' = PR!NoExposure
      BY DEF PR!NoExposure
    <3>. QED
      BY <2>2, <3>3, <3>4, <3>5, <3>6, <3>7, Zenon DEF RiskSafe
  <2>. QED
    BY <2>1, <2>3, <2>4
<1>7. ASSUME NEW spy, NEW past, NEW writable, NEW failsAt, PR!Stress(spy, past, writable, failsAt)
      PROVE  RiskSafe'
  <2>1. /\ step = "greeks" /\ step' = "exit 0" /\ UNCHANGED <<command, book, exposure, greeks>>
    BY <1>7, Zenon DEF PR!Stress
  <2>2. \A s \in DOMAIN pnl' : DOMAIN pnl'[s] = DOMAIN greeks.groups
    BY <1>7 DEF PR!Stress
  <2>3. /\ ByName' = ByName /\ BySector' = BySector /\ BookTyped'
        /\ (\A i \in DOMAIN book : DOMAIN book[i] = Fields)'
    BY <2>1, SameBook DEF RiskSafe
  <2>4. command' # "none"
    BY <2>1 DEF RiskSafe
  <2>. QED
    BY <2>1, <2>2, <2>3, <2>4 DEF RiskSafe, Early, PR!NoExposure, PR!NoGreeks
<1>8. CASE PR!Exit
  <2>1. /\ step' = "idle" /\ book' = <<>> /\ exposure' = PR!NoExposure /\ greeks' = PR!NoGreeks
        /\ pnl' = <<>>
    BY <1>8, Zenon DEF PR!Exit
  <2>2. DOMAIN book' = {}
    BY <2>1
  <2>3. BookTyped'
    BY <2>1, <2>2, FS_EmptySet DEF BookTyped
  <2>. QED
    BY <2>1, <2>2, <2>3 DEF RiskSafe, PR!NoExposure, PR!NoGreeks
<1>9. CASE PR!Tick
  <2>1. UNCHANGED <<command, step, book, exposure, greeks, pnl>>
    BY <1>9, Zenon DEF PR!Tick, PR!reportVars
  <2>. QED
    BY <2>1, ReportsStand DEF RiskSafe
<1>10. CASE UNCHANGED pVars
  <2>1. UNCHANGED <<command, step, book, exposure, greeks, pnl>>
    BY <1>10 DEF pVars
  <2>. QED
    BY <2>1, ReportsStand DEF RiskSafe
<1>. QED
  BY <1>1, <1>2, <1>3, <1>4, <1>5, <1>6, <1>7, <1>8, <1>9, <1>10, Zenon DEF PR!Next

(* The commands value one account alike: what concentration shows as        *)
(* deployed is all of it, the Greeks' groups, whatever is skipped, and the  *)
(* stress are of the same holdings at the same market value                 *)
(* (internal/portfolio: concentration.go, greeks.go, stress.go), and no     *)
(* beta is of bars that are too old (internal/cli/stress_beta.go).          *)
THEOREM ReportsAgree == ServicesSpec => []RiskIsFounded
<1>1. ServicesInit => RiskSafe
  <2>. SUFFICES ASSUME ServicesInit PROVE RiskSafe
    OBVIOUS
  <2>1. /\ command = "none" /\ step = "idle" /\ book = <<>> /\ exposure = PR!NoExposure
        /\ greeks = PR!NoGreeks /\ pnl = <<>>
    BY Zenon DEF ServicesInit, PR!Init
  <2>2. DOMAIN book = {} /\ DOMAIN pnl = {}
    BY <2>1
  <2>3. BookTyped
    BY <2>1, <2>2, FS_EmptySet DEF BookTyped
  <2>. QED
    BY <2>1, <2>2, <2>3 DEF RiskSafe
<1>2. RiskSafe /\ [ServicesNext]_allVars => RiskSafe'
  <2>1. [ServicesNext]_allVars => [PR!Next]_pVars
    BY Zenon DEF ServicesNext, Fetching, Caching, Migrating, ShuttingDown, Viewing, Loading,
       Alarming, Reporting, Weighing, Analysing, allVars
  <2>. QED
    BY <2>1, RiskStep
<1>3. RiskSafe => PR!ViewsAgree
  <2>. SUFFICES ASSUME RiskSafe PROVE PR!ViewsAgree
    OBVIOUS
  <2>. DEFINE held == PR!Compute(PR!FallbackNLV)
  <2>1. /\ held.mv = ByName /\ held.sectors = BySector
        /\ held.nlv = PR!FallbackNLV /\ held.deployed = WorthOf(PR!Live)
    BY ConcentrationIs DEF RiskSafe
  <2>2. PR!FallbackNLV = WorthOf(PR!Live)
    <3>1. PR!FallbackNLV = PR!SumFunctionOnSet([i \in PR!Live |-> Worth(i)], PR!Live)
      BY DEF PR!FallbackNLV, PR!Sum, Worth
    <3>2. PR!Live \subseteq PR!Live
      OBVIOUS
    <3>. QED
      BY <3>1, <3>2, WorthAsSum DEF RiskSafe
  <2>3. PR!ViewsAgree <=>
            /\ held.deployed = held.nlv
            /\ exposure # PR!NoExposure => exposure.mv = held.mv
            /\ greeks # PR!NoGreeks =>
                [k \in DOMAIN greeks.groups |-> greeks.groups[k].mv] \in {held.mv, held.sectors}
            /\ \A s \in DOMAIN pnl : DOMAIN pnl[s] = DOMAIN greeks.groups
    BY Zenon DEF PR!ViewsAgree
  <2>. HIDE DEF held
  <2>. QED
    BY <2>1, <2>2, <2>3 DEF RiskSafe
<1>4. PR!ViewsAgree /\ PR!BetasAreRecent => RiskIsFounded
  BY Zenon DEF RiskIsFounded
<1>. QED
  BY <1>1, <1>2, <1>3, <1>4, NoStaleBeta, PTL DEF ServicesSpec

-----------------------------------------------------------------------------
(* The bundle of shock cards: what was asked for once is settled, and with  *)
(* it everything a card shows of it.                                        *)

BundleShapes ==
    /\ cards \in Seq({cards[k] : k \in DOMAIN cards})
    /\ DOMAIN sQuotes \subseteq sFetched.quotes /\ DOMAIN depth \subseteq sFetched.depth
    /\ sFetched = [quotes |-> sFetched.quotes, depth |-> sFetched.depth,
                   options |-> sFetched.options]

ShowsQuotes(c) ==
    \A i \in DOMAIN c.quotes : i \in DOMAIN sQuotes /\ c.quotes[i] = sQuotes[i]
ShowsLiquidity(c) ==
    c.liquidity # <<>> =>
        /\ SI!LiquidityIds \subseteq sFetched.quotes /\ SI!LiquidityIds \subseteq sFetched.depth
        /\ c.liquidity = SI!Liquidity(sQuotes, depth)
WarnsOfKnown(c) == "quotes" \in c.warned => "quotes" \in failed

Shows(c) == ShowsQuotes(c) /\ ShowsLiquidity(c) /\ WarnsOfKnown(c)

BundleSafe ==
    /\ BundleShapes
    /\ \A k \in DOMAIN cards : Shows(cards[k])
    /\ \A j, k \in DOMAIN cards :
            j < k /\ "quotes" \in cards[j].warned => "quotes" \in cards[k].warned

(* A call leaves what is settled as it is.                                  *)
LEMMA QuotesSettle ==
    ASSUME NEW ids, DOMAIN sQuotes \subseteq sFetched.quotes, SI!FetchQuotes(ids)
    PROVE  /\ DOMAIN sQuotes' \subseteq sFetched.quotes \cup ids
           /\ \A i \in sFetched.quotes : i \in DOMAIN sQuotes' <=> i \in DOMAIN sQuotes
           /\ \A i \in DOMAIN sQuotes : sQuotes'[i] = sQuotes[i]
<1>1. CASE sQuotes' = sQuotes
  BY <1>1
<1>2. CASE sQuotes' # sQuotes
  <2>1. PICK move, yahoo, broker :
            /\ yahoo \in SI!YahooQuotes(ids \ sFetched.quotes, move)
            /\ broker \in SI!BrokerQuotes(ids \ sFetched.quotes, move)
            /\ sQuotes' = SI!Merge(sQuotes, SI!Overlay(yahoo, broker))
    BY <1>2, Zenon DEF SI!FetchQuotes, SI!Missing
  <2>2. DOMAIN yahoo \subseteq ids \ sFetched.quotes
    BY <2>1 DEF SI!YahooQuotes
  <2>3. DOMAIN broker \subseteq ids \ sFetched.quotes
    BY <2>1 DEF SI!BrokerQuotes
  <2>4. PICK new : new = SI!Overlay(yahoo, broker)
    OBVIOUS
  <2>5. DOMAIN new = DOMAIN yahoo \cup DOMAIN broker
    BY <2>4 DEF SI!Overlay
  <2>6. sQuotes' = [i \in DOMAIN sQuotes \cup DOMAIN new |->
                        IF i \in DOMAIN new THEN new[i] ELSE sQuotes[i]]
    BY <2>1, <2>4 DEF SI!Merge, SI!Overlay
  <2>. QED
    BY <2>2, <2>3, <2>5, <2>6
<1>. QED
  BY <1>1, <1>2

LEMMA DepthSettles ==
    ASSUME NEW ids, DOMAIN depth \subseteq sFetched.depth, SI!FetchDepth(ids)
    PROVE  /\ DOMAIN depth' \subseteq sFetched.depth \cup ids
           /\ \A i \in sFetched.depth : i \in DOMAIN depth' <=> i \in DOMAIN depth
           /\ \A i \in DOMAIN depth : depth'[i] = depth[i]
<1>1. CASE depth' = depth
  BY <1>1
<1>2. CASE depth' # depth
  <2>1. PICK some \in SUBSET ((ids \ sFetched.depth) \cap SI!BrokerIds) :
            \E ladder \in [some -> Spreads] : depth' = SI!Merge(depth, ladder)
    BY <1>2, Zenon DEF SI!FetchDepth, SI!Missing
  <2>2. PICK new : DOMAIN new = some /\ depth' = SI!Merge(depth, new)
    BY <2>1
  <2>3. depth' = [i \in DOMAIN depth \cup DOMAIN new |->
                        IF i \in DOMAIN new THEN new[i] ELSE depth[i]]
    BY <2>2 DEF SI!Merge, SI!Overlay
  <2>. QED
    BY <2>1, <2>2, <2>3
<1>. QED
  BY <1>1, <1>2

(* The liquidity of instruments that are settled is settled.                *)
LEMMA LiquiditySettles ==
    ASSUME NEW q, NEW r, NEW ladder, NEW deeper,
           \A i \in SI!LiquidityIds :
                /\ (i \in DOMAIN r <=> i \in DOMAIN q) /\ (i \in DOMAIN q => r[i] = q[i])
                /\ (i \in DOMAIN deeper <=> i \in DOMAIN ladder)
                /\ (i \in DOMAIN ladder => deeper[i] = ladder[i])
    PROVE  SI!Liquidity(r, deeper) = SI!Liquidity(q, ladder)
<1>. DEFINE entry(x, y, i) ==
        IF i \notin DOMAIN x THEN [state |-> "missing", ratio |-> 0]
        ELSE LET spread == SI!RowSpread(x, y, i)
                 ratio == (100 * spread) \div SI!Normal[i]
             IN IF spread <= 0 THEN [state |-> "missing", ratio |-> 0]
                ELSE [state |-> SI!LiquidityState(ratio, spread), ratio |-> ratio]
<1>1. /\ SI!Liquidity(r, deeper) = [i \in SI!LiquidityIds |-> entry(r, deeper, i)]
      /\ SI!Liquidity(q, ladder) = [i \in SI!LiquidityIds |-> entry(q, ladder, i)]
  BY DEF SI!Liquidity
<1>2. ASSUME NEW i \in SI!LiquidityIds PROVE entry(r, deeper, i) = entry(q, ladder, i)
  <2>1. CASE i \notin DOMAIN q
    BY <2>1
  <2>2. CASE i \in DOMAIN q
    <3>1. SI!RowSpread(r, deeper, i) = SI!RowSpread(q, ladder, i)
      BY <2>2 DEF SI!RowSpread
    <3>2. i \in DOMAIN r /\ i \in DOMAIN q
      BY <2>2
    <3>. QED
      BY <3>1, <3>2
  <2>. QED
    BY <2>1, <2>2
<1>. HIDE DEF entry
<1>. QED
  BY <1>1, <1>2

LEMMA BundleStep ==
    ASSUME BundleSafe, NEW served, SI!Serve(served)
    PROVE  BundleSafe'
<1>. DEFINE need == SI!Needs(served)
<1>1. PICK new : /\ cards' = Append(cards, new)
                 /\ new.quotes = [i \in need.quotes \cap DOMAIN sQuotes' |-> sQuotes'[i]]
                 /\ new.liquidity = IF need.depth = {} THEN <<>> ELSE SI!Liquidity(sQuotes', depth')
                 /\ new.warned = failed' \cap SI!Warns(served)
  <2>. DEFINE Card(alarm, prints, analogs) ==
                [card |-> served,
                 quotes |-> [i \in need.quotes \cap DOMAIN sQuotes' |-> sQuotes'[i]],
                 liquidity |-> IF need.depth = {} THEN <<>> ELSE SI!Liquidity(sQuotes', depth'),
                 alarm |-> alarm, prints |-> prints, analogs |-> analogs,
                 warned |-> failed' \cap SI!Warns(served)]
  <2>1. \E alarm, prints, analogs : cards' = Append(cards, Card(alarm, prints, analogs))
    BY Zenon DEF SI!Serve
  <2>. HIDE DEF need
  <2>2. PICK alarm, prints, analogs : cards' = Append(cards, Card(alarm, prints, analogs))
    BY <2>1, Zenon
  <2>3. PICK new : new = Card(alarm, prints, analogs)
    OBVIOUS
  <2>4. /\ new.quotes = [i \in need.quotes \cap DOMAIN sQuotes' |-> sQuotes'[i]]
        /\ new.liquidity = IF need.depth = {} THEN <<>> ELSE SI!Liquidity(sQuotes', depth')
        /\ new.warned = failed' \cap SI!Warns(served)
    BY <2>3
  <2>5. cards' = Append(cards, new)
    BY <2>2, <2>3, Zenon
  <2>. QED
    BY <2>4, <2>5, Zenon
<1>2. /\ SI!FetchQuotes(need.quotes) /\ SI!FetchDepth(need.depth)
      /\ sFetched' = [k \in DOMAIN sFetched |-> sFetched[k] \cup need[k]]
      /\ failed \subseteq failed'
  BY DEF SI!Serve
<1>3. "quotes" \in SI!Warns(served)
  BY DEF SI!Warns
<1>4. need.depth # {} => SI!LiquidityIds \subseteq need.quotes /\ SI!LiquidityIds \subseteq need.depth
  BY DEF SI!Needs, SI!LiquidityIds
<1>. HIDE DEF need
<1>5. /\ sFetched'.quotes = sFetched.quotes \cup need.quotes
      /\ sFetched'.depth = sFetched.depth \cup need.depth
      /\ sFetched' = [quotes |-> sFetched'.quotes, depth |-> sFetched'.depth,
                      options |-> sFetched'.options]
  BY <1>2 DEF BundleSafe, BundleShapes
<1>6. /\ DOMAIN sQuotes' \subseteq sFetched'.quotes
      /\ \A i \in sFetched.quotes : i \in DOMAIN sQuotes' <=> i \in DOMAIN sQuotes
      /\ \A i \in DOMAIN sQuotes : sQuotes'[i] = sQuotes[i]
  BY <1>2, <1>5, QuotesSettle DEF BundleSafe, BundleShapes
<1>7. /\ DOMAIN depth' \subseteq sFetched'.depth
      /\ \A i \in sFetched.depth : i \in DOMAIN depth' <=> i \in DOMAIN depth
      /\ \A i \in DOMAIN depth : depth'[i] = depth[i]
  BY <1>2, <1>5, DepthSettles DEF BundleSafe, BundleShapes
<1>8. /\ Len(cards) \in Nat /\ DOMAIN cards = 1 .. Len(cards)
      /\ DOMAIN cards' = 1 .. (Len(cards) + 1) /\ cards'[Len(cards) + 1] = new
      /\ \A k \in DOMAIN cards : cards'[k] = cards[k]
  BY <1>1 DEF BundleSafe, BundleShapes
(* What the cards before it show is still so.                               *)
<1>9. ASSUME NEW c, Shows(c) PROVE Shows(c)'
  <2>1. ShowsQuotes(c)'
    BY <1>9, <1>6 DEF Shows, ShowsQuotes, BundleSafe, BundleShapes
  <2>2. ShowsLiquidity(c)'
    <3>. SUFFICES ASSUME c.liquidity # <<>>
                  PROVE  /\ SI!LiquidityIds \subseteq sFetched'.quotes
                         /\ SI!LiquidityIds \subseteq sFetched'.depth
                         /\ c.liquidity = SI!Liquidity(sQuotes', depth')
      BY DEF ShowsLiquidity
    <3>1. /\ SI!LiquidityIds \subseteq sFetched.quotes /\ SI!LiquidityIds \subseteq sFetched.depth
          /\ c.liquidity = SI!Liquidity(sQuotes, depth)
      BY <1>9 DEF Shows, ShowsLiquidity
    <3>2. SI!Liquidity(sQuotes', depth') = SI!Liquidity(sQuotes, depth)
      BY <3>1, <1>6, <1>7, LiquiditySettles
    <3>. QED
      BY <3>1, <3>2, <1>5
  <2>3. WarnsOfKnown(c)'
    BY <1>9, <1>2 DEF Shows, WarnsOfKnown
  <2>. QED
    BY <2>1, <2>2, <2>3 DEF Shows
<1>10. Shows(new)'
  <2>1. ShowsQuotes(new)'
    BY <1>1 DEF ShowsQuotes
  <2>2. ShowsLiquidity(new)'
    BY <1>1, <1>4, <1>5 DEF ShowsLiquidity
  <2>3. WarnsOfKnown(new)'
    BY <1>1 DEF WarnsOfKnown
  <2>. QED
    BY <2>1, <2>2, <2>3 DEF Shows
<1>11. (\A k \in DOMAIN cards : Shows(cards[k]))'
  <2>. SUFFICES ASSUME NEW k \in DOMAIN cards' PROVE Shows(cards[k])'
    OBVIOUS
  <2>1. PICK c : c = cards'[k]
    OBVIOUS
  <2>2. c = new \/ Shows(c)
    BY <1>8, <2>1 DEF BundleSafe
  <2>3. Shows(c)'
    BY <2>2, <1>9, <1>10, Zenon
  <2>. QED
    BY <2>1, <2>3 DEF Shows, ShowsQuotes, ShowsLiquidity, WarnsOfKnown
<1>12. BundleShapes'
  BY <1>1, <1>5, <1>6, <1>7, <1>8 DEF BundleSafe, BundleShapes
<1>13. \A j, k \in DOMAIN cards' :
            j < k /\ "quotes" \in cards'[j].warned => "quotes" \in cards'[k].warned
  <2>1. "quotes" \in failed => "quotes" \in new.warned
    BY <1>1, <1>2, <1>3
  <2>2. \A j \in DOMAIN cards : "quotes" \in cards[j].warned => "quotes" \in failed
    BY DEF BundleSafe, Shows, WarnsOfKnown
  <2>. QED
    BY <1>8, <2>1, <2>2 DEF BundleSafe
<1>. QED
  BY <1>11, <1>12, <1>13 DEF BundleSafe

LEMMA BundlesStaySafe == ServicesSpec => []BundleSafe
<1>1. ServicesInit => BundleSafe
  <2>. SUFFICES ASSUME ServicesInit PROVE BundleSafe
    OBVIOUS
  <2>1. SI!Init
    BY Zenon DEF ServicesInit, NoCards
  <2>2. /\ sQuotes = <<>> /\ depth = <<>> /\ cards = <<>>
        /\ sFetched = [quotes |-> {}, depth |-> {}, options |-> {}]
    BY <2>1, Zenon DEF SI!Init
  <2>3. DOMAIN cards = {} /\ DOMAIN sQuotes = {} /\ DOMAIN depth = {}
    BY <2>2
  <2>4. cards \in Seq({})
    <3>1. <<>> \in Seq({})
      OBVIOUS
    <3>. QED
      BY <3>1, <2>2, Zenon
  <2>5. {cards[k] : k \in DOMAIN cards} = {}
    BY <2>3
  <2>6. BundleShapes
    BY <2>2, <2>3, <2>4, <2>5 DEF BundleShapes
  <2>. QED
    BY <2>3, <2>6 DEF BundleSafe
<1>2. BundleSafe /\ [ServicesNext]_allVars => BundleSafe'
  <2>. SUFFICES ASSUME BundleSafe, [ServicesNext]_allVars PROVE BundleSafe'
    OBVIOUS
  <2>1. [SI!Next]_sVars
    BY Zenon DEF ServicesNext, Fetching, Caching, Migrating, ShuttingDown, Viewing, Loading,
       Alarming, Reporting, Weighing, Analysing, allVars
  <2>2. CASE UNCHANGED sVars
    BY <2>2 DEF sVars, BundleSafe, BundleShapes, Shows, ShowsQuotes, ShowsLiquidity, WarnsOfKnown
  <2>3. CASE SI!Serve(Head(todo))
    <3>1. PICK served : served = Head(todo)
      OBVIOUS
    <3>. QED
      BY <2>3, <3>1, BundleStep, Zenon
  <2>. QED
    BY <2>1, <2>2, <2>3, Zenon DEF SI!Next, SI!ServeNext
<1>. QED
  BY <1>1, <1>2, PTL DEF ServicesSpec

-----------------------------------------------------------------------------
(* The alarm.  Its score is the sum of the points of what confirms it.      *)

Least(a, b) == SI!Min({a, b})
Most(a, b) == SI!Max({a, b})


LEMMA ScoreIsSum ==
    ASSUME NEW q, NEW liq
    PROVE  LET C == SI!Confirmations(q, liq)
           IN  SI!Score(q, liq) = Least(10000, SumFunctionOnSet([c \in C |-> c.points], C))
<1>. DEFINE S == SI!Confirmations(q, liq)
            f == [c \in S |-> c.points]
            P(g) == g = [s \in SUBSET S |->
                            IF s = {} THEN 0
                            ELSE (CHOOSE x \in s : TRUE).points + g[s \ {CHOOSE x \in s : TRUE}]]
<1>0. PICK r : r = (CHOOSE g : P(g))[S]
  OBVIOUS
<1>1. SI!Score(q, liq) = SI!Min({10000, (CHOOSE g : P(g))[S]})
  BY DEF SI!Score, SI!MapThenSumSet, SI!MapThenFoldSet
<1>2. SumFunctionOnSet(f, S) = (CHOOSE g : Recursion(g, f, SUBSET S))[S]
  BY DEF SumFunctionOnSet, FoldFunctionOnSet, MapThenFoldSet, Recursion
<1>3. ASSUME NEW g PROVE P(g) <=> Recursion(g, f, SUBSET S)
  <2>1. \A s \in SUBSET S : s # {} => f[CHOOSE x \in s : TRUE] = (CHOOSE x \in s : TRUE).points
    OBVIOUS
  <2>. DEFINE A(s) == IF s = {} THEN 0
                      ELSE (CHOOSE x \in s : TRUE).points + g[s \ {CHOOSE x \in s : TRUE}]
              B(s) == IF s = {} THEN 0
                      ELSE f[CHOOSE x \in s : TRUE] + g[s \ {CHOOSE x \in s : TRUE}]
  <2>. HIDE DEF f
  <2>2. \A s \in SUBSET S : A(s) = B(s)
    BY <2>1
  <2>3. /\ P(g) <=> g = [s \in SUBSET S |-> A(s)]
        /\ Recursion(g, f, SUBSET S) <=> g = [s \in SUBSET S |-> B(s)]
    BY Zenon DEF Recursion
  <2>. HIDE DEF A, B, P
  <2>. QED
    BY <2>2, <2>3
<1>. HIDE DEF P, f
<1>4. (CHOOSE g : P(g)) = (CHOOSE g : Recursion(g, f, SUBSET S))
  BY <1>3, Zenon
<1>5. SI!Score(q, liq) = Least(10000, SumFunctionOnSet(f, S))
  <2>1. r = SumFunctionOnSet(f, S)
    BY <1>0, <1>2, <1>4
  <2>2. SI!Score(q, liq) = Least(10000, r)
    BY <1>0, <1>1 DEF Least
  <2>. HIDE DEF S
  <2>. QED
    BY <2>1, <2>2
<1>. QED
  BY <1>5 DEF f

(* The alarm.  The points of a confirmation are at most 2200, but for the   *)
(* VIX, and an instrument confirms at most twice, once with its liquidity:  *)
(* 5500 points are of three confirmations of two instruments.               *)

QuotesTyped(q) ==
    /\ q = [i \in DOMAIN q |-> q[i]] /\ DOMAIN q \subseteq Instruments
    /\ \A i \in DOMAIN q : q[i].pct \in Int /\ q[i].spread \in Int
DepthTyped(ladder) == \A i \in DOMAIN ladder : ladder[i] \in Int

(* What an instrument confirms with: its price, or its liquidity.           *)
Source(c) == IF c.dim = "liquidity" THEN 1 ELSE 0
OneEach(C) == \A c, d \in C : c.id = d.id /\ Source(c) = Source(d) => c = d

Confirming == {"VIX", "SPY", "QQQ", "IWM", "TLT", "HYG", "LQD", "UUP", "USO", "GLD"}


LEMMA LeastOfTwo ==
    ASSUME NEW a \in Int, NEW b \in Int
    PROVE  Least(a, b) \in Int /\ Least(a, b) \in {a, b} /\ Least(a, b) <= a /\ Least(a, b) <= b
<1>1. \E x \in {a, b} : \A y \in {a, b} : x <= y
  OBVIOUS
<1>. QED
  BY <1>1 DEF Least, SI!Min

LEMMA MostOfTwo ==
    ASSUME NEW a \in Int, NEW b \in Int
    PROVE  Most(a, b) \in Int /\ Most(a, b) >= a /\ Most(a, b) >= b
<1>1. \E x \in {a, b} : \A y \in {a, b} : x >= y
  OBVIOUS
<1>. QED
  BY <1>1 DEF Most, SI!Max

LEMMA RatiosAreNumbers ==
    ASSUME NEW q, NEW ladder, QuotesTyped(q), DepthTyped(ladder),
           NEW i \in DOMAIN SI!Liquidity(q, ladder)
    PROVE  i \in DOMAIN SI!Normal /\ SI!Liquidity(q, ladder)[i].ratio \in Int
<1>1. i \in SI!LiquidityIds /\ i \in DOMAIN SI!Normal
  BY DEF SI!Liquidity, SI!LiquidityIds
<1>2. SI!Normal[i] \in Nat \ {0}
  BY <1>1 DEF SI!Normal
<1>3. i \in DOMAIN q => SI!RowSpread(q, ladder, i) \in Int
  BY DEF SI!RowSpread, QuotesTyped, DepthTyped
<1>4. \A spread \in Int : (100 * spread) \div SI!Normal[i] \in Int
  BY <1>2
<1>. QED
  BY <1>1, <1>3, <1>4 DEF SI!Liquidity

LEMMA ConfirmationsAre ==
    ASSUME NEW q, NEW ladder, QuotesTyped(q), DepthTyped(ladder)
    PROVE  LET C == SI!Confirmations(q, SI!Liquidity(q, ladder))
           IN /\ \A c \in C : /\ c.points \in Int /\ c.points > 0
                              /\ c.id # "VIX" => c.points <= 2200
                              /\ c.id \in Confirming
              /\ OneEach(C)
<1>. DEFINE liq == SI!Liquidity(q, ladder)
            C == SI!Confirmations(q, liq)
            F(i) == SI!Fall(q, i)
            V(c) == c = [id |-> "VIX", dim |-> "volatility", points |-> -2 * F("VIX")] /\ F("VIX") < 0
            Q(c, i) == /\ i \in {"SPY", "QQQ"} /\ F(i) >= 100
                       /\ c = [id |-> i, dim |-> "equity", points |-> Least(5 * F(i), 2200)]
            H(c) == /\ F("HYG") >= 75
                    /\ c = [id |-> "HYG", dim |-> "credit", points |-> Least(7 * F("HYG"), 1800)]
            X(c, i) == /\ i \in {"TLT", "UUP", "USO", "GLD"} /\ SI!Abs(F(i)) >= 100
                       /\ c = [id |-> i, dim |-> "cross",
                               points |-> Least(3 * SI!Abs(F(i)), 1200)]
            L(c, i) == /\ i \in DOMAIN liq
                       /\ c = [id |-> i, dim |-> "liquidity",
                               points |-> Least(800 + 3 * Most(0, liq[i].ratio - 100), 2200)]
<1>1. \A c \in C : \/ V(c) \/ H(c)
                   \/ \E i : Q(c, i) \/ X(c, i) \/ L(c, i)
  <2>. DEFINE
        PV == {[id |-> "VIX", dim |-> "volatility", points |-> -2 * F("VIX")] :
                    i \in {i \in {"VIX"} : F(i) < 0}}
        PQ == {[id |-> i, dim |-> "equity", points |-> Least(5 * F(i), 2200)] :
                    i \in {i \in {"SPY", "QQQ"} : F(i) >= 100}}
        PH == {[id |-> i, dim |-> "credit", points |-> Least(7 * F(i), 1800)] :
                    i \in {i \in {"HYG"} : F(i) >= 75}}
        PX == {[id |-> i, dim |-> "cross", points |-> Least(3 * SI!Abs(F(i)), 1200)] :
                    i \in {i \in {"TLT", "UUP", "USO", "GLD"} : SI!Abs(F(i)) >= 100}}
        PL == {[id |-> i, dim |-> "liquidity",
                points |-> Least(800 + 3 * Most(0, liq[i].ratio - 100), 2200)] :
                    i \in SI!Stressed(liq)}
  <2>1. C = PV \cup PQ \cup PH \cup PX \cup PL
    BY Zenon DEF SI!Confirmations, SI!EquityPoints, Least, Most
  <2>. HIDE DEF C, F, liq
  <2>2. \A c \in PV : V(c)
    OBVIOUS
  <2>3. \A c \in PQ : \E i : Q(c, i)
    OBVIOUS
  <2>4. \A c \in PH : H(c)
    OBVIOUS
  <2>5. \A c \in PX : \E i : X(c, i)
    OBVIOUS
  <2>6. \A c \in PL : \E i : L(c, i)
    BY DEF SI!Stressed
  <2>. HIDE DEF PV, PQ, PH, PX, PL, V, Q, H, X, L
  <2>. QED
    BY <2>1, <2>2, <2>3, <2>4, <2>5, <2>6
<1>2. \A i : F(i) \in Int /\ SI!Abs(F(i)) \in Int
  BY DEF SI!Fall, SI!Abs, QuotesTyped
<1>. HIDE DEF C, F, liq
<1>3. ASSUME NEW c, V(c) PROVE c.points \in Int /\ c.points > 0 /\ c.id = "VIX" /\ c.dim = "volatility"
  BY <1>2, <1>3
<1>4. ASSUME NEW c, H(c)
      PROVE c.points \in Int /\ c.points > 0 /\ c.points <= 2200 /\ c.id = "HYG" /\ c.dim = "credit"
  <2>1. Least(7 * F("HYG"), 1800) \in {7 * F("HYG"), 1800} /\ Least(7 * F("HYG"), 1800) <= 1800
    BY <1>2, LeastOfTwo
  <2>. QED
    BY <1>2, <1>4, <2>1
<1>5. ASSUME NEW c, NEW i, Q(c, i)
      PROVE c.points \in Int /\ c.points > 0 /\ c.points <= 2200
            /\ c.id = i /\ i \in {"SPY", "QQQ"} /\ c.dim = "equity"
  <2>1. PICK x \in Int : x = 5 * F(i)
    BY <1>2
  <2>2. Least(x, 2200) \in {x, 2200} /\ Least(x, 2200) <= 2200
    BY LeastOfTwo
  <2>. QED
    BY <1>2, <1>5, <2>1, <2>2
<1>6. ASSUME NEW c, NEW i, X(c, i)
      PROVE c.points \in Int /\ c.points > 0 /\ c.points <= 2200
            /\ c.id = i /\ i \in {"TLT", "UUP", "USO", "GLD"} /\ c.dim = "cross"
  <2>1. PICK x \in Int : x = 3 * SI!Abs(F(i))
    BY <1>2
  <2>2. Least(x, 1200) \in {x, 1200} /\ Least(x, 1200) <= 1200
    BY LeastOfTwo
  <2>. QED
    BY <1>2, <1>6, <2>1, <2>2
<1>7. ASSUME NEW c, NEW i, L(c, i)
      PROVE c.points \in Int /\ c.points > 0 /\ c.points <= 2200
            /\ c.id = i /\ i \in DOMAIN SI!Normal /\ c.dim = "liquidity"
  <2>1. i \in DOMAIN SI!Normal /\ liq[i].ratio \in Int
    BY <1>7, RatiosAreNumbers DEF liq
  <2>2. PICK x : x = Most(0, liq[i].ratio - 100)
    OBVIOUS
  <2>3. x \in Int /\ x >= 0
    <3>1. PICK r \in Int : r = liq[i].ratio - 100
      BY <2>1
    <3>2. Most(0, r) \in Int /\ Most(0, r) >= 0
      BY MostOfTwo
    <3>. QED
      BY <2>2, <3>1, <3>2
  <2>4. PICK y \in Int : y = 800 + 3 * x /\ y > 0
    BY <2>3
  <2>5. Least(y, 2200) \in {y, 2200} /\ Least(y, 2200) <= 2200
    BY LeastOfTwo
  <2>6. c.id = i /\ c.dim = "liquidity" /\ c.points = Least(y, 2200)
    BY <1>7, <2>2, <2>4
  <2>. QED
    BY <2>1, <2>4, <2>5, <2>6
<1>8. ASSUME NEW c \in C
      PROVE  /\ c.points \in Int /\ c.points > 0 /\ (c.id # "VIX" => c.points <= 2200)
             /\ c.id \in Confirming
  <2>1. DOMAIN SI!Normal \subseteq Confirming
    BY DEF SI!Normal, Confirming
  <2>2. {"VIX", "HYG", "SPY", "QQQ", "TLT", "UUP", "USO", "GLD"} \subseteq Confirming
    BY DEF Confirming
  <2>. HIDE DEF V, H, Q, X, L
  <2>. QED
    BY <1>1, <1>3, <1>4, <1>5, <1>6, <1>7, <2>1, <2>2
<1>9. ASSUME NEW c \in C, NEW d \in C, c.id = d.id, Source(c) = Source(d)
      PROVE  c = d
  <2>1. CASE c.dim = "liquidity"
    <3>. PICK i : i = c.id
      OBVIOUS
    <3>1. L(c, i) /\ L(d, i)
      <4>. HIDE DEF V, H, Q, X, L
      <4>. QED
        BY <1>1, <1>3, <1>4, <1>5, <1>6, <1>7, <1>9, <2>1 DEF Source
    <3>. QED
      BY <3>1, Zenon
  <2>2. CASE c.dim # "liquidity"
    <3>. PICK i : i = c.id
      OBVIOUS
    <3>1. \/ V(c) /\ V(d)
          \/ H(c) /\ H(d)
          \/ Q(c, i) /\ Q(d, i)
          \/ X(c, i) /\ X(d, i)
      <4>. HIDE DEF V, H, Q, X, L
      <4>. QED
        BY <1>1, <1>3, <1>4, <1>5, <1>6, <1>7, <1>9, <2>2 DEF Source
    <3>2. CASE V(c) /\ V(d)
      BY <3>2, Zenon
    <3>3. CASE H(c) /\ H(d)
      BY <3>3
    <3>4. CASE Q(c, i) /\ Q(d, i)
      BY <3>4, Zenon
    <3>5. CASE X(c, i) /\ X(d, i)
      BY <3>5, Zenon
    <3>. QED
      BY <3>1, <3>2, <3>3, <3>4, <3>5
  <2>. QED
    BY <2>1, <2>2
<1>. QED
  BY <1>8, <1>9 DEF C, liq, OneEach

LEMMA ConfirmingIsFinite == IsFiniteSet(Confirming)
<1>. DEFINE A == {"VIX", "SPY", "QQQ", "IWM", "TLT"}
            B == {"HYG", "LQD", "UUP", "USO", "GLD"}
            five(a, b, c, d, e) == [k \in 1 .. 5 |-> <<a, b, c, d, e>>[k]]
<1>1. IsFiniteSet(1 .. 5)
  <2>1. PICK one \in Int, n \in Int : one = 1 /\ n = 5
    OBVIOUS
  <2>2. IsFiniteSet(one .. n)
    BY FS_Interval
  <2>. QED
    BY <2>1, <2>2
<1>2. five("VIX", "SPY", "QQQ", "IWM", "TLT") \in Surjection(1 .. 5, A)
  <2>. SUFFICES \A x \in A : \E k \in 1 .. 5 : x = five("VIX", "SPY", "QQQ", "IWM", "TLT")[k]
    BY DEF Surjection
  <2>. QED
    OBVIOUS
<1>3. five("HYG", "LQD", "UUP", "USO", "GLD") \in Surjection(1 .. 5, B)
  <2>. SUFFICES \A x \in B : \E k \in 1 .. 5 : x = five("HYG", "LQD", "UUP", "USO", "GLD")[k]
    BY DEF Surjection
  <2>. QED
    OBVIOUS
<1>4. IsFiniteSet(A) /\ IsFiniteSet(B)
  <2>. HIDE DEF A, B, five
  <2>. QED
    BY <1>1, <1>2, <1>3, FS_Surjection
<1>5. Confirming = A \cup B
  BY DEF Confirming
<1>. HIDE DEF A, B
<1>. QED
  BY <1>4, <1>5, FS_Union

(* Two confirmations other than the VIX are 4400 points at most, and an     *)
(* instrument has no third.                                                 *)
LEMMA TwoOfEach ==
    ASSUME NEW C, OneEach(C), NEW x \in C, NEW y \in C, NEW z \in C, x # y, x # z, y # z
    PROVE  ~(x.id = y.id /\ x.id = z.id)
<1>. SUFFICES ASSUME x.id = y.id, x.id = z.id PROVE FALSE
  OBVIOUS
<1>1. Source(x) # Source(y)
  BY DEF OneEach
<1>2. Source(x) # Source(z)
  BY DEF OneEach
<1>3. Source(y) # Source(z)
  BY DEF OneEach
<1>. QED
  BY <1>1, <1>2, <1>3 DEF Source

LEMMA OneLess ==
    ASSUME NEW S, IsFiniteSet(S), NEW f, \A c \in S : f[c] \in Int /\ f[c] <= 2200,
           SumFunctionOnSet(f, S) > 0
    PROVE  \E x, T : /\ x \in S /\ x \notin T /\ T \subseteq S /\ IsFiniteSet(T)
                     /\ SumFunctionOnSet(f, T) \in Int
                     /\ SumFunctionOnSet(f, T) >= SumFunctionOnSet(f, S) - 2200
<1>1. PICK x \in S : TRUE
  BY SumOfNone
<1>. DEFINE T == S \ {x}
<1>2. SumFunctionOnSet(f, S) = SumFunctionOnSet(f, T) + f[x] /\ SumFunctionOnSet(f, T) \in Int
  BY SumWithout
<1>3. IsFiniteSet(T) /\ T \subseteq S /\ x \notin T
  BY FS_Subset
<1>. HIDE DEF T
<1>4. SumFunctionOnSet(f, T) >= SumFunctionOnSet(f, S) - 2200
  BY <1>2
<1>. QED
  BY <1>2, <1>3, <1>4

LEMMA EvidenceSuffices ==
    ASSUME NEW C, IsFiniteSet(C), NEW f,
           \A c \in C : f[c] \in Int /\ f[c] <= 2200,
           OneEach(C),
           SumFunctionOnSet(f, C) >= 5500
    PROVE  \E x, y, z \in C : /\ x # y /\ x # z /\ y # z
                              /\ \E v, w \in {x, y, z} : v.id # w.id
<1>0. SumFunctionOnSet(f, C) \in Int
  BY SumIsNumber
<1>1. PICK x, B : /\ x \in C /\ x \notin B /\ B \subseteq C /\ IsFiniteSet(B)
                  /\ SumFunctionOnSet(f, B) \in Int
                  /\ SumFunctionOnSet(f, B) >= SumFunctionOnSet(f, C) - 2200
  BY <1>0, OneLess
<1>2. SumFunctionOnSet(f, B) >= 3300
  BY <1>0, <1>1
<1>3. PICK y, A : /\ y \in B /\ y \notin A /\ A \subseteq B
                  /\ SumFunctionOnSet(f, A) \in Int
                  /\ SumFunctionOnSet(f, A) >= SumFunctionOnSet(f, B) - 2200
  <2>1. \A c \in B : f[c] \in Int /\ f[c] <= 2200
    BY <1>1
  <2>2. SumFunctionOnSet(f, B) > 0
    BY <1>1, <1>2
  <2>. QED
    BY <1>1, <2>1, <2>2, OneLess
<1>4. SumFunctionOnSet(f, A) >= 1100
  BY <1>1, <1>2, <1>3
<1>5. PICK z \in A : TRUE
  BY <1>4, SumOfNone
<1>6. y \in C /\ z \in C /\ x # y /\ x # z /\ y # z
  BY <1>1, <1>3, <1>5
<1>7. ~(x.id = y.id /\ x.id = z.id)
  BY <1>1, <1>6, TwoOfEach
<1>. QED
  BY <1>1, <1>6, <1>7

LEMMA Pair ==
    ASSUME NEW x, NEW y, x # y
    PROVE  IsFiniteSet({x, y}) /\ Cardinality({x, y}) = 2
<1>1. PICK S : S = {x}
  BY Zenon
<1>2. IsFiniteSet(S) /\ Cardinality(S) = 1 /\ y \notin S
  BY <1>1, FS_Singleton, Zenon
<1>3. IsFiniteSet(S \cup {y}) /\ Cardinality(S \cup {y}) = 2
  BY <1>2, FS_AddElement
<1>4. S \cup {y} = {x, y}
  BY <1>1
<1>. QED
  BY <1>3, <1>4, Zenon

LEMMA Triple ==
    ASSUME NEW x, NEW y, NEW z, x # y, x # z, y # z
    PROVE  Cardinality({x, y, z}) = 3
<1>1. PICK S : S = {x, y}
  BY Zenon
<1>2. IsFiniteSet(S) /\ Cardinality(S) = 2 /\ z \notin S
  BY <1>1, Pair, Zenon
<1>3. Cardinality(S \cup {z}) = 3
  BY <1>2, FS_AddElement
<1>4. S \cup {z} = {x, y, z}
  BY <1>1
<1>. QED
  BY <1>3, <1>4, Zenon

LEMMA ShocksHaveEvidence ==
    ASSUME NEW q, NEW ladder, QuotesTyped(q), DepthTyped(ladder),
           SI!TriggersShock(q, SI!Liquidity(q, ladder))
    PROVE  LET evidence == SI!Evidence(q, SI!Liquidity(q, ladder))
           IN \/ \E c \in evidence : c.id = "VIX"
              \/ Cardinality(evidence) >= 3 /\ Cardinality({c.id : c \in evidence}) >= 2
<1>. DEFINE liq == SI!Liquidity(q, ladder)
            C == SI!Confirmations(q, liq)
            ids == {c.id : c \in C}
            f == [c \in C |-> c.points]
<1>1. /\ \A c \in C : /\ c.points \in Int /\ c.points > 0
                      /\ c.id # "VIX" => c.points <= 2200
                      /\ c.id \in Confirming
      /\ OneEach(C)
  BY ConfirmationsAre
<1>2. SI!Evidence(q, liq) = C
  <2>1. SI!Evidence(q, liq) = {c \in C : c.points > 0}
    BY DEF SI!Evidence
  <2>. HIDE DEF C
  <2>. QED
    BY <2>1, <1>1
<1>3. SI!Score(q, liq) = Least(10000, SumFunctionOnSet(f, C))
  BY ScoreIsSum
<1>4. PICK r : r = SI!Score(q, liq) /\ (r >= 8000 \/ r >= 5500)
  <2>. HIDE DEF C
  <2>1. PICK r : r = SI!Score(q, liq)
    OBVIOUS
  <2>2. SI!State(r) \in {"shock", "critical"}
    BY <2>1, Zenon DEF SI!TriggersShock
  <2>. QED
    BY <2>1, <2>2 DEF SI!State
<1>. HIDE DEF C, liq
<1>5. IsFiniteSet(ids) /\ IsFiniteSet(C)
  <2>. DEFINE g == [c \in C |-> <<c.id, Source(c)>>]
  <2>1. IsFiniteSet(Confirming \X (0 .. 1))
    <3>1. PICK zero \in Int, one \in Int : zero = 0 /\ one = 1
      OBVIOUS
    <3>2. IsFiniteSet(zero .. one)
      BY FS_Interval
    <3>. QED
      BY <3>1, <3>2, ConfirmingIsFinite, FS_Product
  <2>2. g \in Injection(C, Confirming \X (0 .. 1))
    <3>1. \A c \in C : c.id \in Confirming /\ Source(c) \in 0 .. 1
      BY <1>1 DEF Source
    <3>2. \A c, d \in C : g[c] = g[d] => c = d
      BY <1>1 DEF OneEach
    <3>3. g \in [C -> Confirming \X (0 .. 1)]
      BY <3>1
    <3>. HIDE DEF g
    <3>. QED
      BY <3>2, <3>3 DEF Injection, IsInjective
  <2>3. ids \subseteq Confirming
    BY <1>1
  <2>. QED
    BY <2>1, <2>2, <2>3, ConfirmingIsFinite, FS_Injection, FS_Subset
<1>6. CASE \E c \in C : c.id = "VIX"
  BY <1>2, <1>6 DEF liq
<1>7. CASE \A c \in C : c.id # "VIX"
  <2>1. \A c \in C : c.points \in Int /\ c.points <= 2200
    BY <1>1, <1>7
  <2>2. SumFunctionOnSet(f, C) \in Int
    <3>1. \A c \in C : f[c] \in Int
      BY <2>1
    <3>. QED
      BY <1>5, <3>1, SumIsNumber
  <2>3. SumFunctionOnSet(f, C) >= 5500
    <3>1. PICK s \in Int : s = SumFunctionOnSet(f, C)
      BY <2>2
    <3>2. Least(10000, s) \in Int /\ Least(10000, s) <= s
      BY LeastOfTwo
    <3>3. Least(10000, s) >= 5500
      <4>. HIDE DEF f
      <4>1. r = Least(10000, s)
        BY <1>3, <1>4, <3>1
      <4>. QED
        BY <1>4, <4>1, <3>2
    <3>. QED
      BY <3>1, <3>2, <3>3
  <2>4. PICK a, b, c : /\ a \in C /\ b \in C /\ c \in C /\ a # b /\ a # c /\ b # c
                       /\ \E x, y \in {a, b, c} : x.id # y.id
    <3>1. \A c \in C : f[c] \in Int /\ f[c] <= 2200
      BY <2>1
    <3>. HIDE DEF f
    <3>. QED
      BY <1>1, <1>5, <2>3, <3>1, EvidenceSuffices
  <2>5. Cardinality(C) >= 3
    <3>1. {a, b, c} \subseteq C /\ Cardinality({a, b, c}) = 3
      BY <2>4, Triple
    <3>. QED
      BY <3>1, <1>5, FS_Subset, FS_CardinalityType
  <2>6. Cardinality(ids) >= 2
    <3>1. PICK x, y : x # y /\ x \in ids /\ y \in ids
      BY <2>4
    <3>2. {x, y} \subseteq ids /\ Cardinality({x, y}) = 2
      BY <3>1, Pair
    <3>. QED
      BY <3>1, <3>2, <1>5, FS_Subset, FS_CardinalityType
  <2>. QED
    BY <1>2, <2>5, <2>6 DEF liq
<1>. QED
  BY <1>6, <1>7

Founded(c) ==
    c.alarm =>
        LET evidence == SI!Evidence(c.quotes, c.liquidity)
        IN \/ \E e \in evidence : e.id = "VIX"
           \/ Cardinality(evidence) >= 3 /\ Cardinality({e.id : e \in evidence}) >= 2

AlarmSafe ==
    /\ QuotesTyped(sQuotes) /\ DepthTyped(depth)
    /\ \A k \in DOMAIN cards : Founded(cards[k])

LEMMA ShocksAreNumbers ==
    /\ \A move \in ShockDays : \A i \in Instruments : move[i] \in Int
    /\ \A s \in Spreads : s \in Int
<1>1. \A move \in ShockDays : \A i \in Instruments : move[i] \in Int
  BY ShockAssumption, Zenon
<1>2. \A s \in Spreads : s \in Nat
  BY ShockAssumption, Zenon
<1>. QED
  BY <1>1, <1>2

LEMMA QuotesStayTyped ==
    ASSUME NEW ids, ids \subseteq Instruments, QuotesTyped(sQuotes), SI!FetchQuotes(ids)
    PROVE  QuotesTyped(sQuotes)'
<1>1. CASE sQuotes' = sQuotes
  BY <1>1 DEF QuotesTyped
<1>2. CASE sQuotes' # sQuotes
  <2>0. PICK lacking : lacking = SI!Missing(ids, sFetched.quotes, sQuotes) /\ lacking \subseteq Instruments
    BY DEF SI!Missing
  <2>1. PICK move \in ShockDays :
            \E yahoo \in SI!YahooQuotes(lacking, move), broker \in SI!BrokerQuotes(lacking, move) :
                sQuotes' = SI!Merge(sQuotes, SI!Overlay(yahoo, broker))
    BY <1>2, <2>0, Zenon DEF SI!FetchQuotes
  <2>2. PICK yahoo, broker :
            /\ yahoo \in SI!YahooQuotes(lacking, move)
            /\ broker \in SI!BrokerQuotes(lacking, move)
            /\ sQuotes' = SI!Merge(sQuotes, SI!Overlay(yahoo, broker))
    BY <2>1, Zenon
  <2>3. /\ DOMAIN yahoo \subseteq Instruments
        /\ \A i \in DOMAIN yahoo : yahoo[i].pct \in Int /\ yahoo[i].spread \in Int
    <3>1. PICK some \in SUBSET lacking : yahoo = [i \in some |-> [pct |-> move[i], spread |-> 0]]
      BY <2>2, Zenon DEF SI!YahooQuotes
    <3>. QED
      BY <2>0, <3>1, ShocksAreNumbers
  <2>4. /\ DOMAIN broker \subseteq Instruments
        /\ \A i \in DOMAIN broker : broker[i].pct \in Int /\ broker[i].spread \in Int
    <3>. DEFINE row(some, noClose, s) ==
                    [i \in some |-> [pct |-> IF i \in noClose THEN 0 ELSE move[i], spread |-> s[i]]]
                Of(some) == {row(some, noClose, s) : noClose \in SUBSET some, s \in [some -> Spreads]}
    <3>0. SI!BrokerQuotes(lacking, move) =
            UNION {Of(some) : some \in SUBSET (lacking \cap SI!BrokerIds)}
      BY DEF SI!BrokerQuotes
    <3>. HIDE DEF row
    <3>1. PICK some \in SUBSET (lacking \cap SI!BrokerIds) : broker \in Of(some)
      <4>. HIDE DEF Of
      <4>. QED
        BY <2>2, <3>0
    <3>2. PICK noClose \in SUBSET some, s \in [some -> Spreads] : broker = row(some, noClose, s)
      BY <3>1
    <3>. HIDE DEF Of
    <3>. USE DEF row
    <3>3. \A i \in some : i \in Instruments /\ s[i] \in Spreads
      BY <2>0
    <3>4. \A i \in some : move[i] \in Int /\ s[i] \in Int
      BY <3>3, ShocksAreNumbers
    <3>5. DOMAIN broker = some
      BY <3>2
    <3>6. \A i \in some : broker[i].pct \in {0, move[i]} /\ broker[i].spread = s[i]
      BY <3>2
    <3>. QED
      BY <3>3, <3>4, <3>5, <3>6
  <2>5. PICK new : new = SI!Overlay(yahoo, broker)
    BY Zenon
  <2>6. /\ DOMAIN new \subseteq Instruments
        /\ \A i \in DOMAIN new : new[i].pct \in Int /\ new[i].spread \in Int
    BY <2>3, <2>4, <2>5 DEF SI!Overlay
  <2>7. sQuotes' = [i \in DOMAIN sQuotes \cup DOMAIN new |->
                        IF i \in DOMAIN new THEN new[i] ELSE sQuotes[i]]
    BY <2>2, <2>5, Zenon DEF SI!Merge, SI!Overlay
  <2>. QED
    BY <2>6, <2>7 DEF QuotesTyped
<1>. QED
  BY <1>1, <1>2

LEMMA DepthStaysTyped ==
    ASSUME NEW ids, DepthTyped(depth), SI!FetchDepth(ids)
    PROVE  DepthTyped(depth)'
<1>1. CASE depth' = depth
  BY <1>1 DEF DepthTyped
<1>2. CASE depth' # depth
  <2>0. PICK some : \E ladder \in [some -> Spreads] : depth' = SI!Merge(depth, ladder)
    BY <1>2, Zenon DEF SI!FetchDepth
  <2>1. PICK ladder \in [some -> Spreads] : depth' = SI!Merge(depth, ladder)
    BY <2>0, Zenon
  <2>2. \A i \in DOMAIN ladder : ladder[i] \in Int
    <3>1. \A i \in DOMAIN ladder : ladder[i] \in Spreads
      OBVIOUS
    <3>. QED
      BY <3>1, ShocksAreNumbers
  <2>3. depth' = [i \in DOMAIN depth \cup DOMAIN ladder |->
                        IF i \in DOMAIN ladder THEN ladder[i] ELSE depth[i]]
    BY <2>1, Zenon DEF SI!Merge, SI!Overlay
  <2>. QED
    BY <2>2, <2>3 DEF DepthTyped
<1>. QED
  BY <1>1, <1>2

LEMMA SameCount == \A S : SI!Cardinality(S) = Cardinality(S)
BY Zenon DEF SI!Cardinality, Cardinality

LEMMA AlarmStep ==
    ASSUME BundleShapes, AlarmSafe, NEW served, SI!Serve(served)
    PROVE  AlarmSafe'
<1>. DEFINE need == SI!Needs(served)
<1>1. QuotesTyped(sQuotes)' /\ DepthTyped(depth)'
  <2>1. need.quotes \subseteq Instruments /\ SI!FetchQuotes(need.quotes) /\ SI!FetchDepth(need.depth)
    BY DEF SI!Serve, SI!Needs, SI!LiquidityIds
  <2>. HIDE DEF need
  <2>. QED
    BY <2>1, QuotesStayTyped, DepthStaysTyped DEF AlarmSafe
<1>2. PICK new : /\ cards' = Append(cards, new)
                 /\ new.quotes = [i \in need.quotes \cap DOMAIN sQuotes' |-> sQuotes'[i]]
                 /\ new.liquidity = IF need.depth = {} THEN <<>> ELSE SI!Liquidity(sQuotes', depth')
                 /\ new.alarm = (served = "regime"
                                 /\ SI!TriggersShock(sQuotes', SI!Liquidity(sQuotes', depth')))
  <2>. DEFINE alarmed == served = "regime"
                         /\ SI!TriggersShock(sQuotes', SI!Liquidity(sQuotes', depth'))
              Card(prints, analogs, warning) ==
                [card |-> served,
                 quotes |-> [i \in need.quotes \cap DOMAIN sQuotes' |-> sQuotes'[i]],
                 liquidity |-> IF need.depth = {} THEN <<>> ELSE SI!Liquidity(sQuotes', depth'),
                 alarm |-> alarmed, prints |-> prints, analogs |-> analogs, warned |-> warning]
  <2>1. \E prints, analogs, warning : cards' = Append(cards, Card(prints, analogs, warning))
    BY Zenon DEF SI!Serve
  <2>. HIDE DEF need, alarmed
  <2>2. PICK prints, analogs, warning : cards' = Append(cards, Card(prints, analogs, warning))
    BY <2>1, Zenon
  <2>3. PICK new : new = Card(prints, analogs, warning)
    BY Zenon
  <2>4. /\ new.quotes = [i \in need.quotes \cap DOMAIN sQuotes' |-> sQuotes'[i]]
        /\ new.liquidity = IF need.depth = {} THEN <<>> ELSE SI!Liquidity(sQuotes', depth')
    BY <2>3
  <2>5. new.alarm = alarmed
    BY <2>3, Zenon
  <2>6. cards' = Append(cards, new)
    BY <2>2, <2>3, Zenon
  <2>. QED
    BY <2>4, <2>5, <2>6, Zenon DEF alarmed
<1>3. Founded(new)
  <2>. SUFFICES ASSUME new.alarm PROVE Founded(new)
    BY DEF Founded
  <2>1. served = "regime" /\ SI!TriggersShock(sQuotes', SI!Liquidity(sQuotes', depth'))
    BY <1>2, Zenon
  <2>2. need.quotes = Instruments /\ need.depth = SI!LiquidityIds
    BY <2>1 DEF SI!Needs
  <2>. HIDE DEF need
  <2>3. new.quotes = sQuotes'
    BY <1>1, <1>2, <2>2 DEF QuotesTyped
  <2>4. new.liquidity = SI!Liquidity(sQuotes', depth')
    <3>1. CASE need.depth = {}
      <4>1. new.liquidity = <<>>
        BY <1>2, <3>1
      <4>2. SI!LiquidityIds = {}
        BY <2>2, <3>1
      <4>3. SI!Liquidity(sQuotes', depth') = <<>>
        BY <4>2 DEF SI!Liquidity
      <4>. QED
        BY <4>1, <4>3
    <3>2. CASE need.depth # {}
      BY <1>2, <3>2
    <3>. QED
      BY <3>1, <3>2
  <2>5. PICK q, ladder : q = sQuotes' /\ ladder = depth'
    BY Zenon
  <2>6. QuotesTyped(q) /\ DepthTyped(ladder)
    BY <1>1, <2>5 DEF QuotesTyped, DepthTyped
  <2>7. SI!TriggersShock(q, SI!Liquidity(q, ladder))
    BY <2>1, <2>5, Zenon
  <2>8. new.quotes = q /\ new.liquidity = SI!Liquidity(q, ladder)
    BY <2>3, <2>4, <2>5, Zenon
  <2>. QED
    BY <2>6, <2>7, <2>8, ShocksHaveEvidence, Zenon DEF Founded
<1>4. /\ Len(cards) \in Nat /\ DOMAIN cards = 1 .. Len(cards)
      /\ DOMAIN cards' = 1 .. (Len(cards) + 1) /\ cards'[Len(cards) + 1] = new
      /\ \A k \in DOMAIN cards : cards'[k] = cards[k]
  BY <1>2 DEF BundleShapes
<1>5. \A k \in DOMAIN cards' : Founded(cards'[k])
  <2>. SUFFICES ASSUME NEW k \in DOMAIN cards' PROVE Founded(cards'[k])
    OBVIOUS
  <2>1. PICK c : c = cards'[k]
    BY Zenon
  <2>2. c = new \/ Founded(c)
    BY <1>4, <2>1 DEF AlarmSafe
  <2>. QED
    BY <1>3, <2>1, <2>2, Zenon
<1>. QED
  BY <1>1, <1>5 DEF AlarmSafe, Founded

(* An alarm takes over the view of the console only when the VIX rises or   *)
(* three confirmations of at least two instruments speak for it, whatever   *)
(* the prices are and whichever of them are missing, and all cards of the   *)
(* bundle show the same quote and the same liquidity of an instrument, and  *)
(* a failure of the quotes on all that follow, whatever the calls bring     *)
(* (internal/shockintel: regime.go, market_cache.go).                       *)
THEOREM AlarmsNeedTheirEvidence == ServicesSpec => []AlarmsAreFounded
<1>1. ServicesInit => AlarmSafe
  <2>. SUFFICES ASSUME ServicesInit PROVE AlarmSafe
    OBVIOUS
  <2>1. SI!Init
    BY Zenon DEF ServicesInit, NoCards
  <2>2. sQuotes = <<>> /\ depth = <<>> /\ cards = <<>>
    BY <2>1, Zenon DEF SI!Init
  <2>. QED
    BY <2>2 DEF AlarmSafe, QuotesTyped, DepthTyped
<1>2. BundleSafe /\ AlarmSafe /\ [ServicesNext]_allVars => AlarmSafe'
  <2>. SUFFICES ASSUME BundleSafe, AlarmSafe, [ServicesNext]_allVars PROVE AlarmSafe'
    OBVIOUS
  <2>1. [SI!Next]_sVars
    BY Zenon DEF ServicesNext, Fetching, Caching, Migrating, ShuttingDown, Viewing, Loading,
       Alarming, Reporting, Weighing, Analysing, allVars
  <2>2. CASE UNCHANGED sVars
    BY <2>2 DEF sVars, AlarmSafe, QuotesTyped, DepthTyped, Founded
  <2>3. CASE SI!Serve(Head(todo))
    <3>1. PICK served : served = Head(todo)
      OBVIOUS
    <3>. QED
      BY <2>3, <3>1, AlarmStep, Zenon DEF BundleSafe
  <2>. QED
    BY <2>1, <2>2, <2>3, Zenon DEF SI!Next, SI!ServeNext
<1>3. AlarmSafe => SI!AlarmsNeedEvidence
  <2>. SUFFICES ASSUME AlarmSafe, NEW k \in DOMAIN cards, cards[k].alarm
                PROVE  LET evidence == SI!Evidence(cards[k].quotes, cards[k].liquidity)
                       IN \/ \E e \in evidence : e.id = "VIX"
                          \/ Cardinality(evidence) >= 3 /\ Cardinality({e.id : e \in evidence}) >= 2
    BY SameCount, Zenon DEF SI!AlarmsNeedEvidence
  <2>1. Founded(cards[k])
    BY DEF AlarmSafe
  <2>. QED
    BY <2>1, Zenon DEF Founded
<1>4. BundleSafe => SI!CardsAgree
  BY DEF BundleSafe, Shows, ShowsQuotes, ShowsLiquidity, SI!CardsAgree
<1>5. SI!AlarmsNeedEvidence /\ SI!CardsAgree => AlarmsAreFounded
  BY Zenon DEF AlarmsAreFounded
<1>. QED
  BY <1>1, <1>2, <1>3, <1>4, <1>5, BundlesStaySafe, PTL DEF ServicesSpec

-----------------------------------------------------------------------------
(* The end of the server.  From the moment the context is cancelled there   *)
(* is a watchdog that is not through, or it is the next to be armed.        *)

WatchdogStands ==
    relay \in {"wait", "cancelled"} => main = "arming" \/ dog \in {"ctx", "arming", "watch"}

ShutdownSafe ==
    /\ WatchdogStands
    /\ main = "stopped" => dog = "stopped"
    /\ store = "closed" => exit = "signal" \/ (exit = "clean" /\ main = "returned")

LEMMA ShutdownStep ==
    ASSUME ShutdownSafe, [PS!Next]_xVars
    PROVE  ShutdownSafe'
<1>. USE DEF ShutdownSafe, WatchdogStands
<1>1. exit = "no" => store # "closed"
  OBVIOUS
<1>2. CASE exit = "no" /\ PS!Main
  <2>1. CASE PS!Suppress \/ PS!OpenStore \/ PS!Notify \/ PS!ArmWatchdog
    BY <2>1, <1>1, <1>2 DEF PS!Suppress, PS!OpenStore, PS!Notify, PS!ArmWatchdog, PS!Step
  <2>2. CASE PS!Drain \/ PS!PoolCloses
    BY <2>2, <1>1, <1>2 DEF PS!Drain, PS!PoolCloses, PS!Step
  <2>3. CASE PS!Unwind \/ PS!CommandReturns
    BY <2>3, <1>1, <1>2 DEF PS!Unwind, PS!CommandReturns, PS!Step
  <2>. QED
    BY <1>2, <2>1, <2>2, <2>3 DEF PS!Main
<1>3. CASE exit = "no" /\ (PS!RootTakes \/ PS!RootExits \/ PS!RefreshEnds \/ PS!BackgroundRefresh)
  BY <1>1, <1>3 DEF PS!RootTakes, PS!RootExits, PS!RefreshEnds, PS!BackgroundRefresh
<1>4. CASE exit = "no" /\ (PS!DogWakes \/ PS!DogBites \/ PS!Signal)
  BY <1>1, <1>4 DEF PS!DogWakes, PS!MayWake, PS!DogBites, PS!MayBite, PS!Signal
<1>5. CASE UNCHANGED xVars
  BY <1>5 DEF xVars
<1>. QED
  BY <1>2, <1>3, <1>4, <1>5 DEF PS!Next, PS!Own

(* A shutdown that has begun needs nobody: whatever signals come and        *)
(* whatever hangs, while the process lives the watchdog waits for the       *)
(* context that is cancelled, or wakes, or watches the deadline, or is      *)
(* armed next, and the store of a server is closed last (cli/server.go,     *)
(* cli/shutdown_watchdog.go).                                               *)
THEOREM ShutdownEnds == ServicesSpec => []ShutdownNeedsNobody
<1>1. ServicesInit => ShutdownSafe
  BY DEF ServicesInit, NoSignal, PS!Init, ShutdownSafe, WatchdogStands
<1>2. ShutdownSafe /\ [ServicesNext]_allVars => ShutdownSafe'
  <2>1. [ServicesNext]_allVars => [PS!Next]_xVars
    BY Zenon DEF ServicesNext, Fetching, Caching, Migrating, ShuttingDown, Viewing, Loading,
       Alarming, Reporting, Weighing, Analysing, allVars
  <2>. QED
    BY <2>1, ShutdownStep
<1>3. ShutdownSafe => PS!StepRemains
  BY DEF ShutdownSafe, WatchdogStands, PS!StepRemains, PS!MayWake, PS!MayBite, PS!Deadline
<1>4. ShutdownSafe => PS!ClosesInOrder
  BY DEF ShutdownSafe, PS!ClosesInOrder
<1>5. ShutdownSafe => ShutdownNeedsNobody
  BY <1>3, <1>4, Zenon DEF ShutdownNeedsNobody, PS!ShutdownNeedsNobody
<1>. QED
  BY <1>1, <1>2, <1>5, PTL DEF ServicesSpec

=============================================================================
