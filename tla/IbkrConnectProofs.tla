-------------------------- MODULE IbkrConnectProofs -------------------------
(***************************************************************************)
(* Proofs about IbkrConnect, for every choice of the times.                *)
(*                                                                         *)
(* What is left of the deadline is related to what the code waits for:     *)
(* while it dials or shakes hands, the reserve is untouched but for the    *)
(* time of the dial; the delay before a retry may cut into it once.        *)
(***************************************************************************)
EXTENDS IbkrConnect, ClientIDs, TLAPS

Finished == pc \in {"up", "closed"}

(* The budget, by place.                                                    *)
Budgeted ==
    /\ pc = "dial" => (bounded => left + dialled >= window + Reserve)
    /\ pc = "handshake" => (bounded => left + dialled >= timer + Reserve)
    /\ pc = "wait" => (bounded => left + dialled + RetryWait >= timer + Reserve)
    /\ pc \in {"next", "failed"} =>
          (bounded => left > 0 \/ dialled + RetryWait >= Reserve)

(* No result before Connect is over, and an error only with its cause.      *)
Answered ==
    /\ result = "none" <=> ~Finished
    /\ DeadlineFallsBack

(* A drop that is known, or on its way to the watcher, has happened.        *)
Dropped ==
    /\ dropMail => pc \in {"finish", "up", "closed"}
    /\ pc \in {"finish", "up"} /\ dropMail => open = {}
    /\ pc = "up" /\ ~connected => open = {}

IInv == TypeOK /\ Dropped /\ Budgeted /\ Answered /\ NoSessionLeft

-----------------------------------------------------------------------------
(* The window is cut from the budget, less the reserve.                     *)
LEMMA WindowBound ==
    ASSUME TypeOK, HandshakeWindow >= MinWindow
    PROVE  /\ HandshakeWindow \in 0 .. HandshakeTimeout
           /\ bounded => left >= HandshakeWindow + Reserve
BY TimesAssumption DEF TypeOK, HandshakeWindow, Window

(* The initial states satisfy the inductive invariant.                      *)
LEMMA InitIInv == Init => IInv
<1> SUFFICES ASSUME Init PROVE IInv
    OBVIOUS
<1> USE TimesAssumption DEF Init
<1>1. TypeOK
  <2>1. left \in 0 .. MaxBudget
    OBVIOUS
  <2>2. aborted \in BOOLEAN /\ connected \in BOOLEAN /\ dropMail \in BOOLEAN
    OBVIOUS
  <2> QED BY <2>1, <2>2 DEF TypeOK, MaxTimeoutRetries
<1>2. Budgeted
  BY DEF Budgeted
<1>3. Dropped /\ Answered /\ NoSessionLeft
  BY DEF Dropped, Answered, Finished, DeadlineFallsBack, NoSessionLeft
<1> QED BY <1>1, <1>2, <1>3 DEF IInv

(* Every step preserves it.                                                 *)
LEMMA StepIInv == IInv /\ [Next]_vars => IInv'
<1> SUFFICES ASSUME IInv, [Next]_vars PROVE IInv'
    OBVIOUS
<1> USE TimesAssumption DEF IInv, TypeOK, Dropped, Budgeted, Answered, Finished,
        DeadlineFallsBack, NoSessionLeft, MaxTimeoutRetries, ctx, loop, session
<1>1. CASE Abort
  BY <1>1 DEF Abort
<1>2. CASE StartAttempt
  BY <1>2, WindowBound DEF StartAttempt
<1>3. CASE NoAttempt
  BY <1>3 DEF NoAttempt
<1>4. CASE Dialling
  BY <1>4 DEF Dialling, Elapse
<1>5. CASE DialSucceeds
  BY <1>5 DEF DialSucceeds
<1>6. CASE DialFails
  BY <1>6 DEF DialFails
<1>7. CASE Waiting
  BY <1>7 DEF Waiting, Elapse
<1>8. CASE HandshakeDone
  BY <1>8 DEF HandshakeDone
<1>9. CASE HandshakeError
  BY <1>9 DEF HandshakeError, HangUp, Retry, GiveUp
<1>10. CASE HandshakeExpires
  BY <1>10 DEF HandshakeExpires, HangUp, Retry, GiveUp, MayRetryTimeout
<1>11. CASE HandshakeCancelled
  BY <1>11 DEF HandshakeCancelled, HangUp, GiveUp
<1>12. CASE RetryDelay
  BY <1>12 DEF RetryDelay, Elapse
<1>13. CASE RetryNow
  BY <1>13 DEF RetryNow
<1>14. CASE RetryCancelled
  BY <1>14 DEF RetryCancelled
<1>15. CASE FallBack
  BY <1>15 DEF FallBack, CtxDone
<1>16. CASE FinishConnect
  BY <1>16 DEF FinishConnect, KeepDropMail
<1>17. CASE GatewayAnswers
  BY <1>17 DEF GatewayAnswers, Reply
<1>18. CASE TcpDrops
  BY <1>18 DEF TcpDrops
<1>19. CASE WatchDisconnect
  BY <1>19 DEF WatchDisconnect
<1>20. CASE WatchCancelled
  <2>1. CASE UNCHANGED dropMail
    BY <1>20, <2>1 DEF WatchCancelled
  <2>2. CASE dropMail' = FALSE
    <3>1. /\ watcher' = "none" /\ dropMail' \in BOOLEAN
          /\ UNCHANGED <<gateway, last, ctx, pc, loop, open, result, connected>>
      BY <1>20, <2>2 DEF WatchCancelled
    <3>2. TypeOK'
      BY <3>1
    <3>3. Dropped'
      BY <3>1, <2>2
    <3>4. Budgeted' /\ Answered' /\ NoSessionLeft'
      BY <3>1
    <3> QED BY <3>2, <3>3, <3>4
  <2> QED BY <1>20, <2>1, <2>2 DEF WatchCancelled
<1>21. CASE Disconnect
  <2>1. CASE connected
    <3>1. dropMail' \in BOOLEAN
      BY <1>21, <2>1 DEF Disconnect
    <3> QED BY <1>21, <2>1, <3>1 DEF Disconnect
  <2>2. CASE ~connected
    BY <1>21, <2>2 DEF Disconnect
  <2> QED BY <2>1, <2>2
<1>22. CASE UNCHANGED vars
  BY <1>22 DEF vars
<1> QED
  BY <1>1, <1>2, <1>3, <1>4, <1>5, <1>6, <1>7, <1>8, <1>9, <1>10, <1>11, <1>12, <1>13, <1>14, <1>15, <1>16, <1>17, <1>18, <1>19, <1>20, <1>21, <1>22 DEF Next, ConnectStep

-----------------------------------------------------------------------------
(* Every variable keeps its type, whatever the times.                       *)
THEOREM TypeCorrect == Spec => []TypeOK
<1>1. IInv => TypeOK
  BY DEF IInv
<1> QED
  BY <1>1, InitIInv, StepIInv, PTL DEF Spec

(* For all timeouts with RetryWait < Reserve, whatever IB does: a deadline  *)
(* alone never keeps FallbackBroker.Connect from Yahoo Finance, as long as  *)
(* no dial takes the reserve less one delay.                                *)
THEOREM DeadlineAloneFallsBack == Spec => []DeadlineFallsBack
<1>1. IInv => DeadlineFallsBack
  BY DEF IInv, Answered
<1> QED
  BY <1>1, InitIInv, StepIInv, PTL DEF Spec

(* No attempt leaves its TCP connection behind.                             *)
THEOREM NoSessionIsLeft == Spec => []NoSessionLeft
<1>1. IInv => NoSessionLeft
  BY DEF IInv
<1> QED
  BY <1>1, InitIInv, StepIInv, PTL DEF Spec

-----------------------------------------------------------------------------
(* What the liveness of the connection rests on.                            *)

(* A drop that IsConnected does not tell yet has its message in the channel *)
(* and the watcher waiting for it, however early it came.                   *)
DropIsMailed ==
    pc = "up" /\ open = {} /\ connected => dropMail /\ watcher = "running"

(* From the handshake on the connection is open, or the message is there.   *)
Watched ==
    /\ pc = "handshake" => open = {attempt}
    /\ pc \notin {"up", "closed"} => watcher = "none"
    /\ pc = "up" /\ connected => watcher = "running"
    /\ pc = "finish" \/ (pc = "up" /\ connected) => open # {} \/ dropMail

LEMMA StepWatched ==
    ASSUME IInv, Watched, [Next]_vars
    PROVE  Watched'
<1>1. open \subseteq {attempt} /\ (pc \in {"next", "dial", "wait", "failed"} => open = {})
  BY DEF IInv, NoSessionLeft
<1> USE DEF Watched, ctx, loop, session
<1>2. CASE UNCHANGED vars
  BY <1>2 DEF vars
<1>3. CASE Abort
  BY <1>3 DEF Abort
<1>4. CASE StartAttempt \/ NoAttempt \/ Dialling \/ DialFails \/ RetryDelay \/ RetryNow
           \/ RetryCancelled \/ FallBack
  BY <1>1, <1>4 DEF StartAttempt, NoAttempt, Dialling, DialFails, RetryDelay, RetryNow,
     RetryCancelled, FallBack
<1>5. CASE DialSucceeds \/ Waiting \/ GatewayAnswers \/ HandshakeDone
  BY <1>1, <1>5 DEF DialSucceeds, Waiting, GatewayAnswers, HandshakeDone
<1>6. CASE HandshakeError \/ HandshakeExpires \/ HandshakeCancelled
  BY <1>1, <1>6 DEF HandshakeError, HandshakeExpires, HandshakeCancelled, HangUp, Retry, GiveUp
<1>7. CASE FinishConnect
  BY <1>7 DEF FinishConnect, KeepDropMail
<1>8. CASE TcpDrops
  BY <1>8 DEF TcpDrops
<1>9. CASE WatchDisconnect \/ WatchCancelled
  BY <1>9 DEF WatchDisconnect, WatchCancelled
<1>10. CASE Disconnect
  BY <1>10 DEF Disconnect
<1> QED
  BY <1>2, <1>3, <1>4, <1>5, <1>6, <1>7, <1>8, <1>9, <1>10 DEF Next, ConnectStep

(* No drop is lost between the reader goroutine, finishConnectLocked and    *)
(* the watcher, so that the watcher can tell it without the next Ping.      *)
THEOREM DropsAreMailed == Spec => []DropIsMailed
<1>1. Init => Watched
  BY DEF Init, Watched
<1>2. Watched => DropIsMailed
  BY DEF Watched, DropIsMailed
<1> QED
  BY <1>1, <1>2, InitIInv, StepIInv, StepWatched, PTL DEF Spec

(* Nobody aborts, and every dial returns at once.                           *)
Quiet == ~aborted' /\ dialled' = 0

Room(time) == bounded => left >= time

(* A dead session holds the primary client ID, the first fallback is free:  *)
(* how far Connect is, and how much of the budget is left for the rest.     *)
Overtaking ==
    /\ gateway[1] = "mute" /\ Free(2) /\ last = 3 /\ ~aborted /\ dialled = 0
    /\ result \in {"none", "ibkr"}
    /\ \/ /\ attempt = 1 /\ retries = 0 /\ pc = "next"
          /\ Room(HandshakeTimeout + RetryWait + MinWindow + Reserve)
       \/ /\ attempt = 1 /\ retries = 0 /\ pc = "dial" /\ mail = {}
          /\ window = HandshakeTimeout
          /\ Room(HandshakeTimeout + RetryWait + MinWindow + Reserve)
       \/ /\ attempt = 1 /\ retries = 0 /\ pc = "handshake" /\ mail \subseteq {"valid"}
          /\ Room(timer + RetryWait + MinWindow + Reserve)
       \/ attempt = 2 /\ pc = "wait" /\ Room(timer + MinWindow + Reserve)
       \/ attempt = 2 /\ pc = "next" /\ Room(MinWindow + Reserve)
       \/ attempt = 2 /\ pc = "dial" /\ mail = {} /\ window > 0 /\ Room(window + Reserve)
       \/ /\ attempt = 2 /\ pc = "handshake" /\ mail \subseteq {"valid"} /\ timer > 0
          /\ Room(timer + Reserve)
       \/ pc \in {"finish", "up", "closed"} /\ (pc = "finish" \/ result = "ibkr")

LEMMA StepOvertaking ==
    ASSUME IInv, Overtaking, [Next]_vars, [Quiet]_vars
    PROVE  Overtaking'
<1>1. /\ left \in Nat /\ timer \in Nat /\ window \in Nat /\ bounded \in BOOLEAN
      /\ retries \in Nat /\ dialled = 0 /\ ~aborted
      /\ pc \notin {"up", "closed"} <=> result = "none"
  BY DEF IInv, TypeOK, MaxTimeoutRetries, Answered, Finished, Overtaking
<1>2. CASE UNCHANGED vars
  BY <1>2 DEF vars, ctx, loop, session, Overtaking, Room, Free
<1>3. CASE Quiet /\ Next
  <2> USE <1>1, TimesAssumption DEF ctx, loop, session, Overtaking, Room, Free, CtxDone
  <2>1. ~Abort /\ ~Dialling
    BY <1>3 DEF Quiet, Abort, Dialling
  <2>2. ~NoAttempt /\ ~DialFails /\ ~HandshakeError /\ ~HandshakeCancelled /\ ~RetryCancelled
        /\ ~FallBack
    BY DEF NoAttempt, DialFails, HandshakeError, HandshakeCancelled, RetryCancelled, FallBack,
       HandshakeWindow, Window
  <2>3. CASE StartAttempt
    BY <1>3, <2>3 DEF StartAttempt, HandshakeWindow, Window, Quiet
  <2>4. CASE DialSucceeds
    BY <1>3, <2>4 DEF DialSucceeds
  <2>5. CASE Waiting
    BY <1>3, <2>5 DEF Waiting, Elapse
  <2>6. CASE HandshakeDone
    BY <1>3, <2>6 DEF HandshakeDone
  <2>7. CASE HandshakeExpires
    BY <1>3, <2>7 DEF HandshakeExpires, Retry, MayRetryTimeout, MaxTimeoutRetries
  <2>8. CASE RetryDelay
    BY <1>3, <2>8 DEF RetryDelay, Elapse
  <2>9. CASE RetryNow
    BY <1>3, <2>9 DEF RetryNow
  <2>10. CASE FinishConnect
    BY <1>3, <2>10 DEF FinishConnect
  <2>11. CASE GatewayAnswers
    BY <1>3, <2>11 DEF GatewayAnswers, Reply
  <2>12. CASE TcpDrops \/ WatchDisconnect \/ WatchCancelled \/ Disconnect
    BY <1>3, <2>12 DEF TcpDrops, WatchDisconnect, WatchCancelled, Disconnect
  <2> QED
    BY <1>3, <2>1, <2>2, <2>3, <2>4, <2>5, <2>6, <2>7, <2>8, <2>9, <2>10, <2>11, <2>12
       DEF Next, ConnectStep
<1> QED
  BY <1>2, <1>3 DEF Quiet, vars, ctx, loop

(* Retries are counted with the attempts.                                   *)
Counted == retries < attempt

LEMMA StepCounted ==
    ASSUME IInv, Counted, [Next]_vars
    PROVE  Counted'
<1> USE DEF IInv, TypeOK, MaxTimeoutRetries, Counted, ctx, loop, session
<1>1. CASE HandshakeError \/ HandshakeExpires \/ HandshakeCancelled
  BY <1>1 DEF HandshakeError, HandshakeExpires, HandshakeCancelled, Retry, GiveUp
<1>2. CASE UNCHANGED <<attempt, retries>>
  BY <1>2
<1> QED
  BY <1>1, <1>2 DEF Next, ConnectStep, vars, Abort, StartAttempt, NoAttempt, Dialling,
     DialSucceeds, DialFails, Waiting, HandshakeDone, RetryDelay, RetryNow, RetryCancelled,
     FallBack, FinishConnect, GatewayAnswers, TcpDrops, WatchDisconnect, WatchCancelled,
     Disconnect

(* For all timeouts: when a dead session holds the primary client ID, the   *)
(* next one is free and the budget covers a first window, the delay, a      *)
(* smallest window and the reserve, then Connect never answers with delayed *)
(* data nor with an error, unless somebody aborts or a dial takes time.     *)
THEOREM ZombieNeverWins ==
    Spec /\ [][Quiet]_vars => [](ZombiePrimary => [](result \in {"none", "ibkr"}))
<1>1. Init => Counted /\ ~aborted /\ dialled = 0
  BY DEF Init, Counted
<1>2. ~aborted /\ dialled = 0 /\ [Quiet]_vars => (~aborted /\ dialled = 0)'
  BY DEF Quiet, vars, ctx, loop
<1>3. IInv /\ Counted /\ ~aborted /\ dialled = 0 /\ ZombiePrimary => Overtaking
  BY DEF IInv, TypeOK, MaxTimeoutRetries, Counted, ZombiePrimary, Overtaking, Room, Answered,
     Finished
<1>4. Overtaking => result \in {"none", "ibkr"}
  BY DEF Overtaking
<1> QED
  BY <1>1, <1>2, <1>3, <1>4, InitIInv, StepIInv, StepCounted, StepOvertaking, PTL DEF Spec

-----------------------------------------------------------------------------
(* What clientIDCandidates promises, for every primary ID and process.      *)

(* Of a sum of a multiple of Stride and a rest below it, each part is       *)
(* determined by the sum.                                                   *)
LEMMA PartsAreUnique ==
    ASSUME NEW p \in Int, NEW q \in Int, NEW x \in Int, NEW y \in Int,
           0 <= x, x < Stride, 0 <= y, y < Stride,
           p * Stride + x = q * Stride + y
    PROVE  p = q /\ x = y
<1>1. p = q
  BY SMT DEF Stride
<1> QED
  BY <1>1, SMT DEF Stride

LEMMA PartsAreBounded ==
    ASSUME NEW primary \in Nat, NEW pid \in Nat
    PROVE  /\ pid % PIDs \in Int /\ 0 <= pid % PIDs /\ pid % PIDs < PIDs
           /\ primary % Primaries \in Int
           /\ 0 <= primary % Primaries /\ primary % Primaries < Primaries
BY SMT DEF PIDs, Primaries

LEMMA FirstIsBounded ==
    ASSUME NEW primary \in Nat, NEW pid \in Nat
    PROVE  /\ FirstFallback(primary, pid) \in Int
           /\ Base <= FirstFallback(primary, pid)
           /\ FirstFallback(primary, pid) + 2 <= MaxInt32
<1>1. ASSUME NEW x \in Int, NEW y \in Int,
             0 <= x, x < PIDs, 0 <= y, y < Primaries
      PROVE  /\ Base + x * Stride + y * 2 \in Int
             /\ Base <= Base + x * Stride + y * 2
             /\ Base + x * Stride + y * 2 + 2 <= MaxInt32
  BY <1>1, SMT DEF Base, PIDs, Primaries, Stride, MaxInt32
<1> QED
  BY <1>1, PartsAreBounded DEF FirstFallback

(* "The result stays below MaxInt32", which the API's wire format needs,    *)
(* and a client never tries the same ID twice.                              *)
THEOREM FallbacksAreValid ==
    ASSUME NEW primary \in Nat, NEW pid \in Nat
    PROVE  /\ \A id \in Fallbacks(primary, pid) : Base <= id /\ id <= MaxInt32
           /\ primary \notin Fallbacks(primary, pid)
<1>1. ASSUME NEW first \in Int, Base <= first, first + 2 <= MaxInt32
      PROVE  /\ \A id \in FirstTwo(first, primary) : Base <= id /\ id <= MaxInt32
             /\ primary \notin FirstTwo(first, primary)
  BY <1>1, SMT DEF FirstTwo, Base, MaxInt32
<1> QED
  BY <1>1, FirstIsBounded DEF Fallbacks

(* "separating the server's 7200/8700 dynamic ranges and adjacent           *)
(* short-lived CLI processes": two clients with primary IDs below the base  *)
(* share a fallback ID only if they have the same primary ID and process    *)
(* IDs that are equal modulo clientIDPIDModulo; and a fallback ID is never  *)
(* the primary ID of another.                                               *)
THEOREM FallbacksAreSeparate ==
    ASSUME NEW a \in Nat \ {0}, a < Base, NEW p \in Nat,
           NEW b \in Nat \ {0}, b < Base, NEW q \in Nat,
           a # b \/ p % PIDs # q % PIDs
    PROVE  /\ Fallbacks(a, p) \cap Fallbacks(b, q) = {}
           /\ b \notin Fallbacks(a, p)
<1> DEFINE f == FirstFallback(a, p)
           g == FirstFallback(b, q)
<1>1. a % Primaries = a /\ b % Primaries = b
  BY SMT DEF Base, Primaries
<1>2. p % PIDs \in Int /\ q % PIDs \in Int
  BY PartsAreBounded
<1>3. /\ f = Base + (p % PIDs) * Stride + a * 2
      /\ g = Base + (q % PIDs) * Stride + b * 2
  BY <1>1 DEF FirstFallback
<1>4. f \in Int /\ g \in Int /\ Base <= f /\ Base <= g
  BY FirstIsBounded
<1>5. ASSUME NEW k \in {0, 1}, NEW l \in {0, 1}
      PROVE  f + k # g + l
  <2>1. ASSUME NEW x \in Int, NEW y \in Int,
               Base + x * Stride + a * 2 + k = Base + y * Stride + b * 2 + l
        PROVE  x = y /\ a = b
    <3>1. x * Stride + (a * 2 + k) = y * Stride + (b * 2 + l)
      BY <2>1, SMT DEF Base, Stride
    <3>2. /\ a * 2 + k \in Int /\ 0 <= a * 2 + k /\ a * 2 + k < Stride
          /\ b * 2 + l \in Int /\ 0 <= b * 2 + l /\ b * 2 + l < Stride
      BY SMT DEF Base, Stride
    <3>3. x = y /\ a * 2 + k = b * 2 + l
      BY <3>1, <3>2, PartsAreUnique
    <3> QED BY <3>3, SMT
  <2> QED BY <1>2, <1>3, <2>1
<1>6. b \notin {f, f + 1}
  BY <1>4, SMT DEF Base
<1>7. Fallbacks(a, p) = {f, f + 1} /\ Fallbacks(b, q) = {g, g + 1}
  <2>1. ASSUME NEW h \in Int, NEW c \in Nat, c < Base, Base <= h
        PROVE  FirstTwo(h, c) = {h, h + 1}
    BY <2>1, SMT DEF FirstTwo, Base
  <2> QED BY <1>4, <2>1 DEF Fallbacks
<1>8. {f, f + 1} \cap {g, g + 1} = {}
  <2>1. f # g /\ f + 1 # g /\ f # g + 1 /\ f + 1 # g + 1
    <3>1. f + 0 # g + 0 /\ f + 1 # g + 0 /\ f + 0 # g + 1 /\ f + 1 # g + 1
      BY <1>5
    <3> HIDE DEF f, g
    <3> QED BY <1>4, <3>1
  <2> HIDE DEF f, g
  <2> QED BY <2>1
<1> QED BY <1>6, <1>7, <1>8
=============================================================================
