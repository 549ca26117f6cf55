-------------------------- MODULE IbRequestsProofs --------------------------
(***************************************************************************)
(* Proofs about IbRequests, for any callers, request IDs and error codes.  *)
(*                                                                         *)
(* The inductive invariant ties every pending request to the call it       *)
(* belongs to, and says of each request which errors can be in its channel *)
(* and what a closed done means; what the calls return follows.            *)
(***************************************************************************)
EXTENDS IbRequests, SumTheorems, TLAPS

Causes == Codes \cup {NoError, TimedOut, Canceled, NoData, NotConnected}
Arms == {"none", "done", "error", "timer", "ctx", "history"}

(* The kinds of request a method waits for.                                 *)
KindsOf(o) == {FirstKind(o)}
              \cup (IF o = "GetQuote" THEN {"bars"} ELSE {})
              \cup (IF o = "GetOptionChain" THEN {"params"} ELSE {})

(* A running call waits for a request of its own, and every request has a   *)
(* running call.                                                            *)
Owned ==
    /\ \A c \in Callers : op[c] # "none" =>
         /\ cur[c] \in IDs /\ Registered(cur[c]) /\ Request(c).by = c
         /\ Request(c).kind \in KindsOf(op[c])
    /\ \A c \in Callers : op[c] = "none" => cur[c] = NoID
    /\ \A id \in IDs : Registered(id) => /\ pend[id].by \in Callers
                                         /\ op[pend[id].by] # "none"
    /\ \A c \in Callers : graced[c] => op[c] = "fetchOIForContract"

Sampled(id) == pend[id].kind \in {"oi", "option"}

(* Only routed errors are in a channel; the done channel of a sample is     *)
(* closed by its last tick or after an error was sent.                      *)
Caused ==
    \A id \in IDs :
        /\ pend[id].err # NoError => Routes(pend[id].kind, pend[id].err)
        /\ Sampled(id) /\ pend[id].done /\ pend[id].data # "all"
             => pend[id].err # NoError
        /\ Sampled(id) /\ closing = id => pend[id].err # NoError

GraceAfterDone == \A c \in Callers : graced[c] => Request(c).done

(* What an answer must satisfy.                                             *)
Sound(a) ==
    /\ /\ a.op \in {"fetchOIForContract", "GetOptionQuoteDetails"}
       /\ a.arm = "done" /\ a.data # "all"
       => a.cause # NoError
    /\ a.op # "GetOptionQuoteDetails" =>
         a.cause \notin StrictErrorCodes \cup {354, 10167}
    /\ a.op = "GetOptionChain" /\ a.ok => a.data = "all"

AnswersSound == \A c \in Callers : Sound(answer[c])

LinesUsed ==
    /\ lines \subseteq {cur[c] : c \in Callers}
    /\ \A id \in lines : pend[id].kind \in Cancelable

IInv == TypeOK /\ Owned /\ Caused /\ GraceAfterDone /\ AnswersSound /\ LinesUsed

-----------------------------------------------------------------------------
(* The initial states satisfy the inductive invariant.                      *)
LEMMA InitIInv == Init => IInv
<1> SUFFICES ASSUME Init PROVE IInv
    OBVIOUS
<1> USE DEF Init, Pending, Unregistered, NoAnswer, Kinds, Lists, Amounts, Ops
<1>1. TypeOK
  BY DEF TypeOK
<1>2. Owned /\ Caused /\ GraceAfterDone
  BY DEF Owned, Caused, GraceAfterDone, Registered, Sampled
<1>3. AnswersSound
  BY DEF AnswersSound, Sound, StrictErrorCodes, NoError
<1>4. LinesUsed
  BY DEF LinesUsed
<1> QED BY <1>1, <1>2, <1>3, <1>4 DEF IInv

Reply(c, ok, cause, arm) ==
    [op |-> op[c], ok |-> ok, data |-> Request(c).data, arm |-> arm, cause |-> cause]

(* A call that returns a sound answer leaves the invariant in force.        *)
LEMMA ReturnKeeps ==
    ASSUME IInv, NEW c \in Callers, op[c] # "none",
           NEW ok \in BOOLEAN, NEW cause \in Causes, NEW arm \in Arms,
           Sound(Reply(c, ok, cause, arm)),
           Return(c, ok, cause, arm)
    PROVE  IInv'
<1> USE DEF IInv, Return, Reply, Registered, Mine, Request
<1>1. TypeOK'
  BY DEF TypeOK, Owned, Causes, Arms, Pending, Unregistered, WithoutStream, Amounts
<1>2. Owned'
  BY DEF Owned, TypeOK, Pending, Unregistered
<1>3. Caused'
  BY DEF Caused, Sampled, Pending, Unregistered
<1>4. GraceAfterDone'
  BY DEF GraceAfterDone, Owned, TypeOK
<1>5. AnswersSound'
  BY DEF AnswersSound, TypeOK
<1>6. LinesUsed'
  <2>1. ASSUME NEW id \in lines' PROVE \E d \in Callers : d # c /\ cur[d] = id
    BY <2>1 DEF LinesUsed, WithoutStream
  <2>2. lines' \subseteq {cur'[d] : d \in Callers}
    BY <2>1 DEF TypeOK
  <2>3. ASSUME NEW id \in lines' PROVE pend'[id].kind \in Cancelable
    <3>1. PICK d \in Callers : d # c /\ cur[d] = id
      BY <2>1
    <3>2. id \in IDs /\ id # NoID /\ pend[id].kind \in Cancelable
      BY IDsAssumption DEF LinesUsed, WithoutStream, TypeOK, NoID
    <3>3. pend[id].by = d
      BY <3>1, <3>2 DEF Owned
    <3> QED BY <3>1, <3>2, <3>3
  <2> QED BY <2>2, <2>3 DEF LinesUsed
<1> QED BY <1>1, <1>2, <1>3, <1>4, <1>5, <1>6

(* The same of a success.                                                  *)
LEMMA SuccessKeeps ==
    ASSUME IInv, NEW c \in Callers, op[c] # "none",
           NEW cause \in Causes, NEW arm \in Arms,
           Sound(Reply(c, TRUE, cause, arm)), Return(c, TRUE, cause, arm)
    PROVE  IInv'
<1> DEFINE ok == TRUE
<1>1. ok \in BOOLEAN /\ Sound(Reply(c, ok, cause, arm)) /\ Return(c, ok, cause, arm)
  OBVIOUS
<1> HIDE DEF ok
<1> QED BY <1>1, ReturnKeeps

(* The same of a failure.                                                  *)
LEMMA FailureKeeps ==
    ASSUME IInv, NEW c \in Callers, op[c] # "none",
           NEW cause \in Causes, NEW arm \in Arms,
           Sound(Reply(c, FALSE, cause, arm)), Return(c, FALSE, cause, arm)
    PROVE  IInv'
<1> DEFINE ok == FALSE
<1>1. ok \in BOOLEAN /\ Sound(Reply(c, ok, cause, arm)) /\ Return(c, ok, cause, arm)
  OBVIOUS
<1> HIDE DEF ok
<1> QED BY <1>1, ReturnKeeps

(* So does registering a request, the first of a call or one that follows   *)
(* another, which may then be unregistered or left without a reader.        *)
LEMMA AskKeeps ==
    ASSUME IInv, NEW c \in Callers, NEW o \in Ops, NEW kind \in KindsOf(o),
           NEW registered, NEW streaming, Ask(c, kind, registered, streaming),
           op' = [op EXCEPT ![c] = o],
           op[c] = "none" => registered = pend,
           op[c] # "none" =>
             registered \in { [pend EXCEPT ![cur[c]] = Unregistered],
                              [pend EXCEPT ![cur[c]] = Pending("quote", c)] },
           streaming \subseteq lines, cur[c] \notin streaming, ~graced[c],
           answer' \in {answer, [answer EXCEPT ![c] = NoAnswer]},
           UNCHANGED <<up, closing, graced>>
    PROVE  IInv'
<1>0. kind \in Kinds /\ kind # "none" /\ o # "none"
  BY DEF Ops, FirstKind, Kinds, Lists, KindsOf
<1>1. PICK id \in IDs :
        /\ IsNextReqID(id)
        /\ cur' = [cur EXCEPT ![c] = id]
        /\ pend' = [registered EXCEPT ![id] = Pending(kind, c)]
        /\ lines' = IF up /\ kind \in Cancelable THEN streaming \cup {id}
                                                  ELSE streaming
  BY DEF Ask
<1>2. /\ pend[id].kind = "none" /\ id # closing
      /\ \A d \in Callers : op[d] # "none" => cur[d] # id
  BY <1>1 DEF IsNextReqID, Free, Registered, IInv, Owned
<1>3. ASSUME op[c] # "none"
      PROVE  cur[c] \in IDs /\ pend[cur[c]].by = c /\ pend[cur[c]].kind # "none"
  BY <1>3 DEF IInv, Owned, Registered, Request
<1>4. cur[c] \in IDs => op[c] # "none"
  BY IDsAssumption DEF IInv, Owned, NoID
<1>5. pend \in [IDs -> [kind : Kinds \cup {"none"}, by : Callers \cup {"none"},
                        data : Amounts, done : BOOLEAN, err : Codes \cup {NoError}]]
  BY DEF IInv, TypeOK
<1>6. \A i \in IDs :
        /\ i = id => pend'[i] = Pending(kind, c)
        /\ i # id /\ i = cur[c] => pend'[i] \in {Unregistered, Pending("quote", c)}
        /\ i # id /\ i # cur[c] => pend'[i] = pend[i]
  <2>1. CASE op[c] = "none"
    BY <2>1, <1>1, <1>4, <1>5
  <2>2. CASE op[c] # "none"
    BY <2>2, <1>1, <1>3, <1>5 DEF Pending, Unregistered
  <2> QED BY <2>1, <2>2
<1>7. pend' \in [IDs -> [kind : Kinds \cup {"none"}, by : Callers \cup {"none"},
                        data : Amounts, done : BOOLEAN, err : Codes \cup {NoError}]]
  <2>1. pend' = [i \in IDs |-> pend'[i]]
    BY <1>1, <1>5
  <2>2. /\ Pending(kind, c).kind \in Kinds /\ Pending(kind, c).by \in Callers
        /\ {Unregistered, Pending("quote", c), Pending(kind, c)} \subseteq
             [kind : Kinds \cup {"none"}, by : Callers \cup {"none"},
              data : Amounts, done : BOOLEAN, err : Codes \cup {NoError}]
    <3>1. "quote" \in Kinds /\ "none" \in Amounts
      BY DEF Kinds, Amounts
    <3> QED BY <3>1, <1>0 DEF Pending, Unregistered
  <2>3. \A i \in IDs : pend'[i] \in
            [kind : Kinds \cup {"none"}, by : Callers \cup {"none"},
             data : Amounts, done : BOOLEAN, err : Codes \cup {NoError}]
    BY <2>2, <1>5, <1>6
  <2> QED BY <2>1, <2>3
<1>8. TypeOK'
  <2>1. cur' \in [Callers -> IDs \cup {NoID}] /\ op' \in [Callers -> Ops \cup {"none"}]
    BY <1>1 DEF IInv, TypeOK
  <2>2. lines' \subseteq IDs
    BY <1>1 DEF IInv, TypeOK
  <2>3. answer' \in [Callers ->
                     [op : Ops \cup {"none"}, ok : BOOLEAN, data : Amounts,
                      arm : {"none", "done", "error", "timer", "ctx", "history"},
                      cause : Codes \cup {NoError, TimedOut, Canceled, NoData,
                                          NotConnected}]]
    <3>1. NoAnswer \in [op : Ops \cup {"none"}, ok : BOOLEAN, data : Amounts,
                       arm : {"none", "done", "error", "timer", "ctx", "history"},
                       cause : Codes \cup {NoError, TimedOut, Canceled, NoData,
                                           NotConnected}]
      BY DEF NoAnswer, Amounts
    <3> QED BY <3>1 DEF IInv, TypeOK
  <2> QED BY <1>7, <2>1, <2>2, <2>3 DEF IInv, TypeOK
<1>9. Owned'
  <2>1. ASSUME NEW d \in Callers, op'[d] # "none"
        PROVE  /\ cur'[d] \in IDs /\ pend'[cur'[d]].kind # "none"
               /\ pend'[cur'[d]].by = d
               /\ pend'[cur'[d]].kind \in KindsOf(op'[d])
    <3>1. CASE d = c
      BY <3>1, <1>0, <1>1, <1>6 DEF IInv, TypeOK, Pending, Unregistered, Kinds, Lists
    <3>2. CASE d # c
      <4>1. /\ op'[d] = op[d] /\ cur'[d] = cur[d] /\ cur[d] \in IDs
            /\ pend[cur[d]].kind # "none" /\ pend[cur[d]].by = d
            /\ pend[cur[d]].kind \in KindsOf(op[d])
        BY <3>2, <2>1, <1>1 DEF IInv, TypeOK, Owned, Registered, Request
      <4>2. cur[d] # id /\ cur[d] # cur[c]
        BY <4>1, <3>2, <2>1, <1>2, <1>3, <1>4
      <4> QED BY <4>1, <4>2, <1>6
    <3> QED BY <3>1, <3>2
  <2>2. \A d \in Callers : op'[d] = "none" => cur'[d] = NoID
    BY <1>0, <1>1 DEF IInv, TypeOK, Owned
  <2>3. ASSUME NEW i \in IDs, pend'[i].kind # "none"
        PROVE  pend'[i].by \in Callers /\ op'[pend'[i].by] # "none"
    <3>1. CASE i = id \/ i = cur[c]
      <4>1. pend'[i].by = c
        BY <3>1, <2>3, <1>6 DEF Pending, Unregistered
      <4> QED BY <4>1, <1>0 DEF IInv, TypeOK
    <3>2. CASE i # id /\ i # cur[c]
      BY <3>2, <2>3, <1>0, <1>6 DEF IInv, TypeOK, Owned, Registered
    <3> QED BY <3>1, <3>2
  <2>4. \A d \in Callers : graced'[d] => op'[d] = "fetchOIForContract"
    BY DEF IInv, TypeOK, Owned
  <2> QED BY <2>1, <2>2, <2>3, <2>4 DEF Owned, Registered, Request
<1>10. Caused'
  <2>1. ASSUME NEW i \in IDs
        PROVE  /\ pend'[i].err # NoError => Routes(pend'[i].kind, pend'[i].err)
               /\ pend'[i].kind \in {"oi", "option"} /\ pend'[i].done
                    /\ pend'[i].data # "all" => pend'[i].err # NoError
               /\ pend'[i].kind \in {"oi", "option"} /\ closing' = i
                    => pend'[i].err # NoError
    <3>1. CASE i = id
      BY <3>1, <1>2, <1>6 DEF Pending, IInv, TypeOK
    <3>2. CASE i # id /\ i = cur[c]
      BY <3>2, <1>6 DEF Pending, Unregistered
    <3>3. CASE i # id /\ i # cur[c]
      BY <3>3, <1>6 DEF IInv, Caused, Sampled
    <3> QED BY <3>1, <3>2, <3>3
  <2> QED BY <2>1 DEF Caused, Sampled
<1>11. GraceAfterDone'
  <2>1. ASSUME NEW d \in Callers, graced[d] PROVE pend'[cur'[d]].done
    <3>1. d # c /\ op[d] # "none"
      BY <2>1 DEF IInv, Owned
    <3>2. cur'[d] = cur[d] /\ cur[d] \in IDs /\ pend[cur[d]].by = d
      BY <3>1, <1>1 DEF IInv, TypeOK, Owned, Request
    <3>3. cur[d] # id /\ cur[d] # cur[c]
      BY <3>1, <3>2, <1>2, <1>3, <1>4
    <3> QED BY <2>1, <3>2, <3>3, <1>6 DEF IInv, GraceAfterDone, Request
  <2> QED BY <2>1 DEF GraceAfterDone, Request
<1>12. AnswersSound'
  BY DEF IInv, TypeOK, AnswersSound, Sound, NoAnswer, StrictErrorCodes, NoError
<1>13. LinesUsed'
  <2>1. "none" \notin Cancelable
    BY DEF Cancelable, Kinds, Lists
  <2>2. ASSUME NEW i \in streaming
        PROVE  /\ i \in IDs /\ i # cur[c] /\ i # id /\ pend[i].kind \in Cancelable
               /\ \E d \in Callers : d # c /\ cur[d] = i
    BY <2>1, <1>2 DEF IInv, LinesUsed, TypeOK
  <2>3. ASSUME NEW i \in lines'
        PROVE  (\E d \in Callers : cur'[d] = i) /\ pend'[i].kind \in Cancelable
    <3>1. i \in streaming \/ (i = id /\ kind \in Cancelable)
      BY <1>1
    <3>2. CASE i \in streaming
      BY <3>2, <2>2, <1>1, <1>6 DEF IInv, TypeOK
    <3>3. CASE i = id /\ kind \in Cancelable
      BY <3>3, <1>1, <1>6 DEF IInv, TypeOK, Pending, Unregistered
    <3> QED BY <3>1, <3>2, <3>3
  <2> QED BY <2>3 DEF LinesUsed
<1> QED BY <1>8, <1>9, <1>10, <1>11, <1>12, <1>13 DEF IInv

-----------------------------------------------------------------------------
(* A callback changes the state of one pending request.  The invariant holds*)
(* after it if the new state is typed, keeps the request's caller and kind, *)
(* has only a routed error, and explains a closed done and a running Error. *)
LEMMA UpdateKeeps ==
    ASSUME IInv, NEW id \in IDs, NEW new,
           new \in [kind : Kinds \cup {"none"}, by : Callers \cup {"none"},
                    data : Amounts, done : BOOLEAN, err : Codes \cup {NoError}],
           pend' = [pend EXCEPT ![id] = new],
           new.kind = pend[id].kind, new.by = pend[id].by,
           pend[id].done => new.done,
           new.err # NoError => Routes(new.kind, new.err),
           Sampled(id) /\ ((new.done /\ new.data # "all") \/ closing' = id)
             => new.err # NoError,
           closing' \in {closing, id, NoID},
           UNCHANGED <<up, lines, op, cur, graced, answer>>
    PROVE  IInv'
<1>1. \A i \in IDs : /\ pend'[i].kind = pend[i].kind /\ pend'[i].by = pend[i].by
                     /\ i # id => pend'[i] = pend[i]
                     /\ pend[i].done => pend'[i].done
  BY DEF IInv, TypeOK
<1>2. TypeOK'
  BY DEF IInv, TypeOK
<1>3. Owned'
  BY <1>1 DEF IInv, Owned, Registered, Request
<1>4. Caused'
  <2>1. ASSUME NEW i \in IDs
        PROVE  /\ pend'[i].err # NoError => Routes(pend'[i].kind, pend'[i].err)
               /\ Sampled(i)' /\ pend'[i].done
                    /\ pend'[i].data # "all" => pend'[i].err # NoError
               /\ Sampled(i)' /\ closing' = i => pend'[i].err # NoError
    <3>1. CASE i = id
      BY <3>1 DEF IInv, TypeOK, Sampled
    <3>2. CASE i # id
      BY <3>2, <1>1, IDsAssumption DEF IInv, Caused, Sampled, NoID
    <3> QED BY <3>1, <3>2
  <2> QED BY <2>1 DEF Caused, Sampled
<1>5. GraceAfterDone'
  BY <1>1 DEF IInv, GraceAfterDone, Request, Owned, Ops
<1>6. AnswersSound'
  BY DEF IInv, AnswersSound
<1>7. LinesUsed'
  BY <1>1 DEF IInv, LinesUsed, TypeOK
<1> QED BY <1>2, <1>3, <1>4, <1>5, <1>6, <1>7 DEF IInv

(* The records of the wrapper's pending map.                                *)
RequestRecords ==
    [kind : Kinds \cup {"none"}, by : Callers \cup {"none"},
     data : Amounts, done : BOOLEAN, err : Codes \cup {NoError}]

(* The ticks, rows and ends of a request.                                   *)
LEMMA DataKeeps ==
    ASSUME IInv, NEW id \in IDs, NEW data \in Amounts, NEW done \in BOOLEAN,
           Sampled(id) => (pend[id].data # "all" /\ (done => data = "all")),
           Update(id, data, done)
    PROVE  IInv'
<1> DEFINE old == pend[id]
           new == [old EXCEPT !.data = data, !.done = @ \/ done]
<1>0. old \in RequestRecords
  BY DEF IInv, TypeOK, RequestRecords
<1>1. pend' = [pend EXCEPT ![id] = new]
  BY DEF Update, IInv, TypeOK
<1>2. /\ new \in [kind : Kinds \cup {"none"}, by : Callers \cup {"none"},
                  data : Amounts, done : BOOLEAN, err : Codes \cup {NoError}]
      /\ new.kind = pend[id].kind /\ new.by = pend[id].by
      /\ new.data = data /\ new.err = pend[id].err
      /\ new.done = (pend[id].done \/ done)
  <2> HIDE DEF old
  <2>1. /\ new \in RequestRecords
        /\ new.kind = old.kind /\ new.by = old.by
        /\ new.data = data /\ new.err = old.err
        /\ new.done = (old.done \/ done)
    BY ONLY <1>0, done \in BOOLEAN, data \in Amounts DEF RequestRecords
  <2> QED BY <2>1 DEF old, RequestRecords
<1>3. /\ new.err # NoError => Routes(new.kind, new.err)
      /\ Sampled(id) /\ ((new.done /\ new.data # "all") \/ closing = id)
           => new.err # NoError
  BY <1>2 DEF IInv, Caused
<1>4. UNCHANGED <<up, lines, closing, op, cur, graced, answer>>
  BY DEF Update
<1> HIDE DEF new
<1> QED BY <1>1, <1>2, <1>3, <1>4, UpdateKeeps

(* Error() puts a routed error into the channel, ...                        *)
LEMMA ErrorRoutedKeeps ==
    ASSUME IInv, NEW id \in IDs, NEW code \in Codes, ErrorRouted(id, code)
    PROVE  IInv'
<1> DEFINE new == ChannelOf(pend[id], code)
<1>1. pend' = [pend EXCEPT ![id] = new]
  BY DEF ErrorRouted, IInv, TypeOK
<1>2. code # NoError
  BY CodesAssumption DEF NoError
<1>3. /\ new \in [kind : Kinds \cup {"none"}, by : Callers \cup {"none"},
                  data : Amounts, done : BOOLEAN, err : Codes \cup {NoError}]
      /\ new.kind = pend[id].kind /\ new.by = pend[id].by
      /\ new.data = pend[id].data /\ new.done = pend[id].done
      /\ new.err # NoError /\ new.err \in {pend[id].err, code}
  BY <1>2 DEF IInv, TypeOK, ChannelOf
<1>4. Routes(new.kind, new.err)
  BY <1>3 DEF IInv, Caused, ErrorRouted
<1>5. closing' = id /\ UNCHANGED <<up, lines, op, cur, graced, answer>>
  BY DEF ErrorRouted
<1> HIDE DEF new
<1> QED BY <1>1, <1>3, <1>4, <1>5, UpdateKeeps

(* ... and then closes done.                                                *)
LEMMA ErrorClosesKeeps == IInv /\ ErrorCloses => IInv'
<1> SUFFICES ASSUME IInv, ErrorCloses PROVE IInv'
    OBVIOUS
<1>0. closing \in IDs
  BY DEF ErrorCloses, IInv, TypeOK
<1> DEFINE old == pend[closing]
           listens == old.kind \in Kinds \ {"depth"}
           new == [old EXCEPT !.done = @ \/ listens]
<1>5. old \in RequestRecords
  BY <1>0 DEF IInv, TypeOK, RequestRecords
<1>1. pend' = [pend EXCEPT ![closing] = new] /\ listens \in BOOLEAN
  BY DEF ErrorCloses, IInv, TypeOK
<1> HIDE DEF listens
<1>2. /\ new \in [kind : Kinds \cup {"none"}, by : Callers \cup {"none"},
                  data : Amounts, done : BOOLEAN, err : Codes \cup {NoError}]
      /\ new.kind = pend[closing].kind /\ new.by = pend[closing].by
      /\ new.err = pend[closing].err
      /\ pend[closing].done => new.done
  <2> HIDE DEF old
  <2>1. /\ new \in RequestRecords /\ new.kind = old.kind /\ new.by = old.by
        /\ new.err = old.err /\ (old.done => new.done)
    BY ONLY <1>1, <1>5 DEF RequestRecords
  <2> QED BY <2>1 DEF old, RequestRecords
<1>3. /\ new.err # NoError => Routes(new.kind, new.err)
      /\ Sampled(closing) => new.err # NoError
  BY <1>0, <1>2 DEF IInv, Caused
<1>4. closing' = NoID /\ UNCHANGED <<up, lines, op, cur, graced, answer>>
  BY DEF ErrorCloses
<1> HIDE DEF new
<1> QED BY <1>0, <1>1, <1>2, <1>3, <1>4, UpdateKeeps

LEMMA CallbackKeeps ==
    ASSUME IInv, NEW id \in IDs, Callback(id) PROVE IInv'
<1> USE DEF Amounts
<1>1. CASE Tick(id)
  BY <1>1, DataKeeps DEF Tick
<1>2. CASE DepthRow(id)
  BY <1>2, DataKeeps DEF DepthRow, Reading, Sampled
<1>3. CASE Row(id)
  BY <1>3, DataKeeps DEF Row, Listing, Reading, Sampled, Lists
<1>4. CASE End(id)
  BY <1>4, DataKeeps DEF End, Listing, Reading, Sampled, Lists
<1>5. ASSUME NEW code \in Codes, ErrorRouted(id, code) PROVE IInv'
  BY <1>5, ErrorRoutedKeeps
<1> QED BY <1>1, <1>2, <1>3, <1>4, <1>5 DEF Callback

LEMMA ConnectionClosedKeeps == IInv /\ ConnectionClosed => IInv'
<1> SUFFICES ASSUME IInv, ConnectionClosed PROVE IInv'
    OBVIOUS
<1> USE DEF ConnectionClosed
<1>1. TypeOK'
  BY DEF IInv, TypeOK
<1>2. Owned'
  BY DEF IInv, Owned, Registered, Request
<1>3. Caused' /\ GraceAfterDone' /\ AnswersSound' /\ LinesUsed'
  BY DEF IInv, Caused, Sampled, GraceAfterDone, Request, AnswersSound, LinesUsed
<1> QED BY <1>1, <1>2, <1>3 DEF IInv

-----------------------------------------------------------------------------
(* The calls.                                                               *)

(* Which method waits for a request of each kind.                           *)
LEMMA WaitingMethods ==
    ASSUME IInv, NEW c \in Callers, op[c] # "none"
    PROVE  LET kind == Request(c).kind
           IN  /\ op[c] \in Ops /\ kind \in KindsOf(op[c])
               /\ kind = "quote" => op[c] = "GetQuote"
               /\ kind = "bars" => op[c] \in {"GetQuote", "GetHistoricalBars"}
               /\ kind = "depth" => op[c] = "GetMarketDepth"
               /\ kind \in {"conid", "params"} => op[c] = "GetOptionChain"
               /\ kind = "option" => op[c] = "GetOptionQuoteDetails"
               /\ kind = "oi" => op[c] = "fetchOIForContract"
               /\ kind = "execs" => op[c] = "GetExecutions"
<1>1. op[c] \in Ops /\ Request(c).kind \in KindsOf(op[c])
  BY DEF IInv, TypeOK, Owned
<1> QED BY <1>1 DEF Ops, KindsOf, FirstKind

(* What the request a call waits for may hold.                              *)
LEMMA WaitingTypes ==
    ASSUME IInv, NEW c \in Callers, op[c] # "none"
    PROVE  /\ cur[c] \in IDs /\ Request(c).err \in Codes \cup {NoError}
           /\ Request(c).data \in Amounts
           /\ op[c] # "GetOptionQuoteDetails" /\ op[c] # "fetchOIForContract"
                => Request(c).kind \notin {"oi", "option"}
BY WaitingMethods DEF IInv, TypeOK, Owned, Request

(* A request that is not strict holds no error its call tolerates.          *)
LEMMA RoutedIsTolerated ==
    ASSUME IInv, NEW c \in Callers, op[c] # "none",
           op[c] # "GetOptionQuoteDetails"
    PROVE  Request(c).err \notin StrictErrorCodes \cup {354, 10167}
<1>1. cur[c] \in IDs /\ Request(c).kind # "option"
  BY WaitingMethods DEF IInv, Owned, KindsOf, FirstKind, Ops
<1>2. CASE Request(c).err = NoError
  BY <1>2 DEF NoError, StrictErrorCodes
<1>3. CASE Request(c).err # NoError
  <2>1. Routes(Request(c).kind, Request(c).err)
    BY <1>1, <1>3 DEF IInv, Caused, Request
  <2> QED BY <1>1, <2>1 DEF Routes, StrictErrorCodes
<1> QED BY <1>2, <1>3

(* Failing with the error routed to the request.                            *)
LEMMA FailsKeeps ==
    ASSUME IInv, NEW c \in Callers, op[c] # "none",
           op[c] # "GetOptionQuoteDetails", Fails(c)
    PROVE  IInv'
<1>1. Request(c).err \in Causes /\ "error" \in Arms
  BY WaitingTypes DEF Causes, Arms
<1>2. Sound(Reply(c, FALSE, Request(c).err, "error"))
  BY RoutedIsTolerated DEF Sound, Reply
<1> QED BY <1>1, <1>2, FailureKeeps DEF Fails

(* Succeeding with data, failing without.                                   *)
LEMMA ReturnIfKeeps ==
    ASSUME IInv, NEW c \in Callers, op[c] # "none", NEW ok \in BOOLEAN,
           op[c] \notin {"fetchOIForContract", "GetOptionQuoteDetails"},
           op[c] = "GetOptionChain" /\ ok => Request(c).data = "all",
           ReturnIf(c, ok, "done")
    PROVE  IInv'
<1> DEFINE cause == IF ok THEN NoError ELSE NoData
<1>1. cause \in Causes /\ "done" \in Arms
  BY DEF Causes, Arms
<1>2. Sound(Reply(c, ok, cause, "done"))
  BY DEF Sound, Reply, NoData, NoError, StrictErrorCodes
<1>3. Return(c, ok, cause, "done")
  BY DEF ReturnIf
<1> HIDE DEF cause
<1> QED BY <1>1, <1>2, <1>3, ReturnKeeps

(* A call that waits for its context may give up.                           *)
LEMMA CtxDoneKeeps == ASSUME IInv, NEW c \in Callers, CtxDone(c) PROVE IInv'
<1>1. op[c] # "none"
  BY DEF CtxDone, Waiting, IInv, Owned
<1>2. Canceled \in Causes /\ "ctx" \in Arms
  BY DEF Causes, Arms
<1>3. CASE Return(c, FALSE, Canceled, "ctx")
  <2>1. Sound(Reply(c, FALSE, Canceled, "ctx"))
    BY DEF Sound, Reply, Canceled, StrictErrorCodes
  <2> QED BY <1>1, <1>2, <1>3, <2>1, FailureKeeps
<1>4. CASE (Waiting(c, "oi") \/ graced[c]) /\ Return(c, TRUE, Canceled, "ctx")
  <2>1. op[c] = "fetchOIForContract"
    BY <1>4, <1>1, WaitingMethods DEF Waiting, IInv, Owned
  <2>2. Sound(Reply(c, TRUE, Canceled, "ctx"))
    BY <2>1 DEF Sound, Reply, Canceled, StrictErrorCodes
  <2> QED BY <1>1, <1>2, <1>4, <2>2, SuccessKeeps
<1> QED BY <1>3, <1>4 DEF CtxDone

(* The history fallback of a quote.                                         *)
LEMMA QuoteFromHistoryKeeps ==
    ASSUME IInv, NEW c \in Callers, Waiting(c, "quote"), QuoteFromHistory(c)
    PROVE  IInv'
<1>1. op[c] = "GetQuote" /\ op[c] # "none" /\ ~graced[c]
  BY WaitingMethods DEF Waiting
<1>2. CASE ~up
  <2>1. NotConnected \in Causes /\ "history" \in Arms
    BY DEF Causes, Arms
  <2>2. Sound(Reply(c, FALSE, NotConnected, "history"))
    BY <1>1 DEF Sound, Reply, NotConnected, StrictErrorCodes
  <2>3. Return(c, FALSE, NotConnected, "history")
    BY <1>2 DEF QuoteFromHistory
  <2> QED BY <1>1, <2>1, <2>2, <2>3, FailureKeeps
<1>3. CASE up
  <2> DEFINE registered == [pend EXCEPT ![cur[c]] = Pending("quote", c)]
  <2>1. /\ Ask(c, "bars", registered, WithoutStream(c))
        /\ UNCHANGED <<up, closing, op, graced, answer>>
    BY <1>3 DEF QuoteFromHistory
  <2>2. "GetQuote" \in Ops /\ "bars" \in KindsOf("GetQuote")
    BY DEF Ops, KindsOf
  <2>3. op' = [op EXCEPT ![c] = "GetQuote"]
    BY <2>1, <1>1 DEF IInv, TypeOK
  <2>4. WithoutStream(c) \subseteq lines /\ cur[c] \notin WithoutStream(c)
    BY DEF WithoutStream
  <2>5. registered \in {[pend EXCEPT ![cur[c]] = Unregistered],
                        [pend EXCEPT ![cur[c]] = Pending("quote", c)]}
    OBVIOUS
  <2>6. answer' \in {answer, [answer EXCEPT ![c] = NoAnswer]}
        /\ UNCHANGED <<up, closing, graced>>
    BY <2>1
  <2> HIDE DEF registered
  <2> QED BY <1>1, <2>1, <2>2, <2>3, <2>4, <2>5, <2>6, AskKeeps
<1> QED BY <1>2, <1>3

(* Resolving the contract of a chain.                                       *)
LEMMA GetConIDKeeps == ASSUME IInv, NEW c \in Callers, GetConID(c) PROVE IInv'
<1>1. op[c] = "GetOptionChain" /\ op[c] # "none" /\ ~graced[c]
  BY WaitingMethods DEF Waiting, GetConID
<1>2. /\ Request(c).kind = "conid" /\ cur[c] \in IDs /\ pend[cur[c]].kind = "conid"
  BY <1>1, WaitingTypes DEF GetConID, Waiting, Request
<1>3. ASSUME Ask(c, "params", [pend EXCEPT ![cur[c]] = Unregistered], lines),
             UNCHANGED <<up, closing, op, graced, answer>>
      PROVE  IInv'
  <2>1. "GetOptionChain" \in Ops /\ "params" \in KindsOf("GetOptionChain")
    BY DEF Ops, KindsOf
  <2>2. op' = [op EXCEPT ![c] = "GetOptionChain"]
    BY <1>1, <1>3 DEF IInv, TypeOK
  <2>3. cur[c] \notin lines
    BY <1>2 DEF IInv, LinesUsed, Cancelable
  <2> DEFINE registered == [pend EXCEPT ![cur[c]] = Unregistered]
  <2>4. /\ Ask(c, "params", registered, lines)
        /\ registered \in {[pend EXCEPT ![cur[c]] = Unregistered],
                           [pend EXCEPT ![cur[c]] = Pending("quote", c)]}
    BY <1>3
  <2>5. answer' \in {answer, [answer EXCEPT ![c] = NoAnswer]}
        /\ UNCHANGED <<up, closing, graced>>
    BY <1>3
  <2> HIDE DEF registered
  <2> QED BY <1>1, <2>1, <2>2, <2>3, <2>4, <2>5, AskKeeps
<1>4. CASE Return(c, FALSE, NoData, "done")
  <2>1. Sound(Reply(c, FALSE, NoData, "done")) /\ NoData \in Causes /\ "done" \in Arms
    BY <1>1 DEF Sound, Reply, NoData, StrictErrorCodes, Causes, Arms
  <2> QED BY <1>1, <1>4, <2>1, FailureKeeps
<1>5. CASE Fails(c)
  BY <1>1, <1>5, FailsKeeps
<1> QED BY <1>3, <1>4, <1>5 DEF GetConID

LEMMA GetQuoteKeeps == ASSUME IInv, NEW c \in Callers, GetQuote(c) PROVE IInv'
<1>1. op[c] = "GetQuote" /\ op[c] # "none" /\ Waiting(c, "quote")
  BY WaitingMethods DEF Waiting, GetQuote
<1>2. CASE Return(c, TRUE, NoError, "done")
  <2>1. Sound(Reply(c, TRUE, NoError, "done")) /\ NoError \in Causes /\ "done" \in Arms
    BY <1>1 DEF Sound, Reply, NoError, StrictErrorCodes, Causes, Arms
  <2> QED BY <1>1, <1>2, <2>1, SuccessKeeps
<1>3. CASE QuoteFromHistory(c)
  BY <1>1, <1>3, QuoteFromHistoryKeeps
<1>4. CASE Fails(c)
  BY <1>1, <1>4, FailsKeeps
<1> QED BY <1>2, <1>3, <1>4 DEF GetQuote

LEMMA GetHistoricalBarsKeeps ==
    ASSUME IInv, NEW c \in Callers, GetHistoricalBars(c) PROVE IInv'
<1>1. op[c] \in {"GetQuote", "GetHistoricalBars"} /\ op[c] # "none"
  BY WaitingMethods DEF Waiting, GetHistoricalBars
<1>2. CASE ReturnIf(c, op[c] = "GetHistoricalBars" \/ HasData(c), "done")
  <2> DEFINE ok == op[c] = "GetHistoricalBars" \/ HasData(c)
  <2>1. ok \in BOOLEAN /\ ReturnIf(c, ok, "done")
    BY <1>2
  <2> HIDE DEF ok
  <2> QED BY <1>1, <2>1, ReturnIfKeeps
<1>3. CASE Fails(c)
  BY <1>1, <1>3, FailsKeeps
<1> QED BY <1>2, <1>3 DEF GetHistoricalBars

LEMMA GetMarketDepthKeeps ==
    ASSUME IInv, NEW c \in Callers, GetMarketDepth(c) PROVE IInv'
<1>1. op[c] = "GetMarketDepth" /\ op[c] # "none"
  BY WaitingMethods DEF Waiting, GetMarketDepth
<1>2. CASE ReturnIf(c, HasData(c), "done")
  <2> DEFINE ok == HasData(c)
  <2>1. ok \in BOOLEAN /\ ReturnIf(c, ok, "done")
    BY <1>2 DEF HasData
  <2> HIDE DEF ok
  <2> QED BY <1>1, <2>1, ReturnIfKeeps
<1>3. CASE Fails(c)
  BY <1>1, <1>3, FailsKeeps
<1> QED BY <1>2, <1>3 DEF GetMarketDepth

LEMMA GetOptionChainKeeps ==
    ASSUME IInv, NEW c \in Callers, GetOptionChain(c) PROVE IInv'
<1>1. op[c] = "GetOptionChain" /\ op[c] # "none"
  BY WaitingMethods DEF Waiting, GetOptionChain
<1>2. ASSUME NEW offered \in BOOLEAN, ReturnIf(c, Materialized(c) /\ offered, "done")
      PROVE  IInv'
  <2> DEFINE ok == Materialized(c) /\ offered
  <2>1. ok \in BOOLEAN /\ ReturnIf(c, ok, "done")
    BY <1>2
  <2>2. ok => Request(c).data = "all"
    BY DEF Materialized
  <2> HIDE DEF ok
  <2> QED BY <1>1, <2>1, <2>2, ReturnIfKeeps
<1>3. CASE Fails(c)
  BY <1>1, <1>3, FailsKeeps
<1> QED BY <1>2, <1>3 DEF GetOptionChain

(* The two requests for the metrics of an option: when done ends the wait   *)
(* before the data is complete, the cause is in the error channel.          *)
LEMMA SampleKeeps ==
    ASSUME IInv, NEW c \in Callers,
           op[c] \in {"fetchOIForContract", "GetOptionQuoteDetails"},
           Request(c).done, Return(c, TRUE, Request(c).err, "done")
    PROVE  IInv'
<1>1. op[c] # "none" /\ cur[c] \in IDs /\ Request(c).kind \in {"oi", "option"}
  BY WaitingMethods, WaitingTypes DEF KindsOf, FirstKind
<1>2. Request(c).data # "all" => Request(c).err # NoError
  BY <1>1 DEF IInv, Caused, Sampled, Request
<1>3. op[c] # "GetOptionQuoteDetails" =>
        Request(c).err \notin StrictErrorCodes \cup {354, 10167}
  BY <1>1, RoutedIsTolerated
<1>4. Sound(Reply(c, TRUE, Request(c).err, "done"))
  BY <1>2, <1>3 DEF Sound, Reply
<1>5. Request(c).err \in Causes /\ "done" \in Arms
  BY <1>1, WaitingTypes DEF Causes, Arms
<1> QED BY <1>1, <1>4, <1>5, SuccessKeeps

LEMMA SampleErrorKeeps ==
    ASSUME IInv, NEW c \in Callers, op[c] # "none", op[c] # "GetOptionChain",
           Return(c, TRUE, Request(c).err, "error")
    PROVE  IInv'
<1>1. op[c] # "GetOptionQuoteDetails" =>
        Request(c).err \notin StrictErrorCodes \cup {354, 10167}
  BY RoutedIsTolerated
<1>2. Sound(Reply(c, TRUE, Request(c).err, "error"))
  BY <1>1 DEF Sound, Reply
<1>3. Request(c).err \in Causes /\ "error" \in Arms
  BY WaitingTypes DEF Causes, Arms
<1> QED BY <1>2, <1>3, SuccessKeeps

LEMMA GetOptionQuoteDetailsKeeps ==
    ASSUME IInv, NEW c \in Callers, GetOptionQuoteDetails(c) PROVE IInv'
<1>1. op[c] = "GetOptionQuoteDetails" /\ op[c] # "none"
  BY WaitingMethods DEF Waiting, GetOptionQuoteDetails
<1>2. CASE Request(c).done /\ Return(c, TRUE, Request(c).err, "done")
  BY <1>1, <1>2, SampleKeeps
<1>3. CASE Return(c, TRUE, NoError, "timer")
  <2>1. Sound(Reply(c, TRUE, NoError, "timer")) /\ NoError \in Causes /\ "timer" \in Arms
    BY <1>1 DEF Sound, Reply, NoError, StrictErrorCodes, Causes, Arms
  <2> QED BY <1>1, <1>3, <2>1, SuccessKeeps
<1>4. CASE Return(c, TRUE, Request(c).err, "error")
  BY <1>1, <1>4, SampleErrorKeeps
<1> QED BY <1>2, <1>3, <1>4 DEF GetOptionQuoteDetails, Done

LEMMA WaitOptionMetricsKeeps ==
    ASSUME IInv, NEW c \in Callers, WaitOptionMetrics(c) PROVE IInv'
<1>1. op[c] = "fetchOIForContract" /\ op[c] # "none"
  BY WaitingMethods DEF Waiting, WaitOptionMetrics
<1>2. CASE /\ Request(c).done
           /\ graced' = [graced EXCEPT ![c] = TRUE]
           /\ UNCHANGED <<up, pend, lines, closing, op, cur, answer>>
  <2>1. TypeOK' /\ Owned'
    BY <1>1, <1>2 DEF IInv, TypeOK, Owned, Registered, Request
  <2>2. Caused' /\ AnswersSound' /\ LinesUsed'
    BY <1>2 DEF IInv, Caused, Sampled, AnswersSound, LinesUsed
  <2>3. GraceAfterDone'
    BY <1>2 DEF IInv, TypeOK, GraceAfterDone, Request
  <2> QED BY <2>1, <2>2, <2>3 DEF IInv
<1>3. CASE Return(c, TRUE, Request(c).err, "error")
  BY <1>1, <1>3, SampleErrorKeeps
<1>4. CASE Return(c, TRUE, TimedOut, "timer")
  <2>1. Sound(Reply(c, TRUE, TimedOut, "timer")) /\ TimedOut \in Causes /\ "timer" \in Arms
    BY <1>1 DEF Sound, Reply, TimedOut, StrictErrorCodes, Causes, Arms
  <2> QED BY <1>1, <1>4, <2>1, SuccessKeeps
<1> QED BY <1>2, <1>3, <1>4 DEF WaitOptionMetrics, Done

LEMMA WaitOptionMetricsGraceKeeps ==
    ASSUME IInv, NEW c \in Callers, WaitOptionMetricsGrace(c) PROVE IInv'
<1>1. op[c] = "fetchOIForContract" /\ Request(c).done
  BY DEF WaitOptionMetricsGrace, IInv, Owned, GraceAfterDone
<1> QED BY <1>1, SampleKeeps DEF WaitOptionMetricsGrace

LEMMA GetExecutionsKeeps ==
    ASSUME IInv, NEW c \in Callers, GetExecutions(c) PROVE IInv'
<1>1. op[c] = "GetExecutions" /\ op[c] # "none"
  BY WaitingMethods DEF Waiting, GetExecutions
<1>2. CASE Return(c, TRUE, NoError, "done")
  <2>1. Sound(Reply(c, TRUE, NoError, "done")) /\ NoError \in Causes /\ "done" \in Arms
    BY <1>1 DEF Sound, Reply, NoError, StrictErrorCodes, Causes, Arms
  <2> QED BY <1>1, <1>2, <2>1, SuccessKeeps
<1>3. CASE Fails(c)
  BY <1>1, <1>3, FailsKeeps
<1>4. CASE Return(c, FALSE, TimedOut, "timer")
  <2>1. Sound(Reply(c, FALSE, TimedOut, "timer")) /\ TimedOut \in Causes /\ "timer" \in Arms
    BY <1>1 DEF Sound, Reply, TimedOut, StrictErrorCodes, Causes, Arms
  <2> QED BY <1>1, <1>4, <2>1, FailureKeeps
<1> QED BY <1>2, <1>3, <1>4 DEF GetExecutions

LEMMA MethodKeeps == ASSUME IInv, NEW c \in Callers, Method(c) PROVE IInv'
BY GetQuoteKeeps, GetHistoricalBarsKeeps, GetMarketDepthKeeps, GetConIDKeeps,
   GetOptionChainKeeps, GetOptionQuoteDetailsKeeps, WaitOptionMetricsKeeps,
   WaitOptionMetricsGraceKeeps, GetExecutionsKeeps DEF Method

(* Starting a call.                                                         *)
LEMMA CallKeeps ==
    ASSUME IInv, NEW c \in Callers, NEW o \in Methods[c], Call(c, o)
    PROVE  IInv'
<1>1. o \in Ops /\ FirstKind(o) \in KindsOf(o)
  BY MethodsAssumption DEF KindsOf
<1>2. op[c] = "none" /\ cur[c] \notin lines /\ ~graced[c]
  BY IDsAssumption DEF Call, IInv, TypeOK, Owned, NoID
<1>3. /\ Ask(c, FirstKind(o), pend, lines) /\ op' = [op EXCEPT ![c] = o]
      /\ answer' \in {answer, [answer EXCEPT ![c] = NoAnswer]}
      /\ UNCHANGED <<up, closing, graced>>
  BY DEF Call
<1> QED BY <1>1, <1>2, <1>3, AskKeeps

LEMMA CallRefusedKeeps ==
    ASSUME IInv, NEW c \in Callers, NEW o \in Methods[c], CallRefused(c, o)
    PROVE  IInv'
<1> DEFINE refused == [op |-> o, ok |-> FALSE, data |-> "none", arm |-> "none",
                       cause |-> NotConnected]
<1>1. o \in Ops
  BY MethodsAssumption
<1>2. answer' = [answer EXCEPT ![c] = refused]
      /\ UNCHANGED <<up, pend, lines, closing, op, cur, graced>>
  BY DEF CallRefused
<1>3. TypeOK'
  BY <1>1, <1>2 DEF IInv, TypeOK, Amounts
<1>4. Sound(refused)
  BY DEF Sound, NotConnected, StrictErrorCodes
<1>5. AnswersSound'
  BY <1>2, <1>4 DEF IInv, TypeOK, AnswersSound
<1>6. Owned' /\ Caused' /\ GraceAfterDone' /\ LinesUsed'
  BY <1>2 DEF IInv, Owned, Registered, Request, Caused, Sampled, GraceAfterDone,
              LinesUsed
<1> QED BY <1>3, <1>5, <1>6 DEF IInv

-----------------------------------------------------------------------------
LEMMA NextKeeps == IInv /\ [Next]_vars => IInv'
<1> SUFFICES ASSUME IInv, [Next]_vars PROVE IInv'
    OBVIOUS
<1>1. ASSUME NEW c \in Callers, CtxDone(c) PROVE IInv'
  BY <1>1, CtxDoneKeeps
<1>2. ASSUME NEW c \in Callers, Method(c) PROVE IInv'
  BY <1>2, MethodKeeps
<1>3. ASSUME NEW c \in Callers, NEW o \in Methods[c], Call(c, o) \/ CallRefused(c, o)
      PROVE  IInv'
  BY <1>3, CallKeeps, CallRefusedKeeps
<1>4. ASSUME NEW id \in IDs, Callback(id) PROVE IInv'
  BY <1>4, CallbackKeeps
<1>5. CASE ErrorCloses \/ ConnectionClosed
  BY <1>5, ErrorClosesKeeps, ConnectionClosedKeeps
<1>6. CASE UNCHANGED vars
  BY <1>6 DEF vars, IInv, TypeOK, Owned, Registered, Request, Caused, Sampled,
              GraceAfterDone, AnswersSound, LinesUsed
<1> QED BY <1>1, <1>2, <1>3, <1>4, <1>5, <1>6 DEF Next

THEOREM InvariantHolds == Spec => []IInv
BY InitIInv, NextKeeps, PTL DEF Spec

(* Every reachable state of the client's requests is well-typed.            *)
THEOREM TypeCorrect == Spec => []TypeOK
<1>1. IInv => TypeOK
  BY DEF IInv
<1> QED BY <1>1, InvariantHolds, PTL

(* No call leaves a pending request or a line at IB behind, in whatever     *)
(* order ticks, errors, timers and contexts end its requests.               *)
THEOREM NothingIsLeaked == Spec => []NothingLeaks
<1>1. IInv => NothingLeaks
  BY DEF IInv, NothingLeaks, Owned, LinesUsed
<1> QED BY <1>1, InvariantHolds, PTL

(* The error that cut an option's metrics short is never lost to the race   *)
(* of Error()'s two steps with the caller's select, for any error codes.    *)
THEOREM CausesAreKept == Spec => []CauseKept
<1>1. IInv => CauseKept
  BY DEF IInv, CauseKept, AnswersSound, Sound
<1> QED BY <1>1, InvariantHolds, PTL

(* The codes that the tolerant requests ignore fail none of their calls.    *)
THEOREM CallsAreTolerant == Spec => []TolerantCalls
<1>1. IInv => TolerantCalls
  BY DEF IInv, TolerantCalls, AnswersSound, Sound
<1> QED BY <1>1, InvariantHolds, PTL

(* An option chain is never built from an answer that an error cut short.   *)
THEOREM ChainsAreWhole == Spec => []ChainIsWhole
<1>1. IInv => ChainIsWhole
  BY DEF IInv, ChainIsWhole, AnswersSound, Sound
<1> QED BY <1>1, InvariantHolds, PTL

-----------------------------------------------------------------------------
(* The bound on request IDs.  The code counts them up, the model has only   *)
(* IDs to give; that they never run out means that no behaviour is missing. *)

(* A call that may register a request.                                      *)
MayAsk(c) == op[c] = "none" \/ Waiting(c, "quote") \/ Waiting(c, "conid")

(* No call ever has more than two requests, and one that registers another  *)
(* finds an ID for it.                                                      *)
IDsSuffice ==
    \A c \in Callers :
        /\ Cardinality(Mine(c)) <= 2
        /\ MayAsk(c) => \E id \in IDs : IsNextReqID(id)

(* Beside the request it waits for a call has at most the one it has left   *)
(* behind, and none before it does so.                                      *)
Sparse ==
    \A c \in Callers :
        /\ \A x, y \in Mine(c) \ {cur[c]} : x = y
        /\ op[c] # "none" /\ Request(c).kind \in {"quote", "conid"} => Mine(c) \subseteq {cur[c]}

(* What a step does to the requests of a call.                              *)
Same ==
    /\ UNCHANGED <<cur, op>>
    /\ \A id \in IDs : pend'[id].kind = pend[id].kind /\ pend'[id].by = pend[id].by

Leaves(c) ==
    /\ pend' = [id \in IDs |-> IF id \in Mine(c) THEN Unregistered ELSE pend[id]]
    /\ op' = [op EXCEPT ![c] = "none"] /\ cur' = [cur EXCEPT ![c] = NoID]

Begins(c) ==
    /\ op[c] = "none"
    /\ \E id \in Free, kind \in Kinds, o \in Ops :
          /\ pend' = [pend EXCEPT ![id] = Pending(kind, c)]
          /\ op' = [op EXCEPT ![c] = o] /\ cur' = [cur EXCEPT ![c] = id]

GoesOn(c) ==
    /\ op[c] # "none" /\ Request(c).kind \in {"quote", "conid"} /\ op' = op
    /\ \E id \in Free, kind \in {"bars", "params"}, old \in {Pending("quote", c), Unregistered} :
          /\ pend' = [[pend EXCEPT ![cur[c]] = old] EXCEPT ![id] = Pending(kind, c)]
          /\ cur' = [cur EXCEPT ![c] = id]

LEMMA ReturnLeaves ==
    ASSUME NEW c \in Callers, NEW ok, NEW cause, NEW arm, Return(c, ok, cause, arm)
    PROVE  Leaves(c)
BY DEF Return, Leaves

LEMMA HistoryGoesOn ==
    ASSUME NEW c \in Callers, Waiting(c, "quote"), QuoteFromHistory(c)
    PROVE  Leaves(c) \/ GoesOn(c)
<1>1. CASE ~up
  BY <1>1, ReturnLeaves DEF QuoteFromHistory
<1>2. CASE up
  <2>1. Ask(c, "bars", [pend EXCEPT ![cur[c]] = Pending("quote", c)], WithoutStream(c))
        /\ op' = op
    BY <1>2 DEF QuoteFromHistory
  <2> QED BY <2>1 DEF Ask, IsNextReqID, GoesOn, Waiting
<1> QED BY <1>1, <1>2

LEMMA MethodsSorted ==
    ASSUME IInv, NEW c \in Callers, Method(c) \/ CtxDone(c)
    PROVE  Same \/ Leaves(c) \/ GoesOn(c)
<1>1. CASE GetQuote(c)
  BY <1>1, ReturnLeaves, HistoryGoesOn DEF GetQuote, Fails
<1>2. CASE GetHistoricalBars(c) \/ GetMarketDepth(c) \/ GetOptionChain(c)
           \/ GetOptionQuoteDetails(c) \/ WaitOptionMetricsGrace(c) \/ GetExecutions(c)
           \/ CtxDone(c)
  BY <1>2, ReturnLeaves DEF GetHistoricalBars, GetMarketDepth, GetOptionChain,
     GetOptionQuoteDetails, WaitOptionMetricsGrace, GetExecutions, CtxDone, ReturnIf, Fails
<1>3. CASE GetConID(c)
  <2>1. CASE Ask(c, "params", [pend EXCEPT ![cur[c]] = Unregistered], lines) /\ op' = op
    BY <1>3, <2>1 DEF Ask, IsNextReqID, GoesOn, Waiting, GetConID
  <2> QED BY <1>3, <2>1, ReturnLeaves DEF GetConID, Fails
<1>4. CASE WaitOptionMetrics(c)
  BY <1>4, ReturnLeaves DEF WaitOptionMetrics, Same
<1> QED BY <1>1, <1>2, <1>3, <1>4 DEF Method

LEMMA StepsSorted ==
    ASSUME IInv, [Next]_vars
    PROVE  Same \/ \E c \in Callers : Leaves(c) \/ Begins(c) \/ GoesOn(c)
<1>1. CASE UNCHANGED vars
  BY <1>1 DEF vars, Same
<1>2. ASSUME NEW c \in Callers, CtxDone(c) \/ Method(c)
      PROVE  Same \/ Leaves(c) \/ GoesOn(c)
  BY <1>2, MethodsSorted
<1>3. ASSUME NEW c \in Callers, NEW o \in Methods[c], Call(c, o) PROVE Begins(c)
  <2>1. o \in Ops
    BY MethodsAssumption
  <2>2. FirstKind(o) \in Kinds
    BY <2>1 DEF Ops, FirstKind, Kinds, Lists
  <2> QED BY <1>3, <2>1, <2>2 DEF Call, Ask, IsNextReqID, Begins
<1>4. ASSUME NEW c \in Callers, NEW o \in Methods[c], CallRefused(c, o) PROVE Same
  BY <1>4 DEF CallRefused, Same
<1>5. ASSUME NEW id \in IDs, Callback(id) PROVE Same
  <2>1. ASSUME NEW data, NEW done, Update(id, data, done) PROVE Same
    BY <2>1 DEF Update, Same, IInv, TypeOK
  <2>2. ASSUME NEW code \in Codes, ErrorRouted(id, code) PROVE Same
    BY <2>2 DEF ErrorRouted, ChannelOf, Same, IInv, TypeOK
  <2> QED BY <1>5, <2>1, <2>2 DEF Callback, Tick, DepthRow, Row, End
<1>6. CASE ErrorCloses
  BY <1>6 DEF ErrorCloses, Same, IInv, TypeOK
<1>7. CASE ConnectionClosed
  BY <1>7 DEF ConnectionClosed, Same
<1> QED BY <1>1, <1>2, <1>3, <1>4, <1>5, <1>6, <1>7 DEF Next

(* Who waits for what, and whose the requests are.                          *)
LEMMA OwnedFacts ==
    ASSUME IInv
    PROVE  /\ pend \in [IDs -> [kind : Kinds \cup {"none"}, by : Callers \cup {"none"},
                                data : Amounts, done : BOOLEAN,
                                err : Codes \cup {NoError}]]
           /\ cur \in [Callers -> IDs \cup {NoID}] /\ op \in [Callers -> Ops \cup {"none"}]
           /\ \A c \in Callers : op[c] # "none" =>
                 cur[c] \in IDs /\ Registered(cur[c]) /\ Request(c).by = c
           /\ \A c \in Callers : op[c] = "none" => Mine(c) = {}
           /\ \A id \in IDs : Registered(id) => pend[id].by \in Callers
BY DEF IInv, TypeOK, Owned, Mine

LEMMA SparseStep ==
    ASSUME IInv, Sparse, [Next]_vars
    PROVE  Sparse'
<1> DEFINE Cell == [kind : Kinds \cup {"none"}, by : Callers \cup {"none"},
                    data : Amounts, done : BOOLEAN, err : Codes \cup {NoError}]
<1>0. /\ pend \in [IDs -> Cell]
      /\ cur \in [Callers -> IDs \cup {NoID}] /\ op \in [Callers -> Ops \cup {"none"}]
      /\ \A d \in Callers : op[d] # "none" =>
            cur[d] \in IDs /\ Registered(cur[d]) /\ Request(d).by = d
      /\ \A d \in Callers : op[d] = "none" => Mine(d) = {}
  BY OwnedFacts
<1> HIDE DEF Cell
<1>1. CASE Same
  <2>1. \A d \in Callers : Mine(d)' = Mine(d)
    BY <1>1 DEF Same, Mine, Registered
  <2>2. \A d \in Callers : op[d] # "none" => Request(d)'.kind = Request(d).kind
    BY <1>0, <1>1 DEF Same, Request
  <2> QED BY <1>1, <2>1, <2>2 DEF Sparse, Same
<1>2. ASSUME NEW c \in Callers, Leaves(c) PROVE Sparse'
  <2>1. Mine(c)' = {} /\ op'[c] = "none"
    BY <1>0, <1>2 DEF Leaves, Mine, Registered, Unregistered, Pending
  <2>2. ASSUME NEW d \in Callers, d # c PROVE Mine(d)' = Mine(d)
    BY <1>0, <1>2, <2>2 DEF Leaves, Mine, Registered, Unregistered, Pending
  <2>3. ASSUME NEW d \in Callers, d # c
        PROVE  /\ op'[d] = op[d] /\ cur'[d] = cur[d]
               /\ op[d] # "none" => Request(d)' = Request(d)
    <3>1. op'[d] = op[d] /\ cur'[d] = cur[d]
      BY <1>0, <1>2, <2>3 DEF Leaves
    <3>2. ASSUME op[d] # "none" PROVE pend'[cur[d]] = pend[cur[d]]
      BY <1>0, <1>2, <2>3, <3>2 DEF Leaves, Mine, Request
    <3> QED BY <3>1, <3>2 DEF Request
  <2> QED BY <2>1, <2>2, <2>3 DEF Sparse
<1>3. ASSUME NEW c \in Callers, Begins(c) \/ GoesOn(c) PROVE Sparse'
  <2> DEFINE Goes(id) ==
           /\ cur' = [cur EXCEPT ![c] = id]
           /\ \A i \in IDs \ {id, cur[c]} : pend'[i] = pend[i]
           /\ \A i \in IDs \ {id} : i \in Mine(c)' => i = cur[c]
           /\ pend'[id].by = c
           /\ cur[c] \in IDs \ {id} => pend'[cur[c]].by = c \/ pend'[cur[c]].kind = "none"
                                       \/ op[c] = "none"
           /\ op[c] # "none" => pend'[id].kind \in {"bars", "params"}
           /\ op[c] # "none" => pend[cur[c]].by = c
           /\ op[c] = "none" => \A i \in IDs \ {id} : pend'[i] = pend[i] /\ i \notin Mine(c)'
           /\ \A d \in Callers \ {c} : op'[d] = op[d]
  <2>1. PICK id \in Free : Goes(id)
    <3>1. CASE Begins(c)
      <4>1. PICK id \in Free, kind \in Kinds, o \in Ops :
               /\ pend' = [pend EXCEPT ![id] = Pending(kind, c)]
               /\ op' = [op EXCEPT ![c] = o] /\ cur' = [cur EXCEPT ![c] = id]
        BY <3>1 DEF Begins
      <4>2. pend'[id].by = c /\ \A i \in IDs \ {id} : pend'[i] = pend[i]
        BY <1>0, <4>1 DEF Free, Pending
      <4>3. op[c] = "none" /\ Mine(c) = {}
        BY <1>0, <3>1 DEF Begins
      <4>4. \A i \in IDs \ {id} : i \notin Mine(c)'
        BY <4>2, <4>3 DEF Mine, Registered
      <4>5. \A d \in Callers \ {c} : op'[d] = op[d]
        BY <1>0, <4>1
      <4>6. Goes(id)
        BY <4>1, <4>2, <4>3, <4>4, <4>5
      <4> QED BY <4>6
    <3>2. CASE GoesOn(c)
      <4>1. PICK id \in Free, kind \in {"bars", "params"},
                 old \in {Pending("quote", c), Unregistered} :
               /\ pend' = [[pend EXCEPT ![cur[c]] = old] EXCEPT ![id] = Pending(kind, c)]
               /\ cur' = [cur EXCEPT ![c] = id]
        BY <3>2 DEF GoesOn
      <4>2. op[c] # "none" /\ op' = op /\ cur[c] \in IDs /\ pend[cur[c]].by = c
            /\ Mine(c) \subseteq {cur[c]}
        BY <1>0, <3>2 DEF GoesOn, Sparse, Request
      <4>3. /\ pend'[id] = Pending(kind, c)
            /\ \A i \in IDs \ {id, cur[c]} : pend'[i] = pend[i]
            /\ cur[c] # id => pend'[cur[c]] = old
        BY <1>0, <4>1, <4>2 DEF Free
      <4>4. \A i \in IDs \ {id} : i \in Mine(c)' => i = cur[c]
        BY <4>2, <4>3 DEF Mine, Registered
      <4>5. old.by = c \/ old.kind = "none"
        BY DEF Pending, Unregistered
      <4>6. pend'[id].by = c /\ pend'[id].kind \in {"bars", "params"}
        BY <4>3 DEF Pending
      <4>7. cur[c] \in IDs \ {id} => pend'[cur[c]].by = c \/ pend'[cur[c]].kind = "none"
        BY <4>3, <4>5
      <4>8. Goes(id)
        BY <4>1, <4>2, <4>3, <4>4, <4>6, <4>7
      <4> QED BY <4>8
    <3> QED BY <1>3, <3>1, <3>2
  <2>2. cur'[c] = id /\ id \in IDs /\ ~Registered(id) /\ \A d \in Callers \ {c} : cur'[d] = cur[d]
    BY <1>0, <2>1 DEF Free
  <2>3. \A x \in Mine(c)' \ {cur'[c]} : x = cur[c]
    BY <2>1, <2>2 DEF Mine
  <2>4. op'[c] # "none" /\ Request(c)'.kind \in {"quote", "conid"} => Mine(c)' \subseteq {cur'[c]}
    BY <1>0, <2>1, <2>2, <2>3 DEF Request, Mine
  <2>5. ASSUME NEW d \in Callers, d # c PROVE Mine(d)' = Mine(d)
    <3>1. ASSUME NEW i \in IDs PROVE i \in Mine(d)' <=> i \in Mine(d)
      <4>1. CASE i = id
        BY <2>1, <2>2, <2>5, <4>1 DEF Mine
      <4>2. CASE i # id /\ i = cur[c]
        BY <1>0, <2>1, <2>5, <4>2 DEF Mine, Registered
      <4>3. CASE i # id /\ i # cur[c]
        BY <2>1, <4>3 DEF Mine, Registered
      <4> QED BY <4>1, <4>2, <4>3
    <3> QED BY <3>1 DEF Mine
  <2>6. ASSUME NEW d \in Callers, d # c, op'[d] # "none" PROVE Request(d)' = Request(d)
    <3>1. op[d] # "none" /\ cur'[d] = cur[d] /\ cur[d] \in IDs
          /\ Registered(cur[d]) /\ pend[cur[d]].by = d
      BY <1>0, <2>1, <2>2, <2>6 DEF Request
    <3>2. cur[d] # id
      BY <2>2, <3>1
    <3>3. cur[d] = cur[c] => op[c] = "none"
      BY <2>1, <2>6, <3>1
    <3>4. pend'[cur[d]] = pend[cur[d]]
      BY <2>1, <3>1, <3>2, <3>3
    <3> QED BY <3>1, <3>4 DEF Request
  <2>7. ASSUME NEW d \in Callers, d # c PROVE op'[d] = op[d] /\ cur'[d] = cur[d]
    BY <2>1, <2>2, <2>7
  <2> QED BY <2>3, <2>4, <2>5, <2>6, <2>7 DEF Sparse
<1> QED BY <1>1, <1>2, <1>3, StepsSorted

LEMMA SparseIsSmall ==
    ASSUME Sparse, NEW c \in Callers
    PROVE  IsFiniteSet(Mine(c)) /\ Cardinality(Mine(c)) <= 2
<1>1. IsFiniteSet(Mine(c))
  BY IDsAssumption, FS_Subset DEF Mine
<1>2. CASE Mine(c) \subseteq {cur[c]}
  <2>1. IsFiniteSet({cur[c]}) /\ Cardinality({cur[c]}) = 1
    BY FS_Singleton
  <2>2. Cardinality(Mine(c)) <= 1 /\ Cardinality(Mine(c)) \in Nat
    BY <1>1, <1>2, <2>1, FS_Subset, FS_CardinalityType
  <2> QED BY <1>1, <2>2
<1>3. CASE ~(Mine(c) \subseteq {cur[c]})
  <2>1. PICK x \in Mine(c) : x # cur[c]
    BY <1>3
  <2>2. Mine(c) \subseteq {cur[c]} \cup {x}
    BY <2>1 DEF Sparse
  <2>3. IsFiniteSet({cur[c]}) /\ Cardinality({cur[c]}) = 1
    BY FS_Singleton
  <2>4. IsFiniteSet({cur[c]} \cup {x}) /\ Cardinality({cur[c]} \cup {x}) = 2
    BY <2>1, <2>3, FS_AddElement
  <2>5. Cardinality(Mine(c)) <= 2
    BY <2>2, <2>4, FS_Subset
  <2> QED BY <1>1, <2>5
<1> QED BY <1>2, <1>3

(* Every ID in use is one of two of some call: the one it waits for, or the *)
(* other.  A call that may ask has no other, which leaves room for an ID    *)
(* that is only being closed.                                               *)
LEMMA SomeIDIsFree ==
    ASSUME IInv, Sparse, NEW c \in Callers, MayAsk(c)
    PROVE  Free # {}
<1> DEFINE Place == [id \in IDs |->
      IF Registered(id) THEN <<pend[id].by, IF id = cur[pend[id].by] THEN 1 ELSE 2>>
                        ELSE <<c, 2>>]
           Places == Callers \X {1, 2}
<1>0. /\ \A d \in Callers : op[d] = "none" => Mine(d) = {}
      /\ \A id \in IDs : Registered(id) => pend[id].by \in Callers
  BY OwnedFacts
<1>1. Mine(c) \subseteq {cur[c]}
  BY <1>0 DEF MayAsk, Waiting, Sparse
<1>2. SUFFICES ASSUME Free = {} PROVE FALSE
  OBVIOUS
<1>3. \A id \in IDs : Registered(id) \/ id = closing
  BY <1>2 DEF Free
<1>4. Place \in [IDs -> Places]
  BY <1>0
<1>5. IsFiniteSet(Places) /\ Cardinality(Places) < Cardinality(IDs)
  <2>1. IsFiniteSet({1, 2}) /\ Cardinality({1, 2}) = 2
    <3>1. {1, 2} = {1} \cup {2}
      OBVIOUS
    <3>2. IsFiniteSet({1}) /\ Cardinality({1}) = 1
      BY FS_Singleton
    <3>3. IsFiniteSet({1} \cup {2}) /\ Cardinality({1} \cup {2}) = 2
      BY <3>2, FS_AddElement
    <3> QED BY <3>1, <3>3
  <2>2. Cardinality(Callers) \in Nat
    BY IDsAssumption, FS_CardinalityType
  <2>3. IsFiniteSet(Places) /\ Cardinality(Places) = Cardinality(Callers) * 2
    BY IDsAssumption, <2>1, FS_Product
  <2> HIDE DEF Places
  <2> QED BY IDsAssumption, <2>2, <2>3
<1>6. PICK x, y \in IDs : x # y /\ Place[x] = Place[y]
  <2> HIDE DEF Places
  <2>1. IsFiniteSet(IDs)
    BY IDsAssumption
  <2>2. ASSUME NEW f \in [IDs -> Places] PROVE \E x, y \in IDs : x # y /\ f[x] = f[y]
    BY <1>5, <2>1, <2>2, FS_PigeonHole, Zenon
  <2> HIDE DEF Place
  <2> QED BY <1>4, <2>2, Zenon
<1>7. CASE Registered(x) /\ Registered(y)
  <2>1. PICK d \in Callers : pend[x].by = d /\ pend[y].by = d
    BY <1>0, <1>6, <1>7
  <2>2. x \in Mine(d) /\ y \in Mine(d)
    BY <1>7, <2>1 DEF Mine
  <2>3. x = cur[d] <=> y = cur[d]
    BY <1>6, <1>7, <2>1
  <2> QED BY <1>6, <2>2, <2>3 DEF Sparse
<1>8. ASSUME NEW i \in IDs, NEW j \in IDs, Registered(i), ~Registered(j), Place[i] = Place[j]
      PROVE  FALSE
  <2>1. pend[i].by = c /\ i # cur[c]
    BY <1>8
  <2> QED BY <1>1, <1>8, <2>1 DEF Mine
<1> QED BY <1>3, <1>6, <1>7, <1>8

LEMMA SparseSuffices == IInv /\ Sparse => IDsSuffice
<1> SUFFICES ASSUME IInv, Sparse PROVE IDsSuffice
    OBVIOUS
<1>1. ASSUME NEW c \in Callers, MayAsk(c) PROVE \E id \in IDs : IsNextReqID(id)
  <2>1. Free # {} /\ Free \subseteq Nat /\ Free \subseteq IDs
    BY <1>1, SomeIDIsFree, IDsAssumption DEF Free
  <2>2. PICK m \in Free : \A n \in Free : m <= n
    BY <2>1, LeastNumber
  <2> QED BY <2>1, <2>2 DEF IsNextReqID
<1> QED BY <1>1, SparseIsSmall DEF IDsSuffice

(* No method ever has more than two of its requests pending at once, the    *)
(* quote whose fallback asks for the daily bars included, and none that     *)
(* asks IB for something is held up by the supply of request IDs: so many   *)
(* as IDsAssumption asks for are as good as the code's unbounded counter.   *)
THEOREM IDsNeverRunOut == Spec => []IDsSuffice
<1>1. Init => Sparse
  <2> SUFFICES ASSUME Init PROVE \A c \in Callers : Mine(c) = {}
      BY DEF Sparse
  <2> QED BY DEF Init, Mine, Registered, Unregistered, Pending
<1>2. IInv /\ Sparse /\ [Next]_vars => Sparse'
  BY SparseStep
<1> QED BY <1>1, <1>2, SparseSuffices, InvariantHolds, PTL DEF Spec
=============================================================================
