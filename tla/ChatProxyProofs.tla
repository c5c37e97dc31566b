-------------------------- MODULE ChatProxyProofs --------------------------
(***************************************************************************)
(* Theorems about ChatProxy, for every value of its constants: any number  *)
(* of requests, users, models and permits, and any set of faults.          *)
(*                                                                         *)
(* A request is followed through the positions of its coroutine: what its  *)
(* record says at each of them (Controlled), and what the ledger then says *)
(* of its row (Recorded).  The requests meet in three places only.  Each   *)
(* row is named by one request, the permits are with those that are at the *)
(* upstream, and the queue is of those that wait.                          *)
(***************************************************************************)
EXTENDS ChatProxy, FiniteSetTheorems, SequenceTheorems, TLAPS

\* What is proved of the two components, for those of this module.
QP == INSTANCE QuotaProofs
LP == INSTANCE ConcurrencyLimiterProofs WITH Clients <- Requests

-----------------------------------------------------------------------------
(***************************************************************************)
(* The inductive invariant.                                                *)
(***************************************************************************)
InBlock == {"calling", "yielding", "closing"}
Finalizations == {"finalize_success", "finalize_failure"}

\* What the record q of a request says, by its position.
Controlled(q) ==
    /\ q.pc \in {"idle", "validating"} =>
           /\ q.job = "none" /\ q.reply = "none" /\ q.row = 0
           /\ q.upstream = "none" /\ q.fault = "none"
    /\ q.pc = "idle" => ~q.stream
    /\ q.pc = "reserving" =>
           \/ q.job = "reserve" /\ q.reply = "none" /\ q.row = 0
           \/ q.job = "none" /\ q.reply = "ok" /\ q.row # 0
           \/ q.job = "none" /\ q.reply \in {"rejected", "error"} /\ q.row = 0
    /\ q.pc \in {"waiting"} \cup InBlock => q.job = "none" /\ q.row # 0
    /\ q.pc \in {"yielding", "closing"} => q.stream
    /\ q.pc = "failing" =>
           /\ q.row # 0
           /\ \/ q.job = "finalize_failure" /\ q.reply = "none"
              \/ q.job = "none" /\ q.reply \in {"ok", "error"}
    /\ q.pc = "succeeding" =>
           /\ q.row # 0
           /\ \/ q.job = "finalize_success" /\ q.reply = "none"
              \/ q.job = "none" /\ q.reply \in {"ok", "error"}
           /\ ~q.stream => q.usage \in Usages
    /\ q.pc \in {"reserving", "waiting", "failing"} \cup InBlock =>
           q.upstream # "complete"
    /\ q.pc = "succeeding" => q.upstream = "complete"
    /\ q.pc \in {"reserving", "failing", "succeeding"} /\ q.reply = "error"
           => q.fault = "locked"
    /\ q.job = "reserve" => q.row = 0
    /\ q.job \in Finalizations => q.row # 0
    \* Only streams are cancelled, so only they leave jobs behind.
    /\ q.cancelled \/ q.fault = "disconnect" => q.stream
    /\ q.pc = "done" /\ q.job # "none" => q.stream /\ q.fault # "none"
    /\ ~q.stream /\ q.pc # "done" => q.http = "none"
    \* Only streams whose client left drop the generator of OllamaClient.
    /\ q.cancelled \/ q.pc = "closing" \/ q.inner = "dropped" => "disconnect" \in Faults
    /\ q.inner = "dropped" =>
           /\ q.stream /\ q.row # 0 /\ q.pc \in {"failing", "done"}
           /\ q.job # "finalize_success"

\* The code of q still holds its row.
Holds(q) ==
    /\ q.row # 0
    /\ \/ q.pc \in {"reserving", "waiting"} \cup InBlock
       \/ q.job \in Finalizations

\* What the row says that q names, if it names one.
Recorded(q, row) ==
    /\ Holds(q) => row.status = "reserved"
    /\ q.inner = "dropped" => row.status # "success"
    /\ q.pc = "failing" /\ q.reply = "ok" => row.status = "failed"
    /\ q.pc = "succeeding" /\ q.reply = "ok" =>
           /\ row.status = "success"
           /\ ~q.stream => row.total_tokens = q.usage
    \* A coroutine that met no fault ends with its row settled, unless it is
    \* a plain call that broke.
    /\ q.pc = "done" /\ q.stream /\ q.fault = "none" =>
           row.status = (IF q.upstream = "complete" THEN "success" ELSE "failed")
    /\ q.pc = "done" /\ ~q.stream =>
           /\ q.http = "200" => row.status = "success" /\ row.total_tokens = q.usage
           /\ q.http = "502" => row.status = "failed"
           /\ q.fault = "none" /\ row.status = "reserved" => q.upstream = "broken"

\* What is said of it if it names none.
Unrecorded(q) ==
    q.pc = "done" /\ ~q.stream => q.http \notin {"200", "502"}

Recording(q, rows) ==
    IF q.row = 0
    THEN Unrecorded(q)
    ELSE /\ q.row \in 1 .. Len(rows)
         /\ Recorded(q, rows[q.row])
         /\ q.pc = "done" /\ ~q.stream => q.http \notin {"400", "429"}

\* No two requests name the same row.
OwnRows ==
    \A r, s \in Requests : r # s /\ req[r].row = req[s].row => req[r].row = 0

Waiting == {r \in Requests : req[r].pc = "waiting"}

\* The permits and the queue are as the positions say.
Placed == holders = AtUpstream /\ L!Waiters = Waiting

\* The inductive invariant.
IInv ==
    /\ TypeOK
    /\ LP!LInv
    /\ OwnRows
    /\ Placed
    /\ \A r \in Requests : Controlled(req[r]) /\ Recording(req[r], usage_events)

-----------------------------------------------------------------------------
(***************************************************************************)
(* Each component is in scope twice, once with what is proved of it: Q and *)
(* QP are the same ledger, L and LP the same limiter.                      *)
(***************************************************************************)

\* The constants are as the proofs about the ledger assume them.
LEMMA LedgerAssumptions ==
    /\ QP!EstimatesAssumption /\ QP!UsagesAssumption /\ QP!NoLimitAssumption
    /\ QP!SettingsAssumption /\ QP!WindowAssumption /\ QP!DayAssumption
    /\ QP!BoundsAssumption
  BY QuotaAssumptions
     DEF Q!EstimatesAssumption, Q!UsagesAssumption, Q!NoLimitAssumption,
         Q!SettingsAssumption, Q!WindowAssumption, Q!DayAssumption,
         Q!BoundsAssumption, Q!Limits, Q!Limit,
         QP!EstimatesAssumption, QP!UsagesAssumption, QP!NoLimitAssumption,
         QP!SettingsAssumption, QP!WindowAssumption, QP!DayAssumption,
         QP!BoundsAssumption, QP!Limits, QP!Limit

\* They count alike.
LEMMA SameCount ==
    ASSUME NEW S
    PROVE  /\ Q!Cardinality(S) = Cardinality(S)
           /\ QP!Cardinality(S) = Cardinality(S)
  BY DEF Q!Cardinality, QP!Cardinality, Cardinality

\* They add alike.
LEMMA SameSum ==
    ASSUME NEW f
    PROVE  /\ Q!SumFunction(f) = SumFunction(f)
           /\ QP!SumFunction(f) = SumFunction(f)
  BY DEF Q!SumFunction, Q!SumFunctionOnSet, Q!FoldFunctionOnSet, Q!MapThenFoldSet,
         QP!SumFunction, QP!SumFunctionOnSet, QP!FoldFunctionOnSet, QP!MapThenFoldSet,
         SumFunction, SumFunctionOnSet, FoldFunctionOnSet, MapThenFoldSet

\* The same tables are well typed.
LEMMA SameLedgerType == Q!TypeOK <=> QP!TypeOK
  BY DEF Q!TypeOK, Q!Event, Q!Statuses, Q!Times, Q!Total, Q!Limits, Q!Limit,
         Q!Grant, Q!Dates, Q!Date, Q!Ids,
         QP!TypeOK, QP!Event, QP!Statuses, QP!Times, QP!Total, QP!Limits, QP!Limit,
         QP!Grant, QP!Dates, QP!Date, QP!Ids

\* The same requests are admitted, and the same is noted of them.
LEMMA SameAdmits ==
    ASSUME NEW u, NEW n, NEW r, NEW d
    PROVE  /\ Q!AdmitsAt(u, n, r, d) <=> QP!AdmitsAt(u, n, r, d)
           /\ Q!GrantOf(u, n, r, d) = QP!GrantOf(u, n, r, d)
  <1>1. Q!AdmitsAt(u, n, r, d) <=> QP!AdmitsAt(u, n, r, d)
    BY SameCount, SameSum
       DEF Q!AdmitsAt, Q!RateOkAt, Q!DailyOkAt, Q!TotalOk, Q!RowsSince, Q!RowsOnDate,
           Q!CountedRows, Q!Counted, Q!Tokens, Q!Date, Q!NonNegative,
           QP!AdmitsAt, QP!RateOkAt, QP!DailyOkAt, QP!TotalOk, QP!RowsSince,
           QP!RowsOnDate, QP!CountedRows, QP!Counted, QP!Tokens, QP!Date, QP!NonNegative
  <1>2. Q!GrantOf(u, n, r, d) = QP!GrantOf(u, n, r, d)
    BY DEF Q!GrantOf, Q!Later, Q!NonNegative, Q!Date,
           QP!GrantOf, QP!Later, QP!NonNegative, QP!Date
  <1>3. QED
    BY <1>1, <1>2

\* The same rows are inserted.
LEMMA SameInsert ==
    ASSUME NEW u, NEW m, NEW n, NEW r, NEW d
    PROVE  Q!InsertReserved(u, m, n, r, d) <=> QP!InsertReserved(u, m, n, r, d)
  BY SameAdmits DEF Q!InsertReserved, Q!NonNegative, QP!InsertReserved, QP!NonNegative

\* The same steps are steps of the ledger.
LEMMA SameLedgerStep == [Q!Next]_Q!quotaVars <=> [QP!Next]_QP!quotaVars
  <1>1. ASSUME NEW u, NEW m, NEW n
        PROVE  /\ \A r, d : Q!ReserveAt(u, m, n, r, d) <=> QP!ReserveAt(u, m, n, r, d)
               /\ Q!ReserveUnheard(u, m, n) <=> QP!ReserveUnheard(u, m, n)
    BY SameInsert DEF Q!ReserveAt, Q!ReserveUnheard, QP!ReserveAt, QP!ReserveUnheard
  <1>2. QED
    BY <1>1
       DEF Q!Next, Q!quotaVars, Q!tables, Q!FinalizeSuccess, Q!FinalizeFailure,
           Q!Abandon, Q!UpdateLimits, Q!SetClock, Q!Times,
           QP!Next, QP!quotaVars, QP!tables, QP!FinalizeSuccess, QP!FinalizeFailure,
           QP!Abandon, QP!UpdateLimits, QP!SetClock, QP!Times

\* The ledgers begin alike.
LEMMA SameLedgerInit == Q!Init <=> QP!Init
  BY DEF Q!Init, Q!Unlimited, QP!Init, QP!Unlimited

\* The configured concurrency is a number.
LEMMA LimiterAssumptions == LP!MaxConcurrencyAssumption
  BY LimiterAssumption DEF L!MaxConcurrencyAssumption, LP!MaxConcurrencyAssumption

\* The same tasks are in the queue, and the same ones are picked from it.
LEMMA SameQueue ==
    /\ L!Waiters = LP!Waiters
    /\ L!Permits = LP!Permits
    /\ L!Locked <=> LP!Locked
    /\ \A c : L!Without(c) = LP!Without(c)
    /\ \A free, q, w : L!WakeUpNext(free, q, w) <=> LP!WakeUpNext(free, q, w)
  BY DEF L!Waiters, L!ToSet, L!Permits, L!Locked, L!Without, L!RemoveAt,
         L!WakeUpNext, L!FirstAsleep,
         LP!Waiters, LP!ToSet, LP!Permits, LP!Locked, LP!Without, LP!RemoveAt,
         LP!WakeUpNext, LP!FirstAsleep

\* The same limiter is well typed.
LEMMA SameLimiterType == L!TypeOK <=> LP!TypeOK
  BY SameQueue DEF L!TypeOK, LP!TypeOK

\* The same steps are steps of the limiter.
LEMMA SameLimiterStep == [L!Next]_L!limiterVars <=> [LP!Next]_LP!limiterVars
  BY SameQueue
     DEF L!Next, L!limiterVars, L!Enter, L!Wait, L!Resume, L!CancelWait, L!Leave,
         L!Restart,
         LP!Next, LP!limiterVars, LP!Enter, LP!Wait, LP!Resume, LP!CancelWait,
         LP!Leave, LP!Restart

\* The limiters begin alike.
LEMMA SameLimiterInit == L!Init <=> LP!Init
  BY SameQueue DEF L!Init, LP!Init

-----------------------------------------------------------------------------
(***************************************************************************)
(* Every step of the requests is a step of the ledger's protocol, and of   *)
(* the limiter's, or leaves that component alone.                          *)
(***************************************************************************)

\* Permits are touched through the operations of the limiter only.
LEMMA StepOfLimiter == [Next]_vars => [L!Next]_L!limiterVars
  <1> SUFFICES ASSUME [Next]_vars PROVE [L!Next]_L!limiterVars
    OBVIOUS
  <1>1. ASSUME UNCHANGED permits PROVE UNCHANGED L!limiterVars
    BY <1>1 DEF permits, L!limiterVars
  <1>2. ASSUME NEW r \in Requests, Progress(r) PROVE [L!Next]_L!limiterVars
    BY <1>1, <1>2
       DEF Progress, ValidatePasses, ValidateRaises, RunReserve, RunReserveRejected,
           RunFinalizeSuccess, RunFinalizeFailure, ReserveReturns, ReserveRaises,
           GotPermit, ChunkSent, FinalizeReturns, CancelledOutside, CancelledInside,
           CancelledSending, CloseGenerator, CloseUpstream, L!Next
  <1>3. QED
    BY <1>1, <1>2 DEF Next, vars, Arrive, UpstreamEnds, UpstreamReplies, StreamEnds,
                      UpstreamFails, Chunk, UpstreamBreaks, JobFails, Disconnect,
                      Crash, AdminUpdatesLimits, ClockMoves, L!Next

\* A reservation is held by the request whose row it is.
LEMMA HeldMeans ==
    /\ held = {req[r].row : r \in {q \in Requests : Holds(req[q])}}
    /\ held' = {req'[r].row : r \in {q \in Requests : Holds(req'[q])}}
  BY DEF held, HoldsReservation, Holds, InBlock, Finalizations

\* If no coroutine and no job gets hold of a row, and the tables stay, some
\* reservations may have been given up.
LEMMA NothingGained ==
    ASSUME UNCHANGED ledger,
           \A s \in Requests :
              Holds(req'[s]) => Holds(req[s]) /\ req'[s].row = req[s].row
    PROVE  [Q!Next]_Q!quotaVars
  <1>1. held' \subseteq held
    BY HeldMeans
  <1>2. CASE held' = held
    BY <1>2 DEF ledger, Q!quotaVars
  <1>3. CASE held' # held
    <2>1. Q!Abandon(held \ held')
      BY <1>1, <1>3 DEF Q!Abandon, ledger, Q!tables
    <2>2. QED
      BY <2>1 DEF Q!Next
  <1>4. QED
    BY <1>2, <1>3

-----------------------------------------------------------------------------
(***************************************************************************)
(* What a step of a coroutine, or of its job, does to its record, as far   *)
(* as it changes no table.                                                 *)
(***************************************************************************)

\* The record n may follow q: it is as the rows say, names the same row, and
\* holds it only if q did.
Follows(q, n, rows) ==
    /\ n \in Request
    /\ Controlled(n) /\ Recording(n, rows)
    /\ n.row = q.row
    /\ Holds(n) => Holds(q)

\* The record of a request, before the step.
LEMMA RecordOf ==
    ASSUME IInv, NEW r \in Requests
    PROVE  /\ req[r] \in Request
           /\ Controlled(req[r]) /\ Recording(req[r], usage_events)
  BY DEF IInv, TypeOK

\* The records of all requests are one function.
LEMMA IInvReq == IInv => req \in [Requests -> Request]
  BY DEF IInv, TypeOK

\* A request arrives, and nothing has happened to it yet.
LEMMA ArriveFollows ==
    ASSUME IInv, NEW r \in Requests, Arrive(r)
    PROVE  \E n : /\ req' = [req EXCEPT ![r] = n] /\ Follows(req[r], n, usage_events)
                  /\ n.pc = "validating" /\ req[r].pc = "idle"
  <1>0. PICK stream \in BOOLEAN, u \in Users, m \in Models, k \in Estimates :
           req' = [req EXCEPT ![r] = [@ EXCEPT !.pc = "validating", !.stream = stream,
                      !.user = u, !.model = m, !.estimate = k,
                      !.http = IF stream THEN "200" ELSE "none"]]
    BY DEF Arrive
  <1> DEFINE q == req[r]
             http == IF stream THEN "200" ELSE "none"
             n == [q EXCEPT !.pc = "validating", !.stream = stream,
                      !.user = u, !.model = m, !.estimate = k, !.http = http]
  <1>1. q \in Request /\ Controlled(q) /\ Recording(q, usage_events)
    BY RecordOf
  <1>2. req' = [req EXCEPT ![r] = n] /\ q.pc = "idle"
    BY <1>0, IInvReq DEF Arrive
  <1> HIDE DEF q
  <1>3. /\ n \in Request /\ n.pc = "validating" /\ n.stream = stream
        /\ n.user = u /\ n.model = m /\ n.estimate = k /\ n.job = q.job
        /\ n.reply = q.reply /\ n.row = q.row /\ n.usage = q.usage
        /\ n.http = http /\ n.cancelled = q.cancelled
        /\ n.upstream = q.upstream /\ n.fault = q.fault
        /\ n.inner = q.inner
    BY <1>1, <1>2, <1>0 DEF Request, Positions, Jobs, Replies
  <1> HIDE DEF n
  <1>4. Controlled(n)
    BY <1>1, <1>2, <1>3, <1>0 DEF Controlled, InBlock, Finalizations
  <1>5. Recording(n, usage_events) /\ (Holds(n) => Holds(q))
    BY <1>1, <1>2, <1>3 DEF Controlled, Recording, Recorded, Unrecorded, Holds,
                            InBlock, Finalizations
  <1>6. QED
    BY <1>2, <1>3, <1>4, <1>5 DEF Follows, q, InBlock

\* The request passes validation: its reservation is submitted.
LEMMA ValidatePassesFollows ==
    ASSUME IInv, NEW r \in Requests, ValidatePasses(r)
    PROVE  \E n : /\ req' = [req EXCEPT ![r] = n] /\ Follows(req[r], n, usage_events)
                  /\ n.pc = "reserving" /\ req[r].pc = "validating"
  <1> DEFINE q == req[r]
             n == [q EXCEPT !.pc = "reserving", !.job = "reserve",
                      !.reply = "none"]
  <1>1. q \in Request /\ Controlled(q) /\ Recording(q, usage_events)
    BY RecordOf
  <1>2. req' = [req EXCEPT ![r] = n] /\ q.pc = "validating"
    BY IInvReq DEF ValidatePasses, Submit
  <1> HIDE DEF q
  <1>3. /\ n \in Request /\ n.pc = "reserving" /\ n.stream = q.stream
        /\ n.job = "reserve" /\ n.reply = "none" /\ n.row = q.row
        /\ n.usage = q.usage /\ n.http = q.http /\ n.cancelled = q.cancelled
        /\ n.upstream = q.upstream /\ n.fault = q.fault
        /\ n.inner = q.inner
    BY <1>1, <1>2 DEF Request, Positions, Jobs, Replies
  <1> HIDE DEF n
  <1>4. Controlled(n)
    BY <1>1, <1>2, <1>3 DEF Controlled, InBlock, Finalizations
  <1>5. Recording(n, usage_events) /\ (Holds(n) => Holds(q))
    BY <1>1, <1>2, <1>3 DEF Controlled, Recording, Recorded, Unrecorded, Holds,
                            InBlock, Finalizations
  <1>6. QED
    BY <1>2, <1>3, <1>4, <1>5 DEF Follows, q, InBlock

\* It does not: it ends without a row.
LEMMA ValidateRaisesFollows ==
    ASSUME IInv, NEW r \in Requests, ValidateRaises(r)
    PROVE  \E n : /\ req' = [req EXCEPT ![r] = n] /\ Follows(req[r], n, usage_events)
                  /\ n.pc = "done" /\ req[r].pc = "validating"
  <1>0. PICK http \in {req[r].http, "400", "500"} :
           /\ req' = [req EXCEPT ![r] = [req[r] EXCEPT !.pc = "done", !.http = http]]
           /\ ~(req[r].stream) => http \in {"400", "500"}
           /\ req[r].pc = "validating"
    BY DEF ValidateRaises, Finish, Answer
  <1> DEFINE q == req[r]
             n == [q EXCEPT !.pc = "done", !.http = http]
  <1>1. q \in Request /\ Controlled(q) /\ Recording(q, usage_events)
    BY RecordOf
  <1>2. /\ req' = [req EXCEPT ![r] = n]
        /\ q.pc = "validating" /\ http \in {q.http, "400", "500"}
    BY <1>0, IInvReq
  <1> HIDE DEF q
  <1>3. /\ n \in Request /\ n.pc = "done" /\ n.stream = q.stream
        /\ n.job = q.job /\ n.reply = q.reply /\ n.row = q.row
        /\ n.usage = q.usage /\ n.http = http /\ n.cancelled = q.cancelled
        /\ n.upstream = q.upstream /\ n.fault = q.fault
        /\ n.inner = q.inner
    BY <1>1, <1>2, <1>0 DEF Request, Positions, Jobs, Replies
  <1> HIDE DEF n
  <1>4. Controlled(n)
    BY <1>1, <1>2, <1>3, <1>0 DEF Controlled, InBlock, Finalizations
  <1>5. Recording(n, usage_events) /\ (Holds(n) => Holds(q))
    BY <1>1, <1>2, <1>3 DEF Controlled, Recording, Recorded, Unrecorded, Holds,
                            InBlock, Finalizations
  <1>6. QED
    BY <1>2, <1>3, <1>4, <1>5 DEF Follows, q, InBlock

\* The reservation is refused: there is no row.
LEMMA RejectedFollows ==
    ASSUME IInv, NEW r \in Requests, RunReserveRejected(r)
    PROVE  \E n : /\ req' = [req EXCEPT ![r] = n] /\ Follows(req[r], n, usage_events)
                  /\ n.pc = req[r].pc
  <1> DEFINE q == req[r]
             n == [q EXCEPT !.job = "none", !.reply = "rejected"]
  <1>1. q \in Request /\ Controlled(q) /\ Recording(q, usage_events)
    BY RecordOf
  <1>2. req' = [req EXCEPT ![r] = n] /\ q.job = "reserve"
    BY IInvReq DEF RunReserveRejected
  <1> HIDE DEF q
  <1>3. /\ n \in Request /\ n.pc = q.pc /\ n.stream = q.stream
        /\ n.job = "none" /\ n.reply = "rejected" /\ n.row = q.row
        /\ n.usage = q.usage /\ n.http = q.http /\ n.cancelled = q.cancelled
        /\ n.upstream = q.upstream /\ n.fault = q.fault
        /\ n.inner = q.inner
    BY <1>1, <1>2 DEF Request, Positions, Jobs, Replies
  <1> HIDE DEF n
  <1>4. Controlled(n)
    BY <1>1, <1>2, <1>3 DEF Controlled, InBlock, Finalizations
  <1>5. Recording(n, usage_events) /\ (Holds(n) => Holds(q))
    BY <1>1, <1>2, <1>3 DEF Controlled, Recording, Recorded, Unrecorded, Holds,
                            InBlock, Finalizations
  <1>6. QED
    BY <1>2, <1>3, <1>4, <1>5 DEF Follows, q, InBlock

\* The request ends on its refusal, or on the failure of the transaction.
LEMMA ReserveRaisesFollows ==
    ASSUME IInv, NEW r \in Requests, ReserveRaises(r)
    PROVE  \E n : /\ req' = [req EXCEPT ![r] = n] /\ Follows(req[r], n, usage_events)
                  /\ n.pc = "done" /\ req[r].pc = "reserving"
  <1>0. PICK http \in {req[r].http, "429", "500"} :
           /\ req' = [req EXCEPT ![r] = [req[r] EXCEPT !.pc = "done", !.http = http]]
           /\ ~(req[r].stream) => http \in {"429", "500"}
           /\ req[r].pc = "reserving" /\ req[r].reply \in {"rejected", "error"}
    BY DEF ReserveRaises, Finish, Answer
  <1> DEFINE q == req[r]
             n == [q EXCEPT !.pc = "done", !.http = http]
  <1>1. q \in Request /\ Controlled(q) /\ Recording(q, usage_events)
    BY RecordOf
  <1>2. /\ req' = [req EXCEPT ![r] = n]
        /\ q.pc = "reserving" /\ q.reply \in {"rejected", "error"}
        /\ http \in {q.http, "429", "500"}
    BY <1>0, IInvReq
  <1> HIDE DEF q
  <1>3. /\ n \in Request /\ n.pc = "done" /\ n.stream = q.stream
        /\ n.job = q.job /\ n.reply = q.reply /\ n.row = q.row
        /\ n.usage = q.usage /\ n.http = http /\ n.cancelled = q.cancelled
        /\ n.upstream = q.upstream /\ n.fault = q.fault
        /\ n.inner = q.inner
    BY <1>1, <1>2, <1>0 DEF Request, Positions, Jobs, Replies
  <1> HIDE DEF n
  <1>4. Controlled(n)
    BY <1>1, <1>2, <1>3, <1>0 DEF Controlled, InBlock, Finalizations
  <1>5. Recording(n, usage_events) /\ (Holds(n) => Holds(q))
    BY <1>1, <1>2, <1>3 DEF Controlled, Recording, Recorded, Unrecorded, Holds,
                            InBlock, Finalizations
  <1>6. QED
    BY <1>2, <1>3, <1>4, <1>5 DEF Follows, q, InBlock

\* It has its row and finds a permit.
LEMMA EntersFollows ==
    ASSUME IInv, NEW r \in Requests, req' = [req EXCEPT ![r].pc = "calling", ![r].upstream = "open"],
           \/ req[r].pc = "reserving" /\ req[r].reply = "ok"
           \/ req[r].pc = "waiting"
    PROVE  \E n : /\ req' = [req EXCEPT ![r] = n] /\ Follows(req[r], n, usage_events)
                  /\ n.pc = "calling"
  <1> DEFINE q == req[r]
             n == [q EXCEPT !.pc = "calling", !.upstream = "open"]
  <1>1. q \in Request /\ Controlled(q) /\ Recording(q, usage_events)
    BY RecordOf
  <1>2. /\ req' = [req EXCEPT ![r] = n]
        /\ \/ q.pc = "reserving" /\ q.reply = "ok"
           \/ q.pc = "waiting"
    BY IInvReq DEF Follows
  <1> HIDE DEF q
  <1> DEFINE m == [q EXCEPT !.pc = "calling"]
  <1>3. /\ m \in Request /\ m.pc = "calling" /\ m.stream = q.stream
        /\ m.job = q.job /\ m.reply = q.reply /\ m.row = q.row
        /\ m.usage = q.usage /\ m.http = q.http /\ m.cancelled = q.cancelled
        /\ m.fault = q.fault /\ m.inner = q.inner
    BY ONLY <1>1 DEF m, Request, Positions
  <1>4. n = [m EXCEPT !.upstream = "open"]
    BY <1>1 DEF Request
  <1> HIDE DEF m, n
  <1>5. /\ n \in Request /\ n.pc = "calling" /\ n.stream = q.stream
        /\ n.job = q.job /\ n.reply = q.reply /\ n.row = q.row
        /\ n.usage = q.usage /\ n.http = q.http /\ n.cancelled = q.cancelled
        /\ n.upstream = "open" /\ n.fault = q.fault
        /\ n.inner = q.inner
    BY ONLY <1>3, <1>4 DEF Request
  <1>6. Controlled(n)
    BY <1>1, <1>2, <1>5 DEF Controlled, InBlock, Finalizations
  <1>7. Recording(n, usage_events) /\ (Holds(n) => Holds(q))
    BY <1>1, <1>2, <1>5 DEF Controlled, Recording, Recorded, Unrecorded, Holds,
                            InBlock, Finalizations
  <1>8. QED
    BY <1>2, <1>5, <1>6, <1>7 DEF Follows, q, InBlock

\* It has its row and finds none.
LEMMA WaitsFollows ==
    ASSUME IInv, NEW r \in Requests, req' = [req EXCEPT ![r].pc = "waiting"],
           req[r].pc = "reserving", req[r].reply = "ok"
    PROVE  \E n : /\ req' = [req EXCEPT ![r] = n] /\ Follows(req[r], n, usage_events)
                  /\ n.pc = "waiting"
  <1> DEFINE q == req[r]
             n == [q EXCEPT !.pc = "waiting"]
  <1>1. q \in Request /\ Controlled(q) /\ Recording(q, usage_events)
    BY RecordOf
  <1>2. req' = [req EXCEPT ![r] = n] /\ q.pc = "reserving" /\ q.reply = "ok"
    BY IInvReq DEF Follows
  <1> HIDE DEF q
  <1>3. /\ n \in Request /\ n.pc = "waiting" /\ n.stream = q.stream
        /\ n.job = q.job /\ n.reply = q.reply /\ n.row = q.row
        /\ n.usage = q.usage /\ n.http = q.http /\ n.cancelled = q.cancelled
        /\ n.upstream = q.upstream /\ n.fault = q.fault
        /\ n.inner = q.inner
    BY <1>1, <1>2 DEF Request, Positions, Jobs, Replies
  <1> HIDE DEF n
  <1>4. Controlled(n)
    BY <1>1, <1>2, <1>3 DEF Controlled, InBlock, Finalizations
  <1>5. Recording(n, usage_events) /\ (Holds(n) => Holds(q))
    BY <1>1, <1>2, <1>3 DEF Controlled, Recording, Recorded, Unrecorded, Holds,
                            InBlock, Finalizations
  <1>6. QED
    BY <1>2, <1>3, <1>4, <1>5 DEF Follows, q, InBlock

\* The answer of a plain call brings its usage.
LEMMA UpstreamRepliesFollows ==
    ASSUME IInv, NEW r \in Requests, UpstreamReplies(r)
    PROVE  \E n : /\ req' = [req EXCEPT ![r] = n] /\ Follows(req[r], n, usage_events)
                  /\ n.pc = "succeeding" /\ req[r].pc = "calling"
  <1>0. PICK tokens \in Usages :
           /\ req' = [req EXCEPT ![r] = [Submit(r, "succeeding", "finalize_success")
                      EXCEPT !.usage = tokens, !.upstream = "complete"]]
           /\ req[r].pc = "calling" /\ ~req[r].stream
    BY DEF UpstreamReplies, Submit
  <1> DEFINE q == req[r]
             n == [q EXCEPT !.pc = "succeeding", !.job = "finalize_success",
                      !.reply = "none", !.usage = tokens,
                      !.upstream = "complete"]
  <1>1. q \in Request /\ Controlled(q) /\ Recording(q, usage_events)
    BY RecordOf
  <1>2. req' = [req EXCEPT ![r] = n] /\ (q.pc = "calling" /\ ~q.stream)
    BY <1>0, IInvReq DEF Submit
  <1> HIDE DEF q
  <1>3. /\ n \in Request /\ n.pc = "succeeding" /\ n.stream = q.stream
        /\ n.job = "finalize_success" /\ n.reply = "none" /\ n.row = q.row
        /\ n.usage = tokens /\ n.http = q.http /\ n.cancelled = q.cancelled
        /\ n.upstream = "complete" /\ n.fault = q.fault
        /\ n.inner = q.inner
    BY <1>1, <1>2, <1>0 DEF Request, Positions, Jobs, Replies
  <1> HIDE DEF n
  <1>4. Controlled(n)
    BY <1>1, <1>2, <1>3, <1>0 DEF Controlled, InBlock, Finalizations
  <1>5. Recording(n, usage_events) /\ (Holds(n) => Holds(q))
    BY <1>1, <1>2, <1>3 DEF Controlled, Recording, Recorded, Unrecorded, Holds,
                            InBlock, Finalizations
  <1>6. QED
    BY <1>2, <1>3, <1>4, <1>5 DEF Follows, q, InBlock

\* A chunk is yielded.
LEMMA ChunkFollows ==
    ASSUME IInv, NEW r \in Requests, Chunk(r)
    PROVE  \E n : /\ req' = [req EXCEPT ![r] = n] /\ Follows(req[r], n, usage_events)
                  /\ n.pc = "yielding" /\ req[r].pc = "calling"
  <1>0. PICK found \in Usages \cup {req[r].usage} :
           /\ req' = [req EXCEPT ![r].pc = "yielding", ![r].usage = found]
           /\ req[r].pc = "calling" /\ req[r].stream
    BY DEF Chunk
  <1> DEFINE q == req[r]
             n == [q EXCEPT !.pc = "yielding", !.usage = found]
  <1>1. q \in Request /\ Controlled(q) /\ Recording(q, usage_events)
    BY RecordOf
  <1>2. /\ req' = [req EXCEPT ![r] = n]
        /\ q.pc = "calling" /\ q.stream /\ found \in Usages \cup {q.usage}
    BY <1>0, IInvReq
  <1> HIDE DEF q
  <1>3. /\ n \in Request /\ n.pc = "yielding" /\ n.stream = q.stream
        /\ n.job = q.job /\ n.reply = q.reply /\ n.row = q.row
        /\ n.usage = found /\ n.http = q.http /\ n.cancelled = q.cancelled
        /\ n.upstream = q.upstream /\ n.fault = q.fault
        /\ n.inner = q.inner
    BY <1>1, <1>2, <1>0 DEF Request, Positions, Jobs, Replies
  <1> HIDE DEF n
  <1>4. Controlled(n)
    BY <1>1, <1>2, <1>3, <1>0 DEF Controlled, InBlock, Finalizations
  <1>5. Recording(n, usage_events) /\ (Holds(n) => Holds(q))
    BY <1>1, <1>2, <1>3 DEF Controlled, Recording, Recorded, Unrecorded, Holds,
                            InBlock, Finalizations
  <1>6. QED
    BY <1>2, <1>3, <1>4, <1>5 DEF Follows, q, InBlock

\* The next one is asked for.
LEMMA ChunkSentFollows ==
    ASSUME IInv, NEW r \in Requests, ChunkSent(r)
    PROVE  \E n : /\ req' = [req EXCEPT ![r] = n] /\ Follows(req[r], n, usage_events)
                  /\ n.pc = "calling" /\ req[r].pc = "yielding"
  <1> DEFINE q == req[r]
             n == [q EXCEPT !.pc = "calling"]
  <1>1. q \in Request /\ Controlled(q) /\ Recording(q, usage_events)
    BY RecordOf
  <1>2. req' = [req EXCEPT ![r] = n] /\ q.pc = "yielding"
    BY IInvReq DEF ChunkSent
  <1> HIDE DEF q
  <1>3. /\ n \in Request /\ n.pc = "calling" /\ n.stream = q.stream
        /\ n.job = q.job /\ n.reply = q.reply /\ n.row = q.row
        /\ n.usage = q.usage /\ n.http = q.http /\ n.cancelled = q.cancelled
        /\ n.upstream = q.upstream /\ n.fault = q.fault
        /\ n.inner = q.inner
    BY <1>1, <1>2 DEF Request, Positions, Jobs, Replies
  <1> HIDE DEF n
  <1>4. Controlled(n)
    BY <1>1, <1>2, <1>3 DEF Controlled, InBlock, Finalizations
  <1>5. Recording(n, usage_events) /\ (Holds(n) => Holds(q))
    BY <1>1, <1>2, <1>3 DEF Controlled, Recording, Recorded, Unrecorded, Holds,
                            InBlock, Finalizations
  <1>6. QED
    BY <1>2, <1>3, <1>4, <1>5 DEF Follows, q, InBlock

\* A stream ends with whatever usage it has shown.
LEMMA StreamEndsFollows ==
    ASSUME IInv, NEW r \in Requests, StreamEnds(r)
    PROVE  \E n : /\ req' = [req EXCEPT ![r] = n] /\ Follows(req[r], n, usage_events)
                  /\ n.pc = "succeeding" /\ req[r].pc = "calling"
  <1> DEFINE q == req[r]
             n == [q EXCEPT !.pc = "succeeding", !.job = "finalize_success",
                      !.reply = "none", !.upstream = "complete"]
  <1>1. q \in Request /\ Controlled(q) /\ Recording(q, usage_events)
    BY RecordOf
  <1>2. req' = [req EXCEPT ![r] = n] /\ (q.pc = "calling" /\ q.stream)
    BY IInvReq DEF StreamEnds, Submit
  <1> HIDE DEF q
  <1>3. /\ n \in Request /\ n.pc = "succeeding" /\ n.stream = q.stream
        /\ n.job = "finalize_success" /\ n.reply = "none" /\ n.row = q.row
        /\ n.usage = q.usage /\ n.http = q.http /\ n.cancelled = q.cancelled
        /\ n.upstream = "complete" /\ n.fault = q.fault
        /\ n.inner = q.inner
    BY <1>1, <1>2 DEF Request, Positions, Jobs, Replies
  <1> HIDE DEF n
  <1>4. Controlled(n)
    BY <1>1, <1>2, <1>3 DEF Controlled, InBlock, Finalizations
  <1>5. Recording(n, usage_events) /\ (Holds(n) => Holds(q))
    BY <1>1, <1>2, <1>3 DEF Controlled, Recording, Recorded, Unrecorded, Holds,
                            InBlock, Finalizations
  <1>6. QED
    BY <1>2, <1>3, <1>4, <1>5 DEF Follows, q, InBlock

\* The call breaks off, or is cancelled or closed: the failure is submitted.
LEMMA FailsFollows ==
    ASSUME IInv, NEW r \in Requests, NEW how, how \in {"error", "broken", req[r].upstream},
           req[r].pc \in {"waiting"} \cup InBlock,
           req' = [req EXCEPT ![r] = [Submit(r, "failing", "finalize_failure")
                      EXCEPT !.upstream = how]]
    PROVE  \E n : /\ req' = [req EXCEPT ![r] = n] /\ Follows(req[r], n, usage_events)
                  /\ n.pc = "failing"
  <1> DEFINE q == req[r]
             n == [q EXCEPT !.pc = "failing", !.job = "finalize_failure",
                      !.reply = "none", !.upstream = how]
  <1>1. q \in Request /\ Controlled(q) /\ Recording(q, usage_events)
    BY RecordOf
  <1>2. /\ req' = [req EXCEPT ![r] = n]
        /\ q.pc \in {"waiting"} \cup InBlock
        /\ how \in {"error", "broken", q.upstream}
    BY IInvReq DEF Submit
  <1> HIDE DEF q
  <1>3. how \in {"none", "open", "complete", "error", "broken"}
    BY <1>1, <1>2 DEF Request
  <1> DEFINE m == [q EXCEPT !.pc = "failing", !.job = "finalize_failure",
                      !.reply = "none"]
  <1>4. /\ m \in Request /\ m.pc = "failing" /\ m.stream = q.stream
        /\ m.job = "finalize_failure" /\ m.reply = "none" /\ m.row = q.row
        /\ m.usage = q.usage /\ m.http = q.http /\ m.cancelled = q.cancelled
        /\ m.fault = q.fault /\ m.inner = q.inner
    BY ONLY <1>1 DEF m, Request, Positions, Jobs, Replies
  <1>5. n = [m EXCEPT !.upstream = how]
    BY <1>1 DEF Request
  <1> HIDE DEF m, n
  <1>6. /\ n \in Request /\ n.pc = "failing" /\ n.stream = q.stream
        /\ n.job = "finalize_failure" /\ n.reply = "none" /\ n.row = q.row
        /\ n.usage = q.usage /\ n.http = q.http /\ n.cancelled = q.cancelled
        /\ n.upstream = how /\ n.fault = q.fault
        /\ n.inner = q.inner
    BY ONLY <1>3, <1>4, <1>5 DEF Request
  <1>7. Controlled(n)
    BY <1>1, <1>2, <1>6 DEF Controlled, InBlock, Finalizations
  <1>8. Recording(n, usage_events) /\ (Holds(n) => Holds(q))
    BY <1>1, <1>2, <1>6 DEF Controlled, Recording, Recorded, Unrecorded, Holds,
                            InBlock, Finalizations
  <1>9. QED
    BY <1>2, <1>6, <1>7, <1>8 DEF Follows, q, InBlock

\* A plain call breaks: it ends with a row that stays reserved.
LEMMA BreaksFollows ==
    ASSUME IInv, NEW r \in Requests, ~req[r].stream, req[r].pc = "calling",
           req' = [req EXCEPT ![r] = [Finish(r, "500") EXCEPT !.upstream = "broken"]]
    PROVE  \E n : /\ req' = [req EXCEPT ![r] = n] /\ Follows(req[r], n, usage_events)
                  /\ n.pc = "done"
  <1> DEFINE q == req[r]
             n == [q EXCEPT !.pc = "done", !.http = "500",
                      !.upstream = "broken"]
  <1>1. q \in Request /\ Controlled(q) /\ Recording(q, usage_events)
    BY RecordOf
  <1>2. req' = [req EXCEPT ![r] = n] /\ q.pc = "calling" /\ ~q.stream
    BY IInvReq DEF Finish, Answer
  <1> HIDE DEF q
  <1>3. /\ n \in Request /\ n.pc = "done" /\ n.stream = q.stream
        /\ n.job = q.job /\ n.reply = q.reply /\ n.row = q.row
        /\ n.usage = q.usage /\ n.http = "500" /\ n.cancelled = q.cancelled
        /\ n.upstream = "broken" /\ n.fault = q.fault
        /\ n.inner = q.inner
    BY <1>1, <1>2 DEF Request, Positions, Jobs, Replies
  <1> HIDE DEF n
  <1>4. Controlled(n)
    BY <1>1, <1>2, <1>3 DEF Controlled, InBlock, Finalizations
  <1>5. Recording(n, usage_events) /\ (Holds(n) => Holds(q))
    BY <1>1, <1>2, <1>3 DEF Controlled, Recording, Recorded, Unrecorded, Holds,
                            InBlock, Finalizations
  <1>6. QED
    BY <1>2, <1>3, <1>4, <1>5 DEF Follows, q, InBlock

\* The client of a stream goes away.
LEMMA DisconnectFollows ==
    ASSUME IInv, NEW r \in Requests, Disconnect(r)
    PROVE  \E n : /\ req' = [req EXCEPT ![r] = n] /\ Follows(req[r], n, usage_events)
                  /\ n.pc = req[r].pc
  <1> DEFINE q == req[r]
             n == [q EXCEPT !.cancelled = TRUE]
  <1>1. q \in Request /\ Controlled(q) /\ Recording(q, usage_events)
    BY RecordOf
  <1>2. /\ req' = [req EXCEPT ![r] = n] /\ q.stream
        /\ "disconnect" \in Faults
    BY IInvReq DEF Disconnect
  <1> HIDE DEF q
  <1>3. /\ n \in Request /\ n.pc = q.pc /\ n.stream = q.stream
        /\ n.job = q.job /\ n.reply = q.reply /\ n.row = q.row
        /\ n.usage = q.usage /\ n.http = q.http /\ n.cancelled = TRUE
        /\ n.upstream = q.upstream /\ n.fault = q.fault
        /\ n.inner = q.inner
    BY <1>1, <1>2 DEF Request, Positions, Jobs, Replies
  <1> HIDE DEF n
  <1>4. Controlled(n)
    BY <1>1, <1>2, <1>3 DEF Controlled, InBlock, Finalizations
  <1>5. Recording(n, usage_events) /\ (Holds(n) => Holds(q))
    BY <1>1, <1>2, <1>3 DEF Controlled, Recording, Recorded, Unrecorded, Holds,
                            InBlock, Finalizations
  <1>6. QED
    BY <1>2, <1>3, <1>4, <1>5 DEF Follows, q, InBlock

\* The generator ends where it was; its job may run on.
LEMMA CancelledOutsideFollows ==
    ASSUME IInv, NEW r \in Requests, CancelledOutside(r)
    PROVE  \E n : /\ req' = [req EXCEPT ![r] = n] /\ Follows(req[r], n, usage_events)
                  /\ n.pc = "done" /\ req[r].pc \notin {"waiting"} \cup InBlock
  <1>0. PICK job \in {"none", req[r].job} :
           /\ req' = [req EXCEPT ![r] = [@ EXCEPT !.pc = "done", !.job = job,
                      !.cancelled = FALSE, !.fault = "disconnect"]]
           /\ req[r].cancelled /\ req[r].pc \in {"validating", "reserving", "failing", "succeeding"}
    BY DEF CancelledOutside
  <1> DEFINE q == req[r]
             n == [q EXCEPT !.pc = "done", !.job = job, !.cancelled = FALSE,
                      !.fault = "disconnect"]
  <1>1. q \in Request /\ Controlled(q) /\ Recording(q, usage_events)
    BY RecordOf
  <1>2. /\ req' = [req EXCEPT ![r] = n]
        /\ q.cancelled /\ q.pc \in {"validating", "reserving", "failing", "succeeding"}
        /\ job \in {"none", q.job}
    BY <1>0, IInvReq
  <1> HIDE DEF q
  <1> DEFINE m == [q EXCEPT !.pc = "done", !.cancelled = FALSE]
  <1>3. /\ m \in Request /\ m.pc = "done" /\ m.stream = q.stream
        /\ m.job = q.job /\ m.reply = q.reply /\ m.row = q.row
        /\ m.usage = q.usage /\ m.http = q.http /\ m.cancelled = FALSE
        /\ m.upstream = q.upstream /\ m.inner = q.inner
    BY ONLY <1>1 DEF m, Request, Positions
  <1>4. n = [m EXCEPT !.job = job, !.fault = "disconnect"] /\ job \in Jobs
    BY <1>1, <1>2 DEF Request, Jobs
  <1> HIDE DEF m, n
  <1>5. /\ n \in Request /\ n.pc = "done" /\ n.stream = q.stream
        /\ n.job = job /\ n.reply = q.reply /\ n.row = q.row
        /\ n.usage = q.usage /\ n.http = q.http /\ n.cancelled = FALSE
        /\ n.upstream = q.upstream /\ n.fault = "disconnect"
        /\ n.inner = q.inner
    BY ONLY <1>3, <1>4 DEF Request
  <1>6. Controlled(n)
    BY <1>1, <1>2, <1>5, <1>0 DEF Controlled, InBlock, Finalizations
  <1>7. Recording(n, usage_events) /\ (Holds(n) => Holds(q))
    BY <1>1, <1>2, <1>5 DEF Controlled, Recording, Recorded, Unrecorded, Holds,
                            InBlock, Finalizations
  <1>8. QED
    BY <1>2, <1>5, <1>6, <1>7 DEF Follows, q, InBlock

\* The response is gone; the generator stays in the block.
LEMMA CancelledSendingFollows ==
    ASSUME IInv, NEW r \in Requests, CancelledSending(r)
    PROVE  \E n : /\ req' = [req EXCEPT ![r] = n] /\ Follows(req[r], n, usage_events)
                  /\ n.pc = "closing" /\ req[r].pc = "yielding"
  <1> DEFINE q == req[r]
             n == [q EXCEPT !.pc = "closing", !.cancelled = FALSE]
  <1>1. q \in Request /\ Controlled(q) /\ Recording(q, usage_events)
    BY RecordOf
  <1>2. req' = [req EXCEPT ![r] = n] /\ (q.cancelled /\ q.pc = "yielding")
    BY IInvReq DEF CancelledSending
  <1> HIDE DEF q
  <1>3. /\ n \in Request /\ n.pc = "closing" /\ n.stream = q.stream
        /\ n.job = q.job /\ n.reply = q.reply /\ n.row = q.row
        /\ n.usage = q.usage /\ n.http = q.http /\ n.cancelled = FALSE
        /\ n.upstream = q.upstream /\ n.fault = q.fault
        /\ n.inner = q.inner
    BY <1>1, <1>2 DEF Request, Positions, Jobs, Replies
  <1> HIDE DEF n
  <1>4. Controlled(n)
    BY <1>1, <1>2, <1>3 DEF Controlled, InBlock, Finalizations
  <1>5. Recording(n, usage_events) /\ (Holds(n) => Holds(q))
    BY <1>1, <1>2, <1>3 DEF Controlled, Recording, Recorded, Unrecorded, Holds,
                            InBlock, Finalizations
  <1>6. QED
    BY <1>2, <1>3, <1>4, <1>5 DEF Follows, q, InBlock

\* A transaction fails: whatever becomes of the coroutine, its row stays as it
\* is and the fault is on record.
LEMMA JobFailsFollows ==
    ASSUME IInv, NEW r \in Requests, JobFails(r)
    PROVE  \E n : /\ req' = [req EXCEPT ![r] = n] /\ Follows(req[r], n, usage_events)
                  /\ n.pc = req[r].pc
  <1> DEFINE q == req[r]
             n == [q EXCEPT !.job = "none", !.reply = "error", !.fault = "locked"]
  <1>1. q \in Request /\ Controlled(q) /\ Recording(q, usage_events)
    BY RecordOf
  <1>2. req' = [req EXCEPT ![r] = n] /\ q.job # "none"
    BY DEF JobFails
  <1> HIDE DEF q
  <1>3. /\ n \in Request /\ n.pc = q.pc /\ n.stream = q.stream /\ n.user = q.user
        /\ n.model = q.model /\ n.estimate = q.estimate /\ n.job = "none"
        /\ n.reply = "error" /\ n.row = q.row /\ n.usage = q.usage /\ n.http = q.http
        /\ n.cancelled = q.cancelled /\ n.upstream = q.upstream /\ n.fault = "locked"
        /\ n.inner = q.inner
    BY <1>1 DEF Request, Jobs, Replies
  <1> HIDE DEF n
  <1>4. Controlled(n)
    BY <1>1, <1>2, <1>3 DEF Controlled, InBlock, Finalizations
  <1>5. Recording(n, usage_events) /\ (Holds(n) => Holds(q))
    BY <1>1, <1>2, <1>3 DEF Controlled, Recording, Recorded, Unrecorded, Holds,
                            InBlock, Finalizations
  <1>6. QED
    BY <1>2, <1>3, <1>4, <1>5 DEF Follows, q

\* The finalisation is in, or has failed: the answer says what the row says.
LEMMA FinalizeReturnsFollows ==
    ASSUME IInv, NEW r \in Requests, FinalizeReturns(r)
    PROVE  \E n : /\ req' = [req EXCEPT ![r] = n] /\ Follows(req[r], n, usage_events)
                  /\ n.pc = "done" /\ req[r].pc \notin {"waiting"} \cup InBlock
  <1> DEFINE q == req[r]
             status == IF q.reply = "error" THEN "500"
                       ELSE IF q.pc = "succeeding" THEN "200" ELSE "502"
             http == IF q.stream THEN q.http ELSE status
             n == [q EXCEPT !.pc = "done", !.http = http]
  <1>1. q \in Request /\ Controlled(q) /\ Recording(q, usage_events)
    BY RecordOf
  <1>2. /\ req' = [req EXCEPT ![r] = n]
        /\ q.pc \in {"succeeding", "failing"} /\ q.reply # "none"
    BY DEF FinalizeReturns, Finish, Answer
  <1> HIDE DEF q
  <1>3. http \in {"none", "200", "400", "429", "500", "502"}
    BY <1>1 DEF Request
  <1>4. /\ n \in Request /\ n.pc = "done" /\ n.stream = q.stream /\ n.job = q.job
        /\ n.reply = q.reply /\ n.row = q.row /\ n.usage = q.usage /\ n.http = http
        /\ n.cancelled = q.cancelled /\ n.upstream = q.upstream /\ n.fault = q.fault
        /\ n.inner = q.inner
    BY <1>1, <1>3 DEF Request, Positions
  <1> HIDE DEF n
  <1>5. Controlled(n)
    BY <1>1, <1>2, <1>4 DEF Controlled, InBlock, Finalizations
  <1>6. Recording(n, usage_events) /\ (Holds(n) => Holds(q))
    BY <1>1, <1>2, <1>4 DEF Controlled, Recording, Recorded, Unrecorded, Holds,
                            InBlock, Finalizations
  <1>7. QED
    BY <1>2, <1>4, <1>5, <1>6 DEF Follows, q, InBlock

\* An abandoned generator is closed: it drops the one inside it, and its row
\* is to be failed.
LEMMA AbandonedFollows ==
    ASSUME IInv, NEW r \in Requests, CloseGenerator(r)
    PROVE  \E n : /\ req' = [req EXCEPT ![r] = n] /\ Follows(req[r], n, usage_events)
                  /\ n.pc = "failing"
  <1> DEFINE q == req[r]
             n == [q EXCEPT !.pc = "failing", !.job = "finalize_failure",
                      !.reply = "none", !.inner = "dropped"]
  <1>1. q \in Request /\ Controlled(q) /\ Recording(q, usage_events)
    BY RecordOf
  <1>2. req' = [req EXCEPT ![r] = n] /\ q.pc = "closing"
    BY IInvReq DEF CloseGenerator, Submit
  <1> HIDE DEF q
  <1> DEFINE m == [q EXCEPT !.pc = "failing", !.job = "finalize_failure",
                       !.reply = "none"]
  <1>3. /\ m \in Request /\ m.pc = "failing" /\ m.stream = q.stream
        /\ m.job = "finalize_failure" /\ m.reply = "none" /\ m.row = q.row
        /\ m.usage = q.usage /\ m.http = q.http /\ m.cancelled = q.cancelled
        /\ m.upstream = q.upstream /\ m.fault = q.fault
    BY ONLY <1>1 DEF m, Request, Positions, Jobs, Replies
  <1>4. n = [m EXCEPT !.inner = "dropped"]
    BY <1>1 DEF Request
  <1> HIDE DEF m, n
  <1>5. /\ n \in Request /\ n.pc = "failing" /\ n.stream = q.stream
        /\ n.job = "finalize_failure" /\ n.reply = "none" /\ n.row = q.row
        /\ n.usage = q.usage /\ n.http = q.http /\ n.cancelled = q.cancelled
        /\ n.upstream = q.upstream /\ n.fault = q.fault
        /\ n.inner = "dropped"
    BY ONLY <1>3, <1>4 DEF Request
  <1>6. Controlled(n)
    BY <1>1, <1>2, <1>5 DEF Controlled, InBlock, Finalizations
  <1>7. Recording(n, usage_events) /\ (Holds(n) => Holds(q))
    BY <1>1, <1>2, <1>5 DEF Controlled, Recording, Recorded, Unrecorded, Holds,
                            InBlock, Finalizations
  <1>8. QED
    BY <1>2, <1>5, <1>6, <1>7 DEF Follows, q

\* The generator of OllamaClient that q dropped, if it did, is closed.
Closed(q) == [q EXCEPT !.inner = IF @ = "dropped" THEN "closed" ELSE @]

\* Nothing else is said of q then.
LEMMA ClosedFollows ==
    ASSUME NEW rows, NEW q \in Request, Controlled(q), Recording(q, rows)
    PROVE  Follows(q, Closed(q), rows) /\ Closed(q).pc = q.pc
  <1> DEFINE n == Closed(q)
             inner == IF q.inner = "dropped" THEN "closed" ELSE q.inner
  <1>1. inner \in {"followed", "dropped", "closed"} /\ inner # "dropped"
    BY DEF Request
  <1>2. n = [q EXCEPT !.inner = inner]
    BY DEF Closed
  <1> HIDE DEF n, inner
  <1>3. /\ n \in Request /\ n.pc = q.pc /\ n.stream = q.stream /\ n.job = q.job
        /\ n.reply = q.reply /\ n.row = q.row /\ n.usage = q.usage /\ n.http = q.http
        /\ n.cancelled = q.cancelled /\ n.upstream = q.upstream /\ n.fault = q.fault
        /\ n.inner = inner
    BY <1>1, <1>2 DEF Request
  <1>4. Controlled(n)
    BY <1>1, <1>3 DEF Controlled, InBlock, Finalizations
  <1>5. Holds(n) <=> Holds(q)
    BY <1>3 DEF Holds
  <1>6. Recording(n, rows)
    BY <1>1, <1>3, <1>5 DEF Recording, Recorded, Unrecorded
  <1>7. QED
    BY <1>3, <1>4, <1>5, <1>6 DEF Follows, n

\* So is that of a request which goes on.
LEMMA CloseUpstreamFollows ==
    ASSUME IInv, NEW r \in Requests, CloseUpstream(r)
    PROVE  \E n : /\ req' = [req EXCEPT ![r] = n] /\ Follows(req[r], n, usage_events)
                  /\ n.pc = req[r].pc
  <1>1. req' = [req EXCEPT ![r] = Closed(req[r])]
    BY IInvReq DEF CloseUpstream, Closed
  <1>2. QED
    BY <1>1, RecordOf, ClosedFollows

-----------------------------------------------------------------------------
(***************************************************************************)
(* The permits and the queue follow the positions.                         *)
(***************************************************************************)

\* What the limiter's operations do to the block and the queue.
LEMMA LimiterMoves ==
    ASSUME IInv, NEW r \in Requests
    PROVE  /\ L!Enter(r) => holders' = holders \cup {r} /\ L!Waiters' = L!Waiters \ {r}
           /\ L!Wait(r) => holders' = holders \ {r} /\ L!Waiters' = L!Waiters \cup {r}
           /\ L!Resume(r) => holders' = holders \cup {r} /\ L!Waiters' = L!Waiters \ {r}
           /\ L!CancelWait(r) => holders' = holders \ {r} /\ L!Waiters' = L!Waiters \ {r}
           /\ L!Leave(r) => holders' = holders \ {r} /\ L!Waiters' = L!Waiters \ {r}
  <1>1. /\ LP!TypeOK /\ LP!QueuedOnce /\ LP!FiniteSets
        /\ L!Waiters = LP!Waiters /\ L!Waiters' = LP!Waiters'
        /\ queue \in Seq(Requests) /\ woken \subseteq LP!Waiters
        /\ holders \cap LP!Waiters = {}
    BY SameQueue DEF IInv, LP!LInv, LP!TypeOK, LP!QueuedOnce, L!Waiters, L!ToSet,
                     LP!Waiters, LP!ToSet
  <1>2. ASSUME r \in LP!Waiters, queue' = L!Without(r)
        PROVE  LP!Waiters' = LP!Waiters \ {r}
    BY <1>1, <1>2, LP!Unqueued, SameQueue, LimiterAssumptions
  <1>3. ASSUME queue' = queue PROVE LP!Waiters' = LP!Waiters
    BY <1>3 DEF LP!Waiters, LP!ToSet
  <1>4. ASSUME L!Wait(r) PROVE LP!Waiters' = LP!Waiters \cup {r}
    <2>1. queue' = Append(queue, r)
      BY <1>4 DEF L!Wait
    <2>2. /\ Len(queue) \in Nat /\ DOMAIN queue = 1 .. Len(queue)
          /\ DOMAIN queue' = 1 .. Len(queue) + 1
          /\ \A i \in 1 .. Len(queue) : queue'[i] = queue[i]
          /\ queue'[Len(queue) + 1] = r
      BY <1>1, <2>1, LenProperties, AppendProperties
    <2>3. QED
      BY <2>2 DEF LP!Waiters, LP!ToSet
  <1>5. L!Enter(r) => holders' = holders \cup {r} /\ LP!Waiters' = LP!Waiters \ {r}
    BY <1>1, <1>3 DEF L!Enter
  <1>6. L!Wait(r) => holders' = holders \ {r}
    BY DEF L!Wait
  <1>7. L!Resume(r) => holders' = holders \cup {r} /\ LP!Waiters' = LP!Waiters \ {r}
    BY <1>1, <1>2 DEF L!Resume
  <1>8. L!CancelWait(r) => holders' = holders \ {r} /\ LP!Waiters' = LP!Waiters \ {r}
    BY <1>1, <1>2 DEF L!CancelWait
  <1>9. L!Leave(r) => holders' = holders \ {r} /\ LP!Waiters' = LP!Waiters \ {r}
    BY <1>1, <1>3 DEF L!Leave
  <1>10. QED
    BY <1>1, <1>4, <1>5, <1>6, <1>7, <1>8, <1>9

\* The block and the queue lose or gain the request that moves, as it moves.
LEMMA MovesPlaced ==
    ASSUME IInv, NEW r \in Requests, NEW n, req' = [req EXCEPT ![r] = n],
           IF n.pc \in InBlock THEN holders' = holders \cup {r}
                               ELSE holders' = holders \ {r},
           IF n.pc = "waiting" THEN L!Waiters' = L!Waiters \cup {r}
                               ELSE L!Waiters' = L!Waiters \ {r}
    PROVE  Placed'
  <1>1. /\ DOMAIN req = Requests /\ req'[r] = n
        /\ \A s \in Requests \ {r} : req'[s] = req[s]
    BY IInvReq
  <1>2. holders = AtUpstream /\ L!Waiters = Waiting
    BY DEF IInv, Placed
  <1>3. holders' = AtUpstream'
    BY <1>1, <1>2 DEF AtUpstream, InBlock
  <1>4. L!Waiters' = Waiting'
    BY <1>1, <1>2 DEF Waiting
  <1>5. QED
    BY <1>3, <1>4 DEF Placed

\* A step that leaves the permits alone moves nobody into the block or the
\* queue, or out of them.
LEMMA StaysPlaced ==
    ASSUME IInv, NEW r \in Requests, NEW n, req' = [req EXCEPT ![r] = n],
           UNCHANGED permits, n.pc \in InBlock <=> req[r].pc \in InBlock,
           n.pc = "waiting" <=> req[r].pc = "waiting"
    PROVE  Placed'
  <1>1. L!Waiters' = L!Waiters /\ holders' = holders
    BY DEF permits, L!Waiters, L!ToSet
  <1>2. holders = AtUpstream /\ L!Waiters = Waiting
    BY DEF IInv, Placed
  <1>3. /\ r \in holders <=> req[r].pc \in InBlock
        /\ r \in L!Waiters <=> req[r].pc = "waiting"
    BY <1>2 DEF AtUpstream, InBlock, Waiting
  <1>4. QED
    BY <1>1, <1>3, MovesPlaced

-----------------------------------------------------------------------------
(***************************************************************************)
(* Steps that change no table keep the invariant.                          *)
(***************************************************************************)

\* A step of the limiter keeps what ConcurrencyLimiterProofs needs of it.
LEMMA LimiterKept ==
    ASSUME IInv, [Next]_vars PROVE LP!LInv' /\ L!TypeOK'
  <1>1. LP!LInv /\ [LP!Next]_LP!limiterVars => LP!LInv'
    BY LimiterAssumptions, LP!NextLInv
  <1>2. LP!LInv'
    BY <1>1, StepOfLimiter, SameLimiterStep DEF IInv
  <1>3. L!TypeOK' <=> LP!TypeOK'
    BY SameLimiterType, PTL
  <1>4. QED
    BY <1>2, <1>3 DEF LP!LInv

\* A step of the ledger keeps its tables well typed.
LEMMA LedgerKept ==
    ASSUME IInv, [Q!Next]_Q!quotaVars PROVE Q!TypeOK'
  <1>1. QP!TypeOK /\ [QP!Next]_QP!quotaVars => QP!TypeOK'
    BY LedgerAssumptions, QP!TypeStep
  <1>2. Q!TypeOK' <=> QP!TypeOK'
    BY SameLedgerType, PTL
  <1>3. QED
    BY <1>1, <1>2, SameLedgerStep, SameLedgerType DEF IInv, TypeOK

\* A step of one request that changes no table, and after which its record
\* follows the one before, keeps the invariant, and at most gives up its row.
LEMMA QuietKeeps ==
    ASSUME IInv, [Next]_vars, NEW r \in Requests, NEW n,
           req' = [req EXCEPT ![r] = n], Follows(req[r], n, usage_events),
           UNCHANGED <<crashes, ledger>>, Placed'
    PROVE  IInv' /\ [Q!Next]_Q!quotaVars
  <1>1. /\ req \in [Requests -> Request] /\ req'[r] = n
        /\ \A s \in Requests \ {r} : req'[s] = req[s]
    BY IInvReq
  <1>2. /\ n \in Request /\ Controlled(n) /\ Recording(n, usage_events)
        /\ n.row = req[r].row /\ (Holds(n) => Holds(req[r]))
    BY DEF Follows
  <1>3. usage_events' = usage_events
    BY DEF ledger
  <1>4. [Q!Next]_Q!quotaVars
    BY <1>1, <1>2, NothingGained
  <1>5. TypeOK'
    <2>1. req' \in [Requests -> Request]
      BY <1>1, <1>2
    <2>2. QED
      BY <1>4, <2>1, LimiterKept, LedgerKept DEF TypeOK, IInv
  <1>6. OwnRows'
    <2>1. \A s \in Requests : req'[s].row = req[s].row
      BY <1>1, <1>2
    <2>2. QED
      BY <2>1 DEF OwnRows, IInv
  <1>7. \A s \in Requests : Controlled(req'[s]) /\ Recording(req'[s], usage_events')
    BY <1>1, <1>2, <1>3, RecordOf
  <1>8. QED
    BY <1>4, <1>5, <1>6, <1>7, LimiterKept DEF IInv

\* The first steps of a request.
LEMMA StartsKeep ==
    ASSUME IInv, [Next]_vars, NEW r \in Requests,
           \/ Arrive(r) \/ ValidatePasses(r) \/ ValidateRaises(r)
           \/ RunReserveRejected(r) \/ JobFails(r) \/ ReserveRaises(r)
    PROVE  IInv' /\ [Q!Next]_Q!quotaVars
  <1>1. UNCHANGED <<crashes, ledger, permits>>
    BY DEF Arrive, ValidatePasses, ValidateRaises, RunReserveRejected, JobFails,
           ReserveRaises
  <1>2. PICK n : /\ req' = [req EXCEPT ![r] = n]
                 /\ Follows(req[r], n, usage_events)
                 /\ \/ n.pc = "validating" /\ req[r].pc = "idle"
                    \/ n.pc = "reserving" /\ req[r].pc = "validating"
                    \/ n.pc = "done" /\ req[r].pc \in {"validating", "reserving"}
                    \/ n.pc = req[r].pc
    BY ArriveFollows, ValidatePassesFollows, ValidateRaisesFollows, RejectedFollows,
       JobFailsFollows, ReserveRaisesFollows
  <1>3. Placed'
    BY <1>1, <1>2, StaysPlaced DEF InBlock
  <1>4. QED
    BY <1>1, <1>2, <1>3, QuietKeeps

\* Into the block, or into the queue.
LEMMA EntersKeep ==
    ASSUME IInv, [Next]_vars, NEW r \in Requests, ReserveReturns(r) \/ GotPermit(r)
    PROVE  IInv' /\ [Q!Next]_Q!quotaVars
  <1>1. UNCHANGED <<crashes, ledger>>
    BY DEF ReserveReturns, GotPermit
  <1>2. CASE L!Wait(r) /\ ReserveReturns(r) /\ req' = [req EXCEPT ![r].pc = "waiting"]
    <2>1. PICK n : /\ req' = [req EXCEPT ![r] = n]
                   /\ Follows(req[r], n, usage_events) /\ n.pc = "waiting"
      BY <1>2, WaitsFollows DEF ReserveReturns
    <2>2. Placed'
      BY <1>2, <2>1, LimiterMoves, MovesPlaced DEF InBlock
    <2>3. QED
      BY <1>1, <2>1, <2>2, QuietKeeps
  <1>3. CASE /\ L!Enter(r) \/ L!Resume(r)
             /\ req' = [req EXCEPT ![r].pc = "calling", ![r].upstream = "open"]
    <2>1. PICK n : /\ req' = [req EXCEPT ![r] = n]
                   /\ Follows(req[r], n, usage_events) /\ n.pc = "calling"
      BY <1>3, EntersFollows DEF ReserveReturns, GotPermit
    <2>2. Placed'
      BY <1>3, <2>1, LimiterMoves, MovesPlaced DEF InBlock
    <2>3. QED
      BY <1>1, <2>1, <2>2, QuietKeeps
  <1>4. QED
    BY <1>2, <1>3 DEF ReserveReturns, GotPermit

\* The chunks of a stream, its client's departure, the end of a request and
\* that of a dropped generator.
LEMMA MovesKeep ==
    ASSUME IInv, [Next]_vars, NEW r \in Requests,
           \/ Chunk(r) \/ ChunkSent(r) \/ Disconnect(r) \/ CancelledSending(r)
           \/ CancelledOutside(r) \/ FinalizeReturns(r) \/ CloseUpstream(r)
    PROVE  IInv' /\ [Q!Next]_Q!quotaVars
  <1>1. UNCHANGED <<crashes, ledger, permits>>
    BY DEF Chunk, ChunkSent, Disconnect, CancelledSending, CancelledOutside,
           FinalizeReturns, CloseUpstream
  <1>2. PICK n : /\ req' = [req EXCEPT ![r] = n]
                 /\ Follows(req[r], n, usage_events)
                 /\ \/ n.pc \in InBlock /\ req[r].pc \in InBlock
                    \/ n.pc = "done" /\ req[r].pc \notin {"waiting"} \cup InBlock
                    \/ n.pc = req[r].pc
    BY ChunkFollows, ChunkSentFollows, DisconnectFollows, CancelledSendingFollows,
       CancelledOutsideFollows, FinalizeReturnsFollows, CloseUpstreamFollows
       DEF InBlock
  <1>3. Placed'
    BY <1>1, <1>2, StaysPlaced DEF InBlock
  <1>4. QED
    BY <1>1, <1>2, <1>3, QuietKeeps

\* Out of the block, or out of the queue: the permit, or the place, is given
\* up in the same step.
LEMMA LeavesKeep ==
    ASSUME IInv, [Next]_vars, NEW r \in Requests,
           \/ UpstreamEnds(r) \/ UpstreamBreaks(r)
           \/ CancelledInside(r) \/ CloseGenerator(r)
    PROVE  IInv' /\ [Q!Next]_Q!quotaVars
  <1>1. /\ UNCHANGED <<crashes, ledger>>
        /\ L!Leave(r) \/ L!CancelWait(r)
    BY DEF UpstreamEnds, UpstreamReplies, StreamEnds, UpstreamFails, UpstreamBreaks,
           CancelledInside, CloseGenerator
  <1>2. ASSUME NEW how, how \in {"error", "broken", req[r].upstream},
               req[r].pc \in {"waiting"} \cup InBlock,
               req' = [req EXCEPT ![r] = [Submit(r, "failing", "finalize_failure")
                          EXCEPT !.upstream = how]]
        PROVE  \E n : /\ req' = [req EXCEPT ![r] = n]
                      /\ Follows(req[r], n, usage_events) /\ n.pc = "failing"
    BY <1>2, FailsFollows
  <1>3. PICK n : /\ req' = [req EXCEPT ![r] = n]
                 /\ Follows(req[r], n, usage_events)
                 /\ n.pc \in {"succeeding", "failing", "done"}
    <2>1. CASE UpstreamReplies(r) \/ StreamEnds(r)
      BY <2>1, UpstreamRepliesFollows, StreamEndsFollows
    <2>2. CASE UpstreamFails(r)
      BY <1>2, <2>2 DEF UpstreamFails, InBlock
    <2>3. CASE UpstreamBreaks(r)
      BY <1>2, <2>3, BreaksFollows DEF UpstreamBreaks, InBlock
    <2>4. CASE CancelledInside(r)
      <3>1. req' = [req EXCEPT ![r] = Submit(r, "failing", "finalize_failure")]
        BY <2>4 DEF CancelledInside
      <3>2. Submit(r, "failing", "finalize_failure")
              = [Submit(r, "failing", "finalize_failure")
                    EXCEPT !.upstream = req[r].upstream]
        BY RecordOf DEF Submit, Request
      <3>3. req[r].pc \in {"waiting"} \cup InBlock
        BY <2>4 DEF CancelledInside, InBlock
      <3>4. QED
        BY <1>2, <3>1, <3>2, <3>3
    <2>5. QED
      BY <2>1, <2>2, <2>3, <2>4, AbandonedFollows DEF UpstreamEnds
  <1>4. Placed'
    BY <1>1, <1>3, LimiterMoves, MovesPlaced DEF InBlock
  <1>5. QED
    BY <1>1, <1>3, <1>4, QuietKeeps

-----------------------------------------------------------------------------
(***************************************************************************)
(* Jobs that change the tables keep the invariant.                         *)
(***************************************************************************)

\* The rows of the table are counted by a number.
LEMMA RowCount == ASSUME IInv PROVE Len(usage_events) \in Nat
  <1>1. usage_events \in Seq(Q!Event)
    BY DEF IInv, TypeOK, Q!TypeOK
  <1>2. QED
    BY <1>1, LenProperties

\* A job that inserts the row of its request, or writes to that row alone,
\* says nothing of the others.
LEMMA JobKeeps ==
    ASSUME IInv, [Next]_vars, [Q!Next]_Q!quotaVars, NEW r \in Requests,
           NEW n \in Request, req' = [req EXCEPT ![r] = n],
           UNCHANGED <<crashes, permits>>, n.pc = req[r].pc,
           Controlled(n), Recording(n, usage_events'),
           n.row = req[r].row \/ n.row = Len(usage_events) + 1,
           Len(usage_events') \in Nat, Len(usage_events) <= Len(usage_events'),
           \A i \in 1 .. Len(usage_events) :
              i # req[r].row => usage_events'[i] = usage_events[i]
    PROVE  IInv'
  <1>1. /\ req \in [Requests -> Request] /\ req'[r] = n
        /\ \A s \in Requests \ {r} : req'[s] = req[s]
    BY IInvReq
  <1>2. Len(usage_events) \in Nat
    BY RowCount
  <1>3. TypeOK'
    <2>1. req' \in [Requests -> Request]
      BY <1>1
    <2>2. QED
      BY <2>1, LimiterKept, LedgerKept DEF TypeOK, IInv
  <1>4. \A s \in Requests :
            req[s].row = 0 \/ req[s].row \in 1 .. Len(usage_events)
    BY RecordOf DEF Recording
  <1>5. OwnRows'
    <2>1. SUFFICES ASSUME NEW s \in Requests, NEW t \in Requests, s # t,
                          req'[s].row = req'[t].row
                   PROVE  req'[s].row = 0
      BY DEF OwnRows
    <2>2. req[s].row = req[t].row /\ s # t => req[s].row = 0
      BY DEF IInv, OwnRows
    <2>3. CASE s # r /\ t # r
      BY <1>1, <2>1, <2>2, <2>3
    <2>4. CASE s = r /\ t # r
      BY <1>1, <1>2, <1>4, <2>1, <2>2, <2>4
    <2>5. CASE s # r /\ t = r
      BY <1>1, <1>2, <1>4, <2>1, <2>2, <2>5
    <2>6. QED
      BY <2>1, <2>3, <2>4, <2>5
  <1>6. \A s \in Requests \ {r} : Recording(req[s], usage_events')
    <2>1. SUFFICES ASSUME NEW s \in Requests \ {r}
                   PROVE  Recording(req[s], usage_events')
      OBVIOUS
    <2>2. CASE req[s].row = 0
      BY <2>2, RecordOf DEF Recording
    <2>3. CASE req[s].row # 0
      <3>1. /\ req[s].row \in 1 .. Len(usage_events)
            /\ req[s].row \in 1 .. Len(usage_events')
        BY <1>2, <1>4, <2>3
      <3>2. req[s].row # req[r].row
        BY <2>3 DEF IInv, OwnRows
      <3>3. usage_events'[req[s].row] = usage_events[req[s].row]
        BY <3>1, <3>2
      <3>4. Recording(req[s], usage_events)
        BY RecordOf
      <3>5. QED
        BY <2>3, <3>1, <3>3, <3>4 DEF Recording
    <2>4. QED
      BY <2>2, <2>3
  <1>7. \A s \in Requests : Controlled(req'[s]) /\ Recording(req'[s], usage_events')
    BY <1>1, <1>6, RecordOf
  <1>8. Placed'
    BY StaysPlaced
  <1>9. QED
    BY <1>3, <1>5, <1>7, <1>8, LimiterKept DEF IInv

\* A reservation is granted: the request, if it is still there, has a row of
\* its own, the last.
LEMMA ReserveKeeps ==
    ASSUME IInv, [Next]_vars, NEW r \in Requests, RunReserve(r)
    PROVE  IInv' /\ [Q!Next]_Q!quotaVars
  <1> DEFINE q == req[r]
             row == Len(usage_events) + 1
             n == [q EXCEPT !.job = "none", !.reply = "ok", !.row = row]
  <1>1. q \in Request /\ Controlled(q) /\ Recording(q, usage_events)
    BY RecordOf
  <1>2. /\ req' = [req EXCEPT ![r] = n] /\ q.job = "reserve"
        /\ UNCHANGED <<crashes, permits>>
        /\ Q!InsertReserved(q.user, q.model, q.estimate, now, now)
        /\ [Q!Next]_Q!quotaVars
    <2>1. /\ req' = [req EXCEPT ![r] = n] /\ q.job = "reserve"
          /\ UNCHANGED <<crashes, permits>>
          /\ \/ Q!Reserve(q.user, q.model, q.estimate)
             \/ Q!ReserveUnheard(q.user, q.model, q.estimate)
      BY DEF RunReserve
    <2>2. q.user \in Users /\ q.model \in Models /\ q.estimate \in Estimates
      BY <1>1 DEF Request
    <2>3. [Q!Next]_Q!quotaVars
      <3>1. now \in Q!Times
        BY DEF IInv, TypeOK, Q!TypeOK
      <3>2. QED
        BY <2>1, <2>2, <3>1 DEF Q!Next, Q!Reserve
    <2>4. QED
      BY <2>1, <2>3 DEF Q!Reserve, Q!ReserveAt, Q!ReserveUnheard
  <1>3. /\ Len(usage_events) \in Nat
        /\ Len(usage_events') = Len(usage_events) + 1
        /\ \A i \in 1 .. Len(usage_events) : usage_events'[i] = usage_events[i]
        /\ usage_events'[row].status = "reserved"
        /\ row \in 1 .. MaxEvents
    <2>1. QP!InsertReserved(q.user, q.model, q.estimate, now, now)
      BY <1>2, SameInsert
    <2>2. QP!TypeOK /\ MaxEvents \in Nat /\ Len(usage_events) \in Nat
      BY LedgerAssumptions, SameLedgerType, RowCount
         DEF IInv, TypeOK, QP!BoundsAssumption
    <2>3. /\ q.user \in Users /\ q.model \in Models /\ q.estimate \in Estimates
          /\ now \in QP!Times
      BY <1>1, <2>2 DEF Request, QP!TypeOK
    <2>4. Len(usage_events) < MaxEvents
      BY <1>2 DEF Q!InsertReserved
    <2> HIDE DEF q
    <2>5. QED
      BY <2>1, <2>2, <2>3, <2>4, LedgerAssumptions, QP!InsertedRow DEF QP!Ids
  <1> HIDE DEF q, row
  <1>4. /\ n \in Request
        /\ n.pc = q.pc /\ n.stream = q.stream /\ n.job = "none" /\ n.reply = "ok"
        /\ n.row = row /\ n.usage = q.usage /\ n.http = q.http
        /\ n.cancelled = q.cancelled /\ n.upstream = q.upstream /\ n.fault = q.fault
        /\ n.inner = q.inner
    <2>1. row \in 0 .. MaxEvents
      BY <1>3
    <2>2. QED
      BY <1>1, <2>1 DEF Request, Jobs, Replies
  <1> HIDE DEF n
  <1>5. q.pc \in {"reserving", "done"} /\ row # 0
    BY <1>1, <1>2, <1>3 DEF Controlled, Request, Positions, InBlock
  <1>6. Controlled(n)
    BY <1>1, <1>2, <1>4, <1>5 DEF Controlled, InBlock, Finalizations
  <1>7. Recording(n, usage_events')
    <2>1. row \in 1 .. Len(usage_events') /\ usage_events'[row].status = "reserved"
      BY <1>3 DEF row
    <2>2. q.pc = "done" => q.stream /\ q.fault # "none"
      BY <1>1, <1>2 DEF Controlled
    <2>3. QED
      BY <1>4, <1>5, <2>1, <2>2 DEF Recording, Recorded, InBlock
  <1>8. \A i \in 1 .. Len(usage_events) :
            i # req[r].row => usage_events'[i] = usage_events[i]
    BY <1>3
  <1>9. n.row = Len(usage_events) + 1
    BY <1>4 DEF row
  <1>10. IInv'
    <2>1. /\ n \in Request /\ req' = [req EXCEPT ![r] = n]
          /\ UNCHANGED <<crashes, permits>> /\ n.pc = req[r].pc
          /\ Controlled(n) /\ Recording(n, usage_events')
          /\ n.row = Len(usage_events) + 1
          /\ Len(usage_events') \in Nat /\ Len(usage_events) <= Len(usage_events')
      BY <1>2, <1>3, <1>4, <1>6, <1>7, <1>9 DEF q
    <2>2. QED
      BY <1>2, <1>8, <2>1, JobKeeps
  <1>11. QED
    BY <1>2, <1>10

\* What a finalisation does to the row of its request, and to the others.
LEMMA FinalizedRow ==
    ASSUME IInv, NEW r \in Requests, NEW status \in {"success", "failed"},
           NEW tokens \in Nat, req[r].row \in 1 .. Len(usage_events),
           usage_events' = [usage_events EXCEPT ![req[r].row] =
               [@ EXCEPT !.status = status, !.total_tokens = tokens]]
    PROVE  /\ Len(usage_events) \in Nat /\ Len(usage_events') = Len(usage_events)
           /\ usage_events'[req[r].row].status = status
           /\ usage_events'[req[r].row].total_tokens = tokens
           /\ \A i \in 1 .. Len(usage_events) :
                 i # req[r].row => usage_events'[i] = usage_events[i]
  <1> DEFINE i == req[r].row
             e == usage_events[i]
             f == [e EXCEPT !.status = status, !.total_tokens = tokens]
  <1>1. /\ usage_events \in Seq(Q!Event) /\ Len(usage_events) \in Nat
        /\ DOMAIN usage_events = 1 .. Len(usage_events)
    BY RowCount, LenProperties DEF IInv, TypeOK, Q!TypeOK
  <1>2. e \in Q!Event
    BY <1>1, ElementOfSeq
  <1>3. f \in QP!Event /\ f.status = status /\ f.total_tokens = tokens
    BY <1>2 DEF Q!Event, Q!Statuses, Q!Times, QP!Event, QP!Statuses, QP!Times
  <1>4. usage_events' = [usage_events EXCEPT ![i] = f]
    OBVIOUS
  <1>5. usage_events \in Seq(QP!Event)
    BY <1>1 DEF Q!Event, Q!Statuses, Q!Times, QP!Event, QP!Statuses, QP!Times
  <1> HIDE DEF f, e
  <1>6. /\ Len(usage_events') = Len(usage_events)
        /\ \A j \in 1 .. Len(usage_events) :
              usage_events'[j] = IF j = i THEN f ELSE usage_events[j]
    BY <1>3, <1>4, <1>5, QP!ReplacedRow, LedgerAssumptions
  <1>7. QED
    BY <1>1, <1>3, <1>6

\* A finalisation settles the row of its request, whether its coroutine hears
\* of it or not.
LEMMA FinalizeKeeps ==
    ASSUME IInv, [Next]_vars, NEW r \in Requests,
           RunFinalizeSuccess(r) \/ RunFinalizeFailure(r)
    PROVE  IInv' /\ [Q!Next]_Q!quotaVars
  <1> DEFINE q == req[r]
             n == [q EXCEPT !.job = "none", !.reply = "ok"]
             used == IF q.usage = NoUsage THEN 0 ELSE q.usage
  <1>1. q \in Request /\ Controlled(q) /\ Recording(q, usage_events)
    BY RecordOf
  <1>2. req' = [req EXCEPT ![r] = n] /\ UNCHANGED <<crashes, permits>>
    BY DEF RunFinalizeSuccess, RunFinalizeFailure
  <1>3. PICK status \in {"success", "failed"}, tokens \in {used, 0} :
           /\ usage_events' = [usage_events EXCEPT ![q.row] =
                  [@ EXCEPT !.status = status, !.total_tokens = tokens]]
           /\ IF status = "success"
              THEN q.job = "finalize_success" /\ tokens = used
              ELSE q.job = "finalize_failure" /\ tokens = 0
    BY DEF RunFinalizeSuccess, RunFinalizeFailure, Q!FinalizeSuccess, Q!FinalizeFailure
  <1>4. [Q!Next]_Q!quotaVars
    <2>1. used \in Usages
      BY <1>1, UsagesZero DEF Request
    <2>2. CASE RunFinalizeSuccess(r)
      <3>1. Q!FinalizeSuccess(q.row, used) /\ q.row \in held
        BY <2>2 DEF RunFinalizeSuccess, Q!FinalizeSuccess
      <3>2. QED
        BY <2>1, <3>1 DEF Q!Next
    <2>3. CASE RunFinalizeFailure(r)
      <3>1. Q!FinalizeFailure(q.row) /\ q.row \in held
        BY <2>3 DEF RunFinalizeFailure, Q!FinalizeFailure
      <3>2. QED
        BY <3>1 DEF Q!Next
    <2>4. QED
      BY <2>2, <2>3
  <1>5. q.row # 0 /\ q.row \in 1 .. Len(usage_events)
    BY <1>1, <1>3 DEF Controlled, Recording, Finalizations
  <1>6. /\ Len(usage_events) \in Nat /\ Len(usage_events') = Len(usage_events)
        /\ usage_events'[q.row].status = status
        /\ usage_events'[q.row].total_tokens = tokens
        /\ \A i \in 1 .. Len(usage_events) :
              i # q.row => usage_events'[i] = usage_events[i]
    <2>1. tokens \in Nat
      BY <1>1, <1>3, UsagesZero, LedgerAssumptions
         DEF Request, RunFinalizeFailure, Q!FinalizeFailure, QP!UsagesAssumption
    <2>2. QED
      BY <1>3, <1>5, <2>1, FinalizedRow
  <1>7. ~q.stream /\ q.pc = "succeeding" => used = q.usage
    BY <1>1, NoUsageAssumption, LedgerAssumptions
       DEF Controlled, QP!UsagesAssumption
  <1> HIDE DEF q, used
  <1>8. /\ n \in Request
        /\ n.pc = q.pc /\ n.stream = q.stream /\ n.job = "none" /\ n.reply = "ok"
        /\ n.row = q.row /\ n.usage = q.usage /\ n.http = q.http
        /\ n.cancelled = q.cancelled /\ n.upstream = q.upstream /\ n.fault = q.fault
        /\ n.inner = q.inner
    BY <1>1 DEF Request, Jobs, Replies
  <1> HIDE DEF n
  <1>9. \/ status = "success" /\ q.pc \in {"succeeding", "done"}
        \/ status = "failed" /\ q.pc \in {"failing", "done"}
    BY <1>1, <1>3 DEF Controlled, Request, Positions, InBlock
  <1>10. q.pc = "done" => q.stream /\ q.fault # "none"
    BY <1>1, <1>3 DEF Controlled
  <1>0. q.inner = "dropped" => status = "failed"
    BY <1>1, <1>3 DEF Controlled
  <1>11. Controlled(n)
    BY <1>1, <1>3, <1>8, <1>9, <1>10 DEF Controlled, InBlock, Finalizations
  <1>12. Recording(n, usage_events')
    <2>1. n.row # 0 /\ n.row \in 1 .. Len(usage_events') /\ ~Holds(n)
      BY <1>5, <1>6, <1>8, <1>9 DEF Holds, InBlock, Finalizations
    <2>2. Recorded(n, usage_events'[n.row])
      BY <1>0, <1>3, <1>6, <1>7, <1>8, <1>9, <1>10, <2>1 DEF Recorded
    <2>3. QED
      BY <1>8, <1>9, <1>10, <2>1, <2>2 DEF Recording
  <1>13. IInv'
    <2>1. /\ n \in Request /\ req' = [req EXCEPT ![r] = n]
          /\ UNCHANGED <<crashes, permits>> /\ n.pc = req[r].pc
          /\ Controlled(n) /\ Recording(n, usage_events') /\ n.row = req[r].row
          /\ Len(usage_events') \in Nat /\ Len(usage_events) <= Len(usage_events')
      BY <1>2, <1>6, <1>8, <1>11, <1>12 DEF q
    <2>2. \A i \in 1 .. Len(usage_events) :
             i # req[r].row => usage_events'[i] = usage_events[i]
      BY <1>6 DEF q
    <2>3. QED
      BY <1>4, <2>1, <2>2, JobKeeps
  <1>14. QED
    BY <1>4, <1>13

-----------------------------------------------------------------------------
(***************************************************************************)
(* The other steps, and the invariant as a whole.                          *)
(***************************************************************************)

\* What a crash leaves of a request.
Crashed(q) ==
    [q EXCEPT !.pc = "done", !.job = "none", !.cancelled = FALSE, !.fault = "crash"]

\* What is left of it says no more than its row does.
LEMMA CrashFollows ==
    ASSUME IInv, NEW r \in Requests, Live(r)
    PROVE  Follows(req[r], Crashed(req[r]), usage_events) /\ Crashed(req[r]).pc = "done"
  <1> DEFINE q == req[r]
             n == Crashed(q)
  <1>1. q \in Request /\ Controlled(q) /\ Recording(q, usage_events)
    BY RecordOf
  <1>2. q.pc \notin {"idle", "done"} \/ q.job # "none"
    BY DEF Live
  <1> HIDE DEF q
  <1> DEFINE m == [q EXCEPT !.pc = "done", !.cancelled = FALSE]
  <1>3. /\ m \in Request /\ m.pc = "done" /\ m.stream = q.stream
        /\ m.reply = q.reply /\ m.row = q.row
        /\ m.usage = q.usage /\ m.http = q.http /\ m.cancelled = FALSE
        /\ m.upstream = q.upstream /\ m.inner = q.inner
    BY ONLY <1>1 DEF m, Request, Positions
  <1>4. n = [m EXCEPT !.job = "none", !.fault = "crash"]
    BY <1>1 DEF Request, Crashed
  <1> HIDE DEF m, n
  <1>5. /\ n \in Request /\ n.pc = "done" /\ n.stream = q.stream /\ n.job = "none"
        /\ n.reply = q.reply /\ n.row = q.row /\ n.usage = q.usage /\ n.http = q.http
        /\ n.cancelled = FALSE /\ n.upstream = q.upstream /\ n.fault = "crash"
        /\ n.inner = q.inner
    BY ONLY <1>3, <1>4 DEF Request, Jobs
  <1>6. Controlled(n)
    BY <1>1, <1>5 DEF Controlled, InBlock, Finalizations
  <1>7. Recording(n, usage_events) /\ ~Holds(n)
    BY <1>1, <1>2, <1>5 DEF Controlled, Recording, Recorded, Unrecorded, Holds,
                            InBlock, Finalizations
  <1>8. QED
    BY <1>5, <1>6, <1>7 DEF Follows, n, q

\* A crash keeps the invariant: the rows stay, and with them the orphans.
LEMMA CrashKeeps ==
    ASSUME IInv, [Next]_vars, Crash
    PROVE  IInv' /\ [Q!Next]_Q!quotaVars
  <1>1. /\ req \in [Requests -> Request] /\ crashes \in 0 .. MaxCrashes
        /\ crashes < MaxCrashes /\ crashes' = crashes + 1
        /\ UNCHANGED ledger /\ L!Restart
        /\ req' = [r \in Requests |->
                      Closed(IF Live(r) THEN Crashed(req[r]) ELSE req[r])]
    BY DEF Crash, Crashed, Closed, IInv, TypeOK
  <1>2. usage_events' = usage_events
    BY <1>1 DEF ledger
  <1>3. \A r \in Requests :
            Follows(req[r], req'[r], usage_events) /\ req'[r].pc \in {"idle", "done"}
    <2>1. SUFFICES ASSUME NEW r \in Requests
                   PROVE  /\ Follows(req[r], req'[r], usage_events)
                          /\ req'[r].pc \in {"idle", "done"}
      OBVIOUS
    <2>2. PICK n : /\ n = IF Live(r) THEN Crashed(req[r]) ELSE req[r]
                   /\ req'[r] = Closed(n)
      BY <1>1
    <2>3. Follows(req[r], n, usage_events) /\ n.pc \in {"idle", "done"}
      BY <2>2, CrashFollows, RecordOf DEF Live, Follows
    <2>4. Follows(n, Closed(n), usage_events) /\ Closed(n).pc = n.pc
      BY <2>3, ClosedFollows DEF Follows
    <2>5. QED
      BY <2>2, <2>3, <2>4 DEF Follows
  <1>4. \A r \in Requests :
            /\ req'[r] \in Request
            /\ Controlled(req'[r]) /\ Recording(req'[r], usage_events')
            /\ req'[r].row = req[r].row
            /\ Holds(req'[r]) => Holds(req[r])
            /\ req'[r].pc \in {"idle", "done"}
    BY <1>2, <1>3, RecordOf DEF Follows
  <1>5. [Q!Next]_Q!quotaVars
    BY <1>1, <1>4, NothingGained
  <1>6. TypeOK'
    <2>1. req' \in [Requests -> Request]
      BY <1>1, <1>4
    <2>2. crashes' \in 0 .. MaxCrashes
      BY <1>1, CrashAssumption
    <2>3. QED
      BY <1>5, <2>1, <2>2, LimiterKept, LedgerKept DEF TypeOK
  <1>7. OwnRows'
    BY <1>4 DEF OwnRows, IInv
  <1>8. Placed'
    <2>1. holders' = {} /\ queue' = <<>>
      BY <1>1 DEF L!Restart
    <2>2. L!Waiters' = {}
      BY <2>1 DEF L!Waiters, L!ToSet
    <2>3. AtUpstream' = {} /\ Waiting' = {}
      BY <1>4 DEF AtUpstream, Waiting
    <2>4. QED
      BY <2>1, <2>2, <2>3 DEF Placed
  <1>9. QED
    BY <1>4, <1>5, <1>6, <1>7, <1>8, LimiterKept DEF IInv

\* An admin and the clock touch no row.
LEMMA OthersKeep ==
    ASSUME IInv, [Next]_vars, UNCHANGED <<req, crashes, permits>>,
           usage_events' = usage_events, [Q!Next]_Q!quotaVars
    PROVE  IInv'
  <1>1. TypeOK'
    BY LimiterKept, LedgerKept DEF TypeOK, IInv
  <1>2. OwnRows'
    BY DEF OwnRows, IInv
  <1>3. Placed'
    BY DEF Placed, IInv, AtUpstream, Waiting, permits, L!Waiters, L!ToSet
  <1>4. QED
    BY <1>1, <1>2, <1>3, LimiterKept DEF IInv

\* Every step keeps the invariant, and is a step of the ledger's protocol.
LEMMA Step == IInv /\ [Next]_vars => IInv' /\ [Q!Next]_Q!quotaVars
  <1> SUFFICES ASSUME IInv, [Next]_vars PROVE IInv' /\ [Q!Next]_Q!quotaVars
    OBVIOUS
  <1>1. ASSUME NEW r \in Requests, Progress(r) PROVE IInv' /\ [Q!Next]_Q!quotaVars
    BY <1>1, StartsKeep, EntersKeep, MovesKeep, LeavesKeep, ReserveKeeps, FinalizeKeeps
       DEF Progress
  <1>2. ASSUME NEW r \in Requests,
               Arrive(r) \/ UpstreamEnds(r) \/ Chunk(r) \/ UpstreamBreaks(r)
                   \/ JobFails(r) \/ Disconnect(r)
        PROVE  IInv' /\ [Q!Next]_Q!quotaVars
    BY <1>2, StartsKeep, MovesKeep, LeavesKeep
  <1>3. ASSUME NEW u \in Users, NEW limits \in LimitSettings,
               AdminUpdatesLimits(u, limits)
        PROVE  IInv' /\ [Q!Next]_Q!quotaVars
    <2>1. /\ UNCHANGED <<req, crashes, permits>> /\ usage_events' = usage_events
          /\ Q!UpdateLimits(u, limits)
      BY <1>3 DEF AdminUpdatesLimits, Q!UpdateLimits
    <2>2. QED
      BY <2>1, OthersKeep DEF Q!Next
  <1>4. ASSUME NEW t \in 0 .. MaxNow, ClockMoves(t)
        PROVE  IInv' /\ [Q!Next]_Q!quotaVars
    <2>1. /\ UNCHANGED <<req, crashes, permits>> /\ usage_events' = usage_events
          /\ Q!SetClock(t) /\ t \in Q!Times
      BY <1>4 DEF ClockMoves, Q!SetClock, Q!tables, Q!Times
    <2>2. QED
      BY <2>1, OthersKeep DEF Q!Next
  <1>5. CASE UNCHANGED vars
    <2>1. UNCHANGED <<req, crashes, permits, ledger>>
      BY <1>5 DEF vars
    <2>2. usage_events' = usage_events
      BY <2>1 DEF ledger
    <2>3. [Q!Next]_Q!quotaVars
      BY <2>1, NothingGained
    <2>4. QED
      BY <2>1, <2>2, <2>3, OthersKeep
  <1>6. QED
    BY <1>1, <1>2, <1>3, <1>4, <1>5, CrashKeeps DEF Next

\* It holds of a server that has just been started on an empty database.
LEMMA InitIInv == Init => IInv
  <1> SUFFICES ASSUME Init PROVE IInv
    OBVIOUS
  <1>1. PICK u \in Users, m \in Models, k \in Estimates :
           req = [r \in Requests |->
              [pc |-> "idle", stream |-> FALSE, user |-> u, model |-> m,
               estimate |-> k, job |-> "none", reply |-> "none", row |-> 0,
               usage |-> NoUsage, http |-> "none", cancelled |-> FALSE,
               inner |-> "followed", upstream |-> "none", fault |-> "none"]]
    BY DEF Init
  <1>2. crashes = 0 /\ Q!Init /\ L!Init
    BY DEF Init
  <1>3. LP!LInv /\ L!TypeOK
    BY <1>2, SameLimiterInit, SameLimiterType, LimiterAssumptions, LP!InitLInv
       DEF LP!LInv
  <1>4. Q!TypeOK
    BY <1>2, SameLedgerInit, SameLedgerType, LedgerAssumptions, QP!InitIInv
       DEF QP!IInv
  <1>5. \A r \in Requests :
            /\ req[r] \in Request /\ req[r].pc = "idle" /\ req[r].row = 0
            /\ Controlled(req[r]) /\ Unrecorded(req[r])
    BY <1>1, LedgerAssumptions
       DEF Request, Positions, Jobs, Replies, Controlled, Unrecorded, InBlock,
           Finalizations, QP!BoundsAssumption
  <1>6. TypeOK
    <2>1. req \in [Requests -> Request]
      BY <1>1, <1>5
    <2>2. QED
      BY <1>2, <1>3, <1>4, <2>1, CrashAssumption DEF TypeOK
  <1>7. Placed
    <2>1. holders = {} /\ L!Waiters = {}
      BY <1>2 DEF L!Init, L!Waiters, L!ToSet
    <2>2. QED
      BY <1>5, <2>1 DEF Placed, AtUpstream, Waiting
  <1>8. QED
    BY <1>3, <1>5, <1>6, <1>7 DEF IInv, OwnRows, Recording

\* The inductive invariant holds in every reachable state.
LEMMA Inductive == Spec => []IInv
  BY InitIInv, Step, PTL DEF Spec

-----------------------------------------------------------------------------
(***************************************************************************)
(* The properties of the runs.                                             *)
(***************************************************************************)

\* The records of the requests, the tables and the limiter keep their types.
THEOREM TypeCorrect == Spec => []TypeOK
  <1>1. IInv => TypeOK
    BY DEF IInv
  <1>2. QED
    BY <1>1, Inductive, PTL

\* Whatever the interleaving of coroutines, threads, disconnections, failed
\* transactions and crashes, the chat service uses the repository as its
\* protocol asks: what Quota's properties say, they say of this server.
THEOREM LedgerProtocolKept == Spec => LedgerProtocol
  <1>1. Init => Q!Init
    BY DEF Init
  <1>2. QED
    BY <1>1, Inductive, Step, PTL DEF Spec, LedgerProtocol, Q!Spec

\* So it uses the semaphore: the theorems of ConcurrencyLimiterProofs hold of
\* the permits of this server.
THEOREM LimiterProtocolKept == Spec => LimiterProtocol
  <1>1. Init => L!Init
    BY DEF Init
  <1>2. QED
    BY <1>1, StepOfLimiter, PTL DEF Spec, LimiterProtocol, L!Spec

\* A job that finalises finds its reservation unsettled and nobody else's; a
\* request that asks for a permit has none and waits for none, one that
\* leaves the block is in it, one that stops waiting is in the queue.
ProtocolsAreMet ==
    \A r \in Requests :
        /\ req[r].job \in Finalizations =>
               /\ req[r].row \in held /\ Status(r) = "reserved"
               /\ \A s \in Requests \ {r} : req[s].row # req[r].row
        /\ req[r].pc = "reserving" => r \notin holders \cup L!Waiters
        /\ req[r].pc \in InBlock => r \in holders
        /\ req[r].pc = "waiting" => r \in L!Waiters

\* The operations of both components are only ever called where their guards
\* hold: it is not the guards of the model that keep the protocols, but the
\* order in which chat_proxy.py calls them.
THEOREM GuardsNeverRefuse == Spec => []ProtocolsAreMet
  <1>1. IInv => ProtocolsAreMet
    <2> SUFFICES ASSUME IInv, NEW r \in Requests
                 PROVE  /\ req[r].job \in Finalizations =>
                               /\ req[r].row \in held /\ Status(r) = "reserved"
                               /\ \A s \in Requests \ {r} : req[s].row # req[r].row
                        /\ req[r].pc = "reserving" => r \notin holders \cup L!Waiters
                        /\ req[r].pc \in InBlock => r \in holders
                        /\ req[r].pc = "waiting" => r \in L!Waiters
      BY DEF ProtocolsAreMet
    <2>1. req[r].job \in Finalizations =>
              Holds(req[r]) /\ Status(r) = "reserved" /\ req[r].row # 0
      BY RecordOf DEF Controlled, Recording, Recorded, Holds, Status
    <2>2. Holds(req[r]) => req[r].row \in held
      BY HeldMeans
    <2>3. \A s \in Requests \ {r} : req[r].row # 0 => req[s].row # req[r].row
      BY DEF IInv, OwnRows
    <2>4. holders = AtUpstream /\ L!Waiters = Waiting
      BY DEF IInv, Placed
    <2>5. QED
      BY <2>1, <2>2, <2>3, <2>4 DEF AtUpstream, Waiting, InBlock
  <1>2. QED
    BY <1>1, Inductive, PTL

\* Every call at the upstream that its coroutine follows has a permit and a
\* reserved row of its own, and nothing else has a permit, through every
\* cancellation and disconnection.  An open call without a permit is that of a
\* stream whose client left, and its row is no success.
THEOREM CallsAreCovered == Spec => []UpstreamCovered
  <1>1. IInv => UpstreamCovered
    <2> SUFFICES ASSUME IInv PROVE UpstreamCovered
      OBVIOUS
    <2>1. holders = AtUpstream
      BY DEF IInv, Placed
    <2>2. ASSUME NEW r \in AtUpstream PROVE req[r].row # 0 /\ Status(r) = "reserved"
      <3>1. Controlled(req[r]) /\ Recording(req[r], usage_events)
        BY RecordOf DEF AtUpstream
      <3>2. req[r].pc \in InBlock
        BY DEF AtUpstream, InBlock
      <3>3. QED
        BY <3>1, <3>2 DEF Controlled, Recording, Recorded, Holds, Status
    <2>3. \A r, s \in Requests : req[r].row = req[s].row /\ r # s => req[r].row = 0
      BY DEF IInv, OwnRows
    <2>4. ASSUME NEW r \in OpenCalls \ AtUpstream
          PROVE  /\ req[r].stream /\ req[r].pc \in {"failing", "done"}
                 /\ req[r].row # 0 /\ Status(r) # "success"
      <3>1. r \in Requests /\ req[r].inner = "dropped"
        BY DEF OpenCalls
      <3>2. Controlled(req[r]) /\ Recording(req[r], usage_events)
        BY <3>1, RecordOf
      <3>3. QED
        BY <3>1, <3>2 DEF Controlled, Recording, Recorded, Status
    <2>5. QED
      BY <2>1, <2>2, <2>3, <2>4 DEF UpstreamCovered
  <1>2. QED
    BY <1>1, Inductive, PTL

\* In this server too no wake-up is lost, and the permits add up.
LEMMA PermitsOfServer == Spec => [](LP!NoLostWakeUp /\ LP!PermitsConserved)
  <1>1. /\ LP!Spec => []LP!NoLostWakeUp
        /\ LP!Spec => []LP!PermitsConserved
    BY LimiterAssumptions, LP!WakeUpsNeverLost, LP!PermitsNeverLost
  <1>2. QED
    BY <1>1, LimiterProtocolKept, SameLimiterInit, SameLimiterStep, PTL
       DEF LimiterProtocol, L!Spec, LP!Spec

\* The counter is a number and the sets that are counted with it are finite.
LEMMA LimiterCounts ==
    ASSUME IInv PROVE value \in Nat /\ IsFiniteSet(holders) /\ IsFiniteSet(woken)
  <1>1. LP!Permits \in Nat
    BY LimiterAssumptions, LP!PermitsPositive
  <1>2. value \in Nat
    BY <1>1 DEF IInv, LP!LInv, LP!TypeOK
  <1>3. LP!IsFiniteSet(holders) /\ LP!IsFiniteSet(woken)
    BY DEF IInv, LP!LInv, LP!FiniteSets
  <1>4. ASSUME NEW S, LP!IsFiniteSet(S) PROVE IsFiniteSet(S)
    BY <1>4 DEF LP!IsFiniteSet, IsFiniteSet
  <1>5. QED
    BY <1>2, <1>3, <1>4

\* The limiter counts its holders as everybody does.
LEMMA CountedAlike == ASSUME NEW S PROVE LP!Cardinality(S) = Cardinality(S)
  BY DEF LP!Cardinality, Cardinality

\* A request waits only while every permit is with a call at the upstream, or
\* a wake-up is on its way.
THEOREM NobodyWaitsInVain == Spec => []WaitersAreNext
  <1>1. IInv /\ LP!NoLostWakeUp /\ LP!PermitsConserved => WaitersAreNext
    <2> SUFFICES ASSUME IInv, LP!NoLostWakeUp, LP!PermitsConserved,
                        NEW r \in Requests, req[r].pc = "waiting", r \notin woken,
                        woken = {}
                 PROVE  Cardinality(AtUpstream) = L!Permits
      BY DEF WaitersAreNext
    <2>1. holders = AtUpstream /\ r \in LP!Waiters /\ L!Permits = LP!Permits
      BY SameQueue DEF IInv, Placed, Waiting
    <2>2. value \in Nat /\ IsFiniteSet(holders)
      BY LimiterCounts
    <2>3. value = 0
      BY <2>1, <2>2 DEF LP!NoLostWakeUp
    <2>4. Cardinality(woken) = 0 /\ Cardinality(holders) \in Nat
      BY <2>2, FS_EmptySet, FS_CardinalityType
    <2>5. QED
      BY <2>1, <2>3, <2>4, CountedAlike DEF LP!PermitsConserved
  <1>2. QED
    BY <1>1, Inductive, PermitsOfServer, PTL

\* What a client was told agrees with what the ledger holds, for ever.
THEOREM AnswersAgree == Spec => []LedgerMatchesAnswer
  <1>1. IInv => LedgerMatchesAnswer
    <2> SUFFICES ASSUME IInv, NEW r \in Requests, req[r].pc = "done"
                 PROVE  IF req[r].stream
                        THEN req[r].fault = "none" /\ req[r].row # 0 =>
                                 Status(r) = (IF req[r].upstream = "complete"
                                              THEN "success" ELSE "failed")
                        ELSE /\ req[r].http = "200" =>
                                    /\ req[r].row # 0 /\ Status(r) = "success"
                                    /\ usage_events[req[r].row].total_tokens
                                          = req[r].usage
                             /\ req[r].http = "502" =>
                                    req[r].row # 0 /\ Status(r) = "failed"
                             /\ req[r].http \in {"400", "429"} => req[r].row = 0
      BY DEF LedgerMatchesAnswer
    <2>1. Recording(req[r], usage_events)
      BY RecordOf
    <2>2. QED
      BY <2>1 DEF Recording, Recorded, Unrecorded, Status
  <1>2. QED
    BY <1>1, Inductive, PTL

\* A row that stays reserved after its request was met by a crash, a failed
\* transaction, the disconnection of a stream's client or, in a plain call,
\* an exception the client does not translate: there is no other way.
THEOREM OrphansAccountedFor == Spec => []OrphansExplained
  <1>1. IInv => OrphansExplained
    <2> SUFFICES ASSUME IInv, NEW r \in Requests, req[r].row # 0,
                        Status(r) = "reserved", req[r].pc = "done"
                 PROVE  \/ req[r].fault \in {"crash", "locked"}
                        \/ req[r].fault = "disconnect" /\ req[r].stream
                        \/ req[r].upstream = "broken" /\ ~req[r].stream
      BY DEF OrphansExplained
    <2>1. /\ req[r] \in Request
          /\ Controlled(req[r]) /\ Recording(req[r], usage_events)
      BY RecordOf
    <2>2. req[r].fault \in {"none", "disconnect", "locked", "crash"}
      BY <2>1 DEF Request
    <2>3. QED
      BY <2>1, <2>2 DEF Controlled, Recording, Recorded, Status
  <1>2. QED
    BY <1>1, Inductive, PTL

\* The requests whose calls max_concurrency counts are never more than it
\* allows.  Where no client leaves a stream these are all the open calls, and
\* the limit of calls that the tests state holds.
THEOREM UpstreamWithinLimit ==
    Spec => [](/\ Cardinality(AtUpstream) <= L!Permits
               /\ "disconnect" \notin Faults => OpenCallsLimited)
  <1>1. IInv /\ LP!PermitsConserved =>
            /\ Cardinality(AtUpstream) <= L!Permits
            /\ "disconnect" \notin Faults => OpenCallsLimited
    <2> SUFFICES ASSUME IInv, LP!PermitsConserved
                 PROVE  /\ Cardinality(AtUpstream) <= L!Permits
                        /\ "disconnect" \notin Faults => OpenCallsLimited
      OBVIOUS
    <2>1. holders = AtUpstream /\ L!Permits = LP!Permits
      BY SameQueue DEF IInv, Placed
    <2>2. value \in Nat /\ IsFiniteSet(holders) /\ IsFiniteSet(woken)
      BY LimiterCounts
    <2>3. Cardinality(woken) \in Nat /\ Cardinality(holders) \in Nat
      BY <2>2, FS_CardinalityType
    <2>4. Cardinality(AtUpstream) <= L!Permits
      BY <2>1, <2>2, <2>3, CountedAlike DEF LP!PermitsConserved
    <2>5. ASSUME "disconnect" \notin Faults PROVE OpenCalls = AtUpstream
      <3>1. \A r \in Requests : req[r].inner # "dropped"
        BY <2>5, RecordOf DEF Controlled
      <3>2. QED
        BY <3>1 DEF OpenCalls
    <2>6. QED
      BY <2>4, <2>5 DEF OpenCallsLimited
  <1>2. QED
    BY <1>1, Inductive, PermitsOfServer, PTL

-----------------------------------------------------------------------------
(***************************************************************************)
(* What is promised of the ledger, in this server.                         *)
(***************************************************************************)

\* The ledger's promises, kept through its operations.
LEMMA LedgerPromises ==
    Q!Spec => [](/\ QP!WithinRateLimit /\ QP!WithinTokenLimits
                 /\ QP!WithinLimitOfOwnDay /\ QP!TotalsMatchEvents)
  <1>1. /\ QP!Spec => []QP!WithinRateLimit
        /\ QP!Spec => []QP!WithinTokenLimits
        /\ QP!Spec => []QP!WithinLimitOfOwnDay
        /\ QP!Spec => []QP!TotalsMatchEvents
    BY LedgerAssumptions, QP!RateLimitHolds, QP!TokenLimitsHold, QP!OwnDayLimitHolds,
       QP!TotalsAgree
  <1>2. QED
    BY <1>1, SameLedgerInit, SameLedgerStep, PTL DEF Q!Spec, QP!Spec

\* They mean the same here.
LEMMA SamePromises ==
    /\ QP!WithinRateLimit => Q!WithinRateLimit
    /\ QP!WithinTokenLimits => Q!WithinTokenLimits
    /\ QP!WithinLimitOfOwnDay => Q!WithinLimitOfOwnDay
    /\ QP!TotalsMatchEvents => Q!TotalsMatchEvents
  <1>1. ASSUME NEW u, NEW t, NEW m, NEW last
        PROVE  /\ Q!RowsSince(u, t, last) = QP!RowsSince(u, t, last)
               /\ Q!RowsOnDate(u, t, last) = QP!RowsOnDate(u, t, last)
               /\ Q!CountedRows(u, last) = QP!CountedRows(u, last)
               /\ Q!SuccessRows(u, m) = QP!SuccessRows(u, m)
               /\ Q!Date(t) = QP!Date(t)
    BY DEF Q!RowsSince, Q!RowsOnDate, Q!CountedRows, Q!Counted, Q!SuccessRows,
           Q!Ids, Q!Date, QP!RowsSince, QP!RowsOnDate, QP!CountedRows, QP!Counted,
           QP!SuccessRows, QP!Ids, QP!Date
  <1>2. ASSUME NEW rows
        PROVE  Q!Tokens(rows) = QP!Tokens(rows) /\ Q!Overruns(rows) = QP!Overruns(rows)
    BY SameSum DEF Q!Tokens, Q!Overruns, Q!Overrun, Q!NonNegative,
                   QP!Tokens, QP!Overruns, QP!Overrun, QP!NonNegative
  <1>3. QP!WithinRateLimit => Q!WithinRateLimit
    BY <1>1, SameCount DEF Q!WithinRateLimit, Q!Ids, QP!WithinRateLimit, QP!Ids
  <1>4. QP!WithinTokenLimits => Q!WithinTokenLimits
    <2>1. SUFFICES ASSUME QP!WithinTokenLimits, NEW e \in 1 .. Len(usage_events)
          PROVE  LET limits == granted[e].limits
                     u == usage_events[e].user_id
                     all == Q!CountedRows(u, e)
                     day == Q!RowsOnDate(u, granted[e].day, e)
                 IN  /\ limits.total_tokens # NoLimit =>
                            Q!Tokens(all) <= limits.total_tokens + Q!Overruns(all)
                     /\ limits.daily_tokens # NoLimit =>
                            Q!Tokens(day) <= limits.daily_tokens + Q!Overruns(day)
      BY DEF Q!WithinTokenLimits, Q!Ids
    <2> DEFINE u == usage_events[e].user_id
               d == granted[e].day
    <2>2. /\ Q!CountedRows(u, e) = QP!CountedRows(u, e)
          /\ Q!RowsOnDate(u, d, e) = QP!RowsOnDate(u, d, e)
      BY <1>1
    <2>3. QED
      BY <1>2, <2>1, <2>2 DEF QP!WithinTokenLimits, QP!Ids
  <1>5. QP!WithinLimitOfOwnDay => Q!WithinLimitOfOwnDay
    <2>1. SUFFICES ASSUME QP!WithinLimitOfOwnDay, NEW e \in 1 .. Len(usage_events)
          PROVE  LET u == usage_events[e].user_id
                     limit == granted[e].limits.daily_tokens
                     day == Q!RowsOnDate(u, Q!Date(usage_events[e].timestamp), e)
                 IN  Q!DaysInOrder(e) /\ limit # NoLimit =>
                         Q!Tokens(day) <= limit + Q!Overruns(day)
      BY DEF Q!WithinLimitOfOwnDay, Q!Ids
    <2> DEFINE u == usage_events[e].user_id
               d == Q!Date(usage_events[e].timestamp)
    <2>2. /\ Q!RowsOnDate(u, d, e) = QP!RowsOnDate(u, d, e)
          /\ d = QP!Date(usage_events[e].timestamp)
      BY <1>1
    <2>3. Q!DaysInOrder(e) => QP!DaysInOrder(e)
      BY <1>1 DEF Q!DaysInOrder, QP!DaysInOrder
    <2>4. QED
      BY <1>2, <2>1, <2>2, <2>3 DEF QP!WithinLimitOfOwnDay, QP!Ids
  <1>6. QP!TotalsMatchEvents => Q!TotalsMatchEvents
    BY <1>1, <1>2, SameCount DEF Q!TotalsMatchEvents, QP!TotalsMatchEvents
  <1>7. QED
    BY <1>3, <1>4, <1>5, <1>6

\* Concurrent requests, with their cancellations, faults and crashes, keep
\* the rate limit, the token limits but for the overruns, and the totals in
\* step with the rows: no path through chat_proxy.py bills twice or without a
\* reservation.
THEOREM ServerKeepsPromises ==
    Spec => [](/\ Q!WithinRateLimit /\ Q!WithinTokenLimits
               /\ Q!WithinLimitOfOwnDay /\ Q!TotalsMatchEvents)
  BY LedgerProtocolKept, LedgerPromises, SamePromises, PTL DEF LedgerProtocol
=============================================================================
