----------------------------- MODULE ChatProxy -----------------------------
(***************************************************************************)
(* The life of a chat request in one server process: the route             *)
(* (src/app/api/routes/chat.py), ChatProxyService                          *)
(* (src/app/services/chat_proxy.py), LimitService                          *)
(* (src/app/services/limits.py) and OllamaClient                           *)
(* (src/app/clients/ollama.py), composed with the usage ledger (Quota) and *)
(* the permits of the process (ConcurrencyLimiter).                        *)
(*                                                                         *)
(* A request is a coroutine.  Between two awaits it runs alone, so a step  *)
(* here is what it does from one await to the next.  Each call of the      *)
(* quota repository is awaited through asyncio.to_thread: the coroutine    *)
(* submits a job, a thread runs the job as one transaction, the coroutine  *)
(* resumes with its result.  A coroutine that is cancelled while it awaits *)
(* a job drops the job if no thread has started it yet; otherwise the job  *)
(* runs on, detached, and nobody hears its result.                         *)
(*                                                                         *)
(* What Starlette, anyio and the executor do is not under src/ and is      *)
(* modelled from how src/ uses them:                                       *)
(*   - a StreamingResponse sends its 200 before it asks the generator for  *)
(*     the first chunk, and runs it in a cancel scope that is cancelled    *)
(*     when the client disconnects; a cancelled scope cancels every await  *)
(*     in it, again and again, until the task has left it;                 *)
(*   - a generator that was dropped while suspended at a yield is closed   *)
(*     later, in a task of its own that no scope cancels: that of a stream *)
(*     whose response is gone, and then that of OllamaClient inside it;    *)
(*   - a plain response is not cancelled by a disconnect.                  *)
(***************************************************************************)
EXTENDS Integers, Sequences, FiniteSets

CONSTANTS
    Requests,       \* the requests that ever arrive at this process
    Users, Models, Estimates, Usages, LimitSettings, NoLimit,
    Window, DayLength, MaxNow, MaxEvents,       \* see Quota
    MaxConcurrency,                             \* see ConcurrencyLimiter
    NoUsage,        \* usage is None
    Faults,         \* which of AllFaults may happen
    MaxCrashes      \* bound: crashes of the process

AllFaults ==
    { "disconnect",   \* the client of a stream goes away
      "broken",       \* the upstream call raises what OllamaClient does not
                      \* translate, such as httpx.RemoteProtocolError
      "locked",       \* a transaction fails: busy for 30 seconds, disk full
      "crash" }       \* the process dies and is started again

ASSUME FaultsAssumption  == Faults \subseteq AllFaults
ASSUME NoUsageAssumption == NoUsage \notin Nat
ASSUME UsagesZero        == 0 \in Usages   \* an answer without usage counts 0
ASSUME RoomAssumption    == Cardinality(Requests) <= MaxEvents
ASSUME CrashAssumption   == MaxCrashes \in Nat

VARIABLES
    req,            \* [Requests -> the coroutine's state, see Request]
    crashes,        \* crashes so far
    usage_events, usage_totals, user_limits, now, granted,    \* see Quota
    value, queue, woken, holders                  \* see ConcurrencyLimiter

ledger == <<usage_events, usage_totals, user_limits, now, granted>>
permits == <<value, queue, woken, holders>>
vars == <<req, crashes, ledger, permits>>

-----------------------------------------------------------------------------
(***************************************************************************)
(* Types.                                                                  *)
(***************************************************************************)
Positions ==
    { "idle",        \* not arrived
      "validating",  \* awaits the allowlist
      "reserving",   \* awaits reserve_chat_request
      "waiting",     \* awaits a permit
      "calling",     \* awaits the upstream: the answer, or the next chunk
      "yielding",    \* the generator is suspended at its yield
      "closing",     \* the same, but its consumer is gone
      "failing",     \* awaits finalize_failure
      "succeeding",  \* awaits finalize_success
      "done" }

Jobs == {"none", "reserve", "finalize_success", "finalize_failure"}

Replies == {"none", "ok", "rejected", "error"}

Request ==
    [pc : Positions,
     stream : BOOLEAN, user : Users, model : Models, estimate : Estimates,
     job : Jobs,              \* submitted to the executor, not yet run
     reply : Replies,         \* what the last job returned or raised
     row : 0 .. MaxEvents,    \* id of the row its reservation inserted, or 0
     usage : Usages \cup {NoUsage},
     http : {"none", "200", "400", "429", "500", "502"},  \* status sent
     cancelled : BOOLEAN,     \* its cancel scope is cancelled
     inner : {"followed", "dropped", "closed"},  \* OllamaClient's generator:
                              \* dropped at its yield, then closed
     \* history: how far the upstream call got, and the last fault it met
     upstream : {"none", "open", "complete", "error", "broken"},
     fault : {"none", "disconnect", "locked", "crash"}]

\* Whose upstream call its own coroutine will end.
AtUpstream == {r \in Requests : req[r].pc \in {"calling", "yielding", "closing"}}

\* Whose upstream call is open.
OpenCalls == AtUpstream \cup {r \in Requests : req[r].inner = "dropped"}

\* Mutant: a reservation is taken for granted before there is a row.
HoldsReservationEarly(r) ==
    \/ req[r].pc \in {"reserving", "waiting", "calling", "yielding", "closing"}
    \/ req[r].job \in {"finalize_success", "finalize_failure"}

\* The ids of the reservations that code still holds: a coroutine that has
\* not yet submitted their finalisation, or the job that finalises them.
HoldsReservation(r) ==
    /\ req[r].row # 0
    /\ \/ req[r].pc \in {"reserving", "waiting", "calling", "yielding", "closing"}
       \/ req[r].job \in {"finalize_success", "finalize_failure"}

held == {req[r].row : r \in {q \in Requests : HoldsReservation(q)}}

Q == INSTANCE Quota
L == INSTANCE ConcurrencyLimiter WITH Clients <- Requests

\* What the two components assume of their constants.
ASSUME QuotaAssumptions ==
    /\ Q!EstimatesAssumption /\ Q!UsagesAssumption /\ Q!NoLimitAssumption
    /\ Q!SettingsAssumption /\ Q!WindowAssumption /\ Q!DayAssumption
    /\ Q!BoundsAssumption
ASSUME LimiterAssumption == L!MaxConcurrencyAssumption

-----------------------------------------------------------------------------
(***************************************************************************)
(* Steps of a request.                                                     *)
(***************************************************************************)
Submit(r, pc, job) ==
    [req[r] EXCEPT !.pc = pc, !.job = job, !.reply = "none"]

\* The status goes out with a plain response; a stream has sent its 200.
Answer(r, status) == IF req[r].stream THEN req[r].http ELSE status

Finish(r, status) ==
    [req[r] EXCEPT !.pc = "done", !.http = Answer(r, status)]

\* The route hands a stream's generator to a StreamingResponse.
Arrive(r) ==
    /\ req[r].pc = "idle"
    /\ \E stream \in BOOLEAN, u \in Users, m \in Models, n \in Estimates :
          req' = [req EXCEPT ![r] = [@ EXCEPT
                      !.pc = "validating", !.stream = stream, !.user = u,
                      !.model = m, !.estimate = n,
                      !.http = IF stream THEN "200" ELSE "none"]]
    /\ UNCHANGED <<crashes, ledger, permits>>

\* _validate_request: the model is allowed and the images are data URLs.
ValidatePasses(r) ==
    /\ req[r].pc = "validating"
    /\ req' = [req EXCEPT ![r] = Submit(r, "reserving", "reserve")]
    /\ UNCHANGED <<crashes, ledger, permits>>

\* It raises ClientRequestError, or the query of the allowlist fails.
ValidateRaises(r) ==
    /\ req[r].pc = "validating"
    /\ \E status \in IF "locked" \in Faults THEN {"400", "500"} ELSE {"400"} :
          req' = [req EXCEPT ![r] = Finish(r, status)]
    /\ UNCHANGED <<crashes, ledger, permits>>

\* A thread runs QuotaRepository.reserve_chat_request.  If the coroutine is
\* gone the row is inserted all the same, and the reservation is lost.
RunReserve(r) ==
    /\ req[r].job = "reserve"
    /\ Q!Admits(req[r].user, req[r].estimate)
    /\ req' = [req EXCEPT ![r] = [@ EXCEPT !.job = "none", !.reply = "ok",
                                           !.row = Len(usage_events) + 1]]
    /\ IF req[r].pc = "reserving"
       THEN Q!Reserve(req[r].user, req[r].model, req[r].estimate)
       ELSE Q!ReserveUnheard(req[r].user, req[r].model, req[r].estimate)
    /\ UNCHANGED <<crashes, permits>>

\* The job raises QuotaLimitExceeded and changes nothing.
RunReserveRejected(r) ==
    /\ req[r].job = "reserve"
    /\ ~Q!Admits(req[r].user, req[r].estimate)
    /\ req' = [req EXCEPT ![r] = [@ EXCEPT !.job = "none", !.reply = "rejected"]]
    /\ UNCHANGED <<crashes, ledger, permits>>

RunFinalizeSuccess(r) ==
    /\ req[r].job = "finalize_success"
    /\ req' = [req EXCEPT ![r] = [@ EXCEPT !.job = "none", !.reply = "ok"]]
    /\ Q!FinalizeSuccess(req[r].row,
                         IF req[r].usage = NoUsage THEN 0 ELSE req[r].usage)
    /\ UNCHANGED <<crashes, permits>>

RunFinalizeFailure(r) ==
    /\ req[r].job = "finalize_failure"
    /\ req' = [req EXCEPT ![r] = [@ EXCEPT !.job = "none", !.reply = "ok"]]
    /\ Q!FinalizeFailure(req[r].row)
    /\ UNCHANGED <<crashes, permits>>

\* The transaction of a job fails and is rolled back (connect_database).
JobFails(r) ==
    /\ "locked" \in Faults
    /\ req[r].job # "none"
    /\ req' = [req EXCEPT ![r] = [@ EXCEPT !.job = "none", !.reply = "error",
                                           !.fault = "locked"]]
    /\ UNCHANGED <<crashes, ledger, permits>>

\* Mutant: it goes on whatever the job returned.
ReserveReturnsAnyway(r) ==
    /\ req[r].pc = "reserving" /\ req[r].reply # "none"
    /\ \/ /\ L!Enter(r)
          /\ req' = [req EXCEPT ![r].pc = "calling", ![r].upstream = "open"]
       \/ /\ L!Wait(r)
          /\ req' = [req EXCEPT ![r].pc = "waiting"]
    /\ UNCHANGED <<crashes, ledger>>

\* The coroutine goes on to the limiter without another await.
ReserveReturns(r) ==
    /\ req[r].pc = "reserving" /\ req[r].reply = "ok"
    /\ \/ /\ L!Enter(r)
          /\ req' = [req EXCEPT ![r].pc = "calling", ![r].upstream = "open"]
       \/ /\ L!Wait(r)
          /\ req' = [req EXCEPT ![r].pc = "waiting"]
    /\ UNCHANGED <<crashes, ledger>>

ReserveRaises(r) ==
    /\ req[r].pc = "reserving" /\ req[r].reply \in {"rejected", "error"}
    /\ req' = [req EXCEPT ![r] =
                  Finish(r, IF req[r].reply = "rejected" THEN "429" ELSE "500")]
    /\ UNCHANGED <<crashes, ledger, permits>>

GotPermit(r) ==
    /\ req[r].pc = "waiting"
    /\ L!Resume(r)
    /\ req' = [req EXCEPT ![r].pc = "calling", ![r].upstream = "open"]
    /\ UNCHANGED <<crashes, ledger>>

\* create_chat_completion: the answer is in; the limiter's block is left.
UpstreamReplies(r) ==
    /\ req[r].pc = "calling" /\ ~req[r].stream
    /\ L!Leave(r)
    /\ \E tokens \in Usages :
          req' = [req EXCEPT ![r] = [Submit(r, "succeeding", "finalize_success")
                      EXCEPT !.usage = tokens, !.upstream = "complete"]]
    /\ UNCHANGED <<crashes, ledger>>

\* A chunk of a stream, in which _capture_stream_usage may find a usage.
Chunk(r) ==
    /\ req[r].pc = "calling" /\ req[r].stream
    /\ \E found \in Usages \cup {req[r].usage} :
          req' = [req EXCEPT ![r].pc = "yielding", ![r].usage = found]
    /\ UNCHANGED <<crashes, ledger, permits>>

\* The response has sent the chunk and asks for the next one.
ChunkSent(r) ==
    /\ req[r].pc = "yielding"
    /\ req' = [req EXCEPT ![r].pc = "calling"]
    /\ UNCHANGED <<crashes, ledger, permits>>

StreamEnds(r) ==
    /\ req[r].pc = "calling" /\ req[r].stream
    /\ L!Leave(r)
    /\ req' = [req EXCEPT ![r] = [Submit(r, "succeeding", "finalize_success")
                      EXCEPT !.upstream = "complete"]]
    /\ UNCHANGED <<crashes, ledger>>

\* Mutant: the handler records a success.
UpstreamFailsBilled(r) ==
    /\ req[r].pc = "calling"
    /\ L!Leave(r)
    /\ req' = [req EXCEPT ![r] = [Submit(r, "failing", "finalize_success")
                      EXCEPT !.upstream = "error"]]
    /\ UNCHANGED <<crashes, ledger>>

\* Mutant: there is no handler.
UpstreamFailsUnhandled(r) ==
    /\ req[r].pc = "calling"
    /\ L!Leave(r)
    /\ req' = [req EXCEPT ![r] = [Finish(r, "502") EXCEPT !.upstream = "error"]]
    /\ UNCHANGED <<crashes, ledger>>

\* OllamaClient raises UpstreamServiceError.
UpstreamFails(r) ==
    /\ req[r].pc = "calling"
    /\ L!Leave(r)
    /\ req' = [req EXCEPT ![r] = [Submit(r, "failing", "finalize_failure")
                      EXCEPT !.upstream = "error"]]
    /\ UNCHANGED <<crashes, ledger>>

\* Mutant: stream_chat_completion too catches UpstreamServiceError only.
UpstreamBreaksUncaught(r) ==
    /\ "broken" \in Faults
    /\ req[r].pc = "calling"
    /\ L!Leave(r)
    /\ req' = [req EXCEPT ![r] = [Finish(r, "500") EXCEPT !.upstream = "broken"]]
    /\ UNCHANGED <<crashes, ledger>>

\* Any other exception: create_chat_completion catches UpstreamServiceError
\* only, stream_chat_completion catches BaseException.
UpstreamBreaks(r) ==
    /\ "broken" \in Faults
    /\ req[r].pc = "calling"
    /\ L!Leave(r)
    /\ req' = [req EXCEPT ![r] = [(IF req[r].stream
                                   THEN Submit(r, "failing", "finalize_failure")
                                   ELSE Finish(r, "500"))
                      EXCEPT !.upstream = "broken"]]
    /\ UNCHANGED <<crashes, ledger>>

\* The awaited finalisation returned: the answer, or the upstream's error,
\* goes to the client.  If it raised, that error does.
FinalizeReturns(r) ==
    /\ req[r].pc \in {"succeeding", "failing"} /\ req[r].reply # "none"
    /\ req' = [req EXCEPT ![r] =
                  Finish(r, IF req[r].reply = "error" THEN "500"
                            ELSE IF req[r].pc = "succeeding" THEN "200" ELSE "502")]
    /\ UNCHANGED <<crashes, ledger, permits>>

-----------------------------------------------------------------------------
(***************************************************************************)
(* Disconnection of a stream's client, and crashes.                        *)
(***************************************************************************)
Disconnect(r) ==
    /\ "disconnect" \in Faults
    /\ req[r].stream
    /\ req[r].pc \notin {"idle", "closing", "done"}
    /\ ~req[r].cancelled /\ req[r].inner = "followed"
    /\ req' = [req EXCEPT ![r].cancelled = TRUE]
    /\ UNCHANGED <<crashes, ledger, permits>>

\* Mutant: finalize_success is awaited inside the try.
CancelledOutsideCaught(r) ==
    /\ req[r].cancelled
    /\ req[r].pc \in {"validating", "reserving", "failing", "succeeding"}
    /\ req' = [req EXCEPT ![r] =
                  IF req[r].pc = "succeeding"
                  THEN Submit(r, "failing", "finalize_failure")
                  ELSE [@ EXCEPT !.pc = "done", !.job = "none",
                            !.cancelled = FALSE, !.fault = "disconnect"]]
    /\ UNCHANGED <<crashes, ledger, permits>>

\* CancelledError at an await outside the try: the generator ends there.  A
\* job that waits for a thread is dropped; one that runs is not.
CancelledOutside(r) ==
    /\ req[r].cancelled
    /\ req[r].pc \in {"validating", "reserving", "failing", "succeeding"}
    /\ \E job \in {"none", req[r].job} :
          req' = [req EXCEPT ![r] = [@ EXCEPT !.pc = "done", !.job = job,
                      !.cancelled = FALSE, !.fault = "disconnect"]]
    /\ UNCHANGED <<crashes, ledger, permits>>

\* Mutant: a permit that was handed over just before is not passed on.
CancelledInsideDropped(r) ==
    /\ req[r].cancelled
    /\ \/ /\ req[r].pc = "waiting"
          /\ queue' = L!Without(r) /\ woken' = woken \ {r}
          /\ UNCHANGED <<value, holders>>
       \/ req[r].pc = "calling" /\ L!Leave(r)
    /\ req' = [req EXCEPT ![r] = Submit(r, "failing", "finalize_failure")]
    /\ UNCHANGED <<crashes, ledger>>

\* CancelledError at an await inside the try: the permit, or the place in
\* the queue, is given up, and the handler submits the finalisation, whose
\* await is in the cancelled scope again.
CancelledInside(r) ==
    /\ req[r].cancelled
    /\ \/ req[r].pc = "waiting" /\ L!CancelWait(r)
       \/ req[r].pc = "calling" /\ L!Leave(r)
    /\ req' = [req EXCEPT ![r] = Submit(r, "failing", "finalize_failure")]
    /\ UNCHANGED <<crashes, ledger>>

\* The response is cancelled while it sends a chunk: the generator knows
\* nothing of it and keeps its permit until it is closed.
CancelledSending(r) ==
    /\ req[r].cancelled
    /\ req[r].pc = "yielding"
    /\ req' = [req EXCEPT ![r].pc = "closing", ![r].cancelled = FALSE]
    /\ UNCHANGED <<crashes, ledger, permits>>

\* Mutant: the permit is not given back.
CloseGeneratorHolding(r) ==
    /\ req[r].pc = "closing"
    /\ req' = [req EXCEPT ![r] = [Submit(r, "failing", "finalize_failure")
                  EXCEPT !.inner = "dropped"]]
    /\ UNCHANGED <<crashes, ledger, permits>>

\* The event loop closes the abandoned generator: GeneratorExit at the yield.
\* The permit goes to the next waiter at once; the generator of OllamaClient,
\* suspended at a yield of its own, is only dropped.
CloseGenerator(r) ==
    /\ req[r].pc = "closing"
    /\ L!Leave(r)
    /\ req' = [req EXCEPT ![r] = [Submit(r, "failing", "finalize_failure")
                  EXCEPT !.inner = "dropped"]]
    /\ UNCHANGED <<crashes, ledger>>

\* The event loop closes that one too, and with it the upstream response.
CloseUpstream(r) ==
    /\ req[r].inner = "dropped"
    /\ req' = [req EXCEPT ![r].inner = "closed"]
    /\ UNCHANGED <<crashes, ledger, permits>>

\* The process dies with everything in its memory and is started again:
\* initialize_database leaves the rows as they are.
Live(r) == req[r].pc \notin {"idle", "done"} \/ req[r].job # "none"

Crash ==
    /\ "crash" \in Faults
    /\ crashes < MaxCrashes
    /\ crashes' = crashes + 1
    /\ req' = [r \in Requests |->
                  [(IF Live(r)
                    THEN [req[r] EXCEPT !.pc = "done", !.job = "none",
                              !.cancelled = FALSE, !.fault = "crash"]
                    ELSE req[r])
                      EXCEPT !.inner = IF @ = "dropped" THEN "closed" ELSE @]]
    /\ L!Restart
    /\ UNCHANGED ledger

-----------------------------------------------------------------------------
(***************************************************************************)
(* The ledger's other users.                                               *)
(***************************************************************************)
AdminUpdatesLimits(u, limits) ==
    /\ UNCHANGED <<req, crashes, permits>>
    /\ Q!UpdateLimits(u, limits)

ClockMoves(t) ==
    /\ UNCHANGED <<req, crashes, permits>>
    /\ Q!SetClock(t)

Init ==
    /\ \E u \in Users, m \in Models, n \in Estimates :
          req = [r \in Requests |->
              [pc |-> "idle", stream |-> FALSE, user |-> u, model |-> m,
               estimate |-> n, job |-> "none", reply |-> "none", row |-> 0,
               usage |-> NoUsage, http |-> "none", cancelled |-> FALSE,
               inner |-> "followed", upstream |-> "none", fault |-> "none"]]
    /\ crashes = 0
    /\ Q!Init
    /\ L!Init

\* What the event loop and the executor do once it can be done.
Progress(r) ==
    \/ ValidatePasses(r) \/ ValidateRaises(r)
    \/ RunReserve(r) \/ RunReserveRejected(r)
    \/ RunFinalizeSuccess(r) \/ RunFinalizeFailure(r)
    \/ ReserveReturns(r) \/ ReserveRaises(r)
    \/ GotPermit(r) \/ ChunkSent(r)
    \/ FinalizeReturns(r)
    \/ CancelledOutside(r) \/ CancelledInside(r) \/ CancelledSending(r)
    \/ CloseGenerator(r) \/ CloseUpstream(r)

\* The upstream call ends one way or another.
UpstreamEnds(r) == UpstreamReplies(r) \/ StreamEnds(r) \/ UpstreamFails(r)

Next ==
    \/ \E r \in Requests : Arrive(r)
    \/ \E r \in Requests : Progress(r)
    \/ \E r \in Requests : UpstreamEnds(r)
    \/ \E r \in Requests : Chunk(r)
    \/ \E r \in Requests : UpstreamBreaks(r)
    \/ \E r \in Requests : JobFails(r)
    \/ \E r \in Requests : Disconnect(r)
    \/ Crash
    \/ \E u \in Users, limits \in LimitSettings : AdminUpdatesLimits(u, limits)
    \/ \E t \in 0 .. MaxNow : ClockMoves(t)

Spec == Init /\ [][Next]_vars

\* A plain call has a timeout.
PlainCallEnds(r) == ~req[r].stream /\ UpstreamEnds(r)

\* A stream has none (read=None): Ollama may send chunks for ever, or nothing.
\* What ends it then is that its client goes away.
StreamIsLeft(r) ==
    /\ req[r].stream
    /\ \/ UpstreamEnds(r)
       \/ req[r].pc \in {"calling", "yielding"} /\ Disconnect(r)

\* The event loop runs what is ready and the executor runs what is submitted.
\* No client is assumed to leave while it waits for its turn.
Fairness ==
    \A r \in Requests :
        WF_vars(Progress(r)) /\ SF_vars(PlainCallEnds(r)) /\ SF_vars(StreamIsLeft(r))

FairSpec == Spec /\ Fairness

-----------------------------------------------------------------------------
(***************************************************************************)
(* Properties.                                                             *)
(***************************************************************************)
Status(r) == usage_events[req[r].row].status

\* Every request's record is well typed, and so are the two components.
TypeOK ==
    /\ req \in [Requests -> Request]
    /\ crashes \in 0 .. MaxCrashes
    /\ Q!TypeOK
    /\ L!TypeOK

\* The steps of all requests together use the quota repository as its
\* protocol asks: a reservation is finalised at most once, by whom it was
\* given to, and a row whose finalisation was lost is never touched again.
\* The UPDATEs themselves would let a second finalisation bill twice.
LedgerProtocol == Q!Spec

\* The steps of all requests together use the semaphore as its protocol asks:
\* nobody enters twice, leaves without being inside, or touches the queue on
\* the way out.  With that, what ConcurrencyLimiterProofs proves of any number
\* of tasks holds for the requests.
LimiterProtocol == L!Spec

\* A call at the upstream is covered as long as its coroutine follows it: its
\* request has a permit and a row of its own that is still reserved, so that
\* every admission check counts it; and a permit is held by none but such a
\* request.  A call that is open without a permit is that of a stream whose
\* client left while a chunk was sent, and whose row is being failed.
UpstreamCovered ==
    /\ holders = AtUpstream
    /\ \A r \in AtUpstream : req[r].row # 0 /\ Status(r) = "reserved"
    /\ \A r, s \in Requests : req[r].row = req[s].row /\ r # s => req[r].row = 0
    /\ \A r \in OpenCalls \ AtUpstream :
          /\ req[r].stream /\ req[r].pc \in {"failing", "done"}
          /\ req[r].row # 0 /\ Status(r) # "success"

\* No request waits in vain: while one waits that nobody has woken, every
\* permit is with a call at the upstream, or a woken request is about to run
\* and to pass the wake-up on.  So no path out of the block, and no
\* cancellation on the way into it, loses a permit.
WaitersAreNext ==
    (\E r \in Requests : req[r].pc = "waiting" /\ r \notin woken) =>
        woken # {} \/ Cardinality(AtUpstream) = L!Permits

\* What the client of a plain request is told agrees with the ledger: 200 is
\* billed with the usage of the answer, 502 is recorded as failed, a refusal
\* left no row.  A stream no fault hit is billed if it ran to its end and
\* recorded as failed if it broke off.
LedgerMatchesAnswer ==
    \A r \in Requests : req[r].pc = "done" =>
        IF req[r].stream
        THEN req[r].fault = "none" /\ req[r].row # 0 =>
                 Status(r) = (IF req[r].upstream = "complete" THEN "success" ELSE "failed")
        ELSE /\ req[r].http = "200" =>
                    /\ req[r].row # 0 /\ Status(r) = "success"
                    /\ usage_events[req[r].row].total_tokens = req[r].usage
             /\ req[r].http = "502" => req[r].row # 0 /\ Status(r) = "failed"
             /\ req[r].http \in {"400", "429"} => req[r].row = 0

\* A row stays reserved, and counts against its user's total for ever, only
\* when the process crashed, when a transaction failed, when the client of a
\* stream disconnected, or when a plain request met an exception that is not
\* an UpstreamServiceError.  In particular a stream survives such an
\* exception, and a plain request the disconnection of its client.
OrphansExplained ==
    \A r \in Requests :
        (req[r].row # 0 /\ Status(r) = "reserved" /\ ~HoldsReservation(r)
             /\ req[r].pc = "done") =>
            \/ req[r].fault \in {"crash", "locked"}
            \/ req[r].fault = "disconnect" /\ req[r].stream
            \/ req[r].upstream = "broken" /\ ~req[r].stream

\* Every request that arrives is answered, or its client is gone, and its
\* upstream call is closed: no wait for a permit, a thread or a finalisation
\* lasts for ever.  A stream that Ollama never ends holds its permit only as
\* long as its client stays: once the client has left, the others get in.
EveryRequestEnds ==
    \A r \in Requests :
        (req[r].pc # "idle") ~> (req[r].pc = "done" /\ r \notin OpenCalls)

\* Every reservation is settled in the end, unless its request meets one of
\* the faults that leave orphans behind.
ReservationsSettle ==
    \A r \in Requests :
        (req[r].row # 0) ~>
          ( \/ req[r].row # 0 /\ Status(r) # "reserved"
            \/ req[r].fault # "none" \/ req[r].upstream = "broken" )

\* Every upstream failure after a reservation is recorded as failed
\* (changelog.md, "Deviation Rationale" of the atomic limits).
UpstreamFailuresRecorded ==
    \A r \in Requests :
        (req[r].pc = "done" /\ req[r].upstream \in {"error", "broken"}
             /\ req[r].fault = "none") => Status(r) = "failed"

\* A stream that was interrupted after its upstream call began is recorded as
\* failed, if it was not recorded as a success before (changelog.md, "Changes
\* Made" of the atomic limits).
InterruptedStreamsRecorded ==
    \A r \in Requests :
        (req[r].pc = "done" /\ req[r].job = "none" /\ req[r].row # 0
             /\ req[r].upstream # "none" /\ req[r].fault = "disconnect") =>
            Status(r) # "reserved"

\* There are never more open upstream calls than the configured concurrency
\* (tests/test_ollama_concurrency_controls.py: `max_active_calls == 2` under a
\* limit of 2, with plain calls).  This holds where no client leaves a stream.
OpenCallsLimited == Cardinality(OpenCalls) <= L!Permits

\* A request over its limits is answered 429, streaming or not (changelog.md,
\* Phase 4).
RejectedWith429 ==
    \A r \in Requests :
        (req[r].pc = "done" /\ req[r].reply = "rejected") => req[r].http = "429"
=============================================================================
