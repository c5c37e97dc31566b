------------------------- MODULE ConcurrencyLimiter -------------------------
(***************************************************************************)
(* OllamaConcurrencyLimiter (src/app/services/chat_proxy.py): the permits  *)
(* one server process hands to the requests that talk to Ollama.  The      *)
(* class is an asyncio.Semaphore used by `async with`; __aenter__ acquires *)
(* and __aexit__ releases, whatever ended the block.                       *)
(*                                                                         *)
(* asyncio.Semaphore is not under src/: it is modelled as CPython 3.11,    *)
(* the oldest version the project supports, implements it: a counter and   *)
(* a FIFO of futures.  A release resolves the first future that is not     *)
(* resolved yet (its task is then `woken` and owns the permit); the task   *)
(* goes on when the event loop next runs it, and may be cancelled before   *)
(* or after its future was resolved.                                       *)
(***************************************************************************)
EXTENDS Integers, Sequences, SequencesExt

CONSTANTS
    Clients,        \* the tasks that may ask for a permit
    MaxConcurrency  \* settings.ollama_max_concurrency, as configured

ASSUME MaxConcurrencyAssumption == MaxConcurrency \in Int

VARIABLES
    value,   \* Semaphore._value: permits nobody has
    queue,   \* Semaphore._waiters: tasks suspended in acquire, oldest first
    woken,   \* those of them whose future is resolved: the permit is theirs
    holders  \* tasks inside the `async with` block

limiterVars == <<value, queue, woken, holders>>

\* asyncio.Semaphore(max(max_concurrency, 1))
Permits == IF MaxConcurrency < 1 THEN 1 ELSE MaxConcurrency

Waiters == ToSet(queue)

\* Semaphore.locked: a free permit is not for a newcomer while tasks wait.
Locked == value = 0 \/ queue # <<>>

\* _waiters without the future of task c, which is in it once.
Without(c) == RemoveAt(queue, CHOOSE i \in 1 .. Len(queue) : queue[i] = c)

\* Mutant: the newest task instead of the oldest.
FirstAsleepLast(q, w) ==
    CHOOSE i \in 1 .. Len(q) : q[i] \notin w /\ \A j \in i + 1 .. Len(q) : q[j] \in w

\* The place in q of the first task that is not in w.
FirstAsleep(q, w) ==
    CHOOSE i \in 1 .. Len(q) : q[i] \notin w /\ \A j \in 1 .. i - 1 : q[j] \in w

\* Semaphore._wake_up_next, when `free` permits are free, `q` is the queue
\* and the futures of `w` are resolved.  It takes a permit whenever a future
\* is left to resolve: its callers see to it that one is free.
WakeUpNext(free, q, w) ==
    IF ToSet(q) \subseteq w
    THEN value' = free /\ woken' = w
    ELSE value' = free - 1 /\ woken' = w \cup {q[FirstAsleep(q, w)]}

-----------------------------------------------------------------------------
\* __aenter__ when a permit is free: acquire returns without suspending.
Enter(c) ==
    /\ c \notin holders \cup Waiters
    /\ ~Locked
    /\ value' = value - 1
    /\ holders' = holders \cup {c}
    /\ UNCHANGED <<queue, woken>>

\* __aenter__ when none is: the task joins the queue and suspends.
Wait(c) ==
    /\ c \notin holders \cup Waiters
    /\ Locked
    /\ queue' = Append(queue, c)
    /\ UNCHANGED <<value, woken, holders>>

\* The event loop resumes a task whose future was resolved.  If permits are
\* free all the same, it wakes the next one on its way out of acquire.
Resume(c) ==
    /\ c \in woken
    /\ queue' = Without(c)
    /\ holders' = holders \cup {c}
    /\ IF value > 0
       THEN WakeUpNext(value, Without(c), woken \ {c})
       ELSE woken' = woken \ {c} /\ UNCHANGED value

\* Mutant: a task cancelled after the hand-over keeps the permit.
CancelWaitKept(c) ==
    /\ c \in Waiters
    /\ queue' = Without(c)
    /\ woken' = woken \ {c}
    /\ UNCHANGED <<value, holders>>

\* Mutant: it gives the permit back, but wakes nobody.
CancelWaitSilent(c) ==
    /\ c \in Waiters
    /\ queue' = Without(c)
    /\ value' = IF c \in woken THEN value + 1 ELSE value
    /\ woken' = woken \ {c}
    /\ UNCHANGED holders

\* A task is cancelled inside acquire.  If the permit was already handed to
\* it, it gives it back and wakes the next one.
CancelWait(c) ==
    /\ c \in Waiters
    /\ queue' = Without(c)
    /\ IF c \in woken
       THEN WakeUpNext(value + 1, Without(c), woken \ {c})
       ELSE UNCHANGED <<value, woken>>
    /\ UNCHANGED holders

\* Mutant: the permit is released twice.
LeaveTwice(c) ==
    /\ c \in holders
    /\ holders' = holders \ {c}
    /\ WakeUpNext(value + 2, queue, woken)
    /\ UNCHANGED queue

\* Mutant: the counter goes up, but nobody is woken.
LeaveSilent(c) ==
    /\ c \in holders
    /\ holders' = holders \ {c}
    /\ value' = value + 1
    /\ UNCHANGED <<queue, woken>>

\* __aexit__, on a normal exit and on every exception.
Leave(c) ==
    /\ c \in holders
    /\ holders' = holders \ {c}
    /\ WakeUpNext(value + 1, queue, woken)
    /\ UNCHANGED queue

\* A new server process builds a new limiter (main.py, lifespan).
Restart ==
    /\ value' = Permits
    /\ queue' = <<>>
    /\ woken' = {}
    /\ holders' = {}

Init ==
    /\ value = Permits
    /\ queue = <<>>
    /\ woken = {}
    /\ holders = {}

Next ==
    \/ \E c \in Clients : Enter(c) \/ Wait(c)
    \/ \E c \in Clients : Resume(c)
    \/ \E c \in Clients : CancelWait(c)
    \/ \E c \in Clients : Leave(c)
    \/ Restart

Spec == Init /\ [][Next]_limiterVars

\* The event loop runs every task that can run, and every task that is
\* inside the block leaves it in the end.
Fairness ==
    \A c \in Clients : WF_limiterVars(Resume(c)) /\ WF_limiterVars(Leave(c))

FairSpec == Spec /\ Fairness

-----------------------------------------------------------------------------
TypeOK ==
    /\ value \in 0 .. Permits
    /\ queue \in Seq(Clients)
    /\ woken \subseteq Waiters
    /\ holders \subseteq Clients

\* Permits are neither lost nor made up, whichever of release, hand-over and
\* cancellation comes first: each one is free, inside the block or on its way
\* to a woken task.  In particular no more than max_concurrency requests are
\* at the upstream at any time.
PermitsConserved ==
    /\ value + Cardinality(woken) + Cardinality(holders) = Permits
    /\ woken \cap holders = {}

\* No wake-up is lost: while a permit is free and a request waits that nobody
\* has woken, a woken one is about to run and will pass the wake-up on.  A
\* cancellation between the hand-over and the resumption must keep this.
NoLostWakeUp == (value > 0 /\ Waiters \ woken # {}) => woken # {}

\* First come, first served: a step that gives a task its permit gives it to
\* no one while a task that was waiting before it is still without one.
FirstComeFirstServed ==
    [][ \A i, j \in 1 .. Len(queue) :
          (i < j /\ queue[i] \notin woken /\ queue[j] \notin woken
                 /\ queue[j] \in woken' \cup holders')
          => queue[i] \notin ToSet(queue') ]_limiterVars

\* A request that waits for the upstream gets to it, or is cancelled.
WaitersGetIn ==
    \A c \in Clients : (c \in Waiters) ~> (c \notin Waiters)
=============================================================================
