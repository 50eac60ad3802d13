---------------------------- MODULE SourceRequests ----------------------------
(***************************************************************************)
(* The requests to one documented source: request_with_retries around the  *)
(* TokenBucket of its extractor (extract/base.py).  Several candidates are *)
(* in flight at once, each making one call; a batch of candidates runs in  *)
(* an event loop of its own (ingest.py:241, 314) and the bucket outlives   *)
(* the loop.  An error that request_with_retries does not catch is caught  *)
(* by nobody above it either, and ends the run.                            *)
(*                                                                         *)
(* Time is a discrete clock, kept as what is left of each wait.  A sleeper *)
(* may wake late (Tick is not held up by one that is ready), and the one   *)
(* inside the bucket up to Slack ticks early (base.py:415).                *)
(***************************************************************************)
EXTENDS Naturals, FiniteSets, FiniteSetsExt

CONSTANTS
  Calls,        \* the calls, one for each candidate
  Batch,        \* the batch, from 1, a call belongs to
  Paced,        \* whether the source has a bucket: Open Library has
  Interval,     \* ticks between two requests, 1 / rate_per_second
  MaxAttempts,  \* http_max_attempts
  BaseDelay, MaxDelay,
  Slack,        \* ticks a sleep may return early
  RetryAfter,   \* the waits in ticks a source may ask for
  Unset

RequestsAssumption ==
  /\ Batch \in [Calls -> Nat \ {0}]
  /\ Paced \in BOOLEAN
  /\ {Interval, MaxAttempts, MaxDelay} \subseteq Nat \ {0}
  /\ {BaseDelay, Slack} \subseteq Nat /\ RetryAfter \subseteq Nat
  /\ Unset \notin Nat \union Calls

VARIABLES
  bucket,   \* ticks until _next_allowed
  lock,     \* [loop, bound, holder] of the bucket's asyncio.Lock
  call,     \* the calls of request_with_retries; refused is history: the source
            \* gave no other answer than a refusal
  since     \* history: ticks since the last permission, at most Interval

requestsVars == <<bucket, lock, call, since>>

(***************************************************************************)
(* What the source may answer.  plain and spent are a 429 without and with *)
(* a reason that names the allowance; down is a status worth a retry, lost *)
(* a transport error, bad any other status from 400.  garbled is what the   *)
(* client raises that is no transport error (a body it cannot decode, a    *)
(* circle of redirects), odd a 429 whose list of reasons is none, which    *)
(* quota_is_exhausted iterates over.                                       *)
(***************************************************************************)
Responses == [kind : {"ok", "lost", "bad", "spent", "garbled", "odd"}, after : {Unset}]
             \union [kind : {"plain", "down"}, after : RetryAfter \union {Unset}]

\* A response, or one of the two errors a resolver knows.
Results == {"response", "quota", "unavailable"}

\* Another error, the end of a call that such an error of another cut off, and the
\* error of a lock that belongs to another loop.
Strange == {"error", "cancelled", "RuntimeError"}

RequestsTypeOK ==
  /\ bucket \in 0..Interval /\ since \in 0..Interval
  /\ lock \in [loop : Nat, bound : Nat \union {Unset}, holder : Calls \union {Unset}]
  /\ call \in [Calls -> [at : {"between", "holding", "waiting", "done"}, attempt : 0..(MaxAttempts - 1),
                         sleep : 0..Max({Interval, MaxDelay}), last_status : {Unset, 429, 500},
                         refused : BOOLEAN, result : Results \union Strange \union {Unset}]]

RequestsInit ==
  /\ bucket = 0 /\ since = Interval
  /\ lock = [loop |-> 0, bound |-> Unset, holder |-> Unset]
  /\ call = [c \in Calls |-> [at |-> "between", attempt |-> 0, sleep |-> 0, last_status |-> Unset,
                              refused |-> TRUE, result |-> Unset]]

At(c, place) == call[c].at = place

\* A call about to make an attempt: its batch runs, its backoff is over.
Due(c) ==
  /\ At(c, "between") /\ call[c].sleep = 0
  /\ \A d \in Calls : Batch[d] < Batch[c] => At(d, "done") /\ call[d].result \notin Strange

\* The call is over with this result.
Ended(c, refused, result) ==
  [call EXCEPT ![c] = [at |-> "done", attempt |-> 0, sleep |-> 0, last_status |-> Unset,
                       refused |-> refused, result |-> result]]

(***************************************************************************)
(* TokenBucket.                                                            *)
(***************************************************************************)
\* MUTANT of LockOf: the lock of the first loop is kept.
FirstLock(c) == IF lock.loop = 0 THEN [loop |-> Batch[c], bound |-> Unset, holder |-> Unset] ELSE lock

\* TokenBucket._lock_for_this_loop
LockOf(c) == IF lock.loop = Batch[c] THEN lock ELSE [loop |-> Batch[c], bound |-> Unset, holder |-> Unset]

\* MUTANT of Free: two coroutines that read the clock at the same moment.
FreeAnyhow(c) == TRUE

Free(c) == LockOf(c).holder = Unset

\* From the clock as read after the sleep.
Schedule == Interval

\* The request is permitted and goes out.
Permit(c, l) ==
  /\ bucket' = Schedule /\ since' = 0
  /\ lock' = [l EXCEPT !.holder = Unset]
  /\ call' = [call EXCEPT ![c].at = "waiting", ![c].sleep = 0]

\* acquire with the lock free: the request at once, or a sleep inside the lock.
Acquire(c) ==
  /\ Paced /\ Due(c) /\ Free(c)
  /\ \/ bucket = 0 /\ Permit(c, LockOf(c))
     \/ /\ bucket > 0
        /\ lock' = [LockOf(c) EXCEPT !.holder = c]
        /\ call' = [call EXCEPT ![c].at = "holding", ![c].sleep = bucket]
        /\ UNCHANGED <<bucket, since>>

\* acquire with the lock taken (asyncio.Lock): the first to wait binds the lock
\* to its loop, and a wait in any other loop raises.
Contend(c) ==
  /\ Paced /\ Due(c) /\ ~Free(c) /\ LockOf(c).bound # Batch[c]
  /\ lock' = IF lock.bound = Unset THEN [lock EXCEPT !.bound = Batch[c]] ELSE lock
  /\ call' = IF lock.bound = Unset THEN call
             ELSE Ended(c, call[c].refused, "RuntimeError")
  /\ UNCHANGED <<bucket, since>>

\* The sleep inside acquire has returned, at most Slack ticks early.
Slot(c) == At(c, "holding") /\ call[c].sleep <= Slack /\ Permit(c, lock)

\* before_attempt is Unset: nothing paces the request.
Unpaced(c) ==
  /\ ~Paced /\ Due(c)
  /\ call' = [call EXCEPT ![c].at = "waiting"]
  /\ UNCHANGED <<bucket, lock, since>>

(***************************************************************************)
(* request_with_retries.                                                   *)
(***************************************************************************)
\* A transport error leaves last_status as it was.
LastStatus(c, answer) ==
  CASE answer.kind = "lost" -> call[c].last_status
    [] answer.kind = "plain" -> 429
    [] answer.kind = "down" -> 500

\* What the last attempt leaves: by the last status seen.
GivenUpAs(status) == IF status = 429 THEN "quota" ELSE "unavailable"

\* _retry_after_seconds, else _backoff: full jitter below the ceiling.
Waits(c, answer) ==
  IF answer.after # Unset THEN {Min({answer.after, MaxDelay})}
  ELSE 0..Min({BaseDelay * 2 ^ call[c].attempt, MaxDelay})

\* What needs no retry: a response, a status that stays, a spent allowance, an
\* error that is not caught.
Decided(c, answer) ==
  \/ answer.kind = "ok" /\ call' = Ended(c, FALSE, "response")
  \/ answer.kind = "bad" /\ call' = Ended(c, FALSE, "unavailable")
  \/ answer.kind = "spent" /\ call' = Ended(c, TRUE, "quota")
  \/ answer.kind = "garbled" /\ call' = Ended(c, FALSE, "error")
  \/ answer.kind = "odd" /\ call' = Ended(c, call[c].refused, "error")

\* The call waits and is tried again.
Again(r, wait, status, refused) ==
  [r EXCEPT !.at = "between", !.sleep = wait, !.attempt = @ + 1, !.last_status = status, !.refused = refused]

\* What is worth a retry: the wait, or the end when it was the last attempt.
Retry(c, answer) ==
  LET refused == call[c].refused /\ answer.kind = "plain"
  IN
  /\ answer.kind \in {"lost", "plain", "down"}
  /\ \/ /\ call[c].attempt < MaxAttempts - 1
        /\ \E wait \in Waits(c, answer) :
             call' = [call EXCEPT ![c] = Again(@, wait, LastStatus(c, answer), refused)]
     \/ /\ call[c].attempt = MaxAttempts - 1
        /\ call' = Ended(c, refused, GivenUpAs(LastStatus(c, answer)))

Respond(c) == At(c, "waiting") /\ \E answer \in Responses :
  (Decided(c, answer) \/ Retry(c, answer)) /\ UNCHANGED <<bucket, lock, since>>

\* gather passes an error on, and the loop cancels the calls that are not over:
\* the one inside the bucket lets go of the lock.  No later batch begins.
TearDown ==
  /\ \E c \in Calls : At(c, "done") /\ call[c].result \in Strange
  /\ \E c \in Calls : ~At(c, "done")
  /\ call' = [c \in Calls |-> IF At(c, "done") THEN call[c]
                              ELSE Ended(c, call[c].refused, "cancelled")[c]]
  /\ lock' = [lock EXCEPT !.holder = Unset]
  /\ UNCHANGED <<bucket, since>>

\* A tick of the clock.
Less(n) == IF n = 0 THEN 0 ELSE n - 1
Tick ==
  /\ bucket' = Less(bucket)
  /\ since' = Min({since + 1, Interval})
  /\ call' = [c \in Calls |-> [call[c] EXCEPT !.sleep = Less(@)]]
  /\ UNCHANGED lock

CallStep(c) == Acquire(c) \/ Contend(c) \/ Slot(c) \/ Unpaced(c) \/ Respond(c)

\* The calls have all ended.
Over == (\A c \in Calls : At(c, "done")) /\ UNCHANGED requestsVars

RequestsNext == Tick \/ TearDown \/ Over \/ \E c \in Calls : CallStep(c)

(***************************************************************************)
(* The loop runs what is ready, the source answers or one of the client's  *)
(* timeouts does (build_client sets all four), and time passes.            *)
(***************************************************************************)
RequestsSpec == RequestsInit /\ [][RequestsNext]_requestsVars
LiveRequestsSpec == RequestsSpec /\ WF_requestsVars(Tick) /\ WF_requestsVars(TearDown)
                    /\ \A c \in Calls : WF_requestsVars(CallStep(c))

Sends(c) == ~At(c, "waiting") /\ (At(c, "waiting"))'

(***************************************************************************)
(* Properties.                                                             *)
(***************************************************************************)
\* TokenBucket: two requests to the source are Interval apart, of whichever
\* candidates and batches, but for what one sleep came back early: a sleep that
\* is short does not add to the next.
Spaced == [][Paced => \A c \in Calls : Sends(c) => since + Slack >= Interval]_requestsVars

\* base.py:345-347: a call refused on every attempt says that the allowance is
\* spent, whatever waits the refusals asked for in between, unless an error that
\* is not caught ends it.
RefusalsAreQuota ==
  \A c \in Calls : At(c, "done") /\ call[c].refused /\ call[c].result \notin Strange => call[c].result = "quota"

\* A call ends with a response or with one of the two errors a resolver knows, in
\* a later batch as well as in the first: never on a lock of a loop that is gone
\* (base.py:386-399), and as something else only where the client or a body
\* raised an error that is not caught.
EndsExplained ==
  \A c \in Calls : At(c, "done") /\ call[c].result \notin Results =>
    /\ call[c].result # "RuntimeError"
    /\ \E d \in Calls : At(d, "done") /\ call[d].result = "error"

\* And every call ends so.
EveryCallEnds == (\A c \in Calls : <>At(c, "done")) /\ []EndsExplained

\* base.py:289-291: a call raises SourceUnavailableError (quota is a kind of it),
\* and no other error.
OnlyKnownErrors == \A c \in Calls : At(c, "done") => call[c].result \in Results

\* base.py:338: an allowance given up without the source having named it was
\* refused on every attempt.
QuotaMeansRefused == \A c \in Calls : call[c].result = "quota" => call[c].refused
===============================================================================
