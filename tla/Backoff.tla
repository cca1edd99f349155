------------------------------ MODULE Backoff ------------------------------
(***************************************************************************)
(* The delays between retries (ExponentialBackoff, src/src/scheduler.rs)   *)
(* and the one thread that computes them for all downloads.  Scheduler     *)
(* assumes that a request has at most 64 retries; this module says why.    *)
(*                                                                         *)
(* Nobody cancels, shuts down or drops anything here.                      *)
(***************************************************************************)
EXTENDS Integers

CONSTANTS
    Downloads,
    Retries         \* DownloadConfig::retries, the same for all

VARIABLES
    state,          \* Job.state, or how the download has ended
    attempt,        \* Job.attempt
    thread          \* the scheduler thread "Runs", or has "Panicked"

vars == <<state, attempt, thread>>

Init ==
    /\ state = [d \in Downloads |-> "Running"]
    /\ attempt = [d \in Downloads |-> 0]
    /\ thread = "Runs"

\* next_delay multiplies one second by 2^a and only then takes the minimum
\* with max_delay; a Duration holds less than 2^64 seconds, and mul_f64 panics
\* when its result is more.
Overflows(a) == a >= 64

\* The job of d goes from one state to another.
Goes(d, from, to) ==
    /\ thread = "Runs" /\ state[d] = from
    /\ state' = [state EXCEPT ![d] = to]
    /\ UNCHANGED thread

\* A retryable error with a retry left.
Retry(d) ==
    /\ attempt[d] < Retries /\ ~Overflows(attempt[d])
    /\ Goes(d, "Running", "Retrying")
    /\ attempt' = [attempt EXCEPT ![d] = @ + 1]

\* The same after a pause was asked for: it counts, but needs no delay.  (The
\* download is resumed and dispatched again at once.)
FailsPausing(d) ==
    /\ attempt[d] < Retries
    /\ Goes(d, "Running", "Running")
    /\ attempt' = [attempt EXCEPT ![d] = @ + 1]

\* The panic unwinds the scheduler thread; the jobs are dropped, and with them
\* the sender of every result that is still awaited.
RetryPanics(d) ==
    /\ thread = "Runs" /\ state[d] = "Running"
    /\ attempt[d] < Retries /\ Overflows(attempt[d])
    /\ thread' = "Panicked"
    /\ state' = [e \in Downloads |->
                    IF state[e] \in {"Running", "Retrying"} THEN "ManagerShutdown" ELSE state[e]]
    /\ UNCHANGED attempt

\* A retryable error with none left.
GivesUp(d) ==
    /\ attempt[d] >= Retries
    /\ Goes(d, "Running", "Failed")
    /\ UNCHANGED attempt

Finishes(d) == Goes(d, "Running", "Finished") /\ UNCHANGED attempt

\* The delay is over and the download is dispatched again.
RetryElapsed(d) == Goes(d, "Retrying", "Running") /\ UNCHANGED attempt

Next ==
    \E d \in Downloads :
        \/ Retry(d) \/ FailsPausing(d) \/ RetryPanics(d) \/ GivesUp(d)
        \/ Finishes(d) \/ RetryElapsed(d)

Spec == Init /\ [][Next]_vars

----------------------------------------------------------------------------

\* request.rs:29, "`retries`: maximum retry attempts for retryable network
\* errors": a download without another error ends in an error only after its
\* own retries, whatever happens to the downloads beside it.
RetriesHonoured ==
    \A d \in Downloads :
        state[d] \in {"Failed", "ManagerShutdown"} => attempt[d] = Retries

=============================================================================
