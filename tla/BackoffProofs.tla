--------------------------- MODULE BackoffProofs ---------------------------
(***************************************************************************)
(* With at most 64 retries the scheduler thread never panics: the bound in *)
(* Scheduler's ConfigAssumption is enough, and Backoff's run shows that 65 *)
(* is too many.                                                            *)
(***************************************************************************)
EXTENDS Backoff, TLAPS

TypeInv ==
    /\ state \in [Downloads -> {"Running", "Retrying", "Failed", "Finished", "ManagerShutdown"}]
    /\ attempt \in [Downloads -> 0..Retries]
    /\ thread \in {"Runs", "Panicked"}

NoPanic == thread = "Runs" /\ \A d \in Downloads : state[d] # "ManagerShutdown"

IInv == TypeInv /\ NoPanic /\ RetriesHonoured

\* A retry left means fewer than 64 attempts so far.
LEMMA StepIInv ==
    ASSUME Retries \in 0..64, IInv, [Next]_vars
    PROVE  IInv'
<1> USE DEF IInv, TypeInv, NoPanic, RetriesHonoured
<1>1. ASSUME NEW d \in Downloads, Retry(d) PROVE IInv'
  BY <1>1 DEF Retry, Goes
<1>2. ASSUME NEW d \in Downloads, FailsPausing(d) PROVE IInv'
  BY <1>2 DEF FailsPausing, Goes
<1>3. ASSUME NEW d \in Downloads, RetryPanics(d) PROVE FALSE
  BY <1>3 DEF RetryPanics, Overflows
<1>4. ASSUME NEW d \in Downloads, GivesUp(d) PROVE IInv'
  BY <1>4 DEF GivesUp, Goes
<1>5. ASSUME NEW d \in Downloads, Finishes(d) PROVE IInv'
  BY <1>5 DEF Finishes, Goes
<1>6. ASSUME NEW d \in Downloads, RetryElapsed(d) PROVE IInv'
  BY <1>6 DEF RetryElapsed, Goes
<1>7. CASE UNCHANGED vars
  BY <1>7 DEF vars
<1> QED BY <1>1, <1>2, <1>3, <1>4, <1>5, <1>6, <1>7 DEF Next

\* Up to 64 retries are honoured (next_delay stays defined), for any number of
\* downloads.
THEOREM SixtyFourRetriesHonoured ==
    ASSUME Retries \in 0..64
    PROVE  Spec => []RetriesHonoured
<1>1. Init => IInv
  BY DEF Init, IInv, TypeInv, NoPanic, RetriesHonoured
<1>2. IInv /\ [Next]_vars => IInv'
  BY StepIInv
<1>3. IInv => RetriesHonoured
  BY DEF IInv
<1> QED BY <1>1, <1>2, <1>3, PTL DEF Spec

=============================================================================
