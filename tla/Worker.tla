-------------------------------- MODULE Worker --------------------------------
(***************************************************************************)
(* The durable job runner (internal/worker/worker.go): processes that poll *)
(* one jobs table, claim due jobs under a lease, run their handlers and    *)
(* write the outcome.                                                      *)
(*                                                                         *)
(* Every statement on the table is one step.  Time is abstract: a job      *)
(* becomes due and a lease expires when the environment says so, however   *)
(* long a handler runs.  lease_owner is written and never read, so it is   *)
(* left out.  A mishap is a crash, a failed statement (the code ignores    *)
(* the error) or the lease of a live process that expires.                 *)
(***************************************************************************)
EXTENDS Integers, FiniteSets

CONSTANTS
  Workers,      \* processes, each with one polling goroutine
  Jobs,
  Handled,      \* jobs of a kind that a handler is registered for
  MaxAttempts,  \* column max_attempts of each job
  BatchSize,
  MaxMishaps    \* bound on the mishaps of a run

ASSUME WorkerAssumption ==
  /\ IsFiniteSet(Jobs) /\ IsFiniteSet(Workers)
  /\ Handled \subseteq Jobs
  /\ MaxAttempts \in [Jobs -> Nat \ {0}]
  /\ BatchSize \in Nat \ {0}
  /\ MaxMishaps \in Nat

VARIABLES
  job,       \* table jobs; due: available_at <= now, expired: lease_until <= now
  history,   \* table job_attempts: the <<job, attempt_number>> recorded
  worker,    \* each process: what it does, the claims still to run, the one it runs
  mishaps,   \* how many mishaps there were
  lapsed     \* how often a lease of each job expired

vars == <<job, history, worker, mishaps, lapsed>>

Terminal == {"succeeded", "permanently_failed"}
JobRows ==
  [status : {"pending", "running", "retry_wait"} \cup Terminal,
   attempts : Nat, due : BOOLEAN, expired : BOOLEAN]

\* What Claim returns for a job: attempts as it was before the claim.
Claims == [job : Jobs, attempts : Nat]
NoClaim == [job |-> "none"]
Idle == [pc |-> "idle", batch |-> {}, current |-> NoClaim]
Down == [Idle EXCEPT !.pc = "down"]

Held(w) == worker[w].batch \cup ({worker[w].current} \ {NoClaim})

Init ==
  /\ job = [j \in Jobs |-> [status |-> "pending", attempts |-> 0,
                            due |-> FALSE, expired |-> FALSE]]
  /\ history = {}
  /\ worker = [w \in Workers |-> Idle]
  /\ mishaps = 0
  /\ lapsed = [j \in Jobs |-> 0]

-------------------------------------------------------------------------------
(* One tick of a process: recover, claim, then run the batch one by one. *)

Become(w, s) == worker' = [worker EXCEPT ![w] = s]
Mishap == mishaps < MaxMishaps /\ mishaps' = mishaps + 1

RecoverExpired(w) ==
  /\ worker[w].pc = "idle"
  /\ job' = [j \in Jobs |->
               IF job[j].status = "running" /\ job[j].expired
               THEN [job[j] EXCEPT !.status = "retry_wait", !.due = TRUE, !.expired = FALSE]
               ELSE job[j]]
  /\ Become(w, [Idle EXCEPT !.pc = "claiming"])
  /\ UNCHANGED <<history, mishaps, lapsed>>

RecoverFails(w) ==
  /\ worker[w].pc = "idle"
  /\ Mishap
  /\ Become(w, [Idle EXCEPT !.pc = "claiming"])
  /\ UNCHANGED <<job, history, lapsed>>

\* The WHERE of the claim.
ClaimableAnyLease(j) ==
  /\ job[j].status \in {"pending", "retry_wait", "running"}
  /\ job[j].due
ClaimableOnceDue(j) == job[j].due
ClaimableOnce(j) ==
  /\ \/ job[j].status = "pending"
     \/ job[j].status = "running" /\ job[j].expired
  /\ job[j].due
Claimable(j) ==
  /\ \/ job[j].status \in {"pending", "retry_wait"}
     \/ job[j].status = "running" /\ job[j].expired
  /\ job[j].due

\* "attempts = attempts + 1"
CountedNot(n) == n
Counted(n) == n + 1

\* LIMIT: as many claimable jobs as fit the batch.  Any of them may come first,
\* since available_at orders them.
Claim(w) ==
  /\ worker[w].pc = "claiming"
  /\ LET claimable == {j \in Jobs : Claimable(j)}
     IN \E S \in SUBSET claimable :
          /\ Cardinality(S) <= BatchSize
          /\ S = claimable \/ Cardinality(S) = BatchSize
          /\ job' = [j \in Jobs |->
                       IF j \in S
                       THEN [job[j] EXCEPT !.status = "running", !.expired = FALSE,
                                           !.attempts = Counted(job[j].attempts)]
                       ELSE job[j]]
          /\ Become(w, IF S = {} THEN Idle
                       ELSE [Idle EXCEPT !.pc = "executing",
                                         !.batch = {[job |-> j, attempts |-> job[j].attempts] : j \in S}])
  /\ UNCHANGED <<history, mishaps, lapsed>>

ClaimFails(w) ==
  /\ worker[w].pc = "claiming"
  /\ Mishap
  /\ Become(w, Idle)
  /\ UNCHANGED <<job, history, lapsed>>

\* The process goes on with what is left of its batch.
GoOn(batch) ==
  IF batch = {} THEN Idle ELSE [Idle EXCEPT !.pc = "executing", !.batch = batch]

\* The UPDATE of Finish: it names the job and nothing else, so it also takes
\* effect when the lease is long gone.  Backoff puts a retry into the future.
WriteOutcome(j, s) ==
  job' = [job EXCEPT ![j] =
            [@ EXCEPT !.status = s, !.expired = FALSE, !.due = (s # "retry_wait")]]

\* "no handler for": permanent, without an attempt in the history.
Refuse(w) ==
  /\ worker[w].pc = "executing"
  /\ \E x \in worker[w].batch :
       /\ x.job \notin Handled
       /\ WriteOutcome(x.job, "permanently_failed")
       /\ Become(w, GoOn(worker[w].batch \ {x}))
  /\ UNCHANGED <<history, mishaps, lapsed>>

\* attempt_number of a claim
NumberedFromOld(x) == x.attempts
Numbered(x) == x.attempts + 1

RecordAttempt(w) ==
  /\ worker[w].pc = "executing"
  /\ \E x \in worker[w].batch :
       /\ x.job \in Handled
       /\ history' = history \cup {<<x.job, Numbered(x)>>}
       /\ Become(w, [pc |-> "running", batch |-> worker[w].batch \ {x}, current |-> x])
  /\ UNCHANGED <<job, mishaps, lapsed>>

RecordFails(w) ==
  /\ worker[w].pc = "executing"
  /\ Mishap
  /\ \E x \in worker[w].batch :
       /\ x.job \in Handled
       /\ Become(w, [pc |-> "running", batch |-> worker[w].batch \ {x}, current |-> x])
  /\ UNCHANGED <<job, history, lapsed>>

\* "job.Attempts+1 >= job.MaxAttempts" makes a failure permanent.
OutcomeOneMore(x, ok) ==
  IF ok THEN "succeeded"
  ELSE IF x.attempts >= MaxAttempts[x.job] THEN "permanently_failed" ELSE "retry_wait"
Outcome(x, ok) ==
  IF ok THEN "succeeded"
  ELSE IF x.attempts + 1 >= MaxAttempts[x.job] THEN "permanently_failed" ELSE "retry_wait"

\* The handler returns, with or without an error, and the outcome is written.
Finish(w) ==
  /\ worker[w].pc = "running"
  /\ \E ok \in BOOLEAN :
       WriteOutcome(worker[w].current.job, Outcome(worker[w].current, ok))
  /\ Become(w, GoOn(worker[w].batch))
  /\ UNCHANGED <<history, mishaps, lapsed>>

\* The job stays running until its lease expires.
FinishFails(w) ==
  /\ \/ /\ worker[w].pc = "running"
        /\ Become(w, GoOn(worker[w].batch))
     \/ /\ worker[w].pc = "executing"
        /\ \E x \in worker[w].batch :
             x.job \notin Handled /\ Become(w, GoOn(worker[w].batch \ {x}))
  /\ Mishap
  /\ UNCHANGED <<job, history, lapsed>>

\* A kill, or a shutdown: its cancelled context fails every statement to come.
Crash(w) ==
  /\ worker[w].pc # "down"
  /\ Mishap
  /\ Become(w, Down)
  /\ UNCHANGED <<job, history, lapsed>>

Restart(w) ==
  /\ worker[w].pc = "down"
  /\ Become(w, Idle)
  /\ UNCHANGED <<job, history, mishaps, lapsed>>

-------------------------------------------------------------------------------
(* Time *)

BecomesDue(j) ==
  /\ ~job[j].due
  /\ job' = [job EXCEPT ![j].due = TRUE]
  /\ UNCHANGED <<history, worker, mishaps, lapsed>>

\* The process with the newest claim of j is alive and has not finished it.
HeldLive(j) ==
  \E w \in Workers : \E x \in Held(w) :
    x.job = j /\ x.attempts + 1 = job[j].attempts

Lapse(j) ==
  /\ job[j].status = "running" /\ ~job[j].expired
  /\ job' = [job EXCEPT ![j].expired = TRUE]
  /\ lapsed' = [lapsed EXCEPT ![j] = @ + 1]
  /\ UNCHANGED <<history, worker>>

LeaseExpires(j) == Lapse(j) /\ ~HeldLive(j) /\ UNCHANGED mishaps
LeaseTooShort(j) == Lapse(j) /\ HeldLive(j) /\ Mishap

\* What a process does when nothing goes wrong.
Tick(w) ==
  \/ RecoverExpired(w) \/ Claim(w) \/ Refuse(w) \/ RecordAttempt(w) \/ Finish(w)
  \/ Restart(w)

GoesWrong(w) ==
  \/ RecoverFails(w) \/ ClaimFails(w) \/ RecordFails(w) \/ FinishFails(w)
  \/ Crash(w)

Next ==
  \/ \E w \in Workers : Tick(w) \/ GoesWrong(w)
  \/ \E j \in Jobs : BecomesDue(j) \/ LeaseExpires(j) \/ LeaseTooShort(j)

Spec == Init /\ [][Next]_vars

\* The ticker fires for ever, handlers return, a process that died is started
\* again, and time passes.
FairSpec ==
  /\ Spec
  /\ \A w \in Workers : WF_vars(Tick(w))
  /\ \A j \in Jobs : WF_vars(BecomesDue(j)) /\ WF_vars(LeaseExpires(j))

-------------------------------------------------------------------------------
(* Properties *)

\* Rows, claims and the recorded attempts have their types, and a process holds
\* work exactly while it is executing or running some.
TypeOK ==
  /\ job \in [Jobs -> JobRows]
  /\ history \subseteq Jobs \X (Nat \ {0})
  /\ worker \in [Workers -> [pc : {"idle", "down", "claiming", "executing", "running"},
                            batch : SUBSET Claims, current : Claims \cup {NoClaim}]]
  /\ \A w \in Workers :
       /\ worker[w].pc \in {"idle", "down", "claiming"} => Held(w) = {}
       /\ worker[w].pc = "executing" => worker[w].batch # {}
       /\ worker[w].pc = "running" <=> worker[w].current # NoClaim
  /\ mishaps \in 0 .. MaxMishaps
  /\ lapsed \in [Jobs -> Nat]

\* Every execution of a job has an attempt number of its own, whatever was lost,
\* so UNIQUE(job_id, attempt_number) never refuses a row of the history.
AttemptsDistinct ==
  \A w \in Workers : \A x \in Held(w) :
    /\ Numbered(x) \in 1 .. job[x.job].attempts
    /\ \A v \in Workers : \A y \in Held(v) :
         x.job = y.job /\ Numbered(x) = Numbered(y) => v = w /\ y = x
    /\ <<x.job, Numbered(x)>> \in history => x = worker[w].current

Holders(j) == {w \in Workers : \E x \in Held(w) : x.job = j}

\* As long as no lease of a job expired, one process at a time works on it, and
\* every lapse can add at most one.
LeaseExcludes ==
  \A j \in Jobs : Cardinality(Holders(j)) <= 1 + lapsed[j]

\* A job is claimed at most max_attempts times and once more for every time that
\* its lease expired: a failure never buys a retry beyond max_attempts.
RetriesBounded ==
  \A j \in Jobs : job[j].attempts <= MaxAttempts[j] + lapsed[j]

\* A job that reached an outcome keeps it, unless a lease of it expired once and
\* the process that had lost it is still running the handler.
OutcomeIsFinal ==
  [][\A j \in Jobs :
       (job[j].status \in Terminal /\ job'[j] # job[j]) =>
         /\ lapsed[j] > 0
         /\ \E w \in Workers : \E x \in Held(w) : x.job = j]_vars

\* Restart recovery: every job reaches an outcome for good, whatever crashed or
\* failed on the way.
JobsSettle == \A j \in Jobs : <>[](job[j].status \in Terminal)

\* README.md: "Durable jobs have leases, bounded retries".  No job is started
\* more often than its max_attempts.
NeverBeyondMaxAttempts == \A j \in Jobs : job[j].attempts <= MaxAttempts[j]
================================================================================
