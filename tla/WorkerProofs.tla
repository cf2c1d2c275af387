------------------------------ MODULE WorkerProofs ------------------------------
(***************************************************************************)
(* Theorems about Worker for any processes, jobs, attempts, batch size and *)
(* number of mishaps.                                                      *)
(***************************************************************************)
EXTENDS Worker, TLAPS, FiniteSetTheorems

-------------------------------------------------------------------------------
(* Types *)

Processes ==
  [pc : {"idle", "down", "claiming", "executing", "running"},
   batch : SUBSET Claims, current : Claims \cup {NoClaim}]

\* A process holds work exactly while it is executing or running some.
Sound(p) ==
  /\ p.pc \in {"idle", "down", "claiming"} => p.batch = {} /\ p.current = NoClaim
  /\ p.pc = "executing" => p.batch # {}
  /\ p.pc = "running" <=> p.current # NoClaim

\* What becomes of process w: what it runs and what it has still to run.
Goes(w, batch, current) ==
  /\ worker' \in [Workers -> Processes]
  /\ Sound(worker'[w])
  /\ worker'[w].batch = batch /\ worker'[w].current = current
  /\ \A v \in Workers \ {w} : worker'[v] = worker[v]

LEMMA ClaimFacts ==
  /\ NoClaim \notin Claims
  /\ \A x \in Claims : x.job \in Jobs /\ x.attempts \in Nat
  /\ \A x, y \in Claims : x.job = y.job /\ x.attempts = y.attempts => x = y
BY DEF Claims, NoClaim

LEMMA WorkerFacts ==
  ASSUME TypeOK, NEW w \in Workers
  PROVE  /\ worker[w] \in Processes /\ Sound(worker[w])
         /\ worker[w].batch \in SUBSET Claims
         /\ worker[w].current \in Claims \cup {NoClaim}
         /\ Held(w) \in SUBSET Claims
         /\ \A x : x \in Held(w) <=>
              x \in worker[w].batch \/ (x = worker[w].current /\ x # NoClaim)
         /\ worker[w].current = NoClaim => Held(w) = worker[w].batch
<1>1. worker[w] \in Processes
  BY DEF TypeOK, Processes
<1>2. worker[w].batch \in SUBSET Claims /\ worker[w].current \in Claims \cup {NoClaim}
  BY <1>1 DEF Processes
<1>3. NoClaim \notin worker[w].batch
  BY <1>2, ClaimFacts
<1>4. Sound(worker[w])
  BY <1>3 DEF TypeOK, Held, Sound
<1> QED
  BY <1>1, <1>2, <1>4 DEF Held

LEMMA ProcessFacts ==
  /\ Idle \in Processes /\ Sound(Idle) /\ Idle.batch = {} /\ Idle.current = NoClaim
  /\ Down \in Processes /\ Sound(Down) /\ Down.batch = {} /\ Down.current = NoClaim
  /\ LET p == [Idle EXCEPT !.pc = "claiming"]
     IN p \in Processes /\ Sound(p) /\ p.batch = {} /\ p.current = NoClaim
BY DEF Idle, Down, Processes, Sound

LEMMA GoOnFacts ==
  ASSUME NEW B \in SUBSET Claims
  PROVE  /\ GoOn(B) \in Processes /\ Sound(GoOn(B))
         /\ GoOn(B).batch = B /\ GoOn(B).current = NoClaim
BY DEF GoOn, Idle, Processes, Sound

LEMMA Becomes ==
  ASSUME TypeOK, NEW w \in Workers, NEW p \in Processes, Sound(p), Become(w, p)
  PROVE  Goes(w, p.batch, p.current)
BY DEF Become, Goes, TypeOK, Processes

\* What a row may become.
RowIs(row, status, attempts, due, expired) ==
  /\ row \in JobRows
  /\ row.status = status /\ row.attempts = attempts
  /\ row.due = due /\ row.expired = expired

Statuses == {"pending", "running", "retry_wait"} \cup Terminal

LEMMA RowChange ==
  ASSUME NEW row \in JobRows
  PROVE  /\ RowIs([row EXCEPT !.status = "retry_wait", !.due = TRUE, !.expired = FALSE],
                  "retry_wait", row.attempts, TRUE, FALSE)
         /\ RowIs([row EXCEPT !.due = TRUE], row.status, row.attempts, TRUE, row.expired)
         /\ RowIs([row EXCEPT !.expired = TRUE], row.status, row.attempts, row.due, TRUE)
BY DEF RowIs, JobRows

LEMMA JobFacts ==
  ASSUME TypeOK, NEW j \in Jobs
  PROVE  /\ job[j] \in JobRows /\ job[j].status \in Statuses /\ job[j].attempts \in Nat
         /\ job[j].due \in BOOLEAN /\ job[j].expired \in BOOLEAN
         /\ lapsed[j] \in Nat
BY DEF TypeOK, JobRows, Statuses

-------------------------------------------------------------------------------
(* What each step does *)

\* Nothing happens to the jobs, and w keeps no more than it had.
Quits(w) ==
  /\ UNCHANGED <<job, history, lapsed>>
  /\ \E B \in SUBSET worker[w].batch :
       Goes(w, B, NoClaim) \/ (B = worker[w].batch /\ Goes(w, B, worker[w].current))

\* It turns to one claim of its batch.
Runs(w, x) ==
  /\ UNCHANGED <<job, lapsed>>
  /\ x \in worker[w].batch /\ worker[w].current = NoClaim
  /\ history' \in {history, history \cup {<<x.job, Numbered(x)>>}}
  /\ Goes(w, worker[w].batch \ {x}, x)

\* It claims the jobs of S.
Takes(w, S) ==
  /\ UNCHANGED <<history, lapsed>>
  /\ S \in SUBSET Jobs /\ Held(w) = {}
  /\ \A j \in S : /\ Claimable(j)
                  /\ RowIs(job'[j], "running", job[j].attempts + 1, job[j].due, FALSE)
  /\ \A j \in Jobs \ S : job'[j] = job[j]
  /\ Goes(w, {[job |-> j, attempts |-> job[j].attempts] : j \in S}, NoClaim)

\* It writes an outcome of x, which it lets go.
Writes(w, x, s) ==
  /\ UNCHANGED <<history, lapsed>>
  /\ x \in Held(w)
  /\ s \in Terminal \/ (s = "retry_wait" /\ Numbered(x) < MaxAttempts[x.job])
  /\ RowIs(job'[x.job], s, job[x.job].attempts, s # "retry_wait", FALSE)
  /\ \A j \in Jobs \ {x.job} : job'[j] = job[j]
  /\ \/ x = worker[w].current /\ Goes(w, worker[w].batch, NoClaim)
     \/ worker[w].current = NoClaim /\ Goes(w, worker[w].batch \ {x}, NoClaim)

\* The jobs whose leases ran out are to be claimed again.
Recovers(w) ==
  /\ UNCHANGED <<history, lapsed>>
  /\ \A j \in Jobs :
       \/ job'[j] = job[j]
       \/ /\ job[j].status = "running" /\ job[j].expired
          /\ RowIs(job'[j], "retry_wait", job[j].attempts, TRUE, FALSE)
  /\ worker[w].batch = {} /\ worker[w].current = NoClaim
  /\ Goes(w, {}, NoClaim)

\* Time passes for job j.
Ages(j) ==
  /\ UNCHANGED <<history, worker>>
  /\ \A i \in Jobs \ {j} : job'[i] = job[i] /\ lapsed'[i] = lapsed[i]
  /\ \/ /\ lapsed'[j] = lapsed[j] /\ ~job[j].due
        /\ RowIs(job'[j], job[j].status, job[j].attempts, TRUE, job[j].expired)
     \/ /\ lapsed'[j] = lapsed[j] + 1
        /\ job[j].status = "running" /\ ~job[j].expired
        /\ RowIs(job'[j], "running", job[j].attempts, job[j].due, TRUE)

Stutters == UNCHANGED <<job, history, worker, lapsed>>

Effect ==
  \/ Stutters
  \/ \E w \in Workers : \/ Quits(w) \/ Recovers(w)
                        \/ \E x \in Claims : Runs(w, x)
                        \/ \E S \in SUBSET Jobs : Takes(w, S)
                        \/ \E x \in Claims, s \in Statuses : Writes(w, x, s)
  \/ \E j \in Jobs : Ages(j)

LEMMA QuitSteps ==
  ASSUME TypeOK, NEW w \in Workers,
         \/ RecoverFails(w) \/ ClaimFails(w) \/ FinishFails(w) \/ Crash(w) \/ Restart(w)
  PROVE  Quits(w)
<1>1. worker[w].batch \in SUBSET Claims
  BY WorkerFacts
<1>2. CASE RecoverFails(w)
  <2>1. Goes(w, {}, NoClaim)
    BY <1>2, ProcessFacts, Becomes DEF RecoverFails
  <2> QED
    BY <1>2, <2>1 DEF RecoverFails, Quits
<1>3. CASE ClaimFails(w)
  <2>1. Goes(w, {}, NoClaim)
    BY <1>3, ProcessFacts, Becomes DEF ClaimFails
  <2> QED
    BY <1>3, <2>1 DEF ClaimFails, Quits
<1>4. CASE FinishFails(w)
  <2>1. PICK B \in SUBSET worker[w].batch : Become(w, GoOn(B))
    BY <1>4 DEF FinishFails
  <2>2. Goes(w, B, NoClaim)
    BY <1>1, <2>1, GoOnFacts, Becomes
  <2> QED
    BY <1>4, <2>2 DEF FinishFails, Quits
<1>5. CASE Crash(w)
  <2>1. Goes(w, {}, NoClaim)
    BY <1>5, ProcessFacts, Becomes DEF Crash
  <2> QED
    BY <1>5, <2>1 DEF Crash, Quits
<1>6. CASE Restart(w)
  <2>1. Goes(w, {}, NoClaim)
    BY <1>6, ProcessFacts, Becomes DEF Restart
  <2> QED
    BY <1>6, <2>1 DEF Restart, Quits
<1> QED
  BY <1>2, <1>3, <1>4, <1>5, <1>6

LEMMA RunSteps ==
  ASSUME TypeOK, NEW w \in Workers, RecordAttempt(w) \/ RecordFails(w)
  PROVE  \E x \in Claims : Runs(w, x)
<1>1. worker[w].batch \in SUBSET Claims /\ worker[w].current = NoClaim
  BY WorkerFacts DEF RecordAttempt, RecordFails, Sound
<1>2. PICK x \in worker[w].batch :
        /\ Become(w, [pc |-> "running", batch |-> worker[w].batch \ {x}, current |-> x])
        /\ history' \in {history, history \cup {<<x.job, Numbered(x)>>}}
        /\ UNCHANGED <<job, lapsed>>
  BY DEF RecordAttempt, RecordFails
<1> DEFINE B == worker[w].batch \ {x}
           p == [pc |-> "running", batch |-> B, current |-> x]
<1>3. B \in SUBSET Claims /\ x \in Claims /\ x # NoClaim
  BY <1>1, ClaimFacts
<1> HIDE DEF B
<1>4. p \in Processes /\ Sound(p) /\ p.batch = B /\ p.current = x
  BY <1>3 DEF Processes, Sound
<1> HIDE DEF p
<1>5. Goes(w, B, x)
  BY <1>2, <1>4, Becomes DEF p, B
<1> QED
  BY <1>1, <1>2, <1>3, <1>5 DEF Runs, B

LEMMA TakeSteps ==
  ASSUME TypeOK, NEW w \in Workers, Claim(w)
  PROVE  \E S \in SUBSET Jobs : Takes(w, S)
<1>1. PICK S \in SUBSET {j \in Jobs : Claimable(j)} :
        /\ job' = [j \in Jobs |->
                     IF j \in S
                     THEN [job[j] EXCEPT !.status = "running", !.expired = FALSE,
                                         !.attempts = Counted(job[j].attempts)]
                     ELSE job[j]]
        /\ Become(w, IF S = {} THEN Idle
                     ELSE [Idle EXCEPT !.pc = "executing",
                                       !.batch = {[job |-> j, attempts |-> job[j].attempts] : j \in S}])
  BY DEF Claim
<1> DEFINE B == {[job |-> j, attempts |-> job[j].attempts] : j \in S}
<1>2. S \in SUBSET Jobs /\ \A j \in S : Claimable(j)
  OBVIOUS
<1>3. B \in SUBSET Claims /\ (S = {} <=> B = {})
  <2>1. \A j \in S : job[j].attempts \in Nat
    BY <1>2, JobFacts
  <2>2. \A j \in S : [job |-> j, attempts |-> job[j].attempts] \in Claims
    BY <1>2, <2>1 DEF Claims
  <2>3. S # {} => B # {}
    OBVIOUS
  <2> QED
    BY <2>2, <2>3
<1>4. Become(w, GoOn(B))
  BY <1>1, <1>3 DEF GoOn
<1> HIDE DEF B
<1>5. Goes(w, B, NoClaim)
  BY <1>3, <1>4, GoOnFacts, Becomes
<1>6. ASSUME NEW j \in S
      PROVE  RowIs(job'[j], "running", job[j].attempts + 1, job[j].due, FALSE)
  <2>a. job[j] \in JobRows /\ job[j].attempts \in Nat
    BY <1>2, JobFacts
  <2>b. job[j].attempts + 1 \in Nat
    BY <2>a
  <2>1. PICK row \in JobRows, n \in Nat : row = job[j] /\ n = job[j].attempts + 1
    BY <2>a, <2>b
  <2>2. job'[j] = [row EXCEPT !.status = "running", !.expired = FALSE, !.attempts = n]
    BY <1>1, <1>2, <2>1 DEF Counted
  <2>3. RowIs(job'[j], "running", n, row.due, FALSE)
    BY <2>2 DEF RowIs, JobRows
  <2> QED
    BY <2>1, <2>3
<1>7. \A j \in Jobs \ S : job'[j] = job[j]
  BY <1>1
<1>8. Held(w) = {}
  BY WorkerFacts DEF Claim, Sound
<1>9. UNCHANGED <<history, lapsed>>
  BY DEF Claim
<1> QED
  BY <1>2, <1>5, <1>6, <1>7, <1>8, <1>9 DEF Takes, B

LEMMA OutcomeRow ==
  ASSUME TypeOK, NEW j \in Jobs, NEW s \in Statuses, WriteOutcome(j, s)
  PROVE  /\ RowIs(job'[j], s, job[j].attempts, s # "retry_wait", FALSE)
         /\ \A i \in Jobs \ {j} : job'[i] = job[i]
<1> DEFINE d == s # "retry_wait"
<1>1. d \in BOOLEAN
  OBVIOUS
<1>2. job'[j] = [job[j] EXCEPT !.status = s, !.expired = FALSE, !.due = d]
      /\ \A i \in Jobs \ {j} : job'[i] = job[i]
  BY DEF WriteOutcome, TypeOK
<1> HIDE DEF d
<1>3. RowIs(job'[j], s, job[j].attempts, d, FALSE)
  <2>1. PICK row \in JobRows : row = job[j]
    BY JobFacts
  <2>2. job'[j] = [row EXCEPT !.status = s, !.expired = FALSE, !.due = d]
    BY <1>2, <2>1
  <2>3. RowIs(job'[j], s, row.attempts, d, FALSE)
    BY <1>1, <2>2 DEF RowIs, JobRows, Statuses
  <2> QED
    BY <2>1, <2>3
<1> QED
  BY <1>2, <1>3 DEF d

LEMMA WriteSteps ==
  ASSUME TypeOK, NEW w \in Workers, Refuse(w) \/ Finish(w)
  PROVE  \E x \in Claims, s \in Statuses : Writes(w, x, s)
<1>1. worker[w].batch \in SUBSET Claims /\ UNCHANGED <<history, lapsed>>
  BY WorkerFacts DEF Refuse, Finish
<1>2. CASE Refuse(w)
  <2>1. PICK x \in worker[w].batch :
          /\ WriteOutcome(x.job, "permanently_failed")
          /\ Become(w, GoOn(worker[w].batch \ {x}))
    BY <1>2 DEF Refuse
  <2>2. x \in Claims /\ x.job \in Jobs /\ x \in Held(w) /\ worker[w].current = NoClaim
    BY <1>1, <1>2, ClaimFacts, WorkerFacts DEF Refuse, Sound
  <2>3. Goes(w, worker[w].batch \ {x}, NoClaim)
    BY <1>1, <2>1, GoOnFacts, Becomes
  <2>4. "permanently_failed" \in Statuses /\ "permanently_failed" \in Terminal
    BY DEF Statuses, Terminal
  <2>5. Writes(w, x, "permanently_failed")
    BY <1>1, <2>1, <2>2, <2>3, <2>4, OutcomeRow DEF Writes
  <2> QED
    BY <2>2, <2>4, <2>5
<1>3. CASE Finish(w)
  <2>1. PICK x : x = worker[w].current
    OBVIOUS
  <2>2. x \in Claims /\ x \in Held(w) /\ x.job \in Jobs /\ x.attempts \in Nat
    BY <1>3, <2>1, ClaimFacts, WorkerFacts DEF Finish, Sound
  <2>3. PICK ok \in BOOLEAN : WriteOutcome(x.job, Outcome(x, ok))
    BY <1>3, <2>1 DEF Finish
  <2>4. PICK s : s = Outcome(x, ok)
    OBVIOUS
  <2>5. s \in Terminal \/ (s = "retry_wait" /\ Numbered(x) < MaxAttempts[x.job])
    <3>1. MaxAttempts[x.job] \in Nat
      BY <2>2, WorkerAssumption DEF WorkerAssumption
    <3> QED
      BY <2>2, <2>4, <3>1 DEF Outcome, Terminal, Numbered
  <2>6. s \in Statuses
    BY <2>5 DEF Statuses
  <2>7. Goes(w, worker[w].batch, NoClaim)
    BY <1>1, <1>3, GoOnFacts, Becomes DEF Finish
  <2>8. Writes(w, x, s)
    BY <1>1, <2>1, <2>2, <2>3, <2>4, <2>5, <2>6, <2>7, OutcomeRow DEF Writes
  <2> QED
    BY <2>2, <2>6, <2>8
<1> QED
  BY <1>2, <1>3

LEMMA RecoverSteps ==
  ASSUME TypeOK, NEW w \in Workers, RecoverExpired(w)
  PROVE  Recovers(w)
<1>1. ASSUME NEW j \in Jobs
      PROVE  \/ job'[j] = job[j]
             \/ /\ job[j].status = "running" /\ job[j].expired
                /\ RowIs(job'[j], "retry_wait", job[j].attempts, TRUE, FALSE)
  <2>1. job[j] \in JobRows
    BY JobFacts
  <2>2. RowIs([job[j] EXCEPT !.status = "retry_wait", !.due = TRUE, !.expired = FALSE],
              "retry_wait", job[j].attempts, TRUE, FALSE)
    BY <2>1, RowChange
  <2> QED
    BY <2>2 DEF RecoverExpired
<1>2. Goes(w, {}, NoClaim)
  BY ProcessFacts, Becomes DEF RecoverExpired
<1>3. worker[w].batch = {} /\ worker[w].current = NoClaim
  BY WorkerFacts DEF RecoverExpired, Sound
<1> QED
  BY <1>1, <1>2, <1>3 DEF Recovers, RecoverExpired

LEMMA AgeSteps ==
  ASSUME TypeOK, NEW j \in Jobs, BecomesDue(j) \/ LeaseExpires(j) \/ LeaseTooShort(j)
  PROVE  Ages(j)
<1>1. job[j] \in JobRows /\ lapsed \in [Jobs -> Nat] /\ job \in [Jobs -> JobRows]
  BY DEF TypeOK
<1>2. CASE BecomesDue(j)
  <2>1. RowIs([job[j] EXCEPT !.due = TRUE], job[j].status, job[j].attempts, TRUE, job[j].expired)
    BY <1>1, JobFacts, RowChange
  <2>2. job'[j] = [job[j] EXCEPT !.due = TRUE] /\ \A i \in Jobs \ {j} : job'[i] = job[i]
    BY <1>1, <1>2 DEF BecomesDue
  <2> QED
    BY <1>2, <2>1, <2>2 DEF BecomesDue, Ages
<1>3. CASE Lapse(j)
  <2>1. RowIs([job[j] EXCEPT !.expired = TRUE], job[j].status, job[j].attempts, job[j].due, TRUE)
    BY <1>1, JobFacts, RowChange
  <2>2. job'[j] = [job[j] EXCEPT !.expired = TRUE] /\ \A i \in Jobs \ {j} : job'[i] = job[i]
    BY <1>1, <1>3 DEF Lapse
  <2>3. lapsed'[j] = lapsed[j] + 1 /\ \A i \in Jobs \ {j} : lapsed'[i] = lapsed[i]
    BY <1>1, <1>3 DEF Lapse
  <2> QED
    BY <1>3, <2>1, <2>2, <2>3 DEF Lapse, Ages
<1> QED
  BY <1>2, <1>3 DEF LeaseExpires, LeaseTooShort

LEMMA Effects ==
  ASSUME TypeOK, [Next]_vars
  PROVE  Effect
BY QuitSteps, RunSteps, TakeSteps, WriteSteps, RecoverSteps, AgeSteps
DEF Next, Tick, GoesWrong, vars, Effect, Stutters

-------------------------------------------------------------------------------
(* Type correctness *)

LEMMA HeldAfter ==
  ASSUME NEW w \in Workers, NEW B \in SUBSET Claims, NEW x, Goes(w, B, x)
  PROVE  /\ Held(w)' = B \cup ({x} \ {NoClaim})
         /\ \A v \in Workers \ {w} : Held(v)' = Held(v)
BY DEF Goes, Held

LEMMA Functions ==
  ASSUME TypeOK, [Next]_vars
  PROVE  /\ job' = [j \in Jobs |-> job'[j]]
         /\ lapsed' \in [Jobs -> Nat]
         /\ mishaps' \in 0 .. MaxMishaps
<1>1. /\ job = [j \in Jobs |-> job[j]] /\ lapsed \in [Jobs -> Nat]
      /\ mishaps \in 0 .. MaxMishaps /\ MaxMishaps \in Nat
  BY WorkerAssumption DEF TypeOK, WorkerAssumption
<1>2. job' = [j \in Jobs |-> job'[j]]
  BY <1>1
  DEF Next, Tick, GoesWrong, vars, RecoverExpired, Claim, Refuse, RecordAttempt, Finish,
      Restart, RecoverFails, ClaimFails, RecordFails, FinishFails, Crash, BecomesDue,
      LeaseExpires, LeaseTooShort, Lapse, WriteOutcome
<1>3. lapsed' = lapsed \/ \E j \in Jobs : lapsed' = [lapsed EXCEPT ![j] = @ + 1]
  BY DEF Next, Tick, GoesWrong, vars, RecoverExpired, Claim, Refuse, RecordAttempt, Finish,
      Restart, RecoverFails, ClaimFails, RecordFails, FinishFails, Crash, BecomesDue,
      LeaseExpires, LeaseTooShort, Lapse
<1>4. mishaps' = mishaps \/ Mishap
  BY DEF Next, Tick, GoesWrong, vars, RecoverExpired, Claim, Refuse, RecordAttempt, Finish,
      Restart, RecoverFails, ClaimFails, RecordFails, FinishFails, Crash, BecomesDue,
      LeaseExpires, LeaseTooShort
<1>5. mishaps' \in 0 .. MaxMishaps
  BY <1>1, <1>4 DEF Mishap
<1> QED
  BY <1>1, <1>2, <1>3, <1>5

LEMMA WorkersTyped ==
  ASSUME TypeOK, [Next]_vars
  PROVE  /\ worker' \in [Workers -> Processes]
         /\ \A w \in Workers : Sound(worker'[w])
<1>1. worker \in [Workers -> Processes] /\ \A w \in Workers : Sound(worker[w])
  BY WorkerFacts DEF TypeOK, Processes
<1>2. worker' = worker
      \/ \E w \in Workers : \E B, x : Goes(w, B, x)
  BY Effects DEF Effect, Stutters, Quits, Runs, Takes, Writes, Recovers, Ages
<1> QED
  BY <1>1, <1>2 DEF Goes

LEMMA JobsTyped ==
  ASSUME TypeOK, [Next]_vars
  PROVE  job' \in [Jobs -> JobRows]
<1>1. \A j \in Jobs : job[j] \in JobRows
  BY JobFacts
<1>2. ASSUME NEW j \in Jobs
      PROVE  job'[j] \in JobRows
  BY <1>1, Effects, ClaimFacts
  DEF Effect, Stutters, Quits, Runs, Takes, Writes, Recovers, Ages, RowIs
<1> QED
  BY <1>2, Functions

LEMMA HistoryTyped ==
  ASSUME TypeOK, [Next]_vars
  PROVE  history' \subseteq Jobs \X (Nat \ {0})
<1>1. history \subseteq Jobs \X (Nat \ {0})
  BY DEF TypeOK
<1>2. \A x \in Claims : x.job \in Jobs /\ Numbered(x) \in Nat \ {0}
  BY ClaimFacts DEF Numbered
<1>3. history' = history \/ \E x \in Claims : history' = history \cup {<<x.job, Numbered(x)>>}
  BY Effects DEF Effect, Stutters, Quits, Runs, Takes, Writes, Recovers, Ages
<1> QED
  BY <1>1, <1>2, <1>3

LEMMA TypeStep ==
  ASSUME TypeOK, [Next]_vars
  PROVE  TypeOK'
<1>1. worker' \in [Workers -> Processes] /\ \A w \in Workers : Sound(worker'[w])
  BY WorkersTyped
<1>2. \A w \in Workers :
        /\ worker'[w].pc \in {"idle", "down", "claiming"} => Held(w)' = {}
        /\ worker'[w].pc = "executing" => worker'[w].batch # {}
        /\ worker'[w].pc = "running" <=> worker'[w].current # NoClaim
  BY <1>1 DEF Sound, Held
<1> QED
  BY <1>1, <1>2, JobsTyped, HistoryTyped, Functions DEF TypeOK, Processes

\* Rows, claims and the history have their types, and a process holds work exactly
\* while it is executing or running some.
THEOREM TypeCorrect == Spec => []TypeOK
<1>1. Init => TypeOK
  <2> SUFFICES ASSUME Init PROVE TypeOK
    OBVIOUS
  <2>1. job \in [Jobs -> JobRows]
    BY DEF Init, JobRows
  <2>2. worker \in [Workers -> Processes] /\ \A w \in Workers : Sound(worker[w])
    BY ProcessFacts DEF Init
  <2>3. \A w \in Workers :
          /\ worker[w].pc \in {"idle", "down", "claiming"} => Held(w) = {}
          /\ worker[w].pc = "executing" => worker[w].batch # {}
          /\ worker[w].pc = "running" <=> worker[w].current # NoClaim
    BY <2>2 DEF Sound, Held
  <2> QED
    BY <2>1, <2>2, <2>3, WorkerAssumption DEF Init, TypeOK, Processes, WorkerAssumption
<1> QED
  BY <1>1, TypeStep, PTL DEF Spec

-------------------------------------------------------------------------------
(* Attempts *)

\* What sets the claims apart: the number of each is of a claim that was made, a
\* process has one for each job, no two processes have the same one, those still to
\* run are not in the history, and the history has no number that was not claimed.
Claimed(w) == \A x \in Held(w) : Numbered(x) <= job[x.job].attempts
OnePerJob(w) == \A x, y \in Held(w) : x.job = y.job => x = y
Unrecorded(w) ==
  \A x \in worker[w].batch :
    x # worker[w].current /\ <<x.job, Numbered(x)>> \notin history
Apart(w, v) ==
  w # v => \A x \in Held(w) : \A y \in Held(v) : x.job = y.job => Numbered(x) # Numbered(y)
Past == \A h \in history : h[2] <= job[h[1]].attempts

ClaimInv ==
  /\ \A w \in Workers : Claimed(w) /\ OnePerJob(w) /\ Unrecorded(w)
  /\ \A w \in Workers : \A v \in Workers : Apart(w, v)
  /\ Past

\* attempts only grows.
LEMMA AttemptsGrow ==
  ASSUME TypeOK, [Next]_vars, NEW j \in Jobs
  PROVE  job'[j].attempts \in Nat /\ job'[j].attempts >= job[j].attempts
<1>1. job[j].attempts \in Nat
  BY JobFacts
<1>2. job'[j].attempts = job[j].attempts \/ job'[j].attempts = job[j].attempts + 1
  BY Effects DEF Effect, Stutters, Quits, Runs, Takes, Writes, Recovers, Ages, RowIs
<1> QED
  BY <1>1, <1>2

LEMMA NumberedFacts == \A x \in Claims : x.job \in Jobs /\ Numbered(x) \in Nat \ {0}
BY ClaimFacts DEF Numbered

\* Nothing new is held or recorded.
LEMMA ClaimsShrink ==
  ASSUME TypeOK, TypeOK', ClaimInv, [Next]_vars, history' = history,
         \A w \in Workers :
           /\ Held(w)' \subseteq Held(w) /\ worker'[w].batch \subseteq worker[w].batch
           /\ worker'[w].current \in {worker[w].current, NoClaim}
  PROVE  ClaimInv'
<1>1. ASSUME NEW w \in Workers
      PROVE  Claimed(w)' /\ OnePerJob(w)' /\ Unrecorded(w)'
  <2>1. Held(w) \in SUBSET Claims /\ worker[w].batch \in SUBSET Claims
    BY WorkerFacts
  <2>2. \A x \in Held(w) : Numbered(x) <= job[x.job].attempts /\ x.job \in Jobs
                           /\ Numbered(x) \in Nat
    BY <2>1, NumberedFacts DEF ClaimInv, Claimed
  <2>3. \A x \in Held(w) : Numbered(x) <= job'[x.job].attempts
    <3> TAKE x \in Held(w)
    <3>1. job[x.job].attempts \in Nat
      BY <2>2, JobFacts
    <3> QED
      BY <2>2, <3>1, AttemptsGrow
  <2>4. \A x \in worker[w].batch : x # NoClaim
    BY <2>1, ClaimFacts
  <2> QED
    BY <2>3, <2>4 DEF ClaimInv, Claimed, OnePerJob, Unrecorded
<1>2. \A w \in Workers : \A v \in Workers : Apart(w, v)'
  BY DEF ClaimInv, Apart
<1>3. Past'
  <2> SUFFICES ASSUME NEW h \in history PROVE h[2] <= job'[h[1]].attempts
    BY DEF Past
  <2>1. h[1] \in Jobs /\ h[2] \in Nat /\ h[2] <= job[h[1]].attempts
    BY DEF TypeOK, ClaimInv, Past
  <2>2. job[h[1]].attempts \in Nat
    BY <2>1, JobFacts
  <2> QED
    BY <2>1, <2>2, AttemptsGrow
<1> QED
  BY <1>1, <1>2, <1>3 DEF ClaimInv

\* The steps of which this is so.
LEMMA ShrinkSteps ==
  ASSUME TypeOK,
         \/ Stutters \/ \E j \in Jobs : Ages(j)
         \/ \E w \in Workers :
              Quits(w) \/ Recovers(w) \/ \E x \in Claims, s \in Statuses : Writes(w, x, s)
  PROVE  /\ history' = history
         /\ \A w \in Workers :
              /\ Held(w)' \subseteq Held(w) /\ worker'[w].batch \subseteq worker[w].batch
              /\ worker'[w].current \in {worker[w].current, NoClaim}
<1>1. CASE worker' = worker /\ history' = history
  BY <1>1 DEF Held
<1>2. ASSUME NEW w \in Workers, NEW B \in SUBSET worker[w].batch,
             NEW x \in {worker[w].current, NoClaim}, Goes(w, B, x)
      PROVE  \A v \in Workers :
              /\ Held(v)' \subseteq Held(v) /\ worker'[v].batch \subseteq worker[v].batch
              /\ worker'[v].current \in {worker[v].current, NoClaim}
  BY <1>2 DEF Goes, Held
<1>3. ASSUME NEW w \in Workers,
             Quits(w) \/ Recovers(w) \/ \E x \in Claims, s \in Statuses : Writes(w, x, s)
      PROVE  /\ history' = history
             /\ \E B \in SUBSET worker[w].batch :
                  Goes(w, B, NoClaim) \/ Goes(w, B, worker[w].current)
  <2>1. Recovers(w) => history' = history /\ Goes(w, {}, NoClaim)
    BY DEF Recovers
  <2>2. Quits(w) => /\ history' = history
                    /\ \E B \in SUBSET worker[w].batch :
                         Goes(w, B, NoClaim) \/ Goes(w, B, worker[w].current)
    BY DEF Quits
  <2>3. ASSUME NEW x \in Claims, NEW s \in Statuses, Writes(w, x, s)
        PROVE  /\ history' = history
               /\ Goes(w, worker[w].batch, NoClaim) \/ Goes(w, worker[w].batch \ {x}, NoClaim)
    BY <2>3 DEF Writes
  <2> QED
    BY <1>3, <2>1, <2>2, <2>3
<1> QED
  BY <1>1, <1>2, <1>3 DEF Stutters, Ages

LEMMA RunsApart ==
  ASSUME TypeOK, ClaimInv, NEW w \in Workers, NEW x \in Claims, Runs(w, x)
  PROVE  ClaimInv'
<1>1. worker[w].batch \in SUBSET Claims /\ Held(w) = worker[w].batch
  BY WorkerFacts DEF Runs
<1>2. Held(w)' = Held(w) /\ \A v \in Workers \ {w} : Held(v)' = Held(v)
  <2>1. x # NoClaim /\ x \in worker[w].batch /\ worker[w].batch \ {x} \in SUBSET Claims
    BY <1>1, ClaimFacts DEF Runs
  <2>2. Goes(w, worker[w].batch \ {x}, x)
    BY DEF Runs
  <2>3. /\ Held(w)' = (worker[w].batch \ {x}) \cup ({x} \ {NoClaim})
        /\ \A v \in Workers \ {w} : Held(v)' = Held(v)
    BY <2>1, <2>2, HeldAfter
  <2>4. (worker[w].batch \ {x}) \cup ({x} \ {NoClaim}) = worker[w].batch
    BY <2>1
  <2> QED
    BY <1>1, <2>3, <2>4
<1>3. /\ worker'[w].batch = worker[w].batch \ {x} /\ worker'[w].current = x
      /\ \A v \in Workers \ {w} : worker'[v] = worker[v]
      /\ x \in Held(w)
      /\ job' = job
  BY <1>1 DEF Runs, Goes
<1>4. \A h \in history' : h \in history \/ h = <<x.job, Numbered(x)>>
  BY DEF Runs
<1>5. Unrecorded(w)'
  <2> SUFFICES ASSUME NEW y \in worker[w].batch \ {x}
               PROVE  y # x /\ <<y.job, Numbered(y)>> \notin history'
    BY <1>3 DEF Unrecorded
  <2>1. y.job # x.job
    BY <1>1, <1>3 DEF ClaimInv, OnePerJob
  <2>2. <<y.job, Numbered(y)>> \notin history
    BY DEF ClaimInv, Unrecorded
  <2> QED
    BY <1>4, <2>1, <2>2
<1>6. ASSUME NEW v \in Workers, v # w
      PROVE  Unrecorded(v)'
  <2> SUFFICES ASSUME NEW y \in worker[v].batch
               PROVE  y # worker[v].current /\ <<y.job, Numbered(y)>> \notin history'
    BY <1>3, <1>6 DEF Unrecorded
  <2>1. y \in Held(v)
    BY WorkerFacts
  <2>2. <<y.job, Numbered(y)>> # <<x.job, Numbered(x)>>
    BY <1>3, <1>6, <2>1 DEF ClaimInv, Apart
  <2>3. y # worker[v].current /\ <<y.job, Numbered(y)>> \notin history
    BY DEF ClaimInv, Unrecorded
  <2> QED
    BY <1>4, <2>2, <2>3
<1>7. Past'
  <2>1. Numbered(x) <= job[x.job].attempts
    BY <1>3 DEF ClaimInv, Claimed
  <2> QED
    BY <1>3, <1>4, <2>1 DEF ClaimInv, Past
<1>8. \A v \in Workers : Held(v)' = Held(v)
  BY <1>2
<1>9. \A v \in Workers : Claimed(v)' /\ OnePerJob(v)'
  BY <1>3, <1>8 DEF ClaimInv, Claimed, OnePerJob
<1>10. \A v \in Workers : \A u \in Workers : Apart(v, u)'
  BY <1>8 DEF ClaimInv, Apart
<1> QED
  BY <1>5, <1>6, <1>7, <1>9, <1>10 DEF ClaimInv

LEMMA TakesApart ==
  ASSUME TypeOK, ClaimInv, [Next]_vars, NEW w \in Workers, NEW S \in SUBSET Jobs, Takes(w, S)
  PROVE  ClaimInv'
<1> DEFINE B == {[job |-> j, attempts |-> job[j].attempts] : j \in S}
<1>1. \A j \in Jobs : job[j].attempts \in Nat
  BY JobFacts
<1>2. B \in SUBSET Claims
  BY <1>1 DEF Claims
<1>3. \A x \in B : x.job \in S /\ Numbered(x) = job[x.job].attempts + 1
  BY DEF Numbered
<1>4. \A x, y \in B : x.job = y.job => x = y
  OBVIOUS
<1>5. Goes(w, B, NoClaim) /\ history' = history
  BY DEF Takes
<1>6. \A j \in S : job'[j].attempts = job[j].attempts + 1
  BY DEF Takes, RowIs
<1> HIDE DEF B
<1>7. Held(w)' = B /\ \A v \in Workers \ {w} : Held(v)' = Held(v)
  BY <1>2, <1>5, HeldAfter
<1>8. /\ worker'[w].batch = B /\ worker'[w].current = NoClaim
      /\ \A v \in Workers \ {w} : worker'[v] = worker[v]
  BY <1>5 DEF Goes
<1>9. \A v \in Workers : \A y \in Held(v) :
        y.job \in Jobs /\ Numbered(y) \in Nat /\ Numbered(y) <= job[y.job].attempts
  BY WorkerFacts, NumberedFacts DEF ClaimInv, Claimed
<1>10. \A h \in history : h[1] \in Jobs /\ h[2] \in Nat /\ h[2] <= job[h[1]].attempts
  BY DEF TypeOK, ClaimInv, Past
<1>11. \A j \in Jobs : job'[j].attempts \in Nat /\ job'[j].attempts >= job[j].attempts
  BY AttemptsGrow
<1>12. Claimed(w)' /\ OnePerJob(w)' /\ Unrecorded(w)'
  <2>1. ASSUME NEW x \in B
        PROVE  /\ Numbered(x) <= job'[x.job].attempts
               /\ x # NoClaim /\ <<x.job, Numbered(x)>> \notin history
    BY <1>1, <1>2, <1>3, <1>6, <1>10, ClaimFacts
  <2> QED
    BY <1>4, <1>5, <1>7, <1>8, <2>1 DEF Claimed, OnePerJob, Unrecorded
<1>13. ASSUME NEW v \in Workers, v # w
       PROVE  Claimed(v)' /\ OnePerJob(v)' /\ Unrecorded(v)'
  <2>1. \A y \in Held(v) : Numbered(y) <= job'[y.job].attempts
    <3> TAKE y \in Held(v)
    <3>1. y.job \in Jobs /\ Numbered(y) \in Nat /\ Numbered(y) <= job[y.job].attempts
      BY <1>9
    <3> QED
      BY <1>1, <1>11, <3>1
  <2> QED
    BY <1>5, <1>7, <1>8, <1>13, <2>1 DEF ClaimInv, Claimed, OnePerJob, Unrecorded
<1>14. ASSUME NEW x \in B, NEW v \in Workers, NEW y \in Held(v), x.job = y.job
       PROVE  Numbered(x) # Numbered(y)
  BY <1>1, <1>3, <1>9, <1>14
<1>15. \A v \in Workers : \A u \in Workers : Apart(v, u)'
  BY <1>7, <1>14 DEF ClaimInv, Apart
<1>16. Past'
  <2> SUFFICES ASSUME NEW h \in history PROVE h[2] <= job'[h[1]].attempts
    BY <1>5 DEF Past
  <2>1. h[1] \in Jobs /\ h[2] \in Nat /\ h[2] <= job[h[1]].attempts
    BY <1>10
  <2> QED
    BY <1>1, <1>11, <2>1
<1> QED
  BY <1>12, <1>13, <1>15, <1>16 DEF ClaimInv

LEMMA ClaimStep ==
  ASSUME TypeOK, TypeOK', ClaimInv, [Next]_vars
  PROVE  ClaimInv'
BY Effects, ShrinkSteps, ClaimsShrink, RunsApart, TakesApart DEF Effect

LEMMA ClaimAlways == Spec => []ClaimInv
<1>1. Init => ClaimInv
  BY DEF Init, ClaimInv, Claimed, OnePerJob, Unrecorded, Apart, Past, Held, Idle
<1>2. TypeOK /\ TypeOK' /\ ClaimInv /\ [Next]_vars => ClaimInv'
  BY ClaimStep
<1> QED
  BY <1>1, <1>2, TypeCorrect, PTL DEF Spec

\* Every execution of a job has a number of its own, whichever processes crashed or
\* lost their leases: no row of job_attempts is ever refused.
THEOREM AttemptsCorrect == Spec => []AttemptsDistinct
<1>1. TypeOK /\ ClaimInv => AttemptsDistinct
  <2> SUFFICES ASSUME TypeOK, ClaimInv, NEW w \in Workers, NEW x \in Held(w)
               PROVE  /\ Numbered(x) \in 1 .. job[x.job].attempts
                      /\ \A v \in Workers : \A y \in Held(v) :
                           x.job = y.job /\ Numbered(x) = Numbered(y) => v = w /\ y = x
                      /\ <<x.job, Numbered(x)>> \in history => x = worker[w].current
    BY DEF AttemptsDistinct
  <2>1. x \in Claims /\ x.job \in Jobs /\ Numbered(x) \in Nat \ {0}
    BY WorkerFacts, NumberedFacts
  <2>2. job[x.job].attempts \in Nat /\ Numbered(x) <= job[x.job].attempts
    BY <2>1, JobFacts DEF ClaimInv, Claimed
  <2>3. \A v \in Workers : \A y \in Held(v) :
          x.job = y.job /\ Numbered(x) = Numbered(y) => v = w /\ y = x
    BY DEF ClaimInv, Apart, OnePerJob
  <2>4. <<x.job, Numbered(x)>> \in history => x = worker[w].current
    BY WorkerFacts DEF ClaimInv, Unrecorded
  <2> QED
    BY <2>1, <2>2, <2>3, <2>4
<1> QED
  BY <1>1, TypeCorrect, ClaimAlways, PTL

-------------------------------------------------------------------------------
(* Leases and retries *)

\* A job is free when no lease of it runs, and open when it can still be claimed
\* without another lease of it expiring.
Free(j) == ~(job[j].status = "running" /\ ~job[j].expired)
Open(j) == Free(j) /\ job[j].status \notin Terminal

\* The processes whose failure of job j would be retried.
Retriers(j) ==
  {w \in Workers : \E x \in Held(w) : x.job = j /\ Numbered(x) < MaxAttempts[j]}

\* A free job has one holder less than LeaseExcludes allows: the place is taken by
\* the claim to come.
LeaseInv ==
  \A j \in Jobs :
    /\ Cardinality(Holders(j)) <= 1 + lapsed[j]
    /\ Free(j) => Cardinality(Holders(j)) <= lapsed[j]

\* Once the attempts are used up, each further claim is paid for by a lapse: one for
\* each retrier, who may open the job again, and one for an open job.
RetryInv ==
  \A j \in Jobs :
    job[j].attempts >= MaxAttempts[j] =>
      /\ job[j].attempts + Cardinality(Retriers(j)) <= MaxAttempts[j] + lapsed[j]
      /\ Open(j) =>
           job[j].attempts + Cardinality(Retriers(j)) < MaxAttempts[j] + lapsed[j]

\* An outcome leaves the job due, so that time changes nothing in it.
DueInv == \A j \in Jobs : job[j].status \in Terminal => job[j].due

\* What a step does to one job and to those who hold it.
Loses(j) ==
  /\ Holders(j)' \subseteq Holders(j) /\ Retriers(j)' \subseteq Retriers(j)
  /\ job'[j].attempts = job[j].attempts /\ lapsed'[j] = lapsed[j]
  /\ \/ job'[j] = job[j]
     \/ /\ ~job[j].due /\ job'[j].due
        /\ job'[j].status = job[j].status /\ job'[j].expired = job[j].expired
     \/ /\ job[j].status = "running" /\ job[j].expired
        /\ job'[j].status = "retry_wait"

Lapses(j) ==
  /\ Holders(j)' \subseteq Holders(j) /\ Retriers(j)' \subseteq Retriers(j)
  /\ job[j].status = "running" /\ ~job[j].expired
  /\ job'[j].attempts = job[j].attempts /\ lapsed'[j] = lapsed[j] + 1
  /\ job'[j].status = "running"

Gains(j, w) ==
  /\ w \notin Holders(j) /\ Holders(j)' \subseteq Holders(j) \cup {w}
  /\ Retriers(j)' \subseteq Retriers(j) \cup {w}
  /\ job[j].attempts + 1 >= MaxAttempts[j] => Retriers(j)' \subseteq Retriers(j)
  /\ Claimable(j)
  /\ job'[j].attempts = job[j].attempts + 1 /\ lapsed'[j] = lapsed[j]
  /\ job'[j].status = "running" /\ ~job'[j].expired

Settles(j, w) ==
  /\ w \in Holders(j) /\ Holders(j)' \subseteq Holders(j) \ {w}
  /\ Retriers(j)' \subseteq Retriers(j) \ {w}
  /\ job'[j].attempts = job[j].attempts /\ lapsed'[j] = lapsed[j]
  /\ \/ job'[j].status \in Terminal /\ job'[j].due
     \/ job'[j].status = "retry_wait" /\ w \in Retriers(j)

LEMMA HoldersSubset ==
  ASSUME \A w \in Workers : Held(w)' \subseteq Held(w), NEW j
  PROVE  Holders(j)' \subseteq Holders(j) /\ Retriers(j)' \subseteq Retriers(j)
BY DEF Holders, Retriers

LEMMA QuitsLoses ==
  ASSUME TypeOK, NEW j \in Jobs,
         \/ Stutters
         \/ \E w \in Workers : Quits(w) \/ Recovers(w)
  PROVE  Loses(j)
<1>1. Holders(j)' \subseteq Holders(j) /\ Retriers(j)' \subseteq Retriers(j)
  BY ShrinkSteps, HoldersSubset
<1> QED
  BY <1>1 DEF Stutters, Quits, Recovers, Loses, RowIs

LEMMA AgesSteps ==
  ASSUME TypeOK, NEW j \in Jobs, NEW i \in Jobs, Ages(i)
  PROVE  Loses(j) \/ Lapses(j)
<1>1. Holders(j)' \subseteq Holders(j) /\ Retriers(j)' \subseteq Retriers(j)
  BY ShrinkSteps, HoldersSubset
<1> QED
  BY <1>1 DEF Ages, Loses, Lapses, RowIs

LEMMA RunsLoses ==
  ASSUME TypeOK, NEW j \in Jobs, NEW w \in Workers, NEW x \in Claims, Runs(w, x)
  PROVE  Loses(j)
<1>1. worker[w].batch \in SUBSET Claims /\ Held(w) = worker[w].batch /\ x \in Held(w)
  BY WorkerFacts DEF Runs
<1>2. Goes(w, worker[w].batch \ {x}, x) /\ job' = job /\ lapsed' = lapsed
  BY DEF Runs
<1>3. \A v \in Workers : Held(v)' \subseteq Held(v)
  BY <1>1, <1>2, HeldAfter
<1> QED
  BY <1>2, <1>3, HoldersSubset DEF Loses

LEMMA TakesGains ==
  ASSUME TypeOK, NEW j \in Jobs, NEW w \in Workers, NEW S \in SUBSET Jobs, Takes(w, S)
  PROVE  Loses(j) \/ Gains(j, w)
<1> DEFINE B == {[job |-> i, attempts |-> job[i].attempts] : i \in S}
<1>1. \A i \in Jobs : job[i].attempts \in Nat
  BY JobFacts
<1>2. B \in SUBSET Claims
  BY <1>1 DEF Claims
<1>3. \A x \in B : x.job \in S /\ Numbered(x) = job[x.job].attempts + 1
  BY DEF Numbered
<1>4. Goes(w, B, NoClaim) /\ lapsed' = lapsed /\ Held(w) = {}
  BY DEF Takes
<1> HIDE DEF B
<1>5. Held(w)' = B /\ \A v \in Workers \ {w} : Held(v)' = Held(v)
  BY <1>2, <1>4, HeldAfter
<1>6. w \notin Holders(j)
  BY <1>4 DEF Holders
<1>7. CASE j \in S
  <2>1. Holders(j)' \subseteq Holders(j) \cup {w} /\ Retriers(j)' \subseteq Retriers(j) \cup {w}
    BY <1>5 DEF Holders, Retriers
  <2>2. job[j].attempts + 1 >= MaxAttempts[j] => w \notin Retriers(j)'
    <3>1. MaxAttempts[j] \in Nat
      BY WorkerAssumption DEF WorkerAssumption
    <3>2. \A x \in Held(w)' : x.job = j => Numbered(x) = job[j].attempts + 1
      BY <1>3, <1>5
    <3>3. job[j].attempts + 1 >= MaxAttempts[j] => ~(job[j].attempts + 1 < MaxAttempts[j])
      BY <1>1, <3>1
    <3> QED
      BY <3>2, <3>3 DEF Retriers
  <2>3. /\ Claimable(j)
        /\ job'[j].attempts = job[j].attempts + 1 /\ lapsed'[j] = lapsed[j]
        /\ job'[j].status = "running" /\ ~job'[j].expired
    BY <1>4, <1>7 DEF Takes, RowIs
  <2> QED
    BY <1>6, <2>1, <2>2, <2>3 DEF Gains
<1>8. CASE j \notin S
  <2>1. \A x \in B : x.job # j
    BY <1>3, <1>8
  <2>2. Holders(j)' \subseteq Holders(j) /\ Retriers(j)' \subseteq Retriers(j)
    BY <1>5, <2>1 DEF Holders, Retriers
  <2>3. job'[j] = job[j]
    BY <1>8 DEF Takes
  <2> QED
    BY <1>4, <2>2, <2>3 DEF Loses
<1> QED
  BY <1>7, <1>8

LEMMA WritesSettles ==
  ASSUME TypeOK, ClaimInv, NEW j \in Jobs, NEW w \in Workers, NEW x \in Claims,
         NEW s \in Statuses, Writes(w, x, s)
  PROVE  Loses(j) \/ Settles(j, w)
<1>1. /\ worker[w].batch \in SUBSET Claims /\ x \in Held(w)
      /\ \A y : y \in Held(w) <=>
           y \in worker[w].batch \/ (y = worker[w].current /\ y # NoClaim)
  BY WorkerFacts DEF Writes
<1>2. \A v \in Workers : Held(v)' \subseteq Held(v)
  BY ShrinkSteps
<1>3. Holders(j)' \subseteq Holders(j) /\ Retriers(j)' \subseteq Retriers(j)
  BY <1>2, HoldersSubset
<1>4. lapsed' = lapsed
  BY DEF Writes
<1>5. CASE j # x.job
  BY <1>3, <1>4, <1>5 DEF Writes, Loses
<1>6. CASE j = x.job
  <2>1. \/ x = worker[w].current /\ Held(w)' = worker[w].batch
        \/ Held(w)' = worker[w].batch \ {x}
    BY <1>1, HeldAfter DEF Writes
  <2>2. x \notin Held(w)'
    BY <2>1 DEF ClaimInv, Unrecorded
  <2>3. \A y \in Held(w)' : y.job # j
    BY <1>1, <1>2, <1>6, <2>2 DEF ClaimInv, OnePerJob
  <2>4. w \notin Holders(j)' /\ w \notin Retriers(j)'
    BY <2>3 DEF Holders, Retriers
  <2>5. w \in Holders(j)
    BY <1>1, <1>6 DEF Holders
  <2>6. /\ job'[j].attempts = job[j].attempts /\ job'[j].status = s
        /\ job'[j].due = (s # "retry_wait")
    BY <1>6 DEF Writes, RowIs
  <2>7. s \in Terminal \/ (s = "retry_wait" /\ w \in Retriers(j))
    BY <1>1, <1>6 DEF Writes, Retriers
  <2>8. s \in Terminal => job'[j].due
    BY <2>6 DEF Terminal
  <2> QED
    BY <1>3, <1>4, <2>4, <2>5, <2>6, <2>7, <2>8 DEF Settles
<1> QED
  BY <1>5, <1>6

LEMMA JobSteps ==
  ASSUME TypeOK, ClaimInv, [Next]_vars, NEW j \in Jobs
  PROVE  Loses(j) \/ Lapses(j) \/ \E w \in Workers : Gains(j, w) \/ Settles(j, w)
BY Effects, QuitsLoses, AgesSteps, RunsLoses, TakesGains, WritesSettles DEF Effect

LEMMA Counting ==
  ASSUME NEW A \in SUBSET Workers, NEW B \in SUBSET Workers, NEW w \in Workers
  PROVE  /\ Cardinality(A) \in Nat
         /\ B \subseteq A => Cardinality(B) <= Cardinality(A)
         /\ B \subseteq A \cup {w} => Cardinality(B) <= Cardinality(A) + 1
         /\ w \in A /\ B \subseteq A \ {w} => Cardinality(B) + 1 <= Cardinality(A)
<1>1. \A S \in SUBSET Workers : IsFiniteSet(S) /\ Cardinality(S) \in Nat
  BY FS_Subset, FS_CardinalityType, WorkerAssumption DEF WorkerAssumption
<1>2. \A S, T \in SUBSET Workers : T \subseteq S => Cardinality(T) <= Cardinality(S)
  BY <1>1, FS_Subset
<1>3. A \cup {w} \in SUBSET Workers /\ Cardinality(A \cup {w}) <= Cardinality(A) + 1
  BY <1>1, FS_AddElement
<1>4. w \in A => /\ A \ {w} \in SUBSET Workers
                 /\ Cardinality(A \ {w}) = Cardinality(A) - 1
  BY <1>1, FS_RemoveElement
<1> QED
  BY <1>1, <1>2, <1>3, <1>4

LEMMA CountsOf ==
  /\ \A j : Holders(j) \in SUBSET Workers /\ Retriers(j) \in SUBSET Workers
            /\ Retriers(j) \subseteq Holders(j)
  /\ \A j : Holders(j)' \in SUBSET Workers /\ Retriers(j)' \in SUBSET Workers
BY DEF Holders, Retriers

LEMMA LeaseStep ==
  ASSUME TypeOK, ClaimInv, LeaseInv, [Next]_vars
  PROVE  LeaseInv'
<1> SUFFICES ASSUME NEW j \in Jobs
             PROVE  /\ Cardinality(Holders(j)') <= 1 + lapsed'[j]
                    /\ Free(j)' => Cardinality(Holders(j)') <= lapsed'[j]
  BY DEF LeaseInv
<1> DEFINE h == Cardinality(Holders(j))
           k == Cardinality(Holders(j)')
<1>1. /\ h \in Nat /\ k \in Nat /\ lapsed[j] \in Nat
      /\ Holders(j)' \subseteq Holders(j) => k <= h
      /\ \A w \in Workers : Holders(j)' \subseteq Holders(j) \cup {w} => k <= h + 1
      /\ \A w \in Workers :
           w \in Holders(j) /\ Holders(j)' \subseteq Holders(j) \ {w} => k + 1 <= h
  <2>1. h \in Nat /\ k \in Nat /\ lapsed[j] \in Nat
    BY CountsOf, JobFacts, FS_Subset, FS_CardinalityType, WorkerAssumption
    DEF WorkerAssumption
  <2>2. Holders(j)' \subseteq Holders(j) => k <= h
    BY CountsOf, FS_Subset, WorkerAssumption DEF WorkerAssumption
  <2>3. ASSUME NEW w \in Workers
        PROVE  /\ Holders(j)' \subseteq Holders(j) \cup {w} => k <= h + 1
               /\ w \in Holders(j) /\ Holders(j)' \subseteq Holders(j) \ {w} => k + 1 <= h
    BY CountsOf, Counting
  <2> QED
    BY <2>1, <2>2, <2>3
<1>2. h <= 1 + lapsed[j] /\ (Free(j) => h <= lapsed[j])
  BY DEF LeaseInv
<1> HIDE DEF h, k
<1>3. CASE Loses(j)
  <2>1. Free(j)' => Free(j)
    BY <1>3 DEF Loses, Free
  <2> QED
    BY <1>1, <1>2, <1>3, <2>1 DEF Loses, k
<1>4. CASE Lapses(j)
  BY <1>1, <1>2, <1>4 DEF Lapses, k
<1>5. ASSUME NEW w \in Workers, Gains(j, w)
      PROVE  /\ Cardinality(Holders(j)') <= 1 + lapsed'[j]
             /\ Free(j)' => Cardinality(Holders(j)') <= lapsed'[j]
  <2>1. Free(j) /\ ~Free(j)'
    BY <1>5 DEF Gains, Free, Claimable
  <2> QED
    BY <1>1, <1>2, <1>5, <2>1 DEF Gains, k
<1>6. ASSUME NEW w \in Workers, Settles(j, w)
      PROVE  /\ Cardinality(Holders(j)') <= 1 + lapsed'[j]
             /\ Free(j)' => Cardinality(Holders(j)') <= lapsed'[j]
  BY <1>1, <1>2, <1>6 DEF Settles, k
<1> QED
  BY <1>3, <1>4, <1>5, <1>6, JobSteps

LEMMA RetryStep ==
  ASSUME TypeOK, ClaimInv, LeaseInv, RetryInv, [Next]_vars
  PROVE  RetryInv'
<1> SUFFICES ASSUME NEW j \in Jobs, job'[j].attempts >= MaxAttempts[j]
             PROVE  /\ job'[j].attempts + Cardinality(Retriers(j)')
                         <= MaxAttempts[j] + lapsed'[j]
                    /\ Open(j)' =>
                         job'[j].attempts + Cardinality(Retriers(j)')
                           < MaxAttempts[j] + lapsed'[j]
  BY DEF RetryInv
<1> DEFINE h == Cardinality(Holders(j))
           r == Cardinality(Retriers(j))
           q == Cardinality(Retriers(j)')
           n == job[j].attempts
           m == MaxAttempts[j]
<1>1. h \in Nat /\ r \in Nat /\ q \in Nat /\ r <= h /\ lapsed[j] \in Nat /\ n \in Nat
      /\ m \in Nat
  BY CountsOf, JobFacts, FS_Subset, FS_CardinalityType, WorkerAssumption
  DEF WorkerAssumption
<1>2. Retriers(j)' \subseteq Retriers(j) => q <= r
  BY CountsOf, FS_Subset, WorkerAssumption DEF WorkerAssumption
<1>3. ASSUME NEW w \in Workers
      PROVE  w \in Retriers(j) /\ Retriers(j)' \subseteq Retriers(j) \ {w} => q + 1 <= r
  BY CountsOf, Counting
<1>4. n >= m => n + r <= m + lapsed[j] /\ (Open(j) => n + r < m + lapsed[j])
  BY DEF RetryInv
<1>5. Free(j) => h <= lapsed[j]
  BY DEF LeaseInv
<1> HIDE DEF h, r, q, n, m
<1>6. CASE Loses(j)
  <2>1. Open(j)' => Open(j)
    BY <1>6 DEF Loses, Open, Free, Terminal
  <2> QED
    BY <1>1, <1>2, <1>4, <1>6, <2>1 DEF Loses, n, q, m
<1>7. CASE Lapses(j)
  BY <1>1, <1>2, <1>4, <1>7 DEF Lapses, n, q, m
<1>8. ASSUME NEW w \in Workers, Gains(j, w)
      PROVE  /\ job'[j].attempts + q <= m + lapsed'[j]
             /\ Open(j)' => job'[j].attempts + q < m + lapsed'[j]
  <2>1. Open(j) /\ Free(j) /\ ~Open(j)'
    BY <1>8 DEF Gains, Open, Free, Claimable, Terminal
  <2>2. job'[j].attempts = n + 1 /\ lapsed'[j] = lapsed[j] /\ n + 1 >= m
    BY <1>8 DEF Gains, n, m
  <2>3. q <= r
    BY <1>2, <1>8, <2>2 DEF Gains, n, m
  <2>4. CASE n >= m
    BY <1>1, <1>4, <2>1, <2>2, <2>3, <2>4
  <2>5. CASE n + 1 = m
    BY <1>1, <1>5, <2>1, <2>2, <2>3, <2>5
  <2> QED
    BY <1>1, <2>2, <2>4, <2>5
<1>9. ASSUME NEW w \in Workers, Settles(j, w)
      PROVE  /\ job'[j].attempts + q <= m + lapsed'[j]
             /\ Open(j)' => job'[j].attempts + q < m + lapsed'[j]
  <2>1. job'[j].attempts = n /\ lapsed'[j] = lapsed[j] /\ n >= m /\ q <= r
    BY <1>2, <1>9 DEF Settles, n, m
  <2>2. Open(j)' => q + 1 <= r
    BY <1>3, <1>9 DEF Settles, Open
  <2> QED
    BY <1>1, <1>4, <2>1, <2>2
<1> QED
  BY <1>6, <1>7, <1>8, <1>9, JobSteps DEF q, m

LEMMA DueStep ==
  ASSUME TypeOK, ClaimInv, DueInv, [Next]_vars
  PROVE  DueInv'
<1> SUFFICES ASSUME NEW j \in Jobs, job'[j].status \in Terminal PROVE job'[j].due
  BY DEF DueInv
<1> QED
  BY JobSteps DEF DueInv, Loses, Lapses, Gains, Settles, Terminal

LeaseInvs == LeaseInv /\ RetryInv /\ DueInv

LEMMA LeasesAlways == Spec => []LeaseInvs
<1>1. Init => LeaseInvs
  <2> SUFFICES ASSUME Init, NEW j \in Jobs
               PROVE  /\ Cardinality(Holders(j)) <= 1 + lapsed[j]
                      /\ Cardinality(Holders(j)) <= lapsed[j]
                      /\ ~(job[j].attempts >= MaxAttempts[j])
                      /\ job[j].status \notin Terminal
    BY DEF LeaseInvs, LeaseInv, RetryInv, DueInv
  <2>1. Holders(j) = {}
    BY DEF Init, Holders, Held, Idle
  <2>2. Cardinality(Holders(j)) = 0 /\ lapsed[j] = 0
    BY <2>1, FS_EmptySet DEF Init
  <2>3. job[j].attempts = 0 /\ MaxAttempts[j] \in Nat \ {0}
    BY WorkerAssumption DEF Init, WorkerAssumption
  <2> QED
    BY <2>2, <2>3 DEF Init, Terminal
<1>2. TypeOK /\ ClaimInv /\ LeaseInvs /\ [Next]_vars => LeaseInvs'
  BY LeaseStep, RetryStep, DueStep DEF LeaseInvs
<1> QED
  BY <1>1, <1>2, TypeCorrect, ClaimAlways, PTL DEF Spec

\* One process works on a job, and each lapse of a lease lets in one more at most,
\* whatever was written over the row by those who had lost theirs.
THEOREM LeasesCorrect == Spec => []LeaseExcludes
<1>1. LeaseInvs => LeaseExcludes
  BY DEF LeaseInvs, LeaseInv, LeaseExcludes
<1> QED
  BY <1>1, LeasesAlways, PTL

\* A job is started max_attempts times at most and once more for each lapse, even
\* when a process whose claim is long superseded puts the job back for a retry.
THEOREM RetriesCorrect == Spec => []RetriesBounded
<1>1. TypeOK /\ LeaseInvs => RetriesBounded
  <2> SUFFICES ASSUME TypeOK, LeaseInvs, NEW j \in Jobs
               PROVE  job[j].attempts <= MaxAttempts[j] + lapsed[j]
    BY DEF RetriesBounded
  <2>1. /\ job[j].attempts \in Nat /\ lapsed[j] \in Nat /\ MaxAttempts[j] \in Nat
        /\ Cardinality(Retriers(j)) \in Nat
    BY CountsOf, JobFacts, FS_Subset, FS_CardinalityType, WorkerAssumption
    DEF WorkerAssumption
  <2>2. job[j].attempts >= MaxAttempts[j] =>
          job[j].attempts + Cardinality(Retriers(j)) <= MaxAttempts[j] + lapsed[j]
    BY DEF LeaseInvs, RetryInv
  <2> QED
    BY <2>1, <2>2
<1> QED
  BY <1>1, TypeCorrect, LeasesAlways, PTL

\* An outcome is overwritten only by a process that still runs the job after another
\* lease of it expired.
THEOREM OutcomesCorrect == Spec => OutcomeIsFinal
<1> DEFINE Final ==
      \A j \in Jobs :
       (job[j].status \in Terminal /\ job'[j] # job[j]) =>
         /\ lapsed[j] > 0
         /\ \E w \in Workers : \E x \in Held(w) : x.job = j
<1>1. TypeOK /\ ClaimInv /\ LeaseInvs /\ [Next]_vars => [Final]_vars
  <2> SUFFICES ASSUME TypeOK, ClaimInv, LeaseInvs, [Next]_vars, NEW j \in Jobs,
                      job[j].status \in Terminal, job'[j] # job[j]
               PROVE  /\ lapsed[j] > 0
                      /\ \E w \in Workers : \E x \in Held(w) : x.job = j
    OBVIOUS
  <2>1. job[j].due
    BY DEF LeaseInvs, DueInv
  <2>2. PICK w \in Workers : w \in Holders(j)
    BY <2>1, JobSteps DEF Loses, Lapses, Gains, Settles, Claimable, Terminal
  <2>3. Cardinality(Holders(j)) <= lapsed[j]
    BY DEF LeaseInvs, LeaseInv, Free, Terminal
  <2>4. Cardinality({}) + 1 <= Cardinality(Holders(j))
    BY <2>2, CountsOf, Counting
  <2>5. lapsed[j] > 0
    BY <2>3, <2>4, CountsOf, Counting, FS_EmptySet, JobFacts
  <2> QED
    BY <2>2, <2>5 DEF Holders
<1> QED
  BY <1>1, TypeCorrect, ClaimAlways, LeasesAlways, PTL DEF Spec, OutcomeIsFinal, Final
================================================================================
