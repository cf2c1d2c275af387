# Verification of the Hazard Response Control Plane

TLA+ models of the services in `src/`, model-checked with TLC, and theorems about
them proved with TLAPS. Paths below are relative to `src/`.

## 1. The system

One Go process (`cmd/server/main.go`) serves a JSON API and polls a table of jobs.
All state is in one SQLite database in WAL mode, which other processes of the same
program may share. A request passes `internal/httpapi` (decoding, authentication) and
reaches a service; the service calls the store (`internal/store/sqlite`). The API routes
most of what the services offer; completing a step, cancelling a plan, moving an incident and
sending a batch of observations have no route yet (`internal/httpapi/server.go:56`). The
modules are about the services.

Nearly every handler has the same shape, and the shape is what the models are about:

1. the service **reads** rows and checks role, region, status, deadline, outside any
   transaction;
2. one store function opens **one transaction**, rechecks *part* of that (usually a
   version and a status in the `WHERE` of an `UPDATE`), writes, appends the audit event,
   and commits, or rolls everything back;
3. the answer is read again after the commit, or is lost with the connection.

Anything may commit between 1 and 2. What the transaction rechecks is therefore what
the system guarantees.

### Inventory

| Component | State | Operations | Hard part | Must hold |
|---|---|---|---|---|
| Evacuation (`internal/evacuation`, `store/sqlite/evacuation.go`) | shelters with a counter `reserved`, plans, ordered steps, one reservation per plan | register shelter, create, submit, approve, start, complete step, complete, cancel | counter moved by deltas in two transactions; stale versions; approvals race | never more beds promised than exist; beds neither lost nor given back twice; steps in order |
| Dispatch (`internal/dispatch`, `store/sqlite/dispatch.go`) | units, resource requests, deployments | register unit, create, approve, allocate, move a deployment | two rows claimed in one transaction, each by its version; a request settled by counting | a unit serves once at a time; a request's status tells how many units serve it |
| Incidents (`internal/hazard`, `store/sqlite/hazard.go`) | incidents, zones | activate, transition, list in pages | open work counted outside the transaction; only the version rechecked; pages ordered by a column that changes | status follows its table; closed only when quiet; a list is whole |
| Worker (`internal/worker`) | jobs, attempts, leases | recover, claim, record, run, finish | leases that lapse under a live handler, crashes, ignored errors | exclusion up to lapses; bounded retries; every job settles |
| Sessions (`internal/identity`, `store/sqlite/identity.go`) | sessions | login, authenticate and touch, logout, purge | no transaction at all; conflicts are swallowed; times compared as text | a logout holds; nobody enters after the end |
| Users, bootstrap (`internal/identity/bootstrap.go`) | users | register, bootstrap | processes race for the first commander, and with commanders who register users | a name is taken once; there is a commander |
| Migrations (`internal/migrate`, `store/sqlite/db.go`) | ledger of applied versions | apply | processes race, die half way, differ in release | each applied once, in order; nobody serves over a schema that is not its own |
| Regions, sensors, observations (`internal/hazard`, `store/sqlite/hazard.go`) | rows, unique sequence per sensor | register, ingest, batch | no transaction; batches that stop half way and are sent again | one observation per sequence; every answer agrees with the table |
| Idempotency (`internal/idempotency`) | one record per key | begin, complete, fail, expire | a retry races the original | one execution per key |
| Audit (`internal/audit`, `store/sqlite/audit.go`) | append-only events | append, search with a cursor | events made before the transaction; two formats of time | the events tell what happened; the next page can be read |
| Outbox (`store/sqlite/hazard.go`) | pending rows | insert | none is read yet | each activation is announced |
| HTTP, configuration, clock, errors | none | | | |

Interactions: evacuation and dispatch read the status of incidents when work is
created; the closure of an incident counts open plans and active deployments; the job
`session.cleanup` calls the session purge; everything else shares only the database.

## 2. The modules

| Module | Models | Used by |
|---|---|---|
| `Lifecycle` | the five status tables of the Go models, roles | all but `Clock`, `Worker`, `Sessions`, `Observations` |
| `Clock` | the order of times as RFC3339Nano text | `Sessions`, `IncidentRecords` |
| `ShelterLedger` | *abstract*: owners take, give back or use up blocks of beds | `Evacuation` implements it |
| `Evacuation` | evacuation service and store | `Response` |
| `UnitPool` | *abstract*: units serve requests one at a time | `Dispatch` implements it |
| `Dispatch` | dispatch service and store | `Response` |
| `Incidents` | incidents of the hazard service and store | `IncidentRecords`, `Response` |
| `IncidentRecords` | `Incidents` with its times, audit events and outbox rows, and the clients that page through incidents and audit events | |
| `Observations` | regions, sensors, and batches of observations that gateways send again | |
| `Response` | the three services over one database | |
| `Worker` | the job runner, several processes | |
| `Sessions` | login, authentication, logout, purge | |
| `Startup` | migrations, bootstrap and registration of users by several processes | |
| `MC*` | instances for TLC, one or two `.cfg` each | |
| `EvacuationProofs`, `DispatchProofs`, `IncidentsProofs`, `ObservationsProofs`, `WorkerProofs`, `SessionsProofs`, `StartupProofs` | theorems about the module they are named after; `IncidentsProofs` also about `IncidentRecords` | |
| `ResponseProofs` | that the three services compose, so that their theorems hold of the whole | |

### How they correspond to the code

**Tables are functions.** A table is a function from ids to rows; an id that was not
handed out yet maps to `NoPlan`, `NoUnit` and so on. Columns that no property tells apart
(names, timestamps, coordinates) are left out. Nothing is ever deleted from these tables.

**Requests are frames.** `frame[c]` is the request that client slot `c` has in flight.
`BeginX(c)` is the service function up to the store call: its guard is the conjunction of
the service's checks, and it records what the store call is given. The action named as the
store function is its transaction, with exactly the conditions its statements repeat.
`RollBack(c)` is every other way out: a recheck that fails, a cancelled context, a busy
database, a dead process. A caller quotes the version it read, the present one or one up
to `MaxLag` older (`Quoted`); that covers stale screens and retries of a request whose answer
was lost after the commit.

**Where a handler reads more than one row before its transaction** the model reads them in
one step. That loses no behaviour: the rows that matter are rechecked by the transaction
or change monotonically (steps once done stay done, a deadline once passed stays passed,
a unit's type and region never change).

**A transaction is one step** because SQLite admits one writer at a time and refuses a
transaction that read a snapshot which another has since overwritten.

`Evacuation`: `shelter`, `plan`, `reservation` are the tables of
`migrations/002_operations.sql`; `done[p]` is the set of completed steps. `late` and
`operational` stand for the clock and for the incidents. The transaction of
`CompleteStep` looks at the steps alone, and so does the action.

`Dispatch`: as above with units, requests and deployments. A unit's type and capability are
one value, a "skill".

`Incidents`: the transition takes up to three steps, the count of open work being a query
of its own. `busy` stands for that work.

`IncidentRecords`: each action is one of `Incidents` conjoined with what the same transaction
writes beside the row. The audit event is made by the service, so it tells the status that was
*read* and a time between the last reading of the clock and the commit. `trail` is the table
`audit_events`, its rows grouped by action and `object_id`. A transition's event bears the id of the
incident (`hazard/service.go:252`); an activation's is made before there is an id, and bears the
external reference as the command has it (`:209`). The row has the reference trimmed, unique within
its region only (`001_core.sql:91`), which is the guard `KeyIsFree` of `Activate`; a reference is a
name that has spaces around it or not. So `trail` does not say whose an activation is when two
regions use one reference, and `AuditTellsTheStory` claims no more than the table holds: *an*
activation under the reference, continued by the transitions under the id, is the story of the
incident; there are as many activations as incidents that bear the reference; and those are of
different regions. A reader's `walk` is the list that a client fetches page by page: `before`
is what matched when it began, `seen` what it was shown. The `total` of a page and the filters
of an audit search are left out.

`Observations`: a batch is a frame that goes through its items; each is a read of the sensor,
an `INSERT`, and after a violation of the unique key a `SELECT` and a comparison, all in
statements of their own. What a resent observation must repeat is a `body`; its quality, which
is not compared, is beside it. Gateways are outside the code: a gateway repeats a batch whose
answer was lost or in which an item failed or was cancelled, and takes every other result for
final.

`Response`: instantiates the three modules over shared variables: `operational` becomes the
incidents that are active or stabilizing, and `busy` the incidents with open plans or active
deployments.

`Worker`: each SQL statement is a step, since the runner uses no transaction beyond that of
`Claim`. Time is abstract: a job becomes `due` and a lease `expired` when the environment
says. Errors that the code discards are the actions `RecoverFails`, `ClaimFails`,
`RecordFails`, `FinishFails`. `lapsed[j]` counts the leases of `j` that expired.

`Sessions`: every statement and every reading of the clock is a step. Times are numbers of
half seconds; `Text` gives the place of a time among its RFC3339Nano texts, which SQL
compares. Go compares the times themselves.

`Startup`: `ledger` is the table `schema_migrations`, `schema` the history of the SQL that ran,
`process[p]` where `p` is in `run` of `cmd/server/main.go` and which versions its one reading of
the ledger showed as applied. `applyOne` is one step, being a transaction; it fails when another
process has applied the version meanwhile, on the tables that exist already or on the primary
key of the ledger. `users` is the table of that name; processes may be configured with different
names, or without a password, and then create nobody. Where the code looks for the winner after
a conflict, the model goes back to `FindUserByUsername`.

## 3. What the runs check

| Run | Instance | Shows |
|---|---|---|
| `evacuation` | 2 commanders, 2 plans of 1 or 2 people and 2 steps, 1 shelter of 2 beds, versions 1 behind | type correctness; the counter equals the beds held; no overbooking; reservations follow plans; steps in order; versions name states; the lifecycle; `ShelterLedger` is implemented |
| `evacuation_steps` | the same | **violated**, see findings |
| `dispatch` | a commander and an operator, 2 calls in flight, 2 requests of quantity 2, 2 units, 3 deployments, present versions | a unit serves once; statuses count units; versions count changes; lifecycles; `UnitPool` is implemented |
| `incidents` | 2 commanders, an auditor, 3 incidents with one reference, 2 of one region and 1 of another, pages of 1, clock of 2 ticks, one incident at a time with open work | versions name states; the lifecycle; lists are whole; the audit events tell the whole story of each incident, and count its namesakes |
| `audit_pages` | as `incidents`, with 2 incidents | **violated**, see findings |
| `observations` | 2 gateways, 2 regions whose codes coincide, 3 sensors, 3 overlapping batches of 2, 2 mishaps | an observation is created once, answers agree with the table, and every batch settles |
| `response` | 1 call in flight per service, 1 incident, plan, unit, request, deployment | each service keeps its own specification in the whole |
| `response_closure` | the same | **violated**, see findings |
| `worker` | 2 processes, 3 jobs (`max_attempts` 2, 1, and one without handler), batch of 2, 2 mishaps | exclusion, distinct attempts, bounded retries, final outcomes, and that every job settles |
| `worker_attempts` | 1 process, the same jobs | **violated**, see findings |
| `sessions` | 2 requests at a time, 2 sessions, expiry after 3 half seconds, touch after 1, purge of 1, 5 half seconds | logout holds, no entry after the end, touches spaced, revocations justified |
| `startup` | 2 processes of one release of 3 migrations, 1 of the release before it, 1 of a branch with another second migration; 2 user names, one of which commanders may register first; 2 mishaps | migrations run once and in order; nobody serves over another schema; a user name is taken once and there is a commander; every process that fits comes up |

### Bounds, and why they suffice

The races are between two requests: one that has read and one that commits in between; two slots
interleave every such pair, and each of them may run any operation and be followed by others.
Two plans that together exceed one shelter (2 + 1 > 2) are the least that can overbook, and 1 +
1 the least that fills it. Three deployments of two units let a unit come back and serve again,
and two requests of quantity 2 for two units make one allocation wait for the other's units,
pass through `partially_allocated`, and be fulfilled while the other still is not. Quoting an
older version would only make the transaction fail that compares it: run `evacuation` has
`MaxLag` 1, `dispatch` the racing version that comes from the other call in flight.
`Incidents!MaxVersion` is 3 in `incidents`: an activation and two transitions, so that two
commanders race for each of them, and the instance of `Response` has 4, which takes the loop between
active and stabilizing once around. The three incidents of `incidents` are the least that meet both sides of the
unique key: of two in one region one is refused, and one of another region has an activation that
cannot be told from theirs. Open work matters to a closure only through the incident that is being
closed, so `OneBusy` lets one incident at a time have some. The list that is fetched is that of the
active incidents, which they leave and come back to. The clock of `incidents` shows a whole second and
the half second after it, which is the pair whose texts are in the wrong order, and a page of 1
makes every list a walk over a cursor. The batches of `observations` hold every
case: a sequence repeated with the same data, with another quality and with other data, by the
same gateway and by the other, a sensor of a region the gateway may not report, a time still
ahead; `Worker!MaxMishaps` = 2 permits a lapse and then a crash of the process that took over;
`Sessions!MaxTime` lets a session be touched twice and expire, at whole and half seconds. In
`startup` two processes of one release race for every migration, a third falls behind the schema
and a fourth contradicts it; two mishaps let the loser of a race die again after its restart.
Model values that only rename one another are declared symmetric where no liveness is checked.

Deadlock is checked for the worker, which polls for ever. The other instances stop when their
ids, their clock or their mishaps are used up, so their configurations say `CHECK_DEADLOCK FALSE`.

### Fairness

Only `JobsSettle`, `EveryoneStarts` and `BatchesSettle` need it. `Worker!FairSpec` assumes that
a process that can take a regular step takes one (the ticker of `Worker.Run` fires for ever,
handlers return, and a process that died is started again), that time passes (a job becomes due,
a lease expires once nobody live holds the job), and nothing about mishaps, of which there are
finitely many. A handler that never returns would keep a job for ever: the code gives it no
timeout, so its return is an assumption about `PurgeExpired`, one SQL statement.

`Startup!FairSpec` assumes that every process runs and, when `main` has exited with an error, is
started again by whatever supervises it; the code itself never retries. Under that assumption
losing a race costs a restart and no more.

`Observations!ObservationsSpec` assumes that a handler that was called runs to its end, as a loop of
statements does, and that its gateway sends again what was not answered; that is an assumption about
the gateway, the code cannot make it. Mishaps are finitely many.

## 4. Where the code and its words differ

- **`evacuation_steps`** — `service.go:211` refuses a step unless the plan is executing:
  "steps can complete only while plan is executing". The transaction
  (`store/sqlite/evacuation.go:373`) does not repeat it. TLC: a step is begun, another
  commander cancels the plan, the step is recorded as completed.
- **`worker_attempts`** — `README.md:10` promises "bounded retries", and a job has
  `max_attempts`. It is compared only when a handler has returned (`worker.go:85`). TLC: the
  process crashes while it runs a job whose only attempt this is; after the lease the job is
  claimed and run again. What does hold is `RetriesBounded`: one claim more per lapse.
- **`response_closure`** — `hazard/service.go:244` refuses to close an incident that "has
  active evacuation plans or deployments". The count is not part of the transaction. TLC: the
  count finds nothing, a plan is submitted, the incident closes. Neither `Submit` nor `Allocate`
  looks at the incident again, so work also starts after the closure.
- **`audit_pages`** — `README.md:14`: "`GET /v1/audit-events` exposes filtered cursor-ordered audit
  evidence to commanders and auditors". The cursor of a page holds its time as `Time.String()`
  writes it (`store/sqlite/audit.go:112`), and is parsed as RFC3339Nano (`:130`). TLC: two events, a
  page of one, and the next page is refused. The test of the cursors encodes a text of the right
  format, which `Search` does not.

Four more things are worth knowing that no doc denies. `Activate` gives its audit event the external
reference of the command for an object (`hazard/service.go:209`), unique within its region only, and
an event names no region: two incidents of different regions are activated with one reference, and
their events bear the same object. Nor does a search by the incident's id, which the transitions
bear, find its activation. A resent observation with another quality
is a duplicate, so a quality is never corrected. A name that a commander registered with another
role stays what it is when a process bootstraps it as commander; `UsersHaveACommander` therefore
says only that *some* user is one. And a list of incidents may miss one that moved while it was
read: `WalksAreWhole` promises those that stood still.

## 5. What is proved

Every safety property that a passing run checks is also a theorem, of the same definition and
for every value of the constants that the module's `ASSUME` allows. The theorems of a module are
about its safety specification `Spec` (`RecordsSpec` in `IncidentRecords`, `ObservationsSpec` in
`Observations`), which the specification with fairness of a run implies.

| Module | Theorem | States |
|---|---|---|
| `EvacuationProofs` | `TypeCorrect` | `Spec => []TypeOK` |
| | `LifecycleCorrect` | `Spec => PlanFollowsLifecycle` |
| | `VersionsCorrect` | `Spec => []VersionNamesState` |
| | `ReservationsCorrect` | `Spec => []ReservationFollowsPlan` |
| | `CounterCorrect` | `Spec => []ReservedCountsBeds` |
| | `NeverOverbooked` | `Spec => []NoOverbooking` |
| | `StepsCorrect` | `Spec => []StepsInOrder` |
| | `LedgerImplemented` | `Spec => ImplementsLedger`: the refinement of `ShelterLedger` |
| `DispatchProofs` | `TypeCorrect` | `Spec => []TypeOK` |
| | `UnitsCorrect` | `Spec => []UnitsServeOnce` |
| | `RequestsCorrect` | `Spec => []RequestCountsUnits` |
| | `VersionsCorrect` | `Spec => []VersionsCountChanges` |
| | `LifecyclesCorrect` | `Spec => LifecyclesFollowed` |
| | `PoolImplemented` | `Spec => ImplementsPool`: the refinement of `UnitPool` |
| `IncidentsProofs` | `TypeCorrect` | `Spec => []TypeOK` |
| | `LifecycleCorrect` | `Spec => IncidentFollowsLifecycle` |
| | `VersionsCorrect` | `Spec => []VersionNamesStatus` |
| | `RecordsImplementIncidents` | `RecordsSpec => Spec`, which carries these three over |
| | `RecordsTypeCorrect` | `RecordsSpec => []RecordsTypeOK` |
| | `AuditCorrect` | `RecordsSpec => []AuditTellsTheStory` |
| | `WalksCorrect` | `RecordsSpec => []WalksAreWhole` |
| `ObservationsProofs` | `TypeCorrect` | `ObservationsSpec => []ObservationsTypeOK` |
| | `AnswersCorrect` | `ObservationsSpec => []AnswersHold` |
| `ResponseProofs` | `ServicesCompose` | `Spec => ServicesInContext` |
| `WorkerProofs` | `TypeCorrect` | `Spec => []TypeOK` |
| | `AttemptsCorrect` | `Spec => []AttemptsDistinct` |
| | `LeasesCorrect` | `Spec => []LeaseExcludes` |
| | `RetriesCorrect` | `Spec => []RetriesBounded` |
| | `OutcomesCorrect` | `Spec => OutcomeIsFinal` |
| `SessionsProofs` | `TypeCorrect` | `Spec => []TypeOK` |
| | `LogoutsCorrect` | `Spec => []LogoutIsEffective` |
| | `EntriesCorrect` | `Spec => []NoEntryAfterEnd` |
| | `TouchesCorrect` | `Spec => []TouchesSpaced` |
| | `RevocationsCorrect` | `Spec => RevokedForAReason` |
| `StartupProofs` | `TypeCorrect` | `Spec => []TypeOK` |
| | `SchemaCorrect` | `Spec => []SchemaInOrder` |
| | `ServersCorrect` | `Spec => []ServesItsSchema` |
| | `UsersCorrect` | `Spec => []UsersHaveACommander` |

Each is proved from the assumptions of its module and nothing else. They say that what is counted
is finite (the ids of plans, units, deployments, incidents, sessions, the processes), that numbers
are in the range that the services validate (capacities and group sizes positive, 2 to 30 steps,
quantities up to 100, pages and batches of 1 to 100), that roles are roles, and that a value that
stands for "none" is not one of the others. References are any
values with or without spaces, and incidents of any regions may share them. The bounds that TLC needs (`MaxMishaps`, `MaxTime`,
`MaxVersion`, `MaxLag`) are any numbers there.

### The arguments

The proofs have one plan. What a step does is described once, by an effect that says row by row what
changes (`Effects`, `StepEffect` and the like, one case per action); each invariant is then shown
from the effects. An inductive invariant below is one whose preservation needs nothing but the
invariants named with it.

**Evacuation.** `TypeOK` is inductive by itself because it also says that a frame's plan was
inserted. `PlanMovesOnly` shows that every step leaves each plan alone, inserts it, or moves it
along one edge with one version more; the lifecycle is that lemma, and the versions follow by
induction over the edges. `ReservationFollowsPlan` is inductive given `TypeOK`: approval finds
no reservation because a submitted plan has none, and cancellation finds an active one exactly
if it has beds to return. `ReservedCountsBeds` is inductive only together with it: beds are a
set of pairs ⟨plan, number⟩, approval adds a block disjoint from the others, cancellation
removes a block, and `Cardinality` adds up because the holders are finitely many; that is
where the agreement of the reservation's shelter and size with the plan's is needed, since the
code subtracts from the shelter of the *plan*. `NoOverbooking` is then the guard
`capacity - reserved >= n` read through the counter. `StepsInOrder` needs a strengthening about
requests in flight: a frame that completes a step was begun when its plan had started, and
statuses never go back. The refinement maps `capacity` to the column and `claim` to the
reservation; each transaction is one step of the ledger or a stutter, by the two invariants.

**Dispatch.** The sets that the properties count (deployments that hold a unit, that serve a request,
that ever named one) change by at most one deployment in a step: the lemmas `CountsAfterAllocation`,
`CountsAfterProgress` and `CountsAfterEnd` say by which. `UnitsServeOnce` is inductive over them.
`RequestCountsUnits` is inductive too, and needs no version: a request that is fulfilled has no active
deployment left, so the settlement, which looks at the status alone, can never meet it again.
`VersionsCountChanges` follows in the same way. The refinement of `UnitPool` reads the request that a
unit serves off the one deployment that holds it; `ServingIsActive` is the bijection between the
units that serve a request and its active deployments that makes the pool's count that of the code.

**Incidents.** The transaction compares only the version, so everything rests on what a frame still
knows when the version matches (`Fresh`): its version is at most the row's, and if they are equal
then the move that it was allowed is still in the table. With times and events the same idea becomes
`FrameKnows`: if the versions match, the status that the event will tell is the row's, and the
reading of the clock is not before the last event. `AuditTellsTheStory` (`Story`) is inductive with it,
in three parts: a transition continues the story of the incident whose id it bears (`StoryGrows`), and
leaves every other one as it is told, since events are only added (`ToldStays`); an activation adds
one event and one namesake (`CountsInsert`), and that one is of another region than the others, for
the key was free (`ApartInsert`). References are arbitrary: nothing keeps two regions from sharing one.

**Paging.** `WalksAreWhole` is about a list that others move under the reader. The places of incidents
(text of the update time, then id) are shown to be a strict total order, so that ranks in a finite set
run from 0 without a gap and a page is what ranks below `PageSize`. `WalkHolds` then says that the
rows seen are of versions that were current, those that still are lie before the cursor, and an
incident that matched when the walk began and has not moved is seen or still to come. It holds
although the text order of times is not that of time: an incident that moves has a new version,
wherever it lands.

**Observations.** Rows are never changed, so an answer that was true stays true. `Known` carries over
what a handler has read between its statements: the sensor is there when it inserts, the row is there
when it compares. `Pending` bounds the results by the batch, so that every result has its item.

**Response.** Inductive: the rows that count as open work are typed and name an incident for good, an
active deployment's request was inserted, and a draft in flight is a draft. From it a step of
evacuation or of dispatch makes at most one incident busy or quiet (`OnlyAbout`), and a step on incidents
makes at most one operational or not; those are the environment steps that the modules allow, and the
rest is stuttering. What `EvacuationProofs`, `DispatchProofs` and `IncidentsProofs` show of each
module alone therefore holds of the three over one database.

**Worker.** `AttemptsDistinct` is inductive as `ClaimInv`: each claim's number was given out, a process
has one claim for each job, no two processes have the same number, and what is still to run is not in
the history. `LeaseExcludes` alone is not inductive: a job whose lease has lapsed could be claimed once
too often. `LeaseInv` adds that a job without a running lease has one holder *fewer*, the place of the
claim to come. `RetriesBounded` needs a balance (`RetryInv`): once the attempts are used up, each
holder whose failure would be retried, and the job itself while it is open, is paid for by a lapse.
`OutcomeIsFinal` uses `LeaseInv` (whoever holds a job that is settled has lost a lease) and that a
settled job is due, so that time does nothing to it.

**Sessions.** `TypeOK` says that a row read by a request is an older version or the row itself.
`LogoutIsEffective` is inductive with `revoked` never being reset; `NoEntryAfterEnd` with what a frame
that has read an unrevoked row knows of its time; `TouchesSpaced` with `TouchDue`: a request that is
about to renew found the gap over in the row that it read, and its version makes that the row that it
writes. `RevokedForAReason` needs one fact of the text order: texts out of order are of one second.

**Startup.** `SchemaInv`: the schema is a prefix of the versions in order, and what each process takes
for applied is a prefix of it that agrees with its release. So the next version to apply is the one
after those it knows, and applying it fails or extends the prefix. `UsersHaveACommander` is inductive
by itself: the first user of a database comes from a bootstrap, and users are never removed.

TLC holds each property, and each inductive strengthening above, on the instances of the runs:
the runs list the properties, and a strengthening is checked by a module that extends the MC module
and the proof module, with the strengthening as the INVARIANT of the run's configuration.

### Only model-checked

`JobsSettle`, `EveryoneStarts` and `BatchesSettle` are liveness under fairness, and need `ENABLED`,
which this prover does not handle. What the recursive or counting operators compute on data is proved
only as far as the library's theorems on finite sets go; none of the modules with theorems declares a
recursive operator. The runs that expect a violation are counterexamples on one instance and need no
proof.

## 6. What is not modelled

The HTTP layer, configuration, errors: no state. Idempotency records: `main` does not build the
service and no handler calls it, so what happens between its `Begin`, `Complete` and `Fail`
would be invented. Zones: inserted with their incident. Lists other than those of incidents and
audit events: read-only, one page. The audit events of evacuation and dispatch, which are
appended in the same way as those of incidents (and whose creations likewise bear no id of the row:
`evacuation.create` has the plan's name, `resource.request` the incident's id). Changes of users: the code has none. The SQL of
the migrations: that it ran. Deadlines and `needed_by` are compared with the time that the
service read, before the transaction; the models let them pass in between and claim nothing
about it. The code never closes a shelter, never takes a unit offline and never cancels a
resource request, so those statuses stay unreachable in the models too. The connection pool,
busy waiting and the PRAGMAs that reach one connection only are covered as far as a statement
may fail.

## 7. Plan

Done: the modules `Lifecycle`, `Clock`, `Evacuation` with `ShelterLedger`, `Dispatch` with `UnitPool`,
`Incidents` with `IncidentRecords`, `Observations`, `Response`, `Worker`, `Sessions`, `Startup`, and the
safety properties of all of them as theorems.

Next: state theorems of the single services about `Response` itself, by instantiating their proof
modules there; what an abstract specification promises by itself (`ShelterLedger` never promises a bed
twice, `UnitPool` never gives a request more than it asked for) for every value of its constants; and
the facts about places and ranks in `IncidentsProofs` as lemmas of a module of their own, so that other
lists of the code can use them.
