-------------------------------- MODULE Startup --------------------------------
(***************************************************************************)
(* Processes that open the same database at the same time: each applies    *)
(* the migrations of its release (internal/migrate/migrate.go), then       *)
(* bootstraps a commander (internal/identity/bootstrap.go), then serves:   *)
(* commanders register users.  A process that fails or dies is started     *)
(* again.                                                                  *)
(*                                                                         *)
(* The table schema_migrations is read once; each missing migration is a   *)
(* transaction of its own, made of its SQL and its row in the table.       *)
(* Releases may be older, newer, or at odds with one another.              *)
(***************************************************************************)
EXTENDS Integers, Sequences, FiniteSets, Lifecycle

CONSTANTS
  Processes,
  Release,      \* the checksums of each process's migrations, in order
  BootstrapAdmin, \* the user name of each process's configuration, or None if it
                  \* has no password, without which main bootstraps nobody
  Usernames,
  UserRoles,    \* the roles that users are registered with
  MaxMishaps    \* bound on crashes and failed statements

Checksums == UNION {{Release[p][v] : v \in DOMAIN Release[p]} : p \in Processes}
Versions == UNION {DOMAIN Release[p] : p \in Processes}
None == "none"

ASSUME StartupAssumption ==
  /\ IsFiniteSet(Processes)
  /\ \A p \in Processes : Release[p] \in Seq(Checksums) /\ Release[p] # <<>>
  /\ None \notin Checksums \cup Usernames
  /\ BootstrapAdmin \in [Processes -> Usernames \cup {None}]
  /\ UserRoles \subseteq Roles
  /\ MaxMishaps \in Nat

VARIABLES
  ledger,      \* table schema_migrations: the checksum applied of each version
  schema,      \* the migrations whose SQL ran, in the order in which they ran
  users,       \* table users: each row with the process that inserted it
  process,     \* where each process is, and the versions it takes for applied
  mishaps

vars == <<ledger, schema, users, process, mishaps>>

Applied == {v \in Versions : ledger[v] # None}
Failed == [pc |-> "failed", known |-> {}]

Init ==
  /\ ledger = [v \in Versions |-> None]
  /\ schema = <<>>
  /\ users = {}
  /\ process = [p \in Processes |-> [pc |-> "reading", known |-> {}]]
  /\ mishaps = 0

Become(p, s) == process' = [process EXCEPT ![p] = s]
MoveTo(p, pc) == process' = [process EXCEPT ![p].pc = pc]

-------------------------------------------------------------------------------
(* Migrations *)

\* "database contains unknown migration version", "conflicts with applied history"
KnownOnly(p) == Applied \subseteq DOMAIN Release[p]
CompatibleWhole(p) == \/ Applied = {}
                      \/ [v \in Applied |-> ledger[v]] = Release[p]
Compatible(p) ==
  /\ Applied \subseteq DOMAIN Release[p]
  /\ \A v \in Applied : ledger[v] = Release[p][v]

\* The table is created if it is not there, read, and compared with the release.
ReadApplied(p) ==
  /\ process[p].pc = "reading"
  /\ Become(p, IF Compatible(p) THEN [pc |-> "applying", known |-> Applied] ELSE Failed)
  /\ UNCHANGED <<ledger, schema, users, mishaps>>

\* "if _, ok := applied[migration.Version]; ok { continue }", in ascending order
Missing(p) == DOMAIN Release[p] \ process[p].known

NextVersionDown(p) == CHOOSE v \in Missing(p) : \A w \in Missing(p) : w <= v
NextVersion(p) == CHOOSE v \in Missing(p) : \A w \in Missing(p) : v <= w

RecordNothing(v, sum) == UNCHANGED ledger
Record(v, sum) == ledger' = [ledger EXCEPT ![v] = sum]

\* applyOne.  Another process may have applied the version since the table was
\* read: then the SQL fails on what exists already, or the row on its primary key,
\* and the start with it.
ApplyOne(p) ==
  /\ process[p].pc = "applying"
  /\ Missing(p) # {}
  /\ LET v == NextVersion(p)
     IN IF v \in Applied
        THEN Become(p, Failed) /\ UNCHANGED <<ledger, schema>>
        ELSE /\ Record(v, Release[p][v])
             /\ schema' = Append(schema, <<v, Release[p][v]>>)
             /\ Become(p, [pc |-> "applying", known |-> process[p].known \cup {v}])
  /\ UNCHANGED <<users, mishaps>>

Migrated(p) ==
  /\ process[p].pc = "applying"
  /\ Missing(p) = {}
  /\ MoveTo(p, "finding")
  /\ UNCHANGED <<ledger, schema, users, mishaps>>

-------------------------------------------------------------------------------
(* Users *)

\* "username TEXT NOT NULL UNIQUE"
UsernameFreeForMe(n, p) == \A u \in users : u.name # n \/ u.by # p
UsernameFree(n, p) == \A u \in users : u.name # n

Insert(n, role, p) == users' = users \cup {[name |-> n, role |-> role, by |-> p]}

\* An existing user is taken whatever its role.
FindUserByUsername(p) ==
  /\ process[p].pc = "finding"
  /\ MoveTo(p, IF \/ BootstrapAdmin[p] = None
                  \/ \E u \in users : u.name = BootstrapAdmin[p]
               THEN "serving" ELSE "creating")
  /\ UNCHANGED <<ledger, schema, users, mishaps>>

\* On a conflict the process looks again and adopts the winner's.
CreateUser(p) ==
  /\ process[p].pc = "creating"
  /\ IF UsernameFree(BootstrapAdmin[p], p)
     THEN Insert(BootstrapAdmin[p], "commander", p) /\ MoveTo(p, "serving")
     ELSE UNCHANGED users /\ MoveTo(p, "finding")
  /\ UNCHANGED <<ledger, schema, mishaps>>

\* service Register, for a user who is a commander.
Register(p) ==
  \E n \in Usernames, role \in UserRoles :
    /\ process[p].pc = "serving"
    /\ \E u \in users : u.role = "commander"
    /\ UsernameFree(n, p)
    /\ Insert(n, role, p)
    /\ UNCHANGED <<ledger, schema, process, mishaps>>

-------------------------------------------------------------------------------
\* A statement fails, or the process dies: a transaction in progress rolls back.
GoesDown(p) ==
  /\ process[p].pc # "failed"
  /\ mishaps < MaxMishaps
  /\ mishaps' = mishaps + 1
  /\ Become(p, Failed)
  /\ UNCHANGED <<ledger, schema, users>>

Restart(p) ==
  /\ process[p].pc = "failed"
  /\ MoveTo(p, "reading")
  /\ UNCHANGED <<ledger, schema, users, mishaps>>

Start(p) ==
  \/ ReadApplied(p) \/ ApplyOne(p) \/ Migrated(p)
  \/ FindUserByUsername(p) \/ CreateUser(p)
  \/ Restart(p)

Next == \E p \in Processes : Start(p) \/ Register(p) \/ GoesDown(p)

Spec == Init /\ [][Next]_vars

\* Every process runs, and is started again when it failed.
FairSpec == Spec /\ \A p \in Processes : WF_vars(Start(p))

-------------------------------------------------------------------------------
(* Properties *)

\* Types; and what a process takes for applied has been applied.
TypeOK ==
  /\ ledger \in [Versions -> Checksums \cup {None}]
  /\ schema \in Seq(Versions \X Checksums)
  /\ users \subseteq [name : Usernames, role : Roles, by : Processes]
  /\ process \in [Processes ->
       [pc : {"reading", "applying", "finding", "creating", "serving", "failed"},
        known : SUBSET Versions]]
  /\ \A p \in Processes : process[p].known \subseteq Applied
  /\ mishaps \in 0 .. MaxMishaps

\* Whichever processes race and wherever they die, the migrations run once each
\* and in order, and the table says exactly which ran.
SchemaInOrder ==
  /\ \A n \in DOMAIN schema : schema[n][1] = n /\ ledger[n] = schema[n][2]
  /\ Applied = DOMAIN schema

\* A process goes on to serve only over its own release's schema, with no version
\* of another release in its place.
ServesItsSchema ==
  \A p \in Processes :
    process[p].pc \in {"finding", "creating", "serving"} =>
      \A v \in DOMAIN Release[p] : ledger[v] = Release[p][v]

\* A user name has one user, whoever inserts it first; a process that bootstraps
\* serves only when its user is there; and whatever that user's role is, the users
\* have a commander among them.
UsersHaveACommander ==
  /\ \A u, w \in users : u.name = w.name => u = w
  /\ \A p \in Processes :
       (process[p].pc = "serving" /\ BootstrapAdmin[p] # None) =>
         \E u \in users : u.name = BootstrapAdmin[p]
  /\ users # {} => \E u \in users : u.role = "commander"

\* The start of a process that lost a race fails, and yet in the end every process
\* serves, unless the database holds a migration that its release does not have.
EveryoneStarts ==
  \A p \in Processes :
    <>[](\/ process[p].pc = "serving"
         \/ \E v \in Applied : v \notin DOMAIN Release[p] \/ ledger[v] # Release[p][v])
================================================================================
