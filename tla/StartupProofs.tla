------------------------------ MODULE StartupProofs ------------------------------
(***************************************************************************)
(* Theorems about Startup for any processes, releases, user names, roles   *)
(* and number of mishaps.                                                  *)
(***************************************************************************)
EXTENDS Startup, TLAPS

-------------------------------------------------------------------------------
(* Releases *)

ProcessStates ==
  [pc : {"reading", "applying", "finding", "creating", "serving", "failed"},
   known : SUBSET Versions]

LEMMA ReleaseFacts ==
  ASSUME NEW p \in Processes
  PROVE  /\ Len(Release[p]) \in Nat /\ DOMAIN Release[p] = 1 .. Len(Release[p])
         /\ DOMAIN Release[p] \subseteq Versions
         /\ \A v \in DOMAIN Release[p] :
              Release[p][v] \in Checksums /\ Release[p][v] # None
<1>1. Release[p] \in Seq(Checksums) /\ None \notin Checksums
  BY StartupAssumption DEF StartupAssumption
<1>2. DOMAIN Release[p] \subseteq Versions
  BY DEF Versions
<1> QED
  BY <1>1, <1>2

LEMMA VersionNumbers == Versions \subseteq Nat
BY ReleaseFacts DEF Versions

LEMMA ConstantFacts ==
  /\ None \notin Checksums /\ None \notin Usernames
  /\ BootstrapAdmin \in [Processes -> Usernames \cup {None}]
  /\ UserRoles \subseteq Roles /\ "commander" \in Roles /\ MaxMishaps \in Nat
BY StartupAssumption DEF StartupAssumption, Roles

-------------------------------------------------------------------------------
(* The inductive invariant *)

\* A process in state s takes a prefix of what ran for applied; what it takes for
\* applied is of its own release from the moment it compared them; and it stops
\* applying when nothing of its release is missing.
Fits(p, s) ==
  /\ s \in ProcessStates
  /\ \E k \in 0 .. Len(schema) : s.known = 1 .. k
  /\ s.pc \in {"applying", "finding", "creating", "serving"} =>
       \A v \in s.known : v \in DOMAIN Release[p] /\ ledger[v] = Release[p][v]
  /\ s.pc \in {"finding", "creating", "serving"} => DOMAIN Release[p] \subseteq s.known
  /\ s.pc = "creating" => BootstrapAdmin[p] # None

SchemaTyped ==
  /\ ledger \in [Versions -> Checksums \cup {None}]
  /\ schema \in Seq(Versions \X Checksums)
  /\ process = [p \in Processes |-> process[p]]
  /\ mishaps \in 0 .. MaxMishaps

SchemaInv ==
  /\ SchemaTyped /\ SchemaInOrder
  /\ \A p \in Processes : Fits(p, process[p])

LEMMA AppliedIs ==
  ASSUME SchemaInv
  PROVE  Applied = 1 .. Len(schema) /\ Len(schema) \in Nat
BY DEF SchemaInv, SchemaTyped, SchemaInOrder

\* The next version to apply is the one after those that are known.
LEMMA NextIs ==
  ASSUME SchemaInv, NEW p \in Processes, process[p].pc = "applying", Missing(p) # {}
  PROVE  \E k \in 0 .. Len(schema) :
           /\ process[p].known = 1 .. k
           /\ NextVersion(p) = k + 1 /\ k + 1 \in DOMAIN Release[p]
<1>1. PICK k \in 0 .. Len(schema) : process[p].known = 1 .. k
  BY DEF SchemaInv, Fits
<1>2. k \in Nat
  BY <1>1, AppliedIs
<1>3. PICK n \in Nat : n = Len(Release[p]) /\ DOMAIN Release[p] = 1 .. n
  BY ReleaseFacts
<1>4. \A v \in 1 .. k : v \in 1 .. n
  BY <1>1, <1>3 DEF SchemaInv, Fits
<1>5. PICK v \in 1 .. n : v \notin 1 .. k
  BY <1>1, <1>3 DEF Missing
<1>6. k + 1 \in 1 .. n
  BY <1>2, <1>5
<1>7. Missing(p) = {u \in 1 .. n : u > k}
  BY <1>1, <1>2, <1>3 DEF Missing
<1>8. k + 1 \in Missing(p) /\ \A w \in Missing(p) : k + 1 <= w
  BY <1>2, <1>3, <1>6, <1>7
<1>9. \A u \in Missing(p) : (\A w \in Missing(p) : u <= w) => u = k + 1
  BY <1>2, <1>7, <1>8
<1>10. NextVersion(p) = k + 1
  BY <1>8, <1>9 DEF NextVersion
<1> QED
  BY <1>1, <1>3, <1>6, <1>10

\* A process moves and the schema stays.
LEMMA MovesFit ==
  ASSUME SchemaInv, NEW p \in Processes, NEW s,
         UNCHANGED <<ledger, schema>>, mishaps' \in 0 .. MaxMishaps,
         Become(p, s), Fits(p, s)
  PROVE  SchemaInv'
<1>1. SchemaTyped' /\ \A q \in Processes \ {p} : process'[q] = process[q]
  BY DEF SchemaInv, SchemaTyped, Become
<1>2. process'[p] = s
  BY DEF SchemaInv, SchemaTyped, Become
<1>3. SchemaInOrder'
  BY DEF SchemaInv, SchemaInOrder, Applied
<1>4. \A q \in Processes : Fits(q, process[q])'
  BY <1>1, <1>2 DEF SchemaInv, Fits
<1> QED
  BY <1>1, <1>3, <1>4 DEF SchemaInv

\* A process applies the next version of its release.
LEMMA ApplyFits ==
  ASSUME SchemaInv, NEW p \in Processes, ApplyOne(p), NextVersion(p) \notin Applied
  PROVE  SchemaInv'
<1>1. PICK k \in 0 .. Len(schema) :
        /\ process[p].known = 1 .. k
        /\ NextVersion(p) = k + 1 /\ k + 1 \in DOMAIN Release[p]
  BY NextIs DEF ApplyOne
<1> DEFINE sum == Release[p][k + 1]
           e == <<k + 1, sum>>
<1>2. Len(schema) \in Nat /\ Applied = 1 .. Len(schema)
  BY AppliedIs
<1>3. k = Len(schema) /\ k \in Nat
  BY <1>1, <1>2
<1>4. sum \in Checksums /\ sum # None /\ k + 1 \in Versions
  BY <1>1, ReleaseFacts
<1>5. /\ ledger' = [ledger EXCEPT ![k + 1] = sum]
      /\ schema' = Append(schema, e)
      /\ process' = [process EXCEPT ![p] = [pc |-> "applying", known |-> (1 .. k) \cup {k + 1}]]
      /\ mishaps' = mishaps
  BY <1>1 DEF ApplyOne, Record, Become
<1> HIDE DEF sum
<1>6. e \in Versions \X Checksums /\ e[1] = k + 1 /\ e[2] = sum
  BY <1>4
<1> HIDE DEF e
<1>7. schema \in Seq(Versions \X Checksums) /\ ledger \in [Versions -> Checksums \cup {None}]
  BY DEF SchemaInv, SchemaTyped
<1>8. /\ schema' \in Seq(Versions \X Checksums) /\ Len(schema') = k + 1
      /\ schema'[k + 1] = e /\ \A n \in 1 .. k : schema'[n] = schema[n]
  BY <1>3, <1>5, <1>6, <1>7
<1>9. /\ ledger' \in [Versions -> Checksums \cup {None}]
      /\ ledger'[k + 1] = sum /\ \A v \in Versions \ {k + 1} : ledger'[v] = ledger[v]
  BY <1>4, <1>5, <1>7
<1>10. (1 .. k) \cup {k + 1} = 1 .. k + 1 /\ DOMAIN schema' = 1 .. k + 1
       /\ DOMAIN schema = 1 .. k
  BY <1>3, <1>7, <1>8
<1>11. SchemaTyped'
  BY <1>5, <1>8, <1>9 DEF SchemaInv, SchemaTyped
<1>12. SchemaInOrder'
  <2>1. \A n \in 1 .. k : n \in Versions /\ schema[n][1] = n /\ ledger[n] = schema[n][2]
    BY <1>2, <1>3, <1>10 DEF SchemaInv, SchemaInOrder, Applied
  <2>2. \A n \in 1 .. k + 1 : schema'[n][1] = n /\ ledger'[n] = schema'[n][2]
    <3> TAKE n \in 1 .. k + 1
    <3>1. CASE n \in 1 .. k
      <4>1. n # k + 1
        BY <1>3, <3>1
      <4> QED
        BY <1>8, <1>9, <2>1, <3>1, <4>1
    <3>2. CASE n = k + 1
      BY <1>6, <1>8, <1>9, <3>2
    <3> QED
      BY <1>3, <3>1, <3>2
  <2>3. Applied' = Applied \cup {k + 1}
    BY <1>4, <1>9 DEF Applied
  <2>4. Applied' = 1 .. k + 1
    BY <1>2, <1>3, <1>10, <2>3
  <2> QED
    BY <1>10, <2>2, <2>4 DEF SchemaInOrder
<1>13. ASSUME NEW q \in Processes, q # p
       PROVE  Fits(q, process[q])'
  <2>1. process'[q] = process[q] /\ Fits(q, process[q])
    BY <1>5, <1>13 DEF SchemaInv, SchemaTyped
  <2>2. PICK m \in 0 .. k : process[q].known = 1 .. m
    BY <1>3, <2>1 DEF Fits
  <2>3. m \in 0 .. k + 1 /\ \A v \in 1 .. m : v # k + 1 /\ v \in Versions
    <3>1. \A v \in 1 .. m : v \in 1 .. k
      BY <1>3, <2>2
    <3> QED
      BY <1>2, <1>3, <2>2, <3>1 DEF Applied
  <2>4. \A v \in process[q].known : ledger'[v] = ledger[v]
    BY <1>9, <2>2, <2>3
  <2> QED
    BY <1>8, <2>1, <2>2, <2>3, <2>4 DEF Fits
<1>14. Fits(p, process[p])'
  <2>1. process'[p] = [pc |-> "applying", known |-> 1 .. k + 1]
    BY <1>5, <1>10 DEF SchemaInv, SchemaTyped
  <2>2. \A v \in 1 .. k : v \in DOMAIN Release[p] /\ ledger[v] = Release[p][v]
    BY <1>1 DEF SchemaInv, Fits, ApplyOne
  <2>3. \A v \in 1 .. k + 1 :
          v \in DOMAIN Release[p] /\ v \in Versions /\ ledger'[v] = Release[p][v]
    <3> TAKE v \in 1 .. k + 1
    <3>1. CASE v \in 1 .. k
      <4>1. v # k + 1 /\ v \in Versions
        BY <1>3, <2>2, <3>1, ReleaseFacts
      <4> QED
        BY <1>9, <2>2, <3>1, <4>1
    <3>2. CASE v = k + 1
      BY <1>1, <1>4, <1>9, <3>2 DEF sum
    <3> QED
      BY <1>3, <3>1, <3>2
  <2>4. process'[p] \in ProcessStates /\ process'[p].known = 1 .. k + 1
        /\ process'[p].pc = "applying"
    BY <2>1, <2>3 DEF ProcessStates
  <2>5. k + 1 \in 0 .. Len(schema')
    BY <1>3, <1>8
  <2> QED
    BY <2>3, <2>4, <2>5 DEF Fits
<1> QED
  BY <1>11, <1>12, <1>13, <1>14 DEF SchemaInv

\* Going from one state to another with the same versions known.
LEMMA PcChange ==
  ASSUME NEW s \in ProcessStates,
         NEW pc \in {"reading", "applying", "finding", "creating", "serving", "failed"}
  PROVE  /\ [s EXCEPT !.pc = pc] \in ProcessStates
         /\ [s EXCEPT !.pc = pc].pc = pc /\ [s EXCEPT !.pc = pc].known = s.known
BY DEF ProcessStates

LEMMA MoveToFits ==
  ASSUME SchemaInv, NEW p \in Processes,
         NEW pc \in {"reading", "applying", "finding", "creating", "serving", "failed"},
         UNCHANGED <<ledger, schema, mishaps>>, MoveTo(p, pc),
         pc \in {"applying", "finding", "creating", "serving"} =>
           process[p].pc \in {"applying", "finding", "creating", "serving"},
         pc \in {"finding", "creating", "serving"} =>
           DOMAIN Release[p] \subseteq process[p].known,
         pc = "creating" => BootstrapAdmin[p] # None
  PROVE  SchemaInv'
<1>1. Fits(p, process[p]) /\ process[p] \in ProcessStates /\ mishaps \in 0 .. MaxMishaps
  BY DEF SchemaInv, Fits, SchemaTyped
<1> DEFINE s == [process[p] EXCEPT !.pc = pc]
<1>2. s \in ProcessStates /\ s.pc = pc /\ s.known = process[p].known
  BY <1>1, PcChange
<1>3. process' = [process EXCEPT ![p] = s]
  BY DEF MoveTo, SchemaInv, SchemaTyped
<1> HIDE DEF s
<1>4. Fits(p, s)
  BY <1>1, <1>2 DEF Fits
<1> QED
  BY <1>1, <1>3, <1>4, MovesFit DEF Become

LEMMA FailsFit ==
  ASSUME SchemaInv, NEW p \in Processes,
         UNCHANGED <<ledger, schema>>, mishaps' \in 0 .. MaxMishaps, Become(p, Failed)
  PROVE  SchemaInv'
<1>1. Failed \in ProcessStates /\ Failed.pc = "failed" /\ Failed.known = 1 .. 0
  BY DEF Failed, ProcessStates
<1>2. 0 \in 0 .. Len(schema)
  BY AppliedIs
<1>3. Fits(p, Failed)
  BY <1>1, <1>2 DEF Fits
<1> QED
  BY <1>3, MovesFit

LEMMA SchemaStep ==
  ASSUME SchemaInv, [Next]_vars
  PROVE  SchemaInv'
<1>0. mishaps \in 0 .. MaxMishaps /\ MaxMishaps \in Nat
  BY ConstantFacts DEF SchemaInv, SchemaTyped
<1>1. ASSUME NEW p \in Processes, ReadApplied(p)
      PROVE  SchemaInv'
  <2>1. CASE Compatible(p)
    <3> DEFINE s == [pc |-> "applying", known |-> Applied]
    <3>1. s.pc = "applying" /\ s.known = 1 .. Len(schema) /\ Applied \subseteq Versions
      BY AppliedIs DEF Applied
    <3>2. s \in ProcessStates
      BY <3>1 DEF ProcessStates
    <3>3. \A v \in s.known : v \in DOMAIN Release[p] /\ ledger[v] = Release[p][v]
      BY <2>1 DEF Compatible
    <3>4. Len(schema) \in 0 .. Len(schema)
      BY AppliedIs
    <3>5. Become(p, s)
      BY <1>1, <2>1 DEF ReadApplied
    <3> HIDE DEF s
    <3>6. Fits(p, s)
      BY <3>1, <3>2, <3>3, <3>4 DEF Fits
    <3> QED
      BY <1>0, <1>1, <3>5, <3>6, MovesFit DEF ReadApplied
  <2>2. CASE ~Compatible(p)
    BY <1>0, <1>1, <2>2, FailsFit DEF ReadApplied
  <2> QED
    BY <2>1, <2>2
<1>2. ASSUME NEW p \in Processes, ApplyOne(p)
      PROVE  SchemaInv'
  <2>1. CASE NextVersion(p) \in Applied
    BY <1>0, <1>2, <2>1, FailsFit DEF ApplyOne
  <2> QED
    BY <1>2, <2>1, ApplyFits
<1>3. ASSUME NEW p \in Processes, Migrated(p)
      PROVE  SchemaInv'
  BY <1>3, MoveToFits DEF Migrated, Missing
<1>4. ASSUME NEW p \in Processes, process[p].pc \in {"finding", "creating", "serving"}
      PROVE  DOMAIN Release[p] \subseteq process[p].known
  BY <1>4 DEF SchemaInv, Fits
<1>5. ASSUME NEW p \in Processes, FindUserByUsername(p)
      PROVE  SchemaInv'
  <2>1. CASE BootstrapAdmin[p] = None \/ \E u \in users : u.name = BootstrapAdmin[p]
    BY <1>4, <1>5, <2>1, MoveToFits DEF FindUserByUsername
  <2>2. CASE ~(BootstrapAdmin[p] = None \/ \E u \in users : u.name = BootstrapAdmin[p])
    BY <1>4, <1>5, <2>2, MoveToFits DEF FindUserByUsername
  <2> QED
    BY <2>1, <2>2
<1>6. ASSUME NEW p \in Processes, CreateUser(p)
      PROVE  SchemaInv'
  <2>1. UNCHANGED <<ledger, schema, mishaps>> /\ process[p].pc = "creating"
        /\ (MoveTo(p, "serving") \/ MoveTo(p, "finding"))
    BY <1>6 DEF CreateUser
  <2> QED
    BY <1>4, <2>1, MoveToFits
<1>7. ASSUME NEW p \in Processes, Restart(p)
      PROVE  SchemaInv'
  BY <1>7, MoveToFits DEF Restart
<1>8. ASSUME NEW p \in Processes, GoesDown(p)
      PROVE  SchemaInv'
  <2>1. mishaps' \in 0 .. MaxMishaps
    BY <1>0, <1>8 DEF GoesDown
  <2> QED
    BY <1>8, <2>1, FailsFit DEF GoesDown
<1>9. CASE UNCHANGED <<ledger, schema, process, mishaps>>
  BY <1>9 DEF SchemaInv, SchemaTyped, SchemaInOrder, Applied, Fits
<1> QED
  BY <1>1, <1>2, <1>3, <1>5, <1>6, <1>7, <1>8, <1>9 DEF Next, Start, Register, vars

LEMMA SchemaAlways == Spec => []SchemaInv
<1>1. Init => SchemaInv
  <2> SUFFICES ASSUME Init PROVE SchemaInv
    OBVIOUS
  <2>1. SchemaTyped
    BY ConstantFacts DEF Init, SchemaTyped
  <2>2. Applied = {} /\ DOMAIN schema = {} /\ Len(schema) = 0
    BY DEF Init, Applied
  <2>3. SchemaInOrder
    BY <2>2 DEF SchemaInOrder
  <2>4. ASSUME NEW p \in Processes
        PROVE  Fits(p, process[p])
    <3>1. process[p].pc = "reading" /\ process[p].known = 1 .. 0
          /\ process[p] \in ProcessStates /\ 0 \in 0 .. Len(schema)
      BY <2>2 DEF Init, ProcessStates
    <3> QED
      BY <3>1 DEF Fits
  <2> QED
    BY <2>1, <2>3, <2>4 DEF SchemaInv
<1> QED
  BY <1>1, SchemaStep, PTL DEF Spec

\* The migrations run once each and in order, and schema_migrations tells which ran,
\* whichever processes race and wherever they fail.
THEOREM SchemaCorrect == Spec => []SchemaInOrder
<1>1. SchemaInv => SchemaInOrder
  BY DEF SchemaInv
<1> QED
  BY <1>1, SchemaAlways, PTL

\* Whoever serves has the schema of its own release, although it read the table of
\* migrations only once.
THEOREM ServersCorrect == Spec => []ServesItsSchema
<1>1. SchemaInv => ServesItsSchema
  BY DEF SchemaInv, Fits, ServesItsSchema
<1> QED
  BY <1>1, SchemaAlways, PTL

-------------------------------------------------------------------------------
(* Users *)

UserRows == [name : Usernames, role : Roles, by : Processes]

\* UsersHaveACommander with the type that it needs.
UsersInv == users \subseteq UserRows /\ UsersHaveACommander

LEMMA UserFacts ==
  ASSUME NEW n \in Usernames, NEW role \in Roles, NEW p \in Processes
  PROVE  LET u == [name |-> n, role |-> role, by |-> p]
         IN u \in UserRows /\ u.name = n /\ u.role = role
BY DEF UserRows

\* A new user with a free name, and a commander among the users with it.
LEMMA InsertUsers ==
  ASSUME UsersInv, NEW n \in Usernames, NEW role \in Roles, NEW p \in Processes,
         UsernameFree(n, p), Insert(n, role, p),
         role = "commander" \/ \E u \in users : u.role = "commander",
         \A q \in Processes : process'[q].pc = "serving" =>
           process[q].pc = "serving" \/ BootstrapAdmin[q] = n
  PROVE  UsersInv'
<1> DEFINE u == [name |-> n, role |-> role, by |-> p]
<1>1. u \in UserRows /\ u.name = n /\ u.role = role
  BY UserFacts
<1>2. users' = users \cup {u}
  BY DEF Insert
<1> HIDE DEF u
<1>3. users' \subseteq UserRows
  BY <1>1, <1>2 DEF UsersInv
<1>4. \A v, w \in users' : v.name = w.name => v = w
  BY <1>1, <1>2 DEF UsersInv, UsersHaveACommander, UsernameFree
<1>5. \A q \in Processes :
        (process'[q].pc = "serving" /\ BootstrapAdmin[q] # None) =>
          \E v \in users' : v.name = BootstrapAdmin[q]
  BY <1>1, <1>2 DEF UsersInv, UsersHaveACommander
<1>6. \E v \in users' : v.role = "commander"
  BY <1>1, <1>2
<1> QED
  BY <1>3, <1>4, <1>5, <1>6 DEF UsersInv, UsersHaveACommander

LEMMA UsersStand ==
  ASSUME UsersInv, UNCHANGED users,
         \A q \in Processes : process'[q].pc = "serving" =>
           \/ process[q].pc = "serving" \/ BootstrapAdmin[q] = None
           \/ \E u \in users : u.name = BootstrapAdmin[q]
  PROVE  UsersInv'
BY DEF UsersInv, UsersHaveACommander

LEMMA UsersStep ==
  ASSUME SchemaInv, UsersInv, [Next]_vars
  PROVE  UsersInv'
<1>1. \A p \in Processes : process[p] \in ProcessStates
  BY DEF SchemaInv, Fits
<1>a. process = [p \in Processes |-> process[p]]
  BY DEF SchemaInv, SchemaTyped
<1>2. ASSUME NEW p \in Processes,
             \/ ReadApplied(p) \/ ApplyOne(p) \/ Migrated(p) \/ Restart(p) \/ GoesDown(p)
      PROVE  UsersInv'
  <2>1. users' = users
    BY <1>2 DEF ReadApplied, ApplyOne, Migrated, Restart, GoesDown
  <2>2. \E s : Become(p, s) /\ s.pc # "serving"
    <3>1. Migrated(p) => Become(p, [process[p] EXCEPT !.pc = "finding"])
      BY <1>a DEF Migrated, MoveTo, Become
    <3>2. Restart(p) => Become(p, [process[p] EXCEPT !.pc = "reading"])
      BY <1>a DEF Restart, MoveTo, Become
    <3>3. /\ [process[p] EXCEPT !.pc = "finding"].pc = "finding"
          /\ [process[p] EXCEPT !.pc = "reading"].pc = "reading"
      BY <1>1, PcChange
    <3>4. Failed.pc = "failed"
      BY DEF Failed
    <3>5. ReadApplied(p) \/ ApplyOne(p) =>
            \E s : Become(p, s) /\ s.pc # "serving"
      BY <3>4 DEF ReadApplied, ApplyOne
    <3>6. GoesDown(p) => Become(p, Failed)
      BY DEF GoesDown
    <3> QED
      BY <1>2, <3>1, <3>2, <3>3, <3>4, <3>5, <3>6
  <2>3. \A q \in Processes : process'[q].pc = "serving" => process[q].pc = "serving"
    BY <1>a, <2>2 DEF Become
  <2> QED
    BY <2>1, <2>3, UsersStand
<1>3. ASSUME NEW p \in Processes, FindUserByUsername(p)
      PROVE  UsersInv'
  <2>1. /\ users' = users
        /\ \A q \in Processes \ {p} : process'[q] = process[q]
    BY <1>3, <1>a DEF FindUserByUsername, MoveTo
  <2>2. ~(BootstrapAdmin[p] = None \/ \E u \in users : u.name = BootstrapAdmin[p])
          => process'[p].pc = "creating"
    BY <1>3, <1>1, <1>a DEF FindUserByUsername, MoveTo, ProcessStates
  <2> QED
    BY <2>1, <2>2, UsersStand
<1>4. ASSUME NEW p \in Processes, CreateUser(p)
      PROVE  UsersInv'
  <2>1. /\ \A q \in Processes \ {p} : process'[q] = process[q]
        /\ process[p].pc = "creating"
    BY <1>4, <1>a DEF CreateUser, MoveTo
  <2>2. PICK n \in Usernames : n = BootstrapAdmin[p]
    BY <2>1, ConstantFacts DEF SchemaInv, Fits
  <2>3. CASE UsernameFree(n, p)
    <3>1. Insert(n, "commander", p)
      BY <1>4, <2>2, <2>3 DEF CreateUser
    <3> QED
      BY <2>1, <2>2, <2>3, <3>1, ConstantFacts, InsertUsers
  <2>4. CASE ~UsernameFree(n, p)
    <3>1. users' = users /\ process'[p].pc = "finding"
      BY <1>4, <1>1, <1>a, <2>2, <2>4 DEF CreateUser, MoveTo, ProcessStates
    <3> QED
      BY <2>1, <3>1, UsersStand
  <2> QED
    BY <2>3, <2>4
<1>5. ASSUME NEW p \in Processes, Register(p)
      PROVE  UsersInv'
  <2>1. PICK n \in Usernames, role \in UserRoles :
          /\ \E u \in users : u.role = "commander"
          /\ UsernameFree(n, p) /\ Insert(n, role, p) /\ process' = process
    BY <1>5 DEF Register
  <2>2. role \in Roles
    BY ConstantFacts
  <2> QED
    BY <2>1, <2>2, InsertUsers
<1>6. CASE UNCHANGED vars
  BY <1>6, UsersStand DEF vars
<1> QED
  BY <1>2, <1>3, <1>4, <1>5, <1>6 DEF Next, Start

LEMMA UsersAlways == Spec => []UsersInv
<1>1. Init => UsersInv
  BY DEF Init, UsersInv, UsersHaveACommander
<1>2. SchemaInv /\ UsersInv /\ [Next]_vars => UsersInv'
  BY UsersStep
<1> QED
  BY <1>1, <1>2, SchemaAlways, PTL DEF Spec

\* A user name has one user although nothing but the table's constraint is asked;
\* whoever bootstraps finds its user before it serves; and as soon as there are
\* users there is a commander.
THEOREM UsersCorrect == Spec => []UsersHaveACommander
<1>1. UsersInv => UsersHaveACommander
  BY DEF UsersInv
<1> QED
  BY <1>1, UsersAlways, PTL

\* The tables and the processes have their types, and what a process takes for
\* applied was applied.
THEOREM TypeCorrect == Spec => []TypeOK
<1>1. SchemaInv /\ UsersInv => TypeOK
  <2> SUFFICES ASSUME SchemaInv, UsersInv PROVE TypeOK
    OBVIOUS
  <2>1. process \in [Processes -> ProcessStates]
    BY DEF SchemaInv, SchemaTyped, Fits
  <2>2. ASSUME NEW p \in Processes
        PROVE  process[p].known \subseteq Applied
    <3>1. PICK k \in 0 .. Len(schema) : process[p].known = 1 .. k
      BY DEF SchemaInv, Fits
    <3> QED
      BY <3>1, AppliedIs
  <2> QED
    BY <2>1, <2>2 DEF SchemaInv, SchemaTyped, UsersInv, UserRows, ProcessStates, TypeOK
<1> QED
  BY <1>1, SchemaAlways, UsersAlways, PTL
================================================================================
