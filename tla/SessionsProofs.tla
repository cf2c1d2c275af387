----------------------------- MODULE SessionsProofs -----------------------------
(***************************************************************************)
(* Theorems about Sessions for any clients, sessions, lifetime, gap and    *)
(* batch size.                                                             *)
(***************************************************************************)
EXTENDS Sessions, TLAPS

-------------------------------------------------------------------------------
(* Types *)

\* The frames of a request that carries a token.
Carrying == {"read", "touch", "admitted", "logout"}
Carriers ==
  [op : Carrying, session : Sessions, row : SessionRows, at : Times, late : BOOLEAN]

LEMMA Constants ==
  /\ TTL \in Nat /\ TTL > 0 /\ TouchGap \in Nat /\ TouchGap > 0
  /\ Times \subseteq Nat /\ \A t \in Times : t > 0
BY SessionsAssumption DEF SessionsAssumption, Times

LEMMA RowFacts ==
  ASSUME NEW row \in SessionRows
  PROVE  /\ row.version \in Nat /\ row.version > 0
         /\ row.created \in Nat /\ row.lastSeen \in Nat /\ row.expires \in Nat
         /\ row.revoked \in Nat /\ row # NoSession
<1>1. row.version \in Nat \ {0} /\ row.created \in Times /\ row.lastSeen \in Times
      /\ row.expires \in Nat /\ row.revoked \in Times \cup {Never}
  BY DEF SessionRows
<1>2. row.version # 0 /\ NoSession.version = 0
  BY <1>1 DEF NoSession
<1>3. row # NoSession
  BY <1>2
<1>4. Times \subseteq Nat /\ Never \in Nat
  BY Constants DEF Never
<1>5. row.created \in Nat /\ row.lastSeen \in Nat /\ row.revoked \in Nat
  BY <1>1, <1>4
<1>6. row.version \in Nat /\ row.version > 0
  BY <1>1
<1> QED
  BY <1>1, <1>3, <1>5, <1>6

LEMMA CarrierFacts ==
  ASSUME TypeOK, NEW c \in Clients, frame[c].op \in Carrying
  PROVE  /\ frame[c] \in Carriers
         /\ frame[c].session \in Sessions /\ frame[c].row \in SessionRows
         /\ frame[c].at \in Times /\ frame[c].late \in BOOLEAN
         /\ session[frame[c].session] \in SessionRows
         /\ frame[c].row.version <= session[frame[c].session].version
         /\ frame[c].row.version = session[frame[c].session].version
              => frame[c].row = session[frame[c].session]
<1>1. frame[c] \in Carriers
  BY DEF TypeOK, Frames, Idle, Carriers, Carrying
<1>2. frame[c].session \in Sessions /\ frame[c].row \in SessionRows
      /\ frame[c].at \in Times /\ frame[c].late \in BOOLEAN
  BY <1>1 DEF Carriers
<1>3. /\ frame[c].row.version <= session[frame[c].session].version
      /\ frame[c].row.version = session[frame[c].session].version
           => frame[c].row = session[frame[c].session]
  BY DEF TypeOK, Carrying
<1>4. frame[c].row.version > 0 /\ frame[c].row.version \in Nat
  BY <1>2, RowFacts
<1>5. session[frame[c].session] # NoSession
  BY <1>3, <1>4 DEF NoSession
<1> QED
  BY <1>1, <1>2, <1>3, <1>5 DEF TypeOK

-------------------------------------------------------------------------------
(* What a step does to a row *)

Opens(s) ==
  /\ session[s] = NoSession
  /\ \E t \in Times : session'[s] = Opened(t)

\* The next version of a row.
SameBut(new, old, seen, revoked) ==
  /\ new \in SessionRows
  /\ new.version = old.version + 1 /\ new.created = old.created
  /\ new.lastSeen = seen /\ new.expires = old.expires /\ new.revoked = revoked

\* The row is renewed at t by a request that read it as it is now.
Renews(c, s, t) ==
  /\ frame[c].op = "touch" /\ frame[c].session = s /\ frame[c].at = t
  /\ session[s] \in SessionRows /\ frame[c].row = session[s]
  /\ session[s].revoked = Never
  /\ SameBut(session'[s], session[s], t, Never)

Ends(s, t) ==
  /\ session[s] \in SessionRows /\ session[s].revoked = Never
  /\ SameBut(session'[s], session[s], session[s].lastSeen, t)
  /\ s \in loggedOut' \/ Text(session[s].expires) <= Text(t)

RowStep(s) ==
  \/ session'[s] = session[s]
  \/ Opens(s)
  \/ \E c \in Clients, t \in Times : Renews(c, s, t)
  \/ \E t \in Times : Ends(s, t)

LEMMA RowsChange ==
  ASSUME NEW row \in SessionRows, NEW t \in Times
  PROVE  /\ SameBut([row EXCEPT !.lastSeen = t, !.version = row.version + 1],
                    row, t, row.revoked)
         /\ SameBut([row EXCEPT !.revoked = t, !.version = row.version + 1],
                    row, row.lastSeen, t)
<1>1. PICK v \in Nat \ {0} : v = row.version + 1
  BY RowFacts
<1>2. SameBut([row EXCEPT !.lastSeen = t, !.version = v], row, t, row.revoked)
  BY <1>1 DEF SameBut, SessionRows
<1>3. SameBut([row EXCEPT !.revoked = t, !.version = v], row, row.lastSeen, t)
  BY <1>1 DEF SameBut, SessionRows
<1> QED
  BY <1>1, <1>2, <1>3

LEMMA CreateRows ==
  ASSUME TypeOK, NEW c \in Clients, CreateSession(c)
  PROVE  session' \in [Sessions -> SessionRows \cup {NoSession}]
         /\ \A s \in Sessions : RowStep(s)
<1>1. PICK t : t = frame[c].at
  OBVIOUS
<1>2. t \in Times
  BY <1>1 DEF CreateSession, TypeOK, Frames, Idle
<1>3. PICK s \in Sessions :
        session[s] = NoSession /\ session' = [session EXCEPT ![s] = Opened(t)]
  BY <1>1 DEF CreateSession
<1>4. Opened(t) \in SessionRows
  <2>1. t + TTL \in Nat
    BY <1>2, Constants
  <2> QED
    BY <1>2, <2>1 DEF Opened, SessionRows
<1> QED
  BY <1>2, <1>3, <1>4 DEF RowStep, Opens, TypeOK

LEMMA TouchRows ==
  ASSUME TypeOK, NEW c \in Clients, TouchSession(c)
  PROVE  session' \in [Sessions -> SessionRows \cup {NoSession}]
         /\ \A s \in Sessions : RowStep(s)
<1>1. frame[c].op = "touch"
  BY DEF TouchSession
<1>2. PICK s \in Sessions, t \in Times : s = frame[c].session /\ t = frame[c].at
  BY <1>1, CarrierFacts DEF Carrying
<1>3. session[s] \in SessionRows
  BY <1>1, <1>2, CarrierFacts DEF Carrying
<1>4. CASE Touchable(s, frame[c].row.version, t)
  <2> DEFINE row == [session[s] EXCEPT !.lastSeen = t, !.version = session[s].version + 1]
  <2>1. frame[c].row = session[s] /\ session[s].revoked = Never
    BY <1>1, <1>2, <1>4, CarrierFacts DEF Touchable, Carrying
  <2>2. session' = [session EXCEPT ![s] = row]
    BY <1>2, <1>4 DEF TouchSession, TypeOK
  <2>3. SameBut(row, session[s], t, Never)
    BY <1>3, <2>1, RowsChange
  <2>4. row \in SessionRows
    BY <2>3 DEF SameBut
  <2> HIDE DEF row
  <2>6. session'[s] = row /\ \A r \in Sessions \ {s} : session'[r] = session[r]
    BY <2>2 DEF TypeOK
  <2>7. Renews(c, s, t)
    BY <1>1, <1>2, <1>3, <2>1, <2>3, <2>6 DEF Renews
  <2>8. session' \in [Sessions -> SessionRows \cup {NoSession}]
    BY <2>2, <2>4 DEF TypeOK
  <2> QED
    BY <2>6, <2>7, <2>8 DEF RowStep
<1>5. CASE ~Touchable(s, frame[c].row.version, t)
  BY <1>2, <1>5 DEF TouchSession, RowStep, TypeOK
<1> QED
  BY <1>4, <1>5

LEMMA LogoutRows ==
  ASSUME TypeOK, NEW c \in Clients, RevokeSession(c)
  PROVE  session' \in [Sessions -> SessionRows \cup {NoSession}]
         /\ \A s \in Sessions : RowStep(s)
<1>1. frame[c].op = "logout"
  BY DEF RevokeSession
<1>2. PICK s \in Sessions, t \in Times : s = frame[c].session /\ t = frame[c].at
  BY <1>1, CarrierFacts DEF Carrying
<1>3. session[s] \in SessionRows /\ s \in loggedOut'
  BY <1>1, <1>2, CarrierFacts DEF Carrying, RevokeSession
<1>4. CASE Revocable(s, t)
  <2>1. session' = [session EXCEPT ![s] = Revoked(s, t)] /\ session[s].revoked = Never
    BY <1>2, <1>4 DEF RevokeSession, Revocable
  <2>2. SameBut(Revoked(s, t), session[s], session[s].lastSeen, t)
    BY <1>3, RowsChange DEF Revoked
  <2>3. Revoked(s, t) \in SessionRows
    BY <2>2 DEF SameBut
  <2>4. session'[s] = Revoked(s, t) /\ \A r \in Sessions \ {s} : session'[r] = session[r]
    BY <2>1 DEF TypeOK
  <2>5. Ends(s, t)
    BY <1>3, <2>1, <2>2, <2>4 DEF Ends
  <2>6. session' \in [Sessions -> SessionRows \cup {NoSession}]
    BY <2>1, <2>3 DEF TypeOK
  <2> QED
    BY <2>4, <2>5, <2>6 DEF RowStep
<1>5. CASE ~Revocable(s, t)
  BY <1>2, <1>5 DEF RevokeSession, RowStep, TypeOK
<1> QED
  BY <1>4, <1>5

LEMMA PurgeRows ==
  ASSUME TypeOK, NEW c \in Clients, RevokeExpired(c)
  PROVE  session' \in [Sessions -> SessionRows \cup {NoSession}]
         /\ \A s \in Sessions : RowStep(s)
<1>1. PICK t : t = frame[c].at
  OBVIOUS
<1>2. t \in Times
  BY <1>1 DEF RevokeExpired, TypeOK, Frames, Idle
<1>3. PICK S \in SUBSET {s \in Sessions : Purgeable(s, t)} :
        session' = [s \in Sessions |-> IF s \in S THEN Revoked(s, t) ELSE session[s]]
  BY <1>1 DEF RevokeExpired
<1>4. ASSUME NEW s \in S
      PROVE  Ends(s, t) /\ session'[s] \in SessionRows
  <2>1. s \in Sessions /\ Purgeable(s, t)
    BY <1>4
  <2>2. session[s] \in SessionRows /\ session[s].revoked = Never
        /\ Text(session[s].expires) <= Text(t)
    BY <2>1 DEF Purgeable, TypeOK
  <2>3. session'[s] = Revoked(s, t)
    BY <1>3, <1>4, <2>1
  <2>4. SameBut(session'[s], session[s], session[s].lastSeen, t)
    BY <1>2, <2>2, <2>3, RowsChange DEF Revoked
  <2> QED
    BY <2>2, <2>4 DEF Ends, SameBut
<1>5. \A s \in Sessions : s \notin S => session'[s] = session[s]
  BY <1>3
<1>6. \A s \in Sessions : session'[s] \in SessionRows \cup {NoSession}
  BY <1>4, <1>5 DEF TypeOK
<1>7. session' = [s \in Sessions |-> session'[s]]
  BY <1>3
<1>8. session' \in [Sessions -> SessionRows \cup {NoSession}]
  BY <1>6, <1>7
<1> QED
  BY <1>2, <1>4, <1>5, <1>8 DEF RowStep

LEMMA RowSteps ==
  ASSUME TypeOK, [Next]_vars
  PROVE  /\ session' \in [Sessions -> SessionRows \cup {NoSession}]
         /\ \A s \in Sessions : RowStep(s)
<1>1. session' = session => /\ session' \in [Sessions -> SessionRows \cup {NoSession}]
                            /\ \A s \in Sessions : RowStep(s)
  BY DEF TypeOK, RowStep
<1> QED
  BY <1>1, CreateRows, TouchRows, LogoutRows, PurgeRows
  DEF Next, Step, TimePasses, vars, BeginLogin, FindSession, CheckSession, Return,
      BeginLogout, BeginPurge

\* Rows only grow older: a row whose version stands has not changed at all, and an
\* end that was recorded stands.
LEMMA RowsAge ==
  ASSUME TypeOK, [Next]_vars, NEW s \in Sessions, session[s] \in SessionRows
  PROVE  /\ session'[s] \in SessionRows
         /\ session[s].version <= session'[s].version
         /\ session[s].version = session'[s].version => session'[s] = session[s]
         /\ session[s].revoked # Never => session'[s].revoked = session[s].revoked
<1>1. session[s].version \in Nat /\ session[s] # NoSession
  BY RowFacts
<1>2. \/ session'[s] = session[s]
      \/ session[s].revoked = Never /\ session'[s].version = session[s].version + 1
  BY <1>1, RowSteps DEF RowStep, Opens, Renews, Ends, SameBut
<1>3. session'[s].version >= 1
  BY <1>1, <1>2, RowFacts
<1>4. session'[s] # NoSession
  BY <1>3 DEF NoSession
<1>5. session'[s] \in SessionRows
  BY <1>4, RowSteps
<1> QED
  BY <1>1, <1>2, <1>5

-------------------------------------------------------------------------------
(* What a step does to a frame *)

\* The frame goes on with the session that it has read.
Keeps(c, op) ==
  /\ frame[c].op \in Carrying
  /\ frame'[c] \in Carriers /\ frame'[c].op = op
  /\ frame'[c].session = frame[c].session /\ frame'[c].row = frame[c].row
  /\ frame'[c].late = frame[c].late

Reads(c, s) ==
  /\ session[s] \in SessionRows /\ session' = session
  /\ frame'[c] \in Carriers /\ frame'[c].op = "read"
  /\ frame'[c].session = s /\ frame'[c].row = session[s] /\ frame'[c].at = now
  /\ frame'[c].late => s \in loggedOut \/ session[s].expires <= now

Passes(c, op) ==
  /\ frame[c].op = "read"
  /\ ActiveAt(frame[c].row, now)
  /\ Keeps(c, op) /\ frame'[c].at = now
  /\ op = "touch" => now - frame[c].row.lastSeen >= TouchGap

GoesOn(c) ==
  \/ frame[c].op = "touch" /\ Keeps(c, "admitted")
  \/ frame[c].op = "admitted" /\ Keeps(c, "logout")

Rests(c) == frame'[c] \in Frames \cup {Idle} /\ frame'[c].op \notin Carrying

FrameStep(c) ==
  \/ frame'[c] = frame[c]
  \/ \E s \in Sessions : Reads(c, s)
  \/ \E op \in {"touch", "admitted"} : Passes(c, op)
  \/ GoesOn(c)
  \/ Rests(c)

LEMMA KeepFacts ==
  ASSUME NEW c \in Clients, frame[c] \in Carriers, NEW op \in Carrying, NEW t \in Times
  PROVE  /\ frame'[c] = [frame[c] EXCEPT !.op = op] => Keeps(c, op)
         /\ frame'[c] = [frame[c] EXCEPT !.op = op, !.at = t]
              => Keeps(c, op) /\ frame'[c].at = t
<1> DEFINE f == frame[c]
           z == [f EXCEPT !.op = op]
           x == [f EXCEPT !.op = op, !.at = t]
<1> HIDE DEF f
<1>1. f \in Carriers
  BY DEF f
<1>2. /\ z \in Carriers /\ z.op = op /\ z.session = f.session /\ z.row = f.row
      /\ z.late = f.late
  BY <1>1 DEF Carriers
<1>3. /\ x \in Carriers /\ x.op = op /\ x.session = f.session /\ x.row = f.row
      /\ x.late = f.late /\ x.at = t
  BY <1>1 DEF Carriers
<1>4. f.op \in Carrying
  BY <1>1 DEF Carriers
<1> QED
  BY <1>2, <1>3, <1>4 DEF Keeps, f

LEMMA FindFrame ==
  ASSUME TypeOK, NEW c \in Clients, FindSession(c)
  PROVE  FrameStep(c)
<1>1. PICK s \in Sessions :
        /\ session[s] # NoSession /\ session' = session
        /\ frame' = [frame EXCEPT ![c] =
             [op |-> "read", session |-> s, row |-> session[s], at |-> now,
              late |-> s \in loggedOut \/ session[s].expires <= now]]
  BY DEF FindSession, Become
<1> DEFINE late == (s \in loggedOut \/ session[s].expires <= now)
<1>2. late \in BOOLEAN /\ (late => s \in loggedOut \/ session[s].expires <= now)
  OBVIOUS
<1>3. frame'[c] = [op |-> "read", session |-> s, row |-> session[s], at |-> now,
                   late |-> late]
  BY <1>1 DEF TypeOK
<1> HIDE DEF late
<1>4. session[s] \in SessionRows /\ now \in Times
  BY <1>1 DEF TypeOK
<1>5. /\ frame'[c] \in Carriers /\ frame'[c].op = "read" /\ frame'[c].session = s
      /\ frame'[c].row = session[s] /\ frame'[c].at = now /\ frame'[c].late = late
  BY <1>2, <1>3, <1>4 DEF Carriers, Carrying
<1>6. Reads(c, s)
  BY <1>1, <1>2, <1>4, <1>5 DEF Reads
<1> QED
  BY <1>6 DEF FrameStep

LEMMA CheckFrame ==
  ASSUME TypeOK, NEW c \in Clients, CheckSession(c)
  PROVE  FrameStep(c)
<1>1. frame[c].op = "read" /\ ActiveAt(frame[c].row, now) /\ now \in Times
  BY DEF CheckSession, TypeOK
<1>2. frame[c] \in Carriers
  BY <1>1, CarrierFacts DEF Carrying
<1>3. PICK op \in {"touch", "admitted"} :
        /\ frame' = [frame EXCEPT ![c] = [frame[c] EXCEPT !.op = op, !.at = now]]
        /\ op = "touch" => now - frame[c].row.lastSeen >= TouchGap
  BY DEF CheckSession, Become
<1>4. frame'[c] = [frame[c] EXCEPT !.op = op, !.at = now]
  BY <1>3 DEF TypeOK
<1>a. op \in Carrying
  BY DEF Carrying
<1>5. Keeps(c, op) /\ frame'[c].at = now
  <2>1. \A t \in Times :
          frame'[c] = [frame[c] EXCEPT !.op = op, !.at = t]
            => Keeps(c, op) /\ frame'[c].at = t
    BY <1>2, <1>a, KeepFacts
  <2> QED
    BY <1>1, <1>4, <2>1
<1> QED
  BY <1>1, <1>3, <1>5 DEF FrameStep, Passes

LEMMA GoFrame ==
  ASSUME TypeOK, NEW c \in Clients, TouchSession(c) \/ BeginLogout(c)
  PROVE  FrameStep(c)
<1>1. frame[c].op \in Carrying /\ now \in Times
  BY DEF TouchSession, BeginLogout, Carrying, TypeOK
<1>2. frame[c] \in Carriers
  BY <1>1, CarrierFacts
<1>3. CASE TouchSession(c)
  <2>1. frame[c].op = "touch" /\ frame'[c] = [frame[c] EXCEPT !.op = "admitted"]
    BY <1>3 DEF TouchSession, Become, TypeOK
  <2>2. Keeps(c, "admitted")
    BY <1>1, <1>2, <2>1, KeepFacts DEF Carrying
  <2> QED
    BY <2>1, <2>2 DEF FrameStep, GoesOn
<1>4. CASE BeginLogout(c)
  <2>1. frame[c].op = "admitted" /\ frame'[c] = [frame[c] EXCEPT !.op = "logout", !.at = now]
    BY <1>4 DEF BeginLogout, Become, TypeOK
  <2>2. Keeps(c, "logout")
    BY <1>1, <1>2, <2>1, KeepFacts DEF Carrying
  <2> QED
    BY <2>1, <2>2 DEF FrameStep, GoesOn
<1> QED
  BY <1>3, <1>4

LEMMA RestFrame ==
  ASSUME TypeOK, NEW c \in Clients,
         \/ BeginLogin(c) \/ CreateSession(c) \/ Return(c)
         \/ RevokeSession(c) \/ BeginPurge(c) \/ RevokeExpired(c)
  PROVE  FrameStep(c)
<1>1. \/ frame'[c] = Idle
      \/ \E op \in {"login", "purge"} : frame'[c] = [op |-> op, at |-> now]
  BY DEF BeginLogin, CreateSession, Return, RevokeSession, BeginPurge, RevokeExpired,
         Become, TypeOK
<1>2. now \in Times
  BY DEF TypeOK
<1>3. frame'[c] \in Frames \cup {Idle} /\ frame'[c].op \notin Carrying
  BY <1>1, <1>2 DEF Frames, Idle, Carrying
<1> QED
  BY <1>3 DEF FrameStep, Rests

LEMMA FrameSteps ==
  ASSUME TypeOK, [Next]_vars
  PROVE  /\ \A c \in Clients : FrameStep(c)
         /\ \E x : frame' = frame \/ \E c \in Clients : frame' = [frame EXCEPT ![c] = x]
<1>1. ASSUME NEW c \in Clients, Step(c)
      PROVE  /\ FrameStep(c)
             /\ \E x : frame' = [frame EXCEPT ![c] = x]
  <2>1. FrameStep(c)
    BY <1>1, FindFrame, CheckFrame, GoFrame, RestFrame DEF Step
  <2>2. \E x : frame' = [frame EXCEPT ![c] = x]
    BY <1>1
    DEF Step, BeginLogin, CreateSession, FindSession, CheckSession, TouchSession, Return,
        BeginLogout, RevokeSession, BeginPurge, RevokeExpired, Become
  <2> QED
    BY <2>1, <2>2
<1>2. ASSUME NEW c \in Clients, Step(c)
      PROVE  \A d \in Clients : FrameStep(d)
  BY <1>1, <1>2 DEF FrameStep, TypeOK
<1>3. frame' = frame => \A c \in Clients : FrameStep(c)
  BY DEF FrameStep
<1> QED
  BY <1>1, <1>2, <1>3 DEF Next, TimePasses, vars

-------------------------------------------------------------------------------
(* Type correctness *)

LEMMA TimeSteps ==
  ASSUME TypeOK, [Next]_vars
  PROVE  now \in Nat /\ now' \in Times /\ (now' = now \/ now' = now + 1)
<1>1. now \in Times /\ MaxTime \in Nat
  BY SessionsAssumption DEF TypeOK, SessionsAssumption
<1>2. now' = now \/ (now < MaxTime /\ now' = now + 1)
  BY DEF Next, TimePasses, vars
<1> QED
  BY <1>1, <1>2 DEF Times

LEMMA TypeStep ==
  ASSUME TypeOK, [Next]_vars
  PROVE  TypeOK'
<1>1. session' \in [Sessions -> SessionRows \cup {NoSession}]
  BY RowSteps
<1>2. \A c \in Clients : frame'[c] \in Frames \cup {Idle}
  <2>1. Carriers \subseteq Frames
    BY DEF Carriers, Frames, Carrying
  <2> QED
    BY <2>1, FrameSteps DEF FrameStep, Reads, Passes, GoesOn, Keeps, Rests, TypeOK
<1>3. frame' \in [Clients -> Frames \cup {Idle}]
  BY <1>2, FrameSteps DEF TypeOK
<1>4. ASSUME NEW c \in Clients, frame'[c].op \in Carrying
      PROVE  LET row == session'[frame'[c].session]
             IN /\ frame'[c].row.version <= row.version
                /\ frame'[c].row.version = row.version => frame'[c].row = row
  <2>1. CASE \E s \in Sessions : Reads(c, s)
    BY <2>1, RowFacts DEF Reads
  <2>2. CASE /\ frame[c].op \in Carrying
             /\ frame'[c].session = frame[c].session /\ frame'[c].row = frame[c].row
    <3>1. PICK s \in Sessions, row \in SessionRows :
            s = frame[c].session /\ row = frame[c].row
      BY <2>2, CarrierFacts
    <3>2. /\ session[s] \in SessionRows /\ row.version <= session[s].version
          /\ row.version = session[s].version => row = session[s]
      BY <2>2, <3>1, CarrierFacts
    <3>3. /\ session'[s] \in SessionRows /\ session[s].version <= session'[s].version
          /\ session[s].version = session'[s].version => session'[s] = session[s]
      BY <3>2, RowsAge
    <3>4. row.version \in Nat /\ session[s].version \in Nat /\ session'[s].version \in Nat
      BY <3>2, <3>3, RowFacts
    <3> QED
      BY <2>2, <3>1, <3>2, <3>3, <3>4
  <2>3. ~Rests(c)
    BY <1>4 DEF Rests
  <2> QED
    BY <1>4, <2>1, <2>2, <2>3, FrameSteps DEF FrameStep, Passes, GoesOn, Keeps
<1>5. loggedOut' \subseteq Sessions
  <2>1. ASSUME NEW c \in Clients, RevokeSession(c)
        PROVE  loggedOut' \subseteq Sessions
    BY <2>1, CarrierFacts DEF RevokeSession, TypeOK, Carrying
  <2> QED
    BY <2>1
    DEF Next, Step, TimePasses, vars, BeginLogin, CreateSession, FindSession, CheckSession,
        TouchSession, Return, BeginLogout, BeginPurge, RevokeExpired, TypeOK
<1> QED
  BY <1>1, <1>3, <1>4, <1>5, TimeSteps DEF TypeOK, Carrying

LEMMA TypeInit == Init => TypeOK
<1>1. 1 \in Times
  BY SessionsAssumption DEF Times, SessionsAssumption
<1> QED
  BY <1>1 DEF Init, TypeOK, Idle

\* Sessions and requests have their types, and the row that a request has read is
\* the present one unless a newer version replaced it.
THEOREM TypeCorrect == Spec => []TypeOK
BY TypeInit, TypeStep, PTL DEF Spec

-------------------------------------------------------------------------------
(* Logout *)

\* LogoutIsEffective, and the sessions that were logged out of are still there.
EndedInv ==
  \A s \in loggedOut :
    s \in Sessions /\ session[s] \in SessionRows /\ session[s].revoked # Never

LEMMA LogoutEnds ==
  ASSUME TypeOK, NEW c \in Clients, RevokeSession(c)
  PROVE  \E s \in Sessions :
           /\ loggedOut' = loggedOut \cup {s}
           /\ session[s] \in SessionRows /\ session'[s].revoked # Never
<1>1. frame[c].op = "logout"
  BY DEF RevokeSession
<1>2. PICK s \in Sessions, t \in Times :
        s = frame[c].session /\ t = frame[c].at /\ session[s] \in SessionRows
  BY <1>1, CarrierFacts DEF Carrying
<1>3. CASE Revocable(s, t)
  <2>1. session' = [session EXCEPT ![s] = Revoked(s, t)]
    BY <1>2, <1>3 DEF RevokeSession
  <2>2. session'[s] = Revoked(s, t)
    BY <2>1 DEF TypeOK
  <2>3. SameBut(Revoked(s, t), session[s], session[s].lastSeen, t)
    BY <1>2, RowsChange DEF Revoked
  <2>4. session'[s].revoked # Never
    BY <2>2, <2>3, Constants DEF SameBut, Never
  <2> QED
    BY <1>2, <2>4 DEF RevokeSession
<1>4. CASE ~Revocable(s, t)
  <2>1. session' = session /\ session[s].revoked # Never
    BY <1>2, <1>4 DEF RevokeSession, Revocable
  <2> QED
    BY <1>2, <2>1 DEF RevokeSession
<1> QED
  BY <1>3, <1>4

LEMMA EndedStep ==
  ASSUME TypeOK, EndedInv, [Next]_vars
  PROVE  EndedInv'
<1>1. \/ loggedOut' = loggedOut
      \/ \E c \in Clients : RevokeSession(c)
  BY DEF Next, Step, TimePasses, vars, BeginLogin, CreateSession, FindSession, CheckSession,
         TouchSession, Return, BeginLogout, BeginPurge, RevokeExpired
<1>2. \A s \in loggedOut' : s \in loggedOut \/ session'[s].revoked # Never
  BY <1>1, LogoutEnds
<1>3. \A s \in loggedOut' : s \in Sessions /\ session[s] \in SessionRows
  BY <1>1, LogoutEnds DEF EndedInv
<1> QED
  BY <1>2, <1>3, RowsAge DEF EndedInv

LEMMA EndedAlways == Spec => []EndedInv
<1>1. Init => EndedInv
  BY DEF Init, EndedInv
<1>2. TypeOK /\ EndedInv /\ [Next]_vars => EndedInv'
  BY EndedStep
<1> QED
  BY <1>1, <1>2, TypeCorrect, PTL DEF Spec

\* A session whose logout was answered is revoked, whichever requests renewed,
\* purged or revoked it between the steps of that logout.
THEOREM LogoutsCorrect == Spec => []LogoutIsEffective
<1>1. EndedInv => LogoutIsEffective
  BY DEF EndedInv, LogoutIsEffective
<1> QED
  BY <1>1, EndedAlways, PTL

-------------------------------------------------------------------------------
(* Admission *)

\* A request that came late has read a row that is over, and one that passed the
\* check did not come late.
EntryHolds(c) ==
  /\ frame[c].op \in Carrying => frame[c].at <= now
  /\ frame[c].op = "read" =>
       (frame[c].late =>
         frame[c].row.revoked # Never \/ frame[c].row.expires <= frame[c].at)
  /\ frame[c].op \in {"touch", "admitted", "logout"} =>
       ~frame[c].late /\ frame[c].row.revoked = Never
EntryInv == \A c \in Clients : EntryHolds(c)

\* A frame that goes on keeps its time or takes the present one.
LEMMA FrameTimes ==
  ASSUME TypeOK, [Next]_vars, NEW c \in Clients, frame'[c].op \in Carrying
  PROVE  \/ frame[c].op \in Carrying /\ frame'[c].at = frame[c].at
         \/ frame'[c].at = now
<1>1. CASE \E d \in Clients : Step(d)
  <2>1. PICK d \in Clients : Step(d)
    BY <1>1
  <2>2. CASE d = c
    <3>1. CASE TouchSession(c)
      <4>1. frame'[c] = [frame[c] EXCEPT !.op = "admitted"] /\ frame[c].op = "touch"
        BY <3>1 DEF TouchSession, Become, TypeOK
      <4>2. frame[c] \in Carriers
        BY <4>1, CarrierFacts DEF Carrying
      <4>3. frame'[c].at = frame[c].at
        BY <4>1, <4>2 DEF Carriers
      <4> QED
        BY <4>1, <4>3 DEF Carrying
    <3>2. CASE CheckSession(c) \/ BeginLogout(c)
      <4>1. frame[c].op \in Carrying
        BY <3>2 DEF CheckSession, BeginLogout, Carrying
      <4>2. frame[c] \in Carriers
        BY <4>1, CarrierFacts
      <4>3. \E op \in Carrying : frame'[c] = [frame[c] EXCEPT !.op = op, !.at = now]
        BY <3>2 DEF CheckSession, BeginLogout, Become, TypeOK, Carrying
      <4>4. frame'[c].at = now
        BY <4>2, <4>3 DEF Carriers
      <4> QED
        BY <4>4
    <3>3. CASE FindSession(c)
      BY <3>3 DEF FindSession, Become, TypeOK
    <3>4. CASE \/ BeginLogin(c) \/ CreateSession(c) \/ Return(c)
               \/ RevokeSession(c) \/ BeginPurge(c) \/ RevokeExpired(c)
      <4>1. frame'[c] = Idle \/ \E op \in {"login", "purge"} : frame'[c] = [op |-> op, at |-> now]
        BY <3>4 DEF BeginLogin, CreateSession, Return, RevokeSession, BeginPurge,
                    RevokeExpired, Become, TypeOK
      <4> QED
        BY <4>1 DEF Idle, Carrying
    <3> QED
      BY <2>1, <2>2, <3>1, <3>2, <3>3, <3>4 DEF Step
  <2>3. CASE d # c
    <3>1. frame'[c] = frame[c]
      BY <2>1, <2>3
      DEF Step, BeginLogin, CreateSession, FindSession, CheckSession, TouchSession, Return,
          BeginLogout, RevokeSession, BeginPurge, RevokeExpired, Become, TypeOK
    <3> QED
      BY <3>1
  <2> QED
    BY <2>2, <2>3
<1>2. CASE frame' = frame
  BY <1>2
<1> QED
  BY <1>1, <1>2 DEF Next, TimePasses, vars

LEMMA EntryStep ==
  ASSUME TypeOK, EndedInv, EntryInv, [Next]_vars
  PROVE  EntryInv'
<1> SUFFICES ASSUME NEW c \in Clients, frame'[c].op \in Carrying PROVE EntryHolds(c)'
  BY DEF EntryInv, EntryHolds, Carrying
<1>1. EntryHolds(c) /\ now \in Nat /\ (now' = now \/ now' = now + 1)
  BY TimeSteps DEF EntryInv
<1>2. frame[c].op \in Carrying => frame[c].at \in Nat
  BY CarrierFacts, Constants
<1>3. frame'[c].at <= now'
  BY <1>1, <1>2, FrameTimes DEF EntryHolds
<1>4. CASE frame'[c] = frame[c]
  BY <1>1, <1>3, <1>4 DEF EntryHolds
<1>5. ASSUME NEW s \in Sessions, Reads(c, s)
      PROVE  EntryHolds(c)'
  <2>1. frame'[c].late => session[s].revoked # Never \/ session[s].expires <= now
    BY <1>5 DEF Reads, EndedInv
  <2> QED
    BY <1>3, <1>5, <2>1 DEF Reads, EntryHolds
<1>6. ASSUME NEW op \in {"touch", "admitted"}, Passes(c, op)
      PROVE  EntryHolds(c)'
  <2>1. frame[c].row.revoked = Never /\ now < frame[c].row.expires
    BY <1>6 DEF Passes, ActiveAt
  <2>2. frame[c].row.expires \in Nat /\ frame[c].at \in Nat /\ frame[c].at <= now
    BY <1>1, <1>2, <1>6, CarrierFacts, RowFacts DEF Passes, Carrying, EntryHolds
  <2>3. ~frame[c].late
    BY <1>1, <1>6, <2>1, <2>2 DEF Passes, EntryHolds
  <2> QED
    BY <1>3, <1>6, <2>1, <2>3 DEF Passes, Keeps, EntryHolds
<1>7. CASE GoesOn(c)
  BY <1>1, <1>3, <1>7 DEF GoesOn, Keeps, EntryHolds
<1> QED
  BY <1>4, <1>5, <1>6, <1>7, FrameSteps DEF FrameStep, Rests

\* A request that begins once its session is over is never admitted, although the
\* session is read and the clock looked at in two steps, and nothing is read again.
THEOREM EntriesCorrect == Spec => []NoEntryAfterEnd
<1>1. Init => EntryInv
  BY DEF Init, EntryInv, EntryHolds, Idle, Carrying
<1>2. TypeOK /\ EndedInv /\ EntryInv /\ [Next]_vars => EntryInv'
  BY EntryStep
<1>3. EntryInv => NoEntryAfterEnd
  BY DEF EntryInv, EntryHolds, NoEntryAfterEnd
<1> QED
  BY <1>1, <1>2, <1>3, TypeCorrect, EndedAlways, PTL DEF Spec

-------------------------------------------------------------------------------
(* Renewals *)

\* TouchesSpaced for one session.
Spaced(s) ==
  LET touches == session[s].version - (IF session[s].revoked = Never THEN 1 ELSE 2)
  IN /\ session[s].lastSeen >= session[s].created + TouchGap * touches
     /\ session[s].lastSeen < session[s].expires

\* A request about to renew found, in the row it read, that the gap was over and the
\* session was not.
TouchDue(c) ==
  frame[c].op = "touch" =>
    /\ frame[c].at - frame[c].row.lastSeen >= TouchGap
    /\ frame[c].at < frame[c].row.expires

SpacedInv ==
  /\ \A s \in Sessions : session[s] # NoSession => Spaced(s)
  /\ \A c \in Clients : TouchDue(c)

LEMMA GapAdds ==
  ASSUME NEW g \in Nat, NEW n \in Int
  PROVE  g * (n + 1) = g * n + g /\ g * n \in Int /\ g * 0 = 0
OBVIOUS

LEMMA SpacedRow ==
  ASSUME TypeOK, SpacedInv, [Next]_vars, NEW s \in Sessions, session'[s] # NoSession
  PROVE  Spaced(s)'
<1>1. CASE session'[s] = session[s]
  BY <1>1 DEF SpacedInv, Spaced
<1>2. CASE Opens(s)
  <2>1. PICK t \in Times : session'[s] = Opened(t)
    BY <1>2 DEF Opens
  <2>2. t \in Nat /\ TTL \in Nat /\ TTL > 0 /\ TouchGap \in Nat
    BY Constants
  <2>3. /\ session'[s].version = 1 /\ session'[s].revoked = Never
        /\ session'[s].lastSeen = t /\ session'[s].created = t
        /\ session'[s].expires = t + TTL
    BY <2>1 DEF Opened
  <2>4. TouchGap * (1 - 1) = 0
    BY <2>2
  <2> QED
    BY <2>2, <2>3, <2>4 DEF Spaced
<1>3. ASSUME NEW c \in Clients, NEW t \in Times, Renews(c, s, t)
      PROVE  Spaced(s)'
  <2>1. PICK row \in SessionRows : row = session[s]
    BY <1>3 DEF Renews
  <2>2. /\ row.version \in Nat /\ row.created \in Nat /\ row.lastSeen \in Nat
        /\ row.expires \in Nat /\ t \in Nat /\ TouchGap \in Nat
    BY RowFacts, Constants
  <2>3. t - row.lastSeen >= TouchGap /\ t < row.expires
    BY <1>3, <2>1 DEF Renews, SpacedInv, TouchDue
  <2>4. row.lastSeen >= row.created + TouchGap * (row.version - 1)
    <3>1. session[s] # NoSession
      BY <1>3, RowFacts DEF Renews
    <3> QED
      BY <1>3, <2>1, <3>1 DEF Renews, SpacedInv, Spaced
  <2>5. /\ session'[s].version = row.version + 1 /\ session'[s].revoked = Never
        /\ session'[s].lastSeen = t /\ session'[s].created = row.created
        /\ session'[s].expires = row.expires
    BY <1>3, <2>1 DEF Renews, SameBut
  <2>6. PICK n \in Int : n = row.version - 1
    BY <2>2
  <2>7. TouchGap * (n + 1) = TouchGap * n + TouchGap /\ TouchGap * n \in Int
    BY <2>2, <2>6, GapAdds
  <2>8. PICK m \in Int : m = TouchGap * n
    BY <2>7
  <2>9. t >= row.created + (m + TouchGap)
    BY <2>2, <2>3, <2>4, <2>6, <2>8
  <2>10. session'[s].version - 1 = n + 1
    BY <2>2, <2>5, <2>6
  <2>11. t >= row.created + TouchGap * (session'[s].version - 1)
    BY <2>7, <2>8, <2>9, <2>10
  <2> QED
    BY <2>3, <2>5, <2>11 DEF Spaced
<1>4. ASSUME NEW t \in Times, Ends(s, t)
      PROVE  Spaced(s)'
  <2>1. PICK row \in SessionRows : row = session[s] /\ row # NoSession
    BY <1>4, RowFacts DEF Ends
  <2>2. row.version \in Nat /\ t # Never
    BY RowFacts, Constants DEF Never
  <2>3. /\ row.lastSeen >= row.created + TouchGap * (row.version - 1)
        /\ row.lastSeen < row.expires
    BY <1>4, <2>1 DEF Ends, SpacedInv, Spaced
  <2>4. /\ session'[s].version = row.version + 1 /\ session'[s].revoked = t
        /\ session'[s].lastSeen = row.lastSeen /\ session'[s].created = row.created
        /\ session'[s].expires = row.expires
    BY <1>4, <2>1 DEF Ends, SameBut
  <2>5. session'[s].version - 2 = row.version - 1
    BY <2>2, <2>4
  <2>6. row.lastSeen >= row.created + TouchGap * (session'[s].version - 2)
    BY <2>3, <2>5
  <2> QED
    BY <2>2, <2>3, <2>4, <2>6 DEF Spaced
<1> QED
  BY <1>1, <1>2, <1>3, <1>4, RowSteps DEF RowStep

LEMMA DueStep ==
  ASSUME TypeOK, SpacedInv, [Next]_vars, NEW c \in Clients
  PROVE  TouchDue(c)'
<1>1. CASE frame'[c] = frame[c]
  BY <1>1 DEF SpacedInv, TouchDue
<1>2. ASSUME NEW op \in {"touch", "admitted"}, Passes(c, op)
      PROVE  TouchDue(c)'
  BY <1>2 DEF Passes, Keeps, TouchDue, ActiveAt
<1> QED
  BY <1>1, <1>2, FrameSteps DEF FrameStep, Reads, GoesOn, Keeps, Rests, TouchDue, Carrying

\* last_seen_at is renewed at most once in each gap, however many requests have
\* found it old: the version that they read lets one of them through.
THEOREM TouchesCorrect == Spec => []TouchesSpaced
<1>1. Init => SpacedInv
  BY DEF Init, SpacedInv, TouchDue, Idle
<1>2. TypeOK /\ SpacedInv /\ [Next]_vars => SpacedInv'
  BY SpacedRow, DueStep DEF SpacedInv
<1>3. SpacedInv => TouchesSpaced
  BY DEF SpacedInv, Spaced, TouchesSpaced
<1> QED
  BY <1>1, <1>2, <1>3, TypeCorrect, PTL DEF Spec

-------------------------------------------------------------------------------
(* Revocation *)

\* The order of the texts agrees with that of the times, to the second.
LEMMA TextOrder ==
  ASSUME NEW a \in Nat, NEW b \in Nat, Text(a) <= Text(b)
  PROVE  Second(a) <= Second(b)
BY DEF Text, Second

\* A session is revoked by a logout or, to the second, no sooner than it expires,
\* and the moment of its revocation never changes.
THEOREM RevocationsCorrect == Spec => RevokedForAReason
<1> DEFINE Reasoned ==
      \A s \in Sessions :
       (session[s] # NoSession /\ session'[s].revoked # session[s].revoked) =>
         /\ session[s].revoked = Never
         /\ s \in loggedOut' \/ Second(session[s].expires) <= Second(session'[s].revoked)
<1>1. TypeOK /\ [Next]_vars => [Reasoned]_vars
  <2> SUFFICES ASSUME TypeOK, [Next]_vars, NEW s \in Sessions, session[s] # NoSession,
                      session'[s].revoked # session[s].revoked
               PROVE  /\ session[s].revoked = Never
                      /\ \/ s \in loggedOut'
                         \/ Second(session[s].expires) <= Second(session'[s].revoked)
    OBVIOUS
  <2>1. PICK t \in Times : Ends(s, t)
    BY RowSteps DEF RowStep, Opens, Renews, SameBut
  <2>2. session'[s].revoked = t /\ session[s].expires \in Nat /\ t \in Nat
    BY <2>1, RowFacts, Constants DEF Ends, SameBut
  <2> QED
    BY <2>1, <2>2, TextOrder DEF Ends
<1> QED
  BY <1>1, TypeCorrect, PTL DEF Spec, RevokedForAReason, Reasoned
================================================================================
