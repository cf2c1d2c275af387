-------------------------------- MODULE Sessions --------------------------------
(***************************************************************************)
(* Bearer sessions: login, the authentication of every request, logout and *)
(* the purge of what expired (internal/identity/service.go and             *)
(* internal/store/sqlite/identity.go).                                     *)
(*                                                                         *)
(* None of it runs in a transaction: a session is read, the clock is read, *)
(* and a row is updated, each a step of its own.  The clock counts half    *)
(* seconds and never goes back.  Users are given: a user is inserted       *)
(* active and nothing in the code changes that.                            *)
(***************************************************************************)
EXTENDS Integers, FiniteSets, Clock

CONSTANTS
  Clients,    \* slots for concurrent requests, and for the cleanup job
  Sessions,   \* ids that newID may hand out, each with its token
  TTL,        \* how long a session lasts
  TouchGap,   \* last_seen_at is renewed after that long (a minute)
  BatchSize,  \* sessions that one purge revokes
  MaxTime     \* bound on the clock

ASSUME SessionsAssumption ==
  /\ IsFiniteSet(Sessions)
  /\ TTL \in Nat \ {0} /\ TouchGap \in Nat \ {0}
  /\ BatchSize \in 1 .. 1000
  /\ MaxTime \in Nat \ {0}

VARIABLES
  session,    \* table sessions
  frame,      \* the request each client has in flight
  now,        \* the clock
  loggedOut   \* sessions whose logout has been answered

vars == <<session, frame, now, loggedOut>>

Times == 1 .. MaxTime
Never == 0
NoSession == [version |-> 0]
Idle == [op |-> "idle"]

SessionRows ==
  [version : Nat \ {0}, created : Times, lastSeen : Times, expires : Nat,
   revoked : Times \cup {Never}]
Frames ==
  [op : {"login", "purge"}, at : Times]
    \cup [op : {"read", "touch", "admitted", "logout"}, session : Sessions,
          row : SessionRows, at : Times, late : BOOLEAN]

Init ==
  /\ session = [s \in Sessions |-> NoSession]
  /\ frame = [c \in Clients |-> Idle]
  /\ now = 1
  /\ loggedOut = {}

Become(c, f) == frame' = [frame EXCEPT ![c] = f]

-------------------------------------------------------------------------------
(* Login: the user is found and the password matches, the clock is read, and *)
(* the session is inserted.                                                  *)

BeginLogin(c) ==
  /\ frame[c] = Idle
  /\ Become(c, [op |-> "login", at |-> now])
  /\ UNCHANGED <<session, loggedOut>>

OpenedUnnumbered(t) ==
  [version |-> 0, created |-> t, lastSeen |-> t, expires |-> t + TTL, revoked |-> Never]
Opened(t) ==
  [version |-> 1, created |-> t, lastSeen |-> t, expires |-> t + TTL, revoked |-> Never]

CreateSession(c) ==
  /\ frame[c].op = "login"
  /\ \E s \in Sessions :
       session[s] = NoSession /\ session' = [session EXCEPT ![s] = Opened(frame[c].at)]
  /\ Become(c, Idle)
  /\ UNCHANGED loggedOut

-------------------------------------------------------------------------------
(* Authenticate: the session is read, then the clock; a session that was not *)
(* seen for a while is touched.                                              *)

\* FindSessionByDigest, the first thing a request does.  It comes late when its
\* session was over before it began.
FindSession(c) ==
  \E s \in Sessions :
    /\ frame[c] = Idle
    /\ session[s] # NoSession
    /\ Become(c, [op |-> "read", session |-> s, row |-> session[s], at |-> now,
                  late |-> s \in loggedOut \/ session[s].expires <= now])
    /\ UNCHANGED <<session, loggedOut>>

\* "s.RevokedAt == nil && now.Before(s.ExpiresAt)" of the row that was read
ActiveUntilExpiry(row, t) == t < row.expires
ActiveAt(row, t) == row.revoked = Never /\ t < row.expires

CheckSession(c) ==
  /\ frame[c].op = "read"
  /\ ActiveAt(frame[c].row, now)
  /\ Become(c, [frame[c] EXCEPT
                  !.op = IF now - frame[c].row.lastSeen >= TouchGap
                         THEN "touch" ELSE "admitted",
                  !.at = now])
  /\ UNCHANGED <<session, loggedOut>>

\* "WHERE id = ? AND version = ? AND revoked_at IS NULL AND expires_at > ?"
TouchableAtAnyVersion(s, v, t) ==
  session[s].revoked = Never /\ Text(session[s].expires) > Text(t)
Touchable(s, v, t) ==
  /\ session[s].version = v
  /\ session[s].revoked = Never
  /\ Text(session[s].expires) > Text(t)

\* A conflict is ignored: the request is admitted either way.
TouchSession(c) ==
  LET s == frame[c].session
      t == frame[c].at
  IN /\ frame[c].op = "touch"
     /\ session' = IF Touchable(s, frame[c].row.version, t)
                   THEN [session EXCEPT ![s] =
                           [@ EXCEPT !.lastSeen = t, !.version = session[s].version + 1]]
                   ELSE session
     /\ Become(c, [frame[c] EXCEPT !.op = "admitted"])
     /\ UNCHANGED loggedOut

\* The request is refused, answered or lost; a statement that fails changes nothing.
Return(c) ==
  /\ frame[c] # Idle
  /\ Become(c, Idle)
  /\ UNCHANGED <<session, loggedOut>>

-------------------------------------------------------------------------------
(* Logout, of an authenticated request, and the purge *)

BeginLogout(c) ==
  /\ frame[c].op = "admitted"
  /\ Become(c, [frame[c] EXCEPT !.op = "logout", !.at = now])
  /\ UNCHANGED <<session, loggedOut>>

\* "SET revoked_at = ?, version = version + 1"
Revoked(s, t) == [session[s] EXCEPT !.revoked = t, !.version = session[s].version + 1]

\* "WHERE id = ? AND revoked_at IS NULL", as version 0 asks for no version
RevocableUnexpired(s, t) == session[s].revoked = Never /\ t < session[s].expires
Revocable(s, t) == session[s].revoked = Never

\* A conflict is ignored: logging out twice succeeds twice.
RevokeSession(c) ==
  LET s == frame[c].session
  IN /\ frame[c].op = "logout"
     /\ session' = IF Revocable(s, frame[c].at)
                   THEN [session EXCEPT ![s] = Revoked(s, frame[c].at)] ELSE session
     /\ loggedOut' = loggedOut \cup {s}
     /\ Become(c, Idle)

\* The job session.cleanup and service PurgeExpired.
BeginPurge(c) ==
  /\ frame[c] = Idle
  /\ Become(c, [op |-> "purge", at |-> now])
  /\ UNCHANGED <<session, loggedOut>>

\* "WHERE revoked_at IS NULL AND expires_at <= ?"
PurgeableAlways(s, t) == session[s] # NoSession /\ session[s].revoked = Never
Purgeable(s, t) ==
  /\ session[s] # NoSession
  /\ session[s].revoked = Never
  /\ Text(session[s].expires) <= Text(t)

\* "ORDER BY expires_at LIMIT ?"
RevokeExpired(c) ==
  LET t == frame[c].at
      expired == {s \in Sessions : Purgeable(s, t)}
  IN /\ frame[c].op = "purge"
     /\ \E S \in SUBSET expired :
          /\ Cardinality(S) <= BatchSize
          /\ S = expired \/ Cardinality(S) = BatchSize
          /\ \A s \in S, r \in expired \ S :
               Text(session[s].expires) <= Text(session[r].expires)
          /\ session' = [s \in Sessions |-> IF s \in S THEN Revoked(s, t) ELSE session[s]]
     /\ Become(c, Idle)
     /\ UNCHANGED loggedOut

TimePasses ==
  /\ now < MaxTime
  /\ now' = now + 1
  /\ UNCHANGED <<session, frame, loggedOut>>

Step(c) ==
  \/ BeginLogin(c) \/ CreateSession(c)
  \/ FindSession(c) \/ CheckSession(c) \/ TouchSession(c) \/ Return(c)
  \/ BeginLogout(c) \/ RevokeSession(c)
  \/ BeginPurge(c) \/ RevokeExpired(c)

Next ==
  \/ \E c \in Clients : Step(c) /\ UNCHANGED now
  \/ TimePasses

Spec == Init /\ [][Next]_vars

-------------------------------------------------------------------------------
(* Properties *)

\* Rows and frames have their types, and what a frame read was once the row: the
\* row has only grown older since.
TypeOK ==
  /\ session \in [Sessions -> SessionRows \cup {NoSession}]
  /\ frame \in [Clients -> Frames \cup {Idle}]
  /\ \A c \in Clients :
       frame[c].op \in {"read", "touch", "admitted", "logout"} =>
         LET row == session[frame[c].session]
         IN /\ frame[c].row.version <= row.version
            /\ frame[c].row.version = row.version => frame[c].row = row
  /\ now \in Times
  /\ loggedOut \subseteq Sessions

\* Logout swallows the conflict of RevokeSession, and yet once it is answered the
\* session is revoked, whoever touched, purged or revoked it meanwhile.
LogoutIsEffective == \A s \in loggedOut : session[s].revoked # Never

\* A request that begins after a logout of its session was answered, or when the
\* session has expired, is never admitted; nor is one that read a revoked session.
NoEntryAfterEnd ==
  \A c \in Clients :
    frame[c].op \in {"touch", "admitted", "logout"} =>
      ~frame[c].late /\ frame[c].row.revoked = Never

\* A session is revoked only by a logout or once it expires, to the second: the
\* purge may come early within that second, where the texts of times are out of
\* order.  The moment of its revocation, once recorded, stands.
RevokedForAReason ==
  [][\A s \in Sessions :
       (session[s] # NoSession /\ session'[s].revoked # session[s].revoked) =>
         /\ session[s].revoked = Never
         /\ s \in loggedOut' \/ Second(session[s].expires) <= Second(session'[s].revoked)]_vars

\* However many requests carry a token at once, one of them at most renews
\* last_seen_at in each gap: the version counts the renewals.
TouchesSpaced ==
  \A s \in Sessions :
    session[s] # NoSession =>
      LET touches == session[s].version - (IF session[s].revoked = Never THEN 1 ELSE 2)
      IN /\ session[s].lastSeen >= session[s].created + TouchGap * touches
         /\ session[s].lastSeen < session[s].expires
================================================================================
