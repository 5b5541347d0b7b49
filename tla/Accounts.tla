------------------------------ MODULE Accounts ------------------------------
(***************************************************************************)
(* Admins and their sessions: the setup wizard, sign-in and its limiter,   *)
(* sign-out and the change of the password (api/auth.go), the              *)
(* authentication of every other request (api/server.go) and the users and *)
(* sessions tables (store/users.go).                                       *)
(*                                                                         *)
(* A request is a sequence of SQL statements, each atomic; the clock moves *)
(* between them.  A password is the number of the change that set it.      *)
(***************************************************************************)
EXTENDS Integers, FiniteSets

CONSTANTS
    Names, Addrs,    \* user names, and client addresses as clientAddr finds them
    Handlers,        \* request goroutines
    Tokens,          \* bound: sessions that are created
    NoName, NoToken, NoAddr,
    Idle, MaxAge,    \* SessionIdleTTL, SessionMaxTTL
    Minute,          \* the limiter's window
    Limit,           \* loginAttemptsPerMinute
    MaxTime,         \* bound of the clock
    MaxPasswords     \* bound: passwords a user has had

ASSUME TimesAssumption ==
    /\ {Idle, MaxAge, Minute, Limit, MaxTime, MaxPasswords} \subseteq Nat
    /\ Idle > 0 /\ Minute > 0
    /\ Idle <= MaxAge
ASSUME NamesAssumption == NoName \notin Names /\ NoToken \notin Tokens /\ NoAddr \notin Addrs

VARIABLES
    now,
    users,       \* the password of each user, 0 where there is no row
    sessions,    \* the rows of the sessions table
    setupToken,  \* this process minted one: it booted without an admin
    limiter,     \* loginLimiter: start and count
    hpc, arg,    \* where each handler is, and what it holds
    used,        \* history: when each session was last accepted, or created
    ended,       \* history: tokens whose row was deleted
    late,        \* history: sessions of a login that its password did not outlast, or that a
                 \* change of the password did not get to delete
    attempts     \* history: sign-ins let through, by age, since the last success

history == <<used, ended, late, attempts>>
vars == <<now, users, sessions, setupToken, limiter, hpc, arg, history>>

NoSession == [user |-> NoName, created |-> 0, expires |-> 0, password |-> 0]

\* password is history: the one the session was opened with.
Session == [user : Names, created : Nat, expires : Nat, password : Nat]

NoArg == [name |-> NoName, addr |-> NoAddr, password |-> 0, token |-> NoToken,
          row |-> NoSession, changes |-> FALSE]

Ages == 0 .. Minute - 1
NoAttempts == [age \in Ages |-> 0]

Exists(t) == sessions[t] # NoSession
HasUsers == \E n \in Names : users[n] # 0

Init ==
    /\ now = 0
    /\ \E admin \in Names : users \in {[n \in Names |-> 0],   \* bootstrapAdmin made one, or not
                                       [n \in Names |-> IF n = admin THEN 1 ELSE 0]}
    /\ sessions = [t \in Tokens |-> NoSession]
    /\ setupToken = ~HasUsers
    /\ limiter = [start |-> 0 - Minute, count |-> [a \in Addrs |-> 0]]
    /\ hpc = [h \in Handlers |-> "idle"]
    /\ arg = [h \in Handlers |-> NoArg]
    /\ used = [t \in Tokens |-> 0]
    /\ ended = {}
    /\ late = {}
    /\ attempts = [a \in Addrs |-> NoAttempts]

Goto(h, pc) == hpc' = [hpc EXCEPT ![h] = pc] /\ UNCHANGED arg

\* On to setSession: of what the handler holds, it needs the user.
OpenSession(h, password) ==
    /\ hpc' = [hpc EXCEPT ![h] = "session"]
    /\ arg' = [arg EXCEPT ![h] = [NoArg EXCEPT !.name = arg[h].name, !.password = password]]

\* The handler has answered.
Answer(h) == hpc' = [hpc EXCEPT ![h] = "idle"] /\ arg' = [arg EXCEPT ![h] = NoArg]

Begin(h, pc, a) ==
    /\ hpc[h] = "idle"
    /\ hpc' = [hpc EXCEPT ![h] = pc]
    /\ arg' = [arg EXCEPT ![h] = a]

\* An SQL statement fails, and the handler answers with an error.
StatementFails(h) ==
    /\ hpc[h] \in {"create", "session", "read", "decide", "update", "revoke"}
    /\ late' = IF hpc[h] = "revoke"
               THEN late \cup {t \in Tokens : Exists(t) /\ sessions[t].user = arg[h].name}
               ELSE late
    /\ Answer(h)
    /\ UNCHANGED <<now, users, sessions, setupToken, limiter, used, ended, attempts>>

Tick ==
    /\ now < MaxTime
    /\ now' = now + 1
    /\ attempts' = [a \in Addrs |-> [age \in Ages |-> IF age = 0 THEN 0 ELSE attempts[a][age - 1]]]
    /\ UNCHANGED <<users, sessions, setupToken, limiter, hpc, arg, used, ended, late>>

-----------------------------------------------------------------------------
(* The sessions table.                                                     *)

\* store.CreateSession: a fresh token.
CreateSession(h) ==
    /\ hpc[h] = "session"
    /\ \E t \in Tokens :
          /\ ~Exists(t) /\ t \notin ended
          /\ sessions' = [sessions EXCEPT ![t] =
                [user |-> arg[h].name, created |-> now, expires |-> now + Idle,
                 password |-> arg[h].password]]
          /\ used' = [used EXCEPT ![t] = now]
          /\ late' = IF arg[h].password = users[arg[h].name] THEN late ELSE late \cup {t}
    /\ Answer(h)
    /\ UNCHANGED <<now, users, setupToken, limiter, ended, attempts>>

\* DELETE FROM sessions
Delete(gone) ==
    /\ sessions' = [t \in Tokens |-> IF t \in gone THEN NoSession ELSE sessions[t]]
    /\ ended' = ended \cup {t \in gone : Exists(t)}

\* handleLogout
Logout(t) ==
    /\ Exists(t)
    /\ Delete({t})
    /\ UNCHANGED <<now, users, setupToken, limiter, hpc, arg, used, late, attempts>>

\* store.PruneSessions, every hour
PruneSessions ==
    /\ \E t \in Tokens : Exists(t) /\ sessions[t].expires < now
    /\ Delete({t \in Tokens : Exists(t) /\ sessions[t].expires < now})
    /\ UNCHANGED <<now, users, setupToken, limiter, hpc, arg, used, late, attempts>>

-----------------------------------------------------------------------------
(* store.UserBySession: the row is read, then judged by the clock.         *)

Read(h, t, changes) ==
    /\ Exists(t)
    /\ Begin(h, "decide", [NoArg EXCEPT !.token = t, !.row = sessions[t],
                                        !.name = sessions[t].user, !.changes = changes])
    /\ UNCHANGED <<now, users, sessions, setupToken, limiter, history>>

HardEnd(row) == row.created + MaxAge
Expired(row) == row.expires < now \/ HardEnd(row) < now

Want(row) == IF now + Idle > HardEnd(row) THEN HardEnd(row) ELSE now + Idle
Slack == Idle \div 2
Slides(row) == row.expires < Want(row) - Slack \/ row.expires > Want(row) + Slack

Refuse(h) ==
    /\ hpc[h] = "decide"
    /\ Expired(arg[h].row)
    /\ Delete({arg[h].token})
    /\ Answer(h)
    /\ UNCHANGED <<now, users, setupToken, limiter, used, late, attempts>>

Accepted(h) ==
    /\ used' = [used EXCEPT ![arg[h].token] = now]
    /\ IF arg[h].changes
       THEN /\ hpc' = [hpc EXCEPT ![h] = "update"]
            /\ arg' = [arg EXCEPT ![h].row = NoSession]
       ELSE Answer(h)

\* Mutant: the ceiling is not applied.
AcceptForever(h) ==
    /\ hpc[h] = "decide"
    /\ arg[h].row.expires >= now
    /\ sessions' = IF Exists(arg[h].token)
                   THEN [sessions EXCEPT ![arg[h].token].expires = now + Idle]
                   ELSE sessions
    /\ Accepted(h)
    /\ UNCHANGED <<now, users, setupToken, limiter, ended, late, attempts>>

\* Mutant: the row is written back whole.
AcceptUpserting(h) ==
    LET row == arg[h].row IN
    /\ hpc[h] = "decide"
    /\ ~Expired(row)
    /\ sessions' = IF Slides(row)
                   THEN [sessions EXCEPT ![arg[h].token] = [row EXCEPT !.expires = Want(row)]]
                   ELSE sessions
    /\ Accepted(h)
    /\ UNCHANGED <<now, users, setupToken, limiter, ended, late, attempts>>

\* Mutant: the deadline moves only when it is more than a window off.
AcceptLazily(h) ==
    LET row == arg[h].row IN
    /\ hpc[h] = "decide"
    /\ ~Expired(row)
    /\ sessions' = IF row.expires < Want(row) - Idle /\ Exists(arg[h].token)
                   THEN [sessions EXCEPT ![arg[h].token].expires = Want(row)]
                   ELSE sessions
    /\ Accepted(h)
    /\ UNCHANGED <<now, users, setupToken, limiter, ended, late, attempts>>

\* The request goes on as the session's user, although the row may be gone now.
Accept(h) ==
    LET row == arg[h].row IN
    /\ hpc[h] = "decide"
    /\ ~Expired(row)
    /\ sessions' = IF Slides(row) /\ Exists(arg[h].token)
                   THEN [sessions EXCEPT ![arg[h].token].expires = Want(row)]
                   ELSE sessions
    /\ Accepted(h)
    /\ UNCHANGED <<now, users, setupToken, limiter, ended, late, attempts>>

-----------------------------------------------------------------------------
(* changePassword                                                          *)

\* store.SetPassword is two statements ...
SetPassword(h) ==
    LET n == arg[h].name IN
    /\ hpc[h] = "update"
    /\ users[n] < MaxPasswords
    /\ users' = [users EXCEPT ![n] = @ + 1]
    /\ hpc' = [hpc EXCEPT ![h] = "revoke"]
    /\ arg' = [arg EXCEPT ![h].password = users[n] + 1]
    /\ UNCHANGED <<now, sessions, setupToken, limiter, history>>

\* Mutant: only the session of the request is dropped.
RevokeOwnSession(h) ==
    /\ hpc[h] = "revoke"
    /\ Delete({arg[h].token})
    /\ OpenSession(h, arg[h].password)
    /\ UNCHANGED <<now, users, setupToken, limiter, used, late, attempts>>

\* ... the second of which ends the sessions; the caller gets a new one.
Revoke(h) ==
    /\ hpc[h] = "revoke"
    /\ Delete({t \in Tokens : Exists(t) /\ sessions[t].user = arg[h].name})
    /\ OpenSession(h, arg[h].password)
    /\ UNCHANGED <<now, users, setupToken, limiter, used, late, attempts>>

-----------------------------------------------------------------------------
(* handleLogin                                                             *)

WindowOver == now - limiter.start >= Minute
Count(a) == IF WindowOver THEN 0 ELSE limiter.count[a]

\* Mutant: every address has its own window, which starts again with each attempt.
LoginSliding(h, a, n, password) ==
    /\ limiter' = [start |-> now,
                   count |-> IF WindowOver THEN [b \in Addrs |-> IF b = a THEN 1 ELSE 0]
                             ELSE [limiter.count EXCEPT ![a] = IF @ >= Limit THEN 1 ELSE @ + 1]]
    /\ Begin(h, "read", [NoArg EXCEPT !.name = n, !.addr = a, !.password = password])
    /\ attempts' = [attempts EXCEPT ![a][0] = @ + 1]
    /\ UNCHANGED <<now, users, sessions, setupToken, used, ended, late>>

\* The attempt is counted before the password is looked at; one that is over
\* the limit is answered 429.
Login(h, a, n, password) ==
    /\ limiter' = [start |-> IF WindowOver THEN now ELSE limiter.start,
                   count |-> IF WindowOver THEN [b \in Addrs |-> IF b = a THEN 1 ELSE 0]
                             ELSE [limiter.count EXCEPT ![a] = @ + 1]]
    /\ IF Count(a) < Limit
       THEN /\ Begin(h, "read", [NoArg EXCEPT !.name = n, !.addr = a, !.password = password])
            /\ attempts' = [attempts EXCEPT ![a][0] = @ + 1]
       ELSE hpc[h] = "idle" /\ Count(a) = Limit /\ UNCHANGED <<hpc, arg, attempts>>
    /\ UNCHANGED <<now, users, sessions, setupToken, used, ended, late>>

\* store.Authenticate and, when it succeeds, loginLimiter.clear, which only
\* other sign-ins see.
Authenticate(h) ==
    LET right == users[arg[h].name] # 0 /\ users[arg[h].name] = arg[h].password IN
    /\ hpc[h] = "read"
    /\ IF right
       THEN /\ limiter' = [limiter EXCEPT !.count[arg[h].addr] = 0]
            /\ attempts' = [attempts EXCEPT ![arg[h].addr] = NoAttempts]
            /\ OpenSession(h, arg[h].password)
       ELSE Answer(h) /\ UNCHANGED <<limiter, attempts>>
    /\ UNCHANGED <<now, users, sessions, setupToken, used, ended, late>>

-----------------------------------------------------------------------------
(* handleSetup                                                             *)

\* Two checks, of the table and of the token the request carries ...
Setup(h, n) ==
    /\ ~HasUsers
    /\ setupToken
    /\ Begin(h, "create", [NoArg EXCEPT !.name = n])
    /\ UNCHANGED <<now, users, sessions, setupToken, limiter, history>>

\* ... then store.CreateUser, which refuses a name that is taken.
CreateUser(h) ==
    LET n == arg[h].name IN
    /\ hpc[h] = "create"
    /\ IF users[n] = 0
       THEN /\ users' = [users EXCEPT ![n] = 1]
            /\ OpenSession(h, 1)
       ELSE Answer(h) /\ UNCHANGED users
    /\ UNCHANGED <<now, sessions, setupToken, limiter, used, ended, late, attempts>>

-----------------------------------------------------------------------------
Request(h) ==
    \/ \E t \in Tokens, changes \in BOOLEAN : Read(h, t, changes)
    \/ \E a \in Addrs, n \in Names :
          \E password \in {0, users[n]} : Login(h, a, n, password)    \* 0: a wrong one
    \/ \E n \in Names : Setup(h, n)

Handle(h) ==
    \/ Refuse(h) \/ Accept(h) \/ SetPassword(h) \/ Revoke(h)
    \/ Authenticate(h) \/ CreateSession(h) \/ CreateUser(h)
    \/ StatementFails(h)

Next ==
    \/ Tick
    \/ PruneSessions
    \/ \E t \in Tokens : Logout(t)
    \/ \E h \in Handlers : Request(h) \/ Handle(h)

Spec == Init /\ [][Next]_vars

-----------------------------------------------------------------------------
(* Properties.                                                             *)

HandlerPCs == {"idle", "create", "session", "read", "decide", "update", "revoke"}

Arg == [name : Names \cup {NoName}, addr : Addrs \cup {NoAddr}, password : Nat,
        token : Tokens \cup {NoToken}, row : Session \cup {NoSession}, changes : BOOLEAN]

\* Every variable keeps its type, and every handler holds what its next
\* statement needs.
TypeOK ==
    /\ now \in Nat
    /\ users \in [Names -> Nat]
    /\ sessions \in [Tokens -> Session \cup {NoSession}]
    /\ setupToken \in BOOLEAN
    /\ limiter \in [start : Int, count : [Addrs -> Nat]]
    /\ hpc \in [Handlers -> HandlerPCs]
    /\ arg \in [Handlers -> Arg]
    /\ \A h \in Handlers :
          /\ hpc[h] # "idle" => arg[h].name \in Names
          /\ hpc[h] = "decide" => arg[h].token \in Tokens /\ arg[h].row \in Session
          /\ hpc[h] = "read" => arg[h].addr \in Addrs
    /\ used \in [Tokens -> Nat]
    /\ ended \subseteq Tokens /\ late \subseteq Tokens
    /\ attempts \in [Addrs -> [Ages -> Nat]]

\* "How long a session survives without a request", "the ceiling no amount of
\* activity raises" (store/users.go): no row lives past either, however
\* requests on it, a refresh and a change of the password interleave.
SessionsEnd ==
    \A t \in Tokens : Exists(t) =>
        /\ sessions[t].expires <= used[t] + Idle
        /\ sessions[t].expires <= HardEnd(sessions[t])

\* The half window the refresh saves costs no more than that: a session that
\* was used less than half a window ago is alive, up to half a window before
\* the ceiling.
UsedSessionsLive ==
    \A t \in Tokens : Exists(t) =>
        \/ sessions[t].expires >= used[t] + Idle - Slack
        \/ sessions[t].expires >= HardEnd(sessions[t]) - Slack

\* A session that was signed out, revoked or expired never comes back, not even
\* through a request that had read its row before.
EndedSessionsStayEnded == \A t \in ended : ~Exists(t)

\* "A password change is how you lock someone out" (store/users.go): once the
\* change has answered, every session of an older password is gone, but those
\* of a login or a change that had begun before it, and those the change could
\* not delete because its second statement failed.
OldPasswordsSignNobodyIn ==
    \A t \in Tokens :
        Exists(t) /\ t \notin late /\ sessions[t].password # users[sessions[t].user] =>
            \E h \in Handlers : hpc[h] = "revoke" /\ arg[h].name = sessions[t].user

\* The sign-ins that were let through within a window's length, by their time.
Guesses(a) == UNION {{now - age} \X (1 .. attempts[a][age]) : age \in Ages}

\* The fixed window lets an address try twice its budget in the span of one
\* window, and never more, without a success.
GuessesAreLimited == \A a \in Addrs : Cardinality(Guesses(a)) <= 2 * Limit
=============================================================================
