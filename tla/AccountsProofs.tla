--------------------------- MODULE AccountsProofs ---------------------------
(***************************************************************************)
(* Accounts: for every number of users, requests and sessions, a session   *)
(* ends when it should, never comes back and does not outlast the password *)
(* it was opened with; and for every limit and window, an address has no   *)
(* more guesses than the limiter's two windows give it.                    *)
(***************************************************************************)
EXTENDS Accounts, FiniteSetTheorems, TLAPS

\* What is known of a row: it was used before now, and its deadline is in the
\* window of that use, or at the ceiling.
Deadline(t) ==
    /\ used[t] <= now
    /\ sessions[t].expires <= used[t] + Idle
    /\ sessions[t].expires <= HardEnd(sessions[t])
    /\ \/ sessions[t].expires >= used[t] + Idle - Slack
       \/ sessions[t].expires >= HardEnd(sessions[t]) - Slack

\* A request judges a row that is there as it was read, but for a deadline that
\* has moved on; one that is gone has ended, so that no other takes its token.
Judges(h) ==
    LET t == arg[h].token IN
    \/ /\ Exists(t)
       /\ arg[h].row.created = sessions[t].created
       /\ arg[h].row.expires <= sessions[t].expires
    \/ t \in ended

SessionInv ==
    /\ \A t \in Tokens : Exists(t) => Deadline(t)
    /\ \A t \in ended : ~Exists(t)
    /\ \A h \in Handlers : hpc[h] = "decide" => Judges(h)

\* Sessions and requests on them are of users there are.
UserInv ==
    /\ \A t \in Tokens : Exists(t) => users[sessions[t].user] # 0
    /\ \A h \in Handlers :
          hpc[h] \in {"session", "decide", "update", "revoke"} => users[arg[h].name] # 0

-----------------------------------------------------------------------------
LEMMA NoSessionIsNone == NoSession \notin Session
BY NamesAssumption DEF NoSession, Session

LEMMA SlackType == Slack \in Nat
BY TimesAssumption DEF Slack

\* What a handler that starts, goes on to its session, or answers holds.
LEMMA NoArgType == NoArg \in Arg
BY DEF NoArg, Arg

LEMMA AnswerTyped ==
    ASSUME TypeOK, NEW h \in Handlers, Answer(h)
    PROVE  /\ hpc' \in [Handlers -> HandlerPCs] /\ arg' \in [Handlers -> Arg]
           /\ hpc'[h] = "idle"
           /\ \A g \in Handlers \ {h} : hpc'[g] = hpc[g] /\ arg'[g] = arg[g]
BY NoArgType DEF TypeOK, Answer, HandlerPCs

LEMMA OpenSessionTyped ==
    ASSUME TypeOK, NEW h \in Handlers, NEW password \in Nat, OpenSession(h, password)
    PROVE  /\ hpc' \in [Handlers -> HandlerPCs] /\ arg' \in [Handlers -> Arg]
           /\ hpc'[h] = "session"
           /\ arg'[h].name = arg[h].name /\ arg'[h].password = password
           /\ \A g \in Handlers \ {h} : hpc'[g] = hpc[g] /\ arg'[g] = arg[g]
<1>. DEFINE a == [NoArg EXCEPT !.name = arg[h].name, !.password = password]
<1>1. a \in Arg /\ a.name = arg[h].name /\ a.password = password
  BY NoArgType DEF NoArg, Arg, TypeOK
<1>2. hpc' = [hpc EXCEPT ![h] = "session"] /\ arg' = [arg EXCEPT ![h] = a]
  BY DEF OpenSession
<1>. HIDE DEF a
<1>. QED BY <1>1, <1>2 DEF TypeOK, HandlerPCs

LEMMA BeginTyped ==
    ASSUME TypeOK, NEW h \in Handlers, NEW pc \in HandlerPCs, NEW a \in Arg, Begin(h, pc, a)
    PROVE  /\ hpc' \in [Handlers -> HandlerPCs] /\ arg' \in [Handlers -> Arg]
           /\ hpc'[h] = pc /\ arg'[h] = a
           /\ \A g \in Handlers \ {h} : hpc'[g] = hpc[g] /\ arg'[g] = arg[g]
BY DEF TypeOK, Begin

LEMMA DeleteTyped ==
    ASSUME TypeOK, NEW gone \in SUBSET Tokens, Delete(gone)
    PROVE  /\ sessions' \in [Tokens -> Session \cup {NoSession}]
           /\ ended' \subseteq Tokens
           /\ \A t \in Tokens : Exists(t)' <=> Exists(t) /\ t \notin gone
           /\ \A t \in Tokens : Exists(t)' => sessions'[t] = sessions[t]
           /\ \A t \in Tokens : t \in ended' <=> t \in ended \/ (Exists(t) /\ t \in gone)
BY DEF TypeOK, Delete, Exists

LEMMA AttemptsTyped ==
    /\ NoAttempts \in [Ages -> Nat]
    /\ 0 \in Ages
BY TimesAssumption DEF NoAttempts, Ages

-----------------------------------------------------------------------------
(* TypeOK.                                                                 *)

LEMMA InitTypeOK == Init => TypeOK
<1>. SUFFICES ASSUME Init PROVE TypeOK
  OBVIOUS
<1>1. users \in [Names -> Nat]
  BY DEF Init
<1>2. setupToken \in BOOLEAN
  BY DEF Init
<1>3. limiter \in [start : Int, count : [Addrs -> Nat]]
  BY TimesAssumption DEF Init
<1>. QED BY <1>1, <1>2, <1>3, NoArgType, AttemptsTyped DEF Init, TypeOK, HandlerPCs

LEMMA StepTypeOK == TypeOK /\ [Next]_vars => TypeOK'
<1>. SUFFICES ASSUME TypeOK, [Next]_vars PROVE TypeOK'
  OBVIOUS
<1>. USE DEF TypeOK
<1>1. CASE Tick
  <2>1. now' \in Nat
    BY <1>1 DEF Tick
  <2>2. attempts' \in [Addrs -> [Ages -> Nat]]
    <3>1. \A age \in Ages : age # 0 => age - 1 \in Ages
      BY TimesAssumption DEF Ages
    <3>. QED BY <1>1, <3>1 DEF Tick
  <2>. QED BY <1>1, <2>1, <2>2 DEF Tick
<1>2. CASE PruneSessions
  <2>1. PICK gone \in SUBSET Tokens : Delete(gone)
    BY <1>2 DEF PruneSessions
  <2>. QED BY <1>2, <2>1, DeleteTyped DEF PruneSessions
<1>3. ASSUME NEW t \in Tokens, Logout(t) PROVE TypeOK'
  BY <1>3, DeleteTyped DEF Logout
<1>4. ASSUME NEW h \in Handlers, NEW t \in Tokens, NEW changes \in BOOLEAN, Read(h, t, changes)
      PROVE  TypeOK'
  <2>. DEFINE a == [NoArg EXCEPT !.token = t, !.row = sessions[t],
                                 !.name = sessions[t].user, !.changes = changes]
  <2>1. sessions[t] \in Session
    BY <1>4 DEF Read, Exists
  <2>2. a \in Arg /\ a.name \in Names /\ a.token \in Tokens /\ a.row \in Session
    BY <2>1, NoArgType DEF NoArg, Arg, Session
  <2>3. Begin(h, "decide", a)
    BY <1>4 DEF Read
  <2>. HIDE DEF a
  <2>4. /\ hpc' \in [Handlers -> HandlerPCs] /\ arg' \in [Handlers -> Arg]
        /\ hpc'[h] = "decide" /\ arg'[h] = a
        /\ \A g \in Handlers \ {h} : hpc'[g] = hpc[g] /\ arg'[g] = arg[g]
    BY <2>2, <2>3, BeginTyped DEF HandlerPCs
  <2>. QED BY <1>4, <2>2, <2>4 DEF Read, history
<1>5. ASSUME NEW h \in Handlers, NEW a \in Addrs, NEW n \in Names, NEW password \in {0, users[n]},
             Login(h, a, n, password)
      PROVE  TypeOK'
  <2>. DEFINE w == [NoArg EXCEPT !.name = n, !.addr = a, !.password = password]
  <2>1. w \in Arg /\ w.name = n /\ w.addr = a
    BY NoArgType DEF NoArg, Arg
  <2>2. limiter' \in [start : Int, count : [Addrs -> Nat]]
    BY <1>5 DEF Login
  <2>3. CASE Count(a) < Limit
    <3>1. Begin(h, "read", w) /\ attempts' = [attempts EXCEPT ![a][0] = @ + 1]
      BY <1>5, <2>3 DEF Login
    <3>2. attempts' \in [Addrs -> [Ages -> Nat]]
      BY <3>1, AttemptsTyped
    <3>. HIDE DEF w
    <3>3. /\ hpc' \in [Handlers -> HandlerPCs] /\ arg' \in [Handlers -> Arg]
          /\ hpc'[h] = "read" /\ arg'[h] = w
          /\ \A g \in Handlers \ {h} : hpc'[g] = hpc[g] /\ arg'[g] = arg[g]
      BY <2>1, <3>1, BeginTyped DEF HandlerPCs
    <3>. QED BY <1>5, <2>1, <2>2, <3>2, <3>3 DEF Login
  <2>4. CASE ~(Count(a) < Limit)
    BY <1>5, <2>2, <2>4 DEF Login
  <2>. QED BY <2>3, <2>4
<1>6. ASSUME NEW h \in Handlers, NEW n \in Names, Setup(h, n) PROVE TypeOK'
  <2>. DEFINE a == [NoArg EXCEPT !.name = n]
  <2>1. a \in Arg /\ a.name = n
    BY NoArgType DEF NoArg, Arg
  <2>2. Begin(h, "create", a)
    BY <1>6 DEF Setup
  <2>. HIDE DEF a
  <2>3. /\ hpc' \in [Handlers -> HandlerPCs] /\ arg' \in [Handlers -> Arg]
        /\ hpc'[h] = "create" /\ arg'[h] = a
        /\ \A g \in Handlers \ {h} : hpc'[g] = hpc[g] /\ arg'[g] = arg[g]
    BY <2>1, <2>2, BeginTyped DEF HandlerPCs
  <2>. QED BY <1>6, <2>1, <2>3 DEF Setup, history
<1>7. ASSUME NEW h \in Handlers, Refuse(h) PROVE TypeOK'
  <2>1. {arg[h].token} \in SUBSET Tokens
    BY <1>7 DEF Refuse
  <2>. QED BY <1>7, <2>1, AnswerTyped, DeleteTyped DEF Refuse
<1>8. ASSUME NEW h \in Handlers, Accept(h) PROVE TypeOK'
  <2>1. arg[h].token \in Tokens /\ arg[h].row \in Session /\ arg[h].name \in Names
    BY <1>8 DEF Accept
  <2>2. Want(arg[h].row) \in Nat
    BY <2>1, TimesAssumption DEF Want, HardEnd, Session
  <2>3. sessions' \in [Tokens -> Session \cup {NoSession}]
    <3>1. CASE Slides(arg[h].row) /\ Exists(arg[h].token)
      <4>1. sessions[arg[h].token] \in Session
        BY <2>1, <3>1 DEF Exists
      <4>2. [sessions[arg[h].token] EXCEPT !.expires = Want(arg[h].row)] \in Session
        BY <2>2, <4>1 DEF Session
      <4>. QED BY <1>8, <2>1, <3>1, <4>2 DEF Accept
    <3>2. CASE ~(Slides(arg[h].row) /\ Exists(arg[h].token))
      BY <1>8, <3>2 DEF Accept
    <3>. QED BY <3>1, <3>2
  <2>4. used' \in [Tokens -> Nat]
    BY <1>8, <2>1 DEF Accept, Accepted
  <2>5. CASE arg[h].changes
    <3>1. hpc' = [hpc EXCEPT ![h] = "update"] /\ arg' = [arg EXCEPT ![h].row = NoSession]
      BY <1>8, <2>5 DEF Accept, Accepted
    <3>2. arg'[h] \in Arg /\ arg'[h].name = arg[h].name
      <4>1. arg[h] \in Arg /\ arg'[h] = [arg[h] EXCEPT !.row = NoSession]
        BY <3>1
      <4>. QED BY <4>1 DEF Arg
    <3>3. arg' \in [Handlers -> Arg] /\ hpc' \in [Handlers -> HandlerPCs]
      BY <3>1, <3>2 DEF HandlerPCs
    <3>. QED BY <1>8, <2>1, <2>3, <2>4, <3>1, <3>2, <3>3 DEF Accept
  <2>6. CASE ~arg[h].changes
    BY <1>8, <2>3, <2>4, <2>6, AnswerTyped DEF Accept, Accepted
  <2>. QED BY <2>5, <2>6
<1>9. ASSUME NEW h \in Handlers, SetPassword(h) PROVE TypeOK'
  <2>1. arg[h].name \in Names
    BY <1>9 DEF SetPassword
  <2>2. /\ users' \in [Names -> Nat]
        /\ hpc' = [hpc EXCEPT ![h] = "revoke"]
        /\ arg' = [arg EXCEPT ![h].password = users[arg[h].name] + 1]
    BY <1>9, <2>1 DEF SetPassword
  <2>3. arg'[h] \in Arg /\ arg'[h].name = arg[h].name
    <3>1. arg[h] \in Arg /\ users[arg[h].name] + 1 \in Nat
      BY <2>1
    <3>2. arg'[h] = [arg[h] EXCEPT !.password = users[arg[h].name] + 1]
      BY <2>2
    <3>. QED BY <3>1, <3>2 DEF Arg
  <2>4. arg' \in [Handlers -> Arg] /\ hpc' \in [Handlers -> HandlerPCs]
    BY <2>2, <2>3 DEF HandlerPCs
  <2>. QED BY <1>9, <2>1, <2>2, <2>3, <2>4 DEF SetPassword, history
<1>10. ASSUME NEW h \in Handlers, Revoke(h) PROVE TypeOK'
  <2>1. arg[h].name \in Names /\ arg[h].password \in Nat
    BY <1>10 DEF Revoke, Arg
  <2>2. PICK gone \in SUBSET Tokens : Delete(gone)
    BY <1>10 DEF Revoke
  <2>. QED BY <1>10, <2>1, <2>2, DeleteTyped, OpenSessionTyped DEF Revoke
<1>11. ASSUME NEW h \in Handlers, Authenticate(h) PROVE TypeOK'
  <2>1. arg[h].name \in Names /\ arg[h].addr \in Addrs /\ arg[h].password \in Nat
    BY <1>11 DEF Authenticate, Arg
  <2>2. limiter' \in [start : Int, count : [Addrs -> Nat]] /\ attempts' \in [Addrs -> [Ages -> Nat]]
    <3>1. limiter' = limiter \/ limiter' = [limiter EXCEPT !.count[arg[h].addr] = 0]
      BY <1>11 DEF Authenticate
    <3>2. attempts' = attempts \/ attempts' = [attempts EXCEPT ![arg[h].addr] = NoAttempts]
      BY <1>11 DEF Authenticate
    <3>3. limiter.count \in [Addrs -> Nat] /\ limiter.start \in Int
      OBVIOUS
    <3>4. limiter' \in [start : Int, count : [Addrs -> Nat]]
      BY <2>1, <3>1, <3>3
    <3>. QED BY <2>1, <3>2, <3>4, AttemptsTyped
  <2>3. Answer(h) \/ OpenSession(h, arg[h].password)
    BY <1>11 DEF Authenticate
  <2>. QED BY <1>11, <2>1, <2>2, <2>3, AnswerTyped, OpenSessionTyped DEF Authenticate
<1>12. ASSUME NEW h \in Handlers, CreateSession(h) PROVE TypeOK'
  <2>1. arg[h].name \in Names /\ arg[h].password \in Nat
    BY <1>12 DEF CreateSession, Arg
  <2>2. PICK t \in Tokens :
          /\ sessions' = [sessions EXCEPT ![t] =
                [user |-> arg[h].name, created |-> now, expires |-> now + Idle,
                 password |-> arg[h].password]]
          /\ used' = [used EXCEPT ![t] = now]
          /\ late' = IF arg[h].password = users[arg[h].name] THEN late ELSE late \cup {t}
    BY <1>12 DEF CreateSession
  <2>3. sessions' \in [Tokens -> Session \cup {NoSession}]
    BY <2>1, <2>2, TimesAssumption DEF Session
  <2>4. used' \in [Tokens -> Nat] /\ late' \subseteq Tokens
    BY <2>2
  <2>. QED BY <1>12, <2>3, <2>4, AnswerTyped DEF CreateSession
<1>13. ASSUME NEW h \in Handlers, CreateUser(h) PROVE TypeOK'
  <2>1. arg[h].name \in Names
    BY <1>13 DEF CreateUser
  <2>2. users' \in [Names -> Nat] /\ (Answer(h) \/ OpenSession(h, 1))
    BY <1>13 DEF CreateUser
  <2>. QED BY <1>13, <2>1, <2>2, AnswerTyped, OpenSessionTyped DEF CreateUser
<1>14. ASSUME NEW h \in Handlers, StatementFails(h) PROVE TypeOK'
  <2>1. late' \subseteq Tokens
    BY <1>14 DEF StatementFails
  <2>. QED BY <1>14, <2>1, AnswerTyped DEF StatementFails
<1>15. CASE UNCHANGED vars
  BY <1>15 DEF vars, history
<1>. QED BY <1>1, <1>2, <1>3, <1>4, <1>5, <1>6, <1>7, <1>8, <1>9, <1>10, <1>11, <1>12, <1>13,
            <1>14, <1>15 DEF Next, Request, Handle

LEMMA SpecTypeOK == Spec => []TypeOK
BY InitTypeOK, StepTypeOK, PTL DEF Spec

-----------------------------------------------------------------------------
(* The sessions: SessionInv.                                               *)

\* Deleted sessions have ended; the others, and the requests on them, are as they were.
LEMMA DeleteKeepsSessions ==
    ASSUME TypeOK, SessionInv, NEW gone \in SUBSET Tokens, Delete(gone), UNCHANGED <<now, used>>,
           \A g \in Handlers : hpc'[g] = "decide" => hpc[g] = "decide" /\ arg'[g] = arg[g]
    PROVE  SessionInv'
<1>1. \A t \in Tokens : Exists(t)' => Deadline(t)'
  BY DeleteTyped DEF SessionInv, Deadline, HardEnd, Slack
<1>2. \A t \in ended' : ~Exists(t)'
  BY DeleteTyped DEF SessionInv, TypeOK
<1>3. \A g \in Handlers : hpc'[g] = "decide" => Judges(g)'
  BY DeleteTyped DEF SessionInv, Judges, TypeOK
<1>. QED BY <1>1, <1>2, <1>3 DEF SessionInv

\* So are all of them in a step that leaves the table alone.
LEMMA SessionsAlone ==
    ASSUME TypeOK, SessionInv, UNCHANGED <<now, sessions, used, ended>>,
           \A g \in Handlers : hpc'[g] = "decide" => hpc[g] = "decide" /\ arg'[g] = arg[g]
    PROVE  SessionInv'
BY DEF SessionInv, Deadline, HardEnd, Slack, Judges, Exists, TypeOK

\* The deadline of a session that is used now.
LEMMA AcceptedDeadline ==
    ASSUME TypeOK, SessionInv, NEW h \in Handlers, Accept(h), NEW t \in Tokens, Exists(t)'
    PROVE  /\ Deadline(t)' /\ Exists(t)
           /\ sessions'[t].created = sessions[t].created
           /\ sessions'[t].expires >= sessions[t].expires
<1>. DEFINE row == arg[h].row
<1>1. /\ arg[h].token \in Tokens /\ row \in Session
      /\ sessions' = IF Slides(row) /\ Exists(arg[h].token)
                     THEN [sessions EXCEPT ![arg[h].token].expires = Want(row)]
                     ELSE sessions
      /\ used' = [used EXCEPT ![arg[h].token] = now]
      /\ now' = now /\ now \in Nat
  BY DEF Accept, Accepted, TypeOK
<1>2. Judges(h)
  BY DEF Accept, SessionInv
<1>3. CASE t # arg[h].token
  <2>1. sessions'[t] = sessions[t] /\ used'[t] = used[t]
    BY <1>1, <1>3 DEF TypeOK
  <2>2. Exists(t) /\ Deadline(t)
    BY <2>1 DEF Exists, SessionInv
  <2>3. sessions[t].expires \in Nat
    BY <2>2 DEF Exists, TypeOK, Session
  <2>4. sessions'[t].expires = sessions[t].expires /\ sessions'[t].created = sessions[t].created
    BY <2>1
  <2>5. Deadline(t)'
    BY <1>1, <2>1, <2>2 DEF Deadline, HardEnd, Slack
  <2>6. sessions'[t].expires >= sessions[t].expires
    BY <2>3, <2>4
  <2>. QED BY <2>2, <2>4, <2>5, <2>6
<1>4. CASE t = arg[h].token
  <2>1. Exists(t)
    BY <1>1, <1>4 DEF Exists, TypeOK
  <2>2. /\ sessions[t] \in Session /\ Deadline(t) /\ row.created = sessions[t].created
        /\ row.expires <= sessions[t].expires
    BY <1>2, <1>4, <2>1 DEF Exists, TypeOK, SessionInv, Judges
  <2>3. used'[t] = now
    BY <1>1, <1>4 DEF TypeOK
  <2>4. /\ sessions[t].created \in Nat /\ sessions[t].expires \in Nat
        /\ row.created \in Nat /\ row.expires \in Nat
        /\ used[t] \in Nat /\ now \in Nat /\ Idle \in Nat /\ MaxAge \in Nat /\ Slack \in Nat
    BY <1>1, <2>2, SlackType, TimesAssumption DEF Session, TypeOK
  <2>5. CASE Slides(row)
    <3>1. sessions'[t] = [sessions[t] EXCEPT !.expires = Want(row)]
      BY <1>1, <1>4, <2>1, <2>5 DEF TypeOK
    <3>2. sessions'[t].expires = Want(row) /\ sessions'[t].created = row.created
      BY <2>2, <3>1 DEF Session
    <3>3. /\ Want(row) <= now + Idle /\ Want(row) <= row.created + MaxAge
          /\ Want(row) >= now + Idle - Slack \/ Want(row) >= row.created + MaxAge - Slack
      BY <2>4 DEF Want, HardEnd
    <3>4. Want(row) >= sessions[t].expires
      BY <2>2, <2>4 DEF Want, HardEnd, Deadline
    <3>. QED BY <1>1, <2>1, <2>2, <2>3, <2>4, <3>2, <3>3, <3>4 DEF Deadline, HardEnd, Slack
  <2>6. CASE ~Slides(row)
    <3>1. sessions'[t] = sessions[t]
      BY <1>1, <2>6
    <3>2. sessions[t].expires >= Want(row) - Slack /\ Want(row) \in Int
      BY <2>2, <2>4, <2>6 DEF Slides, Want, HardEnd
    <3>3. \/ sessions[t].expires >= now + Idle - Slack
          \/ sessions[t].expires >= HardEnd(sessions[t]) - Slack
      BY <2>2, <2>4, <3>2 DEF Want, HardEnd
    <3>4. sessions[t].expires <= now + Idle /\ sessions[t].expires <= HardEnd(sessions[t])
      BY <2>2, <2>4 DEF Deadline
    <3>5. sessions'[t].expires = sessions[t].expires /\ sessions'[t].created = sessions[t].created
      BY <3>1
    <3>6. Deadline(t)'
      <4>. DEFINE expires == sessions[t].expires
                  ceiling == HardEnd(sessions[t])
      <4>1. /\ now <= now /\ expires <= now + Idle /\ expires <= ceiling
            /\ expires >= now + Idle - Slack \/ expires >= ceiling - Slack
        BY <2>4, <3>3, <3>4
      <4>2. /\ used'[t] = now /\ now' = now /\ sessions'[t].expires = expires
            /\ HardEnd(sessions[t])' = ceiling
        BY <1>1, <2>3, <3>1, <3>5 DEF HardEnd
      <4>. HIDE DEF expires, ceiling
      <4>. QED BY <4>1, <4>2 DEF Deadline, HardEnd, Slack
    <3>7. sessions'[t].expires >= sessions[t].expires
      BY <2>4, <3>5
    <3>. QED BY <2>1, <3>5, <3>6, <3>7
  <2>. QED BY <2>5, <2>6
<1>. QED BY <1>3, <1>4

LEMMA StepSessions == TypeOK /\ SessionInv /\ [Next]_vars => SessionInv'
<1>. SUFFICES ASSUME TypeOK, SessionInv, [Next]_vars PROVE SessionInv'
  OBVIOUS
<1>1. CASE Tick
  <2>1. \A t \in Tokens : Exists(t)' => Deadline(t)'
    BY <1>1 DEF Tick, SessionInv, Deadline, Exists, HardEnd, Slack, TypeOK
  <2>. QED BY <1>1, <2>1 DEF Tick, SessionInv, Judges, Exists
<1>2. CASE PruneSessions
  <2>1. PICK gone \in SUBSET Tokens : Delete(gone)
    BY <1>2 DEF PruneSessions
  <2>. QED BY <1>2, <2>1, DeleteKeepsSessions DEF PruneSessions
<1>3. ASSUME NEW t \in Tokens, Logout(t) PROVE SessionInv'
  BY <1>3, DeleteKeepsSessions DEF Logout
<1>4. ASSUME NEW h \in Handlers, NEW t \in Tokens, NEW changes \in BOOLEAN, Read(h, t, changes)
      PROVE  SessionInv'
  <2>1. /\ Exists(t) /\ sessions[t].expires \in Nat
        /\ UNCHANGED <<now, sessions, used, ended>>
    BY <1>4 DEF Read, history, TypeOK, Session, Exists
  <2>2. /\ arg'[h].token = t /\ arg'[h].row = sessions[t]
        /\ \A g \in Handlers \ {h} : hpc'[g] = hpc[g] /\ arg'[g] = arg[g]
    BY <1>4 DEF Read, Begin, NoArg, TypeOK
  <2>3. Judges(h)'
    BY <2>1, <2>2 DEF Judges, Exists
  <2>4. \A g \in Handlers \ {h} : hpc'[g] = "decide" => Judges(g)'
    BY <2>1, <2>2 DEF SessionInv, Judges, Exists
  <2>. QED BY <2>1, <2>3, <2>4 DEF SessionInv, Deadline, HardEnd, Slack, Exists
<1>5. ASSUME NEW h \in Handlers, NEW a \in Addrs, NEW n \in Names, NEW password \in {0, users[n]},
             Login(h, a, n, password)
      PROVE  SessionInv'
  BY <1>5, SessionsAlone DEF Login, Begin, TypeOK
<1>6. ASSUME NEW h \in Handlers, NEW n \in Names, Setup(h, n) PROVE SessionInv'
  BY <1>6, SessionsAlone DEF Setup, Begin, history, TypeOK
<1>7. ASSUME NEW h \in Handlers, Refuse(h) PROVE SessionInv'
  <2>1. {arg[h].token} \in SUBSET Tokens
    BY <1>7 DEF Refuse, TypeOK
  <2>. QED BY <1>7, <2>1, AnswerTyped, DeleteKeepsSessions DEF Refuse
<1>8. ASSUME NEW h \in Handlers, Accept(h) PROVE SessionInv'
  <2>1. \A t \in Tokens : Exists(t)' => Deadline(t)' /\ Exists(t)
                                     /\ sessions'[t].created = sessions[t].created
                                     /\ sessions'[t].expires >= sessions[t].expires
    BY <1>8, AcceptedDeadline
  <2>2. \A t \in Tokens : Exists(t) => Exists(t)'
    <3>1. arg[h].token \in Tokens /\ arg[h].row \in Session
      BY <1>8 DEF Accept, TypeOK
    <3>2. [sessions[arg[h].token] EXCEPT !.expires = Want(arg[h].row)] # NoSession
              \/ ~Exists(arg[h].token)
      BY <3>1, NamesAssumption DEF Exists, TypeOK, Session, NoSession
    <3>. QED BY <1>8, <3>1, <3>2 DEF Accept, Exists, TypeOK
  <2>3. hpc'[h] # "decide" /\ \A g \in Handlers \ {h} : hpc'[g] = hpc[g] /\ arg'[g] = arg[g]
    BY <1>8 DEF Accept, Accepted, Answer, TypeOK
  <2>4. ended' = ended
    BY <1>8 DEF Accept
  <2>5. ASSUME NEW g \in Handlers, hpc'[g] = "decide"
        PROVE  Judges(g)'
    <3>1. /\ hpc[g] = "decide" /\ arg'[g] = arg[g] /\ Judges(g)
          /\ arg[g].token \in Tokens /\ arg[g].row \in Session
      BY <2>3, <2>5 DEF SessionInv, TypeOK
    <3>2. CASE Exists(arg[g].token)
      <4>. DEFINE t == arg[g].token
      <4>1. Exists(t)' /\ arg[g].row.created = sessions[t].created
                      /\ arg[g].row.expires <= sessions[t].expires
        BY <2>2, <3>1, <3>2 DEF Judges, SessionInv
      <4>2. sessions[t].expires \in Nat /\ sessions'[t].expires \in Nat
                                       /\ arg[g].row.expires \in Nat
        BY <3>1, <3>2, <4>1, StepTypeOK DEF Exists, TypeOK, Session
      <4>. QED BY <2>1, <3>1, <4>1, <4>2 DEF Judges
    <3>3. CASE ~Exists(arg[g].token)
      BY <2>4, <3>1, <3>3 DEF Judges
    <3>. QED BY <3>2, <3>3
  <2>. QED BY <2>1, <2>4, <2>5 DEF SessionInv, TypeOK
<1>9. ASSUME NEW h \in Handlers, SetPassword(h) PROVE SessionInv'
  BY <1>9, SessionsAlone DEF SetPassword, history, TypeOK
<1>10. ASSUME NEW h \in Handlers, Revoke(h) PROVE SessionInv'
  <2>1. PICK gone \in SUBSET Tokens : Delete(gone)
    BY <1>10 DEF Revoke
  <2>. QED BY <1>10, <2>1, DeleteKeepsSessions DEF Revoke, OpenSession, TypeOK
<1>11. ASSUME NEW h \in Handlers, Authenticate(h) PROVE SessionInv'
  BY <1>11, SessionsAlone DEF Authenticate, OpenSession, Answer, TypeOK
<1>12. ASSUME NEW h \in Handlers, CreateSession(h) PROVE SessionInv'
  <2>1. PICK t \in Tokens :
          /\ ~Exists(t) /\ t \notin ended
          /\ sessions' = [sessions EXCEPT ![t] =
                [user |-> arg[h].name, created |-> now, expires |-> now + Idle,
                 password |-> arg[h].password]]
          /\ used' = [used EXCEPT ![t] = now]
    BY <1>12 DEF CreateSession
  <2>2. UNCHANGED <<now, ended>>
    BY <1>12 DEF CreateSession
  <2>3. \A u \in Tokens \ {t} : sessions'[u] = sessions[u] /\ used'[u] = used[u]
    BY <2>1 DEF TypeOK
  <2>4. Deadline(t)'
    <3>1. sessions'[t].created = now /\ sessions'[t].expires = now + Idle /\ used'[t] = now
      BY <2>1 DEF TypeOK
    <3>. QED BY <2>2, <3>1, SlackType, TimesAssumption DEF Deadline, HardEnd, Slack, TypeOK
  <2>5. \A u \in Tokens : Exists(u)' => Deadline(u)'
    BY <2>2, <2>3, <2>4 DEF SessionInv, Deadline, Exists, HardEnd, Slack
  <2>6. hpc'[h] = "idle" /\ \A g \in Handlers \ {h} : hpc'[g] = hpc[g] /\ arg'[g] = arg[g]
    BY <1>12, AnswerTyped DEF CreateSession
  <2>7. \A g \in Handlers : hpc'[g] = "decide" => Judges(g)'
    BY <2>1, <2>2, <2>3, <2>6 DEF SessionInv, Judges, Exists, TypeOK
  <2>. QED BY <2>1, <2>2, <2>3, <2>5, <2>7 DEF SessionInv, Exists, TypeOK
<1>13. ASSUME NEW h \in Handlers, CreateUser(h) PROVE SessionInv'
  BY <1>13, SessionsAlone DEF CreateUser, OpenSession, Answer, TypeOK
<1>14. ASSUME NEW h \in Handlers, StatementFails(h) PROVE SessionInv'
  BY <1>14, SessionsAlone DEF StatementFails, Answer, TypeOK
<1>15. CASE UNCHANGED vars
  BY <1>15, SessionsAlone DEF vars, history
<1>. QED BY <1>1, <1>2, <1>3, <1>4, <1>5, <1>6, <1>7, <1>8, <1>9, <1>10, <1>11, <1>12, <1>13,
            <1>14, <1>15 DEF Next, Request, Handle

LEMMA SpecSessions == Spec => []SessionInv
<1>1. Init => SessionInv
  BY DEF Init, SessionInv, Exists
<1>. QED BY <1>1, SpecTypeOK, StepSessions, PTL DEF Spec
-----------------------------------------------------------------------------
(* The users and their passwords: UserInv.                                 *)

\* What the step of a request leaves of it: the user it is for, once there is one.
Follows(h) ==
    hpc'[h] \in {"session", "decide", "update", "revoke"} =>
        /\ hpc[h] \in {"session", "decide", "update", "revoke"}
        /\ arg'[h].name = arg[h].name

\* No session is opened, and no user goes.
LEMMA UsersAlone ==
    ASSUME TypeOK, UserInv, \A n \in Names : users[n] # 0 => users'[n] # 0,
           \A t \in Tokens : Exists(t)' => Exists(t) /\ sessions'[t].user = sessions[t].user,
           \A h \in Handlers : Follows(h)
    PROVE  UserInv'
<1>1. \A t \in Tokens : Exists(t)' => users'[sessions'[t].user] # 0
  BY DEF UserInv, TypeOK, Exists, Session
<1>2. \A h \in Handlers :
         hpc'[h] \in {"session", "decide", "update", "revoke"} => users'[arg'[h].name] # 0
  BY DEF UserInv, TypeOK, Follows
<1>. QED BY <1>1, <1>2 DEF UserInv

\* In the steps that leave both tables alone, the requests are all there is to see.
LEMMA TablesAlone ==
    ASSUME TypeOK, UserInv, UNCHANGED <<users, sessions>>, \A h \in Handlers : Follows(h)
    PROVE  UserInv'
BY UsersAlone DEF Exists

\* Steps that open no session, change no password and end no change.
LEMMA PasswordsAlone ==
    ASSUME TypeOK, OldPasswordsSignNobodyIn, users' = users, late' = late,
           \A t \in Tokens : Exists(t)' => /\ Exists(t)
                                          /\ sessions'[t].user = sessions[t].user
                                          /\ sessions'[t].password = sessions[t].password,
           \A h \in Handlers : hpc[h] = "revoke" => hpc'[h] = "revoke" /\ arg'[h].name = arg[h].name
    PROVE  OldPasswordsSignNobodyIn'
BY DEF OldPasswordsSignNobodyIn

\* A deletion changes none of the sessions it leaves.
LEMMA DeleteLeaves ==
    ASSUME TypeOK, NEW gone \in SUBSET Tokens, Delete(gone)
    PROVE  \A t \in Tokens : Exists(t)' => /\ Exists(t) /\ t \notin gone
                                           /\ sessions'[t].user = sessions[t].user
                                           /\ sessions'[t].password = sessions[t].password
BY DeleteTyped

\* Nor does a request that is accepted change whose a session is.
LEMMA AcceptLeaves ==
    ASSUME TypeOK, NEW h \in Handlers, Accept(h)
    PROVE  \A t \in Tokens : Exists(t)' => /\ Exists(t)
                                           /\ sessions'[t].user = sessions[t].user
                                           /\ sessions'[t].password = sessions[t].password
<1>1. arg[h].token \in Tokens
  BY DEF Accept, TypeOK
<1>2. CASE Slides(arg[h].row) /\ Exists(arg[h].token)
  <2>1. sessions[arg[h].token] \in Session
    BY <1>1, <1>2 DEF Exists, TypeOK
  <2>2. sessions' = [sessions EXCEPT ![arg[h].token].expires = Want(arg[h].row)]
    BY <1>2 DEF Accept
  <2>3. /\ sessions'[arg[h].token] = [sessions[arg[h].token] EXCEPT !.expires = Want(arg[h].row)]
        /\ \A t \in Tokens \ {arg[h].token} : sessions'[t] = sessions[t]
    BY <1>1, <2>2 DEF TypeOK
  <2>. QED BY <1>2, <2>1, <2>3 DEF Exists, Session
<1>3. CASE ~(Slides(arg[h].row) /\ Exists(arg[h].token))
  BY <1>3 DEF Accept, Exists
<1>. QED BY <1>2, <1>3

LEMMA StepUsers == TypeOK /\ UserInv /\ [Next]_vars => UserInv'
<1>. SUFFICES ASSUME TypeOK, UserInv, [Next]_vars PROVE UserInv'
  OBVIOUS
<1>. USE DEF Follows
<1>1. CASE Tick
  BY <1>1, TablesAlone DEF Tick
<1>2. CASE PruneSessions
  <2>1. PICK gone \in SUBSET Tokens : Delete(gone)
    BY <1>2 DEF PruneSessions
  <2>. QED BY <1>2, <2>1, DeleteLeaves, UsersAlone DEF PruneSessions
<1>3. ASSUME NEW t \in Tokens, Logout(t) PROVE UserInv'
  BY <1>3, DeleteLeaves, UsersAlone DEF Logout
<1>4. ASSUME NEW h \in Handlers, NEW t \in Tokens, NEW changes \in BOOLEAN, Read(h, t, changes)
      PROVE  UserInv'
  <2>1. Exists(t) /\ UNCHANGED <<users, sessions>>
    BY <1>4 DEF Read
  <2>2. /\ arg'[h].name = sessions[t].user
        /\ \A g \in Handlers \ {h} : hpc'[g] = hpc[g] /\ arg'[g] = arg[g]
    BY <1>4 DEF Read, Begin, NoArg, TypeOK
  <2>. QED BY <2>1, <2>2 DEF UserInv, Exists
<1>5. ASSUME NEW h \in Handlers, NEW a \in Addrs, NEW n \in Names, NEW password \in {0, users[n]},
             Login(h, a, n, password)
      PROVE  UserInv'
  BY <1>5, TablesAlone DEF Login, Begin, TypeOK
<1>6. ASSUME NEW h \in Handlers, NEW n \in Names, Setup(h, n) PROVE UserInv'
  BY <1>6, TablesAlone DEF Setup, Begin, TypeOK
<1>7. ASSUME NEW h \in Handlers, Refuse(h) PROVE UserInv'
  <2>1. {arg[h].token} \in SUBSET Tokens
    BY <1>7 DEF Refuse, TypeOK
  <2>. QED BY <1>7, <2>1, DeleteLeaves, UsersAlone DEF Refuse, Answer, TypeOK
<1>8. ASSUME NEW h \in Handlers, Accept(h) PROVE UserInv'
  <2>1. \A g \in Handlers : Follows(g)
    BY <1>8 DEF Accept, Accepted, Answer, TypeOK, Arg
  <2>. QED BY <1>8, <2>1, AcceptLeaves, UsersAlone DEF Accept
<1>9. ASSUME NEW h \in Handlers, SetPassword(h) PROVE UserInv'
  <2>1. \A n \in Names : users[n] # 0 => users'[n] # 0
    BY <1>9 DEF SetPassword, TypeOK
  <2>2. \A g \in Handlers : Follows(g)
    BY <1>9 DEF SetPassword, TypeOK, Arg
  <2>. QED BY <1>9, <2>1, <2>2, UsersAlone DEF SetPassword, Exists
<1>10. ASSUME NEW h \in Handlers, Revoke(h) PROVE UserInv'
  <2>1. PICK gone \in SUBSET Tokens : Delete(gone)
    BY <1>10 DEF Revoke
  <2>2. arg[h].password \in Nat
    BY <1>10 DEF Revoke, TypeOK, Arg
  <2>. QED BY <1>10, <2>1, <2>2, DeleteLeaves, OpenSessionTyped, UsersAlone DEF Revoke
<1>11. ASSUME NEW h \in Handlers, Authenticate(h) PROVE UserInv'
  <2>1. arg[h].password \in Nat
    BY <1>11 DEF Authenticate, TypeOK, Arg
  <2>2. CASE users[arg[h].name] # 0 /\ users[arg[h].name] = arg[h].password
    <3>1. OpenSession(h, arg[h].password) /\ UNCHANGED <<users, sessions>>
      BY <1>11, <2>2 DEF Authenticate
    <3>. QED BY <2>1, <2>2, <3>1, OpenSessionTyped DEF UserInv, Exists
  <2>3. CASE ~(users[arg[h].name] # 0 /\ users[arg[h].name] = arg[h].password)
    BY <1>11, <2>3, TablesAlone, AnswerTyped DEF Authenticate
  <2>. QED BY <2>2, <2>3
<1>12. ASSUME NEW h \in Handlers, CreateSession(h) PROVE UserInv'
  <2>1. PICK t \in Tokens :
          sessions' = [sessions EXCEPT ![t] =
                [user |-> arg[h].name, created |-> now, expires |-> now + Idle,
                 password |-> arg[h].password]]
    BY <1>12 DEF CreateSession
  <2>2. sessions'[t].user = arg[h].name /\ \A u \in Tokens \ {t} : sessions'[u] = sessions[u]
    BY <2>1 DEF TypeOK
  <2>3. users' = users /\ users[arg[h].name] # 0
    BY <1>12 DEF CreateSession, UserInv
  <2>. QED BY <1>12, <2>2, <2>3, AnswerTyped DEF CreateSession, UserInv, Exists
<1>13. ASSUME NEW h \in Handlers, CreateUser(h) PROVE UserInv'
  <2>1. arg[h].name \in Names
    BY <1>13 DEF CreateUser, TypeOK
  <2>2. CASE users[arg[h].name] = 0
    <3>1. /\ users' = [users EXCEPT ![arg[h].name] = 1] /\ sessions' = sessions
          /\ OpenSession(h, 1)
      BY <1>13, <2>2 DEF CreateUser
    <3>2. users'[arg[h].name] # 0 /\ \A n \in Names : users[n] # 0 => users'[n] # 0
      BY <2>1, <3>1 DEF TypeOK
    <3>3. \A t \in Tokens : Exists(t)' => users'[sessions'[t].user] # 0
      BY <3>1, <3>2 DEF UserInv, TypeOK, Exists, Session
    <3>4. \A g \in Handlers :
             hpc'[g] \in {"session", "decide", "update", "revoke"} => users'[arg'[g].name] # 0
      BY <3>1, <3>2, OpenSessionTyped DEF UserInv, TypeOK
    <3>. QED BY <3>3, <3>4 DEF UserInv
  <2>3. CASE users[arg[h].name] # 0
    BY <1>13, <2>3, TablesAlone, AnswerTyped DEF CreateUser
  <2>. QED BY <2>2, <2>3
<1>14. ASSUME NEW h \in Handlers, StatementFails(h) PROVE UserInv'
  BY <1>14, TablesAlone, AnswerTyped DEF StatementFails
<1>15. CASE UNCHANGED vars
  BY <1>15, TablesAlone DEF vars
<1>. QED BY <1>1, <1>2, <1>3, <1>4, <1>5, <1>6, <1>7, <1>8, <1>9, <1>10, <1>11, <1>12, <1>13,
            <1>14, <1>15 DEF Next, Request, Handle

LEMMA SpecUsers == Spec => []UserInv
<1>1. Init => UserInv
  BY DEF Init, UserInv, Exists
<1>. QED BY <1>1, SpecTypeOK, StepUsers, PTL DEF Spec
-----------------------------------------------------------------------------
(* The passwords.                                                          *)

LEMMA StepPasswords ==
    TypeOK /\ UserInv /\ OldPasswordsSignNobodyIn /\ [Next]_vars => OldPasswordsSignNobodyIn'
<1>. SUFFICES ASSUME TypeOK, UserInv, OldPasswordsSignNobodyIn, [Next]_vars
              PROVE  OldPasswordsSignNobodyIn'
  OBVIOUS
<1>1. CASE Tick
  BY <1>1, PasswordsAlone DEF Tick, Exists
<1>2. CASE PruneSessions
  <2>1. PICK gone \in SUBSET Tokens : Delete(gone)
    BY <1>2 DEF PruneSessions
  <2>. QED BY <1>2, <2>1, DeleteLeaves, PasswordsAlone DEF PruneSessions
<1>3. ASSUME NEW t \in Tokens, Logout(t) PROVE OldPasswordsSignNobodyIn'
  BY <1>3, DeleteLeaves, PasswordsAlone DEF Logout
<1>4. ASSUME NEW h \in Handlers, Request(h) PROVE OldPasswordsSignNobodyIn'
  <2>1. UNCHANGED <<users, sessions, late>>
    BY <1>4 DEF Request, Read, Login, Setup, history
  <2>2. hpc[h] # "revoke"
    BY <1>4 DEF Request, Read, Login, Setup, Begin
  <2>3. \A g \in Handlers \ {h} : hpc'[g] = hpc[g] /\ arg'[g] = arg[g]
    BY <1>4 DEF Request, Read, Login, Setup, Begin, TypeOK
  <2>. QED BY <2>1, <2>2, <2>3, PasswordsAlone DEF Exists
<1>5. ASSUME NEW h \in Handlers, Refuse(h) PROVE OldPasswordsSignNobodyIn'
  <2>1. {arg[h].token} \in SUBSET Tokens
    BY <1>5 DEF Refuse, TypeOK
  <2>. QED BY <1>5, <2>1, DeleteLeaves, AnswerTyped, PasswordsAlone DEF Refuse
<1>6. ASSUME NEW h \in Handlers, Accept(h) PROVE OldPasswordsSignNobodyIn'
  <2>1. hpc[h] # "revoke" /\ \A g \in Handlers \ {h} : hpc'[g] = hpc[g] /\ arg'[g] = arg[g]
    BY <1>6 DEF Accept, Accepted, Answer, TypeOK
  <2>. QED BY <1>6, <2>1, AcceptLeaves, PasswordsAlone DEF Accept
<1>7. ASSUME NEW h \in Handlers, SetPassword(h) PROVE OldPasswordsSignNobodyIn'
  <2>1. /\ hpc'[h] = "revoke" /\ arg'[h].name = arg[h].name /\ hpc[h] # "revoke"
        /\ \A g \in Handlers \ {h} : hpc'[g] = hpc[g] /\ arg'[g] = arg[g]
    BY <1>7 DEF SetPassword, TypeOK, Arg
  <2>2. \A n \in Names \ {arg[h].name} : users'[n] = users[n]
    BY <1>7 DEF SetPassword, TypeOK
  <2>3. UNCHANGED <<sessions, late>>
    BY <1>7 DEF SetPassword, history
  <2>4. \A t \in Tokens : Exists(t) => sessions[t].user \in Names
    BY DEF TypeOK, Exists, Session
  <2>. QED BY <2>1, <2>2, <2>3, <2>4 DEF OldPasswordsSignNobodyIn, Exists
<1>8. ASSUME NEW h \in Handlers, Revoke(h) PROVE OldPasswordsSignNobodyIn'
  <2>. DEFINE gone == {t \in Tokens : Exists(t) /\ sessions[t].user = arg[h].name}
  <2>1. gone \in SUBSET Tokens /\ Delete(gone)
    BY <1>8 DEF Revoke
  <2>2. \A t \in Tokens : Exists(t)' => /\ Exists(t) /\ sessions[t].user # arg[h].name
                                       /\ sessions'[t].user = sessions[t].user
                                       /\ sessions'[t].password = sessions[t].password
    BY <2>1, DeleteLeaves
  <2>. HIDE DEF gone
  <2>3. arg[h].password \in Nat
    BY <1>8 DEF Revoke, TypeOK, Arg
  <2>4. \A g \in Handlers \ {h} : hpc'[g] = hpc[g] /\ arg'[g] = arg[g]
    BY <1>8, <2>3, OpenSessionTyped DEF Revoke
  <2>. QED BY <1>8, <2>2, <2>4 DEF Revoke, OldPasswordsSignNobodyIn
<1>9. ASSUME NEW h \in Handlers, Authenticate(h) PROVE OldPasswordsSignNobodyIn'
  <2>1. arg[h].password \in Nat /\ hpc[h] # "revoke"
    BY <1>9 DEF Authenticate, TypeOK, Arg
  <2>2. \A g \in Handlers \ {h} : hpc'[g] = hpc[g] /\ arg'[g] = arg[g]
    BY <1>9, <2>1, AnswerTyped, OpenSessionTyped DEF Authenticate
  <2>. QED BY <1>9, <2>1, <2>2, PasswordsAlone DEF Authenticate, Exists
<1>10. ASSUME NEW h \in Handlers, CreateSession(h) PROVE OldPasswordsSignNobodyIn'
  <2>1. PICK t \in Tokens :
          /\ sessions' = [sessions EXCEPT ![t] =
                [user |-> arg[h].name, created |-> now, expires |-> now + Idle,
                 password |-> arg[h].password]]
          /\ late' = IF arg[h].password = users[arg[h].name] THEN late ELSE late \cup {t}
    BY <1>10 DEF CreateSession
  <2>2. /\ sessions'[t].user = arg[h].name /\ sessions'[t].password = arg[h].password
        /\ \A u \in Tokens \ {t} : sessions'[u] = sessions[u]
    BY <2>1 DEF TypeOK
  <2>3. users' = users /\ late \subseteq late' /\ hpc[h] # "revoke"
    BY <1>10, <2>1 DEF CreateSession
  <2>4. \A g \in Handlers \ {h} : hpc'[g] = hpc[g] /\ arg'[g] = arg[g]
    BY <1>10, AnswerTyped DEF CreateSession
  <2>5. \A u \in Tokens \ {t} : Exists(u)' => Exists(u)
    BY <2>2 DEF Exists
  <2>. QED BY <2>1, <2>2, <2>3, <2>4, <2>5 DEF OldPasswordsSignNobodyIn
<1>11. ASSUME NEW h \in Handlers, CreateUser(h) PROVE OldPasswordsSignNobodyIn'
  <2>1. UNCHANGED <<sessions, late>> /\ hpc[h] # "revoke"
    BY <1>11 DEF CreateUser
  <2>2. \A t \in Tokens : Exists(t) => users'[sessions[t].user] = users[sessions[t].user]
    <3>1. \A n \in Names : users[n] # 0 => users'[n] = users[n]
      BY <1>11 DEF CreateUser, TypeOK
    <3>. QED BY <3>1 DEF UserInv, TypeOK, Exists, Session
  <2>3. \A g \in Handlers \ {h} : hpc'[g] = hpc[g] /\ arg'[g] = arg[g]
    BY <1>11, AnswerTyped, OpenSessionTyped DEF CreateUser
  <2>. QED BY <2>1, <2>2, <2>3 DEF OldPasswordsSignNobodyIn, Exists
<1>12. ASSUME NEW h \in Handlers, StatementFails(h) PROVE OldPasswordsSignNobodyIn'
  <2>1. UNCHANGED <<users, sessions>>
    BY <1>12 DEF StatementFails
  <2>2. \A g \in Handlers \ {h} : hpc'[g] = hpc[g] /\ arg'[g] = arg[g]
    BY <1>12, AnswerTyped DEF StatementFails
  <2>3. \/ hpc[h] # "revoke" /\ late' = late
        \/ late' = late \cup {t \in Tokens : Exists(t) /\ sessions[t].user = arg[h].name}
    BY <1>12 DEF StatementFails
  <2>. QED BY <2>1, <2>2, <2>3 DEF OldPasswordsSignNobodyIn, Exists
<1>13. CASE UNCHANGED vars
  BY <1>13, PasswordsAlone DEF vars, history, Exists
<1>. QED BY <1>1, <1>2, <1>3, <1>4, <1>5, <1>6, <1>7, <1>8, <1>9, <1>10, <1>11, <1>12, <1>13
         DEF Next, Handle

-----------------------------------------------------------------------------
(* The limiter: LimiterInv.                                                *)

\* Guesses S, of which a window that began at start has counted some.
WithinLimit(S, start, count) ==
    /\ IsFiniteSet(S)
    /\ \A g \in S : g[1] \in Int /\ g[1] < start + Minute
    /\ Cardinality({g \in S : g[1] >= start}) <= count
    /\ Cardinality({g \in S : g[1] >= start}) <= Limit
    /\ Cardinality({g \in S : g[1] < start}) <= Limit

LimiterInv ==
    /\ limiter.start <= now
    /\ \A a \in Addrs : WithinLimit(Guesses(a), limiter.start, limiter.count[a])

LEMMA NoGuesses ==
    ASSUME NEW start \in Int
    PROVE  WithinLimit({}, start, 0)
<1>1. {g \in {} : g[1] >= start} = {} /\ {g \in {} : g[1] < start} = {}
  OBVIOUS
<1>2. IsFiniteSet({}) /\ Cardinality({}) = 0
  BY FS_EmptySet
<1>3. /\ Cardinality({g \in {} : g[1] >= start}) = 0
      /\ Cardinality({g \in {} : g[1] < start}) = 0
  BY <1>1, <1>2
<1>. QED BY <1>2, <1>3, TimesAssumption DEF WithinLimit

\* Guesses grow old, and the window may count more than were let through.
LEMMA FewerGuesses ==
    ASSUME NEW start \in Int, NEW count \in Nat, NEW S, WithinLimit(S, start, count),
           NEW T \in SUBSET S, NEW more \in Nat, more >= count
    PROVE  WithinLimit(T, start, more)
<1>. DEFINE new(R) == {g \in R : g[1] >= start}
            old(R) == {g \in R : g[1] < start}
<1>1. IsFiniteSet(S) /\ IsFiniteSet(new(S)) /\ IsFiniteSet(old(S)) /\ IsFiniteSet(T)
  BY FS_Subset DEF WithinLimit
<1>2. new(T) \in SUBSET new(S) /\ old(T) \in SUBSET old(S)
  OBVIOUS
<1>3. /\ IsFiniteSet(new(T)) /\ Cardinality(new(T)) <= Cardinality(new(S))
      /\ IsFiniteSet(old(T)) /\ Cardinality(old(T)) <= Cardinality(old(S))
  BY <1>1, <1>2, FS_Subset
<1>4. /\ Cardinality(new(S)) \in Nat /\ Cardinality(new(T)) \in Nat
      /\ Cardinality(old(S)) \in Nat /\ Cardinality(old(T)) \in Nat
  BY <1>1, <1>3, FS_CardinalityType
<1>5. Cardinality(new(S)) <= count /\ Cardinality(new(S)) <= Limit /\ Cardinality(old(S)) <= Limit
  BY DEF WithinLimit
<1>6. Cardinality(new(T)) <= more /\ Cardinality(new(T)) <= Limit /\ Cardinality(old(T)) <= Limit
  BY <1>3, <1>4, <1>5, TimesAssumption
<1>. QED BY <1>1, <1>6 DEF WithinLimit

\* When a window is over, what it counted is all that is young enough.
LEMMA WindowRolls ==
    ASSUME NEW start \in Int, NEW count, NEW S, WithinLimit(S, start, count),
           NEW n \in Int, n - start >= Minute, \A g \in S : g[1] > n - Minute,
           NEW first \in Nat
    PROVE  WithinLimit(S, n, first)
<1>1. Minute \in Nat /\ Minute > 0 /\ Limit \in Nat
  BY TimesAssumption
<1>2. \A g \in S : g[1] \in Int /\ g[1] < n /\ g[1] >= start
  BY <1>1 DEF WithinLimit
<1>3. {g \in S : g[1] >= n} = {}
  BY <1>2
<1>4. {g \in S : g[1] < n} = {g \in S : g[1] >= start}
  BY <1>2
<1>5. \A g \in S : g[1] < n + Minute
  BY <1>1, <1>2
<1>6. Cardinality({g \in S : g[1] < n}) <= Limit
  BY <1>4 DEF WithinLimit
<1>7. Cardinality({g \in S : g[1] >= n}) = 0
  BY <1>3, FS_EmptySet
<1>8. IsFiniteSet(S)
  BY DEF WithinLimit
<1>. QED BY <1>1, <1>2, <1>5, <1>6, <1>7, <1>8 DEF WithinLimit

\* One more guess, that the window counts.
LEMMA OneMoreGuess ==
    ASSUME NEW start \in Int, NEW count \in Nat, NEW S, WithinLimit(S, start, count),
           count < Limit, NEW time \in Int, time >= start, time < start + Minute, NEW i
    PROVE  WithinLimit(S \cup {<<time, i>>}, start, count + 1)
<1>. DEFINE g0 == <<time, i>>
            new(R) == {g \in R : g[1] >= start}
            old(R) == {g \in R : g[1] < start}
<1>1. g0[1] = time
  OBVIOUS
<1>. HIDE DEF g0
<1>2. new(S \cup {g0}) = new(S) \cup {g0} /\ old(S \cup {g0}) = old(S)
  BY <1>1
<1>3. IsFiniteSet(S) /\ IsFiniteSet(new(S)) /\ IsFiniteSet(S \cup {g0})
  BY FS_Subset, FS_AddElement DEF WithinLimit
<1>4. Cardinality(new(S) \cup {g0}) <= Cardinality(new(S)) + 1
         /\ Cardinality(new(S)) \in Nat /\ Cardinality(new(S) \cup {g0}) \in Nat
  <2>. HIDE DEF new
  <2>1. Cardinality(new(S)) \in Nat
    BY <1>3, FS_CardinalityType
  <2>2. Cardinality(new(S) \cup {g0}) = IF g0 \in new(S) THEN Cardinality(new(S)) ELSE Cardinality(new(S)) + 1
    BY <1>3, FS_AddElement
  <2>. QED BY <2>1, <2>2
<1>5. Cardinality(new(S)) <= count
  BY DEF WithinLimit
<1>6. Cardinality(new(S \cup {g0})) <= count + 1 /\ Cardinality(new(S \cup {g0})) <= Limit
  BY <1>2, <1>4, <1>5, TimesAssumption
<1>7. Cardinality(old(S \cup {g0})) <= Limit
  BY <1>2 DEF WithinLimit
<1>8. \A g \in S \cup {g0} : g[1] \in Int /\ g[1] < start + Minute
  BY <1>1 DEF WithinLimit
<1>. QED BY <1>3, <1>6, <1>7, <1>8 DEF WithinLimit, g0

\* Both windows together.
LEMMA TwoWindows ==
    ASSUME NEW start \in Int, NEW count, NEW S, WithinLimit(S, start, count)
    PROVE  Cardinality(S) <= 2 * Limit
<1>. DEFINE new == {g \in S : g[1] >= start}
            old == {g \in S : g[1] < start}
<1>1. \A g \in S : g[1] \in Int
  BY DEF WithinLimit
<1>2. S = new \cup old /\ new \cap old = {}
  BY <1>1
<1>3. IsFiniteSet(new) /\ IsFiniteSet(old)
  BY FS_Subset DEF WithinLimit
<1>4. Cardinality(new) <= Limit /\ Cardinality(old) <= Limit
  BY DEF WithinLimit
<1>. HIDE DEF new, old
<1>5. Cardinality(new) \in Nat /\ Cardinality(old) \in Nat
  BY <1>3, FS_CardinalityType
<1>6. Cardinality(new \cup old) = Cardinality(new) + Cardinality(old) - Cardinality(new \cap old)
  BY <1>3, FS_Union
<1>7. Cardinality(new \cap old) = 0
  BY <1>2, FS_EmptySet
<1>. QED BY <1>2, <1>4, <1>5, <1>6, <1>7, TimesAssumption

\* The guesses of an address, one by one.
LEMMA GuessIs ==
    ASSUME TypeOK, NEW a \in Addrs, NEW g
    PROVE  g \in Guesses(a) <=> \E age \in Ages : \E i \in 1 .. attempts[a][age] : g = <<now - age, i>>
BY DEF Guesses

LEMMA GuessIsYoung ==
    ASSUME TypeOK, NEW a \in Addrs, NEW g \in Guesses(a)
    PROVE  g[1] \in Int /\ g[1] > now - Minute
<1>1. PICK age \in Ages : \E i \in 1 .. attempts[a][age] : g = <<now - age, i>>
  BY GuessIs
<1>2. g[1] = now - age
  BY <1>1
<1>. QED BY <1>2, TimesAssumption DEF Ages, TypeOK

LEMMA GuessesAfterTick ==
    ASSUME TypeOK, TypeOK', Tick, NEW a \in Addrs
    PROVE  Guesses(a)' \subseteq Guesses(a)
<1>. SUFFICES ASSUME NEW age \in Ages, NEW i \in 1 .. attempts'[a][age]
              PROVE  <<now' - age, i>> \in Guesses(a)
  BY DEF Guesses
<1>1. attempts'[a][age] = IF age = 0 THEN 0 ELSE attempts[a][age - 1]
  BY DEF Tick
<1>2. age # 0
  BY <1>1
<1>3. age - 1 \in Ages /\ now' - age = now - (age - 1)
  BY <1>2, TimesAssumption DEF Ages, Tick, TypeOK
<1>. QED BY <1>1, <1>2, <1>3, GuessIs

LEMMA GuessesAfterLogin ==
    ASSUME TypeOK, NEW a \in Addrs, now' = now, attempts' = [attempts EXCEPT ![a][0] = @ + 1]
    PROVE  /\ Guesses(a)' = Guesses(a) \cup {<<now, attempts[a][0] + 1>>}
           /\ \A b \in Addrs \ {a} : Guesses(b)' = Guesses(b)
<1>1. attempts[a] \in [Ages -> Nat] /\ 0 \in Ages
  BY AttemptsTyped DEF TypeOK
<1>2. /\ attempts'[a][0] = attempts[a][0] + 1
      /\ \A age \in Ages \ {0} : attempts'[a][age] = attempts[a][age]
      /\ \A b \in Addrs \ {a} : attempts'[b] = attempts[b]
  BY <1>1 DEF TypeOK
<1>3. 1 .. attempts'[a][0] = (1 .. attempts[a][0]) \cup {attempts[a][0] + 1}
  BY <1>1, <1>2
<1>4. now - 0 = now
  BY DEF TypeOK
<1>5. {now - 0} \X (1 .. attempts'[a][0]) = ({now - 0} \X (1 .. attempts[a][0])) \cup {<<now, attempts[a][0] + 1>>}
  BY <1>3, <1>4
<1>6. Guesses(a)' = Guesses(a) \cup {<<now, attempts[a][0] + 1>>}
  BY <1>1, <1>2, <1>5 DEF Guesses
<1>. QED BY <1>2, <1>6 DEF Guesses

LEMMA StepLimiter ==
    TypeOK /\ TypeOK' /\ LimiterInv /\ [Next]_vars => LimiterInv'
<1>. SUFFICES ASSUME TypeOK, TypeOK', LimiterInv, [Next]_vars PROVE LimiterInv'
  OBVIOUS
<1>0. /\ limiter.start \in Int /\ now \in Nat /\ now' \in Nat
      /\ \A a \in Addrs : limiter.count[a] \in Nat
  BY DEF TypeOK
<1>1. CASE Tick
  <2>1. limiter' = limiter /\ now' = now + 1
    BY <1>1 DEF Tick
  <2>2. ASSUME NEW a \in Addrs
        PROVE  WithinLimit(Guesses(a)', limiter.start, limiter.count[a])
    BY <1>0, <1>1, FewerGuesses, GuessesAfterTick DEF LimiterInv
  <2>. QED BY <1>0, <2>1, <2>2 DEF LimiterInv
<1>2. CASE UNCHANGED <<now, limiter, attempts>>
  <2>1. \A a \in Addrs : Guesses(a)' = Guesses(a)
    BY <1>2 DEF Guesses
  <2>. QED BY <1>2, <2>1 DEF LimiterInv
<1>3. ASSUME NEW h \in Handlers, NEW a \in Addrs, NEW n \in Names, NEW password \in {0, users[n]},
             Login(h, a, n, password)
      PROVE  LimiterInv'
  <2>. DEFINE start == IF WindowOver THEN now ELSE limiter.start
              base(b) == IF WindowOver THEN 0 ELSE limiter.count[b]
  <2>1. /\ now' = now /\ limiter'.start = start
        /\ limiter'.count[a] = base(a) + 1
        /\ \A b \in Addrs \ {a} : limiter'.count[b] = base(b)
    BY <1>0, <1>3 DEF Login, TypeOK
  <2>2. start \in Int /\ start <= now /\ now < start + Minute /\ \A b \in Addrs : base(b) \in Nat
    BY <1>0, TimesAssumption DEF WindowOver, LimiterInv
  <2>3. ASSUME NEW b \in Addrs PROVE WithinLimit(Guesses(b), start, base(b))
    <3>1. WithinLimit(Guesses(b), limiter.start, limiter.count[b])
      BY DEF LimiterInv
    <3>2. CASE WindowOver
      BY <1>0, <3>1, <3>2, GuessIsYoung, WindowRolls DEF WindowOver
    <3>3. CASE ~WindowOver
      BY <3>1, <3>3
    <3>. QED BY <3>2, <3>3
  <2>4. base(a) = Count(a)
    BY DEF Count
  <2>. HIDE DEF start, base
  <2>5. CASE Count(a) < Limit
    <3>1. attempts' = [attempts EXCEPT ![a][0] = @ + 1]
      BY <1>3, <2>5 DEF Login
    <3>2. WithinLimit(Guesses(a) \cup {<<now, attempts[a][0] + 1>>}, start, base(a) + 1)
      <4>. DEFINE count == base(a)
                  S == Guesses(a)
      <4>1. count \in Nat /\ count < Limit /\ start \in Int /\ WithinLimit(S, start, count)
        BY <2>2, <2>3, <2>4, <2>5
      <4>2. now \in Int /\ now >= start /\ now < start + Minute
        BY <1>0, <2>2
      <4>. HIDE DEF count, S
      <4>3. \A i : WithinLimit(S \cup {<<now, i>>}, start, count + 1)
        BY <4>1, <4>2, OneMoreGuess
      <4>. QED BY <4>3 DEF count, S
    <3>3. WithinLimit(Guesses(a)', start, base(a) + 1)
      BY <2>1, <3>1, <3>2, GuessesAfterLogin
    <3>4. \A b \in Addrs \ {a} : Guesses(b)' = Guesses(b)
      BY <2>1, <3>1, GuessesAfterLogin
    <3>. QED BY <2>1, <2>2, <2>3, <3>3, <3>4 DEF LimiterInv
  <2>6. CASE ~(Count(a) < Limit)
    <3>1. attempts' = attempts
      BY <1>3, <2>6 DEF Login
    <3>2. \A b \in Addrs : Guesses(b)' = Guesses(b)
      BY <2>1, <3>1 DEF Guesses
    <3>3. WithinLimit(Guesses(a), start, base(a) + 1)
      BY <2>2, <2>3, FewerGuesses
    <3>. QED BY <2>1, <2>2, <2>3, <3>2, <3>3 DEF LimiterInv
  <2>. QED BY <2>5, <2>6
<1>4. ASSUME NEW h \in Handlers, Authenticate(h) PROVE LimiterInv'
  <2>1. CASE UNCHANGED <<limiter, attempts>>
    BY <1>2, <1>4, <2>1 DEF Authenticate
  <2>2. CASE /\ limiter' = [limiter EXCEPT !.count[arg[h].addr] = 0]
             /\ attempts' = [attempts EXCEPT ![arg[h].addr] = NoAttempts]
    <3>1. PICK a \in Addrs : a = arg[h].addr /\ now' = now
      BY <1>4 DEF Authenticate, TypeOK
    <3>2. /\ limiter'.start = limiter.start /\ limiter'.count[a] = 0
          /\ \A b \in Addrs \ {a} : limiter'.count[b] = limiter.count[b]
      BY <2>2, <3>1 DEF TypeOK
    <3>3. attempts'[a] = NoAttempts /\ \A b \in Addrs \ {a} : attempts'[b] = attempts[b]
      BY <2>2, <3>1 DEF TypeOK
    <3>4. Guesses(a)' = {}
      <4>1. \A age \in Ages : attempts'[a][age] = 0
        BY <3>3 DEF NoAttempts
      <4>2. \A age \in Ages : 1 .. attempts'[a][age] = {}
        BY <4>1
      <4>. QED BY <4>2 DEF Guesses
    <3>5. \A b \in Addrs \ {a} : Guesses(b)' = Guesses(b)
      BY <3>1, <3>3 DEF Guesses
    <3>6. WithinLimit({}, limiter.start, 0)
      BY <1>0, NoGuesses
    <3>. QED BY <3>1, <3>2, <3>4, <3>5, <3>6 DEF LimiterInv
  <2>. QED BY <1>4, <2>1, <2>2 DEF Authenticate
<1>5. UNCHANGED <<now, limiter, attempts>> \/ Tick
        \/ \E h \in Handlers :
              \/ Authenticate(h)
              \/ \E a \in Addrs, n \in Names : \E password \in {0, users[n]} : Login(h, a, n, password)
  BY DEF Next, Request, Handle, PruneSessions, Logout, Read, Setup, Refuse, Accept, SetPassword, Revoke,
         CreateSession, CreateUser, StatementFails, vars, history
<1>. QED BY <1>1, <1>2, <1>3, <1>4, <1>5

LEMMA SpecLimiter == Spec => []LimiterInv
<1>1. Init => LimiterInv
  <2>. SUFFICES ASSUME Init PROVE LimiterInv
    OBVIOUS
  <2>1. \A a \in Addrs : Guesses(a) = {}
    BY DEF Init, Guesses, NoAttempts
  <2>2. limiter.start = 0 - Minute /\ now = 0 /\ \A a \in Addrs : limiter.count[a] = 0
    BY DEF Init
  <2>3. limiter.start \in Int /\ limiter.start <= now
    BY <2>2, TimesAssumption
  <2>. QED BY <2>1, <2>2, <2>3, NoGuesses DEF LimiterInv
<1>. QED BY <1>1, StepLimiter, SpecTypeOK, PTL DEF Spec

-----------------------------------------------------------------------------
(* The theorems.                                                           *)

\* Every variable keeps its type: a handler that goes on holds a user, and one
\* that judges a session holds its token and row.
THEOREM TypeCorrect == Spec => []TypeOK
BY SpecTypeOK

\* No session outlives its idle window or its ceiling, whatever refreshes race.
THEOREM SessionsAlwaysEnd == Spec => []SessionsEnd
<1>1. SessionInv => SessionsEnd
  BY DEF SessionInv, Deadline, SessionsEnd
<1>. QED BY <1>1, SpecSessions, PTL

\* A session in use is never cut short by more than the half window the
\* refresh saves: a refresh that read an older row never moves a deadline back.
THEOREM UsedSessionsAlwaysLive == Spec => []UsedSessionsLive
<1>1. SessionInv => UsedSessionsLive
  BY DEF SessionInv, Deadline, UsedSessionsLive
<1>. QED BY <1>1, SpecSessions, PTL

\* A session that has ended stays ended.
THEOREM EndedSessionsAlwaysStayEnded == Spec => []EndedSessionsStayEnded
<1>1. SessionInv => EndedSessionsStayEnded
  BY DEF SessionInv, EndedSessionsStayEnded
<1>. QED BY <1>1, SpecSessions, PTL

\* A change of the password ends every session of an older one.
THEOREM OldPasswordsNeverSignIn == Spec => []OldPasswordsSignNobodyIn
<1>1. Init => OldPasswordsSignNobodyIn
  BY DEF Init, OldPasswordsSignNobodyIn, Exists
<1>. QED BY <1>1, SpecTypeOK, SpecUsers, StepPasswords, PTL DEF Spec

\* An address gets at most two budgets of guesses within a window's length: what
\* a window that has rolled had counted, and what the next one counts.
THEOREM GuessesAlwaysLimited == Spec => []GuessesAreLimited
<1>1. TypeOK /\ LimiterInv => GuessesAreLimited
  BY TwoWindows DEF TypeOK, LimiterInv, GuessesAreLimited
<1>. QED BY <1>1, SpecTypeOK, SpecLimiter, PTL
=============================================================================
