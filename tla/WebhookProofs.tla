--------------------------- MODULE WebhookProofs ---------------------------
(***************************************************************************)
(* Webhook, for any handlers, jobs and events: one run per commit and one  *)
(* per delivery id but for requests that cross, superseded runs stopped    *)
(* before their successor is there, and a row for every event taken.       *)
(*                                                                         *)
(* Each of these rests on what a handler knows once it has made a lookup:  *)
(* of what the lookup asked for, only jobs enqueued since can be in        *)
(* flight.  The facts are stated per handler and per job of the handler's  *)
(* past, so that a step of another handler keeps them: it adds to the jobs *)
(* in flight only what it adds to late.                                    *)
(***************************************************************************)
EXTENDS Webhook, TLAPS

USE EventsAssumption, EndingsAssumption

InCall(h) == hpc[h] \in {"lookup", "read", "finish"}

\* Where h is in handleWebhook: during CancelJob, where that returns to.
Place(h) == IF InCall(h) THEN resume[h] ELSE hpc[h]

Origins == [delivery : STRING \cup Nat \cup {NoDelivery}, sha : Nat, ref : STRING,
            event : {"requested", "rerequested", "manual"}]

TableTypeOK ==
    /\ status \in [Jobs -> JobStatuses \cup {"absent"}]
    /\ owner \in [Jobs -> {"none", "claimed", "running", "ending"}]
    /\ signalled \in [Jobs -> BOOLEAN]

RowsTypeOK ==
    /\ origin \in [Jobs -> Origins \cup {NoEvent}]
    /\ \A j \in Rows : origin[j] \in Origins
    /\ unseen \subseteq Jobs \X Jobs

HandlersTypeOK ==
    /\ hpc \in [Handlers -> {"idle", "delivery", "suite", "list", "supersede", "enqueue",
                             "lookup", "read", "finish"}]
    /\ ev \in [Handlers -> Events \cup {NoEvent}]
    /\ late \in [Handlers -> SUBSET Jobs]
    /\ victims \in [Handlers -> SUBSET Jobs]
    /\ victim \in [Handlers -> Jobs \cup {NoJob}]
    /\ resume \in [Handlers -> {"idle", "list", "supersede"}]
    /\ missed \subseteq Jobs

TypeOK ==
    /\ TableTypeOK /\ RowsTypeOK /\ HandlersTypeOK
    /\ storeFaults \in Nat /\ crossing \in BOOLEAN

\* A handler holds an event as long as it is in handleWebhook, and a job and a
\* place to return to as long as it is in CancelJob.
Held(h) ==
    /\ ev[h] = NoEvent <=> Place(h) = "idle"
    /\ IF InCall(h) THEN victim[h] \in Jobs ELSE resume[h] = "idle"

\* A job that was told to stop is registered, one whose row is written is not in
\* flight, and nothing holds a queued job.
Table ==
    \A j \in Jobs :
        /\ status[j] \in {"absent", "queued"} => owner[j] = "none"
        /\ signalled[j] => owner[j] \in {"running", "ending"}
        /\ owner[j] = "ending" => status[j] \in Terminal

\* A delivery id stands for one commit.
IdsNameCommits ==
    \A j \in Rows : origin[j].delivery # NoDelivery =>
        \E e \in Events : e.delivery = origin[j].delivery /\ e.sha = origin[j].sha

\* The jobs in flight that were there when h read its event.
Seen(h) == Live \ late[h]

\* What h knows past store.InFlightJobForDelivery ...
IdIsFree(h) ==
    Place(h) \notin {"idle", "delivery"} /\ ev[h].delivery # NoDelivery =>
        \A j \in Seen(h) : origin[j].delivery # ev[h].delivery

\* ... past store.InFlightJobForSuite, for an event that asks for nothing again ...
CommitIsFree(h) ==
    Place(h) \in {"list", "supersede", "enqueue"} /\ ev[h].action = "requested" =>
        \A j \in Seen(h) : origin[j].sha # ev[h].sha

\* ... and in cancelSuperseded, of the other commits of the branch.
ToBeStopped(h, j) == j \in victims[h] \/ (InCall(h) /\ j = victim[h]) \/ signalled[j]

SupersededAreListed(h) ==
    /\ Place(h) = "supersede" /\ ev[h].ref # "" =>
          \A j \in Seen(h) : origin[j].ref = ev[h].ref /\ origin[j].sha # ev[h].sha => ToBeStopped(h, j)
    /\ Place(h) = "enqueue" /\ ev[h].ref # "" =>
          \A j \in Seen(h) : origin[j].ref = ev[h].ref /\ origin[j].sha # ev[h].sha => signalled[j]

\* What drain holds and what a goroutine builds is in flight, but for the jobs whose
\* row CancelJob may rewrite because it did not find them running.
Missing ==
    /\ \A j \in Jobs : Building(j) => status[j] = "in_progress" \/ j \in missed
    /\ \A h \in Handlers : hpc[h] \in {"read", "finish"} => victim[h] \in missed

Known(h) == IdIsFree(h) /\ CommitIsFree(h) /\ SupersededAreListed(h)

IInv ==
    /\ TypeOK
    /\ Table
    /\ \A h \in Handlers : Held(h)
    /\ Missing
    /\ IdsNameCommits
    /\ storeFaults = 0 => \A h \in Handlers : Known(h)
    /\ DeliveryIsHeldOnce
    /\ OneLiveRunPerCommit
-----------------------------------------------------------------------------
(* The steps, by what they leave alone.                                    *)

Looks(h) ==
    \/ \E e \in Events : Receive(h, e)
    \/ \E j \in Jobs : Cancel(h, j)
    \/ DeliveryCheck(h) \/ SuiteCheck(h) \/ ListSuperseded(h) \/ CancelSuperseded(h)
    \/ CancelNotRunning(h) \/ CancelRead(h)

Adds(h) == EnqueueEvent(h) \/ \E j \in Jobs : Rerun(h, j)

Stops(h) == CancelRunning(h) \/ CancelFinish(h)

LEMMA Steps ==
    ASSUME [Next]_vars
    PROVE  \/ Runner \/ UNCHANGED vars
           \/ \E h \in Handlers : Looks(h) \/ Adds(h) \/ Stops(h)
BY DEF Next, Handle, Request, Looks, Adds, Stops

LEMMA LooksLeave ==
    ASSUME NEW h \in Handlers, Looks(h)
    PROVE  UNCHANGED <<tableVars, rowVars>>
BY DEF Looks, Receive, Cancel, DeliveryCheck, SuiteCheck, ListSuperseded, CancelSuperseded,
       CancelNotRunning, CancelRead

\* A job is enqueued, or nothing happens to the rows.
Added(h, j, columns, met) ==
    /\ Enqueue(j)
    /\ origin' = [origin EXCEPT ![j] = columns]
    /\ unseen' = unseen \cup ({j} \X met)
    /\ Witness(h, j)

LEMMA AddsOneRow ==
    ASSUME TypeOK, NEW h \in Handlers, Adds(h)
    PROVE  \/ UNCHANGED <<tableVars, rowVars>> /\ hpc[h] = "enqueue"
              /\ storeFaults' > 0 /\ \A g \in Handlers \ {h} : late'[g] = late[g]
           \/ /\ hpc[h] = "enqueue"
              /\ \E j \in Jobs :
                    Added(h, j, Columns(ev[h]), {k \in late[h] : origin[k].sha = ev[h].sha})
           \/ /\ hpc[h] = "idle"
              /\ \E j \in Jobs, old \in Rows :
                    Added(h, j, [origin[old] EXCEPT !.delivery = NoDelivery, !.event = "manual"], {})
<1>1. CASE EnqueueEvent(h)
  <2>1. storeFaults \in Nat
    BY DEF TypeOK
  <2>. QED BY <1>1, <2>1 DEF EnqueueEvent, StoreFault, Added, TypeOK, HandlersTypeOK
<1>2. ASSUME NEW old \in Jobs, Rerun(h, old)
      PROVE  /\ hpc[h] = "idle"
             /\ \E j \in Jobs, old2 \in Rows :
                   Added(h, j, [origin[old2] EXCEPT !.delivery = NoDelivery, !.event = "manual"], {})
  <2>1. old \in Rows /\ hpc[h] = "idle" /\ unseen' = unseen
    BY <1>2 DEF Rerun
  <2>2. PICK j \in Jobs :
          /\ Enqueue(j)
          /\ origin' = [origin EXCEPT ![j] = [origin[old] EXCEPT !.delivery = NoDelivery,
                                                                    !.event = "manual"]]
          /\ Witness(h, j)
    BY <1>2 DEF Rerun
  <2>3. unseen' = unseen \cup ({j} \X {})
    BY <2>1
  <2>. QED BY <2>1, <2>2, <2>3 DEF Added
<1>. QED BY <1>1, <1>2 DEF Adds

-----------------------------------------------------------------------------
(* Types.                                                                  *)

LEMMA InitIInv == Init => IInv
<1>. SUFFICES ASSUME Init PROVE IInv
  OBVIOUS
<1>. USE DEF Init, TableInit
<1>1. Rows = {} /\ Live = {}
  BY DEF Rows, Live
<1>2. TypeOK
  BY <1>1 DEF TypeOK, TableTypeOK, RowsTypeOK, HandlersTypeOK, JobStatuses
<1>3. \A h \in Handlers : ~InCall(h) /\ Place(h) = "idle"
  BY DEF Place, InCall
<1>4. \A h \in Handlers : Held(h) /\ Known(h)
  BY <1>3 DEF Held, Known, IdIsFree, CommitIsFree, SupersededAreListed
<1>5. Table /\ Missing
  BY DEF Table, Missing, Building
<1>. QED BY <1>1, <1>2, <1>4, <1>5 DEF IInv, IdsNameCommits, DeliveryIsHeldOnce, OneLiveRunPerCommit

LEMMA RunnerTypes ==
    ASSUME TableTypeOK, Table, Runner
    PROVE  /\ TableTypeOK' /\ Table'
           /\ Rows' = Rows /\ Live' \subseteq Live
           /\ \A j \in Live' : signalled[j] => signalled'[j]
<1>. DEFINE Goal == /\ TableTypeOK' /\ Table'
                    /\ Rows' = Rows /\ Live' \subseteq Live
                    /\ \A j \in Live' : signalled[j] => signalled'[j]
<1>. USE DEF TableTypeOK, Table, JobStatuses, InFlight, Terminal, Rows, Live
<1>1. ASSUME NEW j \in Jobs, ClaimNext(j) PROVE Goal
  BY <1>1 DEF ClaimNext
<1>2. ASSUME NEW j \in Jobs, Register(j) PROVE Goal
  BY <1>2 DEF Register
<1>3. ASSUME NEW j \in Jobs, End(j) PROVE Goal
  BY <1>3 DEF End
<1>4. ASSUME NEW j \in Jobs, Leave(j) PROVE Goal
  BY <1>4 DEF Leave
<1>. QED BY <1>1, <1>2, <1>3, <1>4 DEF Runner, RunnerStep

\* What Enqueue and Witness do to the table and to late.
LEMMA AddedTypes ==
    ASSUME TypeOK, Table, NEW h \in Handlers, NEW j \in Jobs, NEW columns \in Origins,
           NEW met \in SUBSET Jobs, Added(h, j, columns, met)
    PROVE  /\ TableTypeOK' /\ RowsTypeOK' /\ Table'
           /\ late' \in [Handlers -> SUBSET Jobs]
           /\ j \notin Rows /\ Rows' = Rows \cup {j} /\ Live' = Live \cup {j}
           /\ origin'[j] = columns /\ \A k \in Rows : origin'[k] = origin[k]
<1>. USE DEF TypeOK, TableTypeOK, RowsTypeOK, HandlersTypeOK
<1>1. /\ j \notin Rows /\ status'[j] = "queued"
      /\ \A k \in Jobs \ {j} : status'[k] = status[k]
      /\ UNCHANGED <<owner, signalled>>
  BY DEF Added, Enqueue, Rows
<1>2. Rows' = Rows \cup {j} /\ Live' = Live \cup {j}
  BY <1>1 DEF Rows, Live, InFlight
<1>3. TableTypeOK' /\ Table'
  BY <1>1 DEF Added, Enqueue, Table, JobStatuses, InFlight, Terminal
<1>4. origin'[j] = columns /\ (\A k \in Jobs \ {j} : origin'[k] = origin[k])
         /\ origin' \in [Jobs -> Origins \cup {NoEvent}]
  BY DEF Added
<1>5. unseen' \subseteq Jobs \X Jobs
  BY DEF Added
<1>6. \A k \in Rows : k \in Jobs \ {j}
  BY <1>1 DEF Rows
<1>7. RowsTypeOK'
  BY <1>2, <1>4, <1>5, <1>6
<1>8. late' \in [Handlers -> SUBSET Jobs]
  BY DEF Added, Witness
<1>. HIDE DEF TypeOK, TableTypeOK, RowsTypeOK, HandlersTypeOK
<1>. QED BY <1>1, <1>2, <1>3, <1>4, <1>6, <1>7, <1>8

\* The columns of an event, and of the job that is run again.
LEMMA ColumnsType ==
    ASSUME TypeOK, NEW h \in Handlers
    PROVE  /\ ev[h] # NoEvent => Columns(ev[h]) \in Origins
           /\ \A old \in Rows :
                 /\ origin[old] \in Origins
                 /\ [origin[old] EXCEPT !.delivery = NoDelivery, !.event = "manual"] \in Origins
<1>1. ev[h] # NoEvent => ev[h] \in ParsedEvents
  BY DEF TypeOK, HandlersTypeOK
<1>2. \A e \in ParsedEvents : Columns(e) \in Origins
  BY DEF Columns, ParsedEvents, Origins
<1>3. \A old \in Rows : origin[old] \in Origins
  BY DEF TypeOK, RowsTypeOK
<1>4. \A c \in Origins : [c EXCEPT !.delivery = NoDelivery, !.event = "manual"] \in Origins
  BY DEF Origins
<1>. QED BY <1>1, <1>2, <1>3, <1>4

LEMMA StepHandlersTypes ==
    ASSUME TypeOK, Table, \A h \in Handlers : Held(h), [Next]_vars
    PROVE  /\ HandlersTypeOK'
           /\ \A h \in Handlers : Held(h)'
           /\ storeFaults' \in Nat /\ crossing' \in BOOLEAN
           /\ storeFaults' = 0 => storeFaults = 0
<1>. DEFINE Goal == /\ HandlersTypeOK'
                    /\ \A h \in Handlers : Held(h)'
                    /\ storeFaults' \in Nat /\ crossing' \in BOOLEAN
                    /\ storeFaults' = 0 => storeFaults = 0
<1>. USE DEF TypeOK, HandlersTypeOK, Held, Place, InCall
<1>1. CASE Runner \/ UNCHANGED vars
  BY <1>1 DEF Runner, vars, handlerVars, eventVars, callVars, boundVars
<1>. SUFFICES ASSUME NEW h \in Handlers, Looks(h) \/ Adds(h) \/ Stops(h) PROVE Goal
  BY <1>1, Steps
<1>. USE DEF handlerVars, eventVars, callVars, boundVars, Goto, StoreFault
<1>2. ASSUME NEW e \in Events, Receive(h, e) PROVE Goal
  BY <1>2 DEF Receive
<1>3. ASSUME NEW j \in Jobs, Cancel(h, j) PROVE Goal
  BY <1>3 DEF Cancel, Call
<1>4. CASE DeliveryCheck(h)
  BY <1>4 DEF DeliveryCheck, Decline, Answer
<1>5. CASE SuiteCheck(h)
  BY <1>5 DEF SuiteCheck, Decline, Answer, Call, SameCommit, Live, Rows
<1>6. CASE ListSuperseded(h)
  <2>1. /\ hpc[h] = "list" /\ hpc' = [hpc EXCEPT ![h] = hpc'[h]]
        /\ hpc'[h] \in {"supersede", "enqueue"}
        /\ UNCHANGED <<ev, late, victim, resume, missed>>
    BY <1>6 DEF ListSuperseded
  <2> DEFINE listed == {j \in Live : origin[j].ref = ev[h].ref /\ origin[j].sha # ev[h].sha}
  <2>2. listed \subseteq Jobs
    BY DEF Live, Rows
  <2>3. /\ UNCHANGED victims \/ victims' = [victims EXCEPT ![h] = listed]
        /\ UNCHANGED <<storeFaults, crossing>> \/ StoreFault
    BY <1>6 DEF ListSuperseded
  <2>4. victims' \in [Handlers -> SUBSET Jobs]
    BY <2>2, <2>3
  <2>5. storeFaults' \in Nat /\ crossing' \in BOOLEAN /\ (storeFaults' = 0 => storeFaults = 0)
    BY <2>3
  <2>. QED BY <2>1, <2>4, <2>5
<1>7. CASE CancelSuperseded(h)
  BY <1>7 DEF CancelSuperseded, Call
<1>8. CASE CancelNotRunning(h) \/ CancelRead(h) \/ CancelRunning(h) \/ CancelFinish(h)
  BY <1>8 DEF CancelNotRunning, CancelRead, CancelRunning, CancelFinish, Return
<1>9. CASE EnqueueEvent(h)
  BY <1>9 DEF EnqueueEvent, Answer, Witness
<1>10. ASSUME NEW j \in Jobs, Rerun(h, j) PROVE Goal
  BY <1>10 DEF Rerun, Witness
<1>. QED BY <1>2, <1>3, <1>4, <1>5, <1>6, <1>7, <1>8, <1>9, <1>10 DEF Looks, Adds, Stops

\* Stopping a job finishes its row or tells its goroutine.
LEMMA StopsTypes ==
    ASSUME TypeOK, Table, NEW h \in Handlers, Stops(h)
    PROVE  /\ TableTypeOK' /\ Table'
           /\ UNCHANGED rowVars
           /\ Rows' = Rows /\ Live' \subseteq Live
           /\ \A j \in Jobs : signalled[j] => signalled'[j]
<1>. USE DEF TypeOK, TableTypeOK, RowsTypeOK, Table
<1>1. CASE CancelRunning(h)
  BY <1>1 DEF CancelRunning, Signal, Registered, Rows, Live
<1>2. CASE CancelFinish(h)
  BY <1>2 DEF CancelFinish, MarkCancelled, tableVars, Rows, Live, InFlight, Terminal, JobStatuses
<1>. QED BY <1>1, <1>2 DEF Stops
-----------------------------------------------------------------------------
(* What a step may do to the jobs in flight.                               *)

\* Rows stay, nothing comes back into flight, a signal is kept while it matters.
RowsGrow ==
    /\ \A j \in Rows : j \in Rows' /\ origin'[j] = origin[j]
    /\ \A j \in Live' : j \in Live \/ j \notin Rows
    /\ \A j \in Live' : signalled[j] => signalled'[j]
    /\ unseen \subseteq unseen'

\* A handler that still holds its event has seen each job that was enqueued.
LateGrows(g) ==
    ev[g] # NoEvent /\ ev'[g] # NoEvent =>
        ev'[g] = ev[g] /\ late[g] \subseteq late'[g] /\ Live' \ Live \subseteq late'[g]

LEMMA StepGrows ==
    ASSUME TypeOK, Table, \A h \in Handlers : Held(h), [Next]_vars
    PROVE  /\ TypeOK' /\ Table' /\ (\A h \in Handlers : Held(h)')
           /\ RowsGrow /\ (\A g \in Handlers : LateGrows(g))
           /\ storeFaults' = 0 => storeFaults = 0
<1>. DEFINE Goal == /\ TableTypeOK' /\ RowsTypeOK' /\ Table'
                    /\ RowsGrow /\ (\A g \in Handlers : LateGrows(g))
<1>1. ASSUME Runner PROVE Goal
  <2>1. UNCHANGED <<rowVars, ev, late>>
    BY <1>1 DEF Runner, handlerVars, eventVars
  <2>2. Live \subseteq Rows
    BY DEF Live
  <2>3. TableTypeOK' /\ Table' /\ Rows' = Rows /\ Live' \subseteq Live
           /\ \A j \in Live' : signalled[j] => signalled'[j]
    BY <1>1, RunnerTypes DEF TypeOK
  <2>4. RowsTypeOK'
    BY <2>1, <2>3 DEF TypeOK, RowsTypeOK, rowVars
  <2>5. RowsGrow
    BY <2>1, <2>2, <2>3 DEF RowsGrow, rowVars
  <2>6. \A g \in Handlers : LateGrows(g)
    BY <2>1, <2>3 DEF LateGrows
  <2>. QED BY <2>3, <2>4, <2>5, <2>6
<1>2. ASSUME UNCHANGED vars PROVE Goal
  <2>1. UNCHANGED <<status, owner, signalled, origin, unseen, ev, late>>
    BY <1>2 DEF vars, tableVars, rowVars, handlerVars, eventVars
  <2>2. Rows' = Rows /\ Live' = Live
    BY <2>1 DEF Rows, Live
  <2>3. TableTypeOK' /\ RowsTypeOK' /\ Table' /\ RowsGrow
    BY <2>1, <2>2 DEF TypeOK, TableTypeOK, RowsTypeOK, Table, RowsGrow
  <2>4. \A g \in Handlers : LateGrows(g)
    BY <2>1, <2>2 DEF LateGrows
  <2>. QED BY <2>3, <2>4
<1>3. ASSUME NEW h \in Handlers, Looks(h) PROVE Goal
  <2>1. UNCHANGED <<status, owner, signalled, origin, unseen>>
    BY <1>3, LooksLeave DEF tableVars, rowVars
  <2>2. Rows' = Rows /\ Live' = Live
    BY <2>1 DEF Rows, Live
  <2>3. TableTypeOK' /\ RowsTypeOK' /\ Table' /\ RowsGrow
    BY <2>1, <2>2 DEF TypeOK, TableTypeOK, RowsTypeOK, Table, RowsGrow
  <2>4. ASSUME NEW g \in Handlers PROVE LateGrows(g)
    <3>1. ev[g] # NoEvent /\ ev'[g] # NoEvent => ev'[g] = ev[g] /\ late'[g] = late[g]
      BY <1>3 DEF Looks, Receive, Cancel, DeliveryCheck, SuiteCheck, ListSuperseded, CancelSuperseded,
                  CancelNotRunning, CancelRead, Decline, Answer, Held, Place, InCall, eventVars,
                  TypeOK, HandlersTypeOK
    <3>. QED BY <2>2, <3>1 DEF LateGrows
  <2>. QED BY <2>3, <2>4
<1>4. ASSUME NEW h \in Handlers, Stops(h) PROVE Goal
  <2>1. UNCHANGED <<origin, unseen, ev, late>>
    BY <1>4 DEF Stops, CancelRunning, CancelFinish, rowVars, eventVars
  <2>2. Live \subseteq Rows /\ Live' \subseteq Jobs
    BY DEF Live, Rows
  <2>. QED BY <1>4, <2>1, <2>2, StopsTypes DEF TypeOK, RowsTypeOK, RowsGrow, LateGrows
<1>5. ASSUME NEW h \in Handlers, Adds(h) PROVE Goal
  <2>1. /\ \A g \in Handlers : ev'[g] # NoEvent => ev'[g] = ev[g]
        /\ hpc[h] = "enqueue" => ev'[h] = NoEvent
    BY <1>5 DEF Adds, EnqueueEvent, Rerun, Answer, TypeOK, HandlersTypeOK
  <2>2. ev[h] = NoEvent <=> hpc[h] = "idle"
    BY <1>5 DEF Adds, EnqueueEvent, Rerun, Held, Place, InCall
  <2>3. CASE UNCHANGED <<tableVars, rowVars>> /\ hpc[h] = "enqueue"
                /\ \A g \in Handlers \ {h} : late'[g] = late[g]
    <3>1. UNCHANGED <<status, owner, signalled, origin, unseen>>
      BY <2>3 DEF tableVars, rowVars
    <3>2. Rows' = Rows /\ Live' = Live
      BY <3>1 DEF Rows, Live
    <3>3. TableTypeOK' /\ RowsTypeOK' /\ Table' /\ RowsGrow
      BY <3>1, <3>2 DEF TypeOK, TableTypeOK, RowsTypeOK, Table, RowsGrow
    <3>4. \A g \in Handlers : LateGrows(g)
      BY <2>1, <2>3, <3>2 DEF LateGrows
    <3>. QED BY <3>3, <3>4
  <2>4. ASSUME NEW j \in Jobs, NEW columns \in Origins, NEW met \in SUBSET Jobs,
               Added(h, j, columns, met)
        PROVE  Goal
    <3>1. /\ TableTypeOK' /\ RowsTypeOK' /\ Table'
          /\ j \notin Rows /\ Rows' = Rows \cup {j} /\ Live' = Live \cup {j}
          /\ \A k \in Rows : origin'[k] = origin[k]
      BY <2>4, AddedTypes
    <3>2. signalled' = signalled /\ unseen \subseteq unseen'
      BY <2>4 DEF Added, Enqueue
    <3>3. RowsGrow
      BY <3>1, <3>2 DEF RowsGrow
    <3>4. ASSUME NEW g \in Handlers, ev[g] # NoEvent, ev'[g] # NoEvent
          PROVE  late'[g] = late[g] \cup {j}
      <4>1. g # h
        BY <1>5, <2>1, <2>2, <3>4 DEF Adds, EnqueueEvent, Rerun
      <4>. QED BY <2>4, <3>4, <4>1 DEF Added, Witness
    <3>5. \A g \in Handlers : LateGrows(g)
      BY <2>1, <3>1, <3>4 DEF LateGrows
    <3>. QED BY <3>1, <3>3, <3>5
  <2>5. {k \in late[h] : origin[k].sha = ev[h].sha} \in SUBSET Jobs /\ {} \in SUBSET Jobs
    BY DEF TypeOK, HandlersTypeOK
  <2>6. hpc[h] = "enqueue" => Columns(ev[h]) \in Origins
    BY <2>2, ColumnsType
  <2>7. CASE hpc[h] = "enqueue" /\ \E j \in Jobs :
                Added(h, j, Columns(ev[h]), {k \in late[h] : origin[k].sha = ev[h].sha})
    BY <2>4, <2>5, <2>6, <2>7
  <2>8. CASE \E j \in Jobs, old \in Rows :
                Added(h, j, [origin[old] EXCEPT !.delivery = NoDelivery, !.event = "manual"], {})
    <3>1. PICK j \in Jobs, old \in Rows :
                Added(h, j, [origin[old] EXCEPT !.delivery = NoDelivery, !.event = "manual"], {})
      BY <2>8
    <3>2. [origin[old] EXCEPT !.delivery = NoDelivery, !.event = "manual"] \in Origins
      BY ColumnsType
    <3>. QED BY <2>4, <2>5, <3>1, <3>2
  <2>. HIDE DEF Goal
  <2>. QED BY <1>5, <2>3, <2>7, <2>8, AddsOneRow
<1>6. Goal
  BY <1>1, <1>2, <1>3, <1>4, <1>5, Steps
<1>. QED BY <1>6, StepHandlersTypes DEF TypeOK

\* What was in flight before an event is less and less, with the same columns.
LEMMA SeenShrinks ==
    ASSUME TypeOK, RowsGrow, NEW g \in Handlers, LateGrows(g), ev[g] # NoEvent, ev'[g] # NoEvent
    PROVE  \A j \in Seen(g)' : /\ j \in Seen(g) /\ origin'[j] = origin[j]
                               /\ signalled[j] => signalled'[j]
<1>1. Live \subseteq Rows
  BY DEF Live
<1>2. ASSUME NEW j \in Live', j \notin late'[g]
      PROVE  j \in Live /\ j \notin late[g]
  BY <1>2 DEF LateGrows
<1>. QED BY <1>1, <1>2 DEF Seen, RowsGrow
-----------------------------------------------------------------------------
(* What a handler knows stays true while it holds its event.               *)

\* No statement fails: a handler goes on with what it looked up, and while it is
\* in CancelJob no job it was to stop gets away.
Moves(g) ==
    \/ Place(g)' = Place(g) /\ \A j \in Live' : ToBeStopped(g, j) => ToBeStopped(g, j)'
    \/ /\ Place(g) = "delivery" /\ Place(g)' = "suite"
       /\ ev[g].delivery # NoDelivery => \A j \in Live : origin[j].delivery # ev[g].delivery
    \/ /\ Place(g) = "suite" /\ Place(g)' = "list"
       /\ ev[g].action = "requested" => \A j \in Live : origin[j].sha # ev[g].sha
    \/ /\ Place(g) = "list" /\ Place(g)' = "supersede"
       /\ victims'[g] = {j \in Live : origin[j].ref = ev[g].ref /\ origin[j].sha # ev[g].sha}
    \/ Place(g) = "list" /\ Place(g)' = "enqueue" /\ ev[g].ref = ""
    \/ /\ Place(g) = "supersede" /\ Place(g)' = "enqueue"
       /\ \A j \in Live : ToBeStopped(g, j) => signalled[j]

LEMMA CancelJobMoves ==
    ASSUME TypeOK, NEW g \in Handlers, storeFaults = 0, storeFaults' = 0,
           CancelRunning(g) \/ CancelNotRunning(g) \/ CancelRead(g) \/ CancelFinish(g)
    PROVE  Moves(g)
<1>. USE DEF TypeOK, HandlersTypeOK, TableTypeOK
<1>1. InCall(g)
  BY DEF InCall, CancelRunning, CancelNotRunning, CancelRead, CancelFinish
<1>2. Place(g)' = Place(g) /\ victims'[g] = victims[g]
  BY <1>1 DEF Place, InCall, CancelRunning, CancelNotRunning, CancelRead, CancelFinish, Return, Goto,
              handlerVars, eventVars, callVars
<1>3. Live' \subseteq Jobs
  BY DEF Live, Rows
<1>4. CASE CancelRunning(g)
  <2>1. \A j \in Jobs : signalled[j] \/ j = victim[g] => signalled'[j]
    BY <1>4 DEF CancelRunning, Signal
  <2>. QED BY <1>2, <1>3, <2>1 DEF Moves, ToBeStopped
<1>5. CASE CancelNotRunning(g)
  BY <1>2, <1>5 DEF CancelNotRunning, Moves, ToBeStopped, InCall, Goto, tableVars
<1>6. CASE CancelRead(g)
  <2>1. Live' = Live /\ signalled' = signalled
    BY <1>6 DEF CancelRead, Live, Rows, tableVars
  <2>2. CASE victim[g] \in Live /\ Goto(g, "finish") /\ UNCHANGED victim
    BY <1>2, <2>1, <2>2 DEF Moves, ToBeStopped, InCall, Goto
  <2>3. CASE victim[g] \notin Live
    BY <1>2, <2>1, <2>3 DEF Moves, ToBeStopped
  <2>. QED BY <1>6, <2>2, <2>3 DEF CancelRead, StoreFault, callVars
<1>7. CASE CancelFinish(g)
  <2>1. MarkCancelled(victim[g])
    BY <1>7 DEF CancelFinish, StoreFault
  <2>2. victim[g] \notin Live' /\ signalled' = signalled
    BY <2>1 DEF MarkCancelled, Live, Rows, InFlight
  <2>. QED BY <1>2, <2>2 DEF Moves, ToBeStopped
<1>. QED BY <1>4, <1>5, <1>6, <1>7

LEMMA LookupMoves ==
    ASSUME TypeOK, NEW g \in Handlers, storeFaults = 0, storeFaults' = 0, ev'[g] # NoEvent,
           DeliveryCheck(g) \/ SuiteCheck(g) \/ ListSuperseded(g) \/ CancelSuperseded(g)
    PROVE  Moves(g)
<1>. USE DEF TypeOK, HandlersTypeOK, TableTypeOK
<1>1. ~StoreFault
  BY DEF StoreFault
<1>2. \A h \in Handlers : Answer(h) => ev'[h] = NoEvent
  BY DEF Answer
<1>3. CASE DeliveryCheck(g)
  BY <1>1, <1>2, <1>3 DEF DeliveryCheck, Decline, Moves, Place, InCall, Goto
<1>4. CASE SuiteCheck(g)
  BY <1>1, <1>2, <1>4 DEF SuiteCheck, SameCommit, Decline, Moves, Place, InCall, Goto, Call
<1>5. CASE ListSuperseded(g)
  BY <1>1, <1>5 DEF ListSuperseded, Moves, Place, InCall, Goto
<1>6. CASE CancelSuperseded(g)
  <2>1. hpc[g] = "supersede" /\ signalled' = signalled
    BY <1>6 DEF CancelSuperseded, tableVars
  <2>2. CASE victims[g] = {} /\ Goto(g, "enqueue")
    BY <2>1, <2>2 DEF Moves, Place, InCall, Goto, ToBeStopped
  <2>3. ASSUME NEW j \in victims[g], victims' = [victims EXCEPT ![g] = @ \ {j}], Call(g, j, "supersede")
        PROVE  Moves(g)
    <3>1. Place(g) = "supersede" /\ Place(g)' = "supersede" /\ InCall(g)' /\ ~InCall(g)
             /\ victim'[g] = j /\ victims'[g] = victims[g] \ {j}
      BY <2>1, <2>3 DEF Place, InCall, Call, Goto
    <3>. QED BY <2>1, <3>1 DEF Moves, ToBeStopped
  <2>. QED BY <1>6, <2>2, <2>3 DEF CancelSuperseded
<1>. QED BY <1>3, <1>4, <1>5, <1>6

\* Whoever takes the step.
LEMMA HandlersMove ==
    ASSUME TypeOK, \A h \in Handlers : Held(h), RowsGrow, [Next]_vars,
           storeFaults = 0, storeFaults' = 0,
           NEW g \in Handlers, ev[g] # NoEvent, ev'[g] # NoEvent
    PROVE  Moves(g)
<1>1. ASSUME UNCHANGED <<hpc[g], victims[g], victim[g], resume[g]>> PROVE Moves(g)
  BY <1>1 DEF Moves, Place, InCall, ToBeStopped, RowsGrow
<1>2. CASE Runner \/ UNCHANGED vars
  BY <1>1, <1>2 DEF Runner, vars, handlerVars, callVars
<1>3. ASSUME NEW h \in Handlers \ {g}, Looks(h) \/ Adds(h) \/ Stops(h) PROVE Moves(g)
  <2>1. UNCHANGED <<hpc[g], victims[g], victim[g], resume[g]>>
    BY <1>3 DEF Looks, Adds, Stops, Receive, Cancel, DeliveryCheck, SuiteCheck, ListSuperseded,
                CancelSuperseded, CancelNotRunning, CancelRead, EnqueueEvent, Rerun, CancelRunning,
                CancelFinish, Decline, Answer, Goto, Call, Return, callVars, TypeOK, HandlersTypeOK
  <2>. QED BY <1>1, <2>1
<1>4. CASE Looks(g) \/ Adds(g) \/ Stops(g)
  <2>1. hpc[g] # "idle"
    BY DEF Held, Place, InCall
  <2>2. ~EnqueueEvent(g)
    BY DEF EnqueueEvent, Answer, TypeOK, HandlersTypeOK
  <2>. QED BY <1>4, <2>1, <2>2, CancelJobMoves, LookupMoves
         DEF Looks, Adds, Stops, Receive, Cancel, Rerun
<1>. QED BY <1>2, <1>3, <1>4, Steps

LEMMA ArrivesAtDelivery ==
    ASSUME TypeOK, [Next]_vars, NEW g \in Handlers, ev[g] = NoEvent, ev'[g] # NoEvent
    PROVE  Place(g)' = "delivery"
<1>1. ev' = ev \/ \E h \in Handlers : (\E e \in Events : Receive(h, e)) \/ Answer(h)
  BY Steps DEF Runner, vars, handlerVars, eventVars, Looks, Adds, Stops, Cancel, DeliveryCheck,
               SuiteCheck, ListSuperseded, CancelSuperseded, CancelNotRunning, CancelRead, EnqueueEvent,
               Rerun, CancelRunning, CancelFinish, Decline
<1>. QED BY <1>1 DEF Receive, Answer, Goto, Place, InCall, TypeOK, HandlersTypeOK
LEMMA StepKnown ==
    ASSUME TypeOK, \A h \in Handlers : Held(h), TypeOK', \A h \in Handlers : Held(h)',
           RowsGrow, [Next]_vars, storeFaults = 0, storeFaults' = 0,
           NEW g \in Handlers, Known(g), LateGrows(g)
    PROVE  Known(g)'
<1>. USE DEF Known, IdIsFree, CommitIsFree, SupersededAreListed
<1>1. CASE ev'[g] = NoEvent
  BY <1>1 DEF Held
<1>2. CASE ev'[g] # NoEvent /\ ev[g] = NoEvent
  BY <1>2, ArrivesAtDelivery
<1>3. CASE ev'[g] # NoEvent /\ ev[g] # NoEvent
  <2>1. Moves(g)
    BY <1>3, HandlersMove
  <2>2. ev'[g] = ev[g]
    BY <1>3 DEF LateGrows
  <2>3. \A j \in Seen(g)' : /\ j \in Seen(g) /\ origin'[j] = origin[j]
                            /\ signalled[j] => signalled'[j]
    BY <1>3, SeenShrinks
  <2>4. Seen(g) \subseteq Live /\ Seen(g)' \subseteq Live'
    BY DEF Seen
  <2>5. IdIsFree(g)'
    BY <2>1, <2>2, <2>3, <2>4 DEF Moves
  <2>6. CommitIsFree(g)'
    BY <2>1, <2>2, <2>3, <2>4 DEF Moves
  <2>7. SupersededAreListed(g)'
    <3>1. CASE Place(g)' = Place(g) /\ \A j \in Live' : ToBeStopped(g, j) => ToBeStopped(g, j)'
      BY <2>2, <2>3, <2>4, <3>1
    <3>2. CASE Place(g)' \in {"suite", "list"}
      BY <3>2
    <3>3. CASE /\ Place(g)' = "supersede"
               /\ victims'[g] = {j \in Live : origin[j].ref = ev[g].ref /\ origin[j].sha # ev[g].sha}
      BY <2>2, <2>3, <2>4, <3>3 DEF ToBeStopped
    <3>4. CASE Place(g)' = "enqueue" /\ ev[g].ref = ""
      BY <2>2, <3>4
    <3>5. CASE /\ Place(g) = "supersede" /\ Place(g)' = "enqueue"
               /\ \A j \in Live : ToBeStopped(g, j) => signalled[j]
      BY <2>2, <2>3, <2>4, <3>5
    <3>. QED BY <2>1, <3>1, <3>2, <3>3, <3>4, <3>5 DEF Moves
  <2>. QED BY <2>5, <2>6, <2>7
<1>. QED BY <1>1, <1>2, <1>3

-----------------------------------------------------------------------------
(* What is built.                                                          *)

LEMMA StepMissing ==
    ASSUME TypeOK, Table, Missing, [Next]_vars
    PROVE  Missing'
<1>. USE DEF TypeOK, TableTypeOK, HandlersTypeOK, Missing, Building
<1>1. CASE UNCHANGED vars
  BY <1>1 DEF vars, tableVars, handlerVars, callVars
<1>2. CASE Runner
  <2>1. UNCHANGED <<hpc, victim, missed>>
    BY <1>2 DEF Runner, handlerVars, callVars
  <2>2. ASSUME NEW j \in Jobs, ClaimNext(j) \/ Register(j) \/ End(j) \/ Leave(j)
        PROVE  Missing'
    BY <2>1, <2>2 DEF ClaimNext, Register, End, Leave
  <2>. QED BY <1>2, <2>2 DEF Runner, RunnerStep
<1>3. ASSUME NEW h \in Handlers, Looks(h) PROVE Missing'
  <2>1. UNCHANGED <<status, owner>>
    BY <1>3, LooksLeave DEF tableVars
  <2>2. missed \subseteq missed'
    BY <1>3 DEF Looks, Receive, Cancel, DeliveryCheck, SuiteCheck, ListSuperseded, CancelSuperseded,
                CancelNotRunning, CancelRead, Call, Return, callVars
  <2>3. \A g \in Handlers \ {h} : hpc'[g] = hpc[g] /\ victim'[g] = victim[g]
    BY <1>3 DEF Looks, Receive, Cancel, DeliveryCheck, SuiteCheck, ListSuperseded, CancelSuperseded,
                CancelNotRunning, CancelRead, Decline, Answer, Call, Return, Goto, callVars
  <2>4. hpc'[h] \in {"read", "finish"} => victim'[h] \in missed'
    BY <1>3, <2>2 DEF Looks, Receive, Cancel, DeliveryCheck, SuiteCheck, ListSuperseded,
                CancelSuperseded, CancelNotRunning, CancelRead, Decline, Answer, Call, Return, Goto,
                callVars
  <2>. QED BY <2>1, <2>2, <2>3, <2>4
<1>4. ASSUME NEW h \in Handlers, Adds(h) PROVE Missing'
  <2>1. UNCHANGED <<owner, victim, missed>> /\ \A g \in Handlers : hpc'[g] = hpc[g] \/ hpc'[g] = "idle"
    BY <1>4 DEF Adds, EnqueueEvent, Rerun, Enqueue, Answer, Goto, callVars, tableVars
  <2>2. \A j \in Jobs : status'[j] = status[j] \/ status[j] = "absent"
    BY <1>4 DEF Adds, EnqueueEvent, Rerun, Enqueue, tableVars
  <2>. QED BY <2>1, <2>2 DEF Table
<1>5. ASSUME NEW h \in Handlers, Stops(h) PROVE Missing'
  <2>1. UNCHANGED <<owner, missed>>
    BY <1>5 DEF Stops, CancelRunning, CancelFinish, Signal, MarkCancelled, Return, tableVars
  <2>2. \A g \in Handlers : /\ hpc'[g] \in {"read", "finish"} => hpc[g] \in {"read", "finish"}
                            /\ g # h => victim'[g] = victim[g]
    BY <1>5 DEF Stops, CancelRunning, CancelFinish, Return, Goto
  <2>3. hpc'[h] \notin {"read", "finish"}
    BY <1>5 DEF Stops, CancelRunning, CancelFinish, Return, Goto
  <2>4. \A j \in Jobs : status'[j] = status[j] \/ j \in missed
    <3>1. CASE CancelRunning(h)
      BY <3>1 DEF CancelRunning, Signal
    <3>2. CASE CancelFinish(h)
      BY <3>2 DEF CancelFinish, MarkCancelled, tableVars
    <3>. QED BY <1>5, <3>1, <3>2 DEF Stops
  <2>. QED BY <2>1, <2>2, <2>3, <2>4
<1>. QED BY <1>1, <1>2, <1>3, <1>4, <1>5, Steps

-----------------------------------------------------------------------------
(* What is enqueued.                                                       *)

\* A step that adds no row keeps what is said of the jobs in flight; one that
\* does adds what its handler knew to be free.
NewRow(j) ==
    /\ j \in Jobs \ Rows
    /\ Rows' = Rows \cup {j} /\ Live' = Live \cup {j}
    /\ \/ \E h \in Handlers :
             /\ Place(h) = "enqueue" /\ ev[h] \in Events
             /\ origin'[j] = Columns(ev[h])
             /\ {j} \X {k \in late[h] : origin[k].sha = ev[h].sha} \subseteq unseen'
       \/ origin'[j].delivery = NoDelivery /\ origin'[j].event = "manual"

LEMMA RowsComeFromHandlers ==
    ASSUME TypeOK, Table, \A h \in Handlers : Held(h), [Next]_vars
    PROVE  (Rows' = Rows /\ Live' \subseteq Live) \/ \E j \in Jobs : NewRow(j)
<1>1. ASSUME NEW h \in Handlers, Looks(h) PROVE Rows' = Rows /\ Live' \subseteq Live
  BY <1>1, LooksLeave DEF Rows, Live, tableVars
<1>2. CASE Runner
  BY <1>2, RunnerTypes DEF TypeOK
<1>3. CASE UNCHANGED vars
  BY <1>3 DEF vars, tableVars, Rows, Live
<1>4. ASSUME NEW h \in Handlers, Stops(h) PROVE Rows' = Rows /\ Live' \subseteq Live
  BY <1>4, StopsTypes
<1>5. ASSUME NEW h \in Handlers, Adds(h)
      PROVE  (Rows' = Rows /\ Live' \subseteq Live) \/ \E j \in Jobs : NewRow(j)
  <2>1. CASE UNCHANGED <<tableVars, rowVars>>
    BY <2>1 DEF Rows, Live, tableVars
  <2>2. ASSUME hpc[h] = "enqueue", NEW j \in Jobs,
               Added(h, j, Columns(ev[h]), {k \in late[h] : origin[k].sha = ev[h].sha})
        PROVE  NewRow(j)
    <3>1. Place(h) = "enqueue" /\ ev[h] \in Events
      BY <2>2 DEF Place, InCall, Held, TypeOK, HandlersTypeOK
    <3>2. Columns(ev[h]) \in Origins
      BY <3>1, ColumnsType
    <3>3. {k \in late[h] : origin[k].sha = ev[h].sha} \in SUBSET Jobs
      BY DEF TypeOK, HandlersTypeOK
    <3>4. j \notin Rows /\ Rows' = Rows \cup {j} /\ Live' = Live \cup {j}
             /\ origin'[j] = Columns(ev[h])
      BY <2>2, <3>2, <3>3, AddedTypes
    <3>. QED BY <2>2, <3>1, <3>4 DEF NewRow, Added
  <2>3. ASSUME NEW j \in Jobs, NEW old \in Rows,
               Added(h, j, [origin[old] EXCEPT !.delivery = NoDelivery, !.event = "manual"], {})
        PROVE  NewRow(j)
    <3>. DEFINE columns == [origin[old] EXCEPT !.delivery = NoDelivery, !.event = "manual"]
    <3>1. origin[old] \in Origins /\ columns \in Origins
      BY ColumnsType
    <3>2. columns.delivery = NoDelivery /\ columns.event = "manual"
      BY <3>1 DEF Origins
    <3>. HIDE DEF columns
    <3>3. j \notin Rows /\ Rows' = Rows \cup {j} /\ Live' = Live \cup {j} /\ origin'[j] = columns
      BY <2>3, <3>1, AddedTypes DEF columns
    <3>. QED BY <3>2, <3>3 DEF NewRow
  <2>. QED BY <1>5, <2>1, <2>2, <2>3, AddsOneRow
<1>. QED BY <1>1, <1>2, <1>3, <1>4, <1>5, Steps

LEMMA StepIdsNameCommits ==
    ASSUME IdsNameCommits, RowsGrow, Rows' = Rows \/ \E j \in Jobs : NewRow(j)
    PROVE  IdsNameCommits'
<1>1. \A k \in Rows : origin'[k] = origin[k]
  BY DEF RowsGrow
<1>2. CASE Rows' = Rows
  BY <1>1, <1>2 DEF IdsNameCommits
<1>3. ASSUME NEW j \in Jobs, NewRow(j) PROVE IdsNameCommits'
  <2>1. origin'[j].delivery # NoDelivery =>
            \E e \in Events : e.delivery = origin'[j].delivery /\ e.sha = origin'[j].sha
    <3>1. ASSUME NEW h \in Handlers, ev[h] \in Events, origin'[j] = Columns(ev[h])
          PROVE  origin'[j].delivery = ev[h].delivery /\ origin'[j].sha = ev[h].sha
      BY <3>1 DEF Columns
    <3>. QED BY <1>3, <3>1 DEF NewRow
  <2>2. Rows' = Rows \cup {j}
    BY <1>3 DEF NewRow
  <2>. QED BY <1>1, <2>1, <2>2 DEF IdsNameCommits
<1>. QED BY <1>2, <1>3

LEMMA StepHeldOnce ==
    ASSUME TypeOK, IdsNameCommits, RowsGrow, storeFaults = 0, DeliveryIsHeldOnce,
           \A h \in Handlers : Known(h),
           (Rows' = Rows /\ Live' \subseteq Live) \/ \E j \in Jobs : NewRow(j)
    PROVE  DeliveryIsHeldOnce'
<1>1. Live \subseteq Rows
  BY DEF Live
<1>2. \A j, k \in Live : Crossed(j, k) => Crossed(j, k)'
  BY DEF Crossed, RowsGrow
<1>3. CASE Live' \subseteq Live
  BY <1>1, <1>2, <1>3 DEF DeliveryIsHeldOnce, RowsGrow
<1>4. ASSUME NEW j \in Jobs, NewRow(j) PROVE DeliveryIsHeldOnce'
  <2>1. ASSUME NEW k \in Live, origin'[j].delivery = origin[k].delivery, origin[k].delivery # NoDelivery
        PROVE  Crossed(j, k)'
    <3>1. PICK h \in Handlers :
                /\ Place(h) = "enqueue" /\ ev[h] \in Events
                /\ origin'[j] = Columns(ev[h])
                /\ {j} \X {i \in late[h] : origin[i].sha = ev[h].sha} \subseteq unseen'
      BY <1>4, <2>1 DEF NewRow
    <3>2. origin[k].delivery = ev[h].delivery
      BY <2>1, <3>1 DEF Columns
    <3>3. k \in late[h]
      BY <2>1, <3>1, <3>2 DEF Known, IdIsFree, Seen
    <3>4. origin[k].sha = ev[h].sha
      BY <1>1, <2>1, <3>1, <3>2 DEF IdsNameCommits
    <3>. QED BY <3>1, <3>3, <3>4 DEF Crossed
  <2>2. Live' = Live \cup {j} /\ \A k \in Live : origin'[k] = origin[k]
    BY <1>1, <1>4 DEF NewRow, RowsGrow
  <2>3. \A k \in Live' : Crossed(j, k)' <=> Crossed(k, j)'
    BY DEF Crossed
  <2>. QED BY <1>2, <2>1, <2>2, <2>3 DEF DeliveryIsHeldOnce
<1>. QED BY <1>3, <1>4

LEMMA StepOneLiveRun ==
    ASSUME TypeOK, RowsGrow, storeFaults = 0, OneLiveRunPerCommit, \A h \in Handlers : Known(h),
           (Rows' = Rows /\ Live' \subseteq Live) \/ \E j \in Jobs : NewRow(j)
    PROVE  OneLiveRunPerCommit'
<1>1. Live \subseteq Rows
  BY DEF Live
<1>2. \A j, k \in Live : Crossed(j, k) => Crossed(j, k)'
  BY DEF Crossed, RowsGrow
<1>3. CASE Live' \subseteq Live
  BY <1>1, <1>2, <1>3 DEF OneLiveRunPerCommit, RowsGrow
<1>4. ASSUME NEW j \in Jobs, NewRow(j) PROVE OneLiveRunPerCommit'
  <2>1. ASSUME NEW k \in Live, origin'[j].event = "requested", origin'[j].sha = origin[k].sha
        PROVE  Crossed(j, k)'
    <3>1. PICK h \in Handlers :
                /\ Place(h) = "enqueue" /\ ev[h] \in Events
                /\ origin'[j] = Columns(ev[h])
                /\ {j} \X {i \in late[h] : origin[i].sha = ev[h].sha} \subseteq unseen'
      BY <1>4, <2>1 DEF NewRow
    <3>2. ev[h].action = "requested" /\ origin[k].sha = ev[h].sha
      BY <2>1, <3>1 DEF Columns
    <3>3. k \in late[h]
      BY <2>1, <3>1, <3>2 DEF Known, CommitIsFree, Seen
    <3>. QED BY <3>1, <3>2, <3>3 DEF Crossed
  <2>2. Live' = Live \cup {j} /\ \A k \in Live : origin'[k] = origin[k]
    BY <1>1, <1>4 DEF NewRow, RowsGrow
  <2>3. \A k \in Live' : Crossed(j, k)' <=> Crossed(k, j)'
    BY DEF Crossed
  <2>. QED BY <1>2, <2>1, <2>2, <2>3 DEF OneLiveRunPerCommit
<1>. QED BY <1>3, <1>4

LEMMA StepIInv == IInv /\ [Next]_vars => IInv'
<1>. SUFFICES ASSUME IInv, [Next]_vars PROVE IInv'
  OBVIOUS
<1>1. TypeOK /\ Table /\ Missing /\ (\A h \in Handlers : Held(h)) /\ IdsNameCommits
  BY DEF IInv
<1>2. /\ TypeOK' /\ Table' /\ (\A h \in Handlers : Held(h)')
      /\ RowsGrow /\ (\A g \in Handlers : LateGrows(g))
      /\ storeFaults' = 0 => storeFaults = 0
  BY <1>1, StepGrows
<1>3. (Rows' = Rows /\ Live' \subseteq Live) \/ \E j \in Jobs : NewRow(j)
  BY <1>1, RowsComeFromHandlers
<1>4. IdsNameCommits' /\ Missing'
  BY <1>1, <1>2, <1>3, StepIdsNameCommits, StepMissing
<1>5. CASE storeFaults' # 0
  BY <1>2, <1>4, <1>5 DEF IInv, DeliveryIsHeldOnce, OneLiveRunPerCommit
<1>6. CASE storeFaults' = 0
  <2>1. storeFaults = 0 /\ (\A h \in Handlers : Known(h)) /\ DeliveryIsHeldOnce /\ OneLiveRunPerCommit
    BY <1>2, <1>6 DEF IInv
  <2>2. \A g \in Handlers : Known(g)'
    BY <1>1, <1>2, <1>6, <2>1, StepKnown
  <2>3. DeliveryIsHeldOnce'
    BY <1>1, <1>2, <1>3, <2>1, StepHeldOnce
  <2>4. OneLiveRunPerCommit'
    BY <1>1, <1>2, <1>3, <2>1, StepOneLiveRun
  <2>. QED BY <1>2, <1>4, <2>2, <2>3, <2>4 DEF IInv
<1>. QED BY <1>5, <1>6

LEMMA SpecIInv == Spec => []IInv
BY InitIInv, StepIInv, PTL DEF Spec

-----------------------------------------------------------------------------
(* The theorems.                                                           *)

\* However requests, cancels and the runner interleave, one delivery id is held
\* by one job in flight, but for two that were enqueued while the other's
\* request was handled.
THEOREM DeliveriesAreHeldOnce == Spec => []DeliveryIsHeldOnce
BY SpecIInv, PTL DEF IInv

\* A commit that GitHub asks for again gets no second run while it has one in
\* flight, but for requests that cross.
THEOREM CommitsHaveOneRun == Spec => []OneLiveRunPerCommit
BY SpecIInv, PTL DEF IInv

\* Before the job of a new commit of a branch is enqueued, every run of another commit
\* of the branch that was there before the event has been told to stop, or its row is
\* finished and nothing builds it, but for the jobs CancelJob did not find running: they
\* are the only ones that build on beside a finished row.
THEOREM SupersededAreStopped == Spec => []SupersededRunsAreStopped
<1>1. IInv => SupersededRunsAreStopped
  <2>. SUFFICES ASSUME IInv, NEW h \in Handlers, hpc[h] = "enqueue", ev[h].ref # "", storeFaults = 0,
                       NEW j \in Rows \ late[h], origin[j].ref = ev[h].ref, origin[j].sha # ev[h].sha
                PROVE  signalled[j] \/ (j \notin Live /\ (Building(j) => j \in missed))
    BY DEF SupersededRunsAreStopped
  <2>1. Place(h) = "enqueue"
    BY DEF Place, InCall
  <2>2. CASE j \in Live
    <3>1. j \in Seen(h)
      BY <2>2 DEF Seen
    <3>. QED BY <2>1, <3>1 DEF IInv, Known, SupersededAreListed
  <2>3. CASE j \notin Live
    <3>1. j \in Jobs /\ status[j] # "in_progress"
      BY <2>3 DEF Rows, Live, InFlight
    <3>2. Building(j) => j \in missed
      BY <3>1 DEF IInv, Missing
    <3>. QED BY <2>3, <3>2
  <2>. QED BY <2>2, <2>3
<1>. QED BY <1>1, SpecIInv, PTL

\* No event is answered before there is a row of its commit.
LEMMA AnsweredWithARow ==
    ASSUME IInv, [Next]_vars, NEW h \in Handlers, ev[h] # NoEvent, ev'[h] = NoEvent, storeFaults' = 0
    PROVE  \E j \in Rows' : origin'[j].sha = ev[h].sha
<1>. USE DEF IInv, TypeOK, HandlersTypeOK
<1>1. ev[h] \in Events /\ Live \subseteq Rows
  BY DEF Live
<1>2. RowsGrow /\ storeFaults = 0
  BY StepGrows
<1>3. ~StoreFault
  BY <1>2 DEF StoreFault
<1>4. CASE DeliveryCheck(h)
  <2>1. PICK j \in Live : origin[j].delivery = ev[h].delivery /\ ev[h].delivery # NoDelivery
    BY <1>3, <1>4 DEF DeliveryCheck, eventVars
  <2>2. origin[j].sha = ev[h].sha
    BY <1>1, <2>1 DEF IdsNameCommits
  <2>. QED BY <1>1, <1>2, <2>1, <2>2 DEF RowsGrow
<1>5. CASE SuiteCheck(h)
  <2>1. PICK j \in Live : origin[j].sha = ev[h].sha
    BY <1>3, <1>5 DEF SuiteCheck, SameCommit, eventVars
  <2>. QED BY <1>1, <1>2, <2>1 DEF RowsGrow
<1>6. CASE EnqueueEvent(h)
  <2>1. PICK j \in Jobs : Enqueue(j) /\ origin' = [origin EXCEPT ![j] = Columns(ev[h])]
    BY <1>3, <1>6 DEF EnqueueEvent
  <2>2. j \in Rows' /\ origin'[j] = Columns(ev[h])
    BY <2>1 DEF Enqueue, Rows, TableTypeOK, RowsTypeOK
  <2>. QED BY <2>2 DEF Columns
<1>7. DeliveryCheck(h) \/ SuiteCheck(h) \/ EnqueueEvent(h)
  <2>1. ~Runner /\ ~UNCHANGED vars
    BY DEF Runner, vars, handlerVars, eventVars
  <2>2. PICK g \in Handlers : Looks(g) \/ Adds(g) \/ Stops(g)
    BY <2>1, Steps
  <2>3. g = h
    BY <2>2 DEF Looks, Adds, Stops, Receive, Cancel, DeliveryCheck, SuiteCheck, ListSuperseded,
                CancelSuperseded, CancelNotRunning, CancelRead, EnqueueEvent, Rerun, CancelRunning,
                CancelFinish, Decline, Answer, eventVars
  <2>4. \A e \in Events : ~Receive(h, e)
    BY DEF Receive
  <2>. QED BY <2>2, <2>3, <2>4 DEF Looks, Adds, Stops, Cancel, ListSuperseded, CancelSuperseded,
                CancelNotRunning, CancelRead, Rerun, CancelRunning, CancelFinish, eventVars
<1>. QED BY <1>4, <1>5, <1>6, <1>7

\* GitHub gets its answer, "already queued" included, only when a row of the
\* event's commit is there, its own or the one that was found.
THEOREM TakenEventsHaveRows == Spec => TakenEventsHaveARow
<1>1. IInv /\ [Next]_vars =>
        [\A h \in Handlers : ev[h] # NoEvent /\ ev'[h] = NoEvent /\ storeFaults' = 0 =>
            \E j \in Rows' : origin'[j].sha = ev[h].sha]_vars
  BY AnsweredWithARow
<1>. QED BY <1>1, SpecIInv, PTL DEF Spec, TakenEventsHaveARow

\* The handlers use the data plane as JobTable lets them, the specification
\* JobRunner implements: they enqueue, tell registered jobs to stop and finish
\* rows, and nothing else.
THEOREM HandlersKeepToTheTable == Spec => TableSpec
<1>1. Init => TableInit
  BY DEF Init
<1>2. IInv /\ [Next]_vars => [TableNext]_tableVars
  <2>. SUFFICES ASSUME IInv, [Next]_vars PROVE [TableNext]_tableVars
    OBVIOUS
  <2>1. CASE Runner
    BY <2>1 DEF Runner, TableNext
  <2>2. CASE UNCHANGED vars
    BY <2>2 DEF vars
  <2>3. ASSUME NEW h \in Handlers, Looks(h) PROVE UNCHANGED tableVars
    BY <2>3, LooksLeave
  <2>4. ASSUME NEW h \in Handlers, Adds(h) PROVE [TableNext]_tableVars
    <3>1. UNCHANGED tableVars \/ \E j \in Jobs : Enqueue(j)
      BY <2>4 DEF Adds, EnqueueEvent, Rerun
    <3>. QED BY <3>1 DEF TableNext
  <2>5. ASSUME NEW h \in Handlers, CancelRunning(h) PROVE TableNext
    <3>1. PICK S : S = {victim[h]} /\ Signal(S)
      BY <2>5 DEF CancelRunning
    <3>2. S \in SUBSET Jobs
      BY <3>1 DEF Signal, Registered
    <3>. QED BY <3>1, <3>2 DEF TableNext
  <2>6. ASSUME NEW h \in Handlers, CancelFinish(h) PROVE [TableNext]_tableVars
    <3>1. victim[h] \in Jobs
      BY <2>6 DEF CancelFinish, IInv, Held, InCall
    <3>. QED BY <2>6, <3>1 DEF CancelFinish, TableNext
  <2>. QED BY <2>1, <2>2, <2>3, <2>4, <2>5, <2>6, Steps DEF Stops
<1>. QED BY <1>1, <1>2, SpecIInv, PTL DEF Spec, TableSpec
=============================================================================
