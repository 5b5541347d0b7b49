------------------------------- MODULE JobLog -------------------------------
(***************************************************************************)
(* The log of one job: the capped writer (logs/logs.go), the SSE stream    *)
(* the run page opens on it (api/logs_stream.go) through net/http's        *)
(* response buffer, and the retention that removes it (Runner.pruneOnce,   *)
(* store.PruneJobs).                                                       *)
(*                                                                         *)
(* The log only grows while the process lives, so a text is the number of  *)
(* its bytes.  One process: a requeued job truncates its log, and no       *)
(* stream outlives the restart that requeued it.                           *)
(***************************************************************************)
EXTENDS Naturals

CONSTANTS
    Caps,          \* values of max_log_bytes in use
    MarkerBytes,   \* length of the truncation note
    Chunk,         \* readFromChunk
    BufferBytes,   \* what net/http holds back when nobody flushes
    MaxOutput,     \* bound: bytes the job prints
    MaxPatches,    \* bound: changes of max_log_bytes
    MaxFaults      \* bound: SQL statements and file operations that fail

ASSUME CapsAssumption == Caps \subseteq Nat \ {0} /\ Caps # {}
ASSUME SizesAssumption ==
    /\ {MarkerBytes, Chunk, BufferBytes} \subseteq Nat \ {0}
    /\ {MaxOutput, MaxPatches, MaxFaults} \subseteq Nat

VARIABLES
    maxLogBytes,  \* settings
    jobRow,       \* the jobs row: "in_progress" (queued too), "finished" or "deleted"
    jpc,          \* the job: "queued", "writing", "closed"
    file,         \* its log file exists
    cap,          \* Writer.max
    written,      \* Writer.written
    overflow,     \* Writer.overflow: the note is in the file, and the file is closed
    printed,      \* what the job gave to Write
    atEnd,        \* length of the file when the row was finished
    conn,         \* the stream's handler and its connection
    watching,     \* the page has an EventSource that has not been closed
    shown,        \* the bytes the page shows
    done,         \* the page got the event "finished"
    ppc,          \* pruneOnce: "idle", "rows", "files"
    patches, logFaults

writer == <<jpc, cap, written, overflow, printed>>
page == <<watching, shown, done>>
bounds == <<patches, logFaults>>
logVars == <<maxLogBytes, jobRow, file, atEnd, ppc, writer, conn, page, bounds>>

NoLimit == 0

Closed == [pc |-> "closed", terminal |-> FALSE, gone |-> FALSE, max |-> NoLimit, offset |-> 0,
           sent |-> 0, pending |-> 0, opened |-> FALSE, expired |-> FALSE]

FileSize == written + (IF overflow THEN MarkerBytes ELSE 0)

LogInit ==
    /\ maxLogBytes \in Caps
    /\ jobRow = "in_progress"
    /\ jpc = "queued"
    /\ file = FALSE
    /\ cap = NoLimit
    /\ written = 0
    /\ overflow = FALSE
    /\ printed = 0
    /\ atEnd = 0
    /\ conn = Closed
    /\ watching = TRUE
    /\ shown = 0
    /\ done = FALSE
    /\ ppc = "idle"
    /\ patches = 0
    /\ logFaults = 0

LogFault == logFaults < MaxFaults /\ logFaults' = logFaults + 1

PatchSettings ==
    /\ patches < MaxPatches
    /\ patches' = patches + 1
    /\ maxLogBytes' \in Caps
    /\ UNCHANGED <<jobRow, file, atEnd, ppc, writer, conn, page, logFaults>>

-----------------------------------------------------------------------------
(* The writer.                                                             *)

Create ==
    /\ jpc = "queued"
    /\ jpc' = "writing"
    /\ file' = TRUE
    /\ cap' = maxLogBytes
    /\ UNCHANGED <<maxLogBytes, jobRow, atEnd, ppc, written, overflow, printed, conn, page, bounds>>

Fits(n) == written + n <= cap

\* Mutant: the room left is not counted.
WriteWholeChunk(n) ==
    /\ jpc = "writing"
    /\ printed + n <= MaxOutput
    /\ printed' = printed + n
    /\ IF overflow \/ written >= cap THEN UNCHANGED <<written, overflow>>
       ELSE /\ written' = written + n
            /\ overflow' = ~Fits(n)
    /\ UNCHANGED <<maxLogBytes, jobRow, file, atEnd, ppc, jpc, cap, conn, page, bounds>>

\* Writer.Write of n bytes: what does not fit is dropped without an error.  A write
\* to the file that fails may be short; what it lost is not written again.
Write(n) ==
    LET room == IF Fits(n) THEN n ELSE cap - written IN
    /\ jpc = "writing"
    /\ printed + n <= MaxOutput
    /\ printed' = printed + n
    /\ \/ (overflow \/ written >= cap) /\ UNCHANGED <<written, overflow, logFaults>>
       \/ /\ ~overflow /\ written < cap
          /\ overflow' = ~Fits(n)
          /\ \/ written' = written + room /\ UNCHANGED logFaults
             \/ LogFault /\ \E k \in 0 .. room - 1 : written' = written + k
    /\ UNCHANGED <<maxLogBytes, jobRow, file, atEnd, ppc, jpc, cap, conn, page, patches>>

\* FinishJob: the log may still get a line after it (complete's warning).
FinishRow ==
    /\ jpc = "writing"
    /\ jobRow = "in_progress"
    /\ jobRow' = "finished"
    /\ atEnd' = FileSize
    /\ UNCHANGED <<maxLogBytes, file, ppc, writer, conn, page, bounds>>

Close ==
    /\ jpc = "writing"
    /\ jobRow # "in_progress"
    /\ jpc' = "closed"
    /\ UNCHANGED <<maxLogBytes, jobRow, file, atEnd, ppc, cap, written, overflow, printed, conn, page,
                   bounds>>

-----------------------------------------------------------------------------
(* What reaches the page.                                                  *)

\* k bytes of the connection's data arrive; onopen empties the page first.
Arrives(k) == shown' = (IF conn.opened THEN shown ELSE 0) + k

\* The handler wrote k bytes more and goes on at pc.  flush is without effect:
\* withLogging's statusRecorder hides the Flusher.  What overflows the buffer
\* is sent, and kills the connection after the server's WriteTimeout.
Respond(c, k, pc) ==
    LET held == c.pending + k IN
    \/ /\ held <= BufferBytes
       /\ conn' = [c EXCEPT !.pc = pc, !.pending = held]
       /\ UNCHANGED shown
    \/ /\ held > BufferBytes /\ ~c.expired
       /\ \E left \in 0 .. BufferBytes :
             /\ Arrives(held - left)
             /\ conn' = [c EXCEPT !.pc = pc, !.pending = left, !.opened = TRUE]
    \/ /\ held > BufferBytes /\ c.expired
       /\ conn' = [c EXCEPT !.pc = "closed"]
       /\ UNCHANGED shown

\* The handler returns, and net/http sends what it held back.
EndResponse(c) ==
    /\ conn' = [c EXCEPT !.pc = "closed", !.pending = 0]
    /\ IF c.expired THEN UNCHANGED shown ELSE Arrives(c.pending)

\* ... after the event "finished", on which the page closes its EventSource.
ReturnFinished(c) ==
    /\ EndResponse(c)
    /\ done' = ~c.expired
    /\ watching' = c.expired

-----------------------------------------------------------------------------
(* The stream.                                                             *)

\* jobLogAccess, then the cap of the moment; a failed read of it is no limit.
Connect ==
    /\ watching
    /\ conn.pc = "closed"
    /\ jobRow # "deleted"
    /\ \E max \in {maxLogBytes, NoLimit} :
          /\ max # maxLogBytes => LogFault
          /\ max = maxLogBytes => UNCHANGED logFaults
          /\ conn' = [Closed EXCEPT !.pc = "sending", !.terminal = jobRow = "finished", !.max = max]
    /\ UNCHANGED <<maxLogBytes, jobRow, file, atEnd, ppc, writer, page, patches>>

\* A 404 closes the EventSource for good.
ConnectToNothing ==
    /\ watching
    /\ conn.pc = "closed"
    /\ jobRow = "deleted"
    /\ watching' = FALSE
    /\ UNCHANGED <<maxLogBytes, jobRow, file, atEnd, ppc, writer, conn, shown, done, bounds>>

Full == conn.max # NoLimit /\ conn.sent >= conn.max

\* logs.ReadFrom
Unread == IF file /\ conn.offset < FileSize THEN FileSize - conn.offset ELSE 0
Data == IF Unread > Chunk THEN Chunk ELSE Unread

\* What the cap leaves of it.
Clipped == IF conn.max # NoLimit /\ conn.sent + Data > conn.max THEN conn.max - conn.sent ELSE Data

\* Mutant: the offset is ReadFrom's, also when the data was cut.
SendChunkSkipping ==
    /\ conn.pc = "sending"
    /\ ~Full
    /\ Data > 0
    /\ Respond([conn EXCEPT !.sent = @ + Clipped, !.offset = @ + Chunk], Clipped, "sending")
    /\ UNCHANGED <<maxLogBytes, jobRow, file, atEnd, ppc, writer, watching, done, bounds>>

\* One round of send's loop.
SendChunk ==
    /\ conn.pc = "sending"
    /\ ~Full
    /\ Data > 0
    /\ Respond([conn EXCEPT !.sent = @ + Clipped, !.offset = @ + Clipped], Clipped, "sending")
    /\ UNCHANGED <<maxLogBytes, jobRow, file, atEnd, ppc, writer, watching, done, bounds>>

\* Mutant: the stream of a finished job is closed without the event.
SendEndsSilently ==
    /\ conn.pc = "sending"
    /\ Full \/ Data = 0
    /\ IF conn.terminal THEN EndResponse(conn) ELSE Respond(conn, 0, "waiting")
    /\ UNCHANGED <<maxLogBytes, jobRow, file, atEnd, ppc, writer, watching, done, bounds>>

\* send returns; the row it is compared with was read before it.  A file that
\* is gone starts the offset again.
SendEnds ==
    /\ conn.pc = "sending"
    /\ Full \/ Data = 0
    /\ LET c == [conn EXCEPT !.offset = IF Full \/ file THEN @ ELSE 0] IN
       IF c.terminal THEN ReturnFinished(c)
       ELSE Respond(c, 0, "waiting") /\ UNCHANGED <<watching, done>>
    /\ UNCHANGED <<maxLogBytes, jobRow, file, atEnd, ppc, writer, bounds>>

\* ReadFrom returned an error.
SendFails ==
    /\ conn.pc = "sending"
    /\ ~Full
    /\ LogFault
    /\ EndResponse(conn)
    /\ UNCHANGED <<maxLogBytes, jobRow, file, atEnd, ppc, writer, watching, done, patches>>

\* Mutant: a finished job ends the stream before what it printed last is sent.
PollEndsAtOnce ==
    /\ conn.pc = "waiting"
    /\ jobRow # "deleted"
    /\ IF jobRow = "finished" THEN ReturnFinished(conn)
       ELSE conn' = [conn EXCEPT !.pc = "sending"] /\ UNCHANGED page
    /\ UNCHANGED <<maxLogBytes, jobRow, file, atEnd, ppc, writer, bounds>>

Poll ==
    /\ conn.pc = "waiting"
    /\ jobRow # "deleted"
    /\ conn' = [conn EXCEPT !.pc = "sending", !.terminal = jobRow = "finished"]
    /\ UNCHANGED <<maxLogBytes, jobRow, file, atEnd, ppc, writer, page, bounds>>

\* store.Job has no such row, or failed: the page is told that it is over.
PollFindsNothing ==
    /\ conn.pc = "waiting"
    /\ jobRow = "deleted"
    /\ ReturnFinished([conn EXCEPT !.gone = TRUE])
    /\ UNCHANGED <<maxLogBytes, jobRow, file, atEnd, ppc, writer, bounds>>

PollFails ==
    /\ conn.pc = "waiting"
    /\ LogFault
    /\ ReturnFinished([conn EXCEPT !.gone = TRUE])
    /\ UNCHANGED <<maxLogBytes, jobRow, file, atEnd, ppc, writer, patches>>

\* The pings of heartbeat, when enough of them have filled the buffer.
Heartbeat ==
    /\ conn.pc = "waiting"
    /\ IF conn.expired THEN conn' = [conn EXCEPT !.pc = "closed"] /\ UNCHANGED shown
       ELSE \E left \in 0 .. conn.pending :
               /\ Arrives(conn.pending - left)
               /\ conn' = [conn EXCEPT !.pending = left, !.opened = TRUE]
    /\ UNCHANGED <<maxLogBytes, jobRow, file, atEnd, ppc, writer, watching, done, bounds>>

\* http.Server.WriteTimeout, two minutes after the request.
ExpireConnection ==
    /\ conn.pc = "waiting"
    /\ ~conn.expired
    /\ conn' = [conn EXCEPT !.expired = TRUE]
    /\ UNCHANGED <<maxLogBytes, jobRow, file, atEnd, ppc, writer, page, bounds>>

ViewerLeaves ==
    /\ watching
    /\ watching' = FALSE
    /\ conn' = [conn EXCEPT !.pc = "closed"]
    /\ UNCHANGED <<maxLogBytes, jobRow, file, atEnd, ppc, writer, shown, done, bounds>>

-----------------------------------------------------------------------------
(* Retention.                                                              *)

\* PruneJobs selects rows that are old and not in flight.
PruneSelect ==
    /\ ppc = "idle"
    /\ jobRow = "finished"
    /\ ppc' = "rows"
    /\ UNCHANGED <<maxLogBytes, jobRow, file, atEnd, writer, conn, page, bounds>>

\* The id is returned although its DELETE failed.
PruneRow ==
    /\ ppc = "rows"
    /\ \/ jobRow' = "deleted" /\ UNCHANGED logFaults
       \/ LogFault /\ UNCHANGED jobRow
    /\ ppc' = "files"
    /\ UNCHANGED <<maxLogBytes, file, atEnd, writer, conn, page, patches>>

PruneLog ==
    /\ ppc = "files"
    /\ \/ file' = FALSE /\ UNCHANGED logFaults
       \/ LogFault /\ UNCHANGED file
    /\ ppc' = "idle"
    /\ UNCHANGED <<maxLogBytes, jobRow, atEnd, writer, conn, page, patches>>

-----------------------------------------------------------------------------
Job == Create \/ (\E n \in 1 .. MaxOutput : Write(n)) \/ FinishRow \/ Close

Stream ==
    Connect \/ ConnectToNothing \/ SendChunk \/ SendEnds \/ SendFails
    \/ Poll \/ PollFindsNothing \/ PollFails \/ Heartbeat

Prune == PruneSelect \/ PruneRow \/ PruneLog

\* Nothing is left to do.
Finished ==
    /\ jpc = "closed"
    /\ ~watching
    /\ conn.pc = "closed"
    /\ UNCHANGED logVars

LogNext == PatchSettings \/ Job \/ Stream \/ ExpireConnection \/ ViewerLeaves \/ Prune \/ Finished

LogSpec == LogInit /\ [][LogNext]_logVars

\* The handler and the ticker run, and an EventSource retries on its own.  The
\* job need not end, nor print anything.
LogFairSpec ==
    /\ LogSpec
    /\ WF_logVars(Connect \/ ConnectToNothing)
    /\ WF_logVars(SendChunk \/ SendEnds)
    /\ WF_logVars(Poll \/ PollFindsNothing)

-----------------------------------------------------------------------------
(* Properties.                                                             *)

LogTypeOK ==
    /\ maxLogBytes \in Caps
    /\ jobRow \in {"in_progress", "finished", "deleted"}
    /\ jpc \in {"queued", "writing", "closed"}
    /\ file \in BOOLEAN
    /\ cap \in Caps \cup {NoLimit}
    /\ written \in Nat /\ printed \in Nat /\ atEnd \in Nat /\ shown \in Nat
    /\ overflow \in BOOLEAN
    /\ conn \in [pc : {"closed", "sending", "waiting"}, terminal : BOOLEAN, gone : BOOLEAN,
                 max : Caps \cup {NoLimit}, offset : Nat, sent : Nat, pending : Nat,
                 opened : BOOLEAN, expired : BOOLEAN]
    /\ watching \in BOOLEAN /\ done \in BOOLEAN
    /\ ppc \in {"idle", "rows", "files"}
    /\ patches \in Nat /\ logFaults \in Nat

\* "Stops at a byte cap" (logs/logs.go): the file holds the first bytes of the
\* output up to the cap it was opened with, the note only when output was cut,
\* and no note in one case of lost output, when a write had ended exactly at
\* the cap.  A write to the file that fails may leave less, never more.
CapHolds ==
    /\ jpc # "queued" => written <= cap
    /\ overflow => printed > cap
    /\ logFaults = 0 =>
          /\ overflow => written = cap
          /\ ~overflow /\ jpc # "queued" => written = IF printed < cap THEN printed ELSE cap

\* A page that was told "finished" shows everything the job had printed when its
\* row was finished, or as much as the cap allows: no line falls between the
\* last read of the log and the read of the row.
FinishedStreamIsComplete ==
    done /\ ~conn.gone /\ file => shown = conn.sent /\ (shown >= atEnd \/ shown = conn.max)

\* What a page shows is the start of the log, without a gap or a repetition,
\* across reconnections, cuts and changes of the cap.
PageShowsAPrefix ==
    conn.pc # "closed" /\ file =>
        /\ conn.sent = conn.offset
        /\ conn.opened => shown + conn.pending = conn.sent

\* A job that keeps its row keeps its log, if no DELETE failed.
RowsKeepTheirLog == jobRow = "finished" /\ logFaults = 0 => file

\* An open page ends with the log of a finished job, even if the connection it
\* had was cut by the server's timeout before anything arrived.
PageGetsTheLog ==
    watching /\ jobRow = "finished" ~> done \/ ~watching \/ jobRow = "deleted"

(* A claim of the repository that the code does not keep.                  *)

\* "First events are the bytes already on disk, then appends"
\* (api/logs_stream.go): while the handler waits for the next tick, what it has
\* sent is with the viewer.
SentIsShown == conn.pc = "waiting" /\ ~conn.expired => conn.pending = 0
=============================================================================
