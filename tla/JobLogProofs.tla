---------------------------- MODULE JobLogProofs ----------------------------
(***************************************************************************)
(* JobLog: for every cap, chunk, buffer and number of faults, the file     *)
(* holds the start of the output, the page the start of the file, a page   *)
(* that was told "finished" all of it, and retention leaves no row without *)
(* its log.                                                                *)
(***************************************************************************)
EXTENDS JobLog, TLAPS

Conn == [pc : {"closed", "sending", "waiting"}, terminal : BOOLEAN, gone : BOOLEAN,
         max : Caps \cup {NoLimit}, offset : Nat, sent : Nat, pending : Nat,
         opened : BOOLEAN, expired : BOOLEAN]

\* The file, as far as the job has got.
WriterInv ==
    /\ jpc = "queued" => jobRow = "in_progress" /\ ~file /\ written = 0 /\ printed = 0 /\ ~overflow
    /\ jpc # "queued" => cap \in Caps
    /\ CapHolds
    /\ written <= printed
    /\ atEnd <= FileSize

\* Retention never looks at a row in flight, and deletes a log after its row.
PruneInv ==
    /\ ppc # "idle" => jobRow # "in_progress"
    /\ ppc = "files" /\ logFaults = 0 => jobRow = "deleted"
    /\ jpc # "queued" /\ jobRow # "deleted" /\ logFaults = 0 => file

\* What has been sent is on the page or in the buffer; the first data of a
\* connection replaces what the page shows.
Accounted(c) ==
    /\ c.opened => shown + c.pending = c.sent
    /\ ~c.opened => c.pending = c.sent

\* A stream that is open has sent the file up to its offset, within its cap.
Open(c) ==
    /\ jpc = "queued" => c.sent = 0 /\ c.offset = 0
    /\ file => c.sent = c.offset
    /\ c.max # NoLimit => c.sent <= c.max
    /\ c.terminal => jobRow # "in_progress"
    /\ ~c.gone
    /\ watching

StreamInv ==
    /\ conn.pc # "closed" => Open(conn) /\ Accounted(conn)
    /\ done => ~watching
    /\ done /\ ~conn.gone => jobRow # "in_progress"
    /\ FinishedStreamIsComplete

IInv == LogTypeOK /\ WriterInv /\ PruneInv /\ StreamInv

-----------------------------------------------------------------------------
LEMMA TypeOKConn == LogTypeOK => conn \in Conn
BY DEF LogTypeOK, Conn

LEMMA FileSizeType == LogTypeOK => FileSize \in Nat
BY SizesAssumption DEF LogTypeOK, FileSize

LEMMA CapType == \A max \in Caps \cup {NoLimit} : max \in Nat
<1>1. \A max \in Caps : max \in Nat
  BY CapsAssumption
<1>2. NoLimit \in Nat
  BY DEF NoLimit
<1>. HIDE DEF NoLimit
<1>. QED BY <1>1, <1>2

LEMMA ClosedType == Closed \in Conn
BY DEF Closed, Conn, NoLimit

\* One round of send reads no more than the file has, and sends no more than
\* the cap leaves.
LEMMA ClippedBounds ==
    ASSUME LogTypeOK, ~Full, conn.max # NoLimit => conn.sent <= conn.max
    PROVE  /\ Clipped \in Nat
           /\ conn.max # NoLimit => conn.sent + Clipped <= conn.max
<1>1. conn.sent \in Nat /\ conn.offset \in Nat /\ conn.max \in Nat
  <2>1. conn.sent \in Nat /\ conn.offset \in Nat /\ conn.max \in Caps \cup {NoLimit}
    BY TypeOKConn DEF Conn
  <2>. QED BY <2>1, CapType
<1>2. Unread \in Nat
  BY <1>1, FileSizeType DEF Unread
<1>3. Data \in Nat
  BY <1>2, SizesAssumption DEF Data
<1>4. CASE conn.max # NoLimit /\ conn.sent + Data > conn.max
  <2>1. Clipped = conn.max - conn.sent
    BY <1>4 DEF Clipped
  <2>. QED BY <1>1, <1>4, <2>1
<1>5. CASE ~(conn.max # NoLimit /\ conn.sent + Data > conn.max)
  <2>1. Clipped = Data
    BY <1>5 DEF Clipped
  <2>. QED BY <1>1, <1>3, <1>5, <2>1
<1>. QED BY <1>4, <1>5

\* Where a write of k bytes leaves the handler, its connection and the page.
LEMMA RespondAccounted ==
    ASSUME LogTypeOK, NEW c \in Conn, NEW k \in Nat, NEW pc \in {"sending", "waiting"},
           c.opened = conn.opened,
           c.opened => shown + c.pending + k = c.sent,
           ~c.opened => c.pending + k = c.sent,
           Respond(c, k, pc)
    PROVE  /\ conn' \in Conn /\ shown' \in Nat
           /\ conn'.pc \in {pc, "closed"}
           /\ conn'.pc # "closed" => Accounted(conn)'
           /\ conn'.sent = c.sent /\ conn'.offset = c.offset /\ conn'.max = c.max
           /\ conn'.terminal = c.terminal /\ conn'.gone = c.gone
<1>. DEFINE held == c.pending + k
<1>1. shown \in Nat /\ c.pending \in Nat /\ c.sent \in Nat /\ held \in Nat /\ BufferBytes \in Nat
  BY SizesAssumption DEF LogTypeOK, Conn
<1>2. CASE held <= BufferBytes /\ conn' = [c EXCEPT !.pc = pc, !.pending = held] /\ shown' = shown
  <2>1. conn' \in Conn
    BY <1>1, <1>2 DEF Conn
  <2>2. /\ conn'.pc = pc /\ conn'.pending = held /\ conn'.opened = c.opened
        /\ conn'.sent = c.sent /\ conn'.offset = c.offset /\ conn'.max = c.max
        /\ conn'.terminal = c.terminal /\ conn'.gone = c.gone
    BY <1>2 DEF Conn
  <2>3. Accounted(conn)'
    BY <1>1, <1>2, <2>2 DEF Accounted
  <2>. QED BY <1>1, <1>2, <2>1, <2>2, <2>3
<1>3. ASSUME NEW left \in 0 .. BufferBytes, held > BufferBytes, Arrives(held - left),
             conn' = [c EXCEPT !.pc = pc, !.pending = left, !.opened = TRUE]
      PROVE  /\ conn' \in Conn /\ shown' \in Nat
             /\ conn'.pc = pc /\ Accounted(conn)'
             /\ conn'.sent = c.sent /\ conn'.offset = c.offset /\ conn'.max = c.max
             /\ conn'.terminal = c.terminal /\ conn'.gone = c.gone
  <2>0. left \in Nat
    BY <1>1, <1>3
  <2>1. conn' \in Conn
    BY <1>3, <2>0 DEF Conn
  <2>2. /\ conn'.pc = pc /\ conn'.pending = left /\ conn'.opened
        /\ conn'.sent = c.sent /\ conn'.offset = c.offset /\ conn'.max = c.max
        /\ conn'.terminal = c.terminal /\ conn'.gone = c.gone
    BY <1>3 DEF Conn
  <2>3. shown' = (IF c.opened THEN shown ELSE 0) + (held - left)
    BY <1>3 DEF Arrives
  <2>4. PICK before \in Nat : /\ before = IF c.opened THEN shown ELSE 0
                             /\ before + held = c.sent
    BY <1>1
  <2>5. shown' = before + (held - left)
    BY <2>3, <2>4
  <2>6. left \in Nat /\ left <= BufferBytes
    BY <1>1, <1>3
  <2>7. held - left \in Nat
    BY <1>1, <1>3, <2>6
  <2>8. shown' \in Nat /\ shown' + left = c.sent
    BY <1>1, <2>4, <2>5, <2>6, <2>7
  <2>. QED BY <2>1, <2>2, <2>8 DEF Accounted
<1>4. CASE conn' = [c EXCEPT !.pc = "closed"] /\ shown' = shown
  <2>1. conn' \in Conn /\ conn'.pc = "closed"
    BY <1>4 DEF Conn
  <2>2. /\ conn'.sent = c.sent /\ conn'.offset = c.offset /\ conn'.max = c.max
        /\ conn'.terminal = c.terminal /\ conn'.gone = c.gone
    BY <1>4 DEF Conn
  <2>. QED BY <1>1, <1>4, <2>1, <2>2
<1>. QED BY <1>2, <1>3, <1>4 DEF Respond

\* Where the end of a response leaves them.
LEMMA ReturnAccounted ==
    ASSUME LogTypeOK, NEW c \in Conn, c.opened = conn.opened,
           c.opened => shown + c.pending = c.sent,
           ~c.opened => c.pending = c.sent,
           EndResponse(c)
    PROVE  /\ conn' \in Conn /\ shown' \in Nat
           /\ conn'.pc = "closed"
           /\ ~c.expired => shown' = c.sent
           /\ c.expired => shown' = shown
           /\ conn'.sent = c.sent /\ conn'.max = c.max /\ conn'.gone = c.gone
<1>1. shown \in Nat /\ c.pending \in Nat /\ c.sent \in Nat
  BY DEF LogTypeOK, Conn
<1>2. conn' = [c EXCEPT !.pc = "closed", !.pending = 0]
  BY DEF EndResponse
<1>3. /\ conn' \in Conn /\ conn'.pc = "closed"
      /\ conn'.sent = c.sent /\ conn'.max = c.max /\ conn'.gone = c.gone
  BY <1>2 DEF Conn
<1>4. CASE c.expired
  BY <1>1, <1>3, <1>4 DEF EndResponse
<1>5. CASE ~c.expired
  <2>1. shown' = (IF c.opened THEN shown ELSE 0) + c.pending
    BY <1>5 DEF EndResponse, Arrives
  <2>. QED BY <1>1, <1>3, <1>5, <2>1
<1>. QED BY <1>4, <1>5
-----------------------------------------------------------------------------
(* Steps that leave a part alone.                                          *)

LEMMA WriterAlone ==
    ASSUME WriterInv, UNCHANGED <<writer, jobRow, file, atEnd>>, logFaults' = 0 => logFaults = 0
    PROVE  WriterInv'
BY DEF WriterInv, CapHolds, FileSize, writer

LEMMA PruneAlone ==
    ASSUME LogTypeOK, PruneInv, UNCHANGED <<ppc, jobRow, file>>, jpc' # "queued" => jpc # "queued",
           logFaults' = logFaults \/ logFaults' = logFaults + 1
    PROVE  PruneInv'
<1>1. logFaults' = 0 => logFaults = 0
  BY DEF LogTypeOK
<1>. QED BY <1>1 DEF PruneInv

\* A stream sees of the others that the job starts, that its row is finished
\* or deleted, and that its file comes and goes.
LEMMA StreamAlone ==
    ASSUME LogTypeOK, StreamInv, UNCHANGED <<conn, page>>,
           jpc' = "queued" => jpc = "queued",
           jobRow # "in_progress" => jobRow' # "in_progress" /\ atEnd' = atEnd,
           file' => file \/ (jpc = "queued" /\ jobRow = "in_progress")
    PROVE  StreamInv'
<1>1. conn.pc # "closed" => Open(conn)' /\ Accounted(conn)'
  BY DEF StreamInv, Open, Accounted, page
<1>2. FinishedStreamIsComplete'
  BY DEF StreamInv, FinishedStreamIsComplete, page
<1>. QED BY <1>1, <1>2 DEF StreamInv, page

-----------------------------------------------------------------------------
(* The job, the settings and retention.                                    *)

LEMMA StepJob == IInv /\ (Job \/ PatchSettings \/ Prune) => IInv'
<1>. SUFFICES ASSUME IInv, Job \/ PatchSettings \/ Prune PROVE IInv'
  OBVIOUS
<1>0. LogTypeOK /\ WriterInv /\ PruneInv /\ StreamInv
  BY DEF IInv
<1>. USE <1>0
<1>1. CASE PatchSettings
  <2>1. LogTypeOK'
    BY <1>1 DEF PatchSettings, LogTypeOK, writer, page
  <2>2. WriterInv'
    BY <1>1, WriterAlone DEF PatchSettings
  <2>3. PruneInv'
    BY <1>1, PruneAlone DEF PatchSettings, writer
  <2>4. StreamInv'
    BY <1>1, StreamAlone DEF PatchSettings, writer
  <2>. QED BY <2>1, <2>2, <2>3, <2>4 DEF IInv
<1>2. CASE Create
  <2>1. LogTypeOK'
    BY <1>2 DEF Create, LogTypeOK, page, bounds
  <2>2. WriterInv'
    <3>1. maxLogBytes \in Nat /\ maxLogBytes > 0
      BY CapsAssumption DEF LogTypeOK
    <3>2. /\ jobRow = "in_progress" /\ written = 0 /\ printed = 0 /\ ~overflow
          /\ jobRow' = jobRow /\ written' = 0 /\ printed' = 0 /\ ~overflow'
          /\ jpc' = "writing" /\ cap' = maxLogBytes /\ atEnd' = atEnd
          /\ maxLogBytes \in Caps
      BY <1>2 DEF Create, WriterInv, LogTypeOK
    <3>3. FileSize' = FileSize
      BY <3>2 DEF FileSize
    <3>. QED BY <3>1, <3>2, <3>3 DEF WriterInv, CapHolds
  <2>3. PruneInv'
    BY <1>2 DEF Create, PruneInv, WriterInv
  <2>4. StreamInv'
    BY <1>2, StreamAlone DEF Create, WriterInv
  <2>. QED BY <2>1, <2>2, <2>3, <2>4 DEF IInv
<1>3. ASSUME NEW n \in 1 .. MaxOutput, Write(n) PROVE IInv'
  <2>0. n \in Nat /\ n > 0
    BY SizesAssumption
  <2>1. /\ cap \in Nat /\ written \in Nat /\ printed \in Nat /\ overflow \in BOOLEAN
        /\ written <= cap /\ written <= printed
        /\ overflow => printed > cap
        /\ logFaults = 0 /\ overflow => written = cap
        /\ logFaults = 0 /\ ~overflow => written = IF printed < cap THEN printed ELSE cap
    BY <1>3, CapType DEF Write, WriterInv, CapHolds, LogTypeOK
  <2>2. printed' = printed + n /\ printed' \in Nat
    BY <1>3, <2>0, <2>1 DEF Write
  <2> DEFINE room == IF Fits(n) THEN n ELSE cap - written
  <2>3. /\ logFaults' = logFaults \/ logFaults' = logFaults + 1
        /\ logFaults' \in Nat
        /\ logFaults' = 0 => logFaults = 0
    <3>1. logFaults' = logFaults \/ logFaults' = logFaults + 1
      BY <1>3 DEF Write, LogFault
    <3>. QED BY <3>1 DEF LogTypeOK
  <2>4. /\ written' \in Nat /\ overflow' \in BOOLEAN
        /\ written <= written' /\ (overflow => overflow')
        /\ written' <= cap /\ written' <= printed'
        /\ overflow' => printed' > cap
        /\ logFaults' = 0 /\ overflow' => written' = cap
        /\ logFaults' = 0 /\ ~overflow' => written' = IF printed' < cap THEN printed' ELSE cap
    <3>1. CASE overflow \/ written >= cap
      <4>1. written' = written /\ overflow' = overflow
        <5>1. ~(~overflow /\ written < cap)
          BY <2>1, <3>1
        <5>2. UNCHANGED <<written, overflow>>
          BY <1>3, <5>1, Zenon DEF Write
        <5>. QED BY <5>2
      <4>2. logFaults' = 0 => written = cap /\ printed >= cap
        BY <2>1, <2>3, <3>1
      <4>. QED BY <2>0, <2>1, <2>2, <4>1, <4>2
    <3>2. CASE ~(overflow \/ written >= cap)
      <4>1. room \in Nat /\ room <= n /\ written + room <= cap
            /\ (Fits(n) => room = n) /\ (~Fits(n) => written + room = cap /\ written + n > cap)
        BY <2>0, <2>1, <3>2 DEF Fits
      <4>2. overflow' = ~Fits(n)
        BY <1>3, <3>2 DEF Write
      <4>3. \/ written' = written + room /\ logFaults' = logFaults
            \/ LogFault /\ \E k \in 0 .. room - 1 : written' = written + k
        BY <1>3, <3>2 DEF Write
      <4>. HIDE DEF room
      <4>4. CASE written' = written + room /\ logFaults' = logFaults
        <5>1. written' \in Nat /\ written <= written' /\ written' <= cap /\ written' <= printed'
          BY <2>0, <2>1, <2>2, <4>1, <4>4
        <5>2. ~Fits(n) => written' = cap /\ printed' > cap
          BY <2>0, <2>1, <2>2, <4>1, <4>4
        <5>3. logFaults' = 0 => written = printed
          BY <2>1, <2>3, <3>2
        <5>4. logFaults' = 0 /\ Fits(n) => written' = IF printed' < cap THEN printed' ELSE cap
          BY <2>0, <2>1, <2>2, <4>1, <4>4, <5>1, <5>3
        <5>. QED BY <3>2, <4>2, <5>1, <5>2, <5>4
      <4>5. CASE LogFault /\ \E k \in 0 .. room - 1 : written' = written + k
        <5>1. PICK k \in 0 .. room - 1 : written' = written + k
          BY <4>5
        <5>2. written' \in Nat /\ written <= written' /\ written' <= cap /\ written' <= printed'
          BY <2>0, <2>1, <2>2, <4>1, <5>1
        <5>3. ~Fits(n) => printed' > cap
          BY <2>0, <2>1, <2>2, <4>1
        <5>4. logFaults' # 0
          BY <4>5 DEF LogFault, LogTypeOK
        <5>. QED BY <3>2, <4>2, <5>2, <5>3, <5>4
      <4>. QED BY <4>3, <4>4, <4>5
    <3>. QED BY <3>1, <3>2
  <2>5. UNCHANGED <<maxLogBytes, jobRow, file, atEnd, ppc, jpc, cap, conn, page, patches>>
    BY <1>3 DEF Write
  <2>6. LogTypeOK'
    BY <2>2, <2>3, <2>4, <2>5 DEF LogTypeOK, page
  <2>7. FileSize <= FileSize'
    BY <2>1, <2>4, SizesAssumption DEF FileSize
  <2>8. atEnd' <= FileSize'
    <3>1. atEnd \in Nat /\ FileSize \in Nat /\ FileSize' \in Nat /\ atEnd <= FileSize
      <4>1. FileSize' \in Nat
        <5>1. MarkerBytes \in Nat
          BY SizesAssumption
        <5>2. PICK note \in Nat : note = IF overflow' THEN MarkerBytes ELSE 0
          BY <5>1
        <5>3. PICK now \in Nat : now = written'
          BY <2>4
        <5>4. FileSize' = now + note
          BY <5>2, <5>3 DEF FileSize
        <5>. QED BY <5>4
      <4>. QED BY <4>1, FileSizeType DEF WriterInv, LogTypeOK
    <3>. QED BY <2>5, <2>7, <3>1
  <2>9. CapHolds'
    BY <2>4, <2>5 DEF CapHolds
  <2>10. WriterInv'
    BY <1>3, <2>4, <2>5, <2>8, <2>9 DEF WriterInv, Write
  <2>11. PruneInv'
    BY <2>3, <2>5, PruneAlone
  <2>12. StreamInv'
    BY <2>5, StreamAlone
  <2>. QED BY <2>6, <2>10, <2>11, <2>12 DEF IInv
<1>4. CASE FinishRow
  <2>1. LogTypeOK'
    BY <1>4, FileSizeType DEF FinishRow, LogTypeOK, writer, page, bounds
  <2>2. WriterInv'
    BY <1>4, FileSizeType DEF FinishRow, WriterInv, CapHolds, FileSize, writer, bounds
  <2>3. PruneInv'
    BY <1>4 DEF FinishRow, PruneInv, writer, bounds
  <2>4. StreamInv'
    BY <1>4, StreamAlone DEF FinishRow, writer
  <2>. QED BY <2>1, <2>2, <2>3, <2>4 DEF IInv
<1>5. CASE Close
  <2>1. LogTypeOK'
    BY <1>5 DEF Close, LogTypeOK, page, bounds
  <2>2. WriterInv'
    BY <1>5 DEF Close, WriterInv, CapHolds, FileSize, bounds
  <2>3. PruneInv'
    BY <1>5, PruneAlone DEF Close, bounds
  <2>4. StreamInv'
    BY <1>5, StreamAlone DEF Close
  <2>. QED BY <2>1, <2>2, <2>3, <2>4 DEF IInv
<1>6. CASE PruneSelect
  <2>1. LogTypeOK'
    BY <1>6 DEF PruneSelect, LogTypeOK, writer, page, bounds
  <2>2. WriterInv'
    BY <1>6, WriterAlone DEF PruneSelect, bounds
  <2>3. PruneInv'
    BY <1>6 DEF PruneSelect, PruneInv, writer, bounds
  <2>4. StreamInv'
    BY <1>6, StreamAlone DEF PruneSelect, writer
  <2>. QED BY <2>1, <2>2, <2>3, <2>4 DEF IInv
<1>7. CASE PruneRow
  <2>0. logFaults' = logFaults \/ logFaults' = logFaults + 1
    BY <1>7 DEF PruneRow, LogFault
  <2>1. LogTypeOK'
    BY <1>7, <2>0 DEF PruneRow, LogTypeOK, writer, page
  <2>2. jobRow # "in_progress" /\ jobRow' # "in_progress" /\ jpc # "queued"
    BY <1>7 DEF PruneRow, PruneInv, WriterInv
  <2>3. WriterInv'
    BY <1>7, <2>0, <2>2 DEF PruneRow, WriterInv, CapHolds, FileSize, writer, LogTypeOK
  <2>4. logFaults' = 0 => logFaults = 0 /\ jobRow' = "deleted"
    BY <1>7, <2>0 DEF PruneRow, LogFault, LogTypeOK
  <2>5. PruneInv'
    BY <1>7, <2>2, <2>4 DEF PruneRow, PruneInv, writer
  <2>6. StreamInv'
    BY <1>7, <2>2, StreamAlone DEF PruneRow, writer
  <2>. QED BY <2>1, <2>3, <2>5, <2>6 DEF IInv
<1>8. CASE PruneLog
  <2>0. logFaults' = logFaults \/ logFaults' = logFaults + 1
    BY <1>8 DEF PruneLog, LogFault
  <2>1. LogTypeOK'
    <3>0. logFaults' \in Nat
      BY <2>0 DEF LogTypeOK
    <3>1. file' \in BOOLEAN
      BY <1>8, Zenon DEF PruneLog, LogTypeOK
    <3>2. UNCHANGED <<maxLogBytes, jobRow, atEnd, writer, conn, page, patches>> /\ ppc' = "idle"
      BY <1>8 DEF PruneLog
    <3>. QED BY <3>0, <3>1, <3>2 DEF LogTypeOK, writer, page
  <2>2. jobRow # "in_progress" /\ jpc # "queued"
    BY <1>8 DEF PruneLog, PruneInv, WriterInv
  <2>3. WriterInv'
    BY <1>8, <2>0, <2>2 DEF PruneLog, WriterInv, CapHolds, FileSize, writer, LogTypeOK
  <2>4. logFaults' = 0 => logFaults = 0
    BY <2>0 DEF LogTypeOK
  <2>5. PruneInv'
    BY <1>8, <2>2, <2>4 DEF PruneLog, PruneInv, writer
  <2>6. StreamInv'
    BY <1>8, StreamAlone DEF PruneLog, writer
  <2>. QED BY <2>1, <2>3, <2>5, <2>6 DEF IInv
<1>. QED BY <1>1, <1>2, <1>3, <1>4, <1>5, <1>6, <1>7, <1>8 DEF Job, Prune
-----------------------------------------------------------------------------
(* The stream.                                                             *)

\* What the steps of the stream leave alone.
LEMMA StreamSteps ==
    ASSUME IInv, UNCHANGED <<maxLogBytes, jobRow, file, atEnd, ppc, writer, patches>>,
           logFaults' = logFaults \/ logFaults' = logFaults + 1,
           conn' \in Conn, shown' \in Nat, watching' \in BOOLEAN, done' \in BOOLEAN,
           StreamInv'
    PROVE  IInv'
<1>1. LogTypeOK'
  <2>1. logFaults' \in Nat
    BY DEF IInv, LogTypeOK
  <2>. QED BY <2>1 DEF IInv, LogTypeOK, Conn, writer
<1>2. WriterInv'
  <2>1. logFaults' = 0 => logFaults = 0
    BY DEF IInv, LogTypeOK
  <2>. QED BY <2>1, WriterAlone DEF IInv
<1>3. PruneInv'
  BY PruneAlone DEF IInv, writer
<1>. QED BY <1>1, <1>2, <1>3 DEF IInv

\* A page that is open was told nothing yet.
LEMMA NotYetDone ==
    ASSUME IInv, conn.pc # "closed"
    PROVE  LogTypeOK /\ conn \in Conn /\ Open(conn) /\ Accounted(conn) /\ watching /\ ~done
BY TypeOKConn DEF IInv, StreamInv, Open, LogTypeOK

\* An open stream goes on with what Respond leaves of it.
LEMMA GoesOn ==
    ASSUME IInv, conn.pc # "closed", UNCHANGED <<jobRow, jpc, file, watching, done>>,
           conn'.pc # "closed" => Accounted(conn)' /\ Open(conn)'
    PROVE  StreamInv'
<1>1. ~done'
  BY NotYetDone
<1>. QED BY <1>1 DEF StreamInv, FinishedStreamIsComplete

\* The page is told the end: of a row that is gone, or with all of its log.
LEMMA Finishes ==
    ASSUME IInv, conn.pc # "closed", NEW c \in Conn, UNCHANGED <<jobRow, jpc, file, atEnd>>,
           c.opened = conn.opened, c.pending = conn.pending, c.sent = conn.sent,
           c.gone \/ (jobRow # "in_progress" /\ (file => c.sent >= atEnd \/ c.sent = c.max)),
           ReturnFinished(c)
    PROVE  /\ conn' \in Conn /\ shown' \in Nat /\ watching' \in BOOLEAN /\ done' \in BOOLEAN
           /\ StreamInv'
<1>1. LogTypeOK /\ Accounted(conn)
  BY NotYetDone
<1>2. c.opened => shown + c.pending = c.sent
  BY <1>1 DEF Accounted
<1>3. ~c.opened => c.pending = c.sent
  BY <1>1 DEF Accounted
<1>4. EndResponse(c) /\ done' = ~c.expired /\ watching' = c.expired /\ c.expired \in BOOLEAN
  BY DEF ReturnFinished, Conn
<1>5. /\ conn' \in Conn /\ shown' \in Nat /\ conn'.pc = "closed"
      /\ ~c.expired => shown' = c.sent
      /\ conn'.sent = c.sent /\ conn'.max = c.max /\ conn'.gone = c.gone
  BY <1>1, <1>2, <1>3, <1>4, ReturnAccounted
<1>6. CASE c.expired
  BY <1>4, <1>5, <1>6 DEF StreamInv, FinishedStreamIsComplete
<1>7. CASE ~c.expired
  <2>1. done' = TRUE /\ watching' = FALSE /\ shown' = c.sent
    BY <1>4, <1>5, <1>7
  <2>2. c.gone \/ (file' => shown' = conn'.sent /\ (shown' >= atEnd' \/ shown' = conn'.max))
    BY <1>5, <2>1
  <2>. QED BY <1>5, <2>1, <2>2 DEF StreamInv, FinishedStreamIsComplete
<1>. QED BY <1>6, <1>7

LEMMA StepStream == IInv /\ Stream => IInv'
<1>. SUFFICES ASSUME IInv, Stream PROVE IInv'
  OBVIOUS
<1>0. LogTypeOK /\ WriterInv /\ PruneInv /\ StreamInv /\ conn \in Conn
  BY TypeOKConn DEF IInv
<1>1. CASE Connect
  <2>1. PICK max \in {maxLogBytes, NoLimit} :
          /\ max # maxLogBytes => LogFault
          /\ max = maxLogBytes => UNCHANGED logFaults
          /\ conn' = [Closed EXCEPT !.pc = "sending", !.terminal = jobRow = "finished", !.max = max]
    BY <1>1 DEF Connect
  <2>2. UNCHANGED <<maxLogBytes, jobRow, file, atEnd, ppc, writer, page, patches>> /\ watching
    BY <1>1 DEF Connect
  <2>3. max \in Caps \cup {NoLimit} /\ max \in Nat
    BY <1>0, <2>1, CapType DEF LogTypeOK
  <2>4. /\ conn' \in Conn /\ conn'.pc = "sending" /\ conn'.max = max /\ ~conn'.opened
        /\ conn'.sent = 0 /\ conn'.offset = 0 /\ conn'.pending = 0 /\ ~conn'.gone
        /\ conn'.terminal => jobRow = "finished"
    BY <2>1, <2>3 DEF Closed, Conn
  <2>5. Open(conn)' /\ Accounted(conn)'
    BY <2>2, <2>3, <2>4 DEF Open, Accounted, page
  <2>6. ~done'
    BY <1>0, <2>2 DEF StreamInv, page
  <2>7. StreamInv'
    BY <2>5, <2>6 DEF StreamInv, FinishedStreamIsComplete
  <2>8. shown' \in Nat /\ watching' \in BOOLEAN /\ done' \in BOOLEAN
    BY <1>0, <2>2 DEF LogTypeOK, page
  <2>9. logFaults' = logFaults \/ logFaults' = logFaults + 1
    BY <2>1 DEF LogFault
  <2>. QED BY <2>2, <2>4, <2>7, <2>8, <2>9, StreamSteps
<1>2. CASE ConnectToNothing
  <2>1. conn.pc = "closed" /\ watching /\ watching' = FALSE
    BY <1>2 DEF ConnectToNothing
  <2>2. UNCHANGED <<maxLogBytes, jobRow, file, atEnd, ppc, writer, conn, shown, done, bounds>>
    BY <1>2 DEF ConnectToNothing
  <2>3. StreamInv'
    BY <1>0, <2>1, <2>2 DEF StreamInv, FinishedStreamIsComplete
  <2>4. shown' \in Nat /\ done' \in BOOLEAN
    BY <1>0, <2>2 DEF LogTypeOK
  <2>. QED BY <1>0, <2>1, <2>2, <2>3, <2>4, StreamSteps DEF bounds
<1>3. CASE SendChunk
  <2>. DEFINE c == [conn EXCEPT !.sent = @ + Clipped, !.offset = @ + Clipped]
  <2>1. conn.pc # "closed" /\ ~Full /\ Data > 0 /\ Respond(c, Clipped, "sending")
    BY <1>3 DEF SendChunk
  <2>2. UNCHANGED <<maxLogBytes, jobRow, file, atEnd, ppc, writer, watching, done, bounds>>
    BY <1>3 DEF SendChunk
  <2>3. Open(conn) /\ Accounted(conn) /\ watching /\ ~done
    BY <2>1, NotYetDone
  <2>4. Clipped \in Nat /\ (conn.max # NoLimit => conn.sent + Clipped <= conn.max)
    BY <1>0, <2>1, <2>3, ClippedBounds DEF Open
  <2>5. /\ conn.sent \in Nat /\ conn.offset \in Nat /\ conn.pending \in Nat /\ shown \in Nat
    BY <1>0 DEF Conn, LogTypeOK
  <2>. HIDE DEF Clipped, Data, Full
  <2>6. /\ c \in Conn /\ c.opened = conn.opened /\ c.pending = conn.pending
        /\ c.sent = conn.sent + Clipped /\ c.offset = conn.offset + Clipped
        /\ c.max = conn.max /\ c.terminal = conn.terminal /\ c.gone = conn.gone
    <3>1. conn.sent + Clipped \in Nat /\ conn.offset + Clipped \in Nat
      BY <2>4, <2>5
    <3>. QED BY <1>0, <3>1 DEF Conn
  <2>. HIDE DEF c
  <2>7. /\ c.opened => shown + c.pending + Clipped = c.sent
        /\ ~c.opened => c.pending + Clipped = c.sent
    BY <2>3, <2>4, <2>5, <2>6 DEF Accounted
  <2>8. /\ conn' \in Conn /\ shown' \in Nat
        /\ conn'.pc # "closed" => Accounted(conn)'
        /\ conn'.sent = c.sent /\ conn'.offset = c.offset /\ conn'.max = c.max
        /\ conn'.terminal = c.terminal /\ conn'.gone = c.gone
    BY <1>0, <2>1, <2>4, <2>6, <2>7, RespondAccounted
  <2>9. jpc # "queued"
    <3>1. Data # 0
      BY <2>1
    <3>2. file
      BY <3>1, SizesAssumption DEF Data, Unread
    <3>. QED BY <1>0, <3>2 DEF WriterInv
  <2>10. Open(conn)'
    BY <2>2, <2>3, <2>4, <2>5, <2>6, <2>8, <2>9 DEF Open, writer
  <2>11. StreamInv'
    BY <2>1, <2>2, <2>8, <2>10, GoesOn DEF writer
  <2>12. watching' \in BOOLEAN /\ done' \in BOOLEAN
    BY <1>0, <2>2 DEF LogTypeOK
  <2>. QED BY <2>2, <2>8, <2>11, <2>12, StreamSteps DEF bounds
<1>4. CASE SendEnds
  <2>. DEFINE c == [conn EXCEPT !.offset = IF Full \/ file THEN @ ELSE 0]
  <2>1. conn.pc # "closed" /\ (Full \/ Data = 0)
    BY <1>4 DEF SendEnds
  <2>2. UNCHANGED <<maxLogBytes, jobRow, file, atEnd, ppc, writer, bounds>>
    BY <1>4 DEF SendEnds
  <2>3. Open(conn) /\ Accounted(conn) /\ watching /\ ~done
    BY <2>1, NotYetDone
  <2>4. /\ conn.sent \in Nat /\ conn.offset \in Nat /\ conn.pending \in Nat /\ shown \in Nat
        /\ conn.max \in Nat
    BY <1>0, CapType DEF Conn, LogTypeOK
  <2>. HIDE DEF Full, Data
  <2>5. /\ c \in Conn /\ c.opened = conn.opened /\ c.pending = conn.pending
        /\ c.sent = conn.sent /\ c.offset = (IF Full \/ file THEN conn.offset ELSE 0)
        /\ c.max = conn.max /\ c.terminal = conn.terminal /\ c.gone = conn.gone
    BY <1>0, <2>4 DEF Conn
  <2>6. CASE conn.terminal
    <3>1. ReturnFinished(c)
      BY <1>4, <2>6 DEF SendEnds
    <3>. HIDE DEF c
    <3>2. jobRow # "in_progress"
      BY <2>3, <2>6 DEF Open
    <3>3. ASSUME file
          PROVE  c.sent >= atEnd \/ c.sent = c.max
      <4>1. CASE Full
        BY <2>3, <2>4, <2>5, <4>1 DEF Full, Open
      <4>2. CASE ~Full
        <5>1. Unread = 0
          BY <2>1, <4>2, SizesAssumption DEF Data
        <5>2. PICK size \in Nat : size = FileSize
          BY <1>0, FileSizeType
        <5>3. conn.offset >= size
          BY <2>4, <3>3, <5>1, <5>2 DEF Unread
        <5>4. atEnd \in Nat /\ atEnd <= size
          BY <1>0, <5>2 DEF WriterInv, LogTypeOK
        <5>. QED BY <2>3, <2>4, <2>5, <3>3, <5>3, <5>4 DEF Open
      <4>. QED BY <4>1, <4>2
    <3>4. /\ conn' \in Conn /\ shown' \in Nat /\ watching' \in BOOLEAN /\ done' \in BOOLEAN
          /\ StreamInv'
      BY <2>1, <2>2, <2>5, <3>1, <3>2, <3>3, Finishes DEF writer
    <3>. QED BY <2>2, <3>4, StreamSteps DEF bounds
  <2>7. CASE ~conn.terminal
    <3>1. Respond(c, 0, "waiting") /\ UNCHANGED <<watching, done>>
      BY <1>4, <2>5, <2>7 DEF SendEnds
    <3>. HIDE DEF c
    <3>2. /\ c.opened => shown + c.pending + 0 = c.sent
          /\ ~c.opened => c.pending + 0 = c.sent
      BY <2>3, <2>4, <2>5 DEF Accounted
    <3>3. /\ conn' \in Conn /\ shown' \in Nat
          /\ conn'.pc # "closed" => Accounted(conn)'
          /\ conn'.sent = c.sent /\ conn'.offset = c.offset /\ conn'.max = c.max
          /\ conn'.terminal = c.terminal /\ conn'.gone = c.gone
      BY <1>0, <2>5, <3>1, <3>2, RespondAccounted
    <3>4. Open(conn)'
      BY <2>2, <2>3, <2>5, <3>1, <3>3 DEF Open, writer
    <3>5. StreamInv'
      BY <2>1, <2>2, <3>1, <3>3, <3>4, GoesOn DEF writer
    <3>6. watching' \in BOOLEAN /\ done' \in BOOLEAN
      BY <1>0, <3>1 DEF LogTypeOK
    <3>. QED BY <2>2, <3>3, <3>5, <3>6, StreamSteps DEF bounds
  <2>. QED BY <2>6, <2>7
<1>5. CASE SendFails
  <2>1. conn.pc # "closed" /\ EndResponse(conn) /\ logFaults' = logFaults + 1
    BY <1>5 DEF SendFails, LogFault
  <2>2. UNCHANGED <<maxLogBytes, jobRow, file, atEnd, ppc, writer, watching, done, patches>>
    BY <1>5 DEF SendFails
  <2>3. Accounted(conn)
    BY <2>1, NotYetDone
  <2>4. conn' \in Conn /\ shown' \in Nat /\ conn'.pc = "closed"
    BY <1>0, <2>1, <2>3, ReturnAccounted DEF Accounted
  <2>5. StreamInv'
    BY <2>1, <2>2, <2>4, GoesOn DEF writer
  <2>6. watching' \in BOOLEAN /\ done' \in BOOLEAN
    BY <1>0, <2>2 DEF LogTypeOK
  <2>. QED BY <2>1, <2>2, <2>4, <2>5, <2>6, StreamSteps
<1>6. CASE Poll
  <2>1. /\ conn.pc # "closed"
        /\ conn' = [conn EXCEPT !.pc = "sending", !.terminal = jobRow = "finished"]
    BY <1>6 DEF Poll
  <2>2. UNCHANGED <<maxLogBytes, jobRow, file, atEnd, ppc, writer, page, bounds>>
    BY <1>6 DEF Poll
  <2>3. /\ conn' \in Conn /\ conn'.opened = conn.opened /\ conn'.pending = conn.pending
        /\ conn'.sent = conn.sent /\ conn'.offset = conn.offset /\ conn'.max = conn.max
        /\ conn'.gone = conn.gone /\ (conn'.terminal => jobRow = "finished")
    BY <1>0, <2>1 DEF Conn
  <2>4. Open(conn) /\ Accounted(conn)
    BY <2>1, NotYetDone
  <2>5. Open(conn)' /\ Accounted(conn)'
    BY <2>2, <2>3, <2>4 DEF Open, Accounted, page, writer
  <2>6. StreamInv'
    BY <2>1, <2>2, <2>5, GoesOn DEF writer, page
  <2>7. shown' \in Nat /\ watching' \in BOOLEAN /\ done' \in BOOLEAN
    BY <1>0, <2>2 DEF LogTypeOK, page
  <2>. QED BY <2>2, <2>3, <2>6, <2>7, StreamSteps DEF bounds
<1>7. CASE PollFindsNothing \/ PollFails
  <2>. DEFINE c == [conn EXCEPT !.gone = TRUE]
  <2>1. conn.pc # "closed" /\ ReturnFinished(c)
    BY <1>7 DEF PollFindsNothing, PollFails
  <2>2. /\ UNCHANGED <<maxLogBytes, jobRow, file, atEnd, ppc, writer, patches>>
        /\ logFaults' = logFaults \/ logFaults' = logFaults + 1
    BY <1>7 DEF PollFindsNothing, PollFails, LogFault, bounds
  <2>3. /\ c \in Conn /\ c.opened = conn.opened /\ c.pending = conn.pending
        /\ c.sent = conn.sent /\ c.gone
    BY <1>0 DEF Conn
  <2>. HIDE DEF c
  <2>4. /\ conn' \in Conn /\ shown' \in Nat /\ watching' \in BOOLEAN /\ done' \in BOOLEAN
        /\ StreamInv'
    BY <2>1, <2>2, <2>3, Finishes DEF writer
  <2>. QED BY <2>2, <2>4, StreamSteps
<1>8. CASE Heartbeat
  <2>1. conn.pc # "closed"
    BY <1>8 DEF Heartbeat
  <2>2. UNCHANGED <<maxLogBytes, jobRow, file, atEnd, ppc, writer, watching, done, bounds>>
    BY <1>8 DEF Heartbeat
  <2>3. Open(conn) /\ Accounted(conn)
    BY <2>1, NotYetDone
  <2>4. conn.sent \in Nat /\ conn.pending \in Nat /\ shown \in Nat
    BY <1>0 DEF Conn, LogTypeOK
  <2>5. /\ conn' \in Conn /\ shown' \in Nat
        /\ conn'.pc # "closed" => Open(conn)' /\ Accounted(conn)'
    <3>1. CASE conn.expired
      <4>1. conn' = [conn EXCEPT !.pc = "closed"] /\ shown' = shown
        BY <1>8, <3>1 DEF Heartbeat
      <4>. QED BY <1>0, <2>4, <4>1 DEF Conn
    <3>2. CASE ~conn.expired
      <4>1. PICK left \in 0 .. conn.pending :
               /\ Arrives(conn.pending - left)
               /\ conn' = [conn EXCEPT !.pending = left, !.opened = TRUE]
        BY <1>8, <3>2 DEF Heartbeat
      <4>2. left \in Nat /\ left <= conn.pending
        BY <2>4, <4>1
      <4>3. /\ conn' \in Conn /\ conn'.opened /\ conn'.pending = left
            /\ conn'.sent = conn.sent /\ conn'.offset = conn.offset /\ conn'.max = conn.max
            /\ conn'.gone = conn.gone /\ conn'.terminal = conn.terminal
        BY <1>0, <4>1, <4>2 DEF Conn
      <4>4. PICK before \in Nat : /\ before = IF conn.opened THEN shown ELSE 0
                                 /\ before + conn.pending = conn.sent
        BY <2>3, <2>4 DEF Accounted
      <4>5. shown' = before + (conn.pending - left)
        BY <4>1, <4>4 DEF Arrives
      <4>6. shown' \in Nat /\ shown' + left = conn.sent
        BY <2>4, <4>2, <4>4, <4>5
      <4>. QED BY <2>2, <2>3, <4>3, <4>6 DEF Open, Accounted, writer
    <3>. QED BY <3>1, <3>2
  <2>6. StreamInv'
    BY <2>1, <2>2, <2>5, GoesOn DEF writer
  <2>7. watching' \in BOOLEAN /\ done' \in BOOLEAN
    BY <1>0, <2>2 DEF LogTypeOK
  <2>. QED BY <2>2, <2>5, <2>6, <2>7, StreamSteps DEF bounds
<1>. QED BY <1>1, <1>2, <1>3, <1>4, <1>5, <1>6, <1>7, <1>8 DEF Stream

LEMMA StepViewer == IInv /\ (ExpireConnection \/ ViewerLeaves) => IInv'
<1>. SUFFICES ASSUME IInv, ExpireConnection \/ ViewerLeaves PROVE IInv'
  OBVIOUS
<1>0. LogTypeOK /\ StreamInv /\ conn \in Conn
  BY TypeOKConn DEF IInv
<1>1. CASE ExpireConnection
  <2>1. conn.pc # "closed" /\ conn' = [conn EXCEPT !.expired = TRUE]
    BY <1>1 DEF ExpireConnection
  <2>2. UNCHANGED <<maxLogBytes, jobRow, file, atEnd, ppc, writer, page, bounds>>
    BY <1>1 DEF ExpireConnection
  <2>3. /\ conn' \in Conn /\ conn'.opened = conn.opened /\ conn'.pending = conn.pending
        /\ conn'.sent = conn.sent /\ conn'.offset = conn.offset /\ conn'.max = conn.max
        /\ conn'.gone = conn.gone /\ conn'.terminal = conn.terminal
    BY <1>0, <2>1 DEF Conn
  <2>4. Open(conn) /\ Accounted(conn)
    BY <2>1, NotYetDone
  <2>5. Open(conn)' /\ Accounted(conn)'
    BY <2>2, <2>3, <2>4 DEF Open, Accounted, page, writer
  <2>6. StreamInv'
    BY <2>1, <2>2, <2>5, GoesOn DEF writer, page
  <2>7. shown' \in Nat /\ watching' \in BOOLEAN /\ done' \in BOOLEAN
    BY <1>0, <2>2 DEF LogTypeOK, page
  <2>. QED BY <2>2, <2>3, <2>6, <2>7, StreamSteps DEF bounds
<1>2. CASE ViewerLeaves
  <2>1. watching /\ watching' = FALSE /\ conn' = [conn EXCEPT !.pc = "closed"]
    BY <1>2 DEF ViewerLeaves
  <2>2. UNCHANGED <<maxLogBytes, jobRow, file, atEnd, ppc, writer, shown, done, bounds>>
    BY <1>2 DEF ViewerLeaves
  <2>3. conn' \in Conn /\ conn'.pc = "closed"
    BY <1>0, <2>1 DEF Conn
  <2>4. ~done'
    BY <1>0, <2>1, <2>2 DEF StreamInv
  <2>5. StreamInv'
    BY <2>1, <2>3, <2>4 DEF StreamInv, FinishedStreamIsComplete
  <2>6. shown' \in Nat /\ done' \in BOOLEAN
    BY <1>0, <2>2 DEF LogTypeOK
  <2>. QED BY <2>1, <2>2, <2>3, <2>5, <2>6, StreamSteps DEF bounds
<1>. QED BY <1>1, <1>2

LEMMA InitIInv == LogInit => IInv
<1>. SUFFICES ASSUME LogInit PROVE IInv
  OBVIOUS
<1>1. LogTypeOK
  BY ClosedType DEF LogInit, LogTypeOK, Conn
<1>2. WriterInv
  BY <1>1, FileSizeType DEF LogInit, WriterInv, CapHolds
<1>3. PruneInv
  BY DEF LogInit, PruneInv
<1>4. StreamInv
  BY DEF LogInit, StreamInv, FinishedStreamIsComplete, Closed
<1>. QED BY <1>1, <1>2, <1>3, <1>4 DEF IInv

LEMMA StepIInv == IInv /\ [LogNext]_logVars => IInv'
<1>1. IInv /\ UNCHANGED logVars => IInv'
  BY DEF logVars, writer, page, bounds, IInv, LogTypeOK, WriterInv, CapHolds, FileSize, PruneInv,
         StreamInv, Open, Accounted, FinishedStreamIsComplete
<1>. QED BY <1>1, StepJob, StepStream, StepViewer DEF LogNext, Finished

LEMMA SpecIInv == LogSpec => []IInv
BY InitIInv, StepIInv, PTL DEF LogSpec

-----------------------------------------------------------------------------
(* The theorems.                                                           *)

\* Every variable keeps its type.
THEOREM TypeCorrect == LogSpec => []LogTypeOK
BY SpecIInv, PTL DEF IInv

\* The log is the start of the output, cut at the cap it was opened with.
THEOREM CapAlwaysHolds == LogSpec => []CapHolds
<1>1. IInv => CapHolds
  BY DEF IInv, WriterInv
<1>. QED BY <1>1, SpecIInv, PTL

\* "finished" comes after the last line of the job: the handler reads the log
\* once more after it has read the row.
THEOREM FinishedStreamsAreComplete == LogSpec => []FinishedStreamIsComplete
<1>1. IInv => FinishedStreamIsComplete
  BY DEF IInv, StreamInv
<1>. QED BY <1>1, SpecIInv, PTL

\* What the page shows and what net/http holds back are together the start of
\* the log, across reconnections and changes of the cap.
THEOREM PagesShowAPrefix == LogSpec => []PageShowsAPrefix
<1>1. IInv => PageShowsAPrefix
  BY DEF IInv, StreamInv, Open, Accounted, PageShowsAPrefix
<1>. QED BY <1>1, SpecIInv, PTL

\* Retention deletes a log only after its row.
THEOREM RowsAlwaysKeepTheirLog == LogSpec => []RowsKeepTheirLog
<1>1. IInv => RowsKeepTheirLog
  BY DEF IInv, WriterInv, PruneInv, RowsKeepTheirLog
<1>. QED BY <1>1, SpecIInv, PTL
=============================================================================
