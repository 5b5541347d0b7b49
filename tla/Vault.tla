-------------------------------- MODULE Vault --------------------------------
(***************************************************************************)
(* The secrets the database holds sealed: the private key and the webhook  *)
(* secret of each GitHub App (store/githubapps.go), the API token of each  *)
(* Coolify instance (store/coolify.go), the boxes they are sealed with     *)
(* (secret/secret.go), the rotation at boot (store/rotate.go), the         *)
(* handlers that save, test and delete the rows (api/githubapps.go,        *)
(* api/coolify.go) and the jobs that take an App's client from the cache   *)
(* (queue/clients.go).                                                     *)
(*                                                                         *)
(* A plaintext is the number of the save it came with; 0 is the empty      *)
(* text, which is stored as it is.                                         *)
(***************************************************************************)
EXTENDS Integers, FiniteSets

CONSTANTS
    Apps, Instances,  \* ids of github_apps and coolify_instances, never used again
    Keys,             \* values CI_SECRET_KEY and CI_SECRET_KEY_OLD may have
    NoKey,            \* CI_SECRET_KEY_OLD is not set
    Requests,         \* request goroutines
    Workers,          \* job goroutines
    NoId,
    MaxSaves,         \* bound: saves, of which a create counts for two
    MaxClock,         \* bound: milliseconds of a row told apart
    MaxBoots,         \* bound: boots
    MaxBusy,          \* bound: requests and jobs at work at a time
    MaxFields         \* bound: fields a form changes

ASSUME IdsAssumption == Apps \cap Instances = {} /\ NoId \notin Apps \cup Instances
ASSUME KeysAssumption == NoKey \notin Keys
ASSUME VaultBoundsAssumption == {MaxSaves, MaxClock, MaxBoots, MaxBusy, MaxFields} \subseteq Nat

Ids == Apps \cup Instances
Columns == {"secret", "hook"}  \* pem_enc or api_token_enc, and webhook_secret_enc

VARIABLES
    \* the database
    row,        \* the rows of both tables
    saves,
    \* the process
    proc,       \* "down", "rotating", "serving", or "refused": the boot failed
    key, old,   \* the two variables it was started with
    todo,       \* the rows RotateSecrets has not come to
    boots,
    \* the requests
    rpc, id, form, first, second,
    \* the jobs and the cache they share
    wpc, appOf, seen, client, cache,
    \* history
    mayHold,    \* the keys a row may be under, as far as the boots tell
    trusted,    \* the running boot was given all of them
    saved,      \* the last text a save gave each column
    lost,       \* columns written back over a save that came in between
    sameMs      \* Apps whose credentials changed twice within a millisecond

database == <<row, saves>>
process == <<proc, key, old, todo, boots, mayHold, trusted>>
requests == <<rpc, id, form, first, second>>
workers == <<wpc, appOf, seen, client, cache>>
past == <<saved, lost, sameMs>>
vaultVars == <<database, process, requests, workers, past>>

Empty == [key |-> NoKey, text |-> 0]
Nobody == [text |-> 0, host |-> 0]
Blank == [state |-> "unused", sealed |-> [c \in Columns |-> Empty], host |-> 0, stamp |-> 0,
          team |-> Nobody,    \* the token and host team_id and team_name were read with
          overtaken |-> FALSE] \* history: they were changed while the test ran
NoSecrets == [sealed |-> Blank.sealed, host |-> 0, team |-> Nobody, overtaken |-> FALSE]
NoForm == [named |-> {}, host |-> FALSE]
NoVersion == [stamp |-> -1, host |-> 0]
NoClient == [version |-> NoVersion, creds |-> Nobody]

\* secret.Box.Seal and Open
Seal(k, text) == IF text = 0 THEN Empty ELSE [key |-> k, text |-> text]
Opens(k, s) == s.text = 0 \/ s.key = k

There(r) == row[r].state = "there"

\* What a second read of the row is for.
SecretsOf(rec) == [sealed |-> rec.sealed, host |-> rec.host, team |-> rec.team,
                   overtaken |-> rec.overtaken]

\* What an outside call is made with; the App ID is part of host.
Creds(rec) == [text |-> rec.sealed["secret"].text, host |-> rec.host]

VaultInit ==
    /\ row = [r \in Ids |-> Blank]
    /\ saves = 0
    /\ proc = "down"
    /\ key = NoKey
    /\ old = NoKey
    /\ todo = {}
    /\ boots = 0
    /\ rpc = [h \in Requests |-> "idle"]
    /\ id = [h \in Requests |-> NoId]
    /\ form = [h \in Requests |-> NoForm]
    /\ first = [h \in Requests |-> 0]
    /\ second = [h \in Requests |-> NoSecrets]
    /\ wpc = [w \in Workers |-> "idle"]
    /\ appOf = [w \in Workers |-> NoId]
    /\ seen = [w \in Workers |-> Blank]
    /\ client = [w \in Workers |-> Nobody]
    /\ cache = [a \in Apps |-> NoClient]
    /\ mayHold = {}
    /\ trusted = TRUE
    /\ saved = [r \in Ids |-> [c \in Columns |-> 0]]
    /\ lost = {}
    /\ sameMs = {}

-----------------------------------------------------------------------------
(* The process: secret.New, then RotateSecrets when the old key is set.    *)

Boot(k, o) ==
    /\ proc \in {"down", "refused"}
    /\ boots < MaxBoots
    /\ boots' = boots + 1
    /\ key' = k
    /\ old' = o
    /\ proc' = IF o = NoKey THEN "serving" ELSE "rotating"
    /\ todo' = IF o = NoKey THEN {} ELSE {r \in Ids : There(r)}
    /\ trusted' = (mayHold \subseteq {k, o})
    /\ mayHold' = mayHold \cup {k}
    /\ UNCHANGED <<database, requests, workers, past>>

\* Apps come before instances.
Turn(r) == r \in todo /\ (r \in Instances => todo \cap Apps = {})

\* Mutant: the new box is asked first and last.
ReopenNew(s) == Opens(key, s)

\* reopen: the new box is asked first.
Reopen(s) == Opens(key, s) \/ Opens(old, s)

\* One UPDATE for all columns of a row; what opens with the new box stays as it is.
RotateRow(r) ==
    /\ proc = "rotating"
    /\ Turn(r)
    /\ \A c \in Columns : Reopen(row[r].sealed[c])
    /\ row' = [row EXCEPT ![r].sealed = [c \in Columns |-> Seal(key, @[c].text)]]
    /\ todo' = todo \ {r}
    /\ UNCHANGED <<saves, proc, key, old, boots, mayHold, trusted, requests, workers, past>>

\* Mutant: a row that opens with neither key is passed over.
RotatePasses(r) ==
    /\ proc = "rotating"
    /\ Turn(r)
    /\ \E c \in Columns : ~Reopen(row[r].sealed[c])
    /\ todo' = todo \ {r}
    /\ UNCHANGED <<database, proc, key, old, boots, mayHold, trusted, requests, workers, past>>

\* A column opens with neither key: the boot ends.
RotateRefuses(r) ==
    /\ proc = "rotating"
    /\ Turn(r)
    /\ \E c \in Columns : ~Reopen(row[r].sealed[c])
    /\ proc' = "refused"
    /\ todo' = {}
    /\ UNCHANGED <<database, key, old, boots, mayHold, trusted, requests, workers, past>>

RotateDone ==
    /\ proc = "rotating"
    /\ todo = {}
    /\ proc' = "serving"
    /\ mayHold' = {key}
    /\ UNCHANGED <<database, key, old, todo, boots, trusted, requests, workers, past>>

\* The process ends at any point; a statement of the rotation that fails ends it too.
Crash ==
    /\ proc \in {"rotating", "serving"}
    /\ proc' = "down"
    /\ todo' = {}
    /\ rpc' = [h \in Requests |-> "idle"]
    /\ id' = [h \in Requests |-> NoId]
    /\ form' = [h \in Requests |-> NoForm]
    /\ first' = [h \in Requests |-> 0]
    /\ second' = [h \in Requests |-> NoSecrets]
    /\ wpc' = [w \in Workers |-> "idle"]
    /\ appOf' = [w \in Workers |-> NoId]
    /\ seen' = [w \in Workers |-> Blank]
    /\ client' = [w \in Workers |-> Nobody]
    /\ cache' = [a \in Apps |-> NoClient]
    /\ UNCHANGED <<database, key, old, boots, mayHold, trusted, past>>

-----------------------------------------------------------------------------
(* The requests.                                                           *)

RoomForOne ==
    /\ proc = "serving"
    /\ Cardinality({h \in Requests : rpc[h] # "idle"}) +
       Cardinality({w \in Workers : wpc[w] # "idle"}) < MaxBusy

Move(h, p) == rpc' = [rpc EXCEPT ![h] = p]

Reply(h) ==
    /\ Move(h, "idle")
    /\ id' = [id EXCEPT ![h] = NoId]
    /\ form' = [form EXCEPT ![h] = NoForm]
    /\ first' = [first EXCEPT ![h] = 0]
    /\ second' = [second EXCEPT ![h] = NoSecrets]

\* The handler works on the row r.
Take(h, r, p) ==
    /\ Move(h, p)
    /\ id' = [id EXCEPT ![h] = r]

Free(h) == RoomForOne /\ rpc[h] = "idle"

Created == Cardinality({r \in Ids : row[r].state # "unused"})

ColumnsOf(r) == IF r \in Apps THEN Columns ELSE {"secret"}

\* updated_at: the clock may or may not have moved on since; only clientCache reads it.
Milliseconds(r) ==
    IF r \in Apps THEN {row[r].stamp, row[r].stamp + 1} \cap (0 .. MaxClock) ELSE {0}

\* Any statement may fail, and the handler says so.
SaveFails(h) ==
    /\ rpc[h] \in {"update", "write", "record"}
    /\ Reply(h)
    /\ UNCHANGED <<database, process, workers, past>>

\* createApp, the manifest's callback and createCoolify; all of them test the row,
\* unless the read after the INSERT fails.
Create(h, r) ==
    /\ Free(h)
    /\ row[r].state = "unused"
    /\ saves + Created + 1 < MaxSaves
    /\ saves' = saves + 1
    /\ row' = [row EXCEPT ![r] =
            [Blank EXCEPT !.state = "there", !.host = saves + 1,
                          !.sealed = [c \in Columns |->
                                Seal(key, IF c \in ColumnsOf(r) THEN saves + 1 ELSE 0)]]]
    /\ saved' = [saved EXCEPT ![r] = [c \in Columns |-> IF c \in ColumnsOf(r) THEN saves + 1 ELSE 0]]
    /\ Take(h, r, "test") \/ UNCHANGED <<rpc, id>>
    /\ UNCHANGED <<process, form, first, second, workers, lost, sameMs>>

\* updateApp and updateCoolify read the row for what the form leaves out ...
ReadForForm(h, r, f) ==
    /\ Free(h)
    /\ There(r)
    /\ f.named \subseteq ColumnsOf(r)
    /\ saves + Created < MaxSaves
    /\ Take(h, r, "update")
    /\ form' = [form EXCEPT ![h] = f]
    /\ first' = [first EXCEPT ![h] = row[r].host]
    /\ UNCHANGED <<database, process, second, workers, past>>

\* ... and UpdateGitHubApp and UpdateCoolifyInstance read it again for its secrets.
ReadForSecrets(h) ==
    /\ rpc[h] = "update"
    /\ There(id[h])
    /\ second' = [second EXCEPT ![h] = SecretsOf(row[id[h]])]
    /\ Move(h, "write")
    /\ UNCHANGED <<database, process, id, form, first, workers, past>>

NewHost(h) == IF form[h].host THEN saves + 1 ELSE first[h]

\* Mutant: only a new token clears the label.
ForgetsTeamOfToken(h) == "secret" \in form[h].named

\* The team label goes with the token or the host.
ForgetsTeam(h) == "secret" \in form[h].named \/ NewHost(h) # second[h].host

\* Mutant: a blank field is saved as it is.
NewSealedBlank(h) == [c \in Columns |->
    IF c \in ColumnsOf(id[h]) THEN Seal(key, IF c \in form[h].named THEN saves + 1 ELSE 0)
    ELSE second[h].sealed[c]]

\* Blank keeps what was stored.
NewSealed(h) == [c \in Columns |->
    IF c \in form[h].named THEN Seal(key, saves + 1) ELSE second[h].sealed[c]]

NewRow(h, ms) ==
    [row[id[h]] EXCEPT !.sealed = NewSealed(h), !.host = NewHost(h), !.stamp = ms,
                       !.team = IF ForgetsTeam(h) THEN Nobody ELSE second[h].team,
                       !.overtaken = ~ForgetsTeam(h) /\ second[h].overtaken]

\* The UPDATE; of a row that is gone it changes nothing.  When the read after it
\* fails, an App's client is not dropped.
WriteForm(h) ==
    /\ rpc[h] = "write"
    /\ There(id[h])
    /\ saves + Created < MaxSaves
    /\ saves' = saves + 1
    /\ \E ms \in Milliseconds(id[h]) :
          /\ row' = [row EXCEPT ![id[h]] = NewRow(h, ms)]
          /\ sameMs' = IF row[id[h]].stamp = ms THEN sameMs \cup {id[h]} ELSE sameMs
    /\ saved' = [saved EXCEPT ![id[h]] =
                    [c \in Columns |-> IF c \in form[h].named THEN saves + 1 ELSE @[c]]]
    /\ lost' = (lost \ ({id[h]} \X form[h].named))
                \cup ({id[h]} \X {c \in Columns \ form[h].named :
                                    row[id[h]].sealed[c] # second[h].sealed[c]})
    /\ \/ id[h] \in Apps /\ Move(h, "drop") /\ UNCHANGED <<id, form, first, second>>
       \/ Reply(h)
    /\ UNCHANGED <<process, workers>>

RowIsGone(h) ==
    /\ rpc[h] \in {"update", "write", "test"}
    /\ ~There(id[h])
    /\ Reply(h)
    /\ UNCHANGED <<database, process, workers, past>>

Delete(h, r) ==
    /\ Free(h)
    /\ There(r)
    /\ row' = [row EXCEPT ![r] = [Blank EXCEPT !.state = "deleted"]]
    /\ saved' = [saved EXCEPT ![r] = [c \in Columns |-> 0]]
    /\ IF r \in Apps THEN Take(h, r, "drop") ELSE UNCHANGED <<rpc, id>>
    /\ UNCHANGED <<saves, process, form, first, second, workers, lost, sameMs>>

\* Runner.DropClient
DropClient(h) ==
    /\ rpc[h] = "drop"
    /\ cache' = [cache EXCEPT ![id[h]] = NoClient]
    /\ Reply(h)
    /\ UNCHANGED <<database, process, wpc, appOf, seen, client, past>>

StartTest(h, r) ==
    /\ Free(h)
    /\ There(r)
    /\ Take(h, r, "test")
    /\ UNCHANGED <<database, process, form, first, second, workers, past>>

\* runAppTest, runCoolifyTest: the row, or an error that is recorded like a refusal ...
ReadForTest(h) ==
    /\ rpc[h] = "test"
    /\ There(id[h])
    /\ \E read \in {SecretsOf(row[id[h]]), NoSecrets} : second' = [second EXCEPT ![h] = read]
    /\ Move(h, "record")
    /\ UNCHANGED <<database, process, id, form, first, workers, past>>

\* ... the call, and the row again: whatever it holds by now.
RecordTest(h) ==
    LET r == id[h]
        tried == second[h]
        outcomes == IF Opens(key, tried.sealed["secret"]) THEN {Creds(tried), Nobody} ELSE {Nobody}
    IN
    /\ rpc[h] = "record"
    /\ IF There(r)
       THEN \E ms \in Milliseconds(r), team \in IF r \in Instances THEN outcomes ELSE {Nobody} :
               row' = [row EXCEPT ![r].stamp = ms, ![r].team = team,
                            ![r].overtaken = (team # Nobody /\ Creds(row[r]) # Creds(tried))]
       ELSE UNCHANGED row
    /\ Reply(h)
    /\ UNCHANGED <<saves, process, workers, past>>

-----------------------------------------------------------------------------
(* A job takes its App's client: clientCache.For, in two critical sections. *)

\* Mutant: the version leaves updated_at out, and DropClient is relied on.
VersionOfHost(rec) == [stamp |-> 0, host |-> rec.host]

Version(rec) == [stamp |-> rec.stamp, host |-> rec.host]

Step(w, p) == wpc' = [wpc EXCEPT ![w] = p]

Leave(w) ==
    /\ Step(w, "idle")
    /\ appOf' = [appOf EXCEPT ![w] = NoId]
    /\ seen' = [seen EXCEPT ![w] = Blank]
    /\ client' = [client EXCEPT ![w] = Nobody]

ReadApp(w, a) ==
    /\ RoomForOne
    /\ wpc[w] = "idle"
    /\ There(a)
    /\ Step(w, "lookup")
    /\ appOf' = [appOf EXCEPT ![w] = a]
    /\ seen' = [seen EXCEPT ![w] = row[a]]
    /\ UNCHANGED <<database, process, requests, client, cache, past>>

CacheHit(w) ==
    /\ wpc[w] = "lookup"
    /\ cache[appOf[w]].version = Version(seen[w])
    /\ client' = [client EXCEPT ![w] = cache[appOf[w]].creds]
    /\ Step(w, "have")
    /\ UNCHANGED <<database, process, requests, appOf, seen, cache, past>>

\* The lock is not held while the key is opened and parsed.
CacheMiss(w) ==
    /\ wpc[w] = "lookup"
    /\ cache[appOf[w]].version # Version(seen[w])
    /\ IF Opens(key, seen[w].sealed["secret"])
       THEN /\ client' = [client EXCEPT ![w] = Creds(seen[w])]
            /\ Step(w, "store")
            /\ UNCHANGED <<appOf, seen>>
       ELSE Leave(w)
    /\ UNCHANGED <<database, process, requests, cache, past>>

CacheStore(w) ==
    /\ wpc[w] = "store"
    /\ cache' = [cache EXCEPT ![appOf[w]] = [version |-> Version(seen[w]), creds |-> client[w]]]
    /\ Step(w, "have")
    /\ UNCHANGED <<database, process, requests, appOf, seen, client, past>>

JobEnds(w) ==
    /\ wpc[w] = "have"
    /\ Leave(w)
    /\ UNCHANGED <<database, process, requests, cache, past>>

-----------------------------------------------------------------------------
Forms ==
    {f \in [named : SUBSET Columns, host : BOOLEAN] :
        Cardinality(f.named) + Cardinality({TRUE} \cap {f.host}) <= MaxFields}

Process ==
    \/ \E k \in Keys, o \in Keys \cup {NoKey} : Boot(k, o)
    \/ \E r \in Ids : RotateRow(r) \/ RotateRefuses(r)
    \/ RotateDone \/ Crash

Ask(h) ==
    \/ \E r \in Ids : Create(h, r) \/ Delete(h, r) \/ StartTest(h, r)
    \/ \E r \in Ids, f \in Forms : ReadForForm(h, r, f)

Serve(h) ==
    \/ SaveFails(h) \/ RowIsGone(h)
    \/ ReadForSecrets(h) \/ WriteForm(h) \/ DropClient(h)
    \/ ReadForTest(h) \/ RecordTest(h)

Work(w) ==
    \/ \E a \in Apps : ReadApp(w, a)
    \/ CacheHit(w) \/ CacheMiss(w) \/ CacheStore(w) \/ JobEnds(w)

VaultNext ==
    \/ Process
    \/ \E h \in Requests : Ask(h) \/ Serve(h)
    \/ \E w \in Workers : Work(w)

VaultSpec == VaultInit /\ [][VaultNext]_vaultVars

-----------------------------------------------------------------------------
Seals == [Columns -> [key : Keys \cup {NoKey}, text : Nat]]
Credentials == [text : Nat, host : Nat]
AppRows == [state : {"unused", "there", "deleted"}, sealed : Seals, host : Nat, stamp : Nat,
            team : Credentials, overtaken : BOOLEAN]

DatabaseTypeOK == row \in [Ids -> AppRows] /\ saves \in Nat

ProcessTypeOK ==
    /\ proc \in {"down", "rotating", "serving", "refused"}
    /\ {key, old} \subseteq Keys \cup {NoKey} /\ todo \subseteq Ids
    /\ proc # "down" => key \in Keys
    /\ mayHold \subseteq Keys /\ trusted \in BOOLEAN /\ boots \in Nat

RequestsTypeOK ==
    /\ rpc \in [Requests -> {"idle", "update", "write", "drop", "test", "record"}]
    /\ id \in [Requests -> Ids \cup {NoId}]
    /\ form \in [Requests -> [named : SUBSET Columns, host : BOOLEAN]]
    /\ first \in [Requests -> Nat]
    /\ second \in [Requests -> [sealed : Seals, host : Nat, team : Credentials, overtaken : BOOLEAN]]

WorkersTypeOK ==
    /\ wpc \in [Workers -> {"idle", "lookup", "store", "have"}]
    /\ appOf \in [Workers -> Apps \cup {NoId}]
    /\ seen \in [Workers -> AppRows] /\ client \in [Workers -> Credentials]
    /\ cache \in [Apps -> [version : [stamp : Int, host : Nat], creds : Credentials]]

PastTypeOK ==
    /\ saved \in [Ids -> [Columns -> Nat]]
    /\ lost \subseteq Ids \X Columns /\ sameMs \subseteq Ids

\* A request at work has a row and names columns its row has, a job at work has an
\* App, and both are at work only while the process serves.
AtWork ==
    /\ \A h \in Requests : rpc[h] # "idle" => proc = "serving" /\ id[h] \in Ids
    /\ \A h \in Requests : rpc[h] \in {"update", "write"} => form[h].named \subseteq ColumnsOf(id[h])
    /\ \A h \in Requests : rpc[h] = "drop" => id[h] \in Apps
    /\ \A w \in Workers : wpc[w] # "idle" => proc = "serving" /\ appOf[w] \in Apps

\* Types.
TypeOK ==
    DatabaseTypeOK /\ ProcessTypeOK /\ RequestsTypeOK /\ WorkersTypeOK /\ PastTypeOK /\ AtWork

-----------------------------------------------------------------------------
(* Properties.                                                             *)

\* While the process serves, every secret opens with its CI_SECRET_KEY: after a
\* rotation however often it was cut short, and after a boot whose keys are all
\* those the rows may be under.
SecretsOpen ==
    proc = "serving" /\ (trusted \/ old # NoKey) =>
        \A r \in Ids, c \in Columns : Opens(key, row[r].sealed[c])

\* A boot that was given every key the rows may be under is never refused, be it
\* the first one, the one after a crash in the middle or a way back to the old key.
TrustedBootsServe == proc = "refused" => ~trusted

\* Every column holds the text of the last save that named it, through rotations,
\* tests and blank fields; only a save whose second read another one overtook
\* writes an old text back.
SecretsAreKept ==
    \A r \in Ids, c \in Columns :
        row[r].sealed[c].text = saved[r][c] \/ <<r, c>> \in lost

\* A job calls GitHub with the credentials of the row it read, whichever clients
\* other jobs stored before and after the row was saved, dropped or deleted.  The
\* cache knows a row by its updated_at, to the millisecond.
ClientsAreOfTheRow ==
    \A w \in Workers :
        wpc[w] \in {"store", "have"} /\ appOf[w] \notin sameMs => client[w] = Creds(seen[w])

\* The team shown for an instance is the one its token belongs to on its host,
\* unless the two changed while the test ran.
TeamsAreOfTheToken ==
    \A i \in Instances :
        row[i].team # Nobody /\ ~row[i].overtaken => row[i].team = Creds(row[i])
=============================================================================
