------------------------------ MODULE BackupOps ------------------------------
(***************************************************************************)
(* Backups, the nightly gate, recovery drills and the retention of audit   *)
(* events: api/app/operations/backups.py, compliance.py, the handlers of   *)
(* api/app/api/routes/operations.py, the startup of api/app/main.py and    *)
(* the worker's operations_compliance_job.                                 *)
(*                                                                         *)
(* A backup reads the tables of a scope one after the other while requests *)
(* commit, writes the artifact, copies it to the offline medium if asked   *)
(* to, and commits its row in backup_runs.  A drill restores an artifact   *)
(* into an empty PostgreSQL schema, table by table with foreign keys.      *)
(*                                                                         *)
(* A payload is named by its digest, which is the number of the backup.    *)
(* Of the 34 tables, the model has those between which a foreign key can   *)
(* break: rows of one table that refer to another that is read at another  *)
(* time, or by another filter.  Time is in seconds, of which a day has     *)
(* SecondsPerDay.                                                          *)
(***************************************************************************)
EXTENDS Naturals, Sequences, FiniteSets, TLC

CONSTANTS
    Scopes,
    Busy,           \* the scopes whose users send requests
    Users,
    Members,        \* Members[s]: the users with a membership in scope s
    Configs,        \* recommendation_configs: the rows that can exist, of the
                    \* organization, its programs and its scopes
    Covers,         \* Covers[c]: the scopes whose backups hold row c
    Editors,        \* the users who change configurations
    Threads,        \* the threads that run requests
    Processes,      \* the API processes that start
    None,
    Damaged,        \* the content of a file that cannot be decrypted
    SecondsPerDay,
    NightlyFrom,    \* backup_nightly_hour_utc, in seconds of the day
    Retention,      \* audit_retention_days, in seconds
    Interval,       \* recovery_drill_interval_days, in seconds
    MaxNow,         \* bound: time
    MaxBackups,     \* bound: backups begun, for each scope
    MaxManual,      \* bound: backups asked for by requests
    MaxChanges,     \* bound: changes by others
    MaxDrills       \* bound: drills

ASSUME ScopeAssumption ==
    /\ Busy \subseteq Scopes
    /\ Editors \subseteq Users
    /\ Members \in [Scopes -> SUBSET Users]
    /\ Covers \in [Configs -> SUBSET Scopes]

ASSUME TimeAssumption ==
    /\ SecondsPerDay \in Nat \ {0}
    /\ {NightlyFrom, Retention, Interval, MaxNow, MaxManual, MaxChanges, MaxDrills}
           \subseteq Nat
    /\ MaxBackups \in [Scopes -> Nat]

ASSUME ActorsAssumption == IsFiniteSet(Threads \cup Processes)

\* A damaged file is neither missing nor the payload of a backup.
ASSUME DamagedAssumption == Damaged \notin Nat

VARIABLES
    now,
    editor,     \* who last changed each row of recommendation_configs, None: no such row
    address,    \* the scopes whose one address_book_entries row exists
    changes,    \* how often others have changed the tables or the disk
    upload,     \* for each scope, how many uploaded_assets, each with its import batch
    run,        \* backup_runs
    drill,      \* recovery_drill_runs
    audit,      \* audit_events about runs and drills
    file,       \* the backup directory: number of the payload in each file, or 0
    offline,    \* the offline medium, likewise
    taken,      \* what the restore of each payload would give, and why
    job         \* what each thread or process is in the middle of

vars == <<now, editor, address, upload, changes, run, drill, audit, file, offline, taken, job>>
db == <<editor, address, upload, changes>>

Actors == Threads \cup Processes
Names == Scopes \X (0..MaxNow)
Day(second) == second \div SecondsPerDay

-----------------------------------------------------------------------------
(* Payloads and their restore.                                             *)

\* The tables in the order a backup reads them; tables between which no foreign
\* key runs are read in one step.
ReadGroups == <<
    {"recommendation_configs", "orders"},
    {"address_book_entries", "uploaded_assets", "backup_runs"},
    {"import_batches", "recovery_drill_runs", "users"} >>

Tables == UNION {ReadGroups[g] : g \in DOMAIN ReadGroups}

Row(id, refs) == [id |-> id, refs |-> refs]

\* A scope has its own configuration and those above it, whoever edited them.
ConfigsOf(s) == {c \in Configs : s \in Covers[c] /\ editor[c] # None}

EditedElsewhere(s) == \E c \in ConfigsOf(s) : editor[c] \notin Members[s]

\* The rows of a table that belong to a scope, as committed.  The order of a
\* scope is for its one address, and ON DELETE SET NULL.
Selected(t, s) ==
    CASE t = "users" -> {Row(u, {}) : u \in Members[s]}
      [] t = "recommendation_configs" ->
             {Row(c, {<<"users", editor[c]>>}) : c \in ConfigsOf(s)}
      [] t = "address_book_entries" -> IF s \in address THEN {Row(0, {})} ELSE {}
      [] t = "orders" ->
             {Row(0, IF s \in address THEN {<<"address_book_entries", 0>>} ELSE {})}
      [] t = "uploaded_assets" -> {Row(k, {}) : k \in 1..upload[s]}
      [] t = "import_batches" -> {Row(k, {<<"uploaded_assets", k>>}) : k \in 1..upload[s]}
      [] t = "backup_runs" -> {Row(r.no, {}) : r \in {q \in run : q.scope = s}}
      [] t = "recovery_drill_runs" ->
             {Row(d.no, {<<"backup_runs", d.run>>}) : d \in {e \in drill : e.scope = s}}

\* Faulty variant of RestoreOrder: an order comes before its address.
OrdersFirst == <<
    "users", "recommendation_configs", "orders", "address_book_entries",
    "uploaded_assets", "import_batches", "backup_runs", "recovery_drill_runs">>

RestoreOrder == <<
    "users", "recommendation_configs", "address_book_entries", "orders",
    "uploaded_assets", "import_batches", "backup_runs", "recovery_drill_runs">>

\* Every row finds what it refers to among the rows restored before it.
Restores(payload) ==
    \A k \in DOMAIN RestoreOrder :
        \A row \in payload[RestoreOrder[k]] : \A ref \in row.refs :
            \E j \in 1..(k - 1) :
                RestoreOrder[j] = ref[1] /\ \E r \in payload[ref[1]] : r.id = ref[2]

-----------------------------------------------------------------------------
NoJob ==
    [task |-> "none", scope |-> None, stage |-> "none", group |-> 0, payload |-> << >>,
     no |-> 0, name |-> << >>, copy |-> FALSE, flushed |-> {}, todo |-> {}, today |-> 0,
     status |-> "none"]

Free(a) == job[a] = NoJob
Becomes(a, j) == job' = [job EXCEPT ![a] = j]

Init ==
    /\ now = 0
    /\ editor = [c \in Configs |-> None]
    /\ address = Scopes
    /\ upload = [s \in Scopes |-> 0]
    /\ changes = 0
    /\ run = {}
    /\ drill = {}
    /\ audit = {}
    /\ file = [n \in Names |-> 0]
    /\ offline = [n \in Names |-> 0]
    /\ taken = << >>
    /\ job = [a \in Actors |-> NoJob]

RunsOf(s) == {r \in run : r.scope = s}

-----------------------------------------------------------------------------
(* run_backup_for_scope.                                                   *)

MayBegin(s) ==
    Cardinality({k \in DOMAIN taken : taken[k].scope = s})
        + Cardinality({a \in Actors : job[a].stage = "read" /\ job[a].scope = s})
            < MaxBackups[s]

Begun(j, s, copy) ==
    [j EXCEPT !.scope = s, !.stage = "read", !.group = 1, !.payload = << >>, !.copy = copy]

\* _backup_payload_for_scope, one group of tables.
ReadTables(a) ==
    LET j == job[a]
    IN  /\ j.stage = "read"
        /\ j.group \in DOMAIN ReadGroups
        /\ Becomes(a, [j EXCEPT !.group = @ + 1,
                                !.payload = @ @@ [t \in ReadGroups[j.group] |->
                                                      Selected(t, j.scope)]])
        /\ UNCHANGED <<now, db, run, drill, audit, file, offline, taken>>

\* Faulty variant of FileName: the file is named by the second alone.
FileNameWithoutScope(s) == <<CHOOSE x \in Scopes : TRUE, now>>

FileName(s) == <<s, now>>

\* The artifact is written, over whatever had its name.
WriteArtifact(a) ==
    LET j  == job[a]
        no == Len(taken) + 1
    IN  /\ j.stage = "read"
        /\ j.group \notin DOMAIN ReadGroups
        /\ file' = [file EXCEPT ![FileName(j.scope)] = no]
        /\ taken' = Append(taken,
             [scope    |-> j.scope,
              restores |-> Restores(j.payload),
              torn     |-> \E t \in Tables : j.payload[t] # Selected(t, j.scope),
              foreign  |-> EditedElsewhere(j.scope)])
        /\ Becomes(a, [j EXCEPT !.stage = "copy", !.group = 0, !.payload = << >>,
                                !.no = no, !.name = FileName(j.scope)])
        /\ UNCHANGED <<now, db, run, drill, audit, offline>>

\* The copy is verified against the bytes that were written, and the row of
\* backup_runs is flushed.
CopyArtifact(a) ==
    LET j == job[a]
        r == [no |-> j.no, scope |-> j.scope, task |-> j.task, name |-> j.name, at |-> now,
              verified |-> j.copy /\ file[j.name] = j.no]
    IN  /\ j.stage = "copy"
        /\ offline' = IF j.copy THEN [offline EXCEPT ![j.name] = file[j.name]] ELSE offline
        /\ Becomes(a, [j EXCEPT !.stage = CASE j.task = "manual"  -> "commit"
                                            [] j.task = "nightly" -> "loop"
                                            [] j.task = "drill"   -> "restore",
                                !.flushed = @ \cup {r}, !.copy = FALSE])
        /\ UNCHANGED <<now, db, run, drill, audit, file, taken>>

\* trigger_backup_run.
TriggerBackup(w, s) ==
    /\ Free(w)
    /\ MayBegin(s)
    /\ Cardinality({r \in run : r.task = "manual"}) < MaxManual
    /\ \E copy \in BOOLEAN : Becomes(w, Begun([NoJob EXCEPT !.task = "manual"], s, copy))
    /\ UNCHANGED <<now, db, run, drill, audit, file, offline, taken>>

\* The audit events of requests are in their transactions.
Audited(runs) == {[about |-> <<"run", r.no>>, at |-> now] : r \in runs}

CommitBackup(w) ==
    /\ job[w].stage = "commit"
    /\ run' = run \cup job[w].flushed
    /\ audit' = audit \cup Audited(job[w].flushed)
    /\ Becomes(w, NoJob)
    /\ UNCHANGED <<now, db, drill, file, offline, taken>>

-----------------------------------------------------------------------------
(* run_nightly_backups_if_due, when an API process starts.                 *)

StartNightly(p) ==
    /\ Free(p)
    /\ now % SecondsPerDay >= NightlyFrom
    /\ Becomes(p, [NoJob EXCEPT !.task = "nightly", !.stage = "loop", !.todo = Scopes,
                                !.today = Day(now)])
    /\ UNCHANGED <<now, db, run, drill, audit, file, offline, taken>>

\* Faulty variant of NightlyDone: any backup of the day will do if it is verified.
NightlyDoneIfVerified(s, today) ==
    \E r \in RunsOf(s) : r.verified /\ r.task = "nightly" /\ Day(r.at) = today

\* The latest nightly run of the scope is of today.
NightlyDone(s, today) ==
    LET nightly == {r \in RunsOf(s) : r.task = "nightly"}
    IN  \E r \in nightly : Day(r.at) = today /\ \A q \in nightly : q.at <= r.at

NextScope(p, s) ==
    LET j == [job[p] EXCEPT !.todo = @ \ {s}]
    IN  /\ job[p].stage = "loop"
        /\ s \in job[p].todo
        /\ IF NightlyDone(s, j.today) THEN Becomes(p, j)
           ELSE MayBegin(s) /\ Becomes(p, Begun(j, s, TRUE))
        /\ UNCHANGED <<now, db, run, drill, audit, file, offline, taken>>

\* One commit for all scopes.
CommitNightly(p) ==
    /\ job[p].stage = "loop"
    /\ job[p].todo = {}
    /\ run' = run \cup job[p].flushed
    /\ Becomes(p, NoJob)
    /\ UNCHANGED <<now, db, drill, audit, file, offline, taken>>

-----------------------------------------------------------------------------
(* Recovery drills.                                                        *)

\* create_recovery_drill_run: a drill of the run the request names, or of the
\* latest; a snapshot is taken first if the scope has none.
StartDrill(w, s) ==
    LET j == [NoJob EXCEPT !.task = "drill", !.scope = s]
    IN  /\ Free(w)
        /\ Cardinality(drill) + Cardinality({a \in Actors : job[a].task = "drill"}) < MaxDrills
        /\ IF RunsOf(s) = {} THEN MayBegin(s) /\ Becomes(w, Begun(j, s, FALSE))
           ELSE \E r \in RunsOf(s) :
                    Becomes(w, [j EXCEPT !.stage = "restore", !.no = r.no, !.name = r.name])
        /\ UNCHANGED <<now, db, run, drill, audit, file, offline, taken>>

\* Faulty variant of Verified: the checksum is not compared.
VerifiedIfReadable(no, name) == file[name] \notin {0, Damaged}

\* _load_and_verify_backup_payload: the file exists, can be decrypted and has
\* the digest of the run.
Verified(no, name) == file[name] = no

\* Faulty variant of FinalStatus: the status of the restore is taken.
FinalStatusOfRestore(declared, restored) == IF restored THEN "completed" ELSE "failed"

\* _finalize_recovery_drill_status.
FinalStatus(declared, restored) ==
    IF ~restored THEN "failed" ELSE declared

\* run_recovery_drill_restore; any failure makes the drill a failed one, and so
\* does the operator (who may also call it inconclusive, which is not passed).
RestoreBackup(w) ==
    LET j == job[w]
        restored == Verified(j.no, j.name) /\ taken[file[j.name]].restores
    IN  /\ j.stage = "restore"
        /\ \E declared \in {"passed", "failed"} :
             Becomes(w, [j EXCEPT !.stage = "record", !.status = FinalStatus(declared, restored)])
        /\ UNCHANGED <<now, db, run, drill, audit, file, offline, taken>>

CommitDrill(w) ==
    LET j  == job[w]
        no == Cardinality(drill) + 1
    IN  /\ j.stage = "record"
        /\ run' = run \cup j.flushed
        /\ drill' = drill \cup {[no |-> no, scope |-> j.scope, run |-> j.no,
                                 status |-> j.status, at |-> now]}
        /\ audit' = audit \cup Audited(j.flushed) \cup {[about |-> <<"drill", no>>, at |-> now]}
        /\ Becomes(w, NoJob)
        /\ UNCHANGED <<now, db, file, offline, taken>>

\* An exception, or a crash of the process: the transaction is rolled back, the
\* files stay.
Abort(a) ==
    /\ ~Free(a)
    /\ Becomes(a, NoJob)
    /\ UNCHANGED <<now, db, run, drill, audit, file, offline, taken>>

-----------------------------------------------------------------------------
(* Retention, and the age of drills.                                       *)

\* Faulty variant of Expired: an event goes on its last day.
ExpiredOnLastDay(event) == event.at + Retention <= now

Expired(event) == event.at + Retention < now

\* prune_audit_events_for_retention, operations_compliance_job.
PruneAudit ==
    /\ \E e \in audit : Expired(e)
    /\ audit' = {e \in audit : ~Expired(e)}
    /\ UNCHANGED <<now, db, run, drill, file, offline, taken, job>>

\* Faulty variant of DrillCurrent: the day a drill is due is late already.
DrillCurrentBefore(d) == now < d.at + Interval

\* evaluate_recovery_drill_compliance, of one drill.
DrillCurrent(d) == now <= d.at + Interval

\* get_operations_status: only the latest drill counts.
ScopeCurrent(s) ==
    LET drills == {d \in drill : d.scope = s}
    IN  \E d \in drills : DrillCurrent(d) /\ \A e \in drills : e.at <= d.at

\* count_overdue_recovery_drill_scopes, and the worker's query.
OverdueScopes ==
    {s \in Scopes : ~\E d \in drill : d.scope = s /\ d.at + Interval >= now}

-----------------------------------------------------------------------------
(* Others: requests that commit meanwhile, time, and the disk.             *)

Change == changes < MaxChanges /\ changes' = changes + 1

\* upsert_recommendation_config, in a scope the user is a member of.
EditConfig(c, u) ==
    /\ Change
    /\ \E s \in Covers[c] : u \in Members[s]
    /\ editor' = [editor EXCEPT ![c] = u]
    /\ UNCHANGED <<now, address, upload, run, drill, audit, file, offline, taken, job>>

DeleteAddress(s) ==
    /\ Change
    /\ s \in address
    /\ address' = address \ {s}
    /\ UNCHANGED <<now, editor, upload, run, drill, audit, file, offline, taken, job>>

UploadBatch(s) ==
    /\ Change
    /\ upload' = [upload EXCEPT ![s] = @ + 1]
    /\ UNCHANGED <<now, editor, address, run, drill, audit, file, offline, taken, job>>

Damage(n) ==
    /\ Change
    /\ file[n] \notin {0, Damaged}
    /\ file' = [file EXCEPT ![n] = Damaged]
    /\ UNCHANGED <<now, editor, address, upload, run, drill, audit, offline, taken, job>>

Tick ==
    /\ now < MaxNow
    /\ now' = now + 1
    /\ UNCHANGED <<db, run, drill, audit, file, offline, taken, job>>

Backup(a) == ReadTables(a) \/ WriteArtifact(a) \/ CopyArtifact(a) \/ Abort(a)

Request(w) ==
    \/ \E s \in Busy : TriggerBackup(w, s) \/ StartDrill(w, s)
    \/ CommitBackup(w) \/ RestoreBackup(w) \/ CommitDrill(w)

Nightly(p) ==
    \/ StartNightly(p) \/ CommitNightly(p)
    \/ \E s \in Scopes : NextScope(p, s)

Others ==
    \/ \E c \in Configs, u \in Editors : EditConfig(c, u)
    \/ \E s \in Busy : DeleteAddress(s) \/ UploadBatch(s)
    \/ \E n \in Names : Damage(n)

Next ==
    \/ \E a \in Actors : Backup(a)
    \/ \E w \in Threads : Request(w)
    \/ \E p \in Processes : Nightly(p)
    \/ Others \/ PruneAudit \/ Tick

Spec == Init /\ [][Next]_vars

-----------------------------------------------------------------------------
(* Properties.                                                             *)

\* Every column, file and job holds a value of its kind.
TypeOK ==
    /\ now \in 0..MaxNow
    /\ editor \in [Configs -> Users \cup {None}]
    /\ address \subseteq Scopes
    /\ upload \in [Scopes -> 0..MaxChanges]
    /\ changes \in 0..MaxChanges
    /\ \A r \in run : r.no \in DOMAIN taken /\ r.scope \in Scopes /\ r.at \in 0..now
    /\ \A d \in drill :
           /\ d.run \in DOMAIN taken
           /\ d.status \in {"passed", "failed"}
           /\ d.at \in 0..now
    /\ \A n \in Names : file[n] \in DOMAIN taken \cup {0, Damaged}
    /\ \A n \in Names : offline[n] \in DOMAIN taken \cup {0, Damaged}
    /\ \A s \in Scopes :
           Cardinality({k \in DOMAIN taken : taken[k].scope = s}) <= MaxBackups[s]
    /\ \A a \in Actors : job[a].no \in 0..Len(taken)

\* Whatever crashes between the file and the commit, a row of backup_runs has its
\* artifact, on the offline medium too if the copy was verified.  Only damage, or
\* a backup of the same scope in the same second, takes it away.
Keeps(medium, r) ==
    /\ medium[r.name] # 0
    /\ medium[r.name] # Damaged => taken[medium[r.name]].scope = r.scope

RunsKeepTheirArtifact ==
    \A r \in run : Keeps(file, r) /\ (r.verified => Keeps(offline, r))

\* A drill that passed shows that the payload of its run can be restored, however
\* the file was overwritten or damaged since the backup.
PassedDrillRestored ==
    \A d \in drill :
        d.status = "passed" =>
            /\ taken[d.run].restores
            /\ \E r \in run : r.no = d.run /\ r.scope = d.scope

\* A payload that cannot be restored was read while something was committed, or
\* has a configuration of the program or the organization from a user of another
\* scope.
UnrestorableExplained ==
    \A k \in DOMAIN taken : ~taken[k].restores => taken[k].torn \/ taken[k].foreign

\* Whether a backup can be restored is what its drills say, and when it cannot
\* there is a reason: the drill reads the file back through its digest, so no
\* overwritten or damaged artifact passes, and a payload is only ever broken by
\* what was committed while it was read, or by a configuration it shares with
\* other scopes (run_recovery_drill, _backup_payload_for_scope).
DrillsTellTheTruth == PassedDrillRestored /\ UnrestorableExplained

\* One API process starts at a time: it may crash and start again at any time,
\* and makes one nightly run for each scope and day (design.md 10).
OneNightlyPerDay ==
    \A q, r \in run :
        q.task = "nightly" /\ r.task = "nightly" /\ q.scope = r.scope
            /\ Day(q.at) = Day(r.at) => q = r

\* The status page, the startup check and the worker agree on whose drill is due.
OverdueAgrees == \A s \in Scopes : ScopeCurrent(s) <=> s \notin OverdueScopes

\* Runs and drills made by requests keep their audit event for the whole
\* retention period.
AuditTrailKept ==
    /\ \A r \in run :
         r.task # "nightly" /\ now <= r.at + Retention =>
             \E e \in audit : e.about = <<"run", r.no>>
    /\ \A d \in drill :
         now <= d.at + Retention => \E e \in audit : e.about = <<"drill", d.no>>
=============================================================================
