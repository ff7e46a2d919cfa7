---------------------------- MODULE BackupProofs ----------------------------
(***************************************************************************)
(* Theorems about BackupOps, for any number of scopes, threads and         *)
(* processes, however their steps interleave with damage, pruning and the  *)
(* clock; only what is said of nightly runs needs one process at a time.   *)
(***************************************************************************)
EXTENDS BackupOps, FiniteSetTheorems, WellFoundedInduction, TLAPS

\* What is true of a job at every stage: the runs it has flushed are of its own
\* kind and not from the future, and only the nightly gate loops.
JobSane(j) ==
    /\ DOMAIN j = DOMAIN NoJob
    /\ \A r \in j.flushed : r.at \in Nat /\ r.at <= now /\ r.task = j.task
    /\ j = NoJob \/ j.task \in {"manual", "nightly", "drill"}
    /\ j.stage = "loop" => j.task = "nightly"

JobsSane ==
    /\ DOMAIN job = Actors
    /\ \A a \in Actors : JobSane(job[a])

\* The event about a row is not older than the row.
Recorded(kind, row) ==
    now <= row.at + Retention =>
        \E e \in audit : e.about = <<kind, row.no>> /\ row.at <= e.at

Trail ==
    /\ \A r \in run : r.task # "nightly" => Recorded("run", r)
    /\ \A d \in drill : Recorded("drill", d)

Times ==
    /\ now \in Nat
    /\ \A e \in audit : e.at \in Nat
    /\ \A r \in run : r.at \in Nat
    /\ \A d \in drill : d.at \in Nat

TrailInv == Times /\ JobsSane /\ Trail
-----------------------------------------------------------------------------
LEMMA RetentionIsNat == Retention \in Nat
  BY TimeAssumption DEF TimeAssumption

LEMMA NoJobSane == JobSane(NoJob)
  BY DEF JobSane, NoJob

LEMMA InitTrail == Init => TrailInv
  <1> SUFFICES ASSUME Init PROVE TrailInv
    OBVIOUS
  <1>1. now = 0 /\ run = {} /\ drill = {} /\ audit = {}
    BY DEF Init
  <1>2. JobSane(NoJob)
    BY NoJobSane
  <1>3. JobsSane
    BY <1>2 DEF Init, JobsSane
  <1> QED
    BY <1>1, <1>3 DEF TrailInv, Times, Trail

\* An actor's job moves on, the clock does not.
LEMMA JobMoves ==
    ASSUME JobsSane, now' = now, NEW a \in Actors, NEW j, Becomes(a, j), JobSane(j)
    PROVE  JobsSane'
  BY DEF JobsSane, JobSane, Becomes

\* Events are added, and each new row comes with its own.
LEMMA TrailGrows ==
    ASSUME Trail, now' = now, audit \subseteq audit',
           \A r \in run' : r \notin run => (r.task # "nightly" => Recorded("run", r)'),
           \A d \in drill' : d \notin drill => Recorded("drill", d)'
    PROVE  Trail'
  BY DEF Trail, Recorded

\* Steps that only move a job.
Rows == <<now, run, drill, audit>>

LEMMA OnlyJobMoves ==
    ASSUME TrailInv, UNCHANGED Rows, NEW a \in Actors, NEW j, Becomes(a, j), JobSane(j)
    PROVE  TrailInv'
  <1>1. JobsSane'
    BY JobMoves DEF TrailInv, Rows
  <1>2. Times' /\ Trail'
    BY DEF TrailInv, Times, Trail, Recorded, Rows
  <1> QED
    BY <1>1, <1>2 DEF TrailInv

-----------------------------------------------------------------------------
LEMMA BackupTrail ==
    ASSUME TrailInv, NEW a \in Actors, Backup(a)
    PROVE  TrailInv'
  <1> DEFINE j == job[a]
  <1>1. JobSane(j) /\ now \in Nat
    BY DEF TrailInv, JobsSane, Times
  <1>2. CASE ReadTables(a)
    <2> DEFINE k == [j EXCEPT !.group = @ + 1,
                              !.payload = @ @@ [t \in ReadGroups[j.group] |->
                                                   Selected(t, j.scope)]]
    <2>1. Becomes(a, k) /\ UNCHANGED Rows
      BY <1>2, Zenon DEF ReadTables, Rows
    <2>2. j.task \in {"manual", "nightly", "drill"}
      BY <1>1, <1>2 DEF ReadTables, JobSane, NoJob
    <2>3. JobSane(k)
      BY <1>1, <2>2 DEF JobSane, NoJob
    <2> QED
      BY <2>1, <2>3, OnlyJobMoves
  <1>3. CASE WriteArtifact(a)
    <2> DEFINE k == [j EXCEPT !.stage = "copy", !.group = 0, !.payload = << >>,
                              !.no = Len(taken) + 1, !.name = FileName(j.scope)]
    <2>1. Becomes(a, k) /\ UNCHANGED Rows
      BY <1>3, Zenon DEF WriteArtifact, Rows
    <2>2. j.task \in {"manual", "nightly", "drill"}
      BY <1>1, <1>3 DEF WriteArtifact, JobSane, NoJob
    <2>3. JobSane(k)
      BY <1>1, <2>2 DEF JobSane, NoJob
    <2> QED
      BY <2>1, <2>3, OnlyJobMoves
  <1>4. CASE CopyArtifact(a)
    <2> DEFINE r == [no |-> j.no, scope |-> j.scope, task |-> j.task, name |-> j.name,
                     at |-> now, verified |-> j.copy /\ file[j.name] = j.no]
               stage == CASE j.task = "manual"  -> "commit"
                          [] j.task = "nightly" -> "loop"
                          [] j.task = "drill"   -> "restore"
               k == [j EXCEPT !.stage = stage, !.flushed = @ \cup {r}, !.copy = FALSE]
    <2>1. Becomes(a, k) /\ UNCHANGED Rows
      BY <1>4, Zenon DEF CopyArtifact, Rows
    <2>2. r.at = now /\ r.task = j.task
      OBVIOUS
    <2>3. j.task \in {"manual", "nightly", "drill"}
      BY <1>1, <1>4 DEF CopyArtifact, JobSane, NoJob
    <2>4. stage = "loop" => j.task = "nightly"
      BY <2>3
    <2> HIDE DEF r, stage
    <2>5. JobSane(k)
      BY <1>1, <2>2, <2>3, <2>4 DEF JobSane, NoJob
    <2> QED
      BY <2>1, <2>5, OnlyJobMoves
  <1>5. CASE Abort(a)
    BY <1>5, NoJobSane, OnlyJobMoves DEF Abort, Rows
  <1> QED
    BY <1>2, <1>3, <1>4, <1>5 DEF Backup

LEMMA RequestTrail ==
    ASSUME TrailInv, NEW w \in Threads, Request(w)
    PROVE  TrailInv'
  <1> DEFINE j == job[w]
  <1>1. w \in Actors /\ JobSane(j) /\ JobsSane /\ now \in Nat
    BY DEF TrailInv, JobsSane, Times, Actors
  <1>2. ASSUME NEW s \in Busy, TriggerBackup(w, s)
        PROVE  TrailInv'
    <2>1. PICK copy \in BOOLEAN :
              Becomes(w, Begun([NoJob EXCEPT !.task = "manual"], s, copy))
      BY <1>2 DEF TriggerBackup
    <2>2. UNCHANGED Rows
      BY <1>2 DEF TriggerBackup, Rows
    <2>3. JobSane(Begun([NoJob EXCEPT !.task = "manual"], s, copy))
      BY DEF JobSane, NoJob, Begun
    <2> QED
      BY <1>1, <2>1, <2>2, <2>3, OnlyJobMoves
  <1>3. ASSUME NEW s \in Busy, StartDrill(w, s)
        PROVE  TrailInv'
    <2> DEFINE d == [NoJob EXCEPT !.task = "drill", !.scope = s]
    <2>1. UNCHANGED Rows
      BY <1>3 DEF StartDrill, Rows
    <2>2. CASE Becomes(w, Begun(d, s, FALSE))
      <3>1. JobSane(Begun(d, s, FALSE))
        BY DEF JobSane, NoJob, Begun
      <3> QED
        BY <1>1, <2>1, <2>2, <3>1, OnlyJobMoves
    <2>3. ASSUME NEW r \in RunsOf(s),
                 Becomes(w, [d EXCEPT !.stage = "restore", !.no = r.no, !.name = r.name])
          PROVE  TrailInv'
      <3>1. JobSane([d EXCEPT !.stage = "restore", !.no = r.no, !.name = r.name])
        BY DEF JobSane, NoJob
      <3> QED
        BY <1>1, <2>1, <2>3, <3>1, OnlyJobMoves
    <2> QED
      BY <1>3, <2>2, <2>3 DEF StartDrill
  <1>4. CASE CommitBackup(w)
    <2>1. /\ now' = now /\ drill' = drill
          /\ run' = run \cup j.flushed
          /\ audit' = audit \cup Audited(j.flushed)
          /\ Becomes(w, NoJob)
      BY <1>4 DEF CommitBackup
    <2>2. JobsSane'
      BY <1>1, <2>1, NoJobSane, JobMoves
    <2>3. Times'
      BY <1>1, <2>1 DEF TrailInv, Times, JobSane, Audited
    <2>4. ASSUME NEW r \in j.flushed
          PROVE  Recorded("run", r)'
      <3> DEFINE e == [about |-> <<"run", r.no>>, at |-> now]
      <3>1. e \in audit' /\ e.about = <<"run", r.no>> /\ e.at = now
        BY <2>1, <2>4 DEF Audited
      <3>2. r.at <= now
        BY <1>1, <2>4 DEF JobSane
      <3> QED
        BY <3>1, <3>2 DEF Recorded
    <2>5. Trail'
      BY <2>1, <2>4, TrailGrows DEF TrailInv
    <2> QED
      BY <2>2, <2>3, <2>5 DEF TrailInv
  <1>5. CASE RestoreBackup(w)
    <2>1. PICK status : Becomes(w, [j EXCEPT !.stage = "record", !.status = status])
      BY <1>5, Zenon DEF RestoreBackup
    <2>2. UNCHANGED Rows
      BY <1>5, Zenon DEF RestoreBackup, Rows
    <2>3. j.task \in {"manual", "nightly", "drill"}
      BY <1>1, <1>5 DEF RestoreBackup, JobSane, NoJob
    <2>4. JobSane([j EXCEPT !.stage = "record", !.status = status])
      BY <1>1, <2>3 DEF JobSane, NoJob
    <2> QED
      BY <1>1, <2>1, <2>2, <2>4, OnlyJobMoves
  <1>6. CASE CommitDrill(w)
    <2> DEFINE no == Cardinality(drill) + 1
    <2>1. PICK d, e :
            /\ d = [no |-> no, scope |-> j.scope, run |-> j.no, status |-> j.status,
                    at |-> now]
            /\ e = [about |-> <<"drill", no>>, at |-> now]
            /\ now' = now
            /\ run' = run \cup j.flushed
            /\ drill' = drill \cup {d}
            /\ audit' = audit \cup Audited(j.flushed) \cup {e}
            /\ Becomes(w, NoJob)
      BY <1>6 DEF CommitDrill
    <2>2. JobsSane'
      BY <1>1, <2>1, NoJobSane, JobMoves
    <2>3. Times'
      BY <1>1, <2>1 DEF TrailInv, Times, JobSane, Audited
    <2>4. ASSUME NEW r \in j.flushed
          PROVE  Recorded("run", r)'
      <3> DEFINE f == [about |-> <<"run", r.no>>, at |-> now]
      <3>1. f \in audit' /\ f.about = <<"run", r.no>> /\ f.at = now
        BY <2>1, <2>4 DEF Audited
      <3>2. r.at <= now
        BY <1>1, <2>4 DEF JobSane
      <3> QED
        BY <3>1, <3>2 DEF Recorded
    <2>5. Recorded("drill", d)'
      <3>1. e \in audit' /\ e.about = <<"drill", d.no>> /\ e.at = now /\ d.at = now
        BY <2>1
      <3> QED
        BY <1>1, <3>1 DEF Recorded
    <2>6. Trail'
      BY <2>1, <2>4, <2>5, TrailGrows DEF TrailInv
    <2> QED
      BY <2>2, <2>3, <2>6 DEF TrailInv
  <1> QED
    BY <1>2, <1>3, <1>4, <1>5, <1>6 DEF Request

LEMMA NightlyTrail ==
    ASSUME TrailInv, NEW p \in Processes, Nightly(p)
    PROVE  TrailInv'
  <1> DEFINE j == job[p]
  <1>1. p \in Actors /\ JobSane(j) /\ JobsSane /\ now \in Nat
    BY DEF TrailInv, JobsSane, Times, Actors
  <1>2. CASE StartNightly(p)
    <2> DEFINE k == [NoJob EXCEPT !.task = "nightly", !.stage = "loop", !.todo = Scopes,
                                  !.today = Day(now)]
    <2>1. Becomes(p, k) /\ UNCHANGED Rows
      BY <1>2, Zenon DEF StartNightly, Rows
    <2>2. JobSane(k)
      BY DEF JobSane, NoJob
    <2> QED
      BY <1>1, <2>1, <2>2, OnlyJobMoves
  <1>3. ASSUME NEW s \in Scopes, NextScope(p, s)
        PROVE  TrailInv'
    <2> DEFINE k == [j EXCEPT !.todo = @ \ {s}]
    <2>1. UNCHANGED Rows /\ (Becomes(p, k) \/ Becomes(p, Begun(k, s, TRUE)))
      BY <1>3, Zenon DEF NextScope, Rows
    <2>2. j.task = "nightly"
      BY <1>1, <1>3 DEF NextScope, JobSane
    <2>3. JobSane(k) /\ JobSane(Begun(k, s, TRUE))
      BY <1>1, <2>2 DEF JobSane, NoJob, Begun
    <2> QED
      BY <1>1, <2>1, <2>3, OnlyJobMoves
  <1>4. CASE CommitNightly(p)
    <2>1. /\ now' = now /\ drill' = drill /\ audit' = audit
          /\ run' = run \cup j.flushed
          /\ Becomes(p, NoJob)
          /\ j.stage = "loop"
      BY <1>4 DEF CommitNightly
    <2>2. JobsSane'
      BY <1>1, <2>1, NoJobSane, JobMoves
    <2>3. Times'
      BY <1>1, <2>1 DEF TrailInv, Times, JobSane
    <2>4. \A r \in j.flushed : r.task = "nightly"
      BY <1>1, <2>1 DEF JobSane
    <2>5. Trail'
      BY <2>1, <2>4, TrailGrows DEF TrailInv
    <2> QED
      BY <2>2, <2>3, <2>5 DEF TrailInv
  <1> QED
    BY <1>2, <1>3, <1>4 DEF Nightly

\* An event at least as old as a row that must keep one has not expired.
LEMMA PruneTrail ==
    ASSUME TrailInv, PruneAudit
    PROVE  TrailInv'
  <1>1. now' = now /\ run' = run /\ drill' = drill /\ job' = job
    BY DEF PruneAudit
  <1>2. audit' = {e \in audit : ~Expired(e)}
    BY DEF PruneAudit
  <1>3. JobsSane' /\ Times'
    BY <1>1, <1>2 DEF TrailInv, JobsSane, JobSane, Times
  <1>4. ASSUME NEW kind, NEW row, row.at \in Nat, Recorded(kind, row)
        PROVE  Recorded(kind, row)'
    <2> SUFFICES ASSUME now <= row.at + Retention
                 PROVE  \E e \in audit' : e.about = <<kind, row.no>> /\ row.at <= e.at
      BY <1>1 DEF Recorded
    <2>1. PICK e \in audit : e.about = <<kind, row.no>> /\ row.at <= e.at
      BY <1>4 DEF Recorded
    <2>2. ~(e.at + Retention < now)
      BY <1>4, <2>1, RetentionIsNat DEF TrailInv, Times
    <2> QED
      BY <1>2, <2>1, <2>2 DEF Expired
  <1>5. Trail'
    BY <1>1, <1>4 DEF TrailInv, Trail, Times
  <1> QED
    BY <1>3, <1>5 DEF TrailInv

LEMMA TickTrail ==
    ASSUME TrailInv, Tick
    PROVE  TrailInv'
  <1>1. now' = now + 1 /\ now \in Nat
    BY DEF Tick, TrailInv, Times
  <1>2. run' = run /\ drill' = drill /\ audit' = audit /\ job' = job
    BY DEF Tick
  <1>3. JobsSane' /\ Times'
    BY <1>1, <1>2 DEF TrailInv, JobsSane, JobSane, Times
  <1>4. ASSUME NEW kind, NEW row, row.at \in Nat, Recorded(kind, row)
        PROVE  Recorded(kind, row)'
    BY <1>1, <1>2, <1>4, RetentionIsNat DEF Recorded
  <1>5. Trail'
    BY <1>2, <1>4 DEF TrailInv, Trail, Times
  <1> QED
    BY <1>3, <1>5 DEF TrailInv

LEMMA QuietTrail ==
    ASSUME TrailInv, UNCHANGED <<Rows, job>>
    PROVE  TrailInv'
  BY DEF TrailInv, JobsSane, JobSane, Times, Trail, Recorded, Rows

LEMMA NextTrail == TrailInv /\ [Next]_vars => TrailInv'
  <1> SUFFICES ASSUME TrailInv, [Next]_vars PROVE TrailInv'
    OBVIOUS
  <1>1. CASE \E a \in Actors : Backup(a)
    BY <1>1, BackupTrail
  <1>2. CASE \E w \in Threads : Request(w)
    BY <1>2, RequestTrail
  <1>3. CASE \E p \in Processes : Nightly(p)
    BY <1>3, NightlyTrail
  <1>4. CASE Others
    BY <1>4, QuietTrail DEF Others, EditConfig, DeleteAddress, UploadBatch, Damage, Rows
  <1>5. CASE PruneAudit
    BY <1>5, PruneTrail
  <1>6. CASE Tick
    BY <1>6, TickTrail
  <1>7. CASE UNCHANGED vars
    BY <1>7, QuietTrail DEF vars, Rows
  <1> QED
    BY <1>1, <1>2, <1>3, <1>4, <1>5, <1>6, <1>7 DEF Next

-----------------------------------------------------------------------------
\* However backups, drills, crashes, pruning and the clock interleave, a run or a
\* drill made by a request has its audit event until the retention has passed
\* (prune_audit_events_for_retention beside trigger_backup_run and
\* create_recovery_drill_run).
THEOREM AuditTrailSafe == Spec => []AuditTrailKept
  <1>1. TrailInv => AuditTrailKept
    BY DEF TrailInv, Trail, Recorded, AuditTrailKept
  <1> QED
    BY <1>1, InitTrail, NextTrail, PTL DEF Spec

-----------------------------------------------------------------------------
(* The artifact of a run, and what a drill says of it.                     *)

\* A medium holds, under the name of a scope, payloads of that scope only.
MediumTrue(medium) ==
    /\ DOMAIN medium = Names
    /\ \A n \in Names :
        /\ medium[n] \in DOMAIN taken \cup {0, Damaged}
        /\ medium[n] \in DOMAIN taken => taken[medium[n]].scope = n[1]

\* A run, committed or only flushed, has its payload and its files.
RunTrue(r) ==
    /\ r.no \in DOMAIN taken /\ r.scope \in Scopes /\ r.at \in 0..now
    /\ r.name \in Names /\ r.name[1] = r.scope
    /\ file[r.name] # 0
    /\ r.verified => offline[r.name] # 0

RunOf(no, s, runs) == \E r \in runs : r.no = no /\ r.scope = s

\* A job that reads has a scope; one that copies has written its file; one that
\* drills has the run it drills, and passes it only if it can be restored.
JobTrue(j) ==
    /\ j.stage \in {"none", "read", "copy", "commit", "loop", "restore", "record"}
    /\ j.stage \in {"read", "copy"} => j.scope \in Scopes
    /\ j.stage = "copy" => /\ j.no \in DOMAIN taken /\ j.name \in Names
                           /\ j.name[1] = j.scope /\ file[j.name] # 0
    /\ j.no \in 0..Len(taken)
    /\ j.todo \subseteq Scopes
    /\ \A r \in j.flushed : RunTrue(r)
    /\ j.stage \in {"restore", "record"} => RunOf(j.no, j.scope, run \cup j.flushed)
    /\ j.stage = "record" => /\ j.status \in {"passed", "failed"}
                             /\ j.status = "passed" => taken[j.no].restores

DrillTrue(d) ==
    /\ d.status \in {"passed", "failed"}
    /\ d.at \in 0..now
    /\ RunOf(d.run, d.scope, run)
    /\ d.status = "passed" => taken[d.run].restores

Payload == [scope : Scopes, restores : BOOLEAN, torn : BOOLEAN, foreign : BOOLEAN]

ArtifactInv ==
    /\ now \in 0..MaxNow
    /\ taken \in Seq(Payload)
    /\ MediumTrue(file) /\ MediumTrue(offline)
    /\ DOMAIN job = Actors
    /\ \A a \in Actors : DOMAIN job[a] = DOMAIN NoJob /\ JobTrue(job[a])
    /\ \A r \in run : RunTrue(r)
    /\ \A d \in drill : DrillTrue(d)
    /\ UnrestorableExplained

\* What no step takes back: time, payloads, runs, and that there is a file.
Grows ==
    /\ now <= now' /\ now' \in 0..MaxNow
    /\ taken' \in Seq(Payload)
    /\ Len(taken) <= Len(taken')
    /\ \A k \in DOMAIN taken : taken'[k] = taken[k]
    /\ run \subseteq run'
    /\ \A n \in Names : /\ file[n] # 0 => file'[n] # 0
                        /\ offline[n] # 0 => offline'[n] # 0

LEMMA NowTyped ==
    ASSUME ArtifactInv
    PROVE  now \in Nat /\ MaxNow \in Nat /\ now \in 0..MaxNow /\ now <= MaxNow
  BY TimeAssumption DEF ArtifactInv

LEMMA TakenLasts ==
    ASSUME ArtifactInv, Grows
    PROVE  /\ Len(taken) \in Nat /\ Len(taken') \in Nat
           /\ DOMAIN taken = 1..Len(taken) /\ DOMAIN taken' = 1..Len(taken')
           /\ DOMAIN taken \subseteq DOMAIN taken'
  BY DEF ArtifactInv, Grows

LEMMA RunLasts ==
    ASSUME ArtifactInv, Grows, NEW r, RunTrue(r)
    PROVE  RunTrue(r)'
  <1>1. r.at \in 0..now'
    BY NowTyped DEF Grows, RunTrue
  <1> QED
    BY <1>1, TakenLasts DEF Grows, RunTrue

LEMMA JobLasts ==
    ASSUME ArtifactInv, Grows, NEW j, JobTrue(j)
    PROVE  JobTrue(j)'
  <1>1. \A r \in j.flushed : RunTrue(r)'
    BY RunLasts DEF JobTrue
  <1>2. j.stage = "copy" => j.no \in DOMAIN taken' /\ file'[j.name] # 0
    BY TakenLasts DEF JobTrue, Grows
  <1>3. j.no \in 0..Len(taken')
    BY TakenLasts DEF JobTrue, Grows
  <1>4. j.stage \in {"restore", "record"} => RunOf(j.no, j.scope, run' \cup j.flushed)
    BY DEF JobTrue, Grows, RunOf
  <1>5. ASSUME j.stage = "record", j.status = "passed"
        PROVE  taken'[j.no].restores
    <2>1. PICK r \in run \cup j.flushed : r.no = j.no
      BY <1>5 DEF JobTrue, RunOf
    <2>2. r.no \in DOMAIN taken
      BY <2>1 DEF ArtifactInv, JobTrue, RunTrue
    <2> QED
      BY <1>5, <2>1, <2>2 DEF JobTrue, Grows
  <1> QED
    BY <1>1, <1>2, <1>3, <1>4, <1>5 DEF JobTrue

LEMMA DrillLasts ==
    ASSUME ArtifactInv, Grows, NEW d, DrillTrue(d)
    PROVE  DrillTrue(d)'
  <1>1. PICK r \in run : r.no = d.run /\ r.scope = d.scope
    BY DEF DrillTrue, RunOf
  <1>2. r.no \in DOMAIN taken /\ r \in run'
    BY <1>1 DEF ArtifactInv, RunTrue, Grows
  <1>3. d.at \in 0..now'
    BY NowTyped DEF DrillTrue, Grows
  <1> QED
    BY <1>1, <1>2, <1>3 DEF DrillTrue, RunOf, Grows

\* What a step must show beyond what lasts: its new rows and its new job.
LEMMA StepKeepsArtifacts ==
    ASSUME ArtifactInv, Grows, MediumTrue(file)', MediumTrue(offline)',
           UnrestorableExplained',
           NEW a \in Actors, NEW k, Becomes(a, k), DOMAIN k = DOMAIN NoJob, JobTrue(k)',
           \A r \in run' : r \notin run => RunTrue(r)',
           \A d \in drill' : d \notin drill => DrillTrue(d)'
    PROVE  ArtifactInv'
  <1>1. \A r \in run' : RunTrue(r)'
    BY RunLasts DEF ArtifactInv
  <1>2. \A d \in drill' : DrillTrue(d)'
    BY DrillLasts DEF ArtifactInv
  <1>3. ASSUME NEW b \in Actors
        PROVE  (DOMAIN job[b] = DOMAIN NoJob /\ JobTrue(job[b]))'
    <2>1. CASE b = a
      <3>1. job'[b] = k
        BY <2>1 DEF Becomes, ArtifactInv
      <3> QED
        BY <3>1 DEF JobTrue
    <2>2. CASE b # a
      <3>1. PICK j : j = job[b]
        OBVIOUS
      <3>2. job'[b] = j
        BY <2>2, <3>1 DEF Becomes, ArtifactInv
      <3>3. DOMAIN j = DOMAIN NoJob /\ JobTrue(j)
        BY <3>1 DEF ArtifactInv
      <3>4. JobTrue(j)'
        BY <3>3, JobLasts
      <3> QED
        BY <3>2, <3>3, <3>4 DEF JobTrue
    <2> QED
      BY <2>1, <2>2
  <1>4. DOMAIN job' = Actors
    BY DEF ArtifactInv, Becomes
  <1> QED
    BY <1>1, <1>2, <1>3, <1>4 DEF ArtifactInv, Grows

\* A step that leaves time, files and payloads alone.
Still == UNCHANGED <<now, file, offline, taken>>

LEMMA StillGrows ==
    ASSUME ArtifactInv, Still, run \subseteq run'
    PROVE  /\ Grows /\ MediumTrue(file)' /\ MediumTrue(offline)'
           /\ UnrestorableExplained'
  <1>1. now' = now /\ file' = file /\ offline' = offline /\ taken' = taken
    BY DEF Still
  <1> QED
    BY <1>1, NowTyped DEF ArtifactInv, Grows, MediumTrue, UnrestorableExplained

LEMMA NoJobTrue ==
    ASSUME ArtifactInv
    PROVE  JobTrue(NoJob) /\ DOMAIN NoJob = DOMAIN NoJob
  BY DEF ArtifactInv, JobTrue, NoJob

\* A job that moves on without a commit.
LEMMA JobStep ==
    ASSUME ArtifactInv, Still, UNCHANGED <<run, drill>>,
           NEW a \in Actors, NEW k, Becomes(a, k), DOMAIN k = DOMAIN NoJob, JobTrue(k)
    PROVE  ArtifactInv'
  <1>1. Grows /\ MediumTrue(file)' /\ MediumTrue(offline)' /\ UnrestorableExplained'
    BY StillGrows
  <1>2. JobTrue(k)'
    BY <1>1, JobLasts
  <1> QED
    BY <1>1, <1>2, StepKeepsArtifacts

-----------------------------------------------------------------------------
\* Rows read in one go, with nothing committed in between, find what they refer
\* to: the drills of a scope are drills of its runs, and editors who belong to
\* the scope are among its users.
LEMMA UntornRestores ==
    ASSUME ArtifactInv, NEW s \in Scopes, NEW payload,
           \A t \in Tables : payload[t] = Selected(t, s),
           ~ EditedElsewhere(s)
    PROVE  Restores(payload)
  <1> DEFINE from == RestoreOrder
  <1>1. /\ DOMAIN from = 1..8
        /\ from[1] = "users" /\ from[2] = "recommendation_configs"
        /\ from[3] = "address_book_entries" /\ from[4] = "orders"
        /\ from[5] = "uploaded_assets" /\ from[6] = "import_batches"
        /\ from[7] = "backup_runs" /\ from[8] = "recovery_drill_runs"
    BY DEF RestoreOrder
  <1>2. Tables = {"users", "recommendation_configs", "address_book_entries", "orders",
                  "uploaded_assets", "import_batches", "backup_runs",
                  "recovery_drill_runs"}
    BY DEF Tables, ReadGroups
  <1>3. /\ Selected("users", s) = {Row(u, {}) : u \in Members[s]}
        /\ Selected("recommendation_configs", s) =
             {Row(c, {<<"users", editor[c]>>}) : c \in ConfigsOf(s)}
        /\ Selected("address_book_entries", s) = IF s \in address THEN {Row(0, {})} ELSE {}
        /\ Selected("orders", s) =
             {Row(0, IF s \in address THEN {<<"address_book_entries", 0>>} ELSE {})}
        /\ Selected("uploaded_assets", s) = {Row(k, {}) : k \in 1..upload[s]}
        /\ Selected("import_batches", s) =
             {Row(k, {<<"uploaded_assets", k>>}) : k \in 1..upload[s]}
        /\ Selected("backup_runs", s) = {Row(r.no, {}) : r \in {q \in run : q.scope = s}}
        /\ Selected("recovery_drill_runs", s) =
             {Row(d.no, {<<"backup_runs", d.run>>}) : d \in {e \in drill : e.scope = s}}
    BY DEF Selected
  <1>4. SUFFICES ASSUME NEW k \in 1..8, NEW row \in payload[from[k]], NEW ref \in row.refs
                 PROVE  \E j \in 1..(k - 1) :
                            from[j] = ref[1] /\ \E r \in payload[ref[1]] : r.id = ref[2]
    BY <1>1 DEF Restores
  <1>5. row \in Selected(from[k], s)
    BY <1>1, <1>2
  <1>6. CASE k \in {1, 3, 5, 7}
    BY <1>1, <1>3, <1>5, <1>6 DEF Row
  <1>7. CASE k = 2
    <2>1. PICK c \in ConfigsOf(s) : row = Row(c, {<<"users", editor[c]>>})
      BY <1>1, <1>3, <1>5, <1>7
    <2>2. ref = <<"users", editor[c]>> /\ editor[c] \in Members[s]
      BY <2>1 DEF Row, EditedElsewhere
    <2>3. Row(editor[c], {}) \in payload["users"] /\ Row(editor[c], {}).id = editor[c]
      BY <1>2, <1>3, <2>2 DEF Row
    <2>4. from[1] = ref[1] /\ payload[ref[1]] = payload["users"] /\ ref[2] = editor[c]
      BY <1>1, <2>2
    <2> QED
      BY <1>7, <2>3, <2>4
  <1>8. CASE k = 4
    <2>1. s \in address /\ ref = <<"address_book_entries", 0>>
      BY <1>1, <1>3, <1>5, <1>8 DEF Row
    <2>2. Row(0, {}) \in payload["address_book_entries"] /\ Row(0, {}).id = 0
      BY <1>2, <1>3, <2>1 DEF Row
    <2>3. from[3] = ref[1] /\ payload[ref[1]] = payload["address_book_entries"]
          /\ ref[2] = 0
      BY <1>1, <2>1
    <2> QED
      BY <1>8, <2>2, <2>3
  <1>9. CASE k = 6
    <2>1. PICK i \in 1..upload[s] : row = Row(i, {<<"uploaded_assets", i>>})
      BY <1>1, <1>3, <1>5, <1>9
    <2>2. ref = <<"uploaded_assets", i>>
      BY <2>1 DEF Row
    <2>3. Row(i, {}) \in payload["uploaded_assets"] /\ Row(i, {}).id = i
      BY <1>2, <1>3 DEF Row
    <2>4. from[5] = ref[1] /\ payload[ref[1]] = payload["uploaded_assets"] /\ ref[2] = i
      BY <1>1, <2>2
    <2> QED
      BY <1>9, <2>3, <2>4
  <1>10. CASE k = 8
    <2>1. PICK d \in drill : d.scope = s /\ row = Row(d.no, {<<"backup_runs", d.run>>})
      BY <1>1, <1>3, <1>5, <1>10
    <2>2. ref = <<"backup_runs", d.run>>
      BY <2>1 DEF Row
    <2>3. PICK q \in run : q.no = d.run /\ q.scope = s
      BY <2>1 DEF ArtifactInv, DrillTrue, RunOf
    <2>4. Row(q.no, {}) \in payload["backup_runs"] /\ Row(q.no, {}).id = d.run
      BY <1>2, <1>3, <2>3 DEF Row
    <2>5. from[7] = ref[1] /\ payload[ref[1]] = payload["backup_runs"] /\ ref[2] = d.run
      BY <1>1, <2>2
    <2> QED
      BY <1>10, <2>4, <2>5
  <1> QED
    BY <1>6, <1>7, <1>8, <1>9, <1>10

-----------------------------------------------------------------------------
LEMMA BackupArtifacts ==
    ASSUME ArtifactInv, TrailInv, NEW a \in Actors, Backup(a)
    PROVE  ArtifactInv'
  <1>1. PICK j : j = job[a]
    OBVIOUS
  <1>2. JobTrue(j) /\ DOMAIN j = DOMAIN NoJob /\ JobSane(j)
    BY <1>1 DEF ArtifactInv, TrailInv, JobsSane
  <1>3. CASE ReadTables(a)
    <2>1. PICK k : k = [j EXCEPT !.group = @ + 1,
                                 !.payload = @ @@ [t \in ReadGroups[j.group] |->
                                                      Selected(t, j.scope)]]
      OBVIOUS
    <2>2. Becomes(a, k) /\ Still /\ UNCHANGED <<run, drill>>
      BY <1>1, <1>3, <2>1, Zenon DEF ReadTables, Still
    <2>3. DOMAIN k = DOMAIN NoJob /\ JobTrue(k)
      BY <1>2, <2>1 DEF JobTrue, NoJob
    <2> QED
      BY <2>2, <2>3, JobStep
  <1>4. CASE WriteArtifact(a)
    <2> DEFINE no == Len(taken) + 1
               name == FileName(j.scope)
    <2>1. PICK entry : entry = [scope    |-> j.scope,
                                restores |-> Restores(j.payload),
                                torn     |-> \E t \in Tables :
                                                 j.payload[t] # Selected(t, j.scope),
                                foreign  |-> EditedElsewhere(j.scope)]
      OBVIOUS
    <2>2. PICK k : k = [j EXCEPT !.stage = "copy", !.group = 0, !.payload = << >>,
                                 !.no = no, !.name = name]
      OBVIOUS
    <2>3. /\ j.stage = "read" /\ Becomes(a, k) /\ UNCHANGED <<now, run, drill, offline>>
          /\ taken' = Append(taken, entry)
          /\ file' = [file EXCEPT ![name] = no]
      BY <1>1, <1>4, <2>1, <2>2, Zenon DEF WriteArtifact
    <2>4. j.scope \in Scopes /\ name \in Names /\ name[1] = j.scope
      BY <1>2, <2>3, NowTyped DEF JobTrue, FileName, Names
    <2>5. entry \in Payload
      <3>1. /\ Restores(j.payload) \in BOOLEAN
            /\ (\E t \in Tables : j.payload[t] # Selected(t, j.scope)) \in BOOLEAN
            /\ EditedElsewhere(j.scope) \in BOOLEAN
        BY Zenon DEF Restores, EditedElsewhere
      <3> QED
        BY <2>1, <2>4, <3>1, Zenon DEF Payload
    <2>6. /\ taken \in Seq(Payload) /\ taken' \in Seq(Payload)
          /\ Len(taken) \in Nat /\ Len(taken') = no
          /\ taken'[no] = entry /\ no # 0 /\ no \in DOMAIN taken'
          /\ \A m \in DOMAIN taken : taken'[m] = taken[m] /\ m \in DOMAIN taken' /\ m # no
      BY <2>3, <2>5 DEF ArtifactInv
    <2>7. Grows
      BY <2>3, <2>4, <2>6, NowTyped DEF ArtifactInv, MediumTrue, Grows
    <2>8. entry.scope = j.scope
      BY <2>1
    <2>9. MediumTrue(file)'
      <3>1. DOMAIN file' = Names /\ file'[name] = no
        BY <2>3, <2>4 DEF ArtifactInv, MediumTrue
      <3>2. ASSUME NEW n \in Names
            PROVE  /\ file'[n] \in DOMAIN taken' \cup {0, Damaged}
                   /\ file'[n] \in DOMAIN taken' => taken'[file'[n]].scope = n[1]
        <4>1. CASE n = name
          BY <2>4, <2>6, <2>8, <3>1, <4>1
        <4>2. CASE n # name
          <5>1. file'[n] = file[n]
            BY <2>3, <4>2 DEF ArtifactInv, MediumTrue
          <5>2. /\ file[n] \in DOMAIN taken \cup {0, Damaged}
                /\ file[n] \in DOMAIN taken => taken[file[n]].scope = n[1]
            BY DEF ArtifactInv, MediumTrue
          <5>3. 0 \notin DOMAIN taken' /\ Damaged \notin DOMAIN taken'
            BY <2>6, DamagedAssumption
          <5> QED
            BY <2>6, <5>1, <5>2, <5>3
        <4> QED
          BY <4>1, <4>2
      <3> QED
        BY <3>1, <3>2 DEF MediumTrue
    <2>10. MediumTrue(offline)'
      <3>1. offline' = offline /\ DOMAIN offline = Names
        BY <2>3 DEF ArtifactInv, MediumTrue
      <3>2. ASSUME NEW n \in Names
            PROVE  /\ offline[n] \in DOMAIN taken' \cup {0, Damaged}
                   /\ offline[n] \in DOMAIN taken' => taken'[offline[n]].scope = n[1]
        <4>1. /\ offline[n] \in DOMAIN taken \cup {0, Damaged}
              /\ offline[n] \in DOMAIN taken => taken[offline[n]].scope = n[1]
          BY DEF ArtifactInv, MediumTrue
        <4>2. 0 \notin DOMAIN taken' /\ Damaged \notin DOMAIN taken'
          BY <2>6, DamagedAssumption
        <4> QED
          BY <2>6, <4>1, <4>2
      <3> QED
        BY <3>1, <3>2 DEF MediumTrue
    <2>11. UnrestorableExplained'
      <3>1. ~ entry.restores => entry.torn \/ entry.foreign
        <4>1. Restores(j.payload) \/ (\E t \in Tables : j.payload[t] # Selected(t, j.scope))
              \/ EditedElsewhere(j.scope)
          BY <2>4, UntornRestores
        <4>2. /\ entry.restores = Restores(j.payload)
              /\ entry.torn = (\E t \in Tables : j.payload[t] # Selected(t, j.scope))
              /\ entry.foreign = EditedElsewhere(j.scope)
          BY <2>1, Zenon
        <4> QED
          BY <4>1, <4>2, Zenon
      <3>2. ASSUME NEW m \in DOMAIN taken', ~ taken'[m].restores
            PROVE  taken'[m].torn \/ taken'[m].foreign
        <4>1. CASE m = no
          BY <2>6, <3>1, <3>2, <4>1, Zenon
        <4>2. CASE m # no
          <5>1. m \in DOMAIN taken
            BY <2>6, <4>2
          <5> QED
            BY <2>6, <3>2, <5>1, Zenon DEF ArtifactInv, UnrestorableExplained
        <4> QED
          BY <4>1, <4>2
      <3> QED
        BY <3>2, Zenon DEF UnrestorableExplained
    <2>12. DOMAIN k = DOMAIN NoJob /\ JobTrue(k)'
      <3>1. DOMAIN k = DOMAIN NoJob
        BY <1>2, <2>2
      <3>2. /\ k.stage = "copy" /\ k.no = no /\ k.name = name /\ k.scope = j.scope
            /\ k.flushed = j.flushed /\ k.todo = j.todo
        BY <1>2, <2>2 DEF NoJob
      <3>3. file'[name] # 0 /\ no \in 0..Len(taken')
        BY <2>3, <2>4, <2>6 DEF ArtifactInv, MediumTrue
      <3>4. JobTrue(j)'
        BY <1>2, <2>7, JobLasts
      <3> QED
        BY <2>4, <2>6, <3>1, <3>2, <3>3, <3>4 DEF JobTrue
    <2> QED
      BY <2>3, <2>7, <2>9, <2>10, <2>11, <2>12, StepKeepsArtifacts
  <1>5. CASE CopyArtifact(a)
    <2>1. PICK r : r = [no |-> j.no, scope |-> j.scope, task |-> j.task, name |-> j.name,
                        at |-> now, verified |-> j.copy /\ file[j.name] = j.no]
      OBVIOUS
    <2>2. PICK stage : stage = CASE j.task = "manual"  -> "commit"
                                 [] j.task = "nightly" -> "loop"
                                 [] j.task = "drill"   -> "restore"
      OBVIOUS
    <2>3. PICK k : k = [j EXCEPT !.stage = stage, !.flushed = @ \cup {r}, !.copy = FALSE]
      OBVIOUS
    <2>4. /\ j.stage = "copy" /\ Becomes(a, k) /\ UNCHANGED <<now, run, drill, file, taken>>
          /\ offline' = IF j.copy THEN [offline EXCEPT ![j.name] = file[j.name]] ELSE offline
      BY <1>1, <1>5, <2>1, <2>2, <2>3, Zenon DEF CopyArtifact
    <2>5. /\ j.scope \in Scopes /\ j.no \in DOMAIN taken /\ j.name \in Names
          /\ j.name[1] = j.scope /\ file[j.name] # 0
      BY <1>2, <2>4 DEF JobTrue
    <2>6. /\ DOMAIN offline' = Names
          /\ j.copy => offline'[j.name] = file[j.name]
          /\ \A n \in Names : offline'[n] = offline[n] \/ (n = j.name /\ offline'[n] = file[n])
      <3>1. DOMAIN offline = Names
        BY DEF ArtifactInv, MediumTrue
      <3>2. CASE j.copy
        BY <2>4, <2>5, <3>1, <3>2
      <3>3. CASE ~ j.copy
        BY <2>4, <3>1, <3>3
      <3> QED
        BY <3>2, <3>3
    <2>7. Grows
      BY <2>4, <2>5, <2>6, NowTyped DEF ArtifactInv, Grows
    <2>8. MediumTrue(file)' /\ MediumTrue(offline)'
      BY <2>4, <2>6 DEF ArtifactInv, MediumTrue
    <2>9. UnrestorableExplained'
      BY <2>4 DEF ArtifactInv, UnrestorableExplained
    <2>10. RunTrue(r)'
      <3>1. /\ r.no = j.no /\ r.scope = j.scope /\ r.name = j.name /\ r.at = now
            /\ r.verified => j.copy
        BY <2>1, Zenon
      <3> QED
        BY <2>4, <2>5, <2>6, <3>1, NowTyped DEF RunTrue
    <2>11. stage \in {"commit", "loop", "restore"}
      BY <1>2, <2>2, <2>4 DEF JobSane, NoJob
    <2>12. DOMAIN k = DOMAIN NoJob /\ JobTrue(k)'
      <3>1. /\ k.stage = stage /\ k.no = j.no /\ k.scope = j.scope /\ k.todo = j.todo
            /\ k.flushed = j.flushed \cup {r} /\ DOMAIN k = DOMAIN NoJob
        BY <1>2, <2>3 DEF NoJob
      <3>2. JobTrue(j)'
        BY <1>2, <2>7, JobLasts
      <3>3. RunOf(k.no, k.scope, run' \cup k.flushed)
        <4>1. r \in run' \cup k.flushed /\ r.no = k.no /\ r.scope = k.scope
          BY <2>1, <3>1
        <4> QED
          BY <4>1 DEF RunOf
      <3> QED
        BY <2>10, <2>11, <3>1, <3>2, <3>3 DEF JobTrue
    <2> QED
      BY <2>4, <2>7, <2>8, <2>9, <2>12, StepKeepsArtifacts
  <1>6. CASE Abort(a)
    BY <1>6, NoJobTrue, JobStep DEF Abort, Still
  <1> QED
    BY <1>3, <1>4, <1>5, <1>6 DEF Backup

LEMMA RequestArtifacts ==
    ASSUME ArtifactInv, TrailInv, NEW w \in Threads, Request(w)
    PROVE  ArtifactInv'
  <1>1. PICK j : j = job[w]
    OBVIOUS
  <1>2. w \in Actors /\ JobTrue(j) /\ DOMAIN j = DOMAIN NoJob
    BY <1>1 DEF ArtifactInv, Actors
  <1>3. ASSUME NEW s \in Scopes, NEW copy \in BOOLEAN, NEW task, NEW k,
               k = Begun([NoJob EXCEPT !.task = task], s, copy)
               \/ k = Begun([NoJob EXCEPT !.task = task, !.scope = s], s, copy)
        PROVE  JobTrue(k) /\ DOMAIN k = DOMAIN NoJob
    BY <1>3, NoJobTrue DEF JobTrue, Begun, NoJob
  <1>4. ASSUME NEW s \in Busy, TriggerBackup(w, s)
        PROVE  ArtifactInv'
    <2>1. PICK copy, k :
              /\ copy \in BOOLEAN
              /\ k = Begun([NoJob EXCEPT !.task = "manual"], s, copy)
              /\ Becomes(w, k)
      BY <1>4 DEF TriggerBackup
    <2>2. Still /\ UNCHANGED <<run, drill>> /\ s \in Scopes
      BY <1>4, ScopeAssumption DEF TriggerBackup, Still
    <2> QED
      BY <1>2, <1>3, <2>1, <2>2, JobStep
  <1>5. ASSUME NEW s \in Busy, StartDrill(w, s)
        PROVE  ArtifactInv'
    <2>1. PICK d : d = [NoJob EXCEPT !.task = "drill", !.scope = s]
      OBVIOUS
    <2>2. Still /\ UNCHANGED <<run, drill>> /\ s \in Scopes
      BY <1>5, ScopeAssumption DEF StartDrill, Still
    <2>3. ASSUME NEW k, k = Begun(d, s, FALSE), Becomes(w, k)
          PROVE  ArtifactInv'
      BY <1>2, <1>3, <2>1, <2>2, <2>3, JobStep
    <2>4. ASSUME NEW r \in RunsOf(s), NEW k,
                 k = [d EXCEPT !.stage = "restore", !.no = r.no, !.name = r.name],
                 Becomes(w, k)
          PROVE  ArtifactInv'
      <3>1. r \in run /\ r.scope = s /\ r.no \in 0..Len(taken)
        BY DEF RunsOf, ArtifactInv, RunTrue
      <3>2. RunOf(r.no, s, run \cup {})
        BY <3>1 DEF RunOf
      <3>3. /\ k.stage = "restore" /\ k.no = r.no /\ k.scope = s /\ k.flushed = {}
            /\ k.todo = {} /\ DOMAIN k = DOMAIN NoJob
        BY <2>1, <2>4 DEF NoJob
      <3>4. JobTrue(k)
        BY <3>1, <3>2, <3>3 DEF JobTrue
      <3> QED
        BY <1>2, <2>2, <2>4, <3>3, <3>4, JobStep
    <2> QED
      BY <1>5, <2>1, <2>3, <2>4 DEF StartDrill
  <1>6. CASE CommitBackup(w)
    <2>1. /\ Still /\ drill' = drill /\ run' = run \cup j.flushed /\ Becomes(w, NoJob)
      BY <1>1, <1>6 DEF CommitBackup, Still
    <2>2. /\ Grows /\ MediumTrue(file)' /\ MediumTrue(offline)'
          /\ UnrestorableExplained'
      BY <2>1, StillGrows
    <2>3. \A r \in j.flushed : RunTrue(r)'
      BY <1>2, <2>2, RunLasts DEF JobTrue
    <2>4. JobTrue(NoJob)'
      BY <2>2, NoJobTrue, JobLasts
    <2> QED
      BY <1>2, <2>1, <2>2, <2>3, <2>4, StepKeepsArtifacts
  <1>7. CASE RestoreBackup(w)
    <2>1. PICK declared, restored, k :
              /\ declared \in {"passed", "failed"} /\ restored \in BOOLEAN
              /\ restored = (Verified(j.no, j.name) /\ taken[file[j.name]].restores)
              /\ k = [j EXCEPT !.stage = "record", !.status = FinalStatus(declared, restored)]
              /\ Becomes(w, k)
      BY <1>1, <1>7, Zenon DEF RestoreBackup
    <2>2. j.stage = "restore" /\ Still /\ UNCHANGED <<run, drill>>
      BY <1>1, <1>7, Zenon DEF RestoreBackup, Still
    <2>3. restored => taken[j.no].restores
      BY <2>1, Zenon DEF Verified
    <2>4. PICK status : status = FinalStatus(declared, restored)
      OBVIOUS
    <2>5. status \in {"passed", "failed"} /\ (status = "passed" => restored)
      BY <2>1, <2>4 DEF FinalStatus
    <2>6. /\ k.stage = "record" /\ k.no = j.no /\ k.scope = j.scope /\ k.status = status
          /\ k.flushed = j.flushed /\ k.todo = j.todo /\ DOMAIN k = DOMAIN NoJob
      BY <1>2, <2>1, <2>4 DEF NoJob
    <2>7. JobTrue(k)
      BY <1>2, <2>2, <2>3, <2>5, <2>6 DEF JobTrue
    <2> QED
      BY <1>2, <2>1, <2>2, <2>6, <2>7, JobStep
  <1>8. CASE CommitDrill(w)
    <2>1. PICK d : d = [no |-> Cardinality(drill) + 1, scope |-> j.scope, run |-> j.no,
                        status |-> j.status, at |-> now]
      OBVIOUS
    <2>2. /\ j.stage = "record" /\ Still /\ drill' = drill \cup {d}
          /\ run' = run \cup j.flushed /\ Becomes(w, NoJob)
      BY <1>1, <1>8, <2>1, Zenon DEF CommitDrill, Still
    <2>3. /\ Grows /\ MediumTrue(file)' /\ MediumTrue(offline)'
          /\ UnrestorableExplained'
      BY <2>2, StillGrows
    <2>4. \A r \in j.flushed : RunTrue(r)'
      BY <1>2, <2>3, RunLasts DEF JobTrue
    <2>5. JobTrue(NoJob)'
      BY <2>3, NoJobTrue, JobLasts
    <2>6. DrillTrue(d)'
      <3>1. d.run = j.no /\ d.scope = j.scope /\ d.status = j.status /\ d.at = now
        BY <2>1
      <3>2. RunOf(j.no, j.scope, run')
        BY <1>2, <2>2 DEF JobTrue
      <3>3. now' = now /\ taken' = taken /\ now \in 0..now'
        BY <2>2, NowTyped DEF Still
      <3> QED
        BY <1>2, <2>2, <3>1, <3>2, <3>3 DEF JobTrue, DrillTrue
    <2> QED
      BY <1>2, <2>2, <2>3, <2>4, <2>5, <2>6, StepKeepsArtifacts
  <1> QED
    BY <1>4, <1>5, <1>6, <1>7, <1>8 DEF Request

LEMMA NightlyArtifacts ==
    ASSUME ArtifactInv, TrailInv, NEW p \in Processes, Nightly(p)
    PROVE  ArtifactInv'
  <1>1. PICK j : j = job[p]
    OBVIOUS
  <1>2. p \in Actors /\ JobTrue(j) /\ DOMAIN j = DOMAIN NoJob
    BY <1>1 DEF ArtifactInv, Actors
  <1>3. CASE StartNightly(p)
    <2>1. PICK k : k = [NoJob EXCEPT !.task = "nightly", !.stage = "loop", !.todo = Scopes,
                                     !.today = Day(now)]
      OBVIOUS
    <2>2. Becomes(p, k) /\ Still /\ UNCHANGED <<run, drill>>
      BY <1>3, <2>1, Zenon DEF StartNightly, Still
    <2>3. JobTrue(k) /\ DOMAIN k = DOMAIN NoJob
      BY <2>1, NoJobTrue DEF JobTrue, NoJob
    <2> QED
      BY <1>2, <2>2, <2>3, JobStep
  <1>4. ASSUME NEW s \in Scopes, NextScope(p, s)
        PROVE  ArtifactInv'
    <2>1. PICK k : k = [j EXCEPT !.todo = @ \ {s}]
      OBVIOUS
    <2>2. PICK b : b = Begun(k, s, TRUE)
      OBVIOUS
    <2>3. Still /\ UNCHANGED <<run, drill>> /\ (Becomes(p, k) \/ Becomes(p, b))
      BY <1>1, <1>4, <2>1, <2>2, Zenon DEF NextScope, Still
    <2>4. JobTrue(k) /\ DOMAIN k = DOMAIN NoJob
      BY <1>2, <2>1 DEF JobTrue, NoJob
    <2>5. JobTrue(b) /\ DOMAIN b = DOMAIN NoJob
      BY <2>2, <2>4 DEF JobTrue, NoJob, Begun
    <2> QED
      BY <1>2, <2>3, <2>4, <2>5, JobStep
  <1>5. CASE CommitNightly(p)
    <2>1. /\ Still /\ drill' = drill /\ run' = run \cup j.flushed /\ Becomes(p, NoJob)
      BY <1>1, <1>5 DEF CommitNightly, Still
    <2>2. /\ Grows /\ MediumTrue(file)' /\ MediumTrue(offline)'
          /\ UnrestorableExplained'
      BY <2>1, StillGrows
    <2>3. \A r \in j.flushed : RunTrue(r)'
      BY <1>2, <2>2, RunLasts DEF JobTrue
    <2>4. JobTrue(NoJob)'
      BY <2>2, NoJobTrue, JobLasts
    <2> QED
      BY <1>2, <2>1, <2>2, <2>3, <2>4, StepKeepsArtifacts
  <1> QED
    BY <1>3, <1>4, <1>5 DEF Nightly

\* A step of the disk, of the clock, or of tables no artifact refers to.
LEMMA OutsideKeepsArtifacts ==
    ASSUME ArtifactInv, UNCHANGED <<run, drill, job, offline, taken>>,
           now' \in 0..MaxNow, now <= now',
           file' = file \/ \E n \in Names : file' = [file EXCEPT ![n] = Damaged]
    PROVE  ArtifactInv'
  <1>1. \A n \in Names : file'[n] = file[n] \/ file'[n] = Damaged
    BY DEF ArtifactInv, MediumTrue
  <1>2. Damaged # 0
    BY DamagedAssumption
  <1>3. Grows
    BY <1>1, <1>2 DEF ArtifactInv, Grows
  <1>4. MediumTrue(file)' /\ MediumTrue(offline)' /\ UnrestorableExplained'
    <2>1. DOMAIN file' = Names /\ Damaged \notin DOMAIN taken
      BY DamagedAssumption DEF ArtifactInv, MediumTrue
    <2> QED
      BY <1>1, <2>1 DEF ArtifactInv, MediumTrue, UnrestorableExplained
  <1>5. ASSUME NEW a \in Actors
        PROVE  (DOMAIN job[a] = DOMAIN NoJob /\ JobTrue(job[a]))'
    <2>1. PICK j : j = job[a]
      OBVIOUS
    <2>2. DOMAIN j = DOMAIN NoJob /\ JobTrue(j) /\ job'[a] = j
      BY <2>1 DEF ArtifactInv
    <2>3. JobTrue(j)'
      BY <1>3, <2>2, JobLasts
    <2> QED
      BY <2>2, <2>3 DEF JobTrue
  <1>6. (\A r \in run' : RunTrue(r)') /\ (\A d \in drill' : DrillTrue(d)')
    BY <1>3, RunLasts, DrillLasts DEF ArtifactInv
  <1> QED
    BY <1>3, <1>4, <1>5, <1>6 DEF ArtifactInv, Grows

LEMMA InitArtifacts == Init => ArtifactInv
  <1> SUFFICES ASSUME Init PROVE ArtifactInv
    OBVIOUS
  <1>1. taken = << >> /\ taken \in Seq(Payload) /\ DOMAIN taken = {} /\ Len(taken) = 0
    BY DEF Init
  <1>2. MediumTrue(file) /\ MediumTrue(offline)
    BY <1>1 DEF Init, MediumTrue
  <1>3. \A a \in Actors : DOMAIN job[a] = DOMAIN NoJob /\ JobTrue(job[a])
    BY <1>1 DEF Init, JobTrue, NoJob
  <1> QED
    BY <1>1, <1>2, <1>3, TimeAssumption DEF Init, ArtifactInv, UnrestorableExplained

LEMMA NextArtifacts == TrailInv /\ ArtifactInv /\ [Next]_vars => ArtifactInv'
  <1> SUFFICES ASSUME TrailInv, ArtifactInv, [Next]_vars PROVE ArtifactInv'
    OBVIOUS
  <1>1. CASE \E a \in Actors : Backup(a)
    BY <1>1, BackupArtifacts
  <1>2. CASE \E w \in Threads : Request(w)
    BY <1>2, RequestArtifacts
  <1>3. CASE \E p \in Processes : Nightly(p)
    BY <1>3, NightlyArtifacts
  <1>4. CASE Others
    BY <1>4, NowTyped, OutsideKeepsArtifacts
       DEF Others, EditConfig, DeleteAddress, UploadBatch, Damage
  <1>5. CASE PruneAudit
    BY <1>5, NowTyped, OutsideKeepsArtifacts DEF PruneAudit
  <1>6. CASE Tick
    BY <1>6, NowTyped, OutsideKeepsArtifacts DEF Tick
  <1>7. CASE UNCHANGED vars
    BY <1>7, NowTyped, OutsideKeepsArtifacts DEF vars
  <1> QED
    BY <1>1, <1>2, <1>3, <1>4, <1>5, <1>6, <1>7 DEF Next

LEMMA ArtifactsInvariant == Spec => [](TrailInv /\ ArtifactInv)
  BY InitTrail, NextTrail, InitArtifacts, NextArtifacts, PTL DEF Spec

-----------------------------------------------------------------------------
\* However backups of any number of scopes, crashes, damage to files and the
\* clock interleave, every row of backup_runs has a file of its own scope behind
\* it, damaged at worst, and a copy if it says that one was verified
\* (run_backup_for_scope, which writes the file before the row).
THEOREM ArtifactsSafe == Spec => []RunsKeepTheirArtifact
  <1>1. ArtifactInv => RunsKeepTheirArtifact
    <2> SUFFICES ASSUME ArtifactInv, NEW r \in run
                 PROVE  Keeps(file, r) /\ (r.verified => Keeps(offline, r))
      BY DEF RunsKeepTheirArtifact
    <2>1. RunTrue(r) /\ MediumTrue(file) /\ MediumTrue(offline)
      BY DEF ArtifactInv
    <2>2. Keeps(file, r)
      BY <2>1 DEF RunTrue, MediumTrue, Keeps
    <2>3. r.verified => Keeps(offline, r)
      BY <2>1 DEF RunTrue, MediumTrue, Keeps
    <2> QED
      BY <2>2, <2>3
  <1> QED
    BY <1>1, ArtifactsInvariant, PTL

\* A drill passes only a payload that can be restored, of a run that was
\* committed with it or before; and a payload that cannot be restored was torn
\* by a commit between its reads or holds a configuration edited elsewhere
\* (run_recovery_drill_restore, _backup_payload_for_scope).
THEOREM DrillsSafe == Spec => []DrillsTellTheTruth
  <1>1. ArtifactInv => DrillsTellTheTruth
    BY DEF ArtifactInv, DrillTrue, RunOf, DrillsTellTheTruth, PassedDrillRestored
  <1> QED
    BY <1>1, ArtifactsInvariant, PTL

-----------------------------------------------------------------------------
(* Whose drill is due.                                                     *)

\* A set of numbers that is not empty and bounded has a largest one.
LEMMA LargestExists ==
    ASSUME NEW bound \in Nat, NEW S \in SUBSET (0..bound), S # {}
    PROVE  \E m \in S : \A x \in S : x <= m
  <1> DEFINE below == {bound - x : x \in S}
  <1>1. below \subseteq Nat /\ below # {}
    <2>1. \A x \in S : bound - x \in Nat
      OBVIOUS
    <2>2. PICK x : x \in S
      OBVIOUS
    <2> QED
      BY <2>1, <2>2
  <1>2. PICK least \in below : \A y \in below : ~ (<<y, least>> \in OpToRel(<, Nat))
    BY <1>1, WFMin, NatLessThanWellFounded
  <1>3. least \in below
    BY <1>2
  <1>4. PICK m \in S : least = bound - m
    BY <1>3
  <1>5. ASSUME NEW x \in S
        PROVE  x <= m
    <2>1. bound - x \in below /\ bound - x \in Nat /\ least \in Nat
      BY <1>1
    <2>2. ~ (bound - x < least)
      BY <1>2, <2>1 DEF OpToRel
    <2> QED
      BY <1>4, <2>2
  <1> QED
    BY <1>5

\* The status page asks the latest drill of a scope, the startup check and the
\* worker any of them: they never disagree, since the latest is current when any
\* is (get_operations_status, count_overdue_recovery_drill_scopes).
THEOREM OverdueSafe == Spec => []OverdueAgrees
  <1>1. ArtifactInv => OverdueAgrees
    <2> SUFFICES ASSUME ArtifactInv, NEW s \in Scopes
                 PROVE  ScopeCurrent(s) <=> s \notin OverdueScopes
      BY DEF OverdueAgrees
    <2> DEFINE drills == {d \in drill : d.scope = s}
    <2>1. now \in Nat /\ Interval \in Nat /\ \A d \in drill : d.at \in 0..now
      BY NowTyped, TimeAssumption DEF ArtifactInv, DrillTrue
    <2>2. ASSUME ScopeCurrent(s)
          PROVE  s \notin OverdueScopes
      <3>1. PICK d \in drill : d.scope = s /\ DrillCurrent(d)
        BY <2>2 DEF ScopeCurrent
      <3>2. d.at + Interval >= now
        BY <2>1, <3>1 DEF DrillCurrent
      <3> QED
        BY <3>1, <3>2 DEF OverdueScopes
    <2>3. ASSUME s \notin OverdueScopes
          PROVE  ScopeCurrent(s)
      <3>1. PICK d \in drill : d.scope = s /\ d.at + Interval >= now
        BY <2>3 DEF OverdueScopes
      <3> DEFINE times == {e.at : e \in drills}
      <3>2. times \in SUBSET (0..now) /\ times # {}
        BY <2>1, <3>1
      <3> HIDE DEF times
      <3>3. PICK m \in times : \A x \in times : x <= m
        BY <2>1, <3>2, LargestExists
      <3> USE DEF times
      <3>4. PICK last \in drills : last.at = m
        BY <3>3
      <3>5. \A e \in drills : e.at <= last.at
        BY <3>3, <3>4
      <3>6. DrillCurrent(last)
        BY <2>1, <3>1, <3>4, <3>5 DEF DrillCurrent
      <3> QED
        BY <3>5, <3>6 DEF ScopeCurrent
    <2> QED
      BY <2>2, <2>3
  <1> QED
    BY <1>1, ArtifactsInvariant, PTL

-----------------------------------------------------------------------------
(* One nightly run for each scope and day.                                 *)

LEMMA DayMonotone ==
    ASSUME NEW x \in Nat, NEW y \in Nat, x <= y
    PROVE  Day(x) \in Nat /\ Day(x) <= Day(y)
  <1> DEFINE d == SecondsPerDay
             p == x \div d
             q == y \div d
  <1>1. d \in Nat /\ d > 0
    BY TimeAssumption
  <1>2. /\ p \in Int /\ q \in Int
        /\ x = d * p + (x % d) /\ y = d * q + (y % d)
        /\ x % d \in 0..(d - 1) /\ y % d \in 0..(d - 1)
    BY <1>1
  <1>3. \A n \in Int : n <= 0 - 1 => d * n <= 0 - d
    BY <1>1
  <1>4. p >= 0
    BY <1>1, <1>2, <1>3
  <1>5. p <= q
    <2> SUFFICES ASSUME q - p <= 0 - 1 PROVE FALSE
      BY <1>2
    <2>1. d * (q - p) <= 0 - d
      BY <1>2, <1>3
    <2>2. d * (q - p) = d * q - d * p
      BY <1>1, <1>2
    <2> QED
      BY <1>1, <1>2, <2>1, <2>2
  <1> QED
    BY <1>2, <1>4, <1>5 DEF Day

\* API processes start one after the other, as the compose file has it: one.
OneProcess == \A p, q \in Processes : p = q

\* No nightly run of a set is of this scope and day.
NoneOn(runs, s, day) ==
    \A q \in runs : q.task = "nightly" /\ q.scope = s => Day(q.at) # day

\* The gate in progress: no nightly run is of a day after the one it began on;
\* those it has made since are one for each scope it is through with, on days
\* that have none; and of the scope it is at none is of the day it began on.
Gate(j) ==
    /\ j.stage \in {"loop", "read", "copy"}
    /\ j.today \in Nat /\ j.today <= Day(now)
    /\ \A q \in run : q.task = "nightly" => Day(q.at) <= j.today
    /\ \A r \in j.flushed :
          /\ r.scope \notin j.todo
          /\ j.today <= Day(r.at)
          /\ NoneOn(run, r.scope, Day(r.at))
          /\ \A q \in j.flushed : q.scope = r.scope => q = r
    /\ j.stage \in {"read", "copy"} =>
          /\ j.scope \notin j.todo
          /\ \A r \in j.flushed : r.scope # j.scope
          /\ NoneOn(run, j.scope, j.today)

GateInv ==
    /\ \A a \in Actors : job[a].task = "nightly" => a \in Processes /\ Gate(job[a])
    /\ OneNightlyPerDay

LEMMA TimesTyped ==
    ASSUME ArtifactInv
    PROVE  \A r \in run : r.at \in Nat /\ r.at <= now
  BY NowTyped DEF ArtifactInv, RunTrue

\* A run is the latest of its scope when none is later than the day it is of.
LEMMA DoneIfSome ==
    ASSUME ArtifactInv, OneNightlyPerDay, NEW s, NEW today,
           \A q \in run : q.task = "nightly" => Day(q.at) <= today,
           ~ NoneOn(run, s, today)
    PROVE  NightlyDone(s, today)
  <1>1. PICK r \in run : r.task = "nightly" /\ r.scope = s /\ Day(r.at) = today
    BY DEF NoneOn
  <1>2. ASSUME NEW q \in run, q.task = "nightly", q.scope = s
        PROVE  q.at <= r.at
    <2>1. r.at \in Nat /\ q.at \in Nat
      BY TimesTyped
    <2>2. SUFFICES ASSUME r.at <= q.at PROVE q.at <= r.at
      BY <2>1
    <2>3. Day(r.at) <= Day(q.at) /\ Day(r.at) \in Nat /\ Day(q.at) \in Nat
      BY <2>1, <2>2, DayMonotone
    <2>4. Day(q.at) = Day(r.at)
      BY <1>1, <1>2, <2>3
    <2>5. q = r
      BY <1>1, <1>2, <2>4 DEF OneNightlyPerDay
    <2> QED
      BY <2>1, <2>5
  <1> QED
    BY <1>1, <1>2 DEF NightlyDone, RunsOf

\* Runs that requests commit do not concern the gate, nor does time.
LEMMA GateLasts ==
    ASSUME ArtifactInv, ArtifactInv', NEW j, Gate(j), now <= now',
           run \subseteq run', \A r \in run' : r.task = "nightly" => r \in run
    PROVE  Gate(j)'
  <1>1. Day(now) \in Nat /\ Day(now') \in Nat /\ Day(now) <= Day(now')
    <2>1. now \in Nat /\ now' \in Nat
      BY NowTyped DEF ArtifactInv
    <2> QED
      BY <2>1, DayMonotone
  <1>2. j.today <= Day(now')
    BY <1>1 DEF Gate
  <1>3. \A s, day : NoneOn(run, s, day) => NoneOn(run', s, day)
    BY DEF NoneOn
  <1>4. \A q \in run' : q.task = "nightly" => Day(q.at) <= j.today
    BY DEF Gate
  <1> QED
    BY <1>2, <1>3, <1>4 DEF Gate

\* A step of one actor that commits no nightly run.
LEMMA GateStep ==
    ASSUME ArtifactInv, ArtifactInv', GateInv, now <= now', run \subseteq run',
           \A r \in run' : r.task = "nightly" => r \in run,
           \A b \in Actors : \/ job'[b] = job[b]
                             \/ job'[b].task # "nightly"
                             \/ (b \in Processes /\ Gate(job[b])')
    PROVE  GateInv'
  <1>1. OneNightlyPerDay'
    BY DEF GateInv, OneNightlyPerDay
  <1>2. ASSUME NEW b \in Actors, job'[b].task = "nightly"
        PROVE  b \in Processes /\ Gate(job[b])'
    <2>1. CASE job'[b] = job[b]
      <3>1. PICK j : j = job[b]
        OBVIOUS
      <3>2. b \in Processes /\ Gate(j) /\ job'[b] = j
        BY <1>2, <2>1, <3>1 DEF GateInv
      <3>3. Gate(j)'
        BY <3>2, GateLasts
      <3> QED
        BY <3>2, <3>3 DEF Gate
    <2> QED
      BY <1>2, <2>1
  <1> QED
    BY <1>1, <1>2 DEF GateInv

LEMMA GateMoves ==
    ASSUME ArtifactInv, ArtifactInv', GateInv, UNCHANGED <<now, run>>,
           NEW a \in Actors, NEW k, Becomes(a, k),
           k.task # "nightly" \/ (a \in Processes /\ Gate(k))
    PROVE  GateInv'
  <1>1. now <= now' /\ run \subseteq run'
    BY NowTyped
  <1>2. job'[a] = k /\ \A b \in Actors : b # a => job'[b] = job[b]
    BY DEF Becomes, ArtifactInv
  <1>3. k.task = "nightly" => a \in Processes /\ Gate(k)'
    BY <1>1, GateLasts
  <1>4. k.task = "nightly" => a \in Processes /\ Gate(job[a])'
    BY <1>2, <1>3 DEF Gate
  <1> QED
    BY <1>1, <1>2, <1>4, GateStep

LEMMA BackupGate ==
    ASSUME ArtifactInv, ArtifactInv', TrailInv, GateInv, NEW a \in Actors, Backup(a)
    PROVE  GateInv'
  <1>1. PICK j : j = job[a]
    OBVIOUS
  <1>2. /\ JobTrue(j) /\ DOMAIN j = DOMAIN NoJob /\ JobSane(j)
        /\ j.task = "nightly" => a \in Processes /\ Gate(j)
    BY <1>1 DEF ArtifactInv, TrailInv, JobsSane, GateInv
  <1>3. CASE ReadTables(a)
    <2>1. PICK k : k = [j EXCEPT !.group = @ + 1,
                                 !.payload = @ @@ [t \in ReadGroups[j.group] |->
                                                      Selected(t, j.scope)]]
      OBVIOUS
    <2>2. Becomes(a, k) /\ UNCHANGED <<now, run>>
      BY <1>1, <1>3, <2>1, Zenon DEF ReadTables
    <2>3. k.task = j.task /\ (Gate(j) => Gate(k))
      BY <1>2, <2>1 DEF Gate, NoJob
    <2> QED
      BY <1>2, <2>2, <2>3, GateMoves
  <1>4. CASE WriteArtifact(a)
    <2>1. PICK k : k = [j EXCEPT !.stage = "copy", !.group = 0, !.payload = << >>,
                                 !.no = Len(taken) + 1, !.name = FileName(j.scope)]
      OBVIOUS
    <2>2. j.stage = "read" /\ Becomes(a, k) /\ UNCHANGED <<now, run>>
      BY <1>1, <1>4, <2>1, Zenon DEF WriteArtifact
    <2>3. k.task = j.task /\ (Gate(j) => Gate(k))
      BY <1>2, <2>1, <2>2 DEF Gate, NoJob
    <2> QED
      BY <1>2, <2>2, <2>3, GateMoves
  <1>5. CASE CopyArtifact(a)
    <2>1. PICK r : r = [no |-> j.no, scope |-> j.scope, task |-> j.task, name |-> j.name,
                        at |-> now, verified |-> j.copy /\ file[j.name] = j.no]
      OBVIOUS
    <2>2. PICK stage : stage = CASE j.task = "manual"  -> "commit"
                                 [] j.task = "nightly" -> "loop"
                                 [] j.task = "drill"   -> "restore"
      OBVIOUS
    <2>3. PICK k : k = [j EXCEPT !.stage = stage, !.flushed = @ \cup {r}, !.copy = FALSE]
      OBVIOUS
    <2>4. j.stage = "copy" /\ Becomes(a, k) /\ UNCHANGED <<now, run>>
      BY <1>1, <1>5, <2>1, <2>2, <2>3, Zenon DEF CopyArtifact
    <2>5. r.scope = j.scope /\ r.at = now
      BY <2>1
    <2>6. /\ k.task = j.task /\ k.stage = stage /\ k.flushed = j.flushed \cup {r}
          /\ k.todo = j.todo /\ k.today = j.today
      BY <1>2, <2>3 DEF NoJob
    <2>7. ASSUME j.task = "nightly"
          PROVE  Gate(k)
      <3>1. Gate(j)
        BY <1>2, <2>7
      <3>2. stage = "loop"
        BY <2>2, <2>7
      <3>3. NoneOn(run, r.scope, Day(r.at))
        <4>1. ASSUME NEW q \in run, q.task = "nightly", q.scope = j.scope
              PROVE  Day(q.at) # Day(now)
          <5>1. Day(q.at) <= j.today /\ Day(q.at) # j.today /\ j.today <= Day(now)
            BY <2>4, <3>1, <4>1 DEF Gate, NoneOn
          <5>2. Day(q.at) \in Nat /\ Day(now) \in Nat /\ j.today \in Nat
            BY <3>1, TimesTyped, NowTyped, DayMonotone DEF Gate
          <5> QED
            BY <5>1, <5>2
        <4> QED
          BY <2>5, <4>1 DEF NoneOn
      <3> QED
        BY <2>4, <2>5, <2>6, <3>1, <3>2, <3>3 DEF Gate
    <2> QED
      BY <1>2, <2>4, <2>6, <2>7, GateMoves
  <1>6. CASE Abort(a)
    <2>1. NoJob.task # "nightly"
      BY DEF NoJob
    <2> QED
      BY <1>6, <2>1, GateMoves DEF Abort
  <1> QED
    BY <1>3, <1>4, <1>5, <1>6 DEF Backup

LEMMA RequestGate ==
    ASSUME ArtifactInv, ArtifactInv', TrailInv, GateInv, NEW w \in Threads, Request(w)
    PROVE  GateInv'
  <1>1. PICK j : j = job[w]
    OBVIOUS
  <1>2. /\ w \in Actors /\ DOMAIN j = DOMAIN NoJob /\ JobSane(j) /\ NoJob.task = "none"
        /\ j.stage \notin {"loop", "read", "copy"} => j.task # "nightly"
    BY <1>1 DEF ArtifactInv, TrailInv, JobsSane, GateInv, Gate, Actors, NoJob
  <1>3. ASSUME NEW s \in Busy, TriggerBackup(w, s)
        PROVE  GateInv'
    <2>1. PICK copy, k :
              /\ copy \in BOOLEAN
              /\ k = Begun([NoJob EXCEPT !.task = "manual"], s, copy)
              /\ Becomes(w, k) /\ UNCHANGED <<now, run>>
      BY <1>3 DEF TriggerBackup
    <2>2. k.task = "manual"
      BY <2>1 DEF Begun, NoJob
    <2> QED
      BY <1>2, <2>1, <2>2, GateMoves
  <1>4. ASSUME NEW s \in Busy, StartDrill(w, s)
        PROVE  GateInv'
    <2>1. PICK d : d = [NoJob EXCEPT !.task = "drill", !.scope = s]
      OBVIOUS
    <2>2. UNCHANGED <<now, run>>
      BY <1>4 DEF StartDrill
    <2>3. PICK k : /\ k = Begun(d, s, FALSE)
                      \/ \E r \in RunsOf(s) :
                             k = [d EXCEPT !.stage = "restore", !.no = r.no, !.name = r.name]
                   /\ Becomes(w, k)
      BY <1>4, <2>1 DEF StartDrill
    <2>4. k.task = "drill"
      BY <2>1, <2>3 DEF Begun, NoJob
    <2> QED
      BY <1>2, <2>2, <2>3, <2>4, GateMoves
  <1>5. ASSUME j.stage \in {"commit", "record"}, now' = now, run' = run \cup j.flushed,
               Becomes(w, NoJob)
        PROVE  GateInv'
    <2>1. \A r \in run' : r.task = "nightly" => r \in run
      BY <1>2, <1>5 DEF JobSane
    <2>2. now <= now' /\ run \subseteq run'
      BY <1>5, NowTyped
    <2>3. \A b \in Actors : job'[b] = job[b] \/ job'[b].task # "nightly"
      BY <1>2, <1>5 DEF Becomes, ArtifactInv
    <2> QED
      BY <2>1, <2>2, <2>3, GateStep
  <1>6. CASE CommitBackup(w)
    BY <1>1, <1>5, <1>6 DEF CommitBackup
  <1>7. CASE CommitDrill(w)
    BY <1>1, <1>5, <1>7 DEF CommitDrill
  <1>8. CASE RestoreBackup(w)
    <2>1. PICK status, k :
              /\ k = [j EXCEPT !.stage = "record", !.status = status]
              /\ Becomes(w, k) /\ UNCHANGED <<now, run>> /\ j.stage = "restore"
      BY <1>1, <1>8, Zenon DEF RestoreBackup
    <2>2. k.task # "nightly"
      BY <1>2, <2>1 DEF NoJob
    <2> QED
      BY <1>2, <2>1, <2>2, GateMoves
  <1> QED
    BY <1>3, <1>4, <1>6, <1>7, <1>8 DEF Request

LEMMA NightlyGate ==
    ASSUME OneProcess, ArtifactInv, ArtifactInv', TrailInv, GateInv,
           NEW p \in Processes, Nightly(p)
    PROVE  GateInv'
  <1>1. PICK j : j = job[p]
    OBVIOUS
  <1>2. /\ p \in Actors /\ JobTrue(j) /\ DOMAIN j = DOMAIN NoJob /\ JobSane(j)
        /\ j.task = "nightly" => Gate(j)
    BY <1>1 DEF ArtifactInv, TrailInv, JobsSane, GateInv, Actors
  <1>3. CASE StartNightly(p)
    <2>1. PICK k : k = [NoJob EXCEPT !.task = "nightly", !.stage = "loop", !.todo = Scopes,
                                     !.today = Day(now)]
      OBVIOUS
    <2>2. Becomes(p, k) /\ UNCHANGED <<now, run>>
      BY <1>3, <2>1, Zenon DEF StartNightly
    <2>3. /\ k.task = "nightly" /\ k.stage = "loop" /\ k.flushed = {}
          /\ k.today = Day(now)
      BY <2>1 DEF NoJob
    <2>4. Day(now) \in Nat /\ \A q \in run : Day(q.at) <= Day(now)
      BY TimesTyped, NowTyped, DayMonotone
    <2>5. Gate(k)
      BY <2>3, <2>4 DEF Gate
    <2> QED
      BY <1>2, <2>2, <2>5, GateMoves
  <1>4. ASSUME NEW s \in Scopes, NextScope(p, s)
        PROVE  GateInv'
    <2>1. PICK k : k = [j EXCEPT !.todo = @ \ {s}]
      OBVIOUS
    <2>2. PICK b : b = Begun(k, s, TRUE)
      OBVIOUS
    <2>3. /\ j.stage = "loop" /\ s \in j.todo /\ UNCHANGED <<now, run>>
          /\ Becomes(p, k) \/ (~ NightlyDone(s, k.today) /\ Becomes(p, b))
      BY <1>1, <1>4, <2>1, <2>2, Zenon DEF NextScope
    <2>4. j.task = "nightly" /\ Gate(j)
      BY <1>2, <2>3 DEF JobSane
    <2>5. /\ k.task = "nightly" /\ k.stage = "loop" /\ k.flushed = j.flushed
          /\ k.today = j.today /\ k.todo = j.todo \ {s} /\ DOMAIN k = DOMAIN NoJob
      BY <1>2, <2>1, <2>3, <2>4 DEF NoJob
    <2>6. Gate(k)
      BY <2>4, <2>5 DEF Gate
    <2>7. ASSUME ~ NightlyDone(s, k.today)
          PROVE  Gate(b)
      <3>1. /\ b.task = "nightly" /\ b.stage = "read" /\ b.flushed = j.flushed
            /\ b.today = j.today /\ b.todo = j.todo \ {s} /\ b.scope = s
        BY <2>2, <2>5 DEF Begun, NoJob
      <3>2. NoneOn(run, s, j.today)
        BY <2>4, <2>5, <2>7, DoneIfSome DEF Gate, GateInv
      <3>3. \A r \in j.flushed : r.scope # s
        BY <2>3, <2>4 DEF Gate
      <3> QED
        BY <2>4, <3>1, <3>2, <3>3 DEF Gate
    <2>8. CASE Becomes(p, k)
      BY <1>2, <2>3, <2>6, <2>8, GateMoves
    <2>9. CASE ~ NightlyDone(s, k.today) /\ Becomes(p, b)
      BY <1>2, <2>3, <2>7, <2>9, GateMoves
    <2> QED
      BY <2>3, <2>8, <2>9
  <1>5. CASE CommitNightly(p)
    <2>1. /\ j.stage = "loop" /\ run' = run \cup j.flushed /\ Becomes(p, NoJob)
      BY <1>1, <1>5 DEF CommitNightly
    <2>2. j.task = "nightly" /\ Gate(j)
      BY <1>2, <2>1 DEF JobSane
    <2>3. OneNightlyPerDay'
      <3> SUFFICES ASSUME NEW q \in run', NEW r \in run', q.task = "nightly",
                          r.task = "nightly", q.scope = r.scope, Day(q.at) = Day(r.at)
                   PROVE  q = r
        BY DEF OneNightlyPerDay
      <3>1. CASE q \in run /\ r \in run
        BY <3>1 DEF GateInv, OneNightlyPerDay
      <3>2. CASE q \in j.flushed /\ r \in j.flushed
        BY <2>2, <3>2 DEF Gate
      <3>3. CASE q \in run /\ r \in j.flushed
        BY <2>2, <3>3 DEF Gate, NoneOn
      <3>4. CASE q \in j.flushed /\ r \in run
        BY <2>2, <3>4 DEF Gate, NoneOn
      <3> QED
        BY <2>1, <3>1, <3>2, <3>3, <3>4
    <2>4. ASSUME NEW b \in Actors
          PROVE  job'[b].task # "nightly"
      <3>1. CASE b = p
        BY <2>1, <3>1 DEF Becomes, ArtifactInv, NoJob
      <3>2. CASE b # p
        BY <2>1, <3>2 DEF OneProcess, GateInv, Becomes, ArtifactInv
      <3> QED
        BY <3>1, <3>2
    <2> QED
      BY <2>3, <2>4 DEF GateInv
  <1> QED
    BY <1>3, <1>4, <1>5 DEF Nightly

LEMMA NextGate ==
    OneProcess /\ TrailInv /\ ArtifactInv /\ ArtifactInv' /\ GateInv /\ [Next]_vars
        => GateInv'
  <1> SUFFICES ASSUME OneProcess, TrailInv, ArtifactInv, ArtifactInv', GateInv, [Next]_vars
               PROVE  GateInv'
    OBVIOUS
  <1>1. CASE \E a \in Actors : Backup(a)
    BY <1>1, BackupGate
  <1>2. CASE \E w \in Threads : Request(w)
    BY <1>2, RequestGate
  <1>3. CASE \E p \in Processes : Nightly(p)
    BY <1>3, NightlyGate
  <1>4. ASSUME UNCHANGED <<run, job>>, now <= now'
        PROVE  GateInv'
    BY <1>4, GateStep
  <1>5. CASE Others
    BY <1>4, <1>5, NowTyped DEF Others, EditConfig, DeleteAddress, UploadBatch, Damage
  <1>6. CASE PruneAudit
    BY <1>4, <1>6, NowTyped DEF PruneAudit
  <1>7. CASE Tick
    BY <1>4, <1>7, NowTyped DEF Tick
  <1>8. CASE UNCHANGED vars
    BY <1>4, <1>8, NowTyped DEF vars
  <1> QED
    BY <1>1, <1>2, <1>3, <1>5, <1>6, <1>7, <1>8 DEF Next

LEMMA InitGate == Init => GateInv
  BY DEF Init, GateInv, NoJob, OneNightlyPerDay

\* While the API processes are started one at a time, each scope has at most one
\* nightly run of a day, whatever crashes in between and however long the gate
\* takes, past midnight too (run_nightly_backups_if_due).
THEOREM NightlySafe == OneProcess => (Spec => []OneNightlyPerDay)
  <1> SUFFICES ASSUME OneProcess PROVE Spec => []OneNightlyPerDay
    OBVIOUS
  <1>1. TrailInv /\ ArtifactInv /\ ArtifactInv' /\ GateInv /\ [Next]_vars => GateInv'
    BY NextGate
  <1>2. GateInv => OneNightlyPerDay
    BY DEF GateInv
  <1> QED
    BY <1>1, <1>2, ArtifactsInvariant, InitGate, PTL DEF Spec

-----------------------------------------------------------------------------
(* Types, and how many backups a scope begins.                             *)

TakenOf(s) == {k \in DOMAIN taken : taken[k].scope = s}

Reading(s) == {a \in Actors : job[a].stage = "read" /\ job[a].scope = s}

ReadersBounded ==
    \A s \in Scopes : Cardinality(TakenOf(s)) + Cardinality(Reading(s)) <= MaxBackups[s]

TablesTyped ==
    /\ editor \in [Configs -> Users \cup {None}]
    /\ address \subseteq Scopes
    /\ changes \in 0..MaxChanges
    /\ upload \in [Scopes -> 0..MaxChanges]
    /\ \A s \in Scopes : upload[s] <= changes

LEMMA Counted ==
    ASSUME ArtifactInv, NEW s \in Scopes
    PROVE  /\ IsFiniteSet(TakenOf(s)) /\ Cardinality(TakenOf(s)) \in Nat
           /\ IsFiniteSet(Reading(s)) /\ Cardinality(Reading(s)) \in Nat
           /\ MaxBackups[s] \in Nat
  <1>1. Len(taken) \in Nat /\ DOMAIN taken = 1..Len(taken)
    BY DEF ArtifactInv
  <1>2. IsFiniteSet(1..Len(taken))
    BY <1>1, FS_Interval
  <1>3. IsFiniteSet(TakenOf(s))
    BY <1>1, <1>2, FS_Subset DEF TakenOf
  <1>4. IsFiniteSet(Reading(s))
    BY ActorsAssumption, FS_Subset DEF Reading, Actors
  <1> QED
    BY <1>3, <1>4, FS_CardinalityType, TimeAssumption

\* A job may come to read a scope only while the scope may begin a backup.
LEMMA BoundedMoves ==
    ASSUME ArtifactInv, ArtifactInv', ReadersBounded, taken' = taken,
           NEW a \in Actors, NEW k, Becomes(a, k),
           \/ k.stage # "read"
           \/ job[a].stage = "read" /\ k.scope = job[a].scope
           \/ MayBegin(k.scope)
    PROVE  ReadersBounded'
  <1>1. job'[a] = k /\ \A b \in Actors : b # a => job'[b] = job[b]
    BY DEF Becomes, ArtifactInv
  <1>2. SUFFICES ASSUME NEW s \in Scopes
                 PROVE  Cardinality(TakenOf(s)') + Cardinality(Reading(s)') <= MaxBackups[s]
    BY DEF ReadersBounded
  <1>3. TakenOf(s)' = TakenOf(s)
    BY DEF TakenOf
  <1>4. /\ Cardinality(TakenOf(s)) \in Nat /\ Cardinality(Reading(s)) \in Nat
        /\ Cardinality(Reading(s)') \in Nat /\ MaxBackups[s] \in Nat
        /\ IsFiniteSet(Reading(s)) /\ IsFiniteSet(Reading(s)')
    <2>1. IsFiniteSet(Reading(s)')
      BY ActorsAssumption, FS_Subset DEF Reading, Actors
    <2> QED
      BY <2>1, Counted, FS_CardinalityType
  <1>5. CASE Reading(s)' \subseteq Reading(s)
    <2>1. Cardinality(Reading(s)') <= Cardinality(Reading(s))
      BY <1>4, <1>5, FS_Subset
    <2> QED
      BY <1>3, <1>4, <2>1 DEF ReadersBounded
  <1>6. CASE ~ (Reading(s)' \subseteq Reading(s))
    <2>1. Reading(s)' \subseteq Reading(s) \cup {a} /\ a \notin Reading(s) /\ a \in Reading(s)'
      BY <1>1, <1>6 DEF Reading
    <2>2. k.stage = "read" /\ k.scope = s
      BY <1>1, <2>1 DEF Reading
    <2>3. ~ (job[a].stage = "read" /\ job[a].scope = s)
      BY <2>1 DEF Reading
    <2>4. MayBegin(s)
      BY <2>2, <2>3
    <2>5. Cardinality(TakenOf(s)) + Cardinality(Reading(s)) < MaxBackups[s]
      BY <2>4 DEF MayBegin, TakenOf, Reading
    <2>6. /\ IsFiniteSet(Reading(s) \cup {a})
          /\ Cardinality(Reading(s) \cup {a}) = Cardinality(Reading(s)) + 1
      BY <1>4, <2>1, FS_AddElement
    <2>7. Cardinality(Reading(s)') <= Cardinality(Reading(s)) + 1
      BY <2>1, <2>6, FS_Subset
    <2> QED
      BY <1>3, <1>4, <2>5, <2>7
  <1> QED
    BY <1>5, <1>6

\* A written artifact counts from then on, and its job reads no more.
LEMMA BoundedWrites ==
    ASSUME ArtifactInv, ArtifactInv', ReadersBounded, NEW a \in Actors, WriteArtifact(a)
    PROVE  ReadersBounded'
  <1>1. PICK j, entry, k :
          /\ j = job[a] /\ j.stage = "read" /\ entry.scope = j.scope /\ k.stage = "copy"
          /\ Becomes(a, k) /\ taken' = Append(taken, entry)
    <2>1. PICK j, entry, k :
            /\ j = job[a]
            /\ entry = [scope    |-> j.scope,
                        restores |-> Restores(j.payload),
                        torn     |-> \E t \in Tables : j.payload[t] # Selected(t, j.scope),
                        foreign  |-> EditedElsewhere(j.scope)]
            /\ k = [j EXCEPT !.stage = "copy", !.group = 0, !.payload = << >>,
                             !.no = Len(taken) + 1, !.name = FileName(j.scope)]
      OBVIOUS
    <2>2. j.stage = "read" /\ Becomes(a, k) /\ taken' = Append(taken, entry)
      BY <2>1, Zenon DEF WriteArtifact
    <2>3. entry.scope = j.scope
      BY <2>1
    <2>4. k.stage = "copy"
      BY <2>1 DEF ArtifactInv, NoJob
    <2> QED
      BY <2>1, <2>2, <2>3, <2>4
  <1>2. job'[a] = k /\ \A b \in Actors : b # a => job'[b] = job[b]
    BY <1>1 DEF Becomes, ArtifactInv
  <1>3. SUFFICES ASSUME NEW s \in Scopes
                 PROVE  Cardinality(TakenOf(s)') + Cardinality(Reading(s)') <= MaxBackups[s]
    BY DEF ReadersBounded
  <1> DEFINE no == Len(taken) + 1
  <1>4. /\ DOMAIN taken = 1..Len(taken) /\ DOMAIN taken' = 1..no /\ no \notin DOMAIN taken
        /\ taken'[no] = entry /\ \A m \in DOMAIN taken : taken'[m] = taken[m]
        /\ DOMAIN taken' = DOMAIN taken \cup {no}
    <2>1. taken \in Seq(Payload) /\ Len(taken) \in Nat
      BY DEF ArtifactInv
    <2>2. /\ DOMAIN taken = 1..Len(taken) /\ DOMAIN taken' = 1..no /\ taken'[no] = entry
          /\ \A m \in 1..Len(taken) : taken'[m] = taken[m]
      BY <1>1, <2>1
    <2>3. 1..no = 1..Len(taken) \cup {no} /\ no \notin 1..Len(taken)
      BY <2>1
    <2> QED
      BY <2>2, <2>3
  <1>5. /\ IsFiniteSet(TakenOf(s)) /\ Cardinality(TakenOf(s)) \in Nat
        /\ IsFiniteSet(Reading(s)) /\ Cardinality(Reading(s)) \in Nat
        /\ MaxBackups[s] \in Nat
    BY Counted
  <1>6. CASE j.scope = s
    <2>1. TakenOf(s)' = TakenOf(s) \cup {no}
      BY <1>1, <1>4, <1>6 DEF TakenOf
    <2>2. no \notin TakenOf(s)
      BY <1>4 DEF TakenOf
    <2>3. Cardinality(TakenOf(s)') = Cardinality(TakenOf(s)) + 1
      BY <1>5, <2>1, <2>2, FS_AddElement
    <2>4. Reading(s)' = Reading(s) \ {a} /\ a \in Reading(s)
      BY <1>1, <1>2, <1>6 DEF Reading
    <2>5. Cardinality(Reading(s)') = Cardinality(Reading(s)) - 1
      BY <1>5, <2>4, FS_RemoveElement
    <2> QED
      BY <1>5, <2>3, <2>5 DEF ReadersBounded
  <1>7. CASE j.scope # s
    <2>1. TakenOf(s)' = TakenOf(s)
      BY <1>1, <1>4, <1>7 DEF TakenOf
    <2>2. Reading(s)' = Reading(s)
      BY <1>1, <1>2, <1>7 DEF Reading
    <2> QED
      BY <2>1, <2>2 DEF ReadersBounded
  <1> QED
    BY <1>6, <1>7

LEMMA BoundedStill ==
    ASSUME ReadersBounded, UNCHANGED <<taken, job>>
    PROVE  ReadersBounded'
  <1>1. \A s \in Scopes : TakenOf(s)' = TakenOf(s) /\ Reading(s)' = Reading(s)
    BY DEF TakenOf, Reading
  <1> QED
    BY <1>1 DEF ReadersBounded

LEMMA BackupBounded ==
    ASSUME TrailInv, ArtifactInv, ArtifactInv', ReadersBounded, NEW a \in Actors, Backup(a)
    PROVE  ReadersBounded'
  <1>1. PICK j : j = job[a]
    OBVIOUS
  <1>2. DOMAIN j = DOMAIN NoJob /\ JobSane(j)
    BY <1>1 DEF ArtifactInv, TrailInv, JobsSane
  <1>3. CASE ReadTables(a)
    <2>1. PICK k : k = [j EXCEPT !.group = @ + 1,
                                 !.payload = @ @@ [t \in ReadGroups[j.group] |->
                                                      Selected(t, j.scope)]]
      OBVIOUS
    <2>2. j.stage = "read" /\ Becomes(a, k) /\ taken' = taken
      BY <1>1, <1>3, <2>1, Zenon DEF ReadTables
    <2>3. k.scope = j.scope
      BY <1>2, <2>1 DEF NoJob
    <2> QED
      BY <1>1, <2>2, <2>3, BoundedMoves
  <1>4. CASE WriteArtifact(a)
    BY <1>4, BoundedWrites
  <1>5. CASE CopyArtifact(a)
    <2>1. PICK r : r = [no |-> j.no, scope |-> j.scope, task |-> j.task, name |-> j.name,
                        at |-> now, verified |-> j.copy /\ file[j.name] = j.no]
      OBVIOUS
    <2>2. PICK stage : stage = CASE j.task = "manual"  -> "commit"
                                 [] j.task = "nightly" -> "loop"
                                 [] j.task = "drill"   -> "restore"
      OBVIOUS
    <2>3. PICK k : k = [j EXCEPT !.stage = stage, !.flushed = @ \cup {r}, !.copy = FALSE]
      OBVIOUS
    <2>4. j.stage = "copy" /\ Becomes(a, k) /\ taken' = taken
      BY <1>1, <1>5, <2>1, <2>2, <2>3, Zenon DEF CopyArtifact
    <2>5. j.task \in {"manual", "nightly", "drill"}
      BY <1>2, <2>4 DEF JobSane, NoJob
    <2>6. k.stage # "read"
      BY <1>2, <2>2, <2>3, <2>5 DEF NoJob
    <2> QED
      BY <2>4, <2>6, BoundedMoves
  <1>6. CASE Abort(a)
    BY <1>6, BoundedMoves DEF Abort, NoJob
  <1> QED
    BY <1>3, <1>4, <1>5, <1>6 DEF Backup

\* A backup begins only where MayBegin holds of its scope.
LEMMA BegunBounded ==
    ASSUME ArtifactInv, ArtifactInv', ReadersBounded, taken' = taken, NEW a \in Actors,
           NEW j, DOMAIN j = DOMAIN NoJob, NEW s, MayBegin(s),
           NEW copy, Becomes(a, Begun(j, s, copy))
    PROVE  ReadersBounded'
  <1>1. PICK k : k = Begun(j, s, copy)
    OBVIOUS
  <1>2. k.scope = s
    BY <1>1 DEF Begun, NoJob
  <1> QED
    BY <1>1, <1>2, BoundedMoves

LEMMA RequestBounded ==
    ASSUME ArtifactInv, ArtifactInv', ReadersBounded, NEW w \in Threads, Request(w)
    PROVE  ReadersBounded'
  <1>1. w \in Actors
    BY DEF Actors
  <1>2. PICK j : j = job[w]
    OBVIOUS
  <1>3. DOMAIN j = DOMAIN NoJob
    BY <1>1, <1>2 DEF ArtifactInv
  <1>4. ASSUME NEW s \in Busy, TriggerBackup(w, s)
        PROVE  ReadersBounded'
    <2>1. PICK m : m = [NoJob EXCEPT !.task = "manual"]
      OBVIOUS
    <2>2. PICK copy \in BOOLEAN : Becomes(w, Begun(m, s, copy))
      BY <1>4, <2>1, Zenon DEF TriggerBackup
    <2>3. MayBegin(s) /\ taken' = taken /\ DOMAIN m = DOMAIN NoJob
      BY <1>4, <2>1 DEF TriggerBackup, NoJob
    <2> QED
      BY <1>1, <2>2, <2>3, BegunBounded
  <1>5. ASSUME NEW s \in Busy, StartDrill(w, s)
        PROVE  ReadersBounded'
    <2>1. PICK m : m = [NoJob EXCEPT !.task = "drill", !.scope = s]
      OBVIOUS
    <2>2. DOMAIN m = DOMAIN NoJob /\ taken' = taken
      BY <1>5, <2>1 DEF StartDrill, NoJob
    <2>3. CASE MayBegin(s) /\ Becomes(w, Begun(m, s, FALSE))
      BY <1>1, <2>2, <2>3, BegunBounded
    <2>4. ASSUME NEW r, Becomes(w, [m EXCEPT !.stage = "restore", !.no = r.no, !.name = r.name])
          PROVE  ReadersBounded'
      <3>1. PICK k : k = [m EXCEPT !.stage = "restore", !.no = r.no, !.name = r.name]
        OBVIOUS
      <3>2. k.stage # "read"
        BY <2>2, <3>1 DEF NoJob
      <3> QED
        BY <1>1, <2>2, <2>4, <3>1, <3>2, BoundedMoves
    <2>5. \/ MayBegin(s) /\ Becomes(w, Begun(m, s, FALSE))
          \/ \E r \in RunsOf(s) :
               Becomes(w, [m EXCEPT !.stage = "restore", !.no = r.no, !.name = r.name])
      BY <1>5, <2>1, Zenon DEF StartDrill
    <2> QED
      BY <2>3, <2>4, <2>5
  <1>6. CASE CommitBackup(w) \/ CommitDrill(w)
    <2>1. Becomes(w, NoJob) /\ taken' = taken
      BY <1>6 DEF CommitBackup, CommitDrill
    <2> QED
      BY <1>1, <2>1, BoundedMoves DEF NoJob
  <1>7. CASE RestoreBackup(w)
    <2>1. PICK declared, restored :
            Becomes(w, [j EXCEPT !.stage = "record", !.status = FinalStatus(declared, restored)])
      BY <1>2, <1>7, Zenon DEF RestoreBackup
    <2>2. PICK k :
            k = [j EXCEPT !.stage = "record", !.status = FinalStatus(declared, restored)]
      OBVIOUS
    <2>3. k.stage # "read"
      BY <1>3, <2>2 DEF NoJob
    <2>4. taken' = taken
      BY <1>7 DEF RestoreBackup
    <2> QED
      BY <1>1, <2>1, <2>2, <2>3, <2>4, BoundedMoves
  <1> QED
    BY <1>4, <1>5, <1>6, <1>7 DEF Request

LEMMA NightlyBounded ==
    ASSUME ArtifactInv, ArtifactInv', ReadersBounded, NEW p \in Processes, Nightly(p)
    PROVE  ReadersBounded'
  <1>1. p \in Actors
    BY DEF Actors
  <1>2. PICK j : j = job[p]
    OBVIOUS
  <1>3. DOMAIN j = DOMAIN NoJob
    BY <1>1, <1>2 DEF ArtifactInv
  <1>4. CASE StartNightly(p)
    <2>1. PICK k : k = [NoJob EXCEPT !.task = "nightly", !.stage = "loop", !.todo = Scopes,
                                     !.today = Day(now)]
      OBVIOUS
    <2>2. Becomes(p, k) /\ taken' = taken
      BY <1>4, <2>1, Zenon DEF StartNightly
    <2>3. k.stage # "read"
      BY <2>1 DEF NoJob
    <2> QED
      BY <1>1, <2>2, <2>3, BoundedMoves
  <1>5. ASSUME NEW s \in Scopes, NextScope(p, s)
        PROVE  ReadersBounded'
    <2>1. PICK k : k = [j EXCEPT !.todo = @ \ {s}]
      OBVIOUS
    <2>2. j.stage = "loop" /\ taken' = taken
      BY <1>2, <1>5 DEF NextScope
    <2>3. DOMAIN k = DOMAIN NoJob /\ k.stage # "read"
      BY <1>3, <2>1, <2>2 DEF NoJob
    <2>4. Becomes(p, k) \/ (MayBegin(s) /\ Becomes(p, Begun(k, s, TRUE)))
      BY <1>2, <1>5, <2>1, Zenon DEF NextScope
    <2> QED
      BY <1>1, <2>2, <2>3, <2>4, BoundedMoves, BegunBounded
  <1>6. CASE CommitNightly(p)
    <2>1. Becomes(p, NoJob) /\ taken' = taken
      BY <1>6 DEF CommitNightly
    <2> QED
      BY <1>1, <2>1, BoundedMoves DEF NoJob
  <1> QED
    BY <1>4, <1>5, <1>6 DEF Nightly

\* Only Others write the tables.
LEMMA TablesStep ==
    ASSUME TablesTyped, Others \/ UNCHANGED db
    PROVE  TablesTyped'
  <1>1. MaxChanges \in Nat /\ Editors \subseteq Users
    BY TimeAssumption, ScopeAssumption
  <1>2. CASE UNCHANGED db
    BY <1>2 DEF TablesTyped, db
  <1>3. ASSUME Change, NEW s \in Scopes, upload' = [upload EXCEPT ![s] = @ + 1]
        PROVE  upload' \in [Scopes -> 0..MaxChanges] /\ \A t \in Scopes : upload'[t] <= changes'
    BY <1>1, <1>3 DEF TablesTyped, Change
  <1>4. ASSUME Change
        PROVE  /\ changes' \in 0..MaxChanges
               /\ \A t \in Scopes : upload[t] <= changes'
    BY <1>1, <1>4 DEF TablesTyped, Change
  <1>5. Busy \subseteq Scopes
    BY ScopeAssumption
  <1>6. CASE Others
    BY <1>1, <1>3, <1>4, <1>5, <1>6
       DEF Others, EditConfig, DeleteAddress, UploadBatch, Damage, TablesTyped
  <1> QED
    BY <1>2, <1>6

LEMMA NextTyped ==
    TrailInv /\ ArtifactInv /\ ArtifactInv' /\ ReadersBounded /\ TablesTyped /\ [Next]_vars
        => (ReadersBounded /\ TablesTyped)'
  <1> SUFFICES ASSUME TrailInv, ArtifactInv, ArtifactInv', ReadersBounded, TablesTyped,
                      [Next]_vars
               PROVE  ReadersBounded' /\ TablesTyped'
    OBVIOUS
  <1>1. CASE \E a \in Actors : Backup(a)
    <2>1. UNCHANGED db
      BY <1>1 DEF Backup, ReadTables, WriteArtifact, CopyArtifact, Abort
    <2> QED
      BY <1>1, <2>1, BackupBounded, TablesStep
  <1>2. CASE \E w \in Threads : Request(w)
    <2>1. UNCHANGED db
      BY <1>2 DEF Request, TriggerBackup, StartDrill, CommitBackup, RestoreBackup, CommitDrill
    <2> QED
      BY <1>2, <2>1, RequestBounded, TablesStep
  <1>3. CASE \E p \in Processes : Nightly(p)
    <2>1. UNCHANGED db
      BY <1>3 DEF Nightly, StartNightly, NextScope, CommitNightly
    <2> QED
      BY <1>3, <2>1, NightlyBounded, TablesStep
  <1>4. CASE Others
    <2>1. UNCHANGED <<taken, job>>
      BY <1>4 DEF Others, EditConfig, DeleteAddress, UploadBatch, Damage
    <2> QED
      BY <1>4, <2>1, BoundedStill, TablesStep
  <1>5. CASE PruneAudit \/ Tick \/ UNCHANGED vars
    <2>1. UNCHANGED db /\ UNCHANGED <<taken, job>>
      BY <1>5 DEF PruneAudit, Tick, vars, db
    <2> QED
      BY <2>1, BoundedStill, TablesStep
  <1> QED
    BY <1>1, <1>2, <1>3, <1>4, <1>5 DEF Next

LEMMA InitTyped == Init => ReadersBounded /\ TablesTyped
  <1> SUFFICES ASSUME Init PROVE ReadersBounded /\ TablesTyped
    OBVIOUS
  <1>1. ASSUME NEW s \in Scopes
        PROVE  Cardinality(TakenOf(s)) + Cardinality(Reading(s)) <= MaxBackups[s]
    <2>1. TakenOf(s) = {} /\ Reading(s) = {}
      BY DEF Init, TakenOf, Reading, NoJob
    <2> QED
      BY <2>1, FS_EmptySet, TimeAssumption
  <1> QED
    BY <1>1, TimeAssumption DEF ReadersBounded, TablesTyped, Init

\* Every table, file and job holds values of its kind, a run has its payload, a
\* drill its run, and no scope begins more backups than it may, for any number of
\* scopes, users, threads and processes.
THEOREM TypesSafe == Spec => []TypeOK
  <1>1. ArtifactInv /\ ReadersBounded /\ TablesTyped => TypeOK
    <2> SUFFICES ASSUME ArtifactInv, ReadersBounded, TablesTyped PROVE TypeOK
      OBVIOUS
    <2>1. ASSUME NEW d \in drill
          PROVE  d.run \in DOMAIN taken /\ d.status \in {"passed", "failed"} /\ d.at \in 0..now
      BY DEF ArtifactInv, DrillTrue, RunOf, RunTrue
    <2>2. ASSUME NEW s \in Scopes
          PROVE  Cardinality({k \in DOMAIN taken : taken[k].scope = s}) <= MaxBackups[s]
      <3>1. Cardinality(TakenOf(s)) <= MaxBackups[s]
        BY Counted DEF ReadersBounded
      <3> QED
        BY <3>1 DEF TakenOf
    <2> QED
      BY <2>1, <2>2 DEF ArtifactInv, TablesTyped, TypeOK, RunTrue, MediumTrue, JobTrue
  <1>2. TrailInv /\ ArtifactInv /\ ArtifactInv' /\ ReadersBounded /\ TablesTyped /\ [Next]_vars
            => (ReadersBounded /\ TablesTyped)'
    BY NextTyped
  <1> QED
    BY <1>1, <1>2, InitTyped, ArtifactsInvariant, PTL DEF Spec
=============================================================================
