--------------------------- MODULE ImportPipeline ---------------------------
(***************************************************************************)
(* The import of CSV batches into the directory and the review of          *)
(* duplicates: api/app/imports/pipeline.py and the handlers of             *)
(* api/app/api/routes/imports_admin.py that call it.                       *)
(*                                                                         *)
(* A batch is uploaded, normalized (its CSV lines become rows, and rows    *)
(* that look like an entry of the directory become duplicate candidates),  *)
(* and applied (rows without an open candidate are imported).  Candidates  *)
(* are merged into the entry or ignored; a merge can be undone.            *)
(*                                                                         *)
(* A handler reads what it decides on, and later flushes and commits the   *)
(* columns it changed.  Normalization and application read in one instant; *)
(* a review loads the candidate, the row and the entry in queries of their *)
(* own, each a step, between which other requests commit.  A query first   *)
(* flushes what the handler changed before, and the flushed rows stay      *)
(* locked until the commit.  An UPDATE of a row that was deleted meanwhile *)
(* fails the request (the session expects to match it), as does an INSERT  *)
(* of a row number another request has inserted.                           *)
(*                                                                         *)
(* Left out: byte and CSV formats, encryption, counters, audit rows; of    *)
(* the six fields a merge may fill, the model has those in Field; items    *)
(* of the repertoire are known by their title.                             *)
(***************************************************************************)
EXTENDS Naturals, Sequences, FiniteSets

CONSTANTS
    Batches,        \* uploads, each one CSV file
    Roster,         \* the batches of kind roster; the others are of kind member
    Csv,            \* all CSV lines: batch, name, email, phone, title
    Seeded,         \* the directory entries there are before any import
    Workers,        \* the threads that run requests
    Blank,          \* NULL or the empty string
    MaxEntries,     \* bound: ids of directory entries
    MaxRuns,        \* bound: normalizations of one batch
    MaxMerges       \* bound: merge actions

Field == {"email", "phone"}
Lines == DOMAIN Csv
Ids == 1..MaxEntries
LinesOf(b) == {l \in Lines : Csv[l].batch = b}

ASSUME CsvAssumption ==
    /\ Lines \subseteq Nat \ {0}
    /\ Roster \subseteq Batches
    /\ \A l \in Lines : Csv[l].batch \in Batches

\* display_name is not NULL.
ASSUME SeededAssumption == \A i \in DOMAIN Seeded : Seeded[i].name # Blank

ASSUME BoundsAssumption ==
    /\ MaxEntries \in Nat /\ MaxRuns \in Nat /\ MaxMerges \in Nat
    /\ IsFiniteSet(Workers)

VARIABLES
    batch,      \* import_batches: status, and how often it was normalized
    row,        \* import_normalized_rows of the last normalization, by line
    cand,       \* import_duplicate_candidates, at most one for each row
    directory,  \* directory_entries
    links,      \* performer-repertoire links: <<entry, title>>
    merges,     \* import_merge_actions, in the order of their commits
    request     \* what each worker is in the middle of

vars == <<batch, row, cand, directory, links, merges, request>>

-----------------------------------------------------------------------------
(* Rows of the tables.                                                     *)

Unresolved == {"open", "undo_applied"}
Settled == {"applied", "merged", "ignored"}

BatchStatus == {"absent", "uploaded", "normalized", "needs_review", "processed"}
RowStatus == {"absent", "valid", "invalid", "duplicate"} \cup Settled
CandStatus == {"absent", "merged", "ignored"} \cup Unresolved

NoRow == [status |-> "absent", effect |-> 0]
NoCand == [status |-> "absent", target |-> 0]
NoEntry == [name |-> Blank, email |-> Blank, phone |-> Blank, source |-> 0]

\* source tells which line an entry was imported from; the code keeps the way
\* back only, in the row's effect_target_id.
Seed(i) == [name |-> Seeded[i].name, email |-> Seeded[i].email,
            phone |-> Seeded[i].phone, source |-> 0]
Member(l) == [name |-> Csv[l].name, email |-> Csv[l].email,
              phone |-> Csv[l].phone, source |-> l]
Performer(l) == [name |-> Csv[l].name, email |-> Blank, phone |-> Blank, source |-> l]
NewEntry(l) == IF Csv[l].batch \in Roster THEN Performer(l) ELSE Member(l)

Exists(i) == directory[i] # NoEntry

Idle == [op |-> "none"]
Free(w) == request[w] = Idle
Done(w) == request' = [request EXCEPT ![w] = Idle]

\* An assignment of the value that was loaded is no change, and its column is
\* not in the UPDATE.
Written(column, loaded, value) == IF value = loaded THEN column ELSE value

Init ==
    /\ batch = [b \in Batches |-> [status |-> "absent", run |-> 0]]
    /\ row = [l \in Lines |-> NoRow]
    /\ cand = [l \in Lines |-> NoCand]
    /\ directory = [i \in Ids |-> IF i \in DOMAIN Seeded THEN Seed(i) ELSE NoEntry]
    /\ links = {}
    /\ merges = << >>
    /\ request = [w \in Workers |-> Idle]

-----------------------------------------------------------------------------
(* Upload and normalization.                                               *)

UploadImportBatch(b) ==
    /\ batch[b].status = "absent"
    /\ batch' = [batch EXCEPT ![b].status = "uploaded"]
    /\ UNCHANGED <<row, cand, directory, links, merges, request>>

\* _normalize_member_row, _normalize_roster_row: the required columns.
IsValid(l) ==
    /\ Csv[l].name # Blank
    /\ Csv[l].batch \in Roster => Csv[l].title # Blank

Named(name) == {i \in Ids : Exists(i) /\ directory[i].name = name}

\* Faulty variant of Duplicates: entries are compared by e-mail address only.
DuplicatesByEmail(l) ==
    {i \in Ids : Exists(i) /\ Csv[l].email # Blank /\ directory[i].email = Csv[l].email}

\* _find_member_duplicate: an entry with the same e-mail address if there is
\* one, else one with the same name; which of several is not determined.
Duplicates(l) ==
    LET sameEmail == {i \in Ids : Exists(i) /\ directory[i].email = Csv[l].email}
    IN  IF Csv[l].email # Blank /\ sameEmail # {} THEN sameEmail ELSE Named(Csv[l].name)

Looked(l) == IF IsValid(l) /\ Csv[l].batch \notin Roster THEN Duplicates(l) ELSE {}

\* A flush of a review has locked the candidate of a line.
CandidateHeld(l) ==
    \E w \in Workers :
        /\ request[w].op \in {"ignore", "undo"}
        /\ request[w].stage = "row"
        /\ request[w].lives
        /\ request[w].line = l

\* normalize_import_batch, up to its last query.  The status of the batch does
\* not matter.
NormalizeImportBatch(w, b) ==
    /\ Free(w)
    /\ batch[b].status # "absent"
    /\ batch[b].run < MaxRuns
    /\ \A l \in LinesOf(b) : ~CandidateHeld(l)
    /\ \E found \in [LinesOf(b) -> Ids \cup {0}] :
         /\ \A l \in LinesOf(b) :
              found[l] \in IF Looked(l) = {} THEN {0} ELSE Looked(l)
         /\ request' = [request EXCEPT ![w] =
              [op |-> "normalize", batch |-> b, run |-> batch[b].run,
               loaded |-> batch[b].status, found |-> found]]
    /\ UNCHANGED <<batch, row, cand, directory, links, merges>>

\* The DELETE of a normalization locks the rows of the batch.
Locked(b) == \E w \in Workers : request[w].op = "normalize" /\ request[w].batch = b

\* The rows a handler has loaded are still there.
Current(b, run) == batch[b].run = run /\ ~Locked(b)

CommitNormalize(w) ==
    LET r == request[w]
    IN  /\ r.op = "normalize"
        /\ batch[r.batch].run = r.run
        /\ batch' = [batch EXCEPT ![r.batch] =
             [status |-> Written(@.status, r.loaded, "normalized"), run |-> @.run + 1]]
        /\ row' = [l \in Lines |->
             IF l \notin LinesOf(r.batch) THEN row[l]
             ELSE [status |-> IF ~IsValid(l) THEN "invalid"
                              ELSE IF r.found[l] # 0 THEN "duplicate" ELSE "valid",
                   effect |-> 0]]
        /\ cand' = [l \in Lines |->
             IF l \notin LinesOf(r.batch) THEN cand[l]
             ELSE IF r.found[l] = 0 THEN NoCand
             ELSE [status |-> "open", target |-> r.found[l]]]
        /\ Done(w)
        /\ UNCHANGED <<directory, links, merges>>

-----------------------------------------------------------------------------
(* Application of a batch.                                                 *)

\* What apply_import_batch makes of a row: it is counted, left for review,
\* taken as ignored, or imported.
Waiting(l) ==
    /\ row[l].status \notin Settled
    /\ IsValid(l)
    /\ cand[l].status \in Unresolved

Importable(b) ==
    {l \in LinesOf(b) :
        /\ row[l].status \notin Settled
        /\ IsValid(l)
        /\ cand[l].status \notin Unresolved \cup {"ignored"}}

NewlyIgnored(b) ==
    {l \in LinesOf(b) :
        /\ row[l].status \notin Settled
        /\ IsValid(l)
        /\ cand[l].status = "ignored"}

\* Ids no entry has and no application in progress is about to use (uuid4).
Reserved ==
    UNION {request[w].new : w \in {v \in Workers : request[v].op = "apply"}}
FreeIds == {i \in Ids : ~Exists(i)} \ Reserved

\* The lines of a batch that need an entry of their own: every line of a member
\* batch; of a roster batch, the first line of each name the directory has not.
Creators(b, lines) ==
    IF b \notin Roster THEN lines
    ELSE {l \in lines : /\ Named(Csv[l].name) = {}
                        /\ \A k \in lines : Csv[k].name = Csv[l].name => l <= k}

\* The entry of each line: its own, a known one of that name, or the one an
\* earlier line of the batch creates (_find_or_create_directory_entry).
Placed(b, lines, at) ==
    LET creators == Creators(b, lines)
        new      == {at[l] : l \in creators}
    IN  /\ new \subseteq FreeIds
        /\ Cardinality(new) = Cardinality(creators)
        /\ \A i \in FreeIds \ new, j \in new : j < i
        /\ \A l, k \in creators : l < k => at[l] < at[k]
        /\ \A l \in lines \ creators :
             IF Named(Csv[l].name) # {} THEN at[l] \in Named(Csv[l].name)
             ELSE \E k \in creators : Csv[k].name = Csv[l].name /\ at[l] = at[k]

\* apply_import_batch, up to its commit.
ApplyImportBatch(w, b) ==
    /\ Free(w)
    /\ batch[b].status \in {"normalized", "needs_review", "processed"}
    /\ LET lines == Importable(b)
       IN  \E at \in [lines -> Ids] :
             /\ Placed(b, lines, at)
             /\ request' = [request EXCEPT ![w] =
                  [op |-> "apply", batch |-> b, run |-> batch[b].run,
                   loaded |-> batch[b].status,
                   status |-> IF \E l \in LinesOf(b) : Waiting(l)
                              THEN "needs_review" ELSE "processed",
                   at |-> at, ignored |-> NewlyIgnored(b),
                   creators |-> Creators(b, lines),
                   new |-> {at[l] : l \in Creators(b, lines)}]]
    /\ UNCHANGED <<batch, row, cand, directory, links, merges>>

\* Faulty variant of LinksOf: a performer found in the directory gets no link.
LinksOfNew(r) == {<<r.at[l], Csv[l].title>> : l \in r.creators}

\* _ensure_performer_repertoire_link, for every line of a roster batch.
LinksOf(r) == {<<r.at[l], Csv[l].title>> : l \in DOMAIN r.at}

CommitApply(w) ==
    LET r    == request[w]
        mine == DOMAIN r.at
    IN  /\ r.op = "apply"
        /\ mine \cup r.ignored # {} => Current(r.batch, r.run)
        /\ batch' = [batch EXCEPT ![r.batch].status = Written(@, r.loaded, r.status)]
        /\ row' = [l \in Lines |->
             IF l \in mine THEN [status |-> "applied", effect |-> r.at[l]]
             ELSE IF l \in r.ignored THEN [row[l] EXCEPT !.status = "ignored"]
             ELSE row[l]]
        /\ directory' = [i \in Ids |->
             IF i \in r.new THEN NewEntry(CHOOSE l \in r.creators : r.at[l] = i)
             ELSE directory[i]]
        /\ links' = links \cup (IF r.batch \in Roster THEN LinksOf(r) ELSE {})
        /\ Done(w)
        /\ UNCHANGED <<cand, merges>>

-----------------------------------------------------------------------------
(* Review of duplicates.                                                   *)

\* get_duplicate_candidate_for_scope: the row has a candidate.
HasCandidate(l) == cand[l].status # "absent"

\* A review request whose first query was the one of that stage.
Review(op, stage, l, i) ==
    [op |-> op, stage |-> stage, batch |-> Csv[l].batch, run |-> batch[Csv[l].batch].run,
     line |-> l, target |-> i, cand |-> cand[l], row |-> NoRow, lives |-> TRUE,
     fields |-> {}, before |-> NoEntry, merge |-> 0]

\* ignore_duplicate loads the candidate, whatever its status.
IgnoreDuplicate(w, l) ==
    /\ Free(w)
    /\ HasCandidate(l)
    /\ request' = [request EXCEPT ![w] = Review("ignore", "candidate", l, cand[l].target)]
    /\ UNCHANGED <<batch, row, cand, directory, links, merges>>

\* The query for the row of the candidate.  Ignoring and undoing have changed
\* the candidate by then: the query flushes that change first, and waits for
\* the locks of others.
LoadRow(w) ==
    LET r == request[w]
    IN  /\ r.op \in {"ignore", "merge", "undo"}
        /\ r.stage = "candidate"
        /\ r.lives
        /\ batch[r.batch].run = r.run
        /\ r.op # "merge" => ~Locked(r.batch) /\ ~CandidateHeld(r.line)
        /\ request' = [request EXCEPT ![w] =
             [@ EXCEPT !.stage = "row", !.row = row[r.line]]]
        /\ UNCHANGED <<batch, row, cand, directory, links, merges>>

CommitIgnore(w) ==
    LET r == request[w]
    IN  /\ r.op = "ignore"
        /\ r.stage = "row"
        /\ Current(r.batch, r.run)
        /\ cand' = [cand EXCEPT ![r.line].status = Written(@, r.cand.status, "ignored")]
        /\ row' = [row EXCEPT ![r.line].status = Written(@, r.row.status, "ignored")]
        /\ Done(w)
        /\ UNCHANGED <<batch, directory, links, merges>>

\* Faulty variant of Fillable: filled fields of the entry are overwritten.
FillableAny(l, entry) == {f \in Field : Csv[l][f] # Blank /\ entry[f] # Csv[l][f]}

\* The fields of the line that fill a blank field of the entry.
Fillable(l, entry) == {f \in Field : Csv[l][f] # Blank /\ entry[f] = Blank}

\* merge_duplicate loads the candidate, which must be open.
MergeDuplicate(w, l) ==
    /\ Free(w)
    /\ HasCandidate(l)
    /\ cand[l].status \in Unresolved
    /\ Len(merges) + Cardinality({v \in Workers : request[v].op = "merge"}) < MaxMerges
    /\ request' = [request EXCEPT ![w] = Review("merge", "candidate", l, cand[l].target)]
    /\ UNCHANGED <<batch, row, cand, directory, links, merges>>

\* merge_duplicate_candidate loads the entry after the row, and tells the fields
\* to fill.
LoadMergeTarget(w) ==
    LET r == request[w]
    IN  /\ r.op = "merge"
        /\ r.stage = "row"
        /\ request' = [request EXCEPT ![w] =
             [@ EXCEPT !.stage = "target", !.fields = Fillable(r.line, directory[r.target]),
                       !.before = directory[r.target]]]
        /\ UNCHANGED <<batch, row, cand, directory, links, merges>>

\* The flush of an undo has locked the entry.
EntryHeld(i) ==
    \E w \in Workers :
        /\ request[w].op = "undo"
        /\ request[w].stage \in {"candidate", "row"}
        /\ request[w].target = i

\* The entry with the fields of a merge set to the line's values.
Filled(entry, l, fields) ==
    [entry EXCEPT !.email = IF "email" \in fields THEN Csv[l].email ELSE @,
                  !.phone = IF "phone" \in fields THEN Csv[l].phone ELSE @]

\* The row of import_merge_actions for a merge: what it filled, and the entry
\* as it was before.
MergeAction(r) ==
    [line |-> r.line, run |-> r.run, target |-> r.target, fields |-> r.fields,
     before |-> r.before, undone |-> FALSE]

CommitMerge(w) ==
    LET r == request[w]
    IN  /\ r.op = "merge"
        /\ r.stage = "target"
        /\ ~EntryHeld(r.target)
        /\ ~CandidateHeld(r.line)
        /\ Current(r.batch, r.run)
        /\ directory' = [directory EXCEPT ![r.target] = Filled(@, r.line, r.fields)]
        /\ merges' = Append(merges, MergeAction(r))
        /\ cand' = [cand EXCEPT ![r.line].status = "merged"]
        /\ row' = [row EXCEPT ![r.line] =
             [status |-> Written(@.status, r.row.status, "merged"),
              effect |-> Written(@.effect, r.row.effect, r.target)]]
        /\ Done(w)
        /\ UNCHANGED <<batch, links>>

\* The candidate a merge belongs to, unless a normalization has replaced it.
CandidateLives(m) == batch[Csv[m.line].batch].run = m.run

\* undo_merge loads the action, which must not be undone.
UndoMerge(w, k) ==
    /\ Free(w)
    /\ ~merges[k].undone
    /\ request' = [request EXCEPT ![w] =
         [Review("undo", "action", merges[k].line, merges[k].target) EXCEPT !.merge = k]]
    /\ UNCHANGED <<batch, row, cand, directory, links, merges>>

\* undo_merge_action loads the entry: refused after the merged fields changed.
LoadUndoTarget(w) ==
    LET r == request[w]
        m == merges[r.merge]
    IN  /\ r.op = "undo"
        /\ r.stage = "action"
        /\ \A f \in m.fields : directory[m.target][f] = Csv[m.line][f]
        /\ request' = [request EXCEPT ![w] = [@ EXCEPT !.stage = "target"]]
        /\ UNCHANGED <<batch, row, cand, directory, links, merges>>

\* undo_merge_action flushes the entry and the action, and loads the candidate.
LoadCandidate(w) ==
    LET r == request[w]
        m == merges[r.merge]
    IN  /\ r.op = "undo"
        /\ r.stage = "target"
        /\ ~EntryHeld(r.target)
        /\ request' = [request EXCEPT ![w] =
             [@ EXCEPT !.stage = "candidate", !.run = batch[r.batch].run,
                       !.lives = CandidateLives(m), !.cand = cand[r.line]]]
        /\ UNCHANGED <<batch, row, cand, directory, links, merges>>

\* The entry with the fields of a merge set back to what they were before it.
Restored(entry, m) ==
    [entry EXCEPT !.email = IF "email" \in m.fields THEN m.before.email ELSE @,
                  !.phone = IF "phone" \in m.fields THEN m.before.phone ELSE @]

\* Faulty variant of Reopened: the row stays merged.
ReopenedCandidateOnly(record, loaded) == record

\* Faulty variant of Reopened: the row gets the status of the candidate.
ReopenedAsCandidate(record, loaded) == [status |-> "undo_applied", effect |-> 0]

\* The row of an undone merge is a duplicate without effect again.
Reopened(record, loaded) ==
    [status |-> Written(record.status, loaded.status, "duplicate"),
     effect |-> Written(record.effect, loaded.effect, 0)]

CommitUndo(w) ==
    LET r == request[w]
    IN  /\ r.op = "undo"
        /\ r.stage = IF r.lives THEN "row" ELSE "candidate"
        /\ r.lives => Current(r.batch, r.run)
        /\ directory' = [directory EXCEPT ![r.target] = Restored(@, merges[r.merge])]
        /\ merges' = [merges EXCEPT ![r.merge].undone = TRUE]
        /\ IF r.lives
           THEN /\ cand' = [cand EXCEPT ![r.line].status =
                              Written(@, r.cand.status, "undo_applied")]
                /\ row' = [row EXCEPT ![r.line] = Reopened(@, r.row)]
           ELSE UNCHANGED <<cand, row>>
        /\ Done(w)
        /\ UNCHANGED <<batch, links>>

-----------------------------------------------------------------------------
\* A request fails: its transaction is rolled back.
AbortRequest(w) ==
    /\ ~Free(w)
    /\ Done(w)
    /\ UNCHANGED <<batch, row, cand, directory, links, merges>>

Load(w) ==
    \/ LoadRow(w)
    \/ LoadMergeTarget(w)
    \/ LoadUndoTarget(w)
    \/ LoadCandidate(w)

Commit(w) ==
    \/ CommitNormalize(w)
    \/ CommitApply(w)
    \/ CommitIgnore(w)
    \/ CommitMerge(w)
    \/ CommitUndo(w)

Start(w) ==
    \/ \E b \in Batches : NormalizeImportBatch(w, b) \/ ApplyImportBatch(w, b)
    \/ \E l \in Lines : IgnoreDuplicate(w, l) \/ MergeDuplicate(w, l)
    \/ \E k \in DOMAIN merges : UndoMerge(w, k)

Next ==
    \/ \E b \in Batches : UploadImportBatch(b)
    \/ \E w \in Workers : Start(w) \/ Load(w) \/ Commit(w) \/ AbortRequest(w)

Spec == Init /\ [][Next]_vars

-----------------------------------------------------------------------------
(* Requests that do not meet: no two of them are about one batch, or one   *)
(* directory entry, at a time.  The code does not enforce this; it         *)
(* separates what overlapping requests break from what a sequence of       *)
(* requests can.                                                           *)

Target(w) == IF request[w].op \in {"ignore", "merge", "undo"} THEN {request[w].target} ELSE {}

Apart ==
    \A v, w \in Workers :
        v # w /\ ~Free(v) /\ ~Free(w) =>
            /\ request[v].batch # request[w].batch
            /\ Target(v) \cap Target(w) = {}

ApartSpec == Init /\ [][Next /\ Apart']_vars

-----------------------------------------------------------------------------
(* Properties.                                                             *)

\* Every column holds a value of its kind; merges and runs stay in their bounds.
TypeOK ==
    /\ batch \in [Batches -> [status : BatchStatus, run : 0..MaxRuns]]
    /\ row \in [Lines -> [status : RowStatus, effect : Ids \cup {0}]]
    /\ cand \in [Lines -> [status : CandStatus, target : Ids \cup {0}]]
    /\ \A i \in Ids : directory[i].source \in Lines \cup {0}
    /\ links \subseteq Ids \X {Csv[l].title : l \in Lines}
    /\ Len(merges) <= MaxMerges

\* A line becomes an entry at most once: the second time, it is found to be a
\* duplicate of its own entry (_find_member_duplicate).
ImportedOnce ==
    \A l \in Lines : Cardinality({i \in Ids : directory[i].source = l}) <= 1

\* A row that counts as applied has its effect: the entry made from it, or the
\* link between the performer and the title it names.
AppliedHasEffect ==
    \A l \in Lines :
        row[l].status = "applied" =>
            /\ row[l].effect # 0
            /\ directory[row[l].effect].name = Csv[l].name
            /\ IF Csv[l].batch \in Roster
               THEN <<row[l].effect, Csv[l].title>> \in links
               ELSE directory[row[l].effect].source = l

\* Row and candidate tell the same.
SettledTogether ==
    \A l \in Lines :
        /\ row[l].status = "merged" <=> cand[l].status = "merged"
        /\ row[l].status = "ignored" <=> cand[l].status = "ignored"
        /\ row[l].status = "duplicate" <=> cand[l].status \in Unresolved

\* The fields of an entry are those it was created with plus those of the merges
\* not undone, of which no two fill the same field: so every merge can be undone
\* exactly, in any order.
Original(i) == IF directory[i].source = 0 THEN Seed(i) ELSE NewEntry(directory[i].source)

Live(i, f) ==
    {k \in DOMAIN merges : ~merges[k].undone /\ merges[k].target = i /\ f \in merges[k].fields}

FieldsExplained ==
    \A i \in Ids : Exists(i) =>
        \A f \in Field :
            /\ Cardinality(Live(i, f)) <= 1
            /\ directory[i][f] = IF Live(i, f) = {} THEN Original(i)[f]
                                 ELSE Csv[merges[CHOOSE k \in Live(i, f) : TRUE].line][f]

\* The directory holds what the files said, once: no line became two entries,
\* however often its batch was normalized and applied, and each field of an
\* entry is its own or that of the one merge that filled it and was not undone
\* (apply_import_batch, merge_duplicate_candidate, undo_merge_action).
DirectoryExplained == ImportedOnce /\ FieldsExplained

\* Row, candidate and directory hold values of their kinds and are settled
\* together, through every order of applying, merging, ignoring, undoing and
\* normalizing again.
RowsSettled == TypeOK /\ SettledTogether /\ AppliedHasEffect
=============================================================================
