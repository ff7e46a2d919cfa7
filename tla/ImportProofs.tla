---------------------------- MODULE ImportProofs ----------------------------
(***************************************************************************)
(* What ImportPipeline promises for any files, batches and directory:      *)
(* while requests about one batch or one entry do not meet, the directory  *)
(* is explained by the files and the merges, and rows and candidates are   *)
(* settled together; however they overlap, no entry loses what is its own. *)
(***************************************************************************)
EXTENDS ImportPipeline, FiniteSetTheorems, SequenceTheorems, TLAPS

Value ==
    {Blank} \cup {Csv[l].name : l \in Lines} \cup {Csv[l].email : l \in Lines}
            \cup {Csv[l].phone : l \in Lines} \cup {Seeded[i].name : i \in DOMAIN Seeded}
            \cup {Seeded[i].email : i \in DOMAIN Seeded}
            \cup {Seeded[i].phone : i \in DOMAIN Seeded}

Entry == [name : Value, email : Value, phone : Value, source : Lines \cup {0}]

MergeRow == [line : Lines, run : 0..MaxRuns, target : Ids, fields : SUBSET Field,
             before : Entry, undone : BOOLEAN]

ReviewRequest ==
    [op : {"ignore", "merge", "undo"}, stage : {"action", "target", "candidate", "row"},
     batch : Batches, run : 0..MaxRuns, line : Lines, target : Ids,
     cand : [status : CandStatus, target : Ids \cup {0}],
     row : [status : RowStatus, effect : Ids \cup {0}], lives : BOOLEAN,
     fields : SUBSET Field, before : Entry, merge : Nat]

\* The merge actions there are and those about to be.
Merging == {w \in Workers : request[w].op = "merge"}

MergesBounded == Len(merges) + Cardinality(Merging) <= MaxMerges

Columns ==
    /\ batch \in [Batches -> [status : BatchStatus, run : 0..MaxRuns]]
    /\ row \in [Lines -> [status : RowStatus, effect : Ids \cup {0}]]
    /\ cand \in [Lines -> [status : CandStatus, target : Ids \cup {0}]]
    /\ directory \in [Ids -> Entry]
    /\ links \subseteq Ids \X {Csv[l].title : l \in Lines}
    /\ merges \in Seq(MergeRow)
    /\ DOMAIN request = Workers

\* An entry has a name; an imported one that of its line, whose row, if it is a
\* member's, was imported or is found to be a duplicate.
EntriesKnown ==
    /\ \A i \in Ids : Exists(i) => directory[i].name # Blank
    /\ \A i \in Ids : directory[i].source # 0 =>
         LET l == directory[i].source IN
         /\ directory[i].name = Csv[l].name /\ IsValid(l)
         /\ Csv[l].batch \notin Roster => row[l].status = "applied" \/ cand[l].status # "absent"
    /\ \A i, j \in Ids : directory[i].source = directory[j].source => i = j \/ directory[i].source = 0
    /\ \A l \in Lines : cand[l].status # "absent" => cand[l].target \in Ids /\ Exists(cand[l].target)
    /\ \A l \in Lines : row[l].status = "applied" => Csv[l].name # Blank

\* A merge filled blank fields of its entry, and no other one fills them while
\* it is not undone.
MergeKnown(m) ==
    /\ Exists(m.target)
    /\ m.run <= batch[Csv[m.line].batch].run
    /\ CandidateLives(m) => cand[m.line].status # "absent"
    /\ \A f \in m.fields : /\ Csv[m.line][f] # Blank
                           /\ m.before[f] = Blank /\ Original(m.target)[f] = Blank

Fills(k, i, f) == ~ merges[k].undone /\ merges[k].target = i /\ f \in merges[k].fields

MergesKnown ==
    /\ \A k \in DOMAIN merges : MergeKnown(merges[k])
    /\ \A j, k \in DOMAIN merges : \A i \in Ids, f \in Field : Fills(j, i, f) /\ Fills(k, i, f) => j = k
    /\ \A i \in Ids, f \in Field : Exists(i) =>
         /\ \A k \in DOMAIN merges : Fills(k, i, f) => directory[i][f] = Csv[merges[k].line][f]
         /\ (\A k \in DOMAIN merges : ~ Fills(k, i, f)) => directory[i][f] = Original(i)[f]

\* What a request has read is still so.
Reviewing(r) ==
    /\ r \in ReviewRequest /\ Csv[r.line].batch = r.batch
    /\ r.cand = cand[r.line]
    /\ r.stage = "row" => r.row = row[r.line]

Normalizes(r) ==
    /\ r.run < MaxRuns
    /\ r.loaded = batch[r.batch].status /\ r.loaded # "absent"
    /\ \A l \in LinesOf(r.batch) :
         /\ r.found[l] \in Ids \cup {0}
         /\ r.found[l] # 0 => IsValid(l) /\ Exists(r.found[l])
         /\ Csv[l].batch \notin Roster /\ (\E i \in Ids : directory[i].source = l) => r.found[l] # 0

Applies(r) ==
    /\ r.loaded = batch[r.batch].status /\ r.loaded # "absent"
    /\ r.status \in BatchStatus
    /\ r.ignored = {}
    /\ DOMAIN r.at \subseteq LinesOf(r.batch) /\ r.creators \subseteq DOMAIN r.at
    /\ r.batch \notin Roster => r.creators = DOMAIN r.at
    /\ r.new = {r.at[l] : l \in r.creators}
    /\ \A l \in DOMAIN r.at : /\ r.at[l] \in Ids /\ IsValid(l)
                              /\ cand[l].status = "absent"
    /\ \A l \in r.creators : /\ ~ Exists(r.at[l])
                             /\ \A i \in Ids : directory[i].source # l
                             /\ \A k \in r.creators : l < k => r.at[l] < r.at[k]
    /\ \A l \in DOMAIN r.at \ r.creators :
         \/ Exists(r.at[l]) /\ directory[r.at[l]].name = Csv[l].name
         \/ \E k \in r.creators : Csv[k].name = Csv[l].name /\ r.at[l] = r.at[k]

Ignores(r) ==
    /\ Reviewing(r)
    /\ r.stage \in {"candidate", "row"}
    /\ r.cand.status # "absent"

Merges(r) ==
    /\ Reviewing(r)
    /\ r.stage \in {"candidate", "row", "target"}
    /\ r.cand.status # "absent" /\ r.target = r.cand.target
    /\ r.stage = "target" =>
         /\ r.row = row[r.line]
         /\ r.before = directory[r.target]
         /\ r.fields = Fillable(r.line, directory[r.target])

Undoes(r) ==
    /\ Reviewing(r)
    /\ r.merge \in DOMAIN merges
    /\ ~ merges[r.merge].undone
    /\ r.target = merges[r.merge].target /\ r.line = merges[r.merge].line
    /\ r.stage \in {"candidate", "row"} => r.lives = CandidateLives(merges[r.merge])

Fresh(r) ==
    /\ r.op \in {"none", "normalize", "apply", "ignore", "merge", "undo"}
    /\ r.op = "none" => r = Idle
    /\ r.op # "none" => r.batch \in Batches /\ r.run = batch[r.batch].run
    /\ r.op = "normalize" => Normalizes(r)
    /\ r.op = "apply" => Applies(r)
    /\ r.op = "ignore" => Ignores(r)
    /\ r.op = "merge" => Merges(r)
    /\ r.op = "undo" => Undoes(r)

NewApart ==
    \A v, w \in Workers :
        v # w /\ request[v].op = "apply" /\ request[w].op = "apply" =>
            request[v].new \cap request[w].new = {}

ImportInv ==
    /\ Columns
    /\ MergesBounded
    /\ SettledTogether
    /\ AppliedHasEffect
    /\ EntriesKnown
    /\ MergesKnown
    /\ \A w \in Workers : Fresh(request[w])
    /\ NewApart
    /\ Apart

-----------------------------------------------------------------------------
LEMMA LinesApart == \A l \in Lines : l \in Nat /\ l # 0
  BY CsvAssumption

LEMMA MergersFinite ==
    ASSUME NEW S \in SUBSET Workers
    PROVE  IsFiniteSet(S) /\ Cardinality(S) \in Nat
  BY BoundsAssumption, FS_Subset, FS_CardinalityType

LEMMA ValueOfLine ==
    ASSUME NEW l \in Lines
    PROVE  /\ Csv[l].name \in Value /\ Csv[l].email \in Value /\ Csv[l].phone \in Value
           /\ Blank \in Value /\ NewEntry(l) \in Entry
           /\ NewEntry(l).name = Csv[l].name /\ NewEntry(l).source = l
  BY DEF Value, Entry, NewEntry, Performer, Member

LEMMA NoEntryTyped ==
    NoEntry \in Entry /\ NoEntry.name = Blank /\ NoEntry.source = 0
  BY DEF NoEntry, Entry, Value

LEMMA InitImport == Init => ImportInv
  <1> SUFFICES ASSUME Init PROVE ImportInv
    OBVIOUS
  <1>1. ASSUME NEW i \in DOMAIN Seeded PROVE Seed(i) \in Entry /\ Seed(i).name # Blank
                                             /\ Seed(i).source = 0
    BY <1>1, SeededAssumption DEF Seed, Entry, Value
  <1>2. \A i \in Ids : /\ directory[i] \in Entry /\ directory[i].source = 0
                       /\ Exists(i) => directory[i] = Seed(i) /\ directory[i].name # Blank
    BY <1>1, NoEntryTyped DEF Init, Exists
  <1>3. Columns
    <2>1. merges \in Seq(MergeRow) /\ 0 \in 0..MaxRuns
      BY BoundsAssumption DEF Init
    <2>2. directory \in [Ids -> Entry]
      BY <1>2 DEF Init
    <2> QED
      BY <2>1, <2>2 DEF Init, Columns, NoRow, NoCand, RowStatus, CandStatus, BatchStatus
  <1>4. MergesBounded
    <2>1. Merging = {}
      BY DEF Init, Merging, Idle
    <2> QED
      BY <2>1, FS_EmptySet, BoundsAssumption DEF Init, MergesBounded
  <1>5. SettledTogether /\ AppliedHasEffect
    BY DEF Init, SettledTogether, AppliedHasEffect, NoRow, NoCand, Unresolved
  <1>6. EntriesKnown
    BY <1>2 DEF Init, EntriesKnown, NoCand, NoRow
  <1>7. MergesKnown
    <2>1. DOMAIN merges = {}
      BY DEF Init
    <2> QED
      BY <1>2, <2>1 DEF MergesKnown, Original
  <1>8. (\A w \in Workers : Fresh(request[w])) /\ NewApart /\ Apart
    BY DEF Init, Fresh, Idle, NewApart, Apart, Free
  <1> QED
    BY <1>3, <1>4, <1>5, <1>6, <1>7, <1>8 DEF ImportInv

-----------------------------------------------------------------------------
(* A request begins: nothing but its own place changes.                    *)

Tables == <<batch, row, cand, directory, links, merges>>

LEMMA TablesKept ==
    ASSUME ImportInv, UNCHANGED Tables
    PROVE  /\ batch' = batch /\ row' = row /\ cand' = cand /\ directory' = directory
           /\ links' = links /\ merges' = merges
           /\ SettledTogether' /\ AppliedHasEffect' /\ EntriesKnown' /\ MergesKnown'
           /\ \A r : Fresh(r) => Fresh(r)'
  <1>1. /\ batch' = batch /\ row' = row /\ cand' = cand /\ directory' = directory
        /\ links' = links /\ merges' = merges
    BY DEF Tables
  <1>2. SettledTogether' /\ AppliedHasEffect' /\ EntriesKnown' /\ MergesKnown'
    BY <1>1 DEF ImportInv, SettledTogether, AppliedHasEffect, EntriesKnown, MergesKnown,
       MergeKnown, Exists, CandidateLives, Fills, Original
  <1>3. \A r : Fresh(r) => Fresh(r)'
    BY <1>1 DEF Fresh, Normalizes, Applies, Reviewing, Ignores, Merges, Undoes, CandidateLives,
       Exists, Fillable
  <1> QED
    BY <1>1, <1>2, <1>3

\* A worker's request may be named.
LEMMA FreshNamed ==
    ASSUME NEW v \in Workers, NEW r, request'[v] = r, Fresh(r)'
    PROVE  Fresh(request[v])'
  <1>1. Reviewing(r)' => Reviewing(request[v])'
    BY DEF Reviewing
  <1>2. Normalizes(r)' => Normalizes(request[v])'
    BY DEF Normalizes
  <1>3. Applies(r)' => Applies(request[v])'
    BY DEF Applies
  <1>a. Ignores(r)' => Ignores(request[v])'
    BY <1>1 DEF Ignores
  <1>4. Merges(r)' => Merges(request[v])'
    BY <1>1 DEF Merges
  <1>5. Undoes(r)' => Undoes(request[v])'
    BY <1>1 DEF Undoes
  <1> QED
    BY <1>1, <1>2, <1>3, <1>a, <1>4, <1>5 DEF Fresh

LEMMA Starts ==
    ASSUME ImportInv, NEW w \in Workers, NEW r, request' = [request EXCEPT ![w] = r],
           UNCHANGED Tables, Apart', Fresh(r), MergesBounded',
           r.op = "apply" => \A v \in Workers \ {w} :
                request[v].op = "apply" => request[v].new \cap r.new = {}
    PROVE  ImportInv'
  <1>1. DOMAIN request' = Workers /\ request'[w] = r
        /\ \A v \in Workers \ {w} : request'[v] = request[v]
    BY DEF ImportInv, Columns
  <1>2. Columns'
    BY <1>1, TablesKept DEF ImportInv, Columns
  <1>3. \A v \in Workers : Fresh(request[v])'
    <2> SUFFICES ASSUME NEW v \in Workers PROVE Fresh(request[v])'
      OBVIOUS
    <2>1. PICK x : x = IF v = w THEN r ELSE request[v]
      OBVIOUS
    <2>2. Fresh(x) /\ request'[v] = x
      BY <1>1, <2>1 DEF ImportInv
    <2>3. Fresh(x)'
      BY <2>2, TablesKept
    <2> QED
      BY <2>2, <2>3, FreshNamed
  <1>4. NewApart'
    BY <1>1 DEF ImportInv, NewApart
  <1> QED
    BY <1>2, <1>3, <1>4, TablesKept DEF ImportInv

\* A request that is no new merge leaves the bound alone.
LEMMA BoundKept ==
    ASSUME Columns, MergesBounded, NEW w \in Workers, NEW r, request' = [request EXCEPT ![w] = r],
           r.op = "merge" => request[w].op = "merge", Len(merges') = Len(merges)
    PROVE  MergesBounded'
  <1>1. Merging' \subseteq Merging
    BY DEF Merging, Columns
  <1>2. IsFiniteSet(Merging) /\ Cardinality(Merging) \in Nat /\ Cardinality(Merging') \in Nat
    BY <1>1, MergersFinite DEF Merging
  <1>3. Cardinality(Merging') <= Cardinality(Merging)
    BY <1>1, <1>2, FS_Subset
  <1> QED
    BY <1>2, <1>3, BoundsAssumption DEF MergesBounded, Columns

\* A merge becomes a merge action when it commits.
LEMMA BoundAtCommit ==
    ASSUME Columns, MergesBounded, NEW w \in Workers, Done(w),
           Len(merges') = Len(merges) \/
             (Len(merges') = Len(merges) + 1 /\ request[w].op = "merge")
    PROVE  MergesBounded'
  <1>1. CASE Len(merges') = Len(merges)
    <2>1. Idle.op # "merge" /\ request' = [request EXCEPT ![w] = Idle]
      BY DEF Done, Idle
    <2> QED
      BY <1>1, <2>1, BoundKept
  <1>2. CASE Len(merges') = Len(merges) + 1 /\ request[w].op = "merge"
    <2>1. Merging' = Merging \ {w} /\ w \in Merging
      BY <1>2 DEF Done, Merging, Idle, Columns
    <2>2. IsFiniteSet(Merging) /\ Cardinality(Merging) \in Nat
      BY MergersFinite DEF Merging
    <2>3. Cardinality(Merging \ {w}) = Cardinality(Merging) - 1
      BY <2>1, <2>2, FS_RemoveElement
    <2> QED
      BY <1>2, <2>1, <2>2, <2>3, BoundsAssumption DEF MergesBounded, Columns
  <1> QED
    BY <1>1, <1>2

\* A merge that begins is within the bound.
LEMMA BoundAtMerge ==
    ASSUME Columns, NEW w \in Workers, NEW l \in Lines, MergeDuplicate(w, l)
    PROVE  MergesBounded'
  <1>1. PICK r : r.op = "merge" /\ request' = [request EXCEPT ![w] = r]
    BY DEF MergeDuplicate, Review
  <1>2. Merging' = Merging \cup {w}
    BY <1>1 DEF Merging, Columns
  <1>3. /\ IsFiniteSet(Merging) /\ Cardinality(Merging) \in Nat
        /\ Len(merges) + Cardinality(Merging) < MaxMerges
    BY MergersFinite DEF Merging, MergeDuplicate
  <1>4. Cardinality(Merging') <= Cardinality(Merging) + 1 /\ Cardinality(Merging') \in Nat
    <2>1. /\ IsFiniteSet(Merging \cup {w})
          /\ Cardinality(Merging \cup {w}) =
               IF w \in Merging THEN Cardinality(Merging) ELSE Cardinality(Merging) + 1
      BY <1>3, FS_AddElement, Zenon
    <2> QED
      BY <1>2, <1>3, <2>1, FS_CardinalityType
  <1> QED
    BY <1>3, <1>4, BoundsAssumption DEF MergesBounded, MergeDuplicate, Columns

\* A member line that became an entry is a duplicate of it.
LEMMA LookedFinds ==
    ASSUME ImportInv, NEW l \in Lines
    PROVE  /\ \A i \in Looked(l) : IsValid(l) /\ i \in Ids /\ Exists(i)
           /\ Csv[l].batch \notin Roster /\ (\E i \in Ids : directory[i].source = l)
                => Looked(l) # {}
  <1>1. \A i \in Looked(l) : IsValid(l) /\ i \in Ids /\ Exists(i)
    BY DEF Looked, Duplicates, Named
  <1>2. ASSUME Csv[l].batch \notin Roster, NEW i \in Ids, directory[i].source = l
        PROVE  Looked(l) # {}
    <2>1. l # 0 /\ directory[i].name = Csv[l].name /\ IsValid(l)
      BY <1>2, LinesApart DEF ImportInv, EntriesKnown
    <2>2. Exists(i)
      BY <1>2, <2>1, NoEntryTyped DEF Exists
    <2>3. i \in Named(Csv[l].name)
      BY <2>1, <2>2 DEF Named
    <2> QED
      BY <1>2, <2>1, <2>3 DEF Looked, Duplicates
  <1> QED
    BY <1>1, <1>2

LEMMA NormalizeStarts ==
    ASSUME ImportInv, Apart', NEW w \in Workers, NEW b \in Batches, NormalizeImportBatch(w, b)
    PROVE  ImportInv'
  <1>0. PICK found \in [LinesOf(b) -> Ids \cup {0}] :
          /\ \A l \in LinesOf(b) : found[l] \in IF Looked(l) = {} THEN {0} ELSE Looked(l)
          /\ request' = [request EXCEPT ![w] =
               [op |-> "normalize", batch |-> b, run |-> batch[b].run,
                loaded |-> batch[b].status, found |-> found]]
    BY DEF NormalizeImportBatch
  <1>1. PICK r : /\ r = [op |-> "normalize", batch |-> b, run |-> batch[b].run,
                         loaded |-> batch[b].status, found |-> found]
                 /\ request' = [request EXCEPT ![w] = r]
    BY <1>0
  <1>2. /\ r.op = "normalize" /\ r.batch = b /\ r.run = batch[b].run
        /\ r.loaded = batch[b].status /\ r.found = found
    BY <1>1
  <1>3. UNCHANGED Tables /\ r.loaded # "absent" /\ r.run < MaxRuns
    BY <1>2 DEF NormalizeImportBatch, Tables
  <1>4. \A l \in LinesOf(b) : l \in Lines /\ Csv[l].batch = b
    BY DEF LinesOf
  <1>5. ASSUME NEW l \in LinesOf(b)
        PROVE  /\ found[l] \in Ids \cup {0}
               /\ found[l] # 0 => IsValid(l) /\ Exists(found[l])
               /\ Csv[l].batch \notin Roster /\ (\E i \in Ids : directory[i].source = l)
                    => found[l] # 0
    <2>1. found[l] \in IF Looked(l) = {} THEN {0} ELSE Looked(l)
      BY <1>0
    <2>2. \A i \in Ids : i # 0
      BY BoundsAssumption DEF Ids
    <2> QED
      BY <1>4, <2>1, <2>2, LookedFinds
  <1>6. Fresh(r)
    BY <1>2, <1>3, <1>5 DEF Fresh, Normalizes
  <1> QED
    BY <1>1, <1>2, <1>3, <1>6, Starts, BoundKept DEF Tables, ImportInv

\* The lines an application imports have no candidate, and if they are to
\* become entries, no entry.
LEMMA ImportableNew ==
    ASSUME ImportInv, NEW b \in Batches, NEW l \in Importable(b)
    PROVE  /\ l \in Lines /\ Csv[l].batch = b /\ IsValid(l) /\ cand[l].status = "absent"
           /\ l \in Creators(b, Importable(b)) => \A i \in Ids : directory[i].source # l
  <1>1. /\ l \in Lines /\ Csv[l].batch = b /\ IsValid(l) /\ row[l].status \notin Settled
        /\ cand[l].status \notin Unresolved \cup {"ignored"}
    BY DEF Importable, LinesOf
  <1>2. cand[l].status = "absent"
    BY <1>1 DEF ImportInv, Columns, SettledTogether, CandStatus, Settled
  <1>3. ASSUME l \in Creators(b, Importable(b)), NEW i \in Ids, directory[i].source = l
        PROVE  FALSE
    <2>1. l # 0 /\ directory[i].name = Csv[l].name
               /\ (Csv[l].batch \notin Roster => row[l].status = "applied" \/ cand[l].status # "absent")
      BY <1>1, <1>3, LinesApart DEF ImportInv, EntriesKnown
    <2>2. b \in Roster
      BY <1>1, <1>2, <2>1 DEF Settled
    <2>3. Exists(i)
      BY <1>3, <2>1, NoEntryTyped DEF Exists
    <2>4. i \in Named(Csv[l].name)
      BY <2>1, <2>3 DEF Named
    <2> QED
      BY <1>3, <2>2, <2>4 DEF Creators
  <1> QED
    BY <1>1, <1>2, <1>3

LEMMA NoneNewlyIgnored ==
    ASSUME ImportInv, NEW b \in Batches
    PROVE  NewlyIgnored(b) = {}
  BY DEF ImportInv, SettledTogether, NewlyIgnored, Settled, LinesOf

LEMMA ApplyStarts ==
    ASSUME ImportInv, Apart', NEW w \in Workers, NEW b \in Batches, ApplyImportBatch(w, b)
    PROVE  ImportInv'
  <1>1. PICK lines : lines = Importable(b)
    OBVIOUS
  <1>2. PICK creators : creators = Creators(b, lines)
    OBVIOUS
  <1>0. PICK at \in [lines -> Ids] :
          /\ Placed(b, lines, at)
          /\ request' = [request EXCEPT ![w] =
               [op |-> "apply", batch |-> b, run |-> batch[b].run,
                loaded |-> batch[b].status,
                status |-> IF \E l \in LinesOf(b) : Waiting(l)
                           THEN "needs_review" ELSE "processed",
                at |-> at, ignored |-> NewlyIgnored(b), creators |-> creators,
                new |-> {at[l] : l \in creators}]]
    BY <1>1, <1>2 DEF ApplyImportBatch
  <1>3. PICK r :
          /\ r = [op |-> "apply", batch |-> b, run |-> batch[b].run,
                  loaded |-> batch[b].status,
                  status |-> IF \E l \in LinesOf(b) : Waiting(l)
                             THEN "needs_review" ELSE "processed",
                  at |-> at, ignored |-> NewlyIgnored(b), creators |-> creators,
                  new |-> {at[l] : l \in creators}]
          /\ request' = [request EXCEPT ![w] = r]
    BY <1>0
  <1>4. /\ r.op = "apply" /\ r.batch = b /\ r.run = batch[b].run
        /\ r.loaded = batch[b].status /\ r.status \in BatchStatus
        /\ r.at = at /\ r.ignored = {} /\ r.creators = creators
        /\ r.new = {at[l] : l \in creators}
    BY <1>3, NoneNewlyIgnored DEF BatchStatus
  <1>5. UNCHANGED Tables /\ r.loaded # "absent"
    BY <1>4 DEF ApplyImportBatch, Tables
  <1>6. /\ creators \subseteq lines
        /\ b \notin Roster => creators = lines
        /\ r.new \subseteq FreeIds
        /\ \A l, k \in creators : l < k => at[l] < at[k]
        /\ \A l \in lines \ creators :
             IF Named(Csv[l].name) # {} THEN at[l] \in Named(Csv[l].name)
             ELSE \E k \in creators : Csv[k].name = Csv[l].name /\ at[l] = at[k]
    BY <1>0, <1>2, <1>4 DEF Placed, Creators
  <1>7. \A l \in lines : /\ l \in LinesOf(b) /\ IsValid(l) /\ cand[l].status = "absent"
                         /\ l \in creators => \A i \in Ids : directory[i].source # l
    BY <1>1, <1>2, ImportableNew DEF LinesOf
  <1>8. \A l \in creators : ~ Exists(at[l])
    BY <1>4, <1>6 DEF FreeIds
  <1>9. \A l \in lines \ creators :
           \/ Exists(at[l]) /\ directory[at[l]].name = Csv[l].name
           \/ \E k \in creators : Csv[k].name = Csv[l].name /\ at[l] = at[k]
    BY <1>6 DEF Named
  <1>10. Fresh(r)
    BY <1>3, <1>4, <1>5, <1>6, <1>7, <1>8, <1>9 DEF Fresh, Applies
  <1>11. \A v \in Workers \ {w} :
            request[v].op = "apply" => request[v].new \cap r.new = {}
    BY <1>6 DEF FreeIds, Reserved
  <1> QED
    BY <1>3, <1>4, <1>5, <1>10, <1>11, Starts, BoundKept DEF Tables, ImportInv

LEMMA NoRowTyped == NoRow \in [status : RowStatus, effect : Ids \cup {0}]
  BY DEF NoRow, RowStatus

LEMMA ReviewTyped ==
    ASSUME Columns, NEW op \in {"ignore", "merge", "undo"},
           NEW stage \in {"action", "candidate"}, NEW l \in Lines, NEW i \in Ids, NEW r,
           r = Review(op, stage, l, i)
    PROVE  /\ r \in ReviewRequest /\ r.op = op /\ r.stage = stage /\ r.line = l
           /\ r.batch = Csv[l].batch /\ r.batch \in Batches /\ r.run = batch[r.batch].run
           /\ r.target = i /\ r.cand = cand[l] /\ r.fields = {} /\ r.merge = 0
  <1>1. Csv[l].batch \in Batches /\ batch[Csv[l].batch].run \in 0..MaxRuns
        /\ cand[l] \in [status : CandStatus, target : Ids \cup {0}]
    BY CsvAssumption DEF Columns
  <1> QED
    BY <1>1, NoRowTyped, NoEntryTyped DEF Review, ReviewRequest

LEMMA IgnoreStarts ==
    ASSUME ImportInv, Apart', NEW w \in Workers, NEW l \in Lines, IgnoreDuplicate(w, l)
    PROVE  ImportInv'
  <1>1. PICK r : /\ r = Review("ignore", "candidate", l, cand[l].target)
                 /\ request' = [request EXCEPT ![w] = r]
    BY DEF IgnoreDuplicate
  <1>2. cand[l].status # "absent" /\ cand[l].target \in Ids
    BY DEF IgnoreDuplicate, HasCandidate, ImportInv, EntriesKnown
  <1>3. Fresh(r) /\ r.op = "ignore"
    BY <1>1, <1>2, ReviewTyped DEF ImportInv, Fresh, Reviewing, Ignores
  <1> QED
    BY <1>1, <1>3, Starts, BoundKept DEF IgnoreDuplicate, Tables, ImportInv

LEMMA MergeStarts ==
    ASSUME ImportInv, Apart', NEW w \in Workers, NEW l \in Lines, MergeDuplicate(w, l)
    PROVE  ImportInv'
  <1>1. PICK r : /\ r = Review("merge", "candidate", l, cand[l].target)
                 /\ request' = [request EXCEPT ![w] = r]
    BY DEF MergeDuplicate
  <1>2. cand[l].status # "absent" /\ cand[l].target \in Ids
    BY DEF MergeDuplicate, HasCandidate, ImportInv, EntriesKnown
  <1>3. Fresh(r) /\ r.op = "merge"
    BY <1>1, <1>2, ReviewTyped DEF ImportInv, Fresh, Reviewing, Merges
  <1>4. MergesBounded'
    BY BoundAtMerge DEF ImportInv
  <1> QED
    BY <1>1, <1>3, <1>4, Starts DEF MergeDuplicate, Tables

LEMMA UndoStarts ==
    ASSUME ImportInv, Apart', NEW w \in Workers, NEW k \in DOMAIN merges, UndoMerge(w, k)
    PROVE  ImportInv'
  <1>1. PICK m : m = merges[k] /\ m \in MergeRow
    BY DEF ImportInv, Columns
  <1>2. m.line \in Lines /\ m.target \in Ids /\ k \in Nat
    BY <1>1 DEF MergeRow, ImportInv, Columns
  <1>3. PICK q : q = Review("undo", "action", m.line, m.target)
    OBVIOUS
  <1>4. PICK r : r = [q EXCEPT !.merge = k] /\ request' = [request EXCEPT ![w] = r]
    BY <1>1, <1>3 DEF UndoMerge
  <1>5. /\ q \in ReviewRequest /\ q.op = "undo" /\ q.stage = "action" /\ q.line = m.line
        /\ q.batch = Csv[m.line].batch /\ q.batch \in Batches /\ q.run = batch[q.batch].run
        /\ q.target = m.target /\ q.cand = cand[m.line]
    BY <1>2, <1>3, ReviewTyped DEF ImportInv
  <1>6. /\ r \in ReviewRequest /\ r.op = "undo" /\ r.stage = "action" /\ r.line = m.line
        /\ r.batch = Csv[m.line].batch /\ r.batch \in Batches /\ r.run = batch[r.batch].run
        /\ r.target = m.target /\ r.cand = cand[m.line] /\ r.merge = k
    BY <1>2, <1>4, <1>5 DEF ReviewRequest
  <1>7. Fresh(r)
    BY <1>1, <1>6 DEF Fresh, Reviewing, Undoes, UndoMerge
  <1> QED
    BY <1>4, <1>6, <1>7, Starts, BoundKept DEF UndoMerge, Tables, ImportInv

\* A later query of a review.
LEMMA LoadKeeps ==
    ASSUME ImportInv, Apart', NEW w \in Workers, Load(w)
    PROVE  ImportInv'
  <1>1. PICK q : q = request[w] /\ Fresh(q)
    BY DEF ImportInv
  <1>2. q.op \in {"ignore", "merge", "undo"} /\ UNCHANGED Tables
    BY <1>1 DEF Load, LoadRow, LoadMergeTarget, LoadUndoTarget, LoadCandidate, Tables
  <1>3. /\ Reviewing(q) /\ q \in ReviewRequest /\ q.line \in Lines /\ q.target \in Ids
        /\ q.batch \in Batches /\ q.run = batch[q.batch].run /\ q.run \in 0..MaxRuns
        /\ row[q.line] \in [status : RowStatus, effect : Ids \cup {0}]
        /\ cand[q.line] \in [status : CandStatus, target : Ids \cup {0}]
        /\ directory[q.target] \in Entry
    BY <1>1, <1>2 DEF Fresh, Ignores, Merges, Undoes, Reviewing, ReviewRequest, ImportInv, Columns
  <1>4. ASSUME NEW r, request' = [request EXCEPT ![w] = r], Fresh(r), r.op = q.op
        PROVE  ImportInv'
    <2>1. MergesBounded'
      BY <1>1, <1>2, <1>4, BoundKept DEF Tables, ImportInv
    <2> QED
      BY <1>2, <1>4, <2>1, Starts
  <1>5. CASE LoadRow(w)
    <2>1. PICK r : /\ r = [q EXCEPT !.stage = "row", !.row = row[q.line]]
                   /\ request' = [request EXCEPT ![w] = r] /\ q.stage = "candidate"
      BY <1>1, <1>5 DEF LoadRow, ImportInv, Columns
    <2>2. /\ r \in ReviewRequest /\ r.op = q.op /\ r.stage = "row" /\ r.line = q.line
          /\ r.batch = q.batch /\ r.run = q.run /\ r.target = q.target /\ r.cand = q.cand
          /\ r.row = row[q.line] /\ r.lives = q.lives /\ r.merge = q.merge
      BY <1>3, <2>1 DEF ReviewRequest
    <2>3. Fresh(r)
      BY <1>1, <1>2, <1>3, <2>1, <2>2 DEF Fresh, Reviewing, Ignores, Merges, Undoes
    <2> QED
      BY <1>4, <2>1, <2>2, <2>3
  <1>6. CASE LoadMergeTarget(w)
    <2>1. PICK r : /\ r = [q EXCEPT !.stage = "target",
                              !.fields = Fillable(q.line, directory[q.target]),
                              !.before = directory[q.target]]
                   /\ request' = [request EXCEPT ![w] = r]
                   /\ q.stage = "row" /\ q.op = "merge"
      BY <1>1, <1>6 DEF LoadMergeTarget, ImportInv, Columns
    <2>2. Fillable(q.line, directory[q.target]) \in SUBSET Field
      BY DEF Fillable
    <2>3. /\ r \in ReviewRequest /\ r.op = q.op /\ r.stage = "target" /\ r.line = q.line
          /\ r.batch = q.batch /\ r.run = q.run /\ r.target = q.target /\ r.cand = q.cand
          /\ r.row = q.row /\ r.fields = Fillable(q.line, directory[q.target])
          /\ r.before = directory[q.target]
      BY <1>3, <2>1, <2>2 DEF ReviewRequest
    <2>4. Fresh(r)
      BY <1>1, <1>2, <1>3, <2>1, <2>3 DEF Fresh, Reviewing, Merges
    <2> QED
      BY <1>4, <2>1, <2>3, <2>4
  <1>7. CASE LoadUndoTarget(w)
    <2>1. PICK r : /\ r = [q EXCEPT !.stage = "target"]
                   /\ request' = [request EXCEPT ![w] = r]
                   /\ q.stage = "action" /\ q.op = "undo"
      BY <1>1, <1>7 DEF LoadUndoTarget, ImportInv, Columns
    <2>2. /\ r \in ReviewRequest /\ r.op = q.op /\ r.stage = "target" /\ r.line = q.line
          /\ r.batch = q.batch /\ r.run = q.run /\ r.target = q.target /\ r.cand = q.cand
          /\ r.merge = q.merge
      BY <1>3, <2>1 DEF ReviewRequest
    <2>3. Fresh(r)
      BY <1>1, <1>2, <1>3, <2>1, <2>2 DEF Fresh, Reviewing, Undoes
    <2> QED
      BY <1>4, <2>1, <2>2, <2>3
  <1>8. CASE LoadCandidate(w)
    <2>1. PICK m : m = merges[q.merge]
      OBVIOUS
    <2>2. PICK r : /\ r = [q EXCEPT !.stage = "candidate", !.run = batch[q.batch].run,
                              !.lives = CandidateLives(m), !.cand = cand[q.line]]
                   /\ request' = [request EXCEPT ![w] = r]
                   /\ q.stage = "target" /\ q.op = "undo"
      BY <1>1, <1>8, <2>1 DEF LoadCandidate, ImportInv, Columns
    <2>3. CandidateLives(m) \in BOOLEAN
      BY DEF CandidateLives
    <2>4. /\ r \in ReviewRequest /\ r.op = q.op /\ r.stage = "candidate" /\ r.line = q.line
          /\ r.batch = q.batch /\ r.run = q.run /\ r.target = q.target /\ r.cand = cand[q.line]
          /\ r.merge = q.merge /\ r.lives = CandidateLives(m)
      BY <1>3, <2>2, <2>3 DEF ReviewRequest
    <2>5. Fresh(r)
      BY <1>1, <1>2, <1>3, <2>1, <2>2, <2>4 DEF Fresh, Reviewing, Undoes
    <2> QED
      BY <1>4, <2>2, <2>4, <2>5
  <1> QED
    BY <1>5, <1>6, <1>7, <1>8 DEF Load

LEMMA UploadKeeps ==
    ASSUME ImportInv, Apart', NEW b \in Batches, UploadImportBatch(b)
    PROVE  ImportInv'
  <1>1. /\ batch' \in [Batches -> [status : BatchStatus, run : 0..MaxRuns]]
        /\ \A c \in Batches : batch'[c].run = batch[c].run
                              /\ (batch[c].status # "absent" => batch'[c] = batch[c])
    BY DEF UploadImportBatch, ImportInv, Columns, BatchStatus
  <1>2. /\ row' = row /\ cand' = cand /\ directory' = directory /\ links' = links
        /\ merges' = merges /\ request' = request
    BY DEF UploadImportBatch
  <1>3. Columns'
    BY <1>1, <1>2 DEF ImportInv, Columns
  <1>4. /\ SettledTogether' /\ AppliedHasEffect' /\ EntriesKnown' /\ MergesBounded' /\ NewApart'
    BY <1>2 DEF ImportInv, SettledTogether, AppliedHasEffect, EntriesKnown, Exists,
       MergesBounded, Merging, NewApart
  <1>5. \A m \in MergeRow : CandidateLives(m)' = CandidateLives(m)
    BY <1>1, CsvAssumption DEF CandidateLives, MergeRow
  <1>6. MergesKnown'
    <2>1. \A k \in DOMAIN merges : merges[k] \in MergeRow
      BY DEF ImportInv, Columns
    <2>2. \A k \in DOMAIN merges : MergeKnown(merges[k])'
      <3> SUFFICES ASSUME NEW k \in DOMAIN merges PROVE MergeKnown(merges[k])'
        BY <1>2
      <3>1. PICK m \in MergeRow : m = merges[k] /\ m = merges'[k]
        BY <1>2, <2>1
      <3>2. MergeKnown(m)
        BY <3>1 DEF ImportInv, MergesKnown
      <3>3. Csv[m.line].batch \in Batches
        BY CsvAssumption DEF MergeRow
      <3>4. MergeKnown(m)'
        BY <1>1, <1>2, <1>5, <3>2, <3>3 DEF MergeKnown, Exists, Original
      <3> QED
        BY <3>1, <3>4 DEF MergeKnown, Exists, Original, CandidateLives
    <2> QED
      BY <1>2, <2>2 DEF ImportInv, MergesKnown, Exists, Original, Fills
  <1>7. \A r : Fresh(r) => Fresh(r)'
    <2> SUFFICES ASSUME NEW r, Fresh(r) PROVE Fresh(r)'
      OBVIOUS
    <2>1. r.op = "undo" => merges[r.merge] \in MergeRow
      BY DEF ImportInv, Columns, Fresh, Undoes
    <2>2. r.op = "normalize" => Normalizes(r)'
      BY <1>1, <1>2 DEF Fresh, Normalizes, Exists
    <2>3. r.op = "apply" => Applies(r)'
      BY <1>1, <1>2 DEF Fresh, Applies, Exists
    <2>4. Reviewing(r) => Reviewing(r)'
      BY <1>1, <1>2 DEF Reviewing
    <2>a. Ignores(r) => Ignores(r)'
      BY <2>4 DEF Ignores
    <2>5. Merges(r) => Merges(r)'
      BY <1>1, <1>2, <2>4 DEF Merges, Fillable
    <2>6. r.op = "undo" => Undoes(r)'
      BY <1>2, <1>5, <2>1, <2>4 DEF Fresh, Undoes
    <2> QED
      BY <1>1, <1>2, <2>2, <2>3, <2>a, <2>5, <2>6 DEF Fresh, Ignores
  <1> QED
    BY <1>2, <1>3, <1>4, <1>6, <1>7 DEF ImportInv

-----------------------------------------------------------------------------
(* A request commits or fails: what the others have read is still so.      *)

\* The step is about one batch, the given entries, and new ones.
Touches(b, targets, new) ==
    /\ \A c \in Batches \ {b} : batch'[c] = batch[c]
    /\ \A l \in Lines \ LinesOf(b) : row'[l] = row[l] /\ cand'[l] = cand[l]
    /\ \A i \in Ids : Exists(i) =>
         /\ Exists(i)'
         /\ directory'[i].name = directory[i].name /\ directory'[i].source = directory[i].source
         /\ i \notin targets => directory'[i] = directory[i]
    /\ \A i \in Ids : ~ Exists(i) =>
         directory'[i] = directory[i] \/ (i \in new /\ directory'[i].source \in LinesOf(b))
    /\ \A k \in DOMAIN merges :
         /\ k \in DOMAIN merges'
         /\ merges'[k].target = merges[k].target /\ merges'[k].line = merges[k].line
         /\ merges'[k].run = merges[k].run
         /\ merges[k].target \notin targets => merges'[k] = merges[k]

LEMMA OthersFresh ==
    ASSUME ImportInv, NEW b \in Batches, NEW targets, NEW new, Touches(b, targets, new),
           NEW r, Fresh(r), r.op # "none" => r.batch # b,
           r.op \in {"merge", "undo"} => r.target \notin targets,
           r.op = "apply" => r.new \cap new = {}
    PROVE  Fresh(r)'
  <1>1. CASE r.op = "none"
    BY <1>1 DEF Fresh
  <1>2. CASE r.op # "none"
    <2>1. r.batch \in Batches /\ batch'[r.batch] = batch[r.batch] /\ r.batch # b
      BY <1>2 DEF Fresh, Touches
    <2>2. \A l \in LinesOf(r.batch) : l \in Lines /\ l \notin LinesOf(b)
                                      /\ row'[l] = row[l] /\ cand'[l] = cand[l]
      BY <2>1 DEF LinesOf, Touches
    <2>3. \A i \in Ids, l \in LinesOf(r.batch) : directory'[i].source = l => directory[i].source = l
      BY <2>2 DEF Touches
    <2>4. Reviewing(r) => Reviewing(r)'
      BY <2>2 DEF Reviewing, LinesOf, ReviewRequest
    <2>5. CASE r.op = "normalize"
      BY <2>1, <2>2, <2>3, <2>5 DEF Fresh, Normalizes, Touches
    <2>6. CASE r.op = "apply"
      <3>1. \A l \in r.creators : ~ Exists(r.at[l])'
        BY <2>6 DEF Fresh, Applies, Touches, Exists
      <3>2. \A l \in DOMAIN r.at : Exists(r.at[l]) => Exists(r.at[l])' /\
               directory'[r.at[l]].name = directory[r.at[l]].name
        BY <2>6 DEF Fresh, Applies, Touches
      <3>3. \A l \in r.creators : \A i \in Ids : directory'[i].source # l
        BY <2>2, <2>3, <2>6 DEF Fresh, Applies
      <3> QED
        BY <2>1, <2>2, <2>6, <3>1, <3>2, <3>3 DEF Fresh, Applies
    <2>7. CASE r.op = "ignore"
      BY <2>1, <2>4, <2>7 DEF Fresh, Ignores
    <2>8. CASE r.op = "merge"
      <3>1. r.line \in Lines /\ r.line \in LinesOf(r.batch)
        BY <2>8 DEF Fresh, Merges, Reviewing, ReviewRequest, LinesOf
      <3>2. directory'[r.target] = directory[r.target]
        BY <2>8, <3>1 DEF ImportInv, EntriesKnown, Fresh, Merges, Reviewing, Touches
      <3> QED
        BY <2>1, <2>2, <2>4, <2>8, <3>1, <3>2 DEF Fresh, Merges, Fillable
    <2>9. CASE r.op = "undo"
      <3>1. merges'[r.merge] = merges[r.merge] /\ r.merge \in DOMAIN merges'
        BY <2>9 DEF Fresh, Undoes, Touches
      <3>2. CandidateLives(merges[r.merge])' = CandidateLives(merges[r.merge])
        BY <2>1, <2>9, <3>1 DEF Fresh, Undoes, Reviewing, CandidateLives
      <3> QED
        BY <2>1, <2>4, <2>9, <3>1, <3>2 DEF Fresh, Undoes
    <2> QED
      BY <1>2, <2>5, <2>6, <2>7, <2>8, <2>9 DEF Fresh
  <1> QED
    BY <1>1, <1>2

LEMMA Ends ==
    ASSUME ImportInv, NEW w \in Workers, ~ Free(w), Done(w), Apart',
           NEW targets, NEW new, Touches(request[w].batch, targets, new),
           targets \subseteq Target(w),
           new # {} => request[w].op = "apply" /\ new = request[w].new,
           batch' \in [Batches -> [status : BatchStatus, run : 0..MaxRuns]],
           row' \in [Lines -> [status : RowStatus, effect : Ids \cup {0}]],
           cand' \in [Lines -> [status : CandStatus, target : Ids \cup {0}]],
           directory' \in [Ids -> Entry],
           links' \subseteq Ids \X {Csv[l].title : l \in Lines},
           merges' \in Seq(MergeRow),
           Len(merges') = Len(merges) \/
             (Len(merges') = Len(merges) + 1 /\ request[w].op = "merge"),
           SettledTogether', AppliedHasEffect', EntriesKnown', MergesKnown'
    PROVE  ImportInv'
  <1>1. /\ DOMAIN request' = Workers /\ request'[w] = Idle
        /\ \A v \in Workers \ {w} : request'[v] = request[v]
    BY DEF Done, ImportInv, Columns
  <1>2. Columns'
    BY <1>1 DEF Columns
  <1>3. request[w].batch \in Batches
    BY DEF ImportInv, Fresh, Free, Idle
  <1>4. \A v \in Workers : Fresh(request[v])'
    <2> SUFFICES ASSUME NEW v \in Workers PROVE Fresh(request[v])'
      OBVIOUS
    <2>1. CASE v = w
      BY <1>1, <2>1 DEF Fresh, Idle
    <2>2. CASE v # w
      <3>1. PICK r : r = request[v]
        OBVIOUS
      <3>2. Fresh(r) /\ r = request'[v]
        BY <1>1, <2>2, <3>1 DEF ImportInv
      <3>3. r.op # "none" => ~ Free(v)
        BY <3>1 DEF Free, Idle
      <3>4. r.op # "none" => r.batch # request[w].batch /\ Target(v) \cap Target(w) = {}
        BY <2>2, <3>1, <3>3 DEF ImportInv, Apart
      <3>5. r.op \in {"merge", "undo"} => r.target \notin targets
        BY <3>1, <3>4 DEF Target
      <3>6. r.op = "apply" => r.new \cap new = {}
        BY <2>2, <3>1 DEF ImportInv, NewApart
      <3>7. Fresh(r)'
        BY <1>3, <3>2, <3>4, <3>5, <3>6, OthersFresh
      <3> QED
        BY <3>2, <3>7, FreshNamed
    <2> QED
      BY <2>1, <2>2
  <1>5. NewApart'
    BY <1>1 DEF ImportInv, NewApart, Idle
  <1>6. MergesBounded'
    BY BoundAtCommit DEF ImportInv
  <1> QED
    BY <1>2, <1>4, <1>5, <1>6 DEF ImportInv

\* A step that keeps the entries.
LEMMA EndsReview ==
    ASSUME ImportInv, NEW w \in Workers, ~ Free(w), Done(w), Apart',
           Touches(request[w].batch, {}, {}),
           batch' = batch /\ directory' = directory /\ links' = links /\ merges' = merges,
           row' \in [Lines -> [status : RowStatus, effect : Ids \cup {0}]],
           cand' \in [Lines -> [status : CandStatus, target : Ids \cup {0}]],
           SettledTogether', AppliedHasEffect', EntriesKnown', MergesKnown'
    PROVE  ImportInv'
  <1>1. PICK none : none = {}
    OBVIOUS
  <1>2. Touches(request[w].batch, none, none) /\ none \subseteq Target(w) /\ none = {}
    BY <1>1
  <1>3. /\ batch' \in [Batches -> [status : BatchStatus, run : 0..MaxRuns]]
        /\ directory' \in [Ids -> Entry]
        /\ links' \subseteq Ids \X {Csv[l].title : l \in Lines}
        /\ merges' \in Seq(MergeRow) /\ Len(merges') = Len(merges)
    BY DEF ImportInv, Columns
  <1> QED
    BY <1>2, <1>3, Ends

LEMMA AbortKeeps ==
    ASSUME ImportInv, Apart', NEW w \in Workers, AbortRequest(w)
    PROVE  ImportInv'
  <1>1. Touches(request[w].batch, {}, {})
    BY DEF AbortRequest, Touches, Exists
  <1>2. /\ batch' = batch /\ row' = row /\ cand' = cand /\ directory' = directory
        /\ links' = links /\ merges' = merges
        /\ SettledTogether' /\ AppliedHasEffect' /\ EntriesKnown' /\ MergesKnown'
    BY TablesKept DEF AbortRequest, Tables
  <1>3. ~ Free(w) /\ Done(w)
    BY DEF AbortRequest
  <1> QED
    BY <1>1, <1>2, <1>3, EndsReview DEF ImportInv, Columns

-----------------------------------------------------------------------------
(* Review.                                                                 *)

\* What a reviewed row and its candidate become.
ReviewedAs(l, rowStatus, candStatus) ==
    /\ batch' = batch /\ links' = links
    /\ \A k \in Lines \ {l} : row'[k] = row[k] /\ cand'[k] = cand[k]
    /\ row'[l].status = rowStatus
    /\ cand'[l].status = candStatus /\ cand'[l].target = cand[l].target
    /\ \A i \in Ids : /\ Exists(i)' <=> Exists(i)
                      /\ directory'[i].name = directory[i].name
                      /\ directory'[i].source = directory[i].source

LEMMA Reviewed ==
    ASSUME ImportInv, NEW l \in Lines, cand[l].status # "absent",
           NEW rowStatus, NEW candStatus,
           \/ rowStatus = "ignored" /\ candStatus = "ignored"
           \/ rowStatus = "merged" /\ candStatus = "merged"
           \/ rowStatus = "duplicate" /\ candStatus = "undo_applied",
           ReviewedAs(l, rowStatus, candStatus)
    PROVE  SettledTogether' /\ AppliedHasEffect' /\ EntriesKnown'
  <1>1. SettledTogether'
    BY DEF ReviewedAs, ImportInv, SettledTogether, Unresolved
  <1>2. AppliedHasEffect'
    BY DEF ReviewedAs, ImportInv, AppliedHasEffect, Columns
  <1>3. row[l].status # "applied"
    BY DEF ImportInv, Columns, SettledTogether, CandStatus
  <1>4. EntriesKnown'
    <2>1. \A k \in Lines : cand'[k].target = cand[k].target
            /\ (cand'[k].status # "absent" <=> cand[k].status # "absent")
      BY DEF ReviewedAs
    <2>2. \A k \in Lines : row[k].status = "applied" => row'[k].status = "applied"
      BY <1>3 DEF ReviewedAs
    <2>3. \A i \in Ids : directory[i].source \in Lines \cup {0}
      BY DEF ImportInv, Columns, Entry
    <2> QED
      BY <2>1, <2>2, <2>3 DEF ReviewedAs, ImportInv, EntriesKnown
  <1> QED
    BY <1>1, <1>2, <1>4

LEMMA IgnoreCommits ==
    ASSUME ImportInv, Apart', NEW w \in Workers, CommitIgnore(w)
    PROVE  ImportInv'
  <1>1. PICK r, l : r = request[w] /\ l = r.line
    OBVIOUS
  <1>2. /\ r.op = "ignore" /\ l \in Lines /\ l \in LinesOf(r.batch)
        /\ r.row = row[l] /\ r.cand = cand[l] /\ cand[l].status # "absent"
    BY <1>1 DEF CommitIgnore, ImportInv, Fresh, Ignores, Reviewing, ReviewRequest, LinesOf
  <1>3. /\ cand' = [cand EXCEPT ![l].status = "ignored"]
        /\ row' = [row EXCEPT ![l].status = "ignored"]
    BY <1>1, <1>2 DEF CommitIgnore, Written, ImportInv, Columns
  <1>4. /\ cand' \in [Lines -> [status : CandStatus, target : Ids \cup {0}]]
        /\ row' \in [Lines -> [status : RowStatus, effect : Ids \cup {0}]]
    BY <1>2, <1>3 DEF ImportInv, Columns, CandStatus, RowStatus, Settled
  <1>5. ReviewedAs(l, "ignored", "ignored")
    BY <1>2, <1>3 DEF CommitIgnore, ReviewedAs, ImportInv, Columns, Exists
  <1>6. SettledTogether' /\ AppliedHasEffect' /\ EntriesKnown'
    BY <1>2, <1>5, Reviewed
  <1>7. MergesKnown'
    <2>1. \A k \in Lines : cand[k].status # "absent" => cand'[k].status # "absent"
      BY <1>2, <1>3 DEF ImportInv, Columns
    <2>2. batch' = batch /\ directory' = directory /\ merges' = merges
      BY DEF CommitIgnore
    <2>3. \A k \in DOMAIN merges : merges[k] \in MergeRow
      BY DEF ImportInv, Columns
    <2>4. \A k \in DOMAIN merges : MergeKnown(merges[k])'
      <3> SUFFICES ASSUME NEW k \in DOMAIN merges PROVE MergeKnown(merges[k])'
        BY <2>2
      <3>1. PICK m \in MergeRow : m = merges[k] /\ m = merges'[k]
        BY <2>2, <2>3
      <3>2. MergeKnown(m) /\ m.line \in Lines
        BY <3>1 DEF ImportInv, MergesKnown, MergeRow
      <3>3. MergeKnown(m)'
        BY <2>1, <2>2, <3>2 DEF MergeKnown, Exists, Original, CandidateLives
      <3> QED
        BY <3>1, <3>3 DEF MergeKnown, Exists, Original, CandidateLives
    <2> QED
      BY <2>2, <2>4 DEF ImportInv, MergesKnown, Exists, Original, Fills
  <1>8. Touches(r.batch, {}, {})
    BY <1>2, <1>3 DEF CommitIgnore, Touches, ImportInv, Columns, Exists
  <1>9. ~ Free(w)
    BY <1>1, <1>2 DEF Free, Idle
  <1>10. /\ Done(w)
         /\ batch' = batch /\ directory' = directory /\ links' = links /\ merges' = merges
    BY DEF CommitIgnore, ImportInv
  <1> QED
    BY <1>1, <1>4, <1>6, <1>7, <1>8, <1>9, <1>10, EndsReview

LEMMA NormalizeCommits ==
    ASSUME ImportInv, Apart', NEW w \in Workers, CommitNormalize(w)
    PROVE  ImportInv'
  <1>1. PICK r, b : r = request[w] /\ b = r.batch
    OBVIOUS
  <1>2. /\ r.op = "normalize" /\ b \in Batches /\ r.run = batch[b].run /\ Normalizes(r)
    BY <1>1 DEF CommitNormalize, ImportInv, Fresh
  <1>3. /\ batch[b].run \in 0..MaxRuns /\ batch[b].run < MaxRuns
        /\ batch' = [batch EXCEPT ![b] =
             [status |-> Written(batch[b].status, r.loaded, "normalized"),
              run |-> batch[b].run + 1]]
    BY <1>1, <1>2 DEF CommitNormalize, Normalizes, ImportInv, Columns
  <1>4. /\ batch' \in [Batches -> [status : BatchStatus, run : 0..MaxRuns]]
        /\ batch'[b].run = batch[b].run + 1 /\ \A c \in Batches \ {b} : batch'[c] = batch[c]
    <2>1. Written(batch[b].status, r.loaded, "normalized") \in BatchStatus
      BY <1>2 DEF Written, BatchStatus, ImportInv, Columns
    <2> QED
      BY <1>2, <1>3, <2>1, BoundsAssumption DEF ImportInv, Columns
  <1>5. \A l \in Lines : l \notin LinesOf(b) => row'[l] = row[l] /\ cand'[l] = cand[l]
    BY <1>1 DEF CommitNormalize
  <1>6. ASSUME NEW l \in LinesOf(b)
        PROVE  /\ l \in Lines /\ row'[l].effect = 0
               /\ row'[l] \in [status : RowStatus, effect : Ids \cup {0}]
               /\ cand'[l] \in [status : CandStatus, target : Ids \cup {0}]
               /\ \/ row'[l].status \in {"valid", "invalid"} /\ cand'[l].status = "absent"
                     /\ r.found[l] = 0
                  \/ row'[l].status = "duplicate" /\ cand'[l].status = "open"
                     /\ cand'[l].target = r.found[l] /\ r.found[l] # 0
    <2>1. l \in Lines /\ r.found[l] \in Ids \cup {0} /\ (r.found[l] # 0 => IsValid(l))
      BY <1>1, <1>2 DEF LinesOf, Normalizes
    <2>2. /\ row'[l] = [status |-> IF ~IsValid(l) THEN "invalid"
                                   ELSE IF r.found[l] # 0 THEN "duplicate" ELSE "valid",
                        effect |-> 0]
          /\ cand'[l] = IF r.found[l] = 0 THEN NoCand
                        ELSE [status |-> "open", target |-> r.found[l]]
      BY <1>1, <2>1 DEF CommitNormalize
    <2> QED
      BY <2>1, <2>2 DEF NoCand, RowStatus, CandStatus, Unresolved
  <1>7. /\ directory' = directory /\ links' = links /\ merges' = merges /\ Done(w)
        /\ \A l \in Lines : l \in LinesOf(b) <=> Csv[l].batch = b
    BY <1>1 DEF CommitNormalize, LinesOf
  <1>8. /\ row' \in [Lines -> [status : RowStatus, effect : Ids \cup {0}]]
        /\ cand' \in [Lines -> [status : CandStatus, target : Ids \cup {0}]]
    <2>1. row' = [l \in Lines |-> row'[l]] /\ cand' = [l \in Lines |-> cand'[l]]
      BY DEF CommitNormalize
    <2>2. \A l \in Lines : /\ row'[l] \in [status : RowStatus, effect : Ids \cup {0}]
                           /\ cand'[l] \in [status : CandStatus, target : Ids \cup {0}]
      BY <1>5, <1>6 DEF ImportInv, Columns
    <2> QED
      BY <2>1, <2>2
  <1>9. SettledTogether'
    <2> SUFFICES ASSUME NEW l \in Lines
                 PROVE  /\ row'[l].status = "merged" <=> cand'[l].status = "merged"
                        /\ row'[l].status = "ignored" <=> cand'[l].status = "ignored"
                        /\ row'[l].status = "duplicate" <=> cand'[l].status \in Unresolved
      BY DEF SettledTogether
    <2>1. CASE l \in LinesOf(b)
      BY <1>6, <2>1 DEF Unresolved
    <2>2. CASE l \notin LinesOf(b)
      BY <1>5, <2>2 DEF ImportInv, SettledTogether
    <2> QED
      BY <2>1, <2>2
  <1>10. AppliedHasEffect'
    <2>1. \A l \in Lines : row'[l].status = "applied" => row'[l] = row[l]
      BY <1>5, <1>6
    <2> QED
      BY <1>7, <2>1 DEF ImportInv, AppliedHasEffect
  <1>11. EntriesKnown'
    <2>1. ASSUME NEW i \in Ids, directory[i].source # 0, Csv[directory[i].source].batch \notin Roster
          PROVE  \/ row'[directory[i].source].status = "applied"
                 \/ cand'[directory[i].source].status # "absent"
      <3>1. PICK l \in Lines : l = directory[i].source
        BY <2>1 DEF ImportInv, Columns, Entry
      <3>2. CASE l \in LinesOf(b)
        BY <1>1, <1>2, <1>6, <2>1, <3>1, <3>2 DEF Normalizes
      <3>3. CASE l \notin LinesOf(b)
        BY <1>5, <2>1, <3>1, <3>3 DEF ImportInv, EntriesKnown
      <3> QED
        BY <3>1, <3>2, <3>3
    <2>2. ASSUME NEW l \in Lines, cand'[l].status # "absent"
          PROVE  cand'[l].target \in Ids /\ Exists(cand'[l].target)
      <3>1. CASE l \in LinesOf(b)
        BY <1>1, <1>2, <1>6, <2>2, <3>1 DEF Normalizes
      <3>2. CASE l \notin LinesOf(b)
        BY <1>5, <2>2, <3>2 DEF ImportInv, EntriesKnown
      <3> QED
        BY <3>1, <3>2
    <2>3. \A l \in Lines : row'[l].status = "applied" => Csv[l].name # Blank
      BY <1>5, <1>6 DEF ImportInv, EntriesKnown
    <2> QED
      BY <1>7, <2>1, <2>2, <2>3 DEF ImportInv, EntriesKnown, Exists
  <1>12. MergesKnown'
    <2>1. ASSUME NEW k \in DOMAIN merges PROVE MergeKnown(merges[k])'
      <3>1. PICK m \in MergeRow : m = merges[k] /\ m = merges'[k]
        BY <1>7 DEF ImportInv, Columns
      <3>2. MergeKnown(m)
        BY <3>1 DEF ImportInv, MergesKnown
      <3>3. Csv[m.line].batch \in Batches /\ m.line \in Lines /\ m.run \in 0..MaxRuns
        BY CsvAssumption DEF MergeRow
      <3>4. MergeKnown(m)'
        <4>1. CASE Csv[m.line].batch = b
          BY <1>3, <1>4, <1>7, <3>2, <3>3, <4>1
             DEF MergeKnown, Exists, Original, CandidateLives
        <4>2. CASE Csv[m.line].batch # b
          BY <1>4, <1>5, <1>7, <3>2, <3>3, <4>2
             DEF MergeKnown, Exists, Original, CandidateLives
        <4> QED
          BY <4>1, <4>2
      <3> QED
        BY <3>1, <3>4 DEF MergeKnown, Exists, Original, CandidateLives
    <2> QED
      BY <1>7, <2>1 DEF ImportInv, MergesKnown, Exists, Original, Fills
  <1>13. PICK none : none = {}
    OBVIOUS
  <1>14. Touches(b, none, none) /\ none \subseteq Target(w)
    BY <1>4, <1>5, <1>7, <1>13 DEF Touches, Exists
  <1>15. /\ directory' \in [Ids -> Entry] /\ links' \subseteq Ids \X {Csv[l].title : l \in Lines}
         /\ merges' \in Seq(MergeRow) /\ Len(merges') = Len(merges) /\ ~ Free(w)
    BY <1>1, <1>2, <1>7 DEF ImportInv, Columns, Free, Idle
  <1> QED
    BY <1>1, <1>4, <1>7, <1>8, <1>9, <1>10, <1>11, <1>12, <1>13, <1>14, <1>15, Ends

-----------------------------------------------------------------------------
(* Merges.                                                                 *)

LEMMA FilledEntry ==
    ASSUME NEW e \in Entry, NEW l \in Lines, NEW fields \in SUBSET Field
    PROVE  /\ Filled(e, l, fields) \in Entry
           /\ Filled(e, l, fields).name = e.name /\ Filled(e, l, fields).source = e.source
           /\ \A f \in Field : Filled(e, l, fields)[f] = IF f \in fields THEN Csv[l][f] ELSE e[f]
  <1>1. Csv[l].email \in Value /\ Csv[l].phone \in Value
    BY ValueOfLine
  <1> QED
    BY <1>1 DEF Filled, Entry, Field

LEMMA RestoredEntry ==
    ASSUME NEW e \in Entry, NEW m \in MergeRow
    PROVE  /\ Restored(e, m) \in Entry
           /\ Restored(e, m).name = e.name /\ Restored(e, m).source = e.source
           /\ \A f \in Field : Restored(e, m)[f] = IF f \in m.fields THEN m.before[f] ELSE e[f]
  <1>1. m.before.email \in Value /\ m.before.phone \in Value
    BY DEF MergeRow, Entry
  <1> QED
    BY <1>1 DEF Restored, Entry, Field

LEMMA ExistsNamed ==
    ASSUME ImportInv, NEW i \in Ids
    PROVE  Exists(i) <=> directory[i].name # Blank
  BY NoEntryTyped DEF ImportInv, EntriesKnown, Exists

\* A blank field is nobody's and was blank from the beginning.
LEMMA BlankUnfilled ==
    ASSUME ImportInv, NEW i \in Ids, Exists(i), NEW f \in Field, directory[i][f] = Blank
    PROVE  /\ \A k \in DOMAIN merges : ~ Fills(k, i, f)
           /\ Original(i)[f] = Blank
  <1>1. \A k \in DOMAIN merges : Fills(k, i, f) => Csv[merges[k].line][f] # Blank
    BY DEF ImportInv, MergesKnown, MergeKnown, Fills
  <1> QED
    BY <1>1 DEF ImportInv, MergesKnown

LEMMA MergeCommits ==
    ASSUME ImportInv, Apart', NEW w \in Workers, CommitMerge(w)
    PROVE  ImportInv'
  <1>1. PICK r, l, t, m : r = request[w] /\ l = r.line /\ t = r.target /\ m = MergeAction(r)
    OBVIOUS
  <1>2. /\ r.op = "merge" /\ l \in Lines /\ l \in LinesOf(r.batch) /\ r.batch \in Batches
        /\ r.row = row[l] /\ r.cand = cand[l] /\ cand[l].status # "absent"
        /\ t = cand[l].target /\ r.run = batch[r.batch].run /\ Csv[l].batch = r.batch
        /\ r.before = directory[t] /\ r.fields = Fillable(l, directory[t])
    BY <1>1 DEF CommitMerge, ImportInv, Fresh, Merges, Reviewing, ReviewRequest, LinesOf
  <1>3. t \in Ids /\ Exists(t) /\ directory[t] \in Entry /\ r.run \in 0..MaxRuns
    BY <1>2 DEF ImportInv, EntriesKnown, Columns
  <1>4. /\ m \in MergeRow /\ m.line = l /\ m.run = r.run /\ m.target = t /\ m.fields = r.fields
        /\ m.before = directory[t] /\ ~ m.undone /\ r.fields \in SUBSET Field
    BY <1>1, <1>2, <1>3 DEF MergeAction, MergeRow, Fillable
  <1>5. /\ merges' = Append(merges, m) /\ Done(w) /\ batch' = batch /\ links' = links
        /\ directory' = [directory EXCEPT ![t] = Filled(directory[t], l, r.fields)]
        /\ cand' = [cand EXCEPT ![l].status = "merged"]
        /\ row' = [row EXCEPT ![l] = [status |-> Written(row[l].status, r.row.status, "merged"),
                                      effect |-> Written(row[l].effect, r.row.effect, t)]]
    BY <1>1, <1>2, <1>3 DEF CommitMerge, ImportInv, Columns
  <1>6. /\ Written(row[l].status, r.row.status, "merged") = "merged"
        /\ Written(row[l].effect, r.row.effect, t) = t
    BY <1>2 DEF Written
  <1>7. /\ cand' \in [Lines -> [status : CandStatus, target : Ids \cup {0}]]
        /\ row' \in [Lines -> [status : RowStatus, effect : Ids \cup {0}]]
    BY <1>2, <1>3, <1>5, <1>6 DEF ImportInv, Columns, CandStatus, RowStatus, Settled
  <1>8. /\ directory' \in [Ids -> Entry]
        /\ \A i \in Ids : directory'[i].name = directory[i].name
                          /\ directory'[i].source = directory[i].source
        /\ \A i \in Ids, f \in Field : directory'[i][f] =
              IF i = t /\ f \in r.fields THEN Csv[l][f] ELSE directory[i][f]
        /\ \A i \in Ids \ {t} : directory'[i] = directory[i]
    BY <1>2, <1>3, <1>4, <1>5, FilledEntry DEF ImportInv, Columns
  <1>9. \A i \in Ids : (Exists(i)' <=> Exists(i)) /\ Original(i)' = Original(i)
    <2>1. Exists(t)'
      BY <1>3, <1>8, ExistsNamed, NoEntryTyped DEF Exists
    <2> QED
      BY <1>3, <1>8, <2>1 DEF Exists, Original
  <1>10. ReviewedAs(l, "merged", "merged")
    <2>1. DOMAIN row = Lines /\ DOMAIN cand = Lines
      BY DEF ImportInv, Columns
    <2> QED
      BY <1>2, <1>5, <1>6, <1>8, <1>9, <2>1 DEF ReviewedAs
  <1>11. SettledTogether' /\ AppliedHasEffect' /\ EntriesKnown'
    BY <1>2, <1>10, Reviewed
  <1>12. PICK n : n = Len(merges) + 1
    OBVIOUS
  <1>13. /\ merges' \in Seq(MergeRow) /\ Len(merges') = Len(merges) + 1
         /\ DOMAIN merges' = DOMAIN merges \cup {n}
         /\ \A k \in DOMAIN merges : merges'[k] = merges[k] /\ k # n
         /\ merges'[n] = m
    BY <1>4, <1>5, <1>12 DEF ImportInv, Columns
  <1>14. \A f \in r.fields : /\ f \in Field /\ Csv[l][f] # Blank /\ directory[t][f] = Blank
                             /\ Original(t)[f] = Blank
                             /\ \A k \in DOMAIN merges : ~ Fills(k, t, f)
    BY <1>2, <1>3, <1>4, BlankUnfilled DEF Fillable
  <1>15. /\ \A k \in DOMAIN merges : \A i \in Ids, f \in Field : Fills(k, i, f)' <=> Fills(k, i, f)
         /\ \A i \in Ids, f \in Field :
              Fills(n, i, f)' <=> i = t /\ f \in r.fields
    BY <1>4, <1>13 DEF Fills
  <1>16. MergesKnown'
    <2>1. MergeKnown(m)'
      BY <1>2, <1>4, <1>3, <1>5, <1>9, <1>14
         DEF MergeKnown, CandidateLives, ImportInv, Columns
    <2>2. ASSUME NEW k \in DOMAIN merges PROVE MergeKnown(merges[k])'
      <3>1. PICK x \in MergeRow : x = merges[k] /\ x = merges'[k]
        BY <1>13 DEF ImportInv, Columns
      <3>2. MergeKnown(x) /\ x.line \in Lines /\ x.target \in Ids
        BY <3>1 DEF ImportInv, MergesKnown, MergeRow
      <3>3. cand[x.line].status # "absent" => cand'[x.line].status # "absent"
        BY <1>2, <1>5, <3>2 DEF ImportInv, Columns
      <3>4. MergeKnown(x)'
        BY <1>5, <1>9, <3>2, <3>3 DEF MergeKnown, CandidateLives
      <3> QED
        BY <3>1, <3>4 DEF MergeKnown, Exists, Original, CandidateLives
    <2>3. \A k \in DOMAIN merges' : MergeKnown(merges[k])'
      <3> SUFFICES ASSUME NEW k \in DOMAIN merges' PROVE MergeKnown(merges[k])'
        OBVIOUS
      <3>1. CASE k \in DOMAIN merges
        BY <2>2, <3>1
      <3>2. CASE k = n
        BY <1>13, <2>1, <3>2 DEF MergeKnown, Exists, Original, CandidateLives
      <3> QED
        BY <1>13, <3>1, <3>2
    <2>4. \A j, k \in DOMAIN merges' : \A i \in Ids, f \in Field :
             Fills(j, i, f)' /\ Fills(k, i, f)' => j = k
      BY <1>13, <1>14, <1>15 DEF ImportInv, MergesKnown
    <2>5. ASSUME NEW i \in Ids, NEW f \in Field, Exists(i)'
          PROVE  /\ \A k \in DOMAIN merges' : Fills(k, i, f)' => directory'[i][f] = Csv[merges'[k].line][f]
                 /\ (\A k \in DOMAIN merges' : ~ Fills(k, i, f)') => directory'[i][f] = Original(i)'[f]
      <3>1. CASE i = t /\ f \in r.fields
        BY <1>4, <1>8, <1>13, <1>14, <1>15, <3>1
      <3>2. CASE ~ (i = t /\ f \in r.fields)
        <4>1. Exists(i) /\ directory'[i][f] = directory[i][f] /\ Original(i)' = Original(i)
          BY <1>8, <1>9, <2>5, <3>2
        <4> QED
          BY <1>13, <1>15, <3>2, <4>1 DEF ImportInv, MergesKnown
      <3> QED
        BY <3>1, <3>2
    <2> QED
      BY <2>3, <2>4, <2>5 DEF MergesKnown
  <1>17. PICK none, targets : none = {} /\ targets = {t}
    OBVIOUS
  <1>18. Touches(r.batch, targets, none)
    <2>1. \A i \in Ids : ~ Exists(i) => directory'[i] = directory[i]
      BY <1>3, <1>8
    <2> QED
      BY <1>2, <1>5, <1>8, <1>9, <1>13, <1>17, <2>1 DEF Touches, ImportInv, Columns
  <1>19. targets \subseteq Target(w) /\ ~ Free(w)
    BY <1>1, <1>2, <1>17 DEF Target, Free, Idle
  <1>20. /\ batch' \in [Batches -> [status : BatchStatus, run : 0..MaxRuns]]
         /\ links' \subseteq Ids \X {Csv[x].title : x \in Lines}
    BY <1>5 DEF ImportInv, Columns
  <1> QED
    BY <1>1, <1>2, <1>5, <1>7, <1>8, <1>11, <1>13, <1>16, <1>17, <1>18, <1>19, <1>20, Ends

LEMMA UndoCommits ==
    ASSUME ImportInv, Apart', NEW w \in Workers, CommitUndo(w)
    PROVE  ImportInv'
  <1>1. PICK r, n, l, t : r = request[w] /\ n = r.merge /\ l = r.line /\ t = r.target
    OBVIOUS
  <1>2. /\ r.op = "undo" /\ Undoes(r) /\ r.batch \in Batches
        /\ n \in DOMAIN merges /\ l \in Lines /\ l \in LinesOf(r.batch)
        /\ Csv[l].batch = r.batch /\ r.cand = cand[l] /\ (r.lives => r.row = row[l])
        /\ r.stage \in {"candidate", "row"}
    BY <1>1 DEF CommitUndo, ImportInv, Fresh, Undoes, Reviewing, ReviewRequest, LinesOf
  <1>3. PICK m \in MergeRow : m = merges[n]
    BY <1>2 DEF ImportInv, Columns
  <1>4. /\ m.line = l /\ m.target = t /\ ~ m.undone /\ MergeKnown(m) /\ t \in Ids /\ Exists(t)
        /\ directory[t] \in Entry /\ m.fields \in SUBSET Field
        /\ r.lives => cand[l].status # "absent"
    <2>1. m.line = l /\ m.target = t /\ ~ m.undone /\ r.lives = CandidateLives(m)
      BY <1>1, <1>2, <1>3 DEF Undoes
    <2>2. MergeKnown(m)
      BY <1>2, <1>3 DEF ImportInv, MergesKnown
    <2>3. t \in Ids /\ m.fields \in SUBSET Field
      BY <2>1 DEF MergeRow
    <2>4. directory[t] \in Entry
      BY <2>3 DEF ImportInv, Columns
    <2> QED
      BY <2>1, <2>2, <2>3, <2>4 DEF MergeKnown
  <1>5. /\ Done(w) /\ batch' = batch /\ links' = links
        /\ directory' = [directory EXCEPT ![t] = Restored(directory[t], m)]
        /\ merges' = [merges EXCEPT ![n].undone = TRUE]
        /\ r.lives => /\ cand' = [cand EXCEPT ![l].status = "undo_applied"]
                      /\ row' = [row EXCEPT ![l] = [status |-> "duplicate", effect |-> 0]]
        /\ ~ r.lives => cand' = cand /\ row' = row
    <2>1. r.lives => /\ cand' = [cand EXCEPT ![l].status = Written(cand[l].status, r.cand.status,
                                                                   "undo_applied")]
                     /\ row' = [row EXCEPT ![l] = Reopened(row[l], r.row)]
      BY <1>1, <1>2 DEF CommitUndo, ImportInv, Columns
    <2>2. r.lives => Reopened(row[l], r.row) = [status |-> "duplicate", effect |-> 0]
      BY <1>2 DEF Reopened, Written
    <2>3. Written(cand[l].status, r.cand.status, "undo_applied") = "undo_applied"
      BY <1>2 DEF Written
    <2> QED
      BY <1>1, <1>3, <1>4, <2>1, <2>2, <2>3 DEF CommitUndo, ImportInv, Columns
  <1>6. /\ cand' \in [Lines -> [status : CandStatus, target : Ids \cup {0}]]
        /\ row' \in [Lines -> [status : RowStatus, effect : Ids \cup {0}]]
        /\ \A k \in Lines \ {l} : row'[k] = row[k] /\ cand'[k] = cand[k]
        /\ \A k \in Lines : cand[k].status # "absent" <=> cand'[k].status # "absent"
    <2>1. CASE r.lives
      <3>1. /\ cand' = [cand EXCEPT ![l].status = "undo_applied"]
            /\ row' = [row EXCEPT ![l] = [status |-> "duplicate", effect |-> 0]]
            /\ cand[l].status # "absent"
        BY <1>4, <1>5, <2>1
      <3>2. /\ "undo_applied" \in CandStatus
            /\ [status |-> "duplicate", effect |-> 0] \in [status : RowStatus, effect : Ids \cup {0}]
        BY DEF CandStatus, RowStatus, Unresolved
      <3>3. /\ cand \in [Lines -> [status : CandStatus, target : Ids \cup {0}]]
            /\ row \in [Lines -> [status : RowStatus, effect : Ids \cup {0}]]
        BY DEF ImportInv, Columns
      <3> QED
        BY <1>2, <3>1, <3>2, <3>3
    <2>2. CASE ~ r.lives
      BY <1>5, <2>2 DEF ImportInv, Columns
    <2> QED
      BY <2>1, <2>2
  <1>7. /\ directory' \in [Ids -> Entry]
        /\ \A i \in Ids : directory'[i].name = directory[i].name
                          /\ directory'[i].source = directory[i].source
        /\ \A i \in Ids, f \in Field : directory'[i][f] =
              IF i = t /\ f \in m.fields THEN m.before[f] ELSE directory[i][f]
        /\ \A i \in Ids \ {t} : directory'[i] = directory[i]
    BY <1>4, <1>5, RestoredEntry DEF ImportInv, Columns
  <1>8. \A i \in Ids : (Exists(i)' <=> Exists(i)) /\ Original(i)' = Original(i)
    <2>1. Exists(t)'
      BY <1>4, <1>7, ExistsNamed, NoEntryTyped DEF Exists
    <2> QED
      BY <1>4, <1>7, <2>1 DEF Exists, Original
  <1>9. SettledTogether' /\ AppliedHasEffect' /\ EntriesKnown'
    <2>1. CASE r.lives
      <3>1. ReviewedAs(l, "duplicate", "undo_applied")
        BY <1>2, <1>5, <1>6, <1>7, <1>8, <2>1 DEF ReviewedAs, ImportInv, Columns
      <3> QED
        BY <1>2, <1>4, <2>1, <3>1, Reviewed
    <2>2. CASE ~ r.lives
      <3>1. cand' = cand /\ row' = row /\ links' = links
        BY <1>5, <2>2
      <3>2. SettledTogether'
        BY <3>1 DEF ImportInv, SettledTogether
      <3>3. AppliedHasEffect'
        BY <1>7, <3>1 DEF ImportInv, AppliedHasEffect, Columns
      <3>4. EntriesKnown'
        <4>1. \A i \in Ids : directory[i].source \in Lines \cup {0}
          BY DEF ImportInv, Columns, Entry
        <4> QED
          BY <1>7, <1>8, <3>1, <4>1 DEF ImportInv, EntriesKnown
      <3> QED
        BY <3>2, <3>3, <3>4
    <2> QED
      BY <2>1, <2>2
  <1>10. PICK x : x = [m EXCEPT !.undone = TRUE]
    OBVIOUS
  <1>11. /\ x \in MergeRow /\ x.line = m.line /\ x.run = m.run /\ x.target = m.target
         /\ x.fields = m.fields /\ x.before = m.before /\ x.undone
    BY <1>10 DEF MergeRow
  <1>12. /\ merges' \in Seq(MergeRow) /\ Len(merges') = Len(merges)
         /\ DOMAIN merges' = DOMAIN merges /\ merges'[n] = x
         /\ \A k \in DOMAIN merges : k # n => merges'[k] = merges[k]
    <2>1. merges' = [merges EXCEPT ![n] = x]
      BY <1>2, <1>3, <1>5, <1>10
    <2> QED
      BY <1>2, <1>11, <2>1 DEF ImportInv, Columns
  <1>13. \A k \in DOMAIN merges : \A i \in Ids, f \in Field :
            Fills(k, i, f)' <=> k # n /\ Fills(k, i, f)
    BY <1>11, <1>12 DEF Fills
  <1>14. MergesKnown'
    <2>1. ASSUME NEW k \in DOMAIN merges PROVE MergeKnown(merges[k])'
      <3>1. PICK y \in MergeRow : y = merges[k]
        BY DEF ImportInv, Columns
      <3>2. PICK z \in MergeRow : z = merges'[k]
        BY <1>11, <1>12, <3>1
      <3>3. /\ z.line = y.line /\ z.run = y.run /\ z.target = y.target
            /\ z.fields = y.fields /\ z.before = y.before
        BY <1>3, <1>11, <1>12, <3>1, <3>2
      <3>4. MergeKnown(y) /\ y.line \in Lines /\ y.target \in Ids
        BY <3>1 DEF ImportInv, MergesKnown, MergeRow
      <3>5. MergeKnown(z)'
        BY <1>5, <1>6, <1>8, <3>3, <3>4 DEF MergeKnown, CandidateLives
      <3> QED
        BY <3>2, <3>5 DEF MergeKnown, Exists, Original, CandidateLives
    <2>2. \A j, k \in DOMAIN merges' : \A i \in Ids, f \in Field :
             Fills(j, i, f)' /\ Fills(k, i, f)' => j = k
      BY <1>12, <1>13 DEF ImportInv, MergesKnown
    <2>3. ASSUME NEW i \in Ids, NEW f \in Field, Exists(i)'
          PROVE  /\ \A k \in DOMAIN merges' : Fills(k, i, f)' => directory'[i][f] = Csv[merges'[k].line][f]
                 /\ (\A k \in DOMAIN merges' : ~ Fills(k, i, f)') => directory'[i][f] = Original(i)'[f]
      <3>1. CASE i = t /\ f \in m.fields
        <4>1. Fills(n, i, f)
          BY <1>3, <1>4, <3>1 DEF Fills
        <4>2. \A k \in DOMAIN merges' : ~ Fills(k, i, f)'
          BY <1>2, <1>12, <1>13, <4>1 DEF ImportInv, MergesKnown
        <4>3. m.before[f] = Blank /\ Original(t)[f] = Blank
          BY <1>4, <3>1 DEF MergeKnown
        <4> QED
          BY <1>4, <1>7, <1>8, <3>1, <4>2, <4>3
      <3>2. CASE ~ (i = t /\ f \in m.fields)
        <4>1. Exists(i) /\ directory'[i][f] = directory[i][f] /\ Original(i)' = Original(i)
          BY <1>7, <1>8, <2>3, <3>2
        <4>2. \A k \in DOMAIN merges : Fills(k, i, f)' <=> Fills(k, i, f)
          BY <1>3, <1>4, <1>13, <3>2 DEF Fills
        <4>3. \A k \in DOMAIN merges : merges'[k].line = merges[k].line
          BY <1>3, <1>11, <1>12
        <4> QED
          BY <1>12, <4>1, <4>2, <4>3 DEF ImportInv, MergesKnown
      <3> QED
        BY <3>1, <3>2
    <2> QED
      BY <1>12, <2>1, <2>2, <2>3 DEF MergesKnown
  <1>15. PICK none, targets : none = {} /\ targets = {t}
    OBVIOUS
  <1>16. Touches(r.batch, targets, none)
    <2>1. \A i \in Ids : ~ Exists(i) => directory'[i] = directory[i]
      BY <1>4, <1>7
    <2>2. \A k \in DOMAIN merges :
         /\ k \in DOMAIN merges'
         /\ merges'[k].target = merges[k].target /\ merges'[k].line = merges[k].line
         /\ merges'[k].run = merges[k].run
         /\ merges[k].target \notin targets => merges'[k] = merges[k]
      BY <1>3, <1>4, <1>11, <1>12, <1>15
    <2>3. \A k \in Lines \ LinesOf(r.batch) : row'[k] = row[k] /\ cand'[k] = cand[k]
      BY <1>2, <1>6
    <2> QED
      BY <1>5, <1>7, <1>8, <1>15, <2>1, <2>2, <2>3 DEF Touches
  <1>17. targets \subseteq Target(w) /\ ~ Free(w)
    BY <1>1, <1>2, <1>15 DEF Target, Free, Idle
  <1>18. /\ batch' \in [Batches -> [status : BatchStatus, run : 0..MaxRuns]]
         /\ links' \subseteq Ids \X {Csv[y].title : y \in Lines}
    BY <1>5 DEF ImportInv, Columns
  <1> QED
    BY <1>1, <1>5, <1>6, <1>7, <1>9, <1>12, <1>14, <1>15, <1>16, <1>17, <1>18, Ends

-----------------------------------------------------------------------------
(* Application.                                                            *)

LEMMA ApplyCommits ==
    ASSUME ImportInv, Apart', NEW w \in Workers, CommitApply(w)
    PROVE  ImportInv'
  <1>1. PICK r, b, at : r = request[w] /\ b = r.batch /\ at = r.at
    OBVIOUS
  <1>2. r.op = "apply" /\ b \in Batches /\ Applies(r)
    BY <1>1 DEF CommitApply, ImportInv, Fresh
  <1>3. /\ Done(w) /\ cand' = cand /\ merges' = merges
        /\ batch' = [batch EXCEPT ![b].status = Written(batch[b].status, r.loaded, r.status)]
        /\ links' = links \cup (IF b \in Roster THEN LinksOf(r) ELSE {})
    BY <1>1, <1>2 DEF CommitApply, ImportInv, Columns
  <1>4. /\ batch' \in [Batches -> [status : BatchStatus, run : 0..MaxRuns]]
        /\ \A c \in Batches : batch'[c].run = batch[c].run
        /\ \A c \in Batches \ {b} : batch'[c] = batch[c]
    BY <1>2, <1>3 DEF Applies, Written, ImportInv, Columns
  <1>5. \A l \in DOMAIN at : /\ l \in Lines /\ l \in LinesOf(b) /\ Csv[l].batch = b /\ at[l] \in Ids
                             /\ IsValid(l) /\ cand[l].status = "absent"
    BY <1>1, <1>2 DEF Applies, LinesOf
  <1>6. \A l \in Lines : row'[l] = IF l \in DOMAIN at THEN [status |-> "applied", effect |-> at[l]]
                                   ELSE row[l]
    BY <1>1, <1>2 DEF CommitApply, Applies
  <1>7. /\ row' \in [Lines -> [status : RowStatus, effect : Ids \cup {0}]]
        /\ \A l \in DOMAIN at : row'[l].status = "applied" /\ row'[l].effect = at[l]
        /\ \A l \in Lines : l \notin DOMAIN at => row'[l] = row[l]
    <2>1. row' = [l \in Lines |-> row'[l]]
      BY DEF CommitApply
    <2>2. ASSUME NEW l \in DOMAIN at
          PROVE  /\ row'[l].status = "applied" /\ row'[l].effect = at[l]
                 /\ row'[l] \in [status : RowStatus, effect : Ids \cup {0}]
      <3>1. row'[l] = [status |-> "applied", effect |-> at[l]] /\ at[l] \in Ids
        BY <1>5, <1>6
      <3> QED
        BY <3>1 DEF RowStatus, Settled
    <2>3. \A l \in Lines : l \notin DOMAIN at => row'[l] = row[l]
      BY <1>6
    <2>4. \A l \in Lines : row'[l] \in [status : RowStatus, effect : Ids \cup {0}]
      BY <2>2, <2>3 DEF ImportInv, Columns
    <2> QED
      BY <2>1, <2>2, <2>3, <2>4
  <1>8. /\ r.creators \subseteq DOMAIN at
        /\ \A l \in r.creators : at[l] \in r.new /\ ~ Exists(at[l])
                                 /\ \A i \in Ids : directory[i].source # l
        /\ \A i \in r.new : \E l \in r.creators : at[l] = i
        /\ \A l, k \in r.creators : at[l] = at[k] => l = k
    <2>1. \A l, k \in r.creators : l \in Nat /\ k \in Nat /\ at[l] \in Nat /\ at[k] \in Nat
                                   /\ (l < k => at[l] < at[k])
      BY <1>1, <1>2, <1>5, LinesApart, BoundsAssumption DEF Applies, Ids
    <2> QED
      BY <1>1, <1>2, <2>1 DEF Applies
  <1>9. \A i \in Ids \ r.new : directory'[i] = directory[i]
    BY <1>1 DEF CommitApply
  <1>10. \A l \in r.creators : directory'[at[l]] = NewEntry(l)
    <2> SUFFICES ASSUME NEW l \in r.creators PROVE directory'[at[l]] = NewEntry(l)
      OBVIOUS
    <2>1. (CHOOSE k \in r.creators : at[k] = at[l]) = l
      BY <1>8
    <2> QED
      BY <1>1, <1>5, <1>8, <2>1 DEF CommitApply
  <1>11. directory' \in [Ids -> Entry]
    <2>1. \A i \in Ids : directory'[i] \in Entry
      BY <1>5, <1>8, <1>9, <1>10, ValueOfLine DEF ImportInv, Columns
    <2> QED
      BY <2>1 DEF CommitApply
  <1>12. \A i \in r.new : i \in Ids /\ ~ Exists(i) /\ \E l \in r.creators : at[l] = i
    BY <1>5, <1>8
  <1>13. \A i \in Ids : Exists(i) => /\ directory'[i] = directory[i] /\ Exists(i)'
                                     /\ Original(i)' = Original(i)
    BY <1>9, <1>12 DEF Exists, Original
  <1>14. \A l \in r.creators : /\ Exists(at[l])' /\ directory'[at[l]].source = l
                               /\ directory'[at[l]].name = Csv[l].name
                               /\ directory'[at[l]].name # Blank
                               /\ Original(at[l])' = directory'[at[l]]
    <2> SUFFICES ASSUME NEW l \in r.creators
                 PROVE  /\ Exists(at[l])' /\ directory'[at[l]].source = l
                        /\ directory'[at[l]].name = Csv[l].name
                        /\ directory'[at[l]].name # Blank
                        /\ Original(at[l])' = directory'[at[l]]
      OBVIOUS
    <2>1. l \in Lines /\ IsValid(l) /\ l # 0
      BY <1>5, <1>8, LinesApart
    <2>2. directory'[at[l]].source = l /\ directory'[at[l]].name = Csv[l].name
      BY <1>10, <2>1, ValueOfLine
    <2>3. Csv[l].name # Blank
      BY <2>1 DEF IsValid
    <2>4. Exists(at[l])'
      BY <2>2, <2>3, NoEntryTyped DEF Exists
    <2> QED
      BY <1>10, <2>1, <2>2, <2>3, <2>4 DEF Original
  <1>15. \A i \in Ids : Exists(i)' => Exists(i) \/ \E l \in r.creators : at[l] = i
    BY <1>9, <1>12 DEF Exists
  <1>16. SettledTogether'
    BY <1>3, <1>5, <1>7 DEF ImportInv, SettledTogether, Unresolved
  <1>17. AppliedHasEffect'
    <2> SUFFICES ASSUME NEW l \in Lines, row'[l].status = "applied"
                 PROVE  /\ row'[l].effect # 0
                        /\ directory'[row'[l].effect].name = Csv[l].name
                        /\ IF Csv[l].batch \in Roster
                           THEN <<row'[l].effect, Csv[l].title>> \in links'
                           ELSE directory'[row'[l].effect].source = l
      BY DEF AppliedHasEffect
    <2>1. CASE l \in DOMAIN at
      <3>1. row'[l].effect = at[l] /\ at[l] \in Ids /\ at[l] # 0 /\ Csv[l].batch = b
        BY <1>5, <1>7, <2>1, BoundsAssumption DEF Ids
      <3>2. directory'[at[l]].name = Csv[l].name
        <4>1. CASE l \in r.creators
          BY <1>14, <4>1
        <4>2. CASE Exists(at[l]) /\ directory[at[l]].name = Csv[l].name
          BY <1>13, <3>1, <4>2
        <4>3. CASE \E k \in r.creators : Csv[k].name = Csv[l].name /\ at[l] = at[k]
          BY <1>14, <4>3
        <4> QED
          BY <1>1, <1>2, <2>1, <4>1, <4>2, <4>3 DEF Applies
      <3>3. b \in Roster => <<at[l], Csv[l].title>> \in links'
        BY <1>1, <1>3, <2>1 DEF LinksOf
      <3>4. b \notin Roster => directory'[at[l]].source = l
        BY <1>1, <1>2, <1>14, <2>1 DEF Applies
      <3> QED
        BY <3>1, <3>2, <3>3, <3>4
    <2>2. CASE l \notin DOMAIN at
      <3>1. /\ row'[l] = row[l] /\ row[l].effect # 0 /\ row[l].effect \in Ids
            /\ directory[row[l].effect].name = Csv[l].name
            /\ IF Csv[l].batch \in Roster THEN <<row[l].effect, Csv[l].title>> \in links
               ELSE directory[row[l].effect].source = l
        BY <1>7, <2>2 DEF ImportInv, AppliedHasEffect, Columns
      <3>2. Csv[l].name # Blank
        BY <1>7, <2>2 DEF ImportInv, EntriesKnown
      <3> QED
        BY <1>3, <1>13, <3>1, <3>2, ExistsNamed
    <2> QED
      BY <2>1, <2>2
  <1>18. EntriesKnown'
    <2>1. ASSUME NEW i \in Ids, Exists(i)' PROVE directory'[i].name # Blank
      BY <1>13, <1>14, <1>15, <2>1 DEF ImportInv, EntriesKnown
    <2>2. \A i \in Ids : directory'[i].source # 0 =>
            \/ Exists(i) /\ directory[i].source = directory'[i].source
            \/ \E l \in r.creators : at[l] = i /\ directory'[i].source = l
      BY <1>9, <1>12, <1>14, NoEntryTyped DEF Exists
    <2>3. ASSUME NEW i \in Ids, NEW l, l = directory'[i].source, l # 0
          PROVE  /\ directory'[i].name = Csv[l].name /\ IsValid(l)
                 /\ Csv[l].batch \notin Roster =>
                      row'[l].status = "applied" \/ cand'[l].status # "absent"
      <3>1. CASE Exists(i) /\ directory[i].source = l
        <4>1. l \in Lines /\ directory'[i] = directory[i]
          BY <1>13, <2>3, <3>1 DEF ImportInv, Columns, Entry
        <4>2. row[l].status = "applied" => row'[l].status = "applied"
          BY <1>7, <4>1
        <4> QED
          BY <1>3, <2>3, <3>1, <4>1, <4>2 DEF ImportInv, EntriesKnown
      <3>2. CASE \E k \in r.creators : at[k] = i /\ l = k
        BY <1>5, <1>7, <1>8, <1>14, <3>2
      <3> QED
        BY <2>2, <2>3, <3>1, <3>2
    <2>4. ASSUME NEW i \in Ids, NEW j \in Ids, directory'[i].source = directory'[j].source,
                 directory'[i].source # 0
          PROVE  i = j
      BY <1>8, <2>2, <2>4 DEF ImportInv, EntriesKnown
    <2>5. ASSUME NEW l \in Lines, cand'[l].status # "absent"
          PROVE  (cand[l].target \in Ids /\ Exists(cand[l].target))'
      <3>1. PICK i \in Ids : i = cand[l].target /\ i = cand'[l].target /\ Exists(i)
        BY <1>3, <2>5 DEF ImportInv, EntriesKnown
      <3> QED
        BY <1>13, <3>1 DEF Exists
    <2>6. ASSUME NEW l \in Lines, row'[l].status = "applied" PROVE Csv[l].name # Blank
      BY <1>5, <1>7, <2>6 DEF ImportInv, EntriesKnown, IsValid
    <2> QED
      BY <2>1, <2>3, <2>4, <2>5, <2>6 DEF EntriesKnown, Exists
  <1>19. MergesKnown'
    <2>1. ASSUME NEW k \in DOMAIN merges PROVE MergeKnown(merges[k])'
      <3>1. PICK m \in MergeRow : m = merges[k] /\ m = merges'[k]
        BY <1>3 DEF ImportInv, Columns
      <3>2. MergeKnown(m) /\ m.target \in Ids /\ Csv[m.line].batch \in Batches
        BY <3>1, CsvAssumption DEF ImportInv, MergesKnown, MergeRow
      <3>3. MergeKnown(m)'
        BY <1>3, <1>4, <1>13, <3>2 DEF MergeKnown, CandidateLives
      <3> QED
        BY <3>1, <3>3 DEF MergeKnown, Exists, Original, CandidateLives
    <2>2. \A k \in DOMAIN merges, i \in Ids, f \in Field : /\ Fills(k, i, f)' <=> Fills(k, i, f)
                                                           /\ Fills(k, i, f) => Exists(i)
      BY <1>3 DEF Fills, ImportInv, MergesKnown, MergeKnown
    <2>3. \A j, k \in DOMAIN merges' : \A i \in Ids, f \in Field :
             Fills(j, i, f)' /\ Fills(k, i, f)' => j = k
      BY <1>3, <2>2 DEF ImportInv, MergesKnown
    <2>4. ASSUME NEW i \in Ids, NEW f \in Field, Exists(i)'
          PROVE  /\ \A k \in DOMAIN merges' : Fills(k, i, f)' => directory'[i][f] = Csv[merges'[k].line][f]
                 /\ (\A k \in DOMAIN merges' : ~ Fills(k, i, f)') => directory'[i][f] = Original(i)'[f]
      <3>1. CASE Exists(i)
        <4>1. directory'[i] = directory[i] /\ Original(i)' = Original(i)
          BY <1>13, <3>1
        <4> QED
          BY <1>3, <2>2, <3>1, <4>1 DEF ImportInv, MergesKnown
      <3>2. CASE ~ Exists(i)
        <4>1. Original(i)' = directory'[i]
          BY <1>14, <1>15, <2>4, <3>2
        <4> QED
          BY <1>3, <2>2, <3>2, <4>1
      <3> QED
        BY <3>1, <3>2
    <2> QED
      BY <1>3, <2>1, <2>3, <2>4 DEF MergesKnown
  <1>20. PICK none, new : none = {} /\ new = r.new
    OBVIOUS
  <1>21. Touches(b, none, new) /\ none \subseteq Target(w) /\ ~ Free(w)
    <2>1. \A l \in Lines \ LinesOf(b) : row'[l] = row[l] /\ cand'[l] = cand[l]
      BY <1>3, <1>5, <1>6
    <2>2. \A i \in Ids : ~ Exists(i) =>
            directory'[i] = directory[i] \/ (i \in new /\ directory'[i].source \in LinesOf(b))
      BY <1>5, <1>8, <1>9, <1>12, <1>14, <1>20
    <2>3. ~ Free(w)
      BY <1>1, <1>2 DEF Free, Idle
    <2> QED
      BY <1>3, <1>4, <1>13, <1>20, <2>1, <2>2, <2>3 DEF Touches
  <1>22. /\ links' \subseteq Ids \X {Csv[y].title : y \in Lines}
         /\ merges' \in Seq(MergeRow) /\ Len(merges') = Len(merges)
         /\ cand' \in [Lines -> [status : CandStatus, target : Ids \cup {0}]]
    BY <1>1, <1>3, <1>5 DEF ImportInv, Columns, LinksOf
  <1> QED
    BY <1>1, <1>2, <1>3, <1>4, <1>7, <1>11, <1>16, <1>17, <1>18, <1>19, <1>20, <1>21, <1>22, Ends

-----------------------------------------------------------------------------
LEMMA NextImport ==
    ASSUME ImportInv, [Next /\ Apart']_vars
    PROVE  ImportInv'
  <1>1. CASE UNCHANGED vars
    <2>1. UNCHANGED Tables /\ request' = request
      BY <1>1 DEF vars, Tables
    <2> QED
      BY <2>1, TablesKept
         DEF ImportInv, Columns, MergesBounded, Merging, NewApart, Apart, Free, Target
  <1>2. CASE Next /\ Apart'
    <2>1. CASE \E b \in Batches : UploadImportBatch(b)
      BY <1>2, <2>1, UploadKeeps
    <2>2. ASSUME NEW w \in Workers, Start(w) PROVE ImportInv'
      BY <1>2, <2>2, NormalizeStarts, ApplyStarts, IgnoreStarts, MergeStarts, UndoStarts DEF Start
    <2>a. CASE \E w \in Workers : Load(w)
      BY <1>2, <2>a, LoadKeeps
    <2>3. ASSUME NEW w \in Workers, Commit(w) PROVE ImportInv'
      BY <1>2, <2>3, NormalizeCommits, ApplyCommits, IgnoreCommits, MergeCommits, UndoCommits
         DEF Commit
    <2>4. CASE \E w \in Workers : AbortRequest(w)
      BY <1>2, <2>4, AbortKeeps
    <2> QED
      BY <1>2, <2>1, <2>2, <2>a, <2>3, <2>4 DEF Next
  <1> QED
    BY <1>1, <1>2

LEMMA ImportInvariant == ApartSpec => []ImportInv
  <1>1. ImportInv /\ [Next /\ Apart']_vars => ImportInv'
    BY NextImport
  <1> QED
    BY <1>1, InitImport, PTL DEF ApartSpec

LEMMA AtMostOne ==
    ASSUME NEW S, \A x, y \in S : x = y
    PROVE  Cardinality(S) <= 1
  <1>1. CASE S = {}
    BY <1>1, FS_EmptySet
  <1>2. CASE S # {}
    <2>1. PICK x \in S : TRUE
      BY <1>2
    <2>2. S = {x}
      BY <2>1
    <2> QED
      BY <2>2, FS_Singleton
  <1> QED
    BY <1>1, <1>2

\* No line becomes two entries, and every field of an entry is its own or that
\* of the one merge that filled it and was not undone, while requests about one
\* batch or entry do not overlap (_find_member_duplicate,
\* merge_duplicate_candidate, undo_merge_action).
THEOREM DirectorySafe == ApartSpec => []DirectoryExplained
  <1>1. ImportInv => DirectoryExplained
    <2> SUFFICES ASSUME ImportInv PROVE DirectoryExplained
      OBVIOUS
    <2>1. ImportedOnce
      <3> SUFFICES ASSUME NEW l \in Lines
                   PROVE  Cardinality({i \in Ids : directory[i].source = l}) <= 1
        BY DEF ImportedOnce
      <3>1. \A i, j \in {x \in Ids : directory[x].source = l} : i = j
        BY LinesApart DEF ImportInv, EntriesKnown
      <3> QED
        BY <3>1, AtMostOne
    <2>2. FieldsExplained
      <3> SUFFICES ASSUME NEW i \in Ids, Exists(i), NEW f \in Field
                   PROVE  /\ Cardinality(Live(i, f)) <= 1
                          /\ directory[i][f] = IF Live(i, f) = {} THEN Original(i)[f]
                                ELSE Csv[merges[CHOOSE k \in Live(i, f) : TRUE].line][f]
        BY DEF FieldsExplained
      <3>1. \A k : k \in Live(i, f) <=> k \in DOMAIN merges /\ Fills(k, i, f)
        BY DEF Live, Fills
      <3>2. \A j, k \in Live(i, f) : j = k
        BY <3>1 DEF ImportInv, MergesKnown
      <3>3. Cardinality(Live(i, f)) <= 1
        BY <3>2, AtMostOne
      <3>4. CASE Live(i, f) = {}
        BY <3>1, <3>3, <3>4 DEF ImportInv, MergesKnown
      <3>5. CASE Live(i, f) # {}
        <4>1. (CHOOSE k \in Live(i, f) : TRUE) \in Live(i, f)
          BY <3>5
        <4> QED
          BY <3>1, <3>3, <3>5, <4>1 DEF ImportInv, MergesKnown
      <3> QED
        BY <3>4, <3>5
    <2> QED
      BY <2>1, <2>2 DEF DirectoryExplained
  <1> QED
    BY <1>1, ImportInvariant, PTL


\* Row, candidate and directory hold values of their kinds and are settled
\* together, through every order of applying, merging, ignoring, undoing and
\* normalizing again, while requests about one batch or entry do not overlap
\* (apply_import_batch, merge_duplicate_candidate, ignore_duplicate_candidate,
\* undo_merge_action).
THEOREM RowsSafe == ApartSpec => []RowsSettled
  <1>1. ImportInv => RowsSettled
    <2> SUFFICES ASSUME ImportInv PROVE RowsSettled
      OBVIOUS
    <2>1. Len(merges) <= MaxMerges
      <3>1. Cardinality(Merging) \in Nat /\ Len(merges) \in Nat
        BY MergersFinite DEF Merging, ImportInv, Columns
      <3> QED
        BY <3>1, BoundsAssumption DEF ImportInv, MergesBounded
    <2> QED
      BY <2>1 DEF ImportInv, RowsSettled, TypeOK, Columns, Entry
  <1> QED
    BY <1>1, ImportInvariant, PTL

-----------------------------------------------------------------------------
(* Requests that overlap.                                                  *)

\* An entry keeps what it was created with, however requests overlap: a merge
\* fills fields that were blank from the beginning, and undoing it empties no
\* other (merge_duplicate_candidate, undo_merge_action).
OwnFieldsKept ==
    \A i \in Ids : Exists(i) =>
        \A f \in Field : Original(i)[f] # Blank => directory[i][f] = Original(i)[f]

\* A merge filled fields its entry never had, and while its candidate lives,
\* there is one.
Recorded(m) ==
    /\ Exists(m.target)
    /\ \A f \in m.fields : Original(m.target)[f] = Blank
    /\ m.run <= batch[Csv[m.line].batch].run
    /\ CandidateLives(m) => cand[m.line].status # "absent"

Told ==
    /\ OwnFieldsKept
    /\ \A i \in Ids : Exists(i) => directory[i].name # Blank
    /\ \A l \in Lines : cand[l].status # "absent" =>
         cand[l].target \in Ids /\ Exists(cand[l].target)
    /\ \A k \in DOMAIN merges : Recorded(merges[k])

\* What a request has read may be over by now, but entries stay for good, and so
\* does what they were created with; and until a batch is normalized again, its
\* candidates stay.
ReadsNormalize(r) ==
    /\ r.run < MaxRuns
    /\ \A l \in LinesOf(r.batch) :
         /\ r.found[l] \in Ids \cup {0}
         /\ r.found[l] # 0 => Exists(r.found[l])

ReadsApply(r) ==
    /\ r.status \in BatchStatus
    /\ DOMAIN r.at \subseteq LinesOf(r.batch) /\ r.creators \subseteq DOMAIN r.at
    /\ r.new = {r.at[l] : l \in r.creators}
    /\ \A l \in DOMAIN r.at : r.at[l] \in Ids /\ IsValid(l)
    /\ \A l \in r.creators : /\ ~ Exists(r.at[l])
                             /\ \A k \in r.creators : l < k => r.at[l] < r.at[k]

ReadsReview(r) ==
    /\ r \in ReviewRequest
    /\ Csv[r.line].batch = r.batch /\ r.run <= batch[r.batch].run
    /\ Exists(r.target)
    /\ \A f \in r.fields : Original(r.target)[f] = Blank
    /\ r.op = "undo" =>
         /\ r.merge \in DOMAIN merges
         /\ r.line = merges[r.merge].line /\ r.target = merges[r.merge].target
    /\ (r.op = "undo" => r.stage \in {"candidate", "row"} /\ r.lives)
         /\ r.run = batch[r.batch].run
         => cand[r.line].status # "absent"

Remembers(r) ==
    /\ r.op \in {"none", "normalize", "apply", "ignore", "merge", "undo"}
    /\ r.op # "none" => r.batch \in Batches
    /\ r.op = "normalize" => ReadsNormalize(r)
    /\ r.op = "apply" => ReadsApply(r)
    /\ r.op \in {"ignore", "merge", "undo"} => ReadsReview(r)

OverlapInv ==
    /\ Columns
    /\ Told
    /\ \A w \in Workers : Remembers(request[w])
    /\ NewApart

\* What later steps keep of what there was; new are the ids of new entries.
Advances(new) ==
    /\ \A b \in Batches : batch[b].run <= batch'[b].run
    /\ \A l \in Lines : batch'[Csv[l].batch].run = batch[Csv[l].batch].run =>
         (cand[l].status # "absent" => cand'[l].status # "absent")
    /\ \A i \in Ids : Exists(i) =>
         /\ Exists(i)'
         /\ directory'[i].source = directory[i].source
    /\ \A i \in Ids \ new : ~ Exists(i) => ~ Exists(i)'
    /\ \A k \in DOMAIN merges :
         /\ k \in DOMAIN merges'
         /\ merges'[k].line = merges[k].line /\ merges'[k].run = merges[k].run
         /\ merges'[k].target = merges[k].target /\ merges'[k].fields = merges[k].fields

LEMMA RunsTyped ==
    ASSUME Columns, NEW b \in Batches
    PROVE  batch[b].run \in 0..MaxRuns /\ batch[b].run \in Nat /\ batch[b].status \in BatchStatus
  BY BoundsAssumption DEF Columns

LEMMA OriginalStays ==
    ASSUME NEW new, Advances(new), NEW i \in Ids, Exists(i)
    PROVE  Original(i)' = Original(i)
  BY DEF Advances, Original

LEMMA RecordedStays ==
    ASSUME Columns, Columns', NEW new, Advances(new), NEW k \in DOMAIN merges,
           Recorded(merges[k])
    PROVE  Recorded(merges[k])'
  <1>1. PICK m, n : m = merges[k] /\ n = merges'[k]
    OBVIOUS
  <1>2. /\ m \in MergeRow /\ n.line = m.line /\ n.run = m.run /\ n.target = m.target
        /\ n.fields = m.fields /\ Recorded(m)
    BY <1>1 DEF Columns, Advances
  <1>3. m.line \in Lines /\ m.target \in Ids /\ m.run \in Nat
    BY <1>2, BoundsAssumption DEF MergeRow
  <1>4. PICK b \in Batches : b = Csv[m.line].batch
    BY <1>3, CsvAssumption
  <1>5. /\ batch[b].run \in Nat /\ batch'[b].run \in Nat /\ batch[b].run <= batch'[b].run
    BY BoundsAssumption DEF Columns, Advances
  <1>6. Exists(m.target)' /\ Original(m.target)' = Original(m.target)
    BY <1>2, <1>3, OriginalStays DEF Recorded, Advances
  <1>7. m.run <= batch'[b].run
    BY <1>2, <1>3, <1>4, <1>5 DEF Recorded
  <1>8. batch'[b].run = m.run => cand'[m.line].status # "absent"
    BY <1>2, <1>3, <1>4, <1>5 DEF Recorded, CandidateLives, Advances
  <1>9. Recorded(n)'
    BY <1>2, <1>4, <1>6, <1>7, <1>8 DEF Recorded, CandidateLives
  <1> QED
    BY <1>1, <1>9 DEF Recorded, CandidateLives, Exists, Original

LEMMA RemembersStill ==
    ASSUME Columns, Columns', NEW new, Advances(new), NEW r, Remembers(r),
           r.op = "apply" => r.new \cap new = {}
    PROVE  Remembers(r)'
  <1>1. \A i \in Ids : Exists(i) => Exists(i)' /\ Original(i)' = Original(i)
    BY OriginalStays DEF Advances
  <1>2. r.op = "normalize" => ReadsNormalize(r)'
    BY <1>1 DEF Remembers, ReadsNormalize
  <1>3. ASSUME r.op = "apply" PROVE ReadsApply(r)'
    <2>1. ReadsApply(r) /\ \A l \in r.creators : r.at[l] \in Ids \ new
      BY <1>3 DEF Remembers, ReadsApply
    <2> QED
      BY <2>1 DEF ReadsApply, Advances
  <1>4. ASSUME r.op \in {"ignore", "merge", "undo"} PROVE ReadsReview(r)'
    <2>1. /\ ReadsReview(r) /\ r.target \in Ids /\ r.line \in Lines /\ r.batch \in Batches
          /\ r.run \in Nat /\ Csv[r.line].batch = r.batch /\ r.run <= batch[r.batch].run
      BY <1>4, BoundsAssumption DEF Remembers, ReadsReview, ReviewRequest
    <2>2. /\ batch[r.batch].run \in Nat /\ batch'[r.batch].run \in Nat
          /\ batch[r.batch].run <= batch'[r.batch].run
      BY <2>1, BoundsAssumption DEF Columns, Advances
    <2>3. /\ r.run <= batch'[r.batch].run
          /\ r.run = batch'[r.batch].run =>
               r.run = batch[r.batch].run /\ batch'[r.batch].run = batch[r.batch].run
      BY <2>1, <2>2
    <2>4. batch'[r.batch].run = batch[r.batch].run =>
            (cand[r.line].status # "absent" => cand'[r.line].status # "absent")
      BY <2>1 DEF Advances
    <2> QED
      BY <1>1, <2>1, <2>3, <2>4 DEF ReadsReview, Advances
  <1> QED
    BY <1>2, <1>3, <1>4 DEF Remembers

LEMMA RemembersIdle == Idle.op = "none" /\ Remembers(Idle) /\ Remembers(Idle)'
  BY DEF Idle, Remembers

LEMMA RemembersNamed ==
    ASSUME NEW v \in Workers, NEW r, request'[v] = r, Remembers(r)'
    PROVE  Remembers(request[v])'
  <1>1. ReadsNormalize(r)' => ReadsNormalize(request[v])'
    BY DEF ReadsNormalize
  <1>2. ReadsApply(r)' => ReadsApply(request[v])'
    BY DEF ReadsApply
  <1>3. ReadsReview(r)' => ReadsReview(request[v])'
    BY DEF ReadsReview, Exists, Original
  <1> QED
    BY <1>1, <1>2, <1>3 DEF Remembers

\* The others' requests after a step about one.
LEMMA Overlaps ==
    ASSUME OverlapInv, NEW w \in Workers, NEW r, request' = [request EXCEPT ![w] = r],
           Columns', Told', Remembers(r)',
           NEW new, Advances(new), new # {} => request[w].op = "apply" /\ new = request[w].new,
           r.op = "apply" => \A v \in Workers \ {w} :
                request[v].op = "apply" => request[v].new \cap r.new = {}
    PROVE  OverlapInv'
  <1>1. request'[w] = r /\ \A v \in Workers \ {w} : request'[v] = request[v]
    BY DEF OverlapInv, Columns
  <1>2. ASSUME NEW v \in Workers PROVE Remembers(request[v])'
    <2>1. CASE v = w
      BY <1>1, <2>1, RemembersNamed
    <2>2. CASE v # w
      <3>1. PICK q : q = request[v] /\ q = request'[v]
        BY <1>1, <2>2
      <3>2. Remembers(q)
        BY <3>1 DEF OverlapInv
      <3>3. q.op = "apply" => q.new \cap new = {}
        BY <2>2, <3>1 DEF OverlapInv, NewApart
      <3>4. Remembers(q)'
        BY <3>2, <3>3, RemembersStill DEF OverlapInv
      <3> QED
        BY <3>1, <3>4, RemembersNamed
    <2> QED
      BY <2>1, <2>2
  <1>3. NewApart'
    BY <1>1 DEF OverlapInv, NewApart
  <1> QED
    BY <1>2, <1>3 DEF OverlapInv

-----------------------------------------------------------------------------
LEMMA OverlapInit == Init => OverlapInv
  <1> SUFFICES ASSUME Init PROVE OverlapInv
    OBVIOUS
  <1>1. ImportInv
    BY InitImport
  <1>2. \A i \in Ids : Original(i) = directory[i] \/ ~ Exists(i)
    BY DEF Init, Exists, Original, Seed, NoEntry
  <1>3. Told
    BY <1>1, <1>2 DEF Init, Told, ImportInv, EntriesKnown, OwnFieldsKept
  <1>4. \A w \in Workers : Remembers(request[w])
    <2> SUFFICES ASSUME NEW w \in Workers PROVE Remembers(request[w])
      OBVIOUS
    <2>1. request[w] = Idle
      BY DEF Init
    <2> QED
      BY <2>1, RemembersIdle
  <1> QED
    BY <1>1, <1>3, <1>4 DEF OverlapInv, ImportInv

\* A request begins or goes on: the tables stay.
LEMMA TablesTold ==
    ASSUME OverlapInv, UNCHANGED Tables
    PROVE  /\ Told' /\ Advances({}) /\ (DOMAIN request' = Workers => Columns')
           /\ \A r : Remembers(r) => Remembers(r)'
  <1>1. /\ batch' = batch /\ row' = row /\ cand' = cand /\ directory' = directory
        /\ links' = links /\ merges' = merges
    BY DEF Tables
  <1>2. Told'
    BY <1>1 DEF OverlapInv, Told, OwnFieldsKept, Recorded, Exists, CandidateLives, Original
  <1>3. Advances({})
    BY <1>1, RunsTyped DEF OverlapInv, Advances, Exists
  <1>4. \A r : Remembers(r) => Remembers(r)'
    BY <1>1 DEF Remembers, ReadsNormalize, ReadsApply, ReadsReview, Exists, Original
  <1>5. DOMAIN request' = Workers => Columns'
    BY <1>1 DEF OverlapInv, Columns
  <1> QED
    BY <1>2, <1>3, <1>4, <1>5

LEMMA Asked ==
    ASSUME OverlapInv, NEW w \in Workers, NEW r, request' = [request EXCEPT ![w] = r],
           UNCHANGED Tables, Remembers(r),
           r.op = "apply" => \A v \in Workers \ {w} :
                request[v].op = "apply" => request[v].new \cap r.new = {}
    PROVE  OverlapInv'
  <1>1. DOMAIN request' = Workers
    BY DEF OverlapInv, Columns
  <1>2. PICK new : new = {}
    OBVIOUS
  <1>3. Advances(new)
    BY <1>2, TablesTold
  <1> QED
    BY <1>1, <1>2, <1>3, TablesTold, Overlaps

LEMMA NormalizeAsked ==
    ASSUME OverlapInv, NEW w \in Workers, NEW b \in Batches, NormalizeImportBatch(w, b)
    PROVE  OverlapInv'
  <1>1. PICK found \in [LinesOf(b) -> Ids \cup {0}] :
          /\ \A l \in LinesOf(b) : found[l] \in IF Looked(l) = {} THEN {0} ELSE Looked(l)
          /\ request' = [request EXCEPT ![w] =
               [op |-> "normalize", batch |-> b, run |-> batch[b].run,
                loaded |-> batch[b].status, found |-> found]]
    BY DEF NormalizeImportBatch
  <1>2. PICK r : /\ r = [op |-> "normalize", batch |-> b, run |-> batch[b].run,
                         loaded |-> batch[b].status, found |-> found]
                 /\ request' = [request EXCEPT ![w] = r]
    BY <1>1
  <1>3. /\ r.op = "normalize" /\ r.batch = b /\ r.run = batch[b].run /\ r.found = found
        /\ r.run < MaxRuns /\ UNCHANGED Tables
    BY <1>2 DEF NormalizeImportBatch, Tables
  <1>4. ASSUME NEW l \in LinesOf(b)
        PROVE  /\ found[l] \in Ids \cup {0}
               /\ found[l] # 0 => Exists(found[l])
    <2>1. \A i \in Looked(l) : i \in Ids /\ Exists(i)
      BY DEF Looked, Duplicates, Named
    <2> QED
      BY <1>1, <2>1
  <1>5. Remembers(r)
    BY <1>3, <1>4 DEF Remembers, ReadsNormalize
  <1> QED
    BY <1>2, <1>3, <1>5, Asked

LEMMA ApplyAsked ==
    ASSUME OverlapInv, NEW w \in Workers, NEW b \in Batches, ApplyImportBatch(w, b)
    PROVE  OverlapInv'
  <1>1. PICK lines : lines = Importable(b)
    OBVIOUS
  <1>2. PICK creators : creators = Creators(b, lines)
    OBVIOUS
  <1>0. PICK at \in [lines -> Ids] :
          /\ Placed(b, lines, at)
          /\ request' = [request EXCEPT ![w] =
               [op |-> "apply", batch |-> b, run |-> batch[b].run,
                loaded |-> batch[b].status,
                status |-> IF \E l \in LinesOf(b) : Waiting(l)
                           THEN "needs_review" ELSE "processed",
                at |-> at, ignored |-> NewlyIgnored(b), creators |-> creators,
                new |-> {at[l] : l \in creators}]]
    BY <1>1, <1>2 DEF ApplyImportBatch
  <1>3. PICK r :
          /\ r = [op |-> "apply", batch |-> b, run |-> batch[b].run,
                  loaded |-> batch[b].status,
                  status |-> IF \E l \in LinesOf(b) : Waiting(l)
                             THEN "needs_review" ELSE "processed",
                  at |-> at, ignored |-> NewlyIgnored(b), creators |-> creators,
                  new |-> {at[l] : l \in creators}]
          /\ request' = [request EXCEPT ![w] = r]
    BY <1>0
  <1>4. /\ r.op = "apply" /\ r.batch = b /\ r.status \in BatchStatus
        /\ r.at = at /\ r.creators = creators /\ r.new = {at[l] : l \in creators}
    BY <1>3 DEF BatchStatus
  <1>5. UNCHANGED Tables
    BY DEF ApplyImportBatch, Tables
  <1>6. /\ creators \subseteq lines
        /\ r.new \subseteq FreeIds
        /\ \A l, k \in creators : l < k => at[l] < at[k]
    BY <1>0, <1>2, <1>4 DEF Placed, Creators
  <1>7. \A l \in lines : l \in LinesOf(b) /\ IsValid(l)
    BY <1>1 DEF Importable
  <1>8. \A l \in creators : ~ Exists(at[l])
    BY <1>4, <1>6 DEF FreeIds
  <1>9. ReadsApply(r)
    BY <1>4, <1>6, <1>7, <1>8 DEF ReadsApply
  <1>10. Remembers(r)
    BY <1>4, <1>9 DEF Remembers
  <1>11. \A v \in Workers \ {w} :
            request[v].op = "apply" => request[v].new \cap r.new = {}
    BY <1>6 DEF FreeIds, Reserved
  <1> QED
    BY <1>3, <1>4, <1>5, <1>10, <1>11, Asked

LEMMA ReviewAsked ==
    ASSUME OverlapInv, NEW w \in Workers, NEW l \in Lines,
           IgnoreDuplicate(w, l) \/ MergeDuplicate(w, l)
    PROVE  OverlapInv'
  <1>1. PICK op \in {"ignore", "merge"} :
          request' = [request EXCEPT ![w] = Review(op, "candidate", l, cand[l].target)]
    BY DEF IgnoreDuplicate, MergeDuplicate
  <1>2. PICK r : /\ r = Review(op, "candidate", l, cand[l].target)
                 /\ request' = [request EXCEPT ![w] = r]
    BY <1>1
  <1>3. cand[l].target \in Ids /\ Exists(cand[l].target) /\ UNCHANGED Tables
    BY DEF IgnoreDuplicate, MergeDuplicate, HasCandidate, OverlapInv, Told, Tables
  <1>4. cand[l].status # "absent"
    BY DEF IgnoreDuplicate, MergeDuplicate, HasCandidate
  <1>5. /\ r \in ReviewRequest /\ r.op = op /\ r.stage = "candidate" /\ r.line = l
        /\ r.batch = Csv[l].batch /\ r.batch \in Batches /\ r.run = batch[r.batch].run
        /\ r.target = cand[l].target /\ r.fields = {}
    BY <1>2, <1>3, ReviewTyped DEF OverlapInv
  <1>6. r.run <= batch[r.batch].run
    BY <1>5, RunsTyped DEF OverlapInv
  <1>7. Remembers(r) /\ r.op # "apply"
    BY <1>3, <1>4, <1>5, <1>6 DEF Remembers, ReadsReview
  <1> QED
    BY <1>2, <1>3, <1>7, Asked

LEMMA UndoAsked ==
    ASSUME OverlapInv, NEW w \in Workers, NEW k \in DOMAIN merges, UndoMerge(w, k)
    PROVE  OverlapInv'
  <1>1. PICK m : m = merges[k] /\ m \in MergeRow
    BY DEF OverlapInv, Columns
  <1>2. m.line \in Lines /\ m.target \in Ids /\ k \in Nat
    BY <1>1 DEF MergeRow, OverlapInv, Columns
  <1>3. PICK q : q = Review("undo", "action", m.line, m.target)
    OBVIOUS
  <1>4. PICK r : r = [q EXCEPT !.merge = k] /\ request' = [request EXCEPT ![w] = r]
    BY <1>1, <1>3 DEF UndoMerge
  <1>5. /\ q \in ReviewRequest /\ q.op = "undo" /\ q.target = m.target /\ q.fields = {}
        /\ q.stage = "action" /\ q.line = m.line /\ q.batch = Csv[m.line].batch
        /\ q.batch \in Batches /\ q.run = batch[q.batch].run
    BY <1>2, <1>3, ReviewTyped DEF OverlapInv
  <1>6. /\ r \in ReviewRequest /\ r.op = "undo" /\ r.target = m.target /\ r.fields = {}
        /\ r.stage = "action" /\ r.line = m.line /\ r.batch = Csv[m.line].batch
        /\ r.merge = k /\ r.batch \in Batches /\ r.run = batch[r.batch].run
    BY <1>2, <1>4, <1>5 DEF ReviewRequest
  <1>7. Exists(m.target) /\ r.run <= batch[r.batch].run
    BY <1>1, <1>6, RunsTyped DEF OverlapInv, Told, Recorded
  <1>8. Remembers(r)
    BY <1>1, <1>6, <1>7 DEF Remembers, ReadsReview
  <1> QED
    BY <1>4, <1>6, <1>8, Asked DEF UndoMerge, Tables

LEMMA LoadAsked ==
    ASSUME OverlapInv, NEW w \in Workers, Load(w)
    PROVE  OverlapInv'
  <1>1. PICK q : q = request[w] /\ Remembers(q)
    BY DEF OverlapInv
  <1>2. q.op \in {"ignore", "merge", "undo"} /\ UNCHANGED Tables
    BY <1>1 DEF Load, LoadRow, LoadMergeTarget, LoadUndoTarget, LoadCandidate, Tables
  <1>3. /\ ReadsReview(q) /\ q \in ReviewRequest /\ q.line \in Lines /\ q.target \in Ids
        /\ q.batch \in Batches
        /\ row[q.line] \in [status : RowStatus, effect : Ids \cup {0}]
        /\ cand[q.line] \in [status : CandStatus, target : Ids \cup {0}]
        /\ directory[q.target] \in Entry /\ batch[q.batch].run \in 0..MaxRuns
        /\ q.run <= batch[q.batch].run
    BY <1>1, <1>2 DEF Remembers, ReadsReview, ReviewRequest, OverlapInv, Columns
  <1>4. ASSUME NEW r, request' = [request EXCEPT ![w] = r], r.op = q.op, ReadsReview(r)
        PROVE  OverlapInv'
    <2>1. r.batch \in Batches
      BY <1>4 DEF ReadsReview, ReviewRequest
    <2>2. Remembers(r) /\ r.op # "apply"
      BY <1>2, <1>4, <2>1 DEF Remembers
    <2> QED
      BY <1>2, <1>4, <2>2, Asked
  <1>5. CASE LoadRow(w)
    <2>1. PICK r : /\ r = [q EXCEPT !.stage = "row", !.row = row[q.line]]
                   /\ request' = [request EXCEPT ![w] = r] /\ q.stage = "candidate"
      BY <1>1, <1>5 DEF LoadRow, OverlapInv, Columns
    <2>2. /\ r \in ReviewRequest /\ r.op = q.op /\ r.target = q.target /\ r.line = q.line
          /\ r.fields = q.fields /\ r.merge = q.merge /\ r.batch = q.batch
          /\ r.run = q.run /\ r.lives = q.lives /\ r.stage = "row"
      BY <1>3, <2>1 DEF ReviewRequest
    <2>3. ReadsReview(r)
      BY <1>3, <2>1, <2>2 DEF ReadsReview
    <2> QED
      BY <1>4, <2>1, <2>2, <2>3
  <1>6. CASE LoadMergeTarget(w)
    <2>1. PICK r : /\ r = [q EXCEPT !.stage = "target",
                              !.fields = Fillable(q.line, directory[q.target]),
                              !.before = directory[q.target]]
                   /\ request' = [request EXCEPT ![w] = r] /\ q.op = "merge"
      BY <1>1, <1>6 DEF LoadMergeTarget, OverlapInv, Columns
    <2>2. Fillable(q.line, directory[q.target]) \in SUBSET Field
      BY DEF Fillable
    <2>3. /\ r \in ReviewRequest /\ r.op = q.op /\ r.target = q.target /\ r.line = q.line
          /\ r.fields = Fillable(q.line, directory[q.target]) /\ r.merge = q.merge
          /\ r.batch = q.batch /\ r.run = q.run
      BY <1>3, <2>1, <2>2 DEF ReviewRequest
    <2>4. \A f \in Fillable(q.line, directory[q.target]) : Original(q.target)[f] = Blank
      BY <1>3 DEF OverlapInv, Told, OwnFieldsKept, Fillable, ReadsReview
    <2>5. ReadsReview(r)
      BY <1>3, <2>1, <2>3, <2>4 DEF ReadsReview
    <2> QED
      BY <1>4, <2>1, <2>3, <2>5
  <1>7. CASE LoadUndoTarget(w)
    <2>1. PICK r : /\ r = [q EXCEPT !.stage = "target"]
                   /\ request' = [request EXCEPT ![w] = r] /\ q.op = "undo"
      BY <1>1, <1>7 DEF LoadUndoTarget, OverlapInv, Columns
    <2>2. /\ r \in ReviewRequest /\ r.op = q.op /\ r.target = q.target /\ r.line = q.line
          /\ r.fields = q.fields /\ r.merge = q.merge /\ r.batch = q.batch
          /\ r.run = q.run /\ r.stage = "target"
      BY <1>3, <2>1 DEF ReviewRequest
    <2>3. ReadsReview(r)
      BY <1>3, <2>1, <2>2 DEF ReadsReview
    <2> QED
      BY <1>4, <2>1, <2>2, <2>3
  <1>8. CASE LoadCandidate(w)
    <2>1. PICK m : m = merges[q.merge]
      OBVIOUS
    <2>2. PICK r : /\ r = [q EXCEPT !.stage = "candidate", !.run = batch[q.batch].run,
                              !.lives = CandidateLives(m), !.cand = cand[q.line]]
                   /\ request' = [request EXCEPT ![w] = r] /\ q.op = "undo"
      BY <1>1, <1>8, <2>1 DEF LoadCandidate, OverlapInv, Columns
    <2>3. CandidateLives(m) \in BOOLEAN
      BY DEF CandidateLives
    <2>4. /\ r \in ReviewRequest /\ r.op = q.op /\ r.target = q.target /\ r.line = q.line
          /\ r.fields = q.fields /\ r.merge = q.merge /\ r.batch = q.batch
          /\ r.run = batch[q.batch].run /\ r.lives = CandidateLives(m)
      BY <1>3, <2>2, <2>3 DEF ReviewRequest
    <2>5. r.lives => cand[r.line].status # "absent"
      <3>1. q.merge \in DOMAIN merges /\ m.line = q.line
        BY <1>3, <2>1, <2>2 DEF ReadsReview
      <3>2. Recorded(m)
        BY <2>1, <3>1 DEF OverlapInv, Told
      <3> QED
        BY <2>4, <3>1, <3>2 DEF Recorded
    <2>6. r.run <= batch[r.batch].run
      BY <1>3, <2>4, RunsTyped DEF OverlapInv
    <2>7. ReadsReview(r)
      BY <1>3, <2>2, <2>4, <2>5, <2>6 DEF ReadsReview
    <2> QED
      BY <1>4, <2>2, <2>4, <2>7
  <1> QED
    BY <1>5, <1>6, <1>7, <1>8 DEF Load

-----------------------------------------------------------------------------
(* A request commits, whatever the others have read.                       *)

LEMMA Committed ==
    ASSUME OverlapInv, NEW w \in Workers, Done(w), Columns', Told',
           NEW new, Advances(new), new # {} => request[w].op = "apply" /\ new = request[w].new
    PROVE  OverlapInv'
  <1>1. PICK r : r = Idle /\ request' = [request EXCEPT ![w] = r]
    BY DEF Done
  <1>2. r.op = "none" /\ Remembers(r)'
    BY <1>1, RemembersIdle
  <1> QED
    BY <1>1, <1>2, Overlaps

LEMMA AbortTold ==
    ASSUME OverlapInv, NEW w \in Workers, AbortRequest(w)
    PROVE  OverlapInv'
  <1>1. UNCHANGED Tables /\ Done(w)
    BY DEF AbortRequest, Tables
  <1>2. PICK r : r = Idle
    OBVIOUS
  <1>3. r.op = "none" /\ Remembers(r) /\ request' = [request EXCEPT ![w] = r]
    BY <1>1, <1>2, RemembersIdle DEF Done
  <1> QED
    BY <1>1, <1>3, Asked

LEMMA UploadTold ==
    ASSUME OverlapInv, NEW b \in Batches, UploadImportBatch(b)
    PROVE  OverlapInv'
  <1>1. /\ batch' \in [Batches -> [status : BatchStatus, run : 0..MaxRuns]]
        /\ \A c \in Batches : batch'[c].run = batch[c].run
    BY DEF UploadImportBatch, OverlapInv, Columns, BatchStatus
  <1>2. /\ row' = row /\ cand' = cand /\ directory' = directory /\ links' = links
        /\ merges' = merges /\ request' = request
    BY DEF UploadImportBatch
  <1>3. Columns' /\ NewApart'
    BY <1>1, <1>2 DEF OverlapInv, Columns, NewApart
  <1>4. PICK new : new = {}
    OBVIOUS
  <1>5. Advances(new)
    BY <1>1, <1>2, RunsTyped DEF OverlapInv, Advances, Exists
  <1>6. \A k \in DOMAIN merges : Recorded(merges[k])'
    BY <1>3, <1>5, RecordedStays DEF OverlapInv, Told
  <1>7. Told'
    BY <1>2, <1>6 DEF OverlapInv, Told, OwnFieldsKept, Exists, Original
  <1>8. ASSUME NEW v \in Workers PROVE Remembers(request[v])'
    <2>1. PICK q : q = request[v] /\ q = request'[v]
      BY <1>2
    <2>2. Remembers(q) /\ (q.op = "apply" => q.new \cap new = {})
      BY <1>4, <2>1 DEF OverlapInv
    <2>3. Remembers(q)'
      BY <1>3, <1>5, <2>2, RemembersStill DEF OverlapInv
    <2> QED
      BY <2>1, <2>3, RemembersNamed
  <1> QED
    BY <1>3, <1>7, <1>8 DEF OverlapInv

\* A review changes at most fields of entries that were blank from the
\* beginning; candidates keep their entries.
Reviews ==
    /\ batch' = batch
    /\ \A k \in Lines : /\ cand'[k].target = cand[k].target
                        /\ cand'[k].status = "absent" <=> cand[k].status = "absent"
    /\ \A i \in Ids : /\ directory'[i].name = directory[i].name
                      /\ directory'[i].source = directory[i].source
                      /\ ~ Exists(i) => directory'[i] = directory[i]
                      /\ Exists(i) => \A f \in Field :
                           Original(i)[f] # Blank => directory'[i][f] = directory[i][f]
    /\ \A k \in DOMAIN merges :
         /\ k \in DOMAIN merges'
         /\ merges'[k].line = merges[k].line /\ merges'[k].run = merges[k].run
         /\ merges'[k].target = merges[k].target /\ merges'[k].fields = merges[k].fields
    /\ \A k \in DOMAIN merges' \ DOMAIN merges :
         LET m == merges'[k]
         IN  /\ m.target \in Ids /\ Exists(m.target)
             /\ \A f \in m.fields : Original(m.target)[f] = Blank
             /\ m.line \in Lines /\ m.run = batch[Csv[m.line].batch].run
             /\ cand[m.line].status # "absent"

LEMMA ReviewTold ==
    ASSUME OverlapInv, NEW w \in Workers, Done(w), Reviews, Columns'
    PROVE  OverlapInv'
  <1>1. \A i \in Ids : Exists(i)' <=> Exists(i)
    BY NoEntryTyped DEF OverlapInv, Told, Reviews, Exists
  <1>2. PICK new : new = {}
    OBVIOUS
  <1>3. Advances(new)
    BY <1>1, RunsTyped DEF OverlapInv, Reviews, Advances
  <1>4. ASSUME NEW i \in Ids, Exists(i)', NEW f \in Field, Original(i)'[f] # Blank
        PROVE  directory'[i][f] = Original(i)'[f]
    <2>1. Exists(i) /\ Original(i)' = Original(i)
      BY <1>1, <1>3, <1>4, OriginalStays
    <2>2. directory[i][f] = Original(i)[f]
      BY <1>4, <2>1 DEF OverlapInv, Told, OwnFieldsKept
    <2> QED
      BY <1>4, <2>1, <2>2 DEF Reviews
  <1>5. OwnFieldsKept'
    <2> SUFFICES ASSUME NEW i \in Ids, Exists(i)', NEW f \in Field, Original(i)'[f] # Blank
                 PROVE  directory'[i][f] = Original(i)'[f]
      BY DEF OwnFieldsKept
    <2> QED
      BY <1>4
  <1>6. \A i \in Ids : Exists(i)' => directory'[i].name # Blank
    BY <1>1 DEF OverlapInv, Told, Reviews
  <1>7. ASSUME NEW k \in Lines, cand'[k].status # "absent"
        PROVE  (cand[k].target \in Ids /\ Exists(cand[k].target))'
    <2>1. PICK i : i = cand[k].target /\ i = cand'[k].target
      BY DEF Reviews
    <2>2. i \in Ids /\ Exists(i)'
      BY <1>1, <1>7, <2>1 DEF OverlapInv, Told, Reviews
    <2> QED
      BY <2>1, <2>2 DEF Exists
  <1>8. ASSUME NEW k \in DOMAIN merges' PROVE Recorded(merges[k])'
    <2>1. CASE k \in DOMAIN merges
      BY <1>3, <2>1, RecordedStays DEF OverlapInv, Told
    <2>2. CASE k \notin DOMAIN merges
      <3>1. PICK m : /\ m = merges'[k] /\ m.target \in Ids /\ Exists(m.target)
                     /\ \A f \in m.fields : Original(m.target)[f] = Blank
                     /\ m.line \in Lines /\ m.run = batch[Csv[m.line].batch].run
                     /\ cand[m.line].status # "absent"
        BY <2>2 DEF Reviews
      <3>2. Exists(m.target)' /\ Original(m.target)' = Original(m.target)
        BY <1>1, <1>3, <3>1, OriginalStays
      <3>3. m.run <= batch'[Csv[m.line].batch].run /\ cand'[m.line].status # "absent"
        <4>1. PICK b \in Batches : b = Csv[m.line].batch
          BY <3>1, CsvAssumption
        <4>2. batch[b].run \in Nat /\ batch' = batch
          BY RunsTyped DEF OverlapInv, Reviews
        <4>3. cand'[m.line].status = "absent" <=> cand[m.line].status = "absent"
          BY <3>1 DEF Reviews
        <4> QED
          BY <3>1, <4>1, <4>2, <4>3
      <3> QED
        BY <3>1, <3>2, <3>3 DEF Recorded, Exists, Original
    <2> QED
      BY <2>1, <2>2
  <1>9. Told'
    BY <1>5, <1>6, <1>7, <1>8 DEF Told, Exists
  <1> QED
    BY <1>2, <1>3, <1>9, Committed

LEMMA IgnoreTold ==
    ASSUME OverlapInv, NEW w \in Workers, CommitIgnore(w)
    PROVE  OverlapInv'
  <1>1. PICK r, l : r = request[w] /\ l = r.line
    OBVIOUS
  <1>2. r.op = "ignore" /\ r \in ReviewRequest /\ l \in Lines
        /\ r.cand.status \in CandStatus /\ r.row.status \in RowStatus
    BY <1>1 DEF CommitIgnore, OverlapInv, Remembers, ReadsReview, ReviewRequest
  <1>3. PICK rs, cs : /\ cs = Written(cand[l].status, r.cand.status, "ignored")
                      /\ rs = Written(row[l].status, r.row.status, "ignored")
    OBVIOUS
  <1>4. /\ cand' = [cand EXCEPT ![l].status = cs] /\ row' = [row EXCEPT ![l].status = rs]
        /\ batch' = batch /\ directory' = directory /\ links' = links /\ merges' = merges
        /\ Done(w)
    BY <1>1, <1>2, <1>3 DEF CommitIgnore, OverlapInv, Columns
  <1>5. cs \in CandStatus /\ rs \in RowStatus
    BY <1>2, <1>3 DEF Written, CandStatus, RowStatus, Settled, OverlapInv, Columns
  <1>6. Columns'
    BY <1>2, <1>4, <1>5 DEF OverlapInv, Columns, Done
  <1>7. cand[l].status # "absent" /\ cs # "absent"
    BY <1>1, <1>2, <1>3 DEF CommitIgnore, Current, OverlapInv, Remembers, ReadsReview, Written
  <1> QED
    BY <1>2, <1>4, <1>6, <1>7, ReviewTold DEF Reviews, OverlapInv, Columns

LEMMA MergeTold ==
    ASSUME OverlapInv, NEW w \in Workers, CommitMerge(w)
    PROVE  OverlapInv'
  <1>1. PICK r, l, t, m : r = request[w] /\ l = r.line /\ t = r.target /\ m = MergeAction(r)
    OBVIOUS
  <1>2. r.op = "merge" /\ ReadsReview(r) /\ r.run = batch[r.batch].run
    BY <1>1 DEF CommitMerge, Current, OverlapInv, Remembers
  <1>3. /\ r \in ReviewRequest /\ l \in Lines /\ Csv[l].batch = r.batch /\ t \in Ids
        /\ r.before \in Entry /\ r.fields \in SUBSET Field /\ r.run \in 0..MaxRuns
        /\ r.row.status \in RowStatus /\ r.row.effect \in Ids \cup {0}
    BY <1>1, <1>2 DEF ReadsReview, ReviewRequest
  <1>4. /\ Exists(t) /\ cand[l].status # "absent" /\ directory[t] \in Entry
        /\ \A f \in r.fields : Original(t)[f] = Blank
    BY <1>1, <1>2, <1>3 DEF ReadsReview, OverlapInv, Columns
  <1>5. /\ m \in MergeRow /\ m.line = l /\ m.run = r.run /\ m.target = t /\ m.fields = r.fields
    BY <1>1, <1>3 DEF MergeAction, MergeRow
  <1>6. PICK rs, re : /\ rs = Written(row[l].status, r.row.status, "merged")
                      /\ re = Written(row[l].effect, r.row.effect, t)
    OBVIOUS
  <1>7. rs \in RowStatus /\ re \in Ids \cup {0} /\ "merged" \in CandStatus
    BY <1>3, <1>6 DEF Written, CandStatus, RowStatus, Settled, OverlapInv, Columns
  <1>8. /\ merges' = Append(merges, m) /\ Done(w) /\ batch' = batch /\ links' = links
        /\ directory' = [directory EXCEPT ![t] = Filled(directory[t], l, r.fields)]
        /\ cand' = [cand EXCEPT ![l].status = "merged"]
        /\ row' = [row EXCEPT ![l] = [status |-> rs, effect |-> re]]
    BY <1>1, <1>3, <1>6 DEF CommitMerge, OverlapInv, Columns
  <1>9. /\ directory' \in [Ids -> Entry]
        /\ \A i \in Ids : directory'[i].name = directory[i].name
                          /\ directory'[i].source = directory[i].source
        /\ \A i \in Ids, f \in Field : (i = t /\ f \in r.fields) \/ directory'[i][f] = directory[i][f]
        /\ \A i \in Ids \ {t} : directory'[i] = directory[i]
    BY <1>3, <1>4, <1>8, FilledEntry DEF OverlapInv, Columns
  <1>10. PICK n : n = Len(merges) + 1
    OBVIOUS
  <1>11. /\ merges' \in Seq(MergeRow)
         /\ DOMAIN merges' = DOMAIN merges \cup {n}
         /\ \A k \in DOMAIN merges : merges'[k] = merges[k]
         /\ merges'[n] = m
    BY <1>5, <1>8, <1>10 DEF OverlapInv, Columns
  <1>12. Columns'
    <2>1. cand' \in [Lines -> [status : CandStatus, target : Ids \cup {0}]]
      BY <1>3, <1>7, <1>8 DEF OverlapInv, Columns
    <2>2. row' \in [Lines -> [status : RowStatus, effect : Ids \cup {0}]]
      BY <1>3, <1>7, <1>8 DEF OverlapInv, Columns
    <2> QED
      BY <1>8, <1>9, <1>11, <2>1, <2>2 DEF OverlapInv, Columns, Done
  <1>13. \A k \in Lines : /\ cand'[k].target = cand[k].target
                          /\ cand'[k].status = "absent" <=> cand[k].status = "absent"
    BY <1>3, <1>4, <1>8 DEF OverlapInv, Columns
  <1>14. \A i \in Ids : /\ ~ Exists(i) => directory'[i] = directory[i]
                        /\ Exists(i) => \A f \in Field :
                             Original(i)[f] # Blank => directory'[i][f] = directory[i][f]
    BY <1>4, <1>9
  <1>15. Reviews
    BY <1>2, <1>3, <1>4, <1>5, <1>8, <1>9, <1>11, <1>13, <1>14 DEF Reviews
  <1> QED
    BY <1>8, <1>12, <1>15, ReviewTold

LEMMA UndoTold ==
    ASSUME OverlapInv, NEW w \in Workers, CommitUndo(w)
    PROVE  OverlapInv'
  <1>1. PICK r, n, l, t, m : /\ r = request[w] /\ n = r.merge /\ l = r.line /\ t = r.target
                             /\ m = merges[n]
    OBVIOUS
  <1>2. r.op = "undo" /\ ReadsReview(r) /\ r.stage \in {"candidate", "row"}
        /\ (r.lives => r.run = batch[r.batch].run)
    BY <1>1 DEF CommitUndo, Current, OverlapInv, Remembers
  <1>3. /\ n \in DOMAIN merges /\ m \in MergeRow /\ t = m.target /\ l = m.line
        /\ l \in Lines /\ t \in Ids /\ m.fields \in SUBSET Field
        /\ r.cand.status \in CandStatus /\ r.row.status \in RowStatus
        /\ r.row.effect \in Ids \cup {0} /\ r.lives \in BOOLEAN
    <2>1. n \in DOMAIN merges /\ t = m.target /\ l = m.line
      BY <1>1, <1>2 DEF ReadsReview
    <2>2. m \in MergeRow
      BY <1>1, <2>1 DEF OverlapInv, Columns
    <2> QED
      BY <1>1, <1>2, <2>1, <2>2 DEF MergeRow, ReadsReview, ReviewRequest
  <1>4. /\ Exists(t) /\ directory[t] \in Entry /\ \A f \in m.fields : Original(t)[f] = Blank
        /\ r.lives => cand[l].status # "absent"
    BY <1>1, <1>2, <1>3 DEF Recorded, ReadsReview, OverlapInv, Told, Columns
  <1>5. /\ directory' = [directory EXCEPT ![t] = Restored(directory[t], m)]
        /\ merges' = [merges EXCEPT ![n].undone = TRUE]
        /\ Done(w) /\ batch' = batch /\ links' = links
    BY <1>1, <1>3 DEF CommitUndo, OverlapInv, Columns
  <1>6. /\ directory' \in [Ids -> Entry]
        /\ \A i \in Ids : directory'[i].name = directory[i].name
                          /\ directory'[i].source = directory[i].source
        /\ \A i \in Ids, f \in Field : (i = t /\ f \in m.fields) \/ directory'[i][f] = directory[i][f]
        /\ \A i \in Ids \ {t} : directory'[i] = directory[i]
    <2>1. PICK e : e = Restored(directory[t], m)
      OBVIOUS
    <2>2. /\ e \in Entry /\ e.name = directory[t].name /\ e.source = directory[t].source
          /\ \A f \in Field : f \in m.fields \/ e[f] = directory[t][f]
      BY <1>3, <1>4, <2>1, RestoredEntry
    <2>3. directory' = [directory EXCEPT ![t] = e] /\ directory \in [Ids -> Entry]
      BY <1>5, <2>1 DEF OverlapInv, Columns
    <2> QED
      BY <1>3, <2>2, <2>3
  <1>7. /\ merges' \in Seq(MergeRow) /\ DOMAIN merges' = DOMAIN merges
        /\ \A k \in DOMAIN merges :
             /\ merges'[k].line = merges[k].line /\ merges'[k].run = merges[k].run
             /\ merges'[k].target = merges[k].target /\ merges'[k].fields = merges[k].fields
    <2>1. PICK x : x = [m EXCEPT !.undone = TRUE]
      OBVIOUS
    <2>2. /\ x \in MergeRow /\ x.line = m.line /\ x.run = m.run /\ x.target = m.target
          /\ x.fields = m.fields
      BY <1>3, <2>1 DEF MergeRow
    <2>3. merges' = [merges EXCEPT ![n] = x]
      BY <1>1, <1>3, <1>5, <2>1
    <2> QED
      BY <1>1, <1>3, <2>2, <2>3 DEF OverlapInv, Columns
  <1>8. /\ cand' \in [Lines -> [status : CandStatus, target : Ids \cup {0}]]
        /\ row' \in [Lines -> [status : RowStatus, effect : Ids \cup {0}]]
        /\ \A k \in Lines : /\ cand'[k].target = cand[k].target
                            /\ cand'[k].status = "absent" <=> cand[k].status = "absent"
    <2>1. CASE r.lives
      <3>1. PICK cs, rs, re :
              /\ cs = Written(cand[l].status, r.cand.status, "undo_applied")
              /\ rs = Written(row[l].status, r.row.status, "duplicate")
              /\ re = Written(row[l].effect, r.row.effect, 0)
        OBVIOUS
      <3>2. /\ cs \in CandStatus /\ cs # "absent" /\ rs \in RowStatus /\ re \in Ids \cup {0}
        BY <1>3, <1>4, <2>1, <3>1
           DEF Written, CandStatus, Unresolved, RowStatus, OverlapInv, Columns
      <3>3. /\ cand' = [cand EXCEPT ![l].status = cs]
            /\ row' = [row EXCEPT ![l] = [status |-> rs, effect |-> re]]
        BY <1>1, <1>3, <2>1, <3>1 DEF CommitUndo, Reopened, OverlapInv, Columns
      <3>4. /\ cand \in [Lines -> [status : CandStatus, target : Ids \cup {0}]]
            /\ row \in [Lines -> [status : RowStatus, effect : Ids \cup {0}]]
        BY DEF OverlapInv, Columns
      <3> QED
        BY <1>3, <1>4, <2>1, <3>2, <3>3, <3>4
    <2>2. CASE ~ r.lives
      BY <1>1, <2>2 DEF CommitUndo, OverlapInv, Columns
    <2> QED
      BY <2>1, <2>2
  <1>9. \A i \in Ids : /\ ~ Exists(i) => directory'[i] = directory[i]
                       /\ Exists(i) => \A f \in Field :
                            Original(i)[f] # Blank => directory'[i][f] = directory[i][f]
    BY <1>4, <1>6
  <1>10. Columns'
    BY <1>5, <1>6, <1>7, <1>8 DEF OverlapInv, Columns, Done
  <1>11. Reviews
    BY <1>5, <1>6, <1>7, <1>8, <1>9 DEF Reviews
  <1> QED
    BY <1>5, <1>10, <1>11, ReviewTold

LEMMA NormalizeTold ==
    ASSUME OverlapInv, NEW w \in Workers, CommitNormalize(w)
    PROVE  OverlapInv'
  <1>1. PICK r, b : r = request[w] /\ b = r.batch
    OBVIOUS
  <1>2. /\ r.op = "normalize" /\ b \in Batches /\ r.run = batch[b].run /\ ReadsNormalize(r)
    BY <1>1 DEF CommitNormalize, OverlapInv, Remembers
  <1>3. /\ batch[b].run \in 0..MaxRuns /\ batch[b].run < MaxRuns
        /\ batch' = [batch EXCEPT ![b] =
             [status |-> Written(batch[b].status, r.loaded, "normalized"),
              run |-> batch[b].run + 1]]
    BY <1>1, <1>2 DEF CommitNormalize, ReadsNormalize, OverlapInv, Columns
  <1>4. /\ batch' \in [Batches -> [status : BatchStatus, run : 0..MaxRuns]]
        /\ batch'[b].run = batch[b].run + 1 /\ \A c \in Batches \ {b} : batch'[c] = batch[c]
    <2>1. Written(batch[b].status, r.loaded, "normalized") \in BatchStatus
      BY <1>2 DEF Written, BatchStatus, OverlapInv, Columns
    <2> QED
      BY <1>2, <1>3, <2>1, BoundsAssumption DEF OverlapInv, Columns
  <1>5. \A l \in Lines : l \notin LinesOf(b) => row'[l] = row[l] /\ cand'[l] = cand[l]
    BY <1>1 DEF CommitNormalize
  <1>6. ASSUME NEW l \in LinesOf(b)
        PROVE  /\ l \in Lines
               /\ row'[l] \in [status : RowStatus, effect : Ids \cup {0}]
               /\ cand'[l] \in [status : CandStatus, target : Ids \cup {0}]
               /\ cand'[l].status # "absent" =>
                    cand'[l].target \in Ids /\ Exists(cand'[l].target)
    <2>1. /\ l \in Lines /\ r.found[l] \in Ids \cup {0}
          /\ r.found[l] # 0 => Exists(r.found[l])
      BY <1>1, <1>2 DEF LinesOf, ReadsNormalize
    <2>2. /\ row'[l] = [status |-> IF ~IsValid(l) THEN "invalid"
                                   ELSE IF r.found[l] # 0 THEN "duplicate" ELSE "valid",
                        effect |-> 0]
          /\ cand'[l] = IF r.found[l] = 0 THEN NoCand
                        ELSE [status |-> "open", target |-> r.found[l]]
      BY <1>1, <2>1 DEF CommitNormalize
    <2> QED
      BY <2>1, <2>2 DEF NoCand, RowStatus, CandStatus, Unresolved
  <1>7. /\ directory' = directory /\ links' = links /\ merges' = merges /\ Done(w)
        /\ \A l \in Lines : l \in LinesOf(b) <=> Csv[l].batch = b
    BY <1>1 DEF CommitNormalize, LinesOf
  <1>8. /\ row' \in [Lines -> [status : RowStatus, effect : Ids \cup {0}]]
        /\ cand' \in [Lines -> [status : CandStatus, target : Ids \cup {0}]]
    <2>1. row' = [l \in Lines |-> row'[l]] /\ cand' = [l \in Lines |-> cand'[l]]
      BY DEF CommitNormalize
    <2>2. \A l \in Lines : /\ row'[l] \in [status : RowStatus, effect : Ids \cup {0}]
                           /\ cand'[l] \in [status : CandStatus, target : Ids \cup {0}]
      BY <1>5, <1>6 DEF OverlapInv, Columns
    <2> QED
      BY <2>1, <2>2
  <1>9. Columns'
    BY <1>4, <1>7, <1>8 DEF OverlapInv, Columns, Done
  <1>10. PICK new : new = {}
    OBVIOUS
  <1>11. Advances(new)
    <2>1. \A c \in Batches : batch[c].run <= batch'[c].run
      BY <1>4, RunsTyped DEF OverlapInv
    <2>2. \A l \in Lines : batch'[Csv[l].batch].run = batch[Csv[l].batch].run =>
                              cand'[l] = cand[l]
      BY <1>3, <1>4, <1>5, <1>7
    <2> QED
      BY <1>7, <1>10, <2>1, <2>2 DEF Advances, Exists
  <1>15. ASSUME NEW l \in Lines, cand'[l].status # "absent"
         PROVE  cand'[l].target \in Ids /\ Exists(cand'[l].target)
    BY <1>5, <1>6, <1>15 DEF OverlapInv, Told
  <1>16. \A k \in DOMAIN merges' : Recorded(merges[k])'
    BY <1>7, <1>9, <1>11, RecordedStays DEF OverlapInv, Told
  <1>17. Told'
    BY <1>7, <1>15, <1>16 DEF OverlapInv, Told, OwnFieldsKept, Exists, Original
  <1> QED
    BY <1>7, <1>9, <1>10, <1>11, <1>17, Committed DEF Columns

LEMMA ApplyTold ==
    ASSUME OverlapInv, NEW w \in Workers, CommitApply(w)
    PROVE  OverlapInv'
  <1>1. PICK r, b, at : r = request[w] /\ b = r.batch /\ at = r.at
    OBVIOUS
  <1>2. r.op = "apply" /\ b \in Batches /\ ReadsApply(r)
    BY <1>1 DEF CommitApply, OverlapInv, Remembers
  <1>3. /\ Done(w) /\ cand' = cand /\ merges' = merges
        /\ batch' = [batch EXCEPT ![b].status = Written(batch[b].status, r.loaded, r.status)]
        /\ links' = links \cup (IF b \in Roster THEN LinksOf(r) ELSE {})
    BY <1>1, <1>2 DEF CommitApply, OverlapInv, Columns
  <1>4. /\ batch' \in [Batches -> [status : BatchStatus, run : 0..MaxRuns]]
        /\ \A c \in Batches : batch'[c].run = batch[c].run
    BY <1>2, <1>3 DEF ReadsApply, Written, OverlapInv, Columns
  <1>5. \A l \in DOMAIN at : /\ l \in Lines /\ Csv[l].batch = b /\ at[l] \in Ids
                             /\ IsValid(l)
    BY <1>1, <1>2, <1>3 DEF ReadsApply, LinesOf
  <1>7. row' \in [Lines -> [status : RowStatus, effect : Ids \cup {0}]]
    <2>1. row' = [l \in Lines |-> row'[l]]
      BY DEF CommitApply
    <2>2. ASSUME NEW l \in Lines
          PROVE  row'[l] \in [status : RowStatus, effect : Ids \cup {0}]
      <3>1. row[l] \in [status : RowStatus, effect : Ids \cup {0}]
        BY DEF OverlapInv, Columns
      <3>2. [row[l] EXCEPT !.status = "ignored"] \in [status : RowStatus, effect : Ids \cup {0}]
        BY <3>1 DEF RowStatus, Settled
      <3>3. l \in DOMAIN at =>
              [status |-> "applied", effect |-> at[l]] \in [status : RowStatus, effect : Ids \cup {0}]
        BY <1>5 DEF RowStatus, Settled
      <3>4. row'[l] = IF l \in DOMAIN at THEN [status |-> "applied", effect |-> at[l]]
                      ELSE IF l \in r.ignored THEN [row[l] EXCEPT !.status = "ignored"]
                      ELSE row[l]
        BY <1>1 DEF CommitApply
      <3> QED
        BY <3>1, <3>2, <3>3, <3>4
    <2> QED
      BY <2>1, <2>2
  <1>8. /\ r.creators \subseteq DOMAIN at
        /\ \A l \in r.creators : at[l] \in r.new /\ ~ Exists(at[l])
        /\ \A i \in r.new : \E l \in r.creators : at[l] = i
        /\ \A l, k \in r.creators : at[l] = at[k] => l = k
    <2>1. \A l, k \in r.creators : l \in Nat /\ k \in Nat /\ at[l] \in Nat /\ at[k] \in Nat
                                   /\ (l < k => at[l] < at[k])
      BY <1>1, <1>2, <1>5, LinesApart, BoundsAssumption DEF ReadsApply, Ids
    <2> QED
      BY <1>1, <1>2, <2>1 DEF ReadsApply
  <1>9. \A i \in Ids \ r.new : directory'[i] = directory[i]
    BY <1>1 DEF CommitApply
  <1>10. \A l \in r.creators : directory'[at[l]] = NewEntry(l)
    <2> SUFFICES ASSUME NEW l \in r.creators PROVE directory'[at[l]] = NewEntry(l)
      OBVIOUS
    <2>1. (CHOOSE k \in r.creators : at[k] = at[l]) = l
      BY <1>8
    <2> QED
      BY <1>1, <1>5, <1>8, <2>1 DEF CommitApply
  <1>11. directory' \in [Ids -> Entry]
    <2>1. \A i \in Ids : directory'[i] \in Entry
      BY <1>5, <1>8, <1>9, <1>10, ValueOfLine DEF OverlapInv, Columns
    <2> QED
      BY <2>1 DEF CommitApply
  <1>12. \A i \in r.new : i \in Ids /\ ~ Exists(i) /\ \E l \in r.creators : at[l] = i
    BY <1>5, <1>8
  <1>13. \A i \in Ids : Exists(i) => /\ directory'[i] = directory[i] /\ Exists(i)'
                                     /\ Original(i)' = Original(i)
    BY <1>9, <1>12 DEF Exists, Original
  <1>14. \A l \in r.creators : /\ directory'[at[l]].source = l
                               /\ directory'[at[l]].name = Csv[l].name
                               /\ directory'[at[l]].name # Blank
                               /\ Original(at[l])' = directory'[at[l]]
    <2> SUFFICES ASSUME NEW l \in r.creators
                 PROVE  /\ directory'[at[l]].source = l
                        /\ directory'[at[l]].name = Csv[l].name
                        /\ directory'[at[l]].name # Blank
                        /\ Original(at[l])' = directory'[at[l]]
      OBVIOUS
    <2>1. l \in Lines /\ IsValid(l) /\ l # 0
      BY <1>5, <1>8, LinesApart
    <2>2. directory'[at[l]].source = l /\ directory'[at[l]].name = Csv[l].name
      BY <1>10, <2>1, ValueOfLine
    <2>3. Csv[l].name # Blank
      BY <2>1 DEF IsValid
    <2> QED
      BY <1>10, <2>1, <2>2, <2>3 DEF Original
  <1>15. \A i \in Ids : Exists(i)' => Exists(i) \/ \E l \in r.creators : at[l] = i
    BY <1>9, <1>12 DEF Exists
  <1>16. OwnFieldsKept'
    <2> SUFFICES ASSUME NEW i \in Ids, Exists(i)', NEW f \in Field, Original(i)'[f] # Blank
                 PROVE  directory'[i][f] = Original(i)'[f]
      BY DEF OwnFieldsKept
    <2>1. CASE Exists(i)
      BY <1>13, <2>1 DEF OverlapInv, Told, OwnFieldsKept
    <2>2. CASE ~ Exists(i)
      BY <1>14, <1>15, <2>2
    <2> QED
      BY <2>1, <2>2
  <1>17. PICK new : new = r.new
    OBVIOUS
  <1>18. Advances(new)
    <2>1. \A i \in Ids \ new : ~ Exists(i) => ~ Exists(i)'
      BY <1>9, <1>17 DEF Exists
    <2>2. \A l \in Lines : cand'[l] = cand[l]
      BY <1>3
    <2>3. \A c \in Batches : batch[c].run <= batch'[c].run
      BY <1>4, RunsTyped DEF OverlapInv
    <2> QED
      BY <1>3, <1>13, <2>1, <2>2, <2>3 DEF Advances
  <1>19. links' \subseteq Ids \X {Csv[y].title : y \in Lines}
    BY <1>1, <1>3, <1>5 DEF OverlapInv, Columns, LinksOf
  <1>20. Columns'
    BY <1>3, <1>4, <1>7, <1>11, <1>19 DEF OverlapInv, Columns, Done
  <1>21. \A k \in DOMAIN merges' : Recorded(merges[k])'
    BY <1>3, <1>18, <1>20, RecordedStays DEF OverlapInv, Told
  <1>22. \A i \in Ids : Exists(i)' => directory'[i].name # Blank
    BY <1>13, <1>14, <1>15 DEF OverlapInv, Told
  <1>23. ASSUME NEW l \in Lines, cand'[l].status # "absent"
         PROVE  (cand[l].target \in Ids /\ Exists(cand[l].target))'
    <2>1. PICK i \in Ids : i = cand[l].target /\ i = cand'[l].target /\ Exists(i)
      BY <1>3, <1>23 DEF OverlapInv, Told
    <2> QED
      BY <1>13, <2>1 DEF Exists
  <1>24. Told'
    BY <1>16, <1>21, <1>22, <1>23 DEF Told, Exists
  <1> QED
    BY <1>1, <1>2, <1>3, <1>17, <1>18, <1>20, <1>24, Committed

LEMMA NextOverlap ==
    ASSUME OverlapInv, [Next]_vars
    PROVE  OverlapInv'
  <1>1. CASE UNCHANGED vars
    <2>1. UNCHANGED Tables /\ request' = request
      BY <1>1 DEF vars, Tables
    <2>2. Told' /\ \A r : Remembers(r) => Remembers(r)'
      BY <2>1, TablesTold
    <2>3. ASSUME NEW w \in Workers PROVE Remembers(request[w])'
      <3>1. PICK r : r = request[w] /\ r = request'[w]
        BY <2>1
      <3>2. Remembers(r)'
        BY <2>2, <3>1 DEF OverlapInv
      <3> QED
        BY <3>1, <3>2, RemembersNamed
    <2> QED
      BY <2>1, <2>2, <2>3 DEF OverlapInv, Tables, Columns, NewApart
  <1>2. CASE Next
    <2>1. CASE \E b \in Batches : UploadImportBatch(b)
      BY <2>1, UploadTold
    <2>2. ASSUME NEW w \in Workers, Start(w) PROVE OverlapInv'
      BY <2>2, NormalizeAsked, ApplyAsked, ReviewAsked, UndoAsked DEF Start
    <2>a. CASE \E w \in Workers : Load(w)
      BY <2>a, LoadAsked
    <2>3. ASSUME NEW w \in Workers, Commit(w) PROVE OverlapInv'
      BY <2>3, NormalizeTold, ApplyTold, IgnoreTold, MergeTold, UndoTold DEF Commit
    <2>4. CASE \E w \in Workers : AbortRequest(w)
      BY <2>4, AbortTold
    <2> QED
      BY <1>2, <2>1, <2>2, <2>a, <2>3, <2>4 DEF Next
  <1> QED
    BY <1>1, <1>2

LEMMA OverlapInvariant == Spec => []OverlapInv
  <1>1. OverlapInv /\ [Next]_vars => OverlapInv'
    BY NextOverlap
  <1> QED
    BY <1>1, OverlapInit, PTL DEF Spec

\* What an entry was created with is never lost, however requests overlap
\* (merge_duplicate_candidate, undo_merge_action).
THEOREM OwnFieldsSafe == Spec => []OwnFieldsKept
  <1>1. OverlapInv => OwnFieldsKept
    BY DEF OverlapInv, Told
  <1> QED
    BY <1>1, OverlapInvariant, PTL
=============================================================================
