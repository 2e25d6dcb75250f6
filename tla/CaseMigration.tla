---------------------------- MODULE CaseMigration ----------------------------
(***************************************************************************)
(* The migration of a historical case, the structured import it shares     *)
(* with live uploads, and the repair that anchors imported rows to chunks. *)
(*                                                                         *)
(* A migration is a command an operator runs, one at a time, and runs      *)
(* again after a failure or a crash, perhaps over a folder whose files     *)
(* have changed since.  Batches of reviewed categories are imported;       *)
(* batches of the other categories are only stored, for manual review.     *)
(*                                                                         *)
(* Grain of atomicity.  Every transaction is an action; the look-up and    *)
(* the insert of _persist_dataset are two, as the transaction locks        *)
(* nothing in between.  The command may die, and a write may fail, between *)
(* any two of them.                                                        *)
(*                                                                         *)
(* Abstractions.  A content is a file's bytes, by their hash; it has one   *)
(* sheet of rows, or a complete workpaper, and all its rows are anchored   *)
(* together.  Which dataset a sheet is detected as depends on its header   *)
(* and, where two datasets score alike, on the category and the name it    *)
(* comes with: a content may be imported as one dataset and later, under   *)
(* another name, as another.  Objects of MinIO have deterministic names,   *)
(* so that storing one again changes nothing.  A version is the folder as  *)
(* the preflight found it, valid.                                          *)
(***************************************************************************)
EXTENDS Naturals, FiniteSets, Sequences

CONSTANTS
    Contents,
    Folders,        \* versions of the folder
    Batches,        \* number of categories, in the order of migration
    Reviewed,       \* the first so many are imported, the others only stored
    Uploaders,      \* live uploads
    Operator,       \* the migration command
    MaxRuns,        \* bound: runs of the command
    MaxUploads,     \* bound: live uploads
    FilesIn,        \* contents of every category in every version
    Datasets, NoDataset,
    DetectedAs,     \* what a content may be detected as, under some category and name
    ExpectedDataset \* what the plan of a version expects of a file of a category

ASSUME MigrationAssumption ==
    /\ Batches \in Nat /\ Reviewed \in 1..Batches
    /\ Operator \notin Uploaders
    /\ MaxRuns \in Nat /\ MaxUploads \in Nat /\ Folders # {} /\ Contents # {}
    /\ FilesIn \in [Folders -> [1..Batches -> SUBSET Contents]]
    /\ NoDataset \notin Datasets
    /\ DetectedAs \in [Contents -> SUBSET (Datasets \cup {NoDataset})]
    /\ \A f \in Folders, k \in 1..Reviewed : \A c \in FilesIn[f][k] :
           ExpectedDataset[f][k][c] \in DetectedAs[c] \cap Datasets

VARIABLES
    uploadBatch,    \* status of source_upload_batch and of material_event, and
                    \* the rows of source_file_upload_batch
    sourceFiles,    \* contents with a row in source_file
    classified,     \* pairs of a content and the category of a batch
    imports,        \* rows of annual_import_batch: who imported which content as what
    pages, chunks,  \* contents with rows in source_page and in source_chunk
    unbound,        \* contents with rows that have no anchor
    command,        \* the run of the migration under way
    looked,         \* look-ups of _persist_dataset not yet followed by an insert
    upload,         \* live uploads under way
    overlapped,     \* history: contents and datasets that two importers looked up together
    attempts, uploads   \* bound variables

mvars == <<uploadBatch, sourceFiles, classified, imports, pages, chunks, unbound, command,
           looked, upload, overlapped, attempts, uploads>>
fileRows == <<sourceFiles, classified, pages, chunks>>

Importers == Uploaders \cup {Operator}
Import(content, dataset, by) == [content |-> content, dataset |-> dataset, by |-> by]
BatchStatus == {"none", "processing", "completed", "failed"}
CommandStage == {"idle", "opening", "opened", "storing", "linking", "classifying", "importing",
                 "closing", "closed", "failing", "failed", "repairing", "binding"}

NoCommand == [pc |-> "idle", folder |-> CHOOSE f \in Folders : TRUE, batch |-> 1,
              todo |-> {}, erred |-> FALSE]
NoUpload == [pc |-> "idle", content |-> CHOOSE c \in Contents : TRUE]

\* Rows, the command and the uploads have the shapes of tables and handlers.
MigrationTypeOK ==
    /\ uploadBatch \in [1..Batches -> [status : BatchStatus, event : BatchStatus,
                                       links : SUBSET Contents]]
    /\ sourceFiles \subseteq Contents /\ classified \subseteq Contents \X (1..Batches)
    /\ imports \in Seq([content : Contents, dataset : Datasets, by : Importers])
    /\ pages \subseteq Contents /\ chunks \subseteq pages /\ unbound \subseteq Contents
    /\ command \in [pc : CommandStage, folder : Folders, batch : 1..Batches,
                    todo : SUBSET Contents, erred : BOOLEAN]
    /\ looked \subseteq [content : Contents, dataset : Datasets, by : Importers]
    /\ upload \in [Uploaders -> [pc : {"idle", "importing", "loading", "binding"},
                                 content : Contents]]
    /\ overlapped \subseteq Contents \X Datasets
    /\ attempts \in 0..MaxRuns /\ uploads \in 0..MaxUploads

MigrationInit ==
    /\ uploadBatch = [k \in 1..Batches |-> [status |-> "none", event |-> "none", links |-> {}]]
    /\ sourceFiles = {} /\ classified = {} /\ imports = <<>>
    /\ pages = {} /\ chunks = {} /\ unbound = {}
    /\ command = NoCommand /\ looked = {}
    /\ upload = [u \in Uploaders |-> NoUpload]
    /\ overlapped = {} /\ attempts = 0 /\ uploads = 0

----------------------------------------------------------------------------
(* Structured import, for the command and for live uploads.                *)

Key(l) == <<l.content, l.dataset>>

\* Mutant: an earlier import is recognised by the reference of its object.
ImportedByReference(l) == \E i \in DOMAIN imports : imports[i] = l

\* the look-up of _persist_dataset: content, sheet and dataset
Imported(l) == \E i \in DOMAIN imports : Key(imports[i]) = Key(l)

LookUp(l) ==
    /\ looked' = IF Imported(l) THEN looked ELSE looked \cup {l}
    /\ overlapped' = IF \E m \in looked : Key(m) = Key(l) /\ ~Imported(l)
                     THEN overlapped \cup {Key(l)} ELSE overlapped

InsertRows(l) ==
    /\ imports' = Append(imports, l)
    /\ unbound' = unbound \cup {l.content}

\* A row is anchored once its file, its page and its chunk are found.
Anchorable(contents) == contents \cap chunks
Bind(contents) == unbound' = unbound \ Anchorable(contents)

\* What the repair has to work on, and what it reports in the end.
Unanchored == unbound \cap sourceFiles
EveryRowAnchored == unbound = {}

----------------------------------------------------------------------------
(* The command.                                                            *)

Batch == command.batch
Plan == FilesIn[command.folder][Batch]
FileRows(c) == Import(c, ExpectedDataset[command.folder][Batch][c], Operator)
Running(pc) == command.pc = pc
Continue(pc) == command' = [command EXCEPT !.pc = pc]
MarkRow(st) == uploadBatch' = [uploadBatch EXCEPT ![Batch].status = st]
MarkEventRow(st) == uploadBatch' = [uploadBatch EXCEPT ![Batch].event = st]

\* _ensure_existing_batch_sources_match
SourcesMatch(folder, batches) ==
    \A k \in batches : uploadBatch[k].links \in {{}, FilesIn[folder][k]}

StartRun(folder) ==
    /\ Running("idle") /\ attempts < MaxRuns
    /\ SourcesMatch(folder, 1..Reviewed)
    /\ command' = [NoCommand EXCEPT !.pc = "opening", !.folder = folder]
    /\ attempts' = attempts + 1
    /\ UNCHANGED <<uploadBatch, fileRows, imports, unbound, looked, upload, overlapped, uploads>>

OpenBatch ==
    /\ \/ Running("opening") /\ MarkRow("processing") /\ Continue("opened")
       \/ Running("opened") /\ MarkEventRow("processing") /\ Continue("storing")
    /\ UNCHANGED <<fileRows, imports, unbound, looked, upload, overlapped, attempts, uploads>>

StoreSources ==
    /\ Running("storing")
    /\ sourceFiles' = sourceFiles \cup Plan
    /\ Continue("linking")
    /\ UNCHANGED <<uploadBatch, classified, imports, pages, chunks, unbound, looked, upload,
                   overlapped, attempts, uploads>>

LinkSources ==
    /\ Running("linking")
    /\ uploadBatch' = [uploadBatch EXCEPT ![Batch].links = @ \cup Plan]
    /\ Continue(IF Batch <= Reviewed THEN "classifying" ELSE "closing")
    /\ UNCHANGED <<fileRows, imports, unbound, looked, upload, overlapped, attempts, uploads>>

ClassifySources ==
    /\ Running("classifying")
    /\ classified' = classified \cup (Plan \X {Batch})
    /\ command' = [command EXCEPT !.pc = "importing", !.todo = Plan]
    /\ UNCHANGED <<uploadBatch, sourceFiles, imports, pages, chunks, unbound, looked, upload,
                   overlapped, attempts, uploads>>

\* One file: it is found imported, inserted, or reported as an error.
LookUpSource(c) ==
    /\ Running("importing") /\ c \in command.todo
    /\ \A l \in looked : l.by # Operator
    /\ LookUp(FileRows(c))
    /\ command' = IF Imported(FileRows(c)) THEN [command EXCEPT !.todo = @ \ {c}] ELSE command
    /\ UNCHANGED <<uploadBatch, fileRows, imports, unbound, upload, attempts, uploads>>

InsertSource ==
    \E l \in looked :
        /\ l.by = Operator
        /\ looked' = looked \ {l}
        /\ \/ /\ InsertRows(l)
              /\ command' = [command EXCEPT !.todo = @ \ {l.content}]
           \/ /\ command' = [command EXCEPT !.todo = @ \ {l.content}, !.erred = TRUE]
              /\ UNCHANGED <<imports, unbound>>
        /\ UNCHANGED <<uploadBatch, fileRows, upload, overlapped, attempts, uploads>>

\* Mutant: a batch is closed although one of its files was reported.
FinishImportAnyway ==
    /\ Running("importing") /\ command.todo = {}
    /\ Continue("closing")
    /\ UNCHANGED <<uploadBatch, fileRows, imports, unbound, looked, upload, overlapped, attempts,
                   uploads>>

FinishImport ==
    /\ Running("importing") /\ command.todo = {}
    /\ Continue(IF command.erred THEN "failing" ELSE "closing")
    /\ UNCHANGED <<uploadBatch, fileRows, imports, unbound, looked, upload, overlapped, attempts,
                   uploads>>

CloseBatch ==
    /\ Running("closing") /\ MarkRow("completed") /\ Continue("closed")
    /\ UNCHANGED <<fileRows, imports, unbound, looked, upload, overlapped, attempts, uploads>>

\* Mutant: off by one, a batch is opened after the last.
FinishBatchOnward ==
    /\ Running("closed") /\ MarkEventRow("completed")
    /\ command' = IF Batch = Reviewed
                  THEN [command EXCEPT !.pc = "repairing", !.todo = Unanchored]
                  ELSE IF Batch > Batches THEN NoCommand
                  ELSE [command EXCEPT !.pc = "opening", !.batch = @ + 1]
    /\ UNCHANGED <<fileRows, imports, unbound, looked, upload, overlapped, attempts, uploads>>

\* After the last reviewed batch the anchors are repaired.
FinishBatch ==
    /\ Running("closed") /\ MarkEventRow("completed")
    /\ command' = IF Batch = Reviewed
                  THEN [command EXCEPT !.pc = "repairing", !.todo = Unanchored]
                  ELSE IF Batch = Batches THEN NoCommand
                  ELSE [command EXCEPT !.pc = "opening", !.batch = @ + 1]
    /\ UNCHANGED <<fileRows, imports, unbound, looked, upload, overlapped, attempts, uploads>>

\* backfill_structured_source_anchors: a file that cannot be read is passed over.
RepairSource(c) ==
    /\ Running("repairing") /\ c \in command.todo \ chunks
    /\ IF c \in pages THEN chunks' = chunks \cup {c} /\ pages' = pages
                      ELSE pages' = pages \cup {c} /\ chunks' = chunks
    /\ UNCHANGED <<uploadBatch, sourceFiles, classified, imports, unbound, command, looked,
                   upload, overlapped, attempts, uploads>>

BindSources ==
    /\ Running("repairing") /\ Bind(command.todo) /\ Continue("binding")
    /\ UNCHANGED <<uploadBatch, fileRows, imports, looked, upload, overlapped, attempts, uploads>>

\* The batches for manual review follow if every row has its anchor.
FinishRepair ==
    /\ Running("binding")
    /\ command' = IF /\ EveryRowAnchored /\ Reviewed < Batches
                     /\ SourcesMatch(command.folder, (Reviewed + 1)..Batches)
                  THEN [command EXCEPT !.pc = "opening", !.batch = Reviewed + 1]
                  ELSE NoCommand
    /\ UNCHANGED <<uploadBatch, fileRows, imports, unbound, looked, upload, overlapped, attempts,
                   uploads>>

\* Any write of a batch may fail; the failure is recorded if that succeeds.
FailBatch ==
    /\ command.pc \in {"opening", "opened", "storing", "linking", "classifying", "closing",
                       "closed"}
    /\ Continue("failing")
    /\ UNCHANGED <<uploadBatch, fileRows, imports, unbound, looked, upload, overlapped, attempts,
                   uploads>>

RecordFailure ==
    /\ \/ Running("failing") /\ MarkRow("failed") /\ Continue("failed")
       \/ Running("failed") /\ MarkEventRow("failed") /\ command' = NoCommand
    /\ UNCHANGED <<fileRows, imports, unbound, looked, upload, overlapped, attempts, uploads>>

\* The process dies, or a write that is not covered fails.
CommandEnds ==
    /\ ~Running("idle")
    /\ command' = NoCommand
    /\ looked' = {l \in looked : l.by # Operator}
    /\ UNCHANGED <<uploadBatch, fileRows, imports, unbound, upload, overlapped, attempts, uploads>>

----------------------------------------------------------------------------
(* Live uploads: rows first, files, pages and chunks later, anchors last.  *)

\* Under the category and the name it comes with; a sheet that is not detected
\* is skipped.
StartImport(u, c, dataset) ==
    /\ upload[u].pc = "idle" /\ uploads < MaxUploads
    /\ IF dataset = NoDataset THEN UNCHANGED <<looked, overlapped>> ELSE LookUp(Import(c, dataset, u))
    /\ upload' = [upload EXCEPT ![u] = [pc |-> "importing", content |-> c]]
    /\ uploads' = uploads + 1
    /\ UNCHANGED <<uploadBatch, fileRows, imports, unbound, command, attempts>>

\* A failed insert is reported; the ingest goes on.
FinishInsert(u) ==
    /\ upload[u].pc = "importing"
    /\ looked' = {l \in looked : l.by # u}
    /\ \/ \E l \in looked : l.by = u /\ InsertRows(l)
       \/ UNCHANGED <<imports, unbound>>
    /\ upload' = [upload EXCEPT ![u].pc = "loading"]
    /\ UNCHANGED <<uploadBatch, fileRows, command, overlapped, attempts, uploads>>

LoadUpload(u) ==
    /\ upload[u].pc = "loading"
    /\ sourceFiles' = sourceFiles \cup {upload[u].content}
    /\ pages' = pages \cup {upload[u].content}
    /\ chunks' = chunks \cup {upload[u].content}
    /\ upload' = [upload EXCEPT ![u].pc = "binding"]
    /\ UNCHANGED <<uploadBatch, classified, imports, unbound, command, looked, overlapped,
                   attempts, uploads>>

BindUpload(u) ==
    /\ upload[u].pc = "binding" /\ Bind({upload[u].content})
    /\ upload' = [upload EXCEPT ![u] = NoUpload]
    /\ UNCHANGED <<uploadBatch, fileRows, imports, command, looked, overlapped, attempts, uploads>>

MigrationNext ==
    \/ \E f \in Folders : StartRun(f)
    \/ OpenBatch \/ StoreSources \/ LinkSources \/ ClassifySources \/ InsertSource
    \/ FinishImport \/ CloseBatch \/ FinishBatch \/ BindSources \/ FinishRepair
    \/ FailBatch \/ RecordFailure \/ CommandEnds
    \/ \E c \in Contents : LookUpSource(c) \/ RepairSource(c)
    \/ \E u \in Uploaders : \/ \E c \in Contents : \E dataset \in DetectedAs[c] : StartImport(u, c, dataset)
                            \/ FinishInsert(u) \/ LoadUpload(u) \/ BindUpload(u)

MigrationSpec == MigrationInit /\ [][MigrationNext]_mvars

----------------------------------------------------------------------------
(* Properties.                                                             *)

\* Whatever crashed, failed or was run again over a changed folder, a batch
\* that says it is completed holds the files of one version of the folder,
\* each of them stored and, in a reviewed category, classified and imported
\* as the dataset that version expects (apply_safe_plan,
\* _ensure_existing_batch_sources_match).
CompletedBatchWhole ==
    \A b \in 1..Batches : uploadBatch[b].status = "completed" =>
        /\ uploadBatch[b].links \subseteq sourceFiles
        /\ \E f \in Folders :
              /\ uploadBatch[b].links = FilesIn[f][b]
              /\ b <= Reviewed => \A c \in uploadBatch[b].links :
                     /\ <<c, b>> \in classified
                     /\ \E i \in DOMAIN imports : Key(imports[i]) = <<c, ExpectedDataset[f][b][c]>>

\* The rows of a file enter the accounts once as one dataset, whoever imports
\* it and whatever the object is called, unless two imports looked for it at the
\* same moment (_persist_dataset).  It says nothing of a file that is detected
\* as another dataset under another name, which is imported beside the first.
RowsImportedOnce ==
    \A i, j \in DOMAIN imports :
        i # j /\ Key(imports[i]) = Key(imports[j]) => Key(imports[i]) \in overlapped
=============================================================================
