-------------------------- MODULE TemplateVersions -------------------------
(***************************************************************************)
(* Document template governance: the versions of one template family, their *)
(* files, the objects these refer to, the ledger that keeps the objects,   *)
(* and the generation jobs that freeze the active version.                 *)
(*                                                                         *)
(* Grain of atomicity.  Every repository method is one transaction that    *)
(* locks what it changes, hence one action.  The service methods that read, *)
(* work for a while and then write (upload, inspect, compile, validate,    *)
(* and the creation of a job) are sessions: each reads in one action and   *)
(* writes in a later one.  Uploads and deletions in MinIO are actions of   *)
(* their own or part of the read they follow.                              *)
(*                                                                         *)
(* Abstractions.  A revision number is only ever compared with the one the *)
(* caller read, and every update of a row increments it, so a session      *)
(* remembers instead whether its row has been updated since (fresh).  A    *)
(* requester of a single transaction that passes an outdated revision      *)
(* changes nothing and is left out.  A content hash is the content: the    *)
(* manifest, and of each file its slot binding and what it was compiled    *)
(* from; the source of a file never changes.  An edit of any other field is *)
(* RenameFile, an edit of the document code an UpdateFile that keeps the   *)
(* binding.  Compiled template and preview are one object.  Legal holds are *)
(* left out: no code sets one.                                             *)
(***************************************************************************)
EXTENDS Naturals

CONSTANTS
    Versions, Files, Objects,  \* identifiers, each given out at most once
    Manifests, Bindings,       \* editable content of versions and files
    EmptyManifest,             \* the manifest {} of a new version
    Sessions,                  \* administrators and job requests at work
    NoVersion, NoFile, NoObject, NoBinding, NoContent

ASSUME TemplateAssumption ==
    /\ EmptyManifest \in Manifests
    /\ NoVersion \notin Versions
    /\ NoFile \notin Files
    /\ NoObject \notin Objects
    /\ NoBinding \notin Bindings

VARIABLES
    active,   \* document_template_family.active_version_id
    ver,      \* rows of document_template_version
    file,     \* rows of document_template_file
    owners,   \* live rows of document_template_storage_reference
    ledger,   \* retention_state of document_template_storage_object
    objects,  \* objects in MinIO
    jobs,     \* template side of annual_attachment_generation_job rows
    sess,     \* sessions
    unacked   \* history: objects whose registration committed with no answer

tables  == <<active, ver, file>>
storage == <<owners, ledger>>
vars    == <<active, ver, file, owners, ledger, objects, jobs, sess, unacked>>

FileContent == Files \X (Bindings \cup {NoBinding}) \X (Bindings \cup {NoBinding})
ContentType == [manifest : Manifests, files : SUBSET FileContent]
Hash == ContentType \cup {NoContent}

VersionStatus == {"unborn", "draft", "ready", "active", "retired", "deleted"}
FileStatus == {"unborn", "mapping", "ready", "invalid", "deleted"}
Retention == {"none", "active", "retained", "reclaim_candidate"}

FileStage == {"inspected", "compiled"}
VersionStage == {"reading", "validated"}
Stage == FileStage \cup VersionStage \cup {"idle", "uploaded", "undo", "freezing", "frozen"}

VersionRow == [status : VersionStatus, manifest : Manifests, sha : Hash, report : Hash]
FileRow == [status : FileStatus, ver : Versions \cup {NoVersion},
            src : Objects \cup {NoObject}, comp : Objects \cup {NoObject},
            binding : Bindings \cup {NoBinding}, built : Bindings \cup {NoBinding}]
JobRow == [ver : Versions, sha : Hash, files : SUBSET FileContent]
Session == [stage : Stage, ver : Versions \cup {NoVersion}, file : Files \cup {NoFile},
            fresh : BOOLEAN, obj : Objects \cup {NoObject},
            binding : Bindings \cup {NoBinding}, content : Hash,
            files : SUBSET FileContent, passed : BOOLEAN]

\* Every row has the shape its table declares.
TypeOK ==
    /\ active \in Versions \cup {NoVersion}
    /\ ver \in [Versions -> VersionRow]
    /\ file \in [Files -> FileRow]
    /\ owners \subseteq Objects \X Files
    /\ ledger \in [Objects -> Retention]
    /\ objects \subseteq Objects /\ unacked \subseteq Objects
    /\ jobs \subseteq JobRow
    /\ sess \in [Sessions -> Session]

Idle == [stage |-> "idle", ver |-> NoVersion, file |-> NoFile, fresh |-> TRUE,
         obj |-> NoObject, binding |-> NoBinding, content |-> NoContent,
         files |-> {}, passed |-> FALSE]

BlankVersion(status) == [status |-> status, manifest |-> EmptyManifest,
                         sha |-> NoContent, report |-> NoContent]
BlankFile(status) == [status |-> status, ver |-> NoVersion, src |-> NoObject,
                      comp |-> NoObject, binding |-> NoBinding, built |-> NoBinding]

Init ==
    /\ active = NoVersion
    /\ ver = [v \in Versions |-> BlankVersion("unborn")]
    /\ file = [f \in Files |-> BlankFile("unborn")]
    /\ owners = {}
    /\ ledger = [o \in Objects |-> "none"]
    /\ objects = {}
    /\ jobs = {}
    /\ sess = [s \in Sessions |-> Idle]
    /\ unacked = {}

----------------------------------------------------------------------------
(* Rows, their content and what they refer to.                             *)

VersionExists(v) == ver[v].status \notin {"unborn", "deleted"}
FileExists(f) == file[f].status \notin {"unborn", "deleted"}
FilesOf(v) == {f \in Files : FileExists(f) /\ file[f].ver = v}
Drafted(f) == FileExists(f) /\ ver[file[f].ver].status = "draft"

FilesContent(fs) == {<<f, file[f].binding, file[f].built>> : f \in fs}
Content(v) == [manifest |-> ver[v].manifest, files |-> FilesContent(FilesOf(v))]

Derived(f) == {<<file[f].comp, f>>} \cap (Objects \X Files)
Refs(f) == {<<file[f].src, f>>} \cup Derived(f)

\* A new object is stored for file f (NoFile: for a file yet to be added) under
\* a name that carries a fresh UUID.
Unused(o) == o \notin objects /\ ledger[o] = "none" /\ o \notin unacked
FreshPerFile(o, f) == IF f # NoFile /\ file[f].comp # NoObject THEN o = file[f].comp
                                                               ELSE Unused(o)
Fresh(o, f) == Unused(o)

\* _release_template_storage_references and _register_template_storage_reference:
\* an object whose last owner goes enters retention.
ReleaseUnasked(released, registered) ==
    /\ owners' = (owners \ released) \cup registered
    /\ ledger' = [o \in Objects |->
                    IF \E f \in Files : <<o, f>> \in registered THEN "active"
                    ELSE IF \E f \in Files : <<o, f>> \in released THEN "retained"
                    ELSE ledger[o]]

Release(released, registered) ==
    /\ owners' = (owners \ released) \cup registered
    /\ ledger' = [o \in Objects |->
                    IF \E f \in Files : <<o, f>> \in released \cup registered
                    THEN IF \E f \in Files : <<o, f>> \in owners' THEN "active" ELSE "retained"
                    ELSE ledger[o]]

\* Every update of a version or file row increments its revision: whoever read
\* the row before is outdated.
Outdated(vs, fs) ==
    [s \in Sessions |->
        IF \/ sess[s].stage \in VersionStage /\ sess[s].ver \in vs
           \/ sess[s].stage \in FileStage /\ sess[s].file \in fs
        THEN [sess[s] EXCEPT !.fresh = FALSE]
        ELSE sess[s]]

\* An edit of a draft or of its files voids the last validation.
Invalidate(v) == [ver EXCEPT ![v].sha = NoContent, ![v].report = NoContent]

----------------------------------------------------------------------------
(* Requests that are a single transaction.                                 *)

CreateVersion(v) ==
    /\ ver[v].status = "unborn"
    /\ ver' = [ver EXCEPT ![v] = BlankVersion("draft")]
    /\ UNCHANGED <<active, file, storage, objects, jobs, sess, unacked>>

UpdateVersion(v, m) ==
    /\ ver[v].status = "draft"
    /\ ver' = [Invalidate(v) EXCEPT ![v].manifest = m]
    /\ sess' = Outdated({v}, {})
    /\ UNCHANGED <<active, file, storage, objects, jobs, unacked>>

\* The clone shares the sources of the files it copies and has to be compiled anew.
CloneVersion(v, c) ==
    /\ VersionExists(v) /\ ver[c].status = "unborn"
    /\ ver' = [ver EXCEPT ![c] = [BlankVersion("draft") EXCEPT !.manifest = ver[v].manifest]]
    /\ \E origin \in [{f \in Files : file[f].status = "unborn"} -> FilesOf(v) \cup {NoFile}] :
         LET copies == {f \in DOMAIN origin : origin[f] # NoFile} IN
         /\ \A f \in FilesOf(v) : \E g \in copies : origin[g] = f
         /\ \A f, g \in copies : origin[f] = origin[g] => f = g
         /\ file' = [f \in Files |->
                       IF f \in copies
                       THEN [file[origin[f]] EXCEPT !.ver = c, !.comp = NoObject,
                                                    !.built = NoBinding, !.status = "mapping"]
                       ELSE file[f]]
         /\ Release({}, {<<file[origin[f]].src, f>> : f \in copies})
    /\ UNCHANGED <<active, objects, jobs, sess, unacked>>

\* A version a job has frozen is kept.
DeleteVersion(v) ==
    /\ ver[v].status \in {"draft", "retired"}
    /\ active # v
    /\ \A j \in jobs : j.ver # v
    /\ ver' = [ver EXCEPT ![v] = BlankVersion("deleted")]
    /\ file' = [f \in Files |-> IF f \in FilesOf(v) THEN BlankFile("deleted") ELSE file[f]]
    /\ Release(UNION {Refs(f) : f \in FilesOf(v)}, {})
    /\ sess' = Outdated({v}, FilesOf(v))
    /\ UNCHANGED <<active, objects, jobs, unacked>>

\* update_file of the document code or the binding drops the compiled template.
UpdateFile(f, b) ==
    /\ Drafted(f)
    /\ file' = [file EXCEPT ![f].binding = b, ![f].comp = NoObject,
                            ![f].built = NoBinding, ![f].status = "mapping"]
    /\ ver' = Invalidate(file[f].ver)
    /\ Release(Derived(f), {})
    /\ sess' = Outdated({file[f].ver}, {f})
    /\ UNCHANGED <<active, objects, jobs, unacked>>

\* Only display_name or sort_order change.
RenameFile(f) ==
    /\ Drafted(f)
    /\ ver' = Invalidate(file[f].ver)
    /\ sess' = Outdated({file[f].ver}, {f})
    /\ UNCHANGED <<active, file, storage, objects, jobs, unacked>>

DeleteFile(f) ==
    /\ Drafted(f)
    /\ file' = [file EXCEPT ![f] = BlankFile("deleted")]
    /\ ver' = Invalidate(file[f].ver)
    /\ Release(Refs(f), {})
    /\ sess' = Outdated({file[f].ver}, {f})
    /\ UNCHANGED <<active, objects, jobs, unacked>>

\* set_activation: the version that was active is retired and loses its
\* validation report, so that it has to be validated again before it comes back.
RetireAsSuperseded(v) == [ver EXCEPT ![v].status = "superseded", ![v].report = NoContent]
Retire(v) == [ver EXCEPT ![v].status = "retired", ![v].report = NoContent]

Superseded(v) == IF active \in Versions \ {v} THEN Retire(active) ELSE ver

Activate(v) ==
    /\ ver[v].status \in {"ready", "retired"}
    /\ ver[v].report # NoContent /\ ver[v].report = ver[v].sha
    /\ FilesOf(v) # {} /\ \A f \in FilesOf(v) : file[f].status = "ready"
    /\ ver' = [Superseded(v) EXCEPT ![v].status = "active"]
    /\ active' = v
    /\ sess' = Outdated({v, active}, {})
    /\ UNCHANGED <<file, storage, objects, jobs, unacked>>

Deactivate(v) ==
    /\ active = v /\ ver[v].status = "active"
    /\ ver' = Retire(v)
    /\ active' = NoVersion
    /\ sess' = Outdated({v}, {})
    /\ UNCHANGED <<file, storage, objects, jobs, unacked>>

\* plan_storage_reclamation, once the retention period is over.
PlanReclamation(o) ==
    /\ ledger[o] = "retained"
    /\ \A f \in Files : <<o, f>> \notin owners
    /\ ledger' = [ledger EXCEPT ![o] = "reclaim_candidate"]
    /\ UNCHANGED <<tables, owners, objects, jobs, sess, unacked>>

----------------------------------------------------------------------------
(* Requests that read first and write later.                               *)

Begins(s, new) == sess[s] = Idle /\ sess' = [sess EXCEPT ![s] = new]
Ends(s, others) == sess' = [others EXCEPT ![s] = Idle]

\* upload_file: the version is a draft when it is read; the source is stored.
UploadSource(s, v, o) ==
    /\ ver[v].status = "draft"
    /\ Fresh(o, NoFile)
    /\ objects' = objects \cup {o}
    /\ Begins(s, [Idle EXCEPT !.stage = "uploaded", !.ver = v, !.obj = o])
    /\ UNCHANGED <<tables, storage, jobs, unacked>>

\* add_file asks again for a draft, but for no revision.
AddFileRow(s, f) ==
    LET v == sess[s].ver IN
    /\ sess[s].stage = "uploaded"
    /\ ver[v].status = "draft"
    /\ file[f].status = "unborn"
    /\ file' = [file EXCEPT ![f] = [BlankFile("mapping") EXCEPT !.ver = v, !.src = sess[s].obj]]
    /\ ver' = Invalidate(v)
    /\ Release({}, {<<sess[s].obj, f>>})
    /\ UNCHANGED <<active, objects, jobs>>

\* inspect_file, or compile_file of a source that fails the inspection.
BeginInspection(s, f) ==
    /\ FileExists(f)
    /\ file[f].src \in objects
    /\ Begins(s, [Idle EXCEPT !.stage = "inspected", !.file = f])
    /\ UNCHANGED <<tables, storage, objects, jobs, unacked>>

RecordInspection(s) ==
    LET f == sess[s].file IN
    /\ sess[s].stage = "inspected"
    /\ IF sess[s].fresh /\ Drafted(f)
       THEN /\ \E status \in {"mapping", "invalid"} :
                 file' = [file EXCEPT ![f].comp = NoObject, ![f].built = NoBinding,
                                      ![f].status = status]
            /\ ver' = Invalidate(file[f].ver)
            /\ Release(Derived(f), {})
            /\ Ends(s, Outdated({file[f].ver}, {f}))
       ELSE /\ Ends(s, sess)
            /\ UNCHANGED <<file, ver, storage>>
    /\ UNCHANGED <<active, objects, jobs, unacked>>

\* compile_file: the row is read and the source compiled with a binding chosen
\* by the administrator; the result is stored.
CompileSource(s, f, b, o) ==
    /\ FileExists(f)
    /\ file[f].src \in objects
    /\ Fresh(o, f)
    /\ objects' = objects \cup {o}
    /\ Begins(s, [Idle EXCEPT !.stage = "compiled", !.file = f, !.obj = o, !.binding = b])
    /\ UNCHANGED <<tables, storage, jobs, unacked>>

\* record_compilation: the revision must be the one read, the version a draft.
MayRecordFresh(s) == sess[s].fresh /\ FileExists(sess[s].file)
MayRecord(s) == sess[s].fresh /\ Drafted(sess[s].file)

RecordCompiled(s) ==
    LET f == sess[s].file IN
    /\ sess[s].stage = "compiled"
    /\ MayRecord(s)
    /\ file' = [file EXCEPT ![f].binding = sess[s].binding, ![f].built = sess[s].binding,
                            ![f].comp = sess[s].obj, ![f].status = "ready"]
    /\ ver' = Invalidate(file[f].ver)
    /\ Release(Derived(f), {<<sess[s].obj, f>>})
    /\ UNCHANGED <<active, objects, jobs>>

\* Either commit is answered, or raises afterwards: the row is read again on a
\* new connection, and an exception there undoes the upload like any other.
Undoing(s) == [sess[s] EXCEPT !.stage = "undo", !.file = NoFile, !.ver = NoVersion,
                              !.binding = NoBinding, !.fresh = TRUE]

Answered(s, others) == Ends(s, others) /\ UNCHANGED unacked
Unanswered(s, others) ==
    /\ sess' = [others EXCEPT ![s] = Undoing(s)]
    /\ unacked' = unacked \cup {sess[s].obj}

AddFile(s, f) ==
    LET others == Outdated({sess[s].ver}, {}) IN
    AddFileRow(s, f) /\ (Answered(s, others) \/ Unanswered(s, others))

RecordCompilation(s) ==
    LET f == sess[s].file
        others == Outdated({file[f].ver}, {f}) IN
    RecordCompiled(s) /\ (Answered(s, others) \/ Unanswered(s, others))

\* The write is refused or fails, or the upload itself failed half-way.
WriteFails(s) ==
    /\ sess[s].stage \in {"uploaded", "compiled"}
    /\ sess' = [sess EXCEPT ![s] = Undoing(s)]
    /\ UNCHANGED <<tables, storage, objects, jobs, unacked>>

\* _cleanup_storage_refs; an error of the deletion is swallowed.
Undo(s) ==
    /\ sess[s].stage = "undo"
    /\ objects' \in {objects \ {sess[s].obj}, objects}
    /\ Ends(s, sess)
    /\ UNCHANGED <<tables, storage, jobs, unacked>>

\* validate_version: get_version reads the version row ...
ReadVersion(s, v) ==
    /\ VersionExists(v)
    /\ Begins(s, [Idle EXCEPT !.stage = "reading", !.ver = v,
                              !.content = [manifest |-> ver[v].manifest, files |-> {}]])
    /\ UNCHANGED <<tables, storage, objects, jobs, unacked>>

\* ... then its files; the gates look at rows and stored objects, and may fail
\* for reasons outside the model (antivirus, renderer).
GatesPass(v) ==
    /\ FilesOf(v) # {}
    /\ \A f \in FilesOf(v) :
         /\ file[f].status = "ready" /\ file[f].built = file[f].binding
         /\ {file[f].src, file[f].comp} \subseteq objects

ReadFiles(s) ==
    LET v == sess[s].ver IN
    /\ sess[s].stage = "reading"
    /\ \E passed \in {GatesPass(v), FALSE} :
         sess' = [sess EXCEPT ![s].stage = "validated", ![s].passed = passed,
                              ![s].content.files = FilesContent(FilesOf(v))]
    /\ UNCHANGED <<tables, storage, objects, jobs, unacked>>

MayValidateAny(s) == ver[sess[s].ver].status \in {"draft", "ready", "retired"}
MayValidate(s) == sess[s].fresh /\ ver[sess[s].ver].status \in {"draft", "ready", "retired"}

RecordValidation(s) ==
    LET v == sess[s].ver
        result == IF sess[s].passed THEN sess[s].content ELSE NoContent IN
    /\ sess[s].stage = "validated"
    /\ IF MayValidate(s)
       THEN /\ ver' = [ver EXCEPT ![v].sha = result, ![v].report = result,
                                  ![v].status = IF @ = "retired" THEN @
                                                ELSE IF sess[s].passed THEN "ready" ELSE "draft"]
            /\ Ends(s, Outdated({v}, {}))
       ELSE Ends(s, sess) /\ UNCHANGED ver
    /\ UNCHANGED <<active, file, storage, objects, jobs, unacked>>

\* create_attachment_job: get_active_template_snapshot reads the active version,
FreezeVersion(s, v) ==
    /\ active = v /\ ver[v].status = "active"
    /\ Begins(s, [Idle EXCEPT !.stage = "freezing", !.ver = v, !.content = ver[v].sha])
    /\ UNCHANGED <<tables, storage, objects, jobs, unacked>>

\* then its ready files; without any the request is refused;
AnyFiles(fs) == TRUE
SomeFiles(fs) == fs # {}

FreezeFiles(s) ==
    LET fs == {f \in FilesOf(sess[s].ver) : file[f].status = "ready"} IN
    /\ sess[s].stage = "freezing"
    /\ IF SomeFiles(fs)
       THEN sess' = [sess EXCEPT ![s].stage = "frozen", ![s].files = FilesContent(fs)]
       ELSE Ends(s, sess)
    /\ UNCHANGED <<tables, storage, objects, jobs, unacked>>

\* and much later the job is inserted, or not.
InsertJob(s) ==
    /\ sess[s].stage = "frozen"
    /\ jobs' = jobs \cup {[ver |-> sess[s].ver, sha |-> sess[s].content, files |-> sess[s].files]}
    /\ Ends(s, sess)
    /\ UNCHANGED <<tables, storage, objects, unacked>>

\* A session ends without writing: an exception, or its process dies.
Abandon(s) ==
    /\ sess[s] # Idle
    /\ Ends(s, sess)
    /\ UNCHANGED <<tables, storage, objects, jobs, unacked>>

----------------------------------------------------------------------------
\* Requests about a version, and about a file of one.
VersionRequest(v) ==
    \/ CreateVersion(v) \/ DeleteVersion(v) \/ Activate(v) \/ Deactivate(v)
    \/ \E m \in Manifests : UpdateVersion(v, m)
    \/ \E c \in Versions : CloneVersion(v, c)

FileRequest(f) ==
    \/ RenameFile(f) \/ DeleteFile(f)
    \/ \E b \in Bindings \cup {file[f].binding} : UpdateFile(f, b)

\* Requests that read first and write later.
SessionRequest(s) ==
    \/ \E v \in Versions, o \in Objects : UploadSource(s, v, o)
    \/ \E f \in Files, b \in Bindings, o \in Objects : CompileSource(s, f, b, o)
    \/ \E f \in Files : BeginInspection(s, f)
    \/ \E v \in Versions : ReadVersion(s, v) \/ FreezeVersion(s, v)

SessionStep(s) ==
    \/ \E f \in Files : AddFile(s, f)
    \/ RecordInspection(s) \/ RecordCompilation(s) \/ WriteFails(s) \/ Undo(s)
    \/ ReadFiles(s) \/ RecordValidation(s) \/ FreezeFiles(s) \/ InsertJob(s) \/ Abandon(s)

Next ==
    \/ \E v \in Versions : VersionRequest(v)
    \/ \E f \in Files : FileRequest(f)
    \/ \E o \in Objects : PlanReclamation(o)
    \/ \E s \in Sessions : SessionRequest(s) \/ SessionStep(s)

Spec == Init /\ [][Next]_vars

----------------------------------------------------------------------------
(* Properties.                                                             *)

\* The activation gate.  At most one version is active, the one its family
\* names, and it is exactly what its last validation approved: it has files, all
\* are ready and compiled from their present binding, and no edit that was under
\* way when it was validated or activated has slipped in.
ActiveIsApproved ==
    /\ \A v \in Versions : ver[v].status = "active" <=> active = v
    /\ active # NoVersion =>
         /\ ver[active].report = Content(active) /\ ver[active].sha = Content(active)
         /\ FilesOf(active) # {}
         /\ \A f \in FilesOf(active) : file[f].status = "ready" /\ file[f].built = file[f].binding

\* A version that has once been active never changes again, except by being
\* deleted as a whole, although compilations, inspections and validations of it
\* may still be under way.
OnceActiveFixed ==
    [][\A v \in Versions :
         ver[v].status \in {"active", "retired"} =>
           \/ ver'[v].status = "deleted"
           \/ ver'[v].status \in {"active", "retired"} /\ Content(v)' = Content(v)]_vars

\* What a file row points to is never in retention or planned for reclamation,
\* also when a version and its clones share it and some of them are deleted.
FileObjectsKept ==
    \A f \in Files : FileExists(f) =>
        \A o \in {file[f].src, file[f].comp} \ {NoObject} : ledger[o] = "active"

\* What a file row points to is stored: no compensation deletes it, unless the
\* answer to its very registration was lost.
FileObjectsStored ==
    \A f \in Files : FileExists(f) =>
        {file[f].src, file[f].comp} \ {NoObject} \subseteq objects \cup unacked

\* The two reads of a template snapshot fit together: a job's files are those
\* whose hash was approved, although the version may be retired, validated again
\* or deleted between the reads.
JobFilesApproved == \A j \in jobs : j.sha # NoContent /\ j.files = j.sha.files

\* A version that a job has frozen is not deleted.
JobVersionExists == \A j \in jobs : VersionExists(j.ver)

----------------------------------------------------------------------------
(* Refinement.                                                             *)

\* What jobs see of a version, and what a job request holds of it between its
\* two reads and until its job is inserted.
Seen(status) == CASE status = "active" -> "released"
                  [] status = "retired" -> "withdrawn"
                  [] status = "deleted" -> "gone"
                  [] OTHER -> "open"
HeldBy(x) == IF x.stage \in {"freezing", "frozen"} THEN [ver |-> x.ver, content |-> x.content]
                                                  ELSE [ver |-> NoVersion, content |-> NoContent]

SeenStage == [v \in Versions |-> Seen(ver[v].status)]
SeenContent == [v \in Versions |-> IF ver[v].status \in {"active", "retired"} THEN Content(v)
                                                                             ELSE NoContent]
Held == [s \in Sessions |-> HeldBy(sess[s])]

Promise == INSTANCE TemplateRelease
    WITH Contents <- ContentType, stage <- SeenStage, content <- SeenContent,
         current <- active, handed <- Held

\* Jobs are handed the released content and record just that, with its files:
\* the two reads of a snapshot and the insertion of the job, and the edits,
\* validations and compilations under way, do what TemplateRelease does in one
\* step each, or nothing it sees.
ImplementsRelease == Promise!Spec
============================================================================
